----------------------------- MODULE Timestamps -----------------------------
(***************************************************************************)
(* Molecule::toSignedTimestamp (Molecule.cpp): the createdAt a validator    *)
(* serves, in whatever form, as the milliseconds the molecule was signed    *)
(* with.  An instant is its days since 1970-01-01, the seconds of its day   *)
(* and the milliseconds of its second.                                      *)
(***************************************************************************)
EXTENDS Integers, Sequences

CONSTANTS Absent  \* no timestamp

DaySeconds == 86400

Instants == [days : Int, seconds : 0..(DaySeconds - 1), millis : 0..999]

ASSUME AbsentAssumption == Absent \notin Instants

DayOf(days, seconds, millis) ==
    [days |-> days + seconds \div DaySeconds, seconds |-> seconds % DaySeconds,
     millis |-> millis]

(* daysFromCivil: the year begins in March, in an era of 400 years.         *)
DaysFromCivil(year, month, day) ==
    LET y == IF month <= 2 THEN year - 1 ELSE year
        era == y \div 400
        yoe == y - era * 400
        doy == (153 * (IF month > 2 THEN month - 3 ELSE month + 9) + 2) \div 5 + day - 1
        doe == yoe * 365 + yoe \div 4 - yoe \div 100 + doy
    IN  era * 146097 + doe - 719468

Digit(fraction, i) == IF i <= Len(fraction) THEN fraction[i] ELSE 0

(* The digits that are there, with the zeros in front.                      *)
MillisPaddedLeft(fraction) ==
    CASE Len(fraction) = 0 -> 0
      [] Len(fraction) = 1 -> fraction[1]
      [] Len(fraction) = 2 -> 10 * fraction[1] + fraction[2]
      [] OTHER -> 100 * fraction[1] + 10 * fraction[2] + fraction[3]

(* The first three digits of the fraction, zeros after them.                *)
Millis(fraction) ==
    100 * Digit(fraction, 1) + 10 * Digit(fraction, 2) + Digit(fraction, 3)

(* parseRfc3339Millis, of a text that has the form; offset in minutes.      *)
ParseRfc3339Millis(t) ==
    IF \/ t.month \notin 1..12 \/ t.day \notin 1..31
       \/ t.hour > 23 \/ t.minute > 59 \/ t.second > 60
    THEN Absent
    ELSE DayOf(DaysFromCivil(t.year, t.month, t.day),
               t.hour * 3600 + t.minute * 60 + t.second - t.offset * 60,
               Millis(t.fraction))

(* A text of digits is passed on, as is one that parses as no date.         *)
ToSignedTimestamp(served) ==
    CASE served.form = "empty" -> Absent
      [] served.form \in {"digits", "other"} -> served
      [] served.form = "date" ->
            LET instant == ParseRfc3339Millis(served) IN
            IF instant = Absent THEN served ELSE instant
=============================================================================
