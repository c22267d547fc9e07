# A verification of the Knish.IO C++ client

The repository is the C++ SDK of Knish.IO: a library that builds, signs and checks
*molecules* (transactions made of *atoms*), keeps the master secret they are signed
from, and talks to a validator over GraphQL.  This directory holds TLA+ models of the
parts of it that keep state, run concurrently, fail or have to agree with one another;
TLC configurations that check them on small instances; and proofs, checked by TLAPS,
that hold for instances of any size.  Paths below are relative to the repository's root.

## 1. The system

| part | state | operations | talks to |
|---|---|---|---|
| **GraphQL transport** `src/http/GraphQLClient.cpp` | cipher switch and context, retry configuration, pool of CURL handles, four statistics | `query`, `mutate`, `execute` (one thread each, `std::async`), setters, `getStats` | the network |
| **Storage backends** `src/storage/StorageBackend.cpp` | a map in memory; for a file, its JSON image on disk and a temporary file | `getItem`, `setItem`, `removeItem`, `keys`, `clear` | the file system |
| **Secret storage** `src/storage/SecretStorageProvider.cpp` | a primary and a recovery envelope per identity | `storeSecret`, `retrieveSecret`, `deleteSecret`, `recoverSecret`, `hasSecret`, `listSecrets` | a backend, the envelope |
| **Secret envelope** `src/storage/SecretEnvelope.cpp` | none | `seal`, `open` (PBKDF2 and AES-GCM) | OpenSSL |
| **Secure memory** `include/storage/SecureMemory.h` | buffers to be wiped | allocate, wipe | libsodium |
| **Client** `src/KnishIOClient.cpp` | secret, bundle, cell, OTS version, session token | `requestAuthToken`; `createToken/Wallet/Meta`, `claimShadowWallet`, `replenishToken`; `transferToken(s)`, `burnToken`, `fuseToken`, `deposit/withdrawBufferToken`; queries | transport, molecule, wallet, validator |
| **Molecule** `src/Molecule.cpp` | atoms, molecular hash, source and remainder wallets | eleven builders, `sign`, `check`, `verifyFromServerData`, JSON | atom, wallet |
| **Atom** `src/Atom.cpp` | one record | hash of a list of atoms, JSON | |
| **Wallet** `src/Wallet.cpp` | key, address, position, OTS version, ML-KEM keypair and parameter set, classical keypair, balance, token units | key derivation, version detection, `splitUnits`, `splitUnitsMulti`, `initializeMLKEM`, sealing and opening messages | algorithms, other wallets, the validator |
| **Responses**, **queries**, **mutations** `src/response/`, `include/query/`, `include/mutation/` | text | parse, format | |
| **Algorithms** `src/utility.cpp`, `src/crypto*.cpp` | none | base conversion, big integers, base64, SHAKE256, key generation, classical sealed boxes | |
| **Validator** (not in the repository) | the ledger: head of each identity's chain, token rows, accepted molecules | accept or reject a molecule, answer queries | |

How they interact.  An operation of the client asks the validator, through the transport,
for the wallet it must sign from; a builder of `Molecule` turns that wallet and the
caller's request into atoms; `sign` adds the signature; `check` must accept the molecule
before it is sent; the transport sends it, sealed when encryption is on, perhaps several
times; the answer is taken for an acceptance or a rejection.  Secrets reach the client
from a storage provider, which seals them and keeps them in a backend.

What is hard about it:

* **Interleaving.**  Every transport call runs on a thread of its own over state the
  setters change without a lock.  Storage providers lock inside their backend only, so two
  operations of several backend calls interleave.  Several clients of one identity race for
  the head of its chain.
* **Failure.**  A write or a rename fails after memory was changed; the process dies
  between two backend calls; one of two removals is refused.
* **Unreliable delivery.**  A copy of a molecule or its answer is lost; a retry sends it
  again; a copy that was given up on arrives later.
* **Ordering and reuse.**  A one-time position must not come to hold value again once it
  has signed; a wallet must not come back at an older OTS version.
* **Agreement of code written apart.**  Builders and `check`; `sign` and `verifyOts`; the
  maker's hash and what a validator serves.
* **Reconfiguration.**  A wallet advertises the identity of one ML-KEM parameter set and may
  be switched to the other while messages to the first are under way.
* **Numbers.**  Amounts are strings, `int`, `long long` and `double` in turn; a text is cut
  into pieces that do not divide it; limbs carry, and digits in front of them may be zeros.

`PROJECT.json` lists each hazard with its line and the properties that watch it.

## 2. What makes each part correct

* Transport: no attempt outside the login's own operations leaves in the clear when
  encryption was on from its beginning; the login is recognised in every form its queries
  take, and never blocked; a sealed answer is opened; a handle is never lost or shared; the
  retry budget holds; failures are counted once; calls come back.
* Backend: one atomic, durable image whatever fails; acknowledged updates survive.
* Secret storage: what was stored can be read back, and recovered, after a crash; what was
  deleted stays deleted, unless it was being recovered just then.
* Client and chain: an operation takes effect once, however often its molecule arrives;
  nothing is credited where it cannot be spent; a spent position never signs; no acceptance
  lowers an OTS version but that of a login signed from an AUTH wallet.
* Molecule: what the builders make passes `check`, up to the conversions section 4 names;
  what passes conserves a token of V atoms, and what a client sends every token, but for the
  withdrawal section 4 names; units go where their value goes; what is signed
  verifies, also when served back; what was changed does not, as far as its hash covers it.
* Wallet: it reads what was sealed for either identity of its key, and nothing else; no two
  wallets of version 2 share a key; a wallet of
  the ledger is bound to the version it was made at.
* Algorithms: a numeral keeps its value in another base and under addition, in the one form
  every client writes; base64 and served dates come back as what they stand for.

## 3. Modules

| module | models | refines or extends |
|---|---|---|
| `Transport` | the retry loop, the CipherHash gate, handle pool, setters, statistics | |
| `TransportProofs` | theorems about `Transport` | `Transport` |
| `DurableStore` | the promise of a file-backed `StorageBackend` (abstract) | |
| `FileStore` | `FileStorageBackend`: load, mutate, temporary file, rename, crash | implements `DurableStore` |
| `SecretStorage` | `AesGcmSecretStorageProvider` | composed with `DurableStore` as its backend |
| `StorageProofs` | theorems about `FileStore` and `SecretStorage` | `FileStore`, `SecretStorage` |
| `ContinuId` | the client's login and operations against the validator's chain | |
| `ContinuIdProofs` | theorems about `ContinuId` | `ContinuId` |
| `ValueMolecule` | every builder and `check`'s conservation rules | |
| `ValueMoleculeProofs` | theorems about `ValueMolecule` | `ValueMolecule`, `Sums` |
| `SignedMolecule` | hash, `sign`, `verifyOts`, `verifyFromServerData` | |
| `SignedMoleculeProofs` | theorems about `SignedMolecule` | `SignedMolecule`, `Sums` |
| `Sums` | lemmas: sums of sequences, loops, induction over the naturals | |
| `Messaging` | ML-KEM identities and classical boxes of wallets, and the messages between them | |
| `MessagingProofs` | theorems about `Messaging` | `Messaging` |
| `HexNumbers` | `charsetBaseConvert`, `CryptoBigInt` | |
| `Base64` | `toBase64`, `fromBase64` | `HexNumbers` |
| `WalletKeys` | `generateWalletKey`, addresses, `detectOtsVersion`, `bindOwnWalletOtsVersion` | `HexNumbers` |
| `Timestamps` | `toSignedTimestamp` | |
| `Codecs` | one call of any of these, on any small input | the four above |
| `CodecsProofs` | theorems about `Codecs` | `Codecs`, `Sums` |
| `MC...` | constants for TLC | the module they are named for |

`SecretStorage` runs over `DurableStore`, not over `FileStore`: `FileStore` is shown to
implement `DurableStore`, so what holds over the one holds over the other.

### Transport

`pc[c]` follows one call: `new`, `loop` (the head of the retry loop), `ready`, then with a
handle `gate` (about to read the switch), `wallet` and `key` (about to check either), `seal`,
`perform`, `inflight`, and at last `done` or `thrown`.  `Start` ... `GiveUp` are
`executeWithRetry`, `Acquire` ... `Unanswered` are `executeInternal`.  A setter is an action of
its own and may run between any two of these, as it may in the code, which locks none of
them; `setCipherContext` is its two assignments, the wallet (`SetCipherContext`) and the key
(`SetServerPubKey`).  Each read of the switch, the wallet or the key is a step, a sealing reads
both again, and what goes out is what was sealed before.  A torn `shared_ptr` or string is
undefined, with no outcomes to enumerate.

An operation is the words of its query: the keyword, its name, the field it asks for, and
the isotopes of a molecule it carries.  `ParseOperation` and `ShouldEncrypt` classify it as the
code does, by the first keyword anywhere and the first identifier after the first brace;
`Bootstrap` says, from what the operation is, which ones the login needs.

A handle is released on every way out, as the `unique_ptr`'s deleter does.  `getStats` is two
loads, in either order, because the writers never take the mutex it takes.  A status is its
class; a body is whether it is plain, opened or still an envelope.  `slept`, `wire`, `stable`
and `covered` (the attempts that have had encryption on from their beginning) only observe.

### DurableStore and FileStore

`DurableStore` has one durable image and one view of it per instance.  An update is made in
the view and either becomes durable whole (`Acknowledge`) or is reported as failed and stays
in the view (`Refuse`), which is what `setItem` really does when `persist` throws.
`FileStore` has the steps: `Mutate`, `WriteTemp`, `Rename`, `Return`, and `PersistFails` and
`Die` at each of them.  The refinement mapping hides an update until its rename
(`Seen`), because the mutex keeps readers out until then.

### SecretStorage

Each thread's `pc` names the backend call it makes next; between two calls any other thread
may run.  An envelope opens with the passphrase that sealed it and no other.  `SealFails`,
`PutPrimaryFails`, `PutRecoveryFails` and `RemoveFails` are the exceptions on the way.
`kept` and `enrolled` record what the last completed store promised; one that another
operation overlapped promises nothing.  `gone` says that a deletion was reported, whatever
else was under way, a `storeSecret` excepted; it ends with the next store, or when a
`recoverSecret` in `recovering`, which read the recovery envelope before the deletion,
writes it back.

### ContinuId

A client is `idle`, waiting for a query (`pointer`, `head`, `row`), waiting for the copy of
the molecule it sent (`sent`), or holding its answer (`answered`).  A wallet is a token, a
random position (a number never given out twice) and an OTS version.  The four kinds of
operation are the login, the USER-signed operations, `createToken` (which also makes the
token's row) and the value operations (which are signed by the row and move only the row).
The validator's rules are external; they are the ones the client's code and comments rely
on: a USER-signed molecule must come from the head, a value molecule from the row, a
remainder signed by an AUTH wallet becomes the head (`src/KnishIOClient.cpp:1055`).  The
validator looks at positions, and but for an authorization from an AUTH wallet does not
remember what it has seen: that a copy which comes twice changes the ledger once (`effects`)
is up to the positions the client chose.  An operation that ends drops its locals (`Respond`), as the
lambda it runs in does.  The clients may have logged in before the start.

### ValueMolecule

A wallet and a request are chosen; a builder makes the atoms or throws; `check` accepts or
refuses; `toJson` may still throw.  A molecule that is read (`Read`) may hold any atoms.
An atom is its isotope, token, value, units and owner.  Amounts, balances and values are
counted in halves of a token: `Whole` is what a cast from `double`, `stoll` or `stoi` leaves
of a number, and the debit names the balance as it was served.  A job may name the token
`USER`, and a withdrawal a source of another token, as callers may.  In transfers a list of units is a
set, for `splitUnits` asks only for membership; in a fusion it is a sequence, for its
length is taken.  `IntMax` stands for the largest `int`.

### SignedMolecule

A hash is what it was computed from, so it is injective in that; its symbols are arbitrary.
What it is computed from is not all of an atom: an atom has a `text` (the characters of its
fields, one after the other), a `cut` (where one field ends and the next begins) and an
`index`, and the hash of atoms without versions covers the text alone, for it joins the
fields with nothing in between.  Only the hash over versions covers all three.  Where a cut
moves, the wallet address keeps its place (the signature is checked against it), and the
number of atoms, written before each, has one digit.  A
signature is the number of times each chunk of the key was hashed; its text is a sequence
of places, cut as `sign` cuts it.  `verifyOts` accepts if the fragments put together are one
whole signature and each chain, run on, has length 16.  `AddAtom` after `Sign` lets a
molecule be signed again with fragments of an earlier signature in it.

### Messaging

A wallet object has a key and, derived from it, an ML-KEM identity at each of the two
parameter sets; it keeps the keypair of the configured one.  Several objects may share a
key.  A message is an envelope (`encryptMessageML`), an envelope in a map under its
recipient's hash share (`encryptStringML`, and the validator's answers, which are external)
or a classical sealed box.  `quotes` counts how often a text is JSON-encoded as a string,
for writers encode and only some readers decode; a message keeps what its sender `wrote`
beside what was sealed (`plain`), so that what is read can be compared with the former.  A
message may arrive damaged in its length or its bits.  Decapsulation with another identity yields another shared secret, so
only the tag tells; an empty key field (`ClearKey`) derives no identity.

### HexNumbers, Base64, WalletKeys, Timestamps and Codecs

Pure functions, written as the code computes them: limbs of `LimbDigits` digits packed from
the right, long division limb by limb, carries, the three-byte groups of base64, the days
of an era.  A numeral is the sequence of its digits.  `Codecs` calls each on every small
input, one call a step, and its properties compare the result with what the input stands
for: the value of a numeral, or the days of a date counted one year and month at a time.
Hashes are what was hashed; `Shake256` of a secret that is not hexadecimal is a constant.
Loops are recursive functions over their rounds, which a proof can unfold; the one whose
rounds are not known beforehand (`Remainders`) has more than enough and stands still once
nothing is left.  `%`, `\div` and shifts of the code are divisions by powers.

## 4. Runs

| run | question | bounds, and why they suffice |
|---|---|---|
| `transport_calls` | Do two concurrent calls, one perhaps of the login, keep the pool right? Are failures counted once, and can `getStats` subtract them? | 2 calls that may be refused, retried once, or fail closed, 3 handles (one more than can be needed, so an excess would show), 1 setter call, 2 polls, so that either load may come before or after any step of either call: every way out of `executeInternal` that needs no sealing, beside another call at any step.  Calls, handles and wallets are interchangeable |
| `transport_retry` | Is the login recognised, everything else of a covered attempt sealed, and a sealed answer opened? Does a call that retries stay in its budget, and end? | 1 call (the gate and the loop read nothing another call writes) of each of ten operations: the client's queries and molecules, a ContinuID query under another name and in shorthand, a balance query named like one; 2 wallets; up to 4 attempts, the ceiling of the backoff reached; 3 setter calls: a context and encryption on, and one change more (the limit, the wallet, the switch) between any two steps.  Liveness, so no symmetry |
| `file` | Is a file an atomic durable image? Do acknowledged updates survive? | 2 instances over one path, 2 keys, 2 crashes |
| `secret_promises` | Is a stored secret readable, recoverable, and gone when deleted? | 2 threads, 2 secrets, 2 passphrases, 2 crashes: one operation can be overtaken, and die, twice |
| `secret_delete` | *violated*: is deletion of both envelopes atomic? | 1 thread, 1 crash |
| `chain` | Do two clients at OTS versions 1 and 2 keep the chain spendable, its OTS version up, and every effect single? | 2 operations of any kinds, so that any two race, with 2 copies of each molecule, lost, late, answered with or without a verdict; 9 positions, enough for every behaviour of 2 operations but the last molecule of two logins that both fall back (one more position makes the run four minutes long and holds too; the proofs have no such bound); clients that have logged in or not, an identity that is new or not |
| `value_check` | Do builders and `check` agree, and does what passes conserve value, tokens and units? | balances 0 to 4 and amounts -1.5 to 3.5, in halves, `IntMax` 3 (so balances and amounts lie on both sides of it), 3 units, 2 recipients, 3 tokens, `USER` among them; served molecules of up to 3 atoms with values -0.5 to 0.5 |
| `value_sums` | *violated*: is the sum of every token's V atoms zero? | the same |
| `signed` | Is what was signed accepted, also when served without its versions, and what was changed refused, as far as the hash covers it? | 3 symbols in -2..2 (keys of 2 and 3 chains), 3 atoms, texts of 4 to 12 characters, most of which do not divide evenly, 2 signatures; one change in a served molecule: an atom's text, where its fields end, two atoms' indices, or all of them |
| `messaging_read` | Does every wallet of a key read what was sealed for either of its identities, and nothing else? | 2 wallet objects of one key and a stranger's key: each reads what the other sealed, or was sent under another configuration; 1 message at a time, of either form, damaged in any way; texts that are JSON strings already, or not |
| `messaging_box` | *violated*: does a wallet open what was sealed for its classical public key? | the same |
| `codecs` | Do the algorithms compute what their inputs stand for? | hexadecimal digits of base 4, limbs of 2 digits: numerals of 6 digits fill three limbs, sums carry across two and into a third; bases 1, 2, 5 and 7; bytes of 4 bits and 8 base64 symbols, so groups of one, two and three bytes; secrets with leading zeros, tokens that contain the delimiter; years on both sides of 1970, 1900, 2000 and 2100 and the year 0, days 0 to 32, the last second of a day, of an hour and of a minute and what lies past them, offsets across midnight and of more than a day |

`CHECK_DEADLOCK FALSE` is set where the bounded number of calls, operations or requests
ends and the model stops; `SecretStorage`, `Messaging` and `Codecs` never stop and are checked
for deadlock.

**Fairness.**  Only `CallsEnd` needs it: weak fairness of each call's step.  The code
justifies it: a call runs on its own thread, which the scheduler does not starve; a wait
between attempts is a bounded sleep; and `CURLOPT_TIMEOUT_MS` ends every `perform`
(`src/http/GraphQLClient.cpp`), so an attempt in flight always ends.

### Disagreements the runs show

* `secret_delete`: the changelog promises an atomic deletion (`:339`); the two envelopes go in
  two backend calls, either of which may be the last.
* `value_sums`: `verifyTokenIsotopeV` sums a token only at its first atom of *any* isotope,
  so a C, M or I atom of the token before its first V atom keeps the sum from being taken.
* `messaging_box`: `generatePublicAndPrivateKeys(publicKey, privateKey)` is called with
  `(privkey, pubkey)` (`src/Wallet.cpp:46`, `:69`), so the wallet's fields hold each other's
  key and `decryptMyMessage` opens nothing that was sealed for the wallet's public key.

In six more places the code departs from what a comment or document says of it.  Each is in
the model, and the property named here states what the code does, its exception included:

* `FailClosedSends`: a client with encryption on "fails closed rather than silently
  downgrading to plaintext" (`src/http/GraphQLClient.cpp:356`).  The switch is read once an
  attempt, long before the request leaves: switched on in between, it does not hold the
  request back.  What does hold is said of attempts for which it is on from the beginning.
* `DeletedStaysDeleted`: a `recoverSecret` that read the recovery envelope before a deletion
  writes it back afterwards (`src/storage/SecretStorageProvider.cpp:139`).
* `VersionKept`: "A client at version 1 keeps a version 2 identity at version 2"
  (`CHANGELOG.md:119`), but the AUTH wallet of a login's fallback has the configured version, and
  the new head follows it.
* `OwnMoleculesPass`: a deposit "Conserves to 0 across V+B" (`src/KnishIOClient.h:290`).  Of a
  balance with a fraction, which a token with decimals has (`README.md:250`), the debit names
  the text and the change is computed from the whole part; `check` refuses the molecule.
* `TokensConserved`: the cross-isotope check is there so that no "buffer molecule that created or
  destroyed value" verifies (`src/Molecule.cpp:1538`).  It sums all tokens together, and
  `withdrawBufferToken` does not compare the given wallet's token with the one it is asked
  for, so a withdrawal that turns what is left of one token into another is sent.
* `TimestampExact`: strings that are no RFC 3339 timestamp are passed on unchanged, says
  `src/Molecule.h:110`; a day up to 31 is accepted in every month, and 29 February 1900 becomes
  the first of March.

Others met while modelling, visible in the models but not given a run: an encryption switch
between two attempts makes the gate throw for a request that was sent
(`src/http/GraphQLClient.cpp:255`); `isConnected` survives a call that failed closed; a
negative `maxRetries` returns a status that was never written (`GiveUp`); an update whose
write failed stays in memory (`Refuse`); a position that signed a molecule the validator
never saw signs the next one too; a failed ContinuID query is taken for an identity without
a head (`HeadFails`); `createToken` reports success for a proposal that failed; a transfer
of a token named `USER` gets no ContinuID atom and is refused by `check`, as is one of a
balance with a fraction (`Unsendable`); a negative amount is transferred; a map sealed by a
wallet is read with one more layer of JSON quotes than its sender wrote (`OwnIdentitiesRead`; a
test, `legacy_mlkem768_compat.cpp:203`, takes them off by hand); a hash without versions does
not cover an index, nor where a field ends (`View`); a fusion that names a unit twice, and a unit listed for two recipients, are accepted; a balance above the
`int` range makes `transferToken` throw; `getStats` locks a mutex no writer takes and loads
its two counters apart, so their `size_t` difference can wrap although the class is called
thread-safe (`src/http/GraphQLClient.cpp:522`, `include/http/GraphQLClient.h:22`); a comment
says that only a rejection makes a login fall back, but `getStatus()` is never empty, so an
answer without a status does too (`src/KnishIOClient.cpp:1175`, `FallsBack`); `fromBase64`
passes over a stray character without realigning its group, unlike the `Buffer.from` its
comment names (`src/utility.cpp:341`, `Decoded`); version 1 keys run numeral and token
together, which version 2's delimiter repairs (`Sponge`).

## 5. Proofs

TLAPS checks these for every value of the constants that satisfies the modules'
assumptions.

`TransportProofs`, from `TransportAssumption` (the calls of a run are finitely many, and so
are the configurations it is given):

* `TypeCorrect`, `PoolCorrect`: `TypeOK /\ HandlesAccounted` is inductive.  It is needed as a
  conjunction: that a released handle is not already in the pool follows from every
  attempt's handle being its own, and that the null handle is never released from types.
* `PoolBounded`: by `NewHandle`; the handles are an image of the calls that hold one, since a
  handle is made only when the pool is empty.
* `AnswerReadable`: `Answering` says that the context still holds the wallet of a stable call
  in flight, and that a status no attempt wrote comes with no body.
* `NeverDowngrades`, `BootstrapNeverBlocked`: `Gating` follows a call from the gate to the
  network: whoever is past the switch is no login traffic, whoever is past the wallet's check
  finds a wallet when it seals, for none is ever withdrawn, and a covered call about to send
  has sealed.  Only `Send` extends `wire` (`WireStep`).  `ParsedAsWritten` shows that
  `parseOperation` finds keyword and field in any of the texts, whatever the operation is
  named, and `BypassExact` that what it classifies is exactly `Bootstrap`.
* `StatisticsCorrect`: assumes that no configuration has a negative `maxRetries`, as the
  code does.  The invariant is `Counting`: a call that has not ended carries the status of
  a failed attempt or none, failures are counted once per failed call, and an attempt has
  been counted for every call in `Tried`, a superset of the failed ones; `Polled` carries this
  over to a poll that loaded the failures first.
* `RetriesBounded` (`RetryBudget`): assumes that some configuration allows a retry
  or none, rather than fewer.  `Sending` says that a call sends once per attempt and that its
  attempt is within the limit of the configuration that let it begin; `Waiting`, that it has
  waited one delay for each backoff so far, and that its next delay is within its bound.  Both
  are needed for either: a setter may change the limit and the delays between two attempts,
  so neither follows from the configuration the call sees last.

`StorageProofs`, of the files, from `FileAssumption`:

* `FileTypeCorrect`, and `FileImplementsDurable`: `FileSpec => ImplementsDurable`, for any number of
  instances, keys, values and crashes, where the run has two instances.  The invariant is
  `Pending`: an update under way is exactly the difference between the memory and what
  readers see, the temporary file once written is the memory, and a closed instance has an
  empty memory.  Without it a rename could not be seen to make one update durable, for the
  step itself only copies the temporary file.  `Load` maps to `OpenStore`, `Rename` to
  `Acknowledge`, `PersistFails` to `Refuse`, `Die` to `Close`; the other steps stutter.
* `AcknowledgedCorrect`.  The file alone is not inductive: a rename replaces all of it.
  `Settling` adds that the one instance that is up holds every settled promise in memory too,
  and that no key is settled while two instances share the path.

`StorageProofs`, of the secrets, from `StorageAssumption` and `NothingAssumption`:

* `TypeCorrect`, with `Requested`: the passphrases of an operation under way are usable.
* `RecoveryCorrect`, `ReadableCorrect`, `DeletionCorrect`: one inductive invariant,
  `Promises`.  `Holds` says that a promised slot is in the file *and* in memory, for the next
  backend call writes the whole memory.  `Underway` carries the first backend call of an
  operation nobody overlapped to its second.  `Recoverable`, `Readable` and `Erasure` add who
  may still be under way: whoever may write the recovery slot writes what is in it; no one
  runs while a primary envelope is promised; whoever is about to write after a deletion is a
  `recoverSecret` that had read before it, and while a deletion is `clean` its first removal
  stands.

`ContinuIdProofs`, from `ChainAssumption`, for any number of clients, operations, copies and
positions:

* The invariant is `TypeOK /\ Chain /\ Operations`.  None of the properties is inductive
  alone: that an accepted molecule's position is left for good depends on what the molecules
  still under way would credit.  `Unborn` says that what a molecule credits is nowhere, on
  the ledger or as a source, before it is accepted; `Distinct` that no two molecules credit
  one position; `OneWallet` that a position determines its wallet; `Built` and `Placed` what
  molecules and the ledger look like.  `Numbered`, `Asking`, `Proposed` and `Told` follow the
  operations: each signs one molecule from a wallet of each token, and a client that is told
  of an acceptance has its molecule on the ledger.
* `Proposing` reduces every signing step to one new molecule at positions nobody took
  (`MayPropose` is what each step is shown to satisfy); `Applying` is the validator's step.
* `ChainCorrect` (`NothingStranded`) is a part of the invariant.  `EffectsCorrect`: `Applied`,
  part of `Chain`, counts what was applied; a molecule that was applied rests on a position the
  head and the row have left for good, so a second copy is not acceptable (`NotTwice`), and an
  operation that is no login signs from one token only, so `Numbered` leaves it one molecule
  (`OneMolecule`).
  `LoginsCorrect`: the molecules of a login split by their token into two sets of at most
  one.  `SpentCorrect` and `VersionCorrect` are action properties: a source on the ledger is
  no spent one (`Unspent`), and the wallet that is replaced is the one that signed
  (`OneWallet`), from which the successor takes its version, unless an AUTH wallet signed,
  whose version is the configured one (`Coherent`).  `TypeCorrect` is the type invariant, which no run lists on its own.

`MessagingProofs`, from `MessagingAssumption`, for any wallets, keys, texts and messages:

* The invariant adds `Keyed` (a key field is the key of construction, or empty) and
  `Addressed` (an ML-KEM message goes to an identity, a box to a box key, and an envelope is
  quoted).  Without `Keyed` a derived identity could be another wallet's.
* `AdvertisedCorrect`, `ReadsCorrect` and `SecrecyCorrect` follow; that a past read stays
  right is `Keyed` again, for a wallet that has its key had it then.  What a message holds is what its sender
  wrote, once more encoded if a wallet put it in a map (`Addressed`), and `EnvelopeRead` and
  `MapRead` follow the quotes through either reader.

With `FileImplementsDurable`, what is proved over `DurableStore` holds over files.  (The two
specifications are composed by hand: `SecretStorage` has one instance of the backend.)

`Sums` holds what the next three rest on, about induction, loops and the sum of any sequence
of integers:

* `LeastNumber`, `Naturals0`, `FiniteSets0`: induction over the naturals and over finite
  sets.  The library's induction theorems take a formula as a parameter, which the provers
  cannot instantiate; here the formula is the set of the numbers that satisfy it, and the
  least number outside it comes from the library's `WFMin`.
* `Loops`, `LoopRound`, `SameLoops`: a function defined from its previous value exists, takes
  the values it is defined to take, and is the only one.
* `PartialSums`: the fold under `FoldSeq` picks the elements in an order of its own; its
  recursion has a solution (built up to each cardinality in turn), and the sum of a set does
  not depend on which element goes first.  `SumRaised`: raising some elements by one raises
  the sum by their number.  `SumSteps` is the sum from the left, and `SumOfTwo` to
  `SumOfFour` are sums written out.

`ValueMoleculeProofs`, from `MoleculeAssumption` (the units that exist are finitely many), for
any wallets, amounts, units, recipients and served atoms:

* `CheckPasses` turns `Check` into `Passes(atoms)`, a condition on sums of sequences.  The
  invariant `Inv` says what each builder made of its job (`Made`), that a molecule that was
  sent passes, and that one that was refused does not.
* `PureTokensConserve` (`PureTokensSound`): a token of V atoms only has a least index, and
  its first atom is the V atom check sums it at.
* `BuildersPass` (`OwnMoleculesPass`): for each builder, its sums written out, and for
  `transferMany` `ManySums`, by induction over the amounts: a debit of the balance, a credit of
  each amount and the whole part of the balance less their sum as change: together they miss
  zero by the fraction (`WholePart`) and, in a transfer or burn, by a change that wrapped
  (`WrapValue`).  So the sums pass if and only if neither is there, in both directions of the
  property.
* `TokensCorrect` (`TokensConserved`): a molecule of one token has the sum check takes of it,
  whichever way check goes (`OneTokenSums`); of the two tokens a withdrawal may name, the
  change alone is of the second (`TwoTokenSums`).
* `UnitsGoWithValue` (`UnitsAccounted`): `SplitUnits` and its likes account for the units of
  the wallet as sent, kept or fused, and for their number as the value of the atom they are on.

`SignedMoleculeProofs`, from `SignAssumption` (which says too that `None` is no version and
no answer), for hashes, keys and texts of any length and
molecules of any number of atoms, signed any number of times:

* `Balances` (`NormalizedBalanced`), which includes that `normalize` ends.  `WalkNears`: one
  walk that does not reach zero brings the sum nearer to it, from the side it was on, since a
  list of symbols out of balance always has one that can move.  `FollowDefines` concludes
  that the recursion that defines `normalize` has a solution, and
  `NormalizeBalances` follows it down.
* The invariant `Inv` holds the text of the last signature together: `LastSigned` says what
  the hash was computed from, that each chain is as long as its symbol asks, and that with no
  atom added since every atom has the piece `sign` gave it (`Pieces`).  `NoneNewer`, that no
  atom has a piece of a signature to come, tells old pieces from new ones after the next.
* `FlattenPieces`: the pieces of a text, in order, are the text, when there are enough of
  them (`ChunksSuffice`: the division by the number of atoms is rounded up).  From this
  `LastAccepted` (`SignatureAccepted`) and, by the two views of the hash, `Genuine`
  (`GenuineVerifies`).  `FlattenHolds`: whatever is put together is there in the whole.  So
  a text that is accepted is the last one, for the first atom always has a piece of it, and
  no atom has any other: `Refused` (`ChangedRefused`), where `ViewTells` says what two lists of
  atoms with one view have in common, for either form of it.

`CodecsProofs`, from `HexAssumption` (a base of at least two, limbs of at least one digit),
`Base64Assumption` (a symbol has three bits for each two of a digit, as six have for four),
`VersionAssumption` and `AbsentAssumption` (results that are no value of the calls) and
`CodecsAssumption` (secrets and positions are not empty, and `Shake256` gives them digits),
for numerals of any length, in any base, with limbs of any width:

* The only invariant is `Answered`: the result is that of the call under way.  All the rest is
  about what the functions return, so the argument is over their recursions.  Each recursive
  function (powers, values, carries, rests, rounds) is shown to have a solution (`Loops`) and to
  be it, for any two solutions agree (`SameLoops`); then an induction over its rounds says
  what it computes.
* `PackIs`: a numeral cut into limbs is the same number, with the limbs as digits in a larger
  base (`CutValue`), whether or not the digits fill the first limb.  `WrittenAllIs` is the way
  back.
* `AdditionExactCorrect`: a carry is a bit, so each limb and its carry add up (`AddedIs`);
  zeros that pad the shorter operand or follow the last limb do not count (`FittedIs`,
  `NormalizeIs`), and `ToHexIs` cuts the zeros in front and no more.
* `RadixExactCorrect`: one long division divides the number (`DivideIs`), with quotients
  that fit a limb (`QuotientLimb`).  `Holding` is the invariant of the rounds: what is left,
  shifted by the digits there are, and these digits are together the number.  As a base is at
  least two, each round leaves at most half (`RoundIs`), so the rounds of `Remainders`
  suffice and the loop of the code ends.  A hash in the next base is no longer than it was
  (`ConvertedShort`), so the zeros in front of it make up exactly its length.
* `Base64RoundTripCorrect`: the value of a group, shifted to the front, divides by the
  symbols not written (`ShiftedIs`; two bytes are 16 bits of 18, one is 8 of 12), so the
  symbols that are written keep it; a numeral is determined by its length and value
  (`NumeralUnique`), so a group comes back (`GroupIs`), and the groups together (`ChunksFlat`).
* `FramesDistinctCorrect`: a numeral holds no delimiter, so the first one in a frame ends it,
  whatever follows (`Delimited`).
* `BindsMakerCorrect`: the address decides the version, since equal keys are of one version.
* `TimestampExactCorrect`: `LeapsCounted` counts the leap years before a year by quotients,
  from which `CivilDays` has the closed form of `daysFromCivil`; a fraction's decimals
  after the third do not count (`FirstThree`).  Days are counted on past the end
  of a month, so the calendar's month lengths play no part after the first.

Only model-checked: `CallsEnd`, which is liveness under fairness, and the three properties the
code violates.  Every invariant and action property of a passing run is a theorem.

## 6. Not modelled

* `MemorySecretStorageProvider`, `MemoryStorageBackend`: a map under a mutex.  The provider's
  `recoverSecret` lets go of the mutex between reading and storing; see the plan.
* Hashing, ML-KEM, AES-GCM and key generation themselves: the models take hashing as
  injective and encryption as opened by its key alone.
* Atom, molecule and wallet JSON, metas: layout.
* Queries, response parsing, validator-side policy: text, or outside the repository.
* Secure memory: whether a byte was wiped is not a property of the program's states.
* Buffer rows and the row a replenishment credits; a second identity set on a client with
  a session (`src/KnishIOClient.cpp:173`); the payload of a login (`:1109`).
* `keys`, `clear`, `listSecrets`, `hasSecret`: reads, or an update of every key at once.
* The kcore bridge, vendored code, build files, examples and the self-test programs.
* TLS, headers, timeouts as durations; the width of a `double`.

## 7. Plan

1. *Done.*  `Transport`, `DurableStore`/`FileStore`, `SecretStorage`, `ContinuId`,
   `ValueMolecule`, `SignedMolecule`; `Messaging`; the algorithms under `Codecs`; the proofs
   above, of every invariant and action property the runs check.
2. `MemorySecretStorage`: the in-memory provider against the promises of `SecretStorage`.
3. `ContinuId`: buffer rows and replenishment; a login that carries or lacks a key, joined
   with `Transport`'s cipher context; `setSecret` under a session.
