# A TLA+ verification of touchvault

touchvault (Go) keeps small secrets in a document that only a physical touch on
an enrolled FIDO2 security key can open. A random *data key* seals every secret;
each enrolled security key gets its own copy of the data key, wrapped under a key
derived from the security key's `hmac-secret` output over the vault's salt. This
directory models that system, checks it with TLC on small instances, and proves
its main properties with TLAPS for instances of any size.

## 1. The system

| Component | State | Operations | Hard part |
|---|---|---|---|
| Vault and sessions (`vault.go`) | the parsed document, one data key and one mutex per session | `Create`, `Open`/`OpenWith`, `Unlock`/`Administer`, `Lock`, `Session.Open`, `Put`, `Delete`, `EnrollKey`, `RemoveKey`, `ForceRemoveKey`, `Sealed` | calls that wait for up to three gestures; sessions that share one document under separate mutexes; state read before a gesture and used after it; crashes before `Sealed` is persisted |
| Sealed document (`sealed.go`) | format, RP ID, salt, two flags, key entries, secret entries | lookups, associated data, `marshal`, `parseSealed` | what survives JSON; uniqueness of slots, credentials and names |
| Sealing (`crypto.go`) | none | `deriveKEK`, `seal`, `open`, wrap and unwrap, `zero` | everything a seal binds must be the same when it is opened |
| Entropy gate (`entropy.go`) | none | `verifyDerivationDependsOnSalt` | a truncated salt looks healthy; a changed PIN can fake a difference |
| Authenticator port (`authenticator.go`) | none in the library; the security key has a PIN and two secrets per credential | `Enroll`, `Derive`, `Validate` | any answer may fail, come without a touch or without an output; verification is reported, not commanded |
| Attestation (`attestation.go`) | the bundled roots and intermediates, one pool shared by the process | `verifyGenuineHardware`, `BundledRoots` | every link of the chain, the signature and the AAGUID must be checked, against the pool of *this* vault; a refusal must precede any use of the credential |
| Slots (`slots.go`) | none | `SlotInfo`, `FreeSlot` | the gap between `FreeSlot` and `EnrollKey` |
| Secret reader (`vault.go`) | a plaintext buffer of its own | `Read`, `Close`, `ReadString` | it is used after the mutex of the call that made it is released |
| FIDO provider (`fido/`) | none | `New`, its guards, Windows `Enroll` and `Derive` | nothing may prompt from a test or an agent's shell; which credential answered; what counts as an answer |
| `winwebauthn` bindings (`fido/internal/winwebauthn`) | none | `MakeCredential`, `GetAssertion` | fields that exist from some version on; options a platform does not know; a salt passed as pointer and length |

How they interact: a caller owns the stored bytes. `OpenWith` parses them into a
document that every session unlocked from it points to. `Create`, `EnrollKey` and
`unlock` call the `Authenticator` and block; the platform owns the prompt and its
timeout. `EnrollKey` and `Create` run attestation after `Enroll` and the entropy
gate after the first `Derive`. Nothing reaches storage until the caller writes
what `Sealed` returned.

What makes each part correct:

- **Vault**: any one enrolled key recovers everything; nobody gets the data key
  without a touch; a key is added only after attestation, two reported touches and
  the gate; nothing leaves the document unasked; every prompting call returns.
- **Document**: what was persisted reopens, and opens as before.
- **Gate**: it catches every truncation of the salt.
- **Errors**: a changed PIN is never reported as a broken vault.
- **Sessions**: goroutines that share a session read and change the document as if
  one after the other; no read yields anything after `Lock`; `Lock` gets its turn.
- **Associated data**: its bytes determine every bound field, and a wrapped key is
  never a secret.
- **Attestation**: exactly the working keys of vendors the vault's caller trusts.
- **Provider**: only answers that the port allows, the whole salt for the key, never a
  prompt from automation.

## 2. The modules

| Module | Models | Notes |
|---|---|---|
| `Entropy` | `entropy.go` | A salt is a function from positions to bytes. A derivation path (key plus marshaling) is the set of positions it reads. `hmacSecret` is an ideal PRF of the credential, the verification and the bytes that were read. |
| `Authenticator` | `authenticator.go` | The set of answers the port's contract allows for each request. The key itself is external. |
| `SealedVault` | `sealed.go`, `crypto.go` | The document as a record, entries as sets. A seal is the record of its key, plaintext and associated data; it opens exactly under the same key and associated data. `marshal` applies `JSONText` to every string. |
| `Vault` | `vault.go` | The state machine of the calls, split at every prompt. |
| `AbstractVault` | the promises of `doc.go` and of the interfaces in `vault.go` | Recoverable secrets, openers and unlocked sessions; every call atomic. |
| `VaultRefinement` | | The mapping from `Vault` to `AbstractVault`. |
| `SharedDocument` | `vault.go`, `sealed.go`, `slots.go` | The calls of several goroutines on one document, split at every memory access. |
| `AADEncoding` | `sealed.go` | The bytes of the associated data. |
| `AuthenticatorPort` | `authenticator.go` | The port's contract as a specification: requests, and the answers of `Authenticator`. |
| `Attestation` | `attestation.go` | The cascade of checks over symbolic certificates and signatures. |
| `Provider` | `fido/`, `fido/internal/winwebauthn` | The Windows provider; `webauthn.dll` is external. |
| `Enrollment` | `vault.go`, `attestation.go` | Composes `Provider` and `Attestation` with the core's verdict and the trust anchors of two vaults. |
| `MCVault`, `MCSharedDocument`, `MCAADEncoding`, `MCEnrollment` | | Instances for TLC. |
| `VaultProofs`, `BindingProofs`, `CallProofs` | | Theorems about `Vault`. |
| `SharedProofs`, `EncodingProofs`, `EnrollmentProofs` | | Theorems about `SharedDocument`, `AADEncoding` and `Enrollment` with `Provider` and `Attestation`. |

State of `Vault` and the code it stands for:

- `doc`, `opened`, `roots`: the `*sealedVault` in memory, whether it belongs to a
  `vault` (from `OpenWith`) or only to the `Admin` that `Create` returned, and the
  trust anchors of the `Options` in force.
- `sess[s]`: `session.dataKey`. `Wiped` stands for bytes after `zero` and for the
  nil that follows it. `Absent` is a session nobody has unlocked.
- `call[s]`: the frame of a call that holds the session's mutex while the operator
  is prompted: its arguments and what it has learnt so far. A call that prompts
  nobody runs under the mutex from start to end and is one step.
- `ret`: the last return value, with the touches reported to the call and, for a
  removal that succeeded, the slot or the name it was asked to remove.
- `store`: the bytes the caller persisted.
- `pin`, `reads`: the operator's keys and the paths to them (environment).

Each prompting call is one action up to its prompt (`Create`, `EnrollKey`,
`Unlock`) and one action per answer (`EnrollAnswered`, `DeriveAnswered`,
`ProbeAnswered`, `UnlockAnswered`). The refusals of each call are one operator
(`enrollKeyError`, `unlockError`, ...) in the order of the code's early returns.
`random = FALSE` stands for a failing random source. `Exit` ends the process at
any point, prompts included; `ChangePIN` lets the operator change a PIN at any
point, also between two prompts of one call.

`VaultRefinement` maps a document to **what can be recovered from it**: the
credentials whose entries really unwrap over a healthy path, and the secrets that
open under a data key which an unlocked session holds or one of those entries
unwraps. A listed entry that will never open is therefore absent from the abstract
vault, and a call that leaves one behind, or makes a secret unreadable, is not a
step of `AbstractVault`. Prompts and refusals are stutters.

`SharedDocument` takes the grain of the memory model. `doc.Secrets` is a header of
two words (`ptr`, `len`) over backing arrays that `append` may replace and `Delete`
shifts in place. A read loads the words of the header in either order, then copies
each element in two loads (its name, its box); a write stores them one by one.
Each call holds its session's mutex; sessions of one vault have different mutexes
and the same document. `FreeSlot` and `EnrollKey` are two calls with a gap. Of the
key entries the model keeps how many have each slot (`slots`); their order matters
to none of the calls.
`content` is a history variable: what the completed calls have put under each name.

`Provider` splits a request around the platform's dialog: `Ask` or `Refuse`, then
`PlatformMakes` or `PlatformAsserts`, which let `webauthn.dll` fail, succeed without
a structure, or leave a structure of some version with fields missing, then
`EnrollReturns` or `DeriveReturns`, the Go code from the `HRESULT` on. A field that
is read although the structure's version does not have it yields any value. The
platform reads the options up to the version they declare and it knows; options of a
later version than it knows it may refuse, or read as far as it knows them. The code
sends version 6, which has the salt, without asking whether the platform knows it. The
repository does not say from which API version on it does, so that is the parameter
`SaltApi`. A structure records which credential really answered (`by`) and
whether the key had an output to give (`prf`), for the properties only.

In `Attestation` a certificate names its issuer; a signature names the certificate
whose key made it and what it covers. In `Enrollment` a pool of anchors is held by
reference, as `*x509.CertPool` is, so a pool that two vaults share by mistake would
be shared in the model too. A key may present any statement of its set `Statements`;
the one thing assumed (`HardwareAssumption`) is that a signature over fresh data is
made with a key pair certified by the maker of the hardware that holds it.

Operators marked *Mutant* are faulty variants used to confirm that each property
can fail; no specification uses them.

### Abstractions

- In `Vault` the slices are sets. Listings are sorted in the code, and where slots,
  names and credentials are unique the first match is the only one. `StoreReopens`
  checks that they are, and `SliceMatchesContent` that the slice is the set.
- Cryptography is symbolic and nonces are left out. In `SealedVault` the associated
  data is the record of its fields, with the slot narrowed to `UInt32Range` as in the
  code; `AADEncoding` has the bytes, and `BytesSayWhatIsBound` with
  `KindsAreDisjoint` is what permits the record.
- In `Vault` attestation is its verdict, `Vendor[k] \in pool`. `Enrollment` shows
  with `OnlyTrustedHardware` and `GenuineHardwareEnrolls` that this is what the
  cascade decides, and with `ImplementsPort` that the answers `Vault` is prepared for
  are all that the provider gives.
- One document is in memory at a time: no second `OpenWith` of the same bytes in
  one process.
- In `Vault`, calls that prompt nobody are atomic. `shared_document` justifies that
  for goroutines that share a session. For a reader on a session of its own it does
  not hold, see `shared_race`: the runs of `Vault` are about programs whose calls do
  not overlap in this way.
- `Serialized = TRUE` in all runs: callers serialize administration, as the `Admin`
  documentation demands, so no administrative call starts while another session's
  `EnrollKey` waits. Reads, `Lock`, `Sealed` and `Unlock` stay concurrent.
- A platform timeout is a refusal, possible at every prompt. The core sets no timeout
  of its own, so its conversion to 32-bit milliseconds always sees `DefaultTimeout`
  and is left out. So are the other options that are only passed through: the
  verification preference and the hints' values.
- In `Provider` lists of credential IDs are sets; the code does not depend on order.
- In `SharedDocument` `Put`'s and `Delete`'s own loads are not split: writers are
  serialized, so nobody changes what they load. Every store is split.

## 3. The runs

| Run | Config | Shows |
|---|---|---|
| `vault_faults` | `VaultFaults.cfg` | All calls, all refusals, one session, two keys of two vendors, truncating paths, PIN changes, crashes. |
| `vault_sessions` | `VaultSessions.cfg` | Two sessions on one document, interleaved at every prompt; one physical key with two credentials; the refinement of `AbstractVault`. |
| `vault_progress` | `VaultProgress.cfg` | Every prompting call returns, under fairness. |
| `shared_document` | `SharedDocument.cfg` | Two goroutines on one session, interleaved at every memory access: reads, `Put`, `Delete`, `EnrollKey`, `RemoveKey`, `Lock`. |
| `aad_encoding` | `AADEncoding.cfg` | Every pair of seals over bounded fields. |
| `enrollment` | `Enrollment.cfg` | The provider under every answer of the platform, the core's verdict, two vaults with their own anchors. |
| `ill_formed_names` | `IllFormedNames.cfg` | Finding: names that are not UTF-8 do not survive `marshal`. |
| `headless_salt` | `HeadlessSalt.cfg` | Finding: the gate proves dependence on the last byte, hence on all of a *truncated* salt, but not on the whole of a salt that lost its head. |
| `pin_walkthrough` | `PINWalkthrough.cfg` | Finding: `EnrollKey` requests `UVRequired` of keys that may have no PIN. |
| `forced_removal` | `ForcedRemoval.cfg` | Finding: removing the last key is not final while the session lives. |
| `shared_race` | `SharedRace.cfg` | Finding: a reader and a single administrator, each with its own session of one vault, share no lock; the reader combines the old array with the new length and reads past its end. |
| `moved_entries` | `MovedEntries.cfg` | Two findings: the associated data of a key entry binds 32 bits of its slot and nothing of its label, so an entry moved to a slot 2^32 away under another label still opens. |

Properties of the passing runs:

- `EveryKeyOpensEverySecret`: each entry, in memory and persisted, unwraps to one
  data key under what its key derives on a healthy path, that data key opens every
  secret, and no session holds another.
- `StoreReopens`: `parseSealed` accepts whatever was persisted.
- `NeverLooksCorrupt`: a decryption failure reaches a caller only from an unlock
  over a path that drops salt bytes.
- `NoAccessWithoutTouch`: a session comes to hold a data key only at the end of a
  touched `Create` or `Unlock`.
- `EnrollmentIsEarned`: an entry appears in memory only by `OpenWith`, or by a `Create`
  or `EnrollKey` that succeeds after two touches, for trusted hardware, in a free slot.
- `NothingVanishes`: a key leaves only by a removal that was asked for *its* slot and
  succeeds, one at a time, the last only by force; a name leaves only by a `Delete` that
  was asked for it and succeeds.
- `EveryCallReturns`: liveness.
- `ImplementsAbstractVault`: each call's effect on what can be recovered appears at
  one moment, whole or not at all; only unlocked sessions change anything; nothing
  recoverable is lost but by the calls that say so.
- `NoMemoryCorruption`, `ReadsAreAtomic`: no read goes past its array, and each
  returns a value (or an absence) its name had while the call ran.
- `SliceMatchesContent`: between calls the slice lists each name once, with what the
  completed calls put there.
- `SlotsUnique`: goroutines that choose slots with `FreeSlot` at the same time never
  fill one twice.
- `NoReadAfterLock`, `LockReturns`: safety and liveness of `Lock`.
- `BytesSayWhatIsBound`, `KindsAreDisjoint`: the encoding of associated data is
  injective on what it is meant to bind, within a kind and across kinds. Of key entries
  the first compares those whose slots fit in a uint32; `moved_entries` has the others.
- `AutomationNeverPrompts`: no dialog under a test binary or an agent.
- `HealthyKeyDerives`: on every platform whose options have a salt, with hints or
  without, the options are understood, and a key that answers in full yields its output
  over the whole salt, for the credential that answered. An older platform refuses the
  options or returns no output; both are errors that the port allows.
- `ImplementsPort`: the provider refines `AuthenticatorPort`, for assertion structures
  of version 3 on.
- `OnlyTrustedHardware`, `GenuineHardwareEnrolls`: soundness and completeness of the
  verdict on an enrollment, relative to what this vault's caller chose to trust.
- `NoPasskeySlotSpent`: a credential stored on the key is refused wherever the
  platform reports it.
- `TypeOK`, in `Vault` and in `SharedDocument`.

### Bounds

- Two keys and two credentials: a primary and a backup, and (`OneHolder`) one key
  enrolled twice. A third adds no new relation between entries.
- `SaltLen = 2`, `MaxByte = 1`: a proper prefix, the last byte, and the difference
  between the two. The proofs cover every length and width.
- Slots -1, 0 and 1 and `UInt32Range = 2`: negative, first, free.
- One secret name and the empty name; one value. Two names matter only for the JSON
  collision, where `ill_formed_names` has two, and for "no other name" in
  `NothingVanishes`, which the theorem `NothingLost` covers for any number of names.
- Two data keys with one session, symmetric: the data key that a document is bound
  to can be confused with another. Two sessions with one data key, where the wiped
  key takes that role.
- `SharedDocument`: two goroutines, two names, two values. Two names are needed for
  an array that grows, an element that shifts and a tail that is reused. `MaxSlots = 2`
  caps the enrolled keys. `shared_document` has one session, `shared_race` two.
- `AADEncoding`: a byte is a bit, so that a word of four bytes wraps at 16. Names of
  five bytes are long enough to look like a credential ID with its length, RP IDs of
  two lengths can shift the fields after them, and slot 16 is the first that the
  narrowing confuses with another (15 the last it does not). The proofs cover every
  width and length.
- `Enrollment`: a key with a bundled intermediate, one without, and a software
  authenticator that shows others' certificates and replays others' signatures; API
  versions before the salt (5), with the salt (`SaltApi = 6`) and with the hints (7),
  attestation structures on both sides of
  `bResidentKey`. Assertion structures are of version 3: with version 2 in
  `AssertionVersions` `ImplementsPort` fails, since `hmacSecret` is read unchecked.
  Platforms that know the salt option return 3 or later.
- No counter needs a cap in `Vault`: its state space is finite because documents are.

Deadlock checking is on in every run.

### Fairness

`FairSpec` asks for weak fairness of `Answered(s)`: a prompt on screen is answered
or given up. The code justifies it with the timeout every request carries
(`DefaultTimeout`, 60 s), which the platform enforces. No fairness is asked of
callers, of `Exit` or of `ChangePIN`.

In `SharedDocument` a goroutine inside a call runs on (weak fairness of `Proceed`);
this includes that the caller's reader ends and that a prompt is answered or times
out. Getting the mutex is strongly fair, which `sync.Mutex` provides: a waiter that
has failed for a millisecond is handed the mutex directly. A reader given to `Put`
that never ends would hold the mutex for ever.

## 4. The proofs

All theorems hold for every value of the constants that satisfies the named
assumptions of the modules; TLC evaluates these on each run. The invariants named
below (`...Inv`) are defined beside the properties they support, and TLC has
confirmed each of them on the instances of the runs.

Every safety invariant, every action property and one of the two refinements that a
passing run checks is also a theorem:

| Theorem | Property | Hypotheses | Inductive invariant |
|---|---|---|---|
| `VaultProofs.TypeCorrect` | `TypeOK` | | `TypeInv` |
| `BindingProofs.EveryKeyOpens` | `EveryKeyOpensEverySecret` | `PrefixReads`, `UTF8Inputs` | `BindInv` |
| `CallProofs.AccessNeedsTouch` | `NoAccessWithoutTouch` | | `EarnInv` |
| `CallProofs.EnrollmentEarned` | `EnrollmentIsEarned` | `Serialized` | `EarnInv`, `SerialInv` |
| `CallProofs.NothingLost` | `NothingVanishes` | `Serialized` | `SerialInv` |
| `CallProofs.Reopens` | `StoreReopens` | `Serialized`, `UTF8Inputs` | `ReopenInv` |
| `CallProofs.CorruptionIsReal` | `NeverLooksCorrupt` | `PrefixReads`, `UTF8Inputs` | `BindInv` |
| `SharedProofs.LockedStaysLocked` | `NoReadAfterLock` | | `CallInv` |
| `SharedProofs.SliceKeepsContent` | `SliceMatchesContent` | `AdminSerialized` | `SliceInv` |
| `SharedProofs.KeysKeepTheirSlots` | `SlotsUnique` | `AdminSerialized` | `SlotInv` |
| `SharedProofs.TypesKept` | `TypeOK` | `AdminSerialized` | all of these |
| `SharedProofs.MemoryIsSafe` | `NoMemoryCorruption` | `OneSessionOnly` | `ReadInv` |
| `SharedProofs.ReadsReturnOneMoment` | `ReadsAreAtomic` | `OneSessionOnly` | `ReadInv` |
| `EnrollmentProofs.NoPromptUnderAutomation` | `AutomationNeverPrompts` | | `EnrollInv` |
| `EnrollmentProofs.TrustedHardwareOnly` | `OnlyTrustedHardware` | | `EnrollInv` |
| `EnrollmentProofs.GenuineAccepted` | `GenuineHardwareEnrolls` | | `EnrollInv` |
| `EnrollmentProofs.PasskeySlotsKept` | `NoPasskeySlotSpent` | | `EnrollInv` |
| `EnrollmentProofs.HealthyAnswersReturn` | `HealthyKeyDerives` | assertions of version 3 on | `EnrollInv` |
| `EnrollmentProofs.ProviderImplementsPort` | `ImplementsPort` | assertions of version 3 on | `EnrollInv` |
| `EncodingProofs.EncodingIsFaithful` | `BytesSayWhatIsBound` | (the property is about slots below the uint32 range) | `seal \in Seals` |
| `EncodingProofs.KindsNeverCollide` | `KindsAreDisjoint` | | `seal \in Seals` |

`BindingProofs.GateCatchesTruncation` and `GatePassesHealthyPaths` are about the gate
alone.

### The hypotheses

- `PrefixReads`: paths truncate the salt, the failure that the gate is written
  against. `headless_salt` shows what happens without it.
- `UTF8Inputs`: RP IDs and names are UTF-8. `ill_formed_names` shows why.
- `Serialized`, and its counterpart `AdminSerialized` at the grain of `SharedDocument`:
  callers serialize administration, as the documentation of `Admin` demands
  (`vault.go:138-155`). Without it two sessions can fill one slot. Reads on other
  sessions stay concurrent.
- `OneSessionOnly`: every goroutine shares one session, so one mutex. `shared_race`
  is the run that shows the two theorems false without it.
- Assertions of version 3 on: `hmacSecret` is a field of version 3 and the code reads
  it unchecked. Platforms that know the salt option return it.

`LengthAssumption` of `AADEncoding` says that strings are shorter than a uint32 can
count. `HardwareAssumption` of `Enrollment` says that fresh signatures come from
certified hardware.

### The arguments

- **Types.** `TypeOK` is not inductive, because the type of an entry written at the
  last gesture depends on what the frame learnt at earlier ones. `TypeInv` adds what a
  call may rely on across prompts (`CallConsistent`): its document is there, nobody
  else is creating one, an enrolling session holds a data key, and the output it will
  wrap under was derived for its credential over its document's salt.
- **The gate.** Over a path that reads the first `n` bytes the gate passes only if `n`
  is the salt's length; a healthy path that answers is never refused, because bytes
  have an odd maximum and so none is its own complement.
- **Every key opens.** `BindInv` adds to `TypeInv` and the property itself that the
  texts bound into seals are ones callers passed. The gate forces `reads = Positions`
  at the end of an enrollment, so the wrapped entry is the one a healthy path derives;
  `headerDecides` shows that opening depends on a document only through its header,
  which no call changes after `Create`; so an action has only to bind the entries it
  adds (`updateBound`), and JSON leaves the bound texts alone (`marshalBound`).
  `NeverLooksCorrupt` follows: an unlock that gets as far as unwrapping has the
  recorded verification, so what it derives over a healthy path opens the entry.
- **Touches and trust.** `EarnInv` says that an enrollment which has left its first
  prompt has a credential of a key that the roots in force vouch for, and one that has
  left its second was touched. `SerialInv` says that what `EnrollKey` checked before
  its gestures (`Undisturbed`: the slot is free, and once probed the credential is new) still
  holds after them, and that the document in memory is one `parseSealed` would accept;
  `ReopenInv` adds that JSON keeps its texts, so what is stored is too.
- **The slice.** `CallInv` says where each call is and that it holds its mutex between
  entering and returning. With `AdminSerialized` there is at most one writer, so
  `SliceInv` can say how far that writer has come: what its scan has passed has other
  names; the header it is about to store is that of a whole new slice; while it shifts,
  the array is whole but for one element. `lists(a, I, held)` is the relation between
  an array and a map that these three share; its lemmas replace, append and remove an
  element. That `len` never exceeds the number of names is a counting argument over
  `FiniteSetTheorems`. With `OneSessionOnly` nobody writes while a reader is inside
  (`insideAlone`), so `ReadInv` can say that the two words and the name a reader has
  loaded are still current.
- **Enrollment.** `EnrollInv` keeps the pools apart (`roots[v]` is `v`'s own pool or
  the default, which nobody changes) and says that a verdict is still the one which the
  pools and the material in hand give. Chains are defined as the least set of issuers
  closed under the intermediates (`issuersWithin`), so "every certificate in the chain
  belongs to one vendor" follows by showing that the certificates of that vendor are
  such a set, without induction over the chain's length.
- **The port.** The refinement maps the provider's phases to a request that is open or
  not and the answer last given. The step that matters is `DeriveReturns`: the options
  carried the whole salt, so an output is `hmacSecret` of the credential that answered,
  over the whole salt, with the verification that the same data reports.
- **The encoding.** Four lemmas about quotients give that `bigEndian` says its number
  modulo the uint32 range and nothing else (`wordSays`), hence a number below that range
  exactly. The associated data is then read from the front: parts of one length can be
  cancelled (`cancel`), a prefix that fits gives the length of the string after it
  (`prefixedSays`), so the header is determined whatever follows it (`headerSays`), and
  so is the kind byte.

### Only model-checked

- `ImplementsAbstractVault`: in the prover's reach, and next in the plan.
- `EveryCallReturns` and `LockReturns`: liveness under fairness, which the prover does
  not do. The same holds for the properties that the six runs with findings refute.

No module uses a `RECURSIVE` operator, and no theorem needs induction over data.

## 5. Plan

Done: the core; the abstract vault and the refinement; the shared document with its
race and `FreeSlot`; the bytes of the associated data; attestation;
the provider, and enrollment across provider, core and vaults; the proofs of section 4.

Left, in order:

1. **Proofs**: `ImplementsAbstractVault`, step by step on top of `BindInv` and
   `SerialInv`: `headerDecides` gives that what a document's entries open is unchanged
   by calls that leave its header alone.
2. **Integrity**: the stored document altered between two runs of the program. What
   the associated data detects follows from `aad_encoding`, what it does not from
   `moved_entries`; a run would add what `Unlock` and `Open` then report.

### Not modelled

- Struct layouts, field offsets, pointer liveness and the copies out of memory that
  `webauthn.dll` owns: memory layout, which the package's own layout test covers.
- `roots/`: certificate data. Parsing of DER and PEM is one outcome, `Unparseable`.
- `describeAttestation`, `HRESULT` names and all message texts; the formatting of
  listings; `Available`, a constant of the build.
- Two documents opened from the same bytes: the storage and both writes are the
  caller's, and no code here could notice.
- What a caller does with a secret's reader: `Close` with its `sync.Once` and wipe, a read
  after it, `ReadString`'s error path. The reader has a buffer of its own (`CopyBox`), so
  this is sequential code that no other call can disturb.
- Constant-time comparison and copies of wiped keys that the garbage collector makes.
