------------------------------- MODULE Vault -------------------------------
(***************************************************************************)
(* The life of one vault: vault.go over the document of SealedVault and    *)
(* the security keys of Authenticator.                                     *)
(*                                                                         *)
(* One process at a time works on the vault.  It creates the document or   *)
(* parses the stored one; every session unlocked from it shares the parsed *)
(* document, and each has a mutex of its own.  A call that asks for a      *)
(* gesture holds the session's mutex while the operator is prompted, so it *)
(* is a frame in call[s] that the key's answers move along; every other    *)
(* call runs under the mutex from start to end and is one step.            *)
(*                                                                         *)
(* Mutations stay in memory until the caller persists what Sealed returns, *)
(* and the process may exit between any two steps.                         *)
(***************************************************************************)
EXTENDS SealedVault

CONSTANTS
    Sessions,
    \* What callers may pass.
    RPIDs, Labels, Slots, SecretNames, RootPools,
    NilRoots,       \* a nil Options.Roots
    NewSalts,       \* the salts newSalt may return
    ReadSets,       \* the salt positions a derivation path may read
    BundledRoots,   \* the vendors the embedded roots vouch for
    Serialized      \* callers serialize administration, as Admin asks

ASSUME VaultAssumption ==
    /\ RPIDs \union Labels \union SecretNames \subseteq Text
    /\ Slots \subseteq Int
    /\ NewSalts \subseteq Salt
    /\ ReadSets \subseteq SUBSET Positions
    /\ BundledRoots \subseteq Vendors
    /\ RootPools \ {NilRoots} \subseteq SUBSET Vendors
    /\ Serialized \in BOOLEAN

VARIABLES
    doc,        \* the document in memory, shared by all sessions
    opened,     \* whether doc came from OpenWith, so there is a Vault to unlock
    roots,      \* the trust anchors of the Options in force
    sess,       \* each session's data key; Wiped once locked
    call,       \* each session's call that waits for a gesture
    ret,        \* what the last call returned, cleared when one prompts
    store,      \* what the caller persisted
    pin,        \* which security keys have a PIN
    reads       \* the salt positions each key's derivation path reads

vars == <<doc, opened, roots, sess, call, ret, store, pin, reads>>
keysAndPaths == <<pin, reads>>

\* A session that does not exist.
Absent == "absent"

ASSUME AbsentAssumption == Absent \notin DataKeys

\* The frame of a call: its inputs (an unlock has no slot, label or draft), the request it waits on (the prompt at, the
\* allow-list ids of an unlock, whether verification is required) and what it has learnt.
prompt(op, at, auth, slot, label, draft, ids, uvRequired) ==
    [op |-> op, at |-> at, auth |-> auth, slot |-> slot, label |-> label,
     draft |-> draft, ids |-> ids, uvRequired |-> uvRequired,
     cred |-> NoCredential, uv |-> FALSE, secret |-> NoPRF, touched |-> 0]

\* No call.
Idle == prompt("None", "none", "none", 0, DefaultLabel, NoDoc, {}, FALSE)

Frames ==
    [op : {"Create", "EnrollKey", "Unlock"}, at : {"enroll", "derive", "probe"},
     auth : Authenticators, slot : Nat, label : Text,
     draft : Documents \union {NoDoc}, uvRequired : BOOLEAN, ids : SUBSET CredIDs,
     cred : CredIDs \union {NoCredential}, uv : BOOLEAN,
     secret : PRFs \union {NoPRF}, touched : 0..1]

Ops == {"None", "Create", "OpenWith", "Unlock", "EnrollKey", "RemoveKey",
        "ForceRemoveKey", "Put", "Delete", "Open", "Lock", "Sealed"}

\* The sentinels of errors.go, and a name for each error without one.
Errors == {"nil", "ErrNoSuchSecret", "ErrSlotOccupied", "ErrNoSuchSlot",
           "ErrUnknownCredential", "ErrUserVerificationMismatch", "ErrNotPresent",
           "ErrDerivationIgnoresSalt", "ErrNotEntropyVerified", "ErrWrongFormat",
           "ErrLocked", "ErrNoKeysEnrolled", "ErrLastKey", "ErrResidentKey",
           "ErrUntrustedAuthenticator", "ErrNoPRF", "ErrNoCredentialID",
           "ErrAuthenticating", "ErrProvider", "ErrRandom", "ErrNoRPID",
           "ErrRPIDMismatch", "ErrNegativeSlot", "ErrAlreadyEnrolled",
           "ErrNoName", "ErrNoValue", "ErrReading"}

\* What a call returned, the touches it took, and the slot or the secret that a
\* removal which succeeded was asked to take.
Returns == [op : Ops, err : Errors, touched : 0..2,
            slots : SUBSET Slots, secrets : SUBSET SecretNames]

\* Types of the variables.
TypeOK ==
    /\ doc \in Documents \union {NoDoc}
    /\ store \in Documents \union {NoDoc}
    /\ opened \in BOOLEAN
    /\ roots \in SUBSET Vendors
    /\ sess \in [Sessions -> KeyBytes \union {Absent}]
    /\ call \in [Sessions -> Frames \union {Idle}]
    /\ ret \in Returns
    /\ pin \in [Authenticators -> BOOLEAN]
    /\ reads \in [Authenticators -> SUBSET Positions]

NoReturn == [op |-> "None", err |-> "nil", touched |-> 0, slots |-> {}, secrets |-> {}]

Init ==
    /\ doc = NoDoc
    /\ store = NoDoc
    /\ opened = FALSE
    /\ roots = {}
    /\ sess = [s \in Sessions |-> Absent]
    /\ call = [s \in Sessions |-> Idle]
    /\ ret = NoReturn
    /\ pin \in [Authenticators -> BOOLEAN]
    /\ reads \in [Authenticators -> ReadSets]

-----------------------------------------------------------------------------
(* Helpers *)

\* No call holds the mutex of s.
Free(s) == call[s] = Idle

\* A session handle exists and its mutex can be taken.
Callable(s) == sess[s] # Absent /\ Free(s)

\* Callers that serialize administration start no administrative call while
\* another session's enrollment waits for a touch.
MayAdminister(s) ==
    Serialized => \A t \in Sessions \ {s} : call[t].op # "EnrollKey"

Locked(s) == sess[s] = Wiped

\* A call that needed no gesture, or not yet, returns err.
Return(op, err) ==
    ret' = [op |-> op, err |-> err, touched |-> 0, slots |-> {}, secrets |-> {}]

\* A call that was asked to remove what slots or secrets name returns err.
ReturnRemoval(op, err, slots, secrets) ==
    ret' = [op |-> op, err |-> err, touched |-> 0,
            slots |-> IF err = "nil" THEN slots ELSE {},
            secrets |-> IF err = "nil" THEN secrets ELSE {}]

\* The call in flight on s returns err after touched touches.
Finish(s, err, touched) ==
    /\ call' = [call EXCEPT ![s] = Idle]
    /\ ret' = [op |-> call[s].op, err |-> err, touched |-> touched,
               slots |-> {}, secrets |-> {}]

firstSlot == 0

orDefaultLabel(label) == IF label = "" THEN DefaultLabel ELSE label

\* nil selects the bundled roots, an empty pool trusts nobody.
resolveRoots(pool) == IF pool = NilRoots THEN BundledRoots ELSE pool

\* The attestation of key k is genuine and chains to a root in pool.
verifyGenuineHardware(k, pool) == Vendor[k] \in pool

-----------------------------------------------------------------------------
(* Create and EnrollKey: the three gestures *)

\* The refusals of Create before it prompts.
createError(rpid, random) ==
    IF rpid = "" THEN "ErrNoRPID"
    ELSE IF ~random THEN "ErrRandom"
    ELSE "nil"

Create(s, k, rpid, label, pool, salt, random) ==
    /\ doc = NoDoc /\ store = NoDoc
    /\ \A t \in Sessions : Free(t)
    /\ LET err == createError(rpid, random)
       IN IF err # "nil"
          THEN Return("Create", err) /\ UNCHANGED <<call, roots>>
          ELSE /\ call' = [call EXCEPT ![s] =
                              prompt("Create", "enroll", k, firstSlot,
                                     orDefaultLabel(label), emptyVault(rpid, salt),
                                     {}, FALSE)]
               /\ roots' = resolveRoots(pool)
               /\ ret' = NoReturn
    /\ UNCHANGED <<doc, opened, sess, store, keysAndPaths>>

\* Mutant: any free slot will do.
enrollKeyErrorAnySlot(s, slot, random) ==
    IF Locked(s) THEN "ErrLocked"
    ELSE IF slotOccupied(doc, slot) THEN "ErrSlotOccupied"
    ELSE IF ~random THEN "ErrRandom"
    ELSE "nil"

\* The refusals of EnrollKey before it prompts.
enrollKeyError(s, slot, random) ==
    IF Locked(s) THEN "ErrLocked"
    ELSE IF slot < 0 THEN "ErrNegativeSlot"
    ELSE IF slotOccupied(doc, slot) THEN "ErrSlotOccupied"
    ELSE IF ~random THEN "ErrRandom"
    ELSE "nil"

EnrollKey(s, k, slot, label, random) ==
    /\ Callable(s) /\ MayAdminister(s)
    /\ LET err == enrollKeyError(s, slot, random)
       IN IF err # "nil"
          THEN Return("EnrollKey", err) /\ UNCHANGED call
          ELSE /\ call' = [call EXCEPT ![s] =
                              prompt("EnrollKey", "enroll", k, slot,
                                     orDefaultLabel(label), NoDoc,
                                     {}, uvRequirement(doc))]
               /\ ret' = NoReturn
    /\ UNCHANGED <<doc, opened, roots, sess, store, keysAndPaths>>

\* The document the enrollment in flight on s is for.
target(s) == IF call[s].op = "Create" THEN call[s].draft ELSE doc

\* The operator's key acts on the request of call c; the PIN it ends with says
\* whether it verified.
Gesture(c, hasPIN) ==
    /\ hasPIN \in PINAfter(pin[c.auth], c.uvRequired)
    /\ pin' = [pin EXCEPT ![c.auth] = hasPIN]
    /\ UNCHANGED reads

\* The human touches an answer stands for.
touches(ans) == IF ans.present THEN 1 ELSE 0

\* What enrollAndDerive makes of the answer ans to the Enroll request of c.
enrollError(c, ans) ==
    IF ans.err THEN "ErrProvider"
    ELSE IF ans.resident THEN "ErrResidentKey"
    ELSE IF ans.cred = NoCredential THEN "ErrNoCredentialID"
    ELSE IF ~verifyGenuineHardware(c.auth, roots) THEN "ErrUntrustedAuthenticator"
    ELSE "nil"

\* The first half of enrollAndDerive, up to the Derive request.
EnrollAnswered(s) ==
    /\ call[s].at = "enroll"
    /\ \E hasPIN \in BOOLEAN : Gesture(call[s], hasPIN)
    /\ \E ans \in EnrollAnswers(call[s].auth) :
          LET err == enrollError(call[s], ans)
          IN IF err # "nil"
             THEN Finish(s, err, 0)
             ELSE /\ call' = [call EXCEPT ![s] = [@ EXCEPT !.at = "derive", !.cred = ans.cred]]
                  /\ UNCHANGED ret
    /\ UNCHANGED <<doc, opened, roots, sess, store>>

\* What enrollAndDerive makes of the answer ans to its Derive request.
enrollAndDeriveError(ans) ==
    IF ans.err THEN "ErrProvider"
    ELSE IF ~ans.present THEN "ErrNotPresent"
    ELSE IF ans.secret = NoPRF THEN "ErrNoPRF"
    ELSE "nil"

\* Mutant: EnrollKey does not compare the observed verification.
deriveErrorAnyUV(c, ans) ==
    IF enrollAndDeriveError(ans) # "nil" THEN enrollAndDeriveError(ans)
    ELSE IF c.op = "EnrollKey" /\ enrolled(doc, c.cred)
         THEN "ErrAlreadyEnrolled"
    ELSE "nil"

\* Mutant: EnrollKey does not look for the credential.
deriveErrorTwice(c, ans) ==
    IF enrollAndDeriveError(ans) # "nil" THEN enrollAndDeriveError(ans)
    ELSE IF c.op = "EnrollKey" /\ ans.uv # doc.uv
         THEN "ErrUserVerificationMismatch"
    ELSE "nil"

\* The outcome of enrollAndDerive, then EnrollKey's own checks.
deriveError(c, ans) ==
    IF enrollAndDeriveError(ans) # "nil" THEN enrollAndDeriveError(ans)
    ELSE IF c.op = "EnrollKey" /\ enrolled(doc, c.cred)
         THEN "ErrAlreadyEnrolled"
    ELSE IF c.op = "EnrollKey" /\ ans.uv # doc.uv
         THEN "ErrUserVerificationMismatch"
    ELSE "nil"

\* Mutant: a failed derivation starts the enrollment over.
DeriveAnsweredRetrying(s) ==
    /\ call[s].op \in {"Create", "EnrollKey"} /\ call[s].at = "derive"
    /\ \E ans \in DeriveAnswers(call[s].auth, {call[s].cred}, target(s).salt,
                                reads[call[s].auth], pin[call[s].auth]) :
          call' = [call EXCEPT ![s] =
                      IF deriveError(@, ans) # "nil"
                      THEN [@ EXCEPT !.at = "enroll"]
                      ELSE [@ EXCEPT !.at = "probe", !.uv = ans.uv,
                                     !.secret = ans.secret, !.touched = 1]]
    /\ UNCHANGED <<doc, opened, roots, sess, ret, store, keysAndPaths>>

DeriveAnswered(s) ==
    /\ call[s].op \in {"Create", "EnrollKey"} /\ call[s].at = "derive"
    /\ \E hasPIN \in BOOLEAN :
          /\ Gesture(call[s], hasPIN)
          /\ \E ans \in DeriveAnswers(call[s].auth, {call[s].cred}, target(s).salt,
                                      reads[call[s].auth], hasPIN) :
                LET err == deriveError(call[s], ans)
                IN IF err # "nil"
                   THEN Finish(s, err, touches(ans))
                   ELSE /\ call' = [call EXCEPT ![s] =
                                       [@ EXCEPT !.at = "probe",
                                                 !.uv = ans.uv,
                                                 !.secret = ans.secret,
                                                 !.touched = touches(ans)]]
                        /\ UNCHANGED ret
    /\ UNCHANGED <<doc, opened, roots, sess, store>>

\* The end of Create: the document takes the observed verification, a fresh
\* data key is wrapped for the first key and the session holds it.
createSealed(s, dataKey) ==
    LET c == call[s]
        v == [c.draft EXCEPT !.uv = c.uv, !.entropy = TRUE]
    IN /\ doc' = [v EXCEPT !.keys =
                     {wrapDataKey(v, dataKey, c.cred, c.secret, c.slot, c.label)}]
       /\ sess' = [sess EXCEPT ![s] = dataKey]

\* The end of EnrollKey.  dataKey was taken before the gestures, and Lock
\* overwrites its bytes in place.
enrollSealed(s) ==
    LET c == call[s]
    IN /\ doc' = [doc EXCEPT !.keys = @ \union
                     {wrapDataKey(doc, sess[s], c.cred, c.secret, c.slot, c.label)}]
       /\ UNCHANGED sess

\* The answer to the probe of the entropy gate, and the end of the enrollment.
ProbeAnswered(s, dataKey, random) ==
    /\ call[s].at = "probe"
    /\ \E hasPIN \in BOOLEAN :
          /\ Gesture(call[s], hasPIN)
          /\ \E ans \in DeriveAnswers(call[s].auth, {call[s].cred},
                                      probe(target(s).salt),
                                      reads[call[s].auth], hasPIN) :
                LET gate == verifyDerivationDependsOnSalt(call[s].secret,
                                                          call[s].uv, ans)
                    err == IF gate = "nil" /\ ~random THEN "ErrRandom" ELSE gate
                    touched == call[s].touched + touches(ans)
                IN /\ Finish(s, err, touched)
                   /\ IF err # "nil" THEN UNCHANGED <<doc, sess>>
                      ELSE IF call[s].op = "Create" THEN createSealed(s, dataKey)
                      ELSE enrollSealed(s)
    /\ UNCHANGED <<opened, roots, store>>

-----------------------------------------------------------------------------
(* Open, Unlock, Lock *)

openError(rpid) ==
    IF ~parseSealed(store) THEN "ErrWrongFormat"
    ELSE IF rpid \notin {"", store.rpid} THEN "ErrRPIDMismatch"
    ELSE "nil"

OpenWith(rpid, pool) ==
    /\ doc = NoDoc /\ store # NoDoc
    /\ LET err == openError(rpid)
       IN /\ Return("OpenWith", err)
          /\ IF err # "nil" THEN UNCHANGED <<doc, opened, roots>>
             ELSE /\ doc' = store
                  /\ opened' = TRUE
                  /\ roots' = resolveRoots(pool)
    /\ UNCHANGED <<sess, call, store, keysAndPaths>>

\* The refusals of unlock before it prompts.
unlockRefusal ==
    IF doc.keys = {} THEN "ErrNoKeysEnrolled"
    ELSE IF ~doc.entropy THEN "ErrNotEntropyVerified"
    ELSE "nil"

\* Unlock and Administer.  The session they return takes the place of one that
\* was locked.
Unlock(s, k) ==
    /\ opened
    /\ sess[s] \in {Absent, Wiped} /\ Free(s)
    /\ LET err == unlockRefusal
       IN IF err # "nil"
          THEN Return("Unlock", err) /\ UNCHANGED call
          ELSE /\ call' = [call EXCEPT ![s] =
                              prompt("Unlock", "derive", k, 0, DefaultLabel, NoDoc,
                                     credentialIDs(doc), uvRequirement(doc))]
               /\ ret' = NoReturn
    /\ UNCHANGED <<doc, opened, roots, sess, store, keysAndPaths>>

\* Mutant: the unwrap is left to notice that verification differs.
unlockErrorAnyUV(ans) ==
    IF ans.err THEN "ErrProvider"
    ELSE IF ~ans.present THEN "ErrNotPresent"
    ELSE IF ~enrolled(doc, ans.cred) THEN "ErrUnknownCredential"
    ELSE unwrapDataKey(doc, findKey(doc, ans.cred), ans.secret)

\* Mutant: presence is assumed.
unlockErrorUntouched(ans) ==
    IF ans.err THEN "ErrProvider"
    ELSE IF ans.uv # doc.uv THEN "ErrUserVerificationMismatch"
    ELSE IF ~enrolled(doc, ans.cred) THEN "ErrUnknownCredential"
    ELSE unwrapDataKey(doc, findKey(doc, ans.cred), ans.secret)

\* The checks of unlock on the key's answer.
unlockError(ans) ==
    IF ans.err THEN "ErrProvider"
    ELSE IF ~ans.present THEN "ErrNotPresent"
    ELSE IF ans.uv # doc.uv THEN "ErrUserVerificationMismatch"
    ELSE IF ~enrolled(doc, ans.cred) THEN "ErrUnknownCredential"
    ELSE unwrapDataKey(doc, findKey(doc, ans.cred), ans.secret)

UnlockAnswered(s) ==
    /\ call[s].op = "Unlock"
    /\ \E hasPIN \in BOOLEAN :
          /\ Gesture(call[s], hasPIN)
          /\ \E ans \in DeriveAnswers(call[s].auth, call[s].ids, doc.salt,
                                      reads[call[s].auth], hasPIN) :
                LET err == unlockError(ans)
                IN /\ Finish(s, err, touches(ans))
                   /\ sess' = IF err # "nil" THEN sess
                              ELSE [sess EXCEPT ![s] =
                                       findKey(doc, ans.cred).wrapped.plain]
    /\ UNCHANGED <<doc, opened, roots, store>>

\* Mutant: Lock does not wait for the mutex.
LockUnguarded(s) ==
    /\ sess[s] # Absent
    /\ sess' = [sess EXCEPT ![s] = Wiped]
    /\ Return("Lock", "nil")
    /\ UNCHANGED <<doc, opened, roots, call, store, keysAndPaths>>

Lock(s) ==
    /\ Callable(s)
    /\ sess' = [sess EXCEPT ![s] = Wiped]
    /\ Return("Lock", "nil")
    /\ UNCHANGED <<doc, opened, roots, call, store, keysAndPaths>>

-----------------------------------------------------------------------------
(* Reading and administering *)

readError(s, name) ==
    IF Locked(s) THEN "ErrLocked"
    ELSE IF name \notin names(doc) THEN "ErrNoSuchSecret"
    ELSE openSecret(doc, sess[s], findSecret(doc, name))

\* Session.Open.
OpenSecret(s, name) ==
    /\ Callable(s)
    /\ Return("Open", readError(s, name))
    /\ UNCHANGED <<doc, opened, roots, sess, call, store, keysAndPaths>>

\* The reader handed to Put is nil, fails, or yields a value.
Readers == {[kind |-> "nil"], [kind |-> "broken"]}
             \union [kind : {"reader"}, value : Values]

putError(s, name, reader, random) ==
    IF Locked(s) THEN "ErrLocked"
    ELSE IF name = "" THEN "ErrNoName"
    ELSE IF reader.kind = "nil" THEN "ErrNoValue"
    ELSE IF reader.kind = "broken" THEN "ErrReading"
    ELSE IF ~random THEN "ErrRandom"
    ELSE "nil"

Put(s, name, reader, random) ==
    /\ Callable(s) /\ MayAdminister(s)
    /\ LET err == putError(s, name, reader, random)
       IN /\ Return("Put", err)
          /\ doc' = IF err # "nil" THEN doc
                    ELSE [doc EXCEPT !.secrets =
                             {x \in @ : x.name # name} \union
                             {sealSecret(doc, sess[s], name, reader.value)}]
    /\ UNCHANGED <<opened, roots, sess, call, store, keysAndPaths>>

\* Mutant: Delete does not look at the session's key.
deleteErrorLocked(s, name) ==
    IF name \notin names(doc) THEN "ErrNoSuchSecret" ELSE "nil"

deleteError(s, name) ==
    IF Locked(s) THEN "ErrLocked"
    ELSE IF name \notin names(doc) THEN "ErrNoSuchSecret"
    ELSE "nil"

Delete(s, name) ==
    /\ Callable(s) /\ MayAdminister(s)
    /\ LET err == deleteError(s, name)
       IN /\ ReturnRemoval("Delete", err, {}, {name})
          /\ doc' = IF err # "nil" THEN doc
                    ELSE [doc EXCEPT !.secrets = {x \in @ : x.name # name}]
    /\ UNCHANGED <<opened, roots, sess, call, store, keysAndPaths>>

\* Mutant: the comparison is inverted.
removeOtherKeys(v, slot) == [v EXCEPT !.keys = {e \in @ : e.slot = slot}]

removeKey(v, slot) == [v EXCEPT !.keys = {e \in @ : e.slot # slot}]

\* Mutant: the last key is not protected.
removeAnyKeyError(s, slot) ==
    IF Locked(s) THEN "ErrLocked"
    ELSE IF ~slotOccupied(doc, slot) THEN "ErrNoSuchSlot"
    ELSE "nil"

removeKeyError(s, slot) ==
    IF Locked(s) THEN "ErrLocked"
    ELSE IF ~slotOccupied(doc, slot) THEN "ErrNoSuchSlot"
    ELSE IF Cardinality(doc.keys) = 1 THEN "ErrLastKey"
    ELSE "nil"

RemoveKey(s, slot) ==
    /\ Callable(s) /\ MayAdminister(s)
    /\ LET err == removeKeyError(s, slot)
       IN /\ ReturnRemoval("RemoveKey", err, {slot}, {})
          /\ doc' = IF err # "nil" THEN doc ELSE removeKey(doc, slot)
    /\ UNCHANGED <<opened, roots, sess, call, store, keysAndPaths>>

forceRemoveKeyError(s, slot) ==
    IF Locked(s) THEN "ErrLocked"
    ELSE IF ~slotOccupied(doc, slot) THEN "ErrNoSuchSlot"
    ELSE "nil"

ForceRemoveKey(s, slot) ==
    /\ Callable(s) /\ MayAdminister(s)
    /\ LET err == forceRemoveKeyError(s, slot)
       IN /\ ReturnRemoval("ForceRemoveKey", err, {slot}, {})
          /\ doc' = IF err # "nil" THEN doc ELSE removeKey(doc, slot)
    /\ UNCHANGED <<opened, roots, sess, call, store, keysAndPaths>>

\* The caller persists what Sealed returns.  A locked session may seal.
Sealed(s) ==
    /\ Callable(s)
    /\ store' = marshal(doc)
    /\ Return("Sealed", "nil")
    /\ UNCHANGED <<doc, opened, roots, sess, call, keysAndPaths>>

-----------------------------------------------------------------------------
(* The environment *)

\* The process exits or crashes, prompts and all; the vault is next used on a
\* machine whose paths to the keys may differ.
Exit ==
    /\ doc # NoDoc \/ \E s \in Sessions : ~Free(s)
    /\ doc' = NoDoc
    /\ opened' = FALSE
    /\ roots' = {}
    /\ sess' = [s \in Sessions |-> Absent]
    /\ call' = [s \in Sessions |-> Idle]
    /\ ret' = NoReturn
    /\ reads' \in [Authenticators -> ReadSets]
    /\ UNCHANGED <<store, pin>>

\* The operator sets or clears a key's PIN, also between two prompts.
ChangePIN(k) ==
    /\ pin' = [pin EXCEPT ![k] = ~@]
    /\ UNCHANGED <<doc, opened, roots, sess, call, ret, store, reads>>

-----------------------------------------------------------------------------

Answered(s) ==
    \/ EnrollAnswered(s)
    \/ DeriveAnswered(s)
    \/ \E dataKey \in DataKeys, random \in BOOLEAN : ProbeAnswered(s, dataKey, random)
    \/ UnlockAnswered(s)

Next ==
    \/ \E s \in Sessions, k \in Authenticators, rpid \in RPIDs, label \in Labels,
          pool \in RootPools, salt \in NewSalts, random \in BOOLEAN :
             Create(s, k, rpid, label, pool, salt, random)
    \/ \E s \in Sessions, k \in Authenticators, slot \in Slots, label \in Labels,
          random \in BOOLEAN : EnrollKey(s, k, slot, label, random)
    \/ \E s \in Sessions : Answered(s)
    \/ \E rpid \in RPIDs, pool \in RootPools : OpenWith(rpid, pool)
    \/ \E s \in Sessions, k \in Authenticators : Unlock(s, k)
    \/ \E s \in Sessions : Lock(s)
    \/ \E s \in Sessions, name \in SecretNames : OpenSecret(s, name)
    \/ \E s \in Sessions, name \in SecretNames, reader \in Readers,
          random \in BOOLEAN : Put(s, name, reader, random)
    \/ \E s \in Sessions, name \in SecretNames : Delete(s, name)
    \/ \E s \in Sessions, slot \in Slots : RemoveKey(s, slot)
    \/ \E s \in Sessions, slot \in Slots : ForceRemoveKey(s, slot)
    \/ \E s \in Sessions : Sealed(s)
    \/ Exit
    \/ \E k \in Authenticators : ChangePIN(k)

Spec == Init /\ [][Next]_vars

\* A prompt ends: the operator answers it, or the platform gives up after the
\* request's Timeout.
FairSpec == Spec /\ \A s \in Sessions : WF_vars(Answered(s))

-----------------------------------------------------------------------------
(* Properties *)

\* What a call in flight may rely on: its document is there and only it is
\* creating one, an enrollment holds an unlocked session, and the output it
\* will wrap under was derived for its credential, over its document's salt and
\* the path it is using, with the verification the document records.
CallConsistent(s) ==
    /\ call[s].op = "Create" =>
          /\ doc = NoDoc /\ store = NoDoc
          /\ call[s].draft \in Documents
          /\ call[s].draft.keys = {} /\ call[s].draft.secrets = {}
          /\ call[s].draft.rpid \in RPIDs \ {""}
          /\ call[s].slot = firstSlot
          /\ \A t \in Sessions \ {s} : call[t] = Idle
    /\ call[s].op \in {"EnrollKey", "Unlock"} => doc # NoDoc
    /\ call[s].op = "Unlock" => call[s].at = "derive"
    /\ call[s].op = "EnrollKey" => sess[s] \in DataKeys
    /\ call[s].op # "Unlock" /\ call[s].at \in {"derive", "probe"} =>
          call[s].cred \in CredIDs
    /\ call[s].at = "probe" =>
          /\ call[s].secret = hmacSecret(call[s].cred, call[s].uv, target(s).salt,
                                         reads[call[s].auth])
          /\ call[s].op = "EnrollKey" => call[s].uv = doc.uv

\* TypeOK made inductive: handles exist only for a document in memory.
TypeInv ==
    /\ TypeOK
    /\ \A s \in Sessions : CallConsistent(s)
    /\ opened => doc # NoDoc
    /\ \A s \in Sessions : sess[s] # Absent => doc # NoDoc
    /\ \A k \in Authenticators : reads[k] \in ReadSets

\* Every key enrolled in v, presented over a path that delivers the whole salt
\* and verifying as the vault records, unwraps dk, and dk opens every secret.
BoundTo(v, dk) ==
    /\ \A e \in v.keys :
          /\ unwrapDataKey(v, e, hmacSecret(e.cred, v.uv, v.salt, Positions)) = "nil"
          /\ e.wrapped.plain = dk
    /\ \A x \in v.secrets : openSecret(v, dk, x) = "nil"

\* Any enrolled key alone recovers everything: whatever PIN changes, crashes
\* and truncating paths enrollments meet, each entry that Create and EnrollKey
\* write (vault.go:214-260, 492-549), in memory and as persisted, opens to the
\* one data key all secrets are sealed under, and no session holds another.
EveryKeyOpensEverySecret ==
    /\ doc # NoDoc => \E dk \in DataKeys :
                         /\ BoundTo(doc, dk)
                         /\ \A s \in Sessions : sess[s] \in {dk, Wiped, Absent}
    /\ store # NoDoc => \E dk \in DataKeys : BoundTo(store, dk)

\* Every path delivers a prefix of the salt, as a too-short length field does.
PrefixReads == \A r \in ReadSets : \E n \in 0..SaltLen : r = 1..n

\* JSON leaves what callers pass as RP ID and as secret names alone.
UTF8Inputs == \A t \in RPIDs \union SecretNames : JSONText[t] = t

\* EveryKeyOpensEverySecret made inductive: the texts bound into seals are ones
\* callers passed.
BindInv ==
    /\ TypeInv
    /\ EveryKeyOpensEverySecret
    /\ \A v \in {doc, store} \ {NoDoc} : v.rpid \in RPIDs /\ names(v) \subseteq SecretNames

\* Whatever sequence of calls led to it, parseSealed (sealed.go:267-317)
\* accepts the document that Sealed returned.
StoreReopens == store # NoDoc => parseSealed(store)

\* "A generic decryption failure" (errors.go:11-14) reaches a caller only from
\* an unlock, and only where a path drops salt bytes; a changed PIN, a removed
\* key or a concurrent session is always reported as what it is.
NeverLooksCorrupt ==
    ret.err = "ErrAuthenticating" =>
        /\ ret.op = "Unlock"
        /\ \E k \in Authenticators : reads[k] # Positions

\* What an enrollment in flight on s has earned by the time it derives: its
\* credential lives on the key it prompts, whose vendor the options in force
\* trust, and when it probes it was touched once.
Earned(s) ==
    /\ call[s].op # "Unlock" /\ call[s].at \in {"derive", "probe"} =>
          Holder[call[s].cred] = call[s].auth /\ Vendor[call[s].auth] \in roots
    /\ call[s].at = "probe" => call[s].touched = 1

EarnInv == TypeInv /\ \A s \in Sessions : Earned(s)

\* What callers that serialize administration keep true through the gestures of
\* an EnrollKey on s: what it checked before them still holds after them.
Undisturbed(s) ==
    call[s].op = "EnrollKey" =>
       /\ ~slotOccupied(doc, call[s].slot)
       /\ call[s].at = "probe" => ~enrolled(doc, call[s].cred)
       /\ \A t \in Sessions \ {s} : call[t].op # "EnrollKey"

\* The document in memory is one that parseSealed would accept.
SerialInv ==
    /\ TypeInv
    /\ \A s \in Sessions : Undisturbed(s)
    /\ doc # NoDoc => parseSealed(doc)

\* StoreReopens made inductive: the texts in the documents are ones callers passed.
ReopenInv ==
    /\ SerialInv
    /\ StoreReopens
    /\ \A v \in {doc, store} \ {NoDoc} : v.rpid \in RPIDs /\ names(v) \subseteq SecretNames

\* A session comes to hold a data key only through a call that a human touched
\* a key for, which for Unlock is one enrolled at that moment (vault.go:346-367);
\* Lock is final for its session.
NoAccessWithoutTouch ==
    [][\A s \in Sessions :
          sess[s] \notin DataKeys /\ sess'[s] \in DataKeys =>
             /\ call[s].op \in {"Create", "Unlock"}
             /\ ret'.touched = (IF call[s].op = "Create" THEN 2 ELSE 1)
             /\ \E e \in doc'.keys : Holder[e.cred] = call[s].auth]_vars

\* An entry appears only when a stored vault is opened or at the end of a
\* Create or EnrollKey that a human touched the key for twice, once over the
\* salt and once over the probe, in a slot that was free, for a key whose
\* vendor the options in force trust (vault.go:492-549, 608-653).
EnrollmentIsEarned ==
    [][doc' # NoDoc /\ ret'.op # "OpenWith" =>
          \A e \in doc'.keys \ (IF doc = NoDoc THEN {} ELSE doc.keys) :
             /\ ret'.op \in {"Create", "EnrollKey"} /\ ret'.err = "nil"
             /\ ret'.touched = 2
             /\ Vendor[Holder[e.cred]] \in roots
             /\ doc # NoDoc => ~slotOccupied(doc, e.slot)]_vars

\* A key leaves the document in memory only by a RemoveKey or ForceRemoveKey
\* that was asked for its slot and succeeds, one at a time, and the last one
\* only by ForceRemoveKey (vault.go:551-590); a secret's name leaves only by a
\* Delete that was asked for it and succeeds (vault.go:476-490).
NothingVanishes ==
    [][doc # NoDoc /\ doc' # NoDoc =>
          /\ \A e \in doc.keys \ doc'.keys :
                /\ ret'.op \in {"RemoveKey", "ForceRemoveKey"} /\ ret'.err = "nil"
                /\ ret'.slots = {e.slot}
                /\ doc.keys \ doc'.keys = {e}
                /\ doc'.keys = {} => ret'.op = "ForceRemoveKey"
          /\ \A name \in names(doc) \ names(doc') :
                /\ ret'.op = "Delete" /\ ret'.err = "nil"
                /\ ret'.secrets = {name}]_vars

\* "The document must survive a trip through JSON and still decrypt"
\* (sealed_test.go:47-49): what Sealed returned parses, and opens to one key.
SurvivesJSON ==
    store # NoDoc => parseSealed(store) /\ \E dk \in DataKeys : BoundTo(store, dk)

\* The gate "confirms the authenticator's hmac-secret output actually depends
\* on the whole salt" (entropy.go:24-26): no key is wrapped for a derivation
\* that read only part of it.
DependsOnWholeSalt ==
    doc # NoDoc => \A e \in doc.keys : DOMAIN e.wrapped.key.prf.seen = Positions

\* "Never request this without knowing a PIN already exists"
\* (authenticator.go:38-41): an enrollment that requires verification starts
\* only on a key that has a PIN.
NoPINWalkthrough ==
    [][\A s \in Sessions :
          Free(s) /\ call'[s].op = "EnrollKey" /\ call'[s].uvRequired =>
             pin[call'[s].auth]]_vars

\* ForceRemoveKey of the last key: "Nothing can recover them [...] There is no
\* undo" (vault.go:188-193): a document without keys never has one again.
StrandedForever ==
    [][doc # NoDoc /\ doc' # NoDoc /\ doc.keys = {} => doc'.keys = {}]_vars

\* Every call that prompts the operator returns: no error path leaves a session
\* with its mutex held.
EveryCallReturns == \A s \in Sessions : ~Free(s) ~> Free(s)

=============================================================================
