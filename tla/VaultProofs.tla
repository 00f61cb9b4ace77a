---------------------------- MODULE VaultProofs ----------------------------
(***************************************************************************)
(* Theorems about Vault, for every set of keys, sessions, slots, names and *)
(* values and every salt length.                                           *)
(***************************************************************************)
EXTENDS Vault, TLAPS

USE DEF formatVersion, Wiped, Absent

-----------------------------------------------------------------------------
(* The operators *)

\* A PRF output over the bytes a path reads is a PRF output.
LEMMA hmacSecretType ==
    ASSUME NEW cred \in CredIDs, NEW uv \in BOOLEAN, NEW salt \in Salt,
           NEW r \in SUBSET Positions
    PROVE  hmacSecret(cred, uv, salt, r) \in PRFs
<1>1. Seen(salt, r) \in [r -> Byte]
  BY DEF Seen, Salt
<1> QED
  BY <1>1 DEF hmacSecret, PRFs

\* Flipping the last byte of a salt gives a salt.
LEMMA probeType ==
    ASSUME NEW salt \in Salt
    PROVE  probe(salt) \in Salt
<1>1. SaltLen \in Positions
  BY SaltAssumption DEF Positions
<1>2. salt[SaltLen] \in Byte
  BY <1>1 DEF Salt
<1>3. MaxByte - salt[SaltLen] \in Byte
  BY <1>2, SaltAssumption DEF Byte
<1> QED
  BY <1>3 DEF probe, Salt

\* The seals of a document have the document's types.
LEMMA wrapDataKeyType ==
    ASSUME NEW v \in Documents, NEW dataKey \in KeyBytes, NEW cred \in CredIDs,
           NEW prf \in PRFs, NEW slot \in Nat, NEW label \in Text
    PROVE  wrapDataKey(v, dataKey, cred, prf, slot, label) \in KeyEntries
<1>1. aadOf(v) \in Headers
  BY DEF aadOf, Headers, Documents
<1>2. slot % UInt32Range \in 0..(UInt32Range - 1)
  BY RangeAssumption
<1>3. v.salt \in Salt
  BY DEF Documents
<1> QED
  BY <1>1, <1>2, <1>3 DEF wrapDataKey, seal, deriveKEK, keyAAD, KeyEntries

\* A sealed secret has the type of a secret entry.
LEMMA sealSecretType ==
    ASSUME NEW v \in Documents, NEW dataKey \in KeyBytes, NEW name \in Text,
           NEW value \in Values
    PROVE  sealSecret(v, dataKey, name, value) \in SecretEntries
<1>1. aadOf(v) \in Headers
  BY DEF aadOf, Headers, Documents
<1> QED
  BY <1>1 DEF sealSecret, seal, secretAAD, SecretEntries

\* JSON keeps a document a document.
LEMMA marshalType ==
    ASSUME NEW v \in Documents
    PROVE  marshal(v) \in Documents
<1>1. \A t \in Text : JSONText[t] \in Text
  BY TextAssumption
<1>2. \A e \in v.keys : [e EXCEPT !.label = JSONText[@]] \in KeyEntries
  BY <1>1 DEF Documents, KeyEntries
<1>3. \A x \in v.secrets : [x EXCEPT !.name = JSONText[@]] \in SecretEntries
  BY <1>1 DEF Documents, SecretEntries
<1> QED
  BY <1>1, <1>2, <1>3 DEF marshal, Documents

\* Replacing the entries of a document gives a document.
LEMMA updateType ==
    ASSUME NEW v \in Documents
    PROVE  /\ \A ks \in SUBSET KeyEntries : [v EXCEPT !.keys = ks] \in Documents
           /\ \A xs \in SUBSET SecretEntries : [v EXCEPT !.secrets = xs] \in Documents
           /\ \A uv \in BOOLEAN : [v EXCEPT !.uv = uv, !.entropy = TRUE] \in Documents
           /\ v # NoDoc
  BY NoDocAssumption DEF Documents

\* The port answers with what its contract says.
LEMMA answerType ==
    ASSUME NEW k \in Authenticators, NEW ids \in SUBSET CredIDs, NEW salt \in Salt,
           NEW r \in SUBSET Positions, NEW uv \in BOOLEAN,
           NEW ans \in DeriveAnswers(k, ids, salt, r, uv)
    PROVE  /\ ans \in Answers
           /\ ~ans.err => /\ ans.cred \in ids
                          /\ Holder[ans.cred] = k
                          /\ ans.uv = uv
                          /\ ans.secret \in {hmacSecret(ans.cred, uv, salt, r), NoPRF}
<1>1. CASE ans = Refusal
  BY <1>1 DEF Refusal, Answers
<1>2. CASE ans # Refusal
  <2>1. PICK c \in ids, p \in BOOLEAN, x \in BOOLEAN :
           /\ Holder[c] = k
           /\ ans = [err |-> FALSE, cred |-> c, resident |-> FALSE, present |-> p,
                     uv |-> uv,
                     secret |-> IF x THEN hmacSecret(c, uv, salt, r) ELSE NoPRF]
    BY <1>2 DEF DeriveAnswers
  <2>2. hmacSecret(c, uv, salt, r) \in PRFs
    BY hmacSecretType
  <2> QED
    BY <2>1, <2>2 DEF Answers
<1> QED
  BY <1>1, <1>2

\* findKey returns an entry of the document.
LEMMA findKeyIn ==
    ASSUME NEW v, NEW cred, enrolled(v, cred)
    PROVE  findKey(v, cred) \in v.keys /\ findKey(v, cred).cred = cred
  BY Zenon DEF enrolled, findKey

-----------------------------------------------------------------------------
(* Typing *)

\* The first frame of each prompting call.
LEMMA promptType ==
    ASSUME NEW op \in {"Create", "EnrollKey", "Unlock"},
           NEW at \in {"enroll", "derive"}, NEW k \in Authenticators,
           NEW slot \in Nat, NEW label \in Text, NEW d \in Documents \union {NoDoc},
           NEW ids \in SUBSET CredIDs, NEW uv \in BOOLEAN
    PROVE  prompt(op, at, k, slot, label, d, ids, uv) \in Frames
  BY DEF prompt, Frames

\* Every error a call returns is one the package declares.
LEMMA errorType ==
    /\ \A rpid, random : createError(rpid, random) \in Errors
    /\ \A s, slot, random : enrollKeyError(s, slot, random) \in Errors
    /\ \A c, ans : enrollError(c, ans) \in Errors /\ deriveError(c, ans) \in Errors
    /\ \A real, uv, got : verifyDerivationDependsOnSalt(real, uv, got) \in Errors
    /\ \A rpid : openError(rpid) \in Errors
    /\ unlockRefusal \in Errors
    /\ \A ans : unlockError(ans) \in Errors
    /\ \A s, name : readError(s, name) \in Errors /\ deleteError(s, name) \in Errors
    /\ \A s, name, reader, random : putError(s, name, reader, random) \in Errors
    /\ \A s, slot : /\ removeKeyError(s, slot) \in Errors
                    /\ forceRemoveKeyError(s, slot) \in Errors
    /\ "nil" \in Errors /\ "ErrRandom" \in Errors
<1>1. \A v, e, prf : unwrapDataKey(v, e, prf) \in Errors
  BY DEF unwrapDataKey, Errors
<1>2. \A v, key, x : openSecret(v, key, x) \in Errors
  BY DEF openSecret, Errors
<1>3. \A rpid, random : createError(rpid, random) \in Errors
  BY DEF createError, Errors
<1>4. \A s, slot, random : enrollKeyError(s, slot, random) \in Errors
  BY DEF enrollKeyError, Errors
<1>5. \A c, ans : enrollError(c, ans) \in Errors /\ deriveError(c, ans) \in Errors
  BY DEF enrollError, deriveError, enrollAndDeriveError, Errors
<1>6. \A real, uv, got : verifyDerivationDependsOnSalt(real, uv, got) \in Errors
  BY DEF verifyDerivationDependsOnSalt, Errors
<1>7. (\A rpid : openError(rpid) \in Errors) /\ unlockRefusal \in Errors
  BY DEF openError, unlockRefusal, Errors
<1>8. \A ans : unlockError(ans) \in Errors
  BY <1>1 DEF unlockError, Errors
<1>9. \A s, name : readError(s, name) \in Errors /\ deleteError(s, name) \in Errors
  BY <1>2 DEF readError, deleteError, Errors
<1>10. \A s, name, reader, random : putError(s, name, reader, random) \in Errors
  BY DEF putError, Errors
<1>11. \A s, slot : /\ removeKeyError(s, slot) \in Errors
                    /\ forceRemoveKeyError(s, slot) \in Errors
  BY DEF removeKeyError, forceRemoveKeyError, Errors
<1>12. "nil" \in Errors /\ "ErrRandom" \in Errors
  BY DEF Errors
<1> QED
  BY <1>3, <1>4, <1>5, <1>6, <1>7, <1>8, <1>9, <1>10, <1>11, <1>12

\* What a call that needs no gesture returns.
LEMMA returnType ==
    ASSUME NEW op \in Ops, NEW err \in Errors, Return(op, err) \/ ret' = NoReturn
    PROVE  ret' \in Returns
<1>1. NoReturn \in Returns
  BY DEF NoReturn, Returns, Ops, Errors
<1> QED
  BY <1>1 DEF Return, Returns

\* What a removal returns.
LEMMA removalType ==
    ASSUME NEW op \in Ops, NEW err \in Errors, NEW slots \in SUBSET Slots,
           NEW secrets \in SUBSET SecretNames, ReturnRemoval(op, err, slots, secrets)
    PROVE  ret' \in Returns
  BY DEF ReturnRemoval, Returns

\* TypeInv holds before any vault exists.
LEMMA InitTypeInv == Init => TypeInv
<1> SUFFICES ASSUME Init PROVE TypeInv
  OBVIOUS
<1>0. NoReturn \in Returns
  BY DEF NoReturn, Returns, Ops, Errors
<1>1. TypeOK
  BY <1>0, VaultAssumption DEF Init, TypeOK
<1>2. \A s \in Sessions : CallConsistent(s)
  BY DEF Init, CallConsistent, Idle, prompt
<1> QED
  BY <1>1, <1>2 DEF Init, TypeInv

\* Create either refuses or opens a frame with a typed draft.
LEMMA CreateTypeInv ==
    ASSUME TypeInv, NEW s \in Sessions, NEW k \in Authenticators,
           NEW rpid \in RPIDs, NEW label \in Labels, NEW pool \in RootPools,
           NEW salt \in NewSalts, NEW random \in BOOLEAN,
           Create(s, k, rpid, label, pool, salt, random)
    PROVE  TypeInv'
<1> DEFINE d == emptyVault(rpid, salt)
           f == prompt("Create", "enroll", k, firstSlot, orDefaultLabel(label), d,
                       {}, FALSE)
<1>1. rpid \in Text /\ orDefaultLabel(label) \in Text /\ salt \in Salt
  BY VaultAssumption, TextAssumption DEF orDefaultLabel
<1>2. d \in Documents
  BY <1>1 DEF emptyVault, Documents
<1>3. f \in Frames
  BY <1>1, <1>2 DEF prompt, Frames, firstSlot
<1>4. resolveRoots(pool) \in SUBSET Vendors
  BY VaultAssumption DEF resolveRoots
<1>5. ret' \in Returns
  <2>1. Return("Create", createError(rpid, random)) \/ ret' = NoReturn
    BY DEF Create
  <2> QED
    BY <2>1, errorType, returnType DEF Ops
<1>6. CASE UNCHANGED <<call, roots>>
  <2>1. TypeOK'
    BY <1>5, <1>6 DEF TypeInv, TypeOK, Create, keysAndPaths
  <2>2. (\A t \in Sessions : CallConsistent(t))'
    BY <1>6 DEF TypeInv, CallConsistent, target, Create, keysAndPaths
  <2> QED
    BY <2>1, <2>2 DEF TypeInv, Create, keysAndPaths
<1>7. CASE ~UNCHANGED <<call, roots>>
  <2>1. /\ call' = [call EXCEPT ![s] = f]
        /\ roots' = resolveRoots(pool)
        /\ rpid # ""
    BY <1>7 DEF Create, createError
  <2>2. TypeOK'
    BY <2>1, <1>3, <1>4, <1>5 DEF TypeInv, TypeOK, Create, keysAndPaths
  <2>3. /\ f.op = "Create" /\ f.at = "enroll" /\ f.draft = d /\ f.slot = firstSlot
        /\ d.keys = {} /\ d.secrets = {} /\ d.rpid = rpid
        /\ Idle.op = "None" /\ Idle.at = "none"
    BY DEF prompt, emptyVault, Idle
  <2>4. (\A t \in Sessions : CallConsistent(t))'
    BY <2>1, <2>3, <1>2 DEF TypeInv, TypeOK, CallConsistent, Create, Free
  <2> QED
    BY <2>2, <2>4 DEF TypeInv, Create, keysAndPaths
<1> QED
  BY <1>6, <1>7

\* EnrollKey opens a frame only on an unlocked session.
LEMMA EnrollKeyTypeInv ==
    ASSUME TypeInv, NEW s \in Sessions, NEW k \in Authenticators,
           NEW slot \in Slots, NEW label \in Labels, NEW random \in BOOLEAN,
           EnrollKey(s, k, slot, label, random)
    PROVE  TypeInv'
<1> DEFINE f == prompt("EnrollKey", "enroll", k, slot, orDefaultLabel(label), NoDoc,
                       {}, uvRequirement(doc))
<1>1. slot \in Int /\ orDefaultLabel(label) \in Text
  BY VaultAssumption, TextAssumption DEF orDefaultLabel
<1>2. doc \in Documents
  BY DEF TypeInv, TypeOK, EnrollKey, Callable
<1>3. ret' \in Returns
  <2>1. Return("EnrollKey", enrollKeyError(s, slot, random)) \/ ret' = NoReturn
    BY DEF EnrollKey
  <2> QED
    BY <2>1, errorType, returnType DEF Ops
<1>4. CASE UNCHANGED call
  <2>1. TypeOK'
    BY <1>3, <1>4 DEF TypeInv, TypeOK, EnrollKey, keysAndPaths
  <2>2. (\A t \in Sessions : CallConsistent(t))'
    BY <1>4 DEF TypeInv, CallConsistent, target, EnrollKey, keysAndPaths
  <2> QED
    BY <2>1, <2>2 DEF TypeInv, EnrollKey, keysAndPaths
<1>5. CASE ~UNCHANGED call
  <2>1. /\ call' = [call EXCEPT ![s] = f]
        /\ ~Locked(s) /\ slot >= 0
    BY <1>1, <1>5 DEF EnrollKey, enrollKeyError
  <2>2. TypeOK'
    <3>1. slot \in Nat
      BY <1>1, <2>1
    <3>2. f \in Frames
      BY <1>1, <1>2, <3>1, promptType DEF uvRequirement, Documents
    <3> QED
      BY <1>3, <2>1, <3>2 DEF TypeInv, TypeOK, EnrollKey, keysAndPaths
  <2>3. f.op = "EnrollKey" /\ f.at = "enroll" /\ f.slot = slot
    BY DEF prompt
  <2>4. sess[s] \in DataKeys /\ doc # NoDoc
    BY <2>1, <1>2, NoDocAssumption DEF TypeInv, TypeOK, EnrollKey, Callable, Locked, KeyBytes
  <2>5. (\A t \in Sessions : CallConsistent(t))'
    BY <2>1, <2>3, <2>4 DEF TypeInv, TypeOK, CallConsistent, target, EnrollKey, keysAndPaths
  <2> QED
    BY <2>2, <2>5 DEF TypeInv, EnrollKey, keysAndPaths
<1> QED
  BY <1>4, <1>5

\* A session without a call is told apart by its frame's fields.
LEMMA idleFields == Idle.op = "None" /\ Idle.at = "none"
  BY DEF Idle, prompt

\* A session with a prompt on screen has a frame.
LEMMA inFlight ==
    ASSUME TypeInv, NEW s \in Sessions,
           call[s].at # "none" \/ call[s].op # "None"
    PROVE  call[s] # Idle /\ call[s] \in Frames
  BY idleFields DEF TypeInv, TypeOK

\* An Enroll answer carries a credential of the key that gave it, or none.
LEMMA enrollAnswerType ==
    ASSUME NEW k, NEW ans \in EnrollAnswers(k)
    PROVE  /\ ans.cred \in CredIDs \union {NoCredential}
           /\ ans.cred \in CredIDs => Holder[ans.cred] = k
<1>1. CASE ans = Refusal
  BY <1>1, AuthenticatorAssumption DEF Refusal
<1>2. CASE ans # Refusal
  <2>1. PICK c \in {d \in CredIDs : Holder[d] = k} \union {NoCredential},
             r \in BOOLEAN :
           ans = [err |-> FALSE, cred |-> c, resident |-> r,
                  present |-> FALSE, uv |-> FALSE, secret |-> NoPRF]
    BY <1>2 DEF EnrollAnswers
  <2>2. ans.cred = c
    BY <2>1
  <2> QED
    BY <2>2, AuthenticatorAssumption
<1> QED
  BY <1>1, <1>2

\* A prompting call that returns leaves a typed return and no frame.
LEMMA finishType ==
    ASSUME TypeInv, NEW s \in Sessions, call[s] # Idle, NEW err \in Errors,
           NEW n \in 0..2, Finish(s, err, n)
    PROVE  /\ ret' \in Returns
           /\ call' \in [Sessions -> Frames \union {Idle}]
<1>1. call[s].op \in Ops
  BY DEF TypeInv, TypeOK, Frames, Ops
<1> QED
  BY <1>1 DEF Finish, Returns, TypeInv, TypeOK

\* The other sessions' calls do not notice one that returns.
LEMMA finishConsistent ==
    ASSUME TypeInv, NEW s \in Sessions, NEW err, NEW n, Finish(s, err, n),
           UNCHANGED <<doc, store, reads>>,
           \A t \in Sessions \ {s} : sess'[t] = sess[t]
    PROVE  (\A t \in Sessions : CallConsistent(t))'
<1> SUFFICES ASSUME NEW t \in Sessions PROVE CallConsistent(t)'
  OBVIOUS
<1>1. call' = [call EXCEPT ![s] = Idle] /\ s \in DOMAIN call /\ t \in DOMAIN call
  BY DEF Finish, TypeInv, TypeOK
<1>2. CASE t = s
  BY <1>1, <1>2, idleFields DEF CallConsistent
<1>3. CASE t # s
  <2>1. /\ call'[t] = call[t] /\ sess'[t] = sess[t] /\ target(t)' = target(t)
        /\ \A u \in Sessions : call'[u] \in {call[u], Idle}
    BY <1>1, <1>3 DEF TypeInv, TypeOK, target
  <2>2. CallConsistent(t)
    BY DEF TypeInv
  <2> QED
    BY <2>1, <2>2 DEF CallConsistent
<1> QED
  BY <1>2, <1>3

\* A frame moves on to the derivation only with a credential.
LEMMA EnrollAnsweredTypeInv ==
    ASSUME TypeInv, NEW s \in Sessions, EnrollAnswered(s)
    PROVE  TypeInv'
<1>1. call[s] # Idle /\ call[s] \in Frames
  BY inFlight DEF EnrollAnswered
<1>2. PICK ans \in EnrollAnswers(call[s].auth) :
         IF enrollError(call[s], ans) # "nil"
         THEN Finish(s, enrollError(call[s], ans), 0)
         ELSE /\ call' = [call EXCEPT ![s] = [@ EXCEPT !.at = "derive",
                                                       !.cred = ans.cred]]
              /\ UNCHANGED ret
  BY DEF EnrollAnswered
<1>3. pin' \in [Authenticators -> BOOLEAN] /\ reads' = reads
  BY DEF TypeInv, TypeOK, EnrollAnswered, Gesture
<1>4. ans.cred \in CredIDs \union {NoCredential}
  BY enrollAnswerType
<1>5. CASE enrollError(call[s], ans) # "nil"
  <2>1. ret' \in Returns /\ call' \in [Sessions -> Frames \union {Idle}]
    BY <1>1, <1>2, <1>5, errorType, finishType
  <2>2. TypeOK'
    BY <1>3, <2>1 DEF TypeInv, TypeOK, EnrollAnswered
  <2>3. (\A t \in Sessions : CallConsistent(t))'
    BY <1>2, <1>3, <1>5, finishConsistent DEF EnrollAnswered
  <2> QED
    BY <1>3, <2>2, <2>3 DEF TypeInv, EnrollAnswered
<1>6. CASE enrollError(call[s], ans) = "nil"
  <2> DEFINE f == [call[s] EXCEPT !.at = "derive", !.cred = ans.cred]
  <2>1. call' = [call EXCEPT ![s] = f] /\ ret' = ret
    BY <1>2, <1>6
  <2>2. f \in Frames
    BY <1>1, <1>4 DEF Frames
  <2>3. ans.cred \in CredIDs
    BY <1>4, <1>6 DEF enrollError
  <2>4. TypeOK'
    BY <1>3, <2>1, <2>2 DEF TypeInv, TypeOK, EnrollAnswered
  <2>5. /\ f.op = call[s].op /\ f.draft = call[s].draft /\ f.slot = call[s].slot
        /\ f.at = "derive" /\ f.cred = ans.cred
    BY <1>1 DEF Frames
  <2>6. call[s].op # "Unlock"
    BY DEF TypeInv, CallConsistent, EnrollAnswered
  <2>7. (\A t \in Sessions : CallConsistent(t))'
    <3> SUFFICES ASSUME NEW t \in Sessions PROVE CallConsistent(t)'
      OBVIOUS
    <3>0. CallConsistent(t) /\ CallConsistent(s)
      BY DEF TypeInv
    <3>1. CASE t = s
      BY <3>0, <3>1, <1>3, <2>1, <2>3, <2>5, <2>6
         DEF TypeInv, TypeOK, CallConsistent, EnrollAnswered
    <3>2. CASE t # s
      BY <3>0, <3>2, <1>1, <1>3, <2>1, <2>5
         DEF TypeInv, TypeOK, CallConsistent, target, EnrollAnswered
    <3> QED
      BY <3>1, <3>2
  <2> QED
    BY <1>3, <2>4, <2>7 DEF TypeInv, EnrollAnswered
<1> QED
  BY <1>5, <1>6

\* The document of an enrollment in flight.
LEMMA targetType ==
    ASSUME TypeInv, NEW s \in Sessions, call[s].op \in {"Create", "EnrollKey"}
    PROVE  target(s) \in Documents /\ target(s).salt \in Salt
<1>1. target(s) \in Documents
  BY DEF TypeInv, TypeOK, CallConsistent, target
<1> QED
  BY <1>1 DEF Documents

\* A frame moves on to the probe only with an output derived for its credential,
\* over its document's salt.
LEMMA DeriveAnsweredTypeInv ==
    ASSUME TypeInv, NEW s \in Sessions, DeriveAnswered(s)
    PROVE  TypeInv'
<1> DEFINE k == call[s].auth
<1>1. /\ call[s] # Idle /\ call[s] \in Frames
      /\ call[s].op \in {"Create", "EnrollKey"} /\ call[s].at = "derive"
  BY inFlight DEF DeriveAnswered
<1>2. /\ k \in Authenticators /\ call[s].cred \in CredIDs
      /\ reads[k] \in SUBSET Positions
  BY <1>1 DEF TypeInv, TypeOK, Frames, CallConsistent
<1>3. target(s).salt \in Salt
  BY <1>1, targetType
<1>4. PICK hasPIN \in BOOLEAN :
         /\ Gesture(call[s], hasPIN)
         /\ \E ans \in DeriveAnswers(k, {call[s].cred}, target(s).salt, reads[k], hasPIN) :
               IF deriveError(call[s], ans) # "nil"
               THEN Finish(s, deriveError(call[s], ans), touches(ans))
               ELSE /\ call' = [call EXCEPT ![s] =
                                   [@ EXCEPT !.at = "probe", !.uv = ans.uv,
                                             !.secret = ans.secret,
                                             !.touched = touches(ans)]]
                    /\ UNCHANGED ret
  BY DEF DeriveAnswered
<1>5. PICK ans \in DeriveAnswers(k, {call[s].cred}, target(s).salt, reads[k], hasPIN) :
         IF deriveError(call[s], ans) # "nil"
         THEN Finish(s, deriveError(call[s], ans), touches(ans))
         ELSE /\ call' = [call EXCEPT ![s] =
                             [@ EXCEPT !.at = "probe", !.uv = ans.uv,
                                       !.secret = ans.secret,
                                       !.touched = touches(ans)]]
              /\ UNCHANGED ret
  BY <1>4
<1>6. /\ ans \in Answers
      /\ ~ans.err => /\ ans.cred = call[s].cred
                     /\ ans.uv = hasPIN
                     /\ ans.secret \in {hmacSecret(call[s].cred, hasPIN,
                                                   target(s).salt, reads[k]), NoPRF}
  BY <1>2, <1>3, answerType
<1>7. pin' \in [Authenticators -> BOOLEAN] /\ reads' = reads
  BY <1>4 DEF TypeInv, TypeOK, Gesture
<1>8. touches(ans) \in 0..1
  BY DEF touches
<1>9. CASE deriveError(call[s], ans) # "nil"
  <2>1. ret' \in Returns /\ call' \in [Sessions -> Frames \union {Idle}]
    BY <1>1, <1>5, <1>8, <1>9, errorType, finishType
  <2>2. TypeOK'
    BY <1>7, <2>1 DEF TypeInv, TypeOK, DeriveAnswered
  <2>3. (\A t \in Sessions : CallConsistent(t))'
    BY <1>5, <1>7, <1>9, finishConsistent DEF DeriveAnswered
  <2> QED
    BY <1>7, <2>2, <2>3 DEF TypeInv, DeriveAnswered
<1>10. CASE deriveError(call[s], ans) = "nil"
  <2> DEFINE f == [call[s] EXCEPT !.at = "probe", !.uv = ans.uv,
                                  !.secret = ans.secret, !.touched = touches(ans)]
  <2>1. call' = [call EXCEPT ![s] = f] /\ ret' = ret
    BY <1>5, <1>10
  <2>2. /\ f \in Frames
        /\ f.op = call[s].op /\ f.draft = call[s].draft /\ f.slot = call[s].slot
        /\ f.at = "probe" /\ f.cred = call[s].cred /\ f.uv = ans.uv
        /\ f.secret = ans.secret /\ f.auth = k
    BY <1>1, <1>6, <1>8 DEF Frames, Answers
  <2>3. /\ ans.secret = hmacSecret(call[s].cred, ans.uv, target(s).salt, reads[k])
        /\ call[s].op = "EnrollKey" => ans.uv = doc.uv
    BY <1>6, <1>10 DEF deriveError, enrollAndDeriveError
  <2> HIDE DEF f
  <2>4. TypeOK'
    BY <1>7, <2>1, <2>2 DEF TypeInv, TypeOK, DeriveAnswered
  <2>5. (\A t \in Sessions : CallConsistent(t))'
    <3> SUFFICES ASSUME NEW t \in Sessions PROVE CallConsistent(t)'
      OBVIOUS
    <3>0. /\ CallConsistent(t) /\ CallConsistent(s)
          /\ UNCHANGED <<doc, store, sess, reads>>
          /\ s \in DOMAIN call /\ t \in DOMAIN call
      BY <1>7 DEF TypeInv, TypeOK, DeriveAnswered
    <3>1. CASE t = s
      <4>1. target(s)' = target(s) /\ call'[s] = f
        BY <3>0, <2>1, <2>2 DEF target
      <4>2. \A u \in Sessions \ {s} : call'[u] = call[u]
        BY <2>1 DEF TypeInv, TypeOK
      <4> QED
        BY <3>0, <3>1, <4>1, <4>2, <1>1, <1>2, <2>2, <2>3 DEF CallConsistent
    <3>2. CASE t # s
      <4>1. call'[t] = call[t]
        BY <3>2, <2>1 DEF TypeInv, TypeOK
      <4>2. target(t)' = target(t)
        BY <3>0, <4>1 DEF target
      <4>3. call[t].op # "Create"
        BY <3>0, <3>2, <1>1 DEF CallConsistent
      <4> QED
        BY <3>0, <4>1, <4>2, <4>3 DEF CallConsistent
    <3> QED
      BY <3>1, <3>2
  <2> QED
    BY <1>7, <2>4, <2>5 DEF TypeInv, DeriveAnswered
<1> QED
  BY <1>9, <1>10

\* The end of an enrollment adds a typed entry and keeps the salt and the
\* verification that other prompts rely on.
LEMMA ProbeAnsweredTypeInv ==
    ASSUME TypeInv, NEW s \in Sessions, NEW dataKey \in DataKeys,
           NEW random \in BOOLEAN, ProbeAnswered(s, dataKey, random)
    PROVE  TypeInv'
<1> DEFINE k == call[s].auth
           salt == target(s).salt
           gate(ans) == verifyDerivationDependsOnSalt(call[s].secret, call[s].uv, ans)
           error(ans) == IF gate(ans) = "nil" /\ ~random THEN "ErrRandom" ELSE gate(ans)
<1>1. /\ call[s] # Idle /\ call[s] \in Frames /\ call[s].at = "probe"
      /\ call[s].op \in {"Create", "EnrollKey"}
  <2>1. call[s] # Idle /\ call[s] \in Frames /\ call[s].at = "probe"
    BY inFlight DEF ProbeAnswered
  <2> QED
    BY <2>1 DEF TypeInv, CallConsistent, Frames
<1>2. /\ k \in Authenticators /\ call[s].cred \in CredIDs /\ call[s].uv \in BOOLEAN
      /\ call[s].slot \in Nat /\ call[s].label \in Text /\ call[s].touched \in 0..1
      /\ reads[k] \in SUBSET Positions
  BY <1>1 DEF TypeInv, TypeOK, Frames, CallConsistent
<1>3. salt \in Salt /\ target(s) \in Documents
  BY <1>1, targetType
<1>4. call[s].secret \in PRFs
  <2>1. call[s].secret = hmacSecret(call[s].cred, call[s].uv, salt, reads[k])
    BY <1>1 DEF TypeInv, CallConsistent
  <2> QED
    BY <1>2, <1>3, <2>1, hmacSecretType
<1>5. PICK hasPIN \in BOOLEAN :
         /\ Gesture(call[s], hasPIN)
         /\ \E ans \in DeriveAnswers(k, {call[s].cred}, probe(salt), reads[k], hasPIN) :
               /\ Finish(s, error(ans), call[s].touched + touches(ans))
               /\ IF error(ans) # "nil" THEN UNCHANGED <<doc, sess>>
                  ELSE IF call[s].op = "Create" THEN createSealed(s, dataKey)
                  ELSE enrollSealed(s)
  BY DEF ProbeAnswered
<1>6. PICK ans \in DeriveAnswers(k, {call[s].cred}, probe(salt), reads[k], hasPIN) :
         /\ Finish(s, error(ans), call[s].touched + touches(ans))
         /\ IF error(ans) # "nil" THEN UNCHANGED <<doc, sess>>
            ELSE IF call[s].op = "Create" THEN createSealed(s, dataKey)
            ELSE enrollSealed(s)
  BY <1>5
<1>7. pin' \in [Authenticators -> BOOLEAN] /\ reads' = reads
  BY <1>5 DEF TypeInv, TypeOK, Gesture
<1>8. /\ ret' \in Returns /\ call' \in [Sessions -> Frames \union {Idle}]
      /\ call' = [call EXCEPT ![s] = Idle]
  <2>1. error(ans) \in Errors
    BY errorType
  <2>2. call[s].touched + touches(ans) \in 0..2
    BY <1>2 DEF touches
  <2>3. Finish(s, error(ans), call[s].touched + touches(ans))
    BY <1>6
  <2> HIDE DEF error
  <2> QED
    BY <1>1, <2>1, <2>2, <2>3, finishType DEF Finish
<1>9. UNCHANGED <<opened, roots, store>>
  BY DEF ProbeAnswered
<1> HIDE DEF error
<1>10. CASE error(ans) # "nil"
  <2>1. UNCHANGED <<doc, sess>>
    BY <1>6, <1>10
  <2>2. TypeOK'
    BY <1>7, <1>8, <1>9, <2>1 DEF TypeInv, TypeOK
  <2>3. (\A t \in Sessions : CallConsistent(t))'
    BY <1>6, <1>7, <1>9, <2>1, finishConsistent
  <2> QED
    BY <1>7, <1>9, <2>1, <2>2, <2>3 DEF TypeInv
<1>11. CASE error(ans) = "nil" /\ call[s].op = "Create"
  <2> DEFINE v == [call[s].draft EXCEPT !.uv = call[s].uv, !.entropy = TRUE]
             e == wrapDataKey(v, dataKey, call[s].cred, call[s].secret,
                              call[s].slot, call[s].label)
  <2>1. doc' = [v EXCEPT !.keys = {e}] /\ sess' = [sess EXCEPT ![s] = dataKey]
    BY <1>6, <1>11 DEF createSealed
  <2>2. call[s].draft \in Documents
    BY <1>11 DEF TypeInv, CallConsistent
  <2>3. v \in Documents
    BY <2>2, <1>2, updateType
  <2>4. e \in KeyEntries
    BY <2>3, <1>2, <1>4, wrapDataKeyType DEF KeyBytes
  <2>5. doc' \in Documents /\ doc' # NoDoc
    BY <2>1, <2>3, <2>4, updateType
  <2>6. TypeOK'
    BY <1>7, <1>8, <1>9, <2>1, <2>5 DEF TypeInv, TypeOK, KeyBytes
  <2>7. \A t \in Sessions : call'[t] = Idle
    BY <1>1, <1>8, <1>11 DEF TypeInv, TypeOK, CallConsistent
  <2>8. (\A t \in Sessions : CallConsistent(t))'
    BY <2>7, idleFields DEF CallConsistent
  <2> QED
    BY <1>7, <2>5, <2>6, <2>8 DEF TypeInv
<1>12. CASE error(ans) = "nil" /\ call[s].op = "EnrollKey"
  <2> DEFINE e == wrapDataKey(doc, sess[s], call[s].cred, call[s].secret,
                              call[s].slot, call[s].label)
  <2>1. doc' = [doc EXCEPT !.keys = @ \union {e}] /\ sess' = sess
    BY <1>6, <1>12 DEF enrollSealed
  <2>2. doc \in Documents /\ sess[s] \in KeyBytes
    BY <1>12 DEF TypeInv, TypeOK, CallConsistent, KeyBytes
  <2>3. e \in KeyEntries
    BY <2>2, <1>2, <1>4, wrapDataKeyType
  <2>4. doc.keys \union {e} \in SUBSET KeyEntries
    BY <2>2, <2>3 DEF Documents
  <2> HIDE DEF e
  <2>5. doc' \in Documents /\ doc' # NoDoc /\ doc'.salt = doc.salt /\ doc'.uv = doc.uv
    <3>1. doc' \in Documents /\ doc' # NoDoc
      BY <2>1, <2>2, <2>4, updateType
    <3>2. doc'.salt = doc.salt /\ doc'.uv = doc.uv
      BY <2>1, <2>2 DEF Documents
    <3> QED
      BY <3>1, <3>2
  <2>6. TypeOK'
    BY <1>7, <1>8, <1>9, <2>1, <2>5 DEF TypeInv, TypeOK
  <2>7. (\A t \in Sessions : CallConsistent(t))'
    <3> SUFFICES ASSUME NEW t \in Sessions PROVE CallConsistent(t)'
      OBVIOUS
    <3>1. CASE t = s
      BY <1>8, <3>1, idleFields DEF TypeInv, TypeOK, CallConsistent
    <3>2. CASE t # s
      <4>1. call'[t] = call[t] /\ CallConsistent(t)
        BY <1>8, <3>2 DEF TypeInv, TypeOK
      <4>2. call[t].op # "Create"
        BY <1>1, <3>2, <4>1 DEF CallConsistent
      <4>3. target(t) = doc /\ target(t)' = doc'
        BY <4>1, <4>2 DEF target
      <4> QED
        BY <1>7, <1>9, <2>1, <2>5, <4>1, <4>2, <4>3 DEF CallConsistent
    <3> QED
      BY <3>1, <3>2
  <2> QED
    BY <1>7, <2>5, <2>6, <2>7 DEF TypeInv
<1> QED
  BY <1>1, <1>10, <1>11, <1>12

\* A call that prompts nobody, on a document in memory whose salt and recorded
\* verification it keeps.
LEMMA quietTypeInv ==
    ASSUME TypeInv, doc # NoDoc, ret' \in Returns,
           doc' \in Documents, doc'.salt = doc.salt, doc'.uv = doc.uv,
           store' \in Documents \union {NoDoc},
           sess' \in [Sessions -> KeyBytes \union {Absent}],
           \A s \in Sessions : call[s] # Idle => sess'[s] = sess[s],
           UNCHANGED <<opened, roots, call, keysAndPaths>>
    PROVE  TypeInv'
<1>1. doc' # NoDoc
  BY NoDocAssumption
<1>2. TypeOK'
  BY DEF TypeInv, TypeOK, keysAndPaths
<1>3. (\A s \in Sessions : CallConsistent(s))'
  <2> SUFFICES ASSUME NEW s \in Sessions PROVE CallConsistent(s)'
    OBVIOUS
  <2>1. CallConsistent(s) /\ call'[s] = call[s] /\ reads' = reads
    BY DEF TypeInv, keysAndPaths
  <2>2. CASE call[s] = Idle
    BY <2>1, <2>2, idleFields DEF CallConsistent
  <2>3. CASE call[s] # Idle
    <3>1. call[s].op # "Create"
      BY <2>1 DEF CallConsistent
    <3>2. target(s) = doc /\ target(s)' = doc'
      BY <2>1, <3>1 DEF target
    <3> QED
      BY <1>1, <2>1, <2>3, <3>1, <3>2 DEF CallConsistent
  <2> QED
    BY <2>2, <2>3
<1> QED
  BY <1>1, <1>2, <1>3 DEF TypeInv, keysAndPaths

\* A session that can be called has a document.
LEMMA callable ==
    ASSUME TypeInv, NEW s \in Sessions, Callable(s)
    PROVE  /\ doc \in Documents /\ doc # NoDoc /\ sess[s] \in KeyBytes
           /\ call[s] = Idle
           /\ ~Locked(s) => sess[s] \in DataKeys
  BY DEF TypeInv, TypeOK, Callable, Free, KeyBytes, Locked

\* Lock wipes no data key a call in flight is using.
LEMMA LockTypeInv ==
    ASSUME TypeInv, NEW s \in Sessions, Lock(s)
    PROVE  TypeInv'
<1>1. doc \in Documents /\ doc # NoDoc /\ call[s] = Idle
  BY callable DEF Lock
<1>2. ret' \in Returns
  BY errorType, returnType DEF Lock, Ops
<1>3. /\ sess' \in [Sessions -> KeyBytes \union {Absent}]
      /\ \A t \in Sessions : call[t] # Idle => sess'[t] = sess[t]
  BY <1>1 DEF TypeInv, TypeOK, Lock, KeyBytes
<1> QED
  BY <1>1, <1>2, <1>3, quietTypeInv DEF TypeInv, TypeOK, Lock

\* What Sealed returns is a document.
LEMMA SealedTypeInv ==
    ASSUME TypeInv, NEW s \in Sessions, Sealed(s)
    PROVE  TypeInv'
<1>1. doc \in Documents /\ doc # NoDoc
  BY callable DEF Sealed
<1>2. ret' \in Returns
  BY errorType, returnType DEF Sealed, Ops
<1>3. store' \in Documents
  BY <1>1, marshalType DEF Sealed
<1> QED
  BY <1>1, <1>2, <1>3, quietTypeInv DEF TypeInv, TypeOK, Sealed

\* Reading a secret changes nothing but the return.
LEMMA OpenSecretTypeInv ==
    ASSUME TypeInv, NEW s \in Sessions, NEW name \in SecretNames, OpenSecret(s, name)
    PROVE  TypeInv'
<1>1. doc \in Documents /\ doc # NoDoc
  BY callable DEF OpenSecret
<1>2. ret' \in Returns
  BY errorType, returnType DEF OpenSecret, Ops
<1> QED
  BY <1>1, <1>2, quietTypeInv DEF TypeInv, TypeOK, OpenSecret

\* Put leaves a document with the same salt and verification.
LEMMA PutTypeInv ==
    ASSUME TypeInv, NEW s \in Sessions, NEW name \in SecretNames,
           NEW reader \in Readers, NEW random \in BOOLEAN,
           Put(s, name, reader, random)
    PROVE  TypeInv'
<1>1. doc \in Documents /\ doc # NoDoc /\ sess[s] \in KeyBytes
  BY callable DEF Put
<1>2. ret' \in Returns
  BY errorType, returnType DEF Put, Ops
<1>3. doc' \in Documents /\ doc'.salt = doc.salt /\ doc'.uv = doc.uv
  <2>1. CASE putError(s, name, reader, random) # "nil"
    BY <1>1, <2>1 DEF Put
  <2>2. CASE putError(s, name, reader, random) = "nil"
    <3> DEFINE x == sealSecret(doc, sess[s], name, reader.value)
               xs == {y \in doc.secrets : y.name # name} \union {x}
    <3>1. reader.value \in Values
      <4>1. reader.kind # "nil" /\ reader.kind # "broken"
        BY <2>2 DEF putError
      <4>2. reader # [kind |-> "nil"] /\ reader # [kind |-> "broken"]
        BY <4>1
      <4>3. reader \in [kind : {"reader"}, value : Values]
        BY <4>2 DEF Readers
      <4> QED
        BY <4>3
    <3>2. x \in SecretEntries
      BY <1>1, <3>1, sealSecretType, VaultAssumption
    <3>3. xs \in SUBSET SecretEntries
      BY <1>1, <3>2 DEF Documents
    <3>4. doc' = [doc EXCEPT !.secrets = xs]
      BY <2>2 DEF Put
    <3> HIDE DEF xs
    <3>5. doc' \in Documents
      BY <1>1, <3>3, <3>4, updateType
    <3> QED
      BY <1>1, <3>4, <3>5 DEF Documents
  <2> QED
    BY <2>1, <2>2
<1> QED
  BY <1>1, <1>2, <1>3, quietTypeInv DEF TypeInv, TypeOK, Put

\* Delete leaves a document with the same salt and verification.
LEMMA DeleteTypeInv ==
    ASSUME TypeInv, NEW s \in Sessions, NEW name \in SecretNames, Delete(s, name)
    PROVE  TypeInv'
<1>1. doc \in Documents /\ doc # NoDoc
  BY callable DEF Delete
<1>2. ret' \in Returns
  BY errorType, removalType DEF Delete, Ops
<1>3. doc' \in Documents /\ doc'.salt = doc.salt /\ doc'.uv = doc.uv
  BY <1>1 DEF Delete, Documents
<1> QED
  BY <1>1, <1>2, <1>3, quietTypeInv DEF TypeInv, TypeOK, Delete

\* Removing keys from a document gives a document with the same salt and
\* verification.
LEMMA removeKeyType ==
    ASSUME NEW v \in Documents, NEW slot
    PROVE  /\ removeKey(v, slot) \in Documents
           /\ removeKey(v, slot).salt = v.salt /\ removeKey(v, slot).uv = v.uv
  BY DEF removeKey, Documents

\* RemoveKey and ForceRemoveKey may run while other sessions prompt.
LEMMA RemoveKeyTypeInv ==
    ASSUME TypeInv, NEW s \in Sessions, NEW slot \in Slots,
           RemoveKey(s, slot) \/ ForceRemoveKey(s, slot)
    PROVE  TypeInv'
<1>1. doc \in Documents /\ doc # NoDoc
  BY callable DEF RemoveKey, ForceRemoveKey
<1>2. ret' \in Returns
  BY errorType, removalType DEF RemoveKey, ForceRemoveKey, Ops
<1>3. doc' \in Documents /\ doc'.salt = doc.salt /\ doc'.uv = doc.uv
  BY <1>1, removeKeyType DEF RemoveKey, ForceRemoveKey
<1> QED
  BY <1>1, <1>2, <1>3, quietTypeInv DEF TypeInv, TypeOK, RemoveKey, ForceRemoveKey

\* No call is in flight when a document is opened.
LEMMA OpenWithTypeInv ==
    ASSUME TypeInv, NEW rpid \in RPIDs, NEW pool \in RootPools, OpenWith(rpid, pool)
    PROVE  TypeInv'
<1>1. ret' \in Returns
  BY errorType, returnType DEF OpenWith, Ops
<1>2. resolveRoots(pool) \in SUBSET Vendors
  BY VaultAssumption DEF resolveRoots
<1>3. TypeOK'
  BY <1>1, <1>2 DEF TypeInv, TypeOK, OpenWith, keysAndPaths
<1>4. \A s \in Sessions : call[s] = Idle
  <2> SUFFICES ASSUME NEW s \in Sessions, call[s] # Idle PROVE FALSE
    OBVIOUS
  <2>1. call[s].op \in {"Create", "EnrollKey", "Unlock"}
    BY DEF TypeInv, TypeOK, Frames
  <2> QED
    BY <2>1 DEF TypeInv, CallConsistent, OpenWith
<1>5. (\A s \in Sessions : CallConsistent(s))'
  BY <1>4, idleFields DEF CallConsistent, OpenWith
<1>6. /\ doc = NoDoc /\ store # NoDoc /\ UNCHANGED <<sess, reads>>
      /\ (UNCHANGED <<doc, opened>>) \/ doc' = store
  BY DEF OpenWith, keysAndPaths
<1> QED
  BY <1>3, <1>5, <1>6 DEF TypeInv

\* Unlock opens a frame on a document in memory.
LEMMA UnlockTypeInv ==
    ASSUME TypeInv, NEW s \in Sessions, NEW k \in Authenticators, Unlock(s, k)
    PROVE  TypeInv'
<1> DEFINE f == prompt("Unlock", "derive", k, 0, DefaultLabel, NoDoc,
                       credentialIDs(doc), uvRequirement(doc))
<1>1. ret' \in Returns
  BY errorType, returnType DEF Unlock, Ops
<1>2. doc \in Documents /\ doc # NoDoc
  BY DEF TypeInv, TypeOK, Unlock
<1>3. credentialIDs(doc) \in SUBSET CredIDs
  BY <1>2 DEF credentialIDs, Documents, KeyEntries
<1>4. f \in Frames
  <2>1. uvRequirement(doc) \in BOOLEAN
    BY <1>2 DEF uvRequirement, Documents
  <2>2. DefaultLabel \in Text
    BY TextAssumption
  <2>3. 0 \in Nat /\ NoDoc \in Documents \union {NoDoc}
    OBVIOUS
  <2> QED
    BY <1>3, <2>1, <2>2, <2>3, promptType
<1>5. f.op = "Unlock" /\ f.at = "derive"
  BY DEF prompt
<1> HIDE DEF f
<1>6. UNCHANGED call \/ call' = [call EXCEPT ![s] = f]
  BY DEF Unlock, f
<1>7. TypeOK'
  BY <1>1, <1>4, <1>6 DEF TypeInv, TypeOK, Unlock, keysAndPaths
<1>8. (\A t \in Sessions : CallConsistent(t))'
  <2> SUFFICES ASSUME NEW t \in Sessions PROVE CallConsistent(t)'
    OBVIOUS
  <2>1. CallConsistent(t) /\ UNCHANGED <<doc, store, sess, reads>>
    BY DEF TypeInv, Unlock, keysAndPaths
  <2>2. call'[t] = call[t] \/ call'[t] = f
    BY <1>6 DEF TypeInv, TypeOK
  <2>3. CASE call'[t] = f
    BY <1>2, <1>5, <2>1, <2>3 DEF CallConsistent
  <2>4. CASE call'[t] = call[t]
    <3>1. call[t].op # "Create"
      BY <1>2, <2>1 DEF CallConsistent
    <3>2. target(t)' = target(t)
      BY <2>1, <2>4 DEF target
    <3> QED
      BY <2>1, <2>4, <3>1, <3>2 DEF CallConsistent
  <2> QED
    BY <2>2, <2>3, <2>4
<1> QED
  BY <1>7, <1>8 DEF TypeInv, Unlock, keysAndPaths

\* What an unlock hands its session is a data key or wiped bytes.
LEMMA UnlockAnsweredTypeInv ==
    ASSUME TypeInv, NEW s \in Sessions, UnlockAnswered(s)
    PROVE  TypeInv'
<1>1. call[s] # Idle /\ call[s] \in Frames /\ call[s].op = "Unlock"
  BY inFlight DEF UnlockAnswered
<1>2. doc \in Documents /\ doc # NoDoc
  BY <1>1 DEF TypeInv, TypeOK, CallConsistent
<1>3. PICK hasPIN \in BOOLEAN :
         /\ Gesture(call[s], hasPIN)
         /\ \E ans \in DeriveAnswers(call[s].auth, call[s].ids, doc.salt,
                                     reads[call[s].auth], hasPIN) :
               /\ Finish(s, unlockError(ans), touches(ans))
               /\ sess' = IF unlockError(ans) # "nil" THEN sess
                          ELSE [sess EXCEPT ![s] = findKey(doc, ans.cred).wrapped.plain]
  BY DEF UnlockAnswered
<1>4. PICK ans \in DeriveAnswers(call[s].auth, call[s].ids, doc.salt,
                                 reads[call[s].auth], hasPIN) :
         /\ Finish(s, unlockError(ans), touches(ans))
         /\ sess' = IF unlockError(ans) # "nil" THEN sess
                    ELSE [sess EXCEPT ![s] = findKey(doc, ans.cred).wrapped.plain]
  BY <1>3
<1>5. pin' \in [Authenticators -> BOOLEAN] /\ reads' = reads
  BY <1>3 DEF TypeInv, TypeOK, Gesture
<1>6. ret' \in Returns /\ call' \in [Sessions -> Frames \union {Idle}]
  <2>1. touches(ans) \in 0..2
    BY DEF touches
  <2> QED
    BY <1>1, <1>4, <2>1, errorType, finishType
<1>7. /\ sess' \in [Sessions -> KeyBytes \union {Absent}]
      /\ \A t \in Sessions \ {s} : sess'[t] = sess[t]
  <2>1. CASE unlockError(ans) # "nil"
    BY <1>4, <2>1 DEF TypeInv, TypeOK
  <2>2. CASE unlockError(ans) = "nil"
    <3>1. enrolled(doc, ans.cred)
      BY <2>2 DEF unlockError
    <3>2. findKey(doc, ans.cred) \in doc.keys
      BY <3>1, findKeyIn
    <3>3. findKey(doc, ans.cred).wrapped.plain \in KeyBytes
      BY <1>2, <3>2 DEF Documents, KeyEntries
    <3> QED
      BY <1>4, <2>2, <3>3 DEF TypeInv, TypeOK
  <2> QED
    BY <2>1, <2>2
<1>8. TypeOK'
  BY <1>5, <1>6, <1>7 DEF TypeInv, TypeOK, UnlockAnswered
<1>9. (\A t \in Sessions : CallConsistent(t))'
  BY <1>4, <1>5, <1>7, finishConsistent DEF UnlockAnswered
<1> QED
  BY <1>2, <1>5, <1>8, <1>9 DEF TypeInv, UnlockAnswered

\* Exit drops the document together with its sessions and prompts.
LEMMA ExitTypeInv ==
    ASSUME TypeInv, Exit
    PROVE  TypeInv'
<1>1. NoReturn \in Returns
  BY DEF NoReturn, Returns, Ops, Errors
<1>2. TypeOK'
  BY <1>1, VaultAssumption DEF TypeInv, TypeOK, Exit
<1>3. (\A s \in Sessions : CallConsistent(s))'
  BY idleFields DEF CallConsistent, Exit
<1> QED
  BY <1>2, <1>3 DEF TypeInv, Exit

\* What a frame has learnt does not depend on the PIN the key has now.
LEMMA ChangePINTypeInv ==
    ASSUME TypeInv, NEW k \in Authenticators, ChangePIN(k)
    PROVE  TypeInv'
<1>1. TypeOK'
  BY DEF TypeInv, TypeOK, ChangePIN
<1>2. (\A s \in Sessions : CallConsistent(s))'
  BY DEF TypeInv, CallConsistent, target, ChangePIN
<1> QED
  BY <1>1, <1>2 DEF TypeInv, ChangePIN

\* TypeInv is about these variables alone.
LEMMA StutterTypeInv ==
    ASSUME TypeInv, UNCHANGED vars
    PROVE  TypeInv'
<1>1. TypeOK'
  BY DEF TypeInv, TypeOK, vars
<1>2. (\A s \in Sessions : CallConsistent(s))'
  BY DEF TypeInv, CallConsistent, target, vars
<1> QED
  BY <1>1, <1>2 DEF TypeInv, vars

\* Every step keeps the frames, handles and documents consistent.
THEOREM TypeInvInductive == Spec => []TypeInv
<1>1. TypeInv /\ [Next]_vars => TypeInv'
  <2> SUFFICES ASSUME TypeInv, [Next]_vars PROVE TypeInv'
    OBVIOUS
  <2>1. CASE UNCHANGED vars
    BY <2>1, StutterTypeInv
  <2>2. CASE Next
    BY <2>2, CreateTypeInv, EnrollKeyTypeInv, EnrollAnsweredTypeInv,
       DeriveAnsweredTypeInv, ProbeAnsweredTypeInv, OpenWithTypeInv, UnlockTypeInv,
       UnlockAnsweredTypeInv, LockTypeInv, OpenSecretTypeInv, PutTypeInv,
       DeleteTypeInv, RemoveKeyTypeInv, SealedTypeInv, ExitTypeInv, ChangePINTypeInv
       DEF Next, Answered
  <2> QED
    BY <2>1, <2>2
<1> QED
  BY <1>1, InitTypeInv, PTL DEF Spec

\* Every variable of the vault keeps its type.
THEOREM TypeCorrect == Spec => []TypeOK
<1>1. TypeInv => TypeOK
  BY DEF TypeInv
<1> QED
  BY <1>1, TypeInvInductive, PTL

=============================================================================
