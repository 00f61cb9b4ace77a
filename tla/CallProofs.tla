----------------------------- MODULE CallProofs -----------------------------
(***************************************************************************)
(* What the calls of a vault may and may never do, for every instance:     *)
(* access, enrollment and removal step by step, and what was persisted     *)
(* reopens.                                                                *)
(***************************************************************************)
EXTENDS BindingProofs, FiniteSetTheorems

-----------------------------------------------------------------------------
(* What the answer to a gesture changes *)

\* The entry that wrapDataKey makes.
LEMMA wrappedFields ==
    ASSUME NEW v, NEW dataKey, NEW cred, NEW prf, NEW slot, NEW label
    PROVE  LET e == wrapDataKey(v, dataKey, cred, prf, slot, label)
           IN e.cred = cred /\ e.slot = slot /\ e.wrapped.plain = dataKey
  BY DEF wrapDataKey, seal

\* The enrollment of s has ended with the new entry e in the document.
enrolledBy(s, e) ==
    /\ e.cred = call[s].cred /\ e.slot = call[s].slot
    /\ doc' \in Documents /\ doc' # NoDoc
    /\ ret'.op = call[s].op /\ ret'.err = "nil" /\ ret'.touched = call[s].touched + 1
    /\ \/ /\ call[s].op = "Create" /\ doc = NoDoc /\ store = NoDoc
          /\ doc'.keys = {e} /\ doc'.secrets = {} /\ doc'.rpid = call[s].draft.rpid
          /\ \A t \in Sessions \ {s} : sess'[t] = sess[t]
       \/ /\ call[s].op = "EnrollKey" /\ doc \in Documents /\ doc # NoDoc
          /\ doc'.keys = doc.keys \union {e} /\ doc'.secrets = doc.secrets
          /\ doc'.rpid = doc.rpid /\ UNCHANGED sess

\* An enrollment ends with an error and nothing changed, or with one entry more.
LEMMA probeEffect ==
    ASSUME TypeInv, NEW s \in Sessions, NEW dataKey \in DataKeys,
           NEW random \in BOOLEAN, ProbeAnswered(s, dataKey, random)
    PROVE  /\ call[s] \in Frames /\ call[s].at = "probe"
           /\ call[s].op \in {"Create", "EnrollKey"} /\ call[s].cred \in CredIDs
           /\ call' = [call EXCEPT ![s] = Idle]
           /\ UNCHANGED <<opened, roots, store, reads>>
           /\ ret'.err # "ErrAuthenticating"
           /\ (UNCHANGED <<doc, sess>>) \/ (\E e : enrolledBy(s, e))
<1> DEFINE k == call[s].auth
           salt == target(s).salt
           gate(ans) == verifyDerivationDependsOnSalt(call[s].secret, call[s].uv, ans)
           error(ans) == IF gate(ans) = "nil" /\ ~random THEN "ErrRandom" ELSE gate(ans)
<1>1. /\ call[s] \in Frames /\ call[s].at = "probe"
      /\ call[s].op \in {"Create", "EnrollKey"}
  <2>1. call[s] \in Frames /\ call[s].at = "probe"
    BY inFlight DEF ProbeAnswered
  <2> QED
    BY <2>1 DEF TypeInv, CallConsistent, Frames
<1>2. call[s].cred \in CredIDs
  BY <1>1 DEF TypeInv, CallConsistent
<1>3. PICK hasPIN \in BOOLEAN :
         /\ Gesture(call[s], hasPIN)
         /\ \E ans \in DeriveAnswers(k, {call[s].cred}, probe(salt), reads[k], hasPIN) :
               /\ Finish(s, error(ans), call[s].touched + touches(ans))
               /\ IF error(ans) # "nil" THEN UNCHANGED <<doc, sess>>
                  ELSE IF call[s].op = "Create" THEN createSealed(s, dataKey)
                  ELSE enrollSealed(s)
  BY DEF ProbeAnswered
<1>4. PICK ans \in DeriveAnswers(k, {call[s].cred}, probe(salt), reads[k], hasPIN) :
         /\ Finish(s, error(ans), call[s].touched + touches(ans))
         /\ IF error(ans) # "nil" THEN UNCHANGED <<doc, sess>>
            ELSE IF call[s].op = "Create" THEN createSealed(s, dataKey)
            ELSE enrollSealed(s)
  BY <1>3
<1>5. UNCHANGED <<opened, roots, store, reads>>
  BY <1>3 DEF ProbeAnswered, Gesture
<1>6. /\ call' = [call EXCEPT ![s] = Idle]
      /\ ret'.op = call[s].op /\ ret'.err = error(ans)
      /\ ret'.touched = call[s].touched + touches(ans)
  BY <1>4 DEF Finish
<1>7. error(ans) # "ErrAuthenticating"
  BY DEF verifyDerivationDependsOnSalt
<1>8. ASSUME error(ans) = "nil" PROVE ret'.touched = call[s].touched + 1
  <2>1. gate(ans) = "nil"
    BY <1>8
  <2>2. ans.present
    BY <2>1 DEF verifyDerivationDependsOnSalt
  <2> QED
    BY <1>6, <2>2 DEF touches
<1>9. TypeInv'
  BY ProbeAnsweredTypeInv
<1> HIDE DEF error
<1>10. CASE error(ans) # "nil"
  BY <1>1, <1>2, <1>4, <1>5, <1>6, <1>7, <1>10
<1>11. CASE error(ans) = "nil" /\ call[s].op = "Create"
  <2> DEFINE v == [call[s].draft EXCEPT !.uv = call[s].uv, !.entropy = TRUE]
             e == wrapDataKey(v, dataKey, call[s].cred, call[s].secret,
                              call[s].slot, call[s].label)
  <2>1. doc' = [v EXCEPT !.keys = {e}] /\ sess' = [sess EXCEPT ![s] = dataKey]
    BY <1>4, <1>11 DEF createSealed
  <2>2. e.cred = call[s].cred /\ e.slot = call[s].slot
    BY wrappedFields
  <2>3. /\ call[s].draft \in Documents /\ call[s].draft.secrets = {}
        /\ doc = NoDoc /\ store = NoDoc /\ call[s].uv \in BOOLEAN
    BY <1>1, <1>11 DEF TypeInv, CallConsistent, Frames
  <2>4. v \in Documents /\ v.secrets = {} /\ v.rpid = call[s].draft.rpid
    <3>1. v \in Documents
      BY <2>3, updateType
    <3> QED
      BY <2>3, <3>1 DEF Documents
  <2> HIDE DEF v, e
  <2>5. doc'.keys = {e} /\ doc'.secrets = {} /\ doc'.rpid = call[s].draft.rpid
    BY <2>1, <2>4, entriesKeepHeader
  <2>6. doc' \in Documents /\ doc' # NoDoc
    <3>1. sess'[s] \in DataKeys
      BY <2>1 DEF TypeInv, TypeOK
    <3>2. sess'[s] # Absent
      BY <3>1, AbsentAssumption
    <3> QED
      BY <1>9, <3>2 DEF TypeInv, TypeOK
  <2>7. \A t \in Sessions \ {s} : sess'[t] = sess[t]
    BY <2>1 DEF TypeInv, TypeOK
  <2>8. enrolledBy(s, e)
    BY <1>6, <1>8, <1>11, <2>2, <2>3, <2>5, <2>6, <2>7 DEF enrolledBy
  <2> QED
    BY <1>1, <1>2, <1>5, <1>6, <1>7, <2>8
<1>12. CASE error(ans) = "nil" /\ call[s].op = "EnrollKey"
  <2> DEFINE e == wrapDataKey(doc, sess[s], call[s].cred, call[s].secret,
                              call[s].slot, call[s].label)
             ks == doc.keys \union {e}
  <2>1. doc' = [doc EXCEPT !.keys = ks] /\ sess' = sess
    BY <1>4, <1>12 DEF enrollSealed
  <2>2. e.cred = call[s].cred /\ e.slot = call[s].slot
    BY wrappedFields
  <2>3. doc \in Documents /\ doc # NoDoc /\ sess[s] \in DataKeys
    BY <1>12 DEF TypeInv, TypeOK, CallConsistent
  <2> HIDE DEF e
  <2>4. doc'.keys = ks /\ doc'.secrets = doc.secrets /\ doc'.rpid = doc.rpid
    BY <2>1, <2>3, entriesKeepHeader
  <2>5. doc' \in Documents /\ doc' # NoDoc
    <3>1. sess'[s] # Absent
      BY <2>1, <2>3, AbsentAssumption
    <3> QED
      BY <1>9, <3>1 DEF TypeInv, TypeOK
  <2>6. enrolledBy(s, e)
    BY <1>6, <1>8, <1>12, <2>1, <2>2, <2>3, <2>4, <2>5 DEF enrolledBy
  <2> QED
    BY <1>1, <1>2, <1>5, <1>6, <1>7, <2>6
<1> QED
  BY <1>1, <1>10, <1>11, <1>12

\* The first gesture ends the enrollment, or moves it on with a credential of
\* the key it prompted, made by a vendor the options in force trust.
LEMMA enrollEffect ==
    ASSUME TypeInv, NEW s \in Sessions, EnrollAnswered(s)
    PROVE  /\ call[s] \in Frames /\ call[s].at = "enroll"
           /\ call[s].op \in {"Create", "EnrollKey"}
           /\ UNCHANGED <<doc, opened, roots, sess, store, reads>>
           /\ \/ call' = [call EXCEPT ![s] = Idle] /\ ret'.err # "ErrAuthenticating"
              \/ \E f \in Frames :
                    /\ call' = [call EXCEPT ![s] = f] /\ ret' = ret
                    /\ f.op = call[s].op /\ f.slot = call[s].slot /\ f.at = "derive"
                    /\ Holder[f.cred] = f.auth /\ Vendor[f.auth] \in roots
<1>1. call[s] \in Frames /\ call[s].at = "enroll"
  BY inFlight DEF EnrollAnswered
<1>2. call[s].op \in {"Create", "EnrollKey"}
  BY <1>1 DEF TypeInv, CallConsistent, Frames
<1>3. PICK ans \in EnrollAnswers(call[s].auth) :
         IF enrollError(call[s], ans) # "nil"
         THEN Finish(s, enrollError(call[s], ans), 0)
         ELSE /\ call' = [call EXCEPT ![s] = [@ EXCEPT !.at = "derive",
                                                       !.cred = ans.cred]]
              /\ UNCHANGED ret
  BY DEF EnrollAnswered
<1>4. UNCHANGED <<doc, opened, roots, sess, store, reads>>
  BY DEF EnrollAnswered, Gesture
<1>5. CASE enrollError(call[s], ans) # "nil"
  <2>1. call' = [call EXCEPT ![s] = Idle] /\ ret'.err = enrollError(call[s], ans)
    BY <1>3, <1>5 DEF Finish
  <2>2. enrollError(call[s], ans) # "ErrAuthenticating"
    BY DEF enrollError
  <2> QED
    BY <1>1, <1>2, <1>4, <2>1, <2>2
<1>6. CASE enrollError(call[s], ans) = "nil"
  <2> DEFINE f == [call[s] EXCEPT !.at = "derive", !.cred = ans.cred]
  <2>1. call' = [call EXCEPT ![s] = f] /\ ret' = ret
    BY <1>3, <1>6
  <2>2. ans.cred \in CredIDs /\ Holder[ans.cred] = call[s].auth
    BY <1>6, enrollAnswerType DEF enrollError
  <2>3. Vendor[call[s].auth] \in roots
    BY <1>6 DEF enrollError, verifyGenuineHardware
  <2>4. /\ f \in Frames /\ f.op = call[s].op /\ f.slot = call[s].slot
        /\ f.auth = call[s].auth /\ f.at = "derive" /\ f.cred = ans.cred
    BY <1>1, <2>2 DEF Frames
  <2> HIDE DEF f
  <2> QED
    BY <1>1, <1>2, <1>4, <2>1, <2>2, <2>3, <2>4
<1> QED
  BY <1>5, <1>6

\* The second gesture ends the enrollment, or moves it on once touched and, for
\* EnrollKey, with a credential the document does not have.
LEMMA deriveEffect ==
    ASSUME TypeInv, NEW s \in Sessions, DeriveAnswered(s)
    PROVE  /\ call[s] \in Frames /\ call[s].at = "derive"
           /\ call[s].op \in {"Create", "EnrollKey"} /\ call[s].cred \in CredIDs
           /\ UNCHANGED <<doc, opened, roots, sess, store, reads>>
           /\ \/ call' = [call EXCEPT ![s] = Idle] /\ ret'.err # "ErrAuthenticating"
              \/ \E f \in Frames :
                    /\ call' = [call EXCEPT ![s] = f] /\ ret' = ret
                    /\ f.op = call[s].op /\ f.slot = call[s].slot /\ f.at = "probe"
                    /\ f.cred = call[s].cred /\ f.auth = call[s].auth
                    /\ f.touched = 1
                    /\ f.op = "EnrollKey" => ~enrolled(doc, f.cred)
<1> DEFINE k == call[s].auth
<1>1. /\ call[s] \in Frames /\ call[s].at = "derive"
      /\ call[s].op \in {"Create", "EnrollKey"}
  BY inFlight DEF DeriveAnswered
<1>2. /\ call[s].cred \in CredIDs /\ k \in Authenticators
      /\ reads[k] \in SUBSET Positions
  BY <1>1 DEF TypeInv, TypeOK, CallConsistent, Frames
<1>3. target(s).salt \in Salt
  BY <1>1, targetType
<1>4. PICK hasPIN \in BOOLEAN :
         /\ Gesture(call[s], hasPIN)
         /\ \E ans \in DeriveAnswers(k, {call[s].cred}, target(s).salt, reads[k], hasPIN) :
               IF deriveError(call[s], ans) # "nil"
               THEN Finish(s, deriveError(call[s], ans), touches(ans))
               ELSE /\ call' = [call EXCEPT ![s] =
                                   [@ EXCEPT !.at = "probe", !.uv = ans.uv,
                                             !.secret = ans.secret,
                                             !.touched = touches(ans)]]
                    /\ UNCHANGED ret
  BY DEF DeriveAnswered
<1>5. PICK ans \in DeriveAnswers(k, {call[s].cred}, target(s).salt, reads[k], hasPIN) :
         IF deriveError(call[s], ans) # "nil"
         THEN Finish(s, deriveError(call[s], ans), touches(ans))
         ELSE /\ call' = [call EXCEPT ![s] =
                             [@ EXCEPT !.at = "probe", !.uv = ans.uv,
                                       !.secret = ans.secret,
                                       !.touched = touches(ans)]]
              /\ UNCHANGED ret
  BY <1>4
<1>6. ans \in Answers
  BY <1>2, <1>3, answerType
<1>7. UNCHANGED <<doc, opened, roots, sess, store, reads>>
  BY <1>4 DEF DeriveAnswered, Gesture
<1>8. CASE deriveError(call[s], ans) # "nil"
  <2>1. call' = [call EXCEPT ![s] = Idle] /\ ret'.err = deriveError(call[s], ans)
    BY <1>5, <1>8 DEF Finish
  <2>2. deriveError(call[s], ans) # "ErrAuthenticating"
    BY DEF deriveError, enrollAndDeriveError
  <2> QED
    BY <1>1, <1>2, <1>7, <2>1, <2>2
<1>9. CASE deriveError(call[s], ans) = "nil"
  <2> DEFINE f == [call[s] EXCEPT !.at = "probe", !.uv = ans.uv,
                                  !.secret = ans.secret, !.touched = touches(ans)]
  <2>1. call' = [call EXCEPT ![s] = f] /\ ret' = ret
    BY <1>5, <1>9
  <2>2. /\ touches(ans) = 1
        /\ call[s].op = "EnrollKey" => ~enrolled(doc, call[s].cred)
    BY <1>9 DEF deriveError, enrollAndDeriveError, touches
  <2>3. touches(ans) \in 0..1
    BY DEF touches
  <2>4. /\ f \in Frames /\ f.op = call[s].op /\ f.slot = call[s].slot
        /\ f.auth = k /\ f.at = "probe" /\ f.cred = call[s].cred
        /\ f.touched = touches(ans)
    BY <1>1, <1>6, <2>3 DEF Frames, Answers
  <2> HIDE DEF f
  <2> QED
    BY <1>1, <1>2, <1>7, <2>1, <2>2, <2>4
<1> QED
  BY <1>8, <1>9

\* An unlock fails and leaves its session as it was, or hands it the data key
\* that an entry of the key that was touched wraps.
LEMMA unlockEffect ==
    ASSUME TypeInv, NEW s \in Sessions, UnlockAnswered(s)
    PROVE  /\ call[s] \in Frames /\ call[s].op = "Unlock"
           /\ doc \in Documents /\ doc # NoDoc
           /\ call' = [call EXCEPT ![s] = Idle]
           /\ UNCHANGED <<doc, opened, roots, store, reads>>
           /\ ret'.op = "Unlock"
           /\ \/ /\ sess' = sess
                 /\ ret'.err = "ErrAuthenticating" =>
                       \E e \in doc.keys :
                          unwrapDataKey(doc, e, hmacSecret(e.cred, doc.uv, doc.salt,
                                                           reads[call[s].auth])) # "nil"
              \/ \E e \in doc.keys :
                    /\ sess' = [sess EXCEPT ![s] = e.wrapped.plain]
                    /\ Holder[e.cred] = call[s].auth
                    /\ ret'.err = "nil" /\ ret'.touched = 1
<1> DEFINE k == call[s].auth
<1>1. call[s] \in Frames /\ call[s].op = "Unlock"
  BY inFlight DEF UnlockAnswered
<1>2. /\ doc \in Documents /\ doc # NoDoc /\ k \in Authenticators
      /\ call[s].ids \in SUBSET CredIDs /\ reads[k] \in SUBSET Positions
  BY <1>1 DEF TypeInv, TypeOK, CallConsistent, Frames
<1>3. doc.salt \in Salt
  BY <1>2 DEF Documents
<1>4. PICK hasPIN \in BOOLEAN :
         /\ Gesture(call[s], hasPIN)
         /\ \E ans \in DeriveAnswers(k, call[s].ids, doc.salt, reads[k], hasPIN) :
               /\ Finish(s, unlockError(ans), touches(ans))
               /\ sess' = IF unlockError(ans) # "nil" THEN sess
                          ELSE [sess EXCEPT ![s] = findKey(doc, ans.cred).wrapped.plain]
  BY DEF UnlockAnswered
<1>5. PICK ans \in DeriveAnswers(k, call[s].ids, doc.salt, reads[k], hasPIN) :
         /\ Finish(s, unlockError(ans), touches(ans))
         /\ sess' = IF unlockError(ans) # "nil" THEN sess
                    ELSE [sess EXCEPT ![s] = findKey(doc, ans.cred).wrapped.plain]
  BY <1>4
<1>6. UNCHANGED <<doc, opened, roots, store, reads>>
  BY <1>4 DEF UnlockAnswered, Gesture
<1>7. /\ call' = [call EXCEPT ![s] = Idle] /\ ret'.op = "Unlock"
      /\ ret'.err = unlockError(ans) /\ ret'.touched = touches(ans)
  BY <1>1, <1>5 DEF Finish
<1>8. ~ans.err => /\ Holder[ans.cred] = k /\ ans.uv = hasPIN
                  /\ ans.secret \in {hmacSecret(ans.cred, hasPIN, doc.salt, reads[k]),
                                     NoPRF}
  BY <1>2, <1>3, answerType
<1> DEFINE e == findKey(doc, ans.cred)
<1>9. ASSUME unlockError(ans) \in {"nil", "ErrAuthenticating"}
      PROVE  /\ ~ans.err /\ ans.present /\ ans.uv = doc.uv /\ enrolled(doc, ans.cred)
             /\ unlockError(ans) = unwrapDataKey(doc, e, ans.secret)
  BY <1>9 DEF unlockError
<1>10. ASSUME unlockError(ans) \in {"nil", "ErrAuthenticating"}
       PROVE  e \in doc.keys /\ e.cred = ans.cred
  BY <1>9, <1>10, findKeyIn
<1> HIDE DEF e
<1>11. CASE unlockError(ans) = "ErrAuthenticating"
  <2>1. ans.secret # NoPRF
    BY <1>9, <1>11 DEF unwrapDataKey
  <2>2. ans.secret = hmacSecret(e.cred, doc.uv, doc.salt, reads[k])
    BY <1>8, <1>9, <1>10, <1>11, <2>1
  <2>3. unwrapDataKey(doc, e, ans.secret) # "nil"
    BY <1>9, <1>11
  <2> QED
    BY <1>1, <1>2, <1>5, <1>6, <1>7, <1>10, <1>11, <2>2, <2>3
<1>12. CASE unlockError(ans) = "nil"
  <2>1. sess' = [sess EXCEPT ![s] = e.wrapped.plain]
    BY <1>5, <1>12 DEF e
  <2>2. touches(ans) = 1
    BY <1>9, <1>12 DEF touches
  <2> QED
    BY <1>1, <1>2, <1>6, <1>7, <1>8, <1>9, <1>10, <1>12, <2>1, <2>2
<1>13. CASE unlockError(ans) \notin {"nil", "ErrAuthenticating"}
  BY <1>1, <1>2, <1>5, <1>6, <1>7, <1>13
<1> QED
  BY <1>11, <1>12, <1>13

-----------------------------------------------------------------------------
(* What an enrollment has earned *)

\* Create opens a frame at its first gesture, or refuses.
LEMMA createEffect ==
    ASSUME NEW s, NEW k, NEW rpid, NEW label, NEW pool, NEW salt, NEW random,
           Create(s, k, rpid, label, pool, salt, random)
    PROVE  /\ doc = NoDoc /\ (\A t \in Sessions : call[t] = Idle)
           /\ UNCHANGED <<doc, opened, sess, store, reads>>
           /\ ret'.err # "ErrAuthenticating"
           /\ \/ UNCHANGED <<call, roots>>
              \/ \E f : /\ call' = [call EXCEPT ![s] = f]
                        /\ f.op = "Create" /\ f.at = "enroll"
<1> DEFINE f == prompt("Create", "enroll", k, firstSlot, orDefaultLabel(label),
                       emptyVault(rpid, salt), {}, FALSE)
<1>1. f.op = "Create" /\ f.at = "enroll"
  BY DEF prompt
<1>2. (UNCHANGED <<call, roots>>) \/ call' = [call EXCEPT ![s] = f]
  BY DEF Create
<1>3. ret'.err # "ErrAuthenticating"
  <2>1. Return("Create", createError(rpid, random)) \/ ret' = NoReturn
    BY DEF Create
  <2>2. createError(rpid, random) \in {"ErrNoRPID", "ErrRandom", "nil"}
    BY Zenon DEF createError
  <2> QED
    BY <2>1, <2>2 DEF Return, NoReturn
<1> HIDE DEF f
<1> QED
  BY <1>1, <1>2, <1>3 DEF Create, Free, keysAndPaths

\* EnrollKey opens a frame at its first gesture for a slot that is free, or
\* refuses.
LEMMA enrollKeyEffect ==
    ASSUME NEW s, NEW k, NEW slot, NEW label, NEW random,
           EnrollKey(s, k, slot, label, random)
    PROVE  /\ UNCHANGED <<doc, opened, roots, sess, store, reads>>
           /\ MayAdminister(s) /\ Callable(s)
           /\ ret'.err # "ErrAuthenticating"
           /\ \/ UNCHANGED call
              \/ \E f : /\ call' = [call EXCEPT ![s] = f]
                        /\ f.op = "EnrollKey" /\ f.at = "enroll" /\ f.slot = slot
                        /\ ~slotOccupied(doc, slot)
<1> DEFINE f == prompt("EnrollKey", "enroll", k, slot, orDefaultLabel(label), NoDoc,
                       {}, uvRequirement(doc))
<1>1. f.op = "EnrollKey" /\ f.at = "enroll" /\ f.slot = slot
  BY DEF prompt
<1>2. (UNCHANGED call) \/ (~slotOccupied(doc, slot) /\ call' = [call EXCEPT ![s] = f])
  BY DEF EnrollKey, enrollKeyError
<1>3. ret'.err # "ErrAuthenticating"
  BY DEF EnrollKey, Return, enrollKeyError, NoReturn
<1> HIDE DEF f
<1> QED
  BY <1>1, <1>2, <1>3 DEF EnrollKey, keysAndPaths

\* Unlock opens a frame at its one gesture, or refuses.
LEMMA unlockPrompts ==
    ASSUME NEW s, NEW k, Unlock(s, k)
    PROVE  /\ UNCHANGED <<doc, opened, roots, sess, store, reads>>
           /\ ret'.err # "ErrAuthenticating"
           /\ \/ UNCHANGED call
              \/ \E f : /\ call' = [call EXCEPT ![s] = f]
                        /\ f.op = "Unlock" /\ f.at = "derive"
<1> DEFINE f == prompt("Unlock", "derive", k, 0, DefaultLabel, NoDoc,
                       credentialIDs(doc), uvRequirement(doc))
<1>1. f.op = "Unlock" /\ f.at = "derive"
  BY DEF prompt
<1>2. (UNCHANGED call) \/ call' = [call EXCEPT ![s] = f]
  BY DEF Unlock
<1>3. ret'.err # "ErrAuthenticating"
  BY DEF Unlock, Return, unlockRefusal, NoReturn
<1> HIDE DEF f
<1> QED
  BY <1>1, <1>2, <1>3 DEF Unlock, keysAndPaths

\* No call is in flight when there is no document and none is being created.
LEMMA openWithIdle ==
    ASSUME TypeInv, doc = NoDoc, store # NoDoc, NEW s \in Sessions
    PROVE  call[s] = Idle
<1> SUFFICES ASSUME call[s] # Idle PROVE FALSE
  OBVIOUS
<1>1. call[s].op \in {"Create", "EnrollKey", "Unlock"}
  BY DEF TypeInv, TypeOK, Frames
<1> QED
  BY <1>1 DEF TypeInv, CallConsistent

\* What an enrollment has earned it keeps until it ends: the options in force
\* change only when no call is in flight.
LEMMA EarnStep ==
    ASSUME EarnInv, TypeInv', [Next]_vars
    PROVE  EarnInv'
<1> SUFFICES ASSUME NEW t \in Sessions PROVE Earned(t)'
  BY DEF EarnInv
<1>0. TypeInv /\ Earned(t) /\ t \in DOMAIN call
  BY DEF EarnInv, TypeInv, TypeOK
<1>1. ASSUME call'[t] = call[t], roots' = roots PROVE Earned(t)'
  BY <1>0, <1>1 DEF Earned
<1>2. ASSUME call'[t] = Idle PROVE Earned(t)'
  BY <1>2, idleFields DEF Earned
<1>3. ASSUME NEW s \in Sessions, NEW f, call' = [call EXCEPT ![s] = f],
             t # s => call[t] = Idle \/ roots' = roots,
             \/ f.at = "enroll"
             \/ f.op = "Unlock" /\ f.at # "probe"
             \/ /\ Holder[f.cred] = f.auth /\ Vendor[f.auth] \in roots'
                /\ f.at = "probe" => f.touched = 1
      PROVE  Earned(t)'
  <2>1. CASE t = s
    <3>1. call'[t] = f
      BY <1>0, <1>3, <2>1
    <3> QED
      BY <1>3, <3>1 DEF Earned
  <2>2. CASE t # s
    <3>1. call'[t] = call[t]
      BY <1>0, <1>3, <2>2
    <3> QED
      BY <1>1, <1>2, <1>3, <2>2, <3>1
  <2> QED
    BY <2>1, <2>2
<1>4. ASSUME NEW s \in Sessions, call' = [call EXCEPT ![s] = Idle], roots' = roots
      PROVE  Earned(t)'
  BY <1>0, <1>1, <1>2, <1>4
<1>5. ASSUME NEW s \in Sessions, NEW k, NEW rpid, NEW label, NEW pool, NEW salt,
             NEW random, Create(s, k, rpid, label, pool, salt, random)
      PROVE  Earned(t)'
  BY <1>1, <1>3, <1>5, createEffect
<1>6. ASSUME NEW s \in Sessions, NEW k, NEW slot, NEW label, NEW random,
             EnrollKey(s, k, slot, label, random)
      PROVE  Earned(t)'
  BY <1>1, <1>3, <1>6, enrollKeyEffect
<1>7. ASSUME NEW s \in Sessions, NEW k, Unlock(s, k)
      PROVE  Earned(t)'
  <2>1. roots' = roots
    BY <1>7, unlockPrompts
  <2>2. CASE UNCHANGED call
    BY <1>1, <2>1, <2>2
  <2>3. CASE \E f : call' = [call EXCEPT ![s] = f] /\ f.op = "Unlock" /\ f.at = "derive"
    BY <1>3, <2>1, <2>3
  <2> QED
    BY <1>7, <2>2, <2>3, unlockPrompts
<1>8. ASSUME NEW s \in Sessions, EnrollAnswered(s)
      PROVE  Earned(t)'
  <2>1. roots' = roots
    BY <1>0, <1>8, enrollEffect
  <2>2. CASE call' = [call EXCEPT ![s] = Idle]
    BY <1>4, <2>1, <2>2
  <2>3. CASE \E f \in Frames : /\ call' = [call EXCEPT ![s] = f] /\ f.at = "derive"
                               /\ Holder[f.cred] = f.auth /\ Vendor[f.auth] \in roots
    BY <1>3, <2>1, <2>3
  <2> QED
    BY <1>0, <1>8, <2>2, <2>3, enrollEffect
<1>9. ASSUME NEW s \in Sessions, DeriveAnswered(s)
      PROVE  Earned(t)'
  <2>1. /\ roots' = roots /\ call[s].at = "derive"
        /\ call[s].op \in {"Create", "EnrollKey"}
    BY <1>0, <1>9, deriveEffect
  <2>2. Holder[call[s].cred] = call[s].auth /\ Vendor[call[s].auth] \in roots
    BY <2>1 DEF EarnInv, Earned
  <2>3. CASE call' = [call EXCEPT ![s] = Idle]
    BY <1>4, <2>1, <2>3
  <2>4. CASE \E f \in Frames : /\ call' = [call EXCEPT ![s] = f]
                               /\ f.cred = call[s].cred /\ f.auth = call[s].auth
                               /\ f.touched = 1
    BY <1>3, <2>1, <2>2, <2>4
  <2> QED
    BY <1>0, <1>9, <2>3, <2>4, deriveEffect
<1>10. ASSUME NEW s \in Sessions, NEW dataKey \in DataKeys, NEW random \in BOOLEAN,
              ProbeAnswered(s, dataKey, random)
       PROVE  Earned(t)'
  BY <1>0, <1>4, <1>10, probeEffect
<1>11. ASSUME NEW s \in Sessions, UnlockAnswered(s)
       PROVE  Earned(t)'
  BY <1>0, <1>4, <1>11, unlockEffect
<1>12. ASSUME NEW rpid, NEW pool, OpenWith(rpid, pool)
       PROVE  Earned(t)'
  BY <1>0, <1>2, <1>12, openWithIdle DEF OpenWith
<1>13. CASE Exit
  BY <1>2, <1>13 DEF Exit
<1>14. CASE UNCHANGED <<call, roots>>
  BY <1>1, <1>14
<1>15. CASE UNCHANGED vars
  BY <1>14, <1>15 DEF vars
<1> QED
  BY <1>5, <1>6, <1>7, <1>8, <1>9, <1>10, <1>11, <1>12, <1>13, <1>14, <1>15
     DEF Next, Answered, Lock, OpenSecret, Put, Delete, RemoveKey, ForceRemoveKey,
         Sealed, ChangePIN

\* An enrollment in flight holds a credential of the key it prompts, of a
\* trusted vendor, and was touched once before it probes.
LEMMA EarnInvariant == Spec => []EarnInv
<1>1. Init => EarnInv
  <2> SUFFICES ASSUME Init PROVE EarnInv
    OBVIOUS
  <2>1. \A s \in Sessions : call[s] = Idle
    BY DEF Init
  <2> QED
    BY <2>1, InitTypeInv, idleFields DEF EarnInv, Earned
<1> QED
  BY <1>1, EarnStep, TypeInvInductive, PTL DEF Spec

-----------------------------------------------------------------------------
(* What a step may never do *)

\* A step other than the end of an enrollment or of an unlock hands out no data
\* key and adds no entry.
LEMMA otherSteps ==
    ASSUME TypeInv, Next, NEW t \in Sessions
    PROVE  \/ \E s \in Sessions, dataKey \in DataKeys, random \in BOOLEAN :
                 ProbeAnswered(s, dataKey, random)
           \/ \E s \in Sessions : UnlockAnswered(s)
           \/ sess'[t] \in {sess[t], Wiped, Absent}
<1>1. CASE UNCHANGED sess
  BY <1>1
<1>2. ASSUME NEW s \in Sessions, Lock(s)
      PROVE  sess'[t] \in {sess[t], Wiped}
  BY <1>2 DEF Lock, TypeInv, TypeOK
<1>3. CASE Exit
  BY <1>3 DEF Exit
<1> QED
  BY <1>1, <1>2, <1>3
     DEF Next, Answered, Create, EnrollKey, EnrollAnswered, DeriveAnswered, OpenWith,
         Unlock, OpenSecret, Put, Delete, RemoveKey, ForceRemoveKey, Sealed, ChangePIN

\* A session comes to hold a data key only at the end of a Create, after two
\* touches, or of an Unlock, after one, of a key that is enrolled when it ends.
THEOREM AccessNeedsTouch == Spec => NoAccessWithoutTouch
<1> DEFINE gained(s) ==
             sess[s] \notin DataKeys /\ sess'[s] \in DataKeys =>
                /\ call[s].op \in {"Create", "Unlock"}
                /\ ret'.touched = (IF call[s].op = "Create" THEN 2 ELSE 1)
                /\ \E e \in doc'.keys : Holder[e.cred] = call[s].auth
<1>1. ASSUME EarnInv, Next, NEW t \in Sessions
      PROVE  gained(t)
  <2> SUFFICES ASSUME sess[t] \notin DataKeys, sess'[t] \in DataKeys PROVE gained(t)
    OBVIOUS
  <2>0. TypeInv /\ t \in DOMAIN sess
    BY <1>1 DEF EarnInv, TypeInv, TypeOK
  <2>1. sess'[t] \notin {sess[t], Wiped, Absent}
    BY DataKeyAssumption, AbsentAssumption
  <2>2. ASSUME NEW s \in Sessions, NEW dataKey \in DataKeys, NEW random \in BOOLEAN,
               ProbeAnswered(s, dataKey, random)
        PROVE  gained(t)
    <3>1. /\ call[s].at = "probe" /\ call[s].op \in {"Create", "EnrollKey"}
          /\ (UNCHANGED <<doc, sess>>) \/ (\E e : enrolledBy(s, e))
      BY <2>0, <2>2, probeEffect
    <3>2. PICK e : enrolledBy(s, e)
      BY <2>1, <3>1
    <3>3. call[s].op = "Create" /\ t = s
      BY <2>1, <3>2 DEF enrolledBy
    <3>4. call[s].touched = 1 /\ Holder[call[s].cred] = call[s].auth
      BY <1>1, <3>1 DEF EarnInv, Earned
    <3>5. e \in doc'.keys /\ e.cred = call[s].cred /\ ret'.touched = 2
      BY <3>2, <3>4 DEF enrolledBy
    <3> QED
      BY <3>3, <3>4, <3>5
  <2>3. ASSUME NEW s \in Sessions, UnlockAnswered(s)
        PROVE  gained(t)
    <3>1. PICK e \in doc.keys :
             /\ sess' = [sess EXCEPT ![s] = e.wrapped.plain]
             /\ Holder[e.cred] = call[s].auth /\ ret'.touched = 1
      BY <2>0, <2>1, <2>3, unlockEffect
    <3>2. t = s /\ call[s].op = "Unlock" /\ doc' = doc
      BY <2>0, <2>1, <2>3, <3>1, unlockEffect
    <3> QED
      BY <3>1, <3>2
  <2> QED
    BY <1>1, <2>0, <2>1, <2>2, <2>3, otherSteps
<1>2. EarnInv /\ [Next]_vars => [\A s \in Sessions : gained(s)]_vars
  BY <1>1
<1> QED
  BY <1>2, EarnInvariant, PTL DEF Spec, NoAccessWithoutTouch

-----------------------------------------------------------------------------
(* The document stays one that parseSealed accepts *)

keysDistinct(ks) ==
    /\ \A e \in ks : e.slot >= 0 /\ e.cred # NoCredential
    /\ \A e, f \in ks : e.slot = f.slot \/ e.cred = f.cred => e = f

secretsDistinct(xs) ==
    /\ \A x \in xs : x.name # ""
    /\ \A x, y \in xs : x.name = y.name => x = y

\* What parseSealed asks of a document beyond its type.
LEMMA parseParts ==
    ASSUME NEW v \in Documents
    PROVE  parseSealed(v) <=>
              v.rpid # "" /\ keysDistinct(v.keys) /\ secretsDistinct(v.secrets)
<1>1. v.format = formatVersion /\ DOMAIN v.salt = Positions
  BY DEF Documents, Salt
<1> QED
  BY <1>1, Zenon DEF parseSealed, keysDistinct, secretsDistinct

\* Removing entries leaves the rest distinct.
LEMMA fewerDistinct ==
    /\ \A ks, js : keysDistinct(ks) /\ js \subseteq ks => keysDistinct(js)
    /\ \A xs, ys : secretsDistinct(xs) /\ ys \subseteq xs => secretsDistinct(ys)
  BY Zenon DEF keysDistinct, secretsDistinct

\* A key with a slot and a credential of its own can be added.
LEMMA oneMoreKey ==
    ASSUME NEW ks, keysDistinct(ks), NEW e, e.slot \in Nat, e.cred \in CredIDs,
           \A f \in ks : f.slot # e.slot /\ f.cred # e.cred
    PROVE  keysDistinct(ks \union {e})
  BY AuthenticatorAssumption DEF keysDistinct

\* A document that keeps its RP ID and only loses entries still parses.
LEMMA fewerParses ==
    ASSUME NEW v \in Documents, NEW w \in Documents, parseSealed(v),
           w.rpid = v.rpid, w.keys \subseteq v.keys, w.secrets \subseteq v.secrets
    PROVE  parseSealed(w)
  BY parseParts, fewerDistinct, Zenon

\* The document's secrets have one new entry, in place of any of that name.
putAs(name) ==
    /\ name # ""
    /\ \E x : /\ x.name = name
              /\ doc'.secrets = {y \in doc.secrets : y.name # name} \union {x}

\* Put and Delete name one secret and leave the keys and the RP ID alone.
LEMMA secretEffect ==
    ASSUME TypeInv, NEW s \in Sessions, NEW name \in SecretNames, NEW reader \in Readers,
           NEW random \in BOOLEAN,
           Put(s, name, reader, random) \/ Delete(s, name)
    PROVE  /\ doc \in Documents /\ doc # NoDoc /\ doc' \in Documents /\ doc' # NoDoc
           /\ UNCHANGED <<opened, roots, sess, call, store, reads>>
           /\ ret'.err # "ErrAuthenticating"
           /\ doc'.rpid = doc.rpid /\ doc'.keys = doc.keys
           /\ \/ doc' = doc
              \/ /\ ret'.op = "Delete" /\ ret'.err = "nil" /\ ret'.secrets = {name}
                 /\ doc'.secrets = {y \in doc.secrets : y.name # name}
              \/ putAs(name)
<1>1. doc \in Documents /\ doc # NoDoc /\ sess[s] # Absent
  BY callable DEF Put, Delete, Callable
<1>2. UNCHANGED <<opened, roots, sess, call, store, reads>>
  BY DEF Put, Delete, keysAndPaths
<1>3. doc' \in Documents /\ doc' # NoDoc
  <2>1. TypeInv'
    BY PutTypeInv, DeleteTypeInv
  <2> QED
    BY <1>1, <1>2, <2>1 DEF TypeInv, TypeOK
<1>4. CASE Put(s, name, reader, random)
  <2> DEFINE err == putError(s, name, reader, random)
             x == sealSecret(doc, sess[s], name, reader.value)
             xs == {y \in doc.secrets : y.name # name} \union {x}
  <2>1. err \in {"ErrLocked", "ErrNoName", "ErrNoValue", "ErrReading", "ErrRandom", "nil"}
    BY Zenon DEF putError
  <2>2. ret'.err = err
    BY <1>4 DEF Put, Return
  <2>3. ret'.err # "ErrAuthenticating"
    BY <2>1, <2>2
  <2>4. CASE err # "nil"
    BY <1>1, <1>2, <1>3, <1>4, <2>3, <2>4 DEF Put
  <2>5. CASE err = "nil"
    <3>1. name # ""
      BY <2>5, Zenon DEF putError
    <3>2. doc' = [doc EXCEPT !.secrets = xs]
      BY <1>4, <2>5 DEF Put
    <3>3. x.name = name
      BY DEF sealSecret
    <3> HIDE DEF x, err
    <3>4. doc'.rpid = doc.rpid /\ doc'.keys = doc.keys /\ doc'.secrets = xs
      BY <1>1, <3>2, entriesKeepHeader
    <3> QED
      <4>1. putAs(name)
        BY <3>1, <3>3, <3>4, Zenon DEF putAs
      <4> QED
        BY <1>1, <1>2, <1>3, <2>3, <3>4, <4>1
  <2> QED
    BY <2>4, <2>5
<1>5. CASE Delete(s, name)
  <2>1. ret'.err # "ErrAuthenticating" /\ ret'.op = "Delete"
    BY <1>5 DEF Delete, ReturnRemoval, deleteError
  <2>2. CASE doc' = doc
    BY <1>1, <1>2, <1>3, <2>1, <2>2
  <2>3. CASE doc' # doc
    <3>0. /\ doc' = [doc EXCEPT !.secrets = {y \in @ : y.name # name}]
          /\ ret'.err = "nil" /\ ret'.secrets = {name}
      BY <1>5, <2>3 DEF Delete, ReturnRemoval
    <3>1. /\ doc'.rpid = doc.rpid /\ doc'.keys = doc.keys
          /\ doc'.secrets = {y \in doc.secrets : y.name # name}
      BY <1>1, <3>0, entriesKeepHeader
    <3> QED
      BY <1>1, <1>2, <1>3, <2>1, <3>0, <3>1
  <2> QED
    BY <2>2, <2>3
<1> QED
  BY <1>4, <1>5

\* RemoveKey and ForceRemoveKey take the entries of one slot.
LEMMA removalEffect ==
    ASSUME TypeInv, NEW s \in Sessions, NEW slot \in Slots,
           RemoveKey(s, slot) \/ ForceRemoveKey(s, slot)
    PROVE  /\ doc \in Documents /\ doc # NoDoc /\ doc' \in Documents /\ doc' # NoDoc
           /\ UNCHANGED <<opened, roots, sess, call, store, reads>>
           /\ ret'.err # "ErrAuthenticating" /\ ret'.op \in {"RemoveKey", "ForceRemoveKey"}
           /\ doc'.rpid = doc.rpid /\ doc'.secrets = doc.secrets
           /\ \/ doc' = doc
              \/ /\ doc'.keys = {e \in doc.keys : e.slot # slot}
                 /\ ret'.err = "nil" /\ ret'.slots = {slot}
                 /\ ret'.op = "RemoveKey" => Cardinality(doc.keys) # 1
<1>1. doc \in Documents /\ doc # NoDoc /\ sess[s] # Absent
  BY callable DEF RemoveKey, ForceRemoveKey, Callable
<1>2. UNCHANGED <<opened, roots, sess, call, store, reads>>
  BY DEF RemoveKey, ForceRemoveKey, keysAndPaths
<1>3. doc' \in Documents /\ doc' # NoDoc
  <2>1. TypeInv'
    BY RemoveKeyTypeInv
  <2> QED
    BY <1>1, <1>2, <2>1 DEF TypeInv, TypeOK
<1>4. /\ ret'.err # "ErrAuthenticating" /\ ret'.op \in {"RemoveKey", "ForceRemoveKey"}
      /\ \/ doc' = doc
         \/ /\ doc' = removeKey(doc, slot)
            /\ ret'.err = "nil" /\ ret'.slots = {slot}
            /\ ret'.op = "RemoveKey" => Cardinality(doc.keys) # 1
  BY DEF RemoveKey, ForceRemoveKey, ReturnRemoval, removeKeyError, forceRemoveKeyError
<1>5. CASE doc' = doc
  BY <1>1, <1>2, <1>3, <1>4, <1>5
<1>6. CASE /\ doc' = removeKey(doc, slot)
           /\ ret'.err = "nil" /\ ret'.slots = {slot}
           /\ ret'.op = "RemoveKey" => Cardinality(doc.keys) # 1
  <2>1. /\ doc'.rpid = doc.rpid /\ doc'.secrets = doc.secrets
        /\ doc'.keys = {e \in doc.keys : e.slot # slot}
    BY <1>1, <1>6, entriesKeepHeader DEF removeKey
  <2> QED
    BY <1>1, <1>2, <1>3, <1>4, <1>6, <2>1
<1> QED
  BY <1>4, <1>5, <1>6

\* A step that starts no EnrollKey and adds no entry disturbs none in flight.
LEMMA calmStep ==
    ASSUME SerialInv, NEW t \in Sessions, doc'.keys \subseteq doc.keys,
           \A u \in Sessions : call'[u] = call[u] \/ call'[u].op # "EnrollKey"
    PROVE  Undisturbed(t)'
<1> SUFFICES ASSUME call'[t].op = "EnrollKey"
             PROVE  /\ ~slotOccupied(doc', call'[t].slot)
                    /\ call'[t].at = "probe" => ~enrolled(doc', call'[t].cred)
                    /\ \A u \in Sessions \ {t} : call'[u].op # "EnrollKey"
  BY DEF Undisturbed
<1>1. call'[t] = call[t] /\ call[t].op = "EnrollKey"
  OBVIOUS
<1>2. /\ ~slotOccupied(doc, call[t].slot)
      /\ call[t].at = "probe" => ~enrolled(doc, call[t].cred)
      /\ \A u \in Sessions \ {t} : call[u].op # "EnrollKey"
  BY <1>1 DEF SerialInv, Undisturbed
<1> QED
  BY <1>1, <1>2 DEF slotOccupied, enrolled

\* A step that moves one frame and leaves the document alone.
LEMMA movedFrame ==
    ASSUME SerialInv, NEW t \in Sessions, NEW s \in Sessions, NEW f, doc' = doc,
           call' = [call EXCEPT ![s] = f],
           f.op = "EnrollKey" =>
              /\ ~slotOccupied(doc, f.slot)
              /\ f.at = "probe" => ~enrolled(doc, f.cred)
              /\ \A u \in Sessions \ {s} : call[u].op # "EnrollKey"
    PROVE  Undisturbed(t)'
<1>1. call'[s] = f /\ \A u \in Sessions \ {s} : call'[u] = call[u]
  BY DEF SerialInv, TypeInv, TypeOK
<1>2. CASE f.op # "EnrollKey"
  BY <1>1, <1>2, calmStep
<1>3. CASE f.op = "EnrollKey" /\ t = s
  BY <1>1, <1>3 DEF Undisturbed
<1>4. CASE f.op = "EnrollKey" /\ t # s
  BY <1>1, <1>4 DEF Undisturbed
<1> QED
  BY <1>2, <1>3, <1>4

\* Serialized callers: nothing else is enrolling, so what an EnrollKey checked
\* before its gestures holds until its entry is written, and the document stays
\* one that parses.
LEMMA SerialStep ==
    ASSUME Serialized, SerialInv, TypeInv', [Next]_vars
    PROVE  SerialInv'
<1> DEFINE calm == \A t \in Sessions : Undisturbed(t)'
           parses == doc' # NoDoc => parseSealed(doc')
<1>0. TypeInv /\ (doc # NoDoc => parseSealed(doc))
  BY DEF SerialInv
<1>1. SUFFICES calm /\ parses
  BY DEF SerialInv
<1>2. ASSUME UNCHANGED <<call, doc>> PROVE calm /\ parses
  BY <1>0, <1>2, calmStep
<1>3. ASSUME doc' = doc, NEW s \in Sessions, call' = [call EXCEPT ![s] = Idle]
      PROVE  calm /\ parses
  BY <1>0, <1>3, movedFrame, idleFields
<1>4. ASSUME NEW s \in Sessions, NEW k, NEW rpid, NEW label, NEW pool, NEW salt,
             NEW random, Create(s, k, rpid, label, pool, salt, random)
      PROVE  calm /\ parses
  <2>1. doc' = doc
    BY <1>4, createEffect
  <2>2. CASE UNCHANGED call
    BY <1>2, <2>1, <2>2
  <2>3. CASE \E f : call' = [call EXCEPT ![s] = f] /\ f.op = "Create"
    BY <1>0, <2>1, <2>3, movedFrame
  <2> QED
    BY <1>4, <2>2, <2>3, createEffect
<1>5. ASSUME NEW s \in Sessions, NEW k, NEW slot, NEW label, NEW random,
             EnrollKey(s, k, slot, label, random)
      PROVE  calm /\ parses
  <2>1. doc' = doc /\ \A u \in Sessions \ {s} : call[u].op # "EnrollKey"
    BY <1>5, enrollKeyEffect DEF MayAdminister
  <2>2. CASE UNCHANGED call
    BY <1>2, <2>1, <2>2
  <2>3. CASE \E f : /\ call' = [call EXCEPT ![s] = f] /\ f.at = "enroll"
                    /\ f.slot = slot /\ ~slotOccupied(doc, slot)
    BY <1>0, <2>1, <2>3, movedFrame
  <2> QED
    BY <1>5, <2>2, <2>3, enrollKeyEffect
<1>6. ASSUME NEW s \in Sessions, NEW k, Unlock(s, k)
      PROVE  calm /\ parses
  <2>1. doc' = doc
    BY <1>6, unlockPrompts
  <2>2. CASE UNCHANGED call
    BY <1>2, <2>1, <2>2
  <2>3. CASE \E f : call' = [call EXCEPT ![s] = f] /\ f.op = "Unlock"
    BY <1>0, <2>1, <2>3, movedFrame
  <2> QED
    BY <1>6, <2>2, <2>3, unlockPrompts
<1>7. ASSUME NEW s \in Sessions, call[s].op = "EnrollKey"
      PROVE  /\ ~slotOccupied(doc, call[s].slot)
             /\ call[s].at = "probe" => ~enrolled(doc, call[s].cred)
             /\ \A u \in Sessions \ {s} : call[u].op # "EnrollKey"
  BY <1>7 DEF SerialInv, Undisturbed
<1>8. ASSUME NEW s \in Sessions, EnrollAnswered(s)
      PROVE  calm /\ parses
  <2>1. doc' = doc
    BY <1>0, <1>8, enrollEffect
  <2>2. CASE call' = [call EXCEPT ![s] = Idle]
    BY <1>3, <2>1, <2>2
  <2>3. CASE \E f \in Frames : /\ call' = [call EXCEPT ![s] = f] /\ f.at = "derive"
                               /\ f.op = call[s].op /\ f.slot = call[s].slot
    BY <1>0, <1>7, <2>1, <2>3, movedFrame
  <2> QED
    BY <1>0, <1>8, <2>2, <2>3, enrollEffect
<1>9. ASSUME NEW s \in Sessions, DeriveAnswered(s)
      PROVE  calm /\ parses
  <2>1. doc' = doc
    BY <1>0, <1>9, deriveEffect
  <2>2. CASE call' = [call EXCEPT ![s] = Idle]
    BY <1>3, <2>1, <2>2
  <2>3. CASE \E f \in Frames : /\ call' = [call EXCEPT ![s] = f]
                               /\ f.op = call[s].op /\ f.slot = call[s].slot
                               /\ f.op = "EnrollKey" => ~enrolled(doc, f.cred)
    BY <1>0, <1>7, <2>1, <2>3, movedFrame
  <2> QED
    BY <1>0, <1>9, <2>2, <2>3, deriveEffect
<1>10. ASSUME NEW s \in Sessions, NEW dataKey \in DataKeys, NEW random \in BOOLEAN,
              ProbeAnswered(s, dataKey, random)
       PROVE  calm /\ parses
  <2>1. /\ call[s] \in Frames /\ call[s].at = "probe" /\ call[s].cred \in CredIDs
        /\ call' = [call EXCEPT ![s] = Idle]
        /\ doc' = doc \/ \E e : enrolledBy(s, e)
    BY <1>0, <1>10, probeEffect
  <2>2. CASE doc' = doc
    BY <1>3, <2>1, <2>2
  <2>3. ASSUME NEW e, enrolledBy(s, e)
        PROVE  calm /\ parses
    <3>1. e.slot = call[s].slot /\ e.cred = call[s].cred /\ e.slot \in Nat
      BY <2>1, <2>3 DEF enrolledBy, Frames
    <3>2. \A u \in Sessions : u = s \/ call[u].op # "EnrollKey"
      BY <1>0, <1>7, <2>3, idleFields DEF enrolledBy, TypeInv, CallConsistent
    <3>3. \A u \in Sessions : call'[u].op # "EnrollKey"
      BY <1>0, <2>1, <3>2, idleFields DEF TypeInv, TypeOK
    <3>4. calm
      BY <3>3 DEF Undisturbed
    <3>5. CASE call[s].op = "Create"
      <4>1. /\ doc' \in Documents /\ doc'.keys = {} \union {e} /\ doc'.secrets = {}
            /\ doc'.rpid = call[s].draft.rpid
        BY <2>3, <3>5 DEF enrolledBy
      <4>2. doc'.rpid # ""
        BY <1>0, <3>5, <4>1, Zenon DEF TypeInv, CallConsistent
      <4>3. keysDistinct({}) /\ secretsDistinct({})
        BY Zenon DEF keysDistinct, secretsDistinct
      <4>4. keysDistinct(doc'.keys)
        BY <2>1, <3>1, <4>1, <4>3, oneMoreKey
      <4> QED
        BY <3>4, <4>1, <4>2, <4>3, <4>4, parseParts, Zenon
    <3>6. CASE call[s].op = "EnrollKey"
      <4>1. /\ doc' \in Documents /\ doc'.keys = doc.keys \union {e}
            /\ doc'.secrets = doc.secrets /\ doc'.rpid = doc.rpid
            /\ doc \in Documents /\ doc # NoDoc
        BY <2>3, <3>6 DEF enrolledBy
      <4>2. doc.rpid # "" /\ keysDistinct(doc.keys) /\ secretsDistinct(doc.secrets)
        BY <1>0, <4>1, parseParts, Zenon
      <4>3. \A g \in doc.keys : g.slot # e.slot /\ g.cred # e.cred
        <5>1. ~slotOccupied(doc, e.slot) /\ ~enrolled(doc, e.cred)
          BY <1>7, <2>1, <3>1, <3>6
        <5> QED
          BY <5>1 DEF slotOccupied, enrolled
      <4>4. keysDistinct(doc'.keys)
        <5>1. keysDistinct(doc.keys \union {e})
          BY <2>1, <3>1, <4>2, <4>3, oneMoreKey
        <5> QED
          BY <4>1, <5>1
      <4> QED
        BY <3>4, <4>1, <4>2, <4>4, parseParts, Zenon
    <3> QED
      BY <2>3, <3>5, <3>6 DEF enrolledBy
  <2> QED
    BY <2>1, <2>2, <2>3
<1>11. ASSUME NEW s \in Sessions, UnlockAnswered(s)
       PROVE  calm /\ parses
  BY <1>0, <1>3, <1>11, unlockEffect
<1>12. ASSUME NEW rpid, NEW pool, OpenWith(rpid, pool)
       PROVE  calm /\ parses
  <2>1. /\ doc = NoDoc /\ store # NoDoc /\ call' = call
        /\ doc' = doc \/ (doc' = store /\ openError(rpid) = "nil")
    BY <1>12 DEF OpenWith
  <2>2. \A u \in Sessions : call'[u] = Idle
    BY <1>0, <2>1, openWithIdle
  <2>3. openError(rpid) = "nil" => parseSealed(store)
    BY Zenon DEF openError
  <2> QED
    BY <2>1, <2>2, <2>3, idleFields DEF Undisturbed
<1>13. CASE Exit
  BY <1>13, idleFields DEF Exit, Undisturbed
<1>14. ASSUME NEW s \in Sessions, NEW name \in SecretNames, NEW reader \in Readers,
              NEW random \in BOOLEAN, Put(s, name, reader, random) \/ Delete(s, name)
       PROVE  calm /\ parses
  <2>1. /\ doc \in Documents /\ doc # NoDoc /\ doc' \in Documents /\ call' = call
        /\ doc'.rpid = doc.rpid /\ doc'.keys = doc.keys
    BY <1>0, <1>14, secretEffect
  <2>2. calm
    BY <2>1, calmStep
  <2>3. doc.rpid # "" /\ keysDistinct(doc.keys) /\ secretsDistinct(doc.secrets)
    BY <1>0, <2>1, parseParts, Zenon
  <2>4. secretsDistinct(doc'.secrets)
    <3>1. CASE doc'.secrets \subseteq doc.secrets
      BY <2>3, <3>1, fewerDistinct
    <3>2. ASSUME NEW x, x.name = name, name # "",
                 doc'.secrets = {y \in doc.secrets : y.name # name} \union {x}
          PROVE  secretsDistinct(doc'.secrets)
      BY <2>3, <3>2, Zenon DEF secretsDistinct
    <3>3. doc' = doc \/ doc'.secrets \subseteq doc.secrets \/ putAs(name)
      BY <1>0, <1>14, secretEffect
    <3> QED
      BY <3>1, <3>2, <3>3, Zenon DEF putAs
  <2> QED
    BY <2>1, <2>2, <2>3, <2>4, parseParts, Zenon
<1>15. ASSUME NEW s \in Sessions, NEW slot \in Slots,
              RemoveKey(s, slot) \/ ForceRemoveKey(s, slot)
       PROVE  calm /\ parses
  <2>1. /\ doc \in Documents /\ doc # NoDoc /\ doc' \in Documents /\ call' = call
        /\ doc'.rpid = doc.rpid /\ doc'.secrets = doc.secrets
        /\ doc'.keys \subseteq doc.keys
    BY <1>0, <1>15, removalEffect
  <2> QED
    BY <1>0, <2>1, calmStep, fewerParses
<1>16. CASE UNCHANGED vars
  BY <1>2, <1>16 DEF vars
<1>17. ASSUME NEW s \in Sessions, NEW name \in SecretNames, Delete(s, name)
       PROVE  calm /\ parses
  <2>1. [kind |-> "nil"] \in Readers
    BY DEF Readers
  <2> QED
    BY <1>14, <1>17, <2>1
<1> QED
  BY <1>2, <1>4, <1>5, <1>6, <1>8, <1>9, <1>10, <1>11, <1>12, <1>13, <1>14, <1>15,
     <1>16, <1>17
     DEF Next, Answered, Lock, OpenSecret, Sealed, ChangePIN

\* Under serialized administration the document in memory always parses.
LEMMA SerialInvariant ==
    ASSUME Serialized
    PROVE  Spec => []SerialInv
<1>1. Init => SerialInv
  <2> SUFFICES ASSUME Init PROVE SerialInv
    OBVIOUS
  <2>1. doc = NoDoc /\ \A s \in Sessions : call[s] = Idle
    BY DEF Init
  <2> QED
    BY <2>1, InitTypeInv, idleFields DEF SerialInv, Undisturbed
<1> QED
  BY <1>1, SerialStep, TypeInvInductive, PTL DEF Spec

\* The steps that may change the document in memory.
LEMMA docSteps ==
    ASSUME TypeInv, Next
    PROVE  \/ doc' \in {doc, NoDoc}
           \/ ret'.op = "OpenWith" /\ doc = NoDoc /\ doc' = store
           \/ \E s \in Sessions, dataKey \in DataKeys, random \in BOOLEAN :
                 ProbeAnswered(s, dataKey, random)
           \/ \E s \in Sessions, name \in SecretNames, reader \in Readers,
                 random \in BOOLEAN : Put(s, name, reader, random) \/ Delete(s, name)
           \/ \E s \in Sessions, slot \in Slots :
                 RemoveKey(s, slot) \/ ForceRemoveKey(s, slot)
<1>1. [kind |-> "nil"] \in Readers /\ TRUE \in BOOLEAN
  BY DEF Readers
<1>2. ASSUME NEW rpid, NEW pool, OpenWith(rpid, pool)
      PROVE  ret'.op = "OpenWith" /\ doc = NoDoc /\ doc' \in {doc, store}
  BY <1>2 DEF OpenWith, Return
<1>3. CASE Exit
  BY <1>3 DEF Exit
<1>4. CASE UNCHANGED doc
  BY <1>4
<1> QED
  BY <1>1, <1>2, <1>3, <1>4
     DEF Next, Answered, Create, EnrollKey, EnrollAnswered, DeriveAnswered, Unlock,
         UnlockAnswered, Lock, OpenSecret, Sealed, ChangePIN

\* An entry appears only at the end of an enrollment with two touches, of a key
\* whose vendor is trusted, in a slot that is free when it is written, for any
\* number of sessions whose callers serialize administration.
THEOREM EnrollmentEarned ==
    ASSUME Serialized
    PROVE  Spec => EnrollmentIsEarned
<1> DEFINE earned ==
             doc' # NoDoc /\ ret'.op # "OpenWith" =>
                \A e \in doc'.keys \ (IF doc = NoDoc THEN {} ELSE doc.keys) :
                   /\ ret'.op \in {"Create", "EnrollKey"} /\ ret'.err = "nil"
                   /\ ret'.touched = 2
                   /\ Vendor[Holder[e.cred]] \in roots
                   /\ doc # NoDoc => ~slotOccupied(doc, e.slot)
<1>1. ASSUME EarnInv, SerialInv, Next PROVE earned
  <2>0. TypeInv
    BY <1>1 DEF EarnInv
  <2>1. CASE doc' \in {doc, NoDoc} \/ ret'.op = "OpenWith"
    BY <2>1
  <2>2. ASSUME NEW s \in Sessions, NEW dataKey \in DataKeys, NEW random \in BOOLEAN,
               ProbeAnswered(s, dataKey, random)
        PROVE  earned
    <3>1. /\ call[s].at = "probe" /\ call[s].op \in {"Create", "EnrollKey"}
          /\ doc' = doc \/ \E e : enrolledBy(s, e)
      BY <2>0, <2>2, probeEffect
    <3>2. /\ Holder[call[s].cred] = call[s].auth /\ Vendor[call[s].auth] \in roots
          /\ call[s].touched = 1
      BY <1>1, <3>1 DEF EarnInv, Earned
    <3>3. call[s].op = "EnrollKey" => ~slotOccupied(doc, call[s].slot)
      BY <1>1 DEF SerialInv, Undisturbed
    <3>4. ASSUME NEW e, enrolledBy(s, e) PROVE earned
      <4>1. /\ e.cred = call[s].cred /\ e.slot = call[s].slot /\ ret'.touched = 2
            /\ ret'.op = call[s].op /\ ret'.err = "nil"
            /\ \/ doc = NoDoc /\ doc'.keys = {e}
               \/ /\ call[s].op = "EnrollKey" /\ doc # NoDoc
                  /\ doc'.keys = doc.keys \union {e}
        BY <3>2, <3>4 DEF enrolledBy
      <4> QED
        BY <3>1, <3>2, <3>3, <4>1
    <3> QED
      BY <2>1, <3>1, <3>4
  <2>3. CASE doc # NoDoc /\ doc'.keys \subseteq doc.keys
    BY <2>3
  <2>4. ASSUME NEW s \in Sessions, NEW name \in SecretNames, NEW reader \in Readers,
               NEW random \in BOOLEAN, Put(s, name, reader, random) \/ Delete(s, name)
        PROVE  doc # NoDoc /\ doc'.keys \subseteq doc.keys
    BY <2>0, <2>4, secretEffect
  <2>5. ASSUME NEW s \in Sessions, NEW slot \in Slots,
               RemoveKey(s, slot) \/ ForceRemoveKey(s, slot)
        PROVE  doc # NoDoc /\ doc'.keys \subseteq doc.keys
    BY <2>0, <2>5, removalEffect
  <2> QED
    BY <1>1, <2>0, <2>1, <2>2, <2>3, <2>4, <2>5, docSteps
<1>2. EarnInv /\ SerialInv /\ [Next]_vars => [earned]_vars
  BY <1>1
<1> QED
  BY <1>2, EarnInvariant, SerialInvariant, PTL DEF Spec, EnrollmentIsEarned

\* A key leaves the document in memory only by a removal that was asked for its
\* slot and succeeds, one at a time and the last one only by ForceRemoveKey; a
\* name only by the Delete that was asked for it.  An enrollment on one session
\* loses nothing of what others did while it waited for its touches.
THEOREM NothingLost ==
    ASSUME Serialized
    PROVE  Spec => NothingVanishes
<1> DEFINE kept ==
             doc # NoDoc /\ doc' # NoDoc =>
                /\ \A e \in doc.keys \ doc'.keys :
                      /\ ret'.op \in {"RemoveKey", "ForceRemoveKey"} /\ ret'.err = "nil"
                      /\ ret'.slots = {e.slot}
                      /\ doc.keys \ doc'.keys = {e}
                      /\ doc'.keys = {} => ret'.op = "ForceRemoveKey"
                /\ \A name \in names(doc) \ names(doc') :
                      /\ ret'.op = "Delete" /\ ret'.err = "nil"
                      /\ ret'.secrets = {name}
<1>1. ASSUME SerialInv, Next PROVE kept
  <2>0. TypeInv
    BY <1>1 DEF SerialInv
  <2>1. CASE doc' \in {doc, NoDoc} \/ doc = NoDoc
    BY <2>1
  <2>2. CASE doc.keys \subseteq doc'.keys /\ doc.secrets \subseteq doc'.secrets
    BY <2>2 DEF names
  <2>3. ASSUME NEW s \in Sessions, NEW dataKey \in DataKeys, NEW random \in BOOLEAN,
               ProbeAnswered(s, dataKey, random)
        PROVE  kept
    <3>1. doc' = doc \/ \E e : enrolledBy(s, e)
      BY <2>0, <2>3, probeEffect
    <3>2. ASSUME NEW e, enrolledBy(s, e) PROVE kept
      <4>1. doc = NoDoc \/ (doc.keys \subseteq doc'.keys /\ doc.secrets \subseteq doc'.secrets)
        BY <3>2 DEF enrolledBy
      <4> QED
        BY <2>1, <2>2, <4>1
    <3> QED
      BY <2>1, <3>1, <3>2
  <2>4. ASSUME NEW s \in Sessions, NEW name \in SecretNames, NEW reader \in Readers,
               NEW random \in BOOLEAN, Put(s, name, reader, random) \/ Delete(s, name)
        PROVE  kept
    <3>1. /\ doc'.keys = doc.keys
          /\ \/ doc' = doc
             \/ /\ ret'.op = "Delete" /\ ret'.err = "nil" /\ ret'.secrets = {name}
                /\ doc'.secrets = {y \in doc.secrets : y.name # name}
             \/ putAs(name)
      BY <2>0, <2>4, secretEffect
    <3>2. putAs(name) => names(doc) \subseteq names(doc')
      BY Zenon DEF putAs, names
    <3>3. doc'.secrets = {y \in doc.secrets : y.name # name} =>
             names(doc) \ names(doc') \subseteq {name}
      BY Zenon DEF names
    <3> QED
      BY <3>1, <3>2, <3>3
  <2>5. ASSUME NEW s \in Sessions, NEW slot \in Slots,
               RemoveKey(s, slot) \/ ForceRemoveKey(s, slot)
        PROVE  kept
    <3>1. /\ doc \in Documents /\ doc # NoDoc /\ doc'.secrets = doc.secrets
          /\ ret'.op \in {"RemoveKey", "ForceRemoveKey"}
          /\ \/ doc' = doc
             \/ /\ doc'.keys = {e \in doc.keys : e.slot # slot}
                /\ ret'.err = "nil" /\ ret'.slots = {slot}
                /\ ret'.op = "RemoveKey" => Cardinality(doc.keys) # 1
      BY <2>0, <2>5, removalEffect
    <3>2. CASE doc' = doc
      BY <2>1, <3>2
    <3>3. CASE /\ doc'.keys = {e \in doc.keys : e.slot # slot}
               /\ ret'.err = "nil" /\ ret'.slots = {slot}
               /\ ret'.op = "RemoveKey" => Cardinality(doc.keys) # 1
      <4>1. \A e, f \in doc.keys : e.slot = f.slot => e = f
        <5>1. keysDistinct(doc.keys)
          BY <1>1, <3>1, parseParts, Zenon DEF SerialInv
        <5> QED
          BY <5>1 DEF keysDistinct
      <4>2. ASSUME NEW e \in doc.keys \ doc'.keys
            PROVE  /\ ret'.slots = {e.slot} /\ doc.keys \ doc'.keys = {e}
                   /\ doc'.keys = {} => ret'.op = "ForceRemoveKey"
        <5>1. e.slot = slot /\ doc.keys \ doc'.keys = {e}
          BY <3>3, <4>1, <4>2
        <5>2. doc'.keys = {} => doc.keys = {e}
          BY <5>1
        <5>3. Cardinality({e}) = 1
          BY FS_Singleton
        <5> QED
          BY <3>1, <3>3, <5>1, <5>2, <5>3
      <4>3. names(doc) = names(doc')
        BY <3>1 DEF names
      <4> QED
        BY <3>1, <3>3, <4>2, <4>3
    <3> QED
      BY <3>1, <3>2, <3>3
  <2> QED
    BY <1>1, <2>0, <2>1, <2>3, <2>4, <2>5, docSteps
<1>2. SerialInv /\ [Next]_vars => [kept]_vars
  BY <1>1
<1> QED
  BY <1>2, SerialInvariant, PTL DEF Spec, NothingVanishes

-----------------------------------------------------------------------------
(* What was persisted reopens *)

\* A document whose RP ID and names JSON leaves alone comes back with the same
\* secrets and, but for their labels, the same keys, so it still parses.
LEMMA marshalParses ==
    ASSUME NEW v \in Documents, parseSealed(v), JSONText[v.rpid] = v.rpid,
           \A x \in v.secrets : JSONText[x.name] = x.name
    PROVE  parseSealed(marshal(v)) /\ marshal(v).rpid = v.rpid
           /\ names(marshal(v)) = names(v)
<1> DEFINE w == marshal(v)
           relabel(e) == [e EXCEPT !.label = JSONText[@]]
<1>1. /\ w.rpid = v.rpid
      /\ w.keys = {relabel(e) : e \in v.keys}
      /\ w.secrets = {[x EXCEPT !.name = JSONText[@]] : x \in v.secrets}
  BY DEF marshal, Documents
<1>2. w.secrets = v.secrets
  <2>1. \A x \in v.secrets : [x EXCEPT !.name = JSONText[@]] = x
    BY DEF Documents, SecretEntries
  <2> QED
    BY <1>1, <2>1
<1>3. \A e \in v.keys : relabel(e).slot = e.slot /\ relabel(e).cred = e.cred
  BY DEF Documents, KeyEntries
<1>4. w \in Documents
  BY marshalType
<1>5. v.rpid # "" /\ keysDistinct(v.keys) /\ secretsDistinct(v.secrets)
  BY parseParts, Zenon
<1> HIDE DEF w, relabel
<1>6. keysDistinct(w.keys)
  <2>1. \A e \in w.keys : \E f \in v.keys : e = relabel(f)
    BY <1>1
  <2>2. \A e \in v.keys : e.slot >= 0 /\ e.cred # NoCredential
    BY <1>5 DEF keysDistinct
  <2>3. \A e, f \in v.keys : e.slot = f.slot \/ e.cred = f.cred => e = f
    BY <1>5 DEF keysDistinct
  <2>4. ASSUME NEW e \in w.keys PROVE e.slot >= 0 /\ e.cred # NoCredential
    BY <1>3, <2>1, <2>2
  <2>5. ASSUME NEW e \in w.keys, NEW f \in w.keys, e.slot = f.slot \/ e.cred = f.cred
        PROVE  e = f
    BY <1>3, <2>1, <2>3, <2>5
  <2> QED
    BY <2>4, <2>5 DEF keysDistinct
<1>7. parseSealed(w)
  BY <1>1, <1>2, <1>4, <1>5, <1>6, parseParts, Zenon
<1>8. w.rpid = v.rpid /\ names(w) = names(v)
  BY <1>1, <1>2 DEF names
<1> QED
  BY <1>7, <1>8 DEF w

\* The texts of a document are ones that callers passed.
textsOf(v) == v.rpid \in RPIDs /\ names(v) \subseteq SecretNames

\* Every step keeps the document's texts ones that JSON leaves alone.
LEMMA textsKept ==
    ASSUME ReopenInv, Next, doc' # NoDoc
    PROVE  textsOf(doc')
<1>0. /\ TypeInv
      /\ doc # NoDoc => textsOf(doc)
      /\ store # NoDoc => textsOf(store)
  BY DEF ReopenInv, SerialInv, textsOf
<1>1. CASE doc' = doc
  BY <1>0, <1>1
<1>2. CASE doc = NoDoc /\ doc' = store
  BY <1>0, <1>2
<1>3. CASE /\ doc # NoDoc /\ doc'.rpid = doc.rpid /\ doc'.secrets \subseteq doc.secrets
  BY <1>0, <1>3 DEF textsOf, names
<1>4. ASSUME NEW s \in Sessions, NEW dataKey \in DataKeys, NEW random \in BOOLEAN,
             ProbeAnswered(s, dataKey, random)
      PROVE  textsOf(doc')
  <2>1. doc' = doc \/ \E e : enrolledBy(s, e)
    BY <1>0, <1>4, probeEffect
  <2>2. ASSUME NEW e, enrolledBy(s, e), call[s].op = "Create"
        PROVE  textsOf(doc')
    <3>1. doc'.secrets = {} /\ doc'.rpid = call[s].draft.rpid
      BY <2>2 DEF enrolledBy
    <3>2. call[s].draft.rpid \in RPIDs
      BY <1>0, <2>2, Zenon DEF TypeInv, CallConsistent
    <3> QED
      BY <3>1, <3>2 DEF textsOf, names
  <2>3. ASSUME NEW e, enrolledBy(s, e), call[s].op # "Create"
        PROVE  textsOf(doc')
    BY <1>3, <2>3 DEF enrolledBy
  <2> QED
    BY <1>1, <2>1, <2>2, <2>3
<1>5. ASSUME NEW s \in Sessions, NEW name \in SecretNames, NEW reader \in Readers,
             NEW random \in BOOLEAN, Put(s, name, reader, random) \/ Delete(s, name)
      PROVE  textsOf(doc')
  <2>1. /\ doc # NoDoc /\ doc'.rpid = doc.rpid
        /\ doc' = doc \/ doc'.secrets \subseteq doc.secrets \/ putAs(name)
    BY <1>0, <1>5, secretEffect
  <2>2. ASSUME putAs(name) PROVE textsOf(doc')
    <3>1. names(doc') \subseteq names(doc) \union {name}
      BY <2>2, Zenon DEF putAs, names
    <3> QED
      BY <1>0, <2>1, <3>1 DEF textsOf
  <2> QED
    BY <1>1, <1>3, <2>1, <2>2
<1>6. ASSUME NEW s \in Sessions, NEW slot \in Slots,
             RemoveKey(s, slot) \/ ForceRemoveKey(s, slot)
      PROVE  textsOf(doc')
  BY <1>0, <1>3, <1>6, removalEffect
<1> QED
  BY <1>0, <1>1, <1>2, <1>4, <1>5, <1>6, docSteps

\* What Sealed returned is accepted by parseSealed, whatever calls led to it,
\* where callers serialize administration and pass UTF-8.
THEOREM Reopens ==
    ASSUME Serialized, UTF8Inputs
    PROVE  Spec => []StoreReopens
<1>1. Init => ReopenInv
  <2> SUFFICES ASSUME Init PROVE ReopenInv
    OBVIOUS
  <2>1. doc = NoDoc /\ store = NoDoc /\ \A s \in Sessions : call[s] = Idle
    BY DEF Init
  <2> QED
    BY <2>1, InitTypeInv, idleFields DEF ReopenInv, StoreReopens, SerialInv, Undisturbed
<1>2. ASSUME ReopenInv, SerialInv', [Next]_vars PROVE ReopenInv'
  <2>0. /\ TypeInv
        /\ doc # NoDoc => parseSealed(doc) /\ textsOf(doc)
        /\ store # NoDoc => parseSealed(store) /\ textsOf(store)
    BY <1>2 DEF ReopenInv, SerialInv, StoreReopens, textsOf
  <2>1. doc' # NoDoc => textsOf(doc')
    BY <1>2, <2>0, textsKept DEF vars
  <2>2. store' # NoDoc => parseSealed(store') /\ textsOf(store')
    <3>1. CASE store' = store
      BY <2>0, <3>1
    <3>2. ASSUME NEW s \in Sessions, Sealed(s)
          PROVE  parseSealed(store') /\ textsOf(store')
      <4>1. doc \in Documents /\ doc # NoDoc /\ store' = marshal(doc)
        BY <2>0, <3>2, callable DEF Sealed
      <4>2. /\ JSONText[doc.rpid] = doc.rpid
            /\ \A x \in doc.secrets : JSONText[x.name] = x.name
        BY <2>0, <4>1 DEF UTF8Inputs, textsOf, names
      <4> QED
        BY <2>0, <4>1, <4>2, marshalParses DEF textsOf
    <3>3. store' = store \/ \E s \in Sessions : Sealed(s)
      BY <1>2
         DEF Next, Answered, Create, EnrollKey, EnrollAnswered, DeriveAnswered,
             ProbeAnswered, OpenWith, Unlock, UnlockAnswered, Lock, OpenSecret, Put,
             Delete, RemoveKey, ForceRemoveKey, Exit, ChangePIN, vars
    <3> QED
      BY <3>1, <3>2, <3>3
  <2> QED
    BY <1>2, <2>1, <2>2 DEF ReopenInv, StoreReopens, textsOf
<1>3. ReopenInv => StoreReopens
  BY DEF ReopenInv
<1> QED
  BY <1>1, <1>2, <1>3, SerialInvariant, PTL DEF Spec

-----------------------------------------------------------------------------
(* Which errors a caller sees *)

\* The calls that end in one step never return ErrAuthenticating.
LEMMA otherReturns ==
    ASSUME TypeInv, Next
    PROVE  \/ \E s \in Sessions : UnlockAnswered(s)
           \/ \E s \in Sessions, name \in SecretNames : OpenSecret(s, name)
           \/ ret'.err # "ErrAuthenticating"
           \/ ret' = ret /\ reads' = reads
<1>1. ASSUME NEW s \in Sessions, EnrollAnswered(s)
      PROVE  ret'.err # "ErrAuthenticating" \/ (ret' = ret /\ reads' = reads)
  BY <1>1, enrollEffect
<1>2. ASSUME NEW s \in Sessions, DeriveAnswered(s)
      PROVE  ret'.err # "ErrAuthenticating" \/ (ret' = ret /\ reads' = reads)
  BY <1>2, deriveEffect
<1>3. ASSUME NEW rpid, NEW pool, OpenWith(rpid, pool)
      PROVE  ret'.err # "ErrAuthenticating"
  <2>1. openError(rpid) \in {"ErrWrongFormat", "ErrRPIDMismatch", "nil"}
    BY Zenon DEF openError
  <2> QED
    BY <1>3, <2>1 DEF OpenWith, Return
<1>4. ASSUME NEW s, Lock(s) \/ Sealed(s)
      PROVE  ret'.err # "ErrAuthenticating"
  BY <1>4 DEF Lock, Sealed, Return
<1>5. CASE Exit
  BY <1>5 DEF Exit, NoReturn
<1>6. ASSUME NEW k, ChangePIN(k)
      PROVE  ret' = ret /\ reads' = reads
  BY <1>6 DEF ChangePIN
<1>7. [kind |-> "nil"] \in Readers /\ TRUE \in BOOLEAN
  BY DEF Readers
<1>8. ASSUME NEW s \in Sessions, NEW name \in SecretNames, Delete(s, name)
      PROVE  ret'.err # "ErrAuthenticating"
  BY <1>7, <1>8, secretEffect
<1> QED
  BY <1>1, <1>2, <1>3, <1>4, <1>5, <1>6, <1>8, createEffect, enrollKeyEffect,
     probeEffect, unlockPrompts, secretEffect, removalEffect
     DEF Next, Answered

\* The generic decryption failure reaches a caller only from an unlock while
\* some path drops salt bytes: no order of PIN changes, removals, locks and
\* concurrent sessions makes a healthy vault look corrupt.
THEOREM CorruptionIsReal ==
    ASSUME PrefixReads, UTF8Inputs
    PROVE  Spec => []NeverLooksCorrupt
<1>1. Init => NeverLooksCorrupt
  BY DEF Init, NeverLooksCorrupt, NoReturn
<1>2. ASSUME BindInv, NeverLooksCorrupt, [Next]_vars PROVE NeverLooksCorrupt'
  <2>0. /\ TypeInv
        /\ doc # NoDoc => \E dk \in DataKeys :
                             /\ BoundTo(doc, dk)
                             /\ \A s \in Sessions : sess[s] \in {dk, Wiped, Absent}
    BY <1>2 DEF BindInv, EveryKeyOpensEverySecret
  <2>1. CASE ret' = ret /\ reads' = reads
    BY <1>2, <2>1 DEF NeverLooksCorrupt
  <2>2. CASE ret'.err # "ErrAuthenticating"
    BY <2>2 DEF NeverLooksCorrupt
  <2>3. ASSUME NEW s \in Sessions, UnlockAnswered(s)
        PROVE  NeverLooksCorrupt'
    <3> DEFINE k == call[s].auth
    <3>1. /\ k \in Authenticators /\ doc # NoDoc /\ reads' = reads /\ ret'.op = "Unlock"
      BY <2>0, <2>3, unlockEffect DEF Frames
    <3>2. ASSUME ret'.err = "ErrAuthenticating" PROVE reads[k] # Positions
      <4>1. PICK e \in doc.keys :
               unwrapDataKey(doc, e, hmacSecret(e.cred, doc.uv, doc.salt, reads[k]))
                 # "nil"
        BY <2>0, <2>3, <3>2, unlockEffect
      <4>2. unwrapDataKey(doc, e, hmacSecret(e.cred, doc.uv, doc.salt, Positions)) = "nil"
        BY <2>0, <3>1 DEF BoundTo
      <4> QED
        BY <4>1, <4>2
    <3> QED
      BY <3>1, <3>2 DEF NeverLooksCorrupt
  <2>4. ASSUME NEW s \in Sessions, NEW name \in SecretNames, OpenSecret(s, name)
        PROVE  ret'.err # "ErrAuthenticating"
    <3>1. /\ doc # NoDoc /\ (~Locked(s) => sess[s] \in DataKeys)
          /\ ret'.err = readError(s, name)
      BY <2>0, <2>4, callable DEF OpenSecret, Return
    <3>2. PICK dk \in DataKeys : BoundTo(doc, dk) /\ sess[s] \in {dk, Wiped, Absent}
      BY <2>0, <3>1
    <3>3. CASE Locked(s)
      BY <3>1, <3>3 DEF readError
    <3>4. CASE ~Locked(s) /\ name \notin names(doc)
      BY <3>1, <3>4 DEF readError
    <3>5. CASE ~Locked(s) /\ name \in names(doc)
      <4>1. sess[s] = dk
        BY <3>1, <3>2, <3>5, DataKeyAssumption, AbsentAssumption
      <4>2. findSecret(doc, name) \in doc.secrets
        BY <3>5 DEF findSecret, names
      <4>3. openSecret(doc, sess[s], findSecret(doc, name)) = "nil"
        BY <3>2, <4>1, <4>2 DEF BoundTo
      <4> QED
        BY <3>1, <3>5, <4>3 DEF readError
    <3> QED
      BY <3>3, <3>4, <3>5
  <2>5. CASE UNCHANGED vars
    BY <2>1, <2>5 DEF vars
  <2> QED
    BY <1>2, <2>0, <2>1, <2>2, <2>3, <2>4, <2>5, otherReturns
<1> QED
  BY <1>1, <1>2, BindInvariant, PTL DEF Spec

=============================================================================
