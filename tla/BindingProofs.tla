--------------------------- MODULE BindingProofs ---------------------------
(***************************************************************************)
(* Every enrolled key opens every secret, for every instance whose paths   *)
(* truncate rather than scramble the salt and whose texts are UTF-8.       *)
(***************************************************************************)
EXTENDS VaultProofs

-----------------------------------------------------------------------------
(* The gate *)

\* The probe catches every truncation: over a path that reads the first n bytes
\* of the salt the gate passes only if n is all of them (entropy.go:36-38).
THEOREM GateCatchesTruncation ==
    ASSUME NEW n \in 0..SaltLen, NEW salt \in Salt, NEW cred \in CredIDs,
           NEW uv \in BOOLEAN, NEW k \in Authenticators, NEW hasPIN \in BOOLEAN,
           NEW ans \in DeriveAnswers(k, {cred}, probe(salt), 1..n, hasPIN),
           verifyDerivationDependsOnSalt(hmacSecret(cred, uv, salt, 1..n), uv, ans)
             = "nil"
    PROVE  1..n = Positions
<1> DEFINE real == hmacSecret(cred, uv, salt, 1..n)
<1>1. ~ans.err /\ ans.secret # NoPRF /\ ans.uv = uv /\ ans.secret # real
  BY DEF verifyDerivationDependsOnSalt
<1>2. 1..n \in SUBSET Positions
  BY SaltAssumption DEF Positions
<1>3. ans.secret = hmacSecret(cred, uv, probe(salt), 1..n)
  BY <1>1, <1>2, probeType, answerType
<1>4. SUFFICES ASSUME n # SaltLen PROVE FALSE
  BY DEF Positions
<1>5. \A i \in 1..n : probe(salt)[i] = salt[i]
  <2> TAKE i \in 1..n
  <2>1. i # SaltLen /\ i \in Positions
    BY <1>4, SaltAssumption DEF Positions
  <2> QED
    BY <2>1 DEF probe, Salt
<1>6. Seen(probe(salt), 1..n) = Seen(salt, 1..n)
  BY <1>5 DEF Seen
<1>7. ans.secret = real
  BY <1>3, <1>6 DEF hmacSecret
<1> QED
  BY <1>1, <1>7

\* The gate never refuses a healthy path: an answer with a touch, an output and
\* the same verification passes, because no byte is its own complement
\* (entropy.go:66-67).
THEOREM GatePassesHealthyPaths ==
    ASSUME NEW salt \in Salt, NEW cred \in CredIDs, NEW uv \in BOOLEAN,
           NEW k \in Authenticators,
           NEW ans \in DeriveAnswers(k, {cred}, probe(salt), Positions, uv),
           ~ans.err, ans.present, ans.secret # NoPRF
    PROVE  verifyDerivationDependsOnSalt(hmacSecret(cred, uv, salt, Positions), uv, ans)
             = "nil"
<1> DEFINE real == hmacSecret(cred, uv, salt, Positions)
<1>1. ans.secret = hmacSecret(cred, uv, probe(salt), Positions) /\ ans.uv = uv
  BY probeType, answerType
<1>2. real # NoPRF
  BY hmacSecretType, NoPRFAssumption
<1>3. SaltLen \in Positions /\ salt[SaltLen] \in 0..MaxByte
  BY SaltAssumption DEF Positions, Salt, Byte
<1>4. probe(salt)[SaltLen] # salt[SaltLen]
  <2>1. probe(salt)[SaltLen] = MaxByte - salt[SaltLen]
    BY <1>3 DEF probe, Salt
  <2>2. MaxByte # 2 * salt[SaltLen]
    BY <1>3, SaltAssumption
  <2> QED
    BY <1>3, <2>1, <2>2, SaltAssumption
<1>5. Seen(probe(salt), Positions) # Seen(salt, Positions)
  BY <1>3, <1>4 DEF Seen
<1>6. ans.secret # real
  BY <1>1, <1>5 DEF hmacSecret
<1> QED
  BY <1>1, <1>2, <1>6 DEF verifyDerivationDependsOnSalt

-----------------------------------------------------------------------------
(* Seals *)

\* The output a data key was wrapped under unwraps it.
LEMMA wrapUnwraps ==
    ASSUME NEW v \in Documents, NEW dataKey, NEW cred, NEW prf \in PRFs, NEW slot,
           NEW label
    PROVE  LET e == wrapDataKey(v, dataKey, cred, prf, slot, label)
           IN /\ unwrapDataKey(v, e, prf) = "nil"
              /\ e.wrapped.plain = dataKey /\ e.cred = cred /\ e.slot = slot
  BY NoPRFAssumption DEF wrapDataKey, unwrapDataKey, seal, opens

\* What was sealed under a data key and a name opens under them.
LEMMA sealOpens ==
    ASSUME NEW v \in Documents, NEW dataKey, NEW name, NEW value
    PROVE  LET x == sealSecret(v, dataKey, name, value)
           IN openSecret(v, dataKey, x) = "nil" /\ x.name = name
  BY DEF sealSecret, openSecret, seal, opens

\* Opening depends on a document only through its header.
LEMMA headerDecides ==
    ASSUME NEW v, NEW w, aadOf(v) = aadOf(w), v.salt = w.salt
    PROVE  /\ \A e, prf : unwrapDataKey(v, e, prf) = unwrapDataKey(w, e, prf)
           /\ \A key, x : openSecret(v, key, x) = openSecret(w, key, x)
  BY DEF unwrapDataKey, openSecret, keyAAD, secretAAD

\* Entries come and go without disturbing the others' seals.
LEMMA entriesKeepHeader ==
    ASSUME NEW v \in Documents, NEW ks, NEW xs
    PROVE  /\ LET w == [v EXCEPT !.keys = ks]
              IN /\ aadOf(w) = aadOf(v) /\ w.salt = v.salt /\ w.uv = v.uv
                 /\ w.rpid = v.rpid /\ w.keys = ks /\ w.secrets = v.secrets
           /\ LET w == [v EXCEPT !.secrets = xs]
              IN /\ aadOf(w) = aadOf(v) /\ w.salt = v.salt /\ w.uv = v.uv
                 /\ w.rpid = v.rpid /\ w.keys = v.keys /\ w.secrets = xs
  BY DEF aadOf, Documents

\* A document stays bound to its data key when its entries change, if each
\* entry that is new is bound.
LEMMA updateBound ==
    ASSUME NEW v \in Documents, NEW w \in Documents, NEW dk,
           aadOf(w) = aadOf(v), w.salt = v.salt, w.uv = v.uv,
           BoundTo(v, dk),
           \A e \in w.keys \ v.keys :
              /\ unwrapDataKey(v, e, hmacSecret(e.cred, v.uv, v.salt, Positions)) = "nil"
              /\ e.wrapped.plain = dk,
           \A x \in w.secrets \ v.secrets : openSecret(v, dk, x) = "nil"
    PROVE  BoundTo(w, dk)
  BY headerDecides DEF BoundTo

\* A document whose RP ID and names JSON leaves alone opens as before when it
\* comes back from storage: the labels JSON may change are not bound.
LEMMA marshalBound ==
    ASSUME NEW v \in Documents, NEW dk, BoundTo(v, dk),
           JSONText[v.rpid] = v.rpid,
           \A x \in v.secrets : JSONText[x.name] = x.name
    PROVE  /\ BoundTo(marshal(v), dk)
           /\ marshal(v).rpid = v.rpid /\ names(marshal(v)) = names(v)
<1> DEFINE w == marshal(v)
<1>1. /\ w.rpid = v.rpid /\ w.salt = v.salt /\ w.uv = v.uv
      /\ w.format = v.format /\ w.entropy = v.entropy
      /\ w.keys = {[e EXCEPT !.label = JSONText[@]] : e \in v.keys}
      /\ w.secrets = {[x EXCEPT !.name = JSONText[@]] : x \in v.secrets}
  BY DEF marshal, Documents
<1>2. aadOf(w) = aadOf(v)
  BY <1>1 DEF aadOf
<1>3. w.secrets = v.secrets
  <2>1. \A x \in v.secrets : [x EXCEPT !.name = JSONText[@]] = x
    BY DEF Documents, SecretEntries
  <2> QED
    BY <1>1, <2>1
<1>4. ASSUME NEW e \in w.keys
      PROVE  /\ unwrapDataKey(w, e, hmacSecret(e.cred, w.uv, w.salt, Positions)) = "nil"
             /\ e.wrapped.plain = dk
  <2>1. PICK f \in v.keys : e = [f EXCEPT !.label = JSONText[@]]
    BY <1>1
  <2>2. f \in KeyEntries
    BY DEF Documents
  <2>3. e.slot = f.slot /\ e.cred = f.cred /\ e.wrapped = f.wrapped
    BY <2>1, <2>2 DEF KeyEntries
  <2>4. /\ unwrapDataKey(v, f, hmacSecret(f.cred, v.uv, v.salt, Positions)) = "nil"
        /\ f.wrapped.plain = dk
    BY DEF BoundTo
  <2>5. \A prf : unwrapDataKey(w, e, prf) = unwrapDataKey(v, f, prf)
    BY <1>1, <1>2, <2>3 DEF unwrapDataKey, keyAAD
  <2> QED
    BY <1>1, <2>3, <2>4, <2>5
<1>5. \A x \in w.secrets : openSecret(w, dk, x) = "nil"
  BY <1>1, <1>2, <1>3, headerDecides DEF BoundTo
<1> QED
  BY <1>1, <1>3, <1>4, <1>5 DEF BoundTo, names

-----------------------------------------------------------------------------
(* The invariant *)

\* A step that leaves both documents alone, or drops the one in memory, and
\* hands out no data key.
LEMMA keptBinding ==
    ASSUME BindInv, TypeInv', doc' \in {doc, NoDoc}, store' = store,
           \A s \in Sessions : sess'[s] \in {sess[s], Wiped, Absent}
    PROVE  BindInv'
<1>1. EveryKeyOpensEverySecret'
  <2>1. ASSUME doc' # NoDoc
        PROVE  \E dk \in DataKeys :
                  /\ BoundTo(doc', dk)
                  /\ \A s \in Sessions : sess'[s] \in {dk, Wiped, Absent}
    BY <2>1 DEF BindInv, EveryKeyOpensEverySecret
  <2> QED
    BY <2>1 DEF BindInv, EveryKeyOpensEverySecret
<1> QED
  BY <1>1 DEF BindInv

\* A step that changes entries of the document in memory and binds each new
\* one to the data key of the sessions.
LEMMA reboundBinding ==
    ASSUME BindInv, TypeInv', doc \in Documents, doc # NoDoc, doc' \in Documents,
           UNCHANGED <<sess, store>>,
           aadOf(doc') = aadOf(doc), doc'.salt = doc.salt, doc'.uv = doc.uv,
           doc'.rpid = doc.rpid, names(doc') \subseteq SecretNames,
           \A dk \in DataKeys :
              (\A s \in Sessions : sess[s] \in {dk, Wiped, Absent}) =>
                 /\ \A e \in doc'.keys \ doc.keys :
                       /\ unwrapDataKey(doc, e, hmacSecret(e.cred, doc.uv, doc.salt,
                                                           Positions)) = "nil"
                       /\ e.wrapped.plain = dk
                 /\ \A x \in doc'.secrets \ doc.secrets : openSecret(doc, dk, x) = "nil"
    PROVE  BindInv'
<1>1. PICK dk \in DataKeys :
         /\ BoundTo(doc, dk)
         /\ \A s \in Sessions : sess[s] \in {dk, Wiped, Absent}
  BY DEF BindInv, EveryKeyOpensEverySecret
<1>2. BoundTo(doc', dk)
  BY <1>1, updateBound
<1>3. EveryKeyOpensEverySecret'
  BY <1>1, <1>2 DEF BindInv, EveryKeyOpensEverySecret
<1>4. doc.rpid \in RPIDs
  BY DEF BindInv
<1> QED
  BY <1>3, <1>4 DEF BindInv

\* The end of an enrollment: the gate passed, so the path delivered the whole
\* salt and the entry is wrapped under what the key derives on a healthy path.
LEMMA ProbeAnsweredBinding ==
    ASSUME PrefixReads, BindInv, TypeInv', NEW s \in Sessions,
           NEW dataKey \in DataKeys, NEW random \in BOOLEAN,
           ProbeAnswered(s, dataKey, random)
    PROVE  BindInv'
<1> DEFINE k == call[s].auth
           salt == target(s).salt
           gate(ans) == verifyDerivationDependsOnSalt(call[s].secret, call[s].uv, ans)
           error(ans) == IF gate(ans) = "nil" /\ ~random THEN "ErrRandom" ELSE gate(ans)
<1>0. TypeInv
  BY DEF BindInv
<1>1. /\ call[s] \in Frames /\ call[s].at = "probe"
      /\ call[s].op \in {"Create", "EnrollKey"}
  <2>1. call[s] \in Frames /\ call[s].at = "probe"
    BY <1>0, inFlight DEF ProbeAnswered
  <2> QED
    BY <1>0, <2>1 DEF TypeInv, CallConsistent, Frames
<1>2. /\ k \in Authenticators /\ call[s].cred \in CredIDs /\ call[s].uv \in BOOLEAN
      /\ reads[k] \in SUBSET Positions /\ reads[k] \in ReadSets
  BY <1>0, <1>1 DEF TypeInv, TypeOK, Frames, CallConsistent
<1>3. salt \in Salt /\ target(s) \in Documents
  BY <1>0, <1>1, targetType
<1>4. /\ call[s].secret = hmacSecret(call[s].cred, call[s].uv, salt, reads[k])
      /\ call[s].op = "EnrollKey" => call[s].uv = doc.uv
  BY <1>0, <1>1 DEF TypeInv, CallConsistent
<1>5. call[s].secret \in PRFs
  BY <1>2, <1>3, <1>4, hmacSecretType
<1>6. PICK hasPIN \in BOOLEAN :
         \E ans \in DeriveAnswers(k, {call[s].cred}, probe(salt), reads[k], hasPIN) :
               IF error(ans) # "nil" THEN UNCHANGED <<doc, sess>>
               ELSE IF call[s].op = "Create" THEN createSealed(s, dataKey)
               ELSE enrollSealed(s)
  BY DEF ProbeAnswered
<1>7. PICK ans \in DeriveAnswers(k, {call[s].cred}, probe(salt), reads[k], hasPIN) :
         IF error(ans) # "nil" THEN UNCHANGED <<doc, sess>>
         ELSE IF call[s].op = "Create" THEN createSealed(s, dataKey)
         ELSE enrollSealed(s)
  BY <1>6
<1>8. store' = store
  BY DEF ProbeAnswered
<1>9. ASSUME error(ans) = "nil" PROVE reads[k] = Positions
  <2>1. gate(ans) = "nil"
    BY <1>9
  <2>2. PICK n \in 0..SaltLen : reads[k] = 1..n
    BY <1>2 DEF PrefixReads
  <2> QED
    BY <1>2, <1>3, <1>4, <2>1, <2>2, GateCatchesTruncation
<1> HIDE DEF error
<1>10. CASE error(ans) # "nil"
  BY <1>7, <1>8, <1>10, keptBinding
<1>11. CASE error(ans) = "nil" /\ call[s].op = "Create"
  <2> DEFINE v == [call[s].draft EXCEPT !.uv = call[s].uv, !.entropy = TRUE]
             e == wrapDataKey(v, dataKey, call[s].cred, call[s].secret,
                              call[s].slot, call[s].label)
  <2>1. doc' = [v EXCEPT !.keys = {e}] /\ sess' = [sess EXCEPT ![s] = dataKey]
    BY <1>7, <1>11 DEF createSealed
  <2>2. /\ call[s].draft \in Documents /\ call[s].draft.secrets = {}
        /\ call[s].draft.rpid \in RPIDs /\ doc = NoDoc /\ store = NoDoc
        /\ target(s) = call[s].draft
    BY <1>0, <1>11 DEF TypeInv, CallConsistent, target
  <2>3. v \in Documents
    BY <2>2, <1>2, updateType
  <2>4. v.salt = salt /\ v.uv = call[s].uv /\ v.secrets = {} /\ v.rpid \in RPIDs
    BY <2>2 DEF Documents
  <2>5. /\ unwrapDataKey(v, e, call[s].secret) = "nil"
        /\ e.wrapped.plain = dataKey /\ e.cred = call[s].cred
    BY <1>5, <2>3, wrapUnwraps
  <2>6. call[s].secret = hmacSecret(e.cred, v.uv, v.salt, Positions)
    BY <1>4, <1>9, <1>11, <2>4, <2>5
  <2> HIDE DEF v, e
  <2>7. /\ aadOf(doc') = aadOf(v) /\ doc'.salt = v.salt /\ doc'.uv = v.uv
        /\ doc'.rpid = v.rpid /\ doc'.keys = {e} /\ doc'.secrets = {}
    BY <2>1, <2>3, <2>4, entriesKeepHeader
  <2>8. BoundTo(doc', dataKey)
    BY <2>5, <2>6, <2>7, headerDecides DEF BoundTo
  <2>9. \A t \in Sessions : sess'[t] \in {dataKey, Wiped, Absent}
    BY <1>0, <2>1, <2>2 DEF TypeInv, TypeOK
  <2>10. EveryKeyOpensEverySecret'
    BY <1>8, <2>2, <2>8, <2>9 DEF EveryKeyOpensEverySecret
  <2>11. doc'.rpid \in RPIDs /\ names(doc') \subseteq SecretNames
    BY <2>4, <2>7 DEF names
  <2> QED
    BY <1>8, <2>2, <2>10, <2>11 DEF BindInv
<1>12. CASE error(ans) = "nil" /\ call[s].op = "EnrollKey"
  <2> DEFINE e == wrapDataKey(doc, sess[s], call[s].cred, call[s].secret,
                              call[s].slot, call[s].label)
             ks == doc.keys \union {e}
  <2>1. doc' = [doc EXCEPT !.keys = ks] /\ sess' = sess
    BY <1>7, <1>12 DEF enrollSealed
  <2>2. /\ doc \in Documents /\ doc # NoDoc /\ sess[s] \in DataKeys
        /\ target(s) = doc
    BY <1>0, <1>12 DEF TypeInv, TypeOK, CallConsistent, target
  <2>3. /\ unwrapDataKey(doc, e, call[s].secret) = "nil"
        /\ e.wrapped.plain = sess[s] /\ e.cred = call[s].cred
    BY <1>5, <2>2, wrapUnwraps
  <2>4. call[s].secret = hmacSecret(e.cred, doc.uv, doc.salt, Positions)
    BY <1>4, <1>9, <1>12, <2>2, <2>3
  <2>5. doc' \in Documents
    <3>1. e \in KeyEntries
      BY <1>1, <1>2, <1>5, <2>2, wrapDataKeyType DEF KeyBytes, Frames
    <3>2. ks \in SUBSET KeyEntries
      BY <2>2, <3>1 DEF Documents
    <3> HIDE DEF ks
    <3> QED
      BY <2>1, <2>2, <3>2, updateType
  <2> HIDE DEF e
  <2>6. \A x \in ks \ doc.keys : x = e
    OBVIOUS
  <2> HIDE DEF ks
  <2>7. /\ aadOf(doc') = aadOf(doc) /\ doc'.salt = doc.salt /\ doc'.uv = doc.uv
        /\ doc'.rpid = doc.rpid /\ doc'.keys = ks /\ doc'.secrets = doc.secrets
    BY <2>1, <2>2 DEF aadOf, Documents
  <2>8. ASSUME NEW dk \in DataKeys, \A t \in Sessions : sess[t] \in {dk, Wiped, Absent}
        PROVE  sess[s] = dk
    <3>1. sess[s] \in {dk, Wiped, Absent}
      BY <2>8
    <3> QED
      BY <2>2, <3>1, DataKeyAssumption, AbsentAssumption
  <2>9. names(doc') \subseteq SecretNames
    BY <2>2, <2>7 DEF BindInv, names
  <2> QED
    BY <1>8, <2>1, <2>2, <2>3, <2>4, <2>5, <2>6, <2>7, <2>8, <2>9, reboundBinding
<1> QED
  BY <1>1, <1>10, <1>11, <1>12

\* Unlock hands out the data key its entry wraps, the one that all share.
LEMMA UnlockAnsweredBinding ==
    ASSUME BindInv, TypeInv', NEW s \in Sessions, UnlockAnswered(s)
    PROVE  BindInv'
<1>0. TypeInv /\ UNCHANGED <<doc, store>>
  BY DEF BindInv, UnlockAnswered
<1>1. doc # NoDoc
  BY <1>0 DEF TypeInv, CallConsistent, UnlockAnswered
<1>2. PICK hasPIN \in BOOLEAN :
         \E ans \in DeriveAnswers(call[s].auth, call[s].ids, doc.salt,
                                  reads[call[s].auth], hasPIN) :
               sess' = IF unlockError(ans) # "nil" THEN sess
                       ELSE [sess EXCEPT ![s] = findKey(doc, ans.cred).wrapped.plain]
  BY DEF UnlockAnswered
<1>3. PICK ans \in DeriveAnswers(call[s].auth, call[s].ids, doc.salt,
                                 reads[call[s].auth], hasPIN) :
         sess' = IF unlockError(ans) # "nil" THEN sess
                 ELSE [sess EXCEPT ![s] = findKey(doc, ans.cred).wrapped.plain]
  BY <1>2
<1>4. CASE unlockError(ans) # "nil"
  BY <1>0, <1>3, <1>4, keptBinding
<1>5. CASE unlockError(ans) = "nil"
  <2>1. findKey(doc, ans.cred) \in doc.keys
    <3>1. enrolled(doc, ans.cred)
      BY <1>5 DEF unlockError
    <3> QED
      BY <3>1, findKeyIn
  <2>2. PICK dk \in DataKeys :
           /\ BoundTo(doc, dk)
           /\ \A t \in Sessions : sess[t] \in {dk, Wiped, Absent}
    BY <1>1 DEF BindInv, EveryKeyOpensEverySecret
  <2>3. findKey(doc, ans.cred).wrapped.plain = dk
    BY <2>1, <2>2 DEF BoundTo
  <2>4. \A t \in Sessions : sess'[t] \in {dk, Wiped, Absent}
    BY <1>0, <1>3, <1>5, <2>2, <2>3 DEF TypeInv, TypeOK
  <2>5. EveryKeyOpensEverySecret'
    BY <1>0, <2>2, <2>4 DEF BindInv, EveryKeyOpensEverySecret
  <2> QED
    BY <1>0, <2>5 DEF BindInv
<1> QED
  BY <1>4, <1>5

\* Put seals under the data key the sessions share.
LEMMA PutBinding ==
    ASSUME BindInv, TypeInv', NEW s \in Sessions, NEW name \in SecretNames,
           NEW reader \in Readers, NEW random \in BOOLEAN,
           Put(s, name, reader, random)
    PROVE  BindInv'
<1>0. TypeInv /\ UNCHANGED <<sess, store>>
  BY DEF BindInv, Put
<1>1. /\ doc \in Documents /\ doc # NoDoc
      /\ ~Locked(s) => sess[s] \in DataKeys
  BY <1>0, callable DEF Put
<1>2. CASE putError(s, name, reader, random) # "nil"
  <2>1. doc' = doc
    BY <1>2 DEF Put
  <2> QED
    BY <1>0, <2>1, keptBinding
<1>3. CASE putError(s, name, reader, random) = "nil"
  <2> DEFINE x == sealSecret(doc, sess[s], name, reader.value)
             xs == {y \in doc.secrets : y.name # name} \union {x}
  <2>1. doc' = [doc EXCEPT !.secrets = xs]
    BY <1>3 DEF Put
  <2>2. sess[s] \in DataKeys
    BY <1>1, <1>3 DEF putError
  <2>3. openSecret(doc, sess[s], x) = "nil" /\ x.name = name
    BY <1>1, sealOpens
  <2> HIDE DEF x
  <2>4. (\A y \in xs \ doc.secrets : y = x) /\ (\A y \in xs : y \in doc.secrets \/ y = x)
    OBVIOUS
  <2> HIDE DEF xs
  <2>5. /\ aadOf(doc') = aadOf(doc) /\ doc'.salt = doc.salt /\ doc'.uv = doc.uv
        /\ doc'.rpid = doc.rpid /\ doc'.keys = doc.keys /\ doc'.secrets = xs
    BY <1>1, <2>1 DEF aadOf, Documents
  <2>6. ASSUME NEW dk \in DataKeys, \A t \in Sessions : sess[t] \in {dk, Wiped, Absent}
        PROVE  sess[s] = dk
    <3>1. sess[s] \in {dk, Wiped, Absent}
      BY <2>6
    <3> QED
      BY <2>2, <3>1, DataKeyAssumption, AbsentAssumption
  <2>7. names(doc') \subseteq SecretNames
    <3>1. names(doc) \subseteq SecretNames
      BY <1>1 DEF BindInv
    <3> QED
      BY <3>1, <2>3, <2>4, <2>5 DEF names
  <2>8. doc' \in Documents
    <3>1. sess'[s] # Absent
      BY <1>0 DEF Put, Callable
    <3> QED
      BY <3>1 DEF TypeInv, TypeOK
  <2> QED
    BY <1>0, <1>1, <2>3, <2>4, <2>5, <2>6, <2>7, <2>8, reboundBinding
<1> QED
  BY <1>2, <1>3

\* Removing entries leaves the others' seals alone.
LEMMA RemovalBinding ==
    ASSUME BindInv, TypeInv', NEW s \in Sessions, Callable(s),
           UNCHANGED <<sess, store>>,
           \/ doc' = doc
           \/ \E slot : doc' = removeKey(doc, slot)
           \/ \E name : doc' = [doc EXCEPT !.secrets = {x \in @ : x.name # name}]
    PROVE  BindInv'
<1>0. TypeInv /\ doc \in Documents /\ doc # NoDoc
  BY callable DEF BindInv
<1>1. doc' \in Documents
  <2>1. sess'[s] # Absent
    BY DEF Callable
  <2> QED
    BY <2>1 DEF TypeInv, TypeOK
<1> DEFINE kept == /\ aadOf(doc') = aadOf(doc) /\ doc'.salt = doc.salt
                   /\ doc'.uv = doc.uv /\ doc'.rpid = doc.rpid
                   /\ doc'.keys \subseteq doc.keys /\ doc'.secrets \subseteq doc.secrets
<1>2. kept
  <2>1. CASE doc' = doc
    BY <2>1
  <2>2. ASSUME NEW slot, doc' = removeKey(doc, slot)
        PROVE  kept
    BY <1>0, <2>2 DEF removeKey, aadOf, Documents
  <2>3. ASSUME NEW name, doc' = [doc EXCEPT !.secrets = {x \in @ : x.name # name}]
        PROVE  kept
    BY <1>0, <2>3 DEF aadOf, Documents
  <2> QED
    BY <2>1, <2>2, <2>3
<1>3. names(doc') \subseteq SecretNames
  BY <1>0, <1>2 DEF BindInv, names
<1> QED
  BY <1>0, <1>1, <1>2, <1>3, reboundBinding

\* What Sealed returns opens as the document in memory does.
LEMMA SealedBinding ==
    ASSUME UTF8Inputs, BindInv, TypeInv', NEW s \in Sessions, Sealed(s)
    PROVE  BindInv'
<1>0. TypeInv /\ UNCHANGED <<doc, sess>> /\ store' = marshal(doc)
  BY DEF BindInv, Sealed
<1>1. doc \in Documents /\ doc # NoDoc
  BY <1>0, callable DEF Sealed
<1>2. doc.rpid \in RPIDs /\ names(doc) \subseteq SecretNames
  BY <1>1 DEF BindInv
<1>3. /\ JSONText[doc.rpid] = doc.rpid
      /\ \A x \in doc.secrets : JSONText[x.name] = x.name
  BY <1>2 DEF UTF8Inputs, names
<1>4. PICK dk \in DataKeys :
         /\ BoundTo(doc, dk)
         /\ \A t \in Sessions : sess[t] \in {dk, Wiped, Absent}
  BY <1>1 DEF BindInv, EveryKeyOpensEverySecret
<1>5. /\ BoundTo(store', dk) /\ store'.rpid = doc.rpid
      /\ names(store') = names(doc)
  BY <1>0, <1>1, <1>3, <1>4, marshalBound
<1>6. EveryKeyOpensEverySecret'
  BY <1>0, <1>4, <1>5 DEF EveryKeyOpensEverySecret
<1> QED
  BY <1>0, <1>2, <1>5, <1>6 DEF BindInv

\* OpenWith takes the stored document when no session exists.
LEMMA OpenWithBinding ==
    ASSUME BindInv, TypeInv', NEW rpid, NEW pool, OpenWith(rpid, pool)
    PROVE  BindInv'
<1>0. /\ TypeInv /\ doc = NoDoc /\ store # NoDoc
      /\ UNCHANGED <<sess, store>> /\ doc' \in {doc, store}
  BY DEF BindInv, OpenWith
<1>1. CASE doc' = doc
  BY <1>0, <1>1, keptBinding
<1>2. CASE doc' = store
  <2>1. PICK dk \in DataKeys : BoundTo(store, dk)
    BY <1>0 DEF BindInv, EveryKeyOpensEverySecret
  <2>2. \A s \in Sessions : sess'[s] = Absent
    BY <1>0 DEF TypeInv
  <2>3. EveryKeyOpensEverySecret'
    BY <1>0, <1>2, <2>1, <2>2 DEF EveryKeyOpensEverySecret
  <2> QED
    BY <1>0, <1>2, <2>3 DEF BindInv
<1> QED
  BY <1>0, <1>1, <1>2

\* The calls that only prompt, read or end things.
LEMMA PromptBinding ==
    ASSUME BindInv, TypeInv',
           \/ \E s, k, rpid, label, pool, salt, random :
                 Create(s, k, rpid, label, pool, salt, random)
           \/ \E s, k, slot, label, random : EnrollKey(s, k, slot, label, random)
           \/ \E s : EnrollAnswered(s) \/ DeriveAnswered(s)
           \/ \E s, k : Unlock(s, k)
           \/ \E s \in Sessions : Lock(s)
           \/ \E s, name : OpenSecret(s, name)
           \/ Exit
           \/ \E k : ChangePIN(k)
           \/ UNCHANGED vars
    PROVE  BindInv'
<1>1. doc' \in {doc, NoDoc} /\ store' = store
  BY DEF Create, EnrollKey, EnrollAnswered, DeriveAnswered, Unlock, Lock,
         OpenSecret, Exit, ChangePIN, vars
<1>2. \A s \in Sessions : sess'[s] \in {sess[s], Wiped, Absent}
  BY DEF BindInv, TypeInv, TypeOK, Create, EnrollKey, EnrollAnswered, DeriveAnswered,
         Unlock, Lock, OpenSecret, Exit, ChangePIN, vars
<1> QED
  BY <1>1, <1>2, keptBinding

\* Each step of a vault keeps every entry bound to the one data key.
LEMMA BindInvariant ==
    ASSUME PrefixReads, UTF8Inputs
    PROVE  Spec => []BindInv
<1>1. Init => BindInv
  <2> SUFFICES ASSUME Init PROVE BindInv
    OBVIOUS
  <2> QED
    BY InitTypeInv DEF Init, BindInv, EveryKeyOpensEverySecret
<1>2. BindInv /\ TypeInv' /\ [Next]_vars => BindInv'
  <2> SUFFICES ASSUME BindInv, TypeInv', [Next]_vars PROVE BindInv'
    OBVIOUS
  <2>1. ASSUME NEW s \in Sessions, NEW slot,
               RemoveKey(s, slot) \/ ForceRemoveKey(s, slot)
        PROVE  BindInv'
    BY <2>1, RemovalBinding DEF RemoveKey, ForceRemoveKey
  <2>2. ASSUME NEW s \in Sessions, NEW name, Delete(s, name)
        PROVE  BindInv'
    BY <2>2, RemovalBinding DEF Delete
  <2> QED
    BY <2>1, <2>2, PromptBinding, ProbeAnsweredBinding, OpenWithBinding,
       UnlockAnsweredBinding, PutBinding, SealedBinding
       DEF Next, Answered
<1> QED
  BY <1>1, <1>2, TypeInvInductive, PTL DEF Spec

\* Where paths truncate rather than scramble the salt, and callers pass UTF-8,
\* every enrolled key always opens every secret, in memory and as persisted,
\* for any number of keys, sessions, slots and secrets and any salt length.
THEOREM EveryKeyOpens ==
    ASSUME PrefixReads, UTF8Inputs
    PROVE  Spec => []EveryKeyOpensEverySecret
<1>1. BindInv => EveryKeyOpensEverySecret
  BY DEF BindInv
<1> QED
  BY <1>1, BindInvariant, PTL

=============================================================================
