-------------------------- MODULE EnrollmentProofs --------------------------
(***************************************************************************)
(* What the provider, the attestation check and the pools of trust anchors *)
(* guarantee together, for any certificates, keys, statements and vaults.  *)
(***************************************************************************)
EXTENDS Enrollment, FiniteSetTheorems, TLAPS

-----------------------------------------------------------------------------
(* Chains of certificates *)

\* S has leaf and the issuers in inter of what it has.
closed(S, leaf, inter) ==
    leaf \in S /\ \A d \in S : Issuer[d] \in inter => Issuer[d] \in S

\* What a certificate reaches is closed, and in every closed set.
LEMMA reachLeast ==
    ASSUME NEW leaf, NEW inter
    PROVE  /\ closed(issuersWithin(leaf, inter), leaf, inter)
           /\ \A S : closed(S, leaf, inter) => issuersWithin(leaf, inter) \subseteq S
           /\ issuersWithin(leaf, inter) \subseteq inter \union {leaf}
<1> DEFINE R == issuersWithin(leaf, inter)
           U == inter \union {leaf}
<1>1. R \subseteq U /\ leaf \in R
  BY DEF issuersWithin
<1>2. ASSUME NEW d \in R, Issuer[d] \in inter PROVE Issuer[d] \in R
  BY <1>2 DEF issuersWithin
<1>3. ASSUME NEW S, closed(S, leaf, inter) PROVE R \subseteq S
  <2>1. S \cap U \in SUBSET U /\ leaf \in S \cap U
    BY <1>3 DEF closed
  <2>2. \A d \in S \cap U : Issuer[d] \in inter => Issuer[d] \in S \cap U
    BY <1>3 DEF closed
  <2>3. \A c \in R : c \in S \cap U
    BY <2>1, <2>2 DEF issuersWithin
  <2> QED
    BY <2>3
<1> QED
  BY <1>1, <1>2, <1>3 DEF closed

\* More intermediates reach more.
LEMMA reachMonotone ==
    ASSUME NEW leaf, NEW inter, NEW more, inter \subseteq more
    PROVE  issuersWithin(leaf, inter) \subseteq issuersWithin(leaf, more)
<1>1. closed(issuersWithin(leaf, more), leaf, inter)
  BY reachLeast DEF closed
<1> QED
  BY <1>1, reachLeast

\* A certificate has one issuer, so of two self-signed certificates that a leaf
\* reaches neither is beyond the other.
LEMMA oneRoot ==
    ASSUME NEW leaf \in Certs, NEW r \in issuersWithin(leaf, Certs), Issuer[r] = r,
           NEW q \in issuersWithin(leaf, Certs), Issuer[q] = q
    PROVE  q = r
<1> DEFINE reach(c) == issuersWithin(c, Certs)
           S == {d \in Certs : q \in reach(d)}
<1>1. \A c \in Certs : reach(c) \subseteq Certs /\ Issuer[c] \in Certs /\ c \in reach(c)
  BY reachLeast, CertAssumption DEF closed
<1>2. ASSUME NEW d \in Certs PROVE reach(d) \subseteq {d} \union reach(Issuer[d])
  <2>1. closed({d} \union reach(Issuer[d]), d, Certs)
    BY <1>1, reachLeast DEF closed
  <2> QED
    BY <2>1, reachLeast
<1>3. closed(S, leaf, Certs)
  <2>1. leaf \in S
    OBVIOUS
  <2>2. ASSUME NEW d \in S PROVE Issuer[d] \in S
    <3>1. q = d \/ q \in reach(Issuer[d])
      BY <1>2
    <3>2. q = d => Issuer[d] = q /\ q \in reach(q)
      BY <1>1
    <3> QED
      BY <1>1, <3>1, <3>2
  <2> QED
    BY <2>1, <2>2 DEF closed
<1>4. r \in S
  BY <1>3, reachLeast
<1>5. closed({r}, r, Certs)
  BY DEF closed
<1>6. reach(r) \subseteq {r}
  BY <1>5, reachLeast
<1> QED
  BY <1>4, <1>6

\* A chain that leads from leaf to a root among roots leads to the root of the
\* vendor that certified leaf.
LEMMA chainLeadsToVendor ==
    ASSUME NEW leaf \in Certs, NEW inter \in SUBSET Certs, NEW anchors \in SUBSET Certs,
           \A c \in anchors : Issuer[c] = c,
           NEW vendor \in issuersWithin(leaf, Certs), Issuer[vendor] = vendor,
           chainVerifies(leaf, anchors, inter)
    PROVE  vendor \in anchors
<1>1. PICK c \in issuersWithin(leaf, inter) : c \in anchors \/ Issuer[c] \in anchors
  BY DEF chainVerifies
<1>2. c \in issuersWithin(leaf, Certs)
  BY <1>1, reachMonotone
<1>3. Issuer[c] \in issuersWithin(leaf, Certs)
  <2>1. c \in Certs
    BY <1>2, reachLeast
  <2>2. Issuer[c] \in Certs
    BY <2>1, CertAssumption
  <2> QED
    BY <1>2, <2>2, reachLeast DEF closed
<1> QED
  BY <1>1, <1>2, <1>3, oneRoot

\* A chain of presented and bundled certificates up to a trusted root verifies,
\* whether or not the root itself was presented.
LEMMA genuineVerifies ==
    ASSUME NEW x5c \in Seq(Certs), x5c # <<>>, NEW vendor, NEW anchors, vendor \in anchors,
           vendor \in issuersWithin(x5c[1], {x5c[i] : i \in DOMAIN x5c}
                                              \union attestationIntermediates
                                              \union {vendor})
    PROVE  chainVerifies(x5c[1], anchors, intermediatePool(x5c))
<1> DEFINE leaf == x5c[1]
           I == intermediatePool(x5c)
           R == issuersWithin(leaf, I)
           more == {x5c[i] : i \in DOMAIN x5c} \union attestationIntermediates
                     \union {vendor}
<1> SUFFICES ASSUME ~chainVerifies(leaf, anchors, I) PROVE FALSE
  OBVIOUS
<1>1. \A c \in R : c # vendor /\ Issuer[c] # vendor
  BY DEF chainVerifies
<1>2. more \subseteq I \union {leaf, vendor}
  <2>1. \A i \in DOMAIN x5c : i = 1 \/ i \in 2..Len(x5c)
    OBVIOUS
  <2> QED
    BY <2>1 DEF intermediatePool
<1>3. closed(R, leaf, I)
  BY reachLeast
<1> HIDE DEF I, more, R
<1>4. closed(R, leaf, more)
  BY <1>1, <1>2, <1>3 DEF closed
<1>5. vendor \in R
  BY <1>4, reachLeast DEF more, R
<1> QED
  BY <1>1, <1>5

-----------------------------------------------------------------------------
(* The provider *)

\* A request that is not refused lists credentials of the port, and its salt is
\* whole.
LEMMA acceptedRequest ==
    ASSUME NEW r \in ProviderRequests
    PROVE  /\ r.call \in Port!Requests /\ r.call # NoRequest
           /\ r.call.kind \in {"Enroll", "Derive"}
           /\ r.call.kind = "Derive" /\ ~refused(r) =>
                 /\ r.call.ids \in SUBSET CredIDs /\ r.call.salt \in Salt
                 /\ Len(r.call.salt) = SaltLen
                 /\ Validate(r.call.ids, r.call.salt) = "nil"
<1>1. r.call \in Port!Requests
  BY DEF ProviderRequests
<1>2. r.call # NoRequest
  BY <1>1, OutcomeAssumption
<1>3. r.call.kind \in {"Enroll", "Derive"}
  BY <1>1 DEF Port!Requests
<1>4. ASSUME r.call.kind = "Derive", ~refused(r)
      PROVE  /\ r.call.ids \in SUBSET CredIDs /\ r.call.salt \in Salt
             /\ Len(r.call.salt) = SaltLen
             /\ Validate(r.call.ids, r.call.salt) = "nil"
  <2>1. /\ r.call.ids \in SUBSET (CredIDs \union {NoCredential})
        /\ r.call.salt \in Port!Salts
    BY <1>1, <1>4 DEF Port!Requests
  <2>2. Validate(r.call.ids, r.call.salt) = "nil"
    BY <1>4 DEF refused
  <2>3. NoCredential \notin r.call.ids /\ DOMAIN r.call.salt = Positions
    BY <2>2 DEF Validate
  <2>4. PICK n \in 0..SaltLen : r.call.salt \in [1..n -> Byte]
    BY <2>1 DEF Port!Salts, Port!Byte, Byte
  <2>5. 1..n = Positions
    BY <2>3, <2>4
  <2>6. n = SaltLen
    BY <2>5, SaltAssumption DEF Positions
  <2>7. r.call.salt \in Seq(Byte) /\ Len(r.call.salt) = SaltLen
    BY <2>4, <2>6, SaltAssumption
  <2> QED
    BY <2>1, <2>2, <2>3, <2>4, <2>5, <2>7 DEF Salt
<1> QED
  BY <1>1, <1>2, <1>3, <1>4

\* The port's answers are the ones that Authenticator lists.
LEMMA portAnswers ==
    ASSUME NEW k, NEW ids, NEW salt, NEW r, NEW uv
    PROVE  /\ Port!EnrollAnswers(k) = EnrollAnswers(k)
           /\ Port!DeriveAnswers(k, ids, salt, r, uv) = DeriveAnswers(k, ids, salt, r, uv)
           /\ Port!Positions = Positions
<1>1. Port!Refusal = Refusal /\ Port!Positions = Positions
  BY DEF Port!Refusal, Refusal, Port!Positions, Positions
<1>2. Port!Validate(ids, salt) = Validate(ids, salt)
  BY <1>1 DEF Port!Validate, Validate
<1>3. \A c : Port!hmacSecret(c, uv, salt, r) = hmacSecret(c, uv, salt, r)
  BY DEF Port!hmacSecret, hmacSecret, Port!Seen, Seen
<1> QED
  BY <1>1, <1>2, <1>3
     DEF Port!EnrollAnswers, EnrollAnswers, Port!DeriveAnswers, DeriveAnswers

\* The options that GetAssertion sends: the salt's field is there, and only a
\* platform without it does not know their version.
LEMMA optionsSent ==
    ASSUME NEW r, env.api \in ApiVersions
    PROVE  /\ getAssertionOptions(r).version >= 6
           /\ env.api >= SaltApi => /\ optionsKnown(env.api) >= 6
                                   /\ ~(getAssertionOptions(r).version > optionsKnown(env.api))
<1>1. env.api \in Nat /\ SaltApi \in Nat
  BY ProviderAssumption
<1> QED
  BY <1>1 DEF getAssertionOptions, optsVersion, optionsKnown

\* The structure of an assertion comes from one listed credential that the key
\* holds: it names that credential or none, and its output, if any, is that
\* credential's, over the whole salt; where the options have a field for the
\* salt, an output that the key has to give is there.
LEMMA assertionFields ==
    ASSUME NEW r \in ProviderRequests, r.call.kind = "Derive", ~refused(r),
           env.api \in ApiVersions,
           NEW o \in Assertions(r.call.key, getAssertionOptions(r.call))
    PROVE  /\ o \in AssertionStructs
           /\ o.by \in r.call.ids /\ Holder[o.by] = r.call.key
           /\ o.credential \in {o.by, NoCredential}
           /\ o.hmacSecret \in
                 {hmacSecret(o.by, o.authenticatorData # TooShortData
                                    /\ o.authenticatorData.uv,
                             r.call.salt, Positions), NoPRF}
           /\ env.api >= SaltApi /\ o.prf => o.hmacSecret # NoPRF
<1> DEFINE opts == getAssertionOptions(r.call)
<1>1. /\ r.call.ids \in SUBSET CredIDs /\ r.call.salt \in Salt
      /\ Len(r.call.salt) = SaltLen
  BY acceptedRequest
<1>2. /\ opts.allowCredentialList = r.call.ids /\ opts.salt.first = r.call.salt
      /\ 1..opts.salt.firstLen = Positions
  BY <1>1 DEF getAssertionOptions, hmacSecretSalt, Positions
<1> DEFINE carried == opts.version >= 6 /\ optionsKnown(env.api) >= 6
<1>0. env.api >= SaltApi => carried
  BY optionsSent
<1> HIDE DEF opts
<1> DEFINE prf(c, a) == hmacSecret(c, a # TooShortData /\ a.uv, r.call.salt, Positions)
<1>3. PICK v \in AssertionVersions, c \in {d \in r.call.ids : Holder[d] = r.call.key},
           told \in BOOLEAN, sent \in BOOLEAN,
           a \in [present : BOOLEAN, uv : BOOLEAN] \union {TooShortData} :
         o = [version |-> v, credential |-> IF told THEN c ELSE NoCredential,
              authenticatorData |-> a, by |-> c, prf |-> sent,
              hmacSecret |-> IF sent /\ carried THEN prf(c, a) ELSE NoPRF]
  BY <1>2 DEF Assertions, opts
<1> HIDE DEF carried
<1>4. /\ o.by = c /\ o.credential \in {c, NoCredential} /\ o.authenticatorData = a
      /\ o.hmacSecret \in {prf(c, a), NoPRF}
      /\ o.prf /\ carried => o.hmacSecret = prf(c, a)
  BY <1>3
<1>5. prf(c, a) \in PRFs
  <2>1. (a # TooShortData /\ a.uv) \in BOOLEAN
    OBVIOUS
  <2>2. Seen(r.call.salt, Positions) \in [Positions -> Byte]
    BY <1>1 DEF Seen, Salt
  <2>3. c \in CredIDs
    BY <1>1, <1>3
  <2> QED
    BY <2>1, <2>2, <2>3 DEF hmacSecret, PRFs
<1>6. o \in AssertionStructs
  <2> HIDE DEF prf
  <2>1. /\ (IF told THEN c ELSE NoCredential) \in CredIDs \union {NoCredential}
        /\ (IF sent /\ carried THEN prf(c, a) ELSE NoPRF) \in PRFs \union {NoPRF}
        /\ c \in CredIDs
    BY <1>1, <1>3, <1>5
  <2> QED
    BY <1>3, <2>1 DEF AssertionStructs
<1>7. env.api >= SaltApi /\ o.prf => o.hmacSecret # NoPRF
  BY <1>0, <1>4, <1>5, NoPRFAssumption
<1> QED
  BY <1>3, <1>4, <1>6, <1>7

\* An output of a listed credential that the key holds is an answer of the port.
LEMMA healthyAnswer ==
    ASSUME NEW k, NEW ids, NEW salt, NEW r, NEW uv \in BOOLEAN, NEW c \in ids, Holder[c] = k,
           Validate(ids, salt) = "nil", NEW p \in BOOLEAN
    PROVE  [err |-> FALSE, cred |-> c, resident |-> FALSE, present |-> p, uv |-> uv,
            secret |-> hmacSecret(c, uv, salt, r)] \in DeriveAnswers(k, ids, salt, r, uv)
<1> DEFINE D == {e \in ids : Validate(ids, salt) = "nil" /\ Holder[e] = k}
           no == FALSE
           bool == BOOLEAN
           prf(d, x) == IF x THEN hmacSecret(d, uv, salt, r) ELSE NoPRF
           record(d, q, x) ==
             [err |-> no, cred |-> d, resident |-> no, present |-> q, uv |-> uv,
              secret |-> prf(d, x)]
           all == {record(d, q, x) : d \in D, q \in bool, x \in bool}
<1>1. DeriveAnswers(k, ids, salt, r, uv) = {Refusal} \union all
  BY DEF DeriveAnswers
<1>2. prf(c, TRUE) = hmacSecret(c, uv, salt, r) /\ c \in D /\ p \in bool /\ TRUE \in bool
  OBVIOUS
<1> HIDE DEF D, bool, prf
<1>3. \E x \in bool : prf(c, x) = hmacSecret(c, uv, salt, r)
  BY <1>2
<1>4. [err |-> no, cred |-> c, resident |-> no, present |-> p, uv |-> uv,
       secret |-> hmacSecret(c, uv, salt, r)] \in all
  <2> HIDE DEF no
  <2> QED
    BY <1>2, <1>3
<1> QED
  BY <1>1, <1>4

\* A refusal is an answer to every request.
LEMMA refusalAnswer ==
    ASSUME NEW k, NEW ids, NEW salt, NEW r, NEW uv
    PROVE  Refusal \in DeriveAnswers(k, ids, salt, r, uv)
<1> DEFINE all ==
             {[err |-> FALSE, cred |-> c, resident |-> FALSE, present |-> p, uv |-> uv,
               secret |-> IF x THEN hmacSecret(c, uv, salt, r) ELSE NoPRF] :
                 c \in {d \in ids : Validate(ids, salt) = "nil" /\ Holder[d] = k},
                 p \in BOOLEAN, x \in BOOLEAN}
<1>1. DeriveAnswers(k, ids, salt, r, uv) = {Refusal} \union all
  BY DEF DeriveAnswers
<1> HIDE DEF all
<1> QED
  BY <1>1

\* With a structure that has the field, the answer to a Derive request is a
\* refusal or the output of the listed credential that it names.
LEMMA deriveResult ==
    ASSUME \A v \in AssertionVersions : v >= 3, ProviderInv, DeriveReturns
    PROVE  /\ \/ ans' = Refusal
              \/ \E uv \in BOOLEAN :
                    ans' \in DeriveAnswers(req.call.key, req.call.ids, req.call.salt,
                                           Positions, uv)
           /\ HealthyKeyDerives'
<1> DEFINE c0 == answeringCredential(out, req.call.ids)
           a == out.authenticatorData
<1>1. /\ at = "answered" /\ req.call.kind = "Derive" /\ ~refused(req)
      /\ req \in ProviderRequests /\ env.api \in ApiVersions
      /\ at' = "returned" /\ UNCHANGED <<env, opened, req, out>>
  BY DEF DeriveReturns, ProviderInv
<1>2. \/ out \in {Failed, NullStruct} \union Assertions(req.call.key,
                                                         getAssertionOptions(req.call))
      \/ out = BadOptions /\ env.api < SaltApi
  BY <1>1 DEF ProviderInv, Outcomes
<1>3. CASE out \in {Failed, NullStruct} \/ (out = BadOptions /\ env.api < SaltApi)
  <2>1. ans' = Refusal
    BY <1>3 DEF DeriveReturns
  <2>2. env.api < SaltApi => ~(env.api >= SaltApi)
    BY <1>1, ProviderAssumption
  <2> QED
    BY <1>1, <1>3, <2>1, <2>2, OutcomeAssumption DEF HealthyKeyDerives
<1>4. CASE out \in Assertions(req.call.key, getAssertionOptions(req.call))
           /\ out \notin {Failed, NullStruct}
  <2>1. out \in AssertionStructs
    BY <1>1, <1>4, assertionFields
  <2> DEFINE c == out.by
  <2>2. /\ c \in req.call.ids
        /\ Holder[c] = req.call.key /\ out.credential \in {c, NoCredential}
        /\ out.hmacSecret \in {hmacSecret(c, a # TooShortData /\ a.uv,
                                          req.call.salt, Positions), NoPRF}
        /\ env.api >= SaltApi /\ out.prf => out.hmacSecret # NoPRF
    BY <1>1, <1>4, assertionFields
  <2>3. out # BadOptions
    BY <2>1, OutcomeAssumption
  <2>4. HMACSecrets(out) = {out.hmacSecret}
    <3>1. out.version \in AssertionVersions
      BY <2>1 DEF AssertionStructs
    <3> QED
      BY <3>1 DEF HMACSecrets
  <2>5. /\ req.call.ids \in SUBSET CredIDs
        /\ Validate(req.call.ids, req.call.salt) = "nil"
    BY <1>1, acceptedRequest
  <2>6. /\ c0 \in {c, NoCredential}
        /\ out.credential # NoCredential \/ Cardinality(req.call.ids) = 1 => c0 = c
    <3>1. CASE out.credential = NoCredential /\ Cardinality(req.call.ids) = 1
      <4>1. IsFiniteSet(req.call.ids)
        BY <2>5, ProviderAssumption, FS_Subset
      <4>2. PICK x : req.call.ids = {x}
        BY <3>1, <4>1, FS_Singleton
      <4>3. c0 \in req.call.ids
        BY <2>2, <3>1 DEF answeringCredential
      <4> QED
        BY <2>2, <3>1, <4>2, <4>3
    <3>2. CASE ~(out.credential = NoCredential /\ Cardinality(req.call.ids) = 1)
      BY <2>2, <3>2 DEF answeringCredential
    <3> QED
      BY <3>1, <3>2
  <2>7. ans' = IF out.hmacSecret = NoPRF \/ a = TooShortData \/ c0 = NoCredential
               THEN Refusal
               ELSE [err |-> FALSE, cred |-> c0, resident |-> FALSE,
                     present |-> a.present, uv |-> a.uv, secret |-> out.hmacSecret]
    BY <1>4, <2>3, <2>4 DEF DeriveReturns
  <2> HIDE DEF c0
  <2>8. CASE out.hmacSecret = NoPRF \/ a = TooShortData \/ c0 = NoCredential
    <3>1. c # NoCredential
      BY <2>2, <2>5, AuthenticatorAssumption
    <3>2. ~(env.api >= SaltApi) \/ ~AnsweredInFull(out, req.call)
      BY <2>2, <2>6, <2>8, <3>1 DEF AnsweredInFull
    <3>3. HealthyKeyDerives'
      BY <1>1, <2>3, <3>2 DEF HealthyKeyDerives, AnsweredInFull
    <3> QED
      BY <2>7, <2>8, <3>3
  <2>9. CASE ~(out.hmacSecret = NoPRF \/ a = TooShortData \/ c0 = NoCredential)
    <3>1. a.present \in BOOLEAN /\ a.uv \in BOOLEAN
      BY <2>1, <2>9 DEF AssertionStructs
    <3>2. c0 = c /\ out.hmacSecret = hmacSecret(c, a.uv, req.call.salt, Positions)
      BY <2>2, <2>6, <2>9, <3>1
    <3>3. ans' = [err |-> FALSE, cred |-> c, resident |-> FALSE, present |-> a.present,
                  uv |-> a.uv, secret |-> hmacSecret(c, a.uv, req.call.salt, Positions)]
      BY <2>7, <2>9, <3>2
    <3>4. ans' \in DeriveAnswers(req.call.key, req.call.ids, req.call.salt, Positions, a.uv)
      BY <2>2, <2>5, <3>1, <3>3, healthyAnswer
    <3>5. ans'.cred = c /\ ans'.secret = hmacSecret(c, a.uv, req.call.salt, Positions)
      BY <3>3
    <3>6. HealthyKeyDerives'
      BY <1>1, <2>3, <3>5 DEF HealthyKeyDerives
    <3> QED
      BY <3>1, <3>4, <3>6
  <2> QED
    BY <2>8, <2>9
<1> QED
  BY <1>2, <1>3, <1>4

\* The structure of an attestation carries one of the key's statements, made for
\* the credential it names.
LEMMA attestationFields ==
    ASSUME NEW k \in Authenticators, NEW o \in Attestations(k)
    PROVE  /\ o.version \in Nat /\ o.residentKey \in BOOLEAN
           /\ o.credentialID \in CredIDs => Holder[o.credentialID] = k
           /\ o.credentialID \in CredIDs \union {NoCredential}
           /\ o.signature = [by |-> o.signature.by, over |-> o.signature.over]
           /\ \E s \in Statements[k] :
                 /\ o.x5c = s.x5c /\ o.authenticatorData.aaguid = s.aaguid
                 /\ o.signature.by = s.signer
                 /\ o.signature.over = IF s.fresh
                                       THEN <<o.authenticatorData, sha256ClientData>>
                                       ELSE <<>>
<1>1. PICK v \in AttestationVersions,
           c \in {e \in CredIDs : Holder[e] = k} \union {NoCredential},
           rk \in BOOLEAN, d \in {attestationDecodeNone, attestationDecodeCommon},
           s \in Statements[k] :
         o = [version |-> v, credentialID |-> c, residentKey |-> rk, decodeType |-> d,
              authenticatorData |-> [cred |-> c, aaguid |-> s.aaguid],
              formatType |-> s.format, algID |-> s.alg, x5c |-> s.x5c,
              signature |->
                [by |-> s.signer,
                 over |-> IF s.fresh
                          THEN <<[cred |-> c, aaguid |-> s.aaguid], sha256ClientData>>
                          ELSE <<>>]]
  BY DEF Attestations
<1>2. o.version = v /\ o.credentialID = c /\ o.residentKey = rk
  BY <1>1
<1>3. /\ o.x5c = s.x5c /\ o.authenticatorData = [cred |-> c, aaguid |-> s.aaguid]
      /\ o.signature.by = s.signer
      /\ o.signature.over = IF s.fresh
                            THEN <<[cred |-> c, aaguid |-> s.aaguid], sha256ClientData>>
                            ELSE <<>>
  BY <1>1
<1>4. o.signature = [by |-> o.signature.by, over |-> o.signature.over]
  BY <1>1
<1>5. v \in Nat
  BY ProviderAssumption
<1>6. c \in CredIDs => Holder[c] = k
  BY AuthenticatorAssumption
<1> QED
  BY <1>2, <1>3, <1>4, <1>5, <1>6

\* Each step of the provider keeps what is in hand the answer to the request in
\* hand.
LEMMA ProviderStepInv ==
    ASSUME ProviderInv, ProviderStep
    PROVE  ProviderInv'
<1> USE DEF ProviderInv
<1>1. CASE New
  <2>1. UNCHANGED <<env, at, req, out, ans, material>>
    BY <1>1 DEF New
  <2>2. opened' => ~env.underTest /\ env.markers = {}
    BY <1>1 DEF New, RefuseAutomatedContext, RefuseUnderAgent
  <2>3. at = "idle"
    BY <1>1 DEF New
  <2> QED
    BY <2>1, <2>2, <2>3
<1>2. CASE Ask
  BY <1>2 DEF Ask
<1>3. CASE Refuse
  <2>1. Refusal.err
    BY DEF Refusal
  <2> QED
    BY <1>3, <2>1 DEF Refuse
<1>4. CASE PlatformMakes
  <2>1. out' \in Outcomes(req)'
    BY <1>4 DEF PlatformMakes, Outcomes
  <2> QED
    BY <1>4, <2>1 DEF PlatformMakes
<1>5. CASE PlatformAsserts
  <2>1. env.api \in Nat /\ SaltApi \in Nat /\ env.api \in ApiVersions
    BY ProviderAssumption
  <2>2. getAssertionOptions(req.call).version > optionsKnown(env.api) => env.api < SaltApi
    BY <2>1, optionsSent
  <2>3. \/ out' \in {Failed, NullStruct} \union
                       Assertions(req.call.key, getAssertionOptions(req.call))
        \/ out' = BadOptions /\ env.api < SaltApi
    BY <1>5, <2>2 DEF PlatformAsserts
  <2>4. getAssertionOptions(req.call)' = getAssertionOptions(req.call) /\ req' = req
        /\ req.call.kind = "Derive" /\ env' = env
    BY <1>5 DEF PlatformAsserts, getAssertionOptions
  <2>5. out' \in Outcomes(req)'
    BY <2>3, <2>4 DEF Outcomes, Assertions
  <2> QED
    BY <1>5, <2>5 DEF PlatformAsserts
<1>6. CASE EnrollReturns
  <2>1. /\ at = "answered" /\ at' = "returned" /\ UNCHANGED <<env, opened, req, out>>
        /\ req.call.kind = "Enroll" /\ ~refused(req) /\ req \in ProviderRequests
    BY <1>6 DEF EnrollReturns
  <2>2. out \in {Failed, NullStruct} \union Attestations(req.call.key)
    BY <2>1 DEF Outcomes
  <2>3. Outcomes(req)' = Outcomes(req)
    BY <2>1 DEF Outcomes, getAssertionOptions, Assertions
  <2>4. CASE out \in {Failed, NullStruct} \/ out.credentialID = NoCredential
    <3>1. ans' = Refusal /\ Refusal.err
      BY <1>6, <2>4 DEF EnrollReturns, Refusal
    <3> QED
      BY <2>1, <2>3, <3>1
  <2>5. CASE ~(out \in {Failed, NullStruct} \/ out.credentialID = NoCredential)
    <3>1. /\ ans' = [Refusal EXCEPT !.err = FALSE, !.cred = out.credentialID,
                                    !.resident = residentKey(out)]
          /\ material' = attestationMaterial(out)
      BY <1>6, <2>5 DEF EnrollReturns
    <3>2. out \in Attestations(req.call.key) /\ out.credentialID # NoCredential
      BY <2>2, <2>5
    <3> QED
      BY <2>1, <2>3, <3>1, <3>2
  <2> QED
    BY <2>4, <2>5
<1>7. CASE DeriveReturns
  <2>1. /\ at = "answered" /\ at' = "returned" /\ UNCHANGED <<env, opened, req, out>>
        /\ req.call.kind = "Derive"
    BY <1>7 DEF DeriveReturns
  <2>2. Outcomes(req)' = Outcomes(req)
    BY <2>1 DEF Outcomes, getAssertionOptions, Assertions
  <2> QED
    BY <2>1, <2>2
<1> QED
  BY <1>1, <1>2, <1>3, <1>4, <1>5, <1>6, <1>7 DEF ProviderStep

-----------------------------------------------------------------------------
(* The vaults and their pools *)

\* The core's own steps leave the provider where it is, or end its call.
LEMMA ProviderKept ==
    ASSUME ProviderInv, Take \/ UNCHANGED providerVars
    PROVE  ProviderInv'
<1>1. CASE Take
  BY <1>1 DEF ProviderInv, Take
<1>2. CASE UNCHANGED providerVars
  <2>1. Outcomes(req)' = Outcomes(req)
    BY <1>2 DEF Outcomes, getAssertionOptions, Assertions, providerVars
  <2> QED
    BY <1>2, <2>1 DEF ProviderInv, providerVars
<1> QED
  BY <1>1, <1>2

\* The part of EnrollInv about pools.
poolsInv ==
    /\ pool \in [VaultIDs \union {DefaultPool} ->
                  SUBSET (trustedAttestationRoots \union OtherRoots)]
    /\ meant \in [VaultIDs -> SUBSET (trustedAttestationRoots \union OtherRoots)]
    /\ roots \in [VaultIDs -> VaultIDs \union {NilRoots}]
    /\ pool[DefaultPool] = trustedAttestationRoots
    /\ \A v \in VaultIDs : /\ roots[v] \in {v, NilRoots}
                           /\ roots[v] = NilRoots => pool[v] = {}
                           /\ rootsFor(v) = meant[v]

\* A verdict stands as long as its vault's anchors and the answer do.
LEMMA verdictKept ==
    ASSUME EnrollInv, ProviderInv', poolsInv', UNCHANGED providerVars, verdict' = verdict,
           \A v \in VaultIDs : v = verdict.vault => rootsFor(v)' = rootsFor(v)
    PROVE  EnrollInv'
<1>1. UNCHANGED <<at, req, ans, material>>
  BY DEF providerVars
<1>2. ASSUME verdict # NoVerdict, NEW v \in VaultIDs,
             verdict = [vault |-> v, err |-> enrollError(v)]
      PROVE  verdict' = [vault |-> v, err |-> enrollError(v)']
  <2>1. verdict.vault = v
    BY <1>2
  <2>2. rootsFor(v)' = rootsFor(v)
    BY <2>1
  <2>3. enrollError(v)' = enrollError(v)
    BY <1>1, <2>2 DEF enrollError
  <2> QED
    BY <1>2, <2>3
<1> QED
  BY <1>1, <1>2 DEF EnrollInv, poolsInv

\* Whoever adds what to which pool of its own, each vault's anchors stay the
\* ones its caller chose.
LEMMA EnrollStep ==
    ASSUME EnrollInv, [Next]_vars
    PROVE  EnrollInv'
<1>0. ProviderInv /\ poolsInv
  BY DEF EnrollInv, poolsInv
<1>1. ASSUME UNCHANGED poolVars PROVE poolsInv'
  BY <1>0, <1>1 DEF poolsInv, poolVars, rootsFor
<1>2. CASE Serve
  <2>1. ProviderInv' /\ poolsInv'
    BY <1>0, <1>1, <1>2, ProviderStepInv DEF Serve
  <2>2. verdict' = verdict
    BY <1>2 DEF Serve
  <2>3. verdict = NoVerdict
    <3>1. SUFFICES ASSUME verdict # NoVerdict PROVE FALSE
      OBVIOUS
    <3>2. at = "returned" /\ opened
      BY <1>0, <3>1 DEF EnrollInv, ProviderInv
    <3> QED
      BY <1>2, <3>2 DEF Serve, ProviderStep, New, Ask, Refuse, PlatformMakes,
                        PlatformAsserts, EnrollReturns, DeriveReturns
  <2> QED
    BY <2>1, <2>2, <2>3 DEF EnrollInv, poolsInv
<1>3. CASE Done
  BY <1>0, <1>1, <1>3, ProviderKept DEF Done, EnrollInv, poolsInv
<1>4. ASSUME NEW v \in VaultIDs, Judge(v)
      PROVE  EnrollInv'
  <2>1. /\ ProviderInv' /\ poolsInv'
        /\ UNCHANGED <<at, req, ans, material, pool, roots>>
        /\ at = "returned" /\ req.call.kind = "Enroll"
    BY <1>0, <1>1, <1>4, ProviderKept DEF Judge, providerVars, poolVars
  <2>2. verdict' = [vault |-> v, err |-> enrollError(v)]
    BY <1>4 DEF Judge
  <2>3. enrollError(v)' = enrollError(v)
    BY <2>1 DEF enrollError, rootsFor
  <2> QED
    BY <2>1, <2>2, <2>3 DEF EnrollInv, poolsInv
<1>5. ASSUME NEW v \in VaultIDs, ChooseRoots(v)
      PROVE  EnrollInv'
  <2>1. /\ UNCHANGED providerVars /\ verdict' = verdict /\ roots[v] = NilRoots
        /\ v # verdict.vault
    BY <1>5 DEF ChooseRoots
  <2>2. pool[v] = {} /\ meant[v] = trustedAttestationRoots /\ v # DefaultPool
    BY <1>0, <2>1, HardwareAssumption DEF poolsInv, rootsFor
  <2>3. /\ roots' = [roots EXCEPT ![v] = v]
        /\ \/ pool' = [pool EXCEPT ![v] = trustedAttestationRoots] /\ meant' = meant
           \/ pool' = pool /\ meant' = [meant EXCEPT ![v] = {}]
    BY <1>0, <1>5 DEF ChooseRoots, BundledRoots, NewCertPool, poolsInv
  <2>4. poolsInv'
    BY <1>0, <2>2, <2>3, HardwareAssumption DEF poolsInv, rootsFor
  <2>5. \A w \in VaultIDs : w # v => rootsFor(w)' = rootsFor(w)
    BY <1>0, <2>2, <2>3, HardwareAssumption DEF poolsInv, rootsFor
  <2> QED
    BY <1>0, <2>1, <2>4, <2>5, ProviderKept, verdictKept
<1>6. ASSUME NEW v \in VaultIDs, NEW c \in OtherRoots, AddCert(v, c)
      PROVE  EnrollInv'
  <2>1. /\ UNCHANGED providerVars /\ verdict' = verdict /\ roots' = roots
        /\ roots[v] = v /\ v # verdict.vault /\ v # DefaultPool
    BY <1>0, <1>6, HardwareAssumption DEF AddCert, poolsInv
  <2>2. /\ pool' = [pool EXCEPT ![v] = @ \union {c}]
        /\ meant' = [meant EXCEPT ![v] = @ \union {c}]
    BY <1>6, <2>1 DEF AddCert
  <2>3. poolsInv'
    BY <1>0, <2>1, <2>2, HardwareAssumption DEF poolsInv, rootsFor
  <2>4. \A w \in VaultIDs : w # v => rootsFor(w)' = rootsFor(w)
    BY <1>0, <2>1, <2>2, HardwareAssumption DEF poolsInv, rootsFor
  <2> QED
    BY <1>0, <2>1, <2>3, <2>4, ProviderKept, verdictKept
<1>7. CASE UNCHANGED vars
  <2>1. UNCHANGED <<providerVars, poolVars, pool, roots, verdict>>
    BY <1>7 DEF vars, poolVars
  <2>2. ProviderInv' /\ poolsInv'
    BY <1>0, <1>1, <2>1, ProviderKept
  <2>3. \A v \in VaultIDs : rootsFor(v)' = rootsFor(v)
    BY <2>1 DEF rootsFor
  <2> QED
    BY <2>1, <2>2, <2>3, verdictKept
<1> QED
  BY <1>2, <1>3, <1>4, <1>5, <1>6, <1>7 DEF Next

\* EnrollInv holds throughout.
LEMMA EnrollInvariant == Spec => []EnrollInv
<1>1. Init => EnrollInv
  <2> SUFFICES ASSUME Init PROVE EnrollInv
    OBVIOUS
  <2>1. ProviderInv
    BY DEF Init, ProviderInit, ProviderInv
  <2>2. poolsInv
    BY HardwareAssumption DEF Init, poolsInv, rootsFor
  <2> QED
    BY <2>1, <2>2 DEF Init, EnrollInv, poolsInv
<1> QED
  BY <1>1, EnrollStep, PTL DEF Spec

-----------------------------------------------------------------------------
(* What enrollment guarantees *)

\* No dialog is ever raised for a test binary or under a coding agent, whatever
\* the markers are.
THEOREM NoPromptUnderAutomation == Spec => []AutomationNeverPrompts
<1>1. EnrollInv => AutomationNeverPrompts
  BY DEF EnrollInv, ProviderInv, AutomationNeverPrompts
<1> QED
  BY <1>1, EnrollInvariant, PTL

\* What stands behind a verdict that is not an error of the provider.
LEMMA judgedMaterial ==
    ASSUME EnrollInv, verdict # NoVerdict, ~ans.err
    PROVE  /\ verdict.vault \in VaultIDs /\ verdict.err = enrollError(verdict.vault)
           /\ rootsFor(verdict.vault) = meant[verdict.vault]
           /\ meant[verdict.vault] \subseteq trustedAttestationRoots \union OtherRoots
           /\ req.call.key \in Authenticators
           /\ out \in Attestations(req.call.key)
           /\ ans.cred # NoCredential /\ ans.resident = residentKey(out)
           /\ material = attestationMaterial(out)
<1>1. at = "returned" /\ req.call.kind = "Enroll"
  BY DEF EnrollInv
<1>2. PICK v \in VaultIDs : verdict = [vault |-> v, err |-> enrollError(v)]
  BY DEF EnrollInv
<1>3. verdict.vault = v /\ verdict.err = enrollError(v)
  BY <1>2
<1>4. req.call.key \in Authenticators
  <2>1. req.call \in Port!Requests
    BY <1>1, acceptedRequest DEF EnrollInv, ProviderInv
  <2> QED
    BY <2>1 DEF Port!Requests
<1>5. /\ out \in Attestations(req.call.key) /\ out.credentialID # NoCredential
      /\ ans = [Refusal EXCEPT !.err = FALSE, !.cred = out.credentialID,
                               !.resident = residentKey(out)]
      /\ material = attestationMaterial(out)
  BY <1>1 DEF EnrollInv, ProviderInv
<1>6. ans.cred = out.credentialID /\ ans.resident = residentKey(out)
  BY <1>5 DEF Refusal
<1>7. rootsFor(v) = meant[v] /\ meant[v] \subseteq trustedAttestationRoots \union OtherRoots
  BY DEF EnrollInv
<1> QED
  BY <1>3, <1>4, <1>5, <1>6, <1>7

\* Material that the check judged had the statement of the structure: the rest
\* has no certificates.
LEMMA materialFields ==
    ASSUME NEW o
    PROVE  LET m == attestationMaterial(o)
           IN /\ m.authData = o.authenticatorData
              /\ m.clientDataHash = sha256ClientData
              /\ m.format = packedFormat =>
                    /\ m.format = o.formatType /\ m.alg = o.algID /\ m.x5c = o.x5c
                    /\ m.sig = o.signature
<1> DEFINE m == attestationMaterial(o)
<1>1. CASE o.decodeType = attestationDecodeCommon
  BY <1>1 DEF attestationMaterial
<1>2. CASE o.decodeType # attestationDecodeCommon
  <2>1. m.authData = o.authenticatorData /\ m.clientDataHash = sha256ClientData
    BY <1>2 DEF attestationMaterial, NoMaterial
  <2>2. m.format # packedFormat
    BY <1>2 DEF attestationMaterial, NoMaterial, packedFormat
  <2> QED
    BY <2>1, <2>2
<1> QED
  BY <1>1, <1>2

\* A credential is accepted only from hardware that is certified by a vendor
\* whose root the vault's caller chose: for any certificates, any chains and
\* replayed signatures a key presents, and any additions to other pools.
THEOREM TrustedHardwareOnly == Spec => []OnlyTrustedHardware
<1>1. ASSUME EnrollInv PROVE OnlyTrustedHardware
  <2> SUFFICES ASSUME verdict.err = "nil"
               PROVE  Vendor[req.call.key] \in meant[verdict.vault]
    BY DEF OnlyTrustedHardware
  <2> DEFINE k == req.call.key
             leaf == material.x5c[1]
             anchors == meant[verdict.vault]
  <2>1. verdict # NoVerdict
    BY DEF NoVerdict
  <2>2. /\ ~ans.err
        /\ verifyGenuineHardware(material, rootsFor(verdict.vault)) = "nil"
    <3>1. \E v \in VaultIDs : verdict = [vault |-> v, err |-> enrollError(v)]
      BY <1>1, <2>1 DEF EnrollInv
    <3>2. enrollError(verdict.vault) = "nil"
      BY <3>1
    <3> QED
      BY <3>2 DEF enrollError
  <2>3. /\ k \in Authenticators /\ out \in Attestations(k)
        /\ anchors \subseteq trustedAttestationRoots \union OtherRoots
        /\ rootsFor(verdict.vault) = anchors /\ material = attestationMaterial(out)
    BY <1>1, <2>1, <2>2, judgedMaterial
  <2>4. /\ material.format = packedFormat /\ material.x5c # <<>>
        /\ ~ \E i \in DOMAIN material.x5c : material.x5c[i] = Unparseable
        /\ chainVerifies(leaf, anchors, intermediatePool(material.x5c))
        /\ signatureVerifies(leaf, material)
    BY <2>2, <2>3 DEF verifyGenuineHardware
  <2>5. /\ material.x5c = out.x5c /\ material.sig = out.signature
        /\ material.authData = out.authenticatorData
    BY <2>3, <2>4, materialFields
  <2>6. PICK s \in Statements[k] :
           /\ out.x5c = s.x5c /\ out.signature.by = s.signer
           /\ out.signature.over = IF s.fresh
                                   THEN <<out.authenticatorData, sha256ClientData>>
                                   ELSE <<>>
    BY <2>3, attestationFields
  <2>7. material.x5c \in Seq(Certs)
    <3>1. material.x5c \in Seq(Certs \union {Unparseable})
      BY <2>3, <2>5, <2>6, ProviderAssumption
    <3> QED
      BY <2>4, <3>1
  <2>8. leaf \in Certs /\ intermediatePool(material.x5c) \subseteq Certs
    <3>1. \A i \in 1..Len(material.x5c) : material.x5c[i] \in Certs
      BY <2>7
    <3>2. Len(material.x5c) \in Nat \ {0}
      BY <2>4, <2>7
    <3>3. \A i \in 2..Len(material.x5c) : material.x5c[i] \in Certs
      BY <3>1, <3>2
    <3> QED
      BY <3>1, <3>2, <3>3, CertAssumption DEF intermediatePool
  <2>9. s.fresh /\ s.signer = leaf
    <3>1. /\ out.signature.by = leaf
          /\ out.signature.over = <<material.authData, material.clientDataHash>>
      BY <2>4, <2>5 DEF signatureVerifies
    <3>2. out.signature.over # <<>>
      BY <3>1
    <3> QED
      BY <2>6, <3>1, <3>2
  <2>10. Vendor[k] \in issuersWithin(leaf, Certs)
    BY <2>3, <2>9, HardwareAssumption
  <2>11. Vendor[k] \in Vendors
    BY <2>3, AuthenticatorAssumption
  <2>12. /\ Issuer[Vendor[k]] = Vendor[k]
         /\ anchors \in SUBSET Certs /\ \A c \in anchors : Issuer[c] = c
    BY <2>3, <2>11, HardwareAssumption, CertAssumption
  <2> HIDE DEF leaf, anchors, k
  <2>13. Vendor[k] \in anchors
    BY <2>4, <2>8, <2>10, <2>12, chainLeadsToVendor
  <2> QED
    BY <2>13 DEF k, anchors
<1> QED
  BY <1>1, EnrollInvariant, PTL

\* A working key of a vendor that the vault's caller trusts is accepted, if it
\* presents what is not bundled of its chain.
THEOREM GenuineAccepted == Spec => []GenuineHardwareEnrolls
<1>1. ASSUME EnrollInv PROVE GenuineHardwareEnrolls
  <2> DEFINE k == req.call.key
             leaf == material.x5c[1]
             anchors == meant[verdict.vault]
  <2> SUFFICES ASSUME verdict # NoVerdict, ~ans.err, ~ans.resident, genuine(k),
                      Vendor[k] \in anchors
               PROVE  verdict.err = "nil"
    BY DEF GenuineHardwareEnrolls
  <2>1. /\ k \in Authenticators /\ out \in Attestations(k)
        /\ verdict.err = enrollError(verdict.vault) /\ ans.cred # NoCredential
        /\ rootsFor(verdict.vault) = anchors /\ material = attestationMaterial(out)
    BY <1>1, judgedMaterial
  <2>2. /\ material.format = packedFormat /\ material.alg = coseAlgES256
        /\ material.x5c # <<>>
        /\ Unparseable \notin {material.x5c[i] : i \in DOMAIN material.x5c}
        /\ leaf \in ECDSA
        /\ Vendor[k] \in issuersWithin(leaf, {material.x5c[i] : i \in DOMAIN material.x5c}
                                               \union attestationIntermediates
                                               \union {Vendor[k]})
        /\ material.sig.by = leaf
        /\ material.sig.over = <<material.authData, material.clientDataHash>>
        /\ CertAAGUID[leaf] \in {NoExtension, material.authData.aaguid}
    BY DEF genuine
  <2>3. material.x5c = out.x5c /\ material.authData = out.authenticatorData
        /\ material.sig = out.signature
    BY <2>1, <2>2, materialFields
  <2>4. PICK s \in Statements[k] : out.x5c = s.x5c /\ out.authenticatorData.aaguid = s.aaguid
    BY <2>1, attestationFields
  <2>5. material.x5c \in Seq(Certs \union {Unparseable}) /\ s.aaguid # Malformed
    BY <2>1, <2>3, <2>4, ProviderAssumption
  <2>6. material.x5c \in Seq(Certs)
    BY <2>2, <2>5
  <2>7. chainVerifies(leaf, anchors, intermediatePool(material.x5c))
    BY <2>2, <2>6, genuineVerifies
  <2>8. checkAAGUIDMatches(leaf, material.authData) = "nil"
    <3>1. leaf \in Certs
      BY <2>2, CertAssumption
    <3>2. CertAAGUID[leaf] # TooShort
      BY <3>1, CertAssumption
    <3> QED
      BY <2>2, <2>3, <2>4, <2>5, <3>2 DEF checkAAGUIDMatches
  <2>9. signatureVerifies(leaf, material)
    <3>1. out.signature = [by |-> out.signature.by, over |-> out.signature.over]
      BY <2>1, attestationFields
    <3> QED
      BY <2>2, <2>3, <3>1 DEF signatureVerifies
  <2>10. verifyGenuineHardware(material, anchors) = "nil"
    BY <2>2, <2>7, <2>8, <2>9 DEF verifyGenuineHardware
  <2> QED
    BY <2>1, <2>10 DEF enrollError
<1> QED
  BY <1>1, EnrollInvariant, PTL

\* A credential that the platform reports as resident is never accepted.
THEOREM PasskeySlotsKept == Spec => []NoPasskeySlotSpent
<1>1. ASSUME EnrollInv PROVE NoPasskeySlotSpent
  <2> SUFFICES ASSUME verdict.err = "nil" PROVE out.version < 3 \/ ~out.residentKey
    BY DEF NoPasskeySlotSpent
  <2>1. verdict # NoVerdict
    BY DEF NoVerdict
  <2>2. ~ans.err /\ ~ans.resident
    <3>1. \E v \in VaultIDs : verdict = [vault |-> v, err |-> enrollError(v)]
      BY <1>1, <2>1 DEF EnrollInv
    <3>2. enrollError(verdict.vault) = "nil"
      BY <3>1
    <3> QED
      BY <3>2 DEF enrollError
  <2>3. /\ req.call.key \in Authenticators /\ out \in Attestations(req.call.key)
        /\ ans.resident = residentKey(out)
    BY <1>1, <2>1, <2>2, judgedMaterial
  <2>4. out.version \in Nat
    BY <2>3, attestationFields
  <2>5. ~(out.version >= 3) \/ ~out.residentKey
    BY <2>2, <2>3, Zenon DEF residentKey
  <2>6. ~(out.version >= 3) => out.version < 3
    BY <2>4
  <2> QED
    BY <2>5, <2>6
<1> QED
  BY <1>1, EnrollInvariant, PTL

-----------------------------------------------------------------------------
(* What the provider guarantees, over a platform whose assertion structures    *)
(* have the field that is read from them                                       *)

\* On every platform whose options have a field for the salt, a key that answers
\* in full yields its output over the whole salt, for any salts and allow-lists:
\* the salt reaches it, and its answer comes back for the credential it is of.
THEOREM HealthyAnswersReturn ==
    ASSUME \A v \in AssertionVersions : v >= 3
    PROVE  Spec => []HealthyKeyDerives
<1>1. Init => HealthyKeyDerives
  BY DEF Init, ProviderInit, HealthyKeyDerives
<1>2. ASSUME EnrollInv, HealthyKeyDerives, [Next]_vars
      PROVE  HealthyKeyDerives'
  <2>1. CASE DeriveReturns
    BY <1>2, <2>1, deriveResult DEF EnrollInv
  <2>2. CASE New \/ Ask \/ PlatformMakes \/ PlatformAsserts \/ EnrollReturns
    <3>1. CASE New
      BY <1>2, <3>1 DEF EnrollInv, ProviderInv, New, HealthyKeyDerives, AnsweredInFull
    <3>2. CASE Ask \/ PlatformMakes \/ PlatformAsserts
      BY <3>2 DEF Ask, PlatformMakes, PlatformAsserts, HealthyKeyDerives
    <3>3. CASE EnrollReturns
      BY <3>3 DEF EnrollReturns, HealthyKeyDerives
    <3> QED
      BY <2>2, <3>1, <3>2, <3>3
  <2>3. CASE Refuse
    <3>1. refused(req)' /\ at' = "returned"
      BY <2>3 DEF Refuse, refused
    <3> QED
      BY <3>1 DEF HealthyKeyDerives
  <2>4. CASE Take
    BY <2>4 DEF Take, HealthyKeyDerives
  <2>5. CASE UNCHANGED providerVars
    BY <1>2, <2>5 DEF HealthyKeyDerives, AnsweredInFull, providerVars, refused
  <2> QED
    BY <1>2, <2>1, <2>2, <2>3, <2>4, <2>5
       DEF Next, Serve, ProviderStep, Done, Judge, ChooseRoots, AddCert, vars
<1>3. EnrollInv /\ HealthyKeyDerives /\ [Next]_vars => HealthyKeyDerives'
  BY <1>2
<1> QED
  BY <1>1, <1>3, EnrollInvariant, PTL DEF Spec

\* The answer to an Enroll request is a refusal or names a credential of the
\* key, or none.
LEMMA enrollResult ==
    ASSUME ProviderInv, EnrollReturns
    PROVE  ans' \in EnrollAnswers(req.call.key)
<1>1. /\ at = "answered" /\ req.call.kind = "Enroll" /\ ~refused(req)
      /\ req \in ProviderRequests
  BY DEF EnrollReturns, ProviderInv
<1>2. CASE out \in {Failed, NullStruct} \/ out.credentialID = NoCredential
  <2>1. ans' = Refusal
    BY <1>2 DEF EnrollReturns
  <2> QED
    BY <2>1 DEF EnrollAnswers
<1>3. CASE ~(out \in {Failed, NullStruct} \/ out.credentialID = NoCredential)
  <2> DEFINE k == req.call.key
             c == out.credentialID
             r == residentKey(out)
             D == {d \in CredIDs : Holder[d] = k} \union {NoCredential}
             no == FALSE
             bool == BOOLEAN
             record(d, x) ==
               [err |-> no, cred |-> d, resident |-> x, present |-> no, uv |-> no,
                secret |-> NoPRF]
             all == {record(d, x) : d \in D, x \in bool}
  <2>1. out \in Attestations(k)
    BY <1>1, <1>3 DEF ProviderInv, Outcomes
  <2>2. k \in Authenticators
    <3>1. req.call \in Port!Requests
      BY <1>1, acceptedRequest
    <3> QED
      BY <3>1 DEF Port!Requests
  <2>3. c \in D
    BY <2>1, <2>2, attestationFields
  <2>4. r \in bool
    BY Zenon DEF residentKey
  <2>5. ans' = [Refusal EXCEPT !.err = FALSE, !.cred = c, !.resident = r]
    BY <1>3 DEF EnrollReturns
  <2>6. ans' = record(c, r)
    <3> HIDE DEF r, c
    <3> QED
      BY <2>5 DEF Refusal
  <2>7. EnrollAnswers(k) = {Refusal} \union all
    BY DEF EnrollAnswers
  <2>8. ans' \in all
    <3> HIDE DEF D, bool, no, c, r
    <3> QED
      BY <2>3, <2>4, <2>6
  <2> QED
    BY <2>7, <2>8
<1> QED
  BY <1>2, <1>3

\* The provider is an authenticator: each of its steps is one of the port's, and
\* a request is answered only with what the port allows.
THEOREM ProviderImplementsPort ==
    ASSUME \A v \in AssertionVersions : v >= 3
    PROVE  Spec => ImplementsPort
<1> DEFINE request == IF at \in {"asked", "answered"} THEN req.call ELSE NoRequest
<1>1. Init => Port!Init
  BY DEF Init, ProviderInit, Port!Init
<1>2. ASSUME EnrollInv, [Next]_vars
      PROVE  [Port!Next]_<<request, ans>>
  <2>0. ProviderInv
    BY <1>2 DEF EnrollInv
  <2>1. CASE Ask
    <3>1. req'.call \in Port!Requests
      BY <2>1, acceptedRequest DEF Ask
    <3>2. request = NoRequest /\ request' = req'.call /\ ans' = NoAnswer
      BY <2>1 DEF Ask
    <3> QED
      BY <3>1, <3>2 DEF Port!Next, Port!Ask
  <2>2. ASSUME Refuse \/ EnrollReturns \/ DeriveReturns
        PROVE  [Port!Next]_<<request, ans>>
    <3>1. at \in {"asked", "answered"} /\ at' = "returned" /\ req \in ProviderRequests
      BY <2>0, <2>2 DEF ProviderInv, Refuse, EnrollReturns, DeriveReturns
    <3>2. request = req.call /\ request # NoRequest /\ request' = NoRequest
          /\ req.call.kind \in {"Enroll", "Derive"}
      BY <3>1, acceptedRequest
    <3>3. ans' \in Port!AnswersTo(req.call)
      <4>1. CASE req.call.kind = "Enroll"
        <5>1. ans' \in EnrollAnswers(req.call.key)
          BY <2>0, <2>2, <4>1, enrollResult
             DEF Refuse, DeriveReturns, EnrollAnswers
        <5> QED
          BY <4>1, <5>1, portAnswers DEF Port!AnswersTo
      <4>2. CASE req.call.kind = "Derive"
        <5>1. \/ ans' = Refusal
              \/ \E uv \in BOOLEAN :
                    ans' \in DeriveAnswers(req.call.key, req.call.ids, req.call.salt,
                                           Positions, uv)
          BY <2>0, <2>2, <4>2, deriveResult DEF Refuse, EnrollReturns
        <5>2. \E uv \in BOOLEAN :
                 ans' \in DeriveAnswers(req.call.key, req.call.ids, req.call.salt,
                                        Positions, uv)
          <6>1. Refusal \in DeriveAnswers(req.call.key, req.call.ids, req.call.salt,
                                          Positions, TRUE)
            BY refusalAnswer
          <6> QED
            BY <5>1, <6>1, Zenon
        <5>3. \E uv \in BOOLEAN :
                 ans' \in Port!DeriveAnswers(req.call.key, req.call.ids, req.call.salt,
                                             Port!Positions, uv)
          BY <5>2, portAnswers
        <5> QED
          BY <4>2, <5>3 DEF Port!AnswersTo
      <4> QED
        BY <3>2, <4>1, <4>2
    <3> QED
      BY <3>2, <3>3 DEF Port!Next, Port!Reply
  <2>3. CASE New \/ PlatformMakes \/ PlatformAsserts
    <3>1. request' = request /\ ans' = ans
      BY <2>3 DEF New, PlatformMakes, PlatformAsserts
    <3> QED
      BY <3>1
  <2>4. CASE Take
    <3>1. request = NoRequest /\ request' = NoRequest /\ ans' = ans
      BY <2>4 DEF Take
    <3> QED
      BY <3>1
  <2>5. CASE UNCHANGED providerVars
    <3>1. request' = request /\ ans' = ans
      BY <2>5 DEF providerVars
    <3> QED
      BY <3>1
  <2> QED
    BY <1>2, <2>1, <2>2, <2>3, <2>4, <2>5
       DEF Next, Serve, ProviderStep, Done, Judge, ChooseRoots, AddCert, vars
<1>3. EnrollInv /\ [Next]_vars => [Port!Next]_<<request, ans>>
  BY <1>2
<1> QED
  BY <1>1, <1>3, EnrollInvariant, PTL DEF Spec, ImplementsPort, Port!Spec

=============================================================================
