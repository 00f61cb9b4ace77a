------------------------------ MODULE Provider ------------------------------
(***************************************************************************)
(* The FIDO provider (fido/) over webauthn.dll (fido/internal/winwebauthn).*)
(*                                                                         *)
(* A request runs in two steps with the platform's modal dialog between    *)
(* them: everything up to the system call, and everything after it (the    *)
(* copy out of DLL memory, the free, and the mapping to the port's types). *)
(* What webauthn.dll does in between is external: it may fail, return no   *)
(* structure, or return one of a version of its own with fields missing.   *)
(*                                                                         *)
(* Handles, names and the timeout go to the platform as they are and are   *)
(* left out, but for a name that UTF16PtrFromString refuses.               *)
(***************************************************************************)
EXTENDS Authenticator, Attestation

CONSTANTS
    agentEnvMarkers,        \* the variables that coding agents set
    ApiVersions,            \* versions of webauthn.dll
    SaltApi,                \* the first whose options have a field for the salt
    AttestationVersions,    \* versions of the structures it may return
    AssertionVersions,
    Statements,             \* the attestation statements each key can make
    NoRequest, NoAnswer,
    Failed,                 \* a non-zero HRESULT
    BadOptions,             \* ... because the options' version is unknown
    NullStruct,             \* success without a structure
    TooShortData            \* authenticator data that ends before the flags

VARIABLES
    env,        \* what the process was started in
    opened,     \* New returned a windowsAuthenticator
    at,         \* where the call in flight is: idle, asked,
                \* answered (by the platform), returned
    req,        \* its request
    out,        \* what webauthn.dll left in *out
    ans,        \* the answer in the port's terms
    material    \* the attestation fields of its EnrollResult

providerVars == <<env, opened, at, req, out, ans, material>>

\* The statements that a key may make, and the versions, are of these kinds; a
\* credential ID has a bounded length.
ASSUME ProviderAssumption ==
    /\ SaltApi \in Nat
    /\ ApiVersions \union AttestationVersions \union AssertionVersions \subseteq Nat
    /\ \A k \in Authenticators : \A s \in Statements[k] :
          /\ s.x5c \in Seq(Certs \union {Unparseable})
          /\ s.signer \in Certs
          /\ s.fresh \in BOOLEAN
          /\ s.aaguid # Malformed
    /\ IsFiniteSet(CredIDs)

\* The GetAssertion structures.  by and prf are not in them: the credential that
\* the key answered for, and whether that key had an output to give.
AssertionStructs ==
    [version : AssertionVersions, credential : CredIDs \union {NoCredential},
     authenticatorData : [present : BOOLEAN, uv : BOOLEAN] \union {TooShortData},
     hmacSecret : PRFs \union {NoPRF}, by : CredIDs, prf : BOOLEAN]

\* The port, as its caller sees it.
Port == INSTANCE AuthenticatorPort WITH
    request <- IF at \in {"asked", "answered"} THEN req.call ELSE NoRequest,
    answer <- ans

\* What a system call leaves that is no structure.
ASSUME OutcomeAssumption ==
    /\ BadOptions \notin {Failed, NullStruct}
    /\ BadOptions \notin AssertionStructs
    /\ NoRequest \notin Port!Requests

\* A request for the key that the operator will present.  nul: one of its names
\* contains NUL.
ProviderRequests == {[call |-> r, nul |-> n] : r \in Port!Requests, n \in BOOLEAN}

NoMaterial ==
    [format |-> "", alg |-> 0, x5c |-> <<>>, sig |-> "none",
     authData |-> "none", clientDataHash |-> "none"]

ProviderInit ==
    /\ env \in [underTest : BOOLEAN, markers : SUBSET agentEnvMarkers,
                windows : BOOLEAN, api : ApiVersions]
    /\ opened = FALSE
    /\ at = "idle"
    /\ req = NoRequest
    /\ out = NullStruct
    /\ ans = NoAnswer
    /\ material = NoMaterial

----------------------------------------------------------------------------
(* Opening the provider. *)

\* Mutant: one agent sets them all.
RefuseUnderAgentAll(e) == agentEnvMarkers \subseteq e.markers

RefuseUnderAgent(e) == \E name \in agentEnvMarkers : name \in e.markers

RefuseAutomatedContext(e) ==
    IF e.underTest THEN "ErrUnderTest"
    ELSE IF RefuseUnderAgent(e) THEN "ErrUnderAgent"
    ELSE "nil"

newAuthenticator(e) == IF e.windows THEN "nil" ELSE "ErrUnsupportedPlatform"

New ==
    /\ ~opened
    /\ opened' = (RefuseAutomatedContext(env) = "nil" /\ newAuthenticator(env) = "nil")
    /\ UNCHANGED <<env, at, req, out, ans, material>>

----------------------------------------------------------------------------
(* A request, up to the system call. *)

\* What stops a request before the platform sees it.
refused(r) ==
    \/ r.nul
    \/ r.call.kind = "Derive" /\ Validate(r.call.ids, r.call.salt) # "nil"

Ask ==
    /\ opened /\ at = "idle"
    /\ req' \in ProviderRequests
    /\ at' = "asked"
    /\ ans' = NoAnswer
    /\ UNCHANGED <<env, opened, out, material>>

Refuse ==
    /\ at = "asked" /\ refused(req)
    /\ at' = "returned"
    /\ ans' = Refusal
    /\ UNCHANGED <<env, opened, req, out, material>>

\* Mutant: without hints, a version that ends before the salt.
optsVersionBeforeSalt(api) == IF api >= 7 THEN 7 ELSE 5

\* Version 6 carries the salt, version 7 the hints too.
optsVersion(api) == IF api >= 7 THEN 7 ELSE 6

\* Mutant: the length of the salt is counted from 0.
hmacSecretSaltShort(salt) == [firstLen |-> Len(salt) - 1, first |-> salt]

hmacSecretSalt(salt) == [firstLen |-> Len(salt), first |-> salt]

getAssertionOptions(r) ==
    [version |-> optsVersion(env.api), allowCredentialList |-> r.ids,
     salt |-> hmacSecretSalt(r.salt)]

----------------------------------------------------------------------------
(* webauthn.dll, the security key and the operator. *)

attestationDecodeNone == 0
attestationDecodeCommon == 1

\* The hash of the client data the platform was given.
sha256ClientData == "sha256({})"

\* The credentialAttestation structures for a credential that key k created.
\* A signature that is not fresh was made for some other credential.
Attestations(k) ==
    {[version |-> v, credentialID |-> c, residentKey |-> rk, decodeType |-> d,
      authenticatorData |-> [cred |-> c, aaguid |-> s.aaguid],
      formatType |-> s.format, algID |-> s.alg, x5c |-> s.x5c,
      signature |->
        [by |-> s.signer,
         over |-> IF s.fresh THEN <<[cred |-> c, aaguid |-> s.aaguid], sha256ClientData>>
                  ELSE <<>>]] :
        v \in AttestationVersions,
        c \in {e \in CredIDs : Holder[e] = k} \union {NoCredential},
        rk \in BOOLEAN, d \in {attestationDecodeNone, attestationDecodeCommon},
        s \in Statements[k]}

\* The last version of the options that a webauthn.dll knows: 7 has the hints,
\* 6 the salt.
optionsKnown(api) == IF api >= 7 THEN 7 ELSE IF api >= SaltApi THEN 6 ELSE 5

\* The assertion structures for key k, given the options.  The platform reads
\* the fields that the options declare and it knows; the key answers for a
\* listed credential that it holds, from the bytes the length covers.
Assertions(k, opts) ==
    {[version |-> v, credential |-> IF told THEN c ELSE NoCredential,
      authenticatorData |-> a, by |-> c, prf |-> prf,
      hmacSecret |->
        IF prf /\ opts.version >= 6 /\ optionsKnown(env.api) >= 6
        THEN hmacSecret(c, a # TooShortData /\ a.uv, opts.salt.first,
                        1..opts.salt.firstLen)
        ELSE NoPRF] :
        v \in AssertionVersions,
        c \in {d \in opts.allowCredentialList : Holder[d] = k},
        told \in BOOLEAN, prf \in BOOLEAN,
        a \in [present : BOOLEAN, uv : BOOLEAN] \union {TooShortData}}

PlatformMakes ==
    /\ at = "asked" /\ ~refused(req) /\ req.call.kind = "Enroll"
    /\ out' \in {Failed, NullStruct} \union Attestations(req.call.key)
    /\ at' = "answered"
    /\ UNCHANGED <<env, opened, req, ans, material>>

PlatformAsserts ==
    /\ at = "asked" /\ ~refused(req) /\ req.call.kind = "Derive"
    /\ LET opts == getAssertionOptions(req.call)
       IN \/ out' \in {Failed, NullStruct} \union Assertions(req.call.key, opts)
          \/ opts.version > optionsKnown(env.api) /\ out' = BadOptions
    /\ at' = "answered"
    /\ UNCHANGED <<env, opened, req, ans, material>>

----------------------------------------------------------------------------
(* After the system call. *)

\* Mutant: the flag is never read.
residentKeyUnread(o) == FALSE

\* bResidentKey is in the structure from version 3.
residentKey(o) == o.version >= 3 /\ o.residentKey

attestationMaterial(o) ==
    IF o.decodeType = attestationDecodeCommon
    THEN [format |-> o.formatType, alg |-> o.algID, x5c |-> o.x5c, sig |-> o.signature,
          authData |-> o.authenticatorData, clientDataHash |-> sha256ClientData]
    ELSE [NoMaterial EXCEPT !.authData = o.authenticatorData,
                            !.clientDataHash = sha256ClientData]

\* MakeCredential from the HRESULT on, and the rest of Enroll.
EnrollReturns ==
    /\ at = "answered" /\ req.call.kind = "Enroll"
    /\ IF out \in {Failed, NullStruct} \/ out.credentialID = NoCredential
       THEN ans' = Refusal /\ UNCHANGED material
       ELSE /\ ans' = [Refusal EXCEPT !.err = FALSE, !.cred = out.credentialID,
                                      !.resident = residentKey(out)]
            /\ material' = attestationMaterial(out)
    /\ at' = "returned"
    /\ UNCHANGED <<env, opened, req, out>>

\* hmacSecret is in the structure from version 3 and is read whatever the
\* version is: before that, what is read is whatever lies behind it.
HMACSecrets(o) == IF o.version >= 3 THEN {o.hmacSecret} ELSE PRFs \union {NoPRF}

\* Mutant: the first of the list is taken for the one that answered.
answeringCredentialGuessed(o, ids) ==
    IF o.credential = NoCredential THEN CHOOSE c \in ids : TRUE ELSE o.credential

\* The credential that answered, NoCredential if it cannot be told.
answeringCredential(o, ids) ==
    IF o.credential = NoCredential /\ Cardinality(ids) = 1
    THEN CHOOSE c \in ids : TRUE
    ELSE o.credential

\* GetAssertion from the HRESULT on, and the rest of Derive.
DeriveReturns ==
    /\ at = "answered" /\ req.call.kind = "Derive"
    /\ IF out \in {Failed, BadOptions, NullStruct}
       THEN ans' = Refusal
       ELSE \E secret \in HMACSecrets(out) :
               LET cred == answeringCredential(out, req.call.ids)
               IN ans' = IF \/ secret = NoPRF
                            \/ out.authenticatorData = TooShortData
                            \/ cred = NoCredential
                         THEN Refusal
                         ELSE [err |-> FALSE, cred |-> cred, resident |-> FALSE,
                               present |-> out.authenticatorData.present,
                               uv |-> out.authenticatorData.uv, secret |-> secret]
    /\ at' = "returned"
    /\ UNCHANGED <<env, opened, req, out, material>>

\* The caller has the answer, and the call's frame is gone.
Take ==
    /\ at = "returned"
    /\ at' = "idle"
    /\ req' = NoRequest
    /\ out' = NullStruct
    /\ material' = NoMaterial
    /\ UNCHANGED <<env, opened, ans>>

ProviderStep ==
    New \/ Ask \/ Refuse \/ PlatformMakes \/ PlatformAsserts
        \/ EnrollReturns \/ DeriveReturns

----------------------------------------------------------------------------
(* Properties. *)

\* What webauthn.dll may leave for the request r.
Outcomes(r) ==
    {Failed, NullStruct} \union
    (IF r.call.kind = "Enroll" THEN Attestations(r.call.key)
     ELSE Assertions(r.call.key, getAssertionOptions(r.call))
          \union {o \in {BadOptions} : env.api < SaltApi})

\* The provider implements the port's contract: whatever the platform returns,
\* with assertion structures that have the field hmacSecret (version 3 on), a
\* request is answered with an error or with the output of a listed credential
\* that the presented key holds, over the whole salt, under the verification
\* that is reported with it (webauthn_windows.go Enroll, Derive).
ImplementsPort == Port!Spec

\* No dialog is raised for a test binary or from a coding agent's shell: the
\* only door is New, and it stays shut (fido.go New, refuse.go).
AutomationNeverPrompts ==
    at \in {"asked", "answered"} => ~env.underTest /\ env.markers = {}

\* The key answered r in full: with an output, with authenticator data that says
\* what it did, for a credential that is named or the only one it can be.
AnsweredInFull(o, r) ==
    /\ o.prf
    /\ o.authenticatorData # TooShortData
    /\ o.credential # NoCredential \/ Cardinality(r.ids) = 1

\* On a platform whose options have a field for the salt, with hints or without
\* them, a valid request whose key answers in full yields that key's output for
\* the credential that answered: the options are of no version the platform
\* does not know and of none that ends before the salt, and the answer's parts
\* come back together (syscall_windows.go GetAssertion).
HealthyKeyDerives ==
    at = "returned" /\ req.call.kind = "Derive" /\ ~refused(req) /\ env.api >= SaltApi =>
    /\ out # BadOptions
    /\ out \notin {Failed, NullStruct} /\ AnsweredInFull(out, req.call) =>
          /\ ans.cred = out.by
          /\ ans.secret = hmacSecret(out.by, out.authenticatorData.uv,
                                    req.call.salt, Positions)

\* What the properties rest on: only an opened provider is asked, what is in
\* hand came back for the request in hand, and an Enroll result says what the
\* structure it was copied from says.
ProviderInv ==
    /\ env.underTest \in BOOLEAN /\ env.markers \subseteq agentEnvMarkers
    /\ env.api \in ApiVersions
    /\ opened => ~env.underTest /\ env.markers = {}
    /\ at \in {"idle", "asked", "answered", "returned"}
    /\ at # "idle" => opened /\ req \in ProviderRequests
    /\ at = "answered" => ~refused(req)
    /\ at \in {"answered", "returned"} /\ ~refused(req) => out \in Outcomes(req)
    /\ at = "returned" /\ req.call.kind = "Enroll" /\ ~ans.err =>
          /\ out \in Attestations(req.call.key) /\ out.credentialID # NoCredential
          /\ ans = [Refusal EXCEPT !.err = FALSE, !.cred = out.credentialID,
                                   !.resident = residentKey(out)]
          /\ material = attestationMaterial(out)

=============================================================================
