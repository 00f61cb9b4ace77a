--------------------------- MODULE Authenticator ---------------------------
(***************************************************************************)
(* The Authenticator port of authenticator.go: the security keys an        *)
(* operator may present and every answer the port's contract lets one give *)
(* to Enroll and to Derive.  The keys themselves are not code of this      *)
(* repository; what is modelled is what the core relies on and guards      *)
(* against:                                                                *)
(*   - any request may fail (cancelled, timed out, key unplugged, no       *)
(*     credential of the allow-list on this key);                          *)
(*   - Enroll may store the credential on the key, return no credential    *)
(*     ID, or return an ID it returned before;                             *)
(*   - Derive may answer without a touch or without an hmac-secret output; *)
(*   - the reported user verification is what the key did, whatever was    *)
(*     requested.                                                          *)
(***************************************************************************)
EXTENDS Entropy

CONSTANTS
    Authenticators,     \* the security keys
    CredIDs,            \* the credential IDs they can return
    Holder,             \* the security key that holds each credential
    Vendor,             \* the vendor root each key's attestation chains to
    Vendors,
    NoCredential        \* an empty credential ID

ASSUME AuthenticatorAssumption ==
    /\ Holder \in [CredIDs -> Authenticators]
    /\ Vendor \in [Authenticators -> Vendors]
    /\ NoCredential \notin CredIDs

\* The hmac-secret outputs.
PRFs == [cred : CredIDs, uv : BOOLEAN,
         seen : UNION {[reads -> Byte] : reads \in SUBSET Positions}]

ASSUME NoPRFAssumption == NoPRF \notin PRFs

\* EnrollResult and DeriveResult with the error each comes with.  A request
\* uses the fields of its own result.
Answers ==
    [err : BOOLEAN, cred : CredIDs \union {NoCredential}, resident : BOOLEAN,
     present : BOOLEAN, uv : BOOLEAN, secret : PRFs \union {NoPRF}]

Refusal ==
    [err |-> TRUE, cred |-> NoCredential, resident |-> FALSE,
     present |-> FALSE, uv |-> FALSE, secret |-> NoPRF]

\* The answers of key k to an Enroll request.
EnrollAnswers(k) ==
    {Refusal} \union
    {[err |-> FALSE, cred |-> c, resident |-> r,
      present |-> FALSE, uv |-> FALSE, secret |-> NoPRF] :
        c \in {d \in CredIDs : Holder[d] = k} \union {NoCredential},
        r \in BOOLEAN}

\* DeriveRequest.Validate, which every provider calls before it prompts.
Validate(ids, salt) ==
    IF ids = {} \/ NoCredential \in ids THEN "ErrNoCredentialID"
    ELSE IF DOMAIN salt # Positions THEN "ErrSaltLength"
    ELSE "nil"

\* The answers of key k, which verifies the operator iff uv, to a Derive
\* request over salt with the allow-list ids.  The key answers only for a
\* credential it holds.
DeriveAnswers(k, ids, salt, reads, uv) ==
    {Refusal} \union
    {[err |-> FALSE, cred |-> c, resident |-> FALSE,
      present |-> p, uv |-> uv,
      secret |-> IF x THEN hmacSecret(c, uv, salt, reads) ELSE NoPRF] :
        c \in {d \in ids : Validate(ids, salt) = "nil" /\ Holder[d] = k},
        p \in BOOLEAN, x \in BOOLEAN}

\* Whether a key that has a PIN iff hasPIN may be left with one by a request.
\* Asked to require verification, the platform may walk the operator through
\* creating a PIN.
PINAfter(hasPIN, uvRequired) ==
    {hasPIN} \union (IF uvRequired THEN {TRUE} ELSE {})

=============================================================================
