------------------------- MODULE AuthenticatorPort -------------------------
(***************************************************************************)
(* The contract of authenticator.go as a specification: one request at a   *)
(* time, and to each an answer that Vault is prepared for.  A provider     *)
(* implements it if every request it takes is answered from the sets that  *)
(* Vault's actions draw from.                                              *)
(***************************************************************************)
EXTENDS Authenticator

CONSTANT NoRequest, NoAnswer

VARIABLES request, answer

\* A salt, or what is left of one.
Salts == UNION {[1..n -> Byte] : n \in 0..SaltLen}

\* What may be asked of the security key that the operator presents.
Requests ==
    [kind : {"Enroll"}, key : Authenticators] \union
    [kind : {"Derive"}, key : Authenticators,
     ids : SUBSET (CredIDs \union {NoCredential}), salt : Salts]

Init == request = NoRequest /\ answer = NoAnswer

Ask ==
    /\ request = NoRequest
    /\ request' \in Requests
    /\ answer' = NoAnswer

\* The path to the key delivers the whole salt, and the reported verification
\* is the one that selected the secret.
AnswersTo(r) ==
    IF r.kind = "Enroll" THEN EnrollAnswers(r.key)
    ELSE UNION {DeriveAnswers(r.key, r.ids, r.salt, Positions, uv) : uv \in BOOLEAN}

Reply ==
    /\ request # NoRequest
    /\ answer' \in AnswersTo(request)
    /\ request' = NoRequest

Next == Ask \/ Reply

Spec == Init /\ [][Next]_<<request, answer>>

=============================================================================
