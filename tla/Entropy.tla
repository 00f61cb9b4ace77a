------------------------------ MODULE Entropy ------------------------------
(***************************************************************************)
(* The salt-dependence gate of entropy.go, on salts as sequences of bytes. *)
(*                                                                         *)
(* A derivation path (the security key and the marshaling between it and   *)
(* the library) is described by the set of salt positions it reads.  The   *)
(* healthy path reads them all; a path with a too-short length field reads *)
(* 1..n.  hmac-secret is an ideal PRF: two outputs are equal exactly when  *)
(* the credential, the per-credential secret selected by user verification *)
(* and the salt bytes that were read are equal.                            *)
(***************************************************************************)
EXTENDS Integers

CONSTANTS
    SaltLen,    \* bytes in a salt (32 in the code)
    MaxByte,    \* the largest byte (255 in the code)
    NoPRF       \* an empty hmac-secret output

\* A byte is w bits, so 2^w - 1, the mask of the probe, is odd.
ASSUME SaltAssumption ==
    /\ SaltLen \in Nat \ {0}
    /\ MaxByte \in Nat
    /\ MaxByte % 2 = 1

Byte == 0..MaxByte
Positions == 1..SaltLen
Salt == [Positions -> Byte]

\* What a path that reads the positions in reads sees of salt.
Seen(salt, reads) == [i \in reads |-> salt[i]]

\* The hmac-secret output of a credential.  Whether the operator was verified
\* selects one of the credential's two secrets.
hmacSecret(cred, uv, salt, reads) ==
    [cred |-> cred, uv |-> uv, seen |-> Seen(salt, reads)]

\* The probe salt: the last byte xor 0xFF.
probe(salt) == [salt EXCEPT ![SaltLen] = MaxByte - @]

\* Mutant: the probe's presence is assumed.
gateUntouched(real, observedUV, got) ==
    IF real = NoPRF THEN "ErrNoPRF"
    ELSE IF got.err THEN "ErrProvider"
    ELSE IF got.secret = NoPRF THEN "ErrNoPRF"
    ELSE IF got.uv # observedUV THEN "ErrUserVerificationMismatch"
    ELSE IF got.secret = real THEN "ErrDerivationIgnoresSalt"
    ELSE "nil"

\* What the gate returns, given the output real already derived over the salt
\* under observedUV and the authenticator's answer got to the probe.
verifyDerivationDependsOnSalt(real, observedUV, got) ==
    IF real = NoPRF THEN "ErrNoPRF"
    ELSE IF got.err THEN "ErrProvider"
    ELSE IF ~got.present THEN "ErrNotPresent"
    ELSE IF got.secret = NoPRF THEN "ErrNoPRF"
    ELSE IF got.uv # observedUV THEN "ErrUserVerificationMismatch"
    ELSE IF got.secret = real THEN "ErrDerivationIgnoresSalt"
    ELSE "nil"

=============================================================================
