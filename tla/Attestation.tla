---------------------------- MODULE Attestation ----------------------------
(***************************************************************************)
(* verifyGenuineHardware of attestation.go: whether the material that came *)
(* with a new credential proves that it lives on hardware of a trusted     *)
(* vendor.                                                                 *)
(*                                                                         *)
(* A certificate is an identity with its issuer, the type of its key and   *)
(* its AAGUID extension.  A signature names the certificate whose private  *)
(* key made it and the bytes it covers.  Names, dates and formatting of    *)
(* certificates are left out.                                              *)
(***************************************************************************)
EXTENDS Integers, Sequences, FiniteSets

CONSTANTS
    Certs,                  \* the certificates in the world
    Issuer,                 \* the certificate whose key signed each one
    ECDSA,                  \* the certificates with an ECDSA key
    CertAAGUID,             \* each certificate's AAGUID extension
    NoExtension, Malformed, \* ... if it has none, or one that is not an OCTET STRING
    TooShort,               \* authenticator data that ends before the AAGUID
    Unparseable,            \* bytes that are no certificate
    trustedAttestationRoots,    \* roots/yubico_fido_roots.pem
    attestationIntermediates    \* roots/yubico_fido_intermediates.pem

ASSUME CertAssumption ==
    /\ Issuer \in [Certs -> Certs]
    /\ trustedAttestationRoots \union attestationIntermediates \union ECDSA \subseteq Certs
    /\ DOMAIN CertAAGUID = Certs
    /\ \A c \in Certs : CertAAGUID[c] # TooShort
    /\ Unparseable \notin Certs

packedFormat == "packed"
coseAlgES256 == -7

\* Everything that leaf reaches through issuers in pool: the least set that has
\* leaf and, with a certificate, its issuer if that is in pool.
issuersWithin(leaf, pool) ==
    {c \in pool \union {leaf} :
        \A S \in SUBSET (pool \union {leaf}) :
           /\ leaf \in S
           /\ \A d \in S : Issuer[d] \in pool => Issuer[d] \in S
           => c \in S}

\* Mutant: the intermediates are trusted too.
chainVerifiesAnywhere(leaf, roots, intermediates) ==
    \E c \in issuersWithin(leaf, intermediates) :
       c \in roots \/ Issuer[c] \in roots \union intermediates

\* leaf.Verify: a chain of intermediates leads from leaf to a root.
chainVerifies(leaf, roots, intermediates) ==
    \E c \in issuersWithin(leaf, intermediates) : c \in roots \/ Issuer[c] \in roots

\* Mutant: only what the key presented.
presentedOnly(x5c) == {x5c[i] : i \in 2..Len(x5c)}

\* The bundled intermediates and whatever the x5c carried after the leaf.
intermediatePool(x5c) == attestationIntermediates \union {x5c[i] : i \in 2..Len(x5c)}

checkAAGUIDMatches(leaf, authData) ==
    IF CertAAGUID[leaf] = NoExtension THEN "nil"
    ELSE IF CertAAGUID[leaf] = Malformed \/ authData.aaguid = TooShort
            \/ CertAAGUID[leaf] # authData.aaguid
         THEN "ErrUntrustedAuthenticator"
    ELSE "nil"

\* Whether sig is the signature of leaf's key over authData || clientDataHash.
signatureVerifies(leaf, r) ==
    r.sig = [by |-> leaf, over |-> <<r.authData, r.clientDataHash>>]

\* The verdict on the enrollment material r, given the trust anchors roots.
verifyGenuineHardware(r, roots) ==
    IF r.format # packedFormat THEN "ErrUnsupportedAttestationFormat"
    ELSE IF r.x5c = <<>> THEN "ErrNoAttestation"
    ELSE IF r.alg # coseAlgES256 THEN "ErrAttestationSignature"
    ELSE IF \E i \in DOMAIN r.x5c : r.x5c[i] = Unparseable THEN "ErrParsing"
    ELSE IF ~chainVerifies(r.x5c[1], roots, intermediatePool(r.x5c))
         THEN "ErrUntrustedAuthenticator"
    ELSE IF r.x5c[1] \notin ECDSA THEN "ErrAttestationSignature"
    ELSE IF ~signatureVerifies(r.x5c[1], r) THEN "ErrAttestationSignature"
    ELSE checkAAGUIDMatches(r.x5c[1], r.authData)

=============================================================================
