----------------------------- MODULE Enrollment -----------------------------
(***************************************************************************)
(* Enrollment across the three parts that take part in it: the provider    *)
(* hands the platform's attestation material over unjudged, the core       *)
(* judges it, and the vaults of the process choose whom to trust.          *)
(*                                                                         *)
(* A pool of trust anchors is held by reference, as *x509.CertPool is: the *)
(* package's own pool, and one that each vault's caller may make.          *)
(***************************************************************************)
EXTENDS Provider

CONSTANTS
    VaultIDs,           \* the vaults that one process has open
    NilRoots,           \* Options.Roots = nil
    DefaultPool,        \* the reference attestationRoots
    OtherRoots          \* roots a caller may add to a pool of its own

VARIABLES
    pool,       \* the certificates in each pool
    roots,      \* each vault's Options.Roots
    meant,      \* the anchors that each vault's caller chose
    verdict     \* what enrollAndDerive made of the EnrollResult in hand

poolVars == <<pool, roots, meant>>
vars == <<providerVars, poolVars, verdict>>

NoVerdict == [vault |-> NilRoots, err |-> "none"]

\* A key signs with the private keys that it has, and what its hardware has is
\* certified by its vendor.  Roots are self-signed.
ASSUME HardwareAssumption ==
    /\ \A k \in Authenticators : \A s \in Statements[k] :
          s.fresh => Vendor[k] \in issuersWithin(s.signer, Certs)
    /\ OtherRoots \union Vendors \subseteq Certs
    /\ \A c \in trustedAttestationRoots \union OtherRoots \union Vendors : Issuer[c] = c
    /\ DefaultPool \notin VaultIDs /\ NilRoots \notin VaultIDs

Init ==
    /\ ProviderInit
    /\ pool = [p \in VaultIDs \union {DefaultPool} |->
                 IF p = DefaultPool THEN trustedAttestationRoots ELSE {}]
    /\ roots = [v \in VaultIDs |-> NilRoots]
    /\ meant = [v \in VaultIDs |-> trustedAttestationRoots]
    /\ verdict = NoVerdict

----------------------------------------------------------------------------
(* Choosing whom to trust.  A vault's caller waits for its enrollment. *)

\* Mutant: the package's own pool is handed out.
BundledRootsShared(v) ==
    /\ roots' = [roots EXCEPT ![v] = DefaultPool]
    /\ UNCHANGED <<pool, meant>>

\* Options.Roots = BundledRoots()
BundledRoots(v) ==
    /\ pool' = [pool EXCEPT ![v] = pool[DefaultPool]]
    /\ roots' = [roots EXCEPT ![v] = v]
    /\ UNCHANGED meant

\* Options.Roots = x509.NewCertPool()
NewCertPool(v) ==
    /\ roots' = [roots EXCEPT ![v] = v]
    /\ meant' = [meant EXCEPT ![v] = {}]
    /\ UNCHANGED pool

ChooseRoots(v) ==
    /\ roots[v] = NilRoots /\ v # verdict.vault
    /\ BundledRoots(v) \/ NewCertPool(v)
    /\ UNCHANGED <<providerVars, verdict>>

\* roots.AddCert(c)
AddCert(v, c) ==
    /\ roots[v] # NilRoots /\ v # verdict.vault
    /\ pool' = [pool EXCEPT ![roots[v]] = @ \union {c}]
    /\ meant' = [meant EXCEPT ![v] = @ \union {c}]
    /\ UNCHANGED <<providerVars, roots, verdict>>

----------------------------------------------------------------------------
(* The core. *)

\* Nil means the bundled roots.
rootsFor(v) == pool[IF roots[v] = NilRoots THEN DefaultPool ELSE roots[v]]

\* enrollAndDerive of vault v, up to its Derive request.
enrollError(v) ==
    IF ans.err THEN "ErrProvider"
    ELSE IF ans.resident THEN "ErrResidentKey"
    ELSE IF ans.cred = NoCredential THEN "ErrNoCredentialID"
    ELSE verifyGenuineHardware(material, rootsFor(v))

Judge(v) ==
    /\ at = "returned" /\ req.call.kind = "Enroll" /\ verdict = NoVerdict
    /\ verdict' = [vault |-> v, err |-> enrollError(v)]
    /\ UNCHANGED <<providerVars, poolVars>>

\* The core is done with the call once it has judged an enrollment.
Done ==
    /\ at = "returned" /\ (req.call.kind = "Enroll" => verdict # NoVerdict)
    /\ Take
    /\ verdict' = NoVerdict
    /\ UNCHANGED poolVars

Serve == ProviderStep /\ UNCHANGED <<poolVars, verdict>>

Next ==
    \/ Serve \/ Done
    \/ \E v \in VaultIDs :
          Judge(v) \/ ChooseRoots(v) \/ \E c \in OtherRoots : AddCert(v, c)

Spec == Init /\ [][Next]_vars

----------------------------------------------------------------------------
(* Properties. *)

\* What the properties rest on: a vault's pool holds the anchors its caller
\* chose, whoever adds to which pool, and a verdict is still the one that the
\* pools and the material in hand give.
EnrollInv ==
    /\ ProviderInv
    /\ pool \in [VaultIDs \union {DefaultPool} ->
                  SUBSET (trustedAttestationRoots \union OtherRoots)]
    /\ meant \in [VaultIDs -> SUBSET (trustedAttestationRoots \union OtherRoots)]
    /\ roots \in [VaultIDs -> VaultIDs \union {NilRoots}]
    /\ pool[DefaultPool] = trustedAttestationRoots
    /\ \A v \in VaultIDs : /\ roots[v] \in {v, NilRoots}
                           /\ roots[v] = NilRoots => pool[v] = {}
                           /\ rootsFor(v) = meant[v]
    /\ verdict # NoVerdict =>
          /\ at = "returned" /\ req.call.kind = "Enroll"
          /\ \E v \in VaultIDs : verdict = [vault |-> v, err |-> enrollError(v)]

\* An enrollment is accepted only from hardware of a vendor that this vault's
\* caller trusts, whatever the key presents and whatever the callers of other
\* vaults add to their pools (attestation.go verifyGenuineHardware,
\* BundledRoots).  It is what Vault takes verifyGenuineHardware to decide.
OnlyTrustedHardware ==
    verdict.err = "nil" => Vendor[req.call.key] \in meant[verdict.vault]

\* The material that a working key of vendor Vendor[k] presents: its chain up
\* to the vendor's root, but for the intermediates that are bundled.
genuine(k) ==
    LET presented == {material.x5c[i] : i \in DOMAIN material.x5c}
        leaf == material.x5c[1]
    IN /\ material.format = packedFormat /\ material.alg = coseAlgES256
       /\ material.x5c # <<>> /\ Unparseable \notin presented
       /\ leaf \in ECDSA
       /\ Vendor[k] \in issuersWithin(leaf, presented \union attestationIntermediates
                                             \union {Vendor[k]})
       /\ material.sig.by = leaf
       /\ material.sig.over = <<material.authData, material.clientDataHash>>
       /\ CertAAGUID[leaf] \in {NoExtension, material.authData.aaguid}

\* A working key of a vendor that the vault's caller trusts is not turned
\* away, even if it presents its leaf certificate and nothing else
\* (attestation.go, the intermediate pool).
GenuineHardwareEnrolls ==
    /\ verdict # NoVerdict
    /\ ~ans.err /\ ~ans.resident
    /\ genuine(req.call.key)
    /\ Vendor[req.call.key] \in meant[verdict.vault]
    => verdict.err = "nil"

\* An accepted credential took no passkey slot on the key, unless the platform
\* is too old to say (syscall_windows.go MakeCredential, vault.go
\* enrollAndDerive).
NoPasskeySlotSpent ==
    verdict.err = "nil" => out.version < 3 \/ ~out.residentKey

=============================================================================
