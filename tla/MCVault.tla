------------------------------ MODULE MCVault ------------------------------
(***************************************************************************)
(* Instances of Vault for TLC.                                             *)
(***************************************************************************)
EXTENDS VaultRefinement, TLC

CONSTANTS k1, k2, c1, c2, yubico, other, d1, d2, s1, s2

MCHolder == (c1 :> k1) @@ (c2 :> k2)
MCVendor == (k1 :> yubico) @@ (k2 :> other)
MCText == {"", "primary", "rp", "name"}
MCJSONText == [t \in MCText |-> t]
\* Two names that are not UTF-8, which JSON writes alike.
IllFormedText == {"", "primary", "rp", "0xFF", "0xFE", "U+FFFD"}
IllFormedJSON == [t \in IllFormedText |-> IF t \in {"0xFF", "0xFE"} THEN "U+FFFD" ELSE t]

MCSalts == {[i \in Positions |-> IF i = 1 THEN 0 ELSE 1]}
MCSlots == {-1, 0, 1}
MCRootPools == {NilRoots, {yubico, other}}

\* One security key, enrolled under two credentials.
OneHolder == (c1 :> k1) @@ (c2 :> k1)
OneVendor == (k1 :> yubico)
AllVendors == {{yubico, other}}

\* The whole salt, or the prefix that a too-short length field leaves.
Truncating == {1..n : n \in Positions}
WholeSalt == {Positions}
\* A path that drops the head of the salt.
LastByte == {SaltLen..SaltLen}

\* Data keys are only ever compared with each other.
DataKeySymmetry == Permutations({d1, d2})
SessionSymmetry == Permutations({s1, s2})

=============================================================================
