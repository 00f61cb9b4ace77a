---------------------------- MODULE MCEnrollment ----------------------------
(***************************************************************************)
(* An instance of Enrollment for TLC: a Yubico key, another vendor's key   *)
(* and a software authenticator.                                           *)
(***************************************************************************)
EXTENDS Enrollment, TLC

CONSTANTS
    yubi, feit, soft,       \* security keys
    c1, c2, c3,             \* the credential on each
    yRoot, yCA, yLeaf,      \* Yubico's chain, with a bundled intermediate
    fRoot, fLeaf, gLeaf,    \* a chain without one
    sRoot, sCA, sLeaf,      \* what the software authenticator made up
    modelA, modelB,         \* AAGUIDs
    v1, v2,                 \* two vaults of one process
    CLAUDECODE, QWEN_CODE

MCHolder == (c1 :> yubi) @@ (c2 :> feit) @@ (c3 :> soft)
MCVendor == (yubi :> yRoot) @@ (feit :> fRoot) @@ (soft :> sRoot)
MCCerts == {yRoot, yCA, yLeaf, fRoot, fLeaf, gLeaf, sRoot, sCA, sLeaf}
MCIssuer ==
    [c \in MCCerts |-> CASE c \in {yRoot, yCA} -> yRoot
                         [] c = yLeaf -> yCA
                         [] c \in {fRoot, fLeaf, gLeaf} -> fRoot
                         [] c \in {sRoot, sCA} -> sRoot
                         [] c = sLeaf -> sCA]
MCECDSA == MCCerts \ {fRoot}
MCAAGUID ==
    [c \in MCCerts |-> CASE c = yLeaf -> modelA
                         [] c = gLeaf -> Malformed
                         [] OTHER -> NoExtension]

\* A packed statement with signature algorithm ES256.
packed(x5c, signer, fresh, aaguid) ==
    [format |-> packedFormat, alg |-> coseAlgES256, x5c |-> x5c,
     signer |-> signer, fresh |-> fresh, aaguid |-> aaguid]

\* What each key may present.  The software authenticator can show any
\* certificate and replay any signature, and signs with its own keys only.
MCStatements ==
    (yubi :> {packed(<<yLeaf>>, yLeaf, TRUE, modelA),
              packed(<<yLeaf, yCA>>, yLeaf, TRUE, modelA),
              packed(<<yLeaf>>, yLeaf, TRUE, TooShort),
              packed(<<yLeaf>>, yLeaf, TRUE, modelB),
              [packed(<<yLeaf>>, yLeaf, TRUE, modelA) EXCEPT !.format = "fido-u2f"]})
    @@
    (feit :> {packed(<<fLeaf>>, fLeaf, TRUE, modelB),
              packed(<<gLeaf>>, gLeaf, TRUE, modelB),
              packed(<<fLeaf, Unparseable>>, fLeaf, TRUE, modelB),
              packed(<<fRoot>>, fRoot, TRUE, modelB)})
    @@
    (soft :> {packed(<<>>, sLeaf, TRUE, modelA),
              packed(<<sLeaf, sCA>>, sLeaf, TRUE, modelA),
              packed(<<sCA, sRoot>>, sCA, TRUE, modelA),
              packed(<<yLeaf>>, sLeaf, TRUE, modelA),
              packed(<<yLeaf, yCA>>, yLeaf, FALSE, modelA),
              [packed(<<yLeaf>>, yLeaf, FALSE, modelA) EXCEPT !.alg = -257]})

=============================================================================
