-------------------------- MODULE VaultRefinement --------------------------
(***************************************************************************)
(* The detailed Vault implements AbstractVault.                            *)
(*                                                                         *)
(* A document stands for what can be recovered from it: the credentials    *)
(* whose entries really unwrap over a healthy path, and the secrets that   *)
(* really open under a data key somebody can come by.  So an entry that    *)
(* will never open, or a secret sealed under a lost data key, is absent    *)
(* from the abstract vault even though the document lists it.              *)
(***************************************************************************)
EXTENDS Vault

\* The entries of v that their key opens, over a path that delivers the whole salt.
openable(v) ==
    {e \in v.keys : unwrapDataKey(v, e, hmacSecret(e.cred, v.uv, v.salt, Positions)) = "nil"}

\* The vault that document v stands for, where some hold the data keys in held.
recoverable(v, held) ==
    [openers |-> {e.cred : e \in openable(v)},
     secrets |-> {<<x.name, x.box.plain>> :
                     x \in {y \in v.secrets :
                              \E dk \in held \union {e.wrapped.plain : e \in openable(v)} :
                                 openSecret(v, dk, y) = "nil"}}]

unlockedSessions == {s \in Sessions : sess[s] \in DataKeys}

absMem == IF doc = NoDoc THEN NoDoc ELSE recoverable(doc, {sess[s] : s \in unlockedSessions})

absSaved == IF store = NoDoc THEN NoDoc ELSE recoverable(store, {})

Abstract == INSTANCE AbstractVault WITH
    Credentials <- CredIDs, Names <- SecretNames, NoVault <- NoDoc,
    mem <- absMem, saved <- absSaved, unlocked <- unlockedSessions

\* Through prompts, refusals, timeouts, PIN changes and crashes, the calls of
\* vault.go:214-600 change what can be recovered exactly as the interfaces
\* promise: each call's effect appears at one moment, whole or not at all, only
\* unlocked sessions change anything, and nothing that can be recovered is lost
\* except by the calls that say so.
ImplementsAbstractVault == Abstract!Spec

=============================================================================
