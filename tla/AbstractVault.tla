--------------------------- MODULE AbstractVault ---------------------------
(***************************************************************************)
(* What a vault promises (doc.go, and the Vault, Session and Admin         *)
(* interfaces of vault.go), without documents, seals, prompts or mutexes.  *)
(*                                                                         *)
(* A vault is the secrets that can still be recovered and the credentials  *)
(* that can recover them.  Every call either has its whole effect at one   *)
(* moment or has none.  Secrets are recoverable while some credential      *)
(* opens the vault or some session is unlocked; what is persisted when no  *)
(* credential opens it is lost.                                            *)
(***************************************************************************)
EXTENDS FiniteSets

CONSTANTS
    Sessions,
    Credentials,
    Names,
    Values,
    NoVault

VARIABLES
    mem,        \* the vault in memory
    saved,      \* the vault as persisted
    unlocked    \* the sessions that can read and change it

Vaults == [openers : SUBSET Credentials, secrets : SUBSET (Names \X Values)]

\* What is left of v when nobody but its openers can open it.
Recoverable(v) == IF v.openers = {} THEN [v EXCEPT !.secrets = {}] ELSE v

Init ==
    /\ mem = NoVault
    /\ saved = NoVault
    /\ unlocked = {}

\* A first credential opens a new vault, and the session that made it is unlocked.
Create(s, c) ==
    /\ mem = NoVault /\ saved = NoVault
    /\ mem' = [openers |-> {c}, secrets |-> {}]
    /\ unlocked' = {s}
    /\ UNCHANGED saved

Load ==
    /\ mem = NoVault /\ saved # NoVault
    /\ mem' = saved
    /\ UNCHANGED <<saved, unlocked>>

Unlock(s) ==
    /\ mem # NoVault
    /\ mem.openers # {}
    /\ unlocked' = unlocked \union {s}
    /\ UNCHANGED <<mem, saved>>

Lock(s) ==
    /\ s \in unlocked
    /\ unlocked' = unlocked \ {s}
    /\ mem' = IF unlocked' = {} THEN Recoverable(mem) ELSE mem
    /\ UNCHANGED saved

\* An unlocked session s puts v in the place of the vault in memory.
Change(s, v) ==
    /\ s \in unlocked
    /\ mem' = v
    /\ UNCHANGED <<saved, unlocked>>

Put(s, n, x) ==
    Change(s, [mem EXCEPT !.secrets = {p \in @ : p[1] # n} \union {<<n, x>>}])

Delete(s, n) == Change(s, [mem EXCEPT !.secrets = {p \in @ : p[1] # n}])

Enroll(s, c) == Change(s, [mem EXCEPT !.openers = @ \union {c}])

Remove(s, c) == Change(s, [mem EXCEPT !.openers = @ \ {c}])

Save ==
    /\ mem # NoVault
    /\ saved' = Recoverable(mem)
    /\ UNCHANGED <<mem, unlocked>>

Crash ==
    /\ mem' = NoVault
    /\ unlocked' = {}
    /\ UNCHANGED saved

Next ==
    \/ \E s \in Sessions, c \in Credentials : Create(s, c)
    \/ Load
    \/ \E s \in Sessions : Unlock(s)
    \/ \E s \in Sessions : Lock(s)
    \/ \E s \in Sessions, n \in Names, x \in Values : Put(s, n, x)
    \/ \E s \in Sessions, n \in Names : Delete(s, n)
    \/ \E s \in Sessions, c \in Credentials : Enroll(s, c)
    \/ \E s \in Sessions, c \in Credentials : Remove(s, c)
    \/ Save
    \/ Crash

Spec == Init /\ [][Next]_<<mem, saved, unlocked>>

=============================================================================
