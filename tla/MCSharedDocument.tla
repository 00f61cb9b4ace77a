------------------------- MODULE MCSharedDocument -------------------------
(***************************************************************************)
(* Instances of SharedDocument for TLC: goroutines that share one session, *)
(* and a reader and an administrator with a session each.                  *)
(***************************************************************************)
EXTENDS SharedDocument, TLC

CONSTANTS admin, reader, sA, sB

OneSession == (admin :> sA) @@ (reader :> sA)
TwoSessions == (admin :> sA) @@ (reader :> sB)

Admins == (admin :> {"Put", "Delete", "EnrollKey", "RemoveKey", "Lock"})
             @@ (reader :> {"Open", "Lock", "EnrollKey"})
AdminAndReader == (admin :> {"Put", "Delete"}) @@ (reader :> {"Open"})

=============================================================================
