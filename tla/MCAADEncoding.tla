--------------------------- MODULE MCAADEncoding ---------------------------
(***************************************************************************)
(* Instances of AADEncoding for TLC: bits for bytes, so that a uint32      *)
(* wraps at 16.                                                            *)
(***************************************************************************)
EXTENDS AADEncoding

MCInfo == <<0>>
OneLabel == {"primary"}
TwoLabels == {"primary", "backup"}

=============================================================================
