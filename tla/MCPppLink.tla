----------------------------- MODULE MCPppLink -----------------------------
(* PppLink with concrete credentials; IdSpace exceeds the identifiers used. *)
EXTENDS PppLink

CONSTANTS good, bad

MCCredentials == {good, bad}
MCSecrets == {good}
MCFrames == {}
=============================================================================
