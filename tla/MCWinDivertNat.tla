--------------------------- MODULE MCWinDivertNat ---------------------------
(* Three TCP flows to one remote, with two ports for them, and ping; from  *)
(* another remote comes what the caller did not ask for.  The three differ *)
(* in their source port alone, which nothing compares but for equality:    *)
(* they may be exchanged.                                                  *)
EXTENDS WinDivertNat, TLC

CONSTANTS s1, s2, s3

MCFlows == {[proto |-> "tcp", sport |-> s, remote |-> 1] : s \in {s1, s2, s3}}
             \cup {[proto |-> "icmp", sport |-> 0, remote |-> 1]}
MCStrangers == {[proto |-> "tcp", remote |-> 2]}
SourcePorts == Permutations({s1, s2, s3})
=============================================================================
