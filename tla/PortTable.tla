----------------------------- MODULE PortTable -----------------------------
(***************************************************************************)
(* What the NAT promises: a table that gives each flow of the caller one   *)
(* outside key, and each key to one flow.  A packet arrives from outside   *)
(* with a key.  It is admitted for the flow that holds this key at the     *)
(* moment of the look-up, and refused if no flow does.  The admitted       *)
(* packets are handed to the caller in order; one is lost only when there  *)
(* is no room for it.                                                      *)
(***************************************************************************)
EXTENDS Naturals, Sequences

CONSTANTS
  Keys,    \* what a packet from outside may carry
  Pairs,   \* the <<flow, key>> that may be in the table
  Nobody,  \* neither a flow nor a key
  Room     \* how many packets may wait

VARIABLES
  table,     \* the pairs in use
  arrived,   \* the key of a packet not yet looked up, or Nobody
  admitted,  \* the flow of a packet admitted and not yet queued, or Nobody
  toPeer     \* the flows of the queued packets

vars == <<table, arrived, admitted, toPeer>>

OneToOne(t) == \A p, q \in t : p[1] = q[1] \/ p[2] = q[2] => p = q

Init == table = {} /\ arrived = Nobody /\ admitted = Nobody /\ toPeer = <<>>

\* Pairs may be dropped, and one may be added.
Send ==
  /\ table' \subseteq Pairs /\ OneToOne(table')
  /\ \E p \in Pairs : table' \ {p} \subseteq table
  /\ UNCHANGED <<arrived, admitted, toPeer>>

Arrive ==
  /\ arrived = Nobody /\ admitted = Nobody
  /\ arrived' \in Keys
  /\ UNCHANGED <<table, admitted, toPeer>>

Admit ==
  /\ arrived # Nobody /\ arrived' = Nobody
  /\ \E p \in table : p[2] = arrived /\ admitted' = p[1]
  /\ UNCHANGED <<table, toPeer>>

Refuse ==
  /\ arrived # Nobody /\ arrived' = Nobody
  /\ \A p \in table : p[2] # arrived
  /\ UNCHANGED <<table, admitted, toPeer>>

Deliver ==
  /\ admitted # Nobody /\ admitted' = Nobody
  /\ toPeer' = IF Len(toPeer) < Room THEN Append(toPeer, admitted) ELSE toPeer
  /\ UNCHANGED <<table, arrived>>

Take ==
  /\ toPeer # <<>> /\ toPeer' = Tail(toPeer)
  /\ UNCHANGED <<table, arrived, admitted>>

Next == Send \/ Arrive \/ Admit \/ Refuse \/ Deliver \/ Take

Spec == Init /\ [][Next]_vars
=============================================================================
