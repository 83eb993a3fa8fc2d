---------------------------- MODULE MCSipUdp ----------------------------
(* Calls and registration share no state, so their product is left out: a  *)
(* server with a registrar is not called, and one that is called has none. *)
EXTENDS SipUdp

MCInit ==
  /\ Init
  /\ registrar => \A c \in Callers : caller[c] = "away"
  /\ ~registrar => password /\ \E c \in Callers : caller[c] # "away"

\* Two callers send the least that shows a packet of one in the call of the
\* other; one caller alone repeats its INVITE and sends enough for losses,
\* reordering and the wrap of the sequence number.
MCNext ==
  /\ Next
  /\ \/ \E c \in Callers : caller[c] = "away"
     \/ \A c \in Callers : sent'[c] <= 1 /\ (copies'[c] > 1 => caller'[c] = "byeing")

MCSpec == MCInit /\ [][MCNext]_vars /\ Fairness
=========================================================================
