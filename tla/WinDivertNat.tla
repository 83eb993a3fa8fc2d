---------------------------- MODULE WinDivertNat ----------------------------
(***************************************************************************)
(* The user-mode NAT of the PPP caller.  Two threads share two maps under  *)
(* mu_: the main loop translates what the caller sends, recv_loop what     *)
(* comes from the Internet.  Each reads the clock before it takes the      *)
(* lock.  The Internet may send anything to the NAT's ports at any time.   *)
(* An address and the port on it are one remote; packets are the flow or   *)
(* the key they carry.                                                     *)
(***************************************************************************)
EXTENDS Integers, Sequences

CONSTANTS
  Flows,          \* FlowKey: records [proto, sport, remote]
  Strangers,      \* records [proto, remote]: whom the caller sends nothing
  Nobody,         \* neither a flow nor a key
  FirstPort, LastPort,  \* the NAT's ports
  TcpTtl, OtherTtl,     \* lifetimes
  Wrap,           \* the times are unsigned: 2^64
  QueueLimit,     \* to_peer_ takes no more
  MaxTime         \* bound: the clock stops

ASSUME RangeOfPorts == FirstPort \in Nat /\ LastPort \in Nat /\ FirstPort <= LastPort
ASSUME Times == TcpTtl \in Nat /\ OtherTtl \in Nat /\ MaxTime \in Nat /\ Wrap \in Nat \ {0}
ASSUME Limit == QueueLimit \in Nat

VARIABLES
  clock,     \* steady_clock
  out,       \* the main loop in send_from_peer: the flow, and its reading of the clock
  in,        \* recv_loop: the key received, its reading of the clock, the flow once known
  forward,   \* forward_: the port and last_seen_ms of a flow
  reverse,   \* reverse_: the flow of a key; its last_seen_ms is never read
  nextPort,  \* next_nat_port_
  toPeer     \* to_peer_: the flows of the packets

vars == <<clock, out, in, forward, reverse, nextPort, toPeer>>

Ports == FirstPort .. LastPort
Key(f, p) == [proto |-> f.proto, port |-> p, remote |-> f.remote]
Keys == {Key(f, p) : f \in Flows \cup Strangers, p \in Ports}
ASSUME NobodyIsNoFlow == Nobody \notin Flows \cup Keys

Ttl(f) == IF f.proto = "tcp" THEN TcpTtl ELSE OtherTtl
Without(map, gone) == [x \in DOMAIN map \ gone |-> map[x]]
With(map, x, v) == [y \in DOMAIN map \cup {x} |-> IF y = x THEN v ELSE map[y]]

IsForward(map) == /\ DOMAIN map \subseteq Flows
                  /\ map \in [DOMAIN map -> [port : Ports, seen : Nat]]
IsReverse(map) == DOMAIN map \subseteq Keys /\ map \in [DOMAIN map -> Flows]

TypeOK ==
  /\ clock \in 0 .. MaxTime
  /\ out.flow \in Flows \cup {Nobody} /\ out.now \in 0 .. clock
  /\ in.pc \in {"idle", "stamped", "found"} /\ in.now \in 0 .. clock
  /\ IF in.pc = "stamped" THEN in.key \in Keys ELSE in.key = Nobody
  /\ in.flow \in Flows \cup {Nobody} /\ (in.pc = "found" <=> in.flow # Nobody)
  /\ IsForward(forward) /\ IsReverse(reverse)
  /\ nextPort \in Ports
  /\ toPeer \in Seq(Flows) /\ Len(toPeer) <= QueueLimit

Silent == [flow |-> Nobody, now |-> 0]
Listening == [pc |-> "idle", key |-> Nobody, now |-> 0, flow |-> Nobody]

Init ==
  /\ clock = 0 /\ out = Silent /\ in = Listening
  /\ forward = <<>> /\ reverse = <<>> /\ nextPort = FirstPort /\ toPeer = <<>>

Tick == clock < MaxTime /\ clock' = clock + 1
        /\ UNCHANGED <<out, in, forward, reverse, nextPort, toPeer>>

-----------------------------------------------------------------------------
(* The main loop. *)

SendFromPeer(f) ==
  /\ out.flow = Nobody
  /\ out' = [flow |-> f, now |-> clock]
  /\ UNCHANGED <<clock, in, forward, reverse, nextPort, toPeer>>

Age(f) == (out.now - forward[f].seen) % Wrap
Old == {f \in DOMAIN forward : Age(f) > Ttl(f)}
KeyOf(f) == Key(f, forward[f].port)

\* Mutant: the flow is forgotten, but not its key.
KeysOfOldKept == {}
KeysOfOld == {KeyOf(f) : f \in Old}

\* The ports the search passes over before it comes to p.
Passed(p) == IF nextPort <= p THEN nextPort .. p - 1
                              ELSE (nextPort .. LastPort) \cup (FirstPort .. p - 1)
After(p) == IF p = LastPort THEN FirstPort ELSE p + 1

\* Mutant: the search does not look whether the port is in use.
TakesAny(p, taken) == p = nextPort
\* The first port from next_nat_port_ on whose key is free.
Takes(p, taken) == /\ Key(out.flow, p) \notin taken
                   /\ \A q \in Passed(p) : Key(out.flow, q) \in taken

\* Mutant: the search stops at the last port.
NoneLeft(taken) == \A p \in nextPort .. LastPort : Key(out.flow, p) \in taken
NoneFree(taken) == \A p \in Ports : Key(out.flow, p) \in taken

\* get_or_create_mapping, expire_old first; then the packet is injected.
Map ==
  LET live == Without(forward, Old)
      keys == Without(reverse, KeysOfOld)
      f == out.flow
  IN  /\ f # Nobody
      /\ out' = Silent
      /\ \/ /\ f \in DOMAIN live
            /\ forward' = [live EXCEPT ![f].seen = out.now]
            /\ reverse' = keys /\ nextPort' = nextPort
         \/ /\ f \notin DOMAIN live
            /\ \E p \in Ports :
                 /\ Takes(p, DOMAIN keys)
                 /\ forward' = With(live, f, [port |-> p, seen |-> out.now])
                 /\ reverse' = With(keys, Key(f, p), f)
                 /\ nextPort' = After(p)
         \/ /\ f \notin DOMAIN live
            /\ NoneFree(DOMAIN keys)
            /\ forward' = live /\ reverse' = keys /\ nextPort' = nextPort
      /\ UNCHANGED <<clock, in, toPeer>>

TakeToPeer ==
  /\ out.flow = Nobody /\ toPeer # <<>>
  /\ toPeer' = Tail(toPeer)
  /\ UNCHANGED <<clock, out, in, forward, reverse, nextPort>>

-----------------------------------------------------------------------------
(* recv_loop. *)

Receive(k) ==
  /\ in.pc = "idle"
  /\ in' = [pc |-> "stamped", key |-> k, now |-> clock, flow |-> Nobody]
  /\ UNCHANGED <<clock, out, forward, reverse, nextPort, toPeer>>

\* A reply of ICMP does not keep its flow.
Refreshed(f) == IF f.proto # "icmp" /\ f \in DOMAIN forward
                THEN [forward EXCEPT ![f].seen = in.now] ELSE forward

\* Mutant: any remote may use a port that is in use.
TranslateByPort ==
  LET same == {k \in DOMAIN reverse : k.proto = in.key.proto /\ k.port = in.key.port}
  IN  /\ in.pc = "stamped"
      /\ \/ \E k \in same :
              /\ in' = [Listening EXCEPT !.pc = "found", !.flow = reverse[k]]
              /\ forward' = Refreshed(reverse[k])
         \/ same = {} /\ in' = Listening /\ forward' = forward
      /\ UNCHANGED <<clock, out, reverse, nextPort, toPeer>>
TranslateInbound ==
  /\ in.pc = "stamped"
  /\ \/ /\ in.key \in DOMAIN reverse
        /\ in' = [Listening EXCEPT !.pc = "found", !.flow = reverse[in.key]]
        /\ forward' = Refreshed(reverse[in.key])
     \/ /\ in.key \notin DOMAIN reverse
        /\ in' = Listening /\ forward' = forward
  /\ UNCHANGED <<clock, out, reverse, nextPort, toPeer>>

\* Mutant: a packet more than the queue takes.
QueueOneMore ==
  /\ in.pc = "found"
  /\ toPeer' = IF Len(toPeer) <= QueueLimit THEN Append(toPeer, in.flow) ELSE toPeer
  /\ in' = Listening
  /\ UNCHANGED <<clock, out, forward, reverse, nextPort>>
QueueToPeer ==
  /\ in.pc = "found"
  /\ toPeer' = IF Len(toPeer) < QueueLimit THEN Append(toPeer, in.flow) ELSE toPeer
  /\ in' = Listening
  /\ UNCHANGED <<clock, out, forward, reverse, nextPort>>

Next ==
  \/ Tick
  \/ \E f \in Flows : SendFromPeer(f)
  \/ Map \/ TakeToPeer
  \/ \E k \in Keys : Receive(k)
  \/ TranslateInbound \/ QueueToPeer

Spec == Init /\ [][Next]_vars

-----------------------------------------------------------------------------
(* Properties. *)

\* forward_ and reverse_ are two views of one table: expiry, reuse of a port
\* and the order of the two threads never leave a key whose flow is gone, a
\* flow whose key is gone, or two flows behind one key.
Mirrors(fw, rv) ==
  /\ \A f \in DOMAIN fw : LET k == Key(f, fw[f].port) IN k \in DOMAIN rv /\ rv[k] = f
  /\ \A k \in DOMAIN rv : rv[k] \in DOMAIN fw /\ Key(rv[k], fw[rv[k]].port) = k
Mirror == Mirrors(forward, reverse)

\* The two maps and the queue implement the abstract table: a packet from
\* outside goes to the flow that holds the packet's own key when the packet is
\* looked up, whatever expired or took a port since it was received; it is
\* refused only if no flow holds its key; and the caller gets the packets in
\* the order in which they were looked up.
PairsOf(fw) == {<<f, Key(f, fw[f].port)>> : f \in DOMAIN fw}
Table == INSTANCE PortTable
           WITH Pairs <- {<<f, Key(f, p)>> : f \in Flows, p \in Ports}, Room <- QueueLimit,
                table <- PairsOf(forward), arrived <- in.key, admitted <- in.flow
ImplementsTable == Table!Spec

\* A packet of the caller is dropped for want of a port only if each port
\* towards its remote belongs to a flow that is there to use it and has not
\* expired: no port leaks, wherever the search begins, and whatever was
\* mapped and expired before.
Dropped == out.flow # Nobody /\ out'.flow = Nobody /\ out.flow \notin DOMAIN forward'
DroppedOnlyWhenFull ==
  [][Dropped => \A p \in Ports :
       \E f \in DOMAIN forward' :
         Key(f, forward'[f].port) = Key(out.flow, p) /\ Age(f) <= Ttl(f)]_vars
=============================================================================
