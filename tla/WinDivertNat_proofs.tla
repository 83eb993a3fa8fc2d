------------------------ MODULE WinDivertNat_proofs ------------------------
(***************************************************************************)
(* The two maps of the NAT mirror each other, and with the queue they      *)
(* implement the abstract table, for any flows, ports, lifetimes and any   *)
(* reading of the clock, the wrapped age included.                         *)
(***************************************************************************)
EXTENDS WinDivertNat, TLAPS

-----------------------------------------------------------------------------
(* Lemmas about a pair of maps, not about the variables. *)

\* Forgetting some flows together with their keys keeps the maps in step.
LEMMA ForgetMirrors ==
  ASSUME NEW fw, NEW rv, Mirrors(fw, rv), NEW gone, gone \subseteq DOMAIN fw,
         NEW keys, keys = {Key(f, fw[f].port) : f \in gone}
  PROVE  Mirrors(Without(fw, gone), Without(rv, keys))
<1> DEFINE live == Without(fw, gone)
           kept == Without(rv, keys)
<1>1. /\ DOMAIN live = DOMAIN fw \ gone /\ \A f \in DOMAIN live : live[f] = fw[f]
      /\ DOMAIN kept = DOMAIN rv \ keys /\ \A k \in DOMAIN kept : kept[k] = rv[k]
  BY DEF Without
<1>2. ASSUME NEW f \in DOMAIN live
      PROVE  Key(f, live[f].port) \in DOMAIN kept /\ kept[Key(f, live[f].port)] = f
  <2>1. f \in DOMAIN fw /\ f \notin gone /\ live[f] = fw[f]
    BY <1>1
  <2>2. Key(f, fw[f].port) \in DOMAIN rv /\ rv[Key(f, fw[f].port)] = f
    BY <2>1 DEF Mirrors
  <2>3. Key(f, fw[f].port) \notin keys
    <3>1. ASSUME NEW g \in gone, Key(g, fw[g].port) = Key(f, fw[f].port)
          PROVE  FALSE
      <4>1. rv[Key(g, fw[g].port)] = g
        BY DEF Mirrors
      <4> QED BY <4>1, <3>1, <2>1, <2>2
    <3> QED BY <3>1
  <2> QED BY <1>1, <2>1, <2>2, <2>3
<1>3. ASSUME NEW k \in DOMAIN kept
      PROVE  kept[k] \in DOMAIN live /\ Key(kept[k], live[kept[k]].port) = k
  <2>1. k \in DOMAIN rv /\ k \notin keys /\ kept[k] = rv[k]
    BY <1>1
  <2>2. rv[k] \in DOMAIN fw /\ Key(rv[k], fw[rv[k]].port) = k
    BY <2>1 DEF Mirrors
  <2>3. rv[k] \notin gone
    BY <2>1, <2>2
  <2> QED BY <1>1, <2>1, <2>2, <2>3
<1> HIDE DEF live, kept
<1> QED BY <1>2, <1>3 DEF Mirrors, live, kept

\* A new time for a flow leaves the ports, and so the keys, as they were.
LEMMA RefreshMirrors ==
  ASSUME NEW fw, IsForward(fw), NEW rv, Mirrors(fw, rv), NEW f \in DOMAIN fw, NEW n \in Nat
  PROVE  /\ Mirrors([fw EXCEPT ![f].seen = n], rv)
         /\ IsForward([fw EXCEPT ![f].seen = n])
         /\ DOMAIN [fw EXCEPT ![f].seen = n] = DOMAIN fw
         /\ \A g \in DOMAIN fw : [fw EXCEPT ![f].seen = n][g].port = fw[g].port
<1> DEFINE new == [fw EXCEPT ![f].seen = n]
<1>1. DOMAIN new = DOMAIN fw
  OBVIOUS
<1>2. \A g \in DOMAIN fw : fw[g] \in [port : Ports, seen : Nat]
  BY DEF IsForward
<1>3. \A g \in DOMAIN fw : new[g] \in [port : Ports, seen : Nat] /\ new[g].port = fw[g].port
  BY <1>2
<1>4. new \in [DOMAIN fw -> [port : Ports, seen : Nat]]
  BY <1>3
<1> HIDE DEF new
<1>5. Mirrors(new, rv)
  BY <1>1, <1>3 DEF Mirrors
<1>6. IsForward(new)
  BY <1>1, <1>4 DEF IsForward
<1> QED BY <1>1, <1>3, <1>5, <1>6 DEF new

\* A flow and its key come in together, if neither was there.
LEMMA ExtendMirrors ==
  ASSUME NEW fw, NEW rv, Mirrors(fw, rv), NEW f, f \notin DOMAIN fw, NEW p, NEW n,
         Key(f, p) \notin DOMAIN rv
  PROVE  Mirrors(With(fw, f, [port |-> p, seen |-> n]), With(rv, Key(f, p), f))
<1> DEFINE new == With(fw, f, [port |-> p, seen |-> n])
           keys == With(rv, Key(f, p), f)
<1>1. /\ DOMAIN new = DOMAIN fw \cup {f} /\ new[f].port = p
      /\ \A g \in DOMAIN fw : new[g] = fw[g]
  BY DEF With
<1>2. /\ DOMAIN keys = DOMAIN rv \cup {Key(f, p)} /\ keys[Key(f, p)] = f
      /\ \A k \in DOMAIN rv : keys[k] = rv[k]
  BY DEF With
<1> HIDE DEF new, keys
<1>3. ASSUME NEW g \in DOMAIN new
      PROVE  Key(g, new[g].port) \in DOMAIN keys /\ keys[Key(g, new[g].port)] = g
  BY <1>1, <1>2 DEF Mirrors
<1>4. ASSUME NEW k \in DOMAIN keys
      PROVE  keys[k] \in DOMAIN new /\ Key(keys[k], new[keys[k]].port) = k
  BY <1>1, <1>2 DEF Mirrors
<1> QED BY <1>3, <1>4 DEF Mirrors, new, keys

\* Maps stay maps of flows to ports and of keys to flows.
LEMMA ForgetTyped ==
  ASSUME NEW gone
  PROVE  /\ \A fw : IsForward(fw) => IsForward(Without(fw, gone))
         /\ \A rv : IsReverse(rv) => IsReverse(Without(rv, gone))
<1>1. \A map : DOMAIN Without(map, gone) = DOMAIN map \ gone
  BY DEF Without
<1>2. ASSUME NEW map, NEW S, map \in [DOMAIN map -> S]
      PROVE  Without(map, gone) \in [DOMAIN map \ gone -> S]
  BY <1>2 DEF Without
<1> QED BY <1>1, <1>2 DEF IsForward, IsReverse

LEMMA ExtendTyped ==
  ASSUME NEW f \in Flows, NEW p \in Ports, NEW n \in Nat
  PROVE  /\ \A fw : IsForward(fw) => IsForward(With(fw, f, [port |-> p, seen |-> n]))
         /\ \A rv : IsReverse(rv) => IsReverse(With(rv, Key(f, p), f))
<1>1. \A map, x, v : DOMAIN With(map, x, v) = DOMAIN map \cup {x}
  BY DEF With
<1>2. ASSUME NEW map, NEW S, map \in [DOMAIN map -> S], NEW x, NEW v \in S
      PROVE  With(map, x, v) \in [DOMAIN map \cup {x} -> S]
  BY <1>2 DEF With
<1>3. [port |-> p, seen |-> n] \in [port : Ports, seen : Nat]
  OBVIOUS
<1>4. Key(f, p) \in Keys
  BY DEF Keys
<1>5. ASSUME NEW fw, IsForward(fw)
      PROVE  IsForward(With(fw, f, [port |-> p, seen |-> n]))
  <2> DEFINE new == With(fw, f, [port |-> p, seen |-> n])
  <2>1. DOMAIN fw \subseteq Flows /\ fw \in [DOMAIN fw -> [port : Ports, seen : Nat]]
    BY <1>5 DEF IsForward
  <2>2. new \in [DOMAIN fw \cup {f} -> [port : Ports, seen : Nat]]
    BY <2>1, <1>2, <1>3
  <2>3. DOMAIN new = DOMAIN fw \cup {f}
    BY <1>1
  <2> HIDE DEF new
  <2>4. IsForward(new)
    BY <2>1, <2>2, <2>3 DEF IsForward
  <2> QED BY <2>4 DEF new
<1>6. ASSUME NEW rv, IsReverse(rv)
      PROVE  IsReverse(With(rv, Key(f, p), f))
  <2> DEFINE new == With(rv, Key(f, p), f)
  <2>1. DOMAIN rv \subseteq Keys /\ rv \in [DOMAIN rv -> Flows]
    BY <1>6 DEF IsReverse
  <2>2. new \in [DOMAIN rv \cup {Key(f, p)} -> Flows]
    BY <2>1, <1>2
  <2>3. DOMAIN new = DOMAIN rv \cup {Key(f, p)}
    BY <1>1
  <2> HIDE DEF new
  <2>4. IsReverse(new)
    BY <1>4, <2>1, <2>2, <2>3 DEF IsReverse
  <2> QED BY <2>4 DEF new
<1> QED BY <1>5, <1>6

LEMMA AfterIsPort == \A p \in Ports : After(p) \in Ports
BY RangeOfPorts DEF After, Ports

-----------------------------------------------------------------------------
(* The invariant.  It is inductive as it stands: the two maps are changed   *)
(* together, under one lock.                                                *)

IInv == TypeOK /\ Mirror

\* What Map leaves of the maps before it looks for the flow of the packet.
LEMMA Expired ==
  ASSUME IInv
  PROVE  /\ Mirrors(Without(forward, Old), Without(reverse, KeysOfOld))
         /\ IsForward(Without(forward, Old)) /\ IsReverse(Without(reverse, KeysOfOld))
<1>1. Old \subseteq DOMAIN forward /\ KeysOfOld = {Key(f, forward[f].port) : f \in Old}
  BY DEF Old, KeysOfOld, KeyOf
<1>2. Mirrors(Without(forward, Old), Without(reverse, KeysOfOld))
  BY <1>1, ForgetMirrors DEF IInv, Mirror
<1>3. IsForward(Without(forward, Old)) /\ IsReverse(Without(reverse, KeysOfOld))
  BY ForgetTyped DEF IInv, TypeOK
<1> QED BY <1>2, <1>3

\* Whatever get_or_create_mapping does, the maps are typed and in step after it.
LEMMA MapKeeps ==
  ASSUME IInv, Map
  PROVE  Mirrors(forward', reverse') /\ IsForward(forward') /\ IsReverse(reverse')
         /\ nextPort' \in Ports
<1> DEFINE live == Without(forward, Old)
           keys == Without(reverse, KeysOfOld)
<1>1. Mirrors(live, keys) /\ IsForward(live) /\ IsReverse(keys)
  BY Expired
<1>2. out.flow \in Flows /\ out.now \in Nat /\ nextPort \in Ports
  BY DEF IInv, TypeOK, Map
<1>3. \/ /\ out.flow \in DOMAIN live
         /\ forward' = [live EXCEPT ![out.flow].seen = out.now]
         /\ reverse' = keys /\ nextPort' = nextPort
      \/ /\ out.flow \notin DOMAIN live
         /\ \E p \in Ports :
              /\ Takes(p, DOMAIN keys)
              /\ forward' = With(live, out.flow, [port |-> p, seen |-> out.now])
              /\ reverse' = With(keys, Key(out.flow, p), out.flow)
              /\ nextPort' = After(p)
      \/ forward' = live /\ reverse' = keys /\ nextPort' = nextPort
  BY DEF Map
<1> HIDE DEF live, keys
<1>4. CASE /\ out.flow \in DOMAIN live
           /\ forward' = [live EXCEPT ![out.flow].seen = out.now]
           /\ reverse' = keys /\ nextPort' = nextPort
  BY <1>1, <1>2, <1>4, RefreshMirrors
<1>5. ASSUME out.flow \notin DOMAIN live, NEW p \in Ports, Takes(p, DOMAIN keys),
             forward' = With(live, out.flow, [port |-> p, seen |-> out.now]),
             reverse' = With(keys, Key(out.flow, p), out.flow), nextPort' = After(p)
      PROVE  Mirrors(forward', reverse') /\ IsForward(forward') /\ IsReverse(reverse')
             /\ nextPort' \in Ports
  <2>1. Key(out.flow, p) \notin DOMAIN keys
    BY <1>5 DEF Takes
  <2>2. Mirrors(forward', reverse')
    BY <1>1, <1>5, <2>1, ExtendMirrors
  <2>3. IsForward(forward') /\ IsReverse(reverse')
    BY <1>1, <1>2, <1>5, ExtendTyped
  <2> QED BY <1>5, <2>2, <2>3, AfterIsPort
<1>6. CASE forward' = live /\ reverse' = keys /\ nextPort' = nextPort
  BY <1>1, <1>2, <1>6
<1> QED BY <1>3, <1>4, <1>5, <1>6

\* A packet from outside changes at most the time of the flow it belongs to.
LEMMA TranslateKeeps ==
  ASSUME IInv, TranslateInbound
  PROVE  /\ Mirrors(forward', reverse') /\ IsForward(forward')
         /\ DOMAIN forward' = DOMAIN forward
         /\ \A f \in DOMAIN forward : forward'[f].port = forward[f].port
<1>1. Mirrors(forward, reverse) /\ IsForward(forward) /\ in.now \in Nat /\ reverse' = reverse
  BY DEF IInv, TypeOK, Mirror, TranslateInbound
<1>2. forward' = forward
        \/ \E f \in DOMAIN forward : forward' = [forward EXCEPT ![f].seen = in.now]
  BY DEF TranslateInbound, Refreshed
<1>3. CASE forward' = forward
  BY <1>1, <1>3
<1>4. ASSUME NEW f \in DOMAIN forward, forward' = [forward EXCEPT ![f].seen = in.now]
      PROVE  /\ Mirrors(forward', reverse') /\ IsForward(forward')
             /\ DOMAIN forward' = DOMAIN forward
             /\ \A g \in DOMAIN forward : forward'[g].port = forward[g].port
  <2> DEFINE new == [forward EXCEPT ![f].seen = in.now]
  <2>1. /\ Mirrors(new, reverse) /\ IsForward(new) /\ DOMAIN new = DOMAIN forward
        /\ \A g \in DOMAIN forward : new[g].port = forward[g].port
    BY <1>1, RefreshMirrors
  <2>2. forward' = new
    BY <1>4
  <2> HIDE DEF new
  <2> QED BY <1>1, <2>1, <2>2
<1> QED BY <1>2, <1>3, <1>4

LEMMA Initially == Init => IInv
<1> SUFFICES ASSUME Init PROVE IInv
  OBVIOUS
<1>1. DOMAIN forward = {} /\ DOMAIN reverse = {}
  BY DEF Init
<1>2. Mirror
  BY <1>1 DEF Mirror, Mirrors
<1>3. IsForward(forward) /\ IsReverse(reverse)
  BY <1>1 DEF Init, IsForward, IsReverse
<1>4. toPeer \in Seq(Flows) /\ Len(toPeer) <= QueueLimit
  BY Limit DEF Init
<1>5. clock \in 0 .. MaxTime /\ nextPort \in Ports
  BY Times, RangeOfPorts DEF Init, Ports
<1> QED BY <1>2, <1>3, <1>4, <1>5 DEF Init, TypeOK, IInv, Silent, Listening

\* Every step keeps the types.
LEMMA StepTyped == TypeOK /\ Mirror /\ [Next]_vars => TypeOK'
<1> SUFFICES ASSUME IInv, [Next]_vars PROVE TypeOK'
  BY DEF IInv
<1> USE DEF IInv, TypeOK
<1>1. CASE Tick
  BY <1>1, Times DEF Tick, IsForward, IsReverse
<1>2. ASSUME NEW f \in Flows, SendFromPeer(f) PROVE TypeOK'
  BY <1>2 DEF SendFromPeer
<1>3. CASE Map
  <2>1. IsForward(forward') /\ IsReverse(reverse') /\ nextPort' \in Ports
    BY <1>3, MapKeeps
  <2>2. IsForward(forward)' /\ IsReverse(reverse)'
    BY <2>1 DEF IsForward, IsReverse
  <2> QED BY <1>3, <2>1, <2>2 DEF Map, Silent
<1>4. CASE TakeToPeer
  BY <1>4, Limit DEF TakeToPeer
<1>5. ASSUME NEW k \in Keys, Receive(k) PROVE TypeOK'
  BY <1>5, NobodyIsNoFlow DEF Receive
<1>6. CASE TranslateInbound
  <2>1. IsForward(forward)'
    BY <1>6, TranslateKeeps DEF IsForward
  <2>2. IsReverse(reverse)'
    BY <1>6 DEF TranslateInbound
  <2>3. in.key \in DOMAIN reverse => reverse[in.key] \in Flows
    BY DEF IsReverse
  <2>4. in'.pc \in {"idle", "found"} /\ in'.key = Nobody /\ in'.now \in 0 .. clock'
        /\ in'.flow \in Flows \cup {Nobody} /\ (in'.pc = "found" <=> in'.flow # Nobody)
    <3>1. CASE /\ in.key \in DOMAIN reverse
               /\ in' = [pc |-> "found", key |-> Nobody, now |-> 0, flow |-> reverse[in.key]]
      BY <1>6, <2>3, <3>1, Times, NobodyIsNoFlow DEF TranslateInbound
    <3>2. CASE in' = Listening
      BY <1>6, <3>2, Times DEF TranslateInbound, Listening
    <3> QED BY <1>6, <3>1, <3>2 DEF TranslateInbound, Listening
  <2> QED BY <1>6, <2>1, <2>2, <2>4 DEF TranslateInbound
<1>7. CASE QueueToPeer
  BY <1>7, Limit DEF QueueToPeer, Listening
<1>8. CASE UNCHANGED vars
  BY <1>8 DEF vars
<1> QED BY <1>1, <1>2, <1>3, <1>4, <1>5, <1>6, <1>7, <1>8 DEF Next

LEMMA StepMirrors == TypeOK /\ Mirror /\ [Next]_vars => Mirror'
<1> SUFFICES ASSUME IInv, [Next]_vars PROVE Mirrors(forward', reverse')
  BY DEF IInv, Mirror, Mirrors
<1>1. CASE Map
  BY <1>1, MapKeeps
<1>2. CASE TranslateInbound
  BY <1>2, TranslateKeeps
<1>3. CASE UNCHANGED <<forward, reverse>>
  BY <1>3 DEF IInv, Mirror
<1> QED BY <1>1, <1>2, <1>3
        DEF Next, vars, Tick, SendFromPeer, TakeToPeer, Receive, QueueToPeer

\* The two maps are one table at every moment the lock is free: expiry by a
\* wrapped age, too, forgets a flow together with its key.
THEOREM Mirrored == Spec => [](TypeOK /\ Mirror)
<1>1. Init => TypeOK /\ Mirror
  BY Initially DEF IInv
<1>2. TypeOK /\ Mirror /\ [Next]_vars => (TypeOK /\ Mirror)'
  BY StepTyped, StepMirrors
<1> QED BY <1>1, <1>2, PTL DEF Spec

-----------------------------------------------------------------------------
(* The refinement. *)

AllPairs == {<<f, Key(f, p)>> : f \in Flows, p \in Ports}

\* Maps in step are a one-to-one table of the pairs there may be.
LEMMA MirrorIsOneToOne ==
  ASSUME NEW fw, NEW rv, Mirrors(fw, rv), IsForward(fw)
  PROVE  Table!OneToOne(PairsOf(fw)) /\ PairsOf(fw) \subseteq AllPairs
<1>1. PairsOf(fw) \subseteq AllPairs
  <2>1. ASSUME NEW f \in DOMAIN fw PROVE <<f, Key(f, fw[f].port)>> \in AllPairs
    <3>1. f \in Flows /\ fw[f].port \in Ports
      BY DEF IsForward
    <3> QED BY <3>1 DEF AllPairs
  <2> QED BY <2>1 DEF PairsOf
<1>2. ASSUME NEW f \in DOMAIN fw, NEW g \in DOMAIN fw,
             f = g \/ Key(f, fw[f].port) = Key(g, fw[g].port)
      PROVE  f = g
  BY <1>2 DEF Mirrors
<1>3. ASSUME NEW p \in PairsOf(fw), NEW q \in PairsOf(fw), p[1] = q[1] \/ p[2] = q[2]
      PROVE  p = q
  <2>1. PICK f \in DOMAIN fw : p = <<f, Key(f, fw[f].port)>>
    BY DEF PairsOf
  <2>2. PICK g \in DOMAIN fw : q = <<g, Key(g, fw[g].port)>>
    BY DEF PairsOf
  <2>3. f = g
    BY <1>2, <1>3, <2>1, <2>2
  <2> QED BY <2>1, <2>2, <2>3
<1> QED BY <1>1, <1>3 DEF Table!OneToOne

\* The part of the table that expiry leaves was in it.
LEMMA LivePairs == PairsOf(Without(forward, Old)) \subseteq PairsOf(forward)
BY DEF PairsOf, Without

\* get_or_create_mapping adds at most the pair of the flow that sends.
LEMMA MapIsSend == ASSUME IInv, Map PROVE Table!Send
<1> DEFINE live == Without(forward, Old)
           f == out.flow
<1>1. /\ Mirrors(forward', reverse') /\ IsForward(forward')
  BY MapKeeps
<1>2. Table!OneToOne(PairsOf(forward')) /\ PairsOf(forward') \subseteq AllPairs
  BY <1>1, MirrorIsOneToOne
<1>3. f \in Flows /\ out.now \in Nat /\ Mirrors(live, Without(reverse, KeysOfOld))
      /\ IsForward(live)
  BY Expired DEF IInv, TypeOK, Map
<1>4. \E p \in Ports : PairsOf(forward') \ {<<f, Key(f, p)>>} \subseteq PairsOf(forward)
  <2>1. CASE forward' = live
    <3>1. FirstPort \in Ports
      BY RangeOfPorts DEF Ports
    <3> QED BY <2>1, <3>1, LivePairs
  <2>2. CASE f \in DOMAIN live /\ forward' = [live EXCEPT ![f].seen = out.now]
    <3> DEFINE new == [live EXCEPT ![f].seen = out.now]
    <3>1. DOMAIN new = DOMAIN live /\ \A g \in DOMAIN live : new[g].port = live[g].port
      BY <1>3, <2>2, RefreshMirrors
    <3>2. PairsOf(new) \subseteq PairsOf(live)
      <4> HIDE DEF new, live
      <4> QED BY <3>1 DEF PairsOf
    <3>3. FirstPort \in Ports
      BY RangeOfPorts DEF Ports
    <3> HIDE DEF new, live
    <3> QED BY <2>2, <3>2, <3>3, LivePairs DEF new, live
  <2>3. ASSUME NEW p \in Ports, f \notin DOMAIN live,
               forward' = With(live, f, [port |-> p, seen |-> out.now])
        PROVE  PairsOf(forward') \ {<<f, Key(f, p)>>} \subseteq PairsOf(forward)
    <3> DEFINE new == With(live, f, [port |-> p, seen |-> out.now])
    <3>1. /\ DOMAIN new = DOMAIN live \cup {f} /\ new[f].port = p
          /\ \A g \in DOMAIN live : new[g] = live[g]
      BY <2>3 DEF With
    <3>2. PairsOf(new) \subseteq PairsOf(live) \cup {<<f, Key(f, p)>>}
      <4> HIDE DEF new, live
      <4> QED BY <3>1 DEF PairsOf
    <3> HIDE DEF new
    <3> QED BY <2>3, <3>2, LivePairs DEF new
  <2> HIDE DEF live
  <2>4. \/ forward' = live
        \/ f \in DOMAIN live /\ forward' = [live EXCEPT ![f].seen = out.now]
        \/ /\ f \notin DOMAIN live
           /\ \E p \in Ports : forward' = With(live, f, [port |-> p, seen |-> out.now])
    BY DEF Map, live
  <2> QED BY <2>1, <2>2, <2>3, <2>4
<1>5. in' = in /\ toPeer' = toPeer
  BY DEF Map
<1>6. PICK p \in Ports : PairsOf(forward') \ {<<f, Key(f, p)>>} \subseteq PairsOf(forward)
  BY <1>4
<1>7. <<f, Key(f, p)>> \in AllPairs
  BY <1>3 DEF AllPairs
<1>8. Table!Send <=> /\ PairsOf(forward)' \subseteq AllPairs
                      /\ Table!OneToOne(PairsOf(forward)')
                      /\ \E q \in AllPairs : PairsOf(forward)' \ {q} \subseteq PairsOf(forward)
                      /\ UNCHANGED <<in.key, in.flow, toPeer>>
  BY DEF Table!Send, AllPairs
<1>9. PairsOf(forward)' = PairsOf(forward')
  BY DEF PairsOf
<1> QED BY <1>2, <1>5, <1>6, <1>7, <1>8, <1>9

\* A key that is found is that of a pair of the table; one that is not found
\* is that of no pair.
LEMMA TranslateDecides ==
  ASSUME IInv, TranslateInbound PROVE Table!Admit \/ Table!Refuse
<1>1. PairsOf(forward)' = PairsOf(forward)
  BY TranslateKeeps DEF PairsOf
<1>2. in.key # Nobody /\ in.flow = Nobody /\ toPeer' = toPeer
  BY NobodyIsNoFlow DEF IInv, TypeOK, TranslateInbound
<1>3. CASE /\ in.key \in DOMAIN reverse
           /\ in' = [Listening EXCEPT !.pc = "found", !.flow = reverse[in.key]]
  <2>1. /\ reverse[in.key] \in DOMAIN forward
        /\ <<reverse[in.key], in.key>> \in PairsOf(forward)
    BY <1>3 DEF IInv, Mirror, Mirrors, PairsOf
  <2>2. in'.key = Nobody /\ in'.flow = reverse[in.key]
    BY <1>3 DEF Listening
  <2> QED BY <1>1, <1>2, <2>1, <2>2 DEF Table!Admit
<1>4. CASE in.key \notin DOMAIN reverse /\ in' = Listening
  <2>1. ASSUME NEW p \in PairsOf(forward) PROVE p[2] # in.key
    <3>1. PICK f \in DOMAIN forward : p = <<f, Key(f, forward[f].port)>>
      BY DEF PairsOf
    <3>2. Key(f, forward[f].port) \in DOMAIN reverse
      BY DEF IInv, Mirror, Mirrors
    <3> QED BY <1>4, <3>1, <3>2
  <2>2. in'.key = Nobody /\ in'.flow = Nobody
    BY <1>4 DEF Listening
  <2> QED BY <1>1, <1>2, <2>1, <2>2 DEF Table!Refuse
<1> QED BY <1>3, <1>4 DEF TranslateInbound

\* The rest of a step either is one of the queue or changes nothing that the
\* table shows.
LEMMA StepRefines == IInv /\ [Next]_vars => [Table!Next]_(Table!vars)
<1> SUFFICES ASSUME IInv, [Next]_vars PROVE Table!Next \/ UNCHANGED Table!vars
  OBVIOUS
<1>1. ASSUME UNCHANGED <<forward, toPeer>>, in'.key = in.key, in'.flow = in.flow
      PROVE  UNCHANGED Table!vars
  BY <1>1 DEF Table!vars, PairsOf
<1>2. CASE Map
  BY <1>2, MapIsSend DEF Table!Next
<1>3. CASE TranslateInbound
  BY <1>3, TranslateDecides DEF Table!Next
<1>4. CASE QueueToPeer
  <2>1. /\ in.flow # Nobody /\ in'.flow = Nobody /\ in'.key = in.key
        /\ PairsOf(forward)' = PairsOf(forward)
    BY <1>4 DEF QueueToPeer, Listening, IInv, TypeOK, PairsOf
  <2>2. toPeer' = IF Len(toPeer) < QueueLimit THEN Append(toPeer, in.flow) ELSE toPeer
    BY <1>4 DEF QueueToPeer
  <2> QED BY <2>1, <2>2 DEF Table!Deliver, Table!Next
<1>5. CASE TakeToPeer
  <2>1. PairsOf(forward)' = PairsOf(forward) /\ in' = in
    BY <1>5 DEF TakeToPeer, PairsOf
  <2> QED BY <1>5, <2>1 DEF TakeToPeer, Table!Take, Table!Next
<1>6. ASSUME NEW k \in Keys, Receive(k) PROVE Table!Next
  <2>1. in.flow = Nobody /\ in'.flow = Nobody /\ in.key = Nobody /\ in'.key = k
    BY <1>6 DEF Receive, IInv, TypeOK
  <2>2. PairsOf(forward)' = PairsOf(forward) /\ toPeer' = toPeer
    BY <1>6 DEF Receive, PairsOf
  <2> QED BY <2>1, <2>2 DEF Table!Arrive, Table!Next
<1>7. CASE Tick
  BY <1>1, <1>7 DEF Tick
<1>8. ASSUME NEW f \in Flows, SendFromPeer(f) PROVE UNCHANGED Table!vars
  BY <1>1, <1>8 DEF SendFromPeer
<1>9. CASE UNCHANGED vars
  BY <1>1, <1>9 DEF vars
<1> QED BY <1>2, <1>3, <1>4, <1>5, <1>6, <1>7, <1>8, <1>9 DEF Next

\* Whatever the threads, the clock and the Internet do, a packet from outside
\* is admitted for the flow that holds the packet's key when it is looked up,
\* is refused only if no flow holds it, and keeps its place in the queue.
THEOREM Implementation == Spec => ImplementsTable
<1>1. Init => Table!Init
  <2> SUFFICES ASSUME Init PROVE Table!Init
    OBVIOUS
  <2>1. PairsOf(forward) = {}
    BY DEF Init, PairsOf
  <2> QED BY <2>1 DEF Init, Listening, Table!Init
<1>2. Spec => [](TypeOK /\ Mirror)
  BY Mirrored
<1>3. (TypeOK /\ Mirror) /\ [Next]_vars => [Table!Next]_(Table!vars)
  BY StepRefines DEF IInv
<1> QED BY <1>1, <1>2, <1>3, PTL DEF Spec, ImplementsTable, Table!Spec

-----------------------------------------------------------------------------
(* What follows from the invariant. *)

(* Both maps, the clock readings of the two threads and the queue to the   *)
(* peer hold what they are declared to hold, for any number of flows.      *)
THEOREM TypeCorrect == Spec => []TypeOK
  BY Mirrored, PTL

\* A packet for which no port is found was refused by the third case of Map.
LEMMA DropIsRefusal ==
  ASSUME IInv, Map, out.flow \notin DOMAIN forward'
  PROVE  NoneFree(DOMAIN Without(reverse, KeysOfOld)) /\ forward' = Without(forward, Old)
<1> DEFINE live == Without(forward, Old)
           keys == Without(reverse, KeysOfOld)
<1>1. \/ /\ out.flow \in DOMAIN live
         /\ forward' = [live EXCEPT ![out.flow].seen = out.now]
      \/ \E p \in Ports : forward' = With(live, out.flow, [port |-> p, seen |-> out.now])
      \/ NoneFree(DOMAIN keys) /\ forward' = live
  BY DEF Map
<1> HIDE DEF live, keys
<1>2. CASE /\ out.flow \in DOMAIN live
           /\ forward' = [live EXCEPT ![out.flow].seen = out.now]
  BY <1>2
<1>3. CASE \E p \in Ports : forward' = With(live, out.flow, [port |-> p, seen |-> out.now])
  BY <1>3 DEF With
<1> QED BY <1>1, <1>2, <1>3 DEF live, keys

\* A port is refused to a packet of the caller only in favour of a flow that
\* is in forward_ and has not expired: none leaks, for any number of ports.
THEOREM NoPortLeaks == Spec => DroppedOnlyWhenFull
<1> DEFINE A == Dropped => \A p \in Ports :
                  \E f \in DOMAIN forward' :
                    Key(f, forward'[f].port) = Key(out.flow, p) /\ Age(f) <= Ttl(f)
<1>1. ASSUME TypeOK, Mirror, Next, Dropped PROVE A
  <2> DEFINE live == Without(forward, Old)
             keys == Without(reverse, KeysOfOld)
  <2>1. IInv /\ Map
    BY <1>1 DEF IInv, Next, Dropped, Tick, SendFromPeer, TakeToPeer, Receive,
                TranslateInbound, QueueToPeer
  <2>2. NoneFree(DOMAIN keys) /\ forward' = live
    BY <1>1, <2>1, DropIsRefusal DEF Dropped
  <2>3. Mirrors(live, keys)
    BY <2>1, Expired
  <2>4. \A f \in DOMAIN live : Age(f) <= Ttl(f)
    <3>1. ASSUME NEW f \in DOMAIN live PROVE ~(Age(f) > Ttl(f))
      BY DEF Without, Old
    <3>2. ASSUME NEW f \in DOMAIN live PROVE Age(f) \in Int /\ Ttl(f) \in Int
      <4>1. f \in DOMAIN forward
        BY DEF Without
      <4>2. out.now \in Int /\ forward[f].seen \in Int /\ Wrap \in Nat \ {0}
        BY <2>1, <4>1, Times DEF IInv, TypeOK, IsForward
      <4> QED BY <4>2, Times DEF Age, Ttl
    <3> QED BY <3>1, <3>2
  <2>5. ASSUME NEW p \in Ports
        PROVE  \E f \in DOMAIN live :
                 Key(f, live[f].port) = Key(out.flow, p) /\ Age(f) <= Ttl(f)
    <3>1. Key(out.flow, p) \in DOMAIN keys
      BY <2>2 DEF NoneFree
    <3>2. LET f == keys[Key(out.flow, p)]
          IN  f \in DOMAIN live /\ Key(f, live[f].port) = Key(out.flow, p)
      BY <2>3, <3>1 DEF Mirrors
    <3> QED BY <2>4, <3>2
  <2> HIDE DEF live, keys
  <2> QED BY <2>2, <2>5
<1>2. (TypeOK /\ Mirror) /\ [Next]_vars => [A]_vars
  BY <1>1
<1> QED BY <1>2, Mirrored, PTL DEF Spec, DroppedOnlyWhenFull
=============================================================================
