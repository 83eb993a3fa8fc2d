--------------------------- MODULE V42Link_proofs ---------------------------
(***************************************************************************)
(* The bytes of PPP leave whole and in order, for every caller, every      *)
(* order of reports and any number of bytes.  The argument: only one of    *)
(* the two transmit queues is ever in use (Whole); each function of the    *)
(* link either leaves both alone (Same) or empties the LAPM queue into the *)
(* other one (Switched), and neither changes what is pending.              *)
(***************************************************************************)
EXTENDS V42Link, SequenceTheorems, TLAPS

HasQueues(x) == {"raw", "rawTx", "lapmTx"} \subseteq DOMAIN x

Whole(x) ==
  /\ HasQueues(x) /\ x.raw \in BOOLEAN
  /\ x.rawTx \in Seq(Nat) /\ x.lapmTx \in Seq(Nat)
  /\ IF x.raw THEN x.lapmTx = <<>> ELSE x.rawTx = <<>>

Same(x, y) ==
  HasQueues(y) /\ y.raw = x.raw /\ y.rawTx = x.rawTx /\ y.lapmTx = x.lapmTx

Switched(x, y) ==
  HasQueues(y) /\ y.raw = TRUE /\ y.rawTx = x.rawTx \o x.lapmTx /\ y.lapmTx = <<>>

Kept(x, y) == Same(x, y) \/ Switched(x, y)

Pending(x) == x.rawTx \o x.lapmTx

Fed == [i \in 1 .. fed |-> i]

IInv == /\ fed \in Nat /\ sent \in Seq(Nat)
        /\ Whole(link)
        /\ live # "Left" => sent \o Pending(link) = Fed

-----------------------------------------------------------------------------
(* The functions of the link. *)

\* What a function that keeps the queues does to what is pending.
LEMMA KeptWhole ==
  ASSUME NEW x, NEW y, Whole(x), Kept(x, y)
  PROVE  Whole(y) /\ Pending(y) = Pending(x)
<1>1. CASE Same(x, y)
  BY <1>1 DEF Same, Whole, Pending
<1>2. CASE Switched(x, y)
  <2>1. x.rawTx \o x.lapmTx \in Seq(Nat)
    BY ConcatProperties DEF Whole
  <2>2. Whole(y)
    BY <1>2, <2>1, EmptySeq DEF Switched, Whole
  <2>3. Pending(y) = Pending(x)
    BY <1>2, <2>1, ConcatEmptySeq DEF Switched, Pending
  <2> QED BY <2>2, <2>3
<1> QED BY <1>1, <1>2 DEF Kept

LEMMA KeptTwice ==
  ASSUME NEW x, NEW y, NEW z, Whole(x), Same(x, y), Kept(y, z)
  PROVE  Kept(x, z)
  BY DEF Whole, Same, Switched, Kept

LEMMA SwitchToRawSwitches ==
  ASSUME NEW x, HasQueues(x)
  PROVE  Switched(x, SwitchToRaw(x))
  BY DEF HasQueues, Switched, SwitchToRaw

LEMMA IfPendingKeeps ==
  ASSUME NEW x, HasQueues(x)
  PROVE  Kept(x, IfPending(x))
  BY SwitchToRawSwitches DEF HasQueues, IfPending, Kept, Same

LEMMA RawRxKeeps ==
  ASSUME NEW x, HasQueues(x), NEW sound
  PROVE  Same(x, RawRx(x, sound))
  BY DEF HasQueues, RawRx, Same

LEMMA ReportedKeeps ==
  ASSUME NEW x, HasQueues(x), NEW status
  PROVE  Same(x, Reported(x, status))
  BY DEF HasQueues, Reported, Connect, Forgets, Same

LEMMA HeardKeeps ==
  ASSUME NEW x, HasQueues(x), NEW sound
  PROVE  /\ Same(x, FlagSeen(x, sound))
         /\ Same(x, Probed(x, sound))
         /\ Same(x, Payload(x, sound))
         /\ Same(x, Negotiated(x, sound))
<1>1. Same(x, FlagSeen(x, sound))
  BY DEF HasQueues, FlagSeen, Same
<1>2. Same(x, Probed(x, sound))
  BY DEF HasQueues, Probed, Forgets, Same
<1>3. Same(x, Payload(x, sound))
  BY DEF HasQueues, Payload, Same
<1>4. Same(x, Negotiated(x, sound))
  BY DEF HasQueues, Negotiated, Same
<1> QED BY <1>1, <1>2, <1>3, <1>4

LEMMA TimedKeeps ==
  ASSUME NEW x, HasQueues(x)
  PROVE  Kept(x, Timed(x))
<1> DEFINE y == [x EXCEPT !.linkT = x.linkT + 1, !.detT = x.detT + 1]
           z == [x EXCEPT !.linkT = x.linkT + 1]
<1>1. Same(x, x) /\ Same(x, y) /\ Same(x, z)
  BY DEF HasQueues, Same
<1>2. Switched(y, SwitchToRaw(y)) /\ Switched(z, SwitchToRaw(z))
  BY <1>1, SwitchToRawSwitches DEF Same
<1>3. Switched(x, SwitchToRaw(y)) /\ Switched(x, SwitchToRaw(z))
  BY <1>1, <1>2 DEF Same, Switched
<1>4. Timed(x) \in {x, y, z, SwitchToRaw(y), SwitchToRaw(z)}
  BY DEF Timed
<1> QED BY <1>1, <1>3, <1>4 DEF Kept

-----------------------------------------------------------------------------
(* Sequences that are sent. *)

\* Concatenation of sequences of bytes is associative.
LEMMA Associative ==
  \A s, t, u \in Seq(Nat) : (s \o t) \o u = s \o (t \o u)
<1> SUFFICES ASSUME NEW s \in Seq(Nat), NEW t \in Seq(Nat), NEW u \in Seq(Nat)
             PROVE  (s \o t) \o u = s \o (t \o u)
  OBVIOUS
<1>1. \A S : \A v, w, x \in Seq(S) : (v \o w) \o x = v \o (w \o x)
  BY ConcatAssociative, SMTT(60)
<1> QED BY <1>1

\* The first elements of a queue move from it to what was sent.
LEMMA MoveFront ==
  ASSUME NEW s \in Seq(Nat), NEW q \in Seq(Nat), NEW k \in 1 .. Len(q)
  PROVE  /\ SubSeq(q, 1, k) \in Seq(Nat) /\ SubSeq(q, k + 1, Len(q)) \in Seq(Nat)
         /\ (s \o SubSeq(q, 1, k)) \o SubSeq(q, k + 1, Len(q)) = s \o q
<1> DEFINE a == SubSeq(q, 1, k)
           b == SubSeq(q, k + 1, Len(q))
<1>1. Len(q) \in Nat /\ \A i \in 1 .. Len(q) : q[i] \in Nat
  BY ElementOfSeq, LenProperties
<1>2. a \in Seq(Nat)
  BY <1>1, SubSeqProperties
<1>3. b \in Seq(Nat)
  BY <1>1, SubSeqProperties
<1>4. a \o b = q
  <2>1. SubSeq(q, 1, k) \o SubSeq(q, k + 1, Len(q)) = SubSeq(q, 1, Len(q))
    BY <1>1, ConcatAdjacentSubSeq
  <2> QED BY <2>1, SubSeqFull
<1> HIDE DEF a, b
<1>5. (s \o a) \o b = s \o (a \o b)
  BY <1>2, <1>3, Associative, Zenon
<1>6. (s \o a) \o b = s \o q
  BY <1>4, <1>5
<1> QED BY <1>2, <1>3, <1>6 DEF a, b

LEMMA MoveHead ==
  ASSUME NEW s \in Seq(Nat), NEW q \in Seq(Nat), q # <<>>
  PROVE  /\ Append(s, Head(q)) \in Seq(Nat) /\ Tail(q) \in Seq(Nat)
         /\ Append(s, Head(q)) \o Tail(q) = s \o q
<1>1. Len(q) \in Nat \ {0}
  BY EmptySeq
<1>2. Tail(q) = SubSeq(q, 2, Len(q)) /\ Head(q) \in Nat /\ Tail(q) \in Seq(Nat)
  BY TailIsSubSeq, HeadTailProperties
<1>3. Append(s, Head(q)) = s \o <<Head(q)>>
  BY <1>2, AppendIsConcat
<1>4. q = <<Head(q)>> \o Tail(q)
  <2>1. SubSeq(q, 1, Len(q)) = <<q[1]>> \o SubSeq(q, 2, Len(q))
    BY <1>1, SubSeqRecursiveFirst
  <2>2. SubSeq(q, 1, Len(q)) = q
    BY SubSeqFull
  <2> QED BY <1>1, <1>2, <2>1, <2>2
<1>5. <<Head(q)>> \in Seq(Nat)
  BY <1>2
<1>6. (s \o <<Head(q)>>) \o Tail(q) = s \o (<<Head(q)>> \o Tail(q))
  BY <1>2, <1>5, ConcatAssociative, SMTT(60)
<1>7. Append(s, Head(q)) \o Tail(q) = s \o q
  BY <1>3, <1>4, <1>6
<1>8. Append(s, Head(q)) \in Seq(Nat)
  BY <1>2, AppendProperties
<1> QED BY <1>2, <1>7, <1>8

LEMMA MoveIn ==
  ASSUME NEW s \in Seq(Nat), NEW q \in Seq(Nat), NEW e \in Nat
  PROVE  /\ Append(q, e) \in Seq(Nat)
         /\ s \o Append(q, e) = Append(s \o q, e)
<1>1. Append(q, e) = q \o <<e>> /\ Append(q, e) \in Seq(Nat)
  BY AppendIsConcat, AppendProperties
<1>2. s \o q \in Seq(Nat)
  BY ConcatProperties
<1>3. Append(s \o q, e) = (s \o q) \o <<e>>
  BY <1>2, AppendIsConcat
<1>4. <<e>> \in Seq(Nat)
  OBVIOUS
<1>5. (s \o q) \o <<e>> = s \o (q \o <<e>>)
  BY <1>4, ConcatAssociative, SMTT(60)
<1> QED BY <1>1, <1>3, <1>5

\* One of the queues is empty, so what is pending is the other.
LEMMA PendingIs ==
  ASSUME NEW x, Whole(x)
  PROVE  Pending(x) = IF x.raw THEN x.rawTx ELSE x.lapmTx
  BY ConcatEmptySeq DEF Whole, Pending

-----------------------------------------------------------------------------
(* The steps. *)

LEMMA KeptIInv ==
  ASSUME IInv, Kept(link, link'), UNCHANGED <<live, fed, sent>>
  PROVE  IInv'
<1>1. Whole(link') /\ Pending(link') = Pending(link)
  BY KeptWhole DEF IInv
<1>2. Whole(link)' /\ Pending(link)' = Pending(link) /\ Fed' = Fed
  BY <1>1 DEF Whole, HasQueues, Pending, Fed
<1> QED BY <1>2 DEF IInv

LEMMA HearIInv == ASSUME IInv, Hear PROVE IInv'
<1>1. UNCHANGED <<live, fed, sent>>
  BY DEF Hear
<1>2. PICK sound \in Sounds :
        HearRaw(sound) \/ HearUnstarted(sound) \/ HearSwitch(sound) \/ HearV42(sound)
  BY DEF Hear
<1>3. HasQueues(link)
  BY DEF IInv, Whole
<1>4. CASE HearRaw(sound)
  BY <1>1, <1>3, <1>4, RawRxKeeps, KeptIInv DEF HearRaw, Kept
<1>5. CASE HearUnstarted(sound)
  BY <1>1, <1>3, <1>5, KeptIInv DEF HearUnstarted, Kept, Same
<1>6. CASE HearSwitch(sound)
  <2> DEFINE x == SwitchToRaw(link)
             heardAs == IF sound = "char" THEN "torn" ELSE sound
  <2>1. Switched(link, x)
    BY <1>3, SwitchToRawSwitches
  <2>2. Same(x, RawRx(x, heardAs))
    BY <2>1, RawRxKeeps DEF Switched
  <2>3. link' = RawRx(x, heardAs)
    BY <1>6 DEF HearSwitch
  <2> HIDE DEF x, heardAs
  <2>4. Kept(link, link')
    BY <2>1, <2>2, <2>3 DEF Switched, Same, Kept
  <2> QED BY <1>1, <2>4, KeptIInv
<1>7. CASE HearV42(sound)
  <2> DEFINE x == Probed(FlagSeen(link, sound), sound)
  <2>1. PICK d : link' = IfPending(Negotiated(Payload(Reported(x, d[2]), sound), sound))
    BY <1>7 DEF HearV42
  <2> DEFINE y == Negotiated(Payload(Reported(x, d[2]), sound), sound)
  <2>2. Same(link, x)
    BY <1>3, HeardKeeps DEF Same
  <2>3. Same(x, y)
    <3>1. Same(x, Reported(x, d[2]))
      BY <2>2, ReportedKeeps DEF Same
    <3>2. Same(Reported(x, d[2]), Payload(Reported(x, d[2]), sound))
      BY <3>1, HeardKeeps DEF Same
    <3>3. Same(Payload(Reported(x, d[2]), sound), y)
      BY <3>2, HeardKeeps DEF Same
    <3> QED BY <3>1, <3>2, <3>3 DEF Same
  <2>4. Same(link, y)
    BY <2>2, <2>3 DEF Same
  <2>5. Kept(y, link')
    BY <2>1, <2>4, IfPendingKeeps DEF Same
  <2> HIDE DEF x, y
  <2>6. Kept(link, link')
    BY <2>4, <2>5, KeptTwice DEF IInv
  <2> QED BY <1>1, <2>6, KeptIInv
<1> QED BY <1>2, <1>4, <1>5, <1>6, <1>7

LEMMA EndOfBlockIInv == ASSUME IInv, EndOfBlock PROVE IInv'
<1> DEFINE x == IfPending(link)
           y == Timed(x)
<1>1. Whole(x) /\ Pending(x) = Pending(link)
  BY IfPendingKeeps, KeptWhole DEF IInv, Whole
<1>2. Whole(y) /\ Pending(y) = Pending(x)
  BY <1>1, TimedKeeps, KeptWhole DEF Whole
<1>3. UNCHANGED <<fed, sent>> /\ live # "Left"
  BY DEF EndOfBlock
<1>4. CASE GivesUp(y)
  <2>1. live' = "Left" /\ link' = StartAnswer("raw")
    BY <1>4 DEF EndOfBlock
  <2>2. Whole(link)'
    BY <2>1, EmptySeq DEF StartAnswer, Whole, HasQueues
  <2> QED BY <1>3, <2>1, <2>2 DEF IInv
<1>5. CASE ~GivesUp(y)
  <2>1. link' = [y EXCEPT !.rx = <<>>]
    BY <1>5 DEF EndOfBlock
  <2> HIDE DEF y
  <2>2. Same(y, link')
    BY <1>2, <2>1 DEF Same, Whole, HasQueues
  <2>3. Whole(link') /\ Pending(link') = Pending(y)
    BY <1>2, <2>2, KeptWhole DEF Kept
  <2>4. Whole(link)' /\ Pending(link)' = Pending(link) /\ Fed' = Fed
    BY <1>1, <1>2, <1>3, <2>3 DEF Whole, HasQueues, Pending, Fed
  <2> QED BY <1>3, <2>4 DEF IInv
<1> QED BY <1>4, <1>5

\* A byte is sent: from the queue that is in use to the line.
LEMMA PlayIInv == ASSUME IInv, PlayAsync \/ PlayFrame PROVE IInv'
<1>1. /\ Whole(link) /\ sent \in Seq(Nat) /\ fed' = fed /\ live' = live /\ live # "Left"
      /\ sent \o Pending(link) = Fed /\ Fed' = Fed /\ fed \in Nat
  BY DEF IInv, PlayAsync, PlayFrame, Between, Fed
<1>2. CASE PlayAsync
  <2>1. /\ link.raw /\ link.rawTx # <<>> /\ sent' = Append(sent, Head(link.rawTx))
        /\ link' = [link EXCEPT !.rawTx = Tail(@)]
    BY <1>2 DEF PlayAsync
  <2>2. /\ sent' \in Seq(Nat) /\ Tail(link.rawTx) \in Seq(Nat)
        /\ sent' \o Tail(link.rawTx) = sent \o link.rawTx
    BY <1>1, <2>1, MoveHead DEF Whole
  <2>3. Whole(link)' /\ link'.raw /\ link'.rawTx = Tail(link.rawTx)
    BY <1>1, <2>1, <2>2 DEF Whole, HasQueues
  <2>4. Whole(link') /\ Pending(link)' = Pending(link')
    BY <2>3 DEF Whole, HasQueues, Pending
  <2>5. Pending(link)' = Tail(link.rawTx) /\ Pending(link) = link.rawTx
    BY <1>1, <2>1, <2>3, <2>4, PendingIs
  <2> QED BY <1>1, <2>2, <2>3, <2>5 DEF IInv
<1>3. CASE PlayFrame
  <2>1. ~link.raw
    BY <1>3 DEF PlayFrame, SendsV42
  <2>2. PICK k \in 1 .. Len(link.lapmTx) :
          /\ sent' = sent \o SubSeq(link.lapmTx, 1, k)
          /\ link' = [link EXCEPT !.lapmTx = SubSeq(@, k + 1, Len(@))]
    BY <1>3 DEF PlayFrame
  <2> DEFINE sentNow == SubSeq(link.lapmTx, 1, k)
             rest == SubSeq(link.lapmTx, k + 1, Len(link.lapmTx))
  <2>3. /\ sentNow \in Seq(Nat) /\ rest \in Seq(Nat)
        /\ (sent \o sentNow) \o rest = sent \o link.lapmTx
    BY <1>1, MoveFront DEF Whole
  <2> HIDE DEF sentNow, rest
  <2>4. sent' = sent \o sentNow /\ link' = [link EXCEPT !.lapmTx = rest]
    BY <2>2 DEF sentNow, rest
  <2>5. sent' \in Seq(Nat)
    BY <1>1, <2>3, <2>4, ConcatProperties
  <2>6. Whole(link)' /\ ~link'.raw /\ link'.lapmTx = rest
    BY <1>1, <2>1, <2>3, <2>4 DEF Whole, HasQueues
  <2>7. Whole(link') /\ Pending(link)' = Pending(link')
    BY <2>6 DEF Whole, HasQueues, Pending
  <2>8. Pending(link)' = rest /\ Pending(link) = link.lapmTx
    BY <1>1, <2>1, <2>6, <2>7, PendingIs
  <2> QED BY <1>1, <2>3, <2>4, <2>5, <2>6, <2>8 DEF IInv
<1> QED BY <1>2, <1>3

\* PPP hands over a byte: the queue that is in use takes it.
LEMMA FeedIInv == ASSUME IInv, FeedBytes PROVE IInv'
<1>1. /\ Whole(link) /\ sent \in Seq(Nat) /\ fed \in Nat /\ fed' = fed + 1 /\ sent' = sent
      /\ live # "Left" /\ sent \o Pending(link) = Fed
  BY DEF IInv, FeedBytes, Between
<1> DEFINE q == IF link.raw THEN link.rawTx ELSE link.lapmTx
<1>2. q \in Seq(Nat) /\ Pending(link) = q
  BY <1>1, PendingIs DEF Whole
<1>3. link' = IF link.raw THEN [link EXCEPT !.rawTx = Append(q, fed')]
                          ELSE [link EXCEPT !.lapmTx = Append(q, fed')]
  BY DEF FeedBytes
<1> HIDE DEF q
<1>4. /\ fed' \in Nat /\ Append(q, fed') \in Seq(Nat)
      /\ sent \o Append(q, fed') = Append(sent \o q, fed')
  <2>1. fed' \in Nat
    BY <1>1
  <2> QED BY <1>1, <1>2, <2>1, MoveIn, Zenon
<1>5. /\ Whole(link)' /\ link'.raw = link.raw
      /\ (IF link'.raw THEN link'.rawTx ELSE link'.lapmTx) = Append(q, fed')
  BY <1>1, <1>3, <1>4 DEF Whole, HasQueues
<1>6. Whole(link') /\ Pending(link)' = Pending(link')
  BY <1>5 DEF Whole, HasQueues, Pending
<1>7. Pending(link)' = Append(q, fed')
  BY <1>5, <1>6, PendingIs
<1>8. Fed' = Append(Fed, fed')
  BY <1>1 DEF Fed
<1> QED BY <1>1, <1>2, <1>4, <1>5, <1>7, <1>8 DEF IInv

LEMMA InitIInv == Init => IInv
<1> SUFFICES ASSUME Init PROVE IInv
  OBVIOUS
<1>1. PICK mode \in LinkModes : link = StartAnswer(mode)
  BY DEF Init
<1>2. Whole(link) /\ link.rawTx = <<>> /\ link.lapmTx = <<>>
  BY <1>1, EmptySeq DEF StartAnswer, Whole, HasQueues
<1>3. fed = 0 /\ sent = <<>>
  BY DEF Init
<1>4. sent \o Pending(link) = <<>>
  BY <1>2, <1>3, EmptySeq, ConcatEmptySeq DEF Pending
<1>5. Fed = <<>>
  BY <1>3 DEF Fed
<1> QED BY <1>2, <1>3, <1>4, <1>5, EmptySeq DEF IInv

LEMMA NextIInv == IInv /\ [Next]_vars => IInv'
<1> SUFFICES ASSUME IInv, [Next]_vars PROVE IInv'
  OBVIOUS
<1>1. HasQueues(link)
  BY DEF IInv, Whole
<1>2. CASE PumpReports
  <2>1. Same(link, link') /\ UNCHANGED <<live, fed, sent>>
    BY <1>1, <1>2 DEF PumpReports, HasQueues, Same
  <2> QED BY <2>1, KeptIInv DEF Kept
<1>3. CASE TrainingTimeElapses \/ UNCHANGED vars
  <2>1. Same(link, link') /\ UNCHANGED <<live, fed, sent>>
    BY <1>1, <1>3 DEF TrainingTimeElapses, vars, Same
  <2> QED BY <2>1, KeptIInv DEF Kept
<1>4. CASE PlayControl
  <2>1. PICK d : link' = Reported(link, d[2])
    BY <1>4 DEF PlayControl
  <2>2. UNCHANGED <<live, fed, sent>>
    BY <1>4 DEF PlayControl
  <2> QED BY <1>1, <2>1, <2>2, ReportedKeeps, KeptIInv DEF Kept
<1> QED BY <1>2, <1>3, <1>4, HearIInv, EndOfBlockIInv, PlayIInv, FeedIInv DEF Next

(* The two transmit queues, what was sent and what PPP handed over fit     *)
(* together in every reachable state.                                      *)
THEOREM Invariance == Spec => []IInv
  BY InitIInv, NextIInv, PTL DEF Spec

(* No byte of PPP is lost, repeated or overtaken while the link is up,     *)
(* whichever of its callers made switch_to_raw move the LAPM queue.        *)
THEOREM BytesInOrder == Spec => []SentInOrder
<1>1. IInv => SentInOrder
  <2> SUFFICES ASSUME IInv, live # "Left" PROVE (sent \o link.rawTx) \o link.lapmTx = Fed
    BY DEF SentInOrder, Fed
  <2>1. (sent \o link.rawTx) \o link.lapmTx = sent \o (link.rawTx \o link.lapmTx)
    BY Associative, Zenon DEF IInv, Whole
  <2> QED BY <2>1 DEF IInv, Pending
<1> QED BY <1>1, Invariance, PTL

-----------------------------------------------------------------------------
(* The received direction.  Every byte is of the receiver the link is in:  *)
(* a plain character, or what LAPM delivered, decompressed exactly if the  *)
(* caller compressed it.  What makes it last: while the link is not raw,   *)
(* the negotiated V.42bis is the caller's, it is active exactly once the   *)
(* link is connected, and SpanDSP delivers data on a connected link only.  *)

Plain  == [n: Nat, by: {"async"}, bis: {FALSE}]
Framed == [n: Nat, by: {"lapm"}, bis: {FALSE}] \cup [n: Nat, by: {"bis"}, bis: {TRUE}]

HasReceiver(x) ==
  {"raw", "conn", "neg", "active", "pending", "started", "sync", "rx", "probe", "probeSync"}
    \subseteq DOMAIN x

\* bis: the caller compresses.  data: SpanDSP delivers frames.
Receives(x, bis, data) ==
  /\ HasReceiver(x)
  /\ x.raw \in BOOLEAN /\ x.conn \in BOOLEAN /\ x.neg \in BOOLEAN /\ x.active \in BOOLEAN
  /\ x.probe \in Seq(Plain)
  /\ x.rx \in Seq(IF x.raw THEN Plain ELSE Framed)
  /\ x.raw => ~x.active
  /\ ~x.raw => (x.active <=> x.conn /\ x.neg) /\ (x.neg <=> bis) /\ (data => x.conn)

\* What the detection observers and the timers leave alone.
SameReceiver(x, y) ==
  /\ HasReceiver(y) /\ y.raw = x.raw /\ y.conn = x.conn /\ y.neg = x.neg
  /\ y.active = x.active /\ y.rx = x.rx

CallerOK == /\ {"said", "bis", "idle", "clean", "plain"} \subseteq DOMAIN caller
            /\ caller.said \in Nat /\ caller.bis \in BOOLEAN /\ caller.idle \in BOOLEAN

RInv == CallerOK /\ Receives(link, caller.bis, dsp = "data")

LEMMA DecodedPlain ==
  ASSUME CallerOK, NEW rx \in Seq(Plain), NEW sync, NEW sound
  PROVE  Decoded(rx, sync, sound) \in Seq(Plain)
<1>1. /\ [n |-> caller.said + 1, by |-> "async", bis |-> FALSE] \in Plain
      /\ [n |-> 0, by |-> "async", bis |-> FALSE] \in Plain
  BY DEF CallerOK, Plain
<1>2. \A e \in Plain : Append(rx, e) \in Seq(Plain)
  BY AppendProperties
<1> QED BY <1>1, <1>2 DEF Decoded

LEMMA SwitchReceives ==
  ASSUME NEW x, HasReceiver(x), x.probe \in Seq(Plain), x.conn \in BOOLEAN, x.neg \in BOOLEAN,
         NEW bis, NEW data
  PROVE  Receives(SwitchToRaw(x), bis, data) /\ SwitchToRaw(x).raw
<1>1. <<>> \in Seq(Plain)
  BY EmptySeq
<1> QED BY <1>1 DEF HasReceiver, Receives, SwitchToRaw

LEMMA IfPendingReceives ==
  ASSUME NEW x, NEW bis, NEW data, Receives(x, bis, data)
  PROVE  Receives(IfPending(x), bis, data)
  BY SwitchReceives DEF Receives, IfPending

LEMMA RawRxReceives ==
  ASSUME CallerOK, NEW x, NEW bis, NEW data, Receives(x, bis, data), x.raw, NEW sound,
         NEW bis2, NEW data2
  PROVE  Receives(RawRx(x, sound), bis2, data2)
<1>1. Decoded(x.rx, x.sync, sound) \in Seq(Plain)
  BY DecodedPlain DEF Receives
<1> QED BY <1>1 DEF HasReceiver, Receives, RawRx

LEMMA ProbedReceives ==
  ASSUME CallerOK, NEW x, NEW bis, NEW data, Receives(x, bis, data), NEW sound
  PROVE  /\ Receives(Probed(FlagSeen(x, sound), sound), bis, data)
         /\ SameReceiver(x, Probed(FlagSeen(x, sound), sound))
<1> DEFINE y == FlagSeen(x, sound)
<1>1. Receives(y, bis, data) /\ SameReceiver(x, y)
  BY DEF HasReceiver, Receives, SameReceiver, FlagSeen
<1> HIDE DEF y
<1>2. Decoded(y.probe, y.probeSync, sound) \in Seq(Plain)
  BY <1>1, DecodedPlain DEF Receives
<1>3. <<>> \in Seq(Plain)
  BY EmptySeq
<1>4. Receives(Probed(y, sound), bis, data) /\ SameReceiver(y, Probed(y, sound))
  BY <1>1, <1>2, <1>3 DEF HasReceiver, Receives, SameReceiver, Probed, Forgets
<1> QED BY <1>1, <1>4 DEF y, SameReceiver

\* A report keeps the link in step with SpanDSP's next state.
LEMMA ReportedReceives ==
  ASSUME NEW x, NEW bis, NEW data, Receives(x, bis, data), ~x.raw,
         NEW status, NEW data2,
         data2 => data \/ status \in {"DATA", "CONNECTED"},
         status = "DISCONNECTED" => ~data2
  PROVE  Receives(Reported(x, status), bis, data2) /\ Reported(x, status).raw = x.raw
<1>1. <<>> \in Seq(Plain)
  BY EmptySeq
<1>2. CASE status \in {"DATA", "CONNECTED"}
  <2> DEFINE y == Connect(x)
  <2>1. Receives(y, bis, data2) /\ y.raw = x.raw
    BY DEF HasReceiver, Receives, Connect
  <2> HIDE DEF y
  <2>2. /\ Receives([y EXCEPT !.adp = FALSE], bis, data2)
        /\ [y EXCEPT !.adp = FALSE].raw = x.raw
    BY <2>1 DEF HasReceiver, Receives
  <2>3. Reported(x, status) = y \/ Reported(x, status) = [y EXCEPT !.adp = FALSE]
    BY <1>2 DEF Reported, y
  <2> QED BY <2>1, <2>2, <2>3
<1>3. CASE status = "ESTABLISH"
  <2>1. Receives(Forgets(x), bis, data2) /\ Forgets(x).raw = x.raw
    BY <1>1, <1>3 DEF HasReceiver, Receives, Forgets
  <2> QED BY <1>3, <2>1 DEF HasReceiver, Receives, Reported
<1>4. CASE status = "DISCONNECTED"
  BY <1>4 DEF HasReceiver, Receives, Reported
<1>5. CASE status \notin {"DATA", "CONNECTED", "ESTABLISH", "DISCONNECTED"}
  BY <1>5 DEF HasReceiver, Receives, Reported
<1> QED BY <1>2, <1>3, <1>4, <1>5

LEMMA TimedReceives ==
  ASSUME NEW x, NEW bis, NEW data, Receives(x, bis, data)
  PROVE  Receives(Timed(x), bis, data)
<1> DEFINE y == [x EXCEPT !.linkT = x.linkT + 1, !.detT = x.detT + 1]
           z == [x EXCEPT !.linkT = x.linkT + 1]
<1>1. Receives(y, bis, data) /\ Receives(z, bis, data)
  BY DEF HasReceiver, Receives
<1>2. Timed(x) \in {x, y, z, SwitchToRaw(y), SwitchToRaw(z)}
  BY DEF Timed
<1> HIDE DEF y, z
<1>3. Receives(SwitchToRaw(y), bis, data) /\ Receives(SwitchToRaw(z), bis, data)
  BY <1>1, SwitchReceives DEF Receives
<1> QED BY <1>1, <1>2, <1>3

LEMMA CallerSaysOK ==
  ASSUME CallerOK, NEW sound, CallerSays(sound)
  PROVE  /\ CallerOK'
         /\ caller'.bis = IF sound \in Xids /\ Listening /\ ~link.raw THEN sound = "xidBis"
                                                                     ELSE caller.bis
<1>1. (IF Leaves(sound) THEN caller.said + 1 ELSE caller.said) \in Nat
  BY DEF CallerOK
<1> QED BY <1>1 DEF CallerOK, CallerSays

\* One bit heard through V.42: the observers, SpanDSP's answer, a payload, an
\* XID, and the switch it may have asked for.
LEMMA HearV42Receives ==
  ASSUME RInv, NEW sound \in Sounds, CallerSays(sound), HearV42(sound)
  PROVE  RInv'
<1> DEFINE x == Probed(FlagSeen(link, sound), sound)
<1>1. CallerOK' /\ ~link.raw /\ link.started
      /\ caller'.bis = IF sound \in Xids THEN sound = "xidBis" ELSE caller.bis
  BY CallerSaysOK DEF RInv, HearV42, Listening
<1>2. Receives(x, caller.bis, dsp = "data") /\ x.raw = link.raw
  BY ProbedReceives DEF RInv, SameReceiver
<1>3. PICK d \in DspHears(x.owns, sound) :
        /\ link' = IfPending(Negotiated(Payload(Reported(x, d[2]), sound), sound))
        /\ dsp' = IF link'.raw THEN "off" ELSE d[1]
  BY DEF HearV42
<1> HIDE DEF x
<1>4. /\ d[1] = "data" => dsp = "data" \/ d[2] \in {"DATA", "CONNECTED"}
      /\ d[2] = "DISCONNECTED" => d[1] # "data"
      /\ sound = "info" /\ dsp = "data" => d[2] = "none"
  BY DEF DspHears, Frames, Xids
<1> DEFINE y == Reported(x, d[2])
           z == Payload(y, sound)
<1>5. Receives(y, caller.bis, d[1] = "data") /\ ~y.raw
  BY <1>1, <1>2, <1>4, ReportedReceives
<1>6. sound = "info" /\ dsp = "data" => y.active = x.active /\ x.conn
  BY <1>1, <1>2, <1>4 DEF Reported, Receives
<1> HIDE DEF y
<1>7. Receives(z, caller.bis, d[1] = "data") /\ ~z.raw
  <2>1. CASE ~(sound = "info" /\ dsp = "data")
    BY <1>5, <2>1 DEF Payload
  <2>2. CASE sound = "info" /\ dsp = "data"
    <3> DEFINE e == [n |-> caller.said + 1, bis |-> caller.bis,
                     by |-> IF y.active THEN "bis" ELSE "lapm"]
    <3>1. y.active <=> caller.bis
      BY <1>1, <1>2, <1>6, <2>2 DEF Receives
    <3>2. e \in Framed
      <4>1. caller.said + 1 \in Nat /\ caller.bis \in BOOLEAN
        BY DEF RInv, CallerOK
      <4>2. CASE caller.bis
        <5>1. e = [n |-> caller.said + 1, bis |-> TRUE, by |-> "bis"]
          BY <3>1, <4>1, <4>2
        <5> QED BY <4>1, <5>1 DEF Framed
      <4>3. CASE ~caller.bis
        <5>1. e = [n |-> caller.said + 1, bis |-> FALSE, by |-> "lapm"]
          BY <3>1, <4>1, <4>3
        <5> QED BY <4>1, <5>1 DEF Framed
      <4> QED BY <4>2, <4>3
    <3>3. Append(y.rx, e) \in Seq(Framed)
      BY <1>5, <3>2, AppendProperties DEF Receives
    <3> QED BY <1>5, <2>2, <3>3 DEF Payload, Receives, HasReceiver
  <2> QED BY <2>1, <2>2
<1> HIDE DEF z
<1>8. Receives(Negotiated(z, sound), caller'.bis, d[1] = "data")
  BY <1>1, <1>7 DEF Negotiated, Receives, HasReceiver
<1>9. Receives(link', caller'.bis, d[1] = "data")
  BY <1>3, <1>8, IfPendingReceives DEF y, z
<1>10. Receives(link', caller'.bis, dsp' = "data")
  BY <1>3, <1>9 DEF Receives
<1> QED BY <1>1, <1>10 DEF RInv, Receives, HasReceiver

LEMMA HearRInv == ASSUME RInv, Hear PROVE RInv'
<1>1. PICK sound \in Sounds :
        /\ CallerSays(sound)
        /\ HearRaw(sound) \/ HearUnstarted(sound) \/ HearSwitch(sound) \/ HearV42(sound)
  BY DEF Hear
<1>2. CallerOK'
  BY <1>1, CallerSaysOK DEF RInv
<1>3. CASE HearRaw(sound)
  <2>1. Receives(link', caller'.bis, dsp' = "data")
    BY <1>3, RawRxReceives DEF HearRaw, RInv
  <2> QED BY <1>2, <2>1 DEF RInv, Receives, HasReceiver
<1>4. CASE HearUnstarted(sound)
  <2>1. caller'.bis = caller.bis
    BY <1>1, <1>4, CallerSaysOK DEF HearUnstarted, RInv
  <2> QED BY <1>2, <1>4, <2>1 DEF HearUnstarted, RInv, Receives, HasReceiver
<1>5. CASE HearSwitch(sound)
  <2> DEFINE heardAs == IF sound = "char" THEN "torn" ELSE sound
  <2>1. Receives(SwitchToRaw(link), caller.bis, TRUE) /\ SwitchToRaw(link).raw
    BY SwitchReceives DEF RInv, Receives
  <2>2. link' = RawRx(SwitchToRaw(link), heardAs)
    BY <1>5 DEF HearSwitch
  <2> HIDE DEF heardAs
  <2>3. Receives(link', caller'.bis, dsp' = "data")
    BY <2>1, <2>2, RawRxReceives DEF RInv
  <2> QED BY <1>2, <2>3 DEF RInv, Receives, HasReceiver
<1> QED BY <1>1, <1>3, <1>4, <1>5, HearV42Receives

LEMMA EndOfBlockRInv == ASSUME RInv, EndOfBlock PROVE RInv'
<1> DEFINE y == Timed(IfPending(link))
<1>1. Receives(y, caller.bis, dsp = "data")
  BY IfPendingReceives, TimedReceives DEF RInv
<1>2. <<>> \in Seq(Plain) /\ <<>> \in Seq(Framed)
  BY EmptySeq
<1>3. /\ link' = IF GivesUp(y) THEN StartAnswer("raw") ELSE [y EXCEPT !.rx = <<>>]
      /\ dsp' = IF link'.raw THEN "off" ELSE dsp
      /\ caller' = caller
  BY DEF EndOfBlock
<1> HIDE DEF y
<1>4. Receives(link', caller.bis, dsp' = "data")
  <2>1. CASE GivesUp(y)
    BY <1>2, <1>3, <2>1 DEF StartAnswer, Receives, HasReceiver
  <2>2. CASE ~GivesUp(y)
    BY <1>1, <1>2, <1>3, <2>2 DEF Receives, HasReceiver
  <2> QED BY <2>1, <2>2
<1> QED BY <1>3, <1>4 DEF RInv, Receives, HasReceiver, CallerOK

LEMMA PlayControlRInv == ASSUME RInv, PlayControl PROVE RInv'
<1>1. PICK d \in DspSends : dsp' = d[1] /\ link' = Reported(link, d[2])
  BY DEF PlayControl
<1>2. d[1] # "data"
  BY DEF DspSends
<1>3. Receives(link', caller.bis, FALSE)
  BY <1>1, ReportedReceives DEF RInv, PlayControl, SendsV42
<1>4. caller' = caller
  BY DEF PlayControl
<1> QED BY <1>1, <1>2, <1>3, <1>4 DEF RInv, Receives, HasReceiver, CallerOK

LEMMA InitRInv == Init => RInv
<1> SUFFICES ASSUME Init PROVE RInv
  OBVIOUS
<1>1. PICK mode \in LinkModes :
        /\ link = StartAnswer(mode)
        /\ dsp = CASE mode = "detect" -> "detect" [] mode = "lapm" -> "idle" [] OTHER -> "off"
  BY DEF Init
<1>2. dsp # "data" /\ (mode = "raw") \in BOOLEAN
  BY <1>1
<1>3. <<>> \in Seq(Plain) /\ <<>> \in Seq(Framed)
  BY EmptySeq
<1>4. CallerOK /\ caller.bis = FALSE
  BY DEF Init, CallerOK
<1>5. Receives(link, FALSE, FALSE)
  BY <1>1, <1>3 DEF StartAnswer, Receives, HasReceiver
<1> QED BY <1>2, <1>4, <1>5 DEF RInv, Receives

LEMMA NextRInv == RInv /\ [Next]_vars => RInv'
<1> SUFFICES ASSUME RInv, [Next]_vars PROVE RInv'
  OBVIOUS
<1>1. ASSUME /\ UNCHANGED <<dsp, caller>> /\ HasReceiver(link')
             /\ SameReceiver(link, link') /\ link'.probe = link.probe
      PROVE  RInv'
  BY <1>1 DEF RInv, Receives, HasReceiver, SameReceiver, CallerOK
<1>2. CASE PumpReports
  BY <1>1, <1>2 DEF PumpReports, RInv, Receives, HasReceiver, SameReceiver
<1>3. CASE PlayAsync \/ FeedBytes
  BY <1>1, <1>3 DEF PlayAsync, FeedBytes, RInv, Receives, HasReceiver, SameReceiver
<1>4. CASE PlayFrame
  BY <1>1, <1>4 DEF PlayFrame, RInv, Receives, HasReceiver, SameReceiver
<1>5. CASE TrainingTimeElapses \/ UNCHANGED vars
  BY <1>1, <1>5 DEF TrainingTimeElapses, vars, RInv, Receives, SameReceiver, HasReceiver
<1> QED BY <1>2, <1>3, <1>4, <1>5, HearRInv, EndOfBlockRInv, PlayControlRInv DEF Next

\* The receivers, the negotiated compression and SpanDSP's state fit together.
LEMMA ReceiverInvariance == Spec => []RInv
  BY InitRInv, NextRInv, PTL DEF Spec

(* PPP gets plain characters or what LAPM delivers, never a mixture, and   *)
(* V.42bis is on only while a LAPM link is up: for every order of reports  *)
(* and wherever the switch comes from.                                     *)
THEOREM ReceiversApart == Spec => []OneReceiver
<1>1. RInv => OneReceiver
  <2> SUFFICES ASSUME RInv PROVE OneReceiver
    OBVIOUS
  <2>1. \A i \in 1 .. Len(link.rx) : link.rx[i] \in (IF link.raw THEN Plain ELSE Framed)
    BY ElementOfSeq DEF RInv, Receives
  <2> QED BY <2>1 DEF RInv, Receives, OneReceiver, Plain, Framed
<1> QED BY <1>1, ReceiverInvariance, PTL

(* What LAPM delivered was decompressed exactly if the caller compressed   *)
(* it: lapm_monitor_frame_cb's reading of the XID lasts as long as the     *)
(* link does.                                                              *)
THEOREM DecompressedAsSent == Spec => []DecodedAsSent
<1>1. RInv => DecodedAsSent
  <2> SUFFICES ASSUME RInv PROVE DecodedAsSent
    OBVIOUS
  <2>1. \A i \in 1 .. Len(link.rx) : link.rx[i] \in Plain \cup Framed
    BY ElementOfSeq DEF RInv, Receives
  <2>2. \A e \in Plain \cup Framed : e.by # "async" => (e.by = "bis") = e.bis
    BY DEF Plain, Framed
  <2> QED BY <2>1, <2>2 DEF DecodedAsSent
<1> QED BY <1>1, ReceiverInvariance, PTL

-----------------------------------------------------------------------------
(* A caller without V.42.  As long as it has sent nothing but characters,  *)
(* the link either is raw and has its characters (Through), or still waits *)
(* (Waits): for V.42 to be detected, with the characters in the probe, or, *)
(* where V.42 is not detected but required, for ever.                      *)

Numbers(s) == [i \in 1 .. Len(s) |-> s[i].n]

HasDetection(x) ==
  {"mode", "det", "odp", "raw", "pending", "started", "sync", "rx", "probe", "probeSync"}
    \subseteq DOMAIN x

Through(x, idle, plain, to) ==
  /\ x.raw /\ ~x.pending /\ (x.sync <=> idle)
  /\ to \in Seq(Plain) /\ Numbers(to \o x.rx) = plain

\* The characters are in the probe, which the switch will replay.
Probes(x, idle, plain) ==
  /\ x.probe \in Seq(Plain) /\ Numbers(x.probe) = plain /\ (x.probeSync <=> idle)

Detects(x, d, idle, plain) ==
  /\ x.mode = "detect" /\ Probes(x, idle, plain) /\ (idle => x.started)
  /\ \/ x.det /\ ~x.pending /\ d = "detect"
     \/ x.pending /\ x.started /\ d = "off"

Waits(x, d, idle, plain) ==
  /\ ~x.raw /\ x.rx = <<>> /\ ~x.odp
  /\ \/ x.mode = "lapm" /\ ~x.det /\ ~x.pending /\ d = "idle"
     \/ Detects(x, d, idle, plain)

PInv ==
  /\ HasDetection(link) /\ RInv
  /\ live # "Left" /\ caller.clean =>
       \/ Through(link, caller.idle, caller.plain, taken)
       \/ taken = <<>> /\ Waits(link, dsp, caller.idle, caller.plain)

LEMMA NumbersTyped ==
  ASSUME NEW s \in Seq(Plain)
  PROVE  /\ Numbers(s) \in Seq(Nat) /\ Len(Numbers(s)) = Len(s)
         /\ \A i \in 1 .. Len(s) : Numbers(s)[i] = s[i].n
<1>1. Len(s) \in Nat /\ \A i \in 1 .. Len(s) : s[i].n \in Nat
  <2>1. Len(s) \in Nat /\ \A i \in 1 .. Len(s) : s[i] \in Plain
    BY ElementOfSeq, LenProperties
  <2> QED BY <2>1 DEF Plain
<1>2. Numbers(s) \in [1 .. Len(s) -> Nat]
  BY <1>1 DEF Numbers
<1>3. Numbers(s) \in Seq(Nat)
  BY <1>1, <1>2, SeqDef
<1>4. DOMAIN Numbers(s) = 1 .. Len(s)
  BY DEF Numbers
<1>5. Len(Numbers(s)) = Len(s)
  BY <1>1, <1>3, <1>4, LenProperties
<1> QED BY <1>3, <1>5 DEF Numbers

LEMMA NumbersOfAppend ==
  ASSUME NEW s \in Seq(Plain), NEW e \in Plain
  PROVE  Append(s, e) \in Seq(Plain) /\ Numbers(Append(s, e)) = Append(Numbers(s), e.n)
<1>1. Append(s, e) \in Seq(Plain) /\ Len(Append(s, e)) = Len(s) + 1
  BY AppendProperties
<1>2. e.n \in Nat /\ Len(s) \in Nat
  BY LenProperties DEF Plain
<1>3. /\ Append(Numbers(s), e.n) \in Seq(Nat) /\ Len(Append(Numbers(s), e.n)) = Len(s) + 1
  BY <1>2, NumbersTyped, AppendProperties
<1>4. /\ Numbers(Append(s, e)) \in Seq(Nat) /\ Len(Numbers(Append(s, e))) = Len(s) + 1
  BY <1>1, NumbersTyped
<1>5. ASSUME NEW i \in 1 .. Len(s) + 1
      PROVE  Numbers(Append(s, e))[i] = Append(Numbers(s), e.n)[i]
  <2>1. Numbers(Append(s, e))[i] = Append(s, e)[i].n
    BY <1>1, NumbersTyped
  <2>2. CASE i \in 1 .. Len(s)
    BY <1>2, <2>1, <2>2, NumbersTyped, AppendProperties
  <2>3. CASE i = Len(s) + 1
    BY <1>2, <2>1, <2>3, NumbersTyped, AppendProperties
  <2>4. i \in 1 .. Len(s) \/ i = Len(s) + 1
    BY <1>2
  <2> QED BY <2>2, <2>3, <2>4
<1> QED BY <1>1, <1>3, <1>4, <1>5, SeqEqual

\* Concatenation of sequences of characters is associative.
LEMMA PlainAssociative ==
  \A s, t, u \in Seq(Plain) : (s \o t) \o u = s \o (t \o u)
<1> SUFFICES ASSUME NEW s \in Seq(Plain), NEW t \in Seq(Plain), NEW u \in Seq(Plain)
             PROVE  (s \o t) \o u = s \o (t \o u)
  OBVIOUS
<1>1. \A S : \A v, w, x \in Seq(S) : (v \o w) \o x = v \o (w \o x)
  BY ConcatAssociative, SMTT(60)
<1> QED BY <1>1

LEMMA SwitchThrough ==
  ASSUME NEW x, HasDetection(x), NEW idle, NEW plain, Probes(x, idle, plain)
  PROVE  HasDetection(SwitchToRaw(x)) /\ Through(SwitchToRaw(x), idle, plain, <<>>)
<1> DEFINE y == SwitchToRaw(x)
<1>1. /\ HasDetection(y) /\ y.raw /\ ~y.pending /\ y.rx = x.probe /\ (y.sync <=> idle)
  BY DEF HasDetection, SwitchToRaw, Probes
<1>2. <<>> \in Seq(Plain) /\ <<>> \o x.probe = x.probe
  BY EmptySeq, ConcatEmptySeq DEF Probes
<1> QED BY <1>1, <1>2 DEF Through, Probes

\* A character the receiver decodes is the caller's next one.
LEMMA DecodedNumbers ==
  ASSUME CallerOK, NEW s \in Seq(Plain), NEW sync, NEW sound \in {"mark", "char"}
  PROVE  /\ Decoded(s, sync, sound) \in Seq(Plain)
         /\ Numbers(Decoded(s, sync, sound)) =
              IF sound = "char" /\ sync THEN Append(Numbers(s), caller.said + 1) ELSE Numbers(s)
<1> DEFINE e == [n |-> caller.said + 1, by |-> "async", bis |-> FALSE]
<1>1. e \in Plain /\ e.n = caller.said + 1
  BY DEF CallerOK, Plain
<1>2. Decoded(s, sync, sound) = IF sound = "char" /\ sync THEN Append(s, e) ELSE s
  BY DEF Decoded
<1> HIDE DEF e
<1> QED BY <1>1, <1>2, NumbersOfAppend

\* What a clean step of the caller does to the record of it.
LEMMA CleanStep ==
  ASSUME CallerOK, NEW sound, CallerSays(sound), caller'.clean
  PROVE  /\ caller.clean /\ sound \in {"mark", "char"} /\ (link.pending => sound = "mark")
         /\ caller'.idle <=> caller.idle \/ (sound = "mark" /\ Listening)
         /\ caller'.plain = IF sound = "char" /\ caller.idle
                             THEN Append(caller.plain, caller.said + 1) ELSE caller.plain
  BY DEF CallerOK, CallerSays

\* The raw receiver gets a mark or a character.
LEMMA RawRxThrough ==
  ASSUME CallerOK, NEW x, HasDetection(x), x.rx \in Seq(Plain), NEW idle \in BOOLEAN, NEW plain, NEW to,
         Through(x, idle, plain, to), NEW sound \in {"mark", "char"}
  PROVE  /\ HasDetection(RawRx(x, sound))
         /\ Through(RawRx(x, sound), idle \/ sound = "mark",
                    IF sound = "char" /\ idle THEN Append(plain, caller.said + 1) ELSE plain, to)
<1> DEFINE y == RawRx(x, sound)
           e == [n |-> caller.said + 1, by |-> "async", bis |-> FALSE]
<1>1. e \in Plain /\ e.n = caller.said + 1
  BY DEF CallerOK, Plain
<1>2. /\ HasDetection(y) /\ y.raw /\ ~y.pending
      /\ y.rx = (IF sound = "char" /\ idle THEN Append(x.rx, e) ELSE x.rx)
      /\ y.sync <=> idle \/ sound = "mark"
  BY DEF HasDetection, RawRx, Through, Decoded, Synced
<1> HIDE DEF e, y
<1>3. to \in Seq(Plain) /\ to \o x.rx \in Seq(Plain)
  BY ConcatProperties DEF Through
<1>4. CASE sound = "char" /\ idle
  <2>1. to \o Append(x.rx, e) = Append(to \o x.rx, e)
    <3>1. Append(x.rx, e) = x.rx \o <<e>> /\ Append(to \o x.rx, e) = (to \o x.rx) \o <<e>>
      BY <1>1, <1>3, AppendIsConcat
    <3>2. <<e>> \in Seq(Plain)
      BY <1>1
    <3>3. (to \o x.rx) \o <<e>> = to \o (x.rx \o <<e>>)
      BY <1>3, <3>2, PlainAssociative, Zenon
    <3> QED BY <3>1, <3>3
  <2>2. Numbers(to \o y.rx) = Append(plain, caller.said + 1)
    <3>1. Numbers(Append(to \o x.rx, e)) = Append(Numbers(to \o x.rx), e.n)
      BY <1>1, <1>3, NumbersOfAppend, Zenon
    <3>2. to \o y.rx = Append(to \o x.rx, e)
      BY <1>2, <1>4, <2>1
    <3>3. Numbers(to \o x.rx) = plain
      BY DEF Through
    <3> QED BY <1>1, <3>1, <3>2, <3>3
  <2> QED BY <1>2, <1>3, <1>4, <2>2 DEF Through, y
<1>5. CASE ~(sound = "char" /\ idle)
  BY <1>2, <1>3, <1>5 DEF Through, y
<1> QED BY <1>4, <1>5

LEMMA HearPInv == ASSUME PInv, Hear PROVE PInv'
<1>1. PICK sound \in Sounds :
        /\ CallerSays(sound)
        /\ HearRaw(sound) \/ HearUnstarted(sound) \/ HearSwitch(sound) \/ HearV42(sound)
  BY DEF Hear
<1>2. RInv' /\ CallerOK /\ UNCHANGED <<live, taken>> /\ live # "Left"
  BY HearRInv DEF PInv, RInv, Hear, Audible
<1>3. HasDetection(link')
  <2>1. HasDetection(link) => HasDetection(RawRx(link, sound))
    BY DEF HasDetection, RawRx
  <2>2. ASSUME NEW x, HasDetection(x), NEW d
        PROVE  /\ HasDetection(FlagSeen(x, sound)) /\ HasDetection(Probed(x, sound))
               /\ HasDetection(Reported(x, d)) /\ HasDetection(Payload(x, sound))
               /\ HasDetection(Negotiated(x, sound)) /\ HasDetection(IfPending(x))
    <3>1. HasDetection(FlagSeen(x, sound)) /\ HasDetection(Probed(x, sound))
      BY <2>2 DEF HasDetection, FlagSeen, Probed, Forgets
    <3>2. HasDetection(Reported(x, d))
      BY <2>2 DEF HasDetection, Reported, Connect, Forgets
    <3>3. HasDetection(Payload(x, sound)) /\ HasDetection(Negotiated(x, sound))
      BY <2>2 DEF HasDetection, Payload, Negotiated
    <3>4. HasDetection(IfPending(x))
      BY <2>2 DEF HasDetection, IfPending, SwitchToRaw
    <3> QED BY <3>1, <3>2, <3>3, <3>4
  <2>3. ASSUME NEW x, HasDetection(x), NEW s
        PROVE  HasDetection(RawRx(SwitchToRaw(x), s))
    BY <2>3 DEF HasDetection, RawRx, SwitchToRaw
  <2>4. CASE HearV42(sound)
    <3> DEFINE x == Probed(FlagSeen(link, sound), sound)
    <3>1. HasDetection(x)
      BY <2>2 DEF PInv
    <3>2. PICK d : link' = IfPending(Negotiated(Payload(Reported(x, d[2]), sound), sound))
      BY <2>4 DEF HearV42
    <3> HIDE DEF x
    <3> QED BY <2>2, <3>1, <3>2
  <2> QED BY <1>1, <2>1, <2>3, <2>4 DEF HearRaw, HearUnstarted, HearSwitch, PInv
<1>4. SUFFICES ASSUME caller'.clean
               PROVE  \/ Through(link', caller'.idle, caller'.plain, taken)
                      \/ taken = <<>> /\ Waits(link', dsp', caller'.idle, caller'.plain)
  <2>1. ASSUME \/ Through(link', caller'.idle, caller'.plain, taken)
               \/ taken = <<>> /\ Waits(link', dsp', caller'.idle, caller'.plain)
        PROVE  \/ Through(link, caller.idle, caller.plain, taken)'
               \/ (taken = <<>> /\ Waits(link, dsp, caller.idle, caller.plain))'
    BY <1>2, <2>1 DEF Through, Waits, Detects, Probes, Numbers
  <2>2. HasDetection(link)'
    BY <1>3 DEF HasDetection
  <2> QED BY <1>2, <2>1, <2>2 DEF PInv
<1>5. /\ caller.clean /\ sound \in {"mark", "char"} /\ (link.pending => sound = "mark")
      /\ caller'.idle <=> caller.idle \/ (sound = "mark" /\ Listening)
      /\ caller'.plain = IF sound = "char" /\ caller.idle
                         THEN Append(caller.plain, caller.said + 1) ELSE caller.plain
  BY <1>1, <1>2, <1>4, CleanStep
<1>6. CASE Through(link, caller.idle, caller.plain, taken)
  <2>1. HearRaw(sound) /\ Listening
    BY <1>1, <1>6 DEF Through, HearUnstarted, HearSwitch, HearV42, Listening
  <2>2. link.rx \in Seq(Plain)
    BY <1>6 DEF Through, PInv, RInv, Receives
  <2>3. Through(link', caller.idle \/ sound = "mark", caller'.plain, taken)
    BY <1>2, <1>5, <1>6, <2>1, <2>2, RawRxThrough DEF HearRaw, PInv, CallerOK
  <2> QED BY <1>5, <2>1, <2>3 DEF Through
<1>7. CASE taken = <<>> /\ Waits(link, dsp, caller.idle, caller.plain)
  <2>1. ~link.raw
    BY <1>7 DEF Waits
  <2>2. CASE HearUnstarted(sound)
    <3>1. ~Listening /\ link' = link /\ dsp' = dsp
      BY <2>2 DEF HearUnstarted
    <3>2. (caller'.idle <=> caller.idle) /\ (link.mode = "detect" => ~caller.idle)
      BY <1>5, <1>7, <3>1 DEF Listening, Waits, Detects
    <3>3. link.mode = "detect" => caller'.plain = caller.plain
      BY <1>5, <3>2
    <3> QED BY <1>7, <3>1, <3>2, <3>3 DEF Waits, Detects, Probes
  <2>3. CASE HearSwitch(sound)
    <3>1. /\ sound = "mark" /\ Probes(link, caller.idle, caller.plain) /\ link.started
          /\ link' = RawRx(SwitchToRaw(link), sound)
      BY <1>5, <1>7, <2>3 DEF HearSwitch, Waits, Detects
    <3>2. /\ HasDetection(SwitchToRaw(link))
          /\ Through(SwitchToRaw(link), caller.idle, caller.plain, <<>>)
      BY <3>1, SwitchThrough DEF PInv
    <3>3. SwitchToRaw(link).rx \in Seq(Plain)
      <4>1. SwitchToRaw(link).rx = link.probe
        BY DEF SwitchToRaw, PInv, HasDetection
      <4> QED BY <3>1, <4>1 DEF Probes
    <3>4. Through(link', caller.idle \/ sound = "mark", caller'.plain, <<>>)
      BY <1>2, <1>5, <3>1, <3>2, <3>3, RawRxThrough DEF CallerOK
    <3> QED BY <1>5, <1>7, <3>1, <3>4 DEF Through, Listening
  <2>4. CASE HearV42(sound)
    <3> DEFINE x == Probed(FlagSeen(link, sound), sound)
    <3>1. ~link.pending /\ link.started /\ Listening
      BY <2>4 DEF HearV42, Listening
    <3>2. FlagSeen(link, sound) = link
      BY <1>5 DEF FlagSeen, Frames, Xids
    <3>3. /\ ~x.raw /\ x.rx = <<>> /\ ~x.odp /\ ~x.pending /\ x.started /\ x.mode = link.mode
          /\ x.det = link.det
      BY <1>5, <1>7, <3>1, <3>2 DEF Probed, Waits, PInv, HasDetection
    <3>4. CASE link.mode = "detect"
      <4>1. link.det /\ dsp = "detect" /\ Probes(link, caller.idle, caller.plain)
        BY <1>7, <3>1, <3>4 DEF Waits, Detects
      <4>2. x = [link EXCEPT !.probe = Decoded(link.probe, link.probeSync, sound),
                             !.probeSync = Synced(link.probeSync, sound)]
        BY <1>5, <3>2, <4>1 DEF Probed
      <4>3. /\ x.probe = Decoded(link.probe, link.probeSync, sound)
            /\ x.probeSync <=> caller.idle \/ sound = "mark"
        BY <1>5, <4>1, <4>2 DEF PInv, HasDetection, Probes, Synced
      <4> HIDE DEF x
      <4>4. x.probe \in Seq(Plain) /\ Numbers(x.probe) = caller'.plain
        <5>1. /\ link.probe \in Seq(Plain) /\ Numbers(link.probe) = caller.plain
              /\ link.probeSync <=> caller.idle
          BY <4>1 DEF Probes
        <5>2. /\ Decoded(link.probe, link.probeSync, sound) \in Seq(Plain)
              /\ Numbers(Decoded(link.probe, link.probeSync, sound)) =
                   IF sound = "char" /\ link.probeSync
                   THEN Append(Numbers(link.probe), caller.said + 1) ELSE Numbers(link.probe)
          BY <1>2, <1>5, <5>1, DecodedNumbers
        <5> QED BY <1>5, <4>3, <5>1, <5>2
      <4>5. Waits(x, "detect", caller'.idle, caller'.plain)
        BY <1>5, <3>1, <3>3, <3>4, <4>1, <4>3, <4>4 DEF Waits, Detects, Probes
      <4>6. link' = x /\ dsp' = "detect"
        <5>1. PICK d \in DspHears(x.owns, sound) :
                 /\ link' = IfPending(Negotiated(Payload(Reported(x, d[2]), sound), sound))
                 /\ dsp' = IF link'.raw THEN "off" ELSE d[1]
          BY <2>4 DEF HearV42, x
        <5>2. d = <<dsp, "none">>
          BY <1>5, <5>1 DEF DspHears, Frames, Xids
        <5>3. Reported(x, d[2]) = x
          BY <5>2 DEF Reported
        <5>4. Negotiated(Payload(x, sound), sound) = x /\ IfPending(x) = x
          BY <1>5, <3>3 DEF Payload, Negotiated, Xids, IfPending
        <5> QED BY <3>3, <4>1, <5>1, <5>2, <5>3, <5>4
      <4> QED BY <1>7, <4>5, <4>6
    <3>5. CASE link.mode # "detect"
      <4>1. link.mode = "lapm" /\ ~link.det /\ dsp = "idle"
        BY <1>7, <3>5 DEF Waits, Detects
      <4>2. x = link
        BY <3>2, <4>1 DEF Probed
      <4>3. link' = link /\ dsp' = "idle"
        <5>1. PICK d \in DspHears(x.owns, sound) :
                 /\ link' = IfPending(Negotiated(Payload(Reported(x, d[2]), sound), sound))
                 /\ dsp' = IF link'.raw THEN "off" ELSE d[1]
          BY <2>4 DEF HearV42
        <5>2. d = <<dsp, "none">>
          BY <1>5, <5>1 DEF DspHears, Frames, Xids
        <5>3. Reported(x, d[2]) = x
          BY <5>2 DEF Reported
        <5>4. Negotiated(Payload(x, sound), sound) = x /\ IfPending(x) = x
          BY <1>5, <3>3 DEF Payload, Negotiated, Xids, IfPending
        <5> HIDE DEF x
        <5> QED BY <3>3, <4>1, <4>2, <5>1, <5>2, <5>3, <5>4
      <4> QED BY <1>7, <3>1, <4>1, <4>3 DEF Waits
    <3> QED BY <3>4, <3>5
  <2> QED BY <1>1, <2>1, <2>2, <2>3, <2>4 DEF HearRaw
<1> QED BY <1>2, <1>5, <1>6, <1>7 DEF PInv

\* Only these fields of the link, and what PPP has, matter to PInv.
SameProbe(x, y) ==
  /\ x.mode = y.mode /\ x.det = y.det /\ x.odp = y.odp /\ x.raw = y.raw /\ x.pending = y.pending
  /\ x.sync = y.sync /\ x.rx = y.rx /\ x.probe = y.probe /\ x.probeSync = y.probeSync
  /\ x.started => y.started

LEMMA SamePInv ==
  ASSUME PInv, RInv', HasDetection(link'), SameProbe(link, link'),
         UNCHANGED <<dsp, caller, live, taken>>
  PROVE  PInv'
<1>1. SUFFICES ASSUME live # "Left", caller.clean
               PROVE  \/ Through(link', caller.idle, caller.plain, taken)
                      \/ taken = <<>> /\ Waits(link', dsp, caller.idle, caller.plain)
  <2>1. ASSUME \/ Through(link', caller.idle, caller.plain, taken)
               \/ taken = <<>> /\ Waits(link', dsp, caller.idle, caller.plain)
        PROVE  \/ Through(link, caller.idle, caller.plain, taken)'
               \/ (taken = <<>> /\ Waits(link, dsp, caller.idle, caller.plain))'
    BY <2>1 DEF Through, Waits, Detects, Probes, Numbers
  <2>2. HasDetection(link)'
    BY DEF HasDetection
  <2> QED BY <1>1, <2>1, <2>2 DEF PInv
<1>2. CASE Through(link, caller.idle, caller.plain, taken)
  BY <1>2 DEF Through, SameProbe
<1>3. CASE taken = <<>> /\ Waits(link, dsp, caller.idle, caller.plain)
  BY <1>3 DEF Waits, Detects, Probes, SameProbe
<1> QED BY <1>1, <1>2, <1>3 DEF PInv

\* What the end of a block does to the link before the bytes are taken.
LEMMA TimedThrough ==
  ASSUME PInv, live # "Left", caller.clean
  PROVE  LET x == Timed(IfPending(link)) IN
         \/ Through(x, caller.idle, caller.plain, taken) /\ x.rx \in Seq(Plain)
         \/ taken = <<>> /\ Waits(x, dsp, caller.idle, caller.plain)
<1> DEFINE y == IfPending(link)
           x == Timed(y)
           idle == caller.idle
           plain == caller.plain
<1> SUFFICES \/ Through(x, idle, plain, taken) /\ x.rx \in Seq(Plain)
             \/ taken = <<>> /\ Waits(x, dsp, idle, plain)
  OBVIOUS
<1>1. ASSUME NEW z, HasDetection(z), Probes(z, idle, plain)
      PROVE  /\ Through(SwitchToRaw(z), idle, plain, <<>>)
             /\ SwitchToRaw(z).raw /\ SwitchToRaw(z).rx \in Seq(Plain)
  <2>1. Through(SwitchToRaw(z), idle, plain, <<>>) /\ SwitchToRaw(z).raw
    BY <1>1, SwitchThrough DEF Through
  <2>2. SwitchToRaw(z).rx = z.probe
    BY <1>1 DEF SwitchToRaw, HasDetection
  <2> QED BY <1>1, <2>1, <2>2 DEF Probes
<1>2. ASSUME NEW z, z.raw PROVE Timed(z) = z
  BY <1>2 DEF Timed
<1>3. CASE Through(link, idle, plain, taken)
  <2>1. y = link
    BY <1>3 DEF IfPending, Through
  <2>2. link.raw /\ link.rx \in Seq(Plain)
    BY <1>3 DEF Through, PInv, RInv, Receives
  <2> QED BY <1>2, <1>3, <2>1, <2>2
<1>4. CASE taken = <<>> /\ Waits(link, dsp, idle, plain)
  <2>1. CASE link.pending
    <3>1. y = SwitchToRaw(link) /\ Probes(link, idle, plain)
      BY <1>4, <2>1 DEF IfPending, Waits, Detects
    <3>2. Through(y, idle, plain, <<>>) /\ y.raw /\ y.rx \in Seq(Plain)
      BY <1>1, <3>1 DEF PInv
    <3> HIDE DEF y
    <3> QED BY <1>2, <1>4, <3>2
  <2>2. CASE ~link.pending
    <3>1. y = link
      BY <2>2 DEF IfPending
    <3>2. CASE link.mode = "lapm"
      BY <1>4, <3>1, <3>2 DEF Timed
    <3>3. CASE link.mode # "lapm"
      <4>1. Detects(link, dsp, idle, plain) /\ link.det
        BY <1>4, <2>2, <3>3 DEF Waits, Detects
      <4> DEFINE z == [link EXCEPT !.linkT = link.linkT + 1, !.detT = link.detT + 1]
      <4>2. HasDetection(z) /\ Probes(z, idle, plain) /\ SameProbe(link, z)
        BY <4>1 DEF PInv, HasDetection, Detects, Probes, SameProbe
      <4>3. x = link \/ x = z \/ x = SwitchToRaw(z)
        BY <3>1, <4>1 DEF Timed
      <4> HIDE DEF x, z
      <4>4. CASE x = link
        BY <1>4, <4>4
      <4>5. CASE x = z
        BY <1>4, <4>2, <4>5 DEF Waits, Detects, Probes, SameProbe
      <4>6. CASE x = SwitchToRaw(z)
        BY <1>1, <1>4, <4>2, <4>6
      <4> QED BY <4>3, <4>4, <4>5, <4>6 DEF x
    <3> QED BY <3>2, <3>3
  <2> QED BY <2>1, <2>2
<1> QED BY <1>3, <1>4 DEF PInv

LEMMA EndOfBlockPInv == ASSUME PInv, EndOfBlock PROVE PInv'
<1> DEFINE x == Timed(IfPending(link))
<1>1. /\ taken' = taken \o x.rx /\ caller' = caller /\ live # "Left"
      /\ live' # "Left" => ~GivesUp(x)
      /\ link' = IF GivesUp(x) THEN StartAnswer("raw") ELSE [x EXCEPT !.rx = <<>>]
      /\ dsp' = IF link'.raw THEN "off" ELSE dsp
  BY DEF EndOfBlock
<1>2. RInv'
  BY EndOfBlockRInv DEF PInv
<1>3. HasDetection(x)
  <2>1. HasDetection(SwitchToRaw(link)) /\ HasDetection(IfPending(link))
    BY DEF PInv, HasDetection, IfPending, SwitchToRaw
  <2>2. ASSUME NEW z, HasDetection(z) PROVE HasDetection(Timed(z))
    BY <2>2 DEF HasDetection, Timed, SwitchToRaw
  <2> QED BY <2>1, <2>2
<1>4. live # "Left" /\ caller.clean =>
        \/ Through(x, caller.idle, caller.plain, taken) /\ x.rx \in Seq(Plain)
        \/ taken = <<>> /\ Waits(x, dsp, caller.idle, caller.plain)
  BY TimedThrough
<1> HIDE DEF x
<1>5. HasDetection(link')
  BY <1>1, <1>3 DEF HasDetection, StartAnswer
<1>6. SUFFICES ASSUME live' # "Left", caller.clean
               PROVE  \/ Through(link', caller.idle, caller.plain, taken')
                      \/ taken' = <<>> /\ Waits(link', dsp', caller.idle, caller.plain)
  <2>1. ASSUME \/ Through(link', caller.idle, caller.plain, taken')
               \/ taken' = <<>> /\ Waits(link', dsp', caller.idle, caller.plain)
        PROVE  \/ Through(link, caller.idle, caller.plain, taken)'
               \/ (taken = <<>> /\ Waits(link, dsp, caller.idle, caller.plain))'
    BY <1>1, <2>1 DEF Through, Waits, Detects, Probes, Numbers
  <2>2. HasDetection(link)'
    BY <1>5 DEF HasDetection
  <2> QED BY <1>1, <1>2, <1>6, <2>1, <2>2 DEF PInv
<1>7. link' = [x EXCEPT !.rx = <<>>]
  BY <1>1, <1>6
<1>8. CASE Through(x, caller.idle, caller.plain, taken) /\ x.rx \in Seq(Plain)
  <2>1. taken' \in Seq(Plain) /\ taken' \o <<>> = taken'
    <3>1. taken' \in Seq(Plain)
      BY <1>1, <1>8, ConcatProperties DEF Through
    <3> QED BY <3>1, ConcatEmptySeq
  <2>2. link'.rx = <<>> /\ link'.raw /\ ~link'.pending /\ (link'.sync <=> caller.idle)
    BY <1>3, <1>7, <1>8 DEF Through, HasDetection
  <2>3. Numbers(taken' \o link'.rx) = caller.plain
    BY <1>1, <1>8, <2>1, <2>2 DEF Through
  <2> QED BY <2>1, <2>2, <2>3 DEF Through
<1>9. CASE taken = <<>> /\ Waits(x, dsp, caller.idle, caller.plain)
  <2>1. taken' = <<>>
    BY <1>1, <1>9 DEF Waits
  <2>2. ~link'.raw /\ link'.rx = <<>> /\ SameProbe(link', x) /\ dsp' = dsp /\ link'.started = x.started
    BY <1>1, <1>3, <1>7, <1>9 DEF SameProbe, HasDetection, Waits
  <2> QED BY <1>9, <2>1, <2>2 DEF Waits, Detects, Probes, SameProbe
<1> QED BY <1>1, <1>4, <1>6, <1>8, <1>9

LEMMA PlayControlPInv == ASSUME PInv, PlayControl PROVE PInv'
<1>1. PICK d \in DspSends : dsp' = d[1] /\ link' = Reported(link, d[2])
  BY DEF PlayControl
<1>2. RInv' /\ UNCHANGED <<caller, live, taken>> /\ ~link.raw /\ link.started
  BY PlayControlRInv DEF PInv, PlayControl, SendsV42
<1>3. HasDetection(link')
  BY <1>1 DEF PInv, HasDetection, Reported, Connect, Forgets
<1>4. ASSUME live # "Left", caller.clean
      PROVE  taken = <<>> /\ Waits(link', dsp', caller.idle, caller.plain)
  <2>1. taken = <<>> /\ Waits(link, dsp, caller.idle, caller.plain)
    BY <1>2, <1>4 DEF PInv, Through
  <2>2. dsp = "detect" /\ d = <<"off", "UNSUPPORTED">>
    BY <1>1, <2>1 DEF Waits, Detects, DspSends
  <2>3. link' = [link EXCEPT !.pending = TRUE, !.det = FALSE] /\ dsp' = "off"
    BY <1>1, <2>2 DEF Reported
  <2>4. Detects(link, dsp, caller.idle, caller.plain)
    BY <2>1, <2>2 DEF Waits
  <2>5. Detects(link', "off", caller.idle, caller.plain)
    BY <1>2, <2>3, <2>4 DEF PInv, HasDetection, Detects, Probes
  <2> QED BY <2>1, <2>3, <2>5 DEF PInv, HasDetection, Waits
<1>5. ASSUME live # "Left", caller.clean
      PROVE  (taken = <<>> /\ Waits(link, dsp, caller.idle, caller.plain))'
  BY <1>2, <1>4, <1>5 DEF Waits, Detects, Probes, Numbers
<1>6. HasDetection(link)'
  BY <1>3 DEF HasDetection
<1> QED BY <1>2, <1>5, <1>6 DEF PInv

LEMMA InitPInv == Init => PInv
<1> SUFFICES ASSUME Init PROVE PInv
  OBVIOUS
<1>1. PICK mode \in LinkModes :
        /\ link = StartAnswer(mode)
        /\ dsp = CASE mode = "detect" -> "detect" [] mode = "lapm" -> "idle" [] OTHER -> "off"
  BY DEF Init
<1>2. RInv /\ HasDetection(link) /\ taken = <<>> /\ caller.plain = <<>> /\ ~caller.idle
  BY <1>1, InitRInv DEF Init, HasDetection, StartAnswer
<1>3. <<>> \in Seq(Plain) /\ <<>> \o <<>> = <<>>
  BY EmptySeq, ConcatEmptySeq
<1>4. Numbers(<<>>) = <<>>
  BY DEF Numbers
<1>5. mode \in {"raw", "detect", "lapm"}
  BY ModesKnown
<1>6. CASE mode = "raw"
  BY <1>1, <1>2, <1>3, <1>4, <1>6 DEF PInv, Through, StartAnswer
<1>7. CASE mode = "detect"
  BY <1>1, <1>2, <1>3, <1>4, <1>7 DEF PInv, Waits, Detects, Probes, StartAnswer
<1>8. CASE mode = "lapm"
  BY <1>1, <1>2, <1>8 DEF PInv, Waits, StartAnswer
<1> QED BY <1>5, <1>6, <1>7, <1>8

LEMMA NextPInv == PInv /\ [Next]_vars => PInv'
<1> SUFFICES ASSUME PInv, [Next]_vars PROVE PInv'
  OBVIOUS
<1>1. RInv'
  BY NextRInv DEF PInv
<1>2. CASE PumpReports
  <2>1. PICK signal \in Signals :
          link' = [link EXCEPT !.carrier = signal = "trained",
                               !.failed  = @ \/ signal = "failed",
                               !.started = @ \/ (signal = "trained" /\ link.mode # "raw")]
    BY <1>2 DEF PumpReports
  <2>2. SameProbe(link, link') /\ HasDetection(link')
    BY <2>1 DEF PInv, SameProbe, HasDetection
  <2> QED BY <1>1, <1>2, <2>2, SamePInv DEF PumpReports
<1>3. CASE PlayAsync \/ FeedBytes
  <2>1. SameProbe(link, link') /\ HasDetection(link')
    BY <1>3 DEF PInv, PlayAsync, FeedBytes, SameProbe, HasDetection
  <2> QED BY <1>1, <1>3, <2>1, SamePInv DEF PlayAsync, FeedBytes
<1>4. CASE PlayFrame
  <2>1. SameProbe(link, link') /\ HasDetection(link')
    BY <1>4 DEF PInv, PlayFrame, SameProbe, HasDetection
  <2> QED BY <1>1, <1>4, <2>1, SamePInv DEF PlayFrame
<1>5. CASE TrainingTimeElapses \/ UNCHANGED vars
  <2>1. SameProbe(link, link') /\ HasDetection(link')
    BY <1>5 DEF PInv, TrainingTimeElapses, vars, SameProbe
  <2> QED BY <1>1, <1>5, <2>1, SamePInv DEF TrainingTimeElapses, vars
<1> QED BY <1>2, <1>3, <1>4, <1>5, HearPInv, EndOfBlockPInv, PlayControlPInv DEF Next

(* A caller without V.42 is heard from its first idle line on: whichever   *)
(* of the four ways the link turns raw, and in whatever block, its         *)
(* characters reach PPP once and in order, the ones of the detection time  *)
(* before the rest.                                                        *)
THEOREM PlainHeard == Spec => []PlainCallerHeard
<1>1. PInv => PlainCallerHeard
  BY DEF PInv, Through, Waits, Numbers, PlainCallerHeard
<1> QED BY <1>1, InitPInv, NextPInv, PTL DEF Spec
=============================================================================
