-------------------------- MODULE LiveModem_proofs --------------------------
(***************************************************************************)
(* The start-up ladder keeps its objects, its queue and its patience in    *)
(* step with its state, for any number of calls.  The three invariants are *)
(* inductive nearly as they stand; what they need besides is that nothing  *)
(* is queued where ANSam is sent by V.8 (Fresh).  Start functions have a   *)
(* lemma each, then each invariant goes through the actions.               *)
(***************************************************************************)
EXTENDS LiveModem, SequenceTheorems, TLAPS

Abandoned == {"V90Fallback", "V92Fallback"}

HasFields(x) ==
  {"state", "tx", "media", "stage", "v8", "rate", "p3", "dil", "p4"} \subseteq DOMAIN x

\* The three invariants, of a modem x.
Ready(x) ==
  /\ x.state = "V8Negotiating" => x.v8
  /\ x.state \in V22States => x.rate # 0
  /\ x.state \in UsesPhase3 \cup {"V90Data"} => x.p3 # "none"
  /\ x.state \in UsesDescriptor => x.dil = "new"
  /\ x.state \in UsesPhase4 => x.p4
Fresh(x) ==
  /\ x.state \notin Abandoned => x.tx \in Seq(MayPlay(x.state))
  /\ x.state = "V92ANSam" /\ x.v8 => x.tx = <<>>
Unblind(x) == span /\ Ladder /\ x.stage > 0 => x.media

Equipped(x) == HasFields(x) /\ Ready(x) /\ Unblind(x)
Good(x) == Equipped(x) /\ Fresh(x)
IInv == mode \in Modes /\ span \in BOOLEAN /\ Good(m)

\* The states in which nothing may be queued.
Silent == {"Idle", "MediaWait", "V8Negotiating", "V90Phase2Silence", "V90ToneB",
           "V90ToneBReversed", "V90WaitSecondToneA", "V90ProbeToneB", "V90ProbeToneBReversed",
           "V90ToneRetryWaitToneA", "V90Phase2RttComplete", "V90RecvRemoteL1",
           "V90RecvRemoteL2", "V90WaitINFO1a", "V90Phase3WaitAnalogue", "V90Data",
           "V92ShortPhase2Reached", "V22Training", "V22Data", "V21Carrier", "V21Data"}

LEMMA SilentPlaysNothing == \A s \in Silent : MayPlay(s) = {}
  BY DEF Silent, MayPlay, Sounds

LEMMA PlayTable ==
  /\ MayPlay("V90INFO0d") = {"INFO0d"} /\ MayPlay("V90INFO1d") = {"INFO1d"}
  /\ MayPlay("V90SendL1") = {"L1"} /\ MayPlay("V90SendL2") = {"L2"}
  /\ MayPlay("V90Phase3SendSd") = {"silence", "Sd"}
  /\ MayPlay("V90Phase3SendTRN1d") = {"TRN1d"}
  /\ MayPlay("V90Phase3SendJd") = {"Jd"} /\ MayPlay("V90Phase3SendJdBar") = {"Jd", "JdBar"}
  /\ MayPlay("V90Phase3SendDIL") = {"DIL"} /\ MayPlay("V90Phase4WaitCPt") = {"Ri"}
  /\ MayPlay("V90Phase4SendTRN2d") = {"Ri", "RiBar", "TRN2d"}
  /\ MayPlay("V90Phase4SendMP") = {"MP"}
  /\ MayPlay("V90Phase4SendEd") = {"Ri", "RiBar", "TRN2d", "MP", "Ed"}
  /\ MayPlay("V90RetrainSilence") = {"silence"}
  /\ MayPlay("V92AnswerSilence") = {"silence"} /\ MayPlay("V92ANSam") = {"ANSam"}
  /\ MayPlay("V92QCA1d") = {"QCA1d"} /\ MayPlay("V92Silence75") = {"silence"}
  /\ MayPlay("V92QTS") = {"QTS"} /\ MayPlay("V92ANSpcm") = {"ANSpcm"}
  /\ MayPlay("V92PostToneqSilence") = {"silence"}
  /\ MayPlay("V21ANS") = {"ANS"} /\ MayPlay("V21Silence75") = {"silence"}
  BY DEF MayPlay, Sounds

\* The states begun with one signal.
Begun(y) ==
  \/ y.state = "V90INFO0d" /\ y.tx = <<"INFO0d">>
  \/ y.state = "V90INFO1d" /\ y.tx = <<"INFO1d">>
  \/ y.state = "V90SendL1" /\ y.tx = <<"L1">>
  \/ y.state = "V90SendL2" /\ y.tx = <<"L2">>
  \/ y.state = "V90Phase3SendTRN1d" /\ y.tx = <<"TRN1d">>
  \/ y.state = "V90Phase3SendJd" /\ y.tx = <<"Jd">>
  \/ y.state = "V90Phase3SendDIL" /\ y.tx = <<"DIL">>
  \/ y.state = "V90Phase4WaitCPt" /\ y.tx = <<"Ri">>
  \/ y.state = "V90Phase4SendMP" /\ y.tx = <<"MP">>
  \/ y.state = "V90RetrainSilence" /\ y.tx = <<"silence">>
  \/ y.state = "V92AnswerSilence" /\ y.tx = <<"silence">>
  \/ y.state = "V92QCA1d" /\ y.tx = <<"QCA1d">>
  \/ y.state = "V92Silence75" /\ y.tx = <<"silence">>
  \/ y.state = "V92QTS" /\ y.tx = <<"QTS">>
  \/ y.state = "V92ANSpcm" /\ y.tx = <<"ANSpcm">>
  \/ y.state = "V92PostToneqSilence" /\ y.tx = <<"silence">>
  \/ y.state = "V21ANS" /\ y.tx = <<"ANS">>
  \/ y.state = "V21Silence75" /\ y.tx = <<"silence">>
  \/ y.state = "V92ANSam" /\ y.tx = <<"ANSam">> /\ ~y.v8

\* Most of what an action does to the queue and the state.
Clean(y) ==
  \/ y.tx = <<>> \/ y.state \in Abandoned \/ Begun(y)
  \/ y.state = m.state /\ y.tx = m.tx /\ y.v8 = m.v8

LEMMA CleanIsFresh ==
  ASSUME NEW y, Fresh(m), Clean(y)
  PROVE  Fresh(y)
<1>1. CASE y.tx = <<>>
  BY <1>1 DEF Fresh
<1>2. CASE y.state \in Abandoned
  BY <1>2 DEF Fresh, Abandoned
<1>3. CASE Begun(y)
  <2>1. PICK sig : y.tx = <<sig>> /\ MayPlay(y.state) = {sig}
    BY <1>3, PlayTable DEF Begun
  <2>2. y.tx \in Seq(MayPlay(y.state)) /\ ~(y.state = "V92ANSam" /\ y.v8)
    BY <1>3, <2>1 DEF Begun
  <2> QED BY <2>2 DEF Fresh
<1>4. CASE y.state = m.state /\ y.tx = m.tx /\ y.v8 = m.v8
  BY <1>4 DEF Fresh
<1> QED BY <1>1, <1>2, <1>3, <1>4 DEF Clean

\* One signal put into an empty queue.
LEMMA Sole ==
  ASSUME NEW sig
  PROVE  <<>> \o <<sig>> = <<sig>>
  OBVIOUS

\* A signal or two put behind those of the state before.
LEMMA Follow ==
  ASSUME NEW s, NEW t, MayPlay(s) \subseteq MayPlay(t), NEW q \in Seq(MayPlay(s)),
         NEW u \in Seq(MayPlay(t))
  PROVE  q \o u \in Seq(MayPlay(t))
<1>1. q \in Seq(MayPlay(t))
  BY SeqMonotonic
<1> QED BY <1>1, ConcatProperties

LEMMA SilentIsEmpty ==
  ASSUME NEW x, Fresh(x), x.state \in Silent
  PROVE  x.tx = <<>>
<1>1. MayPlay(x.state) = {} /\ x.state \notin Abandoned
  BY SilentPlaysNothing DEF Silent, Abandoned
<1>2. x.tx \in Seq({})
  BY <1>1 DEF Fresh
<1> QED BY <1>2

-----------------------------------------------------------------------------
(* Advance, taken apart. *)

AdvanceSignal ==
  /\ m.state \in DOMAIN Follows
  /\ Becomes(To(Queue(m, <<Follows[m.state][1]>>), Follows[m.state][2]))
AdvanceInfo0d ==
  \/ m.state = "V90Phase2Silence" /\ Becomes(SendInfo0d(m))
  \/ m.state = "V90INFO0d" /\ Becomes(AfterInfo0d)
AdvanceJdBar == m.state = "V90Phase3SendJdBar" /\ AfterJdBar
AdvanceRepeats ==
  \/ m.state = "V90Phase3SendDIL" /\ Emit("DIL", m.state)
  \/ m.state \in Exchange /\ Emit("MP", "V90Phase4SendMP")
AdvancePhases ==
  \/ m.state = "V90INFO1d" /\ Becomes(To(m, "V90WaitINFO1a"))
  \/ /\ m.state = "V90Phase3SendTRN1d"
     /\ Becomes([m EXCEPT !.p3 = "s", !.tx = <<"Jd">>, !.state = "V90Phase3SendJd"])
  \/ m.state = "V90Phase4SendEd" /\ Becomes(To(m, "V90Data"))
AdvanceOthers ==
  \/ /\ m.state = "V90RetrainSilence"
     /\ Becomes([m EXCEPT !.reverse = FALSE, !.tail = FALSE, !.state = "V90ToneB"])
  \/ /\ m.state = "V92AnswerSilence"
     /\ Becomes([m EXCEPT !.v8 = span, !.tx = IF span THEN <<>> ELSE <<"ANSam">>,
                          !.state = "V92ANSam"])
  \/ m.state = "V92PostToneqSilence" /\ Becomes(StartShortPhase2(m))
  \/ m.state = "V21Silence75" /\ Becomes(To(m, "V21Carrier"))

LEMMA AdvanceCases ==
  ASSUME Advance
  PROVE  /\ m.tx = <<>>
         /\ \/ AdvanceSignal \/ AdvanceInfo0d \/ AdvanceJdBar
            \/ AdvanceRepeats \/ AdvancePhases \/ AdvanceOthers
  BY Zenon DEF Advance, AdvanceSignal, AdvanceInfo0d, AdvanceJdBar, AdvanceRepeats,
               AdvancePhases, AdvanceOthers

LEMMA FreshPhase2Is ==
  ASSUME NEW x, HasFields(x)
  PROVE  /\ HasFields(FreshPhase2(x)) /\ FreshPhase2(x).state = "V90Phase2Silence"
         /\ FreshPhase2(x).tx = <<>> /\ FreshPhase2(x).stage = x.stage
         /\ FreshPhase2(x).media = x.media
  BY DEF FreshPhase2, HasFields

\* Phase 2 begins, long or short.
LEMMA Phase2Equipped ==
  ASSUME NEW x, HasFields(x), Unblind(x)
  PROVE  /\ Equipped(StartPhase2(x)) /\ StartPhase2(x).tx = <<>>
         /\ Equipped(StartShortPhase2(x))
<1> DEFINE y == FreshPhase2(x)
           Begins(z) == /\ HasFields(z) /\ z.state = "V90Phase2Silence" /\ z.tx = <<>>
                        /\ z.stage = x.stage /\ z.media = x.media
<1>1. Begins(y)
  BY FreshPhase2Is
<1> HIDE DEF y
<1>2. /\ Begins([y EXCEPT !.v8 = FALSE, !.short = FALSE, !.probe = FALSE, !.localA = FALSE])
      /\ Begins([y EXCEPT !.short = TRUE])
  BY <1>1 DEF HasFields
<1>3. Begins(StartPhase2(x)) /\ Begins(StartShortPhase2(x))
  BY <1>2 DEF StartPhase2, StartShortPhase2, y
<1>4. ASSUME NEW z, Begins(z) PROVE Equipped(z)
  BY <1>4 DEF Equipped, Ready, Unblind, V22States, UsesPhase3, UsesDescriptor, UsesPhase4,
              Phase3, Phase4, Exchange
<1> QED BY <1>3, <1>4

LEMMA HeardPhase2 ==
  ASSUME IInv
  PROVE  Equipped(StartPhase2(Heard)) /\ StartPhase2(Heard).tx = <<>>
<1>1. HasFields(Heard) /\ Unblind(Heard)
  BY DEF IInv, Good, Equipped, HasFields, Unblind, Heard
<1> QED BY <1>1, Phase2Equipped

LEMMA ShortPhase2 == IInv => Equipped(StartShortPhase2(m))
  BY Phase2Equipped DEF IInv, Good, Equipped

LEMMA RxEquipped == ASSUME IInv, Rx PROVE Equipped(m')
<1> USE DEF IInv, Good, HasFields, Equipped, Ready, Unblind, UsesPhase3, UsesDescriptor,
        UsesPhase4, Ladder, HighSpeed, Phase2, Ranging, FirstRound, SecondRound, Phase3,
        Phase4, Exchange, V22States, Becomes, Heard, To
<1>1. CASE RxMediaWait
  BY <1>1 DEF RxMediaWait, StartV8, Clear, StartV21, Queue
<1>2. CASE RxV8
  <2>1. CASE m' = StartPhase2(Heard)
    BY <2>1, HeardPhase2 DEF Equipped
  <2>2. CASE m' = StartV22(Heard, 2400)
    BY <1>2, <2>2 DEF RxV8, StartV22
  <2>3. CASE m' = IF Ladder THEN Direct(Heard) ELSE StartV21([Heard EXCEPT !.v8 = FALSE])
    BY <1>2, <2>3 DEF RxV8, StartV21, Queue, StartV22, Direct
  <2> QED BY <1>2, <2>1, <2>2, <2>3 DEF RxV8
<1>3. CASE RxRetryTone
  BY <1>3 DEF RxRetryTone
<1>4. CASE RxTone
  BY <1>4 DEF RxTone, SendInfo0d
<1>5. CASE RxFirstReversal
  BY <1>5 DEF RxFirstReversal
<1>6. CASE RxSecondReversal
  BY <1>6 DEF RxSecondReversal
<1>7. CASE RxEarlyProbe
  BY <1>7 DEF RxEarlyProbe
<1>8. CASE RxAfterRanging
  BY <1>8 DEF RxAfterRanging
<1>9. CASE RxProbe
  BY <1>9 DEF RxProbe
<1>10. CASE RxProbeElapses
  BY <1>10 DEF RxProbeElapses, BeginSecondRound
<1>11. CASE RxSecondRoundTone
  BY <1>11 DEF RxSecondRoundTone
<1>12. CASE RxLocalTone
  BY <1>12 DEF RxLocalTone
<1>13. CASE RxL2Elapses
  BY <1>13 DEF RxL2Elapses, SendInfo1d
<1>14. CASE RxInfo1a
  BY <1>14 DEF RxInfo1a
<1>15. CASE RxInfoMarks
  BY <1>15 DEF RxInfoMarks, SendInfo1d, CountedRetrain, BeginRetrain
<1>16. CASE RxToneInWait
  BY <1>16 DEF RxToneInWait, CountedRetrain, BeginRetrain
<1>17. CASE RxJa
  BY <1>17 DEF RxJa, Queue
<1>18. CASE RxS
  BY <1>18 DEF RxS, Queue
<1>19. CASE RxCPt
  BY <1>19 DEF RxCPt, Queue
<1>20. CASE RxCP
  BY <1>20 DEF RxCP
<1>21. CASE RxCPPrime
  BY <1>21 DEF RxCPPrime, Queue
<1>22. CASE RxRetrain
  BY <1>22 DEF RxRetrain, BeginRetrain
<1>23. CASE RxQuickConnect
  BY <1>23 DEF RxQuickConnect
<1>24. CASE RxToneq
  BY <1>24 DEF RxToneq
<1>25. CASE RxV22Ready
  BY <1>25 DEF RxV22Ready
<1>26. CASE RxV22Fails
  BY <1>26 DEF RxV22Fails, FallbackFromV22, StartV21, Queue, StartV22
<1>27. CASE RxMark
  BY <1>27 DEF RxMark
<1>28. CASE RxNothing
  BY <1>28 DEF RxNothing
<1>29. ASSUME NEW confirmed \in BOOLEAN, RxInfo0a(confirmed) PROVE Equipped(m')
  BY <1>29 DEF RxInfo0a, SendInfo0d
<1> QED BY <1>1, <1>2, <1>3, <1>4, <1>5, <1>6, <1>7, <1>8, <1>9, <1>10, <1>11, <1>12,
           <1>13, <1>14, <1>15, <1>16, <1>17, <1>18, <1>19, <1>20, <1>21, <1>22, <1>23,
           <1>24, <1>25, <1>26, <1>27, <1>28, <1>29 DEF Rx

LEMMA TransmitEquipped == ASSUME IInv, Transmit PROVE Equipped(m')
<1> USE DEF IInv, Good, HasFields, Equipped, Ready, Unblind, UsesPhase3, UsesDescriptor,
        UsesPhase4, Ladder, HighSpeed, Phase2, Ranging, FirstRound, SecondRound, Phase3,
        Phase4, Exchange, V22States, Becomes, Heard, To
<1>1. CASE Play
  BY <1>1 DEF Play
<1>2. CASE ToneBReverses
  BY <1>2 DEF ToneBReverses, ToneBStates
<1>3. CASE ToneBEnds
  BY <1>3 DEF ToneBEnds, ToneBStates
<1>4. CASE AdvanceSignal
  BY <1>4 DEF AdvanceSignal, Follows, Queue
<1>5. CASE AdvanceInfo0d
  BY <1>5 DEF AdvanceInfo0d, SendInfo0d, AfterInfo0d
<1>6. CASE AdvanceJdBar
  BY <1>6 DEF AdvanceJdBar, AfterJdBar
<1>7. CASE AdvanceRepeats
  BY <1>7 DEF AdvanceRepeats, Emit, Queue
<1>8. CASE AdvancePhases
  BY <1>8 DEF AdvancePhases
<1>9. CASE AdvanceOthers
  <2>1. CASE m' = StartShortPhase2(m)
    BY <2>1, ShortPhase2 DEF Equipped
  <2>2. CASE m' # StartShortPhase2(m)
    BY <1>9, <2>2 DEF AdvanceOthers
  <2> QED BY <2>1, <2>2
<1> QED BY <1>1, <1>2, <1>3, <1>4, <1>5, <1>6, <1>7, <1>8, <1>9, AdvanceCases DEF Transmit

LEMMA ExpireEquipped == ASSUME IInv, Expire PROVE Equipped(m')
<1> USE DEF IInv, Good, HasFields, Equipped, Ready, Unblind, UsesPhase3, UsesDescriptor,
        UsesPhase4, Ladder, HighSpeed, Phase2, Ranging, FirstRound, SecondRound, Phase3,
        Phase4, Exchange, V22States, Becomes, Heard, To
<1>1. CASE V8Expires
  BY <1>1 DEF V8Expires, Unanswered, Clear, StartV21, Queue, Direct, StartV22
<1>2. CASE ToneqExpires
  BY <1>2 DEF ToneqExpires, StartV8, Clear, StartV21, Queue
<1>3. CASE ProbeToneExpires
  BY <1>3 DEF ProbeToneExpires
<1>4. CASE SecondToneExpires
  BY <1>4 DEF SecondToneExpires
<1>5. CASE GivesUp
  BY <1>5 DEF GivesUp
<1>6. CASE Info1aExpires
  BY <1>6 DEF Info1aExpires, CountedRetrain, BeginRetrain
<1>7. CASE TrainingExpires
  BY <1>7 DEF TrainingExpires, BeginRetrain
<1>8. CASE MPExpires
  BY <1>8 DEF MPExpires, Queue
<1> QED BY <1>1, <1>2, <1>3, <1>4, <1>5, <1>6, <1>7, <1>8 DEF Expire

LEMMA CallEquipped == ASSUME IInv, StartCall \/ EndCall PROVE Equipped(m')
<1> USE DEF IInv, Good, HasFields, Equipped, Ready, Unblind, UsesPhase3, UsesDescriptor,
        UsesPhase4, Ladder, HighSpeed, Phase2, Ranging, FirstRound, SecondRound, Phase3,
        Phase4, Exchange, V22States, Becomes, Heard, To
<1>1. CASE StartCall
  BY <1>1 DEF StartCall, Queue, StartV21, StartV22, StartV8, Clear, Blank
<1>2. CASE EndCall
  BY <1>2 DEF EndCall
<1> QED BY <1>1, <1>2

-----------------------------------------------------------------------------
(* The queue. *)

LEMMA V21Begins ==
  ASSUME NEW x, HasFields(x), x.tx = <<>>
  PROVE  Begun(StartV21(x))
<1> DEFINE y == [x EXCEPT !.stage = 3]
           z == Queue(y, <<"ANS">>)
<1>1. HasFields(y) /\ y.tx = <<>>
  BY DEF HasFields
<1>2. HasFields(z) /\ z.tx = <<"ANS">>
  BY <1>1, Sole DEF HasFields, Queue
<1> HIDE DEF z
<1>3. StartV21(x) = To(z, "V21ANS")
  BY DEF StartV21, z
<1>4. To(z, "V21ANS").state = "V21ANS" /\ To(z, "V21ANS").tx = <<"ANS">>
  BY <1>2 DEF HasFields, To
<1> QED BY <1>3, <1>4 DEF Begun

LEMMA V22Empties ==
  ASSUME NEW x, HasFields(x), NEW bps
  PROVE  StartV22(x, bps).tx = <<>>
  BY DEF HasFields, StartV22

\* The ways into the next rung, from a queue that is empty.
LEMMA RungsClean ==
  ASSUME NEW x, HasFields(x), x.tx = <<>>
  PROVE  /\ Clean(Direct(x)) /\ Clean(FallbackFromV22(x)) /\ Clean(StartV8(x))
         /\ Clean(StartV21([x EXCEPT !.v8 = FALSE]))
<1> DEFINE y == [x EXCEPT !.v8 = FALSE]
           z == [x EXCEPT !.rate = 0]
           w == [Clear(x) EXCEPT !.v8 = TRUE, !.state = "V8Negotiating"]
<1>1. HasFields(y) /\ y.tx = <<>> /\ HasFields(z) /\ z.tx = <<>>
  BY DEF HasFields
<1>2. HasFields(Clear(x)) /\ Clear(x).tx = <<>> /\ w.tx = <<>>
  BY DEF HasFields, Clear
<1> HIDE DEF y, z, w
<1>3. /\ Direct(x) = StartV22(y, 2400) \/ Direct(x) = StartV21(y)
      /\ StartV8(x) = w \/ StartV8(x) = StartV21(Clear(x))
      /\ \/ FallbackFromV22(x) = To(z, "V92Fallback")
         \/ FallbackFromV22(x) = StartV22(z, 1200) \/ FallbackFromV22(x) = StartV21(z)
  BY DEF Direct, StartV8, FallbackFromV22, y, z, w
<1>4. To(z, "V92Fallback").state \in Abandoned
  BY <1>1 DEF To, HasFields, Abandoned
<1>5. /\ Clean(StartV21(y)) /\ Clean(StartV21(z)) /\ Clean(StartV21(Clear(x)))
      /\ Clean(StartV22(y, 2400)) /\ Clean(StartV22(z, 1200))
  BY <1>1, <1>2, V21Begins, V22Empties DEF Clean
<1>6. Clean(w) /\ Clean(To(z, "V92Fallback"))
  BY <1>2, <1>4 DEF Clean
<1>7. Clean(Direct(x)) /\ Clean(StartV8(x)) /\ Clean(FallbackFromV22(x))
  BY <1>3, <1>5, <1>6
<1> QED BY <1>5, <1>7 DEF y

LEMMA Emptiness ==
  ASSUME IInv
  PROVE  /\ HasFields(m) /\ HasFields(Heard) /\ Heard.tx = m.tx
         /\ m.state \in Silent => m.tx = <<>>
         /\ m.state = "V92ANSam" /\ m.v8 => m.tx = <<>>
  BY SilentIsEmpty DEF IInv, Good, Equipped, HasFields, Heard, Fresh

\* What most of receive_pcm leaves queued.
LEMMA RxClean ==
  ASSUME IInv, Rx, ~RxJa, ~RxS, ~RxCPt, ~RxCPPrime
  PROVE  Clean(m')
<1>1. CASE RxMediaWait \/ RxV8 \/ RxV22Fails
  <2>1. HasFields(Heard) /\ Heard.tx = <<>>
    BY <1>1, Emptiness DEF Silent, RxMediaWait, RxV8, RxV22Fails, V22States
  <2>2. \/ m' = StartPhase2(Heard) \/ m' = StartV22(Heard, 2400) \/ m' = Direct(Heard)
        \/ m' = StartV21([Heard EXCEPT !.v8 = FALSE]) \/ m' = StartV8(Heard)
        \/ m' = FallbackFromV22(Heard)
    BY <1>1 DEF RxMediaWait, RxV8, RxV22Fails, Becomes
  <2>3. Clean(StartPhase2(Heard)) /\ Clean(StartV22(Heard, 2400))
    BY <2>1, HeardPhase2, V22Empties DEF Clean
  <2> QED BY <2>1, <2>2, <2>3, RungsClean
<1> USE Emptiness DEF Silent, HasFields, Clean, Begun, Phase2, Ranging, FirstRound, SecondRound,
        Phase3, Phase4, Exchange, V22States, ToneBStates, Abandoned, Becomes, Heard, To
<1>2. ASSUME NEW confirmed \in BOOLEAN, RxInfo0a(confirmed) PROVE Clean(m')
  BY <1>2 DEF RxInfo0a, SendInfo0d
<1>3. CASE RxRetryTone
  BY <1>3 DEF RxRetryTone
<1>4. CASE RxTone
  BY <1>4 DEF RxTone, SendInfo0d
<1>5. CASE RxFirstReversal
  BY <1>5 DEF RxFirstReversal
<1>6. CASE RxSecondReversal
  BY <1>6 DEF RxSecondReversal
<1>7. CASE RxEarlyProbe
  BY <1>7 DEF RxEarlyProbe
<1>8. CASE RxAfterRanging
  BY <1>8 DEF RxAfterRanging
<1>9. CASE RxProbe
  BY <1>9 DEF RxProbe
<1>10. CASE RxLocalTone
  BY <1>10 DEF RxLocalTone
<1>11. CASE RxL2Elapses
  BY <1>11 DEF RxL2Elapses, SendInfo1d
<1>12. CASE RxInfoMarks
  BY <1>12 DEF RxInfoMarks, SendInfo1d, CountedRetrain, BeginRetrain
<1>13. CASE RxToneInWait
  BY <1>13 DEF RxToneInWait, CountedRetrain, BeginRetrain
<1>14. CASE RxCP
  BY <1>14 DEF RxCP
<1>15. CASE RxRetrain
  BY <1>15 DEF RxRetrain, BeginRetrain
<1>16. CASE RxToneq
  BY <1>16 DEF RxToneq
<1>17. CASE RxV22Ready
  BY <1>17 DEF RxV22Ready
<1>18. CASE RxMark
  BY <1>18 DEF RxMark
<1>19. CASE RxNothing
  BY <1>19 DEF RxNothing
<1>20. CASE RxProbeElapses
  <2>1. m.tx = <<>>
    BY <1>20 DEF RxProbeElapses
  <2>2. m'.tx = m.tx
    BY <1>20 DEF RxProbeElapses, BeginSecondRound
  <2> QED BY <2>1, <2>2
<1>21. CASE RxSecondRoundTone
  <2>1. m.tx = <<>>
    BY <1>21 DEF RxSecondRoundTone
  <2>2. m'.tx = m.tx
    BY <1>21 DEF RxSecondRoundTone
  <2> QED BY <2>1, <2>2
<1>22. CASE RxInfo1a
  <2>1. m.tx = <<>>
    BY <1>22 DEF RxInfo1a
  <2>2. m'.tx = m.tx
    BY <1>22 DEF RxInfo1a
  <2> QED BY <2>1, <2>2
<1>23. CASE RxQuickConnect
  <2>1. CASE m' = [Heard EXCEPT !.v8 = FALSE, !.tx = <<"QCA1d">>, !.state = "V92QCA1d"]
    BY <2>1
  <2>2. CASE m' = [Heard EXCEPT !.tx = <<>>, !.state = "V8Negotiating"]
    BY <2>2
  <2> QED BY <1>23, <2>1, <2>2 DEF RxQuickConnect
<1> QED BY <1>1, <1>2, <1>3, <1>4, <1>5, <1>6, <1>7, <1>8, <1>9, <1>10, <1>11, <1>12,
           <1>13, <1>14, <1>15, <1>16, <1>17, <1>18, <1>19, <1>20, <1>21, <1>22, <1>23
           DEF Rx

\* A queue that grows is of the state before, and the new state may play both.
LEMMA GrownIsFresh ==
  ASSUME NEW y, Fresh(m), m.state \notin Abandoned, y.state # "V92ANSam",
         MayPlay(m.state) \subseteq MayPlay(y.state),
         NEW u \in Seq(MayPlay(y.state)), y.tx = m.tx \o u
  PROVE  Fresh(y)
<1>1. m.tx \in Seq(MayPlay(m.state))
  BY DEF Fresh
<1>2. m.tx \o u \in Seq(MayPlay(y.state))
  BY <1>1, Follow
<1> QED BY <1>2 DEF Fresh

LEMMA RxFresh ==
  ASSUME IInv, Rx
  PROVE  Fresh(m')
<1> USE DEF HasFields, Becomes, Heard, To, Queue
<1>0. Fresh(m) /\ HasFields(m)
  BY DEF IInv, Good, Equipped
<1>1. CASE RxJa
  <2>1. CASE m'.state = "V90Fallback"
    BY <2>1 DEF Fresh, Abandoned
  <2>2. CASE m'.state # "V90Fallback"
    <3>1. m.state = "V90Phase3WaitAnalogue" /\ m'.state = "V90Phase3SendSd"
      BY <1>0, <1>1, <2>2 DEF RxJa
    <3>2. m'.tx = m.tx \o <<"silence", "Sd">>
      BY <1>0, <1>1, <2>2 DEF RxJa
    <3>3. <<"silence", "Sd">> \in Seq(MayPlay(m'.state)) /\ MayPlay(m.state) = {}
      BY <3>1, PlayTable, SilentPlaysNothing DEF Silent
    <3> QED BY <1>0, <3>1, <3>2, <3>3, GrownIsFresh DEF Abandoned
  <2> QED BY <2>1, <2>2
<1>2. CASE RxS
  <2>1. CASE m.state = "V90Phase3SendJd"
    <3>1. m'.state = "V90Phase3SendJdBar"
      BY <1>0, <1>2, <2>1 DEF RxS
    <3>2. m'.tx = m.tx \o <<"JdBar">>
      BY <1>0, <1>2, <2>1 DEF RxS
    <3>3. <<"JdBar">> \in Seq(MayPlay(m'.state)) /\ MayPlay(m.state) \subseteq MayPlay(m'.state)
      BY <2>1, <3>1, PlayTable
    <3> QED BY <1>0, <2>1, <3>1, <3>2, <3>3, GrownIsFresh DEF Abandoned
  <2>2. CASE m.state = "V90Phase3SendDIL"
    <3>1. m'.state = "V90Phase4WaitCPt" /\ m'.tx = <<"Ri">>
      BY <1>0, <1>2, <2>2 DEF RxS
    <3> QED BY <1>0, <3>1, CleanIsFresh DEF Clean, Begun
  <2>3. CASE m.state \notin {"V90Phase3SendJd", "V90Phase3SendDIL"}
    <3>1. m'.state = m.state /\ m'.tx = m.tx /\ m'.v8 = m.v8
      BY <1>0, <1>2, <2>3 DEF RxS
    <3> QED BY <1>0, <3>1, CleanIsFresh DEF Clean
  <2> QED BY <2>1, <2>2, <2>3
<1>3. CASE RxCPt
  <2>1. CASE m'.state = "V90Fallback"
    BY <2>1 DEF Fresh, Abandoned
  <2>2. CASE m'.state # "V90Fallback"
    <3>1. m.state = "V90Phase4WaitCPt" /\ m'.state = "V90Phase4SendTRN2d"
      BY <1>0, <1>3, <2>2 DEF RxCPt
    <3>2. m'.tx = m.tx \o <<"RiBar", "TRN2d">>
      BY <1>0, <1>3, <2>2 DEF RxCPt
    <3>3. /\ <<"RiBar", "TRN2d">> \in Seq(MayPlay(m'.state))
          /\ MayPlay(m.state) \subseteq MayPlay(m'.state)
      BY <3>1, PlayTable
    <3> QED BY <1>0, <3>1, <3>2, <3>3, GrownIsFresh DEF Abandoned
  <2> QED BY <2>1, <2>2
<1>4. CASE RxCPPrime
  <2>1. m.state \in Exchange /\ m'.state = "V90Phase4SendEd" /\ m'.tx = m.tx \o <<"Ed">>
    BY <1>0, <1>4 DEF RxCPPrime
  <2>2. <<"Ed">> \in Seq(MayPlay(m'.state)) /\ MayPlay(m.state) \subseteq MayPlay(m'.state)
    BY <2>1, PlayTable DEF Exchange
  <2> QED BY <1>0, <2>1, <2>2, GrownIsFresh DEF Abandoned, Exchange
<1> QED BY <1>0, <1>1, <1>2, <1>3, <1>4, RxClean, CleanIsFresh

LEMMA TransmitFresh ==
  ASSUME IInv, Transmit
  PROVE  Fresh(m')
<1>0. Fresh(m) /\ HasFields(m)
  BY DEF IInv, Good, Equipped
<1>1. CASE Play
  <2>1. m'.tx = Tail(m.tx) /\ m'.state = m.state /\ m'.v8 = m.v8 /\ m.tx # <<>>
    BY <1>0, <1>1 DEF Play, Becomes, HasFields
  <2>2. \A S : m.tx \in Seq(S) => Tail(m.tx) \in Seq(S)
    BY <2>1
  <2> QED BY <1>0, <2>1, <2>2 DEF Fresh
<1> USE Emptiness DEF Silent, HasFields, Clean, Begun, Phase2, Ranging, FirstRound, SecondRound,
        Phase3, Phase4, Exchange, V22States, ToneBStates, Abandoned, Becomes, Heard, To
<1>2. CASE ToneBReverses
  BY <1>0, <1>2, CleanIsFresh DEF ToneBReverses
<1>3. CASE ToneBEnds
  <2>1. m.tx = <<>>
    BY <1>3 DEF ToneBEnds
  <2>2. m'.tx = m.tx \/ (m'.tx = <<"L1">> /\ m'.state = "V90SendL1")
    BY <1>0, <1>3 DEF ToneBEnds
  <2> QED BY <1>0, <2>1, <2>2, CleanIsFresh
<1>4. CASE Advance
  <2>0. m.tx = <<>>
    BY <1>4, AdvanceCases
  <2>1. CASE AdvanceSignal
    <3> DEFINE sig == Follows[m.state][1]
    <3>1. m'.tx = <<sig>> /\ m'.state = Follows[m.state][2]
      BY <1>0, <2>0, <2>1, Sole DEF AdvanceSignal, Queue
    <3>2. Begun(m')
      BY <2>1, <3>1 DEF AdvanceSignal, Follows
    <3> QED BY <1>0, <3>2, CleanIsFresh
  <2>2. CASE AdvanceInfo0d
    BY <1>0, <2>0, <2>2, CleanIsFresh DEF AdvanceInfo0d, AfterInfo0d, SendInfo0d
  <2>3. CASE AdvanceJdBar
    BY <1>0, <2>0, <2>3, CleanIsFresh DEF AdvanceJdBar, AfterJdBar
  <2>4. CASE AdvanceRepeats
    <3>1. CASE m'.state = "V90Fallback"
      BY <1>0, <3>1, CleanIsFresh
    <3>2. CASE m'.state # "V90Fallback"
      <4>1. \/ m' = To(Queue(m, <<"DIL">>), "V90Phase3SendDIL")
            \/ m' = To(Queue(m, <<"MP">>), "V90Phase4SendMP")
        BY <1>0, <2>4, <3>2 DEF AdvanceRepeats, Emit
      <4>2. \A sig, state : /\ To(Queue(m, <<sig>>), state).tx = <<sig>>
                            /\ To(Queue(m, <<sig>>), state).state = state
        BY <1>0, <2>0, Sole DEF Queue
      <4>3. \/ m'.tx = <<"DIL">> /\ m'.state = "V90Phase3SendDIL"
            \/ m'.tx = <<"MP">> /\ m'.state = "V90Phase4SendMP"
        <5> HIDE DEF To
        <5> QED BY <4>1, <4>2
      <4> QED BY <1>0, <4>3, CleanIsFresh DEF Clean, Begun
    <3> QED BY <3>1, <3>2
  <2>5. CASE AdvancePhases
    BY <1>0, <2>0, <2>5, CleanIsFresh DEF AdvancePhases
  <2>6. CASE AdvanceOthers
    BY <1>0, <2>0, <2>6, CleanIsFresh DEF AdvanceOthers, StartShortPhase2, FreshPhase2
  <2> QED BY <1>4, <2>1, <2>2, <2>3, <2>4, <2>5, <2>6, AdvanceCases
<1> QED BY <1>1, <1>2, <1>3, <1>4 DEF Transmit

LEMMA ExpireFresh ==
  ASSUME IInv, Expire
  PROVE  Fresh(m')
<1>0. Fresh(m) /\ HasFields(m)
  BY DEF IInv, Good, Equipped
<1>1. CASE V8Expires
  <2>1. m.tx = <<>>
    BY <1>1, Emptiness DEF V8Expires, Silent
  <2>2. CASE m' = [Clear(m) EXCEPT !.v8 = FALSE, !.state = "MediaWait"]
    BY <1>0, <2>2, CleanIsFresh DEF Clear, Clean, HasFields
  <2>3. CASE m' = Direct(m) \/ m' = StartV21([m EXCEPT !.v8 = FALSE])
    BY <1>0, <2>1, <2>3, RungsClean, CleanIsFresh
  <2> QED BY <1>1, <2>2, <2>3 DEF V8Expires, Unanswered, Becomes
<1>2. CASE ToneqExpires
  <2>1. CASE span
    BY <1>0, <1>2, <2>1, CleanIsFresh
       DEF ToneqExpires, StartV8, Clear, Clean, HasFields, Becomes
  <2>2. CASE ~span
    <3>1. m' = StartV21(Clear(m)) /\ HasFields(Clear(m)) /\ Clear(m).tx = <<>>
      BY <1>0, <1>2, <2>2 DEF ToneqExpires, StartV8, Clear, HasFields, Becomes
    <3> QED BY <1>0, <3>1, V21Begins, CleanIsFresh DEF Clean
  <2> QED BY <2>1, <2>2
<1> USE Emptiness DEF Silent, HasFields, Clean, Begun, Phase2, Ranging, FirstRound, SecondRound,
        Phase3, Phase4, Exchange, V22States, ToneBStates, Abandoned, Becomes, Heard, To
<1>3. CASE ProbeToneExpires
  BY <1>0, <1>3, CleanIsFresh DEF ProbeToneExpires
<1>4. CASE SecondToneExpires
  BY <1>0, <1>4, CleanIsFresh DEF SecondToneExpires
<1>5. CASE GivesUp
  BY <1>0, <1>5, CleanIsFresh DEF GivesUp
<1>6. CASE Info1aExpires
  BY <1>0, <1>6, CleanIsFresh DEF Info1aExpires, CountedRetrain, BeginRetrain
<1>7. CASE TrainingExpires
  BY <1>0, <1>7, CleanIsFresh DEF TrainingExpires, BeginRetrain
<1>8. CASE MPExpires
  <2>1. CASE ~m.mpAck
    <3>1. m'.state = m.state /\ m'.tx = m.tx /\ m'.v8 = m.v8
      BY <1>0, <1>8, <2>1 DEF MPExpires
    <3> QED BY <1>0, <3>1, CleanIsFresh
  <2>2. CASE m.mpAck
    <3>1. /\ m.state = "V90Phase4SendMP" /\ m'.state = "V90Phase4SendEd"
          /\ m'.tx = m.tx \o <<"Ed">>
      BY <1>0, <1>8, <2>2 DEF MPExpires, Queue
    <3>2. <<"Ed">> \in Seq(MayPlay(m'.state)) /\ MayPlay(m.state) \subseteq MayPlay(m'.state)
      BY <3>1, PlayTable
    <3> QED BY <1>0, <3>1, <3>2, GrownIsFresh
  <2> QED BY <2>1, <2>2
<1> QED BY <1>1, <1>2, <1>3, <1>4, <1>5, <1>6, <1>7, <1>8 DEF Expire

LEMMA CallFresh ==
  ASSUME IInv, StartCall \/ EndCall
  PROVE  Fresh(m')
<1>1. HasFields(Blank) /\ Blank.tx = <<>> /\ HasFields(m) /\ Fresh(m)
  BY DEF IInv, Good, Equipped, HasFields, Blank
<1>2. CASE EndCall
  BY <1>1, <1>2, CleanIsFresh DEF EndCall, Clean, HasFields
<1>3. CASE StartCall
  <2>1. Clean(StartV21(Blank)) /\ Clean(StartV22(Blank, 2400)) /\ Clean(StartV22(Blank, 1200))
    BY <1>1, V21Begins, V22Empties DEF Clean
  <2>2. Clean(StartV8(Blank))
    BY <1>1, RungsClean
  <2> DEFINE x == To(Queue(Blank, <<"silence">>), "V92AnswerSilence")
  <2>3. x.state = "V92AnswerSilence" /\ x.tx = <<"silence">>
    BY Sole DEF To, Queue, Blank
  <2>4. Clean(x)
    BY <2>3 DEF Clean, Begun
  <2>5. m' \in {StartV21(Blank), StartV22(Blank, 2400), StartV22(Blank, 1200), StartV8(Blank), x}
    BY <1>3 DEF StartCall
  <2> HIDE DEF x
  <2> QED BY <1>1, <2>1, <2>2, <2>4, <2>5, CleanIsFresh
<1> QED BY <1>2, <1>3

-----------------------------------------------------------------------------
(* The type of the modem. *)

Fields == {"state", "tx", "media", "stage", "v8", "rate", "short", "info0a", "acked", "toneA",
           "firstRev", "secondA", "secondRound", "probe", "localA", "armed", "reverse", "tail",
           "repeats", "retries", "p3", "dil", "p4", "mpAck"}

\* A member of Modem is a function on the fields, each of which has its range.
Shaped(x) == x = [f \in Fields |-> x[f]]
Ranged(x) ==
  /\ x.state \in LiveState /\ x.tx \in Seq(Signals) /\ x.stage \in 0 .. 3
  /\ x.media \in BOOLEAN /\ x.v8 \in BOOLEAN /\ x.rate \in {0, 1200, 2400}
  /\ x.short \in BOOLEAN /\ x.info0a \in BOOLEAN /\ x.acked \in BOOLEAN
  /\ x.toneA \in BOOLEAN /\ x.firstRev \in BOOLEAN /\ x.secondA \in BOOLEAN
  /\ x.secondRound \in BOOLEAN /\ x.probe \in BOOLEAN /\ x.localA \in BOOLEAN
  /\ x.armed \in BOOLEAN /\ x.reverse \in BOOLEAN /\ x.tail \in BOOLEAN
  /\ x.repeats \in 0 .. 2 /\ x.retries \in 0 .. 2
  /\ x.p3 \in {"none", "ja", "deaf", "s", "cpt", "cp"} /\ x.dil \in {"none", "new", "old"}
  /\ x.p4 \in BOOLEAN /\ x.mpAck \in BOOLEAN
Typed(x) == Shaped(x) /\ Ranged(x)

LEMMA TypedIsModem ==
  ASSUME NEW x
  PROVE  Typed(x) <=> x \in Modem
<1>1. x \in Modem => Shaped(x)
  BY DEF Modem, Shaped, Fields
<1>2. x \in Modem => Ranged(x)
  BY DEF Modem, Ranged
<1>3. Shaped(x) /\ Ranged(x) => x \in Modem
  BY DEF Modem, Shaped, Ranged, Fields
<1> QED BY <1>1, <1>2, <1>3 DEF Typed

\* An assignment to fields keeps the shape.
LEMMA Assigned == \A x, f, v : Shaped(x) => Shaped([x EXCEPT ![f] = v])
  BY DEF Shaped

\* The states, one by one, and the empty queue.
LEMMA StatesKnown ==
  /\ {"V90ToneB", "V90ToneBReversed", "V90ProbeToneB", "V90ProbeToneBReversed",
      "V90Phase2Silence", "V90INFO0d", "V90WaitSecondToneA", "V90ToneRetryWaitToneA",
      "V90Phase2RttComplete", "V90RecvRemoteL1", "V90RecvRemoteL2", "V90SendL1",
      "V90SendL2", "V90INFO1d", "V90WaitINFO1a"} \subseteq LiveState
  /\ {"V90Phase3WaitAnalogue", "V90Phase3SendSd", "V90Phase3SendTRN1d", "V90Phase3SendJd",
      "V90Phase3SendJdBar", "V90Phase3SendDIL", "V90Phase4SendTRN2d", "V90Phase4SendMP",
      "V90Phase4WaitCPt", "V90Phase4SendEd", "V90Data", "V90RetrainSilence",
      "V90Fallback"} \subseteq LiveState
  /\ {"V92AnswerSilence", "V92ANSam", "V92QCA1d", "V92Silence75", "V92QTS", "V92ANSpcm",
      "V92PostToneqSilence", "V92ShortPhase2Reached", "V92Fallback", "V22Training", "V22Data",
      "V21ANS", "V21Silence75", "V21Carrier", "V21Data", "Idle", "MediaWait",
      "V8Negotiating"} \subseteq LiveState
  BY DEF LiveState, Phase2, Ranging, FirstRound, SecondRound, Phase3, Phase4, Exchange,
         V92States, V22States, V21States

\* A queue of known signals stays one.
LEMMA QueueTyped ==
  ASSUME NEW x, Typed(x), NEW u \in Seq(Signals)
  PROVE  Typed(Queue(x, u))
<1>1. x.tx \o u \in Seq(Signals)
  BY ConcatProperties DEF Typed, Ranged
<1>2. Ranged(Queue(x, u))
  BY <1>1 DEF Queue, Typed, Shaped, Ranged, Fields
<1> QED BY <1>2, Assigned DEF Queue, Typed

LEMMA ToTyped ==
  ASSUME NEW x, Typed(x), NEW s \in LiveState
  PROVE  Typed(To(x, s))
<1>1. Ranged(To(x, s))
  BY DEF To, Typed, Shaped, Ranged, Fields
<1> QED BY <1>1, Assigned DEF To, Typed

LEMMA ClearTyped ==
  ASSUME NEW x, Typed(x)
  PROVE  Typed(Clear(x)) /\ Typed([x EXCEPT !.v8 = FALSE])
<1>1. Ranged(Clear(x)) /\ Ranged([x EXCEPT !.v8 = FALSE])
  BY DEF Clear, Typed, Shaped, Ranged, Fields
<1> QED BY <1>1, Assigned DEF Clear, Typed

LEMMA V21Typed ==
  ASSUME NEW x, Typed(x)
  PROVE  Typed(StartV21(x))
<1> DEFINE y == [x EXCEPT !.stage = 3]
<1>1. Ranged(y)
  BY DEF Typed, Shaped, Ranged, Fields
<1>2. Typed(y) /\ <<"ANS">> \in Seq(Signals)
  BY <1>1, Assigned DEF Typed, Signals
<1> HIDE DEF y
<1>3. Typed(Queue(y, <<"ANS">>))
  BY <1>2, QueueTyped
<1>4. Typed(To(Queue(y, <<"ANS">>), "V21ANS"))
  BY <1>3, ToTyped, StatesKnown
<1> QED BY <1>4 DEF StartV21, y

\* What StartV22 assigns.
Trains(x, bps, r, s) ==
  [x EXCEPT !.tx = <<>>, !.v8 = FALSE, !.rate = bps, !.stage = r, !.state = s]

LEMMA TrainsShaped == \A x, bps, r, s : Shaped(x) => Shaped(Trains(x, bps, r, s))
<1> SUFFICES ASSUME NEW x, Shaped(x), NEW bps, NEW r, NEW s PROVE Shaped(Trains(x, bps, r, s))
  OBVIOUS
<1>1. Shaped([x EXCEPT !.tx = <<>>])
  BY Assigned
<1>2. Shaped([x EXCEPT !.tx = <<>>, !.v8 = FALSE])
  BY <1>1, Assigned
<1>3. Shaped([x EXCEPT !.tx = <<>>, !.v8 = FALSE, !.rate = bps])
  BY <1>2, Assigned
<1>4. Shaped([x EXCEPT !.tx = <<>>, !.v8 = FALSE, !.rate = bps, !.stage = r])
  BY <1>3, Assigned
<1> QED BY <1>4, Assigned DEF Trains

LEMMA V22Typed ==
  ASSUME NEW x, Typed(x), NEW bps \in {1200, 2400}
  PROVE  Typed(StartV22(x, bps))
<1> DEFINE rung == IF Ladder THEN (IF bps = 2400 THEN 1 ELSE 2) ELSE x.stage
           next == IF span THEN "V22Training" ELSE "V92Fallback"
<1>1. ASSUME NEW r \in 0 .. 3, NEW s \in LiveState
      PROVE  Ranged(Trains(x, bps, r, s))
  BY <1>1 DEF Typed, Shaped, Ranged, Fields, Trains
<1>2. rung \in 0 .. 3 /\ next \in LiveState
  BY StatesKnown DEF Typed, Ranged
<1>3. StartV22(x, bps) = Trains(x, bps, rung, next)
  BY DEF StartV22, Trains
<1> HIDE DEF rung, next
<1>4. Shaped(Trains(x, bps, rung, next))
  BY TrainsShaped DEF Typed
<1> QED BY <1>1, <1>2, <1>3, <1>4 DEF Typed

LEMMA RungsTyped ==
  ASSUME NEW x, Typed(x)
  PROVE  /\ Typed(Direct(x)) /\ Typed(FallbackFromV22(x)) /\ Typed(StartV8(x))
         /\ Typed(StartV21([x EXCEPT !.v8 = FALSE]))
<1> DEFINE y == [x EXCEPT !.rate = 0]
           z == [x EXCEPT !.v8 = FALSE]
           w == [Clear(x) EXCEPT !.v8 = TRUE, !.state = "V8Negotiating"]
<1>1. Ranged(y)
  BY DEF Typed, Shaped, Ranged, Fields
<1>2. Typed(y) /\ Typed(z)
  BY <1>1, Assigned, ClearTyped DEF Typed
<1>3. Typed(Clear(x))
  BY ClearTyped
<1>4. ASSUME NEW c, Typed(c) PROVE Typed([c EXCEPT !.v8 = TRUE, !.state = "V8Negotiating"])
  <2>1. Ranged([c EXCEPT !.v8 = TRUE, !.state = "V8Negotiating"])
    BY <1>4, StatesKnown DEF Typed, Shaped, Ranged, Fields
  <2> QED BY <1>4, <2>1, Assigned DEF Typed
<1>5. Typed(w)
  BY <1>3, <1>4
<1>6. /\ Direct(x) \in {StartV22(z, 2400), StartV21(z)}
      /\ FallbackFromV22(x) \in {To(y, "V92Fallback"), StartV22(y, 1200), StartV21(y)}
      /\ StartV8(x) \in {w, StartV21(Clear(x))}
  BY DEF Direct, FallbackFromV22, StartV8
<1> HIDE DEF y, z, w
<1>7. Typed(StartV22(z, 2400)) /\ Typed(StartV21(z))
  BY <1>2, V21Typed, V22Typed
<1>8. Typed(To(y, "V92Fallback")) /\ Typed(StartV22(y, 1200)) /\ Typed(StartV21(y))
  <2>1. Typed(To(y, "V92Fallback"))
    BY <1>2, ToTyped, StatesKnown
  <2>2. Typed(StartV22(y, 1200)) /\ Typed(StartV21(y))
    BY <1>2, V21Typed, V22Typed
  <2> QED BY <2>1, <2>2
<1>9. Typed(StartV21(Clear(x)))
  BY <1>3, V21Typed
<1> QED BY <1>5, <1>6, <1>7, <1>8, <1>9 DEF z

LEMMA Phase2Typed ==
  ASSUME NEW x, Typed(x)
  PROVE  /\ Typed(StartPhase2(x)) /\ Typed(StartShortPhase2(x))
         /\ Typed(SendInfo0d(x)) /\ Typed(SendInfo1d(x))
         /\ Typed(BeginRetrain(x)) /\ Typed(CountedRetrain(x))
         /\ Typed(BeginSecondRound(x))
<1>1. \A s \in Signals : <<s>> \in Seq(Signals)
  OBVIOUS
<1>2. Typed(FreshPhase2(x))
  <2>1. Ranged(FreshPhase2(x))
    BY StatesKnown DEF FreshPhase2, Typed, Shaped, Ranged, Fields
  <2>2. Shaped(FreshPhase2(x))
    BY DEF FreshPhase2, Typed, Shaped
  <2> QED BY <2>1, <2>2 DEF Typed
<1>3. Typed(StartPhase2(x)) /\ Typed(StartShortPhase2(x))
  <2>1. ASSUME NEW y, Typed(y)
        PROVE  /\ Typed([y EXCEPT !.v8 = FALSE, !.short = FALSE, !.probe = FALSE,
                                  !.localA = FALSE])
               /\ Typed([y EXCEPT !.short = TRUE])
    <3>1. /\ Ranged([y EXCEPT !.v8 = FALSE, !.short = FALSE, !.probe = FALSE,
                              !.localA = FALSE])
          /\ Ranged([y EXCEPT !.short = TRUE])
      BY <2>1 DEF Typed, Shaped, Ranged, Fields
    <3> QED BY <2>1, <3>1, Assigned DEF Typed
  <2> QED BY <1>2, <2>1 DEF StartPhase2, StartShortPhase2
<1>4. Typed(SendInfo0d(x)) /\ Typed(SendInfo1d(x))
  <2>1. Ranged(SendInfo0d(x)) /\ Ranged(SendInfo1d(x))
    BY <1>1, StatesKnown DEF SendInfo0d, SendInfo1d, Signals, Typed, Shaped, Ranged, Fields
  <2> QED BY <2>1, <1>1, Assigned DEF SendInfo0d, SendInfo1d, Typed
<1>5. ASSUME NEW y, Typed(y) PROVE Typed(BeginRetrain(y))
  <2>1. Ranged(BeginRetrain(y))
    BY <1>1, <1>5, StatesKnown DEF BeginRetrain, Typed, Shaped, Ranged, Fields, Signals
  <2>2. Shaped(BeginRetrain(y))
    BY <1>5 DEF BeginRetrain, Typed, Shaped
  <2> QED BY <2>1, <2>2 DEF Typed
<1>6. Typed(CountedRetrain(x))
  <2>1. CASE x.retries < 2
    <3>1. Typed([x EXCEPT !.retries = @ + 1])
      <4>1. Ranged([x EXCEPT !.retries = @ + 1])
        BY <2>1 DEF Typed, Shaped, Ranged, Fields
      <4> QED BY <4>1, <2>1, Assigned DEF Typed
    <3> QED BY <1>5, <2>1, <3>1 DEF CountedRetrain
  <2>2. CASE ~(x.retries < 2)
    <3>1. Ranged([x EXCEPT !.short = FALSE])
      BY DEF Typed, Shaped, Ranged, Fields
    <3>2. Typed([x EXCEPT !.short = FALSE])
      BY <3>1, Assigned DEF Typed
    <3> QED BY <2>2, <3>2, ToTyped, StatesKnown DEF CountedRetrain
  <2> QED BY <2>1, <2>2
<1>7. Typed(BeginSecondRound(x))
  <2>1. Ranged(BeginSecondRound(x))
    BY StatesKnown DEF BeginSecondRound, Typed, Shaped, Ranged, Fields
  <2> QED BY <2>1, Assigned DEF BeginSecondRound, Typed
<1> QED BY <1>3, <1>4, <1>5, <1>6, <1>7

LEMMA RxTyped == ASSUME Typed(m), Rx PROVE Typed(m')
<1>0. Typed(Heard)
  <2>1. Ranged(Heard)
    BY DEF Heard, Typed, Shaped, Ranged, Fields
  <2> QED BY <2>1, Assigned DEF Heard, Typed
<1>1. CASE RxMediaWait \/ RxV8
  BY <1>0, <1>1, Phase2Typed, V22Typed, RungsTyped DEF RxMediaWait, RxV8, Becomes
<1>2. CASE RxRetryTone \/ RxFirstReversal \/ RxEarlyProbe \/ RxAfterRanging
  <2>1. Ranged(m')
    <3>1. CASE RxRetryTone
      BY <3>1, StatesKnown DEF RxRetryTone, Becomes, Heard, Typed, Shaped, Ranged, Fields
    <3>2. CASE RxFirstReversal
      BY <3>2 DEF RxFirstReversal, Becomes, Heard, Typed, Shaped, Ranged, Fields
    <3>3. CASE RxEarlyProbe
      BY <3>3, StatesKnown DEF RxEarlyProbe, Becomes, Heard, Typed, Shaped, Ranged, Fields
    <3>4. CASE RxAfterRanging
      BY <3>4, StatesKnown DEF RxAfterRanging, Becomes, Heard, Typed, Shaped, Ranged, Fields
    <3> QED BY <1>2, <3>1, <3>2, <3>3, <3>4
  <2>2. Shaped(m')
    BY <1>2 DEF RxRetryTone, RxFirstReversal, RxEarlyProbe, RxAfterRanging, Becomes, Heard,
                Typed, Shaped
  <2> QED BY <2>1, <2>2 DEF Typed
<1>3. CASE RxProbe \/ RxSecondRoundTone \/ RxLocalTone \/ RxCP \/ RxNothing
  <2>1. Ranged(m')
    <3>1. CASE RxProbe
      BY <3>1 DEF RxProbe, Becomes, Heard, Typed, Shaped, Ranged, Fields
    <3>2. CASE RxSecondRoundTone
      <4>1. /\ Ranged([Heard EXCEPT !.secondA = TRUE])
            /\ Ranged([Heard EXCEPT !.reverse = TRUE])
        BY <1>0 DEF Typed, Shaped, Ranged, Fields
      <4> QED BY <3>2, <4>1, Zenon DEF RxSecondRoundTone, Becomes
    <3>3. CASE RxLocalTone
      BY <3>3 DEF RxLocalTone, Becomes, Heard, Typed, Shaped, Ranged, Fields
    <3>4. CASE RxCP
      BY <3>4 DEF RxCP, Becomes, Heard, Typed, Shaped, Ranged, Fields
    <3>5. CASE RxNothing
      BY <1>0, <3>5 DEF RxNothing, Becomes, Typed
    <3> QED BY <1>3, <3>1, <3>2, <3>3, <3>4, <3>5
  <2>2. Shaped(m')
    BY <1>3 DEF RxProbe, RxSecondRoundTone, RxLocalTone, RxCP, RxNothing, Becomes, Heard,
                Typed, Shaped
  <2> QED BY <2>1, <2>2 DEF Typed
<1>4. CASE RxTone
  <2>1. Typed([Heard EXCEPT !.toneA = TRUE])
    <3>1. Ranged([Heard EXCEPT !.toneA = TRUE])
      BY <1>0 DEF Typed, Shaped, Ranged, Fields
    <3> QED BY <3>1, <1>0, Assigned DEF Typed
  <2> QED BY <1>4, <2>1, Phase2Typed DEF RxTone, Becomes
<1>5. CASE RxSecondReversal
  <2>1. Typed([Heard EXCEPT !.secondA = TRUE])
    <3>1. Ranged([Heard EXCEPT !.secondA = TRUE])
      BY <1>0 DEF Typed, Shaped, Ranged, Fields
    <3> QED BY <3>1, <1>0, Assigned DEF Typed
  <2> QED BY <1>5, <2>1, ToTyped, StatesKnown DEF RxSecondReversal, Becomes
<1>6. CASE RxProbeElapses
  BY <1>0, <1>6, Phase2Typed, ToTyped, StatesKnown DEF RxProbeElapses, Becomes
<1>7. CASE RxL2Elapses
  BY <1>0, <1>7, Phase2Typed DEF RxL2Elapses, Becomes
<1>8. CASE RxInfo1a
  <2> DEFINE x == [Heard EXCEPT !.short = FALSE]
  <2>1. Typed(x) /\ Typed([x EXCEPT !.p3 = "none"])
    <3>1. Ranged(x) /\ Ranged([x EXCEPT !.p3 = "none"])
      BY <1>0 DEF Typed, Shaped, Ranged, Fields
    <3> QED BY <3>1, <1>0, Assigned DEF Typed
  <2>2. Typed([x EXCEPT !.p3 = "ja", !.state = "V90Phase3WaitAnalogue"])
    <3>1. Ranged([x EXCEPT !.p3 = "ja", !.state = "V90Phase3WaitAnalogue"])
      BY <2>1, StatesKnown DEF Typed, Shaped, Ranged, Fields
    <3> QED BY <3>1, <2>1, Assigned DEF Typed
  <2>3. /\ Typed(To(x, "V92ShortPhase2Reached"))
        /\ Typed(To([x EXCEPT !.p3 = "none"], "V90Fallback"))
    BY <2>1, ToTyped, StatesKnown
  <2> HIDE DEF x
  <2>4. m' \in {To(x, "V92ShortPhase2Reached"),
                [x EXCEPT !.p3 = "ja", !.state = "V90Phase3WaitAnalogue"],
                To([x EXCEPT !.p3 = "none"], "V90Fallback")}
    BY <1>8, Zenon DEF RxInfo1a, Becomes, x
  <2> QED BY <2>2, <2>3, <2>4
<1>9. CASE RxInfoMarks
  <2>1. CASE m.repeats < 2
    <3>1. Typed([Heard EXCEPT !.repeats = @ + 1])
      <4>1. Ranged([Heard EXCEPT !.repeats = @ + 1])
        BY <2>1 DEF Heard, Typed, Shaped, Ranged, Fields
      <4> QED BY <4>1, <2>1, Assigned DEF Heard, Typed
    <3> QED BY <1>9, <2>1, <3>1, Phase2Typed DEF RxInfoMarks, Becomes
  <2>2. CASE ~(m.repeats < 2)
    BY <1>0, <1>9, <2>2, Phase2Typed DEF RxInfoMarks, Becomes
  <2> QED BY <2>1, <2>2
<1>10. CASE RxToneInWait
  BY <1>0, <1>10, Phase2Typed DEF RxToneInWait, Becomes
<1>11. CASE RxJa
  <2>1. /\ Typed([Heard EXCEPT !.p3 = "deaf"])
        /\ Typed([Heard EXCEPT !.p3 = "deaf", !.dil = "new"])
    <3>1. /\ Ranged([Heard EXCEPT !.p3 = "deaf"])
          /\ Ranged([Heard EXCEPT !.p3 = "deaf", !.dil = "new"])
      BY <1>0 DEF Typed, Shaped, Ranged, Fields
    <3> QED BY <3>1, <1>0, Assigned DEF Typed
  <2>2. <<"silence", "Sd">> \in Seq(Signals)
    BY DEF Signals
  <2> QED BY <1>11, <2>1, <2>2, QueueTyped, ToTyped, StatesKnown DEF RxJa, Becomes
<1>12. CASE RxS
  <2> DEFINE x == [Heard EXCEPT !.p3 = "deaf"]
             y == [x EXCEPT !.p3 = "cpt", !.tx = <<"Ri">>, !.state = "V90Phase4WaitCPt"]
  <2>1. Typed(x)
    <3>1. Ranged(x)
      BY <1>0 DEF Typed, Shaped, Ranged, Fields
    <3> QED BY <3>1, <1>0, Assigned DEF Typed
  <2>2. <<"JdBar">> \in Seq(Signals) /\ <<"Ri">> \in Seq(Signals)
    BY DEF Signals
  <2>3. Typed(y)
    <3>1. Ranged(y)
      BY <2>1, <2>2, StatesKnown DEF Typed, Shaped, Ranged, Fields
    <3> QED BY <3>1, <2>1, <2>2, Assigned DEF Typed
  <2>4. Typed(To(Queue(x, <<"JdBar">>), "V90Phase3SendJdBar"))
    BY <2>1, <2>2, QueueTyped, ToTyped, StatesKnown
  <2>5. m' \in {x, y, To(Queue(x, <<"JdBar">>), "V90Phase3SendJdBar")}
    BY <1>12 DEF RxS, Becomes
  <2> QED BY <2>1, <2>3, <2>4, <2>5
<1>13. CASE RxCPt
  <2>1. /\ Typed([Heard EXCEPT !.p3 = "deaf", !.p4 = TRUE])
        /\ Typed([Heard EXCEPT !.p3 = "cp", !.p4 = TRUE, !.mpAck = FALSE])
    <3>1. /\ Ranged([Heard EXCEPT !.p3 = "deaf", !.p4 = TRUE])
          /\ Ranged([Heard EXCEPT !.p3 = "cp", !.p4 = TRUE, !.mpAck = FALSE])
      BY <1>0 DEF Typed, Shaped, Ranged, Fields
    <3> QED BY <3>1, <1>0, Assigned DEF Typed
  <2>2. <<"RiBar", "TRN2d">> \in Seq(Signals)
    BY DEF Signals
  <2> DEFINE x == [Heard EXCEPT !.p3 = "deaf", !.p4 = TRUE]
             y == [Heard EXCEPT !.p3 = "cp", !.p4 = TRUE, !.mpAck = FALSE]
  <2>3. m' \in {To(x, "V90Fallback"), To(Queue(y, <<"RiBar", "TRN2d">>), "V90Phase4SendTRN2d")}
    BY <1>13, Zenon DEF RxCPt, Becomes
  <2> HIDE DEF x, y
  <2>4. Typed(To(x, "V90Fallback"))
    BY <2>1, ToTyped, StatesKnown DEF x
  <2>5. Typed(To(Queue(y, <<"RiBar", "TRN2d">>), "V90Phase4SendTRN2d"))
    BY <2>1, <2>2, QueueTyped, ToTyped, StatesKnown DEF y
  <2> QED BY <2>3, <2>4, <2>5
<1>14. CASE RxCPPrime
  <2>1. Typed([Heard EXCEPT !.p3 = "deaf"])
    <3>1. Ranged([Heard EXCEPT !.p3 = "deaf"])
      BY <1>0 DEF Typed, Shaped, Ranged, Fields
    <3> QED BY <3>1, <1>0, Assigned DEF Typed
  <2>2. <<"Ed">> \in Seq(Signals)
    BY DEF Signals
  <2> QED BY <1>14, <2>1, <2>2, QueueTyped, ToTyped, StatesKnown DEF RxCPPrime, Becomes
<1>15. CASE RxRetrain
  <2>1. Typed([Heard EXCEPT !.retries = 0])
    <3>1. Ranged([Heard EXCEPT !.retries = 0])
      BY <1>0 DEF Typed, Shaped, Ranged, Fields
    <3> QED BY <3>1, <1>0, Assigned DEF Typed
  <2> QED BY <1>15, <2>1, Phase2Typed DEF RxRetrain, Becomes
<1>16. CASE RxQuickConnect \/ RxToneq
  <2>1. <<"QCA1d">> \in Seq(Signals) /\ <<"silence">> \in Seq(Signals)
    BY DEF Signals
  <2>2. /\ Typed([Heard EXCEPT !.v8 = FALSE, !.tx = <<"QCA1d">>, !.state = "V92QCA1d"])
        /\ Typed([Heard EXCEPT !.tx = <<>>, !.state = "V8Negotiating"])
        /\ Typed([Heard EXCEPT !.tx = <<"silence">>, !.state = "V92PostToneqSilence"])
    <3>1. /\ Ranged([Heard EXCEPT !.v8 = FALSE, !.tx = <<"QCA1d">>, !.state = "V92QCA1d"])
          /\ Ranged([Heard EXCEPT !.tx = <<>>, !.state = "V8Negotiating"])
          /\ Ranged([Heard EXCEPT !.tx = <<"silence">>, !.state = "V92PostToneqSilence"])
      BY <1>0, <2>1, StatesKnown DEF Typed, Shaped, Ranged, Fields
    <3> QED BY <3>1, <1>0, <2>1, Assigned DEF Typed
  <2> QED BY <1>16, <2>2 DEF RxQuickConnect, RxToneq, Becomes
<1>17. CASE RxV22Ready \/ RxV22Fails \/ RxMark
  BY <1>0, <1>17, RungsTyped, ToTyped, StatesKnown DEF RxV22Ready, RxV22Fails, RxMark, Becomes
<1>18. ASSUME NEW confirmed \in BOOLEAN, RxInfo0a(confirmed) PROVE Typed(m')
  <2>1. Typed([Heard EXCEPT !.info0a = TRUE, !.short = @ /\ confirmed])
    <3>1. Ranged([Heard EXCEPT !.info0a = TRUE, !.short = @ /\ confirmed])
      BY <1>0 DEF Typed, Shaped, Ranged, Fields
    <3> QED BY <3>1, <1>0, Assigned DEF Typed
  <2> QED BY <1>18, <2>1, Phase2Typed DEF RxInfo0a, Becomes
<1> QED BY <1>1, <1>2, <1>3, <1>4, <1>5, <1>6, <1>7, <1>8, <1>9, <1>10, <1>11, <1>12,
           <1>13, <1>14, <1>15, <1>16, <1>17, <1>18 DEF Rx

LEMMA TransmitTyped == ASSUME IInv, Typed(m), Transmit PROVE Typed(m')
<1>0. \A s \in Signals : <<s>> \in Seq(Signals)
  OBVIOUS
<1>1. CASE Play
  <2>1. Tail(m.tx) \in Seq(Signals)
    BY <1>1 DEF Play, Typed, Shaped, Ranged, Fields
  <2>2. Ranged(m')
    BY <1>1, <2>1 DEF Play, Becomes, Typed, Shaped, Ranged, Fields
  <2> QED BY <1>1, <2>2, Assigned DEF Play, Becomes, Typed
<1>2. CASE ToneBReverses
  <2>1. Ranged(m')
    BY <1>2, StatesKnown DEF ToneBReverses, Becomes, Typed, Shaped, Ranged, Fields
  <2>2. Shaped(m')
    BY <1>2 DEF ToneBReverses, Becomes, Typed, Shaped
  <2> QED BY <2>1, <2>2 DEF Typed
<1>3. CASE ToneBEnds
  <2> DEFINE x == [m EXCEPT !.tail = FALSE]
  <2>1. Typed(x)
    <3>1. Ranged(x)
      BY DEF Typed, Shaped, Ranged, Fields
    <3> QED BY <3>1, Assigned DEF Typed
  <2>2. /\ Typed([x EXCEPT !.tx = <<"L1">>, !.state = "V90SendL1"])
        /\ Typed([x EXCEPT !.firstRev = TRUE, !.state = "V90WaitSecondToneA"])
    <3>1. /\ Ranged([x EXCEPT !.tx = <<"L1">>, !.state = "V90SendL1"])
          /\ Ranged([x EXCEPT !.firstRev = TRUE, !.state = "V90WaitSecondToneA"])
      BY <1>0, <2>1, StatesKnown DEF Signals, Typed, Shaped, Ranged, Fields
    <3> QED BY <3>1, <1>0, <2>1, Assigned DEF Typed
  <2>3. /\ Typed(To(x, "V90Phase2RttComplete"))
        /\ Typed(To(x, "V90WaitSecondToneA"))
    BY <2>1, ToTyped, StatesKnown
  <2>4. m' \in {[x EXCEPT !.tx = <<"L1">>, !.state = "V90SendL1"],
                [x EXCEPT !.firstRev = TRUE, !.state = "V90WaitSecondToneA"],
                To(x, "V90Phase2RttComplete"), To(x, "V90WaitSecondToneA")}
    BY <1>3 DEF ToneBEnds, Becomes
  <2> QED BY <2>2, <2>3, <2>4
<1>4. CASE AdvanceSignal
  <2>1. /\ m.state \in DOMAIN Follows /\ <<Follows[m.state][1]>> \in Seq(Signals)
        /\ Follows[m.state][2] \in LiveState
    BY <1>0, <1>4, StatesKnown DEF AdvanceSignal, Follows, Signals
  <2> QED BY <1>4, <2>1, QueueTyped, ToTyped DEF AdvanceSignal, Becomes
<1>5. CASE AdvanceInfo0d
  BY <1>5, Phase2Typed, ToTyped, StatesKnown DEF AdvanceInfo0d, AfterInfo0d, Becomes
<1>6. CASE AdvanceJdBar
  <2>1. /\ Typed([m EXCEPT !.p3 = "cpt", !.tx = <<"Ri">>, !.state = "V90Phase4WaitCPt"])
        /\ Typed([m EXCEPT !.p3 = "s", !.tx = <<"DIL">>, !.state = "V90Phase3SendDIL"])
        /\ Typed([m EXCEPT !.p3 = "s", !.state = "V90Fallback"])
    <3>1. /\ Ranged([m EXCEPT !.p3 = "cpt", !.tx = <<"Ri">>, !.state = "V90Phase4WaitCPt"])
          /\ Ranged([m EXCEPT !.p3 = "s", !.tx = <<"DIL">>, !.state = "V90Phase3SendDIL"])
          /\ Ranged([m EXCEPT !.p3 = "s", !.state = "V90Fallback"])
      BY <1>0, StatesKnown DEF Signals, Typed, Shaped, Ranged, Fields
    <3> QED BY <3>1, <1>0, Assigned DEF Typed
  <2>2. m' \in {To(m, "V90Fallback"),
                [m EXCEPT !.p3 = "cpt", !.tx = <<"Ri">>, !.state = "V90Phase4WaitCPt"],
                [m EXCEPT !.p3 = "s", !.tx = <<"DIL">>, !.state = "V90Phase3SendDIL"],
                [m EXCEPT !.p3 = "s", !.state = "V90Fallback"]}
    BY <1>6, Zenon DEF AdvanceJdBar, AfterJdBar, Becomes
  <2>3. Typed(To(m, "V90Fallback"))
    BY ToTyped, StatesKnown
  <2> QED BY <2>1, <2>2, <2>3
<1>7. CASE AdvanceRepeats
  <2>1. <<"DIL">> \in Seq(Signals) /\ <<"MP">> \in Seq(Signals) /\ m.state \in LiveState
    BY DEF Signals, Typed, Shaped, Ranged, Fields
  <2> QED BY <1>7, <2>1, QueueTyped, ToTyped, StatesKnown DEF AdvanceRepeats, Emit, Becomes
<1>8. CASE AdvancePhases
  <2>1. Typed([m EXCEPT !.p3 = "s", !.tx = <<"Jd">>, !.state = "V90Phase3SendJd"])
    <3>1. Ranged([m EXCEPT !.p3 = "s", !.tx = <<"Jd">>, !.state = "V90Phase3SendJd"])
      BY <1>0, StatesKnown DEF Signals, Typed, Shaped, Ranged, Fields
    <3> QED BY <3>1, <1>0, Assigned DEF Typed
  <2> QED BY <1>8, <2>1, ToTyped, StatesKnown DEF AdvancePhases, Becomes
<1>9. CASE AdvanceOthers
  <2> DEFINE x == [m EXCEPT !.reverse = FALSE, !.tail = FALSE, !.state = "V90ToneB"]
             y == [m EXCEPT !.v8 = span, !.tx = IF span THEN <<>> ELSE <<"ANSam">>,
                            !.state = "V92ANSam"]
  <2>1. Typed(x)
    <3>1. Ranged(x)
      BY StatesKnown DEF Typed, Shaped, Ranged, Fields
    <3> QED BY <3>1, Assigned DEF Typed
  <2>2. Typed(y)
    <3> DEFINE q == IF span THEN <<>> ELSE <<"ANSam">>
    <3>1. "ANSam" \in Signals /\ <<>> \in Seq(Signals)
      BY DEF Signals
    <3>2. q \in Seq(Signals) /\ span \in BOOLEAN
      BY <1>0, <3>1 DEF IInv
    <3> HIDE DEF q
    <3>3. Ranged([m EXCEPT !.v8 = span, !.tx = q, !.state = "V92ANSam"])
      BY <3>2, StatesKnown DEF Typed, Shaped, Ranged, Fields
    <3>4. Shaped([m EXCEPT !.v8 = span, !.tx = q, !.state = "V92ANSam"])
      BY Assigned DEF Typed
    <3> QED BY <3>3, <3>4 DEF Typed, q
  <2>3. m' \in {x, y, StartShortPhase2(m), To(m, "V21Carrier")}
    BY <1>9 DEF AdvanceOthers, Becomes
  <2> QED BY <2>1, <2>2, <2>3, Phase2Typed, ToTyped, StatesKnown
<1> QED BY <1>1, <1>2, <1>3, <1>4, <1>5, <1>6, <1>7, <1>8, <1>9, AdvanceCases DEF Transmit

LEMMA ExpireTyped == ASSUME Typed(m), Expire PROVE Typed(m')
<1>1. CASE V8Expires
  <2>1. Typed([Clear(m) EXCEPT !.v8 = FALSE, !.state = "MediaWait"])
    <3>1. Typed(Clear(m))
      BY ClearTyped
    <3>2. ASSUME NEW c, Typed(c) PROVE Typed([c EXCEPT !.v8 = FALSE, !.state = "MediaWait"])
      <4>1. Ranged([c EXCEPT !.v8 = FALSE, !.state = "MediaWait"])
        BY <3>2, StatesKnown DEF Typed, Shaped, Ranged, Fields
      <4> QED BY <3>2, <4>1, Assigned DEF Typed
    <3> QED BY <3>1, <3>2
  <2> QED BY <1>1, <2>1, RungsTyped DEF V8Expires, Unanswered, Becomes
<1>2. CASE ToneqExpires
  BY <1>2, RungsTyped DEF ToneqExpires, Becomes
<1>3. CASE ProbeToneExpires
  <2>1. Ranged(m')
    BY <1>3 DEF ProbeToneExpires, Becomes, Typed, Shaped, Ranged, Fields
  <2> QED BY <1>3, <2>1, Assigned DEF ProbeToneExpires, Becomes, Typed
<1>4. CASE SecondToneExpires
  <2> DEFINE x == [m EXCEPT !.short = FALSE]
  <2>1. Typed(x) /\ x.retries = m.retries
    <3>1. Ranged(x) /\ x.retries = m.retries
      BY DEF Typed, Shaped, Ranged, Fields
    <3> QED BY <3>1, Assigned DEF Typed
  <2>2. CASE m.retries = 2
    BY <1>4, <2>1, <2>2, ToTyped, StatesKnown DEF SecondToneExpires, Becomes
  <2>3. CASE m.retries # 2
    <3>1. Typed([x EXCEPT !.retries = @ + 1, !.tx = <<>>, !.toneA = FALSE,
                    !.state = "V90ToneRetryWaitToneA"])
      <4>1. Ranged([x EXCEPT !.retries = @ + 1, !.tx = <<>>, !.toneA = FALSE,
                      !.state = "V90ToneRetryWaitToneA"])
        BY <2>1, <2>3, StatesKnown DEF Typed, Shaped, Ranged, Fields
      <4> QED BY <4>1, <2>1, <2>3, Assigned DEF Typed
    <3> QED BY <1>4, <2>3, <3>1 DEF SecondToneExpires, Becomes
  <2> QED BY <2>2, <2>3
<1>5. CASE GivesUp
  BY <1>5, ToTyped, StatesKnown DEF GivesUp, Becomes
<1>6. CASE Info1aExpires
  <2>1. Typed([m EXCEPT !.armed = TRUE])
    <3>1. Ranged([m EXCEPT !.armed = TRUE])
      BY DEF Typed, Shaped, Ranged, Fields
    <3> QED BY <3>1, Assigned DEF Typed
  <2> QED BY <1>6, <2>1, Phase2Typed DEF Info1aExpires, Becomes
<1>7. CASE TrainingExpires
  BY <1>7, Phase2Typed DEF TrainingExpires, Becomes
<1>8. CASE MPExpires
  <2>1. Typed([m EXCEPT !.mpAck = TRUE])
    <3>1. Ranged([m EXCEPT !.mpAck = TRUE])
      BY DEF Typed, Shaped, Ranged, Fields
    <3> QED BY <3>1, Assigned DEF Typed
  <2>2. <<"Ed">> \in Seq(Signals)
    BY DEF Signals
  <2> QED BY <1>8, <2>1, <2>2, QueueTyped, ToTyped, StatesKnown DEF MPExpires, Becomes
<1> QED BY <1>1, <1>2, <1>3, <1>4, <1>5, <1>6, <1>7, <1>8 DEF Expire

LEMMA BlankTyped == Typed(Blank)
<1>1. <<>> \in Seq(Signals)
  OBVIOUS
<1> QED BY <1>1, StatesKnown DEF Blank, Typed, Shaped, Ranged, Fields

LEMMA CallTyped == ASSUME Typed(m), StartCall \/ EndCall PROVE Typed(m')
<1>1. CASE StartCall
  <2>1. Typed(To(Queue(Blank, <<"silence">>), "V92AnswerSilence"))
    <3>1. <<"silence">> \in Seq(Signals)
      BY DEF Signals
    <3> QED BY <3>1, BlankTyped, QueueTyped, ToTyped, StatesKnown
  <2>2. Typed(StartV21(Blank)) /\ Typed(StartV22(Blank, 2400)) /\ Typed(StartV22(Blank, 1200))
    BY BlankTyped, V21Typed, V22Typed
  <2>3. Typed(StartV8(Blank))
    BY BlankTyped, RungsTyped
  <2>4. m' \in {StartV21(Blank), StartV22(Blank, 2400), StartV22(Blank, 1200), StartV8(Blank),
                To(Queue(Blank, <<"silence">>), "V92AnswerSilence")}
    BY <1>1 DEF StartCall
  <2> QED BY <2>1, <2>2, <2>3, <2>4
<1>2. CASE EndCall
  <2>1. Ranged(m')
    BY <1>2, StatesKnown DEF EndCall, Typed, Shaped, Ranged, Fields
  <2>2. Shaped(m')
    BY <1>2 DEF EndCall, Typed, Shaped
  <2> QED BY <2>1, <2>2 DEF Typed
<1> QED BY <1>1, <1>2

-----------------------------------------------------------------------------
LEMMA InitIInv == Init => IInv
<1> SUFFICES ASSUME Init PROVE IInv
  OBVIOUS
<1>1. HasFields(Blank) /\ Blank.tx = <<>> /\ Blank.state = "Idle" /\ Blank.stage = 0
  BY DEF Blank, HasFields
<1>2. Ready(Blank) /\ Fresh(Blank) /\ Unblind(Blank)
  BY <1>1 DEF Ready, Fresh, Unblind, V22States, UsesPhase3, UsesDescriptor, UsesPhase4,
              Phase3, Phase4, Exchange
<1> QED BY <1>1, <1>2 DEF Init, IInv, Good, Equipped

\* The callbacks leave the configuration and the count of calls alone.
LEMMA CallbacksKeep ==
  ASSUME Rx \/ Transmit \/ Expire
  PROVE  UNCHANGED <<mode, span, calls>>
<1>1. CASE Rx
  <2>1. CASE RxMediaWait \/ RxRetryTone \/ RxTone \/ RxFirstReversal \/
       RxSecondReversal \/ RxEarlyProbe \/ RxAfterRanging
    BY Zenon, <2>1 DEF Becomes, RxMediaWait, RxRetryTone, RxTone,
         RxFirstReversal, RxSecondReversal, RxEarlyProbe, RxAfterRanging
  <2>2. CASE RxProbe \/ RxProbeElapses \/ RxSecondRoundTone \/ RxLocalTone \/
       RxL2Elapses \/ RxInfo1a \/ RxInfoMarks \/ RxToneInWait
    BY Zenon, <2>2 DEF Becomes, RxProbe, RxProbeElapses, RxSecondRoundTone,
         RxLocalTone, RxL2Elapses, RxInfo1a, RxInfoMarks, RxToneInWait
  <2>3. CASE RxJa \/ RxS \/ RxCPt \/ RxCP \/ RxCPPrime \/ RxRetrain
    BY Zenon, <2>3 DEF Becomes, RxJa, RxS, RxCPt, RxCP, RxCPPrime, RxRetrain
  <2>4. CASE RxQuickConnect \/ RxToneq \/ RxV22Ready \/ RxV22Fails \/ RxMark \/
       RxNothing
    BY Zenon, <2>4 DEF Becomes, RxQuickConnect, RxToneq, RxV22Ready, RxV22Fails,
         RxMark, RxNothing
  <2>5. CASE \E confirmed \in BOOLEAN : RxInfo0a(confirmed)
    BY Zenon, <2>5 DEF Becomes, RxInfo0a
  <2>6. CASE RxV8
    BY <2>6 DEF Becomes, RxV8
  <2> QED BY <1>1, <2>1, <2>2, <2>3, <2>4, <2>5, <2>6 DEF Rx
<1>2. CASE Transmit
  <2>1. CASE Play \/ ToneBReverses \/ ToneBEnds
    BY Zenon, <2>1 DEF Becomes, Play, ToneBReverses, ToneBEnds
  <2>2. CASE Advance
    BY Zenon, <2>2, AdvanceCases DEF Becomes, AdvanceSignal, AdvanceInfo0d, AdvanceJdBar,
         AdvanceRepeats, AdvancePhases, AdvanceOthers, AfterJdBar, Emit
  <2> QED BY <1>2, <2>1, <2>2 DEF Transmit
<1>3. CASE Expire
  BY Zenon, <1>3 DEF Expire, Becomes, V8Expires, ToneqExpires, ProbeToneExpires,
       SecondToneExpires, GivesUp, Info1aExpires, TrainingExpires, MPExpires
<1> QED BY <1>1, <1>2, <1>3

LEMMA NextIInv == IInv /\ [Next]_vars => IInv'
<1> SUFFICES ASSUME IInv, [Next]_vars PROVE IInv'
  OBVIOUS
<1>1. UNCHANGED <<mode, span>>
  BY CallbacksKeep DEF Next, StartCall, EndCall, vars
<1>2. CASE UNCHANGED vars
  BY <1>2 DEF vars, IInv, Good, Equipped, HasFields, Ready, Fresh, Unblind, Ladder, HighSpeed
<1>3. CASE Next
  <2>1. Equipped(m') /\ Fresh(m')
    BY <1>3, RxEquipped, TransmitEquipped, ExpireEquipped, CallEquipped,
       RxFresh, TransmitFresh, ExpireFresh, CallFresh DEF Next
  <2> QED BY <1>1, <2>1 DEF IInv, Good, Equipped, HasFields, Ready, Fresh, Unblind, Ladder,
                            HighSpeed
<1> QED BY <1>2, <1>3

(* The equipment, the queue and the rung of the ladder fit the state after *)
(* any number of calls, whatever is received and whenever times elapse.    *)
THEOREM Invariance == Spec => []IInv
  BY InitIInv, NextIInv, PTL DEF Spec

LEMMA NextTyped == IInv /\ TypeOK /\ [Next]_vars => TypeOK'
<1> SUFFICES ASSUME IInv, TypeOK, [Next]_vars PROVE TypeOK'
  OBVIOUS
<1>1. CASE Rx \/ Transmit \/ Expire
  BY <1>1, RxTyped, TransmitTyped, ExpireTyped, CallbacksKeep, TypedIsModem DEF TypeOK
<1>2. CASE StartCall \/ EndCall
  <2>1. m' \in Modem /\ UNCHANGED <<mode, span>>
    BY <1>2, CallTyped, TypedIsModem DEF TypeOK, StartCall, EndCall
  <2>2. calls' \in 0 .. MaxCalls
    BY <1>2, ModesKnown DEF TypeOK, StartCall, EndCall
  <2> QED BY <2>1, <2>2 DEF TypeOK
<1>3. CASE UNCHANGED vars
  BY <1>3 DEF TypeOK, vars
<1> QED BY <1>1, <1>2, <1>3 DEF Next

(* Every field of the modem keeps its range: the rung of the ladder, the   *)
(* two repeats of INFO1d and the two counted retrains never exceed theirs, *)
(* and tx_pcmu_ holds only signals of the procedures.                      *)
THEOREM TypeCorrect == Spec => []TypeOK
<1>1. Init => TypeOK
  BY BlankTyped, TypedIsModem, ModesKnown DEF Init, TypeOK
<1> QED BY <1>1, NextTyped, Invariance, PTL DEF Spec

(* No state of the start-up is entered without the object or the Ja        *)
(* descriptor its handlers need, and none keeps one of an older training.  *)
THEOREM Equipment == Spec => []EquipmentReady
<1>1. IInv => EquipmentReady
  BY DEF IInv, Good, Equipped, Ready, EquipmentReady
<1> QED BY <1>1, Invariance, PTL

(* No retrain, fallback or start function leaves a signal of the abandoned *)
(* handshake in tx_pcmu_.                                                  *)
THEOREM QueueOfState == Spec => []NoStaleAudio
<1>1. IInv => NoStaleAudio
  <2> SUFFICES ASSUME IInv, m.state \notin Abandoned,
                      NEW i \in 1 .. Len(m.tx)
               PROVE  m.tx[i] \in MayPlay(m.state)
    BY DEF NoStaleAudio, Abandoned
  <2> QED BY ElementOfSeq DEF IInv, Good, Fresh
<1> QED BY <1>1, Invariance, PTL

(* Where V.8 finds out what the caller is, no carrier is tried on silence. *)
THEOREM HeardFirst == Spec => []NoBlindFallback
<1>1. IInv => NoBlindFallback
  BY DEF IInv, Good, Equipped, Unblind, NoBlindFallback
<1> QED BY <1>1, Invariance, PTL
=============================================================================
