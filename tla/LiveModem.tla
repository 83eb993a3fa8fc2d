----------------------------- MODULE LiveModem -----------------------------
(***************************************************************************)
(* The answering modem: V.8, the ladder from V.22bis to V.21, V.92 quick   *)
(* connect and V.90 Phases 2 to 4.  The modem is one object under one      *)
(* mutex; its two callbacks are the actions.  Received audio (Rx...) may   *)
(* contain any signal the detector of the state looks for; the audio sent  *)
(* (Tx...) empties the queue, and what follows an empty queue or an        *)
(* elapsed time is decided there.  A time may elapse whenever the state    *)
(* that waits for it lasts; signal processing is left to the choice of     *)
(* what is detected.                                                       *)
(***************************************************************************)
EXTENDS Naturals, Sequences

CONSTANTS
  Modes,     \* the values of LiveMode a configuration selects
  MaxCalls   \* bound: calls one after the other

ASSUME ModesKnown ==
  /\ Modes \subseteq {"auto", "v90", "v92", "v22bis", "v22", "v21"}
  /\ MaxCalls \in Nat

VARIABLES
  mode,   \* mode_
  span,   \* SpanDSP is available, so V.8 and V.22 can start
  calls,  \* calls begun
  m       \* the modem; see Modem

vars == <<mode, span, calls, m>>

HighSpeed == mode \in {"v90", "v92"}
Ladder == mode = "auto" \/ HighSpeed

FirstRound  == {"V90ToneB", "V90ToneBReversed"}
SecondRound == {"V90ProbeToneB", "V90ProbeToneBReversed"}
Ranging == {"V90Phase2Silence", "V90INFO0d", "V90WaitSecondToneA"} \cup FirstRound
Phase2 == Ranging \cup SecondRound \cup
  {"V90ToneRetryWaitToneA", "V90Phase2RttComplete", "V90RecvRemoteL1", "V90RecvRemoteL2",
   "V90SendL1", "V90SendL2", "V90INFO1d", "V90WaitINFO1a"}
Phase3 == {"V90Phase3WaitAnalogue", "V90Phase3SendSd", "V90Phase3SendTRN1d",
           "V90Phase3SendJd", "V90Phase3SendJdBar", "V90Phase3SendDIL"}
Exchange == {"V90Phase4SendTRN2d", "V90Phase4SendMP"}
Phase4 == Exchange \cup {"V90Phase4WaitCPt", "V90Phase4SendEd"}
V92States == {"V92AnswerSilence", "V92ANSam", "V92QCA1d", "V92Silence75", "V92QTS",
              "V92ANSpcm", "V92PostToneqSilence", "V92ShortPhase2Reached"}
V22States == {"V22Training", "V22Data"}
V21States == {"V21ANS", "V21Silence75", "V21Carrier", "V21Data"}
LiveState == Phase2 \cup Phase3 \cup Phase4 \cup V92States \cup V22States \cup V21States \cup
  {"Idle", "MediaWait", "V8Negotiating", "V90Data", "V90RetrainSilence",
   "V90Fallback", "V92Fallback"}

Signals == {"silence", "ANS", "ANSam", "QCA1d", "QTS", "ANSpcm", "INFO0d", "L1", "L2",
            "INFO1d", "Sd", "TRN1d", "Jd", "JdBar", "DIL", "Ri", "RiBar", "TRN2d", "MP", "Ed"}

\* tx: the signals in tx_pcmu_.  rate: span_v22_, 0 without one.  p3: what
\* v90_phase3_rx_ listens for, "none" without the Phase-3 pair, "deaf" when
\* nothing is armed.  dil: the Ja descriptor, "old" once training restarts.
Modem == [state: LiveState, tx: Seq(Signals), media: BOOLEAN, stage: 0 .. 3, v8: BOOLEAN,
          rate: {0, 1200, 2400}, short: BOOLEAN, info0a: BOOLEAN, acked: BOOLEAN,
          toneA: BOOLEAN, firstRev: BOOLEAN, secondA: BOOLEAN, secondRound: BOOLEAN,
          probe: BOOLEAN, localA: BOOLEAN, armed: BOOLEAN, reverse: BOOLEAN, tail: BOOLEAN,
          repeats: 0 .. 2, retries: 0 .. 2,
          p3: {"none", "ja", "deaf", "s", "cpt", "cp"}, dil: {"none", "new", "old"},
          p4: BOOLEAN, mpAck: BOOLEAN]

TypeOK == mode \in Modes /\ span \in BOOLEAN /\ calls \in 0 .. MaxCalls /\ m \in Modem

Blank == [state |-> "Idle", tx |-> <<>>, media |-> FALSE, stage |-> 0, v8 |-> FALSE,
          rate |-> 0, short |-> FALSE, info0a |-> FALSE, acked |-> FALSE,
          toneA |-> FALSE, firstRev |-> FALSE, secondA |-> FALSE, secondRound |-> FALSE,
          probe |-> FALSE, localA |-> FALSE, armed |-> FALSE, reverse |-> FALSE,
          tail |-> FALSE, repeats |-> 0, retries |-> 0, p3 |-> "none", dil |-> "none",
          p4 |-> FALSE, mpAck |-> FALSE]

Init == mode \in Modes /\ span \in BOOLEAN /\ calls = 0 /\ m = Blank

-----------------------------------------------------------------------------
(* The start functions, as functions of the modem they are called on. *)

To(x, s) == [x EXCEPT !.state = s]
Queue(x, signals) == [x EXCEPT !.tx = @ \o signals]
Clear(x) == [x EXCEPT !.tx = <<>>]

StartV21(x) == To(Queue([x EXCEPT !.stage = 3], <<"ANS">>), "V21ANS")

StartV22(x, bps) ==
  [x EXCEPT !.tx = <<>>, !.v8 = FALSE, !.rate = bps,
            !.stage = IF Ladder THEN (IF bps = 2400 THEN 1 ELSE 2) ELSE @,
            !.state = IF span THEN "V22Training" ELSE "V92Fallback"]

\* Mutant: a failed V.22 1200 is retried.
FallbackAgain(x) ==
  LET y == [x EXCEPT !.rate = 0]
  IN  IF ~Ladder THEN To(y, "V92Fallback")
      ELSE IF x.stage <= 2 THEN StartV22(y, 1200) ELSE StartV21(y)

FallbackFromV22(x) ==
  LET y == [x EXCEPT !.rate = 0]
  IN  IF ~Ladder THEN To(y, "V92Fallback")
      ELSE IF x.stage <= 1 THEN StartV22(y, 1200) ELSE StartV21(y)

StartV8(x) == IF span THEN [Clear(x) EXCEPT !.v8 = TRUE, !.state = "V8Negotiating"]
                      ELSE StartV21(Clear(x))

\* The next carrier after V.8 or ANSam brought nothing.
Direct(x) == IF span THEN StartV22([x EXCEPT !.v8 = FALSE], 2400)
                     ELSE StartV21([x EXCEPT !.v8 = FALSE])

FreshPhase2(x) ==
  [x EXCEPT !.tx = <<>>, !.p3 = "none", !.p4 = FALSE, !.dil = "none", !.mpAck = FALSE,
            !.info0a = FALSE, !.acked = FALSE, !.toneA = FALSE, !.firstRev = FALSE,
            !.secondA = FALSE, !.secondRound = FALSE, !.armed = FALSE,
            !.reverse = FALSE, !.tail = FALSE, !.repeats = 0, !.retries = 0,
            !.state = "V90Phase2Silence"]
StartPhase2(x) == [FreshPhase2(x) EXCEPT !.v8 = FALSE, !.short = FALSE,
                                         !.probe = FALSE, !.localA = FALSE]
StartShortPhase2(x) == [FreshPhase2(x) EXCEPT !.short = TRUE]

SendInfo0d(x) == [x EXCEPT !.tx = <<"INFO0d">>, !.acked = @ \/ x.info0a,
                           !.state = "V90INFO0d"]
SendInfo1d(x) == [x EXCEPT !.tx = <<"INFO1d">>, !.armed = FALSE, !.state = "V90INFO1d"]

\* Mutant: what was queued is still sent.
BeginRetrainKeepsQueue(x) ==
  [x EXCEPT !.tx = Append(@, "silence"), !.p3 = "none", !.p4 = FALSE, !.mpAck = FALSE,
            !.toneA = TRUE, !.firstRev = FALSE, !.secondA = FALSE, !.secondRound = FALSE,
            !.probe = FALSE, !.localA = FALSE, !.armed = FALSE, !.repeats = 0,
            !.reverse = FALSE, !.tail = FALSE, !.short = FALSE,
            !.dil = IF @ = "new" THEN "old" ELSE @, !.state = "V90RetrainSilence"]

\* v90_dil_descriptor_ stays.
BeginRetrain(x) ==
  [x EXCEPT !.tx = <<"silence">>, !.p3 = "none", !.p4 = FALSE, !.mpAck = FALSE,
            !.toneA = TRUE, !.firstRev = FALSE, !.secondA = FALSE, !.secondRound = FALSE,
            !.probe = FALSE, !.localA = FALSE, !.armed = FALSE, !.repeats = 0,
            !.reverse = FALSE, !.tail = FALSE, !.short = FALSE,
            !.dil = IF @ = "new" THEN "old" ELSE @, !.state = "V90RetrainSilence"]

\* Mutant: one retrain too many.
CountedRetrainOnceMore(x) ==
  IF x.retries <= 2 THEN BeginRetrain([x EXCEPT !.retries = @ + 1])
                    ELSE To([x EXCEPT !.short = FALSE], "V90Fallback")

\* One of the two counted retrains, or the end.
CountedRetrain(x) == IF x.retries < 2 THEN BeginRetrain([x EXCEPT !.retries = @ + 1])
                                      ELSE To([x EXCEPT !.short = FALSE], "V90Fallback")

-----------------------------------------------------------------------------
(* start_call and end_call. *)

StartCall ==
  /\ m.state = "Idle" /\ calls < MaxCalls /\ calls' = calls + 1
  /\ m' = CASE mode = "v21" -> StartV21(Blank)
            [] mode = "v22bis" -> StartV22(Blank, 2400)
            [] mode = "v22" -> StartV22(Blank, 1200)
            [] mode = "v92" -> To(Queue(Blank, <<"silence">>), "V92AnswerSilence")
            [] OTHER -> StartV8(Blank)
  /\ UNCHANGED <<mode, span>>

EndCall ==
  /\ m.state # "Idle"
  /\ m' = [m EXCEPT !.tx = <<>>, !.rate = 0, !.v8 = FALSE, !.p3 = "none", !.p4 = FALSE,
                    !.dil = "none", !.state = "Idle"]
  /\ UNCHANGED <<mode, span, calls>>

-----------------------------------------------------------------------------
(* receive_pcm: one block of audio from the caller. *)

Heard == [m EXCEPT !.media = TRUE]
Becomes(x) == m' = x /\ UNCHANGED <<mode, span, calls>>

RxMediaWait == m.state = "MediaWait" /\ Becomes(StartV8(Heard))

RxV8 ==
  /\ m.state = "V8Negotiating"
  /\ \/ HighSpeed /\ Becomes(StartPhase2(Heard))
     \/ Becomes(StartV22(Heard, 2400))
     \/ Becomes(IF Ladder THEN Direct(Heard) ELSE StartV21([Heard EXCEPT !.v8 = FALSE]))

\* INFO0a; confirmed: with the V.92 short-phase bits.
RxInfo0a(confirmed) ==
  LET x == [Heard EXCEPT !.info0a = TRUE, !.short = @ /\ confirmed]
  IN  /\ m.state \in Phase2 \ {"V90ToneRetryWaitToneA"} /\ ~m.info0a
      /\ Becomes(IF ~m.acked /\ m.state \in FirstRound THEN SendInfo0d(x) ELSE x)

RxRetryTone ==
  /\ m.state = "V90ToneRetryWaitToneA"
  /\ Becomes([Heard EXCEPT !.tx = <<>>, !.toneA = TRUE, !.firstRev = FALSE,
                           !.secondRound = FALSE, !.reverse = FALSE, !.tail = FALSE,
                           !.state = "V90ToneB"])

RxTone ==
  LET x == [Heard EXCEPT !.toneA = TRUE]
  IN  /\ m.state \in Ranging /\ ~m.toneA
      /\ Becomes(IF ~m.info0a /\ m.state = "V90ToneB" THEN SendInfo0d(x) ELSE x)

RxFirstReversal ==
  /\ m.state \in {"V90ToneB", "V90INFO0d"} /\ ~m.short /\ ~m.firstRev
  /\ Becomes([Heard EXCEPT !.firstRev = TRUE, !.reverse = TRUE])

RxSecondReversal ==
  LET x == [Heard EXCEPT !.secondA = TRUE]
  IN  /\ m.state \in Ranging /\ m.firstRev
      /\ Becomes(IF m.state # "V90WaitSecondToneA" THEN x
                 ELSE To(x, IF m.short THEN "V90WaitINFO1a" ELSE "V90Phase2RttComplete"))

RxEarlyProbe ==
  /\ m.state = "V90WaitSecondToneA"
  /\ Becomes([Heard EXCEPT !.secondA = TRUE, !.probe = TRUE, !.state = "V90RecvRemoteL1"])

RxAfterRanging ==
  /\ m.state = "V90Phase2RttComplete"
  /\ Becomes([Heard EXCEPT !.probe = FALSE, !.state = "V90RecvRemoteL1"])

RxProbe ==
  /\ m.state = "V90RecvRemoteL1" /\ ~m.probe
  /\ Becomes([Heard EXCEPT !.probe = TRUE])

BeginSecondRound(x) == [x EXCEPT !.secondRound = TRUE, !.secondA = FALSE, !.reverse = FALSE,
                                 !.tail = FALSE, !.state = "V90ProbeToneB"]

\* 160 ms of L1, or 400 ms of nothing; 100 ms of L2.
RxProbeElapses ==
  \/ /\ m.state = "V90RecvRemoteL1"
     /\ Becomes(IF m.probe THEN To(Heard, "V90RecvRemoteL2") ELSE BeginSecondRound(Heard))
  \/ m.state = "V90RecvRemoteL2" /\ Becomes(BeginSecondRound(Heard))

RxSecondRoundTone ==
  /\ m.state \in SecondRound
  /\ \/ ~m.secondA /\ Becomes([Heard EXCEPT !.secondA = TRUE])
     \/ Becomes([Heard EXCEPT !.reverse = TRUE])

RxLocalTone ==
  /\ m.state \in {"V90SendL1", "V90SendL2"} /\ ~m.localA
  /\ Becomes([Heard EXCEPT !.localA = TRUE])

RxL2Elapses ==
  m.state = "V90SendL2" /\ m.localA /\ Becomes(SendInfo1d(Heard))

\* The Phase-3 pair is built from the parameters of INFO1a, if it supports them.
RxInfo1a ==
  LET x == [Heard EXCEPT !.short = FALSE]
  IN  /\ m.state = "V90WaitINFO1a"
      /\ \/ Becomes(To(x, "V92ShortPhase2Reached"))
         \/ Becomes([x EXCEPT !.p3 = "ja", !.state = "V90Phase3WaitAnalogue"])
         \/ Becomes(To([x EXCEPT !.p3 = "none"], "V90Fallback"))

RxInfoMarks ==
  /\ m.state = "V90WaitINFO1a" /\ m.armed
  /\ Becomes(IF m.repeats < 2 THEN SendInfo1d([Heard EXCEPT !.repeats = @ + 1])
                              ELSE CountedRetrain(Heard))

RxToneInWait ==
  m.state = "V90WaitINFO1a" /\ m.armed /\ Becomes(CountedRetrain(Heard))

-----------------------------------------------------------------------------
(* receive_pcm in Phases 3 and 4. *)

\* Mutant: a descriptor that is already there is kept.
RxJaKeepsDescriptor ==
  /\ m.p3 = "ja" /\ m.state = "V90Phase3WaitAnalogue"
  /\ Becomes(To(Queue([Heard EXCEPT !.p3 = "deaf", !.dil = IF @ = "none" THEN "new" ELSE @],
                      <<"silence", "Sd">>), "V90Phase3SendSd"))

RxJa ==
  /\ m.p3 = "ja" /\ m.state = "V90Phase3WaitAnalogue"
  /\ \/ Becomes(To([Heard EXCEPT !.p3 = "deaf"], "V90Fallback"))
     \/ Becomes(To(Queue([Heard EXCEPT !.p3 = "deaf", !.dil = "new"], <<"silence", "Sd">>),
                   "V90Phase3SendSd"))

RxS ==
  LET x == [Heard EXCEPT !.p3 = "deaf"]
  IN  /\ m.p3 = "s" /\ m.state \in Phase3
      /\ Becomes(CASE m.state = "V90Phase3SendJd" ->
                        To(Queue(x, <<"JdBar">>), "V90Phase3SendJdBar")
                   [] m.state = "V90Phase3SendDIL" ->
                        [x EXCEPT !.p3 = "cpt", !.tx = <<"Ri">>, !.state = "V90Phase4WaitCPt"]
                   [] OTHER -> x)

RxCPt ==
  /\ m.p3 = "cpt" /\ m.state = "V90Phase4WaitCPt"
  /\ \/ Becomes(To([Heard EXCEPT !.p3 = "deaf", !.p4 = TRUE], "V90Fallback"))
     \/ Becomes(To(Queue([Heard EXCEPT !.p3 = "cp", !.p4 = TRUE, !.mpAck = FALSE],
                         <<"RiBar", "TRN2d">>), "V90Phase4SendTRN2d"))

RxCP ==
  /\ m.p3 = "cp" /\ m.state \in Exchange
  /\ Becomes([Heard EXCEPT !.mpAck = TRUE])

RxCPPrime ==
  /\ m.p3 = "cp" /\ m.state \in Exchange /\ m.p4
  /\ Becomes(To(Queue([Heard EXCEPT !.p3 = "deaf"], <<"Ed">>), "V90Phase4SendEd"))

\* 50 ms of Tone A.
RxRetrain ==
  /\ m.state \in (Phase3 \cup Phase4) \ {"V90Phase4SendEd"}
  /\ Becomes(BeginRetrain([Heard EXCEPT !.retries = 0]))

-----------------------------------------------------------------------------
(* receive_pcm in the other modes. *)

RxQuickConnect ==
  /\ m.state = "V92ANSam"
  /\ \/ Becomes([Heard EXCEPT !.v8 = FALSE, !.tx = <<"QCA1d">>, !.state = "V92QCA1d"])
     \/ m.v8 /\ Becomes([Heard EXCEPT !.tx = <<>>, !.state = "V8Negotiating"])

RxToneq ==
  /\ m.state = "V92ANSpcm"
  /\ Becomes([Heard EXCEPT !.tx = <<"silence">>, !.state = "V92PostToneqSilence"])

RxV22Ready == m.state = "V22Training" /\ Becomes(To(Heard, "V22Data"))

\* The carrier fails; while training, 20 s pass.
RxV22Fails == m.state \in V22States /\ Becomes(FallbackFromV22(Heard))

RxMark == m.state = "V21Carrier" /\ Becomes(To(Heard, "V21Data"))

RxNothing == m.state # "MediaWait" /\ ~m.media /\ Becomes(Heard)

Rx ==
  \/ RxMediaWait \/ RxV8 \/ RxRetryTone \/ RxTone \/ RxFirstReversal \/ RxSecondReversal
  \/ \E confirmed \in BOOLEAN : RxInfo0a(confirmed)
  \/ RxEarlyProbe \/ RxAfterRanging \/ RxProbe \/ RxProbeElapses \/ RxSecondRoundTone
  \/ RxLocalTone \/ RxL2Elapses \/ RxInfo1a \/ RxInfoMarks \/ RxToneInWait
  \/ RxJa \/ RxS \/ RxCPt \/ RxCP \/ RxCPPrime \/ RxRetrain
  \/ RxQuickConnect \/ RxToneq \/ RxV22Ready \/ RxV22Fails \/ RxMark \/ RxNothing

-----------------------------------------------------------------------------
(* next_tx_pcmu: the signal at the head of the queue is sent. *)

ToneBStates == FirstRound \cup SecondRound
\* The states in which the queue is not played.
NotPlayed == ToneBStates \cup V22States \cup
  {"Idle", "MediaWait", "V8Negotiating", "V90WaitSecondToneA", "V90ToneRetryWaitToneA",
   "V90Phase3WaitAnalogue", "V90Phase2RttComplete", "V90RecvRemoteL1", "V90RecvRemoteL2",
   "V90WaitINFO1a", "V90Fallback", "V90Data", "V21Carrier", "V21Data"}
Plays == m.state \notin NotPlayed /\ ~(m.state = "V92ANSam" /\ m.v8)

Play == Plays /\ m.tx # <<>> /\ Becomes([m EXCEPT !.tx = Tail(@)])

\* Tone B: 40 ms after the reversal of A it is reversed, 10 ms later it ends.
ToneBReverses ==
  /\ m.state \in ToneBStates /\ ~m.tail
  /\ m.reverse \/ (m.short /\ m.state = "V90ToneB" /\ ~m.secondRound /\ m.toneA)
  /\ Becomes([m EXCEPT !.reverse = FALSE, !.tail = TRUE,
                       !.state = IF m.secondRound THEN "V90ProbeToneBReversed"
                                                  ELSE "V90ToneBReversed"])

ToneBEnds ==
  LET x == [m EXCEPT !.tail = FALSE]
  IN  /\ m.state \in ToneBStates /\ m.tail
      /\ Becomes(CASE m.secondRound -> [x EXCEPT !.tx = <<"L1">>, !.state = "V90SendL1"]
                   [] ~m.secondRound /\ m.short ->
                        [x EXCEPT !.firstRev = TRUE, !.state = "V90WaitSecondToneA"]
                   [] OTHER -> To(x, IF m.secondA THEN "V90Phase2RttComplete"
                                                  ELSE "V90WaitSecondToneA"))

-----------------------------------------------------------------------------
(* maybe_advance_tx_state: the queue is empty. *)

\* One signal after the other, without a condition.
Follows == [V90SendL1 |-> <<"L2", "V90SendL2">>,
            V90Phase3SendSd |-> <<"TRN1d", "V90Phase3SendTRN1d">>,
            V90Phase3SendJd |-> <<"Jd", "V90Phase3SendJd">>,
            V90Phase4WaitCPt |-> <<"Ri", "V90Phase4WaitCPt">>,
            V92QCA1d |-> <<"silence", "V92Silence75">>,
            V92Silence75 |-> <<"QTS", "V92QTS">>,
            V92QTS |-> <<"ANSpcm", "V92ANSpcm">>,
            V21ANS |-> <<"silence", "V21Silence75">>]

\* An encoder that yields nothing ends the training.
Emit(signal, state) == \/ Becomes(To(Queue(m, <<signal>>), state))
                       \/ Becomes(To(m, "V90Fallback"))

AfterInfo0d == IF m.info0a /\ ~m.acked THEN SendInfo0d(m) ELSE To(m, "V90ToneB")

AfterJdBar ==
  IF m.dil = "none" THEN Becomes(To(m, "V90Fallback"))
  ELSE \/ Becomes([m EXCEPT !.p3 = "cpt", !.tx = <<"Ri">>, !.state = "V90Phase4WaitCPt"])
       \/ Becomes([m EXCEPT !.p3 = "s", !.tx = <<"DIL">>, !.state = "V90Phase3SendDIL"])
       \/ Becomes([m EXCEPT !.p3 = "s", !.state = "V90Fallback"])

Advance ==
  /\ Plays /\ m.tx = <<>>
  /\ \/ /\ m.state \in DOMAIN Follows
        /\ Becomes(To(Queue(m, <<Follows[m.state][1]>>), Follows[m.state][2]))
     \/ m.state = "V90Phase2Silence" /\ Becomes(SendInfo0d(m))
     \/ m.state = "V90INFO0d" /\ Becomes(AfterInfo0d)
     \/ m.state = "V90INFO1d" /\ Becomes(To(m, "V90WaitINFO1a"))
     \/ /\ m.state = "V90Phase3SendTRN1d"
        /\ Becomes([m EXCEPT !.p3 = "s", !.tx = <<"Jd">>, !.state = "V90Phase3SendJd"])
     \/ m.state = "V90Phase3SendJdBar" /\ AfterJdBar
     \/ m.state = "V90Phase3SendDIL" /\ Emit("DIL", m.state)
     \/ m.state \in Exchange /\ Emit("MP", "V90Phase4SendMP")
     \/ m.state = "V90Phase4SendEd" /\ Becomes(To(m, "V90Data"))
     \/ /\ m.state = "V90RetrainSilence"
        /\ Becomes([m EXCEPT !.reverse = FALSE, !.tail = FALSE, !.state = "V90ToneB"])
     \/ /\ m.state = "V92AnswerSilence"
        /\ Becomes([m EXCEPT !.v8 = span, !.tx = IF span THEN <<>> ELSE <<"ANSam">>,
                             !.state = "V92ANSam"])
     \/ m.state = "V92PostToneqSilence" /\ Becomes(StartShortPhase2(m))
     \/ m.state = "V21Silence75" /\ Becomes(To(m, "V21Carrier"))

Transmit == Play \/ ToneBReverses \/ ToneBEnds \/ Advance

-----------------------------------------------------------------------------
(* next_tx_pcmu: a time has passed since the state began. *)

\* Mutant: silence is taken for an answer.
UnansweredGuessed(x) == IF Ladder THEN Direct(x) ELSE StartV21([x EXCEPT !.v8 = FALSE])

\* Nothing came of V.8 or ANSam: with no audio at all the modem waits for some.
Unanswered(x) == IF ~x.media THEN [Clear(x) EXCEPT !.v8 = FALSE, !.state = "MediaWait"]
                 ELSE IF Ladder THEN Direct(x) ELSE StartV21([x EXCEPT !.v8 = FALSE])

V8Expires ==
  /\ m.state = "V8Negotiating" \/ (m.state = "V92ANSam" /\ (m.v8 \/ m.tx = <<>>))
  /\ Becomes(Unanswered(m))

ToneqExpires == m.state = "V92ANSpcm" /\ Becomes(StartV8(m))

ProbeToneExpires ==
  m.state = "V90ProbeToneB" /\ ~m.reverse /\ Becomes([m EXCEPT !.reverse = TRUE])

SecondToneExpires ==
  LET x == [m EXCEPT !.short = FALSE]
  IN  /\ m.state = "V90WaitSecondToneA"
      /\ Becomes(IF m.retries = 2 THEN To(x, "V90Fallback")
                 ELSE [x EXCEPT !.retries = @ + 1, !.tx = <<>>, !.toneA = FALSE,
                                !.state = "V90ToneRetryWaitToneA"])

\* The retry, the remote probe, or the local L2 sent to its end.
GivesUp ==
  /\ \/ m.state \in {"V90ToneRetryWaitToneA", "V90RecvRemoteL1", "V90RecvRemoteL2"}
     \/ m.state = "V90SendL2" /\ m.tx = <<>>
  /\ Becomes(To(m, "V90Fallback"))

Info1aExpires ==
  /\ m.state = "V90WaitINFO1a"
  /\ Becomes(IF m.short \/ m.armed THEN CountedRetrain(m) ELSE [m EXCEPT !.armed = TRUE])

\* Mutant: the window of Jd is not watched.
TrainingExpiresNotInJd ==
  /\ m.state \in {"V90Phase3SendDIL", "V90Phase4WaitCPt"}
  /\ Becomes(BeginRetrain(m))

\* These retrains are not counted.
TrainingExpires ==
  /\ m.state \in {"V90Phase3SendJd", "V90Phase3SendDIL", "V90Phase4WaitCPt"}
  /\ Becomes(BeginRetrain(m))

\* The exchange with the caller is bypassed after 1.2 s and 2.4 s, so that the
\* retrain due after 6 s is never reached.
MPExpires ==
  /\ m.state = "V90Phase4SendMP" /\ m.p4
  /\ Becomes(IF m.mpAck THEN To(Queue(m, <<"Ed">>), "V90Phase4SendEd")
                        ELSE [m EXCEPT !.mpAck = TRUE])

Expire == V8Expires \/ ToneqExpires \/ ProbeToneExpires \/ SecondToneExpires \/ GivesUp
            \/ Info1aExpires \/ TrainingExpires \/ MPExpires

-----------------------------------------------------------------------------

Next == StartCall \/ EndCall \/ Rx \/ Transmit \/ Expire

\* The clock of the transmitter runs as long as the call does, whether or not
\* anything is received: the queue is played and times elapse.  Nothing is
\* assumed of the caller.
Fairness == WF_vars(Transmit) /\ WF_vars(Expire)

Spec == Init /\ [][Next]_vars
FairSpec == Spec /\ Fairness

-----------------------------------------------------------------------------
(* Properties. *)

\* A state that uses the V.8, V.22, Phase-3 or Phase-4 object, or the descriptor
\* of the caller's Ja, has it, and the descriptor is of this training: the
\* handlers that silently do nothing without their object never stall a call.
UsesPhase3 == Phase3 \cup Phase4
UsesDescriptor == Phase3 \ {"V90Phase3WaitAnalogue"}
UsesPhase4 == Exchange \cup {"V90Phase4SendEd", "V90Data"}
EquipmentReady ==
  /\ m.state = "V8Negotiating" => m.v8
  /\ m.state \in V22States => m.rate # 0
  /\ m.state \in UsesPhase3 \cup {"V90Data"} => m.p3 # "none"
  /\ m.state \in UsesDescriptor => m.dil = "new"
  /\ m.state \in UsesPhase4 => m.p4

\* What is still queued belongs to the state: no start function, retrain or
\* fallback lets the caller hear the signal of a handshake that was abandoned,
\* and the states that must be silent have nothing queued.
Sounds == [V90INFO0d |-> {"INFO0d"}, V90SendL1 |-> {"L1"}, V90SendL2 |-> {"L2"},
           V90INFO1d |-> {"INFO1d"}, V90Phase3SendSd |-> {"silence", "Sd"},
           V90Phase3SendTRN1d |-> {"TRN1d"}, V90Phase3SendJd |-> {"Jd"},
           V90Phase3SendJdBar |-> {"Jd", "JdBar"}, V90Phase3SendDIL |-> {"DIL"},
           V90Phase4WaitCPt |-> {"Ri"}, V90Phase4SendTRN2d |-> {"Ri", "RiBar", "TRN2d"},
           V90Phase4SendMP |-> {"MP"},
           V90Phase4SendEd |-> {"Ri", "RiBar", "TRN2d", "MP", "Ed"},
           V90RetrainSilence |-> {"silence"}, V92AnswerSilence |-> {"silence"},
           V92ANSam |-> {"ANSam"}, V92QCA1d |-> {"QCA1d"}, V92Silence75 |-> {"silence"},
           V92QTS |-> {"QTS"}, V92ANSpcm |-> {"ANSpcm"}, V92PostToneqSilence |-> {"silence"},
           V21ANS |-> {"ANS"}, V21Silence75 |-> {"silence"}]
MayPlay(s) == IF s \in DOMAIN Sounds THEN Sounds[s] ELSE {}
NoStaleAudio ==
  m.state \notin {"V90Fallback", "V92Fallback"} =>
    \A i \in 1 .. Len(m.tx) : m.tx[i] \in MayPlay(m.state)

\* Where V.8 is used to find out what the caller is, no carrier is tried before
\* any audio of the caller arrived: silence is never taken for a modem.
NoBlindFallback == span /\ Ladder /\ m.stage > 0 => m.media

\* Unless Phase 3 comes back for ever (those retrains are not counted), a call
\* stops changing: rungs, repeats and retries end, whatever the caller does.
RetriesEnd == <>[](m.state \notin Phase3) => <>[][m'.state = m.state]_m

\* However mute the caller, no step of Phases 3 and 4 that sends lasts for ever.
NoEternalTraining ==
  \A s \in (Phase3 \cup Phase4) \ {"V90Phase3WaitAnalogue"} : m.state = s ~> m.state # s
=============================================================================
