------------------------- MODULE CallSession_proofs -------------------------
(***************************************************************************)
(* Callers stay separate for every number of calls.  The argument: from    *)
(* start_call until the main loop has come round the modem is not in data  *)
(* mode and holds no bytes (Quiet); the loop comes round only when the     *)
(* worker is idle, so by then CallStarted is queued and the next pass over *)
(* the events resets PPP (Served, Popped); hence whenever bytes move, PPP  *)
(* and modem serve the same call.                                          *)
(***************************************************************************)
EXTENDS CallSession, TLAPS

Announced == \E i \in 1 .. Len(events) : events[i] = "started"

Shape ==
  /\ events \in Seq({"started", "ended"})
  /\ worker \in [at: {"idle", "begun", "active", "answer", "end", "ended", "inactive"},
                 for: Calls \cup {None}]
  /\ modem \in [state: {"idle", "training", "data", "failed"}, for: Calls \cup {None},
                rx: SUBSET [call: Calls \cup {None}, kind: Kinds],
                tx: SUBSET (Calls \cup {None})]
  /\ ppp \in [phase: {"Dead", "Running", "Terminating"}, for: Calls \cup {None},
              heard: SUBSET (Calls \cup {None}), tx: SUBSET (Calls \cup {None})]

Flags == outlasted \in BOOLEAN /\ pppStarted \in BOOLEAN
Tagged == \A b \in modem.rx : b.call = modem.for
Quiet == ~outlasted => modem.state # "data" /\ modem.rx = {} /\ modem.tx = {}
Settled == outlasted => worker.at \notin {"begun", "active"}
Served == worker.at \notin {"begun", "active"} /\ ~Announced /\ pppStarted
            => ppp.for = modem.for
Popped == outlasted /\ pc # "events" => ~Announced
Stopped == ~pppStarted => ppp = ResetPpp
Feeding == pc \in {"feed", "send", "terminated"} => pppStarted
OwnAnswers == ppp.tx \subseteq {ppp.for}

Core == /\ Shape /\ Tagged /\ Quiet /\ Settled /\ Served /\ Popped
        /\ Stopped /\ Feeding /\ OwnAnswers /\ CallsSeparate
IInv == Flags /\ Core

-----------------------------------------------------------------------------
(* Appending to the event queue. *)
LEMMA AppendEvents ==
  ASSUME NEW q \in Seq({"started", "ended"}), NEW e \in {"started", "ended"}
  PROVE  /\ Append(q, e) \in Seq({"started", "ended"})
         /\ e = "started" => \E i \in 1 .. Len(Append(q, e)) : Append(q, e)[i] = "started"
         /\ e = "ended" /\ (\E i \in 1 .. Len(Append(q, e)) : Append(q, e)[i] = "started")
              => \E i \in 1 .. Len(q) : q[i] = "started"
         /\ (\E i \in 1 .. Len(q) : q[i] = "started")
              => \E i \in 1 .. Len(Append(q, e)) : Append(q, e)[i] = "started"
<1> DEFINE r == Append(q, e)
<1>1. r \in Seq({"started", "ended"}) /\ Len(r) = Len(q) + 1 /\ Len(q) \in Nat
  OBVIOUS
<1>2. \A i \in 1 .. Len(q) : r[i] = q[i]
  OBVIOUS
<1>3. r[Len(q) + 1] = e
  OBVIOUS
<1> HIDE DEF r
<1>4. QED
  BY <1>1, <1>2, <1>3 DEF r

LEMMA InitIInv == Init => IInv
<1>1. Init => Flags
  BY Zenon DEF Init, Flags
<1>2. Init => Core
  BY DEF Init, Core, Shape, Tagged, Quiet, Settled, Served, Popped, Stopped, Feeding,
         OwnAnswers, CallsSeparate, ResetPpp, Announced
<1>3. QED
  BY <1>1, <1>2 DEF IInv

LEMMA FlagsStep == Flags /\ [Next]_vars => Flags'
<1> SUFFICES ASSUME Flags, [Next]_vars PROVE Flags'
  OBVIOUS
<1> USE DEF Flags, sipVars, loopVars
<1>1. CASE UNCHANGED vars
  BY Zenon, <1>1 DEF vars
<1>2. CASE Worker
  BY Zenon, <1>2 DEF Worker, SetActive, PushStarted, Answer, EndCall, ClearActive,
                     PushEnded, IncomingCall, Disconnected
<1>3. CASE Audio
  BY Zenon, <1>3 DEF Audio, Train, Retrain, GiveUp, SendToLine, Decode
<1>4. CASE DeadlinePasses
  BY Zenon, <1>4 DEF DeadlinePasses
<1>5. CASE PopEvent \/ EventsDone \/ StartPpp \/ Connected \/ FeedPpp \/ SendPpp \/ ArmHangup
  BY Zenon, <1>5 DEF PopEvent, EventsDone, StartPpp, Connected, FeedPpp, SendPpp, ArmHangup
<1>6. CASE NoHangup \/ HangupRefused \/ HangupRead \/ HangupBye \/ HangupPush
  BY Zenon, <1>6 DEF NextIteration, NoHangup, HangupRefused, HangupRead, HangupBye, HangupPush
<1>7. QED
  BY <1>1, <1>2, <1>3, <1>4, <1>5, <1>6 DEF Next, Main

-----------------------------------------------------------------------------
LEMMA WorkerStep == IInv /\ Worker => Core'
<1> SUFFICES ASSUME IInv, Worker PROVE Core'
  OBVIOUS
<1> USE DEF IInv, Flags, Core, sipVars, loopVars
<1>1. CASE SetActive
  BY <1>1 DEF SetActive, Shape, Tagged, Quiet, Settled, Served, Popped, Stopped, Feeding, OwnAnswers, CallsSeparate, Announced, ResetPpp
<1>2. CASE PushStarted
  <2>1. /\ events' \in Seq({"started", "ended"}) /\ Announced'
        /\ worker.at = "active" /\ worker'.at = "answer" /\ worker' = [worker EXCEPT !.at = "answer"]
        /\ UNCHANGED <<modem, outlasted, loopVars, ppp>>
    BY <1>2, AppendEvents DEF PushStarted, Shape, Announced
  <2>2. ~outlasted
    BY <2>1 DEF Settled
  <2>3. QED
    BY <2>1, <2>2 DEF Shape, Tagged, Quiet, Settled, Served, Popped, Stopped, Feeding,
                      OwnAnswers, CallsSeparate, ResetPpp
<1>3. CASE Answer
  BY <1>3 DEF Answer, Shape, Tagged, Quiet, Settled, Served, Popped, Stopped, Feeding, OwnAnswers, CallsSeparate, Announced, ResetPpp
<1>4. CASE EndCall
  BY <1>4 DEF EndCall, EndModem, Shape, Tagged, Quiet, Settled, Served, Popped, Stopped,
              Feeding, OwnAnswers, CallsSeparate, Announced, ResetPpp
<1>5. CASE ClearActive
  BY <1>5 DEF ClearActive, Shape, Tagged, Quiet, Settled, Served, Popped, Stopped, Feeding, OwnAnswers, CallsSeparate, Announced, ResetPpp
<1>6. CASE PushEnded
  <2>1. /\ events' \in Seq({"started", "ended"})
        /\ Announced' => Announced
        /\ Announced => Announced'
        /\ worker.at = "inactive" /\ worker' = [at |-> "idle", for |-> None]
        /\ UNCHANGED <<modem, outlasted, loopVars, ppp>>
    BY <1>6, AppendEvents DEF PushEnded, Shape, Announced
  <2>2. worker'.at = "idle" /\ worker'.for = None
    BY <2>1
  <2>3. Shape'
    BY <2>1 DEF Shape
  <2>4. Served'
    BY <2>1, <2>2 DEF Served
  <2>5. (Settled /\ Popped)'
    BY <2>1, <2>2 DEF Settled, Popped
  <2>6. (Tagged /\ Quiet /\ Stopped /\ Feeding /\ OwnAnswers /\ CallsSeparate)'
    BY <2>1 DEF Tagged, Quiet, Stopped, Feeding, OwnAnswers, CallsSeparate, ResetPpp
  <2>7. QED
    BY <2>3, <2>4, <2>5, <2>6
<1>7. ASSUME NEW c \in Calls, IncomingCall(c) PROVE Core'
  BY <1>7 DEF IncomingCall, StartModem, Shape, Tagged, Quiet, Settled, Served, Popped,
              Stopped, Feeding, OwnAnswers, CallsSeparate, Announced, ResetPpp
<1>8. ASSUME NEW c \in Calls, Disconnected(c) PROVE Core'
  BY <1>8 DEF Disconnected, Shape, Tagged, Quiet, Settled, Served, Popped,
              Stopped, Feeding, OwnAnswers, CallsSeparate, Announced, ResetPpp
<1>9. QED
  BY <1>1, <1>2, <1>3, <1>4, <1>5, <1>6, <1>7, <1>8 DEF Worker

LEMMA AudioStep == IInv /\ Audio => Core'
<1> SUFFICES ASSUME IInv, Audio PROVE Core'
  OBVIOUS
<1> USE DEF IInv, Flags, Core, sipVars, loopVars, Shape, Tagged, Quiet, Settled, Served, Popped,
            Stopped, Feeding, OwnAnswers, CallsSeparate, Announced, ResetPpp
<1>1. CASE Train
  BY <1>1 DEF Train
<1>2. CASE Retrain
  BY <1>2 DEF Retrain
<1>3. CASE GiveUp
  BY <1>3 DEF GiveUp
<1>4. CASE SendToLine
  BY <1>4 DEF SendToLine
<1>5. ASSUME NEW k \in Kinds, Decode(k) PROVE Core'
  <2> DEFINE b == [call |-> modem.for, kind |-> k]
  <2>1. modem'.rx = modem.rx \cup {b} /\ modem'.for = modem.for
    BY <1>5 DEF Decode
  <2>2. QED
    BY <1>5, <2>1 DEF Decode
<1>6. QED
  BY <1>1, <1>2, <1>3, <1>4, <1>5 DEF Audio

LEMMA MainStep == IInv /\ Main => Core'
<1> SUFFICES ASSUME IInv, Main PROVE Core'
  OBVIOUS
<1> USE DEF IInv, Flags, Core, sipVars, loopVars, Goto
<1>1. CASE PopEvent
  <2>1. events' \in Seq({"started", "ended"})
    BY <1>1 DEF PopEvent, Shape
  <2>2. QED
    BY <1>1, <2>1 DEF PopEvent, Shape, Tagged, Quiet, Settled, Served, Popped,
                      Stopped, Feeding, OwnAnswers, CallsSeparate, ResetPpp
<1>2. CASE EventsDone
  BY <1>2 DEF EventsDone, Shape, Tagged, Quiet, Settled, Served, Popped, Stopped, Feeding, OwnAnswers, CallsSeparate, Announced, ResetPpp
<1>3. CASE StartPpp
  <2>1. CASE modem.state = "data" /\ ~pppStarted
    <3>1. /\ ppp = ResetPpp /\ pppStarted' /\ pc' = "connected"
          /\ ppp' = [ppp EXCEPT !.phase = "Running", !.for = modem.for,
                                !.tx = @ \cup {modem.for}]
          /\ UNCHANGED <<events, worker, modem, outlasted>>
      BY <1>3, <2>1 DEF StartPpp, Stopped
    <3>2. Shape'
      BY <3>1 DEF Shape
    <3>3. ppp'.for = modem.for /\ ppp'.tx = {modem.for} /\ ppp'.heard = {}
      BY <3>1 DEF ResetPpp
    <3>4. QED
      BY <1>3, <2>1, <3>1, <3>2, <3>3 DEF StartPpp, Tagged, Quiet, Settled, Served, Popped,
                      Stopped, Feeding, OwnAnswers, CallsSeparate, Announced
  <2>2. CASE ~(modem.state = "data" /\ ~pppStarted)
    BY <1>3, <2>2 DEF StartPpp, Shape, Tagged, Quiet, Settled, Served, Popped, Stopped,
                      Feeding, OwnAnswers, CallsSeparate, Announced, ResetPpp
  <2>3. QED
    BY <2>1, <2>2
<1>4. CASE Connected
  BY <1>4 DEF Connected, Shape, Tagged, Quiet, Settled, Served, Popped, Stopped, Feeding, OwnAnswers, CallsSeparate, Announced, ResetPpp
<1>5. CASE FeedPpp
  <2> DEFINE heard == {b.call : b \in modem.rx}
  <2>1. pppStarted
    BY <1>5 DEF FeedPpp, Feeding
  <2>2. heard # {} => modem.for = ppp.for
    BY <1>5, <2>1 DEF FeedPpp, Quiet, Settled, Served, Popped
  <2>3. heard \subseteq {ppp.for}
    BY <2>2 DEF Tagged
  <2>4. /\ ppp'.heard = ppp.heard \cup heard /\ ppp'.for = ppp.for
        /\ ppp'.tx = ppp.tx \cup {ppp.for}
        /\ ppp' = [phase |-> ppp'.phase, for |-> ppp'.for, heard |-> ppp'.heard, tx |-> ppp'.tx]
        /\ modem' = [modem EXCEPT !.rx = {}] /\ pc' = "send"
        /\ UNCHANGED <<events, worker, outlasted, pppStarted>>
    BY <1>5 DEF FeedPpp
  <2> HIDE DEF heard
  <2>5. QED
    BY <1>5, <2>1, <2>3, <2>4 DEF FeedPpp, Shape, Tagged, Quiet, Settled, Served, Popped,
                      Stopped, Feeding, OwnAnswers, CallsSeparate, Announced
<1>6. CASE SendPpp
  <2>1. modem.state = "data" => modem.for = ppp.for
    BY <1>6 DEF SendPpp, Quiet, Settled, Served, Popped, Feeding
  <2>2. QED
    BY <1>6, <2>1 DEF SendPpp, Shape, Tagged, Quiet, Settled, Served, Popped, Stopped,
                      Feeding, OwnAnswers, CallsSeparate, Announced, ResetPpp
<1>7. CASE ArmHangup
  BY <1>7 DEF ArmHangup, Shape, Tagged, Quiet, Settled, Served, Popped, Stopped, Feeding, OwnAnswers, CallsSeparate, Announced, ResetPpp
<1> USE DEF NextIteration
<1>8. CASE NoHangup
  BY <1>8 DEF NoHangup, Shape, Tagged, Quiet, Settled, Served, Popped, Stopped, Feeding, OwnAnswers, CallsSeparate, Announced, ResetPpp
<1>9. CASE HangupRefused
  BY <1>9 DEF HangupRefused, Shape, Tagged, Quiet, Settled, Served, Popped, Stopped, Feeding, OwnAnswers, CallsSeparate, Announced, ResetPpp
<1>10. CASE HangupRead
  BY <1>10 DEF HangupRead, Shape, Tagged, Quiet, Settled, Served, Popped, Stopped, Feeding, OwnAnswers, CallsSeparate, Announced, ResetPpp
<1>11. CASE HangupBye
  BY <1>11 DEF HangupBye, Shape, Tagged, Quiet, Settled, Served, Popped, Stopped, Feeding, OwnAnswers, CallsSeparate, Announced, ResetPpp
<1>12. CASE HangupPush
  <2>1. /\ events' \in Seq({"started", "ended"})
        /\ Announced => Announced'
        /\ pc' = "events" /\ outlasted' = (outlasted \/ worker.at = "idle")
        /\ UNCHANGED <<worker, modem, pppStarted, ppp>>
    BY <1>12, AppendEvents DEF HangupPush, Shape, Announced
  <2>2. Shape'
    BY <2>1 DEF Shape
  <2>3. Served'
    BY <2>1 DEF Served
  <2>4. (Settled /\ Popped)'
    BY <2>1 DEF Settled, Popped
  <2>5. Quiet'
    BY <2>1 DEF Quiet
  <2>6. (Tagged /\ Stopped /\ Feeding /\ OwnAnswers /\ CallsSeparate)'
    BY <2>1 DEF Tagged, Stopped, Feeding, OwnAnswers, CallsSeparate, ResetPpp
  <2>7. QED
    BY <2>2, <2>3, <2>4, <2>5, <2>6
<1>13. QED
  BY <1>1, <1>2, <1>3, <1>4, <1>5, <1>6, <1>7, <1>8, <1>9, <1>10, <1>11, <1>12 DEF Main

LEMMA NextIInv == IInv /\ [Next]_vars => IInv'
<1> SUFFICES ASSUME IInv, [Next]_vars PROVE Core'
  BY FlagsStep DEF IInv
<1> USE DEF IInv, Core, sipVars, loopVars
<1>1. CASE DeadlinePasses
  BY <1>1 DEF DeadlinePasses, Shape, Tagged, Quiet, Settled, Served, Popped,
              Stopped, Feeding, OwnAnswers, CallsSeparate, Announced, ResetPpp
<1>2. CASE UNCHANGED vars
  BY <1>2 DEF vars, Shape, Tagged, Quiet, Settled, Served, Popped,
              Stopped, Feeding, OwnAnswers, CallsSeparate, Announced, ResetPpp
<1>3. QED
  BY <1>1, <1>2, WorkerStep, AudioStep, MainStep DEF Next

THEOREM Invariance == Spec => []IInv
<1>1. IInv /\ [Next]_vars => IInv'
  BY NextIInv
<1>2. QED
  BY <1>1, InitIInv, PTL DEF Spec

-----------------------------------------------------------------------------
(* Whatever PPP has heard since its last reset comes from the call it was  *)
(* started on, and whatever waits for the line belongs to the call the     *)
(* modem serves, for every number of calls and every interleaving.         *)
THEOREM Separation == Spec => []CallsSeparate
BY Invariance, PTL DEF IInv, Core

(* start() is only ever called on a server that has just been reset.       *)
THEOREM FreshStarts == Spec => StartsFresh
<1>1. IInv /\ [Next]_vars => [pppStarted' /\ ~pppStarted => ppp = ResetPpp]_vars
  BY DEF IInv, Core, Stopped
<1>2. QED
  BY <1>1, Invariance, PTL DEF Spec, StartsFresh

-----------------------------------------------------------------------------
(* Types.  The pointer impl_->call is the part that is not obvious: the    *)
(* worker takes it away before it deletes the call, and begins no other    *)
(* call in between (Owned).                                                *)

Owned ==
  /\ worker.at # "idle" => worker.for \in Calls
  /\ worker.at \in {"ended", "inactive"} => call # worker.for
  /\ modem.state # "idle" => modem.for \in Calls
  /\ pppStarted => ppp.for \in Calls

LiveCalls == {c \in Calls : sip[c] \in {"ringing", "up", "ending"}}

PointerTypes ==
  /\ sip \in [Calls -> {"none", "ringing", "up", "ending", "gone"}]
  /\ call \in LiveCalls \cup {None}
DataTypes ==
  /\ modem.rx \subseteq Bytes /\ modem.tx \subseteq Calls
  /\ ppp.heard \subseteq Calls /\ ppp.tx \subseteq Calls
LoopTypes ==
  /\ pc \in {"events", "check", "connected", "feed", "send", "terminated",
             "hangup", "bye", "push"}
  /\ deadline \in {"none", "armed", "due"}
  /\ target \in Calls \cup {None}
  /\ mishaps \in 0 .. MaxMishaps

TInv == PointerTypes /\ Owned /\ DataTypes /\ LoopTypes

ActiveType == active \in BOOLEAN

LEMMA ActiveStep == ActiveType /\ [Next]_vars => ActiveType'
<1> SUFFICES ASSUME ActiveType, [Next]_vars PROVE active' \in BOOLEAN
  BY DEF ActiveType
<1> USE DEF ActiveType
<1>1. CASE Worker
  BY Zenon, <1>1 DEF Worker, SetActive, PushStarted, Answer, EndCall, ClearActive,
                     PushEnded, IncomingCall, Disconnected
<1>2. CASE ~Worker
  <2>1. active' = active
    BY <1>2 DEF Next, Audio, Main, vars, sipVars, Train, Retrain, GiveUp, SendToLine, Decode,
                DeadlinePasses, PopEvent, EventsDone, StartPpp, Connected, FeedPpp, SendPpp,
                ArmHangup, NoHangup, HangupRefused, HangupRead, HangupBye, HangupPush
  <2> QED BY <2>1
<1> QED BY <1>1, <1>2

\* What the worker does to dialogs, pointer and modem.
LEMMA WorkerTypes == IInv /\ TInv /\ Worker => TInv'
<1> SUFFICES ASSUME IInv, TInv, Worker PROVE TInv'
  OBVIOUS
<1> USE SessionConstants DEF IInv, Core, Shape, TInv, PointerTypes, Owned, DataTypes,
        LoopTypes, LiveCalls, loopVars
<1>1. CASE SetActive
  BY <1>1 DEF SetActive
<1>2. CASE PushStarted
  BY <1>2 DEF PushStarted
<1>3. CASE Answer
  BY <1>3 DEF Answer
<1>4. CASE EndCall
  BY <1>4 DEF EndCall, EndModem
<1>5. CASE ClearActive
  BY <1>5 DEF ClearActive
<1>6. CASE PushEnded
  BY <1>6 DEF PushEnded
<1>7. ASSUME NEW c \in Calls, IncomingCall(c) PROVE TInv'
  BY <1>7 DEF IncomingCall, StartModem
<1>8. ASSUME NEW c \in Calls, Disconnected(c) PROVE TInv'
  BY <1>8 DEF Disconnected
<1> QED BY <1>1, <1>2, <1>3, <1>4, <1>5, <1>6, <1>7, <1>8 DEF Worker

LEMMA AudioTypes == IInv /\ TInv /\ Audio => TInv'
<1> SUFFICES ASSUME IInv, TInv, Audio PROVE TInv'
  OBVIOUS
<1> USE SessionConstants DEF IInv, Core, Shape, TInv, PointerTypes, Owned, DataTypes,
        LoopTypes, LiveCalls, sipVars, loopVars
<1>1. CASE Train
  BY <1>1 DEF Train
<1>2. CASE Retrain
  BY <1>2 DEF Retrain, Mishap
<1>3. CASE GiveUp
  BY <1>3 DEF GiveUp
<1>4. CASE SendToLine
  BY <1>4 DEF SendToLine
<1>5. ASSUME NEW k \in Kinds, Decode(k) PROVE TInv'
  BY <1>5 DEF Decode, Bytes
<1> QED BY <1>1, <1>2, <1>3, <1>4, <1>5 DEF Audio

LEMMA MainTypes == IInv /\ TInv /\ (Main \/ DeadlinePasses) => TInv'
<1> SUFFICES ASSUME IInv, TInv, Main \/ DeadlinePasses PROVE TInv'
  OBVIOUS
<1> USE SessionConstants DEF IInv, Core, Shape, TInv, PointerTypes, Owned, DataTypes,
        LoopTypes, LiveCalls, sipVars, loopVars, Goto, NextIteration
<1>1. CASE PopEvent
  BY <1>1 DEF PopEvent, ResetPpp
<1>2. CASE EventsDone \/ Connected \/ ArmHangup \/ NoHangup \/ DeadlinePasses
  BY <1>2 DEF EventsDone, Connected, ArmHangup, NoHangup, DeadlinePasses
<1>3. CASE StartPpp
  <2>1. CASE modem.state = "data" /\ ~pppStarted
    <3>1. /\ ppp'.for = modem.for /\ ppp'.heard = ppp.heard
          /\ ppp'.tx = ppp.tx \cup {modem.for} /\ modem.for \in Calls
      BY <1>3, <2>1 DEF StartPpp
    <3> QED BY <1>3, <3>1 DEF StartPpp
  <2>2. CASE ~(modem.state = "data" /\ ~pppStarted)
    BY <1>3, <2>2 DEF StartPpp
  <2> QED BY <2>1, <2>2
<1>4. CASE FeedPpp
  <2> DEFINE heard == {b.call : b \in modem.rx}
  <2>1. heard \subseteq Calls
    BY DEF Bytes
  <2>2. /\ ppp'.heard = ppp.heard \cup heard /\ ppp'.for = ppp.for
        /\ ppp'.tx = ppp.tx \cup {ppp.for}
        /\ modem' = [modem EXCEPT !.rx = {}] /\ pc' = "send"
        /\ mishaps' = mishaps \/ Mishap
        /\ UNCHANGED <<sip, call, active, events, worker, pppStarted, deadline, target>>
    BY <1>4 DEF FeedPpp
  <2>3. ppp.for \in Calls
    BY <1>4 DEF FeedPpp, Feeding
  <2> HIDE DEF heard
  <2>4. mishaps' \in 0 .. MaxMishaps
    BY <2>2 DEF Mishap
  <2> QED BY <2>1, <2>2, <2>3, <2>4
<1>5. CASE SendPpp
  BY <1>5 DEF SendPpp
<1>6. CASE HangupRefused \/ HangupRead
  BY <1>6 DEF HangupRefused, HangupRead
<1>7. CASE HangupBye
  BY <1>7 DEF HangupBye, Bye, Mishap
<1>8. CASE HangupPush
  BY <1>8 DEF HangupPush
<1> QED BY <1>1, <1>2, <1>3, <1>4, <1>5, <1>6, <1>7, <1>8 DEF Main

LEMMA NextTInv == IInv /\ TInv /\ [Next]_vars => TInv'
<1> SUFFICES ASSUME IInv, TInv, UNCHANGED vars PROVE TInv'
  BY WorkerTypes, AudioTypes, MainTypes DEF Next
<1> QED BY DEF vars, sipVars, loopVars, TInv, PointerTypes, Owned, DataTypes, LoopTypes,
               LiveCalls

LEMMA InitTInv == Init => TInv
<1> SUFFICES ASSUME Init PROVE TInv
  OBVIOUS
<1>1. PointerTypes /\ LoopTypes
  BY SessionConstants DEF Init, PointerTypes, LoopTypes, LiveCalls
<1>2. ~pppStarted
  BY Zenon DEF Init
<1>3. Owned /\ DataTypes
  BY <1>2 DEF Init, ResetPpp, Owned, DataTypes
<1> QED BY <1>1, <1>3 DEF TInv

(* Every variable has its type; in particular impl_->call is None or a     *)
(* call PJSIP has not deleted yet, whatever the threads do.                *)
THEOREM TypeCorrect == Spec => []TypeOK
<1>1. IInv /\ TInv /\ ActiveType => TypeOK
  <2> SUFFICES ASSUME IInv, TInv, ActiveType PROVE TypeOK
    OBVIOUS
  <2>1. modem \in [state: {"idle", "training", "data", "failed"}, for: Calls \cup {None},
                   rx: SUBSET Bytes, tx: SUBSET Calls]
    BY DEF IInv, Core, Shape, TInv, DataTypes
  <2>2. ppp \in [phase: {"Dead", "Running", "Terminating"}, for: Calls \cup {None},
                 heard: SUBSET Calls, tx: SUBSET Calls]
    BY DEF IInv, Core, Shape, TInv, DataTypes
  <2>3. outlasted \in BOOLEAN /\ pppStarted \in BOOLEAN /\ active \in BOOLEAN
    BY Zenon DEF IInv, Flags, ActiveType
  <2>4. /\ events \in Seq({"started", "ended"})
        /\ worker \in [at: {"idle", "begun", "active", "answer", "end", "ended", "inactive"},
                       for: Calls \cup {None}]
    BY DEF IInv, Core, Shape
  <2> QED BY Zenon, <2>1, <2>2, <2>3, <2>4 DEF TInv, PointerTypes, LoopTypes, LiveCalls, TypeOK
<1>2. Init => ActiveType
  BY DEF Init, ActiveType
<1> QED BY <1>1, <1>2, InitTInv, NextTInv, ActiveStep, Invariance, PTL DEF Spec
=============================================================================
