---------------------------- MODULE CallSession ----------------------------
(***************************************************************************)
(* One SIP call after another, as three threads see them: PJSIP's worker   *)
(* (onIncomingCall, onCallState), its audio thread (the modem's two PCM    *)
(* callbacks) and the main loop, which polls events, moves bytes between   *)
(* modem and PPP server and hangs up a caller whose PPP terminated.  The   *)
(* mutexes of the front end make single statements atomic, not sequences:  *)
(* one action is what happens between two points where another thread can  *)
(* come in.                                                                *)
(*                                                                         *)
(* The modem and the PPP server are reduced to what the main loop tells    *)
(* apart; bytes are sets tagged with the call they belong to.              *)
(***************************************************************************)
EXTENDS Naturals, Sequences

CONSTANTS
  Calls,        \* the SIP calls, each offered at most once
  None,
  MaxMishaps    \* bound: hangups PJSIP refuses, retrains of the modem in data
                \* mode and clients that negotiate again after they terminated

ASSUME SessionConstants == None \notin Calls /\ MaxMishaps \in Nat

VARIABLES
  sip,       \* the dialog of each call, in PJSIP
  call,      \* impl_->call
  active,    \* impl_->active
  events,    \* impl_->events: "started", "ended"; the others change nothing
  worker,    \* where the worker is, and for which call
  modem,     \* state and call of the modem, the PPP bytes it has decoded (rx)
             \* and those it has still to send (tx)
  outlasted, \* the main loop has begun an iteration since start_call
  pc,        \* where the main loop is
  ppp,       \* phase, the call it was started on, the calls it has heard and
             \* the calls its serial_tx_ was produced for
  pppStarted,
  deadline,  \* client_disconnect_hangup_ms: "none", "armed", "due"
  target,    \* the V92Call* hangup_current_call has read
  mishaps

Mishap == mishaps < MaxMishaps /\ mishaps' = mishaps + 1

sipVars  == <<sip, call, active, events, worker>>
loopVars == <<pc, pppStarted, deadline, target>>
vars == <<sipVars, modem, outlasted, loopVars, ppp, mishaps>>

Kinds == {"data", "terminate"}
Bytes == [call: Calls, kind: Kinds]

TypeOK ==
  /\ sip \in [Calls -> {"none", "ringing", "up", "ending", "gone"}]
  /\ call \in {c \in Calls : sip[c] \in {"ringing", "up", "ending"}} \cup {None}
  /\ active \in BOOLEAN
  /\ events \in Seq({"started", "ended"})
  /\ worker \in [at: {"idle", "begun", "active", "answer", "end", "ended", "inactive"},
                 for: Calls \cup {None}]
  /\ modem \in [state: {"idle", "training", "data", "failed"},
                for: Calls \cup {None}, rx: SUBSET Bytes, tx: SUBSET Calls]
  /\ outlasted \in BOOLEAN
  /\ pc \in {"events", "check", "connected", "feed", "send", "terminated",
             "hangup", "bye", "push"}
  /\ ppp \in [phase: {"Dead", "Running", "Terminating"}, for: Calls \cup {None},
              heard: SUBSET Calls, tx: SUBSET Calls]
  /\ pppStarted \in BOOLEAN /\ deadline \in {"none", "armed", "due"}
  /\ target \in Calls \cup {None}
  /\ mishaps \in 0 .. MaxMishaps

ResetPpp == [phase |-> "Dead", for |-> None, heard |-> {}, tx |-> {}]

Init ==
  /\ sip = [c \in Calls |-> "none"] /\ call = None /\ active = FALSE
  /\ events = <<>> /\ worker = [at |-> "idle", for |-> None]
  /\ modem = [state |-> "idle", for |-> None, rx |-> {}, tx |-> {}]
  /\ outlasted = FALSE
  /\ pc = "events" /\ ppp = ResetPpp /\ pppStarted = FALSE /\ deadline = "none"
  /\ target = None /\ mishaps = 0

-----------------------------------------------------------------------------
(* The worker: begin_call, answer, end_call, statement by statement. *)

\* start_call clears both byte queues; end_call only those towards the line.
StartModem(c) == [state |-> "training", for |-> c, rx |-> {}, tx |-> {}]
EndModem == [modem EXCEPT !.state = "idle", !.tx = {}]

\* maxCalls is 1: a call is offered only when the one before is gone.
IncomingCall(c) ==
  /\ worker.at = "idle" /\ ~active
  /\ sip[c] = "none" /\ \A d \in Calls \ {c} : sip[d] \in {"none", "gone"}
  /\ sip' = [sip EXCEPT ![c] = "ringing"]
  /\ call' = c
  /\ modem' = StartModem(c)
  /\ outlasted' = FALSE
  /\ worker' = [at |-> "begun", for |-> c]
  /\ UNCHANGED <<active, events, loopVars, ppp, mishaps>>

SetActive ==
  /\ worker.at = "begun"
  /\ active' = TRUE
  /\ worker' = [worker EXCEPT !.at = "active"]
  /\ UNCHANGED <<sip, call, events, modem, outlasted, loopVars, ppp, mishaps>>

PushStarted ==
  /\ worker.at = "active"
  /\ events' = Append(events, "started")
  /\ worker' = [worker EXCEPT !.at = "answer"]
  /\ UNCHANGED <<sip, call, active, modem, outlasted, loopVars, ppp, mishaps>>

Answer ==
  /\ worker.at = "answer"
  /\ \/ /\ sip' = [sip EXCEPT ![worker.for] = "up"]
        /\ worker' = [at |-> "idle", for |-> None]
     \/ /\ worker' = [worker EXCEPT !.at = "end"]
        /\ UNCHANGED sip
  /\ UNCHANGED <<call, active, events, modem, outlasted, loopVars, ppp, mishaps>>

\* A BYE arrives, or the answer to ours: onCallState(DISCONNECTED).
Disconnected(c) ==
  /\ worker.at = "idle" /\ sip[c] \in {"up", "ending"}
  /\ worker' = [at |-> "end", for |-> c]
  /\ UNCHANGED <<sip, call, active, events, modem, outlasted, loopVars, ppp, mishaps>>

\* Mutant: the pointer to the deleted call stays.
EndCallKeepsPointer ==
  /\ worker.at = "end"
  /\ modem' = EndModem
  /\ worker' = [worker EXCEPT !.at = "ended"]
  /\ UNCHANGED <<call, sip, active, events, outlasted, loopVars, ppp, mishaps>>

EndCall ==
  /\ worker.at = "end"
  /\ call' = IF call = worker.for THEN None ELSE call
  /\ modem' = EndModem
  /\ worker' = [worker EXCEPT !.at = "ended"]
  /\ UNCHANGED <<sip, active, events, outlasted, loopVars, ppp, mishaps>>

ClearActive ==
  /\ worker.at = "ended"
  /\ active' = FALSE
  /\ worker' = [worker EXCEPT !.at = "inactive"]
  /\ UNCHANGED <<sip, call, events, modem, outlasted, loopVars, ppp, mishaps>>

\* Mutant: no event for the end of a call.
PushEndedSilent ==
  /\ worker.at = "inactive"
  /\ sip' = [sip EXCEPT ![worker.for] = "gone"]
  /\ worker' = [at |-> "idle", for |-> None]
  /\ UNCHANGED <<events, call, active, modem, outlasted, loopVars, ppp, mishaps>>

\* The event, then delete this.
PushEnded ==
  /\ worker.at = "inactive"
  /\ events' = Append(events, "ended")
  /\ sip' = [sip EXCEPT ![worker.for] = "gone"]
  /\ worker' = [at |-> "idle", for |-> None]
  /\ UNCHANGED <<call, active, modem, outlasted, loopVars, ppp, mishaps>>

-----------------------------------------------------------------------------
(* The audio thread: receive_pcm and next_tx_pcmu under the mutex. *)

\* Answer tone, negotiation and carrier take seconds, an iteration of the main
\* loop milliseconds: no modem is in data mode before the loop came round.
Train ==
  /\ modem.state = "training" /\ outlasted
  /\ modem' = [modem EXCEPT !.state = "data"]
  /\ UNCHANGED <<sipVars, outlasted, loopVars, ppp, mishaps>>

\* fallback_from_v22 in V22Data; the call and the byte queues stay.
Retrain ==
  /\ modem.state = "data" /\ Mishap
  /\ modem' = [modem EXCEPT !.state = "training", !.tx = {}]
  /\ UNCHANGED <<sipVars, outlasted, loopVars, ppp>>

GiveUp ==
  /\ modem.state = "training"
  /\ modem' = [modem EXCEPT !.state = "failed"]
  /\ UNCHANGED <<sipVars, outlasted, loopVars, ppp, mishaps>>

Decode(kind) ==
  /\ modem.state = "data"
  /\ modem' = [modem EXCEPT !.rx = @ \cup {[call |-> modem.for, kind |-> kind]}]
  /\ UNCHANGED <<sipVars, outlasted, loopVars, ppp, mishaps>>

SendToLine ==
  /\ modem.state = "data" /\ modem.tx # {}
  /\ modem' = [modem EXCEPT !.tx = {}]
  /\ UNCHANGED <<sipVars, outlasted, loopVars, ppp, mishaps>>

-----------------------------------------------------------------------------
(* The main loop. *)

Goto(label) == pc' = label

\* Mutant: the flag is cleared, the server is not reset.
PopEventKeepsPpp ==
  /\ pc = "events" /\ events # <<>>
  /\ events' = Tail(events)
  /\ pppStarted' = FALSE /\ deadline' = "none"
  /\ UNCHANGED <<ppp, sip, call, active, worker, modem, outlasted, pc, target, mishaps>>

PopEvent ==
  /\ pc = "events" /\ events # <<>>
  /\ events' = Tail(events)
  /\ ppp' = ResetPpp /\ pppStarted' = FALSE /\ deadline' = "none"
  /\ UNCHANGED <<sip, call, active, worker, modem, outlasted, pc, target, mishaps>>

EventsDone ==
  /\ pc = "events" /\ events = <<>> /\ Goto("check")
  /\ UNCHANGED <<sipVars, modem, outlasted, pppStarted, deadline, target, ppp, mishaps>>

StartPpp ==
  /\ pc = "check" /\ Goto("connected")
  /\ IF modem.state = "data" /\ ~pppStarted
     THEN /\ ppp' = [ppp EXCEPT !.phase = "Running", !.for = modem.for,
                                !.tx = @ \cup {modem.for}]
          /\ pppStarted' = TRUE
     ELSE UNCHANGED <<ppp, pppStarted>>
  /\ UNCHANGED <<sipVars, modem, outlasted, deadline, target, mishaps>>

Connected ==
  /\ pc = "connected"
  /\ Goto(IF modem.state = "data" /\ pppStarted THEN "feed" ELSE "hangup")
  /\ UNCHANGED <<sipVars, modem, outlasted, pppStarted, deadline, target, ppp, mishaps>>

\* take_modem_ppp_bytes and feed_serial, tick: a Terminate-Request terminates,
\* a later Configure-Request reopens, anything may be answered.
FeedPpp ==
  LET heard == {b.call : b \in modem.rx}
      Fed(phase) == [phase |-> IF \E b \in modem.rx : b.kind = "terminate"
                              THEN "Terminating" ELSE phase,
                     for |-> ppp.for,
                     heard |-> ppp.heard \cup heard,
                     tx |-> ppp.tx \cup {ppp.for}]
  IN  /\ pc = "feed" /\ Goto("send")
      /\ modem' = [modem EXCEPT !.rx = {}]
      /\ \/ ppp' = Fed(ppp.phase) /\ UNCHANGED mishaps
         \/ /\ ppp.phase = "Terminating" /\ heard # {}
            /\ ppp' = Fed("Running") /\ Mishap
      /\ UNCHANGED <<sipVars, outlasted, pppStarted, deadline, target>>

\* take_serial_tx and feed_modem_ppp_bytes: outside data mode they are dropped.
SendPpp ==
  /\ pc = "send" /\ Goto("terminated")
  /\ ppp' = [ppp EXCEPT !.tx = {}]
  /\ modem' = IF modem.state = "data" THEN [modem EXCEPT !.tx = @ \cup ppp.tx] ELSE modem
  /\ UNCHANGED <<sipVars, outlasted, pppStarted, deadline, target, mishaps>>

ArmHangup ==
  /\ pc = "terminated" /\ Goto("hangup")
  /\ deadline' = IF ppp.phase = "Terminating" /\ deadline = "none" THEN "armed" ELSE deadline
  /\ UNCHANGED <<sipVars, modem, outlasted, pppStarted, target, ppp, mishaps>>

\* An iteration reads the clock once, after the events.
DeadlinePasses ==
  /\ pc = "events" /\ deadline = "armed" /\ deadline' = "due"
  /\ UNCHANGED <<sipVars, modem, outlasted, pc, pppStarted, target, ppp, mishaps>>

NextIteration == Goto("events") /\ outlasted' = (outlasted \/ worker.at = "idle")

NoHangup ==
  /\ pc = "hangup" /\ deadline # "due"
  /\ NextIteration
  /\ UNCHANGED <<sipVars, modem, pppStarted, deadline, target, ppp, mishaps>>

\* hangup_current_call: the tests and the read of impl_->call.
HangupRefused ==
  /\ pc = "hangup" /\ deadline = "due" /\ (~active \/ call = None)
  /\ deadline' = "none" /\ NextIteration
  /\ UNCHANGED <<sipVars, modem, pppStarted, target, ppp, mishaps>>

HangupRead ==
  /\ pc = "hangup" /\ deadline = "due" /\ active /\ call # None
  /\ target' = call /\ Goto("bye")
  /\ UNCHANGED <<sipVars, modem, outlasted, pppStarted, deadline, ppp, mishaps>>

Bye(c) == sip' = [sip EXCEPT ![c] = IF @ = "up" THEN "ending" ELSE @]

\* Mutant: a failed hangup is reported as the end of the call.
HangupByeAssumed ==
  /\ pc = "bye" /\ Goto("push")
  /\ \/ Bye(target) /\ UNCHANGED mishaps
     \/ Mishap /\ UNCHANGED sip
  /\ UNCHANGED <<call, active, events, worker, modem, pppStarted, ppp, deadline, target, outlasted>>

\* c->hangup(op).  If the worker has deleted *c in between, the outcome is that
\* of a read of freed memory: no dialog is found, or the next call's is.
HangupBye ==
  /\ pc = "bye"
  /\ \/ Bye(target) /\ Goto("push") /\ UNCHANGED <<deadline, target, outlasted, mishaps>>
     \/ /\ sip[target] = "gone" /\ call # None /\ Bye(call) /\ Goto("push")
        /\ UNCHANGED <<deadline, target, outlasted, mishaps>>
     \/ /\ Mishap \/ (sip[target] = "gone" /\ UNCHANGED mishaps)
        /\ deadline' = "none" /\ target' = None /\ NextIteration
        /\ UNCHANGED sip
  /\ UNCHANGED <<call, active, events, worker, modem, pppStarted, ppp>>

HangupPush ==
  /\ pc = "push"
  /\ events' = Append(events, "ended")
  /\ deadline' = "none" /\ target' = None /\ NextIteration
  /\ UNCHANGED <<sip, call, active, worker, modem, pppStarted, ppp, mishaps>>

-----------------------------------------------------------------------------
Worker == \/ SetActive \/ PushStarted \/ Answer \/ EndCall \/ ClearActive \/ PushEnded
          \/ \E c \in Calls : IncomingCall(c) \/ Disconnected(c)
Audio  == Train \/ Retrain \/ GiveUp \/ SendToLine \/ \E k \in Kinds : Decode(k)
Main   == \/ PopEvent \/ EventsDone \/ StartPpp \/ Connected \/ FeedPpp \/ SendPpp
          \/ ArmHangup \/ NoHangup \/ HangupRefused \/ HangupRead \/ HangupBye \/ HangupPush

Next == Worker \/ Audio \/ Main \/ DeadlinePasses

(* The main loop runs, and so does the clock it reads again and again      *)
(* (strong fairness: not at every step); the worker finishes what it       *)
(* began; the far end answers our BYE, or its transaction times out.       *)
(* Callers, noise and remote hangups are owed nothing.                     *)
Fairness ==
  /\ WF_vars(Main) /\ SF_vars(DeadlinePasses)
  /\ WF_vars(SetActive \/ PushStarted \/ Answer \/ EndCall \/ ClearActive \/ PushEnded)
  /\ \A c \in Calls : WF_vars(sip[c] = "ending" /\ Disconnected(c))

Spec == Init /\ [][Next]_vars /\ Fairness
-----------------------------------------------------------------------------
(* Safety. *)

(* Callers never see each other's data: what PPP has heard since its last  *)
(* reset comes from the call it was started on, and what waits for the     *)
(* line was produced for the call the modem serves.                        *)
CallsSeparate ==
  /\ ppp.heard \subseteq {ppp.for}
  /\ modem.tx \subseteq {modem.for}

(* PPP is started only on a server that was reset and has heard nothing    *)
(* since: start() never restarts a session that is already negotiating.    *)
StartsFresh == [][pppStarted' /\ ~pppStarted => ppp = ResetPpp]_vars

(* hangup_current_call is meant for the caller whose PPP terminated: no    *)
(* other call is ended by the main loop.                                   *)
HangupIsForCaller ==
  [][\A c \in Calls : sip[c] = "up" /\ sip'[c] = "ending" => ppp.for = c]_vars

-----------------------------------------------------------------------------
(* Liveness. *)

(* A caller whose PPP terminated loses the call, also when PJSIP refuses   *)
(* the first hangup or the modem drops meanwhile.                          *)
TerminatedCallEnds ==
  \A c \in Calls : deadline = "armed" /\ ppp.for = c ~> sip[c] = "gone"

(* A finished call leaves nothing behind: PPP is reset before or instead   *)
(* of serving anyone else.                                                 *)
EndedCallForgotten == \A c \in Calls : sip[c] = "gone" ~> [](c # ppp.for)
=============================================================================
