------------------------------- MODULE SipRtp -------------------------------
(***************************************************************************)
(* The UDP server's one telephone line: the requests of SipRtpServer, its  *)
(* RTP socket, and what the single-threaded loop of windows_main does with *)
(* the modem and PPP when a call starts and ends.  A caller is its Call-ID *)
(* and its media address.  Requests, answers and audio travel in any       *)
(* order; requests are repeated until they are answered.                   *)
(*                                                                         *)
(* sip_peer_, via_, call_id_ and the like are overwritten by each request  *)
(* and read by its own answer only, so an answer names the caller of the   *)
(* request.  ACK, OPTIONS and unknown methods change nothing else.         *)
(***************************************************************************)
EXTENDS Integers, FiniteSets

CONSTANTS
  Callers, Nobody,
  SeqMod,         \* RTP sequence numbers: 2^16
  GapLimit,       \* a gap as large is a jump, not a loss: 1000
  FirstSeq,       \* the sequence number a caller begins with
  MaxPackets,     \* bound: packets of a caller
  MaxInFlight,    \* bound: packets on their way
  MaxInvites, MaxByes,  \* bounds: transmissions of one request
  MaxLost         \* bound: requests and answers lost

ASSUME Sequence == /\ SeqMod \in Nat /\ GapLimit \in 1 .. SeqMod - 1
                   /\ FirstSeq \in 0 .. SeqMod - 1
ASSUME CallBounds == /\ MaxPackets \in Nat /\ MaxInFlight \in Nat /\ MaxLost \in Nat
                     /\ MaxInvites \in Nat \ {0} /\ MaxByes \in Nat \ {0}
ASSUME NobodyIsNoCaller == Nobody \notin Callers

VARIABLES
  caller,       \* where each caller is in its call
  copies,       \* how often it has sent its present request
  sent,         \* packets of audio it has sent
  requests, answers, audio,   \* on their way
  lost,         \* requests and answers lost so far
  callActive,   \* call_active_
  rtpPeer, havePeer, locked,  \* rtp_peer_, have_rtp_peer_, symmetric_rtp_locked_
  haveSeq, lastSeq,           \* have_rx_seq_, last_rx_seq_
  session,      \* the caller whose INVITE started the modem
  dataMode,     \* data_connected() of the modem
  pppStarted,   \* ppp_started
  pppFor,       \* the session UserPppServer was started in; Nobody after reset
  heard,        \* packets and silence given to the modem in this session
  revived,      \* history: callers whose repeated INVITE was accepted after their BYE
  timeline      \* history: first and last packet heard, from whom, and whether
                \* each came next after the one before it, but for losses

callVars == <<caller, copies, sent, requests, answers, audio, lost, callActive,
              rtpPeer, havePeer, locked, haveSeq, lastSeq, session, dataMode,
              pppStarted, pppFor, heard, revived, timeline>>
lineVars == <<callActive, rtpPeer, havePeer, locked, haveSeq, lastSeq, session,
              dataMode, pppStarted, pppFor, heard, revived, timeline>>
mediaVars == <<rtpPeer, havePeer, locked, haveSeq, lastSeq>>
sessionVars == <<session, dataMode, pppStarted, pppFor, heard, revived, timeline>>

Request(kind, c) == [kind |-> kind, from |-> c]
Reply(kind, c) == [kind |-> kind, to |-> c]
Packet(c, i, pcmu) == [from |-> c, index |-> i, pcmu |-> pcmu]
\* Mutant: the counter does not wrap.
SeqUnwrapped(p) == FirstSeq + p.index
Seq(p) == (FirstSeq + p.index) % SeqMod
Silent == [from |-> Nobody, first |-> 0, last |-> 0, inOrder |-> TRUE]

CallTypeOK ==
  /\ caller \in [Callers -> {"away", "idle", "inviting", "asking", "rejected",
                             "talking", "cancelling", "gone", "byeing", "done"}]
  /\ copies \in [Callers -> 0 .. MaxInvites + MaxByes]
  /\ sent \in [Callers -> 0 .. MaxPackets]
  /\ requests \subseteq [kind : {"invite", "foreign", "cancel", "bye"}, from : Callers]
  /\ answers \subseteq [kind : {"ok", "refused", "cancel", "bye"}, to : Callers]
  /\ audio \subseteq [from : Callers, index : 1 .. MaxPackets, pcmu : BOOLEAN]
  /\ lost \in 0 .. MaxLost
  /\ callActive \in BOOLEAN /\ havePeer \in BOOLEAN /\ locked \in BOOLEAN
  /\ haveSeq \in BOOLEAN /\ lastSeq \in 0 .. SeqMod - 1
  /\ rtpPeer \in Callers \cup {Nobody} /\ session \in Callers \cup {Nobody}
  /\ dataMode \in BOOLEAN /\ pppStarted \in BOOLEAN
  /\ pppFor \in Callers \cup {Nobody}
  /\ revived \subseteq Callers /\ heard \in Nat
  /\ timeline \in [from : Callers \cup {Nobody}, first : Nat, last : Nat, inOrder : BOOLEAN]

\* Some callers never call.
CallInit ==
  /\ caller \in [Callers -> {"away", "idle"}]
  /\ copies = [c \in Callers |-> 0] /\ sent = [c \in Callers |-> 0]
  /\ requests = {} /\ answers = {} /\ audio = {} /\ lost = 0
  /\ callActive = FALSE /\ rtpPeer = Nobody /\ havePeer = FALSE /\ locked = FALSE
  /\ haveSeq = FALSE /\ lastSeq = 0
  /\ session = Nobody /\ dataMode = FALSE /\ pppStarted = FALSE /\ pppFor = Nobody
  /\ heard = 0 /\ revived = {} /\ timeline = Silent

-----------------------------------------------------------------------------
(* handle_sip, with the loop's handling of the event. *)

\* modem.start_call and end_call; ppp.reset and ppp_started = false come with both.
StartSession(c) ==
  /\ session' = c /\ dataMode' = FALSE /\ heard' = 0 /\ timeline' = Silent
  /\ pppStarted' = FALSE /\ pppFor' = Nobody
\* Mutant: the loop forgets to clear ppp_started.
EndSessionStarted ==
  /\ session' = Nobody /\ dataMode' = FALSE /\ heard' = 0 /\ timeline' = Silent
  /\ pppFor' = Nobody /\ UNCHANGED <<pppStarted, revived>>
EndSession ==
  /\ session' = Nobody /\ dataMode' = FALSE /\ heard' = 0 /\ timeline' = Silent
  /\ pppStarted' = FALSE /\ pppFor' = Nobody /\ UNCHANGED revived

\* What every good INVITE leaves behind, whether or not the 200 goes out.
TakeOffer(c) ==
  /\ rtpPeer' = c /\ havePeer' = TRUE /\ locked' = FALSE /\ haveSeq' = FALSE
  /\ lastSeq' = lastSeq

Busy(r) ==
  /\ r.kind \in {"invite", "foreign"} /\ callActive
  /\ answers' = answers \cup {Reply("refused", r.from)}
  /\ UNCHANGED <<lineVars, lost>>

NoCommonCodec(r) ==
  /\ r.kind = "foreign" /\ ~callActive
  /\ answers' = answers \cup {Reply("refused", r.from)}
  /\ UNCHANGED <<lineVars, lost>>

Accept(r) ==
  /\ r.kind = "invite" /\ ~callActive
  /\ answers' = answers \cup {Reply("ok", r.from)}
  /\ TakeOffer(r.from) /\ callActive' = TRUE /\ StartSession(r.from)
  /\ revived' = revived \cup ({r.from} \cap {c \in Callers : caller[c] = "byeing"})
  /\ UNCHANGED lost

AcceptNotSent(r) ==
  /\ r.kind = "invite" /\ ~callActive
  /\ lost < MaxLost /\ lost' = lost + 1
  /\ TakeOffer(r.from)
  /\ UNCHANGED <<answers, callActive, sessionVars>>

\* Mutant: a call that was never heard does not end.
EndOnlyHeard(r) ==
  /\ r.kind \in {"bye", "cancel"}
  /\ answers' = answers \cup {Reply(r.kind, r.from)}
  /\ IF haveSeq THEN callActive' = FALSE /\ havePeer' = FALSE /\ EndSession
                ELSE UNCHANGED <<callActive, havePeer, sessionVars>>
  /\ UNCHANGED <<rtpPeer, locked, haveSeq, lastSeq, lost>>
\* BYE and CANCEL of any Call-ID, with or without a call.
End(r) ==
  /\ r.kind \in {"bye", "cancel"}
  /\ answers' = answers \cup {Reply(r.kind, r.from)}
  /\ callActive' = FALSE /\ havePeer' = FALSE /\ EndSession
  /\ UNCHANGED <<rtpPeer, locked, haveSeq, lastSeq, lost>>

HandleSip(r) ==
  /\ requests' = requests \ {r}
  /\ Busy(r) \/ NoCommonCodec(r) \/ Accept(r) \/ AcceptNotSent(r) \/ End(r)
  /\ UNCHANGED <<caller, copies, sent, audio>>

-----------------------------------------------------------------------------
(* recv_rtp and the rest of the loop. *)

\* Mutant: the first packet does not lock.
TakePeerAgain(p) ==
  /\ rtpPeer' = p.from /\ havePeer' = TRUE /\ locked' = (locked \/ callActive)
\* Symmetric RTP: the first packet of version 2 decides where we send.
TakePeer(p) ==
  /\ rtpPeer' = (IF locked THEN rtpPeer ELSE p.from)
  /\ havePeer' = (havePeer \/ ~locked) /\ locked' = TRUE

\* Mutant: the packet that came is counted as missing, too.
MissingOne(p) ==
  LET gap == (Seq(p) - lastSeq) % SeqMod
  IN  IF haveSeq /\ gap > 1 /\ gap < GapLimit THEN gap ELSE 0
Missing(p) ==
  LET gap == (Seq(p) - (lastSeq + 1)) % SeqMod
  IN  IF haveSeq /\ gap > 0 /\ gap < GapLimit THEN gap ELSE 0

\* Does p continue what was heard, with a loss that is filled?
Follows(p) == \/ timeline.from = Nobody
              \/ /\ p.from = timeline.from /\ p.index > timeline.last
                 /\ p.index - timeline.last <= GapLimit
Extended(p) ==
  [from |-> p.from, last |-> p.index,
   first |-> IF timeline.from = Nobody THEN p.index ELSE timeline.first,
   inOrder |-> timeline.inOrder /\ Follows(p)]

\* PCMU is given to the modem, after silence for what is missing; an idle
\* modem drops it.
RecvRtp(p) ==
  /\ p.pcmu /\ audio' = audio \ {p} /\ TakePeer(p)
  /\ haveSeq' = TRUE /\ lastSeq' = Seq(p)
  /\ IF session = Nobody THEN UNCHANGED <<heard, timeline>>
     ELSE heard' = heard + Missing(p) + 1 /\ timeline' = Extended(p)
  /\ UNCHANGED <<caller, copies, sent, requests, answers, lost, callActive,
                 session, dataMode, pppStarted, pppFor, revived>>

\* Telephone events and the like have sequence numbers, too, but only lock.
SkipRtp(p) ==
  /\ ~p.pcmu /\ audio' = audio \ {p} /\ TakePeer(p)
  /\ UNCHANGED <<caller, copies, sent, requests, answers, lost, callActive,
                 haveSeq, lastSeq, sessionVars>>

\* The modem comes to data mode, and may lose it and come to it again in the
\* same session; the loop does not stop PPP for it.
ModemConnects ==
  /\ session # Nobody /\ ~dataMode /\ dataMode' = TRUE
  /\ UNCHANGED <<caller, copies, sent, requests, answers, audio, lost, callActive,
                 mediaVars, session, pppStarted, pppFor, heard, revived, timeline>>
FallBack ==
  /\ dataMode /\ dataMode' = FALSE
  /\ UNCHANGED <<caller, copies, sent, requests, answers, audio, lost, callActive,
                 mediaVars, session, pppStarted, pppFor, heard, revived, timeline>>

\* The loop starts PPP once the modem has data; frames of either side then
\* pass between them.
StartPpp ==
  /\ dataMode /\ ~pppStarted
  /\ pppStarted' = TRUE /\ pppFor' = session
  /\ UNCHANGED <<caller, copies, sent, requests, answers, audio, lost, callActive,
                 mediaVars, session, dataMode, heard, revived, timeline>>

-----------------------------------------------------------------------------
(* The callers and the network. *)

Send(c, kind, state, n) ==
  /\ requests' = requests \cup {Request(kind, c)}
  /\ caller' = [caller EXCEPT ![c] = state] /\ copies' = [copies EXCEPT ![c] = n]
  /\ UNCHANGED <<sent, answers, audio, lost, lineVars>>

\* A foreign INVITE offers no PCMU.
Invite(c) == caller[c] = "idle" /\ (Send(c, "invite", "inviting", 1) \/ Send(c, "foreign", "asking", 0))
\* A copy repeated while one is on its way would be no second message here.
InviteAgain(c) == /\ caller[c] = "inviting" /\ copies[c] < MaxInvites
                  /\ Request("invite", c) \notin requests
                  /\ Send(c, "invite", "inviting", copies[c] + 1)
Cancel(c) == caller[c] = "inviting" /\ Send(c, "cancel", "cancelling", 0)
Hangup(c) == caller[c] = "talking" /\ Send(c, "bye", "byeing", 1)
ByeAgain(c) == /\ caller[c] = "byeing" /\ copies[c] < MaxByes
               /\ Request("bye", c) \notin requests
               /\ Send(c, "bye", "byeing", copies[c] + 1)

\* A 200 that crosses a CANCEL has to be ended by a BYE.
Hear(a) ==
  LET c == a.to
  IN  \/ /\ a.kind = "ok" /\ caller[c] = "cancelling"
         /\ requests' = requests \cup {Request("bye", c)}
         /\ caller' = [caller EXCEPT ![c] = "byeing"] /\ copies' = [copies EXCEPT ![c] = 1]
      \/ /\ \/ a.kind = "ok" /\ caller[c] = "inviting" /\ caller' = [caller EXCEPT ![c] = "talking"]
            \/ a.kind = "refused" /\ caller[c] \in {"inviting", "asking"} /\ caller' = [caller EXCEPT ![c] = "rejected"]
            \/ a.kind = "cancel" /\ caller[c] = "cancelling" /\ caller' = [caller EXCEPT ![c] = "gone"]
            \/ a.kind = "bye" /\ caller[c] = "byeing" /\ caller' = [caller EXCEPT ![c] = "done"]
         /\ requests' = requests /\ copies' = [copies EXCEPT ![c] = 0]
      \/ /\ \/ a.kind = "ok" /\ caller[c] \notin {"inviting", "cancelling"}
            \/ a.kind = "refused" /\ caller[c] \notin {"inviting", "asking"}
            \/ a.kind = "cancel" /\ caller[c] # "cancelling"
            \/ a.kind = "bye" /\ caller[c] # "byeing"
         /\ UNCHANGED <<caller, requests, copies>>
HearAnswer(a) ==
  /\ answers' = answers \ {a} /\ Hear(a)
  /\ UNCHANGED <<sent, audio, lost, lineVars>>

\* The packets left out are lost; those sent arrive in any order.
SendAudio(c, i, pcmu) ==
  /\ caller[c] = "talking" /\ i > sent[c] /\ Cardinality(audio) < MaxInFlight
  /\ sent' = [sent EXCEPT ![c] = i] /\ audio' = audio \cup {Packet(c, i, pcmu)}
  /\ UNCHANGED <<caller, copies, requests, answers, lost, lineVars>>

Lose(m) ==
  /\ lost < MaxLost /\ lost' = lost + 1
  /\ requests' = requests \ {m} /\ answers' = answers \ {m}
  /\ UNCHANGED <<caller, copies, sent, audio, lineVars>>

Calling(c) ==
  \/ Invite(c) \/ InviteAgain(c) \/ Cancel(c) \/ Hangup(c) \/ ByeAgain(c)
  \/ \E i \in 1 .. MaxPackets, pcmu \in BOOLEAN : SendAudio(c, i, pcmu)

CallNext ==
  \/ \E c \in Callers : Calling(c)
  \/ \E r \in requests : HandleSip(r)
  \/ \E a \in answers : HearAnswer(a)
  \/ \E m \in requests \cup answers : Lose(m)
  \/ \E p \in audio : RecvRtp(p) \/ SkipRtp(p)
  \/ ModemConnects \/ FallBack \/ StartPpp

\* The loop reads what has arrived; a BYE is repeated until it is answered.
CallFairness ==
  /\ \A c \in Callers : WF_callVars(ByeAgain(c))
  /\ \A c \in Callers : WF_callVars(\E r \in requests : r = Request("bye", c) /\ HandleSip(r))
  /\ WF_callVars(StartPpp)
-----------------------------------------------------------------------------
\* The modem plays on the caller's sample clock: as long as packets come in
\* order and no more than GapLimit - 1 are lost at a time, it was given one
\* packet, heard or silent, for each the caller sent since the first one
\* heard, also where the sequence number wraps.
SilenceForLoss ==
  timeline.from # Nobody /\ timeline.inOrder
    => heard = timeline.last - timeline.first + 1

\* Once the peer of a call is locked, nothing moves our audio elsewhere
\* while the call lasts: no packet of another caller, no second INVITE.
MediaStays == [][callActive /\ callActive' /\ locked /\ session' = session
                 => locked' /\ havePeer' /\ rtpPeer' = rtpPeer]_callVars

\* PPP belongs to the session it was started in and to no other: the server of
\* an earlier call never meets the next one's modem, however the first call
\* ended, and a loss of data mode leaves PPP to its own call.  The loop knows
\* whether PPP runs, and the modem has a session just as long as the line has a
\* call, although the three are reset in different places.
PppFollowsCall ==
  /\ pppStarted <=> pppFor # Nobody
  /\ pppFor # Nobody => pppFor = session
  /\ session # Nobody <=> callActive

\* A caller who hangs up, and says so until it is answered, is off the line,
\* whatever BYEs are lost, and whoever else calls; except that nothing tells
\* a repeated INVITE that comes after the BYE from a new call.
HangupEnds ==
  \A c \in Callers : caller[c] = "byeing" ~> session # c \/ c \in revived
=============================================================================
