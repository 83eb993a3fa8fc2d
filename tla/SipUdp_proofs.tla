--------------------------- MODULE SipUdp_proofs ---------------------------
(***************************************************************************)
(* The UDP server for any number of callers, any range of sequence numbers *)
(* and any registrar: its types, PPP in step with the call, audio that     *)
(* stays with its caller, silence that stands for exactly the packets      *)
(* lost, and no loop of challenges.                                        *)
(***************************************************************************)
EXTENDS SipUdp, TLAPS

-----------------------------------------------------------------------------
(* Remainders. *)

LEMMA RemainderRange ==
  ASSUME NEW a \in Int, NEW W \in Nat \ {0}
  PROVE  /\ a % W \in 0 .. W - 1 /\ a \div W \in Int
         /\ a = W * (a \div W) + (a % W)
  OBVIOUS

LEMMA RemainderUnique ==
  ASSUME NEW W \in Nat \ {0}, NEW a \in Int, NEW q \in Int, NEW r \in 0 .. W - 1,
         a = W * q + r
  PROVE  a % W = r
<1> DEFINE d == a \div W
           m == a % W
<1>1. d \in Int /\ m \in 0 .. W - 1 /\ a = W * d + m
  BY RemainderRange
<1> HIDE DEF d, m
<1>2. W * (d - q) = r - m
  BY <1>1
<1>3. d - q = 0
  <2>1. CASE d - q >= 1
    <3>1. W * (d - q) >= W
      BY <1>1, <2>1
    <3> QED BY <3>1, <1>1, <1>2
  <2>2. CASE d - q <= -1
    <3>1. W * (d - q) <= -W
      BY <1>1, <2>2
    <3> QED BY <3>1, <1>1, <1>2
  <2> QED BY <1>1, <2>1, <2>2
<1>4. r = m
  BY <1>2, <1>3, <1>1
<1> QED BY <1>4 DEF m

-----------------------------------------------------------------------------
(* The call: its inductive invariant. *)

\* The flags of SipRtpServer, the modem and PPP go together: data mode and a
\* media address belong to a call.
LineInv ==
  /\ PppFollowsCall
  /\ dataMode => session # Nobody
  /\ callActive => havePeer

\* What last_rx_seq_ says of the audio heard: before the first packet of a
\* session there is no sequence number to compare with, and after it it is
\* that of the last packet.
AudioInv ==
  /\ session = Nobody => timeline = Silent
  /\ timeline.from = Nobody => timeline = Silent /\ heard = 0
  /\ session # Nobody /\ timeline.from = Nobody => ~haveSeq
  /\ timeline.from # Nobody => haveSeq /\ lastSeq = (FirstSeq + timeline.last) % SeqMod
  /\ SilenceForLoss

CallInv == CallTypeOK /\ LineInv /\ AudioInv

LEMMA Constants ==
  /\ SeqMod \in Nat \ {0} /\ FirstSeq \in Nat /\ GapLimit \in 1 .. SeqMod - 1
  /\ MaxPackets \in Nat /\ MaxLost \in Nat
  /\ MaxInvites \in Nat \ {0} /\ MaxByes \in Nat \ {0}
  BY Sequence, CallBounds

LEMMA PacketNumbers ==
  ASSUME CallTypeOK, NEW p \in audio
  PROVE  /\ p.from \in Callers /\ p.index \in Nat
         /\ Seq(p) = (FirstSeq + p.index) % SeqMod /\ Seq(p) \in 0 .. SeqMod - 1
         /\ Missing(p) \in Nat
<1>1. p.from \in Callers /\ p.index \in Nat
  BY Constants DEF CallTypeOK
<1>2. Seq(p) = (FirstSeq + p.index) % SeqMod
  BY DEF Seq
<1>3. Seq(p) \in 0 .. SeqMod - 1
  <2>1. FirstSeq + p.index \in Int
    BY <1>1, Constants
  <2> QED BY <1>2, <2>1, Constants, RemainderRange
<1>4. Missing(p) \in Nat
  <2> DEFINE gap == (Seq(p) - (lastSeq + 1)) % SeqMod
  <2>1. Seq(p) - (lastSeq + 1) \in Int
    BY <1>3, Constants DEF CallTypeOK
  <2>2. gap \in Nat
    BY <2>1, Constants, RemainderRange
  <2>3. Missing(p) \in {gap, 0}
    BY DEF Missing
  <2> QED BY <2>2, <2>3
<1> QED BY <1>1, <1>2, <1>3, <1>4

\* The silence put in before a packet that comes next after the last one
\* heard, up to GapLimit later, is what was lost between the two.
LEMMA MissingCounts ==
  ASSUME CallTypeOK, AudioInv, NEW p \in audio,
         timeline.from # Nobody, Follows(p)
  PROVE  Missing(p) = p.index - timeline.last - 1
<1> DEFINE a == p.index
           b == timeline.last
           x == FirstSeq + a
           y == FirstSeq + b
           i == x \div SeqMod
           j == y \div SeqMod
           gap == (Seq(p) - (lastSeq + 1)) % SeqMod
<1>1. /\ a \in Nat /\ b \in Nat /\ x \in Int /\ y \in Int
      /\ a - b - 1 \in 0 .. GapLimit - 1 /\ a - b - 1 \in 0 .. SeqMod - 1
  BY PacketNumbers, Constants DEF CallTypeOK, Follows
<1>2. i \in Int /\ Seq(p) \in 0 .. SeqMod - 1 /\ x = SeqMod * i + Seq(p)
  BY <1>1, Constants, PacketNumbers, RemainderRange
<1>3. j \in Int /\ lastSeq \in 0 .. SeqMod - 1 /\ y = SeqMod * j + lastSeq
  <2>1. lastSeq = y % SeqMod
    BY DEF AudioInv
  <2> QED BY <1>1, <2>1, Constants, RemainderRange
<1>4. x - y = a - b
  BY <1>1, Constants
<1> HIDE DEF a, b, x, y, i, j
<1>5. Seq(p) - (lastSeq + 1) = SeqMod * (j - i) + (a - b - 1)
  <2> DEFINE u == SeqMod * i
             v == SeqMod * j
  <2>1. SeqMod * (j - i) = v - u
    BY <1>2, <1>3, Constants
  <2>2. u \in Int /\ v \in Int
    BY <1>2, <1>3, Constants
  <2>3. x = u + Seq(p) /\ y = v + lastSeq
    BY <1>2, <1>3
  <2> HIDE DEF u, v
  <2>4. Seq(p) \in Int /\ lastSeq \in Int
    BY <1>2, <1>3, Constants
  <2>5. Seq(p) - (lastSeq + 1) = (v - u) + (a - b - 1)
    BY <1>1, <1>4, <2>2, <2>3, <2>4
  <2> QED BY <2>1, <2>5
<1>6. gap = a - b - 1
  <2>1. Seq(p) - (lastSeq + 1) \in Int /\ j - i \in Int
    BY <1>2, <1>3
  <2> QED BY <1>1, <1>5, <2>1, Constants, RemainderUnique
<1>7. Missing(p) = IF gap > 0 /\ gap < GapLimit THEN gap ELSE 0
  BY DEF AudioInv, Missing
<1> HIDE DEF gap
<1>8. Missing(p) = a - b - 1
  BY <1>1, <1>6, <1>7, Constants
<1> QED BY <1>8 DEF a, b

LEMMA CallStarts == CallInit => CallInv
<1> SUFFICES ASSUME CallInit PROVE CallInv
  OBVIOUS
<1>1. CallTypeOK
  <2>1. /\ caller \in [Callers -> {"away", "idle"}]
        /\ copies = [c \in Callers |-> 0] /\ sent = [c \in Callers |-> 0]
        /\ 0 \in 0 .. MaxInvites + MaxByes /\ 0 \in 0 .. MaxPackets
        /\ 0 \in 0 .. SeqMod - 1 /\ 0 \in 0 .. MaxLost
    BY Constants DEF CallInit
  <2>2. /\ caller \in [Callers -> {"away", "idle", "inviting", "asking", "rejected",
                                  "talking", "cancelling", "gone", "byeing", "done"}]
        /\ copies \in [Callers -> 0 .. MaxInvites + MaxByes]
        /\ sent \in [Callers -> 0 .. MaxPackets]
    BY <2>1
  <2> QED BY <2>1, <2>2 DEF CallInit, CallTypeOK, Silent
<1>2. LineInv
  BY DEF CallInit, LineInv, PppFollowsCall
<1>3. AudioInv
  BY DEF CallInit, AudioInv, Silent, SilenceForLoss
<1> QED BY <1>1, <1>2, <1>3 DEF CallInv

\* What the callers and the network do leaves the server alone.
LEMMA LineAlone ==
  ASSUME LineInv, AudioInv, UNCHANGED lineVars
  PROVE  LineInv' /\ AudioInv'
<1>1. LineInv'
  BY DEF lineVars, LineInv, PppFollowsCall
<1>2. AudioInv'
  BY DEF lineVars, AudioInv, SilenceForLoss
<1> QED BY <1>1, <1>2

\* A caller that sends: only its own request and counters change.
LEMMA CallingTypes ==
  ASSUME CallTypeOK, NEW c \in Callers, Calling(c)
  PROVE  CallTypeOK' /\ UNCHANGED lineVars
<1>1. ASSUME NEW k \in {"invite", "foreign", "cancel", "bye"},
             NEW s \in {"inviting", "asking", "cancelling", "byeing"},
             NEW n \in 0 .. MaxInvites + MaxByes, Send(c, k, s, n)
      PROVE  CallTypeOK' /\ UNCHANGED lineVars
  <2>1. requests' \subseteq [kind : {"invite", "foreign", "cancel", "bye"}, from : Callers]
    BY <1>1 DEF CallTypeOK, Send, Request
  <2>2. /\ caller' \in [Callers -> {"away", "idle", "inviting", "asking", "rejected",
                                    "talking", "cancelling", "gone", "byeing", "done"}]
        /\ copies' \in [Callers -> 0 .. MaxInvites + MaxByes]
    BY <1>1 DEF CallTypeOK, Send
  <2>3. UNCHANGED <<sent, answers, audio, lost, lineVars>>
    BY <1>1 DEF Send
  <2> QED BY <2>1, <2>2, <2>3 DEF CallTypeOK, lineVars
<1>2. /\ 0 \in 0 .. MaxInvites + MaxByes /\ 1 \in 0 .. MaxInvites + MaxByes
      /\ copies[c] < MaxInvites => copies[c] + 1 \in 0 .. MaxInvites + MaxByes
      /\ copies[c] < MaxByes => copies[c] + 1 \in 0 .. MaxInvites + MaxByes
  <2>1. copies[c] \in 0 .. MaxInvites + MaxByes
    BY DEF CallTypeOK
  <2> QED BY <2>1, Constants
<1>3. CASE Invite(c)
  BY <1>1, <1>2, <1>3 DEF Invite
<1>4. CASE InviteAgain(c)
  BY <1>1, <1>2, <1>4 DEF InviteAgain
<1>5. CASE Cancel(c)
  BY <1>1, <1>2, <1>5 DEF Cancel
<1>6. CASE Hangup(c)
  BY <1>1, <1>2, <1>6 DEF Hangup
<1>7. CASE ByeAgain(c)
  BY <1>1, <1>2, <1>7 DEF ByeAgain
<1>8. ASSUME NEW i \in 1 .. MaxPackets, NEW pcmu \in BOOLEAN, SendAudio(c, i, pcmu)
      PROVE  CallTypeOK' /\ UNCHANGED lineVars
  <2>1. audio' \subseteq [from : Callers, index : 1 .. MaxPackets, pcmu : BOOLEAN]
    BY <1>8 DEF CallTypeOK, SendAudio, Packet
  <2>2. sent' \in [Callers -> 0 .. MaxPackets]
    BY <1>8, Constants DEF CallTypeOK, SendAudio
  <2>3. UNCHANGED <<caller, copies, requests, answers, lost, lineVars>>
    BY <1>8 DEF SendAudio
  <2> QED BY <2>1, <2>2, <2>3 DEF CallTypeOK, lineVars
<1> QED BY <1>3, <1>4, <1>5, <1>6, <1>7, <1>8 DEF Calling

LEMMA HearAnswerTypes ==
  ASSUME CallTypeOK, NEW a \in answers, HearAnswer(a)
  PROVE  CallTypeOK' /\ UNCHANGED lineVars
<1> DEFINE c == a.to
           States == {"away", "idle", "inviting", "asking", "rejected",
                      "talking", "cancelling", "gone", "byeing", "done"}
<1>1. c \in Callers /\ answers' \subseteq answers
  BY DEF CallTypeOK, HearAnswer
<1>2. /\ requests' \in {requests, requests \cup {Request("bye", c)}}
      /\ \/ caller' = caller
         \/ \E s \in States : caller' = [caller EXCEPT ![c] = s]
      /\ \/ copies' = copies
         \/ \E n \in {0, 1} : copies' = [copies EXCEPT ![c] = n]
  BY DEF HearAnswer, Hear
<1>3. requests' \subseteq [kind : {"invite", "foreign", "cancel", "bye"}, from : Callers]
  BY <1>1, <1>2 DEF CallTypeOK, Request
<1>4. caller' \in [Callers -> States]
  BY <1>1, <1>2 DEF CallTypeOK
<1>5. copies' \in [Callers -> 0 .. MaxInvites + MaxByes]
  <2>1. {0, 1} \subseteq 0 .. MaxInvites + MaxByes
    BY Constants
  <2> QED BY <1>1, <1>2, <2>1 DEF CallTypeOK
<1>6. UNCHANGED <<sent, audio, lost, lineVars>>
  BY DEF HearAnswer
<1> QED BY <1>1, <1>3, <1>4, <1>5, <1>6 DEF CallTypeOK, lineVars

LEMMA LoseTypes ==
  ASSUME CallTypeOK, NEW m \in requests \cup answers, Lose(m)
  PROVE  CallTypeOK' /\ UNCHANGED lineVars
<1>1. requests' \subseteq requests /\ answers' \subseteq answers
  BY DEF Lose
<1>2. lost' \in 0 .. MaxLost
  BY Constants DEF CallTypeOK, Lose
<1>3. UNCHANGED <<caller, copies, sent, audio, lineVars>>
  BY DEF Lose
<1> QED BY <1>1, <1>2, <1>3 DEF CallTypeOK, lineVars

-----------------------------------------------------------------------------
(* The call: the server's steps. *)

LEMMA HandleSipKeeps ==
  ASSUME CallInv, NEW r \in requests, HandleSip(r)
  PROVE  CallInv'
<1>1. r \in [kind : {"invite", "foreign", "cancel", "bye"}, from : Callers]
  BY DEF CallInv, CallTypeOK
<1>2. /\ requests' \subseteq requests /\ UNCHANGED <<caller, copies, sent, audio>>
  BY DEF HandleSip
<1>3. CASE Busy(r) \/ NoCommonCodec(r)
  <2>1. UNCHANGED lineVars /\ lost' = lost /\ answers' = answers \cup {Reply("refused", r.from)}
    BY <1>3 DEF Busy, NoCommonCodec
  <2>2. answers' \subseteq [kind : {"ok", "refused", "cancel", "bye"}, to : Callers]
    BY <1>1, <2>1 DEF CallInv, CallTypeOK, Reply
  <2>3. CallTypeOK'
    BY <1>2, <2>1, <2>2 DEF CallInv, CallTypeOK, lineVars
  <2> QED BY <2>1, <2>3, LineAlone DEF CallInv
<1>4. CASE Accept(r)
  <2>1. /\ answers' = answers \cup {Reply("ok", r.from)} /\ lost' = lost
        /\ callActive' = TRUE /\ rtpPeer' = r.from /\ havePeer' = TRUE
        /\ locked' = FALSE /\ haveSeq' = FALSE /\ lastSeq' = lastSeq
        /\ session' = r.from /\ dataMode' = FALSE /\ heard' = 0 /\ timeline' = Silent
        /\ pppStarted' = FALSE /\ pppFor' = Nobody
        /\ revived' \subseteq revived \cup {r.from}
    BY <1>4 DEF Accept, TakeOffer, StartSession
  <2>2. answers' \subseteq [kind : {"ok", "refused", "cancel", "bye"}, to : Callers]
    BY <1>1, <2>1 DEF CallInv, CallTypeOK, Reply
  <2>3. CallTypeOK'
    BY <1>1, <1>2, <2>1, <2>2, Constants DEF CallInv, CallTypeOK, Silent
  <2>4. LineInv'
    BY <1>1, <2>1, NobodyIsNoCaller DEF LineInv, PppFollowsCall
  <2>5. AudioInv'
    BY <1>1, <2>1, NobodyIsNoCaller DEF AudioInv, SilenceForLoss, Silent
  <2> QED BY <2>3, <2>4, <2>5 DEF CallInv
<1>5. CASE AcceptNotSent(r)
  <2>1. /\ ~callActive /\ UNCHANGED <<answers, callActive, sessionVars>>
        /\ lost < MaxLost /\ lost' = lost + 1
        /\ rtpPeer' = r.from /\ havePeer' = TRUE
        /\ locked' = FALSE /\ haveSeq' = FALSE /\ lastSeq' = lastSeq
    BY <1>5 DEF AcceptNotSent, TakeOffer
  <2>2. lost' \in 0 .. MaxLost
    BY <2>1, Constants DEF CallInv, CallTypeOK
  <2>3. CallTypeOK'
    BY <1>1, <1>2, <2>1, <2>2, Constants DEF CallInv, CallTypeOK, sessionVars
  <2>4. LineInv'
    BY <2>1 DEF CallInv, LineInv, PppFollowsCall, sessionVars
  <2>5. AudioInv'
    BY <2>1 DEF CallInv, LineInv, PppFollowsCall, AudioInv, SilenceForLoss, Silent, sessionVars
  <2> QED BY <2>3, <2>4, <2>5 DEF CallInv
<1>6. CASE End(r)
  <2>1. /\ answers' = answers \cup {Reply(r.kind, r.from)} /\ r.kind \in {"bye", "cancel"}
        /\ callActive' = FALSE /\ havePeer' = FALSE
        /\ session' = Nobody /\ dataMode' = FALSE /\ heard' = 0 /\ timeline' = Silent
        /\ pppStarted' = FALSE /\ pppFor' = Nobody
        /\ UNCHANGED <<rtpPeer, locked, haveSeq, lastSeq, lost, revived>>
    BY <1>6 DEF End, EndSession
  <2>2. answers' \subseteq [kind : {"ok", "refused", "cancel", "bye"}, to : Callers]
    BY <1>1, <2>1 DEF CallInv, CallTypeOK, Reply
  <2>3. CallTypeOK'
    BY <1>1, <1>2, <2>1, <2>2, Constants DEF CallInv, CallTypeOK, Silent
  <2>4. LineInv'
    BY <2>1 DEF LineInv, PppFollowsCall
  <2>5. AudioInv'
    BY <2>1 DEF AudioInv, SilenceForLoss, Silent
  <2> QED BY <2>3, <2>4, <2>5 DEF CallInv
<1> QED BY <1>3, <1>4, <1>5, <1>6 DEF HandleSip

LEMMA TakePeerKeeps ==
  ASSUME CallTypeOK, NEW p \in audio, TakePeer(p)
  PROVE  /\ rtpPeer' \in Callers \cup {Nobody} /\ havePeer' \in BOOLEAN /\ locked' \in BOOLEAN
         /\ havePeer => havePeer'
         /\ locked => locked' /\ rtpPeer' = rtpPeer /\ havePeer' = havePeer
  BY PacketNumbers DEF CallTypeOK, TakePeer

LEMMA RecvRtpKeeps ==
  ASSUME CallInv, NEW p \in audio, RecvRtp(p)
  PROVE  CallInv'
<1>1. /\ CallTypeOK /\ LineInv /\ AudioInv
      /\ p.from \in Callers /\ p.index \in Nat /\ p.from # Nobody
      /\ Seq(p) = (FirstSeq + p.index) % SeqMod /\ Seq(p) \in 0 .. SeqMod - 1
      /\ Missing(p) \in Nat
  BY PacketNumbers, NobodyIsNoCaller DEF CallInv
<1>2. /\ audio' \subseteq audio /\ haveSeq' = TRUE /\ lastSeq' = Seq(p)
      /\ UNCHANGED <<caller, copies, sent, requests, answers, lost, callActive,
                     session, dataMode, pppStarted, pppFor, revived>>
  BY DEF RecvRtp
<1>3. /\ rtpPeer' \in Callers \cup {Nobody} /\ havePeer' \in BOOLEAN /\ locked' \in BOOLEAN
      /\ havePeer => havePeer'
  BY <1>1, TakePeerKeeps DEF RecvRtp
<1>4. LineInv'
  BY <1>1, <1>2, <1>3 DEF LineInv, PppFollowsCall
<1>5. CASE session = Nobody
  <2>1. UNCHANGED <<heard, timeline>>
    BY <1>5 DEF RecvRtp
  <2>2. CallTypeOK'
    BY <1>1, <1>2, <1>3, <2>1 DEF CallTypeOK
  <2>3. AudioInv'
    BY <1>1, <1>2, <1>5, <2>1 DEF AudioInv, SilenceForLoss, Silent
  <2> QED BY <1>4, <2>2, <2>3 DEF CallInv
<1>6. CASE session # Nobody
  <2>1. /\ heard' = heard + Missing(p) + 1
        /\ timeline' = Extended(p)
    BY <1>6 DEF RecvRtp
  <2>2. /\ timeline' \in [from : Callers \cup {Nobody}, first : Nat, last : Nat, inOrder : BOOLEAN]
        /\ timeline'.from = p.from /\ timeline'.last = p.index
        /\ timeline'.first = (IF timeline.from = Nobody THEN p.index ELSE timeline.first)
        /\ timeline'.inOrder => timeline.inOrder /\ Follows(p)
    BY <1>1, <2>1 DEF Extended, CallTypeOK, Follows
  <2>3. heard' \in Nat
    BY <1>1, <2>1 DEF CallTypeOK
  <2>4. CallTypeOK'
    BY <1>1, <1>2, <1>3, <2>2, <2>3 DEF CallTypeOK
  <2>5. timeline'.inOrder => heard' = timeline'.last - timeline'.first + 1
    <3>1. CASE timeline.from = Nobody
      <4>1. heard = 0 /\ ~haveSeq
        BY <1>1, <1>6, <3>1 DEF AudioInv
      <4>2. Missing(p) = 0
        BY <4>1 DEF Missing
      <4> QED BY <1>1, <2>1, <2>2, <3>1, <4>1, <4>2
    <3>2. CASE timeline.from # Nobody /\ Follows(p) /\ timeline.inOrder
      <4>1. Missing(p) = p.index - timeline.last - 1
        BY <1>1, <3>2, MissingCounts
      <4>2. heard = timeline.last - timeline.first + 1
        BY <1>1, <3>2 DEF AudioInv, SilenceForLoss
      <4>3. timeline.last \in Nat /\ timeline.first \in Nat
        BY <1>1 DEF CallTypeOK
      <4> QED BY <1>1, <2>1, <2>2, <3>2, <4>1, <4>2, <4>3
    <3> QED BY <2>2, <3>1, <3>2
  <2>6. AudioInv'
    BY <1>1, <1>2, <1>6, <2>2, <2>5 DEF AudioInv, SilenceForLoss
  <2> QED BY <1>4, <2>4, <2>6 DEF CallInv
<1> QED BY <1>5, <1>6

LEMMA SkipRtpKeeps ==
  ASSUME CallInv, NEW p \in audio, SkipRtp(p)
  PROVE  CallInv'
<1>1. /\ audio' \subseteq audio
      /\ UNCHANGED <<caller, copies, sent, requests, answers, lost, callActive,
                     haveSeq, lastSeq, sessionVars>>
  BY DEF SkipRtp
<1>2. /\ rtpPeer' \in Callers \cup {Nobody} /\ havePeer' \in BOOLEAN /\ locked' \in BOOLEAN
      /\ havePeer => havePeer'
  BY TakePeerKeeps DEF SkipRtp, CallInv
<1>3. CallTypeOK'
  BY <1>1, <1>2 DEF CallInv, CallTypeOK, sessionVars
<1>4. LineInv'
  BY <1>1, <1>2 DEF CallInv, LineInv, PppFollowsCall, sessionVars
<1>5. AudioInv'
  BY <1>1 DEF CallInv, AudioInv, SilenceForLoss, sessionVars
<1> QED BY <1>3, <1>4, <1>5 DEF CallInv

LEMMA ModemAndPppKeep ==
  ASSUME CallInv, ModemConnects \/ FallBack \/ StartPpp
  PROVE  CallInv'
<1>1. /\ UNCHANGED <<caller, copies, sent, requests, answers, audio, lost, callActive,
                     mediaVars, session, heard, revived, timeline>>
  BY DEF ModemConnects, FallBack, StartPpp
<1>2. CallTypeOK'
  <2>1. dataMode' \in BOOLEAN /\ pppStarted' \in BOOLEAN /\ pppFor' \in Callers \cup {Nobody}
    <3>1. /\ dataMode \in BOOLEAN /\ pppStarted \in BOOLEAN
          /\ pppFor \in Callers \cup {Nobody} /\ session \in Callers \cup {Nobody}
      BY DEF CallInv, CallTypeOK
    <3>2. CASE ModemConnects
      BY <3>1, <3>2 DEF ModemConnects
    <3>3. CASE FallBack
      BY <3>1, <3>3 DEF FallBack
    <3>4. CASE StartPpp
      BY <3>1, <3>4 DEF StartPpp
    <3> QED BY <3>2, <3>3, <3>4
  <2> QED BY <1>1, <2>1 DEF CallInv, CallTypeOK, mediaVars
<1>3. LineInv'
  BY <1>1 DEF CallInv, LineInv, PppFollowsCall, mediaVars, ModemConnects, FallBack, StartPpp
<1>4. AudioInv'
  BY <1>1 DEF CallInv, AudioInv, SilenceForLoss, mediaVars
<1> QED BY <1>2, <1>3, <1>4 DEF CallInv

LEMMA CallKeeps == CallInv /\ [CallNext]_callVars => CallInv'
<1> SUFFICES ASSUME CallInv, [CallNext]_callVars PROVE CallInv'
  OBVIOUS
<1>1. ASSUME CallTypeOK' /\ UNCHANGED lineVars PROVE CallInv'
  BY <1>1, LineAlone DEF CallInv
<1>2. ASSUME NEW c \in Callers, Calling(c) PROVE CallInv'
  BY <1>1, <1>2, CallingTypes DEF CallInv
<1>3. ASSUME NEW r \in requests, HandleSip(r) PROVE CallInv'
  BY <1>3, HandleSipKeeps
<1>4. ASSUME NEW a \in answers, HearAnswer(a) PROVE CallInv'
  BY <1>1, <1>4, HearAnswerTypes DEF CallInv
<1>5. ASSUME NEW m \in requests \cup answers, Lose(m) PROVE CallInv'
  BY <1>1, <1>5, LoseTypes DEF CallInv
<1>6. ASSUME NEW p \in audio, RecvRtp(p) \/ SkipRtp(p) PROVE CallInv'
  BY <1>6, RecvRtpKeeps, SkipRtpKeeps
<1>7. CASE ModemConnects \/ FallBack \/ StartPpp
  BY <1>7, ModemAndPppKeep
<1>8. CASE UNCHANGED callVars
  BY <1>8 DEF callVars, CallInv, CallTypeOK, LineInv, PppFollowsCall, AudioInv, SilenceForLoss
<1> QED BY <1>2, <1>3, <1>4, <1>5, <1>6, <1>7, <1>8 DEF CallNext

-----------------------------------------------------------------------------
(* The registration. *)

\* A registrar that does not know our password confirms nothing, so the
\* first challenge answered is the last.
Refused == ~password => /\ Answer("ok", NoNonce) \notin verdicts
                        /\ authorization # NoNonce => authAttempted

RegInv == RegTypeOK /\ Refused

LEMMA RegStarts == RegInit => RegInv
<1>1. 0 \in Nonces /\ 0 \in 0 .. MaxTrouble
  BY NonceBound, TroubleBound DEF Nonces
<1> QED BY <1>1 DEF RegInit, RegInv, RegTypeOK, Refused

LEMMA TroubleTypes ==
  ASSUME RegTypeOK, RegTrouble
  PROVE  trouble' \in 0 .. MaxTrouble
  BY TroubleBound DEF RegTypeOK, RegTrouble

LEMMA HandleResponseKeeps ==
  ASSUME RegInv, NEW a \in verdicts, HandleResponse(a)
  PROVE  RegInv'
<1>1. /\ verdicts' \subseteq verdicts /\ UNCHANGED <<registrar, password, nonce>>
      /\ a \in Answers
  BY DEF HandleResponse, RegInv, RegTypeOK
<1>2. CASE HandleOk(a)
  <2>1. a = Answer("ok", NoNonce)
    BY <1>1, <1>2 DEF HandleOk, Answers, Answer
  <2>2. password
    BY <2>1 DEF RegInv, Refused
  <2> QED BY <1>1, <1>2, <2>2 DEF HandleOk, RegInv, RegTypeOK, Refused
<1>3. CASE HandleChallenge(a)
  <2>1. a.nonce \in Nonces
    BY <1>1, <1>3 DEF HandleChallenge, Answers, Answer
  <2>2. /\ authAttempted' = TRUE /\ authorization' = a.nonce /\ unconfirmed' = TRUE
        /\ unlucky' = (unlucky \/ a.nonce # nonce)
    BY <1>3 DEF HandleChallenge
  <2>3. registers' \in {registers, registers \cup {a.nonce}} /\ registered' \in BOOLEAN
    BY <1>3 DEF HandleChallenge, RegInv, RegTypeOK
  <2>4. trouble' \in 0 .. MaxTrouble
    BY <1>3, TroubleTypes DEF HandleChallenge, RegInv, RegTypeOK
  <2> QED BY <1>1, <2>1, <2>2, <2>3, <2>4 DEF RegInv, RegTypeOK, Refused
<1>4. CASE HandleRejection(a)
  BY <1>1, <1>4 DEF HandleRejection, RegInv, RegTypeOK, Refused
<1> QED BY <1>2, <1>3, <1>4 DEF HandleResponse

LEMMA RegistrarKeeps ==
  ASSUME RegInv, NEW n \in registers, RegistrarAnswers(n) \/ RegistrarFails(n) \/ LoseRequest(n)
  PROVE  RegInv'
<1>1. /\ registers' \subseteq registers
      /\ UNCHANGED <<registrar, password, registered, authAttempted, authorization,
                     nonce, unconfirmed, unlucky>>
  BY DEF RegistrarAnswers, RegistrarFails, LoseRequest
<1>2. /\ Verdict(n) \in Answers /\ Answer("failure", NoNonce) \in Answers
      /\ ~password => Verdict(n) # Answer("ok", NoNonce)
      /\ Answer("failure", NoNonce) # Answer("ok", NoNonce)
  BY DEF Verdict, Answers, Answer, RegInv, RegTypeOK
<1>3. /\ verdicts' \in {verdicts, verdicts \cup {Verdict(n)},
                        verdicts \cup {Answer("failure", NoNonce)}}
  BY DEF RegistrarAnswers, RegistrarFails, LoseRequest
<1>4. trouble' \in 0 .. MaxTrouble
  BY TroubleTypes DEF RegistrarAnswers, RegistrarFails, LoseRequest, RegInv, RegTypeOK
<1>5. verdicts' \subseteq Answers
  BY <1>2, <1>3 DEF RegInv, RegTypeOK
<1>6. RegTypeOK'
  BY <1>1, <1>4, <1>5 DEF RegInv, RegTypeOK
<1>7. Refused'
  BY <1>1, <1>2, <1>3 DEF RegInv, Refused
<1> QED BY <1>6, <1>7 DEF RegInv

LEMMA RegKeeps == RegInv /\ [RegNext]_regVars => RegInv'
<1> SUFFICES ASSUME RegInv, [RegNext]_regVars PROVE RegInv'
  OBVIOUS
<1>1. CASE Refresh
  BY <1>1 DEF Refresh, RegInv, RegTypeOK, Refused
<1>2. CASE ChangeNonce
  <2>1. nonce' \in Nonces
    BY <1>2, NonceBound DEF ChangeNonce, Nonces, RegInv, RegTypeOK
  <2>2. /\ unlucky' = (unlucky \/ unconfirmed)
        /\ UNCHANGED <<registrar, password, registered, authAttempted, authorization,
                       registers, verdicts, trouble, unconfirmed>>
    BY <1>2 DEF ChangeNonce
  <2> QED BY <2>1, <2>2 DEF RegInv, RegTypeOK, Refused
<1>3. ASSUME NEW a \in verdicts, HandleResponse(a) PROVE RegInv'
  BY <1>3, HandleResponseKeeps
<1>4. ASSUME NEW a \in verdicts, LoseAnswer(a) PROVE RegInv'
  <2>1. trouble' \in 0 .. MaxTrouble
    BY <1>4, TroubleTypes DEF LoseAnswer, RegInv
  <2> QED BY <1>4, <2>1 DEF LoseAnswer, RegInv, RegTypeOK, Refused
<1>5. ASSUME NEW n \in registers, RegistrarAnswers(n) \/ RegistrarFails(n) \/ LoseRequest(n)
      PROVE  RegInv'
  BY <1>5, RegistrarKeeps
<1>6. CASE UNCHANGED regVars
  BY <1>6 DEF regVars, RegInv, RegTypeOK, Refused
<1> QED BY <1>1, <1>2, <1>3, <1>4, <1>5, <1>6 DEF RegNext

-----------------------------------------------------------------------------
(* Both together, on one socket. *)

Inv == CallInv /\ RegInv

\* The two halves share the loop and no variable, so each keeps its own
\* invariant through the steps of the other.
LEMMA NextKeeps == Inv /\ [Next]_vars => Inv'
<1>1. [Next]_vars => [CallNext]_callVars /\ [RegNext]_regVars
  BY DEF Next, vars
<1> QED BY <1>1, CallKeeps, RegKeeps DEF Inv

\* The inductive invariant holds in every reachable state.
THEOREM Invariance == Spec => []Inv
<1>1. Init => Inv
  BY CallStarts, RegStarts DEF Init, Inv
<1> QED BY <1>1, NextKeeps, PTL DEF Spec

\* Every variable keeps its type: sequence numbers stay below the modulus,
\* and every answer and packet on its way has a sender and a receiver.
THEOREM TypeCorrect == Spec => []TypeOK
<1>1. Inv => TypeOK
  BY DEF Inv, CallInv, RegInv, TypeOK
<1> QED BY <1>1, Invariance, PTL

\* PPP belongs to the session it was started in, and ppp_started says whether
\* it runs, through every order of requests, answers and audio, and whenever the
\* modem loses data mode.
THEOREM PppInStep == Spec => []PppFollowsCall
<1>1. Inv => PppFollowsCall
  BY DEF Inv, CallInv, LineInv
<1> QED BY <1>1, Invariance, PTL

\* While packets come in order, the modem is given as many as were sent,
\* through every loss that is short enough and every wrap of the counter.
THEOREM SampleClock == Spec => []SilenceForLoss
<1>1. Inv => SilenceForLoss
  BY DEF Inv, CallInv, AudioInv
<1> QED BY <1>1, Invariance, PTL

\* No packet and no INVITE moves the audio of a call under way.
THEOREM MediaOfCall == Spec => MediaStays
<1> DEFINE A == callActive /\ callActive' /\ locked /\ session' = session
                  => locked' /\ havePeer' /\ rtpPeer' = rtpPeer
<1>1. ASSUME CallInv, CallNext PROVE A
  <2>1. callActive => havePeer
    BY <1>1 DEF CallInv, LineInv
  <2>2. ASSUME NEW c \in Callers, Calling(c) PROVE A
    BY <1>1, <2>1, <2>2, CallingTypes DEF CallInv, lineVars
  <2>3. ASSUME NEW r \in requests, HandleSip(r) PROVE A
    BY <2>1, <2>3 DEF HandleSip, Busy, NoCommonCodec, Accept, AcceptNotSent, End, lineVars
  <2>4. ASSUME NEW m \in requests \cup answers, Lose(m) PROVE A
    BY <1>1, <2>1, <2>4, LoseTypes DEF CallInv, lineVars
  <2>5. ASSUME NEW a \in answers, HearAnswer(a) PROVE A
    BY <1>1, <2>1, <2>5, HearAnswerTypes DEF CallInv, lineVars
  <2>6. ASSUME NEW p \in audio, RecvRtp(p) \/ SkipRtp(p) PROVE A
    BY <1>1, <2>1, <2>6, TakePeerKeeps DEF CallInv, RecvRtp, SkipRtp
  <2>7. CASE ModemConnects \/ FallBack \/ StartPpp
    BY <2>1, <2>7 DEF ModemConnects, FallBack, StartPpp, mediaVars
  <2> QED BY <1>1, <2>2, <2>3, <2>4, <2>5, <2>6, <2>7 DEF CallNext
<1>2. Inv /\ [Next]_vars => [A]_callVars
  BY <1>1 DEF Inv, Next, vars
<1> QED BY <1>2, Invariance, PTL DEF Spec, MediaStays

\* A registrar that refuses our password is sent credentials once, and again
\* only when the timer asks for it.
THEOREM ChallengesEnd == Spec => NoChallengeLoop
<1> DEFINE A == \A a \in verdicts : ~password /\ authorization # NoNonce /\ HandleResponse(a)
                                      => registers' = registers
<1>1. Inv => A
  <2> SUFFICES ASSUME Inv, NEW a \in verdicts, ~password, authorization # NoNonce,
                      HandleResponse(a)
               PROVE  registers' = registers
    OBVIOUS
  <2>1. authAttempted
    BY DEF Inv, RegInv, Refused
  <2> QED BY <2>1 DEF HandleResponse, HandleOk, HandleChallenge, HandleRejection
<1>2. Inv /\ [Next]_vars => [A]_regVars
  BY <1>1
<1> QED BY <1>2, Invariance, PTL DEF Spec, NoChallengeLoop
=============================================================================
