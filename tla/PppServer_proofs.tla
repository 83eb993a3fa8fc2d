-------------------------- MODULE PppServer_proofs --------------------------
(* Safety of UserPppServer for every identifier width, retry budget, set of *)
(* credentials and repertoire of received frames.                           *)
EXTENDS PppServer, TLAPS

(***************************************************************************)
(* The inductive invariant.  The three invariants are not inductive by     *)
(* themselves: a server revived by a stray LCP frame after Failed reaches  *)
(* Ipcp on old flags, so the flags must already vouch for a stored         *)
(* request; and start() rereads the secrets, so nothing may be queued on   *)
(* the strength of the previous ones.                                      *)
(***************************************************************************)
IInv == /\ TypeOK
        /\ OnlyAuthenticatedTraffic
        /\ NetworkIsNegotiated
        /\ RequestsAnswerable
        /\ phase = "Dead" => ~IpQueued
        /\ lastLcpRequest \in {NoRequest, LcpRequest(lcpId)}
        /\ ourLcpAcked => lastLcpRequest # NoRequest

(* An identifier stays in its width when it is advanced. *)
LEMMA NextIdType == ASSUME NEW i \in Ids PROVE NextId(i) \in Ids
  BY PppConstants DEF NextId, Ids

LEMMA BlankTypes == /\ 0 \in Ids /\ 1 % IdSpace \in Ids
                    /\ 0 \in Nat
                    /\ <<>> \in Seq(Frame)
  BY PppConstants DEF Ids

(* Requests and replies are frames. *)
LEMMA RequestType ==
  ASSUME NEW i \in Ids
  PROVE  LcpRequest(i) \in Frame /\ IpcpRequest(i) \in Frame
  BY DEF LcpRequest, IpcpRequest, Frame, Protos, Codes, Options, LcpOptions, IpcpOptions

LEMMA ReplyType ==
  ASSUME NEW f \in Frame, NEW c \in Codes, NEW o \in SUBSET Options
  PROVE  Reply(f, c, o) \in Frame /\ Reply(f, c, o).proto = f.proto
  BY DEF Reply, Frame

(* Queueing a frame queues IP traffic exactly when the frame carries it. *)
LEMMA AppendHasIp ==
  ASSUME NEW q \in Seq(Frame), NEW g \in Frame
  PROVE  /\ Append(q, g) \in Seq(Frame)
         /\ HasIp(Append(q, g)) <=> HasIp(q) \/ g.proto = "IP"
  BY DEF HasIp

LEMMA EmptyHasNoIp == ~HasIp(<<>>)
  BY DEF HasIp

(* The two senders and the hand-over from LCP keep the types. *)
LEMMA SendLcpType ==
  ASSUME TypeOK, NEW fresh \in BOOLEAN, SendLcpRequest(fresh)
  PROVE  /\ lcpId' \in Ids /\ nextId' \in Ids
         /\ lastLcpRequest' = LcpRequest(lcpId') /\ lastLcpRequest' \in Frame
         /\ lcpRetries' \in Nat /\ lcpDue' \in BOOLEAN
         /\ serialTx' \in Seq(Frame)
         /\ HasIp(serialTx') <=> HasIp(serialTx)
<1>1. lcpId' \in Ids /\ nextId' \in Ids
  BY NextIdType DEF TypeOK, SendLcpRequest
<1>2. LcpRequest(lcpId') \in Frame /\ LcpRequest(lcpId').proto = "LCP"
  BY <1>1, RequestType DEF LcpRequest
<1>3. serialTx' \in Seq(Frame) /\ (HasIp(serialTx') <=> HasIp(serialTx))
  BY <1>2, AppendHasIp DEF TypeOK, SendLcpRequest
<1>4. lcpRetries' \in Nat
  BY DEF TypeOK, SendLcpRequest
<1>5. lastLcpRequest' = LcpRequest(lcpId') /\ lcpDue' \in BOOLEAN
  BY Zenon DEF SendLcpRequest
<1>. QED  BY <1>1, <1>2, <1>3, <1>4, <1>5

LEMMA SendIpcpType ==
  ASSUME TypeOK, NEW q \in Seq(Frame), NEW fresh \in BOOLEAN,
         SendIpcpRequest(q, fresh)
  PROVE  /\ ipcpId' \in Ids /\ nextId' \in Ids
         /\ lastIpcpRequest' = IpcpRequest(ipcpId') /\ lastIpcpRequest' \in Frame
         /\ lastIpcpRequest' # NoRequest
         /\ ipcpRetries' \in Nat /\ ipcpDue' \in BOOLEAN
         /\ serialTx' \in Seq(Frame)
         /\ HasIp(serialTx') <=> HasIp(q)
<1>1. ipcpId' \in Ids /\ nextId' \in Ids
  BY NextIdType DEF TypeOK, SendIpcpRequest
<1>2. IpcpRequest(ipcpId') \in Frame /\ IpcpRequest(ipcpId').proto = "IPCP"
  BY <1>1, RequestType DEF IpcpRequest
<1>3. serialTx' \in Seq(Frame) /\ (HasIp(serialTx') <=> HasIp(q))
  BY <1>2, AppendHasIp DEF SendIpcpRequest
<1>4. lastIpcpRequest' = IpcpRequest(ipcpId') /\ lastIpcpRequest' # NoRequest
  BY <1>2, PppConstants DEF SendIpcpRequest
<1>5. ipcpRetries' \in Nat
  BY DEF TypeOK, SendIpcpRequest
<1>6. ipcpDue' \in BOOLEAN
  BY Zenon DEF SendIpcpRequest
<1>. QED  BY <1>1, <1>2, <1>3, <1>4, <1>5, <1>6

(* What MaybeLcpOpen may do, in the terms of the invariant. *)
LEMMA LcpOpenEffect ==
  ASSUME TypeOK, NEW q \in Seq(Frame), NEW ours \in BOOLEAN, NEW peers \in BOOLEAN,
         MaybeLcpOpen(ours, peers, q)
  PROVE  /\ nextId' \in Ids /\ ipcpId' \in Ids
         /\ lastIpcpRequest' \in Frame \cup {NoRequest}
         /\ ipcpRetries' \in Nat /\ ipcpDue' \in BOOLEAN
         /\ serialTx' \in Seq(Frame)
         /\ HasIp(serialTx') <=> HasIp(q)
         /\ lastIpcpRequest # NoRequest => lastIpcpRequest' # NoRequest
         /\ \/ ~(ours /\ peers) /\ phase' = phase /\ lastIpcpRequest' = lastIpcpRequest
                /\ ipcpId' = ipcpId
            \/ ours /\ peers /\ RequirePap /\ phase' = "Authenticate"
            \/ ours /\ peers /\ ~RequirePap /\ phase' = "Ipcp"
               /\ lastIpcpRequest' = IpcpRequest(ipcpId')
<1>1. CASE ~(ours /\ peers)
  BY <1>1 DEF MaybeLcpOpen, TypeOK, ipcpTx
<1>2. CASE ours /\ peers /\ RequirePap
  BY <1>2 DEF MaybeLcpOpen, TypeOK, ipcpTx
<1>3. CASE ours /\ peers /\ ~RequirePap
  <2>1. phase' = "Ipcp" /\ SendIpcpRequest(q, TRUE)
    BY <1>3 DEF MaybeLcpOpen
  <2>. QED  BY <2>1, <1>3, SendIpcpType
<1>. QED  BY <1>1, <1>2, <1>3, PppConstants

-----------------------------------------------------------------------------
(* The invariant holds initially. *)
LEMMA InitIInv == Init => IInv
<1>. SUFFICES ASSUME Init PROVE IInv
  OBVIOUS
<1>1. TypeOK
  BY BlankTypes DEF Init, Blank, TypeOK, Phases
<1>2. ~IpQueued
  BY EmptyHasNoIp DEF Init, Blank, IpQueued
<1>. QED
  BY <1>1, <1>2 DEF Init, Blank, IInv, OnlyAuthenticatedTraffic,
     NetworkIsNegotiated, RequestsAnswerable

(* One lemma per entry point of the class. *)
LEMMA ResetIInv == ASSUME Reset PROVE IInv'
<1>1. TypeOK'
  BY BlankTypes DEF Reset, TypeOK, Phases
<1>2. ~IpQueued'
  BY EmptyHasNoIp DEF Reset, IpQueued
<1>. QED
  BY <1>1, <1>2 DEF Reset, IInv, OnlyAuthenticatedTraffic,
     NetworkIsNegotiated, RequestsAnswerable

LEMMA StartRefusedIInv == ASSUME IInv, StartRefused PROVE IInv'
<1>1. TypeOK'
  BY DEF IInv, StartRefused, LoadPapUsers, TypeOK, Phases, lcpVars, ipcpVars, ipcpTx
<1>2. ~IpQueued'
  BY DEF IInv, StartRefused, IpQueued
<1>. QED
  BY <1>1, <1>2 DEF StartRefused, IInv, OnlyAuthenticatedTraffic,
     NetworkIsNegotiated, RequestsAnswerable, lcpVars, ipcpVars, ipcpTx

LEMMA StartIInv == ASSUME IInv, Start PROVE IInv'
<1>1. SendLcpRequest(TRUE) /\ TypeOK
  BY DEF Start, IInv
<1>2. TypeOK'
  BY <1>1, SendLcpType DEF Start, LoadPapUsers, TypeOK, Phases, ipcpVars, ipcpTx
<1>3. ~IpQueued'
  BY <1>1, SendLcpType DEF IInv, Start, IpQueued
<1>4. lastLcpRequest' = LcpRequest(lcpId') /\ lastLcpRequest' # NoRequest
  BY <1>1, SendLcpType, PppConstants
<1>. QED
  BY <1>2, <1>3, <1>4 DEF Start, IInv, OnlyAuthenticatedTraffic,
     NetworkIsNegotiated, RequestsAnswerable, ipcpVars, ipcpTx

LEMMA LcpTimerIInv == ASSUME IInv, LcpTimerElapses PROVE IInv'
<1>1. TypeOK'
  BY DEF IInv, LcpTimerElapses, TypeOK, ipcpVars, ipcpTx, authVars
<1>. QED
  BY <1>1 DEF LcpTimerElapses, IInv, OnlyAuthenticatedTraffic, IpQueued,
     NetworkIsNegotiated, RequestsAnswerable, ipcpVars, ipcpTx, authVars

LEMMA IpcpTimerIInv == ASSUME IInv, IpcpTimerElapses PROVE IInv'
<1>1. TypeOK'
  BY DEF IInv, IpcpTimerElapses, TypeOK, lcpVars, authVars
<1>. QED
  BY <1>1 DEF IpcpTimerElapses, IInv, OnlyAuthenticatedTraffic, IpQueued,
     NetworkIsNegotiated, RequestsAnswerable, lcpVars, authVars

LEMMA TickLcpIInv == ASSUME IInv, TickLcp PROVE IInv'
<1>1. CASE phase' = "Failed" /\ UNCHANGED <<lcpVars, nextId, serialTx>>
  <2>1. TypeOK'
    BY <1>1 DEF IInv, TickLcp, TypeOK, Phases, lcpVars, ipcpVars, ipcpTx, authVars
  <2>. QED
    BY <1>1, <2>1 DEF TickLcp, IInv, OnlyAuthenticatedTraffic, IpQueued,
       NetworkIsNegotiated, RequestsAnswerable, lcpVars, ipcpVars, ipcpTx, authVars
<1>2. CASE SendLcpRequest(FALSE) /\ UNCHANGED <<phase, ourLcpAcked, peerLcpAcked>>
  <2>1. /\ lcpId' \in Ids /\ nextId' \in Ids
        /\ lastLcpRequest' = LcpRequest(lcpId') /\ lastLcpRequest' \in Frame
        /\ lcpRetries' \in Nat /\ lcpDue' \in BOOLEAN
        /\ serialTx' \in Seq(Frame)
        /\ HasIp(serialTx') <=> HasIp(serialTx)
    BY <1>2, SendLcpType DEF IInv
  <2>2. TypeOK'
    BY <1>2, <2>1 DEF IInv, TickLcp, TypeOK, ipcpVars, ipcpTx, authVars
  <2>3. lastLcpRequest' # NoRequest
    BY <2>1, PppConstants
  <2>. QED
    BY <1>2, <2>1, <2>2, <2>3 DEF TickLcp, IInv, OnlyAuthenticatedTraffic, IpQueued,
       NetworkIsNegotiated, RequestsAnswerable, ipcpVars, ipcpTx, authVars
<1>. QED  BY <1>1, <1>2 DEF TickLcp

LEMMA TickIpcpIInv == ASSUME IInv, TickIpcp PROVE IInv'
<1>1. CASE phase' = "Failed" /\ UNCHANGED <<ipcpVars, nextId, serialTx>>
  <2>1. TypeOK'
    BY <1>1 DEF IInv, TickIpcp, TypeOK, Phases, lcpVars, ipcpVars, ipcpTx, authVars
  <2>. QED
    BY <1>1, <2>1 DEF TickIpcp, IInv, OnlyAuthenticatedTraffic, IpQueued,
       NetworkIsNegotiated, RequestsAnswerable, lcpVars, ipcpVars, ipcpTx, authVars
<1>2. CASE SendIpcpRequest(serialTx, FALSE)
           /\ UNCHANGED <<phase, ourIpcpAcked, peerIpcpAcked>>
  <2>1. /\ ipcpId' \in Ids /\ nextId' \in Ids
        /\ lastIpcpRequest' = IpcpRequest(ipcpId') /\ lastIpcpRequest' \in Frame
        /\ lastIpcpRequest' # NoRequest
        /\ ipcpRetries' \in Nat /\ ipcpDue' \in BOOLEAN
        /\ serialTx' \in Seq(Frame)
        /\ HasIp(serialTx') <=> HasIp(serialTx)
    BY <1>2, SendIpcpType DEF IInv, TypeOK
  <2>2. TypeOK'
    BY <1>2, <2>1 DEF IInv, TickIpcp, TypeOK, lcpVars, authVars
  <2>. QED
    BY <1>2, <2>1, <2>2 DEF TickIpcp, IInv, OnlyAuthenticatedTraffic, IpQueued,
       NetworkIsNegotiated, RequestsAnswerable, lcpVars, authVars
<1>. QED  BY <1>1, <1>2 DEF TickIpcp

LEMMA FeedIpIInv == ASSUME IInv, FeedIpPacket PROVE IInv'
<1>1. IpFrame \in Frame
  BY BlankTypes DEF IpFrame, Frame, Protos, Codes
<1>2. TypeOK'
  BY <1>1, AppendHasIp DEF IInv, FeedIpPacket, TypeOK, lcpVars, ipcpVars, ipcpTx, authVars
<1>. QED
  BY <1>2 DEF FeedIpPacket, IInv, OnlyAuthenticatedTraffic,
     NetworkIsNegotiated, RequestsAnswerable, lcpVars, ipcpVars, ipcpTx, authVars

LEMMA TakeIInv == ASSUME IInv, TakeSerialTx \/ TakeIpPackets PROVE IInv'
<1>1. TypeOK'
  BY BlankTypes DEF IInv, TakeSerialTx, TakeIpPackets, TypeOK,
     lcpVars, ipcpVars, ipcpTx, authVars
<1>2. IpQueued' => IpQueued
  BY EmptyHasNoIp DEF TakeSerialTx, TakeIpPackets, IpQueued
<1>. QED
  BY <1>1, <1>2 DEF TakeSerialTx, TakeIpPackets, IInv, OnlyAuthenticatedTraffic,
     NetworkIsNegotiated, RequestsAnswerable, lcpVars, ipcpVars, ipcpTx, authVars

-----------------------------------------------------------------------------
(* One lemma per received protocol. *)

\* What every handler of an LCP frame leaves alone.
LcpFrame == UNCHANGED <<ourIpcpAcked, peerIpcpAcked, authVars, ipRx>>

(* Options the handlers send back are options. *)
LEMMA ReplyOptions ==
  ASSUME NEW f \in Frame
  PROVE  /\ f.opts \in SUBSET Options
         /\ LcpRejected(f.opts) \in SUBSET Options
         /\ IpcpRejected(f.opts) \in SUBSET Options
         /\ IpcpNaked(f.opts) \in SUBSET Options
         /\ {"mru"} \in SUBSET Options /\ {"magic"} \in SUBSET Options
         /\ {} \in SUBSET Options
         /\ \A c \in {"ConfRej", "ConfNak", "ConfAck", "TermAck", "EchoReply",
                       "AuthAck", "AuthNak"} : c \in Codes
  BY DEF Frame, Codes, LcpRejected, IpcpRejected, IpcpNaked, Options,
         LcpOptions, IpcpOptions

LEMMA LcpConfReqIInv ==
  ASSUME IInv, NEW f \in Frame, phase # "Dead", f.proto = "LCP", LcpConfReq(f), LcpFrame
  PROVE  IInv'
<1>. DEFINE reply(c, o) == Append(serialTx, Reply(f, c, o))
<1>1. \A c \in {"ConfRej", "ConfNak", "ConfAck"}, o \in SUBSET Options :
        reply(c, o) \in Seq(Frame) /\ (HasIp(reply(c, o)) <=> HasIp(serialTx))
  BY ReplyOptions, ReplyType, AppendHasIp DEF IInv, TypeOK
<1>2. CASE /\ serialTx' = reply("ConfRej", LcpRejected(f.opts))
                \/ serialTx' = reply("ConfNak", {"mru"})
           /\ UNCHANGED <<phase, peerLcpAcked, nextId, ipcpTx>>
  <2>1. serialTx' \in Seq(Frame) /\ (HasIp(serialTx') <=> HasIp(serialTx))
    BY <1>1, <1>2, ReplyOptions
  <2>2. TypeOK'
    BY <1>2, <2>1 DEF IInv, TypeOK, LcpConfReq, LcpFrame, ipcpTx, authVars
  <2>. QED
    BY <1>2, <2>1, <2>2 DEF IInv, LcpConfReq, LcpFrame, OnlyAuthenticatedTraffic,
       IpQueued, NetworkIsNegotiated, RequestsAnswerable, ipcpTx, authVars
<1>3. CASE peerLcpAcked' = TRUE
           /\ MaybeLcpOpen(ourLcpAcked, TRUE, reply("ConfAck", f.opts))
  <2>1. reply("ConfAck", f.opts) \in Seq(Frame)
        /\ (HasIp(reply("ConfAck", f.opts)) <=> HasIp(serialTx))
    BY <1>1, ReplyOptions
  <2>2. /\ nextId' \in Ids /\ ipcpId' \in Ids
        /\ lastIpcpRequest' \in Frame \cup {NoRequest}
        /\ ipcpRetries' \in Nat /\ ipcpDue' \in BOOLEAN
        /\ serialTx' \in Seq(Frame)
        /\ HasIp(serialTx') <=> HasIp(serialTx)
        /\ lastIpcpRequest # NoRequest => lastIpcpRequest' # NoRequest
        /\ \/ ~ourLcpAcked /\ phase' = phase /\ lastIpcpRequest' = lastIpcpRequest
               /\ ipcpId' = ipcpId
           \/ ourLcpAcked /\ RequirePap /\ phase' = "Authenticate"
           \/ ourLcpAcked /\ ~RequirePap /\ phase' = "Ipcp"
              /\ lastIpcpRequest' = IpcpRequest(ipcpId')
    BY <1>3, <2>1, LcpOpenEffect DEF IInv, TypeOK
  <2>3. TypeOK'
    BY <1>3, <2>2 DEF IInv, TypeOK, LcpConfReq, LcpFrame, Phases, authVars
  <2>. QED
    BY <1>3, <2>2, <2>3 DEF IInv, LcpConfReq, LcpFrame, OnlyAuthenticatedTraffic,
       IpQueued, NetworkIsNegotiated, RequestsAnswerable, authVars
<1>. QED  BY <1>2, <1>3 DEF LcpConfReq

LEMMA LcpConfAckIInv ==
  ASSUME IInv, NEW f \in Frame, phase # "Dead", LcpConfAck(f), LcpFrame
  PROVE  IInv'
<1>1. /\ nextId' \in Ids /\ ipcpId' \in Ids
      /\ lastIpcpRequest' \in Frame \cup {NoRequest}
      /\ ipcpRetries' \in Nat /\ ipcpDue' \in BOOLEAN
      /\ serialTx' \in Seq(Frame)
      /\ HasIp(serialTx') <=> HasIp(serialTx)
      /\ lastIpcpRequest # NoRequest => lastIpcpRequest' # NoRequest
      /\ \/ ~peerLcpAcked /\ phase' = phase /\ lastIpcpRequest' = lastIpcpRequest
             /\ ipcpId' = ipcpId
         \/ peerLcpAcked /\ RequirePap /\ phase' = "Authenticate"
         \/ peerLcpAcked /\ ~RequirePap /\ phase' = "Ipcp"
            /\ lastIpcpRequest' = IpcpRequest(ipcpId')
  BY LcpOpenEffect DEF IInv, TypeOK, LcpConfAck
<1>2. TypeOK'
  BY <1>1 DEF IInv, TypeOK, LcpConfAck, LcpFrame, Phases, authVars
<1>. QED
  BY <1>1, <1>2 DEF IInv, LcpConfAck, LcpFrame, OnlyAuthenticatedTraffic,
     IpQueued, NetworkIsNegotiated, RequestsAnswerable, authVars

LEMMA LcpConfNakRejIInv ==
  ASSUME IInv, NEW f \in Frame, phase # "Dead", LcpConfNakRej(f), LcpFrame
  PROVE  IInv'
<1>1. CASE phase' = "Failed" /\ UNCHANGED <<lcpVars, nextId, serialTx>>
  <2>1. TypeOK'
    BY <1>1 DEF IInv, TypeOK, LcpConfNakRej, LcpFrame, Phases, lcpVars, ipcpTx, authVars
  <2>. QED
    BY <1>1, <2>1 DEF LcpConfNakRej, LcpFrame, IInv, OnlyAuthenticatedTraffic, IpQueued,
       NetworkIsNegotiated, RequestsAnswerable, lcpVars, ipcpTx, authVars
<1>2. CASE SendLcpRequest(TRUE) /\ UNCHANGED <<phase, ourLcpAcked, peerLcpAcked>>
  <2>1. /\ lcpId' \in Ids /\ nextId' \in Ids
        /\ lastLcpRequest' = LcpRequest(lcpId') /\ lastLcpRequest' \in Frame
        /\ lcpRetries' \in Nat /\ lcpDue' \in BOOLEAN
        /\ serialTx' \in Seq(Frame)
        /\ HasIp(serialTx') <=> HasIp(serialTx)
    BY <1>2, SendLcpType DEF IInv
  <2>2. TypeOK'
    BY <1>2, <2>1 DEF IInv, TypeOK, LcpConfNakRej, LcpFrame, ipcpTx, authVars
  <2>3. lastLcpRequest' # NoRequest
    BY <2>1, PppConstants
  <2>. QED
    BY <1>2, <2>1, <2>2, <2>3 DEF LcpConfNakRej, LcpFrame, IInv,
       OnlyAuthenticatedTraffic, IpQueued, NetworkIsNegotiated, RequestsAnswerable,
       ipcpTx, authVars
<1>. QED  BY <1>1, <1>2 DEF LcpConfNakRej

LEMMA LcpTermEchoIInv ==
  ASSUME IInv, NEW f \in Frame, phase # "Dead", f.proto = "LCP",
         LcpTermReq(f) \/ LcpEchoReq(f), LcpFrame
  PROVE  IInv'
<1>1. serialTx' \in Seq(Frame) /\ (HasIp(serialTx') <=> HasIp(serialTx))
  <2>1. /\ Reply(f, "TermAck", f.opts) \in Frame
        /\ Reply(f, "TermAck", f.opts).proto # "IP"
        /\ Reply(f, "EchoReply", {"magic"}) \in Frame
        /\ Reply(f, "EchoReply", {"magic"}).proto # "IP"
    BY ReplyOptions, ReplyType
  <2>2. PICK g \in Frame : serialTx' = Append(serialTx, g) /\ g.proto # "IP"
    BY <2>1 DEF LcpTermReq, LcpEchoReq
  <2>. QED
    BY <2>2, AppendHasIp DEF IInv, TypeOK
<1>2. TypeOK'
  BY <1>1 DEF IInv, TypeOK, LcpTermReq, LcpEchoReq, LcpFrame, Phases, lcpVars, ipcpTx, authVars
<1>. QED
  BY <1>1, <1>2 DEF LcpTermReq, LcpEchoReq, LcpFrame, IInv, OnlyAuthenticatedTraffic,
     IpQueued, NetworkIsNegotiated, RequestsAnswerable, lcpVars, ipcpTx, authVars

LEMMA LcpIInv ==
  ASSUME IInv, NEW f \in Frame, phase # "Dead", ProcessLcp(f) PROVE IInv'
<1>1. f.proto = "LCP" /\ LcpFrame
  BY DEF ProcessLcp, LcpFrame
<1>. QED
  BY <1>1, LcpConfReqIInv, LcpConfAckIInv, LcpConfNakRejIInv, LcpTermEchoIInv
     DEF ProcessLcp

LEMMA PapIInv ==
  ASSUME IInv, NEW f \in Frame, phase # "Dead", ProcessPap(f) PROVE IInv'
<1>1. PICK c \in Credentials :
        \/ /\ serialTx' = Append(serialTx, Reply(f, "AuthNak", {}))
           /\ phase' = "Failed"
           /\ UNCHANGED <<papOk, authenticatedUser, nextId, ipcpTx>>
        \/ /\ c \in papUsers
           /\ papOk' = TRUE /\ authenticatedUser' = c /\ phase' = "Ipcp"
           /\ SendIpcpRequest(Append(serialTx, Reply(f, "AuthAck", {})), TRUE)
  BY Zenon DEF ProcessPap
<1>2. \A o \in {"AuthNak", "AuthAck"} :
        /\ Append(serialTx, Reply(f, o, {})) \in Seq(Frame)
        /\ HasIp(Append(serialTx, Reply(f, o, {}))) <=> HasIp(serialTx)
  BY ReplyOptions, ReplyType, AppendHasIp DEF IInv, TypeOK, ProcessPap
<1>3. CASE phase' = "Failed"
  <2>1. serialTx' \in Seq(Frame) /\ (HasIp(serialTx') <=> HasIp(serialTx))
        /\ UNCHANGED <<papOk, authenticatedUser, nextId, ipcpTx>>
    BY <1>1, <1>2, <1>3
  <2>2. TypeOK'
    BY <1>3, <2>1 DEF IInv, TypeOK, ProcessPap, Phases, lcpVars, ipcpTx
  <2>. QED
    BY <1>3, <2>1, <2>2 DEF ProcessPap, IInv, OnlyAuthenticatedTraffic, IpQueued,
       NetworkIsNegotiated, RequestsAnswerable, lcpVars, ipcpTx
<1>4. CASE phase' # "Failed"
  <2>1. /\ c \in papUsers /\ papOk' = TRUE /\ authenticatedUser' = c /\ phase' = "Ipcp"
        /\ SendIpcpRequest(Append(serialTx, Reply(f, "AuthAck", {})), TRUE)
    BY <1>1, <1>4
  <2>2. /\ ipcpId' \in Ids /\ nextId' \in Ids
        /\ lastIpcpRequest' = IpcpRequest(ipcpId') /\ lastIpcpRequest' \in Frame
        /\ lastIpcpRequest' # NoRequest
        /\ ipcpRetries' \in Nat /\ ipcpDue' \in BOOLEAN
        /\ serialTx' \in Seq(Frame)
        /\ HasIp(serialTx') <=> HasIp(serialTx)
    BY <2>1, <1>2, SendIpcpType DEF IInv
  <2>3. TypeOK'
    BY <2>1, <2>2 DEF IInv, TypeOK, ProcessPap, Phases, lcpVars
  <2>. QED
    BY <2>1, <2>2, <2>3 DEF ProcessPap, IInv, OnlyAuthenticatedTraffic, IpQueued,
       NetworkIsNegotiated, RequestsAnswerable, lcpVars
<1>. QED  BY <1>3, <1>4

LEMMA IpcpIInv ==
  ASSUME IInv, NEW f \in Frame, phase # "Dead", ProcessIpcp(f) PROVE IInv'
<1>1. serialTx' = serialTx \/ \E g \in Frame : serialTx' = Append(serialTx, g)
                                             /\ g.proto = "IPCP"
  <2>1. \A c \in {"ConfRej", "ConfNak", "ConfAck", "TermAck"}, o \in SUBSET Options :
          Reply(f, c, o) \in Frame /\ Reply(f, c, o).proto = "IPCP"
    BY ReplyOptions, ReplyType DEF ProcessIpcp
  <2>2. CASE IpcpConfReq(f)
    BY <2>1, <2>2, ReplyOptions DEF IpcpConfReq
  <2>3. CASE IpcpConfAck(f)
    BY <2>3 DEF IpcpConfAck
  <2>4. CASE IpcpConfNakRej(f)
    BY <2>4 DEF IpcpConfNakRej
  <2>5. CASE IpcpTermReq(f)
    BY <2>1, <2>5, ReplyOptions DEF IpcpTermReq
  <2>. QED  BY <2>2, <2>3, <2>4, <2>5 DEF ProcessIpcp
<1>2. serialTx' \in Seq(Frame) /\ (HasIp(serialTx') <=> HasIp(serialTx))
  <2>1. CASE serialTx' = serialTx
    BY <2>1 DEF IInv, TypeOK
  <2>2. ASSUME NEW g \in Frame, serialTx' = Append(serialTx, g), g.proto = "IPCP"
        PROVE  serialTx' \in Seq(Frame) /\ (HasIp(serialTx') <=> HasIp(serialTx))
    <3>1. serialTx \in Seq(Frame) /\ g.proto # "IP"
      BY <2>2 DEF IInv, TypeOK
    <3>. QED  BY <2>2, <3>1, AppendHasIp
  <2>. QED  BY <1>1, <2>1, <2>2
<1>3. /\ ourIpcpAcked' \in BOOLEAN /\ peerIpcpAcked' \in BOOLEAN
      /\ \/ phase' = phase /\ (phase = "Network" => ourIpcpAcked /\ peerIpcpAcked)
                          /\ (ourIpcpAcked => ourIpcpAcked')
                          /\ (peerIpcpAcked => peerIpcpAcked')
         \/ phase' = "Network" /\ ourIpcpAcked' /\ peerIpcpAcked'
         \/ phase' \in {"Failed", "Terminating"}
      /\ ourIpcpAcked' => ourIpcpAcked \/ lastIpcpRequest # NoRequest
  <2>1. CASE IpcpConfReq(f)
    <3>1. CASE peerIpcpAcked' = TRUE /\ MaybeIpcpOpen(ourIpcpAcked, TRUE)
      BY Zenon, <2>1, <3>1 DEF IpcpConfReq, MaybeIpcpOpen, IInv, TypeOK, NetworkIsNegotiated
    <3>2. CASE UNCHANGED <<phase, peerIpcpAcked>>
      BY <2>1, <3>2 DEF IpcpConfReq, IInv, TypeOK, NetworkIsNegotiated
    <3>. QED  BY <2>1, <3>1, <3>2 DEF IpcpConfReq
  <2>2. CASE IpcpConfAck(f)
    BY <2>2 DEF IpcpConfAck, MaybeIpcpOpen, IInv, TypeOK, NetworkIsNegotiated
  <2>3. CASE IpcpConfNakRej(f)
    BY <2>3 DEF IpcpConfNakRej, IInv, TypeOK
  <2>4. CASE IpcpTermReq(f)
    BY <2>4 DEF IpcpTermReq, IInv, TypeOK
  <2>. QED  BY <2>1, <2>2, <2>3, <2>4 DEF ProcessIpcp
<1>4. TypeOK'
  BY <1>2, <1>3 DEF IInv, TypeOK, ProcessIpcp, Phases, lcpVars, ipcpTx, authVars
<1>. QED
  BY <1>2, <1>3, <1>4 DEF ProcessIpcp, IInv, OnlyAuthenticatedTraffic, IpQueued,
     NetworkIsNegotiated, RequestsAnswerable, lcpVars, ipcpTx, authVars

LEMMA IpIInv ==
  ASSUME IInv, NEW f \in Frame, ProcessIp(f) PROVE IInv'
<1>1. TypeOK'
  BY DEF IInv, TypeOK, ProcessIp, lcpVars, ipcpVars, ipcpTx, authVars
<1>. QED
  BY <1>1 DEF ProcessIp, IInv, OnlyAuthenticatedTraffic, NetworkIsNegotiated,
     RequestsAnswerable, lcpVars, ipcpVars, ipcpTx, authVars

LEMMA OtherIInv ==
  ASSUME IInv, NEW f \in Frame, ProcessOther(f) PROVE IInv'
<1>1. ProtocolReject \in Frame /\ ProtocolReject.proto # "IP"
  BY DEF IInv, TypeOK, ProtocolReject, Frame, Protos, Codes
<1>2. serialTx' \in Seq(Frame) /\ (HasIp(serialTx') <=> HasIp(serialTx))
  BY <1>1, AppendHasIp DEF IInv, TypeOK, ProcessOther
<1>3. TypeOK'
  BY <1>2, NextIdType DEF IInv, TypeOK, ProcessOther, lcpVars, ipcpVars, ipcpTx, authVars
<1>. QED
  BY <1>2, <1>3 DEF ProcessOther, IInv, OnlyAuthenticatedTraffic, IpQueued,
     NetworkIsNegotiated, RequestsAnswerable, lcpVars, ipcpVars, ipcpTx, authVars

-----------------------------------------------------------------------------
(* Every step of the server preserves the invariant. *)
LEMMA StepIInv == IInv /\ [Next]_vars => IInv'
<1>. SUFFICES ASSUME IInv, [Next]_vars PROVE IInv'
  OBVIOUS
<1>1. CASE FeedSerial
  <2>1. PICK f \in Frame : phase # "Dead" /\ ProcessFrame(f)
    BY <1>1, PppConstants DEF FeedSerial
  <2>. QED
    BY <2>1, LcpIInv, PapIInv, IpcpIInv, IpIInv, OtherIInv DEF ProcessFrame
<1>2. CASE UNCHANGED vars
  BY <1>2 DEF vars, lcpVars, ipcpVars, ipcpTx, authVars, IInv, TypeOK,
     OnlyAuthenticatedTraffic, IpQueued, NetworkIsNegotiated, RequestsAnswerable
<1>. QED
  BY <1>1, <1>2, ResetIInv, StartIInv, StartRefusedIInv, LcpTimerIInv, IpcpTimerIInv,
     TickLcpIInv, TickIpcpIInv, FeedIpIInv, TakeIInv DEF Next

(* All of the server's invariants hold in every reachable state. *)
THEOREM Invariance == Spec => []IInv
  BY InitIInv, StepIInv, PTL DEF Spec

(* The variables of UserPppServer keep their types. *)
THEOREM TypeCorrect == Spec => []TypeOK
  BY Invariance, PTL DEF IInv

(* No IP traffic without the password, however LCP restarts, failures and  *)
(* terminations are ordered.                                               *)
THEOREM PasswordGate == Spec => []OnlyAuthenticatedTraffic
  BY Invariance, PTL DEF IInv

(* Network only after both sides acknowledged LCP and IPCP. *)
THEOREM NegotiatedNetwork == Spec => []NetworkIsNegotiated
  BY Invariance, PTL DEF IInv

(* The identifier an Ack is compared with is that of the stored request. *)
THEOREM AnswerableRequests == Spec => []RequestsAnswerable
  BY Invariance, PTL DEF IInv

-----------------------------------------------------------------------------
(* The server implements the access policy. *)

\* The stages of PppAccess, by phase.
LEMMA StageOf ==
  /\ phase = "Network" => Stage = "up"
  /\ phase = "Ipcp" => Stage = "admitted"
  /\ phase = "Authenticate" => Stage = "challenge"
  /\ phase \notin {"Network", "Ipcp", "Authenticate"} => Stage = "down"
  BY DEF Stage

LEMMA StageOfNext ==
  /\ phase' = "Network" => Stage' = "up"
  /\ phase' = "Ipcp" => Stage' = "admitted"
  /\ phase' = "Authenticate" => Stage' = "challenge"
  /\ phase' \notin {"Network", "Ipcp", "Authenticate"} => Stage' = "down"
  /\ phase' = phase => Stage' = Stage
  BY DEF Stage

\* No packet is added to either queue.
NoNewIp == IpQueued' => IpQueued
SameUser == UNCHANGED <<papUsers, authenticatedUser>>

(* The phase changes the policy allows, as steps of the policy. *)
LEMMA PolicySteps ==
  /\ NoNewIp /\ SameUser /\ phase' = phase => Access!Next
  /\ NoNewIp /\ SameUser /\ phase' \notin {"Network", "Ipcp", "Authenticate"}
       => Access!Next
  /\ NoNewIp /\ SameUser /\ RequirePap /\ phase' = "Authenticate" => Access!Next
  /\ NoNewIp /\ SameUser /\ ~RequirePap /\ phase' = "Ipcp" => Access!Next
  /\ NoNewIp /\ SameUser /\ phase \in {"Ipcp", "Network"} /\ phase' = "Network"
       => Access!Next
  BY StageOf, StageOfNext DEF NoNewIp, SameUser, Access!Next, Access!Drain, Access!Drop,
     Access!Challenge, Access!Admit, Access!Open, Access!Drained

(* A step that adds only control frames to serial_tx_ adds no IP traffic.   *)
LEMMA ControlOnly ==
  ASSUME IInv, UNCHANGED ipRx, HasIp(serialTx') <=> HasIp(serialTx)
  PROVE  NoNewIp
  BY DEF NoNewIp, IpQueued

LEMMA LcpPolicy ==
  ASSUME IInv, NEW f \in Frame, ProcessLcp(f) PROVE Access!Next
<1>. DEFINE reply(c, o) == Append(serialTx, Reply(f, c, o))
<1>1. /\ \A c \in {"ConfRej", "ConfNak", "ConfAck", "TermAck", "EchoReply"},
            o \in SUBSET Options :
          reply(c, o) \in Seq(Frame) /\ (HasIp(reply(c, o)) <=> HasIp(serialTx))
      /\ SameUser /\ UNCHANGED ipRx
  BY ReplyOptions, ReplyType, AppendHasIp DEF IInv, TypeOK, ProcessLcp, SameUser, authVars
<1>2. ASSUME NEW q \in Seq(Frame), HasIp(q) <=> HasIp(serialTx),
             NEW ours \in BOOLEAN, NEW peers \in BOOLEAN, MaybeLcpOpen(ours, peers, q)
      PROVE  Access!Next
  <2>1. /\ HasIp(serialTx') <=> HasIp(serialTx)
        /\ \/ phase' = phase
           \/ RequirePap /\ phase' = "Authenticate"
           \/ ~RequirePap /\ phase' = "Ipcp"
    BY <1>2, LcpOpenEffect DEF IInv
  <2>. QED  BY <1>1, <2>1, ControlOnly, PolicySteps
<1>3. CASE LcpConfReq(f)
  <2>1. CASE MaybeLcpOpen(ourLcpAcked, TRUE, reply("ConfAck", f.opts))
    BY <1>1, <1>2, <2>1, ReplyOptions DEF IInv, TypeOK
  <2>2. CASE /\ serialTx' = reply("ConfRej", LcpRejected(f.opts))
                  \/ serialTx' = reply("ConfNak", {"mru"})
             /\ UNCHANGED phase
    BY <1>1, <2>2, ReplyOptions, ControlOnly, PolicySteps
  <2>. QED  BY <1>3, <2>1, <2>2 DEF LcpConfReq
<1>4. CASE LcpConfAck(f)
  BY <1>2, <1>4 DEF LcpConfAck, IInv, TypeOK
<1>5. CASE LcpConfNakRej(f)
  <2>1. CASE phase' = "Failed" /\ UNCHANGED serialTx
    BY <1>1, <2>1, ControlOnly, PolicySteps
  <2>2. CASE SendLcpRequest(TRUE) /\ UNCHANGED phase
    BY <1>1, <2>2, SendLcpType, ControlOnly, PolicySteps DEF IInv
  <2>. QED  BY <1>5, <2>1, <2>2 DEF LcpConfNakRej
<1>6. CASE LcpTermReq(f)
  BY <1>1, <1>6, ReplyOptions, ControlOnly, PolicySteps DEF LcpTermReq
<1>7. CASE LcpEchoReq(f)
  BY <1>1, <1>7, ReplyOptions, ControlOnly, PolicySteps DEF LcpEchoReq
<1>. QED  BY <1>3, <1>4, <1>5, <1>6, <1>7 DEF ProcessLcp

LEMMA PapPolicy ==
  ASSUME IInv, NEW f \in Frame, ProcessPap(f) PROVE Access!Next
<1>1. PICK c \in Credentials :
        \/ /\ serialTx' = Append(serialTx, Reply(f, "AuthNak", {}))
           /\ phase' = "Failed"
           /\ UNCHANGED authenticatedUser
        \/ /\ c \in papUsers /\ authenticatedUser' = c /\ phase' = "Ipcp"
           /\ SendIpcpRequest(Append(serialTx, Reply(f, "AuthAck", {})), TRUE)
  BY Zenon DEF ProcessPap
<1>2. /\ \A o \in {"AuthNak", "AuthAck"} :
           /\ Append(serialTx, Reply(f, o, {})) \in Seq(Frame)
           /\ HasIp(Append(serialTx, Reply(f, o, {}))) <=> HasIp(serialTx)
      /\ phase = "Authenticate" /\ UNCHANGED <<papUsers, ipRx>>
  BY ReplyOptions, ReplyType, AppendHasIp DEF IInv, TypeOK, ProcessPap
<1>3. CASE phase' = "Failed"
  BY <1>1, <1>2, <1>3, ControlOnly, PolicySteps DEF SameUser
<1>4. CASE phase' # "Failed"
  <2>1. /\ authenticatedUser' \in papUsers /\ phase' = "Ipcp"
        /\ HasIp(serialTx') <=> HasIp(serialTx)
    BY <1>1, <1>2, <1>4, SendIpcpType DEF IInv
  <2>2. NoNewIp
    BY <1>2, <2>1, ControlOnly
  <2>3. Stage = "challenge" /\ Stage' = "admitted"
    BY <1>2, <2>1, StageOf, StageOfNext
  <2>4. Access!Authenticate
    BY <1>2, <2>1, <2>2, <2>3 DEF Access!Authenticate, Access!Drained, NoNewIp
  <2>. QED  BY <2>4 DEF Access!Next
<1>. QED  BY <1>3, <1>4

LEMMA IpcpPolicy ==
  ASSUME IInv, NEW f \in Frame, ProcessIpcp(f) PROVE Access!Next
<1>1. phase \in {"Ipcp", "Network"} /\ UNCHANGED ipRx /\ SameUser
  BY DEF ProcessIpcp, SameUser, authVars
<1>2. \A c \in {"ConfRej", "ConfNak", "ConfAck", "TermAck"}, o \in SUBSET Options :
        HasIp(Append(serialTx, Reply(f, c, o))) <=> HasIp(serialTx)
  BY ReplyOptions, ReplyType, AppendHasIp DEF IInv, TypeOK, ProcessIpcp
<1>3. CASE IpcpConfReq(f)
  <2>1. HasIp(serialTx') <=> HasIp(serialTx)
    BY <1>2, <1>3, ReplyOptions DEF IpcpConfReq
  <2>2. phase' \in {phase, "Network"}
    BY <1>3 DEF IpcpConfReq, MaybeIpcpOpen
  <2>. QED  BY <1>1, <2>1, <2>2, ControlOnly, PolicySteps
<1>4. CASE IpcpConfAck(f)
  <2>1. phase' \in {phase, "Network"} /\ serialTx' = serialTx
    BY <1>4 DEF IpcpConfAck, MaybeIpcpOpen
  <2>. QED  BY <1>1, <2>1, ControlOnly, PolicySteps
<1>5. CASE IpcpConfNakRej(f)
  BY <1>1, <1>5, ControlOnly, PolicySteps DEF IpcpConfNakRej
<1>6. CASE IpcpTermReq(f)
  BY <1>1, <1>2, <1>6, ReplyOptions, ControlOnly, PolicySteps DEF IpcpTermReq
<1>. QED  BY <1>3, <1>4, <1>5, <1>6 DEF ProcessIpcp

LEMMA IpPolicy ==
  ASSUME IInv, NEW f \in Frame, ProcessIp(f) \/ FeedIpPacket PROVE Access!Next
<1>1. phase = "Network" /\ phase' = "Network" /\ SameUser
  BY DEF ProcessIp, FeedIpPacket, SameUser, authVars
<1>2. IpQueued'
  <2>1. CASE ProcessIp(f)
    BY <2>1 DEF ProcessIp, IpQueued, IInv, TypeOK
  <2>2. CASE FeedIpPacket
    <3>1. IpFrame \in Frame /\ IpFrame.proto = "IP" /\ serialTx \in Seq(Frame)
      BY BlankTypes DEF IpFrame, Frame, Protos, Codes, IInv, TypeOK
    <3>. QED  BY <2>2, <3>1, AppendHasIp DEF FeedIpPacket, IpQueued
  <2>. QED  BY <2>1, <2>2
<1>. QED
  BY <1>1, <1>2, StageOf, StageOfNext DEF Access!Next, Access!Carry, SameUser

LEMMA OtherPolicy ==
  ASSUME IInv, NEW f \in Frame, ProcessOther(f) PROVE Access!Next
<1>1. ProtocolReject \in Frame /\ ProtocolReject.proto # "IP"
  BY DEF IInv, TypeOK, ProtocolReject, Frame, Protos, Codes
<1>2. HasIp(serialTx') <=> HasIp(serialTx)
  BY <1>1, AppendHasIp DEF IInv, TypeOK, ProcessOther
<1>. QED
  BY <1>2, ControlOnly, PolicySteps DEF ProcessOther, SameUser, authVars

LEMMA TickPolicy ==
  ASSUME IInv, TickLcp \/ TickIpcp PROVE Access!Next
<1>1. SameUser /\ UNCHANGED ipRx /\ phase' \in {phase, "Failed"}
  BY DEF TickLcp, TickIpcp, SameUser, authVars
<1>2. HasIp(serialTx') <=> HasIp(serialTx)
  <2>1. CASE UNCHANGED serialTx
    BY <2>1
  <2>2. CASE SendLcpRequest(FALSE)
    BY <2>2, SendLcpType DEF IInv
  <2>3. CASE SendIpcpRequest(serialTx, FALSE)
    BY <2>3, SendIpcpType DEF IInv, TypeOK
  <2>. QED  BY <2>1, <2>2, <2>3 DEF TickLcp, TickIpcp
<1>. QED  BY <1>1, <1>2, ControlOnly, PolicySteps

LEMMA StartPolicy ==
  ASSUME IInv, Start \/ StartRefused PROVE Access!Next
<1>1. /\ phase = "Dead" /\ phase' \in {"Lcp", "Failed"}
      /\ papUsers' \in SUBSET Credentials /\ UNCHANGED <<authenticatedUser, ipRx>>
  BY DEF IInv, TypeOK, Start, StartRefused, LoadPapUsers
<1>2. HasIp(serialTx') <=> HasIp(serialTx)
  BY SendLcpType DEF IInv, Start, StartRefused
<1>3. NoNewIp /\ Stage = "down" /\ Stage' = "down"
  BY <1>1, <1>2, ControlOnly, StageOf, StageOfNext
<1>. QED
  BY <1>1, <1>3 DEF Access!Next, Access!ReadFile, Access!Drained, NoNewIp

LEMMA QuietPolicy ==
  ASSUME IInv, LcpTimerElapses \/ IpcpTimerElapses \/ TakeSerialTx \/ TakeIpPackets
  PROVE  Access!Next
<1>1. phase' = phase /\ SameUser
  BY DEF LcpTimerElapses, IpcpTimerElapses, TakeSerialTx, TakeIpPackets, SameUser, authVars
<1>2. NoNewIp
  BY EmptyHasNoIp DEF LcpTimerElapses, IpcpTimerElapses, TakeSerialTx, TakeIpPackets,
     NoNewIp, IpQueued
<1>. QED  BY <1>1, <1>2, PolicySteps

LEMMA ResetPolicy == ASSUME Reset PROVE Access!Next
<1>1. ~IpQueued'
  BY EmptyHasNoIp DEF Reset, IpQueued
<1>2. Access!Forget
  BY <1>1, StageOfNext DEF Reset, Access!Forget
<1>. QED  BY <1>2 DEF Access!Next

(* UserPppServer implements the access policy: the caller climbs one stage *)
(* at a time, with a listed password on every climb when one is required,  *)
(* and traffic is accepted only at the top.                                *)
THEOREM ImplementsAccess == Spec => AccessPolicy
<1>1. Init => Access!Init
  <2>. SUFFICES ASSUME Init PROVE Access!Init
    OBVIOUS
  <2>1. ~IpQueued
    BY EmptyHasNoIp DEF Init, Blank, IpQueued
  <2>2. Stage = "down"
    BY StageOf DEF Init
  <2>. QED  BY <2>1, <2>2 DEF Init, Blank, Access!Init
<1>2. IInv /\ [Next]_vars => [Access!Next]_(Access!vars)
  <2>. SUFFICES ASSUME IInv, [Next]_vars PROVE [Access!Next]_(Access!vars)
    OBVIOUS
  <2>1. CASE FeedSerial
    <3>1. PICK f \in Frame : ProcessFrame(f)
      BY <2>1, PppConstants DEF FeedSerial
    <3>. QED
      BY <3>1, LcpPolicy, PapPolicy, IpcpPolicy, IpPolicy, OtherPolicy DEF ProcessFrame
  <2>2. CASE FeedIpPacket
    BY <2>2, IpPolicy, RequestType, BlankTypes
  <2>3. CASE UNCHANGED vars
    BY <2>3, StageOfNext DEF vars, lcpVars, ipcpVars, ipcpTx, authVars, Access!vars, IpQueued
  <2>. QED
    BY <2>1, <2>2, <2>3, ResetPolicy, StartPolicy, QuietPolicy, TickPolicy DEF Next
<1>. QED
  BY <1>1, <1>2, Invariance, PTL DEF Spec, Access!Spec, AccessPolicy
=============================================================================
