----------------------------- MODULE PppServer -----------------------------
(***************************************************************************)
(* UserPppServer: the PPP server that runs over the modem's byte stream.   *)
(* One action per entry point of the class (reset, start, tick, one per    *)
(* protocol of feed_serial, feed_ip_packet and the two take_ functions);   *)
(* each performs everything the call does before it returns.               *)
(*                                                                         *)
(* A frame is what feed_serial hands to process_frame once the flags, the  *)
(* escapes and the FCS are dealt with: a record of protocol, code,         *)
(* identifier and the set of options of its body.  A frame the FCS rejects *)
(* changes nothing and is not an input here.                               *)
(***************************************************************************)
EXTENDS Integers, Sequences

CONSTANTS
  RequirePap,   \* cfg_.require_pap
  ConfigValid,  \* the four addresses of the configuration parse
  Credentials,  \* user/password pairs a caller may present
  NoUser,       \* authenticated_user_ while it is empty
  NoRequest,    \* last_lcp_request_ / last_ipcp_request_ while empty
  IdSpace,      \* 256: next_id_ is a uint8_t
  MaxRetries,   \* 10: transmissions before tick gives up
  PeerFrames,   \* the frames the line may deliver
  RetryCap,     \* bound: requests sent before the caller stops feeding
  MaxQueued     \* bound: frames queued before the main loop takes them

\* The option classes the handlers tell apart.
LcpOptions  == {"mru", "mru_bad", "accm", "magic", "pap", "pfc"}
IpcpOptions == {"addr", "addr_bad", "dns", "dns_bad", "vj"}
Malformed   == "malformed"         \* a length that overruns the body
Options     == LcpOptions \cup IpcpOptions \cup {Malformed} \cup Credentials

Ids    == 0 .. IdSpace - 1
Protos == {"LCP", "PAP", "IPCP", "IP", "other"}
Codes  == {"ConfReq", "ConfAck", "ConfNak", "ConfRej", "TermReq", "TermAck",
           "EchoReq", "EchoReply", "ProtRej", "AuthReq", "AuthAck", "AuthNak",
           "Data"}
Frame  == [proto: Protos, code: Codes, id: Ids, opts: SUBSET Options]

ASSUME PppConstants ==
  /\ RequirePap \in BOOLEAN /\ ConfigValid \in BOOLEAN
  /\ NoUser \notin Credentials
  /\ NoRequest \notin Frame
  /\ IdSpace \in Nat \ {0}
  /\ MaxRetries \in Nat \ {0} /\ RetryCap \in Nat /\ MaxQueued \in Nat
  /\ PeerFrames \subseteq Frame

VARIABLES
  phase,
  ourLcpAcked, peerLcpAcked, lcpId, lastLcpRequest, lcpRetries,
  lcpDue,       \* 3000 ms have passed since last_lcp_tx_ms_
  ourIpcpAcked, peerIpcpAcked, ipcpId, lastIpcpRequest, ipcpRetries,
  ipcpDue,      \* 3000 ms have passed since last_ipcp_tx_ms_
  nextId,
  papUsers,     \* pap_users_: the credentials the secrets file lists
  papOk, authenticatedUser,
  serialTx,     \* serial_tx_, as the frames it was filled with
  ipRx          \* ip_rx_: number of packets for the Internet

lcpVars  == <<ourLcpAcked, peerLcpAcked, lcpId, lastLcpRequest, lcpRetries, lcpDue>>
ipcpTx   == <<ipcpId, lastIpcpRequest, ipcpRetries, ipcpDue>>
ipcpVars == <<ourIpcpAcked, peerIpcpAcked, ipcpTx>>
authVars == <<papUsers, papOk, authenticatedUser>>
vars == <<phase, lcpVars, ipcpVars, nextId, authVars, serialTx, ipRx>>

Phases == {"Dead", "Lcp", "Authenticate", "Ipcp", "Network", "Terminating", "Failed"}

TypeOK ==
  /\ phase \in Phases
  /\ ourLcpAcked \in BOOLEAN /\ peerLcpAcked \in BOOLEAN
  /\ ourIpcpAcked \in BOOLEAN /\ peerIpcpAcked \in BOOLEAN
  /\ lcpId \in Ids /\ ipcpId \in Ids /\ nextId \in Ids
  /\ lastLcpRequest \in Frame \cup {NoRequest}
  /\ lastIpcpRequest \in Frame \cup {NoRequest}
  /\ lcpRetries \in Nat /\ ipcpRetries \in Nat
  /\ lcpDue \in BOOLEAN /\ ipcpDue \in BOOLEAN
  /\ papUsers \subseteq Credentials
  /\ papOk \in BOOLEAN /\ authenticatedUser \in Credentials \cup {NoUser}
  /\ serialTx \in Seq(Frame)
  /\ ipRx \in Nat

Blank ==
  /\ ourLcpAcked = FALSE /\ peerLcpAcked = FALSE
  /\ lcpId = 0 /\ lastLcpRequest = NoRequest /\ lcpRetries = 0 /\ lcpDue = TRUE
  /\ ourIpcpAcked = FALSE /\ peerIpcpAcked = FALSE
  /\ ipcpId = 0 /\ lastIpcpRequest = NoRequest /\ ipcpRetries = 0 /\ ipcpDue = TRUE
  /\ nextId = 1 % IdSpace
  /\ papUsers = {} /\ papOk = FALSE /\ authenticatedUser = NoUser
  /\ serialTx = <<>> /\ ipRx = 0

\* The constructor: a bad address leaves the server Failed before any call.
Init == /\ phase = IF ConfigValid THEN "Dead" ELSE "Failed"
        /\ Blank

-----------------------------------------------------------------------------
(* Frames the server sends. *)

\* Mutant: the identifier is kept in an int.
NextIdUnwrapped(i) == i + 1
NextId(i) == (i + 1) % IdSpace

LcpRequest(i) == [proto |-> "LCP", code |-> "ConfReq", id |-> i,
                  opts |-> {"mru", "accm", "magic"} \cup
                           (IF RequirePap THEN {"pap"} ELSE {})]
IpcpRequest(i) == [proto |-> "IPCP", code |-> "ConfReq", id |-> i, opts |-> {"addr"}]
Reply(f, code, opts) == [f EXCEPT !.code = code, !.opts = opts]
ProtocolReject == [proto |-> "LCP", code |-> "ProtRej", id |-> nextId, opts |-> {}]
IpFrame == [proto |-> "IP", code |-> "Data", id |-> 0, opts |-> {}]

\* Mutants: the request is remembered under the previous identifier; the
\* transmission is not counted.
SendLcpRequestStale(fresh) ==
  /\ lcpId' = IF fresh THEN nextId ELSE lcpId
  /\ nextId' = IF fresh THEN NextId(nextId) ELSE nextId
  /\ lastLcpRequest' = LcpRequest(lcpId)
  /\ serialTx' = Append(serialTx, LcpRequest(lcpId'))
  /\ lcpDue' = FALSE /\ lcpRetries' = lcpRetries + 1
SendLcpRequestUncounted(fresh) ==
  /\ lcpId' = IF fresh THEN nextId ELSE lcpId
  /\ nextId' = IF fresh THEN NextId(nextId) ELSE nextId
  /\ lastLcpRequest' = LcpRequest(lcpId')
  /\ serialTx' = Append(serialTx, lastLcpRequest')
  /\ lcpDue' = FALSE /\ UNCHANGED lcpRetries

(* send_lcp_request and send_ipcp_request; queue is what the same call has *)
(* put in serial_tx_ before.                                               *)
SendLcpRequest(fresh) ==
  /\ lcpId' = IF fresh THEN nextId ELSE lcpId
  /\ nextId' = IF fresh THEN NextId(nextId) ELSE nextId
  /\ lastLcpRequest' = LcpRequest(lcpId')
  /\ serialTx' = Append(serialTx, LcpRequest(lcpId'))
  /\ lcpDue' = FALSE
  /\ lcpRetries' = lcpRetries + 1

SendIpcpRequest(queue, fresh) ==
  /\ ipcpId' = IF fresh THEN nextId ELSE ipcpId
  /\ nextId' = IF fresh THEN NextId(nextId) ELSE nextId
  /\ lastIpcpRequest' = IpcpRequest(ipcpId')
  /\ serialTx' = Append(queue, IpcpRequest(ipcpId'))
  /\ ipcpDue' = FALSE
  /\ ipcpRetries' = ipcpRetries + 1

\* Mutant: a caller who renegotiates keeps the password check of before.
MaybeLcpOpenTrusting(ours, peers, queue) ==
  IF ~(ours /\ peers)
  THEN serialTx' = queue /\ UNCHANGED <<phase, nextId, ipcpTx>>
  ELSE IF RequirePap /\ ~papOk
  THEN phase' = "Authenticate" /\ serialTx' = queue /\ UNCHANGED <<nextId, ipcpTx>>
  ELSE phase' = "Ipcp" /\ SendIpcpRequest(queue, TRUE)
\* Both sides agreed on the link: ask for the password or start IPCP.
MaybeLcpOpen(ours, peers, queue) ==
  \/ /\ ~(ours /\ peers)
     /\ serialTx' = queue
     /\ UNCHANGED <<phase, nextId, ipcpTx>>
  \/ /\ ours /\ peers /\ RequirePap
     /\ phase' = "Authenticate"
     /\ serialTx' = queue
     /\ UNCHANGED <<nextId, ipcpTx>>
  \/ /\ ours /\ peers /\ ~RequirePap
     /\ phase' = "Ipcp"
     /\ SendIpcpRequest(queue, TRUE)

\* Mutant: our half of IPCP is enough.
MaybeIpcpOpenHalf(ours, peers) == phase' = IF ours THEN "Network" ELSE phase
MaybeIpcpOpen(ours, peers) ==
  phase' = IF ours /\ peers THEN "Network" ELSE phase

-----------------------------------------------------------------------------
(* Entry points other than feed_serial. *)

\* Mutant: the queues of the previous call survive.
ResetKeepsQueues ==
  /\ phase' = "Dead"
  /\ ourLcpAcked' = FALSE /\ peerLcpAcked' = FALSE
  /\ lcpId' = 0 /\ lastLcpRequest' = NoRequest /\ lcpRetries' = 0 /\ lcpDue' = TRUE
  /\ ourIpcpAcked' = FALSE /\ peerIpcpAcked' = FALSE
  /\ ipcpId' = 0 /\ lastIpcpRequest' = NoRequest /\ ipcpRetries' = 0 /\ ipcpDue' = TRUE
  /\ nextId' = 1 % IdSpace
  /\ papUsers' = {} /\ papOk' = FALSE /\ authenticatedUser' = NoUser
  /\ UNCHANGED <<serialTx, ipRx>>
Reset ==
  /\ phase' = "Dead"
  /\ ourLcpAcked' = FALSE /\ peerLcpAcked' = FALSE
  /\ lcpId' = 0 /\ lastLcpRequest' = NoRequest /\ lcpRetries' = 0 /\ lcpDue' = TRUE
  /\ ourIpcpAcked' = FALSE /\ peerIpcpAcked' = FALSE
  /\ ipcpId' = 0 /\ lastIpcpRequest' = NoRequest /\ ipcpRetries' = 0 /\ ipcpDue' = TRUE
  /\ nextId' = 1 % IdSpace
  /\ papUsers' = {} /\ papOk' = FALSE /\ authenticatedUser' = NoUser
  /\ serialTx' = <<>> /\ ipRx' = 0

\* load_pap_users: whatever valid lines the file has now; none is an error.
LoadPapUsers == papUsers' \in SUBSET Credentials

\* start(); every main loop calls it once after reset(), so in Dead.
StartRefused ==
  /\ phase = "Dead" /\ RequirePap
  /\ LoadPapUsers /\ papUsers' = {}
  /\ phase' = "Failed"
  /\ UNCHANGED <<lcpVars, ipcpVars, nextId, papOk, authenticatedUser, serialTx, ipRx>>

Start ==
  /\ phase = "Dead"
  /\ IF RequirePap THEN LoadPapUsers /\ papUsers' # {} ELSE UNCHANGED papUsers
  /\ phase' = "Lcp"
  /\ SendLcpRequest(TRUE)
  /\ UNCHANGED <<ourLcpAcked, peerLcpAcked, ipcpVars, papOk, authenticatedUser, ipRx>>

\* The clock passes last_lcp_tx_ms_ + 3000 or last_ipcp_tx_ms_ + 3000.
LcpTimerElapses ==
  /\ ~lcpDue /\ lcpDue' = TRUE
  /\ UNCHANGED <<phase, ourLcpAcked, peerLcpAcked, lcpId, lastLcpRequest, lcpRetries,
                 ipcpVars, nextId, authVars, serialTx, ipRx>>
IpcpTimerElapses ==
  /\ ~ipcpDue /\ ipcpDue' = TRUE
  /\ UNCHANGED <<phase, lcpVars, ourIpcpAcked, peerIpcpAcked, ipcpId, lastIpcpRequest,
                 ipcpRetries, nextId, authVars, serialTx, ipRx>>

TickLcp ==
  /\ phase = "Lcp" /\ ~ourLcpAcked /\ lcpDue
  /\ \/ /\ lcpRetries >= MaxRetries
        /\ phase' = "Failed"
        /\ UNCHANGED <<lcpVars, nextId, serialTx>>
     \/ /\ lcpRetries < MaxRetries
        /\ SendLcpRequest(FALSE)
        /\ UNCHANGED <<phase, ourLcpAcked, peerLcpAcked>>
  /\ UNCHANGED <<ipcpVars, authVars, ipRx>>

\* Mutant: no repetition once the peer's own request is acknowledged.
TickIpcpHalf ==
  /\ phase = "Ipcp" /\ ~ourIpcpAcked /\ ~peerIpcpAcked /\ ipcpDue
  /\ IF ipcpRetries >= MaxRetries
     THEN phase' = "Failed" /\ UNCHANGED <<ipcpVars, nextId, serialTx>>
     ELSE SendIpcpRequest(serialTx, FALSE) /\ UNCHANGED <<phase, ourIpcpAcked, peerIpcpAcked>>
  /\ UNCHANGED <<lcpVars, authVars, ipRx>>
TickIpcp ==
  /\ phase = "Ipcp" /\ ~ourIpcpAcked /\ ipcpDue
  /\ \/ /\ ipcpRetries >= MaxRetries
        /\ phase' = "Failed"
        /\ UNCHANGED <<ipcpVars, nextId, serialTx>>
     \/ /\ ipcpRetries < MaxRetries
        /\ SendIpcpRequest(serialTx, FALSE)
        /\ UNCHANGED <<phase, ourIpcpAcked, peerIpcpAcked>>
  /\ UNCHANGED <<lcpVars, authVars, ipRx>>

\* feed_ip_packet (fragments of one packet count as one frame).
FeedIpPacket ==
  /\ phase = "Network"
  /\ Len(serialTx) < MaxQueued
  /\ serialTx' = Append(serialTx, IpFrame)
  /\ UNCHANGED <<phase, lcpVars, ipcpVars, nextId, authVars, ipRx>>

TakeSerialTx ==
  /\ serialTx # <<>> /\ serialTx' = <<>>
  /\ UNCHANGED <<phase, lcpVars, ipcpVars, nextId, authVars, ipRx>>

TakeIpPackets ==
  /\ ipRx > 0 /\ ipRx' = 0
  /\ UNCHANGED <<phase, lcpVars, ipcpVars, nextId, authVars, serialTx>>

-----------------------------------------------------------------------------
(* feed_serial: one received frame. *)

LcpRejected(opts) == opts \ {"mru", "mru_bad", "accm", "magic"}

LcpConfReq(f) ==
  /\ f.code = "ConfReq" /\ Malformed \notin f.opts
  /\ \/ /\ LcpRejected(f.opts) # {}
        /\ serialTx' = Append(serialTx, Reply(f, "ConfRej", LcpRejected(f.opts)))
        /\ UNCHANGED <<phase, peerLcpAcked, nextId, ipcpTx>>
     \/ /\ LcpRejected(f.opts) = {} /\ "mru_bad" \in f.opts
        /\ serialTx' = Append(serialTx, Reply(f, "ConfNak", {"mru"}))
        /\ UNCHANGED <<phase, peerLcpAcked, nextId, ipcpTx>>
     \/ /\ LcpRejected(f.opts) = {} /\ "mru_bad" \notin f.opts
        /\ peerLcpAcked' = TRUE
        /\ MaybeLcpOpen(ourLcpAcked, TRUE,
                        Append(serialTx, Reply(f, "ConfAck", f.opts)))
  /\ UNCHANGED <<ourLcpAcked, lcpId, lastLcpRequest, lcpRetries, lcpDue>>

LcpConfAck(f) ==
  /\ f.code = "ConfAck" /\ f.id = lcpId
  /\ lastLcpRequest # NoRequest
  /\ f = Reply(lastLcpRequest, "ConfAck", lastLcpRequest.opts)
  /\ ourLcpAcked' = TRUE
  /\ MaybeLcpOpen(TRUE, peerLcpAcked, serialTx)
  /\ UNCHANGED <<peerLcpAcked, lcpId, lastLcpRequest, lcpRetries, lcpDue>>

LcpConfNakRej(f) ==
  /\ f.code \in {"ConfNak", "ConfRej"} /\ f.id = lcpId
  /\ \/ /\ RequirePap /\ "pap" \in f.opts
        /\ phase' = "Failed"
        /\ UNCHANGED <<lcpVars, nextId, serialTx>>
     \/ /\ ~(RequirePap /\ "pap" \in f.opts)
        /\ SendLcpRequest(TRUE)
        /\ UNCHANGED <<phase, ourLcpAcked, peerLcpAcked>>
  /\ UNCHANGED ipcpTx

LcpTermReq(f) ==
  /\ f.code = "TermReq"
  /\ serialTx' = Append(serialTx, Reply(f, "TermAck", f.opts))
  /\ phase' = "Terminating"
  /\ UNCHANGED <<lcpVars, nextId, ipcpTx>>

LcpEchoReq(f) ==
  /\ f.code = "EchoReq"
  /\ serialTx' = Append(serialTx, Reply(f, "EchoReply", {"magic"}))
  /\ UNCHANGED <<phase, lcpVars, nextId, ipcpTx>>

ProcessLcp(f) ==
  /\ f.proto = "LCP"
  /\ \/ LcpConfReq(f) \/ LcpConfAck(f) \/ LcpConfNakRej(f)
     \/ LcpTermReq(f) \/ LcpEchoReq(f)
  /\ UNCHANGED <<ourIpcpAcked, peerIpcpAcked, authVars, ipRx>>

\* Mutant: a wrong password leaves the server waiting for another.
ProcessPapPatient(f) ==
  /\ f.proto = "PAP" /\ f.code = "AuthReq" /\ phase = "Authenticate"
  /\ \E c \in Credentials :
       /\ f.opts = {c}
       /\ IF c \notin papUsers
          THEN /\ serialTx' = Append(serialTx, Reply(f, "AuthNak", {}))
               /\ UNCHANGED <<phase, papOk, authenticatedUser, nextId, ipcpTx>>
          ELSE /\ papOk' = TRUE /\ authenticatedUser' = c /\ phase' = "Ipcp"
               /\ SendIpcpRequest(Append(serialTx, Reply(f, "AuthAck", {})), TRUE)
  /\ UNCHANGED <<lcpVars, ourIpcpAcked, peerIpcpAcked, papUsers, ipRx>>
ProcessPap(f) ==
  /\ f.proto = "PAP" /\ f.code = "AuthReq"
  /\ phase = "Authenticate"
  /\ \E c \in Credentials :
       /\ f.opts = {c}
       /\ \/ /\ c \notin papUsers
             /\ serialTx' = Append(serialTx, Reply(f, "AuthNak", {}))
             /\ phase' = "Failed"
             /\ UNCHANGED <<papOk, authenticatedUser, nextId, ipcpTx>>
          \/ /\ c \in papUsers
             /\ papOk' = TRUE
             /\ authenticatedUser' = c
             /\ phase' = "Ipcp"
             /\ SendIpcpRequest(Append(serialTx, Reply(f, "AuthAck", {})), TRUE)
  /\ UNCHANGED <<lcpVars, ourIpcpAcked, peerIpcpAcked, papUsers, ipRx>>

IpcpRejected(opts) == opts \ {"addr", "addr_bad", "dns", "dns_bad"}
\* Mutant: whatever address the peer asks for is granted.
IpcpNakedDnsOnly(opts) == IF "dns_bad" \in opts THEN {"dns"} ELSE {}
IpcpNaked(opts) ==
  (IF "addr_bad" \in opts \/ "addr" \notin opts THEN {"addr"} ELSE {}) \cup
  (IF "dns_bad" \in opts THEN {"dns"} ELSE {})

IpcpConfReq(f) ==
  /\ f.code = "ConfReq" /\ Malformed \notin f.opts
  /\ \/ /\ IpcpRejected(f.opts) # {}
        /\ serialTx' = Append(serialTx, Reply(f, "ConfRej", IpcpRejected(f.opts)))
        /\ UNCHANGED <<phase, peerIpcpAcked>>
     \/ /\ IpcpRejected(f.opts) = {} /\ IpcpNaked(f.opts) # {}
        /\ serialTx' = Append(serialTx, Reply(f, "ConfNak", IpcpNaked(f.opts)))
        /\ UNCHANGED <<phase, peerIpcpAcked>>
     \/ /\ IpcpRejected(f.opts) = {} /\ IpcpNaked(f.opts) = {}
        /\ serialTx' = Append(serialTx, Reply(f, "ConfAck", f.opts))
        /\ peerIpcpAcked' = TRUE
        /\ MaybeIpcpOpen(ourIpcpAcked, TRUE)
  /\ UNCHANGED ourIpcpAcked

IpcpConfAck(f) ==
  /\ f.code = "ConfAck" /\ f.id = ipcpId
  /\ lastIpcpRequest # NoRequest
  /\ f = Reply(lastIpcpRequest, "ConfAck", lastIpcpRequest.opts)
  /\ ourIpcpAcked' = TRUE
  /\ MaybeIpcpOpen(TRUE, peerIpcpAcked)
  /\ UNCHANGED <<peerIpcpAcked, serialTx>>

IpcpConfNakRej(f) ==
  /\ f.code \in {"ConfNak", "ConfRej"} /\ f.id = ipcpId
  /\ phase' = "Failed"
  /\ UNCHANGED <<ourIpcpAcked, peerIpcpAcked, serialTx>>

IpcpTermReq(f) ==
  /\ f.code = "TermReq"
  /\ serialTx' = Append(serialTx, Reply(f, "TermAck", f.opts))
  /\ phase' = "Terminating"
  /\ UNCHANGED <<ourIpcpAcked, peerIpcpAcked>>

ProcessIpcp(f) ==
  /\ f.proto = "IPCP"
  /\ phase \in {"Ipcp", "Network"}
  /\ \/ IpcpConfReq(f) \/ IpcpConfAck(f) \/ IpcpConfNakRej(f) \/ IpcpTermReq(f)
  /\ UNCHANGED <<lcpVars, ipcpTx, nextId, authVars, ipRx>>

ProcessIp(f) ==
  /\ f.proto = "IP"
  /\ phase = "Network"
  /\ ipRx < MaxQueued
  /\ ipRx' = ipRx + 1
  /\ UNCHANGED <<phase, lcpVars, ipcpVars, nextId, authVars, serialTx>>

ProcessOther(f) ==
  /\ f.proto = "other"
  /\ phase \notin {"Dead", "Failed"}
  /\ serialTx' = Append(serialTx, ProtocolReject)
  /\ nextId' = NextId(nextId)
  /\ UNCHANGED <<phase, lcpVars, ipcpVars, authVars, ipRx>>

ProcessFrame(f) ==
  \/ ProcessLcp(f) \/ ProcessPap(f) \/ ProcessIpcp(f)
  \/ ProcessIp(f) \/ ProcessOther(f)

\* The main loops feed bytes only after start(), so never in Dead.
FeedSerial ==
  /\ phase # "Dead"
  /\ Len(serialTx) < MaxQueued
  /\ lcpRetries < RetryCap /\ ipcpRetries < RetryCap
  /\ \E f \in PeerFrames : ProcessFrame(f)

-----------------------------------------------------------------------------
Next == \/ Reset \/ Start \/ StartRefused
        \/ LcpTimerElapses \/ IpcpTimerElapses \/ TickLcp \/ TickIpcp
        \/ FeedSerial \/ FeedIpPacket \/ TakeSerialTx \/ TakeIpPackets

Spec == Init /\ [][Next]_vars
-----------------------------------------------------------------------------
(* Safety. *)

(* IP traffic in either direction, and the phases that lead to it, belong  *)
(* to a caller whose password was checked, whenever one is required: no    *)
(* order of LCP restarts, stale flags, failures and terminations gets      *)
(* around process_pap.                                                     *)
HasIp(queue) == \E i \in 1 .. Len(queue) : queue[i].proto = "IP"
IpQueued == ipRx > 0 \/ HasIp(serialTx)

OnlyAuthenticatedTraffic ==
  RequirePap /\ (phase \in {"Ipcp", "Network"} \/ IpQueued)
    => papOk /\ authenticatedUser \in papUsers

(* The network phase is never entered on half a negotiation: both sides    *)
(* acknowledged LCP and both acknowledged IPCP at some time of this call,  *)
(* although LCP may since have been renegotiated.                          *)
NetworkIsNegotiated ==
  /\ phase \in {"Authenticate", "Ipcp", "Network"} => ourLcpAcked /\ peerLcpAcked
  /\ phase = "Network" => ourIpcpAcked /\ peerIpcpAcked

(* What the server is waiting for can still be answered: the identifier    *)
(* process_lcp and process_ipcp compare an Ack with is the identifier of   *)
(* the request they then compare its bytes with.                           *)
RequestsAnswerable ==
  /\ phase \in {"Lcp", "Authenticate", "Ipcp", "Network"}
       => lastLcpRequest = LcpRequest(lcpId)
  /\ phase \in {"Ipcp", "Network"} => lastIpcpRequest = IpcpRequest(ipcpId)
  /\ ourIpcpAcked => lastIpcpRequest # NoRequest

(* The server implements the access policy of PppAccess. *)
Stage == CASE phase = "Network"      -> "up"
           [] phase = "Ipcp"         -> "admitted"
           [] phase = "Authenticate" -> "challenge"
           [] OTHER                  -> "down"

Access == INSTANCE PppAccess WITH stage <- Stage, allowed <- papUsers,
                                  user <- authenticatedUser, traffic <- IpQueued
AccessPolicy == Access!Spec
=============================================================================
