------------------------------ MODULE PppLink ------------------------------
(***************************************************************************)
(* The PPP server, the caller's PPP client and the modem line between      *)
(* them.  The line is two byte streams: frames arrive in order or, when    *)
(* noise hits them, fail their FCS and do not arrive at all.  The client   *)
(* is external (Windows dial-up networking, RFC 1661): it is modelled as   *)
(* the code expects it, first asking for more than the server grants.      *)
(***************************************************************************)
EXTENDS PppServer

CONSTANTS
  SecretsFile,  \* the credentials the operator's file lists
  MaxLost,      \* bound: frames the line corrupts
  MaxEarly,     \* bound: timers that run out while an answer is on its way
  MaxQuiet,     \* the client repeats itself within so many server timers
  MaxRestarts,  \* bound: times the client restarts LCP by itself
  MayVanish,    \* the client may stop answering for good
  LineCap       \* bound: frames in flight towards the client

\* Identifiers are bytes; those of four requests in a row differ.
ASSUME IdentifiersDiffer == IdSpace > 3

VARIABLES up, down,   \* frames in flight, towards the server and the client
          client,
          lost, early, restarts,
          papLost,    \* an answer to a password was among the lost frames
          quiet       \* server timers since the client last repeated itself

lineVars == <<up, down, lost, papLost, early, restarts, quiet>>
linkVars == <<vars, lineVars, client>>

\* phase: the client's; id, ask: its outstanding request; pap: the server wants
\* a password; ours, theirs: which of the two requests of the current protocol
\* have been acknowledged.
Client == [phase: {"Lcp", "Auth", "Ipcp", "Up", "Gone", "Vanished"}, id: Ids,
           ask: SUBSET Options, pap: BOOLEAN, ours: BOOLEAN, theirs: BOOLEAN,
           password: Credentials]

LinkTypeOK ==
  /\ TypeOK
  /\ up \in Seq(Frame) /\ down \in Seq(Frame)
  /\ client \in Client
  /\ lost \in 0 .. MaxLost /\ papLost \in BOOLEAN /\ early \in 0 .. MaxEarly
  /\ restarts \in 0 .. MaxRestarts /\ quiet \in 0 .. MaxQuiet

LinkInit ==
  /\ Init
  /\ up = <<>> /\ down = <<>>
  /\ \E c \in Credentials :
       client = [phase |-> "Lcp", id |-> IdSpace - 1, ask |-> {"accm", "magic", "pfc"},
                 pap |-> FALSE, ours |-> FALSE, theirs |-> FALSE, password |-> c]
  /\ lost = 0 /\ papLost = FALSE /\ early = 0 /\ restarts = 0 /\ quiet = 0

-----------------------------------------------------------------------------
(* The server's side: the main loop feeds received bytes, calls tick and   *)
(* hands serial_tx_ to the modem.                                          *)

StartServer == /\ Start
               /\ RequirePap => papUsers' = SecretsFile
               /\ UNCHANGED <<lineVars, client>>

ServerReceives ==
  /\ phase # "Dead"
  /\ up # <<>> /\ up' = Tail(up)
  /\ \/ ProcessFrame(Head(up))
     \/ ~ENABLED ProcessFrame(Head(up)) /\ UNCHANGED vars
  /\ UNCHANGED <<down, client, lost, papLost, early, restarts, quiet>>

Transmit ==
  /\ TakeSerialTx
  /\ Len(down) < LineCap
  /\ down' = down \o serialTx
  /\ UNCHANGED <<up, client, lost, papLost, early, restarts, quiet>>

LineIdle == up = <<>> /\ down = <<>> /\ serialTx = <<>>

\* An answer takes less than the 3 s timer, except MaxEarly times.
Timely == IF LineIdle THEN UNCHANGED early
                      ELSE early < MaxEarly /\ early' = early + 1

Waiting == client.phase \in {"Lcp", "Auth", "Ipcp"} /\ ~client.ours

Timeout ==
  /\ \/ phase = "Lcp" /\ LcpTimerElapses
     \/ phase = "Ipcp" /\ IpcpTimerElapses
  /\ Timely
  /\ IF Waiting THEN quiet < MaxQuiet /\ quiet' = quiet + 1 ELSE UNCHANGED quiet
  /\ UNCHANGED <<up, down, client, lost, papLost, restarts>>

Tick == /\ TickLcp \/ TickIpcp
        /\ UNCHANGED <<lineVars, client>>

-----------------------------------------------------------------------------
(* The line. *)

Corrupt ==
  /\ lost < MaxLost /\ lost' = lost + 1
  /\ \/ up # <<>> /\ up' = Tail(up) /\ UNCHANGED down
        /\ UNCHANGED papLost
     \/ down # <<>> /\ down' = Tail(down) /\ UNCHANGED up
        /\ papLost' = (papLost \/ Head(down).proto = "PAP")
  /\ UNCHANGED <<vars, client, early, restarts, quiet>>

-----------------------------------------------------------------------------
(* The client. *)

Ask(proto, c) == [proto |-> proto, opts |-> c.ask, id |-> c.id,
                  code |-> IF proto = "PAP" THEN "AuthReq" ELSE "ConfReq"]
Proto(c) == CASE c.phase = "Lcp" -> "LCP" [] c.phase = "Auth" -> "PAP" [] OTHER -> "IPCP"
Request(c) == Ask(Proto(c), c)

NewAsk(c, p, ask) == [c EXCEPT !.phase = p, !.id = NextId(c.id), !.ask = ask,
                               !.ours = FALSE, !.theirs = FALSE]
\* Enter the next protocol once both requests of this one are acknowledged.
Advance(c) ==
  IF ~(c.ours /\ c.theirs) THEN c
  ELSE CASE c.phase = "Lcp" /\ c.pap  -> NewAsk(c, "Auth", {c.password})
         [] c.phase = "Lcp" /\ ~c.pap -> NewAsk(c, "Ipcp", {"addr_bad", "dns_bad"})
         [] OTHER -> [c EXCEPT !.phase = "Up"]
Sends(c, d) == IF d.phase # c.phase /\ d.phase # "Up" THEN <<Request(d)>> ELSE <<>>

\* A request the client refines after a Reject or a Nak.
Refined(c, f) ==
  LET refused == (IF "addr" \in f.opts THEN {"addr_bad"} ELSE {}) \cup
                 (IF "dns" \in f.opts THEN {"dns_bad"} ELSE {})
  IN  IF f.code = "ConfRej" THEN c.ask \ f.opts ELSE (c.ask \ refused) \cup f.opts

\* RFC 1661: a request while the protocol is open reopens it.
Reopened(c, f) ==
  IF f.proto = "LCP" /\ c.phase # "Lcp" THEN NewAsk(c, "Lcp", {"accm", "magic"})
  ELSE IF f.proto = "IPCP" /\ c.phase = "Up" THEN NewAsk(c, "Ipcp", {"addr", "dns"})
  ELSE c

ClientAcks(f) ==
  LET c == Reopened(client, f)
      d == [c EXCEPT !.theirs = TRUE,
                     !.pap = IF f.proto = "LCP" THEN "pap" \in f.opts ELSE @]
      e == Advance(d)
  IN  /\ f.code = "ConfReq"
      /\ f.proto = "LCP" \/ (f.proto = "IPCP" /\ client.phase \in {"Ipcp", "Up"})
      /\ client' = e
      /\ up' = up \o (IF c # client THEN <<Request(c)>> ELSE <<>>)
                  \o <<Reply(f, "ConfAck", f.opts)>> \o Sends(d, e)

ClientIsAcked(f) ==
  LET d == [client EXCEPT !.ours = TRUE]
      e == Advance(d)
  IN  /\ f.code = "ConfAck" /\ f.proto = Proto(client) /\ f.id = client.id
      /\ client.phase \in {"Lcp", "Ipcp"} /\ ~client.ours
      /\ client' = e
      /\ up' = up \o Sends(d, e)

ClientRefines(f) ==
  LET d == [client EXCEPT !.id = NextId(@), !.ask = Refined(client, f)]
  IN  /\ f.code \in {"ConfNak", "ConfRej"} /\ f.proto = Proto(client) /\ f.id = client.id
      /\ client.phase \in {"Lcp", "Ipcp"} /\ ~client.ours
      /\ client' = d
      /\ up' = Append(up, Request(d))

ClientPassed(f) ==
  LET d == NewAsk(client, "Ipcp", {"addr_bad", "dns_bad"})
  IN  /\ f.proto = "PAP" /\ f.code = "AuthAck" /\ client.phase = "Auth"
      /\ client' = d /\ up' = Append(up, Request(d))

ClientRefused(f) ==
  /\ f.proto = "PAP" /\ f.code = "AuthNak" /\ client.phase = "Auth"
  /\ client' = [client EXCEPT !.phase = "Gone"]
  /\ up' = Append(up, [proto |-> "LCP", code |-> "TermReq", id |-> client.id, opts |-> {}])

ClientHandles(f) == \/ ClientAcks(f) \/ ClientIsAcked(f) \/ ClientRefines(f)
                    \/ ClientPassed(f) \/ ClientRefused(f)

Present == client.phase \notin {"Gone", "Vanished"}

ClientReceives ==
  /\ Present
  /\ down # <<>> /\ down' = Tail(down)
  /\ \/ ClientHandles(Head(down))
     \/ ~ENABLED ClientHandles(Head(down)) /\ UNCHANGED <<client, up>>
  /\ UNCHANGED <<vars, lost, papLost, early, restarts, quiet>>

\* The client's own timer; it repeats what it waits for, without limit.
ClientRepeats ==
  /\ phase # "Dead" /\ Waiting
  /\ up = <<>> /\ Timely
  /\ up' = <<Request(client)>>
  /\ quiet' = 0
  /\ UNCHANGED <<vars, down, client, lost, papLost, restarts>>

ClientRestarts ==
  /\ client.phase = "Up" /\ restarts < MaxRestarts /\ restarts' = restarts + 1
  /\ client' = NewAsk(client, "Lcp", {"accm", "magic"})
  /\ up' = Append(up, Request(client'))
  /\ UNCHANGED <<vars, down, lost, papLost, early, quiet>>

ClientVanishes ==
  /\ MayVanish /\ Present
  /\ client' = [client EXCEPT !.phase = "Vanished"]
  /\ UNCHANGED <<vars, lineVars>>

\* Frames that arrive after the client has gone.
Unheard == /\ ~Present /\ down # <<>> /\ down' = <<>>
           /\ UNCHANGED <<vars, up, client, lost, papLost, early, restarts, quiet>>

-----------------------------------------------------------------------------
ServerSide == StartServer \/ ServerReceives \/ Transmit \/ Timeout \/ Tick
ClientSide == ClientReceives \/ ClientRepeats \/ ClientRestarts \/ ClientVanishes \/ Unheard

LinkNext == ServerSide \/ ClientSide \/ Corrupt

(* The main loop runs every 10 ms, so every server step that stays         *)
(* possible is taken; the client, while it is there, does answer and       *)
(* repeat.  The timers are strongly fair: the clock also advances while    *)
(* frames come and go, and LineIdle only says that an answer beats them.   *)
LinkFairness ==
  /\ WF_linkVars(StartServer) /\ WF_linkVars(ServerReceives) /\ WF_linkVars(Transmit)
  /\ SF_linkVars(Timeout) /\ WF_linkVars(Tick)
  /\ WF_linkVars(ClientReceives) /\ SF_linkVars(ClientRepeats) /\ WF_linkVars(Unheard)

LinkSpec == LinkInit /\ [][LinkNext]_linkVars /\ LinkFairness

-----------------------------------------------------------------------------
(* Safety. *)

(* The two ends agree: a client that considers itself connected uses the   *)
(* address the server assigned, the server has acknowledged exactly that,  *)
(* and it knows the client by the password it presented.                   *)
UpIsAgreed ==
  client.phase = "Up" =>
    /\ {"addr", "dns"} = client.ask
    /\ peerLcpAcked /\ ourLcpAcked /\ peerIpcpAcked
    /\ RequirePap => authenticatedUser = client.password

-----------------------------------------------------------------------------
(* Liveness. *)

Welcome == RequirePap => client.password \in SecretsFile
Connected == phase = "Network" /\ client.phase = "Up"
Unfaithful == client.phase = "Vanished" \/ restarts > 0

(* A client that answers and knows a password gets its IP link: server and *)
(* client both end in the network phase and stay there, for every early    *)
(* timer and every loss but that of the answer to a password, which the    *)
(* server does not repeat.                                                 *)
ComesUp == Welcome => <>[](Connected \/ Unfaithful \/ papLost)

(* A request of the server that nobody acknowledges is given up: tick      *)
(* neither repeats it for ever nor leaves the phase waiting.               *)
UnansweredRequestEnds ==
  /\ phase = "Lcp" /\ ~ourLcpAcked ~> ~(phase = "Lcp" /\ ~ourLcpAcked)
  /\ phase = "Ipcp" /\ ~ourIpcpAcked ~> ~(phase = "Ipcp" /\ ~ourIpcpAcked)

(* With a client that neither vanishes nor starts over the negotiation     *)
(* ends one way or the other, for every loss, early timer and password.    *)
NegotiationSettles ==
  <>(phase \in {"Network", "Failed", "Terminating"} \/ Unfaithful)
=============================================================================
