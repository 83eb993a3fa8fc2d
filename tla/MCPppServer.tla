---------------------------- MODULE MCPppServer ----------------------------
(* PppServer under a line that may deliver any of these frames at any time. *)
EXTENDS PppServer

CONSTANTS good, bad

MCIdSpace == 3
MCCredentials == {good, bad}

Lcp(codes, ids, bodies)  == [proto: {"LCP"}, code: codes, id: ids, opts: bodies]
Ipcp(codes, ids, bodies) == [proto: {"IPCP"}, code: codes, id: ids, opts: bodies]
IdRange == 0 .. MCIdSpace - 1
OurLcp  == {"mru", "accm", "magic"} \cup (IF RequirePap THEN {"pap"} ELSE {})

MCPeerFrames ==
  Lcp({"ConfReq"}, {1}, {{"mru", "magic"}, {"mru_bad"}, {"mru_bad", "pfc"}, {"malformed"}})
  \cup Lcp({"ConfAck"}, IdRange, {OurLcp, {"mru"}})
  \cup Lcp({"ConfNak"}, IdRange, {{"mru"}})
  \cup Lcp({"ConfRej"}, IdRange, {{"pap"}})
  \cup Lcp({"TermReq", "EchoReq"}, {2}, {{}})
  \cup [proto: {"PAP"}, code: {"AuthReq"}, id: {1}, opts: {{good}, {bad}, {"malformed"}}]
  \cup Ipcp({"ConfReq"}, {1}, {{"addr", "dns"}, {"addr_bad"}, {"addr", "vj"}, {"dns"}})
  \cup Ipcp({"ConfAck"}, IdRange, {{"addr"}})
  \cup Ipcp({"ConfRej", "TermReq"}, {1}, {{"addr"}})
  \cup [proto: {"IP", "other"}, code: {"Data"}, id: {0}, opts: {{}}]
=============================================================================
