--------------------------- MODULE PppLink_proofs ---------------------------
(***************************************************************************)
(* Server and client agree on the address and the password once the client *)
(* considers itself connected, for every bound on losses, early timers,    *)
(* restarts and frames in flight.  The invariant is about the order of the *)
(* frames in flight: what the client asked and not yet heard of.           *)
(***************************************************************************)
EXTENDS PppLink, PppServer_proofs, SequenceTheorems

Good == {"addr", "dns"}
Bad  == {"addr_bad", "dns_bad"}

(***************************************************************************)
(* The frames of the client's exchanges: its requests on their way to the  *)
(* server, then the answers on their way back.  Nothing else in flight can *)
(* advance the client.  good: the address and the DNS server the server    *)
(* grants.                                                                 *)
(***************************************************************************)
AnswerCodes == {"ConfAck", "ConfNak", "ConfRej"}

AnswerMark(f)  == [kind |-> IF f.code \in AnswerCodes THEN f.proto ELSE "other",
                   id |-> f.id, good |-> f.code = "ConfAck"]
RequestMark(f) == [kind |-> IF f.code = "ConfReq" THEN f.proto ELSE "other",
                   id |-> f.id, good |-> f.opts = Good]

Answers == down \o serialTx

\* What may be in flight while the client is c.
May(c, x) ==
  /\ c.phase = "Lcp" /\ c.ours => x.kind # "IPCP" /\ (x.kind = "LCP" => x.id = c.id)
  /\ c.phase = "Auth" =>
       x.kind # "IPCP" /\ (x.kind = "LCP" => x.id \notin {NextId(c.id), NextId(NextId(c.id))})
  /\ c.phase = "Ipcp" /\ c.ask = Bad =>
       ~(x.kind = "IPCP" /\ x.good) /\ (x.kind = "LCP" => x.id # NextId(c.id))
  /\ c.phase = "Ipcp" /\ c.ask = Good => x.kind # "LCP"
  /\ c.phase = "Up" => x.kind # "LCP"

\* And whether y may be behind x: nothing of an earlier exchange follows the
\* current LCP request, and no LCP request an IPCP one.
MayFollow(c, x, y) ==
  /\ c.phase = "Lcp" /\ x.kind = "LCP" /\ x.id = c.id =>
       y.kind # "IPCP" /\ (y.kind = "LCP" => y.id = c.id)
  /\ c.phase = "Ipcp" /\ c.ask = Bad /\ x.kind = "IPCP" => y.kind # "LCP"

Trail(c, a, u) ==
  /\ \A i \in 1 .. Len(a) : May(c, AnswerMark(a[i]))
  /\ \A i \in 1 .. Len(u) : May(c, RequestMark(u[i]))
  /\ \A i, j \in 1 .. Len(a) : i < j => MayFollow(c, AnswerMark(a[i]), AnswerMark(a[j]))
  /\ \A i, j \in 1 .. Len(u) : i < j => MayFollow(c, RequestMark(u[i]), RequestMark(u[j]))
  /\ \A i \in 1 .. Len(a), j \in 1 .. Len(u) :
       MayFollow(c, AnswerMark(a[i]), RequestMark(u[j]))

\* The server has agreed, and knows who it is.
Agreed ==
  /\ ourLcpAcked /\ peerLcpAcked /\ peerIpcpAcked
  /\ RequirePap => authenticatedUser = client.password

ClientOK(c, agreed) ==
  /\ c.phase = "Auth" => ~c.ours /\ ~c.theirs /\ c.ask = {c.password}
  /\ c.phase = "Ipcp" => c.ask \in {Good, Bad}
  /\ c.phase = "Ipcp" /\ c.ours => agreed /\ c.ask = Good
  /\ c.phase = "Up" => agreed /\ c.ask = Good

\* What the frames of the two directions carry.
AnswerOK(f, agreed) ==
  f.proto = "IPCP" => /\ f.code = "ConfAck" => agreed
                      /\ f.code = "ConfNak" => f.opts = Good
                      /\ f.code # "ConfRej"
RequestOK(f, password) ==
  /\ f.proto = "IPCP" /\ f.code = "ConfReq" => f.opts \in {Good, Bad}
  /\ f.proto = "PAP" /\ f.code = "AuthReq" => f.opts = {password}

Flight(c, a, u, agreed) ==
  /\ Trail(c, a, u)
  /\ \A i \in 1 .. Len(a) : AnswerOK(a[i], agreed)
  /\ \A i \in 1 .. Len(u) : RequestOK(u[i], c.password)

LinkInv ==
  /\ IInv
  /\ up \in Seq(Frame) /\ down \in Seq(Frame) /\ client \in Client
  /\ authenticatedUser \in {NoUser, client.password}
  /\ ClientOK(client, Agreed)
  /\ Flight(client, Answers, up, Agreed)

-----------------------------------------------------------------------------
(* The trail of exchanges, as its ends change. *)

Neutral(x) == x.kind \notin {"LCP", "IPCP"}

\* Nothing is said of the frames outside the exchanges.
LEMMA NeutralFits ==
  ASSUME NEW c, NEW x, NEW y, Neutral(y)
  PROVE  May(c, y) /\ MayFollow(c, x, y) /\ MayFollow(c, y, x)
  BY DEF Neutral, May, MayFollow

\* The oldest answer is taken, and the client may have become d.
LEMMA TrailConsumed ==
  ASSUME NEW c, NEW d, NEW a \in Seq(Frame), a # <<>>, NEW u \in Seq(Frame), Trail(c, a, u),
         \A x : May(c, x) /\ MayFollow(c, AnswerMark(Head(a)), x) => May(d, x),
         \A x, y : May(c, x) /\ MayFollow(c, AnswerMark(Head(a)), x) /\ May(c, y)
                   /\ MayFollow(c, AnswerMark(Head(a)), y) /\ MayFollow(c, x, y)
                     => MayFollow(d, x, y)
  PROVE  Trail(d, Tail(a), u)
<1> DEFINE h == AnswerMark(Head(a))
           Held(x) == May(c, x) /\ MayFollow(c, h, x)
<1>1. /\ Tail(a) \in Seq(Frame) /\ Len(Tail(a)) = Len(a) - 1 /\ Len(a) \in Nat /\ Len(a) > 0
      /\ \A i \in 1 .. Len(Tail(a)) : Tail(a)[i] = a[i + 1] /\ i + 1 \in 1 .. Len(a) /\ 1 < i + 1
      /\ Head(a) = a[1] /\ 1 \in 1 .. Len(a) /\ Len(u) \in Nat
  BY HeadTailProperties, EmptySeq, LenProperties
<1>2. \A i \in 1 .. Len(Tail(a)) : Held(AnswerMark(Tail(a)[i]))
  BY <1>1 DEF Trail
<1>3. \A i \in 1 .. Len(u) : Held(RequestMark(u[i]))
  BY <1>1 DEF Trail
<1>4. /\ \A x : Held(x) => May(d, x)
      /\ \A x, y : Held(x) /\ Held(y) /\ MayFollow(c, x, y) => MayFollow(d, x, y)
  OBVIOUS
<1> HIDE DEF Held, h
<1>5. ASSUME NEW i \in 1 .. Len(Tail(a)), NEW j \in 1 .. Len(Tail(a)), i < j
      PROVE  MayFollow(d, AnswerMark(Tail(a)[i]), AnswerMark(Tail(a)[j]))
  <2>1. MayFollow(c, AnswerMark(a[i + 1]), AnswerMark(a[j + 1]))
    BY <1>1, <1>5 DEF Trail
  <2> QED BY <1>1, <1>2, <1>4, <2>1
<1>6. ASSUME NEW i \in 1 .. Len(u), NEW j \in 1 .. Len(u), i < j
      PROVE  MayFollow(d, RequestMark(u[i]), RequestMark(u[j]))
  BY <1>3, <1>4, <1>6 DEF Trail
<1>7. ASSUME NEW i \in 1 .. Len(Tail(a)), NEW j \in 1 .. Len(u)
      PROVE  MayFollow(d, AnswerMark(Tail(a)[i]), RequestMark(u[j]))
  BY <1>1, <1>2, <1>3, <1>4, <1>7 DEF Trail
<1> QED BY <1>2, <1>3, <1>4, <1>5, <1>6, <1>7 DEF Trail

\* The client becomes d, of which no more is said than of c.
LEMMA TrailRecast ==
  ASSUME NEW c, NEW d, NEW a, NEW u, Trail(c, a, u),
         \A x : May(c, x) => May(d, x),
         \A x, y : May(c, x) /\ May(c, y) /\ MayFollow(c, x, y) => MayFollow(d, x, y)
  PROVE  Trail(d, a, u)
  BY DEF Trail

\* The oldest request is lost, or ignored.
LEMMA TrailIgnored ==
  ASSUME NEW c, NEW a \in Seq(Frame), NEW u \in Seq(Frame), u # <<>>, Trail(c, a, u)
  PROVE  Trail(c, a, Tail(u))
<1>1. /\ Len(Tail(u)) = Len(u) - 1 /\ Len(u) \in Nat /\ Len(a) \in Nat
      /\ \A i \in 1 .. Len(Tail(u)) : Tail(u)[i] = u[i + 1] /\ i + 1 \in 1 .. Len(u)
  BY HeadTailProperties, EmptySeq, LenProperties
<1>2. ASSUME NEW i \in 1 .. Len(Tail(u)), NEW j \in 1 .. Len(Tail(u)), i < j
      PROVE  MayFollow(c, RequestMark(Tail(u)[i]), RequestMark(Tail(u)[j]))
  <2>1. MayFollow(c, RequestMark(u[i + 1]), RequestMark(u[j + 1]))
    BY <1>1, <1>2 DEF Trail
  <2> QED BY <1>1, <2>1
<1> QED BY <1>1, <1>2 DEF Trail

\* A frame r is added to the answers of which no more can be said than of some
\* mark x that may stand there.
LEMMA TrailAppendAnswer ==
  ASSUME NEW c, NEW a \in Seq(Frame), NEW u \in Seq(Frame), Trail(c, a, u), NEW r \in Frame,
         May(c, AnswerMark(r)),
         \A i \in 1 .. Len(a) : MayFollow(c, AnswerMark(a[i]), AnswerMark(r)),
         \A i \in 1 .. Len(u) : MayFollow(c, AnswerMark(r), RequestMark(u[i]))
  PROVE  Trail(c, Append(a, r), u)
<1> DEFINE b == Append(a, r)
<1>1. /\ Len(b) = Len(a) + 1 /\ Len(a) \in Nat /\ b[Len(a) + 1] = r
      /\ \A i \in 1 .. Len(a) : b[i] = a[i]
      /\ \A i \in 1 .. Len(b) : i \in 1 .. Len(a) \/ i = Len(a) + 1
  BY AppendProperties, LenProperties
<1> HIDE DEF b
<1>2. \A i \in 1 .. Len(b) : May(c, AnswerMark(b[i]))
  BY <1>1 DEF Trail
<1>3. ASSUME NEW i \in 1 .. Len(b), NEW j \in 1 .. Len(b), i < j
      PROVE  MayFollow(c, AnswerMark(b[i]), AnswerMark(b[j]))
  <2>1. i \in 1 .. Len(a)
    BY <1>1, <1>3
  <2>2. CASE j \in 1 .. Len(a)
    BY <1>1, <1>3, <2>1, <2>2 DEF Trail
  <2>3. CASE j = Len(a) + 1
    BY <1>1, <2>1, <2>3
  <2> QED BY <1>1, <2>2, <2>3
<1>4. ASSUME NEW i \in 1 .. Len(b), NEW j \in 1 .. Len(u)
      PROVE  MayFollow(c, AnswerMark(b[i]), RequestMark(u[j]))
  BY <1>1, <1>4 DEF Trail
<1> QED BY <1>2, <1>3, <1>4 DEF Trail, b

\* The same for the requests.
LEMMA TrailAppendRequest ==
  ASSUME NEW c, NEW a \in Seq(Frame), NEW u \in Seq(Frame), Trail(c, a, u), NEW r \in Frame,
         May(c, RequestMark(r)), \A x : May(c, x) => MayFollow(c, x, RequestMark(r))
  PROVE  Trail(c, a, Append(u, r))
<1> DEFINE b == Append(u, r)
<1>1. /\ Len(b) = Len(u) + 1 /\ Len(u) \in Nat /\ b[Len(u) + 1] = r
      /\ \A i \in 1 .. Len(u) : b[i] = u[i]
      /\ \A i \in 1 .. Len(b) : i \in 1 .. Len(u) \/ i = Len(u) + 1
  BY AppendProperties, LenProperties
<1> HIDE DEF b
<1>2. \A i \in 1 .. Len(b) : May(c, RequestMark(b[i]))
  BY <1>1 DEF Trail
<1>3. ASSUME NEW i \in 1 .. Len(b), NEW j \in 1 .. Len(b), i < j
      PROVE  MayFollow(c, RequestMark(b[i]), RequestMark(b[j]))
  <2>1. i \in 1 .. Len(u)
    BY <1>1, <1>3
  <2>2. CASE j \in 1 .. Len(u)
    BY <1>1, <1>3, <2>1, <2>2 DEF Trail
  <2>3. CASE j = Len(u) + 1
    BY <1>1, <2>1, <2>3 DEF Trail
  <2> QED BY <1>1, <2>2, <2>3
<1>4. ASSUME NEW i \in 1 .. Len(a), NEW j \in 1 .. Len(b)
      PROVE  MayFollow(c, AnswerMark(a[i]), RequestMark(b[j]))
  BY <1>1, <1>4 DEF Trail
<1> QED BY <1>2, <1>3, <1>4 DEF Trail, b

\* A frame outside the exchanges is sent.
LEMMA TrailAside ==
  ASSUME NEW c, NEW a \in Seq(Frame), NEW u \in Seq(Frame), Trail(c, a, u), NEW r \in Frame
  PROVE  /\ Neutral(AnswerMark(r)) => Trail(c, Append(a, r), u)
         /\ Neutral(RequestMark(r)) => Trail(c, a, Append(u, r))
<1>1. ASSUME Neutral(AnswerMark(r)) PROVE Trail(c, Append(a, r), u)
  <2>1. /\ May(c, AnswerMark(r))
        /\ \A i \in 1 .. Len(a) : MayFollow(c, AnswerMark(a[i]), AnswerMark(r))
        /\ \A i \in 1 .. Len(u) : MayFollow(c, AnswerMark(r), RequestMark(u[i]))
    BY <1>1, NeutralFits
  <2> QED BY <2>1, TrailAppendAnswer
<1>2. ASSUME Neutral(RequestMark(r)) PROVE Trail(c, a, Append(u, r))
  <2>1. May(c, RequestMark(r)) /\ \A x : May(c, x) => MayFollow(c, x, RequestMark(r))
    BY <1>2, NeutralFits
  <2> QED BY <2>1, TrailAppendRequest
<1> QED BY <1>1, <1>2

\* The oldest request is answered by r.
Matches(x, y) ==
  Neutral(x) \/ (x.kind = y.kind /\ x.id = y.id /\ (x.kind = "IPCP" /\ x.good => y.good))

LEMMA MatchFits ==
  ASSUME NEW c, NEW x, NEW y, Matches(x, y)
  PROVE  /\ May(c, y) => May(c, x)
         /\ \A z : MayFollow(c, y, z) => MayFollow(c, x, z)
         /\ \A z : MayFollow(c, z, y) => MayFollow(c, z, x)
<1>1. CASE Neutral(x)
  BY <1>1, NeutralFits
<1>2. CASE x.kind = y.kind /\ x.id = y.id /\ (x.kind = "IPCP" /\ x.good => y.good)
  BY <1>2 DEF May, MayFollow
<1> QED BY <1>1, <1>2 DEF Matches

LEMMA TrailAnswered ==
  ASSUME NEW c, NEW a \in Seq(Frame), NEW u \in Seq(Frame), u # <<>>, Trail(c, a, u),
         NEW r \in Frame, Matches(AnswerMark(r), RequestMark(Head(u)))
  PROVE  Trail(c, Append(a, r), Tail(u))
<1>1. /\ Tail(u) \in Seq(Frame) /\ Len(Tail(u)) = Len(u) - 1 /\ Len(u) \in Nat
      /\ \A i \in 1 .. Len(Tail(u)) : Tail(u)[i] = u[i + 1] /\ i + 1 \in 1 .. Len(u) /\ 1 < i + 1
      /\ Head(u) = u[1] /\ 1 \in 1 .. Len(u)
  BY HeadTailProperties, EmptySeq, LenProperties
<1>2. Trail(c, a, Tail(u))
  BY TrailIgnored
<1>3. May(c, RequestMark(Head(u)))
  BY <1>1 DEF Trail
<1>4. \A i \in 1 .. Len(a) : MayFollow(c, AnswerMark(a[i]), RequestMark(Head(u)))
  BY <1>1 DEF Trail
<1>5. \A i \in 1 .. Len(Tail(u)) : MayFollow(c, RequestMark(Head(u)), RequestMark(Tail(u)[i]))
  BY <1>1 DEF Trail
<1>6. /\ May(c, AnswerMark(r))
      /\ \A i \in 1 .. Len(a) : MayFollow(c, AnswerMark(a[i]), AnswerMark(r))
      /\ \A i \in 1 .. Len(Tail(u)) : MayFollow(c, AnswerMark(r), RequestMark(Tail(u)[i]))
  BY <1>3, <1>4, <1>5, MatchFits
<1> QED BY <1>1, <1>2, <1>6, TrailAppendAnswer

-----------------------------------------------------------------------------
(* The same of all that is in flight. *)

LEMMA FlightIgnored ==
  ASSUME NEW c, NEW a \in Seq(Frame), NEW u \in Seq(Frame), u # <<>>, NEW agreed,
         Flight(c, a, u, agreed)
  PROVE  Flight(c, a, Tail(u), agreed) /\ RequestOK(Head(u), c.password)
<1>1. /\ Len(Tail(u)) = Len(u) - 1 /\ Len(u) \in Nat
      /\ \A i \in 1 .. Len(Tail(u)) : Tail(u)[i] = u[i + 1] /\ i + 1 \in 1 .. Len(u)
      /\ Head(u) = u[1] /\ 1 \in 1 .. Len(u)
  BY HeadTailProperties, EmptySeq, LenProperties
<1>2. Trail(c, a, Tail(u))
  BY TrailIgnored DEF Flight
<1> QED BY <1>1, <1>2 DEF Flight

LEMMA AnswersAppend ==
  ASSUME NEW a \in Seq(Frame), NEW r \in Frame, NEW agreed, AnswerOK(r, agreed),
         \A i \in 1 .. Len(a) : AnswerOK(a[i], agreed)
  PROVE  \A i \in 1 .. Len(Append(a, r)) : AnswerOK(Append(a, r)[i], agreed)
<1>1. /\ Len(Append(a, r)) = Len(a) + 1 /\ Len(a) \in Nat /\ Append(a, r)[Len(a) + 1] = r
      /\ \A i \in 1 .. Len(a) : Append(a, r)[i] = a[i]
      /\ \A i \in 1 .. Len(Append(a, r)) : i \in 1 .. Len(a) \/ i = Len(a) + 1
  BY AppendProperties, LenProperties
<1> QED BY <1>1

LEMMA RequestsAppend ==
  ASSUME NEW a \in Seq(Frame), NEW r \in Frame, NEW password, RequestOK(r, password),
         \A i \in 1 .. Len(a) : RequestOK(a[i], password)
  PROVE  \A i \in 1 .. Len(Append(a, r)) : RequestOK(Append(a, r)[i], password)
<1>1. /\ Len(Append(a, r)) = Len(a) + 1 /\ Len(a) \in Nat /\ Append(a, r)[Len(a) + 1] = r
      /\ \A i \in 1 .. Len(a) : Append(a, r)[i] = a[i]
      /\ \A i \in 1 .. Len(Append(a, r)) : i \in 1 .. Len(a) \/ i = Len(a) + 1
  BY AppendProperties, LenProperties
<1> QED BY <1>1

LEMMA FlightAside ==
  ASSUME NEW c, NEW a \in Seq(Frame), NEW u \in Seq(Frame), NEW agreed, NEW r \in Frame,
         Flight(c, a, u, agreed)
  PROVE  /\ Neutral(AnswerMark(r)) => Flight(c, Append(a, r), u, agreed)
         /\ Neutral(RequestMark(r)) /\ RequestOK(r, c.password) =>
              Flight(c, a, Append(u, r), agreed)
<1>1. ASSUME Neutral(AnswerMark(r)) PROVE Flight(c, Append(a, r), u, agreed)
  <2>1. AnswerOK(r, agreed)
    BY <1>1 DEF Neutral, AnswerMark, AnswerOK, AnswerCodes
  <2>2. Trail(c, Append(a, r), u)
    BY <1>1, TrailAside DEF Flight
  <2> QED BY <2>1, <2>2, AnswersAppend DEF Flight
<1>2. ASSUME Neutral(RequestMark(r)), RequestOK(r, c.password)
      PROVE  Flight(c, a, Append(u, r), agreed)
  <2>1. Trail(c, a, Append(u, r))
    BY <1>2, TrailAside DEF Flight
  <2> QED BY <1>2, <2>1, RequestsAppend DEF Flight
<1> QED BY <1>1, <1>2

LEMMA FlightAnswered ==
  ASSUME NEW c, NEW a \in Seq(Frame), NEW u \in Seq(Frame), u # <<>>, NEW agreed,
         Flight(c, a, u, agreed), NEW r \in Frame,
         Matches(AnswerMark(r), RequestMark(Head(u))), AnswerOK(r, agreed)
  PROVE  Flight(c, Append(a, r), Tail(u), agreed)
<1>1. Trail(c, Append(a, r), Tail(u))
  BY TrailAnswered DEF Flight
<1>2. Flight(c, a, Tail(u), agreed)
  BY FlightIgnored
<1> QED BY <1>1, <1>2, AnswersAppend DEF Flight

\* Agreement is for good.
LEMMA FlightAgrees ==
  ASSUME NEW c, NEW a, NEW u, NEW agreed, NEW later, Flight(c, a, u, agreed), agreed => later
  PROVE  Flight(c, a, u, later)
  BY DEF Flight, AnswerOK

LEMMA ConcatAppend ==
  ASSUME NEW a \in Seq(Frame), NEW b \in Seq(Frame), NEW r \in Frame
  PROVE  a \o Append(b, r) = Append(a \o b, r)
<1>1. Append(b, r) = b \o <<r>> /\ a \o b \in Seq(Frame) /\ <<r>> \in Seq(Frame)
  BY AppendIsConcat, ConcatProperties
<1>2. \A v, w, x \in Seq(Frame) : (v \o w) \o x = v \o (w \o x)
  <2>1. \A S : \A v, w, x \in Seq(S) : (v \o w) \o x = v \o (w \o x)
    BY ConcatAssociative, SMTT(60)
  <2> QED BY <2>1, SMTT(60)
<1>3. a \o (b \o <<r>>) = (a \o b) \o <<r>>
  BY <1>1, <1>2, Zenon
<1>4. Append(a \o b, r) = (a \o b) \o <<r>>
  BY <1>1, AppendIsConcat
<1> QED BY <1>1, <1>3, <1>4

\* What a handler of the server may queue: nothing, an answer to the request it
\* got, and behind it something of its own.
LEMMA FlightHandled ==
  ASSUME NEW c, NEW a \in Seq(Frame), NEW t \in Seq(Frame), NEW u \in Seq(Frame), u # <<>>,
         NEW agreed, Flight(c, a \o t, u, agreed), NEW r \in Frame, NEW q \in Frame,
         Matches(AnswerMark(r), RequestMark(Head(u))), AnswerOK(r, agreed),
         Neutral(AnswerMark(q)), NEW s \in {t, Append(t, r), Append(Append(t, r), q)}
  PROVE  Flight(c, a \o s, Tail(u), agreed)
<1>1. a \o t \in Seq(Frame) /\ Append(t, r) \in Seq(Frame) /\ Tail(u) \in Seq(Frame)
      /\ Append(a \o t, r) \in Seq(Frame)
  BY ConcatProperties, AppendProperties, HeadTailProperties, EmptySeq
<1>2. Flight(c, a \o t, Tail(u), agreed)
  BY <1>1, FlightIgnored
<1>3. Flight(c, Append(a \o t, r), Tail(u), agreed)
  BY <1>1, FlightAnswered
<1>4. Flight(c, Append(Append(a \o t, r), q), Tail(u), agreed)
  BY <1>1, <1>3, FlightAside
<1>5. /\ a \o Append(t, r) = Append(a \o t, r)
      /\ a \o Append(Append(t, r), q) = Append(Append(a \o t, r), q)
  <2>1. a \o Append(t, r) = Append(a \o t, r)
    BY ConcatAppend
  <2>2. a \o Append(Append(t, r), q) = Append(a \o Append(t, r), q)
    BY <1>1, ConcatAppend
  <2> QED BY <2>1, <2>2
<1> QED BY <1>2, <1>3, <1>4, <1>5

-----------------------------------------------------------------------------
(* The server's steps. *)

\* What a handler of f does: Handled says what it queues.
Handled(f, agreed, s) ==
  \E r, q \in Frame :
    /\ Matches(AnswerMark(r), RequestMark(f)) /\ AnswerOK(r, agreed)
    /\ Neutral(AnswerMark(q))
    /\ s \in {serialTx, Append(serialTx, r), Append(Append(serialTx, r), q)}

\* The server's own requests are outside the client's exchanges.
LEMMA OwnRequests ==
  ASSUME NEW i \in Ids
  PROVE  /\ LcpRequest(i) \in Frame /\ Neutral(AnswerMark(LcpRequest(i)))
         /\ IpcpRequest(i) \in Frame /\ Neutral(AnswerMark(IpcpRequest(i)))
<1>1. LcpRequest(i) \in Frame /\ IpcpRequest(i) \in Frame
  BY RequestType
<1>2. LcpRequest(i).code = "ConfReq" /\ IpcpRequest(i).code = "ConfReq"
  BY DEF LcpRequest, IpcpRequest
<1> QED BY <1>1, <1>2 DEF Neutral, AnswerMark, AnswerCodes

LEMMA HandledBySending ==
  ASSUME NEW f, NEW agreed, NEW r \in Frame, NEW q \in Frame,
         Matches(AnswerMark(r), RequestMark(f)), AnswerOK(r, agreed), Neutral(AnswerMark(q))
  PROVE  /\ Handled(f, agreed, serialTx) /\ Handled(f, agreed, Append(serialTx, r))
         /\ Handled(f, agreed, Append(Append(serialTx, r), q))
         /\ Handled(f, agreed, Append(serialTx, q))
<1>1. Matches(AnswerMark(q), RequestMark(f)) /\ AnswerOK(q, agreed)
  BY DEF Matches, Neutral, AnswerMark, AnswerOK, AnswerCodes
<1> QED BY <1>1 DEF Handled

LEMMA LcpHandled ==
  ASSUME IInv, NEW f \in Frame, phase # "Dead", ProcessLcp(f), NEW agreed
  PROVE  /\ Handled(f, agreed, serialTx')
         /\ (ourLcpAcked => ourLcpAcked') /\ (peerLcpAcked => peerLcpAcked')
         /\ UNCHANGED <<peerIpcpAcked, authenticatedUser>>
<1>1. ProcessLcp(f) /\ f.proto = "LCP" /\ IInv'
  BY LcpIInv DEF ProcessLcp
<1>2. lcpId' \in Ids /\ ipcpId' \in Ids
  BY <1>1 DEF IInv, TypeOK
<1>3. ASSUME NEW code \in {"ConfRej", "ConfNak", "ConfAck", "TermAck", "EchoReply"},
             NEW opts \in SUBSET Options,
             f.code = "ConfReq" \/ code \in {"TermAck", "EchoReply"}
      PROVE  /\ Handled(f, agreed, Append(serialTx, Reply(f, code, opts)))
             /\ Handled(f, agreed, Append(Append(serialTx, Reply(f, code, opts)),
                                         IpcpRequest(ipcpId')))
  <2> DEFINE r == Reply(f, code, opts)
  <2>1. r \in Frame /\ r.proto = "LCP" /\ r.id = f.id /\ r.code = code
    BY <1>1, <1>3, ReplyOptions, ReplyType DEF Reply, Frame
  <2> HIDE DEF r
  <2>2. Matches(AnswerMark(r), RequestMark(f)) /\ AnswerOK(r, agreed)
    BY <1>1, <1>3, <2>1 DEF Matches, Neutral, AnswerMark, RequestMark, AnswerOK, AnswerCodes
  <2> QED BY <1>2, <2>1, <2>2, OwnRequests, HandledBySending DEF r
<1>4. Handled(f, agreed, serialTx) /\ Handled(f, agreed, Append(serialTx, LcpRequest(lcpId')))
      /\ Handled(f, agreed, Append(serialTx, IpcpRequest(ipcpId')))
  <2>1. Matches(AnswerMark(LcpRequest(lcpId')), RequestMark(f))
        /\ AnswerOK(LcpRequest(lcpId'), agreed)
    BY DEF Matches, Neutral, AnswerMark, AnswerOK, AnswerCodes, LcpRequest
  <2> QED BY <1>2, <2>1, OwnRequests, HandledBySending
<1>5. CASE LcpConfReq(f)
  <2>1. ourLcpAcked' = ourLcpAcked
    BY <1>5 DEF LcpConfReq
  <2>2. CASE serialTx' = Append(serialTx, Reply(f, "ConfRej", LcpRejected(f.opts)))
             /\ UNCHANGED <<phase, peerLcpAcked, nextId, ipcpTx>>
    BY <1>1, <1>3, <1>5, <2>1, <2>2, ReplyOptions DEF LcpConfReq, ProcessLcp, authVars
  <2>3. CASE serialTx' = Append(serialTx, Reply(f, "ConfNak", {"mru"}))
             /\ UNCHANGED <<phase, peerLcpAcked, nextId, ipcpTx>>
    BY <1>1, <1>3, <1>5, <2>1, <2>3, ReplyOptions DEF LcpConfReq, ProcessLcp, authVars
  <2>4. CASE peerLcpAcked'
             /\ MaybeLcpOpen(ourLcpAcked, TRUE, Append(serialTx, Reply(f, "ConfAck", f.opts)))
    <3> DEFINE t == Append(serialTx, Reply(f, "ConfAck", f.opts))
    <3>1. serialTx' = t \/ serialTx' = Append(t, IpcpRequest(ipcpId'))
      BY <2>4 DEF MaybeLcpOpen, SendIpcpRequest
    <3>2. Handled(f, agreed, t) /\ Handled(f, agreed, Append(t, IpcpRequest(ipcpId')))
      BY <1>3, <1>5, ReplyOptions DEF LcpConfReq
    <3> HIDE DEF t
    <3>3. Handled(f, agreed, serialTx')
      BY <3>1, <3>2
    <3> QED BY <1>1, <2>1, <2>4, <3>3 DEF ProcessLcp, authVars
  <2> QED BY <1>5, <2>2, <2>3, <2>4 DEF LcpConfReq
<1>6. CASE LcpConfAck(f)
  <2>1. serialTx' = serialTx \/ serialTx' = Append(serialTx, IpcpRequest(ipcpId'))
    BY <1>6 DEF LcpConfAck, MaybeLcpOpen, SendIpcpRequest
  <2>2. Handled(f, agreed, serialTx')
    BY <1>4, <2>1
  <2> QED BY <1>1, <1>6, <2>2 DEF LcpConfAck, ProcessLcp, authVars
<1>7. CASE LcpConfNakRej(f)
  <2>1. serialTx' = serialTx \/ serialTx' = Append(serialTx, LcpRequest(lcpId'))
    BY <1>7 DEF LcpConfNakRej, SendLcpRequest
  <2>2. Handled(f, agreed, serialTx')
    BY <1>4, <2>1
  <2>3. UNCHANGED <<ourLcpAcked, peerLcpAcked>>
    BY <1>7 DEF LcpConfNakRej, lcpVars
  <2> QED BY <1>1, <2>2, <2>3 DEF ProcessLcp, authVars
<1>8. CASE LcpTermReq(f) \/ LcpEchoReq(f)
  <2>1. \/ serialTx' = Append(serialTx, Reply(f, "TermAck", f.opts))
        \/ serialTx' = Append(serialTx, Reply(f, "EchoReply", {"magic"}))
    BY <1>8 DEF LcpTermReq, LcpEchoReq
  <2>2. Handled(f, agreed, serialTx')
    BY <1>3, <2>1, ReplyOptions
  <2> QED BY <1>1, <1>8, <2>2 DEF LcpTermReq, LcpEchoReq, ProcessLcp, lcpVars, authVars
<1> QED BY <1>1, <1>5, <1>6, <1>7, <1>8 DEF ProcessLcp

LEMMA PapHandled ==
  ASSUME IInv, NEW f \in Frame, phase # "Dead", ProcessPap(f), NEW agreed, NEW password,
         RequestOK(f, password)
  PROVE  /\ Handled(f, agreed, serialTx')
         /\ UNCHANGED <<ourLcpAcked, peerLcpAcked, peerIpcpAcked>>
         /\ authenticatedUser' \in {authenticatedUser, password}
<1>1. PICK c \in Credentials :
        /\ f.opts = {c}
        /\ \/ /\ serialTx' = Append(serialTx, Reply(f, "AuthNak", {}))
              /\ authenticatedUser' = authenticatedUser
           \/ /\ authenticatedUser' = c
              /\ SendIpcpRequest(Append(serialTx, Reply(f, "AuthAck", {})), TRUE)
  BY DEF ProcessPap
<1>2. f.proto = "PAP" /\ f.code = "AuthReq" /\ c = password
  BY <1>1 DEF ProcessPap, RequestOK
<1>3. ipcpId' \in Ids
  BY PapIInv DEF IInv, TypeOK
<1>4. ASSUME NEW code \in {"AuthAck", "AuthNak"}
      PROVE  /\ Handled(f, agreed, Append(serialTx, Reply(f, code, {})))
             /\ Handled(f, agreed, Append(Append(serialTx, Reply(f, code, {})),
                                         IpcpRequest(ipcpId')))
  <2> DEFINE r == Reply(f, code, {})
  <2>1. r \in Frame /\ r.proto = "PAP"
    BY <1>2, <1>4, ReplyOptions, ReplyType
  <2> HIDE DEF r
  <2>2. Matches(AnswerMark(r), RequestMark(f)) /\ AnswerOK(r, agreed)
    BY <2>1 DEF Matches, Neutral, AnswerMark, AnswerOK
  <2> QED BY <1>3, <2>1, <2>2, OwnRequests, HandledBySending DEF r
<1>5. Handled(f, agreed, serialTx')
  BY <1>1, <1>4 DEF SendIpcpRequest
<1> QED BY <1>1, <1>2, <1>5 DEF ProcessPap, lcpVars

LEMMA IpcpHandled ==
  ASSUME IInv, NEW f \in Frame, phase # "Dead", ProcessIpcp(f), NEW password,
         RequestOK(f, password), authenticatedUser \in {NoUser, password}, NEW agreed,
         ourLcpAcked /\ peerLcpAcked /\ peerIpcpAcked'
           /\ (RequirePap => authenticatedUser = password) => agreed
  PROVE  /\ Handled(f, agreed, serialTx')
         /\ UNCHANGED <<ourLcpAcked, peerLcpAcked, authenticatedUser>>
         /\ peerIpcpAcked => peerIpcpAcked'
<1>1. f.proto = "IPCP" /\ phase \in {"Ipcp", "Network"} /\ UNCHANGED <<lcpVars, ipcpTx, authVars>>
  BY DEF ProcessIpcp
<1>2. ourLcpAcked /\ peerLcpAcked /\ (RequirePap => authenticatedUser = password)
  BY <1>1, PppConstants DEF IInv, TypeOK, NetworkIsNegotiated, OnlyAuthenticatedTraffic
<1>3. ASSUME NEW code \in {"ConfRej", "ConfNak", "ConfAck", "TermAck"}, NEW opts \in SUBSET Options,
             AnswerOK(Reply(f, code, opts), agreed),
             code # "TermAck" => f.code = "ConfReq",
             code = "ConfAck" => f.opts = Good
      PROVE  Handled(f, agreed, Append(serialTx, Reply(f, code, opts)))
  <2> DEFINE r == Reply(f, code, opts)
  <2>1. r \in Frame /\ r.proto = "IPCP" /\ r.id = f.id /\ r.code = code
    BY <1>1, <1>3, ReplyOptions, ReplyType DEF Reply, Frame
  <2> HIDE DEF r
  <2>2. Matches(AnswerMark(r), RequestMark(f))
    BY <1>1, <1>3, <2>1 DEF Matches, Neutral, AnswerMark, RequestMark, AnswerCodes
  <2>3. 0 \in Ids /\ IpcpRequest(0) \in Frame /\ Neutral(AnswerMark(IpcpRequest(0)))
    BY BlankTypes, OwnRequests
  <2> QED BY <1>3, <2>1, <2>2, <2>3, HandledBySending DEF r
<1>4. Handled(f, agreed, serialTx)
  <2>1. IpcpRequest(0) \in Frame /\ Neutral(AnswerMark(IpcpRequest(0)))
    BY BlankTypes, OwnRequests
  <2>2. Matches(AnswerMark(IpcpRequest(0)), RequestMark(f)) /\ AnswerOK(IpcpRequest(0), agreed)
    BY <2>1 DEF Matches, Neutral, AnswerMark, AnswerOK, AnswerCodes
  <2> QED BY <2>1, <2>2, HandledBySending
<1>5. ASSUME NEW code \in Codes, NEW opts
      PROVE  Reply(f, code, opts).code = code /\ Reply(f, code, opts).opts = opts
  BY DEF Reply, Frame
<1>6. CASE IpcpConfReq(f)
  <2>1. f.code = "ConfReq" /\ f.opts \in {Good, Bad} /\ ourIpcpAcked' = ourIpcpAcked
    BY <1>1, <1>6 DEF IpcpConfReq, RequestOK
  <2>2. IpcpRejected(f.opts) = {}
    BY <2>1 DEF IpcpRejected, Good, Bad
  <2>3. CASE f.opts = Good
    <3>1. IpcpNaked(f.opts) = {}
      BY <2>3 DEF IpcpNaked, Good
    <3>2. serialTx' = Append(serialTx, Reply(f, "ConfAck", f.opts)) /\ peerIpcpAcked' = TRUE
      BY <1>6, <2>2, <3>1 DEF IpcpConfReq
    <3>3. AnswerOK(Reply(f, "ConfAck", f.opts), agreed)
      BY <1>2, <1>5, <3>2 DEF AnswerOK, Codes
    <3>4. Handled(f, agreed, serialTx')
      BY <1>3, <2>1, <2>3, <3>2, <3>3, ReplyOptions
    <3> QED BY <1>1, <3>2, <3>4 DEF lcpVars, authVars
  <2>4. CASE f.opts = Bad
    <3>1. IpcpNaked(f.opts) = Good
      BY <2>4 DEF IpcpNaked, Good, Bad
    <3>2. serialTx' = Append(serialTx, Reply(f, "ConfNak", Good)) /\ peerIpcpAcked' = peerIpcpAcked
      BY <1>6, <2>2, <3>1 DEF IpcpConfReq, Good
    <3>3. AnswerOK(Reply(f, "ConfNak", Good), agreed)
      BY <1>5 DEF AnswerOK, Codes
    <3>4. Handled(f, agreed, serialTx')
      BY <1>3, <2>1, <3>1, <3>2, <3>3, ReplyOptions
    <3> QED BY <1>1, <3>2, <3>4 DEF lcpVars, authVars
  <2> QED BY <2>1, <2>3, <2>4
<1>7. CASE IpcpConfAck(f) \/ IpcpConfNakRej(f)
  <2>1. UNCHANGED <<peerIpcpAcked, serialTx>>
    BY <1>7 DEF IpcpConfAck, IpcpConfNakRej
  <2>2. Handled(f, agreed, serialTx')
    BY <1>4, <2>1
  <2> QED BY <1>1, <2>1, <2>2 DEF lcpVars, authVars
<1>8. CASE IpcpTermReq(f)
  <2>1. AnswerOK(Reply(f, "TermAck", f.opts), agreed)
    BY <1>5 DEF AnswerOK, Codes
  <2>2. Handled(f, agreed, serialTx')
    BY <1>3, <1>8, <2>1, ReplyOptions DEF IpcpTermReq
  <2> QED BY <1>1, <1>8, <2>2 DEF IpcpTermReq, lcpVars, authVars
<1> QED BY <1>6, <1>7, <1>8 DEF ProcessIpcp

\* What a received frame leaves of the server's half of LinkInv.
LEMMA FrameHandled ==
  ASSUME LinkInv, NEW f \in Frame, phase # "Dead", ProcessFrame(f), UNCHANGED client,
         RequestOK(f, client.password)
  PROVE  /\ IInv' /\ (Agreed => Agreed') /\ Handled(f, Agreed', serialTx')
         /\ authenticatedUser' \in {NoUser, client.password}
<1> DEFINE password == client.password
<1>1. IInv /\ authenticatedUser \in {NoUser, password} /\ client'.password = password
  BY DEF LinkInv
<1>2. IInv'
  BY <1>1, LcpIInv, PapIInv, IpcpIInv, IpIInv, OtherIInv DEF ProcessFrame
<1>3. /\ Agreed <=> /\ ourLcpAcked /\ peerLcpAcked /\ peerIpcpAcked
                    /\ RequirePap => authenticatedUser = password
      /\ Agreed' <=> /\ ourLcpAcked' /\ peerLcpAcked' /\ peerIpcpAcked'
                     /\ RequirePap => authenticatedUser' = password
  BY <1>1 DEF Agreed
<1> HIDE DEF password
<1>4. CASE ProcessLcp(f)
  BY <1>1, <1>2, <1>3, <1>4, LcpHandled DEF password
<1>5. CASE ProcessPap(f)
  BY <1>1, <1>2, <1>3, <1>5, PapHandled DEF password
<1>6. CASE ProcessIpcp(f)
  <2>1. UNCHANGED <<ourLcpAcked, peerLcpAcked, authenticatedUser>>
    BY <1>6 DEF ProcessIpcp, lcpVars, authVars
  <2>2. ourLcpAcked /\ peerLcpAcked /\ peerIpcpAcked'
          /\ (RequirePap => authenticatedUser = password) => Agreed'
    BY <1>3, <2>1
  <2>3. RequestOK(f, password)
    BY DEF password
  <2>4. Handled(f, Agreed', serialTx') /\ (peerIpcpAcked => peerIpcpAcked')
    BY <1>1, <1>6, <2>2, <2>3, IpcpHandled
  <2> QED BY <1>1, <1>2, <1>3, <2>1, <2>4 DEF password
<1>7. CASE ProcessIp(f) \/ ProcessOther(f)
  <2>1. /\ UNCHANGED <<ourLcpAcked, peerLcpAcked, peerIpcpAcked, authenticatedUser>>
        /\ serialTx' = serialTx \/ serialTx' = Append(serialTx, ProtocolReject)
    BY <1>7 DEF ProcessIp, ProcessOther, lcpVars, ipcpVars, authVars
  <2>2. ProtocolReject \in Frame /\ Neutral(AnswerMark(ProtocolReject))
    BY <1>1 DEF IInv, TypeOK, ProtocolReject, Frame, Protos, Codes, Neutral, AnswerMark, AnswerCodes
  <2>3. /\ Matches(AnswerMark(ProtocolReject), RequestMark(f))
        /\ AnswerOK(ProtocolReject, Agreed')
    BY <2>2 DEF Matches, AnswerOK, ProtocolReject
  <2>4. Handled(f, Agreed', serialTx')
    BY <2>1, <2>2, <2>3, HandledBySending
  <2> QED BY <1>1, <1>2, <1>3, <2>1, <2>4 DEF password
<1> QED BY <1>4, <1>5, <1>6, <1>7 DEF ProcessFrame

\* The server's steps that do not involve a received frame queue at most one
\* request of its own.
LEMMA OwnStep ==
  ASSUME LinkInv, IInv', UNCHANGED <<client, up, down>>,
         UNCHANGED <<ourLcpAcked, peerLcpAcked, peerIpcpAcked, authenticatedUser>>,
         serialTx' \in {serialTx, Append(serialTx, LcpRequest(lcpId')),
                       Append(serialTx, IpcpRequest(ipcpId'))}
  PROVE  LinkInv'
<1>1. Agreed' = Agreed
  BY DEF Agreed
<1>2. lcpId' \in Ids /\ ipcpId' \in Ids /\ serialTx \in Seq(Frame) /\ Answers \in Seq(Frame)
  BY ConcatProperties DEF LinkInv, IInv, TypeOK, Answers
<1>3. Answers' \in {Answers, Append(Answers, LcpRequest(lcpId')),
                    Append(Answers, IpcpRequest(ipcpId'))}
  <2>1. \A r \in Frame : down \o Append(serialTx, r) = Append(down \o serialTx, r)
    BY <1>2, ConcatAppend DEF LinkInv
  <2>2. Answers' = down \o serialTx' /\ Answers = down \o serialTx
    BY DEF Answers
  <2>3. LcpRequest(lcpId') \in Frame /\ IpcpRequest(ipcpId') \in Frame
    BY <1>2, OwnRequests
  <2> QED BY <2>1, <2>2, <2>3
<1>4. Flight(client, Answers', up, Agreed)
  BY <1>2, <1>3, OwnRequests, FlightAside DEF LinkInv
<1> QED BY <1>1, <1>4 DEF LinkInv

LEMMA ServerSideInv == ASSUME LinkInv, ServerSide PROVE LinkInv'
<1>0. IInv /\ up \in Seq(Frame) /\ down \in Seq(Frame) /\ serialTx \in Seq(Frame)
  BY DEF LinkInv, IInv, TypeOK
<1>1. CASE StartServer
  <2>1. Start /\ UNCHANGED <<client, up, down>>
    BY <1>1 DEF StartServer, lineVars
  <2>2. UNCHANGED <<ourLcpAcked, peerLcpAcked, peerIpcpAcked, authenticatedUser>>
        /\ serialTx' = Append(serialTx, LcpRequest(lcpId'))
    BY <2>1 DEF Start, SendLcpRequest, ipcpVars
  <2> QED BY <1>0, <2>1, <2>2, StartIInv, OwnStep
<1>2. CASE Timeout
  <2>1. (LcpTimerElapses \/ IpcpTimerElapses) /\ UNCHANGED <<client, up, down>>
    BY <1>2 DEF Timeout
  <2>2. UNCHANGED <<ourLcpAcked, peerLcpAcked, peerIpcpAcked, authenticatedUser, serialTx>>
    BY <2>1 DEF LcpTimerElapses, IpcpTimerElapses, lcpVars, ipcpVars, authVars
  <2> QED BY <1>0, <2>1, <2>2, LcpTimerIInv, IpcpTimerIInv, OwnStep
<1>3. CASE Tick
  <2>1. (TickLcp \/ TickIpcp) /\ UNCHANGED <<client, up, down>>
    BY <1>3 DEF Tick, lineVars
  <2>2. CASE TickLcp
    <3>1. UNCHANGED <<ourLcpAcked, peerLcpAcked, peerIpcpAcked, authenticatedUser>>
          /\ (serialTx' = serialTx \/ serialTx' = Append(serialTx, LcpRequest(lcpId')))
      BY <2>2 DEF TickLcp, SendLcpRequest, lcpVars, ipcpVars, authVars
    <3> QED BY <1>0, <2>1, <2>2, <3>1, TickLcpIInv, OwnStep
  <2>3. CASE TickIpcp
    <3>1. UNCHANGED <<ourLcpAcked, peerLcpAcked, peerIpcpAcked, authenticatedUser>>
          /\ (serialTx' = serialTx \/ serialTx' = Append(serialTx, IpcpRequest(ipcpId')))
      BY <2>3 DEF TickIpcp, SendIpcpRequest, lcpVars, ipcpVars, authVars
    <3> QED BY <1>0, <2>1, <2>3, <3>1, TickIpcpIInv, OwnStep
  <2> QED BY <2>1, <2>2, <2>3
<1>4. CASE Transmit
  <2>1. /\ TakeSerialTx /\ down' = down \o serialTx /\ UNCHANGED <<client, up>>
        /\ serialTx' = <<>>
    BY <1>4 DEF Transmit, TakeSerialTx
  <2>2. IInv' /\ down' \in Seq(Frame)
    BY <1>0, <2>1, TakeIInv, ConcatProperties
  <2>3. Answers' = Answers
    BY <1>0, <2>1, <2>2, ConcatEmptySeq DEF Answers
  <2>4. UNCHANGED authenticatedUser /\ Agreed' = Agreed
    BY <2>1 DEF TakeSerialTx, Agreed, lcpVars, ipcpVars, authVars
  <2> QED BY <2>1, <2>2, <2>3, <2>4 DEF LinkInv
<1>5. CASE ServerReceives
  <2>1. /\ phase # "Dead" /\ up # <<>> /\ up' = Tail(up) /\ UNCHANGED <<down, client>>
        /\ ProcessFrame(Head(up)) \/ UNCHANGED vars
    BY <1>5 DEF ServerReceives
  <2>2. Head(up) \in Frame /\ up' \in Seq(Frame) /\ Answers \in Seq(Frame)
    BY <1>0, <2>1, HeadTailProperties, EmptySeq, ConcatProperties DEF Answers
  <2>3. /\ Flight(client, Answers, up', Agreed) /\ RequestOK(Head(up), client.password)
    BY <1>0, <2>1, <2>2, FlightIgnored DEF LinkInv
  <2>4. CASE UNCHANGED vars
    <3>1. IInv' /\ Agreed' = Agreed /\ Answers' = Answers /\ UNCHANGED authenticatedUser
      BY <1>0, <2>1, <2>4, StepIInv
         DEF vars, lcpVars, ipcpVars, authVars, Agreed, Answers
    <3> QED BY <2>1, <2>2, <2>3, <3>1 DEF LinkInv
  <2>5. CASE ProcessFrame(Head(up))
    <3>1. /\ IInv' /\ (Agreed => Agreed') /\ Handled(Head(up), Agreed', serialTx')
          /\ authenticatedUser' \in {NoUser, client.password}
      BY <2>1, <2>2, <2>3, <2>5, FrameHandled
    <3>2. Flight(client, Answers, up, Agreed')
      BY <3>1, FlightAgrees DEF LinkInv
    <3>3. Flight(client, Answers', up', Agreed')
      BY <1>0, <2>1, <3>1, <3>2, FlightHandled DEF Handled, Answers
    <3>4. ClientOK(client, Agreed')
      BY <3>1 DEF LinkInv, ClientOK
    <3> QED BY <1>0, <2>1, <2>2, <3>1, <3>3, <3>4 DEF LinkInv
  <2> QED BY <2>1, <2>4, <2>5
<1> QED BY <1>1, <1>2, <1>3, <1>4, <1>5 DEF ServerSide

-----------------------------------------------------------------------------
(* The client's steps. *)

\* Four identifiers in a row differ.
LEMMA IdsDiffer ==
  ASSUME NEW i \in Ids
  PROVE  /\ NextId(i) \in Ids /\ NextId(NextId(i)) \in Ids
         /\ i \notin {NextId(i), NextId(NextId(i)), NextId(NextId(NextId(i)))}
<1> DEFINE Up1(j) == IF j = IdSpace - 1 THEN 0 ELSE j + 1
<1>1. \A j \in Ids : NextId(j) = Up1(j) /\ Up1(j) \in Ids
  BY PppConstants, IdentifiersDiffer DEF NextId, Ids
<1>2. i \notin {Up1(i), Up1(Up1(i)), Up1(Up1(Up1(i)))}
  BY PppConstants, IdentifiersDiffer DEF Ids
<1> HIDE DEF Up1
<1> QED BY <1>1, <1>2

LEMMA NewAskIs ==
  ASSUME NEW c \in Client, NEW p \in {"Lcp", "Auth", "Ipcp"}, NEW ask \in SUBSET Options
  PROVE  /\ NewAsk(c, p, ask) \in Client
         /\ NewAsk(c, p, ask).phase = p /\ NewAsk(c, p, ask).id = NextId(c.id)
         /\ NewAsk(c, p, ask).ask = ask /\ ~NewAsk(c, p, ask).ours /\ ~NewAsk(c, p, ask).theirs
         /\ NewAsk(c, p, ask).password = c.password
<1>1. NextId(c.id) \in Ids
  BY NextIdType DEF Client
<1> QED BY <1>1 DEF NewAsk, Client

LEMMA FlightRecast ==
  ASSUME NEW c, NEW d, NEW a, NEW u, NEW agreed, Flight(c, a, u, agreed),
         d.password = c.password,
         \A x : May(c, x) => May(d, x),
         \A x, y : May(c, x) /\ May(c, y) /\ MayFollow(c, x, y) => MayFollow(d, x, y)
  PROVE  Flight(d, a, u, agreed)
<1>1. Trail(d, a, u)
  BY TrailRecast DEF Flight
<1> QED BY <1>1 DEF Flight

LEMMA FlightConsumed ==
  ASSUME NEW c, NEW d, NEW a \in Seq(Frame), a # <<>>, NEW u \in Seq(Frame), NEW agreed,
         Flight(c, a, u, agreed), d.password = c.password,
         \A x : May(c, x) /\ MayFollow(c, AnswerMark(Head(a)), x) => May(d, x),
         \A x, y : May(c, x) /\ MayFollow(c, AnswerMark(Head(a)), x) /\ May(c, y)
                   /\ MayFollow(c, AnswerMark(Head(a)), y) /\ MayFollow(c, x, y)
                     => MayFollow(d, x, y)
  PROVE  Flight(d, Tail(a), u, agreed)
<1>1. Trail(d, Tail(a), u)
  BY TrailConsumed DEF Flight
<1>2. /\ Len(Tail(a)) = Len(a) - 1 /\ Len(a) \in Nat
      /\ \A i \in 1 .. Len(Tail(a)) : Tail(a)[i] = a[i + 1] /\ i + 1 \in 1 .. Len(a)
  BY HeadTailProperties, EmptySeq, LenProperties
<1> QED BY <1>1, <1>2 DEF Flight

\* The oldest answer is lost, or changes nothing.
LEMMA FlightRead ==
  ASSUME NEW c, NEW a \in Seq(Frame), a # <<>>, NEW u \in Seq(Frame), NEW agreed,
         Flight(c, a, u, agreed)
  PROVE  Flight(c, Tail(a), u, agreed)
<1>1. /\ \A x : May(c, x) /\ MayFollow(c, AnswerMark(Head(a)), x) => May(c, x)
      /\ \A x, y : May(c, x) /\ MayFollow(c, AnswerMark(Head(a)), x) /\ May(c, y)
                   /\ MayFollow(c, AnswerMark(Head(a)), y) /\ MayFollow(c, x, y)
                     => MayFollow(c, x, y)
  OBVIOUS
<1>2. c.password = c.password
  OBVIOUS
<1> QED BY <1>1, <1>2, FlightConsumed

LEMMA FlightHead ==
  ASSUME NEW c, NEW a \in Seq(Frame), a # <<>>, NEW u, NEW agreed, Flight(c, a, u, agreed)
  PROVE  May(c, AnswerMark(Head(a))) /\ AnswerOK(Head(a), agreed) /\ Head(a) \in Frame
<1>1. Head(a) = a[1] /\ 1 \in 1 .. Len(a) /\ Head(a) \in Frame
  BY HeadTailProperties, EmptySeq, LenProperties
<1> QED BY <1>1 DEF Flight, Trail

\* The client sends the request of its phase, for the first time or again.
LEMMA FlightAsks ==
  ASSUME NEW c \in Client, c.phase \in {"Lcp", "Auth", "Ipcp"}, ~c.ours, NEW agreed,
         ClientOK(c, agreed), NEW a \in Seq(Frame), NEW u \in Seq(Frame), Flight(c, a, u, agreed)
  PROVE  Request(c) \in Frame /\ Flight(c, a, Append(u, Request(c)), agreed)
<1> DEFINE r == Request(c)
<1>1. /\ r.id = c.id /\ r.opts = c.ask /\ r.proto = Proto(c)
      /\ r.code = (IF Proto(c) = "PAP" THEN "AuthReq" ELSE "ConfReq")
  BY DEF Request, Ask
<1>2. Proto(c) = (CASE c.phase = "Lcp" -> "LCP" [] c.phase = "Auth" -> "PAP" [] OTHER -> "IPCP")
  BY DEF Proto
<1>3. r \in Frame
  BY <1>2 DEF Request, Ask, Client, Frame, Protos, Codes
<1> HIDE DEF r
<1>4. RequestOK(r, c.password)
  BY <1>1, <1>2 DEF RequestOK, ClientOK
<1>5. Good # Bad
  BY DEF Good, Bad
<1>6. May(c, RequestMark(r)) /\ \A x : May(c, x) => MayFollow(c, x, RequestMark(r))
  BY <1>1, <1>2, <1>5 DEF May, MayFollow, RequestMark, ClientOK
<1>7. Trail(c, a, Append(u, r))
  BY <1>3, <1>6, TrailAppendRequest DEF Flight
<1> QED BY <1>3, <1>4, <1>7, RequestsAppend DEF Flight, r

\* The client starts over with LCP, or with IPCP once it was up.
LEMMA FlightReopens ==
  ASSUME NEW c \in Client, NEW agreed, ClientOK(c, agreed), NEW a \in Seq(Frame),
         NEW u \in Seq(Frame), Flight(c, a, u, agreed), NEW d,
         \/ /\ c.phase \in {"Auth", "Ipcp", "Up"} /\ d = NewAsk(c, "Lcp", {"accm", "magic"})
         \/ /\ c.phase = "Up" /\ d = NewAsk(c, "Ipcp", Good)
  PROVE  /\ d \in Client /\ d.password = c.password /\ d.phase \in {"Lcp", "Ipcp"}
         /\ ~d.ours /\ ClientOK(d, agreed)
         /\ Request(d) \in Frame /\ Flight(d, a, Append(u, Request(d)), agreed)
<1>1. {"accm", "magic"} \in SUBSET Options /\ Good \in SUBSET Options
  BY DEF Options, LcpOptions, IpcpOptions, Good
<1>2. /\ d \in Client /\ d.password = c.password /\ ~d.ours /\ d.id = NextId(c.id)
      /\ \/ c.phase \in {"Auth", "Ipcp", "Up"} /\ d.phase = "Lcp"
         \/ c.phase = "Up" /\ d.phase = "Ipcp" /\ d.ask = Good
  BY <1>1, NewAskIs
<1>3. Good # Bad
  BY DEF Good, Bad
<1>4. ClientOK(d, agreed)
  BY <1>2 DEF ClientOK
<1>5. /\ \A x : May(c, x) => May(d, x)
      /\ \A x, y : May(c, x) /\ May(c, y) /\ MayFollow(c, x, y) => MayFollow(d, x, y)
  BY <1>2, <1>3 DEF May, MayFollow, ClientOK
<1>6. Flight(d, a, u, agreed)
  BY <1>2, <1>5, FlightRecast
<1> QED BY <1>2, <1>4, <1>6, FlightAsks

LEMMA AppendOne == ASSUME NEW u \in Seq(Frame) PROVE /\ u \o <<>> = u
                                                    /\ \A r \in Frame : u \o <<r>> = Append(u, r)
  BY ConcatEmptySeq, AppendIsConcat

\* Both requests acknowledged: the next protocol.
LEMMA FlightAdvances ==
  ASSUME NEW c \in Client, c.phase \in {"Lcp", "Auth", "Ipcp", "Up"}, NEW agreed,
         ClientOK(c, agreed), NEW a \in Seq(Frame), NEW u \in Seq(Frame), Flight(c, a, u, agreed)
  PROVE  /\ Advance(c) \in Client /\ Advance(c).password = c.password
         /\ ClientOK(Advance(c), agreed)
         /\ u \o Sends(c, Advance(c)) \in Seq(Frame)
         /\ Flight(Advance(c), a, u \o Sends(c, Advance(c)), agreed)
<1> DEFINE d == Advance(c)
<1>1. {c.password} \in SUBSET Options /\ Bad \in SUBSET Options /\ c.id \in Ids
  BY DEF Client, Options, IpcpOptions, Bad
<1>2. CASE ~(c.ours /\ c.theirs)
  <2>1. d = c /\ Sends(c, d) = <<>>
    BY <1>2 DEF Advance, Sends
  <2> QED BY <2>1, AppendOne
<1>3. CASE c.ours /\ c.theirs /\ c.phase = "Lcp"
  <2>1. \/ d = NewAsk(c, "Auth", {c.password})
        \/ d = NewAsk(c, "Ipcp", Bad)
    BY <1>3 DEF Advance, Bad, Client
  <2> HIDE DEF d
  <2>2. /\ d \in Client /\ d.password = c.password /\ ~d.ours /\ ~d.theirs /\ d.id = NextId(c.id)
        /\ \/ d.phase = "Auth" /\ d.ask = {c.password}
           \/ d.phase = "Ipcp" /\ d.ask = Bad
    BY <1>1, <2>1, NewAskIs
  <2>3. Good # Bad
    BY DEF Good, Bad
  <2>4. ClientOK(d, agreed)
    BY <2>2 DEF ClientOK
  <2>5. /\ \A x : May(c, x) => May(d, x)
        /\ \A x, y : May(c, x) /\ May(c, y) /\ MayFollow(c, x, y) => MayFollow(d, x, y)
    BY <1>1, <1>3, <2>2, <2>3, IdsDiffer DEF May, MayFollow
  <2>6. Flight(d, a, u, agreed)
    BY <2>2, <2>5, FlightRecast
  <2>7. Request(d) \in Frame /\ Flight(d, a, Append(u, Request(d)), agreed)
    BY <2>2, <2>4, <2>6, FlightAsks
  <2>8. Sends(c, d) = <<Request(d)>>
    BY <1>3, <2>2 DEF Sends
  <2>9. u \o Sends(c, d) = Append(u, Request(d)) /\ Append(u, Request(d)) \in Seq(Frame)
    BY <2>7, <2>8, AppendOne, AppendProperties
  <2> QED BY <2>2, <2>4, <2>7, <2>9 DEF d
<1>4. CASE c.ours /\ c.theirs /\ c.phase \in {"Ipcp", "Up"}
  <2>1. d = [c EXCEPT !.phase = "Up"]
    BY <1>4 DEF Advance
  <2> HIDE DEF d
  <2>2. d \in Client /\ d.password = c.password /\ d.phase = "Up" /\ d.ask = c.ask
    BY <2>1 DEF Client
  <2>3. ClientOK(d, agreed) /\ c.ask = Good
    BY <1>4, <2>2 DEF ClientOK
  <2>4. /\ \A x : May(c, x) => May(d, x)
        /\ \A x, y : May(c, x) /\ May(c, y) /\ MayFollow(c, x, y) => MayFollow(d, x, y)
    BY <1>4, <2>2, <2>3 DEF May, MayFollow
  <2>5. Flight(d, a, u, agreed)
    BY <2>2, <2>4, FlightRecast
  <2>6. Sends(c, d) = <<>>
    BY <2>2 DEF Sends
  <2> QED BY <2>2, <2>3, <2>5, <2>6, AppendOne DEF d
<1> QED BY <1>2, <1>3, <1>4 DEF ClientOK

LEMMA ConcatTail ==
  ASSUME NEW a \in Seq(Frame), NEW b \in Seq(Frame), a # <<>>
  PROVE  /\ a \o b \in Seq(Frame) /\ a \o b # <<>>
         /\ Head(a \o b) = Head(a) /\ Tail(a \o b) = Tail(a) \o b
<1>1. /\ Tail(a) \in Seq(Frame) /\ Len(Tail(a)) = Len(a) - 1 /\ Len(a) \in Nat /\ Len(a) > 0
      /\ \A i \in 1 .. Len(Tail(a)) : Tail(a)[i] = a[i + 1]
      /\ Len(b) \in Nat /\ Head(a) = a[1]
  BY HeadTailProperties, EmptySeq, LenProperties
<1> DEFINE s == a \o b
           t == Tail(a) \o b
<1>2. /\ s \in Seq(Frame) /\ Len(s) = Len(a) + Len(b)
      /\ \A i \in 1 .. Len(a) + Len(b) : s[i] = IF i <= Len(a) THEN a[i] ELSE b[i - Len(a)]
  BY ConcatProperties
<1>3. /\ t \in Seq(Frame) /\ Len(t) = Len(a) - 1 + Len(b)
      /\ \A i \in 1 .. Len(a) - 1 + Len(b) :
           t[i] = IF i <= Len(a) - 1 THEN Tail(a)[i] ELSE b[i - (Len(a) - 1)]
  <2>1. /\ t \in Seq(Frame) /\ Len(t) = Len(Tail(a)) + Len(b)
        /\ \A i \in 1 .. Len(Tail(a)) + Len(b) :
             t[i] = IF i <= Len(Tail(a)) THEN Tail(a)[i] ELSE b[i - Len(Tail(a))]
    BY <1>1, ConcatProperties
  <2> HIDE DEF t
  <2> QED BY <1>1, <2>1
<1> HIDE DEF s, t
<1>4. s # <<>> /\ Head(s) = s[1] /\ s[1] = a[1]
  BY <1>1, <1>2
<1>5. /\ Tail(s) \in Seq(Frame) /\ Len(Tail(s)) = Len(s) - 1
      /\ \A i \in 1 .. Len(Tail(s)) : Tail(s)[i] = s[i + 1]
  BY <1>2, <1>4, HeadTailProperties
<1>6. ASSUME NEW i \in 1 .. Len(Tail(s)) PROVE Tail(s)[i] = t[i]
  <2>1. i \in 1 .. Len(a) - 1 + Len(b) /\ i + 1 \in 1 .. Len(a) + Len(b)
    BY <1>1, <1>2, <1>5, <1>6
  <2>2. CASE i <= Len(a) - 1
    BY <1>1, <1>2, <1>3, <1>5, <1>6, <2>1, <2>2
  <2>3. CASE ~(i <= Len(a) - 1)
    <3>1. Tail(s)[i] = b[i + 1 - Len(a)] /\ t[i] = b[i - (Len(a) - 1)]
      BY <1>1, <1>2, <1>3, <1>5, <1>6, <2>1, <2>3
    <3>2. i + 1 - Len(a) = i - (Len(a) - 1)
      BY <1>1, <2>1
    <3> QED BY <3>1, <3>2
  <2> QED BY <2>2, <2>3
<1>7. Tail(s) = t
  <2>1. Len(Tail(s)) = Len(t)
    BY <1>1, <1>2, <1>3, <1>5
  <2> QED BY <1>3, <1>5, <1>6, <2>1, SeqEqual
<1> QED BY <1>1, <1>2, <1>4, <1>7 DEF s, t

\* The client's half of the invariant: it is d, and a and u are in flight.
Half(d, a, u, agreed) ==
  /\ d \in Client /\ d.password = client.password /\ ClientOK(d, agreed)
  /\ u \in Seq(Frame) /\ Flight(d, a, u, agreed)

\* Marking what is acknowledged changes nothing else.
LEMMA MarkedClient ==
  ASSUME NEW c \in Client, NEW f
  PROVE  LET d == [c EXCEPT !.theirs = TRUE,
                            !.pap = IF f.proto = "LCP" THEN "pap" \in f.opts ELSE @]
         IN  /\ d \in Client /\ d.phase = c.phase /\ d.id = c.id /\ d.ask = c.ask
             /\ d.ours = c.ours /\ d.password = c.password
<1> DEFINE b == IF f.proto = "LCP" THEN "pap" \in f.opts ELSE c.pap
<1>1. b \in BOOLEAN
  <2>1. CASE f.proto = "LCP"
    <3>1. "pap" \in f.opts => b = TRUE
      BY <2>1
    <3>2. "pap" \notin f.opts => b = FALSE
      BY <2>1
    <3> HIDE DEF b
    <3> QED BY <3>1, <3>2
  <2>2. CASE f.proto # "LCP"
    <3>1. b = c.pap
      BY <2>2
    <3> HIDE DEF b
    <3> QED BY <3>1 DEF Client
  <2> QED BY <2>1, <2>2
<1> HIDE DEF b
<1>2. [c EXCEPT !.theirs = TRUE, !.pap = b] \in Client
  BY <1>1 DEF Client
<1>3. LET d == [c EXCEPT !.theirs = TRUE, !.pap = b]
      IN  d.phase = c.phase /\ d.id = c.id /\ d.ask = c.ask /\ d.ours = c.ours
          /\ d.password = c.password
  BY DEF Client
<1> QED BY <1>2, <1>3 DEF b

\* A request of the server is acknowledged, after reopening what was open.
LEMMA AcksKeep ==
  ASSUME NEW a \in Seq(Frame), NEW agreed, Half(client, a, up, agreed), Present,
         NEW f \in Frame, ClientAcks(f)
  PROVE  Half(client', a, up', agreed)
<1> DEFINE c == Reopened(client, f)
           d == [c EXCEPT !.theirs = TRUE,
                          !.pap = IF f.proto = "LCP" THEN "pap" \in f.opts ELSE @]
           e == Advance(d)
           ack == Reply(f, "ConfAck", f.opts)
           v == up \o (IF c # client THEN <<Request(c)>> ELSE <<>>)
           w == v \o <<ack>>
<1>1. /\ f.proto = "LCP" \/ (f.proto = "IPCP" /\ client.phase \in {"Ipcp", "Up"})
      /\ client' = e /\ up' = w \o Sends(d, e)
  BY DEF ClientAcks
<1>2. /\ ack \in Frame /\ ack.code = "ConfAck"
  BY ReplyOptions, ReplyType DEF Reply, Frame
<1>3. client \in Client /\ client.phase \in {"Lcp", "Auth", "Ipcp", "Up"} /\ up \in Seq(Frame)
  BY DEF Half, Present, Client
<1>4. Half(c, a, v, agreed) /\ c.phase \in {"Lcp", "Ipcp"}
  <2>1. CASE c = client
    <3>1. v = up
      BY <1>3, <2>1, AppendOne
    <3>2. client.phase \in {"Lcp", "Ipcp"}
      <4>1. ASSUME client.phase = "Auth" \/ client.phase = "Up"
            PROVE  \/ c = NewAsk(client, "Lcp", {"accm", "magic"})
                   \/ c = NewAsk(client, "Ipcp", Good)
        BY <1>1, <4>1 DEF Reopened, Good
      <4>2. {"accm", "magic"} \in SUBSET Options /\ Good \in SUBSET Options
        BY DEF Options, LcpOptions, IpcpOptions, Good
      <4>3. ASSUME client.phase = "Auth" \/ client.phase = "Up"
            PROVE  c.phase \in {"Lcp", "Ipcp"}
        <5> HIDE DEF c
        <5> QED BY <1>3, <4>1, <4>2, <4>3, NewAskIs
      <4> HIDE DEF c
      <4> QED BY <1>3, <2>1, <4>3
    <3> HIDE DEF c, v
    <3> QED BY <2>1, <3>1, <3>2
  <2>2. CASE c # client
    <3>1. \/ /\ client.phase \in {"Auth", "Ipcp", "Up"}
             /\ c = NewAsk(client, "Lcp", {"accm", "magic"})
          \/ client.phase = "Up" /\ c = NewAsk(client, "Ipcp", Good)
      BY <1>1, <1>3, <2>2 DEF Reopened, Good
    <3>2. v = up \o <<Request(c)>>
      BY <2>2
    <3> HIDE DEF c, v
    <3>3. /\ c \in Client /\ c.password = client.password /\ c.phase \in {"Lcp", "Ipcp"}
          /\ ClientOK(c, agreed) /\ Request(c) \in Frame
          /\ Flight(c, a, Append(up, Request(c)), agreed)
      BY <1>3, <3>1, FlightReopens DEF Half
    <3>4. v = Append(up, Request(c)) /\ v \in Seq(Frame)
      BY <1>3, <3>2, <3>3, AppendOne, AppendProperties
    <3> QED BY <3>3, <3>4 DEF Half
  <2> QED BY <2>1, <2>2
<1> HIDE DEF c, v, ack
<1>5. w = Append(v, ack) /\ w \in Seq(Frame) /\ Flight(c, a, w, agreed)
  <2>1. w = Append(v, ack) /\ w \in Seq(Frame)
    BY <1>2, <1>4, AppendOne, AppendProperties DEF Half
  <2>2. Neutral(RequestMark(ack)) /\ RequestOK(ack, c.password)
    BY <1>2 DEF Neutral, RequestMark, RequestOK
  <2> QED BY <1>2, <1>4, <2>1, <2>2, FlightAside DEF Half
<1>6. /\ d \in Client /\ d.phase = c.phase /\ d.id = c.id /\ d.ask = c.ask /\ d.ours = c.ours
      /\ d.password = c.password
  <2>1. c \in Client
    BY <1>4 DEF Half
  <2> QED BY <2>1, MarkedClient
<1> HIDE DEF d, w
<1>7. ClientOK(d, agreed)
  BY <1>4, <1>6 DEF Half, ClientOK
<1>8. /\ \A x : May(c, x) => May(d, x)
      /\ \A x, y : May(c, x) /\ May(c, y) /\ MayFollow(c, x, y) => MayFollow(d, x, y)
  BY <1>6 DEF May, MayFollow
<1>9. Flight(d, a, w, agreed)
  BY <1>5, <1>6, <1>8, FlightRecast
<1>10. /\ e \in Client /\ e.password = d.password /\ ClientOK(e, agreed)
       /\ w \o Sends(d, e) \in Seq(Frame) /\ Flight(e, a, w \o Sends(d, e), agreed)
  BY <1>4, <1>5, <1>6, <1>7, <1>9, FlightAdvances
<1> HIDE DEF e
<1> QED BY <1>1, <1>4, <1>6, <1>10 DEF Half

\* The server acknowledges what the client asks.
LEMMA IsAckedKeep ==
  ASSUME NEW a \in Seq(Frame), a # <<>>, NEW agreed, Half(client, a, up, agreed),
         ClientIsAcked(Head(a))
  PROVE  Half(client', Tail(a), up', agreed)
<1> DEFINE f == Head(a)
           h == AnswerMark(f)
           d == [client EXCEPT !.ours = TRUE]
           e == Advance(d)
<1>1. /\ f.code = "ConfAck" /\ f.proto = Proto(client) /\ f.id = client.id
      /\ client.phase \in {"Lcp", "Ipcp"} /\ client' = e /\ up' = up \o Sends(d, e)
  BY DEF ClientIsAcked
<1>2. /\ client \in Client /\ ClientOK(client, agreed) /\ up \in Seq(Frame)
      /\ Flight(client, a, up, agreed) /\ Tail(a) \in Seq(Frame)
  BY HeadTailProperties, EmptySeq DEF Half
<1>3. May(client, h) /\ AnswerOK(f, agreed)
  BY <1>2, FlightHead
<1>4. h.kind = Proto(client) /\ h.id = client.id /\ h.good
  BY <1>1 DEF AnswerMark, AnswerCodes
<1>5. /\ d \in Client /\ d.phase = client.phase /\ d.id = client.id /\ d.ask = client.ask
      /\ d.ours /\ d.password = client.password
  BY <1>2 DEF Client
<1> HIDE DEF d, h, f
<1>6. client.phase = "Lcp" => h.kind = "LCP"
  BY <1>4 DEF Proto
<1>7. client.phase = "Ipcp" => agreed /\ client.ask = Good
  BY <1>1, <1>2, <1>3, <1>4 DEF Proto, May, ClientOK, AnswerOK
<1>8. ClientOK(d, agreed)
  BY <1>1, <1>5, <1>7 DEF ClientOK
<1>9. /\ \A x : May(client, x) /\ MayFollow(client, h, x) => May(d, x)
      /\ \A x, y : May(client, x) /\ MayFollow(client, h, x) /\ May(client, y)
                   /\ MayFollow(client, h, y) /\ MayFollow(client, x, y)
                     => MayFollow(d, x, y)
  <2>1. \A x, y : MayFollow(client, x, y) => MayFollow(d, x, y)
    BY <1>5 DEF MayFollow
  <2>2. \A x : May(client, x) /\ MayFollow(client, h, x) => May(d, x)
    BY <1>1, <1>4, <1>5, <1>6 DEF May, MayFollow
  <2> QED BY <2>1, <2>2
<1>10. Flight(d, Tail(a), up, agreed)
  BY <1>2, <1>5, <1>9, FlightConsumed DEF h, f
<1>11. /\ e \in Client /\ e.password = d.password /\ ClientOK(e, agreed)
       /\ up \o Sends(d, e) \in Seq(Frame) /\ Flight(e, Tail(a), up \o Sends(d, e), agreed)
  BY <1>1, <1>2, <1>5, <1>8, <1>10, FlightAdvances
<1> HIDE DEF e
<1> QED BY <1>1, <1>5, <1>11 DEF Half

\* The server wants something else; of the address and the DNS server it says
\* which, so the client's next request is the one it grants.
LEMMA RefinesKeep ==
  ASSUME NEW a \in Seq(Frame), a # <<>>, NEW agreed, Half(client, a, up, agreed),
         ClientRefines(Head(a))
  PROVE  Half(client', Tail(a), up', agreed)
<1> DEFINE f == Head(a)
           h == AnswerMark(f)
           ask == Refined(client, f)
           d == [client EXCEPT !.id = NextId(@), !.ask = ask]
<1>1. /\ f.code \in {"ConfNak", "ConfRej"} /\ f.proto = Proto(client) /\ f.id = client.id
      /\ client.phase \in {"Lcp", "Ipcp"} /\ ~client.ours
      /\ client' = d /\ up' = Append(up, Request(d))
  BY DEF ClientRefines
<1>2. /\ client \in Client /\ ClientOK(client, agreed) /\ up \in Seq(Frame)
      /\ Flight(client, a, up, agreed) /\ Tail(a) \in Seq(Frame)
  BY HeadTailProperties, EmptySeq DEF Half
<1>3. AnswerOK(f, agreed) /\ f \in Frame
  BY <1>2, FlightHead
<1>4. h.kind = Proto(client) /\ h.id = client.id
  BY <1>1 DEF AnswerMark, AnswerCodes
<1>5. ask \in SUBSET Options
  <2>1. client.ask \in SUBSET Options /\ f.opts \in SUBSET Options
    BY <1>2, <1>3 DEF Client, Frame
  <2> HIDE DEF f
  <2> QED BY <2>1 DEF Refined
<1>6. NextId(client.id) \in Ids /\ client.id # NextId(client.id)
  BY <1>2, IdsDiffer DEF Client
<1>7. client.phase = "Ipcp" => ask = Good
  <2>1. ASSUME client.phase = "Ipcp" PROVE ask = Good
    <3>1. f.code = "ConfNak" /\ f.opts = Good /\ client.ask \in {Good, Bad}
      BY <1>1, <1>2, <1>3, <2>1 DEF Proto, AnswerOK, ClientOK
    <3> HIDE DEF f
    <3>2. ask = (client.ask \ {"addr_bad", "dns_bad"}) \cup Good
      BY <3>1 DEF Refined, Good
    <3> HIDE DEF ask
    <3> QED BY <3>1, <3>2 DEF Good, Bad
  <2> QED BY <2>1
<1> HIDE DEF ask
<1>8. /\ d \in Client /\ d.phase = client.phase /\ d.id = NextId(client.id) /\ d.ask = ask
      /\ ~d.ours /\ d.password = client.password
  BY <1>1, <1>2, <1>5, <1>6 DEF Client
<1> HIDE DEF d, h, f
<1>9. ClientOK(d, agreed)
  BY <1>1, <1>7, <1>8 DEF ClientOK
<1>10. Good # Bad
  BY DEF Good, Bad
<1>11. /\ \A x : May(client, x) /\ MayFollow(client, h, x) => May(d, x)
       /\ \A x, y : May(client, x) /\ MayFollow(client, h, x) /\ May(client, y)
                    /\ MayFollow(client, h, y) /\ MayFollow(client, x, y)
                      => MayFollow(d, x, y)
  <2>1. CASE client.phase = "Lcp"
    <3>1. h.kind = "LCP"
      BY <1>4, <2>1 DEF Proto
    <3>2. \A x : May(d, x)
      BY <1>8, <2>1 DEF May
    <3>3. \A x : MayFollow(client, h, x) => (x.kind = "LCP" => x.id # d.id)
      BY <1>4, <1>6, <1>8, <2>1, <3>1 DEF MayFollow
    <3>4. \A x, y : (x.kind = "LCP" => x.id # d.id) => MayFollow(d, x, y)
      BY <1>8, <2>1 DEF MayFollow
    <3> QED BY <3>2, <3>3, <3>4
  <2>2. CASE client.phase = "Ipcp"
    <3>1. h.kind = "IPCP" /\ d.ask = Good /\ client.ask \in {Good, Bad}
      BY <1>2, <1>4, <1>7, <1>8, <2>2 DEF Proto, ClientOK
    <3>2. \A x, y : MayFollow(d, x, y)
      BY <1>8, <1>10, <2>2, <3>1 DEF MayFollow
    <3>3. \A x : May(client, x) /\ MayFollow(client, h, x) => x.kind # "LCP"
      BY <1>10, <2>2, <3>1 DEF May, MayFollow
    <3>4. \A x : x.kind # "LCP" => May(d, x)
      BY <1>8, <1>10, <2>2, <3>1 DEF May
    <3> QED BY <3>2, <3>3, <3>4
  <2> QED BY <1>1, <2>1, <2>2
<1>12. Flight(d, Tail(a), up, agreed)
  BY <1>2, <1>8, <1>11, FlightConsumed DEF h, f
<1>13. Request(d) \in Frame /\ Flight(d, Tail(a), Append(up, Request(d)), agreed)
  BY <1>1, <1>2, <1>8, <1>9, <1>12, FlightAsks
<1>14. Append(up, Request(d)) \in Seq(Frame)
  BY <1>2, <1>13, AppendProperties
<1> QED BY <1>1, <1>8, <1>9, <1>13, <1>14 DEF Half

\* The password is accepted.
LEMMA PassedKeep ==
  ASSUME NEW a \in Seq(Frame), a # <<>>, NEW agreed, Half(client, a, up, agreed),
         ClientPassed(Head(a))
  PROVE  Half(client', Tail(a), up', agreed)
<1> DEFINE d == NewAsk(client, "Ipcp", Bad)
<1>1. client.phase = "Auth" /\ client' = d /\ up' = Append(up, Request(d))
  BY DEF ClientPassed, Bad
<1>2. /\ client \in Client /\ ClientOK(client, agreed) /\ up \in Seq(Frame)
      /\ Flight(client, a, up, agreed) /\ Tail(a) \in Seq(Frame)
  BY HeadTailProperties, EmptySeq DEF Half
<1>3. Bad \in SUBSET Options
  BY DEF Options, IpcpOptions, Bad
<1>4. /\ d \in Client /\ d.phase = "Ipcp" /\ d.id = NextId(client.id) /\ d.ask = Bad
      /\ ~d.ours /\ d.password = client.password
  BY <1>2, <1>3, NewAskIs
<1> HIDE DEF d
<1>5. Good # Bad
  BY DEF Good, Bad
<1>6. ClientOK(d, agreed)
  BY <1>4 DEF ClientOK
<1>7. /\ \A x : May(client, x) => May(d, x)
      /\ \A x, y : May(client, x) /\ May(client, y) /\ MayFollow(client, x, y)
                     => MayFollow(d, x, y)
  BY <1>1, <1>4, <1>5 DEF May, MayFollow
<1>8. Flight(d, Tail(a), up, agreed)
  <2>1. Flight(client, Tail(a), up, agreed)
    BY <1>2, FlightRead
  <2> QED BY <1>4, <1>7, <2>1, FlightRecast
<1>9. Request(d) \in Frame /\ Flight(d, Tail(a), Append(up, Request(d)), agreed)
  BY <1>2, <1>4, <1>6, <1>8, FlightAsks
<1>10. Append(up, Request(d)) \in Seq(Frame)
  BY <1>2, <1>9, AppendProperties
<1> QED BY <1>1, <1>4, <1>6, <1>9, <1>10 DEF Half

\* Of a client that has gone nothing is said.
LEMMA FlightGone ==
  ASSUME NEW a \in Seq(Frame), NEW u \in Seq(Frame), NEW agreed,
         Half(client, a, u, agreed), NEW d, NEW p \in {"Gone", "Vanished"},
         d = [client EXCEPT !.phase = p]
  PROVE  Half(d, a, u, agreed)
<1>1. d \in Client /\ d.phase = p /\ d.password = client.password
  BY DEF Half, Client
<1>2. (\A x : May(d, x)) /\ (\A x, y : MayFollow(d, x, y)) /\ ClientOK(d, agreed)
  BY <1>1 DEF May, MayFollow, ClientOK
<1>3. Flight(d, a, u, agreed)
  BY <1>1, <1>2, FlightRecast DEF Half
<1> QED BY <1>1, <1>2, <1>3 DEF Half

\* The answer is read, and changes nothing.
LEMMA ReadKeep ==
  ASSUME NEW a \in Seq(Frame), a # <<>>, NEW agreed, Half(client, a, up, agreed)
  PROVE  Half(client, Tail(a), up, agreed) /\ Tail(a) \in Seq(Frame)
  BY HeadTailProperties, EmptySeq, FlightRead DEF Half

\* The password is not accepted.
LEMMA RefusedKeep ==
  ASSUME NEW a \in Seq(Frame), a # <<>>, NEW agreed, Half(client, a, up, agreed),
         ClientRefused(Head(a))
  PROVE  Half(client', Tail(a), up', agreed)
<1> DEFINE r == [proto |-> "LCP", code |-> "TermReq", id |-> client.id, opts |-> {}]
<1>1. client' = [client EXCEPT !.phase = "Gone"] /\ up' = Append(up, r)
  BY DEF ClientRefused
<1>2. r \in Frame /\ Neutral(RequestMark(r)) /\ RequestOK(r, client'.password)
  BY DEF Half, Client, Frame, Protos, Codes, Neutral, RequestMark, RequestOK
<1> HIDE DEF r
<1>3. Half(client, Tail(a), up, agreed) /\ Tail(a) \in Seq(Frame) /\ up \in Seq(Frame)
  BY ReadKeep DEF Half
<1>4. Half(client', Tail(a), up, agreed)
  BY <1>1, <1>3, FlightGone
<1>5. up' \in Seq(Frame) /\ Flight(client', Tail(a), up', agreed)
  BY <1>1, <1>2, <1>3, <1>4, AppendProperties, FlightAside DEF Half
<1> QED BY <1>4, <1>5 DEF Half

\* The invariant, by its halves: nothing but client, up and down changes.
LEMMA HalfOfLink ==
  /\ LinkInv => Half(client, Answers, up, Agreed) /\ Answers \in Seq(Frame)
  /\ LinkInv /\ UNCHANGED vars /\ down' \in Seq(Frame)
       /\ Half(client', Answers', up', Agreed) => LinkInv'
<1>1. ASSUME LinkInv PROVE Half(client, Answers, up, Agreed) /\ Answers \in Seq(Frame)
  BY <1>1, ConcatProperties DEF LinkInv, IInv, TypeOK, Half, Answers
<1>2. ASSUME LinkInv, UNCHANGED vars, down' \in Seq(Frame),
             Half(client', Answers', up', Agreed)
      PROVE  LinkInv'
  <2>1. IInv'
    BY <1>2, StepIInv DEF LinkInv
  <2>2. client'.password = client.password
    BY <1>2 DEF Half
  <2>3. UNCHANGED <<ourLcpAcked, peerLcpAcked, peerIpcpAcked, authenticatedUser>>
    BY <1>2 DEF vars, lcpVars, ipcpVars, authVars
  <2>4. Agreed' = Agreed
    BY <2>2, <2>3 DEF Agreed
  <2> QED BY <1>2, <2>1, <2>2, <2>3, <2>4 DEF LinkInv, Half
<1> QED BY <1>1, <1>2

LEMMA ClientReceivesInv == ASSUME LinkInv, ClientReceives PROVE LinkInv'
<1> DEFINE a == Answers
           agreed == Agreed
<1>1. /\ Present /\ down # <<>> /\ down' = Tail(down) /\ UNCHANGED vars
      /\ ClientHandles(Head(down)) \/ UNCHANGED <<client, up>>
  BY DEF ClientReceives
<1>2. /\ down \in Seq(Frame) /\ serialTx \in Seq(Frame) /\ serialTx' = serialTx
      /\ Half(client, a, up, agreed) /\ a \in Seq(Frame)
  BY <1>1, HalfOfLink DEF LinkInv, IInv, TypeOK, vars
<1>3. a # <<>> /\ Head(a) = Head(down) /\ Answers' = Tail(a) /\ down' \in Seq(Frame)
  BY <1>1, <1>2, ConcatTail, HeadTailProperties, EmptySeq DEF Answers
<1> HIDE DEF a, agreed
<1>4. Half(client', Tail(a), up', agreed)
  <2>1. Half(client, Tail(a), up, agreed) /\ Tail(a) \in Seq(Frame)
    BY <1>2, <1>3, ReadKeep
  <2>2. CASE UNCHANGED <<client, up>>
    BY <2>1, <2>2
  <2>3. CASE ClientAcks(Head(a))
    <3>1. Head(a) \in Frame
      BY <1>2, <1>3, FlightHead DEF Half
    <3> QED BY <1>1, <2>1, <2>3, <3>1, AcksKeep
  <2>4. CASE ClientIsAcked(Head(a))
    BY <1>2, <1>3, <2>4, IsAckedKeep
  <2>5. CASE ClientRefines(Head(a))
    BY <1>2, <1>3, <2>5, RefinesKeep
  <2>6. CASE ClientPassed(Head(a))
    BY <1>2, <1>3, <2>6, PassedKeep
  <2>7. CASE ClientRefused(Head(a))
    BY <1>2, <1>3, <2>7, RefusedKeep
  <2> QED BY <1>1, <1>3, <2>2, <2>3, <2>4, <2>5, <2>6, <2>7 DEF ClientHandles
<1> QED BY <1>1, <1>3, <1>4, HalfOfLink DEF agreed

\* What the client does by itself.
LEMMA ClientAloneInv ==
  ASSUME LinkInv, ClientRepeats \/ ClientRestarts \/ ClientVanishes
  PROVE  LinkInv'
<1>1. /\ UNCHANGED <<vars, down>>
  BY DEF ClientRepeats, ClientRestarts, ClientVanishes, lineVars
<1>2. /\ Half(client, Answers, up, Agreed) /\ Answers \in Seq(Frame) /\ down \in Seq(Frame)
      /\ down' = down /\ Answers' = Answers /\ up \in Seq(Frame)
  BY <1>1, HalfOfLink DEF LinkInv, Answers, vars
<1>3. CASE ClientRepeats
  <2>1. /\ client.phase \in {"Lcp", "Auth", "Ipcp"} /\ ~client.ours /\ client' = client
        /\ up = <<>> /\ up' = <<Request(client)>>
    BY <1>3 DEF ClientRepeats, Waiting
  <2>2. Request(client) \in Frame /\ Flight(client, Answers, Append(up, Request(client)), Agreed)
    BY <1>2, <2>1, FlightAsks DEF Half
  <2>3. up' = Append(up, Request(client)) /\ up' \in Seq(Frame)
    BY <1>2, <2>1, <2>2, AppendProperties
  <2>4. Half(client', Answers', up', Agreed)
    BY <1>2, <2>1, <2>2, <2>3 DEF Half
  <2> QED BY <1>1, <1>2, <2>4, HalfOfLink
<1>4. CASE ClientRestarts
  <2>1. /\ client.phase = "Up" /\ client' = NewAsk(client, "Lcp", {"accm", "magic"})
        /\ up' = Append(up, Request(client'))
    BY <1>4 DEF ClientRestarts
  <2>2. /\ client' \in Client /\ client'.password = client.password /\ ClientOK(client', Agreed)
        /\ Request(client') \in Frame
        /\ Flight(client', Answers, Append(up, Request(client')), Agreed)
    BY <1>2, <2>1, FlightReopens DEF Half
  <2>3. up' \in Seq(Frame)
    BY <1>2, <2>1, <2>2, AppendProperties
  <2>4. Half(client', Answers', up', Agreed)
    BY <1>2, <2>1, <2>2, <2>3 DEF Half
  <2> QED BY <1>1, <1>2, <2>4, HalfOfLink
<1>5. CASE ClientVanishes
  <2>1. client' = [client EXCEPT !.phase = "Vanished"] /\ up' = up
    BY <1>5 DEF ClientVanishes, lineVars
  <2>2. Half(client', Answers', up', Agreed)
    BY <1>2, <2>1, FlightGone
  <2> QED BY <1>1, <1>2, <2>2, HalfOfLink
<1> QED BY <1>3, <1>4, <1>5

\* The answers a client that has gone does not hear.
LEMMA UnheardInv == ASSUME LinkInv, Unheard PROVE LinkInv'
<1>1. /\ client.phase \in {"Gone", "Vanished"} /\ down' = <<>>
      /\ UNCHANGED <<vars, up, client>>
  BY DEF Unheard, Present
<1>2. /\ down \in Seq(Frame) /\ serialTx \in Seq(Frame) /\ serialTx' = serialTx
      /\ Half(client, Answers, up, Agreed)
  BY <1>1, HalfOfLink DEF LinkInv, IInv, TypeOK, vars
<1>3. Answers' = serialTx /\ down' \in Seq(Frame)
  BY <1>1, <1>2, ConcatEmptySeq, EmptySeq DEF Answers
<1>4. (\A x : May(client, x)) /\ (\A x, y : MayFollow(client, x, y))
  BY <1>1 DEF May, MayFollow
<1>5. \A i \in 1 .. Len(serialTx) : AnswerOK(serialTx[i], Agreed)
  <2>1. /\ Len(Answers) = Len(down) + Len(serialTx) /\ Len(down) \in Nat /\ Len(serialTx) \in Nat
        /\ \A i \in 1 .. Len(down) + Len(serialTx) :
             Answers[i] = IF i <= Len(down) THEN down[i] ELSE serialTx[i - Len(down)]
    BY <1>2, ConcatProperties, LenProperties DEF Answers
  <2>2. \A i \in 1 .. Len(serialTx) : /\ i + Len(down) \in 1 .. Len(Answers)
                                      /\ serialTx[i] = Answers[i + Len(down)]
    <3> TAKE i \in 1 .. Len(serialTx)
    <3>1. i + Len(down) \in 1 .. Len(down) + Len(serialTx) /\ ~(i + Len(down) <= Len(down))
          /\ i + Len(down) - Len(down) = i
      BY <2>1
    <3> QED BY <2>1, <3>1
  <2> QED BY <1>2, <2>2 DEF Half, Flight
<1>6. Flight(client, serialTx, up, Agreed)
  BY <1>2, <1>4, <1>5 DEF Half, Flight, Trail
<1>7. Half(client', Answers', up', Agreed)
  BY <1>1, <1>2, <1>3, <1>6 DEF Half
<1> QED BY <1>1, <1>3, <1>7, HalfOfLink

\* The line loses the oldest frame of one direction.
LEMMA CorruptInv == ASSUME LinkInv, Corrupt PROVE LinkInv'
<1>1. UNCHANGED <<vars, client>>
  BY DEF Corrupt
<1>2. /\ up \in Seq(Frame) /\ down \in Seq(Frame) /\ serialTx \in Seq(Frame)
      /\ serialTx' = serialTx /\ Half(client, Answers, up, Agreed) /\ Answers \in Seq(Frame)
  BY <1>1, HalfOfLink DEF LinkInv, IInv, TypeOK, vars
<1>3. CASE up # <<>> /\ up' = Tail(up) /\ UNCHANGED down
  <2>1. Answers' = Answers /\ up' \in Seq(Frame)
    BY <1>2, <1>3, HeadTailProperties, EmptySeq DEF Answers
  <2>2. Flight(client, Answers, up', Agreed)
    BY <1>2, <1>3, FlightIgnored DEF Half
  <2>3. Half(client', Answers', up', Agreed)
    BY <1>1, <1>2, <2>1, <2>2 DEF Half
  <2> QED BY <1>1, <1>2, <1>3, <2>3, HalfOfLink
<1>4. CASE down # <<>> /\ down' = Tail(down) /\ UNCHANGED up
  <2>1. Answers # <<>> /\ Answers' = Tail(Answers) /\ down' \in Seq(Frame)
    BY <1>2, <1>4, ConcatTail, HeadTailProperties, EmptySeq DEF Answers
  <2>2. Half(client, Tail(Answers), up, Agreed)
    BY <1>2, <2>1, ReadKeep
  <2> QED BY <1>1, <1>4, <2>1, <2>2, HalfOfLink
<1> QED BY <1>3, <1>4 DEF Corrupt

-----------------------------------------------------------------------------
LEMMA InitLinkInv == ASSUME LinkInit PROVE LinkInv
<1>1. /\ IInv /\ up = <<>> /\ down = <<>> /\ serialTx = <<>> /\ authenticatedUser = NoUser
      /\ client.phase = "Lcp"
  BY InitIInv DEF LinkInit, Init, Blank
<1>2. client \in Client
  <2>1. IdSpace - 1 \in Ids /\ {"accm", "magic", "pfc"} \in SUBSET Options
    BY PppConstants, IdentifiersDiffer DEF Ids, Options, LcpOptions
  <2> QED BY <2>1 DEF LinkInit, Client
<1>3. Answers = <<>> /\ <<>> \in Seq(Frame) /\ Len(<<>>) = 0
  BY <1>1, EmptySeq, ConcatEmptySeq DEF Answers
<1>4. ClientOK(client, Agreed)
  BY <1>1 DEF ClientOK
<1>5. Flight(client, Answers, up, Agreed)
  BY <1>1, <1>3 DEF Flight, Trail
<1> QED BY <1>1, <1>2, <1>3, <1>4, <1>5 DEF LinkInv

LEMMA NextLinkInv == ASSUME LinkInv, [LinkNext]_linkVars PROVE LinkInv'
<1>1. CASE ServerSide
  BY <1>1, ServerSideInv
<1>2. CASE ClientSide
  BY <1>2, ClientReceivesInv, ClientAloneInv, UnheardInv DEF ClientSide
<1>3. CASE Corrupt
  BY <1>3, CorruptInv
<1>4. CASE UNCHANGED linkVars
  <2>1. UNCHANGED <<vars, up, down, client>>
    BY <1>4 DEF linkVars, lineVars
  <2>2. Answers' = Answers /\ down \in Seq(Frame)
    BY <2>1 DEF Answers, vars, LinkInv
  <2>3. Half(client', Answers', up', Agreed)
    BY <2>1, <2>2, HalfOfLink DEF Half
  <2> QED BY <2>1, <2>2, <2>3, HalfOfLink
<1> QED BY <1>1, <1>2, <1>3, <1>4 DEF LinkNext

LEMMA LinkInvariance == LinkSpec => []LinkInv
  BY InitLinkInv, NextLinkInv, PTL DEF LinkSpec

(* A client that considers itself connected uses the address the server    *)
(* assigned, the server acknowledged exactly that, and knows the client by *)
(* the password it presented: however many frames are lost, timers run out *)
(* early and restarts overtake each other.                                 *)
THEOREM EndsAgree == LinkSpec => []UpIsAgreed
<1>1. LinkInv => UpIsAgreed
  BY DEF LinkInv, ClientOK, Agreed, UpIsAgreed, Good
<1> QED BY <1>1, LinkInvariance, PTL

(* The server keeps its own promises towards this client: no IP traffic    *)
(* without the password, and Network only after both sides acknowledged.   *)
THEOREM ServerPromisesOnLink ==
  LinkSpec => [](OnlyAuthenticatedTraffic /\ NetworkIsNegotiated /\ RequestsAnswerable)
<1>1. LinkInv => OnlyAuthenticatedTraffic /\ NetworkIsNegotiated /\ RequestsAnswerable
  BY DEF LinkInv, IInv
<1> QED BY <1>1, LinkInvariance, PTL
=============================================================================
