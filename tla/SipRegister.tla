---------------------------- MODULE SipRegister ----------------------------
(***************************************************************************)
(* The registration of the UDP server with a SIP registrar that asks for   *)
(* Digest credentials.  The server sends a REGISTER at the start and when  *)
(* its timer runs out, with the credentials of the last challenge it       *)
(* answered.  It does not look which REGISTER an answer belongs to.  The   *)
(* registrar is external: it challenges a request whose nonce is not its   *)
(* own of the moment, may change the nonce, and may fail for a while.      *)
(***************************************************************************)
EXTENDS Naturals

CONSTANTS
  NoNonce,      \* reg_authorization_ is empty
  MaxNonce,     \* bound: the registrar changes its nonce so many times
  MaxTrouble    \* bound: messages lost, failed sends and refusals

ASSUME NonceBound == MaxNonce \in Nat /\ NoNonce \notin 0 .. MaxNonce
ASSUME TroubleBound == MaxTrouble \in Nat

VARIABLES
  registrar,    \* a registrar is configured (registration_enabled)
  password,     \* and our password is the one it knows
  registered, authAttempted, authorization,  \* reg_auth_attempted_ and the nonce in reg_authorization_
  registers,     \* the nonces of the REGISTERs on their way
  verdicts,      \* the registrar's answers on their way
  nonce,        \* the registrar's nonce
  trouble,      \* losses, failed sends and refusals so far
  unconfirmed,  \* history: credentials were sent, and no success has come since
  unlucky       \* history: the credentials sent were outdated at such a moment

regVars == <<registrar, password, registered, authAttempted, authorization,
             registers, verdicts, nonce, trouble, unconfirmed, unlucky>>

Nonces == 0 .. MaxNonce
Answer(kind, n) == [kind |-> kind, nonce |-> n]
Answers == {Answer(k, n) : k \in {"challenge"}, n \in Nonces}
           \cup {Answer("ok", NoNonce), Answer("failure", NoNonce)}

RegTypeOK ==
  /\ registrar \in BOOLEAN /\ password \in BOOLEAN
  /\ registered \in BOOLEAN /\ authAttempted \in BOOLEAN
  /\ authorization \in Nonces \cup {NoNonce}
  /\ registers \subseteq Nonces \cup {NoNonce} /\ verdicts \subseteq Answers
  /\ nonce \in Nonces /\ trouble \in 0 .. MaxTrouble
  /\ unconfirmed \in BOOLEAN /\ unlucky \in BOOLEAN

\* main sends the first REGISTER before its loop.
RegInit ==
  /\ registrar \in BOOLEAN /\ password \in BOOLEAN
  /\ registered = FALSE /\ authAttempted = FALSE /\ authorization = NoNonce
  /\ registers = (IF registrar THEN {NoNonce} ELSE {}) /\ verdicts = {}
  /\ nonce = 0 /\ trouble = 0 /\ unconfirmed = FALSE /\ unlucky = FALSE

RegTrouble == trouble < MaxTrouble /\ trouble' = trouble + 1

-----------------------------------------------------------------------------
(* The server. *)

\* The loop's timer: send_register.
Refresh ==
  /\ registrar
  /\ registers' = registers \cup {authorization}
  /\ UNCHANGED <<registrar, password, registered, authAttempted, authorization,
                 verdicts, nonce, trouble, unconfirmed, unlucky>>

\* Mutant: a success does not allow a new attempt.
OkKeepsAttempt(a) ==
  /\ a.kind = "ok" /\ registered' = TRUE /\ unconfirmed' = FALSE
  /\ UNCHANGED <<authAttempted, authorization, registers, trouble, unlucky>>
HandleOk(a) ==
  /\ a.kind = "ok"
  /\ registered' = TRUE /\ authAttempted' = FALSE /\ unconfirmed' = FALSE
  /\ UNCHANGED <<authorization, registers, trouble, unlucky>>

\* Mutant: every challenge is answered.
AnswerEveryChallenge(a) ==
  /\ a.kind = "challenge"
  /\ authAttempted' = TRUE /\ authorization' = a.nonce /\ unconfirmed' = TRUE
  /\ unlucky' = (unlucky \/ a.nonce # nonce)
  /\ registers' = registers \cup {a.nonce} /\ UNCHANGED <<registered, trouble>>
HandleChallenge(a) ==
  /\ a.kind = "challenge" /\ ~authAttempted
  /\ authAttempted' = TRUE /\ authorization' = a.nonce /\ unconfirmed' = TRUE
  /\ unlucky' = (unlucky \/ a.nonce # nonce)
  /\ \/ /\ registers' = registers \cup {a.nonce}
        /\ UNCHANGED <<registered, trouble>>
     \/ /\ RegTrouble /\ registered' = FALSE /\ registers' = registers

\* A second challenge, or any other refusal.
HandleRejection(a) ==
  /\ a.kind = "failure" \/ (a.kind = "challenge" /\ authAttempted)
  /\ registered' = FALSE
  /\ UNCHANGED <<authAttempted, authorization, registers, trouble, unconfirmed, unlucky>>

HandleResponse(a) ==
  /\ verdicts' = verdicts \ {a}
  /\ HandleOk(a) \/ HandleChallenge(a) \/ HandleRejection(a)
  /\ UNCHANGED <<registrar, password, nonce>>

-----------------------------------------------------------------------------
(* The registrar and the network. *)

Verdict(n) == IF n = nonce /\ password THEN Answer("ok", NoNonce)
                                       ELSE Answer("challenge", nonce)

RegistrarAnswers(n) ==
  /\ n \in registers /\ registers' = registers \ {n}
  /\ verdicts' = verdicts \cup {Verdict(n)}
  /\ UNCHANGED <<registrar, password, registered, authAttempted, authorization,
                 nonce, trouble, unconfirmed, unlucky>>

RegistrarFails(n) ==
  /\ n \in registers /\ registers' = registers \ {n} /\ RegTrouble
  /\ verdicts' = verdicts \cup {Answer("failure", NoNonce)}
  /\ UNCHANGED <<registrar, password, registered, authAttempted, authorization,
                 nonce, unconfirmed, unlucky>>

ChangeNonce ==
  /\ registrar /\ nonce < MaxNonce /\ nonce' = nonce + 1
  /\ unlucky' = (unlucky \/ unconfirmed)
  /\ UNCHANGED <<registrar, password, registered, authAttempted, authorization,
                 registers, verdicts, trouble, unconfirmed>>

LoseRequest(n) ==
  /\ n \in registers /\ registers' = registers \ {n} /\ RegTrouble
  /\ UNCHANGED <<registrar, password, registered, authAttempted, authorization,
                 verdicts, nonce, unconfirmed, unlucky>>
LoseAnswer(a) ==
  /\ verdicts' = verdicts \ {a} /\ RegTrouble
  /\ UNCHANGED <<registrar, password, registered, authAttempted, authorization,
                 registers, nonce, unconfirmed, unlucky>>

RegNext ==
  \/ Refresh \/ ChangeNonce
  \/ \E a \in verdicts : HandleResponse(a) \/ LoseAnswer(a)
  \/ \E n \in registers : RegistrarAnswers(n) \/ RegistrarFails(n) \/ LoseRequest(n)

\* The timer runs, the registrar answers and the loop reads its socket.
RegFairness ==
  /\ WF_regVars(Refresh)
  /\ \A n \in Nonces \cup {NoNonce} : WF_regVars(RegistrarAnswers(n))
  /\ \A a \in Answers : WF_regVars(a \in verdicts /\ HandleResponse(a))
-----------------------------------------------------------------------------
\* Whatever is lost, refused or answered late, and however often the
\* registrar changes its nonce, a server with the right password is
\* registered again and again, with one exception: the nonce changes after
\* the challenge was issued and before a success was heard, when
\* reg_auth_attempted_ stays set and no challenge is ever answered again.
RegistrationRecovers ==
  []<>(registrar /\ password => registered \/ unlucky)

\* A registrar that refuses our password is not pressed: credentials are
\* sent again only when the timer asks for it, so the exchange of REGISTER
\* and challenge cannot run on by itself.
NoChallengeLoop ==
  [][\A a \in verdicts : ~password /\ authorization # NoNonce /\ HandleResponse(a)
                        => registers' = registers]_regVars
=============================================================================
