----------------------------- MODULE PppAccess -----------------------------
(***************************************************************************)
(* What the PPP server promises the operator of the dial-up service: who   *)
(* may exchange IP traffic, and when.  A caller moves up one stage at a    *)
(* time, a password is checked on every climb when the operator requires   *)
(* one, traffic is accepted only at the top, and falling back from the top *)
(* means climbing (and proving the password) again.                        *)
(***************************************************************************)
CONSTANTS RequirePap,     \* the operator demands a password
          Credentials,    \* user/password pairs a caller can present
          NoUser          \* nobody has been authenticated

VARIABLES stage,     \* "down", "challenge", "admitted" or "up"
          allowed,   \* the credentials the operator's file lists
          user,      \* who authenticated last
          traffic    \* TRUE while caller or Internet packets are queued

vars == <<stage, allowed, user, traffic>>

Init == /\ stage = "down"
        /\ allowed = {}
        /\ user = NoUser
        /\ traffic = FALSE

\* Packets already queued may leave at any step; none is added.
Drained == traffic' => traffic

\* The call is over, or a new one begins: everything is forgotten.
Forget == /\ stage' = "down" /\ allowed' = {} /\ user' = NoUser
          /\ traffic' = FALSE

\* The operator's file is read before negotiation starts.
ReadFile == /\ stage = "down" /\ stage' = "down"
            /\ allowed' \in SUBSET Credentials
            /\ user' = user /\ Drained

\* The link negotiation finishes (or finishes again) and a password is due.
Challenge == /\ RequirePap
             /\ stage' = "challenge"
             /\ UNCHANGED <<allowed, user>> /\ Drained

\* A listed credential is presented.
Authenticate == /\ stage = "challenge"
                /\ stage' = "admitted"
                /\ user' \in allowed
                /\ allowed' = allowed /\ Drained

\* Without a password the link negotiation alone admits the caller.
Admit == /\ ~RequirePap
         /\ stage' = "admitted"
         /\ UNCHANGED <<allowed, user>> /\ Drained

Open == /\ stage \in {"admitted", "up"}
        /\ stage' = "up"
        /\ UNCHANGED <<allowed, user>> /\ Drained

\* Failure or termination.
Drop == /\ stage' = "down"
        /\ UNCHANGED <<allowed, user>> /\ Drained

Carry == /\ stage = "up"
         /\ traffic' = TRUE
         /\ UNCHANGED <<stage, allowed, user>>

Drain == /\ Drained
         /\ UNCHANGED <<stage, allowed, user>>

Next == \/ Forget \/ ReadFile \/ Challenge \/ Authenticate \/ Admit
        \/ Open \/ Drop \/ Carry \/ Drain

Spec == Init /\ [][Next]_vars
=============================================================================
