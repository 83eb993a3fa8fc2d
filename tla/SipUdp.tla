------------------------------- MODULE SipUdp -------------------------------
(***************************************************************************)
(* SipRtpServer as a whole: calls and registration share the SIP socket    *)
(* and the loop that reads it, and nothing else; "the UAS still accepts    *)
(* direct LAN INVITEs while registered".                                   *)
(***************************************************************************)
EXTENDS SipRtp, SipRegister

vars == <<callVars, regVars>>

Init == CallInit /\ RegInit

Next == \/ CallNext /\ UNCHANGED regVars
        \/ RegNext /\ UNCHANGED callVars

Fairness == CallFairness /\ RegFairness

Spec == Init /\ [][Next]_vars /\ Fairness

TypeOK == CallTypeOK /\ RegTypeOK
=============================================================================
