---------------------------- MODULE DuelOutcome ----------------------------
(***************************************************************************)
(* What a duel owes its room: one verdict, given once.  The tournament     *)
(* (backend/ws/tournamentLifecycle.js) and the reconciliation read nothing *)
(* of a finished duel but these three columns of duels.                    *)
(***************************************************************************)
CONSTANTS Competitors, Reasons, Open

VARIABLE verdict        \* Open, or the winner and the end_reason

Init == verdict = Open

Decide(w, why) ==
    /\ verdict = Open
    /\ verdict' = [winner |-> w, reason |-> why]

Next == \E w \in Competitors, why \in Reasons : Decide(w, why)

Spec == Init /\ [][Next]_verdict
===========================================================================
