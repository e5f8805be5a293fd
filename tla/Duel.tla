------------------------------- MODULE Duel -------------------------------
(***************************************************************************)
(* One duel between two people, with every handler run to completion       *)
(* before the next starts: what the server promises the players.  The      *)
(* handlers are those of backend/ws/duelHandlers.js and turnCycle.js, the  *)
(* rules those of RoundRules.  DuelServer models the same handlers cut at  *)
(* their awaits.                                                           *)
(*                                                                         *)
(* The phase store's lead_selection is status "pending" here: both are     *)
(* set by the bootstrap, and both end when the second lead is picked.      *)
(***************************************************************************)
EXTENDS RoundRules

CONSTANTS NoMove,       \* no pick buffered
          Nobody        \* winner_id IS NULL

ASSUME DuelAssumption ==
    /\ NoMove \notin Move
    /\ Nobody \notin Players

VARIABLES
    status,     \* duels.status
    winner,     \* duels.winner_id
    reason,     \* duels.end_reason
    rows,       \* duel_pokemon_state
    leads,      \* players whose lead was accepted (leadReady)
    picks       \* the turn buffer: the move each player has buffered

verdict == <<status, winner, reason>>
vars    == <<status, winner, reason, rows, leads, picks>>

NoPicks == [p \in Players |-> NoMove]

TypeOK ==
    /\ status \in {"pending", "in_progress", "finished"}
    /\ winner \in Players \cup {Nobody}
    /\ reason \in {"none", "ko", "surrender", "disconnect"}
    /\ rows \in Rows
    /\ leads \subseteq Players
    /\ picks \in [Players -> Move \cup {NoMove}]

\* createDuelFromRoom: a pending duel, every row seeded and inactive.
Init ==
    /\ status = "pending"
    /\ winner = Nobody
    /\ reason = "none"
    /\ rows = SeededRows
    /\ leads = {}
    /\ picks = NoPicks

---------------------------------------------------------------------------
(* duel:select_lead. The second accepted lead starts the duel. *)
SelectLead(p, s) ==
    /\ status = "pending"
    /\ LeadAllowed(rows, p, s)
    /\ rows' = Activate(rows, p, s)
    /\ leads' = leads \cup {p}
    /\ status' = IF leads' = Players THEN "in_progress" ELSE status
    /\ UNCHANGED <<winner, reason, picks>>

(* duel:switch_decision. The handler asks for neither a phase nor a status. *)
SwitchTo(p, s) ==
    /\ SwitchAllowed(rows, p, s)
    /\ rows' = IF HasActive(rows, p)
                 THEN Deactivate(Activate(rows, p, s), p, activePokemon(rows, p))
                 ELSE Activate(rows, p, s)
    /\ UNCHANGED <<status, winner, reason, leads, picks>>

\* The round of moves mv is applied to a live duel with both sides fielded.
PlayRound(mv) ==
    /\ status = "in_progress"
    /\ \A p \in Players : HasActive(rows, p)
    /\ \E first \in Players : rows' = ResolvedRows(rows, mv, first)
    /\ IF TeamWiped(rows')
         THEN /\ status' = "finished"
              /\ winner' = KoWinner(rows')
              /\ reason' = "ko"
         ELSE UNCHANGED verdict

\* A duel that is not live, or a side with no pokemon on the field: the picks
\* are consumed and nothing else happens.
VoidRound ==
    /\ \/ status # "in_progress"
       \/ \E p \in Players : ~HasActive(rows, p)
    /\ UNCHANGED <<status, winner, reason, rows>>

ResolveTurn(mv) ==
    /\ PlayRound(mv) \/ VoidRound
    /\ picks' = NoPicks
    /\ leads' = IF status' = "finished" THEN {} ELSE leads   \* finalize

(* duel:select_action. A re-pick replaces the player's buffered move, and   *)
(* the pick that completes the pair resolves the turn.                      *)
SelectAction(p, m) ==
    /\ PickAllowed(rows, p, m)
    /\ LET buffered == [picks EXCEPT ![p] = m]
       IN  IF buffered[opponentOf(p)] = NoMove
             THEN /\ picks' = buffered
                  /\ UNCHANGED <<status, winner, reason, rows, leads>>
             ELSE ResolveTurn(buffered)

(* The 10s window expires on a single pick: the other side plays WeakMove. *)
TurnTimeout ==
    /\ \E p \in Players :
         /\ picks[p] # NoMove
         /\ picks[opponentOf(p)] = NoMove
         /\ ResolveTurn([picks EXCEPT ![opponentOf(p)] = WeakMove])

\* Mutant: winner_id is not written.
FinishDuelWithoutWinner(w, why) ==
    /\ status' = "finished"
    /\ reason' = why
    /\ picks' = NoPicks
    /\ leads' = {}
    /\ UNCHANGED <<winner, rows>>

\* finishDuel: the guarded write, then the buffer is dropped.
FinishDuel(w, why) ==
    /\ status' = "finished"
    /\ winner' = w
    /\ reason' = why
    /\ picks' = NoPicks
    /\ leads' = {}
    /\ UNCHANGED rows

\* Mutant: a surrender is accepted whatever the status.
LateSurrender(p) == FinishDuel(opponentOf(p), "surrender")

(* duel:surrender, accepted before the duel starts and while it is live. *)
Surrender(p) ==
    /\ status \in {"pending", "in_progress"}
    /\ FinishDuel(opponentOf(p), "surrender")

(* A socket that drops forfeits the live duel of its player. *)
Disconnect(p) ==
    /\ status = "in_progress"
    /\ FinishDuel(opponentOf(p), "disconnect")

Next ==
    \/ \E p \in Players, s \in Slot : SelectLead(p, s)
    \/ \E p \in Players, s \in Slot : SwitchTo(p, s)
    \/ \E p \in Players, m \in Move : SelectAction(p, m)
    \/ TurnTimeout
    \/ \E p \in Players : Surrender(p)
    \/ \E p \in Players : Disconnect(p)

Spec == Init /\ [][Next]_vars

---------------------------------------------------------------------------
(* What the players are promised. *)

\* A row is fainted exactly when it has no hit points left, and a fainted
\* pokemon is never the one on the field: no later switch, lead or round of the
\* handlers brings it back.
FaintedIsOut ==
    \A p \in Players, s \in Slot :
        /\ rows[p][s].fainted <=> rows[p][s].hp = 0
        /\ rows[p][s].active => ~rows[p][s].fainted

\* A player never has two pokemon on the field (switchValidation.js:117).
OneActive ==
    \A p \in Players : \A s, t \in Slot :
        rows[p][s].active /\ rows[p][t].active => s = t

\* A duel that goes live has fielded both sides, and a side that has been
\* fielded has a pokemon on the field until that pokemon is knocked out.
LiveIsFielded ==
    status = "in_progress" =>
        \A p \in Players : \E s \in Slot : rows[p][s].active \/ rows[p][s].fainted

\* The knockout verdict is right and immediate: no round leaves both teams
\* wiped, so looking at player 1's team first never decides the winner; a
\* wiped team means the duel is over, and a KO is only won over a wiped team.
KoVerdict ==
    /\ ~(\A p \in Players : ~hasNonFainted(rows, p))
    /\ TeamWiped(rows) => status = "finished"
    /\ reason = "ko" => /\ winner \in Players
                       /\ hasNonFainted(rows, winner)
                       /\ ~hasNonFainted(rows, opponentOf(winner))

\* A finished duel names a winner and says why, an open one does neither.
VerdictShape ==
    IF status = "finished"
      THEN winner \in Players /\ reason # "none"
      ELSE winner = Nobody /\ reason = "none"

\* No step gives hit points or PP back, and no step knocks out two pokemon: the
\* one hit first does not strike back (skipped / target_fainted).
Attrition ==
    [][/\ \A p \in Players, s \in Slot :
            /\ rows'[p][s].hp <= rows[p][s].hp
            /\ \A m \in LimitedMove : rows'[p][s].pp[m] <= rows[p][s].pp[m]
       /\ \A p, q \in Players : \A s, t \in Slot :
            (/\ rows'[p][s].fainted /\ ~rows[p][s].fainted
             /\ rows'[q][t].fainted /\ ~rows[q][t].fainted) => p = q /\ s = t]_vars

\* Once a duel is finished its verdict never changes.
VerdictIsFinal == [][status = "finished" => UNCHANGED verdict]_vars
===========================================================================
