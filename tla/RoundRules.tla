---------------------------- MODULE RoundRules ----------------------------
(***************************************************************************)
(* The pure core of the duel engine: what one round does to the rows of    *)
(* duel_pokemon_state, and which leads and switches are legal.  Translated *)
(* from backend/engine (roundResolver.js, damageCalc.js,                   *)
(* switchValidation.js) and from the row seeding and row updates of        *)
(* backend/repositories/duelTransactions.js.                               *)
(*                                                                         *)
(* A pokemon is its position in its owner's roster (the order of dps.id).  *)
(* Names, nicknames, the events payload and the moves journal are left     *)
(* out: nothing in the engine reads them back, save the journal's count,   *)
(* which only labels turns.                                                *)
(***************************************************************************)
EXTENDS Integers

CONSTANTS
    Player1,            \* duels.player1_id
    Player2,            \* duels.player2_id
    Slot,               \* positions of a roster
    FullHp,             \* hit points a row is seeded with (100 in the code)
    FullPP,             \* uses of a limited move (4 in the code)
    LimitedMove,        \* moves that cost PP (1..3 in the code)
    WeakMove,           \* the unlimited move, also the timeout move (4)
    MoveDamage,         \* MOVE_DAMAGE, by move
    Type,               \* pokemon types
    TypeOf,             \* TypeOf[p][s]: type of the pokemon in slot s of p
    DoubledMultiplier   \* twice the multiplier of <<attacker, defender>>

Players == {Player1, Player2}
Move    == LimitedMove \cup {WeakMove}

ASSUME RulesAssumption ==
    /\ Player1 # Player2
    /\ Slot \subseteq Nat
    /\ Slot # {}
    /\ FullHp \in Nat \ {0}
    /\ FullPP \in Nat
    /\ WeakMove \notin LimitedMove
    /\ MoveDamage \in [Move -> Nat]
    /\ TypeOf \in [Players -> [Slot -> Type]]
    /\ DoubledMultiplier \in [Type \X Type -> {1, 2, 4}]   \* x0.5, x1, x2

---------------------------------------------------------------------------
(* Rows of duel_pokemon_state. *)

Row  == [hp      : 0..FullHp,
         pp      : [LimitedMove -> 0..FullPP],
         active  : BOOLEAN,
         fainted : BOOLEAN]
Rows == [Players -> [Slot -> Row]]

SeededRow  == [hp |-> FullHp, pp |-> [m \in LimitedMove |-> FullPP],
               active |-> FALSE, fainted |-> FALSE]
SeededRows == [p \in Players |-> [s \in Slot |-> SeededRow]]

opponentOf(p) == IF p = Player1 THEN Player2 ELSE Player1

Actives(rows, p)   == {s \in Slot : rows[p][s].active}
HasActive(rows, p) == Actives(rows, p) # {}

\* The first active row in roster order: with two of them the lower one wins.
activePokemon(rows, p) ==
    CHOOSE s \in Actives(rows, p) : \A t \in Actives(rows, p) : s <= t

hasNonFainted(rows, p) == \E s \in Slot : ~rows[p][s].fainted

---------------------------------------------------------------------------
(* Damage: base times multiplier, rounded down, never below one. *)

calcularDano(m, attacker, defender) ==
    LET scaled == (MoveDamage[m] * DoubledMultiplier[<<attacker, defender>>]) \div 2
    IN  IF scaled < 1 THEN 1 ELSE scaled

HasPP(row, m) == m \in LimitedMove => row.pp[m] > 0

Spend(row, m) ==
    IF m \in LimitedMove THEN [row EXCEPT !.pp[m] = @ - 1] ELSE row

\* Mutant: no clamp at zero.
HitUnclamped(row, damage) ==
    [row EXCEPT !.hp = row.hp - damage,
                !.fainted = (row.hp - damage <= 0) \/ @,
                !.active = (row.hp - damage > 0) /\ @]

\* Mutant: the faint is not recorded.
HitUnmarked(row, damage) ==
    LET left == IF row.hp > damage THEN row.hp - damage ELSE 0
    IN  [row EXCEPT !.hp = left, !.active = (left > 0) /\ @]

\* Damage, the clamp at zero and the faint bookkeeping of the defender's row.
Hit(row, damage) ==
    LET left == IF row.hp > damage THEN row.hp - damage ELSE 0
    IN  [row EXCEPT !.hp = left,
                    !.fainted = (left = 0) \/ @,
                    !.active = (left > 0) /\ @]

---------------------------------------------------------------------------
(* One round. mv[p] is the move of p; the combatants are those active when *)
(* the round starts, whatever happens to them during it.                   *)

Combatants(rows) == [p \in Players |-> activePokemon(rows, p)]

\* Mutant: a pokemon knocked out earlier in the round strikes all the same.
StrikeWhileFainted(rows, field, p, m) ==
    LET q      == opponentOf(p)
        damage == calcularDano(m, TypeOf[p][field[p]], TypeOf[q][field[q]])
    IN  [r \in Players |-> [s \in Slot |->
            IF s # field[r] THEN rows[r][s]
            ELSE IF r = p THEN Spend(rows[r][s], m)
            ELSE Hit(rows[r][s], damage)]]

\* The action of p on the field of fighters: skipped if its pokemon fainted.
Strike(rows, field, p, m) ==
    LET q      == opponentOf(p)
        damage == calcularDano(m, TypeOf[p][field[p]], TypeOf[q][field[q]])
    IN  IF rows[p][field[p]].fainted
          THEN rows
          ELSE [r \in Players |-> [s \in Slot |->
                  IF s # field[r] THEN rows[r][s]
                  ELSE IF r = p THEN Spend(rows[r][s], m)
                  ELSE Hit(rows[r][s], damage)]]

\* A 0-PP action is rejected up front, judged on the rows the round began with.
Eligible(rows, p, m) == HasPP(rows[p][activePokemon(rows, p)], m)

\* The round when the shuffle puts first before its opponent.
ResolvedRows(rows, mv, first) ==
    LET field == Combatants(rows)
        last  == opponentOf(first)
        mid   == IF Eligible(rows, first, mv[first])
                   THEN Strike(rows, field, first, mv[first]) ELSE rows
    IN  IF Eligible(rows, last, mv[last])
          THEN Strike(mid, field, last, mv[last]) ELSE mid

\* Mutant: the wiped side wins.
KoWinnerSwapped(rows) ==
    IF ~hasNonFainted(rows, Player1) THEN Player1 ELSE Player2

\* Player 1's team is looked at first, then player 2's.
KoWinner(rows) ==
    IF ~hasNonFainted(rows, Player1) THEN Player2 ELSE Player1

TeamWiped(rows) == \E p \in Players : ~hasNonFainted(rows, p)

---------------------------------------------------------------------------
(* Leads and switches. *)

\* Mutants: a second lead, a switch to a fainted row, a switch to the active one.
SecondLeadAllowed(rows, p, s)     == ~rows[p][s].fainted
FaintedSwitchAllowed(rows, p, s)  == ~rows[p][s].active
RepeatedSwitchAllowed(rows, p, s) == ~rows[p][s].fainted

LeadAllowed(rows, p, s)   == ~HasActive(rows, p) /\ ~rows[p][s].fainted
SwitchAllowed(rows, p, s) == ~rows[p][s].fainted /\ ~rows[p][s].active

SetActive(rows, p, s, flag) ==
    [rows EXCEPT ![p][s].active = flag]

Activate(rows, p, s)   == SetActive(rows, p, s, TRUE)
Deactivate(rows, p, s) == SetActive(rows, p, s, FALSE)

\* The PP and active-pokemon check a pick passes before it is buffered.
PickAllowed(rows, p, m) ==
    HasActive(rows, p) /\ HasPP(rows[p][activePokemon(rows, p)], m)
===========================================================================
