------------------------------ MODULE MCDuel ------------------------------
(***************************************************************************)
(* A small instance of Duel for TLC: two teams of two, one limited move of *)
(* one use beside the weak one, and a type chart with an advantage, a      *)
(* disadvantage and neutral pairs, so that one strike can take a quarter,  *)
(* half or all of a pokemon.                                               *)
(***************************************************************************)
EXTENDS Duel

CONSTANTS p1, p2, fire, water

MCDamage == [m \in Move |-> IF m = WeakMove THEN 10 ELSE 25]

\* Player 1 leads with fire and keeps water on the bench, player 2 has water.
MCTypeOf == [p \in Players |-> [s \in Slot |->
                IF p = Player1 /\ s = 1 THEN fire ELSE water]]

MCMultiplier == [pair \in Type \X Type |->
                    CASE pair = <<water, fire>> -> 4
                      [] pair = <<fire, water>> -> 1
                      [] OTHER -> 2]
===========================================================================
