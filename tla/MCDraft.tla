----------------------------- MODULE MCDraft -----------------------------
(* A draft for TLC: two starters, one other pokemon, rosters of two. *)
EXTENDS TeamDraft, TLC
CONSTANTS h1, h2, b1, s1, s2, m1
PokemonSymmetry == Permutations({s1, s2}) \cup Permutations(Task)
==========================================================================
