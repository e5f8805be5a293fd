------------------------------ MODULE MCTeam ------------------------------
(* A guest's draft for TLC: a host, the guest and another guest who may take *)
(* the seat; two starters, two other pokemon, rosters of one.                *)
EXTENDS TeamScreen, TLC
CONSTANTS h1, h2, h3, s1, s2, m1, m2
PokemonSymmetry == Permutations({s1, s2}) \cup Permutations({m1, m2})
===========================================================================
