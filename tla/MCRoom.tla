------------------------------ MODULE MCRoom ------------------------------
(* A room for TLC: players as model values, alike but for being bots. *)
EXTENDS RoomServer, TLC
CONSTANTS p1, p2, p3, p4
PlayerSymmetry == Permutations(Human) \cup Permutations(Bot) \cup Permutations(Task)
===========================================================================
