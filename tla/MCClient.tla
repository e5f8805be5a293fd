----------------------------- MODULE MCClient -----------------------------
(* The client for TLC: a 1v1 room in which rounds are played and anything   *)
(* may be lost once, and a bracket in which duels end by giving up.         *)
EXTENDS DuelClient
===========================================================================
