--------------------------- MODULE MCDuelServer ---------------------------
EXTENDS DuelServer, TLC
CONSTANTS p1, p2, normal
MCDamage == [m \in Move |-> 1]
MCTypeOf == [p \in Players |-> [s \in Slot |-> normal]]
MCMultiplier == [pair \in Type \X Type |-> 2]
HandlerSymmetry == Permutations(Handler) \cup Permutations(Expiry)
===========================================================================
