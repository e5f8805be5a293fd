---------------------------- MODULE Duel_proofs ----------------------------
(***************************************************************************)
(* What a duel promises its players holds for every roster, move list,     *)
(* damage table and type chart.  One invariant carries all of it: the      *)
(* verdict cannot be shown right without knowing that fainted pokemon stay *)
(* off the field, nor that without the typing of the rows.                 *)
(***************************************************************************)
EXTENDS Duel, RoundRules_proofs

IInv == TypeOK /\ FaintedIsOut /\ OneActive /\ KoVerdict /\ VerdictShape

\* A side has been fielded once one of its pokemon is out or was knocked out.
SideFielded(R, p) == \E s \in Slot : R[p][s].active \/ R[p][s].fainted

\* A duel goes live on the second lead, so what has to be kept is that a side
\* whose lead was accepted has been fielded.
FieldInv ==
    /\ \A p \in leads : SideFielded(rows, p)
    /\ status = "in_progress" => \A p \in Players : SideFielded(rows, p)

---------------------------------------------------------------------------
\* The rows keep who is fainted and stay sound, with the named active rows.
SameButActive(a, b) ==
    \A p \in Players, s \in Slot :
        /\ b[p][s].hp = a[p][s].hp
        /\ b[p][s].pp = a[p][s].pp
        /\ b[p][s].fainted = a[p][s].fainted

LEMMA SameButActiveKeepsTeams ==
    ASSUME NEW a, NEW b, SameButActive(a, b)
    PROVE  /\ \A p \in Players : hasNonFainted(b, p) <=> hasNonFainted(a, p)
           /\ TeamWiped(b) <=> TeamWiped(a)
BY DEF SameButActive, hasNonFainted, TeamWiped

\* A legal lead fields one pokemon of a side that had none.
LEMMA LeadRows ==
    ASSUME rows \in Rows, FaintedIsOut, OneActive,
           NEW p \in Players, NEW s \in Slot, LeadAllowed(rows, p, s),
           rows' = Activate(rows, p, s)
    PROVE  /\ rows' \in Rows
           /\ SameButActive(rows, rows')
           /\ FaintedIsOut'
           /\ OneActive'
<1>1. rows' \in Rows /\ Fielded(rows, rows', p, s)
  BY ActivateRows
<1>2. ~rows[p][s].fainted /\ \A t \in Slot : ~rows[p][t].active
  BY DEF LeadAllowed, HasActive, Actives
<1>3. FaintedIsOut'
  BY <1>1, <1>2 DEF FaintedIsOut, Fielded
<1>4. OneActive'
  BY <1>1, <1>2 DEF OneActive, Fielded
<1> QED  BY <1>1, <1>3, <1>4 DEF SameButActive, Fielded

\* A legal switch fields one pokemon and benches the one that was out.
LEMMA SwitchRows ==
    ASSUME rows \in Rows, FaintedIsOut, OneActive,
           NEW p \in Players, NEW s \in Slot, SwitchAllowed(rows, p, s),
           rows' = IF HasActive(rows, p)
                     THEN Deactivate(Activate(rows, p, s), p, activePokemon(rows, p))
                     ELSE Activate(rows, p, s)
    PROVE  /\ rows' \in Rows
           /\ SameButActive(rows, rows')
           /\ FaintedIsOut'
           /\ OneActive'
<1>1. CASE ~HasActive(rows, p)
  <2>1. LeadAllowed(rows, p, s)
    BY <1>1 DEF LeadAllowed, SwitchAllowed
  <2> QED  BY <1>1, <2>1, LeadRows
<1>2. CASE HasActive(rows, p)
  <2> DEFINE out == activePokemon(rows, p)
             mid == Activate(rows, p, s)
  <2>1. out \in Slot /\ rows[p][out].active
    BY <1>2, ActivePokemonIsActive DEF Actives
  <2>2. mid \in Rows /\ Fielded(rows, mid, p, s)
    BY ActivateRows
  <2>3. rows' = Deactivate(mid, p, out)
    BY <1>2
  <2> HIDE DEF mid, out
  <2>4. rows' \in Rows /\ Benched(mid, rows', p, out)
    BY <2>1, <2>2, <2>3, DeactivateRows
  <2>5. ~rows[p][s].fainted /\ ~rows[p][s].active
    BY DEF SwitchAllowed
  <2>6. \A t \in Slot : rows[p][t].active => t = out
    BY <2>1 DEF OneActive
  <2>7. FaintedIsOut'
    BY <2>1, <2>2, <2>4, <2>5 DEF FaintedIsOut, Fielded, Benched
  <2>8. OneActive'
    BY <2>1, <2>2, <2>4, <2>6 DEF OneActive, Fielded, Benched
  <2> QED  BY <2>2, <2>4, <2>7, <2>8 DEF SameButActive, Fielded, Benched
<1> QED  BY <1>1, <1>2

\* Steps that leave the knocked-out alone and end no duel keep the verdict right.
LEMMA VerdictKept ==
    ASSUME KoVerdict, VerdictShape, SameButActive(rows, rows'),
           UNCHANGED <<winner, reason>>,
           status' = "finished" <=> status = "finished"
    PROVE  KoVerdict' /\ VerdictShape'
<1>1. /\ \A p \in Players : hasNonFainted(rows', p) <=> hasNonFainted(rows, p)
      /\ TeamWiped(rows') <=> TeamWiped(rows)
  BY SameButActiveKeepsTeams
<1>2. KoVerdict'
  BY <1>1, OpponentIsPlayer DEF KoVerdict
<1>3. VerdictShape'
  BY DEF VerdictShape
<1> QED  BY <1>2, <1>3

\* One round of a live duel: at most one team is wiped, and then the other has won.
LEMMA PlayRoundKeeps ==
    ASSUME IInv, NEW mv \in [Players -> Move], PlayRound(mv)
    PROVE  /\ rows' \in Rows
           /\ FaintedIsOut' /\ OneActive' /\ KoVerdict' /\ VerdictShape'
           /\ WornDown(rows, rows')
           /\ status' \in {"in_progress", "finished"}
           /\ winner' \in Players \cup {Nobody}
           /\ reason' \in {"none", "ko"}
<1> USE DEF IInv
<1>1. PICK first \in Players : rows' = ResolvedRows(rows, mv, first)
  BY DEF PlayRound
<1>2. /\ status = "in_progress" /\ winner = Nobody /\ reason = "none"
      /\ \A p \in Players : HasActive(rows, p)
      /\ ~TeamWiped(rows)
      /\ rows \in Rows
  BY DEF PlayRound, VerdictShape, KoVerdict, TypeOK
<1>3. FaintMatchesHp(rows) /\ NoFaintedActive(rows)
  BY DEF FaintedIsOut, FaintMatchesHp, NoFaintedActive
<1>4. \E p \in Players : hasNonFainted(rows, p)
  BY <1>2 DEF TeamWiped, Players
<1>5. /\ rows' \in Rows
      /\ WornDown(rows, rows')
      /\ FaintMatchesHp(rows') /\ NoFaintedActive(rows')
      /\ \E p \in Players : hasNonFainted(rows', p)
  BY <1>1, <1>2, <1>3, <1>4, RoundIsSound
<1>6. FaintedIsOut'
  BY <1>5 DEF FaintedIsOut, FaintMatchesHp, NoFaintedActive
<1>7. OneActive'
  BY <1>5 DEF OneActive, WornDown
<1>8. CASE TeamWiped(rows')
  <2>1. status' = "finished" /\ winner' = KoWinner(rows') /\ reason' = "ko"
    BY <1>8 DEF PlayRound
  <2>2. /\ KoWinner(rows') \in Players
        /\ hasNonFainted(rows', KoWinner(rows'))
        /\ ~hasNonFainted(rows', opponentOf(KoWinner(rows')))
    BY <1>5, <1>8, RulesAssumption
       DEF KoWinner, TeamWiped, Players, opponentOf
  <2>3. KoVerdict'
    BY <1>5, <2>1, <2>2 DEF KoVerdict
  <2>4. VerdictShape'
    BY <2>1, <2>2 DEF VerdictShape
  <2> QED  BY <1>5, <1>6, <1>7, <2>1, <2>2, <2>3, <2>4
<1>9. CASE ~TeamWiped(rows')
  <2>1. UNCHANGED <<status, winner, reason>>
    BY <1>9 DEF PlayRound, verdict
  <2>2. KoVerdict'
    BY <1>2, <1>5, <1>9, <2>1 DEF KoVerdict
  <2>3. VerdictShape'
    BY <2>1 DEF VerdictShape
  <2> QED  BY <1>2, <1>5, <1>6, <1>7, <2>1, <2>2, <2>3
<1> QED  BY <1>8, <1>9

LEMMA ResolveTurnKeeps ==
    ASSUME IInv, NEW mv \in [Players -> Move], ResolveTurn(mv)
    PROVE  IInv'
<1>1. picks' \in [Players -> Move \cup {NoMove}] /\ leads' \subseteq Players
  BY DEF ResolveTurn, NoPicks, IInv, TypeOK
<1>2. CASE PlayRound(mv)
  BY <1>1, <1>2, PlayRoundKeeps DEF IInv, TypeOK
<1>3. CASE VoidRound
  BY <1>1, <1>3 DEF VoidRound, IInv, TypeOK, FaintedIsOut, OneActive, KoVerdict,
                    VerdictShape
<1> QED  BY <1>2, <1>3 DEF ResolveTurn

LEMMA FinishDuelKeeps ==
    ASSUME IInv, NEW p \in Players, NEW why \in {"surrender", "disconnect"},
           status # "finished", FinishDuel(opponentOf(p), why)
    PROVE  IInv'
<1>1. opponentOf(p) \in Players
  BY OpponentIsPlayer
<1>2. TypeOK'
  BY <1>1 DEF IInv, TypeOK, FinishDuel, NoPicks
<1>3. FaintedIsOut' /\ OneActive' /\ KoVerdict'
  BY DEF IInv, FaintedIsOut, OneActive, KoVerdict, FinishDuel
<1>4. VerdictShape'
  BY <1>1 DEF VerdictShape, FinishDuel
<1> QED  BY <1>2, <1>3, <1>4 DEF IInv

---------------------------------------------------------------------------
LEMMA IInvInit == Init => IInv
<1> SUFFICES ASSUME Init PROVE IInv
  OBVIOUS
<1> DEFINE row == SeededRow
<1>1. /\ row \in Row
      /\ row.hp = FullHp /\ row.active = FALSE /\ row.fainted = FALSE
  BY RulesAssumption DEF SeededRow, Row
<1>2. /\ rows = [p \in Players |-> [s \in Slot |-> row]]
      /\ status = "pending" /\ winner = Nobody /\ reason = "none"
      /\ leads = {} /\ picks = NoPicks
  BY DEF Init, SeededRows
<1> HIDE DEF row
<1>3. \A p \in Players, s \in Slot : rows[p][s] = row
  BY <1>2
<1>4. TypeOK
  BY <1>1, <1>2 DEF TypeOK, Rows, NoPicks
<1>5. FaintedIsOut /\ OneActive
  BY <1>1, <1>3, RulesAssumption DEF FaintedIsOut, OneActive
<1>6. \A p \in Players : hasNonFainted(rows, p)
  BY <1>1, <1>3, RulesAssumption DEF hasNonFainted
<1>7. KoVerdict
  BY <1>2, <1>6 DEF KoVerdict, TeamWiped, Players
<1>8. VerdictShape
  BY <1>2 DEF VerdictShape
<1> QED  BY <1>4, <1>5, <1>7, <1>8 DEF IInv

LEMMA IInvStep == IInv /\ [Next]_vars => IInv'
<1> SUFFICES ASSUME IInv, [Next]_vars PROVE IInv'
  OBVIOUS
<1>1. ASSUME NEW p \in Players, NEW s \in Slot, SelectLead(p, s)
      PROVE  IInv'
  <2>1. /\ rows' \in Rows /\ SameButActive(rows, rows')
        /\ FaintedIsOut' /\ OneActive'
    BY <1>1, LeadRows DEF SelectLead, IInv, TypeOK
  <2>2. TypeOK'
    BY <1>1, <2>1 DEF SelectLead, IInv, TypeOK
  <2>3. KoVerdict' /\ VerdictShape'
    BY <1>1, <2>1, VerdictKept DEF SelectLead, IInv
  <2> QED  BY <2>1, <2>2, <2>3 DEF IInv
<1>2. ASSUME NEW p \in Players, NEW s \in Slot, SwitchTo(p, s)
      PROVE  IInv'
  <2>1. /\ rows' \in Rows /\ SameButActive(rows, rows')
        /\ FaintedIsOut' /\ OneActive'
    BY <1>2, SwitchRows DEF SwitchTo, IInv, TypeOK
  <2>2. TypeOK'
    BY <1>2, <2>1 DEF SwitchTo, IInv, TypeOK
  <2>3. KoVerdict' /\ VerdictShape'
    BY <1>2, <2>1, VerdictKept DEF SwitchTo, IInv
  <2> QED  BY <2>1, <2>2, <2>3 DEF IInv
<1>3. ASSUME NEW p \in Players, NEW m \in Move, SelectAction(p, m)
      PROVE  IInv'
  <2> DEFINE buffered == [picks EXCEPT ![p] = m]
  <2>1. /\ buffered \in [Players -> Move \cup {NoMove}]
        /\ buffered[p] = m
        /\ \A q \in Players : q = p \/ q = opponentOf(p)
    BY OpponentIsPlayer DEF IInv, TypeOK
  <2>2. \/ /\ buffered[opponentOf(p)] = NoMove
           /\ picks' = buffered
           /\ UNCHANGED <<status, winner, reason, rows, leads>>
        \/ /\ buffered[opponentOf(p)] # NoMove
           /\ ResolveTurn(buffered)
    BY <1>3 DEF SelectAction
  <2> HIDE DEF buffered
  <2>3. CASE /\ buffered[opponentOf(p)] = NoMove
             /\ picks' = buffered
             /\ UNCHANGED <<status, winner, reason, rows, leads>>
    BY <2>1, <2>3 DEF IInv, TypeOK, FaintedIsOut, OneActive, KoVerdict, VerdictShape
  <2>4. CASE buffered[opponentOf(p)] # NoMove /\ ResolveTurn(buffered)
    <3>1. \A q \in Players : buffered[q] \in Move
      BY <2>1, <2>4, DuelAssumption
    <3>2. buffered \in [Players -> Move]
      BY <2>1, <3>1
    <3> QED  BY <2>4, <3>2, ResolveTurnKeeps
  <2> QED  BY <2>2, <2>3, <2>4
<1>4. CASE TurnTimeout
  <2>1. PICK p \in Players :
          /\ picks[p] # NoMove
          /\ ResolveTurn([picks EXCEPT ![opponentOf(p)] = WeakMove])
    BY <1>4 DEF TurnTimeout
  <2>2. [picks EXCEPT ![opponentOf(p)] = WeakMove] \in [Players -> Move]
    <3>1. \A q \in Players : q = p \/ q = opponentOf(p)
      BY OpponentIsPlayer
    <3> QED  BY <2>1, <3>1 DEF IInv, TypeOK, Move
  <2> QED  BY <2>1, <2>2, ResolveTurnKeeps
<1>5. ASSUME NEW p \in Players, Surrender(p)
      PROVE  IInv'
  BY <1>5, FinishDuelKeeps DEF Surrender
<1>6. ASSUME NEW p \in Players, Disconnect(p)
      PROVE  IInv'
  BY <1>6, FinishDuelKeeps DEF Disconnect
<1>7. CASE UNCHANGED vars
  BY <1>7 DEF vars, IInv, TypeOK, FaintedIsOut, OneActive, KoVerdict, VerdictShape
<1> QED  BY <1>1, <1>2, <1>3, <1>4, <1>5, <1>6, <1>7 DEF Next

LEMMA IInvHolds == Spec => []IInv
BY IInvInit, IInvStep, PTL DEF Spec

\* Every state of a duel is well typed (createDuelFromRoom, every handler).
THEOREM TypeCorrect == Spec => []TypeOK
<1>1. IInv => TypeOK
  BY DEF IInv
<1> QED  BY <1>1, IInvHolds, PTL

\* A fainted pokemon has no hit points and is never on the field, whatever leads,
\* switches and rounds the handlers accept.
THEOREM FaintedStaysOut == Spec => []FaintedIsOut
<1>1. IInv => FaintedIsOut
  BY DEF IInv
<1> QED  BY <1>1, IInvHolds, PTL

\* A player never has two pokemon on the field, as validateLeadSelectionCore
\* says, when one handler ends before the next starts.
THEOREM NeverTwoActive == Spec => []OneActive
<1>1. IInv => OneActive
  BY DEF IInv
<1> QED  BY <1>1, IInvHolds, PTL

\* The end check of resolveRoundLogic never has to choose: one team at most is
\* wiped, the duel ends with it, and a KO is won over a wiped team.
THEOREM KnockOutIsRight == Spec => []KoVerdict
<1>1. IInv => KoVerdict
  BY DEF IInv
<1> QED  BY <1>1, IInvHolds, PTL

\* A finished duel has a winner and a reason, an open one has neither.
THEOREM VerdictIsWhole == Spec => []VerdictShape
<1>1. IInv => VerdictShape
  BY DEF IInv
<1> QED  BY <1>1, IInvHolds, PTL

\* The verdict of a finished duel never changes: every write that ends a duel
\* asks first that it is open.
THEOREM VerdictStays == Spec => VerdictIsFinal
<1>1. [Next]_vars => [status = "finished" => UNCHANGED verdict]_vars
  <2> SUFFICES ASSUME Next, status = "finished" PROVE UNCHANGED verdict
    BY DEF vars, verdict
  <2>1. ASSUME NEW mv, ResolveTurn(mv)
        PROVE  UNCHANGED verdict
    BY <2>1 DEF ResolveTurn, PlayRound, VoidRound, verdict
  <2> QED  BY <2>1 DEF Next, SelectLead, SwitchTo, SelectAction, TurnTimeout,
                       Surrender, Disconnect, verdict
<1> QED  BY <1>1, PTL DEF Spec, VerdictIsFinal

\* No handler gives hit points or PP back, and a round knocks out one pokemon at
\* most.
THEOREM RowsOnlyWearDown == Spec => Attrition
<1> DEFINE Worn ==
      /\ \A p \in Players, s \in Slot :
           /\ rows'[p][s].hp <= rows[p][s].hp
           /\ \A m \in LimitedMove : rows'[p][s].pp[m] <= rows[p][s].pp[m]
      /\ \A p, q \in Players : \A s, t \in Slot :
           (/\ rows'[p][s].fainted /\ ~rows[p][s].fainted
            /\ rows'[q][t].fainted /\ ~rows[q][t].fainted) => p = q /\ s = t
<1>1. ASSUME IInv, SameButActive(rows, rows')
      PROVE  Worn
  <2>1. ASSUME NEW p \in Players, NEW s \in Slot
        PROVE  /\ rows[p][s].hp <= rows[p][s].hp
               /\ \A m \in LimitedMove : rows[p][s].pp[m] <= rows[p][s].pp[m]
    BY <1>1, RulesAssumption DEF IInv, TypeOK, Rows, Row
  <2> QED  BY <1>1, <2>1 DEF SameButActive
<1>2. ASSUME IInv, NEW mv \in [Players -> Move], PlayRound(mv)
      PROVE  Worn
  <2>1. WornDown(rows, rows')
    BY <1>2, PlayRoundKeeps
  <2>2. PICK first \in Players : rows' = ResolvedRows(rows, mv, first)
    BY <1>2 DEF PlayRound
  <2>3. rows \in Rows /\ \A p \in Players : HasActive(rows, p)
    BY <1>2 DEF PlayRound, IInv, TypeOK
  <2>4. \A p, q \in Players : \A s, t \in Slot :
          KnockedOut(rows, rows', p, s) /\ KnockedOut(rows, rows', q, t)
            => p = q /\ s = t
    BY <2>2, <2>3, RoundKnocksOutOne
  <2> QED  BY <2>1, <2>4 DEF WornDown, KnockedOut
<1>3. ASSUME IInv, UNCHANGED rows
      PROVE  Worn
  BY <1>1, <1>3 DEF SameButActive
<1>4. ASSUME IInv, NEW mv \in [Players -> Move], ResolveTurn(mv)
      PROVE  Worn
  BY <1>2, <1>3, <1>4 DEF ResolveTurn, VoidRound
<1> HIDE DEF Worn
<1>5. IInv /\ [Next]_vars => [Worn]_vars
  <2> SUFFICES ASSUME IInv, Next PROVE Worn
    OBVIOUS
  <2>1. ASSUME NEW p \in Players, NEW s \in Slot, SelectLead(p, s)
        PROVE  Worn
    BY <1>1, <2>1, LeadRows DEF SelectLead, IInv, TypeOK
  <2>2. ASSUME NEW p \in Players, NEW s \in Slot, SwitchTo(p, s)
        PROVE  Worn
    BY <1>1, <2>2, SwitchRows DEF SwitchTo, IInv, TypeOK
  <2>3. ASSUME NEW p \in Players, NEW m \in Move, SelectAction(p, m)
        PROVE  Worn
    <3> DEFINE buffered == [picks EXCEPT ![p] = m]
    <3>1. CASE UNCHANGED rows
      BY <1>3, <3>1
    <3>2. CASE ~UNCHANGED rows
      <4>1. buffered[opponentOf(p)] # NoMove /\ ResolveTurn(buffered)
        BY <2>3, <3>2 DEF SelectAction
      <4>2. /\ buffered \in [Players -> Move \cup {NoMove}]
            /\ buffered[p] = m
            /\ \A q \in Players : q = p \/ q = opponentOf(p)
        BY OpponentIsPlayer DEF IInv, TypeOK
      <4> HIDE DEF buffered
      <4>3. \A q \in Players : buffered[q] \in Move
        BY <4>1, <4>2, DuelAssumption
      <4>4. buffered \in [Players -> Move]
        BY <4>2, <4>3
      <4> QED  BY <1>4, <4>1, <4>4
    <3> QED  BY <3>1, <3>2
  <2>4. CASE TurnTimeout
    <3>1. PICK p \in Players :
            /\ picks[p] # NoMove
            /\ ResolveTurn([picks EXCEPT ![opponentOf(p)] = WeakMove])
      BY <2>4 DEF TurnTimeout
    <3>2. \A q \in Players : q = p \/ q = opponentOf(p)
      BY OpponentIsPlayer
    <3>3. [picks EXCEPT ![opponentOf(p)] = WeakMove] \in [Players -> Move]
      BY <3>1, <3>2 DEF IInv, TypeOK, Move
    <3> QED  BY <1>4, <3>1, <3>3
  <2>5. ASSUME NEW p \in Players, Surrender(p) \/ Disconnect(p)
        PROVE  Worn
    BY <1>3, <2>5 DEF Surrender, Disconnect, FinishDuel
  <2> QED  BY <2>1, <2>2, <2>3, <2>4, <2>5 DEF Next
<1>6. Attrition <=> [][Worn]_vars
  BY DEF Attrition, Worn
<1> QED  BY <1>5, <1>6, IInvHolds, PTL DEF Spec

---------------------------------------------------------------------------
(* Both sides of a live duel have been fielded. *)

\* A pokemon put on the field fields its side and leaves the others as fielded
\* as they were.
LEMMA FieldedSides ==
    ASSUME NEW a, NEW b, NEW p \in Players, NEW s \in Slot, Fielded(a, b, p, s)
    PROVE  /\ SideFielded(b, p)
           /\ \A q \in Players : SideFielded(a, q) => SideFielded(b, q)
BY DEF Fielded, SideFielded

LEMMA SwitchFields ==
    ASSUME IInv, NEW p \in Players, NEW s \in Slot, SwitchTo(p, s)
    PROVE  \A q \in Players : SideFielded(rows, q) => SideFielded(rows', q)
<1> DEFINE out == activePokemon(rows, p)
           mid == Activate(rows, p, s)
<1>1. rows \in Rows /\ ~rows[p][s].active
  BY DEF IInv, TypeOK, SwitchTo, SwitchAllowed
<1>2. mid \in Rows /\ Fielded(rows, mid, p, s)
  BY <1>1, ActivateRows
<1>3. CASE ~HasActive(rows, p)
  <2>1. rows' = mid
    BY <1>3 DEF SwitchTo
  <2> HIDE DEF mid
  <2> QED  BY <1>2, <2>1, FieldedSides
<1>4. CASE HasActive(rows, p)
  <2>1. out \in Slot /\ rows[p][out].active
    BY <1>4, ActivePokemonIsActive DEF Actives
  <2>2. rows' = Deactivate(mid, p, out)
    BY <1>4 DEF SwitchTo
  <2> HIDE DEF mid, out
  <2>3. Benched(mid, rows', p, out)
    BY <1>2, <2>1, <2>2, DeactivateRows
  <2>4. SideFielded(rows', p)
    BY <1>1, <1>2, <2>1, <2>3 DEF Fielded, Benched, SideFielded
  <2>5. \A q \in Players \ {p} : SideFielded(rows, q) => SideFielded(rows', q)
    BY <1>2, <2>3 DEF Fielded, Benched, SideFielded
  <2> QED  BY <2>4, <2>5
<1> QED  BY <1>3, <1>4

LEMMA ResolveTurnFields ==
    ASSUME IInv, FieldInv, NEW mv \in [Players -> Move], ResolveTurn(mv)
    PROVE  FieldInv'
<1>1. CASE PlayRound(mv)
  <2>1. WornDown(rows, rows')
    BY <1>1, PlayRoundKeeps
  <2>2. \A p \in Players : SideFielded(rows', p)
    BY <1>1, <2>1 DEF PlayRound, FieldInv, WornDown, SideFielded
  <2>3. leads' \subseteq Players
    BY DEF ResolveTurn, IInv, TypeOK
  <2> QED  BY <2>2, <2>3 DEF FieldInv
<1>2. CASE VoidRound
  BY <1>2 DEF VoidRound, ResolveTurn, FieldInv
<1> QED  BY <1>1, <1>2 DEF ResolveTurn

LEMMA FieldInvStep == IInv /\ FieldInv /\ [Next]_vars => FieldInv'
<1> SUFFICES ASSUME IInv, FieldInv, [Next]_vars PROVE FieldInv'
  OBVIOUS
<1>1. leads \subseteq Players
  BY DEF IInv, TypeOK
<1>2. ASSUME NEW p \in Players, NEW s \in Slot, SelectLead(p, s)
      PROVE  FieldInv'
  <2>1. Fielded(rows, rows', p, s)
    BY <1>2, ActivateRows DEF SelectLead, IInv, TypeOK
  <2>2. /\ SideFielded(rows', p)
        /\ \A q \in Players : SideFielded(rows, q) => SideFielded(rows', q)
    BY <2>1, FieldedSides
  <2>3. \A q \in leads' : SideFielded(rows', q)
    BY <1>1, <1>2, <2>2 DEF SelectLead, FieldInv
  <2>4. status' = "in_progress" => leads' = Players
    BY <1>2 DEF SelectLead
  <2> QED  BY <2>3, <2>4 DEF FieldInv
<1>3. ASSUME NEW p \in Players, NEW s \in Slot, SwitchTo(p, s)
      PROVE  FieldInv'
  <2>1. \A q \in Players : SideFielded(rows, q) => SideFielded(rows', q)
    BY <1>3, SwitchFields
  <2>2. UNCHANGED <<status, leads>>
    BY <1>3 DEF SwitchTo
  <2> QED  BY <1>1, <2>1, <2>2 DEF FieldInv
<1>4. ASSUME NEW p \in Players, NEW m \in Move, SelectAction(p, m)
      PROVE  FieldInv'
  <2> DEFINE buffered == [picks EXCEPT ![p] = m]
  <2>1. CASE UNCHANGED <<status, rows, leads>>
    BY <2>1 DEF FieldInv
  <2>2. CASE ~UNCHANGED <<status, rows, leads>>
    <3>1. buffered[opponentOf(p)] # NoMove /\ ResolveTurn(buffered)
      BY <1>4, <2>2 DEF SelectAction
    <3>2. /\ buffered \in [Players -> Move \cup {NoMove}]
          /\ buffered[p] = m
          /\ \A q \in Players : q = p \/ q = opponentOf(p)
      BY OpponentIsPlayer DEF IInv, TypeOK
    <3> HIDE DEF buffered
    <3>3. \A q \in Players : buffered[q] \in Move
      BY <3>1, <3>2, DuelAssumption
    <3>4. buffered \in [Players -> Move]
      BY <3>2, <3>3
    <3> QED  BY <3>1, <3>4, ResolveTurnFields
  <2> QED  BY <2>1, <2>2
<1>5. CASE TurnTimeout
  <2>1. PICK p \in Players :
          /\ picks[p] # NoMove
          /\ ResolveTurn([picks EXCEPT ![opponentOf(p)] = WeakMove])
    BY <1>5 DEF TurnTimeout
  <2>2. \A q \in Players : q = p \/ q = opponentOf(p)
    BY OpponentIsPlayer
  <2>3. [picks EXCEPT ![opponentOf(p)] = WeakMove] \in [Players -> Move]
    BY <2>1, <2>2 DEF IInv, TypeOK, Move
  <2> QED  BY <2>1, <2>3, ResolveTurnFields
<1>6. ASSUME NEW p \in Players, Surrender(p) \/ Disconnect(p)
      PROVE  FieldInv'
  BY <1>6 DEF Surrender, Disconnect, FinishDuel, FieldInv
<1>7. CASE UNCHANGED vars
  BY <1>7 DEF vars, FieldInv
<1> QED  BY <1>2, <1>3, <1>4, <1>5, <1>6, <1>7 DEF Next

\* No round of a live duel can find a side that never had a pokemon out: the
\* turn gate of getDuelState only ever waits for a replacement.
THEOREM LiveSidesAreFielded == Spec => []LiveIsFielded
<1>1. Init => FieldInv
  BY DEF Init, FieldInv
<1>2. FieldInv => LiveIsFielded
  BY DEF FieldInv, LiveIsFielded, SideFielded
<1> QED  BY <1>1, <1>2, IInvHolds, FieldInvStep, PTL DEF Spec
===========================================================================
