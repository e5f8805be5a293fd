------------------------- MODULE RoundRules_proofs -------------------------
(***************************************************************************)
(* Facts about the rules of a round, for every roster, move list, damage   *)
(* table and type chart.  Each is stated for one strike first, then for    *)
(* the two strikes of a round.                                             *)
(***************************************************************************)
EXTENDS RoundRules, WellFoundedInduction, TLAPS

\* A pokemon is fainted exactly when it has no hit points.
FaintMatchesHp(rows) ==
    \A p \in Players, s \in Slot : rows[p][s].fainted <=> rows[p][s].hp = 0

\* No fainted pokemon is on the field.
NoFaintedActive(rows) ==
    \A p \in Players, s \in Slot : rows[p][s].active => ~rows[p][s].fainted

\* The rows of later are those of earlier worn down.
WornDown(earlier, later) ==
    \A p \in Players, s \in Slot :
        /\ later[p][s].hp <= earlier[p][s].hp
        /\ \A m \in LimitedMove : later[p][s].pp[m] <= earlier[p][s].pp[m]
        /\ later[p][s].active => earlier[p][s].active
        /\ earlier[p][s].active => later[p][s].active \/ later[p][s].fainted
        /\ earlier[p][s].fainted => later[p][s].fainted

---------------------------------------------------------------------------
\* A side with an active pokemon has a first one in roster order, and that is
\* the one the engine finds.
LEMMA ActivePokemonIsActive ==
    ASSUME NEW rows, NEW p, HasActive(rows, p)
    PROVE  activePokemon(rows, p) \in Actives(rows, p)
<1> DEFINE A == Actives(rows, p)
<1>1. A \subseteq Nat /\ A # {}
  BY RulesAssumption DEF HasActive, Actives
<1>2. \E s \in A : \A t \in A : ~(<<t, s>> \in OpToRel(<, Nat))
  BY <1>1, NatLessThanWellFounded, WFMin
<1>3. \A s, t \in Nat : t < s => <<t, s>> \in OpToRel(<, Nat)
  BY DEF OpToRel
<1>4. \E s \in A : \A t \in A : s <= t
  <2>1. PICK s \in A : \A t \in A : ~(<<t, s>> \in OpToRel(<, Nat))
    BY <1>2
  <2>2. \A t \in A : ~(t < s)
    BY <2>1, <1>3, <1>1
  <2> QED  BY <2>2, <1>1
<1> QED  BY <1>4 DEF activePokemon

LEMMA OpponentIsPlayer ==
    ASSUME NEW p \in Players
    PROVE  /\ opponentOf(p) \in Players
           /\ opponentOf(p) # p
           /\ opponentOf(opponentOf(p)) = p
           /\ \A q \in Players : q = p \/ q = opponentOf(p)
BY RulesAssumption DEF Players, opponentOf

\* Every hit takes a natural number of points, and at least one.
LEMMA DamageIsPositive ==
    ASSUME NEW m \in Move, NEW a \in Type, NEW d \in Type
    PROVE  calcularDano(m, a, d) \in Nat \ {0}
<1>1. /\ MoveDamage[m] \in Nat
      /\ DoubledMultiplier[<<a, d>>] \in {1, 2, 4}
  BY RulesAssumption
<1> DEFINE base == MoveDamage[m]
           mult == DoubledMultiplier[<<a, d>>]
           prod == base * mult
<1>2. prod \in Nat
  <2>1. \A b \in Nat, k \in {1, 2, 4} : b * k \in Nat
    OBVIOUS
  <2> QED  BY <1>1, <2>1
<1>3. prod \div 2 \in Int
  <2> HIDE DEF prod
  <2> QED  BY <1>2
<1> QED  BY <1>3 DEF calcularDano

\* Projections of a row hit for d points.
LEMMA HitFields ==
    ASSUME NEW row \in Row, NEW d \in Nat
    PROVE  LET left == IF row.hp > d THEN row.hp - d ELSE 0
           IN  /\ Hit(row, d) = [hp |-> left, pp |-> row.pp,
                                 active |-> (left > 0 /\ row.active),
                                 fainted |-> (left = 0 \/ row.fainted)]
               /\ left \in 0..FullHp
               /\ left <= row.hp
<1> DEFINE left == IF row.hp > d THEN row.hp - d ELSE 0
<1>1. /\ row = [hp |-> row.hp, pp |-> row.pp, active |-> row.active,
               fainted |-> row.fainted]
      /\ row.hp \in 0..FullHp
  BY DEF Row
<1>2. left \in 0..FullHp /\ left <= row.hp
  BY <1>1, RulesAssumption
<1>3. Hit(row, d) = [row EXCEPT !.hp = left, !.fainted = (left = 0 \/ @),
                               !.active = (left > 0 /\ @)]
  BY DEF Hit
<1> HIDE DEF left
<1>4. Hit(row, d) = [hp |-> left, pp |-> row.pp,
                     active |-> (left > 0 /\ row.active),
                     fainted |-> (left = 0 \/ row.fainted)]
  BY <1>1, <1>3, Zenon
<1> QED  BY <1>2, <1>4 DEF left

LEMMA HitRow ==
    ASSUME NEW row \in Row, NEW d \in Nat
    PROVE  /\ Hit(row, d) \in Row
           /\ Hit(row, d).hp <= row.hp
           /\ Hit(row, d).pp = row.pp
           /\ Hit(row, d).active => row.active /\ Hit(row, d).hp > 0
           /\ row.active => Hit(row, d).active \/ Hit(row, d).fainted
           /\ row.fainted => Hit(row, d).fainted
           /\ Hit(row, d).fainted <=> (row.fainted \/ Hit(row, d).hp = 0)
<1> DEFINE left == IF row.hp > d THEN row.hp - d ELSE 0
<1>1. row.pp \in [LimitedMove -> 0..FullPP]
  BY DEF Row
<1>2. /\ Hit(row, d) = [hp |-> left, pp |-> row.pp,
                        active |-> (left > 0 /\ row.active),
                        fainted |-> (left = 0 \/ row.fainted)]
      /\ left \in 0..FullHp
      /\ left <= row.hp
  BY HitFields
<1> DEFINE active  == left > 0 /\ row.active
           fainted == left = 0 \/ row.fainted
<1>3. active \in BOOLEAN /\ fainted \in BOOLEAN
  OBVIOUS
<1>4. Hit(row, d) = [hp |-> left, pp |-> row.pp, active |-> active,
                     fainted |-> fainted]
  BY <1>2, Zenon
<1>5. /\ active => row.active /\ left > 0
      /\ row.active => active \/ fainted
      /\ row.fainted => fainted
      /\ fainted <=> (row.fainted \/ left = 0)
  BY <1>2, RulesAssumption DEF Row
<1> HIDE DEF left, active, fainted
<1>6. /\ Hit(row, d) \in Row
      /\ Hit(row, d).hp = left
      /\ Hit(row, d).pp = row.pp
      /\ Hit(row, d).active = active
      /\ Hit(row, d).fainted = fainted
  BY <1>1, <1>2, <1>3, <1>4 DEF Row
<1> QED  BY <1>2, <1>5, <1>6

LEMMA SpendRow ==
    ASSUME NEW row \in Row, NEW m \in Move, HasPP(row, m)
    PROVE  /\ Spend(row, m) \in Row
           /\ Spend(row, m).hp = row.hp
           /\ Spend(row, m).active = row.active
           /\ Spend(row, m).fainted = row.fainted
           /\ \A k \in LimitedMove : Spend(row, m).pp[k] <= row.pp[k]
<1>1. CASE m \notin LimitedMove
  <2>1. \A k \in LimitedMove : row.pp[k] <= row.pp[k]
    BY RulesAssumption DEF Row
  <2> QED  BY <1>1, <2>1 DEF Spend
<1>2. CASE m \in LimitedMove
  <2> DEFINE pp == [row.pp EXCEPT ![m] = @ - 1]
  <2>1. /\ row.pp \in [LimitedMove -> 0..FullPP]
        /\ row.pp[m] > 0
    BY <1>2 DEF Row, HasPP
  <2>2. /\ pp \in [LimitedMove -> 0..FullPP]
        /\ \A k \in LimitedMove : pp[k] <= row.pp[k]
    <3>1. ASSUME NEW k \in LimitedMove
          PROVE  /\ pp[k] = IF k = m THEN row.pp[k] - 1 ELSE row.pp[k]
                 /\ pp[k] \in 0..FullPP
                 /\ pp[k] <= row.pp[k]
      <4>1. /\ row.pp[k] \in 0..FullPP
            /\ row.pp[m] \in 0..FullPP
        BY <2>1, <1>2
      <4>2. pp[k] = IF k = m THEN row.pp[k] - 1 ELSE row.pp[k]
        BY <2>1, Zenon
      <4> QED  BY <2>1, <4>1, <4>2, RulesAssumption
    <3>2. pp = [k \in LimitedMove |-> pp[k]]
      BY <2>1, Zenon
    <3> HIDE DEF pp
    <3> QED  BY <3>1, <3>2
  <2>3. Spend(row, m) = [row EXCEPT !.pp = pp]
    BY <1>2, Zenon DEF Spend
  <2> HIDE DEF pp
  <2> QED  BY <2>2, <2>3 DEF Row
<1> QED  BY <1>1, <1>2

---------------------------------------------------------------------------
(* One strike. *)

\* The rows when the pokemon of p spends a use of m on a hit of d points.
Struck(rows, field, p, m, d) ==
    [r \in Players |-> [s \in Slot |->
        IF s # field[r] THEN rows[r][s]
        ELSE IF r = p THEN Spend(rows[r][s], m)
        ELSE Hit(rows[r][s], d)]]

\* A pokemon that can act touches two rows: its own and the defender's.
LEMMA StrikeRows ==
    ASSUME NEW rows, NEW field \in [Players -> Slot],
           NEW p \in Players, NEW m \in Move,
           ~rows[p][field[p]].fainted
    PROVE  \E d \in Nat :
             Strike(rows, field, p, m) = Struck(rows, field, p, m, d)
<1> DEFINE q == opponentOf(p)
           d == calcularDano(m, TypeOf[p][field[p]], TypeOf[q][field[q]])
<1>1. d \in Nat
  <2>1. q \in Players
    BY OpponentIsPlayer
  <2>2. TypeOf[p][field[p]] \in Type /\ TypeOf[q][field[q]] \in Type
    BY <2>1, RulesAssumption
  <2> QED  BY <2>2, DamageIsPositive
<1>2. Strike(rows, field, p, m) = Struck(rows, field, p, m, d)
  BY Zenon DEF Strike, Struck
<1> HIDE DEF d
<1> QED  BY <1>1, <1>2, Zenon

\* A strike keeps rows well typed, costs the defender no PP, and only wears the
\* rows down.
LEMMA StrikeType ==
    ASSUME NEW rows \in Rows, NEW field \in [Players -> Slot],
           NEW p \in Players, NEW m \in Move, HasPP(rows[p][field[p]], m)
    PROVE  LET after == Strike(rows, field, p, m)
               q     == opponentOf(p)
           IN  /\ after \in Rows
               /\ after[q][field[q]].pp = rows[q][field[q]].pp
               /\ WornDown(rows, after)
               /\ \A s \in Slot : after[p][s].fainted = rows[p][s].fainted
<1> DEFINE after == Strike(rows, field, p, m)
           q     == opponentOf(p)
<1>1. q \in Players /\ q # p
  BY OpponentIsPlayer
<1>2. \A r \in Players, s \in Slot : rows[r][s] \in Row
  BY DEF Rows
<1>3. CASE rows[p][field[p]].fainted
  <2>1. after = rows
    BY <1>3 DEF Strike
  <2>2. WornDown(rows, rows)
    <3>1. ASSUME NEW r \in Players, NEW s \in Slot
          PROVE  /\ rows[r][s].hp <= rows[r][s].hp
                 /\ \A k \in LimitedMove : rows[r][s].pp[k] <= rows[r][s].pp[k]
      BY <1>2, RulesAssumption DEF Row
    <3> QED  BY <3>1 DEF WornDown
  <2> QED  BY <2>1, <2>2
<1>4. CASE ~rows[p][field[p]].fainted
  <2> HIDE DEF q
  <2>1. PICK d \in Nat : after = Struck(rows, field, p, m, d)
    BY <1>4, StrikeRows
  <2> HIDE DEF after
  <2>2. ASSUME NEW r \in Players, NEW s \in Slot
        PROVE  /\ after[r][s] \in Row
               /\ after[r][s].hp <= rows[r][s].hp
               /\ \A k \in LimitedMove : after[r][s].pp[k] <= rows[r][s].pp[k]
               /\ after[r][s].active => rows[r][s].active
               /\ rows[r][s].active => after[r][s].active \/ after[r][s].fainted
               /\ rows[r][s].fainted => after[r][s].fainted
               /\ r = q => after[r][s].pp = rows[r][s].pp
               /\ r = p => after[r][s].fainted = rows[r][s].fainted
    <3>1. after[r][s] = IF s # field[r] THEN rows[r][s]
                        ELSE IF r = p THEN Spend(rows[r][s], m)
                        ELSE Hit(rows[r][s], d)
      BY <2>1 DEF Struck
    <3>2. /\ rows[r][s] \in Row
          /\ rows[r][s].hp <= rows[r][s].hp
          /\ \A k \in LimitedMove : rows[r][s].pp[k] <= rows[r][s].pp[k]
      BY <1>2, RulesAssumption DEF Row
    <3>3. CASE s # field[r]
      BY <3>1, <3>2, <3>3
    <3>4. CASE s = field[r] /\ r = p
      BY <3>1, <3>2, <3>4, <1>1, SpendRow
    <3>5. CASE s = field[r] /\ r # p
      <4>1. after[r][s] = Hit(rows[r][s], d)
        BY <3>1, <3>5
      <4>2. \A k \in LimitedMove : Hit(rows[r][s], d).pp[k] <= rows[r][s].pp[k]
        BY <3>2, HitRow
      <4> QED  BY <4>1, <4>2, <3>2, <3>5, HitRow
    <3> QED  BY <3>3, <3>4, <3>5
  <2>3. after \in Rows
    BY <2>1, <2>2 DEF Rows, Struck
  <2>4. q \in Players /\ field[q] \in Slot
    BY <1>1
  <2>5. WornDown(rows, after)
    BY <2>2 DEF WornDown
  <2> QED  BY <2>2, <2>3, <2>4, <2>5 DEF after, q
<1> QED  BY <1>3, <1>4

\* A strike knocks out exactly the pokemon it brings to zero, and takes it off
\* the field.
LEMMA StrikeFaints ==
    ASSUME NEW rows \in Rows, NEW field \in [Players -> Slot],
           NEW p \in Players, NEW m \in Move, HasPP(rows[p][field[p]], m)
    PROVE  LET after == Strike(rows, field, p, m)
           IN  /\ FaintMatchesHp(rows) => FaintMatchesHp(after)
               /\ NoFaintedActive(rows) => NoFaintedActive(after)
<1> DEFINE after == Strike(rows, field, p, m)
<1>1. CASE rows[p][field[p]].fainted
  BY <1>1 DEF Strike
<1>2. CASE ~rows[p][field[p]].fainted
  <2>1. PICK d \in Nat : after = Struck(rows, field, p, m, d)
    BY <1>2, StrikeRows
  <2> HIDE DEF after
  <2>2. ASSUME NEW r \in Players, NEW s \in Slot
        PROVE  /\ (rows[r][s].fainted <=> rows[r][s].hp = 0)
                    => (after[r][s].fainted <=> after[r][s].hp = 0)
               /\ (rows[r][s].active => ~rows[r][s].fainted)
                    => (after[r][s].active => ~after[r][s].fainted)
    <3>1. after[r][s] = IF s # field[r] THEN rows[r][s]
                        ELSE IF r = p THEN Spend(rows[r][s], m)
                        ELSE Hit(rows[r][s], d)
      BY <2>1 DEF Struck
    <3>2. rows[r][s] \in Row
      BY DEF Rows
    <3>3. CASE s # field[r]
      BY <3>1, <3>3
    <3>4. CASE s = field[r] /\ r = p
      BY <3>1, <3>2, <3>4, SpendRow
    <3>5. CASE s = field[r] /\ r # p
      <4> DEFINE hit == Hit(rows[r][s], d)
      <4>1. /\ rows[r][s].hp \in Nat /\ hit.hp \in Nat
            /\ hit.hp <= rows[r][s].hp
            /\ hit.active => rows[r][s].active /\ hit.hp > 0
            /\ hit.fainted <=> (rows[r][s].fainted \/ hit.hp = 0)
        BY <3>2, HitRow, RulesAssumption DEF Row
      <4>2. after[r][s] = hit
        BY <3>1, <3>5
      <4> HIDE DEF hit
      <4> QED  BY <4>1, <4>2
    <3> QED  BY <3>3, <3>4, <3>5
  <2>3. FaintMatchesHp(rows) => FaintMatchesHp(after)
    BY <2>2 DEF FaintMatchesHp
  <2>4. NoFaintedActive(rows) => NoFaintedActive(after)
    BY <2>2 DEF NoFaintedActive
  <2> QED  BY <2>3, <2>4 DEF after
<1> QED  BY <1>1, <1>2

\* Only a pokemon still standing can strike, and it is still standing after: a
\* strike never leaves both teams wiped.
LEMMA StrikeLeavesOne ==
    ASSUME NEW rows \in Rows, NEW field \in [Players -> Slot],
           NEW p \in Players, NEW m \in Move, HasPP(rows[p][field[p]], m),
           \E r \in Players : hasNonFainted(rows, r)
    PROVE  \E r \in Players : hasNonFainted(Strike(rows, field, p, m), r)
<1> DEFINE after == Strike(rows, field, p, m)
<1>1. CASE rows[p][field[p]].fainted
  BY <1>1 DEF Strike
<1>2. CASE ~rows[p][field[p]].fainted
  <2>1. \A s \in Slot : after[p][s].fainted = rows[p][s].fainted
    BY StrikeType
  <2>2. field[p] \in Slot /\ ~after[p][field[p]].fainted
    BY <1>2, <2>1
  <2> HIDE DEF after
  <2>3. hasNonFainted(after, p)
    BY <2>2 DEF hasNonFainted
  <2> QED  BY <2>3 DEF after
<1> QED  BY <1>1, <1>2

LEMMA WornDownIsTransitive ==
    ASSUME NEW a \in Rows, NEW b \in Rows, NEW c \in Rows,
           WornDown(a, b), WornDown(b, c)
    PROVE  WornDown(a, c)
<1>1. ASSUME NEW p \in Players, NEW s \in Slot
      PROVE  /\ c[p][s].hp <= a[p][s].hp
             /\ \A m \in LimitedMove : c[p][s].pp[m] <= a[p][s].pp[m]
             /\ c[p][s].active => a[p][s].active
             /\ a[p][s].active => c[p][s].active \/ c[p][s].fainted
             /\ a[p][s].fainted => c[p][s].fainted
  <2>1. /\ a[p][s].hp \in Nat /\ b[p][s].hp \in Nat /\ c[p][s].hp \in Nat
        /\ \A m \in LimitedMove : /\ a[p][s].pp[m] \in Nat
                                  /\ b[p][s].pp[m] \in Nat
                                  /\ c[p][s].pp[m] \in Nat
    BY RulesAssumption DEF Rows, Row
  <2> QED  BY <2>1 DEF WornDown
<1> QED  BY <1>1 DEF WornDown

---------------------------------------------------------------------------
(* One round. *)

\* A round keeps the rows well typed and sound, wears them down, and never
\* leaves both teams wiped.
LEMMA RoundIsSound ==
    ASSUME NEW rows \in Rows, NEW mv \in [Players -> Move], NEW first \in Players,
           \A p \in Players : HasActive(rows, p)
    PROVE  LET next == ResolvedRows(rows, mv, first)
           IN  /\ next \in Rows
               /\ WornDown(rows, next)
               /\ FaintMatchesHp(rows) => FaintMatchesHp(next)
               /\ NoFaintedActive(rows) => NoFaintedActive(next)
               /\ (\E p \in Players : hasNonFainted(rows, p))
                    => (\E p \in Players : hasNonFainted(next, p))
<1> DEFINE field == Combatants(rows)
           last  == opponentOf(first)
           mid   == IF Eligible(rows, first, mv[first])
                      THEN Strike(rows, field, first, mv[first]) ELSE rows
           next  == ResolvedRows(rows, mv, first)
<1>1. last \in Players /\ opponentOf(first) = last
  BY OpponentIsPlayer
<1>2. /\ field \in [Players -> Slot]
      /\ \A p \in Players : field[p] = activePokemon(rows, p)
  BY ActivePokemonIsActive DEF Combatants, Actives
<1>3. next = IF Eligible(rows, last, mv[last])
               THEN Strike(mid, field, last, mv[last]) ELSE mid
  BY DEF ResolvedRows
<1>4. WornDown(rows, rows)
  <2>1. ASSUME NEW p \in Players, NEW s \in Slot
        PROVE  /\ rows[p][s].hp <= rows[p][s].hp
               /\ \A m \in LimitedMove : rows[p][s].pp[m] <= rows[p][s].pp[m]
    BY RulesAssumption DEF Rows, Row
  <2> QED  BY <2>1 DEF WornDown
<1>5. Eligible(rows, first, mv[first]) => HasPP(rows[first][field[first]], mv[first])
  BY <1>2 DEF Eligible
<1>6. Eligible(rows, last, mv[last]) => HasPP(rows[last][field[last]], mv[last])
  BY <1>1, <1>2 DEF Eligible
<1> HIDE DEF field, last, next
<1>7. /\ mid \in Rows
      /\ mid[last][field[last]].pp = rows[last][field[last]].pp
      /\ WornDown(rows, mid)
      /\ FaintMatchesHp(rows) => FaintMatchesHp(mid)
      /\ NoFaintedActive(rows) => NoFaintedActive(mid)
      /\ (\E p \in Players : hasNonFainted(rows, p))
           => (\E p \in Players : hasNonFainted(mid, p))
  <2>1. CASE ~Eligible(rows, first, mv[first])
    BY <1>4, <2>1
  <2>2. CASE Eligible(rows, first, mv[first])
    <3>1. mid = Strike(rows, field, first, mv[first])
      BY <2>2
    <3>2. mv[first] \in Move
      OBVIOUS
    <3> HIDE DEF mid
    <3> QED  BY <1>1, <1>2, <1>5, <2>2, <3>1, <3>2, StrikeType, StrikeFaints,
                StrikeLeavesOne
  <2> QED  BY <2>1, <2>2
<1> HIDE DEF mid
<1>8. /\ next \in Rows
      /\ WornDown(mid, next)
      /\ FaintMatchesHp(mid) => FaintMatchesHp(next)
      /\ NoFaintedActive(mid) => NoFaintedActive(next)
      /\ (\E p \in Players : hasNonFainted(mid, p))
           => (\E p \in Players : hasNonFainted(next, p))
  <2>1. CASE ~Eligible(rows, last, mv[last])
    <3>1. next = mid
      BY <1>3, <2>1
    <3>2. ASSUME NEW p \in Players, NEW s \in Slot
          PROVE  /\ mid[p][s].hp <= mid[p][s].hp
                 /\ \A m \in LimitedMove : mid[p][s].pp[m] <= mid[p][s].pp[m]
      BY <1>7, RulesAssumption DEF Rows, Row
    <3> QED  BY <1>7, <3>1, <3>2 DEF WornDown
  <2>2. CASE Eligible(rows, last, mv[last])
    <3>1. next = Strike(mid, field, last, mv[last])
      BY <1>3, <2>2
    <3>2. /\ mv[last] \in Move
          /\ HasPP(mid[last][field[last]], mv[last])
      BY <1>1, <1>6, <1>7, <2>2 DEF HasPP
    <3> QED  BY <1>1, <1>2, <1>7, <3>1, <3>2, StrikeType, StrikeFaints,
                StrikeLeavesOne
  <2> QED  BY <2>1, <2>2
<1>9. WornDown(rows, next)
  BY <1>7, <1>8, WornDownIsTransitive
<1> QED  BY <1>7, <1>8, <1>9 DEF next

\* The pokemon a step knocks out.
KnockedOut(a, b, p, s) == b[p][s].fainted /\ ~a[p][s].fainted

\* A strike knocks out at most the pokemon it is aimed at.
LEMMA StrikeKnocksOut ==
    ASSUME NEW rows \in Rows, NEW field \in [Players -> Slot],
           NEW p \in Players, NEW m \in Move, HasPP(rows[p][field[p]], m),
           NEW r \in Players, NEW s \in Slot,
           KnockedOut(rows, Strike(rows, field, p, m), r, s)
    PROVE  r = opponentOf(p) /\ s = field[r]
<1> DEFINE after == Strike(rows, field, p, m)
<1>1. ~rows[p][field[p]].fainted
  BY DEF Strike, KnockedOut
<1>2. PICK d \in Nat : after = Struck(rows, field, p, m, d)
  BY <1>1, StrikeRows
<1>3. \A t \in Slot : after[p][t].fainted = rows[p][t].fainted
  BY StrikeType
<1> HIDE DEF after
<1>4. s # field[r] => after[r][s] = rows[r][s]
  BY <1>2 DEF Struck
<1> QED  BY <1>3, <1>4, OpponentIsPlayer DEF KnockedOut, after

\* A round knocks out one pokemon at most: the one hit first does not strike back.
LEMMA RoundKnocksOutOne ==
    ASSUME NEW rows \in Rows, NEW mv \in [Players -> Move], NEW first \in Players,
           \A p \in Players : HasActive(rows, p),
           NEW p \in Players, NEW s \in Slot, NEW q \in Players, NEW t \in Slot,
           KnockedOut(rows, ResolvedRows(rows, mv, first), p, s),
           KnockedOut(rows, ResolvedRows(rows, mv, first), q, t)
    PROVE  p = q /\ s = t
<1> DEFINE field == Combatants(rows)
           last  == opponentOf(first)
           mid   == IF Eligible(rows, first, mv[first])
                      THEN Strike(rows, field, first, mv[first]) ELSE rows
           next  == ResolvedRows(rows, mv, first)
<1>1. /\ last \in Players /\ opponentOf(first) = last /\ opponentOf(last) = first
      /\ \A r \in Players : r = first \/ r = last
  BY OpponentIsPlayer
<1>2. /\ field \in [Players -> Slot]
      /\ \A r \in Players : field[r] = activePokemon(rows, r)
  BY ActivePokemonIsActive DEF Combatants, Actives
<1>3. next = IF Eligible(rows, last, mv[last])
               THEN Strike(mid, field, last, mv[last]) ELSE mid
  BY DEF ResolvedRows
<1>4. \A r \in Players : /\ mv[r] \in Move
                         /\ Eligible(rows, r, mv[r]) => HasPP(rows[r][field[r]], mv[r])
  BY <1>2 DEF Eligible
<1> HIDE DEF field, last, next
<1>5. /\ mid \in Rows
      /\ mid[last][field[last]].pp = rows[last][field[last]].pp
      /\ \A r \in Players, u \in Slot :
           KnockedOut(rows, mid, r, u) => r = last /\ u = field[last]
  <2>1. CASE ~Eligible(rows, first, mv[first])
    BY <2>1 DEF KnockedOut
  <2>2. CASE Eligible(rows, first, mv[first])
    <3>1. mid = Strike(rows, field, first, mv[first])
      BY <2>2
    <3> HIDE DEF mid
    <3> QED  BY <1>1, <1>2, <1>4, <2>2, <3>1, StrikeType, StrikeKnocksOut
  <2> QED  BY <2>1, <2>2
<1> HIDE DEF mid
<1>6. CASE next = mid
  BY <1>5, <1>6 DEF next
<1>7. CASE next # mid
  <2>1. next = Strike(mid, field, last, mv[last]) /\ Eligible(rows, last, mv[last])
    BY <1>3, <1>7
  <2>2. HasPP(mid[last][field[last]], mv[last])
    BY <1>1, <1>4, <1>5, <2>1 DEF HasPP
  <2>3. ~mid[last][field[last]].fainted
    BY <1>7, <2>1 DEF Strike
  <2>4. \A r \in Players, u \in Slot :
          KnockedOut(mid, next, r, u) => r = first /\ u = field[first]
    BY <1>1, <1>2, <1>4, <1>5, <2>1, <2>2, StrikeKnocksOut
  <2>5. \A r \in Players, u \in Slot :
          KnockedOut(rows, next, r, u) => \/ KnockedOut(rows, mid, r, u)
                                          \/ KnockedOut(mid, next, r, u)
    BY DEF KnockedOut
  <2>6. \A r \in Players, u \in Slot :
          KnockedOut(rows, next, r, u) => r = first /\ u = field[first]
    BY <1>5, <2>3, <2>4, <2>5 DEF KnockedOut
  <2> QED  BY <2>6 DEF next
<1> QED  BY <1>6, <1>7

---------------------------------------------------------------------------
(* Leads and switches. *)

\* Rows b are rows a with one more pokemon on the field, or one less.
Fielded(a, b, p, s) ==
    \A r \in Players, t \in Slot :
        /\ b[r][t].hp = a[r][t].hp
        /\ b[r][t].pp = a[r][t].pp
        /\ b[r][t].fainted = a[r][t].fainted
        /\ b[r][t].active <=> (a[r][t].active \/ (r = p /\ t = s))

Benched(a, b, p, s) ==
    \A r \in Players, t \in Slot :
        /\ b[r][t].hp = a[r][t].hp
        /\ b[r][t].pp = a[r][t].pp
        /\ b[r][t].fainted = a[r][t].fainted
        /\ b[r][t].active <=> (a[r][t].active /\ ~(r = p /\ t = s))

LEMMA SetActiveRows ==
    ASSUME NEW rows \in Rows, NEW p \in Players, NEW s \in Slot,
           NEW flag \in BOOLEAN
    PROVE  /\ SetActive(rows, p, s, flag) \in Rows
           /\ flag => Fielded(rows, SetActive(rows, p, s, flag), p, s)
           /\ ~flag => Benched(rows, SetActive(rows, p, s, flag), p, s)
<1> DEFINE after == SetActive(rows, p, s, flag)
           row   == [rows[p][s] EXCEPT !.active = flag]
           team  == [rows[p] EXCEPT ![s] = row]
<1>1. /\ row \in Row
      /\ row.hp = rows[p][s].hp
      /\ row.pp = rows[p][s].pp
      /\ row.fainted = rows[p][s].fainted
      /\ row.active = flag
  <2>1. rows[p][s] \in Row
    BY DEF Rows
  <2> QED  BY <2>1 DEF Row
<1>2. after = [rows EXCEPT ![p] = [rows[p] EXCEPT ![s] = row]]
  BY SMT DEF SetActive
<1> HIDE DEF row
<1>3. /\ team \in [Slot -> Row]
      /\ \A t \in Slot : team[t] = IF t = s THEN row ELSE rows[p][t]
  BY <1>1 DEF Rows
<1>4. after = [rows EXCEPT ![p] = team]
  BY <1>2
<1> HIDE DEF team, after
<1>5. /\ after \in Rows
      /\ \A r \in Players : after[r] = IF r = p THEN team ELSE rows[r]
  BY <1>3, <1>4 DEF Rows
<1>6. flag => Fielded(rows, after, p, s)
  BY <1>1, <1>3, <1>5 DEF Fielded, Rows, Row
<1>7. ~flag => Benched(rows, after, p, s)
  BY <1>1, <1>3, <1>5 DEF Benched, Rows, Row
<1> QED  BY <1>5, <1>6, <1>7 DEF after

\* A lead or switch-in fields one pokemon, a switch-out benches one.
LEMMA ActivateRows ==
    ASSUME NEW rows \in Rows, NEW p \in Players, NEW s \in Slot
    PROVE  /\ Activate(rows, p, s) \in Rows
           /\ Fielded(rows, Activate(rows, p, s), p, s)
BY SetActiveRows DEF Activate

LEMMA DeactivateRows ==
    ASSUME NEW rows \in Rows, NEW p \in Players, NEW s \in Slot
    PROVE  /\ Deactivate(rows, p, s) \in Rows
           /\ Benched(rows, Deactivate(rows, p, s), p, s)
BY SetActiveRows DEF Deactivate
===========================================================================
