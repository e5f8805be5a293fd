------------------------- MODULE RoomBracket_proofs -------------------------
(***************************************************************************)
(* A bracket, for every number of players, handlers, duels and restarts:   *)
(* whoever creates the last rounds and however often, they are between the *)
(* players they should be; the next round is always owed by a handler;     *)
(* nobody is in two open duels; a closed bracket is decided and ranked.    *)
(***************************************************************************)
EXTENDS RoomServer_proofs

---------------------------------------------------------------------------
(* The rounds of a list of rows. *)

Rounds(ds, r) == {i \in 1..Len(ds) : ds[i].round = r}
Opponent(d)   == CHOOSE q \in d.pair : q # d.winner \/ d.pair = {d.winner}
WinnersOf(ds) == {ds[i].winner : i \in Rounds(ds, "semifinal")}
LosersOf(ds)  == {Opponent(ds[i]) : i \in Rounds(ds, "semifinal")}
Done(ds) ==
    /\ Cardinality(Rounds(ds, "semifinal")) = 2
    /\ \A i \in Rounds(ds, "semifinal") : ds[i].status = "finished"

\* FinalsFromSemis of any rows, and what makes it last: the semifinals are over.
FinalsRight(ds) ==
    /\ \A i \in Rounds(ds, "final") : Done(ds) /\ ds[i].pair = WinnersOf(ds)
    /\ \A i \in Rounds(ds, "tercer_puesto") : Done(ds) /\ ds[i].pair = LosersOf(ds)

\* Rows b are rows a with other columns and perhaps a new row of that pair and round.
Grown(a, b, pair, round) ==
    /\ IsDuels(b)
    /\ \/ Len(b) = Len(a)
       \/ /\ Len(b) = Len(a) + 1
          /\ b[Len(a) + 1].pair = pair /\ b[Len(a) + 1].round = round
    /\ \A i \in 1..Len(a) : /\ b[i].pair = a[i].pair
                            /\ b[i].round = a[i].round
                            /\ Kept(a[i], b[i])

LEMMA LengthOfRows ==
    ASSUME NEW ds, IsDuels(ds)
    PROVE  Len(ds) \in Nat /\ DOMAIN ds = 1..Len(ds)
BY DEF IsDuels

LEMMA SameIsGrown ==
    ASSUME NEW a, NEW b, SameDuels(a, b), NEW pair, NEW round
    PROVE  Grown(a, b, pair, round)
BY DEF SameDuels, Grown

LEMMA GrownAndSame ==
    ASSUME NEW a, NEW b, NEW c, NEW pair, NEW round, IsDuels(a),
           Grown(a, b, pair, round), SameDuels(b, c)
    PROVE  Grown(a, c, pair, round)
<1>1. Len(a) \in Nat
  BY LengthOfRows
<1>2. IsDuels(c) /\ Len(c) = Len(b)
  BY DEF SameDuels
<1>3. ASSUME NEW i \in 1..Len(a)
      PROVE  /\ c[i].pair = a[i].pair
             /\ c[i].round = a[i].round
             /\ Kept(a[i], c[i])
  <2>1. i \in 1..Len(b)
    BY <1>1 DEF Grown
  <2> QED  BY <2>1 DEF Grown, SameDuels, Kept
<1>4. CASE Len(b) = Len(a)
  BY <1>2, <1>3, <1>4 DEF Grown
<1>5. CASE /\ Len(b) = Len(a) + 1
           /\ b[Len(a) + 1].pair = pair /\ b[Len(a) + 1].round = round
  <2>1. Len(a) + 1 \in 1..Len(b)
    BY <1>1, <1>5
  <2>2. c[Len(a) + 1].pair = pair /\ c[Len(a) + 1].round = round
    BY <1>5, <2>1 DEF SameDuels
  <2> QED  BY <1>2, <1>3, <1>5, <2>2 DEF Grown
<1> QED  BY <1>4, <1>5 DEF Grown

LEMMA CreatedIsGrown ==
    ASSUME IsDuels(duels), NEW pair, NEW round
    PROVE  Grown(duels, Created(pair, round), pair, round)
<1>1. CASE Existing(pair, round) # {}
  BY <1>1, SameDuelsReflexive, SameIsGrown DEF Created
<1>2. CASE Existing(pair, round) = {}
  <2> DEFINE d == NewDuel(pair, round)
             b == Append(duels, d)
  <2>1. PICK Rs : duels \in Seq(Rs)
    BY DEF IsDuels
  <2>2. IsDuel(d) /\ d.pair = pair /\ d.round = round
    BY DEF NewDuel, IsDuel
  <2> HIDE DEF d
  <2>3. /\ duels \in Seq(Rs \cup {d}) /\ d \in Rs \cup {d}
        /\ Len(duels) \in Nat
    BY <2>1
  <2>4. /\ b \in Seq(Rs \cup {d})
        /\ Len(b) = Len(duels) + 1
        /\ \A i \in 1..Len(duels) : b[i] = duels[i]
        /\ b[Len(duels) + 1] = d
    BY <2>3
  <2>5. \A i \in 1..Len(b) : i \in 1..Len(duels) \/ i = Len(duels) + 1
    BY <2>3, <2>4
  <2> HIDE DEF b
  <2>6. IsDuels(b)
    BY <2>2, <2>4, <2>5 DEF IsDuels
  <2>7. Grown(duels, b, pair, round)
    BY <2>2, <2>4, <2>6 DEF Grown, Kept
  <2> QED  BY <1>2, <2>7 DEF Created, b, d
<1> QED  BY <1>1, <1>2

\* No round but that of the new row gets one.
LEMMA RoundsGrown ==
    ASSUME NEW a, NEW b, NEW pair, NEW round, NEW r, IsDuels(a), Grown(a, b, pair, round)
    PROVE  /\ r # round => Rounds(b, r) = Rounds(a, r)
           /\ \A i \in Rounds(b, r) : i \in Rounds(a, r) \/ (i = Len(a) + 1 /\ r = round)
<1>1. Len(a) \in Nat
  BY LengthOfRows
<1>2. \A i \in 1..Len(b) : i \in 1..Len(a) \/ i = Len(a) + 1
  BY <1>1 DEF Grown
<1>3. \A i \in 1..Len(a) : i \in 1..Len(b) /\ b[i].round = a[i].round
  BY <1>1 DEF Grown
<1>4. ASSUME NEW i \in Rounds(b, r)
      PROVE  i \in Rounds(a, r) \/ (i = Len(a) + 1 /\ r = round)
  <2>1. i \in 1..Len(b) /\ b[i].round = r
    BY <1>4 DEF Rounds
  <2>2. CASE i \in 1..Len(a)
    BY <1>3, <2>1, <2>2 DEF Rounds
  <2>3. CASE i \notin 1..Len(a)
    <3>1. i = Len(a) + 1
      BY <1>2, <2>1, <2>3
    <3>2. Len(b) # Len(a)
      BY <2>1, <2>3
    <3> QED  BY <2>1, <3>1, <3>2 DEF Grown
  <2> QED  BY <2>2, <2>3
<1>5. \A i \in Rounds(a, r) : i \in Rounds(b, r)
  BY <1>3 DEF Rounds
<1> QED  BY <1>4, <1>5

\* Semifinals that are over stay as they are.
LEMMA DoneStays ==
    ASSUME NEW a, NEW b, NEW pair, NEW round, IsDuels(a), Grown(a, b, pair, round),
           round # "semifinal", Done(a)
    PROVE  Done(b) /\ WinnersOf(b) = WinnersOf(a) /\ LosersOf(b) = LosersOf(a)
<1>1. Rounds(b, "semifinal") = Rounds(a, "semifinal")
  BY RoundsGrown
<1>2. ASSUME NEW i \in Rounds(a, "semifinal")
      PROVE  /\ b[i].status = "finished"
             /\ b[i].winner = a[i].winner
             /\ b[i].pair = a[i].pair
  <2>1. i \in 1..Len(a) /\ a[i].status = "finished"
    BY <1>2 DEF Rounds, Done
  <2> QED  BY <2>1 DEF Grown, Kept
<1>3. \A i \in Rounds(a, "semifinal") : Opponent(b[i]) = Opponent(a[i])
  BY <1>2 DEF Opponent
<1> QED  BY <1>1, <1>2, <1>3 DEF Done, WinnersOf, LosersOf

\* One semifinal at most is not two that are over.
LEMMA OneIsNotDone ==
    ASSUME NEW ds, NEW k, Rounds(ds, "semifinal") \subseteq {k}
    PROVE  ~Done(ds)
<1>1. CASE Rounds(ds, "semifinal") = {}
  BY <1>1, FS_EmptySet DEF Done
<1>2. CASE Rounds(ds, "semifinal") = {k}
  <2>1. Cardinality({k}) = 1
    BY FS_Singleton
  <2> QED  BY <1>2, <2>1 DEF Done
<1> QED  BY <1>1, <1>2

LEMMA GrownKeepsFinals ==
    ASSUME NEW a, NEW b, NEW pair, NEW round, IsDuels(a), Grown(a, b, pair, round),
           FinalsRight(a),
           round # "semifinal" \/ ~Done(a),
           round = "final" => Done(a) /\ pair = WinnersOf(a),
           round = "tercer_puesto" => Done(a) /\ pair = LosersOf(a)
    PROVE  FinalsRight(b)
<1>1. CASE round = "semifinal"
  <2>1. ~Done(a)
    BY <1>1
  <2>2. Rounds(a, "final") = {} /\ Rounds(a, "tercer_puesto") = {}
    BY <2>1 DEF FinalsRight
  <2>3. Rounds(b, "final") = {} /\ Rounds(b, "tercer_puesto") = {}
    BY <1>1, <2>2, RoundsGrown
  <2> QED  BY <2>3 DEF FinalsRight
<1>2. CASE round # "semifinal"
  <2>1. ASSUME NEW i \in Rounds(b, "final")
        PROVE  Done(b) /\ b[i].pair = WinnersOf(b)
    <3>1. i \in Rounds(a, "final") \/ (i = Len(a) + 1 /\ round = "final")
      BY RoundsGrown
    <3>2. CASE i \in Rounds(a, "final")
      <4>1. Done(a) /\ a[i].pair = WinnersOf(a) /\ i \in 1..Len(a)
        BY <3>2 DEF FinalsRight, Rounds
      <4>2. b[i].pair = a[i].pair
        BY <4>1 DEF Grown
      <4> QED  BY <1>2, <4>1, <4>2, DoneStays
    <3>3. CASE i \notin Rounds(a, "final")
      <4>1. i = Len(a) + 1 /\ round = "final" /\ Done(a) /\ pair = WinnersOf(a)
        BY <3>1, <3>3
      <4>2. Len(b) # Len(a)
        BY <4>1, <2>1, LengthOfRows DEF Rounds
      <4>3. b[i].pair = pair
        BY <4>1, <4>2 DEF Grown
      <4> QED  BY <1>2, <4>1, <4>3, DoneStays
    <3> QED  BY <3>2, <3>3
  <2>2. ASSUME NEW i \in Rounds(b, "tercer_puesto")
        PROVE  Done(b) /\ b[i].pair = LosersOf(b)
    <3>1. i \in Rounds(a, "tercer_puesto") \/ (i = Len(a) + 1 /\ round = "tercer_puesto")
      BY RoundsGrown
    <3>2. CASE i \in Rounds(a, "tercer_puesto")
      <4>1. Done(a) /\ a[i].pair = LosersOf(a) /\ i \in 1..Len(a)
        BY <3>2 DEF FinalsRight, Rounds
      <4>2. b[i].pair = a[i].pair
        BY <4>1 DEF Grown
      <4> QED  BY <1>2, <4>1, <4>2, DoneStays
    <3>3. CASE i \notin Rounds(a, "tercer_puesto")
      <4>1. i = Len(a) + 1 /\ round = "tercer_puesto" /\ Done(a) /\ pair = LosersOf(a)
        BY <3>1, <3>3
      <4>2. Len(b) # Len(a)
        BY <4>1, <2>2, LengthOfRows DEF Rounds
      <4>3. b[i].pair = pair
        BY <4>1, <4>2 DEF Grown
      <4> QED  BY <1>2, <4>1, <4>3, DoneStays
    <3> QED  BY <3>2, <3>3
  <2> QED  BY <2>1, <2>2 DEF FinalsRight
<1> QED  BY <1>1, <1>2

---------------------------------------------------------------------------
(* Handlers in flight are rows too. *)

IsTask(s) ==
    s = [pc |-> s.pc, who |-> s.who, kind |-> s.kind, duel |-> s.duel, pairA |-> s.pairA,
         pairB |-> s.pairB]
IsTasks(ts) == ts = [t \in Task |-> ts[t]] /\ \A t \in Task : IsTask(ts[t])

ToPc(s, x)    == [s EXCEPT !.pc = x]
ToWho(s, x)   == [s EXCEPT !.who = x]
ToKind(s, x)  == [s EXCEPT !.kind = x]
ToDuel(s, x)  == [s EXCEPT !.duel = x]
ToPairA(s, x) == [s EXCEPT !.pairA = x]
ToPairB(s, x) == [s EXCEPT !.pairB = x]

\* The columns that matter here.
Has(s, pc, kind, pairA, pairB) ==
    IsTask(s) /\ s.pc = pc /\ s.kind = kind /\ s.pairA = pairA /\ s.pairB = pairB

LEMMA TaskColumn ==
    ASSUME NEW s, IsTask(s), NEW x
    PROVE  /\ Has(ToPc(s, x), x, s.kind, s.pairA, s.pairB)
           /\ Has(ToWho(s, x), s.pc, s.kind, s.pairA, s.pairB)
           /\ Has(ToKind(s, x), s.pc, x, s.pairA, s.pairB)
           /\ Has(ToDuel(s, x), s.pc, s.kind, s.pairA, s.pairB)
           /\ Has(ToPairA(s, x), s.pc, s.kind, x, s.pairB)
           /\ Has(ToPairB(s, x), s.pc, s.kind, s.pairA, x)
<1>1. ToPc(s, x) = [pc |-> x, who |-> s.who, kind |-> s.kind, duel |-> s.duel,
                    pairA |-> s.pairA, pairB |-> s.pairB]
  BY SMT DEF IsTask, ToPc
<1>2. ToWho(s, x) = [pc |-> s.pc, who |-> x, kind |-> s.kind, duel |-> s.duel,
                     pairA |-> s.pairA, pairB |-> s.pairB]
  BY SMT DEF IsTask, ToWho
<1>3. ToKind(s, x) = [pc |-> s.pc, who |-> s.who, kind |-> x, duel |-> s.duel,
                      pairA |-> s.pairA, pairB |-> s.pairB]
  BY SMT DEF IsTask, ToKind
<1>4. ToDuel(s, x) = [pc |-> s.pc, who |-> s.who, kind |-> s.kind, duel |-> x,
                      pairA |-> s.pairA, pairB |-> s.pairB]
  BY SMT DEF IsTask, ToDuel
<1>5. ToPairA(s, x) = [pc |-> s.pc, who |-> s.who, kind |-> s.kind, duel |-> s.duel,
                       pairA |-> x, pairB |-> s.pairB]
  BY SMT DEF IsTask, ToPairA
<1>6. ToPairB(s, x) = [pc |-> s.pc, who |-> s.who, kind |-> s.kind, duel |-> s.duel,
                       pairA |-> s.pairA, pairB |-> x]
  BY SMT DEF IsTask, ToPairB
<1>7. Has(ToPc(s, x), x, s.kind, s.pairA, s.pairB)
  BY <1>1 DEF Has, IsTask
<1>8. Has(ToWho(s, x), s.pc, s.kind, s.pairA, s.pairB)
  BY <1>2 DEF Has, IsTask
<1>9. Has(ToKind(s, x), s.pc, x, s.pairA, s.pairB)
  BY <1>3 DEF Has, IsTask
<1>10. Has(ToDuel(s, x), s.pc, s.kind, s.pairA, s.pairB)
  BY <1>4 DEF Has, IsTask
<1>11. Has(ToPairA(s, x), s.pc, s.kind, x, s.pairB)
  BY <1>5 DEF Has, IsTask
<1>12. Has(ToPairB(s, x), s.pc, s.kind, s.pairA, x)
  BY <1>6 DEF Has, IsTask
<1> QED  BY <1>7, <1>8, <1>9, <1>10, <1>11, <1>12

LEMMA IdleTask == Has(Idle, "idle", "none", {}, {})
BY DEF Has, IsTask, Idle

\* A handler begins, goes on with a duel, or with pairs.
Begun(x, p, k)       == [Idle EXCEPT !.pc = x, !.who = p, !.kind = k]
BegunOn(x, p, k, i)  == [Idle EXCEPT !.pc = x, !.who = p, !.kind = k, !.duel = i]
GoneOn(s, x, i)      == [s EXCEPT !.pc = x, !.duel = i]
GonePair(s, x, a)    == [s EXCEPT !.pc = x, !.pairA = a]
GonePairs(s, x, a, b) == [s EXCEPT !.pc = x, !.pairA = a, !.pairB = b]

LEMMA BegunTask ==
    ASSUME NEW x, NEW p, NEW k, NEW i
    PROVE  Has(Begun(x, p, k), x, k, {}, {}) /\ Has(BegunOn(x, p, k, i), x, k, {}, {})
<1> DEFINE s1 == ToPc(Idle, x)
           s2 == ToWho(s1, p)
           s3 == ToKind(s2, k)
           s4 == ToDuel(s3, i)
<1>1. Begun(x, p, k) = s3 /\ BegunOn(x, p, k, i) = s4
  BY DEF Begun, BegunOn, ToPc, ToWho, ToKind, ToDuel
<1>2. Has(s1, x, "none", {}, {})
  BY IdleTask, TaskColumn DEF Has
<1> HIDE DEF s1
<1>3. Has(s2, x, "none", {}, {})
  BY <1>2, TaskColumn DEF Has
<1> HIDE DEF s2
<1>4. Has(s3, x, k, {}, {})
  BY <1>3, TaskColumn DEF Has
<1> HIDE DEF s3
<1>5. Has(s4, x, k, {}, {})
  BY <1>4, TaskColumn DEF Has
<1> QED  BY <1>1, <1>4, <1>5

LEMMA GoneOnTask ==
    ASSUME NEW s, IsTask(s), NEW x, NEW i, NEW a, NEW b
    PROVE  /\ Has(GoneOn(s, x, i), x, s.kind, s.pairA, s.pairB)
           /\ Has(GonePair(s, x, a), x, s.kind, a, s.pairB)
           /\ Has(GonePairs(s, x, a, b), x, s.kind, a, b)
<1> DEFINE s1 == ToPc(s, x)
           s2 == ToPairA(s1, a)
<1>1. /\ GoneOn(s, x, i) = ToDuel(s1, i)
      /\ GonePair(s, x, a) = s2
      /\ GonePairs(s, x, a, b) = ToPairB(s2, b)
  BY DEF GoneOn, GonePair, GonePairs, ToPc, ToDuel, ToPairA, ToPairB
<1>2. Has(s1, x, s.kind, s.pairA, s.pairB)
  BY TaskColumn
<1> HIDE DEF s1
<1>3. Has(s2, x, s.kind, a, s.pairB) /\ Has(ToDuel(s1, i), x, s.kind, s.pairA, s.pairB)
  BY <1>2, TaskColumn DEF Has
<1> HIDE DEF s2
<1>4. Has(ToPairB(s2, b), x, s.kind, a, b)
  BY <1>3, TaskColumn DEF Has
<1> QED  BY <1>1, <1>3, <1>4

LEMMA OneTaskBecomes ==
    ASSUME IsTasks(task), NEW t \in Task, NEW s, IsTask(s), Become(t, s)
    PROVE  IsTasks(task') /\ task'[t] = s /\ \A u \in Task \ {t} : task'[u] = task[u]
<1>1. /\ task' = [u \in Task |-> IF u = t THEN s ELSE task[u]]
      /\ \A u \in Task : task'[u] = IF u = t THEN s ELSE task[u]
  BY Zenon DEF Become, IsTasks
<1> QED  BY <1>1 DEF IsTasks

---------------------------------------------------------------------------
(* The ways a handler goes on without coming to where it decides on duels. *)

\* A room of two bootstraps its one duel, a room of four draws its semifinals.
Watched == {"boot_read", "semi_a", "semi_b", "final", "third"} \cup
           (IF Size = 2 THEN {} ELSE {"boot_duel"})

\* The handler at s goes on with n, and not to any of those places.
Quiet(s, n) ==
    /\ IsTask(n)
    /\ n.pc \notin Watched
    /\ n.kind = "ready" => s.kind = "ready"

TasksQuiet ==
    IsTasks(task') /\ \A t \in Task : task'[t] = task[t] \/ Quiet(task[t], task'[t])

LEMMA BecomesQuietly ==
    ASSUME IsTasks(task), NEW t \in Task, NEW n, Quiet(task[t], n), Become(t, n)
    PROVE  TasksQuiet
BY OneTaskBecomes DEF Quiet, TasksQuiet

LEMMA EndsQuietly ==
    ASSUME IsTasks(task), NEW t \in Task, End(t) \/ Finish(t)
    PROVE  TasksQuiet
<1>1. Quiet(task[t], Idle)
  BY IdleTask DEF Quiet, Has, Watched
<1> QED  BY <1>1, BecomesQuietly DEF End, Finish

LEMMA GoesQuietly ==
    ASSUME IsTasks(task), NEW t \in Task, NEW x, x \notin Watched, Goto(t, x)
    PROVE  TasksQuiet
<1> DEFINE n == [task[t] EXCEPT !.pc = x]
<1>1. n = ToPc(task[t], x) /\ IsTask(task[t])
  BY DEF ToPc, IsTasks
<1>2. Has(ToPc(task[t], x), x, task[t].kind, task[t].pairA, task[t].pairB)
  BY <1>1, TaskColumn
<1>3. Become(t, n)
  BY DEF Goto
<1> HIDE DEF n
<1>4. Quiet(task[t], n)
  BY <1>1, <1>2 DEF Quiet, Has
<1> QED  BY <1>3, <1>4, BecomesQuietly

LEMMA MovesQuietly ==
    ASSUME IsTasks(task), NEW t \in Task, NEW x, x \notin Watched, NEW i, NEW a,
           Become(t, GoneOn(task[t], x, i)) \/ Become(t, GonePair(task[t], x, a))
    PROVE  TasksQuiet
<1> DEFINE n1 == GoneOn(task[t], x, i)
           n2 == GonePair(task[t], x, a)
<1>1. IsTask(task[t])
  BY DEF IsTasks
<1>2. /\ Has(n1, x, task[t].kind, task[t].pairA, task[t].pairB)
      /\ Has(n2, x, task[t].kind, a, task[t].pairB)
  BY <1>1, GoneOnTask
<1>3. Become(t, n1) \/ Become(t, n2)
  OBVIOUS
<1> HIDE DEF n1, n2
<1>4. Quiet(task[t], n1) /\ Quiet(task[t], n2)
  BY <1>2 DEF Quiet, Has
<1> QED  BY <1>3, <1>4, BecomesQuietly

LEMMA BeginsQuietly ==
    ASSUME IsTasks(task), NEW t \in Task, NEW x, x \notin Watched, NEW p,
           NEW k, k # "ready", NEW i,
           Become(t, Begun(x, p, k)) \/ Become(t, BegunOn(x, p, k, i))
    PROVE  TasksQuiet
<1> DEFINE n1 == Begun(x, p, k)
           n2 == BegunOn(x, p, k, i)
<1>1. Has(n1, x, k, {}, {}) /\ Has(n2, x, k, {}, {})
  BY BegunTask
<1>2. Become(t, n1) \/ Become(t, n2)
  OBVIOUS
<1> HIDE DEF n1, n2
<1>3. Quiet(task[t], n1) /\ Quiet(task[t], n2)
  BY <1>1 DEF Quiet, Has
<1> QED  BY <1>2, <1>3, BecomesQuietly

LEMMA RestsQuietly ==
    ASSUME IsTasks(task), UNCHANGED task
    PROVE  TasksQuiet
BY DEF TasksQuiet, IsTasks

---------------------------------------------------------------------------
(* The steps that neither create a duel nor decide that one is to be created. *)

Soft(t) ==
    \/ \E p \in Human : \/ Join(t, p) \/ Leave(t, p) \/ Drop(t, p)
                        \/ GraceExpires(t, p) \/ WalkoverExpires(t, p)
    \/ \E b \in Bot : AddBot(t, b)
    \/ JoinMark(t) \/ SeedBots(t) \/ CreateFails(t) \/ LeaveMark(t) \/ DropMark(t)
    \/ BracketMark(t) \/ BracketFind(t) \/ Close(t) \/ Unseat(t) \/ UnseatEnds(t)
    \/ WalkFind(t) \/ Rematch(t) \/ RankBracket(t) \/ AwaitRound(t) \/ ArmAbsent(t)
    \/ QueryFails(t) \/ Forfeit(t) \/ WalkWrite(t)

SoftStep == (\E t \in Task : Soft(t)) \/ Rest \/ Play \/ UNCHANGED vars

LEMMA KindsOfStep ==
    ASSUME [Next]_vars
    PROVE  \/ SoftStep
           \/ Restart
           \/ \E t \in Task : \/ \E p \in Human : Ready(t, p)
                              \/ BootRead(t) \/ BootDuel(t) \/ SemiA(t) \/ SemiB(t)
                              \/ PairFinals(t) \/ Final(t) \/ Third(t)
<1>1. ASSUME NEW t \in Task, Request(t) \/ Expire(t)
      PROVE  Soft(t) \/ \E p \in Human : Ready(t, p)
  BY <1>1 DEF Request, Expire, Soft
<1>2. ASSUME NEW t \in Task, Continue(t) \/ QueryFails(t)
      PROVE  \/ Soft(t)
             \/ BootRead(t) \/ BootDuel(t) \/ SemiA(t) \/ SemiB(t)
             \/ PairFinals(t) \/ Final(t) \/ Third(t)
  BY <1>2 DEF Continue, Soft
<1> QED  BY <1>1, <1>2 DEF Next, SoftStep

LEMMA SoftTasks ==
    ASSUME IsTasks(task), SoftStep
    PROVE  TasksQuiet
<1>1. CASE Rest \/ UNCHANGED vars
  BY <1>1, RestsQuietly DEF Rest, Reserve, RemoveBot, vars
<1>2. CASE Play
  <2>1. CASE UNCHANGED task
    BY <2>1, RestsQuietly
  <2>2. ASSUME NEW i, NEW t \in Task, NEW w, DuelEnds(t, i, w)
        PROVE  TasksQuiet
    <3>1. Become(t, Begun("advance", Nobody, "play"))
      BY <2>2 DEF DuelEnds, Begin, Begun
    <3> QED  BY <3>1, BeginsQuietly DEF Watched
  <2> QED  BY <1>2, <2>1, <2>2 DEF Play, SelectLead
<1>3. ASSUME NEW t \in Task, Soft(t)
      PROVE  TasksQuiet
  <2>1. ASSUME NEW p \in Human, Join(t, p) \/ Leave(t, p)
        PROVE  TasksQuiet
    <3>1. PICK x \in {"join_mark", "leave_mark", "close"}, k \in {"join", "leave"} :
             Become(t, Begun(x, p, k))
      BY <2>1 DEF Join, Leave, Begin, Begun
    <3> QED  BY <3>1, BeginsQuietly DEF Watched
  <2>2. ASSUME NEW p \in Human, Drop(t, p)
        PROVE  TasksQuiet
    <3>1. CASE \E i : Become(t, BegunOn("forfeit", p, "drop", i))
      BY <3>1, BeginsQuietly DEF Watched
    <3>2. CASE \E x \in {"bracket_mark", "drop_mark"} : Become(t, Begun(x, p, "drop"))
      BY <3>2, BeginsQuietly DEF Watched
    <3>3. CASE UNCHANGED task
      BY <3>3, RestsQuietly
    <3> QED  BY <2>2, <3>1, <3>2, <3>3 DEF Drop, Begin, Begun, BegunOn
  <2>3. ASSUME NEW p \in Human, GraceExpires(t, p) \/ WalkoverExpires(t, p)
        PROVE  TasksQuiet
    <3>1. PICK x \in {"close", "walk_find"} : Become(t, Begun(x, p, "timer"))
      BY <2>3 DEF GraceExpires, WalkoverExpires, Begin, Begun
    <3> QED  BY <3>1, BeginsQuietly DEF Watched
  <2>4. ASSUME NEW b \in Bot, AddBot(t, b)
        PROVE  TasksQuiet
    <3>1. Become(t, Begun("seed_bots", b, "bot"))
      BY <2>4 DEF AddBot, Begin, Begun
    <3> QED  BY <3>1, BeginsQuietly DEF Watched
  <2>5. CASE End(t) \/ Finish(t)
    BY <2>5, EndsQuietly
  <2>6. CASE \E x \in {"walk_find", "bracket_find", "unseat", "unseat_room", "unseat_keep",
                       "seed_bots", "advance"} : Goto(t, x)
    BY <2>6, GoesQuietly DEF Watched
  <2>7. CASE \E i : Become(t, GoneOn(task[t], "walk_write", i))
    BY <2>7, MovesQuietly DEF Watched
  <2>8. CASE WalkFind(t)
    BY <2>5, <2>7, <2>8 DEF WalkFind, GoneOn
  <2>9. CASE WalkWrite(t) \/ Forfeit(t)
    BY <2>5, <2>6, <2>9 DEF WalkWrite, Forfeit
  <2> QED  BY <1>3, <2>1, <2>2, <2>3, <2>4, <2>5, <2>6, <2>8, <2>9
       DEF Soft, JoinMark, SeedBots, CreateFails, LeaveMark, DropMark, BracketMark, BracketFind,
           Close, Unseat, UnseatEnds, Rematch, RankBracket, AwaitRound, ArmAbsent, QueryFails
<1> QED  BY <1>1, <1>2, <1>3 DEF SoftStep

\* A soft step changes one row at most: it chooses a lead or ends the duel.
LEMMA SoftRow ==
    ASSUME SoftStep
    PROVE  \/ UNCHANGED duels
           \/ \E i \in DOMAIN duels, p \in Human : duels' = [duels EXCEPT ![i] = Led(@, p)]
           \/ \E i \in DOMAIN duels : \E w \in duels[i].pair :
                Unfinished(i) /\ duels' = Finished(i, w)
           \/ \E t \in Task : \E i : /\ Unfinished(i)
                                     /\ duels' = Finished(i, opponentOf(task[t].who, i))
<1>1. CASE Rest \/ Play \/ UNCHANGED vars
  BY <1>1 DEF Rest, Reserve, RemoveBot, Play, SelectLead, DuelEnds, vars
<1>2. ASSUME NEW t \in Task, Forfeit(t) \/ WalkWrite(t)
      PROVE  \/ UNCHANGED duels
             \/ \E i : Unfinished(i) /\ duels' = Finished(i, opponentOf(task[t].who, i))
  BY <1>2 DEF Forfeit, WalkWrite
<1>3. ASSUME NEW t \in Task, Soft(t), ~(Forfeit(t) \/ WalkWrite(t))
      PROVE  UNCHANGED duels
  BY <1>3 DEF Soft, Join, Leave, Drop, GraceExpires, WalkoverExpires, AddBot, JoinMark, SeedBots,
     CreateFails, LeaveMark, DropMark, BracketMark, BracketFind, Close, Unseat, UnseatEnds,
     WalkFind, Rematch, RankBracket, AwaitRound, ArmAbsent, QueryFails
<1> QED  BY <1>1, <1>2, <1>3 DEF SoftStep

LEMMA SoftRows ==
    ASSUME IsDuels(duels), SoftStep
    PROVE  SameDuels(duels, duels')
BY SoftRow, SameDuelsReflexive, LedRows, FinishedRows

\* The room closes with its bracket over, or is deleted while it waits.
LEMMA SoftStatus ==
    ASSUME SoftStep
    PROVE  \/ UNCHANGED status
           \/ status = "waiting" /\ status' = "gone"
           \/ /\ status = "in_progress" /\ status' = "finished"
              /\ Size = 2 \/ (SemisDone /\ FinalsDone)
<1>1. CASE Rest \/ Play \/ UNCHANGED vars
  BY <1>1 DEF Rest, Reserve, RemoveBot, Play, SelectLead, DuelEnds, vars
<1>2. ASSUME NEW t \in Task, Close(t) \/ UnseatEnds(t) \/ RankBracket(t)
      PROVE  \/ UNCHANGED status
             \/ status = "waiting" /\ status' = "gone"
             \/ /\ status = "in_progress" /\ status' = "finished"
                /\ Size = 2 \/ (SemisDone /\ FinalsDone)
  BY <1>2 DEF Close, UnseatEnds, RankBracket, Bracket
<1>3. ASSUME NEW t \in Task, Soft(t), ~(Close(t) \/ UnseatEnds(t) \/ RankBracket(t))
      PROVE  UNCHANGED status
  BY <1>3 DEF Soft, Join, Leave, Drop, GraceExpires, WalkoverExpires, AddBot, JoinMark, SeedBots,
     CreateFails, LeaveMark, DropMark, BracketMark, BracketFind, Unseat, WalkFind, Rematch,
     AwaitRound, ArmAbsent, QueryFails, Forfeit, WalkWrite
<1> QED  BY <1>1, <1>2, <1>3 DEF SoftStep

---------------------------------------------------------------------------
(* The invariant. *)

\* What a handler has read is still so.
Agrees(ds, s) ==
    /\ s.pc \in {"boot_read", "semi_a", "semi_b"} => s.kind = "ready"
    /\ s.pc = "semi_a" => Rounds(ds, "semifinal") = {}
    /\ s.pc = "semi_b" => \E k : Rounds(ds, "semifinal") \subseteq {k}
    /\ s.pc = "final" => Done(ds) /\ s.pairA = WinnersOf(ds) /\ s.pairB = LosersOf(ds)
    /\ s.pc = "third" => Done(ds) /\ s.pairB = LosersOf(ds)

OneReady == \A t, u \in Task : task[t].kind = "ready" /\ task[u].kind = "ready" => t = u

BracketInv ==
    /\ IsDuels(duels)
    /\ IsTasks(task)
    /\ status = "waiting" => Len(duels) = 0
    /\ FinalsRight(duels)
    /\ \A t \in Task : Agrees(duels, task[t])
    /\ OneReady

LEMMA AgreesGrown ==
    ASSUME NEW a, NEW b, NEW pair, NEW round, IsDuels(a), Grown(a, b, pair, round),
           round # "semifinal", NEW s, Agrees(a, s)
    PROVE  Agrees(b, s)
<1>1. Rounds(b, "semifinal") = Rounds(a, "semifinal")
  BY RoundsGrown
<1>2. Done(a) => Done(b) /\ WinnersOf(b) = WinnersOf(a) /\ LosersOf(b) = LosersOf(a)
  BY DoneStays
<1> QED  BY <1>1, <1>2 DEF Agrees

LEMMA QuietStep ==
    ASSUME BracketInv, TasksQuiet, NEW pair, NEW round, Grown(duels, duels', pair, round),
           round \notin {"semifinal", "final", "tercer_puesto"},
           status' = "waiting" => Len(duels') = 0
    PROVE  BracketInv'
<1>1. IsDuels(duels')
  BY DEF Grown
<1>2. FinalsRight(duels')
  BY GrownKeepsFinals DEF BracketInv
<1>3. \A t \in Task : Agrees(duels', task[t])
  BY AgreesGrown DEF BracketInv
<1>4. \A t \in Task : Agrees(duels', task'[t])
  BY <1>3 DEF TasksQuiet, Quiet, Watched, Agrees
<1>5. OneReady'
  BY DEF BracketInv, OneReady, TasksQuiet, Quiet
<1> QED  BY <1>1, <1>2, <1>4, <1>5 DEF BracketInv, TasksQuiet

LEMMA SameStep ==
    ASSUME BracketInv, TasksQuiet, SameDuels(duels, duels'),
           status' = "waiting" => status = "waiting"
    PROVE  BracketInv'
<1>1. Grown(duels, duels', {}, "unica")
  BY SameIsGrown
<1>2. status' = "waiting" => Len(duels') = 0
  BY DEF BracketInv, SameDuels
<1> QED  BY <1>1, <1>2, QuietStep

\* One handler does what the invariant speaks of.
LEMMA LoudStep ==
    ASSUME BracketInv, NEW t \in Task, NEW n, IsTask(n), Become(t, n),
           NEW pair, NEW round, Grown(duels, duels', pair, round),
           round # "semifinal" \/ ~Done(duels),
           round = "final" => Done(duels) /\ pair = WinnersOf(duels),
           round = "tercer_puesto" => Done(duels) /\ pair = LosersOf(duels),
           status' = "waiting" => Len(duels') = 0,
           Agrees(duels', n),
           \A u \in Task \ {t} : Agrees(duels', task[u]),
           n.kind = "ready" => task[t].kind = "ready" \/ \A u \in Task : task[u].kind # "ready"
    PROVE  BracketInv'
<1>1. IsDuels(duels') /\ FinalsRight(duels')
  BY GrownKeepsFinals DEF BracketInv, Grown
<1>2. IsTasks(task') /\ task'[t] = n /\ \A u \in Task \ {t} : task'[u] = task[u]
  BY OneTaskBecomes DEF BracketInv
<1>3. \A u \in Task : Agrees(duels', task'[u])
  BY <1>2
<1>4. OneReady'
  BY <1>2 DEF BracketInv, OneReady
<1> QED  BY <1>1, <1>2, <1>3, <1>4 DEF BracketInv

\* No row changes.
LEMMA RowlessStep ==
    ASSUME BracketInv, TasksQuiet, UNCHANGED duels, status' = "waiting" => status = "waiting"
    PROVE  BracketInv'
<1>1. SameDuels(duels, duels')
  BY SameDuelsReflexive DEF BracketInv
<1> QED  BY <1>1, SameStep

\* A room with a duel is no waiting room.
LEMMA StatusCreated ==
    ASSUME BracketInv, NEW pair, NEW round, status' = StatusOnCreate(pair, round)
    PROVE  status' # "waiting"
<1>1. Len(duels) \in Nat /\ DOMAIN duels = 1..Len(duels)
  BY LengthOfRows DEF BracketInv
<1>2. CASE Existing(pair, round) # {}
  <2>1. PICK i : i \in 1..Len(duels)
    BY <1>1, <1>2 DEF Existing, OfRound
  <2>2. Len(duels) # 0
    BY <1>1, <2>1
  <2> QED  BY <1>2, <2>2 DEF BracketInv, StatusOnCreate
<1>3. CASE Existing(pair, round) = {}
  BY <1>3 DEF StatusOnCreate
<1> QED  BY <1>2, <1>3

---------------------------------------------------------------------------
(* The invariant, action by action. *)

LEMMA BracketInvInit ==
    ASSUME Init
    PROVE  BracketInv
<1>1. duels = <<>> /\ <<>> \in Seq({}) /\ Len(<<>>) = 0
  BY DEF Init
<1>2. IsDuels(duels) /\ FinalsRight(duels)
  BY <1>1 DEF IsDuels, FinalsRight, Rounds
<1>3. \A t \in Task : task[t] = Idle
  BY DEF Init
<1>4. IsTasks(task)
  BY <1>3, IdleTask DEF Init, IsTasks, Has
<1>5. \A t \in Task : Agrees(duels, task[t])
  BY <1>3, IdleTask DEF Agrees, Has
<1>6. OneReady
  BY <1>3, IdleTask DEF OneReady, Has
<1> QED  BY <1>1, <1>2, <1>4, <1>5, <1>6 DEF BracketInv

LEMMA ReadyKeeps ==
    ASSUME Serial = {"ready"}, BracketInv, NEW t \in Task, NEW p \in Human, Ready(t, p)
    PROVE  BracketInv'
<1> DEFINE n == Begun("boot_read", Nobody, "ready")
<1>1. Become(t, n) /\ UNCHANGED <<duels, status>>
  BY DEF Ready, Begin, Begun
<1>2. Has(n, "boot_read", "ready", {}, {})
  BY BegunTask
<1> HIDE DEF n
<1>3. Agrees(duels', n) /\ IsTask(n)
  BY <1>2 DEF Agrees, Has
<1>4. \A u \in Task : task[u].kind # "ready"
  BY DEF Ready
<1>5. \A u \in Task : Agrees(duels', task[u])
  BY <1>1 DEF BracketInv
<1>6. Grown(duels, duels', {}, "unica")
  BY <1>1, SameDuelsReflexive, SameIsGrown DEF BracketInv
<1>7. status' = "waiting" => Len(duels') = 0
  BY <1>1 DEF BracketInv
<1> QED  BY <1>1, <1>3, <1>4, <1>5, <1>6, <1>7, LoudStep

LEMMA SoftKeeps ==
    ASSUME BracketInv, SoftStep
    PROVE  BracketInv'
<1>1. TasksQuiet
  BY SoftTasks DEF BracketInv
<1>2. SameDuels(duels, duels')
  BY SoftRows DEF BracketInv
<1>3. status' = "waiting" => status = "waiting"
  BY SoftStatus
<1> QED  BY <1>1, <1>2, <1>3, SameStep

\* The creation of a duel of one of those rounds by the one handler that may.
LEMMA SemiAKeeps ==
    ASSUME BracketInv, NEW t \in Task, SemiA(t)
    PROVE  BracketInv'
<1> DEFINE pair == task[t].pairA
           n == GoneOn(task[t], "semi_b", CreatedId(pair, "semifinal"))
<1>1. /\ task[t].pc = "semi_a"
      /\ Become(t, n)
      /\ duels' = Created(pair, "semifinal")
      /\ status' = StatusOnCreate(pair, "semifinal")
  BY DEF SemiA, CreateFirst, CreateDuel, At, GoneOn
<1>2. IsTask(task[t]) /\ Agrees(duels, task[t])
  BY DEF BracketInv, IsTasks
<1>3. Has(n, "semi_b", task[t].kind, task[t].pairA, task[t].pairB)
  BY <1>2, GoneOnTask
<1> HIDE DEF n
<1>4. Rounds(duels, "semifinal") = {} /\ task[t].kind = "ready"
  BY <1>1, <1>2 DEF Agrees
<1>5. Grown(duels, duels', pair, "semifinal")
  BY <1>1, CreatedIsGrown DEF BracketInv
<1>6. Rounds(duels', "semifinal") \subseteq {Len(duels) + 1}
  BY <1>4, <1>5, RoundsGrown DEF BracketInv
<1>7. ~Done(duels)
  BY <1>4, OneIsNotDone
<1>8. Agrees(duels', n)
  BY <1>3, <1>4, <1>6 DEF Agrees, Has
<1>9. \A u \in Task \ {t} : Agrees(duels', task[u])
  BY <1>4, <1>7 DEF BracketInv, OneReady, Agrees
<1>10. status' # "waiting"
  BY <1>1, StatusCreated
<1>11. IsTask(n)
  BY <1>3 DEF Has
<1> QED  BY <1>1, <1>4, <1>5, <1>7, <1>8, <1>9, <1>10, <1>11, LoudStep

\* Two rows enter lead selection after one was created.
LEMMA CreatedAndLed ==
    ASSUME IsDuels(duels), NEW pair, NEW round, NEW i, NEW j,
           \/ duels' = LeadSelection(Created(pair, round), i)
           \/ duels' = LeadSelection(LeadSelection(Created(pair, round), i), j)
    PROVE  Grown(duels, duels', pair, round)
<1> DEFINE c == Created(pair, round)
<1>1. Grown(duels, c, pair, round) /\ IsDuels(c)
  BY CreatedIsGrown DEF Grown
<1> HIDE DEF c
<1>2. SameDuels(c, LeadSelection(c, i))
  BY <1>1, LeadSelectionRows
<1>3. IsDuels(LeadSelection(c, i)) /\ Grown(duels, LeadSelection(c, i), pair, round)
  BY <1>1, <1>2, GrownAndSame DEF SameDuels
<1>4. SameDuels(LeadSelection(c, i), LeadSelection(LeadSelection(c, i), j))
  BY <1>3, LeadSelectionRows
<1>5. Grown(duels, LeadSelection(LeadSelection(c, i), j), pair, round)
  BY <1>3, <1>4, GrownAndSame
<1> QED  BY <1>3, <1>5 DEF c

LEMMA SemiBKeeps ==
    ASSUME BracketInv, NEW t \in Task, SemiB(t)
    PROVE  BracketInv'
<1> DEFINE pair == task[t].pairB
<1>1. /\ task[t].pc = "semi_b"
      /\ Become(t, Idle)
      /\ duels' = LeadSelection(LeadSelection(Created(pair, "semifinal"),
                                              CreatedId(pair, "semifinal")), task[t].duel)
      /\ status' = StatusOnCreate(pair, "semifinal")
  BY DEF SemiB, CreateSecond, At, End
<1>2. Agrees(duels, task[t])
  BY DEF BracketInv
<1>3. ~Done(duels) /\ task[t].kind = "ready"
  BY <1>1, <1>2, OneIsNotDone DEF Agrees
<1>4. Grown(duels, duels', pair, "semifinal")
  BY <1>1, CreatedAndLed DEF BracketInv
<1>5. Agrees(duels', Idle) /\ IsTask(Idle) /\ Idle.kind # "ready"
  BY IdleTask DEF Has, Agrees
<1>6. \A u \in Task \ {t} : Agrees(duels', task[u])
  BY <1>3 DEF BracketInv, OneReady, Agrees
<1>7. status' # "waiting"
  BY <1>1, StatusCreated
<1> QED  BY <1>1, <1>3, <1>4, <1>5, <1>6, <1>7, LoudStep

LEMMA BootReadKeeps ==
    ASSUME BracketInv, NEW t \in Task, BootRead(t)
    PROVE  BracketInv'
<1>1. UNCHANGED <<duels, status>> /\ task[t].pc = "boot_read"
  BY DEF BootRead, At
<1>2. CASE End(t)
  BY <1>1, <1>2, EndsQuietly, RowlessStep DEF BracketInv
<1>3. CASE Size = 2 /\ Become(t, GonePair(task[t], "boot_duel", Occupied))
  <2>1. TasksQuiet
    BY <1>3, MovesQuietly DEF Watched, BracketInv
  <2> QED  BY <1>1, <2>1, RowlessStep
<1>4. ASSUME Bootable, Size = 4, NEW a, NEW b, Become(t, GonePairs(task[t], "semi_a", a, b))
      PROVE  BracketInv'
  <2> DEFINE n == GonePairs(task[t], "semi_a", a, b)
  <2>1. IsTask(task[t]) /\ task[t].kind = "ready"
    BY <1>1 DEF BracketInv, IsTasks, Agrees
  <2>2. Has(n, "semi_a", "ready", a, b)
    BY <2>1, GoneOnTask
  <2>3. Become(t, n)
    BY <1>4
  <2> HIDE DEF n
  <2>4. Len(duels) = 0
    BY <1>4 DEF BracketInv, Bootable
  <2>5. Rounds(duels, "semifinal") = {}
    BY <2>4 DEF Rounds
  <2>6. Agrees(duels', n) /\ IsTask(n)
    BY <1>1, <2>2, <2>5 DEF Agrees, Has
  <2>7. \A u \in Task : Agrees(duels', task[u])
    BY <1>1 DEF BracketInv
  <2>8. Grown(duels, duels', {}, "unica")
    BY <1>1, SameDuelsReflexive, SameIsGrown DEF BracketInv
  <2>9. status' = "waiting" => Len(duels') = 0
    BY <1>1, <2>4
  <2> QED  BY <2>1, <2>3, <2>6, <2>7, <2>8, <2>9, LoudStep
<1> QED  BY <1>2, <1>3, <1>4 DEF BootRead, GonePair, GonePairs

LEMMA BootDuelKeeps ==
    ASSUME BracketInv, NEW t \in Task, BootDuel(t)
    PROVE  BracketInv'
<1>1. Grown(duels, duels', task[t].pairA, "unica")
  BY CreatedAndLed DEF BracketInv, BootDuel
<1>2. status' # "waiting"
  BY StatusCreated DEF BootDuel
<1>3. TasksQuiet
  BY EndsQuietly DEF BootDuel, BracketInv
<1> QED  BY <1>1, <1>2, <1>3, QuietStep

\* advanceTournamentOrRematch pairs winners and losers once the semifinals are over.
LEMMA PairFinalsKeeps ==
    ASSUME BracketInv, NEW t \in Task, PairFinals(t)
    PROVE  BracketInv'
<1> DEFINE a == {duels[i].winner : i \in Semis}
           b == {LoserOf(i) : i \in Semis}
           n == GonePairs(task[t], "final", a, b)
<1>1. DOMAIN duels = 1..Len(duels)
  BY LengthOfRows DEF BracketInv
<1>2. Semis = Rounds(duels, "semifinal")
  BY <1>1 DEF Semis, OfRound, Rounds
<1>3. Done(duels)
  BY <1>2 DEF PairFinals, SemisDone, Done, Unfinished
<1>4. a = WinnersOf(duels)
  BY <1>2 DEF WinnersOf
<1>5. b = LosersOf(duels)
  BY <1>2 DEF LosersOf, LoserOf, opponentOf, Opponent
<1>6. IsTask(task[t])
  BY DEF BracketInv, IsTasks
<1>7. Become(t, n) /\ UNCHANGED <<duels, status>>
  BY DEF PairFinals, GonePairs
<1> HIDE DEF a, b
<1>8. Has(n, "final", task[t].kind, a, b)
  BY <1>6, GoneOnTask
<1> HIDE DEF n
<1>9. Agrees(duels', n) /\ IsTask(n)
  BY <1>3, <1>4, <1>5, <1>7, <1>8 DEF Agrees, Has
<1>10. \A u \in Task : Agrees(duels', task[u])
  BY <1>7 DEF BracketInv
<1>11. Grown(duels, duels', {}, "unica")
  BY <1>7, SameDuelsReflexive, SameIsGrown DEF BracketInv
<1>12. status' = "waiting" => Len(duels') = 0
  BY <1>7 DEF BracketInv
<1>13. n.kind = task[t].kind
  BY <1>8 DEF Has
<1> QED  BY <1>7, <1>9, <1>10, <1>11, <1>12, <1>13, LoudStep

LEMMA FinalKeeps ==
    ASSUME BracketInv, NEW t \in Task, Final(t)
    PROVE  BracketInv'
<1> DEFINE pair == task[t].pairA
           n == GoneOn(task[t], "third", CreatedId(pair, "final"))
<1>1. /\ task[t].pc = "final"
      /\ Become(t, n)
      /\ duels' = Created(pair, "final")
      /\ status' = StatusOnCreate(pair, "final")
  BY DEF Final, CreateFirst, CreateDuel, At, GoneOn
<1>2. IsTask(task[t]) /\ Agrees(duels, task[t])
  BY DEF BracketInv, IsTasks
<1>3. Has(n, "third", task[t].kind, task[t].pairA, task[t].pairB)
  BY <1>2, GoneOnTask
<1> HIDE DEF n
<1>4. Done(duels) /\ pair = WinnersOf(duels) /\ task[t].pairB = LosersOf(duels)
  BY <1>1, <1>2 DEF Agrees
<1>5. Grown(duels, duels', pair, "final")
  BY <1>1, CreatedIsGrown DEF BracketInv
<1>6. Done(duels') /\ LosersOf(duels') = LosersOf(duels)
  BY <1>4, <1>5, DoneStays DEF BracketInv
<1>7. Agrees(duels', n) /\ IsTask(n) /\ n.kind = task[t].kind
  BY <1>3, <1>4, <1>6 DEF Agrees, Has
<1>8. \A u \in Task : Agrees(duels', task[u])
  BY <1>5, AgreesGrown DEF BracketInv
<1>9. status' # "waiting"
  BY <1>1, StatusCreated
<1> QED  BY <1>1, <1>4, <1>5, <1>7, <1>8, <1>9, LoudStep

LEMMA ThirdKeeps ==
    ASSUME BracketInv, NEW t \in Task, Third(t)
    PROVE  BracketInv'
<1> DEFINE pair == task[t].pairB
           n == ToPc(task[t], "arm")
<1>1. /\ task[t].pc = "third"
      /\ Become(t, n)
      /\ duels' = LeadSelection(LeadSelection(Created(pair, "tercer_puesto"),
                                              CreatedId(pair, "tercer_puesto")), task[t].duel)
      /\ status' = StatusOnCreate(pair, "tercer_puesto")
  BY DEF Third, CreateSecond, At, Goto, ToPc
<1>2. IsTask(task[t]) /\ Agrees(duels, task[t])
  BY DEF BracketInv, IsTasks
<1>3. Has(n, "arm", task[t].kind, task[t].pairA, task[t].pairB)
  BY <1>2, TaskColumn
<1> HIDE DEF n
<1>4. Done(duels) /\ pair = LosersOf(duels)
  BY <1>1, <1>2 DEF Agrees
<1>5. Grown(duels, duels', pair, "tercer_puesto")
  BY <1>1, CreatedAndLed DEF BracketInv
<1>6. Agrees(duels', n) /\ IsTask(n) /\ n.kind = task[t].kind
  BY <1>3 DEF Agrees, Has
<1>7. \A u \in Task : Agrees(duels', task[u])
  BY <1>5, AgreesGrown DEF BracketInv
<1>8. status' # "waiting"
  BY <1>1, StatusCreated
<1> QED  BY <1>1, <1>4, <1>5, <1>6, <1>7, <1>8, LoudStep

LEMMA RestartKeeps ==
    ASSUME BracketInv, Restart
    PROVE  BracketInv'
<1>1. task' = [t \in Task |-> Idle] /\ \A t \in Task : task'[t] = Idle
  BY DEF Restart
<1>2. TasksQuiet
  BY <1>1, IdleTask DEF TasksQuiet, IsTasks, Quiet, Has, Watched
<1>3. SameDuels(duels, duels')
  BY ReconciledRows DEF Restart, BracketInv
<1>4. status' = "waiting" => status = "waiting"
  BY DEF Restart
<1> QED  BY <1>2, <1>3, <1>4, SameStep

LEMMA BracketInvStep ==
    ASSUME Serial = {"ready"}, BracketInv, [Next]_vars
    PROVE  BracketInv'
BY KindsOfStep, SoftKeeps, RestartKeeps, ReadyKeeps, BootReadKeeps, BootDuelKeeps, SemiAKeeps,
   SemiBKeeps, PairFinalsKeeps, FinalKeeps, ThirdKeeps

\* While one room:ready is served at a time, the finals of a bracket are between
\* the winners and the third place between the losers of its two semifinals:
\* advanceTournamentOrRematch gives up the lock of the room before it creates
\* them, and whatever number of advances, walkovers and restarts then races, what
\* each has read of the semifinals still holds when it inserts.
THEOREM FinalsAreRight ==
    ASSUME Serial = {"ready"}
    PROVE  Spec => []FinalsFromSemis
<1>1. BracketInv => FinalsFromSemis
  <2> SUFFICES ASSUME BracketInv PROVE FinalsFromSemis
    OBVIOUS
  <2>1. DOMAIN duels = 1..Len(duels)
    BY LengthOfRows DEF BracketInv
  <2>2. \A r : OfRound(r) = Rounds(duels, r)
    BY <2>1 DEF OfRound, Rounds
  <2>3. {duels[j].winner : j \in Semis} = WinnersOf(duels)
    BY <2>2 DEF Semis, WinnersOf
  <2>4. {LoserOf(j) : j \in Semis} = LosersOf(duels)
    BY <2>2 DEF Semis, LosersOf, LoserOf, opponentOf, Opponent
  <2> QED  BY <2>2, <2>3, <2>4 DEF BracketInv, FinalsRight, FinalsFromSemis
<1> QED  BY <1>1, BracketInvInit, BracketInvStep, PTL DEF Spec

---------------------------------------------------------------------------
(* Rows that are open. *)

\* No row of b is over but those that were over in a.
Opened(a, b) ==
    \A i \in 1..Len(b) : b[i].status = "finished" => i \in 1..Len(a) /\ a[i].status = "finished"

HasOpen(ds, pair, round) ==
    \E i \in 1..Len(ds) : /\ ds[i].pair = pair /\ ds[i].round = round
                          /\ ds[i].status # "finished"

LEMMA OpenStays ==
    ASSUME NEW a, NEW b, SameDuels(a, b), Opened(a, b), NEW pair, NEW round,
           HasOpen(a, pair, round)
    PROVE  HasOpen(b, pair, round)
BY DEF SameDuels, Opened, HasOpen

LEMMA LedIsOpened ==
    ASSUME IsDuels(duels), NEW i, NEW p
    PROVE  Opened(duels, [duels EXCEPT ![i] = Led(@, p)])
<1> DEFINE b == [duels EXCEPT ![i] = Led(@, p)]
<1>1. i \in 1..Len(duels) => IsDuel(duels[i])
  BY DEF IsDuels
<1>2. i \in 1..Len(duels) => /\ SameDuel(duels[i], Led(duels[i], p))
                             /\ Kept(duels[i], Led(duels[i], p))
                             /\ Led(duels[i], p).status = "finished"
                                  => duels[i].status = "finished"
  BY <1>1, LedRow
<1>3. /\ Len(b) = Len(duels)
      /\ \A j \in 1..Len(duels) : b[j] = IF j = i THEN Led(duels[i], p) ELSE duels[j]
  BY <1>2, OneRowReplaced DEF SameDuels
<1> HIDE DEF b
<1>4. Opened(duels, b)
  BY <1>2, <1>3 DEF Opened
<1> QED  BY <1>4 DEF b

LEMMA EnteredIsOpened ==
    ASSUME NEW ds, IsDuels(ds), NEW i
    PROVE  Opened(ds, LeadSelection(ds, i))
<1> DEFINE b == LeadSelection(ds, i)
<1>1. i \in 1..Len(ds) => IsDuel(ds[i])
  BY DEF IsDuels
<1>2. i \in 1..Len(ds) => /\ SameDuel(ds[i], Entered(ds[i]))
                          /\ Kept(ds[i], Entered(ds[i]))
                          /\ Entered(ds[i]).status = ds[i].status
  BY <1>1, EnteredRow
<1>3. /\ Len(b) = Len(ds)
      /\ \A j \in 1..Len(ds) : b[j] = IF j = i THEN Entered(ds[i]) ELSE ds[j]
  BY <1>2, OneRowReplaced DEF SameDuels, LeadSelection
<1> HIDE DEF b
<1>4. Opened(ds, b)
  BY <1>2, <1>3 DEF Opened
<1> QED  BY <1>4 DEF b

\* createDuelFromRoom leaves an open duel of that round and pair, old or new.
LEMMA CreatedIsOpen ==
    ASSUME IsDuels(duels), NEW pair, NEW round
    PROVE  /\ Opened(duels, Created(pair, round))
           /\ HasOpen(Created(pair, round), pair, round)
<1>1. Len(duels) \in Nat /\ DOMAIN duels = 1..Len(duels)
  BY LengthOfRows
<1>2. CASE Existing(pair, round) # {}
  <2>1. PICK i \in 1..Len(duels) : /\ duels[i].pair = pair /\ duels[i].round = round
                                   /\ duels[i].status # "finished"
    BY <1>1, <1>2 DEF Existing, OfRound, Unfinished
  <2> QED  BY <1>2, <2>1 DEF Created, Opened, HasOpen
<1>3. CASE Existing(pair, round) = {}
  <2> DEFINE d == NewDuel(pair, round)
             b == Append(duels, d)
  <2>1. PICK Rs : duels \in Seq(Rs)
    BY DEF IsDuels
  <2>2. d.pair = pair /\ d.round = round /\ d.status # "finished"
    BY DEF NewDuel
  <2> HIDE DEF d
  <2>3. /\ duels \in Seq(Rs \cup {d}) /\ d \in Rs \cup {d}
    BY <2>1
  <2>4. /\ Len(b) = Len(duels) + 1
        /\ \A i \in 1..Len(duels) : b[i] = duels[i]
        /\ b[Len(duels) + 1] = d
    BY <1>1, <2>3
  <2>5. /\ \A i \in 1..Len(b) : i \in 1..Len(duels) \/ i = Len(duels) + 1
        /\ Len(duels) + 1 \in 1..Len(b)
    BY <1>1, <2>4
  <2> HIDE DEF b
  <2>6. Opened(duels, b) /\ HasOpen(b, pair, round)
    BY <2>2, <2>4, <2>5 DEF Opened, HasOpen
  <2> QED  BY <1>3, <2>6 DEF Created, b, d
<1> QED  BY <1>2, <1>3

LEMMA CreatedAndLedIsOpen ==
    ASSUME IsDuels(duels), NEW pair, NEW round, NEW i, NEW j,
           duels' = LeadSelection(LeadSelection(Created(pair, round), i), j)
    PROVE  Opened(duels, duels') /\ HasOpen(duels', pair, round)
<1> DEFINE c == Created(pair, round)
           l == LeadSelection(c, i)
<1>1. /\ Grown(duels, c, pair, round) /\ IsDuels(c)
      /\ Opened(duels, c) /\ HasOpen(c, pair, round)
  BY CreatedIsGrown, CreatedIsOpen DEF Grown
<1>2. duels' = LeadSelection(l, j)
  OBVIOUS
<1> HIDE DEF c
<1>3. SameDuels(c, l) /\ Opened(c, l) /\ IsDuels(l) /\ HasOpen(l, pair, round)
  BY <1>1, LeadSelectionRows, EnteredIsOpened, OpenStays DEF SameDuels
<1> HIDE DEF l
<1>4. SameDuels(l, duels') /\ Opened(l, duels') /\ HasOpen(duels', pair, round)
  BY <1>2, <1>3, LeadSelectionRows, EnteredIsOpened, OpenStays
<1>5. Len(duels') = Len(l) /\ Len(l) = Len(c)
  BY <1>3, <1>4 DEF SameDuels
<1> QED  BY <1>1, <1>3, <1>4, <1>5 DEF Opened

---------------------------------------------------------------------------
(* Somebody is to open the next round. *)

\* The rows ask for a handler: the semifinals are over and, of finals, there are
\* none or they are over too.
Owed(ds) ==
    /\ Done(ds)
    /\ Rounds(ds, "final") # {} /\ Rounds(ds, "tercer_puesto") # {}
         => \A i \in 1..Len(ds) : ds[i].status = "finished"

Bears(s) == s.pc \in {"advance", "final", "third"}

RoundOwed ==
    restarts = 0 /\ Size = 4 /\ status = "in_progress" /\ Owed(duels) =>
        \E t \in Task : Bears(task[t])

\* A handler that comes to the third place has created a final.
Placed(ds, s) ==
    /\ s.pc = "third" => Rounds(ds, "final") # {}
    /\ s.pc = "boot_duel" => Size = 2

OwedInv ==
    /\ IsDuels(duels)
    /\ IsTasks(task)
    /\ restarts \in Nat
    /\ \A t \in Task : Placed(duels, task[t])
    /\ RoundOwed

LEMMA RoundIsOwed ==
    ASSUME IsDuels(duels)
    PROVE  RoundOwed <=> NextRoundIsOwed
<1>1. DOMAIN duels = 1..Len(duels)
  BY LengthOfRows
<1>2. \A r : OfRound(r) = Rounds(duels, r)
  BY <1>1 DEF OfRound, Rounds
<1>3. SemisDone <=> Done(duels)
  BY <1>2 DEF SemisDone, Semis, Done, Unfinished
<1>4. HasFinals <=> Rounds(duels, "final") # {} /\ Rounds(duels, "tercer_puesto") # {}
  BY <1>2 DEF HasFinals
<1>5. AllOver <=> \A i \in 1..Len(duels) : duels[i].status = "finished"
  BY <1>1 DEF AllOver, Unfinished
<1> QED  BY <1>3, <1>4, <1>5 DEF RoundOwed, NextRoundIsOwed, Owed, Bears, Bracket

LEMMA PlacedGrown ==
    ASSUME NEW a, NEW b, NEW pair, NEW round, IsDuels(a), Grown(a, b, pair, round),
           NEW s, Placed(a, s)
    PROVE  Placed(b, s)
<1>1. Len(a) \in Nat
  BY LengthOfRows
<1>2. ASSUME NEW i \in Rounds(a, "final")
      PROVE  i \in Rounds(b, "final")
  <2>1. i \in 1..Len(a) /\ i \in 1..Len(b)
    BY <1>1 DEF Rounds, Grown
  <2> QED  BY <2>1 DEF Rounds, Grown
<1> QED  BY <1>2 DEF Placed

\* Rows that owe the next round owed it before, unless one has just ended.
LEMMA OwedBefore ==
    ASSUME NEW a, NEW b, SameDuels(a, b), Opened(a, b), Owed(b)
    PROVE  Owed(a)
<1>1. \A r : Rounds(a, r) = Rounds(b, r)
  BY DEF SameDuels, Rounds
<1>2. \A i \in 1..Len(b) : b[i].status = "finished" => a[i].status = "finished"
  BY DEF Opened
<1>3. \A i \in Rounds(b, "semifinal") : a[i].status = "finished"
  BY <1>2 DEF Owed, Done, Rounds
<1> QED  BY <1>1, <1>2, <1>3 DEF Owed, Done, SameDuels

\* One handler moves: it is at one of the places where the next round is owed, or
\* it was not and the rows owe no more than before, or they owe nothing.
LEMMA OwedByOne ==
    ASSUME OwedInv, NEW t \in Task, IsTasks(task'),
           \A u \in Task \ {t} : task'[u] = task[u],
           NEW pair, NEW round, Grown(duels, duels', pair, round),
           Placed(duels', task'[t]), restarts' = restarts,
           \/ Bears(task'[t])
           \/ Size = 2 \/ status' # "in_progress" \/ ~Owed(duels')
           \/ /\ ~Bears(task[t])
              /\ status' = status
              /\ SameDuels(duels, duels') /\ Opened(duels, duels')
    PROVE  OwedInv'
<1>1. IsDuels(duels') /\ restarts' \in Nat
  BY DEF OwedInv, Grown
<1>2. \A u \in Task : Placed(duels', task'[u])
  BY PlacedGrown DEF OwedInv
<1>3. RoundOwed'
  <2>1. CASE Bears(task'[t]) \/ Size = 2 \/ status' # "in_progress" \/ ~Owed(duels')
    BY <2>1 DEF RoundOwed
  <2>2. CASE /\ ~Bears(task[t]) /\ status' = status
             /\ SameDuels(duels, duels') /\ Opened(duels, duels')
    <3>1. ASSUME restarts' = 0, Size = 4, status' = "in_progress", Owed(duels')
          PROVE  \E u \in Task : Bears(task'[u])
      <4>1. Owed(duels)
        BY <2>2, <3>1, OwedBefore
      <4>2. PICK u \in Task : Bears(task[u])
        BY <2>2, <3>1, <4>1 DEF OwedInv, RoundOwed
      <4> QED  BY <2>2, <4>2
    <3> QED  BY <3>1 DEF RoundOwed
  <2> QED  BY <2>1, <2>2
<1> QED  BY <1>1, <1>2, <1>3 DEF OwedInv

\* Every handler's step is its own.
LEMMA OneTaskMoves ==
    ASSUME IsTasks(task), NEW t \in Task,
           \/ Soft(t) \/ \E p \in Human : Ready(t, p)
           \/ BootRead(t) \/ BootDuel(t) \/ SemiA(t) \/ SemiB(t)
           \/ PairFinals(t) \/ Final(t) \/ Third(t)
    PROVE  \A u \in Task \ {t} : task'[u] = task[u]
<1>1. (\E s : Become(t, s)) \/ UNCHANGED task
  <2>1. CASE Soft(t)
    BY <2>1 DEF Soft, Join, Leave, Drop, GraceExpires, WalkoverExpires, AddBot, JoinMark, SeedBots,
       CreateFails, LeaveMark, DropMark, BracketMark, BracketFind, Close, Unseat, UnseatEnds,
       WalkFind, Rematch, RankBracket, AwaitRound, ArmAbsent, QueryFails, Forfeit, WalkWrite,
       Begin, Goto, End, Finish
  <2>2. CASE ~Soft(t)
    BY <2>2 DEF Ready, BootRead, BootDuel, SemiA, SemiB, PairFinals, Final, Third, CreateFirst,
       CreateSecond, Begin, Goto, End
  <2> QED  BY <2>1, <2>2
<1>2. ASSUME NEW s, Become(t, s)
      PROVE  \A u \in Task \ {t} : task'[u] = task[u]
  BY <1>2, Zenon DEF Become, IsTasks
<1> QED  BY <1>1, <1>2

\* What is placed stays so while nobody comes to the third place.
LEMMA SoftPlaced ==
    ASSUME OwedInv, SoftStep
    PROVE  \A t \in Task : Placed(duels', task'[t])
<1>1. Grown(duels, duels', {}, "unica")
  BY SoftRows, SameIsGrown DEF OwedInv
<1>2. \A t \in Task : Placed(duels', task[t])
  BY <1>1, PlacedGrown DEF OwedInv
<1>3. TasksQuiet
  BY SoftTasks DEF OwedInv
<1>4. Size \in {2, 4}
  BY RoomAssumption DEF RoomAssumption
<1>5. \A t \in Task : Quiet(task[t], task'[t]) => Placed(duels', task'[t])
  BY <1>4 DEF Quiet, Placed, Watched
<1> QED  BY <1>2, <1>3, <1>5 DEF TasksQuiet

\* A handler that bears the next round and stops has found that none is owed.
LEMMA StopsForNothing ==
    ASSUME OwedInv, NEW t \in Task, Soft(t), Bears(task[t]),
           Faulty \cap {"advance", "final", "third"} = {}
    PROVE  Size = 2 \/ status' # "in_progress" \/ ~Owed(duels')
<1>1. CreateFails(t) \/ Rematch(t) \/ RankBracket(t) \/ AwaitRound(t)
  <2>1. ~(\E p \in Human : Join(t, p) \/ Leave(t, p) \/ Drop(t, p)
                           \/ GraceExpires(t, p) \/ WalkoverExpires(t, p))
    BY DEF Bears, Join, Leave, Drop, GraceExpires, WalkoverExpires, At
  <2>2. ~(\E b \in Bot : AddBot(t, b))
    BY DEF Bears, AddBot, At
  <2>3. ~( \/ JoinMark(t) \/ SeedBots(t) \/ LeaveMark(t) \/ DropMark(t)
           \/ BracketMark(t) \/ BracketFind(t) \/ Close(t) \/ Unseat(t) \/ UnseatEnds(t)
           \/ WalkFind(t) \/ ArmAbsent(t) \/ Forfeit(t) \/ WalkWrite(t))
    BY DEF Bears, JoinMark, SeedBots, LeaveMark, DropMark, BracketMark, BracketFind, Close, Unseat,
       UnseatEnds, WalkFind, ArmAbsent, Forfeit, WalkWrite, At
  <2>4. ~QueryFails(t)
    BY DEF Bears, QueryFails
  <2> QED  BY <2>1, <2>2, <2>3, <2>4 DEF Soft
<1>2. CASE CreateFails(t) \/ Rematch(t) \/ RankBracket(t)
  BY <1>2 DEF CreateFails, Rematch, RankBracket
<1>3. CASE AwaitRound(t)
  <2>1. CASE status = "gone"
    BY <1>3, <2>1 DEF AwaitRound
  <2>2. CASE Size = 4 /\ ~(Bracket /\ SemisDone /\ (HasFinals => FinalsDone))
    <3> SUFFICES ASSUME status = "in_progress", Owed(duels)
                 PROVE  SemisDone /\ (HasFinals => FinalsDone)
      BY <1>3, <2>2 DEF AwaitRound, Bracket
    <3>1. DOMAIN duels = 1..Len(duels) /\ Len(duels) \in Nat
      BY LengthOfRows DEF OwedInv
    <3>2. \A r : OfRound(r) = Rounds(duels, r)
      BY <3>1 DEF OfRound, Rounds
    <3>3. SemisDone
      BY <3>2 DEF SemisDone, Semis, Owed, Done, Unfinished
    <3>4. ASSUME HasFinals
          PROVE  FinalsDone
      <4>1. \A i \in 1..Len(duels) : duels[i].status = "finished"
        BY <3>2, <3>4 DEF Owed, HasFinals
      <4>2. TheFinal \in OfRound("final") /\ TheThird \in OfRound("tercer_puesto")
        BY <3>1, <3>4, FirstIsThere DEF HasFinals, TheFinal, TheThird, OfRound
      <4> QED  BY <3>1, <3>4, <4>1, <4>2 DEF FinalsDone, Unfinished, OfRound
    <3> QED  BY <3>3, <3>4
  <2> QED  BY <1>3, <2>1, <2>2 DEF AwaitRound
<1> QED  BY <1>1, <1>2, <1>3

LEMMA OwedSoft ==
    ASSUME OwedInv, SoftStep, restarts' = restarts,
           Faulty \cap {"advance", "final", "third"} = {}
    PROVE  OwedInv'
<1>1. IsTasks(task') /\ SameDuels(duels, duels') /\ \A t \in Task : Placed(duels', task'[t])
  BY SoftTasks, SoftRows, SoftPlaced DEF OwedInv, TasksQuiet
<1>2. Grown(duels, duels', {}, "unica")
  BY <1>1, SameIsGrown
<1>3. status' = "in_progress" => status = "in_progress"
  BY SoftStatus
<1>4. CASE UNCHANGED task /\ (UNCHANGED duels \/ \E i, p : duels' = [duels EXCEPT ![i] = Led(@, p)])
  <2>1. Opened(duels, duels')
    BY <1>4, LedIsOpened DEF OwedInv, Opened
  <2>2. Owed(duels') => Owed(duels)
    BY <1>1, <2>1, OwedBefore
  <2>3. RoundOwed'
    BY <1>3, <1>4, <2>2 DEF OwedInv, RoundOwed
  <2> QED  BY <1>1, <2>3 DEF OwedInv, SameDuels
<1>5. ASSUME NEW i, NEW t \in Task, NEW w, DuelEnds(t, i, w)
      PROVE  OwedInv'
  <2>1. Become(t, Begun("advance", Nobody, "play"))
    BY <1>5 DEF DuelEnds, Begin, Begun
  <2>2. Has(Begun("advance", Nobody, "play"), "advance", "play", {}, {})
    BY BegunTask
  <2>3. Bears(task'[t]) /\ \A u \in Task \ {t} : task'[u] = task[u]
    BY <2>1, <2>2, OneTaskBecomes DEF OwedInv, Has, Bears
  <2> QED  BY <1>1, <1>2, <2>3, OwedByOne
<1>6. ASSUME NEW t \in Task, Soft(t)
      PROVE  OwedInv'
  <2>1. \A u \in Task \ {t} : task'[u] = task[u]
    BY <1>6, OneTaskMoves DEF OwedInv
  <2>2. CASE Bears(task[t])
    BY <1>1, <1>2, <1>6, <2>1, <2>2, StopsForNothing, OwedByOne
  <2>3. CASE Goto(t, "advance")
    <3>1. Become(t, ToPc(task[t], "advance"))
      BY <2>3 DEF Goto, ToPc
    <3>2. Has(ToPc(task[t], "advance"), "advance", task[t].kind, task[t].pairA, task[t].pairB)
      BY TaskColumn DEF OwedInv, IsTasks
    <3>3. Bears(task'[t])
      BY <3>1, <3>2, OneTaskBecomes DEF OwedInv, Has, Bears
    <3> QED  BY <1>1, <1>2, <2>1, <3>3, OwedByOne
  <2>4. CASE ~Bears(task[t]) /\ ~Goto(t, "advance")
    <3>1. UNCHANGED duels
      BY <1>6, <2>4 DEF Soft, Join, Leave, Drop, GraceExpires, WalkoverExpires, AddBot, JoinMark,
         SeedBots, CreateFails, LeaveMark, DropMark, BracketMark, BracketFind, Close, Unseat,
         UnseatEnds, WalkFind, Rematch, RankBracket, AwaitRound, ArmAbsent, QueryFails, Forfeit,
         WalkWrite
    <3>2. Opened(duels, duels')
      BY <3>1 DEF Opened
    <3>3. status' = status \/ status' # "in_progress"
      BY <1>3
    <3> QED  BY <1>1, <1>2, <2>1, <2>4, <3>2, <3>3, OwedByOne
  <2> QED  BY <2>2, <2>3, <2>4
<1>7. CASE Rest \/ UNCHANGED vars
  BY <1>4, <1>7 DEF Rest, Reserve, RemoveBot, vars
<1>8. CASE Play
  BY <1>4, <1>5, <1>8 DEF Play, SelectLead
<1> QED  BY <1>6, <1>7, <1>8 DEF SoftStep

\* A semifinal, or a third place beside its final, that is open is not owed for.
LEMMA OpenIsNotOwed ==
    ASSUME NEW ds, NEW pair, NEW round, HasOpen(ds, pair, round),
           round = "semifinal" \/ (round = "tercer_puesto" /\ Rounds(ds, "final") # {})
    PROVE  ~Owed(ds)
<1>1. PICK i \in 1..Len(ds) : ds[i].round = round /\ ds[i].status # "finished"
  BY DEF HasOpen
<1>2. i \in Rounds(ds, round)
  BY <1>1 DEF Rounds
<1> QED  BY <1>1, <1>2 DEF Owed, Done

LEMMA OwedCreates ==
    ASSUME OwedInv, NEW t \in Task, restarts' = restarts,
           \/ BootDuel(t) \/ SemiA(t) \/ SemiB(t) \/ Final(t) \/ Third(t)
    PROVE  OwedInv'
<1>1. IsDuels(duels) /\ IsTasks(task) /\ IsTask(task[t])
  BY DEF OwedInv, IsTasks
<1>2. \A u \in Task \ {t} : task'[u] = task[u]
  BY <1>1, OneTaskMoves
<1>3. ASSUME NEW s, IsTask(s), Become(t, s)
      PROVE  IsTasks(task') /\ task'[t] = s
  BY <1>1, <1>3, OneTaskBecomes
<1>4. CASE BootDuel(t)
  <2>1. Size = 2
    BY <1>4 DEF OwedInv, Placed, BootDuel, At
  <2>2. Grown(duels, duels', task[t].pairA, "unica")
    BY <1>1, <1>4, CreatedAndLed DEF BootDuel
  <2>3. IsTasks(task') /\ task'[t] = Idle
    BY <1>3, <1>4, IdleTask DEF BootDuel, End, Has
  <2>4. Placed(duels', task'[t])
    BY <2>3, IdleTask DEF Has, Placed
  <2> QED  BY <1>2, <2>1, <2>2, <2>3, <2>4, OwedByOne
<1>5. ASSUME NEW pair, NEW round, NEW n, NEW i,
             Become(t, GoneOn(task[t], n, i)), duels' = Created(pair, round),
             \/ round = "semifinal" /\ n = "semi_b"
             \/ round = "final" /\ n = "third"
      PROVE  OwedInv'
  <2> DEFINE s == GoneOn(task[t], n, i)
  <2>1. IsTask(s) /\ s.pc = n
    BY <1>1, GoneOnTask DEF Has
  <2>2. Become(t, s)
    BY <1>5
  <2> HIDE DEF s
  <2>3. IsTasks(task') /\ task'[t] = s
    BY <1>3, <2>1, <2>2
  <2>4. Grown(duels, duels', pair, round) /\ HasOpen(duels', pair, round)
    BY <1>1, <1>5, CreatedIsGrown, CreatedIsOpen
  <2>5. Rounds(duels', round) # {}
    BY <2>4 DEF HasOpen, Rounds
  <2>6. Placed(duels', task'[t])
    BY <1>5, <2>1, <2>3, <2>5 DEF Placed
  <2>7. Bears(task'[t]) \/ ~Owed(duels')
    BY <1>5, <2>1, <2>3, <2>4, OpenIsNotOwed DEF Bears
  <2> QED  BY <1>2, <2>3, <2>4, <2>6, <2>7, OwedByOne
<1>6. CASE SemiA(t) \/ Final(t)
  BY <1>5, <1>6 DEF SemiA, Final, CreateFirst, CreateDuel, GoneOn
<1>7. ASSUME NEW pair, NEW round, NEW n, IsTask(n), Become(t, n), n.pc \in {"idle", "arm"},
             duels' = LeadSelection(LeadSelection(Created(pair, round), CreatedId(pair, round)),
                                    task[t].duel),
             round = "semifinal" \/ (round = "tercer_puesto" /\ Rounds(duels, "final") # {})
      PROVE  OwedInv'
  <2>1. Grown(duels, duels', pair, round) /\ HasOpen(duels', pair, round)
    BY <1>1, <1>7, CreatedAndLed, CreatedAndLedIsOpen
  <2>2. IsTasks(task') /\ task'[t] = n
    BY <1>3, <1>7
  <2>3. Placed(duels', task'[t])
    BY <1>7, <2>2 DEF Placed
  <2>4. round = "tercer_puesto" => Rounds(duels', "final") = Rounds(duels, "final")
    BY <1>1, <2>1, RoundsGrown
  <2>5. ~Owed(duels')
    BY <1>7, <2>1, <2>4, OpenIsNotOwed
  <2> QED  BY <1>2, <2>1, <2>2, <2>3, <2>5, OwedByOne
<1>8. CASE SemiB(t)
  BY <1>7, <1>8, IdleTask DEF SemiB, CreateSecond, End, Has
<1>9. CASE Third(t)
  <2> DEFINE n == ToPc(task[t], "arm")
  <2>1. Has(n, "arm", task[t].kind, task[t].pairA, task[t].pairB)
    BY <1>1, TaskColumn
  <2>2. Become(t, n) /\ task[t].pc = "third"
    BY <1>9 DEF Third, Goto, ToPc, At
  <2> HIDE DEF n
  <2>3. Rounds(duels, "final") # {}
    BY <2>2 DEF OwedInv, Placed
  <2> QED  BY <1>7, <1>9, <2>1, <2>2, <2>3 DEF Third, CreateSecond, Has
<1> QED  BY <1>4, <1>6, <1>8, <1>9

LEMMA OwedReads ==
    ASSUME OwedInv, NEW t \in Task, restarts' = restarts,
           (\E p \in Human : Ready(t, p)) \/ BootRead(t) \/ PairFinals(t)
    PROVE  OwedInv'
<1>1. IsDuels(duels) /\ IsTasks(task) /\ IsTask(task[t])
  BY DEF OwedInv, IsTasks
<1>2. \A u \in Task \ {t} : task'[u] = task[u]
  BY <1>1, OneTaskMoves
<1>3. UNCHANGED <<duels, status>>
  BY DEF Ready, BootRead, PairFinals
<1>4. SameDuels(duels, duels') /\ Opened(duels, duels') /\ Grown(duels, duels', {}, "unica")
  BY <1>1, <1>3, SameDuelsReflexive, SameIsGrown DEF Opened
<1>5. ASSUME NEW s, IsTask(s), Become(t, s), Bears(s) \/ ~Bears(task[t]), s.pc # "third",
             s.pc = "boot_duel" => Size = 2
      PROVE  OwedInv'
  <2>1. IsTasks(task') /\ task'[t] = s
    BY <1>1, <1>5, OneTaskBecomes
  <2>2. Placed(duels', task'[t])
    BY <1>5, <2>1 DEF Placed
  <2> QED  BY <1>2, <1>3, <1>4, <1>5, <2>1, <2>2, OwedByOne
<1>6. ASSUME NEW p \in Human, Ready(t, p)
      PROVE  OwedInv'
  <2>1. Become(t, Begun("boot_read", Nobody, "ready")) /\ task[t].pc = "idle"
    BY <1>6 DEF Ready, Begin, Begun, At
  <2>2. Has(Begun("boot_read", Nobody, "ready"), "boot_read", "ready", {}, {})
    BY BegunTask
  <2> QED  BY <1>5, <2>1, <2>2 DEF Has, Bears
<1>7. ASSUME NEW n, NEW a, NEW b,
             Become(t, GonePair(task[t], n, a)) \/ Become(t, GonePairs(task[t], n, a, b)),
             n = "final" \/ (task[t].pc = "boot_read" /\ n \in {"boot_duel", "semi_a"}),
             n = "boot_duel" => Size = 2
      PROVE  OwedInv'
  <2> DEFINE s1 == GonePair(task[t], n, a)
             s2 == GonePairs(task[t], n, a, b)
  <2>1. IsTask(s1) /\ s1.pc = n /\ IsTask(s2) /\ s2.pc = n
    BY <1>1, GoneOnTask DEF Has
  <2>2. Become(t, s1) \/ Become(t, s2)
    BY <1>7
  <2> HIDE DEF s1, s2
  <2> QED  BY <1>5, <1>7, <2>1, <2>2 DEF Bears
<1>8. CASE BootRead(t)
  <2>1. task[t].pc = "boot_read"
    BY <1>8 DEF BootRead, At
  <2>2. CASE End(t)
    BY <1>5, <2>1, <2>2, IdleTask DEF End, Has, Bears
  <2>3. CASE Size = 2 /\ Become(t, GonePair(task[t], "boot_duel", Occupied))
    BY <1>7, <2>1, <2>3
  <2>4. CASE \E a, b : Become(t, GonePairs(task[t], "semi_a", a, b))
    BY <1>7, <2>1, <2>4
  <2> QED  BY <1>8, <2>2, <2>3, <2>4 DEF BootRead, GonePair, GonePairs
<1>9. CASE PairFinals(t)
  <2>1. \E a, b : Become(t, GonePairs(task[t], "final", a, b))
    BY <1>9 DEF PairFinals, GonePairs
  <2> QED  BY <1>7, <2>1
<1> QED  BY <1>6, <1>8, <1>9

LEMMA OwedInit ==
    ASSUME Init
    PROVE  OwedInv
<1>1. duels = <<>> /\ <<>> \in Seq({}) /\ Len(<<>>) = 0
  BY DEF Init
<1>2. IsDuels(duels)
  BY <1>1 DEF IsDuels
<1>3. \A t \in Task : task[t] = Idle
  BY DEF Init
<1>4. IsTasks(task) /\ \A t \in Task : Placed(duels, task[t])
  BY <1>3, IdleTask DEF Init, IsTasks, Has, Placed
<1>5. RoundOwed /\ restarts \in Nat
  BY DEF Init, RoundOwed
<1> QED  BY <1>2, <1>4, <1>5 DEF OwedInv

LEMMA OwedStep ==
    ASSUME OwedInv, [Next]_vars, Faulty \cap {"advance", "final", "third"} = {}
    PROVE  OwedInv'
<1>1. CASE Restart
  <2>1. task' = [t \in Task |-> Idle] /\ \A t \in Task : task'[t] = Idle
    BY <1>1 DEF Restart
  <2>2. IsTasks(task') /\ \A t \in Task : Placed(duels', task'[t])
    BY <2>1, IdleTask DEF IsTasks, Has, Placed
  <2>3. IsDuels(duels')
    BY <1>1, ReconciledRows DEF Restart, OwedInv, SameDuels
  <2>4. restarts' \in Nat /\ restarts' # 0
    BY <1>1 DEF Restart, OwedInv
  <2> QED  BY <2>2, <2>3, <2>4 DEF OwedInv, RoundOwed
<1>2. CASE ~Restart
  <2>1. restarts' = restarts
    <3>1. CASE Rest \/ Play \/ UNCHANGED vars
      BY <3>1 DEF Rest, Reserve, RemoveBot, Play, SelectLead, DuelEnds, vars, world
    <3>2. ASSUME NEW t \in Task, Request(t) \/ Expire(t) \/ QueryFails(t)
          PROVE  restarts' = restarts
      BY <3>2 DEF Request, Expire, QueryFails, Join, Ready, Leave, Drop, AddBot, GraceExpires,
         WalkoverExpires, world
    <3>3. ASSUME NEW t \in Task, Continue(t)
          PROVE  restarts' = restarts
      BY <3>3 DEF Continue, JoinMark, SeedBots, BootRead, BootDuel, SemiA, SemiB, CreateFails,
         LeaveMark, DropMark, BracketMark, BracketFind, Close, Unseat, UnseatEnds, Forfeit,
         WalkFind, WalkWrite, Rematch, PairFinals, RankBracket, AwaitRound, Final, Third,
         ArmAbsent, CreateFirst, CreateSecond, world
    <3> QED  BY <1>2, <3>1, <3>2, <3>3 DEF Next
  <2> QED  BY <1>2, <2>1, KindsOfStep, OwedSoft, OwedCreates, OwedReads
<1> QED  BY <1>1, <1>2

\* Of the duels of a round that end side by side, whichever way, one advance sees
\* them all over, and it, or the handler it has become, is there until the next
\* round is created or the room ranked: a bracket never waits for a round nobody
\* will open, unless the process restarts or a query of that handler fails.
THEOREM BracketGoesOn ==
    ASSUME Faulty \cap {"advance", "final", "third"} = {}
    PROVE  Spec => []NextRoundIsOwed
<1>1. OwedInv => NextRoundIsOwed
  BY RoundIsOwed DEF OwedInv
<1> QED  BY <1>1, OwedInit, OwedStep, PTL DEF Spec

---------------------------------------------------------------------------
(* The rows of a bracket. *)

IsPair(s) == \E a, b : a # b /\ s = {a, b}

FirstOf(ds, r) == ds[First(Rounds(ds, r))]

\* A duel that is over was won by one of its two.
FirmRow(d) == d.status = "finished" => d.winner \in d.pair
Firm(ds) == \A i \in Rounds(ds, "semifinal") : FirmRow(ds[i])
LastRounds == {"final", "tercer_puesto"}
FirmLast(ds) == \A r \in LastRounds : Rounds(ds, r) # {} => FirmRow(FirstOf(ds, r))
LastOver(ds) == \A r \in LastRounds : Rounds(ds, r) # {} /\ FirstOf(ds, r).status = "finished"

\* The rows are duels of two in the rounds of a bracket, nobody is in both
\* semifinals, and the last rounds come after semifinals that were won.
Fair(ds) ==
    /\ \A i \in 1..Len(ds) : /\ IsPair(ds[i].pair)
                             /\ ds[i].round \in {"semifinal"} \cup LastRounds
    /\ \A i, j \in Rounds(ds, "semifinal") : i # j => ds[i].pair \cap ds[j].pair = {}
    /\ (\E r \in LastRounds : Rounds(ds, r) # {}) => Firm(ds)

\* Every row of b that is over was over in a, or has just been won.
Ends(a, b) ==
    \A i \in 1..Len(b) : b[i].status = "finished" =>
        (i \in 1..Len(a) /\ a[i].status = "finished") \/ b[i].winner \in b[i].pair

LEMMA TwoElements ==
    ASSUME NEW S, IsFiniteSet(S), Cardinality(S) = 2
    PROVE  \E a, b : a # b /\ S = {a, b}
<1>1. S # {}
  BY FS_EmptySet
<1>2. PICK a : a \in S
  BY <1>1
<1>3. IsFiniteSet(S \ {a}) /\ Cardinality(S \ {a}) = 1
  BY <1>2, FS_RemoveElement
<1>4. PICK b : S \ {a} = {b}
  BY <1>3, FS_Singleton
<1> QED  BY <1>2, <1>4

LEMMA PairOfTwo ==
    ASSUME NEW d, IsPair(d.pair), d.winner \in d.pair
    PROVE  /\ d.pair = {d.winner, Opponent(d)}
           /\ Opponent(d) # d.winner
<1>1. PICK a, b : a # b /\ d.pair = {a, b}
  BY DEF IsPair
<1>2. \E q \in d.pair : q # d.winner
  BY <1>1
<1>3. d.pair # {d.winner}
  BY <1>2
<1>4. Opponent(d) \in d.pair /\ Opponent(d) # d.winner
  BY <1>2, <1>3 DEF Opponent
<1> QED  BY <1>1, <1>4

\* Two semifinals that are over and were won: their winners are two, their losers
\* two others.
LEMMA WinnersAndLosers ==
    ASSUME NEW ds, IsDuels(ds), Fair(ds), Firm(ds), Done(ds)
    PROVE  /\ IsPair(WinnersOf(ds)) /\ IsPair(LosersOf(ds))
           /\ WinnersOf(ds) \cap LosersOf(ds) = {}
           /\ UNION {ds[i].pair : i \in Rounds(ds, "semifinal")} = WinnersOf(ds) \cup LosersOf(ds)
<1> DEFINE S == Rounds(ds, "semifinal")
<1>0. IsFiniteSet(S)
  <2>1. Len(ds) \in Nat
    BY LengthOfRows
  <2>2. IsFiniteSet(1..Len(ds)) /\ S \subseteq 1..Len(ds)
    BY <2>1, FS_Interval DEF Rounds
  <2> QED  BY <2>2, FS_Subset
<1>1. PICK i, j : i # j /\ S = {i, j}
  BY <1>0, TwoElements DEF Done
<1>2. \A k \in S : /\ k \in 1..Len(ds)
                   /\ ds[k].pair = {ds[k].winner, Opponent(ds[k])}
                   /\ Opponent(ds[k]) # ds[k].winner
  <2> TAKE k \in S
  <2>1. k \in 1..Len(ds) /\ ds[k].status = "finished" /\ FirmRow(ds[k])
    BY DEF Rounds, Done, Firm
  <2>2. IsPair(ds[k].pair) /\ ds[k].winner \in ds[k].pair
    BY <2>1 DEF Fair, FirmRow
  <2> QED  BY <2>1, <2>2, PairOfTwo
<1>3. ds[i].pair \cap ds[j].pair = {}
  BY <1>1 DEF Fair
<1> DEFINE wi == ds[i].winner
           wj == ds[j].winner
           li == Opponent(ds[i])
           lj == Opponent(ds[j])
<1>4. /\ ds[i].pair = {wi, li} /\ wi # li
      /\ ds[j].pair = {wj, lj} /\ wj # lj
  BY <1>1, <1>2
<1>5. WinnersOf(ds) = {wi, wj} /\ LosersOf(ds) = {li, lj}
  BY <1>1 DEF WinnersOf, LosersOf
<1>6. UNION {ds[k].pair : k \in S} = ds[i].pair \cup ds[j].pair
  BY <1>1
<1> HIDE DEF wi, wj, li, lj, S
<1>7. wi # wj /\ li # lj /\ wi # lj /\ wj # li
  BY <1>3, <1>4
<1>8. IsPair({wi, wj}) /\ IsPair({li, lj})
  BY <1>7 DEF IsPair
<1> QED  BY <1>4, <1>5, <1>6, <1>7, <1>8 DEF S

LEMMA FirstStays ==
    ASSUME NEW a, NEW b, NEW pair, NEW round, IsDuels(a), Grown(a, b, pair, round),
           NEW r, Rounds(a, r) # {}
    PROVE  /\ First(Rounds(b, r)) = First(Rounds(a, r))
           /\ First(Rounds(a, r)) \in Rounds(a, r)
           /\ First(Rounds(a, r)) \in Rounds(b, r)
<1>1. Len(a) \in Nat /\ IsDuels(b)
  BY LengthOfRows DEF Grown
<1>2. Len(b) \in Nat
  BY <1>1, LengthOfRows
<1>3. \A i \in Rounds(a, r) : i \in 1..Len(a) /\ i \in Rounds(b, r)
  BY <1>1, <1>2 DEF Rounds, Grown
<1>4. /\ First(Rounds(a, r)) \in Rounds(a, r)
      /\ \A j \in Rounds(a, r) : First(Rounds(a, r)) <= j
  BY <1>1, FirstIsThere DEF Rounds
<1>5. /\ First(Rounds(b, r)) \in Rounds(b, r)
      /\ \A j \in Rounds(b, r) : First(Rounds(b, r)) <= j
  BY <1>2, <1>3, FirstIsThere DEF Rounds
<1> DEFINE f == First(Rounds(a, r))
           g == First(Rounds(b, r))
<1>6. f \in 1..Len(a) /\ g <= f /\ g \in 1..Len(b)
  BY <1>3, <1>4, <1>5 DEF Rounds
<1>7. g \in Rounds(a, r)
  BY <1>1, <1>2, <1>5, <1>6, RoundsGrown
<1>8. f <= g
  BY <1>4, <1>7
<1> QED  BY <1>1, <1>2, <1>3, <1>4, <1>6, <1>8

\* What is settled stays so.
LEMMA FirmStays ==
    ASSUME NEW a, NEW b, NEW pair, NEW round, IsDuels(a), Grown(a, b, pair, round),
           round # "semifinal", Done(a), Firm(a)
    PROVE  Firm(b)
<1>1. Rounds(b, "semifinal") = Rounds(a, "semifinal")
  BY RoundsGrown
<1>2. ASSUME NEW i \in Rounds(a, "semifinal")
      PROVE  FirmRow(b[i])
  <2>1. i \in 1..Len(a) /\ a[i].status = "finished" /\ FirmRow(a[i])
    BY <1>2 DEF Rounds, Done, Firm
  <2> QED  BY <2>1 DEF Grown, Kept, FirmRow
<1> QED  BY <1>1, <1>2 DEF Firm

LEMMA LastStays ==
    ASSUME NEW a, NEW b, NEW pair, NEW round, IsDuels(a), Grown(a, b, pair, round), LastOver(a)
    PROVE  /\ LastOver(b)
           /\ \A r \in LastRounds : /\ FirstOf(b, r).pair = FirstOf(a, r).pair
                                    /\ FirstOf(b, r).winner = FirstOf(a, r).winner
<1> SUFFICES ASSUME NEW r \in LastRounds
             PROVE  /\ Rounds(b, r) # {} /\ FirstOf(b, r).status = "finished"
                    /\ FirstOf(b, r).pair = FirstOf(a, r).pair
                    /\ FirstOf(b, r).winner = FirstOf(a, r).winner
  BY DEF LastOver
<1> DEFINE f == First(Rounds(a, r))
<1>1. Rounds(a, r) # {} /\ a[f].status = "finished"
  BY DEF LastOver, FirstOf
<1>2. First(Rounds(b, r)) = f /\ f \in Rounds(a, r) /\ f \in Rounds(b, r)
  BY <1>1, FirstStays
<1> HIDE DEF f
<1>3. f \in 1..Len(a)
  BY <1>2 DEF Rounds
<1>4. b[f].status = "finished" /\ b[f].winner = a[f].winner /\ b[f].pair = a[f].pair
  BY <1>1, <1>3 DEF Grown, Kept
<1> QED  BY <1>2, <1>4 DEF FirstOf, f

LEMMA FirmWhileWon ==
    ASSUME NEW a, NEW b, NEW pair, NEW round, IsDuels(a), Grown(a, b, pair, round), Ends(a, b),
           Firm(a), FirmLast(a)
    PROVE  Firm(b) /\ FirmLast(b)
<1>0. Len(a) \in Nat /\ IsDuels(b) /\ Len(b) \in Nat
  BY LengthOfRows DEF Grown
<1>1. ASSUME NEW i \in 1..Len(b), i \in 1..Len(a) => FirmRow(a[i])
      PROVE  FirmRow(b[i])
  BY <1>1 DEF FirmRow, Ends, Grown, Kept
<1>2. ASSUME NEW i \in Rounds(b, "semifinal")
      PROVE  FirmRow(b[i])
  <2>1. i \in 1..Len(b) /\ b[i].round = "semifinal"
    BY <1>2 DEF Rounds
  <2>2. i \in 1..Len(a) => i \in Rounds(a, "semifinal")
    BY <2>1 DEF Rounds, Grown
  <2> QED  BY <1>1, <2>1, <2>2 DEF Firm
<1>3. ASSUME NEW r \in LastRounds, Rounds(b, r) # {}
      PROVE  FirmRow(FirstOf(b, r))
  <2> DEFINE g == First(Rounds(b, r))
  <2>1. g \in Rounds(b, r)
    BY <1>0, <1>3, FirstIsThere DEF Rounds
  <2>2. g \in 1..Len(b)
    BY <2>1 DEF Rounds
  <2>3. g \in 1..Len(a) => g \in Rounds(a, r)
    BY <2>1, <2>2 DEF Rounds, Grown
  <2>4. g \in Rounds(a, r) => FirmRow(a[g])
    BY FirstStays DEF FirmLast, FirstOf
  <2> HIDE DEF g
  <2>5. FirmRow(b[g])
    BY <1>1, <2>2, <2>3, <2>4
  <2> QED  BY <2>5 DEF FirstOf, g
<1> QED  BY <1>2, <1>3 DEF Firm, FirmLast

LEMMA FairSame ==
    ASSUME NEW a, NEW b, IsDuels(a), SameDuels(a, b), Fair(a), FinalsRight(a)
    PROVE  Fair(b)
<1>1. \A r : Rounds(b, r) = Rounds(a, r)
  BY DEF SameDuels, Rounds
<1>2. \A i \in Rounds(a, "semifinal") : b[i].pair = a[i].pair
  BY DEF SameDuels, Rounds
<1>3. ASSUME NEW r \in LastRounds, Rounds(b, r) # {}
      PROVE  Firm(b)
  <2>1. Done(a) /\ Firm(a)
    BY <1>1, <1>3 DEF FinalsRight, LastRounds, Fair
  <2>2. Grown(a, b, {}, "unica")
    BY SameIsGrown
  <2> QED  BY <2>1, <2>2, FirmStays
<1> QED  BY <1>1, <1>2, <1>3 DEF Fair, SameDuels

LEMMA FairGrown ==
    ASSUME NEW a, NEW b, NEW pair, NEW round, IsDuels(a), Grown(a, b, pair, round), Fair(a),
           FinalsRight(a), IsPair(pair),
           \/ /\ round = "semifinal" /\ ~Done(a)
              /\ \A i \in Rounds(a, "semifinal") : a[i].pair \cap pair = {}
           \/ round \in LastRounds /\ Done(a) /\ Firm(a)
    PROVE  Fair(b)
<1>1. Len(a) \in Nat
  BY LengthOfRows
<1>2. ASSUME NEW i \in 1..Len(b)
      PROVE  /\ IsPair(b[i].pair)
             /\ b[i].round \in {"semifinal"} \cup LastRounds
  <2>1. CASE i \in 1..Len(a)
    BY <2>1 DEF Grown, Fair
  <2>2. CASE i \notin 1..Len(a)
    <3>1. i = Len(a) + 1 /\ b[i].pair = pair /\ b[i].round = round
      BY <1>1, <2>2 DEF Grown
    <3> QED  BY <3>1
  <2> QED  BY <2>1, <2>2
<1>3. ASSUME NEW i \in Rounds(b, "semifinal"), NEW j \in Rounds(b, "semifinal"), i # j
      PROVE  b[i].pair \cap b[j].pair = {}
  <2>1. \A k \in Rounds(b, "semifinal") :
           \/ k \in Rounds(a, "semifinal") /\ b[k].pair = a[k].pair
           \/ k = Len(a) + 1 /\ round = "semifinal" /\ b[k].pair = pair
    <3> TAKE k \in Rounds(b, "semifinal")
    <3>1. k \in Rounds(a, "semifinal") \/ (k = Len(a) + 1 /\ round = "semifinal")
      BY RoundsGrown
    <3>2. k \in Rounds(a, "semifinal") => b[k].pair = a[k].pair
      BY DEF Rounds, Grown
    <3>3. k = Len(a) + 1 => b[k].pair = pair
      BY <1>1 DEF Rounds, Grown
    <3> QED  BY <3>1, <3>2, <3>3
  <2> QED  BY <1>3, <2>1 DEF Fair, LastRounds
<1>4. ASSUME NEW r \in LastRounds, Rounds(b, r) # {}
      PROVE  Firm(b)
  <2>1. CASE round = "semifinal" /\ ~Done(a)
    <3>1. Rounds(b, r) = Rounds(a, r)
      BY <2>1, RoundsGrown DEF LastRounds
    <3> QED  BY <1>4, <2>1, <3>1 DEF FinalsRight, LastRounds
  <2>2. CASE round \in LastRounds /\ Done(a) /\ Firm(a)
    BY <2>2, FirmStays DEF LastRounds
  <2> QED  BY <2>1, <2>2
<1> QED  BY <1>2, <1>3, <1>4 DEF Fair

---------------------------------------------------------------------------
(* The draw, and what comes of it. *)

\* What a handler that is about to create duels has in hand.
Draws(ds, s) ==
    /\ s.pc # "boot_duel"
    /\ s.pc \in {"semi_a", "semi_b"} =>
         IsPair(s.pairA) /\ IsPair(s.pairB) /\ s.pairA \cap s.pairB = {}
    /\ s.pc = "semi_b" => \A i \in Rounds(ds, "semifinal") : ds[i].pair = s.pairA
    /\ s.pc \in {"final", "third"} => Firm(ds)

Creates(s) == s.pc \in {"semi_a", "semi_b", "final", "third"}

\* A live duel loses its winner only to a restart, which aborts the room; a room
\* is closed with its last rounds over, and deleted before its first duel.
Standing ==
    /\ status \in {"waiting", "in_progress", "finished", "aborted", "gone"}
    /\ status = "aborted" \/ (Firm(duels) /\ FirmLast(duels))
    /\ status = "aborted" => \A t \in Task : ~Creates(task[t])
    /\ status = "gone" => Len(duels) = 0
    /\ status = "finished" => Done(duels) /\ LastOver(duels)

DrawInv ==
    /\ BracketInv
    /\ OnePerPair(duels)
    /\ Fair(duels)
    /\ \A t \in Task : Draws(duels, task[t])
    /\ Standing

LEMMA DrawsGrown ==
    ASSUME NEW a, NEW b, NEW pair, NEW round, IsDuels(a), Grown(a, b, pair, round),
           round # "semifinal", NEW s, Draws(a, s), Agrees(a, s)
    PROVE  Draws(b, s)
<1>1. Rounds(b, "semifinal") = Rounds(a, "semifinal")
  BY RoundsGrown
<1>2. \A i \in Rounds(a, "semifinal") : b[i].pair = a[i].pair
  BY DEF Rounds, Grown
<1>3. Done(a) /\ Firm(a) => Firm(b)
  BY FirmStays
<1> QED  BY <1>1, <1>2, <1>3 DEF Draws, Agrees

LEMMA OpenedEnds ==
    ASSUME NEW a, NEW b, Opened(a, b)
    PROVE  Ends(a, b)
BY DEF Opened, Ends

\* A duel is won by one of its two.
LEMMA SoftEnds ==
    ASSUME IsDuels(duels), Fair(duels), SoftStep
    PROVE  Ends(duels, duels')
<1>1. CASE UNCHANGED duels
  BY <1>1 DEF Ends
<1>2. ASSUME NEW i, NEW p, duels' = [duels EXCEPT ![i] = Led(@, p)]
      PROVE  Ends(duels, duels')
  BY <1>2, LedIsOpened, OpenedEnds
<1>3. ASSUME NEW i, NEW w, duels' = Finished(i, w), i \in 1..Len(duels) => w \in duels[i].pair,
             Unfinished(i)
      PROVE  Ends(duels, duels')
  <2>1. i \in 1..Len(duels) => IsDuel(duels[i])
    BY DEF IsDuels
  <2>2. i \in 1..Len(duels) => /\ SameDuel(duels[i], Ended(duels[i], w))
                               /\ Kept(duels[i], Ended(duels[i], w))
                               /\ Ended(duels[i], w).winner = w
    BY <1>3, <2>1, EndedRow DEF Kept, Unfinished
  <2>3. /\ Len(duels') = Len(duels)
        /\ \A j \in 1..Len(duels) : duels'[j] = IF j = i THEN Ended(duels[i], w) ELSE duels[j]
    BY <1>3, <2>2, OneRowReplaced DEF SameDuels, Finished
  <2> QED  BY <1>3, <2>2, <2>3 DEF Ends, SameDuel
<1>4. ASSUME NEW i \in 1..Len(duels), NEW p
      PROVE  opponentOf(p, i) \in duels[i].pair
  <2>1. IsPair(duels[i].pair)
    BY DEF Fair
  <2>2. \E q \in duels[i].pair : q # p
    BY <2>1 DEF IsPair
  <2> QED  BY <2>2 DEF opponentOf
<1>5. DOMAIN duels = 1..Len(duels)
  BY LengthOfRows
<1> QED  BY <1>1, <1>2, <1>3, <1>4, <1>5, SoftRow

LEMMA DrawSoft ==
    ASSUME Size = 4, DrawInv, SoftStep
    PROVE  DrawInv'
<1>1. BracketInv' /\ SameDuels(duels, duels') /\ TasksQuiet
  BY SoftKeeps, SoftRows, SoftTasks DEF DrawInv, BracketInv
<1>2. IsDuels(duels) /\ Grown(duels, duels', {}, "unica") /\ Ends(duels, duels')
  BY <1>1, SameIsGrown, SoftEnds DEF DrawInv, BracketInv
<1>3. OnePerPair(duels') /\ Fair(duels')
  BY <1>1, <1>2, SameDuelsKeep, FairSame DEF DrawInv, BracketInv
<1>4. \A t \in Task : Draws(duels', task[t])
  BY <1>2, DrawsGrown DEF DrawInv, BracketInv
<1>5. \A t \in Task : Quiet(task[t], task'[t]) =>
         Draws(duels', task'[t]) /\ ~Creates(task'[t])
  BY DEF Quiet, Watched, Draws, Creates
<1>6. \A t \in Task : Draws(duels', task'[t]) /\ (Creates(task'[t]) => Creates(task[t]))
  BY <1>1, <1>4, <1>5 DEF TasksQuiet
<1>7. Standing'
  <2>1. status' = "aborted" => status = "aborted"
    BY SoftStatus
  <2>2. status = "aborted" => status' = "aborted"
    BY SoftStatus
  <2>3. status' = "aborted" \/ (Firm(duels') /\ FirmLast(duels'))
    BY <1>2, <2>2, FirmWhileWon DEF DrawInv, Standing
  <2>4. /\ status' = "gone" => Len(duels') = 0
        /\ status' \in {"waiting", "in_progress", "finished", "aborted", "gone"}
    BY <1>1, SoftStatus DEF DrawInv, BracketInv, Standing, SameDuels
  <2>5. ASSUME status' = "finished"
        PROVE  Done(duels') /\ LastOver(duels')
    <3>1. status = "finished" \/ (SemisDone /\ FinalsDone)
      BY <2>5, SoftStatus
    <3>2. DOMAIN duels = 1..Len(duels)
      BY <1>2, LengthOfRows
    <3>3. \A r : OfRound(r) = Rounds(duels, r)
      BY <3>2 DEF OfRound, Rounds
    <3>4. SemisDone => Done(duels)
      BY <3>3 DEF SemisDone, Semis, Done, Unfinished
    <3>5. FinalsDone => LastOver(duels)
      BY <3>3 DEF FinalsDone, HasFinals, TheFinal, TheThird, LastOver, LastRounds, FirstOf, Unfinished
    <3>6. Done(duels) /\ LastOver(duels)
      BY <3>1, <3>4, <3>5 DEF DrawInv, Standing
    <3> QED  BY <1>2, <3>6, DoneStays, LastStays
  <2> QED  BY <1>6, <2>1, <2>3, <2>4, <2>5 DEF DrawInv, Standing
<1> QED  BY <1>1, <1>3, <1>6, <1>7 DEF DrawInv

\* A handler reads on: no row changes.
LEMMA DrawReads ==
    ASSUME DrawInv, BracketInv', NEW t \in Task, NEW n, IsTask(n), Become(t, n),
           UNCHANGED <<duels, status>>, Draws(duels, n), Creates(n) => status # "aborted"
    PROVE  DrawInv'
<1>1. task'[t] = n /\ \A u \in Task \ {t} : task'[u] = task[u]
  BY OneTaskBecomes DEF DrawInv, BracketInv
<1>2. \A u \in Task : /\ Draws(duels', task'[u])
                      /\ status' = "aborted" => ~Creates(task'[u])
  BY <1>1 DEF DrawInv, Standing
<1> QED  BY <1>2 DEF DrawInv, Standing

\* A handler creates a duel of its round.
LEMMA DrawCreates ==
    ASSUME DrawInv, BracketInv', OnePerPair(duels'), NEW t \in Task, NEW n, IsTask(n), Become(t, n),
           Creates(task[t]), status # "gone", status' \in {status, "in_progress"},
           NEW pair, NEW round, Grown(duels, duels', pair, round), Opened(duels, duels'),
           IsPair(pair),
           \/ /\ round = "semifinal" /\ ~Done(duels)
              /\ \A i \in Rounds(duels, "semifinal") : duels[i].pair \cap pair = {}
              /\ \A u \in Task \ {t} : Draws(duels', task[u])
           \/ round \in LastRounds /\ Done(duels) /\ Firm(duels),
           Draws(duels', n)
    PROVE  DrawInv'
<1>1. task'[t] = n /\ \A u \in Task \ {t} : task'[u] = task[u]
  BY OneTaskBecomes DEF DrawInv, BracketInv
<1>2. IsDuels(duels) /\ FinalsRight(duels)
  BY DEF DrawInv, BracketInv
<1>3. Fair(duels')
  BY <1>2, FairGrown DEF DrawInv
<1>4. \A u \in Task \ {t} : Draws(duels', task[u])
  <2>1. CASE round \in LastRounds
    BY <1>2, <2>1, DrawsGrown DEF DrawInv, BracketInv, LastRounds
  <2> QED  BY <2>1
<1>5. \A u \in Task : Draws(duels', task'[u])
  BY <1>1, <1>4
<1>6. status # "aborted" /\ status' # "aborted" /\ status' # "gone"
  BY DEF DrawInv, Standing
<1>7. Firm(duels') /\ FirmLast(duels')
  BY <1>2, <1>6, OpenedEnds, FirmWhileWon DEF DrawInv, Standing
<1>8. ASSUME status' = "finished"
      PROVE  Done(duels') /\ LastOver(duels')
  <2>1. Done(duels) /\ LastOver(duels)
    BY <1>8 DEF DrawInv, Standing
  <2>2. round # "semifinal"
    BY <2>1 DEF LastRounds
  <2> QED  BY <1>2, <2>1, <2>2, DoneStays, LastStays
<1> QED  BY <1>3, <1>5, <1>6, <1>7, <1>8 DEF DrawInv, Standing

LEMMA DrawInit ==
    ASSUME Init
    PROVE  DrawInv
<1>1. duels = <<>> /\ <<>> \in Seq({}) /\ Len(<<>>) = 0
  BY DEF Init
<1>2. BracketInv /\ OnePerPair(duels)
  BY BracketInvInit, RowsInvInit DEF RowsInv
<1>3. \A r : Rounds(duels, r) = {}
  BY <1>1 DEF Rounds
<1>4. Fair(duels) /\ Firm(duels) /\ FirmLast(duels)
  BY <1>1, <1>3 DEF Fair, Firm, FirmLast
<1>5. \A t \in Task : Draws(duels, task[t]) /\ ~Creates(task[t])
  BY <1>3, IdleTask DEF Init, Draws, Has, Creates
<1>6. status = "waiting"
  BY DEF Init
<1> QED  BY <1>2, <1>4, <1>5, <1>6 DEF DrawInv, Standing

\* The shuffle of four seats makes two pairs.
LEMMA TwoPairs ==
    ASSUME Cardinality(Occupied) = 4, NEW pair \in SUBSET Occupied, Cardinality(pair) = 2
    PROVE  IsPair(pair) /\ IsPair(Occupied \ pair)
<1>1. IsFiniteSet(Occupied)
  BY RoomAssumption, FS_Subset DEF RoomAssumption, Occupied
<1>2. IsFiniteSet(pair)
  BY <1>1, FS_Subset
<1>3. IsFiniteSet(Occupied \ pair) /\ Cardinality(Occupied \ pair) = 4 - Cardinality(Occupied \cap pair)
  BY <1>1, FS_Difference
<1>4. Occupied \cap pair = pair
  OBVIOUS
<1>5. Cardinality(Occupied \ pair) = 2
  BY <1>3, <1>4
<1> QED  BY <1>2, <1>3, <1>5, TwoElements DEF IsPair

LEMMA DrawReady ==
    ASSUME Serial = {"ready"}, DrawInv, NEW t \in Task, NEW p \in Human, Ready(t, p)
    PROVE  DrawInv'
<1> DEFINE n == Begun("boot_read", Nobody, "ready")
<1>1. Become(t, n) /\ UNCHANGED <<duels, status>>
  BY DEF Ready, Begin, Begun
<1>2. Has(n, "boot_read", "ready", {}, {})
  BY BegunTask
<1> HIDE DEF n
<1>3. Draws(duels, n) /\ ~Creates(n) /\ IsTask(n)
  BY <1>2 DEF Draws, Creates, Has
<1>4. BracketInv'
  BY ReadyKeeps DEF DrawInv
<1> QED  BY <1>1, <1>3, <1>4, DrawReads

LEMMA DrawBootRead ==
    ASSUME Size = 4, DrawInv, NEW t \in Task, BootRead(t)
    PROVE  DrawInv'
<1>1. BracketInv'
  BY BootReadKeeps DEF DrawInv
<1>2. UNCHANGED <<duels, status>>
  BY DEF BootRead
<1>3. CASE End(t)
  BY <1>1, <1>2, <1>3, IdleTask, DrawReads DEF End, Draws, Creates, Has
<1>4. ASSUME Bootable, NEW pair \in SUBSET Occupied, Cardinality(pair) = 2,
             Become(t, GonePairs(task[t], "semi_a", pair, Occupied \ pair))
      PROVE  DrawInv'
  <2> DEFINE n == GonePairs(task[t], "semi_a", pair, Occupied \ pair)
  <2>1. Has(n, "semi_a", task[t].kind, pair, Occupied \ pair)
    BY GoneOnTask DEF DrawInv, BracketInv, IsTasks
  <2>2. Become(t, n)
    BY <1>4
  <2> HIDE DEF n
  <2>3. Cardinality(Occupied) = 4 /\ status = "waiting"
    BY <1>4 DEF Bootable, AllReady
  <2>4. IsPair(pair) /\ IsPair(Occupied \ pair)
    BY <1>4, <2>3, TwoPairs
  <2>5. Draws(duels, n) /\ IsTask(n)
    BY <2>1, <2>4 DEF Draws, Has
  <2> QED  BY <1>1, <1>2, <2>2, <2>3, <2>5, DrawReads
<1>5. \/ End(t)
      \/ Bootable /\ \E pair \in SUBSET Occupied :
                        /\ Cardinality(pair) = 2
                        /\ Become(t, GonePairs(task[t], "semi_a", pair, Occupied \ pair))
  <2>1. Size # 2
    OBVIOUS
  <2> QED  BY <2>1, Zenon DEF BootRead, GonePairs
<1> QED  BY <1>3, <1>4, <1>5

LEMMA DrawPairFinals ==
    ASSUME DrawInv, NEW t \in Task, PairFinals(t)
    PROVE  DrawInv'
<1>1. BracketInv'
  BY PairFinalsKeeps DEF DrawInv
<1> DEFINE a == {duels[i].winner : i \in Semis}
           b == {LoserOf(i) : i \in Semis}
           n == GonePairs(task[t], "final", a, b)
<1>2. Become(t, n) /\ UNCHANGED <<duels, status>> /\ status = "in_progress"
  BY DEF PairFinals, GonePairs, Bracket
<1> HIDE DEF a, b
<1>3. Has(n, "final", task[t].kind, a, b)
  BY GoneOnTask DEF DrawInv, BracketInv, IsTasks
<1> HIDE DEF n
<1>4. Firm(duels)
  BY <1>2 DEF DrawInv, Standing
<1>5. Draws(duels, n) /\ IsTask(n)
  BY <1>3, <1>4 DEF Draws, Has
<1> QED  BY <1>1, <1>2, <1>5, DrawReads

LEMMA DrawSemiA ==
    ASSUME DrawInv, NEW t \in Task, SemiA(t)
    PROVE  DrawInv'
<1> DEFINE pair == task[t].pairA
           n == GoneOn(task[t], "semi_b", CreatedId(pair, "semifinal"))
<1>1. /\ task[t].pc = "semi_a" /\ status # "gone"
      /\ Become(t, n)
      /\ duels' = Created(pair, "semifinal")
      /\ status' = StatusOnCreate(pair, "semifinal")
  BY DEF SemiA, CreateFirst, CreateDuel, At, GoneOn
<1>2. /\ IsDuels(duels) /\ IsTask(task[t])
      /\ Agrees(duels, task[t]) /\ Draws(duels, task[t])
  BY DEF DrawInv, BracketInv, IsTasks
<1>3. Has(n, "semi_b", task[t].kind, task[t].pairA, task[t].pairB)
  BY <1>2, GoneOnTask
<1> HIDE DEF n
<1>4. Rounds(duels, "semifinal") = {} /\ task[t].kind = "ready"
  BY <1>1, <1>2 DEF Agrees
<1>5. ~Done(duels)
  BY <1>4, OneIsNotDone
<1>6. Grown(duels, duels', pair, "semifinal") /\ Opened(duels, duels')
  BY <1>1, <1>2, CreatedIsGrown, CreatedIsOpen
<1>7. \A i \in Rounds(duels', "semifinal") : duels'[i].pair = pair
  <2> TAKE i \in Rounds(duels', "semifinal")
  <2>1. i \in Rounds(duels, "semifinal") \/ i = Len(duels) + 1
    BY <1>2, <1>6, RoundsGrown
  <2>2. i = Len(duels) + 1 /\ i \in 1..Len(duels')
    BY <1>4, <2>1 DEF Rounds
  <2>3. Len(duels') # Len(duels)
    BY <1>2, <2>2, LengthOfRows
  <2> QED  BY <1>6, <2>2, <2>3 DEF Grown
<1>8. Draws(duels', n) /\ IsTask(n)
  BY <1>1, <1>2, <1>3, <1>7 DEF Draws, Has
<1>9. \A u \in Task \ {t} : Draws(duels', task[u])
  BY <1>4, <1>5 DEF DrawInv, BracketInv, OneReady, Agrees, Draws
<1>10. BracketInv' /\ OnePerPair(duels')
  BY <1>1, SemiAKeeps, CreatedKeeps DEF DrawInv, BracketInv
<1>11. status' \in {status, "in_progress"} /\ Creates(task[t]) /\ IsPair(pair)
  BY <1>1, <1>2 DEF StatusOnCreate, Creates, Draws
<1> QED  BY <1>1, <1>4, <1>5, <1>6, <1>8, <1>9, <1>10, <1>11, DrawCreates

LEMMA DrawSemiB ==
    ASSUME DrawInv, NEW t \in Task, SemiB(t)
    PROVE  DrawInv'
<1> DEFINE pair == task[t].pairB
<1>1. /\ task[t].pc = "semi_b" /\ status # "gone"
      /\ Become(t, Idle)
      /\ duels' = LeadSelection(LeadSelection(Created(pair, "semifinal"),
                                              CreatedId(pair, "semifinal")), task[t].duel)
      /\ status' = StatusOnCreate(pair, "semifinal")
  BY DEF SemiB, CreateSecond, At, End
<1>2. IsDuels(duels) /\ Agrees(duels, task[t]) /\ Draws(duels, task[t])
  BY DEF DrawInv, BracketInv
<1>3. ~Done(duels) /\ task[t].kind = "ready"
  BY <1>1, <1>2, OneIsNotDone DEF Agrees
<1>4. Grown(duels, duels', pair, "semifinal") /\ Opened(duels, duels')
  BY <1>1, <1>2, CreatedAndLed, CreatedAndLedIsOpen
<1>5. \A i \in Rounds(duels, "semifinal") : duels[i].pair \cap pair = {}
  BY <1>1, <1>2 DEF Draws
<1>6. Draws(duels', Idle) /\ IsTask(Idle)
  BY IdleTask DEF Draws, Has
<1>7. \A u \in Task \ {t} : Draws(duels', task[u])
  BY <1>3 DEF DrawInv, BracketInv, OneReady, Agrees, Draws
<1>8. BracketInv' /\ OnePerPair(duels')
  BY <1>1, SemiBKeeps, RowsInvLed DEF DrawInv, BracketInv, RowsInv
<1>9. status' \in {status, "in_progress"} /\ Creates(task[t]) /\ IsPair(pair)
  BY <1>1, <1>2 DEF StatusOnCreate, Creates, Draws
<1> QED  BY <1>1, <1>3, <1>4, <1>5, <1>6, <1>7, <1>8, <1>9, DrawCreates

LEMMA DrawFinal ==
    ASSUME DrawInv, NEW t \in Task, Final(t)
    PROVE  DrawInv'
<1> DEFINE pair == task[t].pairA
           n == GoneOn(task[t], "third", CreatedId(pair, "final"))
<1>1. /\ task[t].pc = "final" /\ status # "gone"
      /\ Become(t, n)
      /\ duels' = Created(pair, "final")
      /\ status' = StatusOnCreate(pair, "final")
  BY DEF Final, CreateFirst, CreateDuel, At, GoneOn
<1>2. /\ IsDuels(duels) /\ IsTask(task[t]) /\ Fair(duels)
      /\ Agrees(duels, task[t]) /\ Draws(duels, task[t])
  BY DEF DrawInv, BracketInv, IsTasks
<1>3. Has(n, "third", task[t].kind, task[t].pairA, task[t].pairB)
  BY <1>2, GoneOnTask
<1> HIDE DEF n
<1>4. Done(duels) /\ Firm(duels) /\ pair = WinnersOf(duels)
  BY <1>1, <1>2 DEF Agrees, Draws
<1>5. Grown(duels, duels', pair, "final") /\ Opened(duels, duels')
  BY <1>1, <1>2, CreatedIsGrown, CreatedIsOpen
<1>6. Firm(duels')
  BY <1>2, <1>4, <1>5, FirmStays
<1>7. Draws(duels', n) /\ IsTask(n)
  BY <1>3, <1>6 DEF Draws, Has
<1>8. BracketInv' /\ OnePerPair(duels')
  BY <1>1, FinalKeeps, CreatedKeeps DEF DrawInv, BracketInv
<1>9. status' \in {status, "in_progress"} /\ Creates(task[t]) /\ IsPair(pair)
  BY <1>1, <1>2, <1>4, WinnersAndLosers DEF StatusOnCreate, Creates
<1> QED  BY <1>1, <1>4, <1>5, <1>7, <1>8, <1>9, DrawCreates DEF LastRounds

LEMMA DrawThird ==
    ASSUME DrawInv, NEW t \in Task, Third(t)
    PROVE  DrawInv'
<1> DEFINE pair == task[t].pairB
           n == ToPc(task[t], "arm")
<1>1. /\ task[t].pc = "third" /\ status # "gone"
      /\ Become(t, n)
      /\ duels' = LeadSelection(LeadSelection(Created(pair, "tercer_puesto"),
                                              CreatedId(pair, "tercer_puesto")), task[t].duel)
      /\ status' = StatusOnCreate(pair, "tercer_puesto")
  BY DEF Third, CreateSecond, At, Goto, ToPc
<1>2. /\ IsDuels(duels) /\ IsTask(task[t]) /\ Fair(duels)
      /\ Agrees(duels, task[t]) /\ Draws(duels, task[t])
  BY DEF DrawInv, BracketInv, IsTasks
<1>3. Has(n, "arm", task[t].kind, task[t].pairA, task[t].pairB)
  BY <1>2, TaskColumn
<1> HIDE DEF n
<1>4. Done(duels) /\ Firm(duels) /\ pair = LosersOf(duels)
  BY <1>1, <1>2 DEF Agrees, Draws
<1>5. Grown(duels, duels', pair, "tercer_puesto") /\ Opened(duels, duels')
  BY <1>1, <1>2, CreatedAndLed, CreatedAndLedIsOpen
<1>6. Draws(duels', n) /\ IsTask(n)
  BY <1>3 DEF Draws, Has
<1>7. BracketInv' /\ OnePerPair(duels')
  BY <1>1, ThirdKeeps, RowsInvLed DEF DrawInv, BracketInv, RowsInv
<1>8. status' \in {status, "in_progress"} /\ Creates(task[t]) /\ IsPair(pair)
  BY <1>1, <1>2, <1>4, WinnersAndLosers DEF StatusOnCreate, Creates
<1> QED  BY <1>1, <1>4, <1>5, <1>6, <1>7, <1>8, DrawCreates DEF LastRounds

\* A restart takes every handler, and the live duels: it aborts the room whose
\* winners it takes.
LEMMA DrawRestart ==
    ASSUME DrawInv, Restart
    PROVE  DrawInv'
<1>1. IsDuels(duels) /\ DOMAIN duels = 1..Len(duels) /\ Len(duels) \in Nat
  BY LengthOfRows DEF DrawInv, BracketInv
<1>2. BracketInv' /\ SameDuels(duels, duels') /\ Grown(duels, duels', {}, "unica")
  BY <1>1, RestartKeeps, ReconciledRows, SameIsGrown DEF Restart, DrawInv
<1>3. OnePerPair(duels') /\ Fair(duels')
  BY <1>1, <1>2, SameDuelsKeep, FairSame DEF DrawInv, BracketInv
<1>4. \A t \in Task : task'[t] = Idle
  BY DEF Restart
<1>5. \A t \in Task : Draws(duels', task'[t]) /\ ~Creates(task'[t])
  BY <1>4, IdleTask DEF Draws, Has, Creates
<1> DEFINE live == \E i \in DOMAIN duels : duels[i].status = "in_progress"
<1>6. /\ status' \in {"gone", "aborted", status}
      /\ status' = "gone" => status \in {"waiting", "gone"}
      /\ status' = "finished" => status = "finished"
      /\ status' # "aborted" => status \in {"waiting", "gone", "finished"} \/ ~live
      /\ status = "aborted" => status' = "aborted"
  <2>1. status = "in_progress" /\ live => status' = "aborted"
    BY DEF Restart
  <2>2. status = "waiting" => status' = "gone"
    BY DEF Restart
  <2>3. ~(status = "in_progress" /\ live) /\ status # "waiting" => status' = status
    BY DEF Restart
  <2>4. \/ status = "in_progress" /\ live /\ status' = "aborted"
        \/ status = "waiting" /\ status' = "gone"
        \/ ~(status = "in_progress" /\ live) /\ status # "waiting" /\ status' = status
    BY <2>1, <2>2, <2>3, Zenon
  <2> HIDE DEF live
  <2> QED  BY <2>4 DEF DrawInv, Standing
<1>7. /\ status' = "gone" => Len(duels') = 0
      /\ status' \in {"waiting", "in_progress", "finished", "aborted", "gone"}
  BY <1>2, <1>6 DEF DrawInv, BracketInv, Standing, SameDuels
<1>8. status' = "finished" => Done(duels') /\ LastOver(duels')
  BY <1>1, <1>2, <1>6, DoneStays, LastStays DEF DrawInv, Standing
<1>9. ASSUME status' # "aborted"
      PROVE  Firm(duels') /\ FirmLast(duels')
  <2>1. status # "aborted" /\ Firm(duels) /\ FirmLast(duels)
    BY <1>6, <1>9 DEF DrawInv, Standing
  <2>2. CASE status \in {"waiting", "gone"}
    <3>1. Len(duels') = 0
      BY <1>2, <2>2 DEF DrawInv, BracketInv, Standing, SameDuels
    <3> QED  BY <3>1 DEF Firm, FirmLast, Rounds
  <2>3. CASE status = "finished"
    <3>1. Done(duels) /\ LastOver(duels)
      BY <2>3 DEF DrawInv, Standing
    <3>2. Firm(duels')
      BY <1>1, <1>2, <2>1, <3>1, FirmStays
    <3>3. \A r \in LastRounds : /\ FirstOf(duels, r).status = "finished"
                                /\ FirmRow(FirstOf(duels, r))
      BY <2>1, <3>1 DEF LastOver, FirmLast
    <3>4. \A r \in LastRounds : /\ FirstOf(duels', r).winner = FirstOf(duels, r).winner
                                /\ FirstOf(duels', r).pair = FirstOf(duels, r).pair
      BY <1>1, <1>2, <3>1, LastStays
    <3> QED  BY <3>2, <3>3, <3>4 DEF FirmLast, FirmRow
  <2>4. CASE ~live
    <3>1. \A i \in 1..Len(duels) : duels'[i].status = duels[i].status
      BY <1>1, <2>4, ReconciledRow DEF Restart, IsDuels
    <3>2. Opened(duels, duels')
      BY <1>2, <3>1 DEF Opened, SameDuels
    <3> QED  BY <1>1, <1>2, <2>1, <3>2, OpenedEnds, FirmWhileWon
  <2> QED  BY <1>6, <1>9, <2>2, <2>3, <2>4
<1> QED  BY <1>2, <1>3, <1>5, <1>7, <1>8, <1>9 DEF DrawInv, Standing

LEMMA DrawStep ==
    ASSUME Size = 4, Serial = {"ready"}, DrawInv, [Next]_vars
    PROVE  DrawInv'
<1>1. \A t \in Task : ~BootDuel(t)
  BY DEF DrawInv, Draws, BootDuel, At
<1> QED  BY <1>1, KindsOfStep, DrawSoft, DrawRestart, DrawReady, DrawBootRead, DrawSemiA,
   DrawSemiB, DrawPairFinals, DrawFinal, DrawThird

\* Nobody is ever in two open duels of a bracket: the two semifinals are drawn
\* apart, the last rounds begin when both are over, winners and losers of two won
\* semifinals are four players, and of repeated creations one row is open at a time.
THEOREM OneOpenDuelForAPlayer ==
    ASSUME Size = 4, Serial = {"ready"}
    PROVE  Spec => []OneOpenDuelEach
<1>1. DrawInv => OneOpenDuelEach
  <2> SUFFICES ASSUME DrawInv,
                      NEW i \in DOMAIN duels, NEW j \in DOMAIN duels,
                      Unfinished(i), Unfinished(j), i # j
               PROVE  duels[i].pair \cap duels[j].pair = {}
    BY DEF OneOpenDuelEach
  <2>1. IsDuels(duels) /\ FinalsRight(duels) /\ Fair(duels) /\ OnePerPair(duels)
    BY DEF DrawInv, BracketInv
  <2>2. i \in 1..Len(duels) /\ j \in 1..Len(duels)
    BY <2>1, LengthOfRows
  <2>3. \A k \in {i, j} : /\ duels[k].round \in {"semifinal"} \cup LastRounds
                          /\ k \in Rounds(duels, duels[k].round)
                          /\ duels[k].status # "finished"
    BY <2>1, <2>2 DEF Fair, Rounds, Unfinished
  <2>4. CASE duels[i].round = "semifinal" /\ duels[j].round = "semifinal"
    BY <2>1, <2>3, <2>4 DEF Fair
  <2>5. CASE duels[i].round \in LastRounds \/ duels[j].round \in LastRounds
    <3>1. Done(duels) /\ Firm(duels)
      BY <2>1, <2>3, <2>5 DEF FinalsRight, LastRounds, Fair
    <3>2. duels[i].round # "semifinal" /\ duels[j].round # "semifinal"
      BY <2>3, <3>1 DEF Done
    <3>3. \A k \in {i, j} : \/ duels[k].round = "final" /\ duels[k].pair = WinnersOf(duels)
                            \/ duels[k].round = "tercer_puesto" /\ duels[k].pair = LosersOf(duels)
      BY <2>1, <2>3, <3>2 DEF FinalsRight, LastRounds
    <3>4. ~(duels[i].pair = duels[j].pair /\ duels[i].round = duels[j].round)
      BY <2>1, <2>2, <2>3 DEF OnePerPair
    <3>5. WinnersOf(duels) \cap LosersOf(duels) = {}
      BY <2>1, <3>1, WinnersAndLosers
    <3> QED  BY <3>3, <3>4, <3>5
  <2> QED  BY <2>3, <2>4, <2>5
<1> QED  BY <1>1, DrawInit, DrawStep, PTL DEF Spec

---------------------------------------------------------------------------
(* How a bracket closes. *)

\* computeFourPlayerRanks: n is the rank of player p.
RankStands(ds, p, n) ==
    \/ n = 1 /\ p = FirstOf(ds, "final").winner
    \/ n = 2 /\ p = Opponent(FirstOf(ds, "final"))
    \/ n = 3 /\ p = FirstOf(ds, "tercer_puesto").winner
    \/ n = 4 /\ p = Opponent(FirstOf(ds, "tercer_puesto"))

DrawnIn(ds) == UNION {ds[i].pair : i \in Rounds(ds, "semifinal")}

RanksStand ==
    status = "finished" =>
        \A p \in Player : seats[p] # NoSeat /\ p \in DrawnIn(duels) =>
            RankStands(duels, p, seats[p].rank)

ClosedInv == DrawInv /\ IsSeats(seats) /\ RanksStand

\* Seats may be given up, none is taken and no rank written.
RanksKept ==
    \A p \in Player : seats'[p] = NoSeat \/ (seats[p] # NoSeat /\ seats'[p].rank = seats[p].rank)

LEMMA RanksStay ==
    ASSUME ClosedInv, status = "finished", RanksKept,
           NEW pair, NEW round, Grown(duels, duels', pair, round), round # "semifinal"
    PROVE  RanksStand'
<1>1. IsDuels(duels) /\ Done(duels) /\ LastOver(duels)
  BY DEF ClosedInv, DrawInv, BracketInv, Standing
<1>2. Rounds(duels', "semifinal") = Rounds(duels, "semifinal")
  BY <1>1, RoundsGrown
<1>3. \A i \in Rounds(duels, "semifinal") : duels'[i].pair = duels[i].pair
  BY DEF Rounds, Grown
<1>4. DrawnIn(duels') = DrawnIn(duels)
  BY <1>2, <1>3 DEF DrawnIn
<1>5. \A r \in LastRounds : /\ FirstOf(duels', r).winner = FirstOf(duels, r).winner
                            /\ FirstOf(duels', r).pair = FirstOf(duels, r).pair
  BY <1>1, LastStays
<1>6. \A r \in LastRounds : Opponent(FirstOf(duels', r)) = Opponent(FirstOf(duels, r))
  BY <1>5 DEF Opponent
<1>7. \A p, n : RankStands(duels, p, n) => RankStands(duels', p, n)
  BY <1>5, <1>6 DEF RankStands, LastRounds
<1>8. ASSUME NEW p \in Player, seats'[p] # NoSeat, p \in DrawnIn(duels')
      PROVE  RankStands(duels', p, seats'[p].rank)
  BY <1>4, <1>7, <1>8 DEF ClosedInv, RanksStand, RanksKept
<1> QED  BY <1>8 DEF RanksStand

\* What becomes of one seat.
LEMMA OneSeatKept ==
    ASSUME IsSeats(seats), NEW p, NEW s, seats' = [seats EXCEPT ![p] = s],
           p \in Player => s = NoSeat \/ (seats[p] # NoSeat /\ s.rank = seats[p].rank)
    PROVE  RanksKept
<1>1. \A q \in Player : seats'[q] = IF q = p THEN s ELSE seats[q]
  BY Zenon DEF IsSeats
<1> QED  BY <1>1 DEF RanksKept

LEMMA FlagsKeepRank ==
    ASSUME NEW s, IsSeat(s), NEW x
    PROVE  /\ [s EXCEPT !.ready = x].rank = s.rank
           /\ [s EXCEPT !.connected = x].rank = s.rank
<1>1. [s EXCEPT !.ready = x] = [ready |-> x, connected |-> s.connected, rank |-> s.rank]
  BY SMT DEF IsSeat
<1>2. [s EXCEPT !.connected = x] = [ready |-> s.ready, connected |-> x, rank |-> s.rank]
  BY SMT DEF IsSeat
<1> QED  BY <1>1, <1>2

\* A closed room takes nobody in and ranks nobody.
LEMMA ClosedSeats ==
    ASSUME IsSeats(seats), Size = 4, status = "finished",
           SoftStep \/ \E t \in Task, p \in Human : Ready(t, p)
    PROVE  RanksKept
<1>1. CASE UNCHANGED seats
  BY <1>1 DEF RanksKept
<1>2. ASSUME NEW p, NEW x, seats' = Marked(p, x)
      PROVE  RanksKept
  <2>1. CASE p \in Occupied
    <3>1. IsSeat(seats[p]) /\ seats[p] # NoSeat
      BY <2>1 DEF Occupied, IsSeats
    <3>2. seats' = [seats EXCEPT ![p] = [seats[p] EXCEPT !.connected = x]]
      BY <1>2, <2>1 DEF Marked
    <3> QED  BY <3>1, <3>2, FlagsKeepRank, OneSeatKept
  <2>2. CASE p \notin Occupied
    BY <1>1, <1>2, <2>2 DEF Marked
  <2> QED  BY <2>1, <2>2
<1>3. ASSUME NEW t \in Task, SeedBots(t)
      PROVE  RanksKept
  <2>1. PICK S \in SUBSET Occupied :
           seats' = [p \in Player |->
                       IF p \in S THEN [seats[p] EXCEPT !.ready = TRUE] ELSE seats[p]]
    BY <1>3 DEF SeedBots
  <2>2. \A p \in Player : seats'[p] = IF p \in S THEN [seats[p] EXCEPT !.ready = TRUE] ELSE seats[p]
    BY <2>1
  <2>3. \A p \in S : seats[p] # NoSeat
    BY DEF Occupied
  <2>4. \A p \in Player : [seats[p] EXCEPT !.ready = TRUE].rank = seats[p].rank
    BY FlagsKeepRank DEF IsSeats
  <2> QED  BY <2>2, <2>3, <2>4 DEF RanksKept
<1>4. ASSUME NEW t \in Task, NEW p \in Human, Ready(t, p)
      PROVE  RanksKept
  <2>1. IsSeat(seats[p]) /\ seats[p] # NoSeat
    BY <1>4 DEF Ready, Occupied, IsSeats
  <2>2. seats' = [seats EXCEPT ![p] = [seats[p] EXCEPT !.ready = TRUE]]
    BY <1>4 DEF Ready
  <2> QED  BY <2>1, <2>2, FlagsKeepRank, OneSeatKept
<1>5. ASSUME NEW p, seats' = [seats EXCEPT ![p] = NoSeat]
      PROVE  RanksKept
  BY <1>5, OneSeatKept
<1>6. ASSUME NEW t \in Task, Soft(t), ~SeedBots(t)
      PROVE  RanksKept
  <2>1. CASE JoinMark(t) \/ LeaveMark(t) \/ DropMark(t) \/ BracketMark(t)
    BY <1>2, <2>1 DEF JoinMark, LeaveMark, DropMark, BracketMark
  <2>2. CASE UnseatEnds(t)
    BY <1>5, <2>2 DEF UnseatEnds
  <2>3. CASE \E p \in Human : Join(t, p)
    BY <1>1, <2>3 DEF Join, CanSeat
  <2>4. CASE Close(t) \/ Rematch(t) \/ RankBracket(t) \/ \E b \in Bot : AddBot(t, b)
    BY <1>1, <2>4 DEF Close, Rematch, RankBracket, Bracket, AddBot, CanSeat
  <2> QED  BY <1>1, <1>6, <2>1, <2>2, <2>3, <2>4
       DEF Soft, Leave, Drop, GraceExpires, WalkoverExpires, CreateFails, BracketFind, Unseat,
           WalkFind, AwaitRound, ArmAbsent, QueryFails, Forfeit, WalkWrite
<1>7. CASE Rest
  BY <1>5, <1>7 DEF Rest, Reserve, CanSeat, RemoveBot
<1>8. CASE Play \/ UNCHANGED vars
  BY <1>1, <1>8 DEF Play, SelectLead, DuelEnds, vars
<1> QED  BY <1>3, <1>4, <1>6, <1>7, <1>8 DEF SoftStep

LEMMA OnlyRankBracketCloses ==
    ASSUME Size = 4, SoftStep, status = "in_progress", status' = "finished"
    PROVE  \E t \in Task : RankBracket(t)
<1>1. ~Rest /\ ~Play /\ ~UNCHANGED vars
  BY DEF Rest, Reserve, RemoveBot, Play, SelectLead, DuelEnds, vars
<1>2. ASSUME NEW t \in Task, Soft(t)
      PROVE  RankBracket(t)
  <2>1. ~Close(t) /\ ~UnseatEnds(t)
    BY DEF Close, UnseatEnds
  <2> QED  BY <1>2, <2>1 DEF Soft, Join, Leave, Drop, GraceExpires, WalkoverExpires, AddBot,
       JoinMark, SeedBots, CreateFails, LeaveMark, DropMark, BracketMark, BracketFind, Unseat,
       WalkFind, Rematch, AwaitRound, ArmAbsent, QueryFails, Forfeit, WalkWrite
<1> QED  BY <1>1, <1>2 DEF SoftStep

\* The four who were drawn are the four of the first final and third place.
LEMMA RanksAreWritten ==
    ASSUME ClosedInv, NEW t, RankBracket(t)
    PROVE  RanksStand'
<1>1. /\ IsDuels(duels) /\ Fair(duels) /\ FinalsRight(duels)
      /\ Firm(duels) /\ FirmLast(duels)
  BY DEF RankBracket, Bracket, ClosedInv, DrawInv, BracketInv, Standing
<1>2. DOMAIN duels = 1..Len(duels) /\ Len(duels) \in Nat
  BY <1>1, LengthOfRows
<1>3. \A r : OfRound(r) = Rounds(duels, r)
  BY <1>2 DEF OfRound, Rounds
<1>4. Done(duels) /\ LastOver(duels)
  BY <1>3 DEF RankBracket, SemisDone, Semis, Done, Unfinished, FinalsDone, HasFinals, TheFinal,
     TheThird, LastOver, LastRounds, FirstOf
<1> DEFINE f == FirstOf(duels, "final")
           h == FirstOf(duels, "tercer_puesto")
<1>5. /\ duels[TheFinal] = f /\ LoserOf(TheFinal) = Opponent(f)
      /\ duels[TheThird] = h /\ LoserOf(TheThird) = Opponent(h)
  BY <1>3 DEF TheFinal, TheThird, FirstOf, LoserOf, opponentOf, Opponent
<1>6. \A r \in LastRounds : First(Rounds(duels, r)) \in Rounds(duels, r)
  BY <1>2, <1>4, FirstIsThere DEF LastOver, Rounds
<1>7. f.pair = WinnersOf(duels) /\ h.pair = LosersOf(duels)
  BY <1>1, <1>6 DEF FinalsRight, FirstOf, LastRounds
<1>8. f.winner \in f.pair /\ h.winner \in h.pair
  BY <1>1, <1>4 DEF FirmLast, FirmRow, LastOver, LastRounds
<1>9. /\ IsPair(WinnersOf(duels)) /\ IsPair(LosersOf(duels))
      /\ DrawnIn(duels) = WinnersOf(duels) \cup LosersOf(duels)
  BY <1>1, <1>4, WinnersAndLosers DEF DrawnIn
<1>10. f.pair = {f.winner, Opponent(f)} /\ h.pair = {h.winner, Opponent(h)}
  BY <1>7, <1>8, <1>9, PairOfTwo
<1>11. DrawnIn(duels) = {f.winner, Opponent(f), h.winner, Opponent(h)}
  BY <1>7, <1>9, <1>10
<1> DEFINE w1 == f.winner
           l1 == Opponent(f)
           w2 == h.winner
           l2 == Opponent(h)
<1>12. \A p : BracketRank(p) = CASE p = w1 -> 1 [] p = l1 -> 2 [] p = w2 -> 3 [] p = l2 -> 4
                                 [] OTHER -> seats[p].rank
  BY <1>5 DEF BracketRank
<1>13. ASSUME NEW p, p \in DrawnIn(duels)
       PROVE  RankStands(duels, p, BracketRank(p))
  <2>1. \A n : RankStands(duels, p, n) <=>
           \/ n = 1 /\ p = w1
           \/ n = 2 /\ p = l1
           \/ n = 3 /\ p = w2
           \/ n = 4 /\ p = l2
    BY DEF RankStands
  <2>2. p \in {w1, l1, w2, l2}
    BY <1>11, <1>13
  <2> HIDE DEF w1, l1, w2, l2
  <2>3. \/ p = w1 /\ BracketRank(p) = 1
        \/ p = l1 /\ BracketRank(p) = 2
        \/ p = w2 /\ BracketRank(p) = 3
        \/ p = l2 /\ BracketRank(p) = 4
    <3> DEFINE m == seats[p].rank
    <3>1. BracketRank(p) = CASE p = w1 -> 1 [] p = l1 -> 2 [] p = w2 -> 3 [] p = l2 -> 4 [] OTHER -> m
      BY <1>12
    <3> HIDE DEF m
    <3>2. CASE p = w1
      BY <3>1, <3>2
    <3>3. CASE p # w1 /\ p = l1
      BY <3>1, <3>3
    <3>4. CASE p # w1 /\ p # l1 /\ p = w2
      BY <3>1, <3>4
    <3>5. CASE p # w1 /\ p # l1 /\ p # w2 /\ p = l2
      BY <3>1, <3>5
    <3> QED  BY <2>2, <3>2, <3>3, <3>4, <3>5
  <2> QED  BY <2>1, <2>3
<1>14. ASSUME NEW p \in Player, seats'[p] # NoSeat, p \in DrawnIn(duels')
       PROVE  RankStands(duels', p, seats'[p].rank)
  <2>1. UNCHANGED duels
    BY DEF RankBracket
  <2>2. seats'[p] = IF p \in Occupied THEN [seats[p] EXCEPT !.rank = BracketRank(p)] ELSE seats[p]
    BY DEF RankBracket
  <2>3. p \in Occupied
    BY <1>14, <2>2 DEF Occupied
  <2>4. seats'[p].rank = BracketRank(p)
    BY <2>2, <2>3, ColumnsOfASeat DEF ClosedInv, IsSeats
  <2> QED  BY <1>13, <1>14, <2>1, <2>4
<1> QED  BY <1>14 DEF RanksStand

LEMMA ClosedStep ==
    ASSUME Size = 4, Serial = {"ready"}, ClosedInv, [Next]_vars
    PROVE  ClosedInv'
<1>1. DrawInv'
  BY DrawStep DEF ClosedInv
<1>2. IsSeats(seats)'
  <2>1. IsSeats(seats')
    BY SeatsInvStep DEF ClosedInv
  <2> QED  BY <2>1 DEF IsSeats, IsSeat, Player
<1>3. IsDuels(duels) /\ IsSeats(seats) /\ DrawInv
  BY DEF ClosedInv, DrawInv, BracketInv
<1>4. ASSUME SoftStep
      PROVE  RanksStand'
  <2>1. Grown(duels, duels', {}, "unica")
    BY <1>3, <1>4, SoftRows, SameIsGrown
  <2>2. CASE status = "finished"
    BY <1>3, <1>4, <2>1, <2>2, ClosedSeats, RanksStay
  <2>3. CASE status # "finished" /\ status' = "finished"
    BY <1>4, <2>3, SoftStatus, OnlyRankBracketCloses, RanksAreWritten
  <2>4. CASE status' # "finished"
    BY <2>4 DEF RanksStand
  <2> QED  BY <2>2, <2>3, <2>4
<1>5. ASSUME Restart
      PROVE  RanksStand'
  <2>1. Grown(duels, duels', {}, "unica")
    BY <1>3, <1>5, ReconciledRows, SameIsGrown DEF Restart
  <2>2. status' = "finished" => status = "finished"
    BY <1>5 DEF Restart
  <2>3. status = "finished" => RanksKept
    BY <1>5 DEF Restart, RanksKept
  <2>4. CASE status' # "finished"
    BY <2>4 DEF RanksStand
  <2> QED  BY <2>1, <2>2, <2>3, <2>4, RanksStay
<1>6. ASSUME NEW t \in Task, (\E p \in Human : Ready(t, p)) \/ BootRead(t) \/ PairFinals(t)
      PROVE  RanksStand'
  <2>1. UNCHANGED <<duels, status>>
    BY <1>6 DEF Ready, BootRead, PairFinals
  <2>2. Grown(duels, duels', {}, "unica")
    BY <1>3, <2>1, SameDuelsReflexive, SameIsGrown
  <2>3. status = "finished" => RanksKept
    <3>1. CASE UNCHANGED seats
      BY <3>1 DEF RanksKept
    <3>2. CASE \E p \in Human : Ready(t, p)
      BY <1>3, <3>2, ClosedSeats
    <3> QED  BY <1>6, <3>1, <3>2 DEF BootRead, PairFinals
  <2>4. CASE status' # "finished"
    BY <2>4 DEF RanksStand
  <2> QED  BY <2>1, <2>2, <2>3, <2>4, RanksStay
<1>7. ASSUME NEW t \in Task, BootDuel(t) \/ SemiA(t) \/ SemiB(t) \/ Final(t) \/ Third(t)
      PROVE  RanksStand'
  <2>1. status' \in {status, "in_progress"} /\ UNCHANGED seats
    BY <1>7 DEF BootDuel, SemiA, SemiB, Final, Third, CreateFirst, CreateSecond, CreateDuel,
       StatusOnCreate
  <2>2. RanksKept
    BY <2>1 DEF RanksKept
  <2>3. CASE status' # "finished"
    BY <2>3 DEF RanksStand
  <2>4. CASE status' = "finished"
    <3>1. status = "finished" /\ Done(duels)
      BY <1>3, <2>1, <2>4 DEF DrawInv, Standing
    <3>2. Agrees(duels, task[t]) /\ Draws(duels, task[t])
      BY <1>3 DEF DrawInv, BracketInv
    <3>3. ~SemiA(t) /\ ~SemiB(t) /\ ~BootDuel(t)
      BY <3>1, <3>2, OneIsNotDone DEF Agrees, Draws, SemiA, SemiB, BootDuel, At
    <3>4. Final(t) => Grown(duels, duels', task[t].pairA, "final")
      BY <1>3, CreatedIsGrown DEF Final, CreateFirst, CreateDuel
    <3>5. Third(t) => Grown(duels, duels', task[t].pairB, "tercer_puesto")
      BY <1>3, CreatedAndLed DEF Third, CreateSecond
    <3>6. PICK pair, round : Grown(duels, duels', pair, round) /\ round # "semifinal"
      BY <1>7, <3>3, <3>4, <3>5
    <3> QED  BY <2>2, <3>1, <3>6, RanksStay
  <2> QED  BY <2>3, <2>4
<1>8. ASSUME NEW t \in Task,
             \/ \E p \in Human : Ready(t, p)
             \/ BootRead(t) \/ BootDuel(t) \/ SemiA(t) \/ SemiB(t)
             \/ PairFinals(t) \/ Final(t) \/ Third(t)
      PROVE  RanksStand'
  BY <1>6, <1>7, <1>8
<1>9. RanksStand'
  <2> HIDE DEF RanksStand
  <2> QED  BY <1>4, <1>5, <1>8, KindsOfStep
<1> QED  BY <1>1, <1>2, <1>9 DEF ClosedInv

\* However its duels end, players go, and advances race, a closed bracket has every
\* duel decided but a repeated one, and the players who were drawn and still have
\* their seats are ranked 1 to 4, each alone.
THEOREM ClosedBracketDecided ==
    ASSUME Size = 4, Serial = {"ready"}
    PROVE  Spec => []ClosedBracketIsDecided
<1>1. Init => ClosedInv
  BY DrawInit, SeatsInvInit DEF Init, ClosedInv, RanksStand
<1>2. ClosedInv => ClosedBracketIsDecided
  <2> SUFFICES ASSUME ClosedInv, status = "finished"
               PROVE  /\ \A i \in DOMAIN duels : Unfinished(i) => Repeat(i)
                      /\ \A p \in Occupied \cap Drawn : seats[p].rank \in 1..4
                      /\ \A p, q \in Occupied \cap Drawn : seats[p].rank = seats[q].rank => p = q
    BY DEF ClosedBracketIsDecided
  <2>1. /\ IsDuels(duels) /\ FinalsRight(duels) /\ Fair(duels)
        /\ Done(duels) /\ LastOver(duels)
    BY DEF ClosedInv, DrawInv, BracketInv, Standing
  <2>2. DOMAIN duels = 1..Len(duels) /\ Len(duels) \in Nat
    BY <2>1, LengthOfRows
  <2>3. ASSUME NEW i \in DOMAIN duels, Unfinished(i)
        PROVE  Repeat(i)
    <3>1. i \in 1..Len(duels) /\ duels[i].status # "finished"
      BY <2>2, <2>3 DEF Unfinished
    <3>2. PICK r \in LastRounds : duels[i].round = r /\ i \in Rounds(duels, r)
      BY <2>1, <3>1 DEF Fair, Done, Rounds
    <3> DEFINE f == First(Rounds(duels, r))
    <3>3. f \in Rounds(duels, r) /\ f <= i
      BY <2>2, <3>2, FirstIsThere DEF Rounds
    <3>4. duels[f].status = "finished"
      BY <2>1 DEF LastOver, FirstOf
    <3>5. duels[f].pair = duels[i].pair
      BY <2>1, <3>2, <3>3 DEF FinalsRight, LastRounds
    <3> HIDE DEF f
    <3>6. f \in 1..Len(duels) /\ duels[f].round = r
      BY <3>3 DEF Rounds
    <3>7. f < i
      BY <2>2, <3>1, <3>3, <3>4, <3>6
    <3> QED  BY <2>2, <3>2, <3>5, <3>6, <3>7 DEF Repeat
  <2>4. Drawn = DrawnIn(duels)
    BY <2>2 DEF Drawn, DrawnIn, Semis, OfRound, Rounds
  <2>5. \A p \in Occupied \cap Drawn : RankStands(duels, p, seats[p].rank)
    BY <2>4 DEF ClosedInv, RanksStand, Occupied
  <2>6. \A p \in Occupied \cap Drawn : seats[p].rank \in 1..4
    BY <2>5 DEF RankStands
  <2>7. \A p, q, n : RankStands(duels, p, n) /\ RankStands(duels, q, n) => p = q
    BY DEF RankStands
  <2>8. \A p, q \in Occupied \cap Drawn : seats[p].rank = seats[q].rank => p = q
    BY <2>5, <2>7
  <2> QED  BY <2>3, <2>6, <2>8
<1> QED  BY <1>1, <1>2, ClosedStep, PTL DEF Spec

=============================================================================
