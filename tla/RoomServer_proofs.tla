------------------------- MODULE RoomServer_proofs -------------------------
(***************************************************************************)
(* Three facts about a room, for every number of players, handlers and     *)
(* duels: what createDuelFromRoom's look-up promises whichever handlers    *)
(* race to it, that a room of two is closed with the right ranks, and what *)
(* its rows, windows and handlers hold.                                    *)
(***************************************************************************)
EXTENDS RoomServer, FiniteSetTheorems, SequenceTheorems, WellFoundedInduction, TLAPS

\* A row of duels, whatever its columns hold.
IsDuel(d) ==
    d = [round |-> d.round, pair |-> d.pair, status |-> d.status, winner |-> d.winner,
         phase |-> d.phase, leads |-> d.leads, marked |-> d.marked]

IsDuels(ds) ==
    /\ \E Rs : ds \in Seq(Rs)
    /\ \A i \in 1..Len(ds) : IsDuel(ds[i])

\* OneDuelPerPair of any rows.
OnePerPair(ds) ==
    \A i, j \in 1..Len(ds) :
        ds[i].status # "finished" /\ ds[j].status # "finished" /\ i # j =>
            ~(ds[i].pair = ds[j].pair /\ ds[i].round = ds[j].round)

\* A duel that is over stays over, with its winner.
Kept(d, e) == d.status = "finished" => e.status = "finished" /\ e.winner = d.winner

\* Rows b are rows a with other columns: no duel is added, exchanged, reopened or
\* decided anew.
SameDuels(a, b) ==
    /\ IsDuels(b)
    /\ Len(b) = Len(a)
    /\ \A i \in 1..Len(a) : /\ b[i].pair = a[i].pair
                            /\ b[i].round = a[i].round
                            /\ Kept(a[i], b[i])

LEMMA SameDuelsKeep ==
    ASSUME NEW a, NEW b, OnePerPair(a), SameDuels(a, b)
    PROVE  IsDuels(b) /\ OnePerPair(b)
BY DEF SameDuels, OnePerPair, Kept

LEMMA SameDuelsReflexive ==
    ASSUME NEW a, IsDuels(a)
    PROVE  SameDuels(a, a)
BY DEF SameDuels, Kept

---------------------------------------------------------------------------
(* What the columns of one row become. *)

\* Row b is row a with other columns.
SameDuel(a, b) == IsDuel(b) /\ b.pair = a.pair /\ b.round = a.round

WithStatus(d, x) == [d EXCEPT !.status = x]
WithWinner(d, x) == [d EXCEPT !.winner = x]
WithPhase(d, x)  == [d EXCEPT !.phase = x]
WithLeads(d, x)  == [d EXCEPT !.leads = x]
WithMarked(d, x) == [d EXCEPT !.marked = x]

LEMMA OneColumn ==
    ASSUME NEW d, IsDuel(d), NEW x
    PROVE  /\ SameDuel(d, WithStatus(d, x)) /\ WithStatus(d, x).status = x
           /\ WithStatus(d, x).winner = d.winner
           /\ SameDuel(d, WithWinner(d, x)) /\ WithWinner(d, x).status = d.status
           /\ WithWinner(d, x).winner = x
           /\ SameDuel(d, WithPhase(d, x)) /\ WithPhase(d, x).status = d.status
           /\ WithPhase(d, x).winner = d.winner
           /\ SameDuel(d, WithLeads(d, x)) /\ WithLeads(d, x).status = d.status
           /\ WithLeads(d, x).winner = d.winner
           /\ SameDuel(d, WithMarked(d, x)) /\ WithMarked(d, x).status = d.status
           /\ WithMarked(d, x).winner = d.winner
<1>1. WithStatus(d, x) = [round |-> d.round, pair |-> d.pair, status |-> x,
                          winner |-> d.winner, phase |-> d.phase, leads |-> d.leads,
                          marked |-> d.marked]
  BY SMT DEF IsDuel, WithStatus
<1>2. WithWinner(d, x) = [round |-> d.round, pair |-> d.pair, status |-> d.status,
                          winner |-> x, phase |-> d.phase, leads |-> d.leads,
                          marked |-> d.marked]
  BY SMT DEF IsDuel, WithWinner
<1>3. WithPhase(d, x) = [round |-> d.round, pair |-> d.pair, status |-> d.status,
                         winner |-> d.winner, phase |-> x, leads |-> d.leads,
                         marked |-> d.marked]
  BY SMT DEF IsDuel, WithPhase
<1>4. WithLeads(d, x) = [round |-> d.round, pair |-> d.pair, status |-> d.status,
                         winner |-> d.winner, phase |-> d.phase, leads |-> x,
                         marked |-> d.marked]
  BY SMT DEF IsDuel, WithLeads
<1>5. WithMarked(d, x) = [round |-> d.round, pair |-> d.pair, status |-> d.status,
                          winner |-> d.winner, phase |-> d.phase, leads |-> d.leads,
                          marked |-> x]
  BY SMT DEF IsDuel, WithMarked
<1>6. /\ SameDuel(d, WithStatus(d, x)) /\ WithStatus(d, x).status = x
      /\ WithStatus(d, x).winner = d.winner
  BY <1>1 DEF SameDuel, IsDuel
<1>7. /\ SameDuel(d, WithWinner(d, x)) /\ WithWinner(d, x).status = d.status
      /\ WithWinner(d, x).winner = x
  BY <1>2 DEF SameDuel, IsDuel
<1>8. /\ SameDuel(d, WithPhase(d, x)) /\ WithPhase(d, x).status = d.status
      /\ WithPhase(d, x).winner = d.winner
  BY <1>3 DEF SameDuel, IsDuel
<1>9. /\ SameDuel(d, WithLeads(d, x)) /\ WithLeads(d, x).status = d.status
      /\ WithLeads(d, x).winner = d.winner
  BY <1>4 DEF SameDuel, IsDuel
<1>10. /\ SameDuel(d, WithMarked(d, x)) /\ WithMarked(d, x).status = d.status
       /\ WithMarked(d, x).winner = d.winner
  BY <1>5 DEF SameDuel, IsDuel
<1> QED  BY <1>6, <1>7, <1>8, <1>9, <1>10

LEMMA SameDuelTransitive ==
    ASSUME NEW a, NEW b, NEW c, SameDuel(a, b), SameDuel(b, c)
    PROVE  SameDuel(a, c)
BY DEF SameDuel

LEMMA EndedRow ==
    ASSUME NEW d, IsDuel(d), NEW w
    PROVE  /\ SameDuel(d, Ended(d, w)) /\ Ended(d, w).status = "finished"
           /\ Ended(d, w).winner = w
<1> DEFINE e1 == WithStatus(d, "finished")
           e2 == WithWinner(e1, w)
           e3 == WithPhase(e2, "none")
           e4 == WithLeads(e3, {})
           e5 == WithMarked(e4, {})
<1>1. Ended(d, w) = e5
  BY DEF Ended, WithStatus, WithWinner, WithPhase, WithLeads, WithMarked
<1>2. SameDuel(d, e1) /\ IsDuel(e1) /\ e1.status = "finished"
  BY OneColumn DEF SameDuel
<1> HIDE DEF e1
<1>3. SameDuel(d, e2) /\ IsDuel(e2) /\ e2.status = "finished" /\ e2.winner = w
  BY <1>2, OneColumn, SameDuelTransitive DEF SameDuel
<1> HIDE DEF e2
<1>4. SameDuel(d, e3) /\ IsDuel(e3) /\ e3.status = "finished" /\ e3.winner = w
  BY <1>3, OneColumn, SameDuelTransitive DEF SameDuel
<1> HIDE DEF e3
<1>5. SameDuel(d, e4) /\ IsDuel(e4) /\ e4.status = "finished" /\ e4.winner = w
  BY <1>4, OneColumn, SameDuelTransitive DEF SameDuel
<1> HIDE DEF e4
<1> QED  BY <1>1, <1>5, OneColumn, SameDuelTransitive DEF SameDuel

LEMMA EnteredRow ==
    ASSUME NEW d, IsDuel(d)
    PROVE  SameDuel(d, Entered(d)) /\ Kept(d, Entered(d)) /\ Entered(d).status = d.status
<1>1. Entered(d) = WithPhase(d, "lead_selection")
  BY DEF Entered, WithPhase
<1> QED  BY <1>1, OneColumn DEF Kept

LEMMA LedRow ==
    ASSUME NEW d, IsDuel(d), NEW p
    PROVE  /\ SameDuel(d, Led(d, p)) /\ Kept(d, Led(d, p))
           /\ Led(d, p).status = "finished" => d.status = "finished"
<1>1. PICK l, m, f, s :
          /\ Led(d, p) = WithStatus(WithPhase(WithMarked(WithLeads(d, l), m), f), s)
          /\ d.status = "finished" <=> s = "finished"
  <2> DEFINE new    == {p} \cup ((d.pair \cap Bot) \ d.leads)
             marked == d.marked \cup new
             live   == marked = d.pair
             leads  == d.leads \cup new
             phase  == IF live THEN "in_progress" ELSE d.phase
             after  == IF live /\ d.status = "pending" THEN "in_progress" ELSE d.status
  <2>1. Led(d, p) = [d EXCEPT !.leads = leads, !.marked = marked, !.phase = phase,
                              !.status = after]
    BY DEF Led
  <2>2. d.status = "finished" <=> after = "finished"
    OBVIOUS
  <2> HIDE DEF new, marked, live, leads, phase, after
  <2>3. Led(d, p) = WithStatus(WithPhase(WithMarked(WithLeads(d, leads), marked), phase), after)
    BY <2>1 DEF WithStatus, WithPhase, WithMarked, WithLeads
  <2> QED  BY <2>2, <2>3
<1> DEFINE e1 == WithLeads(d, l)
           e2 == WithMarked(e1, m)
           e3 == WithPhase(e2, f)
<1>2. SameDuel(d, e1) /\ IsDuel(e1) /\ e1.winner = d.winner
  BY OneColumn DEF SameDuel
<1> HIDE DEF e1
<1>3. SameDuel(d, e2) /\ IsDuel(e2) /\ e2.winner = d.winner
  BY <1>2, OneColumn, SameDuelTransitive DEF SameDuel
<1> HIDE DEF e2
<1>4. SameDuel(d, e3) /\ IsDuel(e3) /\ e3.winner = d.winner
  BY <1>3, OneColumn, SameDuelTransitive DEF SameDuel
<1>5. Led(d, p) = WithStatus(e3, s)
  BY <1>1 DEF e1, e2
<1> HIDE DEF e3
<1> QED  BY <1>1, <1>4, <1>5, OneColumn, SameDuelTransitive DEF Kept

LEMMA ReconciledRow ==
    ASSUME NEW d, IsDuel(d)
    PROVE  /\ SameDuel(d, Reconciled(d)) /\ Kept(d, Reconciled(d))
           /\ Reconciled(d).status = IF d.status = "in_progress" THEN "finished" ELSE d.status
<1> DEFINE s  == IF d.status = "in_progress" THEN "finished" ELSE d.status
           e1 == WithStatus(d, s)
           e2 == WithPhase(e1, "none")
           e3 == WithMarked(e2, {})
<1>1. Reconciled(d) = e3
  BY DEF Reconciled, WithStatus, WithPhase, WithMarked
<1>2. d.status = "finished" => s = "finished"
  OBVIOUS
<1> HIDE DEF s
<1>3. SameDuel(d, e1) /\ IsDuel(e1) /\ e1.status = s /\ e1.winner = d.winner
  BY OneColumn DEF SameDuel
<1> HIDE DEF e1
<1>4. SameDuel(d, e2) /\ IsDuel(e2) /\ e2.status = s /\ e2.winner = d.winner
  BY <1>3, OneColumn, SameDuelTransitive DEF SameDuel
<1> HIDE DEF e2
<1>5. SameDuel(d, Reconciled(d)) /\ Kept(d, Reconciled(d)) /\ Reconciled(d).status = s
  BY <1>1, <1>2, <1>4, OneColumn, SameDuelTransitive DEF Kept
<1> QED  BY <1>5 DEF s

\* One row of several is replaced.
LEMMA OneRowReplaced ==
    ASSUME NEW ds, IsDuels(ds), NEW i, NEW e,
           i \in 1..Len(ds) => SameDuel(ds[i], e) /\ Kept(ds[i], e)
    PROVE  /\ SameDuels(ds, [ds EXCEPT ![i] = e])
           /\ \A j \in 1..Len(ds) : [ds EXCEPT ![i] = e][j] = IF j = i THEN e ELSE ds[j]
<1> DEFINE b == [ds EXCEPT ![i] = e]
<1>1. PICK Rs : ds \in Seq(Rs)
  BY DEF IsDuels
<1>2. /\ Len(ds) \in Nat
      /\ ds = [j \in 1..Len(ds) |-> ds[j]]
      /\ \A j \in 1..Len(ds) : ds[j] \in Rs
  BY <1>1
<1>3. /\ b = [j \in 1..Len(ds) |-> IF j = i THEN e ELSE ds[j]]
      /\ \A j \in 1..Len(ds) : b[j] = IF j = i THEN e ELSE ds[j]
  BY <1>2, Zenon
<1> HIDE DEF b
<1>4. b \in Seq(Rs \cup {e}) /\ Len(b) = Len(ds)
  BY <1>2, <1>3
<1>5. SameDuels(ds, b)
  BY <1>3, <1>4 DEF SameDuels, IsDuels, SameDuel, Kept
<1> QED  BY <1>3, <1>5 DEF b

LEMMA FinishedRows ==
    ASSUME IsDuels(duels), NEW i, Unfinished(i), NEW w
    PROVE  SameDuels(duels, Finished(i, w))
<1>1. i \in 1..Len(duels) => IsDuel(duels[i])
  BY DEF IsDuels
<1>2. i \in 1..Len(duels) => /\ SameDuel(duels[i], Ended(duels[i], w))
                             /\ Kept(duels[i], Ended(duels[i], w))
  BY <1>1, EndedRow DEF Kept, Unfinished
<1> QED  BY <1>2, OneRowReplaced DEF Finished

LEMMA LeadSelectionRows ==
    ASSUME NEW ds, IsDuels(ds), NEW i
    PROVE  SameDuels(ds, LeadSelection(ds, i))
<1>1. i \in 1..Len(ds) => IsDuel(ds[i])
  BY DEF IsDuels
<1>2. i \in 1..Len(ds) => SameDuel(ds[i], Entered(ds[i])) /\ Kept(ds[i], Entered(ds[i]))
  BY <1>1, EnteredRow
<1> QED  BY <1>2, OneRowReplaced DEF LeadSelection

LEMMA LedRows ==
    ASSUME IsDuels(duels), NEW i, NEW p
    PROVE  SameDuels(duels, [duels EXCEPT ![i] = Led(@, p)])
<1>1. i \in 1..Len(duels) => IsDuel(duels[i])
  BY DEF IsDuels
<1>2. i \in 1..Len(duels) => /\ SameDuel(duels[i], Led(duels[i], p))
                             /\ Kept(duels[i], Led(duels[i], p))
  BY <1>1, LedRow
<1> QED  BY <1>2, OneRowReplaced

LEMMA ReconciledRows ==
    ASSUME IsDuels(duels)
    PROVE  SameDuels(duels, [i \in DOMAIN duels |-> Reconciled(duels[i])])
<1> DEFINE b == [i \in DOMAIN duels |-> Reconciled(duels[i])]
           Rows == {Reconciled(duels[i]) : i \in 1..Len(duels)}
<1>1. Len(duels) \in Nat /\ DOMAIN duels = 1..Len(duels)
  BY DEF IsDuels
<1>2. \A i \in 1..Len(duels) :
         /\ SameDuel(duels[i], Reconciled(duels[i]))
         /\ Kept(duels[i], Reconciled(duels[i]))
  BY ReconciledRow DEF IsDuels
<1>3. /\ b = [i \in 1..Len(duels) |-> Reconciled(duels[i])]
      /\ \A i \in 1..Len(duels) : b[i] = Reconciled(duels[i])
  BY <1>1
<1>4. b \in [1..Len(duels) -> Rows]
  BY <1>3
<1> HIDE DEF b, Rows
<1>5. b \in Seq(Rows) /\ Len(b) = Len(duels)
  BY <1>1, <1>4
<1> QED  BY <1>2, <1>3, <1>5 DEF SameDuels, IsDuels, SameDuel, b

\* The look-up of createDuelFromRoom: a row is inserted only when no open one has
\* its pair and round.
LEMMA CreatedKeeps ==
    ASSUME IsDuels(duels), OnePerPair(duels), NEW pair, NEW round
    PROVE  IsDuels(Created(pair, round)) /\ OnePerPair(Created(pair, round))
<1>1. CASE Existing(pair, round) # {}
  BY <1>1 DEF Created
<1>2. CASE Existing(pair, round) = {}
  <2> DEFINE d == NewDuel(pair, round)
             b == Append(duels, d)
  <2>1. PICK Rs : duels \in Seq(Rs)
    BY DEF IsDuels
  <2>2. /\ IsDuel(d) /\ d.pair = pair /\ d.round = round
    BY DEF NewDuel, IsDuel
  <2>3. \A i \in 1..Len(duels) :
           ~(duels[i].status # "finished" /\ duels[i].pair = pair /\ duels[i].round = round)
    BY <1>2, <2>1 DEF Existing, OfRound, Unfinished
  <2> HIDE DEF d
  <2>4. /\ duels \in Seq(Rs \cup {d}) /\ d \in Rs \cup {d}
        /\ Len(duels) \in Nat
    BY <2>1
  <2>5. /\ b \in Seq(Rs \cup {d})
        /\ Len(b) = Len(duels) + 1
        /\ \A i \in 1..Len(duels) : b[i] = duels[i]
        /\ b[Len(duels) + 1] = d
    BY <2>4
  <2>6. \A i \in 1..Len(b) : i \in 1..Len(duels) \/ i = Len(duels) + 1
    BY <2>4, <2>5
  <2> HIDE DEF b
  <2>7. IsDuels(b)
    BY <2>2, <2>5, <2>6 DEF IsDuels
  <2>8. OnePerPair(b)
    BY <2>2, <2>3, <2>5, <2>6 DEF OnePerPair
  <2> QED  BY <1>2, <2>7, <2>8 DEF Created, b, d
<1> QED  BY <1>1, <1>2

---------------------------------------------------------------------------
(* The invariant, action by action. *)

RowsInv == IsDuels(duels) /\ OnePerPair(duels)

LEMMA RowsInvInit ==
    ASSUME Init
    PROVE  RowsInv
<1>1. duels = <<>> /\ <<>> \in Seq({}) /\ Len(<<>>) = 0
  BY DEF Init
<1> QED  BY <1>1 DEF RowsInv, IsDuels, OnePerPair

LEMMA RowsInvSame ==
    ASSUME RowsInv, SameDuels(duels, duels')
    PROVE  RowsInv'
BY SameDuelsKeep DEF RowsInv

LEMMA RowsInvCreated ==
    ASSUME RowsInv, NEW pair, NEW round, duels' = Created(pair, round)
    PROVE  RowsInv'
BY CreatedKeeps DEF RowsInv

\* The duel just created, and another one with it, enter lead selection.
LEMMA RowsInvLed ==
    ASSUME RowsInv, NEW pair, NEW round, NEW i, NEW j,
           \/ duels' = LeadSelection(Created(pair, round), i)
           \/ duels' = LeadSelection(LeadSelection(Created(pair, round), i), j)
    PROVE  RowsInv'
<1> DEFINE c == Created(pair, round)
<1>1. IsDuels(c) /\ OnePerPair(c)
  BY CreatedKeeps DEF RowsInv
<1> HIDE DEF c
<1>2. IsDuels(LeadSelection(c, i)) /\ OnePerPair(LeadSelection(c, i))
  BY <1>1, LeadSelectionRows, SameDuelsKeep
<1>3. /\ IsDuels(LeadSelection(LeadSelection(c, i), j))
      /\ OnePerPair(LeadSelection(LeadSelection(c, i), j))
  BY <1>2, LeadSelectionRows, SameDuelsKeep
<1> QED  BY <1>2, <1>3 DEF RowsInv, c

LEMMA RowsInvFinished ==
    ASSUME RowsInv, NEW i, Unfinished(i), NEW w, duels' = Finished(i, w)
    PROVE  RowsInv'
BY FinishedRows, RowsInvSame DEF RowsInv

\* The steps of a handler that create duels, end them or leave them alone.
LEMMA RowsInvContinue ==
    ASSUME RowsInv, NEW t \in Task, Continue(t)
    PROVE  RowsInv'
<1>1. CASE UNCHANGED duels
  BY <1>1 DEF RowsInv
<1>2. CASE BootDuel(t)
  BY <1>2, RowsInvLed DEF BootDuel
<1>3. CASE SemiA(t) \/ Final(t)
  BY <1>3, RowsInvCreated DEF SemiA, Final, CreateFirst, CreateDuel
<1>4. CASE SemiB(t) \/ Third(t)
  BY <1>4, RowsInvLed DEF SemiB, Third, CreateSecond
<1>5. CASE Forfeit(t)
  BY <1>1, <1>5, RowsInvFinished DEF Forfeit
<1>6. CASE WalkWrite(t)
  BY <1>1, <1>6, RowsInvFinished DEF WalkWrite
<1>7. CASE \/ JoinMark(t) \/ SeedBots(t) \/ BootRead(t) \/ CreateFails(t)
           \/ LeaveMark(t) \/ DropMark(t) \/ BracketMark(t) \/ BracketFind(t)
           \/ Close(t) \/ Unseat(t) \/ UnseatEnds(t) \/ WalkFind(t)
           \/ Rematch(t) \/ PairFinals(t) \/ RankBracket(t) \/ AwaitRound(t) \/ ArmAbsent(t)
  BY <1>1, <1>7 DEF JoinMark, SeedBots, BootRead, CreateFails, LeaveMark, DropMark, BracketMark,
     BracketFind, Close, Unseat, UnseatEnds, WalkFind, Rematch, PairFinals, RankBracket,
     AwaitRound, ArmAbsent
<1> QED  BY <1>2, <1>3, <1>4, <1>5, <1>6, <1>7 DEF Continue

LEMMA RowsInvStep ==
    ASSUME RowsInv, [Next]_vars
    PROVE  RowsInv'
<1>1. CASE UNCHANGED duels
  BY <1>1 DEF RowsInv
<1>2. ASSUME NEW t \in Task, Request(t) \/ Expire(t) \/ QueryFails(t)
      PROVE  RowsInv'
  BY <1>1, <1>2 DEF Request, Expire, QueryFails, Join, Ready, Leave, Drop, AddBot, GraceExpires,
     WalkoverExpires
<1>3. ASSUME NEW t \in Task, Continue(t)
      PROVE  RowsInv'
  BY <1>3, RowsInvContinue
<1>4. CASE Rest
  BY <1>1, <1>4 DEF Rest, Reserve, RemoveBot
<1>5. CASE Play
  <2>1. ASSUME NEW i \in DOMAIN duels, NEW p \in Human, SelectLead(p, i)
        PROVE  RowsInv'
    BY <2>1, LedRows, RowsInvSame DEF SelectLead, RowsInv
  <2>2. ASSUME NEW i \in DOMAIN duels, NEW t \in Task, NEW w \in Player, DuelEnds(t, i, w)
        PROVE  RowsInv'
    BY <2>2, RowsInvFinished DEF DuelEnds
  <2> QED  BY <1>5, <2>1, <2>2 DEF Play
<1>6. CASE Restart
  BY <1>6, ReconciledRows, RowsInvSame DEF Restart, RowsInv
<1>7. CASE UNCHANGED vars
  BY <1>1, <1>7 DEF vars
<1> QED  BY <1>2, <1>3, <1>4, <1>5, <1>6, <1>7 DEF Next

LEMMA RowsInvAlways == Spec => []RowsInv
BY RowsInvInit, RowsInvStep, PTL DEF Spec

\* A pair has one open duel of a round at a time, whoever of any number of
\* handlers, room:ready and advanceTournamentOrRematch alike, creates it.
THEOREM OneDuelForAPair == Spec => []OneDuelPerPair
<1>1. RowsInv => OneDuelPerPair
  <2> SUFFICES ASSUME RowsInv PROVE OneDuelPerPair
    OBVIOUS
  <2>1. DOMAIN duels = 1..Len(duels)
    BY DEF RowsInv, IsDuels
  <2>2. ASSUME NEW i \in DOMAIN duels, NEW j \in DOMAIN duels,
               Unfinished(i), Unfinished(j), i # j
        PROVE  <<duels[i].pair, duels[i].round>> # <<duels[j].pair, duels[j].round>>
    <3>1. ~(duels[i].pair = duels[j].pair /\ duels[i].round = duels[j].round)
      BY <2>1, <2>2 DEF RowsInv, OnePerPair, Unfinished
    <3> QED  BY <3>1
  <2> QED  BY <2>2 DEF OneDuelPerPair
<1> QED  BY <1>1, RowsInvAlways, PTL

---------------------------------------------------------------------------
(* Seats are rows too, and keep the players they have. *)

IsSeat(s) == s = [ready |-> s.ready, connected |-> s.connected, rank |-> s.rank]

\* What any query leaves: a row or none for every player, whatever its columns.
IsSeats(ss) == ss = [p \in Player |-> ss[p]] /\ \A p \in Player : IsSeat(ss[p])

LEMMA ColumnsOfASeat ==
    ASSUME NEW s, IsSeat(s), NEW x
    PROVE  /\ IsSeat([s EXCEPT !.ready = x])
           /\ IsSeat([s EXCEPT !.connected = x])
           /\ IsSeat([s EXCEPT !.rank = x]) /\ [s EXCEPT !.rank = x].rank = x
<1>1. [s EXCEPT !.ready = x] = [ready |-> x, connected |-> s.connected, rank |-> s.rank]
  BY SMT DEF IsSeat
<1>2. [s EXCEPT !.connected = x] = [ready |-> s.ready, connected |-> x, rank |-> s.rank]
  BY SMT DEF IsSeat
<1>3. [s EXCEPT !.rank = x] = [ready |-> s.ready, connected |-> s.connected, rank |-> x]
  BY SMT DEF IsSeat
<1> QED  BY <1>1, <1>2, <1>3 DEF IsSeat

LEMMA NewAndNoSeat == IsSeat(NewSeat) /\ IsSeat(NoSeat)
BY DEF IsSeat, NewSeat, NoSeat

LEMMA OneSeatReplaced ==
    ASSUME NEW ss, IsSeats(ss), NEW p, NEW s, p \in Player => IsSeat(s)
    PROVE  IsSeats([ss EXCEPT ![p] = s])
<1> DEFINE b == [ss EXCEPT ![p] = s]
<1>1. /\ b = [q \in Player |-> IF q = p THEN s ELSE ss[q]]
      /\ \A q \in Player : b[q] = IF q = p THEN s ELSE ss[q]
  BY Zenon DEF IsSeats
<1> HIDE DEF b
<1>2. IsSeats(b)
  BY <1>1 DEF IsSeats
<1> QED  BY <1>2 DEF b

LEMMA MarkedSeats ==
    ASSUME IsSeats(seats), NEW p, NEW x
    PROVE  /\ IsSeats(Marked(p, x))
           /\ IsSeats([seats EXCEPT ![p].ready = x])
<1>1. p \in Player => /\ IsSeat([seats[p] EXCEPT !.connected = x])
                      /\ IsSeat([seats[p] EXCEPT !.ready = x])
  BY ColumnsOfASeat DEF IsSeats
<1>2. /\ IsSeats([seats EXCEPT ![p] = [seats[p] EXCEPT !.connected = x]])
      /\ IsSeats([seats EXCEPT ![p] = [seats[p] EXCEPT !.ready = x]])
  BY <1>1, OneSeatReplaced
<1> QED  BY <1>2 DEF Marked

\* Every occupied seat gets other columns in one query.
LEMMA SeatsRewritten ==
    ASSUME IsSeats(seats), NEW b, NEW S, NEW x,
           \/ b = [p \in Player |-> IF p \in S THEN [seats[p] EXCEPT !.ready = x] ELSE seats[p]]
           \/ b = [p \in Player |-> NoSeat]
    PROVE  IsSeats(b)
<1>1. \A p \in Player : IsSeat([seats[p] EXCEPT !.ready = x])
  BY ColumnsOfASeat DEF IsSeats
<1> QED  BY <1>1, NewAndNoSeat DEF IsSeats

LEMMA SeatsRanked ==
    ASSUME IsSeats(seats), NEW w
    PROVE  /\ IsSeats(RankedFirst(w))
           /\ \A p \in Occupied : RankedFirst(w)[p].rank = IF p = w THEN 1 ELSE 2
<1>1. \A p \in Player : \A x : IsSeat([seats[p] EXCEPT !.rank = x])
                              /\ [seats[p] EXCEPT !.rank = x].rank = x
  BY ColumnsOfASeat DEF IsSeats
<1>2. IsSeats(RankedFirst(w))
  BY <1>1 DEF RankedFirst, IsSeats
<1>3. \A p \in Occupied : RankedFirst(w)[p].rank = IF p = w THEN 1 ELSE 2
  BY <1>1 DEF RankedFirst, Occupied
<1> QED  BY <1>2, <1>3

LEMMA BracketRanked ==
    ASSUME IsSeats(seats)
    PROVE  IsSeats([p \in Player |-> IF p \in Occupied
                                       THEN [seats[p] EXCEPT !.rank = BracketRank(p)]
                                       ELSE seats[p]])
<1>1. \A p \in Player : IsSeat([seats[p] EXCEPT !.rank = BracketRank(p)])
  BY ColumnsOfASeat DEF IsSeats
<1> QED  BY <1>1 DEF IsSeats

LEMMA SeatsInvInit ==
    ASSUME Init
    PROVE  IsSeats(seats)
<1>1. \A x : IsSeat([NewSeat EXCEPT !.ready = x])
  BY NewAndNoSeat, ColumnsOfASeat
<1>2. seats = [p \in Player |-> IF p \in Seated THEN [NewSeat EXCEPT !.ready = p \in SetUp]
                                               ELSE NoSeat]
  BY DEF Init
<1> QED  BY <1>1, <1>2, NewAndNoSeat DEF IsSeats

LEMMA SeatsInvContinue ==
    ASSUME IsSeats(seats), NEW t \in Task, Continue(t)
    PROVE  IsSeats(seats')
<1>1. CASE UNCHANGED seats
  BY <1>1
<1>2. CASE JoinMark(t) \/ LeaveMark(t) \/ DropMark(t) \/ BracketMark(t)
  BY <1>2, MarkedSeats DEF JoinMark, LeaveMark, DropMark, BracketMark
<1>3. CASE SeedBots(t)
  BY <1>3, SeatsRewritten DEF SeedBots
<1>4. CASE Rematch(t)
  BY <1>4, SeatsRewritten DEF Rematch
<1>5. CASE Close(t)
  BY <1>1, <1>5, SeatsRanked DEF Close
<1>6. CASE UnseatEnds(t)
  BY <1>6, SeatsRewritten, OneSeatReplaced, NewAndNoSeat DEF UnseatEnds
<1>7. CASE RankBracket(t)
  BY <1>7, BracketRanked DEF RankBracket
<1>8. CASE \/ BootRead(t) \/ BootDuel(t) \/ SemiA(t) \/ SemiB(t) \/ CreateFails(t)
           \/ BracketFind(t) \/ Unseat(t) \/ Forfeit(t) \/ WalkFind(t) \/ WalkWrite(t)
           \/ PairFinals(t) \/ AwaitRound(t) \/ Final(t) \/ Third(t) \/ ArmAbsent(t)
  BY <1>1, <1>8 DEF BootRead, BootDuel, SemiA, SemiB, CreateFails, BracketFind, Unseat, Forfeit,
     WalkFind, WalkWrite, PairFinals, AwaitRound, Final, Third, ArmAbsent, CreateFirst,
     CreateSecond
<1> QED  BY <1>2, <1>3, <1>4, <1>5, <1>6, <1>7, <1>8 DEF Continue

LEMMA SeatsInvStep ==
    ASSUME IsSeats(seats), [Next]_vars
    PROVE  IsSeats(seats')
<1>1. CASE UNCHANGED seats
  BY <1>1
<1>2. ASSUME NEW t \in Task, NEW p \in Human, Join(t, p) \/ Ready(t, p)
      PROVE  IsSeats(seats')
  BY <1>1, <1>2, OneSeatReplaced, NewAndNoSeat, MarkedSeats DEF Join, Ready
<1>3. ASSUME NEW t \in Task, NEW p, AddBot(t, p)
      PROVE  IsSeats(seats')
  BY <1>3, OneSeatReplaced, NewAndNoSeat DEF AddBot
<1>4. ASSUME NEW t \in Task, Expire(t) \/ QueryFails(t) \/ \E p \in Human : Leave(t, p) \/ Drop(t, p)
      PROVE  IsSeats(seats')
  BY <1>1, <1>4 DEF Expire, QueryFails, Leave, Drop, GraceExpires, WalkoverExpires
<1>5. ASSUME NEW t \in Task, Continue(t)
      PROVE  IsSeats(seats')
  BY <1>5, SeatsInvContinue
<1>6. CASE Play
  BY <1>1, <1>6 DEF Play, SelectLead, DuelEnds
<1>7. CASE Restart
  BY <1>1, <1>7, SeatsRewritten DEF Restart
<1>8. CASE UNCHANGED vars
  BY <1>1, <1>8 DEF vars
<1>9. ASSUME NEW p, Reserve(p) \/ RemoveBot(p)
      PROVE  IsSeats(seats')
  BY <1>9, OneSeatReplaced, NewAndNoSeat DEF Reserve, RemoveBot
<1> QED  BY <1>2, <1>3, <1>4, <1>5, <1>6, <1>7, <1>8, <1>9 DEF Next, Request, Rest

---------------------------------------------------------------------------
(* Closing a room of two. *)

LEMMA WinsAreCounted ==
    ASSUME IsDuels(duels), NEW p
    PROVE  Wins(p) \in Nat
<1> DEFINE won == {i \in DOMAIN duels : duels[i].status = "finished" /\ duels[i].winner = p}
<1>1. DOMAIN duels = 1..Len(duels) /\ Len(duels) \in Nat
  BY DEF IsDuels
<1>2. IsFiniteSet(1..Len(duels))
  BY <1>1, FS_Interval
<1>3. won \subseteq 1..Len(duels)
  BY <1>1
<1> HIDE DEF won
<1>4. IsFiniteSet(won)
  BY <1>2, <1>3, FS_Subset
<1>5. Cardinality(won) \in Nat
  BY <1>4, FS_CardinalityType
<1> QED  BY <1>5 DEF Wins, won

\* Of two seats, one and the other.
LEMMA TheOtherSeat ==
    ASSUME Cardinality(Occupied) = 2, NEW s \in Occupied
    PROVE  \E q \in Occupied : q # s /\ Occupied = {s, q}
<1>1. IsFiniteSet(Occupied)
  BY RoomAssumption, FS_Subset DEF RoomAssumption, Occupied
<1>2. IsFiniteSet(Occupied \ {s}) /\ Cardinality(Occupied \ {s}) = 1
  BY <1>1, FS_RemoveElement
<1>3. PICK q : Occupied \ {s} = {q}
  BY <1>2, FS_Singleton
<1> QED  BY <1>3

\* The one ranked first has no fewer duels than the other, whichever seat the
\* query returns first.
LEMMA WinnerWonMore ==
    ASSUME IsDuels(duels), Cardinality(Occupied) = 2, NEW s \in Occupied,
           Winner1v1(s) \in Occupied
    PROVE  \E q \in Occupied : q # Winner1v1(s) /\ Wins(Winner1v1(s)) >= Wins(q)
<1> DEFINE w == Winner1v1(s)
           o == CHOOSE q \in Occupied : q # s
<1>1. PICK q \in Occupied : q # s /\ Occupied = {s, q}
  BY TheOtherSeat
<1>2. o = q
  BY <1>1
<1>3. Wins(s) \in Nat /\ Wins(q) \in Nat
  BY WinsAreCounted
<1>4. w = CASE Wins(s) > Wins(q) -> s
            [] Wins(q) > Wins(s) -> q
            [] OTHER -> Tiebreak(s)
  BY <1>2 DEF Winner1v1
<1>5. w = s \/ w = q
  BY <1>1
<1> HIDE DEF w, o
<1>6. CASE w = s
  <2>1. Wins(s) >= Wins(q)
    BY <1>1, <1>3, <1>4, <1>6
  <2> QED  BY <1>1, <1>6, <2>1 DEF w
<1>7. CASE w = q
  <2>1. Wins(q) >= Wins(s)
    BY <1>1, <1>3, <1>4, <1>7
  <2> QED  BY <1>1, <1>7, <2>1 DEF w
<1> QED  BY <1>5, <1>6, <1>7

LEMMA ClosingRanks ==
    ASSUME RowsInv, IsSeats(seats), NEW t, Close(t),
           Size = 2, status = "in_progress", status' = "finished"
    PROVE  \E p, q \in Occupied : /\ seats'[p].rank = 1 /\ seats'[q].rank = 2
                                  /\ Wins(p) >= Wins(q)
<1>1. PICK s \in Occupied : /\ Cardinality(Occupied) = 2
                            /\ Winner1v1(s) \in Occupied
                            /\ seats' = RankedFirst(Winner1v1(s))
  BY DEF Close
<1> DEFINE w == Winner1v1(s)
<1>2. PICK q \in Occupied : q # w /\ Wins(w) >= Wins(q)
  BY <1>1, WinnerWonMore DEF RowsInv
<1>3. seats'[w].rank = 1 /\ seats'[q].rank = 2
  BY <1>1, <1>2, SeatsRanked
<1> QED  BY <1>1, <1>2, <1>3

\* Nothing but leaveOrCloseRoom finishes a room of two that is being played.
LEMMA OnlyCloseFinishes ==
    ASSUME [Next]_vars, Size = 2, status = "in_progress", status' = "finished"
    PROVE  \E t \in Task : Close(t)
<1>1. ~UNCHANGED status
  OBVIOUS
<1>2. ~UNCHANGED vars
  BY <1>1 DEF vars
<1>3. ~Rest /\ ~Play /\ ~Restart
  BY <1>1 DEF Rest, Reserve, RemoveBot, Play, SelectLead, DuelEnds, Restart
<1>4. ASSUME NEW t \in Task, Request(t) \/ Expire(t) \/ QueryFails(t)
      PROVE  FALSE
  BY <1>1, <1>4 DEF Request, Expire, QueryFails, Join, Ready, Leave, Drop, AddBot, GraceExpires,
     WalkoverExpires
<1>5. ASSUME NEW t \in Task, BootDuel(t) \/ SemiA(t) \/ SemiB(t) \/ Final(t) \/ Third(t)
      PROVE  FALSE
  BY <1>5 DEF BootDuel, SemiA, SemiB, Final, Third, CreateFirst, CreateSecond, CreateDuel,
     StatusOnCreate
<1>6. ASSUME NEW t \in Task, RankBracket(t)
      PROVE  FALSE
  BY <1>6 DEF RankBracket, Bracket
<1>7. ASSUME NEW t \in Task, UnseatEnds(t)
      PROVE  FALSE
  BY <1>1, <1>7 DEF UnseatEnds
<1>8. ASSUME NEW t \in Task,
             \/ JoinMark(t) \/ SeedBots(t) \/ BootRead(t) \/ CreateFails(t)
             \/ LeaveMark(t) \/ DropMark(t) \/ BracketMark(t) \/ BracketFind(t)
             \/ Unseat(t) \/ Forfeit(t) \/ WalkFind(t) \/ WalkWrite(t)
             \/ Rematch(t) \/ PairFinals(t) \/ AwaitRound(t) \/ ArmAbsent(t)
      PROVE  FALSE
  BY <1>1, <1>8 DEF JoinMark, SeedBots, BootRead, CreateFails, LeaveMark, DropMark, BracketMark,
     BracketFind, Unseat, Forfeit, WalkFind, WalkWrite, Rematch, PairFinals, AwaitRound, ArmAbsent
<1> QED  BY <1>2, <1>3, <1>4, <1>5, <1>6, <1>7, <1>8 DEF Next, Continue

\* When a room of two is closed, a player with at least as many wins as the other
\* is ranked first, whatever duels it played and however they ended.
THEOREM ClosedRoomIsRanked == Spec => RankedByWins
<1> DEFINE Inv    == RowsInv /\ IsSeats(seats)
           Closes == Size = 2 /\ status = "in_progress" /\ status' = "finished" =>
                       \E p, q \in Occupied : /\ seats'[p].rank = 1 /\ seats'[q].rank = 2
                                              /\ Wins(p) >= Wins(q)
<1>1. Init => Inv
  BY RowsInvInit, SeatsInvInit
<1>2. Inv /\ [Next]_vars => Inv'
  <2>1. Inv /\ [Next]_vars => RowsInv' /\ IsSeats(seats')
    BY RowsInvStep, SeatsInvStep
  <2>2. IsSeats(seats') => IsSeats(seats)'
    BY DEF IsSeats, IsSeat, Player
  <2> QED  BY <2>1, <2>2
<1>3. Inv /\ [Next]_vars => Closes
  BY OnlyCloseFinishes, ClosingRanks
<1>4. Inv /\ [Next]_vars => [Closes]_vars
  BY <1>3
<1> QED  BY <1>1, <1>2, <1>4, PTL DEF Spec, RankedByWins

---------------------------------------------------------------------------
(* Types, and what they need: pairs that are there and winners that are known *)

\* A handler that will create duels has read their pairs, and one that will arm
\* a window is of a player with a socket.
Creating == {"boot_duel", "semi_a", "semi_b", "final", "third"}
Arming   == {"drop_mark", "bracket_mark", "bracket_find"}
TaskTyped(s) ==
    /\ s \in TaskState
    /\ s.pc \in Creating => s.pairA # {}
    /\ s.pc \in Creating \ {"boot_duel"} => s.pairB # {}
    /\ s.pc \in Arming => s.who \in Human
TasksTyped == task \in [Task -> TaskState] /\ \A t \in Task : TaskTyped(task[t])

DuelsTyped(ds) == ds \in Seq(Duel) /\ \A i \in 1..Len(ds) : ds[i].pair # {}
RowsTyped == DuelsTyped(duels) /\ Len(duels) <= MaxDuels

\* Some duel of the rows was ended without a winner, as only a restart does: the
\* room is closed with it, and no handler will pair its players again.
Lost(d)    == d.status = "finished" /\ d.winner = Nobody
LostIn(ds) == \E i \in 1..Len(ds) : Lost(ds[i])
Going      == {"waiting", "in_progress"}
WinnersKnown ==
    LostIn(duels) => status \notin Going /\ \A t \in Task : task[t].pc \notin Creating

WorldTyped ==
    /\ status \in {"waiting", "in_progress", "finished", "aborted", "gone"}
    /\ sock \in [Human -> {"off", "on", "in"}]
    /\ grace \subseteq Human
    /\ walkover \subseteq Human
    /\ absences \in 0..MaxAbsences
    /\ restarts \in 0..MaxRestarts
SeatsTyped == seats \in [Player -> Seat \cup {NoSeat}]

RoomInv == WorldTyped /\ SeatsTyped /\ RowsTyped /\ TasksTyped /\ WinnersKnown

\* duels.find: of rows there are, one comes first.
LEMMA FirstIsThere ==
    ASSUME NEW S, S # {}, NEW n \in Nat, S \subseteq 1..n
    PROVE  First(S) \in S /\ \A j \in S : First(S) <= j
<1> DEFINE R == OpToRel(<, Nat)
<1>1. IsWellFoundedOn(R, Nat)
  BY NatLessThanWellFounded
<1>2. R = {ss \in Nat \X Nat : ss[1] < ss[2]}
  BY DEF OpToRel
<1> HIDE DEF R
<1>3. S \subseteq Nat
  OBVIOUS
<1>4. PICK i \in S : \A j \in S : ~(<<j, i>> \in R)
  BY <1>1, <1>3, WFMin
<1>5. ASSUME NEW j \in S
      PROVE  i <= j
  <2>1. i \in Nat /\ j \in Nat
    BY <1>3
  <2>2. j < i => <<j, i>> \in R
    BY <1>2, <2>1
  <2>3. ~(j < i)
    BY <1>4, <2>2
  <2> QED  BY <2>1, <2>3
<1>6. \E k \in S : \A j \in S : k <= j
  BY <1>5
<1> QED  BY <1>6 DEF First

\* One row.
RowTyped(d) == d \in Duel /\ d.pair # {}

LEMMA TypedRowIsDuel ==
    ASSUME NEW d \in Duel
    PROVE  IsDuel(d)
BY DEF Duel, IsDuel

LEMMA ColumnTyped ==
    ASSUME NEW d, RowTyped(d)
    PROVE  /\ \A x \in {"pending", "in_progress", "finished"} : RowTyped(WithStatus(d, x))
           /\ \A x \in Player \cup {Nobody} : RowTyped(WithWinner(d, x))
           /\ \A x \in {"none", "lead_selection", "in_progress"} : RowTyped(WithPhase(d, x))
           /\ \A x \in SUBSET Player : RowTyped(WithLeads(d, x)) /\ RowTyped(WithMarked(d, x))
BY DEF RowTyped, Duel, WithStatus, WithWinner, WithPhase, WithLeads, WithMarked

LEMMA EndedTyped ==
    ASSUME NEW d, RowTyped(d), NEW w \in Player
    PROVE  RowTyped(Ended(d, w)) /\ ~Lost(Ended(d, w))
<1> DEFINE e1 == WithStatus(d, "finished")
           e2 == WithWinner(e1, w)
           e3 == WithPhase(e2, "none")
           e4 == WithLeads(e3, {})
           e5 == WithMarked(e4, {})
<1>1. Ended(d, w) = e5
  BY DEF Ended, WithStatus, WithWinner, WithPhase, WithLeads, WithMarked
<1>2. RowTyped(e1)
  BY ColumnTyped
<1> HIDE DEF e1
<1>3. RowTyped(e2)
  BY <1>2, ColumnTyped
<1> HIDE DEF e2
<1>4. RowTyped(e3)
  BY <1>3, ColumnTyped
<1> HIDE DEF e3
<1>5. RowTyped(e4)
  BY <1>4, ColumnTyped
<1> HIDE DEF e4
<1>6. RowTyped(e5)
  BY <1>5, ColumnTyped
<1>7. Ended(d, w).winner = w
  BY TypedRowIsDuel, EndedRow DEF RowTyped
<1>8. w # Nobody
  BY RoomAssumption
<1> QED  BY <1>1, <1>6, <1>7, <1>8 DEF Lost

LEMMA EnteredTyped ==
    ASSUME NEW d, RowTyped(d)
    PROVE  RowTyped(Entered(d)) /\ (Lost(Entered(d)) => Lost(d))
<1>1. Entered(d) = WithPhase(d, "lead_selection")
  BY DEF Entered, WithPhase
<1>2. IsDuel(d)
  BY TypedRowIsDuel DEF RowTyped
<1>3. WithPhase(d, "lead_selection").status = d.status /\ WithPhase(d, "lead_selection").winner = d.winner
  BY <1>2, OneColumn
<1>4. RowTyped(WithPhase(d, "lead_selection"))
  BY ColumnTyped
<1> QED  BY <1>1, <1>3, <1>4 DEF Lost

LEMMA LedTyped ==
    ASSUME NEW d, RowTyped(d), NEW p \in Player
    PROVE  RowTyped(Led(d, p)) /\ (Lost(Led(d, p)) => Lost(d))
<1>0. /\ d.pair \in SUBSET Player /\ d.leads \in SUBSET Player /\ d.marked \in SUBSET Player
      /\ d.status \in {"pending", "in_progress", "finished"}
      /\ d.phase \in {"none", "lead_selection", "in_progress"}
  BY DEF RowTyped, Duel
<1>1. PICK l \in SUBSET Player, m \in SUBSET Player, f \in {"none", "lead_selection", "in_progress"},
           s \in {"pending", "in_progress", "finished"} :
          Led(d, p) = WithStatus(WithPhase(WithMarked(WithLeads(d, l), m), f), s)
  <2> DEFINE new    == {p} \cup ((d.pair \cap Bot) \ d.leads)
             marked == d.marked \cup new
             live   == marked = d.pair
             leads  == d.leads \cup new
             phase  == IF live THEN "in_progress" ELSE d.phase
             after  == IF live /\ d.status = "pending" THEN "in_progress" ELSE d.status
  <2>1. Led(d, p) = [d EXCEPT !.leads = leads, !.marked = marked, !.phase = phase,
                              !.status = after]
    BY DEF Led
  <2>2. /\ leads \in SUBSET Player /\ marked \in SUBSET Player
        /\ phase \in {"none", "lead_selection", "in_progress"}
        /\ after \in {"pending", "in_progress", "finished"}
    BY <1>0
  <2> HIDE DEF new, marked, live, leads, phase, after
  <2>3. Led(d, p) = WithStatus(WithPhase(WithMarked(WithLeads(d, leads), marked), phase), after)
    BY <2>1 DEF WithStatus, WithPhase, WithMarked, WithLeads
  <2> QED  BY <2>2, <2>3
<1> DEFINE e1 == WithLeads(d, l)
           e2 == WithMarked(e1, m)
           e3 == WithPhase(e2, f)
<1>2. RowTyped(e1)
  BY ColumnTyped
<1> HIDE DEF e1
<1>3. RowTyped(e2)
  BY <1>2, ColumnTyped
<1> HIDE DEF e2
<1>4. RowTyped(e3)
  BY <1>3, ColumnTyped
<1>5. Led(d, p) = WithStatus(e3, s)
  BY <1>1 DEF e1, e2
<1> HIDE DEF e3
<1>6. RowTyped(Led(d, p))
  BY <1>4, <1>5, ColumnTyped
<1>7. Lost(Led(d, p)) => Lost(d)
  BY TypedRowIsDuel, LedRow DEF Lost, Kept, RowTyped
<1> QED  BY <1>6, <1>7

\* A restart ends a live duel without a winner.
LEMMA ReconciledTyped ==
    ASSUME NEW d, RowTyped(d)
    PROVE  /\ RowTyped(Reconciled(d))
           /\ Lost(Reconciled(d)) => Lost(d) \/ d.status = "in_progress"
<1> DEFINE s  == IF d.status = "in_progress" THEN "finished" ELSE d.status
           e1 == WithStatus(d, s)
           e2 == WithPhase(e1, "none")
           e3 == WithMarked(e2, {})
<1>1. Reconciled(d) = e3
  BY DEF Reconciled, WithStatus, WithPhase, WithMarked
<1>2. s \in {"pending", "in_progress", "finished"}
  BY DEF RowTyped, Duel
<1> HIDE DEF s
<1>3. RowTyped(e1)
  BY <1>2, ColumnTyped
<1> HIDE DEF e1
<1>4. RowTyped(e2)
  BY <1>3, ColumnTyped
<1> HIDE DEF e2
<1>5. RowTyped(e3)
  BY <1>4, ColumnTyped
<1>6. Lost(Reconciled(d)) => Lost(d) \/ d.status = "in_progress"
  BY TypedRowIsDuel, ReconciledRow DEF Lost, Kept, RowTyped
<1> QED  BY <1>1, <1>5, <1>6

\* The rows.
LEMMA OneRowTyped ==
    ASSUME NEW ds, DuelsTyped(ds), NEW i, NEW e,
           i \in 1..Len(ds) => RowTyped(e) /\ (Lost(e) => Lost(ds[i]))
    PROVE  LET b == [ds EXCEPT ![i] = e]
           IN  DuelsTyped(b) /\ Len(b) = Len(ds) /\ (LostIn(b) => LostIn(ds))
<1> DEFINE b == [ds EXCEPT ![i] = e]
<1>1. ds \in Seq(Duel) /\ Len(ds) \in Nat /\ \A j \in 1..Len(ds) : RowTyped(ds[j])
  BY DEF DuelsTyped, RowTyped
<1>2. /\ b = [j \in 1..Len(ds) |-> IF j = i THEN e ELSE ds[j]]
      /\ \A j \in 1..Len(ds) : b[j] = IF j = i THEN e ELSE ds[j]
  <2>1. ds = [j \in 1..Len(ds) |-> ds[j]]
    BY <1>1
  <2> QED  BY <2>1, Zenon
<1>3. /\ b \in [1..Len(ds) -> Duel]
      /\ \A j \in 1..Len(ds) : b[j] = IF j = i THEN e ELSE ds[j]
  BY <1>1, <1>2 DEF RowTyped
<1> HIDE DEF b
<1>4. b \in Seq(Duel) /\ Len(b) = Len(ds)
  BY <1>1, <1>3
<1>5. DuelsTyped(b) /\ (LostIn(b) => LostIn(ds))
  BY <1>1, <1>3, <1>4 DEF DuelsTyped, RowTyped, LostIn
<1> QED  BY <1>4, <1>5 DEF b

LEMMA RowOfTyped ==
    ASSUME NEW ds, DuelsTyped(ds), NEW i \in 1..Len(ds)
    PROVE  RowTyped(ds[i]) /\ ds[i].pair \subseteq Player /\ ds[i].winner \in Player \cup {Nobody}
<1>1. ds[i] \in Duel /\ ds[i].pair # {}
  BY DEF DuelsTyped
<1> QED  BY <1>1 DEF RowTyped, Duel

LEMMA FinishedTyped ==
    ASSUME RowsTyped, NEW i, NEW w, i \in 1..Len(duels) => w \in Player
    PROVE  DuelsTyped(Finished(i, w)) /\ Len(Finished(i, w)) = Len(duels)
           /\ (LostIn(Finished(i, w)) => LostIn(duels))
<1>1. i \in 1..Len(duels) => /\ RowTyped(Ended(duels[i], w))
                             /\ ~Lost(Ended(duels[i], w))
  BY RowOfTyped, EndedTyped DEF RowsTyped
<1> QED  BY <1>1, OneRowTyped DEF Finished, RowsTyped

LEMMA LeadSelectionTyped ==
    ASSUME NEW ds, DuelsTyped(ds), NEW i
    PROVE  LET b == LeadSelection(ds, i)
           IN  DuelsTyped(b) /\ Len(b) = Len(ds) /\ (LostIn(b) => LostIn(ds))
<1>1. i \in 1..Len(ds) => /\ RowTyped(Entered(ds[i]))
                          /\ Lost(Entered(ds[i])) => Lost(ds[i])
  BY RowOfTyped, EnteredTyped
<1> QED  BY <1>1, OneRowTyped DEF LeadSelection

LEMMA LedRowsTyped ==
    ASSUME RowsTyped, NEW i, NEW p \in Player
    PROVE  LET b == [duels EXCEPT ![i] = Led(@, p)]
           IN  DuelsTyped(b) /\ Len(b) = Len(duels) /\ (LostIn(b) => LostIn(duels))
<1>1. i \in 1..Len(duels) => /\ RowTyped(Led(duels[i], p))
                             /\ Lost(Led(duels[i], p)) => Lost(duels[i])
  BY RowOfTyped, LedTyped DEF RowsTyped
<1> QED  BY <1>1, OneRowTyped DEF RowsTyped

LEMMA ReconciledRowsTyped ==
    ASSUME RowsTyped
    PROVE  LET b == [i \in DOMAIN duels |-> Reconciled(duels[i])]
           IN  /\ DuelsTyped(b) /\ Len(b) = Len(duels)
               /\ LostIn(b) => LostIn(duels) \/ \E i \in DOMAIN duels : duels[i].status = "in_progress"
<1> DEFINE b == [i \in DOMAIN duels |-> Reconciled(duels[i])]
<1>1. Len(duels) \in Nat /\ DOMAIN duels = 1..Len(duels)
  BY DEF RowsTyped, DuelsTyped
<1>2. ASSUME NEW i \in 1..Len(duels)
      PROVE  /\ RowTyped(Reconciled(duels[i]))
             /\ Lost(Reconciled(duels[i])) => Lost(duels[i]) \/ duels[i].status = "in_progress"
  BY RowOfTyped, ReconciledTyped DEF RowsTyped
<1>3. /\ b = [i \in 1..Len(duels) |-> Reconciled(duels[i])]
      /\ \A i \in 1..Len(duels) : b[i] = Reconciled(duels[i])
  BY <1>1
<1>4. b \in [1..Len(duels) -> Duel]
  BY <1>2, <1>3 DEF RowTyped
<1> HIDE DEF b
<1>5. b \in Seq(Duel) /\ Len(b) = Len(duels)
  BY <1>1, <1>4
<1>6. DuelsTyped(b)
  BY <1>2, <1>3, <1>5 DEF DuelsTyped, RowTyped
<1>7. LostIn(b) => LostIn(duels) \/ \E i \in DOMAIN duels : duels[i].status = "in_progress"
  BY <1>1, <1>2, <1>3, <1>5 DEF LostIn
<1> QED  BY <1>5, <1>6, <1>7 DEF b

LEMMA CreatedTyped ==
    ASSUME RowsTyped, NEW pair \in SUBSET Player, pair # {}, NEW round \in Round,
           Creatable(pair, round)
    PROVE  LET b == Created(pair, round)
           IN  /\ DuelsTyped(b) /\ Len(b) <= MaxDuels /\ (LostIn(b) => LostIn(duels))
               /\ CreatedId(pair, round) \in DuelId
<1>0. /\ duels \in Seq(Duel) /\ Len(duels) \in Nat /\ DOMAIN duels = 1..Len(duels)
      /\ MaxDuels \in Nat /\ Len(duels) <= MaxDuels
  BY RoomAssumption DEF RowsTyped, DuelsTyped
<1>1. CASE Existing(pair, round) # {}
  <2>1. Created(pair, round) = duels
    BY <1>1 DEF Created
  <2>2. Existing(pair, round) \subseteq 1..Len(duels)
    BY <1>0 DEF Existing, OfRound
  <2>3. First(Existing(pair, round)) \in 1..Len(duels)
    BY <1>0, <1>1, <2>2, FirstIsThere
  <2>4. CreatedId(pair, round) \in DuelId
    BY <1>0, <1>1, <2>3 DEF CreatedId, DuelId
  <2> QED  BY <1>0, <2>1, <2>4 DEF RowsTyped
<1>2. CASE Existing(pair, round) = {}
  <2> DEFINE d == NewDuel(pair, round)
             b == Append(duels, d)
  <2>1. RowTyped(d) /\ ~Lost(d)
    BY DEF NewDuel, RowTyped, Duel, Lost
  <2>2. Created(pair, round) = b /\ Len(duels) < MaxDuels
    BY <1>2 DEF Created, Creatable
  <2> HIDE DEF d
  <2>3. /\ b \in Seq(Duel) /\ Len(b) = Len(duels) + 1
        /\ b[Len(duels) + 1] = d /\ \A i \in 1..Len(duels) : b[i] = duels[i]
    BY <1>0, <2>1 DEF RowTyped
  <2> HIDE DEF b
  <2>4. \A i \in 1..Len(b) : i \in 1..Len(duels) \/ i = Len(duels) + 1
    BY <1>0, <2>3
  <2>5. DuelsTyped(b) /\ (LostIn(b) => LostIn(duels))
    BY <2>1, <2>3, <2>4 DEF RowsTyped, DuelsTyped, RowTyped, LostIn
  <2>6. CreatedId(pair, round) \in DuelId
    BY <1>0, <1>2, <2>2 DEF CreatedId, DuelId
  <2>7. Len(b) <= MaxDuels
    BY <1>0, <2>2, <2>3
  <2> QED  BY <2>2, <2>5, <2>6, <2>7
<1> QED  BY <1>1, <1>2

\* A duel has an opponent for everybody.
LEMMA OpponentTyped ==
    ASSUME RowsTyped, NEW i \in 1..Len(duels), NEW p
    PROVE  opponentOf(p, i) \in Player
<1>1. duels[i].pair # {} /\ duels[i].pair \subseteq Player
  BY RowOfTyped DEF RowsTyped, RowTyped
<1>2. \E q \in duels[i].pair : q # p \/ duels[i].pair = {p}
  BY <1>1
<1>3. opponentOf(p, i) \in duels[i].pair
  BY <1>2 DEF opponentOf
<1> QED  BY <1>1, <1>3

\* The handlers.  No step makes one of them create duels unless the room goes on.
NoNewPairs ==
    \A t \in Task : task'[t].pc \in Creating => task[t].pc \in Creating \/ status \in Going

LEMMA TaskBecomes ==
    ASSUME TasksTyped, NEW t \in Task, NEW s, TaskTyped(s), Become(t, s),
           s.pc \in Creating => task[t].pc \in Creating \/ status \in Going
    PROVE  TasksTyped' /\ NoNewPairs
<1>1. /\ task' \in [Task -> TaskState]
      /\ \A u \in Task : task'[u] = IF u = t THEN s ELSE task[u]
  BY DEF TasksTyped, TaskTyped, Become
<1> QED  BY <1>1 DEF TasksTyped, TaskTyped, NoNewPairs

LEMMA TasksLeft ==
    ASSUME TasksTyped, UNCHANGED task
    PROVE  TasksTyped' /\ NoNewPairs
BY DEF TasksTyped, TaskTyped, NoNewPairs

LEMMA IdleTyped == TaskTyped(Idle) /\ Idle.pc = "idle"
BY DEF TaskTyped, TaskState, Idle, PC, Creating, Arming, NoDuel

LEMMA TaskEnds ==
    ASSUME TasksTyped, NEW t \in Task, End(t) \/ Finish(t)
    PROVE  TasksTyped' /\ NoNewPairs
<1>1. Become(t, Idle)
  BY DEF End, Finish
<1>2. Idle.pc \notin Creating
  BY IdleTyped DEF Creating
<1> QED  BY <1>1, <1>2, IdleTyped, TaskBecomes

LEMMA TaskGoes ==
    ASSUME TasksTyped, NEW t \in Task, NEW x \in PC \ Creating, x \in Arming => task[t].who \in Human,
           Goto(t, x)
    PROVE  TasksTyped' /\ NoNewPairs
<1> DEFINE s == [task[t] EXCEPT !.pc = x]
<1>1. task[t] \in TaskState
  BY DEF TasksTyped
<1>2. s \in TaskState /\ s.pc = x /\ s.who = task[t].who
  BY <1>1 DEF TaskState
<1>3. Become(t, s)
  BY DEF Goto
<1> HIDE DEF s
<1>4. TaskTyped(s)
  BY <1>2 DEF TaskTyped
<1> QED  BY <1>2, <1>3, <1>4, TaskBecomes

\* A handler that is to create duels goes from one creation to the next.
LEMMA TaskCreatesNext ==
    ASSUME TasksTyped, NEW t \in Task, task[t].pc \in Creating \ {"boot_duel"},
           NEW x \in Creating, NEW i \in DuelId,
           Become(t, [task[t] EXCEPT !.pc = x, !.duel = i])
    PROVE  TasksTyped' /\ NoNewPairs
<1> DEFINE s == [task[t] EXCEPT !.pc = x, !.duel = i]
<1>1. task[t] \in TaskState /\ TaskTyped(task[t])
  BY DEF TasksTyped
<1>2. /\ s \in TaskState /\ s.pc = x /\ s.pairA = task[t].pairA /\ s.pairB = task[t].pairB
      /\ s.who = task[t].who
  BY <1>1 DEF TaskState, Creating, PC
<1>3. x \notin Arming
  BY DEF Creating, Arming
<1> HIDE DEF s
<1>4. TaskTyped(s)
  BY <1>1, <1>2, <1>3 DEF TaskTyped
<1> QED  BY <1>2, <1>4, TaskBecomes DEF s

LEMMA TaskBegins ==
    ASSUME TasksTyped, NEW t \in Task, NEW p \in Player \cup {Nobody},
           NEW kind \in {"join", "ready", "leave", "drop", "bot", "timer", "play"},
           NEW x \in PC \ Creating, x \in Arming => p \in Human, Begin(t, kind, p, x)
    PROVE  TasksTyped' /\ NoNewPairs
<1> DEFINE s == [Idle EXCEPT !.pc = x, !.who = p, !.kind = kind]
<1>1. s \in TaskState /\ s.pc = x /\ s.who = p
  BY DEF TaskState, Idle, NoDuel
<1>2. Become(t, s)
  BY DEF Begin
<1> HIDE DEF s
<1>3. TaskTyped(s)
  BY <1>1 DEF TaskTyped
<1> QED  BY <1>1, <1>2, <1>3, TaskBecomes

\* Of the duels of a player, or the rounds of a room, each is a row.
LEMMA FoundTyped ==
    ASSUME RowsTyped, NEW S, S \subseteq DOMAIN duels
    PROVE  /\ S \subseteq DuelId
           /\ S # {} => First(S) \in DuelId
<1>0. Len(duels) \in Nat /\ MaxDuels \in Nat /\ Len(duels) <= MaxDuels /\ DOMAIN duels = 1..Len(duels)
  BY RoomAssumption DEF RowsTyped, DuelsTyped
<1>1. S \subseteq 1..Len(duels) /\ 1..Len(duels) \subseteq DuelId
  BY <1>0 DEF DuelId
<1> QED  BY <1>0, <1>1, FirstIsThere

LEMMA TasksOfPlay ==
    ASSUME RoomInv,
           \/ \E t \in Task : Request(t) \/ Expire(t) \/ QueryFails(t)
           \/ Rest \/ Play \/ Restart
    PROVE  TasksTyped' /\ NoNewPairs
<1>0. TasksTyped /\ RowsTyped /\ Human \subseteq Player /\ Bot \subseteq Player
  BY DEF RoomInv, Player
<1>p. /\ {"join_mark", "boot_read", "leave_mark", "close", "seed_bots", "walk_find", "advance"}
           \subseteq PC \ (Creating \cup Arming)
      /\ {"bracket_mark", "drop_mark"} \subseteq PC \ Creating
  BY DEF PC, Creating, Arming
<1>1. ASSUME NEW t \in Task, NEW p \in Human, Join(t, p) \/ Ready(t, p) \/ Leave(t, p)
      PROVE  TasksTyped' /\ NoNewPairs
  <2>1. \/ Begin(t, "join", p, "join_mark") \/ Begin(t, "ready", Nobody, "boot_read")
        \/ Begin(t, "leave", p, "leave_mark") \/ Begin(t, "leave", p, "close")
    BY <1>1 DEF Join, Ready, Leave
  <2> QED  BY <1>0, <1>p, <2>1, TaskBegins
<1>2. ASSUME NEW t \in Task, NEW p \in Human, Drop(t, p)
      PROVE  TasksTyped' /\ NoNewPairs
  <2>1. ASSUME NEW i \in ActiveDuels(p),
               Become(t, [Idle EXCEPT !.pc = "forfeit", !.who = p, !.kind = "drop", !.duel = i])
        PROVE  TasksTyped' /\ NoNewPairs
    <3> DEFINE s == [Idle EXCEPT !.pc = "forfeit", !.who = p, !.kind = "drop", !.duel = i]
    <3>1. i \in DuelId
      BY <1>0, FoundTyped DEF ActiveDuels
    <3>2. p \in Player \cup {Nobody}
      BY <1>0
    <3>3. s \in TaskState /\ s.pc = "forfeit"
      BY <3>1, <3>2 DEF TaskState, Idle, NoDuel, PC
    <3>4. Become(t, s)
      BY <2>1
    <3> HIDE DEF s
    <3>5. TaskTyped(s) /\ s.pc \notin Creating
      BY <3>3 DEF TaskTyped, Creating, Arming
    <3> QED  BY <1>0, <3>4, <3>5, TaskBecomes
  <2>2. CASE Begin(t, "drop", p, "bracket_mark") \/ Begin(t, "drop", p, "drop_mark")
    BY <1>0, <1>p, <2>2, TaskBegins
  <2> QED  BY <1>0, <1>2, <2>1, <2>2, TasksLeft DEF Drop
<1>3. ASSUME NEW t \in Task, NEW b \in Bot, AddBot(t, b)
      PROVE  TasksTyped' /\ NoNewPairs
  <2>1. Begin(t, "bot", b, "seed_bots")
    BY <1>3 DEF AddBot
  <2> QED  BY <1>0, <1>p, <2>1, TaskBegins
<1>4. ASSUME NEW t \in Task, Expire(t)
      PROVE  TasksTyped' /\ NoNewPairs
  <2>1. \E p \in Human : Begin(t, "timer", p, "close") \/ Begin(t, "timer", p, "walk_find")
    BY <1>4 DEF Expire, GraceExpires, WalkoverExpires
  <2> QED  BY <1>0, <1>p, <2>1, TaskBegins
<1>5. ASSUME NEW t \in Task, QueryFails(t)
      PROVE  TasksTyped' /\ NoNewPairs
  BY <1>0, <1>5, TaskEnds DEF QueryFails
<1>6. CASE Rest
  BY <1>0, <1>6, TasksLeft DEF Rest, Reserve, RemoveBot
<1>7. CASE Play
  <2>1. UNCHANGED task \/ \E t \in Task : Begin(t, "play", Nobody, "advance")
    BY <1>7 DEF Play, SelectLead, DuelEnds
  <2> QED  BY <1>0, <1>p, <2>1, TasksLeft, TaskBegins
<1>8. CASE Restart
  <2>1. task' \in [Task -> TaskState] /\ \A t \in Task : task'[t] = Idle
    BY <1>8, IdleTyped DEF Restart, TaskTyped
  <2>2. Idle.pc \notin Creating
    BY IdleTyped DEF Creating
  <2> QED  BY <2>1, <2>2, IdleTyped DEF TasksTyped, TaskTyped, NoNewPairs
<1> QED  BY <1>1, <1>2, <1>3, <1>4, <1>5, <1>6, <1>7, <1>8 DEF Request

\* A handler with the two pairs it has read.
LEMMA TaskPairs ==
    ASSUME TasksTyped, NEW t \in Task, NEW x \in Creating, NEW a \in SUBSET Player,
           NEW b \in SUBSET Player, a # {}, b # {}, status \in Going,
           Become(t, [task[t] EXCEPT !.pc = x, !.pairA = a, !.pairB = b])
    PROVE  TasksTyped' /\ NoNewPairs
<1> DEFINE s == [task[t] EXCEPT !.pc = x, !.pairA = a, !.pairB = b]
<1>1. task[t] \in TaskState /\ x \in PC /\ x \notin Arming
  BY DEF TasksTyped, Creating, Arming, PC
<1>2. s \in TaskState /\ s.pc = x /\ s.pairA = a /\ s.pairB = b
  BY <1>1 DEF TaskState
<1> HIDE DEF s
<1>3. TaskTyped(s)
  BY <1>1, <1>2 DEF TaskTyped
<1> QED  BY <1>2, <1>3, TaskBecomes DEF s

LEMMA TaskPair ==
    ASSUME TasksTyped, NEW t \in Task, NEW a \in SUBSET Player, a # {}, status \in Going,
           Become(t, [task[t] EXCEPT !.pc = "boot_duel", !.pairA = a])
    PROVE  TasksTyped' /\ NoNewPairs
<1> DEFINE s == [task[t] EXCEPT !.pc = "boot_duel", !.pairA = a]
<1>1. task[t] \in TaskState
  BY DEF TasksTyped
<1>2. s \in TaskState /\ s.pc = "boot_duel" /\ s.pairA = a
  BY <1>1 DEF TaskState, PC
<1> HIDE DEF s
<1>3. TaskTyped(s)
  BY <1>2 DEF TaskTyped, Arming
<1> QED  BY <1>2, <1>3, TaskBecomes DEF s

\* Two players drawn out of four leave somebody.
LEMMA TheOthersAreThere ==
    ASSUME Cardinality(Occupied) = 4, NEW pair \in SUBSET Occupied, Cardinality(pair) = 2
    PROVE  pair # {} /\ Occupied \ pair # {}
<1>1. Occupied # {} => pair # {}
  BY FS_EmptySet
<1>2. Occupied \ pair = {} => pair = Occupied
  OBVIOUS
<1>3. pair # Occupied
  OBVIOUS
<1>4. Occupied # {}
  BY FS_EmptySet
<1> QED  BY <1>1, <1>2, <1>3, <1>4

\* Two semifinals decided have two sides.
LEMMA SemisHaveSides ==
    ASSUME RoomInv, Bracket, SemisDone
    PROVE  /\ {duels[i].winner : i \in Semis} \in SUBSET Player
           /\ {LoserOf(i) : i \in Semis} \in SUBSET Player
           /\ {duels[i].winner : i \in Semis} # {}
           /\ {LoserOf(i) : i \in Semis} # {}
<1>1. RowsTyped /\ ~LostIn(duels)
  BY DEF RoomInv, WinnersKnown, Bracket, Going
<1>2. Semis \subseteq 1..Len(duels) /\ Semis # {}
  <2>1. DOMAIN duels = 1..Len(duels)
    BY <1>1 DEF RowsTyped, DuelsTyped
  <2>2. Cardinality(Semis) = 2
    BY DEF SemisDone
  <2>3. Semis # {}
    BY <2>2, FS_EmptySet
  <2> QED  BY <2>1, <2>3 DEF Semis, OfRound
<1>3. ASSUME NEW i \in Semis
      PROVE  duels[i].winner \in Player /\ LoserOf(i) \in Player
  <2>1. duels[i].status = "finished"
    BY DEF SemisDone, Unfinished
  <2>2. duels[i].winner # Nobody
    BY <1>1, <1>2, <2>1 DEF LostIn, Lost
  <2>3. duels[i].winner \in Player
    BY <1>1, <1>2, <2>2, RowOfTyped DEF RowsTyped
  <2> QED  BY <1>1, <1>2, <2>3, OpponentTyped DEF LoserOf
<1> QED  BY <1>2, <1>3

LEMMA TasksOfContinue ==
    ASSUME RoomInv, NEW t \in Task, Continue(t)
    PROVE  TasksTyped' /\ NoNewPairs
<1>0. TasksTyped /\ RowsTyped /\ TaskTyped(task[t]) /\ task[t] \in TaskState
  BY DEF RoomInv, TasksTyped
<1>p. {"walk_find", "bracket_find", "unseat", "unseat_keep", "unseat_room", "advance", "seed_bots",
       "arm", "walk_write"} \subseteq PC \ Creating
  BY DEF PC, Creating
<1>a. {"walk_find", "unseat", "unseat_keep", "unseat_room", "advance", "seed_bots",
       "arm", "walk_write"} \cap Arming = {}
  BY DEF Arming
<1>1. CASE \/ JoinMark(t) \/ SeedBots(t) \/ BootDuel(t) \/ SemiB(t) \/ CreateFails(t)
           \/ DropMark(t) \/ BracketFind(t) \/ UnseatEnds(t) \/ RankBracket(t) \/ AwaitRound(t)
           \/ ArmAbsent(t)
  <2>1. End(t) \/ Finish(t)
    BY <1>1 DEF JoinMark, SeedBots, BootDuel, SemiB, CreateFails, DropMark, BracketFind,
       UnseatEnds, RankBracket, AwaitRound, ArmAbsent
  <2> QED  BY <1>0, <2>1, TaskEnds
<1>2. CASE \/ LeaveMark(t) \/ Close(t) \/ Unseat(t) \/ Forfeit(t) \/ WalkWrite(t) \/ Rematch(t)
           \/ Third(t)
  <2>1. \/ End(t) \/ Finish(t)
        \/ \E x \in {"walk_find", "unseat", "unseat_keep", "unseat_room", "advance", "seed_bots", "arm"} :
             Goto(t, x)
    BY <1>2 DEF LeaveMark, Close, Unseat, Forfeit, WalkWrite, Rematch, Third
  <2> QED  BY <1>0, <1>p, <1>a, <2>1, TaskEnds, TaskGoes
<1>3. CASE BracketMark(t)
  <2>1. task[t].who \in Human
    BY <1>0, <1>3 DEF BracketMark, At, TaskTyped, Arming
  <2>2. Goto(t, "bracket_find")
    BY <1>3 DEF BracketMark
  <2> QED  BY <1>0, <1>p, <2>1, <2>2, TaskGoes
<1>4. CASE WalkFind(t)
  <2> DEFINE S == PendingDuels(task[t].who)
  <2>1. CASE Finish(t)
    BY <1>0, <2>1, TaskEnds
  <2>2. CASE S # {} /\ Become(t, [task[t] EXCEPT !.pc = "walk_write", !.duel = First(S)])
    <3>1. S \subseteq DOMAIN duels
      BY DEF PendingDuels
    <3>2. First(S) \in DuelId
      BY <1>0, <2>2, <3>1, FoundTyped
    <3> DEFINE i == First(S)
               s == [task[t] EXCEPT !.pc = "walk_write", !.duel = i]
    <3>3. Become(t, s)
      BY <2>2
    <3> HIDE DEF i, S
    <3>4. s \in TaskState /\ s.pc = "walk_write"
      BY <1>0, <3>2 DEF TaskState, PC, i
    <3> HIDE DEF s
    <3>5. TaskTyped(s) /\ s.pc \notin Creating
      BY <3>4 DEF TaskTyped, Creating, Arming
    <3> QED  BY <1>0, <3>3, <3>5, TaskBecomes
  <2> QED  BY <1>4, <2>1, <2>2 DEF WalkFind
<1>5. CASE BootRead(t)
  <2>0. Occupied \in SUBSET Player
    BY DEF Occupied
  <2>1. CASE End(t)
    BY <1>0, <2>1, TaskEnds
  <2>2. CASE Bootable /\ Size = 2 /\ Become(t, [task[t] EXCEPT !.pc = "boot_duel", !.pairA = Occupied])
    <3>1. status \in Going /\ Cardinality(Occupied) = 2
      BY <2>2 DEF Bootable, AllReady, Going
    <3>2. Occupied # {}
      BY <3>1, FS_EmptySet
    <3> QED  BY <1>0, <2>0, <2>2, <3>1, <3>2, TaskPair
  <2>3. ASSUME Bootable, Size = 4, NEW pair \in SUBSET Occupied, Cardinality(pair) = 2,
               Become(t, [task[t] EXCEPT !.pc = "semi_a", !.pairA = pair, !.pairB = Occupied \ pair])
        PROVE  TasksTyped' /\ NoNewPairs
    <3>1. status \in Going /\ Cardinality(Occupied) = 4
      BY <2>3 DEF Bootable, AllReady, Going
    <3>2. pair # {} /\ Occupied \ pair # {}
      BY <2>3, <3>1, TheOthersAreThere
    <3>3. pair \in SUBSET Player /\ Occupied \ pair \in SUBSET Player /\ "semi_a" \in Creating
      BY <2>0 DEF Creating
    <3> QED  BY <1>0, <2>3, <3>1, <3>2, <3>3, TaskPairs
  <2> QED  BY <1>5, <2>1, <2>2, <2>3 DEF BootRead
<1>6. CASE PairFinals(t)
  <2> DEFINE a == {duels[i].winner : i \in Semis}
             b == {LoserOf(i) : i \in Semis}
  <2>1. Become(t, [task[t] EXCEPT !.pc = "final", !.pairA = a, !.pairB = b])
    BY <1>6 DEF PairFinals
  <2>2. Bracket /\ SemisDone
    BY <1>6 DEF PairFinals
  <2>3. a \in SUBSET Player /\ b \in SUBSET Player /\ a # {} /\ b # {}
    BY <2>2, SemisHaveSides
  <2>4. status \in Going /\ "final" \in Creating
    BY <2>2 DEF Bracket, Going, Creating
  <2> HIDE DEF a, b
  <2> QED  BY <1>0, <2>1, <2>3, <2>4, TaskPairs
<1>7. ASSUME NEW round \in Round, NEW next \in {"semi_b", "third"}, CreateFirst(t, round, next),
             task[t].pc \in {"semi_a", "final"}
      PROVE  TasksTyped' /\ NoNewPairs
  <2>1. task[t].pairA \in SUBSET Player /\ task[t].pairA # {}
    BY <1>0, <1>7 DEF TaskTyped, TaskState, Creating
  <2>2. Creatable(task[t].pairA, round)
    BY <1>7 DEF CreateFirst, CreateDuel
  <2>3. CreatedId(task[t].pairA, round) \in DuelId
    BY <1>0, <2>1, <2>2, CreatedTyped
  <2>4. Become(t, [task[t] EXCEPT !.pc = next, !.duel = CreatedId(task[t].pairA, round)])
    BY <1>7 DEF CreateFirst
  <2>5. next \in Creating /\ task[t].pc \in Creating \ {"boot_duel"}
    BY <1>7 DEF Creating
  <2> QED  BY <1>0, <2>3, <2>4, <2>5, TaskCreatesNext
<1>8. CASE SemiA(t) \/ Final(t)
  <2>1. {"semifinal", "final"} \subseteq Round
    BY DEF Round
  <2> QED  BY <1>7, <1>8, <2>1 DEF SemiA, Final, At
<1> QED  BY <1>1, <1>2, <1>3, <1>4, <1>5, <1>6, <1>8 DEF Continue

\* The seats.  A query writes a column of the seats it finds and of no others.
LEMMA SeatColumnsTyped ==
    ASSUME NEW s \in Seat
    PROVE  /\ \A x \in BOOLEAN : [s EXCEPT !.ready = x] \in Seat
           /\ \A x \in BOOLEAN : [s EXCEPT !.connected = x] \in Seat
           /\ \A x \in 0..4 : [s EXCEPT !.rank = x] \in Seat
BY SMT DEF Seat

LEMMA NewSeatTyped == NewSeat \in Seat
BY DEF NewSeat, Seat

LEMMA SeatTyped ==
    ASSUME SeatsTyped
    PROVE  /\ \A p \in Player : seats[p] \in Seat \cup {NoSeat}
           /\ \A p \in Occupied : p \in Player /\ seats[p] \in Seat
           /\ seats = [p \in Player |-> seats[p]]
BY DEF SeatsTyped, Occupied

LEMMA SeatReplacedTyped ==
    ASSUME SeatsTyped, NEW p, NEW s \in Seat \cup {NoSeat}, seats' = [seats EXCEPT ![p] = s]
    PROVE  SeatsTyped'
BY DEF SeatsTyped

LEMMA SeatMarkedTyped ==
    ASSUME SeatsTyped, NEW p \in Occupied, NEW x \in BOOLEAN,
           \/ seats' = [seats EXCEPT ![p].connected = x]
           \/ seats' = [seats EXCEPT ![p].ready = x]
    PROVE  SeatsTyped'
<1>1. [seats[p] EXCEPT !.connected = x] \in Seat /\ [seats[p] EXCEPT !.ready = x] \in Seat
  BY SeatTyped, SeatColumnsTyped
<1> QED  BY <1>1, SeatReplacedTyped

LEMMA MarkedTyped ==
    ASSUME SeatsTyped, NEW p, NEW x \in BOOLEAN, seats' = Marked(p, x)
    PROVE  SeatsTyped'
<1>1. CASE p \in Occupied /\ seats' = [seats EXCEPT ![p].connected = x]
  BY <1>1, SeatMarkedTyped
<1>2. CASE UNCHANGED seats
  BY <1>2 DEF SeatsTyped
<1> QED  BY <1>1, <1>2 DEF Marked

LEMMA ReadyWrittenTyped ==
    ASSUME SeatsTyped, NEW S, S \subseteq Occupied, NEW x \in BOOLEAN,
           seats' = [p \in Player |-> IF p \in S THEN [seats[p] EXCEPT !.ready = x] ELSE seats[p]]
    PROVE  SeatsTyped'
<1>1. \A p \in S : [seats[p] EXCEPT !.ready = x] \in Seat
  BY SeatTyped, SeatColumnsTyped
<1>2. \A p \in Player : seats[p] \in Seat \cup {NoSeat}
  BY SeatTyped
<1> QED  BY <1>1, <1>2 DEF SeatsTyped

LEMMA RankedFirstTyped ==
    ASSUME SeatsTyped, NEW w, seats' = RankedFirst(w)
    PROVE  SeatsTyped'
<1>1. ASSUME NEW p \in Occupied
      PROVE  [seats[p] EXCEPT !.rank = IF p = w THEN 1 ELSE 2] \in Seat
  <2> DEFINE n == IF p = w THEN 1 ELSE 2
  <2>1. n \in 0..4
    OBVIOUS
  <2> HIDE DEF n
  <2>2. [seats[p] EXCEPT !.rank = n] \in Seat
    BY <2>1, SeatTyped, SeatColumnsTyped
  <2> QED  BY <2>2 DEF n
<1>2. \A p \in Player : seats[p] \in Seat \cup {NoSeat}
  BY SeatTyped
<1> QED  BY <1>1, <1>2 DEF SeatsTyped, RankedFirst

LEMMA BracketRankTyped ==
    ASSUME SeatsTyped, NEW p \in Occupied
    PROVE  BracketRank(p) \in 0..4
<1> DEFINE m  == seats[p].rank
           w1 == duels[TheFinal].winner
           l1 == LoserOf(TheFinal)
           w2 == duels[TheThird].winner
           l2 == LoserOf(TheThird)
<1>1. BracketRank(p) = CASE p = w1 -> 1 [] p = l1 -> 2 [] p = w2 -> 3 [] p = l2 -> 4 [] OTHER -> m
  BY DEF BracketRank
<1>2. m \in 0..4
  BY SeatTyped DEF Seat
<1> HIDE DEF m, w1, l1, w2, l2
<1>3. BracketRank(p) \in {1, 2, 3, 4, m}
  BY <1>1
<1> QED  BY <1>2, <1>3

LEMMA BracketRankedTyped ==
    ASSUME SeatsTyped,
           seats' = [p \in Player |->
                       IF p \in Occupied THEN [seats[p] EXCEPT !.rank = BracketRank(p)] ELSE seats[p]]
    PROVE  SeatsTyped'
<1>1. \A p \in Occupied : [seats[p] EXCEPT !.rank = BracketRank(p)] \in Seat
  BY SeatTyped, SeatColumnsTyped, BracketRankTyped
<1>2. \A p \in Player : seats[p] \in Seat \cup {NoSeat}
  BY SeatTyped
<1> QED  BY <1>1, <1>2 DEF SeatsTyped

LEMMA SeatsGoneTyped ==
    ASSUME seats' = [p \in Player |-> NoSeat]
    PROVE  SeatsTyped'
BY DEF SeatsTyped

LEMMA SeatsOfContinue ==
    ASSUME SeatsTyped, NEW t \in Task, Continue(t)
    PROVE  SeatsTyped'
<1>1. CASE UNCHANGED seats
  BY <1>1 DEF SeatsTyped
<1>2. CASE JoinMark(t) \/ LeaveMark(t) \/ DropMark(t) \/ BracketMark(t)
  BY <1>2, MarkedTyped DEF JoinMark, LeaveMark, DropMark, BracketMark
<1>3. CASE SeedBots(t)
  <2>1. TRUE \in BOOLEAN
    OBVIOUS
  <2> DEFINE S == Occupied \cap (IF task[t].kind = "bot" THEN {task[t].who} ELSE Bot)
  <2>2. /\ S \subseteq Occupied
        /\ seats' = [p \in Player |-> IF p \in S THEN [seats[p] EXCEPT !.ready = TRUE] ELSE seats[p]]
    BY <1>3 DEF SeedBots
  <2> HIDE DEF S
  <2>3. \A p \in S : [seats[p] EXCEPT !.ready = TRUE] \in Seat
    BY <2>2, SeatTyped, SeatColumnsTyped
  <2>4. \A p \in Player : seats[p] \in Seat \cup {NoSeat}
    BY SeatTyped
  <2> QED  BY <2>2, <2>3, <2>4 DEF SeatsTyped
<1>4. CASE Rematch(t)
  <2>1. seats' = [p \in Player |-> IF p \in Occupied THEN [seats[p] EXCEPT !.ready = FALSE] ELSE seats[p]]
    BY <1>4 DEF Rematch
  <2>3. \A p \in Occupied : [seats[p] EXCEPT !.ready = FALSE] \in Seat
    BY SeatTyped, SeatColumnsTyped
  <2>4. \A p \in Player : seats[p] \in Seat \cup {NoSeat}
    BY SeatTyped
  <2> QED  BY <2>1, <2>3, <2>4 DEF SeatsTyped
<1>5. CASE Close(t)
  BY <1>1, <1>5, RankedFirstTyped DEF Close
<1>6. CASE UnseatEnds(t)
  <2>1. seats' = [p \in Player |-> NoSeat] \/ seats' = [seats EXCEPT ![task[t].who] = NoSeat]
    BY <1>6 DEF UnseatEnds
  <2> QED  BY <2>1, SeatsGoneTyped, SeatReplacedTyped
<1>7. CASE RankBracket(t)
  BY <1>7, BracketRankedTyped DEF RankBracket
<1>8. CASE \/ BootRead(t) \/ BootDuel(t) \/ SemiA(t) \/ SemiB(t) \/ CreateFails(t)
           \/ BracketFind(t) \/ Unseat(t) \/ Forfeit(t) \/ WalkFind(t) \/ WalkWrite(t)
           \/ PairFinals(t) \/ AwaitRound(t) \/ Final(t) \/ Third(t) \/ ArmAbsent(t)
  BY <1>1, <1>8 DEF BootRead, BootDuel, SemiA, SemiB, CreateFails, BracketFind, Unseat, Forfeit,
     WalkFind, WalkWrite, PairFinals, AwaitRound, Final, Third, ArmAbsent, CreateFirst,
     CreateSecond
<1> QED  BY <1>2, <1>3, <1>4, <1>5, <1>6, <1>7, <1>8 DEF Continue

LEMMA SeatsTypedStep ==
    ASSUME SeatsTyped, [Next]_vars
    PROVE  SeatsTyped'
<1>1. CASE UNCHANGED seats
  BY <1>1 DEF SeatsTyped
<1>2. ASSUME NEW t \in Task, NEW p \in Human, Join(t, p)
      PROVE  SeatsTyped'
  <2>1. UNCHANGED seats \/ seats' = [seats EXCEPT ![p] = NewSeat]
    BY <1>2 DEF Join
  <2> QED  BY <1>1, <2>1, SeatReplacedTyped, NewSeatTyped
<1>3. ASSUME NEW t \in Task, NEW p \in Human, Ready(t, p)
      PROVE  SeatsTyped'
  <2>1. p \in Occupied /\ seats' = [seats EXCEPT ![p].ready = TRUE]
    BY <1>3 DEF Ready
  <2>2. [seats[p] EXCEPT !.ready = TRUE] \in Seat
    BY <2>1, SeatTyped, SeatColumnsTyped
  <2> QED  BY <2>1, <2>2, SeatReplacedTyped
<1>4. ASSUME NEW p, \/ \E t \in Task : AddBot(t, p)
                    \/ Reserve(p) \/ RemoveBot(p)
      PROVE  SeatsTyped'
  <2>1. \E s \in {NewSeat, NoSeat} : seats' = [seats EXCEPT ![p] = s]
    BY <1>4 DEF AddBot, Reserve, RemoveBot
  <2> QED  BY <2>1, SeatReplacedTyped, NewSeatTyped
<1>5. ASSUME NEW t \in Task, Expire(t) \/ QueryFails(t) \/ \E p \in Human : Leave(t, p) \/ Drop(t, p)
      PROVE  SeatsTyped'
  BY <1>1, <1>5 DEF Expire, QueryFails, Leave, Drop, GraceExpires, WalkoverExpires
<1>6. ASSUME NEW t \in Task, Continue(t)
      PROVE  SeatsTyped'
  BY <1>6, SeatsOfContinue
<1>7. CASE Play
  BY <1>1, <1>7 DEF Play, SelectLead, DuelEnds
<1>8. CASE Restart
  BY <1>1, <1>8, SeatsGoneTyped DEF Restart
<1>9. CASE UNCHANGED vars
  BY <1>1, <1>9 DEF vars
<1> QED  BY <1>2, <1>3, <1>4, <1>5, <1>6, <1>7, <1>8, <1>9 DEF Next, Request, Rest

\* The duels.  Only a restart ends one without a winner.
LEMMA RowsOfCreation ==
    ASSUME RowsTyped, NEW pair \in SUBSET Player, pair # {}, NEW round \in Round, NEW i, NEW j,
           Creatable(pair, round),
           \/ duels' = Created(pair, round)
           \/ duels' = LeadSelection(Created(pair, round), i)
           \/ duels' = LeadSelection(LeadSelection(Created(pair, round), i), j)
    PROVE  RowsTyped' /\ (LostIn(duels') => LostIn(duels))
<1> DEFINE a == Created(pair, round)
           b == LeadSelection(a, i)
           c == LeadSelection(b, j)
<1>1. DuelsTyped(a) /\ Len(a) <= MaxDuels /\ (LostIn(a) => LostIn(duels))
  BY CreatedTyped
<1> HIDE DEF a
<1>2. DuelsTyped(b) /\ Len(b) = Len(a) /\ (LostIn(b) => LostIn(a))
  BY <1>1, LeadSelectionTyped
<1> HIDE DEF b
<1>3. DuelsTyped(c) /\ Len(c) = Len(b) /\ (LostIn(c) => LostIn(b))
  BY <1>2, LeadSelectionTyped
<1> HIDE DEF c
<1>4. duels' = a \/ duels' = b \/ duels' = c
  BY DEF a, b, c
<1> QED  BY <1>1, <1>2, <1>3, <1>4 DEF RowsTyped

LEMMA RowsFinished ==
    ASSUME RowsTyped, NEW i, NEW w, i \in 1..Len(duels) => w \in Player, duels' = Finished(i, w)
    PROVE  RowsTyped' /\ (LostIn(duels') => LostIn(duels))
BY FinishedTyped DEF RowsTyped

LEMMA RowsLeft ==
    ASSUME RowsTyped, UNCHANGED duels
    PROVE  RowsTyped' /\ (LostIn(duels') => LostIn(duels))
BY DEF RowsTyped, DuelsTyped

LEMMA RowsOfContinue ==
    ASSUME RowsTyped, TasksTyped, NEW t \in Task, Continue(t)
    PROVE  RowsTyped' /\ (LostIn(duels') => LostIn(duels))
<1>0. TaskTyped(task[t]) /\ Round = {"unica", "semifinal", "final", "tercer_puesto"}
  BY DEF TasksTyped, Round
<1>a. task[t].pc \in Creating => task[t].pairA \in SUBSET Player /\ task[t].pairA # {}
  BY <1>0 DEF TaskTyped, TaskState
<1>b. task[t].pc \in {"semi_b", "third"} => task[t].pairB \in SUBSET Player /\ task[t].pairB # {}
  BY <1>0 DEF TaskTyped, TaskState, Creating
<1>1. CASE BootDuel(t)
  <2> DEFINE pair == task[t].pairA
             i == CreatedId(pair, "unica")
  <2>1. pair \in SUBSET Player /\ pair # {}
    BY <1>1, <1>a DEF BootDuel, At, Creating
  <2>2. Creatable(pair, "unica") /\ duels' = LeadSelection(Created(pair, "unica"), i)
    BY <1>1 DEF BootDuel
  <2> HIDE DEF pair, i
  <2> QED  BY <1>0, <2>1, <2>2, RowsOfCreation
<1>2. CASE SemiA(t) \/ Final(t)
  <2> DEFINE pair == task[t].pairA
  <2>1. pair \in SUBSET Player /\ pair # {}
    BY <1>2, <1>a DEF SemiA, Final, At, Creating
  <2>2. PICK round \in {"semifinal", "final"} :
          Creatable(pair, round) /\ duels' = Created(pair, round)
    BY <1>2 DEF SemiA, Final, CreateFirst, CreateDuel
  <2> HIDE DEF pair
  <2> QED  BY <1>0, <2>1, <2>2, RowsOfCreation
<1>3. CASE SemiB(t) \/ Third(t)
  <2> DEFINE pair == task[t].pairB
             j == task[t].duel
  <2>1. pair \in SUBSET Player /\ pair # {}
    BY <1>3, <1>b DEF SemiB, Third, At
  <2>2. PICK round \in {"semifinal", "tercer_puesto"} :
          /\ Creatable(pair, round)
          /\ duels' = LeadSelection(LeadSelection(Created(pair, round), CreatedId(pair, round)), j)
    BY <1>3 DEF SemiB, Third, CreateSecond
  <2> HIDE DEF pair, j
  <2> QED  BY <1>0, <2>1, <2>2, RowsOfCreation
<1>4. CASE Forfeit(t) \/ WalkWrite(t)
  <2> DEFINE i == task[t].duel
             w == opponentOf(task[t].who, i)
  <2>1. UNCHANGED duels \/ duels' = Finished(i, w)
    BY <1>4 DEF Forfeit, WalkWrite
  <2>2. i \in 1..Len(duels) => w \in Player
    BY OpponentTyped
  <2> HIDE DEF i, w
  <2> QED  BY <2>1, <2>2, RowsFinished, RowsLeft
<1>5. CASE \/ JoinMark(t) \/ SeedBots(t) \/ BootRead(t) \/ CreateFails(t) \/ LeaveMark(t)
           \/ DropMark(t) \/ BracketMark(t) \/ BracketFind(t) \/ Close(t) \/ Unseat(t)
           \/ UnseatEnds(t) \/ WalkFind(t) \/ Rematch(t) \/ PairFinals(t) \/ RankBracket(t)
           \/ AwaitRound(t) \/ ArmAbsent(t)
  <2>1. UNCHANGED duels
    BY <1>5 DEF JoinMark, SeedBots, BootRead, CreateFails, LeaveMark, DropMark, BracketMark,
       BracketFind, Close, Unseat, UnseatEnds, WalkFind, Rematch, PairFinals, RankBracket,
       AwaitRound, ArmAbsent
  <2> QED  BY <2>1, RowsLeft
<1> QED  BY <1>1, <1>2, <1>3, <1>4, <1>5 DEF Continue

LEMMA RowsTypedStep ==
    ASSUME RowsTyped, TasksTyped, [Next]_vars
    PROVE  RowsTyped' /\ (LostIn(duels') => LostIn(duels) \/ Restart)
<1>0. Human \subseteq Player
  BY DEF Player
<1>1. CASE UNCHANGED duels
  BY <1>1, RowsLeft
<1>2. ASSUME NEW t \in Task, Request(t) \/ Expire(t) \/ QueryFails(t)
      PROVE  RowsTyped' /\ (LostIn(duels') => LostIn(duels))
  <2>1. UNCHANGED duels
    BY <1>2 DEF Request, Expire, QueryFails, Join, Ready, Leave, Drop, AddBot, GraceExpires,
       WalkoverExpires
  <2> QED  BY <2>1, RowsLeft
<1>3. ASSUME NEW t \in Task, Continue(t)
      PROVE  RowsTyped' /\ (LostIn(duels') => LostIn(duels))
  BY <1>3, RowsOfContinue
<1>4. CASE Rest
  <2>1. UNCHANGED duels
    BY <1>4 DEF Rest, Reserve, RemoveBot
  <2> QED  BY <2>1, RowsLeft
<1>5. CASE Play
  <2>1. ASSUME NEW i \in DOMAIN duels, NEW p \in Human, SelectLead(p, i)
        PROVE  RowsTyped' /\ (LostIn(duels') => LostIn(duels))
    BY <1>0, <2>1, LedRowsTyped DEF SelectLead, RowsTyped
  <2>2. ASSUME NEW i \in DOMAIN duels, NEW t \in Task, NEW w \in Player, DuelEnds(t, i, w)
        PROVE  RowsTyped' /\ (LostIn(duels') => LostIn(duels))
    BY <2>2, RowsFinished DEF DuelEnds
  <2> QED  BY <1>5, <2>1, <2>2 DEF Play
<1>6. CASE Restart
  <2>1. duels' = [i \in DOMAIN duels |-> Reconciled(duels[i])]
    BY <1>6 DEF Restart
  <2> QED  BY <1>6, <2>1, ReconciledRowsTyped DEF RowsTyped
<1>7. CASE UNCHANGED vars
  BY <1>1, <1>7 DEF vars
<1> QED  BY <1>2, <1>3, <1>4, <1>5, <1>6, <1>7 DEF Next

\* What is around the rows.
LEMMA OfHumans ==
    ASSUME NEW S \in SUBSET Human, NEW p \in Human
    PROVE  S \cup {p} \subseteq Human /\ S \ {p} \subseteq Human
OBVIOUS

LEMMA SocketsTyped ==
    ASSUME WorldTyped, NEW p, NEW x \in {"off", "on", "in"}, sock' = [sock EXCEPT ![p] = x]
    PROVE  sock' \in [Human -> {"off", "on", "in"}]
BY DEF WorldTyped

LEMMA UnroomedTyped ==
    ASSUME WorldTyped, NEW t
    PROVE  Unroomed(t) \in [Human -> {"off", "on", "in"}]
<1>1. Unroomed(t) = sock \/ Unroomed(t) = [sock EXCEPT ![task[t].who] = "on"]
  BY DEF Unroomed
<1>2. sock \in [Human -> {"off", "on", "in"}]
  BY DEF WorldTyped
<1> QED  BY <1>1, <1>2

\* A room goes on only if it did, or if a handler inserts a duel.
StatusGoesOn ==
    status' \in Going => status \in Going \/ \E t \in Task : task[t].pc \in Creating

LEMMA WorldOfContinue ==
    ASSUME WorldTyped, TasksTyped, NEW t \in Task, Continue(t)
    PROVE  WorldTyped' /\ StatusGoesOn
<1>0. /\ status \in {"waiting", "in_progress", "finished", "aborted", "gone"}
      /\ sock \in [Human -> {"off", "on", "in"}]
      /\ grace \subseteq Human /\ walkover \subseteq Human
      /\ absences \in 0..MaxAbsences /\ restarts \in 0..MaxRestarts
  BY DEF WorldTyped
<1>1. UNCHANGED <<absences, restarts>>
  BY DEF Continue, JoinMark, SeedBots, BootRead, BootDuel, SemiA, SemiB, CreateFails, LeaveMark,
     DropMark, BracketMark, BracketFind, Close, Unseat, UnseatEnds, Forfeit, WalkFind, WalkWrite,
     Rematch, PairFinals, RankBracket, AwaitRound, Final, Third, ArmAbsent, CreateFirst,
     CreateSecond, world
<1>2. sock' \in [Human -> {"off", "on", "in"}]
  <2>1. UNCHANGED sock \/ sock' = Unroomed(t)
    BY DEF Continue, JoinMark, SeedBots, BootRead, BootDuel, SemiA, SemiB, CreateFails, LeaveMark,
       DropMark, BracketMark, BracketFind, Close, Unseat, UnseatEnds, Forfeit, WalkFind, WalkWrite,
       Rematch, PairFinals, RankBracket, AwaitRound, Final, Third, ArmAbsent, CreateFirst,
       CreateSecond, world, Finish
  <2> QED  BY <1>0, <2>1, UnroomedTyped
<1>3. grace' \subseteq Human /\ walkover' \subseteq Human
  <2>1. CASE UNCHANGED timers
    BY <1>0, <2>1 DEF timers
  <2>2. CASE DropMark(t) \/ BracketFind(t)
    <3>1. task[t].who \in Human
      BY <2>2 DEF DropMark, BracketFind, At, TasksTyped, TaskTyped, Arming
    <3>2. /\ grace' = grace \/ grace' = grace \cup {task[t].who}
          /\ walkover' = walkover \/ walkover' = walkover \cup {task[t].who}
      BY <2>2 DEF DropMark, BracketFind
    <3> QED  BY <1>0, <3>1, <3>2
  <2>3. CASE ArmAbsent(t)
    BY <1>0, <2>3 DEF ArmAbsent
  <2>4. CASE ~(DropMark(t) \/ BracketFind(t) \/ ArmAbsent(t))
    BY <2>1, <2>4 DEF Continue, JoinMark, SeedBots, BootRead, BootDuel, SemiA, SemiB, CreateFails,
       LeaveMark, BracketMark, Close, Unseat, UnseatEnds, Forfeit, WalkFind, WalkWrite, Rematch,
       PairFinals, RankBracket, AwaitRound, Final, Third, CreateFirst, CreateSecond
  <2> QED  BY <2>2, <2>3, <2>4
<1>4. status' \in {"waiting", "in_progress", "finished", "aborted", "gone"} /\ StatusGoesOn
  <2>1. CASE UNCHANGED status
    BY <1>0, <2>1 DEF StatusGoesOn
  <2>2. CASE BootDuel(t) \/ SemiA(t) \/ SemiB(t) \/ Final(t) \/ Third(t)
    <3>1. \E pair, round : status' = StatusOnCreate(pair, round)
      BY <2>2 DEF BootDuel, SemiA, SemiB, Final, Third, CreateFirst, CreateSecond, CreateDuel
    <3>2. task[t].pc \in Creating
      BY <2>2 DEF BootDuel, SemiA, SemiB, Final, Third, At, Creating
    <3> QED  BY <1>0, <3>1, <3>2 DEF StatusOnCreate, StatusGoesOn
  <2>3. CASE Close(t) \/ UnseatEnds(t) \/ RankBracket(t)
    <3>1. UNCHANGED status \/ status' \in {"finished", "gone"}
      BY <2>3 DEF Close, UnseatEnds, RankBracket
    <3>2. "finished" \notin Going /\ "gone" \notin Going
      BY DEF Going
    <3> QED  BY <1>0, <2>1, <3>1, <3>2 DEF StatusGoesOn
  <2>4. CASE \/ JoinMark(t) \/ SeedBots(t) \/ BootRead(t) \/ CreateFails(t) \/ LeaveMark(t)
             \/ DropMark(t) \/ BracketMark(t) \/ BracketFind(t) \/ Unseat(t) \/ Forfeit(t)
             \/ WalkFind(t) \/ WalkWrite(t) \/ Rematch(t) \/ PairFinals(t) \/ AwaitRound(t)
             \/ ArmAbsent(t)
    BY <2>1, <2>4 DEF JoinMark, SeedBots, BootRead, CreateFails, LeaveMark, DropMark, BracketMark,
       BracketFind, Unseat, Forfeit, WalkFind, WalkWrite, Rematch, PairFinals, AwaitRound, ArmAbsent
  <2> QED  BY <2>2, <2>3, <2>4 DEF Continue
<1> QED  BY <1>0, <1>1, <1>2, <1>3, <1>4 DEF WorldTyped

LEMMA WorldTypedStep ==
    ASSUME WorldTyped, TasksTyped, [Next]_vars
    PROVE  WorldTyped' /\ StatusGoesOn
<1>0. /\ status \in {"waiting", "in_progress", "finished", "aborted", "gone"}
      /\ sock \in [Human -> {"off", "on", "in"}]
      /\ grace \subseteq Human /\ walkover \subseteq Human
      /\ absences \in 0..MaxAbsences /\ restarts \in 0..MaxRestarts
  BY DEF WorldTyped
<1>m. MaxAbsences \in Nat /\ MaxRestarts \in Nat
  BY RoomAssumption
<1>1. CASE UNCHANGED <<status, timers, world>>
  BY <1>1 DEF WorldTyped, StatusGoesOn, timers, world
<1>2. ASSUME NEW t \in Task, NEW p \in Human, Join(t, p)
      PROVE  WorldTyped' /\ StatusGoesOn
  <2>1. sock' \in [Human -> {"off", "on", "in"}]
    BY <1>2, SocketsTyped DEF Join
  <2> QED  BY <1>0, <1>2, <2>1 DEF Join, WorldTyped, StatusGoesOn
<1>3. ASSUME NEW t \in Task, NEW p \in Human, Leave(t, p)
      PROVE  WorldTyped' /\ StatusGoesOn
  <2>1. absences' \in 0..MaxAbsences
    BY <1>0, <1>m, <1>3 DEF Leave
  <2> QED  BY <1>0, <1>3, <2>1 DEF Leave, WorldTyped, StatusGoesOn
<1>4. ASSUME NEW t \in Task, NEW p \in Human, Drop(t, p)
      PROVE  WorldTyped' /\ StatusGoesOn
  <2>0. absences < MaxAbsences /\ absences' = absences + 1
    BY <1>4, Zenon DEF Drop
  <2>1. absences' \in 0..MaxAbsences
    BY <1>0, <1>m, <2>0
  <2>2. sock' \in [Human -> {"off", "on", "in"}]
    BY <1>4, SocketsTyped DEF Drop
  <2>3. UNCHANGED <<status, grace, walkover, restarts>>
    BY <1>4 DEF Drop, timers
  <2> QED  BY <1>0, <2>1, <2>2, <2>3 DEF WorldTyped, StatusGoesOn
<1>5. ASSUME NEW t \in Task, Expire(t)
      PROVE  WorldTyped' /\ StatusGoesOn
  <2>1. /\ grace' \subseteq grace /\ walkover' \subseteq walkover
        /\ UNCHANGED <<status, sock, absences, restarts>>
    BY <1>5 DEF Expire, GraceExpires, WalkoverExpires, world
  <2> QED  BY <1>0, <2>1 DEF WorldTyped, StatusGoesOn
<1>6. ASSUME NEW t \in Task, QueryFails(t) \/ (\E p \in Human : Ready(t, p)) \/ \E b \in Bot : AddBot(t, b)
      PROVE  WorldTyped' /\ StatusGoesOn
  BY <1>1, <1>6 DEF QueryFails, Ready, AddBot
<1>7. ASSUME NEW t \in Task, Continue(t)
      PROVE  WorldTyped' /\ StatusGoesOn
  BY <1>7, WorldOfContinue
<1>8. CASE Rest \/ Play
  BY <1>1, <1>8 DEF Rest, Reserve, RemoveBot, Play, SelectLead, DuelEnds
<1>9. CASE Restart
  <2>1. restarts' \in 0..MaxRestarts
    BY <1>0, <1>m, <1>9 DEF Restart
  <2>2. sock' \in [Human -> {"off", "on", "in"}]
    BY <1>9 DEF Restart
  <2>3. /\ status' \in {"waiting", "in_progress", "finished", "aborted", "gone"}
        /\ status' \in Going => status \in Going
    <3> DEFINE live == \E i \in DOMAIN duels : duels[i].status = "in_progress"
    <3>1. status' = CASE status = "in_progress" /\ live -> "aborted"
                      [] status = "waiting" -> "gone"
                      [] OTHER -> status
      BY <1>9 DEF Restart
    <3> HIDE DEF live
    <3>2. status' \in {"aborted", "gone", status}
      BY <3>1
    <3> QED  BY <1>0, <3>2 DEF Going
  <2>4. grace' = {} /\ walkover' = {} /\ UNCHANGED absences
    BY <1>9 DEF Restart
  <2> QED  BY <1>0, <2>1, <2>2, <2>3, <2>4 DEF WorldTyped, StatusGoesOn
<1>10. CASE UNCHANGED vars
  BY <1>1, <1>10 DEF vars, timers, world
<1> QED  BY <1>2, <1>3, <1>4, <1>5, <1>6, <1>7, <1>8, <1>9, <1>10 DEF Next, Request

\* A restart closes a room with the duel it ends.
LEMMA RestartCloses ==
    ASSUME RoomInv, Restart
    PROVE  WinnersKnown'
<1> DEFINE live == \E i \in DOMAIN duels : duels[i].status = "in_progress"
<1>1. LostIn(duels') => LostIn(duels) \/ live
  BY ReconciledRowsTyped DEF RoomInv, Restart
<1>2. status' = CASE status = "in_progress" /\ live -> "aborted"
                  [] status = "waiting" -> "gone"
                  [] OTHER -> status
  BY DEF Restart
<1>3. LostIn(duels) => status \notin Going
  BY DEF RoomInv, WinnersKnown
<1> HIDE DEF live
<1>4. LostIn(duels) \/ live => status' \notin Going
  <2>1. CASE status = "waiting"
    BY <1>2, <2>1 DEF Going
  <2>2. CASE status = "in_progress" /\ live
    BY <1>2, <2>2 DEF Going
  <2>3. CASE status \notin Going
    BY <1>2, <2>3 DEF Going
  <2> QED  BY <1>3, <2>1, <2>2, <2>3 DEF Going
<1>5. \A t \in Task : task'[t] = Idle
  BY DEF Restart
<1>6. Idle.pc \notin Creating
  BY IdleTyped DEF Creating
<1> QED  BY <1>1, <1>4, <1>5, <1>6 DEF WinnersKnown

LEMMA RoomInvInit ==
    ASSUME Init
    PROVE  RoomInv
<1>1. MaxDuels \in Nat /\ MaxAbsences \in Nat /\ MaxRestarts \in Nat
  BY RoomAssumption
<1>2. WorldTyped
  BY <1>1 DEF Init, WorldTyped
<1>3. SeatsTyped
  <2>1. \A p : [NewSeat EXCEPT !.ready = (p \in SetUp)] \in Seat
    <3> TAKE p
    <3> DEFINE x == p \in SetUp
    <3>1. x \in BOOLEAN
      OBVIOUS
    <3> HIDE DEF x
    <3>2. [NewSeat EXCEPT !.ready = x] \in Seat
      BY <3>1, NewSeatTyped, SeatColumnsTyped
    <3> QED  BY <3>2 DEF x
  <2> QED  BY <2>1 DEF Init, SeatsTyped
<1>4. duels = <<>> /\ Len(duels) = 0 /\ duels \in Seq(Duel)
  BY DEF Init
<1>5. RowsTyped /\ ~LostIn(duels)
  BY <1>1, <1>4 DEF RowsTyped, DuelsTyped, LostIn
<1>6. task \in [Task -> TaskState] /\ \A t \in Task : task[t] = Idle
  BY IdleTyped DEF Init, TaskTyped
<1>7. TasksTyped
  BY <1>6, IdleTyped DEF TasksTyped
<1> QED  BY <1>2, <1>3, <1>5, <1>7 DEF RoomInv, WinnersKnown

LEMMA RoomInvStep ==
    ASSUME RoomInv, [Next]_vars
    PROVE  RoomInv'
<1>1. WorldTyped /\ SeatsTyped /\ RowsTyped /\ TasksTyped /\ WinnersKnown
  BY DEF RoomInv
<1>2. TasksTyped' /\ NoNewPairs
  <2>1. ASSUME NEW t \in Task, Continue(t)
        PROVE  TasksTyped' /\ NoNewPairs
    BY <2>1, TasksOfContinue
  <2>2. CASE UNCHANGED vars
    BY <1>1, <2>2, TasksLeft DEF vars
  <2> QED  BY <2>1, <2>2, TasksOfPlay DEF Next
<1>3. WinnersKnown'
  <2>1. CASE Restart
    BY <2>1, RestartCloses
  <2>2. CASE ~Restart
    <3>1. LostIn(duels') => LostIn(duels)
      BY <1>1, <2>2, RowsTypedStep
    <3>2. StatusGoesOn
      BY <1>1, WorldTypedStep
    <3> QED  BY <1>1, <1>2, <3>1, <3>2 DEF WinnersKnown, NoNewPairs, StatusGoesOn
  <2> QED  BY <2>1, <2>2
<1> QED  BY <1>1, <1>2, <1>3, WorldTypedStep, SeatsTypedStep, RowsTypedStep DEF RoomInv

\* Whatever interleaves, the rows, the windows and the handlers hold what their
\* columns admit: no handler arms a window for a bot, and none that draws or pairs
\* players finds a pair empty or a winner unknown (tournamentLifecycle.js,
\* duelBootstrap.js).
THEOREM RoomTypes == Spec => []TypeOK
<1>1. RoomInv => TypeOK
  BY DEF RoomInv, WorldTyped, SeatsTyped, RowsTyped, DuelsTyped, TasksTyped, TypeOK
<1> QED  BY <1>1, RoomInvInit, RoomInvStep, PTL DEF Spec
===========================================================================
