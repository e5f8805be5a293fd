------------------------- MODULE TeamDraft_proofs -------------------------
(***************************************************************************)
(* That no two players hold one starter, that teams are whole and that the *)
(* team of a bot that got ready is there, for any catalogue, any number of *)
(* players and any number of handlers in flight.                           *)
(***************************************************************************)
EXTENDS TeamDraft, FiniteSetTheorems, TLAPS

\* A seeding, and a roster being replaced, is of somebody.
Owned(s) == s.pc \in {"insert", "seed_read", "seed_taken", "seed_starter", "seed_roster",
                      "seed_ready"} => s.who \in Player
TasksOwned == \A t \in Task : Owned(task[t])

\* The three invariants, that the room is finite, which its count of seats needs,
\* and that the rows a task writes are a player's.
IInv ==
    /\ TypeOK
    /\ IsFiniteSet(seated)
    /\ TasksOwned
    /\ StartersApart
    /\ TeamsAreWhole

\* What a step has to show of the tasks and of the rows of the teams.
TasksOK == task \in [Task -> TaskState] /\ TasksOwned
RowsOK ==
    /\ starter \in [Player -> Pokemon \cup {None}]
    /\ roster \in [Player -> SUBSET Pokemon]
    /\ StartersApart
    /\ TeamsAreWhole

---------------------------------------------------------------------------
(* The tasks *)

LEMMA IdleType == Idle \in TaskState /\ Owned(Idle)
BY DEF Idle, TaskState, PC, Owned

LEMMA SeedingType == \A b \in Player : Seeding(b) \in TaskState /\ Owned(Seeding(b))
BY DEF Seeding, Idle, TaskState, PC, Owned

LEMMA RosterIsOfPokemon == \A S \in Roster \cup {{}} : S \subseteq Pokemon
BY DEF Roster

\* A step of one task replaces its state and nobody else's.
LEMMA BecomeType ==
    ASSUME TasksOK, NEW t \in Task, NEW s \in TaskState, Owned(s), Become(t, s)
    PROVE  TasksOK'
<1>1. task' \in [Task -> TaskState]
  BY DEF Become, TasksOK
<1>2. \A u \in Task : task'[u] = IF u = t THEN s ELSE task[u]
  BY DEF Become, TasksOK
<1>3. TasksOwned'
  BY <1>2 DEF TasksOK, TasksOwned, Owned
<1> QED
  BY <1>1, <1>3 DEF TasksOK

LEMMA EndType ==
    ASSUME TasksOK, NEW t \in Task, End(t)
    PROVE  TasksOK'
BY IdleType, BecomeType DEF End

\* A task goes on to a query on the rows of its owner only.
LEMMA GotoType ==
    ASSUME TasksOK, NEW t \in Task, NEW pc \in PC, Goto(t, pc),
           pc \in {"boot_read", "boot_duel", "advance"} \/ task[t].who \in Player
    PROVE  TasksOK'
<1> DEFINE s == [task[t] EXCEPT !.pc = pc]
<1>1. task[t] \in TaskState
  BY DEF TasksOK
<1>2. s \in TaskState /\ s.pc = pc /\ s.who = task[t].who
  BY <1>1 DEF TaskState
<1>3. Owned(s)
  BY <1>2 DEF Owned
<1>4. Become(t, s)
  BY DEF Goto
<1> HIDE DEF s
<1> QED
  BY <1>2, <1>3, <1>4, BecomeType

LEMMA DeleteRosterType ==
    ASSUME TasksOK, RowsOK, NEW t \in Task, NEW p \in Player, NEW pick \in Roster,
           DeleteRoster(t, p, pick)
    PROVE  TasksOK'
<1> DEFINE s == [task[t] EXCEPT !.pc = "insert", !.who = p, !.pick = pick, !.gone = roster[p]]
<1>1. task[t] \in TaskState
  BY DEF TasksOK
<1>2. roster[p] \in SUBSET Pokemon
  BY DEF RowsOK
<1>3. s \in TaskState /\ s.who = p
  BY <1>1, <1>2 DEF TaskState, PC
<1>4. Owned(s)
  BY <1>3 DEF Owned
<1>5. Become(t, s)
  BY DEF DeleteRoster
<1> HIDE DEF s
<1> QED
  BY <1>3, <1>4, <1>5, BecomeType

---------------------------------------------------------------------------
(* Rows *)

\* Deleting rows spoils nothing.
LEMMA WipeKeepsTeams ==
    ASSUME RowsOK, NEW S, Wiped(S)
    PROVE  RowsOK'
<1>1. \A p \in Player : /\ p \in S => starter'[p] = None /\ roster'[p] = {}
                        /\ p \notin S => starter'[p] = starter[p] /\ roster'[p] = roster[p]
  BY DEF Wiped
<1>2. starter' \in [Player -> Pokemon \cup {None}] /\ roster' \in [Player -> SUBSET Pokemon]
  BY DEF Wiped, RowsOK
<1>3. StartersApart'
  BY <1>1 DEF RowsOK, StartersApart
<1>4. TeamsAreWhole'
  BY <1>1 DEF RowsOK, TeamsAreWhole
<1> QED
  BY <1>2, <1>3, <1>4 DEF RowsOK

\* A starter that both unique indexes accept.
LEMMA FreeStarterKeepsTeams ==
    ASSUME RowsOK, NEW p \in Player, NEW m \in Pokemon,
           StarterFree(p, m), starter' = [starter EXCEPT ![p] = m], UNCHANGED roster
    PROVE  RowsOK'
<1>1. /\ starter'[p] = m
      /\ \A q \in Player \ {p} : starter'[q] = starter[q] /\ starter[q] # m
  BY DEF RowsOK, StarterFree
<1>2. starter' \in [Player -> Pokemon \cup {None}] /\ roster' \in [Player -> SUBSET Pokemon]
  BY DEF RowsOK
<1>3. StartersApart'
  BY <1>1 DEF RowsOK, StartersApart
<1>4. m \notin roster[p]
  BY DEF StarterFree
<1>5. TeamsAreWhole'
  BY <1>1, <1>4 DEF RowsOK, TeamsAreWhole
<1> QED
  BY <1>2, <1>3, <1>5 DEF RowsOK

\* A roster that fits.
LEMMA FittingRosterKeepsTeams ==
    ASSUME TasksOK, RowsOK, NEW t \in Task, task[t].who \in Player, RosterFits(t),
           roster' = [roster EXCEPT ![task[t].who] = task[t].pick], UNCHANGED starter
    PROVE  RowsOK'
<1> DEFINE p == task[t].who
<1>1. task[t].pick \in Roster \cup {{}}
  BY DEF TasksOK, TaskState
<1>2. roster' \in [Player -> SUBSET Pokemon]
  BY <1>1, RosterIsOfPokemon DEF RowsOK
<1>3. roster'[p] = task[t].pick /\ \A q \in Player \ {p} : roster'[q] = roster[q]
  BY DEF RowsOK
<1>4. starter[p] \notin task[t].pick
  BY DEF RosterFits
<1>5. TeamsAreWhole'
  BY <1>1, <1>3, <1>4 DEF RowsOK, TeamsAreWhole
<1> QED
  BY <1>2, <1>5 DEF RowsOK, StartersApart

---------------------------------------------------------------------------
(* Steps *)

\* The seats, their flags and the bounded counters.
SeatsOK ==
    /\ Host \in seated /\ seated \subseteq Player /\ Cardinality(seated) <= 2
    /\ IsFiniteSet(seated)
    /\ removed \subseteq Bot \ seated
    /\ ready \subseteq seated
GameOK ==
    /\ duel \in {"none", "open", "over"}
    /\ played \in 0..MaxDuels
    /\ echoes \in 0..MaxEchoes
    /\ overtaken \subseteq Bot

LEMMA IInvParts ==
    /\ IInv <=> SeatsOK /\ GameOK /\ TasksOK /\ RowsOK
    /\ IInv' <=> SeatsOK' /\ GameOK' /\ TasksOK' /\ RowsOK'
BY DEF IInv, TypeOK, SeatsOK, GameOK, TasksOK, RowsOK

LEMMA PartsKept ==
    /\ SeatsOK /\ UNCHANGED <<seats, ready>> => SeatsOK'
    /\ GameOK /\ UNCHANGED <<game, overtaken>> => GameOK'
    /\ TasksOK /\ UNCHANGED task => TasksOK'
    /\ RowsOK /\ UNCHANGED teams => RowsOK'
BY DEF SeatsOK, GameOK, TasksOK, RowsOK, TasksOwned, Owned, StartersApart, TeamsAreWhole,
       seats, game, teams

\* A seat taken in a room that has one free.
LEMMA SeatTaken ==
    ASSUME SeatsOK, NEW p \in Player, p \notin seated \cup removed, Free,
           seated' = seated \cup {p}, UNCHANGED <<removed, ready>>
    PROVE  SeatsOK'
<1>1. Cardinality(seated) < 2
  BY DEF Free
<1>a. IsFiniteSet(seated) /\ Cardinality(seated) \in Nat
  BY FS_CardinalityType DEF SeatsOK
<1>b. IsFiniteSet(seated \cup {p}) /\ Cardinality(seated \cup {p}) = Cardinality(seated) + 1
  BY <1>a, FS_AddElement
<1>2. IsFiniteSet(seated') /\ Cardinality(seated') <= 2
  BY <1>1, <1>a, <1>b
<1> QED
  BY <1>2 DEF SeatsOK, Player

LEMMA InitHolds == Init => IInv
<1> SUFFICES ASSUME Init PROVE IInv
  OBVIOUS
<1> USE DraftAssumption
<1>0. IsFiniteSet({Host}) /\ Cardinality({Host}) = 1
  BY FS_Singleton
<1>1. SeatsOK
  BY <1>0 DEF Init, SeatsOK, Player
<1>2. GameOK
  BY DEF Init, GameOK
<1>3. TasksOK
  BY IdleType DEF Init, TasksOK, TasksOwned
<1>4. RowsOK
  BY DEF Init, RowsOK, StartersApart, TeamsAreWhole
<1> QED
  BY <1>1, <1>2, <1>3, <1>4, IInvParts

\* Steps of players with a socket, and of the seats.
LEMMA RequestStep ==
    ASSUME IInv,
           \/ \E p \in Human :
                \/ \E m \in Pokemon : SelectStarter(p, m)
                \/ \E t \in Task, pick \in Roster : SelectRoster(t, p, pick)
                \/ Join(p)
                \/ \E t \in Task : Ready(t, p)
           \/ \E p \in Player : Unseat(p)
           \/ \E t \in Task, b \in Bot : AddBot(t, b)
    PROVE  IInv'
<1> USE DraftAssumption DEF Player
<1>0. SeatsOK /\ GameOK /\ TasksOK /\ RowsOK
  BY IInvParts
<1>1. ASSUME NEW p \in Human, NEW m \in Pokemon, SelectStarter(p, m) PROVE IInv'
  <2>1. RowsOK'
    BY <1>0, <1>1, FreeStarterKeepsTeams DEF SelectStarter
  <2> QED
    BY <1>0, <1>1, <2>1, PartsKept, IInvParts DEF SelectStarter
<1>2. ASSUME NEW p \in Human, NEW t \in Task, NEW pick \in Roster, SelectRoster(t, p, pick)
      PROVE  IInv'
  <2>1. TasksOK'
    BY <1>0, <1>2, DeleteRosterType DEF SelectRoster
  <2> QED
    BY <1>0, <1>2, <2>1, PartsKept, IInvParts DEF SelectRoster, DeleteRoster
<1>3. ASSUME NEW p \in Human, Join(p) PROVE IInv'
  <2>1. p \notin removed
    BY <1>0 DEF SeatsOK
  <2>2. SeatsOK'
    BY <1>0, <1>3, <2>1, SeatTaken DEF Join
  <2> QED
    BY <1>0, <1>3, <2>2, PartsKept, IInvParts DEF Join
<1>4. ASSUME NEW p \in Human, NEW t \in Task, Ready(t, p) PROVE IInv'
  <2>1. SeatsOK'
    BY <1>0, <1>4 DEF Ready, SeatsOK, seats
  <2>2. TasksOK'
    BY <1>0, <1>4, GotoType DEF Ready, PC
  <2> QED
    BY <1>0, <1>4, <2>1, <2>2, PartsKept, IInvParts DEF Ready
<1>5. ASSUME NEW p \in Player, Unseat(p) PROVE IInv'
  <2>a. IsFiniteSet(seated) /\ Cardinality(seated) \in Nat /\ Cardinality(seated) <= 2
    BY <1>0, FS_CardinalityType DEF SeatsOK
  <2>b. /\ IsFiniteSet(seated \ {p})
        /\ Cardinality(seated \ {p}) \in Nat
        /\ Cardinality(seated \ {p}) <= Cardinality(seated)
    BY <2>a, FS_Subset, FS_CardinalityType
  <2>1. IsFiniteSet(seated') /\ Cardinality(seated') <= 2
    BY <1>5, <2>a, <2>b DEF Unseat
  <2>2. SeatsOK'
    BY <1>0, <1>5, <2>1 DEF Unseat, SeatsOK
  <2>3. RowsOK'
    BY <1>0, <1>5, WipeKeepsTeams DEF Unseat
  <2> QED
    BY <1>0, <1>5, <2>2, <2>3, PartsKept, IInvParts DEF Unseat
<1>6. ASSUME NEW t \in Task, NEW b \in Bot, AddBot(t, b) PROVE IInv'
  <2>1. SeatsOK'
    BY <1>0, <1>6, SeatTaken DEF AddBot
  <2>2. TasksOK'
    BY <1>0, <1>6, SeedingType, BecomeType DEF AddBot
  <2> QED
    BY <1>0, <1>6, <2>1, <2>2, PartsKept, IInvParts DEF AddBot
<1> QED
  BY <1>1, <1>2, <1>3, <1>4, <1>5, <1>6

\* Steps of the handlers in flight.
LEMMA TaskStep ==
    ASSUME IInv, NEW t \in Task,
           \/ InsertRoster(t)
           \/ SeedRead(t) \/ SeedTaken(t) \/ SeedStarter(t) \/ SeedRoster(t) \/ SeedReady(t)
           \/ BootRead(t) \/ BootDuel(t)
           \/ DuelEnds(t) \/ EndsAgain(t) \/ Advance(t)
    PROVE  IInv'
<1> USE DraftAssumption
<1>0. SeatsOK /\ GameOK /\ TasksOK /\ RowsOK
  BY IInvParts
<1>01. task[t] \in TaskState
  BY <1>0 DEF TasksOK
<1>02. \A pc \in {"insert", "seed_read", "seed_taken", "seed_starter", "seed_roster", "seed_ready"} :
         At(t, pc) => task[t].who \in Player
  BY <1>0 DEF TasksOK, TasksOwned, Owned, At
<1>1. CASE InsertRoster(t)
  <2>1. task[t].who \in Player
    BY <1>02, <1>1 DEF InsertRoster
  <2>2. RowsOK'
    <3>1. CASE RosterFits(t)
      BY <1>0, <1>1, <2>1, <3>1, FittingRosterKeepsTeams DEF InsertRoster
    <3>2. CASE ~RosterFits(t)
      BY <1>0, <1>1, <3>2, PartsKept DEF InsertRoster, teams
    <3> QED
      BY <3>1, <3>2
  <2>3. TasksOK'
    BY <1>0, <1>1, <2>1, EndType, GotoType DEF InsertRoster, PC
  <2> QED
    BY <1>0, <1>1, <2>2, <2>3, PartsKept, IInvParts DEF InsertRoster
<1>2. CASE SeedRead(t)
  <2>1. TasksOK'
    BY <1>0, <1>02, <1>2, EndType, GotoType DEF SeedRead, PC
  <2> QED
    BY <1>0, <1>2, <2>1, PartsKept, IInvParts DEF SeedRead
<1>3. CASE SeedTaken(t)
  <2> DEFINE s == [task[t] EXCEPT !.pc = "seed_starter", !.seen = TakenStarters]
  <2>1. TakenStarters \in SUBSET Pokemon
    BY <1>0 DEF TakenStarters, RowsOK
  <2>2. task[t].who \in Player
    BY <1>02, <1>3 DEF SeedTaken
  <2>3. s \in TaskState /\ s.who = task[t].who
    BY <1>01, <2>1 DEF TaskState, PC
  <2>4. Owned(s)
    BY <2>2, <2>3 DEF Owned
  <2>5. End(t) \/ Become(t, s)
    BY <1>3 DEF SeedTaken
  <2> HIDE DEF s
  <2>6. TasksOK'
    BY <1>0, <2>3, <2>4, <2>5, EndType, BecomeType
  <2> QED
    BY <1>0, <1>3, <2>6, PartsKept, IInvParts DEF SeedTaken
<1>4. CASE SeedStarter(t)
  <2> DEFINE b == task[t].who
  <2>1. b \in Player
    BY <1>02, <1>4 DEF SeedStarter
  <2>2. PICK m \in Starter \ task[t].seen :
          \/ /\ StarterFree(b, m)
             /\ starter' = [starter EXCEPT ![b] = m]
             /\ Become(t, [task[t] EXCEPT !.pc = "seed_roster", !.seen = {m}])
          \/ /\ End(t)
             /\ UNCHANGED starter
    BY <1>4 DEF SeedStarter
  <2> DEFINE s == [task[t] EXCEPT !.pc = "seed_roster", !.seen = {m}]
  <2>3. s \in TaskState /\ s.who = b
    BY <1>01 DEF TaskState, PC
  <2>4. Owned(s)
    BY <2>1, <2>3 DEF Owned
  <2>5. End(t) \/ Become(t, s)
    BY <2>2
  <2> HIDE DEF s
  <2>6. TasksOK'
    BY <1>0, <2>3, <2>4, <2>5, EndType, BecomeType
  <2>7. UNCHANGED roster
    BY <1>4 DEF SeedStarter
  <2>8. RowsOK'
    <3>1. CASE StarterFree(b, m) /\ starter' = [starter EXCEPT ![b] = m]
      BY <1>0, <2>1, <2>7, <3>1, FreeStarterKeepsTeams
    <3>2. CASE UNCHANGED starter
      BY <1>0, <2>7, <3>2, PartsKept DEF teams
    <3> QED
      BY <2>2, <3>1, <3>2
  <2> QED
    BY <1>0, <1>4, <2>6, <2>8, PartsKept, IInvParts DEF SeedStarter
<1>5. CASE SeedRoster(t)
  <2>1. PICK pick \in Roster : DeleteRoster(t, task[t].who, pick)
    BY <1>5 DEF SeedRoster
  <2>2. task[t].who \in Player
    BY <1>02, <1>5 DEF SeedRoster
  <2>3. TasksOK'
    BY <1>0, <2>1, <2>2, DeleteRosterType
  <2> QED
    BY <1>0, <2>1, <2>3, PartsKept, IInvParts DEF DeleteRoster
<1>6. CASE SeedReady(t)
  <2>1. SeatsOK'
    BY <1>0, <1>6 DEF SeedReady, SeatsOK, seats
  <2>2. TasksOK'
    BY <1>0, <1>6, EndType DEF SeedReady
  <2> QED
    BY <1>0, <1>6, <2>1, <2>2, PartsKept, IInvParts DEF SeedReady
<1>7. CASE BootRead(t)
  <2>1. TasksOK'
    BY <1>0, <1>7, EndType, GotoType DEF BootRead, PC
  <2> QED
    BY <1>0, <1>7, <2>1, PartsKept, IInvParts DEF BootRead
<1>8. CASE BootDuel(t)
  <2>1. GameOK'
    BY <1>0, <1>8 DEF BootDuel, GameOK, game
  <2>2. TasksOK'
    BY <1>0, <1>8, EndType DEF BootDuel
  <2> QED
    BY <1>0, <1>8, <2>1, <2>2, PartsKept, IInvParts DEF BootDuel
<1>9. CASE DuelEnds(t) \/ EndsAgain(t)
  <2>1. GameOK'
    BY <1>0, <1>9 DEF DuelEnds, EndsAgain, GameOK
  <2>2. TasksOK'
    BY <1>0, <1>9, GotoType DEF DuelEnds, EndsAgain, PC
  <2> QED
    BY <1>0, <1>9, <2>1, <2>2, PartsKept, IInvParts DEF DuelEnds, EndsAgain
<1>10. CASE Advance(t)
  <2>1. SeatsOK'
    BY <1>0, <1>10 DEF Advance, SeatsOK, seats
  <2>2. GameOK'
    BY <1>0, <1>10 DEF Advance, GameOK, game
  <2>3. TasksOK'
    BY <1>0, <1>10, SeedingType, EndType, BecomeType DEF Advance, Player
  <2>4. RowsOK'
    BY <1>0, <1>10, WipeKeepsTeams DEF Advance
  <2> QED
    BY <2>1, <2>2, <2>3, <2>4, IInvParts
<1> QED
  BY <1>1, <1>2, <1>3, <1>4, <1>5, <1>6, <1>7, <1>8, <1>9, <1>10

LEMMA NextKeeps == IInv /\ [Next]_vars => IInv'
<1> SUFFICES ASSUME IInv, [Next]_vars PROVE IInv'
  OBVIOUS
<1>1. CASE Next
  BY <1>1, RequestStep, TaskStep DEF Next
<1>2. CASE UNCHANGED vars
  BY <1>2, PartsKept, IInvParts DEF vars
<1> QED
  BY <1>1, <1>2

LEMMA Inductive == Spec => []IInv
BY InitHolds, NextKeeps, PTL DEF Spec

---------------------------------------------------------------------------
(* What follows *)

\* The rows of the draft and its handlers keep their types: never more than two
\* seats, no flag without a seat, no removed bot that sits again.
THEOREM TypeCorrect == Spec => []TypeOK
<1>1. IInv => TypeOK
  BY DEF IInv
<1> QED
  BY <1>1, Inductive, PTL

\* team:select_starter, and the server choosing for a bot from what it read some
\* queries ago, never give one starter to two players.
THEOREM StartersStayApart == Spec => []StartersApart
<1>1. IInv => StartersApart
  BY DEF IInv
<1> QED
  BY <1>1, Inductive, PTL

\* Replacing a roster, against the player's other requests and the wipe after a
\* duel, leaves it whole or empty, and without its starter.
THEOREM TeamsStayWhole == Spec => []TeamsAreWhole
<1>1. IInv => TeamsAreWhole
  BY DEF IInv
<1> QED
  BY <1>1, Inductive, PTL

---------------------------------------------------------------------------
(* A bot that is ready has its team *)

\* What a handler that seeds a bot has done so far still stands, unless the bot is
\* gone or the latest wipe overtook the seeding.
Armed(s) ==
    s.who \in Bot =>
        /\ s.who \in seated \cup removed
        /\ s.pc = "insert" => s.pick # {}
        /\ s.who \in seated \ overtaken =>
             /\ s.pc \in {"seed_roster", "insert", "seed_ready"} => starter[s.who] # None
             /\ s.pc = "seed_ready" => roster[s.who] # {}
TeamInv == IInv /\ ReadyBotHasTeam /\ \A t \in Task : Armed(task[t])

\* What a step may do to a bot of the room: to take its seat for good, or to leave
\* it what it has of a team.
BotKept(b) ==
    /\ b \in seated \cup removed => b \in seated' \cup removed'
    /\ b \in seated' \ overtaken' => b \in seated \ overtaken \/ b \notin seated \cup removed
    /\ b \in seated' => /\ starter[b] # None => starter'[b] # None
                        /\ roster[b] # {} => roster'[b] # {}

\* After such a step what is left to ask is of the one handler that took it.
LEMMA TeamKept ==
    ASSUME TeamInv, IInv', \A b \in Bot : BotKept(b), ready' \cap Bot \subseteq ready,
           \/ UNCHANGED task
           \/ \E t \in Task, s \in TaskState : Become(t, s) /\ Armed(s)'
    PROVE  TeamInv'
<1>1. ASSUME NEW u \in Task, task'[u] = task[u]
      PROVE  Armed(task[u])'
  <2>1. Armed(task[u])
    BY DEF TeamInv
  <2> QED  BY <1>1, <2>1 DEF Armed, BotKept
<1>2. ASSUME NEW u \in Task
      PROVE  Armed(task[u])'
  <2>1. ASSUME NEW t \in Task, NEW s \in TaskState, Become(t, s), Armed(s)'
        PROVE  Armed(task[u])'
    <3>1. task'[u] = IF u = t THEN s ELSE task[u]
      BY <2>1 DEF TeamInv, IInv, TypeOK, Become
    <3>2. CASE u = t
      <4>1. task'[u] = s
        BY <3>1, <3>2
      <4> QED  BY <2>1, <4>1 DEF Armed
    <3>3. CASE u # t
      BY <1>1, <3>1, <3>3
    <3> QED  BY <3>2, <3>3
  <2> QED  BY <1>1, <2>1
<1>3. ReadyBotHasTeam'
  <2>1. ready \subseteq seated /\ ready' \subseteq seated'
    BY DEF TeamInv, IInv, TypeOK
  <2> QED  BY <2>1 DEF TeamInv, ReadyBotHasTeam, BotKept
<1> QED  BY <1>2, <1>3 DEF TeamInv

\* Nobody's rows or seats change.
LEMMA BotsUntouched ==
    ASSUME UNCHANGED <<seats, teams, overtaken>>
    PROVE  \A b \in Bot : BotKept(b)
BY DEF BotKept, seats, teams

\* A handler goes on, and so does what holds of it.
LEMMA ArmedGoesOn ==
    ASSUME TeamInv, NEW t \in Task, NEW pc \in PC, Goto(t, pc),
           UNCHANGED <<seats, teams, overtaken>>,
           pc \in {"idle", "boot_read", "boot_duel", "seed_taken", "advance"}
    PROVE  \E u \in Task, s \in TaskState : Become(u, s) /\ Armed(s)'
<1>1. PICK s : s = [task[t] EXCEPT !.pc = pc]
  OBVIOUS
<1>2. task[t] \in TaskState /\ Armed(task[t])
  BY DEF TeamInv, IInv, TypeOK
<1>3. s \in TaskState /\ s.pc = pc /\ s.who = task[t].who
  BY <1>1, <1>2 DEF TaskState
<1>4. Armed(s)'
  BY <1>2, <1>3 DEF Armed, seats, teams
<1> QED  BY <1>1, <1>3, <1>4 DEF Goto

LEMMA ArmedEnds ==
    ASSUME NEW t \in Task, End(t)
    PROVE  \E u \in Task, s \in TaskState : Become(u, s) /\ Armed(s)'
<1>1. Idle \in TaskState /\ Idle.who = None
  BY IdleType DEF Idle
<1> QED  BY <1>1, DraftAssumption DEF End, Armed, Player

LEMMA TeamRequests ==
    ASSUME TeamInv, IInv',
           \/ \E p \in Human :
                \/ \E m \in Pokemon : SelectStarter(p, m)
                \/ \E t \in Task, pick \in Roster : SelectRoster(t, p, pick)
                \/ Join(p)
                \/ \E t \in Task : Ready(t, p)
           \/ \E p \in Player : Unseat(p)
           \/ \E t \in Task, b \in Bot : AddBot(t, b)
    PROVE  TeamInv'
<1> USE DraftAssumption
<1>0. SeatsOK /\ RowsOK /\ Human \cap Bot = {}
  BY IInvParts DEF TeamInv
<1>1. ASSUME NEW p \in Human, NEW m \in Pokemon, SelectStarter(p, m) PROVE TeamInv'
  <2>1. \A b \in Bot : starter'[b] = starter[b]
    BY <1>0, <1>1 DEF SelectStarter, RowsOK, Player
  <2>2. \A b \in Bot : BotKept(b)
    BY <1>1, <2>1 DEF SelectStarter, BotKept, seats
  <2> QED  BY <1>1, <2>2, TeamKept DEF SelectStarter
<1>2. ASSUME NEW p \in Human, NEW t \in Task, NEW pick \in Roster, SelectRoster(t, p, pick)
      PROVE  TeamInv'
  <2>1. PICK s : s = [task[t] EXCEPT !.pc = "insert", !.who = p, !.pick = pick, !.gone = roster[p]]
    OBVIOUS
  <2>2. task[t] \in TaskState /\ roster[p] \in SUBSET Pokemon
    BY <1>0 DEF TeamInv, IInv, TypeOK, RowsOK, Player
  <2>3. s \in TaskState /\ s.who = p
    BY <2>1, <2>2 DEF TaskState, PC, Player
  <2>4. Armed(s)' /\ Become(t, s)
    BY <1>0, <1>2, <2>1, <2>3 DEF Armed, SelectRoster, DeleteRoster
  <2>5. \A b \in Bot : BotKept(b)
    BY <1>2, BotsUntouched DEF SelectRoster, DeleteRoster
  <2> QED  BY <1>2, <2>3, <2>4, <2>5, TeamKept DEF SelectRoster, DeleteRoster
<1>3. ASSUME NEW p \in Human, Join(p) PROVE TeamInv'
  <2>1. \A b \in Bot : BotKept(b)
    BY <1>0, <1>3 DEF Join, BotKept, teams
  <2> QED  BY <1>3, <2>1, TeamKept DEF Join
<1>4. ASSUME NEW p \in Human, NEW t \in Task, Ready(t, p) PROVE TeamInv'
  <2>1. \A b \in Bot : BotKept(b)
    BY <1>4, BotsUntouched DEF Ready
  <2>2. \E u \in Task, s \in TaskState : Become(u, s) /\ Armed(s)'
    BY <1>4, ArmedGoesOn DEF Ready, PC
  <2> QED  BY <1>0, <1>4, <2>1, <2>2, TeamKept DEF Ready
<1>5. ASSUME NEW p \in Player, Unseat(p) PROVE TeamInv'
  <2>1. \A b \in Bot \ {p} : starter'[b] = starter[b] /\ roster'[b] = roster[b]
    BY <1>5 DEF Unseat, Wiped, Player
  <2>2. \A b \in Bot : BotKept(b)
    BY <1>0, <1>5, <2>1 DEF Unseat, BotKept, SeatsOK
  <2> QED  BY <1>5, <2>2, TeamKept DEF Unseat
<1>6. ASSUME NEW t \in Task, NEW b \in Bot, AddBot(t, b) PROVE TeamInv'
  <2>1. \A c \in Bot : BotKept(c)
    BY <1>6 DEF AddBot, BotKept, teams
  <2>2. Seeding(b).who = b /\ Seeding(b).pc = "seed_read" /\ Seeding(b) \in TaskState
    BY SeedingType DEF Seeding, Idle, Player
  <2>3. Armed(Seeding(b))'
    BY <1>6, <2>2 DEF Armed, AddBot
  <2> QED  BY <1>6, <2>1, <2>2, <2>3, TeamKept DEF AddBot
<1> QED  BY <1>1, <1>2, <1>3, <1>4, <1>5, <1>6

\* The wipe: nobody is ready, and whoever is past its starter is overtaken.
LEMMA TeamAdvance ==
    ASSUME TeamInv, IInv', NEW t \in Task, Advance(t)
    PROVE  TeamInv'
<1>1. task[t].who \in Bot => task[t].who \in seated \cup removed
  BY DEF TeamInv, Armed
<1>2. ASSUME NEW u \in Task, task'[u] = task[u]
      PROVE  Armed(task[u])'
  <2>1. Armed(task[u])
    BY DEF TeamInv
  <2> QED  BY <1>2, <2>1 DEF Armed, Advance, PastStarter, seats
<1>3. Armed(task[t])'
  <2>1. task'[t] = Idle \/ \E b \in Bot \cap seated : task'[t] = Seeding(b)
    BY DEF TeamInv, IInv, TypeOK, Advance, End, Become
  <2>2. Idle.who = None /\ \A b : Seeding(b).who = b /\ Seeding(b).pc = "seed_read"
    BY DEF Idle, Seeding
  <2> QED  BY <2>1, <2>2, DraftAssumption DEF Armed, Advance, Player, seats
<1>4. \A u \in Task \ {t} : task'[u] = task[u]
  BY DEF TeamInv, IInv, TypeOK, Advance, End, Become
<1>5. \A u \in Task : Armed(task[u])'
  BY <1>2, <1>3, <1>4
<1>6. ReadyBotHasTeam'
  BY DEF ReadyBotHasTeam, Advance
<1> QED  BY <1>5, <1>6 DEF TeamInv

LEMMA TeamTasks ==
    ASSUME TeamInv, IInv', NEW t \in Task,
           \/ InsertRoster(t)
           \/ SeedRead(t) \/ SeedTaken(t) \/ SeedStarter(t) \/ SeedRoster(t) \/ SeedReady(t)
           \/ BootRead(t) \/ BootDuel(t)
           \/ DuelEnds(t) \/ EndsAgain(t) \/ Advance(t)
    PROVE  TeamInv'
<1> DEFINE moved == \E u \in Task, s \in TaskState : Become(u, s) /\ Armed(s)'
           w == task[t].who
<1>0. /\ SeatsOK /\ RowsOK /\ Armed(task[t]) /\ task[t] \in TaskState /\ task \in [Task -> TaskState]
      /\ \A pc \in {"insert", "seed_read", "seed_taken", "seed_starter", "seed_roster", "seed_ready"} :
           At(t, pc) => w \in Player
  BY IInvParts DEF TeamInv, IInv, TypeOK, TasksOwned, Owned, At
<1>1. CASE InsertRoster(t)
  <2>0. w \in Player /\ UNCHANGED <<seats, starter, overtaken, ready>> /\ At(t, "insert")
    BY <1>0, <1>1 DEF InsertRoster
  <2>1. CASE RosterFits(t)
    <3>1. /\ roster'[w] = task[t].pick
          /\ \A b \in Bot \ {w} : roster'[b] = roster[b]
      BY <1>0, <1>1, <2>0, <2>1 DEF InsertRoster, RowsOK, Player
    <3>2. w \in Bot => task[t].pick # {}
      BY <1>0, <2>0 DEF Armed, At
    <3>3. \A b \in Bot : BotKept(b)
      BY <2>0, <3>1, <3>2 DEF BotKept, seats
    <3>4. CASE w \in Bot
      <4>1. PICK s : s = [task[t] EXCEPT !.pc = "seed_ready"]
        OBVIOUS
      <4>2. s \in TaskState /\ s.who = w /\ s.pc = "seed_ready"
        BY <1>0, <4>1 DEF TaskState, PC
      <4>3. Become(t, s)
        BY <1>1, <2>1, <3>4, <4>1 DEF InsertRoster, Goto
      <4>4. Armed(s)'
        BY <1>0, <2>0, <3>1, <3>2, <4>2 DEF Armed, At, seats
      <4> QED  BY <2>0, <3>3, <4>2, <4>3, <4>4, TeamKept
    <3>5. CASE w \notin Bot
      <4>1. moved
        BY <1>1, <2>1, <3>5, ArmedEnds DEF InsertRoster
      <4> QED  BY <2>0, <3>3, <4>1, TeamKept
    <3> QED  BY <3>4, <3>5
  <2>2. CASE ~RosterFits(t)
    <3>1. \A b \in Bot : BotKept(b)
      BY <1>1, <2>0, <2>2, BotsUntouched DEF InsertRoster, teams
    <3>2. moved
      BY <1>1, <2>2, ArmedEnds DEF InsertRoster
    <3> QED  BY <2>0, <3>1, <3>2, TeamKept
  <2> QED  BY <2>1, <2>2
<1>2. CASE SeedRead(t) \/ BootRead(t) \/ BootDuel(t) \/ DuelEnds(t) \/ EndsAgain(t)
  <2>1. UNCHANGED <<seats, ready, teams, overtaken>>
    BY <1>2 DEF SeedRead, BootRead, BootDuel, DuelEnds, EndsAgain
  <2>2. End(t) \/ Goto(t, "seed_taken") \/ Goto(t, "boot_duel") \/ Goto(t, "advance")
    BY <1>2 DEF SeedRead, BootRead, BootDuel, DuelEnds, EndsAgain
  <2>3. moved
    BY <2>1, <2>2, ArmedEnds, ArmedGoesOn DEF PC
  <2> QED  BY <2>1, <2>3, BotsUntouched, TeamKept
<1>3. CASE SeedTaken(t)
  <2>1. UNCHANGED <<seats, ready, teams, overtaken>>
    BY <1>3 DEF SeedTaken
  <2>2. PICK s : s = [task[t] EXCEPT !.pc = "seed_starter", !.seen = TakenStarters]
    OBVIOUS
  <2>3. TakenStarters \in SUBSET Pokemon
    BY <1>0 DEF TakenStarters, RowsOK
  <2>4. s \in TaskState /\ s.who = w /\ s.pc = "seed_starter"
    BY <1>0, <2>2, <2>3 DEF TaskState, PC
  <2>5. Armed(s)'
    BY <1>0, <2>1, <2>4 DEF Armed, seats
  <2>6. moved
    BY <1>3, <2>2, <2>4, <2>5, ArmedEnds DEF SeedTaken
  <2> QED  BY <2>1, <2>6, BotsUntouched, TeamKept
<1>4. CASE SeedStarter(t)
  <2>0. w \in Player /\ UNCHANGED <<seats, ready, roster, overtaken>>
    BY <1>0, <1>4 DEF SeedStarter
  <2>1. CASE End(t) /\ UNCHANGED starter
    BY <2>0, <2>1, BotsUntouched, ArmedEnds, TeamKept DEF teams
  <2>2. ASSUME NEW m \in Starter, starter' = [starter EXCEPT ![w] = m],
               Become(t, [task[t] EXCEPT !.pc = "seed_roster", !.seen = {m}])
        PROVE  TeamInv'
    <3>1. m # None /\ starter'[w] = m /\ \A b \in Bot \ {w} : starter'[b] = starter[b]
      BY <1>0, <2>0, <2>2, DraftAssumption DEF RowsOK, Player
    <3>2. \A b \in Bot : BotKept(b)
      BY <2>0, <3>1 DEF BotKept, seats
    <3>3. PICK s : s = [task[t] EXCEPT !.pc = "seed_roster", !.seen = {m}]
      OBVIOUS
    <3>4. s \in TaskState /\ s.who = w /\ s.pc = "seed_roster"
      BY <1>0, <3>3, DraftAssumption DEF TaskState, PC
    <3>5. Armed(s)'
      BY <1>0, <2>0, <3>1, <3>4 DEF Armed, seats
    <3> QED  BY <2>0, <2>2, <3>2, <3>3, <3>4, <3>5, TeamKept
  <2> QED  BY <1>4, <2>1, <2>2 DEF SeedStarter
<1>5. CASE SeedRoster(t)
  <2>1. PICK pick \in Roster : DeleteRoster(t, w, pick)
    BY <1>5 DEF SeedRoster
  <2>2. w \in Player /\ UNCHANGED <<seats, ready, teams, overtaken>> /\ At(t, "seed_roster")
    BY <1>0, <1>5, <2>1 DEF SeedRoster, DeleteRoster
  <2>3. PICK s : s = [task[t] EXCEPT !.pc = "insert", !.who = w, !.pick = pick, !.gone = roster[w]]
    OBVIOUS
  <2>4. s \in TaskState /\ s.who = w /\ s.pc = "insert" /\ s.pick = pick
    BY <1>0, <2>2, <2>3 DEF TaskState, PC, RowsOK
  <2>5. pick # {}
    BY FS_EmptySet, DraftAssumption DEF Roster
  <2>6. Armed(s)'
    BY <1>0, <2>2, <2>4, <2>5 DEF Armed, At, seats, teams
  <2> QED  BY <2>1, <2>2, <2>3, <2>4, <2>6, BotsUntouched, TeamKept DEF DeleteRoster
<1>6. CASE SeedReady(t)
  <2>1. UNCHANGED <<seats, teams, overtaken>> /\ ready' = ready \cup ({w} \cap seated)
    BY <1>6 DEF SeedReady
  <2>2. \A u \in Task : task'[u] = task[u] \/ (u = t /\ task'[u] = Idle)
    BY <1>0, <1>6 DEF SeedReady, End, Become
  <2>3. Idle.who = None
    BY DEF Idle
  <2>4. \A u \in Task : Armed(task[u])'
    BY <2>1, <2>2, <2>3, DraftAssumption DEF TeamInv, Armed, Player, seats, teams
  <2>5. ReadyBotHasTeam'
    BY <1>0, <1>6, <2>1 DEF TeamInv, ReadyBotHasTeam, Armed, SeedReady, At, seats, teams
  <2> QED  BY <2>4, <2>5 DEF TeamInv
<1>7. CASE Advance(t)
  BY <1>7, TeamAdvance
<1> QED  BY <1>1, <1>2, <1>3, <1>4, <1>5, <1>6, <1>7

\* Two seedings of one bot, players who pick the starter it has read as free and
\* the wipe between its queries: a bot that is ready all the same has its whole
\* team, if no wipe came after its starter.
THEOREM ReadyBotsHaveTeams == Spec => []ReadyBotHasTeam
<1>1. Init => TeamInv
  <2> SUFFICES ASSUME Init PROVE TeamInv
    OBVIOUS
  <2>1. \A t \in Task : task[t].who = None
    BY DEF Init, Idle
  <2>2. \A t \in Task : Armed(task[t])
    BY <2>1, DraftAssumption DEF Armed, Player
  <2> QED  BY <2>2, InitHolds DEF Init, TeamInv, ReadyBotHasTeam
<1>2. TeamInv /\ [Next]_vars => TeamInv'
  <2> SUFFICES ASSUME TeamInv, [Next]_vars PROVE TeamInv'
    OBVIOUS
  <2>1. IInv'
    BY NextKeeps DEF TeamInv
  <2>2. CASE Next
    BY <2>1, <2>2, TeamRequests, TeamTasks DEF Next
  <2>3. CASE UNCHANGED vars
    BY <2>1, <2>3, BotsUntouched, TeamKept DEF vars
  <2> QED  BY <2>2, <2>3
<1>3. TeamInv => ReadyBotHasTeam
  BY DEF TeamInv
<1> QED  BY <1>1, <1>2, <1>3, PTL DEF Spec

===========================================================================
