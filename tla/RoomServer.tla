---------------------------- MODULE RoomServer ----------------------------
(***************************************************************************)
(* One room from its lobby to its ranking, as the backend runs it: socket  *)
(* handlers, timer callbacks and the lifecycle that follows every finished *)
(* duel, interleaved at their awaits over the rows rooms, room_players and *)
(* duels, the phase store and the two grace-timer registries.  A room of   *)
(* two plays duels and rematches, a room of four a bracket.                *)
(*                                                                         *)
(* A task is one handler in flight; task[t].pc names the query it awaits.  *)
(* One action is one query, or one transaction that locks the room row,    *)
(* with the code that runs up to the next await.  What happens inside a    *)
(* duel is DuelServer's subject: here a duel goes live when both leads are *)
(* chosen and finishes once, with any winner.                              *)
(***************************************************************************)
EXTENDS Naturals, Sequences, FiniteSets

CONSTANTS
    Human,        \* players with a socket
    Bot,          \* players without one
    Size,         \* rooms.max_players
    Seated,       \* the humans who have joined when the behaviour starts
    SetUp,        \* those of them who are ready by then
    Task,         \* slots for handlers in flight
    Requests,     \* the kinds of request the players send
    Serial,       \* the kinds of which one at most is in flight
    Faulty,       \* the awaits whose query may fail
    MaxDuels,     \* bound on the duels of the room
    MaxAbsences,  \* bound on leaves and lost sockets
    MaxRestarts,  \* bound on restarts of the process
    Nobody        \* winner_id IS NULL

Player == Human \cup Bot

ASSUME RoomAssumption ==
    /\ Size \in {2, 4}
    /\ IsFiniteSet(Player)
    /\ Human \cap Bot = {}
    /\ Seated \subseteq Human /\ Seated # {} /\ Cardinality(Seated) <= Size
    /\ SetUp \subseteq Seated /\ Cardinality(SetUp) < Size
    /\ Serial \subseteq {"ready"}
    /\ Requests \subseteq {"reserve", "join", "ready", "leave", "drop", "bot", "unbot"}
    /\ {MaxDuels, MaxAbsences, MaxRestarts} \subseteq Nat
    /\ Nobody \notin Player

VARIABLES
    status,     \* rooms.status, "gone" once the row is deleted
    seats,      \* room_players: a seat or NoSeat for each player
    duels,      \* the room's duels in order of id, with their phase entry
    sock,       \* "in": a socket whose data.roomId is this room,
                \* "on": a socket without room, "off": none
    grace,      \* players whose lobby reconnect window is running
    walkover,   \* players whose bracket walkover window is running
    absences,   \* leaves and lost sockets so far
    restarts,   \* restarts so far
    task        \* handlers in flight

timers == <<grace, walkover>>
world  == <<sock, absences, restarts>>
vars   == <<status, seats, duels, sock, grace, walkover, absences, restarts, task>>

Seat   == [ready : BOOLEAN, connected : BOOLEAN, rank : 0..4]  \* 0: NULL
NoSeat == [ready |-> FALSE, connected |-> FALSE, rank |-> 5]
NewSeat == [ready |-> FALSE, connected |-> TRUE, rank |-> 0]

DuelId == 1..MaxDuels
NoDuel == 0
Round  == {"unica", "semifinal", "final", "tercer_puesto"}
Duel   == [round  : Round,
           pair   : SUBSET Player,
           status : {"pending", "in_progress", "finished"},
           winner : Player \cup {Nobody},
           phase  : {"none", "lead_selection", "in_progress"},
           leads  : SUBSET Player,    \* those with a pokemon on the field
           marked : SUBSET Player]    \* leads ready in RoundStateStore, in memory

PC == {"idle", "join_mark", "boot_read", "boot_duel", "semi_a", "semi_b",
       "close", "unseat", "unseat_keep", "unseat_room", "leave_mark", "drop_mark", "bracket_mark",
       "bracket_find", "walk_find", "walk_write", "forfeit", "advance",
       "seed_bots", "final", "third", "arm"}

TaskState == [pc      : PC,
              who     : Player \cup {Nobody},
              kind    : {"none", "join", "ready", "leave", "drop", "bot", "timer", "play"},
              duel    : DuelId \cup {NoDuel},    \* the duel found or created
              pairA   : SUBSET Player,           \* the pairs to be created
              pairB   : SUBSET Player]

Idle == [pc |-> "idle", who |-> Nobody, kind |-> "none", duel |-> NoDuel,
         pairA |-> {}, pairB |-> {}]

TypeOK ==
    /\ status \in {"waiting", "in_progress", "finished", "aborted", "gone"}
    /\ seats \in [Player -> Seat \cup {NoSeat}]
    /\ duels \in Seq(Duel) /\ Len(duels) <= MaxDuels
    /\ sock \in [Human -> {"off", "on", "in"}]
    /\ grace \subseteq Human
    /\ walkover \subseteq Human
    /\ absences \in 0..MaxAbsences
    /\ restarts \in 0..MaxRestarts
    /\ task \in [Task -> TaskState]

\* The players of Seated have joined the room over their sockets, and some
\* of them, not all the room waits for, have got ready.
Init ==
    /\ status = "waiting"
    /\ seats = [p \in Player |-> IF p \in Seated THEN [NewSeat EXCEPT !.ready = p \in SetUp]
                                            ELSE NoSeat]
    /\ duels = <<>>
    /\ sock = [p \in Human |-> IF p \in Seated THEN "in" ELSE "on"]
    /\ grace = {}
    /\ walkover = {}
    /\ absences = 0
    /\ restarts = 0
    /\ task = [t \in Task |-> Idle]

---------------------------------------------------------------------------
(* Task bookkeeping. *)

At(t, pc)     == task[t].pc = pc
Become(t, s)  == task' = [task EXCEPT ![t] = s]
Goto(t, pc)   == Become(t, [task[t] EXCEPT !.pc = pc])
End(t)        == Become(t, Idle)
Begin(t, kind, p, pc) == Become(t, [Idle EXCEPT !.pc = pc, !.who = p, !.kind = kind])

InFlight(kind, p) == \E t \in Task : task[t].kind = kind /\ task[t].who = p

\* The handler is over; room:leave also clears socket.data.roomId, unless that
\* socket is gone.
Unroomed(t) ==
    LET p == task[t].who IN
    IF task[t].kind = "leave" /\ sock[p] = "in" THEN [sock EXCEPT ![p] = "on"] ELSE sock
Finish(t) == End(t) /\ sock' = Unroomed(t)

---------------------------------------------------------------------------
(* What the handlers ask of the rows. *)

Occupied  == {p \in Player : seats[p] # NoSeat}
Absent    == {p \in Occupied : ~seats[p].connected}
AllReady  == Cardinality(Occupied) = Size /\ \A p \in Occupied : seats[p].ready
Bracket   == Size = 4 /\ status = "in_progress"
Unfinished(i) == duels[i].status # "finished"

ActiveDuels(p)  == {i \in DOMAIN duels : p \in duels[i].pair /\ duels[i].status = "in_progress"}
PendingDuels(p) == {i \in DOMAIN duels : p \in duels[i].pair /\ duels[i].status = "pending"}
OfRound(r)      == {i \in DOMAIN duels : duels[i].round = r}
First(S)        == CHOOSE i \in S : \A j \in S : i <= j
opponentOf(p, i) == CHOOSE q \in duels[i].pair : q # p \/ duels[i].pair = {p}
LoserOf(i)      == opponentOf(duels[i].winner, i)

Wins(p) == Cardinality({i \in DOMAIN duels : duels[i].status = "finished" /\ duels[i].winner = p})
\* The latest finished duel with a winner, if there is one, breaks a tie.
Decided == {i \in DOMAIN duels : duels[i].status = "finished" /\ duels[i].winner # Nobody}
Tiebreak(seat) ==
    IF Decided = {} THEN seat
    ELSE duels[CHOOSE i \in Decided : \A j \in Decided : j <= i].winner

\* finalizeDuelSideEffects evicts what memory holds; nothing reads the rows of
\* the teams again.
Ended(d, w) == [d EXCEPT !.status = "finished", !.winner = w, !.phase = "none",
                         !.leads = {}, !.marked = {}]
Finished(i, w) == [duels EXCEPT ![i] = Ended(@, w)]
Entered(d) == [d EXCEPT !.phase = "lead_selection"]
LeadSelection(ds, i) == [ds EXCEPT ![i] = Entered(@)]

\* createDuelFromRoom: the unfinished duel of that round and pair, else a new one.
ExistingPending(pair, round) ==
    {i \in OfRound(round) : duels[i].status = "pending" /\ duels[i].pair = pair}
ExistingNever(pair, round) == {}
Existing(pair, round) == {i \in OfRound(round) : Unfinished(i) /\ duels[i].pair = pair}
NewDuel(pair, round) == [round |-> round, pair |-> pair, status |-> "pending",
                         winner |-> Nobody, phase |-> "none", leads |-> {}, marked |-> {}]
Created(pair, round) ==
    IF Existing(pair, round) # {} THEN duels ELSE Append(duels, NewDuel(pair, round))
CreatedId(pair, round) ==
    IF Existing(pair, round) # {} THEN First(Existing(pair, round)) ELSE Len(duels) + 1
\* The bound on duels is a bound on insertions only.
Creatable(pair, round) == Existing(pair, round) # {} \/ Len(duels) < MaxDuels
\* The room is set in_progress whenever a duel is inserted, whatever its status.
StatusOnCreate(pair, round) == IF Existing(pair, round) # {} THEN status ELSE "in_progress"

---------------------------------------------------------------------------
(* POST /api/rooms/:code/join, and the bots of a room *)

CanSeat(p) == status = "waiting" /\ p \notin Occupied /\ Cardinality(Occupied) < Size

\* joinRoom: a seat taken before the socket of the player joins.
Reserve(p) ==
    /\ CanSeat(p)
    /\ seats' = [seats EXCEPT ![p] = NewSeat]
    /\ UNCHANGED <<status, duels, timers, world, task>>

\* createBot; the bot gets its team and its ready flag in a later query.
AddBot(t, b) ==
    /\ At(t, "idle")
    /\ CanSeat(b)
    /\ Occupied \cap Human # {}
    /\ seats' = [seats EXCEPT ![b] = NewSeat]
    /\ Begin(t, "bot", b, "seed_bots")
    /\ UNCHANGED <<status, duels, timers, world>>

\* autoSelectBotTeam, for the new bot or for every bot seat after a 1v1 duel.
SeedBots(t) ==
    LET seeded == Occupied \cap (IF task[t].kind = "bot" THEN {task[t].who} ELSE Bot)
    IN  /\ At(t, "seed_bots")
        /\ seats' = [p \in Player |->
                       IF p \in seeded THEN [seats[p] EXCEPT !.ready = TRUE] ELSE seats[p]]
        /\ Finish(t)
        /\ UNCHANGED <<status, duels, timers, absences, restarts>>

\* removeBot looks at the requester's seat, never at the status of the room, and
\* that seat keeps the room from being deleted.
RemoveBot(b) ==
    /\ b \in Occupied
    /\ Occupied \cap Human # {}
    /\ seats' = [seats EXCEPT ![b] = NoSeat]
    /\ UNCHANGED <<status, duels, timers, world, task>>

---------------------------------------------------------------------------
(* room:join *)

\* joinOrResumeRoom: a seat is resumed whatever the status, a new one needs a
\* free place in a waiting room.  The socket then belongs to the room and both
\* windows of the player are cancelled.
\* A socket joins once, and again only after its room:leave has been handled:
\* a second room:join of a socket in the room finds no window to cancel.
Join(t, p) ==
    /\ At(t, "idle")
    /\ sock[p] # "in"
    /\ ~InFlight("leave", p)
    /\ status # "gone"
    /\ p \in Occupied \/ CanSeat(p)
    /\ seats' = IF p \in Occupied THEN seats ELSE [seats EXCEPT ![p] = NewSeat]
    /\ sock' = [sock EXCEPT ![p] = "in"]
    /\ grace' = grace \ {p}
    /\ walkover' = walkover \ {p}
    /\ Begin(t, "join", p, "join_mark")
    /\ UNCHANGED <<status, duels, absences, restarts>>

MarkedAnyway(p, value) == [seats EXCEPT ![p].connected = value]
Marked(p, value) ==
    IF p \in Occupied THEN [seats EXCEPT ![p].connected = value] ELSE seats

JoinMark(t) ==
    /\ At(t, "join_mark")
    /\ seats' = Marked(task[t].who, TRUE)
    /\ Finish(t)
    /\ UNCHANGED <<status, duels, timers, absences, restarts>>

---------------------------------------------------------------------------
(* room:ready and the bootstrap of duels *)

\* The flag is taken back in the same way; here only the end of a duel does.
Ready(t, p) ==
    /\ At(t, "idle")
    /\ "ready" \in Serial => \A u \in Task : task[u].kind # "ready"
    /\ sock[p] = "in"
    /\ p \in Occupied /\ ~seats[p].ready
    /\ seats' = [seats EXCEPT ![p].ready = TRUE]
    /\ Begin(t, "ready", Nobody, "boot_read")
    /\ UNCHANGED <<status, duels, timers, world>>

\* bootstrapDuelIfReady and bootstrapBracketIfReady act on what they read here.
\* The four are shuffled into two pairs.
BootableOnline == AllReady /\ Absent = {} /\ status = "waiting"
Bootable == AllReady /\ status \in (IF Size = 2 THEN {"waiting", "in_progress"} ELSE {"waiting"})

BootRead(t) ==
    /\ At(t, "boot_read")
    /\ \/ /\ Bootable /\ Size = 2
          /\ Become(t, [task[t] EXCEPT !.pc = "boot_duel", !.pairA = Occupied])
       \/ /\ Bootable /\ Size = 4
          /\ \E pair \in SUBSET Occupied :
               /\ Cardinality(pair) = 2
               /\ Become(t, [task[t] EXCEPT !.pc = "semi_a", !.pairA = pair,
                                            !.pairB = Occupied \ pair])
       \/ ~Bootable /\ End(t)
    /\ UNCHANGED <<status, seats, duels, timers, world>>

\* createDuelFromRoom; without the room row the insertion fails.
CreateDuel(pair, round) ==
    /\ Creatable(pair, round)
    /\ duels' = Created(pair, round)
    /\ status' = StatusOnCreate(pair, round)

BootDuel(t) ==
    LET pair == task[t].pairA IN
    /\ At(t, "boot_duel")
    /\ status # "gone"
    /\ Creatable(pair, "unica")
    /\ duels' = LeadSelection(Created(pair, "unica"), CreatedId(pair, "unica"))
    /\ status' = StatusOnCreate(pair, "unica")
    /\ End(t)
    /\ UNCHANGED <<seats, timers, world>>

\* The first of two duels created in a row: semifinal A, or the final.
CreateFirst(t, round, next) ==
    LET pair == task[t].pairA IN
    /\ status # "gone"
    /\ CreateDuel(pair, round)
    /\ Become(t, [task[t] EXCEPT !.pc = next, !.duel = CreatedId(pair, round)])
    /\ UNCHANGED <<seats, timers, world>>

\* The second: only then do both enter lead selection.
CreateSecond(t, round) ==
    LET pair == task[t].pairB IN
    /\ status # "gone"
    /\ Creatable(pair, round)
    /\ duels' = LeadSelection(LeadSelection(Created(pair, round), CreatedId(pair, round)),
                              task[t].duel)
    /\ status' = StatusOnCreate(pair, round)
    /\ UNCHANGED <<seats, timers, world>>

SemiA(t) == At(t, "semi_a") /\ CreateFirst(t, "semifinal", "semi_b")
SemiB(t) == At(t, "semi_b") /\ CreateSecond(t, "semifinal") /\ End(t)

\* The room was deleted in between: the handler ends with the failed insertion.
CreateFails(t) ==
    /\ task[t].pc \in {"boot_duel", "semi_a", "semi_b", "final", "third"}
    /\ status = "gone"
    /\ Finish(t)
    /\ UNCHANGED <<status, seats, duels, timers, absences, restarts>>

---------------------------------------------------------------------------
(* room:leave, the loss of the socket, and the two grace windows *)

\* Both windows are cancelled first; a leave between the rounds of a bracket
\* is an immediate walkover that keeps the seat.
Leave(t, p) ==
    /\ At(t, "idle")
    /\ sock[p] = "in"
    /\ absences < MaxAbsences
    /\ absences' = absences + 1
    /\ grace' = grace \ {p}
    /\ walkover' = walkover \ {p}
    /\ Begin(t, "leave", p, IF Bracket THEN "leave_mark" ELSE "close")
    /\ UNCHANGED <<status, seats, duels, sock, restarts>>

LeaveMark(t) ==
    /\ At(t, "leave_mark")
    /\ seats' = Marked(task[t].who, FALSE)
    /\ Goto(t, "walk_find")
    /\ UNCHANGED <<status, duels, timers, world>>

\* A player with a live duel forfeits it and nothing else is done; otherwise the
\* seat is kept, with a window that depends on what the room is doing.
Drop(t, p) ==
    /\ At(t, "idle")
    /\ sock[p] # "off"
    /\ absences < MaxAbsences
    /\ absences' = absences + 1
    /\ sock' = [sock EXCEPT ![p] = "off"]
    /\ \/ \E i \in ActiveDuels(p) :
            Become(t, [Idle EXCEPT !.pc = "forfeit", !.who = p, !.kind = "drop", !.duel = i])
       \/ /\ ActiveDuels(p) = {}
          /\ IF sock[p] = "in"
               THEN Begin(t, "drop", p, IF Bracket THEN "bracket_mark" ELSE "drop_mark")
               ELSE UNCHANGED task
    /\ UNCHANGED <<status, seats, duels, timers, restarts>>

DropMark(t) ==
    /\ At(t, "drop_mark")
    /\ seats' = Marked(task[t].who, FALSE)
    /\ grace' = grace \cup {task[t].who}
    /\ End(t)
    /\ UNCHANGED <<status, duels, walkover, world>>

BracketMark(t) ==
    /\ At(t, "bracket_mark")
    /\ seats' = Marked(task[t].who, FALSE)
    /\ Goto(t, "bracket_find")
    /\ UNCHANGED <<status, duels, timers, world>>

BracketFind(t) ==
    LET p == task[t].who IN
    /\ At(t, "bracket_find")
    /\ walkover' = IF PendingDuels(p) # {} THEN walkover \cup {p} ELSE walkover
    /\ End(t)
    /\ UNCHANGED <<status, seats, duels, grace, world>>

\* A window runs out: its entry is deleted, its callback starts.
GraceExpires(t, p) ==
    /\ At(t, "idle")
    /\ p \in grace
    /\ grace' = grace \ {p}
    /\ Begin(t, "timer", p, "close")
    /\ UNCHANGED <<status, seats, duels, walkover, world>>

WalkoverExpires(t, p) ==
    /\ At(t, "idle")
    /\ p \in walkover
    /\ walkover' = walkover \ {p}
    /\ Begin(t, "timer", p, "walk_find")
    /\ UNCHANGED <<status, seats, duels, grace, world>>

---------------------------------------------------------------------------
(* leaveOrCloseRoom *)

LeastWinner1v1(seat1) ==
    LET seat2 == CHOOSE q \in Occupied : q # seat1
    IN  IF Wins(seat1) < Wins(seat2) THEN seat1 ELSE seat2

\* computeOneVOneRanks: by wins, then by the latest winner, or by whichever
\* seat the query returns first when no duel was won.
Winner1v1(seat1) ==
    LET seat2 == CHOOSE q \in Occupied : q # seat1
    IN  CASE Wins(seat1) > Wins(seat2) -> seat1
          [] Wins(seat2) > Wins(seat1) -> seat2
          [] OTHER -> Tiebreak(seat1)

RankedFirst(w) ==
    [p \in Player |-> IF p \in Occupied THEN [seats[p] EXCEPT !.rank = IF p = w THEN 1 ELSE 2]
                                       ELSE seats[p]]

\* Only a room of two with a duel played and both seats taken is ranked and
\* closed, or left as it is when the tie is broken for a player who has no seat
\* any more (seat.nickname throws: ROLLBACK); a closed room is left alone; in
\* all other cases the seat goes, in a second transaction.
Close(t) ==
    /\ At(t, "close")
    /\ \/ /\ status = "in_progress" /\ Size = 2 /\ Cardinality(Occupied) = 2
          /\ \E seat1 \in Occupied :
               IF Winner1v1(seat1) \in Occupied
                 THEN /\ seats' = RankedFirst(Winner1v1(seat1))
                      /\ status' = "finished"
                      /\ Finish(t)
                 ELSE End(t) /\ UNCHANGED <<status, seats, sock>>
       \/ /\ status \in {"finished", "aborted", "gone"}
          /\ Finish(t)
          /\ UNCHANGED <<status, seats>>
       \/ /\ status = "waiting" \/ (status = "in_progress" /\ ~(Size = 2 /\ Cardinality(Occupied) = 2))
          /\ Goto(t, "unseat")
          /\ UNCHANGED <<status, seats, sock>>
    /\ UNCHANGED <<duels, timers, absences, restarts>>

\* leaveRoom, in a transaction of its own and without the lock of the room row:
\* the seat is deleted and the others counted, which still shows a seat that
\* another leave has deleted and not committed.  Only a second leave of the same
\* player waits for the first.
Leaving == {t \in Task : task[t].pc \in {"unseat_keep", "unseat_room"}}
LastSeatNever(p) == FALSE
LastSeat(p) == Occupied \subseteq {p}

Unseat(t) ==
    LET p == task[t].who IN
    /\ At(t, "unseat")
    /\ \A u \in Leaving : task[u].who # p
    /\ Goto(t, IF LastSeat(p) THEN "unseat_room" ELSE "unseat_keep")
    /\ UNCHANGED <<status, seats, duels, timers, world>>

\* The commit; with no seat counted and the room waiting, the room is deleted,
\* and with it whatever seat was taken meanwhile.
UnseatEnds(t) ==
    LET p == task[t].who IN
    /\ \/ /\ At(t, "unseat_room") /\ status = "waiting"
          /\ status' = "gone"
          /\ seats' = [q \in Player |-> NoSeat]
       \/ /\ At(t, "unseat_keep") \/ (At(t, "unseat_room") /\ status # "waiting")
          /\ seats' = [seats EXCEPT ![p] = NoSeat]
          /\ UNCHANGED status
    /\ Finish(t)
    /\ UNCHANGED <<duels, timers, absences, restarts>>

---------------------------------------------------------------------------
(* How duels go live and end *)

\* The choice of a lead, refused with a pokemon already on the field; a bot
\* chooses when its rival does.  Two leads marked make the duel live.
Led(d, p) ==
    LET new    == {p} \cup ((d.pair \cap Bot) \ d.leads)
        marked == d.marked \cup new
        live   == marked = d.pair
    IN  [d EXCEPT !.leads  = @ \cup new,
                  !.marked = marked,
                  !.phase  = IF live THEN "in_progress" ELSE @,
                  !.status = IF live /\ @ = "pending" THEN "in_progress" ELSE @]

SelectLead(p, i) ==
    /\ sock[p] # "off"
    /\ p \in duels[i].pair \ duels[i].leads
    /\ duels[i].phase = "lead_selection"
    /\ duels' = [duels EXCEPT ![i] = Led(@, p)]
    /\ UNCHANGED <<status, seats, timers, world, task>>

\* A knock-out, which takes somebody who plays, or the surrender of the other
\* player, whatever the phase: committed once and followed by the lifecycle.
DuelEnds(t, i, w) ==
    /\ At(t, "idle")
    /\ Unfinished(i)
    /\ w \in duels[i].pair
    /\ \E p \in duels[i].pair \cap Human :
         /\ sock[p] # "off"
         /\ p # w \/ (duels[i].status = "in_progress" /\ duels[i].phase = "in_progress")
    /\ duels' = Finished(i, w)
    /\ Begin(t, "play", Nobody, "advance")
    /\ UNCHANGED <<status, seats, timers, world>>

ForfeitOnly(t) ==
    LET i == task[t].duel IN
    /\ At(t, "forfeit")
    /\ duels' = IF Unfinished(i) THEN Finished(i, opponentOf(task[t].who, i)) ELSE duels
    /\ End(t)
    /\ UNCHANGED <<status, seats, timers, world>>

\* finishDuel of the disconnect handler; the lifecycle runs in any case.
Forfeit(t) ==
    LET i == task[t].duel IN
    /\ At(t, "forfeit")
    /\ duels' = IF Unfinished(i) THEN Finished(i, opponentOf(task[t].who, i)) ELSE duels
    /\ Goto(t, "advance")
    /\ UNCHANGED <<status, seats, timers, world>>

\* walkoverPendingDuel
WalkFind(t) ==
    LET pending == PendingDuels(task[t].who) IN
    /\ At(t, "walk_find")
    /\ IF pending = {}
         THEN Finish(t)
         ELSE /\ Become(t, [task[t] EXCEPT !.pc = "walk_write", !.duel = First(pending)])
              /\ UNCHANGED sock
    /\ UNCHANGED <<status, seats, duels, timers, absences, restarts>>

WalkWrite(t) ==
    LET i == task[t].duel IN
    /\ At(t, "walk_write")
    /\ IF Unfinished(i)
         THEN /\ duels' = Finished(i, opponentOf(task[t].who, i))
              /\ Goto(t, "advance")
              /\ UNCHANGED sock
         ELSE Finish(t) /\ UNCHANGED duels
    /\ UNCHANGED <<status, seats, timers, absences, restarts>>

---------------------------------------------------------------------------
(* advanceTournamentOrRematch *)

Semis     == OfRound("semifinal")
SemisDoneEither == Cardinality(Semis) = 2 /\ \E i \in Semis : ~Unfinished(i)
SemisDone == Cardinality(Semis) = 2 /\ \A i \in Semis : ~Unfinished(i)
HasFinals == OfRound("final") # {} /\ OfRound("tercer_puesto") # {}
\* duels.find returns the one with the lowest id.
TheFinal  == First(OfRound("final"))
TheThird  == First(OfRound("tercer_puesto"))
FinalsDoneEither == HasFinals /\ (~Unfinished(TheFinal) \/ ~Unfinished(TheThird))
FinalsDone == HasFinals /\ ~Unfinished(TheFinal) /\ ~Unfinished(TheThird)

\* computeFourPlayerRanks
BracketRank(p) ==
    CASE p = duels[TheFinal].winner -> 1
      [] p = LoserOf(TheFinal)      -> 2
      [] p = duels[TheThird].winner -> 3
      [] p = LoserOf(TheThird)      -> 4
      [] OTHER -> seats[p].rank

\* A rematch is asked for anew: both ready flags are reset, whatever the status
\* of the room, and bots get ready again.
Rematch(t) ==
    /\ At(t, "advance")
    /\ Size = 2 /\ status # "gone"
    /\ seats' = [p \in Player |->
                   IF p \in Occupied THEN [seats[p] EXCEPT !.ready = FALSE] ELSE seats[p]]
    /\ Goto(t, "seed_bots")
    /\ UNCHANGED <<status, duels, timers, world>>

\* The room lock is released before the finals are created.
PairFinals(t) ==
    /\ At(t, "advance")
    /\ Bracket /\ SemisDone /\ ~HasFinals
    /\ Become(t, [task[t] EXCEPT !.pc    = "final",
                                 !.pairA = {duels[i].winner : i \in Semis},
                                 !.pairB = {LoserOf(i) : i \in Semis}])
    /\ UNCHANGED <<status, seats, duels, timers, world>>

RankBracket(t) ==
    /\ At(t, "advance")
    /\ Bracket /\ SemisDone /\ FinalsDone
    /\ seats' = [p \in Player |->
                   IF p \in Occupied THEN [seats[p] EXCEPT !.rank = BracketRank(p)] ELSE seats[p]]
    /\ status' = "finished"
    /\ Finish(t)
    /\ UNCHANGED <<duels, timers, absences, restarts>>

\* A round is still being played, or the room is closed.
AwaitRound(t) ==
    /\ At(t, "advance")
    /\ \/ status = "gone"
       \/ Size = 4 /\ ~(Bracket /\ SemisDone /\ (HasFinals => FinalsDone))
    /\ Finish(t)
    /\ UNCHANGED <<status, seats, duels, timers, absences, restarts>>

Final(t) == At(t, "final") /\ CreateFirst(t, "final", "third")
Third(t) == At(t, "third") /\ CreateSecond(t, "tercer_puesto") /\ Goto(t, "arm")

\* armWalkoversForDisconnected
ArmAbsent(t) ==
    /\ At(t, "arm")
    /\ walkover' = walkover \cup (Absent \cap Human)
    /\ Finish(t)
    /\ UNCHANGED <<status, seats, duels, grace, absences, restarts>>

---------------------------------------------------------------------------
(* Faults: a query that fails, the process that restarts *)

\* withWsHandler, or the catch of a timer callback, ends the handler there.
QueryFails(t) ==
    /\ task[t].pc \in Faulty
    /\ End(t)
    /\ UNCHANGED <<status, seats, duels, timers, world>>

\* A live duel ends without a winner, and no phase or mark outlives the process.
Reconciled(d) == [d EXCEPT !.status = IF @ = "in_progress" THEN "finished" ELSE @,
                           !.phase = "none", !.marked = {}]

\* Memory and sockets are lost; reconcileOrphanedDuels and
\* reconcileStaleWaitingRooms run before the first connection.
Restart ==
    LET live == \E i \in DOMAIN duels : duels[i].status = "in_progress" IN
    /\ restarts < MaxRestarts
    /\ restarts' = restarts + 1
    /\ status' = CASE status = "in_progress" /\ live -> "aborted"
                   [] status = "waiting" -> "gone"
                   [] OTHER -> status
    /\ duels' = [i \in DOMAIN duels |-> Reconciled(duels[i])]
    /\ seats' = IF status = "waiting" THEN [p \in Player |-> NoSeat] ELSE seats
    /\ sock' = [p \in Human |-> "off"]
    /\ grace' = {}
    /\ walkover' = {}
    /\ task' = [t \in Task |-> Idle]
    /\ UNCHANGED absences

---------------------------------------------------------------------------
Request(t) ==
    \/ \E p \in Human :
         \/ "join" \in Requests /\ Join(t, p)
         \/ "ready" \in Requests /\ Ready(t, p)
         \/ "leave" \in Requests /\ Leave(t, p)
         \/ "drop" \in Requests /\ Drop(t, p)
    \/ "bot" \in Requests /\ \E b \in Bot : AddBot(t, b)

Rest ==
    \/ "reserve" \in Requests /\ \E p \in Human : Reserve(p)
    \/ "unbot" \in Requests /\ \E b \in Bot : RemoveBot(b)

Expire(t) == \E p \in Human : GraceExpires(t, p) \/ WalkoverExpires(t, p)

Play ==
    \E i \in DOMAIN duels :
        \/ \E p \in Human : SelectLead(p, i)
        \/ \E t \in Task, w \in Player : DuelEnds(t, i, w)

Continue(t) ==
    \/ JoinMark(t) \/ SeedBots(t)
    \/ BootRead(t) \/ BootDuel(t) \/ SemiA(t) \/ SemiB(t) \/ CreateFails(t)
    \/ LeaveMark(t) \/ DropMark(t) \/ BracketMark(t) \/ BracketFind(t)
    \/ Close(t) \/ Unseat(t) \/ UnseatEnds(t)
    \/ Forfeit(t) \/ WalkFind(t) \/ WalkWrite(t)
    \/ Rematch(t) \/ PairFinals(t) \/ RankBracket(t) \/ AwaitRound(t)
    \/ Final(t) \/ Third(t) \/ ArmAbsent(t)

Next ==
    \/ \E t \in Task : Request(t) \/ Expire(t) \/ Continue(t) \/ QueryFails(t)
    \/ Rest
    \/ Play
    \/ Restart

Spec == Init /\ [][Next]_vars

\* Queries answer and windows run out; no player has to do anything.
FairSpec ==
    /\ Spec
    /\ \A t \in Task : WF_vars(Continue(t))
    /\ WF_vars(\E t \in Task : Expire(t))

---------------------------------------------------------------------------
(* Safety *)

\* Whoever asks for a duel, and however often, a pair has one open duel of a
\* round at a time (duelBootstrap.js: "Double-firing mid-duel is safe").
OneDuelPerPair ==
    \A i, j \in DOMAIN duels :
        Unfinished(i) /\ Unfinished(j) /\ i # j =>
            <<duels[i].pair, duels[i].round>> # <<duels[j].pair, duels[j].round>>

\* In a bracket a player is never in two unfinished duels, which the lookups by
\* player of the disconnect and walkover paths take for granted.
OneOpenDuelEach ==
    \A i, j \in DOMAIN duels :
        Unfinished(i) /\ Unfinished(j) /\ i # j => duels[i].pair \cap duels[j].pair = {}

\* Whoever creates them, and however often, finals are between the winners and
\* third-place duels between the losers of the two semifinals.
FinalsFromSemis ==
    /\ \A i \in OfRound("final") : duels[i].pair = {duels[j].winner : j \in Semis}
    /\ \A i \in OfRound("tercer_puesto") : duels[i].pair = {LoserOf(j) : j \in Semis}

\* A bracket that has nothing left to play is never left without a handler that
\* will open the next round or rank the players: of the last two duels to finish,
\* one advance sees both.  Only a restart can take that handler away.
AllOver == \A i \in DOMAIN duels : ~Unfinished(i)
NextRoundIsOwed ==
    restarts = 0 /\ Bracket /\ SemisDone /\ (HasFinals => AllOver) =>
        \E t \in Task : task[t].pc \in {"advance", "final", "third"}

\* A bracket closes with every duel decided, but for one that a late advance has
\* inserted a second time, and with every seat it still has of those drawn ranked
\* apart from the others, whichever way its duels ended and players went.
Drawn     == UNION {duels[i].pair : i \in Semis}
Repeat(i) == \E j \in DOMAIN duels : /\ j < i
                                     /\ duels[j].round = duels[i].round
                                     /\ duels[j].pair = duels[i].pair
ClosedBracketIsDecided ==
    Size = 4 /\ status = "finished" =>
        /\ \A i \in DOMAIN duels : Unfinished(i) => Repeat(i)
        /\ \A p \in Occupied \cap Drawn : seats[p].rank \in 1..4
        /\ \A p, q \in Occupied \cap Drawn : seats[p].rank = seats[q].rank => p = q

\* Closing a room of two ranks the winner of more duels first.
RankedByWins ==
    [][Size = 2 /\ status = "in_progress" /\ status' = "finished" =>
         \E p, q \in Occupied : /\ seats'[p].rank = 1 /\ seats'[q].rank = 2
                                /\ Wins(p) >= Wins(q)]_vars

---------------------------------------------------------------------------
(* Liveness, under FairSpec *)

\* A lobby whose players are all ready does not stay a lobby.
ReadyRoomStarts == []<>~(status = "waiting" /\ AllReady)

\* A waiting room whose players are all gone for good is deleted, as long as no
\* two leaves overlap.  A seat that was taken over REST and never joined keeps the
\* room: it is no absent's.
AbandonedLobbyGoes ==
    [](Cardinality(Leaving) <= 1) =>
        (<>[](\A p \in Human : sock[p] = "off") => <>[](status = "waiting" => Occupied # Absent))
===========================================================================
