---------------------------- MODULE TeamDraft ----------------------------
(***************************************************************************)
(* The teams of a room of two: team_selections under the handlers of       *)
(* team:select_starter and team:select_roster, the server's own choice for *)
(* a bot, the wipe after every duel and the seeding of the next one.       *)
(*                                                                         *)
(* A starter is one row at slot 1 and a roster the rows of the other       *)
(* slots, kept as a set: which slot a pokemon has is not modelled.  One    *)
(* action is one query, or one transaction; a roster is replaced by a      *)
(* transaction of several queries and takes two actions.                   *)
(***************************************************************************)
EXTENDS Naturals, FiniteSets

CONSTANTS
    Human,        \* players with a socket
    Bot,          \* players the server picks for
    Host,         \* the human who created the room
    Pokemon,      \* the catalogue
    Starter,      \* those with pokemons.is_starter
    RosterSize,   \* ROSTER_SIZE
    Task,         \* slots for handlers in flight
    MaxDuels,     \* bound on the duels played
    MaxEchoes,    \* bound on second reports of the same end
    None          \* no row at slot 1, and nobody

Player == Human \cup Bot

ASSUME DraftAssumption ==
    /\ Human \cap Bot = {}
    /\ Host \in Human
    /\ Starter \subseteq Pokemon
    /\ RosterSize \in Nat \ {0}
    /\ {MaxDuels, MaxEchoes} \subseteq Nat
    /\ None \notin Pokemon \cup Player

VARIABLES
    seated,    \* players with a room_players row
    removed,   \* bots whose seat was taken away: a new bot is a new player
    ready,     \* room_players.ready
    starter,   \* team_selections at slot 1
    roster,    \* team_selections at the other slots
    duel,      \* "none", "open" or "over": the latest duel of the room
    played,    \* duels seeded so far
    echoes,    \* second reports so far
    overtaken, \* bots whose starter the latest wipe deleted under a seeding
    task       \* handlers in flight

seats == <<seated, removed>>
teams == <<starter, roster>>
game  == <<duel, played, echoes>>
vars  == <<seats, ready, teams, game, overtaken, task>>

Roster == {S \in SUBSET Pokemon : Cardinality(S) = RosterSize}

PC == {"idle", "boot_read", "boot_duel", "insert", "seed_read", "seed_taken",
       "seed_starter", "seed_roster", "seed_ready", "advance"}

TaskState == [pc    : PC,
              who   : Player \cup {None},
              pick  : Roster \cup {{}},    \* the roster to be inserted
              gone  : SUBSET Pokemon,      \* the rows its transaction deleted
              seen  : SUBSET Pokemon]      \* the starters read as taken

Idle == [pc |-> "idle", who |-> None, pick |-> {}, gone |-> {}, seen |-> {}]

TypeOK ==
    /\ Host \in seated /\ seated \subseteq Player /\ Cardinality(seated) <= 2
    /\ removed \subseteq Bot \ seated
    /\ ready \subseteq seated
    /\ starter \in [Player -> Pokemon \cup {None}]
    /\ roster \in [Player -> SUBSET Pokemon]
    /\ duel \in {"none", "open", "over"}
    /\ played \in 0..MaxDuels
    /\ echoes \in 0..MaxEchoes
    /\ overtaken \subseteq Bot
    /\ task \in [Task -> TaskState]

Init ==
    /\ seated = {Host}
    /\ removed = {}
    /\ ready = {}
    /\ starter = [p \in Player |-> None]
    /\ roster = [p \in Player |-> {}]
    /\ duel = "none"
    /\ played = 0
    /\ echoes = 0
    /\ overtaken = {}
    /\ task = [t \in Task |-> Idle]

At(t, pc)    == task[t].pc = pc
Become(t, s) == task' = [task EXCEPT ![t] = s]
Goto(t, pc)  == Become(t, [task[t] EXCEPT !.pc = pc])
End(t)       == Become(t, Idle)

---------------------------------------------------------------------------
(* The rows and their unique indexes *)

Selected(p) == roster[p] \cup ({starter[p]} \ {None})
TakenStarters == {starter[p] : p \in Player} \ {None}
Waiting == duel = "none"

\* uq_starter_por_sala keeps a starter to one player of the room, and a second
\* index keeps a pokemon to one row of a team.
StarterFreeInTeam(p, m) == m \notin roster[p]
StarterFree(p, m) == m \notin {starter[q] : q \in Player \ {p}} /\ m \notin roster[p]

\* The statement waits for a transaction that holds a row of that pokemon.
Locked(p, m) == \E t \in Task : /\ task[t].who = p /\ At(t, "insert")
                                /\ m \in task[t].gone \cup task[t].pick

\* A roster goes in whole unless it repeats the player's own starter, or rows
\* were committed at its slots since the transaction deleted the old ones.
RosterFitsAnyStarter(t) == roster[task[t].who] \subseteq task[t].gone
RosterFits(t) ==
    LET p == task[t].who
    IN  starter[p] \notin task[t].pick /\ roster[p] \subseteq task[t].gone

\* The rows of one player, or of the whole room, are deleted.
Wiped(S) ==
    /\ starter' = [p \in Player |-> IF p \in S THEN None ELSE starter[p]]
    /\ roster' = [p \in Player |-> IF p \in S THEN {} ELSE roster[p]]

---------------------------------------------------------------------------
(* team:select_starter and team:select_roster; a refusal changes nothing.  *)
(* Neither looks at a seat: a request that a leave or a window overtakes   *)
(* writes the rows of a player who has none any more.  Every human may     *)
(* have joined and left before, so that such a request may be anybody's.   *)

SelectStarter(p, m) ==
    /\ ~Locked(p, m)
    /\ StarterFree(p, m)
    /\ starter' = [starter EXCEPT ![p] = m]
    /\ UNCHANGED <<seats, ready, roster, game, task, overtaken>>

\* The rows a transaction deletes stay visible, and locked, until it commits.
DeleteRoster(t, p, pick) ==
    /\ \A u \in Task : task[u].who = p /\ At(u, "insert") => task[u].gone \cap roster[p] = {}
    /\ Become(t, [task[t] EXCEPT !.pc = "insert", !.who = p, !.pick = pick, !.gone = roster[p]])
    /\ UNCHANGED <<seats, ready, teams, game, overtaken>>

SelectRoster(t, p, pick) == At(t, "idle") /\ DeleteRoster(t, p, pick)

\* Commit or ROLLBACK; a bot goes on to its ready flag only after a commit.
InsertRosterUnchecked(t) ==
    LET p == task[t].who IN
    /\ At(t, "insert")
    /\ roster' = IF RosterFits(t) THEN [roster EXCEPT ![p] = task[t].pick] ELSE roster
    /\ IF p \in Bot THEN Goto(t, "seed_ready") ELSE End(t)
    /\ UNCHANGED <<seats, ready, starter, game, overtaken>>

InsertRoster(t) ==
    LET p == task[t].who IN
    /\ At(t, "insert")
    /\ IF RosterFits(t)
         THEN /\ roster' = [roster EXCEPT ![p] = task[t].pick]
              /\ IF p \in Bot THEN Goto(t, "seed_ready") ELSE End(t)
         ELSE UNCHANGED roster /\ End(t)
    /\ UNCHANGED <<seats, ready, starter, game, overtaken>>

---------------------------------------------------------------------------
(* autoSelectBotTeam *)

PastStarter(t) == task[t].pc \in {"seed_roster", "insert", "seed_ready"}
Seeding(b) == [Idle EXCEPT !.pc = "seed_read", !.who = b]

SeedRead(t) ==
    /\ At(t, "seed_read")
    /\ IF Selected(task[t].who) # {} THEN End(t) ELSE Goto(t, "seed_taken")
    /\ UNCHANGED <<seats, ready, teams, game, overtaken>>

SeedTaken(t) ==
    /\ At(t, "seed_taken")
    /\ IF Starter \subseteq TakenStarters
         THEN End(t)
         ELSE Become(t, [task[t] EXCEPT !.pc = "seed_starter", !.seen = TakenStarters])
    /\ UNCHANGED <<seats, ready, teams, game, overtaken>>

\* selectStarter of one of the starters not seen taken; by now it may be taken,
\* and then the rejection ends the whole handler.
SeedStarter(t) ==
    LET b == task[t].who IN
    /\ At(t, "seed_starter")
    /\ \E m \in Starter \ task[t].seen :
         /\ ~Locked(b, m)
         /\ \/ /\ StarterFree(b, m)
               /\ starter' = [starter EXCEPT ![b] = m]
               /\ Become(t, [task[t] EXCEPT !.pc = "seed_roster", !.seen = {m}])
            \/ /\ ~StarterFree(b, m)
               /\ End(t)
               /\ UNCHANGED starter
    /\ UNCHANGED <<seats, ready, roster, game, overtaken>>

\* selectRoster, of any pokemon but the starter chosen above.
SeedRoster(t) ==
    /\ At(t, "seed_roster")
    /\ \E pick \in Roster : /\ pick \cap task[t].seen = {}
                            /\ DeleteRoster(t, task[t].who, pick)

SeedReadyAnyway(t) ==
    /\ At(t, "seed_ready")
    /\ ready' = ready \cup {task[t].who}
    /\ End(t)
    /\ UNCHANGED <<seats, teams, game, overtaken>>

SeedReady(t) ==
    /\ At(t, "seed_ready")
    /\ ready' = ready \cup ({task[t].who} \cap seated)
    /\ End(t)
    /\ UNCHANGED <<seats, teams, game, overtaken>>

---------------------------------------------------------------------------
(* Seats *)

Free == Waiting /\ Cardinality(seated) < 2

Join(p) ==
    /\ Free /\ p \notin seated
    /\ seated' = seated \cup {p}
    /\ UNCHANGED <<removed, ready, teams, game, task, overtaken>>

AddBot(t, b) ==
    /\ At(t, "idle")
    /\ Free /\ b \notin seated \cup removed
    /\ seated' = seated \cup {b}
    /\ Become(t, Seeding(b))
    /\ UNCHANGED <<removed, ready, teams, game, overtaken>>

\* One transaction for the seat and its rows: leaveRoom of a guest while the room
\* waits, removeBot whatever the status of the room.
Unseat(p) ==
    /\ p \in seated \ {Host}
    /\ Waiting \/ p \in Bot
    /\ seated' = seated \ {p}
    /\ removed' = removed \cup ({p} \cap Bot)
    /\ ready' = ready \ {p}
    /\ Wiped({p})
    /\ UNCHANGED <<game, task, overtaken>>

---------------------------------------------------------------------------
(* room:ready, and the duel seeded from the rows *)

\* Nothing asks for a team.
Ready(t, p) ==
    /\ At(t, "idle")
    /\ p \in seated \ ready
    /\ ready' = ready \cup {p}
    /\ Goto(t, "boot_read")
    /\ UNCHANGED <<seats, teams, game, overtaken>>

BootRead(t) ==
    /\ At(t, "boot_read")
    /\ IF Cardinality(seated) = 2 /\ ready = seated THEN Goto(t, "boot_duel") ELSE End(t)
    /\ UNCHANGED <<seats, ready, teams, game, overtaken>>

\* createDuelFromRoom: an open duel is returned as it is.
BootDuel(t) ==
    /\ At(t, "boot_duel")
    /\ \/ duel = "open" /\ UNCHANGED game
       \/ /\ duel # "open" /\ played < MaxDuels
          /\ duel' = "open"
          /\ played' = played + 1
          /\ UNCHANGED echoes
    /\ End(t)
    /\ UNCHANGED <<seats, ready, teams, overtaken>>

---------------------------------------------------------------------------
(* The end of a duel and advanceTournamentOrRematch *)

DuelEnds(t) ==
    /\ At(t, "idle")
    /\ duel = "open"
    /\ duel' = "over"
    /\ Goto(t, "advance")
    /\ UNCHANGED <<seats, ready, teams, played, echoes, overtaken>>

\* A disconnect that finds the duel over still runs the lifecycle.
EndsAgain(t) ==
    /\ At(t, "idle")
    /\ duel = "over" /\ echoes < MaxEchoes
    /\ echoes' = echoes + 1
    /\ Goto(t, "advance")
    /\ UNCHANGED <<seats, ready, teams, duel, played, overtaken>>

\* Ready flags and teams are wiped in one transaction, then bots are seeded.
Advance(t) ==
    /\ At(t, "advance")
    /\ ready' = {}
    /\ Wiped(Player)
    /\ overtaken' = {b \in Bot : \E u \in Task : task[u].who = b /\ PastStarter(u)}
    /\ \/ \E b \in Bot \cap seated : Become(t, Seeding(b))
       \/ Bot \cap seated = {} /\ End(t)
    /\ UNCHANGED <<seats, game>>

---------------------------------------------------------------------------
Next ==
    \/ \E p \in Human :
         \/ \E m \in Pokemon : SelectStarter(p, m)
         \/ \E t \in Task, pick \in Roster : SelectRoster(t, p, pick)
         \/ Join(p)
         \/ \E t \in Task : Ready(t, p)
    \/ \E p \in Player : Unseat(p)
    \/ \E t \in Task, b \in Bot : AddBot(t, b)
    \/ \E t \in Task :
         \/ InsertRoster(t)
         \/ SeedRead(t) \/ SeedTaken(t) \/ SeedStarter(t) \/ SeedRoster(t) \/ SeedReady(t)
         \/ BootRead(t) \/ BootDuel(t)
         \/ DuelEnds(t) \/ EndsAgain(t) \/ Advance(t)

Spec == Init /\ [][Next]_vars

---------------------------------------------------------------------------
(* Safety *)

\* No starter is reserved by two players of the room, bots included, whoever
\* read it as free.
StartersApart ==
    \A p, q \in Player : starter[p] = starter[q] /\ starter[p] # None => p = q

\* A roster is there whole or not at all and never repeats its starter, however
\* its transaction races the other handlers of the player and the wipe.
TeamsAreWhole ==
    \A p \in Player : /\ roster[p] \in Roster \cup {{}}
                      /\ starter[p] \notin roster[p]

\* A bot that is ready has a starter and a roster, though two seedings of it and
\* the other players race: only a wipe between its queries can spoil a seeding.
ReadyBotHasTeam ==
    \A b \in (Bot \cap ready) \ overtaken : starter[b] # None /\ roster[b] # {}
=============================================================================
