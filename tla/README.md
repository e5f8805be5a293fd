# PokeDuels in TLA+

Formal models of PokeDuels, a Node/Socket.IO server over Postgres and its React
client, in which two or four players draft a team of six pokemon and fight
turn-based duels, alone (1v1, with rematches) or in a four-player bracket. The
models are written from the code under `src/`; a line reference such as
`turnCycle.js:120` is a line of the file of that name under `src/backend`, or
under `src/frontend/src` for the client's `.ts` and `.tsx`.

Contents: [1 The system](#1-the-system) - [2 The modules](#2-the-modules) -
[3 The runs](#3-the-runs) - [4 What TLC refutes](#4-what-tlc-refutes) -
[5 The proofs](#5-the-proofs) - [6 What is left out](#6-what-is-left-out) -
[7 Plan](#7-plan)

## 1 The system

### Components

| component | files | state it keeps | operations |
|---|---|---|---|
| Round engine | `engine/roundResolver.js`, `damageCalc.js`, `switchValidation.js`, `typeEffectiveness.js` | none; works on `duels` and `duel_pokemon_state` rows | resolve a round, validate a lead, validate a switch |
| Duel repositories | `repositories/duelTransactions.js`, `duelQueries.js` | Postgres: `duels`, `duel_pokemon_state`, `moves` | create, apply round, activate lead, apply switch, guarded finish |
| Duel handlers and turn cycle | `ws/duelHandlers.js`, `turnCycle.js`, `turnTimers.js`, `duelLifecycle.js`, `engine/duelPhaseStore.js`, `duelStateMachine.js`, `ws/roundState.js`, `wsFaultIsolation.js` | in memory, per duel: phase entry, lead readiness, action buffer, 10 s window | `duel:select_lead`, `duel:switch_decision`, `duel:select_action`, window expiry, `duel:surrender`, finalization |
| Bots | `ws/botManager.js` | none; acts through the draft's tables and the buffer | create, remove, pick a team, pick and switch for a bot rival |
| Rooms | `db/rooms.js`, `ws/roomHandlers.js`, `roomState.js`, `duelBootstrap.js`, `reconnectTimers.js`, `routes/rooms.js` | `rooms`, `room_players`; reconnect windows | create, join or resume, ready, bootstrap, rematch, leave or close, disconnect, expiry of the reconnect window |
| Bracket | `ws/tournamentLifecycle.js`, `bracketWalkoverTimers.js` | `rooms.status`, ranks, semifinal and final `duels`; walkover windows | pair, advance, create finals, walkover, rank |
| Boot reconciliation | `db/reconciliation.js`, `server.js` | none | finish interrupted duels and close their rooms at start-up |
| Team draft | `db/teamSelections.js`, `ws/teamHandlers.js` | `team_selections` with a partial unique index on starters | pick the starter, replace the roster |
| Client store | `state/store.ts`, `state/MockStateProvider.tsx`, `state/hooks/useDuelSocket.ts`, `lib/socket.ts`, `lib/duelFlow.ts` | the reducer's state, part of it in `localStorage` | apply a push, resynchronise after a reconnect |
| Client screens | `routes/*.tsx`, `lib/teamSelection.ts`, `lib/api.ts` | screen, timers, optimistic picks | lobby, team selection, wait room, board, swap, ranking |
| Limits | `middleware/wsRateLimit.js`, `rateLimit.js` | sliding window per socket | admit or drop |
| Sessions, catalogue | `middleware/auth.js`, `routes/session.js`, `routes/catalog.js`, `db/players.js`, `db/pokemons.js` | `players`, catalogue | single queries |

`src/Prototipos` is a design prototype of the login page; nothing of the running
program uses it.

### How they interact

A socket message enters a handler. The handler reads and writes Postgres in
separate awaited queries, some of them inside a transaction, and reads and
writes the in-memory stores between the awaits. Node runs one handler at a time
*between* awaits and any other handler *at* an await: two messages of one
player, messages of several players, and an expired timer all interleave there. A
finished duel is handed to `advanceTournamentOrRematch`, which resets the room
for a rematch, creates the finals or ranks the bracket; a room whose players are
all ready is handed to the bootstrap, which creates the first duels, seeds them
from the draft and sets their phase entry to `lead_selection`. Nothing tells the
database that a process died: the stores, the sockets and every timer vanish,
and the boot sweep is the only recovery. The client holds a copy of what it was
last told: pushes on a channel per room and per duel, and snapshots it asks for
with `duel:join`, whose answer may cross any push. A pick in the draft is shown
before the server has seen it and is never acknowledged, only rejected.

### What is hard, and what makes each part correct

* **Round engine.** The order of the two strikes is drawn; a pokemon knocked out
  first must not strike back; damage clamps at zero; PP is checked twice. Right
  when rows only wear down and no round wipes both teams, since the code looks
  at player 1's team first and would otherwise decide the winner by the order of
  two `if`s.
* **Turn cycle.** A buffer that two handlers may hold, a window armed after an
  await, a buffer deleted after another await. Right when a pick is never lost
  and never left without someone to take it.
* **Ending a duel.** A knock-out, a surrender and a disconnect race, through one
  guarded write and one unguarded one. Right when the verdict agrees with the
  rows, is given once and is announced.
* **Leads and switches.** Validated in one query and written in another. Right
  when a player has one pokemon on the field and never a fainted one.
* **Rooms.** Seats that become ready, leave, drop and rematch around duels that
  start and end, by handlers that read the seats in one transaction and act in
  another. Right when a pair has one open duel, a full ready lobby starts, an
  abandoned one goes, and closing ranks by the duels won.
* **Bracket.** Every finished duel runs the same lifecycle and at most one of two
  that race may move the room on. Right when the finals are between the right
  players, no finished round is left unanswered and a closed bracket is decided.
* **Restart.** Right when no player waits for ever in a room that died.
* **Draft.** Two requests of a player, two players, a bot's seeding in five
  queries and the wipe after a duel race. Right when no two players hold one
  starter, a roster is whole or absent and a ready bot has a team.
* **Client.** Right when the outcome it shows is the server's, a lost connection
  loses no outcome, a request is always answered or given up, and the team it
  shows is the team the room holds.

`PROJECT.json` lists the hazards one by one, at their lines, with the properties
that would catch them going wrong. Where what can go wrong is what the code
does, the entry names no property and says where section 4 tells it.

## 2 The modules

    RoundRules           pure rules on the rows
      |-- Duel           one duel, handlers atomic          (what is promised)
      |-- DuelServer     one duel, handlers cut at awaits   (what runs)
            `-- DuelOutcome   one verdict, given once       (refined by DuelServer)
    RoomServer           one room: seats, duels, bracket, restarts
    TeamDraft            the teams of a room, query by query
      `-- TeamScreen     the same with a guest's lobby and picker
    DuelClient           one browser, its socket and what of the server it sees
    MC*                  instances for TLC
    *_proofs             theorems of RoundRules, Duel, DuelServer, RoomServer,
                         its bracket, TeamDraft, TeamScreen and DuelClient

Each level takes the one below as an outcome: `RoomServer` knows of a duel that
it goes live and finishes once with a winner (what `DuelOutcome` says),
`DuelClient` knows what the pushes carry, and `TeamScreen` is `TeamDraft` with
one of its players replaced by a browser.

### RoundRules

The rows of `duel_pokemon_state` as `rows[player][slot]` with `hp`, `pp`,
`active`, `fainted`, a slot being a position in the roster order of `dps.id`.
`ResolvedRows(rows, mv, first)` is `resolveRoundLogic` for moves `mv` when the
shuffle puts `first` first; `LeadAllowed` and `SwitchAllowed` are the two
validations; `Activate` and `Deactivate` are the row updates. The multiplier
(x0.5, x1, x2) is kept doubled so that the model stays in the integers, and
`calcularDano` rounds down and never goes below one, as the code does. FullHp,
FullPP, the moves and their damage are parameters (100, 4, three limited moves
and one unlimited in the code), and so is the type chart.

### Duel

Each human handler as one action, from its first guard to its last write:
`SelectLead`, `SwitchTo`, `SelectAction` (which resolves the turn when it
completes the pair), `TurnTimeout`, `Surrender`, `Disconnect`. This is the
module to read first: it says what the server promises the two players when
nothing interleaves.

### DuelServer

The same handlers cut at their awaits. `task[t]` is one handler in flight:
`pc` names the await it is at and the other fields hold what it has read.

| variable | code |
|---|---|
| `duel` | the `duels` row: status, winner_id, end_reason |
| `rows` | `duel_pokemon_state` |
| `phase` | the entry of `duelPhaseStore` |
| `leads` | the `leadReady` entry of `roundState.js` |
| `buffer` | the duel's Map in `turnCycle.js` `buffers` |
| `timer` | whether `turnTimers.js` has a window for the duel |
| `announced` | what the last `duel:finished` said |
| `task` | the locals of the handlers in flight |

Four decisions carry the model.

1. *The buffer is a Map with identity.* `attemptResolveTurn` keeps a reference
   to the Map it read before its await, and `buffers.delete` only detaches it.
   `task[t].live` says that the task holds the Map that is in `buffers` now;
   `Deleting` turns every such reference into a detached copy. A pick can thus be
   resolved twice, or be filled into a Map nobody looks at, as in the code.
2. *A round is four queries*: the duels row, the pokemon rows, the transaction
   of `applyRoundResult`, and the read that follows it. What the transaction
   writes was computed from the first two, and `applyRoundResult` writes it
   unconditionally.
3. *A query may fail.* `QueryFails` ends the handler at any await named in
   `Faulty` and writes nothing. Inside a round that is
   `withDuelFaultIsolation`, elsewhere the handler wrapper or the `catch` of the
   timer callback.
4. *Joined reads.* A read whose result only decides a rejection, or which nothing
   later depends on, is one step with its neighbour. `SwitchDecision` joins the
   reads of the duel, of the roster, and the `getDuelState` that only feeds the
   broadcast; the transaction of the switch stays apart, since a round can be
   written between.

The constants name every bound: `Handler` and `Expiry` are the handlers and
window callbacks in flight at once, `Requests` the kinds of message the players
send, `Faulty` the queries that may fail, `Slot` the size of a team, `FullHp` and
`FullPP` what a row is seeded with. The number of messages is not bounded.

### DuelOutcome

What the room and the bracket read of a duel: an open verdict, or a winner with
a reason, decided once. `DuelServer` refines it under the mapping `Outcome`,
where a verdict counts as given once the duel is finished *and* no round that
read the duel live is still to be written. The second half of that condition is
the size of a real weakness: see section 4.

### RoomServer

One room of two or of four, with humans and bots, from lobby to ranking.

| variable | code |
|---|---|
| `status` | `rooms.status`, `"gone"` once the row is deleted |
| `seats` | the rows of `room_players`: ready, connected, rank |
| `duels` | the room's `duels` rows in order of id, each with its phase entry, the players who have a pokemon on the field and the leads marked in memory |
| `sock` | each human's socket: none, one without a room, one whose `data.roomId` is the room |
| `grace`, `walkover` | the two registries of `reconnectTimers.js` and `bracketWalkoverTimers.js` |
| `task` | the handlers, timer callbacks and lifecycles in flight |

One action is one query, or one transaction that locks the room row, with the
code that runs up to the next await. So a `room:ready` is `Ready` (the flag),
`BootRead` (the seats `bootstrapDuelIfReady` and `bootstrapBracketIfReady`
read) and `BootDuel`, or `SemiA` and `SemiB` (`createDuelFromRoom`, which works
on the pair read before); the end of a duel is `DuelEnds`, `Forfeit` or
`WalkWrite`, followed by `Rematch` and `SeedBots` in a room of two and by
`PairFinals`, `Final`, `Third`, `ArmAbsent`, or `RankBracket`, in a bracket; a
leave is `Leave` and `Close`, and then `Unseat` and `UnseatEnds`, because
`leaveOrCloseRoom` commits and `leaveRoom` counts the seats in a transaction of
its own *without* the room's lock (`rooms.js:386`). `Unseat` is the delete and
the count, `UnseatEnds` the commit: two of them overlap. A closing transaction
that throws, because the tie was broken for a player without a seat
(`rooms.js:454`), rolls back and ends the handler. `Restart` is the crash of the
process and both sweeps of `reconciliation.js`, which run before the server
listens.

`createDuelFromRoom` looks for an unfinished duel of the same pair and round
before it inserts one (`Existing`), which is all that stands between two
handlers that act on the same seats.

### TeamDraft

The rows of `team_selections` of a room of two, with every handler of the draft
cut at its queries: the upsert of a starter under the partial unique index
(`StarterFree`), the roster's transaction in two actions (delete, then insert and
commit), a bot's team in five (`Seeding`: the seats, the taken starters, the
starter, the roster, the ready flag), the wipe after a duel, the removal of a
bot or of a player's rows with their seat, and the next duel, which is seeded
from what is there. A starter or a roster is written whether or not the player
has a seat: neither handler looks at `room_players`, so a request overtaken by a
leave leaves rows of a player without a seat, and their starter stays taken. A bot
is removed whatever the status of the room.

| variable | code |
|---|---|
| `seated`, `removed`, `ready` | `room_players`, and the bots whose row was deleted |
| `starter`, `roster` | `team_selections` at slot 1 and at the others |
| `duel`, `played`, `echoes` | the latest duel of the room; how often its end was reported |
| `overtaken` | history: bots whose seeding a wipe has crossed |
| `task` | the handlers in flight |

### TeamScreen

`TeamDraft` in which one human, the guest `Me`, is a browser: the lobby's list
and its REST join, the team-select screen with its optimistic picks, the wait
room's buttons, and one socket. The other humans act through `TeamDraft`'s own
actions.

| variable | code |
|---|---|
| `screen`, `listed`, `post` | the mounted screen, whether the lobby lists the room, the one REST join on its way (`handleJoin`) |
| `shown` | `state.teamSelection`, kept in `localStorage` and not reset with the room |
| `flagged` | `takenStarterIds` of the mounted picker |
| `sent` | requests on the way; handlers start in any order, since each waits for a query |
| `told` | rejections on the way back |
| `link`, `drops` | the socket and how often it was lost |
| `excused` | history: the parts shown for which one of the named reasons has occurred |

A pick made while the socket is down is buffered by the client library and
leaves ahead of `room:join`, so its handler finds a socket without a room and
its statement fails, without an answer (external: `socket.io-client`). Only the missing
room makes it fail: once the socket knows its room, a request is handled though
the seat has gone. A request of a lost socket is still handled, and its rejection
reaches nobody.

### DuelClient

The browser of one player through the duels of a room, against as much of the
server as it sees.

| variable | code |
|---|---|
| `store` | the reducer's `duel`, `pendingDuelId`, `room`, tournament, ranking and aborted slices |
| `ui` | the screen (`lobby`, `wait`, `duel`, `forced`, `voluntary`, `ranking`) and the swap awaiting an answer |
| `sock`, `sent`, `inbox` | the socket, requests buffered or on the way, pushes on the way |
| `answers`, `subscribed`, `inRoom` | on the server: `duel:join` handlers that have read and not answered, and the channels joined |
| `status`, `duels`, `ready`, `forfeit` | the room and its duels, as the server holds them |

A `duel:join` reads a snapshot in one step (`Handle`) and answers in another
(`Answer`), so it crosses pushes in both directions. `Deliver` takes one push to
the reducer; the effects that redirect run at once (`Show`, `Render`), as React
runs them after the commit. A socket, the page or the server may be lost:
`Resync` is what the client asks for then. The swap screen's two timers (pull
after 4 s, give up after 10 s) are actions.

Clicks wait until no push is on its way, since a click and a push commute (`On`),
and the server's duels wait while pushes are in flight beyond `MaxInbox`
(`Roomy`). What the races inside a duel do is `DuelServer`'s subject, so that the
rival's moves and the rounds are single steps. Of a duel between others only its
existence is kept.

## 3 The runs

| run | question | instance |
|---|---|---|
| `duel` | does the duel keep every promise when handlers are atomic? | teams of two, 40 hp, one limited move with one use, a type chart with x0.5, x1 and x2 |
| `server` | is every pick taken, and every end announced once decided, with everything interleaved? | two handlers and one window callback in flight, one pokemon of 1 hp a side, the three queries of a round may fail, with fairness |
| `server_switch` | do rows and verdict agree when leads, switches, rounds and a disconnect race? | two handlers, teams of two, the queries of a switch, a round or a forfeit may fail |
| `room_duo` | do the duels of a 1v1 room start, stay apart and end in the right ranks, and does an abandoned lobby go? | two humans, two handlers, two duels, two leaves or lost sockets, one restart, with fairness |
| `room_bracket` | does a bracket come to its right finals and a whole ranking? | two humans and two bots, one human seated at first, two handlers, four duels, one leave or lost socket, a failing walkover query |
| `draft` | do starters stay exclusive and teams whole? | two humans and a bot, two starters, rosters of two, two handlers, one duel whose end is reported twice |
| `team_screen` | is the team shown the team held, and the seat taken the seat entered? | a host who drafts and readies, a third player who comes and goes, the guest's browser, two starters, rosters of one, two requests in flight, one lost connection or answer |
| `client` | is the outcome shown the server's, and does no loss leave the player waiting? | a 1v1 room and a bracket, one fault (socket, page or server), one request, push and snapshot in flight, with fairness |
| `finished_is_final`, `two_leads`, `idle_turn`, `client_lead` | what the repository says and the code does not do | see section 4 |

**Properties.** One type invariant a module (`TypeOK`, `ScreenTypeOK`), and:

* `Duel`: `FaintedIsOut`, `OneActive`, `LiveIsFielded`, `KoVerdict`,
  `VerdictShape`, and the action properties `Attrition` (rows wear down, one
  knock-out a step) and `VerdictIsFinal`.
* `DuelServer`: `PickHasOwner` (someone has come, or will come, for every
  buffered pick), `KoVerdict` and `FaintedIffNoHp` (rows and verdict, in every
  interleaving), `DecidedOnce` (the refinement of `DuelOutcome`), and the
  liveness properties `PickIsTaken` and `EndIsAnnounced`.
* `RoomServer`: `OneDuelPerPair` (the look-up of `createDuelFromRoom` under
  racing handlers), `RankedByWins`, `ReadyRoomStarts`, `AbandonedLobbyGoes`; in
  a bracket `OneOpenDuelEach` (no player in two unfinished duels),
  `FinalsFromSemis`, `NextRoundIsOwed` (of the last two duels to finish, one
  advance sees both) and `ClosedBracketIsDecided`.
* `TeamDraft`: `StartersApart`, `TeamsAreWhole`, `ReadyBotHasTeam`.
* `TeamScreen`: `PickerNeverStuck`, `ShownTeamIsHeld`, `SeatIsEntered`.
* `DuelClient`: `OutcomeIsServers`, `DuelIsMine`, `ReturnSeesOutcome`,
  `DeadRoomIsTold`, `SwapIsAnswered`.

**Why the bounds are enough.**

* *Duels.* Hit points only matter through three events: a pokemon survives a
  strike, falls by it, or falls beyond it. The `duel` instance has all three, at
  every multiplier, and both the out-of-PP pick and the pick that runs out of PP
  between buffer and round. Two pokemon are needed to tell a knock-out from a
  wiped team and to switch; they are in `duel` and `server_switch`. Two handlers
  and a callback are what the races need: two attempts on one buffer, a late
  pick against an expired window, a surrender against a round, two leads, two
  switches, a switch against a round. A round that fails leaves the turn to be
  played again, so that `server` has more than one turn with 1 hp.
* *Rooms.* Two duels are a duel and its rematch, so that a late lifecycle of the
  first meets the second; two absences are a player who leaves and comes back
  while the other leaves, or two leaves at once. In `room_duo` one player has
  joined and is ready, so the other's arrival starts a duel at once; both flags
  are asked for again in the rematch. Two handlers are two readiness handlers on
  the same seats, an advance against a leave, or a boot that acts on seats
  somebody has left. The bracket has all its duels, whichever of the three kinds
  of end each has, two of its players bots, and two lifecycles at a time. It
  starts with one human seated, so that it is filled, left and filled again
  before the draw, and bots are removed at any time; one `room:ready` at a time,
  for a reason given in section 4. Four duels leave no room for a last round that
  is created twice; with six, the same four properties hold of four humans
  (179,641 states) and of three with a bot (395,591), and the theorems hold for
  every number.
* *Draft.* Two starters and three players who come and go through two seats make
  every choice contested; a roster of two out of a catalogue of three meets
  the own starter; two handlers are two roster transactions of one player, a seeding against a pick,
  two seedings of a bot, or a seeding against the wipe. An end reported twice is
  the late advance that resets a room already drafting again.
* *Client.* One fault at any moment; one snapshot, one push and one request in
  flight, which is enough for a snapshot to be overtaken by the end of its duel
  or to overtake it, and for a click to cross the push that makes it stale. Rounds and
  voluntary swaps are played in the 1v1 room, where the fault is too; in the
  bracket somebody gives up, and the player may be sent on to a final, wait for
  one, or be out.
* *Team screen.* Two requests in flight are a pick and its correction, or a pick
  and a roster; one loss is the connection or a REST answer. The host drafts
  and readies through `TeamDraft`'s actions, so that starters are taken, the
  room starts without the guest's last pick, and the wipe comes early or late;
  `Rivals` names who does. A third player takes the seat and gives it up, so that
  the lobby's list is stale and a join refused.

The theorems of section 5 hold for any number of players, handlers, slots,
starters, duels, hit points and moves.

**Fairness.** Weak fairness for what the event loop and the network do: in
`DuelServer` and `RoomServer` for `Continue(t)`, each handler in flight on its
own, and for the expiry of windows; in `DuelClient` for the network (connect,
handle a request, deliver a push), for the answers of the handlers that have
read, and for the swap screen's timers. Node's event loop runs the continuation
of every query that answers, so a handler at an await goes on; `setTimeout`
fires. `QueryFails` is not fair, but a handler whose query fails has ended, so
no handler stays at an await. There is no fairness for what players do: no
player has to send anything, play, rejoin or click. Hence `EndIsAnnounced` says
only that an ended duel is announced, `PickIsTaken` only speaks of picks that
were made, and `ReturnSeesOutcome` of duels that were decided.

**Deadlock.** Checked in `duel`: a finished duel still accepts picks and switches
there, which do nothing to the verdict. The other runs say
`CHECK_DEADLOCK FALSE`: a finished duel whose requests are all rejected, a
closed room, or a behaviour that has used up the bound on duels or losses really stops.

**Symmetry.** Handlers are interchangeable and so are callbacks, players of one
kind, starters and other pokemon; `server_switch`, `room_bracket`, `draft` and
`team_screen`, which check invariants only, declare it. Runs with liveness do not.

**Mutants.** Each property of each passing run has a mutant of a mapped
definition that makes the run fail, kept beside it in its module (`Marked` has
`MarkedAnyway`): an unclamped hit, a swapped winner, a second lead, a finish
that forgets the guard, a window that is not armed, an end that is not
broadcast; an existing-duel check for pending duels only, the tie-break turned
round, a bootstrap that waits for both sockets, a leave that never deletes the
lobby, finals after one semifinal, a forfeit that does not advance the bracket;
a unique index within the team only, a transaction that ignores the starter; a
resynchronisation that forgets the room or the duel, a swap that gives up
without telling, a roll-back that only flags.

## 4 What TLC refutes

Four statements of the repository do not hold of the code. Each has a run that
checks just that statement and finds a counterexample.

* **`FinishedIsFinal`** (`duelTransactions.js:148`). `applyRoundResult` updates
  `duels` by id alone, with the status, winner and reason its round computed from
  an earlier read. A surrender that commits in between is overwritten: the
  finished duel is `in_progress` again, or changes its winner.
  `turnCycle.js:144` calls this write guarded, and the one in
  `finishDuelWrite` is. `DecidedOnce` states what remains true: no overwriting
  happens once the rounds in flight are through.
* **`AtMostOneActive`** (`duelTransactions.js:268`). `activateLead` validates in
  one query and writes in another. Two leads of one player in flight both pass,
  and the player has two active pokemon; `switchValidation.js:83` says that
  cannot be.
* **`FirstTurnIsPlayed`** (`duelHandlers.js:245`). Only the first pick of a turn
  arms the window, so a turn in which neither player picks is never resolved.
  `TECH-DESIGN.md:341` says that both attack by default.
* **`ForcedSwapIsGenuine`** (`DuelBoardScreen.tsx:423`). A snapshot read after the
  rival chose a lead and before the player did shows one side fielded, which
  `deriveDuelPhase` reads as `awaiting_switch`: a player who has lost nothing is
  led to the forced swap, whose request the server accepts in lead selection.
  `DuelBoardScreen.tsx:420` says that a forced switch is a genuine one.

### Claims that do not hold, without a run

What follows was met while modelling and is contained in the models, but is not a
run of its own, because it needs an instance larger than a run can hold, or an
input no property speaks of, or contradicts no sentence of the repository.

*One duel.*

* A round that finds the row finished by another finalizes all the same
  (`turnCycle.js:143`), so that an end may be announced twice, the second time as
  a knock-out. `EndIsAnnounced` asks for one announcement.
* `duel:switch_decision` asks for neither phase nor status
  (`duelHandlers.js:143`). A switch during lead selection fields a pokemon without
  marking its player's lead as ready, `duel:select_lead` is refused from then on,
  and the duel never goes live. No property can exclude it.

*Rooms of two.*

* `room:ready` creates a duel from the seats it read earlier (`duelBootstrap.js:41`).
  With three humans: two `room:ready` handlers have read, a player leaves between
  the read and the creation, another joins, the late handler creates a duel
  with the one who left, and the next `room:ready` a second one for the one who
  stayed. TLC finds it in 16 steps; three humans with liveness are beyond
  `room_duo`, whose `OneDuelPerPair` says what the look-up does promise.
  "Double-firing mid-duel is safe" (`duelBootstrap.js:46`) is right of the
  pair; the repeated `room:ready` still sets the phase of a live duel back to
  lead selection.
* If the tie of a closing room is broken for a player whose seat is gone, the
  ranking loop of `leaveOrCloseRoom` reads a field of an undefined seat
  (`rooms.js:454`): the transaction rolls back and the room is never closed.
* "Empty rooms should not accumulate" (`rooms.js:269`): two overlapping
  `leaveRoom` each count the other's seat, and the empty lobby stays until a
  restart. Hence the premise of `AbandonedLobbyGoes`. A lobby whose last human
  leaves while a bot is seated is never deleted either, and a seat taken over
  REST that no socket enters never expires.
* Leaving a room with a live duel closes and ranks it while the duel runs
  (`rooms.js:452`). `RankedByWins` holds of the ranks, which that duel does not
  count for.
* The update in `createDuelFromRoom` (`duelTransactions.js:245`) sets the room
  `in_progress` whatever it was: a late creation re-opens a closed room.
* A late lifecycle of the first duel resets the ready flags and the teams of
  players who have already readied for the second one.

*Brackets.*

* "The bracket starts exactly once" (`duelBootstrap.js:113`): two `room:ready`
  handlers that both see four ready seats draw two pairings, and four semifinals
  exist. `room_bracket` therefore serves one `room:ready` at a time (`Serial`).
* "`room:final_ranking` exactly once" (`tournamentLifecycle.js:124`) and
  "Duplicate-creation safety comes entirely from createDuelFromRoom's OWN FOR
  UPDATE" (`tournamentLifecycle.js:128`): an advance that read the semifinals
  before the lock was released, and goes on after the last duels have ended and
  the room was ranked and closed, finds no *unfinished* final, inserts a second
  one and sets the room `in_progress` again. TLC finds it with five duels, one
  more than `room_bracket` has. Hence `Repeat` in `ClosedBracketIsDecided`; that
  the repeated duel is between the same players, that nobody is in two open
  duels all the same, and that the ranks stand, is proved.
* A seat that changes hands between `bootstrapBracketIfReady` and the creation of
  the semifinals is drawn with the player who left, and the one who came (a
  fifth) is in no duel and is never ranked: `ClosedBracketIsDecided` speaks of
  the seated who were drawn.
* "Still gets a walkover window" (`tournamentLifecycle.js:73`): a player who
  forfeits by a disconnect is not marked disconnected, so no window is armed for
  their next duel. Two semifinals that end so leave a third-place duel which nobody
  plays and nothing ends, against "total abandonment still closes normally"
  (`roomHandlers.js:145`). A disconnect mark can also be written after the
  player's rejoin.
* A lobby window that runs out after the bracket started deletes the seat of a
  paired player. If the creation of the third-place duel fails, the final it
  follows is never entered. A restart between the last final and its lifecycle
  leaves the bracket unranked, and one with a pending duel leaves that duel, of
  a room that stays in progress, without its leads' marks, window or walkover
  timer, and nobody is told. A semifinal between two bots would never start.

*Bots.* A second wipe can overtake a bot's seeding (hence `overtaken`), and the
starters it read as taken may be stale. A human who is ready before the bot is
has nobody left to call the bootstrap. Removing a bot does not look at the room's
status, so one can lose its team and seat while its duel runs. A bot's lead that
fails after the human's was written leaves the duel in lead selection.

*Duel screens.* A second `duel:start` overwrites `pendingDuelId`
(`duelBootstrap.js:139`), against `schema.ts:120`. Nothing in the application
leads from a finished semifinal to the final but the player's own clicks.
`resetSession` drops the socket, and nothing reconnects it until a reload. The
swap screen matches a confirmed swap by pokemon and not by owner, and a forced
swap is not left when the duel ends. A duel without a winner (restart) is never
shown as finished. The final ranking and the bracket are not sent again after
a reconnect.

*Draft screen.* A starter whose rejection arrives after the player went to the wait
room is never taken back, and the duel is seeded with five pokemon. A late
rejection of one starter clears the accepted next one. Of two overlapping
rosters the second is refused as duplicate and the first stays. A sixth click
sends the roster again. `POST /join` by a player who is seated answers 409, so
that a lost 201 locks players out of the room by their own seat.

## 5 The proofs

`tlapm` proves every theorem for all values of the constants that satisfy the
assumptions: `RulesAssumption` (two players, a non-empty roster of slots in `Nat`,
positive `FullHp`, multipliers 0.5, 1 or 2), `DuelAssumption` and
`ServerAssumption` (the null values are not members of the sets they stand
beside; `Requests` and `Faulty` name existing things), `RoomAssumption` (rooms of
two or four, finitely many players, humans apart from bots), `DraftAssumption`
(`None` is neither a pokemon nor a player), `ScreenAssumption` (the guest is a
human other than the host, no bots, a finite catalogue, `Rivals` any of the other
humans) and `ClientAssumption` (modes are 1v1 and bracket, one or two leads, positive bounds).

* **`RoundRules_proofs`** - lemmas on the operators: damage is positive, a hit
  keeps the row well typed, wears it down and marks the faint exactly when the
  hit points reach zero, a strike touches the two rows of the field. They end in
  `RoundIsSound`: whatever the moves and the order, the rows a round gives are well typed,
  have only worn down, and leave one team standing. The last part is the
  argument behind `KoVerdict`: the second striker is the very pokemon that the
  first strike would have knocked out, so a round knocks out at most one.
* **`Duel_proofs`** - `TypeCorrect`, `FaintedStaysOut`, `NeverTwoActive`,
  `KnockOutIsRight`, `VerdictIsWhole`, `LiveSidesAreFielded`, and the action
  properties `VerdictStays` and `RowsOnlyWearDown`. The inductive invariant
  `IInv` is the conjunction of five of the named invariants, which need each
  other: that a round wipes one team at most needs one fielded and unfainted
  pokemon a side, and that a KO verdict stays right needs that no other verdict is
  recorded over a wiped team. `LiveSidesAreFielded` needs `FieldInv` beside it:
  a side whose lead is marked has been fielded, and a pokemon on the field stays
  on it or is knocked out in every round (a conjunct of `WornDown`).
* **`DuelServer_proofs`** - `TypeCorrect`, `KnockOutIsRight`, `FaintedMatchesHp`,
  `PickIsOwned` and `OneVerdict`, for any number of handlers and callbacks in
  flight and any set of failing queries. `KoVerdict` is far from inductive here,
  since a round writes what it computed several steps earlier. The
  strengthening says that *every pair of a duels row and a set of pokemon rows
  anyone holds agrees*: the database, and each task at `round_write` or
  `round_rows`, for the row it carries (`TaskOk`). It is enough that rows which
  a wiped team makes final are written together with their verdict, that a stale
  write replaces both at once, and that no other step changes hit points or
  faints. `PickHasOwner` is inductive together with it, under the assumption
  `Faulty \cap {"pick_arm", "expiry_state", "take_state"} = {}`: if one of those
  three queries fails the owner of a pick is gone, which is a hazard that
  `PROJECT.json` lists. `OneVerdict` shows the refinement: `SettledStays` (a step
  never leaves a settled duel) and `StartsNoRound` (a finished duel starts no
  new round) carry it.
* **`RoomServer_proofs`** - `OneDuelForAPair`, `ClosedRoomIsRanked` and
  `RoomTypes`, for rooms of two and of four with any number of handlers, duels,
  absences and restarts.
  - *The first* needs that no step re-opens a row or changes its pair and round
    (`SameDuels`), and that an insertion follows a look-up that found nothing in
    the same transaction (`CreatedKeeps`); every other action is shown to leave
    the rows alone or to change other columns.
  - *The second* needs that seats stay rows (`IsSeats`), that only
    `leaveOrCloseRoom` finishes a room of two (`OnlyCloseFinishes`), and that the
    winner it computes, if seated, has won no fewer duels than the other,
    whichever seat its query returns first (`WinnerWonMore`).
  - *Types* are not inductive by themselves. A handler that pairs the finals puts
    a winner into a pair, and `winner_id` is NULL in a duel that a restart ended:
    `WinnersKnown` says that such a duel lies in a room that is closed, and that
    no handler is left that creates duels, so that none is re-opened. `TaskTyped`
    says that pairs to be created are not empty, so that everyone in a duel has an
    opponent, and that only players with a socket get a window.
* **`RoomBracket_proofs`** - four theorems on a bracket, for any number of
  players, handlers, duels, absences and restarts. `FinalsAreRight` assumes
  `Serial = {"ready"}`: one `room:ready` is served at a time, without which the
  hazard at `duelBootstrap.js:118` breaks it. `OneOpenDuelForAPlayer` and
  `ClosedBracketDecided` assume that too, and a room of four, which is what they
  speak of. `BracketGoesOn` assumes no more than that the three queries of the
  handler that moves the bracket on answer
  (`Faulty \cap {"advance", "final", "third"} = {}`).
  - `FinalsAreRight`: the lock of the room is given up between the reading of the
    semifinals and the creation of the finals, and what carries a handler over
    the gap is `Agrees`: at `final` and `third` it holds the pairs that the
    semifinals, both finished, still give. It stays so because rows only grow
    (`Grown`: a finished duel keeps its winner, a duel its pair and round) and no
    third semifinal is created once two are finished: a handler at `semi_b` knows
    of one semifinal at most because no other `room:ready` is in flight
    (`OneReady`), and none finds a waiting room with duels.
  - `BracketGoesOn`: `OwedInv` adds to the property that a handler at `third`
    has created a final (`Placed`). A step that
    finishes a duel begins or becomes an `advance`; an `advance` goes away only
    when a duel is still to be played, or into the handler that creates the next
    round, or by closing the room.
  - `OneOpenDuelForAPlayer`: `DrawInv` adds to the invariant of the first theorem
    that two semifinals are of four different players (`Fair`), that a handler
    at `semi_a` or `semi_b` holds two pairs apart, and at `semi_b` the one that is
    created already and the one that is not (`Draws`), and that a duel ended
    without a winner only in a room that was aborted (`Standing`).
    Winners and losers of two decided semifinals are then four players, and of a
    round created twice one row is open at a time, by `OneDuelForAPair`.
  - `ClosedBracketDecided`: `ClosedInv` adds `RanksStand`: in a closed bracket the
    first final and the first third-place duel are over, and each drawn player
    has the rank these two give. It survives a late advance that inserts either
    a second time, because `duels.find` takes the one with the lowest id: a room
    so re-opened is ranked again, if at all, from the same two rows.
* **`TeamDraft_proofs`** - `TypeCorrect`, `StartersStayApart`, `TeamsStayWhole` and
  `ReadyBotsHaveTeams`, for any catalogue, roster size and number of handlers. The
  inductive invariant `IInv` is the conjunction of the first three with two facts: that
  the seats are finite, which counting them needs, and that every task in flight
  writes the rows of a player (`TasksOwned`). The unique index is
  asked again at the insertion, so nothing has to be remembered of what a task
  has read. `ReadyBotsHaveTeams` needs what a seeding has reached (`Armed`): at
  its roster the bot has a starter, at its ready flag a roster, unless a wipe
  has crossed it; and that no other handler takes either away (`BotKept`).
* **`TeamScreen_proofs`** - `PickerStaysUsable`, `SeatsAreEntered`, `ScreenTypes`
  and `ShownIsHeld`, for any number of rivals, starters and requests in flight.
  The last rests on `HeldInv`: until a part of the team is excused, it is out
  once at most and in one stage of its way - a request, a transaction that
  nothing has overtaken, or a rejection that will take the pick back - and what
  is out is what is shown, or was deselected since. With nothing out, what is
  shown is what the room holds. It stands on `ScreenInv` and on `TeamDraft`'s
  `IInv`, whose actions are the rivals' and the handlers'.
* **`DuelClient_proofs`** - `ClientTypes`, `OutcomeIsTheServers` and `DuelsAreMine`,
  for any number of duels, faults, pushes, answers and requests. `ClientInv`
  states of everything on its way, each push in the inbox (`PushOK`) and each
  answer a handler has read and not sent (`Told`), that what it says of a duel is
  true of its row *now*: it may be late, but a winner it names is the winner. That
  outlives every step because rows only move on (`Later`: no duel goes away,
  changes sides or takes another winner), and it makes the order of arrival
  irrelevant to what the store says of an end.

Only model-checked: the liveness properties `PickIsTaken`, `EndIsAnnounced`,
`ReadyRoomStarts`, `AbandonedLobbyGoes`, `ReturnSeesOutcome`, `DeadRoomIsTold`
and `SwapIsAnswered`, since liveness under fairness and `ENABLED` are beyond the
proof system. Every invariant and action property of a passing run is a theorem.
The inductive invariants of the rooms, the draft and the team screen were checked
by TLC, on instances like those of their runs, before they were proved.

## 6 What is left out

Of the modelled components:

* *Duels:* the journal of moves, the events payload and every broadcast but
  `duel:finished`, which nothing in the server reads back except the journal's count
  that labels turns; `RoundState` labels, which only the client shows; empty
  rosters and rosters of different size (`Slot` is one set, not empty), although
  `room:ready` does not ask for a team; the bot's moves and switches inside a duel
  (`botManager.js:186`, `turnCycle.js:165`), of which only the await that asks
  whether the rival is a bot is there, because a pick is unprotected while it runs.
* *Rooms:* room codes, nicknames, broadcasts of the room's state, taking readiness
  back, REST errors other than a refused or lost join. A duel is an outcome, so
  that a late round which re-opens a finished one is not in `RoomServer`.
* *Draft:* which slot a pokemon has; rejected payloads, which are refused before any query.
* *Client:* layout, animation, the attack replay, login, the catalogue; the buttons
  that leave a room by navigating only; rejections that change nothing; the bot's
  buttons. In `TeamScreen` rooms have no bot, and an end is reported once.

Not modelled:

* *Limits* (`wsRateLimit.js`, `rateLimit.js`): a counter per socket that drops
  events, and the middleware of a library. No other component reads them, and a
  property would restate the guard. A dropped event is a message that never
  comes, which every model allows, because no player has to send anything.
* *Sessions, catalogue, migrations, seeds, scripts:* single queries without state
  of their own; the migrations are read for the types, unique indexes and
  cascades of the rows.
* `src/Prototipos`: a design prototype that the program does not load.

## 7 Plan

Done: the modules of section 2 with their instances, and the proofs of section 5.
What could follow, most valuable first:

1. What remains of a bracket that is drawn twice, with more than one `room:ready`
   in flight, and of a pick whose handler failed at one of the three queries that
   `PickIsOwned` assumes to answer.
2. Bots as one more kind of task in `DuelServer`.
3. A room of two with three humans, safety only, for the duel created from seats
   that have been left.
