---------------------------- MODULE DuelClient ----------------------------
(***************************************************************************)
(* The browser of one player through the duels of one room: the store that *)
(* the pushes of the server overwrite, the screens that redirect on what   *)
(* it holds, a socket that may be lost, and as much of the server as the   *)
(* player sees.                                                            *)
(*                                                                         *)
(* Requests wait in sent, pushes in inbox.  A duel:join reads the duel and *)
(* answers later, in any order with everything else; the other handlers,   *)
(* whose races are DuelServer's subject, are one step each.  Of a duel     *)
(* only what routes the player is kept: their own pokemon, whether the     *)
(* rival has one on the field, the winner.                                 *)
(***************************************************************************)
EXTENDS Naturals, Sequences, FiniteSets

CONSTANTS
    Modes,        \* what the room may be: "1v1", "tournament"
    Leads,        \* the pokemon the player opens a duel with
    Battles,      \* the rooms in which rounds are played; elsewhere somebody gives up
    MaxRematches, \* bound on the duels of a 1v1 room
    FaultModes,   \* the rooms in which anything is lost
    MaxFaults,    \* bound on lost sockets, page reloads and server restarts
    MaxAnswers,   \* bound on duel:join handlers that wait for their query
    MaxSent,      \* requests in flight beyond which the player waits
    MaxInbox      \* pushes in flight beyond which the server's duels wait

ASSUME ClientAssumption ==
    /\ Modes \subseteq {"1v1", "tournament"} /\ Modes # {} /\ FaultModes \cup Battles \subseteq Modes
    /\ Leads \subseteq 1..2
    /\ {MaxRematches, MaxFaults, MaxAnswers, MaxSent, MaxInbox} \subseteq Nat \ {0}

VARIABLES
    mode,       \* by rooms.max_players
    status,     \* rooms.status, "gone" once the row is deleted
    ready,      \* the player's own ready flag
    duels,      \* the duels of the room in order of id
    forfeit,    \* the live duel a disconnect handler is about to finish
    answers,    \* duel:join handlers that have read and not yet answered
    subscribed, \* the duel:N channels the player's socket is in
    inRoom,     \* that socket has joined the room's channel
    sock,       \* the client's socket: "on", "off", or "null" once given up
    sent,       \* requests on their way, or buffered while the socket is off
    inbox,      \* pushes on their way
    store,      \* MockState
    ui,         \* the screen and what its component keeps
    faults      \* lost sockets, reloads and restarts so far

server  == <<status, ready, duels, forfeit>>
sockets == <<answers, subscribed, inRoom>>
client  == <<store, ui>>
bounds  == <<mode, faults>>
vars    == <<server, sockets, sock, sent, inbox, client, bounds>>

Mon     == {1, 2}      \* the player's pokemon in a duel
NoMon   == 0
NoDuel  == 0
MaxDuels == IF mode = "1v1" THEN MaxRematches ELSE 4
Winners == {"none", "me", "rival"}

DuelRow == [mine   : BOOLEAN,       \* the player is one of its two
            phase  : {"none", "lead_selection", "in_progress"},   \* DuelPhaseStore
            over   : BOOLEAN,       \* duels.status = 'finished'
            told   : BOOLEAN,       \* duel:finished was emitted
            ko     : BOOLEAN,       \* the end was a knock-out
            winner : Winners,
            active : Mon \cup {NoMon},
            fainted : SUBSET Mon,
            rival  : BOOLEAN,       \* the rival has a pokemon on the field
            rivalLost : BOOLEAN,    \* and has lost one
            marked : SUBSET {"me", "rival"}]

\* Of a duel between others nothing is kept up but that it exists.
NewDuel(mine) == [mine |-> mine, phase |-> "lead_selection", over |-> FALSE, told |-> FALSE, ko |-> FALSE,
                  winner |-> "none", active |-> NoMon, fainted |-> {}, rival |-> FALSE,
                  rivalLost |-> FALSE, marked |-> {}]

\* mapDuelStateToCamelCase: neither the status nor the phase is part of it.
Snapshot(row) == [winner |-> row.winner, active |-> row.active,
                  fainted |-> row.fainted, rival |-> row.rival]

Screen == {"lobby", "wait", "duel", "forced", "voluntary", "ranking"}
Swap   == {"forced", "voluntary"}
DuelPhase == {"lead_selection", "awaiting_actions", "awaiting_switch", "finished"}

\* DuelState and the pokemon that come with it, MockState.
DuelState == [id : Nat, phase : DuelPhase, winner : Winners,
              active : Mon \cup {NoMon}, fainted : SUBSET Mon, rival : BOOLEAN]
MockState == [room : BOOLEAN, tournament : BOOLEAN, duel : DuelState, pending : Nat,
              ranking : BOOLEAN, aborted : BOOLEAN]

NullDuel == [id |-> NoDuel, phase |-> "lead_selection", winner |-> "none",
             active |-> NoMon, fainted |-> {}, rival |-> FALSE]

TypeOK ==
    /\ mode \in Modes
    /\ status \in {"waiting", "in_progress", "finished", "aborted", "gone"}
    /\ ready \in BOOLEAN
    /\ duels \in Seq(DuelRow) /\ Len(duels) <= MaxDuels
    /\ forfeit \in DOMAIN duels \cup {NoDuel}
    /\ \A a \in answers : a.id \in DOMAIN duels /\ duels[a.id].mine
    /\ subscribed \subseteq DOMAIN duels
    /\ sock \in {"on", "off", "null"}
    /\ sock # "on" => answers = {} /\ subscribed = {} /\ ~inRoom /\ inbox = <<>>
    /\ store \in MockState
    /\ {store.duel.id, store.pending} \subseteq DOMAIN duels \cup {NoDuel}
    /\ ui.screen \in Screen
    /\ ui.swap \in Mon \cup {NoMon} /\ (ui.swap # NoMon => ui.screen \in Swap)
    /\ faults \in 0..MaxFaults
    /\ Cardinality(answers) <= MaxAnswers

InitialState == [room |-> FALSE, tournament |-> FALSE, duel |-> NullDuel, pending |-> NoDuel,
                 ranking |-> FALSE, aborted |-> FALSE]

\* A component's own state starts anew whenever its screen is shown.
Fresh(screen) == [screen |-> screen, asked |-> NoDuel, swap |-> NoMon,
                  synced |-> FALSE, pulled |-> FALSE]

\* The player has logged in and stands in the lobby; the room exists.
Init ==
    /\ mode \in Modes
    /\ status = "waiting"
    /\ ready = FALSE
    /\ duels = <<>>
    /\ forfeit = NoDuel
    /\ answers = {} /\ subscribed = {} /\ inRoom = FALSE
    /\ sock = "on" /\ sent = <<>> /\ inbox = <<>>
    /\ store = InitialState
    /\ ui = Fresh("lobby")
    /\ faults = 0

---------------------------------------------------------------------------
(* The store: what each push makes of it (reduceMockState) *)

\* deriveDuelPhase; a rival without a pokemon on the field has one left, or
\* there would be a winner.
Phase(snap) ==
    CASE snap.winner # "none" -> "finished"
      [] snap.winner = "none" /\ snap.active = NoMon /\ ~snap.rival -> "lead_selection"
      [] snap.winner = "none" /\ (snap.active # NoMon \/ snap.rival) ->
           IF (snap.active = NoMon /\ snap.fainted # Mon) \/ ~snap.rival
             THEN "awaiting_switch" ELSE "awaiting_actions"

\* duelFromSnapshot
FromSnapshot(id, snap) == [id |-> id, phase |-> Phase(snap), winner |-> snap.winner,
                           active |-> snap.active, fainted |-> snap.fainted, rival |-> snap.rival]

RoomShellReceived(s) == [s EXCEPT !.room = TRUE, !.tournament = FALSE, !.duel = NullDuel,
                                  !.pending = NoDuel, !.ranking = FALSE]
DuelTurnResolved(s, id, snap) == [s EXCEPT !.duel = FromSnapshot(id, snap)]
DuelStateReceived(s, id, snap) == [DuelTurnResolved(s, id, snap) EXCEPT !.pending = NoDuel]

DuelFinishedAny(s, id, winner) ==
    IF s.duel.id = NoDuel THEN s
    ELSE [s EXCEPT !.duel.phase = "finished", !.duel.winner = winner]
DuelFinished(s, id, winner) ==
    IF s.duel.id = NoDuel \/ s.duel.id # id THEN s
    ELSE [s EXCEPT !.duel.phase = "finished", !.duel.winner = winner]

RoomStateReceived(s)   == [s EXCEPT !.room = TRUE]
PendingDuelSet(s, id)  == [s EXCEPT !.pending = id]
\* lastRejection is what Refused looks at.
DuelSwitchRejected(s)  == s
TournamentBracket(s)   == [s EXCEPT !.tournament = TRUE]
RoomFinalRanking(s)    == [s EXCEPT !.ranking = TRUE]
RoomAborted(s)         == [s EXCEPT !.aborted = TRUE]
RoomAbortedAcknowledged(s) == [s EXCEPT !.aborted = FALSE]
DuelCleared(s) == [s EXCEPT !.duel = NullDuel, !.pending = NoDuel]
DuelLeadSelection(s, m) ==
    IF s.duel.id = NoDuel \/ s.duel.phase # "lead_selection" THEN s
    ELSE [s EXCEPT !.duel.active = m]
RoomJoinRejected(s) == [s EXCEPT !.room = FALSE, !.tournament = FALSE, !.duel = NullDuel,
                                 !.pending = NoDuel]

\* The listeners of useDuelSocket.
Reduce(s, push) ==
    CASE push.type = "room:state"           -> RoomStateReceived(s)
      [] push.type = "duel:start"           -> PendingDuelSet(s, push.id)
      [] push.type = "duel:state"           -> DuelStateReceived(s, push.id, push.snap)
      [] push.type = "duel:turn_resolved"   -> DuelTurnResolved(s, push.id, push.snap)
      [] push.type = "duel:finished"        -> DuelFinished(s, push.id, push.winner)
      [] push.type = "duel:switch_rejected" -> DuelSwitchRejected(s)
      [] push.type = "tournament:bracket"   -> TournamentBracket(s)
      [] push.type = "room:final_ranking"   -> RoomFinalRanking(s)
      [] push.type = "room:aborted"         -> RoomAborted(s)
      [] push.type = "room:join_rejected"   -> RoomJoinRejected(s)

---------------------------------------------------------------------------
(* The screens: where an effect or a redirect takes the player *)

\* Requests.
Ask(type)         == [type |-> type, id |-> NoDuel, mon |-> NoMon]
AskDuel(type, id) == [type |-> type, id |-> id, mon |-> NoMon]
AskMon(type, m)   == [type |-> type, id |-> store.duel.id, mon |-> m]

HasDuel(s)    == s.duel.id # NoDuel
Over(s)       == s.duel.phase = "finished"
MustSwitch(s) == s.duel.phase = "awaiting_switch" /\ s.duel.active = NoMon
Selectable(s) == Mon \ (s.duel.fainted \cup {s.duel.active})

\* What the board offers: PostDuelChoice over a decided duel of a bracket, the
\* moves otherwise; to swap, in one's turn or under the modal over a fallen rival.
Controls(s) ==
    CASE s.duel.phase = "lead_selection"                  -> "lead"
      [] Over(s) /\ s.tournament /\ ~s.ranking            -> "choice"
      [] OTHER                                            -> "moves"
CanAct(s)          == s.duel.phase = "awaiting_actions" /\ s.duel.active # NoMon
WonExchange(s)     == s.duel.phase = "awaiting_switch" /\ s.duel.active # NoMon
ShowRematch(s)     == mode = "1v1" /\ HasDuel(s) /\ Over(s) /\ s.pending = NoDuel

SwapDone(s, u) == u.swap # NoMon /\ s.duel.active = u.swap

\* Where the wait room and the board lead whoever has just come to them.  With
\* a final ranking computePostDuelRoute leaves the board of a bracket, without
\* one it stays.
FromWait(s) == IF s.room THEN "wait" ELSE "lobby"
FromBoard(s) ==
    CASE ~HasDuel(s) -> FromWait(s)
      [] HasDuel(s) /\ MustSwitch(s) -> "forced"
      [] HasDuel(s) /\ Over(s) /\ (~s.room \/ mode = "1v1") -> FromWait(s)
      [] HasDuel(s) /\ Over(s) /\ s.room /\ mode # "1v1" /\ s.ranking -> "ranking"
      [] OTHER -> "duel"
Arrival(s, screen) ==
    CASE screen = "duel"    -> FromBoard(s)
      [] screen = "wait"    -> FromWait(s)
      [] screen = "ranking" -> IF s.room THEN "ranking" ELSE "lobby"
      [] OTHER              -> screen

\* A confirmed swap, and the duel the player asked to enter, open the board; the wait
\* room looks only when its duel was just replaced.
DuelPushes == {"duel:state", "duel:turn_resolved", "duel:finished", "duel:switch_rejected"}
OpensBoard(s, u, push) ==
    \/ u.screen \in Swap /\ (~HasDuel(s) \/ SwapDone(s, u))
    \/ u.screen = "wait" /\ s.room /\ push \in DuelPushes /\ u.asked # NoDuel /\ s.duel.id = u.asked

\* The board asks for the duel again whenever it is shown with one.
MountJoin(s, screen) ==
    IF screen = "duel" /\ HasDuel(s) /\ ~Over(s) THEN <<AskDuel("duel:join", s.duel.id)>> ELSE <<>>

\* The swap screen gives a pending swap up on a rejection of its own.
Refused(s, u, push) == u.swap # NoMon /\ HasDuel(s) /\ push = "duel:switch_rejected"

\* A forced swap with nothing to offer asks for the team, once.
Trapped(s, u) == u.screen = "forced" /\ HasDuel(s) /\ ~u.synced /\ Selectable(s) = {}
TrappedJoin(s, u) == IF Trapped(s, u) THEN <<AskDuel("duel:join", s.duel.id)>> ELSE <<>>

\* The screen u after its effects, and after a redirect.
Settled(s, u, screen, push) ==
    IF screen = u.screen
      THEN [u EXCEPT !.swap = IF Refused(s, u, push) THEN NoMon ELSE @,
                     !.pulled = @ /\ ~Refused(s, u, push),
                     !.synced = @ \/ Trapped(s, u)]
      ELSE [Fresh(screen) EXCEPT !.synced = Trapped(s, Fresh(screen))]

\* A step of the client: the store becomes s, the screen shows u and goes where
\* that leads.  The screens keep what they have while they stay.  Without a
\* socket object requests are lost.
Emit(requests) == sent' = IF sock = "null" THEN <<>> ELSE sent \o requests

Render(s, u, requests, push) ==
    LET opened == OpensBoard(s, u, push)
        screen == Arrival(s, IF opened THEN "duel" ELSE u.screen)
        shown  == Settled(s, IF opened THEN Fresh("duel") ELSE u, screen, push)
    IN  /\ store' = s
        /\ ui' = shown
        /\ Emit(requests \o (IF opened THEN MountJoin(s, "duel") ELSE <<>>)
                         \o TrappedJoin(s, IF opened \/ screen # u.screen THEN Fresh(screen) ELSE u))

\* navigate, by a click.
Show(screen, s, requests) ==
    Render(s, Fresh(screen), requests \o MountJoin(s, screen), "none")

---------------------------------------------------------------------------
(* The socket *)

ResyncRoomOnly == IF store.room THEN <<Ask("room:join")>> ELSE <<>>
ResyncDuelOnly == IF HasDuel(store) /\ ~Over(store)
                    THEN <<AskDuel("duel:join", store.duel.id)>> ELSE <<>>

\* resyncMembership
Resync == (IF store.room THEN <<Ask("room:join")>> ELSE <<>>)
            \o (IF HasDuel(store) /\ ~Over(store) THEN <<AskDuel("duel:join", store.duel.id)>>
                                                 ELSE <<>>)

\* What was asked while the socket was off goes first.
Connect ==
    /\ sock = "off"
    /\ sock' = "on"
    /\ sent' = sent \o Resync
    /\ UNCHANGED <<server, sockets, inbox, client, bounds>>

Live == {d \in DOMAIN duels : duels[d].phase = "in_progress" /\ ~duels[d].over}

\* Everything under way is lost; the server forfeits the player's live duel.
Cut(after) ==
    /\ sock' = after
    /\ inbox' = <<>>
    /\ answers' = {} /\ subscribed' = {} /\ inRoom' = FALSE
    /\ forfeit' = IF \E d \in Live : duels[d].mine
                    THEN CHOOSE d \in Live : duels[d].mine ELSE forfeit
    /\ UNCHANGED <<status, ready, duels>>

Drop ==
    /\ sock = "on"
    /\ mode \in FaultModes /\ faults < MaxFaults
    /\ faults' = faults + 1
    /\ Cut("off")
    /\ sent' = <<>>
    /\ UNCHANGED <<client, mode>>

\* The page is loaded anew: the store comes back from localStorage, the
\* components start afresh.  What the board asks for as it mounts, Connect repeats.
Reload ==
    /\ mode \in FaultModes /\ faults < MaxFaults
    /\ faults' = faults + 1
    /\ Cut("off")
    /\ ui' = Fresh(ui.screen)
    /\ sent' = TrappedJoin(store, Fresh(ui.screen))
    /\ UNCHANGED <<store, mode>>

---------------------------------------------------------------------------
(* The server: what the player asks for *)

Roomy == Len(inbox) < MaxInbox
ToRoom(push)     == IF inRoom THEN <<push>> ELSE <<>>
ToDuel(id, push) == IF id \in subscribed THEN <<push>> ELSE <<>>
RoomState        == [type |-> "room:state"]
State(id, row)   == [type |-> "duel:state", id |-> id,
                     snap |-> Snapshot(row)]
Take == sent' = Tail(sent)

HandleRoomJoin ==
    /\ inRoom' = (status # "gone")
    /\ inbox' = Append(inbox, CASE status = "gone"    -> [type |-> "room:join_rejected"]
                                [] status = "aborted" -> [type |-> "room:aborted"]
                                [] status \notin {"gone", "aborted"} -> RoomState)
    /\ UNCHANGED <<server, answers, subscribed>>

HandleReady ==
    /\ ready' = (ready \/ inRoom)
    /\ UNCHANGED <<status, duels, forfeit, sockets, inbox>>

\* fetchDuelForParticipant
AnyDuel(id)     == id \in DOMAIN duels
Participant(id) == id \in DOMAIN duels /\ duels[id].mine

\* The duel is read here and sent later; duel:join_rejected has no listener.
HandleJoin(id) ==
    /\ Cardinality(answers) < MaxAnswers
    /\ answers' = IF Participant(id) THEN answers \cup {[id |-> id, snap |-> Snapshot(duels[id])]}
                                     ELSE answers
    /\ UNCHANGED <<server, subscribed, inRoom, inbox>>

\* Nobody listens to duel:lead_rejected either.
HandleLead(id, m) ==
    LET accepted == /\ Participant(id)
                    /\ duels[id].phase = "lead_selection" /\ duels[id].active = NoMon
        both == duels[id].marked = {"rival"}
        row  == [duels[id] EXCEPT !.active = m, !.marked = @ \cup {"me"},
                                  !.phase = IF both THEN "in_progress" ELSE @]
    IN  /\ duels' = IF accepted THEN [duels EXCEPT ![id] = row] ELSE duels
        /\ inbox' = IF accepted /\ both THEN inbox \o ToDuel(id, State(id, row)) ELSE inbox
        /\ UNCHANGED <<status, ready, forfeit, sockets>>

\* A switch is checked against the roster alone, whatever the phase.
HandleSwitch(id, m) ==
    LET accepted == Participant(id) /\ m \notin duels[id].fainted /\ m # duels[id].active
        row == [duels[id] EXCEPT !.active = m]
    IN  /\ duels' = IF accepted THEN [duels EXCEPT ![id] = row] ELSE duels
        /\ inbox' = IF accepted THEN inbox \o ToDuel(id, State(id, row))
                                ELSE Append(inbox, [type |-> "duel:switch_rejected"])
        /\ UNCHANGED <<status, ready, forfeit, sockets>>

Ended(row, winner, ko) == [row EXCEPT !.over = TRUE, !.winner = winner, !.ko = ko,
                                      !.phase = "none", !.marked = {}, !.rivalLost = FALSE]

HandleSurrender(id) ==
    /\ duels' = IF Participant(id) /\ ~duels[id].over
                  THEN [duels EXCEPT ![id] = Ended(@, "rival", FALSE)] ELSE duels
    /\ UNCHANGED <<status, ready, forfeit, sockets, inbox>>

Handle ==
    LET r == Head(sent) IN
    /\ sock = "on" /\ sent # <<>> /\ Roomy
    /\ Take
    /\ \/ r.type = "room:join"            /\ HandleRoomJoin
       \/ r.type = "room:ready"           /\ HandleReady
       \/ r.type = "duel:join"            /\ HandleJoin(r.id)
       \/ r.type = "duel:select_lead"     /\ HandleLead(r.id, r.mon)
       \/ r.type = "duel:switch_decision" /\ HandleSwitch(r.id, r.mon)
       \/ r.type = "duel:surrender"       /\ HandleSurrender(r.id)
    /\ UNCHANGED <<sock, client, bounds>>

\* The join is answered with what was read.
Answer(id) ==
    /\ \E a \in answers :
         /\ a.id = id
         /\ answers' = answers \ {a}
         /\ inbox' = Append(inbox, [type |-> "duel:state", id |-> id, snap |-> a.snap])
    /\ subscribed' = subscribed \cup {id}
    /\ UNCHANGED <<server, inRoom, sock, sent, client, bounds>>

---------------------------------------------------------------------------
(* The server: what others do *)

Open  == \E d \in DOMAIN duels : duels[d].mine /\ ~duels[d].over
Finals == 3..4

Start(id) == ToRoom([type |-> "duel:start", id |-> id])
Bracket   == ToRoom([type |-> "tournament:bracket"])

\* bootstrapDuelIfReady, once the rival is ready too.
StartDuel ==
    /\ mode = "1v1" /\ status \in {"waiting", "in_progress"} /\ ready
    /\ ~Open /\ Len(duels) < MaxRematches /\ Roomy
    /\ duels' = Append(duels, NewDuel(TRUE))
    /\ status' = "in_progress"
    /\ inbox' = inbox \o Start(Len(duels) + 1)
    /\ UNCHANGED <<ready, forfeit, sockets, sock, sent, client, bounds>>

\* bootstrapBracketIfReady: the player is drawn into one of the semifinals.
OpenBracket ==
    /\ mode = "tournament" /\ status = "waiting" /\ ready /\ Roomy
    /\ \E mine \in 1..2 : duels' = [d \in 1..2 |-> NewDuel(d = mine)]
    /\ status' = "in_progress"
    /\ inbox' = inbox \o Bracket \o Start(1) \o Start(2)
    /\ UNCHANGED <<ready, forfeit, sockets, sock, sent, client, bounds>>

\* The advance after the second semifinal; duel 3 is the final.
OpenFinals ==
    /\ mode = "tournament" /\ status = "in_progress" /\ Len(duels) = 2 /\ ~Open /\ Roomy
    /\ LET won == \E d \in 1..2 : duels[d].mine /\ duels[d].winner = "me"
       IN  duels' = duels \o <<NewDuel(won), NewDuel(~won)>>
    /\ inbox' = inbox \o Bracket \o Start(3) \o Start(4)
    /\ UNCHANGED <<status, ready, forfeit, sockets, sock, sent, client, bounds>>

CloseBracket ==
    /\ mode = "tournament" /\ status = "in_progress" /\ Len(duels) = 4 /\ ~Open /\ Roomy
    /\ status' = "finished"
    /\ inbox' = inbox \o ToRoom([type |-> "room:final_ranking"])
    /\ UNCHANGED <<ready, duels, forfeit, sockets, sock, sent, client, bounds>>

RivalLead(d) ==
    LET both == duels[d].marked = {"me"}
        row  == [duels[d] EXCEPT !.rival = TRUE, !.marked = @ \cup {"rival"},
                                 !.phase = IF both THEN "in_progress" ELSE @]
    IN  /\ duels[d].mine /\ duels[d].phase = "lead_selection" /\ ~duels[d].rival /\ Roomy
        /\ duels' = [duels EXCEPT ![d] = row]
        /\ inbox' = IF both THEN inbox \o ToDuel(d, State(d, row)) ELSE inbox
        /\ UNCHANGED <<status, ready, forfeit, sockets, sock, sent, client, bounds>>

Fighting(d) == mode \in Battles /\ d \in Live /\ duels[d].mine /\ duels[d].active # NoMon /\ duels[d].rival
Turn(d, row) == [State(d, row) EXCEPT !.type = "duel:turn_resolved"]

\* A round knocks one side out; the last one to fall loses the duel, which is
\* announced in later steps.
PlayerFalls(d) ==
    LET row == [duels[d] EXCEPT !.active = NoMon, !.fainted = @ \cup {duels[d].active}] IN
    /\ Fighting(d) /\ Roomy
    /\ \/ /\ row.fainted # Mon
          /\ duels' = [duels EXCEPT ![d] = row]
          /\ inbox' = inbox \o ToDuel(d, Turn(d, row))
       \/ /\ row.fainted = Mon
          /\ duels' = [duels EXCEPT ![d] = Ended(row, "rival", TRUE)]
          /\ UNCHANGED inbox
    /\ UNCHANGED <<status, ready, forfeit, sockets, sock, sent, client, bounds>>

RivalFalls(d) ==
    LET row == [duels[d] EXCEPT !.rival = FALSE, !.rivalLost = TRUE] IN
    /\ Fighting(d) /\ Roomy
    /\ \/ /\ ~duels[d].rivalLost
          /\ duels' = [duels EXCEPT ![d] = row]
          /\ inbox' = inbox \o ToDuel(d, Turn(d, row))
       \/ /\ duels[d].rivalLost
          /\ duels' = [duels EXCEPT ![d] = Ended(row, "me", TRUE)]
          /\ UNCHANGED inbox
    /\ UNCHANGED <<status, ready, forfeit, sockets, sock, sent, client, bounds>>

RivalReplaces(d) ==
    LET row == [duels[d] EXCEPT !.rival = TRUE] IN
    /\ d \in Live /\ duels[d].mine /\ ~duels[d].rival /\ Roomy
    /\ duels' = [duels EXCEPT ![d] = row]
    /\ inbox' = inbox \o ToDuel(d, State(d, row))
    /\ UNCHANGED <<status, ready, forfeit, sockets, sock, sent, client, bounds>>

\* By surrender, or because the rival's socket is gone.
RivalGivesUp(d) ==
    /\ duels[d].mine /\ ~duels[d].over
    /\ duels' = [duels EXCEPT ![d] = Ended(@, "me", FALSE)]
    /\ UNCHANGED <<status, ready, forfeit, sockets, sock, sent, inbox, client, bounds>>

Forfeit ==
    /\ forfeit # NoDuel
    /\ forfeit' = NoDuel
    /\ duels' = IF duels[forfeit].over
                  THEN duels ELSE [duels EXCEPT ![forfeit] = Ended(@, "rival", FALSE)]
    /\ UNCHANGED <<status, ready, sockets, sock, sent, inbox, client, bounds>>

\* The end is announced after it was written, and a 1v1 room asks for readiness
\* anew (finalizeDuelSideEffects, advanceTournamentOrRematch; one step here).
Announce(d) ==
    /\ duels[d].over /\ ~duels[d].told /\ Roomy
    /\ duels' = [duels EXCEPT ![d] = [@ EXCEPT !.told = TRUE, !.ko = FALSE]]
    /\ ready' = (ready /\ mode # "1v1")
    /\ inbox' = inbox \o (IF duels[d].ko THEN ToDuel(d, Turn(d, duels[d])) ELSE <<>>)
                      \o ToDuel(d, [type |-> "duel:finished", id |-> d, winner |-> duels[d].winner])
    /\ UNCHANGED <<status, forfeit, sockets, sock, sent, client, bounds>>

\* Live duels end without a winner and take the room with them, as does a lobby.
Reconciled ==
    /\ duels' = [d \in DOMAIN duels |->
                   [duels[d] EXCEPT !.phase = "none", !.over = @ \/ d \in Live, !.ko = FALSE,
                                    !.told = @ \/ duels[d].over \/ d \in Live]]
    /\ \E othersLive \in {FALSE, mode = "tournament"} :
         status' = CASE status = "waiting" -> "gone"
                     [] status = "in_progress" /\ (Live # {} \/ othersLive) -> "aborted"
                     [] OTHER -> status

\* Sockets and phases are gone; nobody connects before the rows are reconciled.
Restart ==
    /\ mode \in FaultModes /\ faults < MaxFaults
    /\ faults' = faults + 1
    /\ Reconciled
    /\ forfeit' = NoDuel
    /\ answers' = {} /\ subscribed' = {} /\ inRoom' = FALSE
    /\ inbox' = <<>>
    /\ sent' = IF sock = "on" THEN <<>> ELSE sent
    /\ sock' = IF sock = "on" THEN "off" ELSE sock
    /\ UNCHANGED <<ready, client, mode>>

---------------------------------------------------------------------------
(* The client: pushes, clicks and its own timers *)

Deliver ==
    /\ sock = "on" /\ inbox # <<>>
    /\ inbox' = Tail(inbox)
    /\ Render(Reduce(store, Head(inbox)), ui, <<>>, Head(inbox).type)
    /\ UNCHANGED <<server, sockets, sock, bounds>>

\* A click and a push on its way commute, so that clicks wait for the pushes.
On(screens) == ui.screen \in screens /\ Len(sent) < MaxSent /\ inbox = <<>>
Stays == UNCHANGED <<server, sockets, sock, inbox, bounds>>

\* LobbyScreen: the room is created or joined over REST.
EnterRoom ==
    /\ On({"lobby"}) /\ ~store.room /\ status = "waiting"
    /\ Show("wait", RoomShellReceived(store), <<Ask("room:join")>>)
    /\ Stays

GetReady ==
    /\ On({"wait"}) /\ ~ready
    /\ Render(store, ui, <<Ask("room:ready")>>, "none")
    /\ Stays

EnterDuel ==
    /\ On({"wait"}) /\ store.pending # NoDuel
    /\ Render(store, [ui EXCEPT !.asked = store.pending],
              <<AskDuel("duel:join", store.pending)>>, "none")
    /\ Stays

\* PostDuelRematchPanel
Rematch ==
    /\ On({"wait"}) /\ ShowRematch(store)
    /\ Show("wait", DuelCleared(store), <<>>)
    /\ Stays

\* The browser's own button: the board was pushed on top of the wait room.
GoBack == On({"duel"}) /\ Show("wait", store, <<>>) /\ Stays

PickLead(m) ==
    /\ On({"duel"}) /\ Controls(store) = "lead"
    /\ Render(DuelLeadSelection(store, m), ui, <<AskMon("duel:select_lead", m)>>, "none")
    /\ Stays

\* A move leaves no trace until the round resolves, which is a step of others;
\* its button is left out.  The player may swap in their turn, and when the modal
\* over a fallen rival offers it.
OpenSwap ==
    /\ mode \in Battles
    /\ On({"duel"}) /\ Controls(store) = "moves"
    /\ CanAct(store) \/ WonExchange(store)
    /\ Show("voluntary", store, <<>>)
    /\ Stays

LeaveSwap ==
    /\ On(Swap) /\ (ui.screen = "forced" => Selectable(store) = {})
    /\ Show("duel", store, <<>>)
    /\ Stays

ConfirmSwap(m) ==
    /\ On(Swap) /\ ui.swap = NoMon /\ m \in Selectable(store)
    /\ Render(store, [ui EXCEPT !.swap = m, !.pulled = FALSE],
              <<AskMon("duel:switch_decision", m)>>, "none")
    /\ Stays

\* 4 s without an answer: the duel is asked for again.
SwapPulls ==
    /\ On(Swap) /\ ui.swap # NoMon /\ ~ui.pulled
    /\ Render(store, [ui EXCEPT !.pulled = TRUE],
              <<AskDuel("duel:join", store.duel.id)>>, "none")
    /\ Stays

SwapFailsSilently ==
    /\ ui.swap # NoMon /\ ui.pulled
    /\ Render(store, [ui EXCEPT !.pulled = FALSE], <<>>, "none")
    /\ Stays
\* 10 s: the player may choose again.
SwapFails ==
    /\ ui.swap # NoMon /\ ui.pulled
    /\ Render(store, [ui EXCEPT !.swap = NoMon, !.pulled = FALSE], <<>>, "none")
    /\ Stays

\* The board waits for the rival's pokemon: 4 s, and once for each time.
PullRival ==
    /\ On({"duel"}) /\ WonExchange(store) /\ ~store.duel.rival /\ ~ui.pulled
    /\ Render(store, [ui EXCEPT !.pulled = TRUE],
              <<AskDuel("duel:join", store.duel.id)>>, "none")
    /\ Stays

Surrender ==
    /\ On({"duel"})
    /\ Render(store, ui, <<AskMon("duel:surrender", NoMon)>>, "none")
    /\ Stays

\* PostDuelChoice: the provisional ranking.
GoNow ==
    /\ On({"duel"}) /\ Controls(store) = "choice"
    /\ Show("ranking", store, <<>>)
    /\ Stays

\* resetSession drops the socket, and nothing opens another but a reload.
PlayAgain ==
    /\ On({"ranking"})
    /\ store' = InitialState
    /\ ui' = Fresh("lobby")
    /\ sent' = <<>>
    /\ Cut("null")
    /\ UNCHANGED bounds

AcknowledgeAborted ==
    /\ store.aborted
    /\ Show("lobby", RoomAbortedAcknowledged(store), <<>>)
    /\ Stays

Click ==
    \/ EnterRoom \/ GetReady \/ EnterDuel
    \/ Rematch \/ GoBack \/ OpenSwap \/ LeaveSwap
    \/ \E m \in Leads : PickLead(m)
    \/ \E m \in Mon : ConfirmSwap(m)
    \/ Surrender \/ GoNow \/ PlayAgain \/ AcknowledgeAborted

Others ==
    \/ StartDuel \/ OpenBracket \/ OpenFinals \/ CloseBracket \/ Forfeit
    \/ \E d \in DOMAIN duels :
         \/ RivalLead(d) \/ PlayerFalls(d) \/ RivalFalls(d)
         \/ RivalReplaces(d) \/ RivalGivesUp(d) \/ Announce(d)

DuelId == 1..(IF Modes = {"1v1"} THEN MaxRematches ELSE 4)

\* One of the three at a time: a request waits for the pushes before it.
Network == Connect \/ Handle \/ Deliver
Queries == \E id \in DuelId : Answer(id)
Timers  == SwapPulls \/ SwapFails \/ PullRival

Next ==
    \/ Drop \/ Reload \/ Restart
    \/ Network \/ Queries \/ Timers
    \/ Others \/ Click

Spec == Init /\ [][Next]_vars

\* Sockets come back, requests are handled, queries answer, pushes arrive and
\* the timers of the screens run out; nobody has to click or play.
FairSpec == Spec /\ WF_vars(Network) /\ WF_vars(Queries) /\ WF_vars(Timers)

---------------------------------------------------------------------------
(* Safety *)

\* A finished duel is shown with the winner the server wrote for that duel, in
\* whatever order the pushes about it and about the next one arrive.
OutcomeIsServers ==
    HasDuel(store) /\ Over(store) =>
        duels[store.duel.id].over /\ store.duel.winner = duels[store.duel.id].winner

\* Whatever duel the pending pointer named, the player only ever holds one of
\* their own.
DuelIsMine == HasDuel(store) => duels[store.duel.id].mine

---------------------------------------------------------------------------
(* Liveness, under FairSpec *)

\* Who lost the connection in a duel that was then decided learns how it ended,
\* unless they turned to something else first.
ReturnSeesOutcome ==
    (sock = "off" /\ HasDuel(store) /\ duels[store.duel.id].winner # "none")
        ~> (~HasDuel(store) \/ Over(store))

\* A room that died with the server is not waited in: the player is told, or
\* drops it.
DeadRoomIsTold ==
    (status \in {"aborted", "gone"} /\ store.room /\ ui.screen # "lobby")
        ~> (store.aborted \/ ~store.room \/ ui.screen = "lobby")

\* A swap that was confirmed is answered, refused or given up.
SwapIsAnswered == (ui.swap # NoMon) ~> (ui.swap = NoMon)

---------------------------------------------------------------------------
(* What the repository says of the code and the runs refute. *)

\* "The HUMAN lost their active -> a genuine forced switch, no choice."
\* (DuelBoardScreen.tsx:420): a forced swap is of a player who has lost one.
ForcedSwapIsGenuine == ui.screen = "forced" => store.duel.fainted # {}
=============================================================================
