---------------------------- MODULE TeamScreen ----------------------------
(***************************************************************************)
(* The draft as one guest of the room sees it: the team-select screen, the *)
(* team it shows before any answer, its requests on the way to the         *)
(* handlers of TeamDraft and the rejections on the way back.               *)
(*                                                                         *)
(* An accepted pick is never acknowledged, so what the screen shows and    *)
(* what the room holds meet only by the order in which all this happens.   *)
(* The room has no bot; the other humans act through TeamDraft alone.      *)
(***************************************************************************)
EXTENDS TeamDraft, Sequences

CONSTANTS
    Me,        \* the player whose browser this is: a guest
    Rivals,    \* bound on the others who draft and get ready; the rest come and go
    MaxSent,   \* bound on the requests and rejections on their way
    MaxDrops   \* bound on the connections lost

ASSUME ScreenAssumption ==
    /\ Me \in Human \ {Host}
    /\ Rivals \subseteq Human \ {Me}
    /\ Bot = {}
    /\ IsFiniteSet(Pokemon)
    /\ {MaxSent, MaxDrops} \subseteq Nat

VARIABLES
    screen,    \* "lobby", "select" or "wait"
    listed,    \* the mounted lobby lists the room as one to join
    post,      \* the REST join: "none", "asked", "seated" or "refused"
    shown,     \* state.teamSelection, kept in localStorage
    flagged,   \* takenStarterIds of the mounted TeamSelectScreen
    sent,      \* requests not yet handled
    told,      \* starters whose rejection is on its way
    link,      \* the socket: "out" of any room, "joining", "on" or "off"
    drops,     \* connections lost so far
    excused    \* parts shown, or the seat, that need not be what the room holds (history)

room   == <<seats, ready, teams, game, overtaken, task>>
lobby  == <<listed, post>>
client == <<lobby, screen, shown, flagged, sent, told, link, drops, excused>>

Kind == {"starter", "roster"}
Request == [kind : Kind, pick : SUBSET Pokemon, old : BOOLEAN]
NoTeam == [starter |-> None, roster |-> {}]
Others == Human \ {Me}

ScreenTypeOK ==
    /\ TypeOK
    /\ screen \in {"lobby", "select", "wait"}
    /\ listed \in BOOLEAN /\ (listed => screen = "lobby" /\ link = "out")
    /\ post \in {"none", "asked", "seated", "refused"}
    /\ shown \in [starter : Starter \cup {None}, roster : SUBSET (Pokemon \ Starter)]
    /\ Cardinality(shown.roster) <= RosterSize
    /\ flagged \subseteq Starter /\ (screen # "select" => flagged = {})
    /\ sent \in Seq(Request) /\ Len(sent) + Len(told) <= MaxSent
    /\ told \in Seq(Starter)
    /\ link \in {"out", "joining", "on", "off"}
    /\ link = "on" => Me \in seated
    /\ drops \in 0..MaxDrops
    /\ excused \subseteq Kind \cup {"seat"}

Complete(k) ==
    IF k = "starter" THEN shown.starter # None ELSE Cardinality(shown.roster) = RosterSize

\* roomShellReceived leaves the team of an earlier room where it is.
ScreenInit ==
    /\ Init
    /\ screen = "lobby" /\ link = "out" /\ listed = FALSE /\ post = "none"
    /\ shown \in {NoTeam} \cup [starter : Starter, roster : {S \in Roster : S \cap Starter = {}}]
    /\ flagged = {} /\ sent = <<>> /\ told = <<>> /\ drops = 0
    /\ excused = Kind

---------------------------------------------------------------------------
(* Requests *)

InFlight(k) == \/ \E i \in DOMAIN sent : sent[i].kind = k
               \/ k = "starter" /\ told # <<>>
Inserting == \E t \in Task : task[t].who = Me /\ At(t, "insert")
Outstanding(k) == InFlight(k) \/ (k = "roster" /\ Inserting)

Excuse(K) == excused' = excused \cup K

\* What is emitted while the socket is down is sent ahead of the room:join of
\* the next one, to a socket that is in no room yet: its handler fails.
Emit(k, pick) ==
    IF link \in {"on", "joining"}
      THEN /\ Len(sent) + Len(told) < MaxSent
           /\ sent' = Append(sent, [kind |-> k, pick |-> pick, old |-> FALSE])
           /\ excused' = IF Outstanding(k) THEN excused \cup {k} ELSE excused \ {k}
      ELSE UNCHANGED sent /\ Excuse({k})

Quiet == UNCHANGED <<sent, excused>>

---------------------------------------------------------------------------
(* TeamSelectScreen *)

OfferedAll == Starter
Offered == Starter \ flagged

\* toggleStarter: the one picked must be deselected first, which is not sent.
PickStarter(m) ==
    /\ screen = "select" /\ m \in Offered
    /\ \/ /\ shown.starter = None
          /\ shown' = [shown EXCEPT !.starter = m]
          /\ Emit("starter", {m})
       \/ /\ shown.starter = m
          /\ shown' = [shown EXCEPT !.starter = None]
          /\ Quiet
    /\ UNCHANGED <<room, lobby, screen, flagged, told, link, drops>>

ToggledNoMax(m) == IF m \in shown.roster THEN shown.roster \ {m} ELSE shown.roster \cup {m}
Toggled(m) ==
    CASE m \in shown.roster -> shown.roster \ {m}
      [] m \notin shown.roster /\ Cardinality(shown.roster) >= RosterSize -> shown.roster
      [] m \notin shown.roster /\ ~(Cardinality(shown.roster) >= RosterSize) -> shown.roster \cup {m}

\* A click on one more than the roster holds changes nothing and sends it again.
PickRoster(m) ==
    /\ screen = "select" /\ m \in Pokemon \ Starter
    /\ shown' = [shown EXCEPT !.roster = Toggled(m)]
    /\ IF Cardinality(Toggled(m)) = RosterSize THEN Emit("roster", Toggled(m)) ELSE Quiet
    /\ UNCHANGED <<room, lobby, screen, flagged, told, link, drops>>

\* The listener of team:starter_rejected lives as long as the screen is mounted,
\* and takes back whatever starter is shown by now.
FlagOnly(m) == flagged' = flagged \cup {m} /\ UNCHANGED shown
RollBack(m) ==
    /\ flagged' = flagged \cup {m}
    /\ shown' = [shown EXCEPT !.starter = None]

Hear ==
    /\ told # <<>>
    /\ told' = Tail(told)
    /\ \/ screen = "select" /\ RollBack(Head(told)) /\ UNCHANGED excused
       \/ screen # "select" /\ Excuse({"starter"}) /\ UNCHANGED <<flagged, shown>>
    /\ UNCHANGED <<room, lobby, screen, sent, link, drops>>

---------------------------------------------------------------------------
(* The handlers of this player's requests, in whatever order the pool runs them *)

Without(s, i) == SubSeq(s, 1, i - 1) \o SubSeq(s, i + 1, Len(s))
Known(r) == r.old \/ link = "on"

HandleStarter(i) ==
    LET r == sent[i] IN
    /\ r.kind = "starter" /\ Known(r)
    /\ sent' = Without(sent, i)
    /\ \E m \in r.pick :
         \/ SelectStarter(Me, m) /\ UNCHANGED told
         \/ /\ ~Locked(Me, m) /\ ~StarterFree(Me, m)
            /\ told' = IF r.old THEN told ELSE Append(told, m)
            /\ UNCHANGED room
    /\ UNCHANGED <<lobby, screen, shown, flagged, link, drops, excused>>

\* A rejected roster only shows a banner.
HandleRoster(i, t) ==
    LET r == sent[i] IN
    /\ r.kind = "roster" /\ Known(r)
    /\ SelectRoster(t, Me, r.pick)
    /\ sent' = Without(sent, i)
    /\ UNCHANGED <<lobby, screen, shown, flagged, told, link, drops, excused>>

\* A socket that is in no room has no room id to write: the statement fails and
\* nobody is told.
HandlerFails(i) ==
    /\ ~Known(sent[i])
    /\ sent' = Without(sent, i)
    /\ Excuse({sent[i].kind})
    /\ UNCHANGED <<room, lobby, screen, shown, flagged, told, link, drops>>

---------------------------------------------------------------------------
(* LobbyScreen *)

Still == UNCHANGED <<shown, sent, told>>

\* listWaitingRooms: the rooms that wait and have a player connected, as the
\* host is here, with their occupancy.
Listed == {s \in {seated} : Waiting}

LoadRooms ==
    /\ screen = "lobby" /\ link = "out"
    /\ listed' = (\E s \in Listed : Cardinality(s) < 2)
    /\ UNCHANGED <<room, post, screen, flagged, link, drops, excused>> /\ Still

\* A card is as old as the last list, and a code may be typed at any time.  A
\* player whose socket is in the room already would only be refused.
Ask ==
    /\ screen = "lobby" /\ link = "out"
    /\ post = "none" /\ post' = "asked"
    /\ UNCHANGED <<room, listed, screen, flagged, link, drops, excused>> /\ Still
JoinCard   == listed /\ Ask
JoinByCode == Ask

\* POST /api/rooms/:code/join: a second seat of the same player is refused too.
HandlePost ==
    /\ post = "asked"
    /\ \/ Join(Me) /\ post' = "seated"
       \/ (~Free \/ Me \in seated) /\ post' = "refused" /\ UNCHANGED room
    /\ UNCHANGED <<listed, screen, flagged, link, drops, excused>> /\ Still

\* handleJoin: the room becomes the one asked for, room:join is emitted, and the
\* team is drafted.
EnteredSilently == UNCHANGED link
Entered == link' = "joining"

JoinAnswered ==
    /\ post' = "none"
    /\ \/ post = "seated" /\ Entered /\ screen' = "select" /\ listed' = FALSE
       \/ post = "refused" /\ UNCHANGED <<listed, screen, link>>
    /\ UNCHANGED <<room, flagged, drops, excused>> /\ Still

\* fetch rejects, before or after the handler has run.
PostLost ==
    /\ post # "none" /\ post' = "none"
    /\ drops < MaxDrops /\ drops' = drops + 1
    /\ Excuse(IF post = "seated" THEN {"seat"} ELSE {})
    /\ UNCHANGED <<room, listed, screen, flagged, link>> /\ Still

---------------------------------------------------------------------------
(* Other screens *)

Stay == UNCHANGED <<room, post, sent, told, link, drops, excused>>

\* WaitRoomScreen redirects to the lobby when there is no room.
GoWait ==
    /\ screen = "select" /\ \A k \in Kind : Complete(k)
    /\ screen' = IF link = "out" THEN "lobby" ELSE "wait"
    /\ flagged' = {}
    /\ Stay /\ UNCHANGED <<listed, shown>>

ChangeTeam ==
    /\ screen = "wait" /\ screen' = "select"
    /\ Stay /\ UNCHANGED <<listed, shown, flagged>>

\* Neither button sends anything; the seat stays.
LeaveScreen ==
    /\ screen \in {"select", "wait"}
    /\ screen' = "lobby" /\ flagged' = {}
    /\ Stay /\ UNCHANGED <<listed, shown>>

\* The browser's own back button.
ComeBack ==
    /\ screen = "lobby" /\ link # "out"
    /\ screen' \in {"select", "wait"}
    /\ Stay /\ UNCHANGED <<listed, shown, flagged>>

RematchButton ==
    /\ screen = "wait" /\ duel = "over"
    /\ screen' = "select" /\ shown' = NoTeam
    /\ Stay /\ UNCHANGED <<listed, flagged>>

ReadyButton(t) ==
    /\ screen = "wait" /\ link = "on"
    /\ Ready(t, Me)
    /\ UNCHANGED client

---------------------------------------------------------------------------
(* The connection *)

\* What was on its way is lost, or still handled for the socket that is gone; if
\* that socket had not joined the room yet, its requests have failed.
Drop ==
    /\ link \in {"joining", "on"} /\ drops < MaxDrops
    /\ link' = "off" /\ drops' = drops + 1
    /\ \E n \in 0..Len(sent) : \E left \in [1..n -> DOMAIN sent] :
         /\ \A i, j \in 1..n : i < j => left[i] < left[j]
         /\ \A j \in 1..n : Known(sent[left[j]])
         /\ sent' = [j \in 1..n |-> [sent[left[j]] EXCEPT !.old = TRUE]]
    /\ told' = <<>>
    /\ Excuse({k \in Kind : InFlight(k)})
    /\ flagged' \in {flagged, {}}          \* {} when the page was reloaded
    /\ UNCHANGED <<room, lobby, screen, shown>>

Reconnect == link = "off" /\ link' = "joining"
             /\ UNCHANGED <<room, lobby, screen, shown, flagged, sent, told, drops, excused>>

\* The absence window of a waiting room runs out.
Expire ==
    /\ link = "off"
    /\ Unseat(Me)
    /\ Excuse(Kind)
    /\ UNCHANGED <<lobby, screen, shown, flagged, sent, told, link, drops>>

\* room:join resumes the seat or takes a free one.
Joined ==
    /\ link = "joining" /\ link' = "on"
    /\ (Me \in seated /\ UNCHANGED room) \/ Join(Me)
    /\ UNCHANGED <<lobby, screen, shown, flagged, sent, told, drops, excused>>

JoinRejected ==
    /\ link = "joining" /\ link' = "out"
    /\ Me \notin seated /\ ~Free
    /\ screen' = IF screen = "wait" THEN "lobby" ELSE screen
    /\ UNCHANGED <<room, lobby, shown, flagged, sent, told, drops, excused>>

---------------------------------------------------------------------------
(* The rest of the room *)

RoomStep ==
    /\ \/ \E p \in Rivals : \/ \E m \in Starter : SelectStarter(p, m)
                             \/ \E t \in Task : Ready(t, p)
       \/ \E p \in Others : Join(p) \/ Unseat(p)
       \/ \E t \in Task : InsertRoster(t) \/ BootRead(t) \/ BootDuel(t) \/ DuelEnds(t)
    /\ UNCHANGED client

\* The late wipe of the duel before takes what was drafted for the next one.
WipeTeams ==
    /\ \E t \in Task : Advance(t)
    /\ Excuse(Kind)
    /\ UNCHANGED <<lobby, screen, shown, flagged, sent, told, link, drops>>

ScreenNext ==
    \/ \E m \in Pokemon : PickStarter(m) \/ PickRoster(m)
    \/ Hear
    \/ \E i \in DOMAIN sent : \/ HandleStarter(i) \/ HandlerFails(i)
                              \/ \E t \in Task : HandleRoster(i, t)
    \/ LoadRooms \/ JoinCard \/ JoinByCode \/ HandlePost \/ JoinAnswered \/ PostLost
    \/ GoWait \/ ChangeTeam \/ LeaveScreen \/ ComeBack
    \/ RematchButton \/ \E t \in Task : ReadyButton(t)
    \/ Drop \/ Reconnect \/ Expire \/ Joined \/ JoinRejected
    \/ RoomStep \/ WipeTeams

ScreenSpec == ScreenInit /\ [][ScreenNext]_<<vars, client>>

---------------------------------------------------------------------------
(* Safety *)

\* The picker is never deadlocked on a starter that is shown as picked and is
\* disabled as taken, in whatever order picks and rejections cross
\* (TeamSelectScreen's roll-back of the optimistic pick).
PickerNeverStuck ==
    screen = "select" /\ shown.starter # None => shown.starter \notin flagged

\* Though no pick is acknowledged, a part of the team that is shown complete and
\* is settled is the part the room holds, and the next duel plays, but for five
\* reasons: it was drafted for another room, it crossed another request of its
\* kind, its rejection came while another screen was mounted, the rows were wiped
\* after it was sent, or a connection was lost under it.
ShownTeamIsHeld ==
    \A k \in Kind :
        k \notin excused /\ ~Outstanding(k) /\ Complete(k) =>
            IF k = "starter" THEN starter[Me] = shown.starter ELSE roster[Me] = shown.roster

\* A seat taken over REST is one the player's socket goes on to enter, and one it
\* is refused is one the room no longer has (handleJoin, room:join_rejected):
\* only a REST answer that is lost leaves a seat without a socket, and that seat
\* has no window to run out.
SeatIsEntered == Me \in seated /\ link = "out" => post = "seated" \/ "seat" \in excused
===========================================================================
