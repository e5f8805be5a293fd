------------------------- MODULE TeamScreen_proofs -------------------------
(***************************************************************************)
(* The screens of a guest, for every room, catalogue and bound.  That the  *)
(* picker stays usable and that a seat is entered need nothing of what the *)
(* room holds; that the team shown is the team held rests on the invariant *)
(* of TeamDraft and on what is on its way between the two.                 *)
(***************************************************************************)
EXTENDS TeamScreen, TeamDraft_proofs, SequenceTheorems

\* A screen that is not mounted has no flags to keep, and the team shown is a
\* record whatever it holds.
PickerInv ==
    /\ shown \in [starter : Starter \cup {None}, roster : SUBSET Pokemon]
    /\ screen # "select" => flagged = {}
    /\ PickerNeverStuck

---------------------------------------------------------------------------
LEMMA PickerInvInit == ScreenInit => PickerInv
BY DEF ScreenInit, PickerInv, PickerNeverStuck, NoTeam, Roster

\* Setting one part of the team leaves the other as it was.
LEMMA ShownParts ==
    ASSUME PickerInv
    PROVE  /\ \A m \in Starter \cup {None} :
                LET to == [shown EXCEPT !.starter = m]
                IN  /\ to \in [starter : Starter \cup {None}, roster : SUBSET Pokemon]
                    /\ to.starter = m
           /\ \A S \in SUBSET Pokemon :
                LET to == [shown EXCEPT !.roster = S]
                IN  /\ to \in [starter : Starter \cup {None}, roster : SUBSET Pokemon]
                    /\ to.starter = shown.starter
BY DEF PickerInv

LEMMA PickerInvStep == PickerInv /\ [ScreenNext]_<<vars, client>> => PickerInv'
<1> SUFFICES ASSUME PickerInv, [ScreenNext]_<<vars, client>> PROVE PickerInv'
  OBVIOUS
<1>1. ASSUME NEW m \in Pokemon, PickStarter(m)
      PROVE  PickerInv'
  <2>1. m \in Starter \ flagged /\ UNCHANGED <<screen, flagged>> /\ screen = "select"
    BY <1>1 DEF PickStarter, Offered
  <2>2. \E k \in {m, None} : shown' = [shown EXCEPT !.starter = k]
    BY <1>1 DEF PickStarter
  <2>3. PICK k \in {m, None} : shown' = [shown EXCEPT !.starter = k]
    BY <2>2
  <2>4. /\ shown' \in [starter : Starter \cup {None}, roster : SUBSET Pokemon]
        /\ shown'.starter = k
    BY <2>1, <2>3, ShownParts
  <2> QED  BY <2>1, <2>4 DEF PickerInv, PickerNeverStuck
<1>2. ASSUME NEW m \in Pokemon, PickRoster(m)
      PROVE  PickerInv'
  <2>1. UNCHANGED <<screen, flagged>> /\ shown' = [shown EXCEPT !.roster = Toggled(m)]
    BY <1>2 DEF PickRoster
  <2>2. Toggled(m) \in SUBSET Pokemon
    BY DEF Toggled, PickerInv
  <2> HIDE DEF Toggled
  <2>3. /\ shown' \in [starter : Starter \cup {None}, roster : SUBSET Pokemon]
        /\ shown'.starter = shown.starter
    BY <2>1, <2>2, ShownParts
  <2> QED  BY <2>1, <2>3 DEF PickerInv, PickerNeverStuck
<1>3. CASE Hear
  <2>1. CASE screen = "select" /\ RollBack(Head(told))
    <3>1. shown' = [shown EXCEPT !.starter = None] /\ UNCHANGED screen
      BY <1>3, <2>1 DEF Hear, RollBack
    <3>2. /\ shown' \in [starter : Starter \cup {None}, roster : SUBSET Pokemon]
          /\ shown'.starter = None
      BY <3>1, ShownParts
    <3> QED  BY <2>1, <3>1, <3>2 DEF PickerInv, PickerNeverStuck
  <2>2. CASE screen # "select" /\ UNCHANGED <<flagged, shown>>
    BY <1>3, <2>2 DEF Hear, PickerInv, PickerNeverStuck
  <2> QED  BY <1>3, <2>1, <2>2 DEF Hear
<1>4. ASSUME UNCHANGED <<screen, shown, flagged>>
      PROVE  PickerInv'
  BY <1>4 DEF PickerInv, PickerNeverStuck
<1>5. ASSUME NEW i \in DOMAIN sent,
             \/ HandleStarter(i) \/ HandlerFails(i)
             \/ \E t \in Task : HandleRoster(i, t)
      PROVE  PickerInv'
  BY <1>4, <1>5 DEF HandleStarter, HandleRoster, HandlerFails
<1>6. CASE LoadRooms \/ JoinCard \/ JoinByCode \/ HandlePost \/ PostLost
  BY <1>4, <1>6 DEF LoadRooms, JoinCard, JoinByCode, Ask, HandlePost, PostLost, Still
<1>7. CASE JoinAnswered \/ ChangeTeam \/ ComeBack
  BY <1>7 DEF JoinAnswered, ChangeTeam, ComeBack, Stay, Still, PickerInv, PickerNeverStuck
<1>8. CASE GoWait \/ LeaveScreen \/ JoinRejected
  BY <1>8 DEF GoWait, LeaveScreen, JoinRejected, Stay, PickerInv, PickerNeverStuck
<1>9. CASE RematchButton
  <2>1. shown' = NoTeam
    BY <1>9 DEF RematchButton
  <2> QED  BY <1>9, <2>1 DEF RematchButton, Stay, NoTeam, PickerInv, PickerNeverStuck
<1>10. CASE Drop
  BY <1>10 DEF Drop, lobby, PickerInv, PickerNeverStuck
<1>11. ASSUME NEW t \in Task, ReadyButton(t)
       PROVE  PickerInv'
  BY <1>4, <1>11 DEF ReadyButton, client
<1>12. CASE Reconnect \/ Expire \/ Joined \/ RoomStep \/ WipeTeams
  BY <1>4, <1>12 DEF Reconnect, Expire, Joined, RoomStep, WipeTeams, client
<1>13. CASE UNCHANGED <<vars, client>>
  BY <1>4, <1>13 DEF client
<1> QED  BY <1>1, <1>2, <1>3, <1>5, <1>6, <1>7, <1>8, <1>9, <1>10, <1>11, <1>12,
            <1>13 DEF ScreenNext

\* The optimistic pick is rolled back together with the flag of its starter, so
\* the picker never shows a starter it disables, whatever picks and rejections
\* cross (TeamSelectScreen).
THEOREM PickerStaysUsable == ScreenSpec => []PickerNeverStuck
<1>1. PickerInv => PickerNeverStuck
  BY DEF PickerInv
<1> QED  BY <1>1, PickerInvInit, PickerInvStep, PTL DEF ScreenSpec

---------------------------------------------------------------------------
LEMMA SeatInit == ScreenInit => SeatIsEntered
BY ScreenAssumption DEF ScreenInit, Init, SeatIsEntered

\* Emitting a pick excuses, or stops excusing, a part of the team only.
LEMMA EmitKeepsSeat ==
    ASSUME NEW k \in Kind, NEW pick, Emit(k, pick) \/ Quiet
    PROVE  "seat" \in excused => "seat" \in excused'
BY DEF Emit, Quiet, Excuse, Kind

\* What the rest of the room does, it does as other players.
LEMMA StepOfOthers ==
    RoomStep =>
        \/ \E p \in Others : \/ \E m \in Starter : SelectStarter(p, m)
                             \/ Join(p) \/ Unseat(p) \/ \E t \in Task : Ready(t, p)
        \/ \E t \in Task : InsertRoster(t) \/ BootRead(t) \/ BootDuel(t) \/ DuelEnds(t)
<1>1. Rivals \subseteq Others
  BY ScreenAssumption DEF Others
<1> QED  BY <1>1 DEF RoomStep

\* No step of another player takes a seat for this one.
LEMMA OthersKeepSeat ==
    ASSUME RoomStep \/ WipeTeams
    PROVE  /\ Me \in seated' => Me \in seated
           /\ UNCHANGED <<link, post>>
           /\ "seat" \in excused => "seat" \in excused'
<1>1. CASE RoomStep
  <2>1. UNCHANGED client
    BY <1>1 DEF RoomStep
  <2>2. ASSUME NEW p \in Others,
               \/ \E m \in Starter : SelectStarter(p, m)
               \/ Join(p)
               \/ Unseat(p)
               \/ \E t \in Task : Ready(t, p)
        PROVE  Me \in seated' => Me \in seated
    BY <2>2 DEF Others, SelectStarter, Join, Unseat, Ready, seats
  <2>3. ASSUME NEW t \in Task,
               InsertRoster(t) \/ BootRead(t) \/ BootDuel(t) \/ DuelEnds(t)
        PROVE  Me \in seated' => Me \in seated
    BY <2>3 DEF InsertRoster, BootRead, BootDuel, DuelEnds, seats
  <2> QED  BY <1>1, <2>1, <2>2, <2>3, StepOfOthers DEF client, lobby
<1>2. CASE WipeTeams
  BY <1>2 DEF WipeTeams, Advance, seats, lobby, Excuse
<1> QED  BY <1>1, <1>2

LEMMA SeatStep == SeatIsEntered /\ [ScreenNext]_<<vars, client>> => SeatIsEntered'
<1> SUFFICES ASSUME SeatIsEntered, [ScreenNext]_<<vars, client>>
             PROVE  SeatIsEntered'
  OBVIOUS
<1> DEFINE Kept == /\ Me \in seated' => Me \in seated
                   /\ UNCHANGED <<link, post>>
                   /\ "seat" \in excused => "seat" \in excused'
<1>1. ASSUME Kept
      PROVE  SeatIsEntered'
  BY <1>1 DEF SeatIsEntered
<1>2. ASSUME NEW m \in Pokemon, PickStarter(m) \/ PickRoster(m)
      PROVE  Kept
  <2>1. UNCHANGED <<room, lobby, link>>
    BY <1>2 DEF PickStarter, PickRoster
  <2>2. \E k \in Kind : \E pick : Emit(k, pick) \/ Quiet
    BY <1>2 DEF PickStarter, PickRoster, Kind
  <2>3. "seat" \in excused => "seat" \in excused'
    BY <2>2, EmitKeepsSeat
  <2> QED  BY <2>1, <2>3 DEF room, seats, lobby
<1>3. CASE Hear
  BY <1>1, <1>3 DEF Hear, Excuse, room, seats, lobby
<1>4. ASSUME NEW i \in DOMAIN sent,
             \/ HandleStarter(i) \/ HandlerFails(i)
             \/ \E t \in Task : HandleRoster(i, t)
      PROVE  Kept
  BY <1>4 DEF HandleStarter, HandleRoster, HandlerFails, SelectStarter, SelectRoster,
              DeleteRoster, Excuse, room, seats, lobby
<1>5. CASE LoadRooms
  BY <1>1, <1>5 DEF LoadRooms, Still, room, seats
<1>6. CASE JoinCard \/ JoinByCode
  BY <1>6 DEF JoinCard, JoinByCode, Ask, Still, room, seats, SeatIsEntered
<1>7. CASE HandlePost
  BY <1>7 DEF HandlePost, Still, room, seats, SeatIsEntered
<1>8. CASE JoinAnswered
  BY <1>8 DEF JoinAnswered, Entered, Still, room, seats, SeatIsEntered
<1>9. CASE PostLost
  BY <1>9 DEF PostLost, Excuse, Still, room, seats, SeatIsEntered
<1>10. CASE GoWait \/ ChangeTeam \/ LeaveScreen \/ ComeBack \/ RematchButton
  BY <1>1, <1>10 DEF GoWait, ChangeTeam, LeaveScreen, ComeBack, RematchButton, Stay, room, seats
<1>11. ASSUME NEW t \in Task, ReadyButton(t)
       PROVE  Kept
  BY <1>11 DEF ReadyButton, Ready, seats, client, lobby
<1>12. CASE Drop \/ Reconnect \/ Joined
  BY <1>12 DEF Drop, Reconnect, Joined, SeatIsEntered
<1>13. CASE Expire
  BY <1>13 DEF Expire, Unseat, SeatIsEntered
<1>14. CASE JoinRejected
  BY <1>14 DEF JoinRejected, room, seats, SeatIsEntered
<1>15. CASE RoomStep \/ WipeTeams
  BY <1>1, <1>15, OthersKeepSeat
<1>16. CASE UNCHANGED <<vars, client>>
  BY <1>1, <1>16 DEF vars, seats, client, lobby
<1> HIDE DEF Kept
<1> QED  BY <1>1, <1>2, <1>3, <1>4, <1>5, <1>6, <1>7, <1>8, <1>9, <1>10, <1>11, <1>12,
            <1>13, <1>14, <1>15, <1>16 DEF ScreenNext

\* A player seated over REST is one whose socket enters the room, is still
\* waiting for that answer, or lost it: no crossing of the POST, the list of
\* rooms, an expiring window and room:join leaves another seat unentered.
THEOREM SeatsAreEntered == ScreenSpec => []SeatIsEntered
BY SeatInit, SeatStep, PTL DEF ScreenSpec

---------------------------------------------------------------------------
(* What the team shown, the wire and the room hold together *)

\* What the screen sends: one starter, or a whole roster without starters.
RequestOK(r) ==
    /\ r \in Request
    /\ r.kind = "starter" => \E m \in Starter : r.pick = {m}
    /\ r.kind = "roster" => r.pick \in Roster /\ r.pick \cap Starter = {}

\* ScreenTypeOK, in parts.
LobbyOK ==
    /\ screen \in {"lobby", "select", "wait"}
    /\ listed \in BOOLEAN /\ (listed => screen = "lobby" /\ link = "out")
    /\ post \in {"none", "asked", "seated", "refused"}
    /\ link \in {"out", "joining", "on", "off"}
    /\ link = "on" => Me \in seated
    /\ drops \in 0..MaxDrops
    /\ excused \subseteq Kind \cup {"seat"}
ShownOK ==
    /\ shown \in [starter : Starter \cup {None}, roster : SUBSET (Pokemon \ Starter)]
    /\ Cardinality(shown.roster) <= RosterSize
    /\ flagged \subseteq Starter /\ (screen # "select" => flagged = {})
WireOK ==
    /\ sent \in Seq(Request) /\ told \in Seq(Starter) /\ Len(sent) + Len(told) <= MaxSent
    /\ \A i \in 1..Len(sent) : RequestOK(sent[i])
ScreenInv == IInv /\ LobbyOK /\ ShownOK /\ WireOK

\* The requests of a kind, and this player's rosters being replaced.
Of(k)   == {i \in 1..Len(sent) : sent[i].kind = k}
Inserts == {t \in Task : task[t].who = Me /\ At(t, "insert")}
One(S)  == \A x, y \in S : x = y

\* Until it is excused, a part is out once at most, in one stage of its way: as a
\* request, as a transaction that nothing has overtaken, or as a rejection that
\* will take the pick back.  What is out is what is shown, or the pick was
\* deselected since.
StarterHeld ==
    "starter" \notin excused =>
        /\ One(Of("starter")) /\ (told # <<>> => Of("starter") = {})
        /\ shown.starter # None =>
             /\ \A i \in Of("starter") : sent[i].pick = {shown.starter}
             /\ Of("starter") = {} /\ told = <<>> => starter[Me] = shown.starter

RosterHeld ==
    "roster" \notin excused =>
        /\ One(Of("roster")) /\ One(Inserts) /\ (Inserts = {} \/ Of("roster") = {})
        /\ \A t \in Inserts : roster[Me] \subseteq task[t].gone
        /\ Complete("roster") =>
             /\ \A i \in Of("roster") : sent[i].pick = shown.roster
             /\ \A t \in Inserts : task[t].pick = shown.roster
             /\ Of("roster") = {} /\ Inserts = {} => roster[Me] = shown.roster

\* A roster of this player never repeats a starter, so it fits unless overtaken.
MineOK ==
    /\ starter[Me] \in Starter \cup {None}
    /\ \A t \in Inserts : task[t].pick \cap Starter = {}

\* What is still handled for a socket that is gone was excused when it went.
OldExcused == \A i \in 1..Len(sent) : sent[i].old => sent[i].kind \in excused

TeamHeld == MineOK /\ OldExcused /\ StarterHeld /\ RosterHeld
HeldInv == ScreenInv /\ TeamHeld

LEMMA Removed ==
    ASSUME NEW S, NEW s \in Seq(S), NEW i \in 1..Len(s)
    PROVE  /\ Without(s, i) \in Seq(S)
           /\ Len(Without(s, i)) = Len(s) - 1
           /\ \A j \in 1..Len(s) - 1 : Without(s, i)[j] = s[IF j < i THEN j ELSE j + 1]
<1> DEFINE a == SubSeq(s, 1, i - 1)
           b == SubSeq(s, i + 1, Len(s))
<1>1. Len(s) \in Nat /\ i \in Nat /\ 1 <= i /\ i <= Len(s)
  OBVIOUS
<1>2. /\ a \in Seq(S) /\ Len(a) = i - 1
      /\ \A j \in 1..i - 1 : a[j] = s[j]
  BY <1>1
<1>3. /\ b \in Seq(S) /\ Len(b) = Len(s) - i
      /\ \A j \in 1..Len(s) - i : b[j] = s[i + j]
  BY <1>1
<1>4. Without(s, i) = a \o b
  BY DEF Without
<1> HIDE DEF a, b
<1>5. /\ a \o b \in Seq(S) /\ Len(a \o b) = Len(s) - 1
      /\ \A j \in 1..Len(a) + Len(b) : (a \o b)[j] = IF j <= Len(a) THEN a[j] ELSE b[j - Len(a)]
  <2>1. a \in Seq(S) /\ b \in Seq(S)
    BY <1>2, <1>3
  <2>2. /\ a \o b \in Seq(S) /\ Len(a \o b) = Len(a) + Len(b)
        /\ \A j \in 1..Len(a) + Len(b) : (a \o b)[j] = IF j <= Len(a) THEN a[j] ELSE b[j - Len(a)]
    BY <2>1, ConcatProperties
  <2> QED  BY <1>1, <1>2, <1>3, <2>2
<1>6. ASSUME NEW j \in 1..Len(s) - 1
      PROVE  (a \o b)[j] = s[IF j < i THEN j ELSE j + 1]
  <2>1. j \in 1..Len(a) + Len(b)
    BY <1>1, <1>2, <1>3
  <2>2. CASE j < i
    <3>1. j \in 1..i - 1 /\ j <= Len(a)
      BY <1>1, <1>2, <2>2
    <3> QED  BY <1>2, <1>5, <2>1, <2>2, <3>1
  <2>3. CASE ~(j < i)
    <3>1. j - Len(a) \in 1..Len(s) - i /\ ~(j <= Len(a)) /\ i + (j - Len(a)) = j + 1
      BY <1>1, <1>2, <2>3
    <3> QED  BY <1>3, <1>5, <2>1, <2>3, <3>1
  <2> QED  BY <2>2, <2>3
<1> QED  BY <1>4, <1>5, <1>6

---------------------------------------------------------------------------
(* The requests on their way *)

LEMMA Dequeued ==
    ASSUME WireOK, NEW i \in DOMAIN sent, sent' = Without(sent, i)
    PROVE  /\ sent' \in Seq(Request) /\ Len(sent') = Len(sent) - 1 /\ Len(sent) \in Nat
           /\ \A j \in 1..Len(sent') : \E h \in 1..Len(sent) \ {i} : sent'[j] = sent[h]
           /\ \A h \in 1..Len(sent) \ {i} : \E j \in 1..Len(sent') : sent'[j] = sent[h]
           /\ \A k : One(Of(k)) => One(Of(k)') /\ (i \in Of(k) => Of(k)' = {})
<1> DEFINE at(j) == IF j < i THEN j ELSE j + 1
<1>0. sent \in Seq(Request) /\ i \in 1..Len(sent) /\ Len(sent) \in Nat
  BY DEF WireOK
<1>1. /\ sent' \in Seq(Request) /\ Len(sent') = Len(sent) - 1
      /\ \A j \in 1..Len(sent) - 1 : sent'[j] = sent[at(j)]
  BY <1>0, Removed
<1>2. /\ \A j \in 1..Len(sent') : sent'[j] = sent[at(j)] /\ at(j) \in 1..Len(sent) \ {i}
      /\ \A j, h \in 1..Len(sent') : at(j) = at(h) => j = h
  BY <1>0, <1>1
<1>4. ASSUME NEW h \in 1..Len(sent) \ {i}
      PROVE  \E j \in 1..Len(sent') : sent'[j] = sent[h]
  <2> DEFINE j == IF h < i THEN h ELSE h - 1
  <2>1. j \in 1..Len(sent') /\ at(j) = h
    BY <1>0, <1>1
  <2> QED  BY <1>2, <2>1
<1> HIDE DEF at
<1>3. ASSUME NEW k, One(Of(k))
      PROVE  One(Of(k)') /\ (i \in Of(k) => Of(k)' = {})
  <2>1. \A j \in Of(k)' : at(j) \in Of(k) \ {i} /\ j \in 1..Len(sent')
    BY <1>2 DEF Of
  <2> QED  BY <1>2, <1>3, <2>1 DEF One
<1> QED  BY <1>0, <1>1, <1>2, <1>3, <1>4

LEMMA Enqueued ==
    ASSUME WireOK, NEW r, RequestOK(r), sent' = Append(sent, r)
    PROVE  /\ sent' \in Seq(Request) /\ Len(sent') = Len(sent) + 1 /\ Len(sent) \in Nat
           /\ sent'[Len(sent) + 1] = r /\ \A j \in 1..Len(sent) : sent'[j] = sent[j]
           /\ \A j \in 1..Len(sent') : RequestOK(sent'[j])
<1>1. sent \in Seq(Request) /\ r \in Request
  BY DEF WireOK, RequestOK
<1>2. /\ sent' \in Seq(Request) /\ Len(sent') = Len(sent) + 1 /\ Len(sent) \in Nat
      /\ sent'[Len(sent) + 1] = r /\ \A j \in 1..Len(sent) : sent'[j] = sent[j]
  BY <1>1
<1>3. ASSUME NEW j \in 1..Len(sent')
      PROVE  RequestOK(sent'[j])
  <2>1. j = Len(sent) + 1 \/ j \in 1..Len(sent)
    BY <1>2, <1>3
  <2> QED  BY <1>2, <2>1 DEF WireOK
<1> QED  BY <1>2, <1>3

\* What a lost connection leaves of them is of the same kinds and marked.
LEMMA Lost ==
    ASSUME WireOK, Drop
    PROVE  /\ sent' \in Seq(Request) /\ Len(sent') <= Len(sent) /\ Len(sent) \in Nat
           /\ \A j \in 1..Len(sent') : /\ RequestOK(sent'[j])
                                       /\ \E i \in 1..Len(sent) : sent'[j].kind = sent[i].kind
<1>0. sent \in Seq(Request) /\ Len(sent) \in Nat /\ DOMAIN sent = 1..Len(sent)
  BY DEF WireOK
<1>n. PICK n \in 0..Len(sent) : \E left \in [1..n -> 1..Len(sent)] :
        sent' = [j \in 1..n |-> [sent[left[j]] EXCEPT !.old = TRUE]]
  BY <1>0 DEF Drop
<1>1. PICK left \in [1..n -> 1..Len(sent)] :
        sent' = [j \in 1..n |-> [sent[left[j]] EXCEPT !.old = TRUE]]
  BY <1>n
<1>2. ASSUME NEW j \in 1..n
      PROVE  RequestOK(sent'[j]) /\ sent'[j] \in Request /\ sent'[j].kind = sent[left[j]].kind
  <2>1. RequestOK(sent[left[j]]) /\ left[j] \in 1..Len(sent)
    BY DEF WireOK
  <2>2. sent'[j] = [sent[left[j]] EXCEPT !.old = TRUE]
    BY <1>1
  <2>3. ASSUME NEW r, RequestOK(r)
        PROVE  LET x == [r EXCEPT !.old = TRUE]
               IN  RequestOK(x) /\ x \in Request /\ x.kind = r.kind
    BY <2>3 DEF RequestOK, Request
  <2> QED  BY <2>1, <2>2, <2>3
<1>3. sent' \in Seq(Request) /\ Len(sent') = n
  <2>1. sent' \in [1..n -> Request]
    BY <1>1, <1>2
  <2>2. \A f \in [1..n -> Request] : f \in Seq(Request) /\ Len(f) = n
    OBVIOUS
  <2> QED  BY <2>1, <2>2
<1> QED  BY <1>0, <1>2, <1>3

---------------------------------------------------------------------------
(* The room, whoever acts in it *)

LEMMA MeIsHuman == Me \in Human /\ Me # Host /\ Bot = {} /\ Me \in Player
BY ScreenAssumption DEF Player

LEMMA RoomKept ==
    ASSUME IInv, UNCHANGED room
    PROVE  IInv'
BY NextKeeps DEF room, vars

\* This player's own requests to the room.
LEMMA MyStep ==
    ASSUME IInv,
           \/ \E m \in Starter : SelectStarter(Me, m)
           \/ \E t \in Task, pick \in Roster : SelectRoster(t, Me, pick)
           \/ Join(Me) \/ Unseat(Me) \/ \E t \in Task : Ready(t, Me)
    PROVE  IInv'
<1>1. Me \in Human /\ Me \in Player /\ Starter \subseteq Pokemon
  BY MeIsHuman, DraftAssumption
<1> QED  BY <1>1, RequestStep

LEMMA TheirStep ==
    ASSUME IInv, RoomStep \/ WipeTeams
    PROVE  IInv'
<1>1. Others \subseteq Human /\ Others \subseteq Player /\ Starter \subseteq Pokemon
  BY DraftAssumption DEF Others, Player
<1>2. CASE WipeTeams
  BY <1>2, TaskStep DEF WipeTeams
<1>3. CASE RoomStep
  BY <1>1, <1>3, StepOfOthers, RequestStep, TaskStep
<1> QED  BY <1>2, <1>3

\* What other players' steps leave of this player's seat and rows.
RowsKept ==
    /\ starter'[Me] = starter[Me] /\ roster'[Me] = roster[Me]
    /\ Inserts' = Inserts /\ \A t \in Inserts : task'[t] = task[t]
MineKept == RowsKept /\ (Me \in seated' <=> Me \in seated)

LEMMA TasksKept ==
    ASSUME IInv, NEW t \in Task, ~At(t, "insert"),
           End(t) \/ \E pc \in {"boot_read", "boot_duel", "advance"} : Goto(t, pc)
    PROVE  Inserts' = Inserts /\ \A u \in Inserts : task'[u] = task[u]
<1>0. task \in [Task -> TaskState] /\ task[t] \in TaskState
  BY DEF IInv, TypeOK
<1>1. /\ \A u \in Task \ {t} : task'[u] = task[u]
      /\ task'[t].pc # "insert"
  <2>1. CASE End(t)
    <3>1. Idle.pc = "idle"
      BY DEF Idle
    <3> QED  BY <1>0, <2>1, <3>1 DEF End, Become
  <2>2. ASSUME NEW pc \in {"boot_read", "boot_duel", "advance"}, Goto(t, pc)
        PROVE  /\ \A u \in Task \ {t} : task'[u] = task[u]
               /\ task'[t].pc # "insert"
    <3>1. [task[t] EXCEPT !.pc = pc].pc = pc
      BY <1>0 DEF TaskState
    <3> QED  BY <1>0, <2>2, <3>1 DEF Goto, Become
  <2> QED  BY <2>1, <2>2
<1> QED  BY <1>1 DEF Inserts, At

LEMMA OthersLeaveMine ==
    ASSUME IInv, RoomStep, \A t \in Inserts : ~InsertRoster(t)
    PROVE  MineKept
<1>0. /\ SeatsOK /\ TasksOK /\ RowsOK /\ Me \in Player /\ Me \notin Others /\ Others \subseteq Player
  BY IInvParts, MeIsHuman DEF Others, Player
<1>1. ASSUME NEW p \in Others, NEW m \in Starter, SelectStarter(p, m)
      PROVE  MineKept
  BY <1>0, <1>1 DEF SelectStarter, MineKept, RowsKept, RowsOK, seats, Inserts, At
<1>2. ASSUME NEW p \in Others, Join(p)
      PROVE  MineKept
  BY <1>0, <1>2 DEF Join, MineKept, RowsKept, teams, Inserts, At
<1>3. ASSUME NEW p \in Others, Unseat(p)
      PROVE  MineKept
  BY <1>0, <1>3 DEF Unseat, Wiped, MineKept, RowsKept, Inserts, At
<1>4. ASSUME NEW p \in Others, NEW t \in Task, Ready(t, p)
      PROVE  MineKept
  <2>1. Inserts' = Inserts /\ \A u \in Inserts : task'[u] = task[u]
    BY <1>4, TasksKept DEF Ready, At
  <2> QED  BY <1>4, <2>1 DEF Ready, MineKept, RowsKept, seats, teams
<1>5. ASSUME NEW t \in Task, InsertRoster(t)
      PROVE  MineKept
  <2> DEFINE p == task[t].who
  <2>1. At(t, "insert") /\ p # Me /\ p \notin Bot
    BY <1>5, MeIsHuman DEF InsertRoster, Inserts
  <2>2. \A u \in Task \ {t} : task'[u] = task[u]
    BY <1>0, <1>5, <2>1 DEF InsertRoster, TasksOK, End, Become
  <2>3. task'[t] = Idle
    BY <1>0, <1>5, <2>1 DEF InsertRoster, TasksOK, End, Become
  <2>4. Idle.pc = "idle"
    BY DEF Idle
  <2>5. Inserts' = Inserts /\ \A u \in Inserts : task'[u] = task[u]
    BY <2>1, <2>2, <2>3, <2>4 DEF Inserts, At
  <2>6. roster'[Me] = roster[Me]
    BY <1>0, <1>5, <2>1 DEF InsertRoster, RowsOK
  <2> QED  BY <1>5, <2>5, <2>6 DEF InsertRoster, MineKept, RowsKept, seats
<1>6. ASSUME NEW t \in Task, BootRead(t) \/ BootDuel(t) \/ DuelEnds(t)
      PROVE  MineKept
  <2>1. ~At(t, "insert")
    BY <1>6 DEF BootRead, BootDuel, DuelEnds, At
  <2>2. End(t) \/ \E pc \in {"boot_read", "boot_duel", "advance"} : Goto(t, pc)
    BY <1>6 DEF BootRead, BootDuel, DuelEnds
  <2>3. Inserts' = Inserts /\ \A u \in Inserts : task'[u] = task[u]
    BY <2>1, <2>2, TasksKept
  <2> QED  BY <1>6, <2>3 DEF BootRead, BootDuel, DuelEnds, MineKept, RowsKept, seats, teams
<1> QED  BY <1>1, <1>2, <1>3, <1>4, <1>5, <1>6, StepOfOthers

---------------------------------------------------------------------------
(* Types *)

LEMMA LobbyKept ==
    ASSUME LobbyOK, UNCHANGED <<screen, listed, post, link, drops>>, Me \in seated => Me \in seated',
           excused' \subseteq Kind \cup {"seat"}
    PROVE  LobbyOK'
BY DEF LobbyOK

LEMMA EmitOK ==
    ASSUME LobbyOK, NEW k \in Kind, NEW pick, Emit(k, pick) \/ Quiet
    PROVE  excused' \subseteq Kind \cup {"seat"}
BY DEF LobbyOK, Emit, Quiet, Excuse

LEMMA EmitWire ==
    ASSUME WireOK, UNCHANGED told, NEW k \in Kind, NEW pick \in SUBSET Pokemon, Emit(k, pick) \/ Quiet,
           k = "starter" => \E m \in Starter : pick = {m},
           k = "roster" => pick \in Roster /\ pick \cap Starter = {}
    PROVE  WireOK'
<1>1. CASE UNCHANGED sent
  BY <1>1 DEF WireOK
<1>2. CASE Emit(k, pick) /\ link \in {"on", "joining"}
  <2> DEFINE r == [kind |-> k, pick |-> pick, old |-> FALSE]
  <2>1. r \in Request /\ r.kind = k /\ r.pick = pick
    BY DEF Request
  <2>2. Len(sent) + Len(told) < MaxSent /\ sent' = Append(sent, r)
    BY <1>2 DEF Emit
  <2> HIDE DEF r
  <2>3. RequestOK(r)
    BY <2>1 DEF RequestOK
  <2>4. /\ sent' \in Seq(Request) /\ Len(sent') = Len(sent) + 1 /\ Len(sent) \in Nat
        /\ \A j \in 1..Len(sent') : RequestOK(sent'[j])
    BY <2>2, <2>3, Enqueued
  <2>5. Len(told) \in Nat /\ MaxSent \in Nat
    BY ScreenAssumption DEF WireOK
  <2> QED  BY <2>2, <2>4, <2>5 DEF WireOK
<1> QED  BY <1>1, <1>2 DEF Emit, Quiet

LEMMA DequeuedWire ==
    ASSUME WireOK, NEW i \in DOMAIN sent, sent' = Without(sent, i),
           \/ UNCHANGED told
           \/ \E m \in Starter : told' = Append(told, m)
    PROVE  WireOK'
<1>1. /\ sent' \in Seq(Request) /\ Len(sent') = Len(sent) - 1 /\ Len(sent) \in Nat
      /\ \A j \in 1..Len(sent') : \E h \in 1..Len(sent) \ {i} : sent'[j] = sent[h]
  BY Dequeued
<1>2. \A j \in 1..Len(sent') : RequestOK(sent'[j])
  BY <1>1 DEF WireOK
<1>3. /\ told' \in Seq(Starter) /\ Len(told') \in {Len(told), Len(told) + 1} /\ Len(told) \in Nat
  <2>1. told \in Seq(Starter)
    BY DEF WireOK
  <2>2. \A m \in Starter : Append(told, m) \in Seq(Starter) /\ Len(Append(told, m)) = Len(told) + 1
    BY <2>1
  <2> QED  BY <2>1, <2>2
<1>4. MaxSent \in Nat
  BY ScreenAssumption
<1> QED  BY <1>1, <1>2, <1>3, <1>4 DEF WireOK

\* Toggling one pokemon keeps a roster within its size.
LEMMA ToggledOK ==
    ASSUME ShownOK, NEW m \in Pokemon \ Starter
    PROVE  /\ Toggled(m) \in SUBSET (Pokemon \ Starter)
           /\ Cardinality(Toggled(m)) <= RosterSize
           /\ Cardinality(Toggled(m)) = RosterSize => Toggled(m) \in Roster
<1>1. /\ shown.roster \in SUBSET (Pokemon \ Starter) /\ IsFiniteSet(shown.roster)
      /\ Cardinality(shown.roster) <= RosterSize /\ RosterSize \in Nat
  <2>1. shown.roster \in SUBSET (Pokemon \ Starter)
    BY DEF ShownOK
  <2>2. IsFiniteSet(shown.roster)
    BY <2>1, ScreenAssumption, FS_Subset
  <2> QED  BY <2>1, <2>2, DraftAssumption DEF ShownOK
<1>2. Cardinality(shown.roster) \in Nat
  BY <1>1, FS_CardinalityType
<1>3. CASE m \in shown.roster
  <2>1. Toggled(m) = shown.roster \ {m}
    BY <1>3 DEF Toggled
  <2>2. Cardinality(Toggled(m)) = Cardinality(shown.roster) - 1
    BY <1>1, <1>3, <2>1, FS_RemoveElement
  <2> QED  BY <1>1, <1>2, <2>1, <2>2 DEF Roster
<1>4. CASE m \notin shown.roster /\ Cardinality(shown.roster) >= RosterSize
  <2>1. Toggled(m) = shown.roster
    BY <1>4 DEF Toggled
  <2> QED  BY <1>1, <1>2, <2>1 DEF Roster
<1>5. CASE m \notin shown.roster /\ ~(Cardinality(shown.roster) >= RosterSize)
  <2>1. Toggled(m) = shown.roster \cup {m}
    BY <1>5 DEF Toggled
  <2>2. Cardinality(Toggled(m)) = Cardinality(shown.roster) + 1
    BY <1>1, <1>5, <2>1, FS_AddElement
  <2> QED  BY <1>1, <1>2, <1>5, <2>1, <2>2 DEF Roster
<1> QED  BY <1>3, <1>4, <1>5

LEMMA OnePart ==
    ASSUME ShownOK
    PROVE  /\ \A m \in Starter \cup {None} :
                LET to == [shown EXCEPT !.starter = m]
                IN  /\ to \in [starter : Starter \cup {None}, roster : SUBSET (Pokemon \ Starter)]
                    /\ to.starter = m /\ to.roster = shown.roster
           /\ \A S \in SUBSET (Pokemon \ Starter) :
                LET to == [shown EXCEPT !.roster = S]
                IN  /\ to \in [starter : Starter \cup {None}, roster : SUBSET (Pokemon \ Starter)]
                    /\ to.starter = shown.starter /\ to.roster = S
BY DEF ShownOK

LEMMA PicksTyped ==
    ASSUME ScreenInv, NEW m \in Pokemon, PickStarter(m) \/ PickRoster(m)
    PROVE  ScreenInv'
<1>0. UNCHANGED <<room, lobby, screen, flagged, told, link, drops>>
  BY DEF PickStarter, PickRoster
<1>1. IInv'
  BY <1>0, RoomKept DEF ScreenInv
<1>k. "starter" \in Kind /\ "roster" \in Kind /\ "starter" # "roster"
  BY DEF Kind
<1>2. LobbyOK'
  <2>1. excused' \subseteq Kind \cup {"seat"}
    BY <1>k, EmitOK DEF ScreenInv, PickStarter, PickRoster
  <2> QED  BY <1>0, <2>1, LobbyKept DEF ScreenInv, lobby, room, seats
<1>3. CASE PickStarter(m)
  <2>1. m \in Starter /\ m \in Pokemon
    BY <1>3 DEF PickStarter, Offered
  <2>2. PICK s \in Starter \cup {None} : shown' = [shown EXCEPT !.starter = s]
    BY <1>3, <2>1 DEF PickStarter
  <2>3. ShownOK'
    BY <1>0, <2>2, OnePart DEF ScreenInv, ShownOK
  <2>4. Emit("starter", {m}) \/ Quiet
    BY <1>3 DEF PickStarter
  <2>5. WireOK'
    <3>1. \E r \in Starter : {m} = {r}
      BY <2>1
    <3> QED  BY <1>0, <1>k, <2>1, <2>4, <3>1, EmitWire DEF ScreenInv
  <2> QED  BY <1>1, <1>2, <2>3, <2>5 DEF ScreenInv
<1>4. CASE PickRoster(m)
  <2>1. m \in Pokemon \ Starter /\ shown' = [shown EXCEPT !.roster = Toggled(m)]
    BY <1>4 DEF PickRoster
  <2>2. /\ Toggled(m) \in SUBSET (Pokemon \ Starter)
        /\ Cardinality(Toggled(m)) <= RosterSize
        /\ Cardinality(Toggled(m)) = RosterSize => Toggled(m) \in Roster
    BY <2>1, ToggledOK DEF ScreenInv
  <2>3. (Toggled(m) \in Roster /\ Emit("roster", Toggled(m))) \/ Quiet
    BY <1>4, <2>2 DEF PickRoster
  <2> HIDE DEF Toggled
  <2>4. ShownOK'
    BY <1>0, <2>1, <2>2, OnePart DEF ScreenInv, ShownOK
  <2>5. WireOK'
    <3>1. CASE Quiet
      BY <1>0, <3>1 DEF Quiet, ScreenInv, WireOK
    <3>2. CASE Toggled(m) \in Roster /\ Emit("roster", Toggled(m))
      <4>1. Toggled(m) \in SUBSET Pokemon /\ Toggled(m) \cap Starter = {}
        BY <2>2
      <4> QED  BY <1>0, <1>k, <3>2, <4>1, EmitWire DEF ScreenInv
    <3> QED  BY <2>3, <3>1, <3>2
  <2> QED  BY <1>1, <1>2, <2>4, <2>5 DEF ScreenInv
<1> QED  BY <1>3, <1>4

\* What the handlers do with a request.
LEMMA HandlersTyped ==
    ASSUME ScreenInv, NEW i \in DOMAIN sent,
           \/ HandleStarter(i) \/ HandlerFails(i)
           \/ \E t \in Task : HandleRoster(i, t)
    PROVE  ScreenInv'
<1>0. /\ sent' = Without(sent, i) /\ UNCHANGED <<lobby, screen, shown, flagged, link, drops>>
      /\ i \in 1..Len(sent) /\ RequestOK(sent[i])
  BY DEF HandleStarter, HandlerFails, HandleRoster, ScreenInv, WireOK
<1>1. ShownOK'
  BY <1>0 DEF ScreenInv, ShownOK
<1>2. CASE HandleStarter(i)
  <2>1. PICK m \in sent[i].pick :
          \/ SelectStarter(Me, m) /\ UNCHANGED told
          \/ /\ told' = IF sent[i].old THEN told ELSE Append(told, m)
             /\ UNCHANGED room
    BY <1>2 DEF HandleStarter
  <2>2. m \in Starter
    BY <1>0, <1>2 DEF HandleStarter, RequestOK
  <2>3. IInv' /\ (Me \in seated => Me \in seated')
    BY <2>1, <2>2, MyStep, RoomKept DEF ScreenInv, SelectStarter, room, seats
  <2>4. WireOK'
    BY <1>0, <2>1, <2>2, DequeuedWire DEF ScreenInv
  <2>5. LobbyOK'
    BY <1>0, <1>2, <2>3, LobbyKept DEF HandleStarter, ScreenInv, LobbyOK, lobby
  <2> QED  BY <1>1, <2>3, <2>4, <2>5 DEF ScreenInv
<1>3. ASSUME NEW t \in Task, HandleRoster(i, t)
      PROVE  ScreenInv'
  <2>1. sent[i].pick \in Roster
    BY <1>0, <1>3 DEF HandleRoster, RequestOK
  <2>2. IInv' /\ (Me \in seated => Me \in seated')
    BY <1>3, <2>1, MyStep DEF ScreenInv, HandleRoster, SelectRoster, DeleteRoster, seats
  <2>3. WireOK'
    BY <1>0, <1>3, DequeuedWire DEF HandleRoster, ScreenInv
  <2>4. LobbyOK'
    BY <1>0, <1>3, <2>2, LobbyKept DEF HandleRoster, ScreenInv, LobbyOK, lobby
  <2> QED  BY <1>1, <2>2, <2>3, <2>4 DEF ScreenInv
<1>4. CASE HandlerFails(i)
  <2>1. IInv' /\ (Me \in seated => Me \in seated')
    BY <1>4, RoomKept DEF HandlerFails, ScreenInv, room, seats
  <2>2. WireOK'
    BY <1>0, <1>4, DequeuedWire DEF HandlerFails, ScreenInv
  <2>3. excused' \subseteq Kind \cup {"seat"}
    BY <1>0, <1>4 DEF HandlerFails, Excuse, RequestOK, Request, ScreenInv, LobbyOK
  <2>4. LobbyOK'
    BY <1>0, <2>1, <2>3, LobbyKept DEF ScreenInv, lobby
  <2> QED  BY <1>1, <2>1, <2>2, <2>4 DEF ScreenInv
<1> QED  BY <1>2, <1>3, <1>4

LEMMA HearTyped ==
    ASSUME ScreenInv, Hear
    PROVE  ScreenInv'
<1>0. /\ told # <<>> /\ told' = Tail(told) /\ told \in Seq(Starter)
      /\ UNCHANGED <<room, lobby, screen, sent, link, drops>>
  BY DEF Hear, ScreenInv, WireOK
<1>1. IInv'
  BY <1>0, RoomKept DEF ScreenInv
<1>2. Head(told) \in Starter /\ told' \in Seq(Starter) /\ Len(told') = Len(told) - 1 /\ Len(told) \in Nat
  BY <1>0
<1>3. WireOK'
  <2>1. sent' = sent /\ Len(sent) \in Nat /\ MaxSent \in Nat
    BY <1>0, ScreenAssumption DEF ScreenInv, WireOK
  <2> QED  BY <1>2, <2>1 DEF ScreenInv, WireOK
<1>4. excused' \subseteq Kind \cup {"seat"}
  BY DEF Hear, Excuse, Kind, ScreenInv, LobbyOK
<1>5. LobbyOK'
  BY <1>0, <1>4, LobbyKept DEF ScreenInv, lobby, room, seats
<1>6. ShownOK'
  <2>1. CASE screen = "select" /\ RollBack(Head(told))
    BY <1>0, <1>2, <2>1, OnePart DEF RollBack, ScreenInv, ShownOK
  <2>2. CASE UNCHANGED <<flagged, shown>>
    BY <1>0, <2>2 DEF ScreenInv, ShownOK
  <2> QED  BY <2>1, <2>2 DEF Hear
<1> QED  BY <1>1, <1>3, <1>5, <1>6 DEF ScreenInv

LEMMA ScreensTyped ==
    ASSUME ScreenInv,
           \/ LoadRooms \/ JoinCard \/ JoinByCode \/ HandlePost \/ JoinAnswered \/ PostLost
           \/ GoWait \/ ChangeTeam \/ LeaveScreen \/ ComeBack \/ RematchButton
           \/ \E t \in Task : ReadyButton(t)
    PROVE  ScreenInv'
<1>1. UNCHANGED <<sent, told>> /\ WireOK'
  BY DEF LoadRooms, JoinCard, JoinByCode, Ask, HandlePost, JoinAnswered, PostLost, Still, GoWait,
         ChangeTeam, LeaveScreen, ComeBack, RematchButton, Stay, ReadyButton, client, ScreenInv,
         WireOK
<1>2. IInv' /\ (Me \in seated => Me \in seated')
  <2>1. CASE UNCHANGED room
    BY <2>1, RoomKept DEF ScreenInv, room, seats
  <2>2. CASE Join(Me) \/ \E t \in Task : Ready(t, Me)
    BY <2>2, MyStep DEF ScreenInv, Join, Ready, seats
  <2> QED  BY <2>1, <2>2 DEF LoadRooms, JoinCard, JoinByCode, Ask, HandlePost, JoinAnswered,
              PostLost, GoWait, ChangeTeam, LeaveScreen, ComeBack, RematchButton, Stay, ReadyButton
<1>3. ShownOK'
  <2>1. CASE RematchButton
    <3>1. NoTeam \in [starter : Starter \cup {None}, roster : SUBSET (Pokemon \ Starter)]
          /\ NoTeam.roster = {}
      BY DEF NoTeam
    <3>2. Cardinality({}) <= RosterSize
      BY FS_EmptySet, DraftAssumption
    <3> QED  BY <2>1, <3>1, <3>2 DEF RematchButton, Stay, ScreenInv, ShownOK
  <2>2. CASE LoadRooms \/ JoinCard \/ JoinByCode \/ HandlePost \/ PostLost
    BY <2>2 DEF LoadRooms, JoinCard, JoinByCode, Ask, HandlePost, PostLost, Still, ScreenInv, ShownOK
  <2>3. CASE JoinAnswered
    BY <2>3 DEF JoinAnswered, Still, ScreenInv, ShownOK, LobbyOK
  <2>4. CASE GoWait \/ ChangeTeam \/ LeaveScreen \/ ComeBack
    BY <2>4 DEF GoWait, ChangeTeam, LeaveScreen, ComeBack, ScreenInv, ShownOK
  <2>5. CASE \E t \in Task : ReadyButton(t)
    BY <2>5 DEF ReadyButton, client, ScreenInv, ShownOK
  <2> QED  BY <2>1, <2>2, <2>3, <2>4, <2>5
<1>4. LobbyOK'
  <2>1. CASE LoadRooms
    <3>1. listed' \in BOOLEAN /\ screen' = "lobby" /\ link' = "out"
      BY <2>1 DEF LoadRooms
    <3> QED  BY <1>2, <2>1, <3>1 DEF LoadRooms, ScreenInv, LobbyOK
  <2>6. CASE JoinCard \/ JoinByCode \/ HandlePost
    <3>1. UNCHANGED <<listed, screen, link, drops, excused>>
      BY <2>6 DEF JoinCard, JoinByCode, Ask, HandlePost
    <3>2. post' \in {"none", "asked", "seated", "refused"}
      BY <2>6 DEF JoinCard, JoinByCode, Ask, HandlePost
    <3> QED  BY <1>2, <3>1, <3>2 DEF ScreenInv, LobbyOK
  <2>2. CASE JoinAnswered
    <3>1. UNCHANGED <<drops, excused>> /\ post' = "none"
      BY <2>2 DEF JoinAnswered
    <3>2. CASE UNCHANGED <<listed, screen, link>>
      BY <1>2, <3>1, <3>2 DEF ScreenInv, LobbyOK
    <3>3. CASE link' = "joining" /\ screen' = "select" /\ listed' = FALSE
      <4>1. listed' \in BOOLEAN /\ ~listed'
        BY <3>3
      <4>2. link' = "joining" /\ screen' = "select"
        BY <3>3
      <4> QED  BY <1>2, <3>1, <4>1, <4>2 DEF ScreenInv, LobbyOK
    <3> QED  BY <2>2, <3>2, <3>3 DEF JoinAnswered, Entered
  <2>3. CASE PostLost
    <3>1. drops' \in 0..MaxDrops
      BY <2>3, ScreenAssumption DEF PostLost, ScreenInv, LobbyOK
    <3>2. excused' \subseteq Kind \cup {"seat"}
      BY <2>3 DEF PostLost, Excuse, ScreenInv, LobbyOK
    <3> QED  BY <1>2, <2>3, <3>1, <3>2 DEF PostLost, ScreenInv, LobbyOK
  <2>4. CASE GoWait \/ ChangeTeam \/ LeaveScreen \/ ComeBack \/ RematchButton
    BY <1>2, <2>4 DEF GoWait, ChangeTeam, LeaveScreen, ComeBack, RematchButton, Stay, ScreenInv, LobbyOK
  <2>5. ASSUME NEW t \in Task, ReadyButton(t)
        PROVE  LobbyOK'
    BY <1>2, <2>5 DEF ReadyButton, client, lobby, ScreenInv, LobbyOK
  <2> QED  BY <2>1, <2>2, <2>3, <2>4, <2>5, <2>6
<1> QED  BY <1>1, <1>2, <1>3, <1>4 DEF ScreenInv

LEMMA LinkTyped ==
    ASSUME ScreenInv, Drop \/ Reconnect \/ Expire \/ Joined \/ JoinRejected
    PROVE  ScreenInv'
<1>1. CASE Drop
  <2>1. IInv' /\ UNCHANGED <<room, lobby, screen, shown>>
    BY <1>1, RoomKept DEF Drop, ScreenInv
  <2>2. WireOK'
    <3>1. /\ sent' \in Seq(Request) /\ Len(sent') <= Len(sent) /\ Len(sent) \in Nat
          /\ Len(sent') \in Nat /\ \A j \in 1..Len(sent') : RequestOK(sent'[j])
      BY <1>1, Lost DEF ScreenInv
    <3>2. /\ told' = <<>> /\ told' \in Seq(Starter) /\ Len(told') = 0
          /\ Len(told) \in Nat /\ MaxSent \in Nat
      BY <1>1, ScreenAssumption DEF Drop, ScreenInv, WireOK
    <3> QED  BY <3>1, <3>2 DEF ScreenInv, WireOK
  <2>3. ShownOK'
    BY <1>1, <2>1 DEF Drop, ScreenInv, ShownOK
  <2>4. LobbyOK'
    <3>1. drops' \in 0..MaxDrops
      BY <1>1, ScreenAssumption DEF Drop, ScreenInv, LobbyOK
    <3>2. excused' \subseteq Kind \cup {"seat"}
      BY <1>1 DEF Drop, Excuse, ScreenInv, LobbyOK
    <3>3. link' = "off" /\ link # "out"
      BY <1>1 DEF Drop
    <3> QED  BY <2>1, <3>1, <3>2, <3>3 DEF ScreenInv, LobbyOK, lobby
  <2> QED  BY <2>1, <2>2, <2>3, <2>4 DEF ScreenInv
<1>2. CASE Reconnect
  <2>1. IInv'
    BY <1>2, RoomKept DEF Reconnect, ScreenInv
  <2> QED  BY <1>2, <2>1 DEF Reconnect, ScreenInv, LobbyOK, ShownOK, WireOK, lobby
<1>3. CASE Expire
  <2>1. IInv'
    BY <1>3, MyStep DEF Expire, ScreenInv
  <2>2. excused' \subseteq Kind \cup {"seat"}
    BY <1>3 DEF Expire, Excuse, ScreenInv, LobbyOK
  <2> QED  BY <1>3, <2>1, <2>2 DEF Expire, ScreenInv, LobbyOK, ShownOK, WireOK, lobby
<1>4. CASE Joined
  <2>1. IInv' /\ Me \in seated'
    BY <1>4, MyStep, RoomKept DEF Joined, ScreenInv, Join, room, seats
  <2> QED  BY <1>4, <2>1 DEF Joined, ScreenInv, LobbyOK, ShownOK, WireOK, lobby
<1>5. CASE JoinRejected
  <2>1. IInv'
    BY <1>5, RoomKept DEF JoinRejected, ScreenInv
  <2>2. ShownOK' /\ WireOK'
    BY <1>5 DEF JoinRejected, ScreenInv, ShownOK, WireOK
  <2>3. LobbyOK'
    BY <1>5 DEF JoinRejected, ScreenInv, LobbyOK, lobby, room, seats
  <2> QED  BY <2>1, <2>2, <2>3 DEF ScreenInv
<1> QED  BY <1>1, <1>2, <1>3, <1>4, <1>5

LEMMA RoomTyped ==
    ASSUME ScreenInv, RoomStep \/ WipeTeams
    PROVE  ScreenInv'
<1>1. IInv'
  BY TheirStep DEF ScreenInv
<1>2. Me \in seated => Me \in seated'
  <2>1. CASE RoomStep
    <3>1. ASSUME NEW t \in Task, InsertRoster(t)
          PROVE  seated' = seated
      BY <3>1 DEF InsertRoster, seats
    <3>2. CASE \A t \in Task : ~InsertRoster(t)
      BY <2>1, <3>2, OthersLeaveMine DEF ScreenInv, MineKept, Inserts
    <3> QED  BY <3>1, <3>2
  <2>2. CASE WipeTeams
    BY <2>2 DEF WipeTeams, Advance, seats
  <2> QED  BY <2>1, <2>2
<1>3. /\ excused' \subseteq Kind \cup {"seat"}
      /\ UNCHANGED <<lobby, screen, shown, flagged, sent, told, link, drops>>
  <2>1. CASE RoomStep
    BY <2>1 DEF RoomStep, client, ScreenInv, LobbyOK
  <2>2. CASE WipeTeams
    BY <2>2 DEF WipeTeams, Excuse, ScreenInv, LobbyOK
  <2> QED  BY <2>1, <2>2
<1>4. LobbyOK'
  BY <1>2, <1>3, LobbyKept DEF ScreenInv, lobby
<1>5. ShownOK' /\ WireOK'
  BY <1>3 DEF ScreenInv, ShownOK, WireOK
<1> QED  BY <1>1, <1>4, <1>5 DEF ScreenInv

LEMMA ScreenStarts == ScreenInit => ScreenInv
<1> SUFFICES ASSUME ScreenInit PROVE ScreenInv
  OBVIOUS
<1>1. IInv
  BY InitHolds DEF ScreenInit
<1>2. LobbyOK
  <2>1. listed \in BOOLEAN /\ ~listed
    BY DEF ScreenInit
  <2>2. /\ screen = "lobby" /\ link = "out" /\ post = "none" /\ drops \in 0..MaxDrops
        /\ excused = Kind
    BY ScreenAssumption DEF ScreenInit
  <2> QED  BY <2>1, <2>2 DEF LobbyOK
<1>3. ShownOK
  <2>1. Cardinality({}) = 0 /\ RosterSize \in Nat
    BY FS_EmptySet, DraftAssumption
  <2>2. \A S \in Roster : Cardinality(S) <= RosterSize /\ S \in SUBSET Pokemon
    BY <2>1 DEF Roster
  <2>3. CASE shown = NoTeam
    BY <2>1, <2>3 DEF ScreenInit, ShownOK, NoTeam
  <2>4. CASE shown \in [starter : Starter, roster : {S \in Roster : S \cap Starter = {}}]
    BY <2>2, <2>4 DEF ScreenInit, ShownOK
  <2> QED  BY <2>3, <2>4 DEF ScreenInit
<1>4. WireOK
  <2>1. sent = <<>> /\ told = <<>> /\ MaxSent \in Nat
    BY ScreenAssumption DEF ScreenInit
  <2> QED  BY <2>1 DEF WireOK
<1> QED  BY <1>1, <1>2, <1>3, <1>4 DEF ScreenInv

LEMMA ScreenTyped == ScreenInv /\ [ScreenNext]_<<vars, client>> => ScreenInv'
<1> SUFFICES ASSUME ScreenInv, [ScreenNext]_<<vars, client>> PROVE ScreenInv'
  OBVIOUS
<1>1. CASE UNCHANGED <<vars, client>>
  <2>1. IInv'
    BY <1>1, NextKeeps DEF ScreenInv
  <2> QED  BY <1>1, <2>1 DEF ScreenInv, LobbyOK, ShownOK, WireOK, vars, client, lobby, seats
<1>2. CASE ScreenNext
  BY <1>2, PicksTyped, HandlersTyped, HearTyped, ScreensTyped, LinkTyped, RoomTyped DEF ScreenNext
<1> QED  BY <1>1, <1>2

\* Every value the draft's screens, requests and rejections take is of its type,
\* whatever crosses: a roster shown never outgrows the slots, flags go with their
\* screen, and a player whose socket is in the room has a seat in it.
THEOREM ScreenTypes == ScreenSpec => []ScreenTypeOK
<1>1. ScreenInv => ScreenTypeOK
  BY DEF ScreenInv, LobbyOK, ShownOK, WireOK, IInv, ScreenTypeOK
<1> QED  BY <1>1, ScreenStarts, ScreenTyped, PTL DEF ScreenSpec

---------------------------------------------------------------------------
(* The team shown *)

\* The requests of a kind are those there were.
SameOf(k) ==
    /\ \A j \in Of(k)' : \E i \in Of(k) : sent'[j].pick = sent[i].pick
    /\ Of(k)' = {} => Of(k) = {}
    /\ One(Of(k)) => One(Of(k)')

LEMMA SameIfKept ==
    ASSUME UNCHANGED sent, NEW k
    PROVE  SameOf(k)
BY DEF SameOf, Of

LEMMA StarterStays ==
    ASSUME HeldInv, SameOf("starter"), UNCHANGED told, starter'[Me] = starter[Me],
           shown'.starter \in {shown.starter, None},
           "starter" \in excused => "starter" \in excused'
    PROVE  StarterHeld'
<1> SUFFICES ASSUME "starter" \notin excused'
             PROVE  StarterHeld'
  BY DEF StarterHeld
<1>1. /\ One(Of("starter")) /\ (told # <<>> => Of("starter") = {})
      /\ shown.starter # None =>
           /\ \A i \in Of("starter") : sent[i].pick = {shown.starter}
           /\ Of("starter") = {} /\ told = <<>> => starter[Me] = shown.starter
  BY DEF HeldInv, TeamHeld, StarterHeld
<1>2. One(Of("starter")') /\ (told' # <<>> => Of("starter")' = {})
  BY <1>1 DEF SameOf
<1>3. ASSUME shown'.starter # None
      PROVE  /\ \A j \in Of("starter")' : sent'[j].pick = {shown'.starter}
             /\ Of("starter")' = {} /\ told' = <<>> => starter'[Me] = shown'.starter
  BY <1>1, <1>3 DEF SameOf
<1> QED  BY <1>2, <1>3 DEF StarterHeld

LEMMA RosterStays ==
    ASSUME HeldInv, SameOf("roster"), roster'[Me] = roster[Me],
           Inserts' = Inserts, \A t \in Inserts : task'[t] = task[t],
           shown'.roster = shown.roster \/ Cardinality(shown'.roster) # RosterSize,
           "roster" \in excused => "roster" \in excused'
    PROVE  RosterHeld'
<1> SUFFICES ASSUME "roster" \notin excused'
             PROVE  RosterHeld'
  BY DEF RosterHeld
<1>0. Complete("roster") <=> Cardinality(shown.roster) = RosterSize
  BY DEF Complete
<1>9. Complete("roster")' <=> Cardinality(shown'.roster) = RosterSize
  BY DEF Complete
<1>1. /\ One(Of("roster")) /\ One(Inserts) /\ (Inserts = {} \/ Of("roster") = {})
      /\ \A t \in Inserts : roster[Me] \subseteq task[t].gone
      /\ Complete("roster") =>
           /\ \A i \in Of("roster") : sent[i].pick = shown.roster
           /\ \A t \in Inserts : task[t].pick = shown.roster
           /\ Of("roster") = {} /\ Inserts = {} => roster[Me] = shown.roster
  BY DEF HeldInv, TeamHeld, RosterHeld
<1>2. /\ One(Of("roster")') /\ One(Inserts') /\ (Inserts' = {} \/ Of("roster")' = {})
      /\ \A t \in Inserts' : roster'[Me] \subseteq task'[t].gone
  BY <1>1 DEF SameOf
<1>3. ASSUME Complete("roster")'
      PROVE  /\ \A j \in Of("roster")' : sent'[j].pick = shown'.roster
             /\ \A t \in Inserts' : task'[t].pick = shown'.roster
             /\ Of("roster")' = {} /\ Inserts' = {} => roster'[Me] = shown'.roster
  <2>1. shown'.roster = shown.roster /\ Complete("roster")
    BY <1>0, <1>9, <1>3
  <2> QED  BY <1>1, <2>1 DEF SameOf
<1> QED  BY <1>2, <1>3 DEF RosterHeld

\* A step that leaves this player's rows and requests alone.
LEMMA HeldKept ==
    ASSUME HeldInv, ScreenInv', RowsKept, UNCHANGED <<sent, told>>, excused \subseteq excused',
           shown' = shown \/ shown' = NoTeam
    PROVE  HeldInv'
<1>1. MineOK' /\ OldExcused'
  BY DEF HeldInv, TeamHeld, MineOK, OldExcused, RowsKept
<1>2. StarterHeld'
  <2>1. shown'.starter \in {shown.starter, None}
    BY DEF NoTeam
  <2> QED  BY <2>1, SameIfKept, StarterStays DEF RowsKept
<1>3. RosterHeld'
  <2>1. shown'.roster = shown.roster \/ Cardinality(shown'.roster) # RosterSize
    <3>1. Cardinality({}) = 0 /\ RosterSize # 0
      BY FS_EmptySet, DraftAssumption
    <3>2. CASE shown' = NoTeam
      <4>1. shown'.roster = {}
        BY <3>2 DEF NoTeam
      <4> QED  BY <3>1, <4>1
    <3> QED  BY <3>2
  <2> QED  BY <2>1, SameIfKept, RosterStays DEF RowsKept
<1> QED  BY <1>1, <1>2, <1>3 DEF HeldInv, TeamHeld

LEMMA RowsKeptIfRoom == UNCHANGED room => RowsKept
BY DEF room, teams, RowsKept, Inserts, At

\* A part that is excused has nothing to show.
LEMMA BothExcused ==
    ASSUME ScreenInv', MineOK', OldExcused', Kind \subseteq excused'
    PROVE  HeldInv'
BY DEF Kind, StarterHeld, RosterHeld, HeldInv, TeamHeld

LEMMA DequeuedOthers ==
    ASSUME WireOK, NEW i \in DOMAIN sent, sent' = Without(sent, i), NEW k, k # sent[i].kind
    PROVE  SameOf(k)
<1>1. /\ sent' \in Seq(Request) /\ Len(sent') = Len(sent) - 1 /\ Len(sent) \in Nat
      /\ \A j \in 1..Len(sent') : \E h \in 1..Len(sent) \ {i} : sent'[j] = sent[h]
      /\ \A h \in 1..Len(sent) \ {i} : \E j \in 1..Len(sent') : sent'[j] = sent[h]
      /\ One(Of(k)) => One(Of(k)')
  BY Dequeued
<1>2. \A j \in Of(k)' : \E h \in Of(k) : sent'[j].pick = sent[h].pick
  <2>1. ASSUME NEW j \in Of(k)'
        PROVE  \E h \in Of(k) : sent'[j].pick = sent[h].pick
    <3>1. j \in 1..Len(sent') /\ sent'[j].kind = k
      BY <2>1 DEF Of
    <3>2. PICK h \in 1..Len(sent) \ {i} : sent'[j] = sent[h]
      BY <1>1, <3>1
    <3> QED  BY <3>1, <3>2 DEF Of
  <2> QED  BY <2>1
<1>3. Of(k) # {} => Of(k)' # {}
  <2>1. ASSUME NEW h \in Of(k)
        PROVE  Of(k)' # {}
    <3>1. h \in 1..Len(sent) \ {i} /\ sent[h].kind = k
      BY <2>1 DEF Of
    <3>2. PICK j \in 1..Len(sent') : sent'[j] = sent[h]
      BY <1>1, <3>1
    <3> QED  BY <3>1, <3>2 DEF Of
  <2> QED  BY <2>1
<1> QED  BY <1>1, <1>2, <1>3 DEF SameOf

LEMMA DequeuedOld ==
    ASSUME HeldInv, NEW i \in DOMAIN sent, sent' = Without(sent, i), excused \subseteq excused'
    PROVE  OldExcused'
<1>1. \A j \in 1..Len(sent') : \E h \in 1..Len(sent) \ {i} : sent'[j] = sent[h]
  BY Dequeued DEF HeldInv, ScreenInv
<1> QED  BY <1>1 DEF HeldInv, TeamHeld, OldExcused

LEMMA EnqueuedOf ==
    ASSUME WireOK, NEW r, RequestOK(r), sent' = Append(sent, r)
    PROVE  /\ \A k : k # r.kind => SameOf(k)
           /\ Of(r.kind) = {} => /\ Of(r.kind)' = {Len(sent) + 1}
                                 /\ sent'[Len(sent) + 1] = r
<1>1. /\ sent' \in Seq(Request) /\ Len(sent') = Len(sent) + 1 /\ Len(sent) \in Nat
      /\ sent'[Len(sent) + 1] = r /\ \A j \in 1..Len(sent) : sent'[j] = sent[j]
  BY Enqueued
<1>2. \A j : j \in 1..Len(sent') <=> j \in 1..Len(sent) \/ j = Len(sent) + 1
  BY <1>1
<1>3. ASSUME NEW k, k # r.kind
      PROVE  Of(k)' = Of(k) /\ \A j \in Of(k) : sent'[j] = sent[j]
  BY <1>1, <1>2, <1>3 DEF Of
<1>4. \A k : k # r.kind => SameOf(k)
  BY <1>3 DEF SameOf
<1>5. Of(r.kind) = {} => Of(r.kind)' = {Len(sent) + 1}
  BY <1>1, <1>2 DEF Of
<1> QED  BY <1>1, <1>4, <1>5

\* What was emitted: the request, alone of its kind, or an excuse.
LEMMA Emitted ==
    ASSUME HeldInv, NEW k \in Kind, NEW pick \in SUBSET Pokemon, Emit(k, pick),
           k = "starter" => \E m \in Starter : pick = {m},
           k = "roster" => pick \in Roster /\ pick \cap Starter = {}
    PROVE  /\ OldExcused'
           /\ \A l : l # k => SameOf(l) /\ (l \in excused => l \in excused')
           /\ k \notin excused' => /\ ~Outstanding(k)
                                   /\ Of(k)' # {} /\ One(Of(k)')
                                   /\ \A i \in Of(k)' : sent'[i].pick = pick
<1>0. WireOK /\ OldExcused /\ DOMAIN sent = 1..Len(sent)
  BY DEF HeldInv, ScreenInv, TeamHeld, WireOK
<1>1. CASE UNCHANGED sent /\ Excuse({k})
  BY <1>0, <1>1, SameIfKept DEF Excuse, OldExcused
<1>2. CASE ~(UNCHANGED sent /\ Excuse({k}))
  <2> DEFINE r == [kind |-> k, pick |-> pick, old |-> FALSE]
  <2>1. r \in Request /\ r.kind = k /\ r.pick = pick /\ ~r.old
    BY DEF Request
  <2>2. /\ sent' = Append(sent, r)
        /\ excused' = IF Outstanding(k) THEN excused \cup {k} ELSE excused \ {k}
    BY <1>2 DEF Emit
  <2> HIDE DEF r
  <2>3. RequestOK(r)
    BY <2>1 DEF RequestOK
  <2>4. /\ \A l : l # k => SameOf(l)
        /\ Of(k) = {} => Of(k)' = {Len(sent) + 1} /\ sent'[Len(sent) + 1] = r
    BY <1>0, <2>1, <2>2, <2>3, EnqueuedOf
  <2>5. k \notin excused' => ~Outstanding(k) /\ Of(k) = {}
    BY <1>0, <2>2 DEF Outstanding, InFlight, Of
  <2>6. OldExcused'
    <3>1. ASSUME NEW j \in 1..Len(sent'), sent'[j].old
          PROVE  sent'[j].kind \in excused'
      <4>1. /\ Len(sent') = Len(sent) + 1 /\ Len(sent) \in Nat
            /\ sent'[Len(sent) + 1] = r /\ \A h \in 1..Len(sent) : sent'[h] = sent[h]
        BY <1>0, <2>2, <2>3, Enqueued
      <4>2. j # Len(sent) + 1
        BY <2>1, <3>1, <4>1
      <4>3. j \in 1..Len(sent) /\ sent'[j] = sent[j]
        BY <4>1, <4>2
      <4>4. sent[j].kind \in excused
        BY <1>0, <3>1, <4>3 DEF OldExcused
      <4>5. sent[j].kind = k => k \in excused'
        BY <2>5, <4>3 DEF Of
      <4> QED  BY <2>2, <4>3, <4>4, <4>5
    <3> QED  BY <3>1 DEF OldExcused
  <2>7. \A l : l # k => (l \in excused => l \in excused')
    BY <2>2
  <2>8. k \notin excused' => /\ Of(k)' # {} /\ One(Of(k)')
                             /\ \A i \in Of(k)' : sent'[i].pick = pick
    BY <2>1, <2>4, <2>5 DEF One
  <2> QED  BY <2>4, <2>5, <2>6, <2>7, <2>8
<1> QED  BY <1>1, <1>2

LEMMA PicksHeld ==
    ASSUME HeldInv, NEW m \in Pokemon, PickStarter(m) \/ PickRoster(m)
    PROVE  HeldInv'
<1>0. UNCHANGED <<room, told>>
  BY DEF PickStarter, PickRoster
<1>1. ScreenInv' /\ ScreenInv
  BY PicksTyped DEF HeldInv
<1>2. RowsKept /\ MineOK'
  <2>1. RowsKept
    BY <1>0, RowsKeptIfRoom
  <2> QED  BY <2>1 DEF HeldInv, TeamHeld, MineOK, RowsKept
<1>k. "starter" \in Kind /\ "roster" \in Kind /\ "starter" # "roster"
  BY DEF Kind
<1>3. CASE PickStarter(m)
  <2>1. m \in Starter
    BY <1>3 DEF PickStarter, Offered
  <2>2. CASE Quiet /\ shown' = [shown EXCEPT !.starter = None]
    <3>1. shown'.starter = None /\ shown'.roster = shown.roster
      BY <1>1, <2>2, OnePart DEF ScreenInv
    <3>2. UNCHANGED <<sent, excused>>
      BY <2>2 DEF Quiet
    <3>3. StarterHeld'
      BY <1>0, <1>2, <3>1, <3>2, SameIfKept, StarterStays DEF RowsKept
    <3>4. RosterHeld'
      BY <1>2, <3>1, <3>2, SameIfKept, RosterStays DEF RowsKept
    <3>5. OldExcused'
      BY <3>2 DEF HeldInv, TeamHeld, OldExcused
    <3> QED  BY <1>1, <1>2, <3>3, <3>4, <3>5 DEF HeldInv, TeamHeld
  <2>3. CASE Emit("starter", {m}) /\ shown' = [shown EXCEPT !.starter = m]
    <3>1. shown'.starter = m /\ shown'.roster = shown.roster
      BY <1>1, <2>1, <2>3, OnePart DEF ScreenInv
    <3>2. /\ OldExcused'
          /\ SameOf("roster") /\ ("roster" \in excused => "roster" \in excused')
          /\ "starter" \notin excused' => /\ ~Outstanding("starter")
                                          /\ Of("starter")' # {} /\ One(Of("starter")')
                                          /\ \A i \in Of("starter")' : sent'[i].pick = {m}
      <4>1. {m} \in SUBSET Pokemon /\ \E s \in Starter : {m} = {s}
        BY <2>1
      <4> QED  BY <1>k, <2>3, <4>1, Emitted
    <3>3. RosterHeld'
      BY <1>2, <3>1, <3>2, RosterStays DEF RowsKept
    <3>4. StarterHeld'
      <4>1. "starter" \notin excused' => told' = <<>>
        BY <1>0, <3>2 DEF Outstanding, InFlight
      <4> QED  BY <3>1, <3>2, <4>1 DEF StarterHeld
    <3> QED  BY <1>1, <1>2, <3>2, <3>3, <3>4 DEF HeldInv, TeamHeld
  <2> QED  BY <1>3, <2>2, <2>3 DEF PickStarter
<1>4. CASE PickRoster(m)
  <2> DEFINE T == Toggled(m)
  <2>1. m \in Pokemon \ Starter /\ shown' = [shown EXCEPT !.roster = T]
    BY <1>4 DEF PickRoster
  <2>2. /\ T \in SUBSET (Pokemon \ Starter)
        /\ Cardinality(T) = RosterSize => T \in Roster
    BY <1>1, <2>1, ToggledOK DEF ScreenInv
  <2>3. IF Cardinality(T) = RosterSize THEN Emit("roster", T) ELSE Quiet
    BY <1>4 DEF PickRoster
  <2> HIDE DEF T
  <2>4. shown'.starter = shown.starter /\ shown'.roster = T
    BY <1>1, <2>1, <2>2, OnePart DEF ScreenInv
  <2>5. CASE Cardinality(T) # RosterSize
    <3>1. UNCHANGED <<sent, excused>>
      BY <2>3, <2>5 DEF Quiet
    <3>2. StarterHeld'
      BY <1>0, <1>2, <2>4, <3>1, SameIfKept, StarterStays DEF RowsKept
    <3>3. RosterHeld'
      BY <1>2, <2>4, <2>5, <3>1, SameIfKept, RosterStays DEF RowsKept
    <3>4. OldExcused'
      BY <3>1 DEF HeldInv, TeamHeld, OldExcused
    <3> QED  BY <1>1, <1>2, <3>2, <3>3, <3>4 DEF HeldInv, TeamHeld
  <2>6. CASE Cardinality(T) = RosterSize
    <3>1. T \in Roster /\ T \in SUBSET Pokemon /\ T \cap Starter = {} /\ Emit("roster", T)
      BY <2>2, <2>3, <2>6
    <3>2. /\ OldExcused'
          /\ SameOf("starter") /\ ("starter" \in excused => "starter" \in excused')
          /\ "roster" \notin excused' => /\ ~Outstanding("roster")
                                         /\ Of("roster")' # {} /\ One(Of("roster")')
                                         /\ \A i \in Of("roster")' : sent'[i].pick = T
      BY <1>k, <3>1, Emitted
    <3>3. StarterHeld'
      BY <1>0, <1>2, <2>4, <3>2, StarterStays DEF RowsKept
    <3>4. RosterHeld'
      <4>1. "roster" \notin excused' => Inserts' = {}
        BY <1>2, <3>2 DEF Outstanding, Inserting, Inserts, RowsKept
      <4>2. One({})
        BY DEF One
      <4> QED  BY <2>4, <3>2, <4>1, <4>2 DEF RosterHeld
    <3> QED  BY <1>1, <1>2, <3>2, <3>3, <3>4 DEF HeldInv, TeamHeld
  <2> QED  BY <2>5, <2>6
<1> QED  BY <1>3, <1>4

LEMMA HearHeld ==
    ASSUME HeldInv, Hear
    PROVE  HeldInv'
<1>0. /\ told # <<>> /\ UNCHANGED <<room, sent>> /\ RowsKept
  <2>1. UNCHANGED room
    BY DEF Hear
  <2> QED  BY <2>1, RowsKeptIfRoom DEF Hear
<1>1. ScreenInv' /\ ScreenInv
  BY HearTyped DEF HeldInv
<1>2. shown'.roster = shown.roster /\ excused \subseteq excused'
  <2>1. CASE screen = "select" /\ RollBack(Head(told)) /\ UNCHANGED excused
    BY <1>1, <2>1, OnePart DEF RollBack, ScreenInv
  <2>2. CASE Excuse({"starter"}) /\ UNCHANGED shown
    BY <2>2 DEF Excuse
  <2> QED  BY <2>1, <2>2 DEF Hear
<1>3. MineOK' /\ OldExcused'
  BY <1>0, <1>2 DEF HeldInv, TeamHeld, MineOK, OldExcused, RowsKept
<1>4. RosterHeld'
  BY <1>0, <1>2, SameIfKept, RosterStays DEF RowsKept
<1>5. StarterHeld'
  <2>1. CASE "starter" \in excused'
    BY <2>1 DEF StarterHeld
  <2>2. CASE "starter" \notin excused'
    <3>1. Of("starter") = {} /\ One(Of("starter")) /\ Of("starter")' = {}
      BY <1>0, <1>2, <2>2 DEF HeldInv, TeamHeld, StarterHeld, Of
    <3>2. shown' = [shown EXCEPT !.starter = None]
      BY <2>2 DEF Hear, Excuse, RollBack
    <3>3. shown'.starter = None
      BY <1>1, <3>2, OnePart DEF ScreenInv
    <3> QED  BY <3>1, <3>3 DEF StarterHeld, One
  <2> QED  BY <2>1, <2>2
<1> QED  BY <1>1, <1>3, <1>4, <1>5 DEF HeldInv, TeamHeld

\* A starter is set, or its rejection is on its way: nothing else was.
LEMMA StarterHandled ==
    ASSUME HeldInv, NEW i \in DOMAIN sent, HandleStarter(i)
    PROVE  HeldInv'
<1>0. /\ sent' = Without(sent, i) /\ UNCHANGED <<shown, excused>>
      /\ sent[i].kind = "starter" /\ i \in Of("starter") /\ RequestOK(sent[i])
  BY DEF HandleStarter, HeldInv, ScreenInv, WireOK, Of
<1>1. ScreenInv' /\ ScreenInv
  BY HandlersTyped DEF HeldInv
<1>2. PICK m \in sent[i].pick :
        \/ SelectStarter(Me, m) /\ UNCHANGED told
        \/ /\ told' = IF sent[i].old THEN told ELSE Append(told, m)
           /\ UNCHANGED room
  BY DEF HandleStarter
<1>3. m \in Starter /\ sent[i].pick = {m}
  BY <1>0, <1>2 DEF RequestOK
<1>4. /\ roster'[Me] = roster[Me] /\ Inserts' = Inserts /\ \A t \in Inserts : task'[t] = task[t]
      /\ starter'[Me] \in {starter[Me], m}
  <2>1. CASE UNCHANGED room
    BY <2>1, RowsKeptIfRoom DEF RowsKept
  <2>2. CASE SelectStarter(Me, m)
    BY <1>1, <2>2, MeIsHuman DEF SelectStarter, Inserts, At, ScreenInv, IInv, TypeOK
  <2> QED  BY <1>2, <2>1, <2>2
<1>5. MineOK'
  BY <1>3, <1>4 DEF HeldInv, TeamHeld, MineOK
<1>6. OldExcused'
  BY <1>0, DequeuedOld
<1>7. RosterHeld'
  <2>1. SameOf("roster")
    BY <1>0, <1>1, DequeuedOthers DEF ScreenInv
  <2> QED  BY <1>0, <1>4, <2>1, RosterStays
<1>8. StarterHeld'
  <2>1. CASE "starter" \in excused'
    BY <2>1 DEF StarterHeld
  <2>2. CASE "starter" \notin excused'
    <3>1. /\ One(Of("starter")) /\ told = <<>>
          /\ shown.starter # None => sent[i].pick = {shown.starter}
      BY <1>0, <2>2 DEF HeldInv, TeamHeld, StarterHeld
    <3>2. Of("starter")' = {} /\ One(Of("starter")')
      <4>1. One(Of("starter")) => One(Of("starter")') /\ (i \in Of("starter") => Of("starter")' = {})
        BY <1>0, <1>1, Dequeued DEF ScreenInv
      <4> QED  BY <1>0, <3>1, <4>1
    <3>3. ~sent[i].old
      BY <1>0, <2>2 DEF HeldInv, TeamHeld, OldExcused, Of
    <3>4. told' = <<>> => starter'[Me] = m
      <4>1. CASE SelectStarter(Me, m)
        BY <1>1, <4>1, MeIsHuman DEF SelectStarter, ScreenInv, IInv, TypeOK
      <4>2. CASE told' = Append(told, m)
        <5>1. Append(<<>>, m) # <<>>
          BY <1>3
        <5> QED  BY <3>1, <4>2, <5>1
      <4> QED  BY <1>2, <3>3, <4>1, <4>2
    <3>5. shown'.starter # None => m = shown'.starter
      BY <1>0, <1>3, <3>1
    <3> QED  BY <3>2, <3>4, <3>5 DEF StarterHeld
  <2> QED  BY <2>1, <2>2
<1> QED  BY <1>1, <1>5, <1>6, <1>7, <1>8 DEF HeldInv, TeamHeld

\* A roster request becomes the transaction that will insert it.
LEMMA RosterHandled ==
    ASSUME HeldInv, NEW i \in DOMAIN sent, NEW t \in Task, HandleRoster(i, t)
    PROVE  HeldInv'
<1> DEFINE pick == sent[i].pick
<1>0. /\ sent' = Without(sent, i) /\ UNCHANGED <<shown, excused, told>>
      /\ sent[i].kind = "roster" /\ i \in Of("roster") /\ RequestOK(sent[i])
      /\ At(t, "idle") /\ DeleteRoster(t, Me, pick) /\ UNCHANGED teams
  BY DEF HandleRoster, SelectRoster, DeleteRoster, HeldInv, ScreenInv, WireOK, Of
<1>1. ScreenInv' /\ ScreenInv
  BY HandlersTyped DEF HeldInv
<1>2. pick \cap Starter = {}
  BY <1>0 DEF RequestOK
<1>3. /\ task'[t].pc = "insert" /\ task'[t].who = Me /\ task'[t].pick = pick /\ task'[t].gone = roster[Me]
      /\ \A u \in Task \ {t} : task'[u] = task[u]
  <2>1. task \in [Task -> TaskState] /\ task[t] \in TaskState
    BY <1>1 DEF ScreenInv, IInv, TypeOK
  <2> DEFINE s == [task[t] EXCEPT !.pc = "insert", !.who = Me, !.pick = pick, !.gone = roster[Me]]
  <2>2. s.pc = "insert" /\ s.who = Me /\ s.pick = pick /\ s.gone = roster[Me]
    BY <2>1 DEF TaskState
  <2>3. task' = [task EXCEPT ![t] = s]
    BY <1>0 DEF DeleteRoster, Become
  <2> HIDE DEF s
  <2> QED  BY <2>1, <2>2, <2>3
<1> HIDE DEF pick
<1>4. Inserts' = Inserts \cup {t} /\ Inserts \subseteq Task \ {t}
  BY <1>0, <1>3 DEF Inserts, At
<1>5. MineOK'
  BY <1>0, <1>2, <1>3, <1>4 DEF HeldInv, TeamHeld, MineOK, teams
<1>6. OldExcused'
  BY <1>0, DequeuedOld
<1>7. StarterHeld'
  <2>1. SameOf("starter")
    BY <1>0, <1>1, DequeuedOthers DEF ScreenInv
  <2> QED  BY <1>0, <2>1, StarterStays DEF teams
<1>8. RosterHeld'
  <2>1. CASE "roster" \in excused'
    BY <2>1 DEF RosterHeld
  <2>2. CASE "roster" \notin excused'
    <3>1. /\ One(Of("roster")) /\ Inserts = {}
          /\ Complete("roster") => sent[i].pick = shown.roster
      BY <1>0, <2>2 DEF HeldInv, TeamHeld, RosterHeld
    <3>2. Of("roster")' = {} /\ One(Of("roster")')
      <4>1. One(Of("roster")) => One(Of("roster")') /\ (i \in Of("roster") => Of("roster")' = {})
        BY <1>0, <1>1, Dequeued DEF ScreenInv
      <4> QED  BY <1>0, <3>1, <4>1
    <3>3. Inserts' = {t} /\ One(Inserts')
      BY <1>4, <3>1 DEF One
    <3>4. roster'[Me] \subseteq task'[t].gone
      BY <1>0, <1>3 DEF teams
    <3>5. Complete("roster")' => task'[t].pick = shown'.roster
      BY <1>0, <1>3, <3>1 DEF Complete, pick
    <3> QED  BY <3>2, <3>3, <3>4, <3>5 DEF RosterHeld
  <2> QED  BY <2>1, <2>2
<1> QED  BY <1>1, <1>5, <1>6, <1>7, <1>8 DEF HeldInv, TeamHeld

LEMMA FailureHeld ==
    ASSUME HeldInv, NEW i \in DOMAIN sent, HandlerFails(i)
    PROVE  HeldInv'
<1>0. /\ sent' = Without(sent, i) /\ UNCHANGED <<shown, told, room>> /\ RowsKept
      /\ excused' = excused \cup {sent[i].kind} /\ sent[i].kind \in Kind
  BY RowsKeptIfRoom DEF HandlerFails, Excuse, HeldInv, ScreenInv, WireOK, RequestOK, Request
<1>1. ScreenInv' /\ ScreenInv
  BY HandlersTyped DEF HeldInv
<1>2. MineOK' /\ OldExcused'
  BY <1>0, DequeuedOld DEF HeldInv, TeamHeld, MineOK, RowsKept
<1>3. \A k : k # sent[i].kind => SameOf(k)
  BY <1>0, <1>1, DequeuedOthers DEF ScreenInv
<1>4. StarterHeld'
  <2>1. CASE sent[i].kind = "starter"
    BY <1>0, <2>1 DEF StarterHeld
  <2>2. CASE sent[i].kind # "starter"
    BY <1>0, <1>3, <2>2, StarterStays DEF RowsKept
  <2> QED  BY <2>1, <2>2
<1>5. RosterHeld'
  <2>1. CASE sent[i].kind = "roster"
    BY <1>0, <2>1 DEF RosterHeld
  <2>2. CASE sent[i].kind # "roster"
    BY <1>0, <1>3, <2>2, RosterStays DEF RowsKept
  <2> QED  BY <2>1, <2>2
<1> QED  BY <1>1, <1>2, <1>4, <1>5 DEF HeldInv, TeamHeld

\* The transaction of a roster that need not be excused always fits.
LEMMA InsertHeld ==
    ASSUME HeldInv, NEW t \in Inserts, InsertRoster(t), UNCHANGED client
    PROVE  HeldInv'
<1>0. /\ UNCHANGED <<sent, told, shown, excused, starter>>
      /\ At(t, "insert") /\ task[t].who = Me /\ t \in Task
  BY DEF client, InsertRoster, Inserts
<1>1. ScreenInv' /\ ScreenInv
  <2>1. RoomStep
    BY <1>0 DEF RoomStep
  <2> QED  BY <2>1, RoomTyped DEF HeldInv
<1>2. Inserts' = Inserts \ {t} /\ \A u \in Inserts' : task'[u] = task[u]
  <2>1. task' = [task EXCEPT ![t] = Idle] /\ task \in [Task -> TaskState] /\ Idle.pc = "idle"
    BY <1>0, <1>1, MeIsHuman DEF InsertRoster, End, Become, Idle, ScreenInv, IInv, TypeOK
  <2> QED  BY <1>0, <2>1 DEF Inserts, At
<1>3. MineOK' /\ OldExcused'
  BY <1>0, <1>2 DEF HeldInv, TeamHeld, MineOK, OldExcused
<1>4. StarterHeld'
  BY <1>0, SameIfKept, StarterStays
<1>5. RosterHeld'
  <2>1. CASE "roster" \in excused'
    BY <2>1 DEF RosterHeld
  <2>2. CASE "roster" \notin excused'
    <3>1. /\ One(Inserts) /\ Of("roster") = {} /\ roster[Me] \subseteq task[t].gone
          /\ Complete("roster") => task[t].pick = shown.roster
      BY <1>0, <2>2 DEF HeldInv, TeamHeld, RosterHeld
    <3>2. Inserts' = {}
      BY <1>2, <3>1 DEF One
    <3>3. Of("roster")' = {}
      BY <1>0, <3>1 DEF Of
    <3>4. roster'[Me] = task[t].pick
      <4>1. starter[Me] \notin task[t].pick
        <5>1. starter[Me] \in Starter \cup {None} /\ task[t].pick \cap Starter = {}
          BY DEF HeldInv, TeamHeld, MineOK
        <5>2. task[t].pick \subseteq Pokemon
          BY <1>0, <1>1 DEF ScreenInv, IInv, TypeOK, TaskState, Roster
        <5> QED  BY <5>1, <5>2, DraftAssumption
      <4>2. RosterFits(t)
        BY <1>0, <3>1, <4>1 DEF RosterFits
      <4>3. roster \in [Player -> SUBSET Pokemon] /\ Me \in Player
        BY <1>1, MeIsHuman DEF ScreenInv, IInv, TypeOK
      <4> QED  BY <1>0, <4>2, <4>3 DEF InsertRoster
    <3>5. Complete("roster")' => Complete("roster")
      BY <1>0 DEF Complete
    <3>6. One({})
      BY DEF One
    <3> QED  BY <1>0, <3>1, <3>2, <3>3, <3>4, <3>5, <3>6 DEF RosterHeld
  <2> QED  BY <2>1, <2>2
<1> QED  BY <1>1, <1>3, <1>4, <1>5 DEF HeldInv, TeamHeld

LEMMA JoiningKeepsRows ==
    ASSUME ScreenInv, Join(Me) \/ \E t \in Task : Ready(t, Me)
    PROVE  RowsKept
<1>1. CASE Join(Me)
  BY <1>1 DEF Join, RowsKept, teams, Inserts, At
<1>2. ASSUME NEW t \in Task, Ready(t, Me)
      PROVE  RowsKept
  <2>1. Inserts' = Inserts /\ \A u \in Inserts : task'[u] = task[u]
    BY <1>2, TasksKept DEF Ready, At, ScreenInv
  <2> QED  BY <1>2, <2>1 DEF Ready, RowsKept, teams
<1> QED  BY <1>1, <1>2

LEMMA ScreensHeld ==
    ASSUME HeldInv,
           \/ LoadRooms \/ JoinCard \/ JoinByCode \/ HandlePost \/ JoinAnswered \/ PostLost
           \/ GoWait \/ ChangeTeam \/ LeaveScreen \/ ComeBack \/ RematchButton
           \/ \E t \in Task : ReadyButton(t)
    PROVE  HeldInv'
<1>1. ScreenInv' /\ ScreenInv
  BY ScreensTyped DEF HeldInv
<1>2. RowsKept
  <2>1. UNCHANGED room \/ Join(Me) \/ \E t \in Task : Ready(t, Me)
    BY DEF LoadRooms, JoinCard, JoinByCode, Ask, HandlePost, JoinAnswered, PostLost, GoWait,
           ChangeTeam, LeaveScreen, ComeBack, RematchButton, Stay, ReadyButton
  <2> QED  BY <1>1, <2>1, RowsKeptIfRoom, JoiningKeepsRows
<1>3. UNCHANGED <<sent, told>> /\ excused \subseteq excused' /\ (shown' = shown \/ shown' = NoTeam)
  <2>1. CASE LoadRooms \/ JoinCard \/ JoinByCode \/ HandlePost \/ JoinAnswered \/ PostLost
    BY <2>1 DEF LoadRooms, JoinCard, JoinByCode, Ask, HandlePost, JoinAnswered, PostLost, Still, Excuse
  <2>2. CASE GoWait \/ ChangeTeam \/ LeaveScreen \/ ComeBack \/ RematchButton
    BY <2>2 DEF GoWait, ChangeTeam, LeaveScreen, ComeBack, RematchButton, Stay
  <2>3. CASE \E t \in Task : ReadyButton(t)
    BY <2>3 DEF ReadyButton, client
  <2> QED  BY <2>1, <2>2, <2>3
<1> QED  BY <1>1, <1>2, <1>3, HeldKept

LEMMA LinkHeld ==
    ASSUME HeldInv, Drop \/ Reconnect \/ Expire \/ Joined \/ JoinRejected
    PROVE  HeldInv'
<1>1. ScreenInv' /\ ScreenInv
  BY LinkTyped DEF HeldInv
<1>2. CASE Reconnect \/ Joined \/ JoinRejected
  <2>1. UNCHANGED room \/ Join(Me)
    BY <1>2 DEF Reconnect, Joined, JoinRejected
  <2>2. RowsKept
    BY <1>1, <2>1, RowsKeptIfRoom, JoiningKeepsRows
  <2> QED  BY <1>1, <1>2, <2>2, HeldKept DEF Reconnect, Joined, JoinRejected
<1>3. CASE Expire
  <2>1. UNCHANGED <<sent, task>> /\ excused' = excused \cup Kind /\ starter'[Me] = None
    BY <1>3, MeIsHuman DEF Expire, Excuse, Unseat, Wiped
  <2>2. MineOK' /\ OldExcused'
    BY <2>1 DEF HeldInv, TeamHeld, MineOK, OldExcused, Inserts, At
  <2> QED  BY <1>1, <2>1, <2>2, BothExcused
<1>4. CASE Drop
  <2>0. /\ UNCHANGED shown /\ RowsKept /\ told' = <<>>
        /\ excused' = excused \cup {k \in Kind : InFlight(k)}
        /\ DOMAIN sent = 1..Len(sent)
    BY <1>1, <1>4, RowsKeptIfRoom DEF Drop, Excuse, ScreenInv, WireOK
  <2>1. \A j \in 1..Len(sent') : \E i \in 1..Len(sent) : sent'[j].kind = sent[i].kind
    BY <1>1, <1>4, Lost DEF ScreenInv
  <2>2. MineOK'
    BY <2>0 DEF HeldInv, TeamHeld, MineOK, RowsKept
  <2>3. \A i \in 1..Len(sent) : sent[i].kind \in excused'
    BY <1>1, <2>0 DEF ScreenInv, WireOK, RequestOK, Request, InFlight
  <2>4. OldExcused'
    BY <2>1, <2>3 DEF OldExcused
  <2>5. \A k : k \notin excused' => SameOf(k)
    BY <2>1, <2>3 DEF SameOf, Of, One
  <2>6. StarterHeld'
    <3>1. CASE "starter" \in excused'
      BY <3>1 DEF StarterHeld
    <3>2. CASE "starter" \notin excused'
      <4>1. told = <<>> /\ "starter" \notin excused
        BY <2>0, <3>2 DEF InFlight, Kind
      <4> QED  BY <2>0, <2>5, <3>2, <4>1, StarterStays DEF RowsKept
    <3> QED  BY <3>1, <3>2
  <2>7. RosterHeld'
    <3>1. CASE "roster" \in excused'
      BY <3>1 DEF RosterHeld
    <3>2. CASE "roster" \notin excused'
      BY <2>0, <2>5, <3>2, RosterStays DEF RowsKept
    <3> QED  BY <3>1, <3>2
  <2> QED  BY <1>1, <2>2, <2>4, <2>6, <2>7 DEF HeldInv, TeamHeld
<1> QED  BY <1>2, <1>3, <1>4

LEMMA RoomHeld ==
    ASSUME HeldInv, RoomStep \/ WipeTeams
    PROVE  HeldInv'
<1>1. ScreenInv' /\ ScreenInv
  BY RoomTyped DEF HeldInv
<1>2. CASE RoomStep
  <2>1. UNCHANGED client
    BY <1>2 DEF RoomStep
  <2>2. ASSUME NEW t \in Inserts, InsertRoster(t)
        PROVE  HeldInv'
    BY <2>1, <2>2, InsertHeld
  <2>3. CASE \A t \in Inserts : ~InsertRoster(t)
    <3>1. RowsKept
      BY <1>1, <1>2, <2>3, OthersLeaveMine DEF MineKept, ScreenInv
    <3> QED  BY <1>1, <2>1, <3>1, HeldKept DEF client
  <2> QED  BY <2>2, <2>3
<1>3. CASE WipeTeams
  <2>0. PICK t \in Task : Advance(t)
    BY <1>3 DEF WipeTeams
  <2>1. UNCHANGED sent /\ excused' = excused \cup Kind
    BY <1>3 DEF WipeTeams, Excuse
  <2>2. starter'[Me] = None
    BY <2>0, MeIsHuman DEF Advance, Wiped
  <2>3. Inserts' = Inserts /\ \A u \in Inserts : task'[u] = task[u]
    <3>1. End(t) /\ ~At(t, "insert")
      BY <2>0, MeIsHuman DEF Advance, At
    <3> QED  BY <1>1, <3>1, TasksKept DEF ScreenInv
  <2>4. MineOK' /\ OldExcused'
    BY <2>1, <2>2, <2>3 DEF HeldInv, TeamHeld, MineOK, OldExcused
  <2> QED  BY <1>1, <2>1, <2>4, BothExcused
<1> QED  BY <1>2, <1>3

LEMMA HeldStarts == ScreenInit => HeldInv
<1> SUFFICES ASSUME ScreenInit PROVE HeldInv
  OBVIOUS
<1>1. ScreenInv
  BY ScreenStarts
<1>2. OldExcused
  BY DEF ScreenInit, OldExcused
<1>3. MineOK
  <2>1. starter[Me] = None
    BY MeIsHuman DEF ScreenInit, Init
  <2>2. Inserts = {}
    BY DEF ScreenInit, Init, Idle, Inserts, At
  <2> QED  BY <2>1, <2>2 DEF MineOK
<1>4. "starter" \in excused /\ "roster" \in excused
  BY DEF ScreenInit, Kind
<1>5. StarterHeld /\ RosterHeld
  BY <1>4 DEF StarterHeld, RosterHeld
<1> QED  BY <1>1, <1>2, <1>3, <1>5 DEF HeldInv, TeamHeld

LEMMA HeldStep == HeldInv /\ [ScreenNext]_<<vars, client>> => HeldInv'
<1> SUFFICES ASSUME HeldInv, [ScreenNext]_<<vars, client>> PROVE HeldInv'
  OBVIOUS
<1>1. CASE UNCHANGED <<vars, client>>
  <2>1. ScreenInv' /\ RowsKept
    BY <1>1, ScreenTyped, RowsKeptIfRoom DEF HeldInv, vars, room
  <2> QED  BY <1>1, <2>1, HeldKept DEF client
<1>2. CASE ScreenNext
  BY <1>2, PicksHeld, HearHeld, StarterHandled, RosterHandled, FailureHeld, ScreensHeld, LinkHeld,
     RoomHeld DEF ScreenNext
<1> QED  BY <1>1, <1>2

\* What a guest is shown as picked and no request is out for is what the room
\* holds for the guest, so what the next duel is seeded with, though picks are
\* not acknowledged and their handlers run in any order: the five excuses are
\* all there are (TeamSelectScreen, team:select_starter, team:select_roster).
THEOREM ShownIsHeld == ScreenSpec => []ShownTeamIsHeld
<1>1. HeldInv => ShownTeamIsHeld
  <2> SUFFICES ASSUME HeldInv, NEW k \in Kind, k \notin excused, ~Outstanding(k), Complete(k)
               PROVE  IF k = "starter" THEN starter[Me] = shown.starter ELSE roster[Me] = shown.roster
    BY DEF ShownTeamIsHeld
  <2>0. DOMAIN sent = 1..Len(sent)
    BY DEF HeldInv, ScreenInv, WireOK
  <2>1. CASE k = "starter"
    <3>1. Of("starter") = {} /\ told = <<>> /\ shown.starter # None
      BY <2>0, <2>1 DEF Outstanding, InFlight, Complete, Of
    <3> QED  BY <2>1, <3>1 DEF HeldInv, TeamHeld, StarterHeld
  <2>2. CASE k = "roster"
    <3>1. Of("roster") = {} /\ Inserts = {}
      BY <2>0, <2>2 DEF Outstanding, InFlight, Inserting, Inserts, Of
    <3> QED  BY <2>2, <3>1 DEF HeldInv, TeamHeld, RosterHeld
  <2> QED  BY <2>1, <2>2 DEF Kind
<1> QED  BY <1>1, HeldStarts, HeldStep, PTL DEF ScreenSpec
===========================================================================
