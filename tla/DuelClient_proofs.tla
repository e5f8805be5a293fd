------------------------- MODULE DuelClient_proofs -------------------------
(***************************************************************************)
(* What the player is shown of a duel, for every number of duels, faults,  *)
(* requests and pushes in flight: one of their own, and when it is over    *)
(* the winner that the server wrote.                                       *)
(***************************************************************************)
EXTENDS DuelClient, FiniteSetTheorems, SequenceTheorems, TLAPS

---------------------------------------------------------------------------
(* What is always true of the rows, of what is on its way and of the client. *)

\* A duel that has a winner is over.
Rows(ds) == ds \in Seq(DuelRow) /\ \A d \in 1..Len(ds) : ds[d].winner # "none" => ds[d].over

Exists(ds, id) == id \in 1..Len(ds)
Mine(ds, id)   == Exists(ds, id) /\ ds[id].mine

\* winner is what the player may be shown of that duel, now and later.
Truth(ds, id, winner) == winner # "none" => ds[id].over /\ winner = ds[id].winner

SnapState == [winner : Winners, active : Mon \cup {NoMon}, fainted : SUBSET Mon, rival : BOOLEAN]
Told(ds, id, snap) == Mine(ds, id) /\ snap \in SnapState /\ Truth(ds, id, snap.winner)

Plain == {"room:state", "duel:switch_rejected", "tournament:bracket", "room:final_ranking",
          "room:aborted", "room:join_rejected"}
PushOK(ds, p) ==
    \/ p.type \in Plain
    \/ p.type = "duel:start" /\ Exists(ds, p.id)
    \/ p.type \in {"duel:state", "duel:turn_resolved"} /\ Told(ds, p.id, p.snap)
    \/ p.type = "duel:finished" /\ Exists(ds, p.id) /\ ds[p.id].over /\ p.winner = ds[p.id].winner
Inbox(ds, box) == (\E S : box \in Seq(S)) /\ \A i \in 1..Len(box) : PushOK(ds, box[i])

Answering(ds, A) == \A a \in A : a = [id |-> a.id, snap |-> a.snap] /\ Told(ds, a.id, a.snap)

Request == [type : {"room:join", "room:ready", "duel:join", "duel:select_lead",
                    "duel:switch_decision", "duel:surrender"},
            id : Nat, mon : Mon \cup {NoMon}]

\* What the store may hold.
Shows(ds, s) ==
    /\ s \in MockState
    /\ {s.duel.id, s.pending} \subseteq 1..Len(ds) \cup {NoDuel}
    /\ HasDuel(s) => ds[s.duel.id].mine
    /\ HasDuel(s) /\ Over(s) => ds[s.duel.id].over /\ s.duel.winner = ds[s.duel.id].winner

Component == [screen : Screen, asked : Nat, swap : Mon \cup {NoMon},
              synced : BOOLEAN, pulled : BOOLEAN]
IsUi(u) == u \in Component /\ (u.swap # NoMon => u.screen \in Swap)

ServerInv ==
    /\ mode \in Modes
    /\ status \in {"waiting", "in_progress", "finished", "aborted", "gone"}
    /\ ready \in BOOLEAN
    /\ Rows(duels) /\ Len(duels) <= MaxDuels
    /\ status = "waiting" => Len(duels) = 0
    /\ forfeit \in 1..Len(duels) \cup {NoDuel}
    /\ faults \in 0..MaxFaults
WireInv ==
    /\ Answering(duels, answers) /\ IsFiniteSet(answers) /\ Cardinality(answers) <= MaxAnswers
    /\ subscribed \subseteq {d \in 1..Len(duels) : duels[d].mine}
    /\ inRoom \in BOOLEAN
    /\ sock \in {"on", "off", "null"}
    /\ sock # "on" => answers = {} /\ subscribed = {} /\ ~inRoom /\ inbox = <<>>
    /\ sent \in Seq(Request)
    /\ Inbox(duels, inbox)
ScreenInv == Shows(duels, store) /\ IsUi(ui)
ClientInv == ServerInv /\ WireInv /\ ScreenInv

---------------------------------------------------------------------------
(* Sequences of pushes *)

LEMMA InboxEmpty == \A ds : Inbox(ds, <<>>)
BY DEF Inbox

LEMMA InboxConcat ==
    ASSUME NEW ds, NEW a, NEW b, Inbox(ds, a), Inbox(ds, b)
    PROVE  Inbox(ds, a \o b)
<1>1. PICK S : a \in Seq(S)
  BY DEF Inbox
<1>2. PICK T : b \in Seq(T)
  BY DEF Inbox
<1>3. a \in Seq(S \cup T) /\ b \in Seq(S \cup T)
  BY <1>1, <1>2
<1>4. /\ a \o b \in Seq(S \cup T)
      /\ Len(a \o b) = Len(a) + Len(b) /\ Len(a) \in Nat /\ Len(b) \in Nat
      /\ \A i \in 1..Len(a) + Len(b) : (a \o b)[i] = IF i <= Len(a) THEN a[i] ELSE b[i - Len(a)]
  BY <1>3, ConcatProperties, LenProperties
<1>5. ASSUME NEW i \in 1..Len(a \o b)
      PROVE  PushOK(ds, (a \o b)[i])
  <2>1. CASE i <= Len(a)
    BY <1>4, <1>5, <2>1 DEF Inbox
  <2>2. CASE ~(i <= Len(a))
    <3>1. i - Len(a) \in 1..Len(b) /\ (a \o b)[i] = b[i - Len(a)]
      BY <1>4, <1>5, <2>2
    <3> QED  BY <3>1 DEF Inbox
  <2> QED  BY <2>1, <2>2
<1> QED  BY <1>4, <1>5 DEF Inbox

LEMMA InboxOne ==
    ASSUME NEW ds, NEW p, PushOK(ds, p)
    PROVE  Inbox(ds, <<p>>)
<1> DEFINE a == <<p>>
<1>1. a \in Seq({p}) /\ Len(a) = 1 /\ a[1] = p
  OBVIOUS
<1> HIDE DEF a
<1>2. \A i \in 1..Len(a) : a[i] = p
  BY <1>1
<1>3. Inbox(ds, a)
  BY <1>1, <1>2 DEF Inbox
<1> QED  BY <1>3 DEF a

LEMMA InboxAppend ==
    ASSUME NEW ds, NEW a, NEW p, Inbox(ds, a), PushOK(ds, p)
    PROVE  Inbox(ds, Append(a, p))
<1>1. PICK S : a \in Seq(S)
  BY DEF Inbox
<1>2. a \in Seq(S \cup {p}) /\ p \in S \cup {p}
  BY <1>1
<1>3. Append(a, p) = a \o <<p>>
  BY <1>2, AppendIsConcat
<1> QED  BY <1>3, InboxOne, InboxConcat

LEMMA InboxTail ==
    ASSUME NEW ds, NEW a, Inbox(ds, a), a # <<>>
    PROVE  PushOK(ds, Head(a)) /\ Inbox(ds, Tail(a))
<1>1. PICK S : a \in Seq(S)
  BY DEF Inbox
<1>2. /\ Tail(a) \in Seq(S) /\ Len(Tail(a)) = Len(a) - 1 /\ Len(a) \in Nat /\ Len(a) # 0
      /\ \A i \in 1..Len(Tail(a)) : Tail(a)[i] = a[i + 1]
      /\ Head(a) = a[1]
  BY <1>1
<1>3. ASSUME NEW i \in 1..Len(Tail(a))
      PROVE  PushOK(ds, Tail(a)[i])
  <2>1. i + 1 \in 1..Len(a) /\ Tail(a)[i] = a[i + 1]
    BY <1>2, <1>3
  <2> QED  BY <2>1 DEF Inbox
<1>4. 1 \in 1..Len(a)
  BY <1>2
<1> QED  BY <1>2, <1>3, <1>4 DEF Inbox


---------------------------------------------------------------------------
(* The rows move on, and what was true of them stays true. *)

Later(ds, es) ==
    /\ Rows(es) /\ Len(ds) <= Len(es)
    /\ \A d \in 1..Len(ds) : /\ es[d].mine = ds[d].mine
                             /\ ds[d].over => es[d].over /\ es[d].winner = ds[d].winner

LEMMA RowsAreFinite ==
    ASSUME NEW ds, Rows(ds)
    PROVE  Len(ds) \in Nat /\ DOMAIN ds = 1..Len(ds) /\ \A d \in 1..Len(ds) : ds[d] \in DuelRow
BY DEF Rows

LEMMA LaterReflexive ==
    ASSUME NEW ds, Rows(ds)
    PROVE  Later(ds, ds)
BY RowsAreFinite DEF Later

LEMMA ToldLasts ==
    ASSUME NEW ds, NEW es, Rows(ds), Later(ds, es)
    PROVE  /\ \A id : Exists(ds, id) => Exists(es, id)
           /\ \A id : Mine(ds, id) => Mine(es, id)
           /\ \A id, w : Exists(ds, id) /\ Truth(ds, id, w) => Truth(es, id, w)
           /\ \A id, snap : Told(ds, id, snap) => Told(es, id, snap)
<1>1. Len(ds) \in Nat /\ Len(es) \in Nat /\ Len(ds) <= Len(es)
  BY RowsAreFinite DEF Later
<1>2. \A id : Exists(ds, id) => Exists(es, id)
  BY <1>1 DEF Exists
<1>3. \A id : Mine(ds, id) => Mine(es, id)
  BY <1>2 DEF Mine, Exists, Later
<1>4. \A id, w : Exists(ds, id) /\ Truth(ds, id, w) => Truth(es, id, w)
  BY DEF Truth, Exists, Later
<1> QED  BY <1>2, <1>3, <1>4 DEF Told, Mine

LEMMA PushLasts ==
    ASSUME NEW ds, NEW es, Rows(ds), Later(ds, es), NEW p, PushOK(ds, p)
    PROVE  PushOK(es, p)
<1>1. CASE p.type \in Plain
  BY <1>1 DEF PushOK
<1>2. CASE p.type = "duel:start" /\ Exists(ds, p.id)
  BY <1>2, ToldLasts DEF PushOK
<1>3. CASE p.type \in {"duel:state", "duel:turn_resolved"} /\ Told(ds, p.id, p.snap)
  BY <1>3, ToldLasts DEF PushOK
<1>4. CASE p.type = "duel:finished" /\ Exists(ds, p.id) /\ ds[p.id].over /\ p.winner = ds[p.id].winner
  <2>1. es[p.id].over /\ es[p.id].winner = ds[p.id].winner
    BY <1>4 DEF Exists, Later
  <2> QED  BY <1>4, <2>1, ToldLasts DEF PushOK
<1> QED  BY <1>1, <1>2, <1>3, <1>4 DEF PushOK

LEMMA WireLasts ==
    ASSUME NEW ds, NEW es, Rows(ds), Later(ds, es)
    PROVE  /\ \A box : Inbox(ds, box) => Inbox(es, box)
           /\ \A A : Answering(ds, A) => Answering(es, A)
           /\ \A s : Shows(ds, s) => Shows(es, s)
<1>1. \A box : Inbox(ds, box) => Inbox(es, box)
  BY PushLasts DEF Inbox
<1>2. \A A : Answering(ds, A) => Answering(es, A)
  BY ToldLasts DEF Answering
<1>3. ASSUME NEW s, Shows(ds, s)
      PROVE  Shows(es, s)
  <2>1. 1..Len(ds) \subseteq 1..Len(es)
    BY RowsAreFinite DEF Later
  <2>2. {s.duel.id, s.pending} \subseteq 1..Len(es) \cup {NoDuel}
    BY <1>3, <2>1 DEF Shows
  <2>3. HasDuel(s) => s.duel.id \in 1..Len(ds)
    BY <1>3 DEF Shows, HasDuel
  <2> QED  BY <1>3, <2>2, <2>3 DEF Shows, Later
<1> QED  BY <1>1, <1>2, <1>3

LEMMA OneRow ==
    ASSUME NEW ds, Rows(ds), NEW i \in 1..Len(ds), NEW r \in DuelRow, r.mine = ds[i].mine,
           ds[i].over => r.over /\ r.winner = ds[i].winner, r.winner # "none" => r.over
    PROVE  /\ Later(ds, [ds EXCEPT ![i] = r])
           /\ Len([ds EXCEPT ![i] = r]) = Len(ds)
           /\ [ds EXCEPT ![i] = r][i] = r
<1> DEFINE es == [ds EXCEPT ![i] = r]
<1>1. ds \in Seq(DuelRow) /\ Len(ds) \in Nat
  BY DEF Rows
<1>2. es \in Seq(DuelRow) /\ Len(es) = Len(ds)
  BY <1>1
<1>3. es[i] = r /\ \A d \in 1..Len(ds) \ {i} : es[d] = ds[d]
  BY <1>1
<1> HIDE DEF es
<1>4. Later(ds, es)
  BY <1>1, <1>2, <1>3 DEF Later, Rows
<1> QED  BY <1>2, <1>3, <1>4 DEF es

---------------------------------------------------------------------------
(* The store and the screens *)

LEMMA Requests ==
    /\ \A type \in {"room:join", "room:ready"} : Ask(type) \in Request
    /\ \A type \in {"duel:join", "duel:select_lead", "duel:switch_decision", "duel:surrender"} :
         \A id \in Nat : AskDuel(type, id) \in Request
    /\ store \in MockState =>
         \A type \in {"duel:select_lead", "duel:switch_decision", "duel:surrender"} :
           \A m \in Mon \cup {NoMon} : AskMon(type, m) \in Request
BY DEF Ask, AskDuel, AskMon, Request, NoDuel, MockState, DuelState

LEMMA OneRequest ==
    ASSUME NEW r \in Request
    PROVE  <<r>> \in Seq(Request)
OBVIOUS

\* What a duel of a snapshot is, and that it is over when it has a winner.
LEMMA SnapshotShown ==
    ASSUME NEW ds, NEW id, NEW snap, Told(ds, id, snap), Len(ds) \in Nat
    PROVE  /\ FromSnapshot(id, snap) \in DuelState
           /\ FromSnapshot(id, snap).id = id
           /\ FromSnapshot(id, snap).phase = "finished" =>
                ds[id].over /\ FromSnapshot(id, snap).winner = ds[id].winner
<1>1. id \in Nat /\ snap \in SnapState
  BY DEF Told, Mine, Exists
<1>2. Phase(snap) \in DuelPhase
  BY <1>1 DEF Phase, DuelPhase, SnapState
<1>3. Phase(snap) = "finished" => snap.winner # "none"
  BY DEF Phase
<1>4. FromSnapshot(id, snap) \in DuelState
  BY <1>1, <1>2 DEF FromSnapshot, DuelState, SnapState
<1> QED  BY <1>3, <1>4 DEF FromSnapshot, Told, Truth

\* The store with another duel, another pointer or other flags.
LEMMA OtherDuel ==
    ASSUME NEW ds, NEW s, Shows(ds, s), NEW d \in DuelState, d.id \in 1..Len(ds) \cup {NoDuel},
           d.id # NoDuel => ds[d.id].mine,
           d.id # NoDuel /\ d.phase = "finished" => ds[d.id].over /\ d.winner = ds[d.id].winner
    PROVE  Shows(ds, [s EXCEPT !.duel = d])
<1>1. /\ [s EXCEPT !.duel = d] \in MockState
      /\ [s EXCEPT !.duel = d].duel = d
      /\ [s EXCEPT !.duel = d].pending = s.pending
  BY DEF Shows, MockState
<1> HIDE DEF Shows
<1> QED  BY <1>1 DEF Shows, HasDuel, Over

LEMMA OtherPending ==
    ASSUME NEW ds, NEW s, Shows(ds, s), NEW id \in 1..Len(ds) \cup {NoDuel}, Len(ds) \in Nat
    PROVE  Shows(ds, [s EXCEPT !.pending = id])
<1>1. /\ [s EXCEPT !.pending = id] \in MockState
      /\ [s EXCEPT !.pending = id].duel = s.duel
      /\ [s EXCEPT !.pending = id].pending = id
  BY DEF Shows, MockState, NoDuel
<1> QED  BY <1>1 DEF Shows, HasDuel, Over

LEMMA OtherFlags ==
    ASSUME NEW ds, NEW s, Shows(ds, s)
    PROVE  /\ Shows(ds, [s EXCEPT !.room = TRUE])
           /\ Shows(ds, [s EXCEPT !.tournament = TRUE])
           /\ Shows(ds, [s EXCEPT !.ranking = TRUE])
           /\ Shows(ds, [s EXCEPT !.aborted = TRUE])
           /\ Shows(ds, [s EXCEPT !.aborted = FALSE])
BY DEF Shows, MockState, HasDuel, Over

LEMMA NoDuelShown ==
    /\ NullDuel \in DuelState /\ NullDuel.id = NoDuel
    /\ \A ds : Shows(ds, InitialState)
<1>1. NullDuel \in DuelState /\ NullDuel.id = NoDuel
  BY DEF NullDuel, DuelState, DuelPhase, Winners, NoDuel
<1>2. InitialState \in MockState /\ InitialState.duel.id = NoDuel /\ InitialState.pending = NoDuel
  BY <1>1 DEF InitialState, MockState, NoDuel
<1> QED  BY <1>1, <1>2 DEF Shows, HasDuel

\* Whatever push arrives, what the store holds of a duel is true of its row.
LEMMA Reduced ==
    ASSUME NEW ds, Rows(ds), NEW s, Shows(ds, s), NEW p, PushOK(ds, p)
    PROVE  Shows(ds, Reduce(s, p))
<1>0. Len(ds) \in Nat
  BY RowsAreFinite
<1>1. CASE p.type = "room:state"
  <2>1. Reduce(s, p) = RoomStateReceived(s)
    BY <1>1 DEF Reduce
  <2>2. Shows(ds, [s EXCEPT !.room = TRUE])
    BY OtherFlags
  <2> QED  BY <2>1, <2>2 DEF RoomStateReceived
<1>2. CASE p.type = "duel:start"
  <2>1. Reduce(s, p) = PendingDuelSet(s, p.id)
    BY <1>2 DEF Reduce
  <2>2. p.id \in 1..Len(ds) \cup {NoDuel}
    BY <1>2 DEF PushOK, Plain, Exists
  <2> QED  BY <1>0, <2>1, <2>2, OtherPending DEF PendingDuelSet
<1>3. ASSUME Told(ds, p.id, p.snap)
      PROVE  Shows(ds, DuelTurnResolved(s, p.id, p.snap))
  <2> DEFINE d == FromSnapshot(p.id, p.snap)
  <2>1. /\ d \in DuelState /\ d.id = p.id
        /\ d.phase = "finished" => ds[p.id].over /\ d.winner = ds[p.id].winner
    BY <1>0, <1>3, SnapshotShown
  <2>2. p.id \in 1..Len(ds) /\ ds[p.id].mine
    BY <1>3 DEF Told, Mine, Exists
  <2> HIDE DEF d
  <2>3. Shows(ds, [s EXCEPT !.duel = d])
    BY <2>1, <2>2, OtherDuel
  <2> QED  BY <2>3 DEF DuelTurnResolved, d
<1>4. CASE p.type = "duel:state"
  <2>1. Reduce(s, p) = DuelStateReceived(s, p.id, p.snap)
    BY <1>4 DEF Reduce
  <2>2. Told(ds, p.id, p.snap)
    BY <1>4 DEF PushOK, Plain
  <2> QED  BY <1>0, <1>3, <2>1, <2>2, OtherPending DEF DuelStateReceived
<1>5. CASE p.type = "duel:turn_resolved"
  <2>1. Reduce(s, p) = DuelTurnResolved(s, p.id, p.snap)
    BY <1>5 DEF Reduce
  <2>2. Told(ds, p.id, p.snap)
    BY <1>5 DEF PushOK, Plain
  <2> QED  BY <1>3, <2>1, <2>2
<1>6. CASE p.type = "duel:finished"
  <2>1. Reduce(s, p) = DuelFinished(s, p.id, p.winner)
    BY <1>6 DEF Reduce
  <2>2. Exists(ds, p.id) /\ ds[p.id].over /\ p.winner = ds[p.id].winner
    BY <1>6 DEF PushOK, Plain
  <2>3. CASE s.duel.id = NoDuel \/ s.duel.id # p.id
    BY <2>1, <2>3 DEF DuelFinished
  <2>4. CASE s.duel.id # NoDuel /\ s.duel.id = p.id
    <3> DEFINE d == [s.duel EXCEPT !.phase = "finished", !.winner = p.winner]
    <3>1. p.winner \in Winners /\ s.duel \in DuelState
      BY <2>2, RowsAreFinite DEF Exists, DuelRow, Shows, MockState
    <3>2. d \in DuelState /\ d.id = p.id /\ d.winner = p.winner
      BY <2>4, <3>1 DEF DuelState, DuelPhase
    <3>3. ds[p.id].mine /\ p.id \in 1..Len(ds)
      BY <2>4 , <2>2 DEF Shows, HasDuel, Exists
    <3>4. Reduce(s, p) = [s EXCEPT !.duel = d]
      BY <2>1, <2>4, <3>1 DEF DuelFinished, Shows, MockState, DuelState
    <3> HIDE DEF d
    <3> QED  BY <2>2, <3>2, <3>3, <3>4, OtherDuel
  <2> QED  BY <2>3, <2>4
<1>7. CASE p.type = "duel:switch_rejected"
  BY <1>7 DEF Reduce, DuelSwitchRejected
<1>8. CASE p.type = "tournament:bracket"
  <2>1. Reduce(s, p) = TournamentBracket(s)
    BY <1>8 DEF Reduce
  <2>2. Shows(ds, [s EXCEPT !.tournament = TRUE])
    BY OtherFlags
  <2> QED  BY <2>1, <2>2 DEF TournamentBracket
<1>9. CASE p.type = "room:final_ranking"
  <2>1. Reduce(s, p) = RoomFinalRanking(s)
    BY <1>9 DEF Reduce
  <2>2. Shows(ds, [s EXCEPT !.ranking = TRUE])
    BY OtherFlags
  <2> QED  BY <2>1, <2>2 DEF RoomFinalRanking
<1>10. CASE p.type = "room:aborted"
  <2>1. Reduce(s, p) = RoomAborted(s)
    BY <1>10 DEF Reduce
  <2>2. Shows(ds, [s EXCEPT !.aborted = TRUE])
    BY OtherFlags
  <2> QED  BY <2>1, <2>2 DEF RoomAborted
<1>11. CASE p.type = "room:join_rejected"
  <2>1. Reduce(s, p) = RoomJoinRejected(s)
    BY <1>11 DEF Reduce
  <2>2. RoomJoinRejected(s) \in MockState /\ RoomJoinRejected(s).duel = NullDuel
        /\ RoomJoinRejected(s).pending = NoDuel
    BY NoDuelShown DEF RoomJoinRejected, Shows, MockState, NoDuel
  <2> QED  BY <2>1, <2>2, NoDuelShown DEF Shows, HasDuel
<1> QED
  <2>1. p.type \in Plain \cup {"duel:start", "duel:state", "duel:turn_resolved", "duel:finished"}
    BY DEF PushOK
  <2> QED  BY <1>1, <1>2, <1>4, <1>5, <1>6, <1>7, <1>8, <1>9, <1>10, <1>11, <2>1 DEF Plain

LEMMA FreshIsUi ==
    ASSUME NEW screen \in Screen
    PROVE  IsUi(Fresh(screen)) /\ Fresh(screen).screen = screen
BY DEF Fresh, IsUi, Component, NoDuel, NoMon

LEMMA ArrivalIsScreen ==
    ASSUME NEW s, NEW screen \in Screen
    PROVE  Arrival(s, screen) \in Screen
<1>1. FromWait(s) \in Screen
  BY DEF FromWait, Screen
<1>2. FromBoard(s) \in Screen
  <2>1. \/ FromBoard(s) = FromWait(s) \/ FromBoard(s) = "forced"
        \/ FromBoard(s) = "ranking" \/ FromBoard(s) = "duel"
    BY DEF FromBoard
  <2> QED  BY <1>1, <2>1 DEF Screen
<1>3. \/ Arrival(s, screen) = FromBoard(s) \/ Arrival(s, screen) = FromWait(s)
      \/ Arrival(s, screen) = "ranking" \/ Arrival(s, screen) = "lobby"
      \/ Arrival(s, screen) = screen
  BY DEF Arrival
<1> QED  BY <1>1, <1>2, <1>3 DEF Screen

LEMMA SettledIsUi ==
    ASSUME NEW s, NEW u, IsUi(u), NEW screen \in Screen, NEW push
    PROVE  IsUi(Settled(s, u, screen, push))
<1>1. CASE screen = u.screen
  <2>1. Trapped(s, u) \in BOOLEAN /\ Refused(s, u, push) \in BOOLEAN
    BY DEF Trapped, Refused
  <2>2. PICK w : /\ w \in {u.swap, NoMon}
                 /\ Settled(s, u, screen, push) =
                      [u EXCEPT !.swap = w, !.pulled = @ /\ ~Refused(s, u, push),
                                !.synced = @ \/ Trapped(s, u)]
    BY <1>1 DEF Settled
  <2>3. /\ Settled(s, u, screen, push) \in Component
        /\ Settled(s, u, screen, push).screen = u.screen
        /\ Settled(s, u, screen, push).swap = w
    BY <2>1, <2>2 DEF IsUi, Component, NoMon
  <2> QED  BY <2>2, <2>3 DEF IsUi
<1>2. CASE screen # u.screen
  <2>1. Settled(s, u, screen, push) = [Fresh(screen) EXCEPT !.synced = Trapped(s, Fresh(screen))]
    BY <1>2 DEF Settled
  <2>2. Trapped(s, Fresh(screen)) \in BOOLEAN
    BY DEF Trapped
  <2> QED  BY <2>1, <2>2, FreshIsUi DEF IsUi, Component
<1> QED  BY <1>1, <1>2

LEMMA JoinIsAsked ==
    ASSUME NEW s, s \in MockState
    PROVE  /\ \A screen : MountJoin(s, screen) \in Seq(Request)
           /\ \A u : TrappedJoin(s, u) \in Seq(Request)
<1>1. s.duel.id \in Nat
  BY DEF MockState, DuelState
<1>2. AskDuel("duel:join", s.duel.id) \in Request
  BY <1>1, Requests
<1>3. <<AskDuel("duel:join", s.duel.id)>> \in Seq(Request) /\ <<>> \in Seq(Request)
  BY <1>2, OneRequest
<1> QED  BY <1>3 DEF MountJoin, TrappedJoin

\* A step of the client keeps the screens sane, whatever it does to the store.
LEMMA Rendered ==
    ASSUME NEW s, Shows(duels, s), NEW u, IsUi(u), NEW requests \in Seq(Request), NEW push,
           sent \in Seq(Request), Render(s, u, requests, push)
    PROVE  Shows(duels, store') /\ IsUi(ui') /\ sent' \in Seq(Request)
<1> DEFINE opened == OpensBoard(s, u, push)
           from   == IF opened THEN Fresh("duel") ELSE u
           screen == Arrival(s, IF opened THEN "duel" ELSE u.screen)
           joins  == IF opened THEN MountJoin(s, "duel") ELSE <<>>
           traps  == TrappedJoin(s, IF opened \/ screen # u.screen THEN Fresh(screen) ELSE u)
<1>1. /\ store' = s
      /\ ui' = Settled(s, from, screen, push)
      /\ Emit(requests \o joins \o traps)
  BY DEF Render
<1>2. IsUi(from)
  BY FreshIsUi DEF Screen
<1>3. screen \in Screen
  BY ArrivalIsScreen DEF IsUi, Component, Screen
<1>4. joins \in Seq(Request) /\ traps \in Seq(Request)
  BY JoinIsAsked DEF Shows
<1> HIDE DEF opened, from, screen, joins, traps
<1>5. IsUi(ui')
  BY <1>1, <1>2, <1>3, SettledIsUi
<1>6. sent' \in Seq(Request)
  BY <1>1, <1>4 DEF Emit
<1> QED  BY <1>1, <1>5, <1>6

LEMMA Shown ==
    ASSUME NEW s, Shows(duels, s), NEW screen \in Screen, NEW requests \in Seq(Request),
           sent \in Seq(Request), Show(screen, s, requests)
    PROVE  Shows(duels, store') /\ IsUi(ui') /\ sent' \in Seq(Request)
<1>1. requests \o MountJoin(s, screen) \in Seq(Request)
  BY JoinIsAsked DEF Shows
<1> QED  BY <1>1, FreshIsUi, Rendered DEF Show

---------------------------------------------------------------------------
(* Steps, by what they may change *)

LEMMA SnapshotTold ==
    ASSUME NEW ds, Rows(ds), NEW id, Mine(ds, id)
    PROVE  /\ Told(ds, id, Snapshot(ds[id]))
           /\ PushOK(ds, State(id, ds[id]))
           /\ PushOK(ds, Turn(id, ds[id]))
<1>1. ds[id] \in DuelRow /\ (ds[id].winner # "none" => ds[id].over)
  BY DEF Rows, Mine, Exists
<1>2. Snapshot(ds[id]) \in SnapState /\ Snapshot(ds[id]).winner = ds[id].winner
  BY <1>1 DEF Snapshot, SnapState, DuelRow
<1>3. Told(ds, id, Snapshot(ds[id]))
  BY <1>1, <1>2 DEF Told, Truth
<1>4. /\ State(id, ds[id]).type = "duel:state" /\ State(id, ds[id]).id = id
      /\ State(id, ds[id]).snap = Snapshot(ds[id])
      /\ Turn(id, ds[id]).type = "duel:turn_resolved" /\ Turn(id, ds[id]).id = id
      /\ Turn(id, ds[id]).snap = Snapshot(ds[id])
  BY DEF State, Turn
<1> QED  BY <1>3, <1>4 DEF PushOK

\* Nothing is pushed to a player whose socket is gone.
Box(ds, box) == Inbox(ds, box) /\ (sock # "on" => box = <<>>)

LEMMA BoxesJoined ==
    ASSUME NEW ds, NEW a, NEW b, Box(ds, a), Box(ds, b)
    PROVE  Box(ds, a \o b)
<1>1. <<>> \o <<>> = <<>>
  OBVIOUS
<1> QED  BY <1>1, InboxConcat DEF Box

LEMMA Pushed ==
    ASSUME ClientInv, NEW ds, NEW p, PushOK(ds, p)
    PROVE  Box(ds, <<>>) /\ Box(ds, ToRoom(p)) /\ \A id : Box(ds, ToDuel(id, p))
BY InboxOne, InboxEmpty DEF ToRoom, ToDuel, ClientInv, WireInv, Box

LEMMA InboxStays ==
    ASSUME ClientInv, NEW ds, Later(duels, ds)
    PROVE  Box(ds, inbox)
BY WireLasts DEF ClientInv, ServerInv, WireInv, Box

LEMMA ServerMoves ==
    ASSUME ServerInv, Rows(duels'), Len(duels') <= MaxDuels, UNCHANGED bounds, ready' \in BOOLEAN,
           status' \in {"waiting", "in_progress", "finished", "aborted", "gone"},
           status' = "waiting" => Len(duels') = 0,
           forfeit' \in 1..Len(duels') \cup {NoDuel}
    PROVE  ServerInv'
BY DEF ServerInv, MaxDuels, bounds

LEMMA WireMoves ==
    ASSUME ServerInv, WireInv, Later(duels, duels'), UNCHANGED <<sockets, sock>>,
           sent' \in Seq(Request), Box(duels', inbox')
    PROVE  WireInv'
<1>1. Rows(duels)
  BY DEF ServerInv
<1>2. Answering(duels', answers)
  BY <1>1, WireLasts DEF WireInv
<1>3. Inbox(duels', inbox') /\ (sock' # "on" => inbox' = <<>>)
  BY DEF Box
<1>4. subscribed' \subseteq {d \in 1..Len(duels') : duels'[d].mine}
  BY <1>1, RowsAreFinite DEF WireInv, Later, sockets
<1> QED  BY <1>2, <1>3, <1>4 DEF WireInv, sockets

LEMMA ScreenStays ==
    ASSUME ServerInv, ScreenInv, Later(duels, duels'), UNCHANGED client
    PROVE  ScreenInv'
BY WireLasts DEF ServerInv, ScreenInv, client

\* A step of the server on its rows, and what it pushes.
LEMMA ServerStep ==
    ASSUME ClientInv, Later(duels, duels'), Len(duels') <= MaxDuels, ready' \in BOOLEAN,
           status' \in {"waiting", "in_progress", "finished", "aborted", "gone"},
           status' = "waiting" => Len(duels') = 0,
           forfeit' \in 1..Len(duels') \cup {NoDuel},
           Box(duels', inbox'),
           sent' \in Seq(Request), UNCHANGED <<sockets, sock, client, bounds>>
    PROVE  ClientInv'
<1>1. ServerInv'
  BY ServerMoves DEF ClientInv, Later
<1>2. WireInv'
  BY WireMoves DEF ClientInv
<1>3. ScreenInv'
  BY ScreenStays DEF ClientInv
<1> QED  BY <1>1, <1>2, <1>3 DEF ClientInv

\* One duel changes and stays what it is.
LEMMA RowStep ==
    ASSUME ClientInv, NEW i \in 1..Len(duels), NEW r \in DuelRow,
           duels' = [duels EXCEPT ![i] = r], r.mine = duels[i].mine,
           duels[i].over => r.over /\ r.winner = duels[i].winner, r.winner # "none" => r.over,
           ready' \in BOOLEAN, forfeit' \in {forfeit, NoDuel}, UNCHANGED status,
           Box(duels', inbox'),
           sent' \in Seq(Request), UNCHANGED <<sockets, sock, client, bounds>>
    PROVE  ClientInv'
<1>1. Later(duels, duels') /\ Len(duels') = Len(duels)
  BY OneRow DEF ClientInv, ServerInv
<1>2. /\ Len(duels') <= MaxDuels /\ forfeit' \in 1..Len(duels') \cup {NoDuel}
      /\ status' \in {"waiting", "in_progress", "finished", "aborted", "gone"}
      /\ status' = "waiting" => Len(duels') = 0
  BY <1>1 DEF ClientInv, ServerInv
<1> QED  BY <1>1, <1>2, ServerStep

\* A step of the client alone.
LEMMA StaysKeeps ==
    ASSUME ClientInv, Stays, Shows(duels, store'), IsUi(ui'), sent' \in Seq(Request)
    PROVE  ClientInv'
<1>1. UNCHANGED <<server, answers, subscribed, inRoom, sock, inbox, bounds>>
  BY DEF Stays, sockets
<1>2. ServerInv'
  BY <1>1 DEF ClientInv, ServerInv, server, bounds, MaxDuels
<1>3. WireInv'
  BY <1>1 DEF ClientInv, WireInv, server
<1>4. ScreenInv'
  BY <1>1 DEF ScreenInv, server
<1> QED  BY <1>2, <1>3, <1>4 DEF ClientInv

\* The socket is gone and everything under way with it.
LEMMA CutKeeps ==
    ASSUME ClientInv, NEW after \in {"off", "null"}, Cut(after), Shows(duels, store'), IsUi(ui'),
           sent' \in Seq(Request), mode' = mode, faults' \in 0..MaxFaults
    PROVE  ClientInv'
<1>1. UNCHANGED <<status, ready, duels, mode>>
  BY DEF Cut
<1>2. forfeit' \in 1..Len(duels) \cup {NoDuel}
  <2>1. DOMAIN duels = 1..Len(duels)
    BY RowsAreFinite DEF ClientInv, ServerInv
  <2>2. CASE \E d \in Live : duels[d].mine
    <3>1. (CHOOSE d \in Live : duels[d].mine) \in Live
      BY <2>2
    <3> QED  BY <2>1, <2>2, <3>1 DEF Cut, Live
  <2>3. CASE ~\E d \in Live : duels[d].mine
    BY <2>3 DEF Cut, ClientInv, ServerInv
  <2> QED  BY <2>2, <2>3
<1>3. ServerInv'
  BY <1>1, <1>2 DEF ClientInv, ServerInv, MaxDuels
<1>4. /\ IsFiniteSet({}) /\ Cardinality({}) = 0 /\ MaxAnswers \in Nat
      /\ Inbox(duels, <<>>) /\ Answering(duels, {})
  BY FS_EmptySet, InboxEmpty, ClientAssumption DEF Answering
<1>5. WireInv'
  <2>1. /\ sock' = after /\ inbox' = <<>> /\ answers' = {} /\ subscribed' = {} /\ inRoom' = FALSE
        /\ duels' = duels
    BY <1>1 DEF Cut
  <2>2. Answering(duels', answers') /\ Inbox(duels', inbox')
    BY <1>4, <2>1
  <2>3. IsFiniteSet(answers') /\ Cardinality(answers') <= MaxAnswers
    BY <1>4, <2>1
  <2>4. sock' \in {"on", "off", "null"} /\ subscribed' \subseteq {d \in 1..Len(duels') : duels'[d].mine}
    BY <2>1
  <2>5. /\ inRoom' \in BOOLEAN
        /\ sock' # "on" => answers' = {} /\ subscribed' = {} /\ ~inRoom' /\ inbox' = <<>>
    BY <2>1
  <2> QED  BY <2>2, <2>3, <2>4, <2>5 DEF WireInv
<1>6. ScreenInv'
  BY <1>1 DEF ScreenInv
<1> QED  BY <1>3, <1>5, <1>6 DEF ClientInv

---------------------------------------------------------------------------
(* What the client does *)

LEMMA ClientMoves ==
    ASSUME ClientInv, Connect \/ Drop \/ Reload \/ Deliver
    PROVE  ClientInv'
<1>0. /\ Shows(duels, store) /\ store \in MockState /\ IsUi(ui) /\ ui.screen \in Screen
      /\ sent \in Seq(Request) /\ Rows(duels) /\ Inbox(duels, inbox)
  BY DEF ClientInv, ScreenInv, Shows, IsUi, Component, WireInv, ServerInv
<1>1. CASE Connect
  <2>1. store.duel.id \in Nat
    BY <1>0 DEF MockState, DuelState
  <2>2. Ask("room:join") \in Request /\ AskDuel("duel:join", store.duel.id) \in Request
    BY <2>1, Requests
  <2>3. Resync \in Seq(Request)
    BY <2>2 DEF Resync
  <2>4. sent' \in Seq(Request)
    BY <1>0, <1>1, <2>3 DEF Connect
  <2>5. ServerInv' /\ ScreenInv'
    BY <1>1 DEF Connect, ClientInv, ServerInv, ScreenInv, server, client, bounds, MaxDuels
  <2>6. WireInv'
    BY <1>1, <2>4 DEF Connect, ClientInv, WireInv, server, sockets
  <2> QED  BY <2>5, <2>6 DEF ClientInv
<1>2. CASE Drop
  <2>1. Shows(duels, store') /\ IsUi(ui') /\ mode' = mode
    BY <1>0, <1>2 DEF Drop, client
  <2>2. sent' \in Seq(Request)
    BY <1>2 DEF Drop
  <2>3. faults' \in 0..MaxFaults
    BY <1>2, ClientAssumption DEF Drop, ClientInv, ServerInv
  <2> QED  BY <1>2, <2>1, <2>2, <2>3, CutKeeps DEF Drop
<1>3. CASE Reload
  <2>1. Shows(duels, store') /\ IsUi(ui') /\ mode' = mode
    BY <1>0, <1>3, FreshIsUi DEF Reload
  <2>2. sent' \in Seq(Request)
    BY <1>0, <1>3, JoinIsAsked DEF Reload
  <2>3. faults' \in 0..MaxFaults
    BY <1>3, ClientAssumption DEF Reload, ClientInv, ServerInv
  <2> QED  BY <1>3, <2>1, <2>2, <2>3, CutKeeps DEF Reload
<1>4. CASE Deliver
  <2>1. PushOK(duels, Head(inbox)) /\ Inbox(duels, Tail(inbox))
    BY <1>0, <1>4, InboxTail DEF Deliver
  <2>2. Shows(duels, Reduce(store, Head(inbox)))
    BY <1>0, <2>1, Reduced
  <2>3. Render(Reduce(store, Head(inbox)), ui, <<>>, Head(inbox).type)
    BY <1>4 DEF Deliver
  <2>4. Shows(duels, store') /\ IsUi(ui') /\ sent' \in Seq(Request)
    <3>1. <<>> \in Seq(Request)
      OBVIOUS
    <3> QED  BY <1>0, <2>2, <2>3, <3>1, Rendered
  <2>5. ServerInv'
    BY <1>4 DEF Deliver, ClientInv, ServerInv, server, bounds, MaxDuels
  <2>6. WireInv'
    BY <1>4, <2>1, <2>4 DEF Deliver, ClientInv, WireInv, server, sockets
  <2>7. ScreenInv'
    BY <1>4, <2>4 DEF Deliver, ScreenInv, server
  <2> QED  BY <2>5, <2>6, <2>7 DEF ClientInv
<1> QED  BY <1>1, <1>2, <1>3, <1>4

LEMMA ClicksKeep ==
    ASSUME ClientInv, Click
    PROVE  ClientInv'
<1>0. /\ Shows(duels, store) /\ store \in MockState /\ IsUi(ui) /\ ui \in Component
      /\ ui.screen \in Screen /\ sent \in Seq(Request) /\ <<>> \in Seq(Request)
      /\ Rows(duels) /\ store.duel.id \in Nat
  BY DEF ClientInv, ScreenInv, Shows, IsUi, Component, WireInv, ServerInv, MockState, DuelState
<1>1. CASE EnterRoom
  <2>1. Ask("room:join") \in Request
    BY Requests
  <2>2. <<Ask("room:join")>> \in Seq(Request)
    BY <2>1, OneRequest
  <2>3. /\ RoomShellReceived(store) \in MockState
        /\ RoomShellReceived(store).duel = NullDuel /\ RoomShellReceived(store).pending = NoDuel
    BY <1>0, NoDuelShown DEF RoomShellReceived, MockState, NoDuel
  <2>4. Shows(duels, RoomShellReceived(store))
    BY <2>3, NoDuelShown DEF Shows, HasDuel
  <2>5. Show("wait", RoomShellReceived(store), <<Ask("room:join")>>)
    BY <1>1 DEF EnterRoom
  <2>6. Shows(duels, store') /\ IsUi(ui') /\ sent' \in Seq(Request)
    BY <1>0, <2>2, <2>4, <2>5, Shown DEF Screen
  <2> QED  BY <1>1, <2>6, StaysKeeps DEF EnterRoom
<1>2. CASE GetReady
  <2>1. Ask("room:ready") \in Request
    BY Requests
  <2>2. <<Ask("room:ready")>> \in Seq(Request)
    BY <2>1, OneRequest
  <2>3. Shows(duels, store') /\ IsUi(ui') /\ sent' \in Seq(Request)
    BY <1>0, <1>2, <2>2, Rendered DEF GetReady
  <2> QED  BY <1>2, <2>3, StaysKeeps DEF GetReady
<1>3. CASE EnterDuel
  <2>1. store.pending \in Nat
    BY <1>0 DEF MockState
  <2>2. AskDuel("duel:join", store.pending) \in Request
    BY <2>1, Requests
  <2>3. <<AskDuel("duel:join", store.pending)>> \in Seq(Request)
    BY <2>2, OneRequest
  <2>4. IsUi([ui EXCEPT !.asked = store.pending])
    BY <1>0, <2>1 DEF IsUi, Component
  <2>5. Shows(duels, store') /\ IsUi(ui') /\ sent' \in Seq(Request)
    BY <1>0, <1>3, <2>3, <2>4, Rendered DEF EnterDuel
  <2> QED  BY <1>3, <2>5, StaysKeeps DEF EnterDuel
<1>4. CASE Rematch
  <2>1. /\ DuelCleared(store) \in MockState
        /\ DuelCleared(store).duel = NullDuel /\ DuelCleared(store).pending = NoDuel
    BY <1>0, NoDuelShown DEF DuelCleared, MockState, NoDuel
  <2>2. Shows(duels, DuelCleared(store))
    BY <2>1, NoDuelShown DEF Shows, HasDuel
  <2>3. Shows(duels, store') /\ IsUi(ui') /\ sent' \in Seq(Request)
    BY <1>0, <1>4, <2>2, Shown DEF Rematch, Screen
  <2> QED  BY <1>4, <2>3, StaysKeeps DEF Rematch
<1>5. CASE GoBack \/ OpenSwap \/ LeaveSwap \/ GoNow
  <2>1. PICK screen \in {"wait", "voluntary", "duel", "ranking"} : Show(screen, store, <<>>)
    BY <1>5 DEF GoBack, OpenSwap, LeaveSwap, GoNow
  <2>2. Shows(duels, store') /\ IsUi(ui') /\ sent' \in Seq(Request)
    BY <1>0, <2>1, Shown DEF Screen
  <2> QED  BY <1>5, <2>2, StaysKeeps DEF GoBack, OpenSwap, LeaveSwap, GoNow
<1>6. ASSUME NEW m \in Leads, PickLead(m)
      PROVE  ClientInv'
  <2>1. m \in Mon
    BY ClientAssumption DEF Mon
  <2>2. AskMon("duel:select_lead", m) \in Request
    BY <1>0, <2>1, Requests
  <2>3. <<AskMon("duel:select_lead", m)>> \in Seq(Request)
    BY <2>2, OneRequest
  <2>4. Shows(duels, DuelLeadSelection(store, m))
    <3>1. CASE store.duel.id = NoDuel \/ store.duel.phase # "lead_selection"
      BY <1>0, <3>1 DEF DuelLeadSelection
    <3>2. CASE ~(store.duel.id = NoDuel \/ store.duel.phase # "lead_selection")
      <4> DEFINE d == [store.duel EXCEPT !.active = m]
      <4>1. /\ d \in DuelState /\ d.id = store.duel.id /\ d.phase = store.duel.phase
            /\ d.winner = store.duel.winner
        BY <1>0, <2>1 DEF MockState, DuelState
      <4>2. DuelLeadSelection(store, m) = [store EXCEPT !.duel = d]
        BY <1>0, <3>2 DEF DuelLeadSelection, MockState, DuelState
      <4>3. /\ d.id \in 1..Len(duels) \cup {NoDuel}
            /\ d.id # NoDuel => duels[d.id].mine
            /\ d.phase # "finished"
        BY <1>0, <3>2, <4>1 DEF Shows, HasDuel
      <4> HIDE DEF d
      <4> QED  BY <1>0, <4>1, <4>2, <4>3, OtherDuel
    <3> QED  BY <3>1, <3>2
  <2>5. Shows(duels, store') /\ IsUi(ui') /\ sent' \in Seq(Request)
    BY <1>0, <1>6, <2>3, <2>4, Rendered DEF PickLead
  <2> QED  BY <1>6, <2>5, StaysKeeps DEF PickLead
<1>7. ASSUME NEW m \in Mon, ConfirmSwap(m)
      PROVE  ClientInv'
  <2>1. AskMon("duel:switch_decision", m) \in Request
    BY <1>0, Requests
  <2>2. <<AskMon("duel:switch_decision", m)>> \in Seq(Request)
    BY <2>1, OneRequest
  <2>3. ui.screen \in Swap
    BY <1>7 DEF ConfirmSwap, On
  <2>4. IsUi([ui EXCEPT !.swap = m, !.pulled = FALSE])
    BY <1>0, <2>3 DEF IsUi, Component
  <2>5. Shows(duels, store') /\ IsUi(ui') /\ sent' \in Seq(Request)
    BY <1>0, <1>7, <2>2, <2>4, Rendered DEF ConfirmSwap
  <2> QED  BY <1>7, <2>5, StaysKeeps DEF ConfirmSwap
<1>8. CASE Surrender
  <2>1. AskMon("duel:surrender", NoMon) \in Request
    BY <1>0, Requests
  <2>2. <<AskMon("duel:surrender", NoMon)>> \in Seq(Request)
    BY <2>1, OneRequest
  <2>3. Shows(duels, store') /\ IsUi(ui') /\ sent' \in Seq(Request)
    BY <1>0, <1>8, <2>2, Rendered DEF Surrender
  <2> QED  BY <1>8, <2>3, StaysKeeps DEF Surrender
<1>9. CASE PlayAgain
  <2>1. Shows(duels, store') /\ IsUi(ui')
    BY <1>9, NoDuelShown, FreshIsUi DEF PlayAgain, Screen
  <2>2. sent' \in Seq(Request) /\ mode' = mode /\ faults' \in 0..MaxFaults
    BY <1>9 DEF PlayAgain, bounds, ClientInv, ServerInv
  <2> QED  BY <1>9, <2>1, <2>2, CutKeeps DEF PlayAgain
<1>10. CASE AcknowledgeAborted
  <2>1. Shows(duels, RoomAbortedAcknowledged(store))
    BY <1>0, OtherFlags DEF RoomAbortedAcknowledged
  <2>2. Shows(duels, store') /\ IsUi(ui') /\ sent' \in Seq(Request)
    BY <1>0, <1>10, <2>1, Shown DEF AcknowledgeAborted, Screen
  <2> QED  BY <1>10, <2>2, StaysKeeps DEF AcknowledgeAborted
<1> QED  BY <1>1, <1>2, <1>3, <1>4, <1>5, <1>6, <1>7, <1>8, <1>9, <1>10 DEF Click

LEMMA TimersKeep ==
    ASSUME ClientInv, Timers
    PROVE  ClientInv'
<1>0. /\ Shows(duels, store) /\ IsUi(ui) /\ ui \in Component
      /\ sent \in Seq(Request) /\ <<>> \in Seq(Request) /\ store.duel.id \in Nat
  BY DEF ClientInv, ScreenInv, Shows, IsUi, WireInv, MockState, DuelState
<1>1. AskDuel("duel:join", store.duel.id) \in Request
  BY <1>0, Requests
<1>2. <<AskDuel("duel:join", store.duel.id)>> \in Seq(Request)
  BY <1>1, OneRequest
<1>3. IsUi([ui EXCEPT !.pulled = TRUE]) /\ IsUi([ui EXCEPT !.swap = NoMon, !.pulled = FALSE])
  BY <1>0 DEF IsUi, Component, NoMon
<1>4. Shows(duels, store') /\ IsUi(ui') /\ sent' \in Seq(Request)
  BY <1>0, <1>2, <1>3, Rendered DEF Timers, SwapPulls, SwapFails, PullRival
<1> QED  BY <1>4, StaysKeeps DEF Timers, SwapPulls, SwapFails, PullRival

---------------------------------------------------------------------------
(* What the server does *)

LEMMA NewDuelIsRow ==
    ASSUME NEW b \in BOOLEAN
    PROVE  /\ NewDuel(b) \in DuelRow /\ NewDuel(b).winner = "none"
           /\ NewDuel(b).mine = b
BY DEF NewDuel, DuelRow, Winners

LEMMA EndedIsRow ==
    ASSUME NEW row \in DuelRow, NEW winner \in {"me", "rival"}, NEW ko \in BOOLEAN
    PROVE  /\ Ended(row, winner, ko) \in DuelRow
           /\ Ended(row, winner, ko).over /\ Ended(row, winner, ko).mine = row.mine
           /\ Ended(row, winner, ko).winner = winner
<1>1. PICK e : e = [row EXCEPT !.over = TRUE, !.winner = winner, !.ko = ko]
  OBVIOUS
<1>2. e \in DuelRow /\ e.over /\ e.mine = row.mine /\ e.winner = winner
  BY <1>1 DEF DuelRow, Winners
<1>3. Ended(row, winner, ko) = [e EXCEPT !.phase = "none", !.marked = {}, !.rivalLost = FALSE]
  BY <1>1 DEF Ended
<1> QED  BY <1>2, <1>3 DEF DuelRow

\* New duels behind the old ones.
LEMMA RowsAppended ==
    ASSUME NEW ds, Rows(ds), NEW new \in Seq(DuelRow), Len(new) \in 1..2,
           \A i \in 1..Len(new) : new[i].winner = "none"
    PROVE  Later(ds, ds \o new) /\ Len(ds \o new) = Len(ds) + Len(new)
<1>1. ds \in Seq(DuelRow) /\ Len(ds) \in Nat /\ Len(new) \in Nat
  BY DEF Rows
<1>2. /\ ds \o new \in Seq(DuelRow) /\ Len(ds \o new) = Len(ds) + Len(new)
      /\ \A i \in 1..Len(ds) : (ds \o new)[i] = ds[i]
      /\ \A i \in Len(ds) + 1..Len(ds) + Len(new) : (ds \o new)[i] = new[i - Len(ds)]
  BY <1>1
<1>3. ASSUME NEW d \in 1..Len(ds \o new), (ds \o new)[d].winner # "none"
      PROVE  (ds \o new)[d].over
  <2>1. CASE d <= Len(ds)
    BY <1>1, <1>2, <1>3, <2>1 DEF Rows
  <2>2. CASE ~(d <= Len(ds))
    <3>1. d - Len(ds) \in 1..Len(new) /\ (ds \o new)[d] = new[d - Len(ds)]
      BY <1>1, <1>2, <1>3, <2>2
    <3> QED  BY <1>3, <3>1
  <2> QED  BY <2>1, <2>2
<1> QED  BY <1>1, <1>2, <1>3 DEF Later, Rows

LEMMA OneNewRow ==
    ASSUME NEW ds, Rows(ds), NEW r \in DuelRow, r.winner = "none"
    PROVE  /\ Later(ds, Append(ds, r)) /\ Len(Append(ds, r)) = Len(ds) + 1
<1> DEFINE new == <<r>>
<1>1. new \in Seq(DuelRow) /\ Len(new) = 1 /\ new[1] = r
  OBVIOUS
<1>2. Append(ds, r) = ds \o new
  BY AppendIsConcat DEF Rows
<1> HIDE DEF new
<1>3. \A i \in 1..Len(new) : new[i].winner = "none"
  BY <1>1
<1> QED  BY <1>1, <1>2, <1>3, RowsAppended

LEMMA TwoNewRows ==
    ASSUME NEW ds, Rows(ds), NEW q \in DuelRow, NEW r \in DuelRow,
           q.winner = "none", r.winner = "none"
    PROVE  /\ Later(ds, ds \o <<q, r>>) /\ Len(ds \o <<q, r>>) = Len(ds) + 2
<1> DEFINE new == <<q, r>>
<1>1. new \in Seq(DuelRow) /\ Len(new) = 2 /\ new[1] = q /\ new[2] = r
  OBVIOUS
<1> HIDE DEF new
<1>2. \A i \in 1..Len(new) : new[i].winner = "none"
  BY <1>1
<1>3. Len(new) \in 1..2
  BY <1>1
<1>4. Later(ds, ds \o new) /\ Len(ds \o new) = Len(ds) + Len(new)
  BY <1>1, <1>2, <1>3, RowsAppended
<1> QED  BY <1>1, <1>4 DEF new

LEMMA StartPushed ==
    ASSUME ClientInv, NEW ds, NEW id, Exists(ds, id)
    PROVE  Box(ds, Start(id))
<1> DEFINE p == [type |-> "duel:start", id |-> id]
<1>1. p.type = "duel:start" /\ p.id = id
  OBVIOUS
<1>2. Start(id) = ToRoom(p)
  BY DEF Start
<1> HIDE DEF p
<1>3. PushOK(ds, p)
  BY <1>1 DEF PushOK
<1> QED  BY <1>2, <1>3, Pushed

LEMMA PlainPush ==
    ASSUME NEW ds, NEW x \in Plain
    PROVE  PushOK(ds, [type |-> x])
<1> DEFINE p == [type |-> x]
<1>1. p.type \in Plain
  OBVIOUS
<1> HIDE DEF p
<1>2. PushOK(ds, p)
  BY <1>1 DEF PushOK
<1> QED  BY <1>2 DEF p

LEMMA BracketPushed ==
    ASSUME ClientInv, NEW ds
    PROVE  Box(ds, Bracket) /\ Box(ds, ToRoom([type |-> "room:final_ranking"]))
<1>1. /\ PushOK(ds, [type |-> "tournament:bracket"])
      /\ PushOK(ds, [type |-> "room:final_ranking"])
  BY PlainPush DEF Plain
<1> QED  BY <1>1, Pushed DEF Bracket

LEMMA NewDuels ==
    ASSUME ClientInv, StartDuel \/ OpenBracket \/ OpenFinals \/ CloseBracket
    PROVE  ClientInv'
<1>0. /\ Rows(duels) /\ Len(duels) \in Nat /\ sent \in Seq(Request)
      /\ forfeit \in 1..Len(duels) \cup {NoDuel} /\ ready \in BOOLEAN /\ Len(duels) <= MaxDuels
  BY RowsAreFinite DEF ClientInv, ServerInv, WireInv
<1>1. CASE StartDuel
  <2>1. Later(duels, duels') /\ Len(duels') = Len(duels) + 1
    BY <1>0, <1>1, OneNewRow, NewDuelIsRow DEF StartDuel
  <2>2. Box(duels', inbox')
    <3>1. Exists(duels', Len(duels) + 1)
      BY <1>0, <2>1 DEF Exists
    <3>2. Box(duels', inbox) /\ Box(duels', Start(Len(duels) + 1))
      BY <2>1, <3>1, StartPushed, InboxStays
    <3> QED  BY <1>1, <3>2, BoxesJoined DEF StartDuel
  <2>3. Len(duels') <= MaxDuels
    BY <1>0, <1>1, <2>1, ClientAssumption DEF StartDuel, MaxDuels
  <2>4. /\ forfeit' \in 1..Len(duels') \cup {NoDuel} /\ status' = "in_progress" /\ ready' = ready
        /\ UNCHANGED <<sockets, sock, sent, client, bounds>>
    BY <1>0, <1>1, <2>1 DEF StartDuel
  <2> QED  BY <1>0, <2>1, <2>2, <2>3, <2>4, ServerStep
<1>2. CASE OpenBracket
  <2>1. PICK mine \in 1..2 : duels' = [d \in 1..2 |-> NewDuel(d = mine)]
    BY <1>2 DEF OpenBracket
  <2>2. \A d \in 1..2 : NewDuel(d = mine) \in DuelRow /\ NewDuel(d = mine).winner = "none"
    BY NewDuelIsRow
  <2>3. duels' \in Seq(DuelRow) /\ Len(duels') = 2
    BY <2>1, <2>2, IsASeq, LenProperties
  <2>4. Len(duels) = 0
    BY <1>0, <1>2 DEF OpenBracket, ClientInv, ServerInv
  <2>5. Rows(duels')
    BY <2>1, <2>2, <2>3 DEF Rows
  <2>6. Later(duels, duels')
    BY <2>3, <2>4, <2>5 DEF Later
  <2>7. Exists(duels', 1) /\ Exists(duels', 2)
    BY <2>3 DEF Exists
  <2>8. Box(duels', inbox')
    <3>1. /\ Box(duels', inbox) /\ Box(duels', Bracket)
          /\ Box(duels', Start(1)) /\ Box(duels', Start(2))
      BY <2>6, <2>7, InboxStays, BracketPushed, StartPushed
    <3>2. Box(duels', inbox \o Bracket)
      BY <3>1, BoxesJoined
    <3>3. Box(duels', inbox \o Bracket \o Start(1))
      BY <3>1, <3>2, BoxesJoined
    <3>4. Box(duels', inbox \o Bracket \o Start(1) \o Start(2))
      BY <3>1, <3>3, BoxesJoined
    <3> QED  BY <1>2, <3>4 DEF OpenBracket
  <2>9. Len(duels') <= MaxDuels
    BY <1>2, <2>3 DEF OpenBracket, MaxDuels
  <2>10. /\ forfeit' \in 1..Len(duels') \cup {NoDuel} /\ status' = "in_progress" /\ ready' = ready
         /\ UNCHANGED <<sockets, sock, sent, client, bounds>>
    BY <1>0, <1>2, <2>3, <2>4 DEF OpenBracket
  <2> QED  BY <1>0, <2>6, <2>8, <2>9, <2>10, ServerStep
<1>3. CASE OpenFinals
  <2>1. PICK won \in BOOLEAN : duels' = duels \o <<NewDuel(won), NewDuel(~won)>>
    BY <1>3 DEF OpenFinals
  <2>2. Later(duels, duels') /\ Len(duels') = Len(duels) + 2 /\ Len(duels) = 2
    BY <1>0, <1>3, <2>1, TwoNewRows, NewDuelIsRow DEF OpenFinals
  <2>3. Exists(duels', 3) /\ Exists(duels', 4)
    BY <2>2 DEF Exists
  <2>4. Box(duels', inbox')
    <3>1. /\ Box(duels', inbox) /\ Box(duels', Bracket)
          /\ Box(duels', Start(3)) /\ Box(duels', Start(4))
      BY <2>2, <2>3, InboxStays, BracketPushed, StartPushed
    <3>2. Box(duels', inbox \o Bracket)
      BY <3>1, BoxesJoined
    <3>3. Box(duels', inbox \o Bracket \o Start(3))
      BY <3>1, <3>2, BoxesJoined
    <3>4. Box(duels', inbox \o Bracket \o Start(3) \o Start(4))
      BY <3>1, <3>3, BoxesJoined
    <3> QED  BY <1>3, <3>4 DEF OpenFinals
  <2>5. Len(duels') <= MaxDuels
    BY <1>3, <2>2 DEF OpenFinals, MaxDuels
  <2>6. /\ forfeit' \in 1..Len(duels') \cup {NoDuel} /\ status' = "in_progress" /\ ready' = ready
        /\ UNCHANGED <<sockets, sock, sent, client, bounds>>
    BY <1>0, <1>3, <2>2 DEF OpenFinals
  <2> QED  BY <1>0, <2>2, <2>4, <2>5, <2>6, ServerStep
<1>4. CASE CloseBracket
  <2>1. Later(duels, duels') /\ duels' = duels
    BY <1>0, <1>4, LaterReflexive DEF CloseBracket
  <2>2. Box(duels', inbox')
    <3>1. Box(duels', inbox) /\ Box(duels', ToRoom([type |-> "room:final_ranking"]))
      BY <2>1, InboxStays, BracketPushed
    <3> QED  BY <1>4, <3>1, BoxesJoined DEF CloseBracket
  <2>3. /\ forfeit' \in 1..Len(duels') \cup {NoDuel} /\ status' = "finished" /\ ready' = ready
        /\ Len(duels') <= MaxDuels /\ UNCHANGED <<sockets, sock, sent, client, bounds>>
    BY <1>0, <1>4, <2>1 DEF CloseBracket
  <2> QED  BY <1>0, <2>1, <2>2, <2>3, ServerStep
<1> QED  BY <1>1, <1>2, <1>3, <1>4

\* A duel of the player's goes on to row r, and perhaps they are told.
LEMMA RowPushed ==
    ASSUME ClientInv, NEW i, Mine(duels, i), NEW r \in DuelRow,
           duels' = [duels EXCEPT ![i] = r], r.mine = duels[i].mine,
           duels[i].over => r.over /\ r.winner = duels[i].winner, r.winner # "none" => r.over,
           \/ UNCHANGED inbox
           \/ inbox' = inbox \o ToDuel(i, State(i, r))
           \/ inbox' = inbox \o ToDuel(i, Turn(i, r)),
           sent' \in Seq(Request), forfeit' \in {forfeit, NoDuel},
           UNCHANGED <<status, ready, sockets, sock, client, bounds>>
    PROVE  ClientInv'
<1>0. ready' \in BOOLEAN
  BY DEF ClientInv, ServerInv
<1>1. i \in 1..Len(duels) /\ Rows(duels)
  BY DEF Mine, Exists, ClientInv, ServerInv
<1>2. Later(duels, duels') /\ Len(duels') = Len(duels) /\ duels'[i] = r
  <2>1. /\ Later(duels, [duels EXCEPT ![i] = r])
        /\ Len([duels EXCEPT ![i] = r]) = Len(duels) /\ [duels EXCEPT ![i] = r][i] = r
    BY <1>1, OneRow
  <2> QED  BY <2>1
<1>3. Rows(duels') /\ Mine(duels', i)
  BY <1>1, <1>2, ToldLasts DEF Later
<1>4. PushOK(duels', State(i, r)) /\ PushOK(duels', Turn(i, r))
  BY <1>2, <1>3, SnapshotTold
<1>5. Box(duels', inbox) /\ Box(duels', ToDuel(i, State(i, r))) /\ Box(duels', ToDuel(i, Turn(i, r)))
  BY <1>2, <1>4, InboxStays, Pushed
<1>6. Box(duels', inbox')
  BY <1>5, BoxesJoined
<1> QED  BY <1>0, <1>1, <1>6, RowStep

\* A row that goes on: the duel of the same player, with the same end.
Kept(row, r) == r \in DuelRow /\ r.mine = row.mine /\ r.over = row.over /\ r.winner = row.winner

LEMMA LeadRow ==
    ASSUME NEW row \in DuelRow, NEW m \in Mon \cup {NoMon}
    PROVE  Kept(row, [row EXCEPT !.active = m, !.marked = @ \cup {"me"},
                                 !.phase = IF row.marked = {"rival"} THEN "in_progress" ELSE @])
BY DEF DuelRow, Kept

LEMMA RivalLeadRow ==
    ASSUME NEW row \in DuelRow
    PROVE  Kept(row, [row EXCEPT !.rival = TRUE, !.marked = @ \cup {"rival"},
                                 !.phase = IF row.marked = {"me"} THEN "in_progress" ELSE @])
BY DEF DuelRow, Kept

LEMMA ActiveRow ==
    ASSUME NEW row \in DuelRow, NEW m \in Mon \cup {NoMon}
    PROVE  Kept(row, [row EXCEPT !.active = m])
BY DEF DuelRow, Kept

LEMMA FallenRow ==
    ASSUME NEW row \in DuelRow, row.active # NoMon
    PROVE  Kept(row, [row EXCEPT !.active = NoMon, !.fainted = @ \cup {row.active}])
BY DEF DuelRow, Kept

LEMMA RivalRow ==
    ASSUME NEW row \in DuelRow
    PROVE  /\ Kept(row, [row EXCEPT !.rival = TRUE])
           /\ Kept(row, [row EXCEPT !.rival = FALSE, !.rivalLost = TRUE])
           /\ Kept(row, [row EXCEPT !.told = TRUE, !.ko = FALSE])
BY DEF DuelRow, Kept

LEMMA RivalMoves ==
    ASSUME ClientInv, NEW d \in DOMAIN duels,
           RivalLead(d) \/ PlayerFalls(d) \/ RivalFalls(d) \/ RivalReplaces(d) \/ RivalGivesUp(d)
    PROVE  ClientInv'
<1>0. /\ d \in 1..Len(duels) /\ Rows(duels) /\ duels[d] \in DuelRow /\ sent \in Seq(Request)
      /\ duels[d].winner # "none" => duels[d].over
  BY RowsAreFinite DEF ClientInv, ServerInv, WireInv, Rows
<1>1. CASE RivalLead(d)
  <2> DEFINE both == duels[d].marked = {"me"}
             row  == [duels[d] EXCEPT !.rival = TRUE, !.marked = @ \cup {"rival"},
                                      !.phase = IF both THEN "in_progress" ELSE @]
  <2>1. Kept(duels[d], row)
    BY <1>0, RivalLeadRow
  <2>2. /\ Mine(duels, d) /\ duels' = [duels EXCEPT ![d] = row]
        /\ inbox' = IF both THEN inbox \o ToDuel(d, State(d, row)) ELSE inbox
        /\ UNCHANGED <<status, ready, forfeit, sockets, sock, sent, client, bounds>>
    BY <1>0, <1>1 DEF RivalLead, Mine, Exists
  <2> HIDE DEF row, both
  <2> QED  BY <1>0, <2>1, <2>2, RowPushed DEF Kept
<1>2. CASE PlayerFalls(d)
  <2> DEFINE row == [duels[d] EXCEPT !.active = NoMon, !.fainted = @ \cup {duels[d].active}]
             out == Ended(row, "rival", TRUE)
  <2>0. /\ Mine(duels, d) /\ ~duels[d].over /\ duels[d].active # NoMon
        /\ UNCHANGED <<status, ready, forfeit, sockets, sock, sent, client, bounds>>
    BY <1>0, <1>2 DEF PlayerFalls, Fighting, Live, Mine, Exists
  <2>1. Kept(duels[d], row)
    BY <1>0, <2>0, FallenRow
  <2>2. \/ duels' = [duels EXCEPT ![d] = row] /\ inbox' = inbox \o ToDuel(d, Turn(d, row))
        \/ duels' = [duels EXCEPT ![d] = out] /\ UNCHANGED inbox
    BY <1>2 DEF PlayerFalls
  <2> HIDE DEF row
  <2>3. out \in DuelRow /\ out.over /\ out.mine = row.mine
    BY <2>1, EndedIsRow DEF Kept
  <2> HIDE DEF out
  <2>4. CASE duels' = [duels EXCEPT ![d] = row] /\ inbox' = inbox \o ToDuel(d, Turn(d, row))
    <3>1. row \in DuelRow /\ row.mine = duels[d].mine /\ (row.winner # "none" => row.over)
      BY <1>0, <2>1 DEF Kept
    <3> QED  BY <1>0, <2>0, <2>4, <3>1, RowPushed
  <2>5. CASE duels' = [duels EXCEPT ![d] = out] /\ UNCHANGED inbox
    <3>1. out \in DuelRow /\ out.mine = duels[d].mine /\ out.over
      BY <2>1, <2>3 DEF Kept
    <3> QED  BY <1>0, <2>0, <2>5, <3>1, RowPushed
  <2> QED  BY <2>2, <2>4, <2>5
<1>3. CASE RivalFalls(d)
  <2> DEFINE row == [duels[d] EXCEPT !.rival = FALSE, !.rivalLost = TRUE]
             out == Ended(row, "me", TRUE)
  <2>0. /\ Mine(duels, d) /\ ~duels[d].over
        /\ UNCHANGED <<status, ready, forfeit, sockets, sock, sent, client, bounds>>
    BY <1>0, <1>3 DEF RivalFalls, Fighting, Live, Mine, Exists
  <2>1. Kept(duels[d], row)
    BY <1>0, RivalRow
  <2>2. \/ duels' = [duels EXCEPT ![d] = row] /\ inbox' = inbox \o ToDuel(d, Turn(d, row))
        \/ duels' = [duels EXCEPT ![d] = out] /\ UNCHANGED inbox
    BY <1>3 DEF RivalFalls
  <2> HIDE DEF row
  <2>3. out \in DuelRow /\ out.over /\ out.mine = row.mine
    BY <2>1, EndedIsRow DEF Kept
  <2> HIDE DEF out
  <2>4. CASE duels' = [duels EXCEPT ![d] = row] /\ inbox' = inbox \o ToDuel(d, Turn(d, row))
    <3>1. row \in DuelRow /\ row.mine = duels[d].mine /\ (row.winner # "none" => row.over)
      BY <1>0, <2>1 DEF Kept
    <3> QED  BY <1>0, <2>0, <2>4, <3>1, RowPushed
  <2>5. CASE duels' = [duels EXCEPT ![d] = out] /\ UNCHANGED inbox
    <3>1. out \in DuelRow /\ out.mine = duels[d].mine /\ out.over
      BY <2>1, <2>3 DEF Kept
    <3> QED  BY <1>0, <2>0, <2>5, <3>1, RowPushed
  <2> QED  BY <2>2, <2>4, <2>5
<1>4. CASE RivalReplaces(d)
  <2> DEFINE row == [duels[d] EXCEPT !.rival = TRUE]
  <2>1. Kept(duels[d], row)
    BY <1>0, RivalRow
  <2>2. /\ Mine(duels, d) /\ duels' = [duels EXCEPT ![d] = row]
        /\ inbox' = inbox \o ToDuel(d, State(d, row))
        /\ UNCHANGED <<status, ready, forfeit, sockets, sock, sent, client, bounds>>
    BY <1>0, <1>4 DEF RivalReplaces, Mine, Exists
  <2> HIDE DEF row
  <2> QED  BY <1>0, <2>1, <2>2, RowPushed DEF Kept
<1>5. CASE RivalGivesUp(d)
  <2> DEFINE out == Ended(duels[d], "me", FALSE)
  <2>1. out \in DuelRow /\ out.over /\ out.mine = duels[d].mine
    BY <1>0, EndedIsRow
  <2>2. /\ Mine(duels, d) /\ duels' = [duels EXCEPT ![d] = out] /\ ~duels[d].over
        /\ UNCHANGED <<status, ready, forfeit, sockets, sock, sent, inbox, client, bounds>>
    BY <1>0, <1>5 DEF RivalGivesUp, Mine, Exists
  <2> HIDE DEF out
  <2> QED  BY <1>0, <2>1, <2>2, RowPushed
<1> QED  BY <1>1, <1>2, <1>3, <1>4, <1>5

LEMMA EndIsTold ==
    ASSUME ClientInv, (\E d \in DOMAIN duels : Announce(d)) \/ Forfeit
    PROVE  ClientInv'
<1>0. /\ DOMAIN duels = 1..Len(duels) /\ Rows(duels) /\ sent \in Seq(Request)
      /\ forfeit \in 1..Len(duels) \cup {NoDuel} /\ ready \in BOOLEAN
      /\ \A d \in 1..Len(duels) : duels[d] \in DuelRow /\ (duels[d].winner # "none" => duels[d].over)
  BY RowsAreFinite DEF ClientInv, ServerInv, WireInv, Rows
<1>1. ASSUME NEW d \in 1..Len(duels), Announce(d)
      PROVE  ClientInv'
  <2> DEFINE r == [duels[d] EXCEPT !.told = TRUE, !.ko = FALSE]
             p == [type |-> "duel:finished", id |-> d, winner |-> duels[d].winner]
             a == IF duels[d].ko THEN ToDuel(d, Turn(d, duels[d])) ELSE <<>>
  <2>1. Kept(duels[d], r)
    BY <1>0, RivalRow
  <2>2. /\ duels' = [duels EXCEPT ![d] = r] /\ duels[d].over
        /\ inbox' = inbox \o a \o ToDuel(d, p)
        /\ ready' = (ready /\ mode # "1v1")
        /\ UNCHANGED <<status, forfeit, sockets, sock, sent, client, bounds>>
    BY <1>1 DEF Announce
  <2>3. p.type = "duel:finished" /\ p.id = d /\ p.winner = duels[d].winner
    OBVIOUS
  <2> HIDE DEF r, p
  <2>4. Later(duels, duels') /\ duels'[d] = r /\ Len(duels') = Len(duels)
    BY <1>0, <2>1, <2>2, OneRow DEF Kept
  <2>5. PushOK(duels', p)
    <3>1. Exists(duels', d) /\ duels'[d].over /\ p.winner = duels'[d].winner
      BY <2>1, <2>2, <2>3, <2>4 DEF Exists, Kept
    <3> QED  BY <2>3, <3>1 DEF PushOK
  <2>6. Box(duels', a)
    <3>1. CASE d \in subscribed
      <4>1. Mine(duels, d)
        BY <3>1 DEF ClientInv, WireInv, Mine, Exists
      <4>2. PushOK(duels, Turn(d, duels[d]))
        BY <1>0, <4>1, SnapshotTold
      <4>3. PushOK(duels', Turn(d, duels[d]))
        BY <1>0, <2>4, <4>2, PushLasts
      <4> QED  BY <4>3, Pushed
    <3>2. CASE d \notin subscribed
      <4>1. a = <<>>
        BY <3>2 DEF ToDuel
      <4> QED  BY <2>5, <4>1, Pushed
    <3> QED  BY <3>1, <3>2
  <2>7. Box(duels', inbox) /\ Box(duels', ToDuel(d, p))
    BY <2>4, <2>5, InboxStays, Pushed
  <2> HIDE DEF a
  <2>8. Box(duels', inbox')
    <3>1. Box(duels', inbox \o a)
      BY <2>6, <2>7, BoxesJoined
    <3> QED  BY <2>2, <2>7, <3>1, BoxesJoined
  <2>9. ready' \in BOOLEAN /\ (r.winner # "none" => r.over)
    BY <2>1, <2>2 DEF Kept
  <2> QED  BY <1>0, <2>1, <2>2, <2>8, <2>9, RowStep DEF Kept
<1>2. CASE Forfeit
  <2>0. /\ forfeit \in 1..Len(duels) /\ forfeit' = NoDuel
        /\ UNCHANGED <<status, ready, sockets, sock, sent, inbox, client, bounds>>
    BY <1>0, <1>2 DEF Forfeit
  <2>1. CASE duels[forfeit].over
    <3>1. Later(duels, duels') /\ duels' = duels
      BY <1>0, <1>2, <2>1, LaterReflexive DEF Forfeit
    <3>2. Box(duels', inbox')
      BY <2>0, <3>1, InboxStays
    <3>3. /\ Len(duels') <= MaxDuels /\ ready' \in BOOLEAN /\ sent' \in Seq(Request)
          /\ status' \in {"waiting", "in_progress", "finished", "aborted", "gone"}
          /\ status' = "waiting" => Len(duels') = 0
      BY <1>0, <2>0, <3>1 DEF ClientInv, ServerInv
    <3> QED  BY <2>0, <3>1, <3>2, <3>3, ServerStep
  <2>2. CASE ~duels[forfeit].over
    <3> DEFINE r == Ended(duels[forfeit], "rival", FALSE)
    <3>1. duels' = [duels EXCEPT ![forfeit] = r]
      BY <1>2, <2>2 DEF Forfeit
    <3>2. r \in DuelRow /\ r.over /\ r.mine = duels[forfeit].mine
      BY <1>0, <2>0, EndedIsRow
    <3> HIDE DEF r
    <3>3. Later(duels, duels')
      BY <1>0, <2>0, <2>2, <3>1, <3>2, OneRow
    <3>4. Box(duels', inbox')
      BY <2>0, <3>3, InboxStays
    <3> QED  BY <1>0, <2>0, <2>2, <3>1, <3>2, <3>4, RowStep
  <2> QED  BY <2>1, <2>2
<1> QED  BY <1>0, <1>1, <1>2

---------------------------------------------------------------------------
(* What the server answers *)

\* Nothing changes but what the player's socket is told and has joined.
LEMMA Answered ==
    ASSUME ClientInv, sock = "on", UNCHANGED <<server, sock, client, bounds>>,
           sent' \in Seq(Request), Inbox(duels, inbox'), inRoom' \in BOOLEAN,
           Answering(duels, answers'), IsFiniteSet(answers'), Cardinality(answers') <= MaxAnswers,
           subscribed' \subseteq {d \in 1..Len(duels) : duels[d].mine}
    PROVE  ClientInv'
<1>1. ServerInv' /\ ScreenInv'
  BY DEF ClientInv, ServerInv, ScreenInv, server, client, bounds, MaxDuels
<1>2. duels' = duels
  BY DEF server
<1>3. WireInv'
  BY <1>2 DEF ClientInv, WireInv
<1> QED  BY <1>1, <1>3 DEF ClientInv

LEMMA RequestTaken ==
    ASSUME ClientInv, sent # <<>>, Take
    PROVE  Head(sent) \in Request /\ sent' \in Seq(Request)
BY DEF ClientInv, WireInv, Take

LEMMA JoinAnswered ==
    ASSUME ClientInv, sock = "on", UNCHANGED <<sock, client, bounds>>, sent' \in Seq(Request),
           NEW id, HandleRoomJoin \/ HandleJoin(id)
    PROVE  ClientInv'
<1>0. /\ Rows(duels) /\ Inbox(duels, inbox) /\ Answering(duels, answers) /\ IsFiniteSet(answers)
      /\ Cardinality(answers) <= MaxAnswers /\ MaxAnswers \in Nat
      /\ subscribed \subseteq {d \in 1..Len(duels) : duels[d].mine}
  BY ClientAssumption DEF ClientInv, ServerInv, WireInv
<1>r. inRoom \in BOOLEAN
  BY DEF ClientInv, WireInv
<1>1. CASE HandleRoomJoin
  <2>1. /\ PushOK(duels, [type |-> "room:join_rejected"]) /\ PushOK(duels, [type |-> "room:aborted"])
        /\ PushOK(duels, [type |-> "room:state"])
    BY PlainPush DEF Plain
  <2>2. PICK p : PushOK(duels, p) /\ inbox' = Append(inbox, p)
    BY <1>1, <2>1 DEF HandleRoomJoin, RoomState
  <2>3. Inbox(duels, inbox')
    BY <1>0, <2>2, InboxAppend
  <2>4. UNCHANGED <<server, answers, subscribed>>
    BY <1>1 DEF HandleRoomJoin
  <2>5. inRoom' \in BOOLEAN
    BY <1>1 DEF HandleRoomJoin
  <2> QED  BY <1>0, <2>3, <2>4, <2>5, Answered
<1>2. CASE HandleJoin(id)
  <2>1. UNCHANGED <<server, subscribed, inRoom, inbox>>
    BY <1>2 DEF HandleJoin
  <2>2. CASE ~Participant(id)
    <3>1. answers' = answers
      BY <1>2, <2>2 DEF HandleJoin
    <3> QED  BY <1>0, <1>r, <2>1, <3>1, Answered
  <2>3. CASE Participant(id)
    <3> DEFINE a == [id |-> id, snap |-> Snapshot(duels[id])]
    <3>1. answers' = answers \cup {a} /\ Cardinality(answers) < MaxAnswers
      BY <1>2, <2>3 DEF HandleJoin
    <3>2. a.id = id /\ a.snap = Snapshot(duels[id]) /\ a = [id |-> a.id, snap |-> a.snap]
      OBVIOUS
    <3> HIDE DEF a
    <3>3. Mine(duels, id)
      BY <1>0, <2>3, RowsAreFinite DEF Participant, Mine, Exists
    <3>4. Told(duels, a.id, a.snap)
      BY <1>0, <3>2, <3>3, SnapshotTold
    <3>5. Answering(duels, answers')
      BY <1>0, <3>1, <3>2, <3>4 DEF Answering
    <3>6. IsFiniteSet(answers')
      BY <1>0, <3>1, FS_AddElement
    <3>7. Cardinality(answers') <= MaxAnswers
      <4>1. Cardinality(answers) \in Nat
        BY <1>0, FS_CardinalityType
      <4>2. Cardinality(answers') = Cardinality(answers) \/ Cardinality(answers') = Cardinality(answers) + 1
        BY <1>0, <3>1, FS_AddElement
      <4> QED  BY <1>0, <3>1, <4>1, <4>2
    <3> QED  BY <1>0, <1>r, <2>1, <3>5, <3>6, <3>7, Answered
  <2> QED  BY <2>2, <2>3
<1> QED  BY <1>1, <1>2

LEMMA MovesHandled ==
    ASSUME ClientInv, sock = "on", UNCHANGED <<sock, client, bounds>>, sent' \in Seq(Request),
           NEW id, NEW m \in Mon \cup {NoMon},
           HandleReady \/ HandleLead(id, m) \/ HandleSwitch(id, m) \/ HandleSurrender(id)
    PROVE  ClientInv'
<1>0. /\ Rows(duels) /\ Inbox(duels, inbox) /\ Len(duels) <= MaxDuels
      /\ status \in {"waiting", "in_progress", "finished", "aborted", "gone"}
      /\ status = "waiting" => Len(duels) = 0
      /\ forfeit \in 1..Len(duels) \cup {NoDuel}
      /\ \A d \in 1..Len(duels) : duels[d] \in DuelRow /\ (duels[d].winner # "none" => duels[d].over)
  BY RowsAreFinite DEF ClientInv, ServerInv, WireInv, Rows
<1>b. ready \in BOOLEAN /\ inRoom \in BOOLEAN
  BY DEF ClientInv, ServerInv, WireInv
<1>u. ASSUME duels' = duels, Inbox(duels, inbox'), ready' \in BOOLEAN,
             UNCHANGED <<status, forfeit, sockets>>
      PROVE  ClientInv'
  <2>1. Later(duels, duels')
    BY <1>0, <1>u, LaterReflexive
  <2>2. Box(duels', inbox')
    BY <1>u DEF Box
  <2> QED  BY <1>0, <1>u, <2>1, <2>2, ServerStep
<1>1. CASE HandleReady
  <2>1. ready' \in BOOLEAN
    BY <1>1, <1>b DEF HandleReady
  <2> QED  BY <1>0, <1>1, <1>u, <2>1 DEF HandleReady
<1>p. ASSUME Participant(id)
      PROVE  Mine(duels, id) /\ id \in 1..Len(duels)
  BY <1>0, <1>p, RowsAreFinite DEF Participant, Mine, Exists
<1>2. CASE HandleLead(id, m)
  <2> DEFINE both == duels[id].marked = {"rival"}
             row  == [duels[id] EXCEPT !.active = m, !.marked = @ \cup {"me"},
                                       !.phase = IF both THEN "in_progress" ELSE @]
             accepted == /\ Participant(id)
                         /\ duels[id].phase = "lead_selection" /\ duels[id].active = NoMon
  <2>1. /\ duels' = IF accepted THEN [duels EXCEPT ![id] = row] ELSE duels
        /\ inbox' = IF accepted /\ both THEN inbox \o ToDuel(id, State(id, row)) ELSE inbox
        /\ UNCHANGED <<status, ready, forfeit, sockets>>
    BY <1>2 DEF HandleLead
  <2>2. CASE ~accepted
    <3> HIDE DEF row, both
    <3> QED  BY <1>0, <1>b, <1>u, <2>1, <2>2
  <2>3. CASE accepted
    <3>1. Kept(duels[id], row)
      BY <1>0, <1>p, <2>3, LeadRow
    <3> HIDE DEF row, both
    <3>2. row \in DuelRow /\ row.mine = duels[id].mine /\ row.over = duels[id].over
          /\ row.winner = duels[id].winner
      BY <3>1 DEF Kept
    <3>3. /\ duels' = [duels EXCEPT ![id] = row]
          /\ UNCHANGED inbox \/ inbox' = inbox \o ToDuel(id, State(id, row))
      BY <2>1, <2>3
    <3>4. Mine(duels, id) /\ (row.winner # "none" => row.over)
      BY <1>0, <1>p, <2>3, <3>2
    <3> HIDE DEF accepted
    <3> QED  BY <2>1, <3>2, <3>3, <3>4, RowPushed
  <2> QED  BY <2>2, <2>3
<1>3. CASE HandleSwitch(id, m)
  <2> DEFINE row  == [duels[id] EXCEPT !.active = m]
             accepted == Participant(id) /\ m \notin duels[id].fainted /\ m # duels[id].active
  <2>1. /\ duels' = IF accepted THEN [duels EXCEPT ![id] = row] ELSE duels
        /\ inbox' = IF accepted THEN inbox \o ToDuel(id, State(id, row))
                                ELSE Append(inbox, [type |-> "duel:switch_rejected"])
        /\ UNCHANGED <<status, ready, forfeit, sockets>>
    BY <1>3 DEF HandleSwitch
  <2>2. CASE ~accepted
    <3>1. PushOK(duels, [type |-> "duel:switch_rejected"])
      BY PlainPush DEF Plain
    <3>2. Inbox(duels, inbox')
      <4>1. Inbox(duels, Append(inbox, [type |-> "duel:switch_rejected"]))
        BY <1>0, <3>1, InboxAppend
      <4> QED  BY <2>1, <2>2, <4>1
    <3> HIDE DEF row
    <3> QED  BY <1>0, <1>b, <1>u, <2>1, <2>2, <3>2
  <2>3. CASE accepted
    <3>1. Kept(duels[id], row)
      BY <1>0, <1>p, <2>3, ActiveRow
    <3> HIDE DEF row
    <3>2. row \in DuelRow /\ row.mine = duels[id].mine /\ row.over = duels[id].over
          /\ row.winner = duels[id].winner
      BY <3>1 DEF Kept
    <3>3. duels' = [duels EXCEPT ![id] = row] /\ inbox' = inbox \o ToDuel(id, State(id, row))
      BY <2>1, <2>3
    <3>4. Mine(duels, id) /\ (row.winner # "none" => row.over)
      BY <1>0, <1>p, <2>3, <3>2
    <3> HIDE DEF accepted
    <3> QED  BY <2>1, <3>2, <3>3, <3>4, RowPushed
  <2> QED  BY <2>2, <2>3
<1>4. CASE HandleSurrender(id)
  <2> DEFINE out == Ended(duels[id], "rival", FALSE)
  <2>1. CASE ~(Participant(id) /\ ~duels[id].over)
    BY <1>0, <1>4, <1>b, <1>u, <2>1 DEF HandleSurrender
  <2>2. CASE Participant(id) /\ ~duels[id].over
    <3>1. out \in DuelRow /\ out.over /\ out.mine = duels[id].mine
      BY <1>0, <1>p, <2>2, EndedIsRow
    <3>2. /\ duels' = [duels EXCEPT ![id] = out]
          /\ UNCHANGED <<status, ready, forfeit, sockets, inbox>>
      BY <1>4, <2>2 DEF HandleSurrender
    <3> HIDE DEF out
    <3> QED  BY <1>0, <1>p, <2>2, <3>1, <3>2, RowPushed
  <2> QED  BY <2>1, <2>2
<1> QED  BY <1>1, <1>2, <1>3, <1>4

LEMMA HandleKeeps ==
    ASSUME ClientInv, Handle
    PROVE  ClientInv'
<1>1. /\ sock = "on" /\ sent # <<>> /\ Take /\ UNCHANGED <<sock, client, bounds>>
  BY DEF Handle
<1>2. Head(sent) \in Request /\ sent' \in Seq(Request)
  BY <1>1, RequestTaken
<1>3. Head(sent).mon \in Mon \cup {NoMon}
  BY <1>2 DEF Request
<1>4. \/ HandleRoomJoin \/ HandleReady
      \/ \E id, m : /\ m = Head(sent).mon
                    /\ \/ HandleJoin(id) \/ HandleLead(id, m)
                       \/ HandleSwitch(id, m) \/ HandleSurrender(id)
  BY DEF Handle
<1>5. CASE HandleRoomJoin \/ \E id : HandleJoin(id)
  BY <1>1, <1>2, <1>5, JoinAnswered
<1>6. CASE HandleReady \/ \E id : \/ HandleLead(id, Head(sent).mon)
                                  \/ HandleSwitch(id, Head(sent).mon) \/ HandleSurrender(id)
  BY <1>1, <1>2, <1>3, <1>6, MovesHandled
<1> QED  BY <1>4, <1>5, <1>6

LEMMA AnswerKeeps ==
    ASSUME ClientInv, NEW id, Answer(id)
    PROVE  ClientInv'
<1>0. /\ Rows(duels) /\ Inbox(duels, inbox) /\ Answering(duels, answers) /\ IsFiniteSet(answers)
      /\ Cardinality(answers) <= MaxAnswers /\ MaxAnswers \in Nat
      /\ subscribed \subseteq {d \in 1..Len(duels) : duels[d].mine}
      /\ sent \in Seq(Request) /\ (sock # "on" => answers = {})
  BY ClientAssumption DEF ClientInv, ServerInv, WireInv
<1>r. inRoom \in BOOLEAN
  BY DEF ClientInv, WireInv
<1>1. PICK a \in answers :
        /\ a.id = id /\ answers' = answers \ {a}
        /\ inbox' = Append(inbox, [type |-> "duel:state", id |-> id, snap |-> a.snap])
  BY DEF Answer
<1>2. /\ subscribed' = subscribed \cup {id}
      /\ UNCHANGED <<server, inRoom, sock, sent, client, bounds>> /\ sock = "on"
  BY <1>0, <1>1 DEF Answer
<1>3. Told(duels, id, a.snap)
  BY <1>0, <1>1 DEF Answering
<1>4. Inbox(duels, inbox')
  <2> DEFINE p == [type |-> "duel:state", id |-> id, snap |-> a.snap]
  <2>1. p.type = "duel:state" /\ p.id = id /\ p.snap = a.snap /\ inbox' = Append(inbox, p)
    BY <1>1
  <2> HIDE DEF p
  <2>2. PushOK(duels, p)
    BY <1>3, <2>1 DEF PushOK
  <2> QED  BY <1>0, <2>1, <2>2, InboxAppend
<1>5. Answering(duels, answers')
  BY <1>0, <1>1 DEF Answering
<1>6. IsFiniteSet(answers')
  BY <1>0, <1>1, FS_RemoveElement
<1>7. Cardinality(answers') <= MaxAnswers
  <2>1. Cardinality(answers) \in Nat
    BY <1>0, FS_CardinalityType
  <2>2. Cardinality(answers') = Cardinality(answers) - 1
    BY <1>0, <1>1, FS_RemoveElement
  <2> QED  BY <1>0, <2>1, <2>2
<1>8. subscribed' \subseteq {d \in 1..Len(duels) : duels[d].mine}
  BY <1>0, <1>2, <1>3 DEF Told, Mine, Exists
<1> QED  BY <1>0, <1>r, <1>2, <1>4, <1>5, <1>6, <1>7, <1>8, Answered

---------------------------------------------------------------------------
(* The server starts anew *)

LEMMA ReconciledRows ==
    ASSUME Rows(duels), Reconciled
    PROVE  Later(duels, duels') /\ Len(duels') = Len(duels)
<1>0. /\ Len(duels) \in Nat /\ DOMAIN duels = 1..Len(duels)
      /\ \A d \in 1..Len(duels) : duels[d] \in DuelRow /\ (duels[d].winner # "none" => duels[d].over)
  BY RowsAreFinite DEF Rows
<1> DEFINE R(d) == [duels[d] EXCEPT !.phase = "none", !.over = @ \/ d \in Live, !.ko = FALSE,
                                    !.told = @ \/ duels[d].over \/ d \in Live]
<1>1. duels' = [d \in 1..Len(duels) |-> R(d)]
  BY <1>0 DEF Reconciled
<1>2. ASSUME NEW d \in 1..Len(duels)
      PROVE  /\ R(d) \in DuelRow /\ R(d).mine = duels[d].mine /\ R(d).winner = duels[d].winner
             /\ duels[d].over => R(d).over
  <2> DEFINE over == duels[d].over \/ d \in Live
             told == duels[d].told \/ duels[d].over \/ d \in Live
  <2>1. over \in BOOLEAN /\ told \in BOOLEAN /\ (duels[d].over => over)
    OBVIOUS
  <2>2. R(d) = [duels[d] EXCEPT !.phase = "none", !.over = over, !.ko = FALSE, !.told = told]
    OBVIOUS
  <2>3. duels[d] \in DuelRow
    BY <1>0
  <2> HIDE DEF R, over, told
  <2>4. ASSUME NEW row \in DuelRow, row = duels[d], NEW o \in BOOLEAN, o = over,
               NEW t \in BOOLEAN, t = told
        PROVE  R(d) \in DuelRow /\ R(d).mine = row.mine /\ R(d).over = o /\ R(d).winner = row.winner
    <3>1. R(d) = [row EXCEPT !.phase = "none", !.over = o, !.ko = FALSE, !.told = t]
      BY <2>2, <2>4
    <3>2. PICK s : s = [row EXCEPT !.phase = "none", !.over = o]
      OBVIOUS
    <3>3. s \in DuelRow /\ s.mine = row.mine /\ s.over = o /\ s.winner = row.winner
      BY <3>2 DEF DuelRow
    <3>4. R(d) = [s EXCEPT !.ko = FALSE, !.told = t]
      BY <3>1, <3>2 DEF DuelRow
    <3> QED  BY <3>3, <3>4 DEF DuelRow
  <2>5. /\ R(d) \in DuelRow /\ R(d).mine = duels[d].mine /\ R(d).over = over
        /\ R(d).winner = duels[d].winner
    BY <2>1, <2>3, <2>4
  <2> QED  BY <2>1, <2>5
<1> HIDE DEF R
<1>3. duels' \in Seq(DuelRow) /\ Len(duels') = Len(duels)
  BY <1>0, <1>1, <1>2, IsASeq, LenProperties
<1>4. \A d \in 1..Len(duels) : duels'[d] = R(d)
  BY <1>1
<1>5. Rows(duels')
  BY <1>0, <1>2, <1>3, <1>4 DEF Rows
<1> QED  BY <1>0, <1>2, <1>3, <1>4, <1>5 DEF Later

LEMMA RestartKeeps ==
    ASSUME ClientInv, Restart
    PROVE  ClientInv'
<1>0. /\ Rows(duels) /\ Len(duels) \in Nat /\ Shows(duels, store) /\ IsUi(ui)
      /\ Len(duels) <= MaxDuels /\ sent \in Seq(Request) /\ ready \in BOOLEAN /\ mode \in Modes
      /\ status \in {"waiting", "in_progress", "finished", "aborted", "gone"}
      /\ sock \in {"on", "off", "null"} /\ faults \in 0..MaxFaults /\ MaxFaults \in Nat
  BY RowsAreFinite, ClientAssumption DEF ClientInv, ServerInv, WireInv, ScreenInv
<1>1. /\ Reconciled /\ forfeit' = NoDuel /\ answers' = {} /\ subscribed' = {} /\ inRoom' = FALSE
      /\ inbox' = <<>> /\ faults' = faults + 1 /\ faults < MaxFaults
      /\ UNCHANGED <<ready, client, mode>>
  BY DEF Restart
<1>2. sock' \in {"off", "null"} /\ sent' \in Seq(Request)
  BY <1>0 DEF Restart
<1>3. Later(duels, duels') /\ Len(duels') = Len(duels)
  BY <1>0, <1>1, ReconciledRows
<1>4. status' \in {"in_progress", "finished", "aborted", "gone"}
  BY <1>0, <1>1 DEF Reconciled
<1>5. ServerInv'
  BY <1>0, <1>1, <1>3, <1>4 DEF ServerInv, MaxDuels, Later
<1>6. /\ IsFiniteSet({}) /\ Cardinality({}) = 0 /\ MaxAnswers \in Nat
      /\ Inbox(duels', <<>>) /\ Answering(duels', {})
  BY FS_EmptySet, InboxEmpty, ClientAssumption DEF Answering
<1>7. WireInv'
  <2>1. Answering(duels', answers') /\ Inbox(duels', inbox')
    BY <1>1, <1>6
  <2>2. IsFiniteSet(answers') /\ Cardinality(answers') <= MaxAnswers
    BY <1>1, <1>6
  <2>3. sock' \in {"on", "off", "null"} /\ subscribed' \subseteq {d \in 1..Len(duels') : duels'[d].mine}
    BY <1>1, <1>2
  <2>4. /\ inRoom' \in BOOLEAN
        /\ sock' # "on" => answers' = {} /\ subscribed' = {} /\ ~inRoom' /\ inbox' = <<>>
    BY <1>1
  <2> QED  BY <1>2, <2>1, <2>2, <2>3, <2>4 DEF WireInv
<1>8. ScreenInv'
  BY <1>0, <1>1, <1>3, WireLasts DEF ScreenInv, client
<1> QED  BY <1>5, <1>7, <1>8 DEF ClientInv

---------------------------------------------------------------------------
(* Every step, and what follows *)

LEMMA ClientStarts == Init => ClientInv
<1> SUFFICES ASSUME Init
             PROVE  ClientInv
  OBVIOUS
<1>1. duels = <<>> /\ Len(duels) = 0 /\ duels \in Seq(DuelRow)
  BY DEF Init
<1>2. ServerInv
  <2>1. MaxDuels \in Nat /\ MaxFaults \in Nat
    BY ClientAssumption DEF MaxDuels
  <2>2. Rows(duels)
    BY <1>1 DEF Rows
  <2>3. Len(duels) <= MaxDuels /\ faults \in 0..MaxFaults
    BY <1>1, <2>1 DEF Init
  <2>4. mode \in Modes /\ status = "waiting" /\ ready \in BOOLEAN /\ forfeit = NoDuel
    BY DEF Init
  <2> QED  BY <1>1, <2>2, <2>3, <2>4 DEF ServerInv
<1>3. WireInv
  <2>1. /\ IsFiniteSet({}) /\ Cardinality({}) = 0 /\ MaxAnswers \in Nat
        /\ Inbox(duels, <<>>) /\ Answering(duels, {}) /\ <<>> \in Seq(Request)
    BY FS_EmptySet, InboxEmpty, ClientAssumption DEF Answering
  <2>2. Answering(duels, answers) /\ Inbox(duels, inbox) /\ sent \in Seq(Request)
    BY <2>1 DEF Init
  <2>3. IsFiniteSet(answers) /\ Cardinality(answers) <= MaxAnswers
    BY <2>1 DEF Init
  <2> QED  BY <2>2, <2>3 DEF Init, WireInv
<1>4. ScreenInv
  BY NoDuelShown, FreshIsUi DEF Init, ScreenInv, Screen
<1> QED  BY <1>2, <1>3, <1>4 DEF ClientInv

LEMMA ClientGoesOn == ClientInv /\ [Next]_vars => ClientInv'
<1> SUFFICES ASSUME ClientInv, [Next]_vars
             PROVE  ClientInv'
  OBVIOUS
<1>1. CASE Drop \/ Reload \/ Connect \/ Deliver
  BY <1>1, ClientMoves
<1>2. CASE Restart
  BY <1>2, RestartKeeps
<1>3. CASE Handle
  BY <1>3, HandleKeeps
<1>4. CASE Queries
  BY <1>4, AnswerKeeps DEF Queries
<1>5. CASE Timers
  BY <1>5, TimersKeep
<1>6. CASE Click
  BY <1>6, ClicksKeep
<1>7. CASE StartDuel \/ OpenBracket \/ OpenFinals \/ CloseBracket
  BY <1>7, NewDuels
<1>8. CASE Forfeit \/ \E d \in DOMAIN duels : Announce(d)
  BY <1>8, EndIsTold
<1>9. CASE \E d \in DOMAIN duels : \/ RivalLead(d) \/ PlayerFalls(d) \/ RivalFalls(d)
                                   \/ RivalReplaces(d) \/ RivalGivesUp(d)
  BY <1>9, RivalMoves
<1>10. CASE UNCHANGED vars
  BY <1>10 DEF ClientInv, ServerInv, WireInv, ScreenInv, vars, server, sockets, client, bounds,
               MaxDuels
<1> QED  BY <1>1, <1>2, <1>3, <1>4, <1>5, <1>6, <1>7, <1>8, <1>9, <1>10 DEF Next, Network, Others

LEMMA ClientAlways == Spec => []ClientInv
BY ClientStarts, ClientGoesOn, PTL DEF Spec

\* What the store, the screens and the messages are made of, whatever is lost,
\* repeated or late: no push or request names a duel that is not there, no answer
\* a duel of others, and a player without a socket is owed nothing.
THEOREM ClientTypes == Spec => []TypeOK
<1>1. ClientInv => TypeOK
  <2> SUFFICES ASSUME ClientInv
               PROVE  TypeOK
    OBVIOUS
  <2>1. DOMAIN duels = 1..Len(duels)
    BY RowsAreFinite DEF ClientInv, ServerInv
  <2>2. \A a \in answers : a.id \in DOMAIN duels /\ duels[a.id].mine
    BY <2>1 DEF ClientInv, WireInv, Answering, Told, Mine, Exists
  <2>3. store \in MockState /\ {store.duel.id, store.pending} \subseteq DOMAIN duels \cup {NoDuel}
    BY <2>1 DEF ClientInv, ScreenInv, Shows
  <2>4. ui.screen \in Screen /\ ui.swap \in Mon \cup {NoMon} /\ (ui.swap # NoMon => ui.screen \in Swap)
    BY DEF ClientInv, ScreenInv, IsUi, Component
  <2>5. /\ subscribed \subseteq DOMAIN duels /\ sock \in {"on", "off", "null"}
        /\ sock # "on" => answers = {} /\ subscribed = {} /\ ~inRoom /\ inbox = <<>>
        /\ Cardinality(answers) <= MaxAnswers
    BY <2>1 DEF ClientInv, WireInv
  <2> QED  BY <2>1, <2>2, <2>3, <2>4, <2>5 DEF TypeOK, ClientInv, ServerInv, Rows
<1> QED  BY <1>1, ClientAlways, PTL

\* duelFromSnapshot and duelFinished: in whatever order the answer to a duel:join, a
\* resolved turn and a duel:finished reach the store, and across lost sockets, reloads
\* and restarts, a duel shown as finished is finished in the database with the same
\* winner.
THEOREM OutcomeIsTheServers == Spec => []OutcomeIsServers
<1>1. ClientInv => OutcomeIsServers
  BY DEF ClientInv, ScreenInv, Shows, OutcomeIsServers
<1> QED  BY <1>1, ClientAlways, PTL

\* fetchDuelForParticipant and the channels: duel:start names to the whole room
\* duels of others as well, but none of them ever gets into the player's store.
THEOREM DuelsAreMine == Spec => []DuelIsMine
<1>1. ClientInv => DuelIsMine
  BY DEF ClientInv, ScreenInv, Shows, DuelIsMine
<1> QED  BY <1>1, ClientAlways, PTL
====
