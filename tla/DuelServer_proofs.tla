------------------------- MODULE DuelServer_proofs -------------------------
(***************************************************************************)
(* What the interleaved server keeps, for any number of handlers and timer *)
(* callbacks in flight, any roster, move list, damage table and type chart.*)
(*                                                                         *)
(* The invariant says of every task what it has read that later steps rely *)
(* on: a task on its way to a round holds both picks, one that has         *)
(* resolved a round holds rows and a verdict that agree, one that is       *)
(* ending a duel holds a whole verdict.                                    *)
(***************************************************************************)
EXTENDS DuelServer, RoundRules_proofs

\* A duels row is finished, won and explained together, or none of the three.
WholeVerdict(d) ==
    IF d.status = "finished"
      THEN d.winner \in Players /\ d.reason # "none"
      ELSE d.winner = Nobody /\ d.reason = "none"

\* A duels row and the pokemon rows agree on who is wiped.
Agree(d, r) ==
    /\ \E p \in Players : hasNonFainted(r, p)
    /\ TeamWiped(r) => d.status = "finished"
    /\ d.reason = "ko" => /\ d.winner \in Players
                         /\ hasNonFainted(r, d.winner)
                         /\ ~hasNonFainted(r, opponentOf(d.winner))

\* What a task in state s relies on, when the buffer is b.
TaskOk(s, b) ==
    /\ s \in TaskState
    /\ FaintMatchesHp(s.rows)
    /\ s.pc \in {"lead_roster", "lead_write", "lead_ready", "switch_active",
                 "switch_write"} => s.who \in Players /\ s.slot \in Slot
    /\ s.pc = "pick_buffer" => s.who \in Players /\ s.move \in Move
    /\ s.live => s.pc \in {"expiry_state", "take_state"}
    /\ s.pc = "take_state" => Full(IF s.live THEN b ELSE s.acts)
    /\ s.pc \in {"round_duel", "round_rows"} => Full(s.acts)
    /\ s.pc = "round_rows" => s.duel.status = "in_progress" /\ WholeVerdict(s.duel)
    /\ s.pc = "round_write" => WholeVerdict(s.duel) /\ Agree(s.duel, s.rows)
    /\ s.pc \in {"round_write", "round_done"} => s.duel.status # "pending"
    /\ s.pc = "fresh_rows" => WholeVerdict(s.duel)
    /\ s.pc \in {"finish_write", "finish_done"} =>
         /\ s.duel.status = "finished" /\ s.duel.winner \in Players
         /\ s.duel.reason \in {"surrender", "disconnect"}

IInv ==
    /\ TypeOK
    /\ WholeVerdict(duel)
    /\ Agree(duel, rows)
    /\ FaintMatchesHp(rows)
    /\ \A t \in Task : TaskOk(task[t], buffer)

---------------------------------------------------------------------------
LEMMA SeededRowsFacts ==
    /\ SeededRows \in Rows
    /\ FaintMatchesHp(SeededRows)
    /\ \A p \in Players : hasNonFainted(SeededRows, p)
<1> DEFINE row == SeededRow
<1>1. row \in Row /\ row.hp = FullHp /\ row.fainted = FALSE
  BY RulesAssumption DEF SeededRow, Row
<1>2. SeededRows = [p \in Players |-> [s \in Slot |-> row]]
  BY DEF SeededRows
<1> HIDE DEF row
<1>3. \A p \in Players, s \in Slot : SeededRows[p][s] = row
  BY <1>2
<1> QED  BY <1>1, <1>2, <1>3, RulesAssumption
         DEF Rows, FaintMatchesHp, hasNonFainted

LEMMA IdleFields ==
    /\ Idle \in TaskState
    /\ Idle.pc = "idle" /\ Idle.live = FALSE /\ Idle.acts = NoPicks
    /\ Idle.duel = NewDuel /\ Idle.rows = SeededRows
    /\ Idle.who = Nobody /\ Idle.slot = NoSlot /\ Idle.move = NoMove
<1>1. SeededRows \in Rows /\ NoPicks \in Buffers /\ NewDuel \in DuelRow
  BY SeededRowsFacts DEF NoPicks, Buffers, NewDuel, DuelRow
<1> QED  BY <1>1 DEF Idle, TaskState, PC

LEMMA IdleOk == ASSUME NEW b PROVE TaskOk(Idle, b)
BY IdleFields, SeededRowsFacts DEF TaskOk

\* A step that changes one task and neither the buffer nor any row.
LEMMA QuietStep ==
    ASSUME IInv, NEW t \in Task, NEW s, Become(t, s), TaskOk(s, buffer),
           UNCHANGED <<database, buffer>>,
           phase' \in {"none", "lead_selection", "in_progress", "finished"},
           leads' \subseteq Players, timer' \in BOOLEAN, UNCHANGED announced
    PROVE  IInv'
<1>1. /\ task' \in [Task -> TaskState]
      /\ \A u \in Task : task'[u] = IF u = t THEN s ELSE task[u]
  BY DEF IInv, TypeOK, TaskOk, Become
<1>2. TypeOK'
  BY <1>1 DEF IInv, TypeOK, database
<1>3. \A u \in Task : TaskOk(task'[u], buffer')
  BY <1>1 DEF IInv
<1> QED  BY <1>2, <1>3 DEF IInv, database

---------------------------------------------------------------------------
(* Leads and switches. *)

\* A task that ends is fine, whatever it was.
LEMMA EndStep ==
    ASSUME IInv, NEW t \in Task, End(t), UNCHANGED <<database, buffer>>,
           phase' \in {"none", "lead_selection", "in_progress", "finished"},
           leads' \subseteq Players, timer' \in BOOLEAN, UNCHANGED announced
    PROVE  IInv'
BY IdleOk, QuietStep DEF End

\* A task that moves on to an await that relies on nothing more than the last.
LEMMA GotoOk ==
    ASSUME IInv, NEW t \in Task, NEW pc,
           \/ /\ task[t].pc \in {"lead_roster", "lead_write", "lead_ready"}
              /\ pc \in {"lead_write", "lead_ready", "lead_both"}
           \/ /\ task[t].pc = "lead_both" /\ pc = "lead_live"
           \/ /\ task[t].pc = "finish_write" /\ pc = "finish_done"
    PROVE  TaskOk([task[t] EXCEPT !.pc = pc], buffer)
<1>1. TaskOk(task[t], buffer)
  BY DEF IInv
<1> DEFINE s == [task[t] EXCEPT !.pc = pc]
<1>2. /\ s \in TaskState
      /\ s.pc = pc
      /\ s.who = task[t].who /\ s.slot = task[t].slot
      /\ s.duel = task[t].duel /\ s.rows = task[t].rows
  BY <1>1 DEF TaskOk, TaskState, PC
<1> HIDE DEF s
<1> QED  BY <1>1, <1>2 DEF TaskOk, s

LEMMA SelectLeadKeeps ==
    ASSUME IInv, NEW t \in Task, NEW p \in Players, NEW x \in Slot,
           SelectLead(t, p, x)
    PROVE  IInv'
<1> DEFINE s == [Idle EXCEPT !.pc = "lead_roster", !.who = p, !.slot = x]
<1>1. /\ s \in TaskState
      /\ s.pc = "lead_roster" /\ s.who = p /\ s.slot = x /\ s.rows = SeededRows
      /\ s.live = FALSE
  BY IdleFields DEF TaskState, PC
<1> HIDE DEF s
<1>2. TaskOk(s, buffer)
  BY <1>1, SeededRowsFacts DEF TaskOk
<1> QED  BY <1>2, QuietStep DEF SelectLead, IInv, TypeOK, s

LEMMA SwitchDecisionKeeps ==
    ASSUME IInv, NEW t \in Task, NEW p \in Players, NEW x \in Slot,
           SwitchDecision(t, p, x)
    PROVE  IInv'
<1> DEFINE s == [Idle EXCEPT !.pc = "switch_active", !.who = p, !.slot = x]
<1>1. /\ s \in TaskState
      /\ s.pc = "switch_active" /\ s.who = p /\ s.slot = x /\ s.rows = SeededRows
      /\ s.live = FALSE
  BY IdleFields DEF TaskState, PC
<1> HIDE DEF s
<1>2. TaskOk(s, buffer)
  BY <1>1, SeededRowsFacts DEF TaskOk
<1> QED  BY <1>2, QuietStep DEF SwitchDecision, IInv, TypeOK, s

LEMMA SwitchActiveKeeps ==
    ASSUME IInv, NEW t \in Task, SwitchActive(t)
    PROVE  IInv'
<1>1. PICK prev \in Slot \cup {NoSlot} :
        Become(t, [task[t] EXCEPT !.pc = "switch_write", !.prev = prev])
  BY DEF SwitchActive, Actives
<1> DEFINE s == [task[t] EXCEPT !.pc = "switch_write", !.prev = prev]
<1>2. TaskOk(task[t], buffer) /\ At(t, "switch_active")
  BY DEF IInv, SwitchActive
<1>3. /\ s \in TaskState
      /\ s.pc = "switch_write" /\ s.who = task[t].who /\ s.slot = task[t].slot
      /\ s.rows = task[t].rows /\ s.live = task[t].live
  BY <1>2 DEF TaskOk, TaskState, PC
<1> HIDE DEF s
<1>4. TaskOk(s, buffer)
  BY <1>2, <1>3 DEF TaskOk, At
<1> QED  BY <1>1, <1>4, QuietStep DEF SwitchActive, IInv, TypeOK, s

\* Fielding or benching moves nobody between the fainted and the standing.
LEMMA FlagsKeepAgreement ==
    ASSUME NEW d, NEW a, NEW b,
           \A p \in Players, s \in Slot : /\ b[p][s].hp = a[p][s].hp
                                          /\ b[p][s].fainted = a[p][s].fainted
    PROVE  /\ Agree(d, a) => Agree(d, b)
           /\ FaintMatchesHp(a) => FaintMatchesHp(b)
<1>1. \A p \in Players : hasNonFainted(b, p) <=> hasNonFainted(a, p)
  BY DEF hasNonFainted
<1>2. Agree(d, a) => Agree(d, b)
  BY <1>1, OpponentIsPlayer DEF Agree, TeamWiped
<1> QED  BY <1>2 DEF FaintMatchesHp

\* A step that changes only the flags of the rows, and one task.
LEMMA FlagStep ==
    ASSUME IInv, NEW t \in Task, NEW s, Become(t, s), TaskOk(s, buffer),
           rows' \in Rows,
           \A p \in Players, x \in Slot : /\ rows'[p][x].hp = rows[p][x].hp
                                          /\ rows'[p][x].fainted = rows[p][x].fainted,
           UNCHANGED <<duel, phase, leads, buffer, timer, announced>>
    PROVE  IInv'
<1>1. /\ task' \in [Task -> TaskState]
      /\ \A u \in Task : task'[u] = IF u = t THEN s ELSE task[u]
  BY DEF IInv, TypeOK, TaskOk, Become
<1>2. TypeOK'
  BY <1>1 DEF IInv, TypeOK
<1>3. Agree(duel, rows') /\ FaintMatchesHp(rows')
  BY FlagsKeepAgreement DEF IInv
<1>4. \A u \in Task : TaskOk(task'[u], buffer')
  BY <1>1 DEF IInv
<1> QED  BY <1>2, <1>3, <1>4 DEF IInv

LEMMA LeadWriteKeeps ==
    ASSUME IInv, NEW t \in Task, LeadWrite(t)
    PROVE  IInv'
<1>1. task[t].who \in Players /\ task[t].slot \in Slot
  BY DEF IInv, TaskOk, LeadWrite, At
<1>2. rows' \in Rows /\ Fielded(rows, rows', task[t].who, task[t].slot)
  BY <1>1, ActivateRows DEF LeadWrite, IInv, TypeOK
<1>3. TaskOk([task[t] EXCEPT !.pc = "lead_ready"], buffer)
  BY GotoOk DEF LeadWrite, At
<1> QED  BY <1>2, <1>3, FlagStep DEF LeadWrite, Goto, Fielded

LEMMA SwitchWriteKeeps ==
    ASSUME IInv, NEW t \in Task, SwitchWrite(t)
    PROVE  IInv'
<1> DEFINE p == task[t].who
           prev == task[t].prev
           mid == Activate(rows, p, task[t].slot)
<1>1. p \in Players /\ task[t].slot \in Slot /\ prev \in Slot \cup {NoSlot}
  BY DEF IInv, TaskOk, TaskState, SwitchWrite, At
<1>2. mid \in Rows /\ Fielded(rows, mid, p, task[t].slot)
  BY <1>1, ActivateRows DEF IInv, TypeOK
<1>3. rows' = IF prev = NoSlot THEN mid ELSE Deactivate(mid, p, prev)
  BY DEF SwitchWrite
<1> HIDE DEF mid, p, prev
<1>4. CASE prev = NoSlot
  BY <1>2, <1>3, <1>4, IdleOk, FlagStep DEF SwitchWrite, End, Fielded
<1>5. CASE prev # NoSlot
  <2>1. rows' \in Rows /\ Benched(mid, rows', p, prev)
    BY <1>1, <1>2, <1>3, <1>5, DeactivateRows
  <2>2. \A r \in Players, x \in Slot : /\ rows'[r][x].hp = rows[r][x].hp
                                       /\ rows'[r][x].fainted = rows[r][x].fainted
    BY <1>2, <2>1 DEF Fielded, Benched
  <2> QED  BY <2>1, <2>2, IdleOk, FlagStep DEF SwitchWrite, End
<1> QED  BY <1>4, <1>5

LEMMA LeadStepsKeep ==
    ASSUME IInv, NEW t \in Task,
           LeadRoster(t) \/ LeadReady(t) \/ LeadBoth(t)
    PROVE  IInv'
<1>1. CASE LeadRoster(t)
  <2>1. TaskOk([task[t] EXCEPT !.pc = "lead_write"], buffer)
    BY <1>1, GotoOk DEF LeadRoster, At
  <2> QED  BY <1>1, <2>1, QuietStep, EndStep DEF LeadRoster, Goto, IInv, TypeOK
<1>2. CASE LeadReady(t)
  <2>1. TaskOk([task[t] EXCEPT !.pc = "lead_both"], buffer)
    BY <1>2, GotoOk DEF LeadReady, At
  <2>2. task[t].who \in Players
    BY <1>2 DEF LeadReady, At, IInv, TaskOk
  <2> QED  BY <1>2, <2>1, <2>2, QuietStep DEF LeadReady, Goto, IInv, TypeOK
<1>3. CASE LeadBoth(t)
  <2>1. TaskOk([task[t] EXCEPT !.pc = "lead_live"], buffer)
    BY <1>3, GotoOk DEF LeadBoth, At
  <2> QED  BY <1>3, <2>1, QuietStep, EndStep DEF LeadBoth, Goto, IInv, TypeOK
<1> QED  BY <1>1, <1>2, <1>3

LEMMA LeadLiveKeeps ==
    ASSUME IInv, NEW t \in Task, LeadLive(t)
    PROVE  IInv'
<1>1. /\ task' \in [Task -> TaskState]
      /\ \A u \in Task : task'[u] = IF u = t THEN Idle ELSE task[u]
  BY IdleFields DEF LeadLive, End, Become, IInv, TypeOK
<1>2. \A u \in Task : TaskOk(task'[u], buffer')
  BY <1>1, IdleOk DEF IInv, LeadLive
<1>3. CASE duel.status # "pending"
  BY <1>1, <1>2, <1>3 DEF IInv, TypeOK, LeadLive
<1>4. CASE duel.status = "pending"
  <2>1. /\ duel' \in DuelRow /\ duel'.status = "in_progress"
        /\ duel'.winner = duel.winner /\ duel'.reason = duel.reason
    BY <1>4 DEF LeadLive, IInv, TypeOK, DuelRow
  <2>2. rows' = rows /\ WholeVerdict(duel) /\ Agree(duel, rows)
    BY DEF LeadLive, IInv
  <2>3. WholeVerdict(duel') /\ Agree(duel', rows')
    BY <1>4, <2>1, <2>2 DEF WholeVerdict, Agree
  <2>4. TypeOK'
    BY <1>1, <2>1 DEF LeadLive, IInv, TypeOK
  <2> QED  BY <1>2, <2>2, <2>3, <2>4 DEF IInv
<1> QED  BY <1>3, <1>4

---------------------------------------------------------------------------
(* Picks and the turn window. *)

\* A step that changes the buffer, without emptying a full one, and one task.
LEMMA BufferStep ==
    ASSUME IInv, NEW t \in Task, NEW s, Become(t, s), TaskOk(s, buffer'),
           buffer' \in Buffers, Full(buffer) => Full(buffer'),
           UNCHANGED <<database, phase, leads, announced>>, timer' \in BOOLEAN
    PROVE  IInv'
<1>1. /\ task' \in [Task -> TaskState]
      /\ \A u \in Task : task'[u] = IF u = t THEN s ELSE task[u]
  BY DEF IInv, TypeOK, TaskOk, Become
<1>2. TypeOK'
  BY <1>1 DEF IInv, TypeOK, database
<1>3. ASSUME NEW u \in Task, u # t
      PROVE  TaskOk(task[u], buffer')
  <2>1. TaskOk(task[u], buffer)
    BY DEF IInv
  <2> QED  BY <2>1 DEF TaskOk
<1>4. \A u \in Task : TaskOk(task'[u], buffer')
  BY <1>1, <1>3
<1> QED  BY <1>2, <1>4 DEF IInv, database

\* A step that deletes the buffer: whoever held it keeps a copy of its picks.
LEMMA DeleteStep ==
    ASSUME IInv, NEW t \in Task, NEW s, Deleting(t, s), TaskOk(s, NoPicks),
           buffer' = NoPicks, UNCHANGED database,
           phase' \in {"none", "lead_selection", "in_progress", "finished"},
           leads' \subseteq Players, timer' \in BOOLEAN,
           announced' \in {Unannounced} \cup
             (Players \X {"ko", "surrender", "disconnect"})
    PROVE  IInv'
<1>1. ASSUME NEW u \in Task
      PROVE  TaskOk(Detached(task[u]), NoPicks)
  <2>1. TaskOk(task[u], buffer) /\ buffer \in Buffers
    BY DEF IInv, TypeOK
  <2>2. CASE ~task[u].live
    BY <2>1, <2>2 DEF TaskOk, Detached
  <2>3. CASE task[u].live
    <3> DEFINE d == [task[u] EXCEPT !.live = FALSE, !.acts = buffer]
    <3>1. /\ d \in TaskState
          /\ d.pc = task[u].pc /\ d.who = task[u].who /\ d.slot = task[u].slot
          /\ d.move = task[u].move /\ d.duel = task[u].duel /\ d.rows = task[u].rows
          /\ d.live = FALSE /\ d.acts = buffer
      BY <2>1 DEF TaskOk, TaskState
    <3>2. Detached(task[u]) = d
      BY <2>3 DEF Detached
    <3>3. task[u].pc \in {"round_duel", "round_rows"} => ~task[u].live
      BY <2>1 DEF TaskOk
    <3> HIDE DEF d
    <3> QED  BY <2>1, <2>3, <3>1, <3>2, <3>3 DEF TaskOk
  <2> QED  BY <2>2, <2>3
<1>2. \A u \in Task : task'[u] = IF u = t THEN s ELSE Detached(task[u])
  BY DEF Deleting
<1>3. \A u \in Task : TaskOk(task'[u], NoPicks)
  BY <1>1, <1>2
<1>4. task' \in [Task -> TaskState]
  <2>1. \A u \in Task : (IF u = t THEN s ELSE Detached(task[u])) \in TaskState
    BY <1>1 DEF TaskOk
  <2> QED  BY <2>1 DEF Deleting
<1>5. TypeOK'
  BY <1>4 DEF IInv, TypeOK, database, NoPicks, Buffers
<1> QED  BY <1>3, <1>5 DEF IInv, database

LEMMA AttemptOk ==
    ASSUME NEW s \in TaskState, FaintMatchesHp(s.rows), NEW b, Full(b)
    PROVE  TaskOk(Attempt(s), b)
<1> DEFINE a == Attempt(s)
<1>1. /\ a \in TaskState
      /\ a.pc = "take_state" /\ a.live = TRUE /\ a.rows = s.rows
  <2>1. NoPicks \in Buffers
    BY DEF NoPicks, Buffers
  <2> QED  BY <2>1 DEF Attempt, TaskState, PC
<1> HIDE DEF a
<1>2. TaskOk(a, b)
  BY <1>1 DEF TaskOk
<1> QED  BY <1>2 DEF a

LEMMA SelectActionKeeps ==
    ASSUME IInv, NEW t \in Task, NEW p \in Players, NEW m \in Move,
           SelectAction(t, p, m)
    PROVE  IInv'
<1> DEFINE s == [Idle EXCEPT !.pc = "pick_buffer", !.who = p, !.move = m]
<1>1. /\ s \in TaskState
      /\ s.pc = "pick_buffer" /\ s.who = p /\ s.move = m /\ s.rows = SeededRows
      /\ s.live = FALSE
  BY IdleFields DEF TaskState, PC
<1> HIDE DEF s
<1>2. TaskOk(s, buffer)
  BY <1>1, SeededRowsFacts DEF TaskOk
<1> QED  BY <1>2, QuietStep DEF SelectAction, IInv, TypeOK, s

LEMMA BufferPickKeeps ==
    ASSUME IInv, NEW t \in Task, BufferPick(t)
    PROVE  IInv'
<1> DEFINE s == [task[t] EXCEPT !.move = NoMove, !.who = Nobody]
           w == [s EXCEPT !.pc = "pick_arm"]
<1>1. /\ TaskOk(task[t], buffer) /\ task[t].pc = "pick_buffer"
      /\ buffer \in Buffers /\ timer \in BOOLEAN
  BY DEF IInv, TypeOK, BufferPick, At
<1>2. /\ s \in TaskState /\ s.rows = task[t].rows /\ s.live = task[t].live
      /\ w \in TaskState /\ w.pc = "pick_arm"
      /\ w.rows = task[t].rows /\ w.live = task[t].live
  BY <1>1 DEF TaskOk, TaskState, PC
<1>3. task[t].live = FALSE /\ FaintMatchesHp(task[t].rows)
  BY <1>1 DEF TaskOk, TaskState
<1>4. /\ buffer' = [buffer EXCEPT ![task[t].who] = task[t].move]
      /\ \/ Full(buffer') /\ timer' = FALSE /\ Become(t, Attempt(s))
         \/ Become(t, w) /\ timer' = timer
         \/ End(t) /\ timer' = timer
  BY DEF BufferPick
<1> HIDE DEF s, w
<1>5. buffer' \in Buffers /\ (Full(buffer) => Full(buffer'))
  <2>1. task[t].who \in Players /\ task[t].move \in Move
    BY <1>1 DEF TaskOk
  <2> QED  BY <1>1, <1>4, <2>1, ServerAssumption DEF Buffers, Full
<1>6. Full(buffer') => TaskOk(Attempt(s), buffer')
  BY <1>2, <1>3, AttemptOk
<1>7. TaskOk(w, buffer')
  BY <1>2, <1>3 DEF TaskOk
<1> QED  BY <1>1, <1>4, <1>5, <1>6, <1>7, IdleOk, BufferStep DEF BufferPick, End

LEMMA ArmTimerKeeps ==
    ASSUME IInv, NEW t \in Task, ArmTimer(t)
    PROVE  IInv'
BY EndStep DEF ArmTimer, IInv, TypeOK

LEMMA TimerExpiresKeeps ==
    ASSUME IInv, NEW t \in Task, TimerExpires(t)
    PROVE  IInv'
<1> DEFINE w == [Idle EXCEPT !.pc = "expiry_state", !.live = TRUE]
<1>1. w \in TaskState /\ w.pc = "expiry_state" /\ w.rows = SeededRows
  BY IdleFields DEF TaskState, PC
<1> HIDE DEF w
<1>2. TaskOk(w, buffer)
  BY <1>1, SeededRowsFacts DEF TaskOk
<1>3. Full(buffer) => TaskOk(Attempt(Idle), buffer)
  BY IdleFields, SeededRowsFacts, AttemptOk
<1>4. \/ UNCHANGED task
      \/ Full(buffer) /\ Become(t, Attempt(Idle))
      \/ Become(t, w)
  BY DEF TimerExpires, w
<1>5. CASE UNCHANGED task
  BY <1>5 DEF TimerExpires, IInv, TypeOK, database
<1>6. CASE ~UNCHANGED task
  BY <1>2, <1>3, <1>4, <1>6, QuietStep DEF TimerExpires, IInv, TypeOK
<1> QED  BY <1>5, <1>6

LEMMA FillTimeoutKeeps ==
    ASSUME IInv, NEW t \in Task, FillTimeout(t)
    PROVE  IInv'
<1> DEFINE filled == [p \in Players |->
                        IF buffer[p] = NoMove THEN WeakMove ELSE buffer[p]]
<1>1. buffer \in Buffers /\ timer \in BOOLEAN
  BY DEF IInv, TypeOK
<1>2. filled \in Buffers /\ (Full(buffer) => Full(filled))
  BY <1>1 DEF Buffers, Full, Move
<1>3. /\ buffer' = IF task[t].live THEN filled ELSE buffer
      /\ IF Full(buffer') THEN Become(t, Attempt(Idle)) ELSE End(t)
  BY DEF FillTimeout
<1> HIDE DEF filled
<1>4. Full(buffer') => TaskOk(Attempt(Idle), buffer')
  BY IdleFields, SeededRowsFacts, AttemptOk
<1>5. TaskOk(Idle, buffer')
  BY IdleOk
<1>6. buffer' \in Buffers /\ (Full(buffer) => Full(buffer'))
  BY <1>1, <1>2, <1>3
<1> QED  BY <1>1, <1>3, <1>4, <1>5, <1>6, BufferStep DEF FillTimeout, End

LEMMA TakePicksKeeps ==
    ASSUME IInv, NEW t \in Task, TakePicks(t)
    PROVE  IInv'
<1> DEFINE s == [Idle EXCEPT !.pc = "round_duel", !.acts = Held(t)]
<1>1. TaskOk(task[t], buffer) /\ task[t].pc = "take_state" /\ buffer \in Buffers
  BY DEF IInv, TypeOK, TakePicks, At
<1>2. Held(t) \in Buffers /\ Full(Held(t))
  BY <1>1 DEF Held, TaskOk, TaskState
<1>3. /\ s \in TaskState /\ s.pc = "round_duel" /\ s.acts = Held(t)
      /\ s.live = FALSE /\ s.rows = SeededRows
  BY <1>2, IdleFields DEF TaskState, PC
<1>4. Deleting(t, s)
  BY DEF TakePicks
<1> HIDE DEF s
<1>5. TaskOk(s, NoPicks)
  BY <1>2, <1>3, SeededRowsFacts DEF TaskOk
<1> QED  BY <1>4, <1>5, DeleteStep DEF TakePicks, IInv, TypeOK

---------------------------------------------------------------------------
(* Rounds. *)

LEMMA RoundReadDuelKeeps ==
    ASSUME IInv, NEW t \in Task, RoundReadDuel(t)
    PROVE  IInv'
<1> DEFINE live == [task[t] EXCEPT !.pc = "round_rows", !.duel = duel]
           void == [Idle EXCEPT !.pc = "fresh_duel"]
<1>1. /\ TaskOk(task[t], buffer) /\ task[t].pc = "round_duel"
      /\ duel \in DuelRow /\ WholeVerdict(duel)
  BY DEF IInv, TypeOK, RoundReadDuel, At
<1>2. /\ live \in TaskState /\ live.pc = "round_rows" /\ live.duel = duel
      /\ live.acts = task[t].acts /\ live.rows = task[t].rows
      /\ live.live = task[t].live
  BY <1>1 DEF TaskOk, TaskState, PC
<1>a. /\ void \in TaskState /\ void.pc = "fresh_duel" /\ void.live = FALSE
      /\ void.rows = SeededRows
  BY IdleFields DEF TaskState, PC
<1>3. IF duel.status = "in_progress" THEN Become(t, live) ELSE Become(t, void)
  BY DEF RoundReadDuel
<1> HIDE DEF live, void
<1>4. TaskOk(void, buffer)
  BY <1>a, SeededRowsFacts DEF TaskOk
<1>5. duel.status = "in_progress" => TaskOk(live, buffer)
  BY <1>1, <1>2 DEF TaskOk
<1> QED  BY <1>3, <1>4, <1>5, QuietStep DEF RoundReadDuel, IInv, TypeOK

\* The end check of resolveRoundLogic gives a verdict that agrees with the rows.
LEMMA RoundDuelAgrees ==
    ASSUME NEW seen \in DuelRow, NEW next \in Rows,
           seen.status = "in_progress", WholeVerdict(seen),
           \E p \in Players : hasNonFainted(next, p)
    PROVE  /\ RoundDuel(seen, next) \in DuelRow
           /\ RoundDuel(seen, next).status # "pending"
           /\ WholeVerdict(RoundDuel(seen, next))
           /\ Agree(RoundDuel(seen, next), next)
<1>1. CASE ~TeamWiped(next)
  <2>1. RoundDuel(seen, next) = seen
    BY <1>1 DEF RoundDuel
  <2>2. seen.reason = "none"
    BY DEF WholeVerdict
  <2>3. Agree(seen, next)
    BY <1>1, <2>2 DEF Agree
  <2> QED  BY <2>1, <2>3
<1>2. CASE TeamWiped(next)
  <2> DEFINE w == KoWinner(next)
  <2>1. w \in Players /\ hasNonFainted(next, w) /\ ~hasNonFainted(next, opponentOf(w))
    BY <1>2, RulesAssumption DEF KoWinner, TeamWiped, Players, opponentOf
  <2>2. RoundDuel(seen, next) = [status |-> "finished", winner |-> w, reason |-> "ko"]
    BY <1>2 DEF RoundDuel
  <2> HIDE DEF w
  <2> QED  BY <2>1, <2>2 DEF DuelRow, WholeVerdict, Agree
<1> QED  BY <1>1, <1>2

LEMMA RoundReadRowsKeeps ==
    ASSUME IInv, NEW t \in Task, RoundReadRows(t)
    PROVE  IInv'
<1>1. /\ TaskOk(task[t], buffer) /\ task[t].pc = "round_rows"
      /\ rows \in Rows /\ FaintMatchesHp(rows) /\ Agree(duel, rows)
  BY DEF IInv, TypeOK, RoundReadRows, At
<1>2. CASE ~\A p \in Players : HasActive(rows, p)
  BY <1>2, EndStep DEF RoundReadRows, IInv, TypeOK
<1>3. CASE \A p \in Players : HasActive(rows, p)
  <2> DEFINE mv == task[t].acts
  <2>1. /\ mv \in Buffers /\ Full(mv)
        /\ task[t].duel \in DuelRow /\ task[t].duel.status = "in_progress"
        /\ WholeVerdict(task[t].duel)
    BY <1>1 DEF TaskOk, TaskState
  <2>2. mv \in [Players -> Move]
    BY <2>1 DEF Buffers, Full
  <2>3. PICK first \in Players :
          LET next == ResolvedRows(rows, mv, first)
          IN  Become(t, [Idle EXCEPT !.pc = "round_write", !.rows = next,
                                     !.duel = RoundDuel(task[t].duel, next)])
    BY <1>3 DEF RoundReadRows
  <2> DEFINE next == ResolvedRows(rows, mv, first)
             d    == RoundDuel(task[t].duel, next)
             s    == [Idle EXCEPT !.pc = "round_write", !.rows = next, !.duel = d]
  <2>4. /\ next \in Rows /\ FaintMatchesHp(next)
        /\ \E p \in Players : hasNonFainted(next, p)
    BY <1>1, <1>3, <2>2, RoundIsSound DEF Agree
  <2>5. Become(t, s)
    BY <2>3
  <2> HIDE DEF next
  <2>6. /\ d \in DuelRow /\ d.status # "pending"
        /\ WholeVerdict(d) /\ Agree(d, next)
    BY <2>1, <2>4, RoundDuelAgrees
  <2> HIDE DEF d
  <2>7. /\ s \in TaskState /\ s.pc = "round_write" /\ s.live = FALSE
        /\ s.rows = next /\ s.duel = d
    BY <2>4, <2>6, IdleFields DEF TaskState, PC
  <2> HIDE DEF s
  <2>8. TaskOk(s, buffer)
    BY <2>4, <2>6, <2>7 DEF TaskOk
  <2> QED  BY <2>5, <2>8, QuietStep DEF RoundReadRows, IInv, TypeOK
<1> QED  BY <1>2, <1>3

LEMMA RoundWriteKeeps ==
    ASSUME IInv, NEW t \in Task, RoundWrite(t)
    PROVE  IInv'
<1> DEFINE s == [task[t] EXCEPT !.pc = "round_done", !.rows = SeededRows]
<1>1. TaskOk(task[t], buffer) /\ task[t].pc = "round_write"
  BY DEF IInv, RoundWrite, At
<1>2. /\ duel' = task[t].duel /\ duel' \in DuelRow
      /\ rows' = task[t].rows /\ rows' \in Rows
      /\ WholeVerdict(duel') /\ Agree(duel', rows') /\ FaintMatchesHp(rows')
  BY <1>1 DEF RoundWrite, TaskOk, TaskState
<1>3. /\ s \in TaskState /\ s.pc = "round_done" /\ s.duel = task[t].duel
      /\ s.rows = SeededRows /\ s.live = task[t].live
  BY <1>1, SeededRowsFacts DEF TaskOk, TaskState, PC
<1>4. Become(t, s)
  BY DEF RoundWrite
<1> HIDE DEF s
<1>5. TaskOk(s, buffer)
  BY <1>1, <1>3, SeededRowsFacts DEF TaskOk
<1>6. /\ task' \in [Task -> TaskState]
      /\ \A u \in Task : task'[u] = IF u = t THEN s ELSE task[u]
  BY <1>3, <1>4 DEF IInv, TypeOK, Become
<1>7. TypeOK'
  BY <1>2, <1>6 DEF IInv, TypeOK, RoundWrite
<1>8. \A u \in Task : TaskOk(task'[u], buffer')
  BY <1>5, <1>6 DEF IInv, RoundWrite
<1> QED  BY <1>2, <1>7, <1>8 DEF IInv

LEMMA RoundDoneKeeps ==
    ASSUME IInv, NEW t \in Task, RoundDone(t)
    PROVE  IInv'
<1> DEFINE void == [Idle EXCEPT !.pc = "fresh_duel"]
<1>1. /\ void \in TaskState /\ void.pc = "fresh_duel" /\ void.live = FALSE
      /\ void.rows = SeededRows
  BY IdleFields DEF TaskState, PC
<1>2. Become(t, void)
  BY DEF RoundDone
<1> HIDE DEF void
<1>3. TaskOk(void, buffer)
  BY <1>1, SeededRowsFacts DEF TaskOk
<1>4. phase' \in {"in_progress", "finished"}
  <2>1. TaskOk(task[t], buffer) /\ task[t].pc = "round_done"
    BY DEF IInv, RoundDone, At
  <2>2. task[t].duel \in DuelRow /\ task[t].duel.status # "pending"
    BY <2>1 DEF TaskOk, TaskState
  <2> QED  BY <2>2 DEF RoundDone, DuelRow
<1> QED  BY <1>2, <1>3, <1>4, QuietStep DEF RoundDone, IInv, TypeOK

---------------------------------------------------------------------------
(* Ending a duel. *)

LEMMA FinalizeKeeps ==
    ASSUME IInv, NEW t \in Task, NEW w \in Players,
           NEW why \in {"ko", "surrender", "disconnect"},
           Finalize(t, <<w, why>>), UNCHANGED database
    PROVE  IInv'
BY IdleOk, DeleteStep DEF Finalize

LEMMA FreshDuelKeeps ==
    ASSUME IInv, NEW t \in Task, FreshDuel(t)
    PROVE  IInv'
<1> DEFINE s == [task[t] EXCEPT !.pc = "fresh_rows", !.duel = duel]
<1>1. /\ TaskOk(task[t], buffer) /\ task[t].pc = "fresh_duel"
      /\ duel \in DuelRow /\ WholeVerdict(duel)
  BY DEF IInv, TypeOK, FreshDuel, At
<1>2. /\ s \in TaskState /\ s.pc = "fresh_rows" /\ s.rows = task[t].rows
      /\ s.live = task[t].live /\ s.duel = duel
  BY <1>1 DEF TaskOk, TaskState, PC
<1> HIDE DEF s
<1>3. TaskOk(s, buffer)
  BY <1>1, <1>2 DEF TaskOk
<1> QED  BY <1>3, QuietStep DEF FreshDuel, IInv, TypeOK, s

LEMMA FreshRowsKeeps ==
    ASSUME IInv, NEW t \in Task, FreshRows(t)
    PROVE  IInv'
<1>1. task[t].duel.status = "finished" => task[t].duel.winner \in Players
  BY DEF IInv, TaskOk, WholeVerdict, FreshRows, At
<1>2. CASE task[t].duel.status = "finished"
  BY <1>1, <1>2, FinalizeKeeps DEF FreshRows
<1>3. CASE task[t].duel.status # "finished"
  BY <1>3, EndStep DEF FreshRows, IInv, TypeOK, database
<1> QED  BY <1>2, <1>3

LEMMA StartFinishKeeps ==
    ASSUME IInv, NEW t \in Task, NEW p \in Players, NEW open,
           NEW why \in {"surrender", "disconnect"}, StartFinish(t, p, open, why)
    PROVE  IInv'
<1> DEFINE d == [status |-> "finished", winner |-> opponentOf(p), reason |-> why]
           s == [Idle EXCEPT !.pc = "finish_write", !.duel = d]
<1>1. /\ d \in DuelRow /\ d.status = "finished" /\ d.winner \in Players
      /\ d.reason = why
  BY OpponentIsPlayer DEF DuelRow
<1>2. Become(t, s)
  BY DEF StartFinish
<1> HIDE DEF d
<1>3. /\ s \in TaskState /\ s.pc = "finish_write" /\ s.duel = d
      /\ s.live = FALSE /\ s.rows = SeededRows
  BY <1>1, IdleFields DEF TaskState, PC
<1> HIDE DEF s
<1>4. TaskOk(s, buffer)
  BY <1>1, <1>3, SeededRowsFacts DEF TaskOk
<1> QED  BY <1>2, <1>4, QuietStep DEF StartFinish, IInv, TypeOK

LEMMA FinishWriteKeeps ==
    ASSUME IInv, NEW t \in Task, FinishWrite(t)
    PROVE  IInv'
<1>1. TaskOk(task[t], buffer) /\ task[t].pc = "finish_write"
  BY DEF IInv, FinishWrite, At
<1>2. CASE duel.status \notin {"pending", "in_progress"}
  BY <1>2, EndStep DEF FinishWrite, IInv, TypeOK, database
<1>3. CASE duel.status \in {"pending", "in_progress"}
  <2> DEFINE s == [task[t] EXCEPT !.pc = "finish_done"]
  <2>1. TaskOk(s, buffer)
    BY <1>1, GotoOk
  <2>2. duel' = task[t].duel /\ Become(t, s)
    BY <1>3 DEF FinishWrite, Goto
  <2>3. /\ duel' \in DuelRow /\ duel'.status = "finished"
        /\ duel'.winner \in Players /\ duel'.reason \in {"surrender", "disconnect"}
    BY <1>1, <2>2 DEF TaskOk, TaskState
  <2>4. WholeVerdict(duel') /\ Agree(duel', rows)
    BY <2>3 DEF WholeVerdict, Agree, IInv
  <2> HIDE DEF s
  <2>5. /\ task' \in [Task -> TaskState]
        /\ \A u \in Task : task'[u] = IF u = t THEN s ELSE task[u]
    BY <2>1, <2>2 DEF IInv, TypeOK, TaskOk, Become
  <2>6. TypeOK'
    BY <2>3, <2>5 DEF IInv, TypeOK, FinishWrite
  <2>7. \A u \in Task : TaskOk(task'[u], buffer')
    BY <2>1, <2>5 DEF IInv, FinishWrite
  <2> QED  BY <2>4, <2>6, <2>7 DEF IInv, FinishWrite
<1> QED  BY <1>2, <1>3

LEMMA FinishDoneKeeps ==
    ASSUME IInv, NEW t \in Task, FinishDone(t)
    PROVE  IInv'
<1>1. /\ task[t].duel.winner \in Players
      /\ task[t].duel.reason \in {"surrender", "disconnect"}
  BY DEF IInv, TaskOk, FinishDone, At
<1> QED  BY <1>1, FinalizeKeeps DEF FinishDone

---------------------------------------------------------------------------
LEMMA IInvInit == Init => IInv
<1> SUFFICES ASSUME Init PROVE IInv
  OBVIOUS
<1>1. /\ duel = NewDuel /\ rows = SeededRows /\ phase = "lead_selection"
      /\ leads = {} /\ buffer = NoPicks /\ timer = FALSE /\ announced = Unannounced
      /\ task = [t \in Task |-> Idle]
  BY DEF Init
<1>2. TypeOK
  BY <1>1, SeededRowsFacts, IdleFields
     DEF TypeOK, NewDuel, DuelRow, NoPicks, Buffers
<1>3. WholeVerdict(duel)
  BY <1>1 DEF NewDuel, WholeVerdict
<1>4. Agree(duel, rows)
  BY <1>1, SeededRowsFacts DEF NewDuel, Agree, TeamWiped, Players
<1>5. \A t \in Task : TaskOk(task[t], buffer)
  BY <1>1, IdleOk
<1> QED  BY <1>1, <1>2, <1>3, <1>4, <1>5, SeededRowsFacts DEF IInv

LEMMA IInvStep == IInv /\ [Next]_vars => IInv'
<1> SUFFICES ASSUME IInv, [Next]_vars PROVE IInv'
  OBVIOUS
<1>1. ASSUME NEW t \in Handler, Request(t)
      PROVE  IInv'
  <2>1. t \in Task
    BY DEF Task
  <2>2. ASSUME NEW p \in Players, Surrender(t, p) \/ Disconnect(t, p)
        PROVE  IInv'
    BY <2>1, <2>2, StartFinishKeeps DEF Surrender, Disconnect
  <2> QED  BY <1>1, <2>1, <2>2, SelectLeadKeeps, SwitchDecisionKeeps,
              SelectActionKeeps DEF Request
<1>2. ASSUME NEW t \in Expiry, TimerExpires(t)
      PROVE  IInv'
  <2>1. t \in Task
    BY DEF Task
  <2> QED  BY <1>2, <2>1, TimerExpiresKeeps
<1>3. ASSUME NEW t \in Task, Continue(t)
      PROVE  IInv'
  BY <1>3, LeadStepsKeep, LeadWriteKeeps, LeadLiveKeeps, SwitchActiveKeeps,
     SwitchWriteKeeps, BufferPickKeeps, ArmTimerKeeps, FillTimeoutKeeps,
     TakePicksKeeps, RoundReadDuelKeeps, RoundReadRowsKeeps, RoundWriteKeeps,
     RoundDoneKeeps, FreshDuelKeeps, FreshRowsKeeps, FinishWriteKeeps,
     FinishDoneKeeps DEF Continue
<1>4. ASSUME NEW t \in Task, QueryFails(t)
      PROVE  IInv'
  BY <1>4, EndStep DEF QueryFails, IInv, TypeOK
<1>5. CASE UNCHANGED vars
  BY <1>5 DEF vars, database, IInv, TypeOK
<1> QED  BY <1>1, <1>2, <1>3, <1>4, <1>5 DEF Next

LEMMA IInvHolds == Spec => []IInv
BY IInvInit, IInvStep, PTL DEF Spec

\* Every state of the interleaved server is well typed: no handler acts on a
\* missing player, an absent pick or a half-read duel.
THEOREM TypeCorrect == Spec => []TypeOK
<1>1. IInv => TypeOK
  BY DEF IInv
<1> QED  BY <1>1, IInvHolds, PTL

\* However rounds, switches, surrenders, retries and failed queries interleave,
\* the verdict in duels agrees with the rows of duel_pokemon_state: both are
\* written in one transaction, and from one reading.
THEOREM KnockOutIsRight == Spec => []KoVerdict
<1>1. IInv => KoVerdict
  BY DEF IInv, Agree, KoVerdict
<1> QED  BY <1>1, IInvHolds, PTL

\* A pokemon is fainted exactly when it has no hit points, also in the rows that
\* a round in flight is about to write.
THEOREM FaintedMatchesHp == Spec => []FaintedIffNoHp
<1>1. IInv => FaintedIffNoHp
  BY DEF IInv, TaskOk, FaintMatchesHp, FaintedIffNoHp
<1> QED  BY <1>1, IInvHolds, PTL

---------------------------------------------------------------------------
(* Picks have owners. *)

\* A task whose next step opens the window, or fills or takes the buffer.
OwnsPick(s) ==
    \/ s.pc = "pick_arm"
    \/ s.pc \in {"expiry_state", "take_state"} /\ s.live

LEMMA OwnerStays ==
    ASSUME IInv, PickHasOwner, NEW t \in Task, NEW s, Become(t, s),
           ~OwnsPick(task[t]), UNCHANGED <<buffer, timer>>
    PROVE  PickHasOwner'
<1>1. \A u \in Task : task'[u] = IF u = t THEN s ELSE task[u]
  BY DEF IInv, TypeOK, Become
<1> QED  BY <1>1 DEF PickHasOwner, OwnsPick, At

LEMMA OwnerFound ==
    ASSUME IInv, NEW t \in Task, NEW s, Become(t, s), OwnsPick(s)
    PROVE  PickHasOwner'
<1>1. task'[t] = s
  BY DEF IInv, TypeOK, Become
<1> QED  BY <1>1 DEF PickHasOwner, OwnsPick, At

LEMMA AttemptOwns ==
    ASSUME NEW s \in TaskState
    PROVE  OwnsPick(Attempt(s))
BY DEF OwnsPick, Attempt, TaskState

LEMMA PicksStepOwned ==
    ASSUME IInv, PickHasOwner, NEW t \in Task,
           BufferPick(t) \/ ArmTimer(t) \/ FillTimeout(t) \/ TakePicks(t)
    PROVE  PickHasOwner'
<1>1. CASE BufferPick(t)
  <2> DEFINE s == [task[t] EXCEPT !.move = NoMove, !.who = Nobody]
             w == [s EXCEPT !.pc = "pick_arm"]
  <2>1. task[t] \in TaskState /\ task[t].pc = "pick_buffer"
    BY <1>1 DEF IInv, TypeOK, BufferPick, At
  <2>2. s \in TaskState /\ OwnsPick(w)
    BY <2>1 DEF TaskState, OwnsPick
  <2>3. \/ Become(t, Attempt(s))
        \/ Become(t, w)
        \/ buffer # NoPicks /\ End(t) /\ timer' = timer
    BY <1>1 DEF BufferPick
  <2> HIDE DEF s, w
  <2>4. CASE Become(t, Attempt(s))
    BY <2>2, <2>4, AttemptOwns, OwnerFound
  <2>5. CASE Become(t, w)
    BY <2>2, <2>5, OwnerFound
  <2>6. CASE buffer # NoPicks /\ End(t) /\ timer' = timer
    <3>1. \A u \in Task : task'[u] = IF u = t THEN Idle ELSE task[u]
      BY <2>6 DEF IInv, TypeOK, End, Become
    <3>2. ~OwnsPick(task[t])
      BY <2>1 DEF OwnsPick
    <3> QED  BY <2>6, <3>1, <3>2 DEF PickHasOwner, OwnsPick, At
  <2> QED  BY <2>3, <2>4, <2>5, <2>6
<1>2. CASE ArmTimer(t)
  BY <1>2 DEF ArmTimer, PickHasOwner
<1>3. CASE FillTimeout(t)
  <2> DEFINE filled == [p \in Players |->
                          IF buffer[p] = NoMove THEN WeakMove ELSE buffer[p]]
  <2>1. Full(filled)
    BY ServerAssumption DEF Full, Move
  <2>2. /\ buffer' = IF task[t].live THEN filled ELSE buffer
        /\ IF Full(buffer') THEN Become(t, Attempt(Idle)) ELSE End(t)
        /\ timer' = timer /\ task[t].pc = "expiry_state"
    BY <1>3 DEF FillTimeout, At
  <2> HIDE DEF filled
  <2>3. CASE Full(buffer')
    BY <2>2, <2>3, IdleFields, AttemptOwns, OwnerFound
  <2>4. CASE ~Full(buffer')
    <3>1. ~task[t].live /\ buffer' = buffer /\ End(t)
      BY <2>1, <2>2, <2>4
    <3>2. ~OwnsPick(task[t])
      BY <2>2, <3>1 DEF OwnsPick
    <3> QED  BY <2>2, <3>1, <3>2, OwnerStays DEF End
  <2> QED  BY <2>3, <2>4
<1>4. CASE TakePicks(t)
  BY <1>4 DEF TakePicks, PickHasOwner
<1> QED  BY <1>1, <1>2, <1>3, <1>4

LEMMA TimerExpiresOwned ==
    ASSUME IInv, NEW t \in Task, TimerExpires(t)
    PROVE  PickHasOwner'
<1> DEFINE w == [Idle EXCEPT !.pc = "expiry_state", !.live = TRUE]
<1>1. OwnsPick(w) /\ OwnsPick(Attempt(Idle))
  BY IdleFields, AttemptOwns DEF TaskState, OwnsPick
<1>2. \/ buffer' = NoPicks
      \/ Become(t, Attempt(Idle))
      \/ Become(t, w)
  BY DEF TimerExpires
<1> HIDE DEF w
<1> QED  BY <1>1, <1>2, OwnerFound DEF PickHasOwner

\* Every other step of a handler is taken by a task that owns no pick and leaves
\* buffer and window alone, or drops the buffer with the duel.
LEMMA OtherStepsOwned ==
    ASSUME IInv, PickHasOwner, NEW t \in Task,
           \/ LeadRoster(t) \/ LeadWrite(t) \/ LeadReady(t) \/ LeadBoth(t)
           \/ LeadLive(t) \/ SwitchActive(t) \/ SwitchWrite(t)
           \/ RoundReadDuel(t) \/ RoundReadRows(t) \/ RoundWrite(t)
           \/ RoundDone(t) \/ FreshDuel(t) \/ FreshRows(t)
           \/ FinishWrite(t) \/ FinishDone(t)
    PROVE  PickHasOwner'
<1>1. ~OwnsPick(task[t])
  BY DEF OwnsPick, At, LeadRoster, LeadWrite, LeadReady, LeadBoth, LeadLive,
         SwitchActive, SwitchWrite, RoundReadDuel, RoundReadRows, RoundWrite,
         RoundDone, FreshDuel, FreshRows, FinishWrite, FinishDone
<1>2. \/ buffer' = NoPicks
      \/ (\E s : Become(t, s)) /\ UNCHANGED <<buffer, timer>>
  BY DEF LeadRoster, LeadWrite, LeadReady, LeadBoth, LeadLive, Goto, End,
         SwitchActive, SwitchWrite, RoundReadDuel, RoundReadRows, RoundWrite,
         RoundDone, FreshDuel, FreshRows, FinishWrite, FinishDone, Finalize
<1> QED  BY <1>1, <1>2, OwnerStays DEF PickHasOwner

\* A handler takes its request in a slot that was idle.
LEMMA RequestOwned ==
    ASSUME IInv, PickHasOwner, NEW t \in Task, Request(t)
    PROVE  PickHasOwner'
<1>1. ~OwnsPick(task[t])
  BY DEF OwnsPick, At, Request, SelectLead, SwitchDecision, SelectAction,
         Surrender, Disconnect, StartFinish
<1>2. (\E s : Become(t, s)) /\ UNCHANGED <<buffer, timer>>
  BY DEF Request, SelectLead, SwitchDecision, SelectAction, Surrender,
         Disconnect, StartFinish
<1> QED  BY <1>1, <1>2, OwnerStays

\* If the queries awaited by the owner of a pick answer, no pick is ever
\* forgotten, whatever other query fails: the window of a lone pick is open or
\* about to be, or the buffer it is in is being filled or taken.
THEOREM PickIsOwned ==
    ASSUME Faulty \cap {"pick_arm", "expiry_state", "take_state"} = {}
    PROVE  Spec => []PickHasOwner
<1>1. Init => PickHasOwner
  BY DEF Init, PickHasOwner
<1>2. IInv /\ PickHasOwner /\ [Next]_vars => PickHasOwner'
  <2> SUFFICES ASSUME IInv, PickHasOwner, [Next]_vars PROVE PickHasOwner'
    OBVIOUS
  <2>1. ASSUME NEW t \in Handler, Request(t)
        PROVE  PickHasOwner'
    BY <2>1, RequestOwned DEF Task
  <2>2. ASSUME NEW t \in Expiry, TimerExpires(t)
        PROVE  PickHasOwner'
    BY <2>2, TimerExpiresOwned DEF Task
  <2>3. ASSUME NEW t \in Task, Continue(t)
        PROVE  PickHasOwner'
    BY <2>3, PicksStepOwned, OtherStepsOwned DEF Continue
  <2>4. ASSUME NEW t \in Task, QueryFails(t)
        PROVE  PickHasOwner'
    <3>1. ~OwnsPick(task[t])
      BY <2>4 DEF QueryFails, OwnsPick
    <3> QED  BY <2>4, <3>1, OwnerStays DEF QueryFails, End
  <2>5. CASE UNCHANGED vars
    BY <2>5 DEF vars, PickHasOwner, At
  <2> QED  BY <2>1, <2>2, <2>3, <2>4, <2>5 DEF Next
<1> QED  BY <1>1, <1>2, IInvHolds, PTL DEF Spec

---------------------------------------------------------------------------
(* The server implements DuelOutcome. *)

\* A step of t after which t is not between reading a live duel and writing it.
StartsNoRound(t) ==
    \E s : /\ Become(t, s) \/ Deleting(t, s)
           /\ s.pc \notin {"round_rows", "round_write"}

LEMMA NoRoundStarted ==
    ASSUME IInv, ~RoundInFlight, NEW t \in Task, StartsNoRound(t)
    PROVE  ~RoundInFlight'
<1>1. PICK s : /\ Become(t, s) \/ Deleting(t, s)
               /\ s.pc \notin {"round_rows", "round_write"}
  BY DEF StartsNoRound
<1>2. \A u \in Task : Detached(task[u]).pc = task[u].pc
  BY DEF IInv, TypeOK, TaskState, Detached
<1>3. \A u \in Task : task'[u].pc = IF u = t THEN s.pc ELSE task[u].pc
  BY <1>1, <1>2 DEF IInv, TypeOK, Become, Deleting
<1> QED  BY <1>1, <1>3 DEF RoundInFlight

LEMMA EndStartsNoRound ==
    ASSUME NEW t, End(t) PROVE StartsNoRound(t)
BY IdleFields DEF End, StartsNoRound

LEMMA GotoStartsNoRound ==
    ASSUME NEW t, task[t] \in TaskState, NEW pc, Goto(t, pc),
           pc \notin {"round_rows", "round_write"}
    PROVE  StartsNoRound(t)
<1>1. [task[t] EXCEPT !.pc = pc].pc = pc
  BY DEF TaskState
<1> QED  BY <1>1 DEF Goto, StartsNoRound

LEMMA RequestStartsNoRound ==
    ASSUME NEW t, Request(t) PROVE StartsNoRound(t)
<1>1. ASSUME NEW p, NEW x, SelectLead(t, p, x)
      PROVE  StartsNoRound(t)
  <2> DEFINE s == [Idle EXCEPT !.pc = "lead_roster", !.who = p, !.slot = x]
  <2>1. Become(t, s) /\ s.pc = "lead_roster"
    BY <1>1, IdleFields DEF SelectLead, TaskState
  <2> QED  BY <2>1 DEF StartsNoRound
<1>2. ASSUME NEW p, NEW x, SwitchDecision(t, p, x)
      PROVE  StartsNoRound(t)
  <2> DEFINE s == [Idle EXCEPT !.pc = "switch_active", !.who = p, !.slot = x]
  <2>1. Become(t, s) /\ s.pc = "switch_active"
    BY <1>2, IdleFields DEF SwitchDecision, TaskState
  <2> QED  BY <2>1 DEF StartsNoRound
<1>3. ASSUME NEW p, NEW m, SelectAction(t, p, m)
      PROVE  StartsNoRound(t)
  <2> DEFINE s == [Idle EXCEPT !.pc = "pick_buffer", !.who = p, !.move = m]
  <2>1. Become(t, s) /\ s.pc = "pick_buffer"
    BY <1>3, IdleFields DEF SelectAction, TaskState
  <2> QED  BY <2>1 DEF StartsNoRound
<1>4. ASSUME NEW p, NEW open, NEW why, StartFinish(t, p, open, why)
      PROVE  StartsNoRound(t)
  <2> DEFINE s == [Idle EXCEPT !.pc = "finish_write",
                               !.duel = [status |-> "finished",
                                         winner |-> opponentOf(p), reason |-> why]]
  <2>1. Become(t, s) /\ s.pc = "finish_write"
    BY <1>4, IdleFields DEF StartFinish, TaskState
  <2> QED  BY <2>1 DEF StartsNoRound
<1> QED  BY <1>1, <1>2, <1>3, <1>4 DEF Request, Surrender, Disconnect

LEMMA PicksStartNoRound ==
    ASSUME NEW t, task[t] \in TaskState,
           BufferPick(t) \/ ArmTimer(t) \/ FillTimeout(t) \/ TakePicks(t)
    PROVE  StartsNoRound(t)
<1>1. ASSUME NEW s \in TaskState, Become(t, Attempt(s))
      PROVE  StartsNoRound(t)
  <2>1. Attempt(s).pc = "take_state"
    BY DEF Attempt, TaskState
  <2> QED  BY <1>1, <2>1 DEF StartsNoRound
<1>2. CASE BufferPick(t)
  <2> DEFINE s == [task[t] EXCEPT !.move = NoMove, !.who = Nobody]
             w == [s EXCEPT !.pc = "pick_arm"]
  <2>1. s \in TaskState /\ w.pc = "pick_arm"
    BY DEF TaskState
  <2>2. Become(t, Attempt(s)) \/ Become(t, w) \/ End(t)
    BY <1>2 DEF BufferPick
  <2> HIDE DEF s, w
  <2>3. Become(t, w) => StartsNoRound(t)
    BY <2>1 DEF StartsNoRound
  <2> QED  BY <1>1, <2>1, <2>2, <2>3, EndStartsNoRound
<1>3. CASE ArmTimer(t) \/ FillTimeout(t)
  BY <1>1, <1>3, IdleFields, EndStartsNoRound DEF ArmTimer, FillTimeout
<1>4. CASE TakePicks(t)
  <2> DEFINE s == [Idle EXCEPT !.pc = "round_duel", !.acts = Held(t)]
  <2>1. Deleting(t, s) /\ s.pc = "round_duel"
    BY <1>4, IdleFields DEF TakePicks, TaskState
  <2> QED  BY <2>1 DEF StartsNoRound
<1> QED  BY <1>2, <1>3, <1>4

\* Only RoundReadDuel starts a round, and only on a live duel.
LEMMA RoundStepsStartNoRound ==
    ASSUME NEW t, task[t] \in TaskState, duel.status = "finished",
           task[t].pc \notin {"round_rows", "round_write"},
           \/ RoundReadDuel(t) \/ RoundReadRows(t) \/ RoundWrite(t)
           \/ RoundDone(t) \/ FreshDuel(t) \/ FreshRows(t) \/ FinishDone(t)
    PROVE  StartsNoRound(t)
<1> DEFINE f == [Idle EXCEPT !.pc = "fresh_duel"]
           r == [task[t] EXCEPT !.pc = "fresh_rows", !.duel = duel]
<1>1. f.pc = "fresh_duel" /\ r.pc = "fresh_rows"
  BY IdleFields DEF TaskState
<1>2. Become(t, f) \/ Become(t, r) \/ End(t) \/ Deleting(t, Idle)
  BY DEF At, RoundReadDuel, RoundReadRows, RoundWrite, RoundDone, FreshDuel,
         FreshRows, FinishDone, Finalize
<1> HIDE DEF f, r
<1>3. Become(t, f) \/ Become(t, r) => StartsNoRound(t)
  BY <1>1 DEF StartsNoRound
<1>4. Deleting(t, Idle) => StartsNoRound(t)
  BY IdleFields DEF StartsNoRound
<1> QED  BY <1>2, <1>3, <1>4, EndStartsNoRound

\* Once the duel is over and no round that saw it live is left, no step starts
\* one or touches the duels row again.
LEMMA SettledStays ==
    ASSUME IInv, Settled, [Next]_vars
    PROVE  Settled' /\ duel' = duel
<1>1. duel.status = "finished" /\ ~RoundInFlight
  BY DEF Settled
<1>2. ASSUME NEW t \in Task, StartsNoRound(t), duel' = duel
      PROVE  Settled' /\ duel' = duel
  BY <1>1, <1>2, NoRoundStarted DEF Settled
<1>3. ASSUME NEW t \in Handler, Request(t)
      PROVE  Settled' /\ duel' = duel
  <2>1. duel' = duel
    BY <1>3 DEF Request, SelectLead, SwitchDecision, SelectAction, Surrender,
                Disconnect, StartFinish, database
  <2> QED  BY <1>2, <1>3, <2>1, RequestStartsNoRound DEF Task
<1>4. ASSUME NEW t \in Expiry, TimerExpires(t)
      PROVE  Settled' /\ duel' = duel
  <2> DEFINE w == [Idle EXCEPT !.pc = "expiry_state", !.live = TRUE]
  <2>1. t \in Task /\ duel' = duel
    BY <1>4 DEF Task, TimerExpires, database
  <2>2. w.pc = "expiry_state" /\ Attempt(Idle).pc = "take_state"
    BY IdleFields DEF Attempt, TaskState
  <2>3. Become(t, w) \/ Become(t, Attempt(Idle)) \/ UNCHANGED task
    BY <1>4 DEF TimerExpires
  <2> HIDE DEF w
  <2>4. StartsNoRound(t) \/ UNCHANGED task
    BY <2>2, <2>3 DEF StartsNoRound
  <2> QED  BY <1>1, <1>2, <2>1, <2>4 DEF Settled, RoundInFlight
<1>5. ASSUME NEW t \in Task, Continue(t)
      PROVE  Settled' /\ duel' = duel
  <2>1. task[t] \in TaskState /\ task[t].pc \notin {"round_rows", "round_write"}
    BY <1>1 DEF IInv, TypeOK, RoundInFlight
  <2>2. duel' = duel
    BY <1>1, <1>5, <2>1
       DEF At, Continue, LeadRoster, LeadWrite, LeadReady, LeadBoth, LeadLive,
           SwitchActive, SwitchWrite, BufferPick, ArmTimer, FillTimeout, TakePicks,
           RoundReadDuel, RoundReadRows, RoundWrite, RoundDone, FreshDuel,
           FreshRows, FinishWrite, FinishDone, database
  <2>3. CASE LeadRoster(t) \/ LeadWrite(t) \/ LeadReady(t) \/ LeadBoth(t) \/ LeadLive(t)
    <3>1. StartsNoRound(t)
      BY <2>1, <2>3, GotoStartsNoRound, EndStartsNoRound
         DEF LeadRoster, LeadWrite, LeadReady, LeadBoth, LeadLive
    <3> QED  BY <1>2, <2>2, <3>1
  <2>4. CASE SwitchActive(t)
    <3>1. PICK prev : Become(t, [task[t] EXCEPT !.pc = "switch_write", !.prev = prev])
      BY <2>4 DEF SwitchActive
    <3>2. [task[t] EXCEPT !.pc = "switch_write", !.prev = prev].pc = "switch_write"
      BY <2>1 DEF TaskState
    <3>3. StartsNoRound(t)
      BY <3>1, <3>2 DEF StartsNoRound
    <3> QED  BY <1>2, <2>2, <3>3
  <2>5. CASE SwitchWrite(t) \/ FinishWrite(t)
    <3>1. StartsNoRound(t)
      BY <2>1, <2>5, GotoStartsNoRound, EndStartsNoRound DEF SwitchWrite, FinishWrite
    <3> QED  BY <1>2, <2>2, <3>1
  <2>6. CASE BufferPick(t) \/ ArmTimer(t) \/ FillTimeout(t) \/ TakePicks(t)
    BY <1>2, <2>1, <2>2, <2>6, PicksStartNoRound
  <2>7. CASE \/ RoundReadDuel(t) \/ RoundReadRows(t) \/ RoundWrite(t)
             \/ RoundDone(t) \/ FreshDuel(t) \/ FreshRows(t) \/ FinishDone(t)
    BY <1>1, <1>2, <2>1, <2>2, <2>7, RoundStepsStartNoRound
  <2> QED  BY <1>5, <2>3, <2>4, <2>5, <2>6, <2>7 DEF Continue
<1>6. ASSUME NEW t \in Task, QueryFails(t)
      PROVE  Settled' /\ duel' = duel
  BY <1>2, <1>6, EndStartsNoRound DEF QueryFails, database
<1>7. CASE UNCHANGED vars
  BY <1>1, <1>7 DEF vars, database, Settled, RoundInFlight
<1> QED  BY <1>3, <1>4, <1>5, <1>6, <1>7 DEF Next

\* Refinement: with every round that saw the duel live out of the way, the
\* verdict a room reads is whole, and it is given once.
THEOREM OneVerdict == Spec => DecidedOnce
<1> DEFINE shown == IF Settled THEN [winner |-> duel.winner, reason |-> duel.reason]
                               ELSE Open
<1>1. Init => Outcome!Init
  BY DEF Init, Outcome!Init, Settled, NewDuel
<1>2. IInv /\ IInv' /\ [Next]_vars => [Outcome!Next]_shown
  <2> SUFFICES ASSUME IInv, IInv', [Next]_vars PROVE [Outcome!Next]_shown
    OBVIOUS
  <2>1. CASE Settled
    BY <2>1, SettledStays
  <2>2. CASE ~Settled /\ ~Settled'
    BY <2>2 DEF Open
  <2>3. CASE ~Settled /\ Settled'
    <3>1. /\ duel'.winner \in Players
          /\ duel'.reason \in {"ko", "surrender", "disconnect"}
      BY <2>3 DEF IInv, TypeOK, DuelRow, WholeVerdict, Settled
    <3>2. Outcome!Decide(duel'.winner, duel'.reason)
      BY <2>3 DEF Outcome!Decide
    <3> QED  BY <3>1, <3>2 DEF Outcome!Next
  <2> QED  BY <2>1, <2>2, <2>3
<1> QED  BY <1>1, <1>2, IInvHolds, PTL DEF Spec, DecidedOnce, Outcome!Spec
===========================================================================
