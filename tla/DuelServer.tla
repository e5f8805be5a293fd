---------------------------- MODULE DuelServer ----------------------------
(***************************************************************************)
(* One duel as the backend runs it: Node handlers that interleave at every *)
(* await, over a Postgres row set they read and write in separate queries  *)
(* and over four in-memory stores (phase, lead readiness, action buffer,   *)
(* turn timer).                                                            *)
(*                                                                         *)
(* A task is one handler in flight.  task[t].pc names the await it is at,  *)
(* the other fields what it has read so far.  What runs between two awaits *)
(* is one action.  A read whose result only decides a rejection, or that   *)
(* nothing later depends on, is joined to the step before or after it.     *)
(*                                                                         *)
(* Both players are people: the bot branches of these handlers are not     *)
(* modelled here, only the await that asks whether the rival is a bot.     *)
(***************************************************************************)
EXTENDS RoundRules

CONSTANTS
    Handler,    \* slots for socket handlers in flight
    Expiry,     \* slots for expired turn-timer callbacks in flight
    Requests,   \* the kinds of request the players send
    Faulty,     \* the awaits whose query may fail
    NoMove,     \* a player absent from the buffer
    Nobody      \* winner_id IS NULL

ASSUME ServerAssumption ==
    /\ Requests \subseteq {"lead", "switch", "pick", "surrender", "disconnect"}
    /\ Handler \cap Expiry = {}
    /\ Faulty \subseteq
         {"lead_roster", "lead_write", "lead_both", "lead_live",
          "switch_active", "switch_write",
          "pick_arm", "expiry_state", "take_state",
          "round_duel", "round_rows", "round_write", "fresh_duel", "fresh_rows",
          "finish_write"}
    /\ NoMove \notin Move
    /\ Nobody \notin Players

VARIABLES
    duel,       \* the duels row: status, winner_id, end_reason
    rows,       \* duel_pokemon_state
    phase,      \* phaseStore entry, "none" when absent
    leads,      \* leadReady entry, {} when absent
    buffer,     \* the duel's action buffer, NoPicks when absent
    timer,      \* whether a turn window is pending
    announced,  \* the <<winnerId, endReason>> of the last duel:finished sent
    task        \* handlers in flight

database == <<duel, rows>>
vars == <<duel, rows, phase, leads, buffer, timer, announced, task>>

Task    == Handler \cup Expiry
NoSlot  == -1
Unannounced == <<Nobody, "none">>
NoPicks == [p \in Players |-> NoMove]
Buffers == [Players -> Move \cup {NoMove}]
Full(b) == \A p \in Players : b[p] # NoMove

DuelRow == [status : {"pending", "in_progress", "finished"},
            winner : Players \cup {Nobody},
            reason : {"none", "ko", "surrender", "disconnect"}]
NewDuel == [status |-> "pending", winner |-> Nobody, reason |-> "none"]

PC == {"idle",
       "lead_roster", "lead_write", "lead_ready", "lead_both", "lead_live",
       "switch_active", "switch_write",
       "pick_buffer", "pick_arm", "expiry_state", "take_state",
       "round_duel", "round_rows", "round_write", "round_done",
       "fresh_duel", "fresh_rows",
       "finish_write", "finish_done"}

TaskState == [pc   : PC,
              who  : Players \cup {Nobody},          \* the acting player
              slot : Slot \cup {NoSlot},             \* lead or switch target
              prev : Slot \cup {NoSlot},             \* active row a switch read
              move : Move \cup {NoMove},
              live : BOOLEAN,     \* holds the Map that is in buffers now
              acts : Buffers,     \* contents of the Map held, once detached
              duel : DuelRow,     \* duels row read, or about to be written
              rows : Rows]        \* rows about to be written

Idle == [pc |-> "idle", who |-> Nobody, slot |-> NoSlot, prev |-> NoSlot,
         move |-> NoMove, live |-> FALSE, acts |-> NoPicks, duel |-> NewDuel,
         rows |-> SeededRows]

TypeOK ==
    /\ duel \in DuelRow
    /\ rows \in Rows
    /\ phase \in {"none", "lead_selection", "in_progress", "finished"}
    /\ leads \subseteq Players
    /\ buffer \in Buffers
    /\ timer \in BOOLEAN
    /\ announced \in {Unannounced} \cup
                     (Players \X {"ko", "surrender", "disconnect"})
    /\ task \in [Task -> TaskState]

\* createDuelFromRoom and bootstrapDuelIfReady have run.
Init ==
    /\ duel = NewDuel
    /\ rows = SeededRows
    /\ phase = "lead_selection"
    /\ leads = {}
    /\ buffer = NoPicks
    /\ timer = FALSE
    /\ announced = Unannounced
    /\ task = [t \in Task |-> Idle]

---------------------------------------------------------------------------
(* Task bookkeeping. *)

At(t, pc)    == task[t].pc = pc
Become(t, s) == task' = [task EXCEPT ![t] = s]
Goto(t, pc)  == Become(t, [task[t] EXCEPT !.pc = pc])
End(t)       == Become(t, Idle)

\* buffers.delete(duelId): a task that holds the Map keeps it, detached.
Detached(s) == IF s.live THEN [s EXCEPT !.live = FALSE, !.acts = buffer] ELSE s
Deleting(t, s) == task' = [u \in Task |-> IF u = t THEN s ELSE Detached(task[u])]

Held(t) == IF task[t].live THEN buffer ELSE task[t].acts

---------------------------------------------------------------------------
(* duel:select_lead *)

\* The phase is looked at before the roster is fetched.
SelectLead(t, p, s) ==
    /\ At(t, "idle")
    /\ phase = "lead_selection"
    /\ Become(t, [Idle EXCEPT !.pc = "lead_roster", !.who = p, !.slot = s])
    /\ UNCHANGED <<database, phase, leads, buffer, timer, announced>>

LeadRoster(t) ==
    /\ At(t, "lead_roster")
    /\ IF LeadAllowed(rows, task[t].who, task[t].slot)
         THEN Goto(t, "lead_write") ELSE End(t)
    /\ UNCHANGED <<database, phase, leads, buffer, timer, announced>>

LeadWrite(t) ==
    /\ At(t, "lead_write")
    /\ rows' = Activate(rows, task[t].who, task[t].slot)
    /\ Goto(t, "lead_ready")
    /\ UNCHANGED <<duel, phase, leads, buffer, timer, announced>>

LeadReady(t) ==
    /\ At(t, "lead_ready")
    /\ leads' = leads \cup {task[t].who}
    /\ Goto(t, "lead_both")
    /\ UNCHANGED <<database, phase, buffer, timer, announced>>

LeadBoth(t) ==
    /\ At(t, "lead_both")
    /\ IF leads = Players /\ phase = "lead_selection"
         THEN /\ phase' = "in_progress"
              /\ Goto(t, "lead_live")
         ELSE End(t) /\ UNCHANGED phase
    /\ UNCHANGED <<database, leads, buffer, timer, announced>>

\* markDuelInProgress, conditional on 'pending'.
LeadLive(t) ==
    /\ At(t, "lead_live")
    /\ duel' = IF duel.status = "pending"
                 THEN [duel EXCEPT !.status = "in_progress"] ELSE duel
    /\ End(t)
    /\ UNCHANGED <<rows, phase, leads, buffer, timer, announced>>

---------------------------------------------------------------------------
(* duel:switch_decision *)

\* The roster is validated outside the transaction that switches.
SwitchDecision(t, p, s) ==
    /\ At(t, "idle")
    /\ SwitchAllowed(rows, p, s)
    /\ Become(t, [Idle EXCEPT !.pc = "switch_active", !.who = p, !.slot = s])
    /\ UNCHANGED <<database, phase, leads, buffer, timer, announced>>

\* The previous active is whichever active row the query returns first.
SwitchActive(t) ==
    /\ At(t, "switch_active")
    /\ \E prev \in IF HasActive(rows, task[t].who)
                     THEN Actives(rows, task[t].who) ELSE {NoSlot} :
         Become(t, [task[t] EXCEPT !.pc = "switch_write", !.prev = prev])
    /\ UNCHANGED <<database, phase, leads, buffer, timer, announced>>

SwitchWrite(t) ==
    LET p == task[t].who
        fielded == Activate(rows, p, task[t].slot)
    IN  /\ At(t, "switch_write")
        /\ rows' = IF task[t].prev = NoSlot
                     THEN fielded ELSE Deactivate(fielded, p, task[t].prev)
        /\ End(t)
        /\ UNCHANGED <<duel, phase, leads, buffer, timer, announced>>

---------------------------------------------------------------------------
(* duel:select_action and the turn cycle *)

SelectAction(t, p, m) ==
    /\ At(t, "idle")
    /\ PickAllowed(rows, p, m)
    /\ Become(t, [Idle EXCEPT !.pc = "pick_buffer", !.who = p, !.move = m])
    /\ UNCHANGED <<database, phase, leads, buffer, timer, announced>>

\* attemptResolveTurn up to its first await: it takes hold of a full buffer.
Attempt(s) == [s EXCEPT !.pc = "take_state", !.live = TRUE, !.acts = NoPicks]

\* bufferAction. The pick that completes the pair cancels the window and goes on
\* to resolve. The first pick opens it, but only after asking if the rival is a
\* bot. A lone re-pick does neither.
BufferPick(t) ==
    LET buffered == [buffer EXCEPT ![task[t].who] = task[t].move]
        s == [task[t] EXCEPT !.move = NoMove, !.who = Nobody]
    IN  /\ At(t, "pick_buffer")
        /\ buffer' = buffered
        /\ IF Full(buffered)
             THEN timer' = FALSE /\ Become(t, Attempt(s))
             ELSE /\ IF buffer = NoPicks
                       THEN Become(t, [s EXCEPT !.pc = "pick_arm"]) ELSE End(t)
                  /\ UNCHANGED timer
        /\ UNCHANGED <<database, phase, leads, announced>>

\* Mutant: the window is not opened.
ArmTimerMissing(t) ==
    /\ At(t, "pick_arm")
    /\ End(t)
    /\ UNCHANGED <<database, phase, leads, buffer, timer, announced>>

ArmTimer(t) ==
    /\ At(t, "pick_arm")
    /\ timer' = TRUE
    /\ End(t)
    /\ UNCHANGED <<database, phase, leads, buffer, announced>>

\* The window expires. bufferTimeoutAction has nothing to fill in an absent or
\* a full buffer, and the attempt that follows takes only a full one.
TimerExpires(t) ==
    /\ timer
    /\ At(t, "idle")
    /\ timer' = FALSE
    /\ \/ buffer = NoPicks /\ UNCHANGED task
       \/ Full(buffer) /\ Become(t, Attempt(Idle))
       \/ /\ buffer # NoPicks /\ ~Full(buffer)
          /\ Become(t, [Idle EXCEPT !.pc = "expiry_state", !.live = TRUE])
    /\ UNCHANGED <<database, phase, leads, buffer, announced>>

\* Mutant: the missing picks are filled in and no attempt follows.
FillTimeoutOnly(t) ==
    /\ At(t, "expiry_state")
    /\ buffer' = [p \in Players |->
                    IF buffer[p] = NoMove THEN WeakMove ELSE buffer[p]]
    /\ End(t)
    /\ UNCHANGED <<database, phase, leads, timer, announced>>

\* The state has been fetched: whoever is still missing from the Map held gets
\* the weak move, then the attempt looks at the Map that is in buffers now.
FillTimeout(t) ==
    LET filled == [p \in Players |->
                     IF buffer[p] = NoMove THEN WeakMove ELSE buffer[p]]
        current == IF task[t].live THEN filled ELSE buffer
    IN  /\ At(t, "expiry_state")
        /\ buffer' = current
        /\ IF Full(current) THEN Become(t, Attempt(Idle)) ELSE End(t)
        /\ UNCHANGED <<database, phase, leads, timer, announced>>

\* The state has been fetched: both actions are read from the Map held, and
\* whichever Map is in buffers is deleted.
TakePicks(t) ==
    /\ At(t, "take_state")
    /\ Deleting(t, [Idle EXCEPT !.pc = "round_duel", !.acts = Held(t)])
    /\ buffer' = NoPicks
    /\ UNCHANGED <<database, phase, leads, timer, announced>>

\* resolverRonda, first query of getDuelState: only a live duel is resolved.
RoundReadDuel(t) ==
    /\ At(t, "round_duel")
    /\ IF duel.status = "in_progress"
         THEN Become(t, [task[t] EXCEPT !.pc = "round_rows", !.duel = duel])
         ELSE Become(t, [Idle EXCEPT !.pc = "fresh_duel"])
    /\ UNCHANGED <<database, phase, leads, buffer, timer, announced>>

\* The row and the verdict that a resolved round will write.
RoundDuel(seen, next) ==
    IF TeamWiped(next)
      THEN [status |-> "finished", winner |-> KoWinner(next), reason |-> "ko"]
      ELSE seen

\* Second query, then resolveRoundLogic: a side with no active pokemon is a
\* fault, and the turn did not happen.
RoundReadRows(t) ==
    /\ At(t, "round_rows")
    /\ IF \A p \in Players : HasActive(rows, p)
         THEN \E first \in Players :
                LET next == ResolvedRows(rows, task[t].acts, first)
                IN  Become(t, [Idle EXCEPT !.pc = "round_write", !.rows = next,
                                           !.duel = RoundDuel(task[t].duel, next)])
         ELSE End(t)
    /\ UNCHANGED <<database, phase, leads, buffer, timer, announced>>

\* applyRoundResult: the duels row and every pokemon row, unconditionally.
RoundWrite(t) ==
    /\ At(t, "round_write")
    /\ duel' = task[t].duel
    /\ rows' = task[t].rows
    /\ Become(t, [task[t] EXCEPT !.pc = "round_done", !.rows = SeededRows])
    /\ UNCHANGED <<phase, leads, buffer, timer, announced>>

RoundDone(t) ==
    /\ At(t, "round_done")
    /\ phase' = task[t].duel.status      \* FINISH or ROUND_RESOLVED
    /\ Become(t, [Idle EXCEPT !.pc = "fresh_duel"])
    /\ UNCHANGED <<database, leads, buffer, timer, announced>>

---------------------------------------------------------------------------
(* Ending a duel *)

\* Mutant: everything but the broadcast.
FinalizeQuietly(t, verdict) ==
    /\ timer' = FALSE
    /\ buffer' = NoPicks
    /\ leads' = {}
    /\ phase' = "none"
    /\ UNCHANGED announced
    /\ Deleting(t, Idle)

\* finalizeDuelSideEffects: no window, no buffer, no store entry, one broadcast.
Finalize(t, verdict) ==
    /\ timer' = FALSE
    /\ buffer' = NoPicks
    /\ leads' = {}
    /\ phase' = "none"
    /\ announced' = verdict
    /\ Deleting(t, Idle)

FreshDuel(t) ==
    /\ At(t, "fresh_duel")
    /\ Become(t, [task[t] EXCEPT !.pc = "fresh_rows", !.duel = duel])
    /\ UNCHANGED <<database, phase, leads, buffer, timer, announced>>

\* Mutant: the duel is finalized whether or not the round ended it.
FreshRowsFinalizing(t) ==
    /\ At(t, "fresh_rows")
    /\ Finalize(t, <<task[t].duel.winner, "ko">>)
    /\ UNCHANGED database

\* duel:turn_resolved is broadcast. A finished duel, whatever finished it, is
\* finalized as a KO. A side that lost its active is asked to switch.
FreshRows(t) ==
    /\ At(t, "fresh_rows")
    /\ IF task[t].duel.status = "finished"
         THEN Finalize(t, <<task[t].duel.winner, "ko">>)
         ELSE End(t) /\ UNCHANGED <<phase, leads, buffer, timer, announced>>
    /\ UNCHANGED database

\* finishDuel on behalf of the opponent of p, from a handler that has seen one
\* of the statuses open.
StartFinish(t, p, open, why) ==
    /\ At(t, "idle")
    /\ duel.status \in open
    /\ Become(t, [Idle EXCEPT !.pc = "finish_write",
                              !.duel = [status |-> "finished",
                                        winner |-> opponentOf(p),
                                        reason |-> why]])
    /\ UNCHANGED <<database, phase, leads, buffer, timer, announced>>

Surrender(t, p)  == StartFinish(t, p, {"pending", "in_progress"}, "surrender")
Disconnect(t, p) == StartFinish(t, p, {"in_progress"}, "disconnect")

\* Mutant: the write is not conditional.
FinishWriteAlways(t) ==
    /\ At(t, "finish_write")
    /\ duel' = task[t].duel
    /\ Goto(t, "finish_done")
    /\ UNCHANGED <<rows, phase, leads, buffer, timer, announced>>

\* finishDuelWrite, conditional on the duel being open.
FinishWrite(t) ==
    /\ At(t, "finish_write")
    /\ IF duel.status \in {"pending", "in_progress"}
         THEN duel' = task[t].duel /\ Goto(t, "finish_done")
         ELSE End(t) /\ UNCHANGED duel
    /\ UNCHANGED <<rows, phase, leads, buffer, timer, announced>>

FinishDone(t) ==
    /\ At(t, "finish_done")
    /\ Finalize(t, <<task[t].duel.winner, task[t].duel.reason>>)
    /\ UNCHANGED database

---------------------------------------------------------------------------
\* A query fails: the handler ends there, and what it was about to write is not
\* written.  Inside a round that is withDuelFaultIsolation, elsewhere it is
\* withWsHandler or the catch of the timer callback.
QueryFails(t) ==
    /\ task[t].pc \in Faulty
    /\ End(t)
    /\ UNCHANGED <<database, phase, leads, buffer, timer, announced>>

Request(t) == \E p \in Players :
    \/ "lead" \in Requests /\ \E s \in Slot : SelectLead(t, p, s)
    \/ "switch" \in Requests /\ \E s \in Slot : SwitchDecision(t, p, s)
    \/ "pick" \in Requests /\ \E m \in Move : SelectAction(t, p, m)
    \/ "surrender" \in Requests /\ Surrender(t, p)
    \/ "disconnect" \in Requests /\ Disconnect(t, p)

Continue(t) ==
    \/ LeadRoster(t) \/ LeadWrite(t) \/ LeadReady(t) \/ LeadBoth(t) \/ LeadLive(t)
    \/ SwitchActive(t) \/ SwitchWrite(t)
    \/ BufferPick(t) \/ ArmTimer(t) \/ FillTimeout(t) \/ TakePicks(t)
    \/ RoundReadDuel(t) \/ RoundReadRows(t) \/ RoundWrite(t) \/ RoundDone(t)
    \/ FreshDuel(t) \/ FreshRows(t)
    \/ FinishWrite(t) \/ FinishDone(t)

Next ==
    \/ \E t \in Handler : Request(t)
    \/ \E t \in Expiry : TimerExpires(t)
    \/ \E t \in Task : Continue(t) \/ QueryFails(t)

Spec == Init /\ [][Next]_vars

\* The event loop runs every handler whose query answered, and every expired
\* window. Nothing obliges a player to send anything, nor a query to fail.
FairSpec ==
    /\ Spec
    /\ \A t \in Task : WF_vars(Continue(t))
    /\ WF_vars(\E t \in Expiry : TimerExpires(t))

---------------------------------------------------------------------------
(* Safety *)

\* A buffered pick is never forgotten: its turn window is open, or about to be,
\* or a handler that holds the very Map the pick is in has come to fill or take
\* it.  It rests on attemptResolveTurn cancelling the window only when the pair
\* is complete, and on dropBuffer and buffers.delete losing every pick at once.
PickHasOwner ==
    buffer # NoPicks =>
        \/ timer
        \/ \E t \in Task :
             \/ At(t, "pick_arm")
             \/ task[t].pc \in {"expiry_state", "take_state"} /\ task[t].live

\* Whatever order rounds, switches, surrenders and retries are written in, the
\* verdict agrees with the rows: the two teams are never both wiped, a wiped
\* team means the duel is over, and a recorded KO is over a wiped team.
KoVerdict ==
    /\ ~(\A p \in Players : ~hasNonFainted(rows, p))
    /\ TeamWiped(rows) => duel.status = "finished"
    /\ duel.reason = "ko" => /\ duel.winner \in Players
                            /\ hasNonFainted(rows, duel.winner)
                            /\ ~hasNonFainted(rows, opponentOf(duel.winner))

\* A pokemon is fainted exactly when it has no hit points, in the rows and in
\* those a round is about to write, although a late switch can field a fainted
\* one and a stale round can put back the rows of an earlier turn.
FaintedIffNoHp ==
    \A p \in Players, s \in Slot :
        /\ rows[p][s].fainted <=> rows[p][s].hp = 0
        /\ \A t \in Task :
             task[t].rows[p][s].fainted <=> task[t].rows[p][s].hp = 0

\* A round that read the duel live and has not been written yet.
RoundInFlight == \E t \in Task : task[t].pc \in {"round_rows", "round_write"}

\* Refinement: once no such round is left, the verdict is given and given once.
\* Until then it may still be overwritten (see FinishedIsFinal).
Open    == [winner |-> Nobody, reason |-> "none"]
Settled == duel.status = "finished" /\ ~RoundInFlight
Outcome == INSTANCE DuelOutcome WITH
             Competitors <- Players,
             Reasons     <- {"ko", "surrender", "disconnect"},
             verdict     <- IF Settled
                              THEN [winner |-> duel.winner, reason |-> duel.reason]
                              ELSE Open
DecidedOnce == Outcome!Spec

---------------------------------------------------------------------------
(* Liveness, under FairSpec *)

\* A buffered pick is eventually taken to a round or dropped with its duel: the
\* window, the rival's pick or the end of the duel sees to it.
PickIsTaken == buffer # NoPicks ~> buffer = NoPicks

\* A duel that ends, and stays ended, is announced to its channel.
EndIsAnnounced ==
    <>[](duel.status = "finished") => <>(announced # Unannounced)

---------------------------------------------------------------------------
(* What the repository says of the code and the runs refute. *)

\* applyRoundResult's "guarded transactional write" (turnCycle.js:144): a
\* finished duel is never re-opened nor re-decided.
FinishedIsFinal == [][duel.status = "finished" => duel' = duel]_vars

\* "a player can never hold more than one active pokemon"
\* (switchValidation.js:83).
AtMostOneActive ==
    \A p \in Players : \A s, t \in Slot :
        rows[p][s].active /\ rows[p][t].active => s = t

\* When both players let the window pass both attack with the weak move and the
\* round is resolved (TECH-DESIGN.md:341): the first turn of a live duel is
\* played, whether or not the players pick.
FirstTurnIsPlayed ==
    (duel.status = "in_progress" /\ \A p \in Players : HasActive(rows, p))
        ~> (duel.status = "finished" \/ \E p \in Players, s \in Slot :
                                           rows[p][s].hp < FullHp)
===========================================================================
