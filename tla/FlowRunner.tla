------------------------------ MODULE FlowRunner ------------------------------
(***************************************************************************)
(* The hosted flow runner of one tenant: replicas that walk the tenant's   *)
(* subscriptions, spend an agent's turn on a queue that has work, and stop *)
(* spending on a queue that will not drain.  Whether to go on is recorded  *)
(* in the subscription; when it was last polled is each replica's memory.  *)
(* Calls to the API may fail and a replica may die, MaxFaults times in     *)
(* all; the people of the tenant submit, publish, switch and clear.        *)
(***************************************************************************)
EXTENDS Integers, FiniteSets

CONSTANTS
  Runners,     \* replicas of the runner process
  Subs,        \* subscriptions, in the order of their entity types
  MaxUnmoved,  \* max_unmoved_runs
  Cadence,     \* cadence_seconds, in passes
  Fleets,      \* which replicas run, and which subscriptions are switched on, at the start
  Attended,    \* bound: the subscriptions their tenant switches, clears and publishes for
  MaxQueue,    \* bound on the records waiting for one subscription
  MaxFaults,   \* bound on failed calls and deaths; a check and its report fail as one
  None

VARIABLES
  sub,      \* enabled, parked_at and unmoved_runs of each flow_subscriptions row
  ready,    \* the subscriptions whose workflow definition is published
  queue,    \* submitted documents without an open todo
  running,  \* flow_runs rows in status running
  pc,       \* where each replica stands
  snap,     \* unmoved_runs of each subscription as read when its pass began
  left,     \* the ones it has still to look at in this pass
  age,      \* passes since it last polled each: SubscriptionState.last_polled_at
  job,      \* the dispatch in hand
  faults,   \* failed calls and deaths so far
  barren,   \* verdicts in a row, since it moved or was cleared, that nothing moved
  spent,    \* agent turns in a row, since then, in which nothing moved
  lost,     \* of these, the ones the row does not count
  muddled   \* subscriptions whose count was written by a pass that had read another,
            \* or that moved in a run whose report was lost

rows == <<sub, ready, queue, running>>
memory == <<pc, snap, left, age, job>>
tally == <<barren, spent, lost, muddled>>
vars == <<rows, memory, faults, tally>>

Row == [enabled : BOOLEAN, parked : BOOLEAN, unmoved : Nat]
Job == [sub : Subs, found : Nat, grew : BOOLEAN, advanced : Nat]

\* Cadence counts passes: a pass takes as long as the agent's turn in it.
ASSUME FlowAssumption ==
  /\ Subs \subseteq Nat /\ IsFiniteSet(Subs) /\ Attended \subseteq Subs
  /\ IsFiniteSet(Runners) /\ Fleets \subseteq (SUBSET Runners) \X (SUBSET Subs)
  /\ MaxUnmoved \in Nat \ {0} /\ MaxQueue \in Nat /\ MaxFaults \in Nat
  /\ Cadence \in Nat
  /\ None \notin Job

Unread == [s \in Subs |-> 0]

Init ==
  /\ \E fleet \in Fleets :
       /\ sub = [s \in Subs |-> [enabled |-> s \in fleet[2], parked |-> FALSE, unmoved |-> 0]]
       /\ pc = [w \in Runners |-> IF w \in fleet[1] THEN "resting" ELSE "absent"]
  /\ ready = Subs \ Attended
  /\ queue = [s \in Subs |-> 0]
  /\ running = [s \in Subs |-> 0]
  /\ snap = [w \in Runners |-> Unread]
  /\ left = [w \in Runners |-> {}]
  /\ age = [w \in Runners |-> [s \in Subs |-> Cadence]]
  /\ job = [w \in Runners |-> None]
  /\ faults = 0
  /\ barren = [s \in Subs |-> 0] /\ spent = [s \in Subs |-> 0] /\ lost = [s \in Subs |-> 0]
  /\ muddled = {}

Fails == faults < MaxFaults /\ faults' = faults + 1

-----------------------------------------------------------------------------
(* A pass                                                                   *)

\* Due, as far as the row read at the start of the pass says.
Due(w, s) == sub[s].enabled /\ ~sub[s].parked /\ age[w][s] >= Cadence

\* poll_once: the enabled subscriptions are read.
Wake(w) ==
  /\ pc[w] = "resting"
  /\ pc' = [pc EXCEPT ![w] = "passing"]
  /\ snap' = [snap EXCEPT ![w] = [s \in Subs |-> sub[s].unmoved]]
  /\ left' = [left EXCEPT ![w] = {s \in Subs : Due(w, s)}]
  /\ UNCHANGED <<rows, age, job, faults, tally>>

\* The pass is over, or has failed, and its replica sleeps until the next.
Asleep(w) ==
  /\ pc' = [pc EXCEPT ![w] = "resting"]
  /\ left' = [left EXCEPT ![w] = {}]
  /\ snap' = [snap EXCEPT ![w] = Unread]
  /\ job' = [job EXCEPT ![w] = None]

Older(ages) == [s \in Subs |-> IF ages[s] < Cadence THEN ages[s] + 1 ELSE ages[s]]

Sleep(w) ==
  /\ pc[w] = "passing" /\ left[w] = {}
  /\ Asleep(w)
  /\ age' = [age EXCEPT ![w] = Older(@)]
  /\ UNCHANGED <<rows, faults, tally>>

IsNext(w, s) == pc[w] = "passing" /\ s \in left[w] /\ \A t \in left[w] : s <= t

\* Mutation: every due subscription is marked as polled when the pass begins.
AllTouched(w, s) == [t \in Subs |-> IF t \in left[w] THEN 0 ELSE age[w][t]]

\* last_polled_at of the one that is dispatched; those after it stay due.
Touched(w, s) == [age[w] EXCEPT ![s] = 0]

\* dispatch, from has_active_workflow to open_run.
Dispatch(w, s, where, dispatched) ==
  /\ IsNext(w, s)
  /\ pc' = [pc EXCEPT ![w] = where]
  /\ age' = [age EXCEPT ![w] = Touched(w, s)]
  /\ left' = [left EXCEPT ![w] = @ \ {s}]
  /\ job' = [job EXCEPT ![w] = dispatched]
  /\ UNCHANGED <<sub, ready, queue, snap, tally>>

Fresh(s) == [sub |-> s, found |-> queue[s], grew |-> FALSE, advanced |-> 0]

\* No definition or no work: report_idle, and on to the next.
LookIdle(w, s) ==
  /\ s \notin ready \/ queue[s] = 0
  /\ Dispatch(w, s, "passing", None)
  /\ UNCHANGED <<running, faults>>

\* The check fails: record_failed_check, which counts as a run that moved nothing.
LookFails(w, s) ==
  /\ Fails
  /\ Dispatch(w, s, "failing", Fresh(s))
  /\ UNCHANGED running

LookFinds(w, s) ==
  /\ s \in ready /\ queue[s] > 0
  /\ Dispatch(w, s, "working", Fresh(s))
  /\ running' = [running EXCEPT ![s] = @ + 1]
  /\ UNCHANGED faults

\* An error that nothing guards, of the transport or of the runs that dispatch and
\* report_idle open and close, ends the pass uncounted; a run may stay open.
LookBreaks(w, s) ==
  /\ IsNext(w, s) /\ Fails
  /\ Asleep(w)
  /\ age' = [age EXCEPT ![w] = Older(Touched(w, s))]
  /\ running' \in {running, [running EXCEPT ![s] = @ + 1]}
  /\ UNCHANGED <<sub, ready, queue, tally>>

-----------------------------------------------------------------------------
(* The records move, of a subscription that is on                           *)

\* A new fact or todo of this entity type is seen by every run in progress.
Evidence(s) ==
  job' = [w \in Runners |-> IF pc[w] = "working" /\ job[w].sub = s
                            THEN [job[w] EXCEPT !.grew = TRUE] ELSE job[w]]

\* The agent decides, advances or hands out one record.
AgentActs(w) ==
  LET s == job[w].sub
  IN  /\ pc[w] = "working" /\ queue[s] > 0
      /\ \E after \in {queue[s] - 1, queue[s]} : queue' = [queue EXCEPT ![s] = after]
      /\ Evidence(s)
      /\ UNCHANGED <<sub, ready, running, pc, snap, left, age, faults, tally>>

\* A submission, or an approver's decision that completes his todo.
Arrives(s) ==
  /\ queue[s] < MaxQueue /\ sub[s].enabled
  /\ queue' = [queue EXCEPT ![s] = @ + 1]
  /\ Evidence(s)
  /\ UNCHANGED <<sub, ready, running, pc, snap, left, age, faults, tally>>

\* A waiting document is deleted.
Withdrawn(s) ==
  /\ queue[s] > 0 /\ sub[s].enabled
  /\ queue' = [queue EXCEPT ![s] = @ - 1]
  /\ UNCHANGED <<sub, ready, running, memory, faults, tally>>

-----------------------------------------------------------------------------
(* note_progress                                                            *)

\* Mutation: the count starts over only when the subscription is cleared.
NeverReset(w, s, moved) == snap[w][s] + 1

\* The count is the one the pass has read.
Unmoved(w, s, moved) == IF moved THEN 0 ELSE snap[w][s] + 1

\* report_driver_state: a parked row refuses a report that does not park it.
Accepts(s, n) == sub[s].parked => n >= MaxUnmoved

Reported(s, n) ==
  sub' = [sub EXCEPT ![s].unmoved = n, ![s].parked = @ \/ n >= MaxUnmoved]

Tallied(s, moved, turn, missed) ==
  /\ barren' = [barren EXCEPT ![s] = IF moved THEN 0 ELSE @ + 1]
  /\ spent' = [spent EXCEPT ![s] = IF moved THEN 0 ELSE IF turn THEN @ + 1 ELSE @]
  /\ lost' = [lost EXCEPT ![s] = IF moved THEN 0 ELSE @ + missed]

\* What the row counted since the pass read it, and is about to forget.
Missed(w, s) == IF snap[w][s] < sub[s].unmoved THEN sub[s].unmoved - snap[w][s] ELSE 0

\* verdict is what note_progress believes, fact what was there to be seen.
Report(w, s, verdict, fact, turn, missed, misled) ==
  LET n == Unmoved(w, s, verdict)
  IN  \/ /\ Accepts(s, n)
         /\ Reported(s, n)
         /\ Tallied(s, fact, turn, missed)
         /\ muddled' = IF misled \/ snap[w][s] # sub[s].unmoved THEN muddled \cup {s} ELSE muddled
      \/ /\ ~Accepts(s, n)
         /\ Tallied(s, fact, turn, 1)
         /\ UNCHANGED <<sub, muddled>>

Note(w, s, verdict, fact, turn) == Report(w, s, verdict, fact, turn, Missed(w, s), FALSE)

\* The report is lost: the next pass counts on from the same row, even when
\* what it would have said is that something moved.
NoteLost(s, fact, turn) ==
  /\ Tallied(s, fact, turn, 1)
  /\ muddled' = IF fact THEN muddled \cup {s} ELSE muddled
  /\ UNCHANGED sub

\* After a failed check the pass goes on.
FailedCheck(w) ==
  LET s == job[w].sub
  IN  /\ pc[w] = "failing"
      /\ pc' = [pc EXCEPT ![w] = "passing"]
      /\ job' = [job EXCEPT ![w] = None]
      /\ Note(w, s, FALSE, FALSE, FALSE)
      /\ UNCHANGED <<ready, queue, running, snap, left, age, faults>>

\* Unless the report of it fails, or the run that records it, by the same outage: an
\* answer of the API is caught, an error of the transport ends the pass.
FailedCheckFails(w) ==
  LET s == job[w].sub
  IN  /\ pc[w] = "failing"
      /\ Note(w, s, FALSE, FALSE, FALSE) \/ NoteLost(s, FALSE, FALSE)
      /\ running' \in {running, [running EXCEPT ![s] = @ + 1]}
      /\ \/ /\ pc' = [pc EXCEPT ![w] = "passing"]
            /\ job' = [job EXCEPT ![w] = None]
            /\ UNCHANGED <<snap, left, age>>
         \/ Asleep(w) /\ age' = [age EXCEPT ![w] = Older(@)]
      /\ UNCHANGED <<ready, queue, faults>>

\* What there was to be seen of the run.
Fact(w) == job[w].grew \/ job[w].found > queue[job[w].sub]

\* Mutation: the count of what left the queue may go below zero.
Difference(found, remaining) == found - remaining

Advanced(found, remaining) == IF found > remaining THEN found - remaining ELSE 0

\* Mutation: what the adapter says it advanced is believed.
Believed(ok, claimed, advanced, grew) == grew \/ advanced > 0 \/ (ok /\ claimed > 0)

\* The re-count and the marks are what moved; only a run whose re-count failed
\* is judged by the adapter's own number.
Moved(ok, claimed, advanced, grew) == grew \/ advanced > 0

\* The agent has ended: the queue and the marks are counted again.
Conclude(w) ==
  LET s == job[w].sub
      advanced == Advanced(job[w].found, queue[s])
  IN  /\ pc[w] = "working"
      /\ \E ok \in BOOLEAN, claimed \in {0, 1} :
           /\ Note(w, s, Moved(ok, claimed, advanced, job[w].grew), Fact(w), TRUE)
           /\ UNCHANGED faults
      /\ pc' = [pc EXCEPT ![w] = "closing"]
      /\ job' = [job EXCEPT ![w] = [Fresh(s) EXCEPT !.found = 0, !.advanced = advanced]]
      /\ UNCHANGED <<ready, queue, running, snap, left, age>>

\* What the row forgets when a verdict was reached without the counts.
Unseen(w, s, verdict) == IF verdict THEN sub[s].unmoved + 1 ELSE Missed(w, s)

\* The report fails, or the counts before it do: without the re-count the adapter's
\* own number is believed, without the marks only what left the queue is.
ConcludeBlind(w) ==
  LET s == job[w].sub
  IN  /\ pc[w] = "working" /\ Fails
      /\ \/ NoteLost(s, Fact(w), TRUE)
         \/ \E verdict \in BOOLEAN :
              Report(w, s, verdict, Fact(w), TRUE, Unseen(w, s, verdict), Fact(w) /\ ~verdict)
      /\ pc' = [pc EXCEPT ![w] = "closing"]
      /\ job' = [job EXCEPT ![w] = [Fresh(s) EXCEPT !.found = 0]]
      /\ UNCHANGED <<ready, queue, running, snap, left, age>>

\* An error of the transport in place of a count or of the report ends the pass,
\* and the run stays open.
ConcludeBreaks(w) ==
  /\ pc[w] = "working" /\ Fails
  /\ NoteLost(job[w].sub, Fact(w), TRUE)
  /\ Asleep(w)
  /\ age' = [age EXCEPT ![w] = Older(@)]
  /\ UNCHANGED <<ready, queue, running>>

\* close_run, and one agent turn per tenant and pass: the pass is over.
Close(w) ==
  /\ pc[w] = "closing"
  /\ running' = [running EXCEPT ![job[w].sub] = @ - 1]
  /\ Asleep(w)
  /\ age' = [age EXCEPT ![w] = Older(@)]
  /\ UNCHANGED <<sub, ready, queue, faults, tally>>

\* close_run is not guarded: the row stays running.
CloseFails(w) ==
  /\ pc[w] = "closing" /\ Fails
  /\ Asleep(w)
  /\ age' = [age EXCEPT ![w] = Older(@)]
  /\ UNCHANGED <<rows, tally>>

\* The process dies and starts again: what it polled and what it spent is gone.
Crash(w) ==
  /\ pc[w] # "absent" /\ Fails
  /\ Asleep(w)
  /\ age' = [age EXCEPT ![w] = [s \in Subs |-> Cadence]]
  /\ IF pc[w] = "working" THEN NoteLost(job[w].sub, Fact(w), TRUE) ELSE UNCHANGED <<sub, tally>>
  /\ UNCHANGED <<ready, queue, running>>

-----------------------------------------------------------------------------
(* The tenant                                                               *)

Cleared(s) ==
  /\ barren' = [barren EXCEPT ![s] = 0]
  /\ spent' = [spent EXCEPT ![s] = 0]
  /\ lost' = [lost EXCEPT ![s] = 0]
  /\ UNCHANGED muddled

\* clear_park: by the tenant, or switched on again, or a definition published.
Unpark(s) ==
  /\ sub[s].parked
  /\ \E on \in {TRUE, sub[s].enabled}, published \in {ready, ready \cup {s}} :
       /\ sub' = [sub EXCEPT ![s] = [enabled |-> on, parked |-> FALSE, unmoved |-> 0]]
       /\ ready' = published
  /\ Cleared(s)
  /\ UNCHANGED <<queue, running, memory, faults>>

Switch(s) ==
  /\ ~(sub[s].parked /\ ~sub[s].enabled)
  /\ sub' = [sub EXCEPT ![s].enabled = ~@]
  /\ UNCHANGED <<ready, queue, running, memory, faults, tally>>

Publish(s) ==
  /\ ~sub[s].parked
  /\ ready' = ready \cup {s}
  /\ UNCHANGED <<sub, queue, running, memory, faults, tally>>

-----------------------------------------------------------------------------
Look(w) == \E s \in Subs : LookIdle(w, s) \/ LookFails(w, s) \/ LookFinds(w, s) \/ LookBreaks(w, s)

RunnerStep(w) ==
  \/ Wake(w) \/ Sleep(w) \/ Look(w) \/ FailedCheck(w) \/ FailedCheckFails(w)
  \/ Conclude(w) \/ ConcludeBlind(w) \/ ConcludeBreaks(w) \/ Close(w) \/ CloseFails(w)

Next ==
  \/ \E w \in Runners : RunnerStep(w) \/ AgentActs(w) \/ Crash(w)
  \/ \E s \in Subs : Arrives(s) \/ Withdrawn(s)
  \/ \E s \in Attended : Unpark(s) \/ Switch(s) \/ Publish(s)

\* The loop of the process goes on, and an agent's turn ends by its timeout.
Fairness == \A w \in Runners : WF_vars(RunnerStep(w))

Spec == Init /\ [][Next]_vars /\ Fairness

-----------------------------------------------------------------------------
(* Properties                                                               *)

\* Rows and memory keep their domains: no run advances less than nothing, and
\* none is closed that is not running.
TypeOK ==
  /\ sub \in [Subs -> Row] /\ ready \subseteq Subs
  /\ queue \in [Subs -> 0..MaxQueue] /\ running \in [Subs -> Nat]
  /\ pc \in [Runners -> {"absent", "resting", "passing", "failing", "working", "closing"}]
  /\ snap \in [Runners -> [Subs -> Nat]]
  /\ left \in [Runners -> SUBSET Subs]
  /\ age \in [Runners -> [Subs -> 0..Cadence]]
  /\ job \in [Runners -> Job \cup {None}]
  /\ faults \in 0..MaxFaults
  /\ barren \in [Subs -> Nat] /\ spent \in [Subs -> Nat] /\ lost \in [Subs -> Nat]
  /\ muddled \subseteq Subs

\* A queue that will not drain stops costing agent turns (max_unmoved_runs): in a
\* row, no more than MaxUnmoved and those the row missed, because a report was
\* lost or overwritten, a replica died, or the adapter's number was believed while
\* the queue could not be counted again.  A replica still in its turn when
\* another parks the subscription overwrites the count it reads.
SpendIsBounded == \A s \in Subs : spent[s] <= MaxUnmoved + lost[s]

\* A subscription is parked only when that many verdicts in a row, since it last
\* moved or was cleared, found nothing moved (note_progress); unless two passes
\* wrote its count over each other, or a report that it moved was lost or was made
\* without the counts.
ParkIsDeserved ==
  [][\A s \in Subs \ muddled' : sub'[s].parked /\ ~sub[s].parked => barren'[s] >= MaxUnmoved]_vars

Waiting(s) == sub[s].enabled /\ ~sub[s].parked /\ s \in ready /\ queue[s] > 0

\* A subscription that keeps having work, and is neither parked nor switched off,
\* gets an agent's turn, again and again.
Served(s) == []<>(~Waiting(s) \/ \E w \in Runners : pc[w] = "working" /\ job[w].sub = s)

\* "The queue rotates by itself and no family can starve behind a busier one"
\* (poll_once), however few passes the cadence is.
NobodyStarves == \A s \in Subs : Served(s)

\* The queue does rotate as long as a subscription is not due again before the
\* others have had their turn.
RotationServesAll == Cadence >= Cardinality(Subs) => NobodyStarves
=============================================================================
