----------------------------- MODULE Scheduler ------------------------------
(***************************************************************************)
(* Scheduler<N> of src/src/scheduler.rs and the tick counter that drives it. *)
(* One visit of the loop of run_ready is one step; a callback sees only the  *)
(* tick, so it runs inside its visit. lag, passed, owner and issued are not  *)
(* in the code: they relate its wrapped ticks to elapsed time and its ids    *)
(* to registrations.                                                        *)
(***************************************************************************)
EXTENDS Time, Sequences

CONSTANTS
  N,            \* task slots
  Generations,  \* generations count modulo Generations (2^32 in the code)
  Periods,      \* periods that callers ask for, valid or not
  Budgets,      \* budgets that callers pass to run_ready
  Steps,        \* how far the caller may advance the tick at once
  MaxAdds       \* bound: registrations

ASSUME SchedulerAssumption ==
  /\ N \in Nat \ {0} /\ Generations \in Nat \ {0} /\ MaxAdds \in 0 .. Generations
  /\ Periods \subseteq Nat /\ Budgets \subseteq Nat /\ Steps \subseteq Nat

VARIABLES
  tasks, generation, cursor,    \* struct Scheduler
  now,                          \* the caller's tick
  pc, begin, offset, calls, budget,   \* the run_ready in progress
  lag,                          \* elapsed ticks since each task was due; negative before
  passed,                       \* other callbacks run since each task became due
  owner, issued                 \* registration of each slot; the id of each registration

table == <<tasks, generation, cursor>>
run   == <<pc, begin, offset, calls, budget>>
ghost == <<lag, passed, owner, issued>>
vars  == <<table, now, run, ghost>>

Slots == 0 .. N - 1
Empty == [period |-> 0]
Used(i) == tasks[i] # Empty
Task(next, period, gen) == [next |-> next, period |-> period, generation |-> gen]
Due(i) == Used(i) /\ lag[i] >= 0
Adds == Len(issued)

Init ==
  /\ tasks = [i \in Slots |-> Empty] /\ generation = 0 /\ cursor = 0
  /\ now \in Ticks
  /\ pc = "idle" /\ begin = 0 /\ offset = 0 /\ calls = 0 /\ budget = 0
  /\ lag = [i \in Slots |-> 0] /\ passed = [i \in Slots |-> 0]
  /\ owner = [i \in Slots |-> 0] /\ issued = << >>

\* Mutant: a period may exceed half the ticks.
ValidPeriodAny(period) == period # 0

ValidPeriod(period) == period # 0 /\ period <= MaxInterval

FirstFree(i) == ~Used(i) /\ \A j \in 0 .. i - 1 : Used(j)

\* Mutant: ids are not told apart by a generation.
NextGenerationSame == generation

NextGeneration == (generation + 1) % Generations

\* Scheduler::add; a rejected period or a full table changes nothing.
Add(period) ==
  /\ pc = "idle" /\ Adds < MaxAdds
  /\ ValidPeriod(period)
  /\ \E i \in Slots :
       /\ FirstFree(i)
       /\ generation' = NextGeneration
       /\ tasks' = [tasks EXCEPT ![i] = Task(now, period, generation')]
       /\ lag' = [lag EXCEPT ![i] = 0] /\ passed' = [passed EXCEPT ![i] = 0]
       /\ owner' = [owner EXCEPT ![i] = Adds + 1]
       /\ issued' = Append(issued, [slot |-> i, generation |-> generation'])
  /\ UNCHANGED <<cursor, now, run>>

Matches(id) == Used(id.slot) /\ tasks[id.slot].generation = id.generation

\* What an empty slot's ghosts are reset to.
Release(i) ==
  /\ tasks' = [tasks EXCEPT ![i] = Empty]
  /\ lag' = [lag EXCEPT ![i] = 0] /\ owner' = [owner EXCEPT ![i] = 0]

\* Scheduler::cancel with any id ever issued; a stale id changes nothing.
Cancel(id) ==
  /\ pc = "idle" /\ Matches(id)
  /\ Release(id.slot) /\ passed' = [passed EXCEPT ![id.slot] = 0]
  /\ UNCHANGED <<generation, cursor, now, run, issued>>

\* The caller advances the tick, often enough that no task is Half ticks overdue.
Advance(by) ==
  /\ pc = "idle"
  /\ \A i \in Slots : Used(i) => lag[i] + by < Half
  /\ now' = WrapAdd(now, by)
  /\ lag' = [i \in Slots |-> IF Used(i) THEN lag[i] + by ELSE 0]
  /\ UNCHANGED <<table, run, passed, owner, issued>>

\* run_ready begins; a zero budget returns at once.
RunReady(b) ==
  /\ pc = "idle" /\ b # 0
  /\ pc' = "visit" /\ begin' = cursor /\ offset' = 0 /\ calls' = 0 /\ budget' = b
  /\ UNCHANGED <<table, now, ghost>>

\* Mutant: the walk follows the cursor, which moves while it runs.
SlotOfCursor == (cursor + offset) % N

Slot == (begin + offset) % N

Ready == Used(Slot) /\ Reached(now, tasks[Slot].next)

\* The loop goes on to the next offset, or ends and run_ready returns.
Continue(stop) ==
  IF stop \/ offset + 1 = N
  THEN pc' = "idle" /\ begin' = 0 /\ offset' = 0 /\ calls' = 0 /\ budget' = 0
  ELSE offset' = offset + 1 /\ UNCHANGED <<pc, begin, budget>>

Skip ==
  /\ pc = "visit" /\ ~Ready
  /\ Continue(FALSE) /\ (pc' = "visit" => calls' = calls)
  /\ UNCHANGED <<table, now, ghost>>

\* Every other due task sees one more callback go first.
Overtake(i) ==
  passed' = [j \in Slots |-> IF j = i THEN 0 ELSE IF Due(j) THEN passed[j] + 1 ELSE 0]

\* Mutant: the cursor stays where it was.
InvokeInPlace ==
  LET i == Slot IN
  /\ pc = "visit" /\ Ready
  /\ \/ Release(i)
     \/ /\ tasks' = [tasks EXCEPT ![i].next = WrapAdd(now, tasks[i].period)]
        /\ lag' = [lag EXCEPT ![i] = -tasks[i].period] /\ UNCHANGED owner
  /\ Overtake(i)
  /\ Continue(calls + 1 = budget) /\ (pc' = "visit" => calls' = calls + 1)
  /\ UNCHANGED <<cursor, generation, now, issued>>

\* The callback runs and either finishes, or is rescheduled at now + period.
Invoke ==
  LET i == Slot IN
  /\ pc = "visit" /\ Ready
  /\ \/ Release(i)
     \/ /\ tasks' = [tasks EXCEPT ![i].next = WrapAdd(now, tasks[i].period)]
        /\ lag' = [lag EXCEPT ![i] = -tasks[i].period] /\ UNCHANGED owner
  /\ Overtake(i)
  /\ cursor' = (i + 1) % N
  /\ Continue(calls + 1 = budget) /\ (pc' = "visit" => calls' = calls + 1)
  /\ UNCHANGED <<generation, now, issued>>

Next ==
  \/ \E period \in Periods : Add(period)
  \/ \E r \in DOMAIN issued : Cancel(issued[r])
  \/ \E by \in Steps : Advance(by)
  \/ \E b \in Budgets : RunReady(b)
  \/ Skip
  \/ Invoke

Spec == Init /\ [][Next]_vars

-----------------------------------------------------------------------------
Ids == [slot : Slots, generation : 0 .. Generations - 1]

\* The table, the call in progress and the ghosts have their types.
TypeOK ==
  /\ \A i \in Slots :
       \/ tasks[i] = Empty
       \/ tasks[i] \in [next : Ticks, period : 1 .. MaxInterval,
                        generation : 0 .. Generations - 1]
  /\ DOMAIN tasks = Slots
  /\ generation \in 0 .. Generations - 1 /\ cursor \in Slots /\ now \in Ticks
  /\ pc \in {"idle", "visit"} /\ begin \in Slots /\ offset \in Slots
  /\ budget \in Budgets \cup {0} /\ calls \in 0 .. budget
  /\ lag \in [Slots -> -MaxInterval .. MaxInterval] /\ passed \in [Slots -> Nat]
  /\ owner \in [Slots -> 0 .. MaxAdds] /\ issued \in Seq(Ids)

\* Wrapped comparison agrees with elapsed time: a task counts as reached exactly when it
\* is due, however often the tick and next have wrapped (time.rs reached, scheduler.rs add).
ReachedIsDue == \A i \in Slots : Used(i) => (Reached(now, tasks[i].next) <=> Due(i))

\* The cursor is fair: with any budgets, a due task is passed over by at most N-1 callbacks.
NoStarvation == \A i \in Slots : passed[i] <= N - 1

\* An id names its own registration or nothing: no sequence of additions, completions and
\* cancellations lets a stale id cancel the task that took over its slot.
StaleIdsDead ==
  \A r \in DOMAIN issued : Matches(issued[r]) => owner[issued[r].slot] = r

\* A run_ready that returns with budget to spare leaves no task due.
ReturnsStep ==
  pc = "visit" /\ pc' = "idle" =>
    calls + (IF Ready THEN 1 ELSE 0) = budget \/ \A i \in Slots : ~Due(i)'
DrainsWithinBudget == [][ReturnsStep]_vars
=============================================================================
