-------------------------- MODULE SchedulerProofs ---------------------------
(***************************************************************************)
(* The cooperative scheduler for every number of slots, width of the tick,   *)
(* set of periods, budgets and steps: wrapped times are exact, the cursor is *)
(* fair, a call with budget left drains, and a stale id names nothing.        *)
(***************************************************************************)
EXTENDS Scheduler, SequenceTheorems, TLAPS

TaskSet == [next : Ticks, period : 1 .. MaxInterval, generation : 0 .. Generations - 1]

Types ==
  /\ tasks \in [Slots -> TaskSet \cup {Empty}]
  /\ generation \in 0 .. Generations - 1 /\ cursor \in Slots /\ now \in Ticks
  /\ pc \in {"idle", "visit"} /\ begin \in Slots /\ offset \in Slots
  /\ budget \in Budgets \cup {0} /\ calls \in 0 .. budget
  /\ lag \in [Slots -> -MaxInterval .. MaxInterval] /\ passed \in [Slots -> Nat]
  /\ owner \in [Slots -> 0 .. MaxAdds] /\ issued \in Seq(Ids)

\* How far b is after a, both counted modulo n.
Ahead(a, b, n) == IF b >= a THEN b - a ELSE b - a + n

\* A deadline is as far from the tick as the ghost says, on the circle of ticks.
TimeInv ==
  \A i \in Slots : Used(i) =>
    Ahead(tasks[i].next, now, 2 * Half) = IF lag[i] >= 0 THEN lag[i] ELSE lag[i] + 2 * Half

\* A due task was passed over only by slots the cursor has left behind since.
FairInv ==
  \A i \in Slots :
    /\ Due(i) => passed[i] + Ahead(cursor, i, N) <= N - 1
    /\ ~ Due(i) => passed[i] = 0

\* In a walk no slot visited is due, and the cursor is no further than the walk.
WalkInv ==
  pc = "visit" =>
    /\ calls < budget /\ Ahead(begin, cursor, N) <= offset
    /\ \A i \in Slots : Ahead(begin, i, N) < offset => ~ Due(i)

\* The generation a registration gets.
Gen(r) == IF r = Generations THEN 0 ELSE r

IdsInv ==
  /\ Adds <= MaxAdds /\ generation = Gen(Adds)
  /\ \A r \in DOMAIN issued : issued[r].generation = Gen(r)
  /\ \A i \in Slots : Used(i) => owner[i] \in 1 .. Adds /\ tasks[i].generation = Gen(owner[i])

Inv == Types /\ TimeInv /\ FairInv /\ WalkInv /\ IdsInv

-----------------------------------------------------------------------------
(* Arithmetic modulo n, without the modulus. *)

LEMMA ModSum ==
  ASSUME NEW n \in Nat \ {0}, NEW a \in 0 .. n - 1, NEW b \in 0 .. n
  PROVE  (a + b) % n = IF a + b < n THEN a + b ELSE a + b - n
OBVIOUS

LEMMA ModDifference ==
  ASSUME NEW n \in Nat \ {0}, NEW a \in 0 .. n - 1, NEW b \in 0 .. n - 1
  PROVE  (a - b) % n = Ahead(b, a, n)
BY DEF Ahead

LEMMA ModRange ==
  ASSUME NEW n \in Nat \ {0}, NEW a \in Int
  PROVE  a % n \in 0 .. n - 1
OBVIOUS
\* The width of the tick and the bounds, as the steps below use them.
LEMMA Constants ==
  /\ 2 * Half \in Nat \ {0} /\ Half \in Nat \ {0} /\ MaxInterval \in Nat /\ MaxInterval = Half - 1
  /\ N \in Nat \ {0} /\ Generations \in Nat \ {0} /\ MaxAdds \in 0 .. Generations /\ MaxAdds \in Nat
  /\ Periods \subseteq Nat /\ Budgets \subseteq Nat /\ Steps \subseteq Nat /\ Ticks = 0 .. 2 * Half - 1
<1>1. Half \in Nat \ {0}
  BY TimeAssumption
<1>2. 2 * Half \in Nat \ {0} /\ MaxInterval \in Nat /\ MaxInterval = Half - 1
  BY <1>1 DEF MaxInterval
<1> QED BY <1>1, <1>2, SchedulerAssumption DEF Ticks

\* A task is never taken for an empty slot, nor an empty slot for a task.
LEMMA TaskUsed ==
  ASSUME NEW t \in TaskSet PROVE t # Empty
<1>1. t.period # 0
  BY Constants DEF TaskSet
<1>2. Empty.period = 0
  BY DEF Empty
<1> QED BY <1>1, <1>2

\* The slot a walk is at, and the one the cursor moves to.
LEMMA SlotAhead ==
  ASSUME Types
  PROVE  /\ Slot \in Slots /\ Ahead(begin, Slot, N) = offset
         /\ \A j \in Slots : Ahead(begin, j, N) \in 0 .. N - 1
         /\ \A j \in Slots : Ahead(begin, j, N) = offset => j = Slot
<1>1. begin \in 0 .. N - 1 /\ offset \in 0 .. N - 1 /\ N \in Nat \ {0}
  BY Constants DEF Types, Slots
<1>2. Slot = IF begin + offset < N THEN begin + offset ELSE begin + offset - N
  <2>1. offset \in 0 .. N
    BY <1>1
  <2>2. (begin + offset) % N = IF begin + offset < N THEN begin + offset ELSE begin + offset - N
    BY <1>1, <2>1, ModSum
  <2> QED BY <2>2 DEF Slot
<1> QED BY <1>1, <1>2 DEF Ahead, Slots

LEMMA NextSlot ==
  ASSUME NEW i \in Slots
  PROVE  (i + 1) % N \in Slots /\ (i + 1) % N = IF i + 1 < N THEN i + 1 ELSE 0
<1>1. N \in Nat \ {0} /\ i \in 0 .. N - 1 /\ 1 \in 0 .. N
  BY Constants DEF Slots
<1>2. (i + 1) % N = IF i + 1 < N THEN i + 1 ELSE i + 1 - N
  BY <1>1, ModSum
<1> QED BY <1>1, <1>2 DEF Slots

\* Moving on by less than a turn shortens the way to what lies further ahead.
LEMMA Shorter ==
  ASSUME NEW a \in Slots, NEW c \in Slots, NEW s \in Slots, NEW j \in Slots,
         Ahead(a, c, N) <= Ahead(a, s, N), Ahead(a, s, N) < Ahead(a, j, N)
  PROVE  Ahead((s + 1) % N, j, N) + 1 <= Ahead(c, j, N)
<1>1. N \in Nat \ {0} /\ (s + 1) % N = IF s + 1 < N THEN s + 1 ELSE 0
  BY Constants, NextSlot
<1> DEFINE m == (s + 1) % N
<1>2. m = IF s + 1 < N THEN s + 1 ELSE 0
  BY <1>1
<1> HIDE DEF m
<1>3. Ahead(m, j, N) + 1 <= Ahead(c, j, N)
  BY <1>1, <1>2 DEF Ahead, Slots
<1> QED BY <1>3 DEF m

\* The next generation, as long as registrations are bounded by the generations.
LEMMA NextGen ==
  ASSUME IdsInv, Types, Adds < MaxAdds
  PROVE  NextGeneration = Gen(Adds + 1) /\ NextGeneration \in 0 .. Generations - 1
<1>1. Adds \in Nat /\ Generations \in Nat \ {0} /\ MaxAdds \in 0 .. Generations
  BY Constants, LenProperties DEF Types, Adds
<1>2. generation = Adds
  BY <1>1 DEF IdsInv, Gen
<1> DEFINE a == Adds
<1> HIDE DEF a
<1>3. a \in 0 .. Generations - 1 /\ generation = a /\ 1 \in 0 .. Generations
  BY <1>1, <1>2 DEF a
<1>4. (a + 1) % Generations = IF a + 1 < Generations THEN a + 1 ELSE a + 1 - Generations
  BY <1>1, <1>3, ModSum
<1>5. NextGeneration = Gen(a + 1) /\ NextGeneration \in 0 .. Generations - 1
  BY <1>1, <1>3, <1>4 DEF NextGeneration, Gen
<1> QED BY <1>5 DEF a

\* The wrapped comparison is exact: what the code calls reached is what is due.
LEMMA TimeExact ==
  ASSUME Types, TimeInv, NEW i \in Slots, Used(i)
  PROVE  Reached(now, tasks[i].next) <=> Due(i)
<1>1. tasks[i] \in TaskSet /\ lag[i] \in -MaxInterval .. MaxInterval /\ now \in Ticks
  BY DEF Types, Used
<1>2. tasks[i].next \in Ticks
  BY <1>1 DEF TaskSet
<1>3. WrapSub(now, tasks[i].next) = Ahead(tasks[i].next, now, 2 * Half)
  BY <1>1, <1>2, Constants, ModDifference DEF WrapSub
<1>4. WrapSub(now, tasks[i].next) = IF lag[i] >= 0 THEN lag[i] ELSE lag[i] + 2 * Half
  BY <1>3 DEF TimeInv
<1> QED BY <1>1, <1>4, Constants DEF Reached, Due
-----------------------------------------------------------------------------
\* Nothing has happened yet.
LEMMA Initially == Init => Inv
<1> SUFFICES ASSUME Init PROVE Inv
  OBVIOUS
<1>1. 0 \in Slots /\ 0 \in 0 .. Generations - 1 /\ 0 \in -MaxInterval .. MaxInterval /\ 0 \in 0 .. MaxAdds
  BY Constants DEF Slots
<1>2. issued = << >> /\ << >> \in Seq(Ids) /\ Len(<< >>) = 0 /\ DOMAIN << >> = {}
  BY EmptySeq DEF Init
<1>3. tasks = [i \in Slots |-> Empty] /\ \A i \in Slots : ~ Used(i)
  BY DEF Init, Used
<1>4. Types
  BY <1>1, <1>2, <1>3 DEF Init, Types
<1>5. TimeInv /\ FairInv
  BY <1>3 DEF Init, TimeInv, FairInv, Due
<1>6. WalkInv
  BY DEF Init, WalkInv
<1>7. IdsInv
  BY <1>2, <1>3, Constants DEF Init, IdsInv, Adds, Gen
<1> QED BY <1>4, <1>5, <1>6, <1>7 DEF Inv

\* A registration takes a free slot and the next generation, due at once.
LEMMA Adding ==
  ASSUME Inv, NEW period \in Periods, Add(period)
  PROVE  Inv'
<1>1. Types /\ TimeInv /\ FairInv /\ IdsInv
  BY DEF Inv
<1>2. pc = "idle" /\ Adds < MaxAdds /\ period \in 1 .. MaxInterval
  BY Constants DEF Add, ValidPeriod
<1>3. PICK i \in Slots :
        /\ generation' = NextGeneration
        /\ tasks' = [tasks EXCEPT ![i] = Task(now, period, generation')]
        /\ lag' = [lag EXCEPT ![i] = 0] /\ passed' = [passed EXCEPT ![i] = 0]
        /\ owner' = [owner EXCEPT ![i] = Adds + 1]
        /\ issued' = Append(issued, [slot |-> i, generation |-> generation'])
  BY DEF Add
<1>4. UNCHANGED <<cursor, now, pc, begin, offset, calls, budget>>
  BY DEF Add, run
<1>5. generation' = Gen(Adds + 1) /\ generation' \in 0 .. Generations - 1
  BY <1>1, <1>2, <1>3, NextGen
<1> DEFINE t == Task(now, period, generation')
<1>6. /\ t \in TaskSet /\ t.next = now /\ t.generation = generation'
  BY <1>1, <1>2, <1>5 DEF Task, TaskSet, Types
<1>7. tasks' = [tasks EXCEPT ![i] = t]
  BY <1>3
<1> HIDE DEF t
<1>8. tasks \in [Slots -> TaskSet \cup {Empty}] /\ lag \in [Slots -> -MaxInterval .. MaxInterval]
      /\ passed \in [Slots -> Nat] /\ owner \in [Slots -> 0 .. MaxAdds] /\ issued \in Seq(Ids)
  BY <1>1 DEF Types
<1>9. /\ tasks'[i] = t /\ lag'[i] = 0 /\ passed'[i] = 0 /\ owner'[i] = Adds + 1
      /\ \A j \in Slots \ {i} : /\ tasks'[j] = tasks[j] /\ lag'[j] = lag[j]
                                /\ passed'[j] = passed[j] /\ owner'[j] = owner[j]
  BY <1>3, <1>7, <1>8
<1>10. t # Empty
  BY <1>6, TaskUsed
<1>11. \A j \in Slots : (Used(j)' <=> (j = i \/ Used(j)))
  BY <1>9, <1>10 DEF Used
<1> DEFINE id == [slot |-> i, generation |-> generation']
<1>12. id \in Ids /\ id.generation = generation'
  BY <1>5 DEF Ids
<1>13. issued' = Append(issued, id)
  BY <1>3
<1> HIDE DEF id
<1>14. Adds \in Nat /\ Adds = Len(issued) /\ DOMAIN issued = 1 .. Adds
  BY <1>8, LenProperties DEF Adds
<1>15. /\ issued' \in Seq(Ids) /\ Len(issued') = Len(issued) + 1
       /\ \A r \in 1 .. Len(issued) : issued'[r] = issued[r]
       /\ issued'[Len(issued) + 1] = id
  BY <1>8, <1>12, <1>13
<1>16. Adds' = Adds + 1 /\ DOMAIN issued' = 1 .. Adds'
  BY <1>14, <1>15, LenProperties DEF Adds
<1>17. Types'
  <2>1. tasks' \in [Slots -> TaskSet \cup {Empty}]
    BY <1>6, <1>7, <1>8
  <2>2. lag' \in [Slots -> -MaxInterval .. MaxInterval] /\ passed' \in [Slots -> Nat]
    BY <1>3, <1>8, Constants
  <2>3. owner' \in [Slots -> 0 .. MaxAdds]
    BY <1>2, <1>3, <1>8, <1>14, Constants
  <2> QED BY <1>1, <1>4, <1>5, <1>15, <2>1, <2>2, <2>3 DEF Types
<1>18. TimeInv'
  <2>1. Ahead(now, now, 2 * Half) = 0
    BY <1>1, Constants DEF Ahead, Types
  <2> QED BY <1>1, <1>4, <1>6, <1>9, <1>11, <2>1 DEF TimeInv
<1>19. FairInv'
  <2>1. Ahead(cursor, i, N) <= N - 1
    BY <1>1, Constants DEF Types, Slots, Ahead
  <2>2. \A j \in Slots \ {i} : (Due(j)' <=> Due(j))
    BY <1>9, <1>11 DEF Due
  <2>3. passed'[i] + Ahead(cursor, i, N) <= N - 1 /\ Due(i)'
    BY <1>1, <1>9, <1>11, <2>1, Constants DEF Due, Types, Slots, Ahead
  <2>4. cursor' = cursor
    BY <1>4
  <2>5. \A j \in Slots \ {i} : /\ Due(j)' => passed'[j] + Ahead(cursor, j, N) <= N - 1
                               /\ ~ Due(j)' => passed'[j] = 0
    BY <1>1, <1>9, <2>2 DEF FairInv
  <2> QED BY <2>3, <2>4, <2>5 DEF FairInv, Ahead
<1>20. WalkInv'
  BY <1>2, <1>4 DEF WalkInv
<1>21. IdsInv'
  <2>1. Adds' <= MaxAdds /\ generation' = Gen(Adds')
    BY <1>2, <1>5, <1>14, <1>16, Constants
  <2>2. \A r \in DOMAIN issued' : issued'[r].generation = Gen(r)
    BY <1>1, <1>5, <1>12, <1>14, <1>15, <1>16 DEF IdsInv
  <2>3. ASSUME NEW j \in Slots, Used(j)'
        PROVE  owner'[j] \in 1 .. Adds' /\ tasks'[j].generation = Gen(owner'[j])
    <3>1. CASE j = i
      BY <1>5, <1>6, <1>9, <1>14, <1>16, <3>1
    <3>2. CASE j # i
      BY <1>1, <1>9, <1>11, <1>14, <1>16, <2>3, <3>2 DEF IdsInv
    <3> QED BY <3>1, <3>2
  <2> QED BY <2>1, <2>2, <2>3 DEF IdsInv, Gen
<1> QED BY <1>17, <1>18, <1>19, <1>20, <1>21 DEF Inv

\* A slot is emptied: nothing is known or due of it any more.
LEMMA Released ==
  ASSUME Types, NEW i \in Slots, Release(i)
  PROVE  /\ tasks' \in [Slots -> TaskSet \cup {Empty}] /\ lag' \in [Slots -> -MaxInterval .. MaxInterval]
         /\ owner' \in [Slots -> 0 .. MaxAdds]
         /\ ~ Used(i)'
         /\ \A j \in Slots \ {i} : tasks'[j] = tasks[j] /\ lag'[j] = lag[j] /\ owner'[j] = owner[j]
<1>1. tasks \in [Slots -> TaskSet \cup {Empty}] /\ lag \in [Slots -> -MaxInterval .. MaxInterval]
      /\ owner \in [Slots -> 0 .. MaxAdds]
  BY DEF Types
<1>2. /\ tasks' = [tasks EXCEPT ![i] = Empty]
      /\ lag' = [lag EXCEPT ![i] = 0] /\ owner' = [owner EXCEPT ![i] = 0]
  BY DEF Release
<1>3. 0 \in -MaxInterval .. MaxInterval /\ 0 \in 0 .. MaxAdds
  BY Constants
<1>4. tasks'[i] = Empty
  BY <1>1, <1>2
<1>5. tasks' \in [Slots -> TaskSet \cup {Empty}]
  BY <1>1, <1>2
<1>6. lag' \in [Slots -> -MaxInterval .. MaxInterval] /\ owner' \in [Slots -> 0 .. MaxAdds]
  BY <1>1, <1>2, <1>3
<1>7. \A j \in Slots \ {i} : tasks'[j] = tasks[j] /\ lag'[j] = lag[j] /\ owner'[j] = owner[j]
  BY <1>1, <1>2
<1> QED BY <1>4, <1>5, <1>6, <1>7 DEF Used

LEMMA Cancelling ==
  ASSUME Inv, NEW r \in DOMAIN issued, Cancel(issued[r])
  PROVE  Inv'
<1>1. Types /\ TimeInv /\ FairInv /\ IdsInv
  BY DEF Inv
<1>2. issued[r] \in Ids
  BY <1>1, LenProperties, ElementOfSeq DEF Types
<1>3. PICK i \in Slots : i = issued[r].slot
  BY <1>2 DEF Ids
<1>4. pc = "idle" /\ Release(i) /\ passed' = [passed EXCEPT ![i] = 0]
      /\ UNCHANGED <<generation, cursor, now, pc, begin, offset, calls, budget, issued>>
  BY <1>3 DEF Cancel, run
<1>5. /\ tasks' \in [Slots -> TaskSet \cup {Empty}] /\ lag' \in [Slots -> -MaxInterval .. MaxInterval]
      /\ owner' \in [Slots -> 0 .. MaxAdds] /\ ~ Used(i)'
      /\ \A j \in Slots \ {i} : tasks'[j] = tasks[j] /\ lag'[j] = lag[j] /\ owner'[j] = owner[j]
  BY <1>1, <1>3, <1>4, Released
<1>6. passed' \in [Slots -> Nat] /\ passed'[i] = 0 /\ \A j \in Slots \ {i} : passed'[j] = passed[j]
  BY <1>1, <1>3, <1>4 DEF Types
<1>7. Types'
  BY <1>1, <1>4, <1>5, <1>6 DEF Types
<1>8. ~ Due(i)' /\ \A j \in Slots \ {i} : (Due(j)' <=> Due(j)) /\ (Used(j)' <=> Used(j))
  BY <1>5 DEF Due, Used
<1>9. TimeInv'
  BY <1>1, <1>4, <1>5, <1>8 DEF TimeInv, Ahead
<1>10. FairInv'
  BY <1>1, <1>4, <1>6, <1>8 DEF FairInv, Ahead
<1>11. WalkInv'
  BY <1>4 DEF WalkInv
<1>12. IdsInv'
  BY <1>1, <1>4, <1>5, <1>8 DEF IdsInv, Adds, Gen
<1> QED BY <1>7, <1>9, <1>10, <1>11, <1>12 DEF Inv

\* The tick moves on: every task is due by as much more, and what becomes due now has
\* not been passed over yet.
LEMMA Advancing ==
  ASSUME Inv, NEW by \in Steps, Advance(by)
  PROVE  Inv'
<1>1. Types /\ TimeInv /\ FairInv /\ IdsInv /\ by \in Nat
  BY Constants DEF Inv
<1>2. /\ pc = "idle" /\ now' = WrapAdd(now, by)
      /\ \A i \in Slots : Used(i) => lag[i] + by < Half
      /\ lag' = [i \in Slots |-> IF Used(i) THEN lag[i] + by ELSE 0]
      /\ UNCHANGED <<tasks, generation, cursor, pc, begin, offset, calls, budget, passed, owner, issued>>
  BY DEF Advance, table, run
<1>3. now' \in Ticks
  <2>1. now + by \in Int
    BY <1>1, Constants DEF Types
  <2>2. (now + by) % (2 * Half) \in 0 .. 2 * Half - 1
    BY <2>1, Constants, ModRange
  <2> QED BY <1>2, <2>2, Constants DEF WrapAdd
<1>4. \A i \in Slots : lag[i] \in -MaxInterval .. MaxInterval
  BY <1>1 DEF Types
<1>5. lag' \in [Slots -> -MaxInterval .. MaxInterval]
  BY <1>1, <1>2, <1>4, Constants
<1>6. Types'
  BY <1>1, <1>2, <1>3, <1>5 DEF Types
<1>7. \A i \in Slots : (Used(i)' <=> Used(i)) /\ (Used(i) => lag'[i] = lag[i] + by)
  BY <1>2 DEF Used
<1>8. TimeInv'
  <2> SUFFICES ASSUME NEW i \in Slots, Used(i)
               PROVE  Ahead(tasks[i].next, now', 2 * Half)
                        = IF lag'[i] >= 0 THEN lag'[i] ELSE lag'[i] + 2 * Half
    BY <1>2, <1>7 DEF TimeInv, Ahead
  <2>1. tasks[i].next \in Ticks
    BY <1>1 DEF Types, Used, TaskSet
  <2>2. by \in 0 .. 2 * Half /\ lag'[i] = lag[i] + by /\ lag[i] + by < Half
    BY <1>1, <1>2, <1>4, <1>7, Constants
  <2>3. now \in 0 .. 2 * Half - 1
    BY <1>1, Constants DEF Types
  <2>4. now' = IF now + by < 2 * Half THEN now + by ELSE now + by - 2 * Half
    BY <1>2, <2>2, <2>3, Constants, ModSum DEF WrapAdd
  <2>5. Ahead(tasks[i].next, now, 2 * Half) = IF lag[i] >= 0 THEN lag[i] ELSE lag[i] + 2 * Half
    BY <1>1 DEF TimeInv
  <2>6. Ahead(tasks[i].next, now', 2 * Half)
          = IF lag[i] + by >= 0 THEN lag[i] + by ELSE lag[i] + by + 2 * Half
    <3>1. Half \in Nat \ {0} /\ tasks[i].next \in 0 .. 2 * Half - 1 /\ by \in Nat
      BY <1>1, <2>1, Constants
    <3>2. lag[i] \in -(Half - 1) .. Half - 1 /\ lag[i] + by < Half
      BY <1>4, <2>2, Constants
    <3> DEFINE d == tasks[i].next
               l == lag[i]
               m == now'
    <3>3. /\ d \in 0 .. 2 * Half - 1 /\ l \in -(Half - 1) .. Half - 1 /\ l + by < Half
          /\ Ahead(d, now, 2 * Half) = IF l >= 0 THEN l ELSE l + 2 * Half
          /\ m = IF now + by < 2 * Half THEN now + by ELSE now + by - 2 * Half
      BY <2>4, <2>5, <3>1, <3>2
    <3> HIDE DEF d, l, m
    <3>4. Ahead(d, m, 2 * Half) = IF l + by >= 0 THEN l + by ELSE l + by + 2 * Half
      BY <2>3, <3>1, <3>3 DEF Ahead
    <3> QED BY <3>4 DEF d, l, m
  <2> QED BY <2>2, <2>6
<1>9. FairInv'
  <2> SUFFICES ASSUME NEW i \in Slots
               PROVE  /\ Due(i)' => passed[i] + Ahead(cursor, i, N) <= N - 1
                      /\ ~ Due(i)' => passed[i] = 0
    BY <1>2 DEF FairInv, Ahead
  <2>1. Due(i) => Due(i)'
    BY <1>1, <1>4, <1>7 DEF Due
  <2>2. Ahead(cursor, i, N) <= N - 1
    BY <1>1, Constants DEF Types, Slots, Ahead
  <2>3. CASE Due(i)
    BY <1>1, <2>1, <2>3 DEF FairInv
  <2>4. CASE ~ Due(i)
    <3>1. passed[i] = 0
      BY <1>1, <2>4 DEF FairInv
    <3>2. 0 + Ahead(cursor, i, N) <= N - 1
      BY <1>1, Constants DEF Types, Slots, Ahead
    <3> QED BY <3>1, <3>2
  <2> QED BY <2>3, <2>4
<1>10. WalkInv'
  BY <1>2 DEF WalkInv
<1>11. IdsInv'
  BY <1>1, <1>2, <1>7 DEF IdsInv, Adds, Gen
<1> QED BY <1>6, <1>8, <1>9, <1>10, <1>11 DEF Inv

\* The walk begins at the cursor: nothing is visited yet.
LEMMA Beginning ==
  ASSUME Inv, NEW b \in Budgets, RunReady(b)
  PROVE  Inv'
<1>1. Types /\ TimeInv /\ FairInv /\ IdsInv /\ b \in Nat
  BY Constants DEF Inv
<1>2. /\ pc' = "visit" /\ begin' = cursor /\ offset' = 0 /\ calls' = 0 /\ budget' = b /\ b # 0
      /\ UNCHANGED <<tasks, generation, cursor, now, lag, passed, owner, issued>>
  BY DEF RunReady, table, ghost
<1>3. 0 \in Slots /\ cursor \in Slots /\ N \in Nat \ {0}
  BY <1>1, Constants DEF Types, Slots
<1>4. Types'
  BY <1>1, <1>2, <1>3 DEF Types
<1>5. \A j \in Slots : Ahead(cursor, j, N) >= 0 /\ Ahead(cursor, cursor, N) = 0
  BY <1>3 DEF Ahead, Slots
<1>6. WalkInv'
  <2>1. 0 < b
    BY <1>1, <1>2
  <2>2. calls' < budget'
    BY <1>2, <2>1
  <2>3. Ahead(begin', cursor', N) <= offset'
    BY <1>2, <1>3, <1>5
  <2>4. \A j \in Slots : ~ (Ahead(begin', j, N) < offset')
    BY <1>2, <1>3 DEF Ahead, Slots
  <2> QED BY <2>2, <2>3, <2>4 DEF WalkInv, Ahead
<1>7. \A i \in Slots : (Used(i)' <=> Used(i)) /\ (Due(i)' <=> Due(i))
  BY <1>2 DEF Used, Due
<1>8. TimeInv' /\ FairInv'
  BY <1>1, <1>2, <1>7 DEF TimeInv, FairInv, Ahead
<1>9. IdsInv'
  BY <1>1, <1>2, <1>7 DEF IdsInv, Adds, Gen
<1> QED BY <1>4, <1>6, <1>8, <1>9 DEF Inv

\* What Continue does to the walk.
LEMMA Continues ==
  ASSUME Types, NEW stop \in BOOLEAN, Continue(stop), NEW made \in 0 .. budget,
         pc = "visit", pc' = "visit" => calls' = made
  PROVE  /\ pc' \in {"idle", "visit"} /\ begin' \in Slots /\ offset' \in Slots
         /\ budget' \in Budgets \cup {0} /\ calls' \in 0 .. budget'
         /\ pc' = "idle" <=> (stop \/ offset + 1 = N)
         /\ pc' = "visit" => offset' = offset + 1 /\ begin' = begin /\ budget' = budget /\ calls' = made
<1>1. N \in Nat \ {0} /\ begin \in Slots /\ offset \in Slots /\ budget \in Budgets \cup {0} /\ 0 \in Slots
  BY Constants DEF Types, Slots
<1>2. CASE stop \/ offset + 1 = N
  <2>1. pc' = "idle" /\ begin' = 0 /\ offset' = 0 /\ calls' = 0 /\ budget' = 0
    BY <1>2 DEF Continue
  <2> QED BY <1>1, <1>2, <2>1
<1>3. CASE ~ (stop \/ offset + 1 = N)
  <2>1. offset' = offset + 1 /\ pc' = "visit" /\ begin' = begin /\ budget' = budget /\ calls' = made
    BY <1>3 DEF Continue
  <2>2. offset' \in Slots
    BY <1>1, <1>3, <2>1 DEF Slots
  <2> QED BY <1>1, <1>3, <2>1, <2>2
<1> QED BY <1>2, <1>3

\* A walk that goes on has dealt with one slot more.
LEMMA WalkOn ==
  ASSUME Types, WalkInv, pc = "visit", begin' = begin, offset' = offset + 1, calls' < budget',
         Ahead(begin', cursor', N) <= offset', NEW s \in Slots, s = Slot, ~ Due(s)',
         \A j \in Slots \ {s} : Due(j)' => Due(j)
  PROVE  WalkInv'
<1>1. ASSUME NEW i \in Slots, Ahead(begin', i, N) < offset' PROVE ~ Due(i)'
  <2>1. PICK o \in 0 .. N - 1, a \in 0 .. N - 1 : o = offset /\ a = Ahead(begin, i, N)
    BY SlotAhead DEF Types, Slots
  <2>2. a < o + 1
    BY <1>1, <2>1
  <2>3. a < o \/ a = o
    BY <2>2, Constants
  <2>4. CASE a = o
    <3>1. i = s
      BY <2>1, <2>4, SlotAhead
    <3> QED BY <3>1
  <2>5. CASE a < o
    <3>1. ~ Due(i)
      BY <2>1, <2>5 DEF WalkInv
    <3>2. i # s
      BY <2>1, <2>5, SlotAhead
    <3> QED BY <3>1, <3>2
  <2> QED BY <2>3, <2>4, <2>5
<1> QED BY <1>1 DEF WalkInv, Ahead

\* A slot that is empty or not reached is not due.
LEMMA Skipping ==
  ASSUME Inv, Skip
  PROVE  Inv'
<1>1. Types /\ TimeInv /\ FairInv /\ WalkInv /\ IdsInv
  BY DEF Inv
<1>2. /\ pc = "visit" /\ ~ Ready /\ Continue(FALSE) /\ (pc' = "visit" => calls' = calls)
      /\ UNCHANGED <<tasks, generation, cursor, now, lag, passed, owner, issued>>
  BY DEF Skip, table, ghost
<1>3. calls \in 0 .. budget
  BY <1>1 DEF Types
<1>4. /\ pc' \in {"idle", "visit"} /\ begin' \in Slots /\ offset' \in Slots
      /\ budget' \in Budgets \cup {0} /\ calls' \in 0 .. budget'
      /\ pc' = "visit" => offset' = offset + 1 /\ begin' = begin /\ budget' = budget /\ calls' = calls
  BY <1>1, <1>2, <1>3, Continues
<1>5. Types'
  BY <1>1, <1>2, <1>4 DEF Types
<1>6. \A i \in Slots : (Used(i)' <=> Used(i)) /\ (Due(i)' <=> Due(i))
  BY <1>2 DEF Used, Due
<1>7. TimeInv' /\ FairInv'
  BY <1>1, <1>2, <1>6 DEF TimeInv, FairInv, Ahead
<1>8. IdsInv'
  BY <1>1, <1>2, <1>6 DEF IdsInv, Adds, Gen
<1>9. Slot \in Slots /\ \A j \in Slots : Ahead(begin, j, N) \in 0 .. N - 1
  BY <1>1, SlotAhead
<1>10. ~ Due(Slot)
  BY <1>1, <1>2, <1>9, TimeExact DEF Ready, Due
<1>11. WalkInv'
  <2> SUFFICES ASSUME pc' = "visit" PROVE WalkInv'
    BY DEF WalkInv
  <2>1. offset' = offset + 1 /\ begin' = begin /\ budget' = budget /\ calls' = calls /\ cursor' = cursor
    BY <1>2, <1>4
  <2>2. calls' < budget'
    BY <1>1, <1>2, <2>1 DEF WalkInv
  <2>3. Ahead(begin, cursor, N) <= offset + 1
    <3>1. PICK o \in 0 .. N - 1, c \in 0 .. N - 1 : o = offset /\ c = Ahead(begin, cursor, N)
      <4>1. cursor \in Slots /\ offset \in Slots
        BY <1>1 DEF Types
      <4>2. Ahead(begin, cursor, N) \in 0 .. N - 1
        BY <1>9, <4>1
      <4>3. offset \in 0 .. N - 1
        BY <4>1 DEF Slots
      <4> QED BY <4>2, <4>3
    <3>2. c <= o
      BY <1>1, <1>2, <3>1 DEF WalkInv
    <3>3. c <= o + 1
      BY <3>2, Constants
    <3> QED BY <3>1, <3>3
  <2>4. Ahead(begin', cursor', N) <= offset'
    BY <2>1, <2>3
  <2>5. PICK s \in Slots : s = Slot /\ ~ Due(s)
    BY <1>9, <1>10
  <2> QED BY <1>1, <1>2, <1>6, <2>1, <2>2, <2>4, <2>5, WalkOn
<1> QED BY <1>5, <1>7, <1>8, <1>11 DEF Inv

\* After its callback the slot is empty or due a whole period from now; no other changes.
LEMMA Called ==
  ASSUME Types, TimeInv, NEW i \in Slots, Used(i),
         \/ Release(i)
         \/ /\ tasks' = [tasks EXCEPT ![i].next = WrapAdd(now, tasks[i].period)]
            /\ lag' = [lag EXCEPT ![i] = -tasks[i].period] /\ UNCHANGED owner,
         now' = now
  PROVE  /\ tasks' \in [Slots -> TaskSet \cup {Empty}] /\ lag' \in [Slots -> -MaxInterval .. MaxInterval]
         /\ owner' \in [Slots -> 0 .. MaxAdds]
         /\ \A j \in Slots \ {i} : tasks'[j] = tasks[j] /\ lag'[j] = lag[j] /\ owner'[j] = owner[j]
         /\ Used(i)' => /\ tasks'[i].generation = tasks[i].generation /\ owner'[i] = owner[i]
                        /\ lag'[i] < 0
                        /\ Ahead(tasks'[i].next, now, 2 * Half) = lag'[i] + 2 * Half
<1>1. CASE Release(i)
  BY <1>1, Released
<1>2. CASE /\ tasks' = [tasks EXCEPT ![i].next = WrapAdd(now, tasks[i].period)]
           /\ lag' = [lag EXCEPT ![i] = -tasks[i].period] /\ UNCHANGED owner
  <2>1. PICK t \in TaskSet : t = tasks[i]
    BY DEF Types, Used
  <2>2. t.period \in 1 .. Half - 1 /\ now \in 0 .. 2 * Half - 1
    BY <2>1, Constants DEF TaskSet, Types
  <2>3. PICK p \in 1 .. Half - 1 : p = t.period
    BY <2>2
  <2>4. p \in 0 .. 2 * Half
    BY Constants
  <2>5. PICK d : d = WrapAdd(now, p)
    OBVIOUS
  <2>6. d = IF now + p < 2 * Half THEN now + p ELSE now + p - 2 * Half
    BY <2>2, <2>4, <2>5, Constants, ModSum DEF WrapAdd
  <2>7. d \in Ticks /\ Ahead(d, now, 2 * Half) = 2 * Half - p
    <3>1. PICK h \in Nat \ {0}, n \in Nat : h = Half /\ n = now /\ n <= 2 * h - 1 /\ p \in 1 .. h - 1
      BY <2>2, Constants
    <3>2. d = IF n + p < 2 * h THEN n + p ELSE n + p - 2 * h
      BY <2>6, <3>1
    <3>3. d \in 0 .. 2 * h - 1 /\ Ahead(d, n, 2 * h) = 2 * h - p
      BY <3>1, <3>2 DEF Ahead
    <3> QED BY <3>1, <3>3, Constants
  <2>8. PICK u \in TaskSet : u = [t EXCEPT !.next = d]
    BY <2>7 DEF TaskSet
  <2>9. u.next = d /\ u.generation = t.generation
    BY <2>8 DEF TaskSet
  <2>10. tasks' = [tasks EXCEPT ![i] = u]
    BY <1>2, <2>1, <2>3, <2>5, <2>8
  <2>11. tasks \in [Slots -> TaskSet \cup {Empty}] /\ lag \in [Slots -> -MaxInterval .. MaxInterval]
         /\ owner \in [Slots -> 0 .. MaxAdds]
    BY DEF Types
  <2>12. tasks'[i] = u /\ \A j \in Slots \ {i} : tasks'[j] = tasks[j]
    BY <2>10, <2>11
  <2>13. tasks' \in [Slots -> TaskSet \cup {Empty}]
    BY <2>8, <2>10, <2>11
  <2>14. -p \in -MaxInterval .. MaxInterval /\ -p < 0
    BY Constants
  <2>15. lag' = [lag EXCEPT ![i] = -p]
    BY <1>2, <2>1, <2>3
  <2>16. lag' \in [Slots -> -MaxInterval .. MaxInterval] /\ lag'[i] = -p
         /\ \A j \in Slots \ {i} : lag'[j] = lag[j]
    BY <2>11, <2>14, <2>15
  <2>17. Ahead(tasks'[i].next, now, 2 * Half) = lag'[i] + 2 * Half
    <3>1. 2 * Half - p = -p + 2 * Half
      BY Constants
    <3> QED BY <2>7, <2>9, <2>12, <2>16, <3>1
  <2> QED BY <1>2, <2>1, <2>9, <2>11, <2>12, <2>13, <2>14, <2>16, <2>17
<1> QED BY <1>1, <1>2

\* The callback is called: every due task it overtook is nearer the cursor by one slot.
LEMMA Invoking ==
  ASSUME Inv, Invoke
  PROVE  Inv'
<1>1. Types /\ TimeInv /\ FairInv /\ WalkInv /\ IdsInv
  BY DEF Inv
<1>2. PICK i \in Slots :
        /\ i = Slot /\ Ahead(begin, i, N) = offset
        /\ \A j \in Slots : /\ Ahead(begin, j, N) \in 0 .. N - 1
                            /\ Ahead(begin, j, N) = offset => j = i
  BY <1>1, SlotAhead
<1>3. /\ pc = "visit" /\ Ready
      /\ \/ Release(i)
         \/ /\ tasks' = [tasks EXCEPT ![i].next = WrapAdd(now, tasks[i].period)]
            /\ lag' = [lag EXCEPT ![i] = -tasks[i].period] /\ UNCHANGED owner
      /\ Overtake(i) /\ cursor' = (i + 1) % N
      /\ Continue(calls + 1 = budget) /\ (pc' = "visit" => calls' = calls + 1)
      /\ UNCHANGED <<generation, now, issued>>
  BY <1>2 DEF Invoke
<1>4. Used(i) /\ now' = now
  BY <1>2, <1>3 DEF Ready
<1>5. /\ tasks' \in [Slots -> TaskSet \cup {Empty}] /\ lag' \in [Slots -> -MaxInterval .. MaxInterval]
      /\ owner' \in [Slots -> 0 .. MaxAdds]
      /\ \A j \in Slots \ {i} : tasks'[j] = tasks[j] /\ lag'[j] = lag[j] /\ owner'[j] = owner[j]
      /\ Used(i)' => /\ tasks'[i].generation = tasks[i].generation /\ owner'[i] = owner[i]
                     /\ lag'[i] < 0
                     /\ Ahead(tasks'[i].next, now, 2 * Half) = lag'[i] + 2 * Half
  BY <1>1, <1>3, <1>4, Called
<1>6. lag'[i] \in Int
  BY <1>5, Constants
<1>7. ~ Due(i)' /\ \A j \in Slots \ {i} : (Used(j)' <=> Used(j)) /\ (Due(j)' <=> Due(j))
  BY <1>5, <1>6 DEF Due, Used
<1>8. /\ passed' \in [Slots -> Nat] /\ passed'[i] = 0
      /\ \A j \in Slots \ {i} : passed'[j] = IF Due(j) THEN passed[j] + 1 ELSE 0
  <2>1. passed \in [Slots -> Nat]
    BY <1>1 DEF Types
  <2>2. passed' = [j \in Slots |-> IF j = i THEN 0 ELSE IF Due(j) THEN passed[j] + 1 ELSE 0]
    BY <1>3 DEF Overtake
  <2>3. \A j \in Slots : (IF j = i THEN 0 ELSE IF Due(j) THEN passed[j] + 1 ELSE 0) \in Nat
    BY <2>1
  <2>4. passed' \in [Slots -> Nat]
    BY <2>2, <2>3
  <2>5. \A j \in Slots : passed'[j] = IF j = i THEN 0 ELSE IF Due(j) THEN passed[j] + 1 ELSE 0
    BY <2>2
  <2> QED BY <2>4, <2>5
<1>9. calls + 1 \in 0 .. budget /\ calls \in Nat /\ budget \in Nat
  <2>1. budget \in Nat /\ calls \in 0 .. budget
    BY <1>1, Constants DEF Types
  <2>2. calls < budget
    BY <1>1, <1>3 DEF WalkInv
  <2> QED BY <2>1, <2>2
<1>10. /\ pc' \in {"idle", "visit"} /\ begin' \in Slots /\ offset' \in Slots
       /\ budget' \in Budgets \cup {0} /\ calls' \in 0 .. budget'
       /\ pc' = "idle" <=> (calls + 1 = budget \/ offset + 1 = N)
       /\ pc' = "visit" =>
            offset' = offset + 1 /\ begin' = begin /\ budget' = budget /\ calls' = calls + 1
  <2>1. PICK stop \in BOOLEAN : stop <=> calls + 1 = budget
    OBVIOUS
  <2>2. PICK made \in 0 .. budget : made = calls + 1
    BY <1>9
  <2>3. Continue(stop) /\ (pc' = "visit" => calls' = made)
    BY <1>3, <2>1, <2>2 DEF Continue
  <2>4. /\ pc' \in {"idle", "visit"} /\ begin' \in Slots /\ offset' \in Slots
        /\ budget' \in Budgets \cup {0} /\ calls' \in 0 .. budget'
        /\ pc' = "idle" <=> (stop \/ offset + 1 = N)
        /\ pc' = "visit" => offset' = offset + 1 /\ begin' = begin /\ budget' = budget /\ calls' = made
    BY <1>1, <1>3, <2>3, Continues
  <2> QED BY <2>1, <2>2, <2>4
<1>11. cursor' \in Slots
  BY <1>3, NextSlot
<1>12. Types'
  BY <1>1, <1>3, <1>5, <1>8, <1>10, <1>11 DEF Types
<1>13. TimeInv'
  <2> SUFFICES ASSUME NEW j \in Slots, Used(j)'
               PROVE  Ahead(tasks'[j].next, now, 2 * Half)
                        = IF lag'[j] >= 0 THEN lag'[j] ELSE lag'[j] + 2 * Half
    BY <1>4 DEF TimeInv, Ahead
  <2>1. CASE j = i
    <3>1. ~ (lag'[j] >= 0)
      BY <1>5, <1>6, <2>1
    <3> QED BY <1>5, <2>1, <3>1
  <2>2. CASE j # i
    BY <1>1, <1>5, <1>7, <2>2 DEF TimeInv
  <2> QED BY <2>1, <2>2
<1>14. FairInv'
  <2> SUFFICES ASSUME NEW j \in Slots
               PROVE  /\ Due(j)' => passed'[j] + Ahead(cursor', j, N) <= N - 1
                      /\ ~ Due(j)' => passed'[j] = 0
    BY DEF FairInv, Ahead
  <2>1. CASE j = i \/ ~ Due(j)
    BY <1>7, <1>8, <2>1
  <2>2. CASE j # i /\ Due(j)
    <3>1. PICK o \in 0 .. N - 1, a \in 0 .. N - 1 : o = offset /\ a = Ahead(begin, j, N)
      BY <1>1, <1>2 DEF Types, Slots
    <3>2. ~ (a < o) /\ a # o
      BY <1>1, <1>2, <1>3, <2>2, <3>1 DEF WalkInv
    <3>3. o < a
      BY <3>1, <3>2, Constants
    <3>4. Ahead(begin, cursor, N) <= Ahead(begin, i, N) /\ Ahead(begin, i, N) < Ahead(begin, j, N)
      BY <1>1, <1>2, <1>3, <3>1, <3>3 DEF WalkInv
    <3>5. begin \in Slots /\ cursor \in Slots
      BY <1>1 DEF Types
    <3>6. Ahead(cursor', j, N) + 1 <= Ahead(cursor, j, N)
      BY <1>3, <3>4, <3>5, Shorter
    <3>7. passed[j] + Ahead(cursor, j, N) <= N - 1 /\ passed'[j] = passed[j] + 1 /\ Due(j)'
      BY <1>1, <1>7, <1>8, <2>2 DEF FairInv
    <3>8. passed[j] \in Nat /\ Ahead(cursor', j, N) \in Int /\ Ahead(cursor, j, N) \in Int /\ N \in Nat
      <4>1. passed[j] \in Nat /\ N \in Nat
        BY <1>1, Constants DEF Types
      <4>2. \A c \in Slots : Ahead(c, j, N) \in Int
        BY Constants DEF Ahead, Slots
      <4> QED BY <1>11, <3>5, <4>1, <4>2
    <3>9. PICK p \in Nat, x \in Int, y \in Int :
            p = passed[j] /\ x = Ahead(cursor', j, N) /\ y = Ahead(cursor, j, N)
      BY <3>8
    <3>10. x + 1 <= y /\ p + y <= N - 1
      BY <3>6, <3>7, <3>9
    <3>11. p + 1 + x <= N - 1
      BY <3>8, <3>10
    <3> QED BY <3>7, <3>9, <3>11
  <2> QED BY <2>1, <2>2
<1>15. WalkInv'
  <2> SUFFICES ASSUME pc' = "visit" PROVE WalkInv'
    BY DEF WalkInv
  <2>1. offset' = offset + 1 /\ begin' = begin /\ calls' = calls + 1 /\ budget' = budget
        /\ calls + 1 # budget /\ offset + 1 # N
    BY <1>10
  <2>2. calls' < budget'
    <3>1. calls + 1 < budget
      BY <1>9, <2>1
    <3> QED BY <2>1, <3>1
  <2>3. Ahead(begin', cursor', N) <= offset'
    <3>1. N \in Nat \ {0} /\ (i + 1) % N = IF i + 1 < N THEN i + 1 ELSE 0
      BY Constants, NextSlot
    <3>2. PICK m : m = (i + 1) % N
      OBVIOUS
    <3>3. PICK b \in 0 .. N - 1, o \in 0 .. N - 1 : b = begin /\ o = offset
      BY <1>1 DEF Types, Slots
    <3>4. Ahead(b, i, N) = o /\ o + 1 # N /\ m = IF i + 1 < N THEN i + 1 ELSE 0
      BY <1>2, <2>1, <3>1, <3>2, <3>3
    <3>5. Ahead(b, m, N) <= o + 1
      BY <3>1, <3>3, <3>4 DEF Ahead, Slots
    <3> QED BY <1>3, <2>1, <3>2, <3>3, <3>5
  <2> QED BY <1>1, <1>2, <1>3, <1>7, <2>1, <2>2, <2>3, WalkOn
<1>16. IdsInv'
  <2>1. Adds' = Adds /\ issued' = issued /\ generation' = generation
    BY <1>3 DEF Adds
  <2>2. ASSUME NEW j \in Slots, Used(j)'
        PROVE  owner'[j] \in 1 .. Adds /\ tasks'[j].generation = Gen(owner'[j])
    <3>1. Used(j) /\ owner'[j] = owner[j] /\ tasks'[j].generation = tasks[j].generation
      BY <1>4, <1>5, <1>7, <2>2
    <3> QED BY <1>1, <3>1 DEF IdsInv
  <2> QED BY <1>1, <2>1, <2>2 DEF IdsInv, Gen
<1> QED BY <1>12, <1>13, <1>14, <1>15, <1>16 DEF Inv

-----------------------------------------------------------------------------
LEMMA Stutters ==
  ASSUME Inv, UNCHANGED vars
  PROVE  Inv'
BY DEF Inv, vars, table, run, ghost, Types, TimeInv, FairInv, WalkInv, IdsInv, Used, Due, Ahead,
       Adds, Gen

\* Every registration, cancellation, advance and step of a walk preserves the invariant.
LEMMA Steadily ==
  ASSUME Inv, [Next]_vars
  PROVE  Inv'
BY Adding, Cancelling, Advancing, Beginning, Skipping, Invoking, Stutters DEF Next

THEOREM SchedulerInvariance == Spec => []Inv
BY Initially, Steadily, PTL DEF Spec

\* Every variable of the scheduler keeps its type.
THEOREM SchedulerTypeCorrect == Spec => []TypeOK
<1>1. Inv => TypeOK
  <2> SUFFICES ASSUME Inv PROVE TypeOK
    OBVIOUS
  <2>1. Types
    BY DEF Inv
  <2>2. tasks \in [Slots -> TaskSet \cup {Empty}]
    BY <2>1 DEF Types
  <2> QED BY <2>1, <2>2 DEF Types, TypeOK, TaskSet
<1> QED BY <1>1, SchedulerInvariance, PTL

\* A wrapped comparison of tick and deadline says exactly whether the task is due, for
\* every width of the tick, however often both have wrapped (time.rs, scheduler.rs).
THEOREM WrappedTimeExact == Spec => []ReachedIsDue
<1>1. Inv => ReachedIsDue
  BY TimeExact DEF Inv, ReachedIsDue
<1> QED BY <1>1, SchedulerInvariance, PTL

\* A due task is passed over by at most N-1 callbacks, whatever the budgets.
THEOREM CursorIsFair == Spec => []NoStarvation
<1>1. Inv => NoStarvation
  <2> SUFFICES ASSUME Inv, NEW i \in Slots PROVE passed[i] <= N - 1
    BY DEF NoStarvation
  <2>1. Types /\ FairInv
    BY DEF Inv
  <2>2. cursor \in Slots /\ passed[i] \in Nat /\ N \in Nat \ {0}
    BY <2>1, Constants DEF Types
  <2>3. Ahead(cursor, i, N) \in Nat
    BY <2>2 DEF Ahead, Slots
  <2>4. CASE Due(i)
    <3>1. passed[i] + Ahead(cursor, i, N) <= N - 1
      BY <2>1, <2>4 DEF FairInv
    <3> QED BY <2>2, <2>3, <3>1
  <2>5. CASE ~ Due(i)
    <3>1. passed[i] = 0
      BY <2>1, <2>5 DEF FairInv
    <3> QED BY <2>2, <3>1
  <2> QED BY <2>4, <2>5
<1> QED BY <1>1, SchedulerInvariance, PTL

\* An id names its own registration or none, until the generations have gone round.
THEOREM StaleIdsNameNothing == Spec => []StaleIdsDead
<1>1. Inv => StaleIdsDead
  <2> SUFFICES ASSUME Inv, NEW r \in DOMAIN issued, Matches(issued[r])
               PROVE  owner[issued[r].slot] = r
    BY DEF StaleIdsDead
  <2>1. Types /\ IdsInv
    BY DEF Inv
  <2>2. r \in 1 .. Adds /\ Adds \in 0 .. Generations
    <3>1. DOMAIN issued = 1 .. Adds /\ Adds \in Nat
      BY <2>1, LenProperties DEF Types, Adds
    <3>2. Adds <= MaxAdds
      BY <2>1 DEF IdsInv
    <3>3. Adds \in 0 .. Generations
      BY <3>1, <3>2, Constants
    <3> QED BY <3>1, <3>3
  <2>3. PICK i \in Slots : i = issued[r].slot
    <3>1. issued \in Seq(Ids) /\ DOMAIN issued = 1 .. Len(issued)
      BY <2>1, LenProperties DEF Types
    <3>2. issued[r] \in Ids
      BY <3>1, ElementOfSeq
    <3> QED BY <3>2 DEF Ids
  <2>4. Used(i) /\ tasks[i].generation = issued[r].generation
    BY <2>3 DEF Matches
  <2>5. owner[i] \in 1 .. Adds /\ Gen(owner[i]) = Gen(r)
    BY <2>1, <2>4 DEF IdsInv
  <2>6. owner[i] = r
    BY <2>2, <2>5, Constants DEF Gen
  <2> QED BY <2>3, <2>6
<1> QED BY <1>1, SchedulerInvariance, PTL

\* A call that returns before its budget is used up has visited every slot.
LEMMA DrainStep ==
  ASSUME Inv, [Next]_vars
  PROVE  ReturnsStep
<1> SUFFICES ASSUME pc = "visit", pc' = "idle", calls + (IF Ready THEN 1 ELSE 0) # budget
             PROVE  \A i \in Slots : ~ Due(i)'
  BY DEF ReturnsStep
<1>1. Types /\ TimeInv /\ WalkInv /\ Inv'
  BY Steadily DEF Inv
<1>2. PICK s \in Slots :
        s = Slot /\ \A j \in Slots : /\ Ahead(begin, j, N) \in 0 .. N - 1
                                     /\ Ahead(begin, j, N) = offset => j = s
  BY <1>1, SlotAhead
<1>3. Skip \/ Invoke
  BY DEF Next, Add, Cancel, Advance, RunReady, vars, run
<1>4. offset + 1 = N /\ ~ Due(s)' /\ \A j \in Slots \ {s} : Due(j)' => Due(j)
  <2>1. CASE Skip
    <3>1. Continue(FALSE) /\ ~ Ready /\ UNCHANGED <<tasks, lag>>
      BY <2>1 DEF Skip, table, ghost
    <3>2. offset + 1 = N
      BY <3>1 DEF Continue
    <3>3. ~ Due(s)
      BY <1>1, <1>2, <3>1, TimeExact DEF Ready, Due
    <3> QED BY <3>1, <3>2, <3>3 DEF Due, Used
  <2>2. CASE Invoke
    <3>1. /\ Ready /\ Continue(calls + 1 = budget) /\ now' = now
          /\ \/ Release(s)
             \/ /\ tasks' = [tasks EXCEPT ![s].next = WrapAdd(now, tasks[s].period)]
                /\ lag' = [lag EXCEPT ![s] = -tasks[s].period] /\ UNCHANGED owner
      BY <1>2, <2>2 DEF Invoke
    <3>2. calls + 1 # budget
      BY <3>1
    <3>3. offset + 1 = N
      BY <3>1, <3>2 DEF Continue
    <3>4. Used(s)
      BY <1>2, <3>1 DEF Ready
    <3>5. /\ lag' \in [Slots -> -MaxInterval .. MaxInterval] /\ (Used(s)' => lag'[s] < 0)
          /\ \A j \in Slots \ {s} : tasks'[j] = tasks[j] /\ lag'[j] = lag[j]
      BY <1>1, <3>1, <3>4, Called
    <3>6. lag'[s] \in Int
      BY <3>5, Constants
    <3> QED BY <3>3, <3>5, <3>6 DEF Due, Used
  <2> QED BY <1>3, <2>1, <2>2
<1> SUFFICES ASSUME NEW i \in Slots PROVE ~ Due(i)'
  OBVIOUS
<1>5. CASE i = s
  BY <1>4, <1>5
<1>6. CASE i # s
  <2>1. PICK a \in 0 .. N - 1, o \in 0 .. N - 1 : a = Ahead(begin, i, N) /\ o = offset
    BY <1>1, <1>2 DEF Types, Slots
  <2>2. a # o /\ o + 1 = N
    BY <1>2, <1>4, <1>6, <2>1
  <2>3. a < o
    BY <2>1, <2>2, Constants
  <2>4. ~ Due(i)
    BY <1>1, <2>1, <2>3 DEF WalkInv
  <2> QED BY <1>4, <1>6, <2>4
<1> QED BY <1>5, <1>6

\* run_ready returns with budget to spare only when no task is due any more.
THEOREM DrainsWhatIsDue == Spec => DrainsWithinBudget
<1>1. Inv /\ [Next]_vars => [ReturnsStep]_vars
  BY DrainStep
<1> QED BY <1>1, SchedulerInvariance, PTL DEF Spec, DrainsWithinBudget
=============================================================================
