-------------------------- MODULE EventLoopProofs ---------------------------
(***************************************************************************)
(* The ring of slots is a bounded first-in first-out queue for every          *)
(* capacity, the example loop loses no event, a debounced press toggles its     *)
(* light once for every threshold and every pattern of bounces, and a pulsed    *)
(* output keeps its duty over any period of ticks, for every period and duty.  *)
(***************************************************************************)
EXTENDS EventLoop, Pwm, SequenceTheorems, FiniteSetTheorems, TLAPS

Queued == {Some(e) : e \in Events}

\* The slot of the k-th value from the head.
At(h, k) == IF h + k - 1 < Capacity THEN h + k - 1 ELSE h + k - 1 - Capacity

\* Where the values are; without slots there is nowhere but the beginning.
RingInv ==
  /\ len \in 0 .. Capacity /\ head \in 0 .. Capacity /\ (head = Capacity => Capacity = 0)
  /\ slots \in [Cells -> Queued \cup {Vacant}]
  /\ \A k \in 1 .. len : slots[At(head, k)] \in Queued

-----------------------------------------------------------------------------
LEMMA ModSum ==
  ASSUME NEW n \in Nat \ {0}, NEW a \in 0 .. n - 1, NEW b \in 0 .. n
  PROVE  (a + b) % n = IF a + b < n THEN a + b ELSE a + b - n
OBVIOUS

\* Slots of different values are different, and all of them exist.
LEMMA Places ==
  ASSUME RingInv
  PROVE  /\ \A k \in 1 .. Capacity : At(head, k) \in Cells /\ (head + k - 1) % Capacity = At(head, k)
         /\ \A j, k \in 1 .. Capacity : At(head, j) = At(head, k) => j = k
<1>1. Capacity \in Nat /\ head \in 0 .. Capacity /\ (head = Capacity => Capacity = 0)
  BY QueueAssumption DEF RingInv
<1>2. ASSUME NEW k \in 1 .. Capacity PROVE (head + k - 1) % Capacity = At(head, k)
  <2>1. PICK b \in 0 .. Capacity : b = k - 1
    BY <1>1
  <2>2. Capacity \in Nat \ {0} /\ head \in 0 .. Capacity - 1
    BY <1>1
  <2>3. (head + b) % Capacity = IF head + b < Capacity THEN head + b ELSE head + b - Capacity
    BY <2>2, ModSum
  <2>4. head + k - 1 = head + b
    BY <1>1, <2>1
  <2> QED BY <1>1, <2>1, <2>2, <2>3, <2>4 DEF At
<1>3. \A k \in 1 .. Capacity : At(head, k) \in Cells
  BY <1>1 DEF At, Cells
<1>4. \A j, k \in 1 .. Capacity : At(head, j) = At(head, k) => j = k
  BY <1>1 DEF At
<1> QED BY <1>2, <1>3, <1>4

ItemsOK ==
  /\ Items \in Seq(Queued) /\ Len(Items) = len /\ len \in 0 .. Capacity /\ Capacity \in Nat
  /\ \A k \in 1 .. len : Items[k] = slots[At(head, k)]
  /\ Items = << >> <=> len = 0

\* The queue as a sequence.
LEMMA ItemsAreQueued == RingInv => ItemsOK
<1> SUFFICES ASSUME RingInv PROVE ItemsOK
  OBVIOUS
<1>1. len \in 0 .. Capacity /\ Capacity \in Nat /\ len \in Nat
  BY QueueAssumption DEF RingInv
<1>2. \A k \in 1 .. len : slots[(head + k - 1) % Capacity] = slots[At(head, k)]
  BY <1>1, Places
<1>3. Items \in [1 .. len -> Queued] /\ \A k \in 1 .. len : Items[k] = slots[At(head, k)]
  BY <1>2 DEF Items, RingInv
<1>4. Items \in Seq(Queued)
  BY <1>1, <1>3, SeqDef
<1>5. DOMAIN Items = 1 .. Len(Items) /\ Len(Items) \in Nat
  BY <1>4, LenProperties
<1>6. DOMAIN Items = 1 .. len
  BY <1>3
<1>7. Len(Items) = len
  <2>1. PICK n \in Nat : n = Len(Items) /\ 1 .. n = 1 .. len
    BY <1>5, <1>6
  <2>2. (n >= 1 => n \in 1 .. len) /\ (len >= 1 => len \in 1 .. n)
    BY <1>1, <2>1
  <2>3. n = len
    BY <1>1, <2>2
  <2> QED BY <2>1, <2>3
<1>8. Items = << >> <=> len = 0
  BY <1>4, <1>7, EmptySeq
<1> QED BY <1>1, <1>3, <1>4, <1>7, <1>8 DEF ItemsOK

\* The same of the next state.
LEMMA ItemsAreQueuedNext == RingInv' => ItemsOK'
<1>1. (RingInv => ItemsOK)'
  BY ItemsAreQueued, PTL
<1> QED BY <1>1

\* A value pushed is the last one of the queue.
LEMMA PushAppends ==
  ASSUME RingInv, NEW e \in Events, Push(e)
  PROVE  /\ RingInv'
         /\ \/ /\ Len(Items) = Capacity /\ Items' = Items
               /\ out' = [op |-> "push", ok |-> FALSE, value |-> Some(e)]
            \/ /\ Len(Items) < Capacity /\ Items' = Append(Items, Some(e))
               /\ out' = [op |-> "push", ok |-> TRUE]
<1>1. /\ Items \in Seq(Queued) /\ Len(Items) = len /\ len \in 0 .. Capacity /\ Capacity \in Nat
      /\ \A k \in 1 .. len : Items[k] = slots[At(head, k)]
  BY ItemsAreQueued DEF ItemsOK
<1>2. CASE Full /\ out' = [op |-> "push", ok |-> FALSE, value |-> Some(e)] /\ UNCHANGED <<slots, head, len>>
  <2>1. Items' = Items
    BY <1>2 DEF Items
  <2>2. RingInv'
    BY <1>2 DEF RingInv
  <2> QED BY <1>1, <1>2, <2>1, <2>2 DEF Full
<1>3. CASE /\ ~ Full
           /\ slots' = [slots EXCEPT ![TailSlot] = Some(e)] /\ len' = len + 1
           /\ out' = [op |-> "push", ok |-> TRUE] /\ UNCHANGED head
  <2>1. len + 1 \in 1 .. Capacity /\ len < Capacity /\ len \in Nat
    BY <1>1, <1>3 DEF Full
  <2>2. PICK n \in 1 .. Capacity : n = len + 1
    BY <2>1
  <2>3. head \in Nat /\ TailSlot = (head + n - 1) % Capacity
    BY <1>1, <2>1, <2>2 DEF TailSlot, RingInv
  <2>4. TailSlot = At(head, n) /\ At(head, n) \in Cells
    BY <2>3, Places
  <2>5. slots' = [slots EXCEPT ![At(head, n)] = Some(e)] /\ Some(e) \in Queued
    BY <1>3, <2>4 DEF Queued
  <2>6. slots \in [Cells -> Queued \cup {Vacant}]
    BY DEF RingInv
  <2>7. slots' \in [Cells -> Queued \cup {Vacant}] /\ slots'[At(head, n)] = Some(e)
        /\ \A c \in Cells : c # At(head, n) => slots'[c] = slots[c]
    BY <2>4, <2>5, <2>6
  <2>8. \A k \in 1 .. len : slots'[At(head, k)] = slots[At(head, k)]
    <3> SUFFICES ASSUME NEW k \in 1 .. len PROVE slots'[At(head, k)] = slots[At(head, k)]
      OBVIOUS
    <3>1. k \in 1 .. Capacity /\ k # n
      BY <1>1, <2>1, <2>2
    <3> QED BY <2>7, <3>1, Places
  <2>9. \A k \in 1 .. len' : k \in 1 .. len \/ k = n
    BY <1>3, <2>1, <2>2
  <2>10. RingInv'
    <3>1. \A k \in 1 .. len' : slots'[At(head, k)] \in Queued
      BY <2>5, <2>7, <2>8, <2>9 DEF RingInv
    <3>2. len' \in 0 .. Capacity /\ head' = head
      BY <1>3, <2>1
    <3> QED BY <2>7, <3>1, <3>2 DEF RingInv, At
  <2>11. /\ Items' \in Seq(Queued) /\ Len(Items') = len + 1
         /\ \A k \in 1 .. len + 1 : Items'[k] = slots'[At(head, k)]
    <3>1. /\ Items' \in Seq(Queued) /\ Len(Items') = len'
          /\ \A k \in 1 .. len' : Items'[k] = slots'[At(head', k)]
      BY <2>10, ItemsAreQueuedNext DEF ItemsOK, At
    <3> QED BY <1>3, <3>1
  <2>12. Items' = Append(Items, Some(e))
    <3> DEFINE more == Append(Items, Some(e))
    <3>1. /\ more \in Seq(Queued) /\ Len(more) = len + 1 /\ more[len + 1] = Some(e)
          /\ \A k \in 1 .. len : more[k] = Items[k]
      BY <1>1, <2>5, AppendProperties
    <3> HIDE DEF more
    <3>2. \A k \in 1 .. len + 1 : k \in 1 .. len \/ k = len + 1
      BY <2>1
    <3>3. \A k \in 1 .. len + 1 : Items'[k] = more[k]
      BY <1>1, <2>2, <2>7, <2>8, <2>11, <3>1, <3>2
    <3>4. Items' = more
      BY <2>11, <3>1, <3>3, SeqEqual
    <3> QED BY <3>4 DEF more
  <2> QED BY <1>1, <1>3, <2>1, <2>10, <2>12
<1> QED BY <1>2, <1>3 DEF Push

\* The value popped is the first one of the queue.
LEMMA PopTakesHead ==
  ASSUME RingInv, Pop
  PROVE  /\ RingInv' /\ Items # << >> /\ Items' = Tail(Items)
         /\ out' = [op |-> "pop", ok |-> TRUE, value |-> Head(Items)]
<1>1. /\ Items \in Seq(Queued) /\ Len(Items) = len /\ len \in 0 .. Capacity /\ Capacity \in Nat
      /\ \A k \in 1 .. len : Items[k] = slots[At(head, k)]
      /\ Items = << >> <=> len = 0
  BY ItemsAreQueued DEF ItemsOK
<1>2. /\ out' = [op |-> "pop", ok |-> TRUE, value |-> slots[head]]
      /\ slots' = [slots EXCEPT ![head] = Vacant]
      /\ head' = (head + 1) % Capacity /\ len' = len - 1 /\ len # 0
  BY DEF Pop
<1>3. /\ Capacity \in Nat \ {0} /\ head \in 0 .. Capacity - 1 /\ len \in 1 .. Capacity
      /\ 1 \in 0 .. Capacity /\ len - 1 \in 0 .. Capacity - 1
  BY <1>1, <1>2 DEF RingInv
<1>4. head' = IF head + 1 < Capacity THEN head + 1 ELSE head + 1 - Capacity
  BY <1>2, <1>3, ModSum
<1>5. head' \in 0 .. Capacity - 1
  BY <1>3, <1>4
<1>6. At(head, 1) = head
  BY <1>3 DEF At
<1>7. ASSUME NEW k \in 1 .. len - 1
      PROVE  k + 1 \in 1 .. len /\ At(head', k) = At(head, k + 1)
             /\ slots'[At(head', k)] = slots[At(head, k + 1)]
  <2>1. k + 1 \in 1 .. len /\ k + 1 \in 1 .. Capacity /\ k + 1 # 1 /\ 1 \in 1 .. Capacity
    BY <1>3
  <2>2. PICK h \in 0 .. Capacity - 1 : h = head'
    BY <1>5
  <2>3. At(h, k) = At(head, k + 1)
    BY <1>3, <1>4, <2>1, <2>2 DEF At
  <2>4. At(head, k + 1) # head /\ At(head, k + 1) \in Cells
    BY <1>6, <2>1, Places
  <2>5. slots'[At(head, k + 1)] = slots[At(head, k + 1)]
    BY <1>2, <2>4 DEF RingInv
  <2> QED BY <2>1, <2>2, <2>3, <2>5
<1>8. RingInv'
  <2>1. slots' \in [Cells -> Queued \cup {Vacant}]
    BY <1>2 DEF RingInv
  <2>2. \A k \in 1 .. len' : slots'[At(head', k)] \in Queued
    BY <1>2, <1>7 DEF RingInv
  <2>3. len' \in 0 .. Capacity /\ head' \in 0 .. Capacity /\ (head' = Capacity => Capacity = 0)
    BY <1>2, <1>3, <1>5
  <2> QED BY <2>1, <2>2, <2>3 DEF RingInv, At
<1>9. /\ Items' \in Seq(Queued) /\ Len(Items') = len - 1
      /\ \A k \in 1 .. len - 1 : Items'[k] = slots'[At(head', k)]
  BY <1>2, <1>8, ItemsAreQueuedNext DEF ItemsOK, At
<1>10. /\ Items # << >> /\ Head(Items) = Items[1] /\ Tail(Items) \in Seq(Queued)
       /\ Len(Tail(Items)) = len - 1 /\ \A k \in 1 .. len - 1 : Tail(Items)[k] = Items[k + 1]
  BY <1>1, <1>3, HeadTailProperties
<1>11. \A k \in 1 .. len - 1 : Items'[k] = Tail(Items)[k]
  BY <1>1, <1>7, <1>9, <1>10
<1>12. Items' = Tail(Items)
  BY <1>9, <1>10, <1>11, SeqEqual
<1>13. Head(Items) = slots[head]
  <2>1. 1 \in 1 .. len
    BY <1>3
  <2> QED BY <1>1, <1>6, <1>10, <2>1
<1> QED BY <1>2, <1>8, <1>10, <1>12, <1>13

\* A queue that starts or is cleared is empty.
LEMMA EmptyRing ==
  /\ QueueInit => RingInv /\ Items = << >>
  /\ (Clear => RingInv' /\ Items' = << >>)
<1>1. Capacity \in Nat /\ 0 \in 0 .. Capacity
  BY QueueAssumption
<1>2. ASSUME QueueInit PROVE RingInv /\ Items = << >>
  <2>1. RingInv
    BY <1>1, <1>2 DEF QueueInit, RingInv
  <2> QED BY <1>2, <2>1, ItemsAreQueued DEF ItemsOK, QueueInit
<1>3. ASSUME Clear PROVE RingInv' /\ Items' = << >>
  <2>1. RingInv'
    BY <1>1, <1>3 DEF Clear, RingInv
  <2> QED BY <1>3, <2>1, ItemsAreQueuedNext DEF ItemsOK, Clear
<1> QED BY <1>2, <1>3

\* An operation of the queue is the operation it promises.
LEMMA QueueRefines ==
  ASSUME RingInv, QueueNext
  PROVE  RingInv' /\ Ring!FifoNext
<1>1. /\ Items \in Seq(Queued) /\ Len(Items) = len /\ Capacity \in Nat
      /\ \A k \in 1 .. len : Items[k] = slots[At(head, k)]
      /\ Items = << >> <=> len = 0
  BY ItemsAreQueued DEF ItemsOK
<1>2. CASE \E e \in Events : Push(e)
  <2>1. PICK e \in Events : Push(e)
    BY <1>2
  <2>2. RingInv' /\ Ring!Push(Some(e))
    BY <2>1, PushAppends DEF Ring!Push
  <2> QED BY <2>2 DEF Ring!FifoNext
<1>3. CASE Pop
  BY <1>3, PopTakesHead DEF Ring!FifoNext, Ring!Pop
<1>4. CASE PopEmpty
  <2>1. RingInv' /\ Items' = Items
    BY <1>4 DEF PopEmpty, RingInv, Items
  <2> QED BY <1>1, <1>4, <2>1 DEF PopEmpty, Failed, Ring!FifoNext, Ring!Pop
<1>5. CASE PeekFront
  <2>1. RingInv' /\ Items' = Items
    BY <1>5 DEF PeekFront, RingInv, Items
  <2>2. CASE len # 0 /\ out' = [op |-> "front", ok |-> TRUE, value |-> slots[head]]
    <3>1. 1 \in 1 .. len /\ At(head, 1) = head
      BY <1>1, <2>2, QueueAssumption DEF RingInv, At
    <3>2. Head(Items) = slots[head] /\ Items # << >>
      BY <1>1, <2>2, <3>1, HeadTailProperties
    <3> QED BY <2>1, <2>2, <3>2 DEF Ring!FifoNext, Ring!Front
  <2>3. CASE len = 0 /\ Failed("front")
    BY <1>1, <2>1, <2>3 DEF Failed, Ring!FifoNext, Ring!Front
  <2> QED BY <1>5, <2>2, <2>3 DEF PeekFront
<1>6. CASE Clear
  BY <1>6, EmptyRing DEF Clear, Nothing, Ring!FifoNext, Ring!Clear, Ring!Nothing
<1> QED BY <1>2, <1>3, <1>4, <1>5, <1>6 DEF QueueNext

\* What every step of a program does to the queue.
LEMMA LoopRefines ==
  ASSUME RingInv, [LoopNext]_loop
  PROVE  RingInv' /\ [Ring!FifoNext]_<<Items, out>>
<1>1. CASE UNCHANGED queue
  BY <1>1 DEF queue, RingInv, Items
<1>2. CASE QueueNext
  BY <1>2, QueueRefines
<1> QED BY <1>1, <1>2 DEF LoopNext, loop, Button, Owner, Receive, Handle, QueueNext

\* The ring of slots is a bounded first-in first-out queue, for every capacity and every
\* program that uses it (queue.rs).
THEOREM RingIsFifo == LoopSpec => ImplementsFifo
<1>1. LoopInit => RingInv /\ Ring!FifoInit
  BY EmptyRing DEF LoopInit, QueueInit, Nothing, Ring!FifoInit, Ring!Nothing
<1>2. RingInv /\ [LoopNext]_loop => RingInv' /\ [Ring!FifoNext]_<<Items, out>>
  BY LoopRefines
<1> QED BY <1>1, <1>2, PTL DEF LoopSpec, ImplementsFifo, Ring!FifoSpec

-----------------------------------------------------------------------------
FedInv == RingInv /\ LoopDropsNothing

\* The example's loop loses no event, if its queue has room for one (event_loop.rs).
THEOREM NoEventLost == Capacity # 0 => (LoopSpec => []LoopDropsNothing)
<1> SUFFICES ASSUME Capacity # 0 PROVE LoopSpec => []LoopDropsNothing
  OBVIOUS
<1>1. LoopInit => FedInv
  BY EmptyRing DEF LoopInit, FedInv, LoopDropsNothing
<1>2. FedInv /\ [LoopNext]_loop => FedInv'
  <2> SUFFICES ASSUME FedInv, [LoopNext]_loop PROVE LoopDropsNothing'
    BY LoopRefines DEF FedInv
  <2> USE DEF FedInv, LoopDropsNothing
  <2>1. CASE UNCHANGED loop
    BY <2>1 DEF loop, queue, Items
  <2>2. CASE \E v \in BOOLEAN : Button(v)
    BY <2>2 DEF Button, queue, Items
  <2>3. CASE Owner
    BY <2>3 DEF Owner
  <2>4. CASE Receive
    <3>1. PICK e \in Events : looping /\ Drained /\ Push(e) /\ fed' = Append(fed, Some(e))
      BY <2>4 DEF Receive
    <3>2. Len(Items) = 0 /\ Len(Items) # Capacity
      BY <3>1, ItemsAreQueued, EmptySeq DEF Drained, ItemsOK
    <3> QED BY <3>1, <3>2, PushAppends
  <2>5. CASE Handle
    BY <2>5, PopTakesHead DEF Handle
  <2> QED BY <2>1, <2>2, <2>3, <2>4, <2>5 DEF LoopNext
<1>3. FedInv => LoopDropsNothing
  BY DEF FedInv
<1> QED BY <1>1, <1>2, <1>3, PTL DEF LoopSpec

-----------------------------------------------------------------------------
\* What the debouncer knows of the last samples: the count is how many of them disagree with
\* the stable level without a break, and the one before those agrees with it.
ButtonInv ==
  /\ threshold \in 1 .. MaxCount /\ count \in 0 .. threshold - 1
  /\ stable \in BOOLEAN /\ candidate = (IF count = 0 THEN stable ELSE ~stable)
  /\ window \in Seq(BOOLEAN) /\ Len(window) = threshold
  /\ \A k \in 1 .. threshold : k > threshold - count => window[k] = ~stable
  /\ window[threshold - count] = stable
  /\ (~stable => released)

LEMMA ButtonInitially == LoopInit => ButtonInv
<1> SUFFICES ASSUME LoopInit PROVE ButtonInv
  OBVIOUS
<1>1. threshold \in 1 .. MaxCount
  <2>1. PICK t \in Thresholds : threshold = IF t = 0 THEN 1 ELSE t
    BY DEF LoopInit, DebouncerInit
  <2>2. MaxCount \in Nat \ {0} /\ t \in 0 .. MaxCount
    BY DebouncerAssumption
  <2> QED BY <2>1, <2>2
<1>2. count = 0 /\ stable \in BOOLEAN /\ candidate = stable /\ released = ~stable
  BY DEF LoopInit, DebouncerInit
<1>3. threshold \in Nat /\ MaxCount \in Nat
  BY <1>1, DebouncerAssumption
<1>4. window \in [1 .. threshold -> BOOLEAN] /\ \A k \in 1 .. threshold : window[k] = stable
  BY <1>2 DEF LoopInit
<1>5. window \in Seq(BOOLEAN) /\ Len(window) = threshold
  BY <1>3, <1>4, SeqDef, LenProperties
<1>6. threshold - count = threshold /\ threshold \in 1 .. threshold /\ 0 \in 0 .. threshold - 1
  BY <1>1, <1>2, <1>3
<1>7. window[threshold - count] = stable
  BY <1>4, <1>6
<1>8. \A k \in 1 .. threshold : ~(k > threshold - count)
  BY <1>3, <1>6
<1> QED BY <1>1, <1>2, <1>5, <1>6, <1>7, <1>8 DEF ButtonInv

\* The window moves by one sample.
LEMMA WindowMoves ==
  ASSUME ButtonInv, NEW v \in BOOLEAN, Button(v)
  PROVE  /\ window' \in Seq(BOOLEAN) /\ Len(window') = threshold /\ window'[threshold] = v
         /\ \A k \in 1 .. threshold - 1 : window'[k] = window[k + 1]
<1>1. PICK n \in Nat \ {0} : n = threshold
  BY DebouncerAssumption DEF ButtonInv
<1>2. window \in Seq(BOOLEAN) /\ Len(window) = n /\ window' = Append(Tail(window), v)
  BY <1>1 DEF ButtonInv, Button
<1>3. window # << >>
  BY <1>2, EmptySeq
<1>4. /\ Tail(window) \in Seq(BOOLEAN) /\ Len(Tail(window)) = n - 1
      /\ \A k \in 1 .. n - 1 : Tail(window)[k] = window[k + 1]
  BY <1>2, <1>3, HeadTailProperties
<1> DEFINE rest == Tail(window)
<1>5. /\ window' \in Seq(BOOLEAN) /\ Len(window') = n - 1 + 1 /\ window'[n - 1 + 1] = v
      /\ \A k \in 1 .. n - 1 : window'[k] = rest[k]
  BY <1>2, <1>4, AppendProperties
<1> HIDE DEF rest
<1>6. n - 1 + 1 = n
  BY <1>1
<1> QED BY <1>1, <1>4, <1>5, <1>6 DEF rest

\* A restart of the count never discards one.
LEMMA CountGoesOn ==
  ASSUME ButtonInv, NEW v \in BOOLEAN, v # stable
  PROVE  Counted(v) = count + 1
<1>1. CountOf(v) = count
  BY DEF ButtonInv, CountOf
<1>2. count \in Nat /\ count < MaxCount
  BY DebouncerAssumption DEF ButtonInv
<1> QED BY <1>1, <1>2 DEF Counted

LEMMA ButtonSteps ==
  ASSUME ButtonInv, NEW v \in BOOLEAN, Button(v)
  PROVE  ButtonInv' /\ DebouncedStep /\ (light' # light => released)
<1>1. /\ threshold \in Nat /\ threshold \in 1 .. threshold /\ threshold' = threshold
      /\ threshold \in 1 .. MaxCount /\ count \in 0 .. threshold - 1
  BY DebouncerAssumption DEF ButtonInv, Button, Sample, Settled, Counting, Recognised
<1>2. /\ window' \in Seq(BOOLEAN) /\ Len(window') = threshold /\ window'[threshold] = v
      /\ \A k \in 1 .. threshold - 1 : window'[k] = window[k + 1]
  BY WindowMoves
<1>3. /\ stable \in BOOLEAN /\ (~stable => released) /\ window[threshold - count] = stable
      /\ \A k \in 1 .. threshold : k > threshold - count => window[k] = ~stable
      /\ light' = (IF edge' = "Rising" THEN ~light ELSE light)
      /\ released' = (Up(window') \/ (released /\ light' = light))
  BY DEF ButtonInv, Button
<1>4. CASE Settled(v)
  <2>1. v = stable /\ count' = 0 /\ candidate' = v /\ stable' = stable /\ light' = light
    BY <1>3, <1>4 DEF Settled
  <2>2. window'[threshold] = stable /\ threshold - count' = threshold
    BY <1>1, <1>2, <2>1
  <2>3. DebouncedStep
    BY <1>1, <1>3, <2>1, <2>2 DEF DebouncedStep, Up, Down
  <2>4. ~stable' => released'
    BY <1>3, <2>1
  <2>5. \A k \in 1 .. threshold : ~(k > threshold - count')
    BY <1>1, <2>1
  <2>6. count' \in 0 .. threshold - 1
    BY <1>1, <2>1
  <2> QED BY <1>1, <1>2, <1>3, <2>1, <2>2, <2>3, <2>4, <2>5, <2>6 DEF ButtonInv
<1>5. CASE Counting(v)
  <2>1. v # stable /\ count' = count + 1 /\ ~(count + 1 >= threshold)
        /\ candidate' = v /\ stable' = stable /\ light' = light
    BY <1>3, <1>5, CountGoesOn DEF Counting, Agreed
  <2>2. PICK m \in 1 .. threshold - 1 : m = threshold - count'
    BY <1>1, <2>1
  <2>3. m + 1 = threshold - count /\ m \in 1 .. threshold
    BY <1>1, <2>1, <2>2
  <2>4. window'[m] = stable
    BY <1>2, <1>3, <2>2, <2>3
  <2>5. DebouncedStep
    BY <1>1, <1>3, <2>1, <2>3, <2>4 DEF DebouncedStep, Up, Down
  <2>6. ~stable' => released'
    BY <1>3, <2>1
  <2>7. \A k \in 1 .. threshold : k > m => window'[k] = ~stable
    <3> SUFFICES ASSUME NEW k \in 1 .. threshold, k > m PROVE window'[k] = ~stable
      OBVIOUS
    <3>1. CASE k = threshold
      BY <1>2, <1>3, <2>1, <3>1
    <3>2. CASE k # threshold
      <4>1. k \in 1 .. threshold - 1 /\ k + 1 \in 1 .. threshold /\ k + 1 > threshold - count
        BY <1>1, <2>2, <2>3, <3>2
      <4> QED BY <1>2, <1>3, <4>1
    <3> QED BY <3>1, <3>2
  <2>8. count' \in 0 .. threshold - 1 /\ count' # 0 /\ v = ~stable
    BY <1>1, <1>3, <2>1
  <2> QED BY <1>1, <1>2, <1>3, <2>1, <2>2, <2>4, <2>5, <2>6, <2>7, <2>8 DEF ButtonInv
<1>6. CASE Recognised(v)
  <2>1. /\ v # stable /\ count + 1 >= threshold /\ stable' = v /\ count' = 0 /\ candidate' = v
        /\ edge' = IF v THEN "Rising" ELSE "Falling"
    BY <1>6, CountGoesOn DEF Recognised, Agreed
  <2>2. threshold - count = 1 /\ 1 \in 1 .. threshold /\ threshold - count' = threshold
        /\ 0 \in 0 .. threshold - 1
    BY <1>1, <2>1
  <2>3. \A k \in 1 .. threshold : window'[k] = v
    <3> SUFFICES ASSUME NEW k \in 1 .. threshold PROVE window'[k] = v
      OBVIOUS
    <3>1. CASE k = threshold
      BY <1>2, <3>1
    <3>2. CASE k # threshold
      <4>1. k \in 1 .. threshold - 1 /\ k + 1 \in 1 .. threshold /\ k + 1 > threshold - count
        BY <1>1, <2>2, <3>2
      <4> QED BY <1>2, <1>3, <2>1, <4>1
    <3> QED BY <3>1, <3>2
  <2>4. window'[1] # window[1]
    BY <1>3, <2>1, <2>2, <2>3
  <2>5. (IF stable THEN Up(window') ELSE Down(window'))
    BY <1>3, <2>1, <2>3 DEF Up, Down
  <2>6. DebouncedStep
    BY <2>1, <2>4, <2>5 DEF DebouncedStep
  <2>7. light' # light => released
    BY <1>3, <2>1
  <2>8. ~stable' => released'
    BY <1>3, <2>1, <2>3 DEF Up
  <2>9. window'[threshold - count'] = stable'
    BY <1>1, <2>1, <2>2, <2>3
  <2>10. \A k \in 1 .. threshold : ~(k > threshold - count')
    BY <1>1, <2>2
  <2> QED BY <1>1, <1>2, <2>1, <2>2, <2>6, <2>7, <2>8, <2>9, <2>10 DEF ButtonInv
<1> QED BY <1>4, <1>5, <1>6 DEF Button, Sample

\* A press toggles the light once for every threshold and every pattern of bounces
\* (gpio_debounce.rs, input.rs sample).
THEOREM OneToggleAPress == LoopSpec => PressTogglesOnce
<1> DEFINE Step == DebouncedStep /\ (light' # light => released)
<1>1. ButtonInv /\ [LoopNext]_loop => ButtonInv' /\ [Step]_loop
  <2> SUFFICES ASSUME ButtonInv, [LoopNext]_loop PROVE ButtonInv' /\ [Step]_loop
    OBVIOUS
  <2>1. CASE \E v \in BOOLEAN : Button(v)
    BY <2>1, ButtonSteps
  <2>2. CASE UNCHANGED button
    <3>1. ButtonInv'
      BY <2>2 DEF button, debouncer, ButtonInv
    <3>2. Step
      BY <2>2 DEF button, debouncer, DebouncedStep
    <3> QED BY <3>1, <3>2
  <2>3. UNCHANGED loop => UNCHANGED button
    BY DEF loop
  <2> QED BY <2>1, <2>2, <2>3 DEF LoopNext, Owner, Receive, Handle
<1> QED BY <1>1, ButtonInitially, PTL DEF LoopSpec, PressTogglesOnce

-----------------------------------------------------------------------------
(* The pulsed output (Pwm). *)

TickRange == 2 * Half

\* The k-th of n ticks in a row, when the counter stands at t after them.
TickAt(t, n, k) == IF t - n + k - 1 >= 0 THEN t - n + k - 1 ELSE t - n + k - 1 + TickRange

\* The tick at which the k-th level of shape was asked for.
TickOf(k) == TickAt(tick, Len(shape), k)

\* shape holds what was asked for at the last ticks, in a row.
PwmInv ==
  /\ period \in Nat \ {0} /\ period < TickRange /\ duty \in 0 .. period
  /\ tick \in 0 .. TickRange - 1
  /\ shape \in Seq(BOOLEAN) /\ Len(shape) <= period
  /\ \A k \in 1 .. Len(shape) : shape[k] <=> Level(TickOf(k))

LEMMA PwmStart == PwmInit => PwmInv
<1> SUFFICES ASSUME PwmInit PROVE PwmInv
  OBVIOUS
<1>1. period \in Nat \ {0} /\ period < TickRange /\ duty \in 0 .. period
  BY PwmAssumption DEF PwmInit, Accepted, TickRange
<1>2. shape = << >> /\ shape \in Seq(BOOLEAN) /\ Len(shape) = 0
  BY DEF PwmInit
<1>3. tick \in 0 .. TickRange - 1
  BY DEF PwmInit, Ticks, TickRange
<1> QED BY <1>1, <1>2, <1>3 DEF PwmInv

LEMMA NextTick ==
  ASSUME PwmInv
  PROVE  WrapAdd(tick, 1) = IF tick + 1 < TickRange THEN tick + 1 ELSE 0
<1>1. tick \in 0 .. TickRange - 1 /\ TickRange \in Nat \ {0} /\ TickRange = 2 * Half
  BY TimeAssumption DEF PwmInv, TickRange
<1> HIDE DEF TickRange
<1>2. PICK t \in 0 .. TickRange - 1, r \in Nat \ {0} : t = tick /\ r = TickRange
  BY <1>1
<1>3. (t + 1) % r = IF t + 1 < r THEN t + 1 ELSE 0
  BY <1>2
<1> QED BY <1>1, <1>2, <1>3 DEF WrapAdd

\* One tick on, the ticks that stay are the same ones, and the last is the one that was asked.
LEMMA AtShifts ==
  ASSUME NEW t \in 0 .. TickRange - 1, NEW n \in Nat, n < TickRange, NEW k \in Nat,
         NEW s, s = IF t + 1 < TickRange THEN t + 1 ELSE 0
  PROVE  /\ k \in 1 .. n => TickAt(s, n + 1, k) = TickAt(t, n, k)
         /\ TickAt(s, n + 1, n + 1) = t
         /\ k \in 1 .. n /\ k < n => TickAt(s, n, k) = TickAt(t, n, k + 1) /\ k + 1 \in 1 .. n
         /\ TickAt(s, n, n) = t
<1>1. TickRange \in Nat /\ TickRange - 1 \in Nat
  BY TimeAssumption DEF TickRange
<1> HIDE DEF TickRange
<1> QED BY <1>1 DEF TickAt

\* A tick appends its level, and beyond a period the oldest goes.
LEMMA TickKeeps ==
  ASSUME PwmInv, Tick
  PROVE  PwmInv'
<1>1. /\ period \in Nat \ {0} /\ period < TickRange /\ tick \in 0 .. TickRange - 1 /\ TickRange \in Nat
      /\ shape \in Seq(BOOLEAN) /\ Len(shape) \in Nat /\ Len(shape) <= period
      /\ period' = period /\ duty' = duty
  BY TimeAssumption DEF PwmInv, Tick, TickRange
<1>2. tick' = IF tick + 1 < TickRange THEN tick + 1 ELSE 0
  BY NextTick DEF Tick
<1>3. PICK n \in Nat : n = Len(shape)
  BY <1>1
<1>4. PICK level \in BOOLEAN : level <=> Level(tick)
  OBVIOUS
<1>5. Level(tick) \in BOOLEAN
  BY DEF Level
<1>6. DEFINE longer == Append(shape, Level(tick))
<1>7. longer \in Seq(BOOLEAN) /\ Len(longer) = n + 1 /\ longer[n + 1] = Level(tick)
      /\ \A k \in 1 .. n : longer[k] = shape[k]
  BY <1>1, <1>3, <1>5, AppendProperties
<1>8. shape' = IF n + 1 > period THEN Tail(longer) ELSE longer
  BY <1>7 DEF Tick, LastPeriod
<1>9. \A t : Level(t)' <=> Level(t)
  BY <1>1 DEF Level
<1> HIDE DEF longer
<1>12. /\ \A k \in 1 .. n : TickAt(tick', n + 1, k) = TickAt(tick, n, k)
       /\ TickAt(tick', n + 1, n + 1) = tick
       /\ \A k \in 1 .. n : k < n => TickAt(tick', n, k) = TickAt(tick, n, k + 1) /\ k + 1 \in 1 .. n
       /\ TickAt(tick', n, n) = tick
  <2>1. n < TickRange /\ (\A k \in 1 .. n : k \in Nat)
    BY <1>1, <1>3
  <2> QED BY <1>1, <1>2, <2>1, AtShifts
<1>10. CASE n + 1 <= period
  <2>1. shape' = longer /\ Len(shape') = n + 1
    BY <1>1, <1>3, <1>7, <1>8, <1>10
  <2>2. ASSUME NEW k \in 1 .. n + 1 PROVE shape'[k] <=> Level(TickOf(k)')
    <3>1. CASE k \in 1 .. n
      <4>1. TickOf(k)' = TickOf(k)
        BY <1>12, <1>3, <2>1, <3>1 DEF TickOf
      <4> QED BY <1>3, <1>7, <2>1, <3>1, <4>1 DEF PwmInv
    <3>2. CASE k = n + 1
      <4>1. TickOf(k)' = tick
        BY <1>12, <1>3, <2>1, <3>2 DEF TickOf
      <4> QED BY <1>7, <2>1, <3>2, <4>1
    <3> QED BY <3>1, <3>2
  <2> QED BY <1>1, <1>2, <1>3, <1>7, <1>9, <1>10, <2>1, <2>2 DEF PwmInv, Level, TickRange
<1>11. CASE ~(n + 1 <= period)
  <2>1. shape' = Tail(longer) /\ n = period
    BY <1>1, <1>3, <1>8, <1>11
  <2>2. longer # << >>
    BY <1>7
  <2>3. shape' \in Seq(BOOLEAN) /\ Len(shape') = n /\ \A k \in 1 .. n : shape'[k] = longer[k + 1]
    BY <1>7, <2>1, <2>2, HeadTailProperties
  <2>4. ASSUME NEW k \in 1 .. n PROVE shape'[k] <=> Level(TickOf(k)')
    <3>1. CASE k < n
      <4>1. TickOf(k)' = TickOf(k + 1) /\ k + 1 \in 1 .. n
        BY <1>12, <1>3, <2>1, <2>3, <3>1 DEF TickOf
      <4> QED BY <1>3, <1>7, <2>3, <4>1 DEF PwmInv
    <3>2. CASE k = n
      <4>1. TickOf(k)' = tick
        BY <1>12, <1>3, <2>1, <2>3, <3>2 DEF TickOf
      <4> QED BY <1>7, <2>3, <3>2, <4>1
    <3> QED BY <3>1, <3>2
  <2> QED BY <1>1, <1>2, <1>3, <1>9, <2>1, <2>3, <2>4 DEF PwmInv, Level, TickRange
<1> QED BY <1>10, <1>11

LEMMA PwmStep == PwmInv /\ [PwmNext]_pwm => PwmInv'
<1> SUFFICES ASSUME PwmInv, [PwmNext]_pwm PROVE PwmInv'
  OBVIOUS
<1>1. CASE SetDuty
  <2>1. /\ duty' \in 0 .. period /\ shape' = << >> /\ UNCHANGED <<tick, period>>
    BY <1>1 DEF SetDuty
  <2>2. shape' \in Seq(BOOLEAN) /\ Len(shape') = 0
    BY <2>1
  <2> QED BY <2>1, <2>2 DEF PwmInv
<1>2. CASE UNCHANGED pwm
  BY <1>2 DEF pwm, PwmInv, Level, TickOf, TickAt
<1> QED BY <1>1, <1>2, TickKeeps DEF PwmNext

LEMMA Division ==
  ASSUME NEW n \in Nat, NEW d \in Nat \ {0}
  PROVE  n \div d \in Nat /\ n % d \in 0 .. d - 1 /\ n = d * (n \div d) + (n % d)
OBVIOUS

LEMMA Remainder ==
  ASSUME NEW q \in Nat, NEW d \in Nat \ {0}, NEW x \in 0 .. d - 1
  PROVE  (d * q + x) % d = x
OBVIOUS

\* Going on by at most a period from a counter.
LEMMA GoingOn ==
  ASSUME NEW p \in Nat \ {0}, NEW a \in Nat, NEW i \in 0 .. p, NEW s, s = a % p
  PROVE  (a + i) % p = IF s + i < p THEN s + i ELSE s + i - p
<1>1. PICK q \in Nat : a = p * q + s /\ s \in 0 .. p - 1
  BY Division
<1>2. CASE s + i < p
  <2>4. s + i \in 0 .. p - 1
    BY <1>1, <1>2
  <2>1. (p * q + (s + i)) % p = s + i
    BY <2>4, Remainder
  <2>2. PICK m \in Nat : m = p * q
    BY <1>1
  <2>3. a + i = p * q + (s + i)
    BY <1>1, <2>2
  <2> QED BY <1>2, <2>1, <2>3
<1>3. CASE ~(s + i < p)
  <2>1. s + i - p \in 0 .. p - 1 /\ q + 1 \in Nat
    BY <1>1, <1>3
  <2>2. (p * (q + 1) + (s + i - p)) % p = s + i - p
    BY <2>1, Remainder
  <2>3. PICK m \in Nat : m = p * q
    BY <1>1
  <2>4. p * (q + 1) = m + p
    BY <1>1, <2>3
  <2>5. a + i = p * (q + 1) + (s + i - p)
    BY <1>1, <2>3, <2>4
  <2> QED BY <1>3, <2>2, <2>5
<1> QED BY <1>2, <1>3

Least(a, b) == IF a < b THEN a ELSE b

\* Which of n ticks in a row, the first at a, are within the duty d of a period p.
Window(a, n, p, d) == {i \in 1 .. n : (a + i - 1) % p < d}

\* How many of the first n ticks from phase s of a period p are within the duty d.
HighFrom(s, n, p, d) ==
  (IF d > s THEN Least(n, d - s) ELSE 0) + (IF n > p - s THEN Least(n, p - s + d) - (p - s) ELSE 0)

Phase(a, p) == a % p

TwoRanges(b, c, e) == (1 .. b) \cup (c .. e)

\* The ticks of at most a period that are within the duty: the rest of the period that was
\* met, and the beginning of the next one.
LEMMA WindowIs ==
  ASSUME NEW p \in Nat \ {0}, NEW d \in 0 .. p, NEW a \in Nat, NEW n \in 0 .. p, NEW s, s = Phase(a, p)
  PROVE  /\ s \in 0 .. p - 1
         /\ Window(a, n, p, d) = TwoRanges(Least(n, d - s), p - s + 1, Least(n, p - s + d))
<1>1. s \in 0 .. p - 1
  BY Division DEF Phase
<1>2. ASSUME NEW i \in 1 .. n
      PROVE  (a + i - 1) % p = IF s + i - 1 < p THEN s + i - 1 ELSE s + i - 1 - p
  <2>1. i - 1 \in 0 .. p
    OBVIOUS
  <2>2. a + (i - 1) = a + i - 1
    OBVIOUS
  <2>3. (a + (i - 1)) % p = IF s + (i - 1) < p THEN s + (i - 1) ELSE s + (i - 1) - p
    BY <2>1, GoingOn DEF Phase
  <2>4. PICK j \in 0 .. p : j = i - 1
    BY <2>1
  <2>5. s + i - 1 = s + j /\ s + i - 1 - p = s + j - p
    BY <1>1, <2>4
  <2> QED BY <2>2, <2>3, <2>4, <2>5
<1>3. ASSUME NEW i \in 1 .. n
      PROVE  (a + i - 1) % p < d
               <=> i \in (1 .. Least(n, d - s)) \cup (p - s + 1 .. Least(n, p - s + d))
  <2>1. PICK r : r = (a + i - 1) % p
    OBVIOUS
  <2>2. r = IF s + i - 1 < p THEN s + i - 1 ELSE s + i - 1 - p
    BY <1>2, <2>1
  <2>3. s \in Nat /\ s < p
    BY <1>1
  <2>4. r < d <=> i \in (1 .. Least(n, d - s)) \cup (p - s + 1 .. Least(n, p - s + d))
    <3> HIDE <2>1
    <3> QED BY <2>2, <2>3 DEF Least
  <2> QED BY <2>1, <2>4
<1>4. ASSUME NEW i \in (1 .. Least(n, d - s)) \cup (p - s + 1 .. Least(n, p - s + d))
      PROVE  i \in 1 .. n
  BY <1>1 DEF Least
<1> QED BY <1>1, <1>3, <1>4 DEF Window, TwoRanges

LEMMA TwoIntervals ==
  ASSUME NEW b \in Int, NEW c \in Int, NEW e \in Int, b < c
  PROVE  /\ IsFiniteSet(TwoRanges(b, c, e))
         /\ Cardinality(TwoRanges(b, c, e))
              = (IF 1 > b THEN 0 ELSE b) + (IF c > e THEN 0 ELSE e - c + 1)
<1> DEFINE S == TwoRanges(b, c, e)
<1>1. PICK A, C : A = 1 .. b /\ C = c .. e
  OBVIOUS
<1>2. /\ IsFiniteSet(A) /\ Cardinality(A) = IF 1 > b THEN 0 ELSE b
      /\ IsFiniteSet(C) /\ Cardinality(C) = IF c > e THEN 0 ELSE e - c + 1
  BY <1>1, FS_Interval
<1>3. A \cap C = {} /\ S = A \cup C
  BY <1>1 DEF TwoRanges
<1> HIDE DEF S
<1>4. Cardinality(A \cap C) = 0
  BY <1>3, FS_EmptySet
<1>5. IsFiniteSet(S) /\ Cardinality(S) = Cardinality(A) + Cardinality(C) - Cardinality(A \cap C)
  BY <1>2, <1>3, FS_Union
<1> QED BY <1>2, <1>4, <1>5 DEF S

LEMMA WindowCounts ==
  ASSUME NEW p \in Nat \ {0}, NEW d \in 0 .. p, NEW a \in Nat, NEW n \in 0 .. p
  PROVE  /\ Phase(a, p) \in 0 .. p - 1
         /\ IsFiniteSet(Window(a, n, p, d))
         /\ Cardinality(Window(a, n, p, d)) = HighFrom(Phase(a, p), n, p, d)
<1>1. PICK s : s = Phase(a, p)
  OBVIOUS
<1>2. /\ s \in 0 .. p - 1
      /\ Window(a, n, p, d) = TwoRanges(Least(n, d - s), p - s + 1, Least(n, p - s + d))
  BY <1>1, WindowIs
<1>3. PICK S : S = Window(a, n, p, d)
  OBVIOUS
<1> HIDE <1>1
<1>4. PICK b, e : b = Least(n, d - s) /\ e = Least(n, p - s + d)
  OBVIOUS
<1>5. b \in Int /\ e \in Int /\ p - s + 1 \in Int /\ b < p - s + 1
  BY <1>2, <1>4 DEF Least
<1>6. PICK c \in Int : c = p - s + 1
  BY <1>5
<1>7. S = TwoRanges(b, c, e)
  BY <1>2, <1>3, <1>4, <1>6
<1>8. /\ IsFiniteSet(S)
      /\ Cardinality(S) = (IF 1 > b THEN 0 ELSE b) + (IF c > e THEN 0 ELSE e - c + 1)
  BY <1>5, <1>6, <1>7, TwoIntervals
<1>9. (IF 1 > b THEN 0 ELSE b) + (IF c > e THEN 0 ELSE e - c + 1) = HighFrom(s, n, p, d)
  BY <1>2, <1>4, <1>5, <1>6 DEF HighFrom, Least
<1> QED BY <1>1, <1>2, <1>3, <1>8, <1>9

LEMMA WholePeriod ==
  ASSUME NEW p \in Nat \ {0}, NEW d \in 0 .. p, NEW s \in 0 .. p - 1
  PROVE  HighFrom(s, p, p, d) = d
BY DEF HighFrom, Least

\* A period cut by the wrap: its first n ticks from phase s, the others from phase 0.
LEMMA CutPeriod ==
  ASSUME NEW p \in Nat \ {0}, NEW d \in 0 .. p, NEW s \in 0 .. p - 1, NEW n \in 0 .. p,
         NEW jump, jump = IF s + n < p THEN s + n ELSE s + n - p,
         NEW off, off = IF jump < p - jump THEN jump ELSE p - jump
  PROVE  /\ d - off <= HighFrom(s, n, p, d) + Least(p - n, d)
         /\ HighFrom(s, n, p, d) + Least(p - n, d) <= d + off
BY DEF HighFrom, Least

\* What shape says of each tick.
LEMMA ShapeSays ==
  ASSUME PwmInv, Len(shape) = period, NEW S, S = {k \in DOMAIN shape : shape[k]}
  PROVE  S = {k \in 1 .. period : TickAt(tick, period, k) % period < duty}
BY DEF PwmInv, Level, TickOf

LEMMA UncutHigh ==
  ASSUME PwmInv, Len(shape) = period, ~Wrapped
  PROVE  HighTicks = duty
<1>1. PICK p \in Nat \ {0}, t \in Nat, r \in Nat : p = period /\ t = tick /\ r = TickRange /\ p < r /\ t < r
  BY TimeAssumption DEF PwmInv, TickRange
<1>2. PICK d \in 0 .. p : d = duty
  BY <1>1 DEF PwmInv
<1>3. t >= p
  BY <1>1 DEF Wrapped
<1>4. PICK a \in Nat : a = t - p
  BY <1>1, <1>3
<1>5. ASSUME NEW k \in 1 .. p PROVE TickAt(t, p, k) = a + k - 1
  BY <1>1, <1>3, <1>4 DEF TickAt
<1>6. {k \in DOMAIN shape : shape[k]} = {k \in 1 .. p : TickAt(t, p, k) % p < d}
  BY <1>1, <1>2, ShapeSays
<1>7. {k \in DOMAIN shape : shape[k]} = Window(a, p, p, d)
  BY <1>5, <1>6 DEF Window
<1>8. HighTicks = Cardinality(Window(a, p, p, d))
  BY <1>7 DEF HighTicks
<1>9. p \in 0 .. p
  BY <1>1
<1>10. PICK s : s = Phase(a, p)
  OBVIOUS
<1>11. s \in 0 .. p - 1 /\ Cardinality(Window(a, p, p, d)) = HighFrom(s, p, p, d)
  BY <1>9, <1>10, WindowCounts
<1>12. HighFrom(s, p, p, d) = d
  BY <1>11, WholePeriod
<1> QED BY <1>2, <1>8, <1>11, <1>12

LEMMA CutHigh ==
  ASSUME PwmInv, Len(shape) = period, Wrapped
  PROVE  duty - Off <= HighTicks /\ HighTicks <= duty + Off
<1>1. PICK p \in Nat \ {0}, t \in Nat, r \in Nat : p = period /\ t = tick /\ r = TickRange /\ p < r /\ t < r
  BY TimeAssumption DEF PwmInv, TickRange
<1>2. PICK d \in 0 .. p : d = duty
  BY <1>1 DEF PwmInv
<1>3. t < p
  BY <1>1 DEF Wrapped
<1>4. PICK n \in 0 .. p, a \in Nat : n = p - t /\ a = r - n
  BY <1>1, <1>3
<1>5. ASSUME NEW k \in 1 .. n PROVE TickAt(t, p, k) = a + k - 1
  BY <1>1, <1>3, <1>4 DEF TickAt
<1>6. ASSUME NEW k \in n + 1 .. p PROVE TickAt(t, p, k) = k - 1 - n
  BY <1>1, <1>3, <1>4 DEF TickAt
<1>7. ASSUME NEW k \in n + 1 .. p PROVE (k - 1 - n) % p = k - 1 - n
  <2>1. PICK x \in 0 .. p - 1 : x = k - 1 - n
    BY <1>3, <1>4
  <2>2. x % p = x
    OBVIOUS
  <2> QED BY <2>1, <2>2
<1>8. {k \in DOMAIN shape : shape[k]} = {k \in 1 .. p : TickAt(t, p, k) % p < d}
  BY <1>1, <1>2, ShapeSays
<1>9. PICK A, B, S : /\ A = Window(a, n, p, d) /\ B = n + 1 .. n + Least(t, d)
                     /\ S = {k \in DOMAIN shape : shape[k]}
  OBVIOUS
<1>10. A \subseteq 1 .. n /\ B \subseteq n + 1 .. p
  BY <1>1, <1>2, <1>3, <1>4, <1>9 DEF Window, Least
<1>11. ASSUME NEW k \in 1 .. n PROVE k \in S <=> k \in A
  <2>1. k \in 1 .. p
    BY <1>4
  <2> QED BY <1>5, <1>8, <1>9, <2>1 DEF Window
<1>12. ASSUME NEW k \in n + 1 .. p PROVE k \in S <=> k \in B
  <2>1. k \in 1 .. p
    BY <1>4
  <2>2. k \in S <=> k - 1 - n < d
    BY <1>6, <1>7, <1>8, <1>9, <2>1
  <2>3. k \in B <=> k - 1 - n < d
    BY <1>1, <1>2, <1>3, <1>4, <1>9 DEF Least
  <2> QED BY <2>2, <2>3
<1>13. S \subseteq 1 .. p
  BY <1>8, <1>9
<1>14. ASSUME NEW k \in 1 .. p PROVE k \in 1 .. n \/ k \in n + 1 .. p
  BY <1>4
<1>15. S = A \cup B /\ A \cap B = {}
  <2>1. A \subseteq 1 .. p /\ B \subseteq 1 .. p
    BY <1>4, <1>10
  <2>2. A \cap B = {}
    BY <1>10
  <2>3. ASSUME NEW k \in 1 .. n PROVE k \notin B
    BY <1>10
  <2>4. ASSUME NEW k \in n + 1 .. p PROVE k \notin A
    BY <1>10
  <2> QED BY <1>11, <1>12, <1>13, <1>14, <2>1, <2>2, <2>3, <2>4
<1>16. PICK s : s = Phase(a, p)
  OBVIOUS
<1>17. s \in 0 .. p - 1 /\ IsFiniteSet(A) /\ Cardinality(A) = HighFrom(s, n, p, d)
  BY <1>9, <1>16, WindowCounts
<1>18. IsFiniteSet(B) /\ Cardinality(B) = Least(p - n, d)
  <2>1. PICK e \in Nat : e = Least(t, d)
    BY <1>1, <1>2 DEF Least
  <2>2. PICK b \in Nat, c \in Nat : b = n + 1 /\ c = n + e
    <3>1. n \in Nat /\ n + 1 \in Nat /\ n + e \in Nat
      OBVIOUS
    <3> QED BY <3>1
  <2>3. B = b .. c
    BY <1>9, <2>1, <2>2
  <2>4. IsFiniteSet(b .. c) /\ Cardinality(b .. c) = IF b > c THEN 0 ELSE c - b + 1
    BY FS_Interval
  <2>5. Cardinality(b .. c) = e
    BY <2>1, <2>2, <2>4, <1>4
  <2>6. p - n = t
    BY <1>4, <1>1
  <2> QED BY <2>1, <2>3, <2>4, <2>5, <2>6
<1>19. Cardinality(A \cap B) = 0
  BY <1>15, FS_EmptySet
<1>20. HighTicks = Cardinality(A) + Cardinality(B) - Cardinality(A \cap B)
  <2>1. Cardinality(S) = Cardinality(A) + Cardinality(B) - Cardinality(A \cap B)
    BY <1>15, <1>17, <1>18, FS_Union
  <2> QED BY <1>9, <2>1 DEF HighTicks
<1>21. HighFrom(s, n, p, d) \in Int /\ Least(p - n, d) \in Int
  BY <1>1, <1>2, <1>4, <1>17 DEF HighFrom, Least
<1>22. HighTicks = HighFrom(s, n, p, d) + Least(p - n, d)
  BY <1>17, <1>18, <1>19, <1>20, <1>21
<1>23. Jump = IF s + n < p THEN s + n ELSE s + n - p
  <2>1. (a + n) % p = IF s + n < p THEN s + n ELSE s + n - p
    BY <1>16, GoingOn DEF Phase
  <2>2. a + n = r
    BY <1>4
  <2> QED BY <1>1, <2>1, <2>2 DEF Jump, TickRange
<1>24. Off = IF Jump < p - Jump THEN Jump ELSE p - Jump
  BY <1>1 DEF Off
<1> QED BY <1>2, <1>17, <1>22, <1>23, <1>24, CutPeriod

\* DutyHeld for every width of the tick counter, period and duty: over a period of ticks in
\* a row the output is high for the duty, and the counter's wrap costs no more than it shifts
\* the phase (src/src/input.rs, Pwm::level).
THEOREM DutyKept == PwmSpec => []DutyHeld
<1>1. PwmInv => DutyHeld
  BY UncutHigh, CutHigh DEF DutyHeld
<1> QED BY <1>1, PwmStart, PwmStep, PTL DEF PwmSpec
=============================================================================
