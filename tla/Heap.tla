-------------------------------- MODULE Heap --------------------------------
(***************************************************************************)
(* The fixed-capacity allocator of src/src/heap.rs. State (base, units,     *)
(* bits, used, peak) is the code's; the bitmap words are the set of units   *)
(* whose bit is set. One iteration of the scan of State::allocate is one    *)
(* step, with the loop's locals as variables; what follows the scan inside  *)
(* one call (marking, clearing, copying, releasing the old block) belongs   *)
(* to the step that ends it, because State is borrowed exclusively for the  *)
(* whole call. live, mem and out are the client's view.                     *)
(***************************************************************************)
EXTENDS HeapGeometry

VARIABLES
  base, units, bits, used, peak,    \* struct State
  pc, call, i, run, start,          \* the call in progress and the scan's locals
  live, mem, out                    \* blocks handed out, memory, last result

state  == <<base, units, bits, used, peak>>
locals == <<pc, call, i, run, start>>
client == <<live, mem, out>>
vars   == <<state, locals, client>>

Abs == INSTANCE AbstractHeap

NoCall == [op |-> "none", size |-> 0, align |-> 1, old |-> NoBlock]

Call(op, size, align, old) ==
  [op |-> op, size |-> size, align |-> align, old |-> old]

need == Need(call.size)

\* State::empty for the global heap, whose first access opens it; Heap::new opens at once.
Init ==
  /\ \/ base = 0 /\ units = 0
     \/ base = (IF Bytes < Skip THEN 0 ELSE HeapBase) /\ units = HeapUnits
  /\ bits = {} /\ used = 0 /\ peak = 0
  /\ pc = "idle" /\ call = NoCall /\ i = 0 /\ run = 0 /\ start = 0
  /\ live = {} /\ out = NoBlock
  /\ mem \in [0 .. Capacity - 1 -> Values]

\* State::init, run by an access that finds the base pointer null.
Open ==
  IF base = 0 /\ Bytes >= Skip
  THEN base' = HeapBase /\ units' = HeapUnits
  ELSE UNCHANGED <<base, units>>

\* The early returns of allocate, and of resize when the new Layout is invalid.
Refused(c) ==
  \/ c.size = 0
  \/ c.size > units' * Granule
  \/ c.op = "resize" /\ c.size > SizeMax - (c.align - 1)

Refuse(c) ==
  /\ pc = "idle" /\ Open /\ Refused(c)
  /\ out' = NoBlock
  /\ UNCHANGED <<bits, used, peak, locals, live, mem>>

Accept(c) ==
  /\ pc = "idle" /\ Open /\ ~Refused(c)
  /\ pc' = "scan" /\ call' = c /\ i' = 0 /\ run' = 0 /\ start' = 0
  /\ UNCHANGED <<bits, used, peak, client>>

Calls ==
  {Call(op, size, align, NoBlock) :
     op \in {"alloc", "zeroed"}, size \in Sizes, align \in Aligns}
  \cup {Call("resize", size, b.align, b) : size \in Sizes, b \in live}

Request == \E c \in Calls : Refuse(c) \/ Accept(c)

\* Mutant: the loop bound is off by one.
ScanningPastEnd == pc = "scan" /\ i <= units

Scanning == pc = "scan" /\ i < units

\* Mutant: an occupied unit does not end the run.
SkipOccupiedInRun ==
  /\ Scanning /\ i \in bits
  /\ i' = i + 1
  /\ UNCHANGED <<state, pc, call, run, start, client>>

\* Mutant: the unit after an occupied one is not looked at.
SkipOccupiedTwo ==
  /\ Scanning /\ i \in bits
  /\ run' = 0 /\ i' = i + 2
  /\ UNCHANGED <<state, pc, call, start, client>>

SkipOccupied ==
  /\ Scanning /\ i \in bits
  /\ run' = 0 /\ i' = i + 1
  /\ UNCHANGED <<state, pc, call, start, client>>

SkipMisaligned ==
  /\ Scanning /\ i \notin bits
  /\ run = 0 /\ ~Aligned(i, call.align)
  /\ i' = i + 1
  /\ UNCHANGED <<state, pc, call, run, start, client>>

\* Unit i is free and either continues the run or may begin one.
Usable == Scanning /\ i \notin bits /\ (run > 0 \/ Aligned(i, call.align))

RunStart == IF run = 0 THEN i ELSE start

Extend ==
  /\ Usable /\ run + 1 # need
  /\ start' = RunStart /\ run' = run + 1 /\ i' = i + 1
  /\ UNCHANGED <<state, pc, call, client>>

Idle == pc' = "idle" /\ call' = NoCall /\ i' = 0 /\ run' = 0 /\ start' = 0

\* Mutant: the last unit of a run is left out.
MarkShort(set, first, count, on) ==
  IF on THEN set \cup Run(first, count - 1) ELSE set \ Run(first, count - 1)

\* State::mark
Mark(set, first, count, on) ==
  IF on THEN set \cup Run(first, count) ELSE set \ Run(first, count)

\* The bitmap and the counter after allocate marks the run that begins at first.
Taken(first) == Mark(bits, first, need, TRUE)

\* Memory after write_bytes(0, size) on a block's payload.
Zeroed(b) == [k \in DOMAIN mem |-> IF k \in Payload(b) THEN 0 ELSE mem[k]]

\* Mutant: the last byte of the prefix is not moved.
CopiedShort(old, new) ==
  LET prefix == Run(new.start * Granule, Smaller(old.size, new.size) - 1)
  IN  [k \in DOMAIN mem |->
         IF k \in prefix THEN mem[k - new.start * Granule + old.start * Granule]
                         ELSE mem[k]]

\* Memory after copy_nonoverlapping of the common prefix of two payloads.
Copied(old, new) ==
  LET prefix == Run(new.start * Granule, Smaller(old.size, new.size))
  IN  [k \in DOMAIN mem |->
         IF k \in prefix THEN mem[k - new.start * Granule + old.start * Granule]
                         ELSE mem[k]]

\* The run is complete: allocate marks it and counts it, then allocate_zeroed clears
\* the payload and resize copies the prefix and releases the old block.
Found ==
  LET first == RunStart
      new   == Block(first, call.size, call.align)
      old   == call.old
  IN
  /\ Usable /\ run + 1 = need
  /\ peak' = Larger(peak, used + need)
  /\ \/ /\ call.op = "resize"
        /\ bits' = Mark(Taken(first), old.start, Need(old.size), FALSE)
        /\ used' = used + need - Need(old.size)
        /\ live' = (live \ {old}) \cup {new}
        /\ mem' = Copied(old, new)
     \/ /\ call.op \in {"alloc", "zeroed"}
        /\ bits' = Taken(first)
        /\ used' = used + need
        /\ live' = live \cup {new}
        /\ mem' = IF call.op = "zeroed" THEN Zeroed(new) ELSE mem
  /\ out' = new
  /\ Idle /\ UNCHANGED <<base, units>>

\* The loop runs out of units: null, and the old block of a resize stays as it was.
Exhausted ==
  /\ pc = "scan" /\ i >= units
  /\ out' = NoBlock
  /\ Idle /\ UNCHANGED <<state, live, mem>>

\* Mutant: the units of a release are rounded down.
DeallocateFloor(b) ==
  /\ pc = "idle" /\ Open
  /\ bits' = Mark(bits, b.start, b.size \div Granule, FALSE)
  /\ used' = used - b.size \div Granule
  /\ live' = live \ {b}
  /\ UNCHANGED <<peak, locals, mem, out>>

\* State::deallocate, under its contract: a live block and its exact Layout.
Deallocate(b) ==
  /\ pc = "idle" /\ Open
  /\ bits' = Mark(bits, b.start, Need(b.size), FALSE)
  /\ used' = used - Need(b.size)
  /\ live' = live \ {b}
  /\ UNCHANGED <<peak, locals, mem, out>>

\* The owner of a block stores to its payload.
Write(b, v) ==
  /\ pc = "idle"
  /\ mem' = [k \in DOMAIN mem |-> IF k \in Payload(b) THEN v ELSE mem[k]]
  /\ UNCHANGED <<state, locals, live, out>>

\* Mutant: the free run goes on across occupied units.
LargestFreeJoined ==
  LET scan[n \in 0 .. units] ==
        IF n = 0 THEN 0 ELSE IF n - 1 \in bits THEN scan[n - 1] ELSE scan[n - 1] + 1
  IN  scan[units]

\* State::stats: the loop over the bitmap that finds the longest free run.
LargestFree ==
  LET scan[n \in 0 .. units] ==
        IF n = 0 THEN [run |-> 0, largest |-> 0]
        ELSE IF n - 1 \in bits THEN [scan[n - 1] EXCEPT !.run = 0]
        ELSE LET longer == scan[n - 1].run + 1
             IN  [run |-> longer, largest |-> Larger(scan[n - 1].largest, longer)]
  IN  scan[units].largest

\* A statistics query changes nothing but opens the global heap.
QueryStats ==
  /\ pc = "idle" /\ Open
  /\ UNCHANGED <<bits, used, peak, locals, client>>

ScanStep == SkipOccupied \/ SkipMisaligned \/ Extend \/ Found \/ Exhausted

Next ==
  \/ Request
  \/ ScanStep
  \/ \E b \in live : Deallocate(b)
  \/ \E b \in live, v \in Values : Write(b, v)
  \/ QueryStats

Spec == Init /\ [][Next]_vars

-----------------------------------------------------------------------------
BlockSet == [start : 0 .. HeapUnits, size : Sizes \cup {0}, align : Aligns \cup {1}]

CallSet ==
  [op : {"none", "alloc", "zeroed", "resize"}, size : Sizes \cup {0},
   align : Aligns \cup {1}, old : BlockSet]

\* Every variable of the allocator and of its client has its type.
TypeOK ==
  /\ base \in {0, HeapBase} /\ units \in {0, HeapUnits}
  /\ bits \subseteq 0 .. units - 1
  /\ used \in Int /\ peak \in Int
  /\ pc \in {"idle", "scan"} /\ call \in CallSet
  /\ i \in 0 .. units /\ run \in 0 .. units /\ start \in 0 .. units
  /\ live \subseteq BlockSet /\ out \in BlockSet
  /\ mem \in [0 .. Capacity - 1 -> Values]

\* No unit is handed out twice: live blocks are whole runs inside the heap, aligned as
\* requested, and no two of them overlap (heap.rs allocate).
LiveDisjoint ==
  /\ \A b \in live : /\ b.size > 0 /\ Extent(b) \subseteq 0 .. units - 1
                     /\ Aligned(b.start, b.align)
  /\ \A b, c \in live : b # c => Extent(b) \cap Extent(c) = {}

\* The bitmap is exactly the units of the live blocks and the counter is its size, so
\* no sequence of calls leaks a unit or releases one twice; the peak is never below it.
Accounting ==
  /\ bits = Held(live)
  /\ used = Cardinality(bits)
  /\ used <= peak

\* The scan's loop invariant: its run is free, ends before i, began aligned, and is
\* still too short; every earlier place has been ruled out.
ScanSound ==
  pc = "scan" =>
    /\ run < need
    /\ run > 0 => /\ start + run = i /\ Aligned(start, call.align)
                  /\ Run(start, run) \cap bits = {}
    /\ \A p \in 0 .. (IF run > 0 THEN start ELSE i) - 1 :
         ~Fits(p, call.size, call.align, bits)

\* The allocator implements the abstract heap: requests fail only for lack of room, payloads
\* are cleared or moved whole, and no call changes a byte another block owns.
ImplementsAbstract == Abs!AbsSpec

\* A block is placed at the lowest address that can hold it, and a request fails only
\* when no address can (the first-fit rule of the scan in State::allocate).
FirstFitStep ==
  pc = "scan" /\ pc' = "idle" =>
    LET places == Places(call.size, call.align, bits)
    IN  IF places = {} THEN out' = NoBlock
        ELSE out'.start \in places /\ \A p \in places : out'.start <= p
FirstFit == [][FirstFitStep]_vars

\* largest_free of the statistics is a promise: a request that is no longer and needs
\* no more than a unit's alignment is served.
LargestServedStep ==
  pc = "scan" /\ pc' = "idle" /\ need <= LargestFree /\ Granule % call.align = 0
  /\ HeapBase % Granule = 0 => out' # NoBlock
LargestServed == [][LargestServedStep]_vars
=============================================================================
