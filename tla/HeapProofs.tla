----------------------------- MODULE HeapProofs -----------------------------
(***************************************************************************)
(* The allocator of Heap is correct for every extent, granule and set of     *)
(* requests: its inductive invariant, the properties that follow, what its    *)
(* statistics promise, and that it implements the abstract heap.              *)
(***************************************************************************)
EXTENDS Heap, FiniteSetTheorems, WellFoundedInduction, TLAPS

-----------------------------------------------------------------------------
(* Arithmetic of units. *)

\* A quotient by a positive divisor brackets the dividend.
LEMMA Quotient ==
  ASSUME NEW a \in Int, NEW g \in Nat \ {0}
  PROVE  a \div g \in Int /\ g * (a \div g) <= a /\ a < g * (a \div g) + g
  OBVIOUS

\* Heap sizes are natural numbers.
LEMMA GeometryTypes == HeapUnits \in Nat /\ Skip \in Nat /\ HeapBase \in Nat \ {0}
<1>1. Skip \in Nat
  BY GeometryAssumption DEF Skip
<1>2. HeapBase \in Nat \ {0}
  BY <1>1, GeometryAssumption DEF HeapBase
<1>3. HeapUnits \in Nat
  <2>1. CASE Bytes < Skip
    BY <2>1 DEF HeapUnits
  <2>2. CASE Bytes >= Skip
    <3>1. Bytes - Skip \in Nat
      BY <2>2, <1>1, GeometryAssumption
    <3>2. (Bytes - Skip) \div Granule \in Nat
      BY <3>1, GeometryAssumption
    <3> QED  BY <3>2, <2>2, <1>1, GeometryAssumption DEF HeapUnits
  <2> QED  BY <2>1, <2>2, <1>1, GeometryAssumption
<1> QED  BY <1>1, <1>2, <1>3

\* Sizes of layouts, the null block's included, are natural numbers.
LEMMA SizesNat == \A size \in Sizes \cup {0} : size \in Nat
  BY GeometryAssumption

\* A layout needs no unit when empty, at least one otherwise, and no more than an
\* extent that is as long as its size.
LEMMA NeedBounds ==
  ASSUME NEW size \in Nat
  PROVE  /\ Need(size) \in Nat
         /\ size > 0 => Need(size) >= 1
         /\ size = 0 => Need(size) = 0
         /\ \A u \in Nat : size <= u * Granule => Need(size) <= u
<1> DEFINE n == (size + Granule - 1) \div Granule
<1>1. /\ n \in Int /\ Granule * n <= size + Granule - 1
      /\ size + Granule - 1 < Granule * n + Granule
  BY Quotient, GeometryAssumption
<1>2. n \in Nat
  BY GeometryAssumption
<1>3. size > 0 => n >= 1
  BY <1>1, <1>2, GeometryAssumption
<1>4. size = 0 => n = 0
  BY <1>1, <1>2, GeometryAssumption
<1>5. ASSUME NEW u \in Nat, size <= u * Granule
      PROVE  n <= u
  <2>1. SUFFICES ASSUME n >= u + 1 PROVE FALSE
    BY <1>2
  <2>2. Granule * n >= Granule * (u + 1)
    BY <2>1, <1>2, GeometryAssumption
  <2>3. Granule * (u + 1) = u * Granule + Granule
    BY GeometryAssumption
  <2> QED  BY <1>1, <1>2, <1>5, <2>2, <2>3, GeometryAssumption
<1> QED  BY <1>2, <1>3, <1>4, <1>5 DEF Need

\* The units of a layout cover its bytes.
LEMMA NeedCovers ==
  ASSUME NEW size \in Nat
  PROVE  size <= Need(size) * Granule
<1> DEFINE n == (size + Granule - 1) \div Granule
<1>1. n \in Int /\ size + Granule - 1 < Granule * n + Granule
  BY Quotient, GeometryAssumption
<1>2. Granule * n = n * Granule /\ n * Granule \in Int
  BY <1>1, GeometryAssumption
<1> QED  BY <1>1, <1>2, GeometryAssumption DEF Need

\* The payload of a run of units inside the heap lies inside the managed bytes.
LEMMA PayloadInside ==
  ASSUME NEW first \in Nat, NEW size \in Nat, first + Need(size) <= HeapUnits
  PROVE  first * Granule \in Nat /\ first * Granule + size <= Capacity
<1>1. /\ Need(size) \in Nat /\ size <= Need(size) * Granule /\ HeapUnits \in Nat
      /\ first * Granule \in Nat /\ Need(size) * Granule \in Nat
  BY NeedBounds, NeedCovers, GeometryTypes, GeometryAssumption
<1>2. (first + Need(size)) * Granule <= HeapUnits * Granule
  BY <1>1, GeometryAssumption
<1>3. (first + Need(size)) * Granule = first * Granule + Need(size) * Granule
  BY <1>1, GeometryAssumption
<1> QED  BY <1>1, <1>2, <1>3, GeometryAssumption DEF Capacity

\* A run of units is finite and has as many elements as it counts.
LEMMA RunCardinality ==
  ASSUME NEW a \in Int, NEW n \in Nat
  PROVE  IsFiniteSet(Run(a, n)) /\ Cardinality(Run(a, n)) = n
<1>1. /\ IsFiniteSet(a .. a + n - 1)
      /\ Cardinality(a .. a + n - 1) = IF a > a + n - 1 THEN 0 ELSE a + n - 1 - a + 1
  BY FS_Interval
<1> QED  BY <1>1 DEF Run

-----------------------------------------------------------------------------
(* The inductive invariant: the properties the runs check, and what a call in    *)
(* progress keeps of its request.                                               *)

CallSound ==
  pc = "scan" =>
    /\ units = HeapUnits
    /\ call.op \in {"alloc", "zeroed", "resize"}
    /\ call.size > 0 /\ call.size <= units * Granule
    /\ call.op = "resize" => call.old \in live /\ call.align = call.old.align

Inv == TypeOK /\ LiveDisjoint /\ Accounting /\ ScanSound /\ CallSound

\* The units of a block in the type are finitely many.
LEMMA ExtentFacts ==
  ASSUME NEW b \in BlockSet
  PROVE  /\ b.start \in Nat /\ b.size \in Nat /\ Need(b.size) \in Nat
         /\ IsFiniteSet(Extent(b)) /\ Cardinality(Extent(b)) = Need(b.size)
<1>1. b.start \in Nat /\ b.size \in Nat
  BY SizesNat, GeometryTypes DEF BlockSet
<1>2. Need(b.size) \in Nat
  BY <1>1, NeedBounds
<1> QED  BY <1>1, <1>2, RunCardinality DEF Extent

\* What a call in progress asks for.
LEMMA RequestFacts ==
  ASSUME Inv, pc = "scan"
  PROVE  /\ call.size \in Nat /\ need \in Nat /\ need >= 1 /\ need <= units
         /\ units \in Nat /\ i \in Nat /\ run \in Nat /\ start \in Nat
<1>1. call.size \in Nat /\ call.size > 0 /\ call.size <= units * Granule
  BY SizesNat DEF Inv, TypeOK, CallSet, CallSound
<1>2. units \in Nat /\ i \in Nat /\ run \in Nat /\ start \in Nat
  BY GeometryTypes DEF Inv, TypeOK
<1> QED  BY <1>1, <1>2, NeedBounds DEF need

\* When the scan completes a run, the run is free, aligned and inside the heap.
LEMMA FoundRun ==
  ASSUME Inv, Usable, run + 1 = need
  PROVE  /\ RunStart \in Nat /\ RunStart + need = i + 1 /\ i + 1 <= units
         /\ Aligned(RunStart, call.align)
         /\ Run(RunStart, need) \cap bits = {}
         /\ Run(RunStart, need) \subseteq 0 .. units - 1
<1>1. pc = "scan" /\ i < units /\ i \notin bits /\ (run > 0 \/ Aligned(i, call.align))
  BY DEF Usable, Scanning
<1>2. /\ need \in Nat /\ need >= 1 /\ units \in Nat /\ i \in Nat /\ run \in Nat
      /\ start \in Nat
  BY <1>1, RequestFacts
<1>3. /\ RunStart \in Nat /\ RunStart + run = i
      /\ Aligned(RunStart, call.align) /\ Run(RunStart, run) \cap bits = {}
  <2>1. CASE run > 0
    BY <2>1, <1>1, <1>2 DEF Inv, ScanSound, RunStart
  <2>2. CASE run = 0
    BY <2>2, <1>1, <1>2 DEF RunStart, Run
  <2> QED  BY <2>1, <2>2, <1>2
<1>4. Run(RunStart, need) = Run(RunStart, run) \cup {i}
  BY <1>2, <1>3 DEF Run
<1>5. Run(RunStart, need) \cap bits = {}
  BY <1>1, <1>3, <1>4
<1>6. Run(RunStart, need) \subseteq 0 .. units - 1
  BY <1>1, <1>2, <1>3 DEF Run
<1> QED  BY <1>1, <1>2, <1>3, <1>5, <1>6

\* Adding or removing a block adds or removes exactly its units.
LEMMA HeldAdd ==
  ASSUME NEW S, NEW b
  PROVE  Held(S \cup {b}) = Held(S) \cup Extent(b)
  BY DEF Held

LEMMA HeldRemove ==
  ASSUME NEW S, NEW b \in S, \A c \in S : b # c => Extent(b) \cap Extent(c) = {}
  PROVE  Held(S \ {b}) = Held(S) \ Extent(b)
  BY DEF Held

-----------------------------------------------------------------------------
\* The allocator starts in the invariant.
LEMMA InitInv == Init => Inv
<1> SUFFICES ASSUME Init PROVE Inv
  OBVIOUS
<1>1. NoBlock \in BlockSet
  BY GeometryTypes DEF NoBlock, Block, BlockSet
<1>2. units \in {0, HeapUnits} /\ units \in Nat
  BY GeometryTypes DEF Init
<1>3. TypeOK
  BY <1>1, <1>2, GeometryTypes DEF Init, TypeOK, NoCall, CallSet
<1>4. LiveDisjoint
  BY DEF Init, LiveDisjoint
<1>5. Accounting
  <2>1. bits = {} /\ used = 0 /\ peak = 0 /\ Held(live) = {}
    BY DEF Init, Held
  <2> QED  BY <2>1, FS_EmptySet DEF Accounting
<1>6. ScanSound /\ CallSound
  BY DEF Init, ScanSound, CallSound
<1> QED  BY <1>3, <1>4, <1>5, <1>6 DEF Inv

-----------------------------------------------------------------------------
(* One lemma per kind of step. *)

\* Opening the global heap can only make units available.
LEMMA OpenFacts ==
  ASSUME TypeOK, Open
  PROVE  /\ base' \in {0, HeapBase} /\ units' \in {0, HeapUnits} /\ units' >= units
         /\ units \in Nat /\ units' \in Nat
         /\ \A S : S \subseteq 0 .. units - 1 => S \subseteq 0 .. units' - 1
  BY GeometryTypes DEF TypeOK, Open

\* Steps between calls that leave the table and the blocks alone.
LEMMA IdleStepInv ==
  ASSUME Inv, pc = "idle", Open, UNCHANGED <<bits, used, peak, locals, live>>,
         out' \in BlockSet, mem' \in [0 .. Capacity - 1 -> Values]
  PROVE  Inv'
<1> USE DEF locals
<1>1. TypeOK'
  BY OpenFacts DEF Inv, TypeOK
<1>2. LiveDisjoint'
  BY OpenFacts DEF Inv, LiveDisjoint
<1>3. Accounting'
  BY DEF Inv, Accounting
<1>4. ScanSound' /\ CallSound'
  BY DEF ScanSound, CallSound
<1> QED  BY <1>1, <1>2, <1>3, <1>4 DEF Inv

\* The requests of a client are well typed.
LEMMA CallTypes ==
  ASSUME TypeOK, NEW c \in Calls
  PROVE  /\ c \in CallSet /\ c.op \in {"alloc", "zeroed", "resize"}
         /\ c.op = "resize" => c.old \in live /\ c.align = c.old.align
<1>1. NoBlock \in BlockSet
  BY GeometryTypes DEF NoBlock, Block, BlockSet
<1>2. CASE \E op \in {"alloc", "zeroed"}, size \in Sizes, align \in Aligns :
             c = Call(op, size, align, NoBlock)
  BY <1>1, <1>2 DEF Call, CallSet
<1>3. CASE \E size \in Sizes, b \in live : c = Call("resize", size, b.align, b)
  <2>1. PICK size \in Sizes, b \in live : c = Call("resize", size, b.align, b)
    BY <1>3
  <2>2. b \in BlockSet /\ b.align \in Aligns \cup {1}
    BY DEF TypeOK, BlockSet
  <2> QED  BY <2>1, <2>2 DEF Call, CallSet
<1> QED  BY <1>2, <1>3 DEF Calls

\* A call that enters the scan.
LEMMA AcceptInv ==
  ASSUME Inv, NEW c \in Calls, Accept(c)
  PROVE  Inv'
<1> USE DEF Accept, client
<1>1. TypeOK'
  BY OpenFacts, CallTypes DEF Inv, TypeOK
<1>2. LiveDisjoint'
  BY OpenFacts DEF Inv, LiveDisjoint
<1>3. Accounting'
  BY DEF Inv, Accounting
<1>4. c.size \in Nat /\ c.size > 0 /\ c.size <= units' * Granule
  <2>1. c.size \in Nat
    BY SizesNat, CallTypes DEF Inv, CallSet
  <2>2. units' * Granule \in Nat
    BY OpenFacts, GeometryAssumption DEF Inv
  <2>3. c.size # 0 /\ ~(c.size > units' * Granule)
    BY DEF Refused
  <2> QED  BY <2>1, <2>2, <2>3
<1>5. CallSound'
  <2>1. units' \in {0, HeapUnits} /\ units' # 0
    BY <1>4, OpenFacts, GeometryAssumption DEF Inv
  <2> QED  BY <1>4, <2>1, CallTypes DEF Inv, CallSound
<1>6. ScanSound'
  <2>1. Need(c.size) \in Nat /\ Need(c.size) >= 1
    BY <1>4, NeedBounds
  <2> QED  BY <2>1 DEF ScanSound, need
<1> QED  BY <1>1, <1>2, <1>3, <1>5, <1>6 DEF Inv

\* A step of the scan that goes on: only its locals change.
LEMMA ScanStepInv ==
  ASSUME Inv, Scanning, UNCHANGED <<state, pc, call, client>>,
         i' \in 0 .. units, run' \in 0 .. units, start' \in 0 .. units, ScanSound'
  PROVE  Inv'
<1> USE DEF state, client, Scanning
<1>1. TypeOK'
  BY DEF Inv, TypeOK
<1>2. LiveDisjoint' /\ Accounting'
  BY DEF Inv, LiveDisjoint, Accounting
<1>3. CallSound'
  BY DEF Inv, CallSound
<1> QED  BY <1>1, <1>2, <1>3 DEF Inv

\* An occupied unit rules out every place whose run would reach it.
LEMMA SkipOccupiedInv ==
  ASSUME Inv, SkipOccupied
  PROVE  Inv'
<1> USE DEF SkipOccupied, Scanning
<1>1. /\ need \in Nat /\ need >= 1 /\ units \in Nat /\ i \in Nat /\ run \in Nat
      /\ start \in Nat
  BY RequestFacts
<1>2. ScanSound'
  <2>1. need' = need /\ bits' = bits /\ call' = call
    BY DEF need, state
  <2>2. ASSUME NEW p \in 0 .. i
        PROVE  ~Fits(p, call.size, call.align, bits)
    <3>1. CASE p < (IF run > 0 THEN start ELSE i)
      BY <3>1, <1>1 DEF Inv, ScanSound
    <3>2. CASE p >= (IF run > 0 THEN start ELSE i)
      <4>1. p + need > i
        BY <3>2, <1>1 DEF Inv, ScanSound
      <4>2. i \in Run(p, need)
        BY <4>1, <1>1 DEF Run
      <4> QED  BY <4>2 DEF Fits, need
    <3> QED  BY <3>1, <3>2, <1>1
  <2> QED  BY <2>1, <2>2, <1>1 DEF ScanSound
<1> QED  BY <1>1, <1>2, ScanStepInv DEF Inv, TypeOK

\* A misaligned unit begins no run.
LEMMA SkipMisalignedInv ==
  ASSUME Inv, SkipMisaligned
  PROVE  Inv'
<1> USE DEF SkipMisaligned, Scanning
<1>1. /\ need \in Nat /\ need >= 1 /\ units \in Nat /\ i \in Nat /\ run \in Nat
      /\ start \in Nat
  BY RequestFacts
<1>2. ScanSound'
  <2>1. need' = need /\ bits' = bits /\ call' = call
    BY DEF need, state
  <2>2. \A p \in 0 .. i : ~Fits(p, call.size, call.align, bits)
    BY <1>1 DEF Inv, ScanSound, Fits
  <2> QED  BY <2>1, <2>2, <1>1 DEF ScanSound
<1> QED  BY <1>1, <1>2, ScanStepInv DEF Inv, TypeOK

\* A free unit makes the run longer by one.
LEMMA ExtendInv ==
  ASSUME Inv, Extend
  PROVE  Inv'
<1> USE DEF Extend, Usable, Scanning
<1>1. /\ need \in Nat /\ need >= 1 /\ units \in Nat /\ i \in Nat /\ run \in Nat
      /\ start \in Nat
  BY RequestFacts
<1>2. RunStart \in Nat /\ RunStart + run = i /\ Aligned(RunStart, call.align)
  BY <1>1 DEF Inv, ScanSound, RunStart
<1>3. Run(RunStart, run) \cap bits = {}
  <2>1. CASE run > 0
    BY <2>1, <1>1 DEF Inv, ScanSound, RunStart
  <2>2. CASE run = 0
    BY <2>2, <1>1 DEF Run, RunStart
  <2> QED  BY <2>1, <2>2, <1>1
<1>4. Run(RunStart, run + 1) = Run(RunStart, run) \cup {i}
  BY <1>1, <1>2 DEF Run
<1>5. ScanSound'
  <2>1. need' = need /\ bits' = bits /\ call' = call /\ run' > 0
    BY <1>1 DEF need, state
  <2>2. run' < need
    BY <1>1 DEF Inv, ScanSound
  <2>3. \A p \in 0 .. RunStart - 1 : ~Fits(p, call.size, call.align, bits)
    BY <1>1 DEF Inv, ScanSound, RunStart
  <2> QED  BY <2>1, <2>2, <2>3, <1>1, <1>2, <1>3, <1>4 DEF ScanSound
<1> QED  BY <1>1, <1>2, <1>5, ScanStepInv DEF Inv, TypeOK

\* A failed call leaves the table as it was.
LEMMA ExhaustedInv ==
  ASSUME Inv, Exhausted
  PROVE  Inv'
<1> USE DEF Exhausted, Idle, state
<1>1. NoBlock \in BlockSet /\ NoCall \in CallSet /\ units \in Nat
  BY GeometryTypes DEF Inv, TypeOK, NoBlock, Block, BlockSet, NoCall, CallSet
<1>2. TypeOK'
  BY <1>1 DEF Inv, TypeOK
<1>3. LiveDisjoint' /\ Accounting'
  BY DEF Inv, LiveDisjoint, Accounting
<1>4. ScanSound' /\ CallSound'
  BY DEF ScanSound, CallSound
<1> QED  BY <1>2, <1>3, <1>4 DEF Inv

\* The bitmap is finite.
LEMMA BitsFinite ==
  ASSUME Inv
  PROVE  IsFiniteSet(bits) /\ Cardinality(bits) \in Nat
<1>1. units \in Nat /\ bits \subseteq 0 .. units - 1
  BY GeometryTypes DEF Inv, TypeOK
<1>2. IsFiniteSet(0 .. units - 1)
  BY <1>1, FS_Interval
<1>3. IsFiniteSet(bits)
  BY <1>1, <1>2, FS_Subset
<1> QED  BY <1>3, FS_CardinalityType

\* Marking a free run adds its units to the count.
LEMMA MarkOn ==
  ASSUME Inv, NEW first \in Nat, NEW n \in Nat, Run(first, n) \cap bits = {}
  PROVE  /\ IsFiniteSet(bits \cup Run(first, n))
         /\ Cardinality(bits \cup Run(first, n)) = used + n
<1>1. IsFiniteSet(Run(first, n)) /\ Cardinality(Run(first, n)) = n
  BY RunCardinality
<1>2. Cardinality(bits \cap Run(first, n)) = 0
  <2>1. bits \cap Run(first, n) = {}
    OBVIOUS
  <2> QED  BY <2>1, FS_EmptySet
<1>3. /\ IsFiniteSet(bits \cup Run(first, n))
      /\ Cardinality(bits \cup Run(first, n)) =
           Cardinality(bits) + Cardinality(Run(first, n))
             - Cardinality(bits \cap Run(first, n))
  BY <1>1, BitsFinite, FS_Union
<1> QED  BY <1>1, <1>2, <1>3, BitsFinite DEF Inv, Accounting

\* Clearing the units of a held block takes them from the count.
LEMMA MarkOff ==
  ASSUME NEW S, IsFiniteSet(S), NEW b \in BlockSet, Extent(b) \subseteq S
  PROVE  Cardinality(S \ Extent(b)) = Cardinality(S) - Need(b.size)
<1>1. S \cap Extent(b) = Extent(b)
  OBVIOUS
<1>2. Cardinality(S \ Extent(b)) = Cardinality(S) - Cardinality(S \cap Extent(b))
  BY FS_Difference
<1> QED  BY <1>1, <1>2, ExtentFacts

\* Releasing a live block.
LEMMA DeallocateInv ==
  ASSUME Inv, NEW b \in live, Deallocate(b)
  PROVE  Inv'
<1>1. b \in BlockSet /\ Need(b.size) \in Nat
  BY ExtentFacts DEF Inv, TypeOK
<1>2. /\ pc = "idle" /\ Open /\ bits' = bits \ Extent(b)
      /\ used' = used - Need(b.size) /\ live' = live \ {b}
      /\ UNCHANGED <<peak, pc, call, i, run, start, mem, out>>
  BY DEF Deallocate, Mark, Extent, locals
<1>3. Extent(b) \subseteq bits
  BY DEF Inv, Accounting, Held
<1>4. TypeOK'
  <2>1. used' \in Int
    BY <1>1, <1>2 DEF Inv, TypeOK
  <2>2. bits' \subseteq 0 .. units' - 1
    <3>1. bits' \subseteq 0 .. units - 1
      BY <1>2 DEF Inv, TypeOK
    <3> QED  BY <3>1, <1>2, OpenFacts DEF Inv
  <2>3. base' \in {0, HeapBase} /\ units' \in {0, HeapUnits} /\ i' \in 0 .. units'
        /\ run' \in 0 .. units' /\ start' \in 0 .. units'
    BY <1>2, OpenFacts DEF Inv, TypeOK
  <2> QED  BY <2>1, <2>2, <2>3, <1>2 DEF Inv, TypeOK
<1>5. LiveDisjoint'
  BY <1>2, OpenFacts DEF Inv, LiveDisjoint
<1>6. Accounting'
  <2>1. bits' = Held(live')
    BY <1>2, HeldRemove DEF Inv, LiveDisjoint, Accounting
  <2>2. Cardinality(bits') = Cardinality(bits) - Need(b.size)
    BY <1>1, <1>2, <1>3, BitsFinite, MarkOff
  <2>3. /\ used \in Int /\ peak \in Int /\ used = Cardinality(bits) /\ used <= peak
        /\ used' = used - Need(b.size) /\ peak' = peak
    BY <1>2 DEF Inv, TypeOK, Accounting
  <2>4. used' = Cardinality(bits') /\ used' <= peak'
    BY <1>1, <2>2, <2>3
  <2> QED  BY <2>1, <2>4 DEF Accounting
<1>7. ScanSound' /\ CallSound'
  BY <1>2 DEF ScanSound, CallSound
<1> QED  BY <1>4, <1>5, <1>6, <1>7 DEF Inv

\* Moving the common prefix reads and writes inside the managed bytes.
LEMMA CopiedType ==
  ASSUME Inv, Usable, run + 1 = need, call.op = "resize"
  PROVE  Copied(call.old, Block(RunStart, call.size, call.align))
           \in [0 .. Capacity - 1 -> Values]
<1> DEFINE new == Block(RunStart, call.size, call.align)
<1> DEFINE old == call.old
<1>1. pc = "scan" /\ old \in live /\ old \in BlockSet /\ units = HeapUnits
  BY DEF Inv, TypeOK, CallSound, Usable, Scanning
<1>2. /\ RunStart \in Nat /\ RunStart + need <= HeapUnits /\ call.size \in Nat
      /\ new.start = RunStart /\ new.size = call.size /\ HeapUnits \in Nat
  BY <1>1, FoundRun, RequestFacts, GeometryTypes DEF Block
<1>3. /\ old.start \in Nat /\ old.size \in Nat /\ Need(old.size) \in Nat
      /\ Need(old.size) >= 1 /\ Extent(old) \subseteq 0 .. HeapUnits - 1
  BY <1>1, ExtentFacts, NeedBounds DEF Inv, LiveDisjoint
<1>4. old.start + Need(old.size) <= HeapUnits
  <2>1. old.start + Need(old.size) - 1 \in Extent(old)
    BY <1>3 DEF Extent, Run
  <2> QED  BY <2>1, <1>2, <1>3
<1>5. /\ new.start * Granule \in Nat /\ old.start * Granule \in Nat /\ Capacity \in Nat
      /\ old.start * Granule + old.size <= Capacity
  BY <1>2, <1>3, <1>4, PayloadInside, GeometryAssumption DEF need, Capacity
<1>6. Smaller(old.size, new.size) \in Nat /\ Smaller(old.size, new.size) <= old.size
  BY <1>2, <1>3 DEF Smaller
<1>7. ASSUME NEW k \in Run(new.start * Granule, Smaller(old.size, new.size))
      PROVE  k - new.start * Granule + old.start * Granule \in 0 .. Capacity - 1
  <2> DEFINE a == new.start * Granule
  <2> DEFINE b == old.start * Granule
  <2> DEFINE m == Smaller(old.size, new.size)
  <2>1. k \in Int /\ a <= k /\ k <= a + m - 1
    BY <1>5, <1>6, <1>7 DEF Run
  <2>2. a \in Nat /\ b \in Nat /\ m \in Nat /\ m <= old.size /\ b + old.size <= Capacity
        /\ old.size \in Nat /\ Capacity \in Nat
    BY <1>3, <1>5, <1>6
  <2> HIDE DEF a, b, m, new, old
  <2>3. k - a + b \in Int /\ 0 <= k - a + b /\ k - a + b <= Capacity - 1
    BY <2>1, <2>2
  <2>4. k - a + b \in 0 .. Capacity - 1
    BY <2>2, <2>3
  <2> QED  BY <2>4 DEF a, b
<1> QED  BY <1>7 DEF Copied, Inv, TypeOK

\* A granted request: alone, or releasing the block it replaces.
LEMMA FoundInv ==
  ASSUME Inv, Found
  PROVE  Inv'
<1> DEFINE new == Block(RunStart, call.size, call.align)
<1> DEFINE old == call.old
<1> USE DEF Idle
<1>1. pc = "scan" /\ Usable /\ run + 1 = need
  BY DEF Found, Usable, Scanning
<1>2. /\ RunStart \in Nat /\ RunStart + need <= units /\ Aligned(RunStart, call.align)
      /\ Run(RunStart, need) \cap bits = {} /\ Run(RunStart, need) \subseteq 0 .. units - 1
  BY <1>1, FoundRun, RequestFacts
<1>3. /\ call \in CallSet /\ call.size \in Nat /\ call.size > 0 /\ need \in Nat
      /\ need >= 1 /\ units \in Nat /\ units \in {0, HeapUnits}
  BY <1>1, RequestFacts DEF Inv, TypeOK, CallSound
<1>4. /\ new.start = RunStart /\ new.size = call.size /\ new.align = call.align
      /\ Extent(new) = Run(RunStart, need)
  BY DEF Block, Extent, need
<1>5. new \in BlockSet
  BY <1>2, <1>3 DEF Block, BlockSet, CallSet
<1>6. Taken(RunStart) = bits \cup Extent(new)
  BY <1>4 DEF Taken, Mark
<1>7. IsFiniteSet(bits \cup Extent(new)) /\ Cardinality(bits \cup Extent(new)) = used + need
  BY <1>2, <1>3, <1>4, MarkOn
<1>8. \A c \in live : Extent(c) \subseteq bits /\ Extent(c) \cap Extent(new) = {}
  BY <1>2, <1>4 DEF Inv, Accounting, Held
<1>9. RunStart \in Extent(new)
  BY <1>2, <1>3, <1>4 DEF Run
<1>10. Held(live \cup {new}) = bits \cup Extent(new)
  BY HeldAdd DEF Inv, Accounting
<1>11. /\ used \in Int /\ peak \in Int
       /\ peak' = Larger(peak, used + need) /\ peak' \in Int /\ used + need <= peak'
  BY <1>3 DEF Inv, TypeOK, Found, Larger
<1>12. /\ base' = base /\ units' = units /\ out' = new /\ pc' = "idle" /\ call' = NoCall
       /\ i' = 0 /\ run' = 0 /\ start' = 0
  BY DEF Found
<1>13. NoCall \in CallSet
  BY GeometryTypes DEF NoBlock, Block, BlockSet, NoCall, CallSet
<1>14. CASE call.op = "resize"
  <2>1. /\ old \in live /\ old \in BlockSet /\ Need(old.size) \in Nat
        /\ IsFiniteSet(Extent(old)) /\ Extent(old) \subseteq bits
        /\ Extent(old) \cap Extent(new) = {}
    BY <1>1, <1>8, <1>14, ExtentFacts DEF Inv, TypeOK, CallSound
  <2>2. /\ bits' = (bits \cup Extent(new)) \ Extent(old)
        /\ used' = used + need - Need(old.size)
        /\ live' = (live \ {old}) \cup {new} /\ mem' = Copied(old, new)
    BY <1>6, <1>14 DEF Found, Mark, Extent
  <2>3. new \notin live
    BY <1>8, <1>9
  <2>4. bits' = Held(live')
    <3>1. Held(live \ {old}) = bits \ Extent(old)
      BY <2>1, HeldRemove DEF Inv, LiveDisjoint, Accounting
    <3>2. Held(live') = (bits \ Extent(old)) \cup Extent(new)
      BY <2>2, <3>1, HeldAdd
    <3> QED  BY <2>1, <2>2, <3>2
  <2>5. Accounting'
    <3> DEFINE marked == bits \cup Extent(new)
    <3>0. Extent(old) \subseteq marked
      BY <2>1
    <3>1. Cardinality(bits') = used + need - Need(old.size)
      <4>1. Cardinality(marked \ Extent(old)) = Cardinality(marked) - Need(old.size)
        BY <1>7, <2>1, <3>0, MarkOff
      <4>2. bits' = marked \ Extent(old)
        BY <2>2
      <4>3. Cardinality(marked) = used + need
        BY <1>7
      <4> HIDE DEF marked, old, new
      <4>4. Cardinality(bits') = Cardinality(marked \ Extent(old))
        BY <4>2
      <4> QED  BY <1>3, <1>11, <2>1, <4>1, <4>3, <4>4
    <3>2. used' = Cardinality(bits') /\ used' <= peak'
      BY <1>3, <1>11, <2>1, <2>2, <3>1
    <3> QED  BY <2>4, <3>2 DEF Accounting
  <2>6. LiveDisjoint'
    BY <1>2, <1>3, <1>4, <1>8, <1>12, <2>2 DEF Inv, LiveDisjoint
  <2>7. bits' \subseteq 0 .. units' - 1
    BY <1>2, <1>4, <1>12, <2>2 DEF Inv, TypeOK
  <2>8. mem' \in [0 .. Capacity - 1 -> Values]
    BY <1>1, <1>14, <2>2, CopiedType
  <2>9. TypeOK'
    BY <1>3, <1>5, <1>11, <1>12, <1>13, <2>1, <2>2, <2>7, <2>8 DEF Inv, TypeOK
  <2>10. ScanSound' /\ CallSound'
    BY <1>12 DEF ScanSound, CallSound
  <2> QED  BY <2>5, <2>6, <2>9, <2>10 DEF Inv
<1>15. CASE call.op \in {"alloc", "zeroed"}
  <2>1. /\ bits' = bits \cup Extent(new) /\ used' = used + need
        /\ live' = live \cup {new}
        /\ mem' = IF call.op = "zeroed" THEN Zeroed(new) ELSE mem
    BY <1>6, <1>15 DEF Found
  <2>2. Accounting'
    BY <1>7, <1>10, <1>11, <2>1 DEF Accounting
  <2>3. LiveDisjoint'
    BY <1>2, <1>3, <1>4, <1>8, <1>12, <2>1 DEF Inv, LiveDisjoint
  <2>4. bits' \subseteq 0 .. units' - 1
    BY <1>2, <1>4, <1>12, <2>1 DEF Inv, TypeOK
  <2>5. mem' \in [0 .. Capacity - 1 -> Values]
    BY <2>1, GeometryAssumption DEF Inv, TypeOK, Zeroed
  <2>6. TypeOK'
    BY <1>3, <1>5, <1>11, <1>12, <1>13, <2>1, <2>4, <2>5 DEF Inv, TypeOK
  <2>7. ScanSound' /\ CallSound'
    BY <1>12 DEF ScanSound, CallSound
  <2> QED  BY <2>2, <2>3, <2>6, <2>7 DEF Inv
<1> QED  BY <1>1, <1>14, <1>15 DEF Found

\* A store to a payload changes memory only.
LEMMA WriteInv ==
  ASSUME Inv, NEW b \in live, NEW v \in Values, Write(b, v)
  PROVE  Inv'
<1>1. /\ mem' = [k \in DOMAIN mem |-> IF k \in Payload(b) THEN v ELSE mem[k]]
      /\ UNCHANGED <<base, units, bits, used, peak, pc, call, i, run, start, live, out>>
  BY DEF Write, state, locals
<1>2. mem' \in [0 .. Capacity - 1 -> Values]
  BY <1>1 DEF Inv, TypeOK
<1>3. TypeOK'
  BY <1>1, <1>2 DEF Inv, TypeOK
<1>4. LiveDisjoint' /\ Accounting' /\ ScanSound' /\ CallSound'
  BY <1>1 DEF Inv, LiveDisjoint, Accounting, ScanSound, CallSound, need
<1> QED  BY <1>3, <1>4 DEF Inv

\* Every step preserves the invariant.
LEMMA StepInv == Inv /\ [Next]_vars => Inv'
<1> SUFFICES ASSUME Inv, [Next]_vars PROVE Inv'
  OBVIOUS
<1>1. CASE Request
  <2>1. PICK c \in Calls : Refuse(c) \/ Accept(c)
    BY <1>1 DEF Request
  <2>2. CASE Refuse(c)
    <3>1. NoBlock \in BlockSet
      BY GeometryTypes DEF NoBlock, Block, BlockSet
    <3> QED  BY <2>2, <3>1, IdleStepInv DEF Refuse, Inv, TypeOK
  <2>3. CASE Accept(c)
    BY <2>3, AcceptInv
  <2> QED  BY <2>1, <2>2, <2>3
<1>2. CASE ScanStep
  BY <1>2, SkipOccupiedInv, SkipMisalignedInv, ExtendInv, FoundInv, ExhaustedInv
  DEF ScanStep
<1>3. ASSUME NEW b \in live, Deallocate(b) PROVE Inv'
  BY <1>3, DeallocateInv
<1>4. ASSUME NEW b \in live, NEW v \in Values, Write(b, v) PROVE Inv'
  BY <1>4, WriteInv
<1>5. CASE QueryStats
  BY <1>5, IdleStepInv DEF QueryStats, client, Inv, TypeOK
<1>6. CASE UNCHANGED vars
  BY <1>6 DEF vars, state, locals, client, Inv, TypeOK, LiveDisjoint, Accounting,
     ScanSound, CallSound, need
<1> QED  BY <1>1, <1>2, <1>3, <1>4, <1>5, <1>6 DEF Next

-----------------------------------------------------------------------------
\* The allocator never leaves its invariant.
THEOREM Invariance == Spec => []Inv
  BY InitInv, StepInv, PTL DEF Spec

\* Every variable keeps its type: no index leaves the extent, no byte its values.
THEOREM TypeCorrect == Spec => []TypeOK
<1>1. Inv => TypeOK
  BY DEF Inv
<1> QED  BY <1>1, Invariance, PTL

\* Live blocks stay whole, aligned, inside the heap and apart from each other.
THEOREM NoOverlap == Spec => []LiveDisjoint
<1>1. Inv => LiveDisjoint
  BY DEF Inv
<1> QED  BY <1>1, Invariance, PTL

\* The table, the counter and the live blocks always agree: nothing leaks.
THEOREM NoLeak == Spec => []Accounting
<1>1. Inv => Accounting
  BY DEF Inv
<1> QED  BY <1>1, Invariance, PTL

\* The scan keeps its loop invariant through every iteration.
THEOREM ScanIsSound == Spec => []ScanSound
<1>1. Inv => ScanSound
  BY DEF Inv
<1> QED  BY <1>1, Invariance, PTL

\* The step that grants a request grants the lowest place that can hold it.
LEMMA FoundIsFirst ==
  ASSUME Inv, Found
  PROVE  /\ out'.start \in Places(call.size, call.align, bits)
         /\ \A p \in Places(call.size, call.align, bits) : out'.start <= p
<1>1. pc = "scan" /\ Usable /\ run + 1 = need /\ out'.start = RunStart
  BY DEF Found, Usable, Scanning, Block
<1>2. /\ RunStart \in Nat /\ RunStart + need <= HeapUnits /\ Aligned(RunStart, call.align)
      /\ Run(RunStart, need) \cap bits = {} /\ need \in Nat /\ need >= 1
      /\ HeapUnits \in Nat /\ call.size > 0 /\ i \in Nat /\ run \in Nat /\ start \in Nat
  BY <1>1, FoundRun, RequestFacts DEF Inv, CallSound
<1>3. RunStart \in Places(call.size, call.align, bits)
  BY <1>2 DEF Places, Fits, need
<1>4. \A p \in 0 .. RunStart - 1 : ~Fits(p, call.size, call.align, bits)
  BY <1>1, <1>2 DEF Inv, ScanSound, RunStart
<1>5. ASSUME NEW p \in Places(call.size, call.align, bits) PROVE RunStart <= p
  <2>1. p \in 0 .. HeapUnits - 1 /\ Fits(p, call.size, call.align, bits)
    BY DEF Places
  <2> QED  BY <1>2, <1>4, <2>1
<1> QED  BY <1>1, <1>3, <1>5

\* The step that fails a request fails it only when no place can hold it.
LEMMA ExhaustedIsFull ==
  ASSUME Inv, Exhausted
  PROVE  Places(call.size, call.align, bits) = {}
<1>1. pc = "scan" /\ i >= units /\ units = HeapUnits
  BY DEF Exhausted, Inv, CallSound
<1>2. /\ need \in Nat /\ need >= 1 /\ units \in Nat /\ i \in Nat /\ i <= units
      /\ run \in Nat /\ start \in Nat
  BY <1>1, RequestFacts DEF Inv, TypeOK
<1>3. SUFFICES ASSUME NEW p \in Places(call.size, call.align, bits) PROVE FALSE
  OBVIOUS
<1>4. p \in 0 .. units - 1 /\ Fits(p, call.size, call.align, bits) /\ p + need <= units
  BY <1>1 DEF Places, Fits, need
<1>5. CASE run > 0
  <2>1. start + run = i /\ run < need /\ ~(p \in 0 .. start - 1)
    BY <1>1, <1>4, <1>5 DEF Inv, ScanSound
  <2> QED  BY <2>1, <1>1, <1>2, <1>4
<1>6. CASE run = 0
  <2>1. ~(p \in 0 .. i - 1)
    BY <1>1, <1>4, <1>6 DEF Inv, ScanSound
  <2> QED  BY <2>1, <1>1, <1>2, <1>4
<1> QED  BY <1>2, <1>5, <1>6

\* First fit: the lowest place that can hold a request, and failure only without one.
THEOREM PlacesFirst == Spec => FirstFit
<1>1. ASSUME Inv, [Next]_vars PROVE [FirstFitStep]_vars
  <2>1. SUFFICES ASSUME Next, pc = "scan", pc' = "idle" PROVE FirstFitStep
    BY <1>1 DEF FirstFitStep
  <2>2. Found \/ Exhausted
    BY <2>1 DEF Next, Request, Refuse, Accept, ScanStep, SkipOccupied, SkipMisaligned,
       Extend, Deallocate, Write, QueryStats
  <2>3. CASE Found
    BY <2>1, <2>3, <1>1, FoundIsFirst DEF FirstFitStep
  <2>4. CASE Exhausted
    BY <2>1, <2>4, <1>1, ExhaustedIsFull DEF FirstFitStep, Exhausted
  <2> QED  BY <2>2, <2>3, <2>4
<1> QED  BY <1>1, Invariance, PTL DEF Spec, FirstFit

-----------------------------------------------------------------------------
(* The statistics' longest free run: the loop over the bitmap, by induction over   *)
(* the units, which is induction over a set of numbers.                           *)

LEMMA NatMin ==
  ASSUME NEW T \in SUBSET Nat, T # {}
  PROVE  \E n \in T : \A m \in T : n <= m
<1>1. PICK R : R = {ss \in Nat \X Nat : ss[1] < ss[2]}
  OBVIOUS
<1>2. IsWellFoundedOn(R, Nat)
  BY <1>1, NatLessThanWellFounded DEF OpToRel
<1>3. PICK n \in T : \A m \in T : ~ (<<m, n>> \in R)
  BY <1>2, WFMin
<1>4. ASSUME NEW m \in T, m < n PROVE <<m, n>> \in R
  <2>1. <<m, n>> \in Nat \X Nat /\ <<m, n>>[1] = m /\ <<m, n>>[2] = n
    OBVIOUS
  <2> QED BY <1>1, <1>4, <2>1
<1>5. \A m \in T : ~ (m < n)
  BY <1>3, <1>4
<1> QED BY <1>5

LEMMA Induction ==
  ASSUME NEW T \in SUBSET Nat, 0 \in T, \A n \in T : n + 1 \in T
  PROVE  \A n \in Nat : n \in T
<1>1. ASSUME Nat \ T # {} PROVE FALSE
  <2>1. PICK n \in Nat \ T : \A m \in Nat \ T : n <= m
    BY <1>1, NatMin
  <2>2. n # 0 /\ n - 1 \in Nat
    BY <2>1
  <2>3. n - 1 \in T
    BY <2>1, <2>2
  <2>4. (n - 1) + 1 = n
    BY <2>1
  <2> QED BY <2>1, <2>3, <2>4
<1> QED BY <1>1

\* The recursion in LargestFree: the state of the loop after each unit.
AfterUnit(was, n) ==
  IF n - 1 \in bits THEN [was EXCEPT !.run = 0]
  ELSE LET longer == was.run + 1 IN [run |-> longer, largest |-> Larger(was.largest, longer)]

Loops(f, last) ==
  f = [n \in 0 .. last |-> IF n = 0 THEN [run |-> 0, largest |-> 0] ELSE AfterUnit(f[n - 1], n)]

LEMMA LoopUpTo ==
  ASSUME NEW n \in Nat
  PROVE  \E f : Loops(f, n)
<1> DEFINE T == {m \in Nat : \E f : Loops(f, m)}
<1>1. 0 \in T
  <2> DEFINE f == [k \in 0 .. 0 |-> [run |-> 0, largest |-> 0]]
  <2>1. Loops(f, 0)
    <3>1. \A k \in 0 .. 0 : k = 0
      OBVIOUS
    <3> QED BY <3>1 DEF Loops
  <2> QED BY <2>1
<1>2. ASSUME NEW m \in T PROVE m + 1 \in T
  <2>1. PICK f : Loops(f, m)
    OBVIOUS
  <2> DEFINE g == [k \in 0 .. m + 1 |-> IF k = m + 1 THEN AfterUnit(f[m], m + 1) ELSE f[k]]
  <2>2. ASSUME NEW k \in 0 .. m + 1
        PROVE  g[k] = IF k = 0 THEN [run |-> 0, largest |-> 0] ELSE AfterUnit(g[k - 1], k)
    <3>1. CASE k = m + 1
      <4>1. k # 0 /\ k - 1 = m /\ m \in 0 .. m + 1 /\ m # m + 1
        BY <3>1
      <4>2. g[k] = AfterUnit(f[m], m + 1) /\ g[m] = f[m]
        BY <3>1, <4>1
      <4> HIDE DEF g
      <4> QED BY <3>1, <4>1, <4>2
    <3>2. CASE k # m + 1
      <4>1. k \in 0 .. m
        BY <3>2
      <4>2. f[k] = IF k = 0 THEN [run |-> 0, largest |-> 0] ELSE AfterUnit(f[k - 1], k)
        BY <2>1, <4>1 DEF Loops
      <4>3. g[k] = f[k]
        BY <3>2
      <4>4. k # 0 => g[k - 1] = f[k - 1]
        <5>1. k # 0 => k - 1 \in 0 .. m + 1 /\ k - 1 # m + 1
          BY <4>1
        <5> QED BY <5>1
      <4> HIDE DEF g
      <4> QED BY <4>2, <4>3, <4>4
    <3> QED BY <3>1, <3>2
  <2>3. g = [k \in 0 .. m + 1 |-> g[k]]
    OBVIOUS
  <2> HIDE DEF g
  <2>4. Loops(g, m + 1)
    BY <2>2, <2>3 DEF Loops
  <2>5. m + 1 \in Nat
    OBVIOUS
  <2> QED BY <2>4, <2>5
<1>3. n \in T
  <2>1. T \subseteq Nat
    OBVIOUS
  <2> HIDE DEF T
  <2> QED BY <1>1, <1>2, <2>1, Induction
<1> QED BY <1>3

\* A run of free units of that length lies somewhere.
FreeRun(count, last) ==
  count = 0 \/ \E p \in 0 .. last : p + count <= last /\ Run(p, count) \cap bits = {}

LoopSound(now, n) ==
  /\ now = [run |-> now.run, largest |-> now.largest]
  /\ now.run \in 0 .. n /\ now.largest \in 0 .. n
  /\ Run(n - now.run, now.run) \cap bits = {}
  /\ FreeRun(now.largest, n)

LEMMA LoopKeeps ==
  ASSUME NEW n \in Nat, NEW was, LoopSound(was, n)
  PROVE  LoopSound(AfterUnit(was, n + 1), n + 1)
<1>1. PICK r \in 0 .. n, l \in 0 .. n : was = [run |-> r, largest |-> l]
  BY DEF LoopSound
<1>2. Run(n - r, r) \cap bits = {} /\ FreeRun(l, n)
  BY <1>1 DEF LoopSound
<1>3. FreeRun(l, n + 1)
  <2>1. ASSUME NEW p \in 0 .. n, p + l <= n, Run(p, l) \cap bits = {}
        PROVE  p \in 0 .. n + 1 /\ p + l <= n + 1
    BY <2>1
  <2> QED BY <1>2, <2>1 DEF FreeRun
<1>4. (n + 1) - 1 = n
  OBVIOUS
<1>5. CASE n \in bits
  <2>1. AfterUnit(was, n + 1) = [was EXCEPT !.run = 0]
    BY <1>4, <1>5 DEF AfterUnit
  <2>2. PICK now : now = [was EXCEPT !.run = 0]
    OBVIOUS
  <2>3. now.run = 0 /\ now.largest = l /\ now = [run |-> 0, largest |-> l]
    BY <1>1, <2>2
  <2>4. Run(n + 1 - 0, 0) = {}
    BY DEF Run
  <2>5. 0 \in 0 .. n + 1 /\ l \in 0 .. n + 1
    OBVIOUS
  <2> QED BY <1>3, <2>1, <2>2, <2>3, <2>4, <2>5 DEF LoopSound
<1>6. CASE n \notin bits
  <2>1. PICK now : now = [run |-> r + 1, largest |-> Larger(l, r + 1)]
    OBVIOUS
  <2>2. AfterUnit(was, n + 1) = now
    <3>1. was.run = r /\ was.largest = l
      BY <1>1
    <3> QED BY <1>4, <1>6, <2>1, <3>1 DEF AfterUnit
  <2>3. now.run = r + 1 /\ now.largest = Larger(l, r + 1)
    BY <2>1
  <2>4. Run(n + 1 - (r + 1), r + 1) \cap bits = {}
    <3>1. \A u \in Run(n + 1 - (r + 1), r + 1) : u = n \/ u \in Run(n - r, r)
      BY DEF Run
    <3> QED BY <1>2, <1>6, <3>1
  <2>5. r + 1 \in 0 .. n + 1 /\ Larger(l, r + 1) \in 0 .. n + 1
    BY DEF Larger
  <2>6. FreeRun(r + 1, n + 1)
    <3>1. n + 1 - (r + 1) \in 0 .. n + 1 /\ n + 1 - (r + 1) + (r + 1) <= n + 1
      OBVIOUS
    <3> QED BY <2>4, <3>1 DEF FreeRun
  <2>7. FreeRun(Larger(l, r + 1), n + 1)
    BY <1>3, <2>6 DEF Larger
  <2> QED BY <2>1, <2>2, <2>3, <2>4, <2>5, <2>7 DEF LoopSound
<1> QED BY <1>5, <1>6

\* The statistics report a run that is there.
LEMMA LargestIsFree ==
  ASSUME units \in Nat
  PROVE  LargestFree \in Nat /\ FreeRun(LargestFree, units)
<1>1. PICK f : f = CHOOSE g : Loops(g, units)
  OBVIOUS
<1>2. Loops(f, units)
  BY <1>1, LoopUpTo
<1>3. LargestFree = f[units].largest
  BY <1>1 DEF LargestFree, Loops, AfterUnit
<1> DEFINE T == {n \in Nat : n <= units => LoopSound(f[n], n)}
<1>4. 0 \in T
  <2>1. f[0] = [run |-> 0, largest |-> 0]
    BY <1>2 DEF Loops
  <2>2. Run(0 - 0, 0) = {}
    BY DEF Run
  <2> QED BY <2>1, <2>2 DEF LoopSound, FreeRun
<1>5. ASSUME NEW n \in T PROVE n + 1 \in T
  <2>1. ASSUME n + 1 <= units PROVE LoopSound(f[n + 1], n + 1)
    <3>1. LoopSound(f[n], n) /\ n \in Nat
      BY <2>1
    <3>2. n + 1 \in 0 .. units /\ n + 1 # 0 /\ n + 1 - 1 = n
      BY <2>1
    <3>3. f[n + 1] = AfterUnit(f[n + 1 - 1], n + 1)
      BY <1>2, <3>2 DEF Loops
    <3> QED BY <3>1, <3>2, <3>3, LoopKeeps
  <2>2. n + 1 \in Nat
    OBVIOUS
  <2> QED BY <2>1, <2>2
<1>6. LoopSound(f[units], units)
  <2>1. T \subseteq Nat
    OBVIOUS
  <2>2. units \in T
    <3> HIDE DEF T
    <3> QED BY <1>4, <1>5, <2>1, Induction
  <2> QED BY <2>2
<1> QED BY <1>3, <1>6 DEF LoopSound

LEMMA Divided ==
  ASSUME NEW n \in Int, NEW d \in Nat \ {0}
  PROVE  n \div d \in Int /\ n = d * (n \div d) + (n % d)
OBVIOUS

LEMMA ZeroRemainder ==
  ASSUME NEW q \in Int, NEW d \in Nat \ {0}
  PROVE  (d * q) % d = 0
OBVIOUS

\* Units of an aligned heap are aligned for whatever divides a unit.
LEMMA EveryUnitAligned ==
  ASSUME NEW align \in Nat \ {0}, Granule % align = 0, HeapBase % Granule = 0, NEW p \in Nat
  PROVE  Aligned(p, align)
<1>1. Granule \in Nat \ {0} /\ HeapBase \in Nat
  BY GeometryAssumption, GeometryTypes
<1>2. PICK g \in Int, h \in Int : Granule = align * g /\ HeapBase = Granule * h
  <2>1. PICK g \in Int : g = Granule \div align /\ Granule = align * g + (Granule % align)
    BY <1>1, Divided
  <2>2. PICK h \in Int : h = HeapBase \div Granule /\ HeapBase = Granule * h + (HeapBase % Granule)
    BY <1>1, Divided
  <2>3. PICK e \in Int, f \in Int : e = align * g /\ f = Granule * h
    BY <1>1, <2>1, <2>2
  <2>4. Granule = e /\ HeapBase = f
    BY <1>1, <2>1, <2>2, <2>3
  <2> QED BY <2>3, <2>4
<1>3. HeapBase + p * Granule = align * (g * (h + p))
  <2>1. HeapBase + p * Granule = Granule * (h + p)
    BY <1>1, <1>2
  <2>2. Granule * (h + p) = align * (g * (h + p))
    BY <1>2
  <2> QED BY <2>1, <2>2
<1>4. (align * (g * (h + p))) % align = 0
  <2>1. PICK q \in Int : q = g * (h + p)
    OBVIOUS
  <2> QED BY <2>1, ZeroRemainder
<1> QED BY <1>3, <1>4 DEF Aligned

\* A run of free units is a place for whatever is no longer and needs no more than a unit's
\* alignment.
LEMMA RunIsPlace ==
  ASSUME Inv, pc = "scan", need <= LargestFree, Granule % call.align = 0, HeapBase % Granule = 0
  PROVE  Places(call.size, call.align, bits) # {}
<1>1. /\ units = HeapUnits /\ HeapUnits \in Nat /\ need \in Nat /\ need >= 1 /\ call.size > 0
  BY RequestFacts, GeometryTypes DEF Inv, CallSound
<1>2. call.align \in Nat \ {0}
  <2>1. PICK a : a = call.align
    OBVIOUS
  <2>2. a \in Aligns \cup {1}
    BY <2>1 DEF Inv, TypeOK, CallSet
  <2>3. a \in Nat \ {0}
    BY <2>2, GeometryAssumption
  <2> QED BY <2>1, <2>3
<1>3. LargestFree \in Nat /\ FreeRun(LargestFree, units)
  BY <1>1, LargestIsFree
<1>4. PICK count \in Nat : count = LargestFree
  BY <1>3
<1>5. PICK p \in 0 .. units : p + count <= units /\ Run(p, count) \cap bits = {}
  BY <1>1, <1>3, <1>4 DEF FreeRun
<1>6. p \in 0 .. HeapUnits - 1 /\ p + need <= HeapUnits
  BY <1>1, <1>4, <1>5
<1>7. Run(p, need) \cap bits = {}
  <2>1. Run(p, need) \subseteq Run(p, count)
    BY <1>1, <1>4, <1>5 DEF Run
  <2> QED BY <1>5, <2>1
<1>8. Aligned(p, call.align)
  BY <1>2, EveryUnitAligned
<1> QED BY <1>1, <1>6, <1>7, <1>8 DEF Places, Fits, need

\* largest_free can be relied on: a request no longer than it is served (heap.rs stats).
THEOREM LargestIsServed == Spec => LargestServed
<1>1. ASSUME Inv, [Next]_vars PROVE [LargestServedStep]_vars
  <2>1. SUFFICES ASSUME Next, pc = "scan", pc' = "idle", need <= LargestFree,
                        Granule % call.align = 0, HeapBase % Granule = 0
                 PROVE  out' # NoBlock
    BY <1>1 DEF LargestServedStep
  <2>2. Found \/ Exhausted
    BY <2>1 DEF Next, Request, Refuse, Accept, ScanStep, SkipOccupied, SkipMisaligned,
       Extend, Deallocate, Write, QueryStats
  <2>3. ~Exhausted
    BY <1>1, <2>1, RunIsPlace, ExhaustedIsFull
  <2>4. out'.size = call.size
    <3>1. out' = Block(RunStart, call.size, call.align)
      BY <2>2, <2>3 DEF Found
    <3> QED BY <3>1 DEF Block
  <2>5. call.size > 0
    BY <1>1, <2>1, RequestFacts DEF Inv, CallSound
  <2>6. NoBlock.size = 0
    BY DEF NoBlock, Block
  <2> QED BY <2>4, <2>5, <2>6
<1> QED BY <1>1, Invariance, PTL DEF Spec, LargestServed

-----------------------------------------------------------------------------
(* The allocator implements the abstract heap: its scan and its bookkeeping       *)
(* stutter, and the step that ends a call is the atomic operation the abstract    *)
(* heap names.                                                                    *)

\* An access opens the heap, and blocks have the alignments that were asked for.
Opened ==
  /\ units = HeapUnits \/ (base = 0 /\ units = 0)
  /\ \A b \in live : b.align \in Aligns
  /\ pc = "scan" => call.size \in Sizes /\ call.align \in Aligns

RInv == Inv /\ Opened

-----------------------------------------------------------------------------
\* The operators the two specifications share.
LEMMA SameGeometry ==
  /\ \A set : Abs!Held(set) = Held(set)
  /\ \A size, align, taken : Abs!Places(size, align, taken) = Places(size, align, taken)
  /\ \A b : Abs!Payload(b) = Payload(b)
  /\ \A p, size, align : Abs!Block(p, size, align) = Block(p, size, align)
  /\ \A a, b : Abs!Larger(a, b) = Larger(a, b) /\ Abs!Smaller(a, b) = Smaller(a, b)
  /\ Abs!NoBlock = NoBlock /\ Abs!Contents = [0 .. Capacity - 1 -> Values]
  /\ Abs!Capacity = Capacity /\ \A set : Abs!Cardinality(set) = Cardinality(set)
BY DEF Abs!Cardinality, Cardinality, Abs!Held, Held, Abs!Places, Places, Abs!Payload, Payload, Abs!Block, Block, Abs!Larger,
       Larger, Abs!Smaller, Smaller, Abs!NoBlock, NoBlock, Abs!Contents, Abs!Capacity, Capacity,
       Abs!Fits, Fits, Abs!Extent, Extent, Abs!Run, Run, Abs!Need, Need, Abs!HeapUnits, HeapUnits,
       Abs!Skip, Skip, Abs!Aligned, Aligned, Abs!HeapBase, HeapBase

\* Whoever opens the heap finds all of its units.
LEMMA OpensAll ==
  ASSUME Inv, Opened, Open
  PROVE  units' = HeapUnits
<1>1. CASE units = HeapUnits
  BY <1>1 DEF Open
<1>2. CASE base = 0 /\ units = 0 /\ Bytes >= Skip
  BY <1>2 DEF Open
<1>3. CASE base = 0 /\ units = 0 /\ ~ (Bytes >= Skip)
  <2>1. HeapUnits = 0
    BY <1>3, GeometryTypes, GeometryAssumption DEF HeapUnits
  <2> QED BY <1>3, <2>1 DEF Open
<1> QED BY <1>1, <1>2, <1>3 DEF Opened

\* What a call may ask for: a size and an alignment of the lists.
LEMMA AskedFor ==
  ASSUME Opened, NEW c \in Calls
  PROVE  c.size \in Sizes /\ c.align \in Aligns
<1>1. CASE \E op \in {"alloc", "zeroed"}, size \in Sizes, align \in Aligns :
             c = Call(op, size, align, NoBlock)
  BY <1>1 DEF Call
<1>2. CASE \E size \in Sizes, b \in live : c = Call("resize", size, b.align, b)
  BY <1>2 DEF Call, Opened
<1> QED BY <1>1, <1>2 DEF Calls

LEMMA OpenedHolds == Init => Opened
<1>1. CASE Bytes < Skip
  BY <1>1, GeometryTypes, GeometryAssumption DEF Init, Opened, HeapUnits
<1>2. CASE ~ (Bytes < Skip)
  BY <1>2 DEF Init, Opened
<1> QED BY <1>1, <1>2

LEMMA OpenedKept == RInv /\ [Next]_vars => Opened'
<1> SUFFICES ASSUME Inv, Opened, [Next]_vars PROVE Opened'
  BY DEF RInv
<1> USE DEF Opened
<1>1. CASE Request
  <2>1. PICK c \in Calls : Refuse(c) \/ Accept(c)
    BY <1>1 DEF Request
  <2>2. units' = HeapUnits
    BY <2>1, OpensAll DEF Refuse, Accept
  <2> QED BY <2>1, <2>2, AskedFor DEF Refuse, Accept, locals, client
<1>2. CASE SkipOccupied \/ SkipMisaligned \/ Extend
  BY <1>2 DEF SkipOccupied, SkipMisaligned, Extend, state, client
<1>3. CASE Exhausted
  BY <1>3 DEF Exhausted, Idle, state
<1>4. CASE Found
  <2>1. pc = "scan" /\ pc' = "idle" /\ UNCHANGED <<base, units>>
    BY <1>4 DEF Found, Usable, Scanning, Idle
  <2>2. PICK new : new.align = call.align /\ (live' = (live \ {call.old}) \cup {new}
                                             \/ live' = live \cup {new})
    BY <1>4 DEF Found, Block
  <2> QED BY <2>1, <2>2
<1>5. CASE \E b \in live : Deallocate(b)
  <2>1. PICK b \in live : Deallocate(b)
    BY <1>5
  <2>2. units' = HeapUnits
    BY <2>1, OpensAll DEF Deallocate
  <2> QED BY <2>1, <2>2 DEF Deallocate, locals
<1>6. CASE \E b \in live, v \in Values : Write(b, v)
  BY <1>6 DEF Write, state, locals
<1>7. CASE QueryStats
  <2>1. units' = HeapUnits
    BY <1>7, OpensAll DEF QueryStats
  <2> QED BY <1>7, <2>1 DEF QueryStats, locals, client
<1>8. CASE UNCHANGED vars
  BY <1>8 DEF vars, state, locals, client
<1> QED BY <1>1, <1>2, <1>3, <1>4, <1>5, <1>6, <1>7, <1>8 DEF Next, ScanStep

-----------------------------------------------------------------------------
\* A refusal before the scan: such a request has no place.
LEMMA RefusedIsFull ==
  ASSUME Inv, Opened, NEW c \in Calls, Refuse(c)
  PROVE  Places(c.size, c.align, Held(live)) = {}
<1>1. units' = HeapUnits /\ c.size \in Sizes /\ c.align \in Aligns /\ Refused(c)
  BY OpensAll, AskedFor DEF Refuse
<1>2. c.size \in Nat /\ HeapUnits \in Nat /\ Granule \in Nat \ {0} /\ SizeMax \in Nat
      /\ c.align \in Nat \ {0} /\ Capacity <= SizeMax - (c.align - 1) /\ Capacity = HeapUnits * Granule
      /\ Capacity \in Nat
  <2>1. HeapUnits \in Nat /\ Granule \in Nat \ {0} /\ Capacity = HeapUnits * Granule
    BY GeometryTypes, GeometryAssumption DEF Capacity
  <2>2. Capacity \in Nat
    BY <2>1
  <2>3. c.size \in Nat /\ SizeMax \in Nat /\ c.align \in Nat \ {0} /\ Capacity <= SizeMax - (c.align - 1)
    BY <1>1, GeometryAssumption
  <2> QED BY <2>1, <2>2, <2>3
<1>3. c.size = 0 \/ c.size > Capacity
  <2>1. CASE c.size > SizeMax - (c.align - 1)
    BY <1>2, <2>1
  <2> QED BY <1>1, <1>2, <2>1 DEF Refused
<1>4. ASSUME c.size > Capacity, NEW p \in 0 .. HeapUnits - 1, p + Need(c.size) <= HeapUnits
      PROVE  FALSE
  <2>1. p \in Nat /\ p * Granule \in Nat /\ p * Granule + c.size <= Capacity
    BY <1>2, <1>4, PayloadInside
  <2> QED BY <1>2, <1>4, <2>1
<1> QED BY <1>2, <1>3, <1>4 DEF Places, Fits

LEMMA RefuseFails ==
  ASSUME Inv, Opened, NEW c \in Calls, Refuse(c)
  PROVE  Abs!AbsNext
<1>1. c.size \in Sizes /\ c.align \in Aligns
  BY AskedFor
<1>2. Abs!Fail(c.size, c.align)
  BY RefusedIsFull, SameGeometry DEF Abs!Fail, Refuse
<1> QED BY <1>1, <1>2 DEF Abs!AbsNext

\* The scan that finds nothing.
LEMMA ExhaustedFails ==
  ASSUME Inv, Opened, Exhausted
  PROVE  Abs!AbsNext
<1>1. call.size \in Sizes /\ call.align \in Aligns
  BY DEF Opened, Exhausted
<1>2. Places(call.size, call.align, Held(live)) = {}
  BY ExhaustedIsFull DEF Inv, Accounting
<1>3. Abs!Fail(call.size, call.align)
  BY <1>2, SameGeometry DEF Abs!Fail, Exhausted, state
<1> QED BY <1>1, <1>3 DEF Abs!AbsNext

\* The step that ends a successful call grants a block: beside every live one, at a free
\* place, and without a byte of any other block changed.
LEMMA FoundGrants ==
  ASSUME Inv, Opened, Found
  PROVE  Abs!AbsNext
<1> DEFINE new == Block(RunStart, call.size, call.align)
           old == call.old
<1>1. pc = "scan" /\ Usable /\ run + 1 = need /\ out' = new /\ out'.start = RunStart
  BY DEF Found, Usable, Scanning, Block
<1>2. call.size \in Sizes /\ call.align \in Aligns /\ call.size \in Nat /\ need \in Nat
  BY <1>1, RequestFacts DEF Opened
<1>3. RunStart \in Places(call.size, call.align, Held(live))
  BY <1>1, FoundIsFirst DEF Inv, Accounting
<1>4. RunStart \in Nat /\ Run(RunStart, need) \cap bits = {}
  BY <1>1, FoundRun
<1>5. Extent(new) = Run(RunStart, need)
  BY DEF Extent, Block, need
<1>6. Cardinality(Held(live \cup {new})) = used + need
  <2>1. Held(live \cup {new}) = bits \cup Run(RunStart, need)
    BY <1>5, HeldAdd DEF Inv, Accounting
  <2> QED BY <1>2, <1>4, <2>1, MarkOn
<1>7. peak' = Larger(peak, Cardinality(Held(live \cup {new})))
  BY <1>6 DEF Found
<1>8. Inv'
  BY FoundInv
<1>9. mem' \in [0 .. Capacity - 1 -> Values] /\ mem \in [0 .. Capacity - 1 -> Values]
  BY <1>8 DEF Inv, TypeOK
<1>10. new.start = RunStart /\ new.size = call.size /\ new.align = call.align
  BY DEF Block
<1>11. CASE call.op = "resize"
  <2>1. old \in live /\ call.align = old.align /\ old.align \in Aligns
    BY <1>1, <1>11 DEF Inv, CallSound, Opened
  <2>2. live' = (live \ {old}) \cup {new} /\ mem' = Copied(old, new)
    BY <1>11 DEF Found
  <2> DEFINE a == new.start * Granule
             b == old.start * Granule
             m == Smaller(old.size, new.size)
  <2>3. /\ old.size \in Nat /\ new.size \in Nat /\ a \in Nat /\ b \in Nat /\ m \in Nat
        /\ m <= new.size /\ m = Smaller(old.size, call.size)
    <3>1. old \in BlockSet
      BY <2>1 DEF Inv, TypeOK
    <3> QED BY <1>2, <1>4, <1>10, <3>1, ExtentFacts, GeometryAssumption DEF Smaller
  <2>4. mem' = [k \in 0 .. Capacity - 1 |-> IF k \in Run(a, m) THEN mem[k - a + b] ELSE mem[k]]
    BY <1>9, <2>2 DEF Copied
  <2>5. Payload(new) = Run(a, new.size)
    BY DEF Payload
  <2>6. a + new.size <= Capacity
    BY <1>1, <1>2, <1>4, <1>10, FoundRun, PayloadInside DEF need, Inv, CallSound
  <2>7. Capacity \in Nat
    BY GeometryTypes, GeometryAssumption DEF Capacity
  <2> HIDE DEF a, b, m, new, old
  <2>8. \A k \in (0 .. Capacity - 1) \ Payload(new) : mem'[k] = mem[k]
    BY <2>3, <2>4, <2>5 DEF Run
  <2>9. \A n \in 0 .. m - 1 : mem'[a + n] = mem[b + n]
    <3> SUFFICES ASSUME NEW n \in 0 .. m - 1 PROVE mem'[a + n] = mem[b + n]
      OBVIOUS
    <3>1. a + n \in 0 .. Capacity - 1 /\ a + n \in Run(a, m) /\ a + n - a + b = b + n
      BY <2>3, <2>6, <2>7 DEF Run
    <3>2. \A k \in 0 .. Capacity - 1 : k \in Run(a, m) => mem'[k] = mem[k - a + b]
      BY <2>4
    <3>3. PICK k \in 0 .. Capacity - 1 : k = a + n /\ k \in Run(a, m)
      BY <3>1
    <3>4. k - a + b = b + n
      BY <2>3, <3>3
    <3> QED BY <3>2, <3>3, <3>4
  <2>10. Abs!Granted(new)
    BY <1>1, <1>7, <1>9, <2>8, SameGeometry DEF Abs!Granted, new
  <2>11. RunStart \in Abs!Places(call.size, old.align, Abs!Held(live))
    BY <1>3, <2>1, SameGeometry
  <2>12. Abs!Block(RunStart, call.size, old.align) = new
    BY <2>1, SameGeometry DEF new
  <2>13. \A n \in 0 .. Abs!Smaller(old.size, call.size) - 1 :
           mem'[new.start * Granule + n] = mem[old.start * Granule + n]
    BY <2>3, <2>9, SameGeometry DEF a, b
  <2>14. Abs!Reallocate(old, call.size)
    BY <2>2, <2>10, <2>11, <2>12, <2>13 DEF Abs!Reallocate
  <2> QED BY <1>2, <2>1, <2>14 DEF Abs!AbsNext
<1>12. CASE call.op \in {"alloc", "zeroed"}
  <2>1. live' = live \cup {new} /\ mem' = IF call.op = "zeroed" THEN Zeroed(new) ELSE mem
    BY <1>12 DEF Found
  <2>2. Zeroed(new) = [k \in 0 .. Capacity - 1 |-> IF k \in Payload(new) THEN 0 ELSE mem[k]]
    BY <1>9 DEF Zeroed
  <2>3. \A k \in (0 .. Capacity - 1) \ Payload(new) : mem'[k] = mem[k]
    BY <2>1, <2>2
  <2>4. Abs!Granted(new)
    BY <1>1, <1>7, <1>9, <2>3, SameGeometry DEF Abs!Granted
  <2>5. RunStart \in Abs!Places(call.size, call.align, Abs!Held(live))
        /\ Abs!Block(RunStart, call.size, call.align) = new
    BY <1>3, SameGeometry
  <2>6. CASE call.op = "zeroed"
    <3>1. Payload(new) \subseteq 0 .. Capacity - 1
      <4>1. RunStart * Granule \in Nat /\ RunStart * Granule + call.size <= Capacity
        BY <1>1, <1>2, <1>4, FoundRun, PayloadInside DEF need, Inv, CallSound
      <4>2. Payload(new) = Run(RunStart * Granule, call.size) /\ Capacity \in Nat
        BY <1>10, GeometryTypes, GeometryAssumption DEF Payload, Capacity
      <4> QED BY <1>2, <4>1, <4>2 DEF Run
    <3>2. \A k \in Payload(new) : mem'[k] = 0
      BY <2>1, <2>2, <2>6, <3>1
    <3>3. Abs!AllocateZeroed(call.size, call.align)
      BY <2>1, <2>4, <2>5, <3>2, SameGeometry DEF Abs!AllocateZeroed
    <3> QED BY <1>2, <3>3 DEF Abs!AbsNext
  <2>7. CASE call.op = "alloc"
    <3>1. Abs!Allocate(call.size, call.align)
      BY <2>1, <2>4, <2>5 DEF Abs!Allocate
    <3> QED BY <1>2, <3>1 DEF Abs!AbsNext
  <2> QED BY <1>12, <2>6, <2>7
<1> QED BY <1>1, <1>11, <1>12 DEF Inv, CallSound

-----------------------------------------------------------------------------
\* Every step is the abstract operation it ends, or changes nothing a client sees.
LEMMA StepRefines == RInv /\ [Next]_vars => [Abs!AbsNext]_(Abs!absVars)
<1> SUFFICES ASSUME Inv, Opened, [Next]_vars PROVE Abs!AbsNext \/ UNCHANGED Abs!absVars
  BY DEF RInv
<1>1. CASE Request
  <2>1. PICK c \in Calls : Refuse(c) \/ Accept(c)
    BY <1>1 DEF Request
  <2> QED BY <2>1, RefuseFails DEF Accept, client, Abs!absVars
<1>2. CASE SkipOccupied \/ SkipMisaligned \/ Extend \/ QueryStats \/ UNCHANGED vars
  BY <1>2 DEF SkipOccupied, SkipMisaligned, Extend, QueryStats, vars, state, client, Abs!absVars
<1>3. CASE Found \/ Exhausted
  BY <1>3, FoundGrants, ExhaustedFails
<1>4. CASE \E b \in live : Deallocate(b)
  BY <1>4 DEF Deallocate, locals, Abs!Deallocate, Abs!AbsNext
<1>5. CASE \E b \in live, v \in Values : Write(b, v)
  BY <1>5, SameGeometry DEF Write, state, Abs!Write, Abs!AbsNext
<1> QED BY <1>1, <1>2, <1>3, <1>4, <1>5 DEF Next, ScanStep

\* For every heap: requests fail only for lack of room, payloads are cleared or moved whole,
\* and no call changes a byte another block owns (heap.rs).
THEOREM ImplementsAtomicHeap == Spec => ImplementsAbstract
<1>1. Init => Abs!AbsInit /\ RInv
  BY InitInv, OpenedHolds, SameGeometry DEF Init, Abs!AbsInit, RInv
<1>2. RInv /\ [Next]_vars => RInv'
  BY StepInv, OpenedKept DEF RInv
<1> QED BY <1>1, <1>2, StepRefines, PTL DEF Spec, ImplementsAbstract, Abs!AbsSpec
=============================================================================
