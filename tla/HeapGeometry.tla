---------------------------- MODULE HeapGeometry ----------------------------
(***************************************************************************)
(* Address arithmetic of src/src/heap.rs: the extent the heap manages, the  *)
(* allocation units a layout needs, and where such a run of units may start.*)
(* Units are numbered from 0; unit i begins at address HeapBase+i*Granule.  *)
(***************************************************************************)
EXTENDS Integers, FiniteSets

CONSTANTS
  Start,      \* address of the first byte handed to State::init
  Bytes,      \* number of bytes handed to State::init
  Granule,    \* GRANULE: bytes per allocation unit
  MaxUnits,   \* UNITS: the bitmap's capacity, in units
  Sizes,      \* request sizes, in bytes
  Aligns,     \* request alignments, in bytes
  SizeMax,    \* isize::MAX: the largest byte count of a Layout
  Values      \* what a byte may hold; 0 is the cleared byte

Skip == (0 - Start) % Granule

HeapBase == Start + Skip

HeapUnits ==
  IF Bytes < Skip THEN 0
  ELSE LET whole == (Bytes - Skip) \div Granule
       IN  IF whole < MaxUnits THEN whole ELSE MaxUnits

Capacity == HeapUnits * Granule

\* A Layout is a size and a power-of-two alignment. Every valid Layout whose
\* alignment a live block has leaves room below isize::MAX for the heap.
ASSUME GeometryAssumption ==
  /\ Start \in Nat \ {0} /\ Bytes \in Nat
  /\ Granule \in Nat \ {0} /\ MaxUnits \in Nat
  /\ Sizes \subseteq Nat /\ Aligns \subseteq Nat \ {0} /\ SizeMax \in Nat
  /\ \A a \in Aligns : Capacity <= SizeMax - (a - 1)
  /\ 0 \in Values

\* layout.size().div_ceil(GRANULE)
Need(size) == (size + Granule - 1) \div Granule

Aligned(i, align) == (HeapBase + i * Granule) % align = 0

\* A block is a unit to start at and the Layout it was requested with.
Block(i, size, align) == [start |-> i, size |-> size, align |-> align]

\* The null pointer: it holds no unit and no byte.
NoBlock == Block(0, 0, 1)

Run(start, count) == start .. (start + count - 1)

Extent(b) == Run(b.start, Need(b.size))

Held(blocks) == UNION {Extent(b) : b \in blocks}

\* The payload: the bytes a client may use, as offsets from HeapBase.
Payload(b) == Run(b.start * Granule, b.size)

\* The whole run of a request that starts at unit i is aligned, inside the heap and free.
Fits(i, size, align, taken) ==
  /\ i + Need(size) <= HeapUnits
  /\ Aligned(i, align)
  /\ Run(i, Need(size)) \cap taken = {}

Places(size, align, taken) ==
  {i \in 0 .. HeapUnits - 1 : size > 0 /\ Fits(i, size, align, taken)}

Larger(a, b) == IF a < b THEN b ELSE a

Smaller(a, b) == IF a < b THEN a ELSE b
=============================================================================
