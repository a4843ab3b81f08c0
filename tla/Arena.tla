-------------------------------- MODULE Arena --------------------------------
(***************************************************************************)
(* The bump arena of src/src/arena.rs in a storage anywhere in the address    *)
(* space. blocks is not in the code: what the arena has given out.            *)
(***************************************************************************)
EXTENDS Integers

CONSTANTS
  Space,        \* number of addresses, usize::MAX + 1
  Storages,     \* storages: <<address, length>>
  Sizes, Aligns \* requests, valid or not

ASSUME ArenaAssumption ==
  /\ Space \in Nat \ {0} /\ Sizes \subseteq 0 .. Space - 1 /\ Aligns \subseteq 0 .. Space - 1
  /\ \A s \in Storages : s[1] \in Nat /\ s[2] \in Nat /\ s[1] + s[2] <= Space

VARIABLES
  storage,          \* what the caller gave
  rest, used,       \* struct Arena; rest as <<address, length>>
  blocks            \* [start, len, align] of every block given out

arenaVars == <<storage, rest, used, blocks>>

ArenaInit == storage \in Storages /\ rest = storage /\ used = 0 /\ blocks = {}

PowersOfTwo == {2 ^ k : k \in 0 .. Space} \cap 1 .. Space

\* The address space is a power of two itself, so that a smaller one divides it.
ASSUME SpaceAssumption == \A align \in PowersOfTwo : Space % align = 0

\* address.wrapping_neg() & (align - 1)
Pad(align) == ((-rest[1]) % Space) % align

\* Padding and length, as a usize holds their sum.
Takes(len, align) == (Pad(align) + len) % Space

\* A request is refused when that sum is no usize (checked_add), or is more than what is left.
Servable(len, align) ==
  /\ len # 0 /\ align \in PowersOfTwo
  /\ Pad(align) + len < Space /\ Takes(len, align) <= rest[2]

Grant(len, align) ==
  /\ Servable(len, align)
  /\ blocks' = blocks \cup {[start |-> rest[1] + Pad(align), len |-> len, align |-> align]}
  /\ rest' = <<rest[1] + Takes(len, align), rest[2] - Takes(len, align)>>
  /\ used' = used + Takes(len, align)
  /\ UNCHANGED storage

RefuseRequest(len, align) == ~Servable(len, align) /\ UNCHANGED arenaVars

\* allocate
ArenaNext == \E len \in Sizes, align \in Aligns : Grant(len, align) \/ RefuseRequest(len, align)

ArenaSpec == ArenaInit /\ [][ArenaNext]_arenaVars

-----------------------------------------------------------------------------
BlockOf(b) == b.start .. b.start + b.len - 1

\* A block that a request could still have: aligned, and in what is left.
Room(len, align) == \E start \in rest[1] .. rest[1] + rest[2] - len : start % align = 0

\* Blocks are aligned, inside the storage and apart, wherever the storage lies and however near
\* the end of the address space; what is used and what remains add up to it; and a request is
\* refused only if no aligned block of its length remains (arena.rs allocate).
ArenaSound ==
  /\ \A b \in blocks :
       /\ b.start % b.align = 0 /\ BlockOf(b) \subseteq BlockOf([start |-> storage[1], len |-> used])
       /\ \A c \in blocks : b = c \/ BlockOf(b) \cap BlockOf(c) = {}
  /\ used + rest[2] = storage[2] /\ rest[1] = storage[1] + used
  /\ \A len \in Sizes \ {0}, align \in Aligns \cap PowersOfTwo :
       Servable(len, align) <=> Room(len, align)
=============================================================================
