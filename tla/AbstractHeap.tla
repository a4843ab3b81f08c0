---------------------------- MODULE AbstractHeap ----------------------------
(***************************************************************************)
(* What src/src/heap.rs promises its clients, with every operation atomic   *)
(* and no bitmap, counter or scan: a request is served from some aligned    *)
(* free run and refused only when there is none; a block's bytes belong to   *)
(* its owner; a failed reallocation changes nothing.                        *)
(***************************************************************************)
EXTENDS HeapGeometry

VARIABLES
  live,     \* the blocks handed out and not yet released
  mem,      \* contents of the managed bytes
  peak,     \* the largest number of units ever held at once
  out       \* what the last request returned; NoBlock is the null pointer

absVars == <<live, mem, peak, out>>

Contents == [0 .. Capacity - 1 -> Values]

AbsInit ==
  /\ live = {}
  /\ mem \in Contents
  /\ peak = 0
  /\ out = NoBlock

\* A request is granted block new: it is held beside every live block, the one it
\* replaces included, and only its own bytes may change.
Granted(new) ==
  /\ peak' = Larger(peak, Cardinality(Held(live \cup {new})))
  /\ out' = new
  /\ mem' \in Contents
  /\ \A k \in (0 .. Capacity - 1) \ Payload(new) : mem'[k] = mem[k]

Allocate(size, align) ==
  \E i \in Places(size, align, Held(live)) :
    LET new == Block(i, size, align) IN
      /\ Granted(new)
      /\ live' = live \cup {new}

AllocateZeroed(size, align) ==
  \E i \in Places(size, align, Held(live)) :
    LET new == Block(i, size, align) IN
      /\ Granted(new)
      /\ live' = live \cup {new}
      /\ \A k \in Payload(new) : mem'[k] = 0

Reallocate(old, size) ==
  \E i \in Places(size, old.align, Held(live)) :
    LET new == Block(i, size, old.align) IN
      /\ Granted(new)
      /\ live' = (live \ {old}) \cup {new}
      /\ \A n \in 0 .. Smaller(old.size, size) - 1 :
           mem'[new.start * Granule + n] = mem[old.start * Granule + n]

\* No aligned free run exists: null, and nothing else changes.
Fail(size, align) ==
  /\ Places(size, align, Held(live)) = {}
  /\ out' = NoBlock
  /\ UNCHANGED <<live, mem, peak>>

Deallocate(b) ==
  /\ live' = live \ {b}
  /\ UNCHANGED <<mem, peak, out>>

Write(b, v) ==
  /\ mem' = [k \in DOMAIN mem |-> IF k \in Payload(b) THEN v ELSE mem[k]]
  /\ UNCHANGED <<live, peak, out>>

AbsNext ==
  \/ \E size \in Sizes, align \in Aligns :
       Allocate(size, align) \/ AllocateZeroed(size, align) \/ Fail(size, align)
  \/ \E b \in live :
       \/ \E size \in Sizes : Reallocate(b, size)
       \/ Deallocate(b)
       \/ \E v \in Values : Write(b, v)

AbsSpec == AbsInit /\ [][AbsNext]_absVars
=============================================================================
