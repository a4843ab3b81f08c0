----------------------------- MODULE GpioEdges ------------------------------
(***************************************************************************)
(* Acknowledging GPIO edges (gpio.rs, edges to clear_all_edges): the latches   *)
(* are plain memory, so an acknowledgement is a load and a store per latch,    *)
(* and edges arrive, or a callback acknowledges others, between the two.       *)
(* frames is the foreground's call and, above it, the callback's; the top one  *)
(* runs. Ghosts: due is what an atomic acknowledgement would leave latched,   *)
(* doubt the edges whose fate a window between load and store decided.         *)
(***************************************************************************)
EXTENDS Integers, Sequences

CONSTANT EdgePins

VARIABLES
  latch,        \* RISING and FALLING, as sets of pins
  frames,       \* calls in progress: [mask, todo, loaded], the callback's last
  masked,       \* the foreground's call runs with the sources masked
  due, doubt

edges == <<latch, frames, masked, due, doubt>>

Kinds == {"rising", "falling"}
None  == [k \in Kinds |-> {}]

EdgesInit == latch = None /\ frames = << >> /\ masked = FALSE /\ due = None /\ doubt = None

-----------------------------------------------------------------------------
(* Calls as sequences of accesses <<what, which latch>>. *)

ClearEdges    == << <<"load", "rising">>, <<"store", "rising">>,
                    <<"load", "falling">>, <<"store", "falling">> >>
ClearAllEdges == << <<"clear", "rising">>, <<"clear", "falling">> >>

Frame(mask, todo) == [mask |-> mask, todo |-> todo, loaded |-> {}]

Frames == {Frame(mask, ClearEdges) : mask \in SUBSET EdgePins} \cup {Frame(EdgePins, ClearAllEdges)}

Foreground ==
  /\ frames = << >>
  /\ \E f \in Frames : frames' = <<f>>
  /\ masked' \in BOOLEAN /\ UNCHANGED <<latch, due, doubt>>

Interruptible == Len(frames) < 2 /\ ~masked

Interrupt ==
  /\ Interruptible
  /\ \E f \in Frames : frames' = Append(frames, f)
  /\ UNCHANGED <<latch, masked, due, doubt>>

Top    == frames[Len(frames)]
Below  == SubSeq(frames, 1, Len(frames) - 1)
Doing(what, k) == frames # << >> /\ Head(Top.todo) = <<what, k>>

\* The top call's next access is done; after its last one the call returns.
Proceed(loaded) ==
  frames' = IF Len(Top.todo) = 1 THEN Below
            ELSE Append(Below, [Top EXCEPT !.todo = Tail(@), !.loaded = loaded])

\* Masked sources stay masked until the foreground's call returns.
Unshield == masked' = (masked /\ frames' # << >>)

\* The latches a call in progress has loaded and not stored yet.
Inside(f, k) == f.todo # << >> /\ Head(f.todo) = <<"store", k>>
Window(fs, k) == \E i \in DOMAIN fs : Inside(fs[i], k)

LoadLatch(k) ==
  /\ Doing("load", k)
  /\ Proceed(latch[k]) /\ Unshield /\ UNCHANGED <<latch, due, doubt>>

\* A latch is stored; what the foreground loaded before is stale where it changed.
Put(k, bits, cleared) ==
  /\ latch' = [latch EXCEPT ![k] = bits]
  /\ due'  = [due EXCEPT ![k] = @ \ cleared]
  /\ doubt' = [doubt EXCEPT ![k] =
       (@ \ cleared) \cup (IF Window(Below, k)
                           THEN (latch[k] \ bits) \cup (bits \ latch[k]) \cup cleared ELSE {})]

\* Mutant: only the selected events survive.
RemainingSelected(loaded, mask) == loaded \cap mask

Remaining(loaded, mask) == loaded \ mask

StoreLatch(k) ==
  /\ Doing("store", k)
  /\ Put(k, Remaining(Top.loaded, Top.mask), Top.mask)
  /\ Proceed({}) /\ Unshield

ClearLatch(k) ==
  /\ Doing("clear", k)
  /\ Put(k, {}, EdgePins)
  /\ Proceed({}) /\ Unshield

\* Machine::set_inputs latches an edge of the board.
Edge(k, p) ==
  /\ latch' = [latch EXCEPT ![k] = @ \cup {p}]
  /\ due'  = [due EXCEPT ![k] = @ \cup {p}]
  /\ doubt' = [doubt EXCEPT ![k] = IF Window(frames, k) THEN @ \cup {p} ELSE @ \ {p}]
  /\ UNCHANGED <<frames, masked>>

EdgesNext ==
  \/ Foreground \/ Interrupt
  \/ \E k \in Kinds : LoadLatch(k) \/ StoreLatch(k) \/ ClearLatch(k) \/ (\E p \in EdgePins : Edge(k, p))

EdgesSpec == EdgesInit /\ [][EdgesNext]_edges

-----------------------------------------------------------------------------
\* Calls are the driver's, at most one of each actor.
EdgesTypeOK ==
  /\ latch \in [Kinds -> SUBSET EdgePins] /\ due \in [Kinds -> SUBSET EdgePins]
  /\ doubt \in [Kinds -> SUBSET EdgePins] /\ masked \in BOOLEAN
  /\ Len(frames) \in 0 .. 2
  /\ \A i \in DOMAIN frames :
       frames[i].mask \subseteq EdgePins /\ frames[i].loaded \subseteq EdgePins /\ frames[i].todo # << >>

\* An acknowledged event is gone and every other latched event stays, whoever
\* acknowledges what and whenever edges arrive, except those that arrive or are
\* acknowledged inside a call's window between load and store (gpio.rs, 87).
LatchesExact == \A k \in Kinds : latch[k] \ doubt[k] = due[k] \ doubt[k]

\* A call made with the sources masked leaves in doubt only edges that arrive
\* while it runs: no callback's acknowledgement is undone.
MaskedLosesOnlyArrivals ==
  [][masked => \A k \in Kinds : doubt'[k] \ doubt[k] \subseteq latch'[k] \cap due'[k]]_edges

\* Every edge is either latched or acknowledged; the only exceptions are those a window
\* decides, and a masked call's window holds arrivals only (gpio.rs, 81 to 98).
EdgesExact == [](EdgesTypeOK /\ LatchesExact) /\ MaskedLosesOnlyArrivals
=============================================================================
