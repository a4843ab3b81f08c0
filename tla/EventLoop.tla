------------------------------ MODULE EventLoop ------------------------------
(***************************************************************************)
(* A queue of events in any program or in the loop of examples/event_loop.rs   *)
(* (looping), and a debounced button that toggles a light                      *)
(* (examples/gpio_debounce.rs). fed, window and released are not in the code:  *)
(* the events fed and not yet handled, the last samples, and whether the button *)
(* has been up for a whole threshold since the light last toggled.            *)
(***************************************************************************)
EXTENDS Queue, Debouncer

VARIABLES looping, fed, light, window, released

button == <<debouncer, light, window, released>>
loop == <<queue, looping, fed, button>>

Down(samples) == \A k \in 1 .. threshold : samples[k]
Up(samples)   == \A k \in 1 .. threshold : ~samples[k]

\* The level before the first sample fills the window.
LoopInit ==
  /\ QueueInit /\ DebouncerInit /\ looping \in BOOLEAN /\ fed = << >>
  /\ light = FALSE /\ window = [k \in 1 .. threshold |-> stable] /\ released = ~stable

\* One turn of gpio_debounce's loop.
Button(v) ==
  /\ Sample(v)
  /\ light' = IF edge' = "Rising" THEN ~light ELSE light
  /\ window' = Append(Tail(window), v)
  /\ released' = (Up(window') \/ (released /\ light' = light))
  /\ UNCHANGED <<queue, looping, fed>>

\* Any program that owns a queue.
Owner == ~looping /\ QueueNext /\ UNCHANGED <<looping, fed, button>>

\* Mutant: the loop goes on after one event.
DrainedOnce == TRUE

\* The inner loop ends when pop finds nothing.
Drained == len = 0

\* One turn of the loop of event_loop.rs: what push returns is thrown away.
Receive == \E e \in Events :
  /\ looping /\ Drained /\ Push(e)
  /\ fed' = Append(fed, Some(e)) /\ UNCHANGED <<looping, button>>

Handle ==
  /\ looping /\ Pop
  /\ fed' = Tail(fed) /\ UNCHANGED <<looping, button>>

LoopNext == (\E v \in BOOLEAN : Button(v)) \/ Owner \/ Receive \/ Handle

LoopSpec == LoopInit /\ [][LoopNext]_loop

-----------------------------------------------------------------------------
Ring == INSTANCE Fifo
          WITH Values <- {Some(e) : e \in Events}, Capacity <- Capacity, items <- Items

\* The ring is a bounded queue: values come out in the order they went in, each once, and a
\* refused push returns its value and changes nothing, however often the ring wraps (queue.rs).
ImplementsFifo == Ring!FifoSpec

\* The stable level changes exactly when the last threshold samples agree against it: one
\* bounce is enough to start over, none is enough to report (input.rs sample).
DebouncedStep ==
  stable' # stable <=> window' # window /\ IF stable THEN Up(window') ELSE Down(window')

\* The loop handles every event it is fed, in order, though it never looks at what push
\* returns: it feeds the queue only when that is drained (event_loop.rs).
LoopDropsNothing == looping => fed = Items

\* A press toggles the light once, however it bounces: between two toggles the button was up
\* for a whole threshold of consecutive samples, and the stable level that toggles it changes
\* when it should (gpio_debounce.rs, input.rs sample).
PressTogglesOnce == [][DebouncedStep /\ (light' # light => released)]_loop
=============================================================================
