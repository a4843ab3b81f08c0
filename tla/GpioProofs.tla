----------------------------- MODULE GpioProofs -----------------------------
(***************************************************************************)
(* The GPIO driver against an interrupt callback, for every set of pins and    *)
(* masks: the only edges whose fate is not that of an atomic acknowledgement   *)
(* are those a window decided, and a call about one pin leaves the level and   *)
(* the direction of every other as they were last asked for, unless a callback *)
(* changed that pin inside an unmasked read-modify-write.                      *)
(***************************************************************************)
EXTENDS GpioOutput, GpioEdges, SequenceTheorems, TLAPS

(* Edges. *)

\* What a call may still have to do.
Todos ==
  { ClearEdges, << <<"store", "rising">>, <<"load", "falling">>, <<"store", "falling">> >>,
    << <<"load", "falling">>, <<"store", "falling">> >>, << <<"store", "falling">> >>,
    ClearAllEdges, << <<"clear", "falling">> >> }

FrameSet == [mask : SUBSET EdgePins, todo : Todos, loaded : SUBSET EdgePins]

\* Calls are the driver's, at most one of each actor, and a masked one is alone.
FramesOK ==
  /\ frames \in Seq(FrameSet) /\ Len(frames) \in 0 .. 2
  /\ masked \in BOOLEAN /\ (masked => Len(frames) = 1)

LatchesOK ==
  /\ latch \in [Kinds -> SUBSET EdgePins] /\ due \in [Kinds -> SUBSET EdgePins]
  /\ doubt \in [Kinds -> SUBSET EdgePins]

\* What a call has loaded is the latch still, but for edges in doubt.
LoadedOK ==
  \A k \in Kinds, i \in DOMAIN frames, p \in EdgePins :
    Inside(frames[i], k) /\ p \notin doubt[k] => (p \in frames[i].loaded <=> p \in latch[k])

DueOK == \A k \in Kinds, p \in EdgePins : p \notin doubt[k] => (p \in latch[k] <=> p \in due[k])

Inv == FramesOK /\ LatchesOK /\ LoadedOK /\ DueOK

-----------------------------------------------------------------------------
\* How the accesses of a call follow each other: a load is followed by its store, and
\* after a store or a clear the call is over or its next access is not a store.
LEMMA TodoSteps ==
  ASSUME NEW rest \in Todos, NEW k \in Kinds
  PROVE  /\ rest # << >> /\ Len(rest) \in Nat /\ (Len(rest) # 1 => Tail(rest) \in Todos)
         /\ Head(rest) = <<"load", k>> => Len(rest) # 1 /\ Head(Tail(rest)) = <<"store", k>>
         /\ Head(rest) \in {<<"store", k>>, <<"clear", k>>} =>
              Len(rest) = 1 \/ \A j \in Kinds : Head(Tail(rest)) # <<"store", j>>
<1> USE DEF Kinds, ClearEdges, ClearAllEdges
<1>1. CASE rest = ClearEdges
  BY <1>1 DEF Todos
<1>2. CASE rest = << <<"store", "rising">>, <<"load", "falling">>, <<"store", "falling">> >>
  BY <1>2 DEF Todos
<1>3. CASE rest = << <<"load", "falling">>, <<"store", "falling">> >>
  BY <1>3 DEF Todos
<1>4. CASE rest = << <<"store", "falling">> >>
  BY <1>4 DEF Todos
<1>5. CASE rest = ClearAllEdges
  BY <1>5 DEF Todos
<1>6. CASE rest = << <<"clear", "falling">> >>
  BY <1>6 DEF Todos
<1> QED BY <1>1, <1>2, <1>3, <1>4, <1>5, <1>6 DEF Todos

\* The calls below the top one.
LEMMA BelowTop ==
  ASSUME FramesOK, frames # << >>
  PROVE  /\ Top \in FrameSet /\ Len(frames) \in 1 .. 2
         /\ Below \in Seq(FrameSet) /\ Len(Below) = Len(frames) - 1
         /\ \A i \in 1 .. Len(frames) - 1 : Below[i] = frames[i]
<1>1. frames \in Seq(FrameSet) /\ Len(frames) \in 0 .. 2
  BY DEF FramesOK
<1>2. Len(frames) \in 1 .. 2
  BY <1>1, EmptySeq
<1>3. \A i \in 1 .. Len(frames) : frames[i] \in FrameSet
  BY <1>1, ElementOfSeq
<1>4. Top \in FrameSet
  BY <1>2, <1>3 DEF Top
<1> DEFINE top == Len(frames) - 1
<1>5. top \in Int /\ \A i \in 1 .. top : frames[i] \in FrameSet
  BY <1>2, <1>3
<1>6. /\ SubSeq(frames, 1, top) \in Seq(FrameSet)
      /\ Len(SubSeq(frames, 1, top)) = IF 1 <= top THEN top - 1 + 1 ELSE 0
      /\ \A i \in 1 .. top - 1 + 1 : SubSeq(frames, 1, top)[i] = frames[1 + i - 1]
  <2> HIDE DEF top
  <2> QED BY <1>5, SubSeqProperties
<1>7. /\ SubSeq(frames, 1, top) \in Seq(FrameSet) /\ Len(SubSeq(frames, 1, top)) = top
      /\ \A i \in 1 .. top : SubSeq(frames, 1, top)[i] = frames[i]
  <2>1. 1 .. top - 1 + 1 = 1 .. top /\ (1 <= top \/ top = 0) /\ \A i \in 1 .. top : 1 + i - 1 = i
    BY <1>2
  <2> HIDE DEF top
  <2> QED BY <1>5, <1>6, <2>1
<1>8. Below = SubSeq(frames, 1, top)
  BY DEF Below
<1> HIDE DEF top
<1>9. Below \in Seq(FrameSet) /\ Len(Below) = top /\ \A i \in 1 .. top : Below[i] = frames[i]
  BY <1>7, <1>8
<1> QED BY <1>2, <1>4, <1>9 DEF top

\* An access of the top call changes no other call; the call goes on or returns.
LEMMA ProceedStep ==
  ASSUME FramesOK, frames # << >>, NEW held \in SUBSET EdgePins, Proceed(held), Unshield
  PROVE  /\ FramesOK'
         /\ \A i \in DOMAIN frames' :
              \/ i \in DOMAIN Below /\ frames'[i] = Below[i]
              \/ /\ Len(Top.todo) # 1
                 /\ frames'[i] = [Top EXCEPT !.todo = Tail(@), !.loaded = held]
         /\ \A i \in DOMAIN Below : i \in DOMAIN frames /\ Below[i] = frames[i]
<1>1. Top \in FrameSet /\ Below \in Seq(FrameSet) /\ Len(Below) = Len(frames) - 1
      /\ Len(frames) \in 1 .. 2 /\ \A i \in 1 .. Len(frames) - 1 : Below[i] = frames[i]
  BY BelowTop
<1>2. frames \in Seq(FrameSet) /\ masked \in BOOLEAN /\ (masked => Len(frames) = 1)
  BY DEF FramesOK
<1>3. DOMAIN Below = 1 .. Len(Below) /\ DOMAIN frames = 1 .. Len(frames)
  BY <1>1, <1>2, LenProperties
<1>4. masked' \in BOOLEAN /\ (masked' => masked /\ frames' # << >>)
  BY <1>2 DEF Unshield
<1>5. \A i \in DOMAIN Below : i \in DOMAIN frames /\ Below[i] = frames[i]
  BY <1>1, <1>3
<1>6. CASE Len(Top.todo) = 1
  <2>1. frames' = Below
    BY <1>6 DEF Proceed
  <2>2. masked' => Len(frames') \in Nat \ {0}
    BY <1>1, <1>4, <2>1, EmptySeq
  <2>3. ~ masked'
    BY <1>1, <1>2, <1>4, <2>1, <2>2
  <2>4. frames' \in Seq(FrameSet) /\ Len(frames') \in 0 .. 2
    <3>1. Len(Below) \in 0 .. 2
      BY <1>1
    <3> QED BY <1>1, <2>1, <3>1
  <2> QED BY <1>4, <1>5, <2>1, <2>3, <2>4 DEF FramesOK
<1>7. CASE Len(Top.todo) # 1
  <2> DEFINE next == [Top EXCEPT !.todo = Tail(@), !.loaded = held]
  <2>1. frames' = Append(Below, next)
    BY <1>7 DEF Proceed
  <2>2. next \in FrameSet
    <3>1. Top.todo \in Todos
      BY <1>1 DEF FrameSet
    <3>2. Tail(Top.todo) \in Todos
      BY <3>1, <1>7, TodoSteps DEF Kinds
    <3> QED BY <1>1, <3>2 DEF FrameSet
  <2> HIDE DEF next
  <2>3. frames' \in Seq(FrameSet) /\ Len(frames') = Len(frames)
    BY <1>1, <2>1, <2>2
  <2>4. FramesOK'
    BY <1>1, <1>2, <1>4, <2>3 DEF FramesOK
  <2>5. \A i \in DOMAIN frames' : (i \in DOMAIN Below /\ frames'[i] = Below[i]) \/ frames'[i] = next
    BY <1>1, <1>3, <2>1, <2>2
  <2> QED BY <1>5, <1>7, <2>4, <2>5 DEF next
<1> QED BY <1>6, <1>7

\* A call that was just made has not loaded anything.
LEMMA NewFrame ==
  ASSUME NEW f \in Frames
  PROVE  f \in FrameSet /\ \A k \in Kinds : ~ Inside(f, k)
<1>1. CASE \E mask \in SUBSET EdgePins : f = Frame(mask, ClearEdges)
  BY <1>1 DEF Frame, FrameSet, Todos, Inside, ClearEdges
<1>2. CASE f = Frame(EdgePins, ClearAllEdges)
  BY <1>2 DEF Frame, FrameSet, Todos, Inside, ClearAllEdges
<1> QED BY <1>1, <1>2 DEF Frames
-----------------------------------------------------------------------------
\* A call starts, in the foreground or above it: nothing it could spoil is loaded yet.
LEMMA CallStarts ==
  ASSUME Inv, Foreground \/ Interrupt
  PROVE  Inv'
<1>1. FramesOK /\ LatchesOK /\ LoadedOK /\ DueOK
  BY DEF Inv
<1>2. LatchesOK' /\ DueOK' /\ doubt' = doubt /\ latch' = latch
  BY <1>1 DEF LatchesOK, DueOK, Foreground, Interrupt
<1>3. CASE Foreground
  <2>1. PICK f \in Frames : frames' = <<f>>
    BY <1>3 DEF Foreground
  <2>2. f \in FrameSet /\ \A k \in Kinds : ~ Inside(f, k)
    BY NewFrame
  <2>3. FramesOK'
    BY <1>3, <2>1, <2>2 DEF Foreground, FramesOK
  <2>4. DOMAIN frames' = 1 .. 1 /\ frames'[1] = f
    BY <2>1
  <2>5. LoadedOK'
    BY <2>2, <2>4 DEF LoadedOK, Inside
  <2> QED BY <1>2, <2>3, <2>5 DEF Inv
<1>4. CASE Interrupt
  <2>1. PICK f \in Frames : frames' = Append(frames, f)
    BY <1>4 DEF Interrupt
  <2>2. f \in FrameSet /\ \A k \in Kinds : ~ Inside(f, k)
    BY NewFrame
  <2>3. frames \in Seq(FrameSet) /\ Len(frames) \in 0 .. 1
    BY <1>1, <1>4 DEF FramesOK, Interrupt, Interruptible
  <2>4. FramesOK'
    <3>1. frames' \in Seq(FrameSet)
      BY <2>1, <2>2, <2>3
    <3>2. Len(frames') = Len(frames) + 1
      BY <2>1, <2>3
    <3>3. Len(frames') \in 0 .. 2
      <4>1. \A m, n : m \in 0 .. 1 /\ n = m + 1 => n \in 0 .. 2
        OBVIOUS
      <4> QED BY <2>3, <3>2, <4>1, Zenon
    <3>4. masked' \in BOOLEAN /\ ~ masked'
      BY <1>1, <1>4 DEF FramesOK, Interrupt, Interruptible
    <3> QED BY <3>1, <3>3, <3>4 DEF FramesOK
  <2>5. \A i \in DOMAIN frames' : (i \in DOMAIN frames /\ frames'[i] = frames[i]) \/ frames'[i] = f
    BY <2>1, <2>2, <2>3
  <2>6. LoadedOK'
    BY <1>1, <1>2, <2>2, <2>5 DEF LoadedOK, Inside
  <2> QED BY <1>2, <2>4, <2>6 DEF Inv
<1> QED BY <1>3, <1>4

\* A load: what the top call now holds is the latch.
LEMMA Loads ==
  ASSUME Inv, NEW k \in Kinds, LoadLatch(k)
  PROVE  Inv'
<1>1. FramesOK /\ LatchesOK /\ LoadedOK /\ DueOK
  BY DEF Inv
<1>2. LatchesOK' /\ DueOK' /\ doubt' = doubt /\ latch' = latch
  BY <1>1 DEF LatchesOK, DueOK, LoadLatch
<1>3. frames # << >> /\ Head(Top.todo) = <<"load", k>> /\ Proceed(latch[k]) /\ Unshield
  BY DEF LoadLatch, Doing
<1>4. latch[k] \in SUBSET EdgePins
  BY <1>1 DEF LatchesOK
<1> DEFINE next == [Top EXCEPT !.todo = Tail(@), !.loaded = latch[k]]
<1>5. /\ FramesOK'
      /\ \A i \in DOMAIN frames' : (i \in DOMAIN Below /\ frames'[i] = Below[i]) \/ frames'[i] = next
      /\ \A i \in DOMAIN Below : i \in DOMAIN frames /\ Below[i] = frames[i]
  BY <1>1, <1>3, <1>4, ProceedStep
<1>6. Top \in FrameSet
  BY <1>1, <1>3, BelowTop
<1>7. Head(Tail(Top.todo)) = <<"store", k>>
  BY <1>3, <1>6, TodoSteps DEF FrameSet
<1>8. next.loaded = latch[k] /\ \A j \in Kinds : Inside(next, j) => j = k
  BY <1>6, <1>7 DEF FrameSet, Inside
<1> HIDE DEF next
<1>9. LoadedOK'
  BY <1>1, <1>2, <1>5, <1>8 DEF LoadedOK, Inside
<1> QED BY <1>2, <1>5, <1>9 DEF Inv

\* A latch is written: the other call's loaded latch is stale only where it changed,
\* and what changed is in doubt from then on.
LEMMA Puts ==
  ASSUME Inv, NEW k \in Kinds, NEW bits \in SUBSET EdgePins, NEW cleared \in SUBSET EdgePins,
         frames # << >>, Head(Top.todo) \in {<<"store", k>>, <<"clear", k>>},
         Put(k, bits, cleared), Proceed({}), Unshield,
         \A p \in EdgePins : p \notin doubt[k] /\ p \notin cleared => (p \in bits <=> p \in latch[k]),
         bits \cap cleared = {}
  PROVE  Inv'
<1>1. FramesOK /\ LatchesOK /\ LoadedOK /\ DueOK
  BY DEF Inv
<1> DEFINE next == [Top EXCEPT !.todo = Tail(@), !.loaded = {}]
<1>2. /\ FramesOK'
      /\ \A i \in DOMAIN frames' :
           (i \in DOMAIN Below /\ frames'[i] = Below[i]) \/ (Len(Top.todo) # 1 /\ frames'[i] = next)
      /\ \A i \in DOMAIN Below : i \in DOMAIN frames /\ Below[i] = frames[i]
  <2>1. PICK held \in SUBSET EdgePins : held = {}
    OBVIOUS
  <2>2. Proceed(held)
    BY <2>1
  <2>3. /\ FramesOK'
        /\ \A i \in DOMAIN frames' :
             \/ i \in DOMAIN Below /\ frames'[i] = Below[i]
             \/ /\ Len(Top.todo) # 1
                /\ frames'[i] = [Top EXCEPT !.todo = Tail(@), !.loaded = held]
        /\ \A i \in DOMAIN Below : i \in DOMAIN frames /\ Below[i] = frames[i]
    BY <1>1, <2>2, ProceedStep
  <2> QED BY <2>1, <2>3
<1>3. Top \in FrameSet
  BY <1>1, BelowTop
<1>4. Len(Top.todo) # 1 => \A j \in Kinds : ~ Inside(next, j)
  BY <1>3, TodoSteps DEF FrameSet, Inside
<1> HIDE DEF next
<1> DEFINE change == (latch[k] \ bits) \cup (bits \ latch[k]) \cup cleared
           spoilt == IF Window(Below, k) THEN change ELSE {}
<1>5. /\ latch' = [latch EXCEPT ![k] = bits] /\ due' = [due EXCEPT ![k] = @ \ cleared]
      /\ doubt' = [doubt EXCEPT ![k] = (@ \ cleared) \cup spoilt]
  BY DEF Put
<1>6. change \in SUBSET EdgePins /\ spoilt \in SUBSET EdgePins
  BY <1>1 DEF LatchesOK
<1>7. Window(Below, k) => spoilt = change
  OBVIOUS
<1>8. \A p \in EdgePins : p \notin change => p \notin cleared /\ (p \in bits <=> p \in latch[k])
  OBVIOUS
<1> HIDE DEF change, spoilt
<1>9. /\ latch'[k] = bits /\ due'[k] = due[k] \ cleared /\ doubt'[k] = (doubt[k] \ cleared) \cup spoilt
      /\ \A j \in Kinds \ {k} : latch'[j] = latch[j] /\ due'[j] = due[j] /\ doubt'[j] = doubt[j]
  BY <1>1, <1>5 DEF LatchesOK
<1>10. LatchesOK'
  BY <1>1, <1>5, <1>6 DEF LatchesOK
<1>11. DueOK'
  <2>1. \A p \in EdgePins : p \notin doubt'[k] => (p \in latch'[k] <=> p \in due'[k])
    BY <1>1, <1>9 DEF DueOK
  <2>2. \A j \in Kinds \ {k}, p \in EdgePins : p \notin doubt'[j] => (p \in latch'[j] <=> p \in due'[j])
    BY <1>1, <1>9 DEF DueOK
  <2> QED BY <2>1, <2>2 DEF DueOK
<1>12. LoadedOK'
  <2> SUFFICES ASSUME NEW j \in Kinds, NEW i \in DOMAIN frames', NEW p \in EdgePins,
                      Inside(frames'[i], j), p \notin doubt'[j]
               PROVE  p \in frames'[i].loaded <=> p \in latch'[j]
    BY DEF LoadedOK, Inside
  <2>1. i \in DOMAIN Below /\ frames'[i] = Below[i]
    BY <1>2, <1>4
  <2>2. i \in DOMAIN frames /\ frames'[i] = frames[i]
    BY <1>2, <2>1
  <2>3. p \notin doubt[j] => (p \in frames'[i].loaded <=> p \in latch[j])
    BY <1>1, <2>2 DEF LoadedOK
  <2>4. CASE j = k
    <3>1. Window(Below, k)
      BY <2>1, <2>4 DEF Window
    <3>2. p \notin change
      BY <1>7, <1>9, <2>4, <3>1
    <3> QED BY <1>8, <1>9, <2>3, <2>4, <3>2
  <2>5. CASE j # k
    BY <1>9, <2>3, <2>5
  <2> QED BY <2>4, <2>5
<1> QED BY <1>2, <1>10, <1>11, <1>12 DEF Inv

\* A store acknowledges the mask and puts everything else back as it was loaded.
LEMMA Stores ==
  ASSUME Inv, NEW k \in Kinds, StoreLatch(k)
  PROVE  Inv'
<1>1. FramesOK /\ LoadedOK /\ frames # << >> /\ Head(Top.todo) = <<"store", k>>
  BY DEF Inv, StoreLatch, Doing
<1>2. Top \in FrameSet /\ Len(frames) \in 1 .. 2
  BY <1>1, BelowTop
<1>3. Len(frames) \in DOMAIN frames /\ Top = frames[Len(frames)]
  BY <1>1, <1>2, LenProperties DEF FramesOK, Top
<1>4. Inside(Top, k)
  BY <1>1, <1>2, TodoSteps DEF Inside, FrameSet
<1>5. \A p \in EdgePins : p \notin doubt[k] => (p \in Top.loaded <=> p \in latch[k])
  BY <1>1, <1>3, <1>4 DEF LoadedOK
<1>6. Top.mask \in SUBSET EdgePins /\ Top.loaded \in SUBSET EdgePins
  BY <1>2 DEF FrameSet
<1> DEFINE bits == Remaining(Top.loaded, Top.mask)
<1>7. /\ bits \in SUBSET EdgePins /\ bits \cap Top.mask = {}
      /\ \A p \in EdgePins : p \notin doubt[k] /\ p \notin Top.mask => (p \in bits <=> p \in latch[k])
  BY <1>5, <1>6 DEF Remaining
<1>8. Put(k, bits, Top.mask) /\ Proceed({}) /\ Unshield
  BY DEF StoreLatch
<1> HIDE DEF bits
<1> QED BY <1>1, <1>6, <1>7, <1>8, Puts

\* Acknowledging everything needs no load: nothing survives but arrivals.
LEMMA Clears ==
  ASSUME Inv, NEW k \in Kinds, ClearLatch(k)
  PROVE  Inv'
BY Puts DEF ClearLatch, Doing

\* An edge arrives: a call between its load and its store decides what becomes of it.
LEMMA EdgeArrives ==
  ASSUME Inv, NEW k \in Kinds, NEW p \in EdgePins, Edge(k, p)
  PROVE  Inv'
<1>1. FramesOK /\ LatchesOK /\ LoadedOK /\ DueOK
  BY DEF Inv
<1> DEFINE shaken == IF Window(frames, k) THEN doubt[k] \cup {p} ELSE doubt[k] \ {p}
<1>2. /\ latch' = [latch EXCEPT ![k] = @ \cup {p}] /\ due' = [due EXCEPT ![k] = @ \cup {p}]
      /\ doubt' = [doubt EXCEPT ![k] = shaken] /\ frames' = frames /\ masked' = masked
  BY DEF Edge
<1>3. shaken \in SUBSET EdgePins /\ \A q \in EdgePins \ {p} : q \in shaken <=> q \in doubt[k]
  BY <1>1 DEF LatchesOK
<1>4. Window(frames, k) => p \in shaken
  OBVIOUS
<1> HIDE DEF shaken
<1>5. /\ latch'[k] = latch[k] \cup {p} /\ due'[k] = due[k] \cup {p} /\ doubt'[k] = shaken
      /\ \A j \in Kinds \ {k} : latch'[j] = latch[j] /\ due'[j] = due[j] /\ doubt'[j] = doubt[j]
  BY <1>1, <1>2 DEF LatchesOK
<1>6. FramesOK'
  BY <1>1, <1>2 DEF FramesOK
<1>7. LatchesOK'
  BY <1>1, <1>2, <1>3 DEF LatchesOK
<1>8. DueOK'
  BY <1>1, <1>3, <1>5 DEF DueOK
<1>9. LoadedOK'
  <2> SUFFICES ASSUME NEW j \in Kinds, NEW i \in DOMAIN frames, NEW q \in EdgePins,
                      Inside(frames[i], j), q \notin doubt'[j]
               PROVE  q \in frames[i].loaded <=> q \in latch'[j]
    BY <1>2 DEF LoadedOK, Inside
  <2>1. q \notin doubt[j] => (q \in frames[i].loaded <=> q \in latch[j])
    BY <1>1 DEF LoadedOK
  <2>2. CASE j = k
    <3>1. Window(frames, k)
      BY <2>2 DEF Window
    <3> QED BY <1>3, <1>4, <1>5, <2>1, <2>2, <3>1
  <2>3. CASE j # k
    BY <1>5, <2>1, <2>3
  <2> QED BY <2>2, <2>3
<1> QED BY <1>6, <1>7, <1>8, <1>9 DEF Inv
-----------------------------------------------------------------------------
\* Every access of every call, and every edge, preserves the invariant.
THEOREM EdgesInvariance == EdgesSpec => []Inv
<1>1. EdgesInit => Inv
  <2> SUFFICES ASSUME EdgesInit PROVE Inv
    OBVIOUS
  <2>1. frames = << >> /\ latch = None /\ due = None /\ doubt = None /\ masked = FALSE
    BY DEF EdgesInit
  <2>2. << >> \in Seq(FrameSet) /\ Len(<< >>) = 0 /\ DOMAIN << >> = {}
    BY EmptySeq
  <2>3. FramesOK
    <3>1. frames \in Seq(FrameSet) /\ Len(frames) \in 0 .. 2
      BY <2>1, <2>2
    <3> QED BY <2>1, <3>1 DEF FramesOK
  <2>4. LatchesOK /\ DueOK
    BY <2>1 DEF LatchesOK, DueOK, None
  <2>5. LoadedOK
    BY <2>1, <2>2 DEF LoadedOK
  <2> QED BY <2>3, <2>4, <2>5 DEF Inv
<1>2. Inv /\ [EdgesNext]_edges => Inv'
  <2> SUFFICES ASSUME Inv, [EdgesNext]_edges PROVE Inv'
    OBVIOUS
  <2>1. CASE Foreground \/ Interrupt
    BY <2>1, CallStarts
  <2>2. ASSUME NEW k \in Kinds, LoadLatch(k) \/ StoreLatch(k) \/ ClearLatch(k) PROVE Inv'
    BY <2>2, Loads, Stores, Clears
  <2>3. ASSUME NEW k \in Kinds, NEW p \in EdgePins, Edge(k, p) PROVE Inv'
    BY <2>3, EdgeArrives
  <2>4. CASE UNCHANGED edges
    BY <2>4 DEF edges, Inv, FramesOK, LatchesOK, LoadedOK, DueOK, Inside
  <2> QED BY <2>1, <2>2, <2>3, <2>4 DEF EdgesNext
<1> QED BY <1>1, <1>2, PTL DEF EdgesSpec

\* Pointwise exactness is exactness of the sets.
LEMMA InvExact == Inv => EdgesTypeOK /\ LatchesExact
<1> SUFFICES ASSUME Inv PROVE EdgesTypeOK /\ LatchesExact
  OBVIOUS
<1>1. FramesOK /\ LatchesOK /\ DueOK
  BY DEF Inv
<1>2. \A i \in DOMAIN frames : frames[i] \in FrameSet
  BY <1>1, LenProperties, ElementOfSeq DEF FramesOK
<1>3. \A i \in DOMAIN frames :
        frames[i].mask \subseteq EdgePins /\ frames[i].loaded \subseteq EdgePins /\ frames[i].todo # << >>
  <2> SUFFICES ASSUME NEW i \in DOMAIN frames
               PROVE  /\ frames[i].mask \subseteq EdgePins /\ frames[i].loaded \subseteq EdgePins
                      /\ frames[i].todo # << >>
    OBVIOUS
  <2>1. frames[i].mask \subseteq EdgePins /\ frames[i].loaded \subseteq EdgePins /\ frames[i].todo \in Todos
    BY <1>2 DEF FrameSet
  <2> QED BY <2>1, TodoSteps DEF Kinds
<1>4. EdgesTypeOK
  BY <1>1, <1>3 DEF EdgesTypeOK, FramesOK, LatchesOK
<1>5. LatchesExact
  BY <1>1 DEF LatchesExact, DueOK, LatchesOK
<1> QED BY <1>4, <1>5

\* With nothing below the top call there is no window a store could spoil.
LEMMA MaskedStep ==
  ASSUME Inv, [EdgesNext]_edges, masked, NEW j \in Kinds
  PROVE  doubt'[j] \ doubt[j] \subseteq latch'[j] \cap due'[j]
<1>1. FramesOK /\ LatchesOK /\ Len(frames) = 1
  BY DEF Inv, FramesOK
<1>2. CASE Foreground \/ Interrupt \/ UNCHANGED edges \/ \E k \in Kinds : LoadLatch(k)
  BY <1>2 DEF Foreground, Interrupt, LoadLatch, edges
<1>3. ASSUME NEW k \in Kinds, NEW bits, NEW cleared, frames # << >>, Put(k, bits, cleared)
      PROVE  doubt'[j] \ doubt[j] = {}
  <2>1. Below \in Seq(FrameSet) /\ Len(Below) = 0
    BY <1>1, <1>3, BelowTop
  <2>2. ~ Window(Below, k)
    BY <2>1, LenProperties DEF Window
  <2>3. doubt' = [doubt EXCEPT ![k] = @ \ cleared]
    BY <1>3, <2>2 DEF Put
  <2> QED BY <1>1, <2>3 DEF LatchesOK
<1>4. ASSUME NEW k \in Kinds, StoreLatch(k) \/ ClearLatch(k)
      PROVE  doubt'[j] \ doubt[j] = {}
  BY <1>3, <1>4 DEF StoreLatch, ClearLatch, Doing
<1>5. ASSUME NEW k \in Kinds, NEW p \in EdgePins, Edge(k, p)
      PROVE  doubt'[j] \ doubt[j] \subseteq latch'[j] \cap due'[j]
  BY <1>1, <1>5 DEF Edge, LatchesOK
<1> QED BY <1>2, <1>4, <1>5 DEF EdgesNext

\* For every set of pins: an event that no window touched is latched exactly when it
\* has come and was not acknowledged, and a masked call's windows hold arrivals only.
THEOREM EdgesNeverLost == EdgesSpec => EdgesExact
<1>1. Inv => EdgesTypeOK /\ LatchesExact
  BY InvExact
<1>2. Inv /\ [EdgesNext]_edges =>
        [masked => \A k \in Kinds : doubt'[k] \ doubt[k] \subseteq latch'[k] \cap due'[k]]_edges
  BY MaskedStep
<1> QED BY <1>1, <1>2, EdgesInvariance, PTL DEF EdgesSpec, EdgesExact, MaskedLosesOnlyArrivals
-----------------------------------------------------------------------------
(* Outputs and directions. *)

\* The accesses a call in progress may have left.
Ahead(name) ==
  CASE name \in {"inputs", "outputs"} -> {<<"direction", "store">>, <<"store">>}
    [] name \in {"direct", "write"} -> {<<"store">>}
    [] name = "masked" -> {WriteMasked, <<"read", "store">>, <<"store">>}
    [] name = "toggle" -> {<<"sample", "direction", "read", "store">>, WriteMasked, <<"read", "store">>, <<"store">>}

CallInProgress ==
  /\ call \in Calls \cup {Idle}
  /\ IF call = Idle THEN todo = << >> ELSE todo \in Ahead(call.name)

HasDirection == call.name \in {"inputs", "outputs", "masked", "toggle"} /\ todo \in {<<"read", "store">>, <<"store">>}
HasLevels == call.name \in {"masked", "toggle"} /\ todo = <<"store">>

\* What the foreground has loaded of a pin is so still, unless a callback changed the
\* pin; and no callback does while the sources are masked, or between calls.
LoadedStill ==
  /\ \A p \in Pins \ stale : HasDirection => (p \in d <=> p \in dir)
  /\ \A p \in Pins \ (stale \cup dir) : HasLevels => (p \in v <=> p \in latches)
  /\ (shielded \/ todo = << >>) => stale = {}

\* No level is asked of an input.
InputsUndriven == \A p \in dir : want[p] = "any"

OutputInv ==
  OutputTypeOK /\ CallInProgress /\ LoadedStill /\ InputsUndriven /\ OutputsHold /\ DirectionsHold
-----------------------------------------------------------------------------
LEMMA CallsTyped ==
  ASSUME NEW c \in Calls
  PROVE  /\ c.name \in Names /\ c.mask \subseteq Pins /\ c.value \subseteq Pins
         /\ c.name = "write" => c.mask = Pins
         /\ c # Idle
BY GpioAssumption DEF Calls, Names, Idle

LEMMA ReadingsTyped ==
  ASSUME OutputTypeOK, NEW r \in Readings
  PROVE  r \subseteq Pins /\ \A p \in Pins \ dir : p \in r <=> p \in latches
BY DEF OutputTypeOK, Readings

\* A store, by either actor, keeps what was asked of every pin but those in doubt: the
\* loads it rests on may be wrong about no other.
LEMMA StoreHolds ==
  ASSUME OutputTypeOK, InputsUndriven, OutputsHold, DirectionsHold,
         NEW c \in Calls, NEW ld \in SUBSET Pins, NEW old \in SUBSET Pins,
         NEW sampled \in SUBSET Pins, NEW undone \in SUBSET Pins,
         Store(c, ld, old, sampled, undone),
         c.name \in {"inputs", "outputs", "masked", "toggle"} =>
           \A p \in Pins \ undone : p \in ld <=> p \in dir,
         c.name \in {"masked", "toggle"} =>
           \A p \in Pins \ (undone \cup dir) : p \in old <=> p \in latches
  PROVE  /\ dir' \subseteq Pins /\ latches' \subseteq Pins
         /\ want' \in [Pins -> {"any", "high", "low"}] /\ way' \in [Pins -> {"any", "in", "out"}]
         /\ InputsUndriven' /\ OutputsHold' /\ DirectionsHold'
<1>1. /\ c.name \in Names /\ c.mask \subseteq Pins /\ c.value \subseteq Pins
      /\ c.name = "write" => c.mask = Pins
  BY CallsTyped
<1>2. /\ dir \subseteq Pins /\ latches \subseteq Pins
      /\ want \in [Pins -> {"any", "high", "low"}] /\ way \in [Pins -> {"any", "in", "out"}]
  BY DEF OutputTypeOK
<1>3. latches' = NewOut(c, ld, old, sampled) /\ dir' = NewDir(c, ld) /\ Meaning(c, ld, sampled, undone)
  BY DEF Store
<1>4. Drive(c, sampled) \subseteq Pins
  BY <1>1 DEF Drive
<1>5. dir' \subseteq Pins
  BY <1>1, <1>2, <1>3 DEF NewDir, Names
<1>6. latches' \subseteq Pins
  BY <1>1, <1>2, <1>3, <1>4 DEF NewOut, Masked, Selected, Names
<1>7. want' \in [Pins -> {"any", "high", "low"}]
  BY <1>2, <1>3 DEF Meaning
<1>8. way' \in [Pins -> {"any", "in", "out"}]
  BY <1>2, <1>3 DEF Meaning
<1>9. InputsUndriven'
  <2>1. ASSUME NEW p \in Pins, p \in dir' PROVE want'[p] = "any"
    BY <1>3, <2>1 DEF Meaning
  <2> QED BY <1>5, <2>1 DEF InputsUndriven
<1>10. ASSUME NEW p \in Pins \ dir', want'[p] # "any"
       PROVE  p \in latches' <=> want'[p] = "high"
  <2>1. CASE p \in Driven(c, ld)
    <3>1. want'[p] = IF p \in Drive(c, sampled) THEN "high" ELSE "low"
      BY <1>3, <1>10, <2>1 DEF Meaning
    <3>2. p \in latches' <=> p \in Drive(c, sampled)
      <4>1. CASE c.name = "write"
        BY <1>3, <4>1 DEF NewOut, Drive
      <4>2. CASE c.name \in {"masked", "toggle"}
        BY <1>3, <2>1, <4>2 DEF NewOut, Masked, Driven
      <4> QED BY <2>1, <4>1, <4>2 DEF Driven
    <3> QED BY <3>1, <3>2
  <2>2. CASE p \notin Driven(c, ld)
    <3>1. p \notin undone /\ want'[p] = want[p]
      BY <1>3, <1>10, <2>2 DEF Meaning
    <3>2. p \notin dir /\ (p \in latches <=> want[p] = "high")
      BY <1>10, <3>1 DEF InputsUndriven, OutputsHold
    <3>3. p \in latches' <=> p \in latches
      <4>1. CASE c.name \in {"masked", "toggle"}
        BY <1>3, <2>2, <3>1, <3>2, <4>1 DEF NewOut, Masked, Driven
      <4>2. CASE c.name \in {"direct", "inputs", "outputs"}
        BY <1>3, <4>2 DEF NewOut
      <4> QED BY <1>1, <2>2, <4>1, <4>2 DEF Driven, Names
    <3> QED BY <3>1, <3>2, <3>3
  <2> QED BY <2>1, <2>2
<1>11. ASSUME NEW p \in Pins, way'[p] # "any"
       PROVE  p \in dir' <=> way'[p] = "in"
  <2>1. CASE c.name = "direct"
    <3>1. way'[p] = IF p \in c.mask THEN "in" ELSE "out"
      BY <1>3, <2>1 DEF Meaning
    <3>2. dir' = c.mask
      BY <1>3, <2>1 DEF NewDir
    <3> QED BY <3>1, <3>2
  <2>2. CASE c.name \in {"inputs", "outputs"} /\ p \in c.mask
    <3>1. way'[p] = IF c.name = "inputs" THEN "in" ELSE "out"
      BY <1>3, <2>2 DEF Meaning
    <3>2. dir' = IF c.name = "inputs" THEN ld \cup c.mask ELSE ld \ c.mask
      BY <1>3, <2>2 DEF NewDir
    <3> QED BY <2>2, <3>1, <3>2
  <2>3. CASE c.name \in {"inputs", "outputs"} /\ p \notin c.mask
    <3>1. p \notin undone /\ way'[p] = way[p]
      BY <1>3, <1>11, <2>3 DEF Meaning
    <3>2. p \in dir' <=> p \in dir
      BY <1>3, <2>3, <3>1 DEF NewDir
    <3> QED BY <1>11, <3>1, <3>2 DEF DirectionsHold
  <2>4. CASE c.name \in {"write", "masked", "toggle"}
    <3>1. way'[p] = way[p] /\ dir' = dir
      BY <1>3, <2>4 DEF Meaning, NewDir
    <3> QED BY <1>11, <3>1 DEF DirectionsHold
  <2> QED BY <1>1, <2>1, <2>2, <2>3, <2>4 DEF Names
<1> QED BY <1>5, <1>6, <1>7, <1>8, <1>9, <1>10, <1>11 DEF OutputsHold, DirectionsHold

\* What the accesses ahead of a call are when one of them is done.
LEMMA AheadSteps ==
  ASSUME NEW name \in Names, NEW s \in Ahead(name)
  PROVE  /\ s # << >>
         /\ Head(s) = "store" => s = <<"store">>
         /\ Head(s) = "read" => s = <<"read", "store">> /\ Tail(s) = <<"store">> /\ name \in {"masked", "toggle"}
         /\ Head(s) = "direction" => /\ Tail(s) \in {<<"store">>, <<"read", "store">>}
                                     /\ name \in {"inputs", "outputs", "masked", "toggle"}
                                     /\ (name \in {"masked", "toggle"} => Tail(s) = <<"read", "store">>)
         /\ Head(s) = "sample" => Tail(s) = WriteMasked
         /\ Head(s) # "store" => Tail(s) \in Ahead(name)
<1>1. /\ s \in {<<"store">>, <<"direction", "store">>, <<"read", "store">>, WriteMasked,
                <<"sample", "direction", "read", "store">>}
      /\ s = <<"direction", "store">> => name \in {"inputs", "outputs"}
      /\ s \in {<<"read", "store">>, WriteMasked} => name \in {"masked", "toggle"}
      /\ s = <<"sample", "direction", "read", "store">> => name = "toggle"
  BY DEF Ahead, Names, WriteMasked
<1>2. CASE s = <<"store">>
  BY <1>2
<1>3. CASE s = <<"direction", "store">>
  BY <1>1, <1>3 DEF Ahead
<1>4. CASE s = <<"read", "store">>
  BY <1>1, <1>4 DEF Ahead
<1>5. CASE s = WriteMasked
  BY <1>1, <1>5 DEF Ahead, WriteMasked
<1>6. CASE s = <<"sample", "direction", "read", "store">>
  BY <1>1, <1>6 DEF Ahead, WriteMasked
<1> QED BY <1>1, <1>2, <1>3, <1>4, <1>5, <1>6

LEMMA ToggleAccesses == <<"sample">> \o WriteMasked = <<"sample", "direction", "read", "store">>
<1> DEFINE a == <<"sample">>
           b == <<"direction", "read", "store">>
           c == <<"sample", "direction", "read", "store">>
           S == {"sample", "direction", "read", "store"}
<1>1. a \in Seq(S) /\ b \in Seq(S) /\ Len(a) = 1 /\ Len(b) = 3
  OBVIOUS
<1>2. a \o b \in Seq(S) /\ Len(a \o b) = 4
  BY <1>1
<1>3. c \in Seq(S) /\ Len(c) = 4
  OBVIOUS
<1>4. \A i \in 1 .. 4 : (a \o b)[i] = IF i <= 1 THEN a[i] ELSE b[i - 1]
  BY <1>1
<1>5. \A i \in 1 .. 4 : (a \o b)[i] = c[i]
  <2>1. (a \o b)[1] = "sample"
    BY <1>4
  <2>2. (a \o b)[2] = "direction"
    BY <1>4
  <2>3. (a \o b)[3] = "read"
    BY <1>4
  <2>4. (a \o b)[4] = "store"
    BY <1>4
  <2> QED BY <2>1, <2>2, <2>3, <2>4
<1> HIDE DEF c
<1>6. a \o b = c
  BY <1>2, <1>3, <1>5, SeqEqual
<1> QED BY <1>6 DEF c, WriteMasked

LEMMA AccessesAhead ==
  ASSUME NEW name \in Names
  PROVE  /\ Accesses(name) \in Ahead(name) /\ Accesses(name) # << >>
         /\ name \in {"inputs", "outputs", "masked", "toggle"} => Accesses(name) \notin {<<"store">>, <<"read", "store">>}
<1>1. name \in {"inputs", "outputs"} \/ name \in {"direct", "write"} \/ name = "masked" \/ name = "toggle"
  BY DEF Names
<1>2. CASE name \in {"inputs", "outputs"}
  BY <1>2 DEF Accesses, Ahead
<1>3. CASE name \in {"direct", "write"}
  BY <1>3 DEF Accesses, Ahead
<1>4. CASE name = "masked"
  BY <1>4 DEF Accesses, Ahead, WriteMasked
<1>5. CASE name = "toggle"
  <2>1. Accesses(name) = <<"sample", "direction", "read", "store">>
    BY <1>5, ToggleAccesses DEF Accesses
  <2> QED BY <1>5, <2>1 DEF Ahead
<1> QED BY <1>1, <1>2, <1>3, <1>4, <1>5

LEMMA OutputStart == OutputInit => OutputInv
<1> SUFFICES ASSUME OutputInit PROVE OutputInv
  OBVIOUS
<1>1. OutputTypeOK
  BY DEF OutputInit, OutputTypeOK, Idle
<1>2. CallInProgress
  BY DEF OutputInit, CallInProgress
<1>3. LoadedStill
  BY DEF OutputInit, LoadedStill, HasDirection, HasLevels, Idle
<1>4. InputsUndriven /\ OutputsHold
  BY DEF OutputInit, InputsUndriven, OutputsHold
<1>5. DirectionsHold
  BY DEF OutputInit, DirectionsHold
<1> QED BY <1>1, <1>2, <1>3, <1>4, <1>5 DEF OutputInv

-----------------------------------------------------------------------------
LEMMA BeginKeeps == ASSUME OutputInv, Begin PROVE OutputInv'
<1>1. PICK c \in Calls : call' = c /\ todo' = Accesses(c.name)
  BY DEF Begin
<1>2. /\ todo = << >> /\ shielded' \in BOOLEAN /\ UNCHANGED <<dir, latches, d, v, t, want, way, stale>>
  BY DEF Begin, device, locals, asked
<1>3. c.name \in Names /\ c # Idle
  BY CallsTyped
<1>4. todo' \in Ahead(c.name) /\ todo' # << >>
  BY <1>1, <1>3, AccessesAhead
<1>5. OutputTypeOK'
  BY <1>1, <1>2, <1>3, <1>4 DEF OutputInv, OutputTypeOK
<1>6. CallInProgress'
  BY <1>1, <1>3, <1>4 DEF CallInProgress
<1>7. ~HasDirection'
  BY <1>1, <1>3, AccessesAhead DEF HasDirection
<1>8. ~HasLevels'
  BY <1>7 DEF HasDirection, HasLevels
<1>9. LoadedStill'
  <2>1. stale' = {}
    BY <1>2 DEF OutputInv, LoadedStill
  <2> QED BY <1>7, <1>8, <2>1 DEF LoadedStill
<1>10. InputsUndriven' /\ OutputsHold' /\ DirectionsHold'
  BY <1>2 DEF OutputInv, InputsUndriven, OutputsHold, DirectionsHold
<1> QED BY <1>5, <1>6, <1>9, <1>10 DEF OutputInv

\* A load moves the call one access on, and knows what it loaded.
LEMMA LoadsKeep ==
  ASSUME OutputInv, SampleLevels \/ Direction \/ Read
  PROVE  OutputInv'
<1>1. /\ todo # << >> /\ todo' = Tail(todo) /\ UNCHANGED <<dir, latches, call, shielded, want, way, stale>>
      /\ Head(todo) \in {"sample", "direction", "read"}
  BY DEF SampleLevels, Direction, Read, Load, Access, device, asked
<1>2. call \in Calls /\ todo \in Ahead(call.name) /\ call # Idle
  BY <1>1 DEF OutputInv, CallInProgress
<1>3. call.name \in Names
  BY <1>2, CallsTyped
<1>4. todo' \in Ahead(call.name)
  BY <1>1, <1>2, <1>3, AheadSteps
<1>5. todo' # << >>
  BY <1>3, <1>4, AheadSteps
<1>6. d' \subseteq Pins /\ v' \subseteq Pins /\ t' \subseteq Pins
  <2>1. OutputTypeOK
    BY DEF OutputInv
  <2> QED BY <2>1, ReadingsTyped DEF OutputTypeOK, SampleLevels, Direction, Read
<1>7. OutputTypeOK'
  BY <1>1, <1>2, <1>5, <1>6 DEF OutputInv, OutputTypeOK
<1>8. CallInProgress'
  BY <1>1, <1>2, <1>4 DEF CallInProgress
<1>9. ASSUME NEW p \in Pins \ stale', HasDirection' PROVE p \in d' <=> p \in dir'
  <2>1. CASE SampleLevels
    <3>1. todo' = WriteMasked
      BY <1>1, <1>2, <1>3, <2>1, AheadSteps DEF SampleLevels, Load, Access
    <3> QED BY <1>9, <3>1 DEF HasDirection, WriteMasked
  <2>2. CASE Direction
    BY <1>1, <2>2 DEF Direction
  <2>3. CASE Read
    <3>1. todo = <<"read", "store">>
      BY <1>2, <1>3, <2>3, AheadSteps DEF Read, Load, Access
    <3>2. HasDirection /\ d' = d
      BY <1>1, <1>9, <2>3, <3>1 DEF HasDirection, Read
    <3> QED BY <1>1, <1>9, <3>2 DEF OutputInv, LoadedStill
  <2> QED BY <2>1, <2>2, <2>3
<1>10. ASSUME NEW p \in Pins \ (stale' \cup dir'), HasLevels' PROVE p \in v' <=> p \in latches'
  <2>1. CASE SampleLevels
    <3>1. todo' = WriteMasked
      BY <1>1, <1>2, <1>3, <2>1, AheadSteps DEF SampleLevels, Load, Access
    <3> QED BY <1>10, <3>1 DEF HasLevels, WriteMasked
  <2>2. CASE Direction
    <3>1. call.name \in {"masked", "toggle"}
      BY <1>1, <1>10 DEF HasLevels
    <3>2. todo' = <<"read", "store">>
      BY <1>1, <1>2, <1>3, <2>2, <3>1, AheadSteps DEF Direction, Load, Access
    <3> QED BY <1>10, <3>2 DEF HasLevels
  <2>3. CASE Read
    <3>1. OutputTypeOK
      BY DEF OutputInv
    <3> QED BY <1>1, <1>10, <2>3, <3>1, ReadingsTyped DEF Read
  <2> QED BY <2>1, <2>2, <2>3
<1>11. LoadedStill'
  <2>1. (shielded' \/ todo' = << >>) => stale' = {}
    BY <1>1, <1>5 DEF OutputInv, LoadedStill
  <2> QED BY <1>9, <1>10, <2>1 DEF LoadedStill
<1>12. InputsUndriven' /\ OutputsHold' /\ DirectionsHold'
  BY <1>1 DEF OutputInv, InputsUndriven, OutputsHold, DirectionsHold
<1> QED BY <1>7, <1>8, <1>11, <1>12 DEF OutputInv

\* When the store is next, the call has made the loads its store rests on.
LEMMA StoreReady ==
  ASSUME OutputInv, ForegroundStore
  PROVE  /\ call \in Calls /\ todo' = << >>
         /\ call.name \in {"inputs", "outputs", "masked", "toggle"} =>
              \A p \in Pins \ stale : p \in d <=> p \in dir
         /\ call.name \in {"masked", "toggle"} =>
              \A p \in Pins \ (stale \cup dir) : p \in v <=> p \in latches
<1>1. todo # << >> /\ Head(todo) = "store" /\ todo' = Tail(todo)
  BY DEF ForegroundStore, Access
<1>2. call \in Calls /\ todo \in Ahead(call.name)
  BY <1>1 DEF OutputInv, CallInProgress
<1>3. todo = <<"store">>
  BY <1>1, <1>2, AheadSteps, CallsTyped
<1>4. LoadedStill
  BY DEF OutputInv
<1>5. todo' = << >>
  BY <1>1, <1>3
<1> QED BY <1>2, <1>3, <1>4, <1>5 DEF LoadedStill, HasDirection, HasLevels

LEMMA StoreKeeps == ASSUME OutputInv, ForegroundStore PROVE OutputInv'
<1>1. /\ Store(call, d, v, t, stale)
      /\ call' = Idle /\ d' = {} /\ v' = {} /\ t' = {} /\ shielded' = FALSE /\ stale' = {}
  BY DEF ForegroundStore
<1>2. OutputTypeOK /\ InputsUndriven /\ OutputsHold /\ DirectionsHold
  BY DEF OutputInv
<1>3. d \in SUBSET Pins /\ v \in SUBSET Pins /\ t \in SUBSET Pins /\ stale \in SUBSET Pins
  BY <1>2 DEF OutputTypeOK
<1>4. /\ dir' \subseteq Pins /\ latches' \subseteq Pins
      /\ want' \in [Pins -> {"any", "high", "low"}] /\ way' \in [Pins -> {"any", "in", "out"}]
      /\ InputsUndriven' /\ OutputsHold' /\ DirectionsHold'
  BY <1>1, <1>2, <1>3, StoreReady, StoreHolds
<1>5. todo' = << >>
  BY StoreReady
<1>6. OutputTypeOK'
  BY <1>1, <1>4, <1>5 DEF OutputTypeOK
<1>7. CallInProgress' /\ LoadedStill'
  BY <1>1, <1>5 DEF CallInProgress, LoadedStill, HasDirection, HasLevels, Idle
<1> QED BY <1>4, <1>6, <1>7 DEF OutputInv

\* A pin the callback changed during a call is stale; of the others all is as loaded.
LEMMA CallbackKeeps == ASSUME OutputInv, OutputCallback PROVE OutputInv'
<1>1. PICK c \in Calls, old \in Readings, sampled \in Readings : Store(c, dir, old, sampled, {})
  BY DEF OutputCallback
<1>2. /\ ~shielded /\ UNCHANGED <<d, v, t, call, todo, shielded>>
      /\ stale' = IF todo = << >> THEN {} ELSE stale \cup Differ(latches, latches') \cup Differ(dir, dir')
  BY DEF OutputCallback, OutputAdmitted, locals
<1>3. OutputTypeOK /\ InputsUndriven /\ OutputsHold /\ DirectionsHold /\ LoadedStill
  BY DEF OutputInv
<1>4. dir \in SUBSET Pins /\ latches \subseteq Pins /\ stale \subseteq Pins
  BY <1>3 DEF OutputTypeOK
<1>5. old \in SUBSET Pins /\ sampled \in SUBSET Pins /\ \A p \in Pins \ dir : p \in old <=> p \in latches
  BY <1>3, ReadingsTyped
<1>6. /\ dir' \subseteq Pins /\ latches' \subseteq Pins
      /\ want' \in [Pins -> {"any", "high", "low"}] /\ way' \in [Pins -> {"any", "in", "out"}]
      /\ InputsUndriven' /\ OutputsHold' /\ DirectionsHold'
  BY <1>1, <1>3, <1>4, <1>5, StoreHolds
<1>7. stale' \subseteq Pins
  BY <1>2, <1>4, <1>6 DEF Differ
<1>8. OutputTypeOK'
  BY <1>2, <1>3, <1>6, <1>7 DEF OutputTypeOK
<1>9. CallInProgress'
  BY <1>2 DEF OutputInv, CallInProgress
<1>10. LoadedStill'
  <2>1. CASE todo = << >>
    BY <1>2, <2>1 DEF LoadedStill, HasDirection, HasLevels
  <2>2. CASE todo # << >>
    <3>1. \A p \in Pins \ stale' : p \in Pins \ stale /\ (p \in dir' <=> p \in dir) /\ (p \in latches' <=> p \in latches)
      BY <1>2, <2>2 DEF Differ
    <3>2. (HasDirection' <=> HasDirection) /\ (HasLevels' <=> HasLevels)
      BY <1>2 DEF HasDirection, HasLevels
    <3>3. \A p \in Pins \ stale' : HasDirection' => (p \in d' <=> p \in dir')
      BY <1>2, <1>3, <3>1, <3>2 DEF LoadedStill
    <3>4. \A p \in Pins \ (stale' \cup dir') : HasLevels' => (p \in v' <=> p \in latches')
      BY <1>2, <1>3, <3>1, <3>2 DEF LoadedStill
    <3>5. ~(shielded' \/ todo' = << >>)
      BY <1>2, <2>2
    <3> QED BY <3>3, <3>4, <3>5 DEF LoadedStill
  <2> QED BY <2>1, <2>2
<1> QED BY <1>6, <1>8, <1>9, <1>10 DEF OutputInv

LEMMA OutputStep == OutputInv /\ [OutputNext]_output => OutputInv'
<1> SUFFICES ASSUME OutputInv, [OutputNext]_output PROVE OutputInv'
  OBVIOUS
<1>1. CASE UNCHANGED output
  BY <1>1 DEF OutputInv, OutputTypeOK, CallInProgress, LoadedStill, HasDirection, HasLevels,
     InputsUndriven, OutputsHold, DirectionsHold, output, device, locals, asked
<1> QED BY <1>1, BeginKeeps, LoadsKeep, StoreKeeps, CallbackKeeps DEF OutputNext

\* A masked call's store leaves no other output in doubt: nothing of its loads is stale.
LEMMA MaskedExact ==
  ASSUME OutputInv, [OutputNext]_output, shielded, NEW p \in Pins \ dir', want[p] # "any"
  PROVE  want'[p] # "any"
<1>1. CASE UNCHANGED want
  BY <1>1
<1>2. CASE ForegroundStore
  <2>1. stale = {} /\ Meaning(call, d, t, stale)
    BY <1>2 DEF OutputInv, LoadedStill, ForegroundStore, Store
  <2>2. want'[p] = IF p \in Driven(call, d) THEN (IF p \in Drive(call, t) THEN "high" ELSE "low") ELSE want[p]
    BY <2>1 DEF Meaning
  <2> QED BY <2>2
<1>3. ~OutputCallback
  BY DEF OutputCallback, OutputAdmitted
<1> QED BY <1>1, <1>2, <1>3 DEF OutputNext, Begin, SampleLevels, Direction, Read, Load, asked, output

\* The inductive invariant: the shape of a call in progress, and that what it has loaded
\* of a pin is so still unless a callback changed that pin (gpio.rs, 34 to 80).
THEOREM OutputInvariance == OutputSpec => []OutputInv
BY OutputStart, OutputStep, PTL DEF OutputSpec

\* For every set of pins and of masks: every output holds the level, and every pin the
\* direction, last asked of it by either actor, but for those a callback changed inside an
\* unmasked read-modify-write; a masked call puts no pin in doubt (gpio.rs, 34 to 80).
THEOREM PinsNeverDisturbed == OutputSpec => PinsHold
<1>1. OutputInv => OutputTypeOK /\ OutputsHold /\ DirectionsHold
  BY DEF OutputInv
<1>2. OutputInv /\ [OutputNext]_output =>
        [shielded => \A p \in Pins \ dir' : want[p] # "any" => want'[p] # "any"]_output
  BY MaskedExact
<1> QED BY <1>1, <1>2, OutputInvariance, PTL DEF OutputSpec, PinsHold, MaskedCallsExact
=============================================================================
