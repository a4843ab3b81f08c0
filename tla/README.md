# A TLA+ verification of emulsiV-libos

emulsiV-libos is a `no_std` Rust runtime library for the emulsiV board (one RV32I hart, 3 KiB
of RAM, a one-byte text latch, 32 GPIO pins, a bitmap, one interrupt) together with `xtask`,
the program that builds, tests, packages and releases it. This directory holds TLA+ modules
translated from the source, the TLC configurations that check them on small instances, and
theorems that TLAPS proves for every instance. Paths below are relative to the repository.

To repeat a check, in this directory: `tlc -config MCHeap.cfg MCHeap` for a run (the runs are
listed below), `tlapm HeapProofs.tla` for a proof.

## 1. Inventory

| Component (source) | State | Operations | What makes it correct |
|---|---|---|---|
| Heap allocator (`src/heap.rs`) | base, units, bitmap, used, peak | allocate, allocate_zeroed, reallocate, deallocate, stats; the global allocator does the same under interrupt masking | live blocks disjoint and aligned; bitmap = live blocks; first fit; failure changes nothing; clients' bytes survive |
| Interrupt runtime (`src/runtime.rs`, `src/startup.S`) | registers loaded and not yet stored; the interrupt frame | reset, with_device_irqs_masked, default callback, entry and return | callback excluded from the borrow; sources restored; no byte lost or doubled outside the documented windows; foreground progress; an interrupt leaves no trace in the program |
| TextIO, GPIO drivers (`src/textio.rs`, `src/gpio.rs`) | none of their own; read-modify-write on device registers | try_read, set_interrupts; direction and output calls, edges and their acknowledgement, set_interrupt_mask | a call about one pin, edge or bit leaves the others alone, beyond the stated windows |
| Device model (`xtask/src/machine.rs`) | latch, control register, edge latches, pins | receive, toggle, request line, interrupt acceptance, MRET | (the environment) |
| Logical time (`src/time.rs`) | tick | advance, reached, deadline | wrapped comparison = elapsed time for intervals below half the range |
| Cooperative scheduler (`src/scheduler.rs`) | task table, cursor, generation | add, cancel, run_ready | due tasks are run, none starves, stale ids are dead |
| Event queue (`src/queue.rs`, `src/event.rs`) | slots, head, len | push, pop, front, clear | a bounded FIFO |
| Debouncer, PWM (`src/input.rs`) | threshold, count, stable, candidate | sample; level, set_duty | one edge per settled change; high for exactly the duty |
| Line editor (`src/console.rs`) | data, len, overflow, ready, after_cr | feed, clear | lines are whole or refused; each ends once |
| Shell parser (`src/shell.rs`) | loop locals | parse, number | exact operands, exact refusals |
| Release pipeline (`xtask/src/release.rs`, `project.rs`, `main.rs`) | files of dist, git, remote branch, CI, releases | verify, build, smoke, crate-check, package, publish | evidence speaks of one tree; archives match commits; releases gated and kept |
| Arena, bounded string (`src/arena.rs`, `src/fixed.rs`) | rest, used; data, len | allocate; push, push_str, pop, clear | blocks aligned, inside and apart; whole characters |
| Bitmap drawing (`src/bitmap.rs`) | the frame buffer | line, rect, fill_rect, circle, text, blit_mono, scroll_up | exactly the shape's pixels, clipped, nothing else |
| Memory routines (`src/memory.S`) | registers | memcpy, memset, memmove, memcmp | what C says, on every overlap |
| Image codec (`xtask/src/image.rs`, `link.x`) | image, base, eof; tables read | to_hex, from_hex, the ELF audit | what is written is read; damage is refused; image, heap and stack apart |
| Firmware tests (`main.rs`, `project.rs`) | job counter, threads, upstream checkout | smoke, upstream, fetch-upstream | a report only of images that passed, at the pin; commands end |
| Engines and scenarios (`machine.rs`, `scenarios.rs`, `upstream.rs`, `runtime_check.rs`) | processor, latch | step, send | a typed byte is taken once, in order, or the test fails |
| CRC, random numbers, bus, documentation check | small or none | | not modelled, see section 7 |

How they interact. The foreground and the interrupt callback share the device registers and,
through the global allocator, the heap's `State`; the only exclusion between them is
`with_device_irqs_masked`. Drivers, queue, editor, debouncer and scheduler are values owned by
the foreground: their callers hand them bytes, levels and ticks. `xtask` runs as a process
whose steps interleave with a developer, CI and interruption; its commands talk to each other
only through files in `dist`; `firmware_tests` is the one place where it runs threads, which
share a job counter and nothing else. The tester and the firmware share the one-byte latch.

What is hard: a callback between any two register accesses of a read-modify-write; a
level-triggered request that is never cleared; a callback that itself allocates inside the
entry or exit window of a masked foreground access; fragmentation and alignment; wrapped ticks
and reused slots; a publication stopped after any observation. `PROJECT.json` ("hazards") lists
each at its line with the properties that would notice it.

## 2. Plan and state of the plan

In the order of importance; done unless marked otherwise.

1. `HeapGeometry`, `AbstractHeap`, `Heap`: allocator and its refinement; `HeapProofs`.
2. `Devices`, `Runtime`: interrupt masking on registers, and what becomes of each byte;
   `RuntimeProofs`.
3. `Time`, `Scheduler`; `SchedulerProofs`.
4. `Release`; `ReleaseProofs`.
5. `LineEditor`, `Shell`; `ConsoleProofs`.
6. `Fifo`, `Queue`, `Debouncer`, `EventLoop`, `Pwm`; `EventLoopProofs`.
7. `GpioOutput`, `GpioEdges`: the driver's register accesses against a callback; `GpioProofs`.
8. `FirmwareTests`, `HexCodec`, `ElfAudit`, `Rig`: what xtask trusts and how it tests;
   `Memory`, `Hart`: the assembly; `ToolchainProofs`.
9. `Raster`; `Arena`, `FixedString` and their sum `Storage`, with theorems in `ConsoleProofs`.
10. Planned: the packed monochrome buffer of `bitmap.rs`; the runtime fixture of
    `xtask/src/runtime_check.rs`.

A module that only holds constants for TLC is called MC*: it extends the module it instantiates and
its `.cfg` names specification, constants and properties. No configuration replaces a definition.
`MCServices`, `MCConsole` and `MCToolchain` put several components that share no state into one
instance: the variable `world`, chosen in the first state and never changed, says which of them
moves, and the others stay where they began. The graph is the disjoint union of the components'
graphs, so each property is checked in exactly the behaviours of its own component, and trivially in
the others. Definitions marked `Mutant:` are variants of the definition that follows them, as a
plausible bug would change it; nothing else refers to them, and each property is known to fail when
its variant takes the definition's place (`PROJECT.json`, "mutants").

## 3. Modules and the code

**HeapGeometry** is the address arithmetic of `heap.rs`: how many units an unaligned extent
gives, units per layout, alignment of a unit. All sizes are parameters; `Granule` is
`GRANULE`, `MaxUnits` is `UNITS`.

**AbstractHeap** is the promise: every request atomic, served from *some* aligned free run,
refused only when there is none; bytes belong to their owners.

**Heap** has `State`'s fields as variables (the bitmap words as the set of set bits) and one
iteration of the first-fit scan per step, the loop's `i`, `run`, `start` being variables. What
follows the scan inside a call (marking, clearing, copying, releasing the old block) is part of
the step that ends it: `State` is borrowed exclusively for the whole call. `Open` is the lazy
initialisation of the global heap. The unsafe contract of `deallocate` and `reallocate` (a live
block and its exact layout) is the clients' obligation and is built into `live`. The global
allocator's `alloc_zeroed` clears after leaving the mask; these are bytes of the caller's own
block, and the model clears them in the same step.

**Devices** is the board: TEXT_CTRL as two bits, the one-byte latch holding the number of the
byte, IEN and the two edge latches as sets of pins, the level of the request line (`Pending`).
**Runtime** has one load or store of the library's code per step. `pc.fg` and `pc.irq` are the
next access of the two contexts, `saved` the registers each has loaded. `Retire` ends a
foreground instruction and, as `Machine::step` does, accepts an interrupt if the line is high;
`Tick` is any other foreground instruction; the callback runs one of four routines: `echo`
(`try_read`), `gpio` (edges and acknowledgement), `default` (`__libos_default_irq`), `heap` (an
allocation, masked like the foreground's). `HEAP.md` discourages allocating in callbacks; the
model allows it because the mask is written to survive it. `want`, `reads`, `clean` are ghosts:
what the foreground configured, how often each byte was read, which bytes met no open window.

**Time** and **Scheduler**: wrapping arithmetic at width `2*Half`; `run_ready` visits one slot
per step (`Skip`, `Invoke`), with `begin`, `offset`, `calls` as its locals. A callback receives
only the tick, so it runs inside its visit and decides whether its task is done. Ghosts: `lag`
(elapsed time in unbounded integers), `passed` (callbacks that went first), `owner`, `issued`.
The caller advances the tick often enough that nothing is overdue by half the range; the code
documents the same limit for intervals.

**LineEditor**: `data[..len]` is the sequence `line` (bytes past `len` are never read), one
byte per `feed`. `keys` and `screen` are ghosts; `Returns` shows what `examples/line_console.rs`
does with each event. `Poll` is its turn without a byte. The reference (`Typed`, `Text`,
`IsEnd`) is computed from the keys alone.

**Shell**: `parse` and `number` from left to right; the line is revealed word by word and digit
by digit, so every line is a behaviour. `MaxU` is `u32::MAX`. The machine's arithmetic wraps:
`Scaled` is what the shifts leave of the value, `Carried` what the casts to bytes leave of an operand;
`exact` and `exacts` are the values in unbounded arithmetic, computed apart from them.

**Fifo** is the promise of a queue; **Queue** the ring with `head`, `len` and `Option` slots;
**Debouncer** `Debouncer::sample`; **EventLoop** a foreground that owns both. In one half of its
behaviours the queue is called in any order, in the other (`looping`) as `examples/event_loop.rs`
does, which throws away what `push` returns; `fed` is what it was given and has not handled. The
button drives a light as in `examples/gpio_debounce.rs`. The debouncer's `candidate` always
equals the sample being counted or the stable level, so the restart at `input.rs:31` never
discards a count for boolean samples; it is kept in the model as in the code. **Pwm** is asked
for its level at every tick of a wrapping counter (`examples/gpio_pwm.rs`); `shape` is the last
period's levels.

**GpioOutput**: direction and output registers as sets of pins, one register access of the
foreground per step (`todo` is what its call still has to do). A load of VALUE returns any level
at inputs. A callback may run between any two accesses unless the call was made with the sources
masked, and is one step because the foreground waits for it. `want`, `way` and `stale` say what
the calls asked of each pin and which pins a callback changed during the foreground's call.
`set_high` and `set_low` are `write_masked` with all or no bits.

**GpioEdges**: the same for the edge latches, where both actors load and store and edges arrive
meanwhile; here the callback's accesses are steps too, because edges arrive between them. `due` is
what an atomic acknowledgement would leave, `doubt` the edges a window decided.

**Hart**: the assembly of `startup.S` on the processor of `machine.rs`, one instruction per step.
Registers hold distinct values, their names. The program between interrupts is any code that the
C ABI allows (it moves its stack pointer, stores, jumps; a word that is not `Supported` stops the
hart), and so is the handler, which may overwrite every caller-saved register and the stack below
its own. `found` is what the last interrupt met. **Memory** is `memory.S`: a loop's turn per step,
addresses modulo `Words`.

**Raster**: a turn of a drawing loop per step, on a surface and with coordinates of any size. Untouched
pixels hold their own index so that a moved one shows. What each call should draw is said of its
arguments at once, without the loops. A background of `blit_mono` is a second plotting of the
other pixels and is left out, and so is the glyph table: a glyph is any set of cells.

**Arena** and **FixedString**: storages anywhere in an address space of `Space` addresses; characters
of one to three bytes, a byte knowing which character it belongs to. Padding and length are added
modulo `Space`, so that the checked addition is what keeps a huge request out. **Storage** names what the two
promise together.

**FirmwareTests**: `firmware_tests` with a step per access of a worker to what others change, and
`fetch_upstream`/`check_upstream` with a step per git command. A developer changes images and the
checkout between any two. `ran`, `trouble`, `pinned` and `touched` record what happened.

**HexCodec**: `to_hex`, then at most one fault on the text, then `from_hex`; and texts of other
tools, with extended-address records. Bytes are below `B`, an address has two. Text digits and
line ends are left out: a line is its bytes. **ElfAudit** reads one table entry per step; what it
says is chosen at that step, any value or one that `link.x` lays out (`linker`), whose rules and
ASSERTs are `LinkerSymbols` and `LinkerSection`. **Rig** is `Rig::send`, with a firmware that polls as
`examples/text_echo.rs` does at any speed, or not at all.

**Release**: `todo` holds the steps the running command still has, a step being one observation
of the checkout or the remote, or one file written. Digests are what a file was made from. The
developer edits, commits and pushes and CI ends between any two steps; `Fail` stops a command
anywhere. Abstracted: one `xtask` process at a time; the order of images in a build; formatting,
documentation, host tests, clippy and the runtime check are one step (`Gates`); the test engines
are one step each (`FirmwareTests` has what happens inside). No content of the tree ever comes back (a tree edited and restored between
the two comparisons of `verify` is noticed by nothing in the code either). `gh` is the
repository's releases as a set; a re-run of CI after a success and pushes by others are left out.

## 4. Runs

| Run | Instance | What it shows |
|---|---|---|
| HeapPlacement | 6 units of 2 bytes, first byte unaligned, sizes 0..13, alignments 1 and 4 | types, `LiveDisjoint`, `Accounting`, `ScanSound`, `FirstFit`, `LargestServed` |
| HeapContents | 3 units with byte contents | `ImplementsAbstract`: Heap implements AbstractHeap |
| IrqMasking | one pin, two bytes, two edges, four callbacks, five foreground operations | `Exclusion`, `MasksRestored`, `CleanExactlyOnce`, `DefaultSilences` |
| IrqService | one pin, callback `gpio`, fairness | `RequestsServed` (liveness): masked accesses return, edges are served |
| IrqDuplicate | one byte, callback `echo` | *violated*: `ReadAtMostOnce`, see section 6 |
| Services | scheduler: 3 slots, 3-bit tick, 4 registrations, budgets 0..2, periods on both sides of the limit; ring of 3; thresholds 0..3; 2 pins; PWM periods up to 7 on a 3-bit tick | `ReachedIsDue`, `NoStarvation`, `StaleIdsDead`, `DrainsWithinBudget`; `ImplementsFifo`, `LoopDropsNothing`; `PressTogglesOnce`; `PinsHold`, `EdgesExact`; `DutyHeld` |
| Console | 5-bit numbers, bounds scaled with them, five digit values; lines of capacity 2, six keys; a surface of 5 by 4, coordinates -8..7; 16 addresses; strings of 4 bytes | `OperandsExact`, `AcceptsMeant`, `RangeIsTooLarge`; `SubmitsTyped`, `ScreenShowsLine`; `DrawsExactly`; `StorageSound` |
| Release | 1 example, 2 edits, 2 commits | `EvidenceSound`, `FirmwareFromCommit`, `ReleaseGated` |
| ReleaseMoved | the same with 1 edit | *violated*: `ReleaseMatchesArchive`, see section 6 |
| Toolchain | 2 images, 2 threads; bytes below 8 and records of 2; RAM of 6 words, 3 sections, 2 segments; 8 addresses; a stack of 20 words; 3 typed bytes | `ReportSound`, `Ends` (liveness); `TextsTrusted`; `LayoutSafe`; `RoutinesExact`; `InterruptLeavesNoTrace`; `SendDelivers` |
| FetchRetry | the tests alone | *violated*: `FetchObtains`, see section 6 |
| GpioSelected | the outputs alone, 2 pins | *violated*: `OnlySelectedUpdated`, see section 6 |

Why the bounds are enough. Heap: the first unit is skipped to, the tail is cut off, half the units
are misaligned, and three or more blocks fit, so runs are broken, spliced and refilled; contents
need one old block, one new and a third owner. Runtime: every window is at most one load and one
store long, so two bytes and two edges put one request in a window and another behind it; the
control state is covered completely. Scheduler: more registrations than slots, budgets below the
number of tasks, and ticks that wrap several times (the graph is finite and explored to the end).
Editor: overflow needs three characters, an edit after it, an end, and one key of the next line.
Shell: with 31 as the largest number every base has values just below, at and above its limit; the
theorems drop the bound. Release: each part of the tree needs a revision before and one after an
observation. Outputs and edges: a disturbed pin and its neighbour, one call inside another, as deep
as interrupts nest. Drawing: calls begin and end on every side of the surface and at both ends of
the coordinates, where a cast would wrap; the surface is smaller than a glyph and than a circle.
Strings: a character that fits, one cut, and one that fits after a pop. Threads: two that take,
finish, fail and panic in every order, one or all images. HEX: full records, gaps, the last address
of a segment and one past it, every byte of every text replaced by every other. ELF: every layout of
three sections in six words, an empty heap and a minimal stack among them. Memory routines: every
pair of blocks, apart, touching, nested and equal. Hart: the frame needs 16 words, 20 leave room for
a frame of the program's, and an interrupt met while the stack is full is a `stack` stop of the
processor. Tester: two bytes in a row behind a slow firmware. Bounds are the constants named
`Max...`, `TypedBytes` and `Attempts`; they occur in guards of the environment's actions, and in
`Feed`, `Add`, `Section` and `Segment`.

Deadlock is checked except in Console and Toolchain: a drawing, a memory routine, an audit, a
text and a typed test end, as the calls they model do. In all other runs each system always has a
next step.

Fairness. IrqService assumes `FairSpec`, which is `SF(FgStep) /\ WF(Tick) /\ WF(IrqStep)`.
The hart never stops, so a callback in progress proceeds (`IrqStep`), and each MRET lets one
foreground instruction retire before the next acceptance; the foreground has finitely many
instructions between two device accesses, so among infinitely many of its turns its next access
is taken (`FgStep`, strongly, because a pending request disables it for a while). The outside
world, and the foreground's decision to call an operation, have no fairness. Toolchain
assumes that the main thread and every worker of the firmware tests proceed when they can
(`WF(Main)`, `WF(Work(w))`): the operating system schedules them, every scenario runs a bounded
number of instructions, and git commands end, with an error if there is no network. No command is
assumed to start, and developers need do nothing.

## 5. Theorems

The theorems are in `HeapProofs`, `RuntimeProofs`, `SchedulerProofs`, `ConsoleProofs`,
`EventLoopProofs`, `GpioProofs`, `ReleaseProofs` and `ToolchainProofs`. They hold for all values of
the constants under the assumptions declared with them, which TLC evaluates too:

| Assumption | What it says, and why the code justifies it |
|---|---|
| `GeometryAssumption` | a positive granule and base address, sizes and alignments natural numbers, the extent below `isize::MAX` less the alignment (`Layout`'s own rule) |
| `DeviceAssumption`, `RuntimeAssumption`, `GpioAssumption` | bounds are naturals, callbacks and operations are the modelled ones, masks name pins |
| `TimeAssumption`, `SchedulerAssumption` | at least one slot and one tick; no more registrations than generations, 2^32 in the code |
| `QueueAssumption`, `DebouncerAssumption`, `PwmAssumption` | a capacity is a natural number, thresholds fit their counter, periods fit the tick |
| `ShellAssumption`, `EditorAssumption`, `CharsAssumption` | digits below sixteen, coordinates within a byte; capacities are naturals; printable characters are none of the control keys |
| `ArenaAssumption`, `SpaceAssumption`, `StringAssumption` | storages inside an address space that every alignment divides, as a power of two does; characters of one to four bytes |
| `MemoryAssumption` | memories are functions of the addresses |
| `HartAssumption` | the stack is whole alignment units, as `link.x` ASSERTs; at least one place to jump to |
| `HexAssumption` | more than four byte values, so that each kind of record is one, and records shorter than that (16 and 256 in the code); an image maps addresses to bytes, and the lines of a text are sequences of bytes |
| `AuditAssumption` | the vectors lie in RAM, alignments and the minimal stack are positive |
| `RasterAssumption` | i16 counts the sides of the surface (32 pixels in the code); coordinates are i16, sizes and rows naturals, a text is glyphs and newlines, a sprite bytes |
| `RigAssumption`, `FirmwareTestsAssumption`, `ReleaseAssumption` | a byte is waited for at least once; some firmware and one to eight workers; finitely many examples and a first commit |

*Heap.* The invariants the run checks are not inductive alone: `Accounting` after a release needs
`LiveDisjoint`, `LiveDisjoint` after a completed scan needs the scan's run to be free and aligned
(`ScanSound`), and a resize needs its old block to be live still. `Invariance` proves their
conjunction with the types, one step per action; `TypeCorrect`, `NoOverlap`, `NoLeak`,
`ScanIsSound` follow, and `PlacesFirst` derives first fit from the last clause of `ScanSound` (every
earlier place is ruled out). The arithmetic of units (`Quotient`, `NeedBounds`) and the
cardinality of runs are lemmas. `ImplementsAtomicHeap` is the refinement: under `RInv`, which adds
to the invariant that an access has opened the heap and that blocks have requested alignments, the
steps of the scan stutter, and the step that ends a call is the abstract operation. The run of free
units found is the abstract heap's place (`FoundGrants`), and a scan at its end leaves no place
(`RefusedIsFull`). `LargestIsServed` is about the statistics: their loop over the bitmap, unfolded
unit by unit, keeps the length of the run it is in and the longest so far, hence the longest run is
free, lies somewhere, and none is longer; as every unit is aligned for the default alignment, a
request that long is served.

*Runtime.* `Exclusion` is not inductive: a callback may be running in the entry window and must not
re-enable what the foreground is about to rely on. `MaskInv` adds that once the foreground has
masked a source, no copy a callback holds would turn it on (`CtrlSaved`, `IenSaved` name the
positions where such a copy is live). `RestoreInv` says what both registers and both contexts'
copies are, relative to what the foreground configured, as long as the default callback has not
silenced them. Each of the accesses of each context preserves both. From them: `MaskExcludes`,
`SourcesRestored`, `DefaultLowersRequest`. `CleanBytesOnce` needs the life of one byte: one that met
no window waits, unread, in the latch until a context reads it, and from then on is counted once,
unless the reader is about to acknowledge it.

*Shell.* `LimitKeeps`: the limit of a base is exactly where scaling begins to wrap. `FitsIsExact`
follows: the check before scaling and the checked addition to the scaled, possibly wrapped, value
pass just when the next value fits, and then leave that value, for every word size. With
`exact = value` as the loop's invariant this gives `NumbersExact` and `RefusesOnlyTooLarge`; the
count of operands and `CastKeeps` (a value in its range survives its cast) give `AcceptsOnlyMeant`.

*Line editor.* `ScreenFollows`: what the screen shows is the kept line, or has been cleared.
`LinesAsTyped` compares the editor with the keys alone: `EditorInv` says that the kept line is the
text of the keys since the line began, and that an editor which overflowed has seen a prefix of them
too long for it. The reference folds over the keys; each key unfolds it once (`TextOfAppend`).

*Arena and string.* `StorageIsSound` has two parts. `ArenaServesSoundly`: the padding
reaches the next aligned address, also around the end of the address space, and the blocks lie end
to end from the storage's beginning to `rest`. `StringHoldsCharacters`: the stored bytes are those of
`content`, character by character, hence a pop takes one whole character off.

*Scheduler.* The types, and four parts. `TimeInv`: a deadline's distance from the tick, taken on the
circle of ticks, is the ghost's unbounded one, or that plus the range if it is past; it gives
`WrappedTimeExact`. `FairInv`: what a due task was passed over, and its distance from the cursor,
are together at most one less than the slots; a callback moves the cursor past its slot, so each
time one grows the other shrinks, hence `CursorIsFair`. `WalkInv`: no slot the walk has visited is
due, hence `DrainsWhatIsDue`. `IdsInv`: the generation of each registration is its number, up to
the wrap, so no two registrations share one, hence `StaleIdsNameNothing`. Sums modulo the number
of slots or ticks are turned into sums with at most one subtraction first (`ModSum`, `NextSlot`).

*Queue and button.* `RingInv` says where the values are: the first `len` slots from the head, going
around, are filled. Then `Items` is a sequence, `push` appends to it (`PushAppends`) and `pop` takes
its head (`PopTakesHead`), which gives `RingIsFifo`, and `NoEventLost` for every capacity but zero.
`ButtonInv` says that the count is how many of the last samples disagree with the stable level
without a break, and that the one before agrees; the level therefore changes after a full
window, and not a sample later (`OneToggleAPress`).

*PWM.* `DutyKept`: `shape` holds the levels of the last ticks in a row. A period not cut by the
counter's wrap is a window of the circle of ticks that meets the high part of the cycle in one or two
intervals, which have the duty's length together; one that is cut is off by no more than what
`Off` allows.

*Edges.* `LoadedOK`: what any nested call has loaded of a latch still is in the latch, but for edges
in doubt; a store then writes what an atomic acknowledgement would (`DueOK`), which is the invariant
`EdgesNeverLost` needs. That a masked call's doubt holds arrivals only follows because there is a
single call while the sources are masked.

*Outputs.* `PinsNeverDisturbed`: `OutputInvariance` says that what a call has loaded of a pin is so
still, unless a callback made the pin stale, and that what it will store at the other pins is
what it loaded; the calls of the callback are atomic between the foreground's accesses.

*Release.* `ReceiptsSound`, `FirmwareTraced`, `ReleasesGated`. The contents of the tree only grow
newer, so two observations that agree mean that nothing changed between them (`SameSource`
positions); the steps left of a command are always a suffix of its list, so what an earlier
step established is known at a later one. With these, a receipt says what the tree was when it was
checked, an archive is of its commit, and a release passed the gates.

*Tester.* `TypingDelivers`: the byte that waits is the last one sent and all before it are
taken, so the tester never overwrites one that was not read.

*Memory routines.* `RoutinesDoWhatCSays`: after some turns of a loop the bytes already copied hold the
original ones, the others are untouched, and a block copied in the direction `memmove` chose never
meets bytes it still needs; the comparison has seen equal bytes only.

*Audit.* `AcceptedIsSafe`: what has been accepted so far lies in RAM, the sections apart from each
other, each below the image's end or equal to the stack; what segments load lies below that end and
contains the vectors.

*Codec.* `TextsAreTrusted` rests on `HexInv`. While the writer runs, its lines copy the addresses
it has done with, each one once; hence what it sends is `WrittenText`, copies of all addresses, apart from
each other, and one end record. `FaultInv` says what each fault leaves of that: a line whose sum is
not zero, a line of another length than it gives, a line twice, a text without end, or
lines that are all genuine. After n lines the reader's image holds exactly the data bytes of these,
each in its own place (`BytesRead`). A repeated line would need its places twice, and a swapped end
record is not last; so what is accepted is genuine and, but for a lost line, complete. The sum of a line
is a fold; that it can be taken in any order (`AnyFirst`), and so that another byte in one place
changes it by their difference (`TotalChanged`), is proved by induction on finite sets (`ByParts`).

*Drawing.* `ShapesAreExact`: the surface shows the points plotted, at every step (`PlotShows`), and each
shape has an invariant of its own about these. A line is at a columns and b rows from its start,
`slope` is b Dx - a Dy + Dx - Dy, and the error b Dx - a Dy stays within half the longer side
(`KeepsNear`), so that side advances with every turn and ends where the other does (`ShortOfEnd`). In a
circle `slope` is (py+1)^2 + px(px-1) - r^2; by its sign the next point is the nearest of its row
again (`NextNearest`), mirror images have the same mirror images, and the columns below
`py` and beyond `px` are covered. What rectangles have plotted and those to come make up the shape; an
edge that no i16 holds is off the surface. A text's cursor is where its lines and columns put it, or
at the largest i16 and so off the surface. A byte the scroll reads is not moved yet.

*Firmware tests.* `ReportsSound`: a claimed image is held by one worker or has passed, once; the
counter is past the last one as soon as a worker is done; joined workers are done; and what
was checked of the checkout stays true unless somebody touched it.

*Interrupts.* `InterruptsTransparent`: what the interrupt met is, register by register, still in the
register or in the slot of the frame it will be read back from; the program's part of the stack lies
above.

*Induction.* The library's induction theorems take a predicate as parameter and cannot be used. Its
theorem on minimal elements takes a set: every set of natural numbers that is not empty has a least
element (`NatMin`), and so a set that holds 0 and the successor of each of its elements holds all
(`Induction`, proved where it is used). Recursive functions and folds are unfolded with it, step by step.

Only model-checked: liveness (`RequestsServed`, `Ends`), which is out of the prover's reach, and the
runs in which a statement is violated.

## 6. Findings

* **A byte can be delivered twice** (`src/runtime.rs:47-49`, run IrqDuplicate). The entry of
  `with_device_irqs_masked` loads TEXT_CTRL and stores `ctrl & 0x40` two accesses later. If the
  callback takes the byte in between, the store sets RECEIVED again and the byte is read once more.
  The comment at line 41 promises to mask, run and restore.
* **A release may carry the previous commit's archive** (`xtask/src/release.rs:408`, run
  ReleaseMoved). `publish` packages first and then reads HEAD again for the release's target. A
  commit between the two, once CI has passed, is released with the archive of the commit before;
  the later comparison "remote main does not match verified source" compares with that second HEAD.
* **A fetch that fails once fails for ever** (`xtask/src/project.rs:274`, run FetchRetry).
  `fetch_upstream` checks any directory that exists, and `git init` makes it before the network is
  asked. After an offline attempt the command no longer fetches; the help and `README.md:277` say
  that it obtains the revision. The trace has no edit of the checkout at all. Nothing unsound
  follows: `ReportSound` holds.
* **A masked write changes latches it did not select** (`src/gpio.rs:66`, run GpioSelected). The value
  stored back holds the outside levels of input pins, which become their output latches; the
  comment at line 62 says that only selected output bits are updated. In the trace a write about one
  pin sets the latch of the other; configured as an output, it drives a level nobody wrote.

## 7. Not modelled

The panic handler, `halt`, delays and stack diagnostics; TextIO output and number formatting; CRC
and random numbers (bit-level arithmetic without control flow, with known vectors in the host
tests); volatile access and macros; of `bitmap.rs` the glyph table, `clear`, colours and the packed
`MonoBuffer`; the zeroing of an arena's block; the arithmetic of RV32I instructions and RAM bytes in
`machine.rs` (`Hart` has their control flow only, and the assembly has models of its own); byte
offsets and strings of an ELF's tables; what each scenario looks at; the JavaScript glue of
`upstream.rs`, which runs code from outside this repository; `runtime_check.rs`, a fixture for what
`Hart` and `Memory` model; the documentation check; archive encoding, path checks and process
spawning in `release.rs` and `project.rs`; commands of `main.rs` that only read or print.
