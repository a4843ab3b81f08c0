------------------------------ MODULE Runtime -------------------------------
(***************************************************************************)
(* One hart running foreground code and, between two of its instructions,   *)
(* the interrupt callback: the register accesses of runtime.rs, textio.rs    *)
(* and gpio.rs, one load or store per step, and the interrupt acceptance of  *)
(* machine.rs at the end of an instruction. pc names the access a context    *)
(* executes next; saved holds what it has loaded and not yet used.           *)
(***************************************************************************)
EXTENDS Devices

CONSTANTS
  Handlers,     \* routines the callback may run
  FgOps         \* operations the foreground may begin

ASSUME RuntimeAssumption ==
  /\ Handlers \subseteq {"echo", "gpio", "default", "heap"}
  /\ FgOps \subseteq {"heap", "enable", "mask", "clear", "poll"}

VARIABLES
  pc,           \* [fg, irq]: the next access of each context
  saved,        \* [fg, irq]: loaded register values
  want,         \* the interrupt sources the foreground has configured, and whether the
                \* default callback has silenced them
  reads,        \* how often each byte has been read from the latch (twice or more is 2)
  clean         \* bytes that neither arrived nor were read by the callback inside a
                \* read-modify-write window of the control register

cpu  == <<pc, saved>>
view == <<want, reads, clean>>
vars == <<device, cpu, view>>

Contexts == {"fg", "irq"}

NoSaved == [ctrl |-> [received |-> FALSE, enabled |-> FALSE],
            ien |-> {}, edges |-> {}, mask |-> {}]

\* with_device_irqs_masked, then the drivers' read-modify-write sequences.
MaskLabels == {"maskReadCtrl", "maskReadIen", "maskCtrl", "maskIen", "body",
               "readPending", "restoreCtrl", "restoreIen"}
DriverLabels == {"pollStatus", "pollData", "pollAck", "setRead", "setWrite", "setMask",
                 "edgesRising", "edgesFalling", "clearRising", "clearFalling",
                 "ackReadRising", "ackRising", "ackReadFalling", "ackFalling"}
DefaultLabels == {"defaultRead", "defaultCtrl", "defaultIen"}

\* The accesses between a load of the control register and the store made from it.
Windows == {"maskReadIen", "maskCtrl", "restoreCtrl", "setWrite", "pollData", "pollAck",
            "defaultCtrl"}

Init ==
  /\ DevicesInit
  /\ pc = [fg |-> "idle", irq |-> "none"]
  /\ saved = [c \in Contexts |-> NoSaved]
  /\ want = [enabled |-> FALSE, ien |-> {}, silenced |-> FALSE]
  /\ reads = [b \in 1 .. MaxBytes |-> 0] /\ clean = {}

\* Virgule takes no interrupt inside the callback; the foreground waits for its MRET.
Running(c) == IF c = "irq" THEN pc.irq # "none" ELSE pc.irq = "none"

At(c, label) == Running(c) /\ pc[c] = label

\* The first access of each routine of the callback.
Entry == [echo |-> "pollStatus", gpio |-> "edgesRising", default |-> "defaultRead",
          heap |-> "maskReadCtrl"]

\* Machine::step: the instruction retires and an interrupt is accepted at its end when
\* the request line is high and no callback is running.
Retire(c, label) ==
  IF c = "fg" /\ Pending'
  THEN \E h \in Handlers : pc' = [fg |-> label, irq |-> Entry[h]]
  ELSE pc' = [pc EXCEPT ![c] = label]

\* Mutant: the callback is left for the foreground's resting place.
ReturnIdle(c) == Retire(c, "idle")

Return(c) == Retire(c, IF c = "fg" THEN "idle" ELSE "mret")

Save(c, field, value) == saved' = [saved EXCEPT ![c][field] = value]

-----------------------------------------------------------------------------
\* with_device_irqs_masked around one access to the allocator's state
MaskReadCtrl(c) ==
  /\ At(c, "maskReadCtrl")
  /\ Save(c, "ctrl", ctrl) /\ UNCHANGED <<device, view>>
  /\ Retire(c, "maskReadIen")

MaskReadIen(c) ==
  /\ At(c, "maskReadIen")
  /\ Save(c, "ien", ien) /\ UNCHANGED <<device, view>>
  /\ Retire(c, "maskCtrl")

MaskCtrl(c) ==
  /\ At(c, "maskCtrl")
  /\ WriteCtrl(saved[c].ctrl.received, FALSE) /\ UNCHANGED <<saved, view>>
  /\ Retire(c, "maskIen")

\* Mutant: the GPIO interrupts stay enabled.
MaskIenKept(c) ==
  /\ At(c, "maskIen")
  /\ WriteIen(ien) /\ UNCHANGED <<saved, view>>
  /\ Retire(c, "body")

MaskIen(c) ==
  /\ At(c, "maskIen")
  /\ WriteIen({}) /\ UNCHANGED <<saved, view>>
  /\ Retire(c, "body")

\* The closure: State is borrowed from here to the end of this step.
Body(c) ==
  /\ At(c, "body")
  /\ UNCHANGED <<device, saved, view>>
  /\ Retire(c, "readPending")

\* Mutant: the entry's RECEIVED flag is restored, not the current one.
ReadPendingStale(c) ==
  /\ At(c, "readPending")
  /\ UNCHANGED <<device, saved, view>>
  /\ Retire(c, "restoreCtrl")

ReadPending(c) ==
  /\ At(c, "readPending")
  /\ saved' = [saved EXCEPT ![c].ctrl.received = ctrl.received]
  /\ UNCHANGED <<device, view>>
  /\ Retire(c, "restoreCtrl")

RestoreCtrl(c) ==
  /\ At(c, "restoreCtrl")
  /\ WriteCtrl(saved[c].ctrl.received, saved[c].ctrl.enabled)
  /\ UNCHANGED <<saved, view>>
  /\ Retire(c, "restoreIen")

\* Mutant: the GPIO interrupts are left disabled.
RestoreIenCleared(c) ==
  /\ At(c, "restoreIen")
  /\ WriteIen({})
  /\ saved' = [saved EXCEPT ![c] = NoSaved] /\ UNCHANGED view
  /\ Return(c)

RestoreIen(c) ==
  /\ At(c, "restoreIen")
  /\ WriteIen(saved[c].ien)
  /\ saved' = [saved EXCEPT ![c] = NoSaved] /\ UNCHANGED view
  /\ Return(c)

Masked(c) ==
  \/ MaskReadCtrl(c) \/ MaskReadIen(c) \/ MaskCtrl(c) \/ MaskIen(c) \/ Body(c)
  \/ ReadPending(c) \/ RestoreCtrl(c) \/ RestoreIen(c)

-----------------------------------------------------------------------------
\* TextIo::try_read
PollStatus(c) ==
  /\ At(c, "pollStatus") /\ UNCHANGED <<device, view>>
  /\ \/ ~ctrl.received /\ Return(c) /\ UNCHANGED saved
     \/ ctrl.received /\ Save(c, "ctrl", ctrl) /\ Retire(c, "pollData")

PollData(c) ==
  /\ At(c, "pollData")
  /\ reads' = [reads EXCEPT ![data] = IF @ < 2 THEN @ + 1 ELSE 2]
  /\ clean' = IF c = "irq" /\ pc.fg \in Windows THEN clean \ {data} ELSE clean
  /\ UNCHANGED <<device, saved, want>>
  /\ Retire(c, "pollAck")

PollAck(c) ==
  /\ At(c, "pollAck")
  /\ WriteCtrl(FALSE, saved[c].ctrl.enabled)
  /\ saved' = [saved EXCEPT ![c] = NoSaved] /\ UNCHANGED view
  /\ Return(c)

\* TextIo::set_interrupts, by the foreground; saved.ctrl.enabled is its argument
SetRead ==
  /\ At("fg", "setRead")
  /\ \E enabled \in BOOLEAN :
       Save("fg", "ctrl", [received |-> ctrl.received, enabled |-> enabled])
  /\ UNCHANGED <<device, view>>
  /\ Retire("fg", "setWrite")

SetWrite ==
  /\ At("fg", "setWrite")
  /\ WriteCtrl(saved.fg.ctrl.received, saved.fg.ctrl.enabled)
  /\ want' = [want EXCEPT !.enabled = saved.fg.ctrl.enabled]
  /\ saved' = [saved EXCEPT !.fg = NoSaved] /\ UNCHANGED <<reads, clean>>
  /\ Return("fg")

\* Gpio::set_interrupt_mask, by the foreground
SetMask ==
  /\ At("fg", "setMask")
  /\ \E mask \in SUBSET Pins : WriteIen(mask) /\ want' = [want EXCEPT !.ien = mask]
  /\ UNCHANGED <<saved, reads, clean>>
  /\ Return("fg")

\* Gpio::edges then clear_all_edges, as examples/irq_gpio.rs runs them in its callback
EdgesRising(c) ==
  /\ At(c, "edgesRising") /\ UNCHANGED <<device, saved, view>>
  /\ Retire(c, "edgesFalling")

EdgesFalling(c) ==
  /\ At(c, "edgesFalling") /\ UNCHANGED <<device, saved, view>>
  /\ Retire(c, "clearRising")

ClearRising(c) ==
  /\ At(c, "clearRising")
  /\ WriteRising({}) /\ UNCHANGED <<saved, view>>
  /\ Retire(c, "clearFalling")

ClearFalling(c) ==
  /\ At(c, "clearFalling")
  /\ WriteFalling({}) /\ UNCHANGED <<saved, view>>
  /\ Return(c)

\* Gpio::clear_edges(mask), by the foreground
AckReadRising ==
  /\ At("fg", "ackReadRising")
  /\ \E mask \in SUBSET Pins :
       saved' = [saved EXCEPT !.fg.edges = rising \ mask, !.fg.mask = mask]
  /\ UNCHANGED <<device, view>>
  /\ Retire("fg", "ackRising")

AckRising ==
  /\ At("fg", "ackRising")
  /\ WriteRising(saved.fg.edges) /\ UNCHANGED <<saved, view>>
  /\ Retire("fg", "ackReadFalling")

AckReadFalling ==
  /\ At("fg", "ackReadFalling")
  /\ Save("fg", "edges", falling \ saved.fg.mask) /\ UNCHANGED <<device, view>>
  /\ Retire("fg", "ackFalling")

AckFalling ==
  /\ At("fg", "ackFalling")
  /\ WriteFalling(saved.fg.edges)
  /\ saved' = [saved EXCEPT !.fg = NoSaved] /\ UNCHANGED view
  /\ Return("fg")

Drivers(c) ==
  \/ PollStatus(c) \/ PollData(c) \/ PollAck(c)
  \/ EdgesRising(c) \/ EdgesFalling(c) \/ ClearRising(c) \/ ClearFalling(c)

Configure == SetRead \/ SetWrite \/ SetMask
Acknowledge == AckReadRising \/ AckRising \/ AckReadFalling \/ AckFalling

-----------------------------------------------------------------------------
\* __libos_default_irq
DefaultRead ==
  /\ At("irq", "defaultRead")
  /\ Save("irq", "ctrl", ctrl) /\ UNCHANGED <<device, view>>
  /\ Retire("irq", "defaultCtrl")

\* Mutant: the TextIO interrupt stays enabled.
DefaultCtrlKept ==
  /\ At("irq", "defaultCtrl")
  /\ WriteCtrl(saved.irq.ctrl.received, saved.irq.ctrl.enabled)
  /\ saved' = [saved EXCEPT !.irq = NoSaved] /\ UNCHANGED view
  /\ Retire("irq", "defaultIen")

DefaultCtrl ==
  /\ At("irq", "defaultCtrl")
  /\ WriteCtrl(saved.irq.ctrl.received, FALSE)
  /\ saved' = [saved EXCEPT !.irq = NoSaved] /\ UNCHANGED view
  /\ Retire("irq", "defaultIen")

DefaultIen ==
  /\ At("irq", "defaultIen")
  /\ WriteIen({})
  /\ want' = [want EXCEPT !.silenced = TRUE] /\ UNCHANGED <<saved, reads, clean>>
  /\ Return("irq")

\* Mutant: a request still high re-enters the callback before any foreground instruction.
MretNested ==
  /\ At("irq", "mret")
  /\ IF Pending THEN \E h \in Handlers : pc' = [pc EXCEPT !.irq = Entry[h]]
     ELSE pc' = [pc EXCEPT !.irq = "none"]
  /\ UNCHANGED <<device, saved, view>>

\* MRET: the callback is left; the next interrupt waits for one foreground instruction.
Mret ==
  /\ At("irq", "mret")
  /\ pc' = [pc EXCEPT !.irq = "none"]
  /\ UNCHANGED <<device, saved, view>>

Default == DefaultRead \/ DefaultCtrl \/ DefaultIen

-----------------------------------------------------------------------------
FgEntry == [heap |-> "maskReadCtrl", enable |-> "setRead", mask |-> "setMask",
            clear |-> "ackReadRising", poll |-> "pollStatus"]

\* The foreground calls an operation: at least one instruction before its first access.
Begin ==
  /\ At("fg", "idle")
  /\ UNCHANGED <<device, saved, view>>
  /\ \E op \in FgOps : Retire("fg", FgEntry[op])

\* A foreground instruction that touches no device, at whose end an interrupt is accepted.
Tick ==
  /\ Running("fg") /\ Pending
  /\ UNCHANGED <<device, saved, view>>
  /\ Retire("fg", pc.fg)

\* The foreground's next access, and the callback's.
FgStep == Masked("fg") \/ Drivers("fg") \/ Configure \/ Acknowledge
IrqStep == Masked("irq") \/ Drivers("irq") \/ Default \/ Mret

Cpu == FgStep \/ IrqStep \/ Begin \/ Tick

\* A byte arrives.
Arrive ==
  /\ Receive
  /\ clean' = IF pc.fg \in Windows \/ pc.irq \in Windows THEN clean ELSE clean \cup {data'}
  /\ UNCHANGED <<cpu, want, reads>>

Edge == \E p \in Pins : Toggle(p) /\ UNCHANGED <<cpu, view>>

Next == Cpu \/ Arrive \/ Edge

Spec == Init /\ [][Next]_vars
\* The hart never stops. Between two of its accesses the foreground runs finitely many
\* instructions and each MRET lets one of them retire, so a pending request delays the
\* next access but cannot take its place for ever.
FairSpec == Spec /\ SF_vars(FgStep) /\ WF_vars(Tick) /\ WF_vars(IrqStep)

-----------------------------------------------------------------------------
SavedSet == [ctrl : Control, ien : SUBSET Pins, edges : SUBSET Pins, mask : SUBSET Pins]

\* Every register, program position and ghost has its type.
TypeOK ==
  /\ DevicesTypeOK
  /\ pc \in [fg : {"idle"} \cup MaskLabels \cup DriverLabels,
            irq : {"none", "mret"} \cup MaskLabels \cup DriverLabels \cup DefaultLabels]
  /\ saved \in [Contexts -> SavedSet]
  /\ want \in [enabled : BOOLEAN, ien : SUBSET Pins, silenced : BOOLEAN]
  /\ reads \in [1 .. MaxBytes -> 0 .. 2] /\ clean \subseteq 1 .. MaxBytes

\* The allocator's state is never borrowed twice: while a foreground access holds it, the
\* callback (which may allocate too) does not run (heap.rs global::Allocator::access).
Exclusion == pc.fg = "body" => pc.irq = "none"

\* A masked access leaves the interrupt sources as the foreground configured them, however
\* many callbacks, themselves allocating or not, ran inside its entry and exit.
MasksRestored ==
  pc.fg = "idle" /\ pc.irq = "none" /\ ~want.silenced =>
    ctrl.enabled = want.enabled /\ ien = want.ien

\* The default callback leaves the request line low, so an unhandled request cannot
\* re-enter it at once (__libos_default_irq).
DefaultSilences == [][DefaultIen => ~Pending']_vars

\* A byte that neither arrives nor is taken by the callback between a load of the control
\* register and the store made from it (with_device_irqs_masked, set_interrupts, try_read)
\* is never dropped and never read twice: it waits in the latch until it is read, once.
CleanExactlyOnce ==
  \A b \in clean : /\ reads[b] <= 1
                   /\ reads[b] = 0 => ctrl.received /\ data = b

\* Every byte is read from the latch at most once.
ReadAtMostOnce == \A b \in 1 .. MaxBytes : reads[b] <= 1

\* Nothing waits for ever: a masked access returns even when a request the callback never
\* clears stays pending, and an edge latched on a pin whose interrupt is configured is taken by
\* the callback, however often the foreground masks and restores the sources (runtime.rs).
RequestsServed ==
  /\ pc.fg = "maskReadCtrl" ~> pc.fg = "idle"
  /\ \A p \in Pins : p \in rising ~> (p \notin rising \/ p \notin want.ien)
=============================================================================
