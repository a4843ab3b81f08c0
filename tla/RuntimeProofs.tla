---------------------------- MODULE RuntimeProofs ----------------------------
(***************************************************************************)
(* Why with_device_irqs_masked excludes the callback from the allocator's     *)
(* state and gives the interrupt sources back: every access of the callback    *)
(* leaves the enable bit and the mask as the foreground's position in its own   *)
(* masking says they are. Proved for any number of pins, bytes and edges and    *)
(* any choice of callbacks and foreground operations.                         *)
(***************************************************************************)
EXTENDS Runtime, TLAPS

\* Positions at which a context has masked the two sources.
CtrlMasked == {"maskIen", "body", "readPending", "restoreCtrl"}
IenMasked  == {"body", "readPending", "restoreCtrl", "restoreIen"}

\* Positions at which saved holds the enable bit, or the mask, of the context's own entry.
CtrlSaved == {"maskReadIen", "maskCtrl", "maskIen", "body", "readPending", "restoreCtrl",
              "pollData", "pollAck"}
IenSaved  == {"maskCtrl", "maskIen", "body", "readPending", "restoreCtrl", "restoreIen"}

\* While the foreground masks a source, no access of the callback turns it on again.
MaskInv ==
  /\ pc.fg \in CtrlMasked =>
       ~ctrl.enabled /\ (pc.irq \in CtrlSaved => ~saved.irq.ctrl.enabled)
  /\ pc.fg \in IenMasked =>
       ien = {} /\ (pc.irq \in IenSaved => saved.irq.ien = {})
  /\ pc.irq = "defaultIen" => ~ctrl.enabled
  /\ Exclusion

\* What the enable bit and the mask are, but for the callback's own masking.
FgEnabled == IF pc.fg \in CtrlMasked THEN FALSE ELSE want.enabled
FgIen     == IF pc.fg \in IenMasked THEN {} ELSE want.ien

RestoreInv ==
  ~want.silenced =>
    /\ pc.irq \notin CtrlMasked \cup {"defaultIen"} => (ctrl.enabled <=> FgEnabled)
    /\ pc.irq \notin IenMasked => ien = FgIen
    /\ pc.irq \in CtrlSaved => (saved.irq.ctrl.enabled <=> FgEnabled)
    /\ pc.irq \in IenSaved => saved.irq.ien = FgIen
    /\ pc.fg \in CtrlSaved => (saved.fg.ctrl.enabled <=> want.enabled)
    /\ pc.fg \in IenSaved => saved.fg.ien = want.ien

Inv == TypeOK /\ MaskInv /\ RestoreInv

-----------------------------------------------------------------------------
(* Positions *)

FgLabels  == {"idle"} \cup MaskLabels \cup DriverLabels
IrqLabels == {"none", "mret"} \cup MaskLabels \cup DriverLabels \cup DefaultLabels
Entries   == {"pollStatus", "edgesRising", "defaultRead", "maskReadCtrl"}

LEMMA EntryLabels == \A h \in Handlers : Entry[h] \in Entries
BY RuntimeAssumption DEF Entry, Entries

\* A foreground instruction retires: the callback is entered only if a request is up.
LEMMA FgRetires ==
  ASSUME pc \in [fg : FgLabels, irq : IrqLabels], NEW label \in FgLabels,
         Running("fg"), Retire("fg", label)
  PROVE  /\ pc.irq = "none" /\ pc'.fg = label /\ pc'.irq \in {"none"} \cup Entries
         /\ ~Pending' => pc'.irq = "none"
         /\ pc' \in [fg : FgLabels, irq : IrqLabels]
<1>1. CASE Pending'
  <2>1. PICK h \in Handlers : pc' = [fg |-> label, irq |-> Entry[h]]
    BY <1>1 DEF Retire
  <2> QED
    BY <1>1, <2>1, EntryLabels
    DEF Running, Entries, FgLabels, IrqLabels, MaskLabels, DriverLabels, DefaultLabels
<1>2. CASE ~Pending'
  BY <1>2 DEF Retire, Running
<1> QED BY <1>1, <1>2

\* A step of the callback leaves the foreground where it was interrupted.
LEMMA IrqRetires ==
  ASSUME pc \in [fg : FgLabels, irq : IrqLabels], NEW label \in IrqLabels,
         Running("irq"), Retire("irq", label)
  PROVE  /\ pc.irq # "none" /\ pc'.fg = pc.fg /\ pc'.irq = label
         /\ pc' \in [fg : FgLabels, irq : IrqLabels]
BY DEF Retire, Running

-----------------------------------------------------------------------------
(* What a context has loaded. *)

LEMMA SaveCtrl ==
  ASSUME saved \in [Contexts -> SavedSet], NEW c \in Contexts, NEW v \in Control,
         Save(c, "ctrl", v)
  PROVE  /\ saved' \in [Contexts -> SavedSet]
         /\ saved'[c].ctrl = v /\ saved'[c].ien = saved[c].ien
         /\ \A d \in Contexts : d # c => saved'[d] = saved[d]
<1> DEFINE mine == [saved[c] EXCEPT !.ctrl = v]
<1>1. mine \in SavedSet /\ mine.ctrl = v /\ mine.ien = saved[c].ien
  BY DEF SavedSet
<1>2. saved' = [saved EXCEPT ![c] = mine]
  BY DEF Save
<1> HIDE DEF mine
<1> QED BY <1>1, <1>2

LEMMA SaveIen ==
  ASSUME saved \in [Contexts -> SavedSet], NEW c \in Contexts, NEW v \in SUBSET Pins,
         Save(c, "ien", v)
  PROVE  /\ saved' \in [Contexts -> SavedSet]
         /\ saved'[c].ien = v /\ saved'[c].ctrl = saved[c].ctrl
         /\ \A d \in Contexts : d # c => saved'[d] = saved[d]
<1> DEFINE mine == [saved[c] EXCEPT !.ien = v]
<1>1. mine \in SavedSet /\ mine.ien = v /\ mine.ctrl = saved[c].ctrl
  BY DEF SavedSet
<1>2. saved' = [saved EXCEPT ![c] = mine]
  BY DEF Save
<1> HIDE DEF mine
<1> QED BY <1>1, <1>2

\* What the acknowledgement of edges loads concerns neither source.
LEMMA SaveEdges ==
  ASSUME saved \in [Contexts -> SavedSet], NEW c \in Contexts, NEW e \in SUBSET Pins,
         NEW m \in SUBSET Pins,
         \/ saved' = [saved EXCEPT ![c].edges = e]
         \/ saved' = [saved EXCEPT ![c].edges = e, ![c].mask = m]
  PROVE  /\ saved' \in [Contexts -> SavedSet]
         /\ \A d \in Contexts : d # c => saved'[d] = saved[d]
<1>1. PICK mine \in SavedSet : saved' = [saved EXCEPT ![c] = mine]
  <2>1. [saved[c] EXCEPT !.edges = e] \in SavedSet
    BY DEF SavedSet
  <2>2. [saved[c] EXCEPT !.edges = e, !.mask = m] \in SavedSet
    <3> DEFINE acknowledged == [saved[c] EXCEPT !.edges = e]
    <3>1. acknowledged \in SavedSet
      BY <2>1
    <3>2. [saved[c] EXCEPT !.edges = e, !.mask = m] = [acknowledged EXCEPT !.mask = m]
      OBVIOUS
    <3> HIDE DEF acknowledged
    <3>3. [acknowledged EXCEPT !.mask = m] \in SavedSet
      BY <3>1 DEF SavedSet
    <3> QED BY <3>2, <3>3
  <2>3. CASE saved' = [saved EXCEPT ![c].edges = e]
    BY <2>1, <2>3
  <2>4. CASE saved' = [saved EXCEPT ![c].edges = e, ![c].mask = m]
    <3>1. saved' = [saved EXCEPT ![c] = [saved[c] EXCEPT !.edges = e, !.mask = m]]
      BY <2>4
    <3> QED BY <2>2, <3>1
  <2> QED BY <2>3, <2>4
<1> QED BY <1>1

LEMMA SaveReset ==
  ASSUME saved \in [Contexts -> SavedSet], NEW c \in Contexts,
         saved' = [saved EXCEPT ![c] = NoSaved]
  PROVE  /\ saved' \in [Contexts -> SavedSet]
         /\ \A d \in Contexts : d # c => saved'[d] = saved[d]
<1>1. NoSaved \in SavedSet
  BY DEF NoSaved, SavedSet, Control
<1> QED BY <1>1

-----------------------------------------------------------------------------
(* One lemma per group of accesses: the two contexts apart. *)

LEMMA InitInv == Init => Inv
<1> SUFFICES ASSUME Init PROVE Inv
  OBVIOUS
<1>1. TypeOK
  BY DeviceAssumption
  DEF Init, TypeOK, DevicesInit, DevicesTypeOK, Control, SavedSet, NoSaved, Contexts
<1>2. MaskInv /\ RestoreInv
  BY DEF Init, DevicesInit, MaskInv, RestoreInv, CtrlMasked, IenMasked, CtrlSaved, IenSaved,
     Exclusion, FgEnabled, FgIen
<1> QED BY <1>1, <1>2 DEF Inv

\* The foreground's masking.
LEMMA FgMasked == Inv /\ Masked("fg") => Inv'
<1> SUFFICES ASSUME Inv, Masked("fg") PROVE Inv'
  OBVIOUS
<1> USE DeviceAssumption
<1>0. TypeOK /\ MaskInv /\ RestoreInv /\ pc \in [fg : FgLabels, irq : IrqLabels]
  BY DEF Inv, TypeOK, FgLabels, IrqLabels
<1>1. CASE MaskReadCtrl("fg")
  <2>1. Running("fg") /\ pc.fg = "maskReadCtrl" /\ Retire("fg", "maskReadIen")
    BY <1>1 DEF MaskReadCtrl, At, Return
  <2>2. "maskReadIen" \in FgLabels
    BY DEF FgLabels, MaskLabels, DriverLabels, DefaultLabels
  <2>3. pc' \in [fg : FgLabels, irq : IrqLabels]
    BY <1>0, <2>1, <2>2, FgRetires
  <2>4. saved' \in [Contexts -> SavedSet] /\ saved'.irq = saved.irq /\ saved'.fg.ctrl = ctrl
    BY <1>0, <1>1, SaveCtrl DEF MaskReadCtrl, TypeOK, DevicesTypeOK, Contexts
  <2>5. TypeOK'
    BY <1>0, <1>1, <2>3, <2>4 DEF MaskReadCtrl, device, view, TypeOK, DevicesTypeOK,
      FgLabels, IrqLabels
  <2>6. MaskInv'
    BY <1>0, <1>1, <2>1, <2>2, <2>4, FgRetires DEF MaskReadCtrl, device, view, MaskInv,
      Exclusion, CtrlMasked, IenMasked, CtrlSaved, IenSaved, Entries
  <2>7. RestoreInv'
    BY <1>0, <1>1, <2>1, <2>2, <2>4, FgRetires DEF MaskReadCtrl, device, view, RestoreInv,
      FgEnabled, FgIen, CtrlMasked, IenMasked, CtrlSaved, IenSaved, Entries
  <2> QED BY <2>5, <2>6, <2>7 DEF Inv
<1>2. CASE MaskReadIen("fg")
  <2>1. Running("fg") /\ pc.fg = "maskReadIen" /\ Retire("fg", "maskCtrl")
    BY <1>2 DEF MaskReadIen, At, Return
  <2>2. "maskCtrl" \in FgLabels
    BY DEF FgLabels, MaskLabels, DriverLabels, DefaultLabels
  <2>3. pc' \in [fg : FgLabels, irq : IrqLabels]
    BY <1>0, <2>1, <2>2, FgRetires
  <2>4. saved' \in [Contexts -> SavedSet] /\ saved'.irq = saved.irq /\ saved'.fg.ien = ien
    /\ saved'.fg.ctrl = saved.fg.ctrl
    BY <1>0, <1>2, SaveIen DEF MaskReadIen, TypeOK, DevicesTypeOK, Contexts
  <2>5. TypeOK'
    BY <1>0, <1>2, <2>3, <2>4 DEF MaskReadIen, device, view, TypeOK, DevicesTypeOK,
      FgLabels, IrqLabels
  <2>6. MaskInv'
    BY <1>0, <1>2, <2>1, <2>2, <2>4, FgRetires DEF MaskReadIen, device, view, MaskInv,
      Exclusion, CtrlMasked, IenMasked, CtrlSaved, IenSaved, Entries
  <2>7. RestoreInv'
    BY <1>0, <1>2, <2>1, <2>2, <2>4, FgRetires DEF MaskReadIen, device, view, RestoreInv,
      FgEnabled, FgIen, CtrlMasked, IenMasked, CtrlSaved, IenSaved, Entries
  <2> QED BY <2>5, <2>6, <2>7 DEF Inv
<1>3. CASE MaskCtrl("fg")
  <2>1. Running("fg") /\ pc.fg = "maskCtrl" /\ Retire("fg", "maskIen")
    BY <1>3 DEF MaskCtrl, At, Return
  <2>2. "maskIen" \in FgLabels
    BY DEF FgLabels, MaskLabels, DriverLabels, DefaultLabels
  <2>3. pc' \in [fg : FgLabels, irq : IrqLabels]
    BY <1>0, <2>1, <2>2, FgRetires
  <2>4. saved' = saved
    BY <1>3 DEF MaskCtrl
  <2>5. TypeOK'
    BY <1>0, <1>3, <2>3, <2>4 DEF MaskCtrl, WriteCtrl, device, view, TypeOK, DevicesTypeOK,
      FgLabels, IrqLabels, Control, Contexts, SavedSet
  <2>6. MaskInv'
    BY <1>0, <1>3, <2>1, <2>2, <2>4, FgRetires DEF MaskCtrl, WriteCtrl, device, view,
      MaskInv, Exclusion, CtrlMasked, IenMasked, CtrlSaved, IenSaved, Entries
  <2>7. RestoreInv'
    BY <1>0, <1>3, <2>1, <2>2, <2>4, FgRetires DEF MaskCtrl, WriteCtrl, device, view,
      RestoreInv, FgEnabled, FgIen, CtrlMasked, IenMasked, CtrlSaved, IenSaved, Entries
  <2> QED BY <2>5, <2>6, <2>7 DEF Inv
<1>4. CASE MaskIen("fg")
  <2>1. Running("fg") /\ pc.fg = "maskIen" /\ Retire("fg", "body")
    BY <1>4 DEF MaskIen, At, Return
  <2>2. "body" \in FgLabels
    BY DEF FgLabels, MaskLabels, DriverLabels, DefaultLabels
  <2>3. pc' \in [fg : FgLabels, irq : IrqLabels]
    BY <1>0, <2>1, <2>2, FgRetires
  <2>4. saved' = saved
    BY <1>4 DEF MaskIen
  <2>5. TypeOK'
    BY <1>0, <1>4, <2>3, <2>4 DEF MaskIen, WriteIen, device, view, TypeOK, DevicesTypeOK,
      FgLabels, IrqLabels, Contexts, SavedSet
  <2>6. MaskInv'
    BY <1>0, <1>4, <2>1, <2>2, <2>4, FgRetires DEF MaskIen, WriteIen, Pending, device, view,
      MaskInv, Exclusion, CtrlMasked, IenMasked, CtrlSaved, IenSaved, Entries
  <2>7. RestoreInv'
    BY <1>0, <1>4, <2>1, <2>2, <2>4, FgRetires DEF MaskIen, WriteIen, Pending, device, view,
      RestoreInv, FgEnabled, FgIen, CtrlMasked, IenMasked, CtrlSaved, IenSaved, Entries
  <2> QED BY <2>5, <2>6, <2>7 DEF Inv
<1>5. CASE Body("fg")
  <2>1. Running("fg") /\ pc.fg = "body" /\ Retire("fg", "readPending")
    BY <1>5 DEF Body, At, Return
  <2>2. "readPending" \in FgLabels
    BY DEF FgLabels, MaskLabels, DriverLabels, DefaultLabels
  <2>3. pc' \in [fg : FgLabels, irq : IrqLabels]
    BY <1>0, <2>1, <2>2, FgRetires
  <2>4. saved' = saved
    BY <1>5 DEF Body
  <2>5. TypeOK'
    BY <1>0, <1>5, <2>3, <2>4 DEF Body, device, view, TypeOK, DevicesTypeOK, FgLabels,
      IrqLabels
  <2>6. MaskInv'
    BY <1>0, <1>5, <2>1, <2>2, <2>4, FgRetires DEF Body, device, view, MaskInv, Exclusion,
      CtrlMasked, IenMasked, CtrlSaved, IenSaved, Entries
  <2>7. RestoreInv'
    BY <1>0, <1>5, <2>1, <2>2, <2>4, FgRetires DEF Body, device, view, RestoreInv,
      FgEnabled, FgIen, CtrlMasked, IenMasked, CtrlSaved, IenSaved, Entries
  <2> QED BY <2>5, <2>6, <2>7 DEF Inv
<1>6. CASE ReadPending("fg")
  <2>1. Running("fg") /\ pc.fg = "readPending" /\ Retire("fg", "restoreCtrl")
    BY <1>6 DEF ReadPending, At, Return
  <2>2. "restoreCtrl" \in FgLabels
    BY DEF FgLabels, MaskLabels, DriverLabels, DefaultLabels
  <2>3. pc' \in [fg : FgLabels, irq : IrqLabels]
    BY <1>0, <2>1, <2>2, FgRetires
  <2>4. saved' \in [Contexts -> SavedSet] /\ saved'.irq = saved.irq /\
    saved'.fg.ctrl.enabled = saved.fg.ctrl.enabled /\ saved'.fg.ien = saved.fg.ien
    BY <1>0, <1>6 DEF ReadPending, TypeOK, DevicesTypeOK, Contexts, SavedSet, Control
  <2>5. TypeOK'
    BY <1>0, <1>6, <2>3, <2>4 DEF ReadPending, device, view, TypeOK, DevicesTypeOK,
      FgLabels, IrqLabels
  <2>6. MaskInv'
    BY <1>0, <1>6, <2>1, <2>2, <2>4, FgRetires DEF ReadPending, device, view, MaskInv,
      Exclusion, CtrlMasked, IenMasked, CtrlSaved, IenSaved, Entries
  <2>7. RestoreInv'
    BY <1>0, <1>6, <2>1, <2>2, <2>4, FgRetires DEF ReadPending, device, view, RestoreInv,
      FgEnabled, FgIen, CtrlMasked, IenMasked, CtrlSaved, IenSaved, Entries
  <2> QED BY <2>5, <2>6, <2>7 DEF Inv
<1>7. CASE RestoreCtrl("fg")
  <2>1. Running("fg") /\ pc.fg = "restoreCtrl" /\ Retire("fg", "restoreIen")
    BY <1>7 DEF RestoreCtrl, At, Return
  <2>2. "restoreIen" \in FgLabels
    BY DEF FgLabels, MaskLabels, DriverLabels, DefaultLabels
  <2>3. pc' \in [fg : FgLabels, irq : IrqLabels]
    BY <1>0, <2>1, <2>2, FgRetires
  <2>4. saved' = saved
    BY <1>7 DEF RestoreCtrl
  <2>5. TypeOK'
    BY <1>0, <1>7, <2>3, <2>4 DEF RestoreCtrl, WriteCtrl, device, view, TypeOK,
      DevicesTypeOK, FgLabels, IrqLabels, Control, Contexts, SavedSet
  <2>6. MaskInv'
    BY <1>0, <1>7, <2>1, <2>2, <2>4, FgRetires DEF RestoreCtrl, WriteCtrl, device, view,
      MaskInv, Exclusion, CtrlMasked, IenMasked, CtrlSaved, IenSaved, Entries
  <2>7. RestoreInv'
    BY <1>0, <1>7, <2>1, <2>2, <2>4, FgRetires DEF RestoreCtrl, WriteCtrl, device, view,
      RestoreInv, FgEnabled, FgIen, CtrlMasked, IenMasked, CtrlSaved, IenSaved, Entries
  <2> QED BY <2>5, <2>6, <2>7 DEF Inv
<1>8. CASE RestoreIen("fg")
  <2>1. Running("fg") /\ pc.fg = "restoreIen" /\ Retire("fg", "idle")
    BY <1>8 DEF RestoreIen, At, Return
  <2>2. "idle" \in FgLabels
    BY DEF FgLabels, MaskLabels, DriverLabels, DefaultLabels
  <2>3. pc' \in [fg : FgLabels, irq : IrqLabels]
    BY <1>0, <2>1, <2>2, FgRetires
  <2>4. saved' \in [Contexts -> SavedSet] /\ saved'.irq = saved.irq
    BY <1>0, <1>8, SaveReset DEF RestoreIen, TypeOK, DevicesTypeOK, Contexts
  <2>5. TypeOK'
    BY <1>0, <1>8, <2>3, <2>4 DEF RestoreIen, WriteIen, device, view, TypeOK, DevicesTypeOK,
      FgLabels, IrqLabels, Contexts, SavedSet
  <2>6. MaskInv'
    BY <1>0, <1>8, <2>1, <2>2, <2>4, FgRetires DEF RestoreIen, WriteIen, device, view,
      MaskInv, Exclusion, CtrlMasked, IenMasked, CtrlSaved, IenSaved, Entries
  <2>7. RestoreInv'
    BY <1>0, <1>8, <2>1, <2>2, <2>4, FgRetires DEF RestoreIen, WriteIen, device, view,
      RestoreInv, FgEnabled, FgIen, CtrlMasked, IenMasked, CtrlSaved, IenSaved, Entries
  <2> QED BY <2>5, <2>6, <2>7 DEF Inv
<1> QED BY <1>1, <1>2, <1>3, <1>4, <1>5, <1>6, <1>7, <1>8 DEF Masked

\* The callback's own masking, when it allocates.
LEMMA IrqMasked == Inv /\ Masked("irq") => Inv'
<1> SUFFICES ASSUME Inv, Masked("irq") PROVE Inv'
  OBVIOUS
<1> USE DeviceAssumption
<1>0. TypeOK /\ MaskInv /\ RestoreInv /\ pc \in [fg : FgLabels, irq : IrqLabels]
  BY DEF Inv, TypeOK, FgLabels, IrqLabels
<1>1. CASE MaskReadCtrl("irq")
  <2>1. Running("irq") /\ pc.irq = "maskReadCtrl" /\ Retire("irq", "maskReadIen")
    BY <1>1 DEF MaskReadCtrl, At, Return
  <2>2. "maskReadIen" \in IrqLabels
    BY DEF IrqLabels, MaskLabels, DriverLabels, DefaultLabels
  <2>3. pc' \in [fg : FgLabels, irq : IrqLabels]
    BY <1>0, <2>1, <2>2, IrqRetires
  <2>4. saved' \in [Contexts -> SavedSet] /\ saved'.fg = saved.fg /\ saved'.irq.ctrl = ctrl
    BY <1>0, <1>1, SaveCtrl DEF MaskReadCtrl, TypeOK, DevicesTypeOK, Contexts
  <2>5. TypeOK'
    BY <1>0, <1>1, <2>3, <2>4 DEF MaskReadCtrl, device, view, TypeOK, DevicesTypeOK,
      FgLabels, IrqLabels
  <2>6. MaskInv'
    BY <1>0, <1>1, <2>1, <2>2, <2>4, IrqRetires DEF MaskReadCtrl, device, view, MaskInv,
      Exclusion, CtrlMasked, IenMasked, CtrlSaved, IenSaved, Entries
  <2>7. RestoreInv'
    BY <1>0, <1>1, <2>1, <2>2, <2>4, IrqRetires DEF MaskReadCtrl, device, view, RestoreInv,
      FgEnabled, FgIen, CtrlMasked, IenMasked, CtrlSaved, IenSaved, Entries
  <2> QED BY <2>5, <2>6, <2>7 DEF Inv
<1>2. CASE MaskReadIen("irq")
  <2>1. Running("irq") /\ pc.irq = "maskReadIen" /\ Retire("irq", "maskCtrl")
    BY <1>2 DEF MaskReadIen, At, Return
  <2>2. "maskCtrl" \in IrqLabels
    BY DEF IrqLabels, MaskLabels, DriverLabels, DefaultLabels
  <2>3. pc' \in [fg : FgLabels, irq : IrqLabels]
    BY <1>0, <2>1, <2>2, IrqRetires
  <2>4. saved' \in [Contexts -> SavedSet] /\ saved'.fg = saved.fg /\ saved'.irq.ien = ien /\
    saved'.irq.ctrl = saved.irq.ctrl
    BY <1>0, <1>2, SaveIen DEF MaskReadIen, TypeOK, DevicesTypeOK, Contexts
  <2>5. TypeOK'
    BY <1>0, <1>2, <2>3, <2>4 DEF MaskReadIen, device, view, TypeOK, DevicesTypeOK,
      FgLabels, IrqLabels
  <2>6. MaskInv'
    BY <1>0, <1>2, <2>1, <2>2, <2>4, IrqRetires DEF MaskReadIen, device, view, MaskInv,
      Exclusion, CtrlMasked, IenMasked, CtrlSaved, IenSaved, Entries
  <2>7. RestoreInv'
    BY <1>0, <1>2, <2>1, <2>2, <2>4, IrqRetires DEF MaskReadIen, device, view, RestoreInv,
      FgEnabled, FgIen, CtrlMasked, IenMasked, CtrlSaved, IenSaved, Entries
  <2> QED BY <2>5, <2>6, <2>7 DEF Inv
<1>3. CASE MaskCtrl("irq")
  <2>1. Running("irq") /\ pc.irq = "maskCtrl" /\ Retire("irq", "maskIen")
    BY <1>3 DEF MaskCtrl, At, Return
  <2>2. "maskIen" \in IrqLabels
    BY DEF IrqLabels, MaskLabels, DriverLabels, DefaultLabels
  <2>3. pc' \in [fg : FgLabels, irq : IrqLabels]
    BY <1>0, <2>1, <2>2, IrqRetires
  <2>4. saved' = saved
    BY <1>3 DEF MaskCtrl
  <2>5. TypeOK'
    BY <1>0, <1>3, <2>3, <2>4 DEF MaskCtrl, WriteCtrl, device, view, TypeOK, DevicesTypeOK,
      FgLabels, IrqLabels, Control, Contexts, SavedSet
  <2>6. MaskInv'
    BY <1>0, <1>3, <2>1, <2>2, <2>4, IrqRetires DEF MaskCtrl, WriteCtrl, device, view,
      MaskInv, Exclusion, CtrlMasked, IenMasked, CtrlSaved, IenSaved, Entries
  <2>7. RestoreInv'
    BY <1>0, <1>3, <2>1, <2>2, <2>4, IrqRetires DEF MaskCtrl, WriteCtrl, device, view,
      RestoreInv, FgEnabled, FgIen, CtrlMasked, IenMasked, CtrlSaved, IenSaved, Entries
  <2> QED BY <2>5, <2>6, <2>7 DEF Inv
<1>4. CASE MaskIen("irq")
  <2>1. Running("irq") /\ pc.irq = "maskIen" /\ Retire("irq", "body")
    BY <1>4 DEF MaskIen, At, Return
  <2>2. "body" \in IrqLabels
    BY DEF IrqLabels, MaskLabels, DriverLabels, DefaultLabels
  <2>3. pc' \in [fg : FgLabels, irq : IrqLabels]
    BY <1>0, <2>1, <2>2, IrqRetires
  <2>4. saved' = saved
    BY <1>4 DEF MaskIen
  <2>5. TypeOK'
    BY <1>0, <1>4, <2>3, <2>4 DEF MaskIen, WriteIen, device, view, TypeOK, DevicesTypeOK,
      FgLabels, IrqLabels, Contexts, SavedSet
  <2>6. MaskInv'
    BY <1>0, <1>4, <2>1, <2>2, <2>4, IrqRetires DEF MaskIen, WriteIen, Pending, device,
      view, MaskInv, Exclusion, CtrlMasked, IenMasked, CtrlSaved, IenSaved, Entries
  <2>7. RestoreInv'
    BY <1>0, <1>4, <2>1, <2>2, <2>4, IrqRetires DEF MaskIen, WriteIen, Pending, device,
      view, RestoreInv, FgEnabled, FgIen, CtrlMasked, IenMasked, CtrlSaved, IenSaved,
      Entries
  <2> QED BY <2>5, <2>6, <2>7 DEF Inv
<1>5. CASE Body("irq")
  <2>1. Running("irq") /\ pc.irq = "body" /\ Retire("irq", "readPending")
    BY <1>5 DEF Body, At, Return
  <2>2. "readPending" \in IrqLabels
    BY DEF IrqLabels, MaskLabels, DriverLabels, DefaultLabels
  <2>3. pc' \in [fg : FgLabels, irq : IrqLabels]
    BY <1>0, <2>1, <2>2, IrqRetires
  <2>4. saved' = saved
    BY <1>5 DEF Body
  <2>5. TypeOK'
    BY <1>0, <1>5, <2>3, <2>4 DEF Body, device, view, TypeOK, DevicesTypeOK, FgLabels,
      IrqLabels
  <2>6. MaskInv'
    BY <1>0, <1>5, <2>1, <2>2, <2>4, IrqRetires DEF Body, device, view, MaskInv, Exclusion,
      CtrlMasked, IenMasked, CtrlSaved, IenSaved, Entries
  <2>7. RestoreInv'
    BY <1>0, <1>5, <2>1, <2>2, <2>4, IrqRetires DEF Body, device, view, RestoreInv,
      FgEnabled, FgIen, CtrlMasked, IenMasked, CtrlSaved, IenSaved, Entries
  <2> QED BY <2>5, <2>6, <2>7 DEF Inv
<1>6. CASE ReadPending("irq")
  <2>1. Running("irq") /\ pc.irq = "readPending" /\ Retire("irq", "restoreCtrl")
    BY <1>6 DEF ReadPending, At, Return
  <2>2. "restoreCtrl" \in IrqLabels
    BY DEF IrqLabels, MaskLabels, DriverLabels, DefaultLabels
  <2>3. pc' \in [fg : FgLabels, irq : IrqLabels]
    BY <1>0, <2>1, <2>2, IrqRetires
  <2>4. saved' \in [Contexts -> SavedSet] /\ saved'.fg = saved.fg /\ saved'.irq.ctrl.enabled
    = saved.irq.ctrl.enabled /\ saved'.irq.ien = saved.irq.ien
    BY <1>0, <1>6 DEF ReadPending, TypeOK, DevicesTypeOK, Contexts, SavedSet, Control
  <2>5. TypeOK'
    BY <1>0, <1>6, <2>3, <2>4 DEF ReadPending, device, view, TypeOK, DevicesTypeOK,
      FgLabels, IrqLabels
  <2>6. MaskInv'
    BY <1>0, <1>6, <2>1, <2>2, <2>4, IrqRetires DEF ReadPending, device, view, MaskInv,
      Exclusion, CtrlMasked, IenMasked, CtrlSaved, IenSaved, Entries
  <2>7. RestoreInv'
    BY <1>0, <1>6, <2>1, <2>2, <2>4, IrqRetires DEF ReadPending, device, view, RestoreInv,
      FgEnabled, FgIen, CtrlMasked, IenMasked, CtrlSaved, IenSaved, Entries
  <2> QED BY <2>5, <2>6, <2>7 DEF Inv
<1>7. CASE RestoreCtrl("irq")
  <2>1. Running("irq") /\ pc.irq = "restoreCtrl" /\ Retire("irq", "restoreIen")
    BY <1>7 DEF RestoreCtrl, At, Return
  <2>2. "restoreIen" \in IrqLabels
    BY DEF IrqLabels, MaskLabels, DriverLabels, DefaultLabels
  <2>3. pc' \in [fg : FgLabels, irq : IrqLabels]
    BY <1>0, <2>1, <2>2, IrqRetires
  <2>4. saved' = saved
    BY <1>7 DEF RestoreCtrl
  <2>5. TypeOK'
    BY <1>0, <1>7, <2>3, <2>4 DEF RestoreCtrl, WriteCtrl, device, view, TypeOK,
      DevicesTypeOK, FgLabels, IrqLabels, Control, Contexts, SavedSet
  <2>6. MaskInv'
    BY <1>0, <1>7, <2>1, <2>2, <2>4, IrqRetires DEF RestoreCtrl, WriteCtrl, device, view,
      MaskInv, Exclusion, CtrlMasked, IenMasked, CtrlSaved, IenSaved, Entries
  <2>7. RestoreInv'
    BY <1>0, <1>7, <2>1, <2>2, <2>4, IrqRetires DEF RestoreCtrl, WriteCtrl, device, view,
      RestoreInv, FgEnabled, FgIen, CtrlMasked, IenMasked, CtrlSaved, IenSaved, Entries
  <2> QED BY <2>5, <2>6, <2>7 DEF Inv
<1>8. CASE RestoreIen("irq")
  <2>1. Running("irq") /\ pc.irq = "restoreIen" /\ Retire("irq", "mret")
    BY <1>8 DEF RestoreIen, At, Return
  <2>2. "mret" \in IrqLabels
    BY DEF IrqLabels, MaskLabels, DriverLabels, DefaultLabels
  <2>3. pc' \in [fg : FgLabels, irq : IrqLabels]
    BY <1>0, <2>1, <2>2, IrqRetires
  <2>4. saved' \in [Contexts -> SavedSet] /\ saved'.fg = saved.fg
    BY <1>0, <1>8, SaveReset DEF RestoreIen, TypeOK, DevicesTypeOK, Contexts
  <2>5. TypeOK'
    BY <1>0, <1>8, <2>3, <2>4 DEF RestoreIen, WriteIen, device, view, TypeOK, DevicesTypeOK,
      FgLabels, IrqLabels, Contexts, SavedSet
  <2>6. MaskInv'
    BY <1>0, <1>8, <2>1, <2>2, <2>4, IrqRetires DEF RestoreIen, WriteIen, device, view,
      MaskInv, Exclusion, CtrlMasked, IenMasked, CtrlSaved, IenSaved, Entries
  <2>7. RestoreInv'
    BY <1>0, <1>8, <2>1, <2>2, <2>4, IrqRetires DEF RestoreIen, WriteIen, device, view,
      RestoreInv, FgEnabled, FgIen, CtrlMasked, IenMasked, CtrlSaved, IenSaved, Entries
  <2> QED BY <2>5, <2>6, <2>7 DEF Inv
<1> QED BY <1>1, <1>2, <1>3, <1>4, <1>5, <1>6, <1>7, <1>8 DEF Masked

\* The foreground's driver calls.
LEMMA FgDrivers == Inv /\ Drivers("fg") => Inv'
<1> SUFFICES ASSUME Inv, Drivers("fg") PROVE Inv'
  OBVIOUS
<1> USE DeviceAssumption
<1>0. TypeOK /\ MaskInv /\ RestoreInv /\ pc \in [fg : FgLabels, irq : IrqLabels]
  BY DEF Inv, TypeOK, FgLabels, IrqLabels
<1>1. CASE PollStatus("fg") /\ ~ctrl.received
  <2>1. Running("fg") /\ pc.fg = "pollStatus" /\ Retire("fg", "idle")
    BY <1>1 DEF PollStatus, At, Return
  <2>2. "idle" \in FgLabels
    BY DEF FgLabels, MaskLabels, DriverLabels, DefaultLabels
  <2>3. pc' \in [fg : FgLabels, irq : IrqLabels]
    BY <1>0, <2>1, <2>2, FgRetires
  <2>4. saved' = saved
    BY <1>1 DEF PollStatus
  <2>5. TypeOK'
    BY <1>0, <1>1, <2>3, <2>4 DEF PollStatus, device, view, TypeOK, DevicesTypeOK, FgLabels,
      IrqLabels
  <2>6. MaskInv'
    BY <1>0, <1>1, <2>1, <2>2, <2>4, FgRetires DEF PollStatus, device, view, MaskInv,
      Exclusion, CtrlMasked, IenMasked, CtrlSaved, IenSaved, Entries
  <2>7. RestoreInv'
    BY <1>0, <1>1, <2>1, <2>2, <2>4, FgRetires DEF PollStatus, device, view, RestoreInv,
      FgEnabled, FgIen, CtrlMasked, IenMasked, CtrlSaved, IenSaved, Entries
  <2> QED BY <2>5, <2>6, <2>7 DEF Inv
<1>2. CASE PollStatus("fg") /\ ctrl.received
  <2>1. Running("fg") /\ pc.fg = "pollStatus" /\ Retire("fg", "pollData")
    BY <1>2 DEF PollStatus, At, Return
  <2>2. "pollData" \in FgLabels
    BY DEF FgLabels, MaskLabels, DriverLabels, DefaultLabels
  <2>3. pc' \in [fg : FgLabels, irq : IrqLabels]
    BY <1>0, <2>1, <2>2, FgRetires
  <2>4. saved' \in [Contexts -> SavedSet] /\ saved'.irq = saved.irq /\ saved'.fg.ctrl = ctrl
    BY <1>0, <1>2, SaveCtrl DEF PollStatus, TypeOK, DevicesTypeOK, Contexts
  <2>5. TypeOK'
    BY <1>0, <1>2, <2>3, <2>4 DEF PollStatus, device, view, TypeOK, DevicesTypeOK, FgLabels,
      IrqLabels
  <2>6. MaskInv'
    BY <1>0, <1>2, <2>1, <2>2, <2>4, FgRetires DEF PollStatus, device, view, MaskInv,
      Exclusion, CtrlMasked, IenMasked, CtrlSaved, IenSaved, Entries
  <2>7. RestoreInv'
    BY <1>0, <1>2, <2>1, <2>2, <2>4, FgRetires DEF PollStatus, device, view, RestoreInv,
      FgEnabled, FgIen, CtrlMasked, IenMasked, CtrlSaved, IenSaved, Entries
  <2> QED BY <2>5, <2>6, <2>7 DEF Inv
<1>3. CASE PollData("fg")
  <2>1. Running("fg") /\ pc.fg = "pollData" /\ Retire("fg", "pollAck")
    BY <1>3 DEF PollData, At, Return
  <2>2. "pollAck" \in FgLabels
    BY DEF FgLabels, MaskLabels, DriverLabels, DefaultLabels
  <2>3. pc' \in [fg : FgLabels, irq : IrqLabels]
    BY <1>0, <2>1, <2>2, FgRetires
  <2>4. saved' = saved
    BY <1>3 DEF PollData
  <2>5. reads' \in [1 .. MaxBytes -> 0 .. 2]
    <3>1. CASE data \in 1 .. MaxBytes
      <4>1. reads[data] \in 0 .. 2
        BY <1>0, <3>1 DEF TypeOK
      <4>2. (IF reads[data] < 2 THEN reads[data] + 1 ELSE 2) \in 0 .. 2
        BY <4>1
      <4> QED BY <1>0, <1>3, <4>2 DEF PollData, TypeOK
    <3>2. CASE data \notin 1 .. MaxBytes
      BY <1>0, <1>3, <3>2 DEF PollData, TypeOK
    <3> QED BY <3>1, <3>2
  <2>6. TypeOK'
    BY <1>0, <1>3, <2>3, <2>4, <2>5 DEF PollData, device, view, TypeOK, DevicesTypeOK,
      FgLabels, IrqLabels
  <2>7. MaskInv'
    BY <1>0, <1>3, <2>1, <2>2, <2>4, FgRetires DEF PollData, device, view, MaskInv,
      Exclusion, CtrlMasked, IenMasked, CtrlSaved, IenSaved, Entries
  <2>8. RestoreInv'
    BY <1>0, <1>3, <2>1, <2>2, <2>4, FgRetires DEF PollData, device, view, RestoreInv,
      FgEnabled, FgIen, CtrlMasked, IenMasked, CtrlSaved, IenSaved, Entries
  <2> QED BY <2>6, <2>7, <2>8 DEF Inv
<1>4. CASE PollAck("fg")
  <2>1. Running("fg") /\ pc.fg = "pollAck" /\ Retire("fg", "idle")
    BY <1>4 DEF PollAck, At, Return
  <2>2. "idle" \in FgLabels
    BY DEF FgLabels, MaskLabels, DriverLabels, DefaultLabels
  <2>3. pc' \in [fg : FgLabels, irq : IrqLabels]
    BY <1>0, <2>1, <2>2, FgRetires
  <2>4. saved' \in [Contexts -> SavedSet] /\ saved'.irq = saved.irq
    BY <1>0, <1>4, SaveReset DEF PollAck, TypeOK, DevicesTypeOK, Contexts
  <2>5. TypeOK'
    BY <1>0, <1>4, <2>3, <2>4 DEF PollAck, WriteCtrl, device, view, TypeOK, DevicesTypeOK,
      FgLabels, IrqLabels, Control, Contexts, SavedSet
  <2>6. MaskInv'
    BY <1>0, <1>4, <2>1, <2>2, <2>4, FgRetires DEF PollAck, WriteCtrl, device, view,
      MaskInv, Exclusion, CtrlMasked, IenMasked, CtrlSaved, IenSaved, Entries
  <2>7. RestoreInv'
    BY <1>0, <1>4, <2>1, <2>2, <2>4, FgRetires DEF PollAck, WriteCtrl, device, view,
      RestoreInv, FgEnabled, FgIen, CtrlMasked, IenMasked, CtrlSaved, IenSaved, Entries
  <2> QED BY <2>5, <2>6, <2>7 DEF Inv
<1>5. CASE EdgesRising("fg")
  <2>1. Running("fg") /\ pc.fg = "edgesRising" /\ Retire("fg", "edgesFalling")
    BY <1>5 DEF EdgesRising, At, Return
  <2>2. "edgesFalling" \in FgLabels
    BY DEF FgLabels, MaskLabels, DriverLabels, DefaultLabels
  <2>3. pc' \in [fg : FgLabels, irq : IrqLabels]
    BY <1>0, <2>1, <2>2, FgRetires
  <2>4. saved' = saved
    BY <1>5 DEF EdgesRising
  <2>5. TypeOK'
    BY <1>0, <1>5, <2>3, <2>4 DEF EdgesRising, device, view, TypeOK, DevicesTypeOK,
      FgLabels, IrqLabels
  <2>6. MaskInv'
    BY <1>0, <1>5, <2>1, <2>2, <2>4, FgRetires DEF EdgesRising, device, view, MaskInv,
      Exclusion, CtrlMasked, IenMasked, CtrlSaved, IenSaved, Entries
  <2>7. RestoreInv'
    BY <1>0, <1>5, <2>1, <2>2, <2>4, FgRetires DEF EdgesRising, device, view, RestoreInv,
      FgEnabled, FgIen, CtrlMasked, IenMasked, CtrlSaved, IenSaved, Entries
  <2> QED BY <2>5, <2>6, <2>7 DEF Inv
<1>6. CASE EdgesFalling("fg")
  <2>1. Running("fg") /\ pc.fg = "edgesFalling" /\ Retire("fg", "clearRising")
    BY <1>6 DEF EdgesFalling, At, Return
  <2>2. "clearRising" \in FgLabels
    BY DEF FgLabels, MaskLabels, DriverLabels, DefaultLabels
  <2>3. pc' \in [fg : FgLabels, irq : IrqLabels]
    BY <1>0, <2>1, <2>2, FgRetires
  <2>4. saved' = saved
    BY <1>6 DEF EdgesFalling
  <2>5. TypeOK'
    BY <1>0, <1>6, <2>3, <2>4 DEF EdgesFalling, device, view, TypeOK, DevicesTypeOK,
      FgLabels, IrqLabels
  <2>6. MaskInv'
    BY <1>0, <1>6, <2>1, <2>2, <2>4, FgRetires DEF EdgesFalling, device, view, MaskInv,
      Exclusion, CtrlMasked, IenMasked, CtrlSaved, IenSaved, Entries
  <2>7. RestoreInv'
    BY <1>0, <1>6, <2>1, <2>2, <2>4, FgRetires DEF EdgesFalling, device, view, RestoreInv,
      FgEnabled, FgIen, CtrlMasked, IenMasked, CtrlSaved, IenSaved, Entries
  <2> QED BY <2>5, <2>6, <2>7 DEF Inv
<1>7. CASE ClearRising("fg")
  <2>1. Running("fg") /\ pc.fg = "clearRising" /\ Retire("fg", "clearFalling")
    BY <1>7 DEF ClearRising, At, Return
  <2>2. "clearFalling" \in FgLabels
    BY DEF FgLabels, MaskLabels, DriverLabels, DefaultLabels
  <2>3. pc' \in [fg : FgLabels, irq : IrqLabels]
    BY <1>0, <2>1, <2>2, FgRetires
  <2>4. saved' = saved
    BY <1>7 DEF ClearRising
  <2>5. TypeOK'
    BY <1>0, <1>7, <2>3, <2>4 DEF ClearRising, WriteRising, device, view, TypeOK,
      DevicesTypeOK, FgLabels, IrqLabels, Contexts, SavedSet
  <2>6. MaskInv'
    BY <1>0, <1>7, <2>1, <2>2, <2>4, FgRetires DEF ClearRising, WriteRising, device, view,
      MaskInv, Exclusion, CtrlMasked, IenMasked, CtrlSaved, IenSaved, Entries
  <2>7. RestoreInv'
    BY <1>0, <1>7, <2>1, <2>2, <2>4, FgRetires DEF ClearRising, WriteRising, device, view,
      RestoreInv, FgEnabled, FgIen, CtrlMasked, IenMasked, CtrlSaved, IenSaved, Entries
  <2> QED BY <2>5, <2>6, <2>7 DEF Inv
<1>8. CASE ClearFalling("fg")
  <2>1. Running("fg") /\ pc.fg = "clearFalling" /\ Retire("fg", "idle")
    BY <1>8 DEF ClearFalling, At, Return
  <2>2. "idle" \in FgLabels
    BY DEF FgLabels, MaskLabels, DriverLabels, DefaultLabels
  <2>3. pc' \in [fg : FgLabels, irq : IrqLabels]
    BY <1>0, <2>1, <2>2, FgRetires
  <2>4. saved' = saved
    BY <1>8 DEF ClearFalling
  <2>5. TypeOK'
    BY <1>0, <1>8, <2>3, <2>4 DEF ClearFalling, WriteFalling, device, view, TypeOK,
      DevicesTypeOK, FgLabels, IrqLabels, Contexts, SavedSet
  <2>6. MaskInv'
    BY <1>0, <1>8, <2>1, <2>2, <2>4, FgRetires DEF ClearFalling, WriteFalling, device, view,
      MaskInv, Exclusion, CtrlMasked, IenMasked, CtrlSaved, IenSaved, Entries
  <2>7. RestoreInv'
    BY <1>0, <1>8, <2>1, <2>2, <2>4, FgRetires DEF ClearFalling, WriteFalling, device, view,
      RestoreInv, FgEnabled, FgIen, CtrlMasked, IenMasked, CtrlSaved, IenSaved, Entries
  <2> QED BY <2>5, <2>6, <2>7 DEF Inv
<1> QED BY <1>1, <1>2, <1>3, <1>4, <1>5, <1>6, <1>7, <1>8 DEF Drivers

\* The callback's driver calls.
LEMMA IrqDrivers == Inv /\ Drivers("irq") => Inv'
<1> SUFFICES ASSUME Inv, Drivers("irq") PROVE Inv'
  OBVIOUS
<1> USE DeviceAssumption
<1>0. TypeOK /\ MaskInv /\ RestoreInv /\ pc \in [fg : FgLabels, irq : IrqLabels]
  BY DEF Inv, TypeOK, FgLabels, IrqLabels
<1>1. CASE PollStatus("irq") /\ ~ctrl.received
  <2>1. Running("irq") /\ pc.irq = "pollStatus" /\ Retire("irq", "mret")
    BY <1>1 DEF PollStatus, At, Return
  <2>2. "mret" \in IrqLabels
    BY DEF IrqLabels, MaskLabels, DriverLabels, DefaultLabels
  <2>3. pc' \in [fg : FgLabels, irq : IrqLabels]
    BY <1>0, <2>1, <2>2, IrqRetires
  <2>4. saved' = saved
    BY <1>1 DEF PollStatus
  <2>5. TypeOK'
    BY <1>0, <1>1, <2>3, <2>4 DEF PollStatus, device, view, TypeOK, DevicesTypeOK, FgLabels,
      IrqLabels
  <2>6. MaskInv'
    BY <1>0, <1>1, <2>1, <2>2, <2>4, IrqRetires DEF PollStatus, device, view, MaskInv,
      Exclusion, CtrlMasked, IenMasked, CtrlSaved, IenSaved, Entries
  <2>7. RestoreInv'
    BY <1>0, <1>1, <2>1, <2>2, <2>4, IrqRetires DEF PollStatus, device, view, RestoreInv,
      FgEnabled, FgIen, CtrlMasked, IenMasked, CtrlSaved, IenSaved, Entries
  <2> QED BY <2>5, <2>6, <2>7 DEF Inv
<1>2. CASE PollStatus("irq") /\ ctrl.received
  <2>1. Running("irq") /\ pc.irq = "pollStatus" /\ Retire("irq", "pollData")
    BY <1>2 DEF PollStatus, At, Return
  <2>2. "pollData" \in IrqLabels
    BY DEF IrqLabels, MaskLabels, DriverLabels, DefaultLabels
  <2>3. pc' \in [fg : FgLabels, irq : IrqLabels]
    BY <1>0, <2>1, <2>2, IrqRetires
  <2>4. saved' \in [Contexts -> SavedSet] /\ saved'.fg = saved.fg /\ saved'.irq.ctrl = ctrl
    BY <1>0, <1>2, SaveCtrl DEF PollStatus, TypeOK, DevicesTypeOK, Contexts
  <2>5. TypeOK'
    BY <1>0, <1>2, <2>3, <2>4 DEF PollStatus, device, view, TypeOK, DevicesTypeOK, FgLabels,
      IrqLabels
  <2>6. MaskInv'
    BY <1>0, <1>2, <2>1, <2>2, <2>4, IrqRetires DEF PollStatus, device, view, MaskInv,
      Exclusion, CtrlMasked, IenMasked, CtrlSaved, IenSaved, Entries
  <2>7. RestoreInv'
    BY <1>0, <1>2, <2>1, <2>2, <2>4, IrqRetires DEF PollStatus, device, view, RestoreInv,
      FgEnabled, FgIen, CtrlMasked, IenMasked, CtrlSaved, IenSaved, Entries
  <2> QED BY <2>5, <2>6, <2>7 DEF Inv
<1>3. CASE PollData("irq")
  <2>1. Running("irq") /\ pc.irq = "pollData" /\ Retire("irq", "pollAck")
    BY <1>3 DEF PollData, At, Return
  <2>2. "pollAck" \in IrqLabels
    BY DEF IrqLabels, MaskLabels, DriverLabels, DefaultLabels
  <2>3. pc' \in [fg : FgLabels, irq : IrqLabels]
    BY <1>0, <2>1, <2>2, IrqRetires
  <2>4. saved' = saved
    BY <1>3 DEF PollData
  <2>5. reads' \in [1 .. MaxBytes -> 0 .. 2]
    <3>1. CASE data \in 1 .. MaxBytes
      <4>1. reads[data] \in 0 .. 2
        BY <1>0, <3>1 DEF TypeOK
      <4>2. (IF reads[data] < 2 THEN reads[data] + 1 ELSE 2) \in 0 .. 2
        BY <4>1
      <4> QED BY <1>0, <1>3, <4>2 DEF PollData, TypeOK
    <3>2. CASE data \notin 1 .. MaxBytes
      BY <1>0, <1>3, <3>2 DEF PollData, TypeOK
    <3> QED BY <3>1, <3>2
  <2>6. TypeOK'
    BY <1>0, <1>3, <2>3, <2>4, <2>5 DEF PollData, device, view, TypeOK, DevicesTypeOK,
      FgLabels, IrqLabels
  <2>7. MaskInv'
    BY <1>0, <1>3, <2>1, <2>2, <2>4, IrqRetires DEF PollData, device, view, MaskInv,
      Exclusion, CtrlMasked, IenMasked, CtrlSaved, IenSaved, Entries
  <2>8. RestoreInv'
    BY <1>0, <1>3, <2>1, <2>2, <2>4, IrqRetires DEF PollData, device, view, RestoreInv,
      FgEnabled, FgIen, CtrlMasked, IenMasked, CtrlSaved, IenSaved, Entries
  <2> QED BY <2>6, <2>7, <2>8 DEF Inv
<1>4. CASE PollAck("irq")
  <2>1. Running("irq") /\ pc.irq = "pollAck" /\ Retire("irq", "mret")
    BY <1>4 DEF PollAck, At, Return
  <2>2. "mret" \in IrqLabels
    BY DEF IrqLabels, MaskLabels, DriverLabels, DefaultLabels
  <2>3. pc' \in [fg : FgLabels, irq : IrqLabels]
    BY <1>0, <2>1, <2>2, IrqRetires
  <2>4. saved' \in [Contexts -> SavedSet] /\ saved'.fg = saved.fg
    BY <1>0, <1>4, SaveReset DEF PollAck, TypeOK, DevicesTypeOK, Contexts
  <2>5. TypeOK'
    BY <1>0, <1>4, <2>3, <2>4 DEF PollAck, WriteCtrl, device, view, TypeOK, DevicesTypeOK,
      FgLabels, IrqLabels, Control, Contexts, SavedSet
  <2>6. MaskInv'
    BY <1>0, <1>4, <2>1, <2>2, <2>4, IrqRetires DEF PollAck, WriteCtrl, device, view,
      MaskInv, Exclusion, CtrlMasked, IenMasked, CtrlSaved, IenSaved, Entries
  <2>7. RestoreInv'
    BY <1>0, <1>4, <2>1, <2>2, <2>4, IrqRetires DEF PollAck, WriteCtrl, device, view,
      RestoreInv, FgEnabled, FgIen, CtrlMasked, IenMasked, CtrlSaved, IenSaved, Entries
  <2> QED BY <2>5, <2>6, <2>7 DEF Inv
<1>5. CASE EdgesRising("irq")
  <2>1. Running("irq") /\ pc.irq = "edgesRising" /\ Retire("irq", "edgesFalling")
    BY <1>5 DEF EdgesRising, At, Return
  <2>2. "edgesFalling" \in IrqLabels
    BY DEF IrqLabels, MaskLabels, DriverLabels, DefaultLabels
  <2>3. pc' \in [fg : FgLabels, irq : IrqLabels]
    BY <1>0, <2>1, <2>2, IrqRetires
  <2>4. saved' = saved
    BY <1>5 DEF EdgesRising
  <2>5. TypeOK'
    BY <1>0, <1>5, <2>3, <2>4 DEF EdgesRising, device, view, TypeOK, DevicesTypeOK,
      FgLabels, IrqLabels
  <2>6. MaskInv'
    BY <1>0, <1>5, <2>1, <2>2, <2>4, IrqRetires DEF EdgesRising, device, view, MaskInv,
      Exclusion, CtrlMasked, IenMasked, CtrlSaved, IenSaved, Entries
  <2>7. RestoreInv'
    BY <1>0, <1>5, <2>1, <2>2, <2>4, IrqRetires DEF EdgesRising, device, view, RestoreInv,
      FgEnabled, FgIen, CtrlMasked, IenMasked, CtrlSaved, IenSaved, Entries
  <2> QED BY <2>5, <2>6, <2>7 DEF Inv
<1>6. CASE EdgesFalling("irq")
  <2>1. Running("irq") /\ pc.irq = "edgesFalling" /\ Retire("irq", "clearRising")
    BY <1>6 DEF EdgesFalling, At, Return
  <2>2. "clearRising" \in IrqLabels
    BY DEF IrqLabels, MaskLabels, DriverLabels, DefaultLabels
  <2>3. pc' \in [fg : FgLabels, irq : IrqLabels]
    BY <1>0, <2>1, <2>2, IrqRetires
  <2>4. saved' = saved
    BY <1>6 DEF EdgesFalling
  <2>5. TypeOK'
    BY <1>0, <1>6, <2>3, <2>4 DEF EdgesFalling, device, view, TypeOK, DevicesTypeOK,
      FgLabels, IrqLabels
  <2>6. MaskInv'
    BY <1>0, <1>6, <2>1, <2>2, <2>4, IrqRetires DEF EdgesFalling, device, view, MaskInv,
      Exclusion, CtrlMasked, IenMasked, CtrlSaved, IenSaved, Entries
  <2>7. RestoreInv'
    BY <1>0, <1>6, <2>1, <2>2, <2>4, IrqRetires DEF EdgesFalling, device, view, RestoreInv,
      FgEnabled, FgIen, CtrlMasked, IenMasked, CtrlSaved, IenSaved, Entries
  <2> QED BY <2>5, <2>6, <2>7 DEF Inv
<1>7. CASE ClearRising("irq")
  <2>1. Running("irq") /\ pc.irq = "clearRising" /\ Retire("irq", "clearFalling")
    BY <1>7 DEF ClearRising, At, Return
  <2>2. "clearFalling" \in IrqLabels
    BY DEF IrqLabels, MaskLabels, DriverLabels, DefaultLabels
  <2>3. pc' \in [fg : FgLabels, irq : IrqLabels]
    BY <1>0, <2>1, <2>2, IrqRetires
  <2>4. saved' = saved
    BY <1>7 DEF ClearRising
  <2>5. TypeOK'
    BY <1>0, <1>7, <2>3, <2>4 DEF ClearRising, WriteRising, device, view, TypeOK,
      DevicesTypeOK, FgLabels, IrqLabels, Contexts, SavedSet
  <2>6. MaskInv'
    BY <1>0, <1>7, <2>1, <2>2, <2>4, IrqRetires DEF ClearRising, WriteRising, device, view,
      MaskInv, Exclusion, CtrlMasked, IenMasked, CtrlSaved, IenSaved, Entries
  <2>7. RestoreInv'
    BY <1>0, <1>7, <2>1, <2>2, <2>4, IrqRetires DEF ClearRising, WriteRising, device, view,
      RestoreInv, FgEnabled, FgIen, CtrlMasked, IenMasked, CtrlSaved, IenSaved, Entries
  <2> QED BY <2>5, <2>6, <2>7 DEF Inv
<1>8. CASE ClearFalling("irq")
  <2>1. Running("irq") /\ pc.irq = "clearFalling" /\ Retire("irq", "mret")
    BY <1>8 DEF ClearFalling, At, Return
  <2>2. "mret" \in IrqLabels
    BY DEF IrqLabels, MaskLabels, DriverLabels, DefaultLabels
  <2>3. pc' \in [fg : FgLabels, irq : IrqLabels]
    BY <1>0, <2>1, <2>2, IrqRetires
  <2>4. saved' = saved
    BY <1>8 DEF ClearFalling
  <2>5. TypeOK'
    BY <1>0, <1>8, <2>3, <2>4 DEF ClearFalling, WriteFalling, device, view, TypeOK,
      DevicesTypeOK, FgLabels, IrqLabels, Contexts, SavedSet
  <2>6. MaskInv'
    BY <1>0, <1>8, <2>1, <2>2, <2>4, IrqRetires DEF ClearFalling, WriteFalling, device,
      view, MaskInv, Exclusion, CtrlMasked, IenMasked, CtrlSaved, IenSaved, Entries
  <2>7. RestoreInv'
    BY <1>0, <1>8, <2>1, <2>2, <2>4, IrqRetires DEF ClearFalling, WriteFalling, device,
      view, RestoreInv, FgEnabled, FgIen, CtrlMasked, IenMasked, CtrlSaved, IenSaved,
      Entries
  <2> QED BY <2>5, <2>6, <2>7 DEF Inv
<1> QED BY <1>1, <1>2, <1>3, <1>4, <1>5, <1>6, <1>7, <1>8 DEF Drivers

\* The foreground chooses its sources: what want records is what the register holds.
LEMMA FgConfigure == Inv /\ Configure => Inv'
<1> SUFFICES ASSUME Inv, Configure PROVE Inv'
  OBVIOUS
<1> USE DeviceAssumption
<1>0. TypeOK /\ MaskInv /\ RestoreInv /\ pc \in [fg : FgLabels, irq : IrqLabels]
  BY DEF Inv, TypeOK, FgLabels, IrqLabels
<1>1. CASE SetRead
  <2>1. Running("fg") /\ pc.fg = "setRead" /\ Retire("fg", "setWrite")
    BY <1>1 DEF SetRead, At, Return
  <2>2. "setWrite" \in FgLabels
    BY DEF FgLabels, MaskLabels, DriverLabels, DefaultLabels
  <2>3. pc' \in [fg : FgLabels, irq : IrqLabels]
    BY <1>0, <2>1, <2>2, FgRetires
  <2>4. saved' \in [Contexts -> SavedSet] /\ saved'.irq = saved.irq
    BY <1>0, <1>1, SaveCtrl DEF SetRead, TypeOK, DevicesTypeOK, Contexts, Control
  <2>5. TypeOK'
    BY <1>0, <1>1, <2>3, <2>4 DEF SetRead, device, view, TypeOK, DevicesTypeOK, FgLabels,
      IrqLabels
  <2>6. MaskInv'
    BY <1>0, <1>1, <2>1, <2>2, <2>4, FgRetires DEF SetRead, device, view, MaskInv,
      Exclusion, CtrlMasked, IenMasked, CtrlSaved, IenSaved, Entries
  <2>7. RestoreInv'
    BY <1>0, <1>1, <2>1, <2>2, <2>4, FgRetires DEF SetRead, device, view, RestoreInv,
      FgEnabled, FgIen, CtrlMasked, IenMasked, CtrlSaved, IenSaved, Entries
  <2> QED BY <2>5, <2>6, <2>7 DEF Inv
<1>2. CASE SetWrite
  <2>1. Running("fg") /\ pc.fg = "setWrite" /\ Retire("fg", "idle")
    BY <1>2 DEF SetWrite, At, Return
  <2>2. "idle" \in FgLabels
    BY DEF FgLabels, MaskLabels, DriverLabels, DefaultLabels
  <2>3. pc' \in [fg : FgLabels, irq : IrqLabels]
    BY <1>0, <2>1, <2>2, FgRetires
  <2>4. saved' \in [Contexts -> SavedSet] /\ saved'.irq = saved.irq
    BY <1>0, <1>2, SaveReset DEF SetWrite, TypeOK, DevicesTypeOK, Contexts
  <2>5. want'.enabled = saved.fg.ctrl.enabled /\ want'.ien = want.ien /\ want'.silenced =
    want.silenced /\ want' \in [enabled : BOOLEAN, ien : SUBSET Pins, silenced : BOOLEAN]
    BY <1>0, <1>2 DEF SetWrite, WriteCtrl, TypeOK, Contexts, SavedSet, Control
  <2>6. TypeOK'
    BY <1>0, <1>2, <2>3, <2>4, <2>5 DEF SetWrite, WriteCtrl, device, view, TypeOK,
      DevicesTypeOK, FgLabels, IrqLabels, Control, Contexts, SavedSet
  <2>7. MaskInv'
    BY <1>0, <1>2, <2>1, <2>2, <2>4, <2>5, FgRetires DEF SetWrite, WriteCtrl, device, view,
      MaskInv, Exclusion, CtrlMasked, IenMasked, CtrlSaved, IenSaved, Entries
  <2>8. RestoreInv'
    BY <1>0, <1>2, <2>1, <2>2, <2>4, <2>5, FgRetires DEF SetWrite, WriteCtrl, device, view,
      RestoreInv, FgEnabled, FgIen, CtrlMasked, IenMasked, CtrlSaved, IenSaved, Entries
  <2> QED BY <2>6, <2>7, <2>8 DEF Inv
<1>3. CASE SetMask
  <2>1. Running("fg") /\ pc.fg = "setMask" /\ Retire("fg", "idle")
    BY <1>3 DEF SetMask, At, Return
  <2>2. "idle" \in FgLabels
    BY DEF FgLabels, MaskLabels, DriverLabels, DefaultLabels
  <2>3. pc' \in [fg : FgLabels, irq : IrqLabels]
    BY <1>0, <2>1, <2>2, FgRetires
  <2>4. saved' = saved
    BY <1>3 DEF SetMask
  <2>5. want'.ien = ien' /\ want'.enabled = want.enabled /\ want'.silenced = want.silenced
    /\ want' \in [enabled : BOOLEAN, ien : SUBSET Pins, silenced : BOOLEAN] /\ ien'
    \subseteq Pins
    BY <1>0, <1>3 DEF SetMask, WriteIen, TypeOK
  <2>6. TypeOK'
    BY <1>0, <1>3, <2>3, <2>4, <2>5 DEF SetMask, WriteIen, device, view, TypeOK,
      DevicesTypeOK, FgLabels, IrqLabels, Contexts, SavedSet
  <2>7. MaskInv'
    BY <1>0, <1>3, <2>1, <2>2, <2>4, <2>5, FgRetires DEF SetMask, WriteIen, device, view,
      MaskInv, Exclusion, CtrlMasked, IenMasked, CtrlSaved, IenSaved, Entries
  <2>8. RestoreInv'
    BY <1>0, <1>3, <2>1, <2>2, <2>4, <2>5, FgRetires DEF SetMask, WriteIen, device, view,
      RestoreInv, FgEnabled, FgIen, CtrlMasked, IenMasked, CtrlSaved, IenSaved, Entries
  <2> QED BY <2>6, <2>7, <2>8 DEF Inv
<1> QED BY <1>1, <1>2, <1>3 DEF Configure

\* The foreground acknowledges edges.
LEMMA FgAcknowledge == Inv /\ Acknowledge => Inv'
<1> SUFFICES ASSUME Inv, Acknowledge PROVE Inv'
  OBVIOUS
<1> USE DeviceAssumption
<1>0. TypeOK /\ MaskInv /\ RestoreInv /\ pc \in [fg : FgLabels, irq : IrqLabels]
  BY DEF Inv, TypeOK, FgLabels, IrqLabels
<1>1. CASE AckReadRising
  <2>1. Running("fg") /\ pc.fg = "ackReadRising" /\ Retire("fg", "ackRising")
    BY <1>1 DEF AckReadRising, At, Return
  <2>2. "ackRising" \in FgLabels
    BY DEF FgLabels, MaskLabels, DriverLabels, DefaultLabels
  <2>3. pc' \in [fg : FgLabels, irq : IrqLabels]
    BY <1>0, <2>1, <2>2, FgRetires
  <2>4. saved' \in [Contexts -> SavedSet] /\ saved'.irq = saved.irq
    BY <1>0, <1>1, SaveEdges DEF AckReadRising, Save, TypeOK, DevicesTypeOK, Contexts
  <2>5. TypeOK'
    BY <1>0, <1>1, <2>3, <2>4 DEF AckReadRising, device, view, TypeOK, DevicesTypeOK,
      FgLabels, IrqLabels
  <2>6. MaskInv'
    BY <1>0, <1>1, <2>1, <2>2, <2>4, FgRetires DEF AckReadRising, device, view, MaskInv,
      Exclusion, CtrlMasked, IenMasked, CtrlSaved, IenSaved, Entries
  <2>7. RestoreInv'
    BY <1>0, <1>1, <2>1, <2>2, <2>4, FgRetires DEF AckReadRising, device, view, RestoreInv,
      FgEnabled, FgIen, CtrlMasked, IenMasked, CtrlSaved, IenSaved, Entries
  <2> QED BY <2>5, <2>6, <2>7 DEF Inv
<1>2. CASE AckRising
  <2>1. Running("fg") /\ pc.fg = "ackRising" /\ Retire("fg", "ackReadFalling")
    BY <1>2 DEF AckRising, At, Return
  <2>2. "ackReadFalling" \in FgLabels
    BY DEF FgLabels, MaskLabels, DriverLabels, DefaultLabels
  <2>3. pc' \in [fg : FgLabels, irq : IrqLabels]
    BY <1>0, <2>1, <2>2, FgRetires
  <2>4. saved' = saved
    BY <1>2 DEF AckRising
  <2>5. TypeOK'
    BY <1>0, <1>2, <2>3, <2>4 DEF AckRising, WriteRising, device, view, TypeOK,
      DevicesTypeOK, FgLabels, IrqLabels, Contexts, SavedSet
  <2>6. MaskInv'
    BY <1>0, <1>2, <2>1, <2>2, <2>4, FgRetires DEF AckRising, WriteRising, device, view,
      MaskInv, Exclusion, CtrlMasked, IenMasked, CtrlSaved, IenSaved, Entries
  <2>7. RestoreInv'
    BY <1>0, <1>2, <2>1, <2>2, <2>4, FgRetires DEF AckRising, WriteRising, device, view,
      RestoreInv, FgEnabled, FgIen, CtrlMasked, IenMasked, CtrlSaved, IenSaved, Entries
  <2> QED BY <2>5, <2>6, <2>7 DEF Inv
<1>3. CASE AckReadFalling
  <2>1. Running("fg") /\ pc.fg = "ackReadFalling" /\ Retire("fg", "ackFalling")
    BY <1>3 DEF AckReadFalling, At, Return
  <2>2. "ackFalling" \in FgLabels
    BY DEF FgLabels, MaskLabels, DriverLabels, DefaultLabels
  <2>3. pc' \in [fg : FgLabels, irq : IrqLabels]
    BY <1>0, <2>1, <2>2, FgRetires
  <2>4. saved' \in [Contexts -> SavedSet] /\ saved'.irq = saved.irq
    BY <1>0, <1>3, SaveEdges DEF AckReadFalling, Save, TypeOK, DevicesTypeOK, Contexts
  <2>5. TypeOK'
    BY <1>0, <1>3, <2>3, <2>4 DEF AckReadFalling, device, view, TypeOK, DevicesTypeOK,
      FgLabels, IrqLabels
  <2>6. MaskInv'
    BY <1>0, <1>3, <2>1, <2>2, <2>4, FgRetires DEF AckReadFalling, device, view, MaskInv,
      Exclusion, CtrlMasked, IenMasked, CtrlSaved, IenSaved, Entries
  <2>7. RestoreInv'
    BY <1>0, <1>3, <2>1, <2>2, <2>4, FgRetires DEF AckReadFalling, device, view, RestoreInv,
      FgEnabled, FgIen, CtrlMasked, IenMasked, CtrlSaved, IenSaved, Entries
  <2> QED BY <2>5, <2>6, <2>7 DEF Inv
<1>4. CASE AckFalling
  <2>1. Running("fg") /\ pc.fg = "ackFalling" /\ Retire("fg", "idle")
    BY <1>4 DEF AckFalling, At, Return
  <2>2. "idle" \in FgLabels
    BY DEF FgLabels, MaskLabels, DriverLabels, DefaultLabels
  <2>3. pc' \in [fg : FgLabels, irq : IrqLabels]
    BY <1>0, <2>1, <2>2, FgRetires
  <2>4. saved' \in [Contexts -> SavedSet] /\ saved'.irq = saved.irq
    BY <1>0, <1>4, SaveReset DEF AckFalling, TypeOK, DevicesTypeOK, Contexts
  <2>5. TypeOK'
    BY <1>0, <1>4, <2>3, <2>4 DEF AckFalling, WriteFalling, device, view, TypeOK,
      DevicesTypeOK, FgLabels, IrqLabels, Contexts, SavedSet
  <2>6. MaskInv'
    BY <1>0, <1>4, <2>1, <2>2, <2>4, FgRetires DEF AckFalling, WriteFalling, device, view,
      MaskInv, Exclusion, CtrlMasked, IenMasked, CtrlSaved, IenSaved, Entries
  <2>7. RestoreInv'
    BY <1>0, <1>4, <2>1, <2>2, <2>4, FgRetires DEF AckFalling, WriteFalling, device, view,
      RestoreInv, FgEnabled, FgIen, CtrlMasked, IenMasked, CtrlSaved, IenSaved, Entries
  <2> QED BY <2>5, <2>6, <2>7 DEF Inv
<1> QED BY <1>1, <1>2, <1>3, <1>4 DEF Acknowledge

\* The default callback.
LEMMA IrqDefault == Inv /\ Default => Inv'
<1> SUFFICES ASSUME Inv, Default PROVE Inv'
  OBVIOUS
<1> USE DeviceAssumption
<1>0. TypeOK /\ MaskInv /\ RestoreInv /\ pc \in [fg : FgLabels, irq : IrqLabels]
  BY DEF Inv, TypeOK, FgLabels, IrqLabels
<1>1. CASE DefaultRead
  <2>1. Running("irq") /\ pc.irq = "defaultRead" /\ Retire("irq", "defaultCtrl")
    BY <1>1 DEF DefaultRead, At, Return
  <2>2. "defaultCtrl" \in IrqLabels
    BY DEF IrqLabels, MaskLabels, DriverLabels, DefaultLabels
  <2>3. pc' \in [fg : FgLabels, irq : IrqLabels]
    BY <1>0, <2>1, <2>2, IrqRetires
  <2>4. saved' \in [Contexts -> SavedSet] /\ saved'.fg = saved.fg /\ saved'.irq.ctrl = ctrl
    BY <1>0, <1>1, SaveCtrl DEF DefaultRead, TypeOK, DevicesTypeOK, Contexts
  <2>5. TypeOK'
    BY <1>0, <1>1, <2>3, <2>4 DEF DefaultRead, device, view, TypeOK, DevicesTypeOK,
      FgLabels, IrqLabels
  <2>6. MaskInv'
    BY <1>0, <1>1, <2>1, <2>2, <2>4, IrqRetires DEF DefaultRead, device, view, MaskInv,
      Exclusion, CtrlMasked, IenMasked, CtrlSaved, IenSaved, Entries
  <2>7. RestoreInv'
    BY <1>0, <1>1, <2>1, <2>2, <2>4, IrqRetires DEF DefaultRead, device, view, RestoreInv,
      FgEnabled, FgIen, CtrlMasked, IenMasked, CtrlSaved, IenSaved, Entries
  <2> QED BY <2>5, <2>6, <2>7 DEF Inv
<1>2. CASE DefaultCtrl
  <2>1. Running("irq") /\ pc.irq = "defaultCtrl" /\ Retire("irq", "defaultIen")
    BY <1>2 DEF DefaultCtrl, At, Return
  <2>2. "defaultIen" \in IrqLabels
    BY DEF IrqLabels, MaskLabels, DriverLabels, DefaultLabels
  <2>3. pc' \in [fg : FgLabels, irq : IrqLabels]
    BY <1>0, <2>1, <2>2, IrqRetires
  <2>4. saved' \in [Contexts -> SavedSet] /\ saved'.fg = saved.fg
    BY <1>0, <1>2, SaveReset DEF DefaultCtrl, TypeOK, DevicesTypeOK, Contexts
  <2>5. TypeOK'
    BY <1>0, <1>2, <2>3, <2>4 DEF DefaultCtrl, WriteCtrl, device, view, TypeOK,
      DevicesTypeOK, FgLabels, IrqLabels, Control, Contexts, SavedSet
  <2>6. MaskInv'
    BY <1>0, <1>2, <2>1, <2>2, <2>4, IrqRetires DEF DefaultCtrl, WriteCtrl, Pending, device,
      view, MaskInv, Exclusion, CtrlMasked, IenMasked, CtrlSaved, IenSaved, Entries
  <2>7. RestoreInv'
    BY <1>0, <1>2, <2>1, <2>2, <2>4, IrqRetires DEF DefaultCtrl, WriteCtrl, Pending, device,
      view, RestoreInv, FgEnabled, FgIen, CtrlMasked, IenMasked, CtrlSaved, IenSaved,
      Entries
  <2> QED BY <2>5, <2>6, <2>7 DEF Inv
<1>3. CASE DefaultIen
  <2>1. Running("irq") /\ pc.irq = "defaultIen" /\ Retire("irq", "mret")
    BY <1>3 DEF DefaultIen, At, Return
  <2>2. "mret" \in IrqLabels
    BY DEF IrqLabels, MaskLabels, DriverLabels, DefaultLabels
  <2>3. pc' \in [fg : FgLabels, irq : IrqLabels]
    BY <1>0, <2>1, <2>2, IrqRetires
  <2>4. saved' = saved
    BY <1>3 DEF DefaultIen
  <2>5. want'.silenced /\ want' \in [enabled : BOOLEAN, ien : SUBSET Pins, silenced :
    BOOLEAN]
    BY <1>0, <1>3 DEF DefaultIen, WriteIen, TypeOK
  <2>6. TypeOK'
    BY <1>0, <1>3, <2>3, <2>4, <2>5 DEF DefaultIen, WriteIen, device, view, TypeOK,
      DevicesTypeOK, FgLabels, IrqLabels, Contexts, SavedSet
  <2>7. MaskInv'
    BY <1>0, <1>3, <2>1, <2>2, <2>4, <2>5, IrqRetires DEF DefaultIen, WriteIen, Pending,
      device, view, MaskInv, Exclusion, CtrlMasked, IenMasked, CtrlSaved, IenSaved, Entries
  <2>8. RestoreInv'
    BY <1>0, <1>3, <2>1, <2>2, <2>4, <2>5, IrqRetires DEF DefaultIen, WriteIen, Pending,
      device, view, RestoreInv, FgEnabled, FgIen, CtrlMasked, IenMasked, CtrlSaved,
      IenSaved, Entries
  <2> QED BY <2>6, <2>7, <2>8 DEF Inv
<1> QED BY <1>1, <1>2, <1>3 DEF Default


\* Leaving the callback, entering an operation and a foreground instruction without an access.
LEMMA Others == Inv /\ (Mret \/ Begin \/ Tick) => Inv'
<1> SUFFICES ASSUME Inv, Mret \/ Begin \/ Tick PROVE Inv'
  OBVIOUS
<1>0. TypeOK /\ MaskInv /\ RestoreInv /\ pc \in [fg : FgLabels, irq : IrqLabels]
  BY DEF Inv, TypeOK, FgLabels, IrqLabels
<1>1. UNCHANGED <<device, saved, view>>
  BY DEF Mret, Begin, Tick
<1>2. ASSUME pc' \in [fg : FgLabels, irq : IrqLabels], MaskInv', RestoreInv'
      PROVE  Inv'
  BY <1>0, <1>1, <1>2
  DEF Inv, TypeOK, DevicesTypeOK, device, view, FgLabels, IrqLabels
<1>3. CASE Mret
  <2>1. pc.irq = "mret" /\ pc' = [fg |-> pc.fg, irq |-> "none"]
    BY <1>0, <1>3 DEF Mret, At
  <2>2. pc' \in [fg : FgLabels, irq : IrqLabels]
    BY <1>0, <2>1 DEF IrqLabels
  <2>3. MaskInv' /\ RestoreInv'
    BY <1>0, <1>1, <2>1 DEF device, view, MaskInv, RestoreInv, Exclusion, FgEnabled, FgIen,
      CtrlMasked, IenMasked, CtrlSaved, IenSaved
  <2> QED BY <1>2, <2>2, <2>3
<1>4. CASE Begin
  <2>1. PICK op \in FgOps : Retire("fg", FgEntry[op])
    BY <1>4 DEF Begin
  <2>2. FgEntry[op] \in {"maskReadCtrl", "setRead", "setMask", "ackReadRising", "pollStatus"}
    BY RuntimeAssumption DEF FgEntry
  <2>3. Running("fg") /\ pc.fg = "idle" /\ FgEntry[op] \in FgLabels
    BY <1>4, <2>2 DEF Begin, At, FgLabels, MaskLabels, DriverLabels
  <2>4. pc' \in [fg : FgLabels, irq : IrqLabels]
    BY <1>0, <2>1, <2>3, FgRetires
  <2>5. MaskInv' /\ RestoreInv'
    BY <1>0, <1>1, <2>1, <2>2, <2>3, FgRetires DEF device, view, MaskInv, RestoreInv,
      Exclusion, FgEnabled, FgIen, CtrlMasked, IenMasked, CtrlSaved, IenSaved, Entries
  <2> QED BY <1>2, <2>4, <2>5
<1>5. CASE Tick
  <2>1. Running("fg") /\ Pending /\ Retire("fg", pc.fg) /\ pc.fg \in FgLabels
    BY <1>0, <1>5 DEF Tick
  <2>2. pc' \in [fg : FgLabels, irq : IrqLabels]
    BY <1>0, <2>1, FgRetires
  <2>3. pc.fg # "body"
    BY <1>0, <2>1 DEF MaskInv, Pending, CtrlMasked, IenMasked
  <2>4. MaskInv' /\ RestoreInv'
    BY <1>0, <1>1, <2>1, <2>3, FgRetires DEF device, view, MaskInv, RestoreInv, Exclusion,
      FgEnabled, FgIen, CtrlMasked, IenMasked, CtrlSaved, IenSaved, Entries
  <2> QED BY <1>2, <2>2, <2>4
<1> QED BY <1>3, <1>4, <1>5

\* The outside world moves neither the enable bit, the mask nor a program.
LEMMA World == Inv /\ (Arrive \/ Edge) => Inv'
<1> SUFFICES ASSUME Inv, Arrive \/ Edge PROVE Inv'
  OBVIOUS
<1> USE DeviceAssumption
<1>1. TypeOK /\ UNCHANGED <<cpu, want, ien>> /\ ctrl' \in Control /\ ctrl'.enabled = ctrl.enabled
  <2>1. CASE Arrive
    BY <2>1 DEF Arrive, Receive, Inv, TypeOK, DevicesTypeOK, Control
  <2>2. CASE Edge
    BY <2>2 DEF Edge, Toggle, Inv, TypeOK, DevicesTypeOK, Control, cpu, view
  <2> QED BY <2>1, <2>2
<1>2. TypeOK'
  <2>1. CASE Arrive
    <3>1. data' \in 1 .. MaxBytes
      BY <1>1, <2>1 DEF Arrive, Receive, TypeOK, DevicesTypeOK
    <3> QED BY <1>1, <2>1, <3>1 DEF Arrive, Receive, TypeOK, DevicesTypeOK, cpu
  <2>2. CASE Edge
    BY <1>1, <2>2 DEF Edge, Toggle, TypeOK, DevicesTypeOK, cpu, view
  <2> QED BY <2>1, <2>2
<1>3. MaskInv' /\ RestoreInv'
  BY <1>1 DEF Inv, cpu, MaskInv, RestoreInv, Exclusion, FgEnabled, FgIen,
    CtrlMasked, IenMasked, CtrlSaved, IenSaved
<1> QED BY <1>2, <1>3 DEF Inv

LEMMA StepInv == Inv /\ [Next]_vars => Inv'
<1> SUFFICES ASSUME Inv, [Next]_vars PROVE Inv'
  OBVIOUS
<1>1. CASE FgStep
  BY <1>1, FgMasked, FgDrivers, FgConfigure, FgAcknowledge DEF FgStep
<1>2. CASE IrqStep
  BY <1>2, IrqMasked, IrqDrivers, IrqDefault, Others DEF IrqStep
<1>3. CASE Begin \/ Tick \/ Arrive \/ Edge
  BY <1>3, Others, World
<1>4. CASE UNCHANGED vars
  <2>1. TypeOK'
    BY <1>4 DEF vars, device, cpu, view, Inv, TypeOK, DevicesTypeOK
  <2>2. MaskInv' /\ RestoreInv'
    BY <1>4 DEF vars, device, cpu, view, Inv, MaskInv, RestoreInv, Exclusion, FgEnabled, FgIen
  <2> QED BY <2>1, <2>2 DEF Inv
<1> QED BY <1>1, <1>2, <1>3, <1>4 DEF Next, Cpu

-----------------------------------------------------------------------------
(* Theorems *)

\* In every reachable state the types, the masks and the saved registers agree with the
\* positions of the two programs.
THEOREM RuntimeInvariance == Spec => []Inv
BY InitInv, StepInv, PTL DEF Spec

\* Every register, program position and ghost keeps its type.
THEOREM RuntimeTypeCorrect == Spec => []TypeOK
<1>1. Inv => TypeOK BY DEF Inv
<1> QED BY <1>1, RuntimeInvariance, PTL

\* with_device_irqs_masked: the callback never runs while the foreground holds the
\* allocator's state, whichever interrupts arrive and whatever the callback does.
THEOREM MaskExcludes == Spec => []Exclusion
<1>1. Inv => Exclusion BY DEF Inv, MaskInv
<1> QED BY <1>1, RuntimeInvariance, PTL

\* with_device_irqs_masked: after a masked access the interrupt sources are those the
\* foreground configured, through any number of callbacks that allocate themselves.
THEOREM SourcesRestored == Spec => []MasksRestored
<1>1. Inv => MasksRestored
  BY DEF Inv, TypeOK, DevicesTypeOK, Control, RestoreInv, MasksRestored, FgEnabled, FgIen,
    CtrlMasked, IenMasked
<1> QED BY <1>1, RuntimeInvariance, PTL

\* __libos_default_irq: the default callback lowers the request line before it returns.
THEOREM DefaultLowersRequest == Spec => DefaultSilences
<1>1. Inv /\ [Next]_vars => [DefaultIen => ~Pending']_vars
  <2> SUFFICES ASSUME Inv, DefaultIen PROVE ~Pending'
    OBVIOUS
  <2>1. ~ctrl.enabled /\ ctrl' = ctrl /\ ien' = {}
    BY DEF Inv, MaskInv, DefaultIen, At, WriteIen
  <2> QED BY <2>1 DEF Pending
<1> QED BY <1>1, RuntimeInvariance, PTL DEF Spec, DefaultSilences

-----------------------------------------------------------------------------
(* Delivery of bytes. *)

\* Positions at which a context is about to store the RECEIVED flag it has loaded.
Stores == {"maskReadIen", "maskCtrl", "restoreCtrl", "setWrite", "defaultCtrl"}

\* No context has anything but the flag's present value to store.
AllHold(flag) ==
  \A c \in Contexts : pc[c] \in Stores => saved[c].ctrl.received = flag

\* A clean byte that is still in the latch: before it is read nobody can drop it, and after
\* that only its reader, about to acknowledge it, can see the flag set.
Waiting ==
  ctrl.received /\ AllHold(TRUE) /\ \A c \in Contexts : pc[c] # "pollAck"
Taken ==
  ~ctrl.received /\ AllHold(FALSE) /\ \A c \in Contexts : pc[c] # "pollData"

ByteInv ==
  /\ \A b \in 1 .. MaxBytes : b > data => reads[b] = 0
  /\ \A b \in clean : b <= data /\ (b # data => reads[b] = 1)
  /\ data \in clean =>
       /\ reads[data] <= 1
       /\ reads[data] = 0 => Waiting
       /\ reads[data] = 1 /\ pc.fg # "pollAck" /\ pc.irq # "pollAck" => Taken
       /\ pc.irq = "pollAck" => pc.fg \notin Windows

LEMMA ByteInitially == Init => ByteInv
BY DeviceAssumption DEF Init, DevicesInit, ByteInv

\* Where a step of one context leaves both of them.
LEMMA Moves ==
  ASSUME pc \in [fg : FgLabels, irq : IrqLabels], NEW c \in Contexts, NEW label,
         label \in (IF c = "fg" THEN FgLabels ELSE IrqLabels),
         Running(c), Retire(c, label)
  PROVE  /\ pc'[c] = label
         /\ c = "fg" => pc.irq = "none" /\ pc'.irq \in {"none"} \cup Entries
         /\ c = "irq" => pc.irq # "none" /\ pc'.fg = pc.fg
<1>1. CASE c = "fg"
  BY <1>1, FgRetires
<1>2. CASE c = "irq"
  BY <1>2, IrqRetires
<1> QED BY <1>1, <1>2 DEF Contexts

\* A step that neither reads nor delivers a byte and stores no flag but the present one.
LEMMA ByteQuiet ==
  ASSUME ByteInv, NEW c \in Contexts, NEW label,
         /\ pc'[c] = label
         /\ c = "fg" => pc.irq = "none" /\ pc'.irq \in {"none"} \cup Entries
         /\ c = "irq" => pc.irq # "none" /\ pc'.fg = pc.fg,
         pc[c] # "pollAck", label # "pollAck",
         UNCHANGED <<data, reads, clean>>,
         \A e \in Contexts : e # c => saved'[e] = saved[e],
         data \in clean /\ pc.fg # "pollAck" => ctrl'.received = ctrl.received,
         label = "pollData" => ctrl.received,
         label \in Stores => \/ saved'[c].ctrl.received = ctrl.received
                             \/ pc[c] \in Stores /\ saved'[c].ctrl = saved[c].ctrl
  PROVE  ByteInv'
<1>1. \A e \in Contexts : (pc'[e] = "pollAck" <=> pc[e] = "pollAck")
  BY DEF Contexts, Entries
<1>2. \A e \in Contexts : e # c /\ pc'[e] \in Stores => pc[e] \in Stores /\ saved'[e] = saved[e]
  BY DEF Contexts, Entries, Stores
<1>3. \A e \in Contexts : pc'[e] = "pollData" => pc[e] = "pollData" \/ ctrl.received
  BY DEF Contexts, Entries
<1>4. "fg" \in Contexts /\ "irq" \in Contexts
  BY DEF Contexts
<1>5. CASE data \notin clean
  BY <1>5 DEF ByteInv
<1>6. CASE data \in clean
  <2>1. reads[data] = 0 => Waiting'
    <3> SUFFICES ASSUME reads[data] = 0 PROVE Waiting'
      OBVIOUS
    <3>1. Waiting /\ pc.fg # "pollAck"
      BY <1>4, <1>6 DEF ByteInv, Waiting
    <3>2. ctrl.received /\ ctrl'.received
      BY <1>6, <3>1 DEF Waiting
    <3>3. AllHold(TRUE)'
      BY <1>2, <3>1 DEF Waiting, AllHold
    <3> QED BY <1>1, <3>1, <3>2, <3>3 DEF Waiting
  <2>2. reads[data] = 1 /\ pc'.fg # "pollAck" /\ pc'.irq # "pollAck" => Taken'
    <3> SUFFICES ASSUME reads[data] = 1, pc'.fg # "pollAck", pc'.irq # "pollAck" PROVE Taken'
      OBVIOUS
    <3>1. Taken /\ pc.fg # "pollAck"
      BY <1>1, <1>4, <1>6 DEF ByteInv
    <3>2. ~ctrl.received /\ ~ctrl'.received
      BY <1>6, <3>1 DEF Taken
    <3>3. AllHold(FALSE)'
      BY <1>2, <3>1 DEF Taken, AllHold
    <3> QED BY <1>3, <3>1, <3>2, <3>3 DEF Taken
  <2>3. pc'.irq = "pollAck" => pc'.fg \notin Windows
    BY <1>1, <1>4, <1>6 DEF ByteInv, Contexts, Entries
  <2> QED BY <1>6, <2>1, <2>2, <2>3 DEF ByteInv
<1> QED BY <1>5, <1>6

\* The last byte to arrive, when clean, has been read once or not at all.
LEMMA ReadOnceOrNot ==
  ASSUME TypeOK, ByteInv, data \in clean
  PROVE  reads[data] \in {0, 1}
<1>1. reads[data] \in 0 .. 2 /\ reads[data] <= 1
  BY DEF TypeOK, ByteInv
<1> QED BY <1>1

\* A context that has loaded the flag of a clean byte stores its present value.
LEMMA StoresPresent ==
  ASSUME TypeOK, ByteInv, NEW c \in Contexts, Running(c), pc[c] \in Stores,
         data \in clean, pc.fg # "pollAck"
  PROVE  saved[c].ctrl.received = ctrl.received
<1>1. ctrl.received \in BOOLEAN /\ reads[data] \in {0, 1}
  BY ReadOnceOrNot DEF TypeOK, DevicesTypeOK, Control
<1>2. CASE reads[data] = 0
  BY <1>1, <1>2 DEF ByteInv, Waiting, AllHold
<1>3. CASE reads[data] = 1
  <2>1. pc.irq # "pollAck"
    BY DEF Contexts, Running, Stores
  <2> QED BY <1>1, <1>3, <2>1 DEF ByteInv, Taken, AllHold
<1> QED BY <1>1, <1>2, <1>3

\* Masking and giving back, in either context.
LEMMA ByteMasked ==
  ASSUME TypeOK, ByteInv, NEW c \in Contexts, Masked(c)
  PROVE  ByteInv'
<1>0. pc \in [fg : FgLabels, irq : IrqLabels] /\ saved \in [Contexts -> SavedSet] /\ ctrl \in Control
  BY DEF TypeOK, DevicesTypeOK, FgLabels, IrqLabels
<1> DEFINE Labels == IF c = "fg" THEN FgLabels ELSE IrqLabels
<1>L. MaskLabels \cup {IF c = "fg" THEN "idle" ELSE "mret"} \subseteq Labels
  BY DEF FgLabels, IrqLabels
<1> USE DEF MaskLabels
<1>1. CASE MaskReadCtrl(c)
  <2>1. Running(c) /\ pc[c] = "maskReadCtrl" /\ Retire(c, "maskReadIen")
    BY <1>1 DEF MaskReadCtrl, At, Return
  <2>2. saved'[c].ctrl = ctrl /\ \A e \in Contexts : e # c => saved'[e] = saved[e]
    BY <1>0, <1>1, SaveCtrl DEF MaskReadCtrl
  <2> QED
    BY <1>0, <1>L, <1>1, <2>1, <2>2, Moves, ByteQuiet
    DEF MaskReadCtrl, WriteCtrl, WriteIen, device, view, Stores
<1>2. CASE MaskReadIen(c)
  <2>1. Running(c) /\ pc[c] = "maskReadIen" /\ Retire(c, "maskCtrl")
    BY <1>2 DEF MaskReadIen, At, Return
  <2>2. saved'[c].ctrl = saved[c].ctrl /\ \A e \in Contexts : e # c => saved'[e] = saved[e]
    BY <1>0, <1>2, SaveIen DEF MaskReadIen, TypeOK, DevicesTypeOK
  <2> QED
    BY <1>0, <1>L, <1>2, <2>1, <2>2, Moves, ByteQuiet
    DEF MaskReadIen, WriteCtrl, WriteIen, device, view, Stores
<1>3. CASE MaskCtrl(c)
  <2>1. Running(c) /\ pc[c] = "maskCtrl" /\ Retire(c, "maskIen")
    BY <1>3 DEF MaskCtrl, At, Return
  <2>2. data \in clean /\ pc.fg # "pollAck" => ctrl'.received = ctrl.received
    BY <1>3, <2>1, StoresPresent DEF MaskCtrl, WriteCtrl, Stores
  <2> QED
    BY <1>0, <1>L, <1>3, <2>1, <2>2, Moves, ByteQuiet
    DEF MaskCtrl, WriteCtrl, WriteIen, device, view, Stores
<1>4. CASE MaskIen(c)
  <2>1. Running(c) /\ pc[c] = "maskIen" /\ Retire(c, "body")
    BY <1>4 DEF MaskIen, At, Return
  <2> QED
    BY <1>0, <1>L, <1>4, <2>1, Moves, ByteQuiet
    DEF MaskIen, WriteCtrl, WriteIen, device, view, Stores
<1>5. CASE Body(c)
  <2>1. Running(c) /\ pc[c] = "body" /\ Retire(c, "readPending")
    BY <1>5 DEF Body, At, Return
  <2> QED
    BY <1>0, <1>L, <1>5, <2>1, Moves, ByteQuiet
    DEF Body, WriteCtrl, WriteIen, device, view, Stores
<1>6. CASE ReadPending(c)
  <2>1. Running(c) /\ pc[c] = "readPending" /\ Retire(c, "restoreCtrl")
    BY <1>6 DEF ReadPending, At, Return
  <2>2. /\ saved'[c].ctrl.received = ctrl.received
        /\ \A e \in Contexts : e # c => saved'[e] = saved[e]
    BY <1>0, <1>6 DEF ReadPending, SavedSet, Control
  <2> QED
    BY <1>0, <1>L, <1>6, <2>1, <2>2, Moves, ByteQuiet
    DEF ReadPending, WriteCtrl, WriteIen, device, view, Stores
<1>7. CASE RestoreCtrl(c)
  <2>1. Running(c) /\ pc[c] = "restoreCtrl" /\ Retire(c, "restoreIen")
    BY <1>7 DEF RestoreCtrl, At, Return
  <2>2. data \in clean /\ pc.fg # "pollAck" => ctrl'.received = ctrl.received
    BY <1>7, <2>1, StoresPresent DEF RestoreCtrl, WriteCtrl, Stores
  <2> QED
    BY <1>0, <1>L, <1>7, <2>1, <2>2, Moves, ByteQuiet
    DEF RestoreCtrl, WriteCtrl, WriteIen, device, view, Stores
<1>8. CASE RestoreIen(c)
  <2>1. Running(c) /\ pc[c] = "restoreIen" /\ Retire(c, IF c = "fg" THEN "idle" ELSE "mret")
    BY <1>8 DEF RestoreIen, At, Return
  <2> QED
    BY <1>0, <1>L, <1>8, <2>1, Moves, ByteQuiet
    DEF RestoreIen, WriteCtrl, WriteIen, device, view, Stores
<1> QED BY <1>1, <1>2, <1>3, <1>4, <1>5, <1>6, <1>7, <1>8 DEF Masked

\* A byte is read.
LEMMA ByteRead ==
  ASSUME TypeOK, ByteInv, NEW c \in Contexts, PollData(c)
  PROVE  ByteInv'
<1>1. /\ pc \in [fg : FgLabels, irq : IrqLabels] /\ data \in 0 .. MaxBytes
      /\ reads \in [1 .. MaxBytes -> 0 .. 2] /\ clean \subseteq 1 .. MaxBytes
  BY DEF TypeOK, DevicesTypeOK, FgLabels, IrqLabels
<1>2. /\ Running(c) /\ pc[c] = "pollData" /\ Retire(c, "pollAck") /\ "pollAck" \in FgLabels \cap IrqLabels
      /\ UNCHANGED <<data, ctrl, saved>>
  BY DEF PollData, At, device, FgLabels, IrqLabels, DriverLabels
<1>3. /\ pc'[c] = "pollAck"
      /\ c = "fg" => pc.irq = "none" /\ pc'.irq \in {"none"} \cup Entries
      /\ c = "irq" => pc.irq # "none" /\ pc'.fg = pc.fg
  BY <1>1, <1>2, Moves
<1>4. /\ reads' = [reads EXCEPT ![data] = IF @ < 2 THEN @ + 1 ELSE 2]
      /\ clean' = IF c = "irq" /\ pc.fg \in Windows THEN clean \ {data} ELSE clean
  BY DEF PollData
<1>5. /\ \A b \in 1 .. MaxBytes : b > data' => reads'[b] = 0
      /\ \A b \in clean' : b <= data' /\ (b # data' => reads'[b] = 1)
  BY <1>1, <1>2, <1>4 DEF ByteInv
<1>6. CASE data \notin clean'
  BY <1>2, <1>5, <1>6 DEF ByteInv
<1>7. CASE data \in clean'
  <2>1. data \in clean /\ (c = "irq" => pc.fg \notin Windows)
    BY <1>4, <1>7
  <2>2. reads[data] = 0
    <3>1. pc.irq # "pollAck" /\ pc.fg # "pollAck"
      BY <1>2, <1>3, <2>1 DEF Contexts, Running, Windows
    <3>2. reads[data] # 1
      BY <1>2, <2>1, <3>1 DEF ByteInv, Taken
    <3>3. reads[data] \in {0, 1}
      BY <2>1, ReadOnceOrNot
    <3> QED BY <3>2, <3>3
  <2>3. reads'[data] = 1
    BY <1>1, <1>4, <2>1, <2>2
  <2>4. pc'.fg = "pollAck" \/ pc'.irq = "pollAck"
    BY <1>3 DEF Contexts
  <2>5. pc'.irq = "pollAck" => pc'.fg \notin Windows
    BY <1>3, <2>1 DEF Contexts, Entries
  <2> QED BY <1>2, <1>5, <2>3, <2>4, <2>5 DEF ByteInv
<1> QED BY <1>6, <1>7

\* A byte that was read is acknowledged.
LEMMA ByteAcknowledged ==
  ASSUME TypeOK, ByteInv, NEW c \in Contexts, PollAck(c)
  PROVE  ByteInv'
<1>1. /\ pc \in [fg : FgLabels, irq : IrqLabels] /\ reads \in [1 .. MaxBytes -> 0 .. 2]
      /\ clean \subseteq 1 .. MaxBytes /\ saved \in [Contexts -> SavedSet]
  BY DEF TypeOK, FgLabels, IrqLabels
<1> DEFINE back == IF c = "fg" THEN "idle" ELSE "mret"
<1>2. /\ Running(c) /\ pc[c] = "pollAck" /\ Retire(c, back)
      /\ back \in (IF c = "fg" THEN FgLabels ELSE IrqLabels)
      /\ UNCHANGED <<data, reads, clean>> /\ ~ctrl'.received
  BY DEF PollAck, WriteCtrl, At, Return, view, FgLabels, IrqLabels
<1>3. /\ pc'[c] = back
      /\ c = "fg" => pc.irq = "none" /\ pc'.irq \in {"none"} \cup Entries
      /\ c = "irq" => pc.irq # "none" /\ pc'.fg = pc.fg
  BY <1>1, <1>2, Moves
<1>4. CASE data \notin clean
  BY <1>2, <1>4 DEF ByteInv
<1>5. CASE data \in clean
  <2>1. reads[data] = 1
    <3>1. reads[data] # 0
      BY <1>2, <1>5 DEF ByteInv, Waiting
    <3> QED BY <1>5, <3>1, ReadOnceOrNot
  <2>2. c = "irq" => pc.fg \notin Windows
    BY <1>2, <1>5 DEF ByteInv
  <2>3. \A e \in Contexts : pc'[e] \notin Stores /\ pc'[e] # "pollData"
    BY <1>3, <2>2 DEF Contexts, Entries, Stores, Windows
  <2>4. Taken'
    BY <1>2, <2>3 DEF Taken, AllHold
  <2>5. pc'.irq # "pollAck"
    BY <1>3 DEF Contexts, Entries
  <2> QED BY <1>2, <1>5, <2>1, <2>4, <2>5 DEF ByteInv
<1> QED BY <1>4, <1>5

\* The drivers' accesses, in either context.
LEMMA ByteDrivers ==
  ASSUME TypeOK, ByteInv, NEW c \in Contexts, Drivers(c)
  PROVE  ByteInv'
<1>0. pc \in [fg : FgLabels, irq : IrqLabels] /\ saved \in [Contexts -> SavedSet] /\ ctrl \in Control
  BY DEF TypeOK, DevicesTypeOK, FgLabels, IrqLabels
<1> DEFINE back   == IF c = "fg" THEN "idle" ELSE "mret"
           Labels == IF c = "fg" THEN FgLabels ELSE IrqLabels
<1>L. DriverLabels \cup {back} \subseteq Labels
  BY DEF FgLabels, IrqLabels
<1> USE DEF DriverLabels
<1>1. CASE PollStatus(c)
  <2>1. Running(c) /\ pc[c] = "pollStatus" /\ UNCHANGED <<device, view>>
    BY <1>1 DEF PollStatus, At
  <2>2. CASE Retire(c, back) /\ UNCHANGED saved
    <3>1. /\ pc'[c] = back
          /\ c = "fg" => pc.irq = "none" /\ pc'.irq \in {"none"} \cup Entries
          /\ c = "irq" => pc.irq # "none" /\ pc'.fg = pc.fg
      BY <1>0, <1>L, <2>1, <2>2, Moves
    <3>2. back \notin Stores /\ back # "pollAck" /\ back # "pollData"
      BY DEF Stores
    <3> HIDE DEF back
    <3> QED BY <2>1, <2>2, <3>1, <3>2, ByteQuiet DEF device, view
  <2>3. CASE ctrl.received /\ Save(c, "ctrl", ctrl) /\ Retire(c, "pollData")
    <3>1. \A e \in Contexts : e # c => saved'[e] = saved[e]
      BY <1>0, <2>3, SaveCtrl
    <3>2. "pollData" \in Labels
      BY <1>L
    <3>3. /\ pc'[c] = "pollData"
          /\ c = "fg" => pc.irq = "none" /\ pc'.irq \in {"none"} \cup Entries
          /\ c = "irq" => pc.irq # "none" /\ pc'.fg = pc.fg
      BY <1>0, <2>1, <2>3, <3>2, Moves
    <3> HIDE DEF back
    <3> QED BY <2>1, <2>3, <3>1, <3>3, ByteQuiet DEF device, view, Stores
  <2> QED BY <1>1, <2>2, <2>3 DEF PollStatus, Return
<1>2. CASE PollData(c)
  BY <1>2, ByteRead
<1>3. CASE PollAck(c)
  BY <1>3, ByteAcknowledged
<1>4. CASE EdgesRising(c)
  <2>1. Running(c) /\ pc[c] = "edgesRising" /\ Retire(c, "edgesFalling")
    BY <1>4 DEF EdgesRising, At, Return
  <2> QED
    BY <1>0, <1>L, <1>4, <2>1, Moves, ByteQuiet
    DEF EdgesRising, WriteRising, WriteFalling, device, view, Stores
<1>5. CASE EdgesFalling(c)
  <2>1. Running(c) /\ pc[c] = "edgesFalling" /\ Retire(c, "clearRising")
    BY <1>5 DEF EdgesFalling, At, Return
  <2> QED
    BY <1>0, <1>L, <1>5, <2>1, Moves, ByteQuiet
    DEF EdgesFalling, WriteRising, WriteFalling, device, view, Stores
<1>6. CASE ClearRising(c)
  <2>1. Running(c) /\ pc[c] = "clearRising" /\ Retire(c, "clearFalling")
    BY <1>6 DEF ClearRising, At, Return
  <2> QED
    BY <1>0, <1>L, <1>6, <2>1, Moves, ByteQuiet
    DEF ClearRising, WriteRising, WriteFalling, device, view, Stores
<1>7. CASE ClearFalling(c)
  <2>1. Running(c) /\ pc[c] = "clearFalling" /\ Retire(c, back)
    BY <1>7 DEF ClearFalling, At, Return
  <2> QED
    BY <1>0, <1>L, <1>7, <2>1, Moves, ByteQuiet
    DEF ClearFalling, WriteRising, WriteFalling, device, view, Stores
<1> QED BY <1>1, <1>2, <1>3, <1>4, <1>5, <1>6, <1>7 DEF Drivers

\* The foreground configures the sources.
LEMMA ByteConfigure ==
  ASSUME TypeOK, ByteInv, Configure
  PROVE  ByteInv'
<1>0. /\ pc \in [fg : FgLabels, irq : IrqLabels] /\ saved \in [Contexts -> SavedSet]
      /\ ctrl \in Control /\ "fg" \in Contexts
  BY DEF TypeOK, DevicesTypeOK, FgLabels, IrqLabels, Contexts
<1> USE DEF FgLabels, IrqLabels, DriverLabels, DefaultLabels
<1>1. CASE SetRead
  <2>1. Running("fg") /\ pc["fg"] = "setRead" /\ Retire("fg", "setWrite")
    BY <1>1 DEF SetRead, At, Return
  <2>2. saved'.fg.ctrl.received = ctrl.received /\ \A e \in Contexts : e # "fg" => saved'[e] = saved[e]
    <3>1. PICK enabled \in BOOLEAN :
            Save("fg", "ctrl", [received |-> ctrl.received, enabled |-> enabled])
      BY <1>1 DEF SetRead
    <3>2. [received |-> ctrl.received, enabled |-> enabled] \in Control
      BY <1>0 DEF Control
    <3> QED BY <1>0, <3>1, <3>2, SaveCtrl
  <2> QED
    BY <1>0, <1>1, <2>1, <2>2, Moves, ByteQuiet
    DEF SetRead, WriteCtrl, WriteIen, device, view, Stores
<1>2. CASE SetWrite
  <2>1. Running("fg") /\ pc["fg"] = "setWrite" /\ Retire("fg", "idle")
    BY <1>2 DEF SetWrite, At, Return
  <2>2. data \in clean /\ pc.fg # "pollAck" => ctrl'.received = ctrl.received
    BY <1>0, <1>2, <2>1, StoresPresent DEF SetWrite, WriteCtrl, Stores
  <2> QED
    BY <1>0, <1>2, <2>1, <2>2, Moves, ByteQuiet
    DEF SetWrite, WriteCtrl, WriteIen, device, view, Stores
<1>3. CASE SetMask
  <2>1. Running("fg") /\ pc["fg"] = "setMask" /\ Retire("fg", "idle")
    BY <1>3 DEF SetMask, At, Return
  <2> QED
    BY <1>0, <1>3, <2>1, Moves, ByteQuiet
    DEF SetMask, WriteCtrl, WriteIen, device, view, Stores
<1> QED BY <1>1, <1>2, <1>3 DEF Configure

\* The foreground acknowledges edges.
LEMMA ByteAcknowledge ==
  ASSUME TypeOK, ByteInv, Acknowledge
  PROVE  ByteInv'
<1>0. /\ pc \in [fg : FgLabels, irq : IrqLabels] /\ saved \in [Contexts -> SavedSet]
      /\ ctrl \in Control /\ "fg" \in Contexts
  BY DEF TypeOK, DevicesTypeOK, FgLabels, IrqLabels, Contexts
<1> USE DEF FgLabels, IrqLabels, DriverLabels, DefaultLabels
<1>1. CASE AckReadRising
  <2>1. Running("fg") /\ pc["fg"] = "ackReadRising" /\ Retire("fg", "ackRising")
    BY <1>1 DEF AckReadRising, At, Return
  <2>2. \A e \in Contexts : e # "fg" => saved'[e] = saved[e]
    BY <1>0, <1>1 DEF AckReadRising, AckReadFalling, Save
  <2> QED
    BY <1>0, <1>1, <2>1, <2>2, Moves, ByteQuiet
    DEF AckReadRising, WriteRising, WriteFalling, device, view, Stores
<1>2. CASE AckRising
  <2>1. Running("fg") /\ pc["fg"] = "ackRising" /\ Retire("fg", "ackReadFalling")
    BY <1>2 DEF AckRising, At, Return
  <2> QED
    BY <1>0, <1>2, <2>1, Moves, ByteQuiet
    DEF AckRising, WriteRising, WriteFalling, device, view, Stores
<1>3. CASE AckReadFalling
  <2>1. Running("fg") /\ pc["fg"] = "ackReadFalling" /\ Retire("fg", "ackFalling")
    BY <1>3 DEF AckReadFalling, At, Return
  <2>2. \A e \in Contexts : e # "fg" => saved'[e] = saved[e]
    BY <1>0, <1>3 DEF AckReadRising, AckReadFalling, Save
  <2> QED
    BY <1>0, <1>3, <2>1, <2>2, Moves, ByteQuiet
    DEF AckReadFalling, WriteRising, WriteFalling, device, view, Stores
<1>4. CASE AckFalling
  <2>1. Running("fg") /\ pc["fg"] = "ackFalling" /\ Retire("fg", "idle")
    BY <1>4 DEF AckFalling, At, Return
  <2> QED
    BY <1>0, <1>4, <2>1, Moves, ByteQuiet
    DEF AckFalling, WriteRising, WriteFalling, device, view, Stores
<1> QED BY <1>1, <1>2, <1>3, <1>4 DEF Acknowledge

\* The default callback.
LEMMA ByteDefault ==
  ASSUME TypeOK, ByteInv, Default
  PROVE  ByteInv'
<1>0. /\ pc \in [fg : FgLabels, irq : IrqLabels] /\ saved \in [Contexts -> SavedSet]
      /\ ctrl \in Control /\ "irq" \in Contexts
  BY DEF TypeOK, DevicesTypeOK, FgLabels, IrqLabels, Contexts
<1> USE DEF FgLabels, IrqLabels, DriverLabels, DefaultLabels
<1>1. CASE DefaultRead
  <2>1. Running("irq") /\ pc["irq"] = "defaultRead" /\ Retire("irq", "defaultCtrl")
    BY <1>1 DEF DefaultRead, At, Return
  <2>2. saved'.irq.ctrl = ctrl /\ \A e \in Contexts : e # "irq" => saved'[e] = saved[e]
    BY <1>0, <1>1, SaveCtrl DEF DefaultRead
  <2> QED
    BY <1>0, <1>1, <2>1, <2>2, Moves, ByteQuiet
    DEF DefaultRead, WriteCtrl, WriteIen, device, view, Stores
<1>2. CASE DefaultCtrl
  <2>1. Running("irq") /\ pc["irq"] = "defaultCtrl" /\ Retire("irq", "defaultIen")
    BY <1>2 DEF DefaultCtrl, At, Return
  <2>2. data \in clean /\ pc.fg # "pollAck" => ctrl'.received = ctrl.received
    BY <1>0, <1>2, <2>1, StoresPresent DEF DefaultCtrl, WriteCtrl, Stores
  <2> QED
    BY <1>0, <1>2, <2>1, <2>2, Moves, ByteQuiet
    DEF DefaultCtrl, WriteCtrl, WriteIen, device, view, Stores
<1>3. CASE DefaultIen
  <2>1. Running("irq") /\ pc["irq"] = "defaultIen" /\ Retire("irq", "mret")
    BY <1>3 DEF DefaultIen, At, Return
  <2> QED
    BY <1>0, <1>3, <2>1, Moves, ByteQuiet
    DEF DefaultIen, WriteCtrl, WriteIen, device, view, Stores
<1> QED BY <1>1, <1>2, <1>3 DEF Default

\* Leaving the callback, entering an operation and a foreground instruction without an access.
LEMMA ByteOthers ==
  ASSUME TypeOK, ByteInv, Mret \/ Begin \/ Tick
  PROVE  ByteInv'
<1>0. pc \in [fg : FgLabels, irq : IrqLabels] /\ UNCHANGED <<device, saved, view>>
  BY DEF TypeOK, FgLabels, IrqLabels, Mret, Begin, Tick
<1>1. CASE Mret
  <2>1. pc.irq = "mret" /\ pc' = [fg |-> pc.fg, irq |-> "none"] /\ "irq" \in Contexts
    BY <1>0, <1>1 DEF Mret, At, Contexts
  <2> QED BY <1>0, <2>1, ByteQuiet DEF device, view, Stores
<1>2. CASE Begin
  <2>1. PICK op \in FgOps : Retire("fg", FgEntry[op])
    BY <1>2 DEF Begin
  <2>2. FgEntry[op] \in {"maskReadCtrl", "setRead", "setMask", "ackReadRising", "pollStatus"}
    BY RuntimeAssumption DEF FgEntry
  <2>3. Running("fg") /\ pc.fg = "idle" /\ FgEntry[op] \in FgLabels /\ "fg" \in Contexts
    BY <1>2, <2>2 DEF Begin, At, FgLabels, MaskLabels, DriverLabels, Contexts
  <2> QED BY <1>0, <2>1, <2>2, <2>3, Moves, ByteQuiet DEF device, view, Stores
<1>3. CASE Tick
  <2>1. pc'.fg = pc.fg /\ pc.irq = "none" /\ pc'.irq \in {"none"} \cup Entries
    BY <1>0, <1>3, FgRetires DEF Tick
  <2>2. /\ \A e \in Contexts : pc'[e] \in Stores => pc[e] \in Stores
        /\ \A e \in Contexts : (pc'[e] = "pollAck" <=> pc[e] = "pollAck")
        /\ \A e \in Contexts : pc'[e] = "pollData" => pc[e] = "pollData"
    BY <2>1 DEF Contexts, Entries, Stores
  <2>3. (Waiting => Waiting') /\ (Taken => Taken')
    BY <1>0, <2>2 DEF Waiting, Taken, AllHold, device
  <2> QED BY <1>0, <2>1, <2>3 DEF ByteInv, Entries, device, view
<1> QED BY <1>1, <1>2, <1>3

\* A byte arrives in an empty latch: the one before was read, and nobody has the flag loaded
\* unless the new one is not clean.
LEMMA ByteArrives ==
  ASSUME TypeOK, ByteInv, Arrive
  PROVE  ByteInv'
<1>1. /\ data \in 0 .. MaxBytes /\ MaxBytes \in Nat
      /\ reads \in [1 .. MaxBytes -> 0 .. 2] /\ clean \subseteq 1 .. MaxBytes
  BY DeviceAssumption DEF TypeOK, DevicesTypeOK
<1>2. /\ ~ctrl.received /\ data < MaxBytes /\ data' = data + 1 /\ ctrl'.received
      /\ UNCHANGED <<pc, saved, reads>>
      /\ clean' = IF pc.fg \in Windows \/ pc.irq \in Windows THEN clean ELSE clean \cup {data'}
  BY DEF Arrive, Receive, cpu, TypeOK, DevicesTypeOK, Control
<1>3. reads[data'] = 0 /\ data' \notin clean
  BY <1>1, <1>2 DEF ByteInv
<1>4. data \in clean => reads[data] = 1
  <2>1. data \in clean => reads[data] # 0
    BY <1>2 DEF ByteInv, Waiting
  <2> QED BY <2>1, ReadOnceOrNot
<1>5. /\ \A b \in 1 .. MaxBytes : b > data' => reads'[b] = 0
      /\ \A b \in clean' : b <= data' /\ (b # data' => reads'[b] = 1)
  BY <1>1, <1>2, <1>4 DEF ByteInv
<1>6. data' \in clean' => \A e \in Contexts : pc'[e] \notin Windows
  BY <1>2, <1>3 DEF Contexts
<1>7. data' \in clean' => Waiting'
  BY <1>2, <1>6 DEF Waiting, AllHold, Stores, Windows
<1> QED BY <1>2, <1>3, <1>5, <1>6, <1>7 DEF ByteInv, Windows, Contexts

LEMMA ByteSteps == TypeOK /\ ByteInv /\ [Next]_vars => ByteInv'
<1> SUFFICES ASSUME TypeOK, ByteInv, [Next]_vars PROVE ByteInv'
  OBVIOUS
<1>0. "fg" \in Contexts /\ "irq" \in Contexts
  BY DEF Contexts
<1>1. CASE FgStep
  BY <1>0, <1>1, ByteMasked, ByteDrivers, ByteConfigure, ByteAcknowledge DEF FgStep
<1>2. CASE IrqStep
  BY <1>0, <1>2, ByteMasked, ByteDrivers, ByteDefault, ByteOthers DEF IrqStep
<1>3. CASE Begin \/ Tick
  BY <1>3, ByteOthers
<1>4. CASE Arrive
  BY <1>4, ByteArrives
<1>5. CASE Edge \/ UNCHANGED vars
  <2>1. UNCHANGED <<pc, saved, data, ctrl, reads, clean>>
    BY <1>5 DEF Edge, Toggle, vars, device, cpu, view
  <2> QED BY <2>1 DEF ByteInv, Waiting, Taken, AllHold
<1> QED BY <1>1, <1>2, <1>3, <1>4, <1>5 DEF Next, Cpu

\* A byte that neither arrives nor is taken by the callback inside a window of the control
\* register is delivered exactly once (with_device_irqs_masked, set_interrupts, try_read), for
\* any number of bytes, callbacks and masked accesses, nested as deep as interrupts go.
THEOREM CleanBytesOnce == Spec => []CleanExactlyOnce
<1>1. TypeOK /\ ByteInv => CleanExactlyOnce
  <2> SUFFICES ASSUME TypeOK, ByteInv, NEW b \in clean
               PROVE  reads[b] <= 1 /\ (reads[b] = 0 => ctrl.received /\ data = b)
    BY DEF CleanExactlyOnce
  <2>1. CASE b = data
    BY <2>1, ReadOnceOrNot DEF ByteInv, Waiting
  <2>2. CASE b # data
    <3>1. reads[b] = 1
      BY <2>2 DEF ByteInv
    <3> QED BY <3>1
  <2> QED BY <2>1, <2>2
<1> QED BY <1>1, ByteInitially, ByteSteps, RuntimeTypeCorrect, PTL DEF Spec
=============================================================================
