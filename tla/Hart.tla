-------------------------------- MODULE Hart --------------------------------
(***************************************************************************)
(* Start-up, interrupt entry and return: the assembly of src/src/startup.S on  *)
(* the processor of xtask (machine.rs, step), one instruction per step, around  *)
(* a program and a handler that may be any compiled code. Registers hold       *)
(* distinct values, their names, until something overwrites them; the stack     *)
(* counts words. found is not in the code: what the last interrupt met.        *)
(***************************************************************************)
EXTENDS Integers, SequencesExt

CONSTANTS
  StackWords,   \* words of the stack reservation
  BssWords,     \* words between __bss_start and __bss_end
  Places        \* number of instructions of the program

Align == 4      \* the stack pointer is a multiple of 16 bytes
Frame == 16     \* words of the interrupt frame, 64 bytes

ASSUME HartAssumption ==
  StackWords \in Nat /\ StackWords % Align = 0 /\ BssWords \in Nat /\ Places \in Nat \ {0}

VARIABLES
  pc, mepc, in_irq,
  x, sp, stack,         \* registers, x2 and the words it may address
  bss, next_word,       \* words still unset, and t0 of the loop that clears them
  enabled, request,     \* the devices' interrupt enable, and a request that waits
  halted,               \* what stopped step, "no" while it runs
  found

memoryOf == <<stack, bss, next_word>>
hartVars == <<pc, mepc, in_irq, x, sp, memoryOf, enabled, request, halted, found>>

CallerSaved == <<"ra", "t0", "t1", "t2", "a0", "a1", "a2", "a3",
                 "a4", "a5", "a6", "a7", "t3", "t4", "t5", "t6">>
CalleeSaved == {"gp", "s"}      \* s stands for s0 to s11
Regs == ToSet(CallerSaved) \cup CalleeSaved

At(part, index) == <<part, index>>
Reset == At("reset", 0)
Vector == At("vector", 0)       \* address 4
MainStart == At("main", 0)
Nothing == [pc |-> Reset, x |-> [r \in Regs |-> "?"], sp |-> 0, stack |-> << >>]

HartInit ==
  /\ pc = Reset /\ mepc = Reset /\ in_irq = FALSE
  /\ x = [r \in Regs |-> "?"] /\ sp = 0 /\ stack = [w \in 0 .. StackWords - 1 |-> "?"]
  /\ bss = 0 .. BssWords - 1 /\ next_word = 0
  /\ enabled = FALSE /\ request = FALSE /\ halted = "no" /\ found = Nothing

-----------------------------------------------------------------------------
(* The words the processor takes, by opcode, funct3 and funct7. *)

Opcodes == {"lui", "auipc", "jal", "jalr", "branch", "load", "store", "imm", "reg", "mret", "other"}
InstructionWords == [op : Opcodes, f3 : 0 .. 7, f7 : {0, 1, 32}]

\* image.rs supported
Supported(w) ==
  CASE w.op = "jalr"   -> w.f3 = 0
    [] w.op = "branch" -> w.f3 \in {0, 1} \cup 4 .. 7
    [] w.op = "load"   -> w.f3 \in 0 .. 2 \cup {4, 5}
    [] w.op = "store"  -> w.f3 <= 2
    [] w.op = "imm"    -> (w.f3 = 1 => w.f7 = 0) /\ (w.f3 = 5 => w.f7 \in {0, 32})
    [] w.op = "reg"    -> w.f7 = 0 \/ (w.f7 = 32 /\ w.f3 \in {0, 5})
    [] OTHER           -> w.op # "other"

\* The arms of step that end in unreachable!().
Unreachable(w) ==
  \/ w.op = "branch" /\ w.f3 \in {2, 3}
  \/ w.op = "load" /\ w.f3 \notin {0, 1, 2, 4, 5}

-----------------------------------------------------------------------------
(* The end of every instruction. *)

Halt(why) == halted' = why /\ UNCHANGED <<pc, mepc, in_irq, x, sp, memoryOf, enabled, request, found>>

Pending == enabled' /\ request'

Accepts == Pending /\ ~in_irq

InReservation == sp' \in 0 .. StackWords /\ sp' % Align = 0
Started == pc[1] # "reset"      \* the stack pointer has been at the top

\* An interrupt is taken after the instruction, whose successor is where it returns to.
Retire(next, returns) ==
  /\ IF Accepts
     THEN /\ mepc' = next /\ pc' = Vector /\ in_irq' = TRUE
          /\ found' = [pc |-> next, x |-> x', sp |-> sp', stack |-> stack']
     ELSE /\ pc' = IF returns THEN mepc ELSE next
          /\ in_irq' = (in_irq /\ ~returns) /\ UNCHANGED <<mepc, found>>
  /\ halted' = IF Started /\ ~InReservation THEN "stack" ELSE "no"

Goes(next) == Retire(next, FALSE)

Runs == halted = "no"
Keeps(part) == UNCHANGED part /\ UNCHANGED request

-----------------------------------------------------------------------------
(* startup.S: reset. *)

\* gp and sp, then the devices are silenced, and the loop over .bss begins.
ResetStep ==
  /\ Runs /\ pc[1] = "reset" /\ pc[2] < 4
  /\ x' = IF pc[2] = 0 THEN [x EXCEPT !["gp"] = "gp"] ELSE x
  /\ sp' = IF pc[2] = 1 THEN StackWords ELSE sp
  /\ enabled' = IF pc[2] \in {2, 3} THEN FALSE ELSE enabled
  /\ Keeps(memoryOf)
  /\ Goes(At("reset", pc[2] + 1))

BssDone == next_word >= BssWords

ClearWord ==
  /\ Runs /\ pc = At("reset", 4) /\ ~BssDone
  /\ bss' = bss \ {next_word} /\ next_word' = next_word + 1
  /\ Keeps(<<x, sp, stack, enabled>>)
  /\ Goes(pc)

\* The program starts with every register in use.
CallMain ==
  /\ Runs /\ pc = At("reset", 4) /\ BssDone
  /\ x' = [r \in Regs |-> r]
  /\ Keeps(<<sp, memoryOf, enabled>>)
  /\ Goes(MainStart)

-----------------------------------------------------------------------------
(* The program. *)

\* What a word does here depends on its opcode only.
Opcode(words) == {w.op : w \in words}
Carried == {w \in InstructionWords : Supported(w) /\ ~Unreachable(w)}

Jumps == {"jal", "jalr", "branch"}
Successors(op) ==
  {At("main", (pc[2] + 1) % Places)} \cup
  (IF op \in Jumps THEN {At("main", p) : p \in 0 .. Places - 1} ELSE {})

\* Compiled code takes and gives back frames of the stack's granule.
Frames(op) == IF op = "imm" THEN {sp, sp - Align, sp + Align} \cap (0 .. StackWords) ELSE {sp}

\* The words of a frame that is taken are live until it is given back.
Live(top) == [k \in DOMAIN stack |-> IF top <= k /\ k < sp THEN "live" ELSE stack[k]]

InMain == Runs /\ pc[1] = "main"

MainStep == InMain /\ \E op \in Opcode(Carried) \ {"mret"} :
  /\ sp' \in Frames(op) /\ stack' = Live(sp')
  /\ enabled' \in IF op = "store" THEN BOOLEAN ELSE {enabled}
  /\ Keeps(<<x, bss, next_word>>)
  /\ \E next \in Successors(op) : Goes(next)

\* A word that is not supported, a processor left without an arm, a load or store that faults.
MainStops == InMain /\
  \/ (\E w \in InstructionWords : ~Supported(w)) /\ Halt("unsupported")
  \/ (\E w \in InstructionWords : Supported(w) /\ Unreachable(w)) /\ Halt("unreachable")
  \/ Opcode(Carried) \cap {"load", "store"} # {} /\ Halt("fault")

-----------------------------------------------------------------------------
(* startup.S: the interrupt entry. *)

EnterVector ==
  /\ Runs /\ pc = Vector
  /\ Keeps(<<x, sp, memoryOf, enabled>>)
  /\ Goes(At("entry", 0))

CallIndex == Len(CallerSaved) + 1   \* index of the call, after one store per register
FrameEnd  == 2 * CallIndex              \* index of addi sp, sp, 64

PushFrame ==
  /\ Runs /\ pc = At("entry", 0)
  /\ sp' = sp - Frame
  /\ Keeps(<<x, memoryOf, enabled>>)
  /\ Goes(At("entry", 1))

Slot(k) == sp + k - 1

\* sw of the k-th register, at 4 * (k - 1) of the frame
SaveRegister == \E k \in DOMAIN CallerSaved :
  /\ Runs /\ pc = At("entry", k)
  /\ stack' = [stack EXCEPT ![Slot(k)] = x[CallerSaved[k]]]
  /\ Keeps(<<x, sp, bss, next_word, enabled>>)
  /\ Goes(At("entry", k + 1))

CallHandler ==
  /\ Runs /\ pc = At("entry", CallIndex)
  /\ x' = [x EXCEPT !["ra"] = "?"]
  /\ Keeps(<<sp, memoryOf, enabled>>)
  /\ Goes(At("handler", 0))

\* The C ABI: a handler may overwrite what it need not save, and the stack below it. It takes
\* a frame if one fits, and serves the request or leaves it.
Handler ==
  /\ Runs /\ pc = At("handler", 0)
  /\ \E mine \in {ToSet(CallerSaved), {}} \cup {{r} : r \in ToSet(CallerSaved)} :
       x' = [r \in Regs |-> IF r \in mine THEN "?" ELSE x[r]]
  /\ stack' = [k \in DOMAIN stack |-> IF k < sp THEN "?" ELSE stack[k]]
  /\ request' \in {request, FALSE} /\ enabled' \in BOOLEAN
  /\ UNCHANGED <<sp, bss, next_word>>
  /\ Goes(At("entry", CallIndex + 1))

\* Mutant: the slots of ra and t0 are swapped.
SlotFromSwapped(k) == sp + (IF k = 1 THEN 1 ELSE IF k = 2 THEN 0 ELSE k - 1)

SlotFrom(k) == sp + k - 1

RestoreRegister == \E k \in DOMAIN CallerSaved :
  /\ Runs /\ pc = At("entry", CallIndex + k)
  /\ x' = [x EXCEPT ![CallerSaved[k]] = stack[SlotFrom(k)]]
  /\ Keeps(<<sp, memoryOf, enabled>>)
  /\ Goes(At("entry", CallIndex + k + 1))

PopFrame ==
  /\ Runs /\ pc = At("entry", FrameEnd)
  /\ sp' = sp + Frame
  /\ Keeps(<<x, memoryOf, enabled>>)
  /\ Goes(At("entry", FrameEnd + 1))

Mret ==
  /\ Runs /\ pc = At("entry", FrameEnd + 1)
  /\ Keeps(<<x, sp, memoryOf, enabled>>)
  /\ Retire(pc, TRUE)

\* A device asks, between two instructions.
Request ==
  /\ Runs /\ ~request /\ request' = TRUE
  /\ UNCHANGED <<pc, mepc, in_irq, x, sp, memoryOf, enabled, halted, found>>

HartNext ==
  \/ ResetStep \/ ClearWord \/ CallMain \/ MainStep \/ MainStops
  \/ EnterVector \/ PushFrame \/ SaveRegister \/ CallHandler \/ Handler
  \/ RestoreRegister \/ PopFrame \/ Mret \/ Request

HartSpec == HartInit /\ [][HartNext]_hartVars

-----------------------------------------------------------------------------
\* The program meets cleared memory and a full stack; the processor's panics are unreachable;
\* the frame is only ever stored in the reservation.
StartsClean ==
  /\ pc[1] \in {"main", "vector", "entry", "handler"} => bss = {}
  /\ halted # "unreachable"
  /\ pc[1] = "entry" /\ pc[2] \in 1 .. FrameEnd /\ Runs => sp \in 0 .. StackWords - Frame

\* The program goes on at the instruction that was next, with every register, its stack pointer
\* and its live stack as they were.
Resumed ==
  /\ pc' = found.pc /\ x' = found.x /\ sp' = found.sp
  /\ \A w \in found.sp .. StackWords - 1 : stack'[w] = found.stack[w]

\* An interrupt leaves no trace, wherever it meets the program, which started on cleared memory,
\* and whatever the handler does with what the C ABI gives it (startup.S; machine.rs step).
InterruptLeavesNoTrace == []StartsClean /\ [][in_irq /\ ~in_irq' => Resumed]_hartVars
=============================================================================
