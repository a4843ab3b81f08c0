------------------------------- MODULE Memory -------------------------------
(***************************************************************************)
(* The C memory routines of src/src/memory.S: one turn of a loop is one step, *)
(* on addresses that count modulo Words (2^32 in the code). A run is one call. *)
(* The comparisons are unsigned, so memmove takes dst - src modulo Words.     *)
(* given and before are not in the code: the call, and the memory it found.   *)
(***************************************************************************)
EXTENDS Integers

CONSTANTS
  Words,        \* number of addresses
  Memories      \* memories that a call may find

Addresses == 0 .. Words - 1

ASSUME MemoryAssumption ==
  Words \in Nat \ {0} /\ Memories \subseteq [Addresses -> Nat]

VARIABLES
  routine,              \* where the call is: an entry, a loop, or "returned"
  to, from, count,      \* t0, a1 or t1, and a2
  answer,               \* a0
  memory,
  given, before

registers  == <<to, from, count, answer>>
memoryVars == <<routine, registers, memory, given, before>>

WordAdd(a, b) == (a + b) % Words
WordSub(a, b) == (a - b) % Words
Block(start, n) == start .. start + n - 1

\* What a C program may pass: objects that do not wrap, and for memcpy do not overlap.
Legal(call) ==
  /\ call.dst + call.n <= Words
  /\ call.entry # "memset" => call.src + call.n <= Words
  /\ call.entry = "memcpy" => Block(call.dst, call.n) \cap Block(call.src, call.n) = {}

Calls == [entry : {"memcpy", "memset", "memmove", "memcmp"},
          dst : Addresses, src : Addresses, n : 0 .. Words]

MemoryInit ==
  /\ given \in {call \in Calls : Legal(call)} /\ before \in Memories
  /\ routine = given.entry /\ memory = before
  /\ to = given.dst /\ from = given.src /\ count = given.n /\ answer = given.dst

\* beqz a2
Begin(loop) == routine' = IF count = 0 THEN "returned" ELSE loop

Copy    == routine = "memcpy" /\ Begin("copy") /\ UNCHANGED <<registers, memory, given, before>>
Fill    == routine = "memset" /\ Begin("fill") /\ UNCHANGED <<registers, memory, given, before>>
Compare ==
  /\ routine = "memcmp" /\ Begin("compare") /\ answer' = 0
  /\ UNCHANGED <<to, from, count, memory, given, before>>

\* Mutant: a block that begins higher is always copied from its end, an empty one too.
ForwardBySource == from >= to

\* memmove copies forward, as memcpy, unless the end of the source would be overwritten.
Forward == from >= to \/ WordSub(to, from) >= count

Move ==
  /\ routine = "memmove"
  /\ IF Forward
     THEN routine' = "memcpy" /\ UNCHANGED registers
     ELSE /\ routine' = "back"
          /\ to' = WordAdd(to, count) /\ from' = WordAdd(from, count)
          /\ UNCHANGED <<count, answer>>
  /\ UNCHANGED <<memory, given, before>>

\* One byte is done; bnez a2.
Turn(loop) ==
  /\ routine = loop /\ count' = WordSub(count, 1)
  /\ routine' = IF count' = 0 THEN "returned" ELSE loop
  /\ UNCHANGED <<given, before>>

CopyByte ==
  /\ Turn("copy")
  /\ memory' = [memory EXCEPT ![to] = memory[from]]
  /\ to' = WordAdd(to, 1) /\ from' = WordAdd(from, 1) /\ UNCHANGED answer

\* a1 holds the byte of memset.
FillByte ==
  /\ Turn("fill")
  /\ memory' = [memory EXCEPT ![to] = from]
  /\ to' = WordAdd(to, 1) /\ UNCHANGED <<from, answer>>

BackByte ==
  /\ Turn("back")
  /\ to' = WordSub(to, 1) /\ from' = WordSub(from, 1)
  /\ memory' = [memory EXCEPT ![to'] = memory[from']]
  /\ UNCHANGED answer

CompareByte ==
  /\ memory[to] = memory[from] /\ Turn("compare")
  /\ to' = WordAdd(to, 1) /\ from' = WordAdd(from, 1) /\ UNCHANGED <<answer, memory>>

Differ ==
  /\ routine = "compare" /\ memory[to] # memory[from]
  /\ routine' = "returned" /\ answer' = memory[to] - memory[from]
  /\ UNCHANGED <<to, from, count, memory, given, before>>

MemoryNext ==
  \/ Copy \/ Fill \/ Compare \/ Move
  \/ CopyByte \/ FillByte \/ BackByte \/ CompareByte \/ Differ

MemorySpec == MemoryInit /\ [][MemoryNext]_memoryVars

-----------------------------------------------------------------------------
\* What the memory holds after a call, all bytes taken at once from the memory it found.
After == [a \in Addresses |->
  IF a \notin Block(given.dst, given.n) \/ given.entry = "memcmp" THEN before[a]
  ELSE IF given.entry = "memset" THEN given.src ELSE before[given.src + a - given.dst]]

Differing == {k \in 0 .. given.n - 1 : before[given.dst + k] # before[given.src + k]}

\* A call does what C says however its blocks overlap and wherever they lie, with a length of
\* zero too: it returns its destination or the sign of the first differing byte, never writes
\* outside its block on the way, and never runs on past its length (memory.S).
RoutinesExact ==
  /\ count <= given.n
  /\ \A a \in Addresses \ Block(given.dst, given.n) : memory[a] = before[a]
  /\ routine = "returned" =>
       /\ memory = After
       /\ IF given.entry # "memcmp" THEN answer = given.dst
          ELSE IF Differing = {} THEN answer = 0
          ELSE LET k == CHOOSE k \in Differing : \A j \in Differing : k <= j
               IN  answer = before[given.dst + k] - before[given.src + k]
=============================================================================
