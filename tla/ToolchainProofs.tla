--------------------------- MODULE ToolchainProofs ---------------------------
(***************************************************************************)
(* What xtask and the assembly of a firmware promise, for every size: the     *)
(* tester delivers every byte it types, the memory routines do what C says on  *)
(* every overlap, an image the audit accepts lies in RAM with heap and stack    *)
(* apart, the firmware tests report only images that passed at the pin, an       *)
(* interrupt leaves no trace in the program it met, and a text of Intel HEX       *)
(* gives back what it says and no more.                                       *)
(***************************************************************************)
EXTENDS FirmwareTests, ElfAudit, Memory, Hart, Rig, HexCodec, FiniteSetTheorems, SequenceTheorems,
        WellFoundedInduction, TLAPS

-----------------------------------------------------------------------------
(* The tester (Rig). *)

RigTypes ==
  /\ tester \in {"boot", "receive", "run", "settle", "overwrite", "timeout", "passed", "failed"}
  /\ firmware \in {"poll", "read", "acknowledge", "put"}
  /\ sent \in Nat /\ held \in Nat /\ latch \in Nat /\ received \in BOOLEAN /\ echo \in Seq(Nat)

\* The byte that waits is the last one sent, and all before it are taken; the firmware
\* reads only a byte that waits, and holds the next one to write.
RigInv ==
  /\ RigTypes
  /\ \A k \in DOMAIN echo : echo[k] = k
  /\ Took = IF received THEN sent - 1 ELSE sent
  /\ received => latch = sent
  /\ firmware \in {"read", "acknowledge"} => received
  /\ firmware = "acknowledge" => held = sent
  /\ firmware = "put" => held = Len(echo) + 1
  /\ tester # "overwrite"
  /\ tester \in {"boot", "receive", "settle", "passed"} => ~received
  /\ tester = "timeout" => received

LEMMA RigStart == RigInit => RigInv
<1> SUFFICES ASSUME RigInit PROVE RigInv
  OBVIOUS
<1>1. echo = << >> /\ Len(echo) = 0 /\ echo \in Seq(Nat) /\ DOMAIN echo = {}
  BY DEF RigInit
<1>2. RigTypes
  BY <1>1 DEF RigInit, RigTypes
<1>3. Took = 0
  BY <1>1 DEF RigInit, Took
<1> QED BY <1>1, <1>2, <1>3 DEF RigInit, RigInv

\* The tester's steps but the one that sends touch neither the device nor the firmware.
LEMMA TesterKeeps ==
  ASSUME RigInv, Booted \/ EngineFails \/ PieceEnds \/ Settled \/ Judge
  PROVE  RigInv'
<1>1. UNCHANGED <<sent, received, latch, firmware, held, echo>>
  BY DEF Booted, EngineFails, PieceEnds, Settled, Judge, TesterTo, device, program
<1>2. /\ tester' \in {"receive", "settle", "passed"} => ~received
      /\ tester' = "timeout" => received
      /\ tester' \in {"receive", "run", "settle", "timeout", "passed", "failed"}
  BY DEF RigInv, Booted, EngineFails, PieceEnds, Settled, Judge, TesterTo, Running, Taken
<1>3. Took' = Took
  BY <1>1 DEF Took
<1> QED BY <1>1, <1>2, <1>3 DEF RigInv, RigTypes

LEMMA ReceiveKeeps == ASSUME RigInv, Receive PROVE RigInv'
<1>1. ~received /\ tester = "receive"
  BY DEF RigInv, Receive
<1>2. /\ latch' = sent + 1 /\ received' = TRUE /\ sent' = sent + 1 /\ tester' = "run"
      /\ UNCHANGED <<firmware, held, echo>>
  BY <1>1 DEF Receive, program
<1>3. Took' = Took
  BY <1>2 DEF Took
<1> QED BY <1>1, <1>2, <1>3 DEF RigInv, RigTypes

LEMMA FirmwareKeeps ==
  ASSUME RigInv, Poll \/ ReadData \/ Acknowledge \/ PutByte
  PROVE  RigInv'
<1>1. Running /\ UNCHANGED <<tester, sent>>
  BY DEF Poll, ReadData, Acknowledge, PutByte, Steps, typing
<1>2. CASE Poll
  BY <1>1, <1>2 DEF RigInv, RigTypes, Poll, Steps, device, Took
<1>3. CASE ReadData
  BY <1>1, <1>3 DEF RigInv, RigTypes, ReadData, Steps, device, Took
<1>4. CASE Acknowledge
  <2>1. /\ firmware = "acknowledge" /\ firmware' = "put" /\ received' = FALSE /\ UNCHANGED <<latch, held, echo>>
        /\ received /\ held = sent
    BY <1>4 DEF RigInv, Acknowledge, Steps
  <2>2. Len(echo) = sent - 1 /\ Len(echo) \in Nat /\ sent \in Nat
    BY <2>1 DEF RigInv, RigTypes, Took
  <2>3. Took' = sent
    BY <2>1, <2>2 DEF Took
  <2>4. tester # "timeout"
    BY <1>1 DEF Running
  <2>5. RigTypes'
    BY <1>1, <2>1 DEF RigInv, RigTypes
  <2>6. held' = Len(echo') + 1
    BY <2>1, <2>2
  <2> QED BY <1>1, <2>1, <2>3, <2>4, <2>5, <2>6 DEF RigInv
<1>5. CASE PutByte
  <2>1. /\ firmware = "put" /\ firmware' = "poll" /\ echo' = Append(echo, held)
        /\ UNCHANGED <<received, latch, held>> /\ held = Len(echo) + 1 /\ held \in Nat /\ echo \in Seq(Nat)
    BY <1>5 DEF RigInv, RigTypes, PutByte, Steps, device
  <2>2. echo' \in Seq(Nat) /\ Len(echo') = Len(echo) + 1
    BY <2>1
  <2>3. \A k \in DOMAIN echo' : echo'[k] = k
    BY <2>1, <2>2 DEF RigInv
  <2>4. Took' = Took
    BY <2>1, <2>2 DEF Took
  <2> QED BY <1>1, <2>1, <2>2, <2>3, <2>4 DEF RigInv, RigTypes
<1> QED BY <1>2, <1>3, <1>4, <1>5

\* For every number of bytes and attempts: no byte is overwritten, lost or doubled, however
\* slow the firmware is (machine.rs, Rig::send; textio.rs try_read).
THEOREM TypingDelivers == RigSpec => []SendDelivers
<1>1. RigInv /\ [RigNext]_rigVars => RigInv'
  <2> SUFFICES ASSUME RigInv, [RigNext]_rigVars PROVE RigInv'
    OBVIOUS
  <2>1. CASE UNCHANGED rigVars
    BY <2>1 DEF RigInv, RigTypes, Took, rigVars, typing, device, program
  <2> QED BY <2>1, TesterKeeps, ReceiveKeeps, FirmwareKeeps DEF RigNext
<1>2. RigInv => SendDelivers
  BY DEF RigInv, SendDelivers
<1> QED BY <1>1, <1>2, RigStart, PTL DEF RigSpec

-----------------------------------------------------------------------------
(* The memory routines (Memory). *)

\* The memory when the bytes lo .. hi - 1 are as the call leaves them.
Written(lo, hi) ==
  [a \in Addresses |->
     IF a \in lo .. hi - 1
     THEN IF given.entry = "memset" THEN given.src ELSE before[given.src + a - given.dst]
     ELSE before[a]]

\* Bytes done by a loop that counts down to zero.
Done == given.n - count

\* A copy from the beginning reads no byte it has written.
CopiesForward ==
  \/ given.src >= given.dst \/ given.src + given.n <= given.dst

MemoryTypes ==
  /\ given \in Calls /\ Legal(given)
  /\ memory \in [Addresses -> Nat] /\ before \in [Addresses -> Nat] 
  /\ count \in 0 .. given.n

\* Before its loop a call has the arguments it was given.
AtEntry ==
  routine \in {"memcpy", "memset", "memmove", "memcmp"} =>
    /\ to = given.dst /\ from = given.src /\ count = given.n /\ memory = before
    /\ routine = given.entry \/ (routine = "memcpy" /\ given.entry = "memmove" /\ CopiesForward)

InCopy ==
  routine = "copy" =>
    /\ count > 0 /\ given.entry \in {"memcpy", "memmove"} /\ CopiesForward
    /\ to = given.dst + Done /\ from = given.src + Done
    /\ memory = Written(given.dst, given.dst + Done)

InFill ==
  routine = "fill" =>
    /\ count > 0 /\ given.entry = "memset"
    /\ to = given.dst + Done /\ from = given.src
    /\ memory = Written(given.dst, given.dst + Done)

\* The end of a block may be the end of the address space, which is address zero.
InBack ==
  routine = "back" =>
    /\ count > 0 /\ given.entry = "memmove" /\ given.src < given.dst
    /\ to = WordAdd(given.dst, count) /\ from = WordAdd(given.src, count)
    /\ memory = Written(given.dst + count, given.dst + given.n)

Same(k) == before[given.dst + k] = before[given.src + k]

InCompare ==
  routine = "compare" =>
    /\ count > 0 /\ given.entry = "memcmp" /\ answer = 0 /\ memory = before
    /\ to = given.dst + Done /\ from = given.src + Done
    /\ \A k \in 0 .. Done - 1 : Same(k)

Returned ==
  routine = "returned" =>
    IF given.entry # "memcmp" THEN memory = Written(given.dst, given.dst + given.n)
    ELSE /\ memory = before
         /\ \/ answer = 0 /\ \A k \in 0 .. given.n - 1 : Same(k)
            \/ \E k \in 0 .. given.n - 1 :
                 /\ ~Same(k) /\ \A j \in 0 .. k - 1 : Same(j)
                 /\ answer = before[given.dst + k] - before[given.src + k]

MemoryInv ==
  /\ MemoryTypes /\ (given.entry # "memcmp" => answer = given.dst)
  /\ routine \in {"memcpy", "memset", "memmove", "memcmp", "copy", "fill", "back", "compare", "returned"}
  /\ AtEntry /\ InCopy /\ InFill /\ InBack /\ InCompare /\ Returned

-----------------------------------------------------------------------------
LEMMA WordArithmetic ==
  /\ \A a \in 0 .. Words - 1 : WordAdd(a, 1) = IF a + 1 = Words THEN 0 ELSE a + 1
  /\ \A n \in 1 .. Words : WordSub(n, 1) = n - 1 /\ WordSub(n % Words, 1) = n - 1
  /\ \A a \in 0 .. Words - 1, n \in Nat : a + n < Words => WordAdd(a, n) = a + n
  /\ \A a, b \in 0 .. Words - 1 : a >= b => WordSub(a, b) = a - b
<1>1. Words \in Nat \ {0}
  BY MemoryAssumption
<1>2. \A a \in 0 .. Words - 1 : WordAdd(a, 1) = IF a + 1 = Words THEN 0 ELSE a + 1
  BY <1>1 DEF WordAdd
<1>3. ASSUME NEW n \in 1 .. Words PROVE WordSub(n, 1) = n - 1 /\ WordSub(n % Words, 1) = n - 1
  <2>1. PICK m \in 0 .. Words - 1 : m = n - 1
    BY <1>1
  <2>2. m % Words = m
    BY <1>1
  <2>3. CASE n = Words
    <3>1. n % Words = 0
      BY <1>1, <2>3
    <3>2. (-1) % Words = Words - 1
      BY <1>1
    <3> QED BY <1>1, <2>1, <2>2, <2>3, <3>1, <3>2 DEF WordSub
  <2>4. CASE n # Words
    <3>1. n % Words = n
      BY <1>1, <2>4
    <3> QED BY <1>1, <2>1, <2>2, <3>1 DEF WordSub
  <2> QED BY <2>3, <2>4
<1>4. \A a \in 0 .. Words - 1, n \in Nat : a + n < Words => WordAdd(a, n) = a + n
  BY <1>1 DEF WordAdd
<1>5. \A a, b \in 0 .. Words - 1 : a >= b => WordSub(a, b) = a - b
  BY <1>1 DEF WordSub
<1> QED BY <1>2, <1>3, <1>4, <1>5

\* What a legal call may address.
LEMMA LegalBlocks ==
  ASSUME MemoryTypes
  PROVE  /\ Words \in Nat \ {0}
         /\ given.dst \in 0 .. Words - 1 /\ given.src \in 0 .. Words - 1 /\ given.n \in 0 .. Words
         /\ count \in 0 .. given.n /\ Done \in 0 .. given.n
         /\ given.dst + given.n <= Words
         /\ given.entry \in {"memcpy", "memset", "memmove", "memcmp"}
         /\ given.entry # "memset" => given.src + given.n <= Words
BY MemoryAssumption DEF MemoryTypes, Calls, Legal, Addresses, Done

LEMMA WrittenAt ==
  ASSUME NEW a \in Addresses, NEW lo \in Nat, NEW hi \in Nat
  PROVE  /\ a \in lo .. hi - 1 =>
              Written(lo, hi)[a] = IF given.entry = "memset" THEN given.src ELSE before[given.src + a - given.dst]
         /\ a \notin lo .. hi - 1 => Written(lo, hi)[a] = before[a]
<1> DEFINE inside == a \in lo .. hi - 1
           byte == IF given.entry = "memset" THEN given.src ELSE before[given.src + a - given.dst]
<1>1. Written(lo, hi)[a] = IF inside THEN byte ELSE before[a]
  BY ZenonT(30) DEF Written
<1> HIDE DEF inside, byte
<1>2. (inside => Written(lo, hi)[a] = byte) /\ (~inside => Written(lo, hi)[a] = before[a])
  BY <1>1
<1> QED BY <1>2 DEF inside, byte

\* One byte more, above or below those written.
LEMMA WriteAbove ==
  ASSUME MemoryTypes, NEW lo \in Nat, NEW hi \in Addresses, lo <= hi,
         NEW byte, byte = IF given.entry = "memset" THEN given.src ELSE before[given.src + hi - given.dst]
  PROVE  [Written(lo, hi) EXCEPT ![hi] = byte] = Written(lo, hi + 1)
<1>1. hi \in Nat
  BY MemoryAssumption DEF Addresses
<1>2. ASSUME NEW a \in Addresses
      PROVE  [Written(lo, hi) EXCEPT ![hi] = byte][a] = Written(lo, hi + 1)[a]
  <2>1. a \in Nat
    BY MemoryAssumption DEF Addresses
  <2>2. CASE a = hi
    <3>1. hi \in lo .. hi + 1 - 1
      BY <1>1
    <3>2. Written(lo, hi + 1)[hi] = byte
      BY <3>1 DEF Written
    <3>3. [Written(lo, hi) EXCEPT ![hi] = byte][hi] = byte
      BY DEF Written
    <3> QED BY <2>2, <3>2, <3>3
  <2>3. CASE a # hi
    <3>1. a \in lo .. hi - 1 <=> a \in lo .. hi + 1 - 1
      BY <1>1, <2>1, <2>3
    <3>2. Written(lo, hi)[a] = Written(lo, hi + 1)[a]
      BY <1>1, <2>1, <3>1, WrittenAt
    <3>3. [Written(lo, hi) EXCEPT ![hi] = byte][a] = Written(lo, hi)[a]
      BY <2>3 DEF Written
    <3> QED BY <3>2, <3>3
  <2> QED BY <2>2, <2>3
<1> QED BY <1>2 DEF Written

LEMMA WriteBelow ==
  ASSUME MemoryTypes, NEW lo \in Addresses, NEW hi \in Nat, lo < hi,
         NEW byte, byte = IF given.entry = "memset" THEN given.src ELSE before[given.src + lo - given.dst]
  PROVE  [Written(lo + 1, hi) EXCEPT ![lo] = byte] = Written(lo, hi)
<1>1. lo \in Nat
  BY MemoryAssumption DEF Addresses
<1>2. ASSUME NEW a \in Addresses
      PROVE  [Written(lo + 1, hi) EXCEPT ![lo] = byte][a] = Written(lo, hi)[a]
  <2>1. a \in Nat
    BY MemoryAssumption DEF Addresses
  <2>2. CASE a = lo
    BY <1>1, <2>2 DEF Written
  <2>3. CASE a # lo
    <3>1. a \in lo + 1 .. hi - 1 <=> a \in lo .. hi - 1
      BY <1>1, <2>1, <2>3
    <3> QED BY <2>3, <3>1 DEF Written
  <2> QED BY <2>2, <2>3
<1> QED BY <1>2 DEF Written

LEMMA WriteNothing ==
  ASSUME MemoryTypes, NEW lo \in Nat
  PROVE  Written(lo, lo) = before
BY DEF MemoryTypes, Written

-----------------------------------------------------------------------------
\* No call starts where its blocks do not lie, and none has begun to write.
LEMMA MemoryStart == MemoryInit => MemoryInv
<1> SUFFICES ASSUME MemoryInit PROVE MemoryInv
  OBVIOUS
<1>1. given \in Calls /\ Legal(given) /\ before \in [Addresses -> Nat] /\ memory = before
  BY MemoryAssumption DEF MemoryInit
<1>2. given.n \in 0 .. Words /\ given.entry \in {"memcpy", "memset", "memmove", "memcmp"}
  BY <1>1 DEF Calls
<1>3. MemoryTypes
  BY <1>1, <1>2, MemoryAssumption DEF MemoryInit, MemoryTypes
<1>4. AtEntry
  BY <1>1 DEF MemoryInit, AtEntry
<1>5. routine \notin {"copy", "fill", "back", "compare", "returned"}
  BY <1>2 DEF MemoryInit
<1> QED BY <1>2, <1>3, <1>4, <1>5 DEF MemoryInit, MemoryInv, InCopy, InFill, InBack, InCompare, Returned

LEMMA EntersLoop ==
  ASSUME MemoryInv, Copy \/ Fill \/ Compare
  PROVE  MemoryInv'
<1>1. /\ routine \in {"memcpy", "memset", "memcmp"} /\ UNCHANGED <<to, from, count, memory, given, before>>
      /\ answer' = IF routine = "memcmp" THEN 0 ELSE answer
      /\ routine' = IF count = 0 THEN "returned"
                    ELSE IF routine = "memcpy" THEN "copy" ELSE IF routine = "memset" THEN "fill" ELSE "compare"
  BY DEF Copy, Fill, Compare, Begin, registers
<1>2. /\ to = given.dst /\ from = given.src /\ count = given.n /\ memory = before
      /\ routine = given.entry \/ (routine = "memcpy" /\ given.entry = "memmove" /\ CopiesForward)
  BY <1>1 DEF MemoryInv, AtEntry
<1>3. MemoryTypes /\ MemoryTypes'
  BY <1>1 DEF MemoryInv, MemoryTypes
<1>4. count \in Nat /\ given.n \in Nat /\ given.dst \in Nat /\ given.src \in Nat
  BY <1>3, LegalBlocks
<1>5. Done' = 0 /\ Written(given.dst, given.dst)' = before
  <2>1. Done' = 0
    BY <1>1, <1>2, <1>4 DEF Done
  <2>2. Written(given.dst, given.dst) = before
    BY <1>3, <1>4, WriteNothing
  <2> QED BY <1>1, <2>1, <2>2 DEF Written
<1>6. routine = "memcpy" /\ count > 0 => CopiesForward
  <2>1. ASSUME given.entry = "memcpy", given.n > 0 PROVE CopiesForward
    <3>1. Block(given.dst, given.n) \cap Block(given.src, given.n) = {}
      BY <1>3, <2>1 DEF MemoryTypes, Legal
    <3>2. given.src \notin Block(given.dst, given.n) /\ given.dst \notin Block(given.src, given.n)
      BY <1>4, <2>1, <3>1 DEF Block
    <3> QED BY <1>4, <2>1, <3>2 DEF Block, CopiesForward
  <2> QED BY <1>2, <1>4, <2>1
<1>7. CASE count = 0
  <2>1. routine' = "returned"
    BY <1>1, <1>7
  <2>2. Returned'
    <3>1. given.entry # "memcmp" => memory' = Written(given.dst, given.dst + given.n)'
      BY <1>1, <1>2, <1>4, <1>5, <1>7
    <3>2. given.entry = "memcmp" => answer' = 0 /\ memory' = before
      BY <1>1, <1>2
    <3>3. \A k \in 0 .. given.n - 1 : Same(k)'
      BY <1>2, <1>4, <1>7
    <3> QED BY <1>1, <3>1, <3>2, <3>3 DEF Returned
  <2>3. given.entry' # "memcmp" => answer' = given.dst'
    BY <1>1, <1>2 DEF MemoryInv
  <2> QED BY <1>3, <2>1, <2>2, <2>3 DEF MemoryInv, AtEntry, InCopy, InFill, InBack, InCompare
<1>8. CASE count # 0
  <2>1. count > 0
    BY <1>4, <1>8
  <2>2. given.dst + Done' = given.dst /\ given.src + Done' = given.src
    BY <1>4, <1>5
  <2>3. routine' \in {"copy", "fill", "compare"}
    BY <1>1, <1>8
  <2>4. InCopy'
    BY <1>1, <1>2, <1>5, <1>6, <2>1, <2>2, <2>3 DEF InCopy, CopiesForward
  <2>5. InFill'
    BY <1>1, <1>2, <1>5, <2>1, <2>2, <2>3 DEF InFill
  <2>6. InCompare'
    <3>1. \A k \in 0 .. Done' - 1 : Same(k)'
      BY <1>5
    <3> QED BY <1>1, <1>2, <2>1, <2>2, <2>3, <3>1 DEF InCompare
  <2>7. given.entry' # "memcmp" => answer' = given.dst'
    BY <1>1, <1>2 DEF MemoryInv
  <2> QED BY <1>3, <2>3, <2>4, <2>5, <2>6, <2>7 DEF MemoryInv, AtEntry, InBack, Returned
<1> QED BY <1>7, <1>8

LEMMA MovesEitherWay ==
  ASSUME MemoryInv, Move
  PROVE  MemoryInv'
<1>1. /\ routine = "memmove" /\ UNCHANGED <<memory, given, before, count, answer>>
      /\ to = given.dst /\ from = given.src /\ count = given.n /\ memory = before /\ given.entry = "memmove"
  BY DEF MemoryInv, AtEntry, Move, registers
<1>2. MemoryTypes /\ MemoryTypes'
  BY <1>1 DEF MemoryInv, MemoryTypes
<1>3. given.entry' # "memcmp" => answer' = given.dst'
  BY <1>1 DEF MemoryInv
<1>4. /\ given.dst \in 0 .. Words - 1 /\ given.src \in 0 .. Words - 1 /\ given.n \in 0 .. Words
      /\ Words \in Nat /\ given.dst + given.n <= Words /\ given.src + given.n <= Words
  BY <1>1, <1>2, LegalBlocks
<1>5. CASE Forward
  <2>1. routine' = "memcpy" /\ UNCHANGED <<to, from>>
    BY <1>1, <1>5 DEF Move, registers
  <2>2. CopiesForward'
    <3>1. CASE given.src >= given.dst
      BY <1>1, <3>1 DEF CopiesForward
    <3>2. CASE ~(given.src >= given.dst)
      <4>1. WordSub(given.dst, given.src) = given.dst - given.src
        BY <1>4, <3>2, WordArithmetic
      <4>2. given.dst - given.src >= given.n
        BY <1>1, <1>5, <3>2, <4>1 DEF Forward
      <4> QED BY <1>1, <1>4, <4>2 DEF CopiesForward
    <3> QED BY <3>1, <3>2
  <2>3. AtEntry'
    BY <1>1, <2>1, <2>2 DEF AtEntry
  <2> QED BY <1>2, <1>3, <2>1, <2>3 DEF MemoryInv, InCopy, InFill, InBack, InCompare, Returned
<1>6. CASE ~Forward
  <2>1. routine' = "back" /\ to' = WordAdd(to, count) /\ from' = WordAdd(from, count)
    BY <1>1, <1>6 DEF Move
  <2>2. given.src < given.dst
    BY <1>1, <1>4, <1>6 DEF Forward
  <2>3. count > 0
    <3>1. WordSub(given.dst, given.src) = given.dst - given.src
      BY <1>4, <2>2, WordArithmetic
    <3> QED BY <1>1, <1>4, <1>6, <2>2, <3>1 DEF Forward
  <2>4. Written(given.dst + count, given.dst + given.n) = before
    <3>1. given.dst + count \in Nat /\ given.dst + count = given.dst + given.n
      BY <1>1, <1>4
    <3> QED BY <1>2, <3>1, WriteNothing
  <2>5. Written(given.dst + count, given.dst + given.n)' = Written(given.dst + count, given.dst + given.n)
    BY <1>1 DEF Written
  <2>6. InBack'
    BY <1>1, <2>1, <2>2, <2>3, <2>4, <2>5 DEF InBack
  <2> QED BY <1>2, <1>3, <2>1, <2>6 DEF MemoryInv, AtEntry, InCopy, InFill, InCompare, Returned
<1> QED BY <1>5, <1>6

\* One turn counts down, and the loop goes on while bytes are left.
LEMMA OneTurn ==
  ASSUME MemoryTypes, count > 0, NEW loop, Turn(loop)
  PROVE  /\ routine = loop /\ count' = count - 1 /\ count' \in 0 .. given.n
         /\ routine' = IF count' = 0 THEN "returned" ELSE loop
         /\ UNCHANGED <<given, before>> /\ Done' = Done + 1
         /\ count' > 0 => Done + 1 < given.n
         /\ count' = 0 => Done + 1 = given.n
<1>1. /\ routine = loop /\ count' = WordSub(count, 1) /\ UNCHANGED <<given, before>>
      /\ routine' = IF count' = 0 THEN "returned" ELSE loop
  BY DEF Turn
<1>2. count \in 1 .. Words /\ count \in 0 .. given.n /\ given.n \in Nat
  BY LegalBlocks
<1>3. count' = count - 1
  BY <1>1, <1>2, WordArithmetic
<1> QED BY <1>1, <1>2, <1>3 DEF Done

\* Where the next byte of a loop that goes forward is.
LEMMA NextByte ==
  ASSUME MemoryTypes, count > 0
  PROVE  /\ Done \in Nat /\ given.dst + Done \in Addresses
         /\ given.entry # "memset" => given.src + Done \in Addresses
         /\ count > 1 => /\ WordAdd(given.dst + Done, 1) = given.dst + (Done + 1)
                         /\ given.entry # "memset" => WordAdd(given.src + Done, 1) = given.src + (Done + 1)
<1>1. /\ Words \in Nat \ {0} /\ given.dst \in Nat /\ given.src \in Nat /\ given.n \in Nat /\ count \in Nat
      /\ given.dst + given.n <= Words
      /\ given.entry # "memset" => given.src + given.n <= Words
      /\ count <= given.n
  BY LegalBlocks
<1>2. PICK k \in Nat : k = Done /\ k + count = given.n
  BY <1>1 DEF Done
<1>3. given.dst + k < Words /\ given.dst + k \in Addresses
  BY <1>1, <1>2 DEF Addresses
<1>4. given.entry # "memset" => given.src + k < Words /\ given.src + k \in Addresses
  BY <1>1, <1>2 DEF Addresses
<1>5. CASE count > 1
  <2>1. given.dst + k + 1 < Words
    BY <1>1, <1>2, <1>5
  <2>2. WordAdd(given.dst + k, 1) = given.dst + (k + 1)
    BY <1>1, <1>3, <2>1, WordArithmetic DEF Addresses
  <2>3. given.entry # "memset" => given.src + k + 1 < Words
    BY <1>1, <1>2, <1>5
  <2>4. given.entry # "memset" => WordAdd(given.src + k, 1) = given.src + (k + 1)
    BY <1>1, <1>4, <2>3, WordArithmetic DEF Addresses
  <2> QED BY <1>2, <1>3, <1>4, <2>2, <2>4
<1> QED BY <1>2, <1>3, <1>4, <1>5

LEMMA CopiesByte ==
  ASSUME MemoryInv, CopyByte
  PROVE  MemoryInv'
<1>1. /\ Turn("copy") /\ memory' = [memory EXCEPT ![to] = memory[from]]
      /\ to' = WordAdd(to, 1) /\ from' = WordAdd(from, 1) /\ UNCHANGED answer
  BY DEF CopyByte
<1>2. routine = "copy"
  BY <1>1 DEF Turn
<1>3. /\ count > 0 /\ given.entry \in {"memcpy", "memmove"} /\ CopiesForward
      /\ to = given.dst + Done /\ from = given.src + Done
      /\ memory = Written(given.dst, given.dst + Done)
  BY <1>2 DEF MemoryInv, InCopy
<1>4. MemoryTypes
  BY DEF MemoryInv
<1>5. /\ count' = count - 1 /\ count' \in 0 .. given.n /\ routine' = (IF count' = 0 THEN "returned" ELSE "copy")
      /\ given' = given /\ before' = before /\ Done' = Done + 1
      /\ count' = 0 => Done + 1 = given.n
  BY <1>1, <1>3, <1>4, OneTurn
<1>6. /\ Done \in Nat /\ to \in Addresses /\ from \in Addresses /\ count \in Nat
      /\ count > 1 => to' = given.dst + (Done + 1) /\ from' = given.src + (Done + 1)
  BY <1>1, <1>3, <1>4, NextByte, LegalBlocks
<1>7. given.dst \in Nat /\ given.src \in Nat /\ given.n \in Nat /\ Done \in 0 .. given.n
  BY <1>4, LegalBlocks
<1>8. memory[from] = before[given.src + to - given.dst]
  <2>1. given.src + to - given.dst = from
    BY <1>3, <1>6, <1>7
  <2>2. Done < given.n
    BY <1>3, <1>4, <1>6, <1>7, LegalBlocks DEF Done
  <2>3. from \notin given.dst .. given.dst + Done - 1
    BY <1>3, <1>6, <1>7, <2>2 DEF CopiesForward
  <2>4. Written(given.dst, given.dst + Done)[from] = before[from]
    <3>1. given.dst + Done \in Nat
      BY <1>6, <1>7
    <3> QED BY <1>6, <1>7, <2>3, <3>1, WrittenAt
  <2> QED BY <1>3, <2>1, <2>4
<1>9. memory' = Written(given.dst, given.dst + (Done + 1))
  <2>1. given.dst <= to
    BY <1>3, <1>6, <1>7
  <2>2. memory[from] = IF given.entry = "memset" THEN given.src ELSE before[given.src + to - given.dst]
    BY <1>3, <1>8
  <2>3. memory' = Written(given.dst, to + 1)
    BY <1>1, <1>3, <1>4, <1>6, <1>7, <2>1, <2>2, WriteAbove
  <2>4. to + 1 = given.dst + (Done + 1)
    BY <1>3, <1>6, <1>7
  <2> QED BY <2>3, <2>4
<1>10. MemoryTypes'
  <2>1. memory' \in [Addresses -> Nat]
    BY <1>1, <1>4, <1>6 DEF MemoryTypes
  <2> QED BY <1>4, <1>5, <2>1 DEF MemoryTypes
<1>11. memory' = Written(given.dst, given.dst + Done)'
  BY <1>5, <1>9 DEF Written
<1>12. routine' = "copy" => count' # 0 /\ count' \in Nat
  BY <1>5, <1>7
<1>13. InCopy'
  <2>1. ASSUME routine' = "copy" PROVE to' = given.dst + Done' /\ from' = given.src + Done' /\ count' > 0
    <3>1. count > 1 /\ count' > 0
      BY <1>5, <1>6, <1>12, <2>1
    <3> QED BY <1>5, <1>6, <3>1
  <2> QED BY <1>3, <1>5, <1>11, <2>1 DEF InCopy, CopiesForward
<1>14. Returned'
  <2>1. count' = 0 => Written(given.dst, given.dst + Done)' = Written(given.dst, given.dst + given.n)'
    BY <1>5
  <2>2. routine' = "returned" => count' = 0
    BY <1>5
  <2> QED BY <1>3, <1>5, <1>11, <2>1, <2>2 DEF Returned
<1>15. given'.entry # "memcmp" => answer' = given'.dst
  BY <1>1, <1>5 DEF MemoryInv
<1> QED BY <1>5, <1>10, <1>13, <1>14, <1>15 DEF MemoryInv, AtEntry, InFill, InBack, InCompare

LEMMA FillsByte ==
  ASSUME MemoryInv, FillByte
  PROVE  MemoryInv'
<1>1. /\ Turn("fill") /\ memory' = [memory EXCEPT ![to] = from]
      /\ to' = WordAdd(to, 1) /\ UNCHANGED <<from, answer>>
  BY DEF FillByte
<1>2. routine = "fill"
  BY <1>1 DEF Turn
<1>3. /\ count > 0 /\ given.entry = "memset" /\ to = given.dst + Done /\ from = given.src
      /\ memory = Written(given.dst, given.dst + Done)
  BY <1>2 DEF MemoryInv, InFill
<1>4. MemoryTypes
  BY DEF MemoryInv
<1>5. /\ count' = count - 1 /\ count' \in 0 .. given.n /\ routine' = (IF count' = 0 THEN "returned" ELSE "fill")
      /\ given' = given /\ before' = before /\ Done' = Done + 1
      /\ count' = 0 => Done + 1 = given.n
  BY <1>1, <1>3, <1>4, OneTurn
<1>6. /\ Done \in Nat /\ to \in Addresses /\ count \in Nat
      /\ count > 1 => to' = given.dst + (Done + 1)
  BY <1>1, <1>3, <1>4, NextByte, LegalBlocks
<1>7. given.dst \in Nat /\ given.src \in Nat /\ given.n \in Nat
  BY <1>4, LegalBlocks
<1>8. memory' = Written(given.dst, given.dst + (Done + 1))
  <2>1. given.dst <= to
    BY <1>3, <1>6, <1>7
  <2>2. from = IF given.entry = "memset" THEN given.src ELSE before[given.src + to - given.dst]
    BY <1>3
  <2>3. memory' = Written(given.dst, to + 1)
    BY <1>1, <1>3, <1>4, <1>6, <1>7, <2>1, <2>2, WriteAbove
  <2>4. to + 1 = given.dst + (Done + 1)
    BY <1>3, <1>6, <1>7
  <2> QED BY <2>3, <2>4
<1>9. MemoryTypes'
  <2>1. memory' \in [Addresses -> Nat]
    BY <1>1, <1>3, <1>4, <1>7 DEF MemoryTypes
  <2> QED BY <1>4, <1>5, <2>1 DEF MemoryTypes
<1>10. memory' = Written(given.dst, given.dst + Done)'
  BY <1>5, <1>8 DEF Written
<1>11. routine' = "fill" => count' # 0 /\ count' \in Nat
  BY <1>5, <1>7
<1>12. InFill'
  <2>1. ASSUME routine' = "fill" PROVE to' = given.dst + Done' /\ count' > 0
    <3>1. count > 1 /\ count' > 0
      BY <1>5, <1>6, <1>11, <2>1
    <3> QED BY <1>5, <1>6, <3>1
  <2> QED BY <1>1, <1>3, <1>5, <1>10, <2>1 DEF InFill
<1>13. Returned'
  <2>1. count' = 0 => Written(given.dst, given.dst + Done)' = Written(given.dst, given.dst + given.n)'
    BY <1>5
  <2>2. routine' = "returned" => count' = 0
    BY <1>5
  <2> QED BY <1>3, <1>5, <1>10, <2>1, <2>2 DEF Returned
<1>14. given'.entry # "memcmp" => answer' = given'.dst
  BY <1>1, <1>5 DEF MemoryInv
<1> QED BY <1>5, <1>9, <1>12, <1>13, <1>14 DEF MemoryInv, AtEntry, InCopy, InBack, InCompare

\* A copy from the end reads no byte it has written, for the source begins lower.
LEMMA MovesByteBack ==
  ASSUME MemoryInv, BackByte
  PROVE  MemoryInv'
<1>1. /\ Turn("back") /\ to' = WordSub(to, 1) /\ from' = WordSub(from, 1)
      /\ memory' = [memory EXCEPT ![to'] = memory[from']] /\ UNCHANGED answer
  BY DEF BackByte
<1>2. routine = "back"
  BY <1>1 DEF Turn
<1>3. /\ count > 0 /\ given.entry = "memmove" /\ given.src < given.dst
      /\ to = WordAdd(given.dst, count) /\ from = WordAdd(given.src, count)
      /\ memory = Written(given.dst + count, given.dst + given.n)
  BY <1>2 DEF MemoryInv, InBack
<1>4. MemoryTypes
  BY DEF MemoryInv
<1>5. /\ count' = count - 1 /\ count' \in 0 .. given.n /\ routine' = (IF count' = 0 THEN "returned" ELSE "back")
      /\ given' = given /\ before' = before
  BY <1>1, <1>3, <1>4, OneTurn
<1>6. /\ given.dst \in Nat /\ given.src \in Nat /\ given.n \in Nat /\ count \in Nat /\ count <= given.n
      /\ given.dst + given.n <= Words /\ given.src + given.n <= Words /\ Words \in Nat \ {0}
  BY <1>3, <1>4, LegalBlocks
<1>7. to' = given.dst + count' /\ from' = given.src + count'
  <2>1. given.dst + count \in 1 .. Words /\ given.src + count \in 1 .. Words
    BY <1>3, <1>6
  <2>2. /\ WordSub((given.dst + count) % Words, 1) = given.dst + count - 1
        /\ WordSub((given.src + count) % Words, 1) = given.src + count - 1
    <3>1. PICK p \in 1 .. Words, q \in 1 .. Words : p = given.dst + count /\ q = given.src + count
      BY <2>1
    <3>2. WordSub(p % Words, 1) = p - 1 /\ WordSub(q % Words, 1) = q - 1
      BY WordArithmetic
    <3> QED BY <1>6, <3>1, <3>2
  <2>3. to' = given.dst + count - 1 /\ from' = given.src + count - 1
    BY <1>1, <1>3, <2>2 DEF WordAdd
  <2> QED BY <1>5, <1>6, <2>3
<1>8. /\ count' \in Nat /\ to' \in Addresses /\ from' \in Addresses /\ from' < to'
      /\ given.dst + count = to' + 1 /\ to' + 1 \in Nat /\ given.dst + given.n \in Nat
      /\ to' < given.dst + given.n
  BY <1>3, <1>5, <1>6, <1>7 DEF Addresses
<1>9. memory[from'] = before[given.src + to' - given.dst]
  <2>1. given.src + to' - given.dst = from'
    BY <1>6, <1>7, <1>8
  <2>2. from' \in Nat /\ to' \in Nat
    BY <1>6, <1>7, <1>8
  <2>3. PICK a \in Addresses : a = from'
    BY <1>8
  <2>4. PICK lo \in Nat, hi \in Nat : lo = given.dst + count /\ hi = given.dst + given.n
    BY <1>6
  <2>5. Written(lo, hi)[a] = before[a]
    <3>1. a \notin lo .. hi - 1
      BY <1>6, <1>8, <2>2, <2>3, <2>4
    <3> QED BY <3>1, WrittenAt
  <2> QED BY <1>3, <2>1, <2>3, <2>4, <2>5
<1>10. memory' = Written(to', given.dst + given.n)
  <2>1. memory[from'] = IF given.entry = "memset" THEN given.src ELSE before[given.src + to' - given.dst]
    BY <1>3, <1>9
  <2> QED BY <1>1, <1>3, <1>4, <1>8, <2>1, WriteBelow
<1>11. MemoryTypes'
  <2>1. memory' \in [Addresses -> Nat]
    BY <1>1, <1>4, <1>8 DEF MemoryTypes
  <2> QED BY <1>4, <1>5, <2>1 DEF MemoryTypes
<1>12. memory' = Written(given.dst + count, given.dst + given.n)'
  BY <1>5, <1>7, <1>10 DEF Written
<1>13. routine' = "back" => count' # 0
  BY <1>5
<1>14. InBack'
  <2>1. ASSUME routine' = "back"
        PROVE  count' > 0 /\ to' = WordAdd(given.dst, count') /\ from' = WordAdd(given.src, count')
    <3>1. count' > 0
      BY <1>8, <1>13, <2>1
    <3>2. given.dst \in 0 .. Words - 1 /\ given.src \in 0 .. Words - 1 /\ given.dst + count' < Words /\ given.src + count' < Words
      BY <1>3, <1>5, <1>6
    <3> QED BY <1>7, <1>8, <3>1, <3>2, WordArithmetic
  <2> QED BY <1>3, <1>5, <1>12, <2>1 DEF InBack, WordAdd
<1>15. Returned'
  <2>1. count' = 0 => memory' = Written(given.dst, given.dst + given.n)'
    <3>1. count' = 0 => to' = given.dst
      BY <1>6, <1>7
    <3> QED BY <1>5, <1>10, <3>1 DEF Written
  <2>2. routine' = "returned" => count' = 0
    BY <1>5
  <2> QED BY <1>3, <1>5, <2>1, <2>2 DEF Returned
<1>16. given'.entry # "memcmp" => answer' = given'.dst
  BY <1>1, <1>5 DEF MemoryInv
<1> QED BY <1>5, <1>11, <1>14, <1>15, <1>16 DEF MemoryInv, AtEntry, InCopy, InFill, InCompare

LEMMA ComparesByte ==
  ASSUME MemoryInv, CompareByte \/ Differ
  PROVE  MemoryInv'
<1>1. /\ routine = "compare" /\ memory' = memory
      /\ CompareByte => /\ memory[to] = memory[from] /\ Turn("compare") /\ answer' = answer
                        /\ to' = WordAdd(to, 1) /\ from' = WordAdd(from, 1)
      /\ Differ => /\ memory[to] # memory[from] /\ routine' = "returned" /\ answer' = memory[to] - memory[from]
                   /\ UNCHANGED <<count, given, before>>
  BY DEF CompareByte, Differ, Turn
<1>2. /\ count > 0 /\ given.entry = "memcmp" /\ answer = 0 /\ memory = before
      /\ to = given.dst + Done /\ from = given.src + Done
      /\ \A k \in 0 .. Done - 1 : Same(k)
  BY <1>1 DEF MemoryInv, InCompare
<1>3. MemoryTypes
  BY DEF MemoryInv
<1>4. /\ given.dst \in Nat /\ given.src \in Nat /\ given.n \in Nat /\ count \in Nat /\ count <= given.n /\ Done \in Nat
  BY <1>3, LegalBlocks
<1>5. CASE CompareByte
  <2>1. /\ count' = count - 1 /\ count' \in 0 .. given.n /\ routine' = (IF count' = 0 THEN "returned" ELSE "compare")
        /\ given' = given /\ before' = before /\ Done' = Done + 1
        /\ count' = 0 => Done + 1 = given.n
    BY <1>1, <1>2, <1>3, <1>5, OneTurn
  <2>2. MemoryTypes'
    BY <1>1, <1>3, <2>1 DEF MemoryTypes
  <2>3. ASSUME NEW k \in 0 .. Done PROVE Same(k)
    <3>1. CASE k = Done
      BY <1>1, <1>2, <1>5, <3>1 DEF Same
    <3>2. CASE k # Done
      <4>1. k \in 0 .. Done - 1
        BY <1>4, <3>2
      <4> QED BY <1>2, <4>1
    <3> QED BY <3>1, <3>2
  <2>4. \A k \in 0 .. Done : Same(k)'
    BY <2>1, <2>3 DEF Same
  <2>5. 0 .. Done' - 1 = 0 .. Done /\ (count' = 0 => 0 .. given.n - 1 = 0 .. Done)
    BY <1>4, <2>1
  <2>6. InCompare'
    <3>1. ASSUME routine' = "compare" PROVE count' > 0 /\ to' = given.dst + Done' /\ from' = given.src + Done'
      <4>1. count' # 0
        BY <2>1, <3>1
      <4>2. count' > 0 /\ count > 1
        BY <1>4, <2>1, <4>1
      <4> QED BY <1>1, <1>2, <1>3, <1>5, <2>1, <4>2, NextByte
    <3>2. \A k \in 0 .. Done' - 1 : Same(k)'
      BY <2>4, <2>5
    <3> QED BY <1>1, <1>2, <1>5, <2>1, <3>1, <3>2 DEF InCompare
  <2>7. Returned'
    <3>1. routine' = "returned" => \A k \in 0 .. given.n - 1 : Same(k)'
      <4>1. routine' = "returned" => count' = 0
        BY <2>1
      <4> QED BY <2>4, <2>5, <4>1
    <3> QED BY <1>1, <1>2, <1>5, <2>1, <3>1 DEF Returned
  <2> QED BY <1>2, <2>1, <2>2, <2>6, <2>7 DEF MemoryInv, AtEntry, InCopy, InFill, InBack
<1>6. CASE Differ
  <2>1. /\ routine' = "returned" /\ answer' = before[given.dst + Done] - before[given.src + Done]
        /\ given' = given /\ before' = before /\ count' = count /\ ~Same(Done)
    BY <1>1, <1>2, <1>6 DEF Same
  <2>2. Done \in 0 .. given.n - 1
    BY <1>2, <1>4 DEF Done
  <2>3. \A k : Same(k)' <=> Same(k)
    BY <2>1 DEF Same
  <2>4. Returned'
    BY <1>1, <1>2, <2>1, <2>2, <2>3 DEF Returned
  <2>5. MemoryTypes'
    BY <1>1, <1>3, <2>1 DEF MemoryTypes
  <2> QED BY <1>2, <2>1, <2>4, <2>5 DEF MemoryInv, AtEntry, InCopy, InFill, InBack, InCompare
<1> QED BY <1>5, <1>6

\* What holds of every call on its way is what a call promises.
LEMMA MemoryExact == ASSUME MemoryInv PROVE RoutinesExact
<1>1. MemoryTypes
  BY DEF MemoryInv
<1>2. /\ given.dst \in Nat /\ given.src \in Nat /\ given.n \in Nat /\ count \in Nat /\ count <= given.n
      /\ Done \in Nat /\ Done <= given.n
  BY <1>1, LegalBlocks
<1>3. ASSUME NEW a \in Addresses \ Block(given.dst, given.n) PROVE memory[a] = before[a]
  <2>1. a \in Nat
    BY MemoryAssumption DEF Addresses
  <2>2. a \notin given.dst .. given.dst + Done - 1 /\ a \notin given.dst + count .. given.dst + given.n - 1
        /\ a \notin given.dst .. given.dst + given.n - 1
    BY <1>2, <1>3, <2>1 DEF Block
  <2>3. /\ Written(given.dst, given.dst + Done)[a] = before[a]
        /\ Written(given.dst + count, given.dst + given.n)[a] = before[a]
        /\ Written(given.dst, given.dst + given.n)[a] = before[a]
    <3>1. given.dst + Done \in Nat /\ given.dst + count \in Nat /\ given.dst + given.n \in Nat
      BY <1>2
    <3> QED BY <1>2, <2>2, <3>1, WrittenAt
  <2> QED BY <2>3 DEF MemoryInv, AtEntry, InCopy, InFill, InBack, InCompare, Returned
<1>4. ASSUME routine = "returned", given.entry # "memcmp" PROVE memory = After
  <2>1. memory = Written(given.dst, given.dst + given.n)
    BY <1>4 DEF MemoryInv, Returned
  <2>2. ASSUME NEW a \in Addresses PROVE After[a] = Written(given.dst, given.dst + given.n)[a]
    <3>1. a \in Block(given.dst, given.n) <=> a \in given.dst .. given.dst + given.n - 1
      BY DEF Block
    <3>2. CASE a \in Block(given.dst, given.n)
      <4>1. After[a] = IF given.entry = "memset" THEN given.src ELSE before[given.src + a - given.dst]
        BY <1>4, <3>2 DEF After
      <4> QED BY <1>2, <3>1, <3>2, <4>1, WrittenAt
    <3>3. CASE a \notin Block(given.dst, given.n)
      <4>1. After[a] = before[a]
        BY <3>3 DEF After
      <4> QED BY <1>2, <3>1, <3>3, <4>1, WrittenAt
    <3> QED BY <3>2, <3>3
  <2> QED BY <2>1, <2>2 DEF After, Written
<1>5. ASSUME routine = "returned", given.entry = "memcmp"
      PROVE  /\ memory = After
             /\ IF Differing = {} THEN answer = 0
                ELSE LET k == CHOOSE k \in Differing : \A j \in Differing : k <= j
                     IN  answer = before[given.dst + k] - before[given.src + k]
  <2>1. /\ memory = before
        /\ \/ answer = 0 /\ \A k \in 0 .. given.n - 1 : Same(k)
           \/ \E k \in 0 .. given.n - 1 :
                /\ ~Same(k) /\ \A j \in 0 .. k - 1 : Same(j)
                /\ answer = before[given.dst + k] - before[given.src + k]
    BY <1>5 DEF MemoryInv, Returned
  <2>2. memory = After
    BY <1>1, <1>5, <2>1 DEF MemoryTypes, After
  <2>3. CASE answer = 0 /\ \A k \in 0 .. given.n - 1 : Same(k)
    BY <2>2, <2>3 DEF Differing, Same
  <2>4. ASSUME NEW k \in 0 .. given.n - 1, ~Same(k), \A j \in 0 .. k - 1 : Same(j),
               answer = before[given.dst + k] - before[given.src + k]
        PROVE  /\ Differing # {}
               /\ answer = LET m == CHOOSE m \in Differing : \A j \in Differing : m <= j
                           IN  before[given.dst + m] - before[given.src + m]
    <3>1. k \in Differing /\ Differing \subseteq Nat
      BY <1>2, <2>4 DEF Differing, Same
    <3>2. \A j \in Differing : k <= j
      BY <1>2, <2>4, <3>1 DEF Differing, Same
    <3>3. \A m \in Differing : (\A j \in Differing : m <= j) => m = k
      BY <3>1, <3>2
    <3>4. (CHOOSE m \in Differing : \A j \in Differing : m <= j) = k
      BY <3>1, <3>2, <3>3
    <3> QED BY <2>4, <3>1, <3>4
  <2> QED BY <2>1, <2>2, <2>3, <2>4
<1> QED BY <1>2, <1>3, <1>4, <1>5 DEF MemoryInv, RoutinesExact

\* For every number of addresses, memory found and legal call: the routines do what C says,
\* never write outside their block and never run past their length (memory.S).
THEOREM RoutinesDoWhatCSays == MemorySpec => []RoutinesExact
<1>1. MemoryInv /\ [MemoryNext]_memoryVars => MemoryInv'
  <2> SUFFICES ASSUME MemoryInv, [MemoryNext]_memoryVars PROVE MemoryInv'
    OBVIOUS
  <2>1. CASE UNCHANGED memoryVars
    <3>1. UNCHANGED <<routine, to, from, count, answer, memory, given, before>>
      BY <2>1 DEF memoryVars, registers
    <3>3. MemoryTypes' /\ AtEntry'
      BY <3>1 DEF MemoryInv, MemoryTypes, AtEntry, CopiesForward
    <3>4. InCopy' /\ InFill' /\ InBack' /\ InCompare'
      <4>1. InCopy'
        BY <3>1 DEF MemoryInv, InCopy, Written, Done, CopiesForward
      <4>2. InFill'
        BY <3>1 DEF MemoryInv, InFill, Written, Done
      <4>3. InBack'
        BY <3>1 DEF MemoryInv, InBack, Written, WordAdd
      <4>4. InCompare'
        BY <3>1 DEF MemoryInv, InCompare, Same, Done
      <4> QED BY <4>1, <4>2, <4>3, <4>4
    <3>5. Returned'
      BY <3>1 DEF MemoryInv, Returned, Written, Same
    <3> QED BY <3>1, <3>3, <3>4, <3>5 DEF MemoryInv
  <2> QED BY <2>1, EntersLoop, MovesEitherWay, CopiesByte, FillsByte, MovesByteBack, ComparesByte DEF MemoryNext
<1> QED BY <1>1, MemoryStart, MemoryExact, PTL DEF MemorySpec

-----------------------------------------------------------------------------
(* The static audit (ElfAudit). *)

Laid == stage \in {"vectors", "sections", "segments", "accepted"}

\* The symbols that were accepted leave room for the static words, the heap and the stack.
SymbolsSound ==
  Laid =>
    /\ VectorWords <= sym.end /\ sym.end <= sym.bottom
    /\ sym.bottom < RamEnd /\ RamEnd - sym.bottom >= MinStack
    /\ sym.heap = RoundUp(sym.end) /\ sym.heap <= sym.heapEnd /\ sym.heapEnd = sym.bottom

\* No two sections meet, and each is static or the stack.
SectionsApart ==
  /\ \A t \in sections : t[1] < t[2] /\ (t[2] <= sym.end \/ t = StackSpan)
  /\ \A s, t \in sections : s = t \/ s[2] <= t[1] \/ t[2] <= s[1]

EndsAt(m) == (m = 0 \/ \E t \in sections : t[2] = m) /\ \A t \in sections : t[2] <= m

\* Nothing is read before the symbols; some section is the last; and what link.x loads is
\* in a row.
EndRead ==
  /\ stage \in {"header", "symbols", "vectors"} => sections = {} /\ loaded = {} /\ seen = 0
  /\ linker => (seen = 0 => sections = {}) /\ \E k \in Nat : loaded = 0 .. k - 1
  /\ \E m \in 0 .. RamEnd : EndsAt(m)

LoadedSound ==
  /\ loaded \subseteq 0 .. sym.end - 1
  /\ stage = "accepted" => 0 .. VectorWords - 1 \subseteq loaded

AuditInv ==
  /\ AuditTypeOK /\ LinkerPasses /\ SymbolsSound /\ SectionsApart /\ EndRead /\ LoadedSound

-----------------------------------------------------------------------------
\* The heap starts at the next multiple of its alignment.
LEMMA RoundUpSound ==
  ASSUME NEW a \in Nat
  PROVE  RoundUp(a) \in Nat /\ RoundUp(a) >= a /\ RoundUp(a) % HeapAlign = 0
<1>1. HeapAlign \in Nat \ {0}
  BY AuditAssumption
<1>2. PICK q \in Int : /\ q = (a + HeapAlign - 1) \div HeapAlign
                       /\ HeapAlign * q <= a + HeapAlign - 1 /\ a + HeapAlign - 1 < HeapAlign * q + HeapAlign
  BY <1>1
<1>3. q \in Nat
  BY <1>1, <1>2
<1>4. q * HeapAlign = HeapAlign * q /\ q * HeapAlign \in Nat
  BY <1>1, <1>3
<1>5. (q * HeapAlign) % HeapAlign = 0
  BY <1>1, <1>3
<1>6. RoundUp(a) = q * HeapAlign
  BY <1>2 DEF RoundUp
<1> QED BY <1>1, <1>2, <1>4, <1>5, <1>6

LEMMA AuditConstants ==
  /\ RamEnd \in Nat /\ VectorWords \in Nat /\ VectorWords >= 1 /\ VectorWords <= RamEnd
  /\ HeapAlign \in Nat \ {0} /\ StackAlign \in Nat \ {0} /\ MinStack \in Nat \ {0}
  /\ MaxSections \in Nat /\ MaxSegments \in Nat
BY AuditAssumption

LEMMA AuditStart == AuditInit => AuditInv
<1> SUFFICES ASSUME AuditInit PROVE AuditInv
  OBVIOUS
<1>1. AuditTypeOK
  BY AuditConstants DEF AuditInit, AuditTypeOK, Stages, NoSymbols, Address
<1>2. LinkerPasses /\ SymbolsSound /\ SectionsApart
  BY DEF AuditInit, LinkerPasses, SymbolsSound, Laid, SectionsApart
<1>3. EndRead
  <2>1. {} = 0 .. 0 - 1
    OBVIOUS
  <2>2. 0 \in 0 .. RamEnd
    BY AuditConstants
  <2> QED BY <2>1, <2>2 DEF AuditInit, EndRead, EndsAt
<1>4. LoadedSound
  BY DEF AuditInit, LoadedSound
<1> QED BY <1>1, <1>2, <1>3, <1>4 DEF AuditInv

\* Whatever is refused is not link.x's.
LEMMA RefuseKeeps ==
  ASSUME AuditInv, ~linker, RefuseElf
  PROVE  AuditInv'
<1>1. stage' = "refused" /\ UNCHANGED <<linker, sym, sections, seen, segments, loaded>>
  BY DEF RefuseElf
<1>2. AuditTypeOK'
  BY <1>1 DEF AuditInv, AuditTypeOK, Stages
<1>3. LinkerPasses' /\ SymbolsSound' /\ LoadedSound'
  BY <1>1 DEF AuditInv, LinkerPasses, SymbolsSound, Laid, LoadedSound
<1>4. SectionsApart'
  BY <1>1 DEF AuditInv, SectionsApart, StackSpan
<1>5. EndRead'
  BY <1>1 DEF AuditInv, EndRead, EndsAt
<1> QED BY <1>2, <1>3, <1>4, <1>5 DEF AuditInv

\* A step that reads no entry of a table.
LEMMA StageKeeps ==
  ASSUME AuditInv, NEW next \in Stages \ {"refused"}, Proceed(next),
         UNCHANGED <<linker, sym, sections, seen, segments, loaded>>,
         \/ stage \in {"header", "symbols"} /\ next = "symbols"
         \/ Laid /\ next \in {"sections", "segments"}
         \/ Laid /\ next = "accepted" /\ 0 .. VectorWords - 1 \subseteq loaded
  PROVE  AuditInv'
<1>1. stage' = next
  BY DEF Proceed
<1>2. AuditTypeOK'
  BY <1>1 DEF AuditInv, AuditTypeOK, Stages
<1>3. LinkerPasses' /\ LoadedSound' /\ SymbolsSound'
  <2>1. LinkerPasses' /\ LoadedSound'
    BY <1>1 DEF AuditInv, LinkerPasses, LoadedSound
  <2>2. Laid' => Laid
    BY <1>1 DEF Laid
  <2> QED BY <2>1, <2>2 DEF AuditInv, SymbolsSound
<1>4. SectionsApart'
  BY DEF AuditInv, SectionsApart, StackSpan
<1>5. EndRead'
  BY <1>1 DEF AuditInv, EndRead, EndsAt, Laid
<1> QED BY <1>2, <1>3, <1>4, <1>5 DEF AuditInv

LEMMA HeaderKeeps == ASSUME AuditInv, Header PROVE AuditInv'
<1>1. CASE Proceed("symbols") /\ UNCHANGED <<linker, sym, sections, seen, segments, loaded>>
  BY <1>1, StageKeeps DEF Header, Stages
<1>2. CASE ~linker /\ RefuseElf
  BY <1>2, RefuseKeeps
<1> QED BY <1>1, <1>2 DEF Header

LEMMA SymbolsKeep == ASSUME AuditInv, Symbols PROVE AuditInv'
<1> USE AuditConstants
<1>1. PICK end \in Address, bottom \in Address, top \in Address, be \in Address :
      \E bs \in {0, be, end}, heap \in {RoundUp(end), 0}, heapEnd \in {bottom, 0} :
       /\ linker => LinkerSymbols(end, bottom, top, bs, be, heap, heapEnd)
       /\ IF StackSound(end, bottom, top) /\ BssSound(bs, be, end)
             /\ HeapSound(heap, heapEnd, end, bottom)
          THEN /\ Proceed("vectors")
               /\ sym' = [end |-> end, bottom |-> bottom, heap |-> heap, heapEnd |-> heapEnd]
               /\ UNCHANGED <<linker, sections, seen, segments, loaded>>
          ELSE RefuseElf
  BY DEF Symbols
<1>2. PICK bs \in {0, be, end}, heap \in {RoundUp(end), 0}, heapEnd \in {bottom, 0} :
       /\ linker => LinkerSymbols(end, bottom, top, bs, be, heap, heapEnd)
       /\ IF StackSound(end, bottom, top) /\ BssSound(bs, be, end)
             /\ HeapSound(heap, heapEnd, end, bottom)
          THEN /\ Proceed("vectors")
               /\ sym' = [end |-> end, bottom |-> bottom, heap |-> heap, heapEnd |-> heapEnd]
               /\ UNCHANGED <<linker, sections, seen, segments, loaded>>
          ELSE RefuseElf
  BY <1>1
<1>3. end \in 0 .. RamEnd + 1 /\ bottom \in 0 .. RamEnd + 1 /\ top \in 0 .. RamEnd + 1 /\ be \in 0 .. RamEnd + 1
  BY DEF Address
<1>4. stage = "symbols" /\ sections = {} /\ loaded = {} /\ seen = 0
  BY DEF Symbols, AuditInv, EndRead
<1>5. linker => StackSound(end, bottom, top) /\ BssSound(bs, be, end) /\ HeapSound(heap, heapEnd, end, bottom)
  <2> SUFFICES ASSUME LinkerSymbols(end, bottom, top, bs, be, heap, heapEnd)
               PROVE  StackSound(end, bottom, top) /\ BssSound(bs, be, end) /\ HeapSound(heap, heapEnd, end, bottom)
    BY <1>2
  <2>1. StackSound(end, bottom, top)
    BY <1>3 DEF LinkerSymbols, StackSound
  <2>2. BssSound(bs, be, end)
    BY <1>3 DEF LinkerSymbols, BssSound
  <2>3. HeapSound(heap, heapEnd, end, bottom)
    BY DEF LinkerSymbols, HeapSound
  <2> QED BY <2>1, <2>2, <2>3
<1>6. CASE StackSound(end, bottom, top) /\ BssSound(bs, be, end) /\ HeapSound(heap, heapEnd, end, bottom)
  <2>1. /\ stage' = "vectors" /\ sym' = [end |-> end, bottom |-> bottom, heap |-> heap, heapEnd |-> heapEnd]
        /\ UNCHANGED <<linker, sections, seen, segments, loaded>>
    BY <1>2, <1>6 DEF Proceed
  <2>2. /\ VectorWords <= end /\ end <= bottom /\ bottom < RamEnd /\ RamEnd - bottom >= MinStack
        /\ heap = RoundUp(end) /\ heap <= heapEnd /\ heapEnd = bottom
    BY <1>6 DEF StackSound, HeapSound
  <2>3. end \in Address /\ bottom \in Address /\ heapEnd \in Address /\ heap \in Address
    <3>1. heap \in Nat
      BY <1>3, <2>2, RoundUpSound
    <3>2. heap \in 0 .. RamEnd + 1
      BY <1>3, <2>2, <3>1
    <3> QED BY <2>2, <3>2 DEF Address
  <2>4. AuditTypeOK'
    BY <2>1, <2>3 DEF AuditInv, AuditTypeOK, Stages
  <2>5. LinkerPasses' /\ SectionsApart' /\ LoadedSound'
    BY <1>4, <2>1 DEF LinkerPasses, SectionsApart, LoadedSound
  <2>6. SymbolsSound'
    BY <2>1, <2>2 DEF SymbolsSound, RoundUp
  <2>7. EndRead'
    BY <1>4, <2>1 DEF AuditInv, EndRead, EndsAt
  <2> QED BY <2>4, <2>5, <2>6, <2>7 DEF AuditInv
<1>7. CASE ~(StackSound(end, bottom, top) /\ BssSound(bs, be, end) /\ HeapSound(heap, heapEnd, end, bottom))
  BY <1>2, <1>5, <1>7, RefuseKeeps
<1> QED BY <1>6, <1>7

LEMMA VectorsKeep == ASSUME AuditInv, Vectors PROVE AuditInv'
<1>1. Laid
  BY DEF Vectors, Laid
<1>2. \/ Proceed("sections") /\ UNCHANGED <<linker, sym, sections, seen, segments, loaded>>
      \/ ~linker /\ RefuseElf
  BY DEF Vectors
<1> QED BY <1>1, <1>2, StageKeeps, RefuseKeeps DEF Stages

\* What a section header may say, as numbers.
LEMMA HeaderTyped ==
  ASSUME NEW s \in Headers
  PROVE  /\ s.first \in Nat /\ s.size \in Nat /\ Limit(s) = s.first + s.size /\ Limit(s) \in Nat
         /\ s.alloc \in BOOLEAN /\ s.exec \in BOOLEAN /\ s.nobits \in BOOLEAN /\ s.code \in BOOLEAN
         /\ s.name \in {".vectors", ".stack", "other"}
         /\ s.name = ".vectors" => s.first = 0 /\ s.size = VectorWords
<1>1. s.first \in 0 .. RamEnd + 1 /\ s.size \in 0 .. RamEnd + 1
  BY DEF Headers, Address
<1>2. s.first \in Nat /\ s.size \in Nat
  BY <1>1, AuditConstants
<1> QED BY <1>2 DEF Headers, Limit

\* Sections laid out in a row up to the end of the image, then the stack, pass.
LEMMA LinkerSectionPasses ==
  ASSUME AuditInv, stage = "sections", linker, NEW s \in Headers, LinkerSection(s)
  PROVE  Allocated(s) /\ Placed(s) /\ Apart(s) /\ ExecSound(s)
<1> USE AuditConstants
<1>1. /\ s.alloc /\ s.code /\ (s.exec => ~s.nobits) /\ s.size > 0 /\ StackSpan \notin sections
      /\ s.name = ".vectors" => seen = 0 /\ s.exec
      /\ s.name = ".stack" => s.nobits /\ ~s.exec /\ <<s.first, Limit(s)>> = StackSpan
      /\ s.name = "other" => seen > 0 /\ s.first = StaticEnd /\ Limit(s) <= sym.end
  BY HeaderTyped DEF LinkerSection
<1>2. /\ s.first \in Nat /\ s.size \in Nat /\ Limit(s) = s.first + s.size /\ Limit(s) \in Nat
      /\ s.name \in {".vectors", ".stack", "other"}
      /\ s.name = ".vectors" => s.first = 0 /\ s.size = VectorWords
  BY HeaderTyped
<1>3. /\ VectorWords <= sym.end /\ sym.end <= sym.bottom /\ sym.bottom < RamEnd
      /\ sym.end \in Nat /\ sym.bottom \in Nat
  BY DEF AuditInv, SymbolsSound, Laid, AuditTypeOK, Address
<1>4. s.name = ".stack" => s.first = sym.bottom /\ Limit(s) = RamEnd
  BY <1>1 DEF StackSpan
<1>5. Allocated(s) /\ ExecSound(s)
  BY <1>1, <1>2 DEF Allocated, ExecSound
<1>6. Placed(s)
  <2>1. CASE s.name = ".vectors"
    BY <1>2, <1>3, <2>1 DEF Placed
  <2>2. CASE s.name = ".stack"
    BY <1>1, <1>4, <2>2 DEF Placed
  <2>3. CASE s.name = "other"
    BY <1>1, <1>2, <1>3, <2>3 DEF Placed
  <2> QED BY <1>2, <2>1, <2>2, <2>3
<1>7. ASSUME NEW t \in sections PROVE Limit(s) <= t[1] \/ s.first >= t[2]
  <2>1. t[1] \in Nat /\ t[2] \in Nat /\ t[2] <= sym.end
    BY <1>1 DEF AuditInv, AuditTypeOK, SectionsApart
  <2>2. CASE s.name = ".vectors"
    BY <1>1, <2>2 DEF AuditInv, EndRead
  <2>3. CASE s.name = ".stack"
    BY <1>3, <1>4, <2>1, <2>3
  <2>4. CASE s.name = "other"
    <3>1. \E m \in 0 .. RamEnd : EndsAt(m)
      BY DEF AuditInv, EndRead
    <3>2. StaticEnd = CHOOSE m \in 0 .. RamEnd : EndsAt(m)
      BY DEF StaticEnd, EndsAt
    <3>3. EndsAt(StaticEnd)
      BY <3>1, <3>2
    <3> QED BY <1>1, <2>1, <2>4, <3>3 DEF EndsAt
  <2> QED BY <1>2, <2>2, <2>3, <2>4
<1> QED BY <1>5, <1>6, <1>7 DEF Apart

\* A section that is placed and apart from the others joins them.
LEMMA SectionJoins ==
  ASSUME AuditInv, stage = "sections", NEW s \in Headers, Allocated(s), Placed(s), Apart(s),
         sections' = sections \cup {<<s.first, Limit(s)>>}, UNCHANGED sym
  PROVE  /\ sections' \subseteq (0 .. RamEnd) \X (0 .. RamEnd)
         /\ SectionsApart'
         /\ \E m \in 0 .. RamEnd : EndsAt(m)'
<1> USE AuditConstants
<1> DEFINE e == <<s.first, Limit(s)>>
<1>1. /\ s.first \in Nat /\ s.size \in Nat /\ Limit(s) = s.first + s.size /\ Limit(s) \in Nat
  BY HeaderTyped
<1>2. s.size # 0
  BY DEF Allocated
<1>3. /\ Limit(s) <= RamEnd
      /\ \/ s.first = sym.bottom /\ Limit(s) = RamEnd
         \/ Limit(s) <= sym.end
  BY DEF Placed
<1>4. e[1] = s.first /\ e[2] = Limit(s) /\ e \in (0 .. RamEnd) \X (0 .. RamEnd)
  BY <1>1, <1>3
<1>5. e[1] < e[2] /\ (e[2] <= sym.end \/ e = StackSpan)
  BY <1>1, <1>2, <1>3, <1>4 DEF StackSpan
<1>6. \A t \in sections : e[2] <= t[1] \/ t[2] <= e[1]
  <2>1. ASSUME NEW t \in sections PROVE e[2] <= t[1] \/ t[2] <= e[1]
    <3>1. t[2] \in Nat
      BY DEF AuditInv, AuditTypeOK
    <3>2. Limit(s) <= t[1] \/ s.first >= t[2]
      BY DEF Apart
    <3> QED BY <1>1, <1>4, <3>1, <3>2
  <2> QED BY <2>1
<1>7. sections \subseteq (0 .. RamEnd) \X (0 .. RamEnd)
  BY DEF AuditInv, AuditTypeOK
<1> HIDE DEF e
<1>8. sections' = sections \cup {e}
  BY DEF e
<1>9. SectionsApart'
  <2>1. StackSpan' = StackSpan
    BY DEF StackSpan
  <2>2. \A t \in sections' : t[1] < t[2] /\ (t[2] <= sym'.end \/ t = StackSpan')
    BY <1>5, <1>8, <2>1 DEF AuditInv, SectionsApart
  <2>3. \A t, u \in sections' : t = u \/ t[2] <= u[1] \/ u[2] <= t[1]
    BY <1>6, <1>8 DEF AuditInv, SectionsApart
  <2> QED BY <2>2, <2>3 DEF SectionsApart
<1>10. \E m \in 0 .. RamEnd : EndsAt(m)'
  <2>1. PICK m \in 0 .. RamEnd : EndsAt(m)
    BY DEF AuditInv, EndRead
  <2>2. /\ m = 0 \/ \E t \in sections : t[2] = m
        /\ \A t \in sections : t[2] <= m /\ t[2] \in Nat
    BY <1>7, <2>1 DEF EndsAt
  <2>3. PICK last \in 0 .. RamEnd : last = e[2]
    BY <1>1, <1>3, <1>4
  <2>4. CASE last <= m
    <3>1. EndsAt(m)'
      BY <1>8, <2>2, <2>3, <2>4 DEF EndsAt
    <3> QED BY <3>1
  <2>5. CASE m < last
    <3>1. \A t \in sections' : t[2] <= last
      BY <1>8, <2>2, <2>3, <2>5
    <3>2. EndsAt(last)'
      BY <1>8, <2>3, <3>1 DEF EndsAt
    <3> QED BY <3>2
  <2> QED BY <2>4, <2>5
<1> QED BY <1>4, <1>7, <1>8, <1>9, <1>10

LEMMA SectionKeeps == ASSUME AuditInv, Section PROVE AuditInv'
<1>1. PICK s \in Headers :
       /\ linker => LinkerSection(s)
       /\ IF (Allocated(s) => Placed(s) /\ Apart(s)) /\ ExecSound(s)
          THEN /\ sections' = IF Allocated(s) THEN sections \cup {<<s.first, Limit(s)>>} ELSE sections
               /\ seen' = seen + 1
               /\ UNCHANGED <<stage, linker, sym, segments, loaded>>
          ELSE RefuseElf
  BY DEF Section
<1>2. stage = "sections" /\ seen < MaxSections /\ seen \in Nat /\ MaxSections \in Nat
  BY AuditConstants DEF Section, AuditInv, AuditTypeOK
<1>3. CASE ~linker /\ RefuseElf
  BY <1>3, RefuseKeeps
<1>4. CASE /\ Allocated(s) => Placed(s) /\ Apart(s)
           /\ sections' = IF Allocated(s) THEN sections \cup {<<s.first, Limit(s)>>} ELSE sections
           /\ seen' = seen + 1 /\ UNCHANGED <<stage, linker, sym, segments, loaded>>
  <2>1. /\ sections' \subseteq (0 .. RamEnd) \X (0 .. RamEnd)
        /\ SectionsApart' /\ \E m \in 0 .. RamEnd : EndsAt(m)'
    <3>1. CASE Allocated(s)
      BY <1>2, <1>4, <3>1, SectionJoins
    <3>2. CASE ~Allocated(s)
      <4>1. sections' = sections /\ sym' = sym
        BY <1>4, <3>2
      <4>2. SectionsApart'
        BY <4>1 DEF AuditInv, SectionsApart, StackSpan
      <4>3. sections' \subseteq (0 .. RamEnd) \X (0 .. RamEnd)
        BY <4>1 DEF AuditInv, AuditTypeOK
      <4> QED BY <4>1, <4>2, <4>3 DEF AuditInv, EndRead, EndsAt
    <3> QED BY <3>1, <3>2
  <2>2. seen' \in 0 .. MaxSections /\ seen' # 0
    BY <1>2, <1>4
  <2>3. AuditTypeOK'
    BY <1>4, <2>1, <2>2 DEF AuditInv, AuditTypeOK
  <2>4. LinkerPasses' /\ LoadedSound'
    BY <1>4 DEF AuditInv, LinkerPasses, LoadedSound
  <2>5. SymbolsSound'
    BY <1>4 DEF AuditInv, SymbolsSound, Laid
  <2>6. EndRead'
    BY <1>2, <1>4, <2>1, <2>2 DEF AuditInv, EndRead
  <2> QED BY <2>1, <2>3, <2>4, <2>5, <2>6 DEF AuditInv
<1> QED BY <1>1, <1>2, <1>3, <1>4, LinkerSectionPasses

\* What link.x loads comes in a row, so nothing is loaded twice.
LEMMA LinkerSegmentPasses ==
  ASSUME AuditInv, linker, NEW pa \in Nat, NEW filed \in Nat, pa = Cardinality(loaded)
  PROVE  /\ (pa .. pa + filed - 1) \cap loaded = {}
         /\ \E k \in Nat : loaded \cup (pa .. pa + filed - 1) = 0 .. k - 1
<1>1. PICK k \in Nat : loaded = 0 .. k - 1
  BY DEF AuditInv, EndRead
<1>2. Cardinality(0 .. k - 1) = k
  <2>1. k - 1 \in Int /\ 0 \in Int
    OBVIOUS
  <2>2. Cardinality(0 .. k - 1) = IF 0 > k - 1 THEN 0 ELSE k - 1 - 0 + 1
    BY <2>1, FS_Interval
  <2> QED BY <2>2
<1>3. pa = k
  BY <1>1, <1>2
<1>4. (0 .. k - 1) \cup (k .. k + filed - 1) = 0 .. (k + filed) - 1
  OBVIOUS
<1>5. (k .. k + filed - 1) \cap (0 .. k - 1) = {}
  OBVIOUS
<1>6. k + filed \in Nat
  OBVIOUS
<1> QED BY <1>1, <1>3, <1>4, <1>5, <1>6

LEMMA SegmentKeeps == ASSUME AuditInv, Segment PROVE AuditInv'
<1>1. PICK pa \in Address, filed \in Address, memory_ \in Address, va \in Address, same \in BOOLEAN :
        LET cells == pa .. pa + filed - 1
        IN  /\ linker => va = pa /\ pa = Cardinality(loaded) /\ memory_ >= filed
                         /\ pa + filed <= sym.end /\ pa + memory_ <= RamEnd
            /\ IF SegmentSound(va, pa, filed, memory_) /\ (cells \cap loaded = {} \/ same)
               THEN /\ loaded' = loaded \cup cells /\ segments' = segments + 1
                    /\ UNCHANGED <<stage, linker, sym, sections, seen>>
               ELSE RefuseElf
  BY DEF Segment
<1> DEFINE cells == pa .. pa + filed - 1
<1>2. stage = "segments" /\ segments < MaxSegments /\ segments \in Nat /\ MaxSegments \in Nat
  BY AuditConstants DEF Segment, AuditInv, AuditTypeOK
<1>3. /\ pa \in Nat /\ filed \in Nat /\ memory_ \in Nat /\ sym.end \in Nat /\ RamEnd \in Nat
      /\ sym.end <= RamEnd
  <2>1. pa \in Nat /\ filed \in Nat /\ memory_ \in Nat /\ sym.end \in Nat /\ sym.bottom \in Nat
    BY AuditConstants DEF Address, AuditInv, AuditTypeOK
  <2> QED BY <1>2, <2>1, AuditConstants DEF AuditInv, SymbolsSound, Laid
<1>4. linker => SegmentSound(va, pa, filed, memory_) /\ cells \cap loaded = {}
  BY <1>1, <1>3, LinkerSegmentPasses DEF SegmentSound
<1>5. CASE ~linker /\ RefuseElf
  BY <1>5, RefuseKeeps
<1>6. CASE /\ SegmentSound(va, pa, filed, memory_) /\ loaded' = loaded \cup cells /\ segments' = segments + 1
           /\ UNCHANGED <<stage, linker, sym, sections, seen>>
  <2>1. cells \subseteq 0 .. sym.end - 1
    BY <1>3, <1>6 DEF SegmentSound
  <2>2. loaded' \subseteq 0 .. sym.end - 1 /\ 0 .. sym.end - 1 \subseteq 0 .. RamEnd - 1
    BY <1>3, <1>6, <2>1 DEF AuditInv, LoadedSound
  <2>3. segments' \in 0 .. MaxSegments
    BY <1>2, <1>6
  <2>4. AuditTypeOK'
    BY <1>6, <2>2, <2>3 DEF AuditInv, AuditTypeOK
  <2>5. LinkerPasses' /\ SectionsApart' /\ SymbolsSound'
    <3>1. LinkerPasses' /\ SectionsApart'
      BY <1>6 DEF AuditInv, LinkerPasses, SectionsApart, StackSpan
    <3>2. SymbolsSound'
      BY <1>6 DEF AuditInv, SymbolsSound, Laid
    <3> QED BY <3>1, <3>2
  <2>6. LoadedSound'
    BY <1>2, <1>6, <2>2 DEF LoadedSound
  <2>7. EndRead'
    <3>1. linker' => \E k \in Nat : loaded' = 0 .. k - 1
      BY <1>1, <1>3, <1>6, LinkerSegmentPasses
    <3> QED BY <1>2, <1>6, <3>1 DEF AuditInv, EndRead, EndsAt
  <2> QED BY <2>4, <2>5, <2>6, <2>7 DEF AuditInv
<1> QED BY <1>1, <1>4, <1>5, <1>6

LEMMA VerdictKeeps == ASSUME AuditInv, Verdict PROVE AuditInv'
<1>1. Laid
  BY DEF Verdict, Laid
<1>2. \/ /\ 0 .. VectorWords - 1 \subseteq loaded /\ Proceed("accepted")
         /\ UNCHANGED <<linker, sym, sections, seen, segments, loaded>>
      \/ ~linker /\ RefuseElf
  BY DEF Verdict
<1> QED BY <1>1, <1>2, StageKeeps, RefuseKeeps DEF Stages

LEMMA AuditStep == AuditInv /\ [AuditNext]_auditVars => AuditInv'
<1> SUFFICES ASSUME AuditInv, [AuditNext]_auditVars PROVE AuditInv'
  OBVIOUS
<1>1. CASE UNCHANGED auditVars
  <2>1. UNCHANGED <<stage, linker, sym, sections, seen, segments, loaded>>
    BY <1>1 DEF auditVars
  <2>2. AuditTypeOK' /\ LinkerPasses' /\ LoadedSound'
    BY <2>1 DEF AuditInv, AuditTypeOK, LinkerPasses, LoadedSound
  <2>3. SymbolsSound' /\ SectionsApart'
    BY <2>1 DEF AuditInv, SymbolsSound, Laid, SectionsApart, StackSpan
  <2>4. EndRead'
    BY <2>1 DEF AuditInv, EndRead, EndsAt
  <2> QED BY <2>2, <2>3, <2>4 DEF AuditInv
<1>2. CASE MissingSymbol
  BY <1>2, RefuseKeeps DEF MissingSymbol
<1>3. CASE SectionsDone
  BY <1>3, StageKeeps DEF SectionsDone, Laid, Stages
<1> QED BY <1>1, <1>2, <1>3, HeaderKeeps, SymbolsKeep, VectorsKeep, SectionKeeps, SegmentKeeps, VerdictKeeps DEF AuditNext

LEMMA AuditSafe == ASSUME AuditInv PROVE LayoutSafe
<1> USE AuditConstants
<1>1. AuditTypeOK /\ LinkerPasses
  BY DEF AuditInv
<1>2. SUFFICES ASSUME stage = "accepted"
      PROVE /\ Static \cap HeapOf = {} /\ Static \cap Stack = {} /\ HeapOf \cap Stack = {}
            /\ Static \cup HeapOf \cup Stack \subseteq 0 .. RamEnd - 1
            /\ sym.heap % HeapAlign = 0 /\ Cardinality(Stack) >= MinStack
            /\ \A s, t \in sections : s = t \/ Span(s) \cap Span(t) = {}
            /\ \A s \in sections : Span(s) \subseteq Static \/ Span(s) = Stack
            /\ loaded \subseteq Static /\ 0 .. VectorWords - 1 \subseteq loaded
  BY <1>1 DEF LayoutSafe
<1>3. /\ sym.end <= sym.bottom /\ sym.bottom < RamEnd /\ RamEnd - sym.bottom >= MinStack
      /\ sym.heap = RoundUp(sym.end) /\ sym.heap <= sym.heapEnd /\ sym.heapEnd = sym.bottom
      /\ sym.end \in Nat /\ sym.bottom \in Nat
  BY <1>2 DEF AuditInv, SymbolsSound, Laid, AuditTypeOK, Address
<1>4. sym.heap \in Nat /\ sym.heap >= sym.end /\ sym.heap % HeapAlign = 0
  BY <1>3, RoundUpSound
<1>5. Static \cap HeapOf = {} /\ Static \cap Stack = {} /\ HeapOf \cap Stack = {}
  BY <1>3, <1>4 DEF Static, HeapOf, Stack
<1>6. Static \cup HeapOf \cup Stack \subseteq 0 .. RamEnd - 1
  BY <1>3, <1>4 DEF Static, HeapOf, Stack
<1>7. Cardinality(Stack) >= MinStack
  <2>1. sym.bottom \in Int /\ RamEnd - 1 \in Int
    BY <1>3
  <2>2. Cardinality(Stack) = IF sym.bottom > RamEnd - 1 THEN 0 ELSE RamEnd - 1 - sym.bottom + 1
    BY <2>1, FS_Interval DEF Stack
  <2> QED BY <1>3, <2>2
<1>8. ASSUME NEW s \in sections, NEW t \in sections PROVE s = t \/ Span(s) \cap Span(t) = {}
  <2>1. s[1] \in Nat /\ s[2] \in Nat /\ t[1] \in Nat /\ t[2] \in Nat
    BY <1>1 DEF AuditTypeOK
  <2>2. s = t \/ s[2] <= t[1] \/ t[2] <= s[1]
    BY DEF AuditInv, SectionsApart
  <2> QED BY <2>1, <2>2 DEF Span
<1>9. ASSUME NEW s \in sections PROVE Span(s) \subseteq Static \/ Span(s) = Stack
  <2>1. s[1] \in Nat /\ s[2] \in Nat
    BY <1>1 DEF AuditTypeOK
  <2>2. s[2] <= sym.end \/ s = StackSpan
    BY DEF AuditInv, SectionsApart
  <2>3. CASE s[2] <= sym.end
    BY <1>3, <2>1, <2>3 DEF Span, Static
  <2>4. CASE s = StackSpan
    BY <2>4 DEF Span, Stack, StackSpan
  <2> QED BY <2>2, <2>3, <2>4
<1>10. loaded \subseteq Static /\ 0 .. VectorWords - 1 \subseteq loaded
  BY <1>2 DEF AuditInv, LoadedSound, Static
<1> QED BY <1>4, <1>5, <1>6, <1>7, <1>8, <1>9, <1>10

\* For every RAM, alignment and file: an accepted image never meets its heap or its stack,
\* and whatever link.x lays out is accepted (image.rs, Elf::parse).
THEOREM AcceptedIsSafe == AuditSpec => []LayoutSafe
BY AuditStart, AuditStep, AuditSafe, PTL DEF AuditSpec

-----------------------------------------------------------------------------
(* The firmware tests (FirmwareTests). *)

MainSteps == {"idle", "init", "fetch", "checkout", "head", "status", "finish", "spawn", "join", "abort"}
Working == step \in {"join", "abort"}

\* A command in progress has its jobs, and no outcome yet.
CommandOK ==
  /\ TestsTypeOK /\ step \in MainSteps
  /\ trouble \in BOOLEAN /\ pinned \in BOOLEAN /\ touched \in BOOLEAN
  /\ job \in [Threads -> 0 .. Firmware] /\ passed \in [Threads -> SUBSET Built]
  /\ step = "idle" => command = Idle
  /\ step # "idle" => command.last \in Built /\ command.first <= command.last /\ ended = "none"

\* Nothing has been run while no worker runs.
Quiet ==
  ~Working =>
    /\ counter = 1 /\ joined = 0 /\ trouble = FALSE /\ pinned = TRUE
    /\ at = [w \in Threads |-> "off"] /\ job = [w \in Threads |-> 0]
    /\ passed = [w \in Threads |-> {}] /\ ran = [i \in Built |-> 0]

Failed(w) == at[w] \in {"failed", "panicked"}
Holds(w) == at[w] \in {"read", "load", "scenario"} \/ Failed(w)
Ready == {w \in Threads : at[w] = "done"}

CrewOK ==
  /\ \A w \in Threads : w \in Crew <=> at[w] # "off"
  /\ \A w \in Threads \ Crew : passed[w] = {}
  /\ \A w \in Threads : at[w] = "load" => Official
  /\ joined <= Cardinality(Crew) /\ \A w \in Threads : w <= joined => at[w] = "done"
  /\ trouble => \E w \in Crew : Failed(w)

\* A job that was claimed is held by one worker, or has passed once.
ClaimsOK ==
  /\ \A w \in Threads : Holds(w) =>
       /\ job[w] \in Jobs /\ job[w] < counter
       /\ \A y \in Threads : job[w] \notin passed[y] /\ (y # w /\ Holds(y) => job[y] # job[w])
  /\ \A w \in Threads : \A i \in passed[w] : i \in Jobs /\ i < counter
  /\ \A i \in Jobs : i < counter => \E w \in Threads : i \in passed[w] \/ (Holds(w) /\ job[w] = i)
  /\ \A i \in Built : ran[i] = IF \E w \in Threads : i \in passed[w] THEN 1 ELSE 0

\* The counter passes the last job once for every worker that is done.
CountOK ==
  /\ counter >= command.first /\ counter <= command.last + 1 + Cardinality(Ready)
  /\ \A w \in Ready : counter > command.last

\* What was checked of the checkout is so still, unless a user changed it.
CheckedOK ==
  ~touched =>
    /\ pinned = TRUE
    /\ step = "status" => checkout.head = "pin"
    /\ step \in {"finish", "spawn", "join", "abort"} /\ command.kind # "smoke" => Pinned

TestsInv == CommandOK /\ Quiet /\ CheckedOK /\ (Working => CrewOK /\ ClaimsOK /\ CountOK)

-----------------------------------------------------------------------------
LEMMA TestsConstants ==
  /\ Firmware \in Nat /\ Firmware >= 2 /\ Workers \in Nat /\ Workers >= 1
  /\ 1 \in Built /\ Firmware \in Built /\ 1 \in Threads
BY FirmwareTestsAssumption DEF Built, Threads

\* The crew is the first threads, at least one.
LEMMA CrewFacts ==
  /\ Crew \subseteq Threads /\ 1 \in Crew /\ Cardinality(Crew) \in 1 .. Workers
  /\ \A w \in Threads : w \in Crew <=> w <= Cardinality(Crew)
<1> USE TestsConstants
<1>1. CASE Official
  <2>1. Cardinality(1 .. Workers) = IF 1 > Workers THEN 0 ELSE Workers - 1 + 1
    BY FS_Interval
  <2>2. Cardinality(Crew) = Workers
    BY <1>1, <2>1 DEF Crew, Threads
  <2> QED BY <1>1, <2>2 DEF Crew, Threads
<1>2. CASE ~Official
  <2>1. Cardinality({1}) = 1
    BY FS_Singleton
  <2>2. Crew = {1}
    BY <1>2 DEF Crew
  <2>3. Cardinality(Crew) = 1
    BY <2>1, <2>2
  <2> QED BY <2>2, <2>3 DEF Threads
<1> QED BY <1>1, <1>2

LEMMA IdleCommand == Idle \in [kind : Kinds, first : Built, last : 0 .. Firmware]
BY TestsConstants DEF Idle, Kinds, Built

LEMMA TestsStart == TestsInit => TestsInv
<1> USE TestsConstants
<1> SUFFICES ASSUME TestsInit PROVE TestsInv
  OBVIOUS
<1>1. TestsTypeOK
  BY IdleCommand DEF TestsInit, TestsTypeOK, Absent, Built, Threads
<1>2. CommandOK
  <2>1. job \in [Threads -> 0 .. Firmware] /\ passed \in [Threads -> SUBSET Built]
    BY DEF TestsInit
  <2>2. /\ trouble \in BOOLEAN /\ pinned \in BOOLEAN /\ touched \in BOOLEAN
        /\ step = "idle" /\ command = Idle
    BY DEF TestsInit
  <2> QED BY <1>1, <2>1, <2>2 DEF CommandOK, MainSteps
<1>3. Quiet /\ CheckedOK /\ ~Working
  BY DEF TestsInit, Quiet, CheckedOK, Working
<1> QED BY <1>2, <1>3 DEF TestsInv

\* However a command ends, nothing of it is left.
LEMMA EndKeeps ==
  ASSUME TestsInv, NEW outcome \in {"ok", "failed", "offline"}, End(outcome),
         UNCHANGED <<checkout, intact>>, report'.lists \subseteq Built
  PROVE  TestsInv'
<1> USE TestsConstants
<1>1. /\ step' = "idle" /\ ended' = outcome /\ command' = Idle
      /\ counter' = 1 /\ joined' = 0
      /\ at' = [w \in Threads |-> "off"] /\ job' = [w \in Threads |-> 0]
      /\ passed' = [w \in Threads |-> {}]
      /\ ran' = [i \in Built |-> 0] /\ trouble' = FALSE /\ pinned' = TRUE
      /\ touched' = FALSE
  BY DEF End
<1>2. TestsTypeOK'
  BY <1>1, IdleCommand DEF TestsInv, CommandOK, TestsTypeOK, Built, Threads
<1>3. CommandOK'
  <2>1. job' \in [Threads -> 0 .. Firmware] /\ passed' \in [Threads -> SUBSET Built]
    BY <1>1
  <2>2. trouble' \in BOOLEAN /\ pinned' \in BOOLEAN /\ touched' \in BOOLEAN
    BY <1>1
  <2> QED BY <1>1, <1>2, <2>1, <2>2 DEF CommandOK, MainSteps
<1>4. Quiet' /\ CheckedOK' /\ ~Working'
  BY <1>1 DEF Quiet, CheckedOK, Working
<1> QED BY <1>3, <1>4 DEF TestsInv

\* Steps of the main thread while no worker runs.
LEMMA QuietKeeps ==
  ASSUME TestsInv, ~Working, step # "idle",
         step' \in MainSteps \ {"idle", "join", "abort"},
         UNCHANGED <<workers, truth, command, ended, touched, intact, report>>,
         checkout' \in [exists : BOOLEAN, fetched : BOOLEAN, head : {"none", "pin", "other"}, dirty : BOOLEAN],
         ~touched =>
            /\ step' = "status" => checkout'.head = "pin"
            /\ step' \in {"finish", "spawn"} /\ command.kind # "smoke" => Pinned'
  PROVE  TestsInv'
<1>1. UNCHANGED <<counter, at, job, passed, joined, ran, trouble, pinned, command, ended, touched, intact, report>>
  BY DEF workers, truth
<1>2. TestsTypeOK'
  BY <1>1 DEF TestsInv, CommandOK, TestsTypeOK
<1>3. CommandOK'
  BY <1>1, <1>2 DEF TestsInv, CommandOK
<1>4. Quiet'
  BY <1>1 DEF TestsInv, Quiet
<1>5. CheckedOK'
  BY <1>1 DEF TestsInv, CheckedOK, MainSteps
<1>6. ~Working'
  BY DEF Working
<1> QED BY <1>3, <1>4, <1>5, <1>6 DEF TestsInv

LEMMA FetchKeeps ==
  ASSUME TestsInv, GitInit \/ GitFetch \/ GitCheckout
  PROVE  TestsInv'
<1>1. /\ step \in {"init", "fetch", "checkout"} /\ step' \in {"fetch", "checkout", "head"}
      /\ UNCHANGED <<workers, truth, command, ended, touched, intact, report>>
  BY DEF GitInit, GitFetch, GitCheckout, GoTo
<1>2. checkout' \in [exists : BOOLEAN, fetched : BOOLEAN, head : {"none", "pin", "other"}, dirty : BOOLEAN]
  BY DEF TestsInv, CommandOK, TestsTypeOK, GitInit, GitFetch, GitCheckout
<1> QED BY <1>1, <1>2, QuietKeeps DEF Working, MainSteps

LEMMA CheckKeeps ==
  ASSUME TestsInv, CheckHead \/ CheckStatus
  PROVE  TestsInv'
<1>1. checkout \in [exists : BOOLEAN, fetched : BOOLEAN, head : {"none", "pin", "other"}, dirty : BOOLEAN]
      /\ report.lists \subseteq Built
  BY DEF TestsInv, CommandOK, TestsTypeOK
<1>2. UNCHANGED <<checkout, intact, report>>
  BY DEF CheckHead, CheckStatus, disk
<1>3. CASE End("failed")
  BY <1>1, <1>2, <1>3, EndKeeps
<1>4. CASE CheckHead /\ HeadMatches /\ GoTo("status")
  <2>1. /\ step = "head" /\ step' = "status" /\ checkout'.head = "pin"
        /\ UNCHANGED <<workers, truth, command, ended, touched, intact, report>>
    BY <1>2, <1>4 DEF CheckHead, HeadMatches, GoTo
  <2> QED BY <1>1, <1>2, <2>1, QuietKeeps DEF Working, MainSteps
<1>5. CASE CheckStatus /\ CleanTree /\ GoTo(AfterCheck)
  <2>1. /\ step = "status" /\ step' \in {"finish", "spawn"} /\ checkout.dirty = FALSE
        /\ UNCHANGED <<workers, truth, command, ended, touched, intact, report>>
    BY <1>1, <1>2, <1>5 DEF CheckStatus, CleanTree, GoTo, AfterCheck
  <2>2. ~touched => Pinned'
    BY <1>2, <2>1 DEF TestsInv, CheckedOK, Pinned
  <2> QED BY <1>1, <1>2, <2>1, <2>2, QuietKeeps DEF Working, MainSteps
<1> QED BY <1>3, <1>4, <1>5 DEF CheckHead, CheckStatus

LEMMA StartKeeps ==
  ASSUME TestsInv, Start
  PROVE  TestsInv'
<1> USE TestsConstants
<1>1. PICK kind \in Kinds \ {"idle"}, first \in Built, last \in Built :
        /\ first = last \/ (first = 1 /\ last = Firmware)
        /\ command' = [kind |-> kind, first |-> first, last |-> last]
        /\ step' = FirstStep(kind)
  BY DEF Start
<1>2. /\ step = "idle" /\ ended' = "none" /\ touched' = FALSE
      /\ UNCHANGED <<checkout, intact, report, counter, at, job, passed, joined, ran, trouble, pinned>>
  BY DEF Start, disk, workers, truth
<1>3. first <= last /\ last \in 0 .. Firmware
  BY <1>1 DEF Built
<1>4. step' \in {"init", "head", "spawn"} /\ (step' = "spawn" => kind = "smoke")
  BY <1>1 DEF FirstStep, Kinds
<1>5. TestsTypeOK'
  BY <1>1, <1>2, <1>3 DEF TestsInv, CommandOK, TestsTypeOK
<1>6. CommandOK'
  BY <1>1, <1>2, <1>3, <1>4, <1>5 DEF TestsInv, CommandOK, MainSteps
<1>7. ~Working /\ ~Working'
  BY <1>2, <1>4 DEF Working
<1>8. Quiet'
  BY <1>2, <1>7 DEF TestsInv, Quiet
<1>9. CheckedOK'
  <2>1. pinned' = TRUE
    BY <1>2, <1>7 DEF TestsInv, Quiet
  <2> QED BY <1>1, <1>4, <2>1 DEF CheckedOK
<1> QED BY <1>6, <1>7, <1>8, <1>9 DEF TestsInv

LEMMA SpawnKeeps ==
  ASSUME TestsInv, Spawn
  PROVE  TestsInv'
<1> USE TestsConstants
<1>1. /\ step = "spawn" /\ step' = "join" /\ counter' = command.first /\ joined' = 0
      /\ at' = [w \in Threads |-> IF w \in Crew THEN "claim" ELSE "off"]
      /\ passed' = [w \in Threads |-> {}] /\ job' = [w \in Threads |-> 0]
      /\ UNCHANGED <<checkout, intact, report, ran, trouble, pinned, command, ended, touched>>
  BY DEF Spawn, disk, truth
<1>2. /\ trouble = FALSE /\ pinned = TRUE /\ ran = [i \in Built |-> 0]
  BY <1>1 DEF TestsInv, Quiet, Working
<1>3. command.first \in 1 .. Firmware /\ command.last \in 1 .. Firmware /\ command.first <= command.last
  BY <1>1 DEF TestsInv, CommandOK, TestsTypeOK, Built
<1>4. Crew' = Crew /\ Crew \subseteq Threads /\ Cardinality(Crew) \in Nat
  BY <1>1, CrewFacts DEF Crew, Official
<1>5. TestsTypeOK'
  <2>1. counter' \in 1 .. Firmware + 1 + Workers
    BY <1>1, <1>3
  <2> QED BY <1>1, <2>1 DEF TestsInv, CommandOK, TestsTypeOK
<1>6. CommandOK'
  BY <1>1, <1>5 DEF TestsInv, CommandOK, MainSteps
<1>7. Working' /\ Quiet'
  BY <1>1 DEF Working, Quiet
<1>8. CheckedOK'
  BY <1>1, <1>2 DEF TestsInv, CheckedOK, Pinned
<1>9. \A w \in Threads : at'[w] \in {"claim", "off"} /\ ~Holds(w)' /\ passed'[w] = {}
  BY <1>1 DEF Holds, Failed
<1>10. CrewOK'
  <2>1. \A w \in Threads : w \in Crew' <=> at'[w] # "off"
    BY <1>1, <1>4
  <2>2. \A w \in Threads : w <= joined' => at'[w] = "done"
    BY <1>1 DEF Threads
  <2>3. \A w \in Threads : at'[w] # "load"
    BY <1>9
  <2> QED BY <1>1, <1>2, <1>4, <1>9, <2>1, <2>2, <2>3 DEF CrewOK
<1>11. ClaimsOK'
  <2>1. \A i \in Jobs' : ~(i < counter')
    BY <1>1, <1>3 DEF Jobs
  <2>2. \A i \in Built : ran'[i] = 0
    BY <1>1, <1>2
  <2> QED BY <1>9, <2>1, <2>2 DEF ClaimsOK
<1>12. CountOK'
  <2>1. Ready' = {}
    BY <1>9 DEF Ready
  <2>2. Cardinality(Ready') = 0
    BY <2>1, FS_EmptySet
  <2> QED BY <1>1, <1>3, <2>1, <2>2 DEF CountOK
<1> QED BY <1>6, <1>7, <1>8, <1>10, <1>11, <1>12 DEF TestsInv

-----------------------------------------------------------------------------
\* A worker that is not off belongs to a command whose jobs are being run.
LEMMA AtWork ==
  ASSUME TestsInv, NEW w \in Threads, at[w] # "off"
  PROVE  /\ Working /\ CrewOK /\ ClaimsOK /\ CountOK /\ w \in Crew
         /\ command.first \in 1 .. Firmware /\ command.last \in 1 .. Firmware
         /\ command.first <= command.last /\ counter \in Nat
         /\ job[w] \in 0 .. Firmware /\ passed[w] \subseteq Built
<1>1. Working
  BY DEF TestsInv, Quiet
<1>2. CrewOK /\ ClaimsOK /\ CountOK
  BY <1>1 DEF TestsInv
<1>3. w \in Crew
  BY <1>2 DEF CrewOK
<1>4. command.first \in 1 .. Firmware /\ command.last \in 1 .. Firmware /\ command.first <= command.last
  BY <1>1 DEF TestsInv, CommandOK, TestsTypeOK, Built, Working
<1>5. counter \in Nat
  BY TestsConstants DEF TestsInv, CommandOK, TestsTypeOK
<1>6. job[w] \in 0 .. Firmware /\ passed[w] \subseteq Built
  BY DEF TestsInv, CommandOK
<1> QED BY <1>1, <1>2, <1>3, <1>4, <1>5, <1>6

LEMMA ThreadSets ==
  ASSUME NEW S \in SUBSET Threads
  PROVE  IsFiniteSet(S) /\ Cardinality(S) \in 0 .. Workers
<1> USE TestsConstants
<1>1. IsFiniteSet(Threads) /\ Cardinality(Threads) = Workers
  <2>1. IsFiniteSet(1 .. Workers) /\ Cardinality(1 .. Workers) = IF 1 > Workers THEN 0 ELSE Workers - 1 + 1
    BY FS_Interval
  <2> QED BY <2>1 DEF Threads
<1>2. IsFiniteSet(S) /\ Cardinality(S) <= Cardinality(Threads)
  BY <1>1, FS_Subset
<1>3. Cardinality(S) \in Nat
  BY <1>2, FS_CardinalityType
<1> QED BY <1>1, <1>2, <1>3

\* What a worker's step leaves alone, and the bound on the counter.
LEMMA WorkerStep ==
  ASSUME TestsInv, Working, UNCHANGED <<disk, command, step, ended, touched, joined>>,
         counter' \in Nat, trouble' \in BOOLEAN, pinned' \in BOOLEAN, ~touched => pinned' = TRUE,
         at' \in [Threads -> {"off", "claim", "read", "load", "scenario", "done", "failed", "panicked"}],
         job' \in [Threads -> 0 .. Firmware], passed' \in [Threads -> SUBSET Built],
         ran' \in [Built -> Nat], CrewOK', ClaimsOK', CountOK'
  PROVE  TestsInv'
<1> USE TestsConstants
<1>1. UNCHANGED <<checkout, intact, report, command, step, ended, touched, joined>>
  BY DEF disk
<1>2. counter' \in 1 .. Firmware + 1 + Workers
  <2>1. Cardinality(Ready') \in 0 .. Workers
    BY ThreadSets DEF Ready
  <2>2. command.first \in 1 .. Firmware /\ command.last \in 1 .. Firmware
    BY DEF TestsInv, CommandOK, TestsTypeOK, Built, Working
  <2>3. counter' >= command.first /\ counter' <= command.last + 1 + Cardinality(Ready')
    BY <1>1 DEF CountOK
  <2> HIDE DEF Ready
  <2> QED BY <2>1, <2>2, <2>3
<1>3. \A w \in Threads : passed'[w] \subseteq Built /\ job'[w] \in 0 .. Firmware
  OBVIOUS
<1>4. TestsTypeOK'
  BY <1>1, <1>2, <1>3 DEF TestsInv, CommandOK, TestsTypeOK
<1>5. CommandOK'
  BY <1>1, <1>4 DEF TestsInv, CommandOK
<1>6. Quiet' /\ CheckedOK'
  BY <1>1 DEF TestsInv, Quiet, CheckedOK, Working, Pinned
<1> QED BY <1>5, <1>6 DEF TestsInv

\* A worker that moves on keeps its place in the crew.
LEMMA CrewMoves ==
  ASSUME TestsInv, NEW w \in Threads, NEW p \in {"claim", "read", "load", "scenario", "done", "failed", "panicked"},
         at[w] \notin {"off", "done", "failed", "panicked"}, MoveTo(w, p), UNCHANGED <<command, joined>>,
         p = "load" => Official, \A y \in Threads : y # w => passed'[y] = passed[y],
         trouble' => trouble \/ p \in {"failed", "panicked"}
  PROVE  /\ CrewOK'
         /\ at' \in [Threads -> {"off", "claim", "read", "load", "scenario", "done", "failed", "panicked"}]
<1>1. CrewOK /\ w \in Crew
  BY AtWork
<1>2. Crew' = Crew /\ (Official' <=> Official)
  BY DEF Crew, Official
<1>3. at \in [Threads -> {"off", "claim", "read", "load", "scenario", "done", "failed", "panicked"}]
  BY DEF TestsInv, CommandOK, TestsTypeOK
<1>4. at' \in [Threads -> {"off", "claim", "read", "load", "scenario", "done", "failed", "panicked"}]
      /\ at'[w] = p /\ \A y \in Threads : y # w => at'[y] = at[y]
  BY <1>3 DEF MoveTo
<1>5. \A y \in Threads : y \in Crew' <=> at'[y] # "off"
  BY <1>1, <1>2, <1>4 DEF CrewOK
<1>6. \A y \in Threads \ Crew' : passed'[y] = {}
  BY <1>1, <1>2 DEF CrewOK
<1>7. \A y \in Threads : at'[y] = "load" => Official'
  BY <1>1, <1>2, <1>4 DEF CrewOK
<1>8. joined' <= Cardinality(Crew') /\ \A y \in Threads : y <= joined' => at'[y] = "done"
  BY <1>1, <1>2, <1>4 DEF CrewOK
<1>9. trouble' => \E y \in Crew' : Failed(y)'
  <2>1. CASE p \in {"failed", "panicked"}
    BY <2>1, <1>1, <1>2, <1>4 DEF Failed
  <2>2. CASE trouble
    <3>1. PICK y \in Crew : Failed(y)
      BY <2>2, <1>1 DEF CrewOK
    <3>2. y \in Threads /\ y # w
      BY <3>1, CrewFacts DEF Failed
    <3> QED BY <3>1, <3>2, <1>2, <1>4 DEF Failed
  <2> QED BY <2>1, <2>2
<1> QED BY <1>4, <1>5, <1>6, <1>7, <1>8, <1>9 DEF CrewOK

\* Whoever keeps the job held changes nothing of what was claimed.
LEMMA HeldKeeps ==
  ASSUME TestsInv, NEW w \in Threads, NEW p \in {"load", "scenario", "failed", "panicked"},
         at[w] \in {"read", "load", "scenario"}, MoveTo(w, p),
         UNCHANGED <<counter, job, passed, ran, command>>
  PROVE  ClaimsOK' /\ CountOK'
<1>1. ClaimsOK /\ CountOK
  BY AtWork
<1>2. at \in [Threads -> {"off", "claim", "read", "load", "scenario", "done", "failed", "panicked"}]
  BY DEF TestsInv, CommandOK, TestsTypeOK
<1>3. at'[w] = p /\ \A y \in Threads : y # w => at'[y] = at[y]
  BY <1>2 DEF MoveTo
<1>4. \A y \in Threads : Holds(y)' <=> Holds(y)
  BY <1>3 DEF Holds, Failed
<1>5. Ready' = Ready
  BY <1>3 DEF Ready
<1>6. Jobs' = Jobs
  BY DEF Jobs
<1>7. ClaimsOK'
  BY <1>1, <1>4, <1>6 DEF ClaimsOK
<1>8. CountOK'
  BY <1>1, <1>5 DEF CountOK
<1> QED BY <1>7, <1>8

-----------------------------------------------------------------------------
\* A job is claimed: every job before it was claimed already, and nobody is done.
LEMMA TakeKeeps ==
  ASSUME TestsInv, NEW w \in Threads, Claim(w), counter \in Jobs
  PROVE  TestsInv'
<1> USE TestsConstants
<1>1. /\ at[w] = "claim" /\ job' = [job EXCEPT ![w] = counter] /\ counter' = counter + 1
      /\ MoveTo(w, "read")
      /\ UNCHANGED <<passed, joined, command, step, ended, touched, ran, trouble, pinned>>
      /\ UNCHANGED disk
  BY DEF Claim, TakeJob, truth
<1>2. /\ Working /\ CrewOK /\ ClaimsOK /\ CountOK
      /\ command.first \in 1 .. Firmware /\ command.last \in 1 .. Firmware /\ counter \in Nat
  BY <1>1, AtWork
<1>3. counter \in 1 .. Firmware /\ counter >= command.first /\ counter <= command.last
  BY <1>2 DEF Jobs
<1>4. at' \in [Threads -> {"off", "claim", "read", "load", "scenario", "done", "failed", "panicked"}]
      /\ CrewOK'
  BY <1>1, CrewMoves
<1>5. at'[w] = "read" /\ \A y \in Threads : y # w => at'[y] = at[y]
  BY <1>1 DEF TestsInv, CommandOK, TestsTypeOK, MoveTo
<1>6. job \in [Threads -> 0 .. Firmware]
  BY DEF TestsInv, CommandOK
<1>7. job'[w] = counter /\ job' \in [Threads -> 0 .. Firmware] /\ \A y \in Threads : y # w => job'[y] = job[y]
  BY <1>1, <1>3, <1>6
<1>8. ~Holds(w) /\ Holds(w)' /\ \A y \in Threads : y # w => (Holds(y)' <=> Holds(y))
  BY <1>1, <1>5 DEF Holds, Failed
<1>9. Jobs' = Jobs
  BY <1>1 DEF Jobs
<1>10. passed \in [Threads -> SUBSET Built] /\ \A y \in Threads : \A i \in passed[y] : i \in Jobs /\ i < counter /\ i \in 1 .. Firmware
  BY <1>2 DEF TestsInv, CommandOK, ClaimsOK, Built
<1>11. ClaimsOK'
  <2>1. \A y \in Threads : Holds(y)' =>
          /\ job'[y] \in Jobs' /\ job'[y] < counter'
          /\ \A z \in Threads : job'[y] \notin passed'[z] /\ (z # y /\ Holds(z)' => job'[z] # job'[y])
    <3> SUFFICES ASSUME NEW y \in Threads, Holds(y)'
                 PROVE  /\ job'[y] \in Jobs' /\ job'[y] < counter'
                        /\ \A z \in Threads : job'[y] \notin passed'[z] /\ (z # y /\ Holds(z)' => job'[z] # job'[y])
      OBVIOUS
    <3>1. \A z \in Threads : z # w /\ Holds(z)' =>
            job'[z] = job[z] /\ Holds(z) /\ job[z] \in Jobs /\ job[z] < counter
      BY <1>2, <1>7, <1>8 DEF ClaimsOK
    <3>2. \A z \in Threads : job[z] \in Int
      BY <1>6
    <3>3. CASE y = w
      <4>1. \A z \in Threads : job'[w] \notin passed'[z]
        BY <1>1, <1>3, <1>7, <1>10
      <4>2. \A z \in Threads : z # w /\ Holds(z)' => job'[z] # job'[w]
        BY <1>3, <1>7, <3>1, <3>2
      <4> QED BY <1>1, <1>3, <1>7, <1>9, <3>3, <4>1, <4>2
    <3>4. CASE y # w
      <4>1. job'[y] = job[y] /\ job[y] \in Jobs /\ job[y] < counter /\ Holds(y)
        BY <3>1, <3>4
      <4>2. \A z \in Threads : job[y] \notin passed[z] /\ (z # y /\ Holds(z) => job[z] # job[y])
        BY <1>2, <4>1 DEF ClaimsOK
      <4>3. \A z \in Threads : z # y /\ Holds(z)' => job'[z] # job'[y]
        BY <1>3, <1>7, <3>1, <3>2, <4>1, <4>2
      <4> QED BY <1>1, <1>3, <1>9, <3>2, <4>1, <4>2, <4>3
    <3> QED BY <3>3, <3>4
  <2>2. \A y \in Threads : \A i \in passed'[y] : i \in Jobs' /\ i < counter'
    BY <1>1, <1>3, <1>9, <1>10
  <2>3. \A i \in Jobs' : i < counter' => \E y \in Threads : i \in passed'[y] \/ (Holds(y)' /\ job'[y] = i)
    <3> SUFFICES ASSUME NEW i \in Jobs, i < counter + 1
                 PROVE  \E y \in Threads : i \in passed[y] \/ (Holds(y)' /\ job'[y] = i)
      BY <1>1, <1>9
    <3>1. CASE i = counter
      BY <3>1, <1>7, <1>8
    <3>2. CASE i # counter
      <4>1. i < counter
        BY <3>2, <1>2, <1>3 DEF Jobs
      <4>2. PICK y \in Threads : i \in passed[y] \/ (Holds(y) /\ job[y] = i)
        BY <4>1, <1>2 DEF ClaimsOK
      <4> QED BY <4>2, <1>7, <1>8
    <3> QED BY <3>1, <3>2
  <2>4. \A i \in Built : ran'[i] = IF \E y \in Threads : i \in passed'[y] THEN 1 ELSE 0
    BY <1>1, <1>2 DEF ClaimsOK
  <2> QED BY <2>1, <2>2, <2>3, <2>4 DEF ClaimsOK
<1>12. CountOK'
  <2>1. Ready' = {}
    BY <1>2, <1>3, <1>5 DEF Ready, CountOK
  <2>2. Cardinality(Ready') = 0
    BY <2>1, FS_EmptySet
  <2>3. counter' >= command'.first /\ counter' <= command'.last + 1 + Cardinality(Ready')
    BY <1>1, <1>2, <1>3, <2>2
  <2> QED BY <2>1, <2>3 DEF CountOK
<1>13. /\ trouble' \in BOOLEAN /\ pinned' \in BOOLEAN /\ ran' \in [Built -> Nat]
       /\ ~touched => pinned' = TRUE
  BY <1>1 DEF TestsInv, CommandOK, TestsTypeOK, CheckedOK
<1>14. counter' \in Nat
  BY <1>1, <1>3
<1> QED BY <1>1, <1>2, <1>4, <1>7, <1>10, <1>11, <1>12, <1>13, <1>14, WorkerStep

\* No job is left: the worker is done, and the counter stays past the last.
LEMMA DoneKeeps ==
  ASSUME TestsInv, NEW w \in Threads, Claim(w), counter \notin Jobs
  PROVE  TestsInv'
<1> USE TestsConstants
<1>1. /\ at[w] = "claim" /\ counter' = counter + 1 /\ MoveTo(w, "done")
      /\ UNCHANGED <<job, passed, joined, command, step, ended, touched, ran, trouble, pinned>>
      /\ UNCHANGED disk
  BY DEF Claim, truth
<1>2. /\ Working /\ CrewOK /\ ClaimsOK /\ CountOK
      /\ command.first \in 1 .. Firmware /\ command.last \in 1 .. Firmware /\ counter \in Nat
  BY <1>1, AtWork
<1>3. counter > command.last
  BY <1>2 DEF Jobs, CountOK
<1>4. at' \in [Threads -> {"off", "claim", "read", "load", "scenario", "done", "failed", "panicked"}]
      /\ CrewOK'
  BY <1>1, CrewMoves
<1>5. at'[w] = "done" /\ \A y \in Threads : y # w => at'[y] = at[y]
  BY <1>1 DEF TestsInv, CommandOK, TestsTypeOK, MoveTo
<1>6. \A y \in Threads : Holds(y)' <=> Holds(y)
  BY <1>1, <1>5 DEF Holds, Failed
<1>7. Jobs' = Jobs /\ \A i \in Jobs : i < counter
  BY <1>1, <1>2, <1>3 DEF Jobs
<1>8. job \in [Threads -> 0 .. Firmware] /\ passed \in [Threads -> SUBSET Built]
  BY DEF TestsInv, CommandOK
<1>9. ClaimsOK'
  <2>1. \A y \in Threads : Holds(y)' =>
          /\ job'[y] \in Jobs' /\ job'[y] < counter'
          /\ \A z \in Threads : job'[y] \notin passed'[z] /\ (z # y /\ Holds(z)' => job'[z] # job'[y])
    <3>1. \A y \in Threads : Holds(y) => job[y] \in 0 .. Firmware /\ job[y] < counter + 1
      BY <1>2, <1>8 DEF ClaimsOK
    <3> QED BY <1>1, <1>2, <1>6, <1>7, <3>1 DEF ClaimsOK
  <2>2. \A y \in Threads : \A i \in passed'[y] : i \in Jobs' /\ i < counter'
    <3>1. \A y \in Threads : \A i \in passed[y] : i \in Jobs /\ i \in 1 .. Firmware /\ i < counter
      BY <1>2, <1>8 DEF ClaimsOK, Built
    <3> QED BY <1>1, <1>2, <1>7, <3>1
  <2>3. \A i \in Jobs' : i < counter' => \E y \in Threads : i \in passed'[y] \/ (Holds(y)' /\ job'[y] = i)
    BY <1>1, <1>2, <1>6, <1>7 DEF ClaimsOK
  <2>4. \A i \in Built : ran'[i] = IF \E y \in Threads : i \in passed'[y] THEN 1 ELSE 0
    BY <1>1, <1>2 DEF ClaimsOK
  <2> QED BY <2>1, <2>2, <2>3, <2>4 DEF ClaimsOK
<1>10. CountOK'
  <2>1. Ready' = Ready \cup {w} /\ w \notin Ready
    BY <1>1, <1>5 DEF Ready
  <2>2. IsFiniteSet(Ready) /\ Cardinality(Ready) \in 0 .. Workers
    BY ThreadSets DEF Ready
  <2>3. Cardinality(Ready') = Cardinality(Ready) + 1
    BY <2>1, <2>2, FS_AddElement
  <2>4. counter >= command.first /\ counter <= command.last + 1 + Cardinality(Ready)
    BY <1>2 DEF CountOK
  <2>5. counter' >= command'.first /\ counter' <= command'.last + 1 + Cardinality(Ready')
    BY <1>1, <1>2, <2>2, <2>3, <2>4
  <2>6. counter' > command'.last
    BY <1>1, <1>2, <1>3
  <2> QED BY <2>5, <2>6 DEF CountOK
<1>11. /\ trouble' \in BOOLEAN /\ pinned' \in BOOLEAN /\ ran' \in [Built -> Nat]
       /\ ~touched => pinned' = TRUE
  BY <1>1 DEF TestsInv, CommandOK, TestsTypeOK, CheckedOK
<1>12. counter' \in Nat
  BY <1>1, <1>2
<1> QED BY <1>1, <1>2, <1>4, <1>8, <1>9, <1>10, <1>11, <1>12, WorkerStep

\* A job passes once: nobody else held it, and nobody had passed it.
LEMMA PassKeeps ==
  ASSUME TestsInv, NEW w \in Threads, Pass(w)
  PROVE  TestsInv'
<1> USE TestsConstants
<1>1. /\ at[w] = "scenario" /\ MoveTo(w, "claim")
      /\ passed' = [passed EXCEPT ![w] = @ \cup {job[w]}]
      /\ ran' = [ran EXCEPT ![job[w]] = @ + 1]
      /\ UNCHANGED <<counter, job, joined, trouble, pinned, command, step, ended, touched>>
      /\ UNCHANGED disk
  BY DEF Pass
<1>2. /\ Working /\ CrewOK /\ ClaimsOK /\ CountOK
      /\ command.first \in 1 .. Firmware /\ command.last \in 1 .. Firmware /\ counter \in Nat
  BY <1>1, AtWork
<1>3. Holds(w)
  BY <1>1 DEF Holds
<1>4. /\ job[w] \in Jobs /\ job[w] < counter /\ job[w] \in Built
      /\ \A y \in Threads : job[w] \notin passed[y] /\ (y # w /\ Holds(y) => job[y] # job[w])
  BY <1>2, <1>3 DEF ClaimsOK, Jobs, Built
<1>5. at' \in [Threads -> {"off", "claim", "read", "load", "scenario", "done", "failed", "panicked"}]
      /\ CrewOK'
  BY <1>1, CrewMoves DEF TestsInv, CommandOK
<1>6. at'[w] = "claim" /\ \A y \in Threads : y # w => at'[y] = at[y]
  BY <1>1 DEF TestsInv, CommandOK, TestsTypeOK, MoveTo
<1>7. ~Holds(w)' /\ \A y \in Threads : y # w => (Holds(y)' <=> Holds(y))
  BY <1>6 DEF Holds, Failed
<1>8. job \in [Threads -> 0 .. Firmware] /\ passed \in [Threads -> SUBSET Built]
      /\ ran \in [Built -> Nat]
  BY DEF TestsInv, CommandOK, TestsTypeOK
<1>9. passed' \in [Threads -> SUBSET Built] /\ passed'[w] = passed[w] \cup {job[w]}
      /\ \A y \in Threads : y # w => passed'[y] = passed[y]
  BY <1>1, <1>4, <1>8
<1>10. ran' \in [Built -> Nat] /\ ran'[job[w]] = ran[job[w]] + 1
       /\ \A i \in Built : i # job[w] => ran'[i] = ran[i]
  BY <1>1, <1>4, <1>8
<1>11. ClaimsOK'
  <2>1. \A y \in Threads : Holds(y)' =>
          /\ job'[y] \in Jobs' /\ job'[y] < counter'
          /\ \A z \in Threads : job'[y] \notin passed'[z] /\ (z # y /\ Holds(z)' => job'[z] # job'[y])
    <3> SUFFICES ASSUME NEW y \in Threads, Holds(y)'
                 PROVE  /\ job[y] \in Jobs /\ job[y] < counter
                        /\ \A z \in Threads : job[y] \notin passed'[z] /\ (z # y /\ Holds(z)' => job[z] # job[y])
      BY <1>1 DEF Jobs
    <3>1. y # w /\ Holds(y)
      BY <1>7
    <3>2. /\ job[y] \in Jobs /\ job[y] < counter
          /\ \A z \in Threads : job[y] \notin passed[z] /\ (z # y /\ Holds(z) => job[z] # job[y])
      BY <1>2, <3>1 DEF ClaimsOK
    <3>3. job[y] # job[w]
      BY <1>4, <3>1
    <3> QED BY <1>7, <1>9, <3>2, <3>3
  <2>2. \A y \in Threads : \A i \in passed'[y] : i \in Jobs' /\ i < counter'
    <3>1. \A y \in Threads : \A i \in passed[y] : i \in Jobs /\ i < counter
      BY <1>2 DEF ClaimsOK
    <3>2. \A y \in Threads : \A i \in passed'[y] : i \in passed[y] \/ i = job[w]
      BY <1>9
    <3> QED BY <1>1, <1>4, <3>1, <3>2 DEF Jobs
  <2>3. \A i \in Jobs' : i < counter' => \E y \in Threads : i \in passed'[y] \/ (Holds(y)' /\ job'[y] = i)
    <3> SUFFICES ASSUME NEW i \in Jobs, i < counter
                 PROVE  \E y \in Threads : i \in passed'[y] \/ (Holds(y)' /\ job[y] = i)
      BY <1>1 DEF Jobs
    <3>1. PICK y \in Threads : i \in passed[y] \/ (Holds(y) /\ job[y] = i)
      BY <1>2 DEF ClaimsOK
    <3>2. CASE y = w
      BY <1>9, <3>1, <3>2
    <3>3. CASE y # w
      BY <1>7, <1>9, <3>1, <3>3
    <3> QED BY <3>2, <3>3
  <2>4. \A i \in Built : ran'[i] = IF \E y \in Threads : i \in passed'[y] THEN 1 ELSE 0
    <3> SUFFICES ASSUME NEW i \in Built
                 PROVE  ran'[i] = IF \E y \in Threads : i \in passed'[y] THEN 1 ELSE 0
      OBVIOUS
    <3>1. ran[i] = IF \E y \in Threads : i \in passed[y] THEN 1 ELSE 0
      BY <1>2 DEF ClaimsOK
    <3>2. CASE i = job[w]
      <4>1. ran[i] = 0
        BY <1>4, <3>1, <3>2
      <4>2. ran'[i] = 1 /\ i \in passed'[w]
        BY <1>9, <1>10, <3>2, <4>1
      <4> QED BY <4>2
    <3>3. CASE i # job[w]
      <4>1. \A y \in Threads : i \in passed'[y] <=> i \in passed[y]
        BY <1>9, <3>3
      <4> QED BY <1>10, <3>1, <3>3, <4>1
    <3> QED BY <3>2, <3>3
  <2> QED BY <2>1, <2>2, <2>3, <2>4 DEF ClaimsOK
<1>12. CountOK'
  <2>1. Ready' = Ready
    BY <1>1, <1>6 DEF Ready
  <2> QED BY <1>1, <1>2, <2>1 DEF CountOK
<1>13. /\ trouble' \in BOOLEAN /\ pinned' \in BOOLEAN
       /\ ~touched => pinned' = TRUE
  BY <1>1 DEF TestsInv, CommandOK, CheckedOK
<1> QED BY <1>1, <1>2, <1>5, <1>8, <1>9, <1>10, <1>11, <1>12, <1>13, WorkerStep

\* A worker that holds a job reads its image, loads the modules, or gives up.
LEMMA HolderKeeps ==
  ASSUME TestsInv, NEW w \in Threads, ReadImage(w) \/ Load(w) \/ Fail(w) \/ Panic(w)
  PROVE  TestsInv'
<1>1. PICK p \in {"load", "scenario", "failed", "panicked"} :
        /\ at[w] \in {"read", "load", "scenario"} /\ MoveTo(w, p)
        /\ p = "load" => Official
        /\ trouble' = (trouble \/ p \in {"failed", "panicked"})
  <2>1. CASE ReadImage(w) /\ Audited(w)
    BY <2>1 DEF ReadImage, truth, TestsInv, CommandOK
  <2>2. CASE Load(w) /\ checkout.head # "none"
    BY <2>2 DEF Load, TestsInv, CommandOK
  <2>3. CASE at[w] \in {"read", "load", "scenario"} /\ Break(w, "failed")
    BY <2>3 DEF Break
  <2>4. CASE at[w] \in {"read", "load", "scenario"} /\ Break(w, "panicked")
    BY <2>4 DEF Break
  <2> QED BY <2>1, <2>2, <2>3, <2>4 DEF ReadImage, Load, Fail, Panic
<1>2. /\ UNCHANGED <<counter, job, passed, joined, ran, command, step, ended, touched>>
      /\ UNCHANGED disk
  BY DEF ReadImage, Load, Fail, Panic, Break, truth
<1>3. pinned' = pinned \/ (at[w] = "load" /\ pinned' = (pinned /\ Pinned))
  BY DEF ReadImage, Load, Fail, Panic, Break, truth
<1>4. /\ Working /\ CrewOK /\ counter \in Nat /\ (at[w] = "load" => Official)
  BY <1>1, AtWork DEF CrewOK
<1>5. at' \in [Threads -> {"off", "claim", "read", "load", "scenario", "done", "failed", "panicked"}]
      /\ CrewOK'
  BY <1>1, <1>2, CrewMoves
<1>6. ClaimsOK' /\ CountOK'
  BY <1>1, <1>2, HeldKeeps
<1>7. trouble' \in BOOLEAN
  BY <1>1
<1>8. pinned' \in BOOLEAN /\ (~touched => pinned' = TRUE)
  <2>1. pinned \in BOOLEAN /\ (~touched => pinned = TRUE)
    BY DEF TestsInv, CommandOK, CheckedOK
  <2>2. at[w] = "load" /\ ~touched => Pinned
    BY <1>4 DEF TestsInv, CheckedOK, Working, Official
  <2> QED BY <1>3, <2>1, <2>2
<1>9. /\ counter' \in Nat /\ job' \in [Threads -> 0 .. Firmware]
      /\ passed' \in [Threads -> SUBSET Built] /\ ran' \in [Built -> Nat]
  BY <1>2, <1>4 DEF TestsInv, CommandOK, TestsTypeOK
<1> QED BY <1>2, <1>4, <1>5, <1>6, <1>7, <1>8, <1>9, WorkerStep

LEMMA WorkKeeps ==
  ASSUME TestsInv, NEW w \in Threads, Work(w)
  PROVE  TestsInv'
BY TakeKeeps, DoneKeeps, PassKeeps, HolderKeeps DEF Work

\* The main thread joins a worker that is done, or gives up on one that is not.
LEMMA JoinKeeps ==
  ASSUME TestsInv, Join
  PROVE  TestsInv'
<1> USE TestsConstants
<1>1. /\ step = "join" /\ joined < Cardinality(Crew)
      /\ \/ Good(joined + 1) /\ joined' = joined + 1 /\ step' = "join"
         \/ step' = "abort" /\ joined' = joined
      /\ UNCHANGED <<checkout, intact, report, counter, at, job, passed, ran, trouble, pinned, command, ended, touched>>
  BY DEF Join, disk, truth
<1>2. Working /\ Working' /\ CrewOK /\ ClaimsOK /\ CountOK
  BY <1>1 DEF TestsInv, Working
<1>3. Crew' = Crew /\ Cardinality(Crew) \in 1 .. Workers /\ joined \in 0 .. Workers
  BY <1>1, CrewFacts DEF Crew, Official, TestsInv, CommandOK, TestsTypeOK
<1>4. joined' \in 0 .. Workers /\ joined' <= Cardinality(Crew')
      /\ \A w \in Threads : w <= joined' => at'[w] = "done"
  <2>1. CASE Good(joined + 1) /\ joined' = joined + 1
    <3>1. at[joined + 1] = "done"
      BY <2>1 DEF Good
    <3>2. \A w \in Threads : w <= joined + 1 => w <= joined \/ w = joined + 1
      BY <1>3 DEF Threads
    <3> QED BY <1>1, <1>2, <1>3, <2>1, <3>1, <3>2 DEF CrewOK
  <2>2. CASE joined' = joined
    BY <1>1, <1>2, <1>3, <2>2 DEF CrewOK
  <2> QED BY <1>1, <2>1, <2>2
<1>5. TestsTypeOK'
  BY <1>1, <1>4 DEF TestsInv, CommandOK, TestsTypeOK
<1>6. CommandOK'
  BY <1>1, <1>5 DEF TestsInv, CommandOK, MainSteps
<1>7. Quiet' /\ CheckedOK'
  BY <1>1, <1>2 DEF TestsInv, Quiet, CheckedOK, Pinned
<1>8. CrewOK'
  BY <1>1, <1>2, <1>3, <1>4 DEF CrewOK, Official, Failed
<1>9. ClaimsOK' /\ CountOK'
  BY <1>1, <1>2 DEF ClaimsOK, CountOK, Holds, Failed, Ready, Jobs
<1> QED BY <1>6, <1>7, <1>8, <1>9 DEF TestsInv

\* The command ends, well or not, and a report lists images only.
LEMMA EndingKeeps ==
  ASSUME TestsInv, FetchFails \/ CheckoutFails \/ FinishFetch \/ Abort \/ Write
  PROVE  TestsInv'
<1>1. report.lists \subseteq Built
  BY DEF TestsInv, CommandOK, TestsTypeOK
<1>2. CASE FetchFails \/ CheckoutFails \/ FinishFetch \/ Abort
  <2>1. /\ UNCHANGED <<checkout, intact, report>>
        /\ End("offline") \/ End("failed") \/ End("ok")
    BY <1>2 DEF FetchFails, CheckoutFails, FinishFetch, Abort, disk
  <2> QED BY <1>1, <2>1, EndKeeps
<1>3. CASE Write
  <2>1. Merged \subseteq Built
    BY CrewFacts DEF Merged, TestsInv, CommandOK
  <2>2. report'.lists = Merged /\ End("ok") /\ UNCHANGED <<checkout, intact>>
    BY <1>3 DEF Write
  <2> QED BY <2>1, <2>2, EndKeeps
<1> QED BY <1>2, <1>3

\* The developer's edits are seen by what is read later, and by touched.
LEMMA DeveloperKeeps ==
  ASSUME TestsInv, ChangeImage \/ TouchCheckout
  PROVE  TestsInv'
<1>1. /\ UNCHANGED <<report, command, step, ended>>
      /\ UNCHANGED <<counter, at, job, passed, joined, ran, trouble, pinned>>
  BY DEF ChangeImage, TouchCheckout, workers, truth
<1>2. /\ checkout' \in [exists : BOOLEAN, fetched : BOOLEAN,
                        head : {"none", "pin", "other"}, dirty : BOOLEAN]
      /\ intact' \subseteq Built
  <2>1. CASE ChangeImage
    BY <2>1 DEF ChangeImage, TestsInv, CommandOK, TestsTypeOK
  <2>2. CASE TouchCheckout
    <3>1. checkout \in [exists : BOOLEAN, fetched : BOOLEAN,
                        head : {"none", "pin", "other"}, dirty : BOOLEAN] /\ intact \subseteq Built
      BY DEF TestsInv, CommandOK, TestsTypeOK
    <3>2. \/ checkout' = [checkout EXCEPT !.dirty = TRUE]
          \/ checkout' = Absent
          \/ \E h \in {"pin", "other"} : checkout' = [checkout EXCEPT !.head = h, !.dirty = FALSE]
      BY <2>2 DEF TouchCheckout
    <3>3. \A h \in {"none", "pin", "other"}, d \in BOOLEAN :
            [checkout EXCEPT !.head = h, !.dirty = d]
              \in [exists : BOOLEAN, fetched : BOOLEAN,
                   head : {"none", "pin", "other"}, dirty : BOOLEAN]
      BY <3>1
    <3>4. intact' = intact
      BY <2>2 DEF TouchCheckout
    <3>5. \/ checkout' = [checkout EXCEPT !.head = checkout.head, !.dirty = TRUE]
          \/ checkout' = Absent
          \/ \E h \in {"pin", "other"} : checkout' = [checkout EXCEPT !.head = h, !.dirty = FALSE]
      BY <3>1, <3>2
    <3>6. CASE checkout' = [checkout EXCEPT !.head = checkout.head, !.dirty = TRUE]
      <4>1. checkout.head \in {"none", "pin", "other"}
        BY <3>1
      <4>2. checkout' \in [exists : BOOLEAN, fetched : BOOLEAN,
                          head : {"none", "pin", "other"}, dirty : BOOLEAN]
        BY <3>3, <3>6, <4>1
      <4> QED BY <3>1, <3>4, <4>2
    <3>7. CASE checkout' = Absent
      BY <3>1, <3>4, <3>7 DEF Absent
    <3>8. ASSUME NEW h \in {"pin", "other"}, checkout' = [checkout EXCEPT !.head = h, !.dirty = FALSE]
          PROVE  checkout' \in [exists : BOOLEAN, fetched : BOOLEAN,
                               head : {"none", "pin", "other"}, dirty : BOOLEAN]
      BY <3>3, <3>8
    <3> QED BY <3>1, <3>4, <3>5, <3>6, <3>7, <3>8
  <2> QED BY <2>1, <2>2
<1>3. touched' \in BOOLEAN /\ (touched' = FALSE => (touched = FALSE /\ checkout' = checkout) \/ step = "idle")
  BY DEF TestsInv, CommandOK, ChangeImage, TouchCheckout
<1>4. CommandOK'
  <2>1. TestsTypeOK'
    BY <1>1, <1>2 DEF TestsInv, CommandOK, TestsTypeOK
  <2> QED BY <1>1, <1>3, <2>1 DEF TestsInv, CommandOK
<1>5. Quiet'
  BY <1>1 DEF TestsInv, Quiet, Working
<1>6. CheckedOK'
  <2>1. CASE step = "idle"
    BY <1>1, <2>1 DEF TestsInv, Quiet, Working, CheckedOK
  <2>2. CASE step # "idle"
    BY <1>1, <1>3, <2>2 DEF TestsInv, CommandOK, CheckedOK, Pinned
  <2> QED BY <2>1, <2>2
<1>7. Working' => CrewOK' /\ ClaimsOK' /\ CountOK'
  BY <1>1 DEF TestsInv, Working, CrewOK, Crew, Official, ClaimsOK, CountOK, Holds, Failed, Ready, Jobs
<1> QED BY <1>4, <1>5, <1>6, <1>7 DEF TestsInv

LEMMA TestsStep ==
  ASSUME TestsInv, [TestsNext]_tests
  PROVE  TestsInv'
<1>1. CASE Start
  BY <1>1, StartKeeps
<1>2. CASE Main
  BY <1>2, FetchKeeps, CheckKeeps, SpawnKeeps, JoinKeeps, EndingKeeps DEF Main
<1>3. CASE \E w \in Threads : Work(w)
  BY <1>3, WorkKeeps
<1>4. CASE ChangeImage \/ TouchCheckout
  BY <1>4, DeveloperKeeps
<1>5. CASE UNCHANGED tests
  <2>1. /\ UNCHANGED <<checkout, intact, report, command, step, ended, touched>>
        /\ UNCHANGED <<counter, at, job, passed, joined, ran, trouble, pinned>>
    BY <1>5 DEF tests, disk, workers, truth
  <2>2. CommandOK'
    BY <2>1 DEF TestsInv, CommandOK, TestsTypeOK
  <2>3. Quiet' /\ CheckedOK'
    BY <2>1 DEF TestsInv, Quiet, CheckedOK, Working, Pinned
  <2>4. Working' => CrewOK' /\ ClaimsOK' /\ CountOK'
    BY <2>1 DEF TestsInv, Working, CrewOK, Crew, Official, ClaimsOK, CountOK, Holds, Failed, Ready, Jobs
  <2> QED BY <2>2, <2>3, <2>4 DEF TestsInv
<1> QED BY <1>1, <1>2, <1>3, <1>4, <1>5 DEF TestsNext

\* When the last worker is joined, every job passed, once, and nobody failed.
LEMMA JoinedAll ==
  ASSUME TestsInv, step = "join", joined = Cardinality(Crew)
  PROVE  EachPassedOnce
<1> USE TestsConstants
<1>1. CrewOK /\ ClaimsOK /\ CountOK
  BY DEF TestsInv, Working
<1>2. command.first \in 1 .. Firmware /\ command.last \in 1 .. Firmware /\ counter \in Nat
  BY DEF TestsInv, CommandOK, TestsTypeOK, Built
<1>3. \A w \in Crew : w \in Threads /\ at[w] = "done"
  BY <1>1, CrewFacts DEF CrewOK
<1>4. ~trouble
  BY <1>1, <1>3 DEF CrewOK, Failed
<1>5. \A w \in Threads : ~Holds(w)
  BY <1>1, <1>3 DEF CrewOK, Holds, Failed
<1>6. counter > command.last
  BY <1>1, <1>3, CrewFacts DEF CountOK, Ready
<1>7. \A i \in Jobs : \E y \in Crew : i \in passed[y]
  <2> SUFFICES ASSUME NEW i \in Jobs PROVE \E y \in Crew : i \in passed[y]
    OBVIOUS
  <2>1. i < counter
    BY <1>2, <1>6 DEF Jobs
  <2>2. PICK y \in Threads : i \in passed[y]
    BY <1>1, <1>5, <2>1 DEF ClaimsOK
  <2> QED BY <1>1, <2>2 DEF CrewOK
<1>8. \A y \in Threads : passed[y] \subseteq Jobs
  BY <1>1 DEF ClaimsOK
<1>9. Merged = Jobs
  BY <1>3, <1>7, <1>8 DEF Merged
<1>10. \A i \in Built : ran[i] = (IF i \in Jobs THEN 1 ELSE 0)
  BY <1>1, <1>3, <1>7, <1>8 DEF ClaimsOK
<1> QED BY <1>4, <1>9, <1>10 DEF EachPassedOnce

\* What a command that ends with "ok" has established.
OkMeans ==
  ended' = "ok" =>
    /\ step = "join" => EachPassedOnce
    /\ step # "idle" /\ command.kind # "smoke" /\ ~touched => Pinned /\ pinned

LEMMA OkStep ==
  ASSUME TestsInv, [TestsNext]_tests
  PROVE  OkMeans
<1> SUFFICES ASSUME ended' = "ok", step # "idle"
             PROVE  /\ step = "join" => EachPassedOnce
                    /\ command.kind # "smoke" /\ ~touched => Pinned /\ pinned
  BY DEF OkMeans
<1>1. ended = "none"
  BY DEF TestsInv, CommandOK
<1>2. ~Start
  BY DEF Start
<1>3. ~(ChangeImage \/ TouchCheckout \/ UNCHANGED tests)
  BY <1>1 DEF ChangeImage, TouchCheckout, tests
<1>4. ~\E w \in Threads : Work(w)
  BY <1>1 DEF Work, Claim, ReadImage, Load, Pass, Fail, Panic
<1>5. ~(GitInit \/ GitFetch \/ GitCheckout \/ Spawn \/ Join)
  BY <1>1 DEF GitInit, GitFetch, GitCheckout, Spawn, Join, GoTo
<1>6. ~(FetchFails \/ CheckoutFails \/ CheckHead \/ CheckStatus \/ Abort)
  BY <1>1 DEF FetchFails, CheckoutFails, CheckHead, CheckStatus, Abort, End, GoTo
<1>7. FinishFetch \/ Write
  BY <1>2, <1>3, <1>4, <1>5, <1>6 DEF TestsNext, Main
<1>8. step \in {"finish", "join"} /\ (step = "join" => joined = Cardinality(Crew))
  BY <1>7 DEF FinishFetch, Write
<1>9. step = "join" => EachPassedOnce
  BY <1>8, JoinedAll
<1>10. command.kind # "smoke" /\ ~touched => Pinned /\ pinned
  BY <1>8 DEF TestsInv, CheckedOK
<1> QED BY <1>9, <1>10

\* A report is written only when every selected image passed, each exactly once and on one
\* worker, and success with an untouched checkout means that the pinned modules, unmodified,
\* were what ran (main.rs, firmware_tests; project.rs, check_upstream).
THEOREM ReportsSound == TestsSpec => ReportSound
<1>1. TestsInit => TestsInv
  BY TestsStart
<1>2. TestsInv /\ [TestsNext]_tests => TestsInv'
  BY TestsStep
<1>3. TestsInv => TestsTypeOK
  BY DEF TestsInv, CommandOK
<1>4. TestsInv /\ [TestsNext]_tests => OkMeans
  BY OkStep
<1>5. TestsSpec => []TestsTypeOK /\ [][OkMeans]_tests
  BY <1>1, <1>2, <1>3, <1>4, PTL DEF TestsSpec
<1> QED BY <1>5 DEF ReportSound, OkMeans

-----------------------------------------------------------------------------
(* Start-up and interrupts (Hart). *)

IsFun(f, S) == f = [s \in S |-> f[s]]
StackPlaces == 0 .. StackWords - 1

ProgramCounters ==
  {At("reset", i) : i \in 0 .. 4} \cup {At("entry", i) : i \in 0 .. 35} \cup {Vector, At("handler", 0)}

HartTypes ==
  /\ pc \in ProgramCounters \/ pc[1] = "main"
  /\ IsFun(x, Regs) /\ IsFun(stack, StackPlaces)
  /\ in_irq \in BOOLEAN /\ enabled \in BOOLEAN /\ request \in BOOLEAN
  /\ halted \in {"no", "stack", "unsupported", "fault"}

\* While the program has not started nothing asks for it, and what is cleared stays so.
ResetOK ==
  pc[1] = "reset" =>
    /\ enabled = FALSE /\ in_irq = FALSE
    /\ next_word \in Nat /\ bss \subseteq next_word .. BssWords - 1
    /\ pc[2] >= 2 => sp = StackWords

FrameLaid == sp = found.sp - Frame
Saved == \A j \in 1 .. Frame : stack[sp + j - 1] = found.x[CallerSaved[j]]
SavedBelow(k) == \A j \in 1 .. k - 1 : stack[sp + j - 1] = found.x[CallerSaved[j]]
RestoredBelow(k) == \A j \in 1 .. k - 1 : x[CallerSaved[j]] = found.x[CallerSaved[j]]
CalleesKept == \A r \in CalleeSaved : x[r] = found.x[r]

\* What an interrupt met is in the registers, or in the frame where they will be read.
Interrupted ==
  /\ found.pc = mepc /\ mepc[1] = "main" /\ found.sp \in 0 .. StackWords
  /\ IsFun(found.x, Regs) /\ IsFun(found.stack, StackPlaces)
  /\ \A a \in found.sp .. StackWords - 1 : stack[a] = found.stack[a]
  /\ pc \in {Vector, At("entry", 0), At("entry", 35)} => x = found.x /\ sp = found.sp
  /\ \A k \in 1 .. 17 : pc = At("entry", k) => FrameLaid /\ x = found.x /\ SavedBelow(k)
  /\ pc = At("handler", 0) => FrameLaid /\ Saved /\ CalleesKept
  /\ \A k \in 1 .. 17 : pc = At("entry", k + 17) =>
       FrameLaid /\ Saved /\ CalleesKept /\ RestoredBelow(k)

HartInv ==
  /\ HartTypes /\ ResetOK
  /\ pc[1] # "reset" => bss = {}
  /\ pc[1] # "reset" /\ Runs =>
       /\ sp \in 0 .. StackWords
       /\ in_irq <=> pc[1] # "main"
       /\ in_irq => Interrupted
-----------------------------------------------------------------------------
\* The frame has a slot for every register the caller saves, and the callee the rest.
LEMMA Registers ==
  /\ CallIndex = 17 /\ FrameEnd = 34 /\ Frame = 16
  /\ DOMAIN CallerSaved = 1 .. 16 /\ "ra" \notin CalleeSaved /\ CalleeSaved \subseteq Regs
  /\ ToSet(CallerSaved) = {CallerSaved[k] : k \in 1 .. 16}
  /\ \A k \in 1 .. 16 : CallerSaved[k] \in Regs /\ CallerSaved[k] \notin CalleeSaved
  /\ \A r \in Regs : r \in CalleeSaved \/ \E k \in 1 .. 16 : r = CallerSaved[k]
<1>1. Len(CallerSaved) = 16 /\ DOMAIN CallerSaved = 1 .. 16
  BY DEF CallerSaved
<1>2. ToSet(CallerSaved) = {CallerSaved[k] : k \in 1 .. 16}
  BY <1>1 DEF ToSet
<1>3. \A k \in 1 .. 16 : CallerSaved[k] \notin CalleeSaved
  BY DEF CallerSaved, CalleeSaved
<1>4. "ra" \notin CalleeSaved
  BY DEF CalleeSaved
<1> QED BY <1>1, <1>2, <1>3, <1>4 DEF CallIndex, FrameEnd, Frame, Regs

LEMMA StackFacts == StackWords \in Nat /\ BssWords \in Nat
BY HartAssumption

\* In an interrupt, no other is taken: an instruction goes on to the next.
LEMMA GoesOn ==
  ASSUME NEW next, in_irq = TRUE, Goes(next)
  PROVE  /\ pc' = next /\ in_irq' = TRUE /\ UNCHANGED <<mepc, found>>
         /\ halted' \in {"no", "stack"}
         /\ Started /\ halted' = "no" => sp' \in 0 .. StackWords
BY DEF Goes, Retire, Accepts, InReservation

LEMMA InInterrupt ==
  ASSUME HartInv, Runs, pc[1] # "reset", pc[1] # "main"
  PROVE  /\ in_irq = TRUE /\ Interrupted /\ Started /\ bss = {}
         /\ sp \in 0 .. StackWords /\ IsFun(x, Regs) /\ IsFun(stack, StackPlaces)
BY DEF HartInv, HartTypes, Started

\* A step of the entry keeps the invariant if it keeps what the interrupt met.
LEMMA EntryStep ==
  ASSUME HartInv, Runs, pc[1] # "reset", pc[1] # "main",
         NEW next \in ProgramCounters, next[1] # "reset", next[1] # "main", Goes(next), bss' = bss,
         IsFun(x', Regs), IsFun(stack', StackPlaces), enabled' \in BOOLEAN, request' \in BOOLEAN,
         sp' \in 0 .. StackWords => Interrupted'
  PROVE  HartInv' /\ in_irq' = TRUE
<1>1. in_irq = TRUE /\ Started /\ bss = {}
  BY InInterrupt
<1>2. /\ pc' = next /\ in_irq' = TRUE /\ halted' \in {"no", "stack"}
      /\ halted' = "no" => sp' \in 0 .. StackWords
  BY <1>1, GoesOn
<1>3. HartTypes'
  BY <1>2 DEF HartTypes, IsFun
<1> QED BY <1>1, <1>2, <1>3 DEF HartInv, ResetOK, Runs

LEMMA VectorKeeps ==
  ASSUME HartInv, EnterVector
  PROVE  HartInv' /\ in_irq' = TRUE
<1>1. /\ Runs /\ pc = Vector /\ Goes(At("entry", 0))
      /\ UNCHANGED <<x, sp, stack, bss, enabled, request>>
  BY DEF EnterVector, Keeps, memoryOf
<1>2. pc[1] # "reset" /\ pc[1] # "main"
  BY <1>1 DEF Vector, At
<1>3. in_irq = TRUE /\ Interrupted /\ IsFun(x, Regs) /\ IsFun(stack, StackPlaces)
  BY <1>1, <1>2, InInterrupt
<1>4. pc' = At("entry", 0) /\ UNCHANGED <<mepc, found>>
  BY <1>1, <1>3, GoesOn
<1>5. Interrupted'
  BY <1>1, <1>3, <1>4 DEF Interrupted, Vector, At, IsFun
<1>8. At("entry", 0) \in ProgramCounters
  BY DEF ProgramCounters
<1> QED BY <1>1, <1>2, <1>3, <1>5, <1>8, EntryStep DEF At, HartInv, HartTypes

LEMMA PushKeeps ==
  ASSUME HartInv, PushFrame
  PROVE  HartInv' /\ in_irq' = TRUE
<1>1. /\ Runs /\ pc = At("entry", 0) /\ Goes(At("entry", 1)) /\ sp' = sp - Frame
      /\ UNCHANGED <<x, stack, bss, enabled, request>>
  BY DEF PushFrame, Keeps, memoryOf
<1>2. pc[1] # "reset" /\ pc[1] # "main"
  BY <1>1 DEF At
<1>3. in_irq = TRUE /\ Interrupted /\ IsFun(x, Regs) /\ IsFun(stack, StackPlaces)
  BY <1>1, <1>2, InInterrupt
<1>4. pc' = At("entry", 1) /\ UNCHANGED <<mepc, found>>
  BY <1>1, <1>3, GoesOn
<1>5. x = found.x /\ sp = found.sp
  BY <1>1, <1>3 DEF Interrupted
<1>6. SavedBelow(1)'
  BY DEF SavedBelow
<1>7. Interrupted'
  BY <1>1, <1>3, <1>4, <1>5, <1>6 DEF Interrupted, FrameLaid, Vector, At, IsFun
<1>8. At("entry", 1) \in ProgramCounters
  BY DEF ProgramCounters
<1> QED BY <1>1, <1>2, <1>3, <1>7, <1>8, EntryStep DEF At, HartInv, HartTypes

\* Each register is saved in its slot, below all that was live.
LEMMA SaveKeeps ==
  ASSUME HartInv, SaveRegister
  PROVE  HartInv' /\ in_irq' = TRUE
<1> USE Registers, StackFacts
<1>1. PICK k \in 1 .. 16 :
        /\ Runs /\ pc = At("entry", k) /\ Goes(At("entry", k + 1))
        /\ stack' = [stack EXCEPT ![Slot(k)] = x[CallerSaved[k]]]
        /\ UNCHANGED <<x, sp, bss, enabled, request>>
  BY DEF SaveRegister, Keeps
<1>2. pc[1] # "reset" /\ pc[1] # "main"
  BY <1>1 DEF At
<1>3. /\ in_irq = TRUE /\ Interrupted /\ sp \in 0 .. StackWords
      /\ IsFun(x, Regs) /\ IsFun(stack, StackPlaces)
  BY <1>1, <1>2, InInterrupt
<1>4. pc' = At("entry", k + 1) /\ UNCHANGED <<mepc, found>>
  BY <1>1, <1>3, GoesOn
<1>5. FrameLaid /\ x = found.x /\ SavedBelow(k) /\ found.sp \in 0 .. StackWords
  BY <1>1, <1>3 DEF Interrupted
<1>6. sp \in 0 .. StackWords - 16 /\ found.sp = sp + 16 /\ Slot(k) = sp + k - 1 /\ Slot(k) \in StackPlaces
  <2>1. sp = found.sp - 16
    BY <1>5 DEF FrameLaid
  <2>2. found.sp = sp + 16
    BY <1>3, <1>5, <2>1
  <2>3. sp \in 0 .. StackWords - 16
    BY <1>3, <1>5, <2>2
  <2>4. sp + k - 1 \in 0 .. StackWords - 1
    BY <2>3
  <2> QED BY <2>2, <2>3, <2>4 DEF Slot, StackPlaces
<1>7. IsFun(stack', StackPlaces) /\ stack'[Slot(k)] = found.x[CallerSaved[k]]
      /\ \A a \in StackPlaces : a # Slot(k) => stack'[a] = stack[a]
  BY <1>1, <1>3, <1>5, <1>6 DEF IsFun
<1>8. SavedBelow(k + 1)'
  <2> SUFFICES ASSUME NEW j \in 1 .. k PROVE stack'[sp + j - 1] = found.x[CallerSaved[j]]
    BY <1>1, <1>4 DEF SavedBelow
  <2>1. CASE j = k
    BY <1>6, <1>7, <2>1
  <2>2. CASE j # k
    <3>1. stack[sp + j - 1] = found.x[CallerSaved[j]]
      BY <1>5, <2>2 DEF SavedBelow
    <3>2. sp + j - 1 \in StackPlaces /\ sp + j - 1 # Slot(k)
      BY <1>6, <2>2 DEF StackPlaces
    <3> QED BY <1>7, <3>1, <3>2
  <2> QED BY <2>1, <2>2
<1>9. \A a \in found.sp .. StackWords - 1 : stack'[a] = found.stack[a]
  <2>1. \A a \in found.sp .. StackWords - 1 : a \in StackPlaces /\ a # Slot(k)
    BY <1>5, <1>6 DEF StackPlaces
  <2> QED BY <1>3, <1>7, <2>1 DEF Interrupted
<1>10. Interrupted'
  <2>1. /\ found'.pc = mepc' /\ mepc'[1] = "main" /\ found'.sp \in 0 .. StackWords
        /\ IsFun(found.x, Regs)' /\ IsFun(found.stack, StackPlaces)'
    BY <1>3, <1>4 DEF Interrupted, IsFun
  <2>2. \A a \in found'.sp .. StackWords - 1 : stack'[a] = found'.stack[a]
    BY <1>4, <1>9
  <2>3. pc' \notin {Vector, At("entry", 0), At("entry", 35), At("handler", 0)}
    BY <1>4 DEF Vector, At
  <2>4. \A n \in 1 .. 17 : pc' = At("entry", n) => n = k + 1
    BY <1>4 DEF At
  <2>5. FrameLaid' /\ x' = found'.x
    BY <1>1, <1>4, <1>5 DEF FrameLaid
  <2>6. \A n \in 1 .. 17 : pc' # At("entry", n + 17)
    BY <1>4 DEF At
  <2> QED BY <1>8, <2>1, <2>2, <2>3, <2>4, <2>5, <2>6 DEF Interrupted
<1>11. At("entry", k + 1) \in ProgramCounters
  BY DEF ProgramCounters
<1> QED BY <1>1, <1>2, <1>3, <1>7, <1>10, <1>11, EntryStep DEF At, HartInv, HartTypes

LEMMA CallKeeps ==
  ASSUME HartInv, CallHandler
  PROVE  HartInv' /\ in_irq' = TRUE
<1> USE Registers, StackFacts
<1>1. /\ Runs /\ pc = At("entry", 17) /\ Goes(At("handler", 0))
      /\ x' = [x EXCEPT !["ra"] = "?"]
      /\ UNCHANGED <<sp, stack, bss, enabled, request>>
  BY DEF CallHandler, Keeps, memoryOf
<1>2. pc[1] # "reset" /\ pc[1] # "main"
  BY <1>1 DEF At
<1>3. in_irq = TRUE /\ Interrupted /\ IsFun(x, Regs) /\ IsFun(stack, StackPlaces)
  BY <1>1, <1>2, InInterrupt
<1>4. pc' = At("handler", 0) /\ UNCHANGED <<mepc, found>>
  BY <1>1, <1>3, GoesOn
<1>5. FrameLaid /\ x = found.x /\ SavedBelow(17)
  BY <1>1, <1>3 DEF Interrupted
<1>6. FrameLaid' /\ Saved'
  BY <1>1, <1>4, <1>5 DEF FrameLaid, Saved, SavedBelow
<1>7. IsFun(x', Regs) /\ CalleesKept'
  BY <1>1, <1>3, <1>4, <1>5 DEF IsFun, CalleesKept
<1>8. Interrupted'
  <2>1. pc' \notin {Vector, At("entry", 0), At("entry", 35)}
    BY <1>4 DEF Vector, At
  <2>2. \A n \in 1 .. 17 : pc' # At("entry", n) /\ pc' # At("entry", n + 17)
    BY <1>4 DEF At
  <2> QED BY <1>1, <1>3, <1>4, <1>6, <1>7, <2>1, <2>2 DEF Interrupted, IsFun
<1> QED BY <1>1, <1>2, <1>3, <1>7, <1>8, EntryStep DEF ProgramCounters, At, HartInv, HartTypes

\* The handler leaves the frame, what is above it, and what it saves itself.
LEMMA HandlerKeeps ==
  ASSUME HartInv, Handler
  PROVE  HartInv' /\ in_irq' = TRUE
<1> USE Registers, StackFacts
<1>1. /\ Runs /\ pc = At("handler", 0) /\ Goes(At("entry", 18))
      /\ stack' = [k \in DOMAIN stack |-> IF k < sp THEN "?" ELSE stack[k]]
      /\ request' \in {request, FALSE} /\ enabled' \in BOOLEAN
      /\ UNCHANGED <<sp, bss>>
  <2>1. CallIndex + 1 = 18
    OBVIOUS
  <2>2. Goes(At("entry", CallIndex + 1)) <=> Goes(At("entry", 18))
    BY <2>1
  <2> QED BY <2>2 DEF Handler
<1>2. PICK mine \in SUBSET ToSet(CallerSaved) : x' = [r \in Regs |-> IF r \in mine THEN "?" ELSE x[r]]
  BY DEF Handler
<1>3. pc[1] # "reset" /\ pc[1] # "main"
  BY <1>1 DEF At
<1>4. /\ in_irq = TRUE /\ Interrupted /\ sp \in 0 .. StackWords
      /\ IsFun(x, Regs) /\ IsFun(stack, StackPlaces)
  BY <1>1, <1>3, InInterrupt
<1>5. pc' = At("entry", 18) /\ UNCHANGED <<mepc, found>>
  BY <1>1, <1>4, GoesOn
<1>6. FrameLaid /\ Saved /\ CalleesKept /\ found.sp \in 0 .. StackWords
  BY <1>1, <1>4 DEF Interrupted
<1>7. found.sp = sp + 16
  BY <1>4, <1>6 DEF FrameLaid
<1>8. DOMAIN stack = StackPlaces
  BY <1>4 DEF IsFun
<1>9. IsFun(stack', StackPlaces) /\ \A a \in StackPlaces : a >= sp => stack'[a] = stack[a]
  BY <1>1, <1>4, <1>8 DEF IsFun, StackPlaces
<1>10. \A a \in sp .. StackWords - 1 : a \in StackPlaces /\ a >= sp
  BY <1>4 DEF StackPlaces
<1>11. FrameLaid' /\ Saved'
  <2>1. \A j \in 1 .. 16 : sp + j - 1 \in sp .. StackWords - 1
    BY <1>4, <1>6, <1>7
  <2>2. \A j \in 1 .. 16 : stack'[sp + j - 1] = found.x[CallerSaved[j]]
    BY <1>6, <1>9, <1>10, <2>1 DEF Saved
  <2> QED BY <1>1, <1>5, <1>6, <2>2 DEF FrameLaid, Saved
<1>12. \A a \in found.sp .. StackWords - 1 : stack'[a] = found.stack[a]
  <2>1. \A a \in found.sp .. StackWords - 1 : a \in sp .. StackWords - 1
    BY <1>4, <1>7
  <2> QED BY <1>4, <1>9, <1>10, <2>1 DEF Interrupted
<1>13. IsFun(x', Regs) /\ CalleesKept'
  BY <1>2, <1>5, <1>6 DEF IsFun, CalleesKept
<1>14. RestoredBelow(1)'
  BY DEF RestoredBelow
<1>15. Interrupted'
  <2>1. /\ found'.pc = mepc' /\ mepc'[1] = "main" /\ found'.sp \in 0 .. StackWords
        /\ IsFun(found.x, Regs)' /\ IsFun(found.stack, StackPlaces)'
    BY <1>4, <1>5 DEF Interrupted, IsFun
  <2>2. \A a \in found'.sp .. StackWords - 1 : stack'[a] = found'.stack[a]
    BY <1>5, <1>12
  <2>3. pc' \notin {Vector, At("entry", 0), At("entry", 35), At("handler", 0)}
    BY <1>5 DEF Vector, At
  <2>4. \A n \in 1 .. 17 : pc' # At("entry", n)
    BY <1>5 DEF At
  <2>5. \A n \in 1 .. 17 : pc' = At("entry", n + 17) => n = 1
    BY <1>5 DEF At
  <2> QED BY <1>11, <1>13, <1>14, <2>1, <2>2, <2>3, <2>4, <2>5 DEF Interrupted
<1>16. At("entry", 18) \in ProgramCounters
  BY DEF ProgramCounters
<1>17. request' \in BOOLEAN
  BY <1>1 DEF HartInv, HartTypes
<1> QED BY <1>1, <1>3, <1>4, <1>9, <1>13, <1>15, <1>16, <1>17, EntryStep DEF At

LEMMA RestoreKeeps ==
  ASSUME HartInv, RestoreRegister
  PROVE  HartInv' /\ in_irq' = TRUE
<1> USE Registers, StackFacts
<1>1. PICK k \in 1 .. 16 :
        /\ Runs /\ pc = At("entry", 17 + k) /\ Goes(At("entry", 17 + k + 1))
        /\ x' = [x EXCEPT ![CallerSaved[k]] = stack[SlotFrom(k)]]
        /\ UNCHANGED <<sp, stack, bss, enabled, request>>
  BY DEF RestoreRegister, Keeps, memoryOf
<1>2. pc[1] # "reset" /\ pc[1] # "main"
  BY <1>1 DEF At
<1>3. in_irq = TRUE /\ Interrupted /\ IsFun(x, Regs) /\ IsFun(stack, StackPlaces)
  BY <1>1, <1>2, InInterrupt
<1>4. pc' = At("entry", k + 18) /\ UNCHANGED <<mepc, found>>
  <2>1. pc' = At("entry", 17 + k + 1) /\ UNCHANGED <<mepc, found>>
    BY <1>1, <1>3, GoesOn
  <2>2. 17 + k + 1 = k + 18
    OBVIOUS
  <2> QED BY <2>1, <2>2
<1>5. FrameLaid /\ Saved /\ CalleesKept /\ RestoredBelow(k)
  BY <1>1, <1>3 DEF Interrupted
<1>6. stack[SlotFrom(k)] = found.x[CallerSaved[k]]
  BY <1>5 DEF Saved, SlotFrom
<1>7. /\ IsFun(x', Regs) /\ x'[CallerSaved[k]] = found.x[CallerSaved[k]]
      /\ \A r \in Regs : r # CallerSaved[k] => x'[r] = x[r]
  BY <1>1, <1>3, <1>6 DEF IsFun
<1>8. RestoredBelow(k + 1)'
  <2> SUFFICES ASSUME NEW j \in 1 .. k PROVE x'[CallerSaved[j]] = found.x[CallerSaved[j]]
    BY <1>4 DEF RestoredBelow
  <2>1. CASE j = k
    BY <1>7, <2>1
  <2>2. CASE j # k
    <3>1. x[CallerSaved[j]] = found.x[CallerSaved[j]] /\ CallerSaved[j] \in Regs
      BY <1>5, <2>2 DEF RestoredBelow
    <3> QED BY <1>7, <3>1
  <2> QED BY <2>1, <2>2
<1>9. FrameLaid' /\ Saved' /\ CalleesKept'
  <2>1. \A r \in CalleeSaved : x'[r] = x[r]
    BY <1>7
  <2> QED BY <1>1, <1>4, <1>5, <2>1 DEF FrameLaid, Saved, CalleesKept
<1>10. Interrupted'
  <2>1. /\ found'.pc = mepc' /\ mepc'[1] = "main" /\ found'.sp \in 0 .. StackWords
        /\ IsFun(found.x, Regs)' /\ IsFun(found.stack, StackPlaces)'
    BY <1>3, <1>4 DEF Interrupted, IsFun
  <2>2. \A a \in found'.sp .. StackWords - 1 : stack'[a] = found'.stack[a]
    BY <1>1, <1>3, <1>4 DEF Interrupted
  <2>3. pc' \notin {Vector, At("entry", 0), At("entry", 35), At("handler", 0)}
    BY <1>4 DEF Vector, At
  <2>4. \A n \in 1 .. 17 : pc' # At("entry", n)
    BY <1>4 DEF At
  <2>5. \A n \in 1 .. 17 : pc' = At("entry", n + 17) => n = k + 1
    BY <1>4 DEF At
  <2> QED BY <1>8, <1>9, <2>1, <2>2, <2>3, <2>4, <2>5 DEF Interrupted
<1>11. At("entry", 17 + k + 1) \in ProgramCounters
  BY DEF ProgramCounters
<1> QED BY <1>1, <1>2, <1>3, <1>7, <1>10, <1>11, EntryStep DEF At, HartInv, HartTypes

\* All registers are back, and the frame is given up.
LEMMA PopKeeps ==
  ASSUME HartInv, PopFrame
  PROVE  HartInv' /\ in_irq' = TRUE
<1> USE Registers, StackFacts
<1>1. /\ Runs /\ pc = At("entry", 34) /\ Goes(At("entry", 35)) /\ sp' = sp + 16
      /\ UNCHANGED <<x, stack, bss, enabled, request>>
  BY DEF PopFrame, Keeps, memoryOf
<1>2. pc[1] # "reset" /\ pc[1] # "main"
  BY <1>1 DEF At
<1>3. in_irq = TRUE /\ Interrupted /\ sp \in 0 .. StackWords /\ IsFun(x, Regs) /\ IsFun(stack, StackPlaces)
  BY <1>1, <1>2, InInterrupt
<1>4. pc' = At("entry", 35) /\ UNCHANGED <<mepc, found>>
  BY <1>1, <1>3, GoesOn
<1>5. FrameLaid /\ CalleesKept /\ RestoredBelow(17) /\ found.sp \in 0 .. StackWords
  <2>1. pc = At("entry", 17 + 17)
    BY <1>1
  <2> QED BY <1>3, <2>1 DEF Interrupted
<1>6. sp' = found.sp
  BY <1>1, <1>3, <1>5 DEF FrameLaid
<1>7. x = found.x
  <2>1. \A r \in Regs : x[r] = found.x[r]
    BY <1>5 DEF CalleesKept, RestoredBelow
  <2> QED BY <1>3, <2>1 DEF IsFun, Interrupted
<1>8. Interrupted'
  <2>1. \A n \in 1 .. 17 : pc' # At("entry", n) /\ pc' # At("entry", n + 17)
    BY <1>4 DEF At
  <2>2. pc' # At("handler", 0)
    BY <1>4 DEF At
  <2> QED BY <1>1, <1>3, <1>4, <1>6, <1>7, <2>1, <2>2 DEF Interrupted, IsFun
<1>9. At("entry", 35) \in ProgramCounters
  BY DEF ProgramCounters
<1> QED BY <1>1, <1>2, <1>3, <1>8, <1>9, EntryStep DEF At, HartInv, HartTypes

-----------------------------------------------------------------------------
\* Before the program starts no interrupt is taken.
LEMMA Resets ==
  ASSUME HartInv, pc[1] = "reset"
  PROVE  /\ pc[2] \in 0 .. 4 /\ pc = At("reset", pc[2]) /\ enabled = FALSE /\ in_irq = FALSE
         /\ next_word \in Nat /\ bss \subseteq next_word .. BssWords - 1
         /\ pc[2] >= 2 => sp = StackWords
         /\ IsFun(x, Regs) /\ IsFun(stack, StackPlaces)
         /\ request \in BOOLEAN
<1>1. pc \in ProgramCounters => \E i \in 0 .. 4 : pc = At("reset", i)
  BY DEF ProgramCounters, Vector, At
<1>2. pc[2] \in 0 .. 4 /\ pc = At("reset", pc[2])
  BY <1>1 DEF HartInv, HartTypes, At
<1> QED BY <1>2 DEF HartInv, HartTypes, ResetOK

LEMMA NotTaken ==
  ASSUME NEW next, in_irq = FALSE, enabled' = FALSE, Goes(next)
  PROVE  /\ pc' = next /\ in_irq' = FALSE /\ halted' \in {"no", "stack"}
         /\ Started \/ halted' = "no"
BY DEF Goes, Retire, Accepts, Pending

LEMMA ResetKeeps ==
  ASSUME HartInv, ResetStep \/ ClearWord
  PROVE  HartInv' /\ in_irq = FALSE
<1> USE StackFacts
<1>1. pc[1] = "reset"
  <2>1. CASE ResetStep
    BY <2>1 DEF ResetStep
  <2>2. CASE ClearWord
    <3>1. pc = At("reset", 4)
      BY <2>2 DEF ClearWord
    <3> QED BY <3>1 DEF At
  <2> QED BY <2>1, <2>2
<1>2. /\ pc[2] \in 0 .. 4 /\ pc = At("reset", pc[2]) /\ enabled = FALSE /\ in_irq = FALSE
      /\ next_word \in Nat /\ bss \subseteq next_word .. BssWords - 1
      /\ pc[2] >= 2 => sp = StackWords
      /\ IsFun(x, Regs) /\ IsFun(stack, StackPlaces)
      /\ request \in BOOLEAN
  BY <1>1, Resets
<1>3. UNCHANGED <<stack, request>> /\ enabled' = FALSE
  BY <1>2 DEF ResetStep, ClearWord, Keeps, memoryOf
<1>4. /\ IsFun(x', Regs) /\ next_word' \in Nat /\ bss' \subseteq next_word' .. BssWords - 1
  <2>1. CASE ResetStep
    BY <1>2, <2>1 DEF ResetStep, Keeps, memoryOf, IsFun
  <2>2. CASE ClearWord
    <3>1. bss' = bss \ {next_word} /\ next_word' = next_word + 1 /\ x' = x
      BY <2>2 DEF ClearWord, Keeps
    <3> QED BY <1>2, <3>1
  <2> QED BY <2>1, <2>2
<1>5. PICK i \in 0 .. 4 : Goes(At("reset", i)) /\ (i >= 2 => sp' = StackWords)
  <2>1. CASE ResetStep
    <3>1. Goes(At("reset", pc[2] + 1)) /\ pc[2] < 4 /\ sp' = IF pc[2] = 1 THEN StackWords ELSE sp
      BY <2>1 DEF ResetStep
    <3>2. pc[2] + 1 \in 0 .. 4 /\ (pc[2] + 1 >= 2 => sp' = StackWords)
      BY <1>2, <3>1
    <3> QED BY <3>1, <3>2
  <2>2. CASE ClearWord
    <3>1. pc = At("reset", 4) /\ Goes(At("reset", 4)) /\ sp' = sp /\ pc[2] = 4
      BY <2>2 DEF ClearWord, Keeps, At
    <3> QED BY <1>2, <3>1
  <2> QED BY <2>1, <2>2
<1>6. /\ pc' = At("reset", i) /\ in_irq' = FALSE /\ halted' = "no"
  BY <1>1, <1>2, <1>3, <1>5, NotTaken DEF Started
<1>7. pc' \in ProgramCounters /\ pc'[1] = "reset" /\ pc'[2] = i
  BY <1>6 DEF ProgramCounters, At
<1>8. HartTypes'
  BY <1>2, <1>3, <1>4, <1>6, <1>7 DEF HartTypes, IsFun
<1> QED BY <1>2, <1>3, <1>4, <1>5, <1>6, <1>7, <1>8 DEF HartInv, ResetOK

\* The program starts on cleared memory, with the stack pointer at the top.
LEMMA CallMainKeeps ==
  ASSUME HartInv, CallMain
  PROVE  HartInv' /\ in_irq = FALSE
<1> USE StackFacts
<1>1. /\ pc = At("reset", 4) /\ BssDone /\ x' = [r \in Regs |-> r] /\ Goes(MainStart)
      /\ UNCHANGED <<sp, stack, bss, next_word, enabled, request>>
  BY DEF CallMain, Keeps, memoryOf
<1>2. pc[1] = "reset" /\ pc[2] = 4
  BY <1>1 DEF At
<1>3. /\ enabled = FALSE /\ in_irq = FALSE
      /\ next_word \in Nat /\ bss \subseteq next_word .. BssWords - 1
      /\ sp = StackWords /\ IsFun(stack, StackPlaces) /\ request \in BOOLEAN
  BY <1>2, Resets
<1>4. pc' = MainStart /\ in_irq' = FALSE /\ halted' \in {"no", "stack"}
  BY <1>1, <1>3, NotTaken
<1>5. pc'[1] = "main"
  BY <1>4 DEF MainStart, At
<1>6. bss' = {}
  BY <1>1, <1>3 DEF BssDone
<1>7. IsFun(x', Regs)
  BY <1>1 DEF IsFun
<1>8. HartTypes'
  BY <1>1, <1>3, <1>4, <1>5, <1>7 DEF HartTypes, IsFun
<1> QED BY <1>1, <1>3, <1>4, <1>5, <1>6, <1>8 DEF HartInv, ResetOK

LEMMA InProgram ==
  ASSUME HartInv, InMain
  PROVE  /\ in_irq = FALSE /\ Started /\ bss = {} /\ sp \in 0 .. StackWords
         /\ IsFun(x, Regs) /\ IsFun(stack, StackPlaces) /\ enabled \in BOOLEAN /\ request \in BOOLEAN
<1>1. Runs /\ pc[1] = "main" /\ pc[1] # "reset"
  BY DEF InMain
<1> QED BY <1>1 DEF HartInv, HartTypes, Started

\* Wherever the program is, an interrupt that is taken has met the instruction that was next.
LEMMA MainKeeps ==
  ASSUME HartInv, MainStep
  PROVE  HartInv' /\ in_irq = FALSE
<1> USE StackFacts
<1>0. PICK op \in Opcode(Carried) \ {"mret"} :
        /\ stack' = Live(sp')
        /\ enabled' \in IF op = "store" THEN BOOLEAN ELSE {enabled}
        /\ UNCHANGED <<x, bss, next_word, request>>
        /\ \E next \in Successors(op) : Goes(next)
  BY DEF MainStep, Keeps
<1>1. PICK next \in Successors(op) : Goes(next)
  BY <1>0
<1>2. /\ in_irq = FALSE /\ Started /\ bss = {} /\ sp \in 0 .. StackWords
      /\ IsFun(x, Regs) /\ IsFun(stack, StackPlaces) /\ enabled \in BOOLEAN /\ request \in BOOLEAN
  BY InProgram DEF MainStep
<1>3. next[1] = "main"
  BY <1>1 DEF Successors, At
<1>4. IsFun(stack', StackPlaces) /\ enabled' \in BOOLEAN
  <2>1. DOMAIN stack = StackPlaces
    BY <1>2 DEF IsFun
  <2> QED BY <1>0, <1>2, <2>1 DEF Live, IsFun
<1>5. halted' \in {"no", "stack"} /\ (halted' = "no" => sp' \in 0 .. StackWords)
  BY <1>1, <1>2 DEF Goes, Retire, InReservation
<1>6. CASE Accepts
  <2>1. /\ mepc' = next /\ pc' = Vector /\ in_irq' = TRUE
        /\ found' = [pc |-> next, x |-> x', sp |-> sp', stack |-> stack']
    BY <1>1, <1>6 DEF Goes, Retire
  <2>2. /\ found'.pc = next /\ found'.x = x' /\ found'.sp = sp' /\ found'.stack = stack'
    BY <2>1
  <2>3. /\ pc' \in ProgramCounters /\ pc'[1] # "reset" /\ pc'[1] # "main"
        /\ pc' # At("handler", 0) /\ \A k \in Nat : pc' # At("entry", k)
    BY <2>1 DEF Vector, At, ProgramCounters
  <2>4. HartTypes'
    BY <1>0, <1>2, <1>4, <1>5, <2>1, <2>3 DEF HartTypes, IsFun
  <2>5. sp' \in 0 .. StackWords => Interrupted'
    <3>1. IsFun(found.x, Regs)' /\ IsFun(found.stack, StackPlaces)'
      BY <1>0, <1>2, <1>4, <2>2 DEF IsFun
    <3>2. \A k \in 1 .. 17 : k \in Nat /\ k + 17 \in Nat
      OBVIOUS
    <3> QED BY <1>3, <2>1, <2>2, <2>3, <3>1, <3>2 DEF Interrupted
  <2> QED BY <1>0, <1>2, <1>5, <2>1, <2>3, <2>4, <2>5 DEF HartInv, ResetOK, Runs
<1>7. CASE ~Accepts
  <2>1. pc' = next /\ in_irq' = FALSE
    BY <1>1, <1>2, <1>7 DEF Goes, Retire
  <2>2. HartTypes'
    BY <1>0, <1>2, <1>3, <1>4, <1>5, <2>1 DEF HartTypes, IsFun
  <2> QED BY <1>0, <1>2, <1>3, <1>5, <2>1, <2>2 DEF HartInv, ResetOK, Runs
<1> QED BY <1>2, <1>6, <1>7

\* No word that the loader accepts reaches an arm of the processor that panics.
LEMMA ArmsCover ==
  ASSUME NEW w \in InstructionWords
  PROVE  ~(Supported(w) /\ Unreachable(w))
<1>1. w.f3 \in 0 .. 7
  BY DEF InstructionWords
<1>2. CASE w.op = "branch"
  <2>1. Supported(w) => w.f3 \in {0, 1} \cup 4 .. 7
    BY <1>2 DEF Supported
  <2> QED BY <1>1, <1>2, <2>1 DEF Unreachable
<1>3. CASE w.op = "load"
  <2>1. Supported(w) => w.f3 \in 0 .. 2 \cup {4, 5}
    BY <1>3 DEF Supported
  <2> QED BY <1>1, <1>3, <2>1 DEF Unreachable
<1> QED BY <1>2, <1>3 DEF Unreachable

LEMMA StopKeeps ==
  ASSUME HartInv, MainStops
  PROVE  HartInv' /\ in_irq = FALSE
<1>1. PICK why \in {"unsupported", "fault"} : Halt(why)
  BY ArmsCover DEF MainStops
<1>2. /\ halted' = why /\ UNCHANGED <<pc, mepc, in_irq, x, sp, stack, bss, next_word, enabled, request, found>>
  BY <1>1 DEF Halt, memoryOf
<1>3. in_irq = FALSE
  BY InProgram DEF MainStops
<1>4. HartTypes'
  BY <1>2 DEF HartInv, HartTypes, IsFun
<1> QED BY <1>2, <1>3, <1>4 DEF HartInv, ResetOK, Runs

\* The return: registers, stack pointer, live stack and program counter are what was met.
LEMMA MretKeeps ==
  ASSUME HartInv, Mret
  PROVE  HartInv' /\ Resumed
<1> USE Registers, StackFacts
<1>1. /\ Runs /\ pc = At("entry", FrameEnd + 1) /\ Retire(pc, TRUE)
      /\ UNCHANGED <<x, sp, stack, bss, enabled, request>>
  BY DEF Mret, Keeps, memoryOf
<1>2. pc = At("entry", 35) /\ pc[1] # "reset" /\ pc[1] # "main"
  BY <1>1 DEF At
<1>3. /\ in_irq = TRUE /\ Interrupted /\ bss = {} /\ sp \in 0 .. StackWords
      /\ IsFun(x, Regs) /\ IsFun(stack, StackPlaces)
  BY <1>1, <1>2, InInterrupt
<1>4. pc' = mepc /\ in_irq' = FALSE /\ halted' \in {"no", "stack"}
  BY <1>1, <1>3 DEF Retire, Accepts
<1>5. /\ found.pc = mepc /\ mepc[1] = "main" /\ x = found.x /\ sp = found.sp
      /\ \A a \in found.sp .. StackWords - 1 : stack[a] = found.stack[a]
  BY <1>2, <1>3 DEF Interrupted
<1>6. Resumed
  BY <1>1, <1>4, <1>5 DEF Resumed
<1>7. HartTypes'
  BY <1>1, <1>4, <1>5 DEF HartInv, HartTypes, IsFun
<1> QED BY <1>1, <1>3, <1>4, <1>5, <1>6, <1>7 DEF HartInv, ResetOK, Runs

LEMMA QuietHart ==
  ASSUME HartInv, request' \in BOOLEAN,
         UNCHANGED <<pc, mepc, in_irq, x, sp, stack, bss, next_word, enabled, halted, found>>
  PROVE  HartInv'
<1>1. HartTypes' /\ ResetOK'
  BY DEF HartInv, HartTypes, ResetOK, IsFun
<1>2. Interrupted => Interrupted'
  BY DEF Interrupted, FrameLaid, Saved, SavedBelow, RestoredBelow, CalleesKept, IsFun
<1> QED BY <1>1, <1>2 DEF HartInv, Runs

LEMMA HartStart == HartInit => HartInv
<1> SUFFICES ASSUME HartInit PROVE HartInv
  OBVIOUS
<1> USE StackFacts
<1>1. pc = At("reset", 0) /\ pc[1] = "reset" /\ pc[2] = 0 /\ pc \in ProgramCounters
  BY DEF HartInit, Reset, At, ProgramCounters
<1>2. HartTypes
  BY <1>1 DEF HartInit, HartTypes, IsFun, StackPlaces
<1>3. ResetOK
  BY <1>1 DEF HartInit, ResetOK
<1> QED BY <1>1, <1>2, <1>3 DEF HartInv

\* The steps of an interrupt but the last keep it in progress.
EntryNext ==
  EnterVector \/ PushFrame \/ SaveRegister \/ CallHandler \/ Handler \/ RestoreRegister \/ PopFrame

LEMMA EntryKeeps ==
  ASSUME HartInv, EntryNext
  PROVE  HartInv' /\ in_irq' = TRUE
BY VectorKeeps, PushKeeps, SaveKeeps, CallKeeps, HandlerKeeps, RestoreKeeps, PopKeeps DEF EntryNext

LEMMA HartStep ==
  ASSUME HartInv, [HartNext]_hartVars
  PROVE  HartInv' /\ (in_irq /\ ~in_irq' => Resumed)
<1>1. CASE ResetStep \/ ClearWord
  BY <1>1, ResetKeeps
<1>2. CASE CallMain
  BY <1>2, CallMainKeeps
<1>3. CASE MainStep
  BY <1>3, MainKeeps
<1>4. CASE MainStops
  BY <1>4, StopKeeps
<1>5. CASE EntryNext
  BY <1>5, EntryKeeps
<1>6. CASE Mret
  BY <1>6, MretKeeps
<1>7. CASE Request \/ UNCHANGED hartVars
  <2>1. /\ UNCHANGED <<pc, mepc, in_irq, x, sp, stack, bss, next_word, enabled, halted, found>>
        /\ request' \in BOOLEAN
    BY <1>7 DEF Request, hartVars, memoryOf, HartInv, HartTypes
  <2> QED BY <2>1, QuietHart
<1> QED BY <1>1, <1>2, <1>3, <1>4, <1>5, <1>6, <1>7 DEF HartNext, EntryNext

LEMMA HartClean == HartInv => StartsClean
<1> SUFFICES ASSUME HartInv PROVE StartsClean
  OBVIOUS
<1> USE Registers, StackFacts
<1>1. pc[1] \in {"main", "vector", "entry", "handler"} => bss = {}
  BY DEF HartInv
<1>2. halted # "unreachable"
  BY DEF HartInv, HartTypes
<1>3. ASSUME pc[1] = "entry", pc[2] \in 1 .. FrameEnd, Runs
      PROVE  sp \in 0 .. StackWords - Frame
  <2>1. Interrupted /\ sp \in 0 .. StackWords
    BY <1>3, InInterrupt
  <2>2. \E k \in 1 .. 34 : pc = At("entry", k)
    BY <1>3 DEF HartInv, HartTypes, ProgramCounters, Vector, At
  <2>3. \E k \in 1 .. 17 : pc = At("entry", k) \/ pc = At("entry", k + 17)
    <3>1. PICK k \in 1 .. 34 : pc = At("entry", k)
      BY <2>2
    <3>2. CASE k <= 17
      BY <3>1, <3>2
    <3>3. CASE k > 17
      <4>1. k - 17 \in 1 .. 17 /\ (k - 17) + 17 = k
        BY <3>3
      <4> QED BY <3>1, <4>1
    <3> QED BY <3>2, <3>3
  <2>4. FrameLaid /\ found.sp \in 0 .. StackWords
    BY <2>1, <2>3 DEF Interrupted
  <2>5. sp = found.sp - 16
    BY <2>4 DEF FrameLaid
  <2>6. found.sp = sp + 16
    BY <2>1, <2>4, <2>5
  <2> QED BY <2>1, <2>4, <2>6
<1> QED BY <1>1, <1>2, <1>3 DEF StartsClean

\* Interrupts are transparent: whatever the program, wherever it is met, and whatever the handler
\* does within the C ABI, registers, stack pointer, live stack and the next instruction come
\* back; the program starts on cleared memory and no accepted word panics the processor
\* (startup.S; machine.rs, step).
THEOREM InterruptsTransparent == HartSpec => InterruptLeavesNoTrace
<1>1. HartInit => HartInv
  BY HartStart
<1>2. HartInv /\ [HartNext]_hartVars => HartInv'
  BY HartStep
<1>3. HartInv => StartsClean
  BY HartClean
<1>4. HartInv /\ [HartNext]_hartVars => (in_irq /\ ~in_irq' => Resumed)
  BY HartStep
<1>5. HartSpec => []StartsClean /\ [][in_irq /\ ~in_irq' => Resumed]_hartVars
  BY <1>1, <1>2, <1>3, <1>4, PTL DEF HartSpec
<1> QED BY <1>5 DEF InterruptLeavesNoTrace

-----------------------------------------------------------------------------
(* Induction, over a set of numbers, from the well-foundedness of <.           *)

LEMMA NatMin ==
  ASSUME NEW T \in SUBSET Nat, T # {}
  PROVE  \E n \in T : \A m \in T : n <= m
<1>1. PICK R : R = {ss \in Nat \X Nat : ss[1] < ss[2]}
  OBVIOUS
<1>2. IsWellFoundedOn(R, Nat)
  BY <1>1, NatLessThanWellFounded DEF OpToRel
<1>3. PICK n \in T : \A m \in T : ~ (<<m, n>> \in R)
  BY <1>2, WFMin
<1>4. ASSUME NEW m \in T, m < n PROVE <<m, n>> \in R
  <2>1. <<m, n>> \in Nat \X Nat /\ <<m, n>>[1] = m /\ <<m, n>>[2] = n
    OBVIOUS
  <2> QED BY <1>1, <1>4, <2>1
<1>5. \A m \in T : ~ (m < n)
  BY <1>3, <1>4
<1> QED BY <1>5

LEMMA Induction ==
  ASSUME NEW T \in SUBSET Nat, 0 \in T, \A n \in T : n + 1 \in T
  PROVE  \A n \in Nat : n \in T
<1>1. ASSUME Nat \ T # {} PROVE FALSE
  <2>1. PICK n \in Nat \ T : \A m \in Nat \ T : n <= m
    BY <1>1, NatMin
  <2>2. n # 0 /\ n - 1 \in Nat
    BY <2>1
  <2>3. n - 1 \in T
    BY <2>1, <2>2
  <2>4. (n - 1) + 1 = n
    BY <2>1
  <2> QED BY <2>1, <2>3, <2>4
<1> QED BY <1>1

-----------------------------------------------------------------------------
(* The sum of a line's bytes: what one more byte and what another byte does to it. *)

\* The recursion in the definition of FoldSeq, over the sets of places D.
Chosen(s) == CHOOSE i \in s : TRUE
SumsOf(f, b, D) ==
  f = [s \in SUBSET D |-> IF s = {} THEN 0 ELSE b[Chosen(s)] + f[s \ {Chosen(s)}]]

NatsAt(b, D) == \A e \in D : b[e] \in Nat
TakesOff(f, b, D, j) == f[D \ {j}] \in Nat /\ f[D] = f[D \ {j}] + b[j]

LEMMA ChosenIn == ASSUME NEW s, s # {} PROVE Chosen(s) \in s
BY DEF Chosen

\* Finite sets one by one: what holds without any element of s holds of s.
LEMMA ByParts ==
  ASSUME NEW D, IsFiniteSet(D), NEW P \in SUBSET SUBSET D, {} \in P,
         \A s \in SUBSET D : (\A e \in s : s \ {e} \in P) => s \in P
  PROVE  SUBSET D \subseteq P
<1> DEFINE T == {n \in Nat : \A s \in SUBSET D : Cardinality(s) = n => s \in P}
<1>1. \A s \in SUBSET D : IsFiniteSet(s) /\ Cardinality(s) \in Nat
  BY FS_Subset, FS_CardinalityType
<1>2. 0 \in T
  BY <1>1, FS_EmptySet
<1>3. ASSUME NEW n \in T PROVE n + 1 \in T
  <2>0. n + 1 \in Nat
    OBVIOUS
  <2> SUFFICES ASSUME NEW s \in SUBSET D, Cardinality(s) = n + 1 PROVE s \in P
    BY <2>0
  <2>1. ASSUME NEW e \in s PROVE s \ {e} \in P
    <3>1. Cardinality(s \ {e}) = Cardinality(s) - 1
      BY <1>1, FS_RemoveElement
    <3>2. Cardinality(s \ {e}) = n
      BY <3>1
    <3>3. s \ {e} \in SUBSET D
      OBVIOUS
    <3> QED BY <3>2, <3>3
  <2> QED BY <2>1
<1>4. \A n \in Nat : n \in T
  <2> HIDE DEF T
  <2>1. T \subseteq Nat
    BY DEF T
  <2> QED BY <1>2, <1>3, <2>1, Induction
<1>5. ASSUME NEW s \in SUBSET D PROVE s \in P
  BY <1>1, <1>4
<1> QED BY <1>5

\* Sums of the same bytes at the same places are the same.
LEMMA SumsAgree ==
  ASSUME NEW f, NEW b, NEW D, IsFiniteSet(D), SumsOf(f, b, D),
         NEW g, NEW c, NEW E, SumsOf(g, c, E),
         NEW t, t \subseteq D, t \subseteq E, \A e \in t : b[e] = c[e]
  PROVE  f[t] = g[t]
<1> DEFINE P == {s \in SUBSET D : s \subseteq t => f[s] = g[s]}
<1>1. \A s \in SUBSET D : f[s] = IF s = {} THEN 0 ELSE b[Chosen(s)] + f[s \ {Chosen(s)}]
  BY DEF SumsOf
<1>2. \A s \in SUBSET E : g[s] = IF s = {} THEN 0 ELSE c[Chosen(s)] + g[s \ {Chosen(s)}]
  BY DEF SumsOf
<1>3. {} \in P
  BY <1>1, <1>2
<1>4. ASSUME NEW s \in SUBSET D, \A e \in s : s \ {e} \in P
      PROVE  s \in P
  <2> SUFFICES ASSUME s \subseteq t, s # {} PROVE f[s] = g[s]
    BY <1>3
  <2>1. Chosen(s) \in s /\ s \in SUBSET E
    BY ChosenIn
  <2>2. f[s \ {Chosen(s)}] = g[s \ {Chosen(s)}] /\ b[Chosen(s)] = c[Chosen(s)]
    BY <1>4, <2>1
  <2> QED BY <1>1, <1>2, <2>1, <2>2
<1>5. SUBSET D \subseteq P
  <2> HIDE DEF P
  <2>1. P \subseteq SUBSET D
    BY DEF P
  <2> QED BY <1>3, <1>4, <2>1, ByParts
<1> QED BY <1>5

LEMMA SumsExist ==
  ASSUME NEW b, NEW D, IsFiniteSet(D)
  PROVE  \E f : SumsOf(f, b, D)
<1> DEFINE Upto(n) == {s \in SUBSET D : Cardinality(s) <= n}
           Sum(f, s) == IF s = {} THEN 0 ELSE b[Chosen(s)] + f[s \ {Chosen(s)}]
           T == {n \in Nat : \E f : f = [s \in Upto(n) |-> Sum(f, s)]}
<1>1. \A s \in SUBSET D : IsFiniteSet(s) /\ Cardinality(s) \in Nat
  BY FS_Subset, FS_CardinalityType
<1>2. 0 \in T
  <2> DEFINE f == [s \in Upto(0) |-> 0]
  <2>1. ASSUME NEW s \in Upto(0) PROVE s = {}
    <3>1. Cardinality(s) = 0
      BY <1>1
    <3> QED BY <1>1, <3>1, FS_EmptySet
  <2>2. f = [s \in Upto(0) |-> Sum(f, s)]
    BY <2>1
  <2> HIDE DEF f, Upto, Sum
  <2> QED BY <2>2
<1>3. ASSUME NEW n \in T PROVE n + 1 \in T
  <2>1. PICK f : f = [s \in Upto(n) |-> Sum(f, s)]
    OBVIOUS
  <2> DEFINE g == [s \in Upto(n + 1) |-> Sum(f, s)]
  <2>2. ASSUME NEW s \in Upto(n + 1) PROVE g[s] = Sum(g, s)
    <3>1. CASE s = {}
      BY <3>1
    <3>2. CASE s # {}
      <4>1. PICK u : u = s \ {Chosen(s)}
        OBVIOUS
      <4>2. Chosen(s) \in s /\ s \in SUBSET D /\ u \in SUBSET D
        BY <3>2, <4>1, ChosenIn
      <4>3. Cardinality(u) = Cardinality(s) - 1
        BY <1>1, <4>1, <4>2, FS_RemoveElement
      <4>4. Cardinality(u) \in Nat /\ Cardinality(s) \in Nat /\ Cardinality(s) <= n + 1
        BY <1>1, <4>2
      <4>5. Cardinality(u) <= n /\ Cardinality(u) <= n + 1
        BY <4>3, <4>4
      <4>6. u \in Upto(n) /\ u \in Upto(n + 1)
        BY <4>2, <4>5
      <4> HIDE DEF Upto
      <4>7. f[u] = Sum(f, u) /\ g[u] = Sum(f, u)
        BY <2>1, <4>6
      <4>8. g[s] = b[Chosen(s)] + f[u]
        BY <3>2, <4>1
      <4> HIDE DEF g
      <4> QED BY <3>2, <4>1, <4>7, <4>8
    <3> QED BY <3>1, <3>2
  <2>3. g = [s \in Upto(n + 1) |-> g[s]]
    OBVIOUS
  <2>4. g = [s \in Upto(n + 1) |-> Sum(g, s)]
    <3> HIDE DEF g, Upto, Sum
    <3> QED BY <2>2, <2>3
  <2>5. n + 1 \in Nat
    OBVIOUS
  <2> HIDE DEF g, Upto, Sum
  <2> QED BY <2>4, <2>5
<1>4. \A n \in Nat : n \in T
  <2> HIDE DEF T
  <2>1. T \subseteq Nat
    BY DEF T
  <2> QED BY <1>2, <1>3, <2>1, Induction
<1>5. PICK n \in Nat : n = Cardinality(D)
  BY <1>1
<1>6. Upto(n) = SUBSET D
  <2>1. ASSUME NEW s \in SUBSET D PROVE Cardinality(s) <= n
    BY <1>5, FS_Subset
  <2> QED BY <2>1
<1>7. PICK f : f = [s \in Upto(n) |-> Sum(f, s)]
  BY <1>4
<1>8. f = [s \in SUBSET D |-> Sum(f, s)]
  BY <1>6, <1>7
<1> QED BY <1>8 DEF SumsOf

\* Whichever element is taken off first.

LEMMA SumsNat ==
  ASSUME NEW f, NEW b, NEW D, IsFiniteSet(D), SumsOf(f, b, D), \A e \in D : b[e] \in Nat
  PROVE  \A s \in SUBSET D : f[s] \in Nat
<1> DEFINE P == {s \in SUBSET D : f[s] \in Nat}
<1>1. \A s \in SUBSET D : f[s] = IF s = {} THEN 0 ELSE b[Chosen(s)] + f[s \ {Chosen(s)}]
  BY DEF SumsOf
<1>2. {} \in P
  BY <1>1
<1>3. ASSUME NEW s \in SUBSET D, \A e \in s : s \ {e} \in P
      PROVE  s \in P
  <2>1. CASE s # {}
    <3>1. PICK k \in s : k = Chosen(s)
      BY <2>1, ChosenIn
    <3>2. f[s \ {k}] \in Nat /\ b[k] \in Nat /\ f[s] = b[k] + f[s \ {k}]
      BY <1>1, <1>3, <3>1
    <3> QED BY <3>2
  <2> QED BY <1>2, <2>1
<1>4. SUBSET D \subseteq P
  <2> HIDE DEF P
  <2>1. P \subseteq SUBSET D
    BY DEF P
  <2> QED BY <1>2, <1>3, <2>1, ByParts
<1> QED BY <1>4

\* Whichever place is taken off first.
LEMMA AnyFirst ==
  ASSUME NEW f, NEW b, NEW D, IsFiniteSet(D), SumsOf(f, b, D), NatsAt(b, D),
         NEW j \in D
  PROVE  TakesOff(f, b, D, j)
<1> USE DEF NatsAt
<1> DEFINE P == {s \in SUBSET D : \A e \in s : f[s] = f[s \ {e}] + b[e]}
<1>1. \A s \in SUBSET D : f[s] = IF s = {} THEN 0 ELSE b[Chosen(s)] + f[s \ {Chosen(s)}]
  BY DEF SumsOf
<1>2. {} \in P
  OBVIOUS
<1>3. ASSUME NEW s \in SUBSET D, \A e \in s : s \ {e} \in P
      PROVE  s \in P
  <2> SUFFICES ASSUME s # {} PROVE s \in P
    BY <1>2
  <2>1. PICK k \in s : k = Chosen(s)
    BY ChosenIn
  <2>2. f[s \ {k}] \in Nat /\ b[k] \in Nat /\ f[s] = f[s \ {k}] + b[k]
    <3>1. f[s \ {k}] \in Nat /\ b[k] \in Nat /\ f[s] = b[k] + f[s \ {k}]
      BY <1>1, <2>1, SumsNat
    <3> QED BY <3>1
  <2>3. ASSUME NEW e \in s, e # k PROVE f[s] = f[s \ {e}] + b[e]
    <3>1. s \ {k} \in P /\ s \ {e} \in P /\ e \in s \ {k} /\ k \in s \ {e}
      BY <1>3, <2>3
    <3>2. PICK r : r = (s \ {k}) \ {e} /\ r = (s \ {e}) \ {k} /\ r \in SUBSET D
      OBVIOUS
    <3>3. f[s \ {k}] = f[r] + b[e] /\ f[s \ {e}] = f[r] + b[k]
      BY <3>1, <3>2
    <3>4. f[r] \in Nat /\ b[e] \in Nat
      BY <3>2, SumsNat
    <3> QED BY <2>2, <3>3, <3>4
  <2> QED BY <2>2, <2>3
<1>4. SUBSET D \subseteq P
  <2> HIDE DEF P
  <2>1. P \subseteq SUBSET D
    BY DEF P
  <2> QED BY <1>2, <1>3, <2>1, ByParts
<1>5. f[D] = f[D \ {j}] + b[j]
  BY <1>4
<1>6. f[D \ {j}] \in Nat /\ b[j] \in Nat
  BY SumsNat
<1> QED BY <1>5, <1>6 DEF TakesOff

\* The same, said of one place in a sequence.
LEMMA TakeOff ==
  ASSUME NEW s \in Seq(Nat), NEW D, D = 1 .. Len(s), NEW f, SumsOf(f, s, D), NEW j \in D
  PROVE  TakesOff(f, s, D, j)
<1>1. PICK b, e : b = s /\ e = j
  OBVIOUS
<1>2. IsFiniteSet(D) /\ SumsOf(f, b, D) /\ NatsAt(b, D) /\ e \in D
  <2>1. IsFiniteSet(D)
    BY LenProperties, FS_Interval
  <2>2. NatsAt(s, D)
    BY ElementOfSeq DEF NatsAt
  <2> QED BY <1>1, <2>1, <2>2
<1>3. TakesOff(f, b, D, e)
  BY ONLY <1>2, AnyFirst
<1> QED BY <1>1, <1>3

LEMMA TotalIs ==
  ASSUME NEW s \in Seq(Nat), NEW D, D = 1 .. Len(s), NEW f, SumsOf(f, s, D)
  PROVE  Total(s) = f[D]
<1>1. DOMAIN s = D /\ IsFiniteSet(D)
  BY LenProperties, FS_Interval
<1>2. ASSUME NEW g, SumsOf(g, s, D) PROVE g = f
  <2>1. ASSUME NEW t \in SUBSET D PROVE g[t] = f[t]
    <3>1. \A e \in t : s[e] = s[e]
      OBVIOUS
    <3>2. SumsOf(f, s, D) /\ SumsOf(g, s, D) /\ t \subseteq D /\ IsFiniteSet(D)
      BY <1>1, <1>2
    <3> QED BY ONLY <3>1, <3>2, SumsAgree
  <2>2. g = [t \in SUBSET D |-> g[t]] /\ f = [t \in SUBSET D |-> f[t]]
    BY <1>2 DEF SumsOf
  <2> QED BY <2>1, <2>2
<1>3. (CHOOSE g : SumsOf(g, s, D)) = f
  BY <1>2
<1> QED BY <1>1, <1>3 DEF Total, FoldSeq, FoldFunction, FoldFunctionOnSet, MapThenFoldSet, SumsOf, Chosen

LEMMA TotalEmpty == Total(<< >>) = 0
<1>1. << >> \in Seq(Nat) /\ Len(<< >>) = 0 /\ IsFiniteSet({}) /\ 1 .. 0 = {}
  BY EmptySeq, FS_EmptySet
<1>2. PICK f : SumsOf(f, << >>, {})
  BY <1>1, SumsExist
<1>3. f[{}] = 0
  BY <1>2 DEF SumsOf
<1> QED BY <1>1, <1>2, <1>3, TotalIs

\* One more byte.
LEMMA TotalAppend ==
  ASSUME NEW s \in Seq(Nat), NEW v \in Nat
  PROVE  Total(s) \in Nat /\ Total(Append(s, v)) = Total(s) + v
<1>1. PICK n \in Nat : n = Len(s)
  BY LenProperties
<1>2. PICK m \in Nat : m = n + 1
  OBVIOUS
<1>3. PICK more \in Seq(Nat) : more = Append(s, v)
  BY AppendProperties
<1>4. Len(more) = m /\ more[m] = v /\ \A k \in 1 .. n : more[k] = s[k]
  BY <1>1, <1>2, <1>3, AppendProperties
<1>13. PICK D, E : D = 1 .. n /\ E = 1 .. m
  OBVIOUS
<1>5. IsFiniteSet(D) /\ IsFiniteSet(E) /\ E \ {m} = D /\ m \in E /\ D \subseteq E /\ D \subseteq D /\ E \in SUBSET E
  <2>1. \A k : k \in E \ {m} <=> k \in D
    BY <1>2, <1>13
  <2>2. m \in E /\ IsFiniteSet(D) /\ IsFiniteSet(E)
    BY <1>2, <1>13, FS_Interval
  <2> QED BY <2>1, <2>2
<1>6. PICK f : SumsOf(f, s, D)
  BY <1>5, SumsExist
<1>7. PICK g : SumsOf(g, more, E)
  BY <1>5, SumsExist
<1>8. (\A e \in D : s[e] \in Nat) /\ (\A e \in E : more[e] \in Nat) /\ \A e \in D : s[e] = more[e]
  BY <1>1, <1>3, <1>4, <1>5, <1>13, ElementOfSeq
<1>9. f[D] \in Nat
  BY ONLY <1>5, <1>6, <1>8, SumsNat
<1>10. g[E] = g[D] + v
  <2>2. TakesOff(g, more, E, m)
    BY <1>4, <1>5, <1>7, <1>13, TakeOff
  <2> QED BY <1>4, <1>5, <2>2 DEF TakesOff
<1>11. f[D] = g[D]
  <2>1. IsFiniteSet(D) /\ D \subseteq D /\ D \subseteq E /\ \A e \in D : s[e] = more[e]
    BY <1>5, <1>8
  <2> QED BY ONLY <1>6, <1>7, <2>1, SumsAgree
<1>12. Total(s) = f[D] /\ Total(more) = g[E]
  BY ONLY s \in Seq(Nat), more \in Seq(Nat), <1>1, <1>4, <1>13, <1>6, <1>7, TotalIs
<1> QED BY <1>3, <1>9, <1>10, <1>11, <1>12

\* Another byte in one place.
LEMMA TotalChanged ==
  ASSUME NEW s \in Seq(Nat), NEW j \in DOMAIN s, NEW v \in Nat,
         NEW other \in Seq(Nat), Len(other) = Len(s), other[j] = v,
         \A k \in DOMAIN s : k # j => other[k] = s[k]
  PROVE  \E a \in Nat : Total(s) = a + s[j] /\ Total(other) = a + v
<1>1. PICK D : D = DOMAIN s /\ D = 1 .. Len(s) /\ D = 1 .. Len(other)
  BY LenProperties
<1>2. IsFiniteSet(D) /\ D \in SUBSET D
  <2>1. Len(s) \in Nat
    BY LenProperties
  <2> QED BY <1>1, <2>1, FS_Interval
<1>3. PICK f : SumsOf(f, s, D)
  BY <1>2, SumsExist
<1>4. PICK g : SumsOf(g, other, D)
  BY <1>2, SumsExist
<1>5. (\A e \in D : s[e] \in Nat) /\ (\A e \in D : other[e] \in Nat)
  BY <1>1, ElementOfSeq
<1>6. PICK r : r = D \ {j} /\ r \in SUBSET D
  OBVIOUS
<1>7. f[D] = f[r] + s[j] /\ g[D] = g[r] + other[j]
  <2>1. j \in D
    BY <1>1
  <2>2. TakesOff(f, s, D, j) /\ TakesOff(g, other, D, j)
    BY <1>1, <1>3, <1>4, <2>1, TakeOff
  <2> QED BY <1>6, <2>2 DEF TakesOff
<1>8. f[r] = g[r]
  <2>1. \A e \in r : s[e] = other[e]
    BY <1>1, <1>6
  <2>2. r \subseteq D
    BY <1>6
  <2> QED BY ONLY <1>2, <1>3, <1>4, <2>1, <2>2, SumsAgree
<1>9. f[r] \in Nat
  BY ONLY <1>2, <1>3, <1>5, <1>6, SumsNat
<1>10. Total(s) = f[D] /\ Total(other) = g[D]
  BY ONLY s \in Seq(Nat), other \in Seq(Nat), <1>1, <1>3, <1>4, TotalIs
<1> QED BY <1>7, <1>8, <1>9, <1>10

-----------------------------------------------------------------------------
(* Records. *)

Octets == 0 .. B - 1

LEMMA Sizes == B \in Nat /\ B > 4 /\ Chunk \in Nat /\ 1 <= Chunk /\ Chunk < B /\ Page \in Nat /\ Page = B * B
BY HexAssumption DEF Page

LEMMA Division ==
  ASSUME NEW a \in Nat, NEW b \in Nat \ {0}
  PROVE  \E q \in Int, r \in 0 .. b - 1 : a = b * q + r /\ q = a \div b /\ r = a % b
<1>1. PICK q \in Int, r \in Int : q = a \div b /\ r = a % b
  OBVIOUS
<1>2. a = b * q + r /\ 0 <= r /\ r < b
  BY <1>1
<1>3. r \in 0 .. b - 1
  BY <1>2
<1> QED BY <1>1, <1>2, <1>3

\* The two bytes of an address.
LEMMA Halves ==
  ASSUME NEW a \in Nat, a < Page
  PROVE  a \div B \in Octets /\ a % B \in Octets /\ (a \div B) * B + (a % B) = a
<1>1. PICK b \in Nat : b = B /\ b > 4 /\ a < b * b
  BY Sizes
<1>2. PICK q \in Int, r \in Int : q = a \div b /\ r = a % b
  BY <1>1
<1>3. a = b * q + r /\ 0 <= r /\ r < b
  BY <1>1, <1>2
<1>4. q >= 0
  <2>1. ASSUME q <= -1 PROVE b * q <= -b
    BY <1>1, <2>1
  <2> QED BY <1>1, <1>3, <2>1
<1>5. q < b
  <2>1. ASSUME q >= b PROVE b * q >= b * b
    BY <1>1, <2>1
  <2> QED BY <1>1, <1>3, <2>1
<1>6. q * b = b * q
  OBVIOUS
<1>7. q \in 0 .. b - 1 /\ r \in 0 .. b - 1 /\ q * b + r = a
  BY <1>3, <1>4, <1>5, <1>6
<1> QED BY <1>1, <1>2, <1>7 DEF Octets

\* The checksum makes the sum zero, modulo the byte.
LEMMA Closes ==
  ASSUME NEW t \in Nat
  PROVE  (B - (t % B)) % B \in Octets /\ (t + ((B - (t % B)) % B)) % B = 0
<1>1. PICK b \in Nat \ {0} : b = B
  BY Sizes
<1>2. PICK q \in Int, r \in 0 .. b - 1 : t = b * q + r /\ r = t % b
  BY Division
<1>3. PICK c \in Int : c = (b - r) % b
  OBVIOUS
<1>4. c \in 0 .. b - 1 /\ (t + c) % b = 0
  <2>1. CASE r = 0
    <3>1. c = 0
      BY <1>3, <2>1
    <3>2. t + c = t
      BY <3>1
    <3> QED BY <1>2, <2>1, <3>1, <3>2
  <2>2. CASE r # 0
    <3>1. c = b - r
      BY <1>3, <2>2
    <3>2. PICK k \in Int : k = q + 1
      OBVIOUS
    <3>3. t + c = b * k
      BY <1>2, <3>1, <3>2
    <3>4. (b * k) % b = 0
      OBVIOUS
    <3>5. (t + c) % b = 0
      BY <3>3, <3>4
    <3> QED BY <2>2, <3>1, <3>5
  <2> QED BY <2>1, <2>2
<1> QED BY <1>1, <1>2, <1>3, <1>4 DEF Octets

\* A sum that another byte changes is not zero any more.
LEMMA Opens ==
  ASSUME NEW a \in Nat, NEW v \in Octets, NEW w \in Octets, v # w, (a + v) % B = 0
  PROVE  (a + w) % B # 0
<1>1. PICK b \in Nat \ {0} : b = B
  BY Sizes
<1>2. v \in Nat /\ w \in Nat /\ v < b /\ w < b /\ a + v \in Nat /\ a + w \in Nat
  BY <1>1 DEF Octets
<1>3. PICK q \in Int : a + v = b * q
  <2>0. PICK k \in Nat : k = a + v
    BY <1>2
  <2>1. PICK q \in Int, r \in 0 .. b - 1 : k = b * q + r /\ r = k % b
    BY Division
  <2>2. r = 0
    BY <1>1, <2>0, <2>1
  <2>3. a + v = b * q
    BY <1>2, <2>0, <2>1, <2>2
  <2> QED BY <2>3
<1>4. ASSUME (a + w) % b = 0 PROVE FALSE
  <2>1. PICK p \in Int : a + w = b * p
    <3>0. PICK k \in Nat : k = a + w
      BY <1>2
    <3>1. PICK q1 \in Int, r \in 0 .. b - 1 : k = b * q1 + r /\ r = k % b
      BY Division
    <3>2. r = 0
      BY <1>4, <3>0, <3>1
    <3>3. a + w = b * q1
      BY <1>2, <3>0, <3>1, <3>2
    <3> QED BY <3>3
  <2>2. PICK d \in Int : d = p - q
    OBVIOUS
  <2>3. w - v = b * d
    BY <1>1, <1>2, <1>3, <2>1, <2>2
  <2>4. CASE d = 0
    BY <1>1, <1>2, <2>3, <2>4
  <2>5. CASE d >= 1
    <3>1. b * d >= b
      BY <1>1, <2>5
    <3> QED BY <1>1, <1>2, <2>3, <3>1
  <2>6. CASE d <= -1
    <3>1. b * d <= -b
      BY <1>1, <2>6
    <3> QED BY <1>1, <1>2, <2>3, <3>1
  <2> QED BY <2>4, <2>5, <2>6
<1> QED BY <1>1, <1>4

IsRecord(l, address, kind, payload) ==
  /\ l \in Seq(Octets) /\ Len(l) = Len(payload) + 5 /\ l[1] = Len(payload)
  /\ AddressOf(l) = address /\ l[4] = kind /\ Payload(l) = payload /\ Total(l) % B = 0

LEMMA RecordIs ==
  ASSUME NEW address \in Nat, address < Page, NEW kind \in Octets,
         NEW payload \in Seq(Octets), Len(payload) < B
  PROVE  IsRecord(Record(address, kind, payload), address, kind, payload)
<1>1. PICK n \in Nat : n = Len(payload) /\ n \in Octets
  BY Sizes, LenProperties DEF Octets
<1>2. PICK head \in Seq(Octets) : /\ head = <<n, address \div B, address % B, kind>> /\ Len(head) = 4
                                  /\ head[1] = n /\ head[2] = address \div B
                                  /\ head[3] = address % B /\ head[4] = kind
  <2>1. address \div B \in Octets /\ address % B \in Octets
    BY Halves
  <2>2. PICK p \in Octets, q \in Octets : p = address \div B /\ q = address % B
    BY <2>1
  <2>3. PICK head \in Seq(Octets) : head = <<n, p, q, kind>>
    <3>1. PICK m \in Octets : m = n
      BY <1>1
    <3>2. <<m, p, q, kind>> \in Seq(Octets)
      OBVIOUS
    <3> QED BY <3>1, <3>2
  <2>4. Len(head) = 4 /\ head[1] = n /\ head[2] = p /\ head[3] = q /\ head[4] = kind
    BY <2>3
  <2> QED BY <2>2, <2>3, <2>4
<1>3. PICK body \in Seq(Octets) :
        /\ body = head \o payload /\ Len(body) = n + 4
        /\ \A i \in 1 .. n + 4 : body[i] = IF i <= 4 THEN head[i] ELSE payload[i - 4]
  <2>1. PICK body \in Seq(Octets) : body = head \o payload
    BY ConcatProperties
  <2>2. /\ Len(body) = 4 + n
        /\ \A i \in 1 .. 4 + n : body[i] = IF i <= 4 THEN head[i] ELSE payload[i - 4]
    BY <1>1, <1>2, <2>1, ConcatProperties
  <2>3. 4 + n = n + 4
    OBVIOUS
  <2> QED BY <2>1, <2>2, <2>3
<1>4. Octets \subseteq Nat
  BY DEF Octets
<1>5. Total(body) \in Nat /\ \A v \in Nat : Total(Append(body, v)) = Total(body) + v
  <2>1. body \in Seq(Nat)
    BY <1>4, SeqMonotonic
  <2> QED BY <2>1, TotalAppend
<1>6. PICK c \in Octets : c = Checksum(body) /\ (Total(body) + c) % B = 0
  BY <1>5, Closes DEF Checksum
<1>7. PICK l \in Seq(Octets) :
        /\ l = Append(body, c) /\ Len(l) = n + 5
        /\ \A i \in 1 .. n + 4 : l[i] = body[i]
  <2>1. PICK l \in Seq(Octets) : l = Append(body, c)
    BY AppendProperties
  <2>2. Len(l) = Len(body) + 1 /\ \A i \in 1 .. Len(body) : l[i] = body[i]
    BY <2>1, AppendProperties
  <2>3. Len(l) = n + 5 /\ \A i \in 1 .. n + 4 : l[i] = body[i]
    BY <1>3, <2>2
  <2> QED BY <2>1, <2>3
<1>8. Record(address, kind, payload) = l
  BY <1>1, <1>2, <1>3, <1>6, <1>7 DEF Record
<1>9. Total(l) % B = 0
  BY <1>4, <1>5, <1>6, <1>7
<1>10. l[1] = n /\ l[2] = address \div B /\ l[3] = address % B /\ l[4] = kind
  BY <1>2, <1>3, <1>7
<1>11. AddressOf(l) = address
  BY <1>10, Halves DEF AddressOf
<1>12. Payload(l) = payload
  <2>1. \A i \in 5 .. n + 4 : l[i] \in Octets
    BY <1>7, ElementOfSeq
  <2>2. /\ SubSeq(l, 5, n + 4) \in Seq(Octets)
        /\ Len(SubSeq(l, 5, n + 4)) = IF 5 <= n + 4 THEN n + 4 - 5 + 1 ELSE 0
        /\ \A i \in 1 .. n + 4 - 5 + 1 : SubSeq(l, 5, n + 4)[i] = l[5 + i - 1]
    BY <2>1, SubSeqProperties
  <2>3. PICK p \in Seq(Octets) : p = SubSeq(l, 5, n + 4)
    BY <2>2
  <2>4. Len(p) = n
    BY <2>2, <2>3
  <2>5. ASSUME NEW i \in 1 .. n PROVE p[i] = payload[i]
    <3>1. p[i] = l[5 + i - 1] /\ 5 + i - 1 \in 1 .. n + 4 /\ ~(5 + i - 1 <= 4) /\ 5 + i - 1 - 4 = i
      BY <2>2, <2>3
    <3>2. l[5 + i - 1] = body[5 + i - 1]
      BY <1>7, <3>1
    <3>3. body[5 + i - 1] = payload[5 + i - 1 - 4]
      BY <1>3, <3>1
    <3> QED BY <3>1, <3>2, <3>3
  <2>6. p = payload
    BY <1>1, <2>4, <2>5, SeqEqual
  <2>7. n + 5 - 1 = n + 4
    OBVIOUS
  <2> QED BY <1>7, <2>3, <2>6, <2>7 DEF Payload
<1> QED BY <1>1, <1>7, <1>8, <1>9, <1>10, <1>11, <1>12 DEF IsRecord

\* The parts of a line.
LEMMA LineParts ==
  ASSUME NEW l \in Seq(Octets), Len(l) >= 5
  PROVE  /\ Payload(l) \in Seq(Octets) /\ Len(Payload(l)) \in Nat /\ Len(Payload(l)) = Len(l) - 5
         /\ \A k \in 1 .. Len(Payload(l)) : Payload(l)[k] = l[k + 4] /\ Payload(l)[k] \in Octets
         /\ AddressOf(l) \in Nat /\ l[1] \in Octets /\ l[4] \in Octets
<1>1. PICK n \in Nat : n = Len(l) - 5 /\ Len(l) = n + 5
  BY LenProperties
<1>2. \A i \in 1 .. n + 5 : l[i] \in Octets
  BY <1>1, ElementOfSeq
<1>3. /\ SubSeq(l, 5, n + 4) \in Seq(Octets)
      /\ Len(SubSeq(l, 5, n + 4)) = IF 5 <= n + 4 THEN n + 4 - 5 + 1 ELSE 0
      /\ \A i \in 1 .. n + 4 - 5 + 1 : SubSeq(l, 5, n + 4)[i] = l[5 + i - 1]
  <2>1. \A i \in 5 .. n + 4 : l[i] \in Octets
    BY <1>2
  <2> QED BY <2>1, SubSeqProperties
<1>4. PICK p \in Seq(Octets) : p = SubSeq(l, 5, n + 4) /\ p = Payload(l)
  <2>1. Len(l) - 1 = n + 4
    BY <1>1
  <2>2. Payload(l) = SubSeq(l, 5, n + 4)
    BY <2>1 DEF Payload
  <2> QED BY <1>3, <2>2
<1>5. Len(p) = n
  BY <1>3, <1>4
<1>6. ASSUME NEW k \in 1 .. n PROVE p[k] = l[k + 4] /\ p[k] \in Octets
  <2>1. p[k] = l[5 + k - 1] /\ 5 + k - 1 = k + 4 /\ k + 4 \in 1 .. n + 5
    BY <1>3, <1>4
  <2>2. p[k] = l[k + 4]
    BY <2>1
  <2> QED BY <1>2, <2>1, <2>2
<1>7. l[1] \in Octets /\ l[2] \in Octets /\ l[3] \in Octets /\ l[4] \in Octets
  BY <1>2
<1>8. AddressOf(l) \in Nat
  <2>1. PICK a \in Nat, b \in Nat : a = l[2] /\ b = l[3]
    BY <1>7 DEF Octets
  <2>2. PICK c \in Nat : c = B
    BY Sizes
  <2>3. a * c + b \in Nat
    OBVIOUS
  <2> QED BY <2>1, <2>2, <2>3 DEF AddressOf
<1>9. Len(Payload(l)) = n /\ n = Len(l) - 5 /\ Payload(l) \in Seq(Octets)
  BY <1>1, <1>4, <1>5
<1>10. \A k \in 1 .. n : Payload(l)[k] = l[k + 4] /\ Payload(l)[k] \in Octets
  BY <1>4, <1>6
<1> QED BY <1>7, <1>8, <1>9, <1>10

LEMMA EndRecordIs ==
  /\ EndRecord \in Seq(Octets) /\ Framed(EndRecord) /\ EndRecord[4] = 1
  /\ Payload(EndRecord) = << >> /\ Len(Payload(EndRecord)) = 0 /\ AddressOf(EndRecord) = 0
<1>1. PICK none \in Seq(Octets) : none = << >> /\ Len(none) = 0
  BY EmptySeq
<1>2. 1 \in Octets /\ 0 < Page /\ 0 \in Nat /\ 0 < B
  <2>1. PICK b \in Nat : b = B /\ b > 4 /\ Page = b * b
    BY Sizes
  <2>2. b * b > 0
    BY <2>1
  <2> QED BY <2>1, <2>2 DEF Octets
<1>3. IsRecord(EndRecord, 0, 1, none)
  BY <1>1, <1>2, RecordIs DEF EndRecord
<1> QED BY <1>1, <1>3 DEF IsRecord, Framed

-----------------------------------------------------------------------------
(* The invariant of the codec. *)

\* Where a data record puts its bytes, if no base is set.
SpotsOf(l) == {AddressOf(l) + k - 1 : k \in 1 .. Len(Payload(l))}

\* The line copies a part of the image src.
Copies(l, src) ==
  /\ l \in Seq(Octets) /\ Framed(l) /\ l[4] = 0 /\ Len(Payload(l)) > 0
  /\ AddressOf(l) + Len(Payload(l)) <= Page
  /\ \A k \in 1 .. Len(Payload(l)) :
       /\ AddressOf(l) + k - 1 \in DOMAIN src
       /\ Payload(l)[k] = src[AddressOf(l) + k - 1]

Disjoint(ls) == \A i, j \in DOMAIN ls : i # j => SpotsOf(ls[i]) \cap SpotsOf(ls[j]) = {}
Covers(ls, src, part) == \A a \in part : \E i \in DOMAIN ls : Copies(ls[i], src) /\ a \in SpotsOf(ls[i])
Genuine(ls, src) == \A i \in DOMAIN ls : Copies(ls[i], src) \/ ls[i] = EndRecord

\* What to_hex makes of src.
WrittenText(ls, src) ==
  /\ Len(ls) > 0 /\ ls[Len(ls)] = EndRecord
  /\ \A i \in 1 .. Len(ls) - 1 : Copies(ls[i], src)
  /\ Disjoint(ls) /\ Covers(ls, src, DOMAIN src)

\* Where byte k of line i goes, given the bases set before it.
BaseIn(ls, i) ==
  LET bases == {j \in 1 .. i : ls[j][4] = 4}
  IN  IF bases = {} THEN 0 ELSE (ls[Max(bases)][5] * B + ls[Max(bases)][6]) * Page
SpotIn(ls, i, k) == BaseIn(ls, i) + AddressOf(ls[i]) + k - 1
DataIn(ls, n) == {i \in 1 .. n : ls[i][4] = 0}
SizeOf(ls, i) == Len(Payload(ls[i]))

\* What the reader knows after n lines: they are well formed, an end is the last of them,
\* and the image holds each of their bytes, and each in its place.
LinesRead(ls, n, ended_) ==
  /\ \A i \in 1 .. n : Framed(ls[i]) /\ (ls[i][4] = 0 \/ IsEnd(ls[i]) \/ IsBase(ls[i]))
  /\ \A i \in 1 .. n - 1 : ls[i][4] # 1
  /\ ended_ <=> n > 0 /\ ls[n][4] = 1

BytesRead(ls, n, img) ==
  /\ \A i \in 0 .. n : BaseIn(ls, i) \in Nat
  /\ \A i \in DataIn(ls, n) : \A k \in 1 .. SizeOf(ls, i) :
       SpotIn(ls, i, k) \in DOMAIN img /\ img[SpotIn(ls, i, k)] = Payload(ls[i])[k]
  /\ \A a \in DOMAIN img : \E i \in DataIn(ls, n) : \E k \in 1 .. SizeOf(ls, i) : a = SpotIn(ls, i, k)
  /\ \A i, j \in DataIn(ls, n) : i # j =>
       \A k \in 1 .. SizeOf(ls, i), m \in 1 .. SizeOf(ls, j) : SpotIn(ls, i, k) # SpotIn(ls, j, m)

HexTypes ==
  /\ lines \in Seq(Seq(Octets)) /\ pos \in 0 .. Len(lines) /\ base \in Nat /\ eof \in BOOLEAN
  /\ DOMAIN image \subseteq Nat /\ image \in [DOMAIN image -> Octets]
  /\ DOMAIN source \subseteq Nat /\ source \in [DOMAIN source -> Octets]
  /\ phase \in {"write", "send", "read", "accepted", "refused"}
  /\ fault \in {"none", "corrupt", "short", "drop", "repeat", "swap", "truncate", "foreign"}

WriteInv ==
  phase = "write" =>
    /\ fault = "none" /\ rest \subseteq DOMAIN source /\ (lines # << >> => ~OutOfRange)
    /\ \A i \in DOMAIN lines : Copies(lines[i], source) /\ SpotsOf(lines[i]) \cap rest = {}
    /\ Disjoint(lines) /\ Covers(lines, source, DOMAIN source \ rest)

SendInv == phase = "send" => fault = "none" /\ WrittenText(lines, source)

\* What each fault leaves of the text.
FaultInv ==
  /\ fault = "none" => \/ phase \in {"write", "send"} \/ (phase = "refused" /\ OutOfRange)
                       \/ (phase # "refused" /\ WrittenText(lines, source))
  /\ fault = "corrupt" => \E i \in DOMAIN lines : Total(lines[i]) % B # 0
  /\ fault = "short" => \E i \in DOMAIN lines : Len(lines[i]) # lines[i][1] + 5
  /\ fault = "truncate" => \A i \in DOMAIN lines : lines[i][4] = 0
  /\ fault = "repeat" => \E i, j \in DOMAIN lines : i # j /\ lines[i] = lines[j]
  /\ fault \in {"drop", "repeat", "swap"} => Genuine(lines, source)
  /\ fault = "swap" => Covers(lines, source, DOMAIN source)

ReadInv ==
  /\ LinesRead(lines, pos, eof) /\ BytesRead(lines, pos, image) /\ base = BaseIn(lines, pos)
  /\ phase \in {"write", "send"} => pos = 0 /\ base = 0 /\ eof = FALSE /\ image = Empty
  /\ phase = "accepted" => pos = Len(lines) /\ eof

HexInv == HexTypes /\ WriteInv /\ SendInv /\ FaultInv /\ ReadInv

-----------------------------------------------------------------------------
(* The largest of some numbers, and the base that is set. *)

LEMMA MaxIs ==
  ASSUME NEW m \in Nat, NEW s \in SUBSET (1 .. m + 1), m + 1 \in s
  PROVE  Max(s) = m + 1
<1>1. \A y \in s : m + 1 >= y
  OBVIOUS
<1>2. \A w \in s : (\A y \in s : w >= y) => w = m + 1
  OBVIOUS
<1> QED BY <1>1, <1>2 DEF Max

LEMMA TopOf ==
  ASSUME NEW n \in Nat, NEW s \in SUBSET (1 .. n), s # {}
  PROVE  Max(s) \in s /\ \A k \in s : k <= Max(s)
<1> DEFINE T == {m \in Nat : \A t \in SUBSET (1 .. m) : t # {} => \E w \in t : \A y \in t : w >= y}
<1>1. 0 \in T
  <2>1. \A t \in SUBSET (1 .. 0) : t = {}
    OBVIOUS
  <2> QED BY <2>1
<1>2. ASSUME NEW m \in T PROVE m + 1 \in T
  <2> SUFFICES ASSUME NEW t \in SUBSET (1 .. m + 1), t # {}
               PROVE  \E w \in t : \A y \in t : w >= y
    OBVIOUS
  <2>1. CASE m + 1 \in t
    <3>1. \A y \in t : m + 1 >= y
      OBVIOUS
    <3> QED BY <2>1, <3>1
  <2>2. CASE m + 1 \notin t
    <3>1. t \in SUBSET (1 .. m)
      BY <2>2
    <3> QED BY <3>1
  <2> QED BY <2>1, <2>2
<1>3. n \in T
  <2> HIDE DEF T
  <2>1. T \subseteq Nat
    BY DEF T
  <2> QED BY <1>1, <1>2, <2>1, Induction
<1>4. \E w \in s : \A y \in s : w >= y
  BY <1>3
<1>5. Max(s) \in s /\ \A y \in s : Max(s) >= y
  BY <1>4 DEF Max
<1> QED BY <1>5

LEMMA BaseNext ==
  ASSUME NEW ls, NEW n \in Nat
  PROVE  /\ BaseIn(ls, 0) = 0
         /\ ls[n + 1][4] # 4 => BaseIn(ls, n + 1) = BaseIn(ls, n)
         /\ ls[n + 1][4] = 4 => BaseIn(ls, n + 1) = (ls[n + 1][5] * B + ls[n + 1][6]) * Page
<1>1. BaseIn(ls, 0) = 0
  BY DEF BaseIn
<1>2. CASE ls[n + 1][4] # 4
  <2>1. {j \in 1 .. n + 1 : ls[j][4] = 4} = {j \in 1 .. n : ls[j][4] = 4}
    BY <1>2
  <2> QED BY <1>1, <1>2, <2>1 DEF BaseIn
<1>3. CASE ls[n + 1][4] = 4
  <2>1. PICK s \in SUBSET (1 .. n + 1) : s = {j \in 1 .. n + 1 : ls[j][4] = 4}
    OBVIOUS
  <2>2. n + 1 \in s
    BY <1>3, <2>1
  <2>3. Max(s) = n + 1 /\ s # {}
    BY <2>2, MaxIs
  <2> QED BY <1>1, <1>3, <2>1, <2>3 DEF BaseIn
<1> QED BY <1>2, <1>3

\* Texts the writer made have no base.
LEMMA NoBase ==
  ASSUME NEW ls, NEW n \in Nat, \A i \in 1 .. n : ls[i][4] # 4
  PROVE  \A i \in 0 .. n : BaseIn(ls, i) = 0
<1>1. ASSUME NEW i \in 0 .. n PROVE {j \in 1 .. i : ls[j][4] = 4} = {}
  OBVIOUS
<1> QED BY <1>1 DEF BaseIn

LEMMA NothingRead ==
  ASSUME NEW ls
  PROVE  LinesRead(ls, 0, FALSE) /\ BytesRead(ls, 0, Empty) /\ BaseIn(ls, 0) = 0
<1>1. BaseIn(ls, 0) = 0
  BY BaseNext
<1>2. LinesRead(ls, 0, FALSE)
  BY DEF LinesRead
<1>3. DataIn(ls, 0) = {} /\ DOMAIN Empty = {}
  BY DEF DataIn, Empty
<1>4. BytesRead(ls, 0, Empty)
  BY <1>1, <1>3 DEF BytesRead
<1> QED BY <1>1, <1>2, <1>4

LEMMA HexStart == HexInit => HexInv
<1> SUFFICES ASSUME HexInit PROVE HexInv
  OBVIOUS
<1>1. pos = 0 /\ base = 0 /\ eof = FALSE /\ image = Empty
  BY DEF HexInit
<1>2. DOMAIN Empty = {} /\ Empty \in [{} -> Octets]
  BY DEF Empty
<1>3. lines \in Seq(Seq(Octets)) /\ Len(lines) \in Nat
  <2>1. lines \in Seq(Seq(Octets))
    BY HexAssumption, EmptySeq DEF HexInit, Octets
  <2> QED BY <2>1, LenProperties
<1>4. DOMAIN source \subseteq Nat /\ source \in [DOMAIN source -> Octets]
  BY <1>2, HexAssumption DEF HexInit, Octets
<1>5. HexTypes
  <2>1. pos \in 0 .. Len(lines)
    BY <1>1, <1>3
  <2>2. base \in Nat /\ eof \in BOOLEAN /\ DOMAIN image \subseteq Nat /\ image \in [DOMAIN image -> Octets]
    BY <1>1, <1>2
  <2>3. phase \in {"write", "read"} /\ fault \in {"none", "foreign"}
    BY DEF HexInit
  <2> QED BY <1>3, <1>4, <2>1, <2>2, <2>3 DEF HexTypes
<1>6. WriteInv /\ SendInv
  <2>1. SendInv
    BY DEF HexInit, SendInv
  <2>2. CASE phase = "write"
    <3>1. lines = << >> /\ rest = DOMAIN source /\ fault = "none" /\ DOMAIN << >> = {}
      BY <2>2 DEF HexInit
    <3>2. DOMAIN lines = {} /\ DOMAIN source \ rest = {} /\ rest \subseteq DOMAIN source /\ ~ (lines # << >>)
      BY <3>1
    <3>3. Disjoint(lines) /\ Covers(lines, source, DOMAIN source \ rest)
      BY <3>2 DEF Disjoint, Covers
    <3> QED BY <2>1, <3>1, <3>2, <3>3 DEF WriteInv
  <2> QED BY <2>1, <2>2 DEF WriteInv
<1>7. FaultInv
  BY DEF HexInit, FaultInv
<1>8. ReadInv
  BY <1>1, NothingRead DEF ReadInv, HexInit
<1> QED BY <1>5, <1>6, <1>7, <1>8 DEF HexInv

-----------------------------------------------------------------------------
(* Writing. *)

\* n bytes in a row, from start.
Row(src, start, n) == [i \in 1 .. n |-> src[start + i - 1]]
HasRow(src, start, n) == \A k \in 1 .. n : start + k - 1 \in DOMAIN src /\ start + k - 1 < Page
CopiesRow(l, src, start, n) == Copies(l, src) /\ SpotsOf(l) = {start + k - 1 : k \in 1 .. n}

\* Their record is a copy of them.
LEMMA RecordCopies ==
  ASSUME NEW src, DOMAIN src \subseteq Nat, src \in [DOMAIN src -> Octets],
         NEW start \in Nat, NEW n \in Nat, n > 0, n < B, HasRow(src, start, n),
         NEW l, l = Record(start, 0, Row(src, start, n))
  PROVE  CopiesRow(l, src, start, n)
<1>0. PICK p : p = Row(src, start, n) /\ p = [i \in 1 .. n |-> src[start + i - 1]]
  BY DEF Row
<1> USE <1>0 DEF HasRow
<1>1. p \in Seq(Octets) /\ Len(p) = n /\ \A k \in 1 .. n : p[k] = src[start + k - 1]
  <2>1. \A k \in 1 .. n : src[start + k - 1] \in Octets
    OBVIOUS
  <2>2. p \in [1 .. n -> Octets]
    BY <2>1
  <2> QED BY <2>2
<1>2. start < Page /\ start + n <= Page /\ Page \in Nat
  <2>1. start + 1 - 1 < Page /\ start + n - 1 < Page /\ Page \in Nat
    BY Sizes
  <2> QED BY <2>1
<1>3. IsRecord(l, start, 0, p)
  <2>1. 0 \in Octets /\ Len(p) < B
    BY <1>1, Sizes DEF Octets
  <2> QED BY <1>1, <1>2, <2>1, RecordIs
<1>4. l \in Seq(Octets) /\ AddressOf(l) = start /\ Payload(l) = p /\ l[4] = 0 /\ Framed(l)
  <2>1. l \in Seq(Octets) /\ AddressOf(l) = start /\ Payload(l) = p /\ l[4] = 0
    BY <1>3 DEF IsRecord
  <2>2. Len(l) = n + 5 /\ l[1] = n /\ Total(l) % B = 0
    BY <1>1, <1>3 DEF IsRecord
  <2> QED BY <2>1, <2>2 DEF Framed
<1>5. SpotsOf(l) = {start + k - 1 : k \in 1 .. n}
  BY <1>1, <1>4 DEF SpotsOf
<1>6. Copies(l, src)
  BY <1>1, <1>2, <1>4 DEF Copies
<1> QED BY <1>5, <1>6 DEF CopiesRow

\* One more line at the end.
LEMMA LongerText ==
  ASSUME NEW T, NEW ls \in Seq(T), NEW l \in T
  PROVE  /\ Append(ls, l) \in Seq(T) /\ Len(Append(ls, l)) = Len(ls) + 1
         /\ DOMAIN Append(ls, l) = DOMAIN ls \cup {Len(ls) + 1}
         /\ \A i \in DOMAIN ls : Append(ls, l)[i] = ls[i]
         /\ Append(ls, l)[Len(ls) + 1] = l
<1>1. PICK n \in Nat : n = Len(ls) /\ DOMAIN ls = 1 .. n
  BY LenProperties
<1>2. PICK more \in Seq(T) : more = Append(ls, l)
  BY AppendProperties
<1>3. Len(more) = n + 1 /\ more[n + 1] = l /\ \A i \in 1 .. n : more[i] = ls[i]
  BY <1>1, <1>2, AppendProperties
<1>4. DOMAIN more = 1 .. n + 1
  BY <1>3, LenProperties
<1>5. 1 .. n + 1 = 1 .. n \cup {n + 1}
  OBVIOUS
<1> QED BY <1>1, <1>2, <1>3, <1>4, <1>5

LEMMA StepWriteRecord == HexInv /\ WriteRecord => HexInv'
<1> SUFFICES ASSUME HexInv, WriteRecord PROVE HexInv'
  OBVIOUS
<1> USE DEF HexInv
<1>1. /\ phase = "write" /\ fault = "none" /\ rest # {} /\ rest \subseteq DOMAIN source /\ ~OutOfRange
      /\ DOMAIN source \subseteq Nat /\ source \in [DOMAIN source -> Octets]
      /\ lines \in Seq(Seq(Octets)) /\ Disjoint(lines) /\ Covers(lines, source, DOMAIN source \ rest)
      /\ \A i \in DOMAIN lines : Copies(lines[i], source) /\ SpotsOf(lines[i]) \cap rest = {}
  BY DEF WriteRecord, WriteInv, HexTypes
<1>2. PICK start \in rest : start = First(rest) /\ start \in Nat
  <2>1. rest \in SUBSET Nat
    BY <1>1
  <2>2. \E w \in rest : \A y \in rest : w <= y
    BY <1>1, <2>1, NatMin
  <2>3. First(rest) \in rest
    BY <2>2 DEF First, Min
  <2> QED BY <2>1, <2>3
<1>3. PICK n \in RunLengths(start) : n = Max(RunLengths(start))
  <2>1. Chunk \in Nat /\ 1 \in 1 .. Chunk
    BY Sizes
  <2>2. \A i \in 0 .. 1 - 1 : start + i \in rest
    BY <1>2
  <2>3. 1 \in RunLengths(start) /\ RunLengths(start) \in SUBSET (1 .. Chunk)
    BY <2>1, <2>2 DEF RunLengths
  <2> QED BY <2>1, <2>3, TopOf
<1>4. n \in Nat /\ n > 0 /\ n < B
  BY <1>3, Sizes DEF RunLengths
<1>5. ASSUME NEW k \in 1 .. n
      PROVE  start + k - 1 \in rest /\ start + k - 1 \in DOMAIN source /\ start + k - 1 < Page
  <2>1. PICK i \in 0 .. n - 1 : i = k - 1
    BY <1>4
  <2>2. start + i \in rest /\ start + i = start + k - 1
    BY <1>2, <1>3, <1>4, <2>1 DEF RunLengths
  <2>3. PICK a \in Nat : a = start + k - 1 /\ a \in rest /\ a \in DOMAIN source
    BY <1>1, <2>2
  <2>4. ~ (a >= Page)
    BY <1>1, <2>3 DEF OutOfRange
  <2> QED BY <2>3, <2>4, Sizes
<1>6. PICK p : /\ p = [i \in 1 .. n |-> source[start + i - 1]]
               /\ p = [i \in 1 .. n |-> IF start + i - 1 \in rest THEN source[start + i - 1] ELSE 0]
  BY <1>5
<1>7. PICK l : l = Record(start, 0, p)
  OBVIOUS
<1>8. /\ lines' = Append(lines, l) /\ rest' = rest \ (start .. start + n - 1)
      /\ UNCHANGED <<source, fault, phase, reader>>
  BY <1>2, <1>3, <1>6, <1>7 DEF WriteRecord
<1>9. Copies(l, source) /\ SpotsOf(l) = {start + k - 1 : k \in 1 .. n} /\ l \in Seq(Octets)
  <2>1. Copies(l, source) /\ SpotsOf(l) = {start + k - 1 : k \in 1 .. n}
    <3>1. HasRow(source, start, n) /\ l = Record(start, 0, Row(source, start, n))
      BY <1>5, <1>6, <1>7 DEF HasRow, Row
    <3>2. CopiesRow(l, source, start, n)
      BY ONLY <1>1, <1>2, <1>4, <3>1, RecordCopies
    <3> QED BY <3>2 DEF CopiesRow
  <2> QED BY <2>1 DEF Copies
<1>10. SpotsOf(l) \subseteq rest /\ SpotsOf(l) \cap rest' = {} /\ rest' \subseteq rest /\ rest \subseteq rest' \cup SpotsOf(l)
  <2>1. SpotsOf(l) \subseteq rest
    BY <1>5, <1>9
  <2>2. SpotsOf(l) = start .. start + n - 1
    <3>1. ASSUME NEW a \in start .. start + n - 1 PROVE a \in {start + k - 1 : k \in 1 .. n}
      <4>1. PICK k \in 1 .. n : k = a - start + 1
        BY <1>2, <1>4
      <4>2. a = start + k - 1
        BY <1>2, <4>1
      <4> QED BY <4>2
    <3>2. ASSUME NEW k \in 1 .. n PROVE start + k - 1 \in start .. start + n - 1
      BY <1>2, <1>4
    <3> QED BY <1>9, <3>1, <3>2
  <2> QED BY <1>8, <2>1, <2>2
<1>11. PICK m \in Nat : m = Len(lines) /\ DOMAIN lines = 1 .. m
  BY <1>1, LenProperties
<1>12. /\ lines' \in Seq(Seq(Octets)) /\ DOMAIN lines' = DOMAIN lines \cup {m + 1} /\ Len(lines') = m + 1
       /\ \A i \in DOMAIN lines : lines'[i] = lines[i]
       /\ lines'[m + 1] = l
  BY <1>1, <1>8, <1>9, <1>11, LongerText
<1>13. pos = 0 /\ pos' = 0 /\ base' = 0 /\ eof' = FALSE /\ image' = Empty
  BY <1>1, <1>8 DEF ReadInv, reader
<1>14. HexTypes'
  <2>1. pos' \in 0 .. Len(lines')
    BY <1>12, <1>13
  <2>2. base' \in Nat /\ eof' \in BOOLEAN /\ DOMAIN image' \subseteq Nat /\ image' \in [DOMAIN image' -> Octets]
    BY <1>13 DEF Empty
  <2> QED BY <1>1, <1>8, <1>12, <2>1, <2>2 DEF HexTypes
<1>15. WriteInv'
  <2>1. \A i \in DOMAIN lines' : Copies(lines'[i], source) /\ SpotsOf(lines'[i]) \cap rest' = {}
    BY <1>1, <1>9, <1>10, <1>12
  <2>2. Disjoint(lines')
    <3>1. \A i \in DOMAIN lines : SpotsOf(lines[i]) \cap SpotsOf(l) = {}
      BY <1>1, <1>10
    <3> QED BY <1>1, <1>12, <3>1 DEF Disjoint
  <2>3. Covers(lines', source, DOMAIN source \ rest')
    <3> SUFFICES ASSUME NEW a \in DOMAIN source \ rest'
                 PROVE  \E i \in DOMAIN lines' : Copies(lines'[i], source) /\ a \in SpotsOf(lines'[i])
      BY DEF Covers
    <3>1. CASE a \in rest
      <4>1. a \in SpotsOf(l)
        BY <1>10, <3>1
      <4> QED BY <1>9, <1>12, <4>1
    <3>2. CASE a \notin rest
      <4>1. PICK i \in DOMAIN lines : Copies(lines[i], source) /\ a \in SpotsOf(lines[i])
        BY <1>1, <3>2 DEF Covers
      <4>2. i \in DOMAIN lines' /\ lines'[i] = lines[i]
        BY <1>12
      <4> QED BY <4>1, <4>2
    <3> QED BY <3>1, <3>2
  <2>4. source' = source /\ fault' = "none" /\ rest' \subseteq DOMAIN source /\ ~OutOfRange'
    BY <1>1, <1>8, <1>10 DEF OutOfRange
  <2>5. Covers(lines', source', DOMAIN source' \ rest') /\ \A i \in DOMAIN lines' : Copies(lines'[i], source') /\ SpotsOf(lines'[i]) \cap rest' = {}
    BY <2>1, <2>3, <2>4
  <2> QED BY <2>2, <2>4, <2>5 DEF WriteInv
<1>16. SendInv' /\ FaultInv'
  BY <1>1, <1>8 DEF SendInv, FaultInv
<1>17. ReadInv'
  <2>1. LinesRead(lines', 0, FALSE) /\ BytesRead(lines', 0, Empty) /\ BaseIn(lines', 0) = 0
    BY NothingRead
  <2> QED BY <1>1, <1>8, <1>13, <2>1 DEF ReadInv
<1> QED BY <1>14, <1>15, <1>16, <1>17

LEMMA StepWriteEnd == HexInv /\ WriteEnd => HexInv'
<1> SUFFICES ASSUME HexInv, WriteEnd PROVE HexInv'
  OBVIOUS
<1> USE DEF HexInv
<1>1. /\ phase = "write" /\ fault = "none" /\ rest = {} /\ ~OutOfRange
      /\ lines \in Seq(Seq(Octets)) /\ Disjoint(lines) /\ Covers(lines, source, DOMAIN source)
      /\ \A i \in DOMAIN lines : Copies(lines[i], source)
  <2>1. phase = "write" /\ rest = {} /\ ~OutOfRange
    BY DEF WriteEnd
  <2>2. DOMAIN source \ rest = DOMAIN source
    BY <2>1
  <2> QED BY <2>1, <2>2 DEF WriteInv, HexTypes
<1>2. /\ lines' = Append(lines, EndRecord) /\ phase' = "send" /\ source' = source /\ fault' = "none"
      /\ rest' = {} /\ UNCHANGED reader
  BY <1>1 DEF WriteEnd
<1>3. PICK m \in Nat : m = Len(lines) /\ DOMAIN lines = 1 .. m
  BY <1>1, LenProperties
<1>4. /\ lines' \in Seq(Seq(Octets)) /\ DOMAIN lines' = DOMAIN lines \cup {m + 1} /\ Len(lines') = m + 1
      /\ \A i \in DOMAIN lines : lines'[i] = lines[i]
      /\ lines'[m + 1] = EndRecord
  <2>1. EndRecord \in Seq(Octets)
    BY EndRecordIs
  <2> QED BY <1>1, <1>2, <1>3, <2>1, LongerText
<1>5. pos = 0 /\ pos' = 0 /\ base' = 0 /\ eof' = FALSE /\ image' = Empty
  BY <1>1, <1>2 DEF ReadInv, reader
<1>6. HexTypes'
  <2>1. pos' \in 0 .. Len(lines')
    BY <1>4, <1>5
  <2>2. base' \in Nat /\ eof' \in BOOLEAN /\ DOMAIN image' \subseteq Nat /\ image' \in [DOMAIN image' -> Octets]
    BY <1>5 DEF Empty
  <2> QED BY <1>2, <1>4, <2>1, <2>2 DEF HexTypes
<1>7. WrittenText(lines', source)
  <2>1. SpotsOf(EndRecord) = {}
    <3>1. \A k : ~ (k \in 1 .. 0)
      OBVIOUS
    <3> QED BY <3>1, EndRecordIs DEF SpotsOf
  <2>2. Disjoint(lines')
    BY <1>1, <1>4, <2>1 DEF Disjoint
  <2>3. Covers(lines', source, DOMAIN source)
    BY <1>1, <1>4 DEF Covers
  <2>4. \A i \in 1 .. m : Copies(lines'[i], source)
    BY <1>1, <1>3, <1>4
  <2>5. Len(lines') - 1 = m /\ Len(lines') > 0
    BY <1>4
  <2> QED BY <1>4, <2>2, <2>3, <2>4, <2>5 DEF WrittenText
<1>8. WriteInv' /\ SendInv' /\ FaultInv'
  BY <1>2, <1>7 DEF WriteInv, SendInv, FaultInv
<1>9. ReadInv'
  <2>1. LinesRead(lines', 0, FALSE) /\ BytesRead(lines', 0, Empty) /\ BaseIn(lines', 0) = 0
    BY NothingRead
  <2> QED BY <1>2, <1>5, <2>1 DEF ReadInv
<1> QED BY <1>6, <1>8, <1>9

LEMMA StepRefuseWide == HexInv /\ RefuseWide => HexInv'
<1> SUFFICES ASSUME HexInv, RefuseWide PROVE HexInv'
  OBVIOUS
<1> USE DEF HexInv
<1>1. /\ phase' = "refused" /\ OutOfRange /\ fault = "none" /\ UNCHANGED <<source, rest, lines, fault>>
      /\ pos' = pos /\ base' = base /\ eof' = eof /\ image' = image
  BY DEF RefuseWide, WriteInv, reader
<1>2. HexTypes'
  BY <1>1 DEF HexTypes
<1>3. WriteInv' /\ SendInv' /\ FaultInv'
  BY <1>1 DEF WriteInv, SendInv, FaultInv, OutOfRange
<1>4. ReadInv'
  BY <1>1 DEF ReadInv
<1> QED BY <1>2, <1>3, <1>4

-----------------------------------------------------------------------------
(* The channel: what each fault leaves of the text. *)

\* The text and its fault, once sent.
LEMMA SentText ==
  ASSUME HexInv, NEW kind, NEW text, Send(kind, text), text \in Seq(Seq(Octets)),
         kind \in {"none", "corrupt", "short", "drop", "repeat", "swap", "truncate"},
         kind = "none" => WrittenText(text, source),
         kind = "corrupt" => \E i \in DOMAIN text : Total(text[i]) % B # 0,
         kind = "short" => \E i \in DOMAIN text : Len(text[i]) # text[i][1] + 5,
         kind = "truncate" => \A i \in DOMAIN text : text[i][4] = 0,
         kind = "repeat" => \E i, j \in DOMAIN text : i # j /\ text[i] = text[j],
         kind \in {"drop", "repeat", "swap"} => Genuine(text, source),
         kind = "swap" => Covers(text, source, DOMAIN source)
  PROVE  HexInv'
<1> USE DEF HexInv
<1>1. /\ phase = "send" /\ phase' = "read" /\ fault' = kind /\ lines' = text /\ source' = source
      /\ rest' = rest /\ UNCHANGED reader
  BY DEF Send
<1>2. pos = 0 /\ pos' = 0 /\ base' = 0 /\ eof' = FALSE /\ image' = Empty
  BY <1>1 DEF ReadInv, reader
<1>3. HexTypes'
  <2>1. pos' \in 0 .. Len(lines')
    <3>1. Len(text) \in Nat
      BY LenProperties
    <3> QED BY <1>1, <1>2, <3>1
  <2>2. base' \in Nat /\ eof' \in BOOLEAN /\ DOMAIN image' \subseteq Nat /\ image' \in [DOMAIN image' -> Octets]
    BY <1>2 DEF Empty
  <2> QED BY <1>1, <2>1, <2>2 DEF HexTypes
<1>4. WriteInv' /\ SendInv'
  BY <1>1 DEF WriteInv, SendInv
<1>5. FaultInv'
  BY <1>1 DEF FaultInv
<1>6. ReadInv'
  <2>1. LinesRead(lines', 0, FALSE) /\ BytesRead(lines', 0, Empty) /\ BaseIn(lines', 0) = 0
    BY NothingRead
  <2> QED BY <1>1, <1>2, <2>1 DEF ReadInv
<1> QED BY <1>3, <1>4, <1>5, <1>6

\* The text as the writer leaves it.
LEMMA TextWritten ==
  ASSUME HexInv, phase = "send"
  PROVE  /\ lines \in Seq(Seq(Octets)) /\ WrittenText(lines, source) /\ Genuine(lines, source)
         /\ \E n \in Nat : n = Len(lines) /\ n > 0 /\ DOMAIN lines = 1 .. n /\ lines[n] = EndRecord
         /\ \A i \in DOMAIN lines : Framed(lines[i]) /\ lines[i] \in Seq(Octets) /\ Len(lines[i]) \in Nat
<1>1. lines \in Seq(Seq(Octets)) /\ WrittenText(lines, source)
  BY DEF HexInv, HexTypes, SendInv
<1>2. PICK n \in Nat : n = Len(lines) /\ n > 0 /\ DOMAIN lines = 1 .. n /\ lines[n] = EndRecord
  BY <1>1, LenProperties DEF WrittenText
<1>3. ASSUME NEW i \in DOMAIN lines PROVE Copies(lines[i], source) \/ lines[i] = EndRecord
  <2>1. i = n \/ i \in 1 .. n - 1
    BY <1>2
  <2> QED BY <1>1, <1>2, <2>1 DEF WrittenText
<1>4. ASSUME NEW i \in DOMAIN lines
      PROVE  Framed(lines[i]) /\ lines[i] \in Seq(Octets) /\ Len(lines[i]) \in Nat
  <2>1. Framed(lines[i]) /\ lines[i] \in Seq(Octets)
    BY <1>3, EndRecordIs DEF Copies
  <2> QED BY <2>1, LenProperties
<1> QED BY <1>1, <1>2, <1>3, <1>4 DEF Genuine

\* A part of a sequence, one sequence after another, and a sequence with one place changed.
IsPart(l, s, m, d) == Len(l) = d /\ \A k \in 1 .. d : l[k] = s[m + k - 1]
IsJoin(s, l, r, a, b) ==
  Len(s) = a + b /\ (\A k \in 1 .. a : s[k] = l[k]) /\ \A k \in 1 .. b : s[a + k] = r[k]
IsChanged(c, s, i, v) ==
  Len(c) = Len(s) /\ DOMAIN c = DOMAIN s /\ c[i] = v /\ \A k \in DOMAIN s : k # i => c[k] = s[k]

LEMMA PartIs ==
  ASSUME NEW T, NEW s \in Seq(T), NEW m \in Nat, m > 0, NEW n \in Nat, n <= Len(s),
         NEW d \in Nat, m + d = n + 1, NEW l, SubSeq(s, m, n) = l
  PROVE  l \in Seq(T) /\ IsPart(l, s, m, d)
<1>1. \A k \in m .. n : s[k] \in T
  <2>1. Len(s) \in Nat
    BY LenProperties
  <2> QED BY <2>1, ElementOfSeq
<1>2. /\ SubSeq(s, m, n) \in Seq(T)
      /\ Len(SubSeq(s, m, n)) = IF m <= n THEN n - m + 1 ELSE 0
      /\ \A k \in 1 .. n - m + 1 : SubSeq(s, m, n)[k] = s[m + k - 1]
  <2>1. m \in Int /\ n \in Int
    OBVIOUS
  <2> QED BY ONLY <1>1, <2>1, SubSeqProperties
<1>3. n - m + 1 = d /\ (m <= n \/ d = 0)
  OBVIOUS
<1>4. Len(SubSeq(s, m, n)) = d /\ \A k \in 1 .. d : SubSeq(s, m, n)[k] = s[m + k - 1]
  BY <1>2, <1>3
<1> QED BY <1>2, <1>4 DEF IsPart

LEMMA JoinIs ==
  ASSUME NEW T, NEW l \in Seq(T), NEW r \in Seq(T), NEW a \in Nat, NEW b \in Nat, Len(l) = a, Len(r) = b,
         NEW s, l \o r = s
  PROVE  s \in Seq(T) /\ IsJoin(s, l, r, a, b)
<1>1. s \in Seq(T)
  BY ConcatProperties
<1>2. Len(s) = Len(l) + Len(r) /\ \A k \in 1 .. Len(l) + Len(r) : s[k] = IF k <= Len(l) THEN l[k] ELSE r[k - Len(l)]
  BY ConcatProperties
<1>3. Len(s) = a + b /\ \A k \in 1 .. a + b : s[k] = IF k <= a THEN l[k] ELSE r[k - a]
  BY <1>2
<1>4. ASSUME NEW k \in 1 .. b PROVE s[a + k] = r[k]
  <2>1. a + k \in 1 .. a + b /\ ~ (a + k <= a) /\ a + k - a = k
    OBVIOUS
  <2> QED BY <1>3, <2>1
<1>5. \A k \in 1 .. a : s[k] = l[k]
  BY <1>3
<1> QED BY <1>1, <1>3, <1>4, <1>5 DEF IsJoin

LEMMA ChangedIs ==
  ASSUME NEW T, NEW s \in Seq(T), NEW i \in DOMAIN s, NEW v \in T, NEW c, [s EXCEPT ![i] = v] = c
  PROVE  c \in Seq(T) /\ IsChanged(c, s, i, v)
<1>1. i \in 1 .. Len(s) /\ DOMAIN s = 1 .. Len(s)
  BY LenProperties
<1>2. c \in Seq(T) /\ Len(c) = Len(s)
  BY <1>1, ExceptSeq
<1>4. DOMAIN c = DOMAIN s /\ c[i] = v /\ \A k \in DOMAIN s : k # i => c[k] = s[k]
  OBVIOUS
<1> QED BY <1>2, <1>4 DEF IsChanged

LEMMA StepDeliver == HexInv /\ Deliver => HexInv'
<1> SUFFICES ASSUME HexInv, Deliver PROVE HexInv'
  OBVIOUS
<1>1. Send("none", lines) /\ phase = "send"
  BY DEF Deliver, Send
<1>2. lines \in Seq(Seq(Octets)) /\ WrittenText(lines, source)
  BY <1>1, TextWritten
<1> QED BY <1>1, <1>2, SentText

LEMMA StepCorrupt == HexInv /\ Corrupt => HexInv'
<1> SUFFICES ASSUME HexInv, Corrupt PROVE HexInv'
  OBVIOUS
<1>1. PICK i \in DOMAIN lines : \E j \in DOMAIN lines[i], byte \in 0 .. B - 1 :
        byte # lines[i][j] /\ Send("corrupt", [lines EXCEPT ![i][j] = byte])
  BY DEF Corrupt
<1>2. PICK j \in DOMAIN lines[i], byte \in Octets :
        byte # lines[i][j] /\ Send("corrupt", [lines EXCEPT ![i][j] = byte])
  BY <1>1 DEF Octets
<1>3. PICK l \in Seq(Octets) : l = lines[i] /\ Total(l) % B = 0
  BY <1>2, TextWritten DEF Send, Framed
<1>4. PICK damaged \in Seq(Octets) : /\ damaged = [l EXCEPT ![j] = byte] /\ Len(damaged) = Len(l)
                                     /\ damaged[j] = byte /\ \A k \in DOMAIN l : k # j => damaged[k] = l[k]
  <2>1. j \in DOMAIN l
    BY <1>2, <1>3
  <2>2. PICK damaged : [l EXCEPT ![j] = byte] = damaged
    OBVIOUS
  <2>3. damaged \in Seq(Octets) /\ IsChanged(damaged, l, j, byte)
    BY ONLY l \in Seq(Octets), byte \in Octets, <2>1, <2>2, ChangedIs
  <2> QED BY <2>2, <2>3 DEF IsChanged
<1>5. PICK text \in Seq(Seq(Octets)) : /\ text = [lines EXCEPT ![i] = damaged] /\ Len(text) = Len(lines)
                                       /\ text[i] = damaged /\ i \in DOMAIN text
  <2>1. lines \in Seq(Seq(Octets))
    BY <1>2, TextWritten DEF Send
  <2>2. PICK text : [lines EXCEPT ![i] = damaged] = text
    OBVIOUS
  <2>3. text \in Seq(Seq(Octets)) /\ IsChanged(text, lines, i, damaged)
    BY ONLY i \in DOMAIN lines, damaged \in Seq(Octets), <2>1, <2>2, ChangedIs
  <2> QED BY <2>2, <2>3 DEF IsChanged
<1>6. text = [lines EXCEPT ![i][j] = byte]
  BY <1>3, <1>4, <1>5
<1>7. Total(damaged) % B # 0
  <2>1. l \in Seq(Nat) /\ damaged \in Seq(Nat) /\ byte \in Nat /\ j \in DOMAIN l /\ l[j] \in Octets
    <3>1. Octets \subseteq Nat
      BY DEF Octets
    <3>2. l[j] \in Octets
      BY <1>2, <1>3, LenProperties, ElementOfSeq
    <3> QED BY <1>2, <1>3, <3>1, <3>2, SeqMonotonic
  <2>2. Len(damaged) = Len(l) /\ damaged[j] = byte /\ \A k \in DOMAIN l : k # j => damaged[k] = l[k]
    BY <1>4
  <2>3. PICK a \in Nat : Total(l) = a + l[j] /\ Total(damaged) = a + byte
    BY ONLY <2>1, <2>2, TotalChanged
  <2> QED BY <1>2, <1>3, <2>1, <2>3, Opens
<1>8. \E k \in DOMAIN text : Total(text[k]) % B # 0
  BY <1>5, <1>7
<1>9. Send("corrupt", text)
  BY <1>2, <1>6
<1> QED BY <1>8, <1>9, SentText

LEMMA StepShorten == HexInv /\ Shorten => HexInv'
<1> SUFFICES ASSUME HexInv, Shorten PROVE HexInv'
  OBVIOUS
<1>1. PICK i \in DOMAIN lines : Send("short", [lines EXCEPT ![i] = Front(@)])
  BY DEF Shorten
<1>2. phase = "send"
  BY <1>1 DEF Send
<1>3. PICK l \in Seq(Octets), n \in Nat : l = lines[i] /\ Len(l) = n + 1 /\ n + 1 >= 5 /\ n + 1 = l[1] + 5
  <2>1. PICK l \in Seq(Octets) : l = lines[i] /\ Len(l) >= 5 /\ Len(l) = l[1] + 5
    BY <1>2, TextWritten DEF Framed
  <2>2. PICK n \in Nat : n = Len(l) - 1
    BY <2>1, LenProperties
  <2>3. Len(l) = n + 1
    BY <2>1, <2>2, LenProperties
  <2> QED BY <2>1, <2>3
<1>4. PICK less \in Seq(Octets) : less = Front(l) /\ Len(less) = n /\ less[1] = l[1]
  <2>1. PICK less \in Seq(Octets) : less = SubSeq(l, 1, n) /\ Len(less) = n /\ \A k \in 1 .. n : less[k] = l[1 + k - 1]
    <3>1. 1 \in Nat /\ 1 > 0 /\ n <= Len(l) /\ 1 + n = n + 1
      BY <1>3
    <3>2. PICK less : SubSeq(l, 1, n) = less
      OBVIOUS
    <3>3. less \in Seq(Octets) /\ IsPart(less, l, 1, n)
      BY ONLY l \in Seq(Octets), n \in Nat, <3>1, <3>2, PartIs
    <3> QED BY <3>2, <3>3 DEF IsPart
  <2>2. Front(l) = SubSeq(l, 1, n)
    <3>1. n + 1 - 1 = n
      OBVIOUS
    <3> QED BY <1>3, <3>1 DEF Front
  <2>3. less[1] = l[1 + 1 - 1] /\ 1 + 1 - 1 = 1
    BY <1>3, <2>1
  <2>4. less[1] = l[1]
    BY <2>3
  <2> QED BY <2>1, <2>2, <2>4
<1>5. PICK text \in Seq(Seq(Octets)) : text = [lines EXCEPT ![i] = less] /\ text[i] = less /\ i \in DOMAIN text
  <2>1. lines \in Seq(Seq(Octets))
    BY <1>2, TextWritten
  <2>2. PICK text : [lines EXCEPT ![i] = less] = text
    OBVIOUS
  <2>3. text \in Seq(Seq(Octets)) /\ IsChanged(text, lines, i, less)
    BY ONLY i \in DOMAIN lines, less \in Seq(Octets), <2>1, <2>2, ChangedIs
  <2> QED BY <2>2, <2>3 DEF IsChanged
<1>6. Send("short", text)
  BY <1>1, <1>3, <1>4, <1>5
<1>7. Len(text[i]) # text[i][1] + 5
  <2>1. Len(less) = n /\ less[1] + 5 = n + 1 /\ n # n + 1
    BY <1>3, <1>4
  <2> QED BY <1>5, <2>1
<1> QED BY <1>5, <1>6, <1>7, SentText

\* A line less, a line more.
IsCut(text, s, n, i) == DOMAIN text = 1 .. n - 1 /\ \A k \in DOMAIN text : text[k] = s[IF k < i THEN k ELSE k + 1]
IsAdded(text, s, n, j, v) ==
  /\ DOMAIN text = 1 .. n + 1 /\ text[j] = v
  /\ \A k \in 1 .. n : text[IF k < j THEN k ELSE k + 1] = s[k]

LEMMA CutIs ==
  ASSUME NEW T, NEW s \in Seq(T), NEW n \in Nat, n = Len(s), NEW i \in 1 .. n
  PROVE  \E text \in Seq(T) : text = RemoveAt(s, i) /\ IsCut(text, s, n, i)
<1>2. PICK a \in Nat, b \in Nat : a = i - 1 /\ b = n - i
  <2>1. i - 1 \in Nat /\ n - i \in Nat
    OBVIOUS
  <2> QED BY <2>1
<1>3. PICK l \in Seq(T) : l = SubSeq(s, 1, a) /\ Len(l) = a /\ \A k \in 1 .. a : l[k] = s[1 + k - 1]
  <2>1. 1 \in Nat /\ 1 > 0 /\ a <= Len(s) /\ 1 + a = a + 1
    BY <1>2
  <2>2. PICK l : SubSeq(s, 1, a) = l
    OBVIOUS
  <2>3. l \in Seq(T) /\ IsPart(l, s, 1, a)
    BY ONLY s \in Seq(T), n \in Nat, a \in Nat, b \in Nat, <2>1, <2>2, PartIs
  <2> QED BY <2>2, <2>3 DEF IsPart
<1>4. PICK r \in Seq(T) : r = SubSeq(s, i + 1, n) /\ Len(r) = b /\ \A k \in 1 .. b : r[k] = s[i + 1 + k - 1]
  <2>1. i + 1 \in Nat /\ i + 1 > 0 /\ n <= Len(s) /\ i + 1 + b = n + 1
    BY <1>2
  <2>2. PICK r : SubSeq(s, i + 1, n) = r
    OBVIOUS
  <2>3. r \in Seq(T) /\ IsPart(r, s, i + 1, b)
    BY ONLY s \in Seq(T), n \in Nat, a \in Nat, b \in Nat, <2>1, <2>2, PartIs
  <2> QED BY <2>2, <2>3 DEF IsPart
<1>5. PICK text \in Seq(T) : /\ text = l \o r /\ Len(text) = a + b
                             /\ \A k \in 1 .. a : text[k] = l[k]
                             /\ \A k \in 1 .. b : text[a + k] = r[k]
  <2>8. PICK text : l \o r = text
    OBVIOUS
  <2>9. text \in Seq(T) /\ IsJoin(text, l, r, a, b)
    BY ONLY l \in Seq(T), r \in Seq(T), a \in Nat, b \in Nat, <1>3, <1>4, <2>8, JoinIs
  <2> QED BY <2>8, <2>9 DEF IsJoin
<1>6. DOMAIN text = 1 .. n - 1
  <2>1. a + b = n - 1
    BY <1>2
  <2> QED BY <1>5, <2>1, LenProperties
<1>7. ASSUME NEW k \in 1 .. n - 1 PROVE text[k] = s[IF k < i THEN k ELSE k + 1]
  <2>1. CASE k < i
    <3>1. k \in 1 .. a /\ 1 + k - 1 = k
      BY <1>2, <2>1
    <3> QED BY <1>3, <1>5, <2>1, <3>1
  <2>2. CASE ~ (k < i)
    <3>1. PICK m \in 1 .. b : a + m = k /\ i + 1 + m - 1 = k + 1
      <4>1. k - a \in 1 .. b /\ a + (k - a) = k /\ i + 1 + (k - a) - 1 = k + 1
        BY <1>2, <2>2
      <4> QED BY <4>1
    <3> QED BY <1>4, <1>5, <2>2, <3>1
  <2> QED BY <2>1, <2>2
<1>8. text = RemoveAt(s, i)
  BY <1>2, <1>3, <1>4, <1>5 DEF RemoveAt
<1> QED BY <1>6, <1>7, <1>8 DEF IsCut

LEMMA AddedIs ==
  ASSUME NEW T, NEW s \in Seq(T), NEW n \in Nat, n = Len(s), NEW j \in 1 .. n, NEW v \in T
  PROVE  \E text \in Seq(T) : text = InsertAt(s, j, v) /\ IsAdded(text, s, n, j, v)
<1>2. PICK a \in Nat, b \in Nat : a = j - 1 /\ b = n - j + 1
  <2>1. j - 1 \in Nat /\ n - j + 1 \in Nat
    OBVIOUS
  <2> QED BY <2>1
<1>3. PICK l \in Seq(T) : l = SubSeq(s, 1, a) /\ Len(l) = a /\ \A k \in 1 .. a : l[k] = s[1 + k - 1]
  <2>1. 1 \in Nat /\ 1 > 0 /\ a <= Len(s) /\ 1 + a = a + 1
    BY <1>2
  <2>2. PICK l : SubSeq(s, 1, a) = l
    OBVIOUS
  <2>3. l \in Seq(T) /\ IsPart(l, s, 1, a)
    BY ONLY s \in Seq(T), n \in Nat, a \in Nat, b \in Nat, <2>1, <2>2, PartIs
  <2> QED BY <2>2, <2>3 DEF IsPart
<1>4. PICK r \in Seq(T) : r = SubSeq(s, j, n) /\ Len(r) = b /\ \A k \in 1 .. b : r[k] = s[j + k - 1]
  <2>1. j \in Nat /\ j > 0 /\ n <= Len(s) /\ j + b = n + 1
    BY <1>2
  <2>2. PICK r : SubSeq(s, j, n) = r
    OBVIOUS
  <2>3. r \in Seq(T) /\ IsPart(r, s, j, b)
    BY ONLY s \in Seq(T), n \in Nat, a \in Nat, b \in Nat, <2>1, <2>2, PartIs
  <2> QED BY <2>2, <2>3 DEF IsPart
<1>5. PICK one \in Seq(T) : one = <<v>> /\ Len(one) = 1 /\ one[1] = v
  <2>1. <<v>> \in Seq(T)
    OBVIOUS
  <2>2. Len(<<v>>) = 1 /\ <<v>>[1] = v
    OBVIOUS
  <2> QED BY <2>1, <2>2
<1>6. PICK front \in Seq(T) : /\ front = l \o one /\ Len(front) = a + 1
                              /\ \A k \in 1 .. a : front[k] = l[k]
                              /\ \A k \in 1 .. 1 : front[a + k] = one[k]
  <2>8. PICK front : l \o one = front
    OBVIOUS
  <2>9. front \in Seq(T) /\ IsJoin(front, l, one, a, 1)
    <3>1. Len(l) = a /\ Len(one) = 1 /\ 1 \in Nat
      BY <1>3, <1>5
    <3> QED BY ONLY l \in Seq(T), one \in Seq(T), a \in Nat, <3>1, <2>8, JoinIs
  <2> QED BY <2>8, <2>9 DEF IsJoin
<1>7. PICK text \in Seq(T) : /\ text = front \o r /\ Len(text) = a + 1 + b
                             /\ \A k \in 1 .. a + 1 : text[k] = front[k]
                             /\ \A k \in 1 .. b : text[a + 1 + k] = r[k]
  <2>1. a + 1 \in Nat
    OBVIOUS
  <2>8. PICK text : front \o r = text
    OBVIOUS
  <2>9. text \in Seq(T) /\ IsJoin(text, front, r, a + 1, b)
    BY ONLY front \in Seq(T), r \in Seq(T), a \in Nat, b \in Nat, <2>1, <1>4, <1>6, <2>8, JoinIs
  <2> QED BY <2>8, <2>9 DEF IsJoin
<1>8. DOMAIN text = 1 .. n + 1
  <2>1. a + 1 + b = n + 1
    BY <1>2
  <2> QED BY <1>7, <2>1, LenProperties
<1>9. text[j] = v
  <2>1. j \in 1 .. a + 1 /\ j = a + 1 /\ 1 \in 1 .. 1
    BY <1>2
  <2>2. text[j] = front[j] /\ front[a + 1] = one[1]
    BY <1>6, <1>7, <2>1
  <2> QED BY <1>5, <2>1, <2>2
<1>10. ASSUME NEW k \in 1 .. n PROVE text[IF k < j THEN k ELSE k + 1] = s[k]
  <2>1. CASE k < j
    <3>1. k \in 1 .. a /\ k \in 1 .. a + 1 /\ 1 + k - 1 = k
      BY <1>2, <2>1
    <3>2. text[k] = front[k] /\ front[k] = l[k] /\ l[k] = s[k]
      BY <1>3, <1>6, <1>7, <3>1
    <3> QED BY <2>1, <3>2
  <2>2. CASE ~ (k < j)
    <3>1. PICK m \in 1 .. b : a + 1 + m = k + 1 /\ j + m - 1 = k
      <4>1. k - a \in 1 .. b /\ a + 1 + (k - a) = k + 1 /\ j + (k - a) - 1 = k
        BY <1>2, <2>2
      <4> QED BY <4>1
    <3> QED BY <1>4, <1>7, <2>2, <3>1
  <2> QED BY <2>1, <2>2
<1>11. text = InsertAt(s, j, v)
  <2>1. SubSeq(s, 1, j - 1) = l /\ SubSeq(s, j, Len(s)) = r
    BY <1>2, <1>3, <1>4
  <2> QED BY <1>5, <1>6, <1>7, <2>1 DEF InsertAt
<1> QED BY <1>8, <1>9, <1>10, <1>11 DEF IsAdded

LEMMA StepDrop == HexInv /\ Drop => HexInv'
<1> SUFFICES ASSUME HexInv, Drop PROVE HexInv'
  OBVIOUS
<1>1. PICK i \in DOMAIN lines : Send("drop", RemoveAt(lines, i))
  BY DEF Drop
<1>2. phase = "send"
  BY <1>1 DEF Send
<1>3. lines \in Seq(Seq(Octets)) /\ Genuine(lines, source)
  BY <1>2, TextWritten
<1>4. PICK n \in Nat : n = Len(lines) /\ DOMAIN lines = 1 .. n
  BY <1>2, TextWritten
<1>5. PICK text \in Seq(Seq(Octets)) : text = RemoveAt(lines, i) /\ IsCut(text, lines, n, i)
  <2>1. n = Len(lines) /\ i \in 1 .. n
    BY <1>1, <1>4
  <2> QED BY ONLY n \in Nat, <1>3, <2>1, CutIs
<1>6. Genuine(text, source)
  <2>1. ASSUME NEW k \in DOMAIN text PROVE \E m \in DOMAIN lines : text[k] = lines[m]
    <3>1. k \in 1 .. n - 1
      BY <1>5 DEF IsCut
    <3>2. k \in DOMAIN lines /\ k + 1 \in DOMAIN lines
      BY <1>4, <3>1
    <3> QED BY <1>5, <3>2 DEF IsCut
  <2> QED BY <1>3, <2>1 DEF Genuine
<1>7. Send("drop", text)
  BY <1>1, <1>5
<1> QED BY <1>6, <1>7, SentText

LEMMA StepRepeat == HexInv /\ Repeat => HexInv'
<1> SUFFICES ASSUME HexInv, Repeat PROVE HexInv'
  OBVIOUS
<1>1. PICK i \in DOMAIN lines, j \in DOMAIN lines : Send("repeat", InsertAt(lines, j, lines[i]))
  BY DEF Repeat
<1>2. phase = "send"
  BY <1>1 DEF Send
<1>3. lines \in Seq(Seq(Octets)) /\ Genuine(lines, source) /\ lines[i] \in Seq(Octets)
  BY <1>1, <1>2, TextWritten
<1>4. PICK n \in Nat : n = Len(lines) /\ DOMAIN lines = 1 .. n
  BY <1>2, TextWritten
<1>5. PICK text \in Seq(Seq(Octets)) : text = InsertAt(lines, j, lines[i]) /\ IsAdded(text, lines, n, j, lines[i])
  <2>1. n = Len(lines) /\ j \in 1 .. n
    BY <1>1, <1>4
  <2>2. PICK l \in Seq(Octets) : l = lines[i]
    BY <1>3
  <2>3. \E text \in Seq(Seq(Octets)) : text = InsertAt(lines, j, l) /\ IsAdded(text, lines, n, j, l)
    BY ONLY n \in Nat, l \in Seq(Octets), <1>3, <2>1, AddedIs
  <2> QED BY <2>2, <2>3
<1>6. /\ i \in 1 .. n /\ j \in 1 .. n /\ DOMAIN text = 1 .. n + 1 /\ text[j] = lines[i]
      /\ \A k \in 1 .. n : text[IF k < j THEN k ELSE k + 1] = lines[k]
  BY <1>1, <1>4, <1>5 DEF IsAdded
<1>7. Genuine(text, source)
  <2>1. ASSUME NEW k \in DOMAIN text PROVE \E m \in DOMAIN lines : text[k] = lines[m]
    <3>1. k \in 1 .. n + 1
      BY <1>6
    <3>2. CASE k = j
      BY <1>1, <1>6, <3>2
    <3>3. CASE k < j
      <4>1. k \in 1 .. n
        BY <1>6, <3>1, <3>3
      <4> QED BY <1>4, <1>6, <3>3, <4>1
    <3>4. CASE k > j
      <4>1. PICK m \in 1 .. n : m = k - 1 /\ ~ (m < j) /\ m + 1 = k
        <5>1. k - 1 \in 1 .. n /\ ~ (k - 1 < j) /\ k - 1 + 1 = k
          BY <1>6, <3>1, <3>4
        <5> QED BY <5>1
      <4>2. text[m + 1] = lines[m]
        BY <1>6, <4>1
      <4> QED BY <1>4, <4>1, <4>2
    <3>5. k = j \/ k < j \/ k > j
      BY <1>6, <3>1
    <3> QED BY <3>2, <3>3, <3>4, <3>5
  <2> QED BY <1>3, <2>1 DEF Genuine
<1>8. \E k, m \in DOMAIN text : k # m /\ text[k] = text[m]
  <2>1. CASE i < j
    <3>1. i \in 1 .. n + 1 /\ j \in 1 .. n + 1 /\ i # j
      BY <1>6, <2>1
    <3>2. text[i] = lines[i]
      BY <1>6, <2>1
    <3> QED BY <1>6, <3>1, <3>2
  <2>2. CASE ~ (i < j)
    <3>1. i + 1 \in DOMAIN text /\ j \in DOMAIN text /\ i + 1 # j
      BY <1>5, <1>6, <2>2
    <3>2. text[i + 1] = lines[i]
      BY <1>5, <1>6, <2>2
    <3> QED BY <1>6, <3>1, <3>2
  <2> QED BY <2>1, <2>2
<1>9. Send("repeat", text)
  BY <1>1, <1>5
<1> QED BY <1>7, <1>8, <1>9, SentText

LEMMA StepSwap == HexInv /\ Swap => HexInv'
<1> SUFFICES ASSUME HexInv, Swap PROVE HexInv'
  OBVIOUS
<1>1. PICK i \in DOMAIN lines, j \in DOMAIN lines :
        i < j /\ Send("swap", [lines EXCEPT ![i] = lines[j], ![j] = lines[i]])
  BY DEF Swap
<1>2. phase = "send"
  BY <1>1 DEF Send
<1>3. /\ lines \in Seq(Seq(Octets)) /\ Genuine(lines, source)
      /\ lines[i] \in Seq(Octets) /\ lines[j] \in Seq(Octets)
  BY <1>1, <1>2, TextWritten
<1>4. PICK n \in Nat : n = Len(lines) /\ DOMAIN lines = 1 .. n
  BY <1>2, TextWritten
<1>5. PICK half \in Seq(Seq(Octets)) : /\ half = [lines EXCEPT ![i] = lines[j]]
                                       /\ IsChanged(half, lines, i, lines[j])
  <2>1. PICK l \in Seq(Octets) : l = lines[j]
    BY <1>3
  <2>2. PICK half : [lines EXCEPT ![i] = l] = half
    OBVIOUS
  <2>3. half \in Seq(Seq(Octets)) /\ IsChanged(half, lines, i, l)
    BY ONLY i \in DOMAIN lines, l \in Seq(Octets), <1>3, <2>2, ChangedIs
  <2> QED BY <2>1, <2>2, <2>3
<1>6. PICK text \in Seq(Seq(Octets)) : /\ text = [half EXCEPT ![j] = lines[i]]
                                       /\ IsChanged(text, half, j, lines[i])
  <2>1. PICK l \in Seq(Octets) : l = lines[i]
    BY <1>3
  <2>2. PICK text : [half EXCEPT ![j] = l] = text
    OBVIOUS
  <2>4. j \in DOMAIN half
    BY <1>1, <1>5 DEF IsChanged
  <2>3. text \in Seq(Seq(Octets)) /\ IsChanged(text, half, j, l)
    BY ONLY l \in Seq(Octets), half \in Seq(Seq(Octets)), <2>2, <2>4, ChangedIs
  <2> QED BY <2>1, <2>2, <2>3
<1>7. text = [lines EXCEPT ![i] = lines[j], ![j] = lines[i]]
  BY <1>5, <1>6
<1>8. i # j
  <2>1. i \in 1 .. n /\ j \in 1 .. n
    BY <1>1, <1>4
  <2> QED BY <1>1, <2>1
<1>9. /\ DOMAIN text = DOMAIN lines /\ text[i] = lines[j] /\ text[j] = lines[i]
      /\ \A k \in DOMAIN lines : k # i /\ k # j => text[k] = lines[k]
  BY <1>1, <1>5, <1>6, <1>8 DEF IsChanged
<1>10. Genuine(text, source)
  BY <1>1, <1>3, <1>9 DEF Genuine
<1>11. Covers(text, source, DOMAIN source)
  <2>1. \A k \in DOMAIN lines : \E m \in DOMAIN text : text[m] = lines[k]
    BY <1>1, <1>9
  <2>2. Covers(lines, source, DOMAIN source)
    BY <1>2, TextWritten DEF WrittenText
  <2> QED BY <2>1, <2>2 DEF Covers
<1>12. Send("swap", text)
  BY <1>1, <1>7
<1> QED BY <1>10, <1>11, <1>12, SentText

LEMMA StepTruncate == HexInv /\ Truncate => HexInv'
<1> SUFFICES ASSUME HexInv, Truncate PROVE HexInv'
  OBVIOUS
<1>1. PICK d \in 0 .. Len(lines) - 1 : Send("truncate", SubSeq(lines, 1, d))
  BY DEF Truncate
<1>2. phase = "send"
  BY <1>1 DEF Send
<1>3. lines \in Seq(Seq(Octets)) /\ \A i \in 1 .. Len(lines) - 1 : Copies(lines[i], source)
  BY <1>2, TextWritten DEF WrittenText
<1>4. PICK n \in Nat : n = Len(lines) /\ n > 0
  BY <1>2, TextWritten
<1>5. d \in Nat /\ d <= n - 1
  BY <1>1, <1>4
<1>6. PICK text \in Seq(Seq(Octets)) : text = SubSeq(lines, 1, d) /\ IsPart(text, lines, 1, d)
  <2>1. PICK text : SubSeq(lines, 1, d) = text
    OBVIOUS
  <2>2. 1 \in Nat /\ 1 > 0 /\ d \in Nat /\ d <= Len(lines) /\ 1 + d = d + 1
    BY <1>4, <1>5
  <2>3. text \in Seq(Seq(Octets)) /\ IsPart(text, lines, 1, d)
    BY ONLY <1>3, <2>1, <2>2, PartIs
  <2> QED BY <2>1, <2>3
<1>7. ASSUME NEW k \in DOMAIN text PROVE text[k][4] = 0
  <2>1. k \in 1 .. d
    BY <1>6, LenProperties DEF IsPart
  <2>2. text[k] = lines[1 + k - 1] /\ 1 + k - 1 = k
    BY <1>6, <2>1 DEF IsPart
  <2>3. k \in 1 .. Len(lines) - 1
    BY <1>4, <1>5, <2>1
  <2> QED BY <1>3, <2>2, <2>3 DEF Copies
<1>8. Send("truncate", text)
  BY <1>1, <1>6
<1> QED BY <1>6, <1>7, <1>8, SentText

-----------------------------------------------------------------------------
(* Reading. *)

\* Reading a line changes nothing of the text.
LEMMA TextKept ==
  ASSUME HexInv, phase = "read", UNCHANGED <<source, rest, lines, fault>>, phase' \in {"read", "accepted"}
  PROVE  WriteInv' /\ SendInv' /\ FaultInv'
<1>1. WriteInv' /\ SendInv'
  BY DEF WriteInv, SendInv
<1>2. FaultInv
  BY DEF HexInv
<1>3. FaultInv'
  BY <1>2 DEF FaultInv, OutOfRange
<1> QED BY <1>1, <1>3

LEMMA ReaderAt ==
  ASSUME HexInv, Reading
  PROVE  /\ lines \in Seq(Seq(Octets)) /\ Len(lines) \in Nat /\ pos \in Nat /\ pos < Len(lines)
         /\ DOMAIN lines = 1 .. Len(lines) /\ pos + 1 \in DOMAIN lines
         /\ Line = lines[pos + 1] /\ Line \in Seq(Octets) /\ phase = "read"
         /\ base \in Nat /\ base = BaseIn(lines, pos)
         /\ LinesRead(lines, pos, eof) /\ BytesRead(lines, pos, image)
         /\ DOMAIN image \subseteq Nat /\ image \in [DOMAIN image -> Octets]
<1>1. /\ lines \in Seq(Seq(Octets)) /\ pos \in 0 .. Len(lines) /\ base \in Nat /\ base = BaseIn(lines, pos)
      /\ LinesRead(lines, pos, eof) /\ BytesRead(lines, pos, image) /\ phase = "read" /\ pos < Len(lines)
      /\ DOMAIN image \subseteq Nat /\ image \in [DOMAIN image -> Octets]
  BY DEF HexInv, HexTypes, ReadInv, Reading
<1>2. Len(lines) \in Nat /\ DOMAIN lines = 1 .. Len(lines)
  BY <1>1, LenProperties
<1>3. pos \in Nat /\ pos + 1 \in 1 .. Len(lines)
  BY <1>1, <1>2
<1>4. Line = lines[pos + 1] /\ Line \in Seq(Octets)
  BY <1>1, <1>3, ElementOfSeq DEF Line
<1> QED BY <1>1, <1>2, <1>3, <1>4

\* One more well-formed line.
LEMMA MoreLines ==
  ASSUME NEW ls, NEW n \in Nat, LinesRead(ls, n, FALSE), Framed(ls[n + 1]),
         ls[n + 1][4] = 0 \/ IsEnd(ls[n + 1]) \/ IsBase(ls[n + 1])
  PROVE  LinesRead(ls, n + 1, ls[n + 1][4] = 1)
<1>1. \A i \in 1 .. n + 1 : i \in 1 .. n \/ i = n + 1
  OBVIOUS
<1>2. \A i \in 1 .. n + 1 : Framed(ls[i]) /\ (ls[i][4] = 0 \/ IsEnd(ls[i]) \/ IsBase(ls[i]))
  BY <1>1 DEF LinesRead
<1>3. ASSUME NEW i \in 1 .. n PROVE ls[i][4] # 1
  <2>1. i \in 1 .. n - 1 \/ (i = n /\ n > 0)
    OBVIOUS
  <2> QED BY <2>1 DEF LinesRead
<1>4. n + 1 - 1 = n /\ n + 1 > 0
  OBVIOUS
<1> QED BY <1>2, <1>3, <1>4 DEF LinesRead

\* A line without data adds no bytes, and one of data its own.
LEMMA NoMoreBytes ==
  ASSUME NEW ls, NEW n \in Nat, NEW img, BytesRead(ls, n, img), ls[n + 1][4] # 0, BaseIn(ls, n + 1) \in Nat
  PROVE  BytesRead(ls, n + 1, img)
<1>1. \A i \in 0 .. n + 1 : i \in 0 .. n \/ i = n + 1
  OBVIOUS
<1>2. DataIn(ls, n + 1) = DataIn(ls, n)
  BY <1>1 DEF DataIn
<1> QED BY <1>1, <1>2 DEF BytesRead

LEMMA MoreBytes ==
  ASSUME NEW ls, NEW n \in Nat, NEW img, NEW more, BytesRead(ls, n, img), ls[n + 1][4] = 0,
         BaseIn(ls, n + 1) \in Nat,
         \A a \in DOMAIN img : a \in DOMAIN more /\ more[a] = img[a],
         \A k \in 1 .. SizeOf(ls, n + 1) :
           /\ SpotIn(ls, n + 1, k) \in DOMAIN more /\ SpotIn(ls, n + 1, k) \notin DOMAIN img
           /\ more[SpotIn(ls, n + 1, k)] = Payload(ls[n + 1])[k],
         \A a \in DOMAIN more : a \in DOMAIN img \/ \E k \in 1 .. SizeOf(ls, n + 1) : a = SpotIn(ls, n + 1, k)
  PROVE  BytesRead(ls, n + 1, more)
<1>1. \A i \in 0 .. n + 1 : BaseIn(ls, i) \in Nat
  <2>1. \A i \in 0 .. n + 1 : i \in 0 .. n \/ i = n + 1
    OBVIOUS
  <2> QED BY <2>1 DEF BytesRead
<1>2. DataIn(ls, n + 1) = DataIn(ls, n) \cup {n + 1} /\ n + 1 \notin DataIn(ls, n)
  <2>1. \A i : i \in 1 .. n + 1 <=> i \in 1 .. n \/ i = n + 1
    OBVIOUS
  <2>2. n + 1 \notin 1 .. n
    OBVIOUS
  <2> QED BY <2>1, <2>2 DEF DataIn
<1>3. ASSUME NEW i \in DataIn(ls, n + 1), NEW k \in 1 .. SizeOf(ls, i)
      PROVE  SpotIn(ls, i, k) \in DOMAIN more /\ more[SpotIn(ls, i, k)] = Payload(ls[i])[k]
  <2>1. CASE i = n + 1
    BY <1>3, <2>1
  <2>2. CASE i \in DataIn(ls, n)
    <3>1. SpotIn(ls, i, k) \in DOMAIN img /\ img[SpotIn(ls, i, k)] = Payload(ls[i])[k]
      BY <1>3, <2>2 DEF BytesRead
    <3> QED BY <3>1
  <2> QED BY <1>2, <2>1, <2>2
<1>4. ASSUME NEW a \in DOMAIN more
      PROVE  \E i \in DataIn(ls, n + 1) : \E k \in 1 .. SizeOf(ls, i) : a = SpotIn(ls, i, k)
  <2>1. CASE a \in DOMAIN img
    BY <1>2, <2>1 DEF BytesRead
  <2>2. CASE \E k \in 1 .. SizeOf(ls, n + 1) : a = SpotIn(ls, n + 1, k)
    BY <1>2, <2>2
  <2> QED BY <2>1, <2>2
<1>5. ASSUME NEW i \in DataIn(ls, n + 1), NEW j \in DataIn(ls, n + 1), i # j,
             NEW k \in 1 .. SizeOf(ls, i), NEW m \in 1 .. SizeOf(ls, j)
      PROVE  SpotIn(ls, i, k) # SpotIn(ls, j, m)
  <2>1. \A h \in DataIn(ls, n) : \A d \in 1 .. SizeOf(ls, h) : SpotIn(ls, h, d) \in DOMAIN img
    BY DEF BytesRead
  <2>2. CASE i \in DataIn(ls, n) /\ j \in DataIn(ls, n)
    BY <1>5, <2>2 DEF BytesRead
  <2>3. CASE i = n + 1 /\ j \in DataIn(ls, n)
    <3>1. SpotIn(ls, i, k) \notin DOMAIN img /\ SpotIn(ls, j, m) \in DOMAIN img
      BY <1>5, <2>1, <2>3
    <3> QED BY <3>1
  <2>4. CASE j = n + 1 /\ i \in DataIn(ls, n)
    <3>1. SpotIn(ls, j, m) \notin DOMAIN img /\ SpotIn(ls, i, k) \in DOMAIN img
      BY <1>5, <2>1, <2>4
    <3> QED BY <3>1
  <2> QED BY <1>2, <1>5, <2>2, <2>3, <2>4
<1> QED BY <1>1, <1>3, <1>4, <1>5 DEF BytesRead

LEMMA StepReadRecord == HexInv /\ ReadRecord => HexInv'
<1> SUFFICES ASSUME HexInv, ReadRecord PROVE HexInv'
  OBVIOUS
<1>1. Reading /\ eof = FALSE /\ Framed(Line) /\ Fits(Line)
  <2>1. Reading /\ ~eof /\ Framed(Line) /\ Fits(Line)
    BY DEF ReadRecord, Readable
  <2> QED BY <2>1 DEF HexInv, HexTypes
<1>2. PICK n \in Nat, l \in Seq(Octets) :
        /\ n = pos /\ n < Len(lines) /\ l = Line /\ l = lines[n + 1] /\ n + 1 \in DOMAIN lines
        /\ lines \in Seq(Seq(Octets)) /\ Len(lines) \in Nat /\ phase = "read"
        /\ base \in Nat /\ base = BaseIn(lines, n) /\ LinesRead(lines, n, FALSE) /\ BytesRead(lines, n, image)
        /\ DOMAIN image \subseteq Nat /\ image \in [DOMAIN image -> Octets]
  BY <1>1, ReaderAt
<1>3. /\ pos' = n + 1 /\ eof' = FALSE /\ base' = base /\ phase' = "read"
      /\ UNCHANGED <<source, rest, lines, fault>>
      /\ image' = [a \in DOMAIN image \cup Cells(l) |->
                     IF a \in Cells(l) THEN Payload(l)[a - base - AddressOf(l) + 1] ELSE image[a]]
  BY <1>1, <1>2 DEF ReadRecord, TakeLine
<1>4. l[4] = 0 /\ Cells(l) \cap DOMAIN image = {} /\ Framed(l) /\ Len(l) >= 5
  BY <1>1, <1>2 DEF Fits, Framed
<1>5. PICK d \in Nat, c \in Nat : /\ d = Len(Payload(l)) /\ c = AddressOf(l)
                                  /\ \A k \in 1 .. d : Payload(l)[k] \in Octets
  BY <1>4, LineParts
<1>6. BaseIn(lines, n + 1) = base
  BY <1>2, <1>4, BaseNext
<1>7. Cells(l) = {base + c + i - 1 : i \in 1 .. d}
  BY <1>5 DEF Cells
<1>8. ASSUME NEW k \in 1 .. d
      PROVE  /\ SpotIn(lines, n + 1, k) = base + c + k - 1 /\ base + c + k - 1 \in Nat
             /\ base + c + k - 1 \in Cells(l) /\ base + c + k - 1 \in DOMAIN image'
             /\ image'[base + c + k - 1] = Payload(l)[k]
  <2>1. SpotIn(lines, n + 1, k) = base + c + k - 1
    BY <1>2, <1>5, <1>6 DEF SpotIn
  <2>2. base + c + k - 1 \in Nat /\ (base + c + k - 1) - base - c + 1 = k
    <3>1. base \in Nat
      BY <1>2
    <3> QED BY <3>1
  <2>3. base + c + k - 1 \in Cells(l)
    BY <1>7
  <2>4. image'[base + c + k - 1] = Payload(l)[(base + c + k - 1) - base - c + 1]
    BY <1>3, <1>5, <2>3
  <2> QED BY <1>3, <2>1, <2>2, <2>3, <2>4
<1>9. DOMAIN image' = DOMAIN image \cup Cells(l) /\ \A a \in DOMAIN image : image'[a] = image[a]
  BY <1>3, <1>4
<1>10. HexTypes'
  <2>1. pos' \in 0 .. Len(lines')
    BY <1>2, <1>3
  <2>2. \A a \in Cells(l) : a \in Nat /\ image'[a] \in Octets
    BY <1>5, <1>7, <1>8
  <2>3. DOMAIN image' \subseteq Nat
    BY <1>2, <1>9, <2>2
  <2>4. \A a \in DOMAIN image' : image'[a] \in Octets
    BY <1>2, <1>9, <2>2
  <2>5. image' \in [DOMAIN image' -> Octets]
    BY <1>3, <2>4
  <2>6. HexTypes
    BY DEF HexInv
  <2>7. base' \in Nat /\ eof' \in BOOLEAN
    BY <1>2, <1>3
  <2> QED BY <1>3, <2>1, <2>3, <2>5, <2>6, <2>7 DEF HexTypes
<1>11. LinesRead(lines, n + 1, FALSE)
  <2>1. LinesRead(lines, n + 1, lines[n + 1][4] = 1)
    BY <1>2, <1>4, MoreLines
  <2>2. (lines[n + 1][4] = 1) = FALSE
    BY <1>2, <1>4
  <2> QED BY <2>1, <2>2
<1>12. BytesRead(lines, n + 1, image')
  <2>1. SizeOf(lines, n + 1) = d
    BY <1>2, <1>5 DEF SizeOf
  <2>2. ASSUME NEW k \in 1 .. SizeOf(lines, n + 1)
        PROVE  /\ SpotIn(lines, n + 1, k) \in DOMAIN image' /\ SpotIn(lines, n + 1, k) \notin DOMAIN image
               /\ image'[SpotIn(lines, n + 1, k)] = Payload(lines[n + 1])[k]
    BY <1>2, <1>4, <1>8, <2>1
  <2>3. ASSUME NEW a \in DOMAIN image'
        PROVE  a \in DOMAIN image \/ \E k \in 1 .. SizeOf(lines, n + 1) : a = SpotIn(lines, n + 1, k)
    <3>1. CASE a \in Cells(l)
      <4>1. PICK k \in 1 .. d : a = base + c + k - 1
        BY <1>7, <3>1
      <4> QED BY <1>8, <2>1, <4>1
    <3> QED BY <1>9, <3>1
  <2>4. lines[n + 1][4] = 0 /\ BaseIn(lines, n + 1) \in Nat /\ BytesRead(lines, n, image)
    BY <1>2, <1>4, <1>6
  <2>5. \A a \in DOMAIN image : a \in DOMAIN image' /\ image'[a] = image[a]
    BY <1>9
  <2>6. PICK more : more = image'
    OBVIOUS
  <2>7. /\ \A a \in DOMAIN image : a \in DOMAIN more /\ more[a] = image[a]
        /\ \A k \in 1 .. SizeOf(lines, n + 1) :
             /\ SpotIn(lines, n + 1, k) \in DOMAIN more /\ SpotIn(lines, n + 1, k) \notin DOMAIN image
             /\ more[SpotIn(lines, n + 1, k)] = Payload(lines[n + 1])[k]
        /\ \A a \in DOMAIN more : a \in DOMAIN image \/ \E k \in 1 .. SizeOf(lines, n + 1) : a = SpotIn(lines, n + 1, k)
    BY <2>2, <2>3, <2>5, <2>6
  <2>8. BytesRead(lines, n + 1, more)
    BY ONLY n \in Nat, <2>4, <2>7, MoreBytes
  <2> QED BY <2>6, <2>8
<1>13. ReadInv'
  BY <1>2, <1>3, <1>6, <1>11, <1>12 DEF ReadInv
<1>14. WriteInv' /\ SendInv' /\ FaultInv'
  BY <1>2, <1>3, TextKept
<1> QED BY <1>10, <1>13, <1>14 DEF HexInv

LEMMA StepReadEnd == HexInv /\ ReadEnd => HexInv'
<1> SUFFICES ASSUME HexInv, ReadEnd PROVE HexInv'
  OBVIOUS
<1>1. Reading /\ eof = FALSE /\ Framed(Line) /\ IsEnd(Line)
  <2>1. Reading /\ ~eof /\ Framed(Line) /\ IsEnd(Line)
    BY DEF ReadEnd, Readable
  <2> QED BY <2>1 DEF HexInv, HexTypes
<1>2. PICK n \in Nat, l \in Seq(Octets) :
        /\ n = pos /\ n < Len(lines) /\ l = Line /\ l = lines[n + 1]
        /\ Len(lines) \in Nat /\ phase = "read"
        /\ base \in Nat /\ base = BaseIn(lines, n) /\ LinesRead(lines, n, FALSE) /\ BytesRead(lines, n, image)
  BY <1>1, ReaderAt
<1>3. /\ pos' = n + 1 /\ eof' = TRUE /\ base' = base /\ image' = image /\ phase' = "read"
      /\ UNCHANGED <<source, rest, lines, fault>>
  BY <1>2 DEF ReadEnd, TakeLine
<1>4. l[4] = 1 /\ Framed(l) /\ IsEnd(l)
  BY <1>1, <1>2 DEF IsEnd
<1>5. BaseIn(lines, n + 1) = base
  BY <1>2, <1>4, BaseNext
<1>6. HexTypes'
  <2>1. pos' \in 0 .. Len(lines')
    BY <1>2, <1>3
  <2>2. HexTypes
    BY DEF HexInv
  <2> QED BY <1>3, <2>1, <2>2 DEF HexTypes
<1>7. LinesRead(lines, n + 1, TRUE)
  <2>1. LinesRead(lines, n + 1, lines[n + 1][4] = 1)
    BY <1>2, <1>4, MoreLines
  <2>2. (lines[n + 1][4] = 1) = TRUE
    BY <1>2, <1>4
  <2> QED BY <2>1, <2>2
<1>8. BytesRead(lines, n + 1, image)
  BY <1>2, <1>4, <1>5, NoMoreBytes
<1>9. ReadInv'
  BY <1>2, <1>3, <1>5, <1>7, <1>8 DEF ReadInv
<1>10. WriteInv' /\ SendInv' /\ FaultInv'
  BY <1>2, <1>3, TextKept
<1> QED BY <1>6, <1>9, <1>10 DEF HexInv

LEMMA StepReadBase == HexInv /\ ReadBase => HexInv'
<1> SUFFICES ASSUME HexInv, ReadBase PROVE HexInv'
  OBVIOUS
<1>1. Reading /\ eof = FALSE /\ Framed(Line) /\ IsBase(Line)
  <2>1. Reading /\ ~eof /\ Framed(Line) /\ IsBase(Line)
    BY DEF ReadBase, Readable
  <2> QED BY <2>1 DEF HexInv, HexTypes
<1>2. PICK n \in Nat, l \in Seq(Octets) :
        /\ n = pos /\ n < Len(lines) /\ l = Line /\ l = lines[n + 1]
        /\ Len(lines) \in Nat /\ phase = "read"
        /\ base \in Nat /\ base = BaseIn(lines, n) /\ LinesRead(lines, n, FALSE) /\ BytesRead(lines, n, image)
  BY <1>1, ReaderAt
<1>3. /\ pos' = n + 1 /\ eof' = FALSE /\ image' = image /\ phase' = "read"
      /\ base' = (Payload(l)[1] * B + Payload(l)[2]) * Page
      /\ UNCHANGED <<source, rest, lines, fault>>
  BY <1>1, <1>2 DEF ReadBase, TakeLine
<1>4. l[4] = 4 /\ Framed(l) /\ IsBase(l) /\ Len(l) >= 5 /\ Len(Payload(l)) = 2
  BY <1>1, <1>2 DEF IsBase, Framed
<1>5. PICK u \in Nat, v \in Nat : u = Payload(l)[1] /\ v = Payload(l)[2] /\ u = l[5] /\ v = l[6]
  <2>1. 1 \in 1 .. Len(Payload(l)) /\ 2 \in 1 .. Len(Payload(l)) /\ 1 + 4 = 5 /\ 2 + 4 = 6
    BY <1>4
  <2>2. /\ Payload(l)[1] = l[1 + 4] /\ Payload(l)[2] = l[2 + 4]
        /\ Payload(l)[1] \in Octets /\ Payload(l)[2] \in Octets
    BY <1>4, <2>1, LineParts
  <2> QED BY <2>1, <2>2 DEF Octets
<1>6. BaseIn(lines, n + 1) = base' /\ base' \in Nat
  <2>1. BaseIn(lines, n + 1) = (lines[n + 1][5] * B + lines[n + 1][6]) * Page
    BY <1>2, <1>4, BaseNext
  <2>2. BaseIn(lines, n + 1) = base'
    BY <1>2, <1>3, <1>5, <2>1
  <2>3. PICK b \in Nat, p \in Nat : b = B /\ p = Page
    BY Sizes
  <2>4. (u * b + v) * p \in Nat
    OBVIOUS
  <2> QED BY <1>3, <1>5, <2>2, <2>3, <2>4
<1>7. HexTypes'
  <2>1. pos' \in 0 .. Len(lines')
    BY <1>2, <1>3
  <2>2. HexTypes
    BY DEF HexInv
  <2> QED BY <1>3, <1>6, <2>1, <2>2 DEF HexTypes
<1>8. LinesRead(lines, n + 1, FALSE)
  <2>1. LinesRead(lines, n + 1, lines[n + 1][4] = 1)
    BY <1>2, <1>4, MoreLines
  <2>2. (lines[n + 1][4] = 1) = FALSE
    BY <1>2, <1>4
  <2> QED BY <2>1, <2>2
<1>9. BytesRead(lines, n + 1, image)
  BY <1>2, <1>4, <1>6, NoMoreBytes
<1>10. ReadInv'
  BY <1>2, <1>3, <1>6, <1>8, <1>9 DEF ReadInv
<1>11. WriteInv' /\ SendInv' /\ FaultInv'
  BY <1>2, <1>3, TextKept
<1> QED BY <1>7, <1>10, <1>11 DEF HexInv

\* A text written by to_hex is never refused.
LEMMA WrittenIsRead ==
  ASSUME HexInv, Reading, WrittenText(lines, source)
  PROVE  Readable /\ (Fits(Line) \/ IsEnd(Line))
<1>1. PICK n \in Nat, l \in Seq(Octets) :
        /\ n = pos /\ n < Len(lines) /\ l = Line /\ l = lines[n + 1] /\ Len(lines) \in Nat
        /\ DOMAIN lines = 1 .. Len(lines) /\ n + 1 \in DOMAIN lines
        /\ base = BaseIn(lines, n) /\ LinesRead(lines, n, eof) /\ BytesRead(lines, n, image)
  BY ReaderAt
<1>2. PICK size \in Nat : size = Len(lines) /\ n < size
  BY <1>1
<1>3. \A i \in 1 .. n : Copies(lines[i], source) /\ lines[i][4] = 0
  <2>1. \A i \in 1 .. n : i \in 1 .. Len(lines) - 1
    BY <1>1
  <2> QED BY <2>1 DEF WrittenText, Copies
<1>4. eof # TRUE
  <2>1. n > 0 => lines[n][4] # 1
    BY <1>3
  <2> QED BY <1>1, <2>1 DEF LinesRead
<1>5. CASE n + 1 = size
  <2>1. l = EndRecord
    BY <1>1, <1>2, <1>5 DEF WrittenText
  <2> QED BY <1>1, <1>4, <2>1, EndRecordIs DEF Readable, IsEnd
<1>6. CASE n + 1 # size
  <2>1. Copies(l, source)
    <3>1. n < size
      BY <1>2
    <3>2. n + 1 \in 1 .. size - 1
      BY <1>6, <3>1
    <3> QED BY <1>1, <1>2, <3>2 DEF WrittenText
  <2>2. \A i \in 0 .. n : BaseIn(lines, i) = 0
    <3>1. \A i \in 1 .. n : lines[i][4] # 4
      BY <1>3
    <3> QED BY <3>1, NoBase
  <2>3. ASSUME NEW a \in Cells(l), a \in DOMAIN image PROVE FALSE
    <3>1. PICK k \in 1 .. Len(Payload(l)) : a = base + AddressOf(l) + k - 1
      BY <2>3 DEF Cells
    <3>2. PICK i \in DataIn(lines, n) : \E m \in 1 .. SizeOf(lines, i) : a = SpotIn(lines, i, m)
      BY <1>1, <2>3 DEF BytesRead
    <3>3. PICK m \in 1 .. SizeOf(lines, i) : a = SpotIn(lines, i, m)
      BY <3>2
    <3>4. i \in 1 .. n /\ i # n + 1 /\ i \in 0 .. n /\ n \in 0 .. n
      BY DEF DataIn
    <3>5. base = 0 /\ BaseIn(lines, i) = 0
      BY <1>1, <2>2, <3>4
    <3>6. AddressOf(l) \in Nat /\ AddressOf(lines[i]) \in Nat
      <4>1. l \in Seq(Octets) /\ Len(l) >= 5 /\ lines[i] \in Seq(Octets) /\ Len(lines[i]) >= 5
        BY <1>3, <2>1, <3>4 DEF Copies, Framed
      <4> QED BY <4>1, LineParts
    <3>7. a = AddressOf(l) + k - 1
      <4>1. PICK c \in Nat : c = AddressOf(l)
        BY <3>6
      <4>2. 0 + c + k - 1 = c + k - 1
        BY <4>1
      <4> QED BY <3>1, <3>5, <4>1, <4>2
    <3>8. a = AddressOf(lines[i]) + m - 1
      <4>1. PICK c \in Nat : c = AddressOf(lines[i])
        BY <3>6
      <4>2. 0 + c + m - 1 = c + m - 1
        BY <4>1 DEF SizeOf
      <4> QED BY <3>3, <3>5, <4>1, <4>2 DEF SpotIn
    <3>9. a \in SpotsOf(l) /\ a \in SpotsOf(lines[i])
      BY <3>1, <3>3, <3>7, <3>8 DEF SpotsOf, SizeOf
    <3>10. i \in DOMAIN lines
      BY <1>1, <3>4
    <3> QED BY <1>1, <3>4, <3>9, <3>10 DEF WrittenText, Disjoint
  <2>4. Fits(l)
    BY <2>1, <2>3 DEF Fits, Copies
  <2> QED BY <1>1, <1>4, <2>1, <2>4 DEF Readable, Copies
<1> QED BY <1>5, <1>6

LEMMA StepRefuse == HexInv /\ Refuse => HexInv'
<1> SUFFICES ASSUME HexInv, Refuse PROVE HexInv'
  OBVIOUS
<1>1. /\ Reading /\ phase = "read" /\ phase' = "refused" /\ UNCHANGED <<source, rest, lines, fault>>
      /\ pos' = pos /\ base' = base /\ eof' = eof /\ image' = image
  BY DEF Refuse, Reading, reader
<1>2. ~ WrittenText(lines, source)
  BY <1>1, WrittenIsRead DEF Refuse
<1>3. HexTypes' /\ WriteInv' /\ SendInv'
  BY <1>1 DEF HexInv, HexTypes, WriteInv, SendInv
<1>4. FaultInv'
  <2>1. FaultInv /\ fault # "none"
    BY <1>1, <1>2 DEF HexInv, FaultInv
  <2> QED BY <1>1, <2>1 DEF FaultInv
<1>5. ReadInv'
  BY <1>1 DEF HexInv, ReadInv
<1> QED BY <1>3, <1>4, <1>5 DEF HexInv

LEMMA StepFinishText == HexInv /\ FinishText => HexInv'
<1> SUFFICES ASSUME HexInv, FinishText PROVE HexInv'
  OBVIOUS
<1>1. /\ phase = "read" /\ phase' \in {"accepted", "refused"} /\ UNCHANGED <<source, rest, lines, fault>>
      /\ pos = Len(lines) /\ pos' = pos /\ base' = base /\ eof' = eof /\ image' = image
      /\ phase' = "accepted" <=> eof
  BY DEF FinishText, reader, EndSeen
<1>2. HexTypes'
  BY <1>1 DEF HexInv, HexTypes
<1>3. ReadInv'
  BY <1>1 DEF HexInv, ReadInv
<1>4. WriteInv' /\ SendInv' /\ FaultInv'
  <2>1. CASE phase' = "accepted"
    BY <1>1, <2>1, TextKept
  <2>2. CASE phase' = "refused"
    <3>1. ~ WrittenText(lines, source)
      <4> SUFFICES ASSUME WrittenText(lines, source) PROVE FALSE
        OBVIOUS
      <4>1. Len(lines) > 0 /\ lines[Len(lines)][4] = 1
        BY EndRecordIs DEF WrittenText
      <4>2. LinesRead(lines, Len(lines), eof)
        BY <1>1 DEF HexInv, ReadInv
      <4>3. eof
        BY <4>1, <4>2 DEF LinesRead
      <4> QED BY <1>1, <2>2, <4>3
    <3>2. FaultInv /\ fault # "none"
      BY <1>1, <3>1 DEF HexInv, FaultInv
    <3>3. FaultInv'
      BY <1>1, <2>2, <3>2 DEF FaultInv
    <3> QED BY <2>2, <3>3 DEF WriteInv, SendInv
  <2> QED BY <1>1, <2>1, <2>2
<1> QED BY <1>2, <1>3, <1>4 DEF HexInv

LEMMA HexStep == HexInv /\ [HexNext]_hex => HexInv'
<1> SUFFICES ASSUME HexInv, [HexNext]_hex PROVE HexInv'
  OBVIOUS
<1>1. CASE RefuseWide \/ WriteRecord \/ WriteEnd
  BY <1>1, StepRefuseWide, StepWriteRecord, StepWriteEnd
<1>2. CASE Channel
  BY <1>2, StepDeliver, StepCorrupt, StepShorten, StepDrop, StepRepeat, StepSwap, StepTruncate DEF Channel
<1>3. CASE Read
  BY <1>3, StepReadRecord, StepReadEnd, StepReadBase, StepRefuse, StepFinishText DEF Read
<1>4. CASE UNCHANGED hex
  BY <1>4 DEF hex, HexInv, HexTypes, WriteInv, SendInv, FaultInv, ReadInv, OutOfRange
<1> QED BY <1>1, <1>2, <1>3, <1>4 DEF HexNext

-----------------------------------------------------------------------------
(* What the invariant says of an accepted text. *)

\* It is well formed, and its end record is its last line.
LEMMA WellFormed ==
  ASSUME HexInv, phase = "accepted"
  PROVE  \E n \in Nat \ {0} :
           /\ n = Len(lines) /\ DOMAIN lines = 1 .. n /\ lines[n][4] = 1
           /\ \A i \in 1 .. n : Framed(lines[i]) /\ lines[i] \in Seq(Octets) /\ (i # n => lines[i][4] # 1)
           /\ BytesRead(lines, n, image)
<1>1. /\ lines \in Seq(Seq(Octets)) /\ pos = Len(lines) /\ eof
      /\ LinesRead(lines, Len(lines), eof) /\ BytesRead(lines, Len(lines), image)
  BY DEF HexInv, HexTypes, ReadInv
<1>2. PICK n \in Nat : n = Len(lines) /\ DOMAIN lines = 1 .. n /\ \A i \in 1 .. n : lines[i] \in Seq(Octets)
  BY <1>1, LenProperties, ElementOfSeq
<1>3. n > 0 /\ lines[n][4] = 1 /\ \A i \in 1 .. n - 1 : lines[i][4] # 1
  BY <1>1, <1>2 DEF LinesRead
<1>4. \A i \in 1 .. n : i # n => i \in 1 .. n - 1
  OBVIOUS
<1>5. \A i \in 1 .. n : Framed(lines[i])
  BY <1>1, <1>2 DEF LinesRead
<1>6. \A i \in 1 .. n : Framed(lines[i]) /\ lines[i] \in Seq(Octets) /\ (i # n => lines[i][4] # 1)
  BY <1>2, <1>3, <1>4, <1>5
<1>7. n \in Nat \ {0} /\ BytesRead(lines, n, image)
  BY <1>1, <1>2, <1>3
<1> QED BY <1>2, <1>3, <1>6, <1>7

\* Of lines the writer made, the bytes of each lie where it says.
LEMMA GenuineBytes ==
  ASSUME NEW ls, NEW n \in Nat, NEW src, DOMAIN ls = 1 .. n, Genuine(ls, src)
  PROVE  /\ \A i \in DataIn(ls, n) : Copies(ls[i], src)
         /\ \A i \in 1 .. n : Copies(ls[i], src) => i \in DataIn(ls, n)
         /\ \A i \in DataIn(ls, n) : \A k \in 1 .. SizeOf(ls, i) : SpotIn(ls, i, k) = AddressOf(ls[i]) + k - 1
<1>1. ASSUME NEW i \in 1 .. n
      PROVE  (Copies(ls[i], src) /\ ls[i][4] = 0) \/ (ls[i] = EndRecord /\ ls[i][4] = 1)
  BY EndRecordIs DEF Genuine, Copies
<1>2. \A i \in 0 .. n : BaseIn(ls, i) = 0
  <2>1. \A i \in 1 .. n : ls[i][4] # 4
    BY <1>1
  <2> QED BY <2>1, NoBase
<1>3. \A i \in DataIn(ls, n) : i \in 1 .. n /\ i \in 0 .. n /\ Copies(ls[i], src)
  BY <1>1 DEF DataIn
<1>4. \A i \in 1 .. n : Copies(ls[i], src) => i \in DataIn(ls, n)
  BY DEF DataIn, Copies
<1>5. ASSUME NEW i \in DataIn(ls, n), NEW k \in 1 .. SizeOf(ls, i)
      PROVE  SpotIn(ls, i, k) = AddressOf(ls[i]) + k - 1
  <2>1. PICK c \in Nat : c = AddressOf(ls[i])
    BY <1>3, LineParts DEF Copies, Framed
  <2>2. 0 + c + k - 1 = c + k - 1
    OBVIOUS
  <2> QED BY <1>2, <1>3, <2>1, <2>2 DEF SpotIn
<1> QED BY <1>3, <1>4, <1>5

LEMMA GenuineRead ==
  ASSUME HexInv, phase = "accepted", Genuine(lines, source)
  PROVE  /\ \A a \in DOMAIN image : a \in DOMAIN source /\ image[a] = source[a]
         /\ Covers(lines, source, DOMAIN source) => image = source
<1>1. PICK n \in Nat \ {0} : DOMAIN lines = 1 .. n /\ BytesRead(lines, n, image)
  BY WellFormed
<1>2. /\ \A i \in DataIn(lines, n) : Copies(lines[i], source)
      /\ \A i \in 1 .. n : Copies(lines[i], source) => i \in DataIn(lines, n)
      /\ \A i \in DataIn(lines, n) : \A k \in 1 .. SizeOf(lines, i) : SpotIn(lines, i, k) = AddressOf(lines[i]) + k - 1
  BY <1>1, GenuineBytes
<1>3. ASSUME NEW a \in DOMAIN image PROVE a \in DOMAIN source /\ image[a] = source[a]
  <2>1. PICK i \in DataIn(lines, n) : \E k \in 1 .. SizeOf(lines, i) : a = SpotIn(lines, i, k)
    BY <1>1 DEF BytesRead
  <2>2. PICK k \in 1 .. SizeOf(lines, i) : a = SpotIn(lines, i, k)
    BY <2>1
  <2>3. image[a] = Payload(lines[i])[k]
    BY <1>1, <2>2 DEF BytesRead
  <2>4. a = AddressOf(lines[i]) + k - 1 /\ Copies(lines[i], source) /\ k \in 1 .. Len(Payload(lines[i]))
    BY <1>2, <2>2 DEF SizeOf
  <2> QED BY <2>3, <2>4 DEF Copies
<1>4. ASSUME Covers(lines, source, DOMAIN source) PROVE image = source
  <2>1. ASSUME NEW a \in DOMAIN source PROVE a \in DOMAIN image
    <3>1. PICK i \in 1 .. n : Copies(lines[i], source) /\ a \in SpotsOf(lines[i])
      BY <1>1, <1>4 DEF Covers
    <3>2. PICK k \in 1 .. SizeOf(lines, i) : a = AddressOf(lines[i]) + k - 1
      BY <3>1 DEF SpotsOf, SizeOf
    <3>3. i \in DataIn(lines, n) /\ a = SpotIn(lines, i, k)
      BY <1>2, <3>1, <3>2
    <3> QED BY <1>1, <3>3 DEF BytesRead
  <2>2. DOMAIN image = DOMAIN source
    BY <1>3, <2>1
  <2>3. image \in [DOMAIN image -> Octets] /\ source \in [DOMAIN source -> Octets]
    BY DEF HexInv, HexTypes
  <2> QED BY <1>3, <2>2, <2>3
<1> QED BY <1>3, <1>4

LEMMA CaughtFaults == HexInv => OneFaultCaught
<1> SUFFICES ASSUME HexInv, fault \in {"corrupt", "short", "repeat", "truncate"}, phase = "accepted" PROVE FALSE
  BY DEF OneFaultCaught
<1>1. PICK n \in Nat \ {0} :
        /\ DOMAIN lines = 1 .. n /\ lines[n][4] = 1
        /\ \A i \in 1 .. n : Framed(lines[i]) /\ lines[i] \in Seq(Octets) /\ (i # n => lines[i][4] # 1)
        /\ BytesRead(lines, n, image)
  BY WellFormed
<1>2. FaultInv
  BY DEF HexInv
<1>3. CASE fault = "corrupt"
  BY <1>1, <1>2, <1>3 DEF FaultInv, Framed
<1>4. CASE fault = "short"
  BY <1>1, <1>2, <1>4 DEF FaultInv, Framed
<1>5. CASE fault = "truncate"
  <2>1. n \in 1 .. n
    OBVIOUS
  <2>2. lines[n][4] = 0
    BY <1>1, <1>2, <1>5, <2>1 DEF FaultInv
  <2> QED BY <1>1, <2>2
<1>6. CASE fault = "repeat"
  <2>1. PICK i \in 1 .. n, j \in 1 .. n : i # j /\ lines[i] = lines[j]
    BY <1>1, <1>2, <1>6 DEF FaultInv
  <2>2. Genuine(lines, source)
    BY <1>2, <1>6 DEF FaultInv
  <2>3. CASE lines[i] = EndRecord
    <3>1. lines[i][4] = 1 /\ lines[j][4] = 1
      BY <2>1, <2>3, EndRecordIs
    <3> QED BY <1>1, <2>1, <3>1
  <2>4. CASE Copies(lines[i], source)
    <3>1. Copies(lines[j], source) /\ i \in DataIn(lines, n) /\ j \in DataIn(lines, n)
      BY <1>1, <2>1, <2>2, <2>4, GenuineBytes
    <3>2. 1 \in 1 .. SizeOf(lines, i) /\ 1 \in 1 .. SizeOf(lines, j)
      <4>1. Len(Payload(lines[i])) \in Nat /\ Len(Payload(lines[i])) > 0 /\ Payload(lines[i]) = Payload(lines[j])
        BY <2>1, <2>4, LineParts DEF Copies, Framed
      <4> QED BY <4>1 DEF SizeOf
    <3>3. SpotIn(lines, i, 1) = AddressOf(lines[i]) + 1 - 1 /\ SpotIn(lines, j, 1) = AddressOf(lines[j]) + 1 - 1
      BY <1>1, <2>2, <3>1, <3>2, GenuineBytes
    <3>4. SpotIn(lines, i, 1) = SpotIn(lines, j, 1)
      BY <2>1, <3>3
    <3> QED BY <1>1, <2>1, <3>1, <3>2, <3>4 DEF BytesRead
  <2> QED BY <1>1, <2>1, <2>2, <2>3, <2>4 DEF Genuine
<1> QED BY <1>3, <1>4, <1>5, <1>6

\* A written text is genuine, and covers its image.
LEMMA WrittenParts ==
  ASSUME NEW ls, NEW src, WrittenText(ls, src), NEW n \in Nat, n = Len(ls), DOMAIN ls = 1 .. n
  PROVE  Genuine(ls, src) /\ Covers(ls, src, DOMAIN src)
<1>1. ASSUME NEW i \in DOMAIN ls PROVE Copies(ls[i], src) \/ ls[i] = EndRecord
  <2>1. i = n \/ i \in 1 .. n - 1
    OBVIOUS
  <2> QED BY <2>1 DEF WrittenText
<1> QED BY <1>1 DEF WrittenText, Genuine

LEMMA ReadsBack == HexInv => RoundTrip /\ NeverInvents
<1> SUFFICES ASSUME HexInv PROVE RoundTrip /\ NeverInvents
  OBVIOUS
<1>1. FaultInv
  BY DEF HexInv
<1>2. ASSUME fault = "none", phase = "accepted"
      PROVE  Genuine(lines, source) /\ Covers(lines, source, DOMAIN source)
  <2>1. WrittenText(lines, source)
    BY <1>1, <1>2 DEF FaultInv
  <2>2. PICK n \in Nat \ {0} : n = Len(lines) /\ DOMAIN lines = 1 .. n
    BY <1>2, WellFormed
  <2> QED BY <2>1, <2>2, WrittenParts
<1>3. RoundTrip
  <2>1. ASSUME fault = "none", phase = "refused" PROVE OutOfRange
    BY <1>1, <2>1 DEF FaultInv
  <2>2. ASSUME fault = "none", phase = "accepted" PROVE image = source
    BY <1>2, <2>2, GenuineRead
  <2> QED BY <2>1, <2>2 DEF RoundTrip
<1>4. ASSUME phase = "accepted", fault # "foreign"
      PROVE  /\ \A a \in DOMAIN image : a \in DOMAIN source /\ image[a] = source[a]
             /\ fault # "drop" => image = source
  <2>1. fault \in {"none", "drop", "swap"}
    BY <1>4, CaughtFaults DEF OneFaultCaught, HexInv, HexTypes
  <2>2. Genuine(lines, source) /\ (fault # "drop" => Covers(lines, source, DOMAIN source))
    BY <1>1, <1>2, <1>4, <2>1 DEF FaultInv
  <2> QED BY <1>4, <2>2, GenuineRead
<1> QED BY <1>3, <1>4 DEF NeverInvents

LEMMA MeansWhatItSays == HexInv => ReadsAsWritten
<1> SUFFICES ASSUME HexInv, phase = "accepted"
             PROVE  /\ {i \in DOMAIN lines : Kind(i) = 1} = {Len(lines)}
                    /\ {<<a, image[a]>> : a \in DOMAIN image} = Meaning
  BY DEF ReadsAsWritten
<1>1. PICK n \in Nat \ {0} :
        /\ n = Len(lines) /\ DOMAIN lines = 1 .. n /\ lines[n][4] = 1
        /\ \A i \in 1 .. n : i # n => lines[i][4] # 1
        /\ BytesRead(lines, n, image)
  BY WellFormed
<1>2. {i \in DOMAIN lines : Kind(i) = 1} = {Len(lines)}
  <2>1. n \in 1 .. n
    OBVIOUS
  <2> QED BY <1>1, <2>1 DEF Kind
<1>3. ASSUME NEW i \in DataIn(lines, n)
      PROVE  /\ i \in DOMAIN lines /\ Kind(i) = 0
             /\ Bytes(i) = {<<SpotIn(lines, i, k), Payload(lines[i])[k]>> : k \in 1 .. SizeOf(lines, i)}
  <2>1. BaseOf(i) = BaseIn(lines, i)
    BY DEF BaseOf, BaseIn, Kind
  <2> QED BY <1>1, <2>1 DEF DataIn, Kind, Bytes, SpotIn, SizeOf
<1>4. {j \in DOMAIN lines : Kind(j) = 0} = DataIn(lines, n)
  BY <1>1 DEF DataIn, Kind
<1>5. ASSUME NEW a \in DOMAIN image PROVE <<a, image[a]>> \in Meaning
  <2>1. PICK i \in DataIn(lines, n) : \E k \in 1 .. SizeOf(lines, i) : a = SpotIn(lines, i, k)
    BY <1>1 DEF BytesRead
  <2>2. PICK k \in 1 .. SizeOf(lines, i) : a = SpotIn(lines, i, k)
    BY <2>1
  <2>3. image[a] = Payload(lines[i])[k]
    BY <1>1, <2>2 DEF BytesRead
  <2>4. <<a, image[a]>> \in Bytes(i)
    BY <1>3, <2>2, <2>3
  <2> QED BY <1>4, <2>4 DEF Meaning
<1>6. ASSUME NEW b \in Meaning PROVE b \in {<<a, image[a]>> : a \in DOMAIN image}
  <2>1. PICK i \in DataIn(lines, n) : b \in Bytes(i)
    BY <1>4 DEF Meaning
  <2>2. PICK k \in 1 .. SizeOf(lines, i) : b = <<SpotIn(lines, i, k), Payload(lines[i])[k]>>
    BY <1>3, <2>1
  <2>3. SpotIn(lines, i, k) \in DOMAIN image /\ image[SpotIn(lines, i, k)] = Payload(lines[i])[k]
    BY <1>1 DEF BytesRead
  <2> QED BY <2>2, <2>3
<1> QED BY <1>2, <1>5, <1>6

\* Lines and image are made of bytes, and positions stay in the text.
LEMMA HexTyped == HexInv => HexTypeOK
<1> SUFFICES ASSUME HexInv PROVE HexTypeOK
  OBVIOUS
<1>1. HexTypes /\ lines \in Seq(Seq(Octets))
  BY DEF HexInv, HexTypes
<1>2. ASSUME NEW i \in DOMAIN lines, NEW j \in DOMAIN lines[i] PROVE lines[i][j] \in Octets
  <2>1. PICK l \in Seq(Octets) : l = lines[i]
    BY <1>1, LenProperties, ElementOfSeq
  <2>2. j \in 1 .. Len(l)
    BY <2>1, LenProperties
  <2>3. l[j] \in Octets
    BY <2>2, ElementOfSeq
  <2> QED BY <2>1, <2>3
<1> QED BY <1>1, <1>2 DEF HexTypes, HexTypeOK, Octets

\* Whatever is written, whatever one fault meets it and whatever another tool has made: an
\* accepted text gives back what it says and no more (to_hex and from_hex, image.rs, 289-364).
THEOREM TextsAreTrusted == HexSpec => []TextsTrusted
<1>1. HexInv => TextsTrusted
  BY HexTyped, ReadsBack, CaughtFaults, MeansWhatItSays DEF TextsTrusted
<1> QED BY <1>1, HexStart, HexStep, PTL DEF HexSpec
=============================================================================
