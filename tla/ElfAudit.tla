------------------------------ MODULE ElfAudit ------------------------------
(***************************************************************************)
(* The static audit of a firmware ELF (xtask, image.rs, Elf::parse): linker    *)
(* symbols, sections and load segments, one table entry per step, in the       *)
(* order the code reads them. What an entry says is chosen when it is read:    *)
(* any file, or one laid out by link.x (linker). Addresses count words; the    *)
(* bytes of names, tables and instructions are reduced to what a check of     *)
(* them says.                                                                 *)
(***************************************************************************)
EXTENDS Integers, FiniteSets

CONSTANTS
  RamEnd,       \* end of ordinary RAM, RAM_END
  VectorWords,  \* words of the vectors
  HeapAlign,    \* alignment of the heap's start
  StackAlign, MinStack,    \* granule and minimum of the stack reservation
  MaxSections, MaxSegments \* bounds: entries of a foreign file

ASSUME AuditAssumption ==
  /\ RamEnd \in Nat /\ VectorWords \in 1 .. RamEnd
  /\ HeapAlign \in Nat \ {0} /\ StackAlign \in Nat \ {0} /\ MinStack \in Nat \ {0}
  /\ MaxSections \in Nat /\ MaxSegments \in Nat

VARIABLES
  stage,        \* the table being read, or the verdict
  linker,       \* the file was laid out by link.x
  sym,          \* linker symbols [end, bottom, heap, heapEnd]
  sections,     \* allocated sections accepted so far, as <<first, limit>>
  seen,         \* sections read so far
  segments,     \* segments read so far
  loaded        \* words of the image

auditVars == <<stage, linker, sym, sections, seen, segments, loaded>>

Address == 0 .. RamEnd + 1      \* past the end stands for any larger address
NoSymbols == [end |-> 0, bottom |-> 0, heap |-> 0, heapEnd |-> 0]
Span(s) == s[1] .. s[2] - 1

AuditInit ==
  /\ stage = "header" /\ linker \in BOOLEAN /\ sym = NoSymbols
  /\ sections = {} /\ seen = 0 /\ segments = 0 /\ loaded = {}

Proceed(next) == stage' = next
RefuseElf == stage' = "refused" /\ UNCHANGED <<linker, sym, sections, seen, segments, loaded>>

-----------------------------------------------------------------------------
\* Magic, machine, entry, flags and table sizes; every table inside the file.
Header ==
  /\ stage = "header"
  /\ \E sound \in BOOLEAN :
       /\ linker => sound
       /\ IF sound
          THEN Proceed("symbols") /\ UNCHANGED <<linker, sym, sections, seen, segments, loaded>>
          ELSE RefuseElf

-----------------------------------------------------------------------------
(* Linker symbols. *)

RoundUp(a) == ((a + HeapAlign - 1) \div HeapAlign) * HeapAlign

\* link.x: the stack reservation is below RAM_END; its ASSERTs hold.
LinkerSymbols(end, bottom, top, bs, be, heap, heapEnd) ==
  /\ top = RamEnd /\ (top - bottom) % StackAlign = 0 /\ top - bottom >= MinStack
  /\ VectorWords <= end /\ end <= bottom
  /\ VectorWords <= bs /\ bs <= be /\ be = end
  /\ heap = RoundUp(end) /\ heapEnd = bottom /\ heap <= heapEnd

StackSound(end, bottom, top) ==
  /\ VectorWords <= end /\ end <= bottom /\ bottom < top /\ top = RamEnd
  /\ top - bottom >= MinStack /\ (top - bottom) % StackAlign = 0

BssSound(bs, be, end) == bs <= be /\ be <= end

HeapSound(heap, heapEnd, end, bottom) ==
  heap = RoundUp(end) /\ heap <= heapEnd /\ heapEnd = bottom

Symbols ==
  /\ stage = "symbols"
  /\ \E end, bottom, top, be \in Address :
     \E bs \in {0, be, end}, heap \in {RoundUp(end), 0}, heapEnd \in {bottom, 0} :
       /\ linker => LinkerSymbols(end, bottom, top, bs, be, heap, heapEnd)
       /\ IF StackSound(end, bottom, top) /\ BssSound(bs, be, end)
             /\ HeapSound(heap, heapEnd, end, bottom)
          THEN /\ Proceed("vectors")
               /\ sym' = [end |-> end, bottom |-> bottom, heap |-> heap, heapEnd |-> heapEnd]
               /\ UNCHANGED <<linker, sections, seen, segments, loaded>>
          ELSE RefuseElf

\* A symbol the audit needs is missing.
MissingSymbol == stage = "symbols" /\ ~linker /\ RefuseElf

-----------------------------------------------------------------------------
(* Sections. The one .vectors section is looked up first, then each is checked. *)

Vectors ==
  /\ stage = "vectors"
  /\ \E count \in 0 .. 2, first \in {0, 1}, size \in {VectorWords, VectorWords + 1} :
       /\ linker => count = 1 /\ first = 0 /\ size = VectorWords
       /\ IF count = 1 /\ first = 0 /\ size = VectorWords
          THEN Proceed("sections") /\ UNCHANGED <<linker, sym, sections, seen, segments, loaded>>
          ELSE RefuseElf

\* A section header: its name's kind, flags, bounds, and whether its words are supported.
Headers ==
  {s \in [name : {".vectors", ".stack", "other"}, alloc : BOOLEAN, exec : BOOLEAN,
          nobits : BOOLEAN, first : Address, size : Address, code : BOOLEAN] :
     /\ s.name = ".vectors" => s.first = 0 /\ s.size = VectorWords
     /\ ~s.exec => s.code
     /\ ~s.alloc => s.first = 0 /\ s.size = 1}

Limit(s) == s.first + s.size

\* link.x: vectors, then sections in a row up to __image_end, then the stack.
StackSpan == <<sym.bottom, RamEnd>>
StaticEnd == CHOOSE m \in 0 .. RamEnd :
  /\ m = 0 \/ \E t \in sections : t[2] = m
  /\ \A t \in sections : t[2] <= m

LinkerSection(s) ==
  /\ s.alloc /\ s.code /\ (s.exec => ~s.nobits) /\ s.size > 0 /\ StackSpan \notin sections
  /\ CASE s.name = ".vectors" -> seen = 0 /\ s.exec
       [] s.name = ".stack" -> s.nobits /\ ~s.exec /\ <<s.first, Limit(s)>> = StackSpan
       [] OTHER -> seen > 0 /\ s.first = StaticEnd /\ Limit(s) <= sym.end

\* Mutant: only the section's start is compared.
ApartByStart(s) == \A t \in sections : ~(t[1] <= s.first /\ s.first < t[2])

Apart(s) == \A t \in sections : Limit(s) <= t[1] \/ s.first >= t[2]

Placed(s) ==
  /\ Limit(s) <= RamEnd
  /\ IF s.name = ".stack"
     THEN s.nobits /\ s.first = sym.bottom /\ Limit(s) = RamEnd
     ELSE Limit(s) <= sym.end

Allocated(s) == s.alloc /\ s.size # 0
ExecSound(s) == s.exec => s.alloc /\ ~s.nobits /\ s.code

Section ==
  /\ stage = "sections" /\ seen < MaxSections
  /\ \E s \in Headers :
       /\ linker => LinkerSection(s)
       /\ ~linker => (s.name = ".vectors" <=> seen = 0)
       /\ IF (Allocated(s) => Placed(s) /\ Apart(s)) /\ ExecSound(s)
          THEN /\ sections' = IF Allocated(s) THEN sections \cup {<<s.first, Limit(s)>>} ELSE sections
               /\ seen' = seen + 1
               /\ UNCHANGED <<stage, linker, sym, segments, loaded>>
          ELSE RefuseElf

SectionsDone ==
  /\ stage = "sections" /\ seen > 0 /\ Proceed("segments")
  /\ UNCHANGED <<linker, sym, sections, seen, segments, loaded>>

-----------------------------------------------------------------------------
(* Load segments. *)

SegmentSound(va, pa, filed, memory) ==
  va = pa /\ filed <= memory /\ pa + memory <= RamEnd /\ pa + filed <= sym.end

\* same says whether bytes given twice agree.
Segment ==
  /\ stage = "segments" /\ segments < MaxSegments
  /\ \E pa, filed, memory \in Address, va \in Address, same \in BOOLEAN :
       /\ va \in {pa, 0} /\ memory \in {filed, 0, RamEnd - pa}
       /\ LET cells == pa .. pa + filed - 1
          IN  /\ linker => va = pa /\ pa = Cardinality(loaded) /\ memory >= filed
                           /\ pa + filed <= sym.end /\ pa + memory <= RamEnd
              /\ IF SegmentSound(va, pa, filed, memory) /\ (cells \cap loaded = {} \/ same)
                 THEN /\ loaded' = loaded \cup cells /\ segments' = segments + 1
                      /\ UNCHANGED <<stage, linker, sym, sections, seen>>
                 ELSE RefuseElf

\* Both vectors are loaded and jump.
Verdict ==
  /\ stage = "segments"
  /\ \E jumps \in BOOLEAN :
       /\ linker => jumps /\ 0 .. VectorWords - 1 \subseteq loaded
       /\ IF jumps /\ 0 .. VectorWords - 1 \subseteq loaded
          THEN Proceed("accepted") /\ UNCHANGED <<linker, sym, sections, seen, segments, loaded>>
          ELSE RefuseElf

AuditNext ==
  Header \/ Symbols \/ MissingSymbol \/ Vectors \/ Section \/ SectionsDone \/ Segment \/ Verdict

AuditSpec == AuditInit /\ [][AuditNext]_auditVars

-----------------------------------------------------------------------------
Stages == {"header", "symbols", "vectors", "sections", "segments", "accepted", "refused"}

\* What was read is a layout of words.
AuditTypeOK ==
  /\ stage \in Stages /\ linker \in BOOLEAN
  /\ sym \in [end : Address, bottom : Address, heap : Address, heapEnd : Address]
  /\ sections \subseteq (0 .. RamEnd) \X (0 .. RamEnd)
  /\ seen \in 0 .. MaxSections /\ segments \in 0 .. MaxSegments
  /\ loaded \subseteq 0 .. RamEnd - 1

Stack  == sym.bottom .. RamEnd - 1
HeapOf == sym.heap .. sym.heapEnd - 1
Static == 0 .. sym.end - 1

\* Whatever link.x lays out, its own assertions holding, passes the audit.
LinkerPasses == linker => stage # "refused"

\* An accepted image never meets its heap or stack: static words, heap and stack
\* are apart and inside RAM, sections do not overlap, what is loaded is static,
\* and the vectors are loaded; and what link.x lays out is accepted (image.rs parse).
LayoutSafe ==
  /\ AuditTypeOK /\ LinkerPasses
  /\ stage = "accepted" =>
       /\ Static \cap HeapOf = {} /\ Static \cap Stack = {} /\ HeapOf \cap Stack = {}
       /\ Static \cup HeapOf \cup Stack \subseteq 0 .. RamEnd - 1
       /\ sym.heap % HeapAlign = 0 /\ Cardinality(Stack) >= MinStack
       /\ \A s, t \in sections : s = t \/ Span(s) \cap Span(t) = {}
       /\ \A s \in sections : Span(s) \subseteq Static \/ Span(s) = Stack
       /\ loaded \subseteq Static /\ 0 .. VectorWords - 1 \subseteq loaded
=============================================================================
