---------------------------- MODULE ConsoleProofs ----------------------------
(***************************************************************************)
(* What a console application is made of, for every size: the shell parser's   *)
(* arithmetic for every largest number, the line editor's screen and the lines *)
(* it submits for every capacity and however long is typed, the arena for      *)
(* every storage and every request, the bounded string for every capacity and  *)
(* every text, and the drawing for every surface and every call.              *)
(***************************************************************************)
EXTENDS Shell, LineEditor, Storage, Raster, SequenceTheorems, FiniteSetTheorems, WellFoundedInduction, TLAPS

(* The parser (Shell). *)

\* The accepted line's operands are in range; a refusal as too large is justified.
Inv ==
  /\ TypeOK /\ OperandsExact /\ AcceptsMeant /\ RangeIsTooLarge
  /\ pc = "digits" => Len(args) < Counts[kind]
  /\ result # "none" <=> pc = "done"

\* A value times its base, and with a digit, is a natural number.
LEMMA NextValue ==
  ASSUME NEW d \in Digits, value \in 0 .. MaxU, radix \in Radices
  PROVE  value * radix \in Nat /\ value * radix + d \in Nat /\ d \in Nat
<1>1. radix \in Nat /\ d \in Nat /\ value \in Nat
  BY ShellAssumption DEF Radices
<1> QED BY <1>1

LEMMA WrappedIs ==
  ASSUME NEW v \in 0 .. MaxU
  PROVE  Wrapped(v) = v
<1>1. MaxU \in Nat
  BY ShellAssumption
<1>2. v % (MaxU + 1) = v
  BY <1>1
<1> QED BY <1>2 DEF Wrapped

\* A value up to the limit of its base loses nothing when it is scaled.
LEMMA LimitKeeps ==
  ASSUME value \in 0 .. MaxU, radix \in Radices
  PROVE  value <= Limit <=> value * radix <= MaxU
<1> USE ShellAssumption DEF Limit, Radices
<1>1. CASE radix = 2
  <2>1. value * 2 <= MaxU <=> value <= MaxU \div 2
    OBVIOUS
  <2> QED BY <1>1, <2>1
<1>2. CASE radix = 10
  <2>1. value * 10 <= MaxU <=> value <= MaxU \div 10
    OBVIOUS
  <2> QED BY <1>2, <2>1
<1>3. CASE radix = 16
  <2>1. value * 16 <= MaxU <=> value <= MaxU \div 16
    OBVIOUS
  <2> QED BY <1>3, <2>1
<1> QED BY <1>1, <1>2, <1>3

\* Scaling wraps and the addition is checked only afterwards; still the loop's two checks
\* pass just when the next value is a machine number (shell.rs number, the limits of the
\* three bases), and what they let through is that value.
LEMMA FitsIsExact ==
  ASSUME NEW d \in Digits, value \in 0 .. MaxU, radix \in Radices
  PROVE  /\ Fits(d) <=> value * radix + d <= MaxU
         /\ Fits(d) => Wrapped(Scaled + d) = value * radix + d
<1>1. PICK v \in Nat : v = value * radix
  BY NextValue
<1>2. d \in Nat /\ MaxU \in Nat
  BY NextValue, ShellAssumption
<1>3. value <= Limit <=> v <= MaxU
  BY <1>1, LimitKeeps
<1>4. v <= MaxU => Scaled = v
  <2> SUFFICES ASSUME v <= MaxU PROVE Scaled = v
    OBVIOUS
  <2>1. Wrapped(v) = v
    BY <1>2, WrappedIs
  <2> QED BY <1>1, <2>1 DEF Scaled
<1>5. Fits(d) <=> v + d <= MaxU
  BY <1>2, <1>3, <1>4 DEF Fits
<1>6. v + d <= MaxU => Wrapped(v + d) = v + d
  <2> SUFFICES ASSUME v + d <= MaxU PROVE Wrapped(v + d) = v + d
    OBVIOUS
  <2>1. v + d \in 0 .. MaxU
    BY <1>2
  <2> QED BY <2>1, WrappedIs
<1>7. v + d <= MaxU => Scaled = v
  BY <1>2, <1>4
<1> QED BY <1>1, <1>5, <1>6, <1>7

\* The casts of an accepted command change nothing.
LEMMA CastKeeps ==
  ASSUME kind \in Kinds, args \in Seq(0 .. MaxU),
         \A n \in DOMAIN args : args[n] <= Bound(kind, n)
  PROVE  Carried = args
<1>1. MaxU \in Nat /\ Colour \in Nat /\ Coord \in Nat /\ Coord <= Colour
  BY ShellAssumption
<1>2. ASSUME NEW n \in DOMAIN args, kind # "write"
      PROVE  args[n] % (Colour + 1) = args[n]
  <2>1. args[n] \in 0 .. MaxU
    <3>1. n \in 1 .. Len(args)
      BY LenProperties
    <3> QED BY <3>1, ElementOfSeq, Zenon
  <2>2. Bound(kind, n) <= Colour /\ Bound(kind, n) \in Nat
    BY <1>1, <1>2 DEF Bound
  <2>3. args[n] \in 0 .. Colour
    BY <1>1, <1>2, <2>1, <2>2
  <2>4. PICK v \in Nat : v = args[n]
    BY <1>1, <2>3
  <2>5. v \in 0 .. Colour
    BY <2>3, <2>4
  <2>6. v % (Colour + 1) = v
    BY <1>1, <2>5
  <2> QED BY <2>4, <2>6
<1>3. args = [n \in DOMAIN args |-> args[n]]
  OBVIOUS
<1> QED BY <1>2, <1>3 DEF Carried

LEMMA CountsBounded == \A k \in Kinds : Counts[k] \in 0 .. 3
BY DEF Kinds, Counts

\* The range check is the bound of each operand in its place.
LEMMA InRangeIsBound ==
  ASSUME kind \in Kinds, args \in Seq(0 .. MaxU), args = exacts, Len(args) = Counts[kind]
  PROVE  InRange <=> \A n \in DOMAIN exacts : exacts[n] <= Bound(kind, n)
<1> USE ShellAssumption DEF InRange, Bound
<1>1. DOMAIN exacts = 1 .. Counts[kind]
  BY LenProperties
<1>2. CASE kind \in {"help", "read"}
  <2>1. DOMAIN exacts = {}
    BY <1>1, <1>2 DEF Counts
  <2> QED BY <1>2, <2>1
<1>3. CASE kind \in {"write", "clear"}
  <2>1. DOMAIN exacts = {1}
    BY <1>1, <1>3 DEF Counts
  <2>2. Len(args) = 1
    BY <1>3 DEF Counts
  <2>3. 1 \in 1 .. Len(args)
    BY <2>2
  <2>4. args[1] \in 0 .. MaxU
    BY <2>3, ElementOfSeq, Zenon
  <2> QED BY <1>3, <2>1, <2>4
<1>4. CASE kind = "pixel"
  <2>1. DOMAIN exacts = {1, 2, 3}
    BY <1>1, <1>4 DEF Counts
  <2> QED BY <1>4, <2>1
<1> QED BY <1>2, <1>3, <1>4 DEF Kinds, Counts

LEMMA InitInv == Init => Inv
BY ShellAssumption DEF Init, Inv, TypeOK, OperandsExact, AcceptsMeant, RangeIsTooLarge,
   Radices, Kinds, Counts, Errors

LEMMA StepInv == Inv /\ [Next]_vars => Inv'
<1> SUFFICES ASSUME Inv, [Next]_vars PROVE Inv'
  OBVIOUS
<1> USE ShellAssumption
<1> USE DEF Inv, TypeOK, OperandsExact, AcceptsMeant, RangeIsTooLarge
<1>1. ASSUME NEW e \in Errors, e # "Range", Err(e) PROVE Inv'
  BY <1>1 DEF Err, number, Errors
<1>2. CASE Name
  <2>1. CASE pc = "name" /\ (Err("Empty") \/ Err("Unknown"))
    BY <2>1, <1>1 DEF Errors
  <2>2. ASSUME NEW k \in Kinds, kind' = k, pc = "name", pc' = "operand",
               UNCHANGED <<args, number, result, operands, exacts>>
        PROVE  Inv'
    BY <2>2 DEF number, Kinds, Counts
  <2> QED BY <1>2, <2>1, <2>2 DEF Name
<1>3. CASE NoOperand
  BY <1>3, <1>1 DEF NoOperand, Errors
<1>4. CASE Operand
  BY <1>4 DEF Operand, Wanted
<1>5. CASE NoDigit
  BY <1>5, <1>1 DEF NoDigit, Errors
<1>6. ASSUME NEW d \in Digits, TooLarge(d) PROVE Inv'
  <2>1. exact = value /\ ~(value * radix + d <= MaxU)
    BY <1>6, FitsIsExact DEF TooLarge
  <2>2. value * radix + d \in Nat /\ MaxU \in Nat
    BY NextValue
  <2>3. exact' = value * radix + d /\ exact' \in Nat /\ exact' > MaxU
    BY <1>6, <2>1, <2>2 DEF TooLarge
  <2> QED BY <1>6, <2>3 DEF TooLarge, Errors
<1>7. ASSUME NEW d \in Digits, Digit(d) PROVE Inv'
  <2>1. exact = value /\ value * radix + d <= MaxU /\ Wrapped(Scaled + d) = value * radix + d
    BY <1>7, FitsIsExact DEF Digit
  <2>2. value * radix + d \in Nat
    BY NextValue
  <2>3. value' = exact' /\ value' \in 0 .. MaxU
    BY <1>7, <2>1, <2>2 DEF Digit
  <2>4. exact' \in Nat
    BY <2>3
  <2>5. result' = "none" /\ UNCHANGED <<pc, kind, args, radix, result, operands, exacts>> /\ empty' = FALSE
    BY <1>7 DEF Digit
  <2> QED BY <2>3, <2>4, <2>5
<1>8. CASE EndOperand
  <2>1. CASE pc = "digits" /\ Err("Number")
    BY <2>1, <1>1 DEF Errors
  <2>2. CASE /\ pc = "digits"
             /\ args' = Append(args, value) /\ exacts' = Append(exacts, exact)
             /\ pc' = "operand" /\ empty' = TRUE /\ value' = 0 /\ exact' = 0
             /\ UNCHANGED <<kind, radix, result, operands>>
    <3>1. value = exact /\ args = exacts /\ args' = exacts'
      BY <2>2
    <3>2. args' \in Seq(0 .. MaxU) /\ exacts' \in Seq(Nat) /\ Len(args') = Len(args) + 1
      BY <2>2, <3>1, AppendProperties
    <3>3. Counts[kind] \in 0 .. 3
      BY <2>2, CountsBounded
    <3>4. Len(args') <= 3
      BY <2>2, <3>2, <3>3
    <3> QED BY <2>2, <3>1, <3>2, <3>4
  <2> QED BY <1>8, <2>1, <2>2 DEF EndOperand
<1>9. CASE TooMany
  BY <1>9, <1>1 DEF TooMany, Errors
<1>10. CASE Return
  <2>1. pc = "operand" /\ kind \in Kinds /\ Len(args) = Counts[kind] /\ args = exacts
    BY <1>10 DEF Return, Finished
  <2>2. /\ pc' = "done" /\ result' = (IF InRange THEN "Ok" ELSE "Range")
        /\ operands' = (IF InRange THEN Carried ELSE << >>)
        /\ UNCHANGED <<kind, args, radix, empty, value, exact, exacts>>
    BY <1>10 DEF Return, number
  <2>3. InRange <=> \A n \in DOMAIN exacts : exacts[n] <= Bound(kind, n)
    BY <2>1, InRangeIsBound
  <2>4. AcceptsMeant' /\ RangeIsTooLarge'
    <3>1. CASE InRange
      <4>1. operands' = args
        BY <3>1, <2>1, <2>2, <2>3, CastKeeps
      <4> QED BY <3>1, <4>1, <2>1, <2>2, <2>3 DEF Bound
    <3>2. CASE ~InRange
      <4>1. PICK n \in DOMAIN exacts : ~(exacts[n] <= Bound(kind, n))
        BY <3>2, <2>3
      <4>2. exacts[n] \in Nat /\ Bound(kind, n) \in Nat
        BY <4>1, ElementOfSeq DEF Bound
      <4>3. exacts[n] > Bound(kind, n)
        BY <4>1, <4>2
      <4> QED BY <3>2, <4>3, <2>2 DEF Bound
    <3> QED BY <3>1, <3>2
  <2>5. operands' \in Seq(0 .. MaxU)
    <3>1. CASE InRange
      BY <3>1, <2>1, <2>2, <2>3, CastKeeps
    <3>2. CASE ~InRange
      BY <3>2, <2>2
    <3> QED BY <3>1, <3>2
  <2> QED BY <2>1, <2>2, <2>4, <2>5 DEF Errors
<1>11. CASE Again
  BY <1>11, InitInv DEF Again, Radices, Kinds, Counts, Errors
<1>12. CASE UNCHANGED vars
  BY <1>12 DEF vars
<1> QED
  BY <1>2, <1>3, <1>4, <1>5, <1>6, <1>7, <1>8, <1>9, <1>10, <1>11, <1>12 DEF Next

\* The inductive invariant of the parser (shell.rs parse, number).
THEOREM ParserInvariance == Spec => []Inv
BY InitInv, StepInv, PTL DEF Spec

\* No value of the parser leaves the machine's numbers (shell.rs number).
THEOREM ParserTypeCorrect == Spec => []TypeOK
<1>1. Inv => TypeOK
  BY DEF Inv
<1> QED BY <1>1, ParserInvariance, PTL

\* The operands a command runs with are the numbers that were typed (shell.rs number).
THEOREM NumbersExact == Spec => []OperandsExact
<1>1. Inv => OperandsExact
  BY DEF Inv
<1> QED BY <1>1, ParserInvariance, PTL

\* An accepted command has its operands, each in range (shell.rs parse).
THEOREM AcceptsOnlyMeant == Spec => []AcceptsMeant
<1>1. Inv => AcceptsMeant
  BY DEF Inv
<1> QED BY <1>1, ParserInvariance, PTL

\* A number is refused as too large only when it is (shell.rs number, parse).
THEOREM RefusesOnlyTooLarge == Spec => []RangeIsTooLarge
<1>1. Inv => RangeIsTooLarge
  BY DEF Inv
<1> QED BY <1>1, ParserInvariance, PTL

-----------------------------------------------------------------------------
(* The line editor (LineEditor). *)

\* While a line is open the screen shows it; a line that was handed out left the screen.
ScreenInv ==
  /\ ready \in BOOLEAN
  /\ ready => screen = << >>
  /\ ~ready => screen = line

LEMMA OpenedFacts ==
  ASSUME ScreenInv
  PROVE  Opened.ready = FALSE /\ Opened.line = screen
BY DEF ScreenInv, Opened, Cleared

\* What each byte does to the screen.
LEMMA Shown ==
  ASSUME NEW e, Returns(e)
  PROVE  /\ e = "Erase" => screen' = Front(screen)
         /\ e = "None" => screen' = screen
         /\ e \in Chars => screen' = Append(screen, e)
         /\ e \in {"Complete", "Overflow", "Cancelled", "Cleared"} => screen' = << >>
BY CharsAssumption DEF Returns

LEMMA FeedKeeps ==
  ASSUME ScreenInv, NEW b \in Keys, Feed(b)
  PROVE  ScreenInv'
<1>1. CASE Swallow(b)
  BY <1>1, Shown DEF Swallow, ScreenInv
<1>2. CASE End(b)
  <2>1. ready' = TRUE /\ \E e \in {"Complete", "Overflow"} : Returns(e)
    BY <1>2 DEF End, Becomes
  <2> QED BY <2>1, Shown DEF ScreenInv
<1>3. CASE Kill(b)
  <2>1. line' = << >> /\ ready' = FALSE /\ \E e \in {"Cancelled", "Cleared"} : Returns(e)
    BY <1>3 DEF Kill, Becomes, Cleared
  <2> QED BY <2>1, Shown DEF ScreenInv
<1>4. CASE Erase(b)
  <2>1. CASE Becomes([Opened EXCEPT !.line = Front(@)]) /\ Returns("Erase")
    <3>1. line' = Front(Opened.line) /\ ready' = Opened.ready
      BY <2>1 DEF Becomes, Opened, Cleared
    <3> QED BY <2>1, <3>1, OpenedFacts, Shown DEF ScreenInv
  <2>2. CASE Becomes(Opened) /\ Returns("None")
    BY <2>2, OpenedFacts, Shown DEF ScreenInv, Becomes
  <2> QED BY <1>4, <2>1, <2>2 DEF Erase
<1>5. CASE Store(b)
  <2>1. CASE Becomes([Opened EXCEPT !.overflow = TRUE]) /\ Returns("None")
    <3>1. line' = Opened.line /\ ready' = Opened.ready
      BY <2>1 DEF Becomes, Opened, Cleared
    <3> QED BY <2>1, <3>1, OpenedFacts, Shown DEF ScreenInv
  <2>2. CASE Becomes([Opened EXCEPT !.line = Append(@, b)]) /\ Returns(b) /\ b \in Chars
    <3>1. line' = Append(Opened.line, b) /\ ready' = Opened.ready
      BY <2>2 DEF Becomes, Opened, Cleared
    <3> QED BY <2>2, <3>1, OpenedFacts, Shown DEF ScreenInv
  <2> QED BY <1>5, <2>1, <2>2 DEF Store
<1>6. CASE Ignore(b)
  BY <1>6, OpenedFacts, Shown DEF Ignore, ScreenInv, Becomes
<1> QED BY <1>1, <1>2, <1>3, <1>4, <1>5, <1>6 DEF Feed

\* A screen that follows the events shows the line that would be submitted, for every
\* capacity and however long one types (console.rs feed, clear).
THEOREM ScreenFollows == EditorSpec => []ScreenShowsLine
<1>1. EditorInit => ScreenInv
  BY DEF EditorInit, ScreenInv
<1>2. ScreenInv /\ [EditorNext]_console => ScreenInv'
  <2> SUFFICES ASSUME ScreenInv, [EditorNext]_console PROVE ScreenInv'
    OBVIOUS
  <2>1. CASE Clear
    BY <2>1 DEF Clear, Becomes, Cleared, ScreenInv
  <2>2. CASE UNCHANGED console
    BY <2>2 DEF console, editor, ScreenInv
  <2> QED BY <2>1, <2>2, FeedKeeps DEF EditorNext, Poll
<1>3. ScreenInv => ScreenShowsLine
  BY DEF ScreenInv, ScreenShowsLine
<1> QED BY <1>1, <1>2, <1>3, PTL DEF EditorSpec

-----------------------------------------------------------------------------
(* Induction, over a set of numbers, from the well-foundedness of <.           *)

LEMMA NatMin ==
  ASSUME NEW T \in SUBSET Nat, T # {}
  PROVE  \E n \in T : \A m \in T : n <= m
<1>1. PICK R : R = {ss \in Nat \X Nat : ss[1] < ss[2]}
  OBVIOUS
<1>2. IsWellFoundedOn(R, Nat)
  BY <1>1, NatLessThanWellFounded DEF OpToRel
<1>3. PICK n \in T : \A m \in T : ~ (<<m, n>> \in R)
  BY <1>2, WFMin
<1>4. ASSUME NEW m \in T, m < n PROVE <<m, n>> \in R
  <2>1. <<m, n>> \in Nat \X Nat /\ <<m, n>>[1] = m /\ <<m, n>>[2] = n
    OBVIOUS
  <2> QED BY <1>1, <1>4, <2>1
<1>5. \A m \in T : ~ (m < n)
  BY <1>3, <1>4
<1> QED BY <1>5

LEMMA Induction ==
  ASSUME NEW T \in SUBSET Nat, 0 \in T, \A n \in T : n + 1 \in T
  PROVE  \A n \in Nat : n \in T
<1>1. ASSUME Nat \ T # {} PROVE FALSE
  <2>1. PICK n \in Nat \ T : \A m \in Nat \ T : n <= m
    BY <1>1, NatMin
  <2>2. n # 0 /\ n - 1 \in Nat
    BY <2>1
  <2>3. n - 1 \in T
    BY <2>1, <2>2
  <2>4. (n - 1) + 1 = n
    BY <2>1
  <2> QED BY <2>1, <2>3, <2>4
<1> QED BY <1>1

-----------------------------------------------------------------------------
(* The line editor against the typist's reference: what a line is, from the keys alone. *)

\* The recursion in the definition of FoldLeft, over sets of the first m places of typed.
TextsOf(f, typed, m) ==
  f = [s \in SUBSET (1 .. m) |->
         IF s = {} THEN << >> ELSE Typing(f[s \ {Max(s)}], typed[Max(s)])]

LEMMA MaxIs ==
  ASSUME NEW m \in Nat, NEW s \in SUBSET (1 .. m + 1), m + 1 \in s
  PROVE  Max(s) = m + 1
<1>1. \A y \in s : m + 1 >= y
  OBVIOUS
<1>2. \A x \in s : (\A y \in s : x >= y) => x = m + 1
  OBVIOUS
<1> QED BY <1>1, <1>2 DEF Max

LEMMA TopOf ==
  ASSUME NEW n \in Nat, NEW s \in SUBSET (1 .. n), s # {}
  PROVE  Max(s) \in s /\ \A k \in s : k <= Max(s)
<1> DEFINE T == {m \in Nat : \A t \in SUBSET (1 .. m) : t # {} => \E x \in t : \A y \in t : x >= y}
<1>1. 0 \in T
  <2>1. \A t \in SUBSET (1 .. 0) : t = {}
    OBVIOUS
  <2> QED BY <2>1
<1>2. ASSUME NEW m \in T PROVE m + 1 \in T
  <2> SUFFICES ASSUME NEW t \in SUBSET (1 .. m + 1), t # {}
               PROVE  \E x \in t : \A y \in t : x >= y
    OBVIOUS
  <2>1. CASE m + 1 \in t
    <3>1. \A y \in t : m + 1 >= y
      OBVIOUS
    <3> QED BY <2>1, <3>1
  <2>2. CASE m + 1 \notin t
    <3>1. t \in SUBSET (1 .. m)
      BY <2>2
    <3> QED BY <3>1
  <2> QED BY <2>1, <2>2
<1>3. n \in T
  <2> HIDE DEF T
  <2>1. T \subseteq Nat
    BY DEF T
  <2> QED BY <1>1, <1>2, <2>1, Induction
<1>4. \E x \in s : \A y \in s : x >= y
  BY <1>3
<1>5. Max(s) \in s /\ \A y \in s : Max(s) >= y
  BY <1>4 DEF Max
<1> QED BY <1>5

LEMMA TextsUpTo ==
  ASSUME NEW typed, NEW n \in Nat
  PROVE  \E f : TextsOf(f, typed, n)
<1> DEFINE T == {m \in Nat : \E f : TextsOf(f, typed, m)}
<1>1. 0 \in T
  <2> DEFINE f == [s \in SUBSET (1 .. 0) |-> << >>]
  <2>1. TextsOf(f, typed, 0)
    BY DEF TextsOf
  <2> HIDE DEF f
  <2> QED BY <2>1
<1>2. ASSUME NEW m \in T PROVE m + 1 \in T
  <2>1. PICK f : TextsOf(f, typed, m)
    OBVIOUS
  <2> DEFINE g == [s \in SUBSET (1 .. m + 1) |->
                     IF m + 1 \in s THEN Typing(f[s \ {m + 1}], typed[m + 1]) ELSE f[s]]
  <2>2. ASSUME NEW s \in SUBSET (1 .. m + 1)
        PROVE  g[s] = IF s = {} THEN << >> ELSE Typing(g[s \ {Max(s)}], typed[Max(s)])
    <3>1. CASE m + 1 \in s
      <4>1. Max(s) = m + 1 /\ s # {}
        BY <3>1, MaxIs
      <4>2. s \ {m + 1} \in SUBSET (1 .. m + 1) /\ m + 1 \notin s \ {m + 1}
        OBVIOUS
      <4>3. g[s] = Typing(f[s \ {m + 1}], typed[m + 1]) /\ g[s \ {m + 1}] = f[s \ {m + 1}]
        BY <3>1, <4>2
      <4> HIDE DEF g
      <4> QED BY <4>1, <4>3
    <3>2. CASE m + 1 \notin s
      <4>1. s \in SUBSET (1 .. m)
        BY <3>2
      <4>2. f[s] = IF s = {} THEN << >> ELSE Typing(f[s \ {Max(s)}], typed[Max(s)])
        BY <2>1, <4>1 DEF TextsOf
      <4>3. s \ {Max(s)} \in SUBSET (1 .. m + 1) /\ m + 1 \notin s \ {Max(s)}
        BY <3>2
      <4>4. g[s] = f[s] /\ g[s \ {Max(s)}] = f[s \ {Max(s)}]
        BY <3>2, <4>3
      <4> HIDE DEF g
      <4> QED BY <4>2, <4>4
    <3> QED BY <3>1, <3>2
  <2>3. TextsOf(g, typed, m + 1)
    <3>1. g = [s \in SUBSET (1 .. m + 1) |-> g[s]]
      OBVIOUS
    <3> HIDE DEF g
    <3> QED BY <2>2, <3>1 DEF TextsOf
  <2> HIDE DEF g
  <2> QED BY <2>3
<1>3. n \in T
  <2> HIDE DEF T
  <2>1. T \subseteq Nat
    BY DEF T
  <2> QED BY <1>1, <1>2, <2>1, Induction
<1> QED BY <1>3

LEMMA TextsOnce ==
  ASSUME NEW typed, NEW n \in Nat, NEW f, TextsOf(f, typed, n), NEW g, TextsOf(g, typed, n)
  PROVE  f = g
<1> DEFINE T == {m \in Nat : m <= n => \A s \in SUBSET (1 .. m) : f[s] = g[s]}
<1>1. ASSUME NEW s \in SUBSET (1 .. n)
      PROVE  /\ f[s] = IF s = {} THEN << >> ELSE Typing(f[s \ {Max(s)}], typed[Max(s)])
             /\ g[s] = IF s = {} THEN << >> ELSE Typing(g[s \ {Max(s)}], typed[Max(s)])
  BY DEF TextsOf
<1>2. 0 \in T
  <2>1. ASSUME NEW s \in SUBSET (1 .. 0) PROVE s = {} /\ s \in SUBSET (1 .. n)
    OBVIOUS
  <2> QED BY <1>1, <2>1
<1>3. ASSUME NEW m \in T PROVE m + 1 \in T
  <2>0. m + 1 \in Nat
    OBVIOUS
  <2> SUFFICES ASSUME m + 1 <= n, NEW s \in SUBSET (1 .. m + 1) PROVE f[s] = g[s]
    BY <2>0
  <2>1. CASE m + 1 \in s
    <3>1. Max(s) = m + 1 /\ s \in SUBSET (1 .. n) /\ s # {}
      BY <2>1, MaxIs
    <3>2. s \ {m + 1} \in SUBSET (1 .. m)
      <4>1. \A k \in s \ {m + 1} : k \in 1 .. m
        OBVIOUS
      <4> QED BY <4>1
    <3>3. f[s \ {m + 1}] = g[s \ {m + 1}]
      BY <3>2
    <3> QED BY <1>1, <3>1, <3>3
  <2>2. CASE m + 1 \notin s
    <3>1. s \in SUBSET (1 .. m)
      BY <2>2
    <3> QED BY <3>1
  <2> QED BY <2>1, <2>2
<1>4. n \in T
  <2> HIDE DEF T
  <2>1. T \subseteq Nat
    BY DEF T
  <2> QED BY <1>2, <1>3, <2>1, Induction
<1>5. \A s \in SUBSET (1 .. n) : f[s] = g[s]
  BY <1>4
<1>6. f = [s \in SUBSET (1 .. n) |-> f[s]] /\ g = [s \in SUBSET (1 .. n) |-> g[s]]
  BY DEF TextsOf
<1> QED BY <1>5, <1>6

LEMMA TextIs ==
  ASSUME NEW S, NEW typed \in Seq(S), NEW f, TextsOf(f, typed, Len(typed))
  PROVE  Text(typed) = f[1 .. Len(typed)]
<1> HIDE DEF Typing
<1>1. DOMAIN typed = 1 .. Len(typed) /\ Len(typed) \in Nat
  BY LenProperties
<1>2. \A g : TextsOf(g, typed, Len(typed)) => g = f
  BY <1>1, TextsOnce
<1> QED BY <1>1, <1>2 DEF Text, FoldLeft, MapThenFoldSet, TextsOf

\* One more key is typed on the text of the others.
LEMMA TextOfAppend ==
  ASSUME NEW S, NEW typed \in Seq(S), NEW b \in S
  PROVE  Text(<< >>) = << >> /\ Text(Append(typed, b)) = Typing(Text(typed), b)
<1>1. Text(<< >>) = << >>
  <2>1. PICK f : TextsOf(f, << >>, 0)
    BY TextsUpTo
  <2>2. f[1 .. 0] = << >>
    BY <2>1 DEF TextsOf
  <2> QED BY <2>1, <2>2, TextIs, EmptySeq
<1>2. PICK n \in Nat : n = Len(typed)
  OBVIOUS
<1>3. PICK more \in Seq(S) : more = Append(typed, b)
  BY AppendProperties
<1>4. Len(more) = n + 1 /\ more[n + 1] = b /\ \A k \in 1 .. n : more[k] = typed[k]
  BY <1>2, <1>3, AppendProperties
<1>5. PICK f : TextsOf(f, more, n + 1)
  <2>1. n + 1 \in Nat
    OBVIOUS
  <2> QED BY <2>1, TextsUpTo
<1>6. Text(more) = f[1 .. n + 1]
  BY <1>4, <1>5, TextIs
<1>7. f[1 .. n + 1] = Typing(f[1 .. n], b)
  <2>1. /\ 1 .. n + 1 \in SUBSET (1 .. n + 1) /\ 1 .. n + 1 # {} /\ n + 1 \in 1 .. n + 1
        /\ (1 .. n + 1) \ {n + 1} = 1 .. n
    <3>1. ASSUME NEW k PROVE k \in (1 .. n + 1) \ {n + 1} <=> k \in 1 .. n
      OBVIOUS
    <3>2. n + 1 \in 1 .. n + 1
      OBVIOUS
    <3> QED BY <3>1, <3>2
  <2>2. PICK s : s = 1 .. n + 1
    OBVIOUS
  <2>3. f[s] = IF s = {} THEN << >> ELSE Typing(f[s \ {Max(s)}], more[Max(s)])
    BY <1>5, <2>1, <2>2 DEF TextsOf
  <2>4. Max(s) = n + 1
    BY <2>1, <2>2, MaxIs
  <2> QED BY <1>4, <2>1, <2>2, <2>3, <2>4
<1>8. Text(typed) = f[1 .. n]
  <2> DEFINE g == [s \in SUBSET (1 .. n) |-> f[s]]
  <2>1. ASSUME NEW s \in SUBSET (1 .. n)
        PROVE  g[s] = IF s = {} THEN << >> ELSE Typing(g[s \ {Max(s)}], typed[Max(s)])
    <3>1. CASE s = {}
      <4>1. f[s] = << >>
        BY <1>5, <3>1 DEF TextsOf
      <4> QED BY <3>1, <4>1
    <3>2. CASE s # {}
      <4>1. s \in SUBSET (1 .. n + 1) /\ s \ {Max(s)} \in SUBSET (1 .. n)
        <5>1. \A k \in s : k \in 1 .. n + 1
          OBVIOUS
        <5> QED BY <5>1
      <4>2. f[s] = Typing(f[s \ {Max(s)}], more[Max(s)])
        BY <1>5, <3>2, <4>1 DEF TextsOf
      <4>3. g[s] = f[s] /\ g[s \ {Max(s)}] = f[s \ {Max(s)}]
        BY <4>1
      <4>4. Max(s) \in s
        BY <3>2, TopOf
      <4>5. more[Max(s)] = typed[Max(s)]
        BY <1>4, <4>4
      <4> HIDE DEF g
      <4> QED BY <3>2, <4>2, <4>3, <4>5
    <3> QED BY <3>1, <3>2
  <2>2. TextsOf(g, typed, n)
    <3>1. g = [s \in SUBSET (1 .. n) |-> g[s]]
      OBVIOUS
    <3> HIDE DEF g
    <3> QED BY <2>1, <3>1 DEF TextsOf
  <2>3. Text(typed) = g[1 .. n]
    <3> HIDE DEF g
    <3> QED BY <1>2, <2>2, TextIs
  <2> QED BY <2>3
<1> QED BY <1>1, <1>3, <1>6, <1>7, <1>8

\* A part of a sequence, by its length.
LEMMA PartIs ==
  ASSUME NEW S, NEW s, NEW f \in Nat, NEW e \in Nat, NEW len \in Nat, e + 1 = f + len,
         \A k \in f .. e : s[k] \in S
  PROVE  /\ SubSeq(s, f, e) \in Seq(S) /\ Len(SubSeq(s, f, e)) = len
         /\ \A i \in 1 .. len : SubSeq(s, f, e)[i] = s[f + i - 1]
<1>1. /\ SubSeq(s, f, e) \in Seq(S)
      /\ Len(SubSeq(s, f, e)) = IF f <= e THEN e - f + 1 ELSE 0
      /\ \A i \in 1 .. e - f + 1 : SubSeq(s, f, e)[i] = s[f + i - 1]
  BY SubSeqProperties
<1>2. len = e - f + 1
  OBVIOUS
<1> QED BY <1>1, <1>2

AllKeys == Keys \cup {"clear()"}

\* The reference's operators on any keys.
AfterReturnIn(ks, k) ==
  \E j \in 1 .. k - 1 : ks[j] = "CR" /\ \A m \in j + 1 .. k - 1 : ks[m] = "clear()"
IsEndIn(ks, k) == ks[k] = "CR" \/ (ks[k] = "LF" /\ ~AfterReturnIn(ks, k))
StartsOverIn(ks, k) == IsEndIn(ks, k) \/ ks[k] \in Kills \cup {"clear()"}
StartsBefore(ks, k) == {j \in 1 .. k : StartsOverIn(ks, j)}
FirstAfter(starts) == IF starts = {} THEN 1 ELSE Max(starts) + 1

TypedIn(ks, k) == SubSeq(ks, FirstAfter(StartsBefore(ks, k - 1)), k - 1)

LEMMA TypedAt ==
  ASSUME NEW ks, NEW n \in Nat
  PROVE  TypedIn(ks, n + 1) = SubSeq(ks, FirstAfter(StartsBefore(ks, n)), n)
<1>1. PICK k : k = n + 1
  OBVIOUS
<1>2. k - 1 = n
  BY <1>1
<1>3. TypedIn(ks, k) = SubSeq(ks, FirstAfter(StartsBefore(ks, n)), n)
  BY <1>2 DEF TypedIn
<1> QED BY <1>1, <1>3

\* The keys of the line that is open after all the keys.
Current(ks) == SubSeq(ks, FirstAfter(StartsBefore(ks, Len(ks))), Len(ks))

LEMMA SameBefore ==
  ASSUME NEW ks \in Seq(AllKeys), NEW b \in AllKeys, NEW more, more = Append(ks, b),
         NEW n \in Nat, n = Len(ks)
  PROVE  /\ more \in Seq(AllKeys) /\ Len(more) = n + 1 /\ more[n + 1] = b
         /\ \A k \in 1 .. n : more[k] = ks[k]
         /\ \A k \in 1 .. n + 1 : AfterReturnIn(more, k) <=> AfterReturnIn(ks, k)
         /\ StartsBefore(more, n) = StartsBefore(ks, n)
<1>1. /\ more \in Seq(AllKeys) /\ Len(more) = n + 1 /\ more[n + 1] = b
      /\ \A k \in 1 .. n : more[k] = ks[k]
  BY AppendProperties
<1>2. ASSUME NEW k \in 1 .. n + 1 PROVE AfterReturnIn(more, k) <=> AfterReturnIn(ks, k)
  <2>1. \A j \in 1 .. k - 1 : more[j] = ks[j] /\ \A m \in j + 1 .. k - 1 : more[m] = ks[m]
    BY <1>1
  <2> QED BY <2>1 DEF AfterReturnIn
<1>3. ASSUME NEW k \in 1 .. n PROVE StartsOverIn(more, k) <=> StartsOverIn(ks, k)
  <2>1. k \in 1 .. n + 1 /\ more[k] = ks[k]
    BY <1>1
  <2> QED BY <1>2, <2>1 DEF StartsOverIn, IsEndIn
<1> QED BY <1>1, <1>2, <1>3 DEF StartsBefore

LEMMA FirstIs ==
  ASSUME NEW ks, NEW n \in Nat
  PROVE  FirstAfter(StartsBefore(ks, n)) \in 1 .. n + 1
<1>1. PICK s \in SUBSET (1 .. n) : s = StartsBefore(ks, n)
  BY DEF StartsBefore
<1>2. CASE s = {}
  BY <1>1, <1>2 DEF FirstAfter
<1>3. CASE s # {}
  <2>1. Max(s) \in 1 .. n
    BY <1>1, <1>3, TopOf
  <2>2. Max(s) + 1 \in 1 .. n + 1
    BY <2>1
  <2> QED BY <1>1, <1>3, <2>2 DEF FirstAfter
<1> QED BY <1>2, <1>3

\* What one more key does to the open line.
LEMMA NextLine ==
  ASSUME NEW ks \in Seq(AllKeys), NEW b \in AllKeys, NEW more, more = Append(ks, b),
         NEW n \in Nat, n = Len(ks)
  PROVE  /\ Current(ks) \in Seq(AllKeys)
         /\ SubSeq(more, FirstAfter(StartsBefore(more, n)), n) = Current(ks)
         /\ Current(more) = IF StartsOverIn(more, n + 1) THEN << >> ELSE Append(Current(ks), b)
<1>1. /\ more \in Seq(AllKeys) /\ Len(more) = n + 1 /\ more[n + 1] = b
      /\ \A k \in 1 .. n : more[k] = ks[k]
  BY AppendProperties
<1>12. StartsBefore(more, n) = StartsBefore(ks, n)
  BY SameBefore, Zenon
<1>2. PICK f \in 1 .. n + 1 : f = FirstAfter(StartsBefore(ks, n))
  BY FirstIs
<1>3. Current(ks) = SubSeq(ks, f, n)
  BY <1>2 DEF Current
<1>4. \A k \in f .. n : ks[k] \in AllKeys /\ more[k] \in AllKeys
  BY <1>1, ElementOfSeq
<1>5. \A k \in f .. n + 1 : more[k] \in AllKeys
  BY <1>1, ElementOfSeq
<1>6. PICK c \in Seq(AllKeys) : c = Current(ks)
  <2>1. SubSeq(ks, f, n) \in Seq(AllKeys)
    BY <1>4, SubSeqProperties
  <2> QED BY <1>3, <2>1
<1>7. /\ Len(c) = n - f + 1
      /\ \A i \in 1 .. n - f + 1 : c[i] = ks[f + i - 1]
  <2>1. /\ Len(SubSeq(ks, f, n)) = IF f <= n THEN n - f + 1 ELSE 0
        /\ \A i \in 1 .. n - f + 1 : SubSeq(ks, f, n)[i] = ks[f + i - 1]
    BY <1>4, SubSeqProperties
  <2> QED BY <1>3, <1>6, <2>1
<1>8. SubSeq(more, f, n) = c
  <2>1. /\ SubSeq(more, f, n) \in Seq(AllKeys)
        /\ Len(SubSeq(more, f, n)) = IF f <= n THEN n - f + 1 ELSE 0
        /\ \A i \in 1 .. n - f + 1 : SubSeq(more, f, n)[i] = more[f + i - 1]
    BY <1>4, SubSeqProperties
  <2>2. ASSUME NEW i \in 1 .. n - f + 1 PROVE SubSeq(more, f, n)[i] = c[i]
    <3>1. f + i - 1 \in 1 .. n
      OBVIOUS
    <3> QED BY <1>1, <1>7, <2>1, <3>1
  <2>3. Len(SubSeq(more, f, n)) = n - f + 1
    BY <2>1
  <2> QED BY <1>7, <2>1, <2>2, <2>3, SeqEqual
<1>9. CASE StartsOverIn(more, n + 1)
  <2>1. PICK s \in SUBSET (1 .. n + 1) : s = StartsBefore(more, n + 1)
    BY DEF StartsBefore
  <2>2. n + 1 \in s
    BY <1>9, <2>1 DEF StartsBefore
  <2>3. Max(s) = n + 1
    BY <2>2, MaxIs
  <2>4. FirstAfter(s) = n + 1 + 1
    BY <2>2, <2>3 DEF FirstAfter
  <2>5. SubSeq(more, n + 1 + 1, n + 1) = << >>
    BY SubSeqEmpty, SMT
  <2> QED BY <1>1, <1>6, <1>8, <1>2, <1>9, <1>12, <2>1, <2>4, <2>5 DEF Current
<1>10. CASE ~StartsOverIn(more, n + 1)
  <2>1. StartsBefore(more, n + 1) = StartsBefore(more, n)
    BY <1>10 DEF StartsBefore
  <2>2. Current(more) = SubSeq(more, f, n + 1)
    BY <1>1, <1>2, <1>12, <2>1 DEF Current
  <2>4. PICK m \in Nat : m = n - f + 1
    BY <1>2
  <2>3. PICK sub \in Seq(AllKeys) :
          /\ sub = SubSeq(more, f, n + 1) /\ Len(sub) = m + 1
          /\ \A i \in 1 .. m + 1 : sub[i] = more[f + i - 1]
    <3>1. PICK e \in Nat, k \in Nat : e = n + 1 /\ k = m + 1 /\ e + 1 = f + k /\ f \in Nat
      <4>1. n + 1 \in Nat /\ m + 1 \in Nat /\ (n + 1) + 1 = f + (m + 1) /\ f \in Nat
        BY <2>4
      <4> QED BY <4>1
    <3>2. /\ SubSeq(more, f, e) \in Seq(AllKeys) /\ Len(SubSeq(more, f, e)) = k
          /\ \A i \in 1 .. k : SubSeq(more, f, e)[i] = more[f + i - 1]
      <4>1. \A j \in f .. e : more[j] \in AllKeys
        BY <1>5, <3>1
      <4>2. e + 1 = f + k /\ f \in Nat
        BY <3>1
      <4> QED BY ONLY <4>1, <4>2, e \in Nat, k \in Nat, PartIs
    <3> QED BY <3>1, <3>2
  <2>5. /\ Append(c, b) \in Seq(AllKeys) /\ Len(Append(c, b)) = m + 1 /\ Append(c, b)[m + 1] = b
        /\ \A i \in 1 .. m : Append(c, b)[i] = c[i]
    BY <1>7, <2>4, AppendProperties
  <2>6. ASSUME NEW i \in 1 .. m + 1 PROVE sub[i] = Append(c, b)[i]
    <3>2. CASE i \in 1 .. m
      <4>1. f + i - 1 \in 1 .. n
        BY <2>4, <3>2
      <4> QED BY <1>1, <1>7, <2>3, <2>4, <2>5, <3>2, <4>1
    <3>3. CASE i = m + 1
      <4>1. f + i - 1 = n + 1
        BY <2>4, <3>3
      <4> QED BY <1>1, <2>3, <2>5, <3>3, <4>1
    <3>4. i \in 1 .. m \/ i = m + 1
      OBVIOUS
    <3> QED BY <3>2, <3>3, <3>4
  <2>8. sub = Append(c, b)
    BY <2>3, <2>5, <2>6, SeqEqual
  <2> QED BY <1>1, <1>2, <1>12, <1>6, <1>8, <1>10, <2>2, <2>3, <2>8
<1> QED BY <1>9, <1>10

LEMMA NextReturn ==
  ASSUME NEW ks \in Seq(AllKeys), NEW b \in AllKeys, NEW more, more = Append(ks, b),
         NEW n \in Nat, n = Len(ks)
  PROVE  AfterReturnIn(more, n + 1 + 1) <=>
           b = "CR" \/ (b = "clear()" /\ AfterReturnIn(ks, n + 1))
<1>1. /\ more[n + 1] = b /\ \A k \in 1 .. n : more[k] = ks[k]
  BY SameBefore
<1>2. CASE b = "CR"
  <2>1. n + 1 \in 1 .. n + 1 + 1 - 1 /\ \A m \in n + 1 + 1 .. n + 1 + 1 - 1 : FALSE
    OBVIOUS
  <2> QED BY <1>1, <1>2, <2>1 DEF AfterReturnIn
<1>3. CASE b = "clear()"
  <2>1. ASSUME NEW j \in 1 .. n
        PROVE  (\A m \in j + 1 .. n + 1 : more[m] = "clear()") <=> (\A m \in j + 1 .. n : ks[m] = "clear()")
    <3>1. \A m \in j + 1 .. n : m \in 1 .. n /\ m \in j + 1 .. n + 1
      OBVIOUS
    <3>2. \A m \in j + 1 .. n + 1 : m = n + 1 \/ m \in j + 1 .. n
      OBVIOUS
    <3> QED BY <1>1, <1>3, <3>1, <3>2
  <2>2. n + 1 + 1 - 1 = n + 1 /\ n + 1 - 1 = n /\ "clear()" # "CR"
    OBVIOUS
  <2>3. \A j \in 1 .. n + 1 : more[j] = "CR" => j \in 1 .. n
    BY <1>1, <1>3, <2>2
  <2>4. \A j \in 1 .. n : j \in 1 .. n + 1
    OBVIOUS
  <2>5. (\E j \in 1 .. n + 1 : more[j] = "CR" /\ \A m \in j + 1 .. n + 1 : more[m] = "clear()")
          <=> (\E j \in 1 .. n : ks[j] = "CR" /\ \A m \in j + 1 .. n : ks[m] = "clear()")
    BY <1>1, <2>1, <2>3, <2>4
  <2> QED BY <1>3, <2>2, <2>5 DEF AfterReturnIn
<1>4. CASE b # "CR" /\ b # "clear()"
  <2> SUFFICES ASSUME NEW j \in 1 .. n + 1, more[j] = "CR",
                      \A m \in j + 1 .. n + 1 : more[m] = "clear()"
               PROVE  FALSE
    <3>1. n + 1 + 1 - 1 = n + 1
      OBVIOUS
    <3> QED BY <1>4, <3>1 DEF AfterReturnIn
  <2>1. CASE j = n + 1
    BY <1>1, <1>4, <2>1
  <2>2. CASE j # n + 1
    <3>1. n + 1 \in j + 1 .. n + 1
      BY <2>2
    <3> QED BY <1>1, <1>4, <3>1
  <2> QED BY <2>1, <2>2
<1> QED BY <1>2, <1>3, <1>4

\* The longest of the texts so far was never too long.
LEMMA NextTooLong ==
  ASSUME NEW S, NEW typed \in Seq(S), NEW b \in S
  PROVE  NeverTooLong(Append(typed, b))
           <=> NeverTooLong(typed) /\ Len(Text(Append(typed, b))) <= N
<1>1. PICK n \in Nat : n = Len(typed)
  OBVIOUS
<1>2. PICK more \in Seq(S) : more = Append(typed, b)
  BY AppendProperties
<1>3. Len(more) = n + 1 /\ \A k \in 1 .. n : more[k] = typed[k]
  BY <1>1, <1>2, AppendProperties
<1>4. SubSeq(more, 1, n + 1) = more
  BY <1>2, <1>3, SubSeqFull
<1>5. ASSUME NEW k \in 0 .. n PROVE SubSeq(more, 1, k) = SubSeq(typed, 1, k)
  <2>1. \A i \in 1 .. k : more[i] \in S /\ typed[i] \in S /\ more[i] = typed[i]
    <3>1. \A i \in 1 .. k : i \in 1 .. n
      OBVIOUS
    <3> QED BY <1>1, <1>3, <3>1, ElementOfSeq
  <2>2. /\ SubSeq(more, 1, k) \in Seq(S)
        /\ Len(SubSeq(more, 1, k)) = IF 1 <= k THEN k - 1 + 1 ELSE 0
        /\ \A i \in 1 .. k - 1 + 1 : SubSeq(more, 1, k)[i] = more[1 + i - 1]
    BY <2>1, SubSeqProperties
  <2>3. /\ SubSeq(typed, 1, k) \in Seq(S)
        /\ Len(SubSeq(typed, 1, k)) = IF 1 <= k THEN k - 1 + 1 ELSE 0
        /\ \A i \in 1 .. k - 1 + 1 : SubSeq(typed, 1, k)[i] = typed[1 + i - 1]
    BY <2>1, SubSeqProperties
  <2>4. Len(SubSeq(more, 1, k)) = k /\ Len(SubSeq(typed, 1, k)) = k
    BY <2>2, <2>3
  <2>5. ASSUME NEW i \in 1 .. k PROVE SubSeq(more, 1, k)[i] = SubSeq(typed, 1, k)[i]
    <3>1. i \in 1 .. k - 1 + 1 /\ 1 + i - 1 = i
      OBVIOUS
    <3> QED BY <2>1, <2>2, <2>3, <3>1
  <2> QED BY <2>2, <2>3, <2>4, <2>5, SeqEqual
<1>6. \A k \in 0 .. n + 1 : k \in 0 .. n \/ k = n + 1
  OBVIOUS
<1>7. \A k \in 0 .. n : k \in 0 .. n + 1
  OBVIOUS
<1>8. n + 1 \in 0 .. n + 1
  OBVIOUS
<1> HIDE DEF Text
<1> QED BY <1>1, <1>2, <1>3, <1>4, <1>5, <1>6, <1>7, <1>8 DEF NeverTooLong

\* What the editor keeps is what was typed since the last line began, or that it is too long.
EditorInv ==
  /\ keys \in Seq(AllKeys)
  /\ line \in Seq(Chars) /\ Len(line) <= N /\ ready \in BOOLEAN /\ overflow \in BOOLEAN
  /\ after_cr <=> AfterReturnIn(keys, Len(keys) + 1)
  /\ Opened.overflow <=> ~NeverTooLong(Current(keys))
  /\ ~Opened.overflow => Opened.line = Text(Current(keys))
  /\ SubmitsTyped

\* What Opened and Becomes are, in the fields the proof looks at.
LEMMA OpenedIs ==
  ASSUME line \in Seq(Chars), Len(line) <= N, overflow \in BOOLEAN
  PROVE  /\ Opened = [line |-> Opened.line, overflow |-> Opened.overflow, ready |-> FALSE]
         /\ Opened.line \in Seq(Chars) /\ Len(Opened.line) <= N /\ Opened.overflow \in BOOLEAN
<1>1. << >> \in Seq(Chars) /\ Len(<< >>) = 0 /\ N \in Nat
  BY EmptySeq, EditorAssumption
<1>2. CASE ready
  BY <1>1, <1>2 DEF Opened, Cleared
<1>3. CASE ~ready
  BY <1>3 DEF Opened, Cleared
<1> QED BY <1>2, <1>3

\* The open line is the one before with the key, and the keys before it say whether it ends.
LEMMA KeyTyped ==
  ASSUME EditorInv, NEW b \in AllKeys, keys' = Append(keys, b),
         NEW n \in Nat, n = Len(keys)
  PROVE  /\ keys' \in Seq(AllKeys) /\ Len(keys') = n + 1 /\ keys'[n + 1] = b /\ keys' # << >>
         /\ AfterReturnIn(keys', n + 1) <=> after_cr
         /\ IsEnd(Len(keys))' <=> IsEndIn(keys', n + 1)
         /\ Typed(Len(keys))' = Current(keys)
         /\ Current(keys)' = Current(keys')
         /\ Current(keys) \in Seq(AllKeys)
         /\ Current(keys') = IF StartsOverIn(keys', n + 1) THEN << >> ELSE Append(Current(keys), b)
<1>1. keys \in Seq(AllKeys)
  BY DEF EditorInv
<1>2. PICK more : more = keys'
  OBVIOUS
<1>3. /\ more \in Seq(AllKeys) /\ Len(more) = n + 1 /\ more[n + 1] = b /\ more # << >>
  BY <1>1, <1>2, AppendProperties
<1>4. \A k \in 1 .. n + 1 : AfterReturnIn(more, k) <=> AfterReturnIn(keys, k)
  BY <1>1, <1>2, SameBefore, Zenon
<1>5. AfterReturnIn(more, n + 1) <=> after_cr
  <2>1. n + 1 \in 1 .. n + 1
    OBVIOUS
  <2> QED BY <1>4, <2>1 DEF EditorInv
<1>6. /\ Current(keys) \in Seq(AllKeys)
      /\ SubSeq(more, FirstAfter(StartsBefore(more, n)), n) = Current(keys)
      /\ Current(more) = IF StartsOverIn(more, n + 1) THEN << >> ELSE Append(Current(keys), b)
  BY <1>1, <1>2, NextLine
<1>7. IsEnd(Len(keys))' <=> IsEndIn(keys', n + 1)
  <2>1. IsEnd(Len(keys))' <=> IsEndIn(keys', Len(keys'))
    BY DEF IsEnd, IsEndIn, AfterReturn, AfterReturnIn
  <2> QED BY <1>2, <1>3, <2>1
<1>8. Typed(Len(keys))' = SubSeq(keys', FirstAfter(StartsBefore(keys', n)), n)
  <2>1. Typed(Len(keys))' = TypedIn(keys', Len(keys'))
    BY DEF Typed, TypedIn, FirstAfter, StartsBefore,
           StartsOver, StartsOverIn, IsEnd, IsEndIn, AfterReturn, AfterReturnIn
  <2> QED BY <1>2, <1>3, <2>1, TypedAt
<1>9. Current(keys)' = Current(keys')
  BY DEF Current, StartsBefore, StartsOverIn, IsEndIn, AfterReturnIn, FirstAfter
<1> QED BY <1>2, <1>3, <1>5, <1>6, <1>7, <1>8, <1>9

\* What Opened is after a step, from what the step stored.
LEMMA OpenedNext ==
  /\ ready' = FALSE => Opened'.line = line' /\ Opened'.overflow = overflow'
  /\ ready' = TRUE => Opened'.line = << >> /\ Opened'.overflow = FALSE
BY DEF Opened, Cleared

LEMMA ReturnKept ==
  ASSUME EditorInv, NEW b \in AllKeys, keys' = Append(keys, b),
         after_cr' <=> b = "CR" \/ (b = "clear()" /\ after_cr)
  PROVE  after_cr' <=> AfterReturnIn(keys', Len(keys') + 1)
<1>1. PICK n \in Nat : n = Len(keys) /\ keys \in Seq(AllKeys)
  BY DEF EditorInv
<1>2. Len(keys') = n + 1
  BY <1>1, KeyTyped
<1>3. AfterReturnIn(keys', n + 1 + 1) <=> b = "CR" \/ (b = "clear()" /\ AfterReturnIn(keys, n + 1))
  BY <1>1, NextReturn
<1>4. after_cr <=> AfterReturnIn(keys, n + 1)
  BY <1>1 DEF EditorInv
<1> QED BY <1>2, <1>3, <1>4

\* A key that begins no line is typed on the open one.
LEMMA TypedOn ==
  ASSUME EditorInv, NEW b \in AllKeys, keys' = Append(keys, b),
         ~StartsOverIn(keys', Len(keys) + 1),
         event' \notin {"Complete", "Overflow"},
         line' \in Seq(Chars), Len(line') <= N, ready' \in BOOLEAN, overflow' \in BOOLEAN,
         after_cr' <=> b = "CR" \/ (b = "clear()" /\ after_cr),
         NEW text, text = Typing(Text(Current(keys)), b),
         Opened'.overflow <=> Opened.overflow \/ ~(Len(text) <= N),
         ~Opened'.overflow => Opened'.line = text
  PROVE  EditorInv'
<1>1. PICK n \in Nat : n = Len(keys)
  BY DEF EditorInv
<1>2. /\ keys' \in Seq(AllKeys) /\ Len(keys') = n + 1 /\ keys' # << >>
      /\ IsEnd(Len(keys))' <=> IsEndIn(keys', n + 1)
      /\ Current(keys)' = Current(keys') /\ Current(keys) \in Seq(AllKeys)
      /\ Current(keys') = Append(Current(keys), b)
  BY <1>1, KeyTyped
<1>3. Text(Current(keys')) = text
  BY <1>2, TextOfAppend
<1>4. NeverTooLong(Current(keys')) <=> NeverTooLong(Current(keys)) /\ Len(text) <= N
  BY <1>2, <1>3, NextTooLong
<1>5. Opened.overflow <=> ~NeverTooLong(Current(keys))
  BY DEF EditorInv
<1>6. ~IsEndIn(keys', n + 1)
  BY <1>1 DEF StartsOverIn
<1>7. SubmitsTyped'
  BY <1>2, <1>6 DEF SubmitsTyped
<1>8. /\ Opened'.overflow <=> ~NeverTooLong(Current(keys'))
      /\ ~Opened'.overflow => Opened'.line = Text(Current(keys'))
  BY <1>3, <1>4, <1>5
<1>9. after_cr' <=> AfterReturnIn(keys', Len(keys') + 1)
  BY ReturnKept
<1> QED BY <1>2, <1>7, <1>8, <1>9 DEF EditorInv, Current, FirstAfter, StartsBefore, StartsOverIn, IsEndIn, AfterReturnIn

LEMMA EmptyText == Text(<< >>) = << >> /\ NeverTooLong(<< >>)
<1>1. Text(<< >>) = << >>
  BY TextOfAppend, EmptySeq
<1>2. PICK none \in Seq(AllKeys) : none = << >> /\ Len(none) = 0
  BY EmptySeq
<1>3. PICK len \in Nat : len = 0 /\ Len(Text(none)) = len
  BY <1>1, <1>2, EmptySeq
<1>4. \A k \in 0 .. Len(none) : SubSeq(none, 1, k) = none
  <2>1. SubSeq(none, 1, 0) = << >>
    BY SubSeqEmpty
  <2> QED BY <1>2, <2>1
<1>5. NeverTooLong(none)
  <2>1. len <= N
    BY <1>3, EditorAssumption
  <2> HIDE DEF Text
  <2> QED BY <1>3, <1>4, <2>1 DEF NeverTooLong
<1> QED BY <1>1, <1>2, <1>5

\* A key that begins a line leaves an empty one open.
LEMMA BegunAnew ==
  ASSUME EditorInv, NEW b \in AllKeys, keys' = Append(keys, b),
         StartsOverIn(keys', Len(keys) + 1),
         line' \in Seq(Chars), Len(line') <= N, ready' \in BOOLEAN, overflow' \in BOOLEAN,
         after_cr' <=> b = "CR" \/ (b = "clear()" /\ after_cr),
         Opened'.overflow = FALSE, Opened'.line = << >>,
         SubmitsTyped'
  PROVE  EditorInv'
<1>1. PICK n \in Nat : n = Len(keys)
  BY DEF EditorInv
<1>2. /\ keys' \in Seq(AllKeys) /\ Current(keys') = << >>
  BY <1>1, KeyTyped
<1>3. Text(<< >>) = << >> /\ NeverTooLong(<< >>)
  BY EmptyText
<1>4. after_cr' <=> AfterReturnIn(keys', Len(keys') + 1)
  BY ReturnKept
<1> QED BY <1>2, <1>3, <1>4 DEF EditorInv, Current, FirstAfter, StartsBefore, StartsOverIn, IsEndIn, AfterReturnIn

LEMMA LineFacts ==
  ASSUME EditorInv
  PROVE  /\ Opened = [line |-> Opened.line, overflow |-> Opened.overflow, ready |-> FALSE]
         /\ Opened.line \in Seq(Chars) /\ Len(Opened.line) <= N /\ Opened.overflow \in BOOLEAN
         /\ ~Opened.overflow => Opened.line = Text(Current(keys))
BY OpenedIs DEF EditorInv

LEMMA EndKeeps ==
  ASSUME EditorInv, NEW b \in Keys, keys' = Append(keys, b),
         ~Swallowed(b), after_cr' = (b = "CR"), End(b)
  PROVE  EditorInv'
<1>1. PICK n \in Nat : n = Len(keys)
  BY DEF EditorInv
<1>2. b \in AllKeys /\ b # "clear()" /\ b \in Ends
  BY CharsAssumption DEF AllKeys, Keys, End, Ends
<1>3. /\ Len(keys') = n + 1 /\ keys'[n + 1] = b /\ keys' # << >>
      /\ AfterReturnIn(keys', n + 1) <=> after_cr
      /\ IsEnd(Len(keys))' <=> IsEndIn(keys', n + 1)
      /\ Typed(Len(keys))' = Current(keys)
  BY <1>1, <1>2, KeyTyped
<1>4. IsEndIn(keys', n + 1) /\ StartsOverIn(keys', n + 1)
  BY <1>2, <1>3 DEF IsEndIn, StartsOverIn, Ends, Swallowed
<1>5. /\ line' = Opened.line /\ overflow' = Opened.overflow /\ ready' = TRUE
      /\ event' = IF Opened.overflow THEN "Overflow" ELSE "Complete"
  BY LineFacts DEF End, Becomes, Returns
<1>6. Opened.overflow <=> ~NeverTooLong(Current(keys))
  BY DEF EditorInv
<1>7. SubmitsTyped'
  <2>1. SubmitsTyped' <=>
          /\ event' \in {"Complete", "Overflow"} <=> IsEnd(Len(keys))'
          /\ IsEnd(Len(keys))' =>
               IF NeverTooLong(Typed(Len(keys))')
               THEN event' = "Complete" /\ line' = Text(Typed(Len(keys))')
               ELSE event' = "Overflow"
    BY <1>3 DEF SubmitsTyped
  <2> QED BY <1>3, <1>4, <1>5, <1>6, <2>1, LineFacts
<1> QED BY <1>1, <1>2, <1>4, <1>5, <1>7, LineFacts, OpenedNext, BegunAnew

LEMMA KillKeeps ==
  ASSUME EditorInv, NEW b \in Kills \cup {"clear()"}, keys' = Append(keys, b),
         line' = << >>, overflow' = FALSE, ready' = FALSE,
         event' \notin {"Complete", "Overflow"},
         after_cr' <=> (b = "clear()" /\ after_cr)
  PROVE  EditorInv'
<1>1. PICK n \in Nat : n = Len(keys)
  BY DEF EditorInv
<1>2. b \in AllKeys /\ b # "CR" /\ b # "LF"
  BY DEF AllKeys, Keys, Kills
<1>3. /\ Len(keys') = n + 1 /\ keys'[n + 1] = b /\ keys' # << >>
      /\ IsEnd(Len(keys))' <=> IsEndIn(keys', n + 1)
  BY <1>1, <1>2, KeyTyped
<1>4. ~IsEndIn(keys', n + 1) /\ StartsOverIn(keys', n + 1)
  BY <1>2, <1>3 DEF IsEndIn, StartsOverIn
<1>5. SubmitsTyped'
  BY <1>3, <1>4 DEF SubmitsTyped
<1>6. line' \in Seq(Chars) /\ Len(line') <= N
  BY EmptySeq, EditorAssumption
<1> QED BY <1>1, <1>2, <1>4, <1>5, <1>6, OpenedNext, BegunAnew

\* A byte that neither ends nor kills a line is no start of one.
LEMMA NoStart ==
  ASSUME EditorInv, NEW b \in Keys, keys' = Append(keys, b),
         b \notin Ends \cup Kills \/ Swallowed(b)
  PROVE  b \in AllKeys /\ b # "clear()" /\ b # "CR" /\ ~StartsOverIn(keys', Len(keys) + 1)
<1>1. PICK n \in Nat : n = Len(keys)
  BY DEF EditorInv
<1>2. b \in AllKeys /\ b # "clear()"
  BY CharsAssumption DEF AllKeys, Keys, Ends, Kills
<1>3. keys'[n + 1] = b /\ (AfterReturnIn(keys', n + 1) <=> after_cr)
  BY <1>1, <1>2, KeyTyped
<1>4. b # "CR" /\ b \notin Kills /\ (b = "LF" => after_cr)
  BY DEF Ends, Kills, Swallowed
<1>5. ~StartsOverIn(keys', n + 1)
  BY <1>2, <1>3, <1>4 DEF StartsOverIn, IsEndIn
<1> QED BY <1>1, <1>2, <1>4, <1>5

\* A byte that changes no text.
LEMMA IdleKeeps ==
  ASSUME EditorInv, NEW b \in Keys, keys' = Append(keys, b),
         b \notin Ends \cup Kills \/ Swallowed(b), b \notin Chars,
         b = "BS" => Opened.overflow \/ Opened.line = << >>,
         event' = "None", after_cr' <=> b = "CR",
         line' \in Seq(Chars), Len(line') <= N, ready' \in BOOLEAN, overflow' \in BOOLEAN,
         Opened'.overflow = Opened.overflow, Opened'.line = Opened.line
  PROVE  EditorInv'
<1>1. b \in AllKeys /\ b # "clear()" /\ ~StartsOverIn(keys', Len(keys) + 1)
  BY NoStart
<1>2. PICK text : text = Typing(Text(Current(keys)), b)
  OBVIOUS
<1>3. ~Opened.overflow => text = Opened.line
  BY <1>2, LineFacts DEF Typing
<1>4. Opened'.overflow <=> Opened.overflow \/ ~(Len(text) <= N)
  BY <1>3, LineFacts
<1>5. ~Opened'.overflow => Opened'.line = text
  BY <1>3
<1> QED BY <1>1, <1>2, <1>4, <1>5, TypedOn

LEMMA StoreKeeps ==
  ASSUME EditorInv, NEW b \in Keys, keys' = Append(keys, b),
         ~Swallowed(b), after_cr' = (b = "CR"), Store(b)
  PROVE  EditorInv'
<1>1. b \in Chars /\ b \notin Ends \cup Kills /\ b # "BS"
  BY CharsAssumption DEF Store
<1>2. b \in AllKeys /\ b # "clear()" /\ b # "CR" /\ ~StartsOverIn(keys', Len(keys) + 1)
  BY <1>1, NoStart
<1>3. PICK text : text = Typing(Text(Current(keys)), b)
  OBVIOUS
<1>4. PICK was \in Seq(Chars), long \in BOOLEAN : was = Opened.line /\ long = Opened.overflow
  BY LineFacts
<1>5. /\ Opened = [line |-> was, overflow |-> long, ready |-> FALSE] /\ Len(was) <= N
      /\ ~long => was = Text(Current(keys))
  BY <1>4, LineFacts
<1>6. ~long => text = Append(was, b)
  BY <1>1, <1>3, <1>5 DEF Typing
<1>7. /\ Append(was, b) \in Seq(Chars) /\ Len(Append(was, b)) = Len(was) + 1 /\ Len(was) \in Nat
  BY <1>1, AppendProperties
<1>8. CASE Len(was) >= N \/ long
  <2>1. line' = was /\ overflow' = TRUE /\ ready' = FALSE /\ event' = "None"
    <3>1. Becomes([Opened EXCEPT !.overflow = TRUE]) /\ Returns("None")
      BY <1>4, <1>8 DEF Store
    <3>2. PICK now : now = [[line |-> was, overflow |-> long, ready |-> FALSE] EXCEPT !.overflow = TRUE]
      OBVIOUS
    <3>3. now.line = was /\ now.overflow = TRUE /\ now.ready = FALSE
      BY <3>2
    <3>4. Becomes(now)
      BY <1>5, <3>1, <3>2
    <3> QED BY <3>1, <3>3, <3>4 DEF Becomes, Returns
  <2>2. Opened'.overflow = TRUE
    BY <2>1, OpenedNext
  <2>3. long \/ ~(Len(text) <= N)
    <3>1. N \in Nat
      BY EditorAssumption
    <3> QED BY <1>6, <1>7, <1>8, <3>1
  <2>4. Opened'.overflow <=> Opened.overflow \/ ~(Len(text) <= N)
    BY <1>4, <2>2, <2>3
  <2>5. event' \notin {"Complete", "Overflow"}
    BY <2>1
  <2> QED BY <1>2, <1>3, <1>5, <2>1, <2>2, <2>4, <2>5, TypedOn
<1>9. CASE ~(Len(was) >= N) /\ ~long
  <2>1. line' = Append(was, b) /\ overflow' = FALSE /\ ready' = FALSE /\ event' = b
    <3>1. Becomes([Opened EXCEPT !.line = Append(@, b)]) /\ Returns(b)
      BY <1>4, <1>9 DEF Store
    <3>2. PICK now : now = [[line |-> was, overflow |-> long, ready |-> FALSE] EXCEPT !.line = Append(was, b)]
      OBVIOUS
    <3>3. now.line = Append(was, b) /\ now.overflow = long /\ now.ready = FALSE
      BY <3>2
    <3>4. Becomes(now)
      <4>1. Opened.line = was /\ Opened = [line |-> was, overflow |-> long, ready |-> FALSE]
        BY <1>4, <1>5
      <4> QED BY <3>1, <3>2, <4>1
    <3>5. event' = b
      BY <3>1 DEF Returns
    <3> QED BY <1>9, <3>3, <3>4, <3>5 DEF Becomes
  <2>2. Opened'.overflow = FALSE /\ Opened'.line = text
    BY <1>6, <1>9, <2>1, OpenedNext
  <2>3. Len(text) <= N
    <3>1. N \in Nat
      BY EditorAssumption
    <3> QED BY <1>6, <1>7, <1>9, <3>1
  <2>4. Opened'.overflow <=> Opened.overflow \/ ~(Len(text) <= N)
    BY <1>4, <1>9, <2>2, <2>3
  <2>5. event' \notin {"Complete", "Overflow"}
    BY <1>1, <2>1, CharsAssumption
  <2>6. line' \in Seq(Chars) /\ Len(line') <= N
    BY <1>6, <1>7, <1>9, <2>1, <2>3
  <2> QED BY <1>2, <1>3, <2>1, <2>2, <2>4, <2>5, <2>6, TypedOn
<1> QED BY <1>8, <1>9

LEMMA FrontIs ==
  ASSUME NEW S, NEW text \in Seq(S), text # << >>
  PROVE  Front(text) \in Seq(S) /\ Len(Front(text)) = Len(text) - 1 /\ Len(text) - 1 \in Nat
<1>1. PICK n \in Nat : n + 1 = Len(text)
  <2>1. Len(text) - 1 \in Nat /\ Len(text) - 1 + 1 = Len(text)
    BY EmptySeq
  <2> QED BY <2>1
<1>2. Front(text) = SubSeq(text, 1, n)
  <2>1. Len(text) - 1 = n
    BY <1>1
  <2> QED BY <2>1 DEF Front
<1>3. SubSeq(text, 1, n) \in Seq(S) /\ Len(SubSeq(text, 1, n)) = n
  <2>1. \A k \in 1 .. n : text[k] \in S
    BY <1>1, ElementOfSeq
  <2>2. n + 1 = 1 + n /\ 1 \in Nat
    OBVIOUS
  <2> QED BY <2>1, <2>2, PartIs
<1>4. Len(text) - 1 = n
  BY <1>1
<1> QED BY <1>2, <1>3, <1>4

LEMMA EraseKeeps ==
  ASSUME EditorInv, NEW b \in Keys, keys' = Append(keys, b),
         ~Swallowed(b), after_cr' = (b = "CR"), Erase(b)
  PROVE  EditorInv'
<1>1. b = "BS" /\ b \notin Chars /\ b \notin Ends \cup Kills
  BY CharsAssumption DEF Erase, Ends, Kills
<1>2. b \in AllKeys /\ b # "clear()" /\ b # "CR" /\ ~StartsOverIn(keys', Len(keys) + 1)
  BY <1>1, NoStart
<1>3. PICK text : text = Typing(Text(Current(keys)), b)
  OBVIOUS
<1>4. PICK was \in Seq(Chars), long \in BOOLEAN : was = Opened.line /\ long = Opened.overflow
  BY LineFacts
<1>5. /\ Opened = [line |-> was, overflow |-> long, ready |-> FALSE] /\ Len(was) <= N
      /\ ~long => was = Text(Current(keys))
  BY <1>4, LineFacts
<1>6. CASE ~long /\ was # << >>
  <2>1. line' = Front(was) /\ overflow' = FALSE /\ ready' = FALSE /\ event' = "Erase"
    BY <1>4, <1>5, <1>6 DEF Erase, Becomes, Returns
  <2>2. /\ Front(was) \in Seq(Chars) /\ Len(Front(was)) <= Len(was)
        /\ Len(Front(was)) \in Nat /\ Len(was) \in Nat
    <3>1. Front(was) \in Seq(Chars) /\ Len(Front(was)) = Len(was) - 1
      BY <1>6, FrontIs
    <3> QED BY <3>1
  <2>3. text = Front(was)
    BY <1>1, <1>3, <1>5, <1>6 DEF Typing
  <2>4. Len(text) <= N /\ Len(line') <= N
    <3>1. N \in Nat
      BY EditorAssumption
    <3> QED BY <1>5, <2>1, <2>2, <2>3, <3>1
  <2>5. Opened'.overflow = FALSE /\ Opened'.line = text
    BY <2>1, <2>3, OpenedNext
  <2>6. Opened'.overflow <=> Opened.overflow \/ ~(Len(text) <= N)
    BY <1>4, <1>6, <2>4, <2>5
  <2>7. event' \notin {"Complete", "Overflow"}
    BY <2>1
  <2> QED BY <1>2, <1>3, <2>1, <2>2, <2>4, <2>5, <2>6, <2>7, TypedOn
<1>7. CASE long \/ was = << >>
  <2>1. line' = was /\ overflow' = long /\ ready' = FALSE /\ event' = "None"
    <3>1. Becomes(Opened) /\ Returns("None")
      BY <1>4, <1>7 DEF Erase
    <3> QED BY <1>5, <3>1 DEF Becomes, Returns
  <2>2. Opened'.overflow = Opened.overflow /\ Opened'.line = Opened.line
    BY <1>4, <2>1, OpenedNext
  <2> QED BY <1>1, <1>4, <1>5, <1>7, <2>1, <2>2, IdleKeeps
<1> QED BY <1>6, <1>7

LEMMA IgnoreKeeps ==
  ASSUME EditorInv, NEW b \in Keys, keys' = Append(keys, b),
         ~Swallowed(b), after_cr' = (b = "CR"), Ignore(b)
  PROVE  EditorInv'
<1>1. b = "TAB" /\ b \notin Chars /\ b \notin Ends \cup Kills
  BY CharsAssumption DEF Ignore, Ends, Kills
<1>2. /\ line' = Opened.line /\ overflow' = Opened.overflow /\ ready' = FALSE /\ event' = "None"
  BY LineFacts DEF Ignore, Becomes, Returns
<1>3. Opened'.overflow = Opened.overflow /\ Opened'.line = Opened.line
  BY <1>2, OpenedNext
<1> QED BY <1>1, <1>2, <1>3, LineFacts, IdleKeeps

LEMMA SwallowKeeps ==
  ASSUME EditorInv, NEW b \in Keys, keys' = Append(keys, b), Swallow(b)
  PROVE  EditorInv'
<1>1. b = "LF" /\ b \notin Chars /\ Swallowed(b)
  BY CharsAssumption DEF Swallow, Swallowed, Ends
<1>2. UNCHANGED <<line, overflow, ready>> /\ event' = "None" /\ after_cr' = FALSE
  BY DEF Swallow, Returns
<1>3. Opened'.overflow = Opened.overflow /\ Opened'.line = Opened.line
  BY <1>2 DEF Opened
<1>4. line' \in Seq(Chars) /\ Len(line') <= N /\ ready' \in BOOLEAN /\ overflow' \in BOOLEAN
  BY <1>2 DEF EditorInv
<1> QED BY <1>1, <1>2, <1>3, <1>4, IdleKeeps

LEMMA KeyKeeps ==
  ASSUME EditorInv, NEW b \in Keys, Feed(b)
  PROVE  EditorInv'
<1>1. keys' = Append(keys, b)
  BY DEF Feed
<1>2. CASE Swallow(b)
  BY <1>1, <1>2, SwallowKeeps
<1>3. CASE ~Swallowed(b) /\ after_cr' = (b = "CR") /\ Kill(b)
  <2>1. b \in Kills \cup {"clear()"} /\ ~(b = "clear()") /\ b # "CR"
    BY <1>3 DEF Kill, Kills
  <2>2. /\ line' = << >> /\ overflow' = FALSE /\ ready' = FALSE
        /\ event' \notin {"Complete", "Overflow"}
    BY <1>3 DEF Kill, Becomes, Cleared, Returns
  <2>3. after_cr' <=> (b = "clear()" /\ after_cr)
    BY <1>3, <2>1
  <2> QED BY <1>1, <2>1, <2>2, <2>3, KillKeeps
<1>4. CASE ~Swallowed(b) /\ after_cr' = (b = "CR") /\ (End(b) \/ Erase(b) \/ Store(b) \/ Ignore(b))
  BY <1>1, <1>4, EndKeeps, EraseKeeps, StoreKeeps, IgnoreKeeps
<1> QED BY <1>2, <1>3, <1>4 DEF Feed

\* LineEditor submits what was typed: every line ends once, whole or refused, and is the text
\* of the keys since it began.
THEOREM LinesAsTyped == EditorSpec => []SubmitsTyped
<1>1. EditorInit => EditorInv
  <2> SUFFICES ASSUME EditorInit PROVE EditorInv
    OBVIOUS
  <2>1. PICK none \in Seq(AllKeys) : none = keys /\ none = << >> /\ Len(none) = 0
    BY EmptySeq DEF EditorInit
  <2>2. StartsBefore(none, 0) = {}
    BY DEF StartsBefore
  <2>3. Current(none) = << >>
    <3>1. FirstAfter(StartsBefore(none, 0)) = 1
      BY <2>2 DEF FirstAfter
    <3>2. SubSeq(none, 1, 0) = << >>
      BY SubSeqEmpty
    <3> QED BY <2>1, <3>1, <3>2 DEF Current
  <2>4. Text(<< >>) = << >> /\ NeverTooLong(<< >>)
    BY EmptyText
  <2>5. ~AfterReturnIn(none, 0 + 1)
    BY DEF AfterReturnIn
  <2>6. line \in Seq(Chars) /\ Len(line) <= N
    BY EmptySeq, EditorAssumption DEF EditorInit
  <2>7. Opened.line = << >> /\ Opened.overflow = FALSE
    BY DEF EditorInit, Opened
  <2>8. SubmitsTyped
    BY DEF SubmitsTyped, EditorInit
  <2> QED BY <2>1, <2>3, <2>4, <2>5, <2>6, <2>7, <2>8 DEF EditorInv, EditorInit
<1>2. EditorInv /\ [EditorNext]_console => EditorInv'
  <2> SUFFICES ASSUME EditorInv, [EditorNext]_console PROVE EditorInv'
    OBVIOUS
  <2>1. ASSUME NEW b \in Keys, Feed(b) PROVE EditorInv'
    BY <2>1, KeyKeeps
  <2>2. CASE Clear
    <3>1. /\ line' = << >> /\ overflow' = FALSE /\ ready' = FALSE
          /\ event' \notin {"Complete", "Overflow"} /\ after_cr' = after_cr
          /\ keys' = Append(keys, "clear()")
      BY <2>2 DEF Clear, Becomes, Cleared
    <3>2. PICK b \in Kills \cup {"clear()"} : b = "clear()"
      OBVIOUS
    <3> QED BY <3>1, <3>2, KillKeeps
  <2>3. CASE UNCHANGED console
    <3>1. UNCHANGED <<line, overflow, ready, after_cr, event, keys>>
      BY <2>3 DEF console, editor
    <3>2. Opened' = Opened
      BY <3>1 DEF Opened
    <3>3. Current(keys)' = Current(keys) /\ AfterReturnIn(keys, Len(keys) + 1)' = AfterReturnIn(keys, Len(keys) + 1)
      BY <3>1 DEF Current, FirstAfter, StartsBefore, StartsOverIn, IsEndIn, AfterReturnIn
    <3>4. IsEnd(Len(keys))' = IsEnd(Len(keys)) /\ Typed(Len(keys))' = Typed(Len(keys))
      BY <3>1 DEF IsEnd, AfterReturn, Typed, StartsOver
    <3>5. SubmitsTyped'
      BY <3>1, <3>4 DEF EditorInv, SubmitsTyped
    <3> HIDE DEF Current, AfterReturnIn
    <3> QED BY <3>1, <3>2, <3>3, <3>5 DEF EditorInv
  <2> QED BY <2>1, <2>2, <2>3 DEF EditorNext, Poll
<1>3. EditorInv => SubmitsTyped
  BY DEF EditorInv
<1> QED BY <1>1, <1>2, <1>3, PTL DEF EditorSpec

-----------------------------------------------------------------------------
(* The arena (Arena). *)

LEMMA Division ==
  ASSUME NEW n \in Int, NEW d \in Nat \ {0}
  PROVE  n \div d \in Int /\ n % d \in 0 .. d - 1 /\ n = d * (n \div d) + (n % d)
OBVIOUS

LEMMA ZeroRemainder ==
  ASSUME NEW q \in Int, NEW d \in Nat \ {0}
  PROVE  (d * q) % d = 0
OBVIOUS

LEMMA Ordered ==
  ASSUME NEW u \in Int, NEW v \in Int, NEW d \in Nat \ {0}, d * v > d * u - d
  PROVE  d * v >= d * u
<1>1. CASE v >= u
  BY <1>1
<1>2. CASE v <= u - 1
  BY <1>2
<1> QED BY <1>1, <1>2

LEMMA SumsBack ==
  ASSUME NEW a \in Int, NEW d \in Int, NEW m \in Int, NEW q \in Int, NEW r \in Int, NEW p \in Int,
         -a = d * m + r, r = d * q + p
  PROVE  a + p = d * (-m - q) /\ -m - q \in Int
<1>1. PICK e \in Int, f \in Int : e = d * m /\ f = d * q
  OBVIOUS
<1>2. a + p = -e - f
  BY <1>1
<1>3. d * (-m - q) = -e - f
  BY <1>1
<1> QED BY <1>2, <1>3

\* The padding leads to the next aligned address (arena.rs, wrapping_neg).
LEMMA PadAligns ==
  ASSUME NEW a \in Nat, NEW d \in Nat \ {0}, Space % d = 0
  PROVE  ((-a) % Space) % d \in 0 .. d - 1 /\ (a + (((-a) % Space) % d)) % d = 0
<1> USE ArenaAssumption
<1>1. PICK n \in Int : n = -a
  OBVIOUS
<1>2. PICK r \in Int : r = n % Space
  BY Division
<1>3. PICK q1 \in Int : n = Space * q1 + r
  BY <1>2, Division
<1>4. PICK p \in 0 .. d - 1 : p = r % d
  BY Division
<1>5. PICK q2 \in Int : r = d * q2 + p
  BY <1>4, Division
<1>6. PICK q3 \in Int : Space = d * q3
  <2>1. Space \div d \in Int /\ Space = d * (Space \div d) + (Space % d)
    BY Division
  <2>2. PICK q3 \in Int : q3 = Space \div d
    BY <2>1
  <2> QED BY <2>1, <2>2
<1>7. (a + p) % d = 0
  <2>1. PICK m \in Int : m = q3 * q1
    <3>1. q3 * q1 \in Int
      OBVIOUS
    <3> QED BY <3>1
  <2>2. Space * q1 = d * m
    BY <1>6, <2>1
  <2>3. -a = d * m + r
    BY <1>1, <1>3, <2>2
  <2>4. a + p = d * (-m - q2) /\ -m - q2 \in Int
    BY <1>5, <2>3, SumsBack
  <2> QED BY <2>4, ZeroRemainder
<1> QED BY <1>1, <1>2, <1>4, <1>7

\* Nothing aligned lies between an address and its padded one.
LEMMA PadLeast ==
  ASSUME NEW a \in Nat, NEW d \in Nat \ {0}, NEW p \in 0 .. d - 1, (a + p) % d = 0,
         NEW s \in Nat, s >= a, s % d = 0
  PROVE  s >= a + p
<1>1. PICK u \in Int : a + p = d * u
  <2>1. (a + p) \div d \in Int /\ a + p = d * ((a + p) \div d) + ((a + p) % d)
    BY Division
  <2>2. PICK u \in Int : u = (a + p) \div d
    BY <2>1
  <2> QED BY <2>1, <2>2
<1>2. PICK v \in Int : s = d * v
  <2>1. s \div d \in Int /\ s = d * (s \div d) + 0
    BY Division
  <2> QED BY <2>1
<1>3. s > a + p - d
  OBVIOUS
<1>4. d * v >= d * u
  <2>1. d * v > d * u - d
    BY <1>1, <1>2, <1>3
  <2> QED BY <2>1, Ordered
<1> QED BY <1>1, <1>2, <1>4

-----------------------------------------------------------------------------
Apart(b, c) == b.start + b.len <= c.start \/ c.start + c.len <= b.start

\* What was given out lies between the storage's begin and what is left, piece by piece.
ArenaInv ==
  /\ storage \in Storages
  /\ used \in Nat /\ used <= storage[2]
  /\ rest[1] = storage[1] + used /\ rest[2] = storage[2] - used
  /\ blocks \subseteq [start : Nat, len : Nat \ {0}, align : PowersOfTwo]
  /\ \A b \in blocks : /\ b.start % b.align = 0
                       /\ storage[1] <= b.start /\ b.start + b.len <= storage[1] + used
  /\ \A b, c \in blocks : b = c \/ Apart(b, c)

LEMMA StorageFacts ==
  ASSUME ArenaInv
  PROVE  /\ storage[1] \in Nat /\ storage[2] \in Nat /\ storage[1] + storage[2] <= Space
         /\ used \in 0 .. storage[2] /\ Space \in Nat \ {0}
         /\ rest[1] = storage[1] + used /\ rest[2] = storage[2] - used
BY ArenaAssumption DEF ArenaInv

\* A request's padding is less than its alignment and leads to an aligned address.
LEMMA PadFacts ==
  ASSUME ArenaInv, NEW align \in PowersOfTwo
  PROVE  Pad(align) \in 0 .. align - 1 /\ (rest[1] + Pad(align)) % align = 0
<1>1. PICK a \in Nat : a = rest[1]
  BY StorageFacts
<1>2. align \in Nat \ {0} /\ Space % align = 0
  BY SpaceAssumption, ArenaAssumption DEF PowersOfTwo
<1>3. ((-a) % Space) % align \in 0 .. align - 1 /\ (a + (((-a) % Space) % align)) % align = 0
  BY <1>2, PadAligns
<1> QED BY <1>1, <1>3 DEF Pad

\* What checked_add lets through is the plain sum.
LEMMA TakesIs ==
  ASSUME NEW len \in Nat, NEW align \in Nat \ {0}, Pad(align) \in 0 .. align - 1,
         Pad(align) + len < Space
  PROVE  Takes(len, align) = Pad(align) + len
<1>1. PICK s \in Nat : s = Pad(align) + len
  OBVIOUS
<1>2. s \in 0 .. Space - 1 /\ Space \in Nat \ {0}
  BY <1>1, ArenaAssumption
<1>3. s % Space = s
  BY <1>2
<1> QED BY <1>1, <1>3 DEF Takes

LEMMA GrantKeeps ==
  ASSUME ArenaInv, NEW len \in Sizes, NEW align \in Aligns, Grant(len, align)
  PROVE  ArenaInv'
<1> DEFINE new == [start |-> rest[1] + Pad(align), len |-> len, align |-> align]
<1>1. /\ storage[1] \in Nat /\ storage[2] \in Nat /\ used \in 0 .. storage[2]
      /\ rest[1] = storage[1] + used /\ rest[2] = storage[2] - used
  BY StorageFacts
<1>2. /\ align \in PowersOfTwo /\ len \in Nat \ {0} /\ Pad(align) + len <= rest[2]
      /\ blocks' = blocks \cup {new}
      /\ rest' = <<rest[1] + (Pad(align) + len), rest[2] - (Pad(align) + len)>>
      /\ used' = used + (Pad(align) + len) /\ storage' = storage
  <2>1. align \in PowersOfTwo /\ len \in Nat \ {0} /\ Pad(align) + len < Space
    BY ArenaAssumption DEF Grant, Servable
  <2>2. align \in Nat \ {0} /\ len \in Nat
    BY <2>1 DEF PowersOfTwo
  <2>3. Pad(align) \in 0 .. align - 1
    BY <2>1, PadFacts
  <2>4. Takes(len, align) = Pad(align) + len
    BY <2>1, <2>2, <2>3, TakesIs
  <2> QED BY <2>1, <2>4 DEF Grant, Servable
<1>3. Pad(align) \in 0 .. align - 1 /\ (rest[1] + Pad(align)) % align = 0
  BY <1>2, PadFacts
<1>4. PICK p \in Nat : p = Pad(align)
  <2>1. align \in Nat
    BY ArenaAssumption DEF PowersOfTwo
  <2> QED BY <1>3, <2>1
<1>5. /\ new.start = storage[1] + used + p /\ new.start \in Nat /\ new.len = len /\ new.align = align
      /\ new.start % align = 0
      /\ new \in [start : Nat, len : Nat \ {0}, align : PowersOfTwo]
  BY <1>1, <1>2, <1>3, <1>4
<1>6. /\ used' \in Nat /\ used' = used + p + len /\ used' <= storage[2]
      /\ rest'[1] = storage[1] + used' /\ rest'[2] = storage[2] - used'
  BY <1>1, <1>2, <1>4
<1>7. \A b \in blocks : /\ b.start \in Nat /\ b.len \in Nat /\ b.start % b.align = 0
                        /\ storage[1] <= b.start /\ b.start + b.len <= storage[1] + used
  BY DEF ArenaInv
<1> HIDE DEF new
<1>8. \A b \in blocks' : /\ b.start % b.align = 0
                         /\ storage[1] <= b.start /\ b.start + b.len <= storage[1] + used'
  <2> SUFFICES ASSUME NEW b \in blocks'
               PROVE  /\ b.start % b.align = 0
                      /\ storage[1] <= b.start /\ b.start + b.len <= storage[1] + used'
    OBVIOUS
  <2>1. CASE b = new
    BY <1>1, <1>2, <1>4, <1>5, <1>6, <2>1
  <2>2. CASE b \in blocks
    <3>1. /\ b.start \in Nat /\ b.len \in Nat /\ b.start % b.align = 0
          /\ storage[1] <= b.start /\ b.start + b.len <= storage[1] + used
      BY <1>7, <2>2
    <3>2. storage[1] + used <= storage[1] + used'
      BY <1>1, <1>2, <1>4, <1>6
    <3>3. PICK s \in Nat : s = b.start + b.len
      BY <3>1
    <3>4. s <= storage[1] + used'
      BY <1>1, <1>6, <3>1, <3>2, <3>3
    <3> QED BY <3>1, <3>3, <3>4
  <2> QED BY <1>2, <2>1, <2>2
<1>9. \A b, c \in blocks' : b = c \/ Apart(b, c)
  <2>1. \A b \in blocks : Apart(b, new) /\ Apart(new, b)
    <3> SUFFICES ASSUME NEW b \in blocks PROVE b.start + b.len <= new.start
      BY DEF Apart
    <3>1. b.start \in Nat /\ b.len \in Nat /\ b.start + b.len <= storage[1] + used
      BY <1>7
    <3> QED BY <1>1, <1>4, <1>5, <3>1
  <2> QED BY <1>2, <2>1 DEF ArenaInv
<1>10. blocks' \subseteq [start : Nat, len : Nat \ {0}, align : PowersOfTwo]
  BY <1>2, <1>5 DEF ArenaInv
<1> QED BY <1>2, <1>6, <1>8, <1>9, <1>10 DEF ArenaInv

LEMMA ArenaStep == ArenaInv /\ [ArenaNext]_arenaVars => ArenaInv'
<1> SUFFICES ASSUME ArenaInv, [ArenaNext]_arenaVars PROVE ArenaInv'
  OBVIOUS
<1>1. CASE UNCHANGED arenaVars
  BY <1>1 DEF arenaVars, ArenaInv
<1>2. ASSUME NEW len \in Sizes, NEW align \in Aligns, Grant(len, align)
      PROVE  ArenaInv'
  BY <1>2, GrantKeeps
<1> QED BY <1>1, <1>2 DEF ArenaNext, RefuseRequest

\* A request is served exactly if an aligned block of its length remains.
LEMMA ServedIfRoom ==
  ASSUME ArenaInv, NEW len \in Sizes \ {0}, NEW align \in PowersOfTwo
  PROVE  Servable(len, align) <=> Room(len, align)
<1>1. /\ storage[1] \in Nat /\ storage[2] \in Nat /\ storage[1] + storage[2] <= Space
      /\ used \in 0 .. storage[2] /\ Space \in Nat \ {0}
      /\ rest[1] = storage[1] + used /\ rest[2] = storage[2] - used
  BY StorageFacts
<1>2. PICK a \in Nat, left \in Nat : a = rest[1] /\ left = rest[2] /\ a + left <= Space
  <2>1. rest[1] \in Nat /\ rest[2] \in Nat /\ rest[1] + rest[2] <= Space
    BY <1>1
  <2> QED BY <2>1
<1>3. len \in 1 .. Space - 1 /\ align \in Nat \ {0}
  BY <1>1, ArenaAssumption DEF PowersOfTwo
<1>4. PICK p \in 0 .. align - 1 : p = Pad(align) /\ (a + p) % align = 0
  BY <1>2, PadFacts
<1>5. Servable(len, align) <=> p + len < Space /\ p + len <= left
  <2>1. p + len < Space => Takes(len, align) = p + len
    BY <1>3, <1>4, TakesIs
  <2> QED BY <1>2, <1>3, <1>4, <2>1 DEF Servable
<1>6. Room(len, align) <=> \E start \in a .. a + left - len : start % align = 0
  BY <1>2 DEF Room
<1>7. ASSUME p + len <= left PROVE Room(len, align)
  <2>1. a + p \in a .. a + left - len
    BY <1>3, <1>4, <1>7
  <2> QED BY <1>4, <1>6, <2>1
<1>8. ASSUME Room(len, align) PROVE p + len < Space /\ p + len <= left
  <2>1. PICK start \in a .. a + left - len : start % align = 0
    BY <1>6, <1>8
  <2>2. start \in Nat /\ start >= a
    BY <1>3, <2>1
  <2>3. start >= a + p
    BY <1>3, <1>4, <2>1, <2>2, PadLeast
  <2>4. p + len <= left
    BY <1>3, <1>4, <2>1, <2>3
  <2>5. p + len < Space
    <3>1. CASE a = 0
      <4>1. 0 % align = 0
        BY <1>3
      <4>2. a >= a + p
        <5>1. a % align = 0 /\ a >= a
          BY <3>1, <4>1
        <5> QED BY <1>3, <1>4, <5>1, PadLeast
      <4>3. p = 0
        BY <1>3, <1>4, <4>2
      <4> QED BY <1>1, <1>3, <4>3
    <3>2. CASE a # 0
      BY <1>1, <1>2, <1>3, <1>4, <2>4, <3>2
    <3> QED BY <3>1, <3>2
  <2> QED BY <2>4, <2>5
<1> QED BY <1>5, <1>7, <1>8

LEMMA ArenaSafe == ArenaInv => ArenaSound
<1> SUFFICES ASSUME ArenaInv PROVE ArenaSound
  OBVIOUS
<1>1. /\ storage[1] \in Nat /\ storage[2] \in Nat /\ used \in 0 .. storage[2]
      /\ rest[1] = storage[1] + used /\ rest[2] = storage[2] - used
  BY StorageFacts
<1>2. \A b \in blocks : /\ b.start \in Nat /\ b.len \in Nat \ {0} /\ b.start % b.align = 0
                        /\ storage[1] <= b.start /\ b.start + b.len <= storage[1] + used
  BY DEF ArenaInv
<1>3. ASSUME NEW b \in blocks
      PROVE  BlockOf(b) \subseteq BlockOf([start |-> storage[1], len |-> used])
  <2>1. BlockOf([start |-> storage[1], len |-> used]) = storage[1] .. storage[1] + used - 1
    BY DEF BlockOf
  <2> QED BY <1>1, <1>2, <2>1 DEF BlockOf
<1>4. ASSUME NEW b \in blocks, NEW c \in blocks, b # c
      PROVE  BlockOf(b) \cap BlockOf(c) = {}
  <2>1. Apart(b, c)
    BY <1>4 DEF ArenaInv
  <2> QED BY <1>2, <2>1 DEF Apart, BlockOf
<1>5. used + rest[2] = storage[2]
  BY <1>1
<1> QED BY <1>1, <1>2, <1>3, <1>4, <1>5, ServedIfRoom DEF ArenaSound

\* For every storage, whatever is asked: blocks are aligned, inside and apart, used and remaining
\* bytes add up, and no request is refused that an aligned block could serve, not even at the
\* end of the address space (arena.rs allocate).
THEOREM ArenaServesSoundly == ArenaSpec => []ArenaSound
<1>1. ArenaInit => ArenaInv
  <2> SUFFICES ASSUME ArenaInit PROVE ArenaInv
    OBVIOUS
  <2>1. storage \in Storages /\ rest = storage /\ used = 0 /\ blocks = {}
    BY DEF ArenaInit
  <2>2. storage[1] \in Nat /\ storage[2] \in Nat
    BY <2>1, ArenaAssumption
  <2> QED BY <2>1, <2>2 DEF ArenaInv
<1> QED BY <1>1, ArenaStep, ArenaSafe, PTL DEF ArenaSpec

-----------------------------------------------------------------------------
(* The bounded string (FixedString). *)

\* The recursion in the definition of FlattenSeq.
Flattens(f, seqs) ==
  f = [i \in 1 .. Len(seqs) |-> IF i = 1 THEN seqs[i] ELSE f[i - 1] \o seqs[i]]

\* f holds what the first m sequences flatten to.
Flat(f, seqs, m) ==
  \A i \in 1 .. m : f[i] = IF i = 1 THEN seqs[i] ELSE f[i - 1] \o seqs[i]

LEMMA FlattensUpTo ==
  ASSUME NEW X, NEW seqs \in Seq(Seq(X)), NEW n \in Nat, n <= Len(seqs)
  PROVE  \E f \in [1 .. n -> Seq(X)] : Flat(f, seqs, n)
<1> DEFINE T == {m \in Nat : m <= Len(seqs) => \E f \in [1 .. m -> Seq(X)] : Flat(f, seqs, m)}
<1>1. 0 \in T
  <2>1. [i \in 1 .. 0 |-> << >>] \in [1 .. 0 -> Seq(X)] /\ Flat([i \in 1 .. 0 |-> << >>], seqs, 0)
    BY DEF Flat
  <2> QED BY <2>1
<1>2. ASSUME NEW m \in T, m + 1 <= Len(seqs) PROVE m + 1 \in T
  <2>1. PICK f \in [1 .. m -> Seq(X)] : Flat(f, seqs, m)
    BY <1>2
  <2>2. m + 1 \in 1 .. Len(seqs) /\ seqs[m + 1] \in Seq(X)
    BY <1>2, ElementOfSeq
  <2>3. PICK last \in Seq(X) : last = IF m = 0 THEN seqs[m + 1] ELSE f[m] \o seqs[m + 1]
    <3>1. CASE m = 0
      BY <2>2, <3>1
    <3>2. CASE m # 0
      <4>1. f[m] \in Seq(X)
        BY <2>1, <3>2
      <4>2. f[m] \o seqs[m + 1] \in Seq(X)
        BY <2>2, <4>1, ConcatProperties
      <4> QED BY <3>2, <4>2
    <3> QED BY <3>1, <3>2
  <2> DEFINE g == [i \in 1 .. m + 1 |-> IF i = m + 1 THEN last ELSE f[i]]
  <2>4. g \in [1 .. m + 1 -> Seq(X)]
    BY <2>1
  <2>5. Flat(g, seqs, m + 1)
    <3> SUFFICES ASSUME NEW i \in 1 .. m + 1
                 PROVE  g[i] = IF i = 1 THEN seqs[i] ELSE g[i - 1] \o seqs[i]
      BY DEF Flat
    <3>1. CASE i = m + 1
      BY <2>3, <3>1
    <3>2. CASE i \in 1 .. m
      <4>1. g[i] = f[i] /\ (i # 1 => i - 1 \in 1 .. m + 1 /\ g[i - 1] = f[i - 1])
        BY <3>2
      <4>2. f[i] = IF i = 1 THEN seqs[i] ELSE f[i - 1] \o seqs[i]
        BY <2>1, <3>2 DEF Flat
      <4> HIDE DEF g
      <4> QED BY <4>1, <4>2
    <3> QED BY <3>1, <3>2
  <2> HIDE DEF g
  <2> QED BY <2>4, <2>5
<1>3. ASSUME NEW m \in T PROVE m + 1 \in T
  <2>1. CASE m + 1 <= Len(seqs)
    BY <1>2, <2>1
  <2>2. CASE ~(m + 1 <= Len(seqs))
    BY <2>2
  <2> QED BY <2>1, <2>2
<1>4. n \in T
  <2> HIDE DEF T
  <2>1. T \subseteq Nat
    BY DEF T
  <2> QED BY <1>1, <1>3, <2>1, Induction
<1> QED BY <1>4

LEMMA FlattensOnce ==
  ASSUME NEW seqs, NEW n \in Nat, Len(seqs) = n, NEW f, Flattens(f, seqs), NEW g, Flattens(g, seqs)
  PROVE  f = g
<1> DEFINE T == {m \in Nat : \A i \in 1 .. n : i <= m => f[i] = g[i]}
<1>1. 0 \in T
  OBVIOUS
<1>2. ASSUME NEW m \in T PROVE m + 1 \in T
  <2> SUFFICES ASSUME NEW i \in 1 .. n, i <= m + 1 PROVE f[i] = g[i]
    OBVIOUS
  <2>1. f[i] = (IF i = 1 THEN seqs[i] ELSE f[i - 1] \o seqs[i])
        /\ g[i] = IF i = 1 THEN seqs[i] ELSE g[i - 1] \o seqs[i]
    BY DEF Flattens
  <2>2. i # 1 => f[i - 1] = g[i - 1]
    OBVIOUS
  <2> QED BY <2>1, <2>2
<1>3. n \in T
  <2> HIDE DEF T
  <2>1. T \subseteq Nat
    BY DEF T
  <2> QED BY <1>1, <1>2, <2>1, Induction
<1>4. \A i \in 1 .. n : f[i] = g[i]
  BY <1>3
<1>5. f = [i \in 1 .. n |-> f[i]] /\ g = [i \in 1 .. n |-> g[i]]
  BY DEF Flattens
<1> QED BY <1>4, <1>5

\* What FlattenSeq computes, whatever it flattens.
LEMMA FlattenIs ==
  ASSUME NEW X, NEW seqs \in Seq(Seq(X)), Len(seqs) # 0,
         NEW f \in [1 .. Len(seqs) -> Seq(X)],
         Flat(f, seqs, Len(seqs))
  PROVE  FlattenSeq(seqs) = f[Len(seqs)]
<1>1. Flattens(f, seqs)
  BY DEF Flattens, Flat
<1>2. \A g : Flattens(g, seqs) => g = f
  BY <1>1, FlattensOnce
<1> QED BY <1>1, <1>2 DEF FlattenSeq, Flattens

LEMMA FlattenAppend ==
  ASSUME NEW X, NEW seqs \in Seq(Seq(X)), NEW s \in Seq(X)
  PROVE  /\ FlattenSeq(<< >>) = << >>
         /\ FlattenSeq(seqs) \in Seq(X)
         /\ FlattenSeq(Append(seqs, s)) = FlattenSeq(seqs) \o s
<1>1. FlattenSeq(<< >>) = << >>
  BY DEF FlattenSeq
<1>2. PICK n \in Nat : n = Len(seqs)
  OBVIOUS
<1>3. PICK longer \in Seq(Seq(X)) : longer = Append(seqs, s)
  BY AppendProperties
<1>4. Len(longer) = n + 1 /\ longer[n + 1] = s /\ \A i \in 1 .. n : longer[i] = seqs[i]
  BY <1>2, <1>3, AppendProperties
<1>5. PICK f \in [1 .. n + 1 -> Seq(X)] : Flat(f, longer, n + 1)
  <2>1. n + 1 \in Nat /\ n + 1 <= Len(longer)
    BY <1>4
  <2> QED BY <2>1, FlattensUpTo
<1>6. FlattenSeq(longer) = f[n + 1]
  <2>1. Len(longer) # 0 /\ f \in [1 .. Len(longer) -> Seq(X)] /\ Flat(f, longer, Len(longer))
    BY <1>4, <1>5
  <2> QED BY <1>4, <2>1, FlattenIs
<1>7. CASE n = 0
  <2>1. seqs = << >>
    BY <1>2, <1>7, EmptySeq
  <2>2. f[n + 1] = s
    BY <1>4, <1>5, <1>7 DEF Flat
  <2>3. << >> \o s = s /\ << >> \in Seq(X)
    BY ConcatEmptySeq, EmptySeq
  <2> QED BY <1>1, <1>3, <1>6, <2>1, <2>2, <2>3
<1>8. CASE n # 0
  <2> DEFINE g == [i \in 1 .. n |-> f[i]]
  <2>1. g \in [1 .. n -> Seq(X)]
    BY <1>5
  <2>2. Flat(g, seqs, n)
    <3> SUFFICES ASSUME NEW i \in 1 .. n
                 PROVE  g[i] = IF i = 1 THEN seqs[i] ELSE g[i - 1] \o seqs[i]
      BY DEF Flat
    <3>1. g[i] = f[i] /\ (i # 1 => g[i - 1] = f[i - 1]) /\ i \in 1 .. n + 1
      OBVIOUS
    <3>2. f[i] = IF i = 1 THEN longer[i] ELSE f[i - 1] \o longer[i]
      BY <1>5, <3>1 DEF Flat
    <3> HIDE DEF g
    <3> QED BY <1>4, <3>1, <3>2
  <2>3. FlattenSeq(seqs) = g[n]
    <3> HIDE DEF g
    <3> QED BY <1>2, <1>8, <2>1, <2>2, FlattenIs
  <2>4. f[n + 1] = f[n] \o s
    <3>1. n + 1 \in 1 .. n + 1 /\ n + 1 # 1 /\ (n + 1) - 1 = n
      BY <1>8
    <3>2. f[n + 1] = IF n + 1 = 1 THEN longer[n + 1] ELSE f[(n + 1) - 1] \o longer[n + 1]
      BY <1>5, <3>1 DEF Flat
    <3> QED BY <1>4, <3>1, <3>2
  <2>5. g[n] = f[n] /\ g[n] \in Seq(X)
    BY <1>8, <2>1
  <2> QED BY <1>1, <1>3, <1>6, <2>3, <2>4, <2>5
<1> QED BY <1>7, <1>8

-----------------------------------------------------------------------------
(* The bounded string (FixedString). *)

Letters == DOMAIN Width
Codes   == Letters \X (1 .. 4)
Pieces(chars) == [k \in DOMAIN chars |-> Encoded(chars[k])]

LEMMA EncodedIs ==
  ASSUME NEW c \in Letters
  PROVE  /\ Width[c] \in 1 .. 4 /\ Encoded(c) \in Seq(Codes) /\ Len(Encoded(c)) = Width[c]
         /\ \A k \in 1 .. Width[c] : Encoded(c)[k] = <<c, k>>
<1>1. Width[c] \in 1 .. 4
  BY StringAssumption DEF Letters
<1>2. PICK n \in 1 .. 4 : n = Width[c]
  BY <1>1
<1>3. Encoded(c) = [k \in 1 .. n |-> <<c, k>>]
  BY <1>2 DEF Encoded
<1>4. \A k \in 1 .. n : <<c, k>> \in Codes
  BY DEF Codes
<1>5. Encoded(c) \in [1 .. n -> Codes] /\ n \in Nat
  BY <1>3, <1>4
<1>6. Encoded(c) \in Seq(Codes) /\ Len(Encoded(c)) = n
  BY <1>5, SeqDef, LenProperties
<1> QED BY <1>1, <1>2, <1>3, <1>6

LEMMA PiecesAre ==
  ASSUME NEW chars \in Seq(Letters)
  PROVE  /\ Pieces(chars) \in Seq(Seq(Codes)) /\ Len(Pieces(chars)) = Len(chars)
         /\ \A k \in 1 .. Len(chars) : Pieces(chars)[k] = Encoded(chars[k])
<1>1. PICK n \in Nat : n = Len(chars) /\ DOMAIN chars = 1 .. n
  BY LenProperties
<1>2. \A k \in 1 .. n : chars[k] \in Letters /\ Encoded(chars[k]) \in Seq(Codes)
  BY <1>1, ElementOfSeq, EncodedIs
<1>3. Pieces(chars) \in [1 .. n -> Seq(Codes)]
  BY <1>1, <1>2 DEF Pieces
<1>4. Pieces(chars) \in Seq(Seq(Codes)) /\ Len(Pieces(chars)) = n
  BY <1>3, SeqDef, LenProperties
<1> QED BY <1>1, <1>4 DEF Pieces

LEMMA BytesAre ==
  ASSUME NEW chars \in Seq(Letters)
  PROVE  Bytes(<< >>) = << >> /\ Bytes(chars) \in Seq(Codes)
<1>1. Pieces(chars) \in Seq(Seq(Codes)) /\ << >> \in Seq(Codes)
  BY PiecesAre, EmptySeq
<1>2. FlattenSeq(<< >>) = << >> /\ FlattenSeq(Pieces(chars)) \in Seq(Codes)
  BY <1>1, FlattenAppend
<1>3. Pieces(<< >>) = << >>
  <2>1. << >> \in Seq(Letters) /\ Len(<< >>) = 0
    BY EmptySeq
  <2>2. Pieces(<< >>) \in Seq(Seq(Codes)) /\ Len(Pieces(<< >>)) = 0
    BY <2>1, PiecesAre
  <2> QED BY <2>2, EmptySeq
<1> QED BY <1>2, <1>3 DEF Bytes, Pieces

\* The bytes of a text with one more character.
LEMMA BytesOfAppend ==
  ASSUME NEW chars \in Seq(Letters), NEW c \in Letters
  PROVE  Bytes(Append(chars, c)) = Bytes(chars) \o Encoded(c)
<1>1. Pieces(chars) \in Seq(Seq(Codes)) /\ Encoded(c) \in Seq(Codes)
  BY PiecesAre, EncodedIs
<1>2. FlattenSeq(Append(Pieces(chars), Encoded(c))) = FlattenSeq(Pieces(chars)) \o Encoded(c)
  BY <1>1, FlattenAppend
<1>4. Pieces(Append(chars, c)) = Append(Pieces(chars), Encoded(c))
  <2>1. PICK n \in Nat : n = Len(chars)
    OBVIOUS
  <2>2. PICK more \in Seq(Letters) : more = Append(chars, c)
    BY AppendProperties
  <2>3. Len(more) = n + 1 /\ more[n + 1] = c /\ \A k \in 1 .. n : more[k] = chars[k]
    BY <2>1, <2>2, AppendProperties
  <2>4. PICK long \in Seq(Seq(Codes)) : long = Append(Pieces(chars), Encoded(c))
    BY <1>1, AppendProperties
  <2>5. /\ Len(long) = n + 1 /\ long[n + 1] = Encoded(c)
        /\ \A k \in 1 .. n : long[k] = Encoded(chars[k])
    BY <1>1, <2>1, <2>4, PiecesAre, AppendProperties
  <2>6. /\ Pieces(more) \in Seq(Seq(Codes)) /\ Len(Pieces(more)) = n + 1
        /\ \A k \in 1 .. n + 1 : Pieces(more)[k] = Encoded(more[k])
    BY <2>3, PiecesAre
  <2>7. ASSUME NEW k \in 1 .. n + 1 PROVE Pieces(more)[k] = long[k]
    <3>1. CASE k \in 1 .. n
      BY <2>3, <2>5, <2>6, <3>1
    <3>2. CASE k = n + 1
      BY <2>3, <2>5, <2>6, <3>2
    <3> QED BY <3>1, <3>2
  <2>8. Pieces(more) = long
    BY <2>5, <2>6, <2>7, SeqEqual
  <2> QED BY <2>2, <2>4, <2>8
<1> QED BY <1>2, <1>4 DEF Bytes, Pieces

LEMMA BytesOfConcat ==
  ASSUME NEW s \in Seq(Letters), NEW t \in Seq(Letters)
  PROVE  Bytes(t) \in Seq(Codes) /\ Bytes(s \o t) = Bytes(s) \o Bytes(t)
<1> DEFINE T == {m \in Nat : \A u \in Seq(Letters) : Len(u) = m =>
                    Bytes(u) \in Seq(Codes) /\ Bytes(s \o u) = Bytes(s) \o Bytes(u)}
<1>1. 0 \in T
  <2> SUFFICES ASSUME NEW u \in Seq(Letters), Len(u) = 0
               PROVE  Bytes(u) \in Seq(Codes) /\ Bytes(s \o u) = Bytes(s) \o Bytes(u)
    OBVIOUS
  <2>1. u = << >> /\ s \o u = s
    BY EmptySeq, ConcatEmptySeq
  <2>2. Bytes(<< >>) = << >> /\ Bytes(s) \in Seq(Codes)
    BY BytesAre
  <2> QED BY <2>1, <2>2, EmptySeq, ConcatEmptySeq
<1>2. ASSUME NEW m \in T PROVE m + 1 \in T
  <2> SUFFICES ASSUME NEW u \in Seq(Letters), Len(u) = m + 1
               PROVE  Bytes(u) \in Seq(Codes) /\ Bytes(s \o u) = Bytes(s) \o Bytes(u)
    OBVIOUS
  <2>1. PICK v \in Seq(Letters), c \in Letters : u = Append(v, c)
    <3>1. u # << >>
      BY EmptySeq
    <3> QED BY <3>1, SequenceEmptyOrAppend
  <2>2. Len(v) = m
    <3>1. Len(u) = Len(v) + 1 /\ Len(v) \in Nat
      BY <2>1, AppendProperties
    <3> QED BY <3>1
  <2>3. Bytes(v) \in Seq(Codes) /\ Bytes(s \o v) = Bytes(s) \o Bytes(v)
    BY <2>2
  <2>4. s \o v \in Seq(Letters) /\ Bytes(s) \in Seq(Codes) /\ Encoded(c) \in Seq(Codes)
    BY ConcatProperties, BytesAre, EncodedIs
  <2>5. s \o u = Append(s \o v, c)
    <3>1. <<c>> \in Seq(Letters) /\ u = v \o <<c>> /\ Append(s \o v, c) = (s \o v) \o <<c>>
      BY <2>1, <2>4, AppendIsConcat
    <3> QED BY <3>1, ConcatAssociative
  <2>6. Bytes(u) = Bytes(v) \o Encoded(c) /\ Bytes(s \o u) = Bytes(s \o v) \o Encoded(c)
    BY <2>1, <2>4, <2>5, BytesOfAppend
  <2>7. Bytes(u) \in Seq(Codes)
    BY <2>3, <2>4, <2>6, ConcatProperties
  <2>8. (Bytes(s) \o Bytes(v)) \o Encoded(c) = Bytes(s) \o (Bytes(v) \o Encoded(c))
    BY <2>3, <2>4, ConcatAssociative
  <2> QED BY <2>3, <2>6, <2>7, <2>8
<1>3. Len(t) \in T
  <2> HIDE DEF T
  <2>1. T \subseteq Nat /\ Len(t) \in Nat
    BY DEF T
  <2> QED BY <1>1, <1>2, <2>1, Induction
<1> QED BY <1>3

\* What the string holds is the bytes of its characters.
StringInv ==
  /\ length \in 0 .. Capacity
  /\ data \in [1 .. Capacity -> Codes \cup {Unset}]
  /\ content \in Seq(Letters)
  /\ StringWhole

LEMMA HeldFacts ==
  ASSUME StringInv
  PROVE  /\ Bytes(content) \in Seq(Codes) /\ Len(Bytes(content)) = length
         /\ \A k \in 1 .. length : data[k] = Bytes(content)[k]
<1>1. Capacity \in Nat /\ length \in 0 .. Capacity /\ data \in [1 .. Capacity -> Codes \cup {Unset}]
  BY StringAssumption DEF StringInv
<1>2. \A k \in 1 .. length : data[k] \in Codes \cup {Unset}
  BY <1>1
<1>3. /\ Len(SubSeq(data, 1, length)) = IF 1 <= length THEN length - 1 + 1 ELSE 0
      /\ \A k \in 1 .. length - 1 + 1 : SubSeq(data, 1, length)[k] = data[1 + k - 1]
  BY <1>1, <1>2, SubSeqProperties
<1>4. ASSUME NEW k \in 1 .. length PROVE SubSeq(data, 1, length)[k] = data[k]
  <2>1. k \in 1 .. length - 1 + 1 /\ 1 + k - 1 = k
    BY <1>1
  <2> QED BY <1>3, <2>1
<1>5. Bytes(content) \in Seq(Codes)
  BY BytesAre DEF StringInv
<1> QED BY <1>1, <1>3, <1>4, <1>5 DEF StringInv, StringWhole

\* A prefix of the array is the text whose bytes it holds.
LEMMA HoldsText ==
  ASSUME NEW n \in 0 .. Capacity, NEW d \in [1 .. Capacity -> Codes \cup {Unset}],
         NEW text \in Seq(Letters), Len(Bytes(text)) = n,
         \A k \in 1 .. n : d[k] = Bytes(text)[k]
  PROVE  SubSeq(d, 1, n) = Bytes(text)
<1>1. Capacity \in Nat /\ Bytes(text) \in Seq(Codes)
  BY StringAssumption, BytesAre
<1>2. \A k \in 1 .. n : d[k] \in Codes
  BY <1>1, ElementOfSeq
<1>3. /\ SubSeq(d, 1, n) \in Seq(Codes)
      /\ Len(SubSeq(d, 1, n)) = IF 1 <= n THEN n - 1 + 1 ELSE 0
      /\ \A k \in 1 .. n - 1 + 1 : SubSeq(d, 1, n)[k] = d[1 + k - 1]
  BY <1>1, <1>2, SubSeqProperties
<1>4. ASSUME NEW k \in 1 .. n PROVE SubSeq(d, 1, n)[k] = Bytes(text)[k]
  <2>1. k \in 1 .. n - 1 + 1 /\ 1 + k - 1 = k
    BY <1>1
  <2> QED BY <1>3, <2>1
<1>5. Len(SubSeq(d, 1, n)) = n
  BY <1>1, <1>3
<1> QED BY <1>1, <1>3, <1>4, <1>5, SeqEqual

LEMMA PushKeeps ==
  ASSUME StringInv, NEW chars \in Seq(Letters), PushStr(chars)
  PROVE  StringInv'
<1>1. PICK s \in Seq(Codes), n \in Nat : s = Bytes(chars) /\ n = Len(s)
  BY BytesAre
<1>2. /\ Capacity \in Nat /\ length \in Nat /\ n <= Capacity - length
      /\ content \in Seq(Letters) /\ content' = content \o chars /\ length' = length + n
  BY <1>1, StringAssumption DEF StringInv, PushStr, Write
<1>3. \A k \in 1 .. Capacity :
        data'[k] = IF k - length \in 1 .. n THEN s[k - length] ELSE data[k]
  BY <1>1, LenProperties DEF PushStr, Write
<1>4. data' \in [1 .. Capacity -> Codes \cup {Unset}]
  <2>1. \A k \in 1 .. n : s[k] \in Codes
    BY <1>1, ElementOfSeq
  <2>2. DOMAIN data' = 1 .. Capacity /\ data' = [k \in 1 .. Capacity |-> data'[k]]
    BY DEF PushStr, Write
  <2>3. \A k \in 1 .. Capacity : data[k] \in Codes \cup {Unset}
    BY DEF StringInv
  <2> QED BY <1>3, <2>1, <2>2, <2>3
<1>5. PICK text \in Seq(Letters) : text = content \o chars
  BY <1>2, ConcatProperties
<1>6. Bytes(text) = Bytes(content) \o s
  BY <1>1, <1>2, <1>5, BytesOfConcat
<1>7. /\ Bytes(content) \in Seq(Codes) /\ Len(Bytes(content)) = length
      /\ \A k \in 1 .. length : data[k] = Bytes(content)[k]
  BY HeldFacts
<1>8. /\ Len(Bytes(text)) = length + n
      /\ \A k \in 1 .. length + n :
           Bytes(text)[k] = IF k <= length THEN Bytes(content)[k] ELSE s[k - length]
  BY <1>1, <1>6, <1>7, ConcatProperties
<1>9. ASSUME NEW k \in 1 .. length + n PROVE data'[k] = Bytes(text)[k]
  <2>1. k \in 1 .. Capacity
    BY <1>2
  <2>2. CASE k <= length
    <3>1. ~(k - length \in 1 .. n) /\ k \in 1 .. length
      BY <1>2, <2>2
    <3> QED BY <1>3, <1>7, <1>8, <2>1, <2>2, <3>1
  <2>3. CASE ~(k <= length)
    <3>1. k - length \in 1 .. n
      BY <1>2, <2>3
    <3> QED BY <1>3, <1>8, <2>1, <2>3, <3>1
  <2> QED BY <2>2, <2>3
<1>10. length + n \in 0 .. Capacity
  BY <1>2
<1>11. SubSeq(data', 1, length + n) = Bytes(text)
  BY <1>4, <1>8, <1>9, <1>10, HoldsText
<1>12. StringWhole'
  BY <1>2, <1>5, <1>11 DEF StringWhole, Bytes, Encoded
<1> QED BY <1>2, <1>4, <1>5, <1>10, <1>12 DEF StringInv

\* The last first byte is the last character's.
LEMMA LastStartIs ==
  ASSUME StringInv, NEW front \in Seq(Letters), NEW c \in Letters, content = Append(front, c)
  PROVE  /\ Len(Bytes(front)) \in Nat /\ length = Len(Bytes(front)) + Width[c]
         /\ LastStart = Len(Bytes(front)) + 1 /\ data[LastStart][1] = c
<1>1. PICK w \in 1 .. 4 : w = Width[c]
  BY EncodedIs
<1>2. PICK m \in Nat : m = Len(Bytes(front))
  BY BytesAre
<1>3. Bytes(front) \in Seq(Codes) /\ Encoded(c) \in Seq(Codes) /\ Len(Encoded(c)) = w
      /\ (\A k \in 1 .. w : Encoded(c)[k] = <<c, k>>)
      /\ Bytes(content) = Bytes(front) \o Encoded(c)
  BY <1>1, BytesAre, EncodedIs, BytesOfAppend
<1>4. /\ Len(Bytes(content)) = m + w
      /\ \A k \in 1 .. m + w :
           Bytes(content)[k] = IF k <= m THEN Bytes(front)[k] ELSE Encoded(c)[k - m]
  BY <1>2, <1>3, ConcatProperties
<1>5. length = m + w /\ \A k \in 1 .. length : data[k] = Bytes(content)[k]
  BY <1>4, HeldFacts
<1>6. ASSUME NEW k \in m + 1 .. m + w PROVE data[k] = <<c, k - m>> /\ k \in 1 .. length
  <2>1. k \in 1 .. m + w /\ ~(k <= m) /\ k - m \in 1 .. w
    OBVIOUS
  <2> QED BY <1>3, <1>4, <1>5, <2>1
<1>7. ASSUME NEW k \in m + 1 .. m + w
      PROVE  data[k][1] = c /\ data[k][2] = k - m
  BY <1>6
<1>8. m + 1 \in 1 .. length /\ data[m + 1][2] = 1 /\ data[m + 1][1] = c
      /\ \A j \in m + 1 + 1 .. length : data[j][2] # 1
  <2>1. PICK k \in m + 1 .. m + w : k = m + 1 /\ k \in 1 .. m + w
    OBVIOUS
  <2>2. k - m = 1
    BY <2>1
  <2>3. data[k][1] = c /\ data[k][2] = k - m
    BY <1>7
  <2>4. \A j \in m + 1 + 1 .. length : data[j][2] # 1
    <3> SUFFICES ASSUME NEW j \in m + 1 + 1 .. length PROVE data[j][2] # 1
      OBVIOUS
    <3>1. j \in m + 1 .. m + w /\ j - m # 1
      BY <1>5
    <3>2. data[j][2] = j - m
      BY <1>7, <3>1
    <3> QED BY <3>1, <3>2
  <2> QED BY <1>5, <2>1, <2>2, <2>3, <2>4
<1>9. ASSUME NEW k \in 1 .. length, data[k][2] = 1, \A j \in k + 1 .. length : data[j][2] # 1
      PROVE  k = m + 1
  <2>1. ~(m + 1 \in k + 1 .. length)
    BY <1>8, <1>9
  <2>2. ~(k \in m + 1 + 1 .. length)
    BY <1>8, <1>9
  <2>3. length \in Nat
    BY <1>5
  <2> QED BY <1>8, <2>1, <2>2, <2>3
<1>10. LastStart = m + 1
  BY <1>8, <1>9 DEF LastStart
<1> QED BY <1>1, <1>2, <1>5, <1>8, <1>10

LEMMA PopKeeps ==
  ASSUME StringInv, PopChar
  PROVE  StringInv'
<1>1. content # << >>
  <2>1. Len(Bytes(content)) = length /\ length # 0
    BY HeldFacts DEF PopChar
  <2> QED BY <2>1, BytesAre, EmptySeq DEF StringInv
<1>2. PICK front \in Seq(Letters), c \in Letters : content = Append(front, c)
  BY <1>1, SequenceEmptyOrAppend DEF StringInv
<1>3. PICK m \in Nat : m = Len(Bytes(front))
  BY BytesAre
<1>4. /\ length = m + Width[c] /\ data[LastStart][1] = c /\ Width[c] \in 1 .. 4
  BY <1>2, <1>3, LastStartIs, EncodedIs
<1>5. length' = m /\ data' = data /\ m \in 0 .. Capacity
  BY <1>4, StringAssumption DEF PopChar, StringInv
<1>6. content' = front
  <2>1. Len(content) = Len(front) + 1 /\ content \in Seq(Letters)
        /\ \A k \in 1 .. Len(front) : content[k] = front[k]
    BY <1>2, AppendProperties
  <2>2. PICK n \in Nat : n = Len(front)
    OBVIOUS
  <2>3. Front(content) = SubSeq(content, 1, n)
    BY <2>1, <2>2 DEF Front
  <2>4. \A k \in 1 .. n : content[k] \in Letters
    BY <2>1, <2>2, ElementOfSeq
  <2>5. /\ SubSeq(content, 1, n) \in Seq(Letters)
        /\ Len(SubSeq(content, 1, n)) = IF 1 <= n THEN n - 1 + 1 ELSE 0
        /\ \A k \in 1 .. n - 1 + 1 : SubSeq(content, 1, n)[k] = content[1 + k - 1]
    BY <2>4, SubSeqProperties
  <2>6. ASSUME NEW k \in 1 .. n PROVE SubSeq(content, 1, n)[k] = front[k]
    <3>1. k \in 1 .. n - 1 + 1 /\ 1 + k - 1 = k
      OBVIOUS
    <3> QED BY <2>1, <2>2, <2>5, <3>1
  <2>7. Len(SubSeq(content, 1, n)) = n
    BY <2>5
  <2>8. SubSeq(content, 1, n) = front
    BY <2>2, <2>5, <2>6, <2>7, SeqEqual
  <2> QED BY <2>3, <2>8 DEF PopChar
<1>7. ASSUME NEW k \in 1 .. m PROVE data[k] = Bytes(front)[k]
  <2>1. k \in 1 .. length
    BY <1>4
  <2>2. data[k] = Bytes(content)[k]
    BY <2>1, HeldFacts
  <2>3. Bytes(content) = Bytes(front) \o Encoded(c)
    BY <1>2, BytesOfAppend
  <2>4. Bytes(front) \in Seq(Codes) /\ Encoded(c) \in Seq(Codes) /\ Len(Encoded(c)) \in Nat
    BY BytesAre, EncodedIs
  <2>5. k \in 1 .. m + Len(Encoded(c))
    BY <2>4
  <2>6. (Bytes(front) \o Encoded(c))[k] = Bytes(front)[k]
    BY <1>3, <2>4, <2>5, ConcatProperties
  <2> QED BY <2>2, <2>3, <2>6
<1>8. data \in [1 .. Capacity -> Codes \cup {Unset}]
  BY DEF StringInv
<1>9. SubSeq(data, 1, m) = Bytes(front)
  BY <1>3, <1>5, <1>7, <1>8, HoldsText
<1>10. StringWhole'
  BY <1>5, <1>6, <1>9 DEF StringWhole, Bytes, Encoded
<1> QED BY <1>5, <1>6, <1>8, <1>10 DEF StringInv

\* Whatever is pushed, refused and taken back, a string of any capacity holds whole
\* characters (fixed.rs push_str, pop, clear).
THEOREM StringHoldsCharacters == StringSpec => []StringWhole
<1>1. ASSUME NEW d, d \in [1 .. Capacity -> Codes \cup {Unset}]
      PROVE  SubSeq(d, 1, 0) = Bytes(<< >>)
  <2>1. Bytes(<< >>) = << >>
    BY BytesAre, EmptySeq
  <2>2. SubSeq(d, 1, 0) = << >>
    BY SubSeqEmpty, SMT
  <2> QED BY <2>1, <2>2
<1>2. Capacity \in Nat /\ << >> \in Seq(Letters)
  BY StringAssumption, EmptySeq
<1>3. StringInit => StringInv
  <2> SUFFICES ASSUME StringInit PROVE StringInv
    OBVIOUS
  <2>1. data \in [1 .. Capacity -> Codes \cup {Unset}] /\ length = 0 /\ content = << >>
    BY DEF StringInit
  <2> QED BY <1>1, <1>2, <2>1 DEF StringInv, StringWhole
<1>4. StringInv /\ [StringNext]_stringVars => StringInv'
  <2> SUFFICES ASSUME StringInv, [StringNext]_stringVars PROVE StringInv'
    OBVIOUS
  <2>1. ASSUME NEW chars \in BoundedSeq(DOMAIN Width, 2), PushStr(chars) PROVE StringInv'
    <3>1. chars \in Seq(Letters)
      <4>1. PICK m \in 0 .. 2 : chars \in [1 .. m -> DOMAIN Width]
        BY DEF BoundedSeq, SeqOf
      <4>2. m \in Nat
        OBVIOUS
      <4> QED BY <4>1, <4>2, SeqDef DEF Letters
    <3> QED BY <2>1, <3>1, PushKeeps
  <2>2. CASE ClearString
    <3>1. length' = 0 /\ content' = << >> /\ data' = data
      BY <2>2 DEF ClearString
    <3>2. data \in [1 .. Capacity -> Codes \cup {Unset}]
      BY DEF StringInv
    <3>3. SubSeq(data, 1, 0) = Bytes(<< >>)
      BY <1>1, <3>2
    <3>4. StringWhole'
      BY <3>1, <3>3 DEF StringWhole, Bytes, Encoded
    <3> QED BY <1>2, <3>1, <3>2, <3>4 DEF StringInv
  <2>3. CASE UNCHANGED stringVars
    BY <2>3 DEF stringVars, StringInv, StringWhole, Bytes, Encoded
  <2> QED BY <2>1, <2>2, <2>3, PopKeeps DEF StringNext
<1>5. StringInv => StringWhole
  BY DEF StringInv
<1> QED BY <1>3, <1>4, <1>5, PTL DEF StringSpec

\* Storage is handed out and filled soundly, for every storage and every text.
THEOREM StorageIsSound == ArenaSpec /\ StringSpec => []StorageSound
<1>1. ArenaSound /\ StringWhole => StorageSound
  BY DEF StorageSound
<1> QED BY <1>1, ArenaServesSoundly, StringHoldsCharacters, PTL

-----------------------------------------------------------------------------
(* Drawing (Raster): what is shown is what was plotted. *)

Plane == Int \X Int
IsSpot(p) == p[1] \in 0 .. SideX - 1 /\ p[2] \in 0 .. SideY - 1

LEMMA Sides ==
  SideX \in Nat /\ SideY \in Nat /\ IMax \in Nat /\ SideX > 0 /\ SideY > 0 /\ SideX <= IMax /\ SideY <= IMax
BY RasterAssumption

LEMMA OnSurface ==
  /\ \A p \in Surface : IsSpot(p) /\ p[1] \in Int /\ p[2] \in Int /\ p \in Plane /\ p = <<p[1], p[2]>>
  /\ \A p \in Plane : p \in Surface <=> IsSpot(p)
BY DEF Surface, IsSpot, Plane

LEMMA CastIs ==
  ASSUME NEW v \in Int, 0 <= v, v <= IMax
  PROVE  Cast(v) = v
<1>1. PICK m \in Nat : m = IMax
  BY Sides
<1>2. PICK w \in Nat : w = v + m + 1 /\ w < 2 * m + 2
  BY <1>1
<1>3. w % (2 * m + 2) = w
  BY <1>2
<1>4. (v - (-m - 1)) = w /\ m - (-m - 1) + 1 = 2 * m + 2 /\ w + (-m - 1) = v
  BY <1>1, <1>2
<1> QED BY <1>1, <1>3, <1>4 DEF Cast, IMin

\* On these surfaces a point is clipped exactly when it is off the surface.
LEMMA ClipsIs ==
  ASSUME NEW q \in Plane
  PROVE  /\ Clips(q) <=> q \in Surface
         /\ q \in Surface => <<Cast(q[1]), Cast(q[2])>> = q
<1>1. q[1] \in Int /\ q[2] \in Int /\ q = <<q[1], q[2]>>
  BY DEF Plane
<1>2. CASE q \in Surface
  <2>1. 0 <= q[1] /\ q[1] <= IMax /\ 0 <= q[2] /\ q[2] <= IMax
    BY <1>1, <1>2, OnSurface, Sides DEF IsSpot
  <2>2. Cast(q[1]) = q[1] /\ Cast(q[2]) = q[2]
    BY <1>1, <2>1, CastIs
  <2> QED BY <1>1, <1>2, <2>1, <2>2 DEF Clips
<1>3. CASE q \notin Surface
  BY <1>3 DEF Clips
<1> QED BY <1>2, <1>3

\* Plotting shows the points plotted, and leaves the others.
LEMMA PlotShows ==
  ASSUME NEW points, points \subseteq Plane, Shows(plotted), Plot(points)
  PROVE  Shows(plotted)'
<1>1. /\ plotted' = plotted \cup points
      /\ surface' = [p \in Surface |->
           IF \E q \in points : Clips(q) /\ p = <<Cast(q[1]), Cast(q[2])>> THEN Ink ELSE surface[p]]
  BY DEF Plot
<1>2. ASSUME NEW p \in Surface
      PROVE  (\E q \in points : Clips(q) /\ p = <<Cast(q[1]), Cast(q[2])>>) <=> p \in points
  <2>1. ASSUME NEW q \in points, Clips(q), p = <<Cast(q[1]), Cast(q[2])>> PROVE p \in points
    BY <2>1, ClipsIs
  <2>2. ASSUME p \in points PROVE Clips(p) /\ p = <<Cast(p[1]), Cast(p[2])>>
    BY <2>2, ClipsIs
  <2> QED BY <2>1, <2>2
<1>3. ASSUME NEW p \in Surface PROVE surface'[p] = IF p \in plotted' THEN Ink ELSE Index(p)
  <2>1. surface'[p] = IF p \in points THEN Ink ELSE surface[p]
    BY <1>1, <1>2
  <2>2. surface[p] = IF p \in plotted THEN Ink ELSE Index(p)
    BY DEF Shows
  <2> QED BY <1>1, <2>1, <2>2
<1> QED BY <1>3 DEF Shows

LEMMA SameShape ==
  ASSUME NEW shape, Shows(plotted), \A p \in Surface : p \in plotted <=> p \in shape
  PROVE  Shows(shape)
BY DEF Shows

\* A step along a side: from o towards e.
Along(o, e, a) == IF o < e THEN o + a ELSE o - a

LEMMA AlongIs ==
  ASSUME NEW o \in Int, NEW e \in Int, NEW a \in Nat, a <= AbsOf(e - o)
  PROVE  /\ Along(o, e, a) \in Int /\ AbsOf(Along(o, e, a) - o) = a /\ Between(Along(o, e, a), o, e)
         /\ Along(o, e, a) = e <=> a = AbsOf(e - o)
         /\ Along(o, e, a + 1) = Along(o, e, a) + (IF o < e THEN 1 ELSE -1)
         /\ AbsOf(e - o) \in Nat /\ Along(o, e, 0) = o
<1>1. CASE o < e
  <2>1. AbsOf(e - o) = e - o /\ Along(o, e, a) = o + a /\ MinOf(o, e) = o /\ MaxOf(o, e) = e
    BY <1>1 DEF AbsOf, Along, MinOf, MaxOf
  <2>2. AbsOf(o + a - o) = a
    BY DEF AbsOf
  <2> QED BY <1>1, <2>1, <2>2 DEF Between, Along
<1>2. CASE ~ (o < e)
  <2>1. AbsOf(e - o) = o - e /\ Along(o, e, a) = o - a /\ MinOf(o, e) = e /\ MaxOf(o, e) = o
    BY <1>2 DEF AbsOf, Along, MinOf, MaxOf
  <2>2. AbsOf(o - a - o) = a
    BY DEF AbsOf
  <2> QED BY <1>2, <2>1, <2>2 DEF Between, Along
<1> QED BY <1>1, <1>2

(* A line: the shorter side's rounding error stays within half a pixel of the longer side. *)

\* The error after a steps along the longer side and b along the shorter.
Fault(longer, shorter, a, b) == b * longer - a * shorter
InHalf(longer, f) == 2 * f <= longer /\ -longer <= 2 * f

LEMMA ShortOfEnd ==
  ASSUME NEW m \in Nat, NEW n \in Nat, n <= m, NEW a \in 0 .. m, NEW b \in 0 .. n,
         InHalf(m, Fault(m, n, a, b)), ~(a = m /\ b = n)
  PROVE  a < m
<1> SUFFICES ASSUME a = m PROVE FALSE
  OBVIOUS
<1>1. PICK d \in Nat : n = b + d
  <2>1. n - b \in Nat /\ n = b + (n - b)
    OBVIOUS
  <2> QED BY <2>1
<1>2. d > 0
  BY <1>1
<1>3. Fault(m, n, a, b) = -(d * m)
  BY <1>1 DEF Fault
<1>4. d * m >= m
  BY <1>2
<1>5. d * m \in Nat
  OBVIOUS
<1>6. 2 * (-(d * m)) >= -m
  BY <1>3 DEF InHalf
<1>7. m = 0
  BY <1>4, <1>5, <1>6
<1> QED BY <1>7, <1>2, <1>1

LEMMA KeepsNear ==
  ASSUME NEW m \in Nat, NEW n \in Nat, n <= m, NEW a \in 0 .. m, NEW b \in 0 .. n, a < m,
         NEW f \in Int, f = Fault(m, n, a, b), InHalf(m, f), NEW s \in Int, s = f + m - n
  PROVE  /\ 2 * s >= -n
         /\ 2 * s <= m => /\ b + 1 <= n /\ InHalf(m, Fault(m, n, a + 1, b + 1))
                          /\ s - n + m = Fault(m, n, a + 1, b + 1) + m - n
         /\ ~(2 * s <= m) => /\ InHalf(m, Fault(m, n, a + 1, b))
                             /\ s - n = Fault(m, n, a + 1, b) + m - n
<1>1. PICK p \in Int, q \in Int : p = b * m /\ q = a * n
  OBVIOUS
<1>2. f = p - q
  BY <1>1 DEF Fault
<1>3. Fault(m, n, a + 1, b + 1) = p + m - q - n
  BY <1>1 DEF Fault
<1>4. Fault(m, n, a + 1, b) = p - q - n
  BY <1>1 DEF Fault
<1>5. 2 * s >= -n
  BY <1>2 DEF InHalf
<1>6. ASSUME 2 * s <= m PROVE InHalf(m, p + m - q - n)
  BY <1>2, <1>6 DEF InHalf
<1>7. ASSUME ~(2 * s <= m) PROVE InHalf(m, p - q - n)
  BY <1>2, <1>7 DEF InHalf
<1>8. ASSUME 2 * s <= m PROVE b + 1 <= n
  <2> SUFFICES ASSUME b = n PROVE FALSE
    OBVIOUS
  <2>1. PICK g \in Nat : m = a + g /\ g > 0
    <3>1. m - a \in Nat /\ m - a > 0
      OBVIOUS
    <3> QED BY <3>1
  <2>2. p - q = n * g
    BY <1>1, <2>1
  <2>3. n * g \in Nat
    OBVIOUS
  <2>4. n * g >= n
    BY <2>1
  <2>5. 2 * (n * g) + 2 * m - 2 * n <= m
    BY <1>2, <1>8, <2>2, <2>3
  <2> QED BY <2>1, <2>3, <2>4, <2>5
<1> QED BY <1>2, <1>3, <1>4, <1>5, <1>6, <1>7, <1>8

\* Points of the line, one for each of the first n steps along its longer side.
LongCoord(p) == IF Dx >= Dy THEN p[1] ELSE p[2]
Reach(p) == IF Dx >= Dy THEN AbsOf(p[1] - begun.x) ELSE AbsOf(p[2] - begun.y)
OnLine(p) == NearLine(p) /\ Between(p[1], begun.x, begun.x1) /\ Between(p[2], begun.y, begun.y1)
Coords(points) == {LongCoord(p) : p \in points}
HasCount(S, n) == IsFiniteSet(S) /\ Cardinality(S) = n
Traced(points, n) ==
  /\ points \subseteq Plane
  /\ \A p \in points : OnLine(p) /\ Reach(p) \in 0 .. n - 1
  /\ HasCount(points, n) /\ HasCount(Coords(points), n)

LEMMA CountGrows ==
  ASSUME NEW S, NEW n \in Nat, HasCount(S, n), NEW e, e \notin S
  PROVE  HasCount(S \cup {e}, n + 1)
BY FS_AddElement DEF HasCount

LEMMA TracedNone == Traced({}, 0)
<1>1. Coords({}) = {}
  BY DEF Coords
<1> QED BY <1>1, FS_EmptySet DEF Traced, HasCount

LEMMA TracedMore ==
  ASSUME NEW points, NEW n \in Nat, Traced(points, n), NEW p \in Plane, OnLine(p), Reach(p) = n
  PROVE  Traced(points \cup {p}, n + 1)
<1>1. p \notin points
  BY DEF Traced
<1>2. LongCoord(p) \notin Coords(points)
  <2> SUFFICES ASSUME NEW q \in points, LongCoord(q) = LongCoord(p) PROVE FALSE
    BY DEF Coords
  <2>1. Reach(q) = Reach(p)
    BY DEF LongCoord, Reach
  <2> QED BY <2>1 DEF Traced
<1>3. Coords(points \cup {p}) = Coords(points) \cup {LongCoord(p)}
  BY DEF Coords
<1>4. HasCount(points \cup {p}, n + 1) /\ HasCount(Coords(points \cup {p}), n + 1)
  <2>1. HasCount(points, n) /\ HasCount(Coords(points), n)
    BY DEF Traced
  <2>2. HasCount(points \cup {p}, n + 1)
    BY <1>1, <2>1, CountGrows
  <2>3. HasCount(Coords(points) \cup {LongCoord(p)}, n + 1)
    BY <1>2, <2>1, CountGrows
  <2> QED BY <1>3, <2>2, <2>3
<1>5. ASSUME NEW q \in points \cup {p} PROVE OnLine(q) /\ Reach(q) \in 0 .. n
  BY DEF Traced
<1>6. n + 1 - 1 = n
  OBVIOUS
<1> QED BY <1>4, <1>5, <1>6 DEF Traced

LineStart == <<begun.x, begun.y>>
LineEnd == <<begun.x1, begun.y1>>

\* The line is drawn up to a columns and b rows from its start.
LineAt(a, b) ==
  /\ px = Along(begun.x, begun.x1, a) /\ py = Along(begun.y, begun.y1, b)
  /\ slope = b * Dx - a * Dy + Dx - Dy
  /\ IF Dx >= Dy THEN InHalf(Dx, Fault(Dx, Dy, a, b)) ELSE InHalf(Dy, Fault(Dy, Dx, b, a))
  /\ Traced(plotted, IF Dx >= Dy THEN a ELSE b)
  /\ LineStart \in plotted \/ (a = 0 /\ b = 0)

LineInv == begun.op = "line" =>
  /\ drawn => LineSound
  /\ ~drawn => \E a \in 0 .. Dx, b \in 0 .. Dy : LineAt(a, b)

LEMMA LineTypes ==
  ASSUME begun \in Drawings, begun.op = "line"
  PROVE  /\ begun.x \in Int /\ begun.y \in Int /\ begun.x1 \in Int /\ begun.y1 \in Int
         /\ Dx \in Nat /\ Dy \in Nat
BY RasterAssumption DEF IMin, Dx, Dy, AbsOf

\* The point of a column and a row close to each other.
LEMMA LinePoint ==
  ASSUME begun \in Drawings, begun.op = "line", NEW a \in 0 .. Dx, NEW b \in 0 .. Dy, LineAt(a, b)
  PROVE  /\ <<px, py>> \in Plane /\ OnLine(<<px, py>>)
         /\ Reach(<<px, py>>) = IF Dx >= Dy THEN a ELSE b
         /\ (px = begun.x1 /\ py = begun.y1) <=> (a = Dx /\ b = Dy)
         /\ (a = 0 /\ b = 0) => <<px, py>> = LineStart
<1>1. /\ begun.x \in Int /\ begun.y \in Int /\ begun.x1 \in Int /\ begun.y1 \in Int
      /\ Dx \in Nat /\ Dy \in Nat
  BY LineTypes
<1>2. /\ px \in Int /\ AbsOf(px - begun.x) = a /\ Between(px, begun.x, begun.x1)
      /\ px = begun.x1 <=> a = Dx
      /\ a = 0 => px = begun.x
  BY <1>1, AlongIs DEF LineAt, Dx
<1>3. /\ py \in Int /\ AbsOf(py - begun.y) = b /\ Between(py, begun.y, begun.y1)
      /\ py = begun.y1 <=> b = Dy
      /\ b = 0 => py = begun.y
  BY <1>1, AlongIs DEF LineAt, Dy
<1>4. NearLine(<<px, py>>)
  <2>1. PICK p \in Int, q \in Int : p = b * Dx /\ q = a * Dy
    BY <1>1
  <2>2. CASE Dx >= Dy
    <3>1. 2 * (p - q) <= Dx /\ -Dx <= 2 * (p - q)
      BY <2>1, <2>2 DEF LineAt, InHalf, Fault
    <3>2. 2 * AbsOf(p - q) <= Dx
      BY <1>1, <3>1 DEF AbsOf
    <3> QED BY <1>2, <1>3, <2>1, <2>2, <3>2 DEF NearLine
  <2>3. CASE ~(Dx >= Dy)
    <3>1. 2 * (q - p) <= Dy /\ -Dy <= 2 * (q - p)
      BY <2>1, <2>3 DEF LineAt, InHalf, Fault
    <3>2. 2 * AbsOf(q - p) <= Dy
      BY <1>1, <3>1 DEF AbsOf
    <3> QED BY <1>2, <1>3, <2>1, <2>3, <3>2 DEF NearLine
  <2> QED BY <2>2, <2>3
<1> QED BY <1>1, <1>2, <1>3, <1>4 DEF Plane, OnLine, Reach, LineStart

LEMMA TracedStays ==
  ASSUME begun' = begun, NEW n, Traced(plotted', n)
  PROVE  Traced(plotted, n)'
<1>1. Dx' = Dx /\ Dy' = Dy
  BY DEF Dx, Dy
<1>2. Coords(plotted)' = Coords(plotted')
  BY <1>1 DEF Coords, LongCoord
<1>3. ASSUME NEW p \in plotted' PROVE OnLine(p)' /\ Reach(p)' \in 0 .. n - 1
  <2>1. OnLine(p) /\ Reach(p) \in 0 .. n - 1
    BY DEF Traced
  <2> QED BY <1>1, <2>1 DEF OnLine, NearLine, Reach
<1> QED BY <1>2, <1>3 DEF Traced

\* A turn of line.
LEMMA LineTurnKeeps ==
  ASSUME begun \in Drawings, LineInv, LineTurn
  PROVE  LineInv'
<1>1. begun.op = "line" /\ ~drawn /\ begun' = begun /\ begun'.op = "line" /\ Dx' = Dx /\ Dy' = Dy
  BY DEF LineTurn, Drawing, Dx, Dy
<1>2. PICK a \in 0 .. Dx, b \in 0 .. Dy : LineAt(a, b)
  BY <1>1 DEF LineInv
<1>3. /\ begun.x \in Int /\ begun.y \in Int /\ begun.x1 \in Int /\ begun.y1 \in Int
      /\ Dx \in Nat /\ Dy \in Nat
  BY <1>1, LineTypes
<1>4. plotted' = plotted \cup {<<px, py>>}
  BY DEF LineTurn, Plot
<1>5. PICK n \in Nat : n = IF Dx >= Dy THEN a ELSE b
  BY <1>3
<1>6. /\ <<px, py>> \in Plane /\ OnLine(<<px, py>>) /\ Reach(<<px, py>>) = n
      /\ (px = begun.x1 /\ py = begun.y1) <=> (a = Dx /\ b = Dy)
      /\ (a = 0 /\ b = 0) => <<px, py>> = LineStart
  BY <1>1, <1>2, <1>5, LinePoint
<1>7. Traced(plotted', n + 1)
  <2>1. Traced(plotted, n)
    BY <1>2, <1>5 DEF LineAt
  <2> QED BY <1>4, <1>6, <2>1, TracedMore
<1>8. LineStart \in plotted'
  BY <1>2, <1>4, <1>6 DEF LineAt
<1>9. CASE px = begun.x1 /\ py = begun.y1
  <2>1. drawn'
    BY <1>9 DEF LineTurn
  <2>2. n = MaxOf(Dx, Dy)
    BY <1>3, <1>5, <1>6, <1>9 DEF MaxOf
  <2>3. LineStart \in plotted' /\ LineEnd \in plotted'
    BY <1>4, <1>8, <1>9 DEF LineEnd
  <2>4. Cardinality(plotted') = n + 1 /\ Cardinality(Coords(plotted')) = n + 1
    BY <1>7 DEF Traced, HasCount
  <2>5. \A p \in plotted' : OnLine(p)
    BY <1>7 DEF Traced
  <2>6. LineSound'
    BY <1>1, <2>2, <2>3, <2>4, <2>5
       DEF LineSound, LineStart, LineEnd, Coords, LongCoord, OnLine, NearLine
  <2> QED BY <1>1, <2>1, <2>6 DEF LineInv
<1>10. CASE ~(px = begun.x1 /\ py = begun.y1)
  <2>1. ~drawn'
    BY <1>1, <1>10 DEF LineTurn
  <2>2. /\ StepsRight <=> 2 * slope >= -Dy
        /\ StepsDown <=> 2 * slope <= Dx
    BY DEF StepsRight, StepsDown, Dx, Dy
  <2>3. /\ px' = IF StepsRight THEN px + (IF begun.x < begun.x1 THEN 1 ELSE -1) ELSE px
        /\ py' = IF StepsDown THEN py + (IF begun.y < begun.y1 THEN 1 ELSE -1) ELSE py
        /\ slope' = slope + (IF StepsRight THEN -Dy ELSE 0) + (IF StepsDown THEN Dx ELSE 0)
    BY <1>10 DEF LineTurn, Dx, Dy
  <2>4. /\ a + 1 <= Dx => Along(begun.x, begun.x1, a + 1) = px + (IF begun.x < begun.x1 THEN 1 ELSE -1)
        /\ b + 1 <= Dy => Along(begun.y, begun.y1, b + 1) = py + (IF begun.y < begun.y1 THEN 1 ELSE -1)
        /\ px = Along(begun.x, begun.x1, a) /\ py = Along(begun.y, begun.y1, b)
    <3>1. px = Along(begun.x, begun.x1, a) /\ py = Along(begun.y, begun.y1, b)
      BY <1>2 DEF LineAt
    <3>2. a \in Nat /\ a <= AbsOf(begun.x1 - begun.x) /\ b \in Nat /\ b <= AbsOf(begun.y1 - begun.y)
      BY <1>3 DEF Dx, Dy
    <3>3. /\ Along(begun.x, begun.x1, a + 1) = Along(begun.x, begun.x1, a) + (IF begun.x < begun.x1 THEN 1 ELSE -1)
          /\ Along(begun.y, begun.y1, b + 1) = Along(begun.y, begun.y1, b) + (IF begun.y < begun.y1 THEN 1 ELSE -1)
      BY <1>3, <3>2, AlongIs
    <3> QED BY <3>1, <3>3
  <2>5. PICK p \in Int, q \in Int : p = b * Dx /\ q = a * Dy
    BY <1>3
  <2>6. slope = p - q + Dx - Dy /\ slope \in Int
    BY <1>2, <1>3, <2>5 DEF LineAt
  <2>7. ASSUME NEW c \in 0 .. Dx, NEW d \in 0 .. Dy,
               px' = Along(begun.x, begun.x1, c), py' = Along(begun.y, begun.y1, d),
               slope' = d * Dx - c * Dy + Dx - Dy,
               IF Dx >= Dy THEN InHalf(Dx, Fault(Dx, Dy, c, d)) ELSE InHalf(Dy, Fault(Dy, Dx, d, c)),
               n + 1 = IF Dx >= Dy THEN c ELSE d
        PROVE  LineInv'
    <3>1. Traced(plotted, IF Dx >= Dy THEN c ELSE d)'
      BY <1>1, <1>7, <2>7, TracedStays
    <3>2. LineAt(c, d)'
      BY <1>1, <1>8, <2>7, <3>1 DEF LineAt, LineStart
    <3> QED BY <1>1, <2>1, <3>2 DEF LineInv
  <2>8. CASE Dx >= Dy
    <3>1. InHalf(Dx, Fault(Dx, Dy, a, b)) /\ Fault(Dx, Dy, a, b) = p - q
      BY <1>2, <2>5, <2>8 DEF LineAt, Fault
    <3>2. a < Dx
      BY <1>3, <1>6, <1>10, <2>8, <3>1, ShortOfEnd
    <3>3. PICK f \in Int : f = p - q
      BY <2>5
    <3>4. /\ 2 * slope >= -Dy
          /\ 2 * slope <= Dx => /\ b + 1 <= Dy /\ InHalf(Dx, Fault(Dx, Dy, a + 1, b + 1))
                                /\ slope - Dy + Dx = Fault(Dx, Dy, a + 1, b + 1) + Dx - Dy
          /\ ~(2 * slope <= Dx) => /\ InHalf(Dx, Fault(Dx, Dy, a + 1, b))
                                   /\ slope - Dy = Fault(Dx, Dy, a + 1, b) + Dx - Dy
      BY <1>3, <2>6, <2>8, <3>1, <3>2, <3>3, KeepsNear
    <3>5. a + 1 \in 0 .. Dx /\ px' = Along(begun.x, begun.x1, a + 1) /\ n + 1 = a + 1
      BY <1>3, <1>5, <2>2, <2>3, <2>4, <2>8, <3>2, <3>4
    <3>6. CASE 2 * slope <= Dx
      <4>1. b + 1 \in 0 .. Dy /\ py' = Along(begun.y, begun.y1, b + 1)
        BY <1>3, <2>2, <2>3, <2>4, <3>4, <3>6
      <4>2. slope' = slope - Dy + Dx
        BY <1>3, <2>2, <2>3, <2>6, <3>4, <3>6
      <4>3. slope' = (b + 1) * Dx - (a + 1) * Dy + Dx - Dy
        BY <3>4, <3>6, <4>2 DEF Fault
      <4> QED BY <2>7, <2>8, <3>4, <3>5, <3>6, <4>1, <4>3
    <3>7. CASE ~(2 * slope <= Dx)
      <4>1. py' = Along(begun.y, begun.y1, b)
        BY <2>2, <2>3, <2>4, <3>7
      <4>2. slope' = slope - Dy
        BY <1>3, <2>2, <2>3, <2>6, <3>4, <3>7
      <4>3. slope' = b * Dx - (a + 1) * Dy + Dx - Dy
        BY <3>4, <3>7, <4>2 DEF Fault
      <4> QED BY <2>7, <2>8, <3>4, <3>5, <3>7, <4>1, <4>3
    <3> QED BY <3>6, <3>7
  <2>9. CASE ~(Dx >= Dy)
    <3>1. InHalf(Dy, Fault(Dy, Dx, b, a)) /\ Fault(Dy, Dx, b, a) = q - p
      BY <1>2, <2>5, <2>9 DEF LineAt, Fault
    <3>2. b < Dy
      BY <1>3, <1>6, <1>10, <2>9, <3>1, ShortOfEnd
    <3>3. PICK f \in Int, s \in Int : f = q - p /\ s = -slope /\ s = f + Dy - Dx
      BY <1>3, <2>5, <2>6
    <3>4. /\ 2 * s >= -Dx
          /\ 2 * s <= Dy => /\ a + 1 <= Dx /\ InHalf(Dy, Fault(Dy, Dx, b + 1, a + 1))
                            /\ s - Dx + Dy = Fault(Dy, Dx, b + 1, a + 1) + Dy - Dx
          /\ ~(2 * s <= Dy) => /\ InHalf(Dy, Fault(Dy, Dx, b + 1, a))
                               /\ s - Dx = Fault(Dy, Dx, b + 1, a) + Dy - Dx
      <4>1. Dx <= Dy /\ f = Fault(Dy, Dx, b, a) /\ InHalf(Dy, f)
        BY <1>3, <2>9, <3>1, <3>3
      <4>2. PICK m \in Nat, k \in Nat : m = Dy /\ k = Dx
        BY <1>3
      <4>3. k <= m /\ b \in 0 .. m /\ a \in 0 .. k /\ b < m /\ f = Fault(m, k, b, a) /\ InHalf(m, f) /\ s = f + m - k
        BY <3>2, <3>3, <4>1, <4>2
      <4>4. /\ 2 * s >= -k
            /\ 2 * s <= m => /\ a + 1 <= k /\ InHalf(m, Fault(m, k, b + 1, a + 1))
                             /\ s - k + m = Fault(m, k, b + 1, a + 1) + m - k
            /\ ~(2 * s <= m) => /\ InHalf(m, Fault(m, k, b + 1, a))
                                /\ s - k = Fault(m, k, b + 1, a) + m - k
        BY <4>3, KeepsNear
      <4> QED BY <4>2, <4>4
    <3>5. (2 * s >= -Dx <=> 2 * slope <= Dx) /\ (2 * s <= Dy <=> 2 * slope >= -Dy)
      BY <1>3, <2>6, <3>3
    <3>6. b + 1 \in 0 .. Dy /\ py' = Along(begun.y, begun.y1, b + 1) /\ n + 1 = b + 1
      BY <1>3, <1>5, <2>2, <2>3, <2>4, <2>9, <3>2, <3>4, <3>5
    <3>7. CASE 2 * s <= Dy
      <4>1. a + 1 \in 0 .. Dx /\ px' = Along(begun.x, begun.x1, a + 1)
        BY <1>3, <2>2, <2>3, <2>4, <3>4, <3>5, <3>7
      <4>2. slope' = slope - Dy + Dx
        BY <1>3, <2>2, <2>3, <2>6, <3>4, <3>5, <3>7
      <4>3. slope' = -(s - Dx + Dy)
        BY <1>3, <2>6, <3>3, <4>2
      <4>4. PICK v \in Int, w \in Int : v = (b + 1) * Dx /\ w = (a + 1) * Dy
        BY <1>3
      <4>5. slope' = v - w + Dx - Dy
        BY <1>3, <3>3, <3>4, <3>7, <4>3, <4>4 DEF Fault
      <4> QED BY <2>7, <2>9, <3>4, <3>6, <3>7, <4>1, <4>4, <4>5
    <3>8. CASE ~(2 * s <= Dy)
      <4>1. px' = Along(begun.x, begun.x1, a)
        BY <2>2, <2>3, <2>4, <3>5, <3>8
      <4>2. slope' = slope + Dx
        BY <1>3, <2>2, <2>3, <2>6, <3>4, <3>5, <3>8
      <4>3. slope' = -(s - Dx)
        BY <1>3, <2>6, <3>3, <4>2
      <4>4. PICK v \in Int, w \in Int : v = (b + 1) * Dx /\ w = a * Dy
        BY <1>3
      <4>5. slope' = v - w + Dx - Dy
        BY <1>3, <3>3, <3>4, <3>8, <4>3, <4>4 DEF Fault
      <4> QED BY <2>7, <2>9, <3>4, <3>6, <3>8, <4>1, <4>4, <4>5
    <3> QED BY <3>7, <3>8
  <2> QED BY <2>8, <2>9
<1> QED BY <1>9, <1>10

-----------------------------------------------------------------------------
(* A circle: each turn's point is the nearest of its row, and both coordinates are covered. *)

IsMirror(o, a, b) ==
  \/ o[1] \in {a, -a} /\ o[2] \in {b, -b}
  \/ o[1] \in {b, -b} /\ o[2] \in {a, -a}

LEMMA OctantsAre ==
  ASSUME NEW a \in Int, NEW b \in Int
  PROVE  /\ Octants(a, b) \subseteq Plane
         /\ \A o \in Plane : o \in Octants(a, b) <=> IsMirror(o, a, b)
<1>1. Octants(a, b) \subseteq Plane
  BY DEF Octants, Plane
<1>2. ASSUME NEW o \in Plane PROVE o \in Octants(a, b) <=> IsMirror(o, a, b)
  <2>1. PICK u \in Int, v \in Int : o = <<u, v>>
    BY DEF Plane
  <2>2. o \in Octants(a, b) => IsMirror(o, a, b)
    BY <2>1 DEF Octants, IsMirror
  <2>3. IsMirror(o, a, b) => o \in Octants(a, b)
    BY <2>1 DEF Octants, IsMirror
  <2> QED BY <2>2, <2>3
<1> QED BY <1>1, <1>2

\* A mirror image has the same mirror images.
LEMMA OctantsClosed ==
  ASSUME NEW a \in Int, NEW b \in Int, NEW o \in Octants(a, b)
  PROVE  Octants(o[1], o[2]) \subseteq Octants(a, b)
<1> SUFFICES ASSUME NEW q \in Octants(o[1], o[2]) PROVE q \in Octants(a, b)
  OBVIOUS
<1>1. PICK u \in Int, v \in Int : o = <<u, v>> /\ IsMirror(o, a, b)
  BY OctantsAre DEF Plane
<1>2. q \in Plane /\ IsMirror(q, u, v)
  BY <1>1, OctantsAre
<1>3. IsMirror(q, a, b)
  BY <1>1, <1>2 DEF IsMirror
<1> QED BY <1>2, <1>3, OctantsAre

\* Nearest to the circle of radius r in its row, and in the flat octant.
IsNearest(r, a, b) == b <= a /\ a * a - a <= r * r - b * b /\ r * r - b * b <= a * a + a
Offset(p) == <<p[1] - begun.x, p[2] - begun.y>>
Placed(o) == <<begun.x + o[1], begun.y + o[2]>>
\* One turn of the circle was at a and b, and all its mirror images are plotted.
TurnOf(p, a, b) ==
  /\ a <= begun.r /\ IsNearest(begun.r, a, b) /\ Offset(p) \in Octants(a, b)
  /\ \A o \in Octants(a, b) : Placed(o) \in plotted

CircleInv == begun.op = "circle" =>
  /\ plotted \subseteq Plane
  /\ py \in Nat /\ px \in Int /\ px <= begun.r
  /\ slope = (py + 1) * (py + 1) + px * (px - 1) - begun.r * begun.r
  /\ px >= py => IsNearest(begun.r, px, py)
  /\ \A p \in plotted : \E a \in Nat, b \in Nat : TurnOf(p, a, b)
  /\ \A v \in 0 .. begun.r : (v < py \/ v > px) => \E p \in plotted : p[1] = begun.x + v
  /\ drawn => px < py

LEMMA CircleTypes ==
  ASSUME begun \in Drawings, begun.op = "circle"
  PROVE  begun.x \in Int /\ begun.y \in Int /\ begun.r \in Nat
BY RasterAssumption DEF IMin

\* The next row's nearest point, by the sign of err.
LEMMA NextNearest ==
  ASSUME NEW r \in Nat, NEW a \in Nat, NEW b \in Nat, IsNearest(r, a, b),
         NEW s \in Int, s = (b + 1) * (b + 1) + a * (a - 1) - r * r
  PROVE  /\ s < 0 => /\ a >= b + 1 => IsNearest(r, a, b + 1)
                     /\ s + 2 * (b + 1) + 1 = (b + 1 + 1) * (b + 1 + 1) + a * (a - 1) - r * r
         /\ s >= 0 => /\ a - 1 >= b + 1 => IsNearest(r, a - 1, b + 1)
                      /\ s + 2 * (b + 1 - (a - 1)) + 1
                           = (b + 1 + 1) * (b + 1 + 1) + (a - 1) * (a - 1 - 1) - r * r
<1>1. PICK aa \in Int, bb \in Int, rr \in Int : aa = a * a /\ bb = b * b /\ rr = r * r
  OBVIOUS
<1>2. (b + 1) * (b + 1) = bb + 2 * b + 1 /\ (b + 1 + 1) * (b + 1 + 1) = bb + 4 * b + 4
  BY <1>1
<1>3. a * (a - 1) = aa - a /\ (a - 1) * (a - 1) = aa - 2 * a + 1
      /\ (a - 1) * (a - 1 - 1) = aa - 3 * a + 2
  BY <1>1
<1>4. s = bb + 2 * b + 1 + aa - a - rr
  BY <1>1, <1>2, <1>3
<1>5. b <= a /\ aa - a <= rr - bb /\ rr - bb <= aa + a
  BY <1>1 DEF IsNearest
<1>6. ASSUME s < 0, a >= b + 1 PROVE IsNearest(r, a, b + 1)
  <2>1. aa - a <= rr - (bb + 2 * b + 1) /\ rr - (bb + 2 * b + 1) <= aa + a
    BY <1>4, <1>5, <1>6, <1>1
  <2> QED BY <1>1, <1>2, <1>6, <2>1 DEF IsNearest
<1>7. ASSUME s >= 0, a - 1 >= b + 1 PROVE IsNearest(r, a - 1, b + 1)
  <2>1. (aa - 2 * a + 1) - (a - 1) <= rr - (bb + 2 * b + 1)
        /\ rr - (bb + 2 * b + 1) <= (aa - 2 * a + 1) + (a - 1)
    BY <1>4, <1>5, <1>7, <1>1
  <2> QED BY <1>1, <1>2, <1>3, <1>7, <2>1 DEF IsNearest
<1>8. s + 2 * (b + 1) + 1 = (b + 1 + 1) * (b + 1 + 1) + a * (a - 1) - r * r
  BY <1>1, <1>2, <1>3, <1>4
<1>9. s + 2 * (b + 1 - (a - 1)) + 1 = (b + 1 + 1) * (b + 1 + 1) + (a - 1) * (a - 1 - 1) - r * r
  BY <1>1, <1>2, <1>3, <1>4
<1> QED BY <1>6, <1>7, <1>8, <1>9

LEMMA CirclePlots ==
  ASSUME begun \in Drawings, begun.op = "circle", NEW a \in Nat, NEW b \in Nat
  PROVE  {Placed(o) : o \in Octants(a, b)} \subseteq Plane
<1>1. begun.x \in Int /\ begun.y \in Int /\ Octants(a, b) \subseteq Plane
  BY CircleTypes, OctantsAre
<1> QED BY <1>1 DEF Placed, Plane

\* A turn of circle.
LEMMA CircleTurnKeeps ==
  ASSUME begun \in Drawings, CircleInv, CircleTurn
  PROVE  CircleInv'
<1>1. begun.op = "circle" /\ begun' = begun /\ drawn' = drawn /\ ~drawn /\ px >= py
  BY DEF CircleTurn, Drawing
<1>2. begun.x \in Int /\ begun.y \in Int /\ begun.r \in Nat
  BY <1>1, CircleTypes
<1>3. PICK a \in Nat, b \in Nat : a = px /\ b = py
  BY <1>1 DEF CircleInv
<1>4. a <= begun.r /\ b <= a /\ IsNearest(begun.r, a, b)
  BY <1>1, <1>3 DEF CircleInv
<1>5. PICK s \in Int : s = slope /\ s = (b + 1) * (b + 1) + a * (a - 1) - begun.r * begun.r
  BY <1>1, <1>2, <1>3 DEF CircleInv
<1>6. /\ s < 0 => /\ a >= b + 1 => IsNearest(begun.r, a, b + 1)
                  /\ s + 2 * (b + 1) + 1 = (b + 1 + 1) * (b + 1 + 1) + a * (a - 1) - begun.r * begun.r
      /\ s >= 0 => /\ a - 1 >= b + 1 => IsNearest(begun.r, a - 1, b + 1)
                   /\ s + 2 * (b + 1 - (a - 1)) + 1
                        = (b + 1 + 1) * (b + 1 + 1) + (a - 1) * (a - 1 - 1) - begun.r * begun.r
  BY <1>2, <1>4, <1>5, NextNearest
<1>7. py' = b + 1 /\ (s < 0 => px' = a /\ slope' = s + 2 * (b + 1) + 1)
      /\ (s >= 0 => px' = a - 1 /\ slope' = s + 2 * (b + 1 - (a - 1)) + 1)
  BY <1>3, <1>5 DEF CircleTurn
<1>8. py' \in Nat /\ px' \in Int /\ px' <= begun.r
  BY <1>2, <1>4, <1>5, <1>7
<1>9. slope' = (py' + 1) * (py' + 1) + px' * (px' - 1) - begun.r * begun.r
  BY <1>5, <1>6, <1>7
<1>10. px' >= py' => IsNearest(begun.r, px', py')
  BY <1>5, <1>6, <1>7
<1>11. plotted' = plotted \cup {Placed(o) : o \in Octants(a, b)}
  BY <1>3 DEF CircleTurn, Plot, Placed
<1>12. plotted' \subseteq Plane
  BY <1>1, <1>11, CirclePlots DEF CircleInv
<1>13. Octants(a, b) \subseteq Plane /\ \A o \in Plane : o \in Octants(a, b) <=> IsMirror(o, a, b)
  BY OctantsAre
<1>14. ASSUME NEW p \in plotted' PROVE (\E c \in Nat, d \in Nat : TurnOf(p, c, d))'
  <2>1. CASE p \in plotted
    <3>1. PICK c \in Nat, d \in Nat : TurnOf(p, c, d)
      BY <1>1, <2>1 DEF CircleInv
    <3>2. TurnOf(p, c, d)'
      BY <1>1, <1>11, <3>1 DEF TurnOf, Offset, Placed
    <3> QED BY <3>2
  <2>2. CASE p \in {Placed(o) : o \in Octants(a, b)}
    <3>1. PICK o \in Octants(a, b) : p = Placed(o)
      BY <2>2
    <3>2. PICK u \in Int, v \in Int : o = <<u, v>>
      BY <1>13 DEF Plane
    <3>3. Offset(p) = o
      BY <1>2, <3>1, <3>2 DEF Offset, Placed
    <3>4. TurnOf(p, a, b)'
      BY <1>1, <1>4, <1>11, <3>3 DEF TurnOf, Offset, Placed
    <3> QED BY <3>4
  <2> QED BY <1>11, <2>1, <2>2
<1>15. ASSUME NEW v \in 0 .. begun.r, v < py' \/ v > px' PROVE \E p \in plotted' : p[1] = begun.x + v
  <2>1. CASE v < b \/ v > a
    <3>1. PICK p \in plotted : p[1] = begun.x + v
      BY <1>1, <1>3, <2>1 DEF CircleInv
    <3> QED BY <1>11, <3>1
  <2>2. CASE v = b
    <3>1. <<b, a>> \in Octants(a, b) /\ Placed(<<b, a>>)[1] = begun.x + v
      BY <2>2 DEF Octants, Placed
    <3> QED BY <1>11, <3>1
  <2>3. CASE v = a
    <3>1. <<a, b>> \in Octants(a, b) /\ Placed(<<a, b>>)[1] = begun.x + v
      BY <2>3 DEF Octants, Placed
    <3> QED BY <1>11, <3>1
  <2>4. v = b \/ v < b \/ v > a \/ v = a
    BY <1>2, <1>4, <1>5, <1>7, <1>15
  <2> QED BY <2>1, <2>2, <2>3, <2>4
<1>16. /\ (\A p \in plotted : \E c \in Nat, d \in Nat : TurnOf(p, c, d))'
       /\ (\A v \in 0 .. begun.r : (v < py \/ v > px) => \E p \in plotted : p[1] = begun.x + v)'
  BY <1>1, <1>14, <1>15
<1> QED BY <1>1, <1>8, <1>9, <1>10, <1>12, <1>16 DEF CircleInv

\* A point of the circle as seen from its centre.
LEMMA AroundIs ==
  ASSUME begun \in Drawings, begun.op = "circle", CircleInv, NEW p \in plotted
  PROVE  \E a \in Nat, b \in Nat :
           /\ Offset(p) \in Plane /\ Offset(p) \in Octants(a, b)
           /\ a <= begun.r /\ IsNearest(begun.r, a, b)
           /\ \A o \in Octants(a, b) : o \in {Offset(q) : q \in plotted}
<1>1. begun.x \in Int /\ begun.y \in Int /\ begun.r \in Nat
  BY CircleTypes
<1>2. PICK a \in Nat, b \in Nat : TurnOf(p, a, b)
  BY DEF CircleInv
<1>3. Octants(a, b) \subseteq Plane
  BY OctantsAre
<1>4. ASSUME NEW o \in Octants(a, b) PROVE o \in {Offset(q) : q \in plotted}
  <2>1. PICK u \in Int, v \in Int : o = <<u, v>>
    BY <1>3 DEF Plane
  <2>2. Offset(Placed(o)) = o
    BY <1>1, <2>1 DEF Offset, Placed
  <2>3. Placed(o) \in plotted
    BY <1>2 DEF TurnOf
  <2> QED BY <2>2, <2>3
<1> QED BY <1>2, <1>3, <1>4 DEF TurnOf

LEMMA NearestRow ==
  ASSUME NEW r \in Nat, NEW a \in Nat, NEW b \in Nat, IsNearest(r, a, b),
         NEW u \in Int, NEW v \in Int, IsMirror(<<u, v>>, a, b), AbsOf(v) <= u
  PROVE  4 * (r * r - v * v) \in (2 * u - 1) * (2 * u - 1) - 1 .. (2 * u + 1) * (2 * u + 1)
<1>1. u = a /\ v \in {b, -b}
  BY DEF IsMirror, IsNearest, AbsOf
<1>2. PICK aa \in Int, bb \in Int, rr \in Int : aa = a * a /\ bb = b * b /\ rr = r * r
  OBVIOUS
<1>3. v * v = bb /\ u * u = aa
  BY <1>1, <1>2
<1>4. (2 * u - 1) * (2 * u - 1) - 1 = 4 * aa - 4 * a /\ (2 * u + 1) * (2 * u + 1) = 4 * aa + 4 * a + 1
  BY <1>1, <1>2
<1>5. aa - a <= rr - bb /\ rr - bb <= aa + a
  BY <1>2 DEF IsNearest
<1> QED BY <1>2, <1>3, <1>4, <1>5

LEMMA CircleDrawn ==
  ASSUME begun \in Drawings, begun.op = "circle", CircleInv, drawn
  PROVE  CircleSound
<1> DEFINE around == {Offset(q) : q \in plotted}
<1>1. begun.x \in Int /\ begun.y \in Int /\ begun.r \in Nat
  BY CircleTypes
<1>2. ASSUME NEW p \in around PROVE Octants(p[1], p[2]) \subseteq around
  <2>1. PICK q \in plotted : p = Offset(q)
    OBVIOUS
  <2>2. PICK a \in Nat, b \in Nat :
           p \in Plane /\ p \in Octants(a, b) /\ \A o \in Octants(a, b) : o \in around
    BY <2>1, AroundIs
  <2> QED BY <2>2, OctantsClosed
<1>3. ASSUME NEW p \in around, AbsOf(p[2]) <= p[1]
      PROVE  4 * (begun.r * begun.r - p[2] * p[2]) \in (2 * p[1] - 1) * (2 * p[1] - 1) - 1 .. (2 * p[1] + 1) * (2 * p[1] + 1)
  <2>1. PICK q \in plotted : p = Offset(q)
    OBVIOUS
  <2>2. PICK a \in Nat, b \in Nat : p \in Plane /\ p \in Octants(a, b) /\ IsNearest(begun.r, a, b)
    BY <2>1, AroundIs
  <2>3. PICK u \in Int, v \in Int : p = <<u, v>>
    BY <2>2 DEF Plane
  <2>4. IsMirror(<<u, v>>, a, b) /\ AbsOf(v) <= u
    BY <1>3, <2>2, <2>3, OctantsAre
  <2> QED BY <1>1, <2>2, <2>3, <2>4, NearestRow
<1>4. ASSUME NEW p \in around PROVE p[1] \in -begun.r .. begun.r
  <2>1. PICK q \in plotted : p = Offset(q)
    OBVIOUS
  <2>2. PICK a \in Nat, b \in Nat : p \in Plane /\ p \in Octants(a, b) /\ a <= begun.r /\ IsNearest(begun.r, a, b)
    BY <2>1, AroundIs
  <2>3. p[1] \in {a, -a, b, -b}
    BY <2>2, OctantsAre DEF IsMirror
  <2> QED BY <1>1, <2>2, <2>3 DEF IsNearest
<1>5. ASSUME NEW v \in -begun.r .. begun.r PROVE \E p \in around : p[1] = v
  <2>1. PICK w \in 0 .. begun.r : v \in {w, -w}
    <3>1. CASE v >= 0
      BY <1>1, <3>1
    <3>2. CASE v < 0
      <4>1. -v \in 0 .. begun.r /\ v = -(-v)
        BY <1>1, <3>2
      <4> QED BY <4>1
    <3> QED BY <1>1, <3>1, <3>2
  <2>2. PICK q \in plotted : q[1] = begun.x + w
    <3>1. px < py /\ py \in Nat /\ px \in Int
      BY DEF CircleInv
    <3>2. w < py \/ w > px
      BY <1>1, <3>1
    <3> QED BY <3>2 DEF CircleInv
  <2>3. Offset(q) \in around /\ Offset(q)[1] = w
    BY <1>1, <2>2 DEF Offset
  <2>4. <<-w, Offset(q)[2]>> \in Octants(Offset(q)[1], Offset(q)[2])
    BY <2>3 DEF Octants
  <2>5. <<-w, Offset(q)[2]>> \in around
    BY <1>2, <2>3, <2>4
  <2> QED BY <2>1, <2>3, <2>5
<1>6. {p[1] : p \in around} = -begun.r .. begun.r
  BY <1>4, <1>5
<1>7. around = {<<p[1] - begun.x, p[2] - begun.y>> : p \in plotted}
  BY DEF Offset
<1> QED BY <1>2, <1>3, <1>6, <1>7 DEF CircleSound

-----------------------------------------------------------------------------
(* Rectangles: what is plotted and what is still to be filled make up the shape. *)

Boxes == [x : Int, y : Int, w : Nat, h : Nat]
BoxArea(b) == Area(b.x, b.y, b.w, b.h)
Coverage(boxes) == UNION {BoxArea(boxes[i]) : i \in DOMAIN boxes}
SameOnSurface(S, T) == \A p \in Surface : p \in S <=> p \in T

RectsInv ==
  /\ rects \in Seq(Boxes)
  /\ begun.op \notin {"fill", "rect"} => rects = << >>
  /\ begun.op \in {"fill", "rect"} =>
       /\ plotted \subseteq Plane /\ SameOnSurface(plotted \cup Coverage(rects), Coverage(Rects(begun)))
       /\ drawn => rects = << >>

LEMMA CoverageParts ==
  ASSUME NEW s \in Seq(Boxes), s # << >>
  PROVE  /\ Head(s) \in Boxes /\ Tail(s) \in Seq(Boxes)
         /\ Coverage(s) = BoxArea(Head(s)) \cup Coverage(Tail(s))
<1>1. PICK n \in Nat : n = Len(s) /\ n > 0
  BY EmptySeq
<1>2. Head(s) \in Boxes /\ Head(s) = s[1] /\ Tail(s) \in Seq(Boxes) /\ Len(Tail(s)) = n - 1
      /\ \A i \in 1 .. n - 1 : Tail(s)[i] = s[i + 1]
  BY <1>1, HeadTailProperties
<1>3. DOMAIN s = 1 .. n /\ DOMAIN Tail(s) = 1 .. n - 1
  BY <1>1, <1>2
<1>4. ASSUME NEW i \in 1 .. n PROVE i = 1 \/ (i - 1 \in 1 .. n - 1 /\ Tail(s)[i - 1] = s[i])
  BY <1>1, <1>2
<1>5. Coverage(s) \subseteq BoxArea(Head(s)) \cup Coverage(Tail(s))
  BY <1>2, <1>3, <1>4 DEF Coverage
<1>6. ASSUME NEW i \in 1 .. n - 1 PROVE i + 1 \in 1 .. n /\ Tail(s)[i] = s[i + 1]
  BY <1>1, <1>2
<1>7. 1 \in 1 .. n
  BY <1>1
<1>8. BoxArea(Head(s)) \cup Coverage(Tail(s)) \subseteq Coverage(s)
  BY <1>2, <1>3, <1>6, <1>7 DEF Coverage
<1> QED BY <1>2, <1>5, <1>8

\* fill_rect fills the rectangle's part of the surface.
LEMMA ClippedBox ==
  ASSUME NEW b \in Boxes, NEW p \in Surface
  PROVE  p \in (MaxOf(b.x, 0) .. MinOf(MinOf(b.x + b.w, SideX), IMax + 1) - 1)
               \X (MaxOf(b.y, 0) .. MinOf(MinOf(b.y + b.h, SideY), IMax + 1) - 1)
         <=> p \in BoxArea(b)
<1>1. b.x \in Int /\ b.y \in Int /\ b.w \in Nat /\ b.h \in Nat
  BY DEF Boxes
<1>2. PICK u \in 0 .. SideX - 1, v \in 0 .. SideY - 1 : p = <<u, v>>
  BY DEF Surface
<1>3. u \in MaxOf(b.x, 0) .. MinOf(MinOf(b.x + b.w, SideX), IMax + 1) - 1 <=> u \in b.x .. b.x + b.w - 1
  BY <1>1, Sides DEF MaxOf, MinOf
<1>4. v \in MaxOf(b.y, 0) .. MinOf(MinOf(b.y + b.h, SideY), IMax + 1) - 1 <=> v \in b.y .. b.y + b.h - 1
  BY <1>1, Sides DEF MaxOf, MinOf
<1> QED BY <1>2, <1>3, <1>4 DEF BoxArea, Area

LEMMA ClippedIsPlane ==
  ASSUME NEW b \in Boxes
  PROVE  (MaxOf(b.x, 0) .. MinOf(MinOf(b.x + b.w, SideX), IMax + 1) - 1)
         \X (MaxOf(b.y, 0) .. MinOf(MinOf(b.y + b.h, SideY), IMax + 1) - 1) \subseteq Plane
BY Sides DEF Plane, Boxes, MaxOf, MinOf

\* A fill_rect.
LEMMA FillKeeps ==
  ASSUME begun \in Drawings, RectsInv, FillRect
  PROVE  /\ RectsInv'
         /\ begun.op \in {"fill", "rect"}
         /\ Shows(plotted) => Shows(plotted)'
<1> DEFINE b == Head(rects)
           part == (MaxOf(b.x, 0) .. MinOf(MinOf(b.x + b.w, SideX), IMax + 1) - 1)
                   \X (MaxOf(b.y, 0) .. MinOf(MinOf(b.y + b.h, SideY), IMax + 1) - 1)
<1>1. rects # << >> /\ rects' = Tail(rects) /\ begun' = begun /\ ~drawn /\ drawn' = drawn /\ Plot(part)
  BY DEF FillRect
<1>2. begun.op \in {"fill", "rect"}
  BY <1>1 DEF RectsInv
<1>3. b \in Boxes /\ Tail(rects) \in Seq(Boxes) /\ Coverage(rects) = BoxArea(b) \cup Coverage(Tail(rects))
  BY <1>1, CoverageParts DEF RectsInv
<1> HIDE DEF b
<1>4. part \subseteq Plane
  BY <1>3, ClippedIsPlane
<1>5. \A p \in Surface : p \in part <=> p \in BoxArea(b)
  BY <1>3, ClippedBox
<1> HIDE DEF part
<1>6. plotted' = plotted \cup part
  BY <1>1 DEF Plot
<1>7. SameOnSurface(plotted' \cup Coverage(Tail(rects)), Coverage(Rects(begun)))
  BY <1>2, <1>3, <1>5, <1>6 DEF RectsInv, SameOnSurface
<1>8. SameOnSurface(plotted \cup Coverage(rects), Coverage(Rects(begun)))'
  <2>1. Coverage(rects)' = Coverage(Tail(rects)) /\ Coverage(Rects(begun))' = Coverage(Rects(begun))
    BY <1>1 DEF Coverage
  <2> QED BY <1>7, <2>1 DEF SameOnSurface
<1>9. RectsInv'
  BY <1>1, <1>2, <1>3, <1>4, <1>6, <1>8 DEF RectsInv
<1>10. Shows(plotted) => Shows(plotted)'
  BY <1>1, <1>4, PlotShows
<1> QED BY <1>2, <1>9, <1>10

LEMMA CoverageJoin ==
  ASSUME NEW s \in Seq(Boxes), NEW t \in Seq(Boxes)
  PROVE  s \o t \in Seq(Boxes) /\ Coverage(s \o t) = Coverage(s) \cup Coverage(t)
<1>1. PICK m \in Nat, n \in Nat : m = Len(s) /\ n = Len(t)
  OBVIOUS
<1>2. s \o t \in Seq(Boxes) /\ Len(s \o t) = m + n
      /\ \A i \in 1 .. m + n : (s \o t)[i] = IF i <= m THEN s[i] ELSE t[i - m]
  BY <1>1, ConcatProperties
<1>3. DOMAIN s = 1 .. m /\ DOMAIN t = 1 .. n /\ DOMAIN (s \o t) = 1 .. m + n
  BY <1>1, <1>2
<1>4. ASSUME NEW i \in 1 .. m + n
      PROVE  (i \in 1 .. m /\ (s \o t)[i] = s[i]) \/ (i - m \in 1 .. n /\ (s \o t)[i] = t[i - m])
  BY <1>2
<1>5. Coverage(s \o t) \subseteq Coverage(s) \cup Coverage(t)
  BY <1>3, <1>4 DEF Coverage
<1>6. ASSUME NEW i \in 1 .. m PROVE i \in 1 .. m + n /\ (s \o t)[i] = s[i]
  BY <1>2
<1>7. ASSUME NEW i \in 1 .. n PROVE i + m \in 1 .. m + n /\ (s \o t)[i + m] = t[i]
  BY <1>2
<1>8. Coverage(s) \subseteq Coverage(s \o t)
  BY <1>3, <1>6 DEF Coverage
<1>9. Coverage(t) \subseteq Coverage(s \o t)
  BY <1>3, <1>7 DEF Coverage
<1> QED BY <1>2, <1>5, <1>8, <1>9

LEMMA CoverageOne ==
  ASSUME NEW b \in Boxes
  PROVE  <<b>> \in Seq(Boxes) /\ Coverage(<<b>>) = BoxArea(b)
BY DEF Coverage

LEMMA CoverageNone == << >> \in Seq(Boxes) /\ Coverage(<< >>) = {}
BY DEF Coverage

LEMMA BoxIs ==
  ASSUME NEW x \in Int, NEW y \in Int, NEW w \in Nat, NEW h \in Nat
  PROVE  Box(x, y, w, h) \in Boxes /\ BoxArea(Box(x, y, w, h)) = Area(x, y, w, h)
BY DEF Box, Boxes, BoxArea

\* An edge that no i16 holds is off the surface.
LEMMA EdgeIs ==
  ASSUME NEW x \in Int, NEW y \in Int, NEW w \in Nat, NEW h \in Nat, NEW held \in BOOLEAN,
         ~held => x > IMax \/ y > IMax
  PROVE  /\ (IF held THEN <<Box(x, y, w, h)>> ELSE << >>) \in Seq(Boxes)
         /\ SameOnSurface(Coverage(IF held THEN <<Box(x, y, w, h)>> ELSE << >>), Area(x, y, w, h))
<1>1. CASE held
  BY <1>1, BoxIs, CoverageOne DEF SameOnSurface
<1>2. CASE ~held
  <2>1. ASSUME NEW p \in Surface, p \in Area(x, y, w, h) PROVE FALSE
    <3>1. PICK u \in 0 .. SideX - 1, v \in 0 .. SideY - 1 : p = <<u, v>>
      BY DEF Surface
    <3>2. u >= x /\ v >= y
      BY <2>1, <3>1 DEF Area
    <3> QED BY <1>2, <3>2, Sides
  <2> QED BY <1>2, <2>1, CoverageNone DEF SameOnSurface
<1> QED BY <1>1, <1>2

LEMMA BoxTypes ==
  ASSUME begun \in Drawings, begun.op \in {"fill", "rect"}
  PROVE  /\ begun.x \in Int /\ begun.y \in Int /\ begun.w \in Nat /\ begun.h \in Nat
         /\ begun.x <= IMax /\ begun.y <= IMax
BY RasterAssumption DEF IMin

LEMMA OutlineEmpty ==
  ASSUME begun \in Drawings, begun.op = "rect", begun.w = 0 \/ begun.h = 0
  PROVE  Outline = {}
<1>1. Area(begun.x, begun.y, begun.w, begun.h) = {}
  BY BoxTypes DEF Area
<1> QED BY <1>1 DEF Outline

LEMMA OutlineIs ==
  ASSUME begun \in Drawings, begun.op = "rect", begun.w # 0, begun.h # 0, NEW p \in Plane
  PROVE  p \in Outline <=> \/ p \in Area(begun.x, begun.y, begun.w, 1)
                           \/ p \in Area(begun.x, begun.y, 1, begun.h)
                           \/ p \in Area(begun.x, begun.y + begun.h - 1, begun.w, 1)
                           \/ p \in Area(begun.x + begun.w - 1, begun.y, 1, begun.h)
<1>1. PICK x \in Int, y \in Int, w \in Nat, h \in Nat :
         x = begun.x /\ y = begun.y /\ w = begun.w /\ h = begun.h /\ w > 0 /\ h > 0
  BY BoxTypes
<1>2. PICK u \in Int, v \in Int : p = <<u, v>>
  BY DEF Plane
<1>3. /\ p \in Area(x, y, w, 1) <=> u \in x .. x + w - 1 /\ v = y
      /\ p \in Area(x, y, 1, h) <=> u = x /\ v \in y .. y + h - 1
      /\ p \in Area(x, y + h - 1, w, 1) <=> u \in x .. x + w - 1 /\ v = y + h - 1
      /\ p \in Area(x + w - 1, y, 1, h) <=> u = x + w - 1 /\ v \in y .. y + h - 1
      /\ p \in Area(x, y, w, h) <=> u \in x .. x + w - 1 /\ v \in y .. y + h - 1
  BY <1>1, <1>2 DEF Area
<1>4. p \in Outline <=> p \in Area(x, y, w, h) /\ (u \in {x, x + w - 1} \/ v \in {y, y + h - 1})
  BY <1>1, <1>2 DEF Outline
<1> QED BY <1>1, <1>3, <1>4

LEMMA RectsOfRect ==
  ASSUME begun \in Drawings, begun.op = "rect"
  PROVE  Rects(begun) \in Seq(Boxes) /\ SameOnSurface(Coverage(Rects(begun)), Outline)
<1>1. PICK x \in Int, y \in Int, w \in Nat, h \in Nat :
         /\ x = begun.x /\ y = begun.y /\ w = begun.w /\ h = begun.h
         /\ x <= IMax /\ y <= IMax
  BY BoxTypes
<1>2. CASE w = 0 \/ h = 0
  <2>1. Rects(begun) = << >>
    BY <1>1, <1>2 DEF Rects
  <2> QED BY <1>1, <1>2, <2>1, OutlineEmpty, CoverageNone DEF SameOnSurface
<1>3. CASE w # 0 /\ h # 0
  <2> DEFINE top == <<Box(x, y, w, 1)>>
             left == <<Box(x, y, 1, h)>>
             low == IF y + h - 1 <= IMax THEN <<Box(x, y + h - 1, w, 1)>> ELSE << >>
             far == IF x + w - 1 <= IMax THEN <<Box(x + w - 1, y, 1, h)>> ELSE << >>
  <2>1. Rects(begun) = <<Box(x, y, w, 1), Box(x, y, 1, h)>> \o low \o far
    BY <1>1, <1>3 DEF Rects
  <2>2. <<Box(x, y, w, 1), Box(x, y, 1, h)>> = top \o left
    OBVIOUS
  <2>3. /\ top \in Seq(Boxes) /\ Coverage(top) = Area(x, y, w, 1)
        /\ left \in Seq(Boxes) /\ Coverage(left) = Area(x, y, 1, h)
    BY <1>1, BoxIs, CoverageOne
  <2>4. PICK u \in Int, v \in Int : u = x + w - 1 /\ v = y + h - 1
    BY <1>1
  <2>5. (v <= IMax) \in BOOLEAN /\ (~(v <= IMax) => v > IMax)
        /\ (u <= IMax) \in BOOLEAN /\ (~(u <= IMax) => u > IMax)
    BY Sides
  <2>6. low \in Seq(Boxes) /\ SameOnSurface(Coverage(low), Area(x, v, w, 1))
    BY <2>4, <2>5, EdgeIs
  <2>7. far \in Seq(Boxes) /\ SameOnSurface(Coverage(far), Area(u, y, 1, h))
    BY <2>4, <2>5, EdgeIs
  <2> HIDE DEF top, left, low, far
  <2>8. top \o left \in Seq(Boxes) /\ Coverage(top \o left) = Coverage(top) \cup Coverage(left)
    BY <2>3, CoverageJoin
  <2>9. (top \o left) \o low \in Seq(Boxes)
        /\ Coverage((top \o left) \o low) = Coverage(top \o left) \cup Coverage(low)
    BY <2>6, <2>8, CoverageJoin
  <2>10. ((top \o left) \o low) \o far \in Seq(Boxes)
         /\ Coverage(((top \o left) \o low) \o far) = Coverage((top \o left) \o low) \cup Coverage(far)
    BY <2>7, <2>9, CoverageJoin
  <2>11. Rects(begun) = ((top \o left) \o low) \o far
    BY <2>1, <2>2
  <2>12. Coverage(Rects(begun)) = Area(x, y, w, 1) \cup Area(x, y, 1, h) \cup Coverage(low) \cup Coverage(far)
    BY <2>3, <2>8, <2>9, <2>10, <2>11
  <2>13. ASSUME NEW p \in Surface PROVE p \in Coverage(Rects(begun)) <=> p \in Outline
    <3>1. p \in Plane
      BY OnSurface
    <3>2. p \in Outline <=> \/ p \in Area(x, y, w, 1) \/ p \in Area(x, y, 1, h)
                            \/ p \in Area(x, v, w, 1) \/ p \in Area(u, y, 1, h)
      BY <1>1, <1>3, <2>4, <3>1, OutlineIs
    <3> QED BY <2>6, <2>7, <2>12, <3>2 DEF SameOnSurface
  <2> QED BY <2>10, <2>11, <2>13 DEF SameOnSurface
<1> QED BY <1>2, <1>3

LEMMA RectsOfFill ==
  ASSUME begun \in Drawings, begun.op = "fill"
  PROVE  /\ Rects(begun) \in Seq(Boxes)
         /\ SameOnSurface(Coverage(Rects(begun)), Area(begun.x, begun.y, begun.w, begun.h))
<1>1. Rects(begun) = <<Box(begun.x, begun.y, begun.w, begun.h)>>
  BY DEF Rects
<1> QED BY <1>1, BoxTypes, BoxIs, CoverageOne DEF SameOnSurface

LEMMA RectsOfOther ==
  ASSUME begun.op \notin {"fill", "rect"}
  PROVE  Rects(begun) = << >>
BY DEF Rects

LEMMA RectsBegin ==
  ASSUME RasterInit
  PROVE  RectsInv
<1>1. rects = Rects(begun) /\ plotted = {} /\ ~drawn /\ begun \in Drawings
  BY DEF RasterInit
<1>2. rects \in Seq(Boxes) /\ (begun.op \notin {"fill", "rect"} => rects = << >>)
  BY <1>1, RectsOfRect, RectsOfFill, RectsOfOther, CoverageNone
<1>3. plotted \cup Coverage(rects) = Coverage(Rects(begun))
  BY <1>1
<1> QED BY <1>1, <1>2, <1>3 DEF RectsInv, SameOnSurface

-----------------------------------------------------------------------------
(* Text: the cursor is where the characters so far leave it, as far as i16 counts. *)

IsStart(m, k) == m \in 0 .. k /\ (m = 0 \/ m \in Lines(k)) /\ \A j \in Lines(k) : j <= m
Cap(v) == MinOf(v, IMax)
LetterAt(k) == {<<begun.x + 4 * Column(k) + cell[1], begun.y + 6 * Cardinality(Lines(k)) + cell[2]>> :
                  cell \in begun.chars[k]}
WrittenTo(n) == UNION {LetterAt(k) : k \in Printed \cap (1 .. n)}

\* The cursor before the character after n: it starts m characters later, on line l.
CursorAt(n, m, l) ==
  /\ IsStart(m, n + 1) /\ HasCount(Lines(n + 1), l)
  /\ px = Cap(begun.x + 4 * (n - m)) /\ py = Cap(begun.y + 6 * l)

\* The characters after the n-th are still to come.
ToCome(n) ==
  /\ rows \in Seq(Glyph \cup {Newline})
  /\ Len(rows) = Len(begun.chars) - n
  /\ \A i \in 1 .. Len(rows) : rows[i] = begun.chars[n + i]

TextInv == begun.op = "text" =>
  /\ plotted \subseteq Plane
  /\ drawn => rows = << >>
  /\ \E n \in 0 .. Len(begun.chars) :
       /\ ToCome(n) /\ SameOnSurface(plotted, WrittenTo(n))
       /\ \E m \in Nat, l \in Nat : CursorAt(n, m, l)

LEMMA TextTypes ==
  ASSUME begun \in Drawings, begun.op = "text"
  PROVE  /\ begun.x \in Int /\ begun.y \in Int /\ begun.x <= IMax /\ begun.y <= IMax
         /\ begun.chars \in Seq(Glyph \cup {Newline})
BY RasterAssumption DEF IMin

LEMMA RestIs ==
  ASSUME NEW S, NEW s \in Seq(S), NEW n \in Nat, n = Len(s), n > 0
  PROVE  /\ Head(s) = s[1] /\ Tail(s) \in Seq(S) /\ Len(Tail(s)) = n - 1
         /\ \A i \in 1 .. n - 1 : Tail(s)[i] = s[i + 1]
BY EmptySeq, HeadTailProperties

LEMMA StartIs ==
  ASSUME NEW k \in Nat, NEW s \in Nat, IsStart(s, k + 1)
  PROVE  s <= k /\ Column(k + 1) = k - s
<1>1. \A j \in Lines(k + 1) : j \in 1 .. k
  BY DEF Lines
<1>2. s <= k
  BY <1>1 DEF IsStart
<1> DEFINE c == CHOOSE m \in 0 .. k + 1 : (m = 0 \/ m \in Lines(k + 1)) /\ \A j \in Lines(k + 1) : j <= m
<1>3. s \in 0 .. k + 1 /\ (s = 0 \/ s \in Lines(k + 1)) /\ \A j \in Lines(k + 1) : j <= s
  BY DEF IsStart
<1>4. \A m \in 0 .. k + 1 : (m = 0 \/ m \in Lines(k + 1)) /\ (\A j \in Lines(k + 1) : j <= m) => m = s
  BY <1>1, <1>3
<1>5. c = s
  BY <1>3, <1>4
<1>6. Column(k + 1) = (k + 1) - 1 - c
  BY DEF Column
<1> HIDE DEF c
<1> QED BY <1>2, <1>5, <1>6

LEMMA LinesGrow ==
  ASSUME NEW k \in Nat, k > 0
  PROVE  Lines(k + 1) = IF begun.chars[k] = Newline THEN Lines(k) \cup {k} ELSE Lines(k)
<1>1. 1 .. k + 1 - 1 = (1 .. k - 1) \cup {k}
  OBVIOUS
<1> QED BY <1>1 DEF Lines

LEMMA NoLines == Lines(1) = {} /\ IsStart(0, 1) /\ HasCount(Lines(1), 0)
<1>1. Lines(1) = {}
  BY DEF Lines
<1> QED BY <1>1, FS_EmptySet DEF IsStart, HasCount

LEMMA CapAdds ==
  ASSUME NEW v \in Int, NEW d \in Nat
  PROVE  SaturatingAdd(Cap(v), d) = Cap(v + d)
BY Sides DEF SaturatingAdd, Cap, MinOf

CellAt(u, v, c, d) == <<u + c, v + d>>

\* Where the cursor is beyond what i16 counts, nothing is on the surface.
LEMMA CappedCell ==
  ASSUME NEW u \in Int, NEW v \in Int, NEW c \in Nat, NEW d \in Nat, NEW p \in Surface
  PROVE  p = CellAt(Cap(u), Cap(v), c, d) <=> p = CellAt(u, v, c, d)
<1>1. PICK i \in 0 .. SideX - 1, j \in 0 .. SideY - 1 : p = <<i, j>>
  BY DEF Surface
<1>2. i < IMax /\ j < IMax
  BY <1>1, Sides
<1>3. (i = Cap(u) + c <=> i = u + c) /\ (j = Cap(v) + d <=> j = v + d)
  BY <1>2, Sides DEF Cap, MinOf
<1> QED BY <1>1, <1>3 DEF CellAt

LEMMA TextBegins ==
  ASSUME RasterInit
  PROVE  TextInv
<1> SUFFICES ASSUME begun.op = "text" PROVE TextInv
  BY DEF TextInv
<1>1. begun \in Drawings /\ plotted = {} /\ ~drawn /\ rows = begun.chars /\ px = begun.x /\ py = begun.y
  BY DEF RasterInit, Rows
<1>2. /\ begun.x \in Int /\ begun.y \in Int /\ begun.x <= IMax /\ begun.y <= IMax
      /\ begun.chars \in Seq(Glyph \cup {Newline})
  BY <1>1, TextTypes
<1>3. 0 \in 0 .. Len(begun.chars) /\ ToCome(0)
  <2>1. Len(rows) \in Nat
    BY <1>1, <1>2
  <2>2. \A i \in 1 .. Len(rows) : rows[i] = begun.chars[0 + i]
    BY <1>1, <2>1
  <2> QED BY <1>1, <1>2, <2>1, <2>2 DEF ToCome
<1>4. WrittenTo(0) = {}
  BY DEF WrittenTo
<1>5. Cap(begun.x + 4 * (0 - 0)) = begun.x /\ Cap(begun.y + 6 * 0) = begun.y
  BY <1>2, Sides DEF Cap, MinOf
<1>6. CursorAt(0, 0, 0)
  BY <1>1, <1>5, NoLines DEF CursorAt
<1> QED BY <1>1, <1>3, <1>4, <1>6 DEF TextInv, SameOnSurface

\* One character of text.
LEMMA CharKeeps ==
  ASSUME begun \in Drawings, TextInv, Char
  PROVE  TextInv' /\ (Shows(plotted) => Shows(plotted)')
<1>1. begun.op = "text" /\ ~drawn /\ begun' = begun /\ drawn' = drawn /\ rows # << >> /\ rows' = Tail(rows)
  BY DEF Char, Drawing
<1>2. /\ begun.x \in Int /\ begun.y \in Int /\ begun.x <= IMax /\ begun.y <= IMax
      /\ begun.chars \in Seq(Glyph \cup {Newline})
  BY <1>1, TextTypes
<1>3. PICK n \in 0 .. Len(begun.chars) : /\ ToCome(n) /\ SameOnSurface(plotted, WrittenTo(n))
                                         /\ \E m \in Nat, l \in Nat : CursorAt(n, m, l)
  BY <1>1 DEF TextInv
<1>4. PICK m \in Nat, l \in Nat : CursorAt(n, m, l)
  BY <1>3
<1>5. PICK z \in Nat, t \in Nat : z = Len(begun.chars) /\ t = Len(rows) /\ t = z - n /\ t > 0
  <2>1. Len(begun.chars) \in Nat /\ Len(rows) \in Nat /\ Len(rows) = Len(begun.chars) - n /\ Len(rows) > 0
    BY <1>1, <1>2, <1>3, EmptySeq DEF ToCome
  <2> QED BY <2>1
<1>6. PICK k \in Nat : k = n + 1 /\ k \in 1 .. z
  BY <1>5
<1>7. /\ Head(rows) = begun.chars[k] /\ Tail(rows) \in Seq(Glyph \cup {Newline})
      /\ Len(Tail(rows)) = t - 1 /\ \A i \in 1 .. t - 1 : Tail(rows)[i] = rows[i + 1]
  <2>1. rows \in Seq(Glyph \cup {Newline}) /\ rows[1] = begun.chars[n + 1]
    BY <1>3, <1>5 DEF ToCome
  <2>2. t = Len(rows) /\ t > 0
    BY <1>5
  <2>3. /\ Head(rows) = rows[1] /\ Tail(rows) \in Seq(Glyph \cup {Newline}) /\ Len(Tail(rows)) = t - 1
        /\ \A i \in 1 .. t - 1 : Tail(rows)[i] = rows[i + 1]
    BY <2>1, <2>2, RestIs
  <2> QED BY <1>6, <2>1, <2>3
<1>8. ToCome(k)'
  <2>1. ASSUME NEW i \in 1 .. t - 1 PROVE Tail(rows)[i] = begun.chars[k + i]
    <3>1. Tail(rows)[i] = rows[i + 1] /\ i + 1 \in 1 .. t
      BY <1>5, <1>7
    <3>2. rows[i + 1] = begun.chars[n + (i + 1)]
      BY <1>3, <1>5, <3>1 DEF ToCome
    <3>3. n + (i + 1) = k + i
      BY <1>5, <1>6
    <3> QED BY <3>1, <3>2, <3>3
  <2>2. t - 1 = z - k
    BY <1>5, <1>6
  <2> QED BY <1>1, <1>5, <1>7, <2>1, <2>2 DEF ToCome
<1>9. m <= n /\ Column(k) = n - m /\ HasCount(Lines(k), l) /\ IsStart(m, k)
      /\ px = Cap(begun.x + 4 * (n - m)) /\ py = Cap(begun.y + 6 * l)
  BY <1>4, <1>6, StartIs DEF CursorAt
<1>10. Lines(k + 1) = IF begun.chars[k] = Newline THEN Lines(k) \cup {k} ELSE Lines(k)
  <2>1. k > 0
    BY <1>6
  <2> QED BY <2>1, LinesGrow
<1>11. k \in DOMAIN begun.chars /\ begun.chars[k] \in Glyph \cup {Newline}
  BY <1>2, <1>5, <1>6
<1>12. WrittenTo(k) = IF begun.chars[k] = Newline THEN WrittenTo(n) ELSE WrittenTo(n) \cup LetterAt(k)
  <2>1. Printed \cap (1 .. k) = IF begun.chars[k] = Newline THEN Printed \cap (1 .. n)
                                ELSE (Printed \cap (1 .. n)) \cup {k}
    BY <1>5, <1>6, <1>11 DEF Printed
  <2> QED BY <2>1 DEF WrittenTo
<1>13. ASSUME NEW m2 \in Nat, NEW l2 \in Nat, IsStart(m2, k + 1), HasCount(Lines(k + 1), l2),
              px' = Cap(begun.x + 4 * (k - m2)), py' = Cap(begun.y + 6 * l2),
              plotted' \subseteq Plane, SameOnSurface(plotted', WrittenTo(k))
       PROVE  TextInv'
  <2>1. Lines(k + 1)' = Lines(k + 1) /\ WrittenTo(k)' = WrittenTo(k)
    BY <1>1 DEF Lines, WrittenTo, LetterAt, Column, Printed
  <2>2. CursorAt(k, m2, l2)'
    BY <1>1, <1>13, <2>1 DEF CursorAt, IsStart
  <2>3. SameOnSurface(plotted, WrittenTo(k))'
    BY <1>13, <2>1 DEF SameOnSurface
  <2>4. k \in 0 .. Len(begun'.chars)
    BY <1>1, <1>5, <1>6
  <2> QED BY <1>1, <1>8, <1>13, <2>2, <2>3, <2>4 DEF TextInv
<1>14. CASE begun.chars[k] = Newline
  <2>1. px' = begun.x /\ py' = SaturatingAdd(py, 6) /\ plotted' = plotted /\ surface' = surface
    BY <1>7, <1>14 DEF Char
  <2>2. IsStart(k, k + 1)
    BY <1>6, <1>10, <1>14 DEF IsStart, Lines
  <2>3. HasCount(Lines(k + 1), l + 1)
    <3>1. k \notin Lines(k)
      BY DEF Lines
    <3> QED BY <1>9, <1>10, <1>14, <3>1, CountGrows
  <2>4. px' = Cap(begun.x + 4 * (k - k))
    BY <1>2, <2>1, Sides DEF Cap, MinOf
  <2>5. py' = Cap(begun.y + 6 * (l + 1))
    <3>1. PICK v \in Int : v = begun.y + 6 * l
      BY <1>2
    <3>2. SaturatingAdd(Cap(v), 6) = Cap(v + 6)
      BY CapAdds
    <3>3. begun.y + 6 * (l + 1) = v + 6
      BY <1>2, <3>1
    <3> QED BY <1>9, <2>1, <3>1, <3>2, <3>3
  <2>6. plotted' \subseteq Plane /\ SameOnSurface(plotted', WrittenTo(k))
    BY <1>1, <1>3, <1>12, <1>14, <2>1 DEF TextInv
  <2>7. TextInv'
    BY <1>13, <2>2, <2>3, <2>4, <2>5, <2>6
  <2> QED BY <1>1, <2>1, <2>7 DEF Shows
<1>15. CASE begun.chars[k] # Newline
  <2> DEFINE ink == {<<px + cell[1], py + cell[2]>> : cell \in begun.chars[k]}
  <2>1. px' = SaturatingAdd(px, 4) /\ py' = py /\ Plot(ink) /\ plotted' = plotted \cup ink
    BY <1>7, <1>15 DEF Char, Plot
  <2>2. begun.chars[k] \subseteq Nat \X Nat
    BY <1>11, <1>15 DEF Glyph
  <2>3. PICK u \in Int, v \in Int : u = begun.x + 4 * (n - m) /\ v = begun.y + 6 * l
    BY <1>2
  <2>4. px = Cap(u) /\ py = Cap(v) /\ px \in Int /\ py \in Int
    BY <1>9, <2>3, Sides DEF Cap, MinOf
  <2>5. ink \subseteq Plane
    BY <2>2, <2>4 DEF Plane
  <2>6. LetterAt(k) = {<<u + cell[1], v + cell[2]>> : cell \in begun.chars[k]}
    BY <1>9, <2>3 DEF LetterAt, HasCount
  <2>7. ASSUME NEW p \in Surface PROVE p \in ink <=> p \in LetterAt(k)
    <3>1. ASSUME NEW cell \in begun.chars[k]
          PROVE  p = <<px + cell[1], py + cell[2]>> <=> p = <<u + cell[1], v + cell[2]>>
      <4>1. PICK c \in Nat, d \in Nat : c = cell[1] /\ d = cell[2]
        BY <2>2
      <4>2. p = CellAt(Cap(u), Cap(v), c, d) <=> p = CellAt(u, v, c, d)
        BY CappedCell
      <4> QED BY <2>4, <4>1, <4>2 DEF CellAt
    <3> QED BY <2>6, <3>1
  <2> HIDE DEF ink
  <2>8. IsStart(m, k + 1)
    BY <1>6, <1>9, <1>10, <1>15 DEF IsStart
  <2>9. HasCount(Lines(k + 1), l)
    BY <1>9, <1>10, <1>15
  <2>10. px' = Cap(begun.x + 4 * (k - m))
    <3>1. SaturatingAdd(Cap(u), 4) = Cap(u + 4)
      BY CapAdds
    <3>2. begun.x + 4 * (k - m) = u + 4
      BY <1>2, <1>6, <2>3
    <3> QED BY <2>1, <2>4, <3>1, <3>2
  <2>11. py' = Cap(begun.y + 6 * l)
    BY <1>9, <2>1
  <2>12. plotted' \subseteq Plane
    BY <1>1, <2>1, <2>5 DEF TextInv
  <2>13. SameOnSurface(plotted', WrittenTo(k))
    BY <1>3, <1>12, <1>15, <2>1, <2>7 DEF SameOnSurface
  <2>14. TextInv'
    BY <1>13, <2>8, <2>9, <2>10, <2>11, <2>12, <2>13
  <2> QED BY <2>1, <2>5, <2>14, PlotShows
<1> QED BY <1>14, <1>15

LEMMA TextDrawn ==
  ASSUME begun \in Drawings, begun.op = "text", TextInv, drawn
  PROVE  SameOnSurface(plotted, Written)
<1>1. begun.chars \in Seq(Glyph \cup {Newline}) /\ Len(begun.chars) \in Nat
  BY TextTypes
<1>2. PICK n \in 0 .. Len(begun.chars) : ToCome(n) /\ SameOnSurface(plotted, WrittenTo(n))
  BY DEF TextInv
<1>3. Len(rows) = 0
  BY DEF TextInv
<1>4. n = Len(begun.chars)
  BY <1>1, <1>2, <1>3 DEF ToCome
<1>5. Printed \cap (1 .. n) = Printed
  BY <1>1, <1>4 DEF Printed
<1>6. WrittenTo(n) = Written
  BY <1>5 DEF WrittenTo, Written, LetterAt
<1> QED BY <1>2, <1>6

-----------------------------------------------------------------------------
(* Sprites and scrolling: rows counts what is still to come. *)

LEMMA QuotientIs ==
  ASSUME NEW a \in Nat, NEW d \in Nat, d > 0
  PROVE  a \div d \in Nat /\ a % d \in 0 .. d - 1 /\ a = (a \div d) * d + (a % d)
OBVIOUS

LEMMA QuotientOf ==
  ASSUME NEW d \in Nat, d > 0, NEW q \in Nat, NEW m \in 0 .. d - 1
  PROVE  (q * d + m) \div d = q /\ (q * d + m) % d = m
OBVIOUS

\* The numbers from n up to all but the last of n turns.
CountsUp(n, total) ==
  /\ rows \in Seq(Nat) /\ Len(rows) = total - n
  /\ \A i \in 1 .. Len(rows) : rows[i] = n + i - 1

LEMMA CountsUpBegins ==
  ASSUME NEW total \in Nat, rows = [k \in 1 .. total |-> k - 1]
  PROVE  CountsUp(0, total)
<1>1. \A k \in 1 .. total : k - 1 \in Nat
  OBVIOUS
<1>2. rows \in Seq(Nat) /\ Len(rows) = total
  BY <1>1
<1>3. \A i \in 1 .. total : rows[i] = 0 + i - 1
  OBVIOUS
<1>4. total - 0 = total
  OBVIOUS
<1> QED BY <1>2, <1>3, <1>4 DEF CountsUp

LEMMA CountsUpNext ==
  ASSUME NEW total \in Nat, NEW n \in 0 .. total, CountsUp(n, total), rows # << >>, rows' = Tail(rows)
  PROVE  n < total /\ Head(rows) = n /\ CountsUp(n + 1, total)'
<1>1. PICK t \in Nat : t = Len(rows) /\ t > 0 /\ t = total - n
  <2>1. Len(rows) \in Nat /\ Len(rows) > 0
    BY EmptySeq DEF CountsUp
  <2> QED BY <2>1 DEF CountsUp
<1>2. rows \in Seq(Nat) /\ \A i \in 1 .. t : rows[i] = n + i - 1
  BY <1>1 DEF CountsUp
<1>3. /\ Head(rows) = rows[1] /\ Tail(rows) \in Seq(Nat) /\ Len(Tail(rows)) = t - 1
      /\ \A i \in 1 .. t - 1 : Tail(rows)[i] = rows[i + 1]
  BY <1>1, <1>2, RestIs
<1>4. rows[1] = n
  BY <1>1, <1>2
<1>5. ASSUME NEW i \in 1 .. t - 1 PROVE Tail(rows)[i] = n + 1 + i - 1
  <2>1. i + 1 \in 1 .. t
    BY <1>1
  <2>2. rows[i + 1] = n + (i + 1) - 1
    BY <1>2, <2>1
  <2> QED BY <1>3, <2>2
<1>6. Len(Tail(rows)) = total - (n + 1)
  BY <1>1, <1>3
<1>7. CountsUp(n + 1, total)'
  BY <1>1, <1>3, <1>5, <1>6 DEF CountsUp
<1> QED BY <1>1, <1>3, <1>4, <1>7

LEMMA CountsUpEnds ==
  ASSUME NEW total \in Nat, NEW n \in 0 .. total, CountsUp(n, total), rows = << >>
  PROVE  n = total
BY DEF CountsUp

RowPixels(r) == {<<begun.x + col, begun.y + r>> : col \in {c \in 0 .. begun.w - 1 : BitAt(r, c)}}
RowsTo(n) == UNION {RowPixels(r) : r \in 0 .. n - 1}

BlitInv == begun.op = "blit" =>
  /\ plotted \subseteq Plane
  /\ drawn => ShortSprite \/ rows = << >>
  /\ ShortSprite => plotted = {}
  /\ \E n \in 0 .. begun.h : CountsUp(n, begun.h) /\ plotted = RowsTo(n)

LEMMA BlitTypes ==
  ASSUME begun \in Drawings, begun.op = "blit"
  PROVE  begun.x \in Int /\ begun.y \in Int /\ begun.w \in Nat /\ begun.h \in Nat
         /\ Octet \in Nat /\ Octet > 0
BY RasterAssumption DEF IMin

LEMMA BlitBegins ==
  ASSUME RasterInit
  PROVE  BlitInv
<1> SUFFICES ASSUME begun.op = "blit" PROVE BlitInv
  BY DEF BlitInv
<1>1. begun \in Drawings /\ plotted = {} /\ ~drawn /\ rows = [k \in 1 .. begun.h |-> k - 1]
  BY DEF RasterInit, Rows
<1>2. PICK h \in Nat : h = begun.h
  BY <1>1, BlitTypes
<1>3. CountsUp(0, h)
  BY <1>1, <1>2, CountsUpBegins
<1>4. RowsTo(0) = {}
  BY DEF RowsTo
<1>5. 0 \in 0 .. h
  OBVIOUS
<1> QED BY <1>1, <1>2, <1>3, <1>4, <1>5 DEF BlitInv

\* One row of a sprite.
LEMMA BlitRowKeeps ==
  ASSUME begun \in Drawings, BlitInv, BlitRow
  PROVE  BlitInv' /\ (Shows(plotted) => Shows(plotted)')
<1>1. /\ begun.op = "blit" /\ ~drawn /\ begun' = begun /\ drawn' = drawn
      /\ ~ShortSprite /\ rows # << >> /\ rows' = Tail(rows)
  BY DEF BlitRow, Drawing
<1>2. /\ begun.x \in Int /\ begun.y \in Int
  BY <1>1, BlitTypes
<1>3. PICK h \in Nat : h = begun.h
  BY <1>1, BlitTypes
<1>4. PICK n \in 0 .. h : CountsUp(n, h) /\ plotted = RowsTo(n)
  BY <1>1, <1>3 DEF BlitInv
<1>5. n < h /\ Head(rows) = n /\ CountsUp(n + 1, h)'
  BY <1>1, <1>4, CountsUpNext
<1>6. Plot(RowPixels(n)) /\ plotted' = plotted \cup RowPixels(n)
  BY <1>5 DEF BlitRow, RowPixels, Plot
<1>7. RowPixels(n) \subseteq Plane
  BY <1>2 DEF RowPixels, Plane
<1>8. plotted' = RowsTo(n + 1)
  <2>1. 0 .. n + 1 - 1 = (0 .. n - 1) \cup {n}
    OBVIOUS
  <2> QED BY <1>4, <1>6, <2>1 DEF RowsTo
<1>9. RowsTo(n + 1)' = RowsTo(n + 1) /\ ShortSprite' = ShortSprite
  BY <1>1 DEF RowsTo, RowPixels, BitAt, ShortSprite
<1>10. n + 1 \in 0 .. h
  BY <1>5
<1>11. (\E k \in 0 .. begun.h : CountsUp(k, begun.h) /\ plotted = RowsTo(k))'
  BY <1>1, <1>3, <1>5, <1>8, <1>9, <1>10
<1>12. plotted' \subseteq Plane
  BY <1>1, <1>6, <1>7 DEF BlitInv
<1>13. BlitInv'
  BY <1>1, <1>9, <1>11, <1>12 DEF BlitInv
<1> QED BY <1>6, <1>7, <1>13, PlotShows

\* The byte of a column is in its row.
LEMMA ByteInRow ==
  ASSUME NEW w \in Nat, NEW d \in Nat, d > 0, NEW c \in 0 .. w - 1
  PROVE  c \div d + 1 <= (w + d - 1) \div d
<1>1. PICK q \in Nat, m \in 0 .. d - 1 : q = c \div d /\ c = q * d + m
  BY QuotientIs
<1>2. PICK v \in Nat : v = w + d - 1
  <2>1. w + d - 1 \in Nat
    OBVIOUS
  <2> QED BY <2>1
<1>3. PICK s \in Nat, k \in 0 .. d - 1 : s = v \div d /\ v = s * d + k
  BY QuotientIs
<1> SUFFICES ASSUME s <= q PROVE FALSE
  BY <1>1, <1>2, <1>3
<1>4. PICK e \in Nat : q = s + e
  <2>1. q - s \in Nat /\ q = s + (q - s)
    OBVIOUS
  <2> QED BY <2>1
<1>5. PICK sd \in Nat, ed \in Nat : sd = s * d /\ ed = e * d /\ q * d = sd + ed
  BY <1>4
<1> QED BY <1>1, <1>2, <1>3, <1>5

LEMMA RowBitIs ==
  ASSUME begun \in Drawings, begun.op = "blit", NEW r \in Nat, NEW c \in 0 .. begun.w - 1
  PROVE  RowBit(r, c) = BitAt(r, c)
<1>1. PICK w \in Nat, d \in Nat : w = begun.w /\ d = Octet /\ d > 0
  BY BlitTypes
<1>2. PICK s \in Nat : s = (w + d - 1) \div d /\ s = Stride(begun)
  <2>1. w + d - 1 \in Nat
    BY <1>1
  <2>2. (w + d - 1) \div d \in Nat
    BY <1>1, <2>1, QuotientIs
  <2> QED BY <1>1, <2>2 DEF Stride
<1>3. PICK q \in Nat : q = c \div d
  BY <1>1, QuotientIs
<1>4. q + 1 <= s
  BY <1>1, <1>2, <1>3, ByteInRow
<1>5. PICK a \in Nat, b \in Nat : a = r * s + 1 /\ b = (r + 1) * s /\ b = a + s - 1
  <2>1. r * s + 1 \in Nat /\ (r + 1) * s \in Nat /\ (r + 1) * s = r * s + 1 + s - 1
    OBVIOUS
  <2> QED BY <2>1
<1>6. SubSeq(begun.data, a, b) = [i \in 1 .. (1 + b - a) |-> begun.data[i + a - 1]]
  BY DEF SubSeq
<1>7. q + 1 \in 1 .. (1 + b - a) /\ (q + 1) + a - 1 = r * s + q + 1
  BY <1>4, <1>5
<1>8. SubSeq(begun.data, a, b)[q + 1] = begun.data[r * s + q + 1]
  BY <1>6, <1>7
<1> QED BY <1>1, <1>2, <1>3, <1>5, <1>8 DEF RowBit, BitAt

LEMMA BlitDrawn ==
  ASSUME begun \in Drawings, begun.op = "blit", BlitInv, drawn
  PROVE  plotted = Sprite
<1>1. /\ begun.x \in Int /\ begun.y \in Int /\ begun.w \in Nat
  BY BlitTypes
<1>2. PICK h \in Nat : h = begun.h
  BY BlitTypes
<1>3. CASE ShortSprite
  BY <1>3 DEF Sprite, BlitInv
<1>4. CASE ~ShortSprite
  <2>1. PICK n \in 0 .. h : CountsUp(n, h) /\ plotted = RowsTo(n)
    BY <1>2 DEF BlitInv
  <2>2. plotted = RowsTo(h)
    BY <1>4, <2>1, CountsUpEnds DEF BlitInv
  <2>3. ASSUME NEW p \in Plane PROVE p \in RowsTo(h) <=> p \in Sprite
    <3>1. PICK u \in Int, v \in Int : p = <<u, v>>
      BY DEF Plane
    <3>2. PICK r \in Int, c \in Int : r = v - begun.y /\ c = u - begun.x
      BY <1>1
    <3>3. p \in Sprite <=> r \in 0 .. h - 1 /\ c \in 0 .. begun.w - 1 /\ RowBit(r, c)
      <4>1. p \in Area(begun.x, begun.y, begun.w, begun.h) <=> r \in 0 .. h - 1 /\ c \in 0 .. begun.w - 1
        BY <1>1, <1>2, <3>1, <3>2 DEF Area
      <4> QED BY <1>4, <3>1, <3>2, <4>1 DEF Sprite
    <3>4. p \in RowsTo(h) <=> r \in 0 .. h - 1 /\ c \in 0 .. begun.w - 1 /\ BitAt(r, c)
      <4>1. \A k \in 0 .. h - 1 : p \in RowPixels(k) <=> k = r /\ c \in 0 .. begun.w - 1 /\ BitAt(k, c)
        <5>1. SUFFICES ASSUME NEW k \in 0 .. h - 1
                       PROVE  p \in RowPixels(k) <=> k = r /\ c \in 0 .. begun.w - 1 /\ BitAt(k, c)
          OBVIOUS
        <5>2. \A d \in 0 .. begun.w - 1 : p = <<begun.x + d, begun.y + k>> <=> d = c /\ k = r
          BY <1>1, <3>1, <3>2
        <5> QED BY <5>2 DEF RowPixels
      <4> QED BY <4>1 DEF RowsTo
    <3>5. r \in 0 .. h - 1 /\ c \in 0 .. begun.w - 1 => RowBit(r, c) = BitAt(r, c)
      BY RowBitIs
    <3> QED BY <3>3, <3>4, <3>5
  <2>4. Sprite \subseteq Plane
    BY <1>1, <1>2 DEF Sprite, Area, Plane
  <2>5. plotted \subseteq Plane
    BY DEF BlitInv
  <2> QED BY <2>2, <2>3, <2>4, <2>5
<1> QED BY <1>3, <1>4

\* Bytes are moved in the order of the surface: those before the n-th are final, the rest untouched.
Pixels == SideX * SideY
ScrollInv == begun.op = "scroll" =>
  /\ drawn => rows = << >>
  /\ surface = [p \in Surface |-> surface[p]]
  /\ \E n \in 0 .. Pixels :
       /\ CountsUp(n, Pixels)
       /\ \A p \in Surface : surface[p] = IF Index(p) < n THEN Scrolled[p] ELSE Index(p)

LEMMA PixelsAre == Pixels \in Nat /\ SideX * SideY = Pixels
BY Sides DEF Pixels

\* Row by row.
LEMMA RowMajor ==
  ASSUME NEW a \in 0 .. SideX - 1, NEW b \in Int, NEW c \in Int
  PROVE  b * SideX + a < c * SideX <=> b < c
<1>1. PICK x \in Nat : x = SideX /\ x > 0
  BY Sides
<1>2. ASSUME b < c PROVE b * x + a < c * x
  <2>1. PICK d \in Nat : c = b + 1 + d
    <3>1. c - (b + 1) \in Nat /\ c = b + 1 + (c - (b + 1))
      BY <1>2
    <3> QED BY <3>1
  <2>2. PICK dx \in Nat, bx \in Int : dx = d * x /\ bx = b * x /\ c * x = bx + x + dx
    BY <2>1
  <2> QED BY <1>1, <2>2
<1>3. ASSUME ~(b < c) PROVE ~(b * x + a < c * x)
  <2>1. PICK d \in Nat : b = c + d
    <3>1. b - c \in Nat /\ b = c + (b - c)
      BY <1>3
    <3> QED BY <3>1
  <2>2. PICK dx \in Nat, cx \in Int : dx = d * x /\ cx = c * x /\ b * x = cx + dx
    BY <2>1
  <2> QED BY <1>1, <2>2
<1> QED BY <1>1, <1>2, <1>3

LEMMA PixelAtIs ==
  ASSUME NEW i \in 0 .. Pixels - 1
  PROVE  PixelAt(i) \in Surface /\ Index(PixelAt(i)) = i
<1>1. PICK x \in Nat, y \in Nat : x = SideX /\ x > 0 /\ y = SideY /\ Pixels = y * x
  BY Sides DEF Pixels
<1>2. i \in Nat
  OBVIOUS
<1>3. PICK q \in Nat, m \in 0 .. x - 1 : q = i \div x /\ m = i % x /\ i = q * x + m
  BY <1>1, <1>2, QuotientIs
<1>4. q * x + m < y * x
  BY <1>1, <1>3
<1>5. q < y
  BY <1>1, <1>3, <1>4, RowMajor
<1> QED BY <1>1, <1>3, <1>5 DEF PixelAt, Index, Surface

LEMMA IndexIs ==
  ASSUME NEW p \in Surface
  PROVE  Index(p) \in 0 .. Pixels - 1 /\ PixelAt(Index(p)) = p
<1>1. PICK x \in Nat, y \in Nat : x = SideX /\ x > 0 /\ y = SideY /\ Pixels = y * x
  BY Sides DEF Pixels
<1>2. PICK a \in 0 .. x - 1, b \in 0 .. y - 1 : p = <<a, b>>
  BY <1>1 DEF Surface
<1>3. b \in Nat /\ b < y
  BY <1>1, <1>2
<1>4. PICK j \in Nat : j = b * x + a
  <2>1. b * x + a \in Nat
    BY <1>1, <1>3
  <2> QED BY <2>1
<1>5. Index(p) = j
  BY <1>1, <1>2, <1>4 DEF Index
<1>6. j < y * x
  BY <1>1, <1>3, <1>4, RowMajor
<1>7. j \div x = b /\ j % x = a
  BY <1>1, <1>3, <1>4, QuotientOf
<1> QED BY <1>1, <1>2, <1>4, <1>5, <1>6, <1>7 DEF PixelAt

\* What the byte loop moves to a pixel is what stood begun.r rows below it.
LEMMA MovedIs ==
  ASSUME begun \in Drawings, begun.op = "scroll", NEW p \in Surface,
         NEW shift \in Nat, shift = MinOf(begun.r, SideY) * SideX
  PROVE  /\ Index(p) < Pixels - shift <=> p[2] + begun.r < SideY
         /\ p[2] + begun.r < SideY =>
              Scrolled[p] = Index(p) + shift /\ Index(p) + shift \in 0 .. Pixels - 1
         /\ ~(p[2] + begun.r < SideY) => Scrolled[p] = Ink
<1>1. PICK x \in Nat, y \in Nat, r \in Nat :
         x = SideX /\ x > 0 /\ y = SideY /\ Pixels = y * x /\ r = begun.r
  <2>1. begun.r \in Nat
    BY RasterAssumption
  <2>2. Pixels = SideY * SideX
    BY Sides DEF Pixels
  <2> QED BY <2>1, <2>2, Sides
<1>2. PICK a \in 0 .. x - 1, b \in 0 .. y - 1 : p = <<a, b>>
  BY <1>1 DEF Surface
<1>3. PICK j \in Int, bx \in Int : bx = b * x /\ j = bx + a /\ Index(p) = j
  BY <1>1, <1>2 DEF Index
<1>4. PICK c \in Nat : c = IF r < y THEN r ELSE y
  OBVIOUS
<1>5. PICK s \in Nat : s = c * x /\ s = shift
  BY <1>1, <1>4 DEF MinOf
<1>6. (b + c) * x + a < y * x <=> b + c < y
  BY <1>1, <1>2, RowMajor
<1>7. (b + c) * x = bx + s
  BY <1>3, <1>5
<1>8. j < Pixels - s <=> b + c < y
  BY <1>1, <1>3, <1>6, <1>7
<1>9. b + c < y <=> b + r < y
  BY <1>2, <1>4
<1>10. Index(p) < Pixels - shift <=> p[2] + begun.r < SideY
  BY <1>1, <1>2, <1>3, <1>5, <1>8, <1>9
<1>11. Scrolled[p] = IF b + r < y THEN Index(<<a, b + r>>) ELSE Ink
  BY <1>1, <1>2 DEF Scrolled
<1>12. ASSUME b + r < y PROVE Index(<<a, b + r>>) = j + s
  <2>1. c = r
    BY <1>2, <1>4, <1>12
  <2>2. Index(<<a, b + r>>) = (b + c) * x + a
    BY <1>1, <2>1 DEF Index
  <2> QED BY <1>3, <1>7, <2>2
<1>13. ASSUME b + r < y PROVE j + s \in 0 .. Pixels - 1
  <2>1. bx \in Nat
    BY <1>3
  <2> QED BY <1>1, <1>3, <1>8, <1>9, <1>13, <2>1
<1> QED BY <1>1, <1>2, <1>3, <1>5, <1>10, <1>11, <1>12, <1>13

LEMMA ScrollBegins ==
  ASSUME RasterInit
  PROVE  ScrollInv
<1> SUFFICES ASSUME begun.op = "scroll" PROVE ScrollInv
  BY DEF ScrollInv
<1>1. begun \in Drawings /\ surface = Untouched /\ ~drawn /\ rows = [k \in 1 .. SideX * SideY |-> k - 1]
  BY DEF RasterInit, Rows
<1>2. CountsUp(0, Pixels)
  BY <1>1, PixelsAre, CountsUpBegins
<1>3. \A p \in Surface : surface[p] = IF Index(p) < 0 THEN Scrolled[p] ELSE Index(p)
  BY <1>1, IndexIs, PixelsAre DEF Untouched
<1>4. surface = [p \in Surface |-> surface[p]] /\ 0 \in 0 .. Pixels
  BY <1>1, PixelsAre DEF Untouched
<1> QED BY <1>1, <1>2, <1>3, <1>4 DEF ScrollInv

\* One byte of the scroll.
LEMMA ScrollByteKeeps ==
  ASSUME begun \in Drawings, ScrollInv, ScrollByte
  PROVE  ScrollInv'
<1>1. /\ begun.op = "scroll" /\ ~drawn /\ begun' = begun /\ drawn' = drawn
      /\ rows # << >> /\ rows' = Tail(rows)
  BY DEF ScrollByte, Drawing
<1>2. PICK n \in 0 .. Pixels :
         /\ CountsUp(n, Pixels)
         /\ \A p \in Surface : surface[p] = IF Index(p) < n THEN Scrolled[p] ELSE Index(p)
  BY <1>1 DEF ScrollInv
<1>3. n < Pixels /\ Head(rows) = n /\ CountsUp(n + 1, Pixels)'
  BY <1>1, <1>2, PixelsAre, CountsUpNext
<1>4. PICK shift \in Nat : shift = MinOf(begun.r, SideY) * SideX
  <2>1. MinOf(begun.r, SideY) \in Nat
    BY <1>1, Sides, RasterAssumption DEF MinOf
  <2>2. MinOf(begun.r, SideY) * SideX \in Nat
    BY <2>1, Sides
  <2> QED BY <2>2
<1>5. PICK pixel \in Surface : pixel = PixelAt(n) /\ Index(pixel) = n
  BY <1>3, PixelsAre, PixelAtIs
<1>6. surface' = [surface EXCEPT ![pixel] = IF n < Pixels - shift THEN surface[PixelAt(n + shift)] ELSE Ink]
  BY <1>3, <1>4, <1>5, PixelsAre DEF ScrollByte
<1>7. /\ n < Pixels - shift <=> pixel[2] + begun.r < SideY
      /\ pixel[2] + begun.r < SideY =>
           Scrolled[pixel] = n + shift /\ n + shift \in 0 .. Pixels - 1
      /\ ~(pixel[2] + begun.r < SideY) => Scrolled[pixel] = Ink
  BY <1>1, <1>4, <1>5, MovedIs
<1>8. ASSUME n < Pixels - shift PROVE surface[PixelAt(n + shift)] = n + shift
  <2>1. n + shift \in 0 .. Pixels - 1
    BY <1>7, <1>8
  <2>2. PixelAt(n + shift) \in Surface /\ Index(PixelAt(n + shift)) = n + shift
    BY <2>1, PixelAtIs
  <2>3. ~(n + shift < n)
    BY <1>4
  <2> QED BY <1>2, <2>2, <2>3
<1>9. surface'[pixel] = Scrolled[pixel]
  BY <1>1, <1>6, <1>7, <1>8 DEF ScrollInv
<1>10. ASSUME NEW p \in Surface
       PROVE  surface'[p] = IF Index(p) < n + 1 THEN Scrolled[p] ELSE Index(p)
  <2>1. Index(p) \in Int
    BY IndexIs, PixelsAre
  <2>2. CASE p = pixel
    BY <1>5, <1>9, <2>1, <2>2
  <2>3. CASE p # pixel
    <3>1. Index(p) # n
      BY <1>5, <2>3, IndexIs
    <3>2. surface'[p] = surface[p]
      BY <1>1, <1>6, <2>3 DEF ScrollInv
    <3>3. Index(p) < n <=> Index(p) < n + 1
      BY <2>1, <3>1, <1>3, PixelsAre
    <3> QED BY <1>2, <3>2, <3>3
  <2> QED BY <2>2, <2>3
<1>11. n + 1 \in 0 .. Pixels
  BY <1>3, PixelsAre
<1>12. Scrolled' = Scrolled
  BY <1>1 DEF Scrolled
<1>13. (\E k \in 0 .. Pixels : /\ CountsUp(k, Pixels)
          /\ \A p \in Surface : surface[p] = IF Index(p) < k THEN Scrolled[p] ELSE Index(p))'
  BY <1>3, <1>10, <1>11, <1>12
<1>14. (surface = [p \in Surface |-> surface[p]])'
  BY <1>1, <1>6 DEF ScrollInv
<1> QED BY <1>1, <1>13, <1>14 DEF ScrollInv

LEMMA ScrollDrawn ==
  ASSUME begun.op = "scroll", ScrollInv, drawn
  PROVE  surface = Scrolled
<1>1. PICK n \in 0 .. Pixels :
         /\ CountsUp(n, Pixels)
         /\ \A p \in Surface : surface[p] = IF Index(p) < n THEN Scrolled[p] ELSE Index(p)
  BY DEF ScrollInv
<1>2. n = Pixels
  BY <1>1, PixelsAre, CountsUpEnds DEF ScrollInv
<1>3. \A p \in Surface : surface[p] = Scrolled[p]
  <2>1. SUFFICES ASSUME NEW p \in Surface PROVE surface[p] = Scrolled[p]
    OBVIOUS
  <2>2. Index(p) < Pixels
    BY IndexIs, PixelsAre
  <2> QED BY <1>1, <1>2, <2>2
<1>4. surface = [p \in Surface |-> surface[p]]
  BY DEF ScrollInv
<1>5. Scrolled = [p \in Surface |-> Scrolled[p]]
  BY DEF Scrolled
<1> QED BY <1>3, <1>4, <1>5

-----------------------------------------------------------------------------
(* The whole call. *)

RasterIInv ==
  /\ begun \in Drawings
  /\ LineInv /\ CircleInv /\ RectsInv /\ TextInv /\ BlitInv /\ ScrollInv
  /\ begun.op # "scroll" => Shows(plotted)

LEMMA RasterBegins == RasterInit => RasterIInv
<1> SUFFICES ASSUME RasterInit PROVE RasterIInv
  OBVIOUS
<1>1. /\ begun \in Drawings /\ surface = Untouched /\ plotted = {} /\ ~drawn /\ slope = Slope(begun)
      /\ px = (IF begun.op = "circle" THEN begun.r ELSE begun.x)
      /\ py = (IF begun.op = "circle" THEN 0 ELSE begun.y)
  BY DEF RasterInit
<1>2. Shows(plotted)
  BY <1>1 DEF Shows, Untouched
<1>3. LineInv
  <2> SUFFICES ASSUME begun.op = "line" PROVE LineInv
    BY DEF LineInv
  <2>1. /\ begun.x \in Int /\ begun.y \in Int /\ begun.x1 \in Int /\ begun.y1 \in Int
        /\ Dx \in Nat /\ Dy \in Nat
    BY <1>1, LineTypes
  <2>2. px = Along(begun.x, begun.x1, 0) /\ py = Along(begun.y, begun.y1, 0)
    BY <1>1, <2>1 DEF Along
  <2>3. slope = 0 * Dx - 0 * Dy + Dx - Dy
    <3>1. slope = Dx - Dy
      BY <1>1 DEF Slope, Dx, Dy
    <3> QED BY <2>1, <3>1
  <2>4. InHalf(Dx, Fault(Dx, Dy, 0, 0)) /\ InHalf(Dy, Fault(Dy, Dx, 0, 0))
    BY <2>1 DEF InHalf, Fault
  <2>5. Traced(plotted, IF Dx >= Dy THEN 0 ELSE 0)
    BY <1>1, TracedNone
  <2>6. LineAt(0, 0)
    BY <2>2, <2>3, <2>4, <2>5 DEF LineAt
  <2>7. 0 \in 0 .. Dx /\ 0 \in 0 .. Dy
    BY <2>1
  <2> QED BY <1>1, <2>6, <2>7 DEF LineInv
<1>4. CircleInv
  <2> SUFFICES ASSUME begun.op = "circle" PROVE CircleInv
    BY DEF CircleInv
  <2>1. PICK r \in Nat : r = begun.r
    BY <1>1, CircleTypes
  <2>2. px = r /\ py = 0 /\ slope = 1 - r
    BY <1>1, <2>1 DEF Slope
  <2>3. PICK rr \in Nat : rr = r * r
    OBVIOUS
  <2>4. IsNearest(r, r, 0) /\ r * (r - 1) = rr - r
    BY <2>3 DEF IsNearest
  <2>5. slope = (py + 1) * (py + 1) + px * (px - 1) - r * r
    BY <2>2, <2>3, <2>4
  <2>6. \A v \in 0 .. r : ~(v < py \/ v > px)
    BY <2>2
  <2> QED BY <1>1, <2>1, <2>2, <2>4, <2>5, <2>6 DEF CircleInv
<1> QED BY <1>1, <1>2, <1>3, <1>4, RectsBegin, TextBegins, BlitBegins, ScrollBegins DEF RasterIInv

\* A call that is not of the kind is none of the invariant's business.
LEMMA OtherKinds ==
  ASSUME RasterIInv, begun' = begun
  PROVE  /\ begun.op # "line" => LineInv'
         /\ begun.op # "circle" => CircleInv'
         /\ begun.op \notin {"fill", "rect"} /\ rects' = rects => RectsInv'
         /\ begun.op # "text" => TextInv'
         /\ begun.op # "blit" => BlitInv'
         /\ begun.op # "scroll" => ScrollInv'
<1>1. begun.op # "line" => LineInv'
  BY DEF LineInv
<1>2. begun.op # "circle" => CircleInv'
  BY DEF CircleInv
<1>3. begun.op \notin {"fill", "rect"} /\ rects' = rects => RectsInv'
  BY DEF RectsInv, RasterIInv
<1>4. begun.op # "text" => TextInv'
  BY DEF TextInv
<1>5. begun.op # "blit" => BlitInv'
  BY DEF BlitInv
<1>6. begun.op # "scroll" => ScrollInv'
  BY DEF ScrollInv
<1> QED BY <1>1, <1>2, <1>3, <1>4, <1>5, <1>6

Picture == <<begun, plotted, rows, px, py, slope, rects, surface>>

LEMMA RowsStay ==
  ASSUME UNCHANGED Picture
  PROVE  /\ \A n, k : CountsUp(n, k)' = CountsUp(n, k)
         /\ \A n : ToCome(n)' = ToCome(n)
         /\ Shows(plotted)' = Shows(plotted)
BY DEF Picture, CountsUp, ToCome, Shows

\* What does not change drawn or sets it when the loop is done.
LEMMA PictureStays ==
  ASSUME RasterIInv, UNCHANGED Picture,
         drawn' = drawn
           \/ /\ begun.op # "line"
              /\ begun.op = "circle" => px < py
              /\ begun.op \in {"fill", "rect"} => rects = << >>
              /\ begun.op \in {"text", "scroll"} => rows = << >>
              /\ begun.op = "blit" => ShortSprite \/ rows = << >>
  PROVE  RasterIInv'
<1>1. /\ begun' = begun /\ plotted' = plotted /\ rows' = rows /\ px' = px /\ py' = py
      /\ slope' = slope /\ rects' = rects /\ surface' = surface
  BY DEF Picture
<1>2. LineInv'
  <2> SUFFICES ASSUME begun.op = "line" PROVE LineInv'
    BY <1>1, OtherKinds
  <2>1. drawn' = drawn
    OBVIOUS
  <2>2. (drawn => LineSound) /\ (~drawn => \E a \in 0 .. Dx, b \in 0 .. Dy : LineAt(a, b))
    BY DEF RasterIInv, LineInv
  <2>3. Dx' = Dx /\ Dy' = Dy
    BY <1>1 DEF Dx, Dy
  <2>4. LineSound => LineSound'
    BY <1>1, <2>3 DEF LineSound, NearLine
  <2>5. ASSUME NEW a \in 0 .. Dx, NEW b \in 0 .. Dy, LineAt(a, b) PROVE LineAt(a, b)'
    <3>1. Traced(plotted, IF Dx >= Dy THEN a ELSE b)'
      <4>1. PICK n : n = IF Dx >= Dy THEN a ELSE b
        OBVIOUS
      <4>2. Traced(plotted', n)
        BY <1>1, <2>5, <4>1 DEF LineAt
      <4>3. Traced(plotted, n)'
        BY <1>1, <4>2, TracedStays
      <4>4. (IF Dx >= Dy THEN a ELSE b)' = n
        BY <2>3, <4>1
      <4> QED BY <4>3, <4>4
    <3> QED BY <1>1, <2>3, <2>5, <3>1 DEF LineAt, LineStart
  <2> QED BY <1>1, <2>1, <2>2, <2>3, <2>4, <2>5 DEF LineInv
<1>3. CircleInv'
  BY <1>1 DEF RasterIInv, CircleInv, TurnOf, Offset, Placed
<1>4. RectsInv'
  BY <1>1 DEF RasterIInv, RectsInv, SameOnSurface, Coverage
<1>5. TextInv'
  <2> SUFFICES ASSUME begun.op = "text" PROVE TextInv'
    BY <1>1, OtherKinds
  <2>1. /\ plotted \subseteq Plane
        /\ drawn => rows = << >>
        /\ \E n \in 0 .. Len(begun.chars) :
             /\ ToCome(n) /\ SameOnSurface(plotted, WrittenTo(n))
             /\ \E m \in Nat, l \in Nat : CursorAt(n, m, l)
    BY DEF RasterIInv, TextInv
  <2>2. \A n : WrittenTo(n)' = WrittenTo(n)
    BY <1>1 DEF WrittenTo, LetterAt, Column, Lines, Printed
  <2>3. \A n, m, l : CursorAt(n, m, l)' = CursorAt(n, m, l)
    BY <1>1 DEF CursorAt, IsStart, Lines
  <2>4. \A n : ToCome(n)' = ToCome(n)
    BY RowsStay
  <2>5. \A n : SameOnSurface(plotted, WrittenTo(n))' = SameOnSurface(plotted, WrittenTo(n))
    BY <1>1, <2>2 DEF SameOnSurface
  <2> QED BY <1>1, <2>1, <2>3, <2>4, <2>5 DEF TextInv
<1>6. BlitInv'
  <2>1. \A n : RowsTo(n)' = RowsTo(n)
    BY <1>1 DEF RowsTo, RowPixels, BitAt
  <2>2. ShortSprite' = ShortSprite
    BY <1>1 DEF ShortSprite
  <2> QED BY <1>1, <2>1, <2>2, RowsStay DEF RasterIInv, BlitInv
<1>7. ScrollInv'
  <2>1. Scrolled' = Scrolled
    BY <1>1 DEF Scrolled
  <2> QED BY <1>1, <2>1, RowsStay DEF RasterIInv, ScrollInv
<1>8. begun.op # "scroll" => Shows(plotted)'
  BY RowsStay DEF RasterIInv
<1> QED BY <1>1, <1>2, <1>3, <1>4, <1>5, <1>6, <1>7, <1>8 DEF RasterIInv

LEMMA RasterStep == RasterIInv /\ [RasterNext]_<<rasterVars, surface>> => RasterIInv'
<1> SUFFICES ASSUME RasterIInv, [RasterNext]_<<rasterVars, surface>> PROVE RasterIInv'
  OBVIOUS
<1> USE DEF RasterIInv
<1>1. CASE LineTurn
  <2>1. begun.op = "line" /\ begun' = begun /\ rects' = rects /\ ~drawn /\ Plot({<<px, py>>})
    BY <1>1 DEF LineTurn, Drawing
  <2>2. LineInv'
    BY <1>1, LineTurnKeeps
  <2>3. PICK a \in 0 .. Dx, b \in 0 .. Dy : LineAt(a, b)
    BY <2>1 DEF LineInv
  <2>4. <<px, py>> \in Plane
    BY <2>1, <2>3, LinePoint
  <2>5. Shows(plotted)'
    BY <2>1, <2>4, PlotShows
  <2> QED BY <2>1, <2>2, <2>5, OtherKinds
<1>2. CASE CircleTurn
  <2>1. /\ begun.op = "circle" /\ begun' = begun /\ rects' = rects /\ px >= py
        /\ Plot({Placed(o) : o \in Octants(px, py)})
    BY <1>2 DEF CircleTurn, Drawing, Placed
  <2>2. CircleInv'
    BY <1>2, CircleTurnKeeps
  <2>3. px \in Nat /\ py \in Nat
    BY <2>1 DEF CircleInv
  <2>4. {Placed(o) : o \in Octants(px, py)} \subseteq Plane
    BY <2>1, <2>3, CirclePlots
  <2>5. Shows(plotted)'
    BY <2>1, <2>4, PlotShows
  <2> QED BY <2>1, <2>2, <2>5, OtherKinds
<1>3. CASE FillRect
  <2>1. begun' = begun
    BY <1>3 DEF FillRect
  <2>2. RectsInv' /\ begun.op \in {"fill", "rect"} /\ (Shows(plotted) => Shows(plotted)')
    BY <1>3, FillKeeps
  <2> QED BY <2>1, <2>2, OtherKinds
<1>4. CASE Char
  <2>1. begun.op = "text" /\ begun' = begun /\ rects' = rects
    BY <1>4 DEF Char, Drawing
  <2>2. TextInv' /\ (Shows(plotted) => Shows(plotted)')
    BY <1>4, CharKeeps
  <2> QED BY <2>1, <2>2, OtherKinds
<1>5. CASE BlitRow
  <2>1. begun.op = "blit" /\ begun' = begun /\ rects' = rects
    BY <1>5 DEF BlitRow, Drawing
  <2>2. BlitInv' /\ (Shows(plotted) => Shows(plotted)')
    BY <1>5, BlitRowKeeps
  <2> QED BY <2>1, <2>2, OtherKinds
<1>6. CASE ScrollByte
  <2>1. begun.op = "scroll" /\ begun' = begun /\ rects' = rects
    BY <1>6 DEF ScrollByte, Drawing
  <2>2. ScrollInv'
    BY <1>6, ScrollByteKeeps
  <2> QED BY <2>1, <2>2, OtherKinds
<1>7. CASE CircleDone
  <2>1. begun.op = "circle" /\ px < py /\ UNCHANGED Picture
    BY <1>7 DEF CircleDone, Drawing, ReturnCall, cursor, Picture
  <2> QED BY <2>1, PictureStays
<1>8. CASE RectsDone
  <2>1. begun.op \in {"fill", "rect"} /\ rects = << >> /\ UNCHANGED Picture
    BY <1>8 DEF RectsDone, Drawing, ReturnCall, cursor, Picture
  <2> QED BY <2>1, PictureStays
<1>9. CASE TextDone
  <2>1. begun.op = "text" /\ rows = << >> /\ UNCHANGED Picture
    BY <1>9 DEF TextDone, Drawing, ReturnCall, cursor, Picture
  <2> QED BY <2>1, PictureStays
<1>10. CASE BlitDone
  <2>1. begun.op = "blit" /\ (ShortSprite \/ rows = << >>) /\ UNCHANGED Picture
    BY <1>10 DEF BlitDone, Drawing, ReturnCall, cursor, Picture
  <2> QED BY <2>1, PictureStays
<1>11. CASE ScrollDone
  <2>1. begun.op = "scroll" /\ rows = << >> /\ UNCHANGED Picture
    BY <1>11 DEF ScrollDone, Drawing, ReturnCall, cursor, Picture
  <2> QED BY <2>1, PictureStays
<1>12. CASE UNCHANGED <<rasterVars, surface>>
  <2>1. UNCHANGED Picture /\ drawn' = drawn
    BY <1>12 DEF rasterVars, cursor, Picture
  <2> QED BY <2>1, PictureStays
<1> QED BY <1>1, <1>2, <1>3, <1>4, <1>5, <1>6, <1>7, <1>8, <1>9, <1>10, <1>11, <1>12 DEF RasterNext

LEMMA DrawnIsExact == RasterIInv => DrawsExactly
<1> SUFFICES ASSUME RasterIInv, drawn PROVE DrawsExactly
  BY DEF DrawsExactly
<1> USE DEF RasterIInv
<1>1. begun \in Drawings
      /\ begun.op \in {"line", "circle", "fill", "rect", "text", "blit", "scroll"}
  BY RasterAssumption
<1>2. CASE begun.op = "line"
  BY <1>2 DEF DrawsExactly, LineInv
<1>3. CASE begun.op = "circle"
  BY <1>3, CircleDrawn DEF DrawsExactly
<1>4. CASE begun.op = "fill"
  <2>1. plotted \cup Coverage(rects) = plotted
    BY <1>4, CoverageNone DEF RectsInv
  <2>2. \A p \in Surface : p \in plotted <=> p \in Area(begun.x, begun.y, begun.w, begun.h)
    BY <1>1, <1>4, <2>1, RectsOfFill DEF RectsInv, SameOnSurface
  <2>3. Shows(Area(begun.x, begun.y, begun.w, begun.h))
    BY <1>4, <2>2, SameShape
  <2> QED BY <1>4, <2>3 DEF DrawsExactly
<1>5. CASE begun.op = "rect"
  <2>1. plotted \cup Coverage(rects) = plotted
    BY <1>5, CoverageNone DEF RectsInv
  <2>2. \A p \in Surface : p \in plotted <=> p \in Outline
    BY <1>1, <1>5, <2>1, RectsOfRect DEF RectsInv, SameOnSurface
  <2>3. Shows(Outline)
    BY <1>5, <2>2, SameShape
  <2> QED BY <1>5, <2>3 DEF DrawsExactly
<1>6. CASE begun.op = "text"
  <2>1. \A p \in Surface : p \in plotted <=> p \in Written
    BY <1>1, <1>6, TextDrawn DEF SameOnSurface
  <2>2. Shows(Written)
    BY <1>6, <2>1, SameShape
  <2> QED BY <1>6, <2>2 DEF DrawsExactly
<1>7. CASE begun.op = "blit"
  BY <1>1, <1>7, BlitDrawn DEF DrawsExactly
<1>8. CASE begun.op = "scroll"
  BY <1>8, ScrollDrawn DEF DrawsExactly
<1> QED BY <1>1, <1>2, <1>3, <1>4, <1>5, <1>6, <1>7, <1>8

\* Every call of the bitmap's drawing draws its shape clipped to the surface and nothing else:
\* lines and circles as near to the ideal as pixels allow, rectangles, text and sprites without
\* a pixel that wrapped to the other side, and a scroll in place no byte twice (bitmap.rs).
THEOREM ShapesAreExact == RasterSpec => []DrawsExactly
<1>1. RasterInit => RasterIInv
  BY RasterBegins
<1>2. RasterIInv /\ [RasterNext]_<<rasterVars, surface>> => RasterIInv'
  BY RasterStep
<1>3. RasterIInv => DrawsExactly
  BY DrawnIsExact
<1> QED BY <1>1, <1>2, <1>3, PTL DEF RasterSpec
=============================================================================
