-------------------------------- MODULE Shell --------------------------------
(***************************************************************************)
(* parse and number of src/src/shell.rs, reading a line from left to right:   *)
(* a step takes the command word, begins or ends an operand, or takes one of   *)
(* its digits. The line is not fixed beforehand: each step chooses what comes   *)
(* next in it. The machine's numbers wrap; exact and exacts, which are not in   *)
(* the code, are the operands' values in unbounded arithmetic.                 *)
(***************************************************************************)
EXTENDS Integers, Sequences

CONSTANTS
  MaxU,         \* u32::MAX
  Coord, Colour,    \* the largest coordinate (31) and colour (255, which is u8::MAX)
  Digits        \* digit values that a line may hold, 0 .. 15 for the letters

ASSUME ShellAssumption ==
  /\ MaxU \in Nat /\ Coord \in Nat /\ Colour \in Nat /\ Coord <= Colour
  /\ Digits \subseteq 0 .. 15

VARIABLES
  pc,               \* "name", "operand", "digits", "done"
  kind, args,       \* the command, and the operands read so far
  radix, empty, value,    \* the loop of number: its base, whether a digit was seen, its result
  result,           \* "none" until parse returns
  operands,         \* what the returned command carries
  exact, exacts

vars == <<pc, kind, args, radix, empty, value, result, operands, exact, exacts>>

Radices == {2, 10, 16}
Counts  == [help |-> 0, read |-> 0, write |-> 1, clear |-> 1, pixel |-> 3]
Kinds   == DOMAIN Counts
Errors  == {"Empty", "Unknown", "Arguments", "Number", "Range"}

Init ==
  /\ pc = "name" /\ kind = "none" /\ args = << >>
  /\ radix = 10 /\ empty = TRUE /\ value = 0
  /\ result = "none" /\ operands = << >> /\ exact = 0 /\ exacts = << >>

number == <<radix, empty, value, exact>>

Err(e) ==
  /\ pc' = "done" /\ result' = e
  /\ UNCHANGED <<kind, args, number, operands, exacts>>

\* The first word: a command, something else, or no word at all.
Name ==
  /\ pc = "name"
  /\ \/ Err("Empty") \/ Err("Unknown")
     \/ \E k \in Kinds : kind' = k /\ pc' = "operand"
                         /\ UNCHANGED <<args, number, result, operands, exacts>>

Wanted == pc = "operand" /\ Len(args) < Counts[kind]

NoOperand == Wanted /\ Err("Arguments")

\* The next word, whose prefix tells its base.
Operand ==
  /\ Wanted
  /\ \E r \in Radices : radix' = r
  /\ pc' = "digits" /\ empty' = TRUE /\ value' = 0 /\ exact' = 0
  /\ UNCHANGED <<kind, args, result, operands, exacts>>

\* A character that is no digit, or none of this base.
NoDigit == pc = "digits" /\ Err("Number")

\* Mutant: the limit is taken to be too large itself.
LimitOne == (MaxU \div radix) - 1

\* u32::MAX shifted by the bits of a digit, or divided by ten.
Limit == MaxU \div radix

\* Arithmetic on a u32 keeps the low bits.
Wrapped(v) == v % (MaxU + 1)

\* The value moved up by one digit: a shift, or the sum of two shifts. Neither reports
\* what it loses.
Scaled == Wrapped(value * radix)

\* Mutant: nothing is checked before scaling, only the addition.
FitsUnlimited(d) == Scaled + d <= MaxU

\* The two checks of one turn of the loop: the value before it is scaled, and the
\* checked addition to what scaling left of it.
Fits(d) == value <= Limit /\ Scaled + d <= MaxU

TooLarge(d) ==
  /\ pc = "digits" /\ d < radix /\ ~Fits(d)
  /\ pc' = "done" /\ result' = "Range"
  /\ exact' = exact * radix + d
  /\ UNCHANGED <<kind, args, radix, empty, value, operands, exacts>>

Digit(d) ==
  /\ pc = "digits" /\ d < radix /\ Fits(d)
  /\ value' = Wrapped(Scaled + d)
  /\ exact' = exact * radix + d
  /\ empty' = FALSE
  /\ UNCHANGED <<pc, kind, args, radix, result, operands, exacts>>

\* The word ends; a word that is only a prefix has no digits. A word of base ten has
\* at least one character.
EndOperand ==
  /\ pc = "digits"
  /\ \/ empty /\ radix # 10 /\ Err("Number")
     \/ /\ ~empty
        /\ args' = Append(args, value) /\ exacts' = Append(exacts, exact)
        /\ pc' = "operand" /\ empty' = TRUE /\ value' = 0 /\ exact' = 0
        /\ UNCHANGED <<kind, radix, result, operands>>

Finished == pc = "operand" /\ Len(args) = Counts[kind]

TooMany == Finished /\ Err("Arguments")

\* Mutant: one of the two coordinates is not checked.
InRangeX ==
  /\ kind = "clear" => args[1] <= Colour
  /\ kind = "pixel" => args[1] <= Coord /\ args[3] <= Colour

InRange ==
  /\ kind = "clear" => args[1] <= Colour
  /\ kind = "pixel" => args[1] <= Coord /\ args[2] <= Coord /\ args[3] <= Colour

\* The operands in the command: a word of GPIO levels as it is, all others cast to a byte.
Carried == [n \in DOMAIN args |-> IF kind = "write" THEN args[n] ELSE args[n] % (Colour + 1)]

Return ==
  /\ Finished
  /\ pc' = "done"
  /\ result' = IF InRange THEN "Ok" ELSE "Range"
  /\ operands' = IF InRange THEN Carried ELSE << >>
  /\ UNCHANGED <<kind, args, number, exacts>>

\* The caller parses the next line.
Again ==
  /\ pc = "done"
  /\ pc' = "name" /\ kind' = "none" /\ args' = << >>
  /\ radix' = 10 /\ empty' = TRUE /\ value' = 0
  /\ result' = "none" /\ operands' = << >> /\ exact' = 0 /\ exacts' = << >>

Next ==
  \/ Name \/ NoOperand \/ Operand \/ NoDigit
  \/ \E d \in Digits : TooLarge(d) \/ Digit(d)
  \/ EndOperand \/ TooMany \/ Return \/ Again

Spec == Init /\ [][Next]_vars

-----------------------------------------------------------------------------
\* The parser's and the ghosts' types; every machine number is one.
TypeOK ==
  /\ pc \in {"name", "operand", "digits", "done"}
  /\ kind \in Kinds \cup {"none"} /\ (pc \in {"operand", "digits"} => kind \in Kinds)
  /\ args \in Seq(0 .. MaxU) /\ Len(args) <= 3
  /\ radix \in Radices /\ empty \in BOOLEAN /\ value \in 0 .. MaxU
  /\ result \in Errors \cup {"none", "Ok"}
  /\ operands \in Seq(0 .. MaxU)
  /\ exact \in Nat /\ exacts \in Seq(Nat)

\* Although scaling wraps silently, what number has read is always the number that was typed:
\* the check before scaling (shell.rs:32) and the checked addition together let no digit
\* through that loses a bit, in any base and after any digits.
OperandsExact == args = exacts /\ (pc = "digits" => value = exact)

\* What the operands of each command may be.
Bound(k, n) == CASE k = "write" -> MaxU
                 [] k = "clear" \/ (k = "pixel" /\ n = 3) -> Colour
                 [] OTHER -> Coord

\* A command is executed only with as many operands as it takes, each in its range, and it
\* carries the numbers that were typed: the casts to bytes cut nothing off.
AcceptsMeant ==
  result = "Ok" =>
    /\ Len(exacts) = Counts[kind]
    /\ \A n \in DOMAIN exacts : exacts[n] <= Bound(kind, n)
    /\ operands = exacts

\* A number is refused as too large only if it is: the largest value of each base still parses.
RangeIsTooLarge ==
  result = "Range" =>
    \/ exact > MaxU
    \/ \E n \in DOMAIN exacts : exacts[n] > Bound(kind, n)
=============================================================================
