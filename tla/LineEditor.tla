----------------------------- MODULE LineEditor ------------------------------
(***************************************************************************)
(* LineEditor<N> of src/src/console.rs. The stored bytes and their length    *)
(* are one sequence, line. keys and screen are not in the code: keys is what  *)
(* has been fed, screen what a program shows that follows the events as       *)
(* examples/line_console.rs does.                                            *)
(***************************************************************************)
EXTENDS Integers, SequencesExt

CONSTANTS
  N,            \* capacity of a line
  Chars,        \* printable characters
  MaxKeys       \* bound: calls of feed and clear

ASSUME EditorAssumption == N \in Nat /\ MaxKeys \in Nat

VARIABLES
  line, overflow, ready, after_cr,    \* struct LineEditor
  event,                              \* what the last feed returned
  keys, screen

editor == <<line, overflow, ready, after_cr>>
console   == <<editor, event, keys, screen>>

\* Bytes with a meaning of their own, and one of those that have none. A call of clear
\* is recorded in keys as "clear()".
Ends    == {"CR", "LF"}
Kills   == {"ETX", "NAK"}
Keys    == Chars \cup Ends \cup Kills \cup {"BS", "TAB"}

\* A printable character is none of the other bytes, and no event but its own.
ASSUME CharsAssumption ==
  Chars \cap (Ends \cup Kills \cup
    {"BS", "TAB", "clear()", "None", "Erase", "Complete", "Overflow", "Cancelled", "Cleared"}) = {}

EditorInit ==
  /\ line = << >> /\ overflow = FALSE /\ ready = FALSE /\ after_cr = FALSE
  /\ event = "None" /\ keys = << >> /\ screen = << >>

\* LineEditor::clear
Cleared == [line |-> << >>, overflow |-> FALSE, ready |-> FALSE]

\* Mutant: the text of the last line stays.
OpenedStale == [line |-> line, overflow |-> overflow /\ ~ready, ready |-> FALSE]

\* What a byte is applied to: a line that was handed out makes room for the next one.
Opened ==
  IF ready THEN Cleared ELSE [line |-> line, overflow |-> overflow, ready |-> FALSE]

Becomes(now) == line' = now.line /\ overflow' = now.overflow /\ ready' = now.ready

Returns(e) ==
  /\ event' = e
  /\ screen' = CASE e = "Erase" -> Front(screen)
                 [] e = "None" -> screen
                 [] e \in Chars -> Append(screen, e)
                 [] OTHER -> << >>

\* The newline of a carriage return and newline pair.
Swallowed(b) == b = "LF" /\ after_cr

Swallow(b) ==
  /\ Swallowed(b)
  /\ after_cr' = FALSE
  /\ Returns("None") /\ UNCHANGED <<line, overflow, ready>>

End(b) ==
  /\ b \in Ends
  /\ Becomes([Opened EXCEPT !.ready = TRUE])
  /\ Returns(IF Opened.overflow THEN "Overflow" ELSE "Complete")

Kill(b) ==
  /\ b \in Kills
  /\ Becomes(Cleared)
  /\ Returns(IF b = "ETX" THEN "Cancelled" ELSE "Cleared")

Erase(b) ==
  /\ b = "BS"
  /\ IF ~Opened.overflow /\ Opened.line # << >>
     THEN Becomes([Opened EXCEPT !.line = Front(@)]) /\ Returns("Erase")
     ELSE Becomes(Opened) /\ Returns("None")

\* Mutant: a byte that does not fit is dropped, and the line is cut off.
StoreTruncated(b) ==
  /\ b \in Chars
  /\ IF Len(Opened.line) >= N
     THEN Becomes(Opened) /\ Returns("None")
     ELSE Becomes([Opened EXCEPT !.line = Append(@, b)]) /\ Returns(b)

Store(b) ==
  /\ b \in Chars
  /\ IF Len(Opened.line) >= N \/ Opened.overflow
     THEN Becomes([Opened EXCEPT !.overflow = TRUE]) /\ Returns("None")
     ELSE Becomes([Opened EXCEPT !.line = Append(@, b)]) /\ Returns(b)

Ignore(b) == b = "TAB" /\ Becomes(Opened) /\ Returns("None")

\* LineEditor::feed
Feed(b) ==
  /\ Len(keys) < MaxKeys
  /\ keys' = Append(keys, b)
  /\ \/ Swallow(b)
     \/ /\ ~Swallowed(b)
        /\ after_cr' = (b = "CR")
        /\ End(b) \/ Kill(b) \/ Erase(b) \/ Store(b) \/ Ignore(b)

\* The program calls clear and starts a new line on its screen.
Clear ==
  /\ Len(keys) < MaxKeys
  /\ keys' = Append(keys, "clear()")
  /\ Becomes(Cleared) /\ screen' = << >> /\ event' = "None"
  /\ UNCHANGED after_cr

\* No byte has arrived and the program polls on.
Poll == UNCHANGED console

EditorNext == (\E b \in Keys : Feed(b)) \/ Clear \/ Poll

EditorSpec == EditorInit /\ [][EditorNext]_console

-----------------------------------------------------------------------------
(* The reference: lines as a typist understands them, from the keys alone.   *)

\* The byte fed before the k-th key is a carriage return.
AfterReturn(k) ==
  \E j \in 1 .. k - 1 : keys[j] = "CR" /\ \A m \in j + 1 .. k - 1 : keys[m] = "clear()"

IsEnd(k) == keys[k] = "CR" \/ (keys[k] = "LF" /\ ~AfterReturn(k))

StartsOver(k) == IsEnd(k) \/ keys[k] \in Kills \cup {"clear()"}

\* The keys of the line that the k-th key ends.
Typed(k) ==
  LET before == {j \in 1 .. k - 1 : StartsOver(j)}
      first  == IF before = {} THEN 1 ELSE Max(before) + 1
  IN  SubSeq(keys, first, k - 1)

\* What typing some keys gives on a line without end.
Typing(text, b) ==
  IF b \in Chars THEN Append(text, b)
  ELSE IF b = "BS" /\ text # << >> THEN Front(text) ELSE text
Text(typed) == FoldLeft(Typing, << >>, typed)

NeverTooLong(typed) == \A k \in 0 .. Len(typed) : Len(Text(SubSeq(typed, 1, k))) <= N

\* A line ends once, and is what was typed or is refused whole: CR, LF and CR LF each submit
\* exactly one line, whatever was typed, cleared or cancelled before, never one cut off and
\* never one mixed with an earlier line ("never executed as truncated commands").
SubmitsTyped ==
  keys # << >> =>
    /\ event \in {"Complete", "Overflow"} <=> IsEnd(Len(keys))
    /\ IsEnd(Len(keys)) =>
         LET typed == Typed(Len(keys))
         IN  IF NeverTooLong(typed) THEN event = "Complete" /\ line = Text(typed)
             ELSE event = "Overflow"

\* A screen that follows the events shows the line that would be submitted, at any moment.
ScreenShowsLine == ~ready => screen = line
=============================================================================
