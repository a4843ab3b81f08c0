----------------------------- MODULE FixedString -----------------------------
(***************************************************************************)
(* The bounded string of src/src/fixed.rs, byte by byte. A byte is the        *)
(* character it belongs to and its place in it. content is not in the code:   *)
(* the characters the string should hold.                                    *)
(***************************************************************************)
EXTENDS Integers, SequencesExt

CONSTANTS
  Capacity,     \* N, in bytes
  Width         \* characters, each with its number of bytes in UTF-8

ASSUME StringAssumption == Capacity \in Nat /\ \A c \in DOMAIN Width : Width[c] \in 1 .. 4

VARIABLES data, length, content

stringVars == <<data, length, content>>

Unset == <<"none", 0>>
StringInit == data = [k \in 1 .. Capacity |-> Unset] /\ length = 0 /\ content = << >>

Encoded(c) == [k \in 1 .. Width[c] |-> <<c, k>>]
Bytes(chars) == FlattenSeq([k \in DOMAIN chars |-> Encoded(chars[k])])

Write(s) ==
  /\ data' = [k \in 1 .. Capacity |-> IF k - length \in DOMAIN s THEN s[k - length] ELSE data[k]]
  /\ length' = length + Len(s)

\* Mutant: the bytes that fit are kept.
PushPart(chars) ==
  LET kept == SubSeq(Bytes(chars), 1, Min({Capacity - length, Len(Bytes(chars))}))
  IN  Write(kept) /\ content' = IF kept = Bytes(chars) THEN content \o chars ELSE content

\* push_str, and push of one character; one that does not fit changes nothing.
PushStr(chars) ==
  /\ Len(Bytes(chars)) <= Capacity - length
  /\ Write(Bytes(chars)) /\ content' = content \o chars

\* The last character starts at the last byte that is a first one.
LastStart == CHOOSE k \in 1 .. length :
  data[k][2] = 1 /\ \A j \in k + 1 .. length : data[j][2] # 1

PopChar ==
  /\ length # 0 /\ length' = length - Width[data[LastStart][1]]
  /\ content' = Front(content) /\ UNCHANGED data

ClearString == length' = 0 /\ content' = << >> /\ UNCHANGED data

StringNext == (\E chars \in BoundedSeq(DOMAIN Width, 2) : PushStr(chars)) \/ PopChar \/ ClearString

StringSpec == StringInit /\ [][StringNext]_stringVars

-----------------------------------------------------------------------------
\* The bytes of the string are whole characters, those pushed and not taken back, in order,
\* however strings that do not fit are pushed in between (fixed.rs push_str, pop).
StringWhole == SubSeq(data, 1, length) = Bytes(content)
=============================================================================
