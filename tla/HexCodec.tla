------------------------------ MODULE HexCodec ------------------------------
(***************************************************************************)
(* Intel HEX of xtask (image.rs, record, to_hex and from_hex): the writer     *)
(* makes one record per step, the text may meet one fault on its way, and the *)
(* reader takes one line per step. A byte is a number below B, an address has  *)
(* two bytes, a line is the sequence of its bytes. The reader is also given    *)
(* texts of other tools, with extended-address records the writer never makes.*)
(***************************************************************************)
EXTENDS Integers, SequencesExt

CONSTANTS
  B,            \* number of byte values, 256 in the code
  Chunk,        \* payload of a full record, 16 in the code
  Images,       \* images to write: functions from addresses to bytes
  Texts         \* texts of other tools

Page == B * B   \* addresses of one segment, 65536 in the code

ASSUME HexAssumption ==
  /\ B \in Nat /\ B > 4 /\ Chunk \in 1 .. B - 1
  /\ \A image \in Images : DOMAIN image \subseteq Nat /\ image \in [DOMAIN image -> 0 .. B - 1]
  /\ Texts \subseteq Seq(Seq(0 .. B - 1))

VARIABLES
  source,       \* the image being written, or the text's meaning is its own
  rest,         \* its addresses not written yet
  lines,        \* the text
  fault,        \* the fault it met
  phase,        \* "write", "send", "read", "accepted" or "refused"
  pos,          \* lines read
  base, eof, image    \* the reader's state

hex == <<source, rest, lines, fault, phase, pos, base, eof, image>>
reader == <<pos, base, eof, image>>

Empty == [a \in {} |-> 0]
Total(bytes) == FoldSeq(LAMBDA x, y : x + y, 0, bytes)

Checksum(bytes) == (B - (Total(bytes) % B)) % B

\* record: length, address, kind, payload and checksum.
Record(address, kind, payload) ==
  LET body == <<Len(payload), address \div B, address % B, kind>> \o payload
  IN  Append(body, Checksum(body))

EndRecord == Record(0, 1, << >>)

HexInit ==
  /\ \/ source \in Images /\ rest = DOMAIN source /\ lines = << >> /\ phase = "write"
     \/ source = Empty /\ rest = {} /\ lines \in Texts /\ phase = "read"
  /\ fault = (IF phase = "write" THEN "none" ELSE "foreign")
  /\ pos = 0 /\ base = 0 /\ eof = FALSE /\ image = Empty

-----------------------------------------------------------------------------
(* to_hex *)

First(addresses) == Min(addresses)

\* Lengths of records that start here: addresses in a row, up to a chunk.
RunLengths(start) == {n \in 1 .. Chunk : \A i \in 0 .. n - 1 : start + i \in rest}

OutOfRange == \E a \in DOMAIN source : a >= Page

RefuseWide ==
  /\ phase = "write" /\ OutOfRange /\ lines = << >> /\ phase' = "refused"
  /\ UNCHANGED <<source, rest, lines, fault, reader>>

WriteRecord ==
  /\ phase = "write" /\ ~OutOfRange /\ rest # {}
  /\ LET start == First(rest)
         n     == Max(RunLengths(start))
     IN  /\ lines' = Append(lines, Record(start, 0, [i \in 1 .. n |->
                              IF start + i - 1 \in rest THEN source[start + i - 1] ELSE 0]))
         /\ rest' = rest \ (start .. start + n - 1)
  /\ UNCHANGED <<source, fault, phase, reader>>

WriteEnd ==
  /\ phase = "write" /\ ~OutOfRange /\ rest = {}
  /\ lines' = Append(lines, EndRecord) /\ phase' = "send"
  /\ UNCHANGED <<source, rest, fault, reader>>

-----------------------------------------------------------------------------
(* The file between writer and reader: at most one fault. *)

Send(kind, text) ==
  /\ phase = "send" /\ phase' = "read" /\ fault' = kind /\ lines' = text
  /\ UNCHANGED <<source, rest, reader>>

Deliver == Send("none", lines)

Corrupt == \E i \in DOMAIN lines : \E j \in DOMAIN lines[i], byte \in 0 .. B - 1 :
  /\ byte # lines[i][j]
  /\ Send("corrupt", [lines EXCEPT ![i][j] = byte])

Shorten == \E i \in DOMAIN lines : Send("short", [lines EXCEPT ![i] = Front(@)])

Drop == \E i \in DOMAIN lines : Send("drop", RemoveAt(lines, i))

Repeat == \E i, j \in DOMAIN lines : Send("repeat", InsertAt(lines, j, lines[i]))

Swap == \E i, j \in DOMAIN lines :
  i < j /\ Send("swap", [lines EXCEPT ![i] = lines[j], ![j] = lines[i]])

Truncate == \E n \in 0 .. Len(lines) - 1 : Send("truncate", SubSeq(lines, 1, n))

-----------------------------------------------------------------------------
(* from_hex *)

Payload(line) == SubSeq(line, 5, Len(line) - 1)
AddressOf(line) == line[2] * B + line[3]

\* Mutant: a line's length is taken on trust.
FramedAnyLength(line) == Len(line) >= 5 /\ Total(line) % B = 0

Framed(line) == Len(line) >= 5 /\ Len(line) = line[1] + 5 /\ Total(line) % B = 0

Cells(line) == {base + AddressOf(line) + i - 1 : i \in 1 .. Len(Payload(line))}

IsEnd(line)  == line[4] = 1 /\ Payload(line) = << >> /\ AddressOf(line) = 0
IsBase(line) == line[4] = 4 /\ Len(Payload(line)) = 2 /\ AddressOf(line) = 0

\* A data record stays in its segment and gives no address a second byte.
Fits(line) ==
  /\ line[4] = 0 /\ AddressOf(line) + Len(Payload(line)) <= Page
  /\ Cells(line) \cap DOMAIN image = {}

Line == lines[pos + 1]
Reading == phase = "read" /\ pos < Len(lines)
Readable == ~eof /\ Framed(Line)

TakeLine == pos' = pos + 1 /\ UNCHANGED <<source, rest, lines, fault, phase>>

ReadRecord ==
  /\ Reading /\ Readable /\ Fits(Line) /\ TakeLine
  /\ image' = [a \in DOMAIN image \cup Cells(Line) |->
                 IF a \in Cells(Line) THEN Payload(Line)[a - base - AddressOf(Line) + 1]
                 ELSE image[a]]
  /\ UNCHANGED <<base, eof>>

ReadEnd ==
  /\ Reading /\ Readable /\ IsEnd(Line) /\ TakeLine
  /\ eof' = TRUE /\ UNCHANGED <<base, image>>

ReadBase ==
  /\ Reading /\ Readable /\ IsBase(Line) /\ TakeLine
  /\ base' = (Payload(Line)[1] * B + Payload(Line)[2]) * Page
  /\ UNCHANGED <<eof, image>>

Refuse ==
  /\ Reading /\ ~(Readable /\ (Fits(Line) \/ IsEnd(Line) \/ IsBase(Line)))
  /\ phase' = "refused" /\ UNCHANGED <<source, rest, lines, fault, reader>>

EndSeen == eof

FinishText ==
  /\ phase = "read" /\ pos = Len(lines)
  /\ phase' = IF EndSeen THEN "accepted" ELSE "refused"
  /\ UNCHANGED <<source, rest, lines, fault, reader>>

Read == ReadRecord \/ ReadEnd \/ ReadBase \/ Refuse \/ FinishText
Channel == Deliver \/ Corrupt \/ Shorten \/ Drop \/ Repeat \/ Swap \/ Truncate

HexNext == RefuseWide \/ WriteRecord \/ WriteEnd \/ Channel \/ Read

HexSpec == HexInit /\ [][HexNext]_hex

-----------------------------------------------------------------------------
\* Lines are made of bytes, and the reader's image of bytes at addresses.
HexTypeOK ==
  /\ \A i \in DOMAIN lines : \A j \in DOMAIN lines[i] : lines[i][j] \in 0 .. B - 1
  /\ pos \in 0 .. Len(lines) /\ base \in Nat /\ eof \in BOOLEAN
  /\ DOMAIN image \subseteq Nat /\ \A a \in DOMAIN image : image[a] \in 0 .. B - 1
  /\ phase \in {"write", "send", "read", "accepted", "refused"}

\* What the writer writes the reader reads back, whatever gaps, runs and
\* segment ends the image has; only an image past the segment is refused.
RoundTrip ==
  /\ fault = "none" /\ phase = "accepted" => image = source
  /\ fault = "none" /\ phase = "refused" => OutOfRange

\* One fault is refused or harmless: no damaged byte, short line, repeated
\* record or truncated text is ever accepted.
OneFaultCaught == fault \in {"corrupt", "short", "repeat", "truncate"} => phase # "accepted"

\* Whatever single fault a text met, every byte accepted is a byte written, and
\* only a lost record loses any; the report's digest guards against that.
NeverInvents ==
  phase = "accepted" /\ fault # "foreign" =>
    /\ \A a \in DOMAIN image : a \in DOMAIN source /\ image[a] = source[a]
    /\ fault # "drop" => image = source

-----------------------------------------------------------------------------
(* What a text means, said of the whole text at once. *)

Kind(i)    == lines[i][4]
BaseOf(i)  == LET before == {j \in 1 .. i : Kind(j) = 4}
              IN  IF before = {} THEN 0
                  ELSE (lines[Max(before)][5] * B + lines[Max(before)][6]) * Page
Bytes(i)   == {<<BaseOf(i) + AddressOf(lines[i]) + k - 1, Payload(lines[i])[k]>> :
                 k \in 1 .. Len(Payload(lines[i]))}
Meaning    == UNION {Bytes(i) : i \in {j \in DOMAIN lines : Kind(j) = 0}}

\* A foreign text is accepted only as what it says: its one end record is last,
\* and the image holds each data byte, under the segment announced before it.
ReadsAsWritten ==
  phase = "accepted" =>
    /\ {i \in DOMAIN lines : Kind(i) = 1} = {Len(lines)}
    /\ {<<a, image[a]>> : a \in DOMAIN image} = Meaning

\* A text between the tools is trusted no further than it deserves: it reads back as written,
\* no damage passes, nothing is invented, and a foreign text means what it says (image.rs,
\* 289 to 364).
TextsTrusted == HexTypeOK /\ RoundTrip /\ OneFaultCaught /\ NeverInvents /\ ReadsAsWritten
=============================================================================
