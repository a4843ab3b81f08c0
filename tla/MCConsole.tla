------------------------------ MODULE MCConsole -------------------------------
(***************************************************************************)
(* What a console application is made of, in one instance: the shell's parser, *)
(* the line editor, the bitmap's drawing, and the arena and the string they    *)
(* store things in. They share no state, so a behaviour runs one of them:      *)
(* world says which, and the others stay where they began.                   *)
(***************************************************************************)
EXTENDS Shell, LineEditor, Raster, Storage

(* Ends of lines on the surface, on its edges, beyond them and at the ends of an *)
(* integer; glyphs of up to two cells; sprites with and without enough bytes.    *)
Coords == {-8, -1, 0, 2, 3, 7}
Corners == {-8, -2, 0, 3, 7}
Sides  == {0, 1, 2, 3, 12}
Glyphs == {{<<0, 0>>, <<2, 4>>}, {<<1, 2>>}, Newline}
Bits(n) == [k \in 0 .. 1 |-> (n \div (2 ^ (1 - k))) % 2 = 1]
Sprites == {<< >>, <<Bits(1)>>, <<Bits(1), Bits(2)>>, <<Bits(1), Bits(2), Bits(3), Bits(1)>>}

AllDrawings ==
       [op : {"line"}, x : Coords, y : Coords, x1 : Coords, y1 : Coords]
  \cup [op : {"circle"}, x : Coords, y : Coords, r : {0, 1, 2, 3, 7}]
  \cup [op : {"fill", "rect"}, x : Corners, y : Corners, w : Sides, h : Sides]
  \cup [op : {"text"}, x : {-2, 0, 1, 7}, y : {-7, -2, 0, 7}, chars : BoundedSeq(Glyphs, 3)]
  \cup [op : {"blit"}, x : -1 .. 1, y : -1 .. 1, w : 0 .. 3, h : 0 .. 2, data : Sprites]
  \cup [op : {"scroll"}, x : {0}, y : {0}, r : 0 .. 5]

RestingDrawing == [op |-> "scroll", x |-> 0, y |-> 0, r |-> 0]

(* Storages inside the address space, at its beginning and at its end; characters *)
(* of one, two and three bytes.                                                  *)
ThreeStorages == {<<3, 6>>, <<9, 7>>, <<0, 5>>}
RestingStorage == <<0, 5>>
ThreeWidths == [a |-> 1, e |-> 2, u |-> 3]

VARIABLE world

consoleVars == <<vars, console, rasterVars, surface, arenaVars, stringVars, world>>

ConsoleInit ==
  /\ world \in {"shell", "editor", "raster", "arena", "string"}
  /\ Init /\ EditorInit
  /\ (world # "raster" => begun = RestingDrawing) /\ RasterInit
  /\ ArenaInit /\ (world # "arena" => storage = RestingStorage)
  /\ StringInit

ConsoleNext ==
  \/ /\ world = "shell" /\ Next
     /\ UNCHANGED <<console, rasterVars, surface, arenaVars, stringVars, world>>
  \/ /\ world = "editor" /\ EditorNext
     /\ UNCHANGED <<vars, rasterVars, surface, arenaVars, stringVars, world>>
  \/ /\ world = "raster" /\ RasterNext
     /\ UNCHANGED <<vars, console, arenaVars, stringVars, world>>
  \/ /\ world = "arena" /\ ArenaNext
     /\ UNCHANGED <<vars, console, rasterVars, surface, stringVars, world>>
  \/ /\ world = "string" /\ StringNext
     /\ UNCHANGED <<vars, console, rasterVars, surface, arenaVars, world>>

ConsoleSpec == ConsoleInit /\ [][ConsoleNext]_consoleVars
=============================================================================
