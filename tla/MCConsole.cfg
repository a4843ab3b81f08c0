SPECIFICATION ConsoleSpec
CONSTANTS
  MaxU = 31
  Coord = 2
  Colour = 7
  Digits = {0, 1, 3, 9, 15}
  N = 2
  Chars = {"a", "b"}
  MaxKeys = 6
  SideX = 5
  SideY = 4
  IMax = 7
  Octet = 2
  Drawings <- AllDrawings
  Space = 16
  Storages <- ThreeStorages
  Sizes = {0, 1, 2, 3, 15}
  Aligns = {0, 1, 2, 3, 4, 8}
  Capacity = 4
  Width <- ThreeWidths
INVARIANTS OperandsExact AcceptsMeant RangeIsTooLarge SubmitsTyped ScreenShowsLine
  DrawsExactly StorageSound
CHECK_DEADLOCK FALSE
