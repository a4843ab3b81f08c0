SPECIFICATION OutputSpec
CONSTANTS
  Pins = {p1, p2}
  Masks = {{p1}, {p2}}
PROPERTY OnlySelectedUpdated
