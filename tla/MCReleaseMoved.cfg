SPECIFICATION Spec
CONSTANTS
  Examples = {"hello"}
  MaxEdits = 1
  MaxCommits = 2
INVARIANTS ReleaseMatchesArchive
