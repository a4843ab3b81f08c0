SPECIFICATION Spec
CONSTANTS
  Examples = {"hello"}
  MaxEdits = 2
  MaxCommits = 2
INVARIANTS EvidenceSound FirmwareFromCommit
PROPERTIES ReleaseGated
