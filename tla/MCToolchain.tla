----------------------------- MODULE MCToolchain ------------------------------
(***************************************************************************)
(* xtask and what it builds on, in one instance: the firmware tests, the hex   *)
(* codec, the ELF audit, the tester at work, and the assembly every firmware   *)
(* starts with and calls. They share no state, so a behaviour runs one of      *)
(* them: world says which, and the others stay where they began.             *)
(***************************************************************************)
EXTENDS FirmwareTests, HexCodec, ElfAudit, Memory, Hart, Rig

(* Images with a full record, a gap, the last address of the segment and one past *)
(* it; foreign texts of up to three records of every kind.                       *)
Cell(a) == {Empty} \cup [{a} -> {1, 7}]

SmallImages ==
  {f @@ g @@ h @@ k @@ l : f \in Cell(0), g \in Cell(1), h \in Cell(2),
                           k \in Cell(Page - 1), l \in {Empty} \cup [{Page} -> {0}]}

Pieces ==
  { Record(0, 0, <<1>>), Record(1, 0, <<2, 3>>), Record(0, 0, <<5, 6>>), Record(Page - 1, 0, <<1, 1>>),
    Record(0, 4, <<0, 1>>), Record(0, 4, <<0, 0>>), Record(1, 4, <<0, 1>>), Record(0, 4, <<1>>),
    Record(0, 2, <<0, 1>>), Record(1, 1, << >>), EndRecord, <<0, 0, 0>>, << >> }

SmallTexts == BoundedSeq(Pieces, 3) \cup {s \o <<EndRecord>> : s \in BoundedSeq(Pieces, 3)}

(* Memory all of whose bytes differ, one that repeats, and one nearly uniform.   *)
ThreeMemories ==
  {[a \in Addresses |-> a], [a \in Addresses |-> a % 2],
   [a \in Addresses |-> IF a = 3 THEN 2 ELSE 1]}

Resting == [entry |-> "memset", dst |-> 0, src |-> 0, n |-> 0]

VARIABLE world

toolchain == <<tests, hex, auditVars, memoryVars, hartVars, rigVars, world>>

ToolchainInit ==
  /\ world \in {"tests", "hex", "audit", "memory", "hart", "rig"}
  /\ TestsInit
  /\ (world # "hex" => source = Empty /\ lines = << >> /\ phase = "read") /\ HexInit
  /\ AuditInit /\ (world # "audit" => ~linker)
  /\ (world # "memory" => given = Resting /\ before = [a \in Addresses |-> a]) /\ MemoryInit
  /\ HartInit /\ RigInit

ToolchainNext ==
  \/ /\ world = "tests" /\ TestsNext
     /\ UNCHANGED <<hex, auditVars, memoryVars, hartVars, rigVars, world>>
  \/ /\ world = "hex" /\ HexNext
     /\ UNCHANGED <<tests, auditVars, memoryVars, hartVars, rigVars, world>>
  \/ /\ world = "audit" /\ AuditNext
     /\ UNCHANGED <<tests, hex, memoryVars, hartVars, rigVars, world>>
  \/ /\ world = "memory" /\ MemoryNext
     /\ UNCHANGED <<tests, hex, auditVars, hartVars, rigVars, world>>
  \/ /\ world = "hart" /\ HartNext
     /\ UNCHANGED <<tests, hex, auditVars, memoryVars, rigVars, world>>
  \/ /\ world = "rig" /\ RigNext
     /\ UNCHANGED <<tests, hex, auditVars, memoryVars, hartVars, world>>

(* The fairness of the firmware tests: their threads run, in the world they run in. *)
ToolchainSpec ==
  /\ ToolchainInit /\ [][ToolchainNext]_toolchain
  /\ WF_tests(world = "tests" /\ Main)
  /\ \A w \in Threads : WF_tests(world = "tests" /\ Work(w))
=============================================================================
