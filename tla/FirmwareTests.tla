--------------------------- MODULE FirmwareTests ----------------------------
(***************************************************************************)
(* xtask's firmware tests (main.rs, firmware_tests) and the upstream         *)
(* checkout they load (project.rs, fetch_upstream and check_upstream). One    *)
(* command at a time; inside it a workers of workers takes jobs from a shared    *)
(* counter, and the main thread joins them in order. Meanwhile a developer    *)
(* edits images and the checkout. Ghosts: ran, trouble, pinned and touched     *)
(* are what really happened, kept for the properties.                         *)
(***************************************************************************)
EXTENDS Integers, FiniteSets

CONSTANTS
  Firmware,       \* number of built images, taken in order of their names
  Workers         \* number of worker threads of an official run

ASSUME FirmwareTestsAssumption == Firmware \in Nat \ {0, 1} /\ Workers \in 1 .. 8

VARIABLES
  checkout,       \* .emulsiv-upstream: [exists, fetched, head, dirty]
  intact,         \* the dist/*.hex that hold what the build report hashed
  command,        \* the command in progress: [kind, first, last], jobs first..last
  step,           \* where its main thread is
  counter,        \* the shared job counter
  at, job, passed,\* per worker: position, job taken, results so far
  joined,         \* handles joined so far
  report,         \* the report written last: what it is of, the images it lists
  ended,          \* how the last command ended
  ran,            \* per image: scenarios completed on it by this command
  trouble,        \* a worker of this command failed or panicked
  pinned,         \* every module loaded by this command was at the pin, unmodified
  touched         \* a user changed the checkout during this command

disk  == <<checkout, intact, report>>
workers == <<counter, at, job, passed, joined>>
truth == <<ran, trouble, pinned>>
tests  == <<disk, workers, truth, command, step, ended, touched>>

Built == 1 .. Firmware
Threads == 1 .. Workers
Kinds == {"idle", "fetch", "smoke", "upstream"}
Idle == [kind |-> "idle", first |-> 1, last |-> 0]
Absent == [exists |-> FALSE, fetched |-> FALSE, head |-> "none", dirty |-> FALSE]
Pinned == checkout.head = "pin" /\ ~checkout.dirty

Official == command.kind = "upstream"
Crew == IF Official THEN Threads ELSE {1}

Jobs == command.first .. command.last

TestsInit ==
  /\ checkout = Absent /\ intact = Built
  /\ report = [of |-> <<"none", "none">>, lists |-> {}]
  /\ command = Idle /\ step = "idle" /\ ended = "none"
  /\ counter = 1 /\ joined = 0
  /\ at = [w \in Threads |-> "off"] /\ job = [w \in Threads |-> 0]
  /\ passed = [w \in Threads |-> {}]
  /\ ran = [i \in Built |-> 0] /\ trouble = FALSE /\ pinned = TRUE
  /\ touched = FALSE

-----------------------------------------------------------------------------
(* Commands of the main thread. *)

\* The step a command starts with: an existing checkout is never fetched again.
FirstStep(kind) ==
  CASE kind = "smoke" -> "spawn"
    [] kind = "upstream" -> "head"
    [] kind = "fetch" -> IF checkout.exists THEN "head" ELSE "init"

Start ==
  /\ step = "idle"
  /\ \E kind \in Kinds \ {"idle"}, first, last \in Built :
       /\ first = last \/ (first = 1 /\ last = Firmware)      \* one name, or all
       /\ command' = [kind |-> kind, first |-> first, last |-> last]
       /\ step' = FirstStep(kind)
  /\ ended' = "none" /\ touched' = FALSE
  /\ UNCHANGED <<disk, workers, truth>>

\* The process ends, and its threads and what it knew with it.
End(outcome) ==
  /\ step' = "idle" /\ ended' = outcome /\ command' = Idle
  /\ counter' = 1 /\ joined' = 0
  /\ at' = [w \in Threads |-> "off"] /\ job' = [w \in Threads |-> 0]
  /\ passed' = [w \in Threads |-> {}]
  /\ ran' = [i \in Built |-> 0] /\ trouble' = FALSE /\ pinned' = TRUE
  /\ touched' = FALSE

GoTo(name) == step' = name /\ UNCHANGED <<workers, truth, command, ended, touched>>

\* git init, git fetch and git checkout; the network may fail the fetch.
GitInit ==
  /\ step = "init"
  /\ checkout' = [checkout EXCEPT !.exists = TRUE]
  /\ GoTo("fetch") /\ UNCHANGED <<intact, report>>

GitFetch ==
  /\ step = "fetch" /\ checkout.exists
  /\ checkout' = [checkout EXCEPT !.fetched = TRUE]
  /\ GoTo("checkout") /\ UNCHANGED <<intact, report>>

FetchFails ==
  /\ step = "fetch" /\ checkout.exists
  /\ End("offline") /\ UNCHANGED disk

GitCheckout ==
  /\ step = "checkout" /\ checkout.fetched
  /\ checkout' = [checkout EXCEPT !.head = "pin"]
  /\ GoTo("head") /\ UNCHANGED <<intact, report>>

\* git refuses: the user removed the repository or has files in the way.
CheckoutFails ==
  /\ \/ step \in {"fetch", "checkout"} /\ ~checkout.exists
     \/ step = "checkout" /\ checkout.dirty
  /\ End("failed") /\ UNCHANGED disk

\* check_upstream: two git commands, HEAD and then the work tree.
HeadMatches == checkout.head = "pin"

CleanTree == checkout.exists /\ ~checkout.dirty

AfterCheck == IF command.kind = "fetch" THEN "finish" ELSE "spawn"

CheckHead ==
  /\ step = "head"
  /\ IF HeadMatches THEN GoTo("status") ELSE End("failed")
  /\ UNCHANGED disk

CheckStatus ==
  /\ step = "status"
  /\ IF CleanTree THEN GoTo(AfterCheck) ELSE End("failed")
  /\ UNCHANGED disk

FinishFetch == step = "finish" /\ End("ok") /\ UNCHANGED disk

Spawn ==
  /\ step = "spawn" /\ step' = "join"
  /\ counter' = command.first /\ joined' = 0
  /\ at' = [w \in Threads |-> IF w \in Crew THEN "claim" ELSE "off"]
  /\ passed' = [w \in Threads |-> {}] /\ job' = [w \in Threads |-> 0]
  /\ UNCHANGED <<disk, truth, command, ended, touched>>

-----------------------------------------------------------------------------
(* A worker's loop. *)

MoveTo(w, position) == at' = [at EXCEPT ![w] = position]

\* fetch_add: the index taken and the counter advanced are one step.
TakeJob(w) ==
  /\ job' = [job EXCEPT ![w] = counter]
  /\ counter' = counter + 1

Claim(w) ==
  /\ at[w] = "claim"
  /\ IF counter \in Jobs
     THEN TakeJob(w) /\ MoveTo(w, "read") /\ UNCHANGED <<passed, joined>>
     ELSE MoveTo(w, "done") /\ counter' = counter + 1 /\ UNCHANGED <<job, passed, joined>>
  /\ UNCHANGED <<disk, truth, command, step, ended, touched>>

\* The text is hashed after it was read, and the same text is run below.
Audited(w) == job[w] \in intact

Break(w, position) ==
  /\ MoveTo(w, position) /\ trouble' = TRUE
  /\ UNCHANGED <<counter, job, passed, joined, ran, pinned>>

ReadImage(w) ==
  /\ at[w] = "read"
  /\ IF Audited(w)
     THEN MoveTo(w, IF Official THEN "load" ELSE "scenario")
          /\ UNCHANGED <<counter, job, passed, joined, truth>>
     ELSE Break(w, "failed")
  /\ UNCHANGED <<disk, command, step, ended, touched>>

\* Upstream::new: the modules are read from the checkout as it is now.
Load(w) ==
  /\ at[w] = "load"
  /\ IF checkout.head # "none"
     THEN /\ MoveTo(w, "scenario") /\ pinned' = (pinned /\ Pinned)
          /\ UNCHANGED <<counter, job, passed, joined, ran, trouble>>
     ELSE Break(w, "failed")
  /\ UNCHANGED <<disk, command, step, ended, touched>>

Pass(w) ==
  /\ at[w] = "scenario" /\ MoveTo(w, "claim")
  /\ passed' = [passed EXCEPT ![w] = @ \cup {job[w]}]
  /\ ran' = [ran EXCEPT ![job[w]] = @ + 1]
  /\ UNCHANGED <<disk, counter, job, joined, trouble, pinned, command, step, ended, touched>>

Fail(w)  == at[w] = "scenario" /\ Break(w, "failed")
            /\ UNCHANGED <<disk, command, step, ended, touched>>
Panic(w) == at[w] = "scenario" /\ Break(w, "panicked")
            /\ UNCHANGED <<disk, command, step, ended, touched>>

Work(w) == Claim(w) \/ ReadImage(w) \/ Load(w) \/ Pass(w) \/ Fail(w) \/ Panic(w)

-----------------------------------------------------------------------------
(* Joining and reporting. *)

\* Mutant: a panicked thread is waited for.
StoppedWithoutPanic == {"done", "failed"}

Stopped == {"done", "failed", "panicked"}

\* Mutant: a panicked worker's join error is dropped with its results.
GoodIfJoined(w) == at[w] \in {"done", "panicked"}

Good(w) == at[w] = "done"

Join ==
  /\ step = "join" /\ joined < Cardinality(Crew)
  /\ at[joined + 1] \in Stopped
  /\ IF Good(joined + 1)
     THEN joined' = joined + 1 /\ UNCHANGED step
     ELSE step' = "abort" /\ UNCHANGED joined
  /\ UNCHANGED <<disk, counter, at, job, passed, truth, command, ended, touched>>

\* The scope waits for the workers not joined before the error is returned.
Abort ==
  /\ step = "abort" /\ \A w \in Crew : at[w] \in Stopped
  /\ End("failed") /\ UNCHANGED disk

Merged == UNION {passed[w] : w \in Crew}
Extent   == IF Jobs = Built THEN "all" ELSE "selected"

Write ==
  /\ step = "join" /\ joined = Cardinality(Crew)
  /\ report' = [of |-> <<command.kind, Extent>>, lists |-> Merged]
  /\ End("ok") /\ UNCHANGED <<checkout, intact>>

Main ==
  \/ GitInit \/ GitFetch \/ FetchFails \/ GitCheckout \/ CheckoutFails
  \/ CheckHead \/ CheckStatus \/ FinishFetch \/ Spawn \/ Join \/ Abort \/ Write

-----------------------------------------------------------------------------
(* The developer. *)

\* An image is rebuilt or removed by another program.
ChangeImage ==
  /\ \E i \in Built : intact' \in {intact \ {i}, intact \cup {i}}
  /\ UNCHANGED <<checkout, report, workers, truth, command, step, ended, touched>>

\* The checkout is edited, moved to another commit, restored or removed.
TouchCheckout ==
  /\ checkout.exists
  /\ checkout' \in {[checkout EXCEPT !.dirty = TRUE], Absent}
        \cup (IF checkout.fetched
              THEN {[checkout EXCEPT !.head = h, !.dirty = FALSE] : h \in {"pin", "other"}}
              ELSE {})
  /\ touched' = (step # "idle")
  /\ UNCHANGED <<intact, report, workers, truth, command, step, ended>>

TestsNext == Start \/ Main \/ (\E w \in Threads : Work(w)) \/ ChangeImage \/ TouchCheckout

\* Threads are scheduled and scenarios are bounded by their budgets.
Fairness == WF_tests(Main) /\ \A w \in Threads : WF_tests(Work(w))

TestsSpec == TestsInit /\ [][TestsNext]_tests /\ Fairness

-----------------------------------------------------------------------------
\* Every variable keeps its type; the counter runs at most one past per worker.
TestsTypeOK ==
  /\ checkout \in [exists : BOOLEAN, fetched : BOOLEAN,
                   head : {"none", "pin", "other"}, dirty : BOOLEAN]
  /\ intact \subseteq Built /\ report.lists \subseteq Built
  /\ command \in [kind : Kinds, first : Built, last : 0 .. Firmware]
  /\ counter \in 1 .. Firmware + 1 + Workers /\ joined \in 0 .. Workers
  /\ at \in [Threads -> {"off", "claim", "read", "load", "scenario", "done", "failed", "panicked"}]
  /\ \A w \in Threads : passed[w] \subseteq Built /\ job[w] \in 0 .. Firmware
  /\ ended \in {"none", "ok", "failed", "offline"} /\ ran \in [Built -> Nat]

\* Every selected image passed, each exactly once, and no worker failed or panicked.
EachPassedOnce ==
  /\ ~trouble /\ Merged = Jobs
  /\ \A i \in Built : ran[i] = (IF i \in Jobs THEN 1 ELSE 0)

\* A report is written only when every selected image passed, whichever workers took them; and
\* if nobody touches the checkout during a command that relies on it, success means pinned and
\* clean: a checkout edited before, left half way or at another commit never yields a fetched
\* revision or official results (main.rs, 160 to 221; project.rs check_upstream).
ReportSound ==
  /\ []TestsTypeOK
  /\ [][ended' = "ok" =>
          /\ step = "join" => EachPassedOnce
          /\ step # "idle" /\ command.kind # "smoke" /\ ~touched => Pinned /\ pinned]_tests

\* Every command ends: no worker or join waits for ever.
Ends == step # "idle" ~> step = "idle"

-----------------------------------------------------------------------------
\* fetch-upstream obtains the fixed official revision (README.md, 277) unless the
\* network fails during the call or a user changed the checkout: during the call,
\* or before it so that it is dirty or at another commit.
FetchObtains ==
  [][command.kind = "fetch" /\ step # "idle" /\ ended' = "failed"
       => touched \/ checkout.dirty \/ checkout.head = "other"]_tests
=============================================================================
