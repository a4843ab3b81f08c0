------------------------------ MODULE Release -------------------------------
(***************************************************************************)
(* The release gates of xtask: verify and its receipt, build, smoke and      *)
(* crate-check, package and publish (release.rs, project.rs), one xtask       *)
(* process at a time. todo holds the steps the running command has left; a    *)
(* step is one observation of the checkout or of the remote, or one file      *)
(* written. Between two steps a developer edits and commits, CI runs, and     *)
(* the command may fail or be stopped. A file's digest is what it was made    *)
(* from: firmware depends on a tree's code, a crate on the whole tree.        *)
(***************************************************************************)
EXTENDS Integers, SequencesExt

CONSTANTS
  Examples,     \* names of the package's examples
  MaxEdits,     \* bound: edits of the tree
  MaxCommits    \* bound: commits

ASSUME ReleaseAssumption ==
  IsFiniteSet(Examples) /\ MaxEdits \in Nat /\ MaxCommits \in Nat \ {0}

VARIABLES
  tree,         \* the checkout: revisions of [code, docs, version]
  history,      \* git: the tree of each commit; HEAD is the last one
  todo,         \* steps left of the command in progress
  seen,         \* what the command has read so far
  dist,         \* the files of dist/
  main, ci, releases    \* the remote: branch main, CI of each commit, GitHub releases

git    == <<tree, history>>
remote == <<main, ci, releases>>
vars   == <<git, todo, seen, dist, remote>>

Engines  == {"reference", "upstream"}
Revision == 1 .. MaxEdits + 1
Trees    == [code : Revision, docs : Revision, version : Revision]
None     == 0
Missing  == [e \in Examples |-> None]     \* 0 is a file that does not exist
NoTree   == [code |-> None, docs |-> None, version |-> None]

Head1 == Len(history)
Clean == tree = history[Head1]

Initial == [code |-> 1, docs |-> 1, version |-> 1]

Receipt(status, commit, source, clean, version, files) ==
  [status |-> status, commit |-> commit, source |-> source, clean |-> clean,
   version |-> version, files |-> files]

\* The files a receipt lists: images, engine reports and the crate.
NoFiles == [image |-> Missing, tested |-> [g \in Engines |-> Missing], crate |-> NoTree]

Unpassed(status) == Receipt(status, None, NoTree, FALSE, None, NoFiles)

NoZip == [commit |-> None, tag |-> None, files |-> NoFiles, docs |-> None]

NothingSeen == [source |-> NoTree, head |-> None, clean |-> FALSE,
                receipt |-> Unpassed("none"), docs |-> None, target |-> None, tag |-> None]

Init ==
  /\ tree = Initial /\ history = <<Initial>>
  /\ todo = << >> /\ seen = NothingSeen
  /\ dist = [receipt |-> Unpassed("none"), image |-> Missing, report |-> Missing,
             tested |-> [g \in Engines |-> Missing],
             crate |-> [v \in Revision |-> NoTree],
             zip |-> NoZip, publication |-> None]
  /\ main = None /\ ci = [c \in 1 .. MaxCommits |-> "none"] /\ releases = {}

-----------------------------------------------------------------------------
(* Commands, as the sequences of their steps. *)

Plain(names) == [k \in DOMAIN names |-> <<names[k], "">>]
Images(examples) == LET order == SetToSeq(examples)
                    IN  [k \in DOMAIN order |-> <<"image", order[k]>>]

Build(examples) == Plain(<<"invalidate">>) \o Images(examples)

BuildAll == Build(Examples) \o Plain(<<"report">>)

Verify ==
  Plain(<<"running", "source", "head", "clean", "gates">>) \o BuildAll \o
  << <<"test", "reference">>, <<"test", "upstream">> >> \o
  Plain(<<"crate", "sameSource", "sameHead", "pass">>)

Package ==
  Plain(<<"mustBeClean", "load", "matchHead", "matchSource", "matchVersion", "coverage",
          "docs", "zip">>)

Publish ==
  Package \o Plain(<<"target", "tag", "unreleased", "push", "remoteMain", "ciPassed",
                     "create", "view", "record">>)

Commands ==
  {Verify, BuildAll, Package, Publish, Plain(<<"crate">>)}
  \cup {Build({e}) : e \in Examples} \cup {<< <<"test", g>> >> : g \in Engines}

Start(command) ==
  /\ todo = << >>
  /\ todo' = command /\ UNCHANGED <<git, seen, dist, remote>>

\* The command's next step; when it is the last one the process ends.
Perform(name, arg) == todo # << >> /\ Head(todo) = <<name, arg>>
Step(name) == Perform(name, "")

Advance ==
  /\ todo' = Tail(todo)
  /\ UNCHANGED git

\* What a finished command knew is gone.
Keep(record) == seen' = IF Len(todo) = 1 THEN NothingSeen ELSE record

Observe(record) == Advance /\ Keep(record) /\ UNCHANGED <<dist, remote>>
Check(condition) == condition /\ Observe(seen)
Save(files) == Advance /\ Keep(seen) /\ dist' = files /\ UNCHANGED remote

\* A command fails or is stopped before its next step.
Fail ==
  /\ todo # << >>
  /\ todo' = << >> /\ seen' = NothingSeen /\ UNCHANGED <<git, dist, remote>>

-----------------------------------------------------------------------------
(* release.rs verify, project.rs build, main.rs firmware_tests *)

Running == Step("running") /\ Save([dist EXCEPT !.receipt = Unpassed("running")])
ReadSource == Step("source") /\ Observe([seen EXCEPT !.source = tree])
ReadHead == Step("head") /\ Observe([seen EXCEPT !.head = Head1])
ReadClean == Step("clean") /\ Observe([seen EXCEPT !.clean = Clean])

\* Formatting, documentation, host tests, clippy and the runtime check pass.
Gates == Step("gates") /\ Check(TRUE)

Invalidate ==
  Step("invalidate") /\ Save([dist EXCEPT !.receipt = Unpassed("invalidated")])

\* cargo builds the checkout as it is now; the image is audited and written.
Image(e) == Perform("image", e) /\ Save([dist EXCEPT !.image[e] = tree.code])

\* build-report.json lists the digests of the images just built.
Report == Step("report") /\ Save([dist EXCEPT !.report = dist.image])

\* Every image must be the one the report lists, and passes its scenario.
Test(g) ==
  /\ Perform("test", g)
  /\ dist.report # Missing /\ dist.image = dist.report
  /\ Save([dist EXCEPT !.tested[g] = dist.image])

Crate == Step("crate") /\ Save([dist EXCEPT !.crate[tree.version] = tree])

\* Mutant: the source is not compared at the end.
SameSourceTrusted == Step("sameSource") /\ Check(TRUE)

SameSource == Step("sameSource") /\ Check(tree = seen.source)
SameHead == Step("sameHead") /\ Check(Head1 = seen.head)

\* The files evidence is read from.
Evidence(version) ==
  [image |-> dist.image, tested |-> dist.tested, crate |-> dist.crate[version]]

\* Mutant: the receipt names the source and the commit of the moment it is written.
PassLate ==
  /\ Step("pass") /\ dist.crate[tree.version] # NoTree
  /\ Save([dist EXCEPT !.receipt =
             Receipt("passed", Head1, tree, Clean, tree.version, Evidence(tree.version))])

\* The digests of the files on disk become the receipt.
Pass ==
  /\ Step("pass") /\ dist.crate[tree.version] # NoTree
  /\ Save([dist EXCEPT !.receipt =
             Receipt("passed", seen.head, seen.source, seen.clean, tree.version,
                     Evidence(tree.version))])

-----------------------------------------------------------------------------
(* release.rs package *)

MustBeClean == Step("mustBeClean") /\ Check(Clean)

\* An unfinished receipt does not parse or has not passed; every file it lists is read.
Load ==
  /\ Step("load") /\ dist.receipt.status = "passed"
  /\ Observe([seen EXCEPT !.receipt = dist.receipt])

\* validate_receipt: HEAD and the source are read before the digests are compared.
MatchHead == Step("matchHead") /\ Check(seen.receipt.commit = Head1)
MatchSource ==
  /\ Step("matchSource")
  /\ Check(/\ seen.receipt.clean /\ seen.receipt.source = tree
           /\ seen.receipt.files = Evidence(seen.receipt.version))
MatchVersion == Step("matchVersion") /\ Check(seen.receipt.version = tree.version)

\* Every example was built and passed in both engines.
Coverage ==
  /\ Step("coverage")
  /\ Check(\A e \in Examples :
             dist.report[e] # None /\ \A g \in Engines : dist.tested[g][e] # None)

ReadDocs == Step("docs") /\ Observe([seen EXCEPT !.docs = tree.docs])

\* The archive is written only if HEAD is still the receipt's commit.
WriteZip ==
  /\ Step("zip") /\ seen.receipt.commit = Head1
  /\ Save([dist EXCEPT !.zip = [commit |-> seen.receipt.commit,
                                tag |-> seen.receipt.version,
                                files |-> seen.receipt.files, docs |-> seen.docs]])

-----------------------------------------------------------------------------
(* release.rs publish *)

Target == Step("target") /\ Observe([seen EXCEPT !.target = Head1])
Tag == Step("tag") /\ Observe([seen EXCEPT !.tag = tree.version])

\* Mutant: the release list is not consulted.
UnreleasedAssumed == Step("unreleased") /\ Check(TRUE)

Unreleased ==
  Step("unreleased") /\ Check(\A r \in releases : r.tag # seen.tag)

\* git push of branch main, whatever commit it is at now; a new commit starts CI.
PushMain ==
  /\ main' = Head1
  /\ ci' = IF ci[Head1] = "none" THEN [ci EXCEPT ![Head1] = "running"] ELSE ci
  /\ UNCHANGED releases

Push == Step("push") /\ Advance /\ Keep(seen) /\ PushMain /\ UNCHANGED dist

RemoteMain == Step("remoteMain") /\ Check(main = seen.target)
CiPassed == Step("ciPassed") /\ Check(ci[seen.target] = "success")

\* gh release create; the answer may be lost after the release exists.
Create ==
  /\ Step("create")
  /\ releases' = releases \cup {[tag |-> seen.tag, target |-> seen.target, zip |-> dist.zip]}
  /\ Advance /\ Keep(seen) /\ UNCHANGED <<dist, main, ci>>

View ==
  /\ Step("view")
  /\ Check(\E r \in releases : r.tag = seen.tag /\ r.target = seen.target /\ r.zip = dist.zip)

Record == Step("record") /\ Save([dist EXCEPT !.publication = seen.tag])

-----------------------------------------------------------------------------
(* The developer and CI. No content of the tree ever comes back. *)

Edit(part) ==
  /\ tree.code + tree.docs + tree.version < MaxEdits + 3
  /\ tree' = [tree EXCEPT ![part] = @ + 1]
  /\ UNCHANGED <<history, todo, seen, dist, remote>>

Commit ==
  /\ ~Clean /\ Head1 < MaxCommits
  /\ history' = Append(history, tree)
  /\ UNCHANGED <<tree, todo, seen, dist, remote>>

DeveloperPush ==
  /\ main # Head1
  /\ PushMain /\ UNCHANGED <<git, todo, seen, dist>>

CiEnds(c) ==
  /\ ci[c] = "running"
  /\ \E result \in {"success", "failure"} : ci' = [ci EXCEPT ![c] = result]
  /\ UNCHANGED <<git, todo, seen, dist, main, releases>>

Verifying ==
  \/ Running \/ ReadSource \/ ReadHead \/ ReadClean \/ Gates
  \/ Invalidate \/ (\E e \in Examples : Image(e)) \/ Report
  \/ (\E g \in Engines : Test(g)) \/ Crate \/ SameSource \/ SameHead \/ Pass

Packaging ==
  \/ MustBeClean \/ Load \/ MatchHead \/ MatchSource \/ MatchVersion \/ Coverage
  \/ ReadDocs \/ WriteZip

Publishing ==
  \/ Target \/ Tag \/ Unreleased \/ Push \/ RemoteMain \/ CiPassed \/ Create \/ View
  \/ Record

Next ==
  \/ \E command \in Commands : Start(command)
  \/ Verifying \/ Packaging \/ Publishing \/ Fail
  \/ \E part \in {"code", "docs", "version"} : Edit(part)
  \/ Commit \/ DeveloperPush
  \/ \E c \in 1 .. MaxCommits : CiEnds(c)

Spec == Init /\ [][Next]_vars

-----------------------------------------------------------------------------
AnyTree == Trees \cup {NoTree}
ImageSet == [Examples -> Revision \cup {None}]
Files   == [image : ImageSet, tested : [Engines -> ImageSet], crate : AnyTree]

ReceiptSet ==
  [status : {"none", "running", "invalidated", "passed"}, commit : 0 .. MaxCommits,
   source : AnyTree, clean : BOOLEAN, version : Revision \cup {None}, files : Files]

ZipSet == [commit : 0 .. MaxCommits, tag : Revision \cup {None}, files : Files,
           docs : Revision \cup {None}]

\* The checkout, the files of dist and the remote have their types.
TypeOK ==
  /\ tree \in Trees /\ history \in Seq(Trees) /\ Head1 \in 1 .. MaxCommits
  /\ dist.receipt \in ReceiptSet /\ seen.receipt \in ReceiptSet
  /\ dist.image \in ImageSet /\ dist.report \in ImageSet
  /\ dist.tested \in [Engines -> ImageSet]
  /\ dist.crate \in [Revision -> AnyTree] /\ dist.zip \in ZipSet
  /\ seen.source \in AnyTree /\ seen.head \in 0 .. MaxCommits
  /\ seen.target \in 0 .. MaxCommits /\ seen.tag \in Revision \cup {None}
  /\ main \in 0 .. MaxCommits
  /\ ci \in [1 .. MaxCommits -> {"none", "running", "success", "failure"}]

\* Every listed file is what the tree makes, and every image ran in both engines.
MadeFrom(files, source) ==
  /\ files.crate = source
  /\ \A e \in Examples :
       files.image[e] = source.code /\ \A g \in Engines : files.tested[g][e] = source.code

\* A receipt that passed speaks of one tree: whatever was edited, committed, built or
\* stopped meanwhile, its files were all built from its source and tested, and a clean
\* receipt's source is its commit's (release.rs verify). An edit that is put back exactly,
\* between the two digests of the tree, is excepted: no tree comes back in the model.
EvidenceSound ==
  LET r == dist.receipt IN
  r.status = "passed" =>
    MadeFrom(r.files, r.source) /\ (r.clean => history[r.commit] = r.source)

\* An archive, on disk or released, holds the tested firmware and the crate of the commit
\* its manifest names, and carries that commit's version (release.rs package).
FirmwareFromCommit ==
  \A z \in {dist.zip} \cup {r.zip : r \in releases} :
    z # NoZip => MadeFrom(z.files, history[z.commit]) /\ z.tag = history[z.commit].version

\* A release exists only for a commit whose CI succeeded, and never without its archive
\* (release.rs publish: "Never create an unverified release"); it is never replaced, and no
\* second one is made for its tag, after any number of stopped and repeated publications.
ReleaseGated ==
  /\ [](TypeOK /\ \A r \in releases : ci[r.target] = "success" /\ r.zip # NoZip)
  /\ [][/\ releases \subseteq releases'
        /\ \A r, s \in releases' : r.tag = s.tag => r = s]_vars

\* The commit a release is made at is the one its archive was packaged from.
ReleaseMatchesArchive == \A r \in releases : r.target = r.zip.commit
=============================================================================
