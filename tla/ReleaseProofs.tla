---------------------------- MODULE ReleaseProofs ----------------------------
(* Theorems about the release gates.                                              *)
EXTENDS Release, FiniteSetTheorems, SequenceTheorems, TLAPS

(* What the running command has left. *)

\* Where a step stands in its command.
Place ==
  [running |-> 1, source |-> 2, head |-> 3, clean |-> 4, gates |-> 5, invalidate |-> 6,
   image |-> 7, report |-> 8, test |-> 9, crate |-> 10, sameSource |-> 11, sameHead |-> 12,
   pass |-> 13,
   mustBeClean |-> 1, load |-> 2, matchHead |-> 3, matchSource |-> 4, matchVersion |-> 5,
   coverage |-> 6, docs |-> 7, zip |-> 8, target |-> 9, tag |-> 10, unreleased |-> 11,
   push |-> 12, remoteMain |-> 13, ciPassed |-> 14, create |-> 15, view |-> 16, record |-> 17]

PackageNames ==
  {"mustBeClean", "load", "matchHead", "matchSource", "matchVersion", "coverage", "docs", "zip"}

PublishNames ==
  PackageNames \cup {"target", "tag", "unreleased", "push", "remoteMain", "ciPassed", "create",
                     "view", "record"}

VerifyNames ==
  {"running", "source", "head", "clean", "gates", "invalidate", "report", "crate", "sameSource",
   "sameHead", "pass"}

Alone(names)     == {<<name, "">> : name \in names}
Imaging(examples) == {<<"image", e>> : e \in examples}
Testing          == {<<"test", g>> : g \in Engines}
VerifySteps  == Alone(VerifyNames) \cup Imaging(Examples) \cup Testing
AllSteps     == VerifySteps \cup Alone(PublishNames)

\* The steps that are still to be done, and one of them by its name.
Left == Range(todo)
Ahead(name) == <<name, "">> \in Left

\* Whoever has a step to do has every later one of its command to do.
LaterLeft(steps) ==
  \A s \in Left, t \in steps : Place[s[1]] < Place[t[1]] => t \in Left

\* Each step is left once, in the order of the places.
InOrder(list) ==
  \A i, j \in DOMAIN list :
    i < j => list[i] # list[j] /\ Place[list[i][1]] <= Place[list[j][1]]

OnTrack ==
  /\ todo \in Seq(AllSteps)
  /\ InOrder(todo)
  /\ Ahead("pass") => Left \subseteq VerifySteps /\ LaterLeft(VerifySteps)
  /\ Ahead("zip") => Left \subseteq Alone(PublishNames) /\ LaterLeft(Alone(PackageNames))
  /\ Ahead("create") => Left \subseteq Alone(PublishNames) /\ LaterLeft(Alone(PublishNames))

-----------------------------------------------------------------------------
(* Types. *)

SeenSet ==
  [source : AnyTree, head : 0 .. MaxCommits, clean : BOOLEAN, receipt : ReceiptSet,
   docs : Revision \cup {None}, target : 0 .. MaxCommits, tag : Revision \cup {None}]

DistSet ==
  [receipt : ReceiptSet, image : ImageSet, report : ImageSet, tested : [Engines -> ImageSet],
   crate : [Revision -> AnyTree], zip : ZipSet, publication : Revision \cup {None}]

ReleaseSet == [tag : Revision \cup {None}, target : 0 .. MaxCommits, zip : ZipSet]

Types ==
  /\ tree \in Trees /\ history \in Seq(Trees) /\ Head1 \in 1 .. MaxCommits
  /\ seen \in SeenSet /\ dist \in DistSet /\ releases \subseteq ReleaseSet
  /\ main \in 0 .. MaxCommits
  /\ ci \in [1 .. MaxCommits -> {"none", "running", "success", "failure"}]

-----------------------------------------------------------------------------
(* Evidence. *)

\* The checkout was, or is, at this content: contents only grow.
Past(content) ==
  content.code <= tree.code /\ content.docs <= tree.docs /\ content.version <= tree.version

\* The crates on disk are what they say, made from the checkout as it was.
CratesFromPast ==
  \A v \in Revision : dist.crate[v] # NoTree => dist.crate[v].version = v /\ Past(dist.crate[v])

\* A receipt that passed speaks of one tree and of its version.
Sound(r) ==
  r.status = "passed" =>
    /\ MadeFrom(r.files, r.source) /\ r.version = r.source.version
    /\ r.clean => r.commit \in 1 .. Head1 /\ history[r.commit] = r.source

\* While the checks at the end of verify are ahead, what it has made so far is the evidence of
\* the source it read if the checkout and HEAD are still what it read.
Unchanged == Ahead("sameSource") => tree = seen.source
Unmoved   == Ahead("sameHead") => Head1 = seen.head

SourceRead == Ahead("pass") /\ ~Ahead("source")

SourceKnown == SourceRead => seen.source \in Trees /\ Past(seen.source)
HeadKnown   == Ahead("pass") /\ ~Ahead("head") => seen.head \in 1 .. Head1
CleanKnown  ==
  Ahead("pass") /\ ~Ahead("clean") /\ Unchanged /\ Unmoved /\ seen.clean =>
    history[seen.head] = seen.source
FilesMade ==
  SourceRead /\ Unchanged =>
    /\ \A e \in Examples : <<"image", e>> \notin Left => dist.image[e] = seen.source.code
    /\ \A g \in Engines : <<"test", g>> \notin Left =>
         \A e \in Examples : dist.tested[g][e] = seen.source.code
    /\ ~Ahead("crate") => dist.crate[seen.source.version] = seen.source
NewerMissing ==
  Ahead("pass") /\ ~Ahead("sameSource") =>
    \A v \in Revision : v > seen.source.version => dist.crate[v] = NoTree

VerifySound == SourceKnown /\ HeadKnown /\ CleanKnown /\ FilesMade /\ NewerMissing

\* What package has read of the receipt.
PackageSound ==
  /\ Sound(seen.receipt)
  /\ Ahead("zip") /\ ~Ahead("load") => seen.receipt.status = "passed"
  /\ Ahead("zip") /\ ~Ahead("matchSource") => seen.receipt.clean

ZipSound(z) ==
  z # NoZip =>
    /\ z.commit \in 1 .. Head1
    /\ MadeFrom(z.files, history[z.commit]) /\ z.tag = history[z.commit].version

\* What publish has established.
PublishSound ==
  Ahead("create") =>
    /\ ~Ahead("zip") => dist.zip # NoZip
    /\ ~Ahead("target") => seen.target \in 1 .. Head1
    /\ ~Ahead("unreleased") => \A r \in releases : r.tag # seen.tag
    /\ ~Ahead("ciPassed") => ci[seen.target] = "success"

ReleasesSound ==
  /\ \A r \in releases : ZipSound(r.zip) /\ r.zip # NoZip
  /\ \A r \in releases : r.target \in 1 .. Head1 /\ ci[r.target] = "success"
  /\ \A r, s \in releases : r.tag = s.tag => r = s

EvidenceInv ==
  /\ CratesFromPast /\ Sound(dist.receipt) /\ VerifySound
ArchiveInv ==
  /\ PackageSound /\ PublishSound /\ ZipSound(dist.zip) /\ ReleasesSound

-----------------------------------------------------------------------------
(* Lists of steps. *)

StepNames == VerifyNames \cup PublishNames \cup {"image", "test"}

LEMMA Places ==
  /\ \A name \in StepNames : Place[name] \in 1 .. 17
  /\ \A name \in PackageNames : Place[name] <= 8
BY DEF Place, StepNames, VerifyNames, PublishNames, PackageNames

LEMMA NameOf ==
  /\ \A names : \A s \in Alone(names) : s[1] \in names
  /\ \A S : \A s \in Imaging(S) : s[1] = "image"
  /\ \A s \in Testing : s[1] = "test"
<1>1. ASSUME NEW names, NEW s \in Alone(names) PROVE s[1] \in names
  <2>1. PICK name \in names : s = <<name, "">>
    BY <1>1 DEF Alone
  <2> QED BY <2>1
<1>2. ASSUME NEW S, NEW s \in Imaging(S) PROVE s[1] = "image"
  <2>1. PICK e \in S : s = <<"image", e>>
    BY <1>2 DEF Imaging
  <2> QED BY <2>1
<1>3. ASSUME NEW s \in Testing PROVE s[1] = "test"
  BY <1>3 DEF Testing
<1> QED BY <1>1, <1>2, <1>3

LEMMA StepsNamed == \A s \in AllSteps : s[1] \in StepNames
BY NameOf DEF AllSteps, VerifySteps, StepNames

Listed(list, steps) == list \in Seq(AllSteps) /\ InOrder(list) /\ Range(list) = steps

\* One list after another.
LEMMA ListedJoin ==
  ASSUME NEW s, NEW t, NEW A, NEW B, Listed(s, A), Listed(t, B),
         \A x \in A, y \in B : Place[x[1]] < Place[y[1]]
  PROVE  Listed(s \o t, A \cup B)
<1> DEFINE m == Len(s)
           n == Len(t)
<1>1. /\ s \in Seq(AllSteps) /\ t \in Seq(AllSteps) /\ m \in Nat /\ n \in Nat
      /\ DOMAIN s = 1 .. m /\ DOMAIN t = 1 .. n
  BY LenProperties DEF Listed
<1>2. /\ s \o t \in Seq(AllSteps) /\ DOMAIN (s \o t) = 1 .. m + n
      /\ \A i \in 1 .. m + n : (s \o t)[i] = IF i <= m THEN s[i] ELSE t[i - m]
  BY <1>1, ConcatProperties, LenProperties
<1>3. /\ \A i \in 1 .. m : i \in 1 .. m + n /\ (s \o t)[i] = s[i]
      /\ \A i \in 1 .. n : i + m \in 1 .. m + n /\ (s \o t)[i + m] = t[i]
      /\ \A i \in 1 .. m + n : ~(i <= m) => i - m \in 1 .. n
  BY <1>1, <1>2
<1> HIDE DEF m, n
<1>4. Range(s \o t) = A \cup B
  <2>1. \A x \in A : \E i \in 1 .. m : s[i] = x
    BY <1>1 DEF Listed, Range
  <2>2. \A x \in B : \E i \in 1 .. n : t[i] = x
    BY <1>1 DEF Listed, Range
  <2>3. A \cup B \subseteq Range(s \o t)
    <3>1. \A x \in A : \E k \in 1 .. m + n : (s \o t)[k] = x
      BY <1>3, <2>1
    <3>2. \A x \in B : \E k \in 1 .. m + n : (s \o t)[k] = x
      BY <1>3, <2>2
    <3> QED BY <1>2, <3>1, <3>2 DEF Range
  <2>4. ASSUME NEW i \in 1 .. m + n PROVE (s \o t)[i] \in A \cup B
    <3>1. CASE i <= m
      BY <1>1, <1>2, <3>1 DEF Listed, Range
    <3>2. CASE ~(i <= m)
      BY <1>1, <1>2, <1>3, <3>2 DEF Listed, Range
    <3> QED BY <3>1, <3>2
  <2> QED BY <1>2, <2>3, <2>4 DEF Range
<1>5. InOrder(s \o t)
  <2> SUFFICES ASSUME NEW i \in 1 .. m + n, NEW j \in 1 .. m + n, i < j
               PROVE  /\ (s \o t)[i] # (s \o t)[j]
                      /\ Place[(s \o t)[i][1]] <= Place[(s \o t)[j][1]]
    BY <1>2 DEF InOrder
  <2>1. CASE j <= m
    <3>1. i \in 1 .. m /\ j \in 1 .. m /\ (s \o t)[i] = s[i] /\ (s \o t)[j] = s[j]
      BY <1>1, <1>2, <2>1
    <3> QED BY <1>1, <3>1 DEF Listed, InOrder
  <2>2. CASE ~(i <= m)
    <3>1. /\ i - m \in 1 .. n /\ j - m \in 1 .. n /\ i - m < j - m
          /\ (s \o t)[i] = t[i - m] /\ (s \o t)[j] = t[j - m]
      BY <1>1, <1>2, <1>3, <2>2
    <3> QED BY <1>1, <3>1 DEF Listed, InOrder
  <2>3. CASE i <= m /\ ~(j <= m)
    <3>1. i \in 1 .. m /\ j - m \in 1 .. n /\ (s \o t)[i] = s[i] /\ (s \o t)[j] = t[j - m]
      BY <1>1, <1>2, <1>3, <2>3
    <3>2. s[i] \in A /\ t[j - m] \in B /\ s[i] \in AllSteps /\ t[j - m] \in AllSteps
      BY <1>1, <3>1, ElementOfSeq DEF Listed, Range, m, n
    <3>3. Place[s[i][1]] \in 1 .. 17 /\ Place[t[j - m][1]] \in 1 .. 17
      BY <3>2, StepsNamed, Places
    <3>4. Place[s[i][1]] < Place[t[j - m][1]]
      BY <3>2
    <3>5. PICK p \in 1 .. 17, q \in 1 .. 17 : Place[s[i][1]] = p /\ Place[t[j - m][1]] = q
      BY <3>3
    <3>6. p < q
      BY <3>4, <3>5
    <3>7. p <= q /\ p # q
      BY <3>6
    <3> QED BY <3>1, <3>5, <3>7
  <2> QED BY <1>1, <2>1, <2>2, <2>3
<1> QED BY <1>2, <1>4, <1>5 DEF Listed

\* Names in consecutive places.
LEMMA ListedPlain ==
  ASSUME NEW n \in Nat, NEW names \in [1 .. n -> VerifyNames \cup PublishNames], NEW b \in Nat,
         \A k \in 1 .. n : Place[names[k]] = b + k
  PROVE  Listed(Plain(names), Alone(Range(names)))
<1>1. /\ Plain(names) \in [1 .. n -> AllSteps]
      /\ DOMAIN Plain(names) = 1 .. n /\ \A k \in 1 .. n : Plain(names)[k] = <<names[k], "">>
  BY DEF Plain, AllSteps, VerifySteps, Alone
<1>2. Plain(names) \in Seq(AllSteps)
  BY <1>1, SeqDef
<1>3. InOrder(Plain(names))
  <2> SUFFICES ASSUME NEW i \in 1 .. n, NEW j \in 1 .. n, i < j
               PROVE  <<names[i], "">> # <<names[j], "">> /\ Place[names[i]] <= Place[names[j]]
    <3>1. SUFFICES ASSUME NEW i \in 1 .. n, NEW j \in 1 .. n, i < j
                   PROVE  /\ Plain(names)[i] # Plain(names)[j]
                          /\ Place[Plain(names)[i][1]] <= Place[Plain(names)[j][1]]
      BY <1>1 DEF InOrder
    <3>2. Plain(names)[i] = <<names[i], "">> /\ Plain(names)[j] = <<names[j], "">>
      BY <1>1
    <3>3. <<names[i], "">>[1] = names[i] /\ <<names[j], "">>[1] = names[j]
      OBVIOUS
    <3> QED BY <3>1, <3>2, <3>3
  <2>1. Place[names[i]] = b + i /\ Place[names[j]] = b + j /\ b + i < b + j
    OBVIOUS
  <2>2. names[i] # names[j]
    BY <2>1
  <2> QED BY <2>1, <2>2
<1>4. Range(Plain(names)) = Alone(Range(names))
  <2>1. Range(Plain(names)) = {<<names[k], "">> : k \in 1 .. n}
    BY <1>1 DEF Range
  <2>2. Range(names) = {names[k] : k \in 1 .. n}
    BY DEF Range
  <2> QED BY <2>1, <2>2 DEF Alone
<1> QED BY <1>2, <1>3, <1>4 DEF Listed

\* The images of a set of examples: each once, whatever the order.
LEMMA ListedImages ==
  ASSUME NEW S \in SUBSET Examples
  PROVE  Listed(Images(S), Imaging(S))
<1> DEFINE order == SetToSeq(S)
           n     == Cardinality(S)
<1>1. IsFiniteSet(S) /\ n \in Nat /\ ExistsBijection(1 .. n, S)
  BY ReleaseAssumption, FS_Subset, FS_CardinalityType
<1>2. order \in [1 .. n -> S] /\ IsInjective(order)
  <2>1. \E f \in [1 .. n -> S] : IsInjective(f)
    BY <1>1 DEF ExistsBijection, Bijection, Injection
  <2> QED BY <2>1 DEF SetToSeq
<1>3. \A x \in S : \E k \in 1 .. n : order[k] = x
  <2>1. IsFiniteSet(1 .. n) /\ Cardinality(1 .. n) = n
    BY <1>1, FS_Interval
  <2>2. order \in Injection(1 .. n, S)
    BY <1>2 DEF Injection
  <2>3. order \in Surjection(1 .. n, S)
    BY <1>1, <2>1, <2>2, FS_Injection
  <2> QED BY <2>3 DEF Surjection
<1>4. /\ Images(S) = [k \in 1 .. n |-> <<"image", order[k]>>]
      /\ \A k \in 1 .. n : Images(S)[k] = <<"image", order[k]>>
  BY <1>2 DEF Images
<1> HIDE DEF order, n
<1>5. Images(S) \in Seq(AllSteps)
  <2>1. \A k \in 1 .. n : <<"image", order[k]>> \in AllSteps
    BY <1>2 DEF AllSteps, VerifySteps, Imaging
  <2> QED BY <1>1, <1>4, <2>1
<1>6. InOrder(Images(S))
  <2>1. Place["image"] <= Place["image"]
    BY Places DEF StepNames
  <2> QED BY <1>1, <1>2, <1>4, <2>1 DEF InOrder, IsInjective
<1>7. Range(Images(S)) = Imaging(S)
  <2>1. \A k \in 1 .. n : Images(S)[k] \in Imaging(S)
    BY <1>2, <1>4 DEF Imaging
  <2>2. \A e \in S : \E k \in 1 .. n : Images(S)[k] = <<"image", e>>
    BY <1>3, <1>4
  <2> QED BY <1>4, <2>1, <2>2 DEF Range, Imaging
<1> QED BY <1>5, <1>6, <1>7 DEF Listed

\* The lists of literal names, and then the commands.
LEMMA Literals ==
  /\ Listed(Plain(<<"running", "source", "head", "clean", "gates">>),
            Alone({"running", "source", "head", "clean", "gates"}))
  /\ Listed(Plain(<<"invalidate">>), Alone({"invalidate"}))
  /\ Listed(Plain(<<"report">>), Alone({"report"}))
  /\ Listed(Plain(<<"crate">>), Alone({"crate"}))
  /\ Listed(Plain(<<"crate", "sameSource", "sameHead", "pass">>),
            Alone({"crate", "sameSource", "sameHead", "pass"}))
  /\ Listed(Package, Alone(PackageNames))
  /\ Listed(Plain(<<"target", "tag", "unreleased", "push", "remoteMain", "ciPassed", "create",
                    "view", "record">>),
            Alone(PublishNames \ PackageNames))
<1> USE DEF VerifyNames, PackageNames, PublishNames
<1>1. Listed(Plain(<<"running", "source", "head", "clean", "gates">>),
             Alone({"running", "source", "head", "clean", "gates"}))
  <2> DEFINE names == <<"running", "source", "head", "clean", "gates">>
  <2>1. names \in [1 .. 5 -> VerifyNames \cup PublishNames]
    OBVIOUS
  <2>2. \A k \in 1 .. 5 : Place[names[k]] = 0 + k
    BY DEF Place
  <2>3. Range(names) = {"running", "source", "head", "clean", "gates"}
    BY DEF Range
  <2> HIDE DEF names
  <2>4. Listed(Plain(names), Alone(Range(names)))
    BY <2>1, <2>2, ListedPlain
  <2> QED BY <2>3, <2>4 DEF names
<1>2. Listed(Plain(<<"invalidate">>), Alone({"invalidate"}))
  <2> DEFINE names == <<"invalidate">>
  <2>1. names \in [1 .. 1 -> VerifyNames \cup PublishNames]
    OBVIOUS
  <2>2. \A k \in 1 .. 1 : Place[names[k]] = 5 + k
    BY DEF Place
  <2>3. Range(names) = {"invalidate"}
    BY DEF Range
  <2> HIDE DEF names
  <2>4. Listed(Plain(names), Alone(Range(names)))
    BY <2>1, <2>2, ListedPlain
  <2> QED BY <2>3, <2>4 DEF names
<1>3. Listed(Plain(<<"report">>), Alone({"report"}))
  <2> DEFINE names == <<"report">>
  <2>1. names \in [1 .. 1 -> VerifyNames \cup PublishNames]
    OBVIOUS
  <2>2. \A k \in 1 .. 1 : Place[names[k]] = 7 + k
    BY DEF Place
  <2>3. Range(names) = {"report"}
    BY DEF Range
  <2> HIDE DEF names
  <2>4. Listed(Plain(names), Alone(Range(names)))
    BY <2>1, <2>2, ListedPlain
  <2> QED BY <2>3, <2>4 DEF names
<1>4. Listed(Plain(<<"crate">>), Alone({"crate"}))
  <2> DEFINE names == <<"crate">>
  <2>1. names \in [1 .. 1 -> VerifyNames \cup PublishNames]
    OBVIOUS
  <2>2. \A k \in 1 .. 1 : Place[names[k]] = 9 + k
    BY DEF Place
  <2>3. Range(names) = {"crate"}
    BY DEF Range
  <2> HIDE DEF names
  <2>4. Listed(Plain(names), Alone(Range(names)))
    BY <2>1, <2>2, ListedPlain
  <2> QED BY <2>3, <2>4 DEF names
<1>5. Listed(Plain(<<"crate", "sameSource", "sameHead", "pass">>), Alone({"crate", "sameSource", "sameHead", "pass"}))
  <2> DEFINE names == <<"crate", "sameSource", "sameHead", "pass">>
  <2>1. names \in [1 .. 4 -> VerifyNames \cup PublishNames]
    OBVIOUS
  <2>2. \A k \in 1 .. 4 : Place[names[k]] = 9 + k
    BY DEF Place
  <2>3. Range(names) = {"crate", "sameSource", "sameHead", "pass"}
    BY DEF Range
  <2> HIDE DEF names
  <2>4. Listed(Plain(names), Alone(Range(names)))
    BY <2>1, <2>2, ListedPlain
  <2> QED BY <2>3, <2>4 DEF names
<1>6. Listed(Package, Alone(PackageNames))
  <2> DEFINE names == <<"mustBeClean", "load", "matchHead", "matchSource",
                      "matchVersion", "coverage", "docs", "zip">>
  <2>1. names \in [1 .. 8 -> VerifyNames \cup PublishNames]
    OBVIOUS
  <2>2. \A k \in 1 .. 8 : Place[names[k]] = 0 + k
    BY DEF Place
  <2>3. Range(names) = PackageNames
    BY DEF Range
  <2> HIDE DEF names
  <2>4. Listed(Plain(names), Alone(Range(names)))
    BY <2>1, <2>2, ListedPlain
  <2> QED BY <2>3, <2>4 DEF names, Package
<1>7. Listed(Plain(<<"target", "tag", "unreleased", "push", "remoteMain", "ciPassed", "create",
                     "view", "record">>),
             Alone(PublishNames \ PackageNames))
  <2> DEFINE names == <<"target", "tag", "unreleased", "push",
                      "remoteMain", "ciPassed", "create", "view", "record">>
  <2>1. names \in [1 .. 9 -> VerifyNames \cup PublishNames]
    OBVIOUS
  <2>2. \A k \in 1 .. 9 : Place[names[k]] = 8 + k
    BY DEF Place
  <2>3. Range(names) = PublishNames \ PackageNames
    BY DEF Range
  <2> HIDE DEF names
  <2>4. Listed(Plain(names), Alone(Range(names)))
    BY <2>1, <2>2, ListedPlain
  <2> QED BY <2>3, <2>4 DEF names
<1> QED BY <1>1, <1>2, <1>3, <1>4, <1>5, <1>6, <1>7

LEMMA ListedTests ==
  /\ \A g \in Engines : Listed(<< <<"test", g>> >>, {<<"test", g>>})
  /\ Listed(<< <<"test", "reference">>, <<"test", "upstream">> >>, Testing)
<1>0. Place["test"] <= Place["test"]
  BY Places DEF StepNames
<1>1. ASSUME NEW g \in Engines PROVE Listed(<< <<"test", g>> >>, {<<"test", g>>})
  <2>1. <<"test", g>> \in AllSteps
    BY DEF AllSteps, VerifySteps, Testing
  <2> QED BY <2>1 DEF Listed, InOrder, Range
<1>2. Listed(<< <<"test", "reference">>, <<"test", "upstream">> >>, Testing)
  <2>1. <<"test", "reference">> \in AllSteps /\ <<"test", "upstream">> \in AllSteps
    BY DEF AllSteps, VerifySteps, Testing, Engines
  <2> QED BY <1>0, <2>1 DEF Listed, InOrder, Range, Testing, Engines
<1> QED BY <1>1, <1>2

\* Building some of the examples, and all of them with a report.
LEMMA ListedBuild ==
  /\ \A S \in SUBSET Examples : Listed(Build(S), Alone({"invalidate"}) \cup Imaging(S))
  /\ Listed(BuildAll, (Alone({"invalidate"}) \cup Imaging(Examples)) \cup Alone({"report"}))
<1>0. Place["invalidate"] = 6 /\ Place["image"] = 7 /\ Place["report"] = 8
  BY DEF Place
<1>1. ASSUME NEW S \in SUBSET Examples
      PROVE  Listed(Build(S), Alone({"invalidate"}) \cup Imaging(S))
  <2>1. \A x \in Alone({"invalidate"}), y \in Imaging(S) : Place[x[1]] < Place[y[1]]
    BY <1>0, NameOf
  <2> QED BY <2>1, Literals, ListedImages, ListedJoin DEF Build
<1>2. \A x \in Alone({"invalidate"}) \cup Imaging(Examples), y \in Alone({"report"}) :
        Place[x[1]] < Place[y[1]]
  BY <1>0, NameOf
<1> QED BY <1>1, <1>2, Literals, ListedJoin DEF BuildAll

LEMMA ListedVerify == Listed(Verify, VerifySteps)
<1> DEFINE A == {"running", "source", "head", "clean", "gates"}
           B == (Alone({"invalidate"}) \cup Imaging(Examples)) \cup Alone({"report"})
           D == {"crate", "sameSource", "sameHead", "pass"}
           before == Plain(<<"running", "source", "head", "clean", "gates">>)
           tests == << <<"test", "reference">>, <<"test", "upstream">> >>
           after == Plain(<<"crate", "sameSource", "sameHead", "pass">>)
<1>1. /\ \A name \in A : Place[name] \in 1 .. 5
      /\ Place["invalidate"] = 6 /\ Place["image"] = 7 /\ Place["report"] = 8
      /\ Place["test"] = 9 /\ \A name \in D : Place[name] \in 10 .. 13
  BY DEF Place
<1>2. /\ \A x \in Alone(A) : Place[x[1]] \in 1 .. 5
      /\ \A x \in B : Place[x[1]] \in 6 .. 8
      /\ \A x \in Testing : Place[x[1]] = 9
      /\ \A x \in Alone(D) : Place[x[1]] \in 10 .. 13
  <2> HIDE DEF A, D
  <2> QED BY <1>1, NameOf
<1>3. Listed(before, Alone(A)) /\ Listed(tests, Testing) /\ Listed(after, Alone(D)) /\ Listed(BuildAll, B)
  BY Literals, ListedTests, ListedBuild
<1>4. Alone(A) \cup B \cup Testing \cup Alone(D) = VerifySteps
  BY DEF VerifySteps, VerifyNames, Alone
<1>5. Verify = ((before \o BuildAll) \o tests) \o after
  BY DEF Verify
<1> HIDE DEF A, B, D, before, tests, after
<1>6. Listed(before \o BuildAll, Alone(A) \cup B)
  <2>1. \A x \in Alone(A), y \in B : Place[x[1]] < Place[y[1]]
    BY <1>2
  <2> QED BY <1>3, <2>1, ListedJoin
<1>7. Listed((before \o BuildAll) \o tests, (Alone(A) \cup B) \cup Testing)
  <2>1. \A x \in Alone(A) \cup B, y \in Testing : Place[x[1]] < Place[y[1]]
    BY <1>2
  <2> QED BY <1>3, <1>6, <2>1, ListedJoin
<1>8. Listed(Verify, ((Alone(A) \cup B) \cup Testing) \cup Alone(D))
  <2>1. \A x \in (Alone(A) \cup B) \cup Testing, y \in Alone(D) : Place[x[1]] < Place[y[1]]
    BY <1>2
  <2> QED BY <1>3, <1>5, <1>7, <2>1, ListedJoin
<1> QED BY <1>4, <1>8

LEMMA ListedPublish ==
  Listed(Package, Alone(PackageNames)) /\ Listed(Publish, Alone(PublishNames))
<1>1. /\ \A name \in PackageNames : Place[name] \in 1 .. 8
      /\ \A name \in PublishNames \ PackageNames : Place[name] \in 9 .. 17
  BY DEF Place, PackageNames, PublishNames
<1>2. \A x \in Alone(PackageNames), y \in Alone(PublishNames \ PackageNames) : Place[x[1]] < Place[y[1]]
  BY <1>1, NameOf
<1>3. Alone(PackageNames) \cup Alone(PublishNames \ PackageNames) = Alone(PublishNames)
  BY DEF Alone, PublishNames
<1>4. Listed(Package, Alone(PackageNames))
  BY Literals
<1>5. Listed(Publish, Alone(PackageNames) \cup Alone(PublishNames \ PackageNames))
  <2> HIDE DEF Package
  <2> QED BY <1>2, <1>4, Literals, ListedJoin DEF Publish
<1> QED BY <1>3, <1>4, <1>5

-----------------------------------------------------------------------------
(* The command in progress. *)

\* A list that a command starts with.
LEMMA Starts ==
  ASSUME NEW steps, Listed(todo', steps),
         \/ steps \in {VerifySteps, Alone(PackageNames), Alone(PublishNames)}
         \/ <<"pass", "">> \notin steps /\ <<"zip", "">> \notin steps /\ <<"create", "">> \notin steps
  PROVE  OnTrack'
<1>1. todo' \in Seq(AllSteps) /\ InOrder(todo)' /\ Left' = steps
  BY DEF Listed, InOrder, Left
<1>2. CASE <<"pass", "">> \notin steps /\ <<"zip", "">> \notin steps /\ <<"create", "">> \notin steps
  BY <1>1, <1>2 DEF OnTrack, Ahead
<1>3. CASE steps = VerifySteps
  <2>1. <<"zip", "">> \notin VerifySteps /\ <<"create", "">> \notin VerifySteps
    BY DEF VerifySteps, VerifyNames, Alone, Imaging, Testing
  <2> QED BY <1>1, <1>3, <2>1 DEF OnTrack, Ahead, LaterLeft
<1>4. CASE steps = Alone(PackageNames)
  <2>1. /\ <<"pass", "">> \notin Alone(PackageNames) /\ <<"create", "">> \notin Alone(PackageNames)
        /\ Alone(PackageNames) \subseteq Alone(PublishNames)
    BY DEF PackageNames, PublishNames, Alone
  <2> QED BY <1>1, <1>4, <2>1 DEF OnTrack, Ahead, LaterLeft
<1>5. CASE steps = Alone(PublishNames)
  <2>1. <<"pass", "">> \notin Alone(PublishNames) /\ Alone(PackageNames) \subseteq Alone(PublishNames)
    BY DEF PackageNames, PublishNames, Alone
  <2> QED BY <1>1, <1>5, <2>1 DEF OnTrack, Ahead, LaterLeft
<1> QED BY <1>2, <1>3, <1>4, <1>5

LEMMA CommandsListed ==
  ASSUME NEW command \in Commands
  PROVE  \E steps :
           /\ Listed(command, steps)
           /\ \/ steps \in {VerifySteps, Alone(PackageNames), Alone(PublishNames)}
              \/ /\ <<"pass", "">> \notin steps /\ <<"zip", "">> \notin steps
                 /\ <<"create", "">> \notin steps
<1> DEFINE Other(steps) ==
      <<"pass", "">> \notin steps /\ <<"zip", "">> \notin steps /\ <<"create", "">> \notin steps
<1>1. CASE command \in {Verify, Package, Publish}
  BY <1>1, ListedVerify, ListedPublish
<1>2. CASE command = BuildAll
  <2>1. Other((Alone({"invalidate"}) \cup Imaging(Examples)) \cup Alone({"report"}))
    BY DEF Alone, Imaging
  <2> QED BY <1>2, <2>1, ListedBuild
<1>3. CASE command = Plain(<<"crate">>)
  <2>1. Other(Alone({"crate"}))
    BY DEF Alone
  <2> QED BY <1>3, <2>1, Literals
<1>4. ASSUME NEW e \in Examples, command = Build({e})
      PROVE  \E steps : Listed(command, steps) /\ Other(steps)
  <2>1. Other(Alone({"invalidate"}) \cup Imaging({e}))
    BY DEF Alone, Imaging
  <2> QED BY <1>4, <2>1, ListedBuild
<1>5. ASSUME NEW g \in Engines, command = << <<"test", g>> >>
      PROVE  \E steps : Listed(command, steps) /\ Other(steps)
  <2>1. Other({<<"test", g>>})
    OBVIOUS
  <2> QED BY <1>5, <2>1, ListedTests
<1> QED BY <1>1, <1>2, <1>3, <1>4, <1>5 DEF Commands

\* A step is done: it was the first of what was left, and nothing else is gone.
LEMMA TailDone ==
  ASSUME OnTrack, todo # << >>, todo' = Tail(todo)
  PROVE  /\ Head(todo) \in Left /\ Left' = Left \ {Head(todo)}
         /\ \A t \in Left : Place[Head(todo)[1]] <= Place[t[1]]
         /\ Len(todo) = 1 => Left' = {}
         /\ OnTrack'
<1> DEFINE n == Len(todo)
<1>1. /\ todo \in Seq(AllSteps) /\ n \in Nat /\ n > 0 /\ DOMAIN todo = 1 .. n
      /\ \A i \in 1 .. n : todo[i] \in AllSteps
  BY LenProperties, EmptySeq, ElementOfSeq DEF OnTrack
<1>2. /\ todo' \in Seq(AllSteps) /\ DOMAIN todo' = 1 .. n - 1 /\ Head(todo) = todo[1]
      /\ \A i \in 1 .. n - 1 : todo'[i] = todo[i + 1]
  BY <1>1, HeadTailProperties, LenProperties
<1> HIDE DEF n
<1>3. /\ \A i \in 1 .. n - 1 : i + 1 \in 1 .. n
      /\ \A i \in 1 .. n : i # 1 => i - 1 \in 1 .. n - 1 /\ (i - 1) + 1 = i
  BY <1>1
<1>4. /\ Left = {todo[i] : i \in 1 .. n} /\ Left' = {todo'[i] : i \in 1 .. n - 1}
  BY <1>1, <1>2 DEF Left, Range
<1>5. \A i \in 1 .. n : i # 1 => todo[1] # todo[i] /\ Place[todo[1][1]] <= Place[todo[i][1]]
  BY <1>1 DEF OnTrack, InOrder
<1>6. Head(todo) \in Left
  BY <1>1, <1>2, <1>4
<1>7. Left' = Left \ {Head(todo)}
  <2>1. \A i \in 1 .. n - 1 : todo'[i] \in Left \ {todo[1]}
    <3> SUFFICES ASSUME NEW i \in 1 .. n - 1 PROVE todo'[i] \in Left \ {todo[1]}
      OBVIOUS
    <3>1. i + 1 \in 1 .. n /\ i + 1 # 1
      BY <1>1
    <3> QED BY <1>2, <1>4, <1>5, <3>1
  <2>2. \A i \in 1 .. n : i # 1 => todo[i] \in Left'
    <3> SUFFICES ASSUME NEW i \in 1 .. n, i # 1 PROVE todo[i] \in Left'
      OBVIOUS
    <3>1. i - 1 \in 1 .. n - 1 /\ todo[(i - 1) + 1] = todo[i]
      BY <1>3
    <3>2. todo'[i - 1] = todo[i]
      BY <1>2, <3>1
    <3> QED BY <1>4, <3>1, <3>2
  <2>3. ASSUME NEW t \in Left, t # todo[1] PROVE t \in Left'
    <3>1. PICK i \in 1 .. n : t = todo[i]
      BY <1>4
    <3> QED BY <2>2, <2>3, <3>1
  <2>4. Left' \subseteq Left \ {todo[1]}
    BY <1>4, <2>1
  <2> QED BY <1>2, <2>3, <2>4
<1>8. \A t \in Left : Place[Head(todo)[1]] <= Place[t[1]]
  <2>1. Place[todo[1][1]] <= Place[todo[1][1]]
    BY <1>1, StepsNamed, Places
  <2> QED BY <1>2, <1>4, <1>5, <2>1
<1>9. n = 1 => Left' = {}
  BY <1>4
<1>10. InOrder(todo)'
  <2> SUFFICES ASSUME NEW i \in 1 .. n - 1, NEW j \in 1 .. n - 1, i < j
               PROVE  todo'[i] # todo'[j] /\ Place[todo'[i][1]] <= Place[todo'[j][1]]
    BY <1>2 DEF InOrder
  <2>1. i + 1 \in 1 .. n /\ j + 1 \in 1 .. n /\ i + 1 < j + 1
    BY <1>1
  <2>2. todo[i + 1] # todo[j + 1] /\ Place[todo[i + 1][1]] <= Place[todo[j + 1][1]]
    BY <1>1, <2>1 DEF OnTrack, InOrder
  <2> QED BY <1>2, <2>2
<1>11. ASSUME NEW steps \in SUBSET AllSteps, LaterLeft(steps)
       PROVE  LaterLeft(steps)'
  <2> SUFFICES ASSUME NEW s \in Left', NEW t \in steps, Place[s[1]] < Place[t[1]] PROVE t \in Left'
    BY DEF LaterLeft
  <2>1. t \in Left
    BY <1>7, <1>11 DEF LaterLeft
  <2>2. s \in AllSteps /\ Head(todo) \in AllSteps
    BY <1>1, <1>4, <1>6, <1>7
  <2>3. PICK p \in 1 .. 17, q \in 1 .. 17, r \in 1 .. 17 :
          p = Place[Head(todo)[1]] /\ q = Place[s[1]] /\ r = Place[t[1]]
    BY <2>2, StepsNamed, Places
  <2>4. p <= q /\ q < r
    BY <1>7, <1>8, <2>3
  <2>5. p # r
    BY <2>4
  <2> QED BY <1>7, <2>1, <2>3, <2>5
<1>12. /\ VerifySteps \in SUBSET AllSteps /\ Alone(PackageNames) \in SUBSET AllSteps
       /\ Alone(PublishNames) \in SUBSET AllSteps
  BY DEF AllSteps, Alone, PublishNames
<1>13. OnTrack'
  BY <1>2, <1>7, <1>10, <1>11, <1>12 DEF OnTrack, Ahead
<1> QED BY <1>6, <1>7, <1>8, <1>9, <1>13 DEF n

LEMMA Performed ==
  ASSUME OnTrack, NEW name, NEW arg, Perform(name, arg), Advance
  PROVE  /\ <<name, arg>> \in Left /\ Left' = Left \ {<<name, arg>>}
         /\ \A t \in Left : Place[name] <= Place[t[1]]
         /\ OnTrack'
<1>1. todo # << >> /\ todo' = Tail(todo) /\ Head(todo) = <<name, arg>> /\ Head(todo)[1] = name
  BY DEF Perform, Advance
<1> QED BY <1>1, TailDone

LEMMA Kept ==
  ASSUME OnTrack, todo # << >>, todo' = Tail(todo), NEW record, Keep(record)
  PROVE  seen' = record \/ (Left' = {} /\ seen' = NothingSeen)
BY TailDone DEF Keep

LEMMA Advances ==
  Verifying \/ Packaging \/ Publishing => todo # << >> /\ todo' = Tail(todo) /\ UNCHANGED git
BY DEF Verifying, Packaging, Publishing, Running, ReadSource, ReadHead, ReadClean, Gates, Invalidate,
   Image, Report, Test, Crate, SameSource, SameHead, Pass, MustBeClean, Load, MatchHead,
   MatchSource, MatchVersion, Coverage, ReadDocs, WriteZip, Target, Tag, Unreleased, Push,
   RemoteMain, CiPassed, Create, View, Record, Step, Perform, Check, Observe, Save, Advance

LEMMA TrackInitially == Init => OnTrack
<1> SUFFICES ASSUME Init PROVE OnTrack
  OBVIOUS
<1>1. todo = << >> /\ Left = {}
  BY DEF Init, Left, Range
<1> QED BY <1>1 DEF OnTrack, Ahead, InOrder

LEMMA TrackSteps == OnTrack /\ [Next]_vars => OnTrack'
<1> SUFFICES ASSUME OnTrack, [Next]_vars PROVE OnTrack'
  OBVIOUS
<1>1. ASSUME NEW command \in Commands, Start(command) PROVE OnTrack'
  BY <1>1, CommandsListed, Starts DEF Start
<1>2. CASE Verifying \/ Packaging \/ Publishing
  BY <1>2, Advances, TailDone
<1>3. CASE Fail
  <2>1. todo' = << >> /\ Left' = {}
    BY <1>3 DEF Fail, Left, Range
  <2>2. InOrder(todo)' /\ todo' \in Seq(AllSteps)
    BY <2>1, EmptySeq DEF InOrder
  <2> QED BY <2>1, <2>2 DEF OnTrack, Ahead
<1>4. CASE todo' = todo
  BY <1>4 DEF OnTrack, InOrder, LaterLeft, Ahead, Left
<1> QED BY <1>1, <1>2, <1>3, <1>4 DEF Next, Edit, Commit, DeveloperPush, CiEnds, vars

-----------------------------------------------------------------------------
(* Types. *)

LEMMA ConstantsTyped ==
  /\ NothingSeen \in SeenSet /\ NoTree \in AnyTree /\ NoFiles \in Files /\ NoZip \in ZipSet
  /\ Missing \in ImageSet /\ 1 \in Revision /\ Initial \in Trees
  /\ \A status \in {"none", "running", "invalidated"} : Unpassed(status) \in ReceiptSet
<1>1. 1 \in Revision
  BY ReleaseAssumption DEF Revision
<1>2. /\ NoTree \in AnyTree /\ NoFiles \in Files /\ Missing \in ImageSet /\ Initial \in Trees
      /\ 0 \in 0 .. MaxCommits
  BY <1>1, ReleaseAssumption DEF NoTree, AnyTree, NoFiles, Files, Missing, ImageSet, Initial, Trees, None
<1>3. NoZip \in ZipSet
  BY <1>2 DEF NoZip, ZipSet, None
<1>4. \A status \in {"none", "running", "invalidated"} : Unpassed(status) \in ReceiptSet
  BY <1>2 DEF Unpassed, Receipt, ReceiptSet, None
<1>5. NothingSeen \in SeenSet
  BY <1>2, <1>4 DEF NothingSeen, SeenSet, None
<1> QED BY <1>1, <1>2, <1>3, <1>4, <1>5

LEMMA TypesInitially == Init => Types
<1> SUFFICES ASSUME Init PROVE Types
  OBVIOUS
<1>1. history = <<Initial>> /\ Len(history) = 1 /\ history \in Seq(Trees)
  BY ConstantsTyped DEF Init
<1>2. dist \in DistSet
  <2>1. /\ [g \in Engines |-> Missing] \in [Engines -> ImageSet]
        /\ [v \in Revision |-> NoTree] \in [Revision -> AnyTree]
    BY ConstantsTyped
  <2> QED BY <2>1, ConstantsTyped DEF Init, DistSet
<1>3. main \in 0 .. MaxCommits /\ Head1 \in 1 .. MaxCommits
  BY <1>1, ReleaseAssumption DEF Init, Head1, None
<1> QED BY <1>1, <1>2, <1>3, ConstantsTyped DEF Init, Types

LEMMA TypesKept ==
  ASSUME Types, UNCHANGED git, NEW record \in SeenSet, Keep(record), dist' \in DistSet,
         UNCHANGED remote
  PROVE  Types'
BY ConstantsTyped DEF Types, Keep, git, remote, Head1

LEMMA TypesVerifying ==
  ASSUME Types, Verifying
  PROVE  Types'
<1>0. /\ tree \in Trees /\ Head1 \in 1 .. MaxCommits /\ seen \in SeenSet /\ dist \in DistSet
      /\ tree \in AnyTree /\ Head1 \in 0 .. MaxCommits /\ Clean \in BOOLEAN
      /\ tree.code \in Revision \cup {None} /\ tree.version \in Revision
  BY ReleaseAssumption DEF Types, AnyTree, Trees, Clean
<1>1. ASSUME NEW record \in SeenSet, Observe(record) PROVE Types'
  BY <1>0, <1>1, TypesKept DEF Observe, Advance, remote
<1>2. ASSUME NEW files \in DistSet, Save(files) PROVE Types'
  BY <1>0, <1>2, TypesKept DEF Save, Advance
<1>3. CASE ReadSource
  <2>1. [seen EXCEPT !.source = tree] \in SeenSet
    BY <1>0 DEF SeenSet
  <2> QED BY <1>1, <1>3, <2>1 DEF ReadSource
<1>4. CASE ReadHead
  <2>1. [seen EXCEPT !.head = Head1] \in SeenSet
    BY <1>0 DEF SeenSet
  <2> QED BY <1>1, <1>4, <2>1 DEF ReadHead
<1>5. CASE ReadClean
  <2>1. [seen EXCEPT !.clean = Clean] \in SeenSet
    BY <1>0 DEF SeenSet
  <2> QED BY <1>1, <1>5, <2>1 DEF ReadClean
<1>6. CASE Gates \/ SameSource \/ SameHead
  BY <1>0, <1>1, <1>6 DEF Gates, SameSource, SameHead, Check
<1>7. CASE Running \/ Invalidate
  <2>1. /\ [dist EXCEPT !.receipt = Unpassed("running")] \in DistSet
        /\ [dist EXCEPT !.receipt = Unpassed("invalidated")] \in DistSet
    BY <1>0, ConstantsTyped DEF DistSet
  <2> QED BY <1>2, <1>7, <2>1 DEF Running, Invalidate
<1>8. ASSUME NEW e \in Examples, Image(e) PROVE Types'
  <2>1. [dist EXCEPT !.image[e] = tree.code] \in DistSet
    BY <1>0 DEF DistSet, ImageSet
  <2> QED BY <1>2, <1>8, <2>1 DEF Image
<1>9. CASE Report
  <2>1. [dist EXCEPT !.report = dist.image] \in DistSet
    BY <1>0 DEF DistSet
  <2> QED BY <1>2, <1>9, <2>1 DEF Report
<1>10. ASSUME NEW g \in Engines, Test(g) PROVE Types'
  <2>1. [dist EXCEPT !.tested[g] = dist.image] \in DistSet
    BY <1>0 DEF DistSet
  <2> QED BY <1>2, <1>10, <2>1 DEF Test
<1>11. CASE Crate
  <2>1. [dist EXCEPT !.crate[tree.version] = tree] \in DistSet
    BY <1>0 DEF DistSet
  <2> QED BY <1>2, <1>11, <2>1 DEF Crate
<1>12. CASE Pass
  <2> DEFINE receipt == Receipt("passed", seen.head, seen.source, seen.clean, tree.version,
                                Evidence(tree.version))
  <2>1. Evidence(tree.version) \in Files
    BY <1>0 DEF Evidence, Files, DistSet
  <2>2. receipt \in ReceiptSet
    BY <1>0, <2>1 DEF Receipt, ReceiptSet, SeenSet
  <2> HIDE DEF receipt
  <2>3. [dist EXCEPT !.receipt = receipt] \in DistSet
    BY <1>0, <2>2 DEF DistSet
  <2> QED BY <1>2, <1>12, <2>3 DEF Pass, receipt
<1> QED BY <1>3, <1>4, <1>5, <1>6, <1>7, <1>8, <1>9, <1>10, <1>11, <1>12 DEF Verifying

LEMMA TypesPackaging ==
  ASSUME Types, Packaging
  PROVE  Types'
<1>0. tree \in Trees /\ seen \in SeenSet /\ dist \in DistSet
  BY DEF Types
<1>1. ASSUME NEW record \in SeenSet, Observe(record) PROVE Types'
  BY <1>0, <1>1, TypesKept DEF Observe, Advance, remote
<1>2. CASE MustBeClean \/ MatchHead \/ MatchSource \/ MatchVersion \/ Coverage
  BY <1>0, <1>1, <1>2 DEF MustBeClean, MatchHead, MatchSource, MatchVersion, Coverage, Check
<1>3. CASE Load
  <2>1. [seen EXCEPT !.receipt = dist.receipt] \in SeenSet
    BY <1>0 DEF SeenSet, DistSet
  <2> QED BY <1>1, <1>3, <2>1 DEF Load
<1>4. CASE ReadDocs
  <2>1. [seen EXCEPT !.docs = tree.docs] \in SeenSet
    BY <1>0 DEF SeenSet, Trees
  <2> QED BY <1>1, <1>4, <2>1 DEF ReadDocs
<1>5. CASE WriteZip
  <2> DEFINE zip == [commit |-> seen.receipt.commit, tag |-> seen.receipt.version,
                     files |-> seen.receipt.files, docs |-> seen.docs]
  <2>1. zip \in ZipSet
    BY <1>0 DEF SeenSet, ReceiptSet, ZipSet
  <2> HIDE DEF zip
  <2>2. [dist EXCEPT !.zip = zip] \in DistSet
    BY <1>0, <2>1 DEF DistSet
  <2> QED BY <1>0, <1>5, <2>2, TypesKept DEF WriteZip, Save, Advance, zip
<1> QED BY <1>2, <1>3, <1>4, <1>5 DEF Packaging

\* The branch moves to HEAD, and CI starts on a commit that had none.
LEMMA TypesPush ==
  ASSUME Types, PushMain
  PROVE  /\ main' \in 0 .. MaxCommits /\ releases' = releases
         /\ ci' \in [1 .. MaxCommits -> {"none", "running", "success", "failure"}]
         /\ \A c \in 1 .. MaxCommits : ci[c] # "none" => ci'[c] = ci[c]
BY ReleaseAssumption DEF Types, PushMain

LEMMA TypesPublishing ==
  ASSUME Types, Publishing
  PROVE  Types'
<1>0. /\ tree \in Trees /\ seen \in SeenSet /\ dist \in DistSet /\ Head1 \in 0 .. MaxCommits
      /\ releases \subseteq ReleaseSet
  BY ReleaseAssumption DEF Types
<1>1. ASSUME NEW record \in SeenSet, Observe(record) PROVE Types'
  BY <1>0, <1>1, TypesKept DEF Observe, Advance, remote
<1>2. CASE Unreleased \/ RemoteMain \/ CiPassed \/ View
  BY <1>0, <1>1, <1>2 DEF Unreleased, RemoteMain, CiPassed, View, Check
<1>3. CASE Target
  <2>1. [seen EXCEPT !.target = Head1] \in SeenSet
    BY <1>0 DEF SeenSet
  <2> QED BY <1>1, <1>3, <2>1 DEF Target
<1>4. CASE Tag
  <2>1. [seen EXCEPT !.tag = tree.version] \in SeenSet
    BY <1>0 DEF SeenSet, Trees
  <2> QED BY <1>1, <1>4, <2>1 DEF Tag
<1>5. CASE Push
  <2>1. seen' \in SeenSet
    BY <1>0, <1>5, ConstantsTyped DEF Push, Keep
  <2> QED BY <1>5, <2>1, TypesPush DEF Push, Advance, Types, git, Head1
<1>6. CASE Create
  <2>1. seen' \in SeenSet
    BY <1>0, <1>6, ConstantsTyped DEF Create, Keep
  <2>2. [tag |-> seen.tag, target |-> seen.target, zip |-> dist.zip] \in ReleaseSet
    BY <1>0 DEF ReleaseSet, SeenSet, DistSet
  <2>3. releases' \subseteq ReleaseSet
    BY <1>0, <1>6, <2>2 DEF Create
  <2> QED BY <1>6, <2>1, <2>3 DEF Create, Advance, Types, git, Head1
<1>7. CASE Record
  <2>1. [dist EXCEPT !.publication = seen.tag] \in DistSet
    BY <1>0 DEF DistSet, SeenSet
  <2> QED BY <1>0, <1>7, <2>1, TypesKept DEF Record, Save, Advance
<1> QED BY <1>2, <1>3, <1>4, <1>5, <1>6, <1>7 DEF Publishing

\* A part of the tree is edited: the content is a new one.
LEMMA Edited ==
  ASSUME Types, NEW part \in {"code", "docs", "version"}, Edit(part)
  PROVE  /\ tree' \in Trees
         /\ tree.code <= tree'.code /\ tree.docs <= tree'.docs /\ tree.version <= tree'.version
         /\ tree.code < tree'.code \/ tree.docs < tree'.docs \/ tree.version < tree'.version
<1>1. PICK c \in Revision, d \in Revision, v \in Revision :
        tree = [code |-> c, docs |-> d, version |-> v]
  BY DEF Types, Trees
<1>2. /\ c \in Nat /\ d \in Nat /\ v \in Nat /\ c >= 1 /\ d >= 1 /\ v >= 1
      /\ c + d + v < MaxEdits + 3 /\ MaxEdits \in Nat
  BY <1>1, ReleaseAssumption DEF Revision, Edit
<1>3. c + 1 \in Revision /\ d + 1 \in Revision /\ v + 1 \in Revision
  BY <1>2 DEF Revision
<1>4. \/ tree' = [code |-> c + 1, docs |-> d, version |-> v]
      \/ tree' = [code |-> c, docs |-> d + 1, version |-> v]
      \/ tree' = [code |-> c, docs |-> d, version |-> v + 1]
  <2>1. tree' = [tree EXCEPT ![part] = tree[part] + 1]
    BY DEF Edit
  <2>2. CASE part = "code"
    BY <1>1, <2>1, <2>2
  <2>3. CASE part = "docs"
    BY <1>1, <2>1, <2>3
  <2>4. CASE part = "version"
    BY <1>1, <2>1, <2>4
  <2> QED BY <2>2, <2>3, <2>4
<1> QED BY <1>1, <1>2, <1>3, <1>4 DEF Trees

\* A commit keeps what history says of the earlier ones.
LEMMA Committed ==
  ASSUME Types, Commit
  PROVE  /\ history' \in Seq(Trees) /\ Head1' = Head1 + 1 /\ Head1' \in 1 .. MaxCommits
         /\ \A c \in 1 .. Head1 : history'[c] = history[c]
<1>1. /\ history \in Seq(Trees) /\ tree \in Trees /\ Len(history) \in 1 .. MaxCommits
      /\ Len(history) < MaxCommits /\ MaxCommits \in Nat
  BY ReleaseAssumption DEF Types, Commit, Head1
<1>2. /\ Append(history, tree) \in Seq(Trees)
      /\ Len(Append(history, tree)) = Len(history) + 1
      /\ \A c \in 1 .. Len(history) : Append(history, tree)[c] = history[c]
  BY <1>1, AppendProperties
<1>3. Len(history) + 1 \in 1 .. MaxCommits
  BY <1>1
<1> QED BY <1>2, <1>3 DEF Commit, Head1

LEMMA TypesSteps == Types /\ [Next]_vars => Types'
<1> SUFFICES ASSUME Types, [Next]_vars PROVE Types'
  OBVIOUS
<1>1. ASSUME NEW command \in Commands, Start(command) PROVE Types'
  BY <1>1 DEF Start, Types, git, remote, Head1
<1>2. CASE Fail
  BY <1>2, ConstantsTyped DEF Fail, Types, git, remote, Head1
<1>3. ASSUME NEW part \in {"code", "docs", "version"}, Edit(part) PROVE Types'
  <2>1. tree' \in Trees
    BY <1>3, Edited
  <2> QED BY <1>3, <2>1 DEF Edit, Types, remote, Head1
<1>4. CASE Commit
  BY <1>4, Committed DEF Commit, Types, remote
<1>5. CASE DeveloperPush
  BY <1>5, TypesPush DEF DeveloperPush, Types, git, Head1
<1>6. ASSUME NEW c \in 1 .. MaxCommits, CiEnds(c) PROVE Types'
  <2>1. ci' \in [1 .. MaxCommits -> {"none", "running", "success", "failure"}]
    BY <1>6 DEF CiEnds, Types
  <2> QED BY <1>6, <2>1 DEF CiEnds, Types, git, Head1
<1>7. CASE UNCHANGED vars
  BY <1>7 DEF vars, git, remote, Types, Head1
<1> QED
  BY <1>1, <1>2, <1>3, <1>4, <1>5, <1>6, <1>7, TypesVerifying, TypesPackaging, TypesPublishing DEF Next

-----------------------------------------------------------------------------
(* Evidence: the steps of verify. *)

LEMMA Apart == VerifySteps \cap Alone(PublishNames) = {}
<1>1. \A s \in VerifySteps : s[1] \in VerifyNames \cup {"image", "test"}
  BY NameOf DEF VerifySteps
<1>2. (VerifyNames \cup {"image", "test"}) \cap PublishNames = {}
  BY DEF VerifyNames, PublishNames, PackageNames
<1> QED BY <1>1, <1>2, NameOf

\* Performing one kind of step says that no command of the other kind is in progress.
LEMMA VerifyOnly ==
  ASSUME OnTrack, Verifying
  PROVE  ~Ahead("zip") /\ ~Ahead("create") /\ ~Ahead("zip")' /\ ~Ahead("create")'
<1>1. Head(todo) \in VerifySteps
  BY DEF VerifySteps, VerifyNames, Alone, Imaging, Testing, Verifying, Running, ReadSource, ReadHead,
         ReadClean, Gates, Invalidate, Image, Report, Test, Crate, SameSource, SameHead, Pass, Step,
         Perform
<1>3. Head(todo) \in Left /\ Left' \subseteq Left
  BY Advances, TailDone
<1> QED BY <1>1, <1>3, Apart DEF OnTrack, Ahead

LEMMA PublishOnly ==
  ASSUME OnTrack, Packaging \/ Publishing
  PROVE  ~Ahead("pass") /\ ~Ahead("pass")'
<1>1. Head(todo) \in Alone(PublishNames)
  BY DEF PublishNames, PackageNames, Alone, Packaging, Publishing, MustBeClean, Load, MatchHead,
         MatchSource, MatchVersion, Coverage, ReadDocs, WriteZip, Target, Tag, Unreleased, Push,
         RemoteMain, CiPassed, Create, View, Record, Step, Perform
<1>3. Head(todo) \in Left /\ Left' \subseteq Left
  BY Advances, TailDone
<1> QED BY <1>1, <1>3, Apart DEF OnTrack, Ahead

\* While verify runs, a step that is left has the later ones left behind it.
LEMMA VerifyOrder ==
  ASSUME OnTrack, Ahead("pass")
  PROVE  /\ Ahead("source") => Ahead("head")
         /\ Ahead("head") => Ahead("clean")
         /\ Ahead("clean") => \A e \in Examples : <<"image", e>> \in Left
         /\ Ahead("clean") => \A g \in Engines : <<"test", g>> \in Left
         /\ \A e \in Examples, g \in Engines : <<"image", e>> \in Left => <<"test", g>> \in Left
         /\ \A g \in Engines : <<"test", g>> \in Left => Ahead("crate")
         /\ Ahead("crate") => Ahead("sameSource")
         /\ Ahead("sameSource") => Ahead("sameHead")
<1>1. \A x, y, a, b : <<x, a>> \in Left /\ <<y, b>> \in VerifySteps /\ Place[x] < Place[y] =>
        <<y, b>> \in Left
  BY DEF OnTrack, LaterLeft
<1>2. /\ \A name \in {"head", "clean", "crate", "sameSource", "sameHead"} : <<name, "">> \in VerifySteps
      /\ \A e \in Examples : <<"image", e>> \in VerifySteps
      /\ \A g \in Engines : <<"test", g>> \in VerifySteps
  BY DEF VerifySteps, VerifyNames, Alone, Imaging, Testing
<1>3. /\ Place["source"] < Place["head"] /\ Place["head"] < Place["clean"]
      /\ Place["clean"] < Place["image"] /\ Place["clean"] < Place["test"]
      /\ Place["image"] < Place["test"] /\ Place["test"] < Place["crate"]
      /\ Place["crate"] < Place["sameSource"] /\ Place["sameSource"] < Place["sameHead"]
  BY DEF Place
<1> QED BY <1>1, <1>2, <1>3 DEF Ahead

\* A step of verify that is not its last one.
LEMMA VerifyPerformed ==
  ASSUME OnTrack, NEW name, NEW arg, Perform(name, arg), Advance, Ahead("pass")'
  PROVE  /\ Ahead("pass") /\ <<name, arg>> \in Left /\ Left' = Left \ {<<name, arg>>}
         /\ \A t \in Left : Place[name] <= Place[t[1]]
         /\ \A record : Keep(record) => seen' = record
<1>1. /\ <<name, arg>> \in Left /\ Left' = Left \ {<<name, arg>>}
      /\ \A t \in Left : Place[name] <= Place[t[1]]
  BY Performed
<1>2. todo # << >> /\ todo' = Tail(todo) /\ Left' # {}
  BY DEF Perform, Advance, Ahead
<1> QED BY <1>1, <1>2, Kept DEF Ahead

\* What none of these steps has anything to do with.
LEMMA VerifyQuiet ==
  ASSUME VerifySound, NEW s, Left' = Left \ {s},
         s \notin {<<name, "">> : name \in {"source", "head", "clean", "crate", "sameSource",
                                        "sameHead"}},
         s \notin Imaging(Examples), s \notin Testing,
         UNCHANGED <<tree, history>>, seen'.source = seen.source, seen'.head = seen.head,
         seen'.clean = seen.clean, dist'.image = dist.image, dist'.tested = dist.tested,
         dist'.crate = dist.crate
  PROVE  VerifySound'
<1>1. /\ \A name \in {"source", "head", "clean", "crate", "sameSource", "sameHead"} :
           Ahead(name)' <=> Ahead(name)
      /\ \A e \in Examples : <<"image", e>> \in Left' <=> <<"image", e>> \in Left
      /\ \A g \in Engines : <<"test", g>> \in Left' <=> <<"test", g>> \in Left
      /\ Ahead("pass")' => Ahead("pass")
  BY DEF Ahead, Imaging, Testing
<1>2. /\ Unchanged' => Unchanged
      /\ Unmoved' => Unmoved
      /\ SourceRead' => SourceRead
  BY <1>1 DEF Unchanged, Unmoved, SourceRead, Head1
<1>3. SourceKnown'
  BY <1>2 DEF VerifySound, SourceKnown, Past
<1>4. HeadKnown'
  BY <1>1 DEF VerifySound, HeadKnown, Head1
<1>5. CleanKnown'
  BY <1>1, <1>2 DEF VerifySound, CleanKnown
<1>6. FilesMade'
  BY <1>1, <1>2 DEF VerifySound, FilesMade
<1>7. NewerMissing'
  BY <1>1 DEF VerifySound, NewerMissing
<1> QED BY <1>3, <1>4, <1>5, <1>6, <1>7 DEF VerifySound

\* A step of verify keeps what the ones before it established.
LEMMA VerifyStep ==
  ASSUME Types, OnTrack, CratesFromPast, VerifySound, Ahead("pass")', Verifying
  PROVE  VerifySound'
<1>0. /\ tree \in Trees /\ Head1 \in 1 .. MaxCommits /\ seen \in SeenSet /\ dist \in DistSet
      /\ Ahead("pass") /\ UNCHANGED <<tree, history>>
  BY Advances, TailDone DEF Types, Ahead, git
<1>n. tree.code <= tree.code /\ tree.docs <= tree.docs /\ tree.version <= tree.version
  BY <1>0, ReleaseAssumption DEF Trees, Revision
<1>p. \A name, arg : Perform(name, arg) /\ Advance =>
        /\ <<name, arg>> \in Left /\ Left' = Left \ {<<name, arg>>}
        /\ \A t \in Left : Place[name] <= Place[t[1]]
        /\ \A record : Keep(record) => seen' = record
  BY VerifyPerformed
<1>o. /\ Ahead("source") => Ahead("head")
      /\ Ahead("head") => Ahead("clean")
      /\ Ahead("clean") => \A e \in Examples : <<"image", e>> \in Left
      /\ Ahead("clean") => \A g \in Engines : <<"test", g>> \in Left
      /\ \A e \in Examples, g \in Engines : <<"image", e>> \in Left => <<"test", g>> \in Left
      /\ \A g \in Engines : <<"test", g>> \in Left => Ahead("crate")
      /\ Ahead("crate") => Ahead("sameSource")
      /\ Ahead("sameSource") => Ahead("sameHead")
  BY <1>0, VerifyOrder
<1>1. CASE Running \/ Gates \/ Invalidate \/ Report
  <2>1. PICK name \in {"running", "gates", "invalidate", "report"} : Step(name) /\ Advance
    BY <1>1 DEF Running, Gates, Invalidate, Report, Check, Observe, Save
  <2>2. Left' = Left \ {<<name, "">>} /\ seen' = seen
    BY <1>1, <1>p, <2>1 DEF Step, Running, Gates, Invalidate, Report, Check, Observe, Save
  <2>3. dist'.image = dist.image /\ dist'.tested = dist.tested /\ dist'.crate = dist.crate
    BY <1>0, <1>1 DEF DistSet, Running, Gates, Invalidate, Report, Check, Observe, Save
  <2>4. /\ <<name, "">> \notin {<<n, "">> : n \in {"source", "head", "clean", "crate", "sameSource",
                                              "sameHead"}}
        /\ <<name, "">> \notin Imaging(Examples) /\ <<name, "">> \notin Testing
    BY <2>1 DEF Imaging, Testing
  <2>5. UNCHANGED <<tree, history>> /\ seen'.source = seen.source /\ seen'.head = seen.head
        /\ seen'.clean = seen.clean
    BY <1>0, <2>2
  <2> QED BY <2>2, <2>3, <2>4, <2>5, VerifyQuiet
<1>2. CASE ReadSource
  <2>1. Perform("source", "") /\ Advance /\ Keep([seen EXCEPT !.source = tree]) /\ UNCHANGED <<dist, remote>>
    BY <1>2 DEF ReadSource, Step, Observe
  <2>2. /\ seen'.source = tree /\ seen'.head = seen.head /\ seen'.clean = seen.clean
        /\ Ahead("source") /\ Left' = Left \ {<<"source", "">>}
    BY <1>0, <1>p, <2>1 DEF SeenSet, Ahead
  <2>3. /\ \A name \in {"head", "clean", "crate", "sameSource"} : Ahead(name)'
        /\ \A e \in Examples : <<"image", e>> \in Left'
        /\ \A g \in Engines : <<"test", g>> \in Left'
    BY <1>o, <2>2 DEF Ahead, Engines
  <2>4. SourceKnown'
    BY <1>0, <1>n, <2>2 DEF SourceKnown, Past
  <2> QED BY <2>3, <2>4 DEF VerifySound, HeadKnown, CleanKnown, FilesMade, NewerMissing
<1>3. CASE ReadHead
  <2>1. Perform("head", "") /\ Advance /\ Keep([seen EXCEPT !.head = Head1]) /\ UNCHANGED <<dist, remote>>
    BY <1>3 DEF ReadHead, Step, Observe
  <2>2. /\ seen'.head = Head1 /\ seen'.source = seen.source
        /\ Ahead("head") /\ Left' = Left \ {<<"head", "">>}
    BY <1>0, <1>p, <2>1 DEF SeenSet, Ahead
  <2>3. /\ \A name \in {"clean", "sameSource", "crate"} : Ahead(name)'
        /\ \A e \in Examples : <<"image", e>> \in Left'
        /\ \A g \in Engines : <<"test", g>> \in Left'
        /\ Ahead("source")' <=> Ahead("source")
    BY <1>o, <2>2 DEF Ahead, Engines
  <2>4. SourceKnown'
    BY <1>0, <2>2, <2>3 DEF VerifySound, SourceKnown, SourceRead, Past
  <2>5. HeadKnown'
    <3>1. Head1 \in 1 .. Head1 /\ Head1' = Head1
      BY <1>0, ReleaseAssumption DEF Head1
    <3> QED BY <2>2, <3>1 DEF HeadKnown
  <2> QED BY <2>3, <2>4, <2>5 DEF VerifySound, CleanKnown, FilesMade, NewerMissing
<1>4. CASE ReadClean
  <2>1. Perform("clean", "") /\ Advance /\ Keep([seen EXCEPT !.clean = Clean]) /\ UNCHANGED <<dist, remote>>
    BY <1>4 DEF ReadClean, Step, Observe
  <2>2. /\ seen'.head = seen.head /\ seen'.source = seen.source /\ seen'.clean = Clean
        /\ Ahead("clean") /\ Left' = Left \ {<<"clean", "">>}
    BY <1>0, <1>p, <2>1 DEF SeenSet, Ahead
  <2>3. /\ \A name \in {"sameSource", "sameHead", "crate"} : Ahead(name)'
        /\ \A e \in Examples : <<"image", e>> \in Left'
        /\ \A g \in Engines : <<"test", g>> \in Left'
        /\ Ahead("source")' <=> Ahead("source")
        /\ Ahead("head")' <=> Ahead("head")
    BY <1>o, <2>2 DEF Ahead, Engines
  <2>4. SourceKnown'
    BY <1>0, <2>2, <2>3 DEF VerifySound, SourceKnown, SourceRead, Past
  <2>5. HeadKnown'
    BY <1>0, <2>2, <2>3 DEF VerifySound, HeadKnown, Head1
  <2>6. CleanKnown'
    BY <1>0, <2>2, <2>3 DEF CleanKnown, Unchanged, Unmoved, Clean, Head1
  <2> QED BY <2>3, <2>4, <2>5, <2>6 DEF VerifySound, FilesMade, NewerMissing
<1>5. ASSUME NEW e \in Examples, Image(e) PROVE VerifySound'
  <2>1. Perform("image", e) /\ Advance /\ Keep(seen) /\ dist' = [dist EXCEPT !.image[e] = tree.code]
    BY <1>5 DEF Image, Save
  <2>2. /\ seen' = seen /\ <<"image", e>> \in Left /\ Left' = Left \ {<<"image", e>>}
        /\ dist'.tested = dist.tested /\ dist'.crate = dist.crate
        /\ dist'.image[e] = tree.code /\ \A d \in Examples : d # e => dist'.image[d] = dist.image[d]
    BY <1>0, <1>p, <2>1 DEF DistSet, ImageSet
  <2>3. /\ \A name \in VerifyNames : Ahead(name)' <=> Ahead(name)
        /\ \A d \in Examples : <<"image", d>> \in Left' <=> <<"image", d>> \in Left /\ d # e
        /\ \A g \in Engines : <<"test", g>> \in Left'
        /\ Ahead("crate") /\ Ahead("sameSource")
    <3>1. \A name \in VerifyNames : <<name, "">> # <<"image", e>>
      BY DEF VerifyNames
    <3> QED BY <1>o, <2>2, <3>1 DEF Ahead, Engines
  <2>4. /\ Unchanged' <=> Unchanged
        /\ Unmoved' <=> Unmoved
        /\ SourceRead' <=> SourceRead
    BY <1>0, <2>2, <2>3 DEF Unchanged, Unmoved, SourceRead, Head1, VerifyNames
  <2>5. SourceKnown' /\ HeadKnown' /\ CleanKnown'
    BY <1>0, <2>2, <2>3, <2>4 DEF VerifySound, SourceKnown, HeadKnown, CleanKnown, Past, Head1, VerifyNames
  <2>6. FilesMade'
    BY <1>0, <2>2, <2>3, <2>4 DEF VerifySound, FilesMade, Unchanged, VerifyNames
  <2> QED BY <2>3, <2>5, <2>6 DEF VerifySound, NewerMissing, VerifyNames
<1>6. ASSUME NEW g \in Engines, Test(g) PROVE VerifySound'
  <2>1. Perform("test", g) /\ Advance /\ Keep(seen) /\ dist' = [dist EXCEPT !.tested[g] = dist.image]
    BY <1>6 DEF Test, Save
  <2>2. /\ seen' = seen /\ <<"test", g>> \in Left /\ Left' = Left \ {<<"test", g>>}
        /\ \A t \in Left : Place["test"] <= Place[t[1]]
        /\ dist'.image = dist.image /\ dist'.crate = dist.crate
        /\ dist'.tested[g] = dist.image /\ \A f \in Engines : f # g => dist'.tested[f] = dist.tested[f]
    BY <1>0, <1>p, <2>1 DEF DistSet
  <2>3. /\ \A name \in VerifyNames : Ahead(name)' <=> Ahead(name)
        /\ \A d \in Examples : <<"image", d>> \in Left' <=> <<"image", d>> \in Left
        /\ \A f \in Engines : <<"test", f>> \in Left' <=> <<"test", f>> \in Left /\ f # g
        /\ Ahead("crate") /\ Ahead("sameSource")
    <3>1. \A name \in VerifyNames : <<name, "">> # <<"test", g>>
      BY DEF VerifyNames
    <3> QED BY <1>o, <2>2, <3>1 DEF Ahead
  <2>4. /\ Unchanged' <=> Unchanged
        /\ Unmoved' <=> Unmoved
        /\ SourceRead' <=> SourceRead
    BY <1>0, <2>2, <2>3 DEF Unchanged, Unmoved, SourceRead, Head1, VerifyNames
  <2>5. SourceKnown' /\ HeadKnown' /\ CleanKnown'
    BY <1>0, <2>2, <2>3, <2>4 DEF VerifySound, SourceKnown, HeadKnown, CleanKnown, Past, Head1, VerifyNames
  <2>6. \A e \in Examples : <<"image", e>> \notin Left
    <3>1. Place["image"] = 7 /\ Place["test"] = 9 /\ \A e \in Examples : <<"image", e>>[1] = "image"
      BY DEF Place
    <3> QED BY <2>2, <3>1
  <2>7. FilesMade'
    <3> SUFFICES ASSUME SourceRead', Unchanged' PROVE FilesMade'
      BY DEF FilesMade
    <3>1. \A e \in Examples : dist.image[e] = seen.source.code
      BY <2>4, <2>6 DEF VerifySound, FilesMade
    <3>2. \A f \in Engines : <<"test", f>> \notin Left' =>
            \A e \in Examples : dist'.tested[f][e] = seen.source.code
      BY <2>2, <2>3, <2>4, <3>1 DEF VerifySound, FilesMade
    <3>3. Ahead("crate")'
      BY <2>3 DEF VerifyNames
    <3> QED BY <2>2, <3>1, <3>2, <3>3 DEF FilesMade
  <2> QED BY <2>3, <2>5, <2>7 DEF VerifySound, NewerMissing, VerifyNames
<1>7. CASE Crate
  <2>1. Perform("crate", "") /\ Advance /\ Keep(seen) /\ dist' = [dist EXCEPT !.crate[tree.version] = tree]
    BY <1>7 DEF Crate, Save, Step
  <2>2. /\ seen' = seen /\ Ahead("crate") /\ Left' = Left \ {<<"crate", "">>}
        /\ dist'.image = dist.image /\ dist'.tested = dist.tested
        /\ tree.version \in Revision /\ dist'.crate[tree.version] = tree
    BY <1>0, <1>p, <2>1 DEF DistSet, Trees, Ahead
  <2>3. /\ \A name : name # "crate" => (Ahead(name)' <=> Ahead(name))
        /\ \A d \in Examples : <<"image", d>> \in Left' <=> <<"image", d>> \in Left
        /\ \A f \in Engines : <<"test", f>> \in Left' <=> <<"test", f>> \in Left
        /\ Ahead("sameSource")
    BY <1>o, <2>2 DEF Ahead
  <2>4. /\ Unchanged' <=> Unchanged
        /\ Unmoved' <=> Unmoved
        /\ SourceRead' <=> SourceRead
    BY <1>0, <2>2, <2>3 DEF Unchanged, Unmoved, SourceRead, Head1
  <2>5. SourceKnown' /\ HeadKnown' /\ CleanKnown'
    BY <1>0, <2>2, <2>3, <2>4 DEF VerifySound, SourceKnown, HeadKnown, CleanKnown, Past, Head1
  <2>6. FilesMade'
    BY <1>0, <2>2, <2>3, <2>4 DEF VerifySound, FilesMade, Unchanged
  <2> QED BY <2>3, <2>5, <2>6 DEF VerifySound, NewerMissing
<1>8. CASE SameSource
  <2>1. Perform("sameSource", "") /\ Advance /\ Keep(seen) /\ dist' = dist /\ tree = seen.source
    BY <1>8 DEF SameSource, Check, Observe, Step
  <2>2. /\ seen' = seen /\ Ahead("sameSource") /\ Left' = Left \ {<<"sameSource", "">>}
    BY <1>p, <2>1 DEF Ahead
  <2>3. /\ \A name : name # "sameSource" => (Ahead(name)' <=> Ahead(name))
        /\ \A d \in Examples : <<"image", d>> \in Left' <=> <<"image", d>> \in Left
        /\ \A f \in Engines : <<"test", f>> \in Left' <=> <<"test", f>> \in Left
        /\ Unchanged
    BY <2>1, <2>2 DEF Ahead, Unchanged
  <2>4. /\ Unmoved' <=> Unmoved
        /\ SourceRead' <=> SourceRead
    BY <1>0, <2>2, <2>3 DEF Unmoved, SourceRead, Head1
  <2>5. SourceKnown' /\ HeadKnown' /\ CleanKnown'
    BY <1>0, <2>2, <2>3, <2>4 DEF VerifySound, SourceKnown, HeadKnown, CleanKnown, Past, Head1
  <2>6. FilesMade'
    BY <1>0, <2>1, <2>2, <2>3, <2>4 DEF VerifySound, FilesMade
  <2>7. NewerMissing'
    <3> SUFFICES ASSUME NEW v \in Revision, v > tree.version, dist.crate[v] # NoTree PROVE FALSE
      BY <2>1, <2>2 DEF NewerMissing
    <3>1. v <= tree.version
      BY DEF CratesFromPast, Past
    <3> QED BY <1>0, <3>1, ReleaseAssumption DEF Trees, Revision
  <2> QED BY <2>5, <2>6, <2>7 DEF VerifySound
<1>9. CASE SameHead
  <2>1. Perform("sameHead", "") /\ Advance /\ Keep(seen) /\ dist' = dist /\ Head1 = seen.head
    BY <1>9 DEF SameHead, Check, Observe, Step
  <2>2. /\ seen' = seen /\ Left' = Left \ {<<"sameHead", "">>}
    BY <1>p, <2>1
  <2>3. /\ \A name : name # "sameHead" => (Ahead(name)' <=> Ahead(name))
        /\ \A d \in Examples : <<"image", d>> \in Left' <=> <<"image", d>> \in Left
        /\ \A f \in Engines : <<"test", f>> \in Left' <=> <<"test", f>> \in Left
        /\ Unmoved
    BY <2>1, <2>2 DEF Ahead, Unmoved
  <2>4. /\ Unchanged' <=> Unchanged
        /\ SourceRead' <=> SourceRead
    BY <1>0, <2>2, <2>3 DEF Unchanged, SourceRead
  <2>5. SourceKnown' /\ HeadKnown' /\ CleanKnown'
    BY <1>0, <2>2, <2>3, <2>4 DEF VerifySound, SourceKnown, HeadKnown, CleanKnown, Past, Head1
  <2>6. FilesMade'
    BY <1>0, <2>1, <2>2, <2>3, <2>4 DEF VerifySound, FilesMade
  <2>7. NewerMissing'
    BY <2>1, <2>2, <2>3 DEF VerifySound, NewerMissing
  <2> QED BY <2>5, <2>6, <2>7 DEF VerifySound
<1>10. ~Pass
  <2>1. Pass => Perform("pass", "") /\ Advance
    BY DEF Pass, Save, Step
  <2> QED BY <1>p, <2>1 DEF Ahead
<1> QED BY <1>1, <1>2, <1>3, <1>4, <1>5, <1>6, <1>7, <1>8, <1>9, <1>10 DEF Verifying

\* The receipt written at the end of verify is sound.
LEMMA PassSound ==
  ASSUME Types, OnTrack, CratesFromPast, VerifySound, Pass
  PROVE  Sound(dist.receipt)'
<1>0. /\ tree \in Trees /\ Head1 \in 1 .. MaxCommits /\ seen \in SeenSet /\ dist \in DistSet
      /\ UNCHANGED <<tree, history>>
  BY DEF Types, Pass, Save, Advance, git
<1>1. /\ Perform("pass", "") /\ Advance /\ dist.crate[tree.version] # NoTree
      /\ dist' = [dist EXCEPT !.receipt = Receipt("passed", seen.head, seen.source, seen.clean,
                                                 tree.version, Evidence(tree.version))]
  BY DEF Pass, Save, Step
<1>2. <<"pass", "">> \in Left /\ \A t \in Left : Place["pass"] <= Place[t[1]]
  BY <1>1, Performed
<1>3. /\ \A name \in {"source", "head", "clean", "crate", "sameSource", "sameHead"} : ~Ahead(name)
      /\ \A e \in Examples : <<"image", e>> \notin Left
      /\ \A g \in Engines : <<"test", g>> \notin Left
  <2>1. /\ Place["pass"] = 13 /\ Place["image"] = 7 /\ Place["test"] = 9
        /\ \A name \in {"source", "head", "clean", "crate", "sameSource", "sameHead"} :
             Place[name] \in 1 .. 12
    BY DEF Place
  <2>2. \A name, arg : <<name, arg>> \in Left => 13 <= Place[name]
    BY <1>2, <2>1
  <2>3. \A name \in {"source", "head", "clean", "crate", "sameSource", "sameHead"} : ~(13 <= Place[name])
    BY <2>1
  <2>4. ~(13 <= Place["image"]) /\ ~(13 <= Place["test"])
    BY <2>1
  <2> QED BY <2>2, <2>3, <2>4 DEF Ahead
<1>4. Ahead("pass") /\ Unchanged /\ Unmoved /\ SourceRead
  BY <1>2, <1>3 DEF Ahead, Unchanged, Unmoved, SourceRead
<1>5. /\ seen.source \in Trees /\ Past(seen.source) /\ seen.head \in 1 .. Head1
      /\ seen.clean => history[seen.head] = seen.source
      /\ \A e \in Examples : dist.image[e] = seen.source.code
      /\ \A g \in Engines : \A e \in Examples : dist.tested[g][e] = seen.source.code
      /\ dist.crate[seen.source.version] = seen.source
      /\ \A v \in Revision : v > seen.source.version => dist.crate[v] = NoTree
  BY <1>3, <1>4 DEF VerifySound, SourceKnown, HeadKnown, CleanKnown, FilesMade, NewerMissing
<1>6. tree.version = seen.source.version
  <2>1. /\ tree.version \in Revision /\ seen.source.version \in Revision
        /\ ~(tree.version > seen.source.version) /\ seen.source.version <= tree.version
    BY <1>0, <1>1, <1>5 DEF Trees, Past
  <2> QED BY <2>1, ReleaseAssumption DEF Revision
<1>7. dist'.receipt = Receipt("passed", seen.head, seen.source, seen.clean, tree.version,
                              Evidence(tree.version))
  BY <1>0, <1>1 DEF DistSet
<1>8. MadeFrom(Evidence(tree.version), seen.source)
  BY <1>5, <1>6 DEF MadeFrom, Evidence
<1> QED BY <1>0, <1>5, <1>6, <1>7, <1>8 DEF Sound, Receipt, Head1

LEMMA EvidenceVerifying ==
  ASSUME Types, OnTrack, EvidenceInv, Verifying
  PROVE  EvidenceInv'
<1>0. /\ tree \in Trees /\ dist \in DistSet /\ UNCHANGED <<tree, history>>
  BY Advances DEF Types, git
<1>1. CratesFromPast'
  <2>1. CASE Crate
    <3>1. /\ tree.version \in Revision
          /\ \A v \in Revision : dist'.crate[v] = IF v = tree.version THEN tree ELSE dist.crate[v]
      BY <1>0, <2>1 DEF Crate, Save, Trees, DistSet
    <3>2. tree.code <= tree.code /\ tree.docs <= tree.docs /\ tree.version <= tree.version
      BY <1>0, ReleaseAssumption DEF Trees, Revision
    <3> QED BY <1>0, <3>1, <3>2 DEF EvidenceInv, CratesFromPast, Past
  <2>2. CASE ~Crate
    <3>1. dist'.crate = dist.crate
      BY <1>0, <2>2 DEF DistSet, Verifying, Running, ReadSource, ReadHead, ReadClean, Gates, Invalidate,
         Image, Report, Test, SameSource, SameHead, Pass, Check, Observe, Save
    <3> QED BY <1>0, <3>1 DEF EvidenceInv, CratesFromPast, Past
  <2> QED BY <2>1, <2>2
<1>2. Sound(dist.receipt)'
  <2>1. CASE Pass
    BY <2>1, PassSound DEF EvidenceInv
  <2>2. CASE Running \/ Invalidate
    <3>1. dist'.receipt.status \in {"running", "invalidated"}
      BY <1>0, <2>2 DEF Running, Invalidate, Save, DistSet, Unpassed, Receipt
    <3> QED BY <3>1 DEF Sound
  <2>3. CASE ~Pass /\ ~Running /\ ~Invalidate
    <3>1. dist'.receipt = dist.receipt
      BY <1>0, <2>3 DEF DistSet, Verifying, ReadSource, ReadHead, ReadClean, Gates,
         Image, Report, Test, Crate, SameSource, SameHead, Check, Observe, Save
    <3> QED BY <1>0, <3>1 DEF EvidenceInv, Sound, Head1
  <2> QED BY <2>1, <2>2, <2>3
<1>3. VerifySound'
  <2>1. CASE Ahead("pass")'
    BY <2>1, VerifyStep DEF EvidenceInv
  <2>2. CASE ~Ahead("pass")'
    BY <2>2 DEF VerifySound, SourceKnown, HeadKnown, CleanKnown, FilesMade, NewerMissing, SourceRead
  <2> QED BY <2>1, <2>2
<1> QED BY <1>1, <1>2, <1>3 DEF EvidenceInv

\* A step that changes no receipt and no crate, with no verify in progress after it.
LEMMA EvidenceOutside ==
  ASSUME EvidenceInv, ~Ahead("pass")', UNCHANGED <<tree, history>>,
         dist'.receipt = dist.receipt, dist'.crate = dist.crate
  PROVE  EvidenceInv'
<1>1. CratesFromPast' /\ Sound(dist.receipt)'
  BY DEF EvidenceInv, CratesFromPast, Past, Sound, Head1
<1>2. VerifySound'
  BY DEF VerifySound, SourceKnown, HeadKnown, CleanKnown, FilesMade, NewerMissing, SourceRead
<1> QED BY <1>1, <1>2 DEF EvidenceInv

\* An edit ends what verify could have said of the checkout, before it compares the source.
LEMMA EvidenceEdit ==
  ASSUME Types, OnTrack, EvidenceInv, NEW part \in {"code", "docs", "version"}, Edit(part)
  PROVE  EvidenceInv'
<1>0. /\ tree \in Trees /\ tree' \in Trees /\ dist \in DistSet /\ seen \in SeenSet
      /\ UNCHANGED <<history, todo, seen, dist>> /\ Left' = Left
  BY Edited DEF Types, Edit, Left
<1>1. \A content \in Trees : Past(content) => Past(content)' /\ tree' # content
  <2> SUFFICES ASSUME NEW content \in Trees, Past(content) PROVE Past(content)' /\ tree' # content
    OBVIOUS
  <2>1. /\ content.code \in Nat /\ content.docs \in Nat /\ content.version \in Nat
        /\ tree.code \in Nat /\ tree.docs \in Nat /\ tree.version \in Nat
        /\ tree'.code \in Nat /\ tree'.docs \in Nat /\ tree'.version \in Nat
    BY <1>0, ReleaseAssumption DEF Trees, Revision
  <2>2. /\ content.code <= tree.code /\ content.docs <= tree.docs /\ content.version <= tree.version
        /\ tree.code <= tree'.code /\ tree.docs <= tree'.docs /\ tree.version <= tree'.version
        /\ tree.code < tree'.code \/ tree.docs < tree'.docs \/ tree.version < tree'.version
    BY Edited DEF Past
  <2>3. Past(content)'
    BY <2>1, <2>2 DEF Past
  <2>4. content.code < tree'.code \/ content.docs < tree'.docs \/ content.version < tree'.version
    BY <2>1, <2>2
  <2>5. tree' # content
    BY <2>1, <2>4
  <2> QED BY <2>3, <2>5
<1>2. CratesFromPast'
  <2>1. \A v \in Revision : dist.crate[v] # NoTree => dist.crate[v] \in Trees
    BY <1>0 DEF DistSet, AnyTree
  <2> QED BY <1>0, <1>1, <2>1 DEF EvidenceInv, CratesFromPast
<1>3. Sound(dist.receipt)'
  BY <1>0 DEF EvidenceInv, Sound, Head1
<1>4. SourceRead' => SourceRead /\ seen.source \in Trees /\ Past(seen.source)
  BY <1>0 DEF EvidenceInv, VerifySound, SourceKnown, SourceRead, Ahead
<1>5. SourceRead' /\ Unchanged' => Unchanged
  BY <1>0, <1>1, <1>4 DEF Unchanged, Ahead
<1>6. Ahead("pass")' /\ ~Ahead("clean")' => SourceRead'
  BY <1>0, VerifyOrder DEF SourceRead, Ahead
<1>7. SourceKnown' /\ HeadKnown' /\ NewerMissing'
  BY <1>0, <1>1, <1>4 DEF EvidenceInv, VerifySound, SourceKnown, HeadKnown, NewerMissing, Ahead, Head1
<1>8. CleanKnown'
  BY <1>0, <1>5, <1>6 DEF EvidenceInv, VerifySound, CleanKnown, Unmoved, Ahead, Head1
<1>9. FilesMade'
  BY <1>0, <1>4, <1>5 DEF EvidenceInv, VerifySound, FilesMade, Ahead
<1> QED BY <1>2, <1>3, <1>7, <1>8, <1>9 DEF EvidenceInv, VerifySound

\* A commit ends what verify could have said of HEAD, before it compares it.
LEMMA EvidenceCommit ==
  ASSUME Types, OnTrack, EvidenceInv, Commit
  PROVE  EvidenceInv'
<1>0. /\ Head1 \in 1 .. MaxCommits /\ Head1' = Head1 + 1 /\ \A c \in 1 .. Head1 : history'[c] = history[c]
      /\ UNCHANGED <<tree, todo, seen, dist>> /\ Left' = Left
  BY Committed DEF Types, Commit, Left
<1>1. \A c \in 1 .. Head1 : c \in 1 .. Head1' /\ c # Head1' /\ history'[c] = history[c]
  BY <1>0
<1>2. CratesFromPast' /\ Sound(dist.receipt)'
  BY <1>0, <1>1 DEF EvidenceInv, CratesFromPast, Past, Sound
<1>3. SourceKnown' /\ FilesMade' /\ NewerMissing'
  BY <1>0 DEF EvidenceInv, VerifySound, SourceKnown, SourceRead, FilesMade, NewerMissing, Unchanged,
              Ahead, Past
<1>4. HeadKnown'
  BY <1>0, <1>1 DEF EvidenceInv, VerifySound, HeadKnown, Ahead
<1>5. CleanKnown'
  <2> SUFFICES ASSUME Ahead("pass"), ~Ahead("clean"), Unchanged, Unmoved', seen.clean
               PROVE  history'[seen.head] = seen.source
    BY <1>0 DEF CleanKnown, Ahead, Unchanged
  <2>1. seen.head \in 1 .. Head1
    BY VerifyOrder DEF EvidenceInv, VerifySound, HeadKnown
  <2>2. Unmoved
    BY <1>0, <1>1, <2>1 DEF Unmoved, Ahead
  <2> QED BY <1>1, <2>1, <2>2 DEF EvidenceInv, VerifySound, CleanKnown
<1> QED BY <1>2, <1>3, <1>4, <1>5 DEF EvidenceInv, VerifySound

\* A command starts with everything to do.
LEMMA EvidenceStart ==
  ASSUME EvidenceInv, NEW command \in Commands, Start(command)
  PROVE  EvidenceInv'
<1>1. UNCHANGED <<tree, history, dist>> /\ todo' = command
  BY DEF Start, git
<1>2. CASE ~Ahead("pass")'
  BY <1>1, <1>2, EvidenceOutside
<1>3. CASE Ahead("pass")'
  <2>1. Left' = VerifySteps
    <3>1. PICK steps : /\ Listed(todo', steps)
                       /\ \/ steps \in {VerifySteps, Alone(PackageNames), Alone(PublishNames)}
                          \/ <<"pass", "">> \notin steps
      BY <1>1, CommandsListed
    <3>2. Left' = steps
      BY <3>1 DEF Listed, Left
    <3>3. <<"pass", "">> \notin Alone(PackageNames) /\ <<"pass", "">> \notin Alone(PublishNames)
      BY DEF Alone, PackageNames, PublishNames
    <3> QED BY <1>3, <3>1, <3>2, <3>3 DEF Ahead
  <2>2. \A name \in VerifyNames : Ahead(name)'
    BY <2>1 DEF Ahead, VerifySteps, Alone
  <2>3. VerifySound'
    BY <2>2 DEF VerifyNames, VerifySound, SourceKnown, HeadKnown, CleanKnown, FilesMade, NewerMissing,
                SourceRead
  <2>4. CratesFromPast' /\ Sound(dist.receipt)'
    BY <1>1 DEF EvidenceInv, CratesFromPast, Past, Sound, Head1
  <2> QED BY <2>3, <2>4 DEF EvidenceInv
<1> QED BY <1>2, <1>3

LEMMA EvidenceInitially == Init => EvidenceInv
<1> SUFFICES ASSUME Init PROVE EvidenceInv
  OBVIOUS
<1>1. Left = {} /\ \A name : ~Ahead(name)
  BY DEF Init, Left, Ahead, Range
<1>2. CratesFromPast /\ Sound(dist.receipt)
  BY DEF Init, CratesFromPast, Sound, Unpassed, Receipt
<1> QED BY <1>1, <1>2 DEF EvidenceInv, VerifySound, SourceKnown, HeadKnown, CleanKnown, FilesMade,
                          NewerMissing, SourceRead

LEMMA EvidenceSteps == Types /\ OnTrack /\ EvidenceInv /\ [Next]_vars => EvidenceInv'
<1> SUFFICES ASSUME Types, OnTrack, EvidenceInv, [Next]_vars PROVE EvidenceInv'
  OBVIOUS
<1>1. CASE Packaging \/ Publishing
  <2>1. dist'.receipt = dist.receipt /\ dist'.crate = dist.crate
    BY <1>1 DEF Types, DistSet, Packaging, Publishing, MustBeClean, Load, MatchHead, MatchSource,
       MatchVersion, Coverage, ReadDocs, WriteZip, Target, Tag, Unreleased, Push, RemoteMain,
       CiPassed, Create, View, Record, Check, Observe, Save
  <2> QED BY <1>1, <2>1, PublishOnly, Advances, EvidenceOutside DEF git
<1>2. CASE Fail
  <2>1. ~Ahead("pass")' /\ UNCHANGED <<tree, history, dist>>
    BY <1>2 DEF Fail, Ahead, Left, Range, git
  <2> QED BY <2>1, EvidenceOutside
<1>3. CASE UNCHANGED <<tree, history, todo, seen, dist>>
  <2>1. CratesFromPast' /\ Sound(dist.receipt)'
    BY <1>3 DEF EvidenceInv, CratesFromPast, Past, Sound, Head1
  <2>2. VerifySound'
    BY <1>3 DEF EvidenceInv, VerifySound, SourceKnown, HeadKnown, CleanKnown, FilesMade, NewerMissing,
                SourceRead, Unchanged, Unmoved, Ahead, Left, Past, Head1
  <2> QED BY <2>1, <2>2 DEF EvidenceInv
<1> QED
  BY <1>1, <1>2, <1>3, EvidenceVerifying, EvidenceEdit, EvidenceCommit, EvidenceStart
  DEF Next, DeveloperPush, CiEnds, vars, git

-----------------------------------------------------------------------------
(* Archives and releases. *)

\* The empty receipt and the receipt that was loaded, while verify changes the one on disk.
LEMMA SoundKept ==
  ASSUME UNCHANGED history, PackageSound
  PROVE  /\ Sound(seen.receipt) /\ (seen'.receipt = seen.receipt => Sound(seen.receipt)')
         /\ seen' = NothingSeen => Sound(seen.receipt)'
BY DEF PackageSound, Sound, Head1, NothingSeen, Unpassed, Receipt

\* Steps with nothing of package or publish left after them.
LEMMA ArchiveOutside ==
  ASSUME ArchiveInv, ~Ahead("zip")', ~Ahead("create")', UNCHANGED <<history, releases, ci>>,
         dist'.zip = dist.zip, seen'.receipt = seen.receipt \/ seen' = NothingSeen
  PROVE  ArchiveInv'
<1>1. PackageSound'
  BY SoundKept DEF ArchiveInv, PackageSound
<1>2. PublishSound'
  BY DEF PublishSound
<1>3. ZipSound(dist.zip)' /\ ReleasesSound'
  BY DEF ArchiveInv, ZipSound, ReleasesSound, Head1
<1> QED BY <1>1, <1>2, <1>3 DEF ArchiveInv

\* While an archive is to be written, or a release made, a step that is left has the later
\* ones left behind it.
LEMMA PublishOrder ==
  ASSUME OnTrack
  PROVE  /\ Ahead("zip") /\ Ahead("load") => Ahead("matchSource")
         /\ Ahead("create") /\ Ahead("load") => Ahead("matchSource")
         /\ Ahead("create") /\ Ahead("matchSource") => Ahead("zip")
         /\ Ahead("create") /\ Ahead("zip") => Ahead("target")
         /\ Ahead("create") /\ Ahead("target") => Ahead("tag")
         /\ Ahead("create") /\ Ahead("tag") => Ahead("unreleased")
         /\ Ahead("create") /\ Ahead("unreleased") => Ahead("ciPassed")
<1>1. /\ Ahead("zip") => \A x, y, a, b : <<x, a>> \in Left /\ <<y, b>> \in Alone(PackageNames)
                           /\ Place[x] < Place[y] => <<y, b>> \in Left
      /\ Ahead("create") => \A x, y, a, b : <<x, a>> \in Left /\ <<y, b>> \in Alone(PublishNames)
                              /\ Place[x] < Place[y] => <<y, b>> \in Left
  BY DEF OnTrack, LaterLeft
<1>2. /\ <<"matchSource", "">> \in Alone(PackageNames)
      /\ \A name \in {"matchSource", "zip", "target", "tag", "unreleased", "ciPassed"} :
           <<name, "">> \in Alone(PublishNames)
  BY DEF Alone, PackageNames, PublishNames
<1>3. /\ Place["load"] < Place["matchSource"] /\ Place["matchSource"] < Place["zip"]
      /\ Place["zip"] < Place["target"] /\ Place["target"] < Place["tag"]
      /\ Place["tag"] < Place["unreleased"] /\ Place["unreleased"] < Place["ciPassed"]
  BY DEF Place
<1> QED BY <1>1, <1>2, <1>3 DEF Ahead

\* A step of package or publish: nothing is known when the process has ended.
LEMMA PublishPerformed ==
  ASSUME OnTrack, NEW name, Step(name), Advance
  PROVE  /\ <<name, "">> \in Left /\ \A n : Ahead(n)' <=> Ahead(n) /\ n # name
         /\ \A t \in Left : Place[name] <= Place[t[1]]
         /\ \A record : Keep(record) =>
              seen' = record \/ (seen' = NothingSeen /\ \A n : ~Ahead(n)')
<1>1. /\ <<name, "">> \in Left /\ Left' = Left \ {<<name, "">>}
      /\ \A t \in Left : Place[name] <= Place[t[1]]
  BY Performed DEF Step
<1>2. todo # << >> /\ todo' = Tail(todo)
  BY DEF Step, Perform, Advance
<1>3. \A n : Ahead(n)' <=> Ahead(n) /\ n # name
  BY <1>1 DEF Ahead
<1> QED BY <1>1, <1>2, <1>3, Kept DEF Ahead

\* The steps that read a receipt or a tag, check one of them, or write an archive or a release.
Deciding == {"load", "matchSource", "zip", "target", "tag", "unreleased", "ciPassed", "create"}

\* Any other step.
LEMMA ArchiveQuiet ==
  ASSUME ArchiveInv, \A n \in Deciding : Ahead(n)' <=> Ahead(n),
         UNCHANGED <<history, releases, ci>>, dist'.zip = dist.zip,
         seen'.receipt = seen.receipt, seen'.target = seen.target, seen'.tag = seen.tag
  PROVE  ArchiveInv'
<1>1. PackageSound'
  BY SoundKept DEF ArchiveInv, PackageSound, Deciding
<1>2. PublishSound'
  BY DEF ArchiveInv, PublishSound, Deciding, Head1
<1>3. ZipSound(dist.zip)' /\ ReleasesSound'
  BY DEF ArchiveInv, ZipSound, ReleasesSound, Head1
<1> QED BY <1>1, <1>2, <1>3 DEF ArchiveInv

\* The archive written is what the receipt says of its commit.
LEMMA ArchiveWritten ==
  ASSUME Types, OnTrack, EvidenceInv, ArchiveInv, WriteZip
  PROVE  ArchiveInv'
<1>0. /\ seen \in SeenSet /\ dist \in DistSet /\ Head1 \in 1 .. MaxCommits
      /\ UNCHANGED <<tree, history, releases, ci>>
  BY DEF Types, WriteZip, Save, Advance, git, remote
<1>1. /\ Step("zip") /\ Advance /\ Keep(seen) /\ seen.receipt.commit = Head1
      /\ dist'.zip = [commit |-> seen.receipt.commit, tag |-> seen.receipt.version,
                      files |-> seen.receipt.files, docs |-> seen.docs]
  BY <1>0 DEF WriteZip, Save, DistSet
<1>2. /\ Ahead("zip") /\ \A n : Ahead(n)' <=> Ahead(n) /\ n # "zip"
      /\ \A t \in Left : Place["zip"] <= Place[t[1]]
      /\ seen' = seen \/ (seen' = NothingSeen /\ \A n : ~Ahead(n)')
  BY <1>1, PublishPerformed DEF Ahead
<1>3. ~Ahead("load") /\ ~Ahead("matchSource")
  <2>1. ~(Place["zip"] <= Place["load"]) /\ ~(Place["zip"] <= Place["matchSource"])
    BY DEF Place
  <2> QED BY <1>2, <2>1 DEF Ahead
<1>4. /\ MadeFrom(seen.receipt.files, history[seen.receipt.commit])
      /\ seen.receipt.version = history[seen.receipt.commit].version
      /\ seen.receipt.commit \in 1 .. Head1
  BY <1>2, <1>3 DEF ArchiveInv, PackageSound, Sound
<1>5. ZipSound(dist.zip)'
  BY <1>0, <1>1, <1>4 DEF ZipSound, Head1
<1>6. dist'.zip # NoZip
  BY <1>0, <1>1 DEF NoZip, None
<1>7. PackageSound'
  BY <1>0, <1>2, SoundKept DEF ArchiveInv, PackageSound
<1>8. PublishSound'
  BY <1>0, <1>2, <1>6 DEF ArchiveInv, PublishSound, Head1
<1>9. ReleasesSound'
  BY <1>0 DEF ArchiveInv, ReleasesSound, ZipSound, Head1
<1> QED BY <1>5, <1>7, <1>8, <1>9 DEF ArchiveInv

LEMMA ArchivePackaging ==
  ASSUME Types, OnTrack, EvidenceInv, ArchiveInv, Packaging
  PROVE  ArchiveInv'
<1>0. seen \in SeenSet /\ dist \in DistSet
  BY DEF Types
<1>p. \A name : Step(name) /\ Advance =>
        /\ Ahead(name) /\ \A n : Ahead(n)' <=> Ahead(n) /\ n # name
        /\ \A record : Keep(record) => seen' = record \/ (seen' = NothingSeen /\ \A n : ~Ahead(n)')
  BY PublishPerformed DEF Ahead
<1>1. ASSUME NEW name, NEW record, Step(name), Observe(record)
      PROVE  /\ Ahead(name) /\ \A n : Ahead(n)' <=> Ahead(n) /\ n # name
             /\ UNCHANGED <<tree, history, dist, releases, ci>>
             /\ seen' = record \/ (seen' = NothingSeen /\ \A n : ~Ahead(n)')
  BY <1>1, <1>p DEF Observe, Advance, git, remote
<1>2. CASE MustBeClean \/ MatchHead \/ MatchVersion \/ Coverage \/ ReadDocs
  <2>1. PICK name \in {"mustBeClean", "matchHead", "matchVersion", "coverage", "docs"},
             record \in {seen, [seen EXCEPT !.docs = tree.docs]} :
          Step(name) /\ Observe(record)
    BY <1>2 DEF MustBeClean, MatchHead, MatchVersion, Coverage, ReadDocs, Check
  <2>2. record.receipt = seen.receipt /\ record.target = seen.target /\ record.tag = seen.tag
    BY <1>0, <2>1 DEF SeenSet
  <2>3. name \notin Deciding
    BY <2>1 DEF Deciding
  <2>4. CASE seen' = record
    BY <1>1, <2>1, <2>2, <2>3, <2>4, ArchiveQuiet DEF Deciding
  <2>5. CASE seen' = NothingSeen /\ \A n : ~Ahead(n)'
    BY <1>1, <2>1, <2>5, ArchiveOutside
  <2> QED BY <1>1, <2>1, <2>4, <2>5
<1>3. CASE Load
  <2> DEFINE record == [seen EXCEPT !.receipt = dist.receipt]
  <2>1. Step("load") /\ Observe(record) /\ dist.receipt.status = "passed"
    BY <1>3 DEF Load
  <2>2. record.receipt = dist.receipt /\ record.target = seen.target /\ record.tag = seen.tag
    BY <1>0 DEF SeenSet
  <2> HIDE DEF record
  <2>3. CASE seen' = record
    <3>1. /\ Ahead("load") /\ \A n : Ahead(n)' <=> Ahead(n) /\ n # "load"
          /\ UNCHANGED <<tree, history, dist, releases, ci>>
      BY <1>1, <2>1
    <3>2. Ahead("zip") => Ahead("matchSource")
      BY <3>1, PublishOrder
    <3>3. Sound(seen.receipt)'
      BY <2>2, <2>3, <3>1 DEF EvidenceInv, Sound, Head1
    <3>4. PackageSound'
      BY <2>1, <2>2, <2>3, <3>1, <3>2, <3>3 DEF PackageSound
    <3>5. PublishSound'
      BY <2>2, <2>3, <3>1 DEF ArchiveInv, PublishSound, Head1
    <3>6. ZipSound(dist.zip)' /\ ReleasesSound'
      BY <3>1 DEF ArchiveInv, ZipSound, ReleasesSound, Head1
    <3> QED BY <3>4, <3>5, <3>6 DEF ArchiveInv
  <2>4. CASE seen' = NothingSeen /\ \A n : ~Ahead(n)'
    BY <1>1, <2>1, <2>4, ArchiveOutside
  <2> QED BY <1>1, <2>1, <2>3, <2>4
<1>4. CASE MatchSource
  <2>1. Step("matchSource") /\ Observe(seen) /\ seen.receipt.clean
    BY <1>4 DEF MatchSource, Check
  <2>2. CASE seen' = seen
    <3>1. /\ \A n : Ahead(n)' <=> Ahead(n) /\ n # "matchSource"
          /\ UNCHANGED <<tree, history, dist, releases, ci>>
      BY <1>1, <2>1
    <3>2. PackageSound'
      BY <2>1, <2>2, <3>1, SoundKept DEF ArchiveInv, PackageSound
    <3>3. PublishSound'
      BY <2>2, <3>1 DEF ArchiveInv, PublishSound, Head1
    <3>4. ZipSound(dist.zip)' /\ ReleasesSound'
      BY <3>1 DEF ArchiveInv, ZipSound, ReleasesSound, Head1
    <3> QED BY <3>2, <3>3, <3>4 DEF ArchiveInv
  <2>3. CASE seen' = NothingSeen /\ \A n : ~Ahead(n)'
    BY <1>1, <2>1, <2>3, ArchiveOutside
  <2> QED BY <1>1, <2>1, <2>2, <2>3
<1> QED BY <1>2, <1>3, <1>4, ArchiveWritten DEF Packaging

\* A commit that has passed CI stays passed, and starting CI is for commits that had none.
LEMMA PublishedPush ==
  ASSUME Types, OnTrack, ArchiveInv, UNCHANGED <<history, releases>>, dist'.zip = dist.zip,
         \A n \in Deciding : Ahead(n)' <=> Ahead(n), seen' = seen,
         \A c \in 1 .. MaxCommits : ci[c] = "success" => ci'[c] = "success"
  PROVE  ArchiveInv'
<1>1. \A c \in 1 .. Head1 : c \in 1 .. MaxCommits
  BY ReleaseAssumption DEF Types
<1>2. PackageSound'
  BY SoundKept DEF ArchiveInv, PackageSound, Deciding
<1>3. PublishSound'
  BY <1>1, PublishOrder DEF ArchiveInv, PublishSound, Deciding, Head1
<1>4. ZipSound(dist.zip)' /\ ReleasesSound'
  BY <1>1 DEF ArchiveInv, ZipSound, ReleasesSound, Head1
<1> QED BY <1>2, <1>3, <1>4 DEF ArchiveInv

\* A release is made of what publish established.
LEMMA ReleaseCreated ==
  ASSUME Types, OnTrack, ArchiveInv, Create
  PROVE  ArchiveInv'
<1>1. /\ Step("create") /\ Advance /\ Keep(seen) /\ UNCHANGED <<history, dist, ci>>
      /\ releases' = releases \cup {[tag |-> seen.tag, target |-> seen.target, zip |-> dist.zip]}
  BY DEF Create, Advance, git
<1>2. /\ Ahead("create") /\ \A n : Ahead(n)' <=> Ahead(n) /\ n # "create"
      /\ \A t \in Left : Place["create"] <= Place[t[1]]
      /\ seen' = seen \/ (seen' = NothingSeen /\ \A n : ~Ahead(n)')
  BY <1>1, PublishPerformed DEF Ahead
<1>3. \A name \in {"zip", "target", "unreleased", "ciPassed"} : ~Ahead(name)
  <2>1. \A name \in {"zip", "target", "unreleased", "ciPassed"} : ~(Place["create"] <= Place[name])
    BY DEF Place
  <2> QED BY <1>2, <2>1 DEF Ahead
<1>4. /\ dist.zip # NoZip /\ seen.target \in 1 .. Head1 /\ ci[seen.target] = "success"
      /\ \A r \in releases : r.tag # seen.tag
  BY <1>2, <1>3 DEF ArchiveInv, PublishSound
<1>5. PackageSound'
  BY <1>1, <1>2, SoundKept DEF ArchiveInv, PackageSound
<1>6. PublishSound'
  BY <1>2 DEF PublishSound
<1>7. ZipSound(dist.zip)'
  BY <1>1 DEF ArchiveInv, ZipSound, Head1
<1>8. ReleasesSound'
  <2> DEFINE new == [tag |-> seen.tag, target |-> seen.target, zip |-> dist.zip]
  <2>1. \A r \in releases' : r \in releases \/ r = new
    BY <1>1
  <2>2. new.tag = seen.tag /\ new.target = seen.target /\ new.zip = dist.zip
    OBVIOUS
  <2> HIDE DEF new
  <2>3. \A r \in releases' : ZipSound(r.zip)' /\ r.zip # NoZip
    BY <1>1, <1>4, <2>1, <2>2 DEF ArchiveInv, ReleasesSound, ZipSound, Head1
  <2>4. \A r \in releases' : r.target \in 1 .. Head1' /\ ci'[r.target] = "success"
    BY <1>1, <1>4, <2>1, <2>2 DEF ArchiveInv, ReleasesSound, Head1
  <2>5. \A r, s \in releases' : r.tag = s.tag => r = s
    BY <1>4, <2>1, <2>2 DEF ArchiveInv, ReleasesSound
  <2> QED BY <2>3, <2>4, <2>5 DEF ReleasesSound
<1> QED BY <1>5, <1>6, <1>7, <1>8 DEF ArchiveInv

LEMMA ArchivePublishing ==
  ASSUME Types, OnTrack, ArchiveInv, Publishing
  PROVE  ArchiveInv'
<1>0. seen \in SeenSet /\ dist \in DistSet
  BY DEF Types
<1>p. \A name : Step(name) /\ Advance =>
        /\ Ahead(name) /\ \A n : Ahead(n)' <=> Ahead(n) /\ n # name
        /\ \A record : Keep(record) => seen' = record \/ (seen' = NothingSeen /\ \A n : ~Ahead(n)')
  BY PublishPerformed DEF Ahead
<1>1. ASSUME NEW name, NEW record, Step(name), Observe(record)
      PROVE  /\ Ahead(name) /\ \A n : Ahead(n)' <=> Ahead(n) /\ n # name
             /\ UNCHANGED <<tree, history, dist, releases, ci>>
             /\ seen' = record \/ (seen' = NothingSeen /\ \A n : ~Ahead(n)')
  BY <1>1, <1>p DEF Observe, Advance, git, remote
<1>2. CASE RemoteMain \/ View
  <2>1. PICK name \in {"remoteMain", "view"} : Step(name) /\ Observe(seen)
    BY <1>2 DEF RemoteMain, View, Check
  <2>2. CASE seen' = seen
    BY <1>1, <2>1, <2>2, ArchiveQuiet DEF Deciding
  <2>3. CASE seen' = NothingSeen /\ \A n : ~Ahead(n)'
    BY <1>1, <2>1, <2>3, ArchiveOutside
  <2> QED BY <1>1, <2>1, <2>2, <2>3
<1>3. CASE Record
  <2>1. /\ Step("record") /\ Advance /\ Keep(seen) /\ UNCHANGED <<history, releases, ci>>
        /\ dist'.zip = dist.zip
    BY <1>0, <1>3 DEF Record, Save, Advance, git, remote, DistSet
  <2>2. CASE seen' = seen
    BY <1>p, <2>1, <2>2, ArchiveQuiet DEF Deciding
  <2>3. CASE seen' = NothingSeen /\ \A n : ~Ahead(n)'
    BY <2>1, <2>3, ArchiveOutside
  <2> QED BY <1>p, <2>1, <2>2, <2>3
<1>4. CASE Target \/ Tag \/ Unreleased \/ CiPassed
  <2>1. PICK name \in {"target", "tag", "unreleased", "ciPassed"},
             record \in {seen, [seen EXCEPT !.target = Head1], [seen EXCEPT !.tag = tree.version]} :
          /\ Step(name) /\ Observe(record)
          /\ name = "target" => record = [seen EXCEPT !.target = Head1]
          /\ name = "tag" => record = [seen EXCEPT !.tag = tree.version]
          /\ name = "unreleased" => record = seen /\ \A r \in releases : r.tag # seen.tag
          /\ name = "ciPassed" => record = seen /\ ci[seen.target] = "success"
    BY <1>4 DEF Target, Tag, Unreleased, CiPassed, Check
  <2>2. /\ Ahead(name) /\ \A n : Ahead(n)' <=> Ahead(n) /\ n # name
        /\ UNCHANGED <<tree, history, dist, releases, ci>>
    BY <1>1, <2>1
  <2>3. CASE seen' = record
    <3>1. /\ seen'.receipt = seen.receipt
          /\ seen'.target = IF name = "target" THEN Head1 ELSE seen.target
          /\ seen'.tag = IF name = "tag" THEN tree.version ELSE seen.tag
      BY <1>0, <2>1, <2>3 DEF SeenSet
    <3>2. /\ Ahead("create") /\ Ahead("target") => Ahead("ciPassed")
          /\ Ahead("create") /\ Ahead("tag") => Ahead("unreleased")
      BY PublishOrder
    <3>3. PackageSound'
      BY <2>1, <2>2, <3>1, SoundKept DEF ArchiveInv, PackageSound
    <3>4. Head1 \in 1 .. Head1
      BY ReleaseAssumption DEF Types
    <3>5. PublishSound'
      BY <2>1, <2>2, <3>1, <3>2, <3>4 DEF ArchiveInv, PublishSound, Head1
    <3>6. ZipSound(dist.zip)' /\ ReleasesSound'
      BY <2>2 DEF ArchiveInv, ZipSound, ReleasesSound, Head1
    <3> QED BY <3>3, <3>5, <3>6 DEF ArchiveInv
  <2>4. CASE seen' = NothingSeen /\ \A n : ~Ahead(n)'
    BY <2>2, <2>4, ArchiveOutside
  <2> QED BY <1>1, <2>1, <2>3, <2>4
<1>5. CASE Push
  <2>1. /\ Step("push") /\ Advance /\ Keep(seen) /\ UNCHANGED <<history, releases, dist>>
        /\ \A c \in 1 .. MaxCommits : ci[c] = "success" => ci'[c] = "success"
    BY <1>5, TypesPush DEF Push, Advance, git
  <2>2. /\ \A n : Ahead(n)' <=> Ahead(n) /\ n # "push"
        /\ seen' = seen \/ (seen' = NothingSeen /\ \A n : ~Ahead(n)')
    BY <1>p, <2>1
  <2>3. CASE seen' = seen
    BY <2>1, <2>2, <2>3, PublishedPush DEF Deciding
  <2>4. CASE seen' = NothingSeen /\ \A n : ~Ahead(n)'
    <3>1. \A c \in 1 .. Head1 : c \in 1 .. MaxCommits
      BY ReleaseAssumption DEF Types
    <3>2. PackageSound' /\ PublishSound'
      BY <2>1, <2>4, SoundKept DEF ArchiveInv, PackageSound, PublishSound
    <3>3. ZipSound(dist.zip)' /\ ReleasesSound'
      BY <2>1, <3>1 DEF ArchiveInv, ZipSound, ReleasesSound, Head1
    <3> QED BY <3>2, <3>3 DEF ArchiveInv
  <2> QED BY <2>2, <2>3, <2>4
<1> QED BY <1>2, <1>3, <1>4, <1>5, ReleaseCreated DEF Publishing

LEMMA ArchiveCommit ==
  ASSUME Types, ArchiveInv, Commit
  PROVE  ArchiveInv'
<1>0. /\ \A c \in 1 .. Head1 : c \in 1 .. Head1' /\ history'[c] = history[c]
      /\ UNCHANGED <<todo, seen, dist, releases, ci>> /\ Left' = Left
  <2>1. Head1 \in 1 .. MaxCommits /\ Head1' = Head1 + 1 /\ \A c \in 1 .. Head1 : history'[c] = history[c]
    BY Committed DEF Types
  <2>2. \A c \in 1 .. Head1 : c \in 1 .. Head1'
    BY <2>1
  <2> QED BY <2>1, <2>2 DEF Commit, Left, remote
<1>1. PackageSound'
  BY <1>0 DEF ArchiveInv, PackageSound, Sound, Ahead
<1>2. PublishSound'
  BY <1>0 DEF ArchiveInv, PublishSound, Ahead
<1>3. ZipSound(dist.zip)'
  BY <1>0 DEF ArchiveInv, ZipSound
<1>4. ReleasesSound'
  BY <1>0 DEF ArchiveInv, ReleasesSound, ZipSound
<1> QED BY <1>1, <1>2, <1>3, <1>4 DEF ArchiveInv

LEMMA ArchiveStart ==
  ASSUME ArchiveInv, NEW command \in Commands, Start(command)
  PROVE  ArchiveInv'
<1>1. UNCHANGED <<tree, history, seen, dist, releases, ci>> /\ todo' = command
  BY DEF Start, git, remote
<1>2. CASE ~Ahead("zip")' /\ ~Ahead("create")'
  BY <1>1, <1>2, ArchiveOutside
<1>3. CASE Ahead("zip")' \/ Ahead("create")'
  <2>1. PICK steps : /\ Listed(todo', steps)
                     /\ \/ steps \in {VerifySteps, Alone(PackageNames), Alone(PublishNames)}
                        \/ <<"zip", "">> \notin steps /\ <<"create", "">> \notin steps
    BY <1>1, CommandsListed
  <2>2. Left' = steps
    BY <2>1 DEF Listed, Left
  <2>3. <<"zip", "">> \in Alone(PublishNames) /\ <<"create", "">> \in Alone(PublishNames)
    BY DEF Alone, PackageNames, PublishNames
  <2>4. steps \in {Alone(PackageNames), Alone(PublishNames)}
    BY <1>3, <2>1, <2>2, <2>3, Apart DEF Ahead
  <2>5. /\ \A name \in PackageNames : Ahead(name)'
        /\ Ahead("create")' => \A name \in PublishNames : Ahead(name)'
    <3>1. <<"create", "">> \notin Alone(PackageNames)
      BY DEF Alone, PackageNames
    <3> QED BY <2>2, <2>4, <3>1 DEF Ahead, Alone, PublishNames
  <2>6. /\ \A name \in {"load", "matchSource", "zip"} : Ahead(name)'
        /\ Ahead("create")' =>
             \A name \in {"target", "unreleased", "ciPassed"} : Ahead(name)'
    BY <2>5 DEF PackageNames, PublishNames
  <2>7. PackageSound' /\ PublishSound'
    BY <1>1, <2>6, SoundKept DEF ArchiveInv, PackageSound, PublishSound
  <2>8. ZipSound(dist.zip)' /\ ReleasesSound'
    BY <1>1 DEF ArchiveInv, ZipSound, ReleasesSound, Head1
  <2> QED BY <2>7, <2>8 DEF ArchiveInv
<1> QED BY <1>2, <1>3

LEMMA ArchiveInitially == Init => ArchiveInv
<1> SUFFICES ASSUME Init PROVE ArchiveInv
  OBVIOUS
<1>1. \A name : ~Ahead(name)
  BY DEF Init, Left, Ahead, Range
<1>2. seen.receipt.status # "passed"
  BY DEF Init, NothingSeen, Unpassed, Receipt
<1>3. dist.zip = NoZip /\ releases = {}
  BY DEF Init
<1> QED BY <1>1, <1>2, <1>3 DEF ArchiveInv, PackageSound, Sound, PublishSound, ZipSound, ReleasesSound

LEMMA ArchiveSteps == Types /\ OnTrack /\ EvidenceInv /\ ArchiveInv /\ [Next]_vars => ArchiveInv'
<1> SUFFICES ASSUME Types, OnTrack, EvidenceInv, ArchiveInv, [Next]_vars PROVE ArchiveInv'
  OBVIOUS
<1>1. CASE Verifying
  <2>1. dist'.zip = dist.zip /\ UNCHANGED <<releases, ci>>
    BY <1>1 DEF Types, DistSet, Verifying, Running, ReadSource, ReadHead, ReadClean, Gates, Invalidate,
       Image, Report, Test, Crate, SameSource, SameHead, Pass, Check, Observe, Save, remote
  <2>2. seen'.receipt = seen.receipt \/ seen' = NothingSeen
    BY <1>1 DEF Types, SeenSet, Verifying, Running, ReadSource, ReadHead, ReadClean, Gates, Invalidate,
       Image, Report, Test, Crate, SameSource, SameHead, Pass, Check, Observe, Save, Keep
  <2> QED BY <1>1, <2>1, <2>2, VerifyOnly, Advances, ArchiveOutside DEF git
<1>2. CASE Fail
  <2>1. ~Ahead("zip")' /\ ~Ahead("create")'
    BY <1>2 DEF Fail, Ahead, Left, Range
  <2> QED BY <1>2, <2>1, ArchiveOutside DEF Fail, git, remote
<1>3. CASE UNCHANGED <<history, todo, seen, dist, releases, ci>>
  <2>1. \A n : Ahead(n)' <=> Ahead(n)
    BY <1>3 DEF Ahead, Left
  <2> QED BY <1>3, <2>1, ArchiveQuiet
<1>4. CASE DeveloperPush
  <2>1. UNCHANGED <<history, todo, seen, dist, releases>> /\ Left' = Left
        /\ \A c \in 1 .. MaxCommits : ci[c] = "success" => ci'[c] = "success"
    BY <1>4, TypesPush DEF DeveloperPush, git, Left
  <2> QED BY <2>1, PublishedPush DEF Ahead
<1>5. ASSUME NEW c \in 1 .. MaxCommits, CiEnds(c) PROVE ArchiveInv'
  <2>1. UNCHANGED <<history, todo, seen, dist, releases>> /\ Left' = Left
        /\ \A d \in 1 .. MaxCommits : ci[d] = "success" => ci'[d] = "success"
    BY <1>5 DEF CiEnds, Types, git, Left
  <2> QED BY <2>1, PublishedPush DEF Ahead
<1>6. ASSUME NEW part \in {"code", "docs", "version"}, Edit(part) PROVE ArchiveInv'
  BY <1>3, <1>6 DEF Edit, remote
<1> QED
  BY <1>1, <1>2, <1>3, <1>4, <1>5, <1>6, ArchivePackaging, ArchivePublishing, ArchiveCommit, ArchiveStart
  DEF Next, vars, git, remote

-----------------------------------------------------------------------------
(* The theorems. *)

ReleaseInv == Types /\ OnTrack /\ EvidenceInv /\ ArchiveInv

LEMMA ReleaseInvariance == Spec => []ReleaseInv
<1>1. Init => ReleaseInv
  BY TypesInitially, TrackInitially, EvidenceInitially, ArchiveInitially DEF ReleaseInv
<1>2. ReleaseInv /\ [Next]_vars => ReleaseInv'
  BY TypesSteps, TrackSteps, EvidenceSteps, ArchiveSteps DEF ReleaseInv
<1> QED BY <1>1, <1>2, PTL DEF Spec

LEMMA ReleaseTyped == Types => TypeOK
BY DEF Types, TypeOK, SeenSet, DistSet

\* A passed receipt speaks of one tree (release.rs verify), for any examples and any number of
\* edits and commits made between any two steps of any commands, each of them stopped anywhere.
THEOREM ReceiptsSound == Spec => []EvidenceSound
<1>1. ReleaseInv => EvidenceSound
  BY DEF ReleaseInv, EvidenceInv, Sound, EvidenceSound
<1> QED BY <1>1, ReleaseInvariance, PTL

\* The firmware and the crate of an archive are the ones tested for the commit its manifest
\* names, and its version is that commit's (release.rs package), however the checkout moved.
THEOREM FirmwareTraced == Spec => []FirmwareFromCommit
<1>1. ReleaseInv => FirmwareFromCommit
  BY DEF ReleaseInv, ArchiveInv, ReleasesSound, ZipSound, FirmwareFromCommit
<1> QED BY <1>1, ReleaseInvariance, PTL

\* Releases are of commits that passed CI, carry an archive, and are made once for a tag
\* (release.rs publish), whatever publications are stopped and repeated.
THEOREM ReleasesGated == Spec => ReleaseGated
<1>1. ReleaseInv => TypeOK /\ \A r \in releases : ci[r.target] = "success" /\ r.zip # NoZip
  BY ReleaseTyped DEF ReleaseInv, ArchiveInv, ReleasesSound
<1>2. ReleaseInv /\ ReleaseInv' /\ [Next]_vars =>
        [/\ releases \subseteq releases'
         /\ \A r, s \in releases' : r.tag = s.tag => r = s]_vars
  <2> SUFFICES ASSUME ReleaseInv, ReleaseInv', Next PROVE releases \subseteq releases'
    BY DEF ReleaseInv, ArchiveInv, ReleasesSound
  <2>1. CASE Verifying \/ Packaging
    BY <2>1 DEF Verifying, Running, ReadSource, ReadHead, ReadClean, Gates, Invalidate, Image, Report,
       Test, Crate, SameSource, SameHead, Pass, Packaging, MustBeClean, Load, MatchHead, MatchSource,
       MatchVersion, Coverage, ReadDocs, WriteZip, Check, Observe, Save, remote
  <2>2. CASE Publishing
    BY <2>2 DEF Publishing, Target, Tag, Unreleased, Push, PushMain, RemoteMain, CiPassed, Create,
       View, Record, Check, Observe, Save, remote
  <2> QED BY <2>1, <2>2 DEF Next, Start, Fail, Edit, Commit, DeveloperPush, PushMain, CiEnds, remote
<1> QED BY <1>1, <1>2, ReleaseInvariance, PTL DEF ReleaseGated, Spec
=============================================================================
