--------------------------- MODULE AutomationProofs ---------------------------
(***************************************************************************)
(* Proofs about what an agency automates, for any number of steps,         *)
(* requests, versions and threads: the validation of a durable workflow's  *)
(* graph and the runs it admits (WorkflowGraph), its versions and the runs *)
(* that pin them (WorkflowVersions), the execution of one run              *)
(* (DurableRun), and the dispatch of the workflows that events and         *)
(* schedules start (WorkflowDispatch).                                     *)
(***************************************************************************)
EXTENDS WorkflowGraph, WorkflowVersions, DurableRun, WorkflowDispatch,
        FiniteSetTheorems, WellFoundedInduction, TLAPS

VersionsSpec == VersionsInit /\ [][VersionsNext]_versionVars
GraphSpec    == GraphInit /\ [][GraphNext]_graphVars
DispatchSpec == DispatchInit /\ [][DispatchNext]_dispatchVars
-----------------------------------------------------------------------------
(***************************************************************************)
(* Versions.  What a request has read stays so: the version it is about    *)
(* to change is there, and one found published stays published.            *)
(***************************************************************************)
Drafts    == [op : {"draft"}, latest : Nat, steps : Contents]
Updates   == [op : {"update"}, v : Indices, steps : Contents]
Publishes == [op : {"publish"}, v : Indices]
Starts    == [op : {"start"}, v : Indices, o : Occurrences]

RequestsTyped ==
    /\ request = [r \in Editors \cup Starters |-> request[r]]
    /\ \A r \in Editors : request[r] \in {Idle} \cup Drafts \cup Updates \cup Publishes
    /\ \A r \in Starters : request[r] \in {Idle} \cup Starts

RequestHolds(r) ==
    /\ request[r] \in Drafts => request[r].latest <= Len(versions)
    /\ request[r] \in Updates \cup Publishes \cup Starts => request[r].v \in Versions
    /\ request[r] \in Starts =>
           /\ versions[request[r].v].status = "published"
           /\ request[r].v \in pinned[request[r].o]

VInv ==
    /\ versions \in Seq(Version) /\ Len(versions) <= MaxVersions
    /\ current \in 0..Len(versions)
    /\ enabled \in BOOLEAN
    /\ RequestsTyped
    /\ runs \subseteq Occurrences \X Indices
    /\ pinned \in [Occurrences -> SUBSET Indices]
    /\ \A r \in Editors \cup Starters : RequestHolds(r)
    /\ \A x \in runs : x[2] \in Versions
    /\ VersionNumbers
    /\ OnlyPublishedRun
    /\ RunsArePinned

LEMMA RequestKinds ==
    ASSUME NEW x \in {Idle} \cup Drafts \cup Updates \cup Publishes \cup Starts
    PROVE  /\ x.op = "draft" <=> x \in Drafts
           /\ x.op = "update" <=> x \in Updates
           /\ x.op = "publish" <=> x \in Publishes
           /\ x.op = "start" <=> x \in Starts
           /\ x = Idle <=> x.op = "idle"
BY DEF Idle, Drafts, Updates, Publishes, Starts

LEMMA RowFields == \A x \in Version : x.number \in Nat /\ x.status \in {"draft", "published"} /\ x.steps \in Contents
BY DEF Version

\* An update writes one row.
LEMMA RowWritten ==
    ASSUME NEW s \in Seq(Version), NEW i \in 1 .. Len(s), NEW w \in Version, NEW z, z = [s EXCEPT ![i] = w]
    PROVE  /\ z \in Seq(Version) /\ Len(z) = Len(s) /\ z[i] = w
           /\ \A j \in 1 .. Len(s) : j # i => z[j] = s[j]
OBVIOUS

LEMMA RowAppended ==
    ASSUME NEW s \in Seq(Version), NEW w \in Version, NEW z, z = Append(s, w)
    PROVE  /\ z \in Seq(Version) /\ Len(z) = Len(s) + 1 /\ z[Len(s) + 1] = w
           /\ \A j \in 1 .. Len(s) : z[j] = s[j]
OBVIOUS

\* Rows are never taken away, and what was published or pinned stays so.
Grows ==
    /\ versions' \in Seq(Version) /\ Len(versions) <= Len(versions') /\ Len(versions') <= MaxVersions
    /\ \A i \in Versions : versions[i].status = "published" => versions'[i].status = "published"
    /\ pinned' \in [Occurrences -> SUBSET Indices]
    /\ \A o \in Occurrences : pinned[o] \subseteq pinned'[o]

\* A step of one request, which reads q or is done, keeps what the others read.
LEMMA RequestsKept ==
    ASSUME VInv, Grows, NEW r \in Editors \cup Starters, NEW q, request' = [request EXCEPT ![r] = q],
           r \in Editors => q \in {Idle} \cup Drafts \cup Updates \cup Publishes,
           r \in Starters => q \in {Idle} \cup Starts,
           q # Idle => RequestHolds(r)'
    PROVE  RequestsTyped' /\ \A u \in Editors \cup Starters : RequestHolds(u)'
<1>1. request'[r] = q /\ \A u \in (Editors \cup Starters) \ {r} : request'[u] = request[u]
  BY DEF VInv, RequestsTyped
<1>2. RequestsTyped'
  BY <1>1 DEF VInv, RequestsTyped
<1>3. Idle \notin Drafts \cup Updates \cup Publishes \cup Starts
  BY DEF Idle, Drafts, Updates, Publishes, Starts
<1>4. RequestHolds(r)'
  BY <1>1, <1>3 DEF RequestHolds
<1>5. ASSUME NEW u \in (Editors \cup Starters) \ {r} PROVE RequestHolds(u)'
  <2>1. /\ request[u] \in Drafts => request[u].latest \in Nat
        /\ request[u] \in Starts => request[u].o \in Occurrences
    BY DEF Drafts, Starts
  <2>2. RequestHolds(u) /\ Len(versions) \in Nat /\ Len(versions') \in Nat
    BY DEF VInv, Grows
  <2>3. Versions \subseteq Versions'
    BY <2>2 DEF Versions, Grows
  <2>. QED  BY <1>1, <2>1, <2>2, <2>3 DEF RequestHolds, Grows
<1>. QED  BY <1>2, <1>4, <1>5

\* What is not a request's: the rows, the current one, the runs.
RowsHold ==
    /\ versions \in Seq(Version) /\ Len(versions) <= MaxVersions
    /\ current \in 0..Len(versions)
    /\ enabled \in BOOLEAN
    /\ runs \subseteq Occurrences \X Indices
    /\ pinned \in [Occurrences -> SUBSET Indices]
    /\ \A x \in runs : x[2] \in Versions
    /\ VersionNumbers
    /\ OnlyPublishedRun
    /\ RunsArePinned

\* A step of request r that leaves the rows sound.
LEMMA StepOfRequest ==
    ASSUME VInv, Grows, RowsHold', NEW r \in Editors \cup Starters, NEW q, request' = [request EXCEPT ![r] = q],
           r \in Editors => q \in {Idle} \cup Drafts \cup Updates \cup Publishes,
           r \in Starters => q \in {Idle} \cup Starts,
           q # Idle => RequestHolds(r)'
    PROVE  VInv'
<1>1. RequestsTyped' /\ \A u \in Editors \cup Starters : RequestHolds(u)'
  BY RequestsKept
<1>. QED  BY <1>1 DEF VInv, RowsHold

LEMMA NothingWritten ==
    ASSUME VInv, UNCHANGED <<versions, current, enabled, runs>>,
           pinned' \in [Occurrences -> SUBSET Indices],
           \A o \in Occurrences : pinned[o] \subseteq pinned'[o]
    PROVE  Grows /\ RowsHold'
<1>1. \A x \in runs : x[1] \in Occurrences
  BY DEF VInv
<1>2. Versions' = Versions /\ VersionNumbers' /\ OnlyPublishedRun'
  BY DEF VInv, Versions, VersionNumbers, OnlyPublishedRun
<1>3. RunsArePinned'
  BY <1>1 DEF VInv, RunsArePinned
<1>. QED  BY <1>2, <1>3 DEF VInv, RowsHold, Grows

LEMMA BeginSteps ==
    ASSUME VInv, NEW r \in Editors, NEW i \in Indices, NEW c \in Contents,
           BeginDraft(r, c) \/ BeginUpdate(r, i, c) \/ BeginPublish(r, i)
    PROVE  VInv'
<1>1. Grows /\ RowsHold' /\ UNCHANGED <<versions, pinned>>
  BY NothingWritten DEF BeginDraft, BeginUpdate, BeginPublish, VInv
<1>2. ASSUME NEW q \in Drafts \cup Updates \cup Publishes, request' = [request EXCEPT ![r] = q],
             q \in Drafts => q.latest <= Len(versions),
             q \in Updates \cup Publishes => q.v \in Versions
      PROVE  VInv'
  <2>1. q \notin Starts
    BY DEF Drafts, Updates, Publishes, Starts
  <2>2. request'[r] = q /\ r \notin Starters
    BY <1>2, VersionsAssumption DEF VInv, RequestsTyped
  <2>3. RequestHolds(r)'
    BY <1>1, <1>2, <2>1, <2>2 DEF RequestHolds, Versions
  <2>4. r \in Editors => q \in {Idle} \cup Drafts \cup Updates \cup Publishes
    BY <1>2
  <2>5. r \in Starters => q \in {Idle} \cup Starts
    BY <2>2
  <2>. QED  BY <1>1, <1>2, <2>3, <2>4, <2>5, StepOfRequest
<1>3. CASE BeginDraft(r, c)
  <2>1. PICK n \in Nat : n = versions[Len(versions)].number /\ n <= Len(versions)
    BY <1>3 DEF BeginDraft, VInv, VersionNumbers, Versions
  <2>2. PICK q : q = [op |-> "draft", latest |-> n, steps |-> c]
    OBVIOUS
  <2>3. q \in Drafts /\ q \notin Updates \cup Publishes /\ q.latest = n
    BY <2>2 DEF Drafts, Updates, Publishes
  <2>. QED  BY <1>2, <1>3, <2>1, <2>2, <2>3 DEF BeginDraft, Begin
<1>4. CASE BeginUpdate(r, i, c)
  <2>1. PICK q : q = [op |-> "update", v |-> i, steps |-> c]
    OBVIOUS
  <2>2. q \in Updates /\ q \notin Drafts /\ q.v = i
    BY <2>1 DEF Drafts, Updates
  <2>. QED  BY <1>2, <1>4, <2>1, <2>2 DEF BeginUpdate, Begin
<1>5. CASE BeginPublish(r, i)
  <2>1. PICK q : q = [op |-> "publish", v |-> i]
    OBVIOUS
  <2>2. q \in Publishes /\ q \notin Drafts /\ q.v = i
    BY <2>1 DEF Drafts, Publishes
  <2>. QED  BY <1>2, <1>5, <2>1, <2>2 DEF BeginPublish, Begin
<1>. QED  BY <1>3, <1>4, <1>5

LEMMA ReadCurrentStep ==
    ASSUME VInv, NEW r \in Starters, NEW o \in Occurrences, ReadCurrent(r, o) PROVE VInv'
<1>1. current \in Versions /\ current \in Indices /\ versions[current].status = "published"
  BY VersionsAssumption DEF ReadCurrent, VInv, Versions, Indices
<1>2. pinned' = [pinned EXCEPT ![o] = pinned[o] \cup {current}]
  BY DEF ReadCurrent
<1>3. /\ pinned' \in [Occurrences -> SUBSET Indices] /\ current \in pinned'[o]
      /\ \A k \in Occurrences : pinned[k] \subseteq pinned'[k]
  BY <1>1, <1>2 DEF VInv
<1>4. Grows /\ RowsHold'
  BY <1>3, NothingWritten DEF ReadCurrent
<1>5. PICK q : q = [op |-> "start", v |-> current, o |-> o]
  OBVIOUS
<1>6. q \in Starts /\ q \notin Drafts /\ q.v = current /\ q.o = o
  BY <1>1, <1>5 DEF Starts, Drafts
<1>7. request' = [request EXCEPT ![r] = q] /\ r \notin Editors /\ UNCHANGED versions
  BY <1>5, VersionsAssumption DEF ReadCurrent, Begin
<1>8. request'[r] = q
  BY <1>7 DEF VInv, RequestsTyped
<1>9. RequestHolds(r)'
  BY <1>1, <1>3, <1>6, <1>7, <1>8 DEF RequestHolds, Versions
<1>10. /\ r \in Editors => q \in {Idle} \cup Drafts \cup Updates \cup Publishes
       /\ r \in Starters => q \in {Idle} \cup Starts
  BY <1>6, <1>7
<1>. QED  BY <1>4, <1>7, <1>9, <1>10, StepOfRequest

\* The run reserved is of the version found published.
LEMMA ReserveRunStep == ASSUME VInv, NEW r \in Starters, ReserveRun(r) PROVE VInv'
<1>1. request[r] \in Starts /\ RequestHolds(r)
  BY RequestKinds DEF ReserveRun, Reads, VInv, RequestsTyped
<1>2. PICK o \in Occurrences, i \in Indices :
         /\ o = request[r].o /\ i = request[r].v /\ i \in Versions
         /\ versions[i].status = "published" /\ i \in pinned[o]
  BY <1>1 DEF RequestHolds, Starts
<1>3. /\ runs' = runs \cup {<<o, i>>} /\ request' = [request EXCEPT ![r] = Idle]
      /\ UNCHANGED <<versions, current, enabled, pinned>>
  BY <1>2 DEF ReserveRun, Pins, Done
<1>4. Grows
  BY <1>3 DEF VInv, Grows
<1>5. RowsHold'
  <2>1. VersionNumbers' /\ Versions' = Versions
    BY <1>3 DEF VInv, VersionNumbers, Versions
  <2>2. OnlyPublishedRun' /\ RunsArePinned'
    BY <1>2, <1>3 DEF VInv, OnlyPublishedRun, RunsArePinned
  <2>. QED  BY <1>2, <1>3, <2>1, <2>2 DEF VInv, RowsHold
<1>7. PICK q : q = Idle
  OBVIOUS
<1>8. /\ r \in Editors => q \in {Idle} \cup Drafts \cup Updates \cup Publishes
      /\ r \in Starters => q \in {Idle} \cup Starts
  BY <1>7
<1>. QED  BY <1>3, <1>4, <1>5, <1>7, <1>8, StepOfRequest

\* Writing nothing but the draft's own row keeps the numbers of the rows, and
\* a draft is neither current nor run.
LEMMA CommitDraftStep == ASSUME VInv, NEW r \in Editors, CommitDraft(r) PROVE VInv'
<1>1. request[r] \in Drafts
  BY RequestKinds DEF CommitDraft, Reads, VInv, RequestsTyped
<1>2. RequestHolds(r) /\ Len(versions) \in Nat /\ MaxVersions \in Nat
  BY VersionsAssumption DEF VInv
<1>3. PICK n \in Nat, c \in Contents :
         /\ n = request[r].latest + 1 /\ n <= Len(versions) + 1 /\ c = request[r].steps
  <2>1. PICK b \in Nat, c \in Contents : b = request[r].latest /\ c = request[r].steps
    BY <1>1 DEF Drafts
  <2>2. PICK k \in Nat : k = Len(versions)
    BY <1>2
  <2>3. b <= k
    BY <1>1, <1>2, <2>1, <2>2 DEF RequestHolds
  <2>. QED  BY <2>1, <2>2, <2>3
<1>4. PICK w : w = Draft(n, c)
  OBVIOUS
<1>5. w \in Version /\ w.number = n
  BY <1>4 DEF Draft, Version
<1>6. /\ request' = [request EXCEPT ![r] = Idle] /\ UNCHANGED <<current, enabled, runs, pinned>>
      /\ NumberFree(n) => Len(versions) < MaxVersions
      /\ versions' = IF NumberFree(n) THEN Append(versions, w) ELSE versions
  BY <1>3, <1>4 DEF CommitDraft, Done
<1>7. PICK q : q = Idle
  OBVIOUS
<1>8. /\ r \in Editors => q \in {Idle} \cup Drafts \cup Updates \cup Publishes
      /\ r \in Starters => q \in {Idle} \cup Starts
  BY <1>7
<1>9. CASE ~NumberFree(n)
  <2>1. Grows /\ RowsHold'
    BY <1>6, <1>9, NothingWritten DEF VInv
  <2>. QED  BY <1>6, <1>7, <1>8, <2>1, StepOfRequest
<1>10. CASE NumberFree(n)
  <2>1. n = Len(versions) + 1
    <3>1. ~ (n \in 1 .. Len(versions))
      BY <1>10 DEF NumberFree, Versions, VInv, VersionNumbers
    <3>2. request[r].latest \in Nat
      BY <1>1 DEF Drafts
    <3>. QED  BY <1>2, <1>3, <3>1, <3>2
  <2>2. /\ versions' \in Seq(Version) /\ Len(versions') = Len(versions) + 1 /\ versions'[n] = w
        /\ \A j \in 1 .. Len(versions) : versions'[j] = versions[j]
    BY <1>5, <1>6, <1>10, <2>1, RowAppended DEF VInv
  <2>3. Grows
    BY <1>2, <1>6, <1>10, <2>2 DEF Grows, VInv, Versions
  <2>4. VersionNumbers'
    BY <1>2, <1>5, <2>1, <2>2 DEF VInv, VersionNumbers, Versions
  <2>5. OnlyPublishedRun' /\ RunsArePinned'
    <3>1. current # 0 => current \in 1 .. Len(versions)
      BY <1>2 DEF VInv
    <3>. QED  BY <1>6, <2>2, <3>1 DEF VInv, OnlyPublishedRun, RunsArePinned, Versions
  <2>6. RowsHold'
    BY <1>2, <1>6, <1>10, <2>2, <2>4, <2>5 DEF VInv, RowsHold, Versions
  <2>. QED  BY <1>6, <1>7, <1>8, <2>3, <2>6, StepOfRequest
<1>. QED  BY <1>9, <1>10

\* The row that an update or a publication writes keeps its number, and stays
\* published if it was.
LEMMA RowKept ==
    ASSUME VInv, NEW i \in Versions, NEW w \in Version, versions' = [versions EXCEPT ![i] = w],
           w.number = versions[i].number, w.status \in {versions[i].status, "published"},
           UNCHANGED <<enabled, runs, pinned>>,
           current' = current \/ (current' = i /\ w.status = "published")
    PROVE  Grows /\ RowsHold'
<1>1. Len(versions) \in Nat /\ i \in 1 .. Len(versions)
  BY DEF VInv, Versions
<1>2. /\ versions' \in Seq(Version) /\ Len(versions') = Len(versions) /\ versions'[i] = w
      /\ \A j \in 1 .. Len(versions) : j # i => versions'[j] = versions[j]
  BY <1>1, RowWritten DEF VInv
<1>3. \A j \in Versions : versions[j].status = "published" => versions'[j].status = "published"
  BY <1>2 DEF Versions
<1>4. Versions' = Versions
  BY <1>2 DEF Versions
<1>5. VersionNumbers'
  BY <1>1, <1>2, <1>4 DEF VInv, VersionNumbers, Versions
<1>6. current # 0 => current \in Versions
  BY <1>1 DEF VInv, Versions
<1>7. OnlyPublishedRun'
  BY <1>2, <1>3, <1>6 DEF VInv, OnlyPublishedRun
<1>8. RunsArePinned'
  BY DEF VInv, RunsArePinned
<1>9. current' \in 0 .. Len(versions')
  BY <1>1, <1>2 DEF VInv
<1>. QED  BY <1>1, <1>2, <1>3, <1>4, <1>5, <1>7, <1>8, <1>9 DEF VInv, RowsHold, Grows

LEMMA CommitUpdateStep == ASSUME VInv, NEW r \in Editors, CommitUpdate(r) PROVE VInv'
<1>1. request[r] \in Updates /\ RequestHolds(r)
  BY RequestKinds DEF CommitUpdate, Reads, VInv, RequestsTyped
<1>2. PICK i \in Versions, c \in Contents : i = request[r].v /\ c = request[r].steps
  BY <1>1 DEF RequestHolds, Updates
<1>3. versions[i] \in Version
  BY <1>2 DEF VInv, Versions
<1>4. PICK w : w = [versions[i] EXCEPT !.steps = c]
  OBVIOUS
<1>5. w \in Version /\ w.number = versions[i].number /\ w.status = versions[i].status
  BY <1>3, <1>4 DEF Version
<1>6. /\ versions' = [versions EXCEPT ![i] = w] /\ request' = [request EXCEPT ![r] = Idle]
      /\ UNCHANGED <<current, enabled, runs, pinned>>
  BY <1>2, <1>4 DEF CommitUpdate, Done
<1>7. Grows /\ RowsHold'
  BY <1>5, <1>6, RowKept
<1>8. PICK q : q = Idle
  OBVIOUS
<1>9. /\ r \in Editors => q \in {Idle} \cup Drafts \cup Updates \cup Publishes
      /\ r \in Starters => q \in {Idle} \cup Starts
  BY <1>8
<1>. QED  BY <1>6, <1>7, <1>8, <1>9, StepOfRequest

LEMMA CommitPublishStep == ASSUME VInv, NEW r \in Editors, CommitPublish(r) PROVE VInv'
<1>1. request[r] \in Publishes /\ RequestHolds(r)
  BY RequestKinds DEF CommitPublish, Reads, VInv, RequestsTyped
<1>2. PICK i \in Versions : i = request[r].v
  BY <1>1 DEF RequestHolds
<1>3. versions[i] \in Version
  BY <1>2 DEF VInv, Versions
<1>4. PICK w : w = [versions[i] EXCEPT !.status = "published"]
  OBVIOUS
<1>5. w \in Version /\ w.number = versions[i].number /\ w.status = "published"
  BY <1>3, <1>4 DEF Version
<1>6. /\ versions' = [versions EXCEPT ![i] = w] /\ request' = [request EXCEPT ![r] = Idle]
      /\ current' = i /\ UNCHANGED <<enabled, runs, pinned>>
  BY <1>2, <1>4 DEF CommitPublish, Done
<1>7. Grows /\ RowsHold'
  BY <1>5, <1>6, RowKept
<1>8. PICK q : q = Idle
  OBVIOUS
<1>9. /\ r \in Editors => q \in {Idle} \cup Drafts \cup Updates \cup Publishes
      /\ r \in Starters => q \in {Idle} \cup Starts
  BY <1>8
<1>. QED  BY <1>6, <1>7, <1>8, <1>9, StepOfRequest

LEMMA CreateDefinitionStep == ASSUME VInv, NEW c \in Contents, CreateDefinition(c) PROVE VInv'
<1>1. PICK w : w = Draft(1, c)
  OBVIOUS
<1>2. w \in Version /\ w.number = 1
  BY <1>1 DEF Draft, Version
<1>3. Len(versions) = 0 /\ Versions = {} /\ current = 0 /\ runs = {}
  BY DEF CreateDefinition, VInv, Versions
<1>4. versions' = <<w>> /\ UNCHANGED <<current, enabled, request, runs, pinned>>
  BY <1>1 DEF CreateDefinition
<1>5. versions' \in Seq(Version) /\ Len(versions') = 1 /\ versions'[1] = w
  BY <1>2, <1>4
<1>6. RowsHold'
  BY <1>2, <1>3, <1>4, <1>5, VersionsAssumption
     DEF VInv, RowsHold, VersionNumbers, OnlyPublishedRun, RunsArePinned, Versions
<1>7. RequestsTyped'
  BY <1>4 DEF VInv, RequestsTyped
<1>8. \A r \in Editors \cup Starters : RequestHolds(r)'
  BY <1>3, <1>4, <1>5 DEF VInv, RequestHolds, Drafts
<1>. QED  BY <1>6, <1>7, <1>8 DEF VInv, RowsHold

LEMMA RequestsAsTheyWere ==
    ASSUME VInv, UNCHANGED <<versions, current, request, runs, pinned>>, enabled' \in BOOLEAN PROVE VInv'
BY DEF VInv, RequestsTyped, RequestHolds, Versions, VersionNumbers, OnlyPublishedRun, RunsArePinned

LEMMA VersionsStep == ASSUME VInv, [VersionsNext]_versionVars PROVE VInv'
<1>1. CASE \E c \in Contents : CreateDefinition(c)
  BY <1>1, CreateDefinitionStep
<1>2. CASE \E r \in Editors, c \in Contents : BeginDraft(r, c)
  <2>1. 1 \in Indices
    BY VersionsAssumption DEF Indices
  <2>. QED  BY <1>2, <2>1, BeginSteps
<1>3. CASE \E r \in Editors, i \in Indices, c \in Contents : BeginUpdate(r, i, c)
  BY <1>3, BeginSteps
<1>4. CASE \E r \in Editors, i \in Indices : BeginPublish(r, i)
  <2>1. PICK c : c \in Contents
    BY VersionsAssumption
  <2>. QED  BY <1>4, <2>1, BeginSteps
<1>5. CASE \E r \in Editors : CommitDraft(r) \/ CommitUpdate(r) \/ CommitPublish(r)
  BY <1>5, CommitDraftStep, CommitUpdateStep, CommitPublishStep
<1>6. CASE SetDefinitionStatus
  BY <1>6, RequestsAsTheyWere DEF SetDefinitionStatus, VInv
<1>7. CASE \E r \in Starters, o \in Occurrences : ReadCurrent(r, o)
  BY <1>7, ReadCurrentStep
<1>8. CASE \E r \in Starters : ReserveRun(r)
  BY <1>8, ReserveRunStep
<1>9. CASE UNCHANGED versionVars
  BY <1>9, RequestsAsTheyWere DEF versionVars, VInv
<1>. QED  BY <1>1, <1>2, <1>3, <1>4, <1>5, <1>6, <1>7, <1>8, <1>9 DEF VersionsNext

LEMMA VersionsStart == ASSUME VersionsInit PROVE VInv
<1>1. versions \in Seq(Version) /\ Len(versions) = 0 /\ Versions = {}
  BY DEF VersionsInit, Versions
<1>2. \A r \in Editors \cup Starters : request[r] = Idle
  BY DEF VersionsInit
<1>3. Idle \notin Drafts \cup Updates \cup Publishes \cup Starts
  BY DEF Idle, Drafts, Updates, Publishes, Starts
<1>4. RequestsTyped /\ \A r \in Editors \cup Starters : RequestHolds(r)
  BY <1>2, <1>3 DEF VersionsInit, RequestsTyped, RequestHolds
<1>. QED  BY <1>1, <1>4, VersionsAssumption
             DEF VersionsInit, VInv, VersionNumbers, OnlyPublishedRun, RunsArePinned

\* However edits, publications and starts of a durable workflow overlap, its
\* versions are numbered in order, only published ones run, and a run executes
\* a version current when its starter read the workflow (definitions.py,
\* runs.py, triggers.py).
THEOREM RunsFollowVersionsHolds == VersionsSpec => []RunsFollowVersions
<1>1. VInv => RunsFollowVersions
  BY DEF VInv, RequestsTyped, RunsFollowVersions, VersionsTypeOK, Drafts, Updates, Publishes, Starts
<1>. QED  BY VersionsStart, VersionsStep, <1>1, PTL DEF VersionsSpec
-----------------------------------------------------------------------------
(***************************************************************************)
(* Graphs.  A step is black when all its destinations are, so the black    *)
(* steps can be ranked above their destinations, and a run goes down the   *)
(* ranks.  The refinement never goes below the dominators; where nothing   *)
(* changes any more it is not above them either.                           *)
(***************************************************************************)
Past   == {"refine", "references", "accepted", "ended"}
Dom(s) == {d \in GraphSteps : ~PathAvoids(d, s)}

\* The stack of visit() is the gray steps, each once.
Nested ==
    /\ \A i, j \in 1..Len(visiting) : visiting[i] = visiting[j] => i = j
    /\ \A s \in GraphSteps : color[s] = "gray" <=> \E i \in 1..Len(visiting) : visiting[i] = s

Settled == \A s \in GraphSteps : color[s] = "black" => \A t \in dest[s] : color[t] = "black"

Ranks(n, rank) ==
    /\ \A s \in GraphSteps : color[s] = "black" =>
           rank[s] <= n /\ \A t \in dest[s] : rank[t] < rank[s]
    /\ \A i, j \in 1..Len(ran) : i < j => rank[ran[j]] < rank[ran[i]]

Ranked == \E n \in Nat, rank \in [GraphSteps -> Nat] : Ranks(n, rank)

NothingLeft == phase \in Past => \A s \in GraphSteps : color[s] = "black"

Dominated ==
    phase \in Past =>
        /\ dominators[Start] = {Start}
        /\ \A s \in Reachable : Dom(s) \subseteq dominators[s]

Fixed == phase \in Past \ {"refine"} => \A s \in Reachable \ {Start} : NewDom(s) = dominators[s]

Walked ==
    /\ ran # <<>> => phase \in {"accepted", "ended"}
    /\ \A i \in 1..Len(ran) : ran[i] \in Reachable /\ dominators[ran[i]] \subseteq {ran[j] : j \in 1..i}

Accepted ==
    phase \in {"accepted", "ended"} => ref \in GraphSteps \X GraphSteps /\ Accepts(ref[1], ref[2])

GInv ==
    GraphTypeOK /\ Nested /\ Settled /\ Ranked /\ NothingLeft
    /\ Dominated /\ Fixed /\ Walked /\ Accepted

\* PathsFrom(s, D) is closed, and the least such set.
LEMMA PathsClosed ==
    ASSUME dest \in [GraphSteps -> SUBSET GraphSteps], NEW s \in GraphSteps, NEW D
    PROVE  /\ PathsFrom(s, D) \subseteq GraphSteps /\ s \in PathsFrom(s, D)
           /\ \A x \in PathsFrom(s, D) : dest[x] \ D \subseteq PathsFrom(s, D)
BY DEF PathsFrom

LEMMA PathsLeast ==
    ASSUME NEW s \in GraphSteps, NEW D, NEW S \in SUBSET GraphSteps, s \in S,
           \A x \in S : dest[x] \ D \subseteq S
    PROVE  PathsFrom(s, D) \subseteq S
BY DEF PathsFrom

LEMMA ReachableClosed ==
    ASSUME GraphTypeOK
    PROVE  /\ Reachable \subseteq GraphSteps /\ Start \in Reachable
           /\ \A x \in Reachable : dest[x] \subseteq Reachable
<1>1. dest \in [GraphSteps -> SUBSET GraphSteps] /\ Start \in GraphSteps
  BY GraphAssumption DEF GraphTypeOK
<1>2. PICK D : D = {}
  OBVIOUS
<1>3. /\ PathsFrom(Start, D) \subseteq GraphSteps /\ Start \in PathsFrom(Start, D)
      /\ \A x \in PathsFrom(Start, D) : dest[x] \ D \subseteq PathsFrom(Start, D)
  BY <1>1, PathsClosed
<1>. QED  BY <1>2, <1>3 DEF Reachable, ReachableFrom

\* Every set of steps that has the start and is closed but for d has the steps
\* that a path which avoids d leads to.
LEMMA Avoiding ==
    ASSUME GraphTypeOK, NEW d \in GraphSteps, NEW s \in GraphSteps, PathAvoids(d, s),
           NEW S \in SUBSET GraphSteps, Start \in S, \A x \in S : dest[x] \ {d} \subseteq S
    PROVE  s \in S
BY GraphAssumption, PathsLeast DEF PathAvoids

LEMMA AvoidingGoesOn ==
    ASSUME GraphTypeOK, NEW d \in GraphSteps, NEW p \in GraphSteps, NEW s \in dest[p], s # d, PathAvoids(d, p)
    PROVE  PathAvoids(d, s)
<1>1. PICK D : D = {d}
  OBVIOUS
<1>2. dest \in [GraphSteps -> SUBSET GraphSteps] /\ Start \in GraphSteps
  BY GraphAssumption DEF GraphTypeOK
<1>3. \A x \in PathsFrom(Start, D) : dest[x] \ D \subseteq PathsFrom(Start, D)
  BY <1>2, PathsClosed
<1>. QED  BY <1>1, <1>3 DEF PathAvoids

\* The first guess is not below the dominators.
LEMMA DomWithin ==
    ASSUME GraphTypeOK
    PROVE  Dom(Start) \subseteq {Start} /\ \A s \in Reachable : Dom(s) \subseteq Reachable
<1>1. dest \in [GraphSteps -> SUBSET GraphSteps] /\ Start \in GraphSteps
  BY GraphAssumption DEF GraphTypeOK
<1>2. ASSUME NEW d \in Dom(Start), d # Start PROVE FALSE
  <2>1. PICK D : D = {d}
    OBVIOUS
  <2>2. Start \in PathsFrom(Start, D)
    BY <1>1, PathsClosed
  <2>. QED  BY <1>2, <2>1, <2>2 DEF Dom, PathAvoids
<1>3. ASSUME NEW s \in Reachable, NEW d \in Dom(s), d \notin Reachable PROVE FALSE
  <2>1. d # Start /\ d \in GraphSteps
    BY <1>3, ReachableClosed DEF Dom
  <2>2. s \notin PathsFrom(Start, {d}) /\ s \in GraphSteps
    BY <1>3, <2>1, ReachableClosed DEF Dom, PathAvoids
  <2>3. PICK S \in SUBSET GraphSteps :
           Start \in S /\ (\A x \in S : dest[x] \ {d} \subseteq S) /\ s \notin S
    BY <2>2 DEF PathsFrom
  <2>4. PICK T \in SUBSET GraphSteps : T = S \cap Reachable
    BY <2>3
  <2>5. Start \in T /\ \A x \in T : dest[x] \ {} \subseteq T
    BY <1>3, <2>3, <2>4, ReachableClosed
  <2>6. PICK E : E = {}
    OBVIOUS
  <2>7. PathsFrom(Start, E) \subseteq T
    BY <1>1, <2>5, <2>6, PathsLeast
  <2>. QED  BY <1>3, <2>3, <2>4, <2>6, <2>7 DEF Reachable, ReachableFrom
<1>. QED  BY <1>2, <1>3

LEMMA NewDomAbove ==
    ASSUME GraphTypeOK, \A s \in Reachable : Dom(s) \subseteq dominators[s], NEW s \in Reachable
    PROVE  Dom(s) \subseteq NewDom(s)
<1>1. SUFFICES ASSUME NEW d \in Dom(s), d # s, NEW p \in Predecessors(s) \cap Reachable PROVE d \in dominators[p]
  BY DEF NewDom, Dom
<1>2. d \in GraphSteps /\ p \in GraphSteps /\ s \in dest[p] /\ ~PathAvoids(d, s)
  BY <1>1 DEF Dom, Predecessors
<1>3. ~PathAvoids(d, p)
  BY <1>1, <1>2, AvoidingGoesOn
<1>. QED  BY <1>1, <1>2, <1>3 DEF Dom

\* Nothing else is left when no step changes any more.
LEMMA ExactWhenFixed ==
    ASSUME GraphTypeOK, dominators[Start] = {Start},
           \A s \in Reachable : Dom(s) \subseteq dominators[s],
           \A s \in Reachable \ {Start} : NewDom(s) = dominators[s]
    PROVE  \A s \in Reachable : dominators[s] = Dom(s)
<1>1. SUFFICES ASSUME NEW s \in Reachable, NEW d \in dominators[s], PathAvoids(d, s) PROVE FALSE
  BY ReachableClosed DEF GraphTypeOK, Dom
<1>2. s \in GraphSteps /\ d \in GraphSteps /\ Start # d
  BY <1>1, ReachableClosed DEF GraphTypeOK, PathAvoids
<1>3. PICK S \in SUBSET GraphSteps : S = {x \in Reachable : d \notin dominators[x]}
  BY ReachableClosed
<1>4. Start \in S
  BY <1>2, <1>3, ReachableClosed
<1>5. ASSUME NEW x \in S, NEW y \in dest[x] \ {d} PROVE y \in S
  <2>1. x \in Reachable /\ x \in GraphSteps /\ y \in Reachable /\ y \in GraphSteps
    BY <1>3, ReachableClosed
  <2>2. CASE y # Start
    <3>1. x \in Predecessors(y) \cap Reachable /\ d \notin dominators[x]
      BY <1>3, <2>1 DEF Predecessors
    <3>2. d \notin NewDom(y)
      BY <1>5, <3>1 DEF NewDom
    <3>. QED  BY <1>3, <2>1, <2>2, <3>2
  <2>. QED  BY <1>4, <2>2
<1>. QED  BY <1>1, <1>2, <1>3, <1>4, <1>5, Avoiding

\* The least of a set of steps is one of them.
LEMMA FirstIsOne == ASSUME NEW S \in SUBSET GraphSteps, S # {} PROVE First(S) \in S
<1>1. PICK R : R = {ss \in Nat \X Nat : ss[1] < ss[2]}
  OBVIOUS
<1>2. IsWellFoundedOn(R, Nat) /\ S \subseteq Nat
  BY <1>1, NatLessThanWellFounded DEF OpToRel, GraphSteps
<1>3. PICK s \in S : \A t \in S : ~(<<t, s>> \in R)
  BY <1>2, WFMin
<1>4. \A t \in S : s \in Nat /\ t \in Nat /\ ~(t < s)
  BY <1>1, <1>2, <1>3
<1>5. \A t \in S : s <= t
  BY <1>4
<1>. QED  BY <1>5 DEF First

\* A sequence that repeats no step is no longer than the list of steps.
LEMMA NoLonger ==
    ASSUME NEW v \in Seq(GraphSteps), \A i, j \in 1..Len(v) : v[i] = v[j] => i = j
    PROVE  Len(v) <= NSteps
<1>1. Len(v) \in Nat /\ v \in [1..Len(v) -> GraphSteps] /\ NSteps \in Nat
  BY GraphAssumption
<1>2. \A n \in Nat : IsFiniteSet(1..n) /\ Cardinality(1..n) = n
  <2>. SUFFICES ASSUME NEW n \in Nat PROVE IsFiniteSet(1..n) /\ Cardinality(1..n) = n
    OBVIOUS
  <2>1. 1 \in Int /\ n \in Int /\ (IF 1 > n THEN 0 ELSE n - 1 + 1) = n
    OBVIOUS
  <2>. QED  BY <2>1, FS_Interval
<1>3. SUFFICES ASSUME Cardinality(GraphSteps) < Cardinality(1..Len(v)) PROVE FALSE
  BY <1>1, <1>2 DEF GraphSteps
<1>4. \E x, y \in 1..Len(v) : x # y /\ v[x] = v[y]
  BY <1>1, <1>2, <1>3, FS_PigeonHole DEF GraphSteps
<1>. QED  BY <1>4

\* While dest stays, so do the paths.
LEMMA PathsStay ==
    ASSUME dest' = dest
    PROVE  Reachable' = Reachable /\ \A s \in GraphSteps : Dom(s)' = Dom(s) /\ Predecessors(s)' = Predecessors(s)
BY DEF Reachable, ReachableFrom, PathsFrom, Dom, PathAvoids, Predecessors

LEMMA NewDomStays ==
    ASSUME GraphTypeOK, dest' = dest, dominators' = dominators
    PROVE  \A s \in Reachable : NewDom(s)' = NewDom(s) /\ s \in GraphSteps
BY PathsStay, ReachableClosed DEF NewDom

\* Only the colours and the stack are written before the dominators.
LEMMA InCycles ==
    ASSUME GInv, phase = "cycles", UNCHANGED <<dest, ref, dominators, ran>>, phase' \in {"cycles", "rejected"},
           color' \in [GraphSteps -> Colors], visiting' \in Seq(GraphSteps), Nested', Settled', Ranked'
    PROVE  GInv'
<1>1. Len(visiting') <= NSteps
  BY NoLonger DEF Nested
<1>2. GraphTypeOK'
  BY <1>1 DEF GInv, GraphTypeOK, Phases
<1>3. ran = <<>>
  BY DEF GInv, Walked
<1>4. NothingLeft' /\ Dominated' /\ Fixed' /\ Walked' /\ Accepted'
  BY <1>3 DEF NothingLeft, Dominated, Fixed, Walked, Accepted, Past
<1>. QED  BY <1>2, <1>4 DEF GInv

LEMMA VisitStep == ASSUME GInv, Visit PROVE GInv'
<1>1. PICK s \in White : /\ visiting' = Append(visiting, s) /\ color' = [color EXCEPT ![s] = "gray"]
  <2>1. PICK S : S = IF visiting = <<>> THEN White ELSE dest[Top] \cap White
    OBVIOUS
  <2>2. S \in SUBSET GraphSteps /\ S \subseteq White /\ S # {}
    BY <2>1 DEF Visit, White
  <2>3. First(S) \in S
    BY <2>2, FirstIsOne
  <2>. QED  BY <2>1, <2>2, <2>3 DEF Visit
<1>2. s \in GraphSteps /\ color[s] = "white" /\ visiting \in Seq(GraphSteps) /\ color \in [GraphSteps -> Colors]
      /\ Len(visiting) \in Nat /\ ran = <<>> /\ phase = "cycles"
  BY <1>1 DEF White, GInv, GraphTypeOK, Visit, Walked
<1>3. /\ color' \in [GraphSteps -> Colors] /\ color'[s] = "gray"
      /\ \A t \in GraphSteps \ {s} : color'[t] = color[t]
  BY <1>1, <1>2 DEF Colors
<1>4. /\ visiting' \in Seq(GraphSteps) /\ Len(visiting') = Len(visiting) + 1 /\ visiting'[Len(visiting) + 1] = s
      /\ \A i \in 1..Len(visiting) : visiting'[i] = visiting[i]
  BY <1>1, <1>2
<1>5. \A i \in 1..Len(visiting) : visiting[i] # s /\ visiting[i] \in GraphSteps
  BY <1>2 DEF GInv, Nested
<1>6. Nested'
  <2>1. \A i, j \in 1..Len(visiting') : visiting'[i] = visiting'[j] => i = j
    BY <1>2, <1>4, <1>5 DEF GInv, Nested
  <2>2. \A t \in GraphSteps : color'[t] = "gray" <=> \E i \in 1..Len(visiting') : visiting'[i] = t
    BY <1>2, <1>3, <1>4, <1>5 DEF GInv, Nested
  <2>. QED  BY <2>1, <2>2 DEF Nested
<1>7. dest' = dest /\ dest \in [GraphSteps -> SUBSET GraphSteps]
  BY DEF Visit, GInv, GraphTypeOK
<1>8. Settled'
  BY <1>2, <1>3, <1>7 DEF GInv, Settled
<1>9. Ranked'
  <2>1. ran' = ran
    BY DEF Visit
  <2>2. PICK n \in Nat, rank \in [GraphSteps -> Nat] : Ranks(n, rank)
    BY DEF GInv, Ranked
  <2>3. Ranks(n, rank)'
    BY <1>2, <1>3, <1>7, <2>1, <2>2 DEF Ranks
  <2>. QED  BY <2>3 DEF Ranked
<1>. QED  BY <1>2, <1>3, <1>4, <1>6, <1>8, <1>9, InCycles DEF Visit

LEMMA FindCycleStep == ASSUME GInv, FindCycle PROVE GInv'
<1>1. Nested' /\ Settled' /\ Ranked'
  BY DEF FindCycle, GInv, Nested, Settled, Ranked, Ranks
<1>. QED  BY <1>1, InCycles DEF FindCycle, GInv, GraphTypeOK

\* The step that is left gets a rank above all ranks so far: no black step has
\* it for a destination.
LEMMA LeaveStepStep == ASSUME GInv, LeaveStep PROVE GInv'
<1>1. PICK v \in Seq(GraphSteps) : v = visiting
  BY DEF GInv, GraphTypeOK
<1>2. PICK l \in Nat : l = Len(v) /\ l # 0
  BY <1>1 DEF LeaveStep
<1>3. PICK s \in GraphSteps : s = v[l] /\ s = Top
  BY <1>1, <1>2 DEF Top
<1>4. /\ color' = [color EXCEPT ![s] = "black"] /\ visiting' = SubSeq(v, 1, l - 1)
      /\ UNCHANGED <<dest, ref, dominators, phase, ran>> /\ phase = "cycles" /\ ran = <<>>
      /\ \A t \in dest[s] : t \notin White \cup Gray
  BY <1>1, <1>2, <1>3 DEF LeaveStep, GInv, Walked
<1>12. /\ \A i, j \in 1..l : v[i] = v[j] => i = j
       /\ \A t \in GraphSteps : color[t] = "gray" <=> \E i \in 1..l : v[i] = t
  BY <1>1, <1>2 DEF GInv, Nested
<1>5. dest \in [GraphSteps -> SUBSET GraphSteps] /\ color \in [GraphSteps -> Colors] /\ color[s] = "gray"
  <2>1. l \in 1..l /\ v[l] = s
    BY <1>2, <1>3
  <2>. QED  BY <1>12, <2>1 DEF GInv, GraphTypeOK
<1>6. \A t \in dest[s] : t \in GraphSteps /\ color[t] = "black" /\ t # s
  BY <1>4, <1>5 DEF White, Gray, Colors
<1>7. /\ color' \in [GraphSteps -> Colors] /\ color'[s] = "black"
      /\ \A t \in GraphSteps \ {s} : color'[t] = color[t]
  BY <1>4, <1>5 DEF Colors
<1>8. visiting' \in Seq(GraphSteps) /\ Len(visiting') = l - 1 /\ \A i \in 1..(l - 1) : visiting'[i] = v[i]
  BY <1>1, <1>2, <1>4
<1>9. Nested'
  <2>1. \A i, j \in 1..Len(visiting') : visiting'[i] = visiting'[j] => i = j
    BY <1>2, <1>8, <1>12
  <2>2. \A i \in 1..l : i \in 1..(l - 1) \/ i = l
    BY <1>2
  <2>3. \A i \in 1..(l - 1) : i \in 1..l /\ l \in 1..l /\ i # l
    BY <1>2
  <2>4. \A i \in 1..(l - 1) : v[i] # s
    BY <1>3, <1>12, <2>3
  <2>5. \A t \in GraphSteps \ {s} : color'[t] = "gray" <=> \E i \in 1..(l - 1) : v[i] = t
    BY <1>3, <1>7, <1>12, <2>2, <2>3
  <2>6. \A t \in GraphSteps \ {s} : color'[t] = "gray" <=> \E i \in 1..Len(visiting') : visiting'[i] = t
    BY <1>8, <2>5
  <2>7. ~(color'[s] = "gray") /\ ~ \E i \in 1..Len(visiting') : visiting'[i] = s
    BY <1>7, <1>8, <2>4
  <2>. QED  BY <2>1, <2>6, <2>7 DEF Nested
<1>10. Settled'
  BY <1>4, <1>5, <1>6, <1>7 DEF GInv, Settled
<1>11. Ranked'
  <2>1. PICK n \in Nat, rank \in [GraphSteps -> Nat] :
           \A t \in GraphSteps : color[t] = "black" => rank[t] <= n /\ \A u \in dest[t] : rank[u] < rank[t]
    BY DEF GInv, Ranked, Ranks
  <2>2. PICK z \in [GraphSteps -> Nat] : z[s] = n + 1 /\ \A t \in GraphSteps \ {s} : z[t] = rank[t]
    <3>. WITNESS [rank EXCEPT ![s] = n + 1] \in [GraphSteps -> Nat]
    <3>. QED  OBVIOUS
  <2>3. \A t \in GraphSteps : color'[t] = "black" => z[t] <= n + 1
    <3>. SUFFICES ASSUME NEW t \in GraphSteps \ {s}, color'[t] = "black" PROVE z[t] <= n + 1
      BY <2>2
    <3>1. rank[t] <= n /\ z[t] = rank[t] /\ rank[t] \in Nat
      BY <1>7, <2>1, <2>2
    <3>. QED  BY <3>1
  <2>4. \A u \in dest[s] : z[u] < z[s]
    BY <1>6, <2>1, <2>2
  <2>5. \A t \in GraphSteps \ {s} : color'[t] = "black" => \A u \in dest[t] : z[u] < z[t]
    <3>. SUFFICES ASSUME NEW t \in GraphSteps \ {s}, color'[t] = "black", NEW u \in dest[t] PROVE z[u] < z[t]
      OBVIOUS
    <3>1. color[t] = "black" /\ u \in GraphSteps /\ color[u] = "black"
      BY <1>5, <1>7 DEF GInv, Settled
    <3>. QED  BY <1>5, <2>1, <2>2, <3>1
  <2>6. n + 1 \in Nat /\ Len(ran') = 0
    BY <1>4
  <2>7. PICK k \in Nat : k = n + 1
    BY <2>6
  <2>8. Ranks(k, z)'
    BY <1>4, <2>2, <2>3, <2>4, <2>5, <2>6, <2>7 DEF Ranks
  <2>. QED  BY <2>8 DEF Ranked
<1>. QED  BY <1>4, <1>7, <1>8, <1>9, <1>10, <1>11, InCycles

\* The colours and the stack are not written any more.
LEMMA ColorsStay ==
    ASSUME GInv, UNCHANGED <<dest, color, visiting, ran>> PROVE Nested' /\ Settled' /\ Ranked'
BY DEF GInv, Nested, Settled, Ranked, Ranks

LEMMA BeginDominatorsStep == ASSUME GInv, BeginDominators PROVE GInv'
<1>1. Nested' /\ Settled' /\ Ranked'
  BY ColorsStay DEF BeginDominators
<1>2. GraphTypeOK /\ Reachable \subseteq GraphSteps /\ Start \in Reachable /\ Reachable' = Reachable
  BY ReachableClosed, PathsStay DEF GInv, BeginDominators
<1>3. dominators' \in [GraphSteps -> SUBSET GraphSteps] /\ dominators'[Start] = {Start}
      /\ \A s \in Reachable \ {Start} : dominators'[s] = Reachable
  BY <1>2 DEF BeginDominators
<1>4. GraphTypeOK'
  BY <1>2, <1>3 DEF GraphTypeOK, BeginDominators, Phases
<1>5. \A s \in GraphSteps : color[s] = "black"
  <2>1. Len(visiting) = 0 /\ White = {}
    BY DEF BeginDominators
  <2>2. \A s \in GraphSteps : color[s] \in Colors /\ color[s] # "white" /\ color[s] # "gray"
    BY <1>2, <2>1 DEF GraphTypeOK, White, GInv, Nested
  <2>. QED  BY <2>2 DEF Colors
<1>6. NothingLeft'
  BY <1>5 DEF NothingLeft, BeginDominators
<1>7. Dominated'
  <2>1. \A s \in Reachable : Dom(s)' \subseteq dominators'[s]
    BY <1>2, <1>3, DomWithin, PathsStay DEF BeginDominators
  <2>. QED  BY <1>2, <1>3, <2>1 DEF Dominated
<1>8. ran = <<>>
  BY DEF GInv, Walked, BeginDominators
<1>9. Fixed' /\ Walked' /\ Accepted'
  BY <1>8 DEF Fixed, Walked, Accepted, BeginDominators
<1>. QED  BY <1>1, <1>4, <1>6, <1>7, <1>9 DEF GInv

LEMMA RefineStep == ASSUME GInv, NEW s \in GraphSteps, Refine(s) PROVE GInv'
<1>1. Nested' /\ Settled' /\ Ranked'
  BY ColorsStay DEF Refine
<1>2. /\ GraphTypeOK /\ Reachable' = Reachable /\ s \in Reachable /\ s # Start /\ phase = "refine" /\ phase' = phase
      /\ dominators' = [dominators EXCEPT ![s] = NewDom(s)]
      /\ UNCHANGED <<dest, ref, color, visiting, ran>>
  BY PathsStay DEF GInv, Refine, Unsettled
<1>3. NewDom(s) \subseteq GraphSteps
  BY DEF NewDom
<1>4. /\ dominators' \in [GraphSteps -> SUBSET GraphSteps] /\ dominators'[s] = NewDom(s)
      /\ \A t \in GraphSteps \ {s} : dominators'[t] = dominators[t]
  BY <1>2, <1>3 DEF GraphTypeOK
<1>5. GraphTypeOK' /\ NothingLeft'
  BY <1>2, <1>4 DEF GraphTypeOK, GInv, NothingLeft
<1>6. \A t \in Reachable : Dom(t) \subseteq dominators[t]
  BY <1>2 DEF GInv, Dominated, Past
<1>7. \A t \in Reachable : Dom(t)' \subseteq dominators'[t]
  BY <1>2, <1>4, <1>6, NewDomAbove, PathsStay, ReachableClosed
<1>8. Dominated'
  BY <1>2, <1>4, <1>7, GraphAssumption DEF GInv, Dominated, Past
<1>9. ran = <<>>
  BY <1>2 DEF GInv, Walked
<1>10. Fixed' /\ Walked' /\ Accepted'
  BY <1>2, <1>9 DEF Fixed, Walked, Accepted, Past
<1>. QED  BY <1>1, <1>5, <1>8, <1>10 DEF GInv

LEMMA FixedPointStep == ASSUME GInv, FixedPoint PROVE GInv'
<1>1. Nested' /\ Settled' /\ Ranked'
  BY ColorsStay DEF FixedPoint
<1>2. /\ GraphTypeOK /\ Reachable' = Reachable /\ phase = "refine" /\ phase' = "references" /\ Unsettled = {}
      /\ UNCHANGED <<dest, ref, color, visiting, dominators, ran>>
  BY PathsStay DEF GInv, FixedPoint
<1>3. GraphTypeOK' /\ NothingLeft'
  BY <1>2 DEF GraphTypeOK, Phases, GInv, NothingLeft, Past
<1>4. Dominated'
  BY <1>2, PathsStay, ReachableClosed DEF GInv, Dominated, Past
<1>5. Fixed'
  BY <1>2, NewDomStays DEF Fixed, Unsettled
<1>6. ran = <<>>
  BY <1>2 DEF GInv, Walked
<1>7. Walked' /\ Accepted'
  BY <1>2, <1>6 DEF Walked, Accepted
<1>. QED  BY <1>1, <1>3, <1>4, <1>5, <1>7 DEF GInv

LEMMA ValidateReferenceStep ==
    ASSUME GInv, NEW s \in GraphSteps, NEW t \in GraphSteps, ValidateReference(s, t) PROVE GInv'
<1>1. Nested' /\ Settled' /\ Ranked'
  BY ColorsStay DEF ValidateReference
<1>2. /\ GraphTypeOK /\ Reachable' = Reachable /\ phase = "references" /\ phase' \in {"accepted", "rejected"}
      /\ ref' = <<s, t>> /\ (phase' = "accepted" => Accepts(s, t))
      /\ UNCHANGED <<dest, color, visiting, dominators, ran>>
  BY PathsStay DEF GInv, ValidateReference
<1>3. GraphTypeOK' /\ NothingLeft'
  BY <1>2 DEF GraphTypeOK, Phases, GInv, NothingLeft, Past
<1>4. Dominated'
  BY <1>2, PathsStay, ReachableClosed DEF GInv, Dominated, Past
<1>5. Fixed'
  BY <1>2, NewDomStays DEF GInv, Fixed, Past
<1>6. ran = <<>>
  BY <1>2 DEF GInv, Walked
<1>7. Walked' /\ Accepted'
  BY <1>2, <1>6 DEF Walked, Accepted, Accepts
<1>. QED  BY <1>1, <1>3, <1>4, <1>5, <1>7 DEF GInv

\* A run goes to a destination, lower in rank, that the steps left behind
\* dominate.
LEMMA EnterStep == ASSUME GInv, NEW s \in GraphSteps, Enter(s) PROVE GInv'
<1>1. /\ GraphTypeOK /\ Reachable' = Reachable /\ phase = "accepted" /\ phase' = phase
      /\ UNCHANGED <<dest, ref, color, visiting, dominators>>
  BY PathsStay DEF GInv, Enter
<1>2. PICK r \in Seq(GraphSteps), l \in Nat : r = ran /\ l = Len(r)
  BY <1>1 DEF GraphTypeOK
<1>3. /\ ran' = Append(r, s) /\ s \in IF l = 0 THEN {Start} ELSE dest[r[l]]
  BY <1>2 DEF Enter
<1>4. /\ ran' \in Seq(GraphSteps) /\ Len(ran') = l + 1 /\ ran'[l + 1] = s /\ ran' # <<>>
      /\ \A i \in 1..l : ran'[i] = r[i] /\ r[i] \in GraphSteps
  BY <1>2, <1>3
<1>5. Nested' /\ Settled' /\ NothingLeft'
  BY <1>1 DEF GInv, Nested, Settled, NothingLeft
<1>6. GraphTypeOK'
  BY <1>1, <1>4 DEF GraphTypeOK
<1>7. Dominated'
  BY <1>1, PathsStay, ReachableClosed DEF GInv, Dominated, Past
<1>8. Fixed'
  BY <1>1, NewDomStays DEF GInv, Fixed, Past
<1>9. Accepted'
  BY <1>1 DEF GInv, Accepted, Accepts
<1>10. Ranked'
  <2>1. PICK n \in Nat, rank \in [GraphSteps -> Nat] :
           /\ \A t \in GraphSteps : color[t] = "black" =>
                  rank[t] <= n /\ \A u \in dest[t] : rank[u] < rank[t]
           /\ \A i, j \in 1..l : i < j => rank[r[j]] < rank[r[i]]
    BY <1>2 DEF GInv, Ranked, Ranks
  <2>2. \A t \in GraphSteps : color[t] = "black"
    BY <1>1 DEF GInv, NothingLeft, Past
  <2>3. \A i \in 1..l : rank[s] < rank[r[i]]
    <3>. SUFFICES ASSUME NEW i \in 1..l PROVE rank[s] < rank[r[i]]
      OBVIOUS
    <3>1. l \in 1..l /\ l # 0 /\ r[l] \in GraphSteps /\ s \in dest[r[l]]
      BY <1>3, <1>4
    <3>2. rank[s] < rank[r[l]]
      BY <2>1, <2>2, <3>1
    <3>3. i < l => rank[r[l]] < rank[r[i]]
      BY <2>1, <3>1
    <3>. QED  BY <1>4, <3>1, <3>2, <3>3
  <2>4. \A i, j \in 1..(l + 1) : i < j => rank[ran'[j]] < rank[ran'[i]]
    <3>. SUFFICES ASSUME NEW i \in 1..(l + 1), NEW j \in 1..(l + 1), i < j PROVE rank[ran'[j]] < rank[ran'[i]]
      OBVIOUS
    <3>1. i \in 1..l /\ ran'[i] = r[i] /\ (j \in 1..l \/ j = l + 1)
      BY <1>4
    <3>2. CASE j \in 1..l
      BY <1>4, <2>1, <3>1, <3>2
    <3>3. CASE j = l + 1
      BY <1>4, <2>3, <3>1, <3>3
    <3>. QED  BY <3>1, <3>2, <3>3
  <2>5. Ranks(n, rank)'
    BY <1>1, <1>4, <2>1, <2>4 DEF Ranks
  <2>. QED  BY <2>5 DEF Ranked
<1>11. Walked'
  <2>1. \A i \in 1..l : r[i] \in Reachable /\ dominators[r[i]] \subseteq {r[j] : j \in 1..i}
    <3>1. \A i \in 1..Len(ran) : ran[i] \in Reachable /\ dominators[ran[i]] \subseteq {ran[j] : j \in 1..i}
      BY DEF GInv, Walked
    <3>. SUFFICES ASSUME NEW i \in 1..l
                  PROVE  r[i] \in Reachable /\ dominators[r[i]] \subseteq {r[j] : j \in 1..i}
      OBVIOUS
    <3>2. i \in 1..Len(ran) /\ r[i] = ran[i]
      BY <1>2
    <3>3. {r[j] : j \in 1..i} = {ran[j] : j \in 1..i}
      BY <1>2
    <3>. QED  BY <3>1, <3>2, <3>3
  <2>2. s \in Reachable
    BY <1>1, <1>3, <2>1, ReachableClosed
  <2>3. dominators[s] \subseteq {ran'[j] : j \in 1..(l + 1)}
    <3>1. s \in {ran'[j] : j \in 1..(l + 1)}
      BY <1>4
    <3>2. CASE s = Start
      BY <1>1, <3>1, <3>2 DEF GInv, Dominated, Past
    <3>3. CASE s # Start
      <4>1. l \in 1..l /\ s \in dest[r[l]] /\ r[l] \in GraphSteps
        BY <1>3, <1>4, <3>3
      <4>2. r[l] \in Predecessors(s) \cap Reachable
        BY <2>1, <4>1 DEF Predecessors
      <4>3. NewDom(s) = dominators[s]
        BY <1>1, <2>2, <3>3 DEF GInv, Fixed, Past
      <4>4. dominators[s] \subseteq dominators[r[l]] \cup {s}
        BY <4>2, <4>3 DEF NewDom
      <4>5. dominators[r[l]] \subseteq {r[j] : j \in 1..l}
        BY <2>1, <4>1
      <4>6. {r[j] : j \in 1..l} \subseteq {ran'[j] : j \in 1..(l + 1)}
        BY <1>4
      <4>. QED  BY <3>1, <4>4, <4>5, <4>6
    <3>. QED  BY <3>2, <3>3
  <2>4. \A i \in 1..l : dominators[ran'[i]] \subseteq {ran'[j] : j \in 1..i}
    <3>. SUFFICES ASSUME NEW i \in 1..l PROVE dominators[ran'[i]] \subseteq {ran'[j] : j \in 1..i}
      OBVIOUS
    <3>1. {r[j] : j \in 1..i} = {ran'[j] : j \in 1..i}
      BY <1>4
    <3>. QED  BY <1>4, <2>1, <3>1
  <2>5. \A i \in 1..(l + 1) : i \in 1..l \/ i = l + 1
    OBVIOUS
  <2>6. \A i \in 1..Len(ran') : ran'[i] \in Reachable /\ dominators[ran'[i]] \subseteq {ran'[j] : j \in 1..i}
    BY <1>4, <2>1, <2>2, <2>3, <2>4, <2>5
  <2>. QED  BY <1>1, <2>6 DEF Walked
<1>. QED  BY <1>5, <1>6, <1>7, <1>8, <1>9, <1>10, <1>11 DEF GInv

LEMMA EndStep == ASSUME GInv, End PROVE GInv'
<1>1. Nested' /\ Settled' /\ Ranked'
  BY ColorsStay DEF End
<1>2. /\ GraphTypeOK /\ Reachable' = Reachable /\ phase = "accepted" /\ phase' = "ended"
      /\ UNCHANGED <<dest, ref, color, visiting, dominators, ran>>
  BY PathsStay DEF GInv, End
<1>3. GraphTypeOK' /\ NothingLeft' /\ Walked' /\ Accepted'
  BY <1>2 DEF GraphTypeOK, Phases, GInv, NothingLeft, Past, Walked, Accepted, Accepts
<1>4. Dominated'
  BY <1>2, PathsStay, ReachableClosed DEF GInv, Dominated, Past
<1>5. Fixed'
  BY <1>2, NewDomStays DEF GInv, Fixed, Past
<1>. QED  BY <1>1, <1>3, <1>4, <1>5 DEF GInv

LEMMA GraphStep == ASSUME GInv, [GraphNext]_graphVars PROVE GInv'
<1>1. CASE Validation
  BY <1>1, VisitStep, FindCycleStep, LeaveStepStep, BeginDominatorsStep, FixedPointStep DEF Validation
<1>2. CASE \E s \in GraphSteps : Refine(s) \/ Enter(s)
  BY <1>2, RefineStep, EnterStep
<1>3. CASE \E s, t \in GraphSteps : ValidateReference(s, t)
  BY <1>3, ValidateReferenceStep
<1>4. CASE End
  BY <1>4, EndStep
<1>5. CASE UNCHANGED graphVars
  <2>1. UNCHANGED <<dest, ref, color, visiting, dominators, phase, ran>>
    BY <1>5 DEF graphVars
  <2>2. Nested' /\ Settled' /\ Ranked'
    BY <2>1, ColorsStay
  <2>3. GraphTypeOK /\ Reachable' = Reachable
    BY <2>1, PathsStay DEF GInv
  <2>4. GraphTypeOK' /\ NothingLeft' /\ Walked' /\ Accepted'
    BY <2>1, <2>3 DEF GraphTypeOK, GInv, NothingLeft, Walked, Accepted, Accepts
  <2>5. Dominated'
    BY <2>1, <2>3, PathsStay, ReachableClosed DEF GInv, Dominated
  <2>6. Fixed'
    BY <2>1, <2>3, NewDomStays DEF GInv, Fixed
  <2>. QED  BY <2>2, <2>4, <2>5, <2>6 DEF GInv
<1>. QED  BY <1>1, <1>2, <1>3, <1>4, <1>5 DEF GraphNext

LEMMA GraphStart == ASSUME GraphInit PROVE GInv
<1>1. /\ visiting \in Seq(GraphSteps) /\ Len(visiting) = 0 /\ ran \in Seq(GraphSteps) /\ Len(ran) = 0
      /\ \A s \in GraphSteps : color[s] = "white"
  BY DEF GraphInit
<1>2. GraphTypeOK
  BY <1>1, GraphAssumption DEF GraphInit, GraphTypeOK, Colors, Phases
<1>3. Nested /\ Settled
  BY <1>1 DEF Nested, Settled
<1>4. Ranked
  <2>1. PICK rank \in [GraphSteps -> Nat] : rank = [s \in GraphSteps |-> 0]
    OBVIOUS
  <2>2. Ranks(0, rank)
    BY <1>1 DEF Ranks
  <2>. QED  BY <2>2 DEF Ranked
<1>5. NothingLeft /\ Dominated /\ Fixed /\ Walked /\ Accepted
  BY <1>1 DEF GraphInit, NothingLeft, Dominated, Fixed, Walked, Accepted, Past
<1>. QED  BY <1>2, <1>3, <1>4, <1>5 DEF GInv

LEMMA SoundGraphs == ASSUME GInv PROVE GraphsAreSound
<1>1. GraphTypeOK
  BY DEF GInv
<1>2. DominatorsExact
  <2>. SUFFICES ASSUME phase \in {"references", "accepted"}, NEW s \in Reachable
                PROVE  dominators[s] = {d \in GraphSteps : ~PathAvoids(d, s)}
    BY DEF DominatorsExact
  <2>1. /\ dominators[Start] = {Start} /\ \A t \in Reachable : Dom(t) \subseteq dominators[t]
        /\ \A t \in Reachable \ {Start} : NewDom(t) = dominators[t]
    BY DEF GInv, Dominated, Fixed, Past
  <2>. QED  BY <1>1, <2>1, ExactWhenFixed DEF Dom
<1>3. NoStepTwice
  <2>1. PICK rank \in [GraphSteps -> Nat] :
           \A i, j \in 1..Len(ran) : i < j => rank[ran[j]] < rank[ran[i]]
    BY DEF GInv, Ranked, Ranks
  <2>2. Len(ran) \in Nat /\ \A i \in 1..Len(ran) : ran[i] \in GraphSteps /\ rank[ran[i]] \in Nat
    BY <1>1, <2>1 DEF GraphTypeOK
  <2>. SUFFICES ASSUME NEW i \in 1..Len(ran), NEW j \in 1..Len(ran), ran[i] = ran[j] PROVE i = j
    BY DEF NoStepTwice
  <2>3. ~(i < j) /\ ~(j < i)
    BY <2>1, <2>2
  <2>. QED  BY <2>2, <2>3
<1>4. OutputHasRun
  <2>. SUFFICES ASSUME NEW i \in 1..Len(ran), ran[i] = ref[1]
                PROVE  \E j \in 1..(i - 1) : ran[j] = ref[2]
    BY DEF OutputHasRun
  <2>1. Len(ran) \in Nat /\ ran # <<>>
    BY <1>1 DEF GraphTypeOK
  <2>2. Accepts(ref[1], ref[2])
    BY <2>1 DEF GInv, Walked, Accepted
  <2>3. PICK j \in 1..i : ran[j] = ref[2] /\ ref[2] # ref[1]
    BY <2>2 DEF Accepts, GInv, Walked
  <2>. QED  BY <2>1, <2>3
<1>. QED  BY <1>1, <1>2, <1>3, <1>4 DEF GraphsAreSound

\* Whatever graph the validator accepts, with any number of steps and
\* whatever order the refinement takes: its dominators are exact, a run of it
\* meets no step twice, and an output that a step refers to has been produced
\* on every path (dsl.py).
THEOREM GraphsAreSoundHolds == GraphSpec => []GraphsAreSound
BY GraphStart, GraphStep, SoundGraphs, PTL DEF GraphSpec
-----------------------------------------------------------------------------
(***************************************************************************)
(* Dispatch.  A thread is never more than one level deep: nothing is       *)
(* published to another workflow from inside a loop.  The run a thread is  *)
(* in is pending and its own, or went with its workflow.                   *)
(***************************************************************************)
Owns(t, w, k) ==
    /\ Len(stack[t]) = 1 /\ stack[t][1].at # "loop"
    /\ stack[t][1].w = w /\ stack[t][1].key = k

DTyped ==
    /\ status \in [Workflows -> {"new", "active", "paused", "deleted"}]
    /\ run \in [Workflows -> [Keys -> RunStatuses \cup {"none"}]]
    /\ created \in [Workflows -> [Keys -> Instants]]
    /\ clock \in Instants
    /\ stack \in [Threads -> Seq(Loop)] /\ \A t \in Threads : Len(stack[t]) <= 1
    /\ effects \in [Workflows -> [Keys -> Nat]]
    /\ lost \subseteq Workflows \X Keys

\* An instant that is not too near a run recorded before it.
Apart(k, w) == \A j \in Ran(w) : k - created[w][j] >= Interval \/ k <= created[w][j]

LoopSound(f) ==
    /\ f.key # Raised /\ (f.key \in Instants => f.key <= clock)
    /\ f.todo \subseteq f.all /\ \A w \in f.all : status[w] # "new"
    /\ f.key \in Events => \A w \in f.all \ f.todo : run[w][f.key] # "none" \/ ~Exists(w)
    /\ f.key \in Instants => \A w \in f.todo : Apart(f.key, w)

RunSound(f) ==
    /\ \/ run[f.w][f.key] = "pending" /\ status[f.w] # "new"
       \/ run[f.w][f.key] = "none" /\ status[f.w] = "deleted"
    /\ f.at = "acting" => effects[f.w][f.key] = 0
    /\ f.at \in {"publishing", "success"} => effects[f.w][f.key] = 1

LoopHolds(t) ==
    Len(stack[t]) = 1 => LoopSound(stack[t][1]) /\ (stack[t][1].at # "loop" => RunSound(stack[t][1]))

RowHolds(w, k) ==
    /\ effects[w][k] <= 1
    /\ run[w][k] = "none" => status[w] = "deleted" \/ effects[w][k] = 0
    /\ run[w][k] = "success" => effects[w][k] = 1
    /\ run[w][k] = "skipped" => effects[w][k] = 0
    /\ k = Raised => run[w][k] = "none" /\ effects[w][k] = 0
    /\ run[w][k] = "pending" => <<w, k>> \in lost \/ \E t \in Threads : Owns(t, w, k)
    /\ k \in Instants /\ run[w][k] # "none" => k <= clock

Alone ==
    \A t, u \in Threads : \A w \in Workflows, k \in Keys : Owns(t, w, k) /\ Owns(u, w, k) => t = u

DInv ==
    /\ DTyped /\ Alone /\ ScheduledApart
    /\ \A t \in Threads : LoopHolds(t)
    /\ \A w \in Workflows, k \in Keys : RowHolds(w, k)

-----------------------------------------------------------------------------
(***************************************************************************)
(* The move of a thread leaves the others' loops alone.                    *)
(***************************************************************************)
NowIn(t, g) ==
    /\ stack' \in [Threads -> Seq(Loop)] /\ \A u \in Threads : Len(stack'[u]) <= 1
    /\ Len(stack'[t]) = 1 /\ stack'[t][1] = g
    /\ \A u \in Threads \ {t} : stack'[u] = stack[u]

NowOut(t) ==
    /\ stack' \in [Threads -> Seq(Loop)] /\ \A u \in Threads : Len(stack'[u]) <= 1
    /\ Len(stack'[t]) = 0
    /\ \A u \in Threads \ {t} : stack'[u] = stack[u]

LEMMA StacksTyped ==
    ASSUME DInv
    PROVE  stack \in [Threads -> Seq(Loop)] /\ \A t \in Threads : Len(stack[t]) <= 1
BY DEF DInv, DTyped

LEMMA OneLoop ==
    ASSUME DInv, NEW t \in Threads
    PROVE  /\ stack[t] \in Seq(Loop) /\ Len(stack[t]) \in {0, 1} /\ Depth(t) = Len(stack[t])
           /\ Len(stack[t]) = 1 => Inner(t) = stack[t][1] /\ stack[t][1] \in Loop
           /\ Depth(t) > 0 <=> Len(stack[t]) = 1
<1>1. PICK s \in Seq(Loop) : s = stack[t] /\ Len(s) <= 1
  BY StacksTyped
<1>2. Len(s) \in {0, 1} /\ (Len(s) = 1 => s[1] \in Loop) /\ (Len(s) > 0 <=> Len(s) = 1)
  <2>1. PICK n \in Nat : n = Len(s) /\ n <= 1
    BY <1>1
  <2>2. \A i \in 1..n : s[i] \in Loop
    BY <2>1
  <2>3. n \in {0, 1} /\ (n > 0 <=> n = 1) /\ (n = 1 => 1 \in 1..n)
    BY <2>1
  <2>. QED  BY <2>1, <2>2, <2>3
<1>3. Depth(t) = Len(s) /\ Inner(t) = s[Len(s)]
  BY <1>1 DEF Depth, Inner
<1>. QED  BY <1>1, <1>2, <1>3

LEMMA LoopFields ==
    \A f \in Loop :
        /\ f.key \in Keys /\ f.all \subseteq Workflows /\ f.todo \subseteq Workflows /\ f.w \in Workflows
        /\ f.at \in {"loop", "acting", "publishing", "success", "failed"}
BY DEF Loop

\* One thread's stack is written.
LEMMA StackWritten ==
    ASSUME DInv, NEW t \in Threads, NEW z \in Seq(Loop), Len(z) <= 1, stack' = [stack EXCEPT ![t] = z]
    PROVE  /\ stack' \in [Threads -> Seq(Loop)] /\ \A u \in Threads : Len(stack'[u]) <= 1
           /\ stack'[t] = z /\ \A u \in Threads \ {t} : stack'[u] = stack[u]
BY StacksTyped

LEMMA SetsInner ==
    ASSUME DInv, NEW t \in Threads, Depth(t) > 0, NEW g \in Loop, SetInner(t, g) PROVE NowIn(t, g)
<1>1. PICK s \in Seq(Loop) : s = stack[t] /\ Len(s) = 1
  BY OneLoop
<1>2. stack' = [stack EXCEPT ![t][1] = g]
  BY <1>1 DEF SetInner, Depth
<1>3. PICK z : z = [s EXCEPT ![1] = g]
  OBVIOUS
<1>4. z \in Seq(Loop) /\ Len(z) = 1 /\ z[1] = g
  BY <1>1, <1>3
<1>5. stack' = [stack EXCEPT ![t] = z]
  BY <1>1, <1>2, <1>3, StacksTyped
<1>6. Len(z) <= 1
  BY <1>4
<1>7. /\ stack' \in [Threads -> Seq(Loop)] /\ \A u \in Threads : Len(stack'[u]) <= 1
      /\ stack'[t] = z /\ \A u \in Threads \ {t} : stack'[u] = stack[u]
  BY <1>4, <1>5, <1>6, StackWritten
<1>. QED  BY <1>4, <1>7 DEF NowIn

LEMMA Pushes ==
    ASSUME DInv, NEW t \in Threads, Depth(t) = 0, NEW g \in Loop, stack' = Pushed(t, g) PROVE NowIn(t, g)
<1>1. PICK s \in Seq(Loop) : s = stack[t] /\ Len(s) = 0
  BY OneLoop
<1>2. PICK z : z = Append(s, g)
  OBVIOUS
<1>3. z \in Seq(Loop) /\ Len(z) = 1 /\ z[1] = g
  BY <1>1, <1>2
<1>4. stack' = [stack EXCEPT ![t] = z]
  BY <1>1, <1>2 DEF Pushed
<1>5. Len(z) <= 1
  BY <1>3
<1>6. /\ stack' \in [Threads -> Seq(Loop)] /\ \A u \in Threads : Len(stack'[u]) <= 1
      /\ stack'[t] = z /\ \A u \in Threads \ {t} : stack'[u] = stack[u]
  BY <1>3, <1>4, <1>5, StackWritten
<1>. QED  BY <1>3, <1>6 DEF NowIn

LEMMA Pops ==
    ASSUME DInv, NEW t \in Threads, Depth(t) > 0, stack' = Popped(t) \/ stack' = [stack EXCEPT ![t] = <<>>]
    PROVE  NowOut(t)
<1>1. PICK s \in Seq(Loop) : s = stack[t] /\ Len(s) = 1
  BY OneLoop
<1>2. PICK z : z = SubSeq(s, 1, Len(s) - 1) /\ z \in Seq(Loop) /\ Len(z) = 0
  <2>. WITNESS SubSeq(s, 1, Len(s) - 1)
  <2>. QED  BY <1>1
<1>3. PICK y : y = <<>> /\ y \in Seq(Loop) /\ Len(y) = 0
  <2>. WITNESS <<>>
  <2>. QED  OBVIOUS
<1>4. stack' = [stack EXCEPT ![t] = z] \/ stack' = [stack EXCEPT ![t] = y]
  BY <1>1, <1>2, <1>3 DEF Popped
<1>. QED  BY <1>2, <1>3, <1>4, StackWritten DEF NowOut

\* What no step undoes.
Onwards ==
    /\ clock \in Int /\ clock' \in Int /\ clock <= clock'
    /\ \A w \in Workflows : status[w] # "new" => status'[w] # "new" /\ (~Exists(w) => ~Exists(w)')
    /\ \A w \in Workflows : status[w] = "deleted" => status'[w] = "deleted"
    /\ \A w \in Workflows, k \in Keys : run[w][k] # "none" => run'[w][k] # "none" \/ status'[w] = "deleted"
    /\ \A w \in Workflows, j \in Keys : run'[w][j] # "none" =>
           \/ run[w][j] # "none" /\ created'[w][j] = created[w][j]
           \/ created'[w][j] = clock

\* The row of a run is written by the thread that owns it alone.
RowLeft(w, k) ==
    /\ run'[w][k] = run[w][k] \/ (run'[w][k] = "none" /\ status'[w] = "deleted")
    /\ effects'[w][k] = effects[w][k]

LEMMA ApartKept ==
    ASSUME DInv, Onwards, NEW w \in Workflows, NEW k \in Instants, k <= clock, Apart(k, w) PROVE Apart(k, w)'
<1>. SUFFICES ASSUME NEW j \in Keys, run'[w][j] # "none"
              PROVE  k - created'[w][j] >= Interval \/ k <= created'[w][j]
  BY DEF Apart, Ran
<1>. QED  BY DEF Onwards, Apart, Ran

LEMMA LoopSoundKept ==
    ASSUME DInv, Onwards, NEW f \in Loop, LoopSound(f) PROVE LoopSound(f)'
<1>1. f.key \in Keys /\ f.all \subseteq Workflows /\ f.todo \subseteq Workflows
  BY LoopFields
<1>2. f.key # Raised /\ (f.key \in Instants => f.key <= clock')
  BY DEF LoopSound, Onwards, Instants
<1>3. f.todo \subseteq f.all /\ \A w \in f.all : status'[w] # "new"
  BY <1>1 DEF LoopSound, Onwards
<1>4. ASSUME f.key \in Events, NEW w \in f.all \ f.todo PROVE run'[w][f.key] # "none" \/ ~Exists(w)'
  <2>1. w \in Workflows /\ status[w] # "new" /\ (run[w][f.key] # "none" \/ ~Exists(w))
    BY <1>1, <1>4 DEF LoopSound
  <2>2. status'[w] = "deleted" => ~Exists(w)'
    BY DEF Exists
  <2>. QED  BY <1>1, <2>1, <2>2 DEF Onwards
<1>5. ASSUME f.key \in Instants, NEW w \in f.todo PROVE Apart(f.key, w)'
  <2>1. PICK k \in Instants : k = f.key /\ k <= clock /\ Apart(k, w)
    BY <1>5 DEF LoopSound
  <2>2. Apart(k, w)'
    BY <1>1, <2>1, ApartKept
  <2>. QED  BY <2>1, <2>2 DEF Apart
<1>. QED  BY <1>2, <1>3, <1>4, <1>5 DEF LoopSound

LEMMA LoopKept ==
    ASSUME DInv, Onwards, NEW u \in Threads, stack'[u] = stack[u],
           \A w \in Workflows, k \in Keys : Owns(u, w, k) => RowLeft(w, k)
    PROVE  LoopHolds(u)'
<1>. SUFFICES ASSUME Len(stack[u]) = 1
              PROVE  LoopSound(stack[u][1])' /\ (stack[u][1].at # "loop" => RunSound(stack[u][1])')
  BY DEF LoopHolds
<1>1. PICK f \in Loop : f = stack[u][1] /\ f = stack'[u][1]
  BY OneLoop
<1>2. LoopSound(f) /\ (f.at # "loop" => RunSound(f))
  BY <1>1 DEF DInv, LoopHolds
<1>3. LoopSound(f)'
  BY <1>2, LoopSoundKept
<1>4. ASSUME f.at # "loop" PROVE RunSound(f)'
  <2>1. f.w \in Workflows /\ f.key \in Keys /\ Owns(u, f.w, f.key)
    BY <1>1, <1>4, LoopFields DEF Owns
  <2>2. RowLeft(f.w, f.key)
    BY <2>1
  <2>. QED  BY <1>2, <1>4, <2>1, <2>2 DEF RunSound, RowLeft, Onwards
<1>5. LoopSound(stack[u][1])' /\ (stack[u][1].at # "loop" => RunSound(stack[u][1])')
  BY <1>1, <1>3, <1>4 DEF LoopSound, RunSound, Apart, Exists
<1>. QED  BY <1>5

LEMMA OwnsAlike ==
    ASSUME NEW u, stack'[u] = stack[u] PROVE \A w \in Workflows, k \in Keys : Owns(u, w, k)' <=> Owns(u, w, k)
BY DEF Owns

LEMMA RunRowKept ==
    ASSUME DInv, Onwards, NEW w \in Workflows, NEW k \in Keys, RowLeft(w, k), lost \subseteq lost',
           \A t \in Threads : Owns(t, w, k) =>
               Owns(t, w, k)' \/ <<w, k>> \in lost' \/ run'[w][k] # "pending"
    PROVE  RowHolds(w, k)'
<1>1. RowHolds(w, k) /\ (k \in Instants => k \in Int)
  BY DispatchAssumption DEF DInv, Instants
<1>2. run'[w][k] = "pending" => <<w, k>> \in lost' \/ \E t \in Threads : Owns(t, w, k)'
  BY <1>1 DEF RowHolds, RowLeft
<1>3. effects'[w][k] = effects[w][k] /\ (status[w] = "deleted" => status'[w] = "deleted")
  BY DEF RowLeft, Onwards
<1>4. k \in Instants /\ run'[w][k] # "none" => k <= clock'
  BY <1>1 DEF RowHolds, RowLeft, Onwards
<1>5. \/ run'[w][k] = run[w][k]
      \/ run'[w][k] = "none" /\ status'[w] = "deleted"
  BY DEF RowLeft
<1>6. CASE run'[w][k] = run[w][k]
  BY <1>1, <1>2, <1>3, <1>4, <1>6 DEF RowHolds
<1>7. CASE run'[w][k] = "none" /\ status'[w] = "deleted"
  BY <1>1, <1>3, <1>7 DEF RowHolds
<1>. QED  BY <1>5, <1>6, <1>7

LEMMA ScheduledKept ==
    ASSUME DInv,
           \A w \in Workflows, j \in Keys : run'[w][j] # "none" =>
               run[w][j] # "none" /\ created'[w][j] = created[w][j]
    PROVE  ScheduledApart'
BY DEF DInv, ScheduledApart, Ran

\* A step in which no thread moves.
LEMMA NoThreadMoves ==
    ASSUME DInv, DTyped', Onwards, stack' = stack, lost' = lost, ScheduledApart',
           \A w \in Workflows, k \in Keys : RowLeft(w, k)
    PROVE  DInv'
<1>1. \A u \in Threads : \A w \in Workflows, k \in Keys : Owns(u, w, k)' <=> Owns(u, w, k)
  BY OwnsAlike
<1>2. Alone'
  BY <1>1 DEF DInv, Alone
<1>3. \A u \in Threads : LoopHolds(u)'
  BY LoopKept
<1>4. \A w \in Workflows, k \in Keys : RowHolds(w, k)'
  BY <1>1, RunRowKept
<1>. QED  BY <1>2, <1>3, <1>4 DEF DInv

LEMMA OneThreadMoves ==
    ASSUME DInv, DTyped', Onwards, lost \subseteq lost', ScheduledApart',
           NEW t \in Threads, \A u \in Threads \ {t} : stack'[u] = stack[u], LoopHolds(t)',
           \A w \in Workflows, k \in Keys :
               \/ RowLeft(w, k)
               \/ RowHolds(w, k)' /\ \A u \in Threads \ {t} : ~Owns(u, w, k),
           \A w \in Workflows, k \in Keys : Owns(t, w, k) =>
               Owns(t, w, k)' \/ <<w, k>> \in lost' \/ run'[w][k] # "pending",
           \A w \in Workflows, k \in Keys : Owns(t, w, k)' => \A u \in Threads \ {t} : ~Owns(u, w, k)
    PROVE  DInv'
<1>1. \A u \in Threads \ {t} : \A w \in Workflows, k \in Keys : Owns(u, w, k)' <=> Owns(u, w, k)
  BY OwnsAlike
<1>2. Alone'
  <2>. SUFFICES ASSUME NEW a \in Threads, NEW b \in Threads, NEW w \in Workflows, NEW k \in Keys,
                       Owns(a, w, k)', Owns(b, w, k)', a # b
                PROVE  FALSE
    BY DEF Alone
  <2>1. CASE a # t /\ b # t
    BY <1>1, <2>1 DEF DInv, Alone
  <2>2. CASE a = t
    BY <1>1, <2>2
  <2>3. CASE b = t
    BY <1>1, <2>3
  <2>. QED  BY <2>1, <2>2, <2>3
<1>3. ASSUME NEW u \in Threads \ {t} PROVE LoopHolds(u)'
  <2>1. \A w \in Workflows, k \in Keys : Owns(u, w, k) => RowLeft(w, k)
    OBVIOUS
  <2>. QED  BY <2>1, LoopKept
<1>4. ASSUME NEW w \in Workflows, NEW k \in Keys PROVE RowHolds(w, k)'
  <2>1. CASE RowLeft(w, k)
    <3>1. \A u \in Threads : Owns(u, w, k) => Owns(u, w, k)' \/ <<w, k>> \in lost' \/ run'[w][k] # "pending"
      BY <1>1
    <3>. QED  BY <2>1, <3>1, RunRowKept
  <2>. QED  BY <2>1
<1>. QED  BY <1>2, <1>3, <1>4 DEF DInv

\* Nothing is written but stacks, and the list of the lost.
LEMMA RowsStay ==
    ASSUME DInv, UNCHANGED <<status, run, created, clock, effects>>
    PROVE  /\ Onwards /\ ScheduledApart' /\ \A w \in Workflows, k \in Keys : RowLeft(w, k)
           /\ \A f \in Loop : LoopSound(f) => LoopSound(f)'
           /\ \A f \in Loop : RunSound(f) => RunSound(f)'
           /\ stack' \in [Threads -> Seq(Loop)] /\ (\A u \in Threads : Len(stack'[u]) <= 1)
              /\ lost' \subseteq Workflows \X Keys => DTyped'
<1>1. clock \in Int
  BY DispatchAssumption DEF DInv, DTyped, Instants
<1>2. Onwards
  BY <1>1 DEF Onwards, Exists
<1>3. ScheduledApart'
  BY ScheduledKept
<1>4. \A w \in Workflows, k \in Keys : RowLeft(w, k)
  BY DEF RowLeft
<1>5. \A f \in Loop : LoopSound(f) => LoopSound(f)'
  BY <1>2, LoopSoundKept
<1>6. \A f \in Loop : RunSound(f) => RunSound(f)'
  BY DEF RunSound
<1>7. stack' \in [Threads -> Seq(Loop)] /\ (\A u \in Threads : Len(stack'[u]) <= 1)
      /\ lost' \subseteq Workflows \X Keys => DTyped'
  BY DEF DInv, DTyped
<1>. QED  BY <1>2, <1>3, <1>4, <1>5, <1>6, <1>7

\* A thread's loop changes and no row does.
LEMMA LoopMoves ==
    ASSUME DInv, UNCHANGED <<status, run, created, clock, effects, lost>>,
           NEW t \in Threads, NEW g \in Loop, NowIn(t, g), LoopSound(g),
           \/ g.at = "loop" /\ \A w \in Workflows, k \in Keys : Owns(t, w, k) => run[w][k] # "pending"
           \/ RunSound(g) /\ Owns(t, g.w, g.key) /\ g.at # "loop"
    PROVE  DInv'
<1>1. /\ Onwards /\ ScheduledApart' /\ \A w \in Workflows, k \in Keys : RowLeft(w, k)
      /\ LoopSound(g)' /\ (RunSound(g) => RunSound(g)')
  BY RowsStay
<1>2. DTyped'
  <2>1. lost' \subseteq Workflows \X Keys
    BY DEF DInv, DTyped
  <2>. QED  BY <2>1, RowsStay DEF NowIn
<1>3. stack'[t][1] = g /\ Len(stack'[t]) = 1
  BY DEF NowIn
<1>4. LoopHolds(t)'
  BY <1>1, <1>3 DEF LoopHolds, LoopSound, RunSound, Apart, Exists
<1>5. \A w \in Workflows, k \in Keys : Owns(t, w, k)' <=> g.at # "loop" /\ g.w = w /\ g.key = k
  BY <1>3 DEF Owns
<1>6. \A w \in Workflows, k \in Keys : Owns(t, w, k) => Owns(t, w, k)' \/ run'[w][k] # "pending"
  BY <1>5 DEF Owns
<1>7. \A w \in Workflows, k \in Keys : Owns(t, w, k)' => Owns(t, w, k)
  BY <1>5 DEF Owns
<1>8. \A w \in Workflows, k \in Keys : Owns(t, w, k)' => \A u \in Threads \ {t} : ~Owns(u, w, k)
  BY <1>7 DEF DInv, Alone
<1>9. \A u \in Threads \ {t} : stack'[u] = stack[u]
  BY DEF NowIn
<1>. QED  BY <1>1, <1>2, <1>4, <1>6, <1>8, <1>9, OneThreadMoves

LEMMA LoopEnds ==
    ASSUME DInv, UNCHANGED <<status, run, created, clock, effects>>, NEW t \in Threads, NowOut(t),
           lost \subseteq lost', lost' \subseteq Workflows \X Keys,
           \A w \in Workflows, k \in Keys : Owns(t, w, k) => <<w, k>> \in lost' \/ run[w][k] # "pending"
    PROVE  DInv'
<1>1. /\ Onwards /\ ScheduledApart' /\ \A w \in Workflows, k \in Keys : RowLeft(w, k)
  BY RowsStay
<1>2. DTyped'
  BY RowsStay DEF NowOut
<1>3. Len(stack'[t]) = 0 /\ \A u \in Threads \ {t} : stack'[u] = stack[u]
  BY DEF NowOut
<1>4. LoopHolds(t)' /\ \A w \in Workflows, k \in Keys : ~(Owns(t, w, k)')
  BY <1>3 DEF LoopHolds, Owns
<1>. QED  BY <1>1, <1>2, <1>3, <1>4, OneThreadMoves

\* What a thread that is in the innermost loop holds.
LEMMA HeldLoop ==
    ASSUME DInv, NEW t \in Threads, Depth(t) > 0
    PROVE  /\ Inner(t) \in Loop /\ Inner(t) = stack[t][1] /\ Len(stack[t]) = 1 /\ Depth(t) = 1
           /\ LoopSound(Inner(t)) /\ (Inner(t).at # "loop" => RunSound(Inner(t)))
           /\ \A w \in Workflows, k \in Keys :
                  Owns(t, w, k) <=> Inner(t).at # "loop" /\ Inner(t).w = w /\ Inner(t).key = k
<1>1. Inner(t) \in Loop /\ Inner(t) = stack[t][1] /\ Len(stack[t]) = 1 /\ Depth(t) = 1
  BY OneLoop
<1>2. LoopHolds(t)
  BY DEF DInv
<1>. QED  BY <1>1, <1>2 DEF LoopHolds, Owns

-----------------------------------------------------------------------------
(***************************************************************************)
(* The steps of the dispatcher.                                            *)
(***************************************************************************)
LEMMA CreateWorkflowStep == ASSUME DInv, NEW w \in Workflows, CreateWorkflow(w) PROVE DInv'
<1>1. /\ status[w] = "new" /\ status' = [status EXCEPT ![w] = "active"]
      /\ UNCHANGED <<run, created, clock, stack, effects, lost>>
  BY DEF CreateWorkflow
<1>2. DTyped' /\ clock \in Int
  BY <1>1, DispatchAssumption DEF DInv, DTyped, Instants
<1>3. \A v \in Workflows : status'[v] = IF v = w THEN "active" ELSE status[v]
  BY <1>1 DEF DInv, DTyped
<1>4. Onwards
  BY <1>1, <1>2, <1>3 DEF Onwards, Exists
<1>5. ScheduledApart' /\ \A v \in Workflows, k \in Keys : RowLeft(v, k)
  BY <1>1, ScheduledKept DEF RowLeft
<1>. QED  BY <1>1, <1>2, <1>4, <1>5, NoThreadMoves

LEMMA SetWorkflowStatusStep == ASSUME DInv, NEW w \in Workflows, SetWorkflowStatus(w) PROVE DInv'
<1>1. PICK s \in {"active", "paused"} : status' = [status EXCEPT ![w] = s]
  BY DEF SetWorkflowStatus
<1>2. Exists(w) /\ UNCHANGED <<run, created, clock, stack, effects, lost>>
  BY DEF SetWorkflowStatus
<1>3. DTyped' /\ clock \in Int
  BY <1>1, <1>2, DispatchAssumption DEF DInv, DTyped, Instants
<1>4. \A v \in Workflows : status'[v] = IF v = w THEN s ELSE status[v]
  BY <1>1 DEF DInv, DTyped
<1>5. Onwards
  BY <1>2, <1>3, <1>4 DEF Onwards, Exists
<1>6. ScheduledApart' /\ \A v \in Workflows, k \in Keys : RowLeft(v, k)
  BY <1>2, ScheduledKept DEF RowLeft
<1>. QED  BY <1>2, <1>3, <1>5, <1>6, NoThreadMoves

LEMMA DeleteWorkflowStep == ASSUME DInv, NEW w \in Workflows, DeleteWorkflow(w) PROVE DInv'
<1>1. PICK none \in [Keys -> RunStatuses \cup {"none"}] : none = [k \in Keys |-> "none"]
  OBVIOUS
<1>2. /\ status' = [status EXCEPT ![w] = "deleted"] /\ run' = [run EXCEPT ![w] = none]
      /\ Exists(w) /\ UNCHANGED <<created, clock, stack, effects, lost>>
  BY <1>1 DEF DeleteWorkflow
<1>3. DTyped' /\ clock \in Int
  BY <1>2, DispatchAssumption DEF DInv, DTyped, Instants
<1>4. \A v \in Workflows : /\ status'[v] = IF v = w THEN "deleted" ELSE status[v]
                           /\ v # w => run'[v] = run[v]
                           /\ v = w => \A k \in Keys : run'[v][k] = "none"
  BY <1>1, <1>2 DEF DInv, DTyped
<1>5. Onwards
  BY <1>2, <1>3, <1>4 DEF Onwards, Exists
<1>6. ScheduledApart' /\ \A v \in Workflows, k \in Keys : RowLeft(v, k)
  BY <1>2, <1>4, ScheduledKept DEF RowLeft
<1>. QED  BY <1>2, <1>3, <1>5, <1>6, NoThreadMoves

LEMMA TickStep == ASSUME DInv, Tick PROVE DInv'
<1>1. /\ clock < MaxTime /\ clock' = clock + 1 /\ UNCHANGED <<status, run, created, stack, effects, lost>>
  BY DEF Tick
<1>2. DTyped' /\ clock \in Int
  BY <1>1, DispatchAssumption DEF DInv, DTyped, Instants
<1>3. Onwards
  BY <1>1, <1>2 DEF Onwards, Exists
<1>4. ScheduledApart' /\ \A v \in Workflows, k \in Keys : RowLeft(v, k)
  BY <1>1, ScheduledKept DEF RowLeft
<1>. QED  BY <1>1, <1>2, <1>3, <1>4, NoThreadMoves

LEMMA NewLoopIs ==
    ASSUME NEW k \in Keys, NEW ws \in SUBSET Workflows
    PROVE  /\ NewLoop(k, ws) \in Loop /\ NewLoop(k, ws).key = k /\ NewLoop(k, ws).at = "loop"
           /\ NewLoop(k, ws).all = ws /\ NewLoop(k, ws).todo = ws
<1>1. (CHOOSE w \in Workflows : TRUE) \in Workflows
  BY DispatchAssumption
<1>. QED  BY <1>1 DEF NewLoop, Loop

\* A thread begins a loop over workflows that are active.
LEMMA LoopBegins ==
    ASSUME DInv, UNCHANGED <<status, run, created, clock, effects, lost>>, NEW t \in Threads, Depth(t) = 0,
           NEW k \in Keys, NEW ws \in SUBSET Workflows, stack' = Pushed(t, NewLoop(k, ws)),
           k # Raised, \A w \in ws : status[w] # "new",
           k \in Instants => k <= clock /\ \A w \in ws : Apart(k, w)
    PROVE  DInv'
<1>1. PICK g \in Loop : /\ g = NewLoop(k, ws)
                        /\ g.key = k /\ g.at = "loop" /\ g.all = ws /\ g.todo = ws
  BY NewLoopIs
<1>2. NowIn(t, g)
  BY <1>1, Pushes
<1>3. LoopSound(g)
  BY <1>1 DEF LoopSound
<1>4. \A w \in Workflows, j \in Keys : ~Owns(t, w, j)
  BY OneLoop DEF Owns
<1>. QED  BY <1>1, <1>2, <1>3, <1>4, LoopMoves

LEMMA HandleEventStep == ASSUME DInv, NEW t \in Threads, NEW e \in Events, HandleEvent(t, e) PROVE DInv'
<1>1. PICK ws : ws = MatchingActiveWorkflows(Type[e])
  OBVIOUS
<1>4. ws \in SUBSET Workflows /\ \A w \in ws : status[w] # "new"
  BY <1>1 DEF MatchingActiveWorkflows
<1>2. e \in Keys /\ e # Raised /\ e \notin Instants
  BY DispatchAssumption DEF Keys
<1>3. /\ Depth(t) = 0 /\ stack' = Pushed(t, NewLoop(e, ws))
      /\ UNCHANGED <<status, run, created, clock, effects, lost>>
  BY <1>1 DEF HandleEvent
<1>. QED  BY <1>2, <1>3, <1>4, LoopBegins

\* A set of instants that is not empty has a latest one.
LEMMA Latest == ASSUME NEW S \in SUBSET Instants, S # {} PROVE \E c \in S : \A d \in S : d <= c
<1>1. PICK R : R = {ss \in Nat \X Nat : ss[1] < ss[2]}
  OBVIOUS
<1>2. IsWellFoundedOn(R, Nat)
  BY <1>1, NatLessThanWellFounded DEF OpToRel
<1>3. PICK T : T = {MaxTime - c : c \in S}
  OBVIOUS
<1>4. \A c \in S : c \in Int /\ MaxTime - c \in Nat
  BY DispatchAssumption DEF Instants
<1>5. T \subseteq Nat /\ T # {}
  BY <1>3, <1>4
<1>6. PICK x \in T : \A y \in T : ~(<<y, x>> \in R)
  BY <1>2, <1>5, WFMin
<1>7. PICK c \in S : x = MaxTime - c
  BY <1>3
<1>8. ASSUME NEW d \in S PROVE d <= c
  <2>1. MaxTime - d \in T
    BY <1>3
  <2>2. ~(MaxTime - d < MaxTime - c)
    BY <1>1, <1>4, <1>6, <1>7, <2>1
  <2>. QED  BY <1>4, <2>2, DispatchAssumption
<1>. QED  BY <1>8

LEMMA DueIsApart == ASSUME DInv, NEW w \in Workflows, IsDue(w) PROVE Apart(clock, w)
<1>1. created \in [Workflows -> [Keys -> Instants]] /\ clock \in Int /\ \A c \in Instants : c \in Int
  BY DispatchAssumption DEF DInv, DTyped, Instants
<1>2. SUFFICES ASSUME NEW j \in Ran(w) PROVE clock - created[w][j] >= Interval
  BY DEF Apart
<1>3. PICK S : S = {created[w][k] : k \in Ran(w)}
  OBVIOUS
<1>7. Ran(w) \subseteq Keys
  BY DEF Ran
<1>8. S \in SUBSET Instants /\ created[w][j] \in S
  BY <1>1, <1>3, <1>7
<1>4. \E c \in S : \A d \in S : d <= c
  BY <1>8, Latest
<1>5. PICK l \in S : l = LastRun(w) /\ \A k \in Ran(w) : created[w][k] <= l
  BY <1>3, <1>4, <1>7 DEF LastRun
<1>6. clock - l >= Interval /\ created[w][j] <= l /\ l \in Int /\ created[w][j] \in Int /\ Interval \in Int
  BY <1>1, <1>5, <1>7, <1>8, DispatchAssumption DEF IsDue
<1>. QED  BY <1>1, <1>6

LEMMA SweepStep == ASSUME DInv, NEW t \in Threads, Sweep(t) PROVE DInv'
<1>1. PICK ws \in SUBSET Workflows : ws = {w \in MatchingActiveWorkflows(Scheduled) : IsDue(w)}
  BY DEF MatchingActiveWorkflows
<1>2. \A w \in ws : status[w] # "new" /\ Apart(clock, w)
  BY <1>1, DueIsApart DEF MatchingActiveWorkflows
<1>5. clock \in Instants
  BY DEF DInv, DTyped
<1>3. clock \in Keys /\ clock # Raised /\ clock <= clock
  <2>1. clock \in Keys /\ clock # Raised
    BY <1>5, DispatchAssumption DEF Keys
  <2>2. clock \in Int
    BY <1>5, DispatchAssumption DEF Instants
  <2>. QED  BY <2>1, <2>2
<1>4. /\ Depth(t) = 0 /\ stack' = Pushed(t, NewLoop(clock, ws))
      /\ UNCHANGED <<status, run, created, clock, effects, lost>>
  BY <1>1 DEF Sweep
<1>. QED  BY <1>2, <1>3, <1>4, LoopBegins

\* An action publishes to nobody: it is one level deep already.
LEMMA PublishFromActionStep == ASSUME DInv, NEW t \in Threads, PublishFromAction(t) PROVE DInv'
<1>1. Depth(t) > 0 /\ Inner(t).at = "publishing"
  BY DEF PublishFromAction, In
<1>2. PICK f \in Loop : f = Inner(t) /\ f.at = "publishing"
  BY <1>1, HeldLoop
<1>3. PICK g : g = [f EXCEPT !.at = "success"]
  OBVIOUS
<1>4. g \in Loop /\ g.at = "success" /\ g.key = f.key /\ g.w = f.w /\ g.all = f.all /\ g.todo = f.todo
  BY <1>3 DEF Loop
<1>5. stack[t][1] = f /\ Depth(t) = 1 /\ stack \in [Threads -> Seq(Loop)] /\ Len(stack[t]) = 1
  BY <1>1, <1>2, HeldLoop, StacksTyped
<1>6. stack' = [stack EXCEPT ![t][1].at = "success"] /\ UNCHANGED <<status, run, created, clock, effects, lost>>
  <2>1. ~DepthAllows(t)
    BY <1>5 DEF DepthAllows, MAX_AUTOMATION_DEPTH
  <2>. QED  BY <1>5, <2>1 DEF PublishFromAction
<1>7. SetInner(t, g)
  BY <1>3, <1>5, <1>6 DEF SetInner
<1>8. NowIn(t, g)
  BY <1>1, <1>4, <1>7, SetsInner
<1>9. LoopSound(f) /\ RunSound(f) /\ Owns(t, f.w, f.key)
  BY <1>1, <1>2, HeldLoop, LoopFields
<1>10. LoopSound(g) /\ RunSound(g) /\ Owns(t, g.w, g.key)
  BY <1>2, <1>4, <1>9 DEF LoopSound, RunSound
<1>. QED  BY <1>4, <1>6, <1>8, <1>10, LoopMoves

LEMMA FinalizeFailsStep == ASSUME DInv, NEW t \in Threads, FinalizeFails(t) PROVE DInv'
<1>1. Depth(t) > 0 /\ Inner(t).at = "success"
  BY DEF FinalizeFails, In
<1>2. PICK f \in Loop : f = Inner(t) /\ f.at = "success"
  BY <1>1, HeldLoop
<1>3. PICK g : g = [f EXCEPT !.at = "failed"]
  OBVIOUS
<1>4. g \in Loop /\ g.at = "failed" /\ g.key = f.key /\ g.w = f.w /\ g.all = f.all /\ g.todo = f.todo
  BY <1>3 DEF Loop
<1>5. SetInner(t, g) /\ UNCHANGED <<status, run, created, clock, effects, lost>>
  BY <1>2, <1>3 DEF FinalizeFails
<1>6. NowIn(t, g)
  BY <1>1, <1>4, <1>5, SetsInner
<1>7. LoopSound(f) /\ RunSound(f) /\ Owns(t, f.w, f.key)
  BY <1>1, <1>2, HeldLoop, LoopFields
<1>8. LoopSound(g) /\ RunSound(g) /\ Owns(t, g.w, g.key)
  BY <1>2, <1>4, <1>7 DEF LoopSound, RunSound
<1>. QED  BY <1>4, <1>5, <1>6, <1>8, LoopMoves

LEMMA EndLoopStep == ASSUME DInv, NEW t \in Threads, EndLoop(t) PROVE DInv'
<1>1. Depth(t) > 0 /\ Inner(t).at = "loop"
  BY DEF EndLoop, In
<1>2. NowOut(t) /\ UNCHANGED <<status, run, created, clock, effects, lost>>
  BY <1>1, Pops DEF EndLoop
<1>3. \A w \in Workflows, k \in Keys : ~Owns(t, w, k)
  BY <1>1, HeldLoop
<1>4. lost' \subseteq Workflows \X Keys /\ lost \subseteq lost'
  BY <1>2 DEF DInv, DTyped
<1>. QED  BY <1>2, <1>3, <1>4, LoopEnds

LEMMA DieStep == ASSUME DInv, NEW t \in Threads, Die(t) PROVE DInv'
<1>1. Depth(t) > 0 /\ stack' = [stack EXCEPT ![t] = <<>>] /\ UNCHANGED <<status, run, created, clock, effects>>
  BY DEF Die
<1>2. NowOut(t)
  BY <1>1, Pops
<1>3. PICK f \in Loop : f = stack[t][1] /\ f = Inner(t) /\ Depth(t) = 1
  BY <1>1, HeldLoop
<1>4. lost' = lost \cup {<<stack[t][i].w, stack[t][i].key>> : i \in 1..1}
  BY <1>3 DEF Die
<1>5. lost' = lost \cup {<<f.w, f.key>>}
  <2>1. 1..1 = {1}
    OBVIOUS
  <2>. QED  BY <1>3, <1>4, <2>1
<1>6. lost \subseteq lost' /\ lost' \subseteq Workflows \X Keys
  BY <1>5, LoopFields DEF DInv, DTyped
<1>7. \A w \in Workflows, k \in Keys : Owns(t, w, k) => <<w, k>> \in lost'
  BY <1>1, <1>3, <1>5, HeldLoop
<1>. QED  BY <1>1, <1>2, <1>6, <1>7, LoopEnds

\* The row of the run that a thread is in is written, or its effect counted.
LEMMA RunMoves ==
    ASSUME DInv, NEW t \in Threads, NEW f \in Loop, f = stack[t][1], Owns(t, f.w, f.key),
           NEW g \in Loop, NowIn(t, g), g.w = f.w, g.key = f.key, g.all = f.all, g.todo = f.todo,
           DTyped', Onwards, ScheduledApart', UNCHANGED lost,
           \A w \in Workflows, k \in Keys : w # f.w \/ k # f.key => RowLeft(w, k),
           RowHolds(f.w, f.key)',
           \/ g.at = "loop" /\ run'[f.w][f.key] # "pending"
           \/ g.at # "loop" /\ RunSound(g)'
    PROVE  DInv'
<1>1. Len(stack[t]) = 1 /\ f.at # "loop" /\ LoopSound(f)
  BY DEF Owns, DInv, LoopHolds
<1>2. LoopSound(f)'
  BY <1>1, LoopSoundKept
<1>3. LoopSound(g)'
  BY <1>2 DEF LoopSound
<1>4. stack'[t][1] = g /\ Len(stack'[t]) = 1 /\ \A u \in Threads \ {t} : stack'[u] = stack[u]
  BY DEF NowIn
<1>5. LoopHolds(t)'
  BY <1>3, <1>4 DEF LoopHolds, LoopSound, RunSound, Apart, Exists
<1>6. \A w \in Workflows, k \in Keys : Owns(t, w, k) <=> f.w = w /\ f.key = k
  BY <1>1 DEF Owns
<1>7. \A w \in Workflows, k \in Keys : Owns(t, w, k)' <=> g.at # "loop" /\ f.w = w /\ f.key = k
  BY <1>4 DEF Owns
<1>8. \A w \in Workflows, k \in Keys : Owns(t, w, k) => \A u \in Threads \ {t} : ~Owns(u, w, k)
  BY DEF DInv, Alone
<1>9. \A w \in Workflows, k \in Keys :
          \/ RowLeft(w, k)
          \/ RowHolds(w, k)' /\ \A u \in Threads \ {t} : ~Owns(u, w, k)
  BY <1>6, <1>8
<1>10. \A w \in Workflows, k \in Keys : Owns(t, w, k) => Owns(t, w, k)' \/ run'[w][k] # "pending"
  BY <1>6, <1>7
<1>11. \A w \in Workflows, k \in Keys : Owns(t, w, k)' => \A u \in Threads \ {t} : ~Owns(u, w, k)
  BY <1>6, <1>7, <1>8
<1>. QED  BY <1>4, <1>5, <1>9, <1>10, <1>11, OneThreadMoves

LEMMA ActStep == ASSUME DInv, NEW t \in Threads, Act(t) PROVE DInv'
<1>1. Depth(t) > 0 /\ Inner(t).at = "acting" /\ UNCHANGED <<status, run, created, clock, lost>>
  BY DEF Act, In
<1>2. PICK f \in Loop : f = Inner(t) /\ f = stack[t][1] /\ f.at = "acting"
  BY <1>1, HeldLoop
<1>3. f.w \in Workflows /\ f.key \in Keys /\ LoopSound(f) /\ RunSound(f) /\ Owns(t, f.w, f.key)
  BY <1>1, <1>2, HeldLoop, LoopFields
<1>4. PICK at \in {"publishing", "success", "failed"} :
         /\ SetInner(t, [f EXCEPT !.at = at])
         /\ \/ effects' = [effects EXCEPT ![f.w][f.key] = effects[f.w][f.key] + 1]
            \/ at = "failed" /\ effects' = effects
  BY <1>2 DEF Act
<1>5. PICK g : g = [f EXCEPT !.at = at]
  OBVIOUS
<1>6. g \in Loop /\ g.at = at /\ g.key = f.key /\ g.w = f.w /\ g.all = f.all /\ g.todo = f.todo
  BY <1>5 DEF Loop
<1>7. NowIn(t, g)
  BY <1>1, <1>4, <1>5, <1>6, SetsInner
<1>8. effects \in [Workflows -> [Keys -> Nat]] /\ effects[f.w][f.key] = 0
  BY <1>2, <1>3 DEF DInv, DTyped, RunSound
<1>9. /\ effects' \in [Workflows -> [Keys -> Nat]]
      /\ effects'[f.w][f.key] = 1 \/ (at = "failed" /\ effects'[f.w][f.key] = 0)
      /\ \A w \in Workflows, k \in Keys : w # f.w \/ k # f.key => effects'[w][k] = effects[w][k]
  <2>1. CASE effects' = effects
    BY <1>4, <1>8, <2>1, <1>3
  <2>2. CASE effects' = [effects EXCEPT ![f.w][f.key] = effects[f.w][f.key] + 1]
    <3>1. PICK counts : counts = [effects[f.w] EXCEPT ![f.key] = 1]
      OBVIOUS
    <3>2. counts \in [Keys -> Nat] /\ counts[f.key] = 1 /\ \A k \in Keys : k # f.key => counts[k] = effects[f.w][k]
      BY <1>3, <1>8, <3>1
    <3>3. effects' = [effects EXCEPT ![f.w] = counts]
      BY <1>8, <2>2, <3>1
    <3>. QED  BY <1>3, <1>8, <3>2, <3>3
  <2>. QED  BY <1>4, <2>1, <2>2
<1>10. DTyped'
  BY <1>1, <1>7, <1>9 DEF DInv, DTyped, NowIn
<1>11. Onwards /\ ScheduledApart'
  <2>1. clock \in Int
    BY DispatchAssumption DEF DInv, DTyped, Instants
  <2>. QED  BY <1>1, <2>1, ScheduledKept DEF Onwards, Exists
<1>12. \A w \in Workflows, k \in Keys : w # f.w \/ k # f.key => RowLeft(w, k)
  BY <1>1, <1>9 DEF RowLeft
<1>13. RunSound(g)'
  BY <1>1, <1>3, <1>4, <1>6, <1>9 DEF RunSound
<1>14. RowHolds(f.w, f.key)'
  <2>1. Owns(t, f.w, f.key)'
    BY <1>4, <1>6, <1>7 DEF Owns, NowIn
  <2>2. RowHolds(f.w, f.key) /\ f.key # Raised
    BY <1>3 DEF DInv, LoopSound
  <2>3. run[f.w][f.key] = "pending" \/ (run[f.w][f.key] = "none" /\ status[f.w] = "deleted")
    BY <1>3 DEF RunSound
  <2>. QED  BY <1>1, <1>9, <2>1, <2>2, <2>3 DEF RowHolds
<1>. QED  BY <1>1, <1>2, <1>3, <1>4, <1>6, <1>7, <1>10, <1>11, <1>12, <1>13, <1>14, RunMoves

LEMMA FinalizeRunStep == ASSUME DInv, NEW t \in Threads, FinalizeRun(t) PROVE DInv'
<1>1. /\ Depth(t) > 0 /\ Inner(t).at \in {"success", "failed"} /\ UNCHANGED <<status, created, clock, effects, lost>>
  BY DEF FinalizeRun, In
<1>2. PICK f \in Loop : f = Inner(t) /\ f = stack[t][1] /\ f.at \in {"success", "failed"}
  BY <1>1, HeldLoop
<1>3. f.w \in Workflows /\ f.key \in Keys /\ LoopSound(f) /\ RunSound(f) /\ Owns(t, f.w, f.key)
  BY <1>1, <1>2, HeldLoop, LoopFields
<1>4. PICK g : g = [f EXCEPT !.at = "loop"]
  OBVIOUS
<1>5. g \in Loop /\ g.at = "loop" /\ g.key = f.key /\ g.w = f.w /\ g.all = f.all /\ g.todo = f.todo
  BY <1>4 DEF Loop
<1>6. LoopSound(g)
  BY <1>3, <1>5 DEF LoopSound
<1>7. \A w \in Workflows, k \in Keys : Owns(t, w, k) => w = f.w /\ k = f.key
  BY <1>2 DEF Owns
<1>8. CASE run[f.w][f.key] = "none"
  <2>1. stack' = AfterError(t) /\ UNCHANGED run
    BY <1>2, <1>8 DEF FinalizeRun
  <2>2. \A w \in Workflows, k \in Keys : Owns(t, w, k) => run[w][k] # "pending"
    BY <1>7, <1>8
  <2>3. CASE f.key \in Instants
    <3>1. NowOut(t)
      BY <1>1, <1>2, <2>1, <2>3, Pops DEF AfterError
    <3>2. lost' \subseteq Workflows \X Keys /\ lost \subseteq lost'
      BY <1>1 DEF DInv, DTyped
    <3>. QED  BY <1>1, <2>1, <2>2, <3>1, <3>2, LoopEnds
  <2>4. CASE f.key \notin Instants
    <3>1. stack' = [stack EXCEPT ![t][1].at = "loop"] /\ Depth(t) = 1 /\ stack \in [Threads -> Seq(Loop)]
      BY <1>1, <1>2, <2>1, <2>4, HeldLoop, StacksTyped DEF AfterError
    <3>2. SetInner(t, g)
      BY <1>2, <1>4, <3>1 DEF SetInner
    <3>3. NowIn(t, g)
      BY <1>1, <1>5, <3>2, SetsInner
    <3>. QED  BY <1>1, <1>5, <1>6, <2>1, <2>2, <3>3, LoopMoves
  <2>. QED  BY <2>3, <2>4
<1>9. CASE run[f.w][f.key] # "none"
  <2>1. SetInner(t, g) /\ run' = [run EXCEPT ![f.w][f.key] = f.at]
    BY <1>2, <1>4, <1>9 DEF FinalizeRun, Outcome
  <2>2. NowIn(t, g)
    BY <1>1, <1>5, <2>1, SetsInner
  <2>3. PICK marks : marks = [run[f.w] EXCEPT ![f.key] = f.at]
    OBVIOUS
  <2>4. run \in [Workflows -> [Keys -> RunStatuses \cup {"none"}]]
    BY DEF DInv, DTyped
  <2>5. /\ marks \in [Keys -> RunStatuses \cup {"none"}] /\ marks[f.key] = f.at
        /\ \A k \in Keys : k # f.key => marks[k] = run[f.w][k]
    BY <1>2, <1>3, <2>3, <2>4 DEF RunStatuses
  <2>6. run' = [run EXCEPT ![f.w] = marks]
    BY <2>1, <2>3, <2>4
  <2>7. /\ run' \in [Workflows -> [Keys -> RunStatuses \cup {"none"}]] /\ run'[f.w][f.key] = f.at
        /\ \A w \in Workflows, k \in Keys : w # f.w \/ k # f.key => run'[w][k] = run[w][k]
    BY <1>3, <2>4, <2>5, <2>6
  <2>8. DTyped'
    BY <1>1, <2>2, <2>7 DEF DInv, DTyped, NowIn
  <2>9. Onwards /\ ScheduledApart'
    <3>1. clock \in Int
      BY DispatchAssumption DEF DInv, DTyped, Instants
    <3>2. \A w \in Workflows, k \in Keys : run'[w][k] # "none" <=> run[w][k] # "none"
      BY <1>2, <1>9, <2>7
    <3>. QED  BY <1>1, <3>1, <3>2, ScheduledKept DEF Onwards, Exists
  <2>10. \A w \in Workflows, k \in Keys : w # f.w \/ k # f.key => RowLeft(w, k)
    BY <1>1, <2>7 DEF RowLeft
  <2>11. RowHolds(f.w, f.key)'
    <3>1. RowHolds(f.w, f.key) /\ f.key # Raised
      BY <1>3 DEF DInv, LoopSound
    <3>2. (f.at = "success" => effects[f.w][f.key] = 1)
      BY <1>3 DEF RunSound
    <3>. QED  BY <1>1, <1>2, <1>9, <2>7, <3>1, <3>2 DEF RowHolds
  <2>12. run'[f.w][f.key] # "pending"
    BY <1>2, <2>7
  <2>. QED  BY <1>1, <1>2, <1>3, <1>5, <2>2, <2>8, <2>9, <2>10, <2>11, <2>12, RunMoves
<1>. QED  BY <1>8, <1>9

\* The key lets one run through, which no thread is in yet.
LEMMA BeginWorkflowStep ==
    ASSUME DInv, NEW t \in Threads, NEW w \in Workflows, BeginWorkflow(t, w) PROVE DInv'
<1>1. /\ Depth(t) > 0 /\ Inner(t).at = "loop" /\ w \in Inner(t).todo
      /\ UNCHANGED <<status, clock, effects, lost>>
  BY DEF BeginWorkflow, In
<1>2. PICK f \in Loop : f = Inner(t) /\ f = stack[t][1] /\ f.at = "loop" /\ w \in f.todo
  BY <1>1, HeldLoop
<1>3. /\ f.key \in Keys /\ LoopSound(f) /\ \A v \in Workflows, k \in Keys : ~Owns(t, v, k)
  BY <1>1, <1>2, HeldLoop, LoopFields
<1>4. PICK h : h = [f EXCEPT !.todo = f.todo \ {w}]
  OBVIOUS
<1>5. /\ h \in Loop /\ h.at = "loop" /\ h.key = f.key /\ h.all = f.all /\ h.todo = f.todo \ {w}
  BY <1>2, <1>4 DEF Loop
<1>6. CASE ~CanRecord(w, f.key)
  <2>1. SetInner(t, h) /\ UNCHANGED <<run, created>>
    BY <1>2, <1>4, <1>5, <1>6 DEF BeginWorkflow
  <2>2. NowIn(t, h)
    BY <1>1, <1>5, <2>1, SetsInner
  <2>3. LoopSound(h)
    BY <1>3, <1>5, <1>6 DEF LoopSound, CanRecord
  <2>. QED  BY <1>1, <1>3, <1>5, <2>1, <2>2, <2>3, LoopMoves
<1>7. CASE CanRecord(w, f.key)
  <2>5. PICK s \in {"pending", "skipped"} :
           /\ RecordRun(w, f.key, s)
           /\ SetInner(t, IF s = "pending" THEN [h EXCEPT !.at = "acting", !.w = w] ELSE h)
    BY <1>2, <1>4, <1>5, <1>7 DEF BeginWorkflow
  <2>1. PICK g :
           /\ RecordRun(w, f.key, s) /\ SetInner(t, g)
           /\ g = IF s = "pending" THEN [h EXCEPT !.at = "acting", !.w = w] ELSE h
    BY <2>5
  <2>2. /\ g \in Loop /\ g.key = f.key /\ g.all = f.all /\ g.todo = f.todo \ {w}
        /\ \/ s = "pending" /\ g.at = "acting" /\ g.w = w
           \/ s = "skipped" /\ g.at = "loop"
    BY <1>5, <2>1 DEF Loop
  <2>3. NowIn(t, g)
    BY <1>1, <2>1, <2>2, SetsInner
  <2>4. /\ run \in [Workflows -> [Keys -> RunStatuses \cup {"none"}]]
        /\ created \in [Workflows -> [Keys -> Instants]] /\ clock \in Instants /\ clock \in Int
    BY DispatchAssumption DEF DInv, DTyped, Instants
  <2>6. /\ run' \in [Workflows -> [Keys -> RunStatuses \cup {"none"}]] /\ run'[w][f.key] = s
        /\ \A v \in Workflows, k \in Keys : v # w \/ k # f.key => run'[v][k] = run[v][k]
    <3>1. run' = [run EXCEPT ![w][f.key] = s]
      BY <2>1 DEF RecordRun
    <3>2. PICK z : z = [run[w] EXCEPT ![f.key] = s]
      OBVIOUS
    <3>3. z \in [Keys -> RunStatuses \cup {"none"}] /\ z[f.key] = s /\ \A k \in Keys : k # f.key => z[k] = run[w][k]
      BY <1>3, <2>4, <3>2 DEF RunStatuses
    <3>4. run' = [run EXCEPT ![w] = z]
      BY <2>4, <3>1, <3>2
    <3>. QED  BY <1>3, <2>4, <3>3, <3>4
  <2>7. /\ created' \in [Workflows -> [Keys -> Instants]] /\ created'[w][f.key] = clock
        /\ \A v \in Workflows, k \in Keys : v # w \/ k # f.key => created'[v][k] = created[v][k]
    <3>1. created' = [created EXCEPT ![w][f.key] = clock]
      BY <2>1 DEF RecordRun
    <3>2. PICK z : z = [created[w] EXCEPT ![f.key] = clock]
      OBVIOUS
    <3>3. z \in [Keys -> Instants] /\ z[f.key] = clock /\ \A k \in Keys : k # f.key => z[k] = created[w][k]
      BY <1>3, <2>4, <3>2
    <3>4. created' = [created EXCEPT ![w] = z]
      BY <2>4, <3>1, <3>2
    <3>. QED  BY <1>3, <2>4, <3>3, <3>4
  <2>8. DTyped'
    BY <1>1, <2>3, <2>6, <2>7 DEF DInv, DTyped, NowIn
  <2>9. run[w][f.key] = "none" /\ status[w] # "deleted" /\ status[w] # "new"
    BY <1>7 DEF CanRecord, Exists
  <2>10. Onwards
    <3>1. \A v \in Workflows, k \in Keys : run[v][k] # "none" => run'[v][k] # "none"
      BY <2>6, <2>9
    <3>2. ASSUME NEW v \in Workflows, NEW j \in Keys, run'[v][j] # "none"
          PROVE  \/ run[v][j] # "none" /\ created'[v][j] = created[v][j]
                 \/ created'[v][j] = clock
      <4>1. CASE v = w /\ j = f.key
        BY <2>7, <4>1
      <4>2. CASE v # w \/ j # f.key
        BY <2>6, <2>7, <3>2, <4>2
      <4>. QED  BY <4>1, <4>2
    <3>. QED  BY <1>1, <2>4, <3>1, <3>2 DEF Onwards, Exists
  <2>11. ScheduledApart'
    <3>. SUFFICES ASSUME NEW v \in Workflows, NEW j \in Keys, NEW k \in Keys, j \in Instants, k \in Instants,
                         run'[v][j] # "none", run'[v][k] # "none", j < k
                  PROVE  k - created'[v][j] >= Interval \/ k <= created'[v][j]
      BY DEF ScheduledApart, Ran
    <3>1. CASE v # w \/ (j # f.key /\ k # f.key)
      BY <2>6, <2>7, <3>1 DEF DInv, ScheduledApart, Ran
    <3>2. CASE v = w /\ k = f.key /\ j # f.key
      <4>1. Apart(k, w)
        BY <1>2, <1>3, <3>2 DEF LoopSound
      <4>. QED  BY <2>6, <2>7, <3>2, <4>1 DEF Apart, Ran
    <3>3. CASE v = w /\ j = f.key /\ k # f.key
      <4>1. k <= clock
        <5>1. run[w][k] # "none" /\ RowHolds(w, k)
          BY <2>6, <3>3 DEF DInv
        <5>. QED  BY <5>1 DEF RowHolds
      <4>. QED  BY <2>7, <3>3, <4>1
    <3>4. ~(j = f.key /\ k = f.key)
      BY DispatchAssumption DEF Instants
    <3>. QED  BY <3>1, <3>2, <3>3, <3>4
  <2>12. LoopSound(f)'
    BY <1>3, <2>10, LoopSoundKept
  <2>13. LoopSound(g)'
    BY <2>2, <2>6, <2>12 DEF LoopSound
  <2>14. effects[w][f.key] = 0 /\ f.key # Raised
    BY <1>3, <2>9 DEF DInv, RowHolds, LoopSound
  <2>15. g.at # "loop" => RunSound(g)'
    BY <1>1, <2>2, <2>6, <2>9, <2>14 DEF RunSound
  <2>16. /\ stack'[t][1] = g /\ Len(stack'[t]) = 1 /\ \A u \in Threads \ {t} : stack'[u] = stack[u]
    BY <2>3 DEF NowIn
  <2>17. LoopHolds(t)'
    BY <2>13, <2>15, <2>16 DEF LoopHolds, LoopSound, RunSound, Apart, Exists
  <2>18. \A u \in Threads : ~Owns(u, w, f.key)
    <3>. SUFFICES ASSUME NEW u \in Threads, Owns(u, w, f.key) PROVE FALSE
      OBVIOUS
    <3>1. RunSound(stack[u][1]) /\ stack[u][1].w = w /\ stack[u][1].key = f.key
      BY DEF Owns, DInv, LoopHolds
    <3>. QED  BY <2>9, <3>1 DEF RunSound
  <2>19. \A v \in Workflows, k \in Keys : Owns(t, v, k)' <=> g.at # "loop" /\ g.w = v /\ g.key = k
    BY <2>16 DEF Owns
  <2>20. RowHolds(w, f.key)'
    <3>1. f.key \in Instants => f.key <= clock
      BY <1>3 DEF LoopSound
    <3>2. s = "pending" => Owns(t, w, f.key)'
      BY <2>2, <2>16 DEF Owns
    <3>. QED  BY <1>1, <2>1, <2>6, <2>14, <3>1, <3>2 DEF RowHolds
  <2>21. \A v \in Workflows, k \in Keys : v # w \/ k # f.key => RowLeft(v, k)
    BY <1>1, <2>6 DEF RowLeft
  <2>22. \A v \in Workflows, k \in Keys :
            \/ RowLeft(v, k)
            \/ RowHolds(v, k)' /\ \A u \in Threads \ {t} : ~Owns(u, v, k)
    BY <2>18, <2>20, <2>21
  <2>23. \A v \in Workflows, k \in Keys : Owns(t, v, k)' => \A u \in Threads \ {t} : ~Owns(u, v, k)
    BY <2>2, <2>18, <2>19
  <2>24. lost \subseteq lost' /\ \A v \in Workflows, k \in Keys : Owns(t, v, k) =>
            Owns(t, v, k)' \/ <<v, k>> \in lost' \/ run'[v][k] # "pending"
    BY <1>1, <1>3
  <2>. QED  BY <2>8, <2>10, <2>11, <2>16, <2>17, <2>22, <2>23, <2>24, OneThreadMoves
<1>. QED  BY <1>6, <1>7

LEMMA DispatchStep == ASSUME DInv, [DispatchNext]_dispatchVars PROVE DInv'
<1>1. CASE \E w \in Workflows : CreateWorkflow(w) \/ SetWorkflowStatus(w) \/ DeleteWorkflow(w)
  BY <1>1, CreateWorkflowStep, SetWorkflowStatusStep, DeleteWorkflowStep
<1>2. CASE Tick
  BY <1>2, TickStep
<1>3. CASE \E t \in Threads, e \in Events : HandleEvent(t, e)
  BY <1>3, HandleEventStep
<1>4. CASE \E t \in Threads : Sweep(t) \/ GoOn(t) \/ Die(t)
  BY <1>4, SweepStep, DieStep, BeginWorkflowStep, ActStep, PublishFromActionStep, FinalizeRunStep,
     FinalizeFailsStep, EndLoopStep DEF GoOn
<1>5. CASE UNCHANGED dispatchVars
  <2>1. UNCHANGED <<status, run, created, clock, stack, effects, lost>>
    BY <1>5 DEF dispatchVars
  <2>2. lost' \subseteq Workflows \X Keys /\ stack' \in [Threads -> Seq(Loop)]
        /\ \A u \in Threads : Len(stack'[u]) <= 1
    BY <2>1 DEF DInv, DTyped
  <2>. QED  BY <2>1, <2>2, RowsStay, NoThreadMoves
<1>. QED  BY <1>1, <1>2, <1>3, <1>4, <1>5 DEF DispatchNext

LEMMA DispatchStart == ASSUME DispatchInit PROVE DInv
<1>1. /\ \A w \in Workflows : status[w] = "new"
      /\ \A w \in Workflows, k \in Keys : run[w][k] = "none" /\ effects[w][k] = 0
      /\ \A t \in Threads : stack[t] \in Seq(Loop) /\ Len(stack[t]) = 0
  BY DEF DispatchInit, DispatchRest
<1>2. DTyped
  <2>1. 0 \in Instants
    BY DispatchAssumption DEF Instants
  <2>2. stack \in [Threads -> Seq(Loop)] /\ \A t \in Threads : Len(stack[t]) <= 1
    BY <1>1 DEF DispatchInit, DispatchRest
  <2>. QED  BY <2>1, <2>2 DEF DispatchInit, DispatchRest, DTyped
<1>3. Alone /\ ScheduledApart /\ \A t \in Threads : LoopHolds(t)
  BY <1>1 DEF Alone, Owns, ScheduledApart, Ran, LoopHolds
<1>4. \A w \in Workflows, k \in Keys : RowHolds(w, k)
  BY <1>1 DEF RowHolds
<1>. QED  BY <1>2, <1>3, <1>4 DEF DInv

LEMMA DispatchSound == ASSUME DInv PROVE ActsOnceAndSaysSo
<1>1. DispatchTypeOK
  BY DEF DInv, DTyped, DispatchTypeOK, MAX_AUTOMATION_DEPTH
<1>2. ActedOnce /\ NoCascade /\ OutcomeIsTrue
  <2>1. Raised \in Keys
    BY DEF Keys
  <2>. QED  BY <2>1 DEF DInv, RowHolds, ActedOnce, NoCascade, OutcomeIsTrue
<1>3. EventReachesAll
  <2>. SUFFICES ASSUME NEW t \in Threads, In(t, "loop"), Inner(t).key \in Events,
                       NEW w \in Inner(t).all \ Inner(t).todo
                PROVE  run[w][Inner(t).key] # "none" \/ ~Exists(w)
    BY DEF EventReachesAll
  <2>1. LoopSound(Inner(t))
    BY HeldLoop DEF In
  <2>. QED  BY <2>1 DEF LoopSound
<1>4. PendingOwned
  <2>. SUFFICES ASSUME NEW w \in Workflows, NEW k \in Keys, run[w][k] = "pending", <<w, k>> \notin lost
                PROVE  \E t \in Threads : \E i \in 1..Depth(t) :
                           stack[t][i].w = w /\ stack[t][i].key = k /\ stack[t][i].at # "loop"
    BY DEF PendingOwned
  <2>1. PICK t \in Threads : Owns(t, w, k)
    BY DEF DInv, RowHolds
  <2>2. 1 \in 1..Depth(t)
    BY <2>1, OneLoop DEF Owns
  <2>. QED  BY <2>1, <2>2 DEF Owns
<1>. QED  BY <1>1, <1>2, <1>3, <1>4 DEF ActsOnceAndSaysSo, DInv

\* However often an event is delivered, however sweeps overlap, whatever
\* fails, dies or is deleted: an automation acts once for an occurrence,
\* starts no other, keeps no other from its event, and its row says what
\* happened (dispatcher.py, scheduled.py).
THEOREM ActsOnceAndSaysSoHolds == DispatchSpec => []ActsOnceAndSaysSo
BY DispatchStart, DispatchStep, DispatchSound, PTL DEF DispatchSpec
-----------------------------------------------------------------------------
(***************************************************************************)
(* A durable run.  An execution is at a step until it finishes, its row is *)
(* terminal from the moment the finish is written, one attempt holds the   *)
(* pending key of a step, and a signal is received once.                   *)
(***************************************************************************)
AtStep == {"begin", "action", "condition", "delay", "wait_for_event", "record"}
Holding == {"reserved", "acted"}
Fates   == {"none", "completed", "failed", "cancelled"}
KeyStates    == {"none", "pending", "succeeded", "failed"}

WalkHolds ==
    /\ exec.at \in AtStep => exec.step \in Steps
    /\ exec.at = "finish" =>
           /\ exec.fate \in {"completed", "failed"}
           /\ exec.wrote => row.status \in Terminal
    /\ EndIsRecorded

KeyHeld ==
    \A s \in Steps, t \in Submitters : attempt[s][t].state \in Holding =>
        /\ key[s] = "pending"
        /\ \A u \in Submitters \ {t} : attempt[s][u].state \notin Holding

SignalsHold ==
    \A g \in Signallers :
        /\ signal[g] # "done" => resumed[g] = {} /\ (exec.at # "none" => exec.received # g)
        /\ resumed[g] = {} \/ \E s \in Steps : resumed[g] = {s}
        /\ exec.at = "wait_for_event" /\ exec.received = g => resumed[g] = {}

RunInv == TypeOK /\ WalkHolds /\ KeyHeld /\ SignalsHold

LEMMA Started == ASSUME TypeOK, exec.at # "none" PROVE exec \in Executions
BY DEF TypeOK, NoExecution

LEMMA ExecutionFields ==
    ASSUME NEW e \in Executions
    PROVE  /\ e.by \in Submitters /\ e.at \in Open \cup {"closed"} /\ e.step \in Steps \cup {NULL}
           /\ e.wrote \in BOOLEAN /\ e.fate \in Fates /\ e.step_ok \in BOOLEAN
           /\ e.next \in Steps \cup {NULL} /\ e.expected \in EventTypes \cup {NULL}
           /\ e.received \in Signallers \cup {NULL} /\ e.cancelling \in BOOLEAN
BY DEF Executions, Fates

\* Seen() goes on to another place and forgets that something was written.
LEMMA SeenIs ==
    ASSUME NEW e \in Executions, NEW a \in Open \cup {"closed"}, Seen(a, e)
    PROVE  /\ exec' \in Executions
           /\ exec'.at = a /\ ~exec'.wrote
           /\ exec'.step = e.step /\ exec'.fate = e.fate /\ exec'.received = e.received
           /\ exec'.next = e.next
BY ExecutionFields DEF Seen, Executions, Fates

\* Leave() goes to the record of the step.
LEMMA LeaveIs ==
    ASSUME exec \in Executions, NEW ok \in BOOLEAN, NEW n \in Steps \cup {NULL}, NEW f \in Fates,
           Leave(ok, n, f)
    PROVE  /\ exec' \in Executions
           /\ exec'.at = "record" /\ ~exec'.wrote
           /\ exec'.step = exec.step /\ exec'.received = exec.received /\ exec'.next = n
<1>1. PICK e : e = [exec EXCEPT !.step_ok = ok, !.next = n, !.fate = f, !.expected = NULL]
      OBVIOUS
<1>2. e \in Executions /\ e.step = exec.step /\ e.received = exec.received /\ e.next = n
      BY <1>1, ExecutionFields DEF Executions, Fates
<1>3. Seen("record", e)
      BY <1>1 DEF Leave
<1> QED
      BY <1>2, <1>3, SeenIs DEF Open

\* Where the execution is moved while nobody is signalled.
LEMMA SignalsUntouched ==
    ASSUME SignalsHold, UNCHANGED <<signal, resumed>>, exec'.received = exec.received,
           exec'.at # "none" => exec.at # "none",
           exec'.at = "wait_for_event" => exec.at = "wait_for_event"
    PROVE  SignalsHold'
BY DEF SignalsHold

LEMMA SignalsForgotten ==
    ASSUME SignalsHold, UNCHANGED <<signal, resumed>>, exec'.received = NULL
    PROVE  SignalsHold'
BY StepsAssumption DEF SignalsHold

LEMMA AttemptsUntouched == ASSUME KeyHeld, UNCHANGED acting PROVE KeyHeld'
BY DEF KeyHeld, acting

-----------------------------------------------------------------------------
LEMMA ReservedStep ==
    ASSUME RunInv, row.status = "absent", Reserved, UNCHANGED <<open, exec, acting, cancel, signal, resumed>>,
           submit' \in [Submitters -> {"idle", "read", "started", "done"}]
    PROVE  RunInv'
<1>1. row' = [row EXCEPT !.status = "queued"] /\ row \in [status : Statuses \cup {"absent"}, submitted : BOOLEAN,
                waiting_for : EventTypes \cup {NULL}]
      BY DEF Reserved, RunInv, TypeOK
<1>2. /\ row' \in [status : Statuses \cup {"absent"}, submitted : BOOLEAN,
                waiting_for : EventTypes \cup {NULL}]
      BY <1>1 DEF Statuses
<1>3. TypeOK'
      BY <1>2 DEF RunInv, TypeOK, acting
<1>4. WalkHolds'
      BY DEF RunInv, WalkHolds, EndIsRecorded, Terminal
<1>5. KeyHeld'
      BY AttemptsUntouched DEF RunInv
<1>6. SignalsHold'
      BY SignalsUntouched DEF RunInv
<1> QED BY <1>3, <1>4, <1>5, <1>6 DEF RunInv

\* The row moves between other steps: a terminal status stays terminal.
LEMMA RowMoves ==
    ASSUME RunInv,
           row' \in [status : Statuses \cup {"absent"}, submitted : BOOLEAN, waiting_for : EventTypes \cup {NULL}],
           row.status \in Terminal => row'.status \in Terminal,
           UNCHANGED <<open, exec, acting, resumed>>,
           submit' \in [Submitters -> {"idle", "read", "started", "done"}],
           cancel' \in [Cancellers -> {"idle", "checked", "told", "done", "dead"}],
           signal' \in [Signallers -> {"idle", "done"} \cup EventTypes],
           \A g \in Signallers : signal'[g] # "done" => signal[g] # "done"
    PROVE  RunInv'
<1>1. TypeOK'
      BY DEF RunInv, TypeOK, acting
<1>2. WalkHolds'
      BY DEF RunInv, WalkHolds, EndIsRecorded
<1>3. KeyHeld'
      BY AttemptsUntouched DEF RunInv
<1>4. SignalsHold'
      BY DEF RunInv, SignalsHold
<1> QED BY <1>1, <1>2, <1>3, <1>4 DEF RunInv

LEMMA SubmissionStep ==
    ASSUME RunInv, NEW t \in Submitters, Submission(t)
    PROVE  RunInv'
<1> USE DEF RunInv
<1>1. CASE StartRun(t)
      BY <1>1, ReservedStep DEF StartRun, TypeOK
<1>2. CASE SweepReads(t)
      BY <1>2, RowMoves DEF SweepReads, TypeOK
<1>3. CASE AlreadyStarted(t)
      BY <1>3, RowMoves DEF AlreadyStarted, TypeOK
<1>4. CASE StoreHandle(t)
  <2>1. row' \in [status : Statuses \cup {"absent"}, submitted : BOOLEAN, waiting_for : EventTypes \cup {NULL}]
        /\ row'.status = row.status
        BY <1>4 DEF StoreHandle, TypeOK
  <2> QED BY <1>4, <2>1, RowMoves DEF StoreHandle, TypeOK
<1>5. CASE SubmitterDies(t)
      BY <1>5, RowMoves DEF SubmitterDies, TypeOK
<1>6. CASE StartWorkflow(t)
  <2>1. /\ exec' \in Executions /\ exec'.at = "start" /\ exec'.received = NULL
        BY <1>6, StepsAssumption DEF StartWorkflow, FirstTask, Executions, Open
  <2>2. TypeOK'
        BY <1>6, <2>1 DEF StartWorkflow, TypeOK, acting
  <2>3. WalkHolds'
        BY <2>1 DEF WalkHolds, EndIsRecorded, AtStep
  <2>4. KeyHeld' /\ SignalsHold'
        BY <1>6, <2>1, AttemptsUntouched, SignalsForgotten DEF StartWorkflow
  <2> QED BY <2>2, <2>3, <2>4
<1> QED BY <1>1, <1>2, <1>3, <1>4, <1>5, <1>6 DEF Submission

LEMMA CancelSignalStep ==
    ASSUME RunInv,
           \/ \E c \in Cancellers : CancelChecks(c) \/ CancelTells(c) \/ CancelWrites(c) \/ CancellerDies(c)
           \/ \E g \in Signallers : SignalChecks(g) \/ SignalArrives(g)
    PROVE  RunInv'
<1> USE DEF RunInv
<1>1. ASSUME NEW c \in Cancellers, CancelChecks(c) PROVE RunInv'
      BY <1>1, RowMoves DEF CancelChecks, TypeOK
<1>2. ASSUME NEW c \in Cancellers, CancelTells(c) PROVE RunInv'
  <2>1. /\ exec' \in Executions \cup {NoExecution} /\ exec'.at = exec.at
        /\ exec.at # "none" => exec'.step = exec.step /\ exec'.fate = exec.fate /\ exec'.wrote = exec.wrote
        /\ exec'.received = exec.received
    <3>1. CASE Alive
      <4>1. exec \in Executions
            BY <3>1, Started DEF Alive, Open
      <4> QED BY <1>2, <3>1, <4>1 DEF CancelTells, Executions
    <3>2. CASE ~Alive
          BY <1>2, <3>2 DEF CancelTells, TypeOK
    <3> QED BY <3>1, <3>2
  <2>2. TypeOK'
        BY <1>2, <2>1 DEF CancelTells, TypeOK, acting
  <2>3. WalkHolds'
        BY <1>2, <2>1 DEF CancelTells, WalkHolds, EndIsRecorded, AtStep
  <2>4. KeyHeld' /\ SignalsHold'
        BY <1>2, <2>1, AttemptsUntouched, SignalsUntouched DEF CancelTells
  <2> QED BY <2>2, <2>3, <2>4
<1>3. ASSUME NEW c \in Cancellers, CancelWrites(c) PROVE RunInv'
  <2>1. row' \in [status : Statuses \cup {"absent"}, submitted : BOOLEAN, waiting_for : EventTypes \cup {NULL}]
        /\ row'.status \in Terminal
        BY <1>3 DEF CancelWrites, TypeOK, Statuses, Terminal
  <2> QED BY <1>3, <2>1, RowMoves DEF CancelWrites, TypeOK
<1>4. ASSUME NEW c \in Cancellers, CancellerDies(c) PROVE RunInv'
      BY <1>4, RowMoves DEF CancellerDies, TypeOK
<1>5. ASSUME NEW g \in Signallers, SignalChecks(g) PROVE RunInv'
  <2>1. row.waiting_for \in EventTypes
        BY <1>5 DEF SignalChecks, TypeOK
  <2>2. signal' \in [Signallers -> {"idle", "done"} \cup EventTypes]
        BY <1>5, <2>1 DEF SignalChecks, TypeOK
  <2>3. \A h \in Signallers : signal'[h] # "done" => signal[h] # "done"
        BY <1>5 DEF SignalChecks, TypeOK
  <2> QED BY <1>5, <2>2, <2>3, RowMoves DEF SignalChecks, TypeOK
<1>6. ASSUME NEW g \in Signallers, SignalArrives(g) PROVE RunInv'
  <2>1. /\ exec' \in Executions \cup {NoExecution} /\ exec'.at = exec.at
        /\ exec.at # "none" => exec'.step = exec.step /\ exec'.fate = exec.fate /\ exec'.wrote = exec.wrote
        /\ exec.at # "none" => exec'.received \in {exec.received, g}
    <3>1. CASE Alive /\ exec.expected = signal[g]
      <4>1. exec \in Executions
            BY <3>1, Started DEF Alive, Open
      <4> QED BY <1>6, <3>1, <4>1 DEF SignalArrives, Executions
    <3>2. CASE ~(Alive /\ exec.expected = signal[g])
          BY <1>6, <3>2 DEF SignalArrives, TypeOK
    <3> QED BY <3>1, <3>2
  <2>2. /\ signal[g] # "done"
        /\ signal' = [signal EXCEPT ![g] = "done"]
        /\ UNCHANGED <<row, open, acting, submit, cancel, resumed>>
        BY <1>6, StepsAssumption DEF SignalArrives
  <2>3. TypeOK'
        BY <2>1, <2>2 DEF TypeOK, acting
  <2>4. WalkHolds'
        BY <2>1, <2>2 DEF WalkHolds, EndIsRecorded, AtStep
  <2>5. KeyHeld'
        BY <2>2, AttemptsUntouched
  <2>6. SignalsHold'
    <3> SUFFICES ASSUME NEW h \in Signallers
                 PROVE  /\ signal'[h] # "done" => resumed'[h] = {} /\ (exec'.at # "none" => exec'.received # h)
                        /\ resumed'[h] = {} \/ \E s \in Steps : resumed'[h] = {s}
                        /\ exec'.at = "wait_for_event" /\ exec'.received = h => resumed'[h] = {}
          BY DEF SignalsHold
    <3>1. resumed[g] = {} /\ signal'[g] = "done" /\ resumed' = resumed
          BY <2>2 DEF SignalsHold, TypeOK
    <3>2. CASE h = g
          BY <3>1, <3>2
    <3>3. CASE h # g
      <4>1. signal'[h] = signal[h]
            BY <2>2, <3>3 DEF TypeOK
      <4> QED BY <2>1, <3>1, <3>3, <4>1 DEF SignalsHold
    <3> QED BY <3>2, <3>3
  <2> QED BY <2>3, <2>4, <2>5, <2>6
<1> QED BY <1>1, <1>2, <1>3, <1>4, <1>5, <1>6

-----------------------------------------------------------------------------
\* The execution writes where it is, and stays there.
LEMMA WritesHere ==
    ASSUME RunInv, exec.at \in Open, exec' = [exec EXCEPT !.wrote = TRUE],
           open' \in [Steps -> Nat],
           row' \in [status : Statuses \cup {"absent"}, submitted : BOOLEAN, waiting_for : EventTypes \cup {NULL}],
           exec.at = "finish" => row'.status \in Terminal,
           UNCHANGED <<acting, callers, resumed>>
    PROVE  RunInv'
<1> USE DEF RunInv
<1>1. exec \in Executions
      BY Started DEF Open
<1>2. /\ exec' \in Executions /\ exec'.at = exec.at /\ exec'.step = exec.step /\ exec'.fate = exec.fate
      /\ exec'.received = exec.received
      BY <1>1 DEF Executions
<1>3. TypeOK'
      BY <1>2 DEF TypeOK, acting, callers
<1>4. WalkHolds'
      BY <1>2 DEF WalkHolds, EndIsRecorded, AtStep, Open
<1>5. KeyHeld' /\ SignalsHold'
      BY <1>2, AttemptsUntouched, SignalsUntouched DEF callers
<1> QED BY <1>3, <1>4, <1>5

LEMMA WritesStep == ASSUME RunInv, Writes PROVE RunInv'
<1> USE DEF RunInv
<1> DEFINE Rows == [status : Statuses \cup {"absent"}, submitted : BOOLEAN, waiting_for : EventTypes \cup {NULL}]
<1>0. row \in Rows /\ open \in [Steps -> Nat]
      BY DEF TypeOK
<1>1. CASE StartRunActivity
  <2>1. row' \in Rows
        BY <1>0, <1>1 DEF StartRunActivity, Statuses
  <2> QED BY <1>0, <1>1, <2>1, WritesHere DEF StartRunActivity, Open
<1>2. CASE RecordStepStarted
  <2>1. exec.step \in Steps
        BY <1>2 DEF RecordStepStarted, WalkHolds, AtStep
  <2>2. Kind[exec.step] = "wait_for_event" => Event[exec.step] \in EventTypes
        BY <2>1 DEF EventTypes
  <2>3. open' \in [Steps -> Nat]
    <3>1. PICK n : n = open[exec.step] + 1
          OBVIOUS
    <3>2. n \in Nat
          BY <1>0, <2>1, <3>1
    <3>3. open' = [open EXCEPT ![exec.step] = n]
          BY <1>2, <3>1 DEF RecordStepStarted
    <3> QED BY <1>0, <3>2, <3>3
  <2>4. row' \in Rows
    <3>1. PICK w \in {"waiting", "running"}, v \in EventTypes \cup {NULL} :
              row' = [row EXCEPT !.status = w, !.waiting_for = v]
          BY <1>2, <2>2 DEF RecordStepStarted
    <3> QED BY <1>0, <3>1 DEF Statuses
  <2> QED BY <1>2, <2>3, <2>4, WritesHere DEF RecordStepStarted, Open
<1>3. CASE RecordStepFinished
  <2>1. exec.step \in Steps
        BY <1>3 DEF RecordStepFinished, WalkHolds, AtStep
  <2>2. open' \in [Steps -> Nat]
    <3>1. PICK n : n = IF open[exec.step] > 0 THEN open[exec.step] - 1 ELSE 0
          OBVIOUS
    <3>2. n \in Nat
          BY <1>0, <2>1, <3>1
    <3>3. open' = [open EXCEPT ![exec.step] = n]
          BY <1>3, <3>1 DEF RecordStepFinished
    <3> QED BY <1>0, <3>2, <3>3
  <2>3. row' \in Rows
        BY <1>0, <1>3 DEF RecordStepFinished
  <2> QED BY <1>3, <2>2, <2>3, WritesHere DEF RecordStepFinished, Open
<1>4. CASE FinishRun
  <2>1. exec.fate \in {"completed", "failed"}
        BY <1>4 DEF FinishRun, WalkHolds
  <2>2. row' \in Rows /\ row'.status \in Terminal
        BY <1>0, <1>4, <2>1 DEF FinishRun, Statuses, Terminal
  <2> QED BY <1>0, <1>4, <2>2, WritesHere DEF FinishRun, Open
<1> QED BY <1>1, <1>2, <1>3, <1>4 DEF Writes

\* The execution goes on to another place.
LEMMA MovesOn ==
    ASSUME RunInv, exec \in Executions, exec' \in Executions, ~exec'.wrote,
           exec'.at \in AtStep => exec'.step \in Steps,
           exec'.at = "finish" => exec'.fate \in {"completed", "failed"},
           exec'.at = "closed" => exec'.fate = "cancelled" \/ row.status \in Terminal,
           \/ exec'.received = NULL
           \/ exec'.received = exec.received /\ (exec'.at = "wait_for_event" => exec.at = "wait_for_event"),
           UNCHANGED <<row, open, acting, callers, resumed>>
    PROVE  RunInv'
<1> USE DEF RunInv
<1>1. TypeOK'
      BY DEF TypeOK, acting, callers
<1>2. WalkHolds'
      BY DEF WalkHolds, EndIsRecorded
<1>3. KeyHeld'
      BY AttemptsUntouched
<1>4. exec.at # "none"
      BY ExecutionFields DEF Open
<1>5. SignalsHold'
      BY <1>4, SignalsUntouched, SignalsForgotten DEF callers
<1> QED BY <1>1, <1>2, <1>3, <1>5

LEMMA NextSteps ==
    ASSUME NEW s \in Steps
    PROVE  /\ Goto[s] \in Steps \cup {NULL} /\ Else[s] \in Steps \cup {NULL} /\ Kind[s] \in Kinds
           /\ Kind[s] = "wait_for_event" => Event[s] \in EventTypes
BY StepsAssumption DEF EventTypes

LEMMA GoesOnStep == ASSUME RunInv, GoesOn PROVE RunInv'
<1> USE DEF RunInv
<1>0. exec \in Executions
      BY Started DEF GoesOn, RunStarted, StepEntered, Branch, TimerFires, Resume, WaitTimesOut, StepLeft, Close,
                     Cancelled, Alive, Open
<1>1. CASE RunStarted
  <2>1. PICK e : e = [exec EXCEPT !.step = FirstStep]
        OBVIOUS
  <2>2. e \in Executions /\ e.step \in Steps /\ e.received = exec.received
        BY <1>0, <2>1, StepsAssumption DEF Executions
  <2>3. Seen("begin", e)
        BY <1>1, <2>1 DEF RunStarted
  <2> QED BY <1>0, <1>1, <2>2, <2>3, SeenIs, MovesOn DEF RunStarted, Open
<1>2. CASE StepEntered
  <2>1. exec.step \in Steps
        BY <1>2 DEF StepEntered, WalkHolds, AtStep
  <2>2. CASE Kind[exec.step] = "wait_for_event"
    <3>1. PICK e : e = [exec EXCEPT !.expected = Event[exec.step], !.received = NULL]
          OBVIOUS
    <3>2. e \in Executions /\ e.step = exec.step /\ e.received = NULL
          BY <1>0, <2>1, <2>2, <3>1, NextSteps DEF Executions
    <3>3. Seen("wait_for_event", e)
          BY <1>2, <2>2, <3>1 DEF StepEntered
    <3> QED BY <1>0, <1>2, <2>1, <3>2, <3>3, SeenIs, MovesOn DEF StepEntered, Open
  <2>3. CASE Kind[exec.step] # "wait_for_event"
    <3>1. Seen(Kind[exec.step], exec) /\ Kind[exec.step] \in {"action", "condition", "delay"}
          BY <1>2, <2>1, <2>3, NextSteps DEF StepEntered, Kinds
    <3> QED BY <1>0, <1>2, <2>1, <3>1, SeenIs, MovesOn DEF StepEntered, Open
  <2> QED BY <2>2, <2>3
<1>3. CASE Branch
  <2>1. exec.step \in Steps
        BY <1>3 DEF Branch, WalkHolds, AtStep
  <2>2. PICK n \in {Goto[exec.step], Else[exec.step]} : Leave(TRUE, n, "none")
        BY <1>3 DEF Branch
  <2> QED BY <1>0, <1>3, <2>1, <2>2, NextSteps, LeaveIs, MovesOn DEF Branch, Fates
<1>4. CASE TimerFires
  <2>1. exec.step \in Steps
        BY <1>4 DEF TimerFires, WalkHolds, AtStep
  <2> QED BY <1>0, <1>4, <2>1, NextSteps, LeaveIs, MovesOn DEF TimerFires, Fates
<1>5. CASE Resume
  <2>1. exec.step \in Steps
        BY <1>5 DEF Resume, WalkHolds, AtStep
  <2>2. /\ exec' \in Executions /\ exec'.at = "record" /\ ~exec'.wrote /\ exec'.step = exec.step
        /\ exec'.received = exec.received
        BY <1>0, <1>5, <2>1, NextSteps, LeaveIs DEF Resume, Fates
  <2>3. PICK g \in Signallers : exec.received = g
        BY <1>0, <1>5, ExecutionFields DEF Resume
  <2>4. resumed[g] = {} /\ exec.at # "none"
        BY <1>5, <2>3 DEF Resume, SignalsHold
  <2>5. resumed' = [resumed EXCEPT ![g] = {exec.step}]
        BY <1>5, <2>3, <2>4 DEF Resume
  <2>6. TypeOK'
    <3>1. resumed' \in [Signallers -> SUBSET Steps]
      <4>1. PICK R \in SUBSET Steps : R = {exec.step}
            BY <2>1
      <4> QED BY <2>3, <2>5, <4>1 DEF TypeOK
    <3> QED BY <1>5, <2>2, <3>1 DEF Resume, TypeOK, acting, callers
  <2>7. WalkHolds' /\ KeyHeld'
        BY <1>5, <2>1, <2>2, AttemptsUntouched DEF Resume, WalkHolds, EndIsRecorded
  <2>8. SignalsHold'
    <3> SUFFICES ASSUME NEW h \in Signallers
                 PROVE  /\ signal'[h] # "done" => resumed'[h] = {} /\ exec'.received # h
                        /\ resumed'[h] = {} \/ \E s \in Steps : resumed'[h] = {s}
          BY <2>2 DEF SignalsHold
    <3>1. signal' = signal
          BY <1>5 DEF Resume, callers
    <3>2. CASE h = g
      <4>1. resumed'[g] = {exec.step} /\ signal[g] = "done"
            BY <2>3, <2>4, <2>5 DEF TypeOK, SignalsHold
      <4> QED BY <2>1, <3>1, <3>2, <4>1
    <3>3. CASE h # g
      <4>1. resumed'[h] = resumed[h]
            BY <2>5, <3>3 DEF TypeOK
      <4> QED BY <2>2, <2>4, <3>1, <4>1 DEF SignalsHold
    <3> QED BY <3>2, <3>3
  <2> QED BY <2>6, <2>7, <2>8
<1>6. CASE WaitTimesOut
  <2>1. exec.step \in Steps
        BY <1>6 DEF WaitTimesOut, WalkHolds, AtStep
  <2>2. PICK f \in Fates : Leave(FALSE, Else[exec.step], f)
        BY <1>6 DEF WaitTimesOut, Fates
  <2> QED BY <1>0, <1>6, <2>1, <2>2, NextSteps, LeaveIs, MovesOn DEF WaitTimesOut
<1>7. CASE StepLeft
  <2>1. CASE exec.next # NULL
    <3>1. PICK e : e = [exec EXCEPT !.step = exec.next]
          OBVIOUS
    <3>2. e \in Executions /\ e.step \in Steps /\ e.received = exec.received
          BY <1>0, <2>1, <3>1, ExecutionFields DEF Executions
    <3>3. Seen("begin", e)
          BY <1>7, <2>1, <3>1 DEF StepLeft
    <3> QED BY <1>0, <1>7, <3>2, <3>3, SeenIs, MovesOn DEF StepLeft, Open
  <2>2. CASE exec.next = NULL
    <3>1. PICK f \in {"completed", "failed"} : f = IF exec.fate = "failed" THEN "failed" ELSE "completed"
          OBVIOUS
    <3>2. PICK e : e = [exec EXCEPT !.fate = f]
          OBVIOUS
    <3>3. e \in Executions /\ e.fate = f /\ e.received = exec.received
          BY <1>0, <3>1, <3>2 DEF Executions
    <3>4. Seen("finish", e)
          BY <1>7, <2>2, <3>1, <3>2 DEF StepLeft
    <3> QED BY <1>0, <1>7, <3>1, <3>3, <3>4, SeenIs, MovesOn DEF StepLeft, Open, AtStep
  <2> QED BY <2>1, <2>2
<1>8. CASE Close
  <2>1. row.status \in Terminal
        BY <1>8 DEF Close, WalkHolds
  <2> QED BY <1>0, <1>8, <2>1, SeenIs, MovesOn DEF Close, AtStep
<1>9. CASE Cancelled
  <2>1. PICK e : e = [exec EXCEPT !.fate = "cancelled"]
        OBVIOUS
  <2>2. e \in Executions /\ e.fate = "cancelled" /\ e.received = exec.received
        BY <1>0, <2>1 DEF Executions
  <2>3. Seen("closed", e)
        BY <1>9, <2>1 DEF Cancelled
  <2> QED BY <1>0, <1>9, <2>2, <2>3, SeenIs, MovesOn DEF Cancelled, AtStep
<1> QED BY <1>1, <1>2, <1>3, <1>4, <1>5, <1>6, <1>7, <1>8, <1>9 DEF GoesOn

-----------------------------------------------------------------------------
\* What an attempt tells the execution: nothing, or that it leaves the step.
LEMMA AttemptTells ==
    ASSUME RunInv, NEW s \in Steps, NEW t \in Submitters,
           \/ Succeeds(s, t) \/ Fails(s, t) \/ RetryOrFail(s, t) \/ UNCHANGED exec,
           UNCHANGED <<row, open, callers, resumed>>
    PROVE  exec' \in Executions \cup {NoExecution} /\ WalkHolds' /\ SignalsHold'
<1> USE DEF RunInv
<1>1. CASE UNCHANGED exec
      BY <1>1, SignalsUntouched DEF TypeOK, WalkHolds, EndIsRecorded, callers
<1>2. CASE ~UNCHANGED exec
  <2>1. InAction(s, t) /\ (Leave(TRUE, Goto[s], "none") \/ Leave(FALSE, NULL, "failed"))
        BY <1>2 DEF Succeeds, Fails, RetryOrFail
  <2>2. exec \in Executions /\ exec.at = "action" /\ exec.step = s
        BY <2>1, Started DEF InAction
  <2>3. /\ exec' \in Executions /\ exec'.at = "record" /\ exec'.step = s /\ exec'.received = exec.received
        BY <2>1, <2>2, NextSteps, LeaveIs DEF Fates
  <2> QED BY <2>2, <2>3, SignalsUntouched DEF WalkHolds, EndIsRecorded, callers
<1> QED BY <1>1, <1>2

LEMMA AttemptBecomes ==
    ASSUME TypeOK, NEW s \in Steps, NEW t \in Submitters,
           NEW n \in 0..MaxAttempts, NEW a \in {"idle", "begun", "reserved", "acted"},
           attempt' = [attempt EXCEPT ![s][t] = [number |-> n, state |-> a]]
    PROVE  /\ attempt' \in [Steps -> [Submitters -> Attempts]]
           /\ attempt'[s][t].state = a
           /\ \A r \in Steps, u \in Submitters : <<r, u>> # <<s, t>> => attempt'[r][u] = attempt[r][u]
<1>1. PICK w : w = [number |-> n, state |-> a]
      OBVIOUS
<1>2. w \in Attempts /\ w.state = a
      BY <1>1 DEF Attempts
<1> QED BY <1>1, <1>2 DEF TypeOK

LEMMA StateBecomes ==
    ASSUME TypeOK, NEW s \in Steps, NEW t \in Submitters,
           NEW a \in {"idle", "begun", "reserved", "acted"}, Becomes(s, t, a)
    PROVE  /\ attempt' \in [Steps -> [Submitters -> Attempts]]
           /\ attempt'[s][t].state = a
           /\ \A r \in Steps, u \in Submitters : <<r, u>> # <<s, t>> => attempt'[r][u] = attempt[r][u]
<1>0. attempt[s][t] \in Attempts
      BY DEF TypeOK
<1>1. PICK w : w = [attempt[s][t] EXCEPT !.state = a]
      OBVIOUS
<1>2. w \in Attempts /\ w.state = a
      BY <1>0, <1>1 DEF Attempts
<1>3. attempt' = [attempt EXCEPT ![s][t] = w]
      BY <1>1 DEF Becomes
<1> QED BY <1>2, <1>3 DEF TypeOK

\* The attempts of a step stay apart when one of them lets go of the key, ...
LEMMA LetsGo ==
    ASSUME KeyHeld, NEW s \in Steps, NEW t \in Submitters,
           attempt'[s][t].state \notin Holding,
           \A r \in Steps, u \in Submitters : <<r, u>> # <<s, t>> => attempt'[r][u] = attempt[r][u],
           \A r \in Steps \ {s} : key'[r] = key[r],
           key'[s] = key[s] \/ attempt[s][t].state \in Holding
    PROVE  KeyHeld'
<1> SUFFICES ASSUME NEW r \in Steps, NEW u \in Submitters, attempt'[r][u].state \in Holding
             PROVE  key'[r] = "pending" /\ \A v \in Submitters \ {u} : attempt'[r][v].state \notin Holding
    BY DEF KeyHeld
<1>1. <<r, u>> # <<s, t>> /\ attempt[r][u].state \in Holding
      OBVIOUS
<1>2. key[r] = "pending" /\ \A v \in Submitters \ {u} : attempt[r][v].state \notin Holding
      BY <1>1 DEF KeyHeld
<1>3. \A v \in Submitters \ {u} : attempt'[r][v].state \notin Holding
      BY <1>2
<1>4. key'[r] = key[r]
      BY <1>1, <1>2
<1> QED BY <1>2, <1>3, <1>4

\* ... or keeps a pending key that nobody else holds.
LEMMA TakesHold ==
    ASSUME KeyHeld, NEW s \in Steps, NEW t \in Submitters,
           \A r \in Steps, u \in Submitters : <<r, u>> # <<s, t>> => attempt'[r][u] = attempt[r][u],
           \A r \in Steps \ {s} : key'[r] = key[r],
           key'[s] = "pending",
           \A u \in Submitters \ {t} : attempt[s][u].state \notin Holding
    PROVE  KeyHeld'
<1> SUFFICES ASSUME NEW r \in Steps, NEW u \in Submitters, attempt'[r][u].state \in Holding
             PROVE  key'[r] = "pending" /\ \A v \in Submitters \ {u} : attempt'[r][v].state \notin Holding
    BY DEF KeyHeld
<1>1. CASE r = s
  <2>1. u = t
        BY <1>1
  <2> QED BY <1>1, <2>1
<1>2. CASE r # s
  <2>1. key[r] = "pending" /\ \A v \in Submitters \ {u} : attempt[r][v].state \notin Holding
        BY <1>2 DEF KeyHeld
  <2> QED BY <1>2, <2>1
<1> QED BY <1>1, <1>2

LEMMA AttemptStep ==
    ASSUME RunInv, NEW s \in Steps, NEW t \in Submitters, ActionStep(s, t) \/ WorkerDies(s, t)
    PROVE  RunInv' /\ (\A r \in Steps : key[r] = "succeeded" => key'[r] = "succeeded")
<1> USE DEF RunInv
<1>0. key \in [Steps -> KeyStates]
      BY DEF TypeOK, KeyStates
<1>t. ASSUME attempt' \in [Steps -> [Submitters -> Attempts]], key' \in [Steps -> KeyStates],
             exec' \in Executions \cup {NoExecution}, UNCHANGED <<row, open, callers, resumed>>
      PROVE  TypeOK'
      BY <1>t DEF TypeOK, KeyStates, callers
<1>1. CASE BeginAttempt(s, t)
  <2>1. PICK n \in 0..MaxAttempts : n = attempt[s][t].number + 1
    <3>1. attempt[s][t].number \in 0..MaxAttempts
          BY DEF TypeOK, Attempts
    <3> QED BY <1>1, <3>1, AttemptsAssumption DEF BeginAttempt
  <2>2. attempt' = [attempt EXCEPT ![s][t] = [number |-> n, state |-> "begun"]]
        BY <1>1, <2>1 DEF BeginAttempt
  <2>3. KeyHeld'
        BY <1>1, <2>2, AttemptBecomes, LetsGo DEF BeginAttempt, Holding
  <2>4. UNCHANGED <<row, open, exec, key, callers, resumed>>
        BY <1>1 DEF BeginAttempt
  <2> QED BY <1>0, <1>t, <2>2, <2>3, <2>4, AttemptBecomes, AttemptTells
<1>2. CASE Reserve(s, t)
  <2>1. \A u \in Submitters : attempt[s][u].state \notin Holding
        BY <1>2 DEF Reserve, KeyHeld, Holding
  <2>2. /\ key' = [key EXCEPT ![s] = "pending"] /\ key[s] # "succeeded" /\ Becomes(s, t, "reserved")
        /\ UNCHANGED <<row, open, exec, callers, resumed>>
        BY <1>2 DEF Reserve
  <2>3. /\ key' \in [Steps -> KeyStates] /\ key'[s] = "pending" /\ \A r \in Steps \ {s} : key'[r] = key[r]
        BY <1>0, <2>2 DEF KeyStates
  <2>4. KeyHeld'
        BY <2>1, <2>2, <2>3, StateBecomes, TakesHold
  <2> QED BY <1>t, <2>2, <2>3, <2>4, StateBecomes, AttemptTells
<1>3. CASE Replay(s, t) \/ InProgress(s, t) \/ WorkerDies(s, t)
  <2>1. /\ Becomes(s, t, "idle") /\ UNCHANGED <<row, open, key, callers, resumed>>
        /\ Succeeds(s, t) \/ RetryOrFail(s, t)
        BY <1>3 DEF Replay, InProgress, WorkerDies
  <2>2. KeyHeld'
        BY <2>1, StateBecomes, LetsGo DEF Holding
  <2> QED BY <1>0, <1>t, <2>1, <2>2, StateBecomes, AttemptTells
<1>4. CASE ActReturns(s, t)
  <2>1. /\ attempt[s][t].state = "reserved" /\ Becomes(s, t, "acted")
        /\ UNCHANGED <<row, open, exec, key, callers, resumed>>
        BY <1>4 DEF ActReturns, Is
  <2>2. key[s] = "pending" /\ \A u \in Submitters \ {t} : attempt[s][u].state \notin Holding
        BY <2>1 DEF KeyHeld, Holding
  <2>3. KeyHeld'
        BY <2>1, <2>2, StateBecomes, TakesHold
  <2> QED BY <1>0, <1>t, <2>1, <2>3, StateBecomes, AttemptTells
<1>5. CASE ActRaises(s, t) \/ Finalise(s, t)
  <2>1. PICK k \in {"failed", "succeeded"} : key' = [key EXCEPT ![s] = k]
        BY <1>5 DEF ActRaises, Finalise
  <2>2. /\ attempt[s][t].state \in Holding /\ Becomes(s, t, "idle") /\ UNCHANGED <<row, open, callers, resumed>>
        /\ Succeeds(s, t) \/ RetryOrFail(s, t) \/ Fails(s, t)
        BY <1>5 DEF ActRaises, Finalise, Is, Holding
  <2>3. key[s] = "pending"
        BY <2>2 DEF KeyHeld
  <2>4. key' \in [Steps -> KeyStates] /\ \A r \in Steps \ {s} : key'[r] = key[r]
        BY <1>0, <2>1 DEF KeyStates
  <2>5. KeyHeld'
        BY <2>2, <2>4, StateBecomes, LetsGo DEF Holding
  <2> QED BY <1>t, <2>2, <2>3, <2>4, <2>5, StateBecomes, AttemptTells
<1> QED BY <1>1, <1>2, <1>3, <1>4, <1>5 DEF ActionStep

LEMMA RunStep == ASSUME RunInv, [Next]_vars PROVE RunInv'
<1>1. CASE HandleTrigger
  <2>1. submit' \in [Submitters -> {"idle", "read", "started", "done"}]
        BY <1>1 DEF HandleTrigger, RunInv, TypeOK, callers
  <2> QED BY <1>1, <2>1, ReservedStep DEF HandleTrigger, callers
<1>2. CASE UNCHANGED vars
      BY <1>2 DEF vars, acting, callers, RunInv, TypeOK, WalkHolds, EndIsRecorded, KeyHeld, SignalsHold
<1> QED BY <1>1, <1>2, SubmissionStep, WritesStep, GoesOnStep, AttemptStep, CancelSignalStep DEF Next

\* Only the attempts write the keys.
LEMMA KeysKept ==
    ASSUME RunInv, [Next]_vars
    PROVE  \A r \in Steps : key[r] = "succeeded" => key'[r] = "succeeded"
<1>1. CASE \E s \in Steps, t \in Submitters : ActionStep(s, t) \/ WorkerDies(s, t)
      BY <1>1, AttemptStep
<1>2. CASE ~\E s \in Steps, t \in Submitters : ActionStep(s, t) \/ WorkerDies(s, t)
  <2>1. UNCHANGED key
        BY <1>2 DEF Next, vars, acting, callers, HandleTrigger, Submission, StartRun, SweepReads, StartWorkflow,
                    AlreadyStarted, StoreHandle, SubmitterDies, Writes, StartRunActivity, RecordStepStarted,
                    RecordStepFinished, FinishRun, GoesOn, RunStarted, StepEntered, Branch, TimerFires, Resume,
                    WaitTimesOut, StepLeft, Close, Cancelled, CancelChecks, CancelTells, CancelWrites,
                    CancellerDies, SignalChecks, SignalArrives
  <2> QED BY <2>1
<1> QED BY <1>1, <1>2

LEMMA RunStarts == ASSUME Init PROVE RunInv
<1>1. TypeOK
      BY AttemptsAssumption DEF Init, TypeOK, NoAttempt, Attempts, Statuses
<1>2. WalkHolds /\ KeyHeld /\ SignalsHold
      BY DEF Init, WalkHolds, EndIsRecorded, KeyHeld, SignalsHold, NoExecution, NoAttempt, Holding, AtStep
<1> QED BY <1>1, <1>2 DEF RunInv

LEMMA RunTells == ASSUME RunInv PROVE TypeOK /\ SignalUsedOnce /\ EndIsRecorded
<1>1. ASSUME NEW g \in Signallers PROVE Cardinality(resumed[g]) <= 1
  <2>1. CASE resumed[g] = {}
        BY <2>1, FS_EmptySet
  <2>2. CASE \E s \in Steps : resumed[g] = {s}
        BY <2>2, FS_Singleton
  <2> QED BY <2>1, <2>2 DEF RunInv, SignalsHold
<1> QED BY <1>1 DEF RunInv, WalkHolds, SignalUsedOnce

\* Whatever worker, submitter or canceller dies, however often a run is
\* submitted and however late a signal comes, for any version, callers and
\* number of attempts: an action that succeeded is not possible again, a
\* signal ends one wait, and an execution that ran to its end left a terminal
\* row (DurableRun, business_activities.py, production_workflow.py).
THEOREM RunTellsItsExecutionHolds == Spec => RunTellsItsExecution
<1>1. ASSUME RunInv, [Next]_vars PROVE [SettledOnce]_vars
  <2>1. RunInv' /\ \A r \in Steps : key[r] = "succeeded" => key'[r] = "succeeded"
        BY <1>1, RunStep, KeysKept
  <2>2. \A s \in Steps, t \in Submitters : key'[s] = "succeeded" => attempt'[s][t].state \notin Holding
        BY <2>1 DEF RunInv, KeyHeld
  <2> QED BY <2>1, <2>2 DEF SettledOnce, Holding
<1>2. RunInv => TypeOK /\ SignalUsedOnce /\ EndIsRecorded
      BY RunTells
<1> QED BY <1>1, <1>2, RunStarts, RunStep, PTL DEF Spec, RunTellsItsExecution
=============================================================================
