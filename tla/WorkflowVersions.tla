--------------------------- MODULE WorkflowVersions ---------------------------
(***************************************************************************)
(* One durable workflow, its versions and the runs that pin them           *)
(* (product/automation/durable/definitions.py, runs.py, triggers.py).      *)
(* Every operation is one transaction that locks nothing: what it read is  *)
(* kept in request[r] until it writes.                                     *)
(***************************************************************************)
EXTENDS Naturals, Sequences

CONSTANTS
    Editors,       \* requests of definitions.py
    Starters,      \* deliveries of a trigger event and calls of start_run()
    Occurrences,   \* trigger_dedup_keys less the version's part
    Contents,      \* step graphs that validate_workflow_definition() accepts
    MaxVersions    \* bound

ASSUME VersionsAssumption ==
    MaxVersions \in Nat \ {0} /\ Contents # {} /\ Editors \cap Starters = {}

VARIABLES
    versions,   \* rows of durable_workflow_versions, in the order of insertion
    current,    \* current_published_version_id, as an index of versions; 0 for NULL
    enabled,    \* the workflow's status is active
    request,    \* request[r]: what the operation of r has read
    runs,       \* <<o, i>>: a run of version i reserved for occurrence o
    pinned      \* pinned[o]: versions current when a starter of o read the workflow

versionVars == <<versions, current, enabled, request, runs, pinned>>

Indices == 1..MaxVersions
Version == [number : Nat, status : {"draft", "published"}, steps : Contents]
Idle    == [op |-> "idle"]

\* Every variable keeps its type.
VersionsTypeOK ==
    /\ versions \in Seq(Version) /\ Len(versions) <= MaxVersions
    /\ current \in 0..Len(versions)
    /\ enabled \in BOOLEAN
    /\ \A r \in Editors : request[r] \in
           {Idle} \cup [op : {"draft"}, latest : Nat, steps : Contents]
                  \cup [op : {"update"}, v : Indices, steps : Contents]
                  \cup [op : {"publish"}, v : Indices]
    /\ \A r \in Starters : request[r] \in {Idle} \cup [op : {"start"}, v : Indices, o : Occurrences]
    /\ runs \subseteq Occurrences \X Indices
    /\ pinned \in [Occurrences -> SUBSET Indices]

VersionsInit ==
    /\ versions = <<>> /\ current = 0 /\ enabled = TRUE
    /\ request = [r \in Editors \cup Starters |-> Idle]
    /\ runs = {}
    /\ pinned = [o \in Occurrences |-> {}]

Versions    == 1..Len(versions)
Begin(r, q) == request[r] = Idle /\ request' = [request EXCEPT ![r] = q]
Reads(r, op) == request[r].op = op
Done(r)     == request' = [request EXCEPT ![r] = Idle]
Draft(n, c) == [number |-> n, status |-> "draft", steps |-> c]

\* create_workflow() of definitions.py: the workflow and its version 1.
CreateDefinition(c) ==
    /\ versions = <<>>
    /\ versions' = <<Draft(1, c)>>
    /\ UNCHANGED <<current, enabled, request, runs, pinned>>

BeginDraft(r, c) ==
    /\ versions # <<>>
    /\ LET latest == versions[Len(versions)].number
       IN  Begin(r, [op |-> "draft", latest |-> latest, steps |-> c])
    /\ UNCHANGED <<versions, current, enabled, runs, pinned>>

\* Mutant: nothing keeps the numbers of a workflow apart.
NumberFreeAlways(n) == TRUE

\* uq_automation_durable_workflow_versions_tenant_workflow_number.
NumberFree(n) == \A i \in Versions : versions[i].number # n

\* create_draft_version() inserts latest + 1, or meets the constraint.
CommitDraft(r) ==
    /\ Reads(r, "draft")
    /\ LET n == request[r].latest + 1
       IN  /\ NumberFree(n) => Len(versions) < MaxVersions
           /\ versions' = IF NumberFree(n) THEN Append(versions, Draft(n, request[r].steps))
                                           ELSE versions
    /\ Done(r)
    /\ UNCHANGED <<current, enabled, runs, pinned>>

BeginUpdate(r, i, c) ==
    /\ i \in Versions /\ versions[i].status = "draft"
    /\ Begin(r, [op |-> "update", v |-> i, steps |-> c])
    /\ UNCHANGED <<versions, current, enabled, runs, pinned>>

\* Mutant: writes the whole row back as it was read.
CommitUpdateWholeRow(r) ==
    /\ Reads(r, "update")
    /\ versions' = [versions EXCEPT ![request[r].v].steps = request[r].steps,
                                    ![request[r].v].status = "draft"]
    /\ Done(r)
    /\ UNCHANGED <<current, enabled, runs, pinned>>

\* update_draft_version() writes the columns it assigned.
CommitUpdate(r) ==
    /\ Reads(r, "update")
    /\ versions' = [versions EXCEPT ![request[r].v].steps = request[r].steps]
    /\ Done(r)
    /\ UNCHANGED <<current, enabled, runs, pinned>>

BeginPublish(r, i) ==
    /\ i \in Versions /\ versions[i].status = "draft"
    /\ Begin(r, [op |-> "publish", v |-> i])
    /\ UNCHANGED <<versions, current, enabled, runs, pinned>>

\* publish_version() marks the version and moves the workflow's pointer.
CommitPublish(r) ==
    /\ Reads(r, "publish")
    /\ versions' = [versions EXCEPT ![request[r].v].status = "published"]
    /\ current' = request[r].v
    /\ Done(r)
    /\ UNCHANGED <<enabled, runs, pinned>>

SetDefinitionStatus ==
    /\ versions # <<>>
    /\ enabled' = ~enabled
    /\ UNCHANGED <<versions, current, request, runs, pinned>>

\* The workflow is active and its current version published: read by
\* start_run(), and by _handle_trigger_event() for a version of its trigger.
ReadCurrent(r, o) ==
    /\ enabled /\ current # 0 /\ versions[current].status = "published"
    /\ Begin(r, [op |-> "start", v |-> current, o |-> o])
    /\ pinned' = [pinned EXCEPT ![o] = @ \cup {current}]
    /\ UNCHANGED <<versions, current, enabled, runs>>

\* Run.workflow_version_id.
Pins(r) == request[r].v

\* _reserve_run(): the unique key lets one run of a key through; the key of
\* an event has the version in it.
ReserveRun(r) ==
    /\ Reads(r, "start")
    /\ runs' = runs \cup {<<request[r].o, Pins(r)>>}
    /\ Done(r)
    /\ UNCHANGED <<versions, current, enabled, pinned>>

VersionsNext ==
    \/ \E c \in Contents : CreateDefinition(c)
    \/ \E r \in Editors, c \in Contents : BeginDraft(r, c)
    \/ \E r \in Editors, i \in Indices, c \in Contents : BeginUpdate(r, i, c)
    \/ \E r \in Editors, i \in Indices : BeginPublish(r, i)
    \/ \E r \in Editors : CommitDraft(r) \/ CommitUpdate(r) \/ CommitPublish(r)
    \/ SetDefinitionStatus
    \/ \E r \in Starters, o \in Occurrences : ReadCurrent(r, o)
    \/ \E r \in Starters : ReserveRun(r)

-------------------------------------------------------------------------------
(***************************************************************************)
(* Properties.                                                             *)
(***************************************************************************)

\* The versions of a workflow are numbered 1, 2, 3, ... although two drafts
\* may be created at once.
VersionNumbers == \A i \in Versions : versions[i].number = i

\* The current version, and every version a run pins, is published, and none
\* ever becomes a draft again, whatever edit overlapped the publication.
OnlyPublishedRun ==
    /\ current # 0 => versions[current].status = "published"
    /\ \A x \in runs : versions[x[2]].status = "published"

\* A run executes exactly the version its starter found published, even if
\* another was published meanwhile (models.py, Run.workflow_version_id).
RunsArePinned == \A x \in runs : x[2] \in pinned[x[1]]

\* models.py:21: no code path ever mutates a version's steps after it is
\* published.
PublishedImmutable ==
    [][\A i \in Versions : versions[i].status = "published" =>
           versions'[i].steps = versions[i].steps]_versionVars

\* However edits, publications and starts overlap, the numbers of the versions
\* are distinct, only what was published runs, and a run follows the version it
\* was pinned to (definitions.py).
RunsFollowVersions ==
    /\ VersionsTypeOK
    /\ VersionNumbers
    /\ OnlyPublishedRun
    /\ RunsArePinned
===============================================================================
