------------------------------ MODULE CrmRecords ------------------------------
(***************************************************************************)
(* The records of product/crm: companies, contacts, opportunities on the   *)
(* stages of pipelines, and what is attached to one of them (tasks, notes, *)
(* tags, custom field values).  Every request checks what it refers to     *)
(* with plain reads and then writes; between the two another request may   *)
(* delete it, and the foreign keys decide.                                 *)
(***************************************************************************)
EXTENDS Naturals, FiniteSets

CONSTANTS
    Companies, People, Deals,   \* ids of companies, contacts and opportunities
    Stages, PipelineOf,         \* stages that may be created, and the pipeline of each
    Users,                      \* members of the tenant that may own a deal
    Items,                      \* tasks and notes
    Fields,                     \* custom field definitions and tags, by the entities they apply to
    AppliesTo,
    CrmRequests,
    Nobody

Entities == Companies \union People \union Deals

ASSUME CrmAssumption ==
    /\ Companies \intersect People = {} /\ Deals \intersect (Companies \union People) = {}
    /\ Nobody \notin Entities \union Users \union Stages
    /\ AppliesTo \in [Fields -> SUBSET Entities]

VARIABLES
    rows,        \* companies, contacts and opportunities that exist
    used,        \* ... and that ever did: ids are not reused
    companyOf,   \* company_id of contacts and opportunities, or Nobody
    personOf,    \* contact_id of opportunities, or Nobody
    stages,      \* rows of pipeline_stages
    stage,       \* stage_id and pipeline_id of opportunities
    pipeline,
    owner,       \* assigned_user_id, or Nobody
    items,       \* the entity a task or note is attached to, or Nobody
    values,      \* number of rows in custom_field_values (or entity_tags) per field and entity
    crm,         \* requests between their reads and their writes
    announced    \* the last stage change published: <<from, to>>, or <<>>

crmVars == <<rows, used, companyOf, personOf, stages, stage, pipeline, owner, items, values, crm, announced>>

IdleCrm == [op |-> "none", x |-> Nobody, company |-> Nobody, person |-> Nobody, y |-> Nobody, old |-> Nobody]

CrmRest ==
    /\ rows = {} /\ used = {} /\ announced = <<>>
    /\ companyOf = [x \in People \union Deals |-> Nobody]
    /\ personOf = [d \in Deals |-> Nobody]
    /\ stage = [d \in Deals |-> Nobody]
    /\ pipeline = [d \in Deals |-> Nobody]
    /\ owner = [d \in Deals |-> Nobody]
    /\ items = [i \in Items |-> Nobody]
    /\ values = [f \in Fields |-> [x \in Entities |-> 0]]
    /\ crm = [q \in CrmRequests |-> IdleCrm]

CrmInit == stages = {} /\ CrmRest

AskCrm(q, r) == crm[q].op = "none" /\ crm' = [crm EXCEPT ![q] = r]
AnswerCrm(q) == crm' = [crm EXCEPT ![q] = IdleCrm]
IsRow(x) == x = Nobody \/ x \in rows

\* create_company() and create_pipeline() with its stages refer to nothing that
\* can be deleted.
CreateCompany(co) ==
    /\ co \notin used
    /\ rows' = rows \union {co} /\ used' = used \union {co}
    /\ UNCHANGED <<companyOf, personOf, stages, stage, pipeline, owner, items, values, crm, announced>>

CreateStage(st) ==
    /\ st \notin stages
    /\ stages' = stages \union {st}
    /\ UNCHANGED <<rows, used, companyOf, personOf, stage, pipeline, owner, items, values, crm, announced>>

(***************************************************************************)
(* create_contact(), create_opportunity(): the checks, then the insert.    *)
(***************************************************************************)
CheckPerson(q, p, co) ==
    /\ p \notin used /\ IsRow(co)
    /\ AskCrm(q, [IdleCrm EXCEPT !.op = "person", !.x = p, !.company = co])
    /\ UNCHANGED <<rows, used, companyOf, personOf, stages, stage, pipeline, owner, items, values, announced>>

CheckDeal(q, d, st, p, co) ==
    /\ d \notin used /\ st \in stages /\ IsRow(p) /\ IsRow(co)
    /\ AskCrm(q, [IdleCrm EXCEPT !.op = "deal", !.x = d, !.company = co, !.person = p, !.y = st])
    /\ UNCHANGED <<rows, used, companyOf, personOf, stages, stage, pipeline, owner, items, values, announced>>

\* Mutant: the references are plain columns, without a foreign key.
ReferencesHoldAlways(r) == TRUE

\* The composite foreign keys of the new or updated row.
ReferencesHold(r) == IsRow(r.company) /\ IsRow(r.person)

InsertPerson(q) ==
    LET r == crm[q]
    IN /\ r.op = "person" /\ r.x \notin used /\ ReferencesHold(r)
       /\ rows' = rows \union {r.x} /\ used' = used \union {r.x}
       /\ companyOf' = [companyOf EXCEPT ![r.x] = r.company]
       /\ AnswerCrm(q)
       /\ UNCHANGED <<personOf, stages, stage, pipeline, owner, items, values, announced>>

InsertDeal(q) ==
    LET r == crm[q]
    IN /\ r.op = "deal" /\ r.x \notin used /\ ReferencesHold(r)
       /\ rows' = rows \union {r.x} /\ used' = used \union {r.x}
       /\ companyOf' = [companyOf EXCEPT ![r.x] = r.company]
       /\ personOf' = [personOf EXCEPT ![r.x] = r.person]
       /\ stage' = [stage EXCEPT ![r.x] = r.y]
       /\ pipeline' = [pipeline EXCEPT ![r.x] = PipelineOf[r.y]]
       /\ AnswerCrm(q)
       /\ UNCHANGED <<stages, owner, items, values, announced>>

(***************************************************************************)
(* update_contact() and change_stage(), assign_opportunity().              *)
(***************************************************************************)
CheckMoveToCompany(q, p, co) ==
    /\ p \in rows \intersect People /\ IsRow(co)
    /\ AskCrm(q, [IdleCrm EXCEPT !.op = "link", !.x = p, !.company = co])
    /\ UNCHANGED <<rows, used, companyOf, personOf, stages, stage, pipeline, owner, items, values, announced>>

MoveToCompany(q) ==
    LET r == crm[q]
    IN /\ r.op = "link" /\ r.x \in rows /\ ReferencesHold(r)
       /\ companyOf' = [companyOf EXCEPT ![r.x] = r.company]
       /\ AnswerCrm(q)
       /\ UNCHANGED <<rows, used, personOf, stages, stage, pipeline, owner, items, values, announced>>

\* Mutant: any stage of the tenant will do.
CheckStageAny(q, d, st) ==
    /\ d \in rows \intersect Deals /\ st \in stages
    /\ AskCrm(q, [IdleCrm EXCEPT !.op = "stage", !.x = d, !.y = st, !.old = stage[d]])
    /\ UNCHANGED <<rows, used, companyOf, personOf, stages, stage, pipeline, owner, items, values, announced>>

\* The old stage is what this request read.
CheckStage(q, d, st) ==
    /\ d \in rows \intersect Deals /\ st \in stages /\ PipelineOf[st] = pipeline[d]
    /\ AskCrm(q, [IdleCrm EXCEPT !.op = "stage", !.x = d, !.y = st, !.old = stage[d]])
    /\ UNCHANGED <<rows, used, companyOf, personOf, stages, stage, pipeline, owner, items, values, announced>>

WriteStage(q) ==
    LET r == crm[q]
    IN /\ r.op = "stage" /\ r.x \in rows
       /\ stage' = [stage EXCEPT ![r.x] = r.y]
       /\ crm' = [crm EXCEPT ![q].op = "announce"]
       /\ UNCHANGED <<rows, used, companyOf, personOf, stages, pipeline, owner, items, values, announced>>

\* Published after the commit, in whatever order the requests get there.
AnnounceStage(q) ==
    /\ crm[q].op = "announce"
    /\ announced' = <<crm[q].old, crm[q].y>>
    /\ AnswerCrm(q)
    /\ UNCHANGED <<rows, used, companyOf, personOf, stages, stage, pipeline, owner, items, values>>

Assign(d, u) ==
    /\ d \in rows
    /\ owner' = [owner EXCEPT ![d] = u]
    /\ UNCHANGED <<rows, used, companyOf, personOf, stages, stage, pipeline, items, values, crm, announced>>

(***************************************************************************)
(* Tasks and notes, custom field values and tags.                          *)
(***************************************************************************)
CheckItem(q, i, x) ==
    /\ items[i] = Nobody /\ x \in rows
    /\ AskCrm(q, [IdleCrm EXCEPT !.op = "item", !.x = x, !.y = i])
    /\ UNCHANGED <<rows, used, companyOf, personOf, stages, stage, pipeline, owner, items, values, announced>>

InsertItem(q) ==
    LET r == crm[q]
    IN /\ r.op = "item" /\ r.x \in rows /\ items[r.y] = Nobody
       /\ items' = [items EXCEPT ![r.y] = r.x]
       /\ AnswerCrm(q)
       /\ UNCHANGED <<rows, used, companyOf, personOf, stages, stage, pipeline, owner, values, announced>>

DeleteItem(i) ==
    /\ items[i] # Nobody
    /\ items' = [items EXCEPT ![i] = Nobody]
    /\ UNCHANGED <<rows, used, companyOf, personOf, stages, stage, pipeline, owner, values, crm, announced>>

\* set_field_value() finds no value, attach_tag() does not look for one.
CheckValue(q, f, x) ==
    /\ x \in rows \intersect AppliesTo[f] /\ values[f][x] = 0
    /\ AskCrm(q, [IdleCrm EXCEPT !.op = "value", !.x = x, !.y = f])
    /\ UNCHANGED <<rows, used, companyOf, personOf, stages, stage, pipeline, owner, items, values, announced>>

\* One row per field and entity, NULLS NOT DISTINCT.
InsertValue(q) ==
    LET r == crm[q]
    IN /\ r.op = "value" /\ r.x \in rows /\ values[r.y][r.x] = 0
       /\ values' = [values EXCEPT ![r.y][r.x] = @ + 1]
       /\ AnswerCrm(q)
       /\ UNCHANGED <<rows, used, companyOf, personOf, stages, stage, pipeline, owner, items, announced>>

DetachTag(f, x) ==
    /\ values[f][x] = 1
    /\ values' = [values EXCEPT ![f][x] = 0]
    /\ UNCHANGED <<rows, used, companyOf, personOf, stages, stage, pipeline, owner, items, crm, announced>>

\* What a request referred to is gone, or the value is there: its write is refused.
CrmRefused(q) ==
    LET r == crm[q]
    IN /\ \/ r.op \in {"person", "deal"} /\ (r.x \in used \/ ~ ReferencesHold(r))
          \/ r.op = "link" /\ (r.x \notin rows \/ ~ ReferencesHold(r))
          \/ r.op = "stage" /\ r.x \notin rows
          \/ r.op = "item" /\ (r.x \notin rows \/ items[r.y] # Nobody)
          \/ r.op = "value" /\ (r.x \notin rows \/ values[r.y][r.x] = 1)
       /\ AnswerCrm(q)
       /\ UNCHANGED <<rows, used, companyOf, personOf, stages, stage, pipeline, owner, items, values, announced>>

(***************************************************************************)
(* Deletion.  Items, values and tags go with their entity; ON DELETE SET   *)
(* NULL on (tenant_id, company_id) would set tenant_id to NULL too, which  *)
(* is refused: as long as a contact or a deal refers to it, a company or   *)
(* a contact is not deleted.                                               *)
(***************************************************************************)
Referrers(x) == {y \in rows : (y \in People \union Deals /\ companyOf[y] = x)
                                 \/ (y \in Deals /\ personOf[y] = x)}

DeleteEntity(x) ==
    /\ x \in rows /\ Referrers(x) = {}
    /\ rows' = rows \ {x}
    /\ items' = [i \in Items |-> IF items[i] = x THEN Nobody ELSE items[i]]
    /\ values' = [f \in Fields |-> [values[f] EXCEPT ![x] = 0]]
    /\ companyOf' = [y \in DOMAIN companyOf |-> IF y = x THEN Nobody ELSE companyOf[y]]
    /\ personOf' = [d \in Deals |-> IF d = x THEN Nobody ELSE personOf[d]]
    /\ stage' = [d \in Deals |-> IF d = x THEN Nobody ELSE stage[d]]
    /\ pipeline' = [d \in Deals |-> IF d = x THEN Nobody ELSE pipeline[d]]
    /\ owner' = [d \in Deals |-> IF d = x THEN Nobody ELSE owner[d]]
    /\ UNCHANGED <<used, stages, crm, announced>>

CrmNext ==
    \/ \E co \in Companies : CreateCompany(co)
    \/ \E st \in Stages : CreateStage(st)
    \/ \E x \in Entities : DeleteEntity(x)
    \/ \E d \in Deals, u \in Users \union {Nobody} : Assign(d, u)
    \/ \E i \in Items : DeleteItem(i)
    \/ \E f \in Fields, x \in Entities : DetachTag(f, x)
    \/ \E q \in CrmRequests :
          \/ \E p \in People, co \in Companies \union {Nobody} : CheckPerson(q, p, co) \/ CheckMoveToCompany(q, p, co)
          \/ \E d \in Deals, st \in Stages, p \in People \union {Nobody}, co \in Companies \union {Nobody} :
                CheckDeal(q, d, st, p, co)
          \/ \E d \in Deals, st \in Stages : CheckStage(q, d, st)
          \/ \E i \in Items, x \in Entities : CheckItem(q, i, x)
          \/ \E f \in Fields, x \in Entities : CheckValue(q, f, x)
          \/ InsertPerson(q) \/ InsertDeal(q) \/ MoveToCompany(q) \/ WriteStage(q) \/ AnnounceStage(q)
          \/ InsertItem(q) \/ InsertValue(q) \/ CrmRefused(q)

-------------------------------------------------------------------------------
CrmTypeOK ==
    /\ rows \subseteq used /\ used \subseteq Entities /\ stages \subseteq Stages
    /\ companyOf \in [People \union Deals -> Companies \union {Nobody}]
    /\ personOf \in [Deals -> People \union {Nobody}]
    /\ stage \in [Deals -> Stages \union {Nobody}]
    /\ owner \in [Deals -> Users \union {Nobody}]
    /\ items \in [Items -> Entities \union {Nobody}]
    /\ values \in [Fields -> [Entities -> 0..1]]

\* Whatever is deleted between a request's checks and its write, no row refers
\* to one that is gone, and nothing is attached to one.
NoDanglingReference ==
    /\ \A y \in rows \ Companies : IsRow(companyOf[y])
    /\ \A d \in rows \intersect Deals : IsRow(personOf[d])
    /\ \A i \in Items : IsRow(items[i])
    /\ \A f \in Fields, x \in Entities : values[f][x] > 0 => x \in rows

\* No constraint relates the two columns: a deal stands on a stage of its own
\* pipeline, and only moves within it are announced, because every writer checks
\* the stage against a pipeline that never changes.
StageInPipeline ==
    /\ \A d \in rows \intersect Deals : stage[d] \in stages /\ PipelineOf[stage[d]] = pipeline[d]
    /\ announced # <<>> => PipelineOf[announced[1]] = PipelineOf[announced[2]]

\* No deletion or move that overlaps a write leaves a reference to a record that
\* is gone, or an opportunity in a stage of another pipeline
\* (opportunities.py, pipelines.py).
RecordsRefer ==
    /\ CrmTypeOK
    /\ NoDanglingReference
    /\ StageInPipeline
===============================================================================
