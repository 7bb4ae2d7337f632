---------------------------- MODULE CustomersProofs ----------------------------
(***************************************************************************)
(* Proofs about an agency's customers: the records of the CRM and what     *)
(* refers to them (CrmRecords), the threads of the inbox (Conversations),  *)
(* and the anonymous ways in (ContactCapture), for any number of records,  *)
(* requests and messages.                                                  *)
(***************************************************************************)
EXTENDS CrmRecords, Conversations, ContactCapture, FiniteSetTheorems, WellFoundedInduction, TLAPS

CrmSpec  == CrmInit /\ [][CrmNext]_crmVars
TalkNext == ThreadsNext \/ InboundNext \/ MessagesNext \/ TemplatesNext
TalkSpec == ConversationsInit /\ [][TalkNext]_talkVars
-----------------------------------------------------------------------------
(***************************************************************************)
(* Records.  What a request checked may be gone when it writes, but a row  *)
(* that is there still is the one it checked: ids are not used twice, and  *)
(* a deal keeps its pipeline.                                              *)
(***************************************************************************)
CrmOps  == {"none", "person", "deal", "link", "stage", "announce", "item", "value"}
Request == [op : CrmOps, x : Entities \cup {Nobody}, company : Companies \cup {Nobody},
            person : People \cup {Nobody}, y : Stages \cup Items \cup Fields \cup {Nobody},
            old : Stages \cup {Nobody}]

Checked(r) ==
    /\ r.op = "person" => r.x \in People
    /\ r.op = "deal" => r.x \in Deals /\ r.y \in stages
    /\ r.op = "link" => r.x \in People
    /\ r.op = "stage" => /\ r.x \in Deals \cap used /\ r.y \in stages
                         /\ r.x \in rows => PipelineOf[r.y] = pipeline[r.x]
    /\ r.op \in {"stage", "announce"} => PipelineOf[r.old] = PipelineOf[r.y]
    /\ r.op = "item" => r.x \in Entities /\ r.y \in Items
    /\ r.op = "value" => r.x \in Entities /\ r.y \in Fields

CTyped ==
    /\ CrmTypeOK
    /\ pipeline = [d \in Deals |-> pipeline[d]]
    /\ crm \in [CrmRequests -> Request]

CInv == CTyped /\ NoDanglingReference /\ StageInPipeline /\ \A q \in CrmRequests : Checked(crm[q])

LEMMA EntitiesApart ==
    /\ Companies \cap People = {} /\ Companies \cap Deals = {} /\ People \cap Deals = {}
    /\ Nobody \notin Entities /\ Nobody \notin Stages
    /\ Companies \subseteq Entities /\ People \subseteq Entities /\ Deals \subseteq Entities
BY CrmAssumption DEF Entities

\* What no step undoes.
RecordsGo ==
    /\ used \subseteq used' /\ stages \subseteq stages' /\ rows' \cap used \subseteq rows
    /\ \A d \in Deals \cap rows \cap rows' : pipeline'[d] = pipeline[d]

LEMMA CheckedKept ==
    ASSUME CInv, RecordsGo, NEW r \in Request, Checked(r) PROVE Checked(r)'
BY DEF Checked, RecordsGo

\* One request goes on.
LEMMA CrmWritten ==
    ASSUME CInv, RecordsGo, NEW q \in CrmRequests, NEW r \in Request, crm' = [crm EXCEPT ![q] = r],
           CrmTypeOK', pipeline' = [d \in Deals |-> pipeline'[d]],
           NoDanglingReference', StageInPipeline', Checked(r)'
    PROVE  CInv'
<1>1. /\ crm' \in [CrmRequests -> Request] /\ crm'[q] = r
      /\ \A u \in CrmRequests \ {q} : crm'[u] = crm[u] /\ crm[u] \in Request /\ Checked(crm[u])
  BY DEF CInv, CTyped
<1>2. ASSUME NEW u \in CrmRequests PROVE Checked(crm[u])'
  <2>1. CASE u = q
    BY <1>1, <2>1 DEF Checked
  <2>2. CASE u # q
    <3>1. PICK z \in Request : z = crm[u] /\ z = crm'[u] /\ Checked(z)
      BY <1>1, <2>2
    <3>2. Checked(z)'
      BY <3>1, CheckedKept
    <3>. QED  BY <3>1, <3>2 DEF Checked
  <2>. QED  BY <2>1, <2>2
<1>. QED  BY <1>1, <1>2 DEF CInv, CTyped

LEMMA CrmKept ==
    ASSUME CInv, RecordsGo, crm' = crm, CrmTypeOK', pipeline' = [d \in Deals |-> pipeline'[d]],
           NoDanglingReference', StageInPipeline'
    PROVE  CInv'
<1>1. ASSUME NEW u \in CrmRequests PROVE Checked(crm[u])'
  <2>1. PICK z \in Request : z = crm[u] /\ z = crm'[u] /\ Checked(z)
    BY DEF CInv, CTyped
  <2>2. Checked(z)'
    BY <2>1, CheckedKept
  <2>. QED  BY <2>1, <2>2 DEF Checked
<1>. QED  BY <1>1 DEF CInv, CTyped

LEMMA IdleIsRequest == IdleCrm \in Request /\ IdleCrm.op = "none" /\ Checked(IdleCrm)
BY DEF IdleCrm, Request, CrmOps, Checked

\* A check writes no row.
LEMMA RowsUntouched ==
    ASSUME CInv, UNCHANGED <<rows, used, companyOf, personOf, stages, stage, pipeline, owner, items, values, announced>>
    PROVE  /\ RecordsGo /\ CrmTypeOK' /\ pipeline' = [d \in Deals |-> pipeline'[d]]
           /\ NoDanglingReference' /\ StageInPipeline' /\ \A r \in Request : Checked(r) => Checked(r)'
BY DEF CInv, CTyped, RecordsGo, CrmTypeOK, NoDanglingReference, StageInPipeline, IsRow, Checked

LEMMA AskStep ==
    ASSUME CInv, UNCHANGED <<rows, used, companyOf, personOf, stages, stage, pipeline, owner, items, values, announced>>,
           NEW q \in CrmRequests, NEW r \in Request, crm' = [crm EXCEPT ![q] = r], Checked(r)
    PROVE  CInv'
BY RowsUntouched, CrmWritten

LEMMA ChecksStep ==
    ASSUME CInv, NEW q \in CrmRequests,
           \/ \E p \in People, co \in Companies \union {Nobody} : CheckPerson(q, p, co) \/ CheckMoveToCompany(q, p, co)
           \/ \E d \in Deals, st \in Stages, p \in People \union {Nobody}, co \in Companies \union {Nobody} :
                CheckDeal(q, d, st, p, co)
           \/ \E d \in Deals, st \in Stages : CheckStage(q, d, st)
           \/ \E i \in Items, x \in Entities : CheckItem(q, i, x)
           \/ \E f \in Fields, x \in Entities : CheckValue(q, f, x)
           \/ CrmRefused(q)
    PROVE  CInv'
<1>0. Companies \subseteq Entities /\ People \subseteq Entities /\ Deals \subseteq Entities
  BY EntitiesApart
<1>1. ASSUME NEW p \in People, NEW co \in Companies \union {Nobody}, CheckPerson(q, p, co) PROVE CInv'
  <2>1. PICK r : r = [IdleCrm EXCEPT !.op = "person", !.x = p, !.company = co]
    OBVIOUS
  <2>2. r \in Request /\ Checked(r)
    BY <1>0, <2>1 DEF IdleCrm, Request, CrmOps, Checked
  <2>. QED  BY <1>1, <2>1, <2>2, AskStep DEF CheckPerson, AskCrm
<1>2. ASSUME NEW p \in People, NEW co \in Companies \union {Nobody}, CheckMoveToCompany(q, p, co) PROVE CInv'
  <2>1. PICK r : r = [IdleCrm EXCEPT !.op = "link", !.x = p, !.company = co]
    OBVIOUS
  <2>2. r \in Request /\ Checked(r)
    BY <1>0, <2>1 DEF IdleCrm, Request, CrmOps, Checked
  <2>. QED  BY <1>2, <2>1, <2>2, AskStep DEF CheckMoveToCompany, AskCrm
<1>3. ASSUME NEW d \in Deals, NEW st \in Stages, NEW p \in People \union {Nobody},
             NEW co \in Companies \union {Nobody}, CheckDeal(q, d, st, p, co) PROVE CInv'
  <2>1. PICK r : r = [IdleCrm EXCEPT !.op = "deal", !.x = d, !.company = co, !.person = p, !.y = st]
    OBVIOUS
  <2>2. r \in Request /\ Checked(r)
    BY <1>0, <1>3, <2>1 DEF IdleCrm, Request, CrmOps, Checked, CheckDeal
  <2>. QED  BY <1>3, <2>1, <2>2, AskStep DEF CheckDeal, AskCrm
<1>4. ASSUME NEW d \in Deals, NEW st \in Stages, CheckStage(q, d, st) PROVE CInv'
  <2>1. PICK r : r = [IdleCrm EXCEPT !.op = "stage", !.x = d, !.y = st, !.old = stage[d]]
    OBVIOUS
  <2>2. stage[d] \in Stages \cup {Nobody} /\ d \in rows /\ rows \subseteq used /\ st \in stages
    BY <1>4 DEF CInv, CTyped, CrmTypeOK, CheckStage
  <2>3. PipelineOf[stage[d]] = pipeline[d] /\ PipelineOf[st] = pipeline[d]
    BY <1>4, <2>2 DEF CInv, StageInPipeline, CheckStage
  <2>4. r \in Request /\ Checked(r)
    BY <1>0, <2>1, <2>2, <2>3 DEF IdleCrm, Request, CrmOps, Checked
  <2>. QED  BY <1>4, <2>1, <2>4, AskStep DEF CheckStage, AskCrm
<1>5. ASSUME NEW i \in Items, NEW x \in Entities, CheckItem(q, i, x) PROVE CInv'
  <2>1. PICK r : r = [IdleCrm EXCEPT !.op = "item", !.x = x, !.y = i]
    OBVIOUS
  <2>2. r \in Request /\ Checked(r)
    BY <2>1 DEF IdleCrm, Request, CrmOps, Checked
  <2>. QED  BY <1>5, <2>1, <2>2, AskStep DEF CheckItem, AskCrm
<1>6. ASSUME NEW f \in Fields, NEW x \in Entities, CheckValue(q, f, x) PROVE CInv'
  <2>1. PICK r : r = [IdleCrm EXCEPT !.op = "value", !.x = x, !.y = f]
    OBVIOUS
  <2>2. r \in Request /\ Checked(r)
    BY <2>1 DEF IdleCrm, Request, CrmOps, Checked
  <2>. QED  BY <1>6, <2>1, <2>2, AskStep DEF CheckValue, AskCrm
<1>7. CASE CrmRefused(q)
  BY <1>7, IdleIsRequest, AskStep DEF CrmRefused, AnswerCrm
<1>. QED  BY <1>1, <1>2, <1>3, <1>4, <1>5, <1>6, <1>7

\* What a request that writes has checked.
LEMMA Asked ==
    ASSUME CInv, NEW q \in CrmRequests
    PROVE  crm[q] \in Request /\ Checked(crm[q])
BY DEF CInv, CTyped

LEMMA Answered ==
    ASSUME CInv, RecordsGo, NEW q \in CrmRequests, AnswerCrm(q),
           CrmTypeOK', pipeline' = [d \in Deals |-> pipeline'[d]], NoDanglingReference', StageInPipeline'
    PROVE  CInv'
<1>1. PICK r \in Request : r = IdleCrm /\ Checked(r)
  BY IdleIsRequest
<1>2. Checked(r)'
  BY <1>1, CheckedKept
<1>. QED  BY <1>1, <1>2, CrmWritten DEF AnswerCrm

LEMMA InsertPersonStep == ASSUME CInv, NEW q \in CrmRequests, InsertPerson(q) PROVE CInv'
<1>1. PICK r \in Request : r = crm[q] /\ r.op = "person" /\ r.x \in People
  BY Asked DEF InsertPerson, Checked
<1>2. PICK x \in People, co \in Companies \cup {Nobody} : x = r.x /\ co = r.company
  BY <1>1 DEF Request
<1>3. /\ x \notin used /\ IsRow(co) /\ rows' = rows \cup {x} /\ used' = used \cup {x}
      /\ companyOf' = [companyOf EXCEPT ![x] = co] /\ AnswerCrm(q)
      /\ UNCHANGED <<personOf, stages, stage, pipeline, owner, items, values, announced>>
  BY <1>1, <1>2 DEF InsertPerson, ReferencesHold
<1>4. CTyped /\ CrmTypeOK /\ x \in Entities /\ x \notin Deals
  BY EntitiesApart DEF CInv, CTyped
<1>5. RecordsGo
  BY <1>3, <1>4 DEF RecordsGo, CrmTypeOK
<1>6. CrmTypeOK' /\ pipeline' = [d \in Deals |-> pipeline'[d]]
  BY <1>3, <1>4 DEF CrmTypeOK, CTyped
<1>7. NoDanglingReference'
  BY <1>3, <1>4 DEF CInv, CrmTypeOK, NoDanglingReference, IsRow, Entities
<1>8. StageInPipeline'
  BY <1>3, <1>4 DEF CInv, StageInPipeline
<1>. QED  BY <1>3, <1>5, <1>6, <1>7, <1>8, Answered

LEMMA InsertDealStep == ASSUME CInv, NEW q \in CrmRequests, InsertDeal(q) PROVE CInv'
<1>1. PICK r \in Request : r = crm[q] /\ r.op = "deal" /\ r.x \in Deals /\ r.y \in stages
  BY Asked DEF InsertDeal, Checked
<1>2. PICK x \in Deals, co \in Companies \cup {Nobody}, p \in People \cup {Nobody}, st \in stages :
         x = r.x /\ co = r.company /\ p = r.person /\ st = r.y
  BY <1>1 DEF Request
<1>3. /\ x \notin used /\ IsRow(co) /\ IsRow(p) /\ rows' = rows \cup {x} /\ used' = used \cup {x}
      /\ companyOf' = [companyOf EXCEPT ![x] = co] /\ personOf' = [personOf EXCEPT ![x] = p]
      /\ stage' = [stage EXCEPT ![x] = st] /\ pipeline' = [pipeline EXCEPT ![x] = PipelineOf[st]]
      /\ AnswerCrm(q) /\ UNCHANGED <<stages, owner, items, values, announced>>
  BY <1>1, <1>2 DEF InsertDeal, ReferencesHold
<1>4. CTyped /\ CrmTypeOK /\ x \in Entities
  BY EntitiesApart DEF CInv, CTyped
<1>5. pipeline'[x] = PipelineOf[st] /\ \A d \in Deals \ {x} : pipeline'[d] = pipeline[d]
  BY <1>3, <1>4 DEF CTyped
<1>6. RecordsGo
  BY <1>3, <1>4, <1>5 DEF RecordsGo, CrmTypeOK
<1>7. CrmTypeOK'
  BY <1>3, <1>4 DEF CrmTypeOK
<1>8. pipeline' = [d \in Deals |-> pipeline'[d]]
  BY <1>3, <1>4 DEF CTyped
<1>9. NoDanglingReference'
  BY <1>3, <1>4 DEF CInv, CrmTypeOK, NoDanglingReference, IsRow, Entities
<1>10. StageInPipeline'
  BY <1>3, <1>4, <1>5 DEF CInv, StageInPipeline, CrmTypeOK
<1>. QED  BY <1>3, <1>6, <1>7, <1>8, <1>9, <1>10, Answered

LEMMA MoveToCompanyStep == ASSUME CInv, NEW q \in CrmRequests, MoveToCompany(q) PROVE CInv'
<1>1. PICK r \in Request : r = crm[q] /\ r.op = "link" /\ r.x \in People
  BY Asked DEF MoveToCompany, Checked
<1>2. PICK x \in People, co \in Companies \cup {Nobody} : x = r.x /\ co = r.company
  BY <1>1 DEF Request
<1>3. /\ x \in rows /\ IsRow(co) /\ companyOf' = [companyOf EXCEPT ![x] = co] /\ AnswerCrm(q)
      /\ UNCHANGED <<rows, used, personOf, stages, stage, pipeline, owner, items, values, announced>>
  BY <1>1, <1>2 DEF MoveToCompany, ReferencesHold
<1>4. CTyped /\ CrmTypeOK
  BY DEF CInv, CTyped
<1>5. RecordsGo /\ CrmTypeOK' /\ pipeline' = [d \in Deals |-> pipeline'[d]]
  BY <1>3, <1>4 DEF RecordsGo, CrmTypeOK, CTyped
<1>6. NoDanglingReference' /\ StageInPipeline'
  BY <1>3, <1>4 DEF CInv, CrmTypeOK, NoDanglingReference, StageInPipeline, IsRow, Entities
<1>. QED  BY <1>3, <1>5, <1>6, Answered

LEMMA WriteStageStep == ASSUME CInv, NEW q \in CrmRequests, WriteStage(q) PROVE CInv'
<1>1. PICK r \in Request : /\ r = crm[q] /\ r.op = "stage" /\ r.x \in Deals \cap used /\ r.y \in stages /\ r.x \in rows
                           /\ PipelineOf[r.y] = pipeline[r.x] /\ PipelineOf[r.old] = PipelineOf[r.y]
  BY Asked DEF WriteStage, Checked
<1>2. PICK x \in Deals, st \in stages : x = r.x /\ st = r.y
  BY <1>1
<1>3. /\ stage' = [stage EXCEPT ![x] = st] /\ crm' = [crm EXCEPT ![q].op = "announce"]
      /\ UNCHANGED <<rows, used, companyOf, personOf, stages, pipeline, owner, items, values, announced>>
  BY <1>1, <1>2 DEF WriteStage
<1>4. CTyped /\ CrmTypeOK
  BY DEF CInv, CTyped
<1>5. RecordsGo /\ CrmTypeOK' /\ pipeline' = [d \in Deals |-> pipeline'[d]]
  BY <1>3, <1>4 DEF RecordsGo, CrmTypeOK, CTyped
<1>6. NoDanglingReference' /\ StageInPipeline'
  BY <1>1, <1>2, <1>3, <1>4 DEF CInv, CrmTypeOK, NoDanglingReference, StageInPipeline, IsRow
<1>7. PICK z : z = [r EXCEPT !.op = "announce"]
  OBVIOUS
<1>8. z \in Request /\ z.op = "announce" /\ z.old = r.old /\ z.y = r.y
  BY <1>7 DEF Request, CrmOps
<1>9. Checked(z)'
  BY <1>1, <1>8 DEF Checked
<1>10. crm' = [crm EXCEPT ![q] = z]
  BY <1>1, <1>3, <1>4, <1>7 DEF CTyped
<1>. QED  BY <1>5, <1>6, <1>8, <1>9, <1>10, CrmWritten

LEMMA AnnounceStageStep == ASSUME CInv, NEW q \in CrmRequests, AnnounceStage(q) PROVE CInv'
<1>1. PICK r \in Request : r = crm[q] /\ r.op = "announce" /\ PipelineOf[r.old] = PipelineOf[r.y]
  BY Asked DEF AnnounceStage, Checked
<1>2. /\ announced' = <<r.old, r.y>> /\ AnswerCrm(q)
      /\ UNCHANGED <<rows, used, companyOf, personOf, stages, stage, pipeline, owner, items, values>>
  BY <1>1 DEF AnnounceStage
<1>3. RecordsGo /\ CrmTypeOK' /\ pipeline' = [d \in Deals |-> pipeline'[d]]
  BY <1>2 DEF RecordsGo, CInv, CrmTypeOK, CTyped
<1>4. NoDanglingReference'
  BY <1>2 DEF CInv, NoDanglingReference, IsRow
<1>5. StageInPipeline'
  BY <1>1, <1>2 DEF CInv, StageInPipeline
<1>. QED  BY <1>2, <1>3, <1>4, <1>5, Answered

LEMMA InsertItemStep == ASSUME CInv, NEW q \in CrmRequests, InsertItem(q) PROVE CInv'
<1>1. PICK r \in Request : r = crm[q] /\ r.op = "item" /\ r.x \in Entities /\ r.y \in Items
  BY Asked DEF InsertItem, Checked
<1>2. PICK x \in Entities, i \in Items : x = r.x /\ i = r.y
  BY <1>1
<1>3. /\ x \in rows /\ items' = [items EXCEPT ![i] = x] /\ AnswerCrm(q)
      /\ UNCHANGED <<rows, used, companyOf, personOf, stages, stage, pipeline, owner, values, announced>>
  BY <1>1, <1>2 DEF InsertItem
<1>4. RecordsGo /\ CrmTypeOK' /\ pipeline' = [d \in Deals |-> pipeline'[d]]
  BY <1>3 DEF RecordsGo, CInv, CrmTypeOK, CTyped
<1>5. NoDanglingReference' /\ StageInPipeline'
  BY <1>3 DEF CInv, CTyped, CrmTypeOK, NoDanglingReference, StageInPipeline, IsRow
<1>. QED  BY <1>3, <1>4, <1>5, Answered

\* One value of one field and entity is written.
LEMMA ValueWritten ==
    ASSUME CInv, NEW f \in Fields, NEW x \in Entities, NEW n \in 0..1, n > 0 => x \in rows,
           values' = [values EXCEPT ![f][x] = n],
           UNCHANGED <<rows, used, companyOf, personOf, stages, stage, pipeline, owner, items, announced>>
    PROVE  /\ RecordsGo /\ CrmTypeOK' /\ pipeline' = [d \in Deals |-> pipeline'[d]]
           /\ NoDanglingReference' /\ StageInPipeline'
<1>1. values \in [Fields -> [Entities -> 0..1]]
  BY DEF CInv, CTyped, CrmTypeOK
<1>2. PICK row : row = [values[f] EXCEPT ![x] = n]
  OBVIOUS
<1>3. row \in [Entities -> 0..1] /\ row[x] = n /\ \A y \in Entities \ {x} : row[y] = values[f][y]
  BY <1>1, <1>2
<1>4. values' = [values EXCEPT ![f] = row]
  BY <1>1, <1>2
<1>5. values' \in [Fields -> [Entities -> 0..1]] /\ values'[f] = row /\ \A g \in Fields \ {f} : values'[g] = values[g]
  BY <1>1, <1>3, <1>4
<1>6. \A g \in Fields, y \in Entities : values'[g][y] > 0 => y \in rows
  BY <1>3, <1>5 DEF CInv, NoDanglingReference
<1>7. NoDanglingReference'
  BY <1>6 DEF CInv, NoDanglingReference, IsRow
<1>. QED  BY <1>5, <1>7 DEF RecordsGo, CInv, CTyped, CrmTypeOK, StageInPipeline

LEMMA InsertValueStep == ASSUME CInv, NEW q \in CrmRequests, InsertValue(q) PROVE CInv'
<1>1. PICK r \in Request : r = crm[q] /\ r.op = "value" /\ r.x \in Entities /\ r.y \in Fields
  BY Asked DEF InsertValue, Checked
<1>2. PICK x \in Entities, f \in Fields : x = r.x /\ f = r.y
  BY <1>1
<1>3. /\ x \in rows /\ values[f][x] = 0 /\ values' = [values EXCEPT ![f][x] = 0 + 1] /\ AnswerCrm(q)
      /\ UNCHANGED <<rows, used, companyOf, personOf, stages, stage, pipeline, owner, items, announced>>
  BY <1>1, <1>2 DEF InsertValue, CInv, CTyped, CrmTypeOK
<1>4. values' = [values EXCEPT ![f][x] = 1] /\ 1 \in 0..1
  BY <1>3
<1>. QED  BY <1>3, <1>4, ValueWritten, Answered

LEMMA DeleteEntityStep == ASSUME CInv, NEW x \in Entities, DeleteEntity(x) PROVE CInv'
<1>1. /\ x \in rows /\ Referrers(x) = {} /\ rows' = rows \ {x}
      /\ items' = [i \in Items |-> IF items[i] = x THEN Nobody ELSE items[i]]
      /\ values' = [f \in Fields |-> [values[f] EXCEPT ![x] = 0]]
      /\ companyOf' = [y \in DOMAIN companyOf |-> IF y = x THEN Nobody ELSE companyOf[y]]
      /\ personOf' = [d \in Deals |-> IF d = x THEN Nobody ELSE personOf[d]]
      /\ stage' = [d \in Deals |-> IF d = x THEN Nobody ELSE stage[d]]
      /\ pipeline' = [d \in Deals |-> IF d = x THEN Nobody ELSE pipeline[d]]
      /\ owner' = [d \in Deals |-> IF d = x THEN Nobody ELSE owner[d]]
      /\ UNCHANGED <<used, stages, crm, announced>>
  BY DEF DeleteEntity
<1>2. CTyped /\ CrmTypeOK /\ x # Nobody
  BY EntitiesApart DEF CInv, CTyped
<1>3. RecordsGo
  BY <1>1, <1>2 DEF RecordsGo
<1>4. values' \in [Fields -> [Entities -> 0..1]] /\ \A f \in Fields : values'[f][x] = 0 /\
          \A y \in Entities \ {x} : values'[f][y] = values[f][y]
  <2>1. \A f \in Fields : values'[f] = [values[f] EXCEPT ![x] = 0] /\ values[f] \in [Entities -> 0..1]
    BY <1>1, <1>2 DEF CrmTypeOK
  <2>2. \A f \in Fields : /\ values'[f] \in [Entities -> 0..1] /\ values'[f][x] = 0
                          /\ \A y \in Entities \ {x} : values'[f][y] = values[f][y]
    <3>. SUFFICES ASSUME NEW f \in Fields
                  PROVE  /\ values'[f] \in [Entities -> 0..1] /\ values'[f][x] = 0
                         /\ \A y \in Entities \ {x} : values'[f][y] = values[f][y]
      OBVIOUS
    <3>1. PICK was \in [Entities -> 0..1] : was = values[f]
      BY <2>1
    <3>2. 0 \in 0..1 /\ values'[f] = [was EXCEPT ![x] = 0]
      BY <2>1, <3>1
    <3>3. PICK row : row = [was EXCEPT ![x] = 0]
      OBVIOUS
    <3>4. row \in [Entities -> 0..1] /\ row[x] = 0 /\ \A y \in Entities \ {x} : row[y] = was[y]
      BY <3>1, <3>2, <3>3
    <3>. QED  BY <3>1, <3>2, <3>3, <3>4
  <2>. QED  BY <1>1, <2>2
<1>5. CrmTypeOK'
  <2>1. companyOf' \in [People \union Deals -> Companies \union {Nobody}]
    <3>1. DOMAIN companyOf = People \union Deals /\ \A y \in People \union Deals : companyOf[y] \in Companies \union {Nobody}
      BY <1>2 DEF CrmTypeOK
    <3>2. PICK was : was = companyOf
      OBVIOUS
    <3>3. companyOf' = [y \in People \union Deals |-> IF y = x THEN Nobody ELSE was[y]]
      BY <1>1, <3>1, <3>2
    <3>4. \A y \in People \union Deals : was[y] \in Companies \union {Nobody}
      BY <3>1, <3>2
    <3>. QED  BY <3>3, <3>4
  <2>2. personOf' \in [Deals -> People \union {Nobody}] /\ owner' \in [Deals -> Users \union {Nobody}]
    BY <1>1, <1>2 DEF CrmTypeOK
  <2>3. items' \in [Items -> Entities \union {Nobody}]
    BY <1>1, <1>2 DEF CrmTypeOK
  <2>4. stage' \in [Deals -> Stages \union {Nobody}] 
    BY <1>1, <1>2 DEF CrmTypeOK
  <2>5. rows' \subseteq used' /\ used' \subseteq Entities /\ stages' \subseteq Stages
    BY <1>1, <1>2 DEF CrmTypeOK
  <2>. QED  BY <1>1, <1>2, <1>4, <2>1, <2>2, <2>3, <2>4, <2>5 DEF CrmTypeOK
<1>6. pipeline' = [d \in Deals |-> pipeline'[d]]
  BY <1>1
<1>7. NoDanglingReference'
  <2>1. \A y \in rows' \ Companies : IsRow(companyOf[y])' /\ y \in People \cup Deals
    <3>. SUFFICES ASSUME NEW y \in rows' \ Companies PROVE IsRow(companyOf[y])' /\ y \in People \cup Deals
      OBVIOUS
    <3>1. y \in rows /\ y # x /\ y \in People \cup Deals /\ IsRow(companyOf[y])
      BY <1>1, <1>2 DEF CInv, NoDanglingReference, CrmTypeOK, Entities
    <3>2. companyOf'[y] = companyOf[y] /\ companyOf[y] # x
      BY <1>1, <1>2, <3>1 DEF CrmTypeOK, Referrers
    <3>. QED  BY <1>1, <3>1, <3>2 DEF IsRow
  <2>2. \A d \in rows' \cap Deals : IsRow(personOf[d])'
    <3>. SUFFICES ASSUME NEW d \in rows' \cap Deals PROVE IsRow(personOf[d])'
      OBVIOUS
    <3>1. d \in rows /\ d # x /\ IsRow(personOf[d])
      BY <1>1 DEF CInv, NoDanglingReference
    <3>2. personOf'[d] = personOf[d] /\ personOf[d] # x
      BY <1>1, <3>1 DEF Referrers
    <3>. QED  BY <1>1, <3>1, <3>2 DEF IsRow
  <2>3. \A i \in Items : IsRow(items[i])'
    BY <1>1, <1>2 DEF CInv, NoDanglingReference, IsRow
  <2>4. \A f \in Fields, y \in Entities : values'[f][y] > 0 => y \in rows'
    BY <1>1, <1>4 DEF CInv, NoDanglingReference
  <2>. QED  BY <2>1, <2>2, <2>3, <2>4 DEF NoDanglingReference
<1>8. StageInPipeline'
  BY <1>1, <1>2 DEF CInv, StageInPipeline
<1>. QED  BY <1>1, <1>3, <1>5, <1>6, <1>7, <1>8, CrmKept

\* The steps of a single transaction.
LEMMA CrmAtOnce ==
    ASSUME CInv,
           \/ \E co \in Companies : CreateCompany(co)
           \/ \E st \in Stages : CreateStage(st)
           \/ \E d \in Deals, u \in Users \union {Nobody} : Assign(d, u)
           \/ \E i \in Items : DeleteItem(i)
           \/ \E f \in Fields, x \in Entities : DetachTag(f, x)
           \/ UNCHANGED crmVars
    PROVE  CInv'
<1>1. CTyped /\ CrmTypeOK /\ rows \subseteq Entities
  BY DEF CInv, CTyped, CrmTypeOK
<1>2. ASSUME NEW co \in Companies, CreateCompany(co) PROVE CInv'
  <2>1. /\ co \notin used /\ co \in Entities /\ co \notin Deals /\ rows' = rows \cup {co} /\ used' = used \cup {co}
        /\ UNCHANGED <<companyOf, personOf, stages, stage, pipeline, owner, items, values, crm, announced>>
    BY <1>2, EntitiesApart DEF CreateCompany
  <2>2. RecordsGo /\ CrmTypeOK' /\ pipeline' = [d \in Deals |-> pipeline'[d]]
    BY <1>1, <2>1 DEF RecordsGo, CrmTypeOK, CTyped
  <2>3. NoDanglingReference' /\ StageInPipeline'
    BY <1>1, <2>1 DEF CInv, NoDanglingReference, StageInPipeline, IsRow
  <2>. QED  BY <2>1, <2>2, <2>3, CrmKept
<1>3. ASSUME NEW st \in Stages, CreateStage(st) PROVE CInv'
  <2>1. /\ stages' = stages \cup {st}
        /\ UNCHANGED <<rows, used, companyOf, personOf, stage, pipeline, owner, items, values, crm, announced>>
    BY <1>3 DEF CreateStage
  <2>2. RecordsGo /\ CrmTypeOK' /\ pipeline' = [d \in Deals |-> pipeline'[d]]
    BY <1>1, <2>1 DEF RecordsGo, CrmTypeOK, CTyped
  <2>3. NoDanglingReference' /\ StageInPipeline'
    BY <1>1, <2>1 DEF CInv, NoDanglingReference, StageInPipeline, IsRow
  <2>. QED  BY <2>1, <2>2, <2>3, CrmKept
<1>4. ASSUME NEW d \in Deals, NEW u \in Users \union {Nobody}, Assign(d, u) PROVE CInv'
  <2>1. /\ owner' = [owner EXCEPT ![d] = u]
        /\ UNCHANGED <<rows, used, companyOf, personOf, stages, stage, pipeline, items, values, crm, announced>>
    BY <1>4 DEF Assign
  <2>2. RecordsGo /\ CrmTypeOK' /\ pipeline' = [k \in Deals |-> pipeline'[k]]
    BY <1>1, <2>1 DEF RecordsGo, CrmTypeOK, CTyped
  <2>3. NoDanglingReference' /\ StageInPipeline'
    BY <1>1, <2>1 DEF CInv, NoDanglingReference, StageInPipeline, IsRow
  <2>. QED  BY <2>1, <2>2, <2>3, CrmKept
<1>5. ASSUME NEW i \in Items, DeleteItem(i) PROVE CInv'
  <2>1. /\ items' = [items EXCEPT ![i] = Nobody]
        /\ UNCHANGED <<rows, used, companyOf, personOf, stages, stage, pipeline, owner, values, crm, announced>>
    BY <1>5 DEF DeleteItem
  <2>2. RecordsGo /\ CrmTypeOK' /\ pipeline' = [k \in Deals |-> pipeline'[k]]
    BY <1>1, <2>1 DEF RecordsGo, CrmTypeOK, CTyped
  <2>3. NoDanglingReference' /\ StageInPipeline'
    BY <1>1, <2>1 DEF CInv, CrmTypeOK, NoDanglingReference, StageInPipeline, IsRow
  <2>. QED  BY <2>1, <2>2, <2>3, CrmKept
<1>6. ASSUME NEW f \in Fields, NEW x \in Entities, DetachTag(f, x) PROVE CInv'
  <2>1. /\ values' = [values EXCEPT ![f][x] = 0] /\ 0 \in 0..1 /\ ~(0 > 0)
        /\ UNCHANGED <<rows, used, companyOf, personOf, stages, stage, pipeline, owner, items, crm, announced>>
    BY <1>6 DEF DetachTag
  <2>. QED  BY <2>1, ValueWritten, CrmKept
<1>7. CASE UNCHANGED crmVars
  BY <1>7, RowsUntouched, CrmKept DEF crmVars
<1>. QED  BY <1>2, <1>3, <1>4, <1>5, <1>6, <1>7

LEMMA CrmStep == ASSUME CInv, [CrmNext]_crmVars PROVE CInv'
BY CrmAtOnce, DeleteEntityStep, ChecksStep, InsertPersonStep, InsertDealStep, MoveToCompanyStep, WriteStageStep,
   AnnounceStageStep, InsertItemStep, InsertValueStep DEF CrmNext

LEMMA CrmStart == ASSUME CrmInit PROVE CInv
<1>1. CTyped
  <2>1. CrmTypeOK
    BY DEF CrmInit, CrmRest, CrmTypeOK
  <2>. QED  BY <2>1, IdleIsRequest DEF CrmInit, CrmRest, CTyped
<1>2. NoDanglingReference /\ StageInPipeline
  BY DEF CrmInit, CrmRest, NoDanglingReference, StageInPipeline, IsRow
<1>3. \A q \in CrmRequests : Checked(crm[q])
  BY IdleIsRequest DEF CrmInit, CrmRest
<1>. QED  BY <1>1, <1>2, <1>3 DEF CInv

\* Whatever is deleted or moved between a request's checks and its write, no
\* record refers to one that is gone and no deal stands on a stage of another
\* pipeline (opportunities.py, pipelines.py, contacts.py).
THEOREM RecordsReferHolds == CrmSpec => []RecordsRefer
<1>1. CInv => RecordsRefer
  BY DEF CInv, CTyped, RecordsRefer
<1>. QED  BY CrmStart, CrmStep, <1>1, PTL DEF CrmSpec
-----------------------------------------------------------------------------
(***************************************************************************)
(* Threads.  The deliveries between the search for a thread and its insert *)
(* hold different locks, and one that found none still would not: only a   *)
(* delivery that holds the lock adds a thread that an earlier one opened.  *)
(***************************************************************************)
TalkRow    == [there : BOOLEAN, contact : Clients \cup {Nil}, channel : TalkChannels \cup {Nil},
               by : {"nobody", "staff", "inbound"}]
MessageRow == [talk : Talks, inbound : BOOLEAN, note : BOOLEAN, row : {"open", "there", "gone"}]
Delivery   == [pc : {"idle", "resolved", "found", "done", "failed"}, contact : Clients \cup {Nil},
               channel : TalkChannels \cup {Nil}, talk : Talks \cup {Nil}]
Reply      == [pc : {"idle", "send", "record", "recording", "done", "failed"}, talk : Talks \cup {Nil}, number : Nat]

TalksTyped ==
    /\ clients \subseteq Clients
    /\ talks \in Seq(Talks) /\ IsInjective(talks)
    /\ talk \in [Talks -> TalkRow]
    /\ \A t \in Talks : talk[t].contact \in clients \cup {Nil}
    /\ \A t \in Talks : talk[t].there => Contains(talks, t)

NoticesTyped ==
    /\ notices \in [Notices -> TemplateNames \cup {Nil}]
    /\ \A m, n \in Notices : m # n /\ notices[m] = notices[n] => notices[m] = Nil

IsInbound(t, a, ch) == talk[t].there /\ talk[t].by = "inbound" /\ talk[t].contact = a /\ talk[t].channel = ch

Deliver ==
    /\ delivery \in [Deliveries -> Delivery]
    /\ \A d \in Deliveries : delivery[d].pc \in {"resolved", "found"} => delivery[d].contact \in Clients
    /\ \A d \in Deliveries : delivery[d].pc = "found" => LockOf(d) \in talkLock
    /\ \A d, e \in Deliveries : delivery[d].pc = "found" /\ delivery[e].pc = "found" /\ d # e => LockOf(d) # LockOf(e)
    /\ \A d \in Deliveries : delivery[d].pc = "found" /\ delivery[d].talk = Nil =>
          \A t \in Talks : ~ IsInbound(t, delivery[d].contact, delivery[d].channel)

Sent(t) == {r \in Repliers : reply[r].talk = t /\ (reply[r].number # 0 \/ reply[r].pc = "record")}

RepliesSent ==
    /\ reply \in [Repliers -> Reply] /\ accepted \in [Talks -> Nat]
    /\ \A r \in Repliers : reply[r].pc \in {"send", "record"} => reply[r].talk \in Talks
    /\ \A r \in Repliers : reply[r].number # 0 => reply[r].pc \in {"recording", "done"}
    /\ \A t \in Talks : IsFiniteSet(Sent(t)) /\ Cardinality(Sent(t)) <= accepted[t]

MessagesTyped == messages \in Seq(MessageRow)

TInv ==
    /\ TalksTyped /\ NoticesTyped /\ MessagesTyped
    /\ Deliver /\ OneThreadPerInbound /\ MessagesInThreads /\ RepliesSent

LEMMA LastIsOne ==
    ASSUME NEW n \in Nat, NEW S \in SUBSET (1..n), S # {} PROVE Max(S) \in S
<1>1. PICK R : R = {ss \in Nat \X Nat : ss[1] < ss[2]}
  OBVIOUS
<1>2. IsWellFoundedOn(R, Nat)
  BY <1>1, NatLessThanWellFounded DEF OpToRel
<1>3. PICK T : T = {n - i : i \in S}
  OBVIOUS
<1>4. \A i \in S : i \in Int /\ n - i \in Nat
  OBVIOUS
<1>5. T \subseteq Nat /\ T # {}
  BY <1>3, <1>4
<1>6. PICK x \in T : \A y \in T : ~(<<y, x>> \in R)
  BY <1>2, <1>5, WFMin
<1>7. PICK c \in S : x = n - c
  BY <1>3
<1>8. ASSUME NEW d \in S PROVE c >= d
  <2>1. n - d \in T
    BY <1>3
  <2>2. ~(n - d < n - c)
    BY <1>1, <1>4, <1>6, <1>7, <2>1
  <2>. QED  BY <1>4, <2>2
<1>. QED  BY <1>8 DEF Max

\* The newest thread is one that is there; there is none only if none is.
LEMMA NewestIsOne ==
    ASSUME TalksTyped, NEW a, NEW ch
    PROVE  /\ Newest(a, ch) \in Talks \cup {Nil}
           /\ Newest(a, ch) = Nil => \A t \in Talks : ~ IsInbound(t, a, ch)
<1>0. DOMAIN talks = 1..Len(talks)
  BY DEF TalksTyped
<1>1. PICK S : S = Found(a, ch)
  OBVIOUS
<1>2. S = {i \in 1..Len(talks) : talk[talks[i]].there /\ talk[talks[i]].contact = a /\ talk[talks[i]].channel = ch}
  BY <1>0, <1>1 DEF Found
<1>3. S \in SUBSET (1..Len(talks))
  BY <1>2
<1>4. Len(talks) \in Nat /\ \A i \in 1..Len(talks) : talks[i] \in Talks
  BY DEF TalksTyped
<1>5. CASE S = {}
  <2>1. ASSUME NEW t \in Talks, IsInbound(t, a, ch) PROVE FALSE
    <3>1. PICK i \in 1..Len(talks) : talks[i] = t
      BY <2>1 DEF IsInbound, TalksTyped, Contains
    <3>. QED  BY <1>2, <1>5, <2>1, <3>1 DEF IsInbound
  <2>. QED  BY <1>1, <1>5, <2>1 DEF Newest
<1>6. CASE S # {}
  <2>1. Max(S) \in S
    BY <1>4, <1>6, <1>3, LastIsOne
  <2>2. Newest(a, ch) = talks[Max(S)]
    BY <1>1, <1>6 DEF Newest
  <2>. QED  BY <1>4, <1>3, <2>1, <2>2, TalkAssumption
<1>. QED  BY <1>5, <1>6

\* No thread becomes one that a delivery opened.
NoMoreInbound ==
    \A t \in Talks, a \in Clients, ch \in TalkChannels \cup {Nil} : IsInbound(t, a, ch)' => IsInbound(t, a, ch)

LEMMA DeliverKept == ASSUME Deliver, UNCHANGED <<delivery, talkLock>>, NoMoreInbound PROVE Deliver'
<1>1. \A d \in Deliveries : delivery[d].pc = "found" =>
        delivery[d].contact \in Clients /\ delivery[d].channel \in TalkChannels \cup {Nil}
  BY DEF Deliver, Delivery
<1>2. \A d \in Deliveries : delivery[d].pc = "found" /\ delivery[d].talk = Nil =>
        \A t \in Talks : ~ IsInbound(t, delivery[d].contact, delivery[d].channel)'
  <2>. SUFFICES ASSUME NEW d \in Deliveries, delivery[d].pc = "found", delivery[d].talk = Nil, NEW t \in Talks,
                       IsInbound(t, delivery[d].contact, delivery[d].channel)'
                PROVE  FALSE
    OBVIOUS
  <2>1. PICK a \in Clients, ch \in TalkChannels \cup {Nil} : a = delivery[d].contact /\ ch = delivery[d].channel
    BY <1>1
  <2>2. ~ IsInbound(t, a, ch)
    BY <2>1 DEF Deliver
  <2>3. IsInbound(t, a, ch)'
    BY <2>1 DEF IsInbound
  <2>. QED  BY <2>2, <2>3 DEF NoMoreInbound
<1>. QED  BY <1>2 DEF Deliver, LockOf

LEMMA OneThreadKept == ASSUME OneThreadPerInbound, TalksTyped', NoMoreInbound PROVE OneThreadPerInbound'
<1>. SUFFICES ASSUME NEW t \in Talks, NEW u \in Talks, talk'[t].there, talk'[u].there,
                     talk'[t].by = "inbound", talk'[u].by = "inbound", talk'[t].contact = talk'[u].contact,
                     talk'[t].contact # Nil, talk'[t].channel = talk'[u].channel
              PROVE  t = u
  BY DEF OneThreadPerInbound
<1>1. PICK a \in Clients, ch \in TalkChannels \cup {Nil} : a = talk'[t].contact /\ ch = talk'[t].channel
  BY DEF TalksTyped, TalkRow
<1>2. IsInbound(t, a, ch)' /\ IsInbound(u, a, ch)'
  BY <1>1 DEF IsInbound
<1>3. IsInbound(t, a, ch) /\ IsInbound(u, a, ch) /\ a # Nil
  BY <1>2, TalkAssumption DEF NoMoreInbound
<1>. QED  BY <1>3 DEF IsInbound, OneThreadPerInbound

LEMMA RepliesKept == ASSUME RepliesSent, UNCHANGED <<reply, accepted>> PROVE RepliesSent'
BY DEF RepliesSent, Sent

LEMMA MessageRows ==
    ASSUME MessagesTyped
    PROVE  /\ DOMAIN messages = 1..Len(messages) /\ Len(messages) \in Nat
           /\ \A i \in DOMAIN messages : messages[i] \in MessageRow /\ messages[i].talk \in Talks
<1>1. DOMAIN messages = 1..Len(messages) /\ Len(messages) \in Nat /\ \A i \in 1..Len(messages) : messages[i] \in MessageRow
  BY DEF MessagesTyped
<1>2. \A m \in MessageRow : m.talk \in Talks
  BY DEF MessageRow
<1>. QED  BY <1>1, <1>2

LEMMA NewTalkStep ==
    ASSUME TInv, NEW t \in Talks, NEW a \in Clients, NEW ch \in TalkChannels \cup {Nil}, NEW by \in {"staff", "inbound"},
           NewTalk(t, a, ch, by), UNCHANGED <<clients, messages>>
    PROVE  /\ TalksTyped' /\ MessagesInThreads'
           /\ talk'[t] = [there |-> TRUE, contact |-> a, channel |-> ch, by |-> by]
           /\ \A u \in Talks \ {t} : talk'[u] = talk[u]
<1>0. PICK row : row = [there |-> TRUE, contact |-> a, channel |-> ch, by |-> by]
  OBVIOUS
<1>1. row \in TalkRow /\ row = [there |-> TRUE, contact |-> a, channel |-> ch, by |-> by] /\ row.contact = a /\ row.there
  BY <1>0 DEF TalkRow
<1>2. /\ a \in clients /\ ~ Contains(talks, t) /\ talks' = Append(talks, t) /\ talk' = [talk EXCEPT ![t] = row]
  BY <1>1 DEF NewTalk
<1>3. TalksTyped
  BY DEF TInv
<1>4. talk' \in [Talks -> TalkRow] /\ talk'[t] = row /\ \A u \in Talks \ {t} : talk'[u] = talk[u]
  BY <1>1, <1>2, <1>3 DEF TalksTyped
<1>5. /\ talks' \in Seq(Talks) /\ Len(talks) \in Nat /\ Len(talks') = Len(talks) + 1 /\ talks'[Len(talks) + 1] = t
      /\ \A i \in 1..Len(talks) : talks'[i] = talks[i] /\ talks[i] # t
  BY <1>2, <1>3 DEF TalksTyped, Contains
<1>6. IsInjective(talks)'
  <2>1. DOMAIN talks' = 1..(Len(talks) + 1) /\ DOMAIN talks = 1..Len(talks)
    BY <1>3, <1>5 DEF TalksTyped
  <2>2. \A i, j \in 1..Len(talks) : talks[i] = talks[j] => i = j
    BY <1>3, <2>1 DEF TalksTyped, IsInjective
  <2>3. \A i \in 1..(Len(talks) + 1) : i \in 1..Len(talks) \/ i = Len(talks) + 1
    BY <1>5
  <2>4. \A i, j \in 1..(Len(talks) + 1) : talks'[i] = talks'[j] => i = j
    BY <1>5, <2>2, <2>3
  <2>. QED  BY <2>1, <2>4 DEF IsInjective
<1>7. \A u \in Talks : talk'[u].there => Contains(talks, u)'
  <2>1. ASSUME NEW u \in Talks, talk'[u].there PROVE \E i \in 1..Len(talks') : talks'[i] = u
    <3>1. CASE u = t
      BY <1>5, <3>1
    <3>2. CASE u # t
      <4>1. PICK i \in 1..Len(talks) : talks[i] = u
        BY <1>3, <1>4, <2>1, <3>2 DEF TalksTyped, Contains
      <4>2. i \in 1..(Len(talks) + 1)
        BY <1>5
      <4>. QED  BY <1>5, <4>1, <4>2
    <3>. QED  BY <3>1, <3>2
  <2>. QED  BY <2>1 DEF Contains
<1>8. TalksTyped'
  BY <1>1, <1>2, <1>3, <1>4, <1>5, <1>6, <1>7 DEF TalksTyped
<1>9. MessagesInThreads'
  <2>1. \A i \in DOMAIN messages : messages[i].talk \in Talks
    BY MessageRows DEF TInv
  <2>. QED  BY <1>1, <1>4, <2>1 DEF TInv, MessagesInThreads
<1>. QED  BY <1>1, <1>4, <1>8, <1>9

LEMMA ThreadsStep == ASSUME TInv, ThreadsNext PROVE TInv'
<1>0. TalksTyped /\ NoticesTyped /\ Deliver /\ OneThreadPerInbound /\ RepliesSent /\ MessagesTyped /\ MessagesInThreads
  BY DEF TInv
<1>1. ASSUME NEW a \in Clients, ForgetClient(a) PROVE TInv'
  <2>1. /\ clients' = clients \ {a} /\ UNCHANGED <<talks, messages, delivery, talkLock, reply, accepted, notices>>
        /\ talk' = [t \in Talks |-> IF talk[t].contact = a THEN [talk[t] EXCEPT !.contact = Nil] ELSE talk[t]]
    BY <1>1 DEF ForgetClient
  <2>2. \A t \in Talks : /\ talk'[t] \in TalkRow /\ talk'[t].there = talk[t].there
                         /\ talk'[t].contact = (IF talk[t].contact = a THEN Nil ELSE talk[t].contact)
                         /\ talk'[t].channel = talk[t].channel /\ talk'[t].by = talk[t].by
    <3>. SUFFICES ASSUME NEW t \in Talks
                  PROVE  /\ talk'[t] \in TalkRow /\ talk'[t].there = talk[t].there
                         /\ talk'[t].contact = (IF talk[t].contact = a THEN Nil ELSE talk[t].contact)
                         /\ talk'[t].channel = talk[t].channel /\ talk'[t].by = talk[t].by
      OBVIOUS
    <3>1. PICK was \in TalkRow : was = talk[t]
      BY <1>0 DEF TalksTyped
    <3>2. talk'[t] = IF was.contact = a THEN [was EXCEPT !.contact = Nil] ELSE was
      BY <2>1, <3>1
    <3>. QED  BY <3>1, <3>2 DEF TalkRow
  <2>3. TalksTyped'
    BY <1>0, <2>1, <2>2, TalkAssumption DEF TalksTyped, Contains
  <2>4. NoMoreInbound
    BY <2>2, TalkAssumption DEF NoMoreInbound, IsInbound
  <2>5. MessagesInThreads'
    BY <1>0, <2>1, <2>2, MessageRows DEF MessagesInThreads
  <2>. QED  BY <1>0, <2>1, <2>3, <2>4, <2>5, DeliverKept, OneThreadKept, RepliesKept DEF TInv, NoticesTyped, MessagesTyped
<1>2. ASSUME NEW t \in Talks, DeleteThread(t) PROVE TInv'
  <2>0. PICK was \in TalkRow : was = talk[t]
    BY <1>0 DEF TalksTyped
  <2>7. PICK row : row = [was EXCEPT !.there = FALSE]
    OBVIOUS
  <2>1. row \in TalkRow /\ ~ row.there /\ row.contact = talk[t].contact /\ row = [talk[t] EXCEPT !.there = FALSE]
    BY <2>0, <2>7 DEF TalkRow
  <2>2. /\ talk' = [talk EXCEPT ![t] = row] /\ UNCHANGED <<clients, talks, delivery, talkLock, reply, accepted, notices>>
        /\ messages' = [i \in DOMAIN messages |->
                          IF messages[i].talk = t THEN [messages[i] EXCEPT !.row = "gone"] ELSE messages[i]]
    BY <1>2, <2>1 DEF DeleteThread
  <2>3. talk' \in [Talks -> TalkRow] /\ talk'[t] = row /\ \A u \in Talks \ {t} : talk'[u] = talk[u]
    BY <1>0, <2>1, <2>2 DEF TalksTyped
  <2>4. TalksTyped' /\ NoMoreInbound
    BY <1>0, <2>1, <2>2, <2>3 DEF TalksTyped, Contains, NoMoreInbound, IsInbound
  <2>5. MessagesTyped' /\ MessagesInThreads'
    <3>1. DOMAIN messages = 1..Len(messages) /\ Len(messages) \in Nat /\ \A i \in 1..Len(messages) : messages[i] \in MessageRow
      BY <1>0 DEF MessagesTyped
    <3>2. ASSUME NEW i \in 1..Len(messages)
          PROVE  /\ messages'[i] \in MessageRow /\ messages'[i].talk = messages[i].talk
                 /\ messages[i].talk = t => messages'[i].row = "gone"
                 /\ messages[i].talk # t => messages'[i].row = messages[i].row
      <4>1. PICK sent \in MessageRow : sent = messages[i]
        BY <3>1
      <4>2. messages'[i] = IF sent.talk = t THEN [sent EXCEPT !.row = "gone"] ELSE sent
        BY <2>2, <3>1, <4>1
      <4>. QED  BY <4>1, <4>2 DEF MessageRow
    <3>3. messages' \in Seq(MessageRow) /\ DOMAIN messages' = DOMAIN messages
      <4>1. messages' \in [1..Len(messages) -> MessageRow]
        BY <2>2, <3>1, <3>2
      <4>. QED  BY <3>1, <4>1
    <3>4. \A i \in 1..Len(messages) : messages'[i].talk \in Talks
      BY <3>2 DEF MessageRow
    <3>. QED  BY <1>0, <2>3, <3>1, <3>2, <3>3, <3>4 DEF MessagesTyped, MessagesInThreads
  <2>. QED  BY <1>0, <2>2, <2>4, <2>5, DeliverKept, OneThreadKept, RepliesKept DEF TInv, NoticesTyped
<1>3. ASSUME NEW t \in Talks, NEW ch \in TalkChannels, UpdateThread(t, ch) PROVE TInv'
  <2>0. PICK was \in TalkRow : was = talk[t]
    BY <1>0 DEF TalksTyped
  <2>7. PICK row : row = [was EXCEPT !.channel = ch, !.by = "staff"]
    OBVIOUS
  <2>1. /\ row \in TalkRow /\ row = [was EXCEPT !.channel = ch, !.by = "staff"]
        /\ row.by = "staff" /\ row.contact = talk[t].contact /\ row.there = talk[t].there
    BY <2>0, <2>7 DEF TalkRow
  <2>2. /\ talk' = [talk EXCEPT ![t] = row]
        /\ UNCHANGED <<clients, talks, messages, delivery, talkLock, reply, accepted, notices>>
    BY <1>0, <1>3, <2>0, <2>1 DEF UpdateThread, TalksTyped
  <2>3. talk' \in [Talks -> TalkRow] /\ talk'[t] = row /\ \A u \in Talks \ {t} : talk'[u] = talk[u]
    BY <1>0, <2>1, <2>2 DEF TalksTyped
  <2>4. TalksTyped' /\ NoMoreInbound
    BY <1>0, <2>1, <2>2, <2>3 DEF TalksTyped, Contains, NoMoreInbound, IsInbound
  <2>5. MessagesInThreads'
    BY <1>0, <2>1, <2>2, <2>3, MessageRows DEF MessagesInThreads
  <2>. QED  BY <1>0, <2>2, <2>4, <2>5, DeliverKept, OneThreadKept, RepliesKept DEF TInv, NoticesTyped, MessagesTyped
<1>4. ASSUME NEW t \in Talks, NEW ch \in TalkChannels, NEW a \in Clients, CreateThread(t, a, ch) PROVE TInv'
  <2>1. NewTalk(t, a, ch, "staff") /\ UNCHANGED <<clients, messages, delivery, talkLock, reply, accepted, notices>>
    BY <1>4 DEF CreateThread
  <2>2. /\ TalksTyped' /\ MessagesInThreads' /\ \A u \in Talks \ {t} : talk'[u] = talk[u]
        /\ talk'[t] = [there |-> TRUE, contact |-> a, channel |-> ch, by |-> "staff"]
    BY <2>1, NewTalkStep
  <2>3. NoMoreInbound
    <3>1. talk'[t].by = "staff"
      BY <2>2
    <3>. QED  BY <2>2, <3>1 DEF NoMoreInbound, IsInbound
  <2>. QED  BY <1>0, <2>1, <2>2, <2>3, DeliverKept, OneThreadKept, RepliesKept DEF TInv, NoticesTyped, MessagesTyped
<1>. QED  BY <1>1, <1>2, <1>3, <1>4 DEF ThreadsNext

\* A delivery moves to a point where it holds no lock.
LEMMA DeliveryMoves ==
    ASSUME Deliver, NEW d \in Deliveries, NEW row \in Delivery, delivery' = [delivery EXCEPT ![d] = row],
           row.pc # "found", row.pc = "resolved" => row.contact \in Clients,
           \A e \in Deliveries \ {d} : delivery[e].pc = "found" =>
              /\ LockOf(e) \in talkLock'
              /\ delivery[e].talk = Nil => \A t \in Talks : ~ IsInbound(t, delivery[e].contact, delivery[e].channel)'
    PROVE  Deliver'
<1>1. /\ delivery' \in [Deliveries -> Delivery] /\ delivery'[d] = row
      /\ \A e \in Deliveries \ {d} : delivery'[e] = delivery[e]
  BY DEF Deliver
<1>2. \A e \in Deliveries \ {d} : LockOf(e)' = LockOf(e)
  BY <1>1 DEF LockOf
<1>3. \A e \in Deliveries : delivery'[e].pc = "found" => e # d /\ delivery[e].pc = "found" /\ LockOf(e)' = LockOf(e)
  BY <1>1, <1>2
<1>4. \A e \in Deliveries : delivery'[e].pc \in {"resolved", "found"} => delivery'[e].contact \in Clients
  BY <1>1 DEF Deliver
<1>5. \A e, f \in Deliveries : delivery'[e].pc = "found" /\ delivery'[f].pc = "found" /\ e # f => LockOf(e)' # LockOf(f)'
  BY <1>3 DEF Deliver
<1>6. \A e \in Deliveries : delivery'[e].pc = "found" => LockOf(e)' \in talkLock'
  BY <1>3
<1>7. \A e \in Deliveries : delivery'[e].pc = "found" /\ delivery'[e].talk = Nil =>
        \A t \in Talks : ~ IsInbound(t, delivery[e].contact, delivery[e].channel)'
  BY <1>1, <1>3
<1>. QED  BY <1>1, <1>4, <1>5, <1>6, <1>7 DEF Deliver

LEMMA Waiting ==
    ASSUME Deliver, NEW d \in Deliveries, delivery[d].pc = "found"
    PROVE  \A e \in Deliveries \ {d} : delivery[e].pc = "found" =>
              /\ LockOf(e) \in talkLock \ {LockOf(d)}
              /\ delivery[e].talk = Nil => \A t \in Talks : ~ IsInbound(t, delivery[e].contact, delivery[e].channel)
BY DEF Deliver

\* A delivery that ends without writing a thread.
LEMMA DeliveryEnds ==
    ASSUME TInv, NEW d \in Deliveries, NEW pc \in {"done", "failed"}, NEW t \in Talks \cup {Nil},
           delivery[d].pc = "found", EndDelivery(d, pc, t),
           UNCHANGED <<clients, talks, talk, messages, reply, accepted, notices>>
    PROVE  TInv'
<1>1. PICK was \in Delivery : was = delivery[d]
  BY DEF TInv, Deliver
<1>2. PICK row : row = [was EXCEPT !.pc = pc, !.talk = t]
  OBVIOUS
<1>3. row \in Delivery /\ row.pc = pc
  BY <1>1, <1>2 DEF Delivery
<1>4. delivery' = [delivery EXCEPT ![d] = row] /\ talkLock' = talkLock \ {LockOf(d)}
  BY <1>1, <1>2 DEF EndDelivery, TInv, Deliver
<1>5. \A e \in Deliveries \ {d} : delivery[e].pc = "found" =>
        /\ LockOf(e) \in talkLock'
        /\ delivery[e].talk = Nil => \A u \in Talks : ~ IsInbound(u, delivery[e].contact, delivery[e].channel)'
  BY <1>4, Waiting DEF TInv, IsInbound
<1>6. Deliver'
  BY <1>3, <1>4, <1>5, DeliveryMoves DEF TInv
<1>. QED  BY <1>6, RepliesKept
          DEF TInv, TalksTyped, NoticesTyped, MessagesTyped, OneThreadPerInbound, MessagesInThreads, Contains

LEMMA InsertThreadStep == ASSUME TInv, NEW d \in Deliveries, NEW t \in Talks, InsertThread(d, t) PROVE TInv'
<1>0. TalksTyped /\ NoticesTyped /\ Deliver /\ OneThreadPerInbound /\ RepliesSent /\ MessagesTyped /\ MessagesInThreads
  BY DEF TInv
<1>1. PICK a \in Clients, ch \in TalkChannels \cup {Nil} : a = delivery[d].contact /\ ch = delivery[d].channel
  BY <1>0 DEF InsertThread, Deliver, Delivery
<1>2. /\ delivery[d].pc = "found" /\ delivery[d].talk = Nil /\ NewTalk(t, a, ch, "inbound") /\ EndDelivery(d, "done", t)
      /\ UNCHANGED <<clients, messages, reply, accepted, notices>>
  BY <1>1 DEF InsertThread
<1>3. /\ TalksTyped' /\ MessagesInThreads' /\ \A u \in Talks \ {t} : talk'[u] = talk[u]
      /\ talk'[t] = [there |-> TRUE, contact |-> a, channel |-> ch, by |-> "inbound"]
  BY <1>2, NewTalkStep
<1>4. talk'[t].contact = a /\ talk'[t].channel = ch
  BY <1>3
<1>5. \A u \in Talks : ~ IsInbound(u, a, ch)
  BY <1>0, <1>1, <1>2 DEF Deliver
<1>6. OneThreadPerInbound'
  <2>. SUFFICES ASSUME NEW u \in Talks, NEW v \in Talks, talk'[u].there, talk'[v].there, u # v,
                       talk'[u].by = "inbound", talk'[v].by = "inbound", talk'[u].contact = talk'[v].contact,
                       talk'[u].contact # Nil, talk'[u].channel = talk'[v].channel
                PROVE  FALSE
    BY DEF OneThreadPerInbound
  <2>1. CASE u = t \/ v = t
    BY <1>3, <1>4, <1>5, <2>1 DEF IsInbound
  <2>2. CASE u # t /\ v # t
    BY <1>0, <1>3, <2>2 DEF OneThreadPerInbound
  <2>. QED  BY <2>1, <2>2
<1>7. PICK was \in Delivery : was = delivery[d]
  BY <1>0 DEF Deliver
<1>8. PICK row : row = [was EXCEPT !.pc = "done", !.talk = t]
  OBVIOUS
<1>9. row \in Delivery /\ row.pc = "done"
  BY <1>7, <1>8 DEF Delivery
<1>10. delivery' = [delivery EXCEPT ![d] = row] /\ talkLock' = talkLock \ {LockOf(d)}
  BY <1>0, <1>2, <1>7, <1>8 DEF EndDelivery, Deliver
<1>11. ASSUME NEW e \in Deliveries \ {d}, delivery[e].pc = "found", delivery[e].talk = Nil, NEW u \in Talks
       PROVE  ~ IsInbound(u, delivery[e].contact, delivery[e].channel)'
  <2>1. ~ IsInbound(u, delivery[e].contact, delivery[e].channel) /\ LockOf(e) # LockOf(d)
    BY <1>0, <1>2, <1>11 DEF Deliver
  <2>2. delivery'[e] = delivery[e]
    BY <1>10
  <2>3. CASE u = t
    <3>1. ~ (delivery[e].contact = a /\ delivery[e].channel = ch)
      BY <1>1, <2>1 DEF LockOf
    <3>. QED  BY <1>4, <2>2, <2>3, <3>1 DEF IsInbound
  <2>4. CASE u # t
    BY <1>3, <2>1, <2>2, <2>4 DEF IsInbound
  <2>. QED  BY <2>3, <2>4
<1>12. \A e \in Deliveries \ {d} : delivery[e].pc = "found" => LockOf(e) \in talkLock'
  BY <1>0, <1>2, <1>10, Waiting
<1>13. \A e \in Deliveries \ {d} : delivery'[e] = delivery[e]
  BY <1>10
<1>14. \A e \in Deliveries \ {d} : delivery[e].pc = "found" =>
        /\ LockOf(e) \in talkLock'
        /\ delivery[e].talk = Nil => \A u \in Talks : ~ IsInbound(u, delivery[e].contact, delivery[e].channel)'
  BY <1>11, <1>12
<1>15. Deliver'
  BY <1>0, <1>9, <1>10, <1>14, DeliveryMoves
<1>. QED  BY <1>0, <1>2, <1>3, <1>6, <1>15, RepliesKept DEF TInv, NoticesTyped, MessagesTyped

LEMMA LockThreadStep == ASSUME TInv, NEW d \in Deliveries, LockThread(d) PROVE TInv'
<1>0. TalksTyped /\ Deliver
  BY DEF TInv
<1>1. PICK was \in Delivery : was = delivery[d] /\ was.pc = "resolved" /\ was.contact \in Clients
  BY <1>0 DEF LockThread, Deliver
<1>2. PICK a, ch : a = was.contact /\ ch = was.channel
  OBVIOUS
<1>3. PICK t \in Talks \cup {Nil} : t = Newest(a, ch) /\ (t = Nil => \A u \in Talks : ~ IsInbound(u, a, ch))
  BY <1>0, NewestIsOne
<1>4. PICK row : row = [was EXCEPT !.pc = "found", !.talk = t]
  OBVIOUS
<1>5. row \in Delivery /\ row.pc = "found" /\ row.talk = t /\ row.contact = a /\ row.channel = ch
  BY <1>1, <1>2, <1>4 DEF Delivery
<1>6. /\ delivery' = [delivery EXCEPT ![d] = row] /\ talkLock' = talkLock \cup {LockOf(d)} /\ LockOf(d) \notin talkLock
      /\ UNCHANGED <<clients, talks, talk, messages, reply, accepted, notices>>
  BY <1>0, <1>1, <1>2, <1>3, <1>4 DEF LockThread, Deliver
<1>7. /\ delivery' \in [Deliveries -> Delivery] /\ delivery'[d] = row
      /\ \A e \in Deliveries \ {d} : delivery'[e] = delivery[e]
  BY <1>0, <1>5, <1>6 DEF Deliver
<1>8. LockOf(d)' = LockOf(d) /\ \A e \in Deliveries \ {d} : LockOf(e)' = LockOf(e)
  BY <1>1, <1>2, <1>5, <1>7 DEF LockOf
<1>9. Deliver'
  <2>1. \A e \in Deliveries : delivery'[e].pc \in {"resolved", "found"} => delivery'[e].contact \in Clients
    BY <1>0, <1>1, <1>2, <1>5, <1>7 DEF Deliver
  <2>2. \A e \in Deliveries : delivery'[e].pc = "found" => LockOf(e)' \in talkLock'
    BY <1>0, <1>6, <1>7, <1>8 DEF Deliver
  <2>3. \A e, f \in Deliveries : delivery'[e].pc = "found" /\ delivery'[f].pc = "found" /\ e # f => LockOf(e)' # LockOf(f)'
    BY <1>0, <1>6, <1>7, <1>8 DEF Deliver
  <2>4. \A e \in Deliveries : delivery'[e].pc = "found" /\ delivery'[e].talk = Nil =>
          \A u \in Talks : ~ IsInbound(u, delivery'[e].contact, delivery'[e].channel)
    BY <1>0, <1>3, <1>5, <1>7 DEF Deliver
  <2>5. \A e \in Deliveries : delivery'[e].pc = "found" /\ delivery'[e].talk = Nil =>
          \A u \in Talks : ~ IsInbound(u, delivery[e].contact, delivery[e].channel)'
    BY <1>6, <2>4 DEF IsInbound
  <2>. QED  BY <1>7, <2>1, <2>2, <2>3, <2>5 DEF Deliver
<1>. QED  BY <1>6, <1>9, RepliesKept
          DEF TInv, TalksTyped, NoticesTyped, MessagesTyped, OneThreadPerInbound, MessagesInThreads, Contains

LEMMA ResolveContactStep ==
    ASSUME TInv, NEW d \in Deliveries, NEW a \in Clients, NEW ch \in TalkChannels, ResolveContact(d, a, ch) PROVE TInv'
<1>1. PICK row : row = [pc |-> "resolved", contact |-> a, channel |-> ch, talk |-> Nil]
  OBVIOUS
<1>2. row \in Delivery /\ row.pc = "resolved" /\ row.contact = a
  BY <1>1 DEF Delivery
<1>3. /\ delivery' = [delivery EXCEPT ![d] = row]
      /\ UNCHANGED <<clients, talks, talk, messages, talkLock, reply, accepted, notices>>
  BY <1>1 DEF ResolveContact
<1>4. \A e \in Deliveries \ {d} : delivery[e].pc = "found" =>
        /\ LockOf(e) \in talkLock'
        /\ delivery[e].talk = Nil => \A u \in Talks : ~ IsInbound(u, delivery[e].contact, delivery[e].channel)'
  BY <1>3 DEF TInv, Deliver, IsInbound
<1>5. Deliver'
  BY <1>2, <1>3, <1>4, DeliveryMoves DEF TInv
<1>. QED  BY <1>3, <1>5, RepliesKept
          DEF TInv, TalksTyped, NoticesTyped, MessagesTyped, OneThreadPerInbound, MessagesInThreads, Contains

LEMMA InboundStep == ASSUME TInv, InboundNext PROVE TInv'
<1>1. ASSUME NEW d \in Deliveries, ReuseThread(d) PROVE TInv'
  <2>1. delivery[d].talk \in Talks \cup {Nil}
    BY DEF TInv, Deliver, Delivery
  <2>. QED  BY <1>1, <2>1, DeliveryEnds DEF ReuseThread
<1>2. ASSUME NEW d \in Deliveries, InsertThreadFails(d) PROVE TInv'
  BY <1>2, DeliveryEnds DEF InsertThreadFails
<1>. QED  BY <1>1, <1>2, LockThreadStep, InsertThreadStep, ResolveContactStep DEF InboundNext

-----------------------------------------------------------------------------
(***************************************************************************)
(* Messages.  A reply counts as sent from the provider's answer on, so no  *)
(* thread has more of them than the provider took.                         *)
(***************************************************************************)
\* A step of messages and replies leaves the threads alone.
LEMMA OnlyMessages ==
    ASSUME TInv, UNCHANGED <<clients, talks, talk, delivery, talkLock, notices>>
    PROVE  TalksTyped' /\ NoticesTyped' /\ Deliver' /\ OneThreadPerInbound'
BY DEF TInv, TalksTyped, NoticesTyped, Contains, Deliver, LockOf, IsInbound, OneThreadPerInbound

LEMMA Flushed ==
    ASSUME TInv, NEW t \in Talks, NEW inbound \in BOOLEAN, NEW note \in BOOLEAN, Flush(t, inbound, note), UNCHANGED talk
    PROVE  MessagesTyped' /\ MessagesInThreads'
<1>1. PICK m : m = [talk |-> t, inbound |-> inbound, note |-> note, row |-> "open"]
  OBVIOUS
<1>2. m \in MessageRow /\ m.talk = t
  BY <1>1 DEF MessageRow
<1>3. talk[t].there /\ messages' = Append(messages, m) /\ messages \in Seq(MessageRow)
  BY <1>1 DEF Flush, TInv, MessagesTyped
<1>4. MessagesTyped'
  BY <1>2, <1>3 DEF MessagesTyped
<1>5. /\ Len(messages) \in Nat /\ DOMAIN messages' = 1..(Len(messages) + 1) /\ messages'[Len(messages) + 1] = m
      /\ DOMAIN messages = 1..Len(messages) /\ \A i \in 1..Len(messages) : messages'[i] = messages[i]
  BY <1>2, <1>3
<1>6. \A i \in 1..(Len(messages) + 1) : i \in 1..Len(messages) \/ i = Len(messages) + 1
  BY <1>5
<1>7. MessagesInThreads'
  BY <1>2, <1>3, <1>5, <1>6 DEF TInv, MessagesInThreads
<1>. QED  BY <1>4, <1>7

LEMMA MessagesUntouched ==
    ASSUME TInv, UNCHANGED <<talk, messages>> PROVE MessagesTyped' /\ MessagesInThreads'
BY DEF TInv, MessagesTyped, MessagesInThreads

\* One reply goes on, and no more of them count as sent.
LEMMA ReplyMoves ==
    ASSUME RepliesSent, NEW r \in Repliers, NEW row \in Reply, reply' = [reply EXCEPT ![r] = row],
           accepted' \in [Talks -> Nat], \A t \in Talks : accepted[t] <= accepted'[t],
           row.pc \in {"send", "record"} => row.talk \in Talks,
           row.number # 0 => row.pc \in {"recording", "done"},
           row.number # 0 \/ row.pc = "record" => reply[r].pc = "record" /\ row.talk = reply[r].talk
    PROVE  RepliesSent'
<1>1. reply' \in [Repliers -> Reply] /\ reply'[r] = row /\ \A q \in Repliers \ {r} : reply'[q] = reply[q]
  BY DEF RepliesSent
<1>2. \A q \in Repliers : reply'[q].pc \in {"send", "record"} => reply'[q].talk \in Talks
  BY <1>1 DEF RepliesSent
<1>3. \A q \in Repliers : reply'[q].number # 0 => reply'[q].pc \in {"recording", "done"}
  BY <1>1 DEF RepliesSent
<1>4. ASSUME NEW t \in Talks PROVE IsFiniteSet(Sent(t)') /\ Cardinality(Sent(t)') <= accepted'[t]
  <2>1. Sent(t)' \in SUBSET Sent(t)
    BY <1>1 DEF Sent
  <2>2. IsFiniteSet(Sent(t)) /\ Cardinality(Sent(t)) <= accepted[t] /\ accepted[t] \in Nat /\ accepted'[t] \in Nat
    BY DEF RepliesSent
  <2>3. IsFiniteSet(Sent(t)') /\ Cardinality(Sent(t)') <= Cardinality(Sent(t))
    BY <2>1, <2>2, FS_Subset
  <2>4. Cardinality(Sent(t)') \in Nat /\ Cardinality(Sent(t)) \in Nat
    BY <2>2, <2>3, FS_CardinalityType
  <2>5. \A m, n, k \in Nat : m <= n /\ n <= k => m <= k
    OBVIOUS
  <2>6. Cardinality(Sent(t)') <= accepted[t]
    BY <2>2, <2>3, <2>4, <2>5
  <2>. QED  BY <2>2, <2>3, <2>4, <2>5, <2>6
<1>. QED  BY <1>1, <1>2, <1>3, <1>4 DEF RepliesSent

LEMMA SendReplyStep == ASSUME TInv, NEW r \in Repliers, SendReply(r) PROVE RepliesSent'
<1>0. RepliesSent
  BY DEF TInv
<1>1. PICK was \in Reply : was = reply[r] /\ was.pc = "send" /\ was.talk \in Talks /\ was.number = 0
  BY <1>0 DEF SendReply, RepliesSent
<1>2. PICK row : row = [was EXCEPT !.pc = "record"]
  OBVIOUS
<1>3. row \in Reply /\ row.pc = "record" /\ row.talk = was.talk /\ row.number = 0
  BY <1>1, <1>2 DEF Reply
<1>4. reply' = [reply EXCEPT ![r] = row] /\ accepted' = [accepted EXCEPT ![was.talk] = accepted[was.talk] + 1]
  BY <1>0, <1>1, <1>2 DEF SendReply, RepliesSent
<1>5. /\ reply' \in [Repliers -> Reply] /\ reply'[r] = row /\ \A q \in Repliers \ {r} : reply'[q] = reply[q]
      /\ accepted' \in [Talks -> Nat]
  BY <1>0, <1>1, <1>3, <1>4 DEF RepliesSent
<1>6. \A q \in Repliers : reply'[q].pc \in {"send", "record"} => reply'[q].talk \in Talks
  BY <1>0, <1>1, <1>3, <1>5 DEF RepliesSent
<1>7. \A q \in Repliers : reply'[q].number # 0 => reply'[q].pc \in {"recording", "done"}
  BY <1>0, <1>3, <1>5 DEF RepliesSent
<1>8. ASSUME NEW t \in Talks PROVE IsFiniteSet(Sent(t)') /\ Cardinality(Sent(t)') <= accepted'[t]
  <2>1. IsFiniteSet(Sent(t)) /\ Cardinality(Sent(t)) <= accepted[t] /\ accepted[t] \in Nat /\ Cardinality(Sent(t)) \in Nat
    BY <1>0, FS_CardinalityType DEF RepliesSent
  <2>2. CASE t = was.talk
    <3>1. Sent(t)' = Sent(t) \cup {r} /\ r \notin Sent(t)
      BY <1>1, <1>3, <1>5, <2>2 DEF Sent
    <3>2. IsFiniteSet(Sent(t)') /\ Cardinality(Sent(t)') = Cardinality(Sent(t)) + 1
      BY <2>1, <3>1, FS_AddElement
    <3>3. accepted'[t] = accepted[t] + 1
      BY <1>0, <1>4, <2>2 DEF RepliesSent
    <3>. QED  BY <2>1, <3>2, <3>3
  <2>3. CASE t # was.talk
    <3>1. Sent(t)' = Sent(t)
      BY <1>1, <1>3, <1>5, <2>3 DEF Sent
    <3>2. accepted'[t] = accepted[t]
      BY <1>0, <1>4, <2>3 DEF RepliesSent
    <3>. QED  BY <2>1, <3>1, <3>2
  <2>. QED  BY <2>2, <2>3
<1>. QED  BY <1>5, <1>6, <1>7, <1>8 DEF RepliesSent

LEMMA RecordReplyStep == ASSUME TInv, NEW r \in Repliers, RecordReply(r) PROVE TInv'
<1>0. RepliesSent
  BY DEF TInv
<1>1. PICK was \in Reply : was = reply[r] /\ was.pc = "record" /\ was.talk \in Talks
  BY <1>0 DEF RecordReply, RepliesSent
<1>2. PICK t \in Talks, n \in Nat : t = was.talk /\ n = Len(messages) + 1
  BY <1>1 DEF TInv, MessagesTyped
<1>3. PICK row : row = [was EXCEPT !.pc = "recording", !.number = n]
  OBVIOUS
<1>4. row \in Reply /\ row.pc = "recording" /\ row.talk = was.talk
  BY <1>1, <1>3 DEF Reply
<1>5. /\ Flush(t, FALSE, FALSE) /\ reply' = [reply EXCEPT ![r] = row]
      /\ UNCHANGED <<clients, talks, talk, delivery, talkLock, accepted, notices>>
  BY <1>0, <1>1, <1>2, <1>3 DEF RecordReply, RepliesSent
<1>6. RepliesSent'
  <2>1. accepted' \in [Talks -> Nat] /\ \A s \in Talks : accepted[s] <= accepted'[s]
    BY <1>0, <1>5 DEF RepliesSent
  <2>2. row.number # 0 \/ row.pc = "record" => reply[r].pc = "record" /\ row.talk = reply[r].talk
    BY <1>1, <1>4
  <2>. QED  BY <1>0, <1>1, <1>4, <1>5, <2>1, <2>2, ReplyMoves
<1>7. MessagesTyped' /\ MessagesInThreads'
  BY <1>5, Flushed
<1>. QED  BY <1>5, <1>6, <1>7, OnlyMessages DEF TInv

LEMMA CommitMessageStep == ASSUME TInv, NEW i \in 1..MaxMessages, CommitMessage(i) PROVE TInv'
<1>0. RepliesSent /\ MessagesTyped /\ i # 0
  BY TalkAssumption DEF TInv
<1>1. /\ i \in DOMAIN messages /\ messages[i].row = "open" /\ messages' = [messages EXCEPT ![i].row = "there"]
      /\ reply' = [r \in Repliers |-> IF reply[r].number = i THEN [reply[r] EXCEPT !.pc = "done"] ELSE reply[r]]
      /\ UNCHANGED <<clients, talks, talk, delivery, talkLock, accepted, notices>>
  BY DEF CommitMessage
<1>2. PICK sent \in MessageRow : sent = messages[i]
  BY <1>0, <1>1, MessageRows
<1>3. PICK m : m = [sent EXCEPT !.row = "there"]
  OBVIOUS
<1>4. m \in MessageRow /\ m.talk = sent.talk /\ messages' = [messages EXCEPT ![i] = m]
  BY <1>0, <1>1, <1>2, <1>3 DEF MessageRow, MessagesTyped
<1>5. /\ messages' \in Seq(MessageRow) /\ DOMAIN messages' = DOMAIN messages /\ messages'[i] = m
      /\ \A j \in DOMAIN messages \ {i} : messages'[j] = messages[j]
  BY <1>0, <1>1, <1>4 DEF MessagesTyped
<1>6. MessagesTyped' /\ MessagesInThreads'
  BY <1>1, <1>2, <1>4, <1>5 DEF TInv, MessagesTyped, MessagesInThreads
<1>7. \A r \in Repliers : /\ reply'[r] \in Reply /\ reply'[r].talk = reply[r].talk /\ reply'[r].number = reply[r].number
                          /\ reply'[r].pc = IF reply[r].number = i THEN "done" ELSE reply[r].pc
  <2>. SUFFICES ASSUME NEW r \in Repliers
                PROVE  /\ reply'[r] \in Reply /\ reply'[r].talk = reply[r].talk /\ reply'[r].number = reply[r].number
                       /\ reply'[r].pc = IF reply[r].number = i THEN "done" ELSE reply[r].pc
    OBVIOUS
  <2>1. PICK was \in Reply : was = reply[r]
    BY <1>0 DEF RepliesSent
  <2>2. reply'[r] = IF was.number = i THEN [was EXCEPT !.pc = "done"] ELSE was
    BY <1>1, <2>1
  <2>. QED  BY <2>1, <2>2 DEF Reply
<1>8. reply' \in [Repliers -> Reply]
  BY <1>1, <1>7
<1>9. \A t \in Talks : Sent(t)' = Sent(t)
  <2>1. \A r \in Repliers : reply[r].number = i => reply[r].pc # "record"
    BY <1>0 DEF RepliesSent
  <2>. QED  BY <1>0, <1>7, <2>1 DEF Sent
<1>10. RepliesSent'
  BY <1>0, <1>1, <1>7, <1>8, <1>9 DEF RepliesSent
<1>. QED  BY <1>1, <1>6, <1>10, OnlyMessages DEF TInv

LEMMA MessagesStep == ASSUME TInv, MessagesNext PROVE TInv'
<1>0. RepliesSent
  BY DEF TInv
<1>1. ASSUME NEW t \in Talks, NEW inbound \in BOOLEAN, NEW note \in BOOLEAN, CreateMessage(t, inbound, note) PROVE TInv'
  BY <1>0, <1>1, Flushed, OnlyMessages, RepliesKept DEF CreateMessage, TInv
<1>2. ASSUME NEW r \in Repliers, NEW t \in Talks, BeginReply(r, t) PROVE TInv'
  <2>1. PICK row : row = [pc |-> "send", talk |-> t, number |-> 0]
    OBVIOUS
  <2>2. row \in Reply /\ row.pc = "send" /\ row.talk = t /\ row.number = 0
    BY <2>1 DEF Reply
  <2>3. /\ reply' = [reply EXCEPT ![r] = row]
        /\ UNCHANGED <<clients, talks, talk, messages, delivery, talkLock, accepted, notices>>
    BY <1>2, <2>1 DEF BeginReply
  <2>4. accepted' \in [Talks -> Nat] /\ \A s \in Talks : accepted[s] <= accepted'[s]
    BY <1>0, <2>3 DEF RepliesSent
  <2>5. RepliesSent'
    BY <1>0, <2>2, <2>3, <2>4, ReplyMoves
  <2>. QED  BY <2>3, <2>5, OnlyMessages, MessagesUntouched DEF TInv
<1>3. ASSUME NEW r \in Repliers, SendReply(r) PROVE TInv'
  <2>1. UNCHANGED <<clients, talks, talk, messages, delivery, talkLock, notices>>
    BY <1>3 DEF SendReply
  <2>. QED  BY <1>3, <2>1, SendReplyStep, OnlyMessages, MessagesUntouched DEF TInv
<1>4. ASSUME NEW r \in Repliers, SendReplyFails(r) \/ RecordReplyFails(r) PROVE TInv'
  <2>1. PICK was \in Reply : was = reply[r] /\ was.pc \in {"send", "record"} /\ was.number = 0
    BY <1>0, <1>4 DEF SendReplyFails, RecordReplyFails, RepliesSent
  <2>2. PICK row : row = [was EXCEPT !.pc = "failed"]
    OBVIOUS
  <2>3. row \in Reply /\ row.pc = "failed" /\ row.number = 0
    BY <2>1, <2>2 DEF Reply
  <2>4. /\ reply' = [reply EXCEPT ![r] = row]
        /\ UNCHANGED <<clients, talks, talk, messages, delivery, talkLock, notices>>
    BY <1>0, <1>4, <2>1, <2>2 DEF SendReplyFails, RecordReplyFails, RepliesSent
  <2>6. accepted' \in [Talks -> Nat] /\ \A t \in Talks : accepted[t] <= accepted'[t]
    <3>1. CASE UNCHANGED accepted
      BY <1>0, <3>1 DEF RepliesSent
    <3>2. CASE SendReplyFails(r)
      BY <1>0, <3>2 DEF SendReplyFails, RepliesSent
    <3>. QED  BY <1>4, <3>1, <3>2 DEF RecordReplyFails
  <2>5. RepliesSent'
    BY <1>0, <2>3, <2>4, <2>6, ReplyMoves
  <2>. QED  BY <2>4, <2>5, OnlyMessages, MessagesUntouched DEF TInv
<1>. QED  BY <1>1, <1>2, <1>3, <1>4, CommitMessageStep, RecordReplyStep DEF MessagesNext

LEMMA TemplatesStep == ASSUME TInv, TemplatesNext PROVE TInv'
<1>1. /\ UNCHANGED <<clients, talks, talk, messages, delivery, talkLock, reply, accepted>>
      /\ \E n \in Notices : \/ notices' = [notices EXCEPT ![n] = Nil]
                            \/ \E x \in TemplateNames : /\ notices' = [notices EXCEPT ![n] = x]
                                                        /\ \A m \in Notices : notices[m] # x
  BY DEF TemplatesNext, CreateTemplate, DeleteTemplate
<1>2. NoticesTyped'
  BY <1>1 DEF TInv, NoticesTyped
<1>. QED  BY <1>1, <1>2, RepliesKept, MessagesUntouched
          DEF TInv, TalksTyped, Contains, Deliver, LockOf, IsInbound, OneThreadPerInbound

LEMMA TalkStep == ASSUME TInv, [TalkNext]_talkVars PROVE TInv'
<1>1. CASE UNCHANGED talkVars
  BY <1>1, RepliesKept, MessagesUntouched
  DEF talkVars, TInv, TalksTyped, NoticesTyped, Contains, Deliver, LockOf, IsInbound, OneThreadPerInbound
<1>. QED  BY <1>1, ThreadsStep, InboundStep, MessagesStep, TemplatesStep DEF TalkNext

LEMMA TalkStart == ASSUME ConversationsInit PROVE TInv
<1>1. TalksTyped /\ NoticesTyped /\ MessagesTyped
  BY DEF ConversationsInit, TalksTyped, NoTalk, TalkRow, IsInjective, NoticesTyped, MessagesTyped
<1>2. Deliver
  BY DEF ConversationsInit, Deliver, Delivery
<1>3. OneThreadPerInbound /\ MessagesInThreads
  BY DEF ConversationsInit, OneThreadPerInbound, MessagesInThreads, NoTalk
<1>4. RepliesSent
  <2>1. \A t \in Talks : Sent(t) = {}
    BY DEF ConversationsInit, Sent
  <2>2. \A t \in Talks : IsFiniteSet(Sent(t)) /\ Cardinality(Sent(t)) = 0 /\ accepted[t] = 0
    BY <2>1, FS_EmptySet DEF ConversationsInit
  <2>. QED  BY <2>2 DEF ConversationsInit, RepliesSent, Reply
<1>. QED  BY <1>1, <1>2, <1>3, <1>4 DEF TInv

LEMMA TalksHold == ASSUME TInv PROVE ThreadsHold
<1>1. TalksTypeOK
  <2>1. \A i \in DOMAIN messages : messages[i].row \in {"open", "there", "gone"}
    BY MessageRows DEF TInv, MessageRow
  <2>. QED  BY <2>1 DEF TInv, TalksTyped, NoticesTyped, Deliver, TalksTypeOK
<1>2. RecordedRepliesWereSent
  <2>. SUFFICES ASSUME NEW t \in Talks
                PROVE  Cardinality({r \in Repliers : reply[r].talk = t /\ reply[r].number # 0}) <= accepted[t]
    BY DEF RecordedRepliesWereSent
  <2>1. PICK S : S = {r \in Repliers : reply[r].talk = t /\ reply[r].number # 0}
    OBVIOUS
  <2>2. S \in SUBSET Sent(t)
    BY <2>1 DEF Sent
  <2>3. IsFiniteSet(Sent(t)) /\ Cardinality(Sent(t)) <= accepted[t] /\ accepted[t] \in Nat
    BY DEF TInv, RepliesSent
  <2>4. IsFiniteSet(S) /\ Cardinality(S) <= Cardinality(Sent(t))
    BY <2>2, <2>3, FS_Subset
  <2>5. Cardinality(S) \in Nat /\ Cardinality(Sent(t)) \in Nat
    BY <2>3, <2>4, FS_CardinalityType
  <2>6. \A m, n, k \in Nat : m <= n /\ n <= k => m <= k
    OBVIOUS
  <2>. QED  BY <2>1, <2>3, <2>4, <2>5, <2>6
<1>. QED  BY <1>1, <1>2 DEF TInv, ThreadsHold

\* Two deliveries of one contact on one channel at once share the thread they
\* open, no message outlives its thread, and no thread has more replies on
\* record than the provider took (threads.py, replies.py).
THEOREM ThreadsHoldHolds == TalkSpec => []ThreadsHold
BY TalkStart, TalkStep, TalksHold, PTL DEF TalkSpec

-----------------------------------------------------------------------------
\* The ways into the CRM of ContactCapture, with the page and the import beside
\* them: a run takes one of the three at a time.
CaptureSpec == CaptureInit /\ [][CaptureNext \/ PageNext \/ ImportNext]_contactVars

CaptureRow ==
    [pc : {"idle", "find", "write", "submit", "insert", "publish", "done", "failed"},
     contact : Callers \cup {Unknown}, phone : BOOLEAN]
CardRow ==
    [there : BOOLEAN, email : BOOLEAN, phone : BOOLEAN,
     by : {"nobody", "staff", "form", "lead", "phone"}]

InBook(c) == \E i \in DOMAIN book : book[i] = c

\* A card that was never made says nothing, so a new contact blanks no number.
CardsInv ==
    /\ book \in Seq(Callers) /\ IsInjective(book)
    /\ card \in [Callers -> CardRow]
    /\ \A c \in Callers : card[c].there \/ card[c].phone => InBook(c)
    /\ \A c \in Callers : card[c].by = "phone" => card[c].phone

ByPhone(c) == card[c].there /\ card[c].by = "phone"
PhoneWrites(k) == Channel[k] = "phone" /\ capture[k].pc = "write"

\* Between search and insert a message holds the lock of its number, alone, and if
\* it found nobody there still is nobody.
PhonesInv ==
    /\ \A c, d \in Callers : ByPhone(c) /\ ByPhone(d) => c = d
    /\ \A k \in Captures : PhoneWrites(k) => phoneLock
    /\ \A k, l \in Captures : PhoneWrites(k) /\ PhoneWrites(l) => k = l
    /\ \A k \in Captures : PhoneWrites(k) /\ capture[k].contact = Unknown =>
                               \A c \in Callers : ~ByPhone(c)

Lead(k) == Channel[k] = "lead"

\* The request that inserts a lead has its key to itself, and once there is a
\* submission of the key it stays succeeded, reported or about to be, once.
KeysInv ==
    /\ keyState \in [Keys -> {"free", "held", "succeeded"}] /\ leads \in [Keys -> Nat]
    /\ \A k \in Captures : capture[k].pc = "insert" => Lead(k) /\ keyState[Key[k]] = "held"
    /\ \A k \in Captures : capture[k].pc = "publish" /\ Lead(k) =>
           keyState[Key[k]] = "succeeded" /\ leads[Key[k]] = 0
    /\ \A k, l \in Captures : Lead(k) /\ Lead(l) /\ k # l /\ Key[k] = Key[l] =>
           /\ ~(capture[k].pc = "insert" /\ capture[l].pc = "insert")
           /\ ~(capture[k].pc = "publish" /\ capture[l].pc = "publish")
           /\ ~(submissions[k] # "none" /\ submissions[l] # "none")
    /\ \A k \in Captures : Lead(k) =>
           /\ submissions[k] # "none" => keyState[Key[k]] = "succeeded"
           /\ keyState[Key[k]] # "succeeded" => leads[Key[k]] = 0
           /\ leads[Key[k]] <= 1

SubmittedInv ==
    /\ submissions \in [Captures -> Callers \cup {Unknown, "none"}]
    /\ SubmissionsLinked

PagesInv ==
    /\ page \in [status : {"draft", "published"}, draft : 0 .. MaxDrafts, public : -1 .. MaxDrafts]
    /\ publishing \in -1 .. MaxDrafts

\* A job is at a row of the file until it has dealt with all of them.
ImportsInv ==
    /\ twins \in 0 .. MaxCompanies
    /\ import \in [Imports -> [pc : {"pending", "row", "company", "contact", "aborted", "completed"},
                               row : Nat, done : Nat]]
    /\ \A j \in Imports :
           /\ import[j].row <= FileRows + 1
           /\ import[j].pc \in {"company", "contact"} => import[j].row <= FileRows
           /\ import[j].pc = "completed" => import[j].row = FileRows + 1

CaptureInv ==
    /\ capture \in [Captures -> CaptureRow]
    /\ \A k \in Captures : capture[k].pc = "find" => Channel[k] # "phone"
    /\ CardsInv /\ PhonesInv /\ KeysInv /\ SubmittedInv

ContactsInv == CaptureInv /\ PagesInv /\ ImportsInv

-----------------------------------------------------------------------------
LEMMA LeastIsOne == ASSUME NEW S \in SUBSET Nat, S # {} PROVE Min(S) \in S
<1>1. PICK R : R = {ss \in Nat \X Nat : ss[1] < ss[2]}
  OBVIOUS
<1>2. IsWellFoundedOn(R, Nat)
  BY <1>1, NatLessThanWellFounded DEF OpToRel
<1>3. PICK s \in S : \A t \in S : ~(<<t, s>> \in R)
  BY <1>2, WFMin
<1>4. \A t \in S : s \in Nat /\ t \in Nat /\ ~(t < s)
  BY <1>1, <1>3
<1>5. \A t \in S : s =< t
  BY <1>4
<1>. QED  BY <1>5 DEF Min

\* The oldest is one of those that are there; there is none only if none is.
LEMMA OldestIsOne ==
    ASSUME CardsInv, NEW those \in SUBSET Callers
    PROVE  /\ Oldest(those) \in Callers \cup {Unknown}
           /\ Oldest(those) = Unknown => \A c \in those : ~card[c].there
<1>1. PICK found : found = {i \in DOMAIN book : card[book[i]].there /\ book[i] \in those}
  OBVIOUS
<1>2. found \in SUBSET Nat /\ DOMAIN book = 1 .. Len(book)
  BY <1>1 DEF CardsInv
<1>3. CASE found = {}
  <2>1. Oldest(those) = Unknown
    BY <1>1, <1>3 DEF Oldest
  <2>2. \A c \in those : card[c].there => InBook(c)
    BY DEF CardsInv
  <2>3. \A c \in those : ~card[c].there
    BY <1>1, <1>3, <2>2 DEF InBook
  <2>. QED  BY <2>1, <2>3
<1>4. CASE found # {}
  <2>1. Min(found) \in found
    BY <1>2, <1>4, LeastIsOne
  <2>2. Oldest(those) = book[Min(found)]
    BY <1>1, <1>4 DEF Oldest
  <2>3. Oldest(those) \in Callers
    BY <1>1, <2>1, <2>2
  <2>. QED  BY <2>3, CaptureAssumption
<1>. QED  BY <1>3, <1>4

LEMMA NewContactIs ==
    ASSUME CardsInv, NEW c \in Callers, NEW email \in BOOLEAN, NEW phone \in BOOLEAN,
           NEW by \in {"staff", "form", "lead", "phone"}, by = "phone" => phone,
           NewContact(c, email, phone, by)
    PROVE  /\ CardsInv' /\ NumberKept
           /\ \A d \in Callers : d # c => card'[d] = card[d]
           /\ card'[c].there /\ card'[c].by = by
           /\ \A d \in Callers : card[d].there => card'[d].there
<1>1. PICK row : row = [there |-> TRUE, email |-> email, phone |-> phone, by |-> by]
  OBVIOUS
<1>2. row \in CardRow /\ row.there /\ row.by = by /\ row.phone = phone
  BY <1>1 DEF CardRow
<1>3. /\ \A d \in Callers : card'[d] = IF d = c THEN row ELSE card[d]
      /\ card' \in [Callers -> CardRow]
  BY <1>1, <1>2 DEF NewContact, CardsInv
<1>4. ~InBook(c) /\ book' = Append(book, c)
  BY DEF NewContact, InBook
<1>5. /\ book' \in Seq(Callers) /\ Len(book') = Len(book) + 1 /\ Len(book) \in Nat
      /\ DOMAIN book = 1 .. Len(book) /\ DOMAIN book' = 1 .. Len(book) + 1
      /\ book'[Len(book) + 1] = c
      /\ \A i \in DOMAIN book : book'[i] = book[i]
  BY <1>4 DEF CardsInv
<1>6. IsInjective(book')
  BY <1>4, <1>5 DEF CardsInv, IsInjective, InBook
<1>7. \A d \in Callers : (InBook(d) => InBook(d)') /\ InBook(c)'
  BY <1>5 DEF InBook
<1>8. ~card[c].there /\ ~card[c].phone
  BY <1>4 DEF CardsInv
<1>9. CardsInv'
  BY <1>2, <1>3, <1>5, <1>6, <1>7 DEF CardsInv
<1>10. NumberKept
  BY <1>3, <1>8 DEF NumberKept
<1>. QED  BY <1>2, <1>3, <1>8, <1>9, <1>10

-----------------------------------------------------------------------------
\* What a step leaves of each part.
LEMMA PhonesKept ==
    ASSUME PhonesInv, UNCHANGED phoneLock, \A c \in Callers : ByPhone(c)' => ByPhone(c),
           \A k \in Captures : PhoneWrites(k)' => PhoneWrites(k) /\ capture'[k] = capture[k]
    PROVE  PhonesInv'
<1>1. \A c, d \in Callers : ByPhone(c)' /\ ByPhone(d)' => c = d
  BY DEF PhonesInv
<1>2. \A k \in Captures : PhoneWrites(k)' => phoneLock'
  BY DEF PhonesInv
<1>3. \A k, l \in Captures : PhoneWrites(k)' /\ PhoneWrites(l)' => k = l
  BY DEF PhonesInv
<1>4. \A k \in Captures : PhoneWrites(k)' /\ capture'[k].contact = Unknown =>
                              \A c \in Callers : ~ByPhone(c)'
  BY DEF PhonesInv
<1>. QED  BY <1>1, <1>2, <1>3, <1>4 DEF PhonesInv

LEMMA KeysKept ==
    ASSUME KeysInv, UNCHANGED <<keyState, leads>>,
           \A k \in Captures : capture'[k].pc = "insert" => capture[k].pc = "insert",
           \A k \in Captures : Lead(k) /\ capture'[k].pc = "publish" => capture[k].pc = "publish",
           \A k \in Captures : Lead(k) /\ submissions'[k] # "none" => submissions[k] # "none"
    PROVE  KeysInv'
BY DEF KeysInv, Lead

LEMMA SubmittedKept ==
    ASSUME SubmittedInv, UNCHANGED submissions, \A c \in Callers : card[c].there => card'[c].there
    PROVE  SubmittedInv'
BY DEF SubmittedInv, SubmissionsLinked

LEMMA CardsKept == ASSUME CardsInv, UNCHANGED <<book, card>> PROVE CardsInv' /\ NumberKept
BY DEF CardsInv, InBook, NumberKept

\* One request moves, towards no submission and no lead.
LEMMA OneMoves ==
    ASSUME CaptureInv, NEW k \in Captures, NEW q \in CaptureRow, capture' = [capture EXCEPT ![k] = q],
           CardsInv', \A c \in Callers : (card[c].there => card'[c].there) /\ (ByPhone(c)' => ByPhone(c)),
           UNCHANGED <<submissions, phoneLock, keyState, leads>>,
           q.pc \notin {"insert", "publish"}, Channel[k] # "phone" \/ q.pc \notin {"find", "write"}
    PROVE  CaptureInv'
<1>1. /\ capture' \in [Captures -> CaptureRow]
      /\ \A l \in Captures : capture'[l] = IF l = k THEN q ELSE capture[l]
      /\ \A l \in Captures : capture'[l].pc = "find" => Channel[l] # "phone"
  BY DEF CaptureInv
<1>2. \A l \in Captures : PhoneWrites(l)' => PhoneWrites(l) /\ capture'[l] = capture[l]
  BY <1>1 DEF PhoneWrites
<1>3. PhonesInv'
  BY <1>2, PhonesKept DEF CaptureInv
<1>4. KeysInv'
  BY <1>1, KeysKept DEF CaptureInv
<1>5. SubmittedInv'
  BY SubmittedKept DEF CaptureInv
<1>. QED  BY <1>1, <1>3, <1>4, <1>5 DEF CaptureInv

LEMMA OnlyMoves ==
    ASSUME CaptureInv, NEW k \in Captures, NEW q \in CaptureRow, capture' = [capture EXCEPT ![k] = q],
           UNCHANGED <<book, card, submissions, phoneLock, keyState, leads>>,
           q.pc \notin {"insert", "publish"}, Channel[k] # "phone" \/ q.pc \notin {"find", "write"}
    PROVE  CaptureInv' /\ NumberKept
<1>1. CardsInv' /\ NumberKept
  BY CardsKept DEF CaptureInv
<1>2. \A c \in Callers : (card[c].there => card'[c].there) /\ (ByPhone(c)' => ByPhone(c))
  BY DEF ByPhone
<1>. QED  BY <1>1, <1>2, OneMoves

LEMMA CaptureRows ==
    ASSUME CaptureInv, NEW k \in Captures
    PROVE  /\ capture[k] \in CaptureRow
           /\ \A pc \in {"idle", "find", "write", "submit", "insert", "publish", "done", "failed"} :
                 /\ [capture[k] EXCEPT !.pc = pc] \in CaptureRow
                 /\ [capture[k] EXCEPT !.pc = pc].pc = pc
                 /\ [capture[k] EXCEPT !.pc = pc].contact = capture[k].contact
                 /\ Goto(k, pc) => capture' = [capture EXCEPT ![k] = [capture[k] EXCEPT !.pc = pc]]
BY DEF CaptureInv, CaptureRow, Goto

LEMMA MoveSteps ==
    ASSUME CaptureInv, NEW k \in Captures,
           \/ \E phone \in BOOLEAN : ResolveForm(k, phone)
           \/ CheckPage(k) \/ FindByEmail(k) \/ UpdateFails(k) \/ KeyTaken(k)
    PROVE  CaptureInv' /\ NumberKept
<1>1. capture[k] \in CaptureRow
  BY CaptureRows
<1>2. CASE \E phone \in BOOLEAN : ResolveForm(k, phone)
  <2>1. PICK phone \in BOOLEAN : ResolveForm(k, phone)
    BY <1>2
  <2>2. PICK q : q = [capture[k] EXCEPT !.pc = "find", !.phone = phone]
    OBVIOUS
  <2>3. q \in CaptureRow /\ q.pc = "find"
    BY <1>1, <2>2 DEF CaptureRow
  <2>4. /\ capture' = [capture EXCEPT ![k] = q]
        /\ UNCHANGED <<book, card, submissions, phoneLock, keyState, leads>>
    BY <2>1, <2>2 DEF ResolveForm, CaptureInv
  <2>5. Channel[k] # "phone"
    BY <2>1 DEF ResolveForm
  <2>. QED  BY <2>3, <2>4, <2>5, OnlyMoves
<1>3. CASE FindByEmail(k)
  <2>1. PICK q : q = [capture[k] EXCEPT !.pc = "write", !.contact = Oldest(WithAddress)]
    OBVIOUS
  <2>2. Oldest(WithAddress) \in Callers \cup {Unknown}
    BY OldestIsOne DEF CaptureInv, WithAddress
  <2>3. q \in CaptureRow /\ q.pc = "write"
    BY <1>1, <2>1, <2>2 DEF CaptureRow
  <2>4. /\ capture' = [capture EXCEPT ![k] = q]
        /\ UNCHANGED <<book, card, submissions, phoneLock, keyState, leads>>
    BY <1>3, <2>1 DEF FindByEmail, CaptureInv
  <2>5. Channel[k] # "phone"
    BY <1>3 DEF FindByEmail, CaptureInv, At
  <2>. QED  BY <2>3, <2>4, <2>5, OnlyMoves
<1>4. CASE CheckPage(k) \/ UpdateFails(k) \/ KeyTaken(k)
  <2>1. PICK pc \in {"find", "failed", "done"} : Goto(k, pc) /\ (Channel[k] # "phone" \/ pc # "find")
    BY <1>4 DEF CheckPage, UpdateFails, KeyTaken
  <2>2. PICK q : q = [capture[k] EXCEPT !.pc = pc]
    OBVIOUS
  <2>3. q \in CaptureRow /\ q.pc = pc
    BY <1>1, <2>2 DEF CaptureRow
  <2>4. /\ capture' = [capture EXCEPT ![k] = q]
        /\ UNCHANGED <<book, card, submissions, phoneLock, keyState, leads>>
    BY <1>4, <2>1, <2>2 DEF CheckPage, UpdateFails, KeyTaken, Goto
  <2>. QED  BY <2>1, <2>3, <2>4, OnlyMoves
<1>. QED  BY <1>2, <1>3, <1>4

-----------------------------------------------------------------------------
(* Contacts and the form. *)
LEMMA StaffSteps ==
    ASSUME CaptureInv, NEW c \in Callers,
           DeleteContact(c) \/ \E email, phone \in BOOLEAN : CreateContact(c, email, phone)
    PROVE  CaptureInv' /\ NumberKept
<1>1. CASE DeleteContact(c)
  <2>1. PICK row : row = [card[c] EXCEPT !.there = FALSE]
    OBVIOUS
  <2>2. /\ card[c] \in CardRow /\ row \in CardRow /\ ~row.there
        /\ row.phone = card[c].phone /\ row.by = card[c].by
    BY <2>1 DEF CaptureInv, CardsInv, CardRow
  <2>3. /\ card' \in [Callers -> CardRow]
        /\ \A d \in Callers : card'[d] = IF d = c THEN row ELSE card[d]
    BY <1>1, <2>1, <2>2 DEF DeleteContact, CaptureInv, CardsInv
  <2>4. \A d \in Callers : /\ card'[d].phone = card[d].phone /\ card'[d].by = card[d].by
                           /\ card'[d].there <=> card[d].there /\ d # c
    BY <2>2, <2>3 DEF CaptureInv, CardsInv, CardRow
  <2>5. UNCHANGED <<book, capture, phoneLock, keyState, leads>>
    BY <1>1 DEF DeleteContact
  <2>6. CardsInv' /\ NumberKept
    BY <2>3, <2>4, <2>5 DEF CaptureInv, CardsInv, InBook, NumberKept
  <2>7. \A d \in Callers : ByPhone(d)' => ByPhone(d)
    BY <2>4 DEF ByPhone
  <2>8. PhonesInv'
    BY <2>5, <2>7, PhonesKept DEF PhoneWrites, CaptureInv
  <2>9. /\ submissions' \in [Captures -> Callers \cup {Unknown, "none"}]
        /\ \A k \in Captures : submissions'[k] = IF submissions[k] = c THEN Unknown ELSE submissions[k]
    BY <1>1 DEF DeleteContact, CaptureInv, SubmittedInv
  <2>10. KeysInv'
    BY <2>5, <2>9, KeysKept, CaptureAssumption DEF CaptureInv
  <2>11. SubmittedInv'
    BY <2>4, <2>9, CaptureAssumption DEF CaptureInv, SubmittedInv, SubmissionsLinked
  <2>. QED  BY <2>5, <2>6, <2>8, <2>10, <2>11 DEF CaptureInv
<1>2. CASE \E email, phone \in BOOLEAN : CreateContact(c, email, phone)
  <2>1. PICK email \in BOOLEAN, phone \in BOOLEAN : CreateContact(c, email, phone)
    BY <1>2
  <2>2. NewContact(c, email, phone, "staff") /\ CardsInv
    BY <2>1 DEF CreateContact, CaptureInv
  <2>3. /\ CardsInv' /\ NumberKept
        /\ \A d \in Callers : d # c => card'[d] = card[d]
        /\ card'[c].by = "staff"
        /\ \A d \in Callers : card[d].there => card'[d].there
    BY <2>2, NewContactIs
  <2>4. UNCHANGED <<submissions, capture, phoneLock, keyState, leads>>
    BY <2>1 DEF CreateContact
  <2>5. \A d \in Callers : ByPhone(d)' => ByPhone(d)
    BY <2>3 DEF ByPhone
  <2>6. PhonesInv'
    BY <2>4, <2>5, PhonesKept DEF PhoneWrites, CaptureInv
  <2>7. KeysInv' /\ SubmittedInv'
    BY <2>3, <2>4, KeysKept, SubmittedKept DEF CaptureInv
  <2>. QED  BY <2>3, <2>4, <2>6, <2>7 DEF CaptureInv
<1>. QED  BY <1>1, <1>2

LEMMA DeleteFormStep == ASSUME CaptureInv, DeleteForm PROVE CaptureInv' /\ NumberKept
<1>1. UNCHANGED <<book, card, capture, phoneLock, keyState, leads>>
  BY DEF DeleteForm
<1>2. /\ submissions' \in [Captures -> Callers \cup {Unknown, "none"}]
      /\ \A k \in Captures : submissions'[k] \in {submissions[k], "none"}
  BY DEF DeleteForm, CaptureInv, SubmittedInv
<1>3. CardsInv' /\ NumberKept
  BY <1>1, CardsKept DEF CaptureInv
<1>4. PhonesInv'
  BY <1>1, PhonesKept DEF CaptureInv, ByPhone, PhoneWrites
<1>5. KeysInv'
  BY <1>1, <1>2, KeysKept DEF CaptureInv
<1>6. SubmittedInv'
  BY <1>1, <1>2, CaptureAssumption DEF CaptureInv, SubmittedInv, SubmissionsLinked
<1>. QED  BY <1>1, <1>3, <1>4, <1>5, <1>6 DEF CaptureInv

LEMMA UpdateFoundStep ==
    ASSUME CaptureInv, NEW k \in Captures, UpdateFound(k) PROVE CaptureInv' /\ NumberKept
<1>1. PICK c : c = capture[k].contact
  OBVIOUS
<1>2. c \in Callers /\ capture[k] \in CaptureRow
  BY <1>1, CaptureRows DEF UpdateFound, There, CaptureRow
<1>3. PICK row : row = [card[c] EXCEPT !.phone = @ \/ capture[k].phone]
  OBVIOUS
<1>4. card[c] \in CardRow /\ capture[k].phone \in BOOLEAN
  BY <1>2 DEF CaptureInv, CardsInv, CaptureRow
<1>5. /\ row \in CardRow /\ row.there = card[c].there /\ row.by = card[c].by
      /\ card[c].phone => row.phone
  BY <1>3, <1>4 DEF CardRow
<1>6. /\ card' \in [Callers -> CardRow]
      /\ \A d \in Callers : card'[d] = IF d = c THEN row ELSE card[d]
  BY <1>1, <1>2, <1>3, <1>5 DEF UpdateFound, CaptureInv, CardsInv
<1>7. \A d \in Callers : /\ card'[d].there = card[d].there /\ card'[d].by = card[d].by
                         /\ card[d].phone => card'[d].phone
  BY <1>5, <1>6
<1>8. UNCHANGED <<book, submissions, phoneLock, keyState, leads>> /\ Goto(k, "submit") /\ card[c].there
  BY <1>1 DEF UpdateFound, There
<1>9. \A d \in Callers : (card[d].there \/ d = c) => InBook(d)
  BY <1>8 DEF CaptureInv, CardsInv
<1>10. \A d \in Callers : card'[d].there \/ card'[d].phone => InBook(d)'
  BY <1>6, <1>8, <1>9 DEF CaptureInv, CardsInv, InBook
<1>11. CardsInv' /\ NumberKept
  BY <1>6, <1>7, <1>8, <1>10 DEF CaptureInv, CardsInv, NumberKept
<1>12. \A d \in Callers : (card[d].there => card'[d].there) /\ (ByPhone(d)' => ByPhone(d))
  BY <1>7 DEF ByPhone
<1>13. PICK q : q = [capture[k] EXCEPT !.pc = "submit"]
  OBVIOUS
<1>14. q \in CaptureRow /\ q.pc = "submit" /\ capture' = [capture EXCEPT ![k] = q]
  BY <1>8, <1>13, CaptureRows
<1>. QED  BY <1>8, <1>11, <1>12, <1>14, OneMoves

LEMMA InsertByEmailStep ==
    ASSUME CaptureInv, NEW k \in Captures, NEW c \in Callers, InsertByEmail(k, c)
    PROVE  CaptureInv' /\ NumberKept
<1>1. capture[k] \in CaptureRow /\ Channel[k] \in {"form", "lead"}
  BY CaptureRows, CaptureAssumption DEF InsertByEmail
<1>2. capture[k].phone \in BOOLEAN /\ NewContact(c, TRUE, capture[k].phone, Channel[k]) /\ CardsInv
  BY <1>1 DEF InsertByEmail, CaptureInv, CaptureRow
<1>3. /\ CardsInv' /\ NumberKept
      /\ \A d \in Callers : d # c => card'[d] = card[d]
      /\ card'[c].by = Channel[k]
      /\ \A d \in Callers : card[d].there => card'[d].there
  BY <1>1, <1>2, NewContactIs
<1>4. \A d \in Callers : (card[d].there => card'[d].there) /\ (ByPhone(d)' => ByPhone(d))
  BY <1>1, <1>3 DEF ByPhone
<1>5. PICK q : q = [capture[k] EXCEPT !.pc = "submit", !.contact = c]
  OBVIOUS
<1>6. q \in CaptureRow /\ q.pc = "submit"
  BY <1>1, <1>5 DEF CaptureRow
<1>7. /\ capture' = [capture EXCEPT ![k] = q]
      /\ UNCHANGED <<submissions, phoneLock, keyState, leads>>
  BY <1>5 DEF InsertByEmail, CaptureInv
<1>. QED  BY <1>3, <1>4, <1>6, <1>7, OneMoves

-----------------------------------------------------------------------------
(* Messages from the number. *)
LEMMA LockPhoneStep ==
    ASSUME CaptureInv, NEW k \in Captures, LockPhone(k) PROVE CaptureInv' /\ NumberKept
<1>1. PICK q : q = [capture[k] EXCEPT !.pc = "write", !.contact = Oldest(WithNumber)]
  OBVIOUS
<1>2. /\ Oldest(WithNumber) \in Callers \cup {Unknown}
      /\ Oldest(WithNumber) = Unknown => \A c \in WithNumber : ~card[c].there
  BY OldestIsOne DEF CaptureInv, WithNumber
<1>3. q \in CaptureRow /\ q.pc = "write" /\ q.contact = Oldest(WithNumber)
  BY <1>1, <1>2, CaptureRows DEF CaptureRow
<1>4. capture' = [capture EXCEPT ![k] = q]
  BY <1>1 DEF LockPhone, CaptureInv
<1>5. /\ Channel[k] = "phone" /\ ~phoneLock /\ phoneLock'
      /\ UNCHANGED <<book, card, submissions, keyState, leads>>
  BY DEF LockPhone
<1>6. /\ capture' \in [Captures -> CaptureRow]
      /\ \A l \in Captures : capture'[l] = IF l = k THEN q ELSE capture[l]
  BY <1>3, <1>4 DEF CaptureInv
<1>7. CardsInv' /\ NumberKept /\ SubmittedInv'
  BY <1>5, CardsKept, SubmittedKept DEF CaptureInv
<1>8. KeysInv'
  BY <1>3, <1>5, <1>6, KeysKept DEF CaptureInv
<1>9. \A l \in Captures : ~PhoneWrites(l) /\ (PhoneWrites(l)' => l = k)
  BY <1>5, <1>6 DEF CaptureInv, PhonesInv, PhoneWrites
<1>10. \A c \in Callers : ByPhone(c)' <=> ByPhone(c)
  BY <1>5 DEF ByPhone
<1>11. q.contact = Unknown => \A c \in Callers : ~ByPhone(c)
  BY <1>2, <1>3 DEF CaptureInv, CardsInv, ByPhone, WithNumber
<1>12. PhonesInv'
  <2>1. \A c, d \in Callers : ByPhone(c)' /\ ByPhone(d)' => c = d
    BY <1>10 DEF CaptureInv, PhonesInv
  <2>2. \A l \in Captures : PhoneWrites(l)' /\ capture'[l].contact = Unknown => \A c \in Callers : ~ByPhone(c)'
    BY <1>6, <1>9, <1>10, <1>11
  <2>. QED  BY <1>5, <1>9, <2>1, <2>2 DEF PhonesInv
<1>13. \A l \in Captures : capture'[l].pc = "find" => Channel[l] # "phone"
  BY <1>3, <1>6 DEF CaptureInv
<1>. QED  BY <1>6, <1>7, <1>8, <1>12, <1>13 DEF CaptureInv

\* A message leaves the lock with nobody else between search and insert.
LEMMA PhoneLeaves ==
    ASSUME CaptureInv, NEW k \in Captures, NEW q \in CaptureRow, capture' = [capture EXCEPT ![k] = q],
           PhoneWrites(k), q.pc = "done", UNCHANGED <<submissions, keyState, leads>>,
           CardsInv', \A c \in Callers : card[c].there => card'[c].there,
           \A c, d \in Callers : ByPhone(c)' /\ ByPhone(d)' => c = d
    PROVE  CaptureInv'
<1>1. /\ capture' \in [Captures -> CaptureRow]
      /\ \A l \in Captures : capture'[l] = IF l = k THEN q ELSE capture[l]
      /\ \A l \in Captures : capture'[l].pc = "find" => Channel[l] # "phone"
  BY DEF CaptureInv
<1>2. \A l \in Captures : ~PhoneWrites(l)'
  BY <1>1 DEF CaptureInv, PhonesInv, PhoneWrites
<1>3. PhonesInv'
  BY <1>2 DEF PhonesInv
<1>4. KeysInv'
  BY <1>1, KeysKept DEF CaptureInv
<1>5. SubmittedInv'
  BY SubmittedKept DEF CaptureInv
<1>. QED  BY <1>1, <1>3, <1>4, <1>5 DEF CaptureInv

LEMMA ReuseByPhoneStep ==
    ASSUME CaptureInv, NEW k \in Captures, ReuseByPhone(k) PROVE CaptureInv' /\ NumberKept
<1>1. PICK q : q = [capture[k] EXCEPT !.pc = "done"]
  OBVIOUS
<1>2. q \in CaptureRow /\ q.pc = "done" /\ capture' = [capture EXCEPT ![k] = q]
  BY <1>1, CaptureRows DEF ReuseByPhone
<1>3. PhoneWrites(k) /\ UNCHANGED <<book, card, submissions, keyState, leads>>
  BY DEF ReuseByPhone, PhoneWrites, At
<1>4. CardsInv' /\ NumberKept
  BY <1>3, CardsKept DEF CaptureInv
<1>5. \A c, d \in Callers : ByPhone(c)' /\ ByPhone(d)' => c = d
  BY <1>3 DEF CaptureInv, PhonesInv, ByPhone
<1>. QED  BY <1>2, <1>3, <1>4, <1>5, PhoneLeaves

LEMMA InsertByPhoneStep ==
    ASSUME CaptureInv, NEW k \in Captures, NEW c \in Callers, InsertByPhone(k, c)
    PROVE  CaptureInv' /\ NumberKept
<1>1. PICK q : q = [capture[k] EXCEPT !.pc = "done", !.contact = c]
  OBVIOUS
<1>2. q \in CaptureRow /\ q.pc = "done"
  BY <1>1, CaptureRows DEF CaptureRow
<1>3. /\ capture' = [capture EXCEPT ![k] = q]
      /\ PhoneWrites(k) /\ UNCHANGED <<submissions, keyState, leads>>
      /\ NewContact(c, FALSE, TRUE, "phone") /\ capture[k].contact = Unknown /\ CardsInv
  BY <1>1 DEF InsertByPhone, CaptureInv, PhoneWrites, At
<1>4. /\ CardsInv' /\ NumberKept
      /\ \A d \in Callers : d # c => card'[d] = card[d]
      /\ \A d \in Callers : card[d].there => card'[d].there
  BY <1>3, NewContactIs
<1>5. \A d \in Callers : ~ByPhone(d)
  BY <1>3 DEF CaptureInv, PhonesInv
<1>6. \A d, e \in Callers : ByPhone(d)' /\ ByPhone(e)' => d = e
  BY <1>4, <1>5 DEF ByPhone
<1>. QED  BY <1>2, <1>3, <1>4, <1>6, PhoneLeaves

-----------------------------------------------------------------------------
(* Submissions and keys. *)
LEMMA AtWork ==
    ASSUME CaptureInv, NEW k \in Captures, NEW q \in CaptureRow, capture' = [capture EXCEPT ![k] = q],
           UNCHANGED <<book, card, phoneLock>>, KeysInv', SubmittedInv', q.pc \notin {"find", "write"}
    PROVE  CaptureInv' /\ NumberKept
<1>1. /\ capture' \in [Captures -> CaptureRow]
      /\ \A l \in Captures : capture'[l] = IF l = k THEN q ELSE capture[l]
      /\ \A l \in Captures : capture'[l].pc = "find" => Channel[l] # "phone"
  BY DEF CaptureInv
<1>2. \A c \in Callers : ByPhone(c)' => ByPhone(c)
  BY DEF ByPhone
<1>3. \A l \in Captures : PhoneWrites(l)' => PhoneWrites(l) /\ capture'[l] = capture[l]
  BY <1>1 DEF PhoneWrites
<1>4. PhonesInv'
  BY <1>2, <1>3, PhonesKept DEF CaptureInv
<1>5. CardsInv' /\ NumberKept
  BY CardsKept DEF CaptureInv
<1>. QED  BY <1>1, <1>4, <1>5 DEF CaptureInv

LEMMA SubmitFormStep ==
    ASSUME CaptureInv, NEW k \in Captures, SubmitForm(k) PROVE CaptureInv' /\ NumberKept
<1>1. PICK q : q = [capture[k] EXCEPT !.pc = "publish"]
  OBVIOUS
<1>2. q \in CaptureRow /\ q.pc = "publish" /\ capture' = [capture EXCEPT ![k] = q]
  BY <1>1, CaptureRows DEF SubmitForm
<1>3. \A l \in Captures : capture'[l] = IF l = k THEN q ELSE capture[l]
  BY <1>2 DEF CaptureInv
<1>4. ~Lead(k) /\ UNCHANGED <<book, card, phoneLock, keyState, leads>>
  BY DEF SubmitForm, Lead
<1>5. PICK c \in Callers : c = capture[k].contact /\ card[c].there
  BY CaptureRows DEF SubmitForm, There, CaptureRow
<1>6. /\ submissions' \in [Captures -> Callers \cup {Unknown, "none"}]
      /\ \A l \in Captures : submissions'[l] = IF l = k THEN c ELSE submissions[l]
  BY <1>5 DEF SubmitForm, CaptureInv, SubmittedInv
<1>7. KeysInv'
  BY <1>2, <1>3, <1>4, <1>6, KeysKept DEF CaptureInv
<1>8. SubmittedInv'
  BY <1>4, <1>5, <1>6 DEF CaptureInv, SubmittedInv, SubmissionsLinked
<1>. QED  BY <1>2, <1>4, <1>7, <1>8, AtWork

LEMMA ReserveKeyStep ==
    ASSUME CaptureInv, NEW k \in Captures, ReserveKey(k) PROVE CaptureInv' /\ NumberKept
<1>1. PICK q : q = [capture[k] EXCEPT !.pc = "insert"]
  OBVIOUS
<1>2. q \in CaptureRow /\ q.pc = "insert" /\ capture' = [capture EXCEPT ![k] = q]
  BY <1>1, CaptureRows DEF ReserveKey
<1>3. \A l \in Captures : capture'[l] = IF l = k THEN q ELSE capture[l]
  BY <1>2 DEF CaptureInv
<1>4. /\ Lead(k) /\ keyState[Key[k]] = "free"
      /\ UNCHANGED <<book, card, phoneLock, submissions, leads>>
  BY DEF ReserveKey, Lead, MayReserve
<1>5. /\ keyState' \in [Keys -> {"free", "held", "succeeded"}]
      /\ \A x \in Keys : keyState'[x] = IF x = Key[k] THEN "held" ELSE keyState[x]
      /\ \A l \in Captures : Key[l] \in Keys
  BY DEF ReserveKey, CaptureInv, KeysInv, Keys
<1>6. \A l \in Captures : Lead(l) /\ Key[l] = Key[k] =>
          /\ capture[l].pc \notin {"insert", "publish"} /\ submissions[l] = "none"
          /\ leads[Key[l]] = 0
  BY <1>4 DEF CaptureInv, KeysInv
<1>7. KeysInv'
  BY <1>2, <1>3, <1>4, <1>5, <1>6 DEF CaptureInv, KeysInv, Lead
<1>8. SubmittedInv'
  BY <1>4, SubmittedKept DEF CaptureInv
<1>. QED  BY <1>2, <1>4, <1>7, <1>8, AtWork

\* What a request that holds its key knows of the others that carry it.
LEMMA Alone ==
    ASSUME CaptureInv, NEW k \in Captures, capture[k].pc = "insert"
    PROVE  /\ Lead(k) /\ keyState[Key[k]] = "held" /\ leads[Key[k]] = 0
           /\ \A l \in Captures : Lead(l) /\ Key[l] = Key[k] =>
                 /\ l # k => capture[l].pc # "insert"
                 /\ capture[l].pc # "publish" /\ submissions[l] = "none"
BY DEF CaptureInv, KeysInv

LEMMA InsertLeadStep ==
    ASSUME CaptureInv, NEW k \in Captures, InsertLead(k) PROVE CaptureInv' /\ NumberKept
<1>1. PICK q : q = [capture[k] EXCEPT !.pc = "publish"]
  OBVIOUS
<1>2. q \in CaptureRow /\ q.pc = "publish" /\ capture' = [capture EXCEPT ![k] = q]
  BY <1>1, CaptureRows DEF InsertLead
<1>3. \A l \in Captures : capture'[l] = IF l = k THEN q ELSE capture[l]
  BY <1>2 DEF CaptureInv
<1>4. capture[k].pc = "insert" /\ UNCHANGED <<book, card, phoneLock, leads>>
  BY DEF InsertLead, At
<1>5. PICK c \in Callers : c = capture[k].contact /\ card[c].there
  BY CaptureRows DEF InsertLead, There, CaptureRow
<1>6. /\ submissions' \in [Captures -> Callers \cup {Unknown, "none"}]
      /\ \A l \in Captures : submissions'[l] = IF l = k THEN c ELSE submissions[l]
  BY <1>5 DEF InsertLead, CaptureInv, SubmittedInv
<1>7. /\ keyState' \in [Keys -> {"free", "held", "succeeded"}]
      /\ \A x \in Keys : keyState'[x] = IF x = Key[k] THEN "succeeded" ELSE keyState[x]
      /\ \A l \in Captures : Key[l] \in Keys
  BY DEF InsertLead, CaptureInv, KeysInv, Keys
<1>8. /\ Lead(k) /\ leads[Key[k]] = 0
      /\ \A l \in Captures : Lead(l) /\ Key[l] = Key[k] =>
            /\ l # k => capture[l].pc # "insert"
            /\ capture[l].pc # "publish" /\ submissions[l] = "none"
  BY <1>4, Alone
<1>9. KeysInv'
  BY <1>2, <1>3, <1>4, <1>6, <1>7, <1>8 DEF CaptureInv, KeysInv, Lead
<1>10. SubmittedInv'
  BY <1>4, <1>5, <1>6 DEF CaptureInv, SubmittedInv, SubmissionsLinked
<1>. QED  BY <1>2, <1>4, <1>9, <1>10, AtWork

LEMMA SubmitFailsStep ==
    ASSUME CaptureInv, NEW k \in Captures, SubmitFails(k) PROVE CaptureInv' /\ NumberKept
<1>1. PICK q : q = [capture[k] EXCEPT !.pc = "failed"]
  OBVIOUS
<1>2. q \in CaptureRow /\ q.pc = "failed" /\ capture' = [capture EXCEPT ![k] = q]
  BY <1>1, CaptureRows DEF SubmitFails
<1>3. \A l \in Captures : capture'[l] = IF l = k THEN q ELSE capture[l]
  BY <1>2 DEF CaptureInv
<1>4. UNCHANGED <<book, card, phoneLock, submissions, leads>>
  BY DEF SubmitFails
<1>5. CASE UNCHANGED keyState
  BY <1>2, <1>4, <1>5, OnlyMoves
<1>6. CASE capture[k].pc = "insert" /\ keyState' = [keyState EXCEPT ![Key[k]] = "free"]
  <2>1. /\ keyState' \in [Keys -> {"free", "held", "succeeded"}]
        /\ \A x \in Keys : keyState'[x] = IF x = Key[k] THEN "free" ELSE keyState[x]
        /\ \A l \in Captures : Key[l] \in Keys
    BY <1>6 DEF CaptureInv, KeysInv, Keys
  <2>2. /\ Lead(k) /\ leads[Key[k]] = 0
        /\ \A l \in Captures : Lead(l) /\ Key[l] = Key[k] =>
              /\ l # k => capture[l].pc # "insert"
              /\ capture[l].pc # "publish" /\ submissions[l] = "none"
    BY <1>6, Alone
  <2>3. KeysInv'
    BY <1>2, <1>3, <1>4, <2>1, <2>2 DEF CaptureInv, KeysInv, Lead
  <2>4. SubmittedInv'
    BY <1>4, SubmittedKept DEF CaptureInv
  <2>. QED  BY <1>2, <1>4, <2>3, <2>4, AtWork
<1>. QED  BY <1>5, <1>6 DEF SubmitFails, At

LEMMA PublishLeadStep ==
    ASSUME CaptureInv, NEW k \in Captures, PublishLead(k) PROVE CaptureInv' /\ NumberKept
<1>1. PICK q : q = [capture[k] EXCEPT !.pc = "done"]
  OBVIOUS
<1>2. q \in CaptureRow /\ q.pc = "done" /\ capture' = [capture EXCEPT ![k] = q]
  BY <1>1, CaptureRows DEF PublishLead
<1>3. \A l \in Captures : capture'[l] = IF l = k THEN q ELSE capture[l]
  BY <1>2 DEF CaptureInv
<1>4. capture[k].pc = "publish" /\ UNCHANGED <<book, card, phoneLock, submissions, keyState>>
  BY DEF PublishLead, At
<1>5. /\ leads' \in [Keys -> Nat]
      /\ \A x \in Keys : leads'[x] = IF x = Key[k] THEN leads[x] + 1 ELSE leads[x]
      /\ \A l \in Captures : Key[l] \in Keys
  BY DEF PublishLead, CaptureInv, KeysInv, Keys
<1>6. Lead(k) => /\ keyState[Key[k]] = "succeeded" /\ leads[Key[k]] = 0
                 /\ \A l \in Captures : Lead(l) /\ Key[l] = Key[k] /\ l # k => capture[l].pc # "publish"
  BY <1>4 DEF CaptureInv, KeysInv
<1>7. \A l \in Captures : Lead(l) /\ Key[l] = Key[k] => Lead(k)
  BY CaptureAssumption DEF Lead
<1>8. KeysInv'
  BY <1>2, <1>3, <1>4, <1>5, <1>6, <1>7 DEF CaptureInv, KeysInv, Lead
<1>9. SubmittedInv'
  BY <1>4, SubmittedKept DEF CaptureInv
<1>. QED  BY <1>2, <1>4, <1>8, <1>9, AtWork

LEMMA CaptureStep == ASSUME CaptureInv, CaptureNext PROVE CaptureInv' /\ NumberKept
<1>1. CASE \E c \in Callers : DeleteContact(c) \/ \E email, phone \in BOOLEAN : CreateContact(c, email, phone)
  BY <1>1, StaffSteps
<1>2. CASE DeleteForm
  BY <1>2, DeleteFormStep
<1>3. ASSUME NEW k \in Captures,
             \/ \E phone \in BOOLEAN : ResolveForm(k, phone)
             \/ CheckPage(k) \/ FindByEmail(k) \/ UpdateFails(k) \/ KeyTaken(k)
      PROVE  CaptureInv' /\ NumberKept
  BY <1>3, MoveSteps
<1>4. ASSUME NEW k \in Captures, NEW c \in Callers, InsertByEmail(k, c) \/ InsertByPhone(k, c)
      PROVE  CaptureInv' /\ NumberKept
  BY <1>4, InsertByEmailStep, InsertByPhoneStep
<1>5. ASSUME NEW k \in Captures,
             \/ UpdateFound(k) \/ LockPhone(k) \/ ReuseByPhone(k) \/ SubmitForm(k)
             \/ ReserveKey(k) \/ InsertLead(k) \/ SubmitFails(k) \/ PublishLead(k)
      PROVE  CaptureInv' /\ NumberKept
  BY <1>5, UpdateFoundStep, LockPhoneStep, ReuseByPhoneStep, SubmitFormStep, ReserveKeyStep,
     InsertLeadStep, SubmitFailsStep, PublishLeadStep
<1>. QED  BY <1>1, <1>2, <1>3, <1>4, <1>5 DEF CaptureNext

-----------------------------------------------------------------------------
(* The page and the import. *)
LEMMA PageStep == ASSUME PagesInv, PageNext PROVE PagesInv' /\ PublicByPublication
<1>. USE CaptureAssumption
<1>1. CASE UpdatePage
  BY <1>1 DEF UpdatePage, PagesInv, PublicByPublication, Public
<1>2. CASE PublishReads
  BY <1>2 DEF PublishReads, PagesInv, PublicByPublication, Public
<1>3. CASE PublishWrites
  <2>1. PICK new : new = [page EXCEPT !.status = "published", !.public = publishing]
    OBVIOUS
  <2>2. /\ new \in [status : {"draft", "published"}, draft : 0 .. MaxDrafts, public : -1 .. MaxDrafts]
        /\ new.status = "published" /\ new.public = publishing
    BY <2>1 DEF PagesInv
  <2>3. page' = new /\ publishing' = -1
    BY <1>3, <2>1 DEF PublishWrites
  <2>4. PagesInv'
    BY <2>2, <2>3 DEF PagesInv
  <2>5. PublicByPublication
    BY <2>2, <2>3 DEF PublicByPublication, Public
  <2>. QED  BY <2>4, <2>5
<1>4. CASE UnpublishPage
  BY <1>4 DEF UnpublishPage, PagesInv, PublicByPublication, Public
<1>. QED  BY <1>1, <1>2, <1>3, <1>4 DEF PageNext

LEMMA ImportMoves ==
    ASSUME ImportsInv, NEW j \in Imports,
           NEW r \in [pc : {"pending", "row", "company", "contact", "aborted", "completed"}, row : Nat, done : Nat],
           import' = [import EXCEPT ![j] = r], twins' \in 0 .. MaxCompanies,
           r.row <= FileRows + 1, r.pc \in {"company", "contact"} => r.row <= FileRows,
           r.pc = "completed" => r.row = FileRows + 1
    PROVE  ImportsInv'
BY DEF ImportsInv

LEMMA ImportStep == ASSUME ImportsInv, NEW j \in Imports,
        \/ StartImport(j) \/ FindCompany(j) \/ CreateCompanyRow(j) \/ EndImport(j)
        \/ \E ok \in BOOLEAN : ImportRow(j, ok)
    PROVE ImportsInv'
<1>. USE CaptureAssumption
<1>. DEFINE Rows == [pc : {"pending", "row", "company", "contact", "aborted", "completed"}, row : Nat, done : Nat]
<1>1. /\ import[j] \in Rows /\ import[j].row <= FileRows + 1
      /\ import[j].pc \in {"company", "contact"} => import[j].row <= FileRows
      /\ twins \in 0 .. MaxCompanies
  BY DEF ImportsInv
<1>2. CASE \E ok \in BOOLEAN : ImportRow(j, ok)
  <2>1. PICK ok \in BOOLEAN : ImportRow(j, ok)
    BY <1>2
  <2>2. PICK r : r = [pc |-> "row", row |-> import[j].row + 1, done |-> import[j].done + (IF ok THEN 1 ELSE 0)]
    OBVIOUS
  <2>3. import' = [import EXCEPT ![j] = r] /\ UNCHANGED twins /\ import[j].pc = "contact"
    BY <2>1, <2>2 DEF ImportRow, ImportAt, ImportsInv
  <2>4. r \in Rows /\ r.row <= FileRows + 1 /\ r.pc = "row"
    BY <1>1, <2>2, <2>3
  <2>. QED  BY <1>1, <2>3, <2>4, ImportMoves
<1>3. CASE StartImport(j) \/ FindCompany(j) \/ CreateCompanyRow(j) \/ EndImport(j)
  <2>1. PICK pc \in {"row", "company", "contact", "aborted", "completed"} :
            /\ Importing(j, pc) /\ twins' \in 0 .. MaxCompanies
            /\ pc \in {"company", "contact"} => import[j].row <= FileRows
            /\ pc = "completed" => import[j].row > FileRows
    <3>1. CASE StartImport(j)
      BY <1>1, <3>1 DEF StartImport
    <3>2. CASE FindCompany(j)
      BY <1>1, <3>2 DEF FindCompany
    <3>3. CASE CreateCompanyRow(j)
      BY <1>1, <3>3 DEF CreateCompanyRow, ImportAt
    <3>4. CASE EndImport(j)
      BY <1>1, <3>4 DEF EndImport
    <3>. QED  BY <1>3, <3>1, <3>2, <3>3, <3>4
  <2>2. PICK r : r = [import[j] EXCEPT !.pc = pc]
    OBVIOUS
  <2>3. r \in Rows /\ r.pc = pc /\ r.row = import[j].row
    BY <1>1, <2>2
  <2>4. import' = [import EXCEPT ![j] = r]
    BY <2>1, <2>2 DEF Importing
  <2>5. pc = "completed" => r.row = FileRows + 1
    BY <1>1, <2>1, <2>3
  <2>. QED  BY <1>1, <2>1, <2>3, <2>4, <2>5, ImportMoves
<1>. QED  BY <1>2, <1>3

LEMMA ContactsStep ==
    ASSUME ContactsInv, [CaptureNext \/ PageNext \/ ImportNext]_contactVars
    PROVE  ContactsInv' /\ [NumberKept]_captureVars /\ [PublicByPublication]_pageVars
<1>1. UNCHANGED captureVars => CaptureInv'
  BY DEF captureVars, ContactsInv, CaptureInv, CardsInv, PhonesInv, KeysInv, SubmittedInv, SubmissionsLinked,
         InBook, ByPhone, PhoneWrites, Lead
<1>2. UNCHANGED pageVars => PagesInv'
  BY DEF pageVars, ContactsInv, PagesInv
<1>3. UNCHANGED importVars => ImportsInv'
  BY DEF importVars, ContactsInv, ImportsInv
<1>4. CASE CaptureNext
  <2>1. CaptureInv' /\ NumberKept
    BY <1>4, CaptureStep DEF ContactsInv
  <2>2. UNCHANGED <<pageVars, importVars>>
    BY <1>4 DEF CaptureNext, DeleteContact, CreateContact, DeleteForm, ResolveForm, CheckPage, FindByEmail,
       UpdateFound, UpdateFails, LockPhone, ReuseByPhone, InsertByEmail, InsertByPhone, SubmitForm, ReserveKey,
       KeyTaken, InsertLead, SubmitFails, PublishLead
  <2>. QED  BY <1>2, <1>3, <2>1, <2>2 DEF ContactsInv
<1>5. CASE PageNext
  <2>1. PagesInv' /\ PublicByPublication
    BY <1>5, PageStep DEF ContactsInv
  <2>2. UNCHANGED <<captureVars, importVars>>
    BY <1>5 DEF PageNext, UpdatePage, PublishReads, PublishWrites, UnpublishPage
  <2>. QED  BY <1>1, <1>3, <2>1, <2>2 DEF ContactsInv
<1>6. CASE ImportNext
  <2>1. ImportsInv'
    BY <1>6, ImportStep DEF ContactsInv, ImportNext
  <2>2. UNCHANGED <<captureVars, pageVars>>
    BY <1>6 DEF ImportNext, StartImport, FindCompany, CreateCompanyRow, EndImport, ImportRow
  <2>. QED  BY <1>1, <1>2, <2>1, <2>2 DEF ContactsInv
<1>7. CASE UNCHANGED contactVars
  BY <1>1, <1>2, <1>3, <1>7 DEF contactVars, ContactsInv
<1>. QED  BY <1>4, <1>5, <1>6, <1>7

LEMMA ContactsStart == ASSUME CaptureInit PROVE ContactsInv
<1>1. CardsInv
  <2>1. book = <<>> /\ \A c \in Callers : card[c] = NoCard /\ NoCard \in CardRow /\ ~NoCard.there
                                          /\ ~NoCard.phone /\ NoCard.by = "nobody"
    BY DEF CaptureInit, CaptureRest, NoCard, CardRow
  <2>2. card \in [Callers -> CardRow]
    BY <2>1 DEF CaptureInit, CaptureRest
  <2>. QED  BY <2>1, <2>2 DEF CardsInv, IsInjective
<1>2. PICK q : q = NewCapture
  OBVIOUS
<1>3. /\ q \in CaptureRow /\ q.pc = "idle" /\ capture \in [Captures -> CaptureRow]
      /\ \A k \in Captures : capture[k].pc = "idle"
  BY <1>2 DEF CaptureInit, NewCapture, CaptureRow
<1>4. PhonesInv
  BY <1>3 DEF PhonesInv, PhoneWrites, ByPhone, CaptureInit, CaptureRest, NoCard
<1>5. KeysInv
  BY <1>3 DEF KeysInv, CaptureInit, CaptureRest, Keys
<1>6. SubmittedInv
  BY CaptureAssumption DEF SubmittedInv, SubmissionsLinked, CaptureInit, CaptureRest
<1>7. PagesInv
  BY CaptureAssumption DEF PagesInv, CaptureInit, CaptureRest
<1>8. ImportsInv
  <2>1. PICK r : r = [pc |-> "pending", row |-> 1, done |-> 0]
    OBVIOUS
  <2>2. import = [j \in Imports |-> r] /\ twins = 0
    BY <2>1 DEF CaptureInit, CaptureRest
  <2>. QED  BY <2>1, <2>2, CaptureAssumption DEF ImportsInv
<1>. QED  BY <1>1, <1>3, <1>4, <1>5, <1>6, <1>7, <1>8 DEF ContactsInv, CaptureInv

\* A set of which any two elements are equal has at most one.
LEMMA AtMostOne == ASSUME NEW S, \A x, y \in S : x = y PROVE Cardinality(S) <= 1
<1>1. CASE S = {}
  BY <1>1, FS_EmptySet
<1>2. CASE S # {}
  <2>1. PICK x \in S : TRUE
    BY <1>2
  <2>2. S = {x}
    BY <2>1
  <2>. QED  BY <2>2, FS_Singleton
<1>. QED  BY <1>1, <1>2

LEMMA ContactsAreRight ==
    ASSUME ContactsInv
    PROVE  CaptureTypeOK /\ OnePerPhone /\ OneLeadPerKey /\ SubmissionsLinked /\ ImportAccounts
<1>1. CaptureTypeOK
  <2>1. \A c \in Callers : card[c].there => c \in ToSet(book)
    BY DEF ContactsInv, CaptureInv, CardsInv, InBook, ToSet
  <2>2. \A k \in Captures : capture[k].contact \in Callers \cup {Unknown}
    BY DEF ContactsInv, CaptureInv, CaptureRow
  <2>. QED  BY <2>1, <2>2 DEF CaptureTypeOK, ContactsInv, CaptureInv, CardsInv, KeysInv, SubmittedInv, PagesInv, ImportsInv
<1>2. OnePerPhone
  <2>1. PICK S : S = {c \in Callers : card[c].there /\ card[c].by = "phone"}
    OBVIOUS
  <2>2. \A c, d \in S : c = d
    BY <2>1 DEF ContactsInv, CaptureInv, PhonesInv, ByPhone
  <2>3. Cardinality(S) <= 1
    BY ONLY <2>2, AtMostOne
  <2>. QED  BY <2>1, <2>3 DEF OnePerPhone
<1>3. OneLeadPerKey
  <2>1. SUFFICES ASSUME NEW x \in Keys, NEW mine, mine = {k \in Captures : Channel[k] = "lead" /\ Key[k] = x}
                 PROVE  /\ Cardinality({k \in mine : submissions[k] # "none"}) <= 1
                        /\ mine # {} => leads[x] <= 1
    BY DEF OneLeadPerKey
  <2>2. PICK S : S = {k \in mine : submissions[k] # "none"}
    OBVIOUS
  <2>3. \A k, l \in S : k = l
    BY <2>1, <2>2 DEF ContactsInv, CaptureInv, KeysInv, Lead
  <2>4. Cardinality(S) <= 1
    BY ONLY <2>3, AtMostOne
  <2>5. mine # {} => leads[x] <= 1
    BY <2>1 DEF ContactsInv, CaptureInv, KeysInv, Lead
  <2>. QED  BY <2>2, <2>4, <2>5
<1>4. SubmissionsLinked /\ ImportAccounts
  BY DEF ContactsInv, CaptureInv, SubmittedInv, ImportsInv, ImportAccounts, ImportAt
<1>. QED  BY <1>1, <1>2, <1>3, <1>4

\* However forms, leads, messages, deletions, publications and imports overlap, for
\* any number of each: a number has one contact made by messages and is never
\* blanked, a key one submission and one reported lead, no submission names a
\* contact that is gone, a completed import has dealt with every row, and what the
\* public sees changes by a publication or a withdrawal only.
THEOREM CapturedOnceHolds == CaptureSpec => CapturedOnce
<1>1. CaptureInit => ContactsInv
  BY ContactsStart
<1>2. ContactsInv /\ [CaptureNext \/ PageNext \/ ImportNext]_contactVars
        => ContactsInv' /\ [NumberKept]_captureVars /\ [PublicByPublication]_pageVars
  BY ContactsStep
<1>3. ContactsInv => CaptureTypeOK /\ OnePerPhone /\ OneLeadPerKey /\ SubmissionsLinked /\ ImportAccounts
  BY ContactsAreRight
<1>. QED  BY <1>1, <1>2, <1>3, PTL DEF CaptureSpec, CapturedOnce
===============================================================================
