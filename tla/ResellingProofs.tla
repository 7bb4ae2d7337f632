--------------------------- MODULE ResellingProofs ---------------------------
(***************************************************************************)
(* Proofs about Reselling for every set of buyers, of offers, of purchases *)
(* and of keys, and every quota; and about Provisioning for every set of   *)
(* agencies, clients, invitations and attachments.                         *)
(***************************************************************************)
EXTENDS Reselling, Provisioning, FiniteSetTheorems, TLAPS

ResaleSpec == ResaleInit /\ [][ResaleNext]_resaleVars

Plans == {PlatformPlan} \cup Offers

PlanRows == [made : BOOLEAN, owner : Shops \cup {Nobody}, level : Nat]

OfferRows ==
  [at : {"idle", "gated", "paid", "refused", "look", "merchant", "adopt", "adopted", "conflict",
         "done", "dead"},
   key : OfferKeys \cup {"none"}, level : Nat, row : {"none", "enabled", "disabled"},
   renamed : BOOLEAN]

PurchaseRows ==
  [at : {"idle", "look", "merchant", "adopt", "adopted", "done", "dead"},
   tenant : Shops \cup {Nobody}, plan : Plans \cup {NoPlan}, key : BuyKeys \cup {"none"},
   kind : {"create", "change", "none"}]

SubscriptionRows == [tenant : Shops, key : BuyKeys, plan : Plans, active : BOOLEAN]

ResaleTypeOK ==
  /\ plan \in [Plans -> PlanRows]
  /\ offer \in [Offers -> OfferRows]
  /\ purchase \in [Purchases -> PurchaseRows]
  /\ shop \subseteq Shops
  /\ spent \in [limit : Nat, used : Nat]
  /\ subscription \subseteq SubscriptionRows

\* Whoever owns a plan can sell it, and a resale plan is nobody else's than
\* its reseller's.
OwnersInv ==
  /\ plan[PlatformPlan].made
  /\ \A p \in Plans : plan[p].owner # Nobody => plan[p].owner \in shop
  /\ \A o \in Offers : plan[o].owner \in {Nobody, Reseller}

\* How far a request has come says what is there of the plan it makes.
OfferSound(o) ==
  /\ offer[o].at \in {"idle", "gated", "paid", "refused"} => ~plan[o].made
  /\ offer[o].at \in {"look", "merchant", "adopt", "adopted"} =>
         plan[o].made /\ plan[o].level = offer[o].level
  /\ offer[o].at = "adopt" => Reseller \in shop
  /\ offer[o].at = "adopted" => plan[o].owner # Nobody
  /\ offer[o].row # "none" =>
         /\ offer[o].at = "done" /\ plan[o].made /\ plan[o].level = offer[o].level
         /\ plan[o].owner = Reseller

\* A purchase adopts nothing but the platform's plan, and subscribes to a plan
\* that is in a catalog.
PurchaseSound(b) ==
  /\ purchase[b].at \in {"look", "merchant", "adopt", "adopted"} =>
         purchase[b].tenant \in Shops /\ purchase[b].key \in BuyKeys /\ purchase[b].plan \in Plans
  /\ purchase[b].at \in {"look", "merchant", "adopt"} => purchase[b].plan = PlatformPlan
  /\ purchase[b].at = "adopt" => purchase[b].tenant \in shop
  /\ purchase[b].at = "adopted" =>
         plan[purchase[b].plan].made /\ plan[purchase[b].plan].owner # Nobody

SubscriptionsInv ==
  /\ \A s \in subscription : plan[s.plan].made /\ plan[s.plan].owner # Nobody
  /\ BoughtOncePerKey

\* The requests that hold a unit of the quota, with or without their plan.
Charged == {o \in Offers : plan[o].made \/ offer[o].at = "paid"}
QuotaInv == Cardinality(Charged) <= spent.used /\ spent.used <= spent.limit

IInv ==
  /\ ResaleTypeOK /\ OwnersInv /\ SubscriptionsInv /\ QuotaInv
  /\ (\A o \in Offers : OfferSound(o))
  /\ (\A b \in Purchases : PurchaseSound(b))

USE ResellingAssumption
-----------------------------------------------------------------------------
\* The invariant is what was asked for, and more.
LEMMA InvariantSuffices ==
  ASSUME IInv
  PROVE  PlansWithinQuota /\ SoldFromACatalog /\ SoldAsStated /\ BoughtOncePerKey
<1>1. Cardinality({o \in Offers : plan[o].made}) <= Cardinality(Charged)
  <2>1. Charged \subseteq Offers /\ {o \in Offers : plan[o].made} \subseteq Charged
    BY DEF Charged
  <2>. QED  BY <2>1, FS_Subset
<1>2. Cardinality(Charged) \in Nat /\ Cardinality({o \in Offers : plan[o].made}) \in Nat
  BY FS_Subset, FS_CardinalityType DEF Charged
<1>3. PlansWithinQuota
  BY <1>1, <1>2 DEF IInv, QuotaInv, PlansWithinQuota, ResaleTypeOK
<1>4. SoldFromACatalog
  <2>1. \A s \in subscription : s.plan \in Plans
    BY DEF IInv, ResaleTypeOK, SubscriptionRows
  <2>2. \A o \in Offers : o \in Plans
    BY DEF Plans
  <2>. QED
    BY <2>1, <2>2 DEF IInv, SubscriptionsInv, OwnersInv, OfferSound, SoldFromACatalog, Shops
<1>5. SoldAsStated
  BY DEF IInv, OfferSound, SoldAsStated
<1>. QED  BY <1>3, <1>4, <1>5 DEF IInv, SubscriptionsInv

LEMMA InitInv == ResaleInit => IInv
<1>. SUFFICES ASSUME ResaleInit PROVE IInv
  OBVIOUS
<1>1. plan \in [Plans -> PlanRows]
  BY DEF ResaleInit, Plans, PlanRows
<1>2. offer \in [Offers -> OfferRows] /\ purchase \in [Purchases -> PurchaseRows]
  BY DEF ResaleInit, OfferRows, PurchaseRows
<1>3. spent \in [limit : Nat, used : Nat] /\ spent.used = 0 /\ 0 <= spent.limit
  <2>1. spent \in [limit : Quotas, used : {0}]
    BY DEF ResaleInit
  <2>2. PICK q \in Quotas : spent = [limit |-> q, used |-> 0]
    BY <2>1
  <2>3. q \in Nat
    OBVIOUS
  <2>. QED  BY <2>2, <2>3
<1>4. ResaleTypeOK
  BY <1>1, <1>2, <1>3 DEF ResaleInit, ResaleTypeOK
<1>5. OwnersInv /\ SubscriptionsInv
  BY DEF ResaleInit, OwnersInv, SubscriptionsInv, BoughtOncePerKey, Plans
<1>6. \A o \in Offers : OfferSound(o)
  BY DEF ResaleInit, OfferSound, Plans
<1>7. \A b \in Purchases : PurchaseSound(b)
  BY DEF ResaleInit, PurchaseSound
<1>8. Charged = {}
  BY DEF ResaleInit, Charged, Plans
<1>9. QuotaInv
  BY <1>3, <1>8, FS_EmptySet DEF QuotaInv
<1>. QED  BY <1>4, <1>5, <1>6, <1>7, <1>9 DEF IInv
-----------------------------------------------------------------------------
\* What a step may do to the plans and the merchants without disturbing those
\* who rely on them.
PlansStay ==
  /\ shop \subseteq shop'
  /\ \A p \in Plans :
       /\ plan[p].made => plan'[p].made /\ plan'[p].level = plan[p].level
       /\ plan[p].owner # Nobody => plan'[p].owner = plan[p].owner

LEMMA OfferStays ==
  ASSUME IInv, OwnersInv', PlansStay, NEW o \in Offers,
         offer'[o] = offer[o], plan'[o].made = plan[o].made
  PROVE  OfferSound(o)'
BY DEF IInv, OwnersInv, PlansStay, OfferSound, Plans

LEMMA PurchaseStays ==
  ASSUME IInv, PlansStay, NEW b \in Purchases, purchase'[b] = purchase[b]
  PROVE  PurchaseSound(b)'
BY DEF IInv, PlansStay, PurchaseSound

LEMMA SubscriptionsStay ==
  ASSUME IInv, PlansStay, UNCHANGED subscription
  PROVE  SubscriptionsInv'
<1>1. \A s \in subscription : s.plan \in Plans
  BY DEF IInv, ResaleTypeOK, SubscriptionRows
<1>. QED  BY <1>1 DEF IInv, PlansStay, SubscriptionsInv, BoughtOncePerKey

LEMMA QuotaStays ==
  ASSUME IInv, UNCHANGED spent, Charged' \subseteq Charged
  PROVE  QuotaInv'
<1>1. IsFiniteSet(Charged)
  BY FS_Subset DEF Charged
<1>2. /\ IsFiniteSet(Charged') /\ Cardinality(Charged') <= Cardinality(Charged)
      /\ Cardinality(Charged) \in Nat /\ Cardinality(Charged') \in Nat
  BY <1>1, FS_Subset, FS_CardinalityType
<1>. QED  BY <1>2 DEF IInv, QuotaInv, ResaleTypeOK

\* A request to create a plan that goes on without a plan and without quota.
LEMMA OfferMoves ==
  ASSUME IInv, NEW o \in Offers, NEW r \in OfferRows, offer' = [offer EXCEPT ![o] = r],
         r.at # "paid", UNCHANGED <<plan, spent, purchase, subscription>>,
         shop \subseteq shop', shop' \subseteq Shops, OfferSound(o)'
  PROVE  IInv'
<1>1. ResaleTypeOK'
  BY DEF IInv, ResaleTypeOK
<1>2. PlansStay /\ OwnersInv'
  BY DEF PlansStay, IInv, OwnersInv
<1>3. offer'[o] = r /\ \A x \in Offers \ {o} : offer'[x] = offer[x]
  BY DEF IInv, ResaleTypeOK
<1>4. \A x \in Offers : OfferSound(x)'
  BY <1>2, <1>3, OfferStays
<1>5. \A b \in Purchases : PurchaseSound(b)'
  BY <1>2, PurchaseStays
<1>6. Charged' \subseteq Charged
  BY <1>3 DEF Charged
<1>. QED  BY <1>1, <1>2, <1>4, <1>5, <1>6, SubscriptionsStay, QuotaStays DEF IInv

LEMMA PassesGatesStep ==
  ASSUME IInv, NEW o \in Offers, NEW k \in OfferKeys, NEW level \in 1..TopLevel,
         PassesGates(o, k, level)
  PROVE  IInv'
<1>1. PICK r : r = [offer[o] EXCEPT !.at = "gated", !.key = k, !.level = level]
  OBVIOUS
<1>2. /\ r \in OfferRows /\ r.at = "gated" /\ r.row = offer[o].row
  <2>1. offer[o] \in OfferRows /\ level \in Nat
    BY DEF IInv, ResaleTypeOK
  <2>. QED  BY <1>1, <2>1 DEF OfferRows
<1>3. offer' = [offer EXCEPT ![o] = r] /\ UNCHANGED <<plan, shop, spent, purchase, subscription>>
  BY <1>1 DEF PassesGates
<1>4. OfferSound(o) /\ offer[o].at = "idle" /\ offer'[o] = r
  BY <1>3 DEF PassesGates, IInv, ResaleTypeOK
<1>5. OfferSound(o)'
  BY <1>2, <1>3, <1>4 DEF OfferSound
<1>. QED  BY <1>2, <1>3, <1>5, OfferMoves DEF IInv, ResaleTypeOK

\* The steps that change nothing of a request but how far it has come.
LEMMA AtSteps ==
  ASSUME IInv, NEW o \in Offers,
         OfferLooksUp(o) \/ OfferEnsuresMerchant(o) \/ OfferDies(o)
  PROVE  IInv'
<1>1. PICK at \in {"merchant", "adopt", "adopted", "dead"} :
         /\ offer' = [offer EXCEPT ![o].at = at]
         /\ at = "adopted" => plan[o].owner # Nobody
         /\ at \in {"merchant", "adopt", "adopted"} => offer[o].at \in {"look", "merchant"}
         /\ at = "adopt" => Reseller \in shop'
  BY DEF OfferLooksUp, LooksUp, OfferEnsuresMerchant, OfferDies
<1>2. PICK r : r = [offer[o] EXCEPT !.at = at]
  OBVIOUS
<1>3. /\ r \in OfferRows /\ r.at = at /\ r.row = offer[o].row /\ r.level = offer[o].level
  BY <1>2 DEF IInv, ResaleTypeOK, OfferRows
<1>4. offer' = [offer EXCEPT ![o] = r] /\ offer'[o] = r
  BY <1>1, <1>2 DEF IInv, ResaleTypeOK
<1>5. /\ UNCHANGED <<plan, spent, purchase, subscription>>
      /\ shop \subseteq shop' /\ shop' \subseteq Shops
  BY DEF OfferLooksUp, OfferEnsuresMerchant, OfferDies, IInv, ResaleTypeOK, Shops
<1>6. offer[o].at # "done" /\ OfferSound(o)
  BY DEF OfferLooksUp, OfferEnsuresMerchant, OfferDies, IInv
<1>7. OfferSound(o)'
  BY <1>1, <1>3, <1>4, <1>5, <1>6 DEF OfferSound
<1>. QED  BY <1>3, <1>4, <1>5, <1>7, OfferMoves

\* The row of a plan: inserted, renamed, deactivated.
LEMMA RowSteps ==
  ASSUME IInv, NEW o \in Offers,
         InsertResalePlan(o) \/ UpdateResalePlan(o) \/ DeactivateResalePlan(o)
  PROVE  IInv'
<1>1. PICK r \in OfferRows :
         /\ offer' = [offer EXCEPT ![o] = r] /\ r.level = offer[o].level
         /\ \/ offer[o].at = "adopted" /\ r.at = "conflict" /\ r.row = offer[o].row
            \/ offer[o].at = "adopted" /\ r.at = "done"
            \/ offer[o].row # "none" /\ r.at = offer[o].at
  <2>1. CASE InsertResalePlan(o)
    <3>1. PICK r \in {[offer[o] EXCEPT !.at = "conflict"],
                      [offer[o] EXCEPT !.at = "done", !.row = "enabled"]} :
             offer' = [offer EXCEPT ![o] = r]
      BY <2>1 DEF InsertResalePlan, IInv, ResaleTypeOK
    <3>. QED  BY <2>1, <3>1 DEF InsertResalePlan, IInv, ResaleTypeOK, OfferRows
  <2>2. CASE UpdateResalePlan(o)
    <3>1. PICK r : r = [offer[o] EXCEPT !.renamed = TRUE]
      OBVIOUS
    <3>2. offer[o] \in OfferRows /\ offer[o].row # "none"
      BY <2>2 DEF UpdateResalePlan, IInv, ResaleTypeOK
    <3>3. r \in OfferRows /\ r.level = offer[o].level /\ r.at = offer[o].at
      BY <3>1, <3>2 DEF OfferRows
    <3>4. offer' = [offer EXCEPT ![o] = r]
      BY <2>2, <3>1 DEF UpdateResalePlan, IInv, ResaleTypeOK
    <3>. QED  BY <3>2, <3>3, <3>4
  <2>3. CASE DeactivateResalePlan(o)
    <3>1. PICK r : r = [offer[o] EXCEPT !.row = "disabled"]
      OBVIOUS
    <3>2. offer[o] \in OfferRows /\ offer[o].row # "none"
      BY <2>3 DEF DeactivateResalePlan, IInv, ResaleTypeOK
    <3>3. r \in OfferRows /\ r.level = offer[o].level /\ r.at = offer[o].at
      BY <3>1, <3>2 DEF OfferRows
    <3>4. offer' = [offer EXCEPT ![o] = r]
      BY <2>3, <3>1 DEF DeactivateResalePlan, IInv, ResaleTypeOK
    <3>. QED  BY <3>2, <3>3, <3>4
  <2>. QED  BY <2>1, <2>2, <2>3
<1>2. UNCHANGED <<plan, shop, spent, purchase, subscription>>
  BY DEF InsertResalePlan, UpdateResalePlan, DeactivateResalePlan
<1>3. OfferSound(o) /\ offer'[o] = r
  BY <1>1 DEF IInv, ResaleTypeOK
<1>4. plan[o].owner \in {Nobody, Reseller}
  BY DEF IInv, OwnersInv
<1>5. r.at # "paid" /\ OfferSound(o)'
  BY <1>1, <1>2, <1>3, <1>4 DEF OfferSound
<1>. QED  BY <1>1, <1>2, <1>5, OfferMoves DEF IInv, ResaleTypeOK

\* The request that gets a unit of the quota is counted from here on.
LEMMA ConsumeQuotaStep == ASSUME IInv, NEW o \in Offers, ConsumeQuota(o) PROVE IInv'
<1>1. OfferSound(o) /\ offer[o].at = "gated" /\ offer[o] \in OfferRows
      /\ UNCHANGED <<plan, shop, purchase, subscription>>
  BY DEF ConsumeQuota, IInv, ResaleTypeOK
<1>2. ASSUME NEW at \in {"paid", "refused"}, offer' = [offer EXCEPT ![o].at = at]
      PROVE  /\ offer'[o] \in OfferRows /\ offer' = [offer EXCEPT ![o] = offer'[o]]
             /\ offer'[o].at = at /\ OfferSound(o)'
  <2>1. PICK r : r = [offer[o] EXCEPT !.at = at]
    OBVIOUS
  <2>2. r \in OfferRows /\ r.at = at /\ r.row = offer[o].row /\ r.level = offer[o].level
    BY <1>1, <2>1 DEF OfferRows
  <2>3. offer' = [offer EXCEPT ![o] = r] /\ offer'[o] = r
    BY <1>2, <2>1 DEF IInv, ResaleTypeOK
  <2>. QED  BY <1>1, <2>2, <2>3 DEF OfferSound
<1>3. CASE spent.used < spent.limit
  <2>1. /\ spent' = [spent EXCEPT !.used = @ + 1] /\ offer' = [offer EXCEPT ![o].at = "paid"]
    BY <1>3 DEF ConsumeQuota
  <2>2. /\ spent' \in [limit : Nat, used : Nat]
        /\ spent'.used = spent.used + 1 /\ spent'.used <= spent'.limit
    BY <1>3, <2>1 DEF IInv, ResaleTypeOK
  <2>3. /\ offer'[o] \in OfferRows /\ offer' = [offer EXCEPT ![o] = offer'[o]]
        /\ offer'[o].at = "paid" /\ OfferSound(o)'
    BY <1>2, <2>1
  <2>4. ResaleTypeOK' /\ \A x \in Offers \ {o} : offer'[x] = offer[x]
    BY <1>1, <2>2, <2>3 DEF IInv, ResaleTypeOK
  <2>5. PlansStay /\ OwnersInv'
    BY <1>1 DEF PlansStay, IInv, OwnersInv
  <2>6. Charged' = Charged \cup {o}
    BY <1>1, <2>3, <2>4 DEF Charged
  <2>7. QuotaInv'
    <3>1. IsFiniteSet(Charged) /\ Cardinality(Charged) \in Nat
      BY FS_Subset, FS_CardinalityType DEF Charged
    <3>2. Cardinality(Charged') \in Nat /\ Cardinality(Charged') <= Cardinality(Charged) + 1
      <4>1. /\ IsFiniteSet(Charged \cup {o})
            /\ Cardinality(Charged \cup {o}) =
                 IF o \in Charged THEN Cardinality(Charged) ELSE Cardinality(Charged) + 1
        BY <3>1, FS_AddElement
      <4>2. Cardinality(Charged \cup {o}) \in Nat
        BY <4>1, FS_CardinalityType
      <4>. QED  BY <2>6, <3>1, <4>1, <4>2
    <3>3. spent.used \in Nat /\ Cardinality(Charged) <= spent.used
      BY DEF IInv, QuotaInv, ResaleTypeOK
    <3>4. Cardinality(Charged') <= spent'.used
      BY <2>2, <3>1, <3>2, <3>3
    <3>. QED  BY <2>2, <3>4 DEF QuotaInv
  <2>8. (\A x \in Offers : OfferSound(x)') /\ \A b \in Purchases : PurchaseSound(b)'
    BY <1>1, <2>3, <2>4, <2>5, OfferStays, PurchaseStays
  <2>. QED  BY <1>1, <2>4, <2>5, <2>7, <2>8, SubscriptionsStay DEF IInv
<1>4. CASE ~(spent.used < spent.limit)
  <2>1. offer' = [offer EXCEPT ![o].at = "refused"] /\ UNCHANGED spent
    BY <1>4 DEF ConsumeQuota
  <2>. QED  BY <1>1, <1>2, <2>1, OfferMoves DEF IInv, ResaleTypeOK
<1>. QED  BY <1>3, <1>4

\* The plan is made, of the level that was asked for, and counts as it did.
LEMMA CreateUnderlyingPlanStep ==
  ASSUME IInv, NEW o \in Offers, CreateUnderlyingPlan(o) PROVE IInv'
<1>1. /\ OfferSound(o) /\ offer[o].at = "paid" /\ offer[o] \in OfferRows /\ plan[o] \in PlanRows
      /\ ~plan[o].made /\ UNCHANGED <<shop, spent, purchase, subscription>>
  BY DEF CreateUnderlyingPlan, IInv, ResaleTypeOK, OfferSound, Plans
<1>2. PICK r : r = [offer[o] EXCEPT !.at = "look"]
  OBVIOUS
<1>3. r \in OfferRows /\ r.at = "look" /\ r.row = offer[o].row /\ r.level = offer[o].level
  BY <1>1, <1>2 DEF OfferRows
<1>4. offer' = [offer EXCEPT ![o] = r] /\ offer'[o] = r /\ \A x \in Offers \ {o} : offer'[x] = offer[x]
  BY <1>2 DEF CreateUnderlyingPlan, IInv, ResaleTypeOK
<1>5. PICK q : q = [plan[o] EXCEPT !.made = TRUE, !.level = offer[o].level]
  OBVIOUS
<1>6. q \in PlanRows /\ q.made /\ q.level = offer[o].level /\ q.owner = plan[o].owner
  BY <1>1, <1>5 DEF PlanRows, OfferRows
<1>7. /\ plan'[o] = q /\ \A p \in Plans \ {o} : plan'[p] = plan[p]
      /\ plan' \in [Plans -> PlanRows]
  <2>1. plan' = [plan EXCEPT ![o].made = TRUE, ![o].level = offer[o].level]
    BY DEF CreateUnderlyingPlan
  <2>2. plan'[o] = q /\ \A p \in Plans \ {o} : plan'[p] = plan[p]
    BY <1>5, <2>1 DEF IInv, ResaleTypeOK, Plans
  <2>3. plan' = [p \in Plans |-> plan'[p]]
    BY <2>1 DEF IInv, ResaleTypeOK
  <2>. QED  BY <1>6, <2>2, <2>3 DEF IInv, ResaleTypeOK
<1>8. ResaleTypeOK'
  BY <1>1, <1>3, <1>4, <1>7 DEF IInv, ResaleTypeOK
<1>9. PlansStay /\ OwnersInv'
  BY <1>1, <1>6, <1>7 DEF PlansStay, IInv, OwnersInv, Plans
<1>10. OfferSound(o)'
  BY <1>1, <1>3, <1>4, <1>6, <1>7 DEF OfferSound
<1>11. (\A x \in Offers : OfferSound(x)') /\ \A b \in Purchases : PurchaseSound(b)'
  BY <1>1, <1>4, <1>7, <1>9, <1>10, OfferStays, PurchaseStays DEF Plans
<1>12. Charged' \subseteq Charged
  BY <1>1, <1>4, <1>7, <1>3 DEF Charged, Plans
<1>. QED  BY <1>1, <1>8, <1>9, <1>11, <1>12, SubscriptionsStay, QuotaStays DEF IInv

\* A plan that nobody owned becomes the tenant's; one that somebody owns stays.
LEMMA Adoption ==
  ASSUME IInv, NEW p \in Plans, NEW t \in shop, plan' = AdoptedBy(p, t), UNCHANGED shop,
         p \in Offers => t = Reseller
  PROVE  /\ plan' \in [Plans -> PlanRows] /\ PlansStay /\ OwnersInv' /\ plan'[p].owner # Nobody
         /\ \A q \in Plans : plan'[q].made = plan[q].made /\ plan'[q].level = plan[q].level
<1>1. t \in Shops /\ plan[p] \in PlanRows
  BY DEF IInv, ResaleTypeOK
<1>2. CASE plan[p].owner # Nobody
  BY <1>2 DEF AdoptedBy, PlansStay, IInv, OwnersInv, ResaleTypeOK
<1>3. CASE plan[p].owner = Nobody
  <2>1. PICK q : q = [plan[p] EXCEPT !.owner = t]
    OBVIOUS
  <2>2. q \in PlanRows /\ q.owner = t /\ q.made = plan[p].made /\ q.level = plan[p].level
    BY <1>1, <2>1 DEF PlanRows
  <2>3. plan' = [plan EXCEPT ![p] = q]
    BY <1>3, <2>1 DEF AdoptedBy, IInv, ResaleTypeOK
  <2>4. /\ plan' \in [Plans -> PlanRows] /\ plan'[p] = q
        /\ \A x \in Plans \ {p} : plan'[x] = plan[x]
    BY <2>2, <2>3 DEF IInv, ResaleTypeOK
  <2>5. t # Nobody
    BY <1>1
  <2>. QED
    BY <1>3, <2>2, <2>4, <2>5 DEF PlansStay, IInv, OwnersInv, Plans
<1>. QED  BY <1>2, <1>3

LEMMA OfferAdoptsStep == ASSUME IInv, NEW o \in Offers, OfferAdopts(o) PROVE IInv'
<1>1. /\ OfferSound(o) /\ offer[o].at = "adopt" /\ offer[o] \in OfferRows /\ o \in Plans
      /\ Reseller \in shop /\ plan' = AdoptedBy(o, Reseller)
      /\ UNCHANGED <<shop, spent, purchase, subscription>>
  BY DEF OfferAdopts, IInv, ResaleTypeOK, OfferSound, Plans
<1>2. /\ plan' \in [Plans -> PlanRows] /\ PlansStay /\ OwnersInv' /\ plan'[o].owner # Nobody
      /\ \A q \in Plans : plan'[q].made = plan[q].made /\ plan'[q].level = plan[q].level
  BY <1>1, Adoption
<1>3. PICK r : r = [offer[o] EXCEPT !.at = "adopted"]
  OBVIOUS
<1>4. r \in OfferRows /\ r.at = "adopted" /\ r.row = offer[o].row /\ r.level = offer[o].level
  BY <1>1, <1>3 DEF OfferRows
<1>5. /\ offer' = [offer EXCEPT ![o] = r] /\ offer'[o] = r
      /\ \A x \in Offers \ {o} : offer'[x] = offer[x]
  BY <1>3 DEF OfferAdopts, IInv, ResaleTypeOK
<1>6. ResaleTypeOK'
  BY <1>1, <1>2, <1>4, <1>5 DEF IInv, ResaleTypeOK
<1>7. OfferSound(o)'
  BY <1>1, <1>2, <1>4, <1>5 DEF OfferSound
<1>8. (\A x \in Offers : OfferSound(x)') /\ \A b \in Purchases : PurchaseSound(b)'
  BY <1>1, <1>2, <1>5, <1>7, OfferStays, PurchaseStays DEF Plans
<1>9. Charged' \subseteq Charged
  BY <1>1, <1>2, <1>4, <1>5 DEF Charged, Plans
<1>. QED  BY <1>1, <1>2, <1>6, <1>8, <1>9, SubscriptionsStay, QuotaStays DEF IInv
-----------------------------------------------------------------------------
\* A purchase that goes on without a plan and without a subscription.
LEMMA PurchaseMoves ==
  ASSUME IInv, NEW b \in Purchases, NEW r \in PurchaseRows, purchase' = [purchase EXCEPT ![b] = r],
         UNCHANGED <<plan, spent, offer, subscription>>, shop \subseteq shop', shop' \subseteq Shops,
         PurchaseSound(b)'
  PROVE  IInv'
<1>1. ResaleTypeOK'
  BY DEF IInv, ResaleTypeOK
<1>2. PlansStay /\ OwnersInv'
  BY DEF PlansStay, IInv, OwnersInv
<1>3. \A x \in Offers : OfferSound(x)'
  BY <1>2, OfferStays
<1>4. \A x \in Purchases : PurchaseSound(x)'
  <2>1. \A x \in Purchases \ {b} : purchase'[x] = purchase[x]
    BY DEF IInv, ResaleTypeOK
  <2>. QED  BY <1>2, <2>1, PurchaseStays
<1>5. Charged' \subseteq Charged
  BY DEF Charged
<1>. QED  BY <1>1, <1>2, <1>3, <1>4, <1>5, SubscriptionsStay, QuotaStays DEF IInv

LEMMA BeginPurchaseStep ==
  ASSUME IInv, NEW b \in Purchases, NEW t \in Shops, NEW p \in Plans, NEW k \in BuyKeys,
         NEW kind \in {"create", "change"}, NEW at \in {"look", "adopted"},
         BeginPurchase(b, t, p, k, kind, at),
         at = "look" => p = PlatformPlan,
         at = "adopted" => plan[p].made /\ plan[p].owner # Nobody
  PROVE  IInv'
<1>1. PICK r : r = [at |-> at, tenant |-> t, plan |-> p, key |-> k, kind |-> kind]
  OBVIOUS
<1>2. r \in PurchaseRows /\ r.at = at /\ r.tenant = t /\ r.plan = p /\ r.key = k
  BY <1>1 DEF PurchaseRows
<1>3. /\ purchase' = [purchase EXCEPT ![b] = r] /\ UNCHANGED <<plan, shop, spent, offer, subscription>>
  BY <1>1 DEF BeginPurchase
<1>4. purchase'[b] = r
  BY <1>3 DEF IInv, ResaleTypeOK
<1>5. PurchaseSound(b)'
  BY <1>2, <1>3, <1>4 DEF PurchaseSound
<1>. QED  BY <1>2, <1>3, <1>5, PurchaseMoves DEF IInv, ResaleTypeOK

LEMMA PurchaseAtSteps ==
  ASSUME IInv, NEW b \in Purchases,
         PurchaseLooksUp(b) \/ PurchaseEnsuresMerchant(b) \/ PurchaseDies(b)
  PROVE  IInv'
<1>1. PurchaseSound(b) /\ purchase[b] \in PurchaseRows /\ plan[PlatformPlan].made
  BY DEF IInv, ResaleTypeOK, OwnersInv
<1>2. PICK at \in {"merchant", "adopt", "adopted", "dead"} :
         /\ purchase' = [purchase EXCEPT ![b].at = at]
         /\ at # "dead" => purchase[b].at \in {"look", "merchant"}
         /\ at = "adopted" => plan[purchase[b].plan].owner # Nobody
         /\ at = "adopt" => purchase[b].tenant \in shop'
  BY DEF PurchaseLooksUp, LooksUp, PurchaseEnsuresMerchant, PurchaseDies
<1>3. PICK r : r = [purchase[b] EXCEPT !.at = at]
  OBVIOUS
<1>4. /\ r \in PurchaseRows /\ r.at = at /\ r.tenant = purchase[b].tenant
      /\ r.plan = purchase[b].plan /\ r.key = purchase[b].key
  BY <1>1, <1>3 DEF PurchaseRows
<1>5. purchase' = [purchase EXCEPT ![b] = r] /\ purchase'[b] = r
  BY <1>2, <1>3 DEF IInv, ResaleTypeOK
<1>6. /\ UNCHANGED <<plan, spent, offer, subscription>>
      /\ shop \subseteq shop' /\ shop' \subseteq Shops
  BY <1>1 DEF PurchaseLooksUp, PurchaseEnsuresMerchant, PurchaseDies, IInv, ResaleTypeOK,
         PurchaseSound
<1>7. PurchaseSound(b)'
  BY <1>1, <1>2, <1>4, <1>5, <1>6 DEF PurchaseSound
<1>. QED  BY <1>4, <1>5, <1>6, <1>7, PurchaseMoves

LEMMA PurchaseAdoptsStep == ASSUME IInv, NEW b \in Purchases, PurchaseAdopts(b) PROVE IInv'
<1>1. /\ PurchaseSound(b) /\ purchase[b].at = "adopt" /\ purchase[b] \in PurchaseRows
      /\ purchase[b].plan = PlatformPlan /\ PlatformPlan \in Plans /\ plan[PlatformPlan].made
      /\ purchase[b].tenant \in shop /\ plan' = AdoptedBy(PlatformPlan, purchase[b].tenant)
      /\ UNCHANGED <<shop, spent, offer, subscription>>
  BY DEF PurchaseAdopts, IInv, ResaleTypeOK, OwnersInv, PurchaseSound, Plans
<1>2. /\ plan' \in [Plans -> PlanRows] /\ PlansStay /\ OwnersInv' /\ plan'[PlatformPlan].owner # Nobody
      /\ \A q \in Plans : plan'[q].made = plan[q].made /\ plan'[q].level = plan[q].level
  BY <1>1, Adoption
<1>3. PICK r : r = [purchase[b] EXCEPT !.at = "adopted"]
  OBVIOUS
<1>4. /\ r \in PurchaseRows /\ r.at = "adopted" /\ r.tenant = purchase[b].tenant
      /\ r.plan = PlatformPlan /\ r.key = purchase[b].key
  BY <1>1, <1>3 DEF PurchaseRows
<1>5. /\ purchase' = [purchase EXCEPT ![b] = r] /\ purchase'[b] = r
      /\ \A x \in Purchases \ {b} : purchase'[x] = purchase[x]
  BY <1>3 DEF PurchaseAdopts, IInv, ResaleTypeOK
<1>6. ResaleTypeOK'
  BY <1>1, <1>2, <1>4, <1>5 DEF IInv, ResaleTypeOK
<1>7. PurchaseSound(b)'
  BY <1>1, <1>2, <1>4, <1>5 DEF PurchaseSound
<1>8. (\A x \in Offers : OfferSound(x)') /\ \A x \in Purchases : PurchaseSound(x)'
  BY <1>1, <1>2, <1>5, <1>7, OfferStays, PurchaseStays DEF Plans
<1>9. Charged' \subseteq Charged
  BY <1>1, <1>2 DEF Charged, Plans
<1>. QED  BY <1>1, <1>2, <1>6, <1>8, <1>9, SubscriptionsStay, QuotaStays DEF IInv

\* A purchase that ended, whatever it did to the subscriptions.
LEMMA PurchaseEnds ==
  ASSUME IInv, NEW b \in Purchases, purchase' = [purchase EXCEPT ![b].at = "done"],
         UNCHANGED <<plan, shop, spent, offer>>,
         subscription' \subseteq SubscriptionRows, SubscriptionsInv'
  PROVE  IInv'
<1>1. PICK r : r = [purchase[b] EXCEPT !.at = "done"]
  OBVIOUS
<1>2. r \in PurchaseRows /\ r.at = "done"
  BY <1>1 DEF PurchaseRows, IInv, ResaleTypeOK
<1>3. /\ purchase' = [purchase EXCEPT ![b] = r] /\ purchase'[b] = r
      /\ \A x \in Purchases \ {b} : purchase'[x] = purchase[x]
  BY <1>1 DEF IInv, ResaleTypeOK
<1>4. ResaleTypeOK'
  BY <1>2, <1>3 DEF IInv, ResaleTypeOK
<1>5. PlansStay /\ OwnersInv'
  BY DEF PlansStay, IInv, OwnersInv
<1>6. PurchaseSound(b)'
  BY <1>2, <1>3 DEF PurchaseSound
<1>7. (\A x \in Offers : OfferSound(x)') /\ \A x \in Purchases : PurchaseSound(x)'
  BY <1>3, <1>5, <1>6, OfferStays, PurchaseStays
<1>8. Charged' \subseteq Charged
  BY DEF Charged
<1>. QED  BY <1>4, <1>5, <1>7, <1>8, QuotaStays DEF IInv

LEMMA SubscribeStep == ASSUME IInv, NEW b \in Purchases, Subscribe(b) PROVE IInv'
<1>1. /\ PurchaseSound(b) /\ purchase[b].at = "adopted"
      /\ UNCHANGED <<plan, shop, spent, offer>> /\ purchase' = [purchase EXCEPT ![b].at = "done"]
  BY DEF Subscribe, IInv
<1>2. PICK s : s = [tenant |-> purchase[b].tenant, key |-> purchase[b].key,
                    plan |-> purchase[b].plan, active |-> TRUE]
  OBVIOUS
<1>3. /\ s \in SubscriptionRows /\ s.tenant = purchase[b].tenant /\ s.key = purchase[b].key
      /\ plan[s.plan].made /\ plan[s.plan].owner # Nobody
  BY <1>1, <1>2 DEF PurchaseSound, SubscriptionRows
<1>4. subscription' = IF SubscriptionOf(b) # {} THEN subscription ELSE subscription \cup {s}
  BY <1>2 DEF Subscribe
<1>5. subscription' \subseteq SubscriptionRows
  BY <1>3, <1>4 DEF IInv, ResaleTypeOK
<1>6. BoughtOncePerKey'
  BY <1>3, <1>4 DEF SubscriptionOf, IInv, SubscriptionsInv, BoughtOncePerKey
<1>7. SubscriptionsInv'
  BY <1>1, <1>3, <1>4, <1>6 DEF IInv, SubscriptionsInv
<1>. QED  BY <1>1, <1>5, <1>7, PurchaseEnds

LEMMA ChangePlanStep == ASSUME IInv, NEW b \in Purchases, ChangePlan(b) PROVE IInv'
<1>. DEFINE New(s) == IF s \in SubscriptionOf(b) /\ s.active
                      THEN [s EXCEPT !.plan = purchase[b].plan] ELSE s
<1>1. /\ PurchaseSound(b) /\ purchase[b].at = "adopted"
      /\ UNCHANGED <<plan, shop, spent, offer>> /\ purchase' = [purchase EXCEPT ![b].at = "done"]
  BY DEF ChangePlan, IInv
<1>2. subscription' = {New(s) : s \in subscription}
  BY DEF ChangePlan
<1>3. ASSUME NEW s \in subscription
      PROVE  /\ New(s) \in SubscriptionRows /\ New(s).tenant = s.tenant /\ New(s).key = s.key
             /\ plan[New(s).plan].made /\ plan[New(s).plan].owner # Nobody
  <2>1. s \in SubscriptionRows /\ plan[s.plan].made /\ plan[s.plan].owner # Nobody
    BY DEF IInv, ResaleTypeOK, SubscriptionsInv
  <2>2. PICK r : r = [s EXCEPT !.plan = purchase[b].plan]
    OBVIOUS
  <2>3. /\ r \in SubscriptionRows /\ r.tenant = s.tenant /\ r.key = s.key
        /\ plan[r.plan].made /\ plan[r.plan].owner # Nobody
    BY <1>1, <2>1, <2>2 DEF SubscriptionRows, PurchaseSound
  <2>. QED  BY <2>1, <2>2, <2>3
<1>. HIDE DEF New
<1>4. subscription' \subseteq SubscriptionRows
  BY <1>2, <1>3
<1>5. BoughtOncePerKey'
  BY <1>2, <1>3 DEF IInv, SubscriptionsInv, BoughtOncePerKey
<1>6. SubscriptionsInv'
  BY <1>1, <1>2, <1>3, <1>5 DEF SubscriptionsInv
<1>. QED  BY <1>1, <1>4, <1>6, PurchaseEnds

LEMMA CancelSubscriptionStep == ASSUME IInv, CancelSubscription PROVE IInv'
<1>1. PICK s \in subscription : subscription' = (subscription \ {s}) \cup {[s EXCEPT !.active = FALSE]}
  BY DEF CancelSubscription
<1>2. PICK r : r = [s EXCEPT !.active = FALSE]
  OBVIOUS
<1>3. s \in SubscriptionRows
  BY DEF IInv, ResaleTypeOK
<1>4. r \in SubscriptionRows /\ r.tenant = s.tenant /\ r.key = s.key /\ r.plan = s.plan
  BY <1>2, <1>3 DEF SubscriptionRows
<1>5. UNCHANGED <<plan, shop, spent, offer, purchase>> /\ subscription' = (subscription \ {s}) \cup {r}
  BY <1>1, <1>2 DEF CancelSubscription
<1>6. ResaleTypeOK'
  BY <1>4, <1>5 DEF IInv, ResaleTypeOK
<1>7. PlansStay /\ OwnersInv'
  BY <1>5 DEF PlansStay, IInv, OwnersInv
<1>8. SubscriptionsInv'
  BY <1>4, <1>5 DEF IInv, SubscriptionsInv, BoughtOncePerKey
<1>9. (\A x \in Offers : OfferSound(x)') /\ \A x \in Purchases : PurchaseSound(x)'
  BY <1>5, <1>7, OfferStays, PurchaseStays
<1>10. Charged' \subseteq Charged
  BY <1>5 DEF Charged
<1>. QED  BY <1>5, <1>6, <1>7, <1>8, <1>9, <1>10, QuotaStays DEF IInv

LEMMA Stuttering == ASSUME IInv, UNCHANGED resaleVars PROVE IInv'
<1>1. PlansStay /\ OwnersInv'
  BY DEF resaleVars, PlansStay, IInv, OwnersInv
<1>2. (\A x \in Offers : OfferSound(x)') /\ \A x \in Purchases : PurchaseSound(x)'
  BY <1>1, OfferStays, PurchaseStays DEF resaleVars
<1>. QED
  BY <1>1, <1>2, SubscriptionsStay, QuotaStays DEF resaleVars, IInv, ResaleTypeOK, Charged
-----------------------------------------------------------------------------
\* Every step of every request keeps the invariant, and no step takes a plan
\* from its owner.
LEMMA NextStep == ASSUME IInv, ResaleNext PROVE IInv'
<1>1. ASSUME NEW o \in Offers,
             \/ \E k \in OfferKeys, level \in 1..TopLevel : PassesGates(o, k, level)
             \/ ConsumeQuota(o) \/ CreateUnderlyingPlan(o) \/ OfferLooksUp(o)
             \/ OfferEnsuresMerchant(o) \/ OfferAdopts(o) \/ InsertResalePlan(o)
             \/ OfferDies(o) \/ UpdateResalePlan(o) \/ DeactivateResalePlan(o)
      PROVE  IInv'
  BY <1>1, PassesGatesStep, ConsumeQuotaStep, CreateUnderlyingPlanStep, OfferAdoptsStep, AtSteps,
     RowSteps
<1>2. ASSUME NEW b \in Purchases, NEW t \in Shops, NEW k \in BuyKeys,
             NEW kind \in {"create", "change"}, BuyPlatformPlan(b, t, k, kind)
      PROVE  IInv'
  BY <1>2, BeginPurchaseStep DEF BuyPlatformPlan, Plans
<1>3. ASSUME NEW b \in Purchases, NEW t \in Shops, NEW k \in BuyKeys,
             NEW kind \in {"create", "change"}, NEW o \in Offers, BuyResalePlan(b, t, o, k, kind)
      PROVE  IInv'
  <2>1. /\ OfferSound(o) /\ offer[o].row = "enabled" /\ o \in Plans
        /\ BeginPurchase(b, t, o, k, kind, "adopted")
    BY <1>3 DEF BuyResalePlan, IInv, Plans
  <2>2. plan[o].made /\ plan[o].owner # Nobody
    BY <2>1 DEF OfferSound, Shops
  <2>. QED  BY <2>1, <2>2, BeginPurchaseStep
<1>4. ASSUME NEW b \in Purchases,
             \/ PurchaseLooksUp(b) \/ PurchaseEnsuresMerchant(b) \/ PurchaseAdopts(b)
             \/ Subscribe(b) \/ ChangePlan(b) \/ PurchaseDies(b)
      PROVE  IInv'
  BY <1>4, PurchaseAtSteps, PurchaseAdoptsStep, SubscribeStep, ChangePlanStep
<1>. QED
  BY <1>1, <1>2, <1>3, <1>4, CancelSubscriptionStep DEF ResaleNext

LEMMA OwnersStay == ASSUME IInv, ResaleNext PROVE OwnerIsForever
<1>1. ASSUME NEW p \in Plans, NEW t, plan' = AdoptedBy(p, t) PROVE OwnerIsForever
  BY <1>1 DEF AdoptedBy, OwnerIsForever, IInv, ResaleTypeOK
<1>2. ASSUME NEW o \in Offers, CreateUnderlyingPlan(o) PROVE OwnerIsForever
  BY <1>2 DEF CreateUnderlyingPlan, OwnerIsForever, IInv, ResaleTypeOK
<1>3. ASSUME UNCHANGED plan PROVE OwnerIsForever
  BY <1>3 DEF OwnerIsForever
<1>4. \/ UNCHANGED plan
      \/ \E o \in Offers : CreateUnderlyingPlan(o) \/ OfferAdopts(o)
      \/ \E b \in Purchases : PurchaseAdopts(b)
  BY DEF ResaleNext, PassesGates, ConsumeQuota, OfferLooksUp, OfferEnsuresMerchant,
         InsertResalePlan, OfferDies, UpdateResalePlan, DeactivateResalePlan, BuyPlatformPlan,
         BuyResalePlan, BeginPurchase, PurchaseLooksUp, PurchaseEnsuresMerchant, Subscribe,
         ChangePlan, PurchaseDies, CancelSubscription
<1>5. ASSUME NEW o \in Offers, OfferAdopts(o) PROVE OwnerIsForever
  BY <1>1, <1>5 DEF OfferAdopts, Plans
<1>6. ASSUME NEW b \in Purchases, PurchaseAdopts(b) PROVE OwnerIsForever
  <2>1. purchase[b].plan \in Plans
    BY <1>6 DEF PurchaseAdopts, IInv, PurchaseSound, Plans
  <2>. QED  BY <1>1, <1>6, <2>1 DEF PurchaseAdopts
<1>. QED  BY <1>2, <1>3, <1>4, <1>5, <1>6

\* At whichever of its steps a request dies, and whatever requests overlap: no
\* more plans than the quota, nothing sold outside a catalog or at another level
\* than stated, one subscription for a key, an owner that stays (resale_plans.py,
\* catalog.py, subscriptions.py).
THEOREM SoldWithinCatalogHolds == ResaleSpec => SoldWithinCatalog
<1>1. IInv /\ [ResaleNext]_resaleVars => IInv'
  BY NextStep, Stuttering
<1>2. IInv /\ [ResaleNext]_resaleVars => [OwnerIsForever]_resaleVars
  BY OwnersStay
<1>3. IInv => PlansWithinQuota /\ SoldFromACatalog /\ SoldAsStated /\ BoughtOncePerKey
  BY InvariantSuffices
<1>. QED  BY InitInv, <1>1, <1>2, <1>3, PTL DEF ResaleSpec, SoldWithinCatalog

-----------------------------------------------------------------------------
(***************************************************************************)
(* Tenants.  They come to be from nothing, with attachments beside that,   *)
(* or are there and are attached.                                          *)
(***************************************************************************)
ProvisionSpec ==
  \/ ProvisionInit(FALSE) /\ [][FoundingNext \/ AttachNext]_provisionVars
  \/ ProvisionInit(TRUE) /\ [][AttachNext]_provisionVars

Tenants == Agencies \cup Clients
WiredSet == {Wired[i] : i \in DOMAIN Wired}
Modules == WiredSet \cup Unwired

LEMMA OnGrows == ASSUME NEW r, NEW S, NEW T, S \subseteq T PROVE On(r, S) \subseteq On(r, T)
BY DEF On

LEMMA WiredIs ==
  /\ WiredSet = {"accounting", "ai", "appointments", "approvals", "automation", "conversations",
                 "crm", "marketing", "telephony", "templates", "websites"}
  /\ Modules = {"accounting", "ai", "appointments", "approvals", "automation", "billing",
                "conversations", "crm", "marketing", "reputation", "telephony", "templates", "websites"}
<1>1. Len(Wired) = 11 /\ DOMAIN Wired = 1 .. 11
  BY DEF Wired
<1>2. /\ Wired[1] = "accounting" /\ Wired[2] = "ai" /\ Wired[3] = "appointments"
      /\ Wired[4] = "approvals" /\ Wired[5] = "automation" /\ Wired[6] = "conversations"
      /\ Wired[7] = "crm" /\ Wired[8] = "marketing" /\ Wired[9] = "telephony"
      /\ Wired[10] = "templates" /\ Wired[11] = "websites"
  BY DEF Wired
<1>3. \A i \in 1 .. 11 : i = 1 \/ i = 2 \/ i = 3 \/ i = 4 \/ i = 5 \/ i = 6 \/ i = 7 \/ i = 8 \/ i = 9
                         \/ i = 10 \/ i = 11
  OBVIOUS
<1>4. WiredSet = {"accounting", "ai", "appointments", "approvals", "automation", "conversations",
                 "crm", "marketing", "telephony", "templates", "websites"}
  BY <1>1, <1>2, <1>3 DEF WiredSet
<1>. QED  BY <1>4 DEF Modules, Unwired

\* However many handlers run, they are modules', those left out only after the
\* release, and all together they are those that are wired at least.
LEMMA GrantedByIs ==
  /\ Len(Handlers) \in Nat
  /\ \A k \in 0 .. Len(Handlers) : GrantedBy(k) \subseteq Modules
  /\ ~released => \A k \in 0 .. Len(Handlers) : GrantedBy(k) \subseteq WiredSet
  /\ WiredSet \subseteq GrantedBy(Len(Handlers))
<1>1. CASE released
  <2>1. PICK all : all = <<"accounting", "ai", "appointments", "approvals", "automation", "billing",
         "conversations", "crm", "marketing", "reputation", "telephony", "templates", "websites">>
    OBVIOUS
  <2>2. /\ Len(all) = 13
        /\ all[1] = "accounting" /\ all[2] = "ai" /\ all[3] = "appointments" /\ all[4] = "approvals"
        /\ all[5] = "automation" /\ all[6] = "billing" /\ all[7] = "conversations" /\ all[8] = "crm"
        /\ all[9] = "marketing" /\ all[10] = "reputation" /\ all[11] = "telephony"
        /\ all[12] = "templates" /\ all[13] = "websites"
    BY <2>1
  <2>3. Handlers = all
    BY <1>1, <2>1 DEF Handlers
  <2>4. \A i \in 1 .. 13 : i = 1 \/ i = 2 \/ i = 3 \/ i = 4 \/ i = 5 \/ i = 6 \/ i = 7 \/ i = 8 \/ i = 9
                           \/ i = 10 \/ i = 11 \/ i = 12 \/ i = 13
    OBVIOUS
  <2>5. \A i \in 1 .. 13 : all[i] \in Modules
    BY <2>2, <2>4, WiredIs
  <2>6. \A k \in 0 .. 13 : GrantedBy(k) \subseteq Modules
    BY <2>3, <2>5 DEF GrantedBy
  <2>7. \A m \in WiredSet : \E i \in 1 .. 13 : all[i] = m
    BY <2>2, WiredIs
  <2>8. WiredSet \subseteq GrantedBy(13)
    BY <2>3, <2>7 DEF GrantedBy
  <2>9. Len(Handlers) = 13
    BY <2>2, <2>3
  <2>. QED  BY ONLY <1>1, <2>6, <2>8, <2>9
<1>2. CASE ~released
  <2>1. Handlers = Wired /\ Len(Wired) = 11 /\ DOMAIN Wired = 1 .. 11
    BY <1>2 DEF Handlers, Wired
  <2>2. \A k \in 0 .. 11 : GrantedBy(k) \subseteq WiredSet
    BY <2>1 DEF GrantedBy, WiredSet
  <2>3. WiredSet = GrantedBy(11)
    BY <2>1 DEF GrantedBy, WiredSet
  <2>. QED  BY <2>1, <2>2, <2>3 DEF Modules
<1>. QED  BY <1>1, <1>2

LEMMA AskedIsGranted == \A m \in WiredSet : Asked[m] \subseteq Grants[m].owner
<1>1. /\ AccountingAsks \subseteq AccountingGrants.owner /\ AiAsks \subseteq AiGrants.owner
      /\ ApprovalsAsks \subseteq ApprovalsGrants.owner /\ AutomationAsks \subseteq AutomationGrants.owner
      /\ ConversationsAsks \subseteq ConversationsGrants.owner /\ CrmAsks \subseteq CrmGrants.owner
      /\ MarketingAsks \subseteq MarketingGrants.owner /\ TemplatesAsks \subseteq TemplatesGrants.owner
      /\ WebsitesAsks \subseteq WebsitesGrants.owner
  BY DEF AccountingGrants, AiGrants, ApprovalsGrants, AutomationGrants, ConversationsGrants, CrmGrants,
     MarketingGrants, TemplatesGrants, WebsitesGrants
<1>2. AppointmentsAsks \subseteq AppointmentsGrants.owner
  <2>1. On("appointments.appointment", {"read", "update"}) \subseteq On("appointments.appointment", Full)
    BY OnGrows DEF Full, Write
  <2>. QED  BY <2>1 DEF AppointmentsAsks, AppointmentsGrants
<1>3. TelephonyAsks \subseteq TelephonyGrants.owner
  <2>1. /\ On("telephony.call", {"create", "read"}) \subseteq On("telephony.call", Full)
        /\ On("telephony.call_recording", {"create", "read"}) \subseteq On("telephony.call_recording", Full)
    BY OnGrows DEF Full, Write
  <2>. QED  BY <2>1 DEF TelephonyAsks, TelephonyGrants
<1>4. SUFFICES ASSUME NEW m \in WiredSet PROVE Asked[m] \subseteq Grants[m].owner
  OBVIOUS
<1>. QED  BY <1>1, <1>2, <1>3, WiredIs DEF Asked, Grants

\* Nobody's member may do what its module's owner may not.
LEMMA MembersWithinOwners == \A m \in Modules : Grants[m].member \subseteq Grants[m].owner
<1>1. /\ AccountingGrants.member \subseteq AccountingGrants.owner
      /\ ReputationGrants.member \subseteq ReputationGrants.owner
  BY DEF AccountingGrants, ReputationGrants
<1>2. AiGrants.member \subseteq AiGrants.owner
  BY OnGrows DEF AiGrants, AiAsks
<1>3. AppointmentsGrants.member \subseteq AppointmentsGrants.owner
  <2>1. /\ On("appointments.calendar", Write) \subseteq On("appointments.calendar", Full)
        /\ On("appointments.appointment", Write) \subseteq On("appointments.appointment", Full)
    BY OnGrows DEF Full
  <2>. QED  BY <2>1 DEF AppointmentsGrants
<1>4. ApprovalsGrants.member \subseteq ApprovalsGrants.owner
  <2>1. On("approvals.approval", {"read"}) \subseteq On("approvals.approval", {"read", "decide", "execute"})
    BY OnGrows
  <2>. QED  BY <2>1 DEF ApprovalsGrants, ApprovalsAsks
<1>5. AutomationGrants.member \subseteq AutomationGrants.owner
  BY DEF AutomationGrants
<1>6. BillingGrants.member \subseteq BillingGrants.owner
  <2>1. /\ On("billing.resale_plan", {"read"}) \subseteq On("billing.resale_plan", Write \cup {"deactivate"})
        /\ On("billing.subscription", Write) \subseteq On("billing.subscription", Write \cup {"cancel"})
    BY OnGrows DEF Write
  <2>. QED  BY <2>1 DEF BillingGrants, BillingAsks
<1>7. ConversationsGrants.member \subseteq ConversationsGrants.owner
  <2>1. /\ On("conversations.thread", Write) \subseteq On("conversations.thread", Full)
        /\ On("conversations.message_template", {"read"}) \subseteq On("conversations.message_template", Full)
    BY OnGrows DEF Full, Write
  <2>. QED  BY <2>1 DEF ConversationsGrants, ConversationsAsks
<1>8. CrmGrants.member \subseteq CrmGrants.owner
  <2>1. /\ On("crm.contact", Write) \subseteq On("crm.contact", Full)
        /\ On("crm.company", Write) \subseteq On("crm.company", Full)
        /\ On("crm.opportunity", Write) \subseteq On("crm.opportunity", Full)
        /\ On("crm.pipeline", {"read"}) \subseteq On("crm.pipeline", {"create", "read"})
        /\ On("crm.custom_field_definition", {"read"}) \subseteq On("crm.custom_field_definition", {"create", "read"})
        /\ On("crm.tag", {"read"}) \subseteq On("crm.tag", {"create", "read"})
    BY OnGrows DEF Full
  <2>. QED  BY <2>1 DEF CrmGrants, CrmAsks
<1>9. MarketingGrants.member \subseteq MarketingGrants.owner
  <2>1. /\ On("marketing.campaign", Write) \subseteq On("marketing.campaign", Full)
        /\ On("marketing.template", Write) \subseteq On("marketing.template", Full)
        /\ On("marketing.suppression", {"create", "read"}) \subseteq On("marketing.suppression", {"create", "read", "delete"})
    BY OnGrows DEF Full
  <2>2. On("marketing.form", Write) \subseteq On("marketing.form", {"create", "read", "delete"}) \cup On("marketing.form", {"update"})
    BY DEF On, Write
  <2>. QED  BY <2>1, <2>2 DEF MarketingGrants, MarketingAsks
<1>10. TelephonyGrants.member \subseteq TelephonyGrants.owner
  <2>1. /\ On("telephony.phone_number", Write) \subseteq On("telephony.phone_number", Full)
        /\ On("telephony.call", Write) \subseteq On("telephony.call", Full)
    BY OnGrows DEF Full
  <2>. QED  BY <2>1 DEF TelephonyGrants
<1>11. TemplatesGrants.member \subseteq TemplatesGrants.owner
  <2>1. On("templates.snapshot", {"create", "read"}) \subseteq On("templates.snapshot", {"create", "read", "apply"})
    BY OnGrows
  <2>. QED  BY <2>1 DEF TemplatesGrants, TemplatesAsks
<1>12. WebsitesGrants.member \subseteq WebsitesGrants.owner
  BY OnGrows DEF WebsitesGrants, WebsitesAsks, Full
<1>13. SUFFICES ASSUME NEW m \in Modules PROVE Grants[m].member \subseteq Grants[m].owner
  OBVIOUS
<1>. QED  BY <1>1, <1>2, <1>3, <1>4, <1>5, <1>6, <1>7, <1>8, <1>9, <1>10, <1>11, <1>12, WiredIs DEF Grants

-----------------------------------------------------------------------------
SetupRow ==
  [at : {"idle", "created", "active", "setup failed", "done", "dead"}, snapshot : BOOLEAN,
   copied : Nat, event : BOOLEAN]
InvitationRow ==
  [at : {"idle", "sent", "joined", "role", "failed", "done", "refused", "dead"},
   client : Clients \cup {"none"}, user : Invitees \cup {"none"}]

FoundingTyped ==
  /\ released \in BOOLEAN
  /\ tree \in [Tenants -> {tree[t] : t \in Tenants}]
  /\ handled \in [Tenants -> SUBSET Modules]
  /\ founding \in [Agencies -> {"idle", "created", "active", "role", "member", "done", "failed", "dead"}]
  /\ setup \in [Clients -> SetupRow]
  /\ invitation \in [Invitations -> InvitationRow]
  /\ assigned \subseteq Invitees \X Clients

\* A handler that is left out has granted nothing before the release.
HandledInv == ~released => \A t \in Tenants : handled[t] \subseteq WiredSet

Founded(a) == founding[a] \in {"role", "member", "done"} => WiredSet \subseteq handled[a]

SetUp(c) == setup[c].event => setup[c].at = "done" /\ (setup[c].snapshot => setup[c].copied = Pipelines)

\* Who invites founded the client's agency, whose role is granted once.
Invited(i) ==
  LET r == invitation[i] IN
  /\ r.at # "idle" => /\ r.client \in Clients /\ r.user \in Invitees
                      /\ tree[r.client] \in Agencies /\ founding[tree[r.client]] = "done"
  /\ r.at = "role" => WiredSet \subseteq handled[r.client]
  /\ r.at = "done" => <<r.user, r.client>> \in assigned
  /\ r.at = "refused" =>
       released /\ \E m \in Unwired : m \in handled[r.client] \ handled[tree[r.client]]

FoundingInv ==
  /\ FoundingTyped /\ HandledInv /\ MemberRoleIsWhole
  /\ \A a \in Agencies : Founded(a)
  /\ \A c \in Clients : SetUp(c)
  /\ \A i \in Invitations : Invited(i)

\* Before its provisioning a client is not there.
ClientsNew == \A c \in Clients : setup[c].at = "idle" => tree[c] = "absent"

-----------------------------------------------------------------------------
(* What a step leaves.                                                     *)
Progress ==
  /\ released => released'
  /\ \A t \in Tenants : handled[t] \subseteq handled'[t]
  /\ \A a \in Agencies : founding[a] = "done" => founding'[a] = "done" /\ handled'[a] = handled[a]
  /\ assigned \subseteq assigned'
  /\ ClientsStay

LEMMA InvitedStays ==
  ASSUME FoundingInv, Progress, NEW i \in Invitations, invitation'[i] = invitation[i]
  PROVE  Invited(i)'
<1>1. PICK r : r = invitation[i]
  OBVIOUS
<1>2. r.at # "idle" => /\ r.client \in Clients /\ tree[r.client] \in Agencies
                       /\ founding[tree[r.client]] = "done" /\ r.user \in Invitees
  BY <1>1 DEF FoundingInv, Invited
<1>3. r.at # "idle" => /\ tree'[r.client] = tree[r.client]
                       /\ founding'[tree[r.client]] = "done"
                       /\ handled'[tree[r.client]] = handled[tree[r.client]]
                       /\ handled[r.client] \subseteq handled'[r.client]
  BY <1>2 DEF Progress, ClientsStay, Tenants
<1>4. /\ r.at = "role" => WiredSet \subseteq handled[r.client]
      /\ r.at = "done" => <<r.user, r.client>> \in assigned
      /\ r.at = "refused" =>
           released /\ \E m \in Unwired : m \in handled[r.client] \ handled[tree[r.client]]
  BY <1>1 DEF FoundingInv, Invited
<1>5. /\ r.at = "role" => WiredSet \subseteq handled'[r.client]
      /\ r.at = "done" => <<r.user, r.client>> \in assigned'
      /\ r.at = "refused" =>
           released' /\ \E m \in Unwired : m \in handled'[r.client] \ handled'[tree'[r.client]]
  BY <1>3, <1>4 DEF Progress
<1>. QED  BY <1>1, <1>2, <1>3, <1>5 DEF Invited

LEMMA MembersStay ==
  ASSUME FoundingInv, Progress, UNCHANGED assigned PROVE MemberRoleIsWhole'
<1>1. \A m \in assigned : m[2] \in Tenants
  BY DEF FoundingInv, FoundingTyped, Tenants
<1>. QED  BY <1>1 DEF FoundingInv, MemberRoleIsWhole, Progress

\* A step by which no role is granted and nobody is invited.
LEMMA NothingGranted ==
  ASSUME FoundingInv, UNCHANGED <<released, handled, invitation, assigned>>, ClientsStay,
         tree' \in [Tenants -> {tree'[t] : t \in Tenants}],
         \A a \in Agencies : founding[a] = "done" => founding'[a] = "done",
         founding' \in [Agencies -> {"idle", "created", "active", "role", "member", "done", "failed", "dead"}],
         setup' \in [Clients -> SetupRow],
         \A a \in Agencies : Founded(a)', \A c \in Clients : SetUp(c)'
  PROVE  FoundingInv'
<1>1. Progress
  BY DEF Progress
<1>2. \A i \in Invitations : Invited(i)'
  BY <1>1, InvitedStays
<1>3. MemberRoleIsWhole' /\ HandledInv' /\ FoundingTyped'
  BY <1>1, MembersStay DEF FoundingInv, HandledInv, FoundingTyped, WiredSet, Modules, Tenants
<1>. QED  BY <1>2, <1>3 DEF FoundingInv

LEMMA ReleaseStep == ASSUME FoundingInv, Release PROVE FoundingInv' /\ ClientsStay
<1>1. /\ released' /\ ~released
      /\ UNCHANGED <<tree, handled, founding, setup, invitation, assigned>>
  BY DEF Release
<1>2. Progress /\ ClientsStay
  BY <1>1 DEF Progress, ClientsStay
<1>3. \A i \in Invitations : Invited(i)'
  BY <1>1, <1>2, InvitedStays
<1>4. FoundingTyped' /\ HandledInv' /\ MemberRoleIsWhole'
  BY <1>1, <1>2, MembersStay DEF FoundingInv, FoundingTyped, HandledInv, Modules, WiredSet, Tenants
<1>5. (\A a \in Agencies : Founded(a)') /\ (\A c \in Clients : SetUp(c)')
  BY <1>1 DEF FoundingInv, Founded, SetUp, WiredSet
<1>. QED  BY <1>2, <1>3, <1>4, <1>5 DEF FoundingInv

LEMMA FounderSteps ==
  ASSUME FoundingInv, NEW a \in Agencies,
         CreateAgency(a) \/ ActivateAgency(a) \/ AddFounder(a) \/ AssignFirstRole(a) \/ FoundingDies(a)
  PROVE  FoundingInv' /\ ClientsStay
<1>1. PICK at \in {"created", "active", "member", "done", "dead"} :
         /\ founding' = [founding EXCEPT ![a] = at] /\ founding[a] # "done"
         /\ at \in {"member", "done"} => founding[a] \in {"role", "member"}
  BY DEF CreateAgency, ActivateAgency, AddFounder, AssignFirstRole, FoundingDies
<1>2. /\ UNCHANGED <<released, handled, setup, invitation, assigned>>
      /\ tree' = tree \/ tree' = [tree EXCEPT ![a] = Root]
  BY DEF CreateAgency, ActivateAgency, AddFounder, AssignFirstRole, FoundingDies
<1>3. ClientsStay /\ tree' \in [Tenants -> {tree'[t] : t \in Tenants}]
  BY <1>2, TenantsAssumption DEF ClientsStay, FoundingInv, FoundingTyped, Tenants
<1>4. /\ founding' \in [Agencies -> {"idle", "created", "active", "role", "member", "done", "failed", "dead"}]
      /\ \A b \in Agencies : founding'[b] = IF b = a THEN at ELSE founding[b]
  BY <1>1 DEF FoundingInv, FoundingTyped
<1>5. \A b \in Agencies : Founded(b)'
  BY <1>1, <1>2, <1>4 DEF FoundingInv, Founded, WiredSet
<1>6. setup' \in [Clients -> SetupRow] /\ \A c \in Clients : SetUp(c)'
  BY <1>2 DEF FoundingInv, FoundingTyped, SetUp
<1>. QED  BY <1>1, <1>2, <1>3, <1>4, <1>5, <1>6, NothingGranted

LEMMA EnsureOwnerStep ==
  ASSUME FoundingInv, NEW a \in Agencies, EnsureAgencyOwnerRole(a) PROVE FoundingInv' /\ ClientsStay
<1>1. PICK k \in 0 .. Len(Handlers) :
         /\ handled' = [handled EXCEPT ![a] = @ \cup GrantedBy(k)]
         /\ founding' = [founding EXCEPT ![a] = IF k = Len(Handlers) THEN "role" ELSE "failed"]
  BY DEF EnsureAgencyOwnerRole
<1>2. founding[a] = "active" /\ UNCHANGED <<released, tree, setup, invitation, assigned>>
  BY DEF EnsureAgencyOwnerRole
<1>3. PICK G : G = GrantedBy(k)
  OBVIOUS
<1>4. /\ G \subseteq Modules /\ (~released => G \subseteq WiredSet)
      /\ k = Len(Handlers) => WiredSet \subseteq G
  BY <1>3, GrantedByIs
<1>5. /\ handled' \in [Tenants -> SUBSET Modules]
      /\ \A t \in Tenants : handled'[t] = IF t = a THEN handled[t] \cup G ELSE handled[t]
  BY <1>1, <1>3, <1>4 DEF FoundingInv, FoundingTyped, Tenants
<1>6. PICK at \in {"role", "failed"} : /\ at = "role" <=> k = Len(Handlers)
                                       /\ founding' = [founding EXCEPT ![a] = at]
  BY <1>1
<1>7. /\ founding' \in [Agencies -> {"idle", "created", "active", "role", "member", "done", "failed", "dead"}]
      /\ \A b \in Agencies : founding'[b] = IF b = a THEN at ELSE founding[b]
  BY <1>6 DEF FoundingInv, FoundingTyped
<1>8. Progress /\ ClientsStay
  BY <1>2, <1>5, <1>7 DEF Progress, ClientsStay, Tenants
<1>9. \A i \in Invitations : Invited(i)'
  BY <1>2, <1>8, InvitedStays
<1>10. MemberRoleIsWhole'
  BY <1>2, <1>8, MembersStay
<1>11. FoundingTyped' /\ HandledInv'
  BY <1>2, <1>4, <1>5, <1>7 DEF FoundingInv, FoundingTyped, HandledInv, Modules, WiredSet, Tenants
<1>12. \A b \in Agencies : Founded(b)'
  <2>1. \A b \in Agencies : b \in Tenants /\ (b # a => founding'[b] = founding[b])
    BY <1>7 DEF Tenants
  <2>2. founding'[a] \in {"role", "member", "done"} => WiredSet \subseteq handled'[a]
    BY <1>4, <1>5, <1>6, <1>7, <2>1
  <2>3. \A b \in Agencies : founding'[b] \in {"role", "member", "done"} => WiredSet \subseteq handled'[b]
    BY <1>5, <2>1, <2>2 DEF FoundingInv, Founded
  <2>. QED  BY <2>3 DEF Founded, WiredSet
<1>13. \A c \in Clients : SetUp(c)'
  BY <1>2 DEF FoundingInv, SetUp
<1>. QED  BY <1>8, <1>9, <1>10, <1>11, <1>12, <1>13 DEF FoundingInv

-----------------------------------------------------------------------------
LEMMA SetupMoves ==
  ASSUME FoundingInv, NEW c \in Clients, NEW r \in SetupRow, setup' = [setup EXCEPT ![c] = r],
         UNCHANGED <<released, handled, founding, invitation, assigned>>, ClientsStay,
         tree' \in [Tenants -> {tree'[t] : t \in Tenants}],
         r.event => r.at = "done" /\ (r.snapshot => r.copied = Pipelines)
  PROVE  FoundingInv'
<1>1. /\ setup' \in [Clients -> SetupRow]
      /\ \A d \in Clients : setup'[d] = IF d = c THEN r ELSE setup[d]
  BY DEF FoundingInv, FoundingTyped
<1>2. \A d \in Clients : SetUp(d)'
  BY <1>1 DEF FoundingInv, SetUp
<1>3. \A a \in Agencies : Founded(a)'
  BY DEF FoundingInv, Founded, WiredSet
<1>. QED  BY <1>1, <1>2, <1>3, NothingGranted DEF FoundingInv, FoundingTyped

LEMMA CreateClientStep ==
  ASSUME FoundingInv, ClientsNew, NEW c \in Clients, NEW a \in Agencies, CreateClient(c, a)
  PROVE  FoundingInv' /\ ClientsStay
<1>1. PICK snapshot \in BOOLEAN :
         setup' = [setup EXCEPT ![c] = [at |-> "created", snapshot |-> snapshot, copied |-> 0, event |-> FALSE]]
  BY DEF CreateClient
<1>2. PICK r : r = [at |-> "created", snapshot |-> snapshot, copied |-> 0, event |-> FALSE]
  OBVIOUS
<1>3. r \in SetupRow /\ ~r.event /\ setup' = [setup EXCEPT ![c] = r]
  BY <1>1, <1>2 DEF SetupRow
<1>4. /\ UNCHANGED <<released, handled, founding, invitation, assigned>>
      /\ tree' = [tree EXCEPT ![c] = a] /\ setup[c].at = "idle"
  BY DEF CreateClient
<1>5. tree[c] \notin Agencies
  BY <1>4, TenantsAssumption DEF ClientsNew, Tenants
<1>6. ClientsStay /\ tree' \in [Tenants -> {tree'[t] : t \in Tenants}]
  BY <1>4, <1>5 DEF ClientsStay, FoundingInv, FoundingTyped, Tenants
<1>. QED  BY <1>3, <1>4, <1>6, SetupMoves

LEMMA SetupSteps ==
  ASSUME FoundingInv, NEW c \in Clients,
         ActivateClient(c) \/ CopyPipeline(c) \/ SetupFails(c) \/ PublishClient(c) \/ SetupDies(c)
  PROVE  FoundingInv' /\ ClientsStay
<1>1. /\ UNCHANGED <<released, tree, handled, founding, invitation, assigned>>
      /\ setup[c] \in SetupRow
  BY DEF ActivateClient, CopyPipeline, SetupFails, PublishClient, SetupDies, FoundingInv, FoundingTyped
<1>2. ClientsStay /\ tree' \in [Tenants -> {tree'[t] : t \in Tenants}]
  BY <1>1 DEF ClientsStay, FoundingInv, FoundingTyped
<1>3. setup[c].at # "done" => ~setup[c].event
  BY DEF FoundingInv, SetUp
<1>4. CASE CopyPipeline(c)
  <2>1. setup[c].copied \in Nat
    BY <1>1 DEF SetupRow
  <2>2. PICK k : k = setup[c].copied + 1
    OBVIOUS
  <2>3. k \in Nat
    BY <2>1, <2>2
  <2>4. PICK r : r = [setup[c] EXCEPT !.copied = k]
    OBVIOUS
  <2>5. r \in SetupRow /\ r.event = setup[c].event
    BY <1>1, <2>3, <2>4 DEF SetupRow
  <2>6. setup' = [setup EXCEPT ![c] = r] /\ ~setup[c].event
    BY <1>3, <1>4, <2>2, <2>4 DEF CopyPipeline
  <2>. QED  BY <1>1, <1>2, <2>5, <2>6, SetupMoves
<1>5. CASE PublishClient(c)
  <2>1. PICK q : q = [setup[c] EXCEPT !.at = "done"]
    OBVIOUS
  <2>2. PICK r : r = [q EXCEPT !.event = TRUE]
    OBVIOUS
  <2>3. r \in SetupRow /\ r.at = "done" /\ (r.snapshot => r.copied = Pipelines)
    BY <1>1, <1>5, <2>1, <2>2 DEF PublishClient, SetupRow
  <2>4. setup' = [setup EXCEPT ![c] = r]
    BY <1>5, <2>1, <2>2 DEF PublishClient
  <2>. QED  BY <1>1, <1>2, <2>3, <2>4, SetupMoves
<1>6. CASE ActivateClient(c) \/ SetupFails(c) \/ SetupDies(c)
  <2>1. PICK at \in {"active", "setup failed", "dead"} :
           setup' = [setup EXCEPT ![c].at = at] /\ setup[c].at # "done"
    BY <1>6 DEF ActivateClient, SetupFails, SetupDies
  <2>2. PICK r : r = [setup[c] EXCEPT !.at = at]
    OBVIOUS
  <2>3. r \in SetupRow /\ ~r.event
    BY <1>1, <1>3, <2>1, <2>2 DEF SetupRow
  <2>4. setup' = [setup EXCEPT ![c] = r]
    BY <2>1, <2>2
  <2>. QED  BY <1>1, <1>2, <2>3, <2>4, SetupMoves
<1>. QED  BY <1>4, <1>5, <1>6

-----------------------------------------------------------------------------
LEMMA InvitationRows ==
  ASSUME FoundingInv, NEW i \in Invitations, NEW r \in InvitationRow, invitation' = [invitation EXCEPT ![i] = r]
  PROVE  /\ invitation' \in [Invitations -> InvitationRow]
         /\ \A j \in Invitations : invitation'[j] = IF j = i THEN r ELSE invitation[j]
BY DEF FoundingInv, FoundingTyped

\* One invitation moves; roles and the tree are as they were.
LEMMA InvitationMoves ==
  ASSUME FoundingInv, NEW i \in Invitations, NEW r \in InvitationRow, invitation' = [invitation EXCEPT ![i] = r],
         UNCHANGED <<released, tree, handled, founding, setup>>,
         assigned \subseteq assigned', assigned' \subseteq Invitees \X Clients, MemberRoleIsWhole', Invited(i)'
  PROVE  FoundingInv' /\ ClientsStay
<1>1. /\ invitation' \in [Invitations -> InvitationRow]
      /\ \A j \in Invitations : invitation'[j] = IF j = i THEN r ELSE invitation[j]
  BY InvitationRows
<1>2. Progress /\ ClientsStay
  BY DEF Progress, ClientsStay
<1>3. \A j \in Invitations : Invited(j)'
  BY <1>1, <1>2, InvitedStays
<1>4. FoundingTyped' /\ HandledInv'
  BY <1>1 DEF FoundingInv, FoundingTyped, HandledInv, Modules, WiredSet, Tenants
<1>5. (\A a \in Agencies : Founded(a)') /\ (\A c \in Clients : SetUp(c)')
  BY DEF FoundingInv, Founded, SetUp, WiredSet
<1>. QED  BY <1>2, <1>3, <1>4, <1>5 DEF FoundingInv

LEMMA InvitationFacts ==
  ASSUME FoundingInv, NEW i \in Invitations
  PROVE  /\ invitation[i] \in InvitationRow
         /\ invitation[i].at # "idle" =>
              /\ invitation[i].client \in Clients /\ invitation[i].user \in Invitees
              /\ tree[invitation[i].client] \in Agencies /\ founding[tree[invitation[i].client]] = "done"
         /\ invitation[i].at = "role" => WiredSet \subseteq handled[invitation[i].client]
BY DEF FoundingInv, FoundingTyped, Invited

LEMMA InviteStep ==
  ASSUME FoundingInv, NEW i \in Invitations, NEW c \in Clients, NEW u \in Invitees, InviteClientMember(i, c, u)
  PROVE  FoundingInv' /\ ClientsStay
<1>1. PICK r : r = [at |-> "sent", client |-> c, user |-> u]
  OBVIOUS
<1>2. r \in InvitationRow /\ r.at = "sent" /\ r.client = c /\ r.user = u
  BY <1>1 DEF InvitationRow
<1>3. /\ invitation' = [invitation EXCEPT ![i] = r]
      /\ UNCHANGED <<released, tree, handled, founding, setup, assigned>>
      /\ tree[c] \in Agencies /\ founding[tree[c]] = "done"
  BY <1>1 DEF InviteClientMember, OwnerMay
<1>4. invitation'[i] = r
  BY <1>2, <1>3, InvitationRows
<1>5. Invited(i)'
  BY <1>2, <1>3, <1>4 DEF Invited
<1>6. MemberRoleIsWhole' /\ assigned' \subseteq Invitees \X Clients
  BY <1>3 DEF FoundingInv, FoundingTyped, MemberRoleIsWhole
<1>. QED  BY <1>2, <1>3, <1>5, <1>6, InvitationMoves

LEMMA AcceptanceSteps ==
  ASSUME FoundingInv, NEW i \in Invitations, AcceptInvitation(i) \/ AcceptanceDies(i)
  PROVE  FoundingInv' /\ ClientsStay
<1>1. PICK at \in {"joined", "dead"} : invitation' = [invitation EXCEPT ![i].at = at]
  BY DEF AcceptInvitation, AcceptanceDies
<1>2. /\ UNCHANGED <<released, tree, handled, founding, setup, assigned>>
      /\ invitation[i].at # "idle"
  BY DEF AcceptInvitation, AcceptanceDies
<1>3. PICK r : r = [invitation[i] EXCEPT !.at = at]
  OBVIOUS
<1>4. r \in InvitationRow /\ r.at = at /\ r.client = invitation[i].client /\ r.user = invitation[i].user
  BY <1>3, InvitationFacts DEF InvitationRow
<1>5. invitation' = [invitation EXCEPT ![i] = r]
  BY <1>1, <1>3
<1>6. invitation'[i] = r
  BY <1>4, <1>5, InvitationRows
<1>7. Invited(i)'
  BY <1>2, <1>4, <1>6, InvitationFacts DEF Invited
<1>8. MemberRoleIsWhole' /\ assigned' \subseteq Invitees \X Clients
  BY <1>2 DEF FoundingInv, FoundingTyped, MemberRoleIsWhole
<1>. QED  BY <1>2, <1>4, <1>5, <1>7, <1>8, InvitationMoves

LEMMA EnsureMemberStep ==
  ASSUME FoundingInv, NEW i \in Invitations, EnsureClientMemberRole(i) PROVE FoundingInv' /\ ClientsStay
<1>1. PICK c : c = invitation[i].client
  OBVIOUS
<1>2. PICK k \in 0 .. Len(Handlers) :
         /\ handled' = [handled EXCEPT ![c] = @ \cup GrantedBy(k)]
         /\ invitation' = [invitation EXCEPT ![i].at = IF k = Len(Handlers) THEN "role" ELSE "failed"]
  BY <1>1 DEF EnsureClientMemberRole
<1>3. /\ invitation[i].at = "joined"
      /\ UNCHANGED <<released, tree, founding, setup, assigned>>
  BY DEF EnsureClientMemberRole
<1>4. c \in Clients /\ c \notin Agencies
  BY <1>1, <1>3, InvitationFacts, TenantsAssumption
<1>5. PICK G : G = GrantedBy(k)
  OBVIOUS
<1>6. /\ G \subseteq Modules /\ (~released => G \subseteq WiredSet)
      /\ k = Len(Handlers) => WiredSet \subseteq G
  BY <1>5, GrantedByIs
<1>7. /\ handled' \in [Tenants -> SUBSET Modules]
      /\ \A t \in Tenants : handled'[t] = IF t = c THEN handled[t] \cup G ELSE handled[t]
  BY <1>2, <1>4, <1>5, <1>6 DEF FoundingInv, FoundingTyped, Tenants
<1>8. PICK at \in {"role", "failed"} : /\ at = "role" <=> k = Len(Handlers)
                                       /\ invitation' = [invitation EXCEPT ![i].at = at]
  BY <1>2
<1>9. PICK r : r = [invitation[i] EXCEPT !.at = at]
  OBVIOUS
<1>10. r \in InvitationRow /\ r.at = at /\ r.client = c /\ r.user = invitation[i].user
  BY <1>1, <1>9, InvitationFacts DEF InvitationRow
<1>11. invitation' = [invitation EXCEPT ![i] = r]
  BY <1>8, <1>9
<1>12. /\ invitation' \in [Invitations -> InvitationRow]
       /\ \A j \in Invitations : invitation'[j] = IF j = i THEN r ELSE invitation[j]
  BY <1>10, <1>11, InvitationRows
<1>13. Progress /\ ClientsStay
  BY <1>3, <1>4, <1>7 DEF Progress, ClientsStay, Tenants
<1>14. Invited(i)'
  <2>1. invitation'[i] = r /\ r.at \in {"role", "failed"}
    BY <1>10, <1>12
  <2>2. r.at = "role" => WiredSet \subseteq handled'[c]
    BY <1>4, <1>6, <1>7, <1>8, <1>10 DEF Tenants
  <2>3. c \in Clients /\ r.user \in Invitees /\ tree'[c] \in Agencies /\ founding'[tree'[c]] = "done"
    BY <1>1, <1>3, <1>10, InvitationFacts
  <2>. QED  BY <1>10, <2>1, <2>2, <2>3 DEF Invited, WiredSet
<1>15. \A j \in Invitations : Invited(j)'
  BY <1>12, <1>13, <1>14, InvitedStays
<1>16. MemberRoleIsWhole'
  BY <1>3, <1>13, MembersStay
<1>17. FoundingTyped' /\ HandledInv'
  BY <1>3, <1>6, <1>7, <1>12 DEF FoundingInv, FoundingTyped, HandledInv, Modules, WiredSet, Tenants
<1>18. \A b \in Agencies : Founded(b)'
  <2>1. \A b \in Agencies : b \in Tenants /\ handled'[b] = handled[b]
    BY <1>4, <1>7 DEF Tenants
  <2>. QED  BY <1>3, <2>1 DEF FoundingInv, Founded, WiredSet
<1>19. \A d \in Clients : SetUp(d)'
  BY <1>3 DEF FoundingInv, SetUp
<1>. QED  BY <1>13, <1>15, <1>16, <1>17, <1>18, <1>19 DEF FoundingInv

\* Where the client's role and its owner's have heard of the same modules, the
\* owner may assign it.
LEMMA RefusedAcross ==
  ASSUME FoundingInv, NEW c \in Clients, tree[c] \in Agencies, founding[tree[c]] = "done", ~MayAssign(c)
  PROVE  released /\ \E m \in Unwired : m \in handled[c] \ handled[tree[c]]
<1>1. PICK a \in Agencies : a = tree[c]
  OBVIOUS
<1>2. WiredSet \subseteq handled[a] /\ handled[c] \subseteq Modules
  BY <1>1 DEF FoundingInv, Founded, FoundingTyped, Tenants
<1>3. <<"membership_role", "create">> \in OwnerPermissions(a)
  BY DEF OwnerPermissions, CoreGrants, On
<1>4. ~(MemberPermissions(c) \subseteq OwnerPermissions(a))
  BY <1>1, <1>3 DEF MayAssign, OwnerMay
<1>5. PICK m \in handled[c] : ~(Grants[m].member \subseteq OwnerPermissions(a))
  BY <1>4 DEF MemberPermissions
<1>6. Grants[m].member \subseteq Grants[m].owner
  BY <1>2, <1>5, MembersWithinOwners
<1>7. m \notin handled[a]
  BY <1>5, <1>6 DEF OwnerPermissions
<1>8. m \in Unwired /\ m \notin WiredSet
  BY <1>2, <1>5, <1>7 DEF Modules
<1>9. released
  BY <1>5, <1>8 DEF FoundingInv, HandledInv, Tenants
<1>. QED  BY <1>1, <1>5, <1>7, <1>8, <1>9

LEMMA AssignStep ==
  ASSUME FoundingInv, NEW i \in Invitations, AssignStartingClientRole(i) PROVE FoundingInv' /\ ClientsStay
<1>1. PICK c, u : c = invitation[i].client /\ u = invitation[i].user
  OBVIOUS
<1>2. invitation[i].at = "role" /\ UNCHANGED <<released, tree, handled, founding, setup>>
  BY DEF AssignStartingClientRole
<1>3. /\ c \in Clients /\ u \in Invitees /\ tree[c] \in Agencies /\ founding[tree[c]] = "done"
      /\ WiredSet \subseteq handled[c]
  BY <1>1, <1>2, InvitationFacts
<1>4. PICK at \in {"done", "refused"} :
         /\ at = "done" <=> MayAssign(c)
         /\ invitation' = [invitation EXCEPT ![i].at = at]
         /\ assigned' = IF at = "done" THEN assigned \cup {<<u, c>>} ELSE assigned
  BY <1>1 DEF AssignStartingClientRole
<1>5. PICK r : r = [invitation[i] EXCEPT !.at = at]
  OBVIOUS
<1>6. r \in InvitationRow /\ r.at = at /\ r.client = c /\ r.user = u
  BY <1>1, <1>5, InvitationFacts DEF InvitationRow
<1>7. invitation' = [invitation EXCEPT ![i] = r]
  BY <1>4, <1>5
<1>8. invitation'[i] = r
  BY <1>6, <1>7, InvitationRows
<1>9. /\ assigned \subseteq assigned' /\ assigned' \subseteq Invitees \X Clients
      /\ \A m \in assigned' : m \in assigned \/ m[2] = c
  BY <1>3, <1>4 DEF FoundingInv, FoundingTyped
<1>10. MemberRoleIsWhole'
  BY <1>2, <1>3, <1>9 DEF FoundingInv, MemberRoleIsWhole, WiredSet
<1>11. Invited(i)'
  <2>1. at = "done" => <<u, c>> \in assigned'
    BY <1>4
  <2>2. at = "refused" => released /\ \E m \in Unwired : m \in handled[c] \ handled[tree[c]]
    BY <1>3, <1>4, RefusedAcross
  <2>. QED  BY <1>2, <1>3, <1>6, <1>8, <2>1, <2>2 DEF Invited
<1>. QED  BY <1>2, <1>6, <1>7, <1>9, <1>10, <1>11, InvitationMoves

LEMMA FoundingStep ==
  ASSUME FoundingInv, ClientsNew, FoundingNext PROVE FoundingInv' /\ ClientsStay
<1>1. CASE Release
  BY <1>1, ReleaseStep
<1>2. ASSUME NEW a \in Agencies,
             \/ CreateAgency(a) \/ ActivateAgency(a) \/ AddFounder(a) \/ AssignFirstRole(a) \/ FoundingDies(a)
             \/ EnsureAgencyOwnerRole(a) \/ \E c \in Clients : CreateClient(c, a)
      PROVE  FoundingInv' /\ ClientsStay
  BY <1>2, FounderSteps, EnsureOwnerStep, CreateClientStep
<1>3. ASSUME NEW c \in Clients,
             ActivateClient(c) \/ CopyPipeline(c) \/ SetupFails(c) \/ PublishClient(c) \/ SetupDies(c)
      PROVE  FoundingInv' /\ ClientsStay
  BY <1>3, SetupSteps
<1>4. ASSUME NEW i \in Invitations,
             \/ \E c \in Clients, u \in Invitees : InviteClientMember(i, c, u)
             \/ AcceptInvitation(i) \/ AcceptanceDies(i)
             \/ EnsureClientMemberRole(i) \/ AssignStartingClientRole(i)
      PROVE  FoundingInv' /\ ClientsStay
  BY <1>4, InviteStep, AcceptanceSteps, EnsureMemberStep, AssignStep
<1>. QED  BY <1>1, <1>2, <1>3, <1>4 DEF FoundingNext

-----------------------------------------------------------------------------
(* The place of an agency.                                                 *)
AttachRow ==
  [at : {"idle", "reserved", "moved", "finalized", "done", "failed", "dead"},
   tenant : Tenants \cup {"none"}, fresh : BOOLEAN]
AttachmentRow ==
  [record : {"none", "pending", "failed", "succeeded", "stale"}, audits : Nat, expired : BOOLEAN]

\* The attachment of t is recorded, or whoever made it is to be asked.
Accounted(t) ==
  \/ attachment[t].audits >= 1
  \/ \E n \in Attaches : attach[n].tenant = t /\ attach[n].fresh /\ attach[n].at # "done"

\* A call with the reservation of t.
Works(n, t) == attach[n].tenant = t /\ attach[n].fresh /\ attach[n].at \in {"reserved", "moved", "finalized"}

\* While no reservation of t ran out, one call has it at a time, and the record says
\* how far that call has come.
Reserved(t) ==
  ~attachment[t].expired =>
    /\ attachment[t].record # "stale" /\ attachment[t].audits <= 1
    /\ attachment[t].record # "succeeded" => attachment[t].audits = 0
    /\ \A n, m \in Attaches : Works(n, t) /\ Works(m, t) => n = m
    /\ \A n \in Attaches : Works(n, t) =>
         /\ attachment[t].audits = 0
         /\ attach[n].at \in {"reserved", "moved"} => attachment[t].record = "pending"
         /\ attach[n].at = "finalized" => attachment[t].record = "succeeded"

CallSound(n) ==
  /\ attach[n].at = "idle" => ~attach[n].fresh
  /\ attach[n].at # "idle" => attach[n].tenant \in Tenants /\ Accounted(attach[n].tenant)
  /\ attach[n].at = "reserved" => tree[attach[n].tenant] \in {Root, Platform}
  /\ attach[n].at \in {"moved", "finalized"} => attach[n].fresh

PlaceSound(t) ==
  /\ Reserved(t)
  /\ attachment[t].record # "none" => Accounted(t)
  /\ t \in Agencies /\ tree[t] = Platform => Accounted(t)

AttachInv ==
  /\ attach \in [Attaches -> AttachRow]
  /\ attachment \in [Tenants -> AttachmentRow]
  /\ \A n \in Attaches : CallSound(n)
  /\ \A t \in Tenants : PlaceSound(t)

\* The founding of tenants moves nobody an attachment looks at.
LEMMA TreeGrows ==
  ASSUME AttachInv, UNCHANGED attachVars,
         \A t \in Tenants : tree'[t] = tree[t] \/ (tree'[t] = Root /\ t \in Agencies)
                            \/ (tree[t] \notin {Root, Platform} /\ tree'[t] # Platform)
  PROVE  AttachInv'
<1>1. \A t \in Tenants : Accounted(t)' <=> Accounted(t)
  BY DEF Accounted, attachVars
<1>2. \A t \in Tenants : Reserved(t)'
  BY DEF AttachInv, PlaceSound, Reserved, Works, attachVars
<1>3. \A t \in Tenants : tree[t] \in {Root, Platform} => tree'[t] \in {Root, Platform}
  OBVIOUS
<1>4. \A n \in Attaches : CallSound(n)'
  BY <1>1, <1>3 DEF AttachInv, CallSound, Accounted, attachVars
<1>5. \A t \in Tenants : PlaceSound(t)'
  BY <1>1, <1>2 DEF AttachInv, PlaceSound, attachVars, Root, Platform
<1>. QED  BY <1>4, <1>5 DEF AttachInv, attachVars

LEMMA FoundingAttached == ASSUME FoundingInv, ClientsNew, AttachInv, FoundingNext PROVE AttachInv' /\ ClientsNew'
<1>1. UNCHANGED attachVars
  BY DEF FoundingNext, Release, CreateAgency, ActivateAgency, EnsureAgencyOwnerRole, AddFounder,
     AssignFirstRole, FoundingDies, CreateClient, ActivateClient, CopyPipeline, SetupFails, PublishClient,
     SetupDies, InviteClientMember, AcceptInvitation, EnsureClientMemberRole, AssignStartingClientRole,
     AcceptanceDies
<1>2. CASE \E a \in Agencies : CreateAgency(a)
  <2>1. PICK a \in Agencies : tree' = [tree EXCEPT ![a] = Root] /\ UNCHANGED setup
    BY <1>2 DEF CreateAgency
  <2>2. /\ \A t \in Tenants : tree'[t] = IF t = a THEN Root ELSE tree[t]
        /\ \A c \in Clients : c # a /\ c \in Tenants
    BY <2>1, TenantsAssumption DEF FoundingInv, FoundingTyped, Tenants
  <2>3. AttachInv'
    BY <1>1, <2>1, <2>2, TreeGrows
  <2>. QED  BY <2>1, <2>2, <2>3 DEF ClientsNew
<1>3. CASE \E c \in Clients, a \in Agencies : CreateClient(c, a)
  <2>1. PICK c \in Clients, a \in Agencies, snapshot \in BOOLEAN :
           /\ tree' = [tree EXCEPT ![c] = a] /\ setup[c].at = "idle"
           /\ setup' = [setup EXCEPT ![c] = [at |-> "created", snapshot |-> snapshot, copied |-> 0, event |-> FALSE]]
    BY <1>3 DEF CreateClient
  <2>2. /\ \A t \in Tenants : tree'[t] = IF t = c THEN a ELSE tree[t]
        /\ tree[c] = "absent" /\ a # Platform /\ a # "absent"
    BY <2>1, TenantsAssumption DEF FoundingInv, FoundingTyped, Tenants, ClientsNew, Platform
  <2>3. AttachInv'
    BY <1>1, <2>1, <2>2, TreeGrows DEF Root, Platform
  <2>4. /\ setup'[c].at = "created"
        /\ \A d \in Clients : d # c => setup'[d] = setup[d]
    BY <2>1 DEF FoundingInv, FoundingTyped
  <2>5. ClientsNew'
    BY <2>2, <2>4 DEF ClientsNew, Tenants
  <2>. QED  BY <2>3, <2>5
<1>4. CASE UNCHANGED tree /\ \A c \in Clients : setup'[c].at = "idle" => setup[c].at = "idle"
  BY <1>1, <1>4, TreeGrows DEF ClientsNew
<1>5. CASE UNCHANGED <<tree, setup>>
  BY <1>4, <1>5
<1>6. ASSUME NEW c \in Clients,
             ActivateClient(c) \/ CopyPipeline(c) \/ SetupFails(c) \/ PublishClient(c) \/ SetupDies(c)
      PROVE  UNCHANGED tree /\ \A d \in Clients : setup'[d].at = "idle" => setup[d].at = "idle"
  <2>1. UNCHANGED tree
    BY <1>6 DEF ActivateClient, CopyPipeline, SetupFails, PublishClient, SetupDies
  <2>2. /\ setup[c].at # "idle"
        /\ \A d \in Clients : d # c => setup'[d] = setup[d]
    BY <1>6 DEF ActivateClient, CopyPipeline, SetupFails, PublishClient, SetupDies, FoundingInv, FoundingTyped
  <2>3. setup \in [Clients -> SetupRow] /\ setup[c] \in SetupRow
    BY DEF FoundingInv, FoundingTyped
  <2>4. CASE ActivateClient(c) \/ SetupFails(c) \/ SetupDies(c)
    <3>1. setup'[c].at \in {"active", "setup failed", "dead"}
      BY <2>3, <2>4 DEF ActivateClient, SetupFails, SetupDies, SetupRow
    <3>. QED  BY <2>1, <2>2, <3>1
  <2>5. CASE CopyPipeline(c)
    <3>1. setup'[c].at = setup[c].at
      BY <2>3, <2>5 DEF CopyPipeline, SetupRow
    <3>. QED  BY <2>1, <2>2, <3>1
  <2>6. CASE PublishClient(c)
    <3>1. PICK q : q = [setup[c] EXCEPT !.at = "done"]
      OBVIOUS
    <3>2. setup'[c] = [q EXCEPT !.event = TRUE] /\ q \in SetupRow /\ q.at = "done"
      BY <2>3, <2>6, <3>1 DEF PublishClient, SetupRow
    <3>3. setup'[c].at = "done"
      BY <3>2 DEF SetupRow
    <3>. QED  BY <2>1, <2>2, <3>3
  <2>. QED  BY <1>6, <2>4, <2>5, <2>6
<1>. QED  BY <1>2, <1>3, <1>4, <1>5, <1>6 DEF FoundingNext, Release, ActivateAgency, EnsureAgencyOwnerRole,
     AddFounder, AssignFirstRole, FoundingDies, InviteClientMember, AcceptInvitation, EnsureClientMemberRole,
     AssignStartingClientRole, AcceptanceDies

-----------------------------------------------------------------------------
\* What is accounted for stays so.
LEMMA AccountedStays ==
  ASSUME AttachInv, NEW n \in Attaches, NEW q \in AttachRow, attach' = [attach EXCEPT ![n] = q],
         attachment' \in [Tenants -> AttachmentRow],
         \A t \in Tenants : attachment'[t].audits >= attachment[t].audits,
         attach[n].fresh => /\ q.fresh /\ q.tenant = attach[n].tenant
                            /\ q.at # "done" \/ attachment'[q.tenant].audits >= 1,
         NEW t \in Tenants, Accounted(t)
  PROVE  Accounted(t)'
<1>1. \A m \in Attaches : attach'[m] = IF m = n THEN q ELSE attach[m]
  BY DEF AttachInv
<1>2. attachment[t].audits \in Nat /\ attachment'[t].audits \in Nat
  BY DEF AttachInv, AttachmentRow
<1>3. CASE attachment[t].audits >= 1
  BY <1>2, <1>3 DEF Accounted
<1>4. CASE \E m \in Attaches : attach[m].tenant = t /\ attach[m].fresh /\ attach[m].at # "done"
  <2>1. PICK m \in Attaches : attach[m].tenant = t /\ attach[m].fresh /\ attach[m].at # "done"
    BY <1>4
  <2>2. CASE m # n
    BY <1>1, <2>1, <2>2 DEF Accounted
  <2>3. CASE m = n
    BY <1>1, <2>1, <2>3 DEF Accounted
  <2>. QED  BY <2>2, <2>3
<1>. QED  BY <1>3, <1>4 DEF Accounted

\* One call moves, for its tenant t; the others and the other tenants are as they were.
LEMMA AttachMoves ==
  ASSUME AttachInv, NEW n \in Attaches, NEW q \in AttachRow, attach' = [attach EXCEPT ![n] = q],
         NEW t \in Tenants, NEW row \in AttachmentRow, attachment' = [attachment EXCEPT ![t] = row],
         q.tenant = t, q.at # "idle", attach[n].at # "idle" => attach[n].tenant = t,
         row.audits >= attachment[t].audits,
         attach[n].fresh => q.fresh /\ (q.at # "done" \/ row.audits >= 1),
         q.at \in {"moved", "finalized"} => q.fresh,
         UNCHANGED tree \/ (tree' = [tree EXCEPT ![t] = Platform] /\ tree \in [Tenants -> {tree[x] : x \in Tenants}]),
         q.at = "reserved" => tree[t] \in {Root, Platform},
         Accounted(t)', Reserved(t)'
  PROVE  AttachInv'
<1>1. /\ attach' \in [Attaches -> AttachRow]
      /\ \A m \in Attaches : attach'[m] = IF m = n THEN q ELSE attach[m]
  BY DEF AttachInv
<1>2. /\ attachment' \in [Tenants -> AttachmentRow]
      /\ \A s \in Tenants : attachment'[s] = IF s = t THEN row ELSE attachment[s]
  BY DEF AttachInv
<1>3. \A s \in Tenants : attachment[s].audits \in Nat
  BY DEF AttachInv, AttachmentRow
<1>4. attach[n].fresh => attach[n].tenant = t
  BY DEF AttachInv, CallSound
<1>5. \A s \in Tenants : Accounted(s) => Accounted(s)'
  <2>1. \A s \in Tenants : attachment'[s].audits >= attachment[s].audits
    BY <1>2, <1>3
  <2>2. attach[n].fresh => /\ q.fresh /\ q.tenant = attach[n].tenant
                           /\ q.at # "done" \/ attachment'[q.tenant].audits >= 1
    BY <1>2, <1>4
  <2>. QED  BY <1>2, <2>1, <2>2, AccountedStays
<1>6. \A s \in Tenants : tree'[s] = tree[s] \/ (s = t /\ tree'[s] = Platform)
  OBVIOUS
<1>7. \A m \in Attaches : CallSound(m)'
  <2>1. \A m \in Attaches : m # n => CallSound(m)'
    BY <1>1, <1>5, <1>6 DEF AttachInv, CallSound
  <2>2. CallSound(n)'
    BY <1>1, <1>6 DEF CallSound
  <2>. QED  BY <2>1, <2>2
<1>8. \A s \in Tenants : PlaceSound(s)'
  <2>1. \A s \in Tenants : s # t => Reserved(s)'
    <3>1. \A s \in Tenants, m \in Attaches : s # t => (Works(m, s)' => Works(m, s) /\ attach'[m] = attach[m])
      BY <1>1 DEF Works
    <3>. QED  BY <1>2, <3>1 DEF AttachInv, PlaceSound, Reserved
  <2>2. \A s \in Tenants : s # t => PlaceSound(s)'
    BY <1>2, <1>5, <1>6, <2>1 DEF AttachInv, PlaceSound
  <2>3. PlaceSound(t)'
    BY DEF PlaceSound
  <2>. QED  BY <2>2, <2>3
<1>. QED  BY <1>1, <1>2, <1>7, <1>8 DEF AttachInv

LEMMA AttachRows ==
  ASSUME AttachInv, NEW n \in Attaches
  PROVE  /\ attach[n] \in AttachRow /\ CallSound(n)
         /\ \A t \in Tenants : attachment[t] \in AttachmentRow /\ PlaceSound(t)
BY DEF AttachInv

LEMMA ReserveStep ==
  ASSUME AttachInv, NEW n \in Attaches, NEW t \in Tenants, ReserveAttachment(n, t) PROVE AttachInv'
<1>1. PICK fresh \in BOOLEAN :
        /\ fresh = (attachment[t].record \in {"none", "failed", "stale"})
        /\ attach' = [attach EXCEPT ![n] = [at |-> "reserved", tenant |-> t, fresh |-> fresh]]
        /\ attachment' = IF fresh THEN [attachment EXCEPT ![t].record = "pending"] ELSE attachment
  <2>1. (attachment[t].record \in {"none", "failed", "stale"}) \in BOOLEAN
    OBVIOUS
  <2>. QED  BY <2>1, Zenon DEF ReserveAttachment
<1>2. /\ attach[n].at = "idle" /\ tree[t] \in {Root, Platform} /\ UNCHANGED tree
  BY DEF ReserveAttachment, MayAttach
<1>3. ~attach[n].fresh
  BY <1>2, AttachRows DEF CallSound
<1>4. PICK q : q = [at |-> "reserved", tenant |-> t, fresh |-> fresh]
  OBVIOUS
<1>5. q \in AttachRow /\ q.at = "reserved" /\ q.tenant = t /\ q.fresh = fresh /\ attach' = [attach EXCEPT ![n] = q]
  BY <1>1, <1>4 DEF AttachRow
<1>6. PICK row : row = IF fresh THEN [attachment[t] EXCEPT !.record = "pending"] ELSE attachment[t]
  OBVIOUS
<1>7. /\ attachment[t] \in AttachmentRow /\ row \in AttachmentRow
      /\ row.audits = attachment[t].audits /\ row.expired = attachment[t].expired
      /\ row.record = IF fresh THEN "pending" ELSE attachment[t].record
  BY <1>6, AttachRows DEF AttachmentRow
<1>8. attachment' = [attachment EXCEPT ![t] = row]
  BY <1>1, <1>6 DEF AttachInv
<1>9. /\ \A m \in Attaches : attach'[m] = IF m = n THEN q ELSE attach[m]
      /\ attachment'[t] = row
  BY <1>5, <1>8 DEF AttachInv
<1>10. Accounted(t)'
  <2>1. CASE fresh
    BY <1>5, <1>9, <2>1 DEF Accounted
  <2>2. CASE ~fresh
    <3>1. Accounted(t)
      BY <1>1, <1>7, <2>2, AttachRows DEF PlaceSound, AttachmentRow
    <3>. QED  BY <1>3, <1>7, <1>9, <3>1 DEF Accounted
  <2>. QED  BY <2>1, <2>2
<1>11. Reserved(t)'
  <2>1. \A m \in Attaches : m # n => (Works(m, t)' <=> Works(m, t)) /\ attach'[m] = attach[m]
    BY <1>9 DEF Works
  <2>2. Works(n, t)' <=> fresh
    BY <1>5, <1>9 DEF Works
  <2>3. ~Works(n, t)
    BY <1>2 DEF Works
  <2>4. Reserved(t)
    BY AttachRows DEF PlaceSound
  <2>5. ~attachment[t].expired /\ fresh =>
          /\ attachment[t].record \in {"none", "failed"}
          /\ attachment[t].audits = 0 /\ \A m \in Attaches : ~Works(m, t)
    BY <1>1, <2>4 DEF Reserved, Works
  <2>6. CASE fresh
    BY <1>5, <1>7, <1>9, <2>1, <2>2, <2>5, <2>6 DEF Reserved
  <2>7. CASE ~fresh
    BY <1>7, <1>9, <2>1, <2>2, <2>4, <2>7 DEF Reserved
  <2>. QED  BY <2>6, <2>7
<1>12. row.audits >= attachment[t].audits
  BY <1>7 DEF AttachmentRow
<1>. QED  BY <1>2, <1>3, <1>5, <1>7, <1>8, <1>10, <1>11, <1>12, AttachMoves

\* Others do not work for t while n does.
LEMMA WorksAlone ==
  ASSUME AttachInv, NEW n \in Attaches, NEW t \in Tenants, Works(n, t), ~attachment[t].expired
  PROVE  /\ attachment[t].audits = 0 /\ attachment[t].record # "stale"
         /\ attach[n].at \in {"reserved", "moved"} => attachment[t].record = "pending"
         /\ attach[n].at = "finalized" => attachment[t].record = "succeeded"
         /\ \A m \in Attaches : Works(m, t) => m = n
BY AttachRows DEF PlaceSound, Reserved

LEMMA MoveStep ==
  ASSUME AttachInv, tree \in [Tenants -> {tree[t] : t \in Tenants}], NEW n \in Attaches, MoveTenant(n)
  PROVE  AttachInv'
<1>1. PICK t : t = attach[n].tenant
  OBVIOUS
<1>2. attach[n].at = "reserved" /\ UNCHANGED attachment /\ tree' = [tree EXCEPT ![t] = Platform]
  BY <1>1 DEF MoveTenant
<1>3. t \in Tenants /\ Accounted(t)
  BY <1>1, <1>2, AttachRows DEF CallSound
<1>4. PICK at \in {"moved", "done"} : /\ at = "moved" <=> attach[n].fresh
                                      /\ attach' = [attach EXCEPT ![n].at = at]
  BY DEF MoveTenant
<1>5. PICK q : q = [attach[n] EXCEPT !.at = at]
  OBVIOUS
<1>6. q \in AttachRow /\ q.at = at /\ q.tenant = t /\ q.fresh = attach[n].fresh
  BY <1>1, <1>5, AttachRows DEF AttachRow
<1>7. attach' = [attach EXCEPT ![n] = q]
  BY <1>4, <1>5
<1>8. PICK row : row = attachment[t]
  OBVIOUS
<1>9. row \in AttachmentRow /\ attachment' = [attachment EXCEPT ![t] = row] /\ row.audits >= attachment[t].audits
  BY <1>2, <1>3, <1>8, AttachRows DEF AttachInv, AttachmentRow
<1>10. \A m \in Attaches : attach'[m] = IF m = n THEN q ELSE attach[m]
  BY <1>6, <1>7 DEF AttachInv
<1>11. Accounted(t)'
  BY <1>2, <1>3, <1>4, <1>6, <1>10 DEF Accounted
<1>12. Reserved(t)'
  <2>1. \A m \in Attaches : (Works(m, t)' <=> Works(m, t)) /\ (m # n => attach'[m] = attach[m])
    BY <1>1, <1>2, <1>4, <1>6, <1>10 DEF Works
  <2>2. Reserved(t)
    BY <1>3, AttachRows DEF PlaceSound
  <2>3. Works(n, t)' => attach'[n].at = "moved" /\ attach[n].at = "reserved"
    BY <1>2, <1>4, <1>6, <1>10 DEF Works
  <2>. QED  BY <1>2, <2>1, <2>2, <2>3 DEF Reserved
<1>13. q.at \in {"moved", "finalized"} => q.fresh
  BY <1>4, <1>6
<1>. QED  BY <1>1, <1>2, <1>3, <1>4, <1>6, <1>7, <1>9, <1>11, <1>12, <1>13, AttachMoves

\* A call writes the record of its tenant.
LEMMA FreshAtWork ==
  ASSUME AttachInv, NEW n \in Attaches, attach[n].at \in {"reserved", "moved", "finalized"}
  PROVE  /\ attach[n].tenant \in Tenants /\ attach[n] \in AttachRow
         /\ attachment[attach[n].tenant] \in AttachmentRow
         /\ attach[n].fresh => Works(n, attach[n].tenant)
         /\ attach[n].at # "reserved" => attach[n].fresh
BY AttachRows DEF CallSound, Works

LEMMA AttachMoveFails == ASSUME AttachInv, NEW n \in Attaches, MoveFails(n) PROVE AttachInv'
<1>1. PICK t : t = attach[n].tenant
  OBVIOUS
<1>2. /\ attach[n].at = "reserved" /\ UNCHANGED tree
      /\ attach' = [attach EXCEPT ![n].at = "failed"]
      /\ attachment' = IF attach[n].fresh THEN [attachment EXCEPT ![t].record = "failed"] ELSE attachment
  BY <1>1 DEF MoveFails
<1>3. t \in Tenants /\ Accounted(t) /\ attach[n] \in AttachRow /\ attachment[t] \in AttachmentRow
  BY <1>1, <1>2, AttachRows DEF CallSound
<1>4. PICK q : q = [attach[n] EXCEPT !.at = "failed"]
  OBVIOUS
<1>5. q \in AttachRow /\ q.at = "failed" /\ q.tenant = t /\ q.fresh = attach[n].fresh /\ attach' = [attach EXCEPT ![n] = q]
  BY <1>1, <1>2, <1>3, <1>4 DEF AttachRow
<1>6. PICK row : row = IF attach[n].fresh THEN [attachment[t] EXCEPT !.record = "failed"] ELSE attachment[t]
  OBVIOUS
<1>7. /\ row \in AttachmentRow /\ row.audits = attachment[t].audits /\ row.expired = attachment[t].expired
      /\ row.record = IF attach[n].fresh THEN "failed" ELSE attachment[t].record
  BY <1>3, <1>6 DEF AttachmentRow
<1>8. attachment' = [attachment EXCEPT ![t] = row]
  BY <1>2, <1>3, <1>6 DEF AttachInv
<1>9. /\ \A m \in Attaches : attach'[m] = IF m = n THEN q ELSE attach[m]
      /\ attachment'[t] = row
  BY <1>3, <1>5, <1>8 DEF AttachInv
<1>10. Accounted(t)'
  BY <1>3, <1>5, <1>7, <1>9 DEF Accounted
<1>11. Reserved(t)'
  <2>1. \A m \in Attaches : (Works(m, t)' <=> Works(m, t) /\ m # n) /\ (m # n => attach'[m] = attach[m])
    BY <1>5, <1>9 DEF Works
  <2>2. Reserved(t)
    BY <1>3, AttachRows DEF PlaceSound
  <2>3. CASE attach[n].fresh
    <3>1. Works(n, t)
      BY <1>1, <1>2, <2>3, FreshAtWork
    <3>2. ~attachment[t].expired => /\ attachment[t].audits = 0 /\ \A m \in Attaches : ~Works(m, t)'
      BY <1>3, <2>1, <3>1, WorksAlone
    <3>. QED  BY <1>7, <1>9, <2>3, <3>2 DEF Reserved
  <2>4. CASE ~attach[n].fresh
    BY <1>7, <1>9, <2>1, <2>2, <2>4 DEF Reserved
  <2>. QED  BY <2>3, <2>4
<1>12. row.audits >= attachment[t].audits
  BY <1>3, <1>7 DEF AttachmentRow
<1>. QED  BY <1>1, <1>2, <1>3, <1>5, <1>7, <1>8, <1>10, <1>11, <1>12, AttachMoves

LEMMA FinalizeStep == ASSUME AttachInv, NEW n \in Attaches, FinalizeAttachment(n) PROVE AttachInv'
<1>1. PICK t : t = attach[n].tenant
  OBVIOUS
<1>2. /\ attach[n].at = "moved" /\ UNCHANGED tree
      /\ attach' = [attach EXCEPT ![n].at = "finalized"]
      /\ attachment' = [attachment EXCEPT ![t].record = "succeeded"]
  BY <1>1 DEF FinalizeAttachment
<1>3. /\ t \in Tenants /\ attach[n] \in AttachRow /\ attachment[t] \in AttachmentRow
      /\ attach[n].fresh /\ Works(n, t)
  BY <1>1, <1>2, FreshAtWork
<1>4. PICK q : q = [attach[n] EXCEPT !.at = "finalized"]
  OBVIOUS
<1>5. q \in AttachRow /\ q.at = "finalized" /\ q.tenant = t /\ q.fresh /\ attach' = [attach EXCEPT ![n] = q]
  BY <1>1, <1>2, <1>3, <1>4 DEF AttachRow
<1>6. PICK row : row = [attachment[t] EXCEPT !.record = "succeeded"]
  OBVIOUS
<1>7. /\ row \in AttachmentRow /\ row.audits = attachment[t].audits /\ row.expired = attachment[t].expired
      /\ row.record = "succeeded" /\ attachment' = [attachment EXCEPT ![t] = row]
  BY <1>2, <1>3, <1>6 DEF AttachmentRow
<1>8. /\ \A m \in Attaches : attach'[m] = IF m = n THEN q ELSE attach[m]
      /\ attachment'[t] = row
  BY <1>3, <1>5, <1>7 DEF AttachInv
<1>9. Accounted(t)'
  BY <1>5, <1>8 DEF Accounted
<1>10. Reserved(t)'
  <2>1. \A m \in Attaches : m # n => (Works(m, t)' <=> Works(m, t)) /\ attach'[m] = attach[m]
    BY <1>8 DEF Works
  <2>2. ~attachment[t].expired => attachment[t].audits = 0 /\ \A m \in Attaches : Works(m, t) => m = n
    BY <1>3, WorksAlone
  <2>. QED  BY <1>5, <1>7, <1>8, <2>1, <2>2 DEF Reserved
<1>11. row.audits >= attachment[t].audits
  BY <1>3, <1>7 DEF AttachmentRow
<1>. QED  BY <1>1, <1>2, <1>3, <1>5, <1>7, <1>9, <1>10, <1>11, AttachMoves

LEMMA RecordStep == ASSUME AttachInv, NEW n \in Attaches, RecordAttachment(n) PROVE AttachInv'
<1>1. PICK t : t = attach[n].tenant
  OBVIOUS
<1>2. /\ attach[n].at = "finalized" /\ UNCHANGED tree
      /\ attach' = [attach EXCEPT ![n].at = "done"]
      /\ attachment' = [attachment EXCEPT ![t].audits = @ + 1]
  BY <1>1 DEF RecordAttachment
<1>3. /\ t \in Tenants /\ attach[n] \in AttachRow /\ attachment[t] \in AttachmentRow
      /\ attach[n].fresh /\ Works(n, t)
  BY <1>1, <1>2, FreshAtWork
<1>4. PICK q : q = [attach[n] EXCEPT !.at = "done"]
  OBVIOUS
<1>5. q \in AttachRow /\ q.at = "done" /\ q.tenant = t /\ q.fresh /\ attach' = [attach EXCEPT ![n] = q]
  BY <1>1, <1>2, <1>3, <1>4 DEF AttachRow
<1>6. PICK k \in Nat : k = attachment[t].audits + 1
  BY <1>3 DEF AttachmentRow
<1>7. PICK row : row = [attachment[t] EXCEPT !.audits = k]
  OBVIOUS
<1>8. /\ row \in AttachmentRow /\ row.audits = k /\ row.expired = attachment[t].expired
      /\ row.record = attachment[t].record /\ attachment' = [attachment EXCEPT ![t] = row]
  BY <1>2, <1>3, <1>6, <1>7 DEF AttachmentRow
<1>9. /\ \A m \in Attaches : attach'[m] = IF m = n THEN q ELSE attach[m]
      /\ attachment'[t] = row
  BY <1>3, <1>5, <1>8 DEF AttachInv
<1>10. attachment[t].audits \in Nat /\ row.audits >= 1 /\ row.audits >= attachment[t].audits
  BY <1>3, <1>6, <1>8 DEF AttachmentRow
<1>11. Accounted(t)'
  BY <1>9, <1>10 DEF Accounted
<1>12. Reserved(t)'
  <2>1. ~attachment[t].expired => /\ attachment[t].audits = 0 /\ attachment[t].record = "succeeded"
                                  /\ \A m \in Attaches : ~Works(m, t)'
    BY <1>2, <1>3, <1>5, <1>9, WorksAlone DEF Works
  <2>. QED  BY <1>6, <1>8, <1>9, <2>1 DEF Reserved
<1>. QED  BY <1>1, <1>2, <1>3, <1>5, <1>8, <1>10, <1>11, <1>12, AttachMoves

LEMMA DiesStep == ASSUME AttachInv, NEW n \in Attaches, AttachDies(n) PROVE AttachInv'
<1>1. PICK t : t = attach[n].tenant
  OBVIOUS
<1>2. /\ attach[n].at \in {"reserved", "moved", "finalized"} /\ UNCHANGED <<tree, attachment>>
      /\ attach' = [attach EXCEPT ![n].at = "dead"]
  BY DEF AttachDies
<1>3. t \in Tenants /\ Accounted(t) /\ attach[n] \in AttachRow /\ attachment[t] \in AttachmentRow
  BY <1>1, <1>2, AttachRows DEF CallSound
<1>4. PICK q : q = [attach[n] EXCEPT !.at = "dead"]
  OBVIOUS
<1>5. q \in AttachRow /\ q.at = "dead" /\ q.tenant = t /\ q.fresh = attach[n].fresh /\ attach' = [attach EXCEPT ![n] = q]
  BY <1>1, <1>2, <1>3, <1>4 DEF AttachRow
<1>6. PICK row : row = attachment[t]
  OBVIOUS
<1>7. row \in AttachmentRow /\ attachment' = [attachment EXCEPT ![t] = row] /\ row.audits >= attachment[t].audits
  BY <1>2, <1>3, <1>6 DEF AttachInv, AttachmentRow
<1>8. \A m \in Attaches : attach'[m] = IF m = n THEN q ELSE attach[m]
  BY <1>5 DEF AttachInv
<1>9. Accounted(t)'
  BY <1>2, <1>3, <1>5, <1>8 DEF Accounted
<1>10. Reserved(t)'
  <2>1. \A m \in Attaches : Works(m, t)' => Works(m, t) /\ attach'[m] = attach[m]
    BY <1>5, <1>8 DEF Works
  <2>2. Reserved(t)
    BY <1>3, AttachRows DEF PlaceSound
  <2>. QED  BY <1>2, <2>1, <2>2 DEF Reserved
<1>. QED  BY <1>1, <1>2, <1>3, <1>5, <1>7, <1>9, <1>10, AttachMoves

LEMMA ExpiryStep == ASSUME AttachInv, NEW t \in Tenants, ReservationExpires(t) PROVE AttachInv'
<1>1. PICK half : half = [attachment[t] EXCEPT !.record = "stale"]
  OBVIOUS
<1>2. PICK row : row = [half EXCEPT !.expired = TRUE]
  OBVIOUS
<1>3. /\ attachment[t] \in AttachmentRow /\ half \in AttachmentRow /\ half.audits = attachment[t].audits
      /\ attachment[t].record = "pending" /\ UNCHANGED <<tree, attach>>
  BY <1>1 DEF AttachInv, AttachmentRow, ReservationExpires
<1>4. /\ row \in AttachmentRow /\ row.audits = attachment[t].audits /\ row.expired
      /\ attachment' = [attachment EXCEPT ![t] = row]
  BY <1>1, <1>2, <1>3 DEF AttachmentRow, ReservationExpires
<1>5. /\ attachment' \in [Tenants -> AttachmentRow]
      /\ \A s \in Tenants : attachment'[s] = IF s = t THEN row ELSE attachment[s]
  BY <1>4 DEF AttachInv
<1>6. \A s \in Tenants : Accounted(s)' <=> Accounted(s)
  BY <1>3, <1>4, <1>5 DEF Accounted
<1>7. \A s \in Tenants : Reserved(s)'
  <2>1. \A s \in Tenants, m \in Attaches : Works(m, s)' <=> Works(m, s)
    BY <1>3 DEF Works
  <2>. QED  BY <1>3, <1>4, <1>5, <2>1 DEF AttachInv, PlaceSound, Reserved
<1>8. \A n \in Attaches : CallSound(n)'
  BY <1>3, <1>6 DEF AttachInv, CallSound
<1>9. \A s \in Tenants : attachment'[s].record # "none" => attachment[s].record # "none"
  BY <1>3, <1>5
<1>10. \A s \in Tenants : PlaceSound(s)'
  BY <1>3, <1>6, <1>7, <1>9 DEF AttachInv, PlaceSound
<1>. QED  BY <1>3, <1>5, <1>8, <1>10 DEF AttachInv

LEMMA AttachStep ==
  ASSUME FoundingInv, AttachInv, AttachNext
  PROVE  AttachInv' /\ FoundingInv' /\ ClientsStay /\ (ClientsNew => ClientsNew')
<1>1. tree \in [Tenants -> {tree[t] : t \in Tenants}]
  BY DEF FoundingInv, FoundingTyped
<1>2. AttachInv'
  BY <1>1, ReserveStep, MoveStep, AttachMoveFails, FinalizeStep, RecordStep, DiesStep, ExpiryStep DEF AttachNext, Tenants
<1>3. UNCHANGED foundingVars
  BY DEF AttachNext, ReserveAttachment, MoveTenant, MoveFails, FinalizeAttachment, RecordAttachment, AttachDies,
     ReservationExpires
<1>4. \A t \in Tenants : tree'[t] = tree[t] \/ tree[t] \in {Root, Platform}
  <2>1. CASE UNCHANGED tree
    BY <2>1
  <2>2. CASE \E n \in Attaches : MoveTenant(n)
    <3>1. PICK n \in Attaches : /\ attach[n].at = "reserved"
                                /\ tree' = [tree EXCEPT ![attach[n].tenant] = Platform]
      BY <2>2 DEF MoveTenant
    <3>2. tree[attach[n].tenant] \in {Root, Platform}
      BY <3>1, AttachRows DEF CallSound
    <3>. QED  BY <1>1, <3>1, <3>2
  <2>. QED  BY <2>1, <2>2 DEF AttachNext, ReserveAttachment, MoveFails, FinalizeAttachment, RecordAttachment,
         AttachDies, ReservationExpires
<1>5. tree' \in [Tenants -> {tree'[t] : t \in Tenants}]
  BY <1>1 DEF AttachNext, ReserveAttachment, MoveTenant, MoveFails, FinalizeAttachment, RecordAttachment, AttachDies,
     ReservationExpires
<1>6. ClientsStay
  BY <1>4, TenantsAssumption DEF ClientsStay, Tenants, Root, Platform
<1>7. ClientsNew => ClientsNew'
  BY <1>3, <1>4 DEF ClientsNew, Tenants, Root, Platform, foundingVars
<1>8. /\ UNCHANGED <<released, handled, invitation, assigned, founding, setup>>
      /\ \A a \in Agencies : Founded(a)' 
      /\ \A c \in Clients : SetUp(c)'
  BY <1>3 DEF foundingVars, FoundingInv, Founded, SetUp, WiredSet
<1>9. FoundingInv'
  BY <1>5, <1>6, <1>8, NothingGranted DEF FoundingInv, FoundingTyped
<1>. QED  BY <1>2, <1>6, <1>7, <1>9

-----------------------------------------------------------------------------
PInv == FoundingInv /\ AttachInv

LEMMA ProvisionStarts == ASSUME NEW peopled \in BOOLEAN, ProvisionInit(peopled) PROVE PInv /\ (~peopled => ClientsNew)
<1>1. FoundingTyped
  <2>1. PICK r : r = [at |-> "idle", snapshot |-> FALSE, copied |-> 0, event |-> FALSE]
    OBVIOUS
  <2>2. PICK v : v = [at |-> "idle", client |-> "none", user |-> "none"]
    OBVIOUS
  <2>3. r \in SetupRow /\ v \in InvitationRow
    BY <2>1, <2>2 DEF SetupRow, InvitationRow
  <2>4. setup = [c \in Clients |-> r] /\ invitation = [i \in Invitations |-> v]
    BY <2>1, <2>2 DEF ProvisionInit
  <2>. QED  BY <2>3, <2>4 DEF ProvisionInit, FoundingTyped, Tenants
<1>2. HandledInv /\ MemberRoleIsWhole
  BY DEF ProvisionInit, HandledInv, MemberRoleIsWhole, Tenants
<1>3. \A i \in Invitations : Invited(i)
  BY DEF ProvisionInit, Invited
<1>4. (\A a \in Agencies : Founded(a)) /\ (\A c \in Clients : SetUp(c))
  BY DEF ProvisionInit, Founded, SetUp
<1>5. PICK q, row : /\ q = [at |-> "idle", tenant |-> "none", fresh |-> FALSE]
                    /\ row = [record |-> "none", audits |-> 0, expired |-> FALSE]
  OBVIOUS
<1>6. /\ q \in AttachRow /\ q.at = "idle" /\ ~q.fresh
      /\ row \in AttachmentRow /\ row.record = "none" /\ row.audits = 0
  BY <1>5 DEF AttachRow, AttachmentRow
<1>7. attach = [n \in Attaches |-> q] /\ attachment = [t \in Tenants |-> row]
  BY <1>5 DEF ProvisionInit, Tenants
<1>8. \A n \in Attaches : CallSound(n) /\ \A t \in Tenants : ~Works(n, t)
  BY <1>6, <1>7 DEF CallSound, Works
<1>9. \A a \in Agencies : tree[a] # Platform
  BY DEF ProvisionInit, Root, Platform
<1>10. \A t \in Tenants : PlaceSound(t)
  BY <1>6, <1>7, <1>8, <1>9 DEF PlaceSound, Reserved
<1>11. ~peopled => ClientsNew
  BY DEF ProvisionInit, ClientsNew
<1>. QED  BY <1>1, <1>2, <1>3, <1>4, <1>6, <1>7, <1>8, <1>10, <1>11 DEF PInv, FoundingInv, AttachInv

LEMMA PInvSuffices ==
  ASSUME PInv
  PROVE  /\ OwnerLacksNothing /\ MemberRoleIsWhole /\ RefusedOnlyAcrossReleases
         /\ AttachmentRecordedOnce /\ AnnouncedWithItsSetup
<1>1. OwnerLacksNothing
  <2>1. SUFFICES ASSUME NEW a \in Agencies, founding[a] = "done", NEW m \in WiredSet
                 PROVE  Asked[m] \subseteq OwnerPermissions(a)
    BY DEF OwnerLacksNothing, WiredSet
  <2>2. m \in handled[a]
    BY <2>1 DEF PInv, FoundingInv, Founded
  <2>3. Asked[m] \subseteq Grants[m].owner
    BY AskedIsGranted
  <2>. QED  BY <2>2, <2>3 DEF OwnerPermissions
<1>2. MemberRoleIsWhole /\ AnnouncedWithItsSetup
  BY DEF PInv, FoundingInv, SetUp, AnnouncedWithItsSetup
<1>3. RefusedOnlyAcrossReleases
  BY DEF PInv, FoundingInv, Invited, RefusedOnlyAcrossReleases
<1>4. AttachmentRecordedOnce
  <2>1. SUFFICES ASSUME NEW t \in Agencies
                 PROVE  /\ attachment[t].audits <= 1 \/ attachment[t].expired
                        /\ tree[t] = Platform /\ attachment[t].audits = 0 =>
                             \E n \in Attaches : attach[n].tenant = t /\ attach[n].fresh /\ attach[n].at # "done"
    BY DEF AttachmentRecordedOnce
  <2>2. PlaceSound(t) /\ attachment[t].audits \in Nat
    BY DEF PInv, AttachInv, AttachmentRow, Tenants
  <2>. QED  BY <2>2 DEF PlaceSound, Reserved, Accounted
<1>. QED  BY <1>1, <1>2, <1>3, <1>4

LEMMA ProvisionStutters ==
  ASSUME PInv, UNCHANGED provisionVars PROVE PInv' /\ (ClientsNew => ClientsNew')
<1>1. UNCHANGED <<released, tree, handled, founding, setup, invitation, assigned, attach, attachment>>
  BY DEF provisionVars, foundingVars, attachVars
<1>2. FoundingInv'
  BY <1>1 DEF PInv, FoundingInv, FoundingTyped, HandledInv, MemberRoleIsWhole, Founded, SetUp, Invited, Modules, WiredSet, Tenants
<1>3. AttachInv'
  BY <1>1 DEF PInv, AttachInv, CallSound, PlaceSound, Reserved, Works, Accounted, Tenants
<1>. QED  BY <1>1, <1>2, <1>3 DEF PInv, ClientsNew

\* Whatever call dies or fails half way, and however acceptances, releases and
\* attachments overlap, for any agencies, clients, invitations and calls: an owner
\* lacks no permission, a member's role is whole before it is assigned and refused
\* only across a release, an attachment is recorded once for each reservation that
\* did not run out, a client is announced with its set-up and stays with its agency.
THEOREM TenantsAreSetUpHolds == ProvisionSpec => TenantsAreSetUp
<1>1. ProvisionInit(FALSE) => PInv /\ ClientsNew
  BY ProvisionStarts
<1>2. ProvisionInit(TRUE) => PInv
  BY ProvisionStarts
<1>3. PInv /\ ClientsNew /\ [FoundingNext \/ AttachNext]_provisionVars
        => (PInv /\ ClientsNew)' /\ [ClientsStay]_provisionVars
  BY FoundingStep, FoundingAttached, AttachStep, ProvisionStutters DEF PInv
<1>4. PInv /\ [AttachNext]_provisionVars => PInv' /\ [ClientsStay]_provisionVars
  BY AttachStep, ProvisionStutters DEF PInv
<1>5. PInv => /\ OwnerLacksNothing /\ MemberRoleIsWhole /\ RefusedOnlyAcrossReleases
              /\ AttachmentRecordedOnce /\ AnnouncedWithItsSetup
  BY PInvSuffices
<1>. QED  BY <1>1, <1>2, <1>3, <1>4, <1>5, PTL DEF ProvisionSpec, TenantsAreSetUp
=============================================================================
