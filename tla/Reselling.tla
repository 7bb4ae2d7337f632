----------------------------- MODULE Reselling -----------------------------
(***************************************************************************)
(* What a reseller sells its clients and what they buy: product/billing's  *)
(* resale_plans.py, the adoption of plans into a tenant's catalog          *)
(* (catalog.py) and subscriptions (subscriptions.py).                      *)
(*                                                                         *)
(* Every step is a transaction of its own, in product/billing or in the    *)
(* external core.billing and core.usage, and a request may die between     *)
(* two.  A plan's entitlements are a level, the higher the more it grants; *)
(* a tenant's level is what its active subscriptions entitle it to, and a  *)
(* level above zero includes reseller_enabled.                             *)
(***************************************************************************)
EXTENDS Integers, FiniteSets

CONSTANTS
  Reseller,     \* the tenant that resells
  Buyers,       \* its clients
  Offers,       \* calls of create_resale_plan(), and the plans they make
  OfferKeys,    \* the keys a reseller may give its plans
  Purchases,    \* calls of create_..._subscription() and change_subscription_plan()
  BuyKeys,      \* idempotency keys
  PlatformPlan, \* a plan of the platform, in no tenant's catalog at first
  TopLevel,     \* what it grants
  Quotas        \* the limits of resale_plan_creations a run looks at

VARIABLES
  plan,          \* core.billing's plans: whether made, the owner's catalog, the level
  shop,          \* the tenants that have a catalog merchant
  spent,         \* the quota: its limit, what is consumed of it
  offer,         \* the requests to create a resale plan and the rows they insert
  purchase,      \* the requests to subscribe or to change a subscription
  subscription   \* core.billing's subscriptions

resaleVars == <<plan, shop, spent, offer, purchase, subscription>>

Shops == {Reseller} \cup Buyers
Nobody == "nobody"
NoPlan == "no plan"

ASSUME ResellingAssumption ==
  /\ PlatformPlan \notin Offers /\ Nobody \notin Shops
  /\ IsFiniteSet(Offers) /\ Quotas \subseteq Nat /\ TopLevel \in Nat

Level(t) ==
  LET levels == {plan[s.plan].level : s \in {x \in subscription : x.tenant = t /\ x.active}} IN
  IF levels = {} THEN 0 ELSE CHOOSE n \in levels : \A m \in levels : m <= n

-----------------------------------------------------------------------------
(* ensure_legacy_plan_adopted(), for a tenant t.                           *)

LooksUp(p) == IF plan[p].owner = Nobody THEN "merchant" ELSE "adopted"

\* core.billing.adopt_legacy_plan() refuses a plan that has an owner.
AdoptedBy(p, t) == IF plan[p].owner = Nobody THEN [plan EXCEPT ![p].owner = t] ELSE plan

-----------------------------------------------------------------------------
(* create_resale_plan().                                                   *)

\* The permission, reseller_enabled, the ceiling: reads, without a lock.
PassesGates(o, k, level) ==
  /\ offer[o].at = "idle"
  /\ Level(Reseller) > 0 /\ level <= Level(Reseller)
  /\ offer' = [offer EXCEPT ![o] = [@ EXCEPT !.at = "gated", !.key = k, !.level = level]]
  /\ UNCHANGED <<plan, shop, spent, purchase, subscription>>

ConsumeQuota(o) ==
  /\ offer[o].at = "gated"
  /\ IF spent.used < spent.limit
     THEN /\ spent' = [spent EXCEPT !.used = @ + 1]
          /\ offer' = [offer EXCEPT ![o].at = "paid"]
     ELSE offer' = [offer EXCEPT ![o].at = "refused"] /\ UNCHANGED spent
  /\ UNCHANGED <<plan, shop, purchase, subscription>>

CreateUnderlyingPlan(o) ==
  /\ offer[o].at = "paid"
  /\ plan' = [plan EXCEPT ![o].made = TRUE, ![o].level = offer[o].level]
  /\ offer' = [offer EXCEPT ![o].at = "look"]
  /\ UNCHANGED <<shop, spent, purchase, subscription>>

OfferLooksUp(o) ==
  /\ offer[o].at = "look" /\ offer' = [offer EXCEPT ![o].at = LooksUp(o)]
  /\ UNCHANGED <<plan, shop, spent, purchase, subscription>>

OfferEnsuresMerchant(o) ==
  /\ offer[o].at = "merchant" /\ offer' = [offer EXCEPT ![o].at = "adopt"]
  /\ shop' = shop \cup {Reseller}
  /\ UNCHANGED <<plan, spent, purchase, subscription>>

OfferAdopts(o) ==
  /\ offer[o].at = "adopt" /\ offer' = [offer EXCEPT ![o].at = "adopted"]
  /\ plan' = AdoptedBy(o, Reseller)
  /\ UNCHANGED <<shop, spent, purchase, subscription>>

\* Mutant: the row is inserted as soon as its plan exists.
InsertResalePlanEarly(o) ==
  /\ offer[o].at \in {"look", "adopted"}
  /\ offer' = IF \E x \in Offers : offer[x].row # "none" /\ offer[x].key = offer[o].key
              THEN [offer EXCEPT ![o].at = "conflict"]
              ELSE [offer EXCEPT ![o].at = "done", ![o].row = "enabled"]
  /\ UNCHANGED <<plan, shop, spent, purchase, subscription>>

\* uq_billing_resale_plans_tenant_key: a second plan of one key leaves its
\* underlying plan and the quota it consumed behind.
InsertResalePlan(o) ==
  /\ offer[o].at = "adopted"
  /\ offer' = IF \E x \in Offers : offer[x].row # "none" /\ offer[x].key = offer[o].key
              THEN [offer EXCEPT ![o].at = "conflict"]
              ELSE [offer EXCEPT ![o].at = "done", ![o].row = "enabled"]
  /\ UNCHANGED <<plan, shop, spent, purchase, subscription>>

OfferDies(o) ==
  /\ offer[o].at \in {"gated", "paid", "look", "merchant", "adopt", "adopted"}
  /\ offer' = [offer EXCEPT ![o].at = "dead"]
  /\ UNCHANGED <<plan, shop, spent, purchase, subscription>>

\* Mutant: what the plan grants may be edited too.
UpdateResalePlanAll(o) ==
  /\ offer[o].row # "none" /\ ~offer[o].renamed
  /\ offer' = [offer EXCEPT ![o].renamed = TRUE, ![o].level = TopLevel]
  /\ UNCHANGED <<plan, shop, spent, purchase, subscription>>

\* Its name and description, whatever its status.
UpdateResalePlan(o) ==
  /\ offer[o].row # "none" /\ ~offer[o].renamed
  /\ offer' = [offer EXCEPT ![o].renamed = TRUE]
  /\ UNCHANGED <<plan, shop, spent, purchase, subscription>>

DeactivateResalePlan(o) ==
  /\ offer[o].row = "enabled"
  /\ offer' = [offer EXCEPT ![o].row = "disabled"]
  /\ UNCHANGED <<plan, shop, spent, purchase, subscription>>

-----------------------------------------------------------------------------
(* subscriptions.py.                                                       *)

BeginPurchase(b, t, p, k, kind, at) ==
  /\ purchase[b].at = "idle"
  /\ purchase' = [purchase EXCEPT ![b] = [at |-> at, tenant |-> t, plan |-> p,
                                          key |-> k, kind |-> kind]]
  /\ UNCHANGED <<plan, shop, spent, offer, subscription>>

BuyPlatformPlan(b, t, k, kind) == BeginPurchase(b, t, PlatformPlan, k, kind, "look")

\* get_resale_plan_for_recipient() and the status it finds.
BuyResalePlan(b, t, o, k, kind) ==
  t \in Buyers /\ offer[o].row = "enabled" /\ BeginPurchase(b, t, o, k, kind, "adopted")

PurchaseLooksUp(b) ==
  /\ purchase[b].at = "look"
  /\ purchase' = [purchase EXCEPT ![b].at = LooksUp(purchase[b].plan)]
  /\ UNCHANGED <<plan, shop, spent, offer, subscription>>

PurchaseEnsuresMerchant(b) ==
  /\ purchase[b].at = "merchant"
  /\ purchase' = [purchase EXCEPT ![b].at = "adopt"]
  /\ shop' = shop \cup {purchase[b].tenant}
  /\ UNCHANGED <<plan, spent, offer, subscription>>

PurchaseAdopts(b) ==
  /\ purchase[b].at = "adopt"
  /\ purchase' = [purchase EXCEPT ![b].at = "adopted"]
  /\ plan' = AdoptedBy(purchase[b].plan, purchase[b].tenant)
  /\ UNCHANGED <<shop, spent, offer, subscription>>

SubscriptionOf(b) ==
  {s \in subscription : s.tenant = purchase[b].tenant /\ s.key = purchase[b].key}

\* subscribe_idempotent(): a key that was used replays its subscription, and
\* is refused for another request.
Subscribe(b) ==
  /\ purchase[b].at = "adopted" /\ purchase[b].kind = "create"
  /\ purchase' = [purchase EXCEPT ![b].at = "done"]
  /\ subscription' =
       IF SubscriptionOf(b) # {} THEN subscription
       ELSE subscription \cup {[tenant |-> purchase[b].tenant, key |-> purchase[b].key,
                                plan |-> purchase[b].plan, active |-> TRUE]}
  /\ UNCHANGED <<plan, shop, spent, offer>>

ChangePlan(b) ==
  /\ purchase[b].at = "adopted" /\ purchase[b].kind = "change"
  /\ purchase' = [purchase EXCEPT ![b].at = "done"]
  /\ subscription' = {IF s \in SubscriptionOf(b) /\ s.active THEN [s EXCEPT !.plan = purchase[b].plan]
                      ELSE s : s \in subscription}
  /\ UNCHANGED <<plan, shop, spent, offer>>

CancelSubscription ==
  /\ \E s \in subscription : s.active
       /\ subscription' = (subscription \ {s}) \cup {[s EXCEPT !.active = FALSE]}
  /\ UNCHANGED <<plan, shop, spent, offer, purchase>>

PurchaseDies(b) ==
  /\ purchase[b].at \in {"look", "merchant", "adopt", "adopted"}
  /\ purchase' = [purchase EXCEPT ![b].at = "dead"]
  /\ UNCHANGED <<plan, shop, spent, offer, subscription>>

-----------------------------------------------------------------------------
ResaleInit ==
  /\ plan = [p \in {PlatformPlan} \cup Offers |->
               [made |-> p = PlatformPlan, owner |-> Nobody,
                level |-> IF p = PlatformPlan THEN TopLevel ELSE 0]]
  /\ shop = {} /\ spent \in [limit : Quotas, used : {0}] /\ subscription = {}
  /\ offer = [o \in Offers |-> [at |-> "idle", key |-> "none", level |-> 0, row |-> "none",
                                renamed |-> FALSE]]
  /\ purchase = [b \in Purchases |-> [at |-> "idle", tenant |-> Nobody, plan |-> NoPlan,
                                      key |-> "none", kind |-> "none"]]

ResaleNext ==
  \/ \E o \in Offers :
       \/ \E k \in OfferKeys, level \in 1..TopLevel : PassesGates(o, k, level)
       \/ ConsumeQuota(o) \/ CreateUnderlyingPlan(o) \/ OfferLooksUp(o)
       \/ OfferEnsuresMerchant(o) \/ OfferAdopts(o) \/ InsertResalePlan(o)
       \/ OfferDies(o) \/ UpdateResalePlan(o) \/ DeactivateResalePlan(o)
  \/ \E b \in Purchases :
       \/ \E t \in Shops, k \in BuyKeys, kind \in {"create", "change"} :
            BuyPlatformPlan(b, t, k, kind) \/ \E o \in Offers : BuyResalePlan(b, t, o, k, kind)
       \/ PurchaseLooksUp(b) \/ PurchaseEnsuresMerchant(b) \/ PurchaseAdopts(b)
       \/ Subscribe(b) \/ ChangePlan(b) \/ PurchaseDies(b)
  \/ CancelSubscription

-----------------------------------------------------------------------------
(* Whatever fails after the quota was consumed, a reseller has no more     *)
(* plans than it consumed quota for, and no more than its quota.           *)
PlansWithinQuota ==
  Cardinality({o \in Offers : plan[o].made}) <= spent.used /\ spent.used <= spent.limit

(* What is on sale or sold is in a catalog: its plan has an owner, who has *)
(* a merchant account to sell it with, and that of a resale plan is its    *)
(* reseller.                                                               *)
SoldFromACatalog ==
  /\ \A s \in subscription : plan[s.plan].made /\ plan[s.plan].owner \in shop
  /\ \A o \in Offers : offer[o].row # "none" => plan[o].owner = Reseller /\ Reseller \in shop

(* A tenant is entitled to what the plan it bought says it grants, for as  *)
(* long as the plan exists.                                                *)
SoldAsStated == \A o \in Offers : offer[o].row # "none" => plan[o].level = offer[o].level

(* A request that is retried with its key subscribes once.                 *)
BoughtOncePerKey ==
  \A r, s \in subscription : r.tenant = s.tenant /\ r.key = s.key => r = s

(* A plan two tenants adopt at the same time is the first one's, and stays *)
(* in its catalog.                                                         *)
OwnerIsForever ==
  \A p \in DOMAIN plan : plan[p].owner # Nobody => plan'[p].owner = plan[p].owner

\* The five steps of creating a resale plan and the retried purchases of it end,
\* at whichever step they stop, in no plan beyond the quota, none sold outside a
\* catalog, no price but the stated one, one subscription for a key, and an
\* owner that never changes (resale_plans.py).
SoldWithinCatalog ==
    /\ [](/\ PlansWithinQuota
          /\ SoldFromACatalog
          /\ SoldAsStated
          /\ BoughtOncePerKey)
    /\ [][OwnerIsForever]_resaleVars
=============================================================================
