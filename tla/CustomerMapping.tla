-------------------------- MODULE CustomerMapping --------------------------
(***************************************************************************)
(* The Stripe customer of one user, and getOrCreateStripeCustomer, which   *)
(* looks up the row of billing_customers or fills it (billingService.js).  *)
(* A checkout may run it twice at once, and give it up between any two of  *)
(* its calls.                                                              *)
(*                                                                         *)
(* A customer at Stripe is the number of its creation.  Stripe answers a   *)
(* creation under a key it remembers with the customer it made before; the *)
(* key is the user's, and is forgotten after a day.                        *)
(***************************************************************************)
EXTENDS Integers

CONSTANTS
    Workers,        \* concurrent invocations
    MaxForgotten    \* bound: times Stripe forgets the user's key

ASSUME ForgottenAssumption == MaxForgotten \in Nat

VARIABLES
    mapping,    \* the row of billing_customers
    made,       \* customers made at Stripe for this user
    keyed,      \* the customer Stripe remembers under the user's key
    forgotten,  \* times the key was forgotten
    resolving   \* [Workers -> lookup]

customerVars == <<mapping, made, keyed, forgotten, resolving>>

NoCustomer == 0
Customers == 1..(MaxForgotten + 1)

\* exists with NoCustomer is the placeholder that satisfies foreign keys.
MappingRow == [exists: BOOLEAN, customer: Customers \cup {NoCustomer}]

Lookup == [step: {"load", "upsert", "create", "persist", "reload", "resolved"},
           customer: Customers \cup {NoCustomer}]

AtStep(step) == [step |-> step, customer |-> NoCustomer]
Unresolved == AtStep("load")
Resolved(c) == [step |-> "resolved", customer |-> c]

Mapped == mapping.customer # NoCustomer

SetLookup(w, l) == resolving' = [resolving EXCEPT ![w] = l]

LoadCustomer(w) ==
    /\ resolving[w].step = "load"
    /\ SetLookup(w, IF Mapped THEN Resolved(mapping.customer)
                    ELSE AtStep(IF mapping.exists THEN "create" ELSE "upsert"))
    /\ UNCHANGED <<mapping, made, keyed, forgotten>>

(* The upsert keeps a row that has come meanwhile, and returns it. *)
UpsertPlaceholder(w) ==
    /\ resolving[w].step = "upsert"
    /\ mapping' = [mapping EXCEPT !.exists = TRUE]
    /\ SetLookup(w, IF Mapped THEN Resolved(mapping.customer) ELSE AtStep("create"))
    /\ UNCHANGED <<made, keyed, forgotten>>

(* Mutant: a key of its own for every request. *)
CustomerForRequest == made + 1

(* customers.create under the user's key (external). *)
CustomerForKey == IF keyed = NoCustomer THEN made + 1 ELSE keyed

CreateCustomer(w) ==
    /\ resolving[w].step = "create"
    /\ made' = IF CustomerForKey > made THEN CustomerForKey ELSE made
    /\ keyed' = CustomerForKey
    /\ SetLookup(w, [step |-> "persist", customer |-> CustomerForKey])
    /\ UNCHANGED <<mapping, forgotten>>

(* Mutant: the update does not require that the customer is still null. *)
MayMapAny == mapping.exists

MayMap == mapping.exists /\ ~Mapped

PersistCustomer(w) ==
    LET c == resolving[w].customer IN
    /\ resolving[w].step = "persist"
    /\ IF MayMap
       THEN mapping' = [mapping EXCEPT !.customer = c] /\ SetLookup(w, Resolved(c))
       ELSE SetLookup(w, AtStep("reload")) /\ UNCHANGED mapping
    /\ UNCHANGED <<made, keyed, forgotten>>

(* racedCustomer; without one, BILLING_CUSTOMER_PERSIST_FAILED. *)
ReloadCustomer(w) ==
    /\ resolving[w].step = "reload"
    /\ Mapped
    /\ SetLookup(w, Resolved(mapping.customer))
    /\ UNCHANGED <<mapping, made, keyed, forgotten>>

LookupStep(w) ==
    \/ LoadCustomer(w) \/ UpsertPlaceholder(w) \/ CreateCustomer(w)
    \/ PersistCustomer(w) \/ ReloadCustomer(w)

(* Stripe prunes an idempotency key after a day (external). *)
KeyForgotten ==
    /\ keyed # NoCustomer
    /\ forgotten < MaxForgotten
    /\ keyed' = NoCustomer
    /\ forgotten' = forgotten + 1
    /\ UNCHANGED <<mapping, made, resolving>>

(* A new user, one whose first checkout failed, or one with a customer.     *)
CustomerInit ==
    /\ \/ made = 0 /\ mapping \in [exists: BOOLEAN, customer: {NoCustomer}]
       \/ made = 1 /\ mapping = [exists |-> TRUE, customer |-> 1]
    /\ keyed = NoCustomer
    /\ forgotten = 0
    /\ resolving = [w \in Workers |-> Unresolved]

---------------------------------------------------------------------------
(* Properties *)

CustomerTypeOK ==
    /\ mapping \in MappingRow
    /\ made \in Customers \cup {NoCustomer}
    /\ keyed \in {NoCustomer} \cup 1..made
    /\ forgotten \in 0..MaxForgotten
    /\ resolving \in [Workers -> Lookup]

(* The idempotency key stands in for a lock: however checkouts overlap, and *)
(* wherever they die, Stripe makes no second customer for a user while it   *)
(* remembers the first.                                                     *)
OneCustomerPerKey == made <= forgotten + 1

============================================================================
