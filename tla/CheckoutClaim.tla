--------------------------- MODULE CheckoutClaim ---------------------------
(***************************************************************************)
(* One user's Stripe Checkout Sessions for the one plan there is, and the  *)
(* local rows of billing_checkout_sessions that stop the user from holding *)
(* two payable Checkout URLs.                                              *)
(*                                                                         *)
(* A checkout request (pages/api/billing/checkout.js) claims the user's    *)
(* row (migration 013), creates a Session at Stripe and finalizes the row; *)
(* only then is the URL handed out.  Three kinds of job close an open row  *)
(* after Stripe says the Session is complete or expired, and sync the      *)
(* billing state of a completed one: the webhook, the success page's       *)
(* polling, and the emergency drain, each in its own order.                *)
(*                                                                         *)
(* Every remote call is a step.  It may fail, its reply may be lost, and   *)
(* the process may die.  The user does not cancel here: subscriptions only *)
(* come, and one that has been synced makes canStartCheckout refuse.       *)
(***************************************************************************)
EXTENDS CustomerMapping, FiniteSets, Sequences

CONSTANTS
    RowIds,       \* ids of the rows kept in view
    Nonces,       \* checkoutAttemptNonce values; one Session each at Stripe
    NoSession,    \* null stripe_checkout_session_id
    NoRow,        \* no claim held
    MaxFailures   \* bound: calls that fail, replies lost, crashes

ASSUME NoneAssumption == NoSession \notin Nonces /\ NoRow \notin RowIds
ASSUME BoundAssumption == MaxFailures \in Nat

VARIABLES
    sessions,   \* [Nonces -> status at Stripe]: create is idempotent per nonce
    past,       \* Sessions past expires_at, at Stripe and in the local row
    handed,     \* Sessions whose URL was returned to the browser
    payer,      \* [Nonces -> customer the Session was created for]
    subs,       \* Sessions the user paid: live subscriptions at Stripe
    local,      \* does the local billing row show a live subscription?
    rows,       \* [RowIds -> local row]
    late,       \* creating rows last updated more than five minutes ago
    job,        \* [Workers -> job]
    failures    \* failures so far

(* What closing a row, polling and the drain leave alone.                   *)
customerSide == <<payer, customerVars>>
vars == <<sessions, past, handed, subs, local, rows, late, job, failures, customerSide>>

SessionStatuses == {"none", "open", "complete", "expired"}
ActiveStatuses == {"creating", "open"}

(* A failed row never held a Session and is forgotten: its id is free again *)
(* once no request names it.                                                *)
RowStatuses == ActiveStatuses \cup {"complete", "expired", "failed"}
Row == [status: RowStatuses, session: Nonces \cup {NoSession}]
FailedRow == [status |-> "failed", session |-> NoSession]

(* What is left to do for a closing job: the callers' own orders.           *)
Todos == {<<>>, <<"sync">>, <<"mark">>, <<"markQuietly">>, <<"sync", "mark">>,
          <<"sync", "markQuietly">>, <<"markQuietly", "sync">>, <<"expire", "mark">>}
Job == [pc: {"idle", "claim", "wait", "create", "finalize", "fail", "close"},
        nonce: Nonces \cup {NoSession}, row: RowIds \cup {NoRow},
        todo: Todos,
        status: {"none", "complete", "expired"}]

Idle == [pc |-> "idle", nonce |-> NoSession, row |-> NoRow,
         todo |-> <<>>, status |-> "none"]

RowOf(s) == {r \in RowIds : rows[r].session = s}

---------------------------------------------------------------------------
(* The user, Stripe and the clock (external) *)

Pay(s) ==
    /\ s \in handed
    /\ sessions[s] = "open"
    /\ sessions' = [sessions EXCEPT ![s] = "complete"]
    /\ subs' = subs \cup {s}
    /\ UNCHANGED <<past, handed, local, rows, late, job, failures, customerSide>>

ExpiresAtPasses(s) ==
    /\ sessions[s] # "none"
    /\ s \notin past
    /\ past' = past \cup {s}
    /\ sessions' = [sessions EXCEPT ![s] = IF @ = "open" THEN "expired" ELSE @]
    /\ UNCHANGED <<handed, subs, local, rows, late, job, failures, customerSide>>

ClaimAges(r) ==
    /\ rows[r].status = "creating"
    /\ r \notin late
    /\ late' = late \cup {r}
    /\ UNCHANGED <<sessions, past, handed, subs, local, rows, job, failures, customerSide>>

KeyForgets ==
    /\ KeyForgotten
    /\ UNCHANGED <<sessions, past, handed, subs, local, rows, late, job, failures, payer>>

---------------------------------------------------------------------------
(* Failures *)

SetJob(w, j) == job' = [job EXCEPT ![w] = j]
At(w, pc) == [job[w] EXCEPT !.pc = pc]

Failing == failures < MaxFailures /\ failures' = failures + 1

ForgetsLookup(w) ==
    SetLookup(w, Unresolved) /\ UNCHANGED <<payer, mapping, made, keyed, forgotten>>

(* The route's catch block releases the claim it knows it holds.            *)
Thrown(w) == IF job[w].pc \in {"create", "finalize"} THEN At(w, "fail") ELSE Idle

(* A quiet call's error is swallowed and the job goes on.                   *)
AfterFailure(w) ==
    IF job[w].pc = "close" /\ Head(job[w].todo) = "markQuietly"
    THEN [job[w] EXCEPT !.todo = Tail(@)]
    ELSE Thrown(w)

Reply(w, j) ==
    \/ SetJob(w, j) /\ UNCHANGED failures
    \/ SetJob(w, AfterFailure(w)) /\ Failing

CallFails(w) ==
    /\ job[w].pc # "idle"
    /\ job[w].pc = "close" => job[w].todo # <<>>
    /\ Failing
    /\ SetJob(w, AfterFailure(w))
    /\ ForgetsLookup(w)
    /\ UNCHANGED <<sessions, past, handed, subs, local, rows, late>>

Crash(w) ==
    /\ job[w].pc # "idle"
    /\ Failing
    /\ SetJob(w, Idle)
    /\ ForgetsLookup(w)
    /\ UNCHANGED <<sessions, past, handed, subs, local, rows, late>>

---------------------------------------------------------------------------
(* POST /api/billing/checkout *)

(* canStartCheckout reads the billing row; nothing reads it again later.    *)
StartCheckout(w, n) ==
    /\ job[w].pc = "idle"
    /\ ~local
    /\ SetJob(w, [Idle EXCEPT !.pc = "claim", !.nonce = n])
    /\ UNCHANGED <<sessions, past, handed, subs, local, rows, late, failures, customerSide>>

(* Mutant: the five-minute rule is not limited to creating rows. *)
ReleasedAnyAge(r) ==
    \/ rows[r].status = "open" /\ rows[r].session \in past
    \/ rows[r].status \in ActiveStatuses

(* Mutant: an abandoned creating row is never released. *)
ReleasedOpenOnly(r) ==
    rows[r].status = "open" /\ rows[r].session \in past

(* claim_billing_checkout_session first expires and fails what is overdue.  *)
Released(r) ==
    \/ rows[r].status = "open" /\ rows[r].session \in past
    \/ rows[r].status = "creating" /\ r \in late

AfterRelease ==
    [r \in RowIds |->
       IF ~Released(r) THEN rows[r]
       ELSE IF rows[r].status = "open" THEN [rows[r] EXCEPT !.status = "expired"]
       ELSE FailedRow]

ActiveIn(f) == {r \in RowIds : f[r].status \in ActiveStatuses}

FreeIds == {r \in RowIds : /\ rows[r] = FailedRow
                           /\ \A w \in Workers : job[w].row # r}

(* The route hands the row's URL to the browser and is done.                *)
HandOut(w, s) ==
    \/ handed' = handed \cup {s} /\ SetJob(w, Idle) /\ UNCHANGED failures
    \/ Failing /\ SetJob(w, Thrown(w)) /\ UNCHANGED handed

(* The rest of the RPC, under the user and plan's advisory lock.  A claim   *)
(* whose reply is lost leaves a creating row that nobody will finalize.     *)
Claim(w) ==
    LET kept == AfterRelease
        active == ActiveIn(kept)
    IN
    /\ job[w].pc = "claim"
    /\ late' = late \ {r \in RowIds : Released(r)}
    /\ \/ \E r \in active :
            /\ rows' = kept
            /\ IF kept[r].status = "open"
               THEN HandOut(w, kept[r].session)
               ELSE Reply(w, At(w, "wait")) /\ UNCHANGED handed
       \/ /\ active = {}
          /\ \E r \in FreeIds :
               /\ rows' = [kept EXCEPT ![r].status = "creating"]
               /\ Reply(w, [At(w, "create") EXCEPT !.row = r])
          /\ UNCHANGED handed
    /\ UNCHANGED <<sessions, past, subs, local, customerSide>>

(* waitForPendingCheckoutSessionOpen: re-read until open, or give up: 503.  *)
WaitForOpen(w) ==
    /\ job[w].pc = "wait"
    /\ \/ /\ SetJob(w, Idle)
          /\ UNCHANGED <<handed, failures>>
       \/ \E r \in RowIds : /\ rows[r].status = "open"
                            /\ rows[r].session \notin past
                            /\ HandOut(w, rows[r].session)
    /\ UNCHANGED <<sessions, past, subs, local, rows, late, customerSide>>

(* getOrCreateStripeCustomer, before the Session is created. *)
ResolveCustomer(w) ==
    /\ job[w].pc = "create"
    /\ LookupStep(w)
    /\ UNCHANGED <<sessions, past, handed, subs, local, rows, late, job, failures, payer>>

(* The same nonce gets the Session it got before, whatever became of it.    *)
CreateSession(w) ==
    LET n == job[w].nonce IN
    /\ job[w].pc = "create"
    /\ resolving[w].step = "resolved"
    /\ IF sessions[n] = "none"
       THEN /\ sessions' = [sessions EXCEPT ![n] = "open"]
            /\ payer' = [payer EXCEPT ![n] = resolving[w].customer]
       ELSE UNCHANGED <<sessions, payer>>
    /\ Reply(w, At(w, "finalize"))
    /\ SetLookup(w, Unresolved)
    /\ UNCHANGED <<past, handed, subs, local, rows, late, mapping, made, keyed, forgotten>>

(* Mutant: finalize does not check that its claim is still creating. *)
MayFinalizeAnyStatus(r, n) == RowOf(n) = {}

(* The row must still be creating, and a Session is in one row at most.     *)
MayFinalize(r, n) == rows[r].status = "creating" /\ RowOf(n) = {}

(* Mutant: the URL is returned even when the row could not be finalized. *)
FinalizeAlwaysHandsOut(w) ==
    LET j == job[w] IN
    /\ j.pc = "finalize"
    /\ IF MayFinalize(j.row, j.nonce)
       THEN rows' = [rows EXCEPT ![j.row] = [status |-> "open", session |-> j.nonce]]
       ELSE UNCHANGED rows
    /\ late' = late \ {j.row}
    /\ HandOut(w, j.nonce)
    /\ UNCHANGED <<sessions, past, subs, local, customerSide>>

(* finalizePendingCheckoutSession, then the URL is handed out.              *)
Finalize(w) ==
    LET j == job[w] IN
    /\ j.pc = "finalize"
    /\ IF MayFinalize(j.row, j.nonce)
       THEN /\ rows' = [rows EXCEPT ![j.row] = [status |-> "open", session |-> j.nonce]]
            /\ late' = late \ {j.row}
            /\ HandOut(w, j.nonce)
       ELSE SetJob(w, Thrown(w)) /\ UNCHANGED <<rows, late, handed, failures>>
    /\ UNCHANGED <<sessions, past, subs, local, customerSide>>

(* failPendingClaimQuietly *)
FailClaim(w) ==
    LET r == job[w].row IN
    /\ job[w].pc = "fail"
    /\ rows' = [rows EXCEPT ![r] = IF @.status = "creating" THEN FailedRow ELSE @]
    /\ late' = late \ {r}
    /\ SetJob(w, Idle)
    /\ UNCHANGED <<sessions, past, handed, subs, local, failures, customerSide>>

---------------------------------------------------------------------------
(* The jobs that close a row *)

StartClosing(w, s, todo) ==
    /\ job[w].pc = "idle"
    /\ SetJob(w, [Idle EXCEPT !.pc = "close", !.nonce = s, !.todo = todo,
                              !.status = sessions[s]])
    /\ UNCHANGED <<sessions, past, handed, subs, local, rows, late, failures, customerSide>>

(* checkout-status: the row is marked before the subscription is synced.    *)
Poll(w, s) ==
    /\ RowOf(s) # {}
    /\ sessions[s] \in {"complete", "expired"}
    /\ StartClosing(w, s, IF sessions[s] = "complete" /\ ~local
                          THEN <<"markQuietly", "sync">>
                          ELSE <<"markQuietly">>)

(* checkout.session.completed and .expired; the latter's mark is retried.   *)
Webhook(w, s) ==
    \/ sessions[s] = "complete" /\ StartClosing(w, s, <<"sync", "markQuietly">>)
    \/ sessions[s] = "expired" /\ StartClosing(w, s, <<"mark">>)

(* drainOpenCheckoutSession, having retrieved the Session of an open row.   *)
Drain(w, s) ==
    /\ \E r \in RowOf(s) : rows[r].status = "open"
    /\ \/ /\ sessions[s] = "open"
          /\ job[w].pc = "idle"
          /\ SetJob(w, [Idle EXCEPT !.pc = "close", !.nonce = s,
                           !.todo = <<"expire", "mark">>, !.status = "expired"])
          /\ UNCHANGED <<sessions, past, handed, subs, local, rows, late, failures, customerSide>>
       \/ sessions[s] = "complete" /\ StartClosing(w, s, <<"sync", "mark">>)
       \/ sessions[s] = "expired" /\ StartClosing(w, s, <<"mark">>)

NextCall(w, c) == job[w].pc = "close" /\ job[w].todo # <<>> /\ Head(job[w].todo) = c
CallDone(w) == [job[w] EXCEPT !.todo = Tail(@)]

(* The sync of a completed Session's subscription; BillingSync has it all.  *)
SyncSubscription(w) ==
    /\ NextCall(w, "sync")
    /\ local' = TRUE
    /\ Reply(w, CallDone(w))
    /\ UNCHANGED <<sessions, past, handed, subs, rows, late, customerSide>>

(* Stripe refuses to expire a Session that is no longer open.               *)
ExpireAtStripe(w) ==
    LET s == job[w].nonce IN
    /\ NextCall(w, "expire")
    /\ IF sessions[s] = "open"
       THEN /\ sessions' = [sessions EXCEPT ![s] = "expired"]
            /\ Reply(w, CallDone(w))
       ELSE SetJob(w, Idle) /\ UNCHANGED <<sessions, failures>>
    /\ UNCHANGED <<past, handed, subs, local, rows, late, customerSide>>

(* markMintedCheckoutSessionTerminal[ByStripeSessionId]: only an open row.  *)
MarkTerminal(w) ==
    LET s == job[w].nonce IN
    /\ NextCall(w, "mark") \/ NextCall(w, "markQuietly")
    /\ rows' = [r \in RowIds |->
                  IF rows[r].session = s /\ rows[r].status = "open"
                  THEN [rows[r] EXCEPT !.status = job[w].status] ELSE rows[r]]
    /\ Reply(w, CallDone(w))
    /\ UNCHANGED <<sessions, past, handed, subs, local, late, customerSide>>

Closed(w) ==
    /\ job[w].pc = "close" /\ job[w].todo = <<>>
    /\ SetJob(w, Idle)
    /\ UNCHANGED <<sessions, past, handed, subs, local, rows, late, failures, customerSide>>

---------------------------------------------------------------------------
(* Specification *)

Init ==
    /\ sessions = [n \in Nonces |-> "none"]
    /\ past = {}
    /\ handed = {}
    /\ payer = [n \in Nonces |-> NoCustomer]
    /\ subs = {}
    /\ local = FALSE
    /\ rows = [r \in RowIds |-> FailedRow]
    /\ late = {}
    /\ job = [w \in Workers |-> Idle]
    /\ failures = 0
    /\ CustomerInit

WorkerStep(w) ==
    \/ Claim(w)
    \/ WaitForOpen(w)
    \/ ResolveCustomer(w)
    \/ CreateSession(w)
    \/ Finalize(w)
    \/ FailClaim(w)
    \/ SyncSubscription(w)
    \/ ExpireAtStripe(w)
    \/ MarkTerminal(w)
    \/ Closed(w)

Next ==
    \/ \E s \in Nonces : Pay(s) \/ ExpiresAtPasses(s)
    \/ \E r \in RowIds : ClaimAges(r)
    \/ KeyForgets
    \/ \E w \in Workers :
         \/ \E s \in Nonces : \/ StartCheckout(w, s)
                              \/ Poll(w, s)
                              \/ Webhook(w, s)
                              \/ Drain(w, s)
         \/ WorkerStep(w)
         \/ CallFails(w)
         \/ Crash(w)

Spec == Init /\ [][Next]_vars

(* Requests run on, time passes, and the user keeps asking for a checkout.  *)
Fairness ==
    /\ \A w \in Workers : /\ WF_vars(WorkerStep(w))
                          /\ SF_vars(\E n \in Nonces : StartCheckout(w, n))
    /\ \A r \in RowIds : WF_vars(ClaimAges(r))

FairSpec == Spec /\ Fairness

---------------------------------------------------------------------------
(* Properties *)

(* Types; at most one row is active, and only a creating one is late.       *)
TypeOK ==
    /\ sessions \in [Nonces -> SessionStatuses]
    /\ past \cup handed \cup subs \subseteq {n \in Nonces : sessions[n] # "none"}
    /\ local \in BOOLEAN
    /\ rows \in [RowIds -> Row]
    /\ \A q, r \in ActiveIn(rows) : q = r
    /\ late \subseteq {r \in RowIds : rows[r].status = "creating"}
    /\ job \in [Workers -> Job]
    /\ failures \in 0..MaxFailures
    /\ payer \in [Nonces -> Customers \cup {NoCustomer}]
    /\ CustomerTypeOK

(* Duplicate checkout prevention: of all the URLs handed to the user at     *)
(* most one can still be paid, whatever requests overlap, stall past their  *)
(* claim, or lose a reply (docs/stripe-next-phase-plan.md: "prevents        *)
(* multiple live Checkout Sessions for the same user and plan").            *)
OneLiveUrl ==
    \A s, t \in handed : sessions[s] = "open" /\ sessions[t] = "open" => s = t

(* A URL that has been handed out is on record for this user, so polling    *)
(* recognises it as its own: checkout.js never bypasses "the local          *)
(* ownership/reuse guard".                                                  *)
HandedOutIsMinted == \A s \in handed : RowOf(s) # {}

(* "billing ownership must resolve through local customer mappings" (docs/  *)
(* stripe-next-phase-plan.md): every Session is the mapped customer's, so   *)
(* the events of a subscription paid there find their user, however many    *)
(* checkouts made or found a customer at the same time.                     *)
SessionsAreOfTheMapping ==
    \A n \in Nonces : sessions[n] # "none" => Mapped /\ payer[n] = mapping.customer

(* "Stripe failure must not permanently block future checkout for that user *)
(* and plan": a claim left behind is released while the user keeps trying.  *)
ClaimIsReleased ==
    \A r \in RowIds :
        rows[r].status = "creating" ~> rows[r].status # "creating" \/ local

(* What duplicate prevention is for: "multiple live Checkout Sessions can   *)
(* become duplicate subscriptions or charges".  The user never pays twice.  *)
NeverPaysTwice == Cardinality(subs) <= 1

===========================================================================
