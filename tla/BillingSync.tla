---------------------------- MODULE BillingSync ----------------------------
(***************************************************************************)
(* How one user's row of billing_subscriptions follows the subscriptions   *)
(* Stripe keeps for that user.                                             *)
(*                                                                         *)
(* Three kinds of job write the row, any number of them at a time:         *)
(*   - a webhook delivery in event mode: retrieve the subscription from    *)
(*     Stripe, check the local row, call the event RPC (migration 027);    *)
(*     a deletion uses the event's own snapshot and retrieves nothing;     *)
(*   - the guarded reconcile an equal-second conflict falls back to;       *)
(*   - an authoritative refresh: Checkout completion (status polling, the  *)
(*     emergency drain) or the storage repair's reconcile of the current   *)
(*     subscription, through the compare-and-swap RPC (migration 026).     *)
(* Each remote call and each RPC is a step of its own, so jobs interleave  *)
(* between a read and the write that relies on it.                         *)
(*                                                                         *)
(* Every lock, row and read is keyed by the user, so one user is modelled. *)
(* The data of a subscription is its status and rev, which stands for the  *)
(* other stored fields (price, period end, cancel_at_period_end): every    *)
(* change Stripe makes gives new fields, numbered in order.  Guards only   *)
(* compare two revs for equality, as the event RPC compares those fields;  *)
(* the properties use the order.                                           *)
(***************************************************************************)
EXTENDS Integers, FiniteSets

CONSTANTS
    Subs,             \* Stripe subscription ids this user may ever have
    Workers,          \* concurrent server invocations
    NoSub,            \* null stripe_subscription_id: the row is absent
    LiveStatuses,     \* supported statuses that are not terminal
    UnsupportedStatuses, \* statuses classifyStripeStatus does not support
    MaxTime,          \* bound: seconds of the event clock
    MaxRev,           \* bound: changes Stripe makes to one subscription
    MaxEvents,        \* bound: events up to which Stripe repeats itself
    MaxSyncs,         \* bound: authoritative jobs started
    MaxFailures       \* bound: jobs that throw at a remote call or crash

TerminalStatuses == {"canceled", "incomplete_expired"}
SupportedStatuses == LiveStatuses \cup TerminalStatuses
Statuses == SupportedStatuses \cup UnsupportedStatuses

ASSUME SubsAssumption == NoSub \notin Subs
ASSUME StatusAssumption ==
    /\ LiveStatuses \cap TerminalStatuses = {}
    /\ UnsupportedStatuses \cap SupportedStatuses = {}
ASSUME BoundAssumption ==
    {MaxTime, MaxRev, MaxEvents, MaxSyncs, MaxFailures} \subseteq Nat

VARIABLES
    now,       \* Stripe's clock, in the whole seconds of event.created
    stripe,    \* [Subs -> content]: what retrieve() returns; rev 0 = not created
    events,    \* the events Stripe has emitted
    done,      \* events whose delivery has ended without an error
    mapped,    \* is the Stripe customer linked to a local user?
    row,       \* the billing_subscriptions row of the user
    job,       \* [Workers -> job]: what each invocation is doing
    syncs,     \* authoritative jobs started so far
    failures   \* jobs that failed at a remote call so far

vars == <<now, stripe, events, done, mapped, row, job, syncs, failures>>
env == <<now, stripe, events, mapped>>

---------------------------------------------------------------------------
(* Records *)

Content == [status: Statuses, rev: Nat]

(* created is never 0: 0 in row.ts is SQL NULL in last_stripe_event_created. *)
Event == [sub: Subs, created: Nat \ {0}, deleted: BOOLEAN, content: Content]

(* snapshot_version is 1 on insert, so version 0 is the absent row. *)
Row == [sub: Subs \cup {NoSub}, version: Nat, ts: Nat, content: Content]

NoContent == [status |-> "canceled", rev |-> 0]
NoRow == [sub |-> NoSub, version |-> 0, ts |-> 0, content |-> NoContent]

(* The compare-and-swap token: {exists: false} is <<NoSub, 0>>. *)
Snapshot == [sub: Subs \cup {NoSub}, version: Nat]
SnapshotOf(r) == [sub |-> r.sub, version |-> r.version]

Purposes == {"event", "reconcile_current", "checkout_completion"}
Steps == {"idle", "retrieve", "check", "eventRpc",
          "snapshot", "aRetrieve", "authRpc", "reread"}

NoEvent == [sub |-> NoSub, created |-> 0, deleted |-> FALSE, content |-> NoContent]

(* event is NoEvent for an authoritative job; got holds what Stripe said.   *)
Job == [pc: Steps, event: Event \cup {NoEvent}, sub: Subs \cup {NoSub},
        purpose: Purposes, got: Content, snap: Snapshot, retried: BOOLEAN]

Idle == [pc |-> "idle", event |-> NoEvent, sub |-> NoSub,
         purpose |-> "event", got |-> NoContent,
         snap |-> SnapshotOf(NoRow), retried |-> FALSE]

IsTerminal(c) == c.status \in TerminalStatuses

---------------------------------------------------------------------------
(* The decisions of the two RPCs, each taken under the user's advisory lock *)

(* Mutant: the >= ordering that migration 027 replaced. *)
EventDecisionNewerOrEqual(r, sub, created, c) ==
    IF r.version = 0 THEN "applied"
    ELSE IF created < r.ts THEN "stale_ignored"
    ELSE IF sub = r.sub \/ IsTerminal(r.content) THEN "applied"
    ELSE "non_current_ignored"

(* Mutant: no comparison of event times, so the last write wins. *)
EventDecisionUnordered(r, sub, created, c) ==
    IF r.version = 0 \/ sub = r.sub \/ IsTerminal(r.content) THEN "applied"
    ELSE "non_current_ignored"

(* Mutant: an equal-second event counts as stale instead of as a conflict. *)
EventDecisionEqualIsStale(r, sub, created, c) ==
    IF r.version > 0 /\ created <= r.ts THEN "stale_ignored"
    ELSE IF r.version = 0 \/ sub = r.sub \/ IsTerminal(r.content) THEN "applied"
    ELSE "non_current_ignored"

(* upsert_billing_subscription_if_newer_or_equal *)
EventDecision(r, sub, created, c) ==
    IF r.version = 0 THEN "applied"
    ELSE IF created < r.ts THEN "stale_ignored"
    ELSE IF created > r.ts THEN
        IF sub = r.sub \/ IsTerminal(r.content) THEN "applied"
                                                ELSE "non_current_ignored"
    ELSE IF sub # r.sub THEN "equal_cross_subscription_conflict"
    ELSE IF c = r.content THEN "idempotent_equal"
    ELSE IF IsTerminal(c) /\ ~IsTerminal(r.content) THEN "applied"
    ELSE IF IsTerminal(r.content) /\ ~IsTerminal(c) THEN "terminal_preserved"
    ELSE "equal_timestamp_conflict"

(* Mutant: the guard names the subscription but not its version. *)
AuthoritativeDecisionSameSub(r, snap, purpose, sub) ==
    IF r.sub # snap.sub THEN "billing_snapshot_changed" ELSE "applied"

(* Mutant: Checkout completion may replace whatever the row shows. *)
AuthoritativeDecisionAnyReplaced(r, snap, purpose, sub) ==
    IF SnapshotOf(r) # snap THEN "billing_snapshot_changed" ELSE "applied"

(* upsert_billing_subscription_authoritative *)
AuthoritativeDecision(r, snap, purpose, sub) ==
    IF SnapshotOf(r) # snap THEN "billing_snapshot_changed"
    ELSE IF /\ r.version > 0
            /\ r.sub # sub
            /\ purpose # "checkout_completion" \/ ~IsTerminal(r.content)
         THEN "subscription_replacement_blocked"
    ELSE "applied"

(* The version trigger counts every write: 1 on insert, then one more each. *)
Written(r, sub, ts, c) ==
    [sub |-> sub, version |-> r.version + 1, ts |-> ts, content |-> c]

(* shouldIgnoreNonCurrentSubscriptionEvent *)
IgnoresNonCurrent(r, sub) ==
    r.version > 0 /\ r.sub # sub /\ ~IsTerminal(r.content)

---------------------------------------------------------------------------
(* Stripe (external): a terminal subscription never changes again *)

Tick == /\ now < MaxTime
        /\ now' = now + 1
        /\ UNCHANGED <<stripe, events, done, mapped, row, job, syncs, failures>>

EmittedFor(s, c, deleted) ==
    [sub |-> s, created |-> now, deleted |-> deleted, content |-> c]

StripeChange(s) ==
    /\ stripe[s].rev < MaxRev
    /\ stripe[s].rev = 0 \/ ~IsTerminal(stripe[s])
    /\ \E st \in Statuses :
         LET c == [status |-> st, rev |-> stripe[s].rev + 1]
             deleted == st = "canceled"
         IN  /\ stripe[s].rev = 0 => st \notin TerminalStatuses
             /\ st = "incomplete_expired" => stripe[s].status = "incomplete"
             /\ stripe' = [stripe EXCEPT ![s] = c]
             /\ events' = events \cup {EmittedFor(s, c, deleted)}
    /\ UNCHANGED <<now, done, mapped, row, job, syncs, failures>>

(* Invoice and Checkout events name a subscription they did not change. *)
StripeNotifies(s) ==
    /\ stripe[s].rev > 0
    /\ Cardinality(events) < MaxEvents
    /\ events' = events \cup {EmittedFor(s, stripe[s], FALSE)}
    /\ UNCHANGED <<now, stripe, done, mapped, row, job, syncs, failures>>

---------------------------------------------------------------------------
(* Jobs *)

SetJob(w, j) == job' = [job EXCEPT ![w] = j]
Goto(w, pc) == SetJob(w, [job[w] EXCEPT !.pc = pc])

(* Mutant: a refresh that answers no delivery acknowledges one too. *)
SucceedAlwaysAcknowledges(w) ==
    /\ SetJob(w, Idle)
    /\ done' = done \cup {job[w].event}

(* The job returned: a webhook's event is then never redelivered. *)
Succeed(w) ==
    /\ SetJob(w, Idle)
    /\ done' = done \cup ({job[w].event} \ {NoEvent})

(* The job threw: the event stays due and Stripe delivers it again. *)
Throw(w) == SetJob(w, Idle) /\ UNCHANGED done

(* Any remote call may fail, and the invocation may die between two steps. *)
Fail(w) ==
    /\ job[w].pc # "idle"
    /\ failures < MaxFailures
    /\ failures' = failures + 1
    /\ Throw(w)
    /\ UNCHANGED <<env, row, syncs>>

Deliver(w, e) ==
    /\ job[w].pc = "idle"
    /\ e \in events \ done
    /\ SetJob(w, [Idle EXCEPT !.pc = IF e.deleted THEN "check" ELSE "retrieve",
                              !.event = e, !.sub = e.sub,
                              !.got = IF e.deleted THEN e.content ELSE NoContent])
    /\ UNCHANGED <<env, done, row, syncs, failures>>

(* syncSubscriptionFromStripeAttempt, event mode: subscriptions.retrieve *)
RetrieveForEvent(w) ==
    /\ job[w].pc = "retrieve"
    /\ SetJob(w, [job[w] EXCEPT !.pc = "check", !.got = stripe[job[w].sub]])
    /\ UNCHANGED <<env, done, row, syncs, failures>>

(* The customer lookup, the local read and the early returns taken on them. *)
CheckForEvent(w) ==
    LET j == job[w] IN
    /\ j.pc = "check"
    /\ \/ /\ \/ ~mapped
             \/ IgnoresNonCurrent(row, j.sub)
             \/ j.got.status \in UnsupportedStatuses
             \/ j.event.created < row.ts
          /\ Succeed(w)
       \/ /\ mapped
          /\ ~IgnoresNonCurrent(row, j.sub)
          /\ j.got.status \in SupportedStatuses
          /\ j.event.created >= row.ts
          /\ Goto(w, "eventRpc")
          /\ UNCHANGED done
    /\ UNCHANGED <<env, row, syncs, failures>>

(* callSubscriptionEventRpc and what the dispatcher makes of its reason. *)
EventRpc(w) ==
    LET j == job[w]
        reason == EventDecision(row, j.sub, j.event.created, j.got)
    IN
    /\ j.pc = "eventRpc"
    /\ row' = IF reason = "applied" THEN Written(row, j.sub, j.event.created, j.got)
                                    ELSE row
    /\ IF reason \in {"equal_timestamp_conflict", "equal_cross_subscription_conflict"}
       THEN /\ SetJob(w, [j EXCEPT !.pc = "snapshot", !.got = NoContent,
                                   !.purpose = "reconcile_current"])
            /\ UNCHANGED done
       ELSE Succeed(w)
    /\ UNCHANGED <<env, syncs, failures>>

(* Checkout status polling and the drain: the Session is complete and names s. *)
StartCheckoutSync(w, s) ==
    /\ job[w].pc = "idle"
    /\ syncs < MaxSyncs
    /\ stripe[s].rev > 0
    /\ SetJob(w, [Idle EXCEPT !.pc = "snapshot", !.sub = s,
                              !.purpose = "checkout_completion"])
    /\ syncs' = syncs + 1
    /\ UNCHANGED <<env, done, row, failures>>

(* The storage repair has read an active row whose cancellation is overdue: *)
(* that read is also its snapshot.                                          *)
StartReconcile(w) ==
    /\ job[w].pc = "idle"
    /\ syncs < MaxSyncs
    /\ row.version > 0
    /\ row.content.status = "active"
    /\ SetJob(w, [Idle EXCEPT !.pc = "aRetrieve", !.sub = row.sub,
                              !.purpose = "reconcile_current",
                              !.snap = SnapshotOf(row)])
    /\ syncs' = syncs + 1
    /\ UNCHANGED <<env, done, row, failures>>

(* The strict local read, before the provider is asked. *)
ReadSnapshot(w) ==
    LET j == job[w] IN
    /\ j.pc = "snapshot"
    /\ IF j.purpose = "reconcile_current" /\ row.sub # j.sub
       THEN Throw(w)
       ELSE /\ SetJob(w, [j EXCEPT !.pc = "aRetrieve", !.snap = SnapshotOf(row)])
            /\ UNCHANGED done
    /\ UNCHANGED <<env, row, syncs, failures>>

(* A conflict's reconcile accepts only PROCESSED; other callers just end. *)
NotProcessed(w) == IF job[w].event # NoEvent THEN Throw(w) ELSE Succeed(w)

RetrieveAuthoritative(w) ==
    LET j == job[w]
        c == stripe[j.sub]
    IN
    /\ j.pc = "aRetrieve"
    /\ IF ~mapped \/ c.status \in UnsupportedStatuses
       THEN NotProcessed(w)
       ELSE /\ SetJob(w, [j EXCEPT !.pc = "authRpc", !.got = c])
            /\ UNCHANGED done
    /\ UNCHANGED <<env, row, syncs, failures>>

(* An authoritative payload carries no event time: the stored one is kept. *)
AuthoritativeRpc(w) ==
    LET j == job[w]
        applied == AuthoritativeDecision(row, j.snap, j.purpose, j.sub) = "applied"
    IN
    /\ j.pc = "authRpc"
    /\ row' = IF applied THEN Written(row, j.sub, row.ts, j.got) ELSE row
    /\ CASE applied                 -> Succeed(w)
         [] ~applied /\ ~j.retried  -> Goto(w, "reread") /\ UNCHANGED done
         [] ~applied /\ j.retried   -> NotProcessed(w)
    /\ UNCHANGED <<env, syncs, failures>>

(* One retry, with a fresh retrieval, and only over the same subscription. *)
RereadForRetry(w) ==
    LET j == job[w] IN
    /\ j.pc = "reread"
    /\ IF row.sub = j.sub
       THEN /\ SetJob(w, [j EXCEPT !.pc = "aRetrieve", !.retried = TRUE,
                                   !.snap = SnapshotOf(row)])
            /\ UNCHANGED done
       ELSE NotProcessed(w)
    /\ UNCHANGED <<env, row, syncs, failures>>

---------------------------------------------------------------------------
(* Specification *)

Init ==
    /\ now = 1
    /\ stripe = [s \in Subs |-> NoContent]
    /\ events = {}
    /\ done = {}
    /\ mapped \in BOOLEAN
    /\ row = NoRow
    /\ job = [w \in Workers |-> Idle]
    /\ syncs = 0
    /\ failures = 0

(* What an invocation does by itself once it has started. *)
WorkerStep(w) ==
    \/ RetrieveForEvent(w)
    \/ CheckForEvent(w)
    \/ EventRpc(w)
    \/ ReadSnapshot(w)
    \/ RetrieveAuthoritative(w)
    \/ AuthoritativeRpc(w)
    \/ RereadForRetry(w)

Next ==
    \/ Tick
    \/ \E s \in Subs : StripeChange(s) \/ StripeNotifies(s)
    \/ \E w \in Workers :
         \/ \E e \in events : Deliver(w, e)
         \/ \E s \in Subs : StartCheckoutSync(w, s)
         \/ StartReconcile(w)
         \/ WorkerStep(w)
         \/ Fail(w)

Spec == Init /\ [][Next]_vars

(* A started invocation runs on, and Stripe redelivers what has not been   *)
(* acknowledged; nothing makes Stripe change or anyone start a refresh.    *)
Fairness ==
    /\ \A w \in Workers : WF_vars(WorkerStep(w))
    /\ SF_vars(\E w \in Workers, e \in events : Deliver(w, e))

FairSpec == Spec /\ Fairness

---------------------------------------------------------------------------
(* Properties *)

(* The types of the variables; now and the row's version only ever grow.    *)
TypeOK ==
    /\ now \in Nat \ {0}
    /\ stripe \in [Subs -> Content]
    /\ events \subseteq Event
    /\ done \subseteq events
    /\ mapped \in BOOLEAN
    /\ row \in Row
    /\ job \in [Workers -> Job]
    /\ syncs \in Nat
    /\ failures \in Nat

(* The ordering by event time is sound although each delivery stores what   *)
(* Stripe returned later: the row is at least as new as every change of its *)
(* subscription that Stripe announced before last_stripe_event_created.     *)
RowCoversItsTimestamp ==
    \A e \in events :
        e.sub = row.sub /\ e.created < row.ts => e.content.rev <= row.content.rev

(* A write that does not advance last_stripe_event_created (an equal-second *)
(* event, or any authoritative refresh) never puts back an older state of   *)
(* the same subscription; so a committed cancellation is not undone either. *)
EqualTimeWriteNeverRegresses ==
    [][row'.sub = row.sub /\ row'.ts = row.ts
         => row'.content.rev >= row.content.rev]_row

(* Another subscription takes the row over only once the one it shows is    *)
(* canceled or incomplete_expired, on every path that can write the row.    *)
OnlyTerminalIsReplaced ==
    [][row'.sub # row.sub => row.version = 0 \/ IsTerminal(row.content)]_row

(* last_stripe_event_created never goes back, not even when a refresh keeps *)
(* it across the replacement of one subscription by another.                *)
EventTimeNeverRunsBack == [][row'.ts >= row.ts]_row

(* While a user has had only one subscription: once a delivery has been     *)
(* acknowledged, no later write of any job puts the row back to before the  *)
(* change it announced, so Stripe may forget the event.                     *)
OnlySubscription(s) == \A t \in Subs \ {s} : stripe[t].rev = 0

AcknowledgedIsStored ==
    mapped => \A e \in done :
        OnlySubscription(e.sub) => row.sub = e.sub /\ row.content.rev >= e.content.rev

(* For a user with one subscription: when Stripe falls silent, whatever the *)
(* order the deliveries were handled in, the row ends up, and stays, equal  *)
(* to what Stripe holds (a status the program supports).                    *)
RowMirrors(s) == row.sub = s /\ row.content = stripe[s]

EventuallyMirrors ==
    \A s \in Subs :
        <>[](/\ mapped
             /\ stripe[s].rev > 0
             /\ stripe[s].status \in SupportedStatuses
             => RowMirrors(s))

===========================================================================
