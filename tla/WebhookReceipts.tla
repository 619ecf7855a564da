-------------------------- MODULE WebhookReceipts --------------------------
(***************************************************************************)
(* Handling one user's Stripe events exactly long enough: the durable      *)
(* receipts (merge_stripe_event_receipt, migration 011) and the dispatcher *)
(* that claims an event, syncs the billing row, repairs the user's storage *)
(* and records the outcome (billingWebhookDispatcher.js).                  *)
(*                                                                         *)
(* An event may be delivered to several invocations at once and again      *)
(* until one answers 200.  Every remote call is a step; it may fail, its   *)
(* reply may be lost after it took effect, and the invocation may die.     *)
(*                                                                         *)
(* The user has one subscription here, none of whose states is terminal    *)
(* (BillingSync has those).  Its i-th change is revision i, announced by   *)
(* event i.  Several changes may share a second.  storage is the revision  *)
(* the user's jobs were last locked or restored for.  An event id has one  *)
(* envelope at Stripe, so the envelope checks never fire and are left out; *)
(* so are the paths of events that name no subscription, which record      *)
(* "processed" and touch neither the row nor the storage.                  *)
(***************************************************************************)
EXTENDS Integers, Sequences

CONSTANTS
    Workers,       \* concurrent server invocations
    StatusKinds,   \* which of "supported", "unsupported" Stripe reports
    MaxEvents,     \* bound: changes Stripe makes
    MaxFailures    \* bound: remote calls that fail, replies lost, crashes

ASSUME KindsAssumption == StatusKinds \subseteq {"supported", "unsupported"}
ASSUME BoundAssumption == {MaxEvents, MaxFailures} \subseteq Nat

VARIABLES
    emitted,   \* Stripe's changes, each with the second of event.created
    receipt,   \* [EventIds -> result stored in stripe_event_receipts]
    lapsed,    \* claims (processing receipts) older than five minutes
    acked,     \* events Stripe got a 200 for: it delivers them no more
    row,       \* the billing row: last_stripe_event_created and revision
    storage,   \* the revision the user's storage was last repaired for
    job,       \* [Workers -> job]
    failures   \* failures so far

vars == <<emitted, receipt, lapsed, acked, row, storage, job, failures>>

EventIds == 1..MaxEvents
Revisions == 0..MaxEvents
Events == 1..Len(emitted)

Settled == {"processed", "stale_ignored"}
Results == Settled \cup {"processing", "failed"}

(* Two kinds of error: inside the try block the receipt is marked failed.   *)
BeforeClaim == {"preRead", "claim"}
InTry == {"fetch", "write", "repairRead", "repair", "record"}
Steps == BeforeClaim \cup InTry \cup {"idle", "recordFailed", "respond"}

Job == [pc: Steps, event: Revisions, rev: Revisions, seen: Revisions,
        result: Settled]

Idle == [pc |-> "idle", event |-> 0, rev |-> 0, seen |-> 0,
         result |-> "processed"]

---------------------------------------------------------------------------
(* merge_stripe_event_receipt *)

(* Mutant: a later result always wins. *)
MergeOutcomeLastWins(old, isLapsed, new) ==
    CASE old = "absent" -> "recorded"
      [] old = new /\ new = "processing" /\ ~isLapsed -> "processing_active"
      [] OTHER -> "updated"

(* Mutant: a claim never lapses. *)
MergeOutcomeNoReclaim(old, isLapsed, new) ==
    CASE old = "absent" -> "recorded"
      [] old \in Settled /\ new # old -> "preserved_existing"
      [] old = new /\ new = "processing" -> "processing_active"
      [] old = new /\ new # "processing" -> "already_recorded"
      [] OTHER -> "updated"

MergeOutcome(old, isLapsed, new) ==
    CASE old = "absent" -> "recorded"
      [] old \in Settled /\ new # old -> "preserved_existing"
      [] old = new /\ new = "processing" /\ isLapsed -> "reclaimed_processing"
      [] old = new /\ new = "processing" /\ ~isLapsed -> "processing_active"
      [] old = new /\ new # "processing" -> "already_recorded"
      [] OTHER -> "updated"

OutcomeOf(e, new) == MergeOutcome(receipt[e], e \in lapsed, new)

(* Mutant: processed_at is set when the receipt is inserted and never again. *)
MergeReceiptKeepsTime(e, new) ==
    /\ receipt' = IF OutcomeOf(e, new) \in {"recorded", "updated"}
                  THEN [receipt EXCEPT ![e] = new] ELSE receipt
    /\ UNCHANGED lapsed

(* A write sets the result and processed_at, the time of the claim. *)
MergeReceipt(e, new) ==
    IF OutcomeOf(e, new) \in {"recorded", "reclaimed_processing", "updated"}
    THEN /\ receipt' = [receipt EXCEPT ![e] = new]
         /\ lapsed' = lapsed \ {e}
    ELSE UNCHANGED <<receipt, lapsed>>

---------------------------------------------------------------------------
(* Stripe and the clock (external) *)

StripeChange ==
    /\ Len(emitted) < MaxEvents
    /\ \E kind \in StatusKinds, gap \in {0, 1} :
         LET last == IF emitted = <<>> THEN 1 ELSE emitted[Len(emitted)].created
         IN  emitted' = Append(emitted, [created |-> last + gap, status |-> kind])
    /\ UNCHANGED <<receipt, lapsed, acked, row, storage, job, failures>>

(* Five minutes have passed since event e was claimed. *)
ClaimLapses(e) ==
    /\ receipt[e] = "processing"
    /\ e \notin lapsed
    /\ lapsed' = lapsed \cup {e}
    /\ UNCHANGED <<emitted, receipt, acked, row, storage, job, failures>>

---------------------------------------------------------------------------
(* Failures *)

SetJob(w, j) == job' = [job EXCEPT ![w] = j]
At(w, pc) == [job[w] EXCEPT !.pc = pc]

(* Where the exception is caught: recordFailedReceiptBestEffort, or nowhere. *)
Thrown(w) == IF job[w].pc \in InTry THEN At(w, "recordFailed") ELSE Idle

Failing == failures < MaxFailures /\ failures' = failures + 1

(* The call took effect; its reply arrives and the job goes on as j, or not. *)
Reply(w, j) ==
    \/ SetJob(w, j) /\ UNCHANGED failures
    \/ SetJob(w, Thrown(w)) /\ Failing

(* The next call fails without effect. *)
CallFails(w) ==
    /\ job[w].pc # "idle"
    /\ Failing
    /\ SetJob(w, Thrown(w))
    /\ UNCHANGED <<emitted, receipt, lapsed, acked, row, storage>>

(* The invocation dies between two calls. *)
Crash(w) ==
    /\ job[w].pc # "idle"
    /\ Failing
    /\ SetJob(w, Idle)
    /\ UNCHANGED <<emitted, receipt, lapsed, acked, row, storage>>

---------------------------------------------------------------------------
(* processBillingWebhookEvent *)

Deliver(w, e) ==
    /\ job[w].pc = "idle"
    /\ e \in Events \ acked
    /\ SetJob(w, [Idle EXCEPT !.pc = "preRead", !.event = e])
    /\ UNCHANGED <<emitted, receipt, lapsed, acked, row, storage, failures>>

(* getStripeEventReceiptForEvent: a settled receipt answers the duplicate.  *)
PreRead(w) ==
    /\ job[w].pc = "preRead"
    /\ SetJob(w, At(w, IF receipt[job[w].event] \in Settled THEN "respond" ELSE "claim"))
    /\ UNCHANGED <<emitted, receipt, lapsed, acked, row, storage, failures>>

(* claimStripeEventReceiptProcessing: processing_active throws. *)
Claim(w) ==
    LET e == job[w].event
        outcome == OutcomeOf(e, "processing")
    IN
    /\ job[w].pc = "claim"
    /\ MergeReceipt(e, "processing")
    /\ Reply(w, CASE outcome = "processing_active"  -> Idle
                  [] outcome = "preserved_existing" -> At(w, "respond")
                  [] OTHER -> At(w, "fetch"))
    /\ UNCHANGED <<emitted, acked, row, storage>>

(* syncSubscriptionFromEvent retrieves the subscription from Stripe ...     *)
Fetch(w) ==
    /\ job[w].pc = "fetch"
    /\ SetJob(w, [At(w, "write") EXCEPT !.rev = Len(emitted)])
    /\ UNCHANGED <<emitted, receipt, lapsed, acked, row, storage, failures>>

(* ... and what it and the event RPC then decide, at that moment.  The      *)
(* guarded reconcile of a conflict re-fetches.                              *)
WriteOutcome(created, rev) ==
    CASE emitted[rev].status = "unsupported"   -> "unsupported_status_ignored"
      [] emitted[rev].status = "supported" /\ created < row.ts -> "stale_ignored"
      [] emitted[rev].status = "supported" /\ created > row.ts -> "applied"
      [] emitted[rev].status = "supported" /\ created = row.ts /\ rev = row.rev
            -> "idempotent_equal"
      [] OTHER -> "equal_timestamp_conflict"

(* Mutant: only a delivery that wrote the row repairs the storage. *)
RepairsStorageIfWritten(outcome) == outcome = "applied"

(* getProcessedBillingUserId: the outcome is PROCESSED and names the user. *)
RepairsStorage(outcome) == outcome \in {"applied", "idempotent_equal"}

AfterWrite(w, outcome) ==
    [At(w, IF RepairsStorage(outcome) THEN "repairRead" ELSE "record")
       EXCEPT !.result = IF outcome = "stale_ignored" THEN "stale_ignored"
                                                      ELSE "processed"]

Write(w) ==
    LET j == job[w]
        created == emitted[j.event].created
        outcome == WriteOutcome(created, j.rev)
    IN
    /\ j.pc = "write"
    /\ outcome # "equal_timestamp_conflict"
    /\ row' = IF outcome = "applied" THEN [ts |-> created, rev |-> j.rev] ELSE row
    /\ Reply(w, AfterWrite(w, outcome))
    /\ UNCHANGED <<emitted, receipt, lapsed, acked, storage>>

(* reconcileSubscriptionEventConflict: a guarded refresh, which throws when *)
(* the status is no longer supported.                                       *)
Reconcile(w) ==
    LET j == job[w] IN
    /\ j.pc = "write"
    /\ WriteOutcome(emitted[j.event].created, j.rev) = "equal_timestamp_conflict"
    /\ IF emitted[Len(emitted)].status = "supported"
       THEN /\ row' = [row EXCEPT !.rev = Len(emitted)]
            /\ Reply(w, AfterWrite(w, "applied"))
       ELSE SetJob(w, Thrown(w)) /\ UNCHANGED <<row, failures>>
    /\ UNCHANGED <<emitted, receipt, lapsed, acked, storage>>

(* repairStorageTransitionsAfterBillingDispatch: reads the billing row ...  *)
RepairRead(w) ==
    /\ job[w].pc = "repairRead"
    /\ SetJob(w, [At(w, "repair") EXCEPT !.seen = row.rev])
    /\ UNCHANGED <<emitted, receipt, lapsed, acked, row, storage, failures>>

(* ... and locks or restores.  The RPCs classify the row again: when it has *)
(* moved they act for the new row, or refuse because the class differs.     *)
Repair(w) ==
    /\ job[w].pc = "repair"
    /\ storage' \in IF row.rev = job[w].seen THEN {row.rev} ELSE {row.rev, storage}
    /\ Reply(w, At(w, "record"))
    /\ UNCHANGED <<emitted, receipt, lapsed, acked, row>>

(* recordStripeEventReceipt *)
Record(w) ==
    /\ job[w].pc = "record"
    /\ MergeReceipt(job[w].event, job[w].result)
    /\ Reply(w, At(w, "respond"))
    /\ UNCHANGED <<emitted, acked, row, storage>>

(* recordFailedReceiptBestEffort, then the error is rethrown: a 500. *)
RecordFailed(w) ==
    /\ job[w].pc = "recordFailed"
    /\ MergeReceipt(job[w].event, "failed")
    /\ SetJob(w, Idle)
    /\ UNCHANGED <<emitted, acked, row, storage, failures>>

(* 200, to a first delivery or a duplicate. *)
Respond(w) ==
    /\ job[w].pc = "respond"
    /\ acked' = acked \cup {job[w].event}
    /\ SetJob(w, Idle)
    /\ UNCHANGED <<emitted, receipt, lapsed, row, storage, failures>>

---------------------------------------------------------------------------
(* Specification *)

Init ==
    /\ emitted = <<>>
    /\ receipt = [e \in EventIds |-> "absent"]
    /\ lapsed = {}
    /\ acked = {}
    /\ row = [ts |-> 0, rev |-> 0]
    /\ storage = 0
    /\ job = [w \in Workers |-> Idle]
    /\ failures = 0

WorkerStep(w) ==
    \/ PreRead(w)
    \/ Claim(w)
    \/ Fetch(w)
    \/ Write(w)
    \/ Reconcile(w)
    \/ RepairRead(w)
    \/ Repair(w)
    \/ Record(w)
    \/ RecordFailed(w)
    \/ Respond(w)

Next ==
    \/ StripeChange
    \/ \E e \in EventIds : ClaimLapses(e)
    \/ \E w \in Workers :
         \/ \E e \in EventIds : Deliver(w, e)
         \/ WorkerStep(w)
         \/ CallFails(w)
         \/ Crash(w)

Spec == Init /\ [][Next]_vars

(* An invocation runs on, time passes, and Stripe keeps redelivering every  *)
(* event it has no 200 for.                                                 *)
Fairness ==
    /\ \A w \in Workers : WF_vars(WorkerStep(w))
    /\ \A e \in EventIds : /\ WF_vars(ClaimLapses(e))
                           /\ SF_vars(\E w \in Workers : Deliver(w, e))

FairSpec == Spec /\ Fairness

---------------------------------------------------------------------------
(* Properties *)

(* Types; only a claim lapses. *)
TypeOK ==
    /\ emitted \in Seq([created: Nat, status: StatusKinds])
    /\ Len(emitted) <= MaxEvents
    /\ receipt \in [EventIds -> Results \cup {"absent"}]
    /\ lapsed \subseteq {e \in EventIds : receipt[e] = "processing"}
    /\ acked \subseteq Events
    /\ row \in [ts: Nat, rev: Revisions]
    /\ storage \in Revisions
    /\ job \in [Workers -> Job]
    /\ failures \in 0..MaxFailures

(* What Stripe was told is handled stays handled: no late failure of an     *)
(* invocation whose claim was reclaimed reopens an acknowledged event.      *)
AcknowledgedIsSettled == \A e \in acked : receipt[e] \in Settled

(* Storage repair cannot be missed: while the user's storage has not been   *)
(* brought in line with the billing row some event is still unsettled, so   *)
(* Stripe will deliver it again, whatever failed or died in between.        *)
(* billingWebhookDispatcher.js:282-283: "storage transitions run before the *)
(* receipt is marked processed.  Failures then retry through Stripe safely" *)
MissedRepairIsRetried ==
    storage # row.rev => \E e \in Events : receipt[e] \notin Settled

(* The same while every status Stripe has reported is supported.            *)
SupportedRepairIsRetried ==
    (\A e \in Events : emitted[e].status = "supported") => MissedRepairIsRetried

(* Every event Stripe emits is in the end acknowledged: no failure, crash   *)
(* or abandoned claim leaves one undeliverable.                             *)
EventuallyAcknowledged == <>[](acked = Events)

===========================================================================
