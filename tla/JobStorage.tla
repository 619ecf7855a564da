----------------------------- MODULE JobStorage -----------------------------
(***************************************************************************)
(* One user's stored jobs under the plan's limits.  Free keeps FreeLimit   *)
(* jobs active; a downgrade locks the rest, which a return to Premium      *)
(* restores; RetainedLimit bounds what is kept in all.                     *)
(*                                                                         *)
(* Every request first resolves the storage status from the billing row    *)
(* and repairs the storage to match (storageTransitionService.js), then    *)
(* does its work with the status it read, which may be stale by then.  The *)
(* SQL functions of migrations 018, 020 and 028 classify the billing row   *)
(* again.  Each holds the billing/storage advisory lock, which billing     *)
(* writes take too, and the jobs quota lock until it commits, so each is   *)
(* one step; reading and writing a single job are steps of their own.      *)
(***************************************************************************)
EXTENDS StorageClassification, FiniteSets

CONSTANTS
    Workers,         \* concurrent requests and webhook deliveries
    FreeLimit,       \* FREE_ACTIVE_JOB_LIMIT
    RetainedLimit,   \* ABSOLUTE_RETAINED_JOB_LIMIT
    BillingRows,     \* what the billing tables may say of the user
    Now,             \* the clock; that a period ends is a change of the row
    Priorities,      \* offered, interviewing, applied and other are 0..3
    MaxJobs,         \* bound: jobs ever created
    MaxChanges,      \* bound: changes of the billing row
    MaxFailures      \* bound: calls that fail, replies lost, crashes

ASSUME LimitAssumption == /\ {FreeLimit, RetainedLimit} \subseteq Nat \ {0}
                          /\ FreeLimit <= RetainedLimit
ASSUME RowAssumption == BillingRows \subseteq BillingRow /\ Now \in Int /\ Priorities \subseteq 0..3
ASSUME BoundAssumption == {MaxJobs, MaxChanges, MaxFailures} \subseteq Nat

VARIABLES
    billing,    \* the billing rows of the user
    rows,       \* [JobIds -> row of public.jobs]; an older job has a lower id
    job,        \* [Workers -> request]
    changes,    \* changes of the billing row so far
    failures    \* failures so far

vars == <<billing, rows, job, changes, failures>>

JobIds == 1..MaxJobs
Row == [state: {"unborn", "active", "locked", "deleted"}, priority: 0..3]

InState(s) == {j \in JobIds : rows[j].state = s}
Active == InState("active")
Locked == InState("locked")
Retained == Active \cup Locked

Repairs == {"reconcile", "lock", "restore"}
Request == [pc: {"idle", "resolve", "operate", "write"} \cup Repairs,
            op: {"read", "create", "update", "delete", "bulkDelete"},
            seen: StorageStatuses,
            ahead: SUBSET Repairs,
            target: 0..MaxJobs, observed: {"active", "locked"}]

Idle == [pc |-> "idle", op |-> "read", seen |-> "billing_unavailable",
         ahead |-> {}, target |-> 0, observed |-> "active"]

(* What a request makes of the billing rows, and what a storage function     *)
(* makes of them once it holds the lock.                                     *)
Status == ServerStatus(billing, Now)
Canonical == DatabaseStatus(billing, Now)

(* status priority, then created_at DESC, id DESC *)
Outranks(j, k) == \/ rows[j].priority < rows[k].priority
                  \/ rows[j].priority = rows[k].priority /\ j > k

Best(n, S) == {j \in S : Cardinality({k \in S : Outranks(k, j)}) < n}

Deleted == [state |-> "deleted", priority |-> 0]

SetState(S, s) == [j \in JobIds |-> IF j \in S THEN [rows[j] EXCEPT !.state = s]
                                               ELSE rows[j]]

---------------------------------------------------------------------------
(* The billing row changes; a call fails, a reply is lost, a request dies *)

BillingChange ==
    /\ changes < MaxChanges
    /\ changes' = changes + 1
    /\ \E row \in BillingRows \ {billing} : billing' = row
    /\ UNCHANGED <<rows, job, failures>>

SetJob(w, r) == job' = [job EXCEPT ![w] = r]

Failing == failures < MaxFailures /\ failures' = failures + 1

(* The call took effect; its reply arrives or the request ends in an error. *)
Reply(w, r) ==
    \/ SetJob(w, r) /\ UNCHANGED failures
    \/ SetJob(w, Idle) /\ Failing

(* The next call fails without effect and ends the request, or it dies.     *)
CallFails(w) ==
    /\ job[w].pc # "idle"
    /\ Failing
    /\ SetJob(w, Idle)
    /\ UNCHANGED <<billing, rows, changes>>

---------------------------------------------------------------------------
(* reconcileStorageTransitionsForUser *)

(* A read is GET /api/jobs, the storage status, or a webhook's repair.      *)
Begin(w, op) ==
    /\ job[w].pc = "idle"
    /\ SetJob(w, [Idle EXCEPT !.pc = "resolve", !.op = op,
                              !.ahead = IF op = "bulkDelete" THEN {} ELSE Repairs])
    /\ UNCHANGED <<billing, rows, changes, failures>>

(* Mutant: every active subscription counts as Premium. *)
RepairForAnyPrice(status) ==
    CASE status = "billing_reconciliation_pending" -> "reconcile"
      [] status = "terminal_free" -> "lock"
      [] status \in Premium \cup {"non_entitled_non_terminal"} -> "restore"
      [] OTHER -> "none"

RepairFor(status) ==
    CASE status = "billing_reconciliation_pending" -> "reconcile"
      [] status = "terminal_free" -> "lock"
      [] status \in Premium -> "restore"
      [] OTHER -> "none"

(* The repairs are done: a request that only reads is, too.                 *)
Repaired(w, status) ==
    IF job[w].op = "read" THEN Idle
    ELSE [Idle EXCEPT !.pc = "operate", !.op = job[w].op, !.seen = status]

(* The request has seen a status; the repairs in ahead may still be run.    *)
Proceed(w, status) ==
    IF RepairFor(status) \in job[w].ahead
    THEN [job[w] EXCEPT !.pc = RepairFor(status), !.seen = status]
    ELSE Repaired(w, status)

(* resolveStorageStatusPrivileged: a failed read is a status of its own.    *)
Resolve(w) ==
    /\ job[w].pc = "resolve"
    /\ \/ SetJob(w, Proceed(w, Status)) /\ UNCHANGED failures
       \/ SetJob(w, Proceed(w, "billing_unavailable")) /\ Failing
    /\ UNCHANGED <<billing, rows, changes>>

ResolveAgain(w, ahead) ==
    [Idle EXCEPT !.pc = "resolve", !.op = job[w].op, !.ahead = ahead]

(* reconcilePendingBillingStatus writes what Stripe says, unless the row has *)
(* moved since it was read; an error leaves the status as it was seen.       *)
Reconcile(w) ==
    LET ahead == job[w].ahead \ {"reconcile"} IN
    /\ job[w].pc = "reconcile"
    /\ \/ /\ IF Status = job[w].seen
             THEN \E row \in BillingRows : billing' = row
             ELSE UNCHANGED billing
          /\ SetJob(w, ResolveAgain(w, ahead))
          /\ UNCHANGED failures
       \/ /\ Failing
          /\ SetJob(w, Repaired(w, job[w].seen))
          /\ UNCHANGED billing
    /\ UNCHANGED <<rows, changes>>

LockEligible(seen) == Canonical = seen

(* lock_overflow_jobs_for_terminal_free_user *)
Lock(w) ==
    LET ahead == job[w].ahead \ {"reconcile", "lock"} IN
    /\ job[w].pc = "lock"
    /\ IF LockEligible(job[w].seen)
       THEN /\ rows' = SetState(Active \ Best(FreeLimit, Active), "locked")
            /\ Reply(w, Repaired(w, job[w].seen))
       ELSE /\ Reply(w, ResolveAgain(w, ahead))
            /\ UNCHANGED rows
    /\ UNCHANGED <<billing, changes>>

(* Mutant: one slot is lost. *)
RestoreSlotsShort == LET free == RetainedLimit - Cardinality(Active)
                     IN  IF free > 1 THEN free - 1 ELSE 0

RestoreSlots == LET free == RetainedLimit - Cardinality(Active)
                IN  IF free > 0 THEN free ELSE 0

(* Mutant: an active subscription is Premium, whatever its price. *)
MayRestoreAnyPrice == Canonical \in Premium

MayRestore == Canonical \in Premium /\ billing.price \in Allowlist

(* restore_locked_jobs_for_premium_user (028), which checks the price too.   *)
(* A refusal means the status was stale: one more downgrade pass.            *)
Restore(w) ==
    /\ job[w].pc = "restore"
    /\ IF MayRestore
       THEN /\ rows' = SetState(Best(RestoreSlots, Locked), "active")
            /\ Reply(w, Repaired(w, job[w].seen))
       ELSE /\ Reply(w, ResolveAgain(w, {"reconcile", "lock"}))
            /\ UNCHANGED rows
    /\ UNCHANGED <<billing, changes>>

---------------------------------------------------------------------------
(* What the request came for, with the status it has seen *)

Operating(w, op) == job[w].pc = "operate" /\ job[w].op = op

ActiveLimit(status) == IF status = "terminal_free" THEN FreeLimit ELSE RetainedLimit

(* Mutant: the create function trusts the caller's status. *)
MayCreateTrusting(seen) ==
    /\ seen \in Premium \cup {"terminal_free"}
    /\ Cardinality(Active) < ActiveLimit(seen)
    /\ Cardinality(Retained) < RetainedLimit

MayCreate(seen) ==
    /\ seen \in Premium \cup {"terminal_free"}
    /\ Canonical = seen
    /\ Cardinality(Active) < ActiveLimit(seen)
    /\ Cardinality(Retained) < RetainedLimit

NextId == CHOOSE j \in InState("unborn") : \A k \in InState("unborn") : j <= k

(* createJob and create_job_with_storage_quota *)
Create(w) ==
    /\ Operating(w, "create")
    /\ IF MayCreate(job[w].seen)
       THEN /\ InState("unborn") # {}
            /\ \E p \in Priorities :
                 rows' = [rows EXCEPT ![NextId] = [state |-> "active", priority |-> p]]
       ELSE UNCHANGED rows
    /\ Reply(w, Idle)
    /\ UNCHANGED <<billing, changes>>

(* Premium sees locked rows in full; a Free user may delete one, no more.   *)
MayAccess(op, state, seen) ==
    \/ state = "active"
    \/ seen \in Premium
    \/ op = "delete" /\ seen = "terminal_free"

(* getJobStorageAccessRecord, and the decision made on it. *)
Access(w) ==
    /\ job[w].pc = "operate" /\ job[w].op \in {"update", "delete"}
    /\ \/ \E j \in Retained :
            /\ MayAccess(job[w].op, rows[j].state, job[w].seen)
            /\ SetJob(w, [job[w] EXCEPT !.pc = "write", !.target = j,
                                        !.observed = rows[j].state])
       \/ SetJob(w, Idle)
    /\ UNCHANGED <<billing, rows, changes, failures>>

(* Mutant: the row is found by its id alone. *)
HitsAnyState(r) == r.target \in Retained

(* Only while the row is in the state observed.                             *)
Hits(r) == rows[r.target].state = r.observed

(* updateJob, deleteJob *)
WriteJob(w) ==
    LET r == job[w] IN
    /\ r.pc = "write"
    /\ CASE Hits(r) /\ r.op = "update" ->
              \E p \in Priorities : rows' = [rows EXCEPT ![r.target].priority = p]
         [] Hits(r) /\ r.op = "delete" -> rows' = [rows EXCEPT ![r.target] = Deleted]
         [] OTHER -> UNCHANGED rows
    /\ Reply(w, Idle)
    /\ UNCHANGED <<billing, changes>>

(* Mutant: the delete function trusts the caller's status. *)
MayBulkDeleteTrusting(seen) == seen = "terminal_free"

MayBulkDelete(seen) == seen = "terminal_free" /\ Canonical = seen

(* deleteLockedJobsForTerminalFreeUser calls the delete function until no    *)
(* locked row is left; a call deletes the LOCKED_BULK_DELETE_ROW_LIMIT oldest. *)
(* The service gives up after ten calls; here there are never so many rows.  *)
BulkDelete(w) ==
    LET oldest == {j \in Locked :
                     Cardinality({k \in Locked : k < j}) < RetainedLimit - FreeLimit}
    IN
    /\ Operating(w, "bulkDelete")
    /\ IF MayBulkDelete(job[w].seen)
       THEN /\ rows' = [j \in JobIds |-> IF j \in oldest THEN Deleted ELSE rows[j]]
            /\ Reply(w, IF oldest \in {{}, Locked} THEN Idle ELSE job[w])
       ELSE SetJob(w, Idle) /\ UNCHANGED <<rows, failures>>
    /\ UNCHANGED <<billing, changes>>

---------------------------------------------------------------------------
(* Specification *)

(* Jobs from before there was any limit are all active, however many.       *)
Init ==
    /\ billing \in BillingRows
    /\ \E n \in 0..MaxJobs :
         \E p \in [1..n -> Priorities] :
            rows = [j \in JobIds |->
                      IF j <= n THEN [state |-> "active", priority |-> p[j]]
                      ELSE [state |-> "unborn", priority |-> 0]]
    /\ job = [w \in Workers |-> Idle]
    /\ changes = 0
    /\ failures = 0

WorkerStep(w) ==
    \/ Resolve(w)
    \/ Reconcile(w)
    \/ Lock(w)
    \/ Restore(w)
    \/ Create(w)
    \/ Access(w)
    \/ WriteJob(w)
    \/ BulkDelete(w)

Next ==
    \/ BillingChange
    \/ \E w \in Workers :
         \/ \E op \in {"read", "create", "update", "delete", "bulkDelete"} : Begin(w, op)
         \/ WorkerStep(w)
         \/ CallFails(w)

Spec == Init /\ [][Next]_vars

(* Requests run on, and the user keeps opening the dashboard.               *)
Fairness ==
    /\ \A w \in Workers : WF_vars(WorkerStep(w))
    /\ SF_vars(\E w \in Workers : Begin(w, "read"))

FairSpec == Spec /\ Fairness

---------------------------------------------------------------------------
(* Properties *)

(* Types; a repair is run only for the status it is meant for, and a job is *)
(* written only where one was found.                                        *)
TypeOK ==
    /\ billing \in BillingRows
    /\ rows \in [JobIds -> Row]
    /\ job \in [Workers -> Request]
    /\ \A w \in Workers :
         /\ job[w].pc = "reconcile" => job[w].seen = "billing_reconciliation_pending"
         /\ job[w].pc = "lock" => job[w].seen = "terminal_free"
         /\ job[w].pc = "restore" => job[w].seen \in Premium
         /\ job[w].pc = "write" => rows[job[w].target].state # "unborn"
    /\ changes \in 0..MaxChanges
    /\ failures \in 0..MaxFailures

(* However stale the status a request carries, no step takes the user past  *)
(* a limit of the plan the billing row gives at that moment: active jobs    *)
(* are added up to its active limit, and jobs are added up to the retained  *)
(* limit.  Migration 018: "preventing stale Premium or Free creates".  What *)
(* is restored is Premium for the server too, which knows the price list    *)
(* (getEntitledPriceIdsForRestore: "instead of trusting active status       *)
(* alone").                                                                 *)
GrowthWithinPlan ==
    [][ /\ Cardinality(Active') > Cardinality(Active) =>
             /\ Canonical \in Premium \cup {"terminal_free"}
             /\ Cardinality(Active') <= ActiveLimit(Canonical)
        /\ Cardinality(Retained') > Cardinality(Retained) =>
             Cardinality(Retained') <= RetainedLimit
        /\ Locked \cap Active' # {} => Status \in Premium ]_vars

(* A job is locked only while the billing row is terminal Free, and then    *)
(* exactly the FreeLimit best jobs stay: migration 018, "preserve exactly   *)
(* the Free active-job allowance after a confirmed terminal downgrade".     *)
LocksOnlyOverflow ==
    [][ Active \cap Locked' # {} =>
          /\ Status = "terminal_free"
          /\ Cardinality(Active') = FreeLimit
          /\ \A kept \in Active', lost \in Locked' \ Locked : Outranks(kept, lost) ]_vars

(* A job is lost only by the user's own request for that job as it was seen *)
(* (active or archived), or as part of the locked archive of a user who is  *)
(* terminal Free at that moment: a bulk delete confirmed before a return to *)
(* Premium takes nothing afterwards.                                        *)
NothingLostUnasked ==
    [][ \A j \in Retained \ Retained' :
          \/ \E w \in Workers : /\ job[w].pc = "write"
                                /\ job[w].op = "delete"
                                /\ job[w].target = j
                                /\ job[w].observed = rows[j].state
          \/ j \in Locked /\ Status = "terminal_free" ]_vars

(* A request that was allowed to change a job while it was active does not  *)
(* change it after another request has locked it, unless its status allows  *)
(* that as well (getLockedJobAccessError, getLockedJobDeleteError).         *)
WritesAsAllowed ==
    [][ \A w \in Workers :
          LET r == job[w]
              t == r.target
          IN  r.pc = "write" /\ job'[w] # r /\ rows'[t] # rows[t] =>
                MayAccess(r.op, rows[t].state, r.seen) ]_vars

(* Storage follows billing: once the billing row stays on one plan, a Free  *)
(* user ends up within the Free limit and a Premium user with nothing       *)
(* locked that there is room for, whatever was missed or failed before.     *)
StorageFollowsBilling ==
    /\ <>[](Status = "terminal_free") => <>[](Cardinality(Active) <= FreeLimit)
    /\ <>[](Status \in Premium) =>
         <>[](Locked = {} \/ Cardinality(Active) >= RetainedLimit)

=============================================================================
