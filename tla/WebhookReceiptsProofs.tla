----------------------- MODULE WebhookReceiptsProofs -----------------------
(***************************************************************************)
(* Proofs about WebhookReceipts, for any number of invocations, events and *)
(* failures.  The argument for AcknowledgedIsSettled: a settled receipt is *)
(* never written again (SettledStays), and an invocation answers 200 only  *)
(* after it has read or left a settled receipt (RespondsWhenSettled).      *)
(***************************************************************************)
EXTENDS WebhookReceipts, SequenceTheorems, TLAPS

(* An invocation at work has an event Stripe did emit. *)
JobsHaveEvents == \A w \in Workers : job[w].pc # "idle" => job[w].event \in Events

(* An invocation that is to answer 200 finds its event's receipt settled.   *)
RespondsWhenSettled ==
    \A w \in Workers : job[w].pc = "respond" => receipt[job[w].event] \in Settled

RInv == TypeOK /\ JobsHaveEvents /\ RespondsWhenSettled /\ AcknowledgedIsSettled

---------------------------------------------------------------------------
(* merge_stripe_event_receipt: what one write leaves behind.  The result    *)
(* stored is a legal one, a settled receipt keeps its result whatever is    *)
(* recorded later, and recording a settled result leaves a settled receipt. *)
LEMMA SettledStays ==
    ASSUME TypeOK, NEW e \in EventIds, NEW new \in Results, MergeReceipt(e, new)
    PROVE  /\ receipt' \in [EventIds -> Results \cup {"absent"}]
           /\ lapsed' \subseteq {i \in EventIds : receipt'[i] = "processing"}
           /\ \A i \in EventIds : receipt[i] \in Settled => receipt'[i] \in Settled
           /\ new \in Settled => receipt'[e] \in Settled
           /\ OutcomeOf(e, new) = "preserved_existing" => receipt'[e] \in Settled
<1>1. receipt \in [EventIds -> Results \cup {"absent"}]
  BY DEF TypeOK
<1>2. lapsed \subseteq {i \in EventIds : receipt[i] = "processing"}
  BY DEF TypeOK
<1>3. receipt[e] \in Settled => OutcomeOf(e, new) \in {"preserved_existing", "already_recorded"}
  BY DEF OutcomeOf, MergeOutcome, Settled, Results
<1>4. OutcomeOf(e, new) \in {"preserved_existing", "already_recorded"}
        => receipt[e] = new \/ receipt[e] \in Settled
  BY <1>1 DEF OutcomeOf, MergeOutcome, Settled, Results
<1>5. OutcomeOf(e, new) = "preserved_existing" => receipt[e] \in Settled
  BY <1>1 DEF OutcomeOf, MergeOutcome, Settled, Results
<1>6. OutcomeOf(e, new) = "processing_active" => new = "processing"
  BY <1>1 DEF OutcomeOf, MergeOutcome, Settled, Results
<1>7. OutcomeOf(e, new) \in {"recorded", "preserved_existing", "reclaimed_processing",
                             "processing_active", "already_recorded", "updated"}
  BY DEF OutcomeOf, MergeOutcome
<1>8. CASE OutcomeOf(e, new) \in {"recorded", "reclaimed_processing", "updated"}
  <2>1. receipt' = [receipt EXCEPT ![e] = new] /\ lapsed' = lapsed \ {e}
    BY <1>8 DEF MergeReceipt
  <2> QED
    BY <1>1, <1>2, <1>3, <1>8, <2>1 DEF Settled, Results
<1>9. CASE OutcomeOf(e, new) \notin {"recorded", "reclaimed_processing", "updated"}
  <2>1. receipt' = receipt /\ lapsed' = lapsed
    BY <1>9 DEF MergeReceipt
  <2> QED
    BY <1>1, <1>2, <1>4, <1>5, <1>6, <1>7, <1>9, <2>1 DEF Settled, Results
<1> QED
  BY <1>8, <1>9

---------------------------------------------------------------------------
(* One invocation moves to job j, and what j promises holds.                *)

JobOK(j) == /\ j \in Job
            /\ j.pc # "idle" => j.event \in Events'
            /\ j.pc = "respond" => receipt'[j.event] \in Settled

SettledGrow == \A i \in EventIds : receipt[i] \in Settled => receipt'[i] \in Settled

LEMMA EventsAreIds == TypeOK => Events \subseteq EventIds /\ Len(emitted) \in Nat
  BY BoundAssumption DEF TypeOK, Events, EventIds

LEMMA JobMoves ==
    ASSUME RInv, NEW w \in Workers, NEW j, JobOK(j), SetJob(w, j),
           emitted' = emitted, SettledGrow
    PROVE  job' \in [Workers -> Job] /\ JobsHaveEvents' /\ RespondsWhenSettled'
<1>1. job \in [Workers -> Job]
  BY DEF RInv, TypeOK
<1>2. j \in Job /\ job' = [job EXCEPT ![w] = j]
  BY DEF JobOK, SetJob
<1>3. \A v \in Workers : job'[v] = IF v = w THEN j ELSE job[v]
  BY <1>1, <1>2
<1>4. Events' = Events
  BY DEF Events
<1>5. \A v \in Workers : job[v].pc # "idle" => job[v].event \in EventIds
  BY EventsAreIds DEF RInv, JobsHaveEvents
<1>6. JobsHaveEvents'
  BY <1>3, <1>4 DEF RInv, JobsHaveEvents, JobOK
<1>7. ASSUME NEW v \in Workers, job'[v].pc = "respond"
      PROVE  receipt'[job'[v].event] \in Settled
  <2>1. CASE v = w
    BY <1>3, <1>7, <2>1 DEF JobOK
  <2>2. CASE v # w
    <3>1. job'[v] = job[v]
      BY <1>3, <2>2
    <3>2. receipt[job[v].event] \in Settled /\ job[v].event \in EventIds
      BY <1>5, <1>7, <3>1 DEF RInv, RespondsWhenSettled
    <3> QED
      BY <3>1, <3>2 DEF SettledGrow
  <2> QED
    BY <2>1, <2>2
<1> QED
  BY <1>1, <1>2, <1>6, <1>7 DEF RespondsWhenSettled

(* An invocation that has thrown is not about to answer.                    *)
LEMMA ThrownIsOK ==
    ASSUME RInv, NEW w \in Workers, emitted' = emitted
    PROVE  JobOK(Thrown(w)) /\ JobOK(Idle)
<1>1. job[w] \in Job
  BY DEF RInv, TypeOK
<1>2. Idle \in Job /\ Idle.pc = "idle"
  BY BoundAssumption DEF Idle, Job, Steps, Revisions, Settled
<1>3. JobOK(Idle)
  BY <1>2 DEF JobOK
<1>4. CASE job[w].pc \in InTry
  <2>1. Thrown(w) = [job[w] EXCEPT !.pc = "recordFailed"]
    BY <1>4 DEF Thrown, At
  <2>2. Thrown(w) \in Job /\ Thrown(w).pc = "recordFailed" /\ Thrown(w).event = job[w].event
    BY <1>1, <2>1 DEF Job, Steps
  <2>3. job[w].event \in Events'
    BY <1>4 DEF RInv, JobsHaveEvents, InTry, Events
  <2> QED
    BY <1>3, <2>2, <2>3 DEF JobOK
<1>5. CASE job[w].pc \notin InTry
  BY <1>3, <1>5 DEF Thrown
<1> QED
  BY <1>4, <1>5

LEMMA RepliedIsOK ==
    ASSUME RInv, NEW w \in Workers, NEW j, JobOK(j), Reply(w, j),
           emitted' = emitted, SettledGrow
    PROVE  /\ job' \in [Workers -> Job] /\ JobsHaveEvents' /\ RespondsWhenSettled'
           /\ failures' \in 0..MaxFailures
<1>1. failures \in 0..MaxFailures
  BY DEF RInv, TypeOK
<1>2. CASE SetJob(w, j) /\ UNCHANGED failures
  BY <1>1, <1>2, JobMoves
<1>3. CASE SetJob(w, Thrown(w)) /\ Failing
  <2>1. failures' \in 0..MaxFailures
    BY <1>1, <1>3, BoundAssumption DEF Failing
  <2> QED
    BY <1>3, <2>1, JobMoves, ThrownIsOK
<1> QED
  BY <1>2, <1>3 DEF Reply

---------------------------------------------------------------------------
(* Every step preserves RInv *)

(* The parts of TypeOK that most steps leave alone. *)
LEMMA QuietTypes ==
    ASSUME TypeOK, UNCHANGED <<emitted, acked>>,
           receipt' \in [EventIds -> Results \cup {"absent"}],
           lapsed' \subseteq {i \in EventIds : receipt'[i] = "processing"},
           row' \in [ts: Nat, rev: Revisions], storage' \in Revisions,
           job' \in [Workers -> Job], failures' \in 0..MaxFailures
    PROVE  TypeOK'
  BY DEF TypeOK, Events

LEMMA AckedStaysSettled ==
    ASSUME RInv, SettledGrow, acked' = acked
    PROVE  AcknowledgedIsSettled'
<1>1. acked \subseteq EventIds
  BY EventsAreIds DEF RInv, TypeOK
<1> QED
  BY <1>1 DEF RInv, AcknowledgedIsSettled, SettledGrow

(* A job that goes on with the same event, not to answer.                   *)
LEMMA GoesOn ==
    ASSUME RInv, NEW w \in Workers, job[w].pc # "idle", emitted' = emitted,
           NEW j \in Job, j.event = job[w].event, j.pc # "respond"
    PROVE  JobOK(j)
<1>1. job[w].event \in Events'
  BY DEF RInv, JobsHaveEvents, Events
<1> QED
  BY <1>1 DEF JobOK

LEMMA ReadStep ==
    ASSUME RInv, NEW w \in Workers, PreRead(w) \/ Fetch(w) \/ RepairRead(w)
    PROVE  RInv'
<1> USE DEF RInv
<1>1. UNCHANGED <<emitted, receipt, lapsed, acked, row, storage, failures>>
  BY DEF PreRead, Fetch, RepairRead
<1>2. SettledGrow
  BY <1>1 DEF SettledGrow
<1>3. job[w] \in Job /\ Len(emitted) \in Revisions /\ row.rev \in Revisions
  BY EventsAreIds DEF TypeOK, Revisions
<1>4. job' \in [Workers -> Job] /\ JobsHaveEvents' /\ RespondsWhenSettled'
  <2>1. CASE PreRead(w)
    <3> DEFINE j == At(w, IF receipt[job[w].event] \in Settled THEN "respond" ELSE "claim")
    <3>1. SetJob(w, j) /\ job[w].pc = "preRead"
      BY <2>1 DEF PreRead
    <3>2. j \in Job /\ j.event = job[w].event
      BY <1>3 DEF At, Job, Steps, BeforeClaim
    <3>3. job[w].event \in Events'
      BY <1>1, <3>1 DEF JobsHaveEvents, Events
    <3>4. j.pc = "respond" => receipt'[j.event] \in Settled
      BY <1>1, <1>3, <3>2 DEF At, Job
    <3>5. JobOK(j)
      BY <3>2, <3>3, <3>4 DEF JobOK
    <3> QED
      BY <1>1, <1>2, <3>1, <3>5, JobMoves
  <2>2. CASE Fetch(w)
    <3> DEFINE j == [At(w, "write") EXCEPT !.rev = Len(emitted)]
    <3>1. SetJob(w, j) /\ job[w].pc = "fetch"
      BY <2>2 DEF Fetch
    <3>2. j \in Job /\ j.event = job[w].event /\ j.pc = "write"
      BY <1>3 DEF At, Job, Steps, InTry
    <3>3. JobOK(j)
      BY <1>1, <3>1, <3>2, GoesOn
    <3> QED
      BY <1>1, <1>2, <3>1, <3>3, JobMoves
  <2>3. CASE RepairRead(w)
    <3> DEFINE j == [At(w, "repair") EXCEPT !.seen = row.rev]
    <3>1. SetJob(w, j) /\ job[w].pc = "repairRead"
      BY <2>3 DEF RepairRead
    <3>2. j \in Job /\ j.event = job[w].event /\ j.pc = "repair"
      BY <1>3 DEF At, Job, Steps, InTry
    <3>3. JobOK(j)
      BY <1>1, <3>1, <3>2, GoesOn
    <3> QED
      BY <1>1, <1>2, <3>1, <3>3, JobMoves
  <2> QED
    BY <2>1, <2>2, <2>3
<1>5. TypeOK'
  BY <1>1, <1>4, QuietTypes DEF TypeOK
<1>6. AcknowledgedIsSettled'
  BY <1>1, <1>2, AckedStaysSettled
<1> QED
  BY <1>4, <1>5, <1>6

LEMMA ClaimStep == ASSUME RInv, NEW w \in Workers, Claim(w) PROVE RInv'
<1> USE DEF RInv
<1> DEFINE e == job[w].event
           j == CASE OutcomeOf(e, "processing") = "processing_active"  -> Idle
                  [] OutcomeOf(e, "processing") = "preserved_existing" -> At(w, "respond")
                  [] OTHER -> At(w, "fetch")
<1>1. /\ job[w].pc = "claim" /\ MergeReceipt(e, "processing") /\ Reply(w, j)
      /\ UNCHANGED <<emitted, acked, row, storage>>
  BY DEF Claim
<1>2. job[w] \in Job /\ e \in Events /\ e \in EventIds
  BY <1>1, EventsAreIds DEF TypeOK, JobsHaveEvents
<1>3. /\ receipt' \in [EventIds -> Results \cup {"absent"}]
      /\ lapsed' \subseteq {i \in EventIds : receipt'[i] = "processing"}
      /\ SettledGrow
      /\ OutcomeOf(e, "processing") = "preserved_existing" => receipt'[e] \in Settled
  BY <1>1, <1>2, SettledStays DEF Results, SettledGrow
<1>4. JobOK(j)
  <2>1. JobOK(Idle)
    BY <1>1, ThrownIsOK
  <2>2. JobOK(At(w, "fetch"))
    <3>1. At(w, "fetch") \in Job /\ At(w, "fetch").event = e /\ At(w, "fetch").pc = "fetch"
      BY <1>2 DEF At, Job, Steps, InTry
    <3> QED
      BY <1>1, <3>1, GoesOn
  <2>3. ASSUME OutcomeOf(e, "processing") = "preserved_existing" PROVE JobOK(At(w, "respond"))
    <3>1. At(w, "respond") \in Job /\ At(w, "respond").event = e
      BY <1>2 DEF At, Job, Steps
    <3>2. e \in Events'
      BY <1>1, <1>2 DEF Events
    <3> QED
      BY <1>3, <2>3, <3>1, <3>2 DEF JobOK
  <2>4. \/ j = Idle
        \/ OutcomeOf(e, "processing") = "preserved_existing" /\ j = At(w, "respond")
        \/ j = At(w, "fetch")
    OBVIOUS
  <2> QED
    BY <2>1, <2>2, <2>3, <2>4
<1>5. /\ job' \in [Workers -> Job] /\ JobsHaveEvents' /\ RespondsWhenSettled'
      /\ failures' \in 0..MaxFailures
  BY <1>1, <1>3, <1>4, RepliedIsOK
<1>6. TypeOK'
  BY <1>1, <1>3, <1>5, QuietTypes DEF TypeOK
<1>7. AcknowledgedIsSettled'
  BY <1>1, <1>3, AckedStaysSettled
<1> QED
  BY <1>5, <1>6, <1>7

(* What an invocation is after writing the row. *)
LEMMA AfterWriteIsOK ==
    ASSUME RInv, NEW w \in Workers, job[w].pc = "write", emitted' = emitted, NEW outcome
    PROVE  JobOK(AfterWrite(w, outcome))
<1>1. job[w] \in Job
  BY DEF RInv, TypeOK
<1>2. /\ AfterWrite(w, outcome) \in Job
      /\ AfterWrite(w, outcome).event = job[w].event
      /\ AfterWrite(w, outcome).pc \in {"repairRead", "record"}
  BY <1>1 DEF AfterWrite, At, Job, Steps, InTry, Settled
<1> QED
  BY <1>2, GoesOn

LEMMA WriteStep == ASSUME RInv, NEW w \in Workers, Write(w) \/ Reconcile(w) PROVE RInv'
<1> USE DEF RInv
<1>1. job[w].pc = "write" /\ UNCHANGED <<emitted, receipt, lapsed, acked, storage>>
  BY DEF Write, Reconcile
<1>2. SettledGrow
  BY <1>1 DEF SettledGrow
<1>3. job[w] \in Job /\ job[w].event \in Events
  BY <1>1 DEF TypeOK, JobsHaveEvents
<1>4. emitted[job[w].event].created \in Nat /\ Len(emitted) \in Revisions
  <2>1. Len(emitted) \in Revisions
    BY EventsAreIds DEF TypeOK, Revisions
  <2>2. emitted[job[w].event] \in [created: Nat, status: StatusKinds]
    <3>1. emitted \in Seq([created: Nat, status: StatusKinds])
      BY DEF TypeOK
    <3>2. job[w].event \in 1..Len(emitted)
      BY <1>3 DEF Events
    <3> QED
      BY <3>1, <3>2, ElementOfSeq
  <2> QED
    BY <2>1, <2>2
<1>5. job[w].rev \in Revisions
  BY <1>3 DEF Job
<1>6. row' \in [ts: Nat, rev: Revisions]
  <2>1. CASE Write(w)
    <3>1. row' = row \/ row' = [ts |-> emitted[job[w].event].created, rev |-> job[w].rev]
      BY <2>1 DEF Write
    <3> QED
      BY <1>4, <1>5, <3>1 DEF TypeOK
  <2>2. CASE Reconcile(w)
    <3>1. row' = row \/ row' = [row EXCEPT !.rev = Len(emitted)]
      BY <2>2 DEF Reconcile
    <3> QED
      BY <1>4, <3>1 DEF TypeOK
  <2> QED
    BY <2>1, <2>2
<1>7. \/ \E outcome : Reply(w, AfterWrite(w, outcome))
      \/ SetJob(w, Thrown(w)) /\ UNCHANGED failures
  BY DEF Write, Reconcile
<1>8. /\ job' \in [Workers -> Job] /\ JobsHaveEvents' /\ RespondsWhenSettled'
      /\ failures' \in 0..MaxFailures
  <2>1. CASE \E outcome : Reply(w, AfterWrite(w, outcome))
    <3>1. PICK outcome : Reply(w, AfterWrite(w, outcome))
      BY <2>1
    <3> QED
      BY <1>1, <1>2, <3>1, AfterWriteIsOK, RepliedIsOK
  <2>2. CASE SetJob(w, Thrown(w)) /\ UNCHANGED failures
    BY <1>1, <1>2, <2>2, ThrownIsOK, JobMoves DEF TypeOK
  <2> QED
    BY <1>7, <2>1, <2>2
<1>9. TypeOK'
  BY <1>1, <1>6, <1>8, QuietTypes DEF TypeOK
<1>10. AcknowledgedIsSettled'
  BY <1>1, <1>2, AckedStaysSettled
<1> QED
  BY <1>8, <1>9, <1>10

LEMMA RepairStep == ASSUME RInv, NEW w \in Workers, Repair(w) PROVE RInv'
<1> USE DEF RInv
<1>1. /\ job[w].pc = "repair" /\ Reply(w, At(w, "record"))
      /\ storage' \in {row.rev, storage}
      /\ UNCHANGED <<emitted, receipt, lapsed, acked, row>>
  BY DEF Repair
<1>2. SettledGrow
  BY <1>1 DEF SettledGrow
<1>3. JobOK(At(w, "record"))
  <2>1. /\ At(w, "record") \in Job /\ At(w, "record").event = job[w].event
        /\ At(w, "record").pc = "record"
    BY DEF At, Job, Steps, InTry, TypeOK
  <2> QED
    BY <1>1, <2>1, GoesOn
<1>4. /\ job' \in [Workers -> Job] /\ JobsHaveEvents' /\ RespondsWhenSettled'
      /\ failures' \in 0..MaxFailures
  BY <1>1, <1>2, <1>3, RepliedIsOK
<1>5. storage' \in Revisions
  BY <1>1 DEF TypeOK
<1>6. TypeOK'
  BY <1>1, <1>4, <1>5, QuietTypes DEF TypeOK
<1>7. AcknowledgedIsSettled'
  BY <1>1, <1>2, AckedStaysSettled
<1> QED
  BY <1>4, <1>6, <1>7

(* Whatever the result recorded, the answer follows a settled receipt. *)
LEMMA RecordStep == ASSUME RInv, NEW w \in Workers, Record(w) PROVE RInv'
<1> USE DEF RInv
<1> DEFINE e == job[w].event
<1>1. /\ job[w].pc = "record" /\ MergeReceipt(e, job[w].result)
      /\ Reply(w, At(w, "respond"))
      /\ UNCHANGED <<emitted, acked, row, storage>>
  BY DEF Record
<1>2. job[w] \in Job /\ e \in Events /\ e \in EventIds /\ job[w].result \in Settled
  BY <1>1, EventsAreIds DEF TypeOK, JobsHaveEvents, Job
<1>3. /\ receipt' \in [EventIds -> Results \cup {"absent"}]
      /\ lapsed' \subseteq {i \in EventIds : receipt'[i] = "processing"}
      /\ SettledGrow
      /\ receipt'[e] \in Settled
  BY <1>1, <1>2, SettledStays DEF Results, SettledGrow
<1>4. JobOK(At(w, "respond"))
  <2>1. At(w, "respond") \in Job /\ At(w, "respond").event = e
    BY <1>2 DEF At, Job, Steps
  <2>2. e \in Events'
    BY <1>1, <1>2 DEF Events
  <2> QED
    BY <1>3, <2>1, <2>2 DEF JobOK
<1>5. /\ job' \in [Workers -> Job] /\ JobsHaveEvents' /\ RespondsWhenSettled'
      /\ failures' \in 0..MaxFailures
  BY <1>1, <1>3, <1>4, RepliedIsOK
<1>6. TypeOK'
  BY <1>1, <1>3, <1>5, QuietTypes DEF TypeOK
<1>7. AcknowledgedIsSettled'
  BY <1>1, <1>3, AckedStaysSettled
<1> QED
  BY <1>5, <1>6, <1>7

(* A failure recorded late does not touch a settled receipt. *)
LEMMA RecordFailedStep == ASSUME RInv, NEW w \in Workers, RecordFailed(w) PROVE RInv'
<1> USE DEF RInv
<1> DEFINE e == job[w].event
<1>1. /\ job[w].pc = "recordFailed" /\ MergeReceipt(e, "failed") /\ SetJob(w, Idle)
      /\ UNCHANGED <<emitted, acked, row, storage, failures>>
  BY DEF RecordFailed
<1>2. e \in EventIds
  BY <1>1, EventsAreIds DEF JobsHaveEvents
<1>3. /\ receipt' \in [EventIds -> Results \cup {"absent"}]
      /\ lapsed' \subseteq {i \in EventIds : receipt'[i] = "processing"}
      /\ SettledGrow
  BY <1>1, <1>2, SettledStays DEF Results, SettledGrow
<1>4. job' \in [Workers -> Job] /\ JobsHaveEvents' /\ RespondsWhenSettled'
  BY <1>1, <1>3, ThrownIsOK, JobMoves
<1>5. TypeOK'
  BY <1>1, <1>3, <1>4, QuietTypes DEF TypeOK
<1>6. AcknowledgedIsSettled'
  BY <1>1, <1>3, AckedStaysSettled
<1> QED
  BY <1>4, <1>5, <1>6

LEMMA RespondStep == ASSUME RInv, NEW w \in Workers, Respond(w) PROVE RInv'
<1> USE DEF RInv
<1>1. /\ job[w].pc = "respond" /\ acked' = acked \cup {job[w].event} /\ SetJob(w, Idle)
      /\ UNCHANGED <<emitted, receipt, lapsed, row, storage, failures>>
  BY DEF Respond
<1>2. job[w].event \in Events /\ receipt[job[w].event] \in Settled
  BY <1>1 DEF JobsHaveEvents, RespondsWhenSettled
<1>3. job' \in [Workers -> Job] /\ JobsHaveEvents' /\ RespondsWhenSettled'
  BY <1>1, ThrownIsOK, JobMoves DEF SettledGrow
<1>4. TypeOK'
  BY <1>1, <1>2, <1>3 DEF TypeOK, Events
<1>5. AcknowledgedIsSettled'
  BY <1>1, <1>2 DEF AcknowledgedIsSettled
<1> QED
  BY <1>3, <1>4, <1>5

LEMMA StripeStep == ASSUME RInv, StripeChange PROVE RInv'
<1> USE DEF RInv
<1>1. /\ Len(emitted) < MaxEvents
      /\ UNCHANGED <<receipt, lapsed, acked, row, storage, job, failures>>
  BY DEF StripeChange
<1>2. PICK kind \in StatusKinds, gap \in {0, 1} :
        LET last == IF emitted = <<>> THEN 1 ELSE emitted[Len(emitted)].created
        IN  emitted' = Append(emitted, [created |-> last + gap, status |-> kind])
  BY DEF StripeChange
<1> DEFINE last == IF emitted = <<>> THEN 1 ELSE emitted[Len(emitted)].created
<1>3. emitted \in Seq([created: Nat, status: StatusKinds])
  BY DEF TypeOK
<1>4. last \in Nat
  <2>1. ASSUME emitted # <<>>
        PROVE  emitted[Len(emitted)] \in [created: Nat, status: StatusKinds]
    <3>1. Len(emitted) \in 1..Len(emitted)
      BY <1>3, <2>1, EmptySeq, LenProperties
    <3> QED
      BY <1>3, <3>1, ElementOfSeq
  <2> QED
    BY <2>1
<1>5. [created |-> last + gap, status |-> kind] \in [created: Nat, status: StatusKinds]
  BY <1>4
<1>6. /\ emitted' \in Seq([created: Nat, status: StatusKinds])
      /\ Len(emitted') = Len(emitted) + 1
  BY <1>2, <1>3, <1>5
<1>7. Events \subseteq Events' /\ Len(emitted') <= MaxEvents
  BY <1>1, <1>3, <1>6, BoundAssumption DEF Events
<1>8. TypeOK'
  BY <1>1, <1>6, <1>7 DEF TypeOK
<1>9. JobsHaveEvents' /\ RespondsWhenSettled' /\ AcknowledgedIsSettled'
  BY <1>1, <1>7 DEF JobsHaveEvents, RespondsWhenSettled, AcknowledgedIsSettled
<1> QED
  BY <1>8, <1>9

LEMMA LapseStep == ASSUME RInv, NEW e \in EventIds, ClaimLapses(e) PROVE RInv'
<1> USE DEF RInv
<1>1. /\ receipt[e] = "processing" /\ lapsed' = lapsed \cup {e}
      /\ UNCHANGED <<emitted, receipt, acked, row, storage, job, failures>>
  BY DEF ClaimLapses
<1>2. TypeOK'
  BY <1>1 DEF TypeOK, Events
<1>3. JobsHaveEvents' /\ RespondsWhenSettled' /\ AcknowledgedIsSettled'
  BY <1>1 DEF JobsHaveEvents, RespondsWhenSettled, AcknowledgedIsSettled, Events
<1> QED
  BY <1>2, <1>3

LEMMA DeliverStep ==
    ASSUME RInv, NEW w \in Workers, NEW e \in EventIds, Deliver(w, e) PROVE RInv'
<1> USE DEF RInv
<1> DEFINE j == [Idle EXCEPT !.pc = "preRead", !.event = e]
<1>1. /\ e \in Events /\ SetJob(w, j)
      /\ UNCHANGED <<emitted, receipt, lapsed, acked, row, storage, failures>>
  BY DEF Deliver
<1>2. SettledGrow
  BY <1>1 DEF SettledGrow
<1>3. j \in Job /\ j.pc = "preRead" /\ j.event = e
  <2>1. e \in Revisions /\ 0 \in Revisions
    BY BoundAssumption DEF EventIds, Revisions
  <2>2. Idle \in Job
    BY <2>1 DEF Idle, Job, Steps, Settled
  <2> QED
    BY <2>1, <2>2 DEF Job, Steps, BeforeClaim
<1>4. e \in Events'
  BY <1>1 DEF Events
<1>5. JobOK(j)
  BY <1>3, <1>4 DEF JobOK
<1>6. job' \in [Workers -> Job] /\ JobsHaveEvents' /\ RespondsWhenSettled'
  BY <1>1, <1>2, <1>5, JobMoves
<1>7. TypeOK'
  BY <1>1, <1>6, QuietTypes DEF TypeOK
<1>8. AcknowledgedIsSettled'
  BY <1>1, <1>2, AckedStaysSettled
<1> QED
  BY <1>6, <1>7, <1>8

LEMMA FailStep == ASSUME RInv, NEW w \in Workers, CallFails(w) \/ Crash(w) PROVE RInv'
<1> USE DEF RInv
<1>1. /\ Failing /\ (SetJob(w, Thrown(w)) \/ SetJob(w, Idle))
      /\ UNCHANGED <<emitted, receipt, lapsed, acked, row, storage>>
  BY DEF CallFails, Crash
<1>2. SettledGrow
  BY <1>1 DEF SettledGrow
<1>3. failures' \in 0..MaxFailures
  BY <1>1, BoundAssumption DEF Failing, TypeOK
<1>4. job' \in [Workers -> Job] /\ JobsHaveEvents' /\ RespondsWhenSettled'
  BY <1>1, <1>2, ThrownIsOK, JobMoves
<1>5. TypeOK'
  BY <1>1, <1>3, <1>4, QuietTypes DEF TypeOK
<1>6. AcknowledgedIsSettled'
  BY <1>1, <1>2, AckedStaysSettled
<1> QED
  BY <1>4, <1>5, <1>6

---------------------------------------------------------------------------
(* The theorems *)

LEMMA RInvInit == Init => RInv
<1> SUFFICES ASSUME Init PROVE RInv
  OBVIOUS
<1>1. Idle \in Job /\ Idle.pc = "idle"
  BY BoundAssumption DEF Idle, Job, Steps, Revisions, Settled
<1>2. TypeOK
  BY <1>1, BoundAssumption DEF Init, TypeOK, Revisions, EventIds, Events
<1>3. JobsHaveEvents /\ RespondsWhenSettled /\ AcknowledgedIsSettled
  BY <1>1 DEF Init, JobsHaveEvents, RespondsWhenSettled, AcknowledgedIsSettled
<1> QED
  BY <1>2, <1>3 DEF RInv

LEMMA RInvNext == RInv /\ [Next]_vars => RInv'
<1> SUFFICES ASSUME RInv, [Next]_vars PROVE RInv'
  OBVIOUS
<1>1. CASE StripeChange
  BY <1>1, StripeStep
<1>2. CASE \E e \in EventIds : ClaimLapses(e)
  BY <1>2, LapseStep
<1>3. ASSUME NEW w \in Workers, \E e \in EventIds : Deliver(w, e) PROVE RInv'
  BY <1>3, DeliverStep
<1>4. ASSUME NEW w \in Workers, WorkerStep(w) PROVE RInv'
  BY <1>4, ReadStep, ClaimStep, WriteStep, RepairStep, RecordStep, RecordFailedStep,
     RespondStep DEF WorkerStep
<1>5. ASSUME NEW w \in Workers, CallFails(w) \/ Crash(w) PROVE RInv'
  BY <1>5, FailStep
<1>6. CASE UNCHANGED vars
  BY <1>6 DEF vars, RInv, TypeOK, JobsHaveEvents, RespondsWhenSettled,
              AcknowledgedIsSettled, Events
<1> QED
  BY <1>1, <1>2, <1>3, <1>4, <1>5, <1>6 DEF Next

(* RInv holds throughout, in particular the types of the module.            *)
THEOREM ReceiptTypeCorrect == Spec => []TypeOK
<1>1. RInv => TypeOK
  BY DEF RInv
<1> QED
  BY <1>1, RInvInit, RInvNext, PTL DEF Spec

(* What Stripe was told is handled stays handled, for any number of         *)
(* invocations, events and failures: no late failure, crash or reclaimed    *)
(* lease reopens an event that was answered 200.                            *)
THEOREM AcknowledgedStaysSettled == Spec => []AcknowledgedIsSettled
<1>1. RInv => AcknowledgedIsSettled
  BY DEF RInv
<1> QED
  BY <1>1, RInvInit, RInvNext, PTL DEF Spec


---------------------------------------------------------------------------
(***************************************************************************)
(* Storage repair is never missed (SupportedRepairIsRetried): the proof,   *)
(* for any number of invocations, events and failures.                     *)
(*                                                                         *)
(* The argument follows the newest event.  It cannot be stale, and what is *)
(* retrieved for it is the newest revision, so once it is settled the row  *)
(* and the storage are at that revision.  They stay there: an event of an  *)
(* earlier second is stale, one of the same second reconciles the row with *)
(* what Stripe says, and a repair only ever moves the storage to the row.  *)
(* So as long as storage and row differ, the newest event is unsettled.    *)
(***************************************************************************)

Last == Len(emitted)
Latest == [ts |-> emitted[Last].created, rev |-> Last]
AllSupported == \A e \in Events : emitted[e].status = "supported"

(* What is fetched for an event is no older than the event. *)
Fetched(j) == j.pc = "write" => /\ j.rev \in Events
                                /\ j.event = Last => j.rev = Last

(* Past the write of the newest event, row r and storage s have come along. *)
Written(j, r, s) ==
    j.event = Last /\ j.pc \in {"repairRead", "repair", "record"} =>
        /\ r = Latest
        /\ j.pc = "repair" => j.seen = Last
        /\ j.pc = "record" => s = Last

(* Nothing is settled that was not emitted; seconds do not run back.        *)
EmittedInOrder ==
    /\ \A e \in EventIds \ Events : receipt[e] \notin Settled
    /\ \A e \in Events : emitted[e].created <= emitted[Last].created
    /\ Last # 0 => row.ts <= emitted[Last].created
    /\ Last = 0 => row = [ts |-> 0, rev |-> 0] /\ storage = 0

NewestComesAlong ==
    /\ \A w \in Workers : Fetched(job[w])
    /\ AllSupported => \A w \in Workers : Written(job[w], row, storage)
    /\ AllSupported /\ Last # 0 /\ receipt[Last] \in Settled =>
         row = Latest /\ storage = Last

LInv == RInv /\ EmittedInOrder /\ NewestComesAlong

---------------------------------------------------------------------------
(* Steps of an invocation *)

LEMMA LastFacts ==
    ASSUME RInv
    PROVE  /\ Last \in Nat /\ Last <= MaxEvents /\ Events = 1..Last
           /\ \A e \in Events : /\ emitted[e].created \in Nat
                                /\ e \in EventIds /\ e \in Nat
           /\ Last # 0 => Last \in Events
           /\ row \in [ts: Nat, rev: Revisions]
<1>1. /\ emitted \in Seq([created: Nat, status: StatusKinds]) /\ Last <= MaxEvents
      /\ row \in [ts: Nat, rev: Revisions]
  BY DEF RInv, TypeOK, Last
<1>2. Last \in Nat /\ Events = 1..Last
  BY <1>1 DEF Last, Events
<1>3. ASSUME NEW e \in Events
      PROVE  emitted[e].created \in Nat
  <2>1. emitted[e] \in [created: Nat, status: StatusKinds]
    BY <1>1, <1>2, ElementOfSeq DEF Last
  <2> QED
    BY <2>1
<1> QED
  BY <1>1, <1>2, <1>3, BoundAssumption DEF EventIds

LEMMA AtWork ==
    ASSUME RInv, NEW w \in Workers, job[w].pc # "idle"
    PROVE  Last # 0 /\ job[w] \in Job /\ job[w].event \in Events /\ job[w].event \in EventIds
  BY LastFacts DEF RInv, TypeOK, JobsHaveEvents

(* What an invocation may do to row, storage and receipts, and become.      *)
LEMMA InvocationKeeps ==
    ASSUME LInv, Last # 0, NEW w \in Workers, NEW j, SetJob(w, j), emitted' = emitted,
           RInv',
           Fetched(j), AllSupported => Written(j, row', storage'),
           row = Latest => row' = Latest,
           row = Latest /\ storage = Last => storage' = Last,
           row'.ts <= emitted[Last].created,
           \A e \in EventIds : receipt'[e] \in Settled =>
              \/ receipt[e] \in Settled
              \/ /\ e \in Events
                 /\ e = Last /\ AllSupported => row' = Latest /\ storage' = Last
    PROVE  LInv'
<1>1. /\ Last' = Last /\ Events' = Events /\ Latest' = Latest
      /\ AllSupported' = AllSupported
  BY DEF Last, Events, Latest, AllSupported
<1>2. Last \in Events /\ Last \in EventIds
  BY LastFacts DEF LInv
<1>3. \A v \in Workers : job'[v] = IF v = w THEN j ELSE job[v]
  BY DEF LInv, RInv, TypeOK, SetJob
<1>4. EmittedInOrder'
  BY <1>1 DEF LInv, EmittedInOrder
<1>5. \A v \in Workers : Fetched(job[v])'
  BY <1>1, <1>3 DEF LInv, NewestComesAlong, Fetched
<1>6. ASSUME AllSupported, NEW v \in Workers
      PROVE  Written(job[v], row, storage)'
  <2>1. Written(job'[v], row', storage')
    <3>1. CASE v = w
      BY <1>3, <1>6, <3>1
    <3>2. CASE v # w
      <4>1. job'[v] = job[v] /\ Written(job[v], row, storage)
        BY <1>3, <1>6, <3>2 DEF LInv, NewestComesAlong
      <4> QED
        BY <4>1 DEF Written
    <3> QED
      BY <3>1, <3>2
  <2> QED
    BY <1>1, <2>1 DEF Written
<1>7. AllSupported /\ receipt'[Last] \in Settled => row' = Latest /\ storage' = Last
  BY <1>2 DEF LInv, NewestComesAlong
<1> QED
  BY <1>1, <1>4, <1>5, <1>6, <1>7 DEF LInv, NewestComesAlong

LEMMA StoppedIsFine ==
    ASSUME NEW w \in Workers, NEW r, NEW s
    PROVE  /\ Fetched(Idle) /\ Written(Idle, r, s)
           /\ job[w] \in Job => Fetched(Thrown(w)) /\ Written(Thrown(w), r, s)
<1>1. Fetched(Idle) /\ Written(Idle, r, s)
  BY DEF Fetched, Written, Idle
<1>2. job[w] \in Job => Thrown(w) = Idle \/ Thrown(w).pc = "recordFailed"
  BY DEF Thrown, At, Job
<1> QED
  BY <1>1, <1>2 DEF Fetched, Written

LEMMA ReplyKeeps ==
    ASSUME LInv, Last # 0, NEW w \in Workers, NEW j, Reply(w, j), emitted' = emitted,
           RInv',
           Fetched(j), AllSupported => Written(j, row', storage'),
           row = Latest => row' = Latest,
           row = Latest /\ storage = Last => storage' = Last,
           row'.ts <= emitted[Last].created,
           \A e \in EventIds : receipt'[e] \in Settled =>
              \/ receipt[e] \in Settled
              \/ /\ e \in Events
                 /\ e = Last /\ AllSupported => row' = Latest /\ storage' = Last
    PROVE  LInv'
<1>1. job[w] \in Job
  BY DEF LInv, RInv, TypeOK
<1>2. Fetched(Thrown(w)) /\ Written(Thrown(w), row', storage')
  BY <1>1, StoppedIsFine
<1>3. CASE SetJob(w, j)
  BY <1>3, InvocationKeeps
<1>4. CASE SetJob(w, Thrown(w))
  BY <1>2, <1>4, InvocationKeeps
<1> QED
  BY <1>3, <1>4 DEF Reply

(* Recording a result settles that event at most, and only if it settles.   *)
LEMMA RecordingSettlesOne ==
    ASSUME TypeOK, NEW e \in EventIds, NEW new \in Results, MergeReceipt(e, new)
    PROVE  \A i \in EventIds : receipt'[i] \in Settled =>
              receipt[i] \in Settled \/ (i = e /\ new \in Settled)
<1>1. receipt' = receipt \/ receipt' = [receipt EXCEPT ![e] = new]
  BY DEF MergeReceipt
<1> QED
  BY <1>1 DEF TypeOK

---------------------------------------------------------------------------
(* Every step preserves LInv *)

(* Steps that leave receipts, row and storage alone. *)
LEMMA QuietKeeps ==
    ASSUME LInv, NEW w \in Workers, job[w].pc # "idle", RInv',
           UNCHANGED <<emitted, receipt, row, storage>>,
           NEW j, SetJob(w, j), Fetched(j), AllSupported => Written(j, row, storage)
    PROVE  LInv'
<1>1. Last # 0
  BY AtWork DEF LInv
<1>2. row.ts <= emitted[Last].created
  BY <1>1 DEF LInv, EmittedInOrder
<1> QED
  BY <1>1, <1>2, InvocationKeeps

LEMMA ReadKeeps ==
    ASSUME LInv, NEW w \in Workers, PreRead(w) \/ Fetch(w) \/ RepairRead(w), RInv'
    PROVE  LInv'
<1>1. job[w].pc # "idle" /\ UNCHANGED <<emitted, receipt, row, storage>>
  BY DEF PreRead, Fetch, RepairRead
<1>2. job[w] \in Job /\ job[w].event \in Events /\ Last # 0
  BY <1>1, AtWork DEF LInv
<1>3. CASE PreRead(w)
  <2> DEFINE j == At(w, IF receipt[job[w].event] \in Settled THEN "respond" ELSE "claim")
  <2>1. j.pc \in {"respond", "claim"}
    BY <1>2 DEF At, Job
  <2>2. Fetched(j) /\ Written(j, row, storage)
    BY <2>1 DEF Fetched, Written
  <2> QED
    BY <1>1, <1>3, <2>2, QuietKeeps DEF PreRead
<1>4. CASE Fetch(w)
  <2> DEFINE j == [At(w, "write") EXCEPT !.rev = Len(emitted)]
  <2>1. j.pc = "write" /\ j.rev = Last /\ Last \in Events
    BY <1>2, LastFacts DEF At, Job, Last, LInv
  <2>2. Fetched(j) /\ Written(j, row, storage)
    BY <2>1 DEF Fetched, Written
  <2> QED
    BY <1>1, <1>4, <2>2, QuietKeeps DEF Fetch
<1>5. CASE RepairRead(w)
  <2> DEFINE j == [At(w, "repair") EXCEPT !.seen = row.rev]
  <2>1. /\ j.pc = "repair" /\ j.event = job[w].event /\ j.seen = row.rev
        /\ job[w].pc = "repairRead"
    BY <1>2, <1>5 DEF At, Job, RepairRead
  <2>2. AllSupported => Written(job[w], row, storage)
    BY DEF LInv, NewestComesAlong
  <2>3. Fetched(j) /\ (AllSupported => Written(j, row, storage))
    BY <2>1, <2>2 DEF Fetched, Written, Latest
  <2> QED
    BY <1>1, <1>5, <2>3, QuietKeeps DEF RepairRead
<1> QED
  BY <1>3, <1>4, <1>5

(* A claim settles nothing; a failure recorded does not either. *)
LEMMA ClaimKeeps ==
    ASSUME LInv, NEW w \in Workers, Claim(w), RInv'
    PROVE  LInv'
<1> DEFINE e == job[w].event
           j == CASE OutcomeOf(e, "processing") = "processing_active"  -> Idle
                  [] OutcomeOf(e, "processing") = "preserved_existing" -> At(w, "respond")
                  [] OTHER -> At(w, "fetch")
<1>1. /\ job[w].pc = "claim" /\ MergeReceipt(e, "processing") /\ Reply(w, j)
      /\ UNCHANGED <<emitted, row, storage>>
  BY DEF Claim
<1>2. job[w] \in Job /\ e \in EventIds /\ Last # 0
  BY <1>1, AtWork DEF LInv
<1>3. j = Idle \/ j.pc \in {"respond", "fetch"}
  BY <1>2 DEF At, Job
<1>4. Fetched(j) /\ Written(j, row', storage')
  BY <1>3, StoppedIsFine DEF Fetched, Written
<1>5. \A i \in EventIds : receipt'[i] \in Settled => receipt[i] \in Settled
  BY <1>1, <1>2, RecordingSettlesOne DEF LInv, RInv, Results, Settled
<1>6. row'.ts <= emitted[Last].created
  BY <1>1, <1>2 DEF LInv, EmittedInOrder
<1> HIDE DEF j
<1> QED
  BY <1>1, <1>2, <1>4, <1>5, <1>6, ReplyKeeps

LEMMA RecordFailedKeeps ==
    ASSUME LInv, NEW w \in Workers, RecordFailed(w), RInv'
    PROVE  LInv'
<1> DEFINE e == job[w].event
<1>1. /\ job[w].pc = "recordFailed" /\ MergeReceipt(e, "failed") /\ SetJob(w, Idle)
      /\ UNCHANGED <<emitted, row, storage>>
  BY DEF RecordFailed
<1>2. e \in EventIds /\ Last # 0
  BY <1>1, AtWork DEF LInv
<1>3. \A i \in EventIds : receipt'[i] \in Settled => receipt[i] \in Settled
  BY <1>1, <1>2, RecordingSettlesOne DEF LInv, RInv, Results, Settled
<1>4. row'.ts <= emitted[Last].created
  BY <1>1, <1>2 DEF LInv, EmittedInOrder
<1>5. Fetched(Idle) /\ Written(Idle, row', storage')
  BY StoppedIsFine
<1> QED
  BY <1>1, <1>2, <1>3, <1>4, <1>5, InvocationKeeps

(* The event before the newest, and the newest itself, against the row. *)
LEMMA WriteFacts ==
    ASSUME LInv, NEW w \in Workers, job[w].pc = "write"
    PROVE  LET j == job[w]
               created == emitted[j.event].created
           IN  /\ Last # 0 /\ j \in Job /\ j.event \in Events /\ j.rev \in Events
               /\ created \in Nat /\ row.ts \in Nat /\ emitted[Last].created \in Nat
               /\ created <= emitted[Last].created /\ row.ts <= emitted[Last].created
               /\ j.event = Last => j.rev = Last
               /\ AllSupported => emitted[j.rev].status = "supported"
<1>1. job[w] \in Job /\ job[w].event \in Events /\ Last # 0
  BY AtWork DEF LInv
<1>2. job[w].rev \in Events /\ (job[w].event = Last => job[w].rev = Last)
  BY DEF LInv, NewestComesAlong, Fetched
<1> QED
  BY <1>1, <1>2, LastFacts DEF LInv, EmittedInOrder, AllSupported

LEMMA AfterWriteFacts ==
    ASSUME NEW w \in Workers, job[w] \in Job, NEW outcome
    PROVE  LET j == AfterWrite(w, outcome) IN
           /\ j.event = job[w].event
           /\ j.pc = IF RepairsStorage(outcome) THEN "repairRead" ELSE "record"
  BY DEF AfterWrite, At, Job

LEMMA WriteKeeps ==
    ASSUME LInv, NEW w \in Workers, Write(w), RInv'
    PROVE  LInv'
<1> DEFINE created == emitted[job[w].event].created
           outcome == WriteOutcome(created, job[w].rev)
           j == AfterWrite(w, outcome)
<1>1. /\ job[w].pc = "write"
      /\ row' = IF outcome = "applied" THEN [ts |-> created, rev |-> job[w].rev] ELSE row
      /\ Reply(w, j)
      /\ outcome # "equal_timestamp_conflict"
      /\ UNCHANGED <<emitted, receipt, storage>>
  BY DEF Write
<1>2. /\ Last # 0 /\ job[w] \in Job /\ job[w].rev \in Events
      /\ created \in Nat /\ row.ts \in Nat /\ emitted[Last].created \in Nat
      /\ created <= emitted[Last].created /\ row.ts <= emitted[Last].created
      /\ job[w].event = Last => job[w].rev = Last
      /\ AllSupported => emitted[job[w].rev].status = "supported"
  BY <1>1, WriteFacts
<1>3. /\ j.event = job[w].event
      /\ j.pc = IF RepairsStorage(outcome) THEN "repairRead" ELSE "record"
  BY <1>2, AfterWriteFacts
<1>4. /\ outcome = "applied" => created > row.ts
      /\ outcome = "idempotent_equal" => created = row.ts /\ job[w].rev = row.rev
      /\ outcome = "stale_ignored" => created < row.ts
      /\ outcome = "unsupported_status_ignored" => emitted[job[w].rev].status = "unsupported"
      /\ outcome \in {"applied", "idempotent_equal", "stale_ignored",
                      "unsupported_status_ignored"}
  BY <1>1 DEF WriteOutcome
<1>5. row' = row \/ row' = [ts |-> created, rev |-> job[w].rev]
  BY <1>1
<1>6. row'.ts <= emitted[Last].created
  BY <1>2, <1>5
<1>7. row = Latest => row' = Latest
  <2>1. row = Latest => ~(created > row.ts)
    BY <1>2 DEF Latest
  <2> QED
    BY <1>1, <1>4, <2>1
<1>8. Fetched(j)
  BY <1>3 DEF Fetched
<1>9. ASSUME AllSupported, job[w].event = Last
      PROVE  row' = Latest /\ j.pc = "repairRead"
  <2>1. created = emitted[Last].created /\ job[w].rev = Last
    BY <1>2, <1>9
  <2>2. outcome \in {"applied", "idempotent_equal"}
    BY <1>2, <1>4, <1>9, <2>1
  <2>3. row \in [ts: Nat, rev: Revisions]
    BY LastFacts DEF LInv
  <2>4. outcome = "applied" => row' = Latest
    BY <1>1, <2>1 DEF Latest
  <2>5. outcome = "idempotent_equal" => row' = Latest
    <3>1. row = [ts |-> row.ts, rev |-> row.rev]
      BY <2>3
    <3>2. outcome = "idempotent_equal" => row = Latest /\ row' = row
      BY <1>1, <1>4, <2>1, <3>1 DEF Latest
    <3> QED
      BY <3>2
  <2>6. j.pc = "repairRead"
    BY <1>3, <2>2 DEF RepairsStorage
  <2> QED
    BY <2>2, <2>4, <2>5, <2>6
<1>10. AllSupported => Written(j, row', storage')
  BY <1>3, <1>9 DEF Written
<1> HIDE DEF j
<1> QED
  BY <1>1, <1>2, <1>6, <1>7, <1>8, <1>10, ReplyKeeps

LEMMA ReconcileKeeps ==
    ASSUME LInv, NEW w \in Workers, Reconcile(w), RInv'
    PROVE  LInv'
<1> DEFINE created == emitted[job[w].event].created
           j == AfterWrite(w, "applied")
<1>1. /\ job[w].pc = "write"
      /\ WriteOutcome(created, job[w].rev) = "equal_timestamp_conflict"
      /\ UNCHANGED <<emitted, receipt, storage>>
  BY DEF Reconcile
<1>2. /\ Last # 0 /\ job[w] \in Job
      /\ created \in Nat /\ row.ts \in Nat
      /\ row.ts <= emitted[Last].created
      /\ AllSupported => emitted[job[w].rev].status = "supported"
  BY <1>1, WriteFacts
<1>3. CASE emitted[Len(emitted)].status = "supported"
  <2>1. row' = [row EXCEPT !.rev = Last] /\ Reply(w, j)
    BY <1>3 DEF Reconcile, Last
  <2>2. row \in [ts: Nat, rev: Revisions]
    BY LastFacts DEF LInv
  <2>3. row' = [ts |-> row.ts, rev |-> Last]
    BY <2>1, <2>2
  <2>4. j.event = job[w].event /\ j.pc = "repairRead"
    BY <1>2, AfterWriteFacts DEF RepairsStorage
  <2>5. AllSupported => created = row.ts
    <3>1. AllSupported => ~(created < row.ts) /\ ~(created > row.ts)
      BY <1>1, <1>2 DEF WriteOutcome
    <3> QED
      BY <1>2, <3>1
  <2>6. Fetched(j) /\ (AllSupported => Written(j, row', storage'))
    BY <2>3, <2>4, <2>5 DEF Fetched, Written, Latest
  <2>7. row'.ts <= emitted[Last].created /\ (row = Latest => row' = Latest)
    BY <1>2, <2>3 DEF Latest
  <2> HIDE DEF j
  <2> QED
    BY <1>1, <1>2, <2>1, <2>6, <2>7, ReplyKeeps
<1>4. CASE emitted[Len(emitted)].status # "supported"
  <2>1. SetJob(w, Thrown(w)) /\ UNCHANGED row
    BY <1>4 DEF Reconcile
  <2> QED
    BY <1>1, <1>2, <2>1, StoppedIsFine, QuietKeeps
<1> QED
  BY <1>3, <1>4

LEMMA RepairKeeps ==
    ASSUME LInv, NEW w \in Workers, Repair(w), RInv'
    PROVE  LInv'
<1> DEFINE j == At(w, "record")
<1>1. /\ job[w].pc = "repair"
      /\ storage' \in IF row.rev = job[w].seen THEN {row.rev} ELSE {row.rev, storage}
      /\ Reply(w, j)
      /\ UNCHANGED <<emitted, receipt, row>>
  BY DEF Repair
<1>2. job[w] \in Job /\ Last # 0
  BY <1>1, AtWork DEF LInv
<1>3. j.pc = "record" /\ j.event = job[w].event
  BY <1>2 DEF At, Job
<1>4. AllSupported => Written(job[w], row, storage)
  BY DEF LInv, NewestComesAlong
<1>5. row = Latest => row.rev = Last
  BY DEF Latest
<1>6. Fetched(j) /\ (AllSupported => Written(j, row', storage'))
  BY <1>1, <1>3, <1>4, <1>5 DEF Fetched, Written
<1>7. row = Latest /\ storage = Last => storage' = Last
  BY <1>1, <1>5
<1>8. row'.ts <= emitted[Last].created
  BY <1>1, <1>2 DEF LInv, EmittedInOrder
<1> HIDE DEF j
<1> QED
  BY <1>1, <1>2, <1>6, <1>7, <1>8, ReplyKeeps

LEMMA RecordKeeps ==
    ASSUME LInv, NEW w \in Workers, Record(w), RInv'
    PROVE  LInv'
<1> DEFINE e == job[w].event
           j == At(w, "respond")
<1>1. /\ job[w].pc = "record" /\ MergeReceipt(e, job[w].result) /\ Reply(w, j)
      /\ UNCHANGED <<emitted, row, storage>>
  BY DEF Record
<1>2. job[w] \in Job /\ e \in EventIds /\ e \in Events /\ Last # 0 /\ job[w].result \in Results
  BY <1>1, AtWork DEF LInv, Job, Results
<1>3. j.pc = "respond"
  BY <1>2 DEF At, Job
<1>4. Fetched(j) /\ Written(j, row', storage')
  BY <1>3 DEF Fetched, Written
<1>5. e = Last /\ AllSupported => row' = Latest /\ storage' = Last
  BY <1>1 DEF LInv, NewestComesAlong, Written
<1>6. \A i \in EventIds : receipt'[i] \in Settled => receipt[i] \in Settled \/ i = e
  BY <1>1, <1>2, RecordingSettlesOne DEF LInv, RInv
<1>7. row'.ts <= emitted[Last].created
  BY <1>1, <1>2 DEF LInv, EmittedInOrder
<1> HIDE DEF j
<1> QED
  BY <1>1, <1>2, <1>4, <1>5, <1>6, <1>7, ReplyKeeps

LEMMA StopKeeps ==
    ASSUME LInv, NEW w \in Workers, Respond(w) \/ CallFails(w) \/ Crash(w), RInv'
    PROVE  LInv'
<1>1. /\ job[w].pc # "idle" /\ UNCHANGED <<emitted, receipt, row, storage>>
      /\ SetJob(w, Idle) \/ SetJob(w, Thrown(w))
  BY DEF Respond, CallFails, Crash
<1>2. job[w] \in Job
  BY DEF LInv, RInv, TypeOK
<1> QED
  BY <1>1, <1>2, StoppedIsFine, QuietKeeps

LEMMA DeliverKeeps ==
    ASSUME LInv, NEW w \in Workers, NEW e \in EventIds, Deliver(w, e), RInv'
    PROVE  LInv'
<1> DEFINE j == [Idle EXCEPT !.pc = "preRead", !.event = e]
<1>1. e \in Events /\ SetJob(w, j) /\ UNCHANGED <<emitted, receipt, row, storage>>
  BY DEF Deliver
<1>2. Last # 0
  BY <1>1, LastFacts DEF LInv
<1>3. j.pc = "preRead"
  BY DEF Idle
<1>4. Fetched(j) /\ Written(j, row', storage')
  BY <1>3 DEF Fetched, Written
<1>5. row'.ts <= emitted[Last].created
  BY <1>1, <1>2 DEF LInv, EmittedInOrder
<1> HIDE DEF j
<1> QED
  BY <1>1, <1>2, <1>4, <1>5, InvocationKeeps

LEMMA StripeKeeps ==
    ASSUME LInv, StripeChange, RInv'
    PROVE  LInv'
<1>1. /\ Last < MaxEvents
      /\ UNCHANGED <<receipt, row, storage, job>>
  BY DEF StripeChange, Last
<1>2. PICK kind \in StatusKinds, gap \in {0, 1} :
        LET last == IF emitted = <<>> THEN 1 ELSE emitted[Len(emitted)].created
        IN  emitted' = Append(emitted, [created |-> last + gap, status |-> kind])
  BY DEF StripeChange
<1> DEFINE last == IF emitted = <<>> THEN 1 ELSE emitted[Len(emitted)].created
           new == [created |-> last + gap, status |-> kind]
<1>3. emitted \in Seq([created: Nat, status: StatusKinds])
  BY DEF LInv, RInv, TypeOK
<1>4. Last \in Nat /\ (emitted = <<>> <=> Last = 0)
  BY <1>3, EmptySeq DEF Last
<1>5. last \in Nat /\ (Last # 0 => last = emitted[Last].created) /\ (Last = 0 => last = 1)
  BY <1>4, LastFacts DEF LInv, Last
<1>6. new \in [created: Nat, status: StatusKinds]
  BY <1>5
<1> HIDE DEF last
<1>7. /\ Last' = Last + 1 /\ emitted'[Last + 1] = new
      /\ \A e \in Events : emitted'[e] = emitted[e]
  BY <1>2, <1>3, <1>6, AppendProperties DEF Last, Events, last
<1>8. Events = 1..Last /\ Events' = Events \cup {Last + 1} /\ Last + 1 \in EventIds \ Events
  <2>1. Events' = 1..(Last + 1)
    BY <1>7 DEF Events, Last
  <2> QED
    BY <1>1, <1>4, <2>1, BoundAssumption DEF Events, Last, EventIds
<1>9. /\ emitted'[Last'].created = last + gap
      /\ Last # 0 => emitted[Last].created <= emitted'[Last'].created
      /\ emitted'[Last'].created \in Nat
  BY <1>5, <1>7
<1>10. ASSUME NEW e \in Events'
       PROVE  emitted'[e].created <= emitted'[Last'].created
  <2>1. CASE e = Last + 1
    BY <1>7, <1>9, <2>1
  <2>2. CASE e \in Events
    <3>1. Last # 0 /\ emitted'[e] = emitted[e]
      BY <1>7, <1>8, <2>2
    <3>2. /\ emitted[e].created <= emitted[Last].created
          /\ emitted[e].created \in Nat /\ emitted[Last].created \in Nat
      BY <2>2, <3>1, LastFacts DEF LInv, EmittedInOrder
    <3> QED
      BY <1>9, <3>1, <3>2
  <2> QED
    BY <1>8, <2>1, <2>2
<1>11. row'.ts <= emitted'[Last'].created
  <2>1. CASE Last # 0
    <3>1. /\ row.ts <= emitted[Last].created
          /\ row.ts \in Nat /\ emitted[Last].created \in Nat
      BY <2>1, LastFacts DEF LInv, EmittedInOrder
    <3> QED
      BY <1>1, <1>9, <2>1, <3>1
  <2>2. CASE Last = 0
    <3>1. row'.ts = 0
      BY <1>1, <2>2 DEF LInv, EmittedInOrder
    <3> QED
      BY <1>9, <3>1
  <2> QED
    BY <2>1, <2>2
<1>12. EmittedInOrder'
  BY <1>1, <1>4, <1>7, <1>8, <1>10, <1>11 DEF LInv, EmittedInOrder
<1>13. ASSUME NEW w \in Workers
       PROVE  /\ job[w].pc # "idle" => job[w].event # Last'
              /\ Fetched(job[w])'
  <2>1. job[w].pc # "idle" => job[w].event # Last'
    BY <1>7, <1>8, AtWork DEF LInv
  <2>2. job[w].pc = "write" => job[w].rev \in Events'
    BY <1>8 DEF LInv, NewestComesAlong, Fetched
  <2> QED
    BY <1>1, <2>1, <2>2 DEF Fetched
<1>14. \A w \in Workers : Written(job[w], row, storage)'
  BY <1>1, <1>13 DEF Written
<1>15. receipt'[Last'] \notin Settled
  BY <1>1, <1>7, <1>8 DEF LInv, EmittedInOrder
<1> QED
  BY <1>12, <1>13, <1>14, <1>15 DEF LInv, NewestComesAlong

LEMMA UnchangedKeeps ==
    ASSUME LInv, UNCHANGED <<emitted, receipt, row, storage, job>>, RInv'
    PROVE  LInv'
<1>1. Last' = Last /\ Events' = Events /\ Latest' = Latest /\ AllSupported' = AllSupported
  BY DEF Last, Events, Latest, AllSupported
<1>2. EmittedInOrder'
  BY <1>1 DEF LInv, EmittedInOrder
<1>3. NewestComesAlong'
  BY <1>1 DEF LInv, NewestComesAlong, Fetched, Written
<1> QED
  BY <1>2, <1>3 DEF LInv

---------------------------------------------------------------------------
(* The theorem *)

LEMMA LInvInit == Init => LInv
<1> SUFFICES ASSUME Init PROVE LInv
  OBVIOUS
<1>1. RInv /\ Last = 0
  BY RInvInit DEF Init, Last
<1>2. Events = {}
  BY <1>1, LastFacts
<1>3. EmittedInOrder
  BY <1>1, <1>2 DEF Init, EmittedInOrder, Settled
<1>4. \A w \in Workers : Fetched(job[w]) /\ Written(job[w], row, storage)
  BY DEF Init, Idle, Fetched, Written
<1> QED
  BY <1>1, <1>3, <1>4 DEF LInv, NewestComesAlong

LEMMA LInvNext == LInv /\ [Next]_vars => LInv'
<1> SUFFICES ASSUME LInv, [Next]_vars PROVE LInv'
  OBVIOUS
<1>1. RInv'
  BY RInvNext DEF LInv
<1>2. CASE StripeChange
  BY <1>1, <1>2, StripeKeeps
<1>3. CASE \E e \in EventIds : ClaimLapses(e)
  BY <1>1, <1>3, UnchangedKeeps DEF ClaimLapses
<1>4. ASSUME NEW w \in Workers, \E e \in EventIds : Deliver(w, e) PROVE LInv'
  BY <1>1, <1>4, DeliverKeeps
<1>5. ASSUME NEW w \in Workers, WorkerStep(w) PROVE LInv'
  BY <1>1, <1>5, ReadKeeps, ClaimKeeps, WriteKeeps, ReconcileKeeps, RepairKeeps,
     RecordKeeps, RecordFailedKeeps, StopKeeps DEF WorkerStep
<1>6. ASSUME NEW w \in Workers, CallFails(w) \/ Crash(w) PROVE LInv'
  BY <1>1, <1>6, StopKeeps
<1>7. CASE UNCHANGED vars
  BY <1>1, <1>7, UnchangedKeeps DEF vars
<1> QED
  BY <1>2, <1>3, <1>4, <1>5, <1>6, <1>7 DEF Next

(* While every status Stripe has reported is supported, a user whose storage *)
(* is behind the billing row has an event that Stripe will deliver again:   *)
(* the dispatcher repairs before it records the event as processed, and no  *)
(* crash, lost reply, reclaimed claim or late duplicate undoes that.        *)
THEOREM StorageRepairIsRetried == Spec => []SupportedRepairIsRetried
<1>1. LInv => SupportedRepairIsRetried
  <2> SUFFICES ASSUME LInv, AllSupported, storage # row.rev
               PROVE  \E e \in Events : receipt[e] \notin Settled
    BY DEF SupportedRepairIsRetried, MissedRepairIsRetried, AllSupported
  <2>1. Last # 0
    BY DEF LInv, EmittedInOrder
  <2>2. Last \in Events
    BY <2>1, LastFacts DEF LInv
  <2>3. receipt[Last] \notin Settled
    BY <2>1 DEF LInv, NewestComesAlong, Latest
  <2> QED
    BY <2>2, <2>3
<1> QED
  BY <1>1, LInvInit, LInvNext, PTL DEF Spec

=============================================================================
