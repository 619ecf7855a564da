------------------------- MODULE BillingSyncProofs -------------------------
(***************************************************************************)
(* Proofs about BillingSync for every set of subscriptions and workers.    *)
(*                                                                         *)
(* TypeOK and RowCoversItsTimestamp are not inductive: a write takes its   *)
(* content from the job, which fetched it earlier.  IInv adds what a job   *)
(* still knows when it writes.  An event-mode job (Fetched) knows that its *)
(* content is newer than every event of its subscription older than its    *)
(* own, which stays true because new events are never older than now.  An  *)
(* authoritative job (GuardedFetch) knows that its content is at least as  *)
(* new as the row, but only while the row is still the one of its          *)
(* snapshot: any write raises the version above the snapshot's for good.   *)
(***************************************************************************)
EXTENDS BillingSync, TLAPS

---------------------------------------------------------------------------
(* The inductive invariant *)

EventOK(e) ==
    /\ e.created <= now
    /\ 0 < e.content.rev /\ e.content.rev <= stripe[e.sub].rev
    /\ e.deleted => e.content = stripe[e.sub] /\ IsTerminal(e.content)

CoversUpTo(s, ts, rev) ==
    \A e \in events : e.sub = s /\ e.created < ts => e.content.rev <= rev

RowOK ==
    /\ row.version = 0 => row = NoRow
    /\ row.version > 0 => row.sub \in Subs
    /\ row.ts <= now
    /\ row.sub \in Subs => row.content.rev <= stripe[row.sub].rev
    /\ CoversUpTo(row.sub, row.ts, row.content.rev)

Fetched(j) ==
    /\ 0 < j.got.rev /\ j.got.rev <= stripe[j.sub].rev
    /\ IsTerminal(j.got) => j.got = stripe[j.sub]
    /\ CoversUpTo(j.sub, j.event.created, j.got.rev)

GuardedFetch(j) ==
    /\ j.got.rev <= stripe[j.sub].rev
    /\ SnapshotOf(row) = j.snap =>
         /\ CoversUpTo(j.sub, row.ts, j.got.rev)
         /\ row.sub = j.sub => row.content.rev <= j.got.rev

JobOK(j) ==
    /\ j.event # NoEvent => j.event \in events /\ j.event.sub = j.sub
    /\ j.pc # "idle" => j.sub \in Subs
    /\ j.pc \in {"retrieve", "check", "eventRpc"} => j.event # NoEvent
    /\ j.pc \in {"check", "eventRpc"} => Fetched(j)
    /\ j.pc \in {"aRetrieve", "authRpc"} => j.snap.version <= row.version
    /\ j.pc = "authRpc" => GuardedFetch(j)

IInv ==
    /\ TypeOK
    /\ \A e \in events : EventOK(e)
    /\ RowOK
    /\ \A w \in Workers : JobOK(job[w])

---------------------------------------------------------------------------
(* Types *)

LEMMA NoContentType == NoContent \in Content
  BY DEF NoContent, Content, Statuses, SupportedStatuses, TerminalStatuses

LEMMA IdleType == Idle \in Job /\ Idle.pc = "idle" /\ Idle.event = NoEvent
  BY NoContentType DEF Idle, Job, Steps, Purposes, Snapshot, SnapshotOf, NoRow

(* A row written by an RPC has the type of the row it replaces, a higher    *)
(* version, and so another compare-and-swap token.                          *)
LEMMA WrittenType ==
  ASSUME NEW r \in Row, NEW s \in Subs, NEW ts \in Nat, NEW c \in Content
  PROVE  /\ Written(r, s, ts, c) \in Row
         /\ Written(r, s, ts, c).sub = s
         /\ Written(r, s, ts, c).ts = ts
         /\ Written(r, s, ts, c).content = c
         /\ Written(r, s, ts, c).version = r.version + 1
  BY DEF Written, Row

LEMMA SnapshotType == ASSUME NEW r \in Row PROVE SnapshotOf(r) \in Snapshot
  BY DEF SnapshotOf, Snapshot, Row

(* Setting one worker's job changes that job only. *)
LEMMA SetJobFacts ==
  ASSUME job \in [Workers -> Job], NEW w \in Workers, NEW j \in Job, SetJob(w, j)
  PROVE  /\ job' \in [Workers -> Job]
         /\ job'[w] = j
         /\ \A v \in Workers : v # w => job'[v] = job[v]
  BY DEF SetJob

(* A job that sits idle claims nothing. *)
LEMMA IdleOK == JobOK(Idle)
  BY DEF JobOK, Idle

---------------------------------------------------------------------------
(* Steps of a job that leave Stripe and the row alone *)

(* Such a step preserves the invariant when the job it leaves behind does   *)
(* and it acknowledges only emitted events.                                 *)
LEMMA JobStep ==
  ASSUME IInv, NEW w \in Workers, NEW j \in Job, JobOK(j), SetJob(w, j),
         UNCHANGED <<now, stripe, events, mapped, row>>,
         done' \subseteq events, syncs' \in Nat, failures' \in Nat
  PROVE  IInv'
<1> USE DEF IInv
<1>1. /\ job' \in [Workers -> Job]
      /\ job'[w] = j
      /\ \A v \in Workers : v # w => job'[v] = job[v]
  BY SetJobFacts DEF TypeOK
<1>2. TypeOK'
  BY <1>1 DEF TypeOK
<1>3. (\A e \in events : EventOK(e))' /\ RowOK'
  BY DEF EventOK, RowOK, CoversUpTo
<1>4. ASSUME NEW k, JobOK(k) PROVE JobOK(k)'
  BY <1>4 DEF JobOK, Fetched, GuardedFetch, CoversUpTo
<1>5. (\A v \in Workers : JobOK(job[v]))'
  <2> SUFFICES ASSUME NEW v \in Workers PROVE JobOK(job[v])'
    OBVIOUS
  <2>1. CASE v = w
    BY <1>1, <1>4, <2>1 DEF JobOK, Fetched, GuardedFetch, CoversUpTo
  <2>2. CASE v # w
    <3>1. JobOK(job[v])
      OBVIOUS
    <3>2. job'[v] = job[v]
      BY <1>1, <2>2
    <3> QED
      BY <3>1, <3>2 DEF JobOK, Fetched, GuardedFetch, CoversUpTo
  <2> QED
    BY <2>1, <2>2
<1> QED
  BY <1>2, <1>3, <1>5

(* A job that returns or throws: idle afterwards, and what is acknowledged  *)
(* is at most the event it was delivered.                                   *)
LEMMA FinishFacts ==
  ASSUME IInv, NEW w \in Workers, Succeed(w) \/ Throw(w) \/ NotProcessed(w)
  PROVE  SetJob(w, Idle) /\ done' \subseteq events
<1>1. job[w].event # NoEvent => job[w].event \in events
  BY DEF IInv, JobOK
<1>2. done \subseteq events
  BY DEF IInv, TypeOK
<1> QED
  BY <1>1, <1>2 DEF Succeed, Throw, NotProcessed

LEMMA FinishStep ==
  ASSUME IInv, NEW w \in Workers, Succeed(w) \/ Throw(w) \/ NotProcessed(w),
         UNCHANGED <<now, stripe, events, mapped, row>>,
         syncs' \in Nat, failures' \in Nat
  PROVE  IInv'
  BY FinishFacts, IdleType, IdleOK, JobStep

---------------------------------------------------------------------------
(* Every step preserves the invariant *)

LEMMA InitOK == Init => IInv
<1> SUFFICES ASSUME Init PROVE IInv
  OBVIOUS
<1>1. TypeOK
  BY NoContentType, IdleType
     DEF Init, TypeOK, NoRow, Row
<1>2. RowOK
  BY SubsAssumption DEF Init, RowOK, CoversUpTo, NoRow
<1>3. \A w \in Workers : JobOK(job[w])
  BY IdleOK DEF Init
<1> QED
  BY <1>1, <1>2, <1>3 DEF IInv, Init

(* Time passes: events and the row's timestamp stay in the past. *)
LEMMA TickOK == IInv /\ Tick => IInv'
<1> SUFFICES ASSUME IInv, Tick PROVE IInv'
  OBVIOUS
<1> USE DEF Tick, IInv
<1>1. now \in Nat /\ now' \in Nat \ {0} /\ now <= now'
  BY DEF TypeOK
<1>2. TypeOK'
  BY <1>1 DEF TypeOK
<1>3. ASSUME NEW e \in events PROVE EventOK(e)'
  BY <1>1 DEF EventOK, TypeOK, Event
<1>4. RowOK'
  BY <1>1 DEF RowOK, CoversUpTo, TypeOK, Row
<1>5. ASSUME NEW w \in Workers PROVE JobOK(job[w])'
  <2>1. JobOK(job[w])
    OBVIOUS
  <2> QED
    BY <2>1 DEF JobOK, Fetched, GuardedFetch, CoversUpTo
<1> QED
  BY <1>2, <1>3, <1>4, <1>5

(* What Stripe may do to the subscription s: its content becomes c, no      *)
(* older than before and unchanged once terminal, and an event of the       *)
(* current second announces it.                                             *)
LEMMA StripeStep ==
  ASSUME IInv, NEW s \in Subs, NEW c \in Content, NEW deleted \in BOOLEAN,
         0 < c.rev, stripe[s].rev <= c.rev,
         stripe[s].rev > 0 /\ IsTerminal(stripe[s]) => c = stripe[s],
         deleted => IsTerminal(c),
         stripe' = [stripe EXCEPT ![s] = c],
         events' = events \cup {EmittedFor(s, c, deleted)},
         UNCHANGED <<now, done, mapped, row, job, syncs, failures>>
  PROVE  IInv'
<1> USE DEF IInv
<1> DEFINE n == EmittedFor(s, c, deleted)
<1>1. /\ n \in Event
      /\ n.created = now /\ n.content = c /\ n.sub = s /\ n.deleted = deleted
  BY DEF EmittedFor, Event, TypeOK
<1>2. /\ stripe' \in [Subs -> Content]
      /\ \A t \in Subs : stripe[t].rev <= stripe'[t].rev
      /\ \A t \in Subs : stripe[t].rev > 0 /\ IsTerminal(stripe[t])
                           => stripe'[t] = stripe[t]
      /\ stripe'[s] = c
  BY DEF TypeOK, Content
<1>3. TypeOK'
  BY <1>1, <1>2 DEF TypeOK
<1>4. ASSUME NEW e \in events' PROVE EventOK(e)'
  <2>1. CASE e = n
    BY <1>1, <1>2, <2>1 DEF EventOK, TypeOK, Content, IsTerminal
  <2>2. CASE e \in events
    <3>1. EventOK(e) /\ e \in Event /\ e.sub \in Subs /\ e.content \in Content
      BY <2>2 DEF TypeOK, Event
    <3> QED
      BY <3>1, <1>2 DEF EventOK, TypeOK, Content, IsTerminal
  <2> QED
    BY <2>1, <2>2
<1>5. ASSUME NEW t, NEW ts \in Nat, NEW rev, ts <= now, CoversUpTo(t, ts, rev)
      PROVE  CoversUpTo(t, ts, rev)'
  BY <1>1, <1>5 DEF CoversUpTo, TypeOK
<1>6. RowOK'
  <2>1. row.content.rev \in Nat /\ row.ts \in Nat /\ row.ts <= now
    BY DEF TypeOK, Row, Content, RowOK
  <2>2. CoversUpTo(row.sub, row.ts, row.content.rev)'
    BY <2>1, <1>5 DEF RowOK, CoversUpTo
  <2>3. row.sub \in Subs => row.content.rev <= stripe'[row.sub].rev
    BY <2>1, <1>2 DEF RowOK, TypeOK, Content
  <2> QED
    BY <2>2, <2>3 DEF RowOK
<1>7. ASSUME NEW w \in Workers PROVE JobOK(job[w])'
  <2> DEFINE j == job[w]
  <2>1. /\ JobOK(j)
        /\ j \in Job
        /\ j.got \in Content /\ j.got.rev \in Nat
    BY DEF TypeOK, Job, Content
  <2>2. j.event # NoEvent => j.event \in events'
    BY <2>1 DEF JobOK
  <2>3. j.pc \in {"check", "eventRpc"} => Fetched(j)'
    <3> SUFFICES ASSUME j.pc \in {"check", "eventRpc"} PROVE Fetched(j)'
      BY DEF Fetched
    <3>1. /\ Fetched(j) /\ j.sub \in Subs
          /\ j.event \in events
      BY <2>1 DEF JobOK
    <3>2. j.event.created \in Nat /\ j.event.created <= now
      BY <3>1 DEF TypeOK, Event, EventOK
    <3>3. CoversUpTo(j.sub, j.event.created, j.got.rev)'
      BY <3>1, <3>2, <1>5 DEF Fetched, CoversUpTo
    <3>4. j.got.rev <= stripe'[j.sub].rev
      BY <3>1, <2>1, <1>2 DEF Fetched, TypeOK, Content
    <3>5. IsTerminal(j.got) => j.got = stripe'[j.sub]
      BY <3>1, <2>1, <1>2 DEF Fetched, TypeOK, Content, IsTerminal
    <3> QED
      BY <3>1, <3>3, <3>4, <3>5 DEF Fetched, IsTerminal
  <2>4. j.pc = "authRpc" => GuardedFetch(j)'
    <3> SUFFICES ASSUME j.pc = "authRpc" PROVE GuardedFetch(j)'
      BY DEF GuardedFetch
    <3>1. GuardedFetch(j) /\ j.sub \in Subs
      BY <2>1 DEF JobOK
    <3>2. row.ts \in Nat /\ row.ts <= now
      BY DEF TypeOK, Row, RowOK
    <3>3. CoversUpTo(j.sub, row.ts, j.got.rev) => CoversUpTo(j.sub, row.ts, j.got.rev)'
      BY <3>2, <1>5 DEF CoversUpTo
    <3>4. j.got.rev <= stripe'[j.sub].rev
      BY <3>1, <2>1, <1>2 DEF GuardedFetch, TypeOK, Content
    <3> QED
      BY <3>1, <3>3, <3>4 DEF GuardedFetch, SnapshotOf
  <2> QED
    BY <2>1, <2>2, <2>3, <2>4 DEF JobOK
<1> QED
  BY <1>3, <1>4, <1>6, <1>7

LEMMA StripeChangeOK == ASSUME IInv, NEW s \in Subs, StripeChange(s) PROVE IInv'
<1>1. PICK st \in Statuses :
        LET c == [status |-> st, rev |-> stripe[s].rev + 1]
            deleted == st = "canceled"
        IN  /\ stripe' = [stripe EXCEPT ![s] = c]
            /\ events' = events \cup {EmittedFor(s, c, deleted)}
  BY DEF StripeChange
<1> DEFINE c == [status |-> st, rev |-> stripe[s].rev + 1]
<1>2. stripe[s] \in Content /\ stripe[s].rev \in Nat
  BY DEF IInv, TypeOK, Content
<1>3. /\ c \in Content /\ 0 < c.rev /\ stripe[s].rev <= c.rev
      /\ c.status = st
  BY <1>2 DEF Content
<1>4. st = "canceled" => IsTerminal(c)
  BY <1>3 DEF IsTerminal, TerminalStatuses
<1>5. ~(stripe[s].rev > 0 /\ IsTerminal(stripe[s]))
  BY <1>2 DEF StripeChange
<1>6. UNCHANGED <<now, done, mapped, row, job, syncs, failures>>
  BY DEF StripeChange
<1>7. (st = "canceled") \in BOOLEAN
  OBVIOUS
<1> HIDE DEF c
<1> QED
  BY <1>1, <1>3, <1>4, <1>5, <1>6, <1>7, StripeStep DEF c

LEMMA StripeNotifiesOK == ASSUME IInv, NEW s \in Subs, StripeNotifies(s) PROVE IInv'
<1>1. stripe[s] \in Content /\ stripe[s].rev \in Nat
  BY DEF IInv, TypeOK, Content
<1>2. stripe' = [stripe EXCEPT ![s] = stripe[s]]
  BY DEF StripeNotifies, IInv, TypeOK
<1>3. /\ 0 < stripe[s].rev
      /\ events' = events \cup {EmittedFor(s, stripe[s], FALSE)}
      /\ UNCHANGED <<now, done, mapped, row, job, syncs, failures>>
  BY <1>1 DEF StripeNotifies
<1> DEFINE c == stripe[s]
<1>4. c \in Content /\ 0 < c.rev /\ stripe[s].rev <= c.rev /\ c = stripe[s]
  BY <1>1, <1>3
<1>5. /\ stripe' = [stripe EXCEPT ![s] = c]
      /\ events' = events \cup {EmittedFor(s, c, FALSE)}
  BY <1>2, <1>3
<1> HIDE DEF c
<1> QED
  BY <1>3, <1>4, <1>5, StripeStep

(* What any invocation's job satisfies, with its type. *)
LEMMA JobFacts ==
  ASSUME IInv, NEW w \in Workers
  PROVE  /\ job[w] \in Job /\ JobOK(job[w])
         /\ job[w].got \in Content /\ job[w].got.rev \in Nat
         /\ job[w].event \in Event \cup {NoEvent}
         /\ job[w].snap.version \in Nat
         /\ row \in Row /\ SnapshotOf(row) \in Snapshot
         /\ row.version \in Nat /\ row.ts \in Nat
  BY SnapshotType DEF IInv, TypeOK, Job, Content, Snapshot, Row

LEMMA FailOK == ASSUME IInv, NEW w \in Workers, Fail(w) PROVE IInv'
<1>1. failures' \in Nat
  BY DEF Fail, IInv, TypeOK
<1>2. syncs' \in Nat
  BY DEF Fail, IInv, TypeOK
<1> QED
  BY <1>1, <1>2, FinishStep DEF Fail, env

LEMMA DeliverOK ==
  ASSUME IInv, NEW w \in Workers, NEW e \in events, Deliver(w, e) PROVE IInv'
<1> DEFINE j == [Idle EXCEPT !.pc = IF e.deleted THEN "check" ELSE "retrieve",
                              !.event = e, !.sub = e.sub,
                              !.got = IF e.deleted THEN e.content ELSE NoContent]
<1>1. /\ e \in Event /\ e.sub \in Subs /\ e.deleted \in BOOLEAN
      /\ e.content \in Content /\ e.content.rev \in Nat /\ e.created \in Nat
      /\ EventOK(e)
  BY DEF IInv, TypeOK, Event, Content
<1>2. j \in Job
  BY <1>1, IdleType, NoContentType DEF Job, Steps
<1>3. /\ j.event = e /\ j.sub = e.sub
      /\ j.pc = IF e.deleted THEN "check" ELSE "retrieve"
      /\ e.deleted => j.got = e.content
  BY DEF Idle
<1>4. j.pc \in {"check", "eventRpc"} => Fetched(j)
  <2> SUFFICES ASSUME e.deleted PROVE Fetched(j)
    BY <1>3
  <2>1. j.got = stripe[j.sub] /\ 0 < j.got.rev /\ j.got.rev \in Nat
    BY <1>1, <1>3 DEF EventOK
  <2>2. CoversUpTo(j.sub, j.event.created, j.got.rev)
    BY <2>1 DEF CoversUpTo, IInv, EventOK
  <2> QED
    BY <2>1, <2>2 DEF Fetched
<1>5. e # NoEvent
  BY <1>1, SubsAssumption DEF NoEvent
<1>6. JobOK(j)
  BY <1>1, <1>3, <1>4, <1>5 DEF JobOK
<1>7. SetJob(w, j)
  BY DEF Deliver
<1>8. /\ UNCHANGED <<now, stripe, events, mapped, row>>
      /\ done' \subseteq events /\ syncs' \in Nat /\ failures' \in Nat
  BY DEF Deliver, env, IInv, TypeOK
<1> HIDE DEF j
<1> QED
  BY <1>2, <1>6, <1>7, <1>8, JobStep

LEMMA RetrieveForEventOK ==
  ASSUME IInv, NEW w \in Workers, RetrieveForEvent(w) PROVE IInv'
<1> DEFINE j == [job[w] EXCEPT !.pc = "check", !.got = stripe[job[w].sub]]
<1>1. /\ job[w] \in Job /\ JobOK(job[w])
      /\ job[w].sub \in Subs /\ job[w].pc = "retrieve"
      /\ job[w].event \in events /\ job[w].event.sub = job[w].sub
      /\ job[w].event # NoEvent
  BY JobFacts DEF JobOK, RetrieveForEvent
<1>2. /\ stripe[job[w].sub] \in Content
      /\ stripe[job[w].sub].rev \in Nat
      /\ 0 < stripe[job[w].sub].rev
  BY <1>1 DEF IInv, TypeOK, Content, Event, EventOK
<1>3. j \in Job
  BY <1>1, <1>2 DEF Job, Steps
<1>4. /\ j.pc = "check" /\ j.got = stripe[j.sub] /\ j.sub = job[w].sub
      /\ j.event = job[w].event
  BY <1>1 DEF Job
<1>5. Fetched(j)
  BY <1>2, <1>4 DEF Fetched, CoversUpTo, IInv, EventOK
<1>6. JobOK(j)
  BY <1>1, <1>4, <1>5 DEF JobOK
<1>7. /\ SetJob(w, j)
      /\ UNCHANGED <<now, stripe, events, mapped, row>>
      /\ done' \subseteq events /\ syncs' \in Nat /\ failures' \in Nat
  BY DEF RetrieveForEvent, env, IInv, TypeOK
<1> HIDE DEF j
<1> QED
  BY <1>3, <1>6, <1>7, JobStep

LEMMA CheckForEventOK ==
  ASSUME IInv, NEW w \in Workers, CheckForEvent(w) PROVE IInv'
<1>1. /\ UNCHANGED <<now, stripe, events, mapped, row>>
      /\ syncs' \in Nat /\ failures' \in Nat
  BY DEF CheckForEvent, env, IInv, TypeOK
<1>2. CASE Succeed(w)
  BY <1>1, <1>2, FinishStep
<1>3. CASE Goto(w, "eventRpc") /\ UNCHANGED done
  <2> DEFINE j == [job[w] EXCEPT !.pc = "eventRpc"]
  <2>1. /\ job[w] \in Job /\ JobOK(job[w]) /\ job[w].pc = "check"
    BY JobFacts DEF CheckForEvent
  <2>2. j \in Job
    BY <2>1 DEF Job, Steps
  <2>3. /\ j.pc = "eventRpc" /\ j.sub = job[w].sub /\ j.event = job[w].event
        /\ j.got = job[w].got
    BY <2>1 DEF Job
  <2>4. Fetched(j)
    BY <2>1, <2>3 DEF JobOK, Fetched
  <2>5. JobOK(j)
    BY <2>1, <2>3, <2>4 DEF JobOK
  <2>6. SetJob(w, j) /\ done' \subseteq events
    BY <1>3 DEF Goto, IInv, TypeOK
  <2> HIDE DEF j
  <2> QED
    BY <1>1, <2>2, <2>5, <2>6, JobStep
<1> QED
  BY <1>2, <1>3 DEF CheckForEvent

LEMMA StartCheckoutSyncOK ==
  ASSUME IInv, NEW w \in Workers, NEW s \in Subs, StartCheckoutSync(w, s)
  PROVE  IInv'
<1> DEFINE j == [Idle EXCEPT !.pc = "snapshot", !.sub = s,
                              !.purpose = "checkout_completion"]
<1>1. j \in Job
  BY IdleType DEF Job, Steps, Purposes
<1>2. j.pc = "snapshot" /\ j.event = NoEvent /\ j.sub = s
  BY DEF Idle
<1>3. JobOK(j)
  BY <1>2 DEF JobOK
<1>4. /\ SetJob(w, j)
      /\ UNCHANGED <<now, stripe, events, mapped, row>>
      /\ done' \subseteq events /\ syncs' \in Nat /\ failures' \in Nat
  BY DEF StartCheckoutSync, env, IInv, TypeOK
<1> HIDE DEF j
<1> QED
  BY <1>1, <1>3, <1>4, JobStep

LEMMA StartReconcileOK ==
  ASSUME IInv, NEW w \in Workers, StartReconcile(w) PROVE IInv'
<1> DEFINE j == [Idle EXCEPT !.pc = "aRetrieve", !.sub = row.sub,
                              !.purpose = "reconcile_current",
                              !.snap = SnapshotOf(row)]
<1>1. row \in Row /\ SnapshotOf(row) \in Snapshot /\ row.sub \in Subs
  BY JobFacts DEF StartReconcile, IInv, RowOK
<1>2. j \in Job
  BY <1>1, IdleType DEF Job, Steps, Purposes
<1>3. /\ j.pc = "aRetrieve" /\ j.event = NoEvent /\ j.sub = row.sub
      /\ j.snap.version = row.version
  BY DEF Idle, SnapshotOf
<1>4. JobOK(j)
  BY <1>1, <1>3 DEF JobOK, Row
<1>5. /\ SetJob(w, j)
      /\ UNCHANGED <<now, stripe, events, mapped, row>>
      /\ done' \subseteq events /\ syncs' \in Nat /\ failures' \in Nat
  BY DEF StartReconcile, env, IInv, TypeOK
<1> HIDE DEF j
<1> QED
  BY <1>2, <1>4, <1>5, JobStep

LEMMA ReadSnapshotOK ==
  ASSUME IInv, NEW w \in Workers, ReadSnapshot(w) PROVE IInv'
<1>1. /\ UNCHANGED <<now, stripe, events, mapped, row>>
      /\ syncs' \in Nat /\ failures' \in Nat
  BY DEF ReadSnapshot, env, IInv, TypeOK
<1>2. CASE Throw(w)
  BY <1>1, <1>2, FinishStep
<1>3. CASE ~Throw(w)
  <2> DEFINE j == [job[w] EXCEPT !.pc = "aRetrieve", !.snap = SnapshotOf(row)]
  <2>1. /\ job[w] \in Job /\ JobOK(job[w]) /\ job[w].pc = "snapshot"
        /\ SnapshotOf(row) \in Snapshot /\ row.version \in Nat
    BY JobFacts DEF ReadSnapshot
  <2>2. j \in Job
    BY <2>1 DEF Job, Steps
  <2>3. /\ j.pc = "aRetrieve" /\ j.sub = job[w].sub /\ j.event = job[w].event
        /\ j.snap.version = row.version
    BY <2>1 DEF Job, SnapshotOf
  <2>4. JobOK(j)
    BY <2>1, <2>3 DEF JobOK
  <2>5. SetJob(w, j) /\ done' \subseteq events
    BY <1>3 DEF ReadSnapshot, IInv, TypeOK
  <2> HIDE DEF j
  <2> QED
    BY <1>1, <2>2, <2>4, <2>5, JobStep
<1> QED
  BY <1>2, <1>3

LEMMA RetrieveAuthoritativeOK ==
  ASSUME IInv, NEW w \in Workers, RetrieveAuthoritative(w) PROVE IInv'
<1>1. /\ UNCHANGED <<now, stripe, events, mapped, row>>
      /\ syncs' \in Nat /\ failures' \in Nat
  BY DEF RetrieveAuthoritative, env, IInv, TypeOK
<1>2. CASE NotProcessed(w)
  BY <1>1, <1>2, FinishStep
<1>3. CASE ~NotProcessed(w)
  <2> DEFINE j == [job[w] EXCEPT !.pc = "authRpc", !.got = stripe[job[w].sub]]
  <2>1. /\ job[w] \in Job /\ JobOK(job[w]) /\ job[w].pc = "aRetrieve"
        /\ job[w].sub \in Subs
    BY JobFacts DEF RetrieveAuthoritative, JobOK
  <2>2. stripe[job[w].sub] \in Content /\ stripe[job[w].sub].rev \in Nat
    BY <2>1 DEF IInv, TypeOK, Content
  <2>3. j \in Job
    BY <2>1, <2>2 DEF Job, Steps
  <2>4. /\ j.pc = "authRpc" /\ j.sub = job[w].sub /\ j.event = job[w].event
        /\ j.snap = job[w].snap /\ j.got = stripe[j.sub]
    BY <2>1 DEF Job
  <2>5. GuardedFetch(j)
    <3>1. CoversUpTo(j.sub, row.ts, j.got.rev)
      BY <2>4 DEF CoversUpTo, IInv, EventOK
    <3>2. row.sub = j.sub => row.content.rev <= j.got.rev
      BY <2>1, <2>4 DEF IInv, RowOK
    <3> QED
      BY <2>2, <2>4, <3>1, <3>2 DEF GuardedFetch
  <2>6. JobOK(j)
    BY <2>1, <2>4, <2>5 DEF JobOK
  <2>7. SetJob(w, j) /\ done' \subseteq events
    BY <1>3 DEF RetrieveAuthoritative, IInv, TypeOK
  <2> HIDE DEF j
  <2> QED
    BY <1>1, <2>3, <2>6, <2>7, JobStep
<1> QED
  BY <1>2, <1>3

LEMMA RereadForRetryOK ==
  ASSUME IInv, NEW w \in Workers, RereadForRetry(w) PROVE IInv'
<1>1. /\ UNCHANGED <<now, stripe, events, mapped, row>>
      /\ syncs' \in Nat /\ failures' \in Nat
  BY DEF RereadForRetry, env, IInv, TypeOK
<1>2. CASE NotProcessed(w)
  BY <1>1, <1>2, FinishStep
<1>3. CASE ~NotProcessed(w)
  <2> DEFINE j == [job[w] EXCEPT !.pc = "aRetrieve", !.retried = TRUE,
                                 !.snap = SnapshotOf(row)]
  <2>1. /\ job[w] \in Job /\ JobOK(job[w]) /\ job[w].pc = "reread"
        /\ SnapshotOf(row) \in Snapshot /\ row.version \in Nat
    BY JobFacts DEF RereadForRetry
  <2>2. j \in Job
    BY <2>1 DEF Job, Steps
  <2>3. /\ j.pc = "aRetrieve" /\ j.sub = job[w].sub /\ j.event = job[w].event
        /\ j.snap.version = row.version
    BY <2>1 DEF Job, SnapshotOf
  <2>4. JobOK(j)
    BY <2>1, <2>3 DEF JobOK
  <2>5. SetJob(w, j) /\ done' \subseteq events
    BY <1>3 DEF RereadForRetry, IInv, TypeOK
  <2> HIDE DEF j
  <2> QED
    BY <1>1, <2>2, <2>4, <2>5, JobStep
<1> QED
  BY <1>2, <1>3

---------------------------------------------------------------------------
(* Steps that write the row *)

(* A write is harmless when its content covers every event of its           *)
(* subscription older than the timestamp it stores.  It raises the version, *)
(* so no other job's compare-and-swap token matches the row any more.       *)
LEMMA WriteStep ==
  ASSUME IInv, NEW w \in Workers, NEW s \in Subs, NEW ts \in Nat, ts <= now,
         NEW c \in Content, c.rev <= stripe[s].rev, CoversUpTo(s, ts, c.rev),
         row' = Written(row, s, ts, c), Succeed(w),
         UNCHANGED <<now, stripe, events, mapped, syncs, failures>>
  PROVE  IInv'
<1>1. SetJob(w, Idle) /\ done' \subseteq events
  BY FinishFacts
<1>2. /\ job' \in [Workers -> Job]
      /\ job'[w] = Idle
      /\ \A v \in Workers : v # w => job'[v] = job[v]
  BY <1>1, IdleType, SetJobFacts DEF IInv, TypeOK
<1>3. /\ row \in Row /\ row.version \in Nat
      /\ row' \in Row
      /\ row'.sub = s /\ row'.ts = ts /\ row'.content = c
      /\ row'.version = row.version + 1
  BY WrittenType DEF IInv, TypeOK, Row
<1>4. TypeOK'
  BY <1>1, <1>2, <1>3 DEF IInv, TypeOK
<1>5. (\A e \in events : EventOK(e))'
  BY DEF IInv, EventOK
<1>6. RowOK'
  BY <1>3 DEF RowOK, CoversUpTo
<1>7. ASSUME NEW v \in Workers PROVE JobOK(job[v])'
  <2>1. CASE v = w
    BY <1>2, <2>1 DEF JobOK, Idle
  <2>2. CASE v # w
    <3> DEFINE j == job[v]
    <3>1. JobOK(j) /\ j.snap.version \in Nat /\ j = job'[v]
      BY JobFacts, <1>2, <2>2
    <3>2. j.snap.version <= row.version => SnapshotOf(row') # j.snap
      BY <1>3, <3>1 DEF SnapshotOf
    <3>3. j.pc \in {"check", "eventRpc"} => Fetched(j)'
      BY <3>1 DEF JobOK, Fetched, CoversUpTo
    <3>4. j.pc = "authRpc" => GuardedFetch(j)'
      BY <3>1, <3>2 DEF JobOK, GuardedFetch
    <3> QED
      BY <1>3, <3>1, <3>3, <3>4 DEF JobOK, Fetched, GuardedFetch
  <2> QED
    BY <2>1, <2>2
<1> QED
  BY <1>4, <1>5, <1>6, <1>7 DEF IInv

LEMMA EventRpcOK == ASSUME IInv, NEW w \in Workers, EventRpc(w) PROVE IInv'
<1> DEFINE j == job[w]
           reason == EventDecision(row, j.sub, j.event.created, j.got)
<1>1. /\ j \in Job /\ JobOK(j) /\ j.pc = "eventRpc"
      /\ j.sub \in Subs /\ j.event \in events /\ j.got \in Content
      /\ Fetched(j)
  BY JobFacts DEF EventRpc, JobOK
<1>2. UNCHANGED <<now, stripe, events, mapped, syncs, failures>>
  BY DEF EventRpc, env
<1>3. CASE reason = "applied"
  <2>1. row' = Written(row, j.sub, j.event.created, j.got) /\ Succeed(w)
    BY <1>3 DEF EventRpc
  <2>2. j.event.created \in Nat /\ j.event.created <= now
    BY <1>1 DEF IInv, TypeOK, Event, EventOK
  <2> QED
    BY <1>1, <1>2, <2>1, <2>2, WriteStep DEF Fetched
<1>4. CASE reason # "applied"
  <2>1. UNCHANGED <<now, stripe, events, mapped, row>>
    BY <1>2, <1>4 DEF EventRpc
  <2>2. syncs' \in Nat /\ failures' \in Nat
    BY <1>2 DEF IInv, TypeOK
  <2>3. CASE Succeed(w)
    BY <2>1, <2>2, <2>3, FinishStep
  <2>4. CASE ~Succeed(w)
    <3> DEFINE k == [j EXCEPT !.pc = "snapshot", !.got = NoContent,
                              !.purpose = "reconcile_current"]
    <3>1. k \in Job
      BY <1>1, NoContentType DEF Job, Steps, Purposes
    <3>2. k.pc = "snapshot" /\ k.sub = j.sub /\ k.event = j.event
      BY <1>1 DEF Job
    <3>3. JobOK(k)
      BY <1>1, <3>2 DEF JobOK
    <3>4. SetJob(w, k) /\ done' \subseteq events
      BY <2>4 DEF EventRpc, IInv, TypeOK
    <3> HIDE DEF k
    <3> QED
      BY <2>1, <2>2, <3>1, <3>3, <3>4, JobStep
  <2> QED
    BY <2>3, <2>4
<1> QED
  BY <1>3, <1>4

LEMMA AuthoritativeRpcOK ==
  ASSUME IInv, NEW w \in Workers, AuthoritativeRpc(w) PROVE IInv'
<1> DEFINE j == job[w]
           decision == AuthoritativeDecision(row, j.snap, j.purpose, j.sub)
<1>1. /\ j \in Job /\ JobOK(j) /\ j.pc = "authRpc" /\ j.sub \in Subs
      /\ j.got \in Content
      /\ GuardedFetch(j)
  BY JobFacts DEF AuthoritativeRpc, JobOK
<1>2. UNCHANGED <<now, stripe, events, mapped, syncs, failures>>
  BY DEF AuthoritativeRpc, env
<1>3. CASE decision = "applied"
  <2>1. SnapshotOf(row) = j.snap
    BY <1>3 DEF AuthoritativeDecision
  <2>2. row' = Written(row, j.sub, row.ts, j.got) /\ Succeed(w)
    BY <1>3 DEF AuthoritativeRpc
  <2>3. row.ts \in Nat /\ row.ts <= now
    BY JobFacts DEF IInv, RowOK
  <2> QED
    BY <1>1, <1>2, <2>1, <2>2, <2>3, WriteStep DEF GuardedFetch
<1>4. CASE decision # "applied"
  <2>1. UNCHANGED <<now, stripe, events, mapped, row>>
    BY <1>2, <1>4 DEF AuthoritativeRpc
  <2>2. syncs' \in Nat /\ failures' \in Nat
    BY <1>2 DEF IInv, TypeOK
  <2>3. CASE j.retried
    <3>1. NotProcessed(w)
      BY <1>4, <2>3 DEF AuthoritativeRpc
    <3> QED
      BY <2>1, <2>2, <3>1, FinishStep
  <2>4. CASE ~j.retried
    <3> DEFINE k == [j EXCEPT !.pc = "reread"]
    <3>1. k \in Job
      BY <1>1 DEF Job, Steps
    <3>2. k.pc = "reread" /\ k.sub = j.sub /\ k.event = j.event
      BY <1>1 DEF Job
    <3>3. JobOK(k)
      BY <1>1, <3>2 DEF JobOK
    <3>4. SetJob(w, k) /\ done' \subseteq events
      BY <1>4, <2>4 DEF AuthoritativeRpc, Goto, IInv, TypeOK
    <3> HIDE DEF k
    <3> QED
      BY <2>1, <2>2, <3>1, <3>3, <3>4, JobStep
  <2> QED
    BY <2>3, <2>4
<1> QED
  BY <1>3, <1>4

---------------------------------------------------------------------------
(* The theorems *)

LEMMA StutterOK == IInv /\ UNCHANGED vars => IInv'
<1> SUFFICES ASSUME IInv, UNCHANGED vars PROVE IInv'
  OBVIOUS
<1>1. TypeOK' /\ (\A e \in events : EventOK(e))' /\ RowOK'
  BY DEF IInv, TypeOK, EventOK, RowOK, CoversUpTo, vars
<1>2. ASSUME NEW w \in Workers PROVE JobOK(job[w])'
  BY DEF IInv, JobOK, Fetched, GuardedFetch, CoversUpTo, vars
<1> QED
  BY <1>1, <1>2 DEF IInv

LEMMA NextOK == IInv /\ [Next]_vars => IInv'
<1> SUFFICES ASSUME IInv, [Next]_vars PROVE IInv'
  OBVIOUS
<1>1. CASE Tick
  BY <1>1, TickOK
<1>2. ASSUME NEW s \in Subs, StripeChange(s) \/ StripeNotifies(s) PROVE IInv'
  BY <1>2, StripeChangeOK, StripeNotifiesOK
<1>3. ASSUME NEW w \in Workers, NEW e \in events, Deliver(w, e) PROVE IInv'
  BY <1>3, DeliverOK
<1>4. ASSUME NEW w \in Workers, NEW s \in Subs, StartCheckoutSync(w, s) PROVE IInv'
  BY <1>4, StartCheckoutSyncOK
<1>5. ASSUME NEW w \in Workers, StartReconcile(w) \/ Fail(w) PROVE IInv'
  BY <1>5, StartReconcileOK, FailOK
<1>6. ASSUME NEW w \in Workers, WorkerStep(w) PROVE IInv'
  BY <1>6, RetrieveForEventOK, CheckForEventOK, EventRpcOK, ReadSnapshotOK,
     RetrieveAuthoritativeOK, AuthoritativeRpcOK, RereadForRetryOK
     DEF WorkerStep
<1>7. CASE UNCHANGED vars
  BY <1>7, StutterOK
<1> QED
  BY <1>1, <1>2, <1>3, <1>4, <1>5, <1>6, <1>7 DEF Next

(* The inductive invariant holds of every reachable state. *)
THEOREM Invariance == Spec => []IInv
  BY InitOK, NextOK, PTL DEF Spec

(* The variables keep their types. *)
THEOREM TypeCorrect == Spec => []TypeOK
<1>1. IInv => TypeOK
  BY DEF IInv
<1> QED
  BY <1>1, Invariance, PTL

(* The row is at least as new as every change of its subscription that      *)
(* Stripe announced before last_stripe_event_created, whatever interleaving *)
(* of deliveries, conflict reconciles and authoritative refreshes wrote it. *)
THEOREM TimestampIsCovered == Spec => []RowCoversItsTimestamp
<1>1. IInv => RowCoversItsTimestamp
  BY DEF IInv, RowOK, CoversUpTo, RowCoversItsTimestamp
<1> QED
  BY <1>1, Invariance, PTL

(* The only steps that write the row are the two RPCs, and what they write. *)
LEMMA RowWrites ==
  ASSUME IInv, [Next]_vars, row' # row
  PROVE  \E w \in Workers :
           \/ /\ EventRpc(w)
              /\ EventDecision(row, job[w].sub, job[w].event.created, job[w].got)
                   = "applied"
              /\ row' = Written(row, job[w].sub, job[w].event.created, job[w].got)
           \/ /\ AuthoritativeRpc(w)
              /\ AuthoritativeDecision(row, job[w].snap, job[w].purpose, job[w].sub)
                   = "applied"
              /\ row' = Written(row, job[w].sub, row.ts, job[w].got)
<1>1. PICK w \in Workers : EventRpc(w) \/ AuthoritativeRpc(w)
  BY DEF Next, vars, env, Tick, StripeChange, StripeNotifies, Deliver, Fail,
         StartCheckoutSync, StartReconcile, WorkerStep, RetrieveForEvent,
         CheckForEvent, ReadSnapshot, RetrieveAuthoritative, RereadForRetry
<1> QED
  BY <1>1 DEF EventRpc, AuthoritativeRpc

(* What the job of a row write knows, by the inductive invariant. *)
LEMMA WriterFacts ==
  ASSUME IInv, NEW w \in Workers, EventRpc(w) \/ AuthoritativeRpc(w)
  PROVE  /\ job[w].sub \in Subs
         /\ row.content.rev \in Nat /\ job[w].got.rev \in Nat
         /\ row.sub \in Subs => row.content.rev <= stripe[row.sub].rev
         /\ row.version = 0 => row = NoRow
         /\ EventRpc(w) => /\ Fetched(job[w])
                           /\ job[w].event.created \in Nat \ {0}
         /\ AuthoritativeRpc(w) => GuardedFetch(job[w])
<1>1. job[w] \in Job /\ JobOK(job[w]) /\ row \in Row /\ RowOK
  BY JobFacts DEF IInv
<1>2. row.content.rev \in Nat /\ job[w].got.rev \in Nat
  BY <1>1 DEF Row, Job, Content
<1>3. CASE EventRpc(w)
  <2>1. /\ job[w].pc = "eventRpc" /\ job[w].sub \in Subs /\ Fetched(job[w])
        /\ job[w].event \in events
    BY <1>1, <1>3 DEF EventRpc, JobOK
  <2>2. ~AuthoritativeRpc(w)
    BY <2>1 DEF AuthoritativeRpc
  <2>3. job[w].event.created \in Nat \ {0}
    BY <2>1 DEF IInv, TypeOK, Event
  <2> QED
    BY <1>1, <1>2, <2>1, <2>2, <2>3 DEF RowOK
<1>4. CASE AuthoritativeRpc(w)
  <2>1. job[w].pc = "authRpc" /\ job[w].sub \in Subs /\ GuardedFetch(job[w])
    BY <1>1, <1>4 DEF AuthoritativeRpc, JobOK
  <2>2. ~EventRpc(w)
    BY <2>1 DEF EventRpc
  <2> QED
    BY <1>1, <1>2, <2>1, <2>2 DEF RowOK
<1> QED
  BY <1>3, <1>4

(* A write that keeps last_stripe_event_created does not put back an older  *)
(* state of the same subscription: an authoritative one because of its      *)
(* compare-and-swap, an equal-second event because only a terminal state,   *)
(* after which Stripe changes nothing, may be applied.                      *)
THEOREM EqualTimeNeverRegresses == Spec => EqualTimeWriteNeverRegresses
<1>1. ASSUME IInv, [Next]_vars, row' # row, row'.sub = row.sub, row'.ts = row.ts
      PROVE  row'.content.rev >= row.content.rev
  <2>1. PICK w \in Workers :
           \/ /\ EventRpc(w)
              /\ EventDecision(row, job[w].sub, job[w].event.created, job[w].got)
                   = "applied"
              /\ row' = Written(row, job[w].sub, job[w].event.created, job[w].got)
           \/ /\ AuthoritativeRpc(w)
              /\ AuthoritativeDecision(row, job[w].snap, job[w].purpose, job[w].sub)
                   = "applied"
              /\ row' = Written(row, job[w].sub, row.ts, job[w].got)
    BY <1>1, RowWrites
  <2>2. /\ job[w].sub \in Subs
        /\ row.content.rev \in Nat /\ job[w].got.rev \in Nat
        /\ row.sub \in Subs => row.content.rev <= stripe[row.sub].rev
        /\ row.version = 0 => row = NoRow
        /\ EventRpc(w) => Fetched(job[w])
        /\ AuthoritativeRpc(w) => GuardedFetch(job[w])
    BY <1>1, <2>1, WriterFacts
  <2>3. row'.content = job[w].got /\ row.sub = job[w].sub
    BY <1>1, <2>1 DEF Written
  <2>4. CASE EventRpc(w) /\ row'.ts = job[w].event.created
    <3>1. job[w].event.created = row.ts /\ row.version # 0
      BY <1>1, <2>2, <2>3, <2>4, SubsAssumption DEF NoRow
    <3>2. job[w].got.rev = row.content.rev \/ IsTerminal(job[w].got)
            \/ EventDecision(row, job[w].sub, job[w].event.created, job[w].got)
                 # "applied"
      BY <2>3, <3>1, JobFacts, <1>1 DEF EventDecision, IsTerminal
    <3>3. CASE EventDecision(row, job[w].sub, job[w].event.created, job[w].got)
                 = "applied"
      BY <2>2, <2>3, <2>4, <3>2, <3>3 DEF Fetched
    <3>4. CASE AuthoritativeRpc(w)
      BY <2>4, <3>4 DEF EventRpc, AuthoritativeRpc
    <3> QED
      BY <2>1, <3>3, <3>4
  <2>5. CASE AuthoritativeRpc(w) /\ SnapshotOf(row) = job[w].snap
    BY <2>2, <2>3, <2>5 DEF GuardedFetch
  <2> QED
    BY <2>1, <2>4, <2>5 DEF Written, AuthoritativeDecision
<1>2. IInv /\ [Next]_vars
        => [row'.sub = row.sub /\ row'.ts = row.ts
              => row'.content.rev >= row.content.rev]_row
  BY <1>1
<1> QED
  BY <1>2, Invariance, PTL DEF Spec, EqualTimeWriteNeverRegresses

(* Neither RPC lets another subscription replace one that is not terminal.  *)
THEOREM OnlyTerminalReplaced == Spec => OnlyTerminalIsReplaced
<1>1. ASSUME IInv, [Next]_vars, row' # row, row'.sub # row.sub
      PROVE  row.version = 0 \/ IsTerminal(row.content)
  <2>1. PICK w \in Workers :
           \/ /\ EventDecision(row, job[w].sub, job[w].event.created, job[w].got)
                   = "applied"
              /\ row' = Written(row, job[w].sub, job[w].event.created, job[w].got)
           \/ /\ AuthoritativeDecision(row, job[w].snap, job[w].purpose, job[w].sub)
                   = "applied"
              /\ row' = Written(row, job[w].sub, row.ts, job[w].got)
    BY <1>1, RowWrites
  <2>2. row'.sub = job[w].sub /\ row.version \in Nat
    BY <1>1, <2>1, JobFacts DEF Written
  <2> QED
    BY <1>1, <2>1, <2>2 DEF EventDecision, AuthoritativeDecision
<1>2. IInv /\ [Next]_vars
        => [row'.sub # row.sub => row.version = 0 \/ IsTerminal(row.content)]_row
  BY <1>1
<1> QED
  BY <1>2, Invariance, PTL DEF Spec, OnlyTerminalIsReplaced

(* last_stripe_event_created never runs back. *)
THEOREM EventTimeMonotone == Spec => EventTimeNeverRunsBack
<1>1. ASSUME IInv, [Next]_vars, row' # row PROVE row'.ts >= row.ts
  <2>1. PICK w \in Workers :
           \/ /\ EventRpc(w)
              /\ EventDecision(row, job[w].sub, job[w].event.created, job[w].got)
                   = "applied"
              /\ row' = Written(row, job[w].sub, job[w].event.created, job[w].got)
           \/ row' = Written(row, job[w].sub, row.ts, job[w].got)
    BY <1>1, RowWrites
  <2>2. row.ts \in Nat
    BY <1>1, <2>1, JobFacts
  <2>3. CASE row'.ts = row.ts
    BY <2>2, <2>3
  <2>4. CASE row'.ts # row.ts
    <3>1. /\ EventRpc(w) /\ row'.ts = job[w].event.created
          /\ EventDecision(row, job[w].sub, job[w].event.created, job[w].got)
               = "applied"
      BY <2>1, <2>4 DEF Written
    <3>2. /\ job[w].event.created \in Nat
          /\ row.version = 0 => row.ts = 0
      BY <1>1, <3>1, WriterFacts DEF NoRow
    <3> QED
      BY <2>2, <3>1, <3>2 DEF EventDecision
  <2> QED
    BY <2>3, <2>4
<1>2. IInv /\ [Next]_vars => [row'.ts >= row.ts]_row
  BY <1>1
<1> QED
  BY <1>2, Invariance, PTL DEF Spec, EventTimeNeverRunsBack

---------------------------------------------------------------------------
(* What was acknowledged stays stored *)

(* A delivery that has its content knows it to be as new as the event.  Its *)
(* reconcile, if it needs one, started from a row of the event's second.    *)
Rest(j) ==
    /\ j.pc # "idle" => 0 < stripe[j.sub].rev
    /\ j.pc \in {"check", "eventRpc"} => j.event.content.rev <= j.got.rev
    /\ j.pc \in {"snapshot", "aRetrieve", "authRpc", "reread"} /\ j.event # NoEvent =>
         j.event.created <= row.ts
    /\ j.pc = "authRpc" =>
         /\ 0 < j.got.rev
         /\ IsTerminal(j.got) => j.got = stripe[j.sub]
         /\ j.event # NoEvent => j.event.content.rev <= j.got.rev

RowLasts ==
    row.version > 0 =>
        /\ 0 < row.content.rev
        /\ IsTerminal(row.content) => row.content = stripe[row.sub]

(* The row shows the event, or something later. *)
Stored(e) ==
    mapped /\ OnlySubscription(e.sub) =>
        /\ row.version > 0 /\ row.sub = e.sub
        /\ e.content.rev <= row.content.rev
        /\ e.created <= row.ts

SInv ==
    /\ RowLasts
    /\ \A w \in Workers : Rest(job[w])
    /\ \A e \in done : Stored(e)

LEMMA IdleRests == Rest(Idle)
  BY DEF Rest, Idle

(* Of two subscriptions that exist neither is the only one. *)
LEMMA SameSubscription ==
  ASSUME NEW s \in Subs, NEW t \in Subs, OnlySubscription(s), 0 < stripe[t].rev
  PROVE  s = t
  BY DEF OnlySubscription

LEMMA EventFacts ==
  ASSUME IInv, NEW e \in events
  PROVE  /\ e \in Event /\ e.sub \in Subs /\ e.content.rev \in Nat
         /\ e.created \in Nat \ {0} /\ EventOK(e) /\ e # NoEvent
  BY SubsAssumption DEF IInv, TypeOK, Event, Content, NoEvent

LEMMA RowFacts ==
  ASSUME IInv, SInv
  PROVE  /\ row \in Row /\ row.version \in Nat /\ row.ts \in Nat /\ row.content.rev \in Nat
         /\ row.version = 0 => row.ts = 0
         /\ row.version > 0 => row.sub \in Subs /\ 0 < stripe[row.sub].rev
         /\ row.version > 0 => row.content.rev <= stripe[row.sub].rev
<1>1. /\ row \in Row /\ row.version \in Nat /\ row.ts \in Nat /\ row.content.rev \in Nat
  BY DEF IInv, TypeOK, Row, Content
<1>2. row.version = 0 => row.ts = 0
  BY DEF IInv, RowOK, NoRow
<1>3. row.version > 0 => row.sub \in Subs /\ row.content.rev <= stripe[row.sub].rev
  BY DEF IInv, RowOK
<1>4. \A t \in Subs : stripe[t].rev \in Nat
  BY DEF IInv, TypeOK, Content
<1>5. row.version > 0 => 0 < row.content.rev
  BY DEF SInv, RowLasts
<1> QED
  BY <1>1, <1>2, <1>3, <1>4, <1>5

(* A job's step that leaves Stripe and the row alone. *)
LEMMA RestStep ==
  ASSUME IInv, SInv, NEW w \in Workers, NEW j, Rest(j), SetJob(w, j),
         UNCHANGED <<stripe, mapped, row>>, \A e \in done' : e \in done \/ Stored(e)
  PROVE  SInv'
<1>1. \A v \in Workers : job'[v] = IF v = w THEN j ELSE job[v]
  BY DEF SetJob, IInv, TypeOK
<1>2. RowLasts'
  BY DEF SInv, RowLasts
<1>3. ASSUME NEW v \in Workers PROVE Rest(job[v])'
  <2>1. Rest(job'[v])
    BY <1>1 DEF SInv
  <2> QED
    BY <2>1 DEF Rest
<1>4. ASSUME NEW e \in done' PROVE Stored(e)'
  <2>1. Stored(e)
    BY <1>4 DEF SInv
  <2> QED
    BY <2>1 DEF Stored, OnlySubscription
<1> QED
  BY <1>2, <1>3, <1>4 DEF SInv

LEMMA FinishRests ==
  ASSUME IInv, SInv, NEW w \in Workers, UNCHANGED <<stripe, mapped, row>>,
         \/ Throw(w) \/ NotProcessed(w)
         \/ (Succeed(w) /\ (job[w].event # NoEvent => Stored(job[w].event)))
  PROVE  SInv'
<1>1. SetJob(w, Idle) /\ \A e \in done' : e \in done \/ Stored(e)
  BY DEF Throw, NotProcessed, Succeed
<1> QED
  BY <1>1, IdleRests, RestStep

(* What Stripe and time do leaves what jobs and row rely on. *)
LEMMA EnvironmentKeeps ==
  ASSUME IInv, IInv', SInv, UNCHANGED <<done, mapped, row, job>>,
         \A t \in Subs : /\ stripe[t].rev <= stripe'[t].rev
                         /\ stripe[t].rev > 0 /\ IsTerminal(stripe[t]) => stripe'[t] = stripe[t]
  PROVE  SInv'
<1>1. \A t \in Subs : stripe[t].rev \in Nat /\ stripe'[t].rev \in Nat
  BY DEF IInv, TypeOK, Content
<1>2. RowLasts'
  BY RowFacts DEF SInv, RowLasts, IsTerminal
<1>3. ASSUME NEW w \in Workers PROVE Rest(job[w])'
  <2>1. Rest(job[w]) /\ (job[w].pc # "idle" => job[w].sub \in Subs)
    BY JobFacts DEF SInv, JobOK
  <2> QED
    BY <1>1, <2>1 DEF Rest, IsTerminal
<1>4. ASSUME NEW e \in done' PROVE Stored(e)'
  <2>1. Stored(e)
    BY <1>4 DEF SInv
  <2>2. OnlySubscription(e.sub)' => OnlySubscription(e.sub)
    BY <1>1 DEF OnlySubscription
  <2> QED
    BY <2>1, <2>2 DEF Stored
<1> QED
  BY <1>2, <1>3, <1>4 DEF SInv

LEMMA StripeKeeps ==
  ASSUME IInv, IInv', SInv, NEW s \in Subs, StripeChange(s) \/ StripeNotifies(s)
  PROVE  SInv'
<1>1. stripe \in [Subs -> Content] /\ stripe[s].rev \in Nat
  BY DEF IInv, TypeOK, Content
<1>2. UNCHANGED <<done, mapped, row, job>>
  BY DEF StripeChange, StripeNotifies
<1>3. CASE StripeChange(s)
  <2>1. PICK st \in Statuses :
          stripe' = [stripe EXCEPT ![s] = [status |-> st, rev |-> stripe[s].rev + 1]]
    BY <1>3 DEF StripeChange
  <2>2. ~(stripe[s].rev > 0 /\ IsTerminal(stripe[s]))
    BY <1>1, <1>3 DEF StripeChange
  <2>3. \A t \in Subs : stripe[t].rev \in Nat
    BY <1>1 DEF Content
  <2>4. ASSUME NEW t \in Subs
        PROVE  /\ stripe[t].rev <= stripe'[t].rev
               /\ stripe[t].rev > 0 /\ IsTerminal(stripe[t]) => stripe'[t] = stripe[t]
    BY <1>1, <2>1, <2>2, <2>3
  <2> QED
    BY <1>2, <2>4, EnvironmentKeeps
<1>4. CASE StripeNotifies(s)
  <2>1. stripe' = stripe /\ \A t \in Subs : stripe[t].rev \in Nat
    BY <1>1, <1>4 DEF StripeNotifies, Content
  <2> QED
    BY <1>2, <2>1, EnvironmentKeeps
<1> QED
  BY <1>3, <1>4

(* A delivery may end without a write when the row has the event already:   *)
(* it is ahead in time, or in the event's second and no older.              *)
LEMMA AheadStores ==
  ASSUME IInv, SInv, NEW e \in events, row.version > 0,
         e.created < row.ts \/ (e.created = row.ts /\ e.content.rev <= row.content.rev)
  PROVE  Stored(e)
<1> SUFFICES ASSUME OnlySubscription(e.sub)
             PROVE  /\ row.sub = e.sub /\ e.content.rev <= row.content.rev
                    /\ e.created <= row.ts
  BY DEF Stored
<1>1. row.sub = e.sub
  BY EventFacts, RowFacts, SameSubscription
<1>2. e.created < row.ts => e.content.rev <= row.content.rev
  BY <1>1 DEF IInv, RowOK, CoversUpTo
<1> QED
  BY <1>1, <1>2, EventFacts, RowFacts

LEMMA DeliverRests ==
  ASSUME IInv, SInv, NEW w \in Workers, NEW e \in events, Deliver(w, e)
  PROVE  SInv'
<1> DEFINE j == [Idle EXCEPT !.pc = IF e.deleted THEN "check" ELSE "retrieve",
                              !.event = e, !.sub = e.sub,
                              !.got = IF e.deleted THEN e.content ELSE NoContent]
<1>1. /\ j.event = e /\ j.sub = e.sub
      /\ j.pc = IF e.deleted THEN "check" ELSE "retrieve"
      /\ e.deleted => j.got = e.content
  BY DEF Idle
<1>2. /\ EventOK(e) /\ e.sub \in Subs /\ e.content.rev \in Nat /\ stripe[e.sub].rev \in Nat
  BY EventFacts DEF IInv, TypeOK, Content
<1>3. SetJob(w, j) /\ UNCHANGED <<stripe, mapped, row, done>>
  BY DEF Deliver, env
<1> HIDE DEF j
<1>4. Rest(j)
  BY <1>1, <1>2 DEF Rest, EventOK
<1> QED
  BY <1>3, <1>4, RestStep

LEMMA RetrieveForEventRests ==
  ASSUME IInv, SInv, NEW w \in Workers, RetrieveForEvent(w)
  PROVE  SInv'
<1> DEFINE j == [job[w] EXCEPT !.pc = "check", !.got = stripe[job[w].sub]]
<1>1. /\ job[w] \in Job /\ JobOK(job[w]) /\ job[w].pc = "retrieve" /\ Rest(job[w])
  BY JobFacts DEF RetrieveForEvent, SInv
<1>2. /\ j.event = job[w].event /\ j.sub = job[w].sub /\ j.pc = "check"
      /\ j.got = stripe[job[w].sub]
  BY <1>1 DEF Job
<1>3. EventOK(job[w].event) /\ job[w].event.sub = job[w].sub
  BY <1>1, EventFacts DEF JobOK
<1>4. SetJob(w, j) /\ UNCHANGED <<stripe, mapped, row, done>>
  BY DEF RetrieveForEvent, env
<1> HIDE DEF j
<1>5. Rest(j)
  BY <1>1, <1>2, <1>3 DEF Rest, EventOK
<1> QED
  BY <1>4, <1>5, RestStep

(* With supported statuses only, the early returns of a delivery are taken  *)
(* for a customer nobody knows, for another current subscription, or when   *)
(* the row is ahead.                                                        *)
LEMMA CheckForEventRests ==
  ASSUME UnsupportedStatuses = {}, IInv, SInv, NEW w \in Workers, CheckForEvent(w)
  PROVE  SInv'
<1> DEFINE j == job[w]
<1>1. /\ j \in Job /\ JobOK(j) /\ j.pc = "check" /\ Rest(j)
  BY JobFacts DEF CheckForEvent, SInv
<1>2. j.event \in events /\ j.event # NoEvent /\ j.event.sub = j.sub /\ j.sub \in Subs
  BY <1>1 DEF JobOK
<1>3. UNCHANGED <<stripe, mapped, row>>
  BY DEF CheckForEvent, env
<1>4. CASE Goto(w, "eventRpc") /\ UNCHANGED done
  <2> DEFINE k == [j EXCEPT !.pc = "eventRpc"]
  <2>1. k.event = j.event /\ k.sub = j.sub /\ k.pc = "eventRpc" /\ k.got = j.got
    BY <1>1 DEF Job
  <2>2. SetJob(w, k)
    BY <1>4 DEF Goto
  <2> HIDE DEF k
  <2>3. Rest(k)
    BY <1>1, <2>1 DEF Rest
  <2> QED
    BY <1>3, <1>4, <2>2, <2>3, RestStep
<1>5. CASE Succeed(w) /\ (~mapped \/ IgnoresNonCurrent(row, j.sub) \/ j.event.created < row.ts)
  <2>1. CASE ~mapped
    BY <1>3, <1>5, <2>1, FinishRests DEF Stored
  <2>2. CASE IgnoresNonCurrent(row, j.sub)
    <3>1. row.sub # j.sub /\ row.sub \in Subs /\ 0 < stripe[row.sub].rev
      BY <2>2, RowFacts DEF IgnoresNonCurrent
    <3>2. ~OnlySubscription(j.event.sub)
      BY <1>2, <3>1, SameSubscription
    <3> QED
      BY <1>3, <1>5, <3>2, FinishRests DEF Stored
  <2>3. CASE j.event.created < row.ts
    <3>1. row.version > 0
      BY <1>2, <2>3, EventFacts, RowFacts
    <3>2. Stored(j.event)
      BY <1>2, <2>3, <3>1, AheadStores
    <3> QED
      BY <1>3, <1>5, <3>2, FinishRests
  <2> QED
    BY <1>5, <2>1, <2>2, <2>3
<1> QED
  BY <1>4, <1>5 DEF CheckForEvent

LEMMA StartCheckoutSyncRests ==
  ASSUME IInv, SInv, NEW w \in Workers, NEW s \in Subs, StartCheckoutSync(w, s)
  PROVE  SInv'
<1> DEFINE j == [Idle EXCEPT !.pc = "snapshot", !.sub = s,
                              !.purpose = "checkout_completion"]
<1>1. j.pc = "snapshot" /\ j.event = NoEvent /\ j.sub = s
  BY DEF Idle
<1>2. SetJob(w, j) /\ UNCHANGED <<stripe, mapped, row, done>> /\ stripe[s].rev > 0
  BY DEF StartCheckoutSync, env
<1>3. stripe[s].rev \in Nat
  BY DEF IInv, TypeOK, Content
<1> HIDE DEF j
<1>4. Rest(j)
  BY <1>1, <1>2, <1>3 DEF Rest
<1> QED
  BY <1>2, <1>4, RestStep

LEMMA StartReconcileRests ==
  ASSUME IInv, SInv, NEW w \in Workers, StartReconcile(w)
  PROVE  SInv'
<1> DEFINE j == [Idle EXCEPT !.pc = "aRetrieve", !.sub = row.sub,
                              !.purpose = "reconcile_current",
                              !.snap = SnapshotOf(row)]
<1>1. j.pc = "aRetrieve" /\ j.event = NoEvent /\ j.sub = row.sub
  BY DEF Idle
<1>2. /\ SetJob(w, j) /\ UNCHANGED <<stripe, mapped, row, done>> /\ row.version > 0
  BY DEF StartReconcile, env
<1> HIDE DEF j
<1>3. Rest(j)
  BY <1>1, <1>2, RowFacts DEF Rest
<1> QED
  BY <1>2, <1>3, RestStep

(* A job goes on, with what it has, to a step that only needs the second.   *)
LEMMA GoesOn ==
  ASSUME IInv, SInv, NEW w \in Workers, NEW k,
         k.pc \in {"snapshot", "aRetrieve", "reread"}, k.sub = job[w].sub,
         k.event = job[w].event, job[w].pc \in {"snapshot", "aRetrieve", "authRpc", "reread"},
         SetJob(w, k), UNCHANGED <<stripe, mapped, row, done>>
  PROVE  SInv'
<1>1. Rest(job[w])
  BY DEF SInv
<1>2. Rest(k)
  BY <1>1 DEF Rest
<1> QED
  BY <1>2, RestStep

LEMMA ReadSnapshotRests ==
  ASSUME IInv, SInv, NEW w \in Workers, ReadSnapshot(w) \/ RereadForRetry(w)
  PROVE  SInv'
<1> DEFINE j == [job[w] EXCEPT !.pc = "aRetrieve", !.snap = SnapshotOf(row)]
           k == [job[w] EXCEPT !.pc = "aRetrieve", !.retried = TRUE, !.snap = SnapshotOf(row)]
<1>1. job[w] \in Job /\ job[w].pc \in {"snapshot", "reread"}
  BY JobFacts DEF ReadSnapshot, RereadForRetry
<1>2. UNCHANGED <<stripe, mapped, row>>
  BY DEF ReadSnapshot, RereadForRetry, env
<1>3. /\ j.pc = "aRetrieve" /\ j.sub = job[w].sub /\ j.event = job[w].event
      /\ k.pc = "aRetrieve" /\ k.sub = job[w].sub /\ k.event = job[w].event
  BY <1>1 DEF Job
<1>4. Throw(w) \/ NotProcessed(w) \/ ((SetJob(w, j) \/ SetJob(w, k)) /\ UNCHANGED done)
  BY DEF ReadSnapshot, RereadForRetry
<1> HIDE DEF j, k
<1> QED
  BY <1>1, <1>2, <1>3, <1>4, GoesOn, FinishRests

LEMMA RetrieveAuthoritativeRests ==
  ASSUME IInv, SInv, NEW w \in Workers, RetrieveAuthoritative(w)
  PROVE  SInv'
<1> DEFINE j == [job[w] EXCEPT !.pc = "authRpc", !.got = stripe[job[w].sub]]
<1>1. /\ job[w] \in Job /\ JobOK(job[w]) /\ job[w].pc = "aRetrieve" /\ Rest(job[w])
  BY JobFacts DEF RetrieveAuthoritative, SInv
<1>2. UNCHANGED <<stripe, mapped, row>>
  BY DEF RetrieveAuthoritative, env
<1>3. /\ j.event = job[w].event /\ j.sub = job[w].sub /\ j.pc = "authRpc"
      /\ j.got = stripe[job[w].sub]
  BY <1>1 DEF Job
<1>4. NotProcessed(w) \/ (SetJob(w, j) /\ UNCHANGED done)
  BY DEF RetrieveAuthoritative
<1> HIDE DEF j
<1>5. job[w].event # NoEvent => EventOK(job[w].event) /\ job[w].event.sub = job[w].sub
  BY <1>1, EventFacts DEF JobOK
<1>6. Rest(j)
  BY <1>1, <1>3, <1>5 DEF Rest, EventOK
<1> QED
  BY <1>2, <1>4, <1>6, RestStep, FinishRests

(* A write may replace the row when it covers, in revision and in time,     *)
(* whatever has been acknowledged.                                          *)
LEMMA WriteKeeps ==
  ASSUME IInv, SInv, NEW w \in Workers, NEW s \in Subs, NEW ts \in Nat, row.ts <= ts,
         NEW c \in Content, 0 < c.rev, IsTerminal(c) => c = stripe[s],
         row' = Written(row, s, ts, c), Succeed(w), UNCHANGED <<stripe, mapped>>,
         \A e \in done' : mapped /\ OnlySubscription(e.sub) =>
                            s = e.sub /\ e.content.rev <= c.rev /\ e.created <= ts
  PROVE  SInv'
<1>1. /\ row'.sub = s /\ row'.ts = ts /\ row'.content = c /\ row'.version > 0
  BY RowFacts, WrittenType
<1>2. \A v \in Workers : job'[v] = IF v = w THEN Idle ELSE job[v]
  BY DEF Succeed, SetJob, IInv, TypeOK
<1>3. RowLasts'
  BY <1>1 DEF RowLasts, IsTerminal
<1>4. ASSUME NEW v \in Workers PROVE Rest(job[v])'
  <2>1. Rest(job'[v])
    BY <1>2, IdleRests DEF SInv
  <2>2. job'[v].pc # "idle" /\ job'[v].event # NoEvent => job'[v].event \in events
    BY <1>2, JobFacts DEF JobOK, Idle
  <2>3. job'[v].pc # "idle" /\ job'[v].event # NoEvent => job'[v].event.created \in Nat
    BY <2>2, EventFacts
  <2> QED
    BY <1>1, <2>1, <2>3, RowFacts DEF Rest, IsTerminal
<1>5. ASSUME NEW e \in done' PROVE Stored(e)'
  BY <1>1, <1>5 DEF Stored, OnlySubscription
<1> QED
  BY <1>3, <1>4, <1>5 DEF SInv

(* An event that is applied covers what was acknowledged before it: those   *)
(* events are not later than the row, so older than its own event, or the   *)
(* row's subscription has ended and nothing came after.                     *)
LEMMA EventRpcRests ==
  ASSUME IInv, SInv, NEW w \in Workers, EventRpc(w)
  PROVE  SInv'
<1> DEFINE j == job[w]
           reason == EventDecision(row, j.sub, j.event.created, j.got)
<1>1. /\ j \in Job /\ JobOK(j) /\ j.pc = "eventRpc" /\ Rest(j)
      /\ j.got \in Content /\ j.got.rev \in Nat
  BY JobFacts DEF EventRpc, SInv
<1>2. /\ j.event \in events /\ j.event # NoEvent /\ j.event.sub = j.sub /\ j.sub \in Subs
      /\ Fetched(j)
  BY <1>1 DEF JobOK
<1>3. /\ j.event.created \in Nat \ {0} /\ j.event.content.rev \in Nat /\ EventOK(j.event)
      /\ 0 < stripe[j.sub].rev /\ j.event.content.rev <= j.got.rev
  BY <1>1, <1>2, EventFacts DEF Rest
<1>4. UNCHANGED <<stripe, mapped>>
  BY DEF EventRpc, env
<1>5. CASE reason = "applied"
  <2>1. row' = Written(row, j.sub, j.event.created, j.got) /\ Succeed(w)
    BY <1>5 DEF EventRpc
  <2>2. row.ts <= j.event.created
    BY <1>3, <1>5, RowFacts DEF EventDecision
  <2>3. ASSUME NEW e \in done', mapped, OnlySubscription(e.sub)
        PROVE  j.sub = e.sub /\ e.content.rev <= j.got.rev /\ e.created <= j.event.created
    <3>1. CASE e = j.event
      BY <1>2, <1>3, <3>1
    <3>2. CASE e \in done
      <4>1. e \in events /\ e.sub \in Subs /\ e.created \in Nat /\ e.content.rev \in Nat
        BY <3>2, EventFacts DEF IInv, TypeOK
      <4>2. /\ row.version > 0 /\ row.sub = e.sub /\ e.content.rev <= row.content.rev
            /\ e.created <= row.ts
        BY <2>3, <3>2 DEF SInv, Stored
      <4>3. j.sub = e.sub
        BY <1>2, <1>3, <2>3, <4>1, SameSubscription
      <4>4. e.created <= j.event.created
        BY <1>3, <2>2, <4>1, <4>2, RowFacts
      <4>5. CASE row.ts < j.event.created
        <5>1. e.created < j.event.created
          BY <1>3, <4>1, <4>2, <4>5, RowFacts
        <5>2. e.content.rev <= j.got.rev
          BY <1>2, <4>1, <4>3, <5>1 DEF Fetched, CoversUpTo
        <5> QED
          BY <4>3, <4>4, <5>2
      <4>6. CASE row.ts = j.event.created
        <5>1. j.got = row.content \/ IsTerminal(j.got)
          BY <1>5, <4>2, <4>3, <4>6 DEF EventDecision
        <5>2. j.got = row.content \/ j.got = stripe[row.sub]
          BY <1>2, <4>2, <4>3, <5>1 DEF Fetched
        <5>3. e.content.rev <= j.got.rev
          BY <4>1, <4>2, <5>2, <1>1, RowFacts
        <5> QED
          BY <4>3, <4>4, <5>3
      <4> QED
        BY <1>3, <2>2, <4>5, <4>6, RowFacts
    <3> QED
      BY <2>1, <2>3, <3>1, <3>2 DEF Succeed
  <2>4. 0 < j.got.rev /\ (IsTerminal(j.got) => j.got = stripe[j.sub])
    BY <1>2 DEF Fetched
  <2> QED
    BY <1>1, <1>2, <1>3, <1>4, <2>1, <2>2, <2>3, <2>4, WriteKeeps
<1>6. CASE reason \in {"equal_timestamp_conflict", "equal_cross_subscription_conflict"}
  <2> DEFINE k == [j EXCEPT !.pc = "snapshot", !.got = NoContent,
                            !.purpose = "reconcile_current"]
  <2>1. k.pc = "snapshot" /\ k.sub = j.sub /\ k.event = j.event
    BY <1>1 DEF Job
  <2>2. SetJob(w, k) /\ UNCHANGED <<row, done>>
    BY <1>6 DEF EventRpc
  <2> HIDE DEF k
  <2>3. j.event.created <= row.ts
    BY <1>3, <1>6, RowFacts DEF EventDecision
  <2>4. Rest(k)
    BY <1>3, <2>1, <2>3 DEF Rest
  <2> QED
    BY <1>4, <2>2, <2>4, RestStep
<1>7. CASE /\ reason # "applied"
           /\ reason \notin {"equal_timestamp_conflict", "equal_cross_subscription_conflict"}
  <2>1. Succeed(w) /\ UNCHANGED row
    BY <1>7 DEF EventRpc
  <2>2. row.version > 0
    BY <1>7, RowFacts DEF EventDecision
  <2>3. CASE reason = "non_current_ignored"
    <3>1. j.sub # row.sub
      BY <2>3 DEF EventDecision
    <3>2. ~OnlySubscription(j.event.sub)
      BY <1>2, <2>2, <3>1, RowFacts, SameSubscription
    <3> QED
      BY <1>4, <2>1, <3>2, FinishRests DEF Stored
  <2>4. CASE reason # "non_current_ignored"
    <3>1. \/ j.event.created < row.ts
          \/ /\ j.event.created = row.ts /\ j.sub = row.sub
             /\ j.got = row.content \/ IsTerminal(row.content)
      BY <1>3, <1>7, <2>2, <2>4, RowFacts DEF EventDecision
    <3>2. j.sub = row.sub /\ IsTerminal(row.content) => j.event.content.rev <= row.content.rev
      BY <1>2, <1>3, <2>2 DEF SInv, RowLasts, EventOK
    <3>3. \/ j.event.created < row.ts
          \/ j.event.created = row.ts /\ j.event.content.rev <= row.content.rev
      BY <1>3, <3>1, <3>2
    <3>4. Stored(j.event)
      BY <1>2, <2>2, <3>3, AheadStores
    <3> QED
      BY <1>4, <2>1, <3>4, FinishRests
  <2> QED
    BY <2>3, <2>4
<1> QED
  BY <1>5, <1>6, <1>7

(* A refresh under its guard writes what is at least as new as the row, and *)
(* keeps the row's time.                                                    *)
LEMMA AuthoritativeRpcRests ==
  ASSUME IInv, SInv, NEW w \in Workers, AuthoritativeRpc(w)
  PROVE  SInv'
<1> DEFINE j == job[w]
           decision == AuthoritativeDecision(row, j.snap, j.purpose, j.sub)
<1>1. /\ j \in Job /\ JobOK(j) /\ j.pc = "authRpc" /\ Rest(j)
      /\ j.got \in Content /\ j.got.rev \in Nat
  BY JobFacts DEF AuthoritativeRpc, SInv
<1>2. /\ j.sub \in Subs /\ GuardedFetch(j) /\ 0 < stripe[j.sub].rev
      /\ 0 < j.got.rev /\ (IsTerminal(j.got) => j.got = stripe[j.sub])
  BY <1>1 DEF JobOK, Rest
<1>3. UNCHANGED <<stripe, mapped>>
  BY DEF AuthoritativeRpc, env
<1>4. CASE decision = "applied"
  <2>1. row' = Written(row, j.sub, row.ts, j.got) /\ Succeed(w)
    BY <1>4 DEF AuthoritativeRpc
  <2>2. SnapshotOf(row) = j.snap
    BY <1>4 DEF AuthoritativeDecision
  <2>3. ASSUME NEW e \in done', mapped, OnlySubscription(e.sub)
        PROVE  j.sub = e.sub /\ e.content.rev <= j.got.rev /\ e.created <= row.ts
    <3>1. CASE e = j.event /\ j.event # NoEvent
      BY <1>1, <3>1 DEF JobOK, Rest
    <3>2. CASE e \in done
      <4>1. e \in events /\ e.sub \in Subs /\ e.content.rev \in Nat
        BY <3>2, EventFacts DEF IInv, TypeOK
      <4>2. /\ row.version > 0 /\ row.sub = e.sub /\ e.content.rev <= row.content.rev
            /\ e.created <= row.ts
        BY <2>3, <3>2 DEF SInv, Stored
      <4>3. j.sub = e.sub
        BY <1>2, <2>3, <4>1, SameSubscription
      <4>4. row.content.rev <= j.got.rev
        BY <1>2, <2>2, <4>2, <4>3 DEF GuardedFetch
      <4> QED
        BY <1>1, <4>1, <4>2, <4>3, <4>4, RowFacts
    <3> QED
      BY <2>1, <3>1, <3>2 DEF Succeed
  <2> QED
    BY <1>1, <1>2, <1>3, <2>1, <2>3, RowFacts, WriteKeeps
<1>5. CASE decision # "applied"
  <2>1. UNCHANGED row /\ (NotProcessed(w) \/ (Goto(w, "reread") /\ UNCHANGED done))
    BY <1>1, <1>5 DEF AuthoritativeRpc, Job
  <2>2. CASE NotProcessed(w)
    BY <1>3, <2>1, <2>2, FinishRests
  <2>3. CASE Goto(w, "reread") /\ UNCHANGED done
    <3> DEFINE k == [j EXCEPT !.pc = "reread"]
    <3>1. k.pc = "reread" /\ k.sub = j.sub /\ k.event = j.event
      BY <1>1 DEF Job
    <3>2. SetJob(w, k)
      BY <2>3 DEF Goto
    <3> HIDE DEF k
    <3> QED
      BY <1>1, <1>3, <2>1, <2>3, <3>1, <3>2, GoesOn
  <2> QED
    BY <2>1, <2>2, <2>3
<1> QED
  BY <1>4, <1>5

LEMMA NextRests ==
  ASSUME UnsupportedStatuses = {}, IInv, IInv', SInv, [Next]_vars
  PROVE  SInv'
<1>1. CASE Tick \/ UNCHANGED vars
  <2>1. UNCHANGED <<stripe, done, mapped, row, job>>
    BY <1>1 DEF Tick, vars
  <2>2. \A t \in Subs : stripe[t].rev \in Nat
    BY DEF IInv, TypeOK, Content
  <2> QED
    BY <2>1, <2>2, EnvironmentKeeps
<1>2. ASSUME NEW s \in Subs, StripeChange(s) \/ StripeNotifies(s) PROVE SInv'
  BY <1>2, StripeKeeps
<1>3. ASSUME NEW w \in Workers, NEW e \in events, Deliver(w, e) PROVE SInv'
  BY <1>3, DeliverRests
<1>4. ASSUME NEW w \in Workers, NEW s \in Subs, StartCheckoutSync(w, s) PROVE SInv'
  BY <1>4, StartCheckoutSyncRests
<1>5. ASSUME NEW w \in Workers, StartReconcile(w) PROVE SInv'
  BY <1>5, StartReconcileRests
<1>6. ASSUME NEW w \in Workers, Fail(w) PROVE SInv'
  BY <1>6, FinishRests DEF Fail, env
<1>7. ASSUME NEW w \in Workers, WorkerStep(w) PROVE SInv'
  BY <1>7, RetrieveForEventRests, CheckForEventRests, EventRpcRests, ReadSnapshotRests,
     RetrieveAuthoritativeRests, AuthoritativeRpcRests DEF WorkerStep
<1> QED
  BY <1>1, <1>2, <1>3, <1>4, <1>5, <1>6, <1>7 DEF Next

LEMMA InitRests == Init => SInv
<1>1. Init => row.version = 0 /\ done = {} /\ \A w \in Workers : job[w] = Idle
  BY DEF Init, NoRow
<1> QED
  BY <1>1, IdleRests DEF SInv, RowLasts

(* Where every status is one the program supports: once a delivery for a    *)
(* user's only subscription has been acknowledged, the row shows the change *)
(* it announced or a later one, and no job's write ever undoes that.        *)
THEOREM AcknowledgedStaysStored ==
  ASSUME UnsupportedStatuses = {}
  PROVE  Spec => []AcknowledgedIsStored
<1>1. IInv /\ IInv' /\ SInv /\ [Next]_vars => SInv'
  BY NextRests
<1>2. SInv => AcknowledgedIsStored
  BY DEF SInv, Stored, AcknowledgedIsStored
<1> QED
  BY InitRests, <1>1, <1>2, Invariance, PTL DEF Spec

===========================================================================
