-------------------------- MODULE JobStorageProofs --------------------------
(***************************************************************************)
(* Proofs about JobStorage, for any limits, jobs, billing rows, price      *)
(* lists, requests and failures.                                           *)
(*                                                                         *)
(* The rank of a job is a strict total order (RankIsTotal), so a finite    *)
(* set of jobs has a first and a last one.  From these: the best n of a    *)
(* set are at most n (BestAreFew), and exactly n if any job is left out    *)
(* (BestAreEnough).  The action properties then need no invariant but the  *)
(* types: every storage function classifies the billing row again, under   *)
(* the lock under which it writes.                                         *)
(***************************************************************************)
EXTENDS JobStorage, SumTheorems

---------------------------------------------------------------------------
(* The classifications *)

(* Every row is classified, and never as unavailable, which only a failed   *)
(* read is (classifyConfirmedBillingStatusForStorage).                      *)
LEMMA StatusesAreKnown ==
    ASSUME NEW row \in BillingRow, NEW now \in Int
    PROVE  /\ ServerStatus(row, now) \in StorageStatuses \ {"billing_unavailable"}
           /\ DatabaseStatus(row, now) \in StorageStatuses \ {"billing_unavailable"}
<1>1. ActiveStatus(row, now) \in StorageStatuses \ {"billing_unavailable"}
  BY DEF ActiveStatus, StorageStatuses, Premium
<1>2. InactiveStatus(row) \in StorageStatuses \ {"billing_unavailable"}
  BY DEF InactiveStatus, StorageStatuses, Premium
<1>3. WithoutSubscription(row) \in StorageStatuses \ {"billing_unavailable"}
  BY DEF WithoutSubscription, StorageStatuses, Premium
<1> QED
  BY <1>1, <1>2, <1>3 DEF ServerStatus, DatabaseStatus

(* The only disagreement: an active subscription whose price is not on the  *)
(* allowlist is Premium for the database (018:83) and under review for the  *)
(* server.                                                                  *)
THEOREM OnlyThePriceDivides ==
    ASSUME NEW row \in BillingRow, NEW now \in Int
    PROVE  \/ ServerStatus(row, now) = DatabaseStatus(row, now)
           \/ /\ row.held /\ row.status = "active" /\ row.price \notin Allowlist
              /\ ServerStatus(row, now) = "non_entitled_non_terminal"
              /\ DatabaseStatus(row, now) = ActiveStatus(row, now)
<1>1. CASE row.held /\ row.status = "active"
  <2>1. InactiveStatus(row) = "non_entitled_non_terminal"
    BY <1>1 DEF InactiveStatus
  <2> QED
    BY <1>1, <2>1 DEF ServerStatus, DatabaseStatus, Entitled
<1>2. CASE ~(row.held /\ row.status = "active")
  BY <1>2 DEF ServerStatus, DatabaseStatus, Entitled
<1> QED
  BY <1>1, <1>2

(* What locks or deletes jobs is agreed on whatever the price: both say     *)
(* terminal Free or neither does (isAutomaticOverflowLockEligible and the   *)
(* test of the storage functions of migrations 018 and 020).                *)
THEOREM TerminalFreeIsAgreed ==
    ASSUME NEW row \in BillingRow, NEW now \in Int
    PROVE  LockEligibleStatus(ServerStatus(row, now))
              <=> LockEligibleStatus(DatabaseStatus(row, now))
<1>1. ActiveStatus(row, now) # "terminal_free"
  BY DEF ActiveStatus
<1> QED
  BY <1>1, OnlyThePriceDivides DEF LockEligibleStatus

(* The database grants whatever the server grants, so a request that is     *)
(* not stale is never refused as stale.                                     *)
THEOREM ServerPremiumIsDatabasePremium ==
    ASSUME NEW row \in BillingRow, NEW now \in Int, ServerStatus(row, now) \in Premium
    PROVE  DatabaseStatus(row, now) = ServerStatus(row, now)
BY OnlyThePriceDivides DEF Premium

(* The database reads its clock after the server has read its own.  All a   *)
(* later clock can do to a row is end the paid period of a canceling        *)
(* subscription; no other class depends on it (hasFutureCurrentPeriodEnd).  *)
THEOREM TimeOnlyEndsPeriods ==
    ASSUME NEW row \in BillingRow, NEW now \in Int, NEW later \in Int, now <= later
    PROVE  \/ DatabaseStatus(row, later) = DatabaseStatus(row, now)
           \/ /\ DatabaseStatus(row, now) = "premium_canceling"
              /\ DatabaseStatus(row, later) = "billing_reconciliation_pending"
<1>1. row.end \in Int
  BY DEF BillingRow
<1>2. PaidUntilLater(row, later) => PaidUntilLater(row, now)
  BY <1>1 DEF PaidUntilLater
<1>3. \/ ActiveStatus(row, later) = ActiveStatus(row, now)
      \/ /\ ActiveStatus(row, now) = "premium_canceling"
         /\ ActiveStatus(row, later) = "billing_reconciliation_pending"
  BY <1>2 DEF ActiveStatus
<1> QED
  BY <1>3 DEF DatabaseStatus

(* No user may both use Premium storage and start a checkout: where         *)
(* canStartCheckout lets one start, storage is closed, waiting or under     *)
(* review, and never Premium or in dunning.                                 *)
THEOREM CheckoutOnlyWithoutPlan ==
    ASSUME NEW row \in BillingRow, NEW now \in Int, CanStartCheckout(row)
    PROVE  /\ ~Entitled(row)
           /\ CreateFlow(ServerStatus(row, now)) # "apply_premium_limit"
           /\ ServerStatus(row, now)
                 \in {"terminal_free", "sync_pending", "non_entitled_non_terminal"}
<1>1. row.held => row.status \in {"canceled", "incomplete_expired"}
  BY DEF CanStartCheckout
<1>2. ~Entitled(row)
  BY <1>1 DEF Entitled
<1>3. ServerStatus(row, now) \in {"terminal_free", "sync_pending", "non_entitled_non_terminal"}
  <2>1. WithoutSubscription(row) \in {"terminal_free", "sync_pending"}
    BY DEF WithoutSubscription
  <2>2. row.held => InactiveStatus(row) \in {"terminal_free", "non_entitled_non_terminal"}
    BY <1>1 DEF InactiveStatus
  <2> QED
    BY <1>2, <2>1, <2>2 DEF ServerStatus
<1>4. CreateFlow(ServerStatus(row, now)) # "apply_premium_limit"
  BY <1>3 DEF CreateFlow, Premium
<1> QED
  BY <1>2, <1>3, <1>4

---------------------------------------------------------------------------
(* The storage functions *)

(* Where a request is about to write a job, it has found one, in a state in *)
(* which it may.                                                            *)
Targeted(r) == r.target \in JobIds /\ MayAccess(r.op, r.observed, r.seen)
TargetsExist == \A w \in Workers : job[w].pc = "write" => Targeted(job[w])

IInv == TypeOK /\ TargetsExist

---------------------------------------------------------------------------
(* Order *)

LEMMA GreatestExists ==
    ASSUME NEW n \in Nat, NEW S, S \subseteq 0..n, S # {}
    PROVE  \E x \in S : \A y \in S : y <= x
<1> DEFINE Below == {n - y : y \in S}
<1>1. Below \subseteq Nat /\ Below # {}
  <2>1. \A y \in S : n - y \in Nat
    OBVIOUS
  <2> QED
    BY <2>1
<1>2. PICK b \in Below : \A c \in Below : b <= c
  BY <1>1, LeastNumber
<1>3. PICK x \in S : b = n - x
  OBVIOUS
<1>4. \A y \in S : n - x <= n - y
  BY <1>2, <1>3
<1> QED
  BY <1>4

LEMMA RowFacts ==
    ASSUME rows \in [JobIds -> Row]
    PROVE  /\ JobIds \subseteq 0..MaxJobs /\ MaxJobs \in Nat
           /\ \A j \in JobIds : /\ rows[j].priority \in 0..3
                                /\ rows[j].state \in {"unborn", "active", "locked", "deleted"}
  BY BoundAssumption DEF JobIds, Row

LEMMA RankIsTotal ==
    ASSUME rows \in [JobIds -> Row]
    PROVE  /\ \A j, k \in JobIds : j # k => Outranks(j, k) \/ Outranks(k, j)
           /\ \A j, k \in JobIds : ~(Outranks(j, k) /\ Outranks(k, j))
           /\ \A i, j, k \in JobIds : Outranks(i, j) /\ Outranks(j, k) => Outranks(i, k)
  BY RowFacts DEF Outranks

LEMMA FirstExists ==
    ASSUME rows \in [JobIds -> Row], NEW T, T \subseteq JobIds, T # {}
    PROVE  \E m \in T : \A k \in T \ {m} : Outranks(m, k)
<1> USE RowFacts
<1> DEFINE Ps == {rows[j].priority : j \in T}
<1>1. PICK p \in Ps : \A q \in Ps : p <= q
  <2>1. Ps \subseteq Nat /\ Ps # {}
    OBVIOUS
  <2> HIDE DEF Ps
  <2> QED
    BY <2>1, LeastNumber
<1> DEFINE Top == {j \in T : rows[j].priority = p}
<1>2. Top # {}
  OBVIOUS
<1>3. PICK m \in Top : \A k \in Top : k <= m
  <2>1. Top \subseteq 0..MaxJobs /\ MaxJobs \in Nat
    OBVIOUS
  <2> HIDE DEF Top
  <2> QED
    BY <1>2, <2>1, GreatestExists
<1>4. ASSUME NEW k \in T \ {m}
      PROVE  Outranks(m, k)
  <2>1. rows[m].priority <= rows[k].priority
    BY <1>1
  <2>2. rows[m].priority = rows[k].priority => k <= m
    BY <1>3
  <2>3. k \in Nat /\ m \in Nat /\ rows[m].priority \in Int /\ rows[k].priority \in Int
    OBVIOUS
  <2> QED
    BY <2>1, <2>2, <2>3 DEF Outranks
<1> QED
  BY <1>4

LEMMA LastExists ==
    ASSUME rows \in [JobIds -> Row], NEW T, T \subseteq JobIds, T # {}
    PROVE  \E m \in T : \A k \in T \ {m} : Outranks(k, m)
<1> USE RowFacts
<1> DEFINE Ps == {rows[j].priority : j \in T}
<1>1. PICK p \in Ps : \A q \in Ps : q <= p
  <2>1. Ps \subseteq 0..3 /\ Ps # {}
    OBVIOUS
  <2> HIDE DEF Ps
  <2> QED
    BY <2>1, GreatestExists
<1> DEFINE Low == {j \in T : rows[j].priority = p}
<1>2. Low # {} /\ Low \subseteq Nat
  OBVIOUS
<1>3. PICK m \in Low : \A k \in Low : m <= k
  <2> HIDE DEF Low
  <2> QED
    BY <1>2, LeastNumber
<1>4. ASSUME NEW k \in T \ {m}
      PROVE  Outranks(k, m)
  <2>1. rows[k].priority <= rows[m].priority
    BY <1>1
  <2>2. rows[m].priority = rows[k].priority => m <= k
    BY <1>3
  <2>3. k \in Nat /\ m \in Nat /\ rows[m].priority \in Int /\ rows[k].priority \in Int
    OBVIOUS
  <2> QED
    BY <2>1, <2>2, <2>3 DEF Outranks
<1> QED
  BY <1>4

---------------------------------------------------------------------------
(* The best of a set *)

LEMMA JobsAreFinite ==
    ASSUME NEW T, T \subseteq JobIds
    PROVE  IsFiniteSet(T) /\ Cardinality(T) \in Nat
<1>1. IsFiniteSet(JobIds)
  BY FS_Interval, BoundAssumption DEF JobIds
<1> QED
  BY <1>1, FS_Subset, FS_CardinalityType

LEMMA SubsetIsSmaller ==
    ASSUME NEW T, T \subseteq JobIds, NEW U, U \subseteq T
    PROVE  Cardinality(U) <= Cardinality(T)
  BY JobsAreFinite, FS_Subset

(* The best n of a set are n at most: of those that outrank the last of     *)
(* them there are fewer than n.                                             *)
LEMMA BestAreFew ==
    ASSUME rows \in [JobIds -> Row], NEW S, S \subseteq JobIds, NEW n \in Nat
    PROVE  Cardinality(Best(n, S)) <= n
<1> DEFINE B == Best(n, S)
<1>1. B \subseteq S
  BY DEF Best
<1>2. CASE B = {}
  BY <1>2, FS_EmptySet
<1>3. CASE B # {}
  <2>1. PICK m \in B : \A k \in B \ {m} : Outranks(k, m)
    <3> HIDE DEF B
    <3> QED
      BY <1>1, <1>3, LastExists
  <2> DEFINE Ahead == {k \in S : Outranks(k, m)}
  <2>2. Cardinality(Ahead) < n
    BY DEF Best
  <2>3. B \ {m} \subseteq Ahead
    BY <1>1, <2>1
  <2>4. Cardinality(B \ {m}) = Cardinality(B) - 1 /\ Cardinality(B) \in Nat
    <3>1. IsFiniteSet(B) /\ Cardinality(B) \in Nat
      BY <1>1, JobsAreFinite
    <3> HIDE DEF B
    <3> QED
      BY <2>1, <3>1, FS_RemoveElement
  <2>5. Cardinality(B \ {m}) <= Cardinality(Ahead) /\ Cardinality(Ahead) \in Nat
    <3>1. Ahead \subseteq JobIds
      OBVIOUS
    <3> HIDE DEF B, Ahead
    <3> QED
      BY <2>3, <3>1, SubsetIsSmaller, JobsAreFinite
  <2> HIDE DEF B, Ahead
  <2>6. Cardinality(B) <= n
    BY <2>2, <2>4, <2>5
  <2> QED
    BY <2>6 DEF B
<1> QED
  BY <1>2, <1>3

(* They are n if a job is left out: all that outrank the first of those     *)
(* left out are among the best.                                             *)
LEMMA BestAreEnough ==
    ASSUME rows \in [JobIds -> Row], NEW S, S \subseteq JobIds, NEW n \in Nat,
           Best(n, S) # S
    PROVE  Cardinality(Best(n, S)) = n
<1> DEFINE B == Best(n, S)
           Out == S \ B
<1>1. B \subseteq S /\ Out # {} /\ Out \subseteq JobIds
  BY DEF Best
<1>2. PICK m \in Out : \A k \in Out \ {m} : Outranks(m, k)
  <2> HIDE DEF Out
  <2> QED
    BY <1>1, FirstExists
<1> DEFINE Ahead == {k \in S : Outranks(k, m)}
<1>3. Ahead \subseteq JobIds /\ Cardinality(Ahead) \in Nat
  BY JobsAreFinite
<1>4. Cardinality(Ahead) >= n
  <2>1. ~(Cardinality(Ahead) < n)
    BY <1>2 DEF Best
  <2> HIDE DEF Ahead
  <2> QED
    BY <2>1, <1>3
<1>5. Ahead \subseteq B
  <2> SUFFICES ASSUME NEW k \in Ahead, k \notin B
               PROVE  FALSE
    OBVIOUS
  <2>1. k \in Out /\ m \in JobIds /\ k \in JobIds /\ Outranks(k, m)
    BY <1>1
  <2>2. k # m
    BY <2>1, RankIsTotal
  <2>3. Outranks(m, k)
    BY <1>2, <2>1, <2>2
  <2> QED
    BY <2>1, <2>3, RankIsTotal
<1>6. Cardinality(Ahead) <= Cardinality(B) /\ Cardinality(B) \in Nat
  <2> HIDE DEF B, Ahead
  <2> QED
    BY <1>1, <1>5, SubsetIsSmaller, JobsAreFinite
<1>7. Cardinality(B) <= n
  BY BestAreFew
<1> QED
  BY <1>3, <1>4, <1>6, <1>7

(* Every job among the best outranks every job left out. *)
LEMMA BestOutrank ==
    ASSUME rows \in [JobIds -> Row], NEW S, S \subseteq JobIds, NEW n \in Nat,
           NEW j \in Best(n, S), NEW k \in S \ Best(n, S)
    PROVE  Outranks(j, k)
<1> SUFFICES ASSUME ~Outranks(j, k)
             PROVE  FALSE
  OBVIOUS
<1>1. j \in JobIds /\ k \in JobIds /\ j \in S /\ j # k
  BY DEF Best
<1>2. Outranks(k, j)
  BY <1>1, RankIsTotal
<1> DEFINE AheadOf(i) == {h \in S : Outranks(h, i)}
<1>3. AheadOf(k) \subseteq AheadOf(j) /\ AheadOf(j) \subseteq JobIds
  BY <1>1, <1>2, RankIsTotal
<1>4. Cardinality(AheadOf(j)) < n /\ ~(Cardinality(AheadOf(k)) < n)
  BY DEF Best
<1>5. Cardinality(AheadOf(k)) <= Cardinality(AheadOf(j))
      /\ Cardinality(AheadOf(k)) \in Nat /\ Cardinality(AheadOf(j)) \in Nat
  <2>1. AheadOf(k) \subseteq JobIds
    BY <1>3
  <2> HIDE DEF AheadOf
  <2> QED
    BY <1>3, <2>1, SubsetIsSmaller, JobsAreFinite
<1> HIDE DEF AheadOf
<1> QED
  BY <1>4, <1>5

---------------------------------------------------------------------------
(* Types *)

LEMMA KnownStatuses ==
    ASSUME TypeOK
    PROVE  Status \in StorageStatuses /\ Canonical \in StorageStatuses
  BY RowAssumption, StatusesAreKnown DEF TypeOK, Status, Canonical

LEMMA IdleIsRequest == Idle \in Request
  BY BoundAssumption DEF Idle, Request, StorageStatuses, Repairs

(* What a job of a request says of it, however it came there. *)
Sound(r) ==
    /\ r \in Request
    /\ r.pc = "reconcile" => r.seen = "billing_reconciliation_pending"
    /\ r.pc = "lock" => r.seen = "terminal_free"
    /\ r.pc = "restore" => r.seen \in Premium
    /\ r.pc # "write"

LEMMA IdleIsSound == Sound(Idle)
  BY IdleIsRequest DEF Sound, Idle

LEMMA ResolveAgainIsSound ==
    ASSUME TypeOK, NEW w \in Workers, NEW ahead \in SUBSET Repairs
    PROVE  Sound(ResolveAgain(w, ahead))
<1>1. job[w] \in Request
  BY DEF TypeOK
<1>2. ResolveAgain(w, ahead) \in Request
  BY <1>1, IdleIsRequest DEF ResolveAgain, Request
<1> QED
  BY <1>2, IdleIsRequest DEF Sound, ResolveAgain, Request

LEMMA RepairedIsSound ==
    ASSUME TypeOK, NEW w \in Workers, NEW status \in StorageStatuses
    PROVE  Sound(Repaired(w, status))
<1>1. job[w] \in Request
  BY DEF TypeOK
<1>2. CASE job[w].op = "read"
  BY <1>2, IdleIsSound DEF Repaired
<1>3. CASE job[w].op # "read"
  <2>1. Repaired(w, status) = [Idle EXCEPT !.pc = "operate", !.op = job[w].op, !.seen = status]
    BY <1>3 DEF Repaired
  <2>2. Repaired(w, status) \in Request /\ Repaired(w, status).pc = "operate"
    BY <1>1, <2>1, IdleIsRequest DEF Request
  <2> QED
    BY <2>2 DEF Sound
<1> QED
  BY <1>2, <1>3

LEMMA ProceedIsSound ==
    ASSUME TypeOK, NEW w \in Workers, NEW status \in StorageStatuses
    PROVE  Sound(Proceed(w, status))
<1>1. job[w] \in Request
  BY DEF TypeOK
<1>2. CASE RepairFor(status) \in job[w].ahead
  <2>1. RepairFor(status) \in Repairs
    BY <1>1, <1>2 DEF Request
  <2>2. /\ RepairFor(status) = "reconcile" => status = "billing_reconciliation_pending"
        /\ RepairFor(status) = "lock" => status = "terminal_free"
        /\ RepairFor(status) = "restore" => status \in Premium
    BY DEF RepairFor
  <2>3. Proceed(w, status) = [job[w] EXCEPT !.pc = RepairFor(status), !.seen = status]
    BY <1>2 DEF Proceed
  <2> QED
    BY <1>1, <2>1, <2>2, <2>3 DEF Sound, Request, Repairs
<1>3. CASE RepairFor(status) \notin job[w].ahead
  BY <1>3, RepairedIsSound DEF Proceed
<1> QED
  BY <1>2, <1>3

(* A step that replaces one request by a sound one, and changes rows only   *)
(* so that none becomes unborn, keeps the invariant.                        *)
LEMMA SoundStep ==
    ASSUME IInv, NEW w \in Workers, NEW r, Sound(r),
           job' = [job EXCEPT ![w] = r],
           billing' \in BillingRows,
           rows' \in [JobIds -> Row],
           \A j \in JobIds : rows[j].state # "unborn" => rows'[j].state # "unborn",
           changes' \in 0..MaxChanges, failures' \in 0..MaxFailures
    PROVE  IInv'
<1>1. job' \in [Workers -> Request]
  BY DEF IInv, TypeOK, Sound
<1>2. ASSUME NEW v \in Workers
      PROVE  /\ job'[v].pc = "reconcile" => job'[v].seen = "billing_reconciliation_pending"
             /\ job'[v].pc = "lock" => job'[v].seen = "terminal_free"
             /\ job'[v].pc = "restore" => job'[v].seen \in Premium
             /\ job'[v].pc = "write" => /\ Targeted(job'[v])
                                        /\ rows'[job'[v].target].state # "unborn"
  <2>1. job'[v] = IF v = w THEN r ELSE job[v]
    BY DEF IInv, TypeOK
  <2>2. CASE v = w
    BY <2>1, <2>2 DEF Sound
  <2>3. CASE v # w
    <3>1. job'[v] = job[v]
      BY <2>1, <2>3
    <3>2. job[v].pc = "write" => Targeted(job[v]) /\ rows[job[v].target].state # "unborn"
      BY DEF IInv, TypeOK, TargetsExist
    <3>3. Targeted(job[v]) => job[v].target \in JobIds
      BY DEF Targeted
    <3>4. Targeted(job[v]) <=> Targeted(job'[v])
      BY <3>1
    <3> QED
      BY <3>1, <3>2, <3>3, <3>4 DEF IInv, TypeOK
  <2> QED
    BY <2>2, <2>3
<1> QED
  BY <1>1, <1>2 DEF IInv, TypeOK, TargetsExist

LEMMA ReplyStep ==
    ASSUME IInv, NEW w \in Workers, NEW r, Sound(r), Reply(w, r),
           UNCHANGED <<billing, changes>>,
           rows' \in [JobIds -> Row],
           \A j \in JobIds : rows[j].state # "unborn" => rows'[j].state # "unborn"
    PROVE  IInv'
<1>1. failures' \in 0..MaxFailures
  BY BoundAssumption DEF Reply, Failing, IInv, TypeOK
<1>2. billing' \in BillingRows /\ changes' \in 0..MaxChanges
  BY DEF IInv, TypeOK
<1>3. CASE job' = [job EXCEPT ![w] = r]
  BY <1>1, <1>2, <1>3, SoundStep
<1>4. CASE job' = [job EXCEPT ![w] = Idle]
  BY <1>1, <1>2, <1>4, IdleIsSound, SoundStep
<1> QED
  BY <1>3, <1>4 DEF Reply, SetJob

LEMMA SetStateFacts ==
    ASSUME rows \in [JobIds -> Row], NEW S, NEW s \in {"active", "locked"}
    PROVE  /\ SetState(S, s) \in [JobIds -> Row]
           /\ \A j \in JobIds : SetState(S, s)[j].state = IF j \in S THEN s ELSE rows[j].state
  BY DEF SetState, Row

---------------------------------------------------------------------------
(* Every step keeps the invariant *)

LEMMA InitInv == Init => IInv
<1> SUFFICES ASSUME Init PROVE IInv
  OBVIOUS
<1>1. rows \in [JobIds -> Row]
  <2> DEFINE Old(n, p) == [j \in JobIds |->
                             IF j <= n THEN [state |-> "active", priority |-> p[j]]
                             ELSE [state |-> "unborn", priority |-> 0]]
  <2>1. PICK n \in 0..MaxJobs : \E p \in [1..n -> Priorities] : rows = Old(n, p)
    BY DEF Init
  <2>3. PICK p \in [1..n -> Priorities] : rows = Old(n, p)
    BY <2>1
  <2>2. ASSUME NEW j \in JobIds, j <= n
        PROVE  p[j] \in 0..3
    <3>1. j \in 1..n
      BY <2>2, BoundAssumption DEF JobIds
    <3>2. p[j] \in Priorities
      BY <3>1
    <3> QED
      BY <3>2, RowAssumption
  <2> QED
    BY <2>2, <2>3 DEF Row
<1>2. job \in [Workers -> Request] /\ \A w \in Workers : job[w] = Idle
  BY IdleIsRequest DEF Init
<1>3. changes \in 0..MaxChanges /\ failures \in 0..MaxFailures
  BY BoundAssumption DEF Init
<1> QED
  BY <1>1, <1>2, <1>3 DEF Init, IInv, TypeOK, TargetsExist, Idle

LEMMA BillingChangeInv == IInv /\ BillingChange => IInv'
  BY BoundAssumption DEF IInv, TypeOK, TargetsExist, BillingChange

LEMMA CallFailsInv ==
    ASSUME IInv, NEW w \in Workers, CallFails(w)
    PROVE  IInv'
<1>1. failures' \in 0..MaxFailures
  BY BoundAssumption DEF CallFails, Failing, IInv, TypeOK
<1> QED
  BY <1>1, IdleIsSound, SoundStep DEF CallFails, SetJob, IInv, TypeOK

LEMMA BeginInv ==
    ASSUME IInv, NEW w \in Workers, NEW op, Begin(w, op),
           op \in {"read", "create", "update", "delete", "bulkDelete"}
    PROVE  IInv'
<1> DEFINE r == [Idle EXCEPT !.pc = "resolve", !.op = op,
                             !.ahead = IF op = "bulkDelete" THEN {} ELSE Repairs]
<1>1. Sound(r)
  BY IdleIsRequest DEF Sound, Request
<1> QED
  BY <1>1, SoundStep DEF Begin, SetJob, IInv, TypeOK

LEMMA ResolveInv ==
    ASSUME IInv, NEW w \in Workers, Resolve(w)
    PROVE  IInv'
<1>1. Sound(Proceed(w, Status)) /\ Sound(Proceed(w, "billing_unavailable"))
  BY KnownStatuses, ProceedIsSound DEF IInv, StorageStatuses
<1>2. failures' \in 0..MaxFailures
  BY BoundAssumption DEF Resolve, Failing, IInv, TypeOK
<1> QED
  BY <1>1, <1>2, SoundStep DEF Resolve, SetJob, IInv, TypeOK

LEMMA ReconcileInv ==
    ASSUME IInv, NEW w \in Workers, Reconcile(w)
    PROVE  IInv'
<1>1. job[w] \in Request
  BY DEF IInv, TypeOK
<1>2. /\ Sound(ResolveAgain(w, job[w].ahead \ {"reconcile"}))
      /\ Sound(Repaired(w, job[w].seen))
  BY <1>1, ResolveAgainIsSound, RepairedIsSound DEF IInv, Request
<1>3. failures' \in 0..MaxFailures /\ billing' \in BillingRows
  BY BoundAssumption DEF Reconcile, Failing, IInv, TypeOK
<1> QED
  BY <1>2, <1>3, SoundStep DEF Reconcile, SetJob, IInv, TypeOK

LEMMA LockInv ==
    ASSUME IInv, NEW w \in Workers, Lock(w)
    PROVE  IInv'
<1>1. job[w] \in Request /\ rows \in [JobIds -> Row]
  BY DEF IInv, TypeOK
<1>2. /\ Sound(ResolveAgain(w, job[w].ahead \ {"reconcile", "lock"}))
      /\ Sound(Repaired(w, job[w].seen))
  BY <1>1, ResolveAgainIsSound, RepairedIsSound DEF IInv, Request
<1>3. CASE LockEligible(job[w].seen)
  <2>1. rows' = SetState(Active \ Best(FreeLimit, Active), "locked")
        /\ Reply(w, Repaired(w, job[w].seen))
    BY <1>3 DEF Lock
  <2> QED
    BY <1>1, <1>2, <2>1, SetStateFacts, ReplyStep DEF Lock
<1>4. CASE ~LockEligible(job[w].seen)
  BY <1>1, <1>2, <1>4, ReplyStep DEF Lock
<1> QED
  BY <1>3, <1>4

LEMMA RestoreInv ==
    ASSUME IInv, NEW w \in Workers, Restore(w)
    PROVE  IInv'
<1>1. job[w] \in Request /\ rows \in [JobIds -> Row]
  BY DEF IInv, TypeOK
<1>2. /\ Sound(ResolveAgain(w, {"reconcile", "lock"}))
      /\ Sound(Repaired(w, job[w].seen))
  BY <1>1, ResolveAgainIsSound, RepairedIsSound DEF IInv, Request, Repairs
<1>3. CASE MayRestore
  <2>1. rows' = SetState(Best(RestoreSlots, Locked), "active")
        /\ Reply(w, Repaired(w, job[w].seen))
    BY <1>3 DEF Restore
  <2> QED
    BY <1>1, <1>2, <2>1, SetStateFacts, ReplyStep DEF Restore
<1>4. CASE ~MayRestore
  BY <1>1, <1>2, <1>4, ReplyStep DEF Restore
<1> QED
  BY <1>3, <1>4

(* The next job is one that was not there. *)
LEMMA NextIsUnborn ==
    ASSUME InState("unborn") # {}
    PROVE  NextId \in InState("unborn")
<1>1. InState("unborn") \subseteq Nat
  BY BoundAssumption DEF InState, JobIds
<1>2. \E j \in InState("unborn") : \A k \in InState("unborn") : j <= k
  BY <1>1, LeastNumber
<1> QED
  BY <1>2, Zenon DEF NextId

LEMMA CreateInv ==
    ASSUME IInv, NEW w \in Workers, Create(w)
    PROVE  IInv'
<1>1. rows \in [JobIds -> Row]
  BY DEF IInv, TypeOK
<1>2. CASE MayCreate(job[w].seen)
  <2>1. PICK p \in Priorities :
            rows' = [rows EXCEPT ![NextId] = [state |-> "active", priority |-> p]]
    BY <1>2 DEF Create
  <2>2. [state |-> "active", priority |-> p] \in Row
    BY RowAssumption DEF Row
  <2>3. NextId \in JobIds
    BY <1>2, NextIsUnborn DEF Create, InState
  <2> QED
    BY <1>1, <2>1, <2>2, <2>3, IdleIsSound, ReplyStep DEF Create
<1>3. CASE ~MayCreate(job[w].seen)
  BY <1>1, <1>3, IdleIsSound, ReplyStep DEF Create
<1> QED
  BY <1>2, <1>3

LEMMA AccessInv ==
    ASSUME IInv, NEW w \in Workers, Access(w)
    PROVE  IInv'
<1>1. CASE SetJob(w, Idle)
  BY <1>1, IdleIsSound, SoundStep DEF Access, SetJob, IInv, TypeOK
<1>2. CASE ~SetJob(w, Idle)
  <2>1. PICK j \in Retained :
          /\ MayAccess(job[w].op, rows[j].state, job[w].seen)
          /\ SetJob(w, [job[w] EXCEPT !.pc = "write", !.target = j,
                                      !.observed = rows[j].state])
    BY <1>2 DEF Access
  <2> DEFINE r == [job[w] EXCEPT !.pc = "write", !.target = j, !.observed = rows[j].state]
  <2>2. j \in JobIds /\ rows[j].state \in {"active", "locked"}
    BY DEF Retained, Active, Locked, InState
  <2>3. j \in 0..MaxJobs
    BY <2>2, BoundAssumption DEF JobIds
  <2>4. /\ r \in Request /\ r.pc = "write" /\ r.target = j
        /\ r.op = job[w].op /\ r.observed = rows[j].state /\ r.seen = job[w].seen
    <3>1. job[w] \in Request
      BY DEF IInv, TypeOK
    <3> QED
      BY <2>2, <2>3, <3>1 DEF Request
  <2> HIDE DEF r
  <2>6. Targeted(r)
    BY <2>1, <2>2, <2>4 DEF Targeted
  <2>5. job' = [job EXCEPT ![w] = r]
    BY <2>1 DEF SetJob, r
  <2>7. ASSUME NEW v \in Workers
        PROVE  job'[v] = IF v = w THEN r ELSE job[v]
    BY <2>5 DEF IInv, TypeOK
  <2>8. TypeOK'
    BY <2>2, <2>4, <2>5, <2>7 DEF Access, IInv, TypeOK
  <2>9. TargetsExist'
    BY <2>6, <2>7 DEF IInv, TargetsExist, Targeted, JobIds
  <2> QED
    BY <2>8, <2>9 DEF IInv
<1> QED
  BY <1>1, <1>2

LEMMA WriteJobInv ==
    ASSUME IInv, NEW w \in Workers, WriteJob(w)
    PROVE  IInv'
<1>1. rows \in [JobIds -> Row] /\ job[w].target \in JobIds
  BY DEF IInv, TypeOK, TargetsExist, Targeted, WriteJob
<1> DEFINE t == job[w].target
           hit == Hits(job[w])
<1>2. /\ rows' \in [JobIds -> Row]
      /\ \A j \in JobIds : rows[j].state # "unborn" => rows'[j].state # "unborn"
  <2>1. CASE hit /\ job[w].op = "update"
    <3>1. PICK p \in Priorities : rows' = [rows EXCEPT ![t].priority = p]
      BY <2>1 DEF WriteJob
    <3>2. p \in 0..3
      BY RowAssumption
    <3> QED
      BY <1>1, <3>1, <3>2 DEF Row
  <2>2. CASE hit /\ job[w].op = "delete"
    <3>1. rows' = [rows EXCEPT ![t] = Deleted]
      BY <2>2 DEF WriteJob
    <3> QED
      BY <1>1, <3>1 DEF Deleted, Row
  <2>3. CASE ~(hit /\ job[w].op \in {"update", "delete"})
    <3>1. rows' = rows
      BY <2>3 DEF WriteJob
    <3> QED
      BY <1>1, <3>1
  <2> QED
    BY <2>1, <2>2, <2>3
<1> QED
  BY <1>2, IdleIsSound, ReplyStep DEF WriteJob

LEMMA BulkDeleteInv ==
    ASSUME IInv, NEW w \in Workers, BulkDelete(w)
    PROVE  IInv'
<1> DEFINE oldest == {j \in Locked :
                     Cardinality({k \in Locked : k < j}) < RetainedLimit - FreeLimit}
<1>1. rows \in [JobIds -> Row] /\ job[w] \in Request /\ job[w].pc = "operate"
  BY DEF IInv, TypeOK, BulkDelete, Operating
<1>2. Sound(job[w])
  BY <1>1 DEF Sound
<1>3. CASE MayBulkDelete(job[w].seen)
  <2>1. /\ rows' = [j \in JobIds |-> IF j \in oldest THEN Deleted ELSE rows[j]]
        /\ Reply(w, IF oldest \in {{}, Locked} THEN Idle ELSE job[w])
    BY <1>3 DEF BulkDelete
  <2>2. Sound(IF oldest \in {{}, Locked} THEN Idle ELSE job[w])
    BY <1>2, IdleIsSound
  <2> HIDE DEF oldest
  <2>3. /\ rows' \in [JobIds -> Row]
        /\ \A j \in JobIds : rows[j].state # "unborn" => rows'[j].state # "unborn"
    BY <1>1, <2>1 DEF Deleted, Row
  <2> QED
    BY <2>1, <2>2, <2>3, ReplyStep DEF BulkDelete
<1>4. CASE ~MayBulkDelete(job[w].seen)
  BY <1>4, IdleIsSound, SoundStep DEF BulkDelete, SetJob, IInv, TypeOK
<1> QED
  BY <1>3, <1>4

LEMMA StepInv == IInv /\ [Next]_vars => IInv'
<1> SUFFICES ASSUME IInv, [Next]_vars PROVE IInv'
  OBVIOUS
<1>1. CASE BillingChange
  BY <1>1, BillingChangeInv
<1>2. ASSUME NEW w \in Workers,
             \E op \in {"read", "create", "update", "delete", "bulkDelete"} : Begin(w, op)
      PROVE  IInv'
  BY <1>2, BeginInv
<1>3. ASSUME NEW w \in Workers, WorkerStep(w)
      PROVE  IInv'
  BY <1>3, ResolveInv, ReconcileInv, LockInv, RestoreInv, CreateInv, AccessInv,
     WriteJobInv, BulkDeleteInv DEF WorkerStep
<1>4. ASSUME NEW w \in Workers, CallFails(w)
      PROVE  IInv'
  BY <1>4, CallFailsInv
<1>5. CASE UNCHANGED vars
  BY <1>5 DEF vars, IInv, TypeOK, TargetsExist
<1> QED
  BY <1>1, <1>2, <1>3, <1>4, <1>5 DEF Next

(* The inductive invariant of the storage model: the types, a repair only    *)
(* for the status it is meant for, and a write only to a job that exists.   *)
THEOREM StorageInvariant == Spec => []IInv
  BY InitInv, StepInv, PTL DEF Spec

(* Types, with what a request may assume of the status it has seen. *)
THEOREM StorageTypeCorrect == Spec => []TypeOK
  BY StorageInvariant, PTL DEF IInv

---------------------------------------------------------------------------
(* What a step does to the active and the locked jobs *)

Kept == Active' = Active /\ Locked' = Locked

OverflowLocked ==
    /\ Canonical = "terminal_free"
    /\ Active' = Best(FreeLimit, Active)
    /\ Locked' = Locked \cup (Active \ Best(FreeLimit, Active))

BestRestored ==
    /\ MayRestore
    /\ Active' = Active \cup Best(RestoreSlots, Locked)
    /\ Locked' = Locked \ Best(RestoreSlots, Locked)

OneCreated ==
    /\ MayCreate(Canonical)
    /\ \E j \in JobIds \ Retained : Active' = Active \cup {j}
    /\ Locked' = Locked

OneDeleted ==
    \E w \in Workers :
        /\ job[w].pc = "write" /\ job[w].op = "delete"
        /\ job[w].observed = rows[job[w].target].state
        /\ Active' = Active \ {job[w].target}
        /\ Locked' = Locked \ {job[w].target}

ArchiveDeleted ==
    /\ Canonical = "terminal_free"
    /\ Active' = Active
    /\ Locked' \subseteq Locked

LEMMA SameRowsKept == rows' = rows => Kept
  BY DEF Kept, Active, Locked, InState

LEMMA LockEffect ==
    ASSUME IInv, NEW w \in Workers, Lock(w)
    PROVE  Kept \/ OverflowLocked
<1>1. CASE LockEligible(job[w].seen)
  <2> DEFINE S == Active \ Best(FreeLimit, Active)
  <2>1. rows \in [JobIds -> Row] /\ job[w].seen = "terminal_free"
    BY DEF IInv, TypeOK, Lock
  <2>2. rows' = SetState(S, "locked")
    BY <1>1 DEF Lock
  <2>3. /\ S \subseteq Active /\ Active \ S = Best(FreeLimit, Active)
        /\ Active \subseteq JobIds
    BY DEF Best, Active, InState
  <2> HIDE DEF S
  <2>4. \A j \in JobIds : rows'[j].state = IF j \in S THEN "locked" ELSE rows[j].state
    BY <2>1, <2>2, SetStateFacts
  <2>5. Active' = Active \ S /\ Locked' = Locked \cup S
    BY <2>3, <2>4 DEF Active, Locked, InState
  <2> QED
    BY <1>1, <2>1, <2>3, <2>5 DEF OverflowLocked, LockEligible, S
<1>2. CASE ~LockEligible(job[w].seen)
  BY <1>2, SameRowsKept DEF Lock
<1> QED
  BY <1>1, <1>2

LEMMA RestoreEffect ==
    ASSUME IInv, NEW w \in Workers, Restore(w)
    PROVE  Kept \/ BestRestored
<1>1. CASE MayRestore
  <2> DEFINE S == Best(RestoreSlots, Locked)
  <2>1. rows \in [JobIds -> Row]
    BY DEF IInv, TypeOK
  <2>2. rows' = SetState(S, "active")
    BY <1>1 DEF Restore
  <2>3. S \subseteq Locked /\ Locked \subseteq JobIds
    BY DEF Best, Locked, InState
  <2> HIDE DEF S
  <2>4. \A j \in JobIds : rows'[j].state = IF j \in S THEN "active" ELSE rows[j].state
    BY <2>1, <2>2, SetStateFacts
  <2>5. Active' = Active \cup S /\ Locked' = Locked \ S
    BY <2>3, <2>4 DEF Active, Locked, InState
  <2> QED
    BY <1>1, <2>5 DEF BestRestored, S
<1>2. CASE ~MayRestore
  BY <1>2, SameRowsKept DEF Restore
<1> QED
  BY <1>1, <1>2

LEMMA CreateEffect ==
    ASSUME IInv, NEW w \in Workers, Create(w)
    PROVE  Kept \/ OneCreated
<1>1. CASE MayCreate(job[w].seen)
  <2>1. PICK p \in Priorities :
            rows' = [rows EXCEPT ![NextId] = [state |-> "active", priority |-> p]]
    BY <1>1 DEF Create
  <2>2. NextId \in JobIds /\ rows[NextId].state = "unborn"
    BY <1>1, NextIsUnborn DEF Create, InState
  <2>3. rows \in [JobIds -> Row]
    BY DEF IInv, TypeOK
  <2> DEFINE n == NextId
  <2> HIDE DEF n
  <2>4. \A j \in JobIds : rows'[j].state = IF j = n THEN "active" ELSE rows[j].state
    BY <2>1, <2>2, <2>3 DEF n
  <2>5. /\ n \in JobIds \ Retained
        /\ Active' = Active \cup {n} /\ Locked' = Locked
    BY <2>2, <2>4 DEF n, Active, Locked, Retained, InState
  <2>6. MayCreate(Canonical)
    BY <1>1 DEF MayCreate
  <2> QED
    BY <2>5, <2>6 DEF OneCreated
<1>2. CASE ~MayCreate(job[w].seen)
  BY <1>2, SameRowsKept DEF Create
<1> QED
  BY <1>1, <1>2

LEMMA WriteEffect ==
    ASSUME IInv, NEW w \in Workers, WriteJob(w)
    PROVE  Kept \/ OneDeleted
<1>1. rows \in [JobIds -> Row] /\ job[w].target \in JobIds
  BY DEF IInv, TypeOK, TargetsExist, Targeted, WriteJob
<1> DEFINE t == job[w].target
           hit == Hits(job[w])
<1>2. CASE hit /\ job[w].op = "update"
  <2>1. PICK p \in Priorities : rows' = [rows EXCEPT ![t].priority = p]
    BY <1>2 DEF WriteJob
  <2>2. \A j \in JobIds : rows'[j].state = rows[j].state
    BY <1>1, <2>1 DEF Row
  <2> QED
    BY <2>2 DEF Kept, Active, Locked, InState
<1>3. CASE hit /\ job[w].op = "delete"
  <2>1. rows' = [rows EXCEPT ![t] = Deleted]
    BY <1>3 DEF WriteJob
  <2>2. \A j \in JobIds : rows'[j].state = IF j = t THEN "deleted" ELSE rows[j].state
    BY <1>1, <2>1 DEF Deleted
  <2>3. Active' = Active \ {t} /\ Locked' = Locked \ {t}
    BY <2>2 DEF Active, Locked, InState
  <2> QED
    BY <1>3, <2>3 DEF OneDeleted, WriteJob, Hits
<1>4. CASE ~(hit /\ job[w].op \in {"update", "delete"})
  <2>1. rows' = rows
    BY <1>4 DEF WriteJob
  <2> QED
    BY <2>1, SameRowsKept
<1> QED
  BY <1>2, <1>3, <1>4

LEMMA BulkDeleteEffect ==
    ASSUME IInv, NEW w \in Workers, BulkDelete(w)
    PROVE  Kept \/ ArchiveDeleted
<1> DEFINE oldest == {j \in Locked :
                     Cardinality({k \in Locked : k < j}) < RetainedLimit - FreeLimit}
<1>1. CASE MayBulkDelete(job[w].seen)
  <2>1. rows' = [j \in JobIds |-> IF j \in oldest THEN Deleted ELSE rows[j]]
    BY <1>1 DEF BulkDelete
  <2>2. oldest \subseteq Locked
    OBVIOUS
  <2> HIDE DEF oldest
  <2>3. \A j \in JobIds : rows'[j].state = IF j \in oldest THEN "deleted" ELSE rows[j].state
    BY <2>1 DEF Deleted
  <2>4. Active' = Active /\ Locked' \subseteq Locked
    BY <2>2, <2>3 DEF Active, Locked, InState
  <2> QED
    BY <1>1, <2>4 DEF ArchiveDeleted, MayBulkDelete
<1>2. CASE ~MayBulkDelete(job[w].seen)
  BY <1>2, SameRowsKept DEF BulkDelete
<1> QED
  BY <1>1, <1>2

LEMMA StepEffect ==
    ASSUME IInv, [Next]_vars
    PROVE  \/ Kept \/ OverflowLocked \/ BestRestored
           \/ OneCreated \/ OneDeleted \/ ArchiveDeleted
<1>1. CASE BillingChange
  BY <1>1, SameRowsKept DEF BillingChange
<1>2. ASSUME NEW w \in Workers,
             \/ \E op \in {"read", "create", "update", "delete", "bulkDelete"} : Begin(w, op)
             \/ Resolve(w) \/ Reconcile(w) \/ Access(w) \/ CallFails(w)
      PROVE  Kept
  BY <1>2, SameRowsKept DEF Begin, Resolve, Reconcile, Access, CallFails
<1>3. CASE UNCHANGED vars
  BY <1>3, SameRowsKept DEF vars
<1> QED
  BY <1>1, <1>2, <1>3, LockEffect, RestoreEffect, CreateEffect, WriteEffect,
     BulkDeleteEffect DEF Next, WorkerStep

---------------------------------------------------------------------------
(* The action properties *)

LEMMA SetsOfJobs ==
    /\ Active \subseteq JobIds /\ Locked \subseteq JobIds /\ Retained \subseteq JobIds
    /\ Active' \subseteq JobIds /\ Locked' \subseteq JobIds /\ Retained' \subseteq JobIds
    /\ Retained = Active \cup Locked /\ Retained' = Active' \cup Locked'
    /\ Active \cap Locked = {}
  BY DEF Active, Locked, Retained, InState

LEMMA JobCounts ==
    /\ {Cardinality(Active), Cardinality(Retained)} \subseteq Nat
    /\ {Cardinality(Active'), Cardinality(Retained')} \subseteq Nat
<1>1. Cardinality(Active) \in Nat /\ Cardinality(Retained) \in Nat
  BY SetsOfJobs, JobsAreFinite
<1>2. Cardinality(Active') \in Nat /\ Cardinality(Retained') \in Nat
  BY SetsOfJobs, JobsAreFinite
<1> QED
  BY <1>1, <1>2

LEMMA LimitFacts ==
    /\ FreeLimit \in Nat /\ RetainedLimit \in Nat /\ FreeLimit <= RetainedLimit
  BY LimitAssumption

LEMMA RestoredFit ==
    ASSUME IInv, BestRestored
    PROVE  Cardinality(Active') > Cardinality(Active) => Cardinality(Active') <= RetainedLimit
<1> DEFINE a == Cardinality(Active)
           b == Cardinality(Best(RestoreSlots, Locked))
<1>1. a \in Nat /\ RestoreSlots \in Nat
  BY JobCounts, LimitFacts DEF RestoreSlots
<1>2. rows \in [JobIds -> Row]
  BY DEF IInv, TypeOK
<1>3. b <= RestoreSlots
  BY <1>1, <1>2, SetsOfJobs, BestAreFew
<1>4. b \in Nat /\ Cardinality(Active') <= a + b
  <2>1. Best(RestoreSlots, Locked) \subseteq Locked
    BY DEF Best
  <2>2. IsFiniteSet(Best(RestoreSlots, Locked)) /\ b \in Nat
    BY <2>1, SetsOfJobs, JobsAreFinite
  <2>3. Best(RestoreSlots, Locked) \cap Active = {}
    BY <2>1, SetsOfJobs
  <2>4. IsFiniteSet(Active)
    BY SetsOfJobs, JobsAreFinite
  <2>5. Cardinality(Active \cap Best(RestoreSlots, Locked)) = 0
    BY <2>3, FS_EmptySet
  <2>6. Cardinality(Active \cup Best(RestoreSlots, Locked)) = a + b - 0
    BY <2>2, <2>4, <2>5, FS_Union
  <2>7. Cardinality(Active') = a + b - 0
    BY <2>6 DEF BestRestored
  <2> HIDE DEF a, b
  <2> QED
    BY <1>1, <2>2, <2>7
<1>5. Cardinality(Active') \in Nat
  BY JobCounts
<1>6. RestoreSlots = IF RetainedLimit - a > 0 THEN RetainedLimit - a ELSE 0
  BY DEF RestoreSlots
<1> HIDE DEF a, b
<1>7. Cardinality(Active') > a => Cardinality(Active') <= RetainedLimit
  BY <1>1, <1>3, <1>4, <1>5, <1>6, LimitFacts
<1> QED
  BY <1>7 DEF a

LEMMA CreatedFits ==
    ASSUME IInv, OneCreated
    PROVE  /\ Canonical \in Premium \cup {"terminal_free"}
           /\ Cardinality(Active') <= ActiveLimit(Canonical)
           /\ Cardinality(Retained') <= RetainedLimit
<1>1. PICK j \in JobIds \ Retained : Active' = Active \cup {j}
  BY DEF OneCreated
<1>2. j \notin Active /\ Retained' = Retained \cup {j}
  BY <1>1, SetsOfJobs DEF OneCreated
<1>3. /\ Cardinality(Active') = Cardinality(Active) + 1
      /\ Cardinality(Retained') = Cardinality(Retained) + 1
  <2>1. IsFiniteSet(Active) /\ IsFiniteSet(Retained)
    BY SetsOfJobs, JobsAreFinite
  <2> QED
    BY <1>1, <1>2, <2>1, FS_AddElement
<1>4. /\ Cardinality(Active) < ActiveLimit(Canonical)
      /\ Cardinality(Retained) < RetainedLimit
      /\ Canonical \in Premium \cup {"terminal_free"}
  BY DEF OneCreated, MayCreate
<1>5. ActiveLimit(Canonical) \in Nat
  BY LimitFacts DEF ActiveLimit
<1> QED
  BY <1>3, <1>4, <1>5, JobCounts, LimitFacts

(* What may be restored is Premium for the server as well. *)
LEMMA RestorableStatus == TypeOK /\ MayRestore => Status \in Premium
  BY RowAssumption, OnlyThePriceDivides DEF TypeOK, MayRestore, Status, Canonical

LEMMA StepFitsPlan ==
    ASSUME IInv, [Next]_vars
    PROVE  /\ Cardinality(Active') > Cardinality(Active) =>
                 /\ Canonical \in Premium \cup {"terminal_free"}
                 /\ Cardinality(Active') <= ActiveLimit(Canonical)
           /\ Cardinality(Retained') > Cardinality(Retained) =>
                 Cardinality(Retained') <= RetainedLimit
           /\ Locked \cap Active' # {} => Status \in Premium
<1>1. ASSUME Active' \subseteq Active
      PROVE  ~(Cardinality(Active') > Cardinality(Active))
  <2>1. Cardinality(Active') <= Cardinality(Active)
    BY <1>1, SetsOfJobs, SubsetIsSmaller
  <2> QED
    BY <2>1, JobCounts
<1>2. ASSUME Retained' \subseteq Retained
      PROVE  ~(Cardinality(Retained') > Cardinality(Retained))
  <2>1. Cardinality(Retained') <= Cardinality(Retained)
    BY <1>2, SetsOfJobs, SubsetIsSmaller
  <2> QED
    BY <2>1, JobCounts
<1>3. CASE Kept \/ OverflowLocked \/ OneDeleted \/ ArchiveDeleted
  <2>1. Active' \subseteq Active /\ Retained' \subseteq Retained
    BY <1>3, SetsOfJobs DEF Kept, OverflowLocked, OneDeleted, ArchiveDeleted, Best
  <2>2. Locked \cap Active' = {}
    BY <2>1, SetsOfJobs
  <2> QED
    BY <1>1, <1>2, <2>1, <2>2
<1>4. CASE BestRestored
  <2>1. Retained' \subseteq Retained
    BY <1>4, SetsOfJobs DEF BestRestored, Best
  <2>2. Canonical \in Premium /\ ActiveLimit(Canonical) = RetainedLimit
    BY <1>4 DEF BestRestored, MayRestore, ActiveLimit, Premium
  <2>3. Status \in Premium
    BY <1>4, RestorableStatus DEF BestRestored, IInv
  <2> QED
    BY <1>2, <1>4, <2>1, <2>2, <2>3, RestoredFit
<1>5. CASE OneCreated
  <2>1. Locked \cap Active' = {}
    BY <1>5, SetsOfJobs DEF OneCreated
  <2> QED
    BY <1>5, <2>1, CreatedFits
<1> QED
  BY <1>3, <1>4, <1>5, StepEffect

(* However many requests carry however stale a status, jobs are added only   *)
(* within the plan the billing row gives when they are added, and restored  *)
(* only at a price on the list.                                             *)
THEOREM StorageGrowsWithinPlan == Spec => GrowthWithinPlan
  BY StorageInvariant, StepFitsPlan, PTL DEF GrowthWithinPlan, Spec

LEMMA TerminalFreeStatus == TypeOK /\ Canonical = "terminal_free" => Status = "terminal_free"
  BY RowAssumption, TerminalFreeIsAgreed
     DEF TypeOK, Status, Canonical, LockEligibleStatus

LEMMA StepLocksOverflow ==
    ASSUME IInv, [Next]_vars, Active \cap Locked' # {}
    PROVE  /\ Status = "terminal_free"
           /\ Cardinality(Active') = FreeLimit
           /\ \A kept \in Active', lost \in Locked' \ Locked : Outranks(kept, lost)
<1>1. OverflowLocked
  BY StepEffect, SetsOfJobs
     DEF Kept, BestRestored, OneCreated, OneDeleted, ArchiveDeleted
<1>2. rows \in [JobIds -> Row] /\ Status = "terminal_free"
  BY <1>1, TerminalFreeStatus DEF IInv, TypeOK, OverflowLocked
<1>3. Active' = Best(FreeLimit, Active) /\ Best(FreeLimit, Active) # Active
  BY <1>1, SetsOfJobs DEF OverflowLocked
<1>4. Cardinality(Active') = FreeLimit
  BY <1>2, <1>3, SetsOfJobs, LimitFacts, BestAreEnough
<1>5. ASSUME NEW kept \in Active', NEW lost \in Locked' \ Locked
      PROVE  Outranks(kept, lost)
  BY <1>1, <1>2, <1>3, SetsOfJobs, LimitFacts, BestOutrank DEF OverflowLocked
<1> QED
  BY <1>2, <1>4, <1>5

(* A downgrade locks the overflow and nothing else: exactly the FreeLimit    *)
(* best jobs stay, and each of them outranks each job that is locked.       *)
THEOREM StorageLocksOnlyOverflow == Spec => LocksOnlyOverflow
  BY StorageInvariant, StepLocksOverflow, PTL DEF LocksOnlyOverflow, Spec

LEMMA StepLosesNothingUnasked ==
    ASSUME IInv, [Next]_vars
    PROVE  \A j \in Retained \ Retained' :
              \/ \E w \in Workers : /\ job[w].pc = "write"
                                    /\ job[w].op = "delete"
                                    /\ job[w].target = j
                                    /\ job[w].observed = rows[j].state
              \/ j \in Locked /\ Status = "terminal_free"
<1> TAKE j \in Retained \ Retained'
<1>1. OneDeleted \/ ArchiveDeleted
  BY StepEffect, SetsOfJobs
     DEF Kept, OverflowLocked, BestRestored, OneCreated, Best
<1>2. CASE OneDeleted
  BY <1>2, SetsOfJobs DEF OneDeleted
<1>3. CASE ArchiveDeleted
  BY <1>3, SetsOfJobs, TerminalFreeStatus DEF ArchiveDeleted, IInv
<1> QED
  BY <1>1, <1>2, <1>3

(* No job is lost but the one a request asked to delete, in the state it was *)
(* seen in, or a locked one of a user who is terminal Free when the archive is deleted.                 *)
THEOREM StorageLosesNothingUnasked == Spec => NothingLostUnasked
  BY StorageInvariant, StepLosesNothingUnasked, PTL DEF NothingLostUnasked, Spec

(* A step that ends the request w and changes its target is its own write.  *)
LEMMA StepWritesAsAllowed ==
    ASSUME IInv, [Next]_vars, NEW w \in Workers, job[w].pc = "write",
           job'[w] # job[w], rows'[job[w].target] # rows[job[w].target]
    PROVE  MayAccess(job[w].op, rows[job[w].target].state, job[w].seen)
<1> DEFINE r == job[w]
           t == r.target
<1>1. ASSUME NEW v \in Workers, v # w, NEW q, job' = [job EXCEPT ![v] = q]
      PROVE  FALSE
  BY <1>1 DEF IInv, TypeOK
<1>2. rows' # rows /\ job' # job
  OBVIOUS
<1>3. PICK v \in Workers : Lock(v) \/ Restore(v) \/ Create(v) \/ WriteJob(v) \/ BulkDelete(v)
  BY <1>2 DEF Next, WorkerStep, BillingChange, Begin, CallFails, Resolve, Reconcile,
              Access, vars
<1>4. \E q : job' = [job EXCEPT ![v] = q]
  BY <1>3 DEF Lock, Restore, Create, WriteJob, BulkDelete, Reply, SetJob
<1>5. v = w
  BY <1>1, <1>4
<1>6. WriteJob(w)
  BY <1>3, <1>5 DEF Lock, Restore, Create, BulkDelete, Operating
<1>7. Hits(r)
  BY <1>2, <1>6 DEF WriteJob
<1> QED
  BY <1>7 DEF Hits, IInv, TargetsExist, Targeted

(* No request changes a job in a state in which its user may not, however    *)
(* the job was locked or restored after the decision.                       *)
THEOREM StorageWritesAsAllowed == Spec => WritesAsAllowed
<1>1. IInv /\ [Next]_vars =>
        \A w \in Workers :
          LET r == job[w]
              t == r.target
          IN  r.pc = "write" /\ job'[w] # r /\ rows'[t] # rows[t] =>
                MayAccess(r.op, rows[t].state, r.seen)
  BY StepWritesAsAllowed
<1> QED
  BY <1>1, StorageInvariant, PTL DEF WritesAsAllowed, Spec

============================================================================
