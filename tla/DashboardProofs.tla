-------------------------- MODULE DashboardProofs --------------------------
(***************************************************************************)
(* Proofs about the dashboard page of Dashboard.tla, for every number of   *)
(* jobs, page size, retained limit and bound: a finished list read has     *)
(* every job that was active throughout and none twice; a list reply that  *)
(* is applied knows every mutation the page was told of; and a page whose  *)
(* mutations ran one at a time, with no failure, ends up showing what the  *)
(* server has.                                                             *)
(*                                                                         *)
(* DInv holds of every behaviour: ReadsFit bounds what a read in flight    *)
(* has found by what was active since it began and at some moment of it;   *)
(* Pending and Known relate replies on their way and settled mutations to  *)
(* the rows; News says that the one fetch whose reply still counts began   *)
(* after every mutation the page was told of.  SInv adds what a calm page  *)
(* keeps: while no mutation overlaps another request the list shows the    *)
(* rows but for the one mutation whose reply is on its way, and the        *)
(* summary counts them but for that mutation or a refresh that still       *)
(* counts.                                                                 *)
(***************************************************************************)
EXTENDS Dashboard, SequenceTheorems, SumTheorems

---------------------------------------------------------------------------
(* The n-th smallest of a finite set of numbers *)

(* The elements of S up to x: as many as the rank of x. *)
UpTo(S, x) == {y \in S : y <= x}

(* Every place is taken: the ranks of the elements are 1 to Cardinality(S). *)
LEMMA RanksAreAll ==
    ASSUME NEW S, S \subseteq Nat, IsFiniteSet(S)
    PROVE  /\ Cardinality(S) \in Nat
           /\ \A x \in S : Cardinality(UpTo(S, x)) \in 1 .. Cardinality(S)
           /\ \A x, y \in S : x < y => Cardinality(UpTo(S, x)) < Cardinality(UpTo(S, y))
           /\ \A n \in 1 .. Cardinality(S) : \E x \in S : Cardinality(UpTo(S, x)) = n
<1> DEFINE f == [x \in S |-> Cardinality(UpTo(S, x))]
           T == 1 .. Cardinality(S)
<1>1. \A x \in S : /\ UpTo(S, x) \in SUBSET S
                   /\ IsFiniteSet(UpTo(S, x)) /\ x \in UpTo(S, x)
  BY FS_Subset DEF UpTo
<1>2. Cardinality(S) \in Nat /\ IsFiniteSet(T) /\ Cardinality(T) = Cardinality(S)
  BY FS_CardinalityType, FS_Interval
<1>3. \A x \in S : Cardinality(UpTo(S, x)) \in T
  BY <1>1, <1>2, FS_Subset, FS_CardinalityType, FS_EmptySet
<1>4. ASSUME NEW x \in S, NEW y \in S, x < y
      PROVE  Cardinality(UpTo(S, x)) < Cardinality(UpTo(S, y))
  <2>1. /\ \A z \in S : z <= x => z <= y
        /\ ~(y <= x) /\ y <= y
    BY <1>4
  <2>2. UpTo(S, x) \in SUBSET UpTo(S, y) /\ y \notin UpTo(S, x) /\ y \in UpTo(S, y)
    BY <2>1 DEF UpTo
  <2>3. /\ Cardinality(UpTo(S, x)) <= Cardinality(UpTo(S, y))
        /\ Cardinality(UpTo(S, x)) # Cardinality(UpTo(S, y))
    BY <1>1, <2>2, FS_Subset
  <2> QED
    BY <1>3, <2>3, <1>2
<1>5. f \in Injection(S, T)
  <2>1. \A x, y \in S : x # y => f[x] # f[y]
    <3> SUFFICES ASSUME NEW x \in S, NEW y \in S, x # y
                 PROVE  Cardinality(UpTo(S, x)) # Cardinality(UpTo(S, y))
      OBVIOUS
    <3>1. x < y \/ y < x
      OBVIOUS
    <3> QED
      BY <1>2, <1>3, <1>4, <3>1
  <2>2. f \in [S -> T]
    BY <1>3
  <2> HIDE DEF f
  <2> QED
    BY <2>1, <2>2 DEF Injection, IsInjective
<1>6. f \in Surjection(S, T)
  BY <1>2, <1>5, FS_Injection
<1>7. \A n \in T : \E x \in S : f[x] = n
  BY <1>6 DEF Surjection
<1> QED
  BY <1>2, <1>3, <1>4, <1>7

(* Nth lists a finite set of numbers in increasing order. *)
LEMMA NthLists ==
    ASSUME NEW S, S \subseteq Nat, IsFiniteSet(S)
    PROVE  /\ \A n \in 1 .. Cardinality(S) : Nth(S, n) \in S
           /\ \A m, n \in 1 .. Cardinality(S) : m < n => Nth(S, m) < Nth(S, n)
           /\ \A x \in S : \E n \in 1 .. Cardinality(S) : Nth(S, n) = x
<1> DEFINE Rank(x) == Cardinality(UpTo(S, x))
<1>1. \A n : Nth(S, n) = CHOOSE x \in S : Rank(x) = n
  BY DEF Nth, UpTo
<1>2. /\ Cardinality(S) \in Nat
      /\ \A x \in S : Rank(x) \in 1 .. Cardinality(S)
      /\ \A x, y \in S : x < y => Rank(x) < Rank(y)
      /\ \A n \in 1 .. Cardinality(S) : \E x \in S : Rank(x) = n
  BY RanksAreAll
<1> HIDE DEF Rank
<1>3. \A n \in 1 .. Cardinality(S) : Nth(S, n) \in S /\ Rank(Nth(S, n)) = n
  BY <1>1, <1>2
<1>4. \A x, y \in S : Rank(x) < Rank(y) => x < y
  <2> SUFFICES ASSUME NEW x \in S, NEW y \in S, Rank(x) < Rank(y), ~(x < y)
               PROVE  FALSE
    OBVIOUS
  <2>1. y < x \/ x = y
    OBVIOUS
  <2> QED
    BY <1>2, <2>1
<1>5. \A x, y \in S : Rank(x) = Rank(y) => x = y
  <2> SUFFICES ASSUME NEW x \in S, NEW y \in S, Rank(x) = Rank(y), x # y
               PROVE  FALSE
    OBVIOUS
  <2>1. y < x \/ x < y
    OBVIOUS
  <2> QED
    BY <1>2, <2>1
<1>6. ASSUME NEW x \in S
      PROVE  Nth(S, Rank(x)) = x
  <2>1. Rank(x) \in 1 .. Cardinality(S)
    BY <1>2
  <2> QED
    BY <1>3, <1>5, <2>1
<1> QED
  BY <1>2, <1>3, <1>4, <1>6

---------------------------------------------------------------------------
(* Pages and lists *)

(* Newest first; the jobs of a list; each job listed once. *)
Decreasing(s) == \A h, k \in DOMAIN s : h < k => s[h].job > s[k].job
IdsOf(s) == {s[h].job : h \in DOMAIN s}
Distinct(s) == \A h, k \in DOMAIN s : s[h].job = s[k].job => h = k

(* What the assumptions say of the constants, one by one. *)
LEMMA Sizes ==
    /\ MaxJob \in Nat /\ MaxJob >= 1 /\ PageSize \in Nat /\ PageSize >= 1
    /\ RetainedLimit \in Nat /\ MaxVersion \in Nat
    /\ NoCursor \in Nat /\ NoCursor = MaxJob + 1
    /\ MaxFetches \in Nat /\ MaxFetches >= 1 /\ MaxRefreshes \in Nat /\ MaxRefreshes >= 1
    /\ MaxMutations \in Nat /\ MaxDisturbances \in Nat
    /\ Jobs \subseteq Nat /\ Jobs \subseteq Int /\ IsFiniteSet(Jobs) /\ Cardinality(Jobs) = MaxJob
<1>1. /\ MaxJob \in Nat /\ MaxJob >= 1 /\ PageSize \in Nat /\ PageSize >= 1
      /\ RetainedLimit \in Nat /\ MaxVersion \in Nat
  BY ReadsAssumption
<1>2. /\ MaxFetches \in Nat /\ MaxFetches >= 1 /\ MaxRefreshes \in Nat /\ MaxRefreshes >= 1
      /\ MaxMutations \in Nat /\ MaxDisturbances \in Nat
  BY PageAssumption
<1> QED
  BY <1>1, <1>2, FS_Interval DEF Jobs, NoCursor

(* A page lists, newest first, what is left before the cursor: all of it, or *)
(* as much as goes on a page, and then only older rows remain.               *)
LEMMA PageFacts ==
    ASSUME row \in [Jobs -> Rows], NEW cursor \in 1 .. NoCursor
    PROVE  /\ PageAfter(cursor) \in Seq(ShownJob)
           /\ Decreasing(PageAfter(cursor))
           /\ \A h \in DOMAIN PageAfter(cursor) :
                 /\ PageAfter(cursor)[h].job \in OlderThan(cursor)
                 /\ PageAfter(cursor)[h].version = row[PageAfter(cursor)[h].job].version
           /\ PageAfter(cursor) = <<>> => OlderThan(cursor) = {}
           /\ PageAfter(cursor) # <<>> => Len(PageAfter(cursor)) >= 1
           /\ \A j \in OlderThan(cursor) :
                 \/ j \in IdsOf(PageAfter(cursor))
                 \/ j < PageAfter(cursor)[Len(PageAfter(cursor))].job
<1> DEFINE left == OlderThan(cursor)
           size == Cardinality(left)
           n == IF size < PageSize THEN size ELSE PageSize
           entry(j) == [job |-> j, version |-> row[j].version]
           p == [i \in 1 .. n |-> entry(Nth(left, size + 1 - i))]
<1>1. PageAfter(cursor) = p
  BY DEF PageAfter
<1>2. left \subseteq Jobs /\ left \subseteq Nat /\ IsFiniteSet(left) /\ size \in Nat
  BY Sizes, FS_Subset, FS_CardinalityType DEF OlderThan, JobsIn
<1>3. n \in Nat /\ n <= size
  BY <1>2, Sizes
<1> HIDE DEF left, size, n
<1>4. /\ \A i \in 1 .. size : Nth(left, i) \in left
      /\ \A i, k \in 1 .. size : i < k => Nth(left, i) < Nth(left, k)
      /\ \A x \in left : \E i \in 1 .. size : Nth(left, i) = x
  BY <1>2, NthLists DEF size
<1>5. \A i \in 1 .. n : size + 1 - i \in 1 .. size /\ Nth(left, size + 1 - i) \in left
  BY <1>2, <1>3, <1>4
<1>6. \A i \in 1 .. n : /\ p[i] \in ShownJob /\ p[i].job = Nth(left, size + 1 - i)
                        /\ p[i].job \in left /\ p[i].version = row[p[i].job].version
  BY <1>2, <1>5 DEF Rows, ShownJob
<1>7. p \in Seq(ShownJob) /\ Len(p) = n /\ DOMAIN p = 1 .. n
  <2>1. p \in [1 .. n -> ShownJob]
    BY <1>6
  <2> HIDE DEF p
  <2> QED
    BY <1>3, <2>1, SeqDef, LenProperties
<1> HIDE DEF p
<1>8. Decreasing(p)
  <2> SUFFICES ASSUME NEW h \in 1 .. n, NEW k \in 1 .. n, h < k
               PROVE  p[h].job > p[k].job
    BY <1>7 DEF Decreasing
  <2>1. size + 1 - k < size + 1 - h
    BY <1>2, <1>3
  <2>2. Nth(left, size + 1 - k) < Nth(left, size + 1 - h)
    BY <1>4, <1>5, <2>1
  <2>3. Nth(left, size + 1 - k) \in Nat /\ Nth(left, size + 1 - h) \in Nat
    BY <1>2, <1>5
  <2> QED
    BY <1>6, <2>2, <2>3
<1>9. p = <<>> => left = {}
  <2> SUFFICES ASSUME p = <<>>
               PROVE  left = {}
    OBVIOUS
  <2>1. n = 0
    BY <1>3, <1>7
  <2>2. size = 0
    BY <1>2, <2>1, Sizes DEF n
  <2> QED
    BY <1>2, <2>2, FS_EmptySet DEF size
<1>10. ASSUME NEW j \in left
       PROVE  j \in IdsOf(p) \/ j < p[n].job
  <2>1. PICK i \in 1 .. size : Nth(left, i) = j
    BY <1>4
  <2>2. CASE size + 1 - i <= n
    <3>1. size + 1 - i \in 1 .. n /\ size + 1 - (size + 1 - i) = i
      BY <1>2, <1>3, <2>2
    <3>2. p[size + 1 - i].job = j
      BY <1>6, <2>1, <3>1
    <3> QED
      BY <1>7, <3>1, <3>2 DEF IdsOf
  <2>3. CASE size + 1 - i > n
    <3>1. n = PageSize /\ n \in 1 .. n
      BY <1>2, <1>3, <2>3, Sizes DEF n
    <3>2. i < size + 1 - n /\ size + 1 - n \in 1 .. size
      BY <1>2, <1>3, <2>3, <3>1, <1>5
    <3> QED
      BY <1>4, <1>6, <2>1, <3>1, <3>2
  <2> QED
    BY <1>2, <1>3, <2>2, <2>3
<1>11. p # <<>> => n >= 1
  BY <1>3, <1>7, EmptySeq
<1> QED
  BY <1>1, <1>6, <1>7, <1>8, <1>9, <1>10, <1>11 DEF left

(* A sequence of distinct jobs is as long as the set of its jobs is large. *)
LEMMA DistinctCounts ==
    ASSUME NEW s \in Seq(ShownJob), Distinct(s)
    PROVE  Cardinality(IdsOf(s)) = Len(s)
<1> DEFINE f == [h \in 1 .. Len(s) |-> s[h].job]
<1>1. Len(s) \in Nat /\ DOMAIN s = 1 .. Len(s)
  BY LenProperties
<1>2. f \in Bijection(1 .. Len(s), IdsOf(s))
  BY <1>1 DEF Distinct, IdsOf, Bijection, Injection, Surjection, IsInjective
<1>3. ExistsBijection(1 .. Len(s), IdsOf(s))
  BY <1>2 DEF ExistsBijection
<1> QED
  BY <1>1, <1>3, FS_CountingElements

(* What is listed newest first lists no job twice. *)
LEMMA DecreasingIsDistinct ==
    ASSUME NEW s \in Seq(ShownJob), Decreasing(s)
    PROVE  Distinct(s)
<1>1. DOMAIN s = 1 .. Len(s) /\ Len(s) \in Nat /\ \A h \in DOMAIN s : s[h].job \in Int
  <2>1. DOMAIN s = 1 .. Len(s) /\ Len(s) \in Nat /\ s \in [1 .. Len(s) -> ShownJob]
    BY LenProperties
  <2>2. \A e \in ShownJob : e.job \in Int
    BY Sizes DEF ShownJob
  <2> QED
    BY <2>1, <2>2
<1> SUFFICES ASSUME NEW h \in DOMAIN s, NEW k \in DOMAIN s, s[h].job = s[k].job, h # k
             PROVE  FALSE
  BY DEF Distinct
<1>2. h < k \/ k < h
  BY <1>1
<1> QED
  BY <1>1, <1>2 DEF Decreasing

---------------------------------------------------------------------------
(* The list reads *)

(* What holds of a read in progress, or finished: steady holds active jobs,  *)
(* ever all of them; the rows found are newest first, none older than the    *)
(* cursor, and no steady job at or before the cursor is missing.             *)
ReadFits(r, active) ==
    /\ r.steady \subseteq active
    /\ active \subseteq r.ever
    /\ Decreasing(r.found)
    /\ \A h \in DOMAIN r.found : r.found[h].job >= r.after /\ r.found[h].job \in r.ever
    /\ \A j \in r.steady : j >= r.after \/ r.status = "complete" => j \in IdsOf(r.found)

(* All reads in flight fit the rows. *)
ReadsFit == \A i \in Fetches : InFlight(i) => ReadFits(fetch[i], JobsIn("active"))

(* A read that just began fits the rows: it has found nothing. *)
LEMMA NewReadFits ==
    /\ NewRead \in Reads /\ NewRead.status = "reading"
    /\ NewRead.steady = JobsIn("active") /\ NewRead.ever = JobsIn("active")
    /\ NewRead.found = <<>> /\ NewRead.counts = NoCounts /\ NewRead.after = NoCursor
    /\ ReadFits(NewRead, JobsIn("active"))
    /\ \A status \in {"idle", "over"} :
          NoRead(status) \in Reads /\ NoRead(status).status = status
<1>1. /\ <<>> \in Seq(ShownJob) /\ DOMAIN <<>> = {} /\ NoCursor \in 1 .. NoCursor
      /\ JobsIn("active") \subseteq Jobs
  BY Sizes, EmptySeq DEF JobsIn
<1>2. /\ NewRead \in Reads /\ NewRead.status = "reading"
      /\ NewRead.steady = JobsIn("active") /\ NewRead.ever = JobsIn("active")
      /\ NewRead.found = <<>> /\ NewRead.counts = NoCounts /\ NewRead.after = NoCursor
  BY <1>1 DEF NewRead, NoRead, Reads
<1>3. \A status \in {"idle", "over"} :
          NoRead(status) \in Reads /\ NoRead(status).status = status
  BY <1>1 DEF NoRead, Reads
<1>4. \A j \in JobsIn("active") : ~(j >= NoCursor)
  BY <1>1, Sizes DEF Jobs
<1>5. ReadFits(NewRead, JobsIn("active"))
  BY <1>1, <1>2, <1>4 DEF ReadFits, Decreasing, IdsOf
<1> QED
  BY <1>2, <1>3, <1>5

(* One round of fetchCompleteJobsList. *)
LEMMA AfterPageFits ==
    ASSUME row \in [Jobs -> Rows], NEW r \in Reads, r.status = "reading",
           ReadFits(r, JobsIn("active"))
    PROVE  /\ AfterPage(r) \in Reads
           /\ AfterPage(r).status \in {"reading", "complete", "failed"}
           /\ AfterPage(r).steady = r.steady /\ AfterPage(r).ever = r.ever
           /\ AfterPage(r).counts = r.counts
           /\ ReadFits(AfterPage(r), JobsIn("active"))
           /\ \A h \in DOMAIN AfterPage(r).found :
                 \/ h \in DOMAIN r.found /\ AfterPage(r).found[h] = r.found[h]
                 \/ AfterPage(r).found[h].version = row[AfterPage(r).found[h].job].version
<1> DEFINE page_ == PageAfter(r.after)
           all == r.found \o page_
           q == AfterPage(r)
           active == JobsIn("active")
<1>1. /\ r.after \in 1 .. NoCursor /\ r.found \in Seq(ShownJob) /\ active \subseteq Jobs
      /\ r.steady \in SUBSET Jobs /\ r.ever \in SUBSET Jobs
  BY DEF Reads, JobsIn
<1>2. /\ page_ \in Seq(ShownJob) /\ Decreasing(page_)
      /\ \A h \in DOMAIN page_ : /\ page_[h].job \in OlderThan(r.after)
                                 /\ page_[h].version = row[page_[h].job].version
      /\ page_ = <<>> => OlderThan(r.after) = {}
      /\ page_ # <<>> => Len(page_) >= 1
      /\ \A j \in OlderThan(r.after) : j \in IdsOf(page_) \/ j < page_[Len(page_)].job
  BY <1>1, PageFacts
<1>3. \A j : j \in OlderThan(r.after) <=> j \in active /\ j < r.after
  BY DEF OlderThan
<1>4. q = IF page_ = <<>> THEN [r EXCEPT !.status = "complete"]
          ELSE IF Len(all) > RetainedLimit THEN [r EXCEPT !.status = "failed"]
          ELSE [r EXCEPT !.found = all, !.after = page_[Len(page_)].job]
  BY DEF AfterPage, Last
<1> HIDE DEF page_, q
<1>5. CASE page_ = <<>>
  <2>1. /\ q \in Reads /\ q.status = "complete" /\ q.steady = r.steady /\ q.ever = r.ever
        /\ q.counts = r.counts /\ q.found = r.found /\ q.after = r.after
    BY <1>4, <1>5 DEF Reads
  <2>2. \A j \in r.steady : j \in IdsOf(r.found)
    <3> SUFFICES ASSUME NEW j \in r.steady, ~(j >= r.after)
                 PROVE  FALSE
      BY DEF ReadFits
    <3>1. j \in active
      BY DEF ReadFits
    <3>2. j < r.after
      BY <1>1, Sizes DEF Jobs
    <3> QED
      BY <1>2, <1>3, <1>5, <3>1, <3>2
  <2>3. ReadFits(q, active)
    BY <2>1, <2>2 DEF ReadFits
  <2> QED
    BY <2>1, <2>3 DEF q
<1>6. CASE page_ # <<>> /\ Len(all) > RetainedLimit
  <2>1. /\ q \in Reads /\ q.status = "failed" /\ q.steady = r.steady /\ q.ever = r.ever
        /\ q.counts = r.counts /\ q.found = r.found /\ q.after = r.after
    BY <1>4, <1>6 DEF Reads
  <2>2. ReadFits(q, active)
    BY <2>1 DEF ReadFits
  <2> QED
    BY <2>1, <2>2 DEF q
<1>7. CASE page_ # <<>> /\ ~(Len(all) > RetainedLimit)
  <2> DEFINE m == Len(r.found)
             n == Len(page_)
             last == page_[n].job
  <2>1. /\ m \in Nat /\ n \in Nat /\ n >= 1 /\ DOMAIN r.found = 1 .. m /\ DOMAIN page_ = 1 .. n
        /\ n \in 1 .. n
    BY <1>1, <1>2, <1>7, LenProperties
  <2>2. /\ all \in Seq(ShownJob) /\ DOMAIN all = 1 .. m + n
        /\ \A h \in 1 .. m : all[h] = r.found[h]
        /\ \A h \in (m + 1) .. (m + n) : all[h] = page_[h - m] /\ h - m \in 1 .. n
    BY <1>1, <1>2, <2>1, ConcatProperties, LenProperties
  <2>3. /\ last \in active /\ last < r.after /\ last \in Jobs /\ last \in Nat
        /\ last \in 1 .. NoCursor
    BY <1>1, <1>2, <1>3, <2>1, Sizes DEF Jobs
  <2> HIDE DEF all, m, n
  <2>4. /\ q \in Reads /\ q.status = "reading" /\ q.steady = r.steady /\ q.ever = r.ever
        /\ q.counts = r.counts /\ q.found = all /\ q.after = last
    <3>1. q = [r EXCEPT !.found = all, !.after = last]
      BY <1>4, <1>7 DEF n
    <3> HIDE DEF last
    <3> QED
      BY <2>2, <2>3, <3>1 DEF Reads
  <2>5. \A h \in 1 .. n : /\ page_[h].job \in Nat /\ page_[h].job >= last
                          /\ page_[h].job < r.after /\ page_[h].job \in active
    <3> SUFFICES ASSUME NEW h \in 1 .. n
                 PROVE  /\ page_[h].job \in Nat /\ page_[h].job >= last
                        /\ page_[h].job < r.after /\ page_[h].job \in active
      OBVIOUS
    <3>1. page_[h].job \in active /\ page_[h].job < r.after /\ page_[h].job \in Nat
      BY <1>1, <1>2, <1>3, <2>1, Sizes
    <3>2. h < n => page_[h].job > last
      BY <1>2, <2>1 DEF Decreasing
    <3>3. h < n \/ h = n
      BY <2>1
    <3> QED
      BY <2>3, <3>1, <3>2, <3>3
  <2>6. \A h \in 1 .. m : r.found[h].job \in Nat /\ r.found[h].job >= r.after
    <3>1. \A e \in ShownJob : e.job \in Nat
      BY Sizes DEF ShownJob
    <3>2. \A h \in 1 .. m : r.found[h] \in ShownJob
      BY <1>1, <2>1, ElementOfSeq DEF m
    <3> QED
      BY <2>1, <3>1, <3>2 DEF ReadFits
  <2>7. Decreasing(all)
    <3> SUFFICES ASSUME NEW h \in 1 .. m + n, NEW k \in 1 .. m + n, h < k
                 PROVE  all[h].job > all[k].job
      BY <2>2 DEF Decreasing
    <3>1. CASE k <= m
      <4>1. h \in 1 .. m /\ k \in 1 .. m
        BY <2>1, <3>1
      <4> QED
        BY <2>1, <2>2, <4>1 DEF ReadFits, Decreasing
    <3>2. CASE h <= m /\ k > m
      <4>1. h \in 1 .. m /\ k - m \in 1 .. n /\ all[k] = page_[k - m] /\ all[h] = r.found[h]
        BY <2>1, <2>2, <3>2
      <4> QED
        BY <1>1, <2>5, <2>6, <4>1
    <3>3. CASE h > m
      <4>1. /\ h - m \in 1 .. n /\ k - m \in 1 .. n /\ h - m < k - m
            /\ all[h] = page_[h - m] /\ all[k] = page_[k - m]
        BY <2>1, <2>2, <3>3
      <4> QED
        BY <1>2, <2>1, <4>1 DEF Decreasing
    <3> QED
      BY <2>1, <3>1, <3>2, <3>3
  <2>8. \A h \in 1 .. m + n : /\ all[h].job >= last /\ all[h].job \in r.ever
                              /\ \/ h \in 1 .. m /\ all[h] = r.found[h]
                                 \/ all[h].version = row[all[h].job].version
    <3> SUFFICES ASSUME NEW h \in 1 .. m + n
                 PROVE  /\ all[h].job >= last /\ all[h].job \in r.ever
                        /\ \/ h \in 1 .. m /\ all[h] = r.found[h]
                           \/ all[h].version = row[all[h].job].version
      OBVIOUS
    <3>1. CASE h <= m
      <4>1. h \in 1 .. m /\ all[h] = r.found[h] /\ r.found[h].job \in r.ever
        BY <2>1, <2>2, <3>1 DEF ReadFits
      <4> QED
        BY <1>1, <2>3, <2>6, <4>1
    <3>2. CASE h > m
      <4>1. h - m \in 1 .. n /\ all[h] = page_[h - m]
        BY <2>1, <2>2, <3>2
      <4> QED
        BY <1>2, <2>1, <2>5, <4>1 DEF ReadFits
    <3> QED
      BY <2>1, <3>1, <3>2
  <2>9. ASSUME NEW j \in r.steady, j >= last
        PROVE  j \in IdsOf(all)
    <3>1. j \in active /\ j \in Nat
      BY <1>1, Sizes DEF ReadFits
    <3>2. CASE j >= r.after
      <4>1. PICK h \in 1 .. m : j = r.found[h].job
        BY <2>1, <3>2 DEF ReadFits, IdsOf
      <4>2. h \in 1 .. m + n /\ all[h].job = j
        BY <2>1, <2>2, <4>1
      <4> QED
        BY <2>2, <4>2 DEF IdsOf
    <3>3. CASE j < r.after
      <4>1. j \in IdsOf(page_)
        BY <1>2, <1>3, <2>3, <2>9, <3>1, <3>3 DEF n
      <4>2. PICK h \in 1 .. n : j = page_[h].job
        BY <2>1, <4>1 DEF IdsOf
      <4>3. m + h \in 1 .. m + n /\ all[m + h] = page_[h]
        BY <2>1, <2>2, <4>2
      <4> QED
        BY <2>2, <4>2, <4>3 DEF IdsOf
    <3> QED
      BY <1>1, <3>1, <3>2, <3>3
  <2>10. ReadFits(q, active)
    BY <2>2, <2>4, <2>7, <2>8, <2>9, <1>1 DEF ReadFits
  <2> HIDE DEF last
  <2> QED
    BY <2>1, <2>2, <2>4, <2>8, <2>10 DEF q
<1> QED
  BY <1>5, <1>6, <1>7

(* The history of a read that goes on while the rows change. *)
LEMMA WitnessingFits ==
    ASSUME NEW r \in Reads, row' \in [Jobs -> Rows], ReadFits(r, JobsIn("active"))
    PROVE  /\ Witnessing(r) \in Reads
           /\ Witnessing(r).status = r.status /\ Witnessing(r).found = r.found
           /\ Witnessing(r).after = r.after /\ Witnessing(r).counts = r.counts
           /\ Witnessing(r).steady = r.steady \cap JobsIn("active")'
           /\ Witnessing(r).ever = r.ever \cup JobsIn("active")'
           /\ ReadFits(Witnessing(r), JobsIn("active")')
<1> DEFINE q == Witnessing(r)
           active == JobsIn("active")'
<1>1. active \subseteq Jobs
  BY DEF JobsIn
<1>2. /\ q \in Reads /\ q.status = r.status /\ q.found = r.found /\ q.after = r.after
      /\ q.counts = r.counts /\ q.steady = r.steady \cap active /\ q.ever = r.ever \cup active
  BY <1>1 DEF Witnessing, Reads
<1>3. ReadFits(q, active)
  BY <1>2 DEF ReadFits
<1> QED
  BY <1>2, <1>3

---------------------------------------------------------------------------
(* Mutations, counts and list edits *)

(* A mutation the server has run and whose reply is on its way, and its job. *)
Done(kind) == mutation[kind].phase = "done"
Target(kind) == mutation[kind].job

(* What the server has done for a mutation whose reply is on its way.        *)
Pending ==
    /\ Target("archive") = 0
    /\ \A kind \in {"add", "update", "delete"} : Done(kind) => Target(kind) \in Jobs
    /\ \A kind \in {"add", "update"} : Done(kind) => row[Target(kind)].state # "unborn"
    /\ Done("delete") => row[Target("delete")].state = "gone"

(* The mutation sequence stays within the bound on mutations. *)
Bounded == sequence + budget.mutations <= MaxMutations

(* The rows and the counts taken of them. *)
CountsOf(r) == [active |-> Cardinality({j \in Jobs : r[j].state = "active"}),
                locked |-> Cardinality({j \in Jobs : r[j].state = "locked"})]

(* The counts of the rows are counts, and never the null summary. *)
LEMMA CountsFacts ==
    /\ CountsNow = CountsOf(row)
    /\ \A r : CountsOf(r) \in Counts /\ CountsOf(r) # NoCounts
    /\ \A c \in Counts : c # NoCounts
<1>1. ASSUME NEW r PROVE CountsOf(r) \in Counts
  <2>1. ASSUME NEW S \in SUBSET Jobs PROVE Cardinality(S) \in 0 .. MaxJob
    <3>1. IsFiniteSet(S) /\ Cardinality(S) <= Cardinality(Jobs)
      BY Sizes, FS_Subset
    <3>2. Cardinality(S) \in Nat
      BY <3>1, FS_CardinalityType
    <3> QED
      BY <3>1, <3>2, Sizes
  <2>2. /\ Cardinality({j \in Jobs : r[j].state = "active"}) \in 0 .. MaxJob
        /\ Cardinality({j \in Jobs : r[j].state = "locked"}) \in 0 .. MaxJob
    BY <2>1
  <2> QED
    BY <2>2 DEF CountsOf, Counts
<1>2. \A c \in Counts : c # NoCounts
  <2>1. \A c \in Counts : c.active # -1
    BY Sizes DEF Counts
  <2> QED
    BY <2>1 DEF NoCounts
<1> QED
  BY <1>1, <1>2 DEF CountsNow, CountsOf, JobsIn

(* handleDeleteJobSuccess leaves exactly the entries of the other jobs. *)
LEMMA WithoutFacts ==
    ASSUME NEW s \in Seq(ShownJob), NEW j
    PROVE  /\ Without(s, j) \in Seq(ShownJob)
           /\ \A n \in DOMAIN Without(s, j) : \E h \in DOMAIN s :
                 Without(s, j)[n] = s[h] /\ s[h].job # j
           /\ \A h \in DOMAIN s : s[h].job # j =>
                 \E n \in DOMAIN Without(s, j) : Without(s, j)[n] = s[h]
           /\ Distinct(s) => Distinct(Without(s, j))
<1> DEFINE kept == {i \in DOMAIN s : s[i].job # j}
           size == Cardinality(kept)
           w == [n \in 1 .. size |-> s[Nth(kept, n)]]
<1>1. Without(s, j) = w
  BY DEF Without
<1>2. /\ DOMAIN s = 1 .. Len(s) /\ Len(s) \in Nat /\ s \in [1 .. Len(s) -> ShownJob]
  BY LenProperties
<1>3. /\ kept \subseteq Nat /\ IsFiniteSet(kept) /\ size \in Nat
  <2>1. IsFiniteSet(DOMAIN s) /\ kept \in SUBSET (DOMAIN s) /\ DOMAIN s \subseteq Nat
    BY <1>2, FS_Interval
  <2> HIDE DEF kept
  <2>2. IsFiniteSet(kept)
    BY <2>1, FS_Subset
  <2> QED
    BY <2>1, <2>2, FS_CardinalityType
<1>4. /\ \A n \in 1 .. size : Nth(kept, n) \in kept
      /\ \A m, n \in 1 .. size : m < n => Nth(kept, m) < Nth(kept, n)
      /\ \A x \in kept : \E n \in 1 .. size : Nth(kept, n) = x
  BY <1>3, NthLists
<1>5. \A n \in 1 .. size : Nth(kept, n) \in DOMAIN s /\ s[Nth(kept, n)].job # j
  BY <1>4
<1>6. \A h \in DOMAIN s : s[h].job # j => \E n \in 1 .. size : Nth(kept, n) = h
  BY <1>4
<1>7. \A m, n \in 1 .. size : Nth(kept, m) = Nth(kept, n) => m = n
  <2> SUFFICES ASSUME NEW m \in 1 .. size, NEW n \in 1 .. size, m # n
               PROVE  Nth(kept, m) # Nth(kept, n)
    OBVIOUS
  <2>1. m < n \/ n < m
    BY <1>3
  <2>2. Nth(kept, m) \in Nat /\ Nth(kept, n) \in Nat
    BY <1>3, <1>4
  <2> QED
    BY <1>4, <2>1, <2>2
<1> HIDE DEF kept, size
<1>8. w \in [1 .. size -> ShownJob]
  BY <1>2, <1>5
<1> HIDE DEF w
<1>9. w \in Seq(ShownJob)
  BY <1>3, <1>8, SeqDef
<1>10. DOMAIN w = 1 .. size /\ \A n \in 1 .. size : w[n] = s[Nth(kept, n)]
  BY <1>8 DEF w
<1>11. Distinct(s) => Distinct(w)
  BY <1>5, <1>7, <1>10 DEF Distinct
<1> QED
  BY <1>1, <1>5, <1>6, <1>9, <1>10, <1>11

(* handleAddJobSuccess puts one entry before the others. *)
LEMMA PrependFacts ==
    ASSUME NEW s \in Seq(ShownJob), NEW e \in ShownJob
    PROVE  /\ <<e>> \o s \in Seq(ShownJob)
           /\ DOMAIN (<<e>> \o s) = 1 .. Len(s) + 1 /\ Len(s) \in Nat /\ DOMAIN s = 1 .. Len(s)
           /\ (<<e>> \o s)[1] = e
           /\ \A h \in 2 .. Len(s) + 1 : h - 1 \in DOMAIN s /\ (<<e>> \o s)[h] = s[h - 1]
<1>1. <<e>> \in Seq(ShownJob) /\ Len(<<e>>) = 1 /\ <<e>>[1] = e
  OBVIOUS
<1>2. Len(s) \in Nat /\ DOMAIN s = 1 .. Len(s)
  BY LenProperties
<1>3. /\ <<e>> \o s \in Seq(ShownJob) /\ Len(<<e>> \o s) = 1 + Len(s)
      /\ \A i \in 1 .. 1 + Len(s) :
            (<<e>> \o s)[i] = IF i <= 1 THEN <<e>>[i] ELSE s[i - 1]
  BY <1>1, ConcatProperties
<1>4. DOMAIN (<<e>> \o s) = 1 .. Len(s) + 1
  BY <1>2, <1>3, LenProperties
<1> QED
  BY <1>1, <1>2, <1>3, <1>4

(* A change of the rows: no job is unborn again, none returns from the dead. *)
RowsGoOn ==
    /\ row' \in [Jobs -> Rows]
    /\ \A j \in Jobs : /\ row[j].version <= row'[j].version
                       /\ row[j].state = "gone" => row'[j].state = "gone"
                       /\ row[j].state # "unborn" => row'[j].state # "unborn"

(* Every mutation and every storage transition moves the rows on. *)
LEMMA RowActions ==
    ASSUME row \in [Jobs -> Rows]
    PROVE  /\ \A j \in Jobs : CreateRow(j) \/ DeleteRow(j) \/ LockRow(j) \/ RestoreRow(j)
                 => RowsGoOn /\ \A k \in Jobs \ {j} : row'[k] = row[k]
           /\ \A j \in Jobs : UpdateRow(j) /\ row[j].version < MaxVersion => RowsGoOn
           /\ DeleteLockedRows => RowsGoOn
           /\ UNCHANGED row => RowsGoOn
<1>1. \A j \in Jobs : /\ row[j].version \in 0 .. MaxVersion /\ row[j].version \in Int
                      /\ row[j].state \in States /\ row[j] \in Rows
                      /\ row[j].version <= row[j].version
  BY Sizes DEF Rows
<1>2. UNCHANGED row => RowsGoOn
  BY <1>1 DEF RowsGoOn
<1>3. ASSUME NEW j \in Jobs, NEW s \in States, row' = [row EXCEPT ![j].state = s],
             row[j].state # "gone", s # "unborn"
      PROVE  RowsGoOn /\ \A k \in Jobs \ {j} : row'[k] = row[k]
  <2>1. [row[j] EXCEPT !.state = s] \in Rows
    BY <1>1 DEF Rows
  <2>2. row' \in [Jobs -> Rows] /\ row'[j].state = s /\ row'[j].version = row[j].version
    BY <1>1, <1>3, <2>1 DEF Rows
  <2>3. \A k \in Jobs \ {j} : row'[k] = row[k]
    BY <1>3
  <2> QED
    BY <1>1, <1>3, <2>2, <2>3 DEF RowsGoOn
<1>4. ASSUME NEW j \in Jobs, UpdateRow(j), row[j].version < MaxVersion
      PROVE  RowsGoOn
  <2>1. row' = [row EXCEPT ![j].version = row[j].version + 1]
    BY <1>4 DEF UpdateRow
  <2>2. row[j].version + 1 \in 0 .. MaxVersion
    BY <1>1, <1>4, Sizes
  <2>3. /\ row' \in [Jobs -> Rows] /\ row'[j].state = row[j].state
        /\ row'[j].version = row[j].version + 1
    BY <1>1, <2>1, <2>2 DEF Rows
  <2>4. \A k \in Jobs \ {j} : row'[k] = row[k]
    BY <2>1
  <2> QED
    BY <1>1, <2>2, <2>3, <2>4 DEF RowsGoOn
<1>5. ASSUME DeleteLockedRows PROVE RowsGoOn
  <2>1. \A j \in Jobs : row'[j] = IF row[j].state = "locked"
                                  THEN [row[j] EXCEPT !.state = "gone"] ELSE row[j]
    BY <1>5 DEF DeleteLockedRows
  <2>2. \A j \in Jobs : LET g == [row[j] EXCEPT !.state = "gone"] IN
                        g \in Rows /\ g.state = "gone" /\ g.version = row[j].version
    BY <1>1 DEF Rows, States
  <2>3. row' \in [Jobs -> Rows]
    BY <1>1, <1>5, <2>1, <2>2 DEF DeleteLockedRows
  <2> QED
    BY <1>1, <2>1, <2>2, <2>3 DEF RowsGoOn
<1>6. ASSUME NEW j \in Jobs, CreateRow(j) \/ DeleteRow(j) \/ LockRow(j) \/ RestoreRow(j)
      PROVE  RowsGoOn /\ \A k \in Jobs \ {j} : row'[k] = row[k]
  BY <1>3, <1>6 DEF CreateRow, DeleteRow, LockRow, RestoreRow, States
<1> QED
  BY <1>2, <1>4, <1>5, <1>6

---------------------------------------------------------------------------
(* What a step does to the rows and the reads *)

(* What becomes of the rows: only changes elsewhere bring a locked job back, *)
(* and every change is witnessed by the reads in flight.                     *)
LEMMA RowStep ==
    ASSUME TypeOK, [Next]_vars
    PROVE  /\ RowsGoOn
           /\ \A j \in Jobs \ touched' :
                 row'[j].state = "active" => row[j].state \in {"active", "unborn"}
           /\ row' = row \/ fetch' = Witnessed
           /\ touched \subseteq touched'
<1> DEFINE Goal == /\ RowsGoOn
                   /\ \A j \in Jobs \ touched' :
                         row'[j].state = "active" => row[j].state \in {"active", "unborn"}
                   /\ row' = row \/ fetch' = Witnessed
                   /\ touched \subseteq touched'
<1>1. row \in [Jobs -> Rows] /\ \A j \in Jobs : row[j].state \in States
  BY DEF TypeOK, Rows
<1>2. ASSUME UNCHANGED <<row, touched>> PROVE Goal
  BY <1>1, <1>2, RowActions
<1>3. ASSUME NEW j \in Jobs, CreateRow(j), fetch' = Witnessed, UNCHANGED touched PROVE Goal
  <2>1. RowsGoOn
    BY <1>1, <1>3, RowActions
  <2>2. \A k \in Jobs : k # j => row'[k] = row[k]
    BY <1>1, <1>3 DEF CreateRow
  <2>3. row[j].state = "unborn"
    BY <1>3 DEF CreateRow
  <2> QED
    BY <1>3, <2>1, <2>2, <2>3
<1>4. ASSUME NEW j \in Jobs, UpdateRow(j), row[j].version < MaxVersion, fetch' = Witnessed,
             UNCHANGED touched
      PROVE  Goal
  <2>1. RowsGoOn
    BY <1>1, <1>4, RowActions
  <2>2. \A k \in Jobs : k # j => row'[k] = row[k]
    BY <1>1, <1>4 DEF UpdateRow
  <2>3. row[j].state = "active"
    BY <1>4 DEF UpdateRow
  <2> QED
    BY <1>4, <2>1, <2>2, <2>3
<1>5. ASSUME NEW j \in Jobs, DeleteRow(j), fetch' = Witnessed, UNCHANGED touched PROVE Goal
  <2>1. RowsGoOn
    BY <1>1, <1>5, RowActions
  <2>2. \A k \in Jobs : k # j => row'[k] = row[k]
    BY <1>1, <1>5 DEF DeleteRow
  <2>3. row[j].state = "active"
    BY <1>5 DEF DeleteRow
  <2> QED
    BY <1>5, <2>1, <2>2, <2>3
<1>6. ASSUME DeleteLockedRows, fetch' = Witnessed, UNCHANGED touched PROVE Goal
  <2>1. RowsGoOn
    BY <1>1, <1>6, RowActions
  <2>2. \A k \in Jobs : row'[k].state = "active" => row[k].state = "active"
    <3> SUFFICES ASSUME NEW k \in Jobs, row'[k].state = "active"
                 PROVE  row[k].state = "active"
      OBVIOUS
    <3>1. row'[k] = IF row[k].state = "locked" THEN [row[k] EXCEPT !.state = "gone"] ELSE row[k]
      BY <1>6 DEF DeleteLockedRows
    <3>2. [row[k] EXCEPT !.state = "gone"].state = "gone"
      BY <1>1 DEF Rows
    <3> QED
      BY <3>1, <3>2
  <2> QED
    BY <1>6, <2>1, <2>2
<1>7. ASSUME NEW j \in Jobs, Elsewhere(j) PROVE Goal
  <2>1. RowsGoOn /\ \A k \in Jobs \ {j} : row'[k] = row[k]
    BY <1>1, <1>7, RowActions DEF Elsewhere
  <2> QED
    BY <1>7, <2>1 DEF Elsewhere
<1> HIDE DEF Goal
<1>8. ASSUME NEW i \in Fetches,
             BeginFetch(i) \/ ServeCounts(i) \/ ServePage(i) \/ FetchFails(i) \/ ReceiveList(i)
      PROVE  Goal
  BY <1>2, <1>8 DEF BeginFetch, ServeCounts, ServePage, FetchFails, ReceiveList
<1>9. ASSUME NEW i \in Refreshes, ServeStatus(i) \/ RefreshFails(i) \/ ReceiveStatus(i)
      PROVE  Goal
  BY <1>2, <1>9 DEF ServeStatus, RefreshFails, ReceiveStatus
<1>10. ASSUME NEW j \in Jobs, BeginUpdate(j) \/ BeginDelete(j) PROVE Goal
  BY <1>2, <1>10 DEF BeginUpdate, BeginDelete, Sends
<1>11. ASSUME BeginAdd \/ BeginArchive PROVE Goal
  BY <1>2, <1>11 DEF BeginAdd, BeginArchive, Sends
<1>12. ASSUME ServeArchive PROVE Goal
  BY <1>6, <1>12 DEF ServeArchive, Answered
<1>13. ASSUME NEW j \in Jobs, ServeAdd(j) \/ ServeUpdate(j) \/ ServeDelete(j) PROVE Goal
  BY <1>3, <1>4, <1>5, <1>13 DEF ServeAdd, ServeUpdate, ServeDelete, Answered
<1>14. ASSUME NEW kind \in Kinds, Refuse(kind) \/ MutationFails(kind) \/ ReceiveFailure(kind)
       PROVE  Goal
  BY <1>2, <1>14 DEF Refuse, MutationFails, ReceiveFailure
<1>15. ASSUME ReceiveAdd \/ ReceiveUpdate \/ ReceiveDelete \/ ReceiveArchive PROVE Goal
  BY <1>2, <1>15 DEF ReceiveAdd, ReceiveUpdate, ReceiveDelete, ReceiveArchive, Succeeds
<1>16. ASSUME UNCHANGED vars PROVE Goal
  BY <1>2, <1>16 DEF vars
<1> QED
  BY <1>7, <1>8, <1>9, <1>10, <1>11, <1>12, <1>13, <1>14, <1>15, <1>16 DEF Next, Goal

(* What becomes of the reads. *)
LEMMA FetchStep ==
    ASSUME TypeOK, ReadsFit, [Next]_vars
    PROVE  /\ fetch' \in [Fetches -> Reads]
           /\ ReadsFit'
<1> DEFINE Goal == fetch' \in [Fetches -> Reads] /\ ReadsFit'
<1>1. row \in [Jobs -> Rows] /\ fetch \in [Fetches -> Reads] /\ RowsGoOn
  BY RowStep DEF TypeOK
<1>2. ASSUME fetch' = Witnessed PROVE Goal
  <2>1. row' \in [Jobs -> Rows]
    BY <1>1 DEF RowsGoOn
  <2>2. \A i \in Fetches : InFlight(i) => Witnessing(fetch[i]) \in Reads
                             /\ ReadFits(Witnessing(fetch[i]), JobsIn("active")')
    BY <1>1, <2>1, WitnessingFits DEF ReadsFit
  <2>3. \A i \in Fetches : Witnessing(fetch[i]).status = fetch[i].status
    BY <1>1 DEF Witnessing, Reads
  <2>4. \A i \in Fetches : fetch'[i] = IF InFlight(i) THEN Witnessing(fetch[i]) ELSE fetch[i]
    BY <1>2 DEF Witnessed
  <2>5. fetch' \in [Fetches -> Reads]
    BY <1>1, <1>2, <2>2, <2>4 DEF Witnessed
  <2> QED
    BY <2>2, <2>3, <2>4, <2>5 DEF ReadsFit, InFlight
<1>3. ASSUME UNCHANGED <<row, fetch>> PROVE Goal
  BY <1>1, <1>3 DEF ReadsFit, InFlight, JobsIn
<1>4. ASSUME NEW i \in Fetches, NEW r \in Reads, UNCHANGED row, fetch' = [fetch EXCEPT ![i] = r],
             r.status \notin {"idle", "over"} => ReadFits(r, JobsIn("active"))
      PROVE  Goal
  <2>1. fetch' \in [Fetches -> Reads] /\ fetch'[i] = r
        /\ \A h \in Fetches \ {i} : fetch'[h] = fetch[h]
    BY <1>1, <1>4
  <2>2. JobsIn("active")' = JobsIn("active")
    BY <1>4 DEF JobsIn
  <2> QED
    BY <1>4, <2>1, <2>2 DEF ReadsFit, InFlight
<1> HIDE DEF Goal
<1>5. ASSUME NEW i \in Fetches,
             BeginFetch(i) \/ ServeCounts(i) \/ ServePage(i) \/ FetchFails(i) \/ ReceiveList(i)
      PROVE  Goal
  <2> DEFINE r == fetch[i]
  <2>1. r \in Reads /\ (InFlight(i) <=> r.status \notin {"idle", "over"})
    BY <1>1 DEF InFlight
  <2>2. CASE BeginFetch(i)
    BY <1>4, <2>2, NewReadFits DEF BeginFetch
  <2>3. CASE ServeCounts(i)
    <3> DEFINE q == [r EXCEPT !.counts = CountsNow]
    <3>1. /\ q \in Reads /\ q.status = r.status /\ q.found = r.found /\ q.after = r.after
          /\ q.steady = r.steady /\ q.ever = r.ever
      BY <2>1, CountsFacts DEF Reads
    <3>2. fetch' = [fetch EXCEPT ![i] = q] /\ UNCHANGED row /\ InFlight(i)
      BY <2>3 DEF ServeCounts
    <3> HIDE DEF q
    <3>3. ReadFits(q, JobsIn("active"))
      BY <3>1, <3>2 DEF ReadsFit, ReadFits
    <3> QED
      BY <1>4, <3>1, <3>2, <3>3
  <2>4. CASE ServePage(i)
    <3>1. /\ fetch' = [fetch EXCEPT ![i] = AfterPage(r)] /\ UNCHANGED row /\ r.status = "reading"
          /\ InFlight(i)
      BY <2>4 DEF ServePage
    <3>2. AfterPage(r) \in Reads /\ ReadFits(AfterPage(r), JobsIn("active"))
      BY <1>1, <2>1, <3>1, AfterPageFits DEF ReadsFit
    <3> QED
      BY <1>4, <3>1, <3>2
  <2>5. CASE FetchFails(i)
    <3> DEFINE q == [r EXCEPT !.status = "failed"]
    <3>1. /\ q \in Reads /\ q.status = "failed" /\ q.found = r.found /\ q.after = r.after
          /\ q.steady = r.steady /\ q.ever = r.ever
      BY <2>1 DEF Reads
    <3>2. fetch' = [fetch EXCEPT ![i] = q] /\ UNCHANGED row /\ InFlight(i)
      BY <2>5 DEF FetchFails
    <3> HIDE DEF q
    <3>3. ReadFits(q, JobsIn("active"))
      BY <3>1, <3>2 DEF ReadsFit, ReadFits
    <3> QED
      BY <1>4, <3>1, <3>2, <3>3
  <2>6. CASE ReceiveList(i)
    BY <1>4, <2>6, NewReadFits DEF ReceiveList
  <2> QED
    BY <1>5, <2>2, <2>3, <2>4, <2>5, <2>6
<1>6. ASSUME NEW i \in Refreshes, ServeStatus(i) \/ RefreshFails(i) \/ ReceiveStatus(i)
      PROVE  Goal
  BY <1>3, <1>6 DEF ServeStatus, RefreshFails, ReceiveStatus
<1>7. ASSUME NEW j \in Jobs, BeginUpdate(j) \/ BeginDelete(j) PROVE Goal
  BY <1>3, <1>7 DEF BeginUpdate, BeginDelete, Sends
<1>8. ASSUME BeginAdd \/ BeginArchive PROVE Goal
  BY <1>3, <1>8 DEF BeginAdd, BeginArchive, Sends
<1>9. ASSUME ServeArchive PROVE Goal
  BY <1>2, <1>9 DEF ServeArchive, Answered
<1>10. ASSUME NEW j \in Jobs, ServeAdd(j) \/ ServeUpdate(j) \/ ServeDelete(j) \/ Elsewhere(j)
       PROVE  Goal
  BY <1>2, <1>10 DEF ServeAdd, ServeUpdate, ServeDelete, Answered, Elsewhere
<1>11. ASSUME NEW kind \in Kinds, Refuse(kind) \/ MutationFails(kind) \/ ReceiveFailure(kind)
       PROVE  Goal
  BY <1>3, <1>11 DEF Refuse, MutationFails, ReceiveFailure
<1>12. ASSUME ReceiveAdd \/ ReceiveUpdate \/ ReceiveDelete \/ ReceiveArchive PROVE Goal
  BY <1>3, <1>12 DEF ReceiveAdd, ReceiveUpdate, ReceiveDelete, ReceiveArchive, Succeeds
<1>13. ASSUME UNCHANGED vars PROVE Goal
  BY <1>3, <1>13 DEF vars
<1> QED
  BY <1>5, <1>6, <1>7, <1>8, <1>9, <1>10, <1>11, <1>12, <1>13 DEF Next, Goal

---------------------------------------------------------------------------
(* What a step does to the refreshes and to what the page shows *)

(* The states of one refresh of the summary. *)
RefreshStates == [phase : {"idle", "sent", "answered", "failed", "over"},
                  counts : Counts \cup {NoCounts}]

(* The next refresh is the first that was not begun. *)
LEMMA NextRefreshFacts ==
    ASSUME refresh[MaxRefreshes].phase = "idle"
    PROVE  /\ NextRefresh \in Refreshes /\ refresh[NextRefresh].phase = "idle"
           /\ NextRefresh # 0
<1> DEFINE Idle == {i \in Refreshes : refresh[i].phase = "idle"}
<1>1. Idle \subseteq Nat /\ Idle # {} /\ Idle \subseteq Refreshes
  BY Sizes DEF Refreshes
<1>2. \A i \in Refreshes : \A h \in 1 .. i - 1 : h \in Refreshes /\ h < i
  BY Sizes DEF Refreshes
<1> HIDE DEF Idle
<1>3. PICK i \in Idle : \A h \in Idle : i <= h
  BY <1>1, LeastNumber
<1>4. i \in Refreshes /\ refresh[i].phase = "idle"
      /\ \A h \in 1 .. i - 1 : refresh[h].phase # "idle"
  <2>1. \A h \in 1 .. i - 1 : h \notin Idle
    BY <1>1, <1>2, <1>3
  <2> QED
    BY <1>1, <1>2, <1>3, <2>1 DEF Idle
<1>5. NextRefresh \in Refreshes /\ refresh[NextRefresh].phase = "idle"
  BY <1>4 DEF NextRefresh
<1> QED
  BY <1>5, Sizes DEF Refreshes

(* What becomes of the refreshes of the summary. *)
LEMMA RefreshStep ==
    ASSUME TypeOK, [Next]_vars
    PROVE  /\ refresh' \in [Refreshes -> RefreshStates]
           /\ fresh' \in 0 .. MaxRefreshes
<1> DEFINE Goal == refresh' \in [Refreshes -> RefreshStates] /\ fresh' \in 0 .. MaxRefreshes
<1>1. /\ refresh \in [Refreshes -> RefreshStates] /\ fresh \in 0 .. MaxRefreshes
      /\ \A i \in Refreshes : refresh[i].counts \in Counts \cup {NoCounts}
      /\ 0 \in 0 .. MaxRefreshes /\ Refreshes \subseteq 0 .. MaxRefreshes
  BY Sizes DEF TypeOK, RefreshStates, Refreshes
<1>2. \A p \in {"idle", "sent", "failed", "over"} : Asking(p) \in RefreshStates
  BY DEF Asking, RefreshStates
<1>3. [phase |-> "answered", counts |-> CountsNow] \in RefreshStates
  BY CountsFacts DEF RefreshStates
<1>4. ASSUME NEW i \in Refreshes, NEW s \in RefreshStates, refresh' = [refresh EXCEPT ![i] = s]
      PROVE  refresh' \in [Refreshes -> RefreshStates]
  BY <1>1, <1>4
<1>5. StartsRefresh => Goal
  BY <1>1, <1>2, <1>4, NextRefreshFacts DEF StartsRefresh
<1>6. UNCHANGED <<refresh, fresh>> => Goal
  BY <1>1
<1>7. \A c : AppliesSummary(c) => Goal
  BY <1>1 DEF AppliesSummary
<1> HIDE DEF Goal
<1>8. ASSUME NEW i \in Fetches,
             BeginFetch(i) \/ ServeCounts(i) \/ ServePage(i) \/ FetchFails(i) \/ ReceiveList(i)
      PROVE  Goal
  BY <1>6, <1>8 DEF BeginFetch, ServeCounts, ServePage, FetchFails, ReceiveList
<1>9. ASSUME NEW i \in Refreshes, ServeStatus(i) \/ RefreshFails(i) \/ ReceiveStatus(i)
      PROVE  Goal
  BY <1>1, <1>2, <1>3, <1>4, <1>9 DEF ServeStatus, RefreshFails, ReceiveStatus, Goal
<1>10. ASSUME NEW j \in Jobs, BeginUpdate(j) \/ BeginDelete(j) PROVE Goal
  BY <1>6, <1>10 DEF BeginUpdate, BeginDelete, Sends
<1>11. ASSUME BeginAdd \/ BeginArchive PROVE Goal
  BY <1>6, <1>11 DEF BeginAdd, BeginArchive, Sends
<1>12. ASSUME ServeArchive PROVE Goal
  BY <1>6, <1>12 DEF ServeArchive, Answered
<1>13. ASSUME NEW j \in Jobs, ServeAdd(j) \/ ServeUpdate(j) \/ ServeDelete(j) \/ Elsewhere(j)
       PROVE  Goal
  BY <1>6, <1>13 DEF ServeAdd, ServeUpdate, ServeDelete, Answered, Elsewhere
<1>14. ASSUME NEW kind \in Kinds, Refuse(kind) \/ MutationFails(kind) \/ ReceiveFailure(kind)
       PROVE  Goal
  BY <1>6, <1>14 DEF Refuse, MutationFails, ReceiveFailure
<1>15. ASSUME ReceiveAdd \/ ReceiveDelete PROVE Goal
  BY <1>5, <1>7, <1>15 DEF ReceiveAdd, ReceiveDelete, SyncsSummary
<1>16. ASSUME ReceiveUpdate \/ ReceiveArchive PROVE Goal
  BY <1>5, <1>6, <1>16 DEF ReceiveUpdate, ReceiveArchive
<1>17. ASSUME UNCHANGED vars PROVE Goal
  BY <1>6, <1>17 DEF vars
<1> QED
  BY <1>8, <1>9, <1>10, <1>11, <1>12, <1>13, <1>14, <1>15, <1>16, <1>17 DEF Next, Goal

(* What becomes of what the page shows. *)
LEMMA PageStep ==
    ASSUME TypeOK, Pending, [Next]_vars
    PROVE  /\ list' \in Seq(ShownJob)
           /\ summary' \in Counts \cup {NoCounts}
           /\ loading' \in BOOLEAN
           /\ current' \in 0 .. MaxFetches
<1> DEFINE Goal == /\ list' \in Seq(ShownJob)
                   /\ summary' \in Counts \cup {NoCounts}
                   /\ loading' \in BOOLEAN
                   /\ current' \in 0 .. MaxFetches
<1>1. /\ list \in Seq(ShownJob) /\ summary \in Counts \cup {NoCounts} /\ loading \in BOOLEAN
      /\ current \in 0 .. MaxFetches
      /\ 0 \in 0 .. MaxFetches /\ Fetches \subseteq 0 .. MaxFetches
      /\ \A i \in Refreshes : refresh[i].counts \in Counts \cup {NoCounts}
      /\ \A i \in Fetches : /\ fetch[i].found \in Seq(ShownJob)
                            /\ fetch[i].counts \in Counts \cup {NoCounts}
      /\ \A k \in Kinds : mutation[k].counts \in Counts \cup {NoCounts}
      /\ \A j \in Jobs : row[j].version \in 0 .. MaxVersion
  BY Sizes DEF TypeOK, Reads, Mutations, Rows, Fetches
<1>2. UNCHANGED <<list, summary, loading, current>> => Goal
  BY <1>1
<1>3. \A kind \in {"add", "delete"} : \A seq :
         SyncsSummary(mutation[kind].counts, seq) => summary' \in Counts \cup {NoCounts}
  BY <1>1 DEF SyncsSummary, AppliesSummary, StartsRefresh, Kinds
<1>4. InvalidatesFetches => loading' \in BOOLEAN /\ current' \in 0 .. MaxFetches
  BY <1>1 DEF InvalidatesFetches
<1>5. ASSUME NEW i \in Fetches,
             BeginFetch(i) \/ ServeCounts(i) \/ ServePage(i) \/ FetchFails(i) \/ ReceiveList(i)
      PROVE  Goal
  BY <1>1, <1>5 DEF BeginFetch, ServeCounts, ServePage, FetchFails, ReceiveList, page
<1>6. ASSUME NEW i \in Refreshes, ServeStatus(i) \/ RefreshFails(i) \/ ReceiveStatus(i)
      PROVE  Goal
  BY <1>1, <1>6 DEF ServeStatus, RefreshFails, ReceiveStatus, page
<1>7. ASSUME ReceiveAdd PROVE Goal
  <2>1. Done("add") /\ Target("add") \in Jobs
    BY <1>7 DEF ReceiveAdd, Succeeds, Done, Pending
  <2>2. [job |-> Target("add"), version |-> 0] \in ShownJob
    BY <2>1, Sizes DEF ShownJob
  <2>3. list' \in Seq(ShownJob)
    BY <1>1, <1>7, <2>2, PrependFacts DEF ReceiveAdd, Target
  <2> QED
    BY <1>3, <1>4, <1>7, <2>3 DEF ReceiveAdd
<1>8. ASSUME ReceiveUpdate PROVE Goal
  <2> DEFINE j == mutation["update"].job
             e(i) == IF list[i].job = j THEN [job |-> j, version |-> row[j].version]
                                        ELSE list[i]
  <2>1. Done("update") /\ j \in Jobs
    BY <1>8 DEF ReceiveUpdate, Succeeds, Done, Pending, Target
  <2>2. DOMAIN list = 1 .. Len(list) /\ Len(list) \in Nat /\ list \in [1 .. Len(list) -> ShownJob]
    BY <1>1, LenProperties
  <2>3. \A i \in 1 .. Len(list) : e(i) \in ShownJob
    BY <1>1, <2>1, <2>2 DEF ShownJob
  <2>4. list' = [i \in 1 .. Len(list) |-> e(i)]
    BY <1>8, <2>2 DEF ReceiveUpdate
  <2>5. list' \in [1 .. Len(list) -> ShownJob]
    BY <2>3, <2>4
  <2>6. list' \in Seq(ShownJob)
    BY <2>2, <2>5, SeqDef
  <2> QED
    BY <1>1, <1>4, <1>8, <2>6 DEF ReceiveUpdate
<1>9. ASSUME ReceiveDelete PROVE Goal
  <2>1. list' \in Seq(ShownJob)
    BY <1>1, <1>9, WithoutFacts DEF ReceiveDelete
  <2> QED
    BY <1>3, <1>4, <1>9, <2>1 DEF ReceiveDelete
<1>10. ASSUME ReceiveArchive PROVE Goal
  BY <1>2, <1>10 DEF ReceiveArchive, StartsRefresh
<1> HIDE DEF Goal
<1>11. ASSUME NEW j \in Jobs, BeginUpdate(j) \/ BeginDelete(j) PROVE Goal
  BY <1>2, <1>11 DEF BeginUpdate, BeginDelete, Sends, page
<1>12. ASSUME BeginAdd \/ BeginArchive PROVE Goal
  BY <1>2, <1>12 DEF BeginAdd, BeginArchive, Sends, page
<1>13. ASSUME ServeArchive PROVE Goal
  BY <1>2, <1>13 DEF ServeArchive, Answered, page
<1>14. ASSUME NEW j \in Jobs, ServeAdd(j) \/ ServeUpdate(j) \/ ServeDelete(j) \/ Elsewhere(j)
       PROVE  Goal
  BY <1>2, <1>14 DEF ServeAdd, ServeUpdate, ServeDelete, Answered, Elsewhere, page
<1>15. ASSUME NEW kind \in Kinds, Refuse(kind) \/ MutationFails(kind) \/ ReceiveFailure(kind)
       PROVE  Goal
  BY <1>2, <1>15 DEF Refuse, MutationFails, ReceiveFailure, page
<1>16. ASSUME UNCHANGED vars PROVE Goal
  BY <1>2, <1>16 DEF vars
<1> QED
  BY <1>5, <1>6, <1>7, <1>8, <1>9, <1>10, <1>11, <1>12, <1>13, <1>14, <1>15, <1>16 DEF Next, Goal

---------------------------------------------------------------------------
(* What a step does to the bounds, the mutations and what the page was told *)

(* What this page was told of a job still holds of its row. *)
Known ==
    \A j \in Jobs :
       /\ settled[j].is = "deleted" => row[j].state = "gone"
       /\ settled[j].is = "present" => /\ row[j].state # "unborn"
                                       /\ settled[j].version <= row[j].version

(* The types of the bounds and of what the page was told. *)
Budgets == [mutations : 0 .. MaxMutations, disturbances : 0 .. MaxDisturbances]
Settlements == [is : {"unknown", "present", "deleted"}, version : 0 .. MaxVersion]

(* What becomes of the bounds and of the histories. *)
LEMMA BudgetStep ==
    ASSUME TypeOK, Bounded, [Next]_vars
    PROVE  /\ sequence' \in 0 .. MaxMutations /\ budget' \in Budgets /\ Bounded'
           /\ touched' \subseteq Jobs /\ trouble' \subseteq {"overlap", "failure"}
<1> DEFINE Goal == /\ sequence' \in 0 .. MaxMutations /\ budget' \in Budgets /\ Bounded'
                   /\ touched' \subseteq Jobs /\ trouble' \subseteq {"overlap", "failure"}
           Spent == UNCHANGED sequence /\ budget' = [budget EXCEPT !.disturbances = @ - 1]
                    /\ budget.disturbances > 0
           Saved == UNCHANGED <<sequence, budget>>
<1>1. /\ sequence \in 0 .. MaxMutations /\ budget \in Budgets
      /\ touched \subseteq Jobs /\ trouble \subseteq {"overlap", "failure"}
      /\ budget.mutations \in 0 .. MaxMutations /\ budget.disturbances \in 0 .. MaxDisturbances
  BY DEF TypeOK, Budgets
<1>2. Spent => sequence' \in 0 .. MaxMutations /\ budget' \in Budgets /\ Bounded'
  <2> SUFFICES ASSUME Spent
               PROVE  sequence' \in 0 .. MaxMutations /\ budget' \in Budgets /\ Bounded'
    OBVIOUS
  <2>1. budget.disturbances - 1 \in 0 .. MaxDisturbances
    BY <1>1, Sizes
  <2>2. budget' \in Budgets /\ budget'.mutations = budget.mutations
    BY <1>1, <2>1 DEF Budgets
  <2> QED
    BY <1>1, <2>2 DEF Bounded
<1>3. Saved => sequence' \in 0 .. MaxMutations /\ budget' \in Budgets /\ Bounded'
  BY <1>1 DEF Bounded
<1>4. ASSUME NEW kind, NEW j, Sends(kind, j) PROVE Goal
  <2>1. budget.mutations - 1 \in 0 .. MaxMutations /\ budget.mutations \in Int
    BY <1>1, <1>4, Sizes DEF Sends
  <2>2. budget' \in Budgets /\ budget'.mutations = budget.mutations - 1
    BY <1>1, <1>4, <2>1 DEF Sends, Budgets
  <2>3. sequence' \in {sequence, sequence + 1} /\ sequence \in Int
    BY <1>1, <1>4 DEF Sends
  <2>4. sequence' + budget'.mutations <= MaxMutations /\ sequence' \in 0 .. MaxMutations
    BY <1>1, <2>1, <2>2, <2>3, Sizes DEF Bounded
  <2> QED
    BY <1>1, <1>4, <2>2, <2>4 DEF Sends, Bounded
<1>5. ASSUME Saved, UNCHANGED <<touched, trouble>> PROVE Goal
  BY <1>1, <1>3, <1>5
<1>6. ASSUME NEW i \in Fetches,
             BeginFetch(i) \/ ServeCounts(i) \/ ServePage(i) \/ ReceiveList(i)
      PROVE  Goal
  BY <1>1, <1>3, <1>6 DEF BeginFetch, ServeCounts, ServePage, ReceiveList
<1>7. ASSUME NEW i \in Fetches, FetchFails(i) PROVE Goal
  BY <1>1, <1>2, <1>7 DEF FetchFails
<1>8. ASSUME NEW i \in Refreshes, ServeStatus(i) \/ ReceiveStatus(i) PROVE Goal
  BY <1>1, <1>3, <1>8 DEF ServeStatus, ReceiveStatus
<1>9. ASSUME NEW i \in Refreshes, RefreshFails(i) PROVE Goal
  BY <1>1, <1>2, <1>9 DEF RefreshFails
<1>10. ASSUME NEW j \in Jobs, ServeAdd(j) \/ ServeUpdate(j) \/ ServeDelete(j) PROVE Goal
  BY <1>5, <1>10 DEF ServeAdd, ServeUpdate, ServeDelete, Answered
<1>11. ASSUME ServeArchive PROVE Goal
  BY <1>5, <1>11 DEF ServeArchive, Answered
<1>12. ASSUME NEW j \in Jobs, Elsewhere(j) PROVE Goal
  BY <1>1, <1>2, <1>12 DEF Elsewhere
<1>13. ASSUME NEW kind \in Kinds, Refuse(kind) \/ ReceiveFailure(kind) PROVE Goal
  BY <1>5, <1>13 DEF Refuse, ReceiveFailure
<1>14. ASSUME NEW kind \in Kinds, MutationFails(kind) PROVE Goal
  BY <1>1, <1>2, <1>14 DEF MutationFails
<1>15. ASSUME ReceiveAdd \/ ReceiveUpdate \/ ReceiveDelete \/ ReceiveArchive PROVE Goal
  BY <1>5, <1>15 DEF ReceiveAdd, ReceiveUpdate, ReceiveDelete, ReceiveArchive, Succeeds
<1>16. ASSUME UNCHANGED vars PROVE Goal
  BY <1>5, <1>16 DEF vars
<1> HIDE DEF Goal
<1>17. ASSUME BeginAdd \/ BeginArchive \/ \E j \in Jobs : BeginUpdate(j) \/ BeginDelete(j)
       PROVE  Goal
  BY <1>4, <1>17 DEF BeginAdd, BeginArchive, BeginUpdate, BeginDelete
<1> QED
  BY <1>6, <1>7, <1>8, <1>9, <1>10, <1>11, <1>12, <1>13, <1>14, <1>15, <1>16, <1>17 DEF Next, Goal

(* What becomes of a mutation: begun, answered, failed or received. *)
LEMMA MutationStep ==
    ASSUME TypeOK, Pending, Bounded, [Next]_vars
    PROVE  mutation' \in [Kinds -> Mutations] /\ Pending'
<1> DEFINE Goal == mutation' \in [Kinds -> Mutations] /\ Pending'
           Posted == {"add", "update", "delete"}
<1>1. /\ mutation \in [Kinds -> Mutations] /\ Kinds = {"add", "update", "delete", "archive"}
      /\ RowsGoOn /\ NotSent \in Mutations /\ NotSent.phase = "idle" /\ NotSent.job = 0
      /\ Jobs \subseteq 0 .. MaxJob /\ 0 \in 0 .. MaxJob
      /\ sequence' \in 0 .. MaxMutations
  <2>1. RowsGoOn /\ sequence' \in 0 .. MaxMutations
    BY RowStep, BudgetStep
  <2>2. Jobs \subseteq 0 .. MaxJob /\ 0 \in 0 .. MaxJob /\ 0 \in 0 .. MaxMutations
    BY Sizes DEF Jobs
  <2>3. NotSent \in Mutations /\ NotSent.phase = "idle" /\ NotSent.job = 0
    BY <2>2 DEF NotSent, Mutations
  <2> QED
    BY <2>1, <2>2, <2>3 DEF TypeOK, Kinds
<1>2. ASSUME UNCHANGED mutation PROVE Goal
  BY <1>1, <1>2 DEF Pending, Done, Target, RowsGoOn
(* One mutation becomes m: no done one, or one whose row is as it should be. *)
<1>3. ASSUME NEW kind \in Kinds, NEW m \in Mutations, mutation' = [mutation EXCEPT ![kind] = m],
             kind = "archive" => m.job = 0,
             m.phase = "done" /\ kind # "archive" =>
                /\ m.job \in Jobs
                /\ row'[m.job].state # "unborn"
                /\ kind = "delete" => row'[m.job].state = "gone"
      PROVE  Goal
  <2>1. /\ mutation' \in [Kinds -> Mutations] /\ mutation'[kind] = m
        /\ \A k \in Kinds \ {kind} : mutation'[k] = mutation[k]
    BY <1>1, <1>3
  <2>2. \A k \in Kinds \ {kind} : Done(k)' = Done(k) /\ Target(k)' = Target(k)
    BY <2>1 DEF Done, Target
  <2>3. (Done(kind)' <=> m.phase = "done") /\ Target(kind)' = m.job
    BY <2>1 DEF Done, Target
  <2>4. Target("archive")' = 0
    BY <1>1, <1>3, <2>2, <2>3 DEF Pending
  <2>5. ASSUME NEW k \in Posted, Done(k)'
        PROVE  Target(k)' \in Jobs /\ row'[Target(k)'].state # "unborn"
               /\ (k = "delete" => row'[Target(k)'].state = "gone")
    <3>1. CASE k = kind
      BY <1>3, <2>3, <2>5, <3>1
    <3>2. CASE k # kind
      <4>1. Done(k) /\ Target(k) \in Jobs /\ Target(k)' = Target(k)
        BY <1>1, <2>2, <2>5, <3>2 DEF Pending
      <4>2. row[Target(k)].state # "unborn" /\ (k = "delete" => row[Target(k)].state = "gone")
        BY <4>1 DEF Pending
      <4> QED
        BY <1>1, <4>1, <4>2 DEF RowsGoOn
    <3> QED
      BY <3>1, <3>2
  <2> QED
    BY <2>1, <2>4, <2>5 DEF Pending
<1> HIDE DEF Goal
<1>4. ASSUME NEW kind \in Kinds, NEW j \in 0 .. MaxJob, Sends(kind, j), kind = "archive" => j = 0
      PROVE  Goal
  <2> DEFINE m == [phase |-> "sent", job |-> j, seq |-> sequence', counts |-> NoCounts]
  <2>1. m \in Mutations /\ mutation' = [mutation EXCEPT ![kind] = m]
    BY <1>1, <1>4 DEF Sends, Mutations
  <2> QED
    BY <1>3, <1>4, <2>1
<1>5. ASSUME NEW kind \in Posted, NEW j \in Jobs, NEW c \in Counts \cup {NoCounts},
             Answered(kind, "done", j, c), row'[j].state # "unborn",
             kind = "delete" => row'[j].state = "gone"
      PROVE  Goal
  <2> DEFINE m == [mutation[kind] EXCEPT !.phase = "done", !.job = j, !.counts = c]
  <2>1. m \in Mutations /\ m.phase = "done" /\ m.job = j
    BY <1>1 DEF Mutations
  <2>2. mutation' = [mutation EXCEPT ![kind] = m]
    BY <1>5 DEF Answered
  <2> HIDE DEF m
  <2> QED
    BY <1>1, <1>3, <1>5, <2>1, <2>2
<1>6. ASSUME ServeArchive PROVE Goal
  <2> DEFINE m == [mutation["archive"] EXCEPT !.phase = "done", !.job = 0, !.counts = NoCounts]
  <2>1. m \in Mutations /\ m.phase = "done" /\ m.job = 0
    BY <1>1 DEF Mutations
  <2>2. mutation' = [mutation EXCEPT !["archive"] = m]
    BY <1>6 DEF ServeArchive, Answered
  <2> HIDE DEF m
  <2> QED
    BY <1>1, <1>3, <2>1, <2>2
<1>7. ASSUME NEW kind \in Kinds, mutation' = [mutation EXCEPT ![kind].phase = "failed"]
      PROVE  Goal
  <2> DEFINE m == [mutation[kind] EXCEPT !.phase = "failed"]
  <2>1. m \in Mutations /\ m.phase = "failed" /\ m.job = mutation[kind].job
    BY <1>1 DEF Mutations
  <2>2. mutation' = [mutation EXCEPT ![kind] = m]
    BY <1>7
  <2> HIDE DEF m
  <2>3. kind = "archive" => m.job = 0
    BY <2>1 DEF Pending, Target
  <2> QED
    BY <1>3, <2>1, <2>2, <2>3
<1>8. ASSUME NEW kind \in Kinds, mutation' = [mutation EXCEPT ![kind] = NotSent] PROVE Goal
  BY <1>1, <1>3, <1>8
<1>9. ASSUME NEW j \in Jobs, ServeAdd(j) \/ ServeUpdate(j) \/ ServeDelete(j) PROVE Goal
  <2>1. row[j] \in Rows /\ row \in [Jobs -> Rows]
    BY DEF TypeOK
  <2>2. CASE ServeAdd(j)
    <3>1. row'[j].state = "active"
      BY <2>1, <2>2 DEF ServeAdd, CreateRow, Rows
    <3>2. CountsNow' \in Counts
      <4>1. CountsNow' = CountsOf(row')
        BY DEF CountsNow, CountsOf, JobsIn
      <4> QED
        BY <4>1, CountsFacts
    <3> QED
      BY <1>5, <2>2, <3>1, <3>2 DEF ServeAdd
  <2>3. CASE ServeUpdate(j)
    <3>1. row'[j].state = "active"
      BY <2>1, <2>3 DEF ServeUpdate, UpdateRow, Rows
    <3> QED
      BY <1>5, <2>3, <3>1 DEF ServeUpdate
  <2>4. CASE ServeDelete(j)
    <3>1. row'[j].state = "gone"
      BY <2>1, <2>4 DEF ServeDelete, DeleteRow, Rows
    <3> QED
      BY <1>5, <2>4, <3>1 DEF ServeDelete
  <2> QED
    BY <1>9, <2>2, <2>3, <2>4
<1>10. ASSUME NEW kind \in Kinds, Refuse(kind) \/ MutationFails(kind) \/ ReceiveFailure(kind)
       PROVE  Goal
  BY <1>7, <1>8, <1>10 DEF Refuse, MutationFails, ReceiveFailure
<1>11. ASSUME ReceiveAdd \/ ReceiveUpdate \/ ReceiveDelete \/ ReceiveArchive PROVE Goal
  BY <1>1, <1>8, <1>11 DEF ReceiveAdd, ReceiveUpdate, ReceiveDelete, ReceiveArchive, Succeeds
<1>12. ASSUME BeginAdd \/ BeginArchive \/ \E j \in Jobs : BeginUpdate(j) \/ BeginDelete(j)
       PROVE  Goal
  BY <1>1, <1>4, <1>12 DEF BeginAdd, BeginArchive, BeginUpdate, BeginDelete
<1>13. ASSUME NEW i \in Fetches,
             BeginFetch(i) \/ ServeCounts(i) \/ ServePage(i) \/ FetchFails(i) \/ ReceiveList(i)
      PROVE  Goal
  BY <1>2, <1>13 DEF BeginFetch, ServeCounts, ServePage, FetchFails, ReceiveList
<1>14. ASSUME NEW i \in Refreshes, ServeStatus(i) \/ RefreshFails(i) \/ ReceiveStatus(i)
      PROVE  Goal
  BY <1>2, <1>14 DEF ServeStatus, RefreshFails, ReceiveStatus
<1>15. ASSUME (\E j \in Jobs : Elsewhere(j)) \/ UNCHANGED vars PROVE Goal
  BY <1>2, <1>15 DEF Elsewhere, vars
<1> QED
  BY <1>6, <1>9, <1>10, <1>11, <1>12, <1>13, <1>14, <1>15 DEF Next, Goal

(* What becomes of what the page was told. *)
LEMMA SettledStep ==
    ASSUME TypeOK, Pending, Known, [Next]_vars
    PROVE  settled' \in [Jobs -> Settlements] /\ Known'
<1> DEFINE Goal == settled' \in [Jobs -> Settlements] /\ Known'
<1>1. /\ settled \in [Jobs -> Settlements] /\ RowsGoOn /\ row \in [Jobs -> Rows]
      /\ \A j \in Jobs : settled[j].version \in Int /\ row[j].version \in 0 .. MaxVersion
      /\ 0 \in 0 .. MaxVersion /\ 0 \notin Jobs
  <2>1. 0 \in 0 .. MaxVersion /\ 0 \notin Jobs /\ 0 .. MaxVersion \subseteq Int
    BY Sizes DEF Jobs
  <2>2. settled \in [Jobs -> Settlements] /\ row \in [Jobs -> Rows]
    BY DEF TypeOK, Settlements
  <2>3. \A j \in Jobs : settled[j].version \in Int /\ row[j].version \in 0 .. MaxVersion
    BY <2>1, <2>2 DEF Settlements, Rows
  <2> QED
    BY <2>1, <2>2, <2>3, RowStep
<1>2. \A j \in Jobs : row'[j].version \in Int /\ row[j].version \in Int
                      /\ row[j].version <= row'[j].version
  BY <1>1, Sizes DEF RowsGoOn, Rows
<1>3. ASSUME UNCHANGED settled PROVE Goal
  BY <1>1, <1>2, <1>3 DEF Known, RowsGoOn
<1>4. ASSUME NEW kind \in {"add", "update", "delete"}, NEW is \in {"present", "deleted"},
             NEW version \in 0 .. MaxVersion, Succeeds(kind, is, version),
             is = "deleted" => kind = "delete",
             is = "present" => kind # "delete" /\ version <= row[Target(kind)].version
      PROVE  Goal
  <2> DEFINE j == Target(kind)
             s == [is |-> is, version |-> version]
  <2>1. Done(kind) /\ j \in Jobs /\ row' = row
        /\ settled' = [settled EXCEPT ![j] = s]
    BY <1>1, <1>4 DEF Succeeds, Pending, Done, Target
  <2>2. /\ is = "deleted" => row[j].state = "gone"
        /\ is = "present" => row[j].state # "unborn"
    BY <1>4, <2>1 DEF Pending
  <2> HIDE DEF j
  <2>3. s \in Settlements /\ s.is = is /\ s.version = version
    BY DEF Settlements
  <2> HIDE DEF s
  <2>4. settled' \in [Jobs -> Settlements] /\ settled'[j] = s
        /\ \A k \in Jobs \ {j} : settled'[k] = settled[k]
    BY <1>1, <2>1, <2>3
  <2>5. Known'
    BY <1>4, <2>1, <2>2, <2>3, <2>4 DEF Known, j
  <2> QED
    BY <2>4, <2>5
<1>5. ASSUME ReceiveArchive PROVE Goal
  BY <1>3, <1>5 DEF ReceiveArchive, Succeeds, Pending, Target
<1> HIDE DEF Goal
<1>6. ASSUME ReceiveAdd \/ ReceiveDelete PROVE Goal
  <2>1. CASE ReceiveAdd
    <3>1. Succeeds("add", "present", 0)
      BY <2>1 DEF ReceiveAdd
    <3>2. Target("add") \in Jobs
      BY <3>1 DEF Succeeds, Pending, Done
    <3>3. 0 <= row[Target("add")].version
      <4> DEFINE v == row[Target("add")].version
      <4>1. v \in 0 .. MaxVersion
        BY <1>1, <3>2
      <4> HIDE DEF v
      <4>2. 0 <= v
        BY <4>1
      <4> QED
        BY <4>2 DEF v
    <3> QED
      BY <1>1, <1>4, <3>1, <3>3
  <2>2. CASE ReceiveDelete
    BY <1>1, <1>4, <2>2 DEF ReceiveDelete
  <2> QED
    BY <1>6, <2>1, <2>2
<1>7. ASSUME ReceiveUpdate PROVE Goal
  <2>1. Succeeds("update", "present", row[Target("update")].version)
    BY <1>7 DEF ReceiveUpdate, Target
  <2>2. Target("update") \in Jobs
    BY <2>1 DEF Succeeds, Pending, Done
  <2>3. /\ row[Target("update")].version \in 0 .. MaxVersion
        /\ row[Target("update")].version <= row[Target("update")].version
    BY <1>1, <1>2, <2>2
  <2> QED
    BY <1>4, <2>1, <2>3
<1>8. ASSUME NEW i \in Fetches,
             BeginFetch(i) \/ ServeCounts(i) \/ ServePage(i) \/ FetchFails(i) \/ ReceiveList(i)
      PROVE  Goal
  BY <1>3, <1>8 DEF BeginFetch, ServeCounts, ServePage, FetchFails, ReceiveList
<1>9. ASSUME NEW i \in Refreshes, ServeStatus(i) \/ RefreshFails(i) \/ ReceiveStatus(i)
      PROVE  Goal
  BY <1>3, <1>9 DEF ServeStatus, RefreshFails, ReceiveStatus
<1>10. ASSUME BeginAdd \/ BeginArchive \/ \E j \in Jobs : BeginUpdate(j) \/ BeginDelete(j)
       PROVE  Goal
  BY <1>3, <1>10 DEF BeginAdd, BeginArchive, BeginUpdate, BeginDelete, Sends
<1>11. ASSUME ServeArchive \/ UNCHANGED vars PROVE Goal
  BY <1>3, <1>11 DEF ServeArchive, Answered, vars
<1>12. ASSUME NEW j \in Jobs, ServeAdd(j) \/ ServeUpdate(j) \/ ServeDelete(j) \/ Elsewhere(j)
       PROVE  Goal
  BY <1>3, <1>12 DEF ServeAdd, ServeUpdate, ServeDelete, Answered, Elsewhere
<1>13. ASSUME NEW kind \in Kinds, Refuse(kind) \/ MutationFails(kind) \/ ReceiveFailure(kind)
       PROVE  Goal
  BY <1>3, <1>13 DEF Refuse, MutationFails, ReceiveFailure
<1> QED
  BY <1>5, <1>6, <1>7, <1>8, <1>9, <1>10, <1>11, <1>12, <1>13 DEF Next, Goal

---------------------------------------------------------------------------
(* The invariant, and what it says of reads and applied lists *)

(* The reply that counts, if it is still on its way, will know all the page  *)
(* was told: no mutation was received since its fetch began.                 *)
News ==
    \A i \in Fetches : i = current /\ InFlight(i) =>
       \A j \in Jobs \ touched :
          /\ settled[j].is = "deleted" => j \notin fetch[i].ever
          /\ settled[j].is = "present" /\ row[j].state = "active" =>
                /\ j \in fetch[i].steady
                /\ \A h \in DOMAIN fetch[i].found :
                      fetch[i].found[h].job = j => fetch[i].found[h].version >= settled[j].version

(* The inductive invariant of the page. *)
DInv == TypeOK /\ ReadsFit /\ Pending /\ Bounded /\ Known /\ News

(* What becomes of the news of the current fetch: a reply applied ends the *)
(* fetch or puts it out of date, and changes of the rows are witnessed.    *)
LEMMA NewsStep ==
    ASSUME DInv, [Next]_vars
    PROVE  News'
<1> DEFINE Goal == News'
<1>1. /\ TypeOK /\ ReadsFit /\ Known /\ News /\ RowsGoOn
      /\ \A j \in Jobs \ touched' :
            row'[j].state = "active" => row[j].state \in {"active", "unborn"}
      /\ row' = row \/ fetch' = Witnessed
      /\ touched \subseteq touched'
      /\ row \in [Jobs -> Rows] /\ fetch \in [Fetches -> Reads] /\ 0 \notin Fetches
  <2>1. TypeOK /\ ReadsFit /\ Known /\ News
    BY DEF DInv
  <2>2. /\ RowsGoOn
        /\ \A j \in Jobs \ touched' :
              row'[j].state = "active" => row[j].state \in {"active", "unborn"}
        /\ row' = row \/ fetch' = Witnessed
        /\ touched \subseteq touched'
    BY <2>1, RowStep
  <2>3. row \in [Jobs -> Rows] /\ fetch \in [Fetches -> Reads]
    BY <2>1 DEF TypeOK
  <2>4. 0 \notin Fetches
    BY Sizes DEF Fetches
  <2> QED
    BY <2>1, <2>2, <2>3, <2>4
<1>2. ASSUME current' = 0 PROVE Goal
  BY <1>1, <1>2 DEF News
(* Rows, and what the page was told, stay: only the fetch may move on. *)
<1>3. ASSUME NEW i \in Fetches, NEW r \in Reads, fetch' = [fetch EXCEPT ![i] = r],
             UNCHANGED <<row, settled, touched, current>>, InFlight(i),
             r.status \notin {"idle", "over"} =>
                /\ r.steady = fetch[i].steady /\ r.ever = fetch[i].ever
                /\ \A h \in DOMAIN r.found :
                      \/ h \in DOMAIN fetch[i].found /\ r.found[h] = fetch[i].found[h]
                      \/ r.found[h].version = row[r.found[h].job].version
      PROVE  Goal
  <2>1. fetch'[i] = r /\ \A k \in Fetches \ {i} : fetch'[k] = fetch[k]
    BY <1>1, <1>3
  <2> SUFFICES ASSUME NEW k \in Fetches, k = current, InFlight(k)', NEW j \in Jobs \ touched
               PROVE  /\ settled[j].is = "deleted" => j \notin fetch'[k].ever
                      /\ settled[j].is = "present" /\ row[j].state = "active" =>
                           /\ j \in fetch'[k].steady
                           /\ \A h \in DOMAIN fetch'[k].found :
                                 fetch'[k].found[h].job = j =>
                                    fetch'[k].found[h].version >= settled[j].version
    BY <1>3 DEF News
  <2>2. InFlight(k)
    BY <1>3, <2>1 DEF InFlight
  <2>3. CASE k # i
    BY <1>1, <2>1, <2>2, <2>3 DEF News
  <2>4. CASE k = i
    <3>1. /\ r.steady = fetch[i].steady /\ r.ever = fetch[i].ever /\ fetch'[k] = r
          /\ \A h \in DOMAIN r.found :
                \/ h \in DOMAIN fetch[i].found /\ r.found[h] = fetch[i].found[h]
                \/ r.found[h].version = row[r.found[h].job].version
      BY <1>3, <2>1, <2>4 DEF InFlight
    <3>2. /\ settled[j].is = "deleted" => j \notin r.ever
          /\ settled[j].is = "present" /\ row[j].state = "active" => j \in r.steady
      BY <1>1, <1>3, <2>4, <3>1 DEF News
    <3>3. ASSUME settled[j].is = "present", row[j].state = "active",
                 NEW h \in DOMAIN r.found, r.found[h].job = j
          PROVE  r.found[h].version >= settled[j].version
      <4>1. CASE h \in DOMAIN fetch[i].found /\ r.found[h] = fetch[i].found[h]
        BY <1>1, <1>3, <2>4, <3>3, <4>1 DEF News
      <4>2. CASE r.found[h].version = row[j].version
        <5>1. settled[j].version \in Int /\ row[j].version \in Int
              /\ settled[j].version <= row[j].version
          BY <1>1, <3>3, Sizes DEF Known, TypeOK, Rows
        <5> QED
          BY <4>2, <5>1
      <4> QED
        BY <3>1, <3>3, <4>1, <4>2
    <3> QED
      BY <3>1, <3>2, <3>3
  <2> QED
    BY <2>3, <2>4
<1>4. ASSUME UNCHANGED <<row, fetch, settled, touched, current>> PROVE Goal
  BY <1>1, <1>4 DEF News, InFlight
(* The rows change under the reads. *)
<1>5. ASSUME fetch' = Witnessed, UNCHANGED <<settled, current>> PROVE Goal
  <2>1. \A k \in Fetches : fetch'[k] = IF InFlight(k) THEN Witnessing(fetch[k]) ELSE fetch[k]
    BY <1>5 DEF Witnessed
  <2>2. \A k \in Fetches : InFlight(k) =>
           /\ fetch'[k].status = fetch[k].status /\ fetch'[k].found = fetch[k].found
           /\ fetch'[k].steady = fetch[k].steady \cap JobsIn("active")'
           /\ fetch'[k].ever = fetch[k].ever \cup JobsIn("active")'
    BY <1>1, <2>1, WitnessingFits DEF RowsGoOn, ReadsFit
  <2>3. \A k \in Fetches : InFlight(k)' => InFlight(k)
    BY <2>1 DEF InFlight
  <2>4. \A j \in Jobs : j \in JobsIn("active")' <=> row'[j].state = "active"
    BY DEF JobsIn
  <2> SUFFICES ASSUME NEW k \in Fetches, k = current, InFlight(k)', NEW j \in Jobs \ touched'
               PROVE  /\ settled[j].is = "deleted" => j \notin fetch'[k].ever
                      /\ settled[j].is = "present" /\ row'[j].state = "active" =>
                           /\ j \in fetch'[k].steady
                           /\ \A h \in DOMAIN fetch'[k].found :
                                 fetch'[k].found[h].job = j =>
                                    fetch'[k].found[h].version >= settled[j].version
    BY <1>5 DEF News
  <2>5. InFlight(k) /\ j \in Jobs \ touched
    BY <1>1, <2>3
  <2>6. ASSUME settled[j].is = "deleted" PROVE j \notin fetch'[k].ever
    <3>1. row'[j].state # "active"
      BY <1>1, <2>6 DEF Known, RowsGoOn
    <3> QED
      BY <1>1, <2>2, <2>4, <2>5, <2>6, <3>1 DEF News
  <2>7. ASSUME settled[j].is = "present", row'[j].state = "active"
        PROVE  row[j].state = "active" /\ j \in fetch'[k].steady
    <3>1. row[j].state = "active"
      BY <1>1, <2>7 DEF Known
    <3> QED
      BY <1>1, <2>2, <2>4, <2>5, <2>7, <3>1 DEF News
  <2> QED
    BY <1>1, <2>2, <2>5, <2>6, <2>7 DEF News
<1>6. ASSUME NEW i \in Fetches, BeginFetch(i) PROVE Goal
  <2>1. fetch'[i] = NewRead /\ current' = i /\ UNCHANGED <<row, settled, touched>>
    BY <1>1, <1>6 DEF BeginFetch
  <2>2. /\ fetch'[i].steady = JobsIn("active") /\ fetch'[i].ever = JobsIn("active")
        /\ DOMAIN fetch'[i].found = {}
    BY <2>1, NewReadFits
  <2>3. \A j \in Jobs : /\ j \in JobsIn("active") <=> row[j].state = "active"
                        /\ settled[j].is = "deleted" => row[j].state # "active"
    BY <1>1 DEF JobsIn, Known
  <2> QED
    BY <2>1, <2>2, <2>3 DEF News
<1> HIDE DEF Goal
<1>7. ASSUME NEW i \in Fetches, ServePage(i) PROVE Goal
  <2>1. /\ fetch' = [fetch EXCEPT ![i] = AfterPage(fetch[i])] /\ fetch[i].status = "reading"
        /\ InFlight(i) /\ UNCHANGED <<row, settled, touched, current>>
        /\ ReadFits(fetch[i], JobsIn("active")) /\ fetch[i] \in Reads
    BY <1>1, <1>7 DEF ServePage, ReadsFit
  <2>2. /\ AfterPage(fetch[i]) \in Reads
        /\ AfterPage(fetch[i]).steady = fetch[i].steady
        /\ AfterPage(fetch[i]).ever = fetch[i].ever
        /\ \A h \in DOMAIN AfterPage(fetch[i]).found :
              \/ /\ h \in DOMAIN fetch[i].found
                 /\ AfterPage(fetch[i]).found[h] = fetch[i].found[h]
              \/ AfterPage(fetch[i]).found[h].version
                    = row[AfterPage(fetch[i]).found[h].job].version
    BY <1>1, <2>1, AfterPageFits
  <2> DEFINE r == AfterPage(fetch[i])
  <2>3. /\ r \in Reads /\ fetch' = [fetch EXCEPT ![i] = r]
        /\ r.steady = fetch[i].steady /\ r.ever = fetch[i].ever
        /\ \A h \in DOMAIN r.found :
              \/ h \in DOMAIN fetch[i].found /\ r.found[h] = fetch[i].found[h]
              \/ r.found[h].version = row[r.found[h].job].version
    BY <2>1, <2>2
  <2> HIDE DEF r
  <2> QED
    BY <1>3, <2>1, <2>3
<1>8. ASSUME NEW i \in Fetches, ServeCounts(i) PROVE Goal
  <2> DEFINE q == [fetch[i] EXCEPT !.counts = CountsNow]
  <2>1. /\ q \in Reads /\ q.status = fetch[i].status /\ q.found = fetch[i].found
        /\ q.steady = fetch[i].steady /\ q.ever = fetch[i].ever
    BY <1>1, CountsFacts DEF Reads
  <2>2. fetch' = [fetch EXCEPT ![i] = q] /\ InFlight(i)
        /\ UNCHANGED <<row, settled, touched, current>>
    BY <1>8 DEF ServeCounts
  <2> HIDE DEF q
  <2> QED
    BY <1>3, <2>1, <2>2
<1>9. ASSUME NEW i \in Fetches, FetchFails(i) PROVE Goal
  <2> DEFINE q == [fetch[i] EXCEPT !.status = "failed"]
  <2>1. /\ q \in Reads /\ q.found = fetch[i].found
        /\ q.steady = fetch[i].steady /\ q.ever = fetch[i].ever
    BY <1>1 DEF Reads
  <2>2. fetch' = [fetch EXCEPT ![i] = q] /\ InFlight(i)
        /\ UNCHANGED <<row, settled, touched, current>>
    BY <1>9 DEF FetchFails
  <2> HIDE DEF q
  <2> QED
    BY <1>3, <2>1, <2>2
<1>10. ASSUME NEW i \in Fetches, ReceiveList(i) PROVE Goal
  BY <1>3, <1>10, NewReadFits DEF ReceiveList
<1>11. ASSUME ReceiveAdd \/ ReceiveUpdate \/ ReceiveDelete PROVE Goal
  BY <1>2, <1>11 DEF ReceiveAdd, ReceiveUpdate, ReceiveDelete, InvalidatesFetches
<1>12. ASSUME ReceiveArchive PROVE Goal
  BY <1>4, <1>12 DEF ReceiveArchive, Succeeds, DInv, Pending, Target
<1>13. ASSUME NEW j \in Jobs, ServeAdd(j) \/ ServeUpdate(j) \/ ServeDelete(j) \/ Elsewhere(j)
       PROVE  Goal
  BY <1>5, <1>13 DEF ServeAdd, ServeUpdate, ServeDelete, Answered, Elsewhere
<1>14. ASSUME ServeArchive PROVE Goal
  BY <1>5, <1>14 DEF ServeArchive, Answered
<1>15. ASSUME NEW i \in Refreshes, ServeStatus(i) \/ RefreshFails(i) \/ ReceiveStatus(i)
      PROVE  Goal
  BY <1>4, <1>15 DEF ServeStatus, RefreshFails, ReceiveStatus
<1>16. ASSUME BeginAdd \/ BeginArchive \/ \E j \in Jobs : BeginUpdate(j) \/ BeginDelete(j)
       PROVE  Goal
  BY <1>4, <1>16 DEF BeginAdd, BeginArchive, BeginUpdate, BeginDelete, Sends
<1>17. ASSUME NEW kind \in Kinds, Refuse(kind) \/ MutationFails(kind) \/ ReceiveFailure(kind)
       PROVE  Goal
  BY <1>4, <1>17 DEF Refuse, MutationFails, ReceiveFailure
<1>18. ASSUME UNCHANGED vars PROVE Goal
  BY <1>4, <1>18 DEF vars
<1> QED
  BY <1>6, <1>7, <1>8, <1>9, <1>10, <1>11, <1>12, <1>13, <1>14, <1>15, <1>16, <1>17, <1>18
  DEF Next, Goal

(* The invariant holds at first. *)
LEMMA InitDInv == Init => DInv
<1> SUFFICES ASSUME Init
             PROVE  DInv
  OBVIOUS
<1>1. /\ <<>> \in Seq(ShownJob) /\ 0 \in 0 .. MaxVersion /\ 0 \in 0 .. MaxFetches
      /\ 0 \in 0 .. MaxRefreshes /\ 0 \in 0 .. MaxMutations /\ 0 \in 0 .. MaxJob
      /\ MaxMutations \in 0 .. MaxMutations /\ MaxDisturbances \in 0 .. MaxDisturbances
  BY Sizes, EmptySeq
<1>2. row \in [Jobs -> Rows]
  BY <1>1 DEF Init, Rows, States
<1>3. fetch \in [Fetches -> Reads] /\ \A i \in Fetches : ~InFlight(i)
  BY NewReadFits DEF Init, InFlight
<1>4. refresh \in [Refreshes -> [phase : {"idle", "sent", "answered", "failed", "over"},
                                 counts : Counts \cup {NoCounts}]]
  BY DEF Init, Asking
<1>5. NotSent \in Mutations /\ NotSent.phase = "idle" /\ NotSent.job = 0
  BY <1>1 DEF NotSent, Mutations
<1>6. mutation \in [Kinds -> Mutations] /\ Pending
  BY <1>5 DEF Init, Pending, Done, Target, Kinds
<1>7. /\ settled \in [Jobs -> [is : {"unknown", "present", "deleted"}, version : 0 .. MaxVersion]]
      /\ Known
  BY <1>1 DEF Init, Known
<1>8. /\ budget \in [mutations : 0 .. MaxMutations, disturbances : 0 .. MaxDisturbances]
      /\ Bounded
  BY <1>1, Sizes DEF Init, Bounded
<1>9. TypeOK
  BY <1>1, <1>2, <1>3, <1>4, <1>6, <1>7, <1>8 DEF TypeOK, Init
<1> QED
  BY <1>3, <1>6, <1>7, <1>8, <1>9 DEF DInv, ReadsFit, News

(* Every step keeps it. *)
LEMMA StepDInv == DInv /\ [Next]_vars => DInv'
<1> SUFFICES ASSUME DInv, [Next]_vars
             PROVE  DInv'
  OBVIOUS
<1>1. TypeOK /\ ReadsFit /\ Pending /\ Bounded /\ Known /\ News
  BY DEF DInv
<1>2. /\ row' \in [Jobs -> Rows]
      /\ fetch' \in [Fetches -> Reads] /\ ReadsFit'
  BY <1>1, RowStep, FetchStep DEF RowsGoOn
<1>3. /\ refresh' \in [Refreshes -> RefreshStates] /\ fresh' \in 0 .. MaxRefreshes
      /\ list' \in Seq(ShownJob) /\ summary' \in Counts \cup {NoCounts}
      /\ loading' \in BOOLEAN /\ current' \in 0 .. MaxFetches
  BY <1>1, RefreshStep, PageStep
<1>4. /\ sequence' \in 0 .. MaxMutations /\ budget' \in Budgets /\ Bounded'
      /\ touched' \subseteq Jobs /\ trouble' \subseteq {"overlap", "failure"}
      /\ mutation' \in [Kinds -> Mutations] /\ Pending'
      /\ settled' \in [Jobs -> Settlements] /\ Known'
  BY <1>1, BudgetStep, MutationStep, SettledStep
<1>5. TypeOK'
  BY <1>2, <1>3, <1>4 DEF TypeOK, RefreshStates, Budgets, Settlements
<1> QED
  BY <1>2, <1>4, <1>5, NewsStep DEF DInv

(* The invariant holds of every behaviour of the page and the server. *)
THEOREM DashboardInvariant == Spec => []DInv
  BY InitDInv, StepDInv, PTL DEF Spec

(* Every variable keeps its type; in particular every entry of the list names  *)
(* a job, and the request numbers stay those of requests that were sent.       *)
THEOREM DashboardTypeCorrect == Spec => []TypeOK
<1>1. DInv => TypeOK
  BY DEF DInv
<1> QED
  BY <1>1, DashboardInvariant, PTL

(* A finished read of the list has every job that was active all along, only    *)
(* jobs that were active at some moment, and none twice, whatever is created,   *)
(* deleted, locked or restored between its pages (fetchCompleteJobsList and the *)
(* cursor of jobReadCursor.js), for every page size and retained limit.         *)
THEOREM CompleteReadsAreComplete == Spec => []ListReadIsComplete
<1>1. DInv => ListReadIsComplete
  <2> SUFFICES ASSUME DInv, NEW i \in Fetches, InFlight(i), fetch[i].status = "complete"
               PROVE  IsCompleteRead(fetch[i])
    BY DEF ListReadIsComplete
  <2>1. ReadFits(fetch[i], JobsIn("active")) /\ fetch[i].found \in Seq(ShownJob)
    BY DEF DInv, ReadsFit, TypeOK, Reads
  <2>2. Cardinality(IdsOf(fetch[i].found)) = Len(fetch[i].found)
    BY <2>1, DistinctCounts, DecreasingIsDistinct DEF ReadFits
  <2> QED
    BY <2>1, <2>2 DEF IsCompleteRead, ReadFits, IdsOf
<1> QED
  BY <1>1, DashboardInvariant, PTL

(* A fetch ends, and the list with it changes, only by its reply. *)
LEMMA AppliedBy ==
    ASSUME DInv, [Next]_vars, NEW i \in Fetches, InFlight(i), fetch'[i].status = "over",
           list' # list
    PROVE  /\ i = current /\ fetch[i].status = "complete" /\ list' = fetch[i].found
           /\ UNCHANGED <<row, settled, touched>>
<1>1. fetch \in [Fetches -> Reads] /\ fetch[i].status \notin {"idle", "over"}
  BY DEF DInv, TypeOK, InFlight
<1>2. ~UNCHANGED list /\ ~UNCHANGED fetch
  BY <1>1
<1>3. fetch' # Witnessed
  BY <1>1 DEF Witnessed, Witnessing, Reads
<1>4. ASSUME NEW k \in Fetches, ReceiveList(k) PROVE k = i
  BY <1>1, <1>4 DEF ReceiveList
<1>5. ASSUME NEW k \in Fetches, ReceiveList(k)
      PROVE  /\ i = current /\ fetch[i].status = "complete" /\ list' = fetch[i].found
             /\ UNCHANGED <<row, settled, touched>>
  BY <1>2, <1>4, <1>5 DEF ReceiveList, IsCurrentFetch, page
<1>6. ASSUME NEW k \in Fetches, BeginFetch(k) \/ ServeCounts(k) \/ ServePage(k) \/ FetchFails(k)
      PROVE  FALSE
  BY <1>2, <1>6 DEF BeginFetch, ServeCounts, ServePage, FetchFails, page
<1>7. ASSUME NEW k \in Refreshes, ServeStatus(k) \/ RefreshFails(k) \/ ReceiveStatus(k)
      PROVE  FALSE
  BY <1>2, <1>7 DEF ServeStatus, RefreshFails, ReceiveStatus
<1>8. ASSUME BeginAdd \/ BeginArchive \/ \E j \in Jobs : BeginUpdate(j) \/ BeginDelete(j)
      PROVE  FALSE
  BY <1>2, <1>8 DEF BeginAdd, BeginArchive, BeginUpdate, BeginDelete, Sends
<1>9. ASSUME NEW j \in Jobs, ServeAdd(j) \/ ServeUpdate(j) \/ ServeDelete(j) \/ Elsewhere(j)
      PROVE  FALSE
  BY <1>3, <1>9 DEF ServeAdd, ServeUpdate, ServeDelete, Answered, Elsewhere
<1>10. ASSUME ServeArchive PROVE FALSE
  BY <1>3, <1>10 DEF ServeArchive, Answered
<1>11. ASSUME NEW kind \in Kinds, Refuse(kind) \/ MutationFails(kind) \/ ReceiveFailure(kind)
       PROVE  FALSE
  BY <1>2, <1>11 DEF Refuse, MutationFails, ReceiveFailure
<1>12. ASSUME ReceiveAdd \/ ReceiveUpdate \/ ReceiveDelete \/ ReceiveArchive PROVE FALSE
  BY <1>2, <1>12 DEF ReceiveAdd, ReceiveUpdate, ReceiveDelete, ReceiveArchive, Succeeds
<1>13. ~UNCHANGED vars
  BY <1>2 DEF vars
<1> QED
  BY <1>5, <1>6, <1>7, <1>8, <1>9, <1>10, <1>11, <1>12, <1>13 DEF Next

(* A list reply that is applied knows every mutation this page was told of: no *)
(* deleted job comes back, no added one goes, no updated one shows an older    *)
(* content (invalidateJobsFetches and the request number of fetchJobs).        *)
THEOREM AppliedListsAreFresh == Spec => AppliedListIsFresh
<1> DEFINE Fresh(i) ==
         InFlight(i) /\ fetch'[i].status = "over" /\ list' # list =>
            \A j \in Jobs \ touched :
               /\ settled[j].is = "deleted" => j \notin Listed'
               /\ settled[j].is = "present" /\ row[j].state = "active" =>
                     \E h \in DOMAIN list' : list'[h].job = j
                                             /\ list'[h].version >= settled[j].version
<1>1. ASSUME DInv, [Next]_vars, NEW i \in Fetches PROVE Fresh(i)
  <2> SUFFICES ASSUME InFlight(i), fetch'[i].status = "over", list' # list, NEW j \in Jobs \ touched
               PROVE  /\ settled[j].is = "deleted" => j \notin Listed'
                      /\ settled[j].is = "present" /\ row[j].state = "active" =>
                           \E h \in DOMAIN list' : list'[h].job = j
                                                   /\ list'[h].version >= settled[j].version
    OBVIOUS
  <2>1. i = current /\ fetch[i].status = "complete" /\ list' = fetch[i].found
    BY <1>1, AppliedBy
  <2>2. ReadFits(fetch[i], JobsIn("active")) /\ News
    BY <1>1 DEF DInv, ReadsFit
  <2>3. /\ \A h \in DOMAIN list' : list'[h].job \in fetch[i].ever
        /\ \A k \in fetch[i].steady : \E h \in DOMAIN list' : list'[h].job = k
    BY <2>1, <2>2 DEF ReadFits, IdsOf
  <2>4. settled[j].is = "deleted" => j \notin Listed'
    BY <2>1, <2>2, <2>3 DEF News, Listed
  <2>5. settled[j].is = "present" /\ row[j].state = "active" =>
           \E h \in DOMAIN list' : list'[h].job = j /\ list'[h].version >= settled[j].version
    BY <2>1, <2>2, <2>3 DEF News
  <2> QED
    BY <2>4, <2>5
<1>2. DInv /\ [Next]_vars => [\A i \in Fetches : Fresh(i)]_vars
  BY <1>1
<1> QED
  BY <1>2, DashboardInvariant, PTL DEF Spec, AppliedListIsFresh

---------------------------------------------------------------------------
(* A calm page: its mutations one at a time, its reads undisturbed *)

(* No request failed or ran beside a mutation, no job was changed elsewhere. *)
Calm == trouble = {} /\ touched = {}

(* A job that was never created was never updated. *)
Unborn == \A j \in Jobs : row[j].state = "unborn" => row[j].version = 0

(* No mutation runs beside another, and none beside a list fetch. *)
OneAtATime ==
    /\ \A k, l \in Mutating : k = l
    /\ Mutating = {} \/ Fetching = {}

(* A read that no mutation runs beside sees the rows as they are. *)
StillRead(r) ==
    /\ r.steady = JobsIn("active") /\ r.ever = JobsIn("active")
    /\ \A h \in DOMAIN r.found : r.found[h].version = row[r.found[h].job].version
    /\ r.counts \in {NoCounts, CountsNow}

(* All reads in flight see the rows as they are. *)
StillReads == \A i \in Fetches : InFlight(i) => StillRead(fetch[i])

(* The list shows the rows of all jobs, but for those of T. *)
ShowsBut(T) ==
    /\ Distinct(list)
    /\ \A j \in Jobs \ T : j \in Listed <=> row[j].state = "active"
    /\ \A h \in DOMAIN list : list[h].job \notin T => list[h].version = row[list[h].job].version

(* The page has its list and awaits no other: then the list shows the rows,  *)
(* but for the job of a mutation whose reply is on its way.                  *)
Received == fetch[1].status # "idle" /\ ~(current \in Fetching)
DoneTargets == {Target(k) : k \in {k \in Kinds : Done(k)}}
ListIsRight == Received =>
    /\ ~loading
    /\ ShowsBut(DoneTargets)
    /\ Done("add") => /\ Target("add") \notin Listed
                      /\ row[Target("add")] = [state |-> "active", version |-> 0]
    /\ Done("update") => /\ Target("update") \in Listed
                         /\ row[Target("update")].state = "active"

(* The summary counts the rows, but for a mutation whose reply is on its way *)
(* or a refresh that is to be applied.                                       *)
Settling == Done("add") \/ Done("delete") \/ Done("archive")
Asked == \E i \in Refreshes : i = fresh /\ Refreshing(i)
SummaryIsRight ==
    /\ Done("add") => mutation["add"].counts = CountsNow
    /\ Done("delete") => mutation["delete"].counts = NoCounts
    /\ \A i \in Refreshes : i = fresh /\ refresh[i].phase = "answered" /\ ~Settling
          => refresh[i].counts = CountsNow
    /\ Received /\ ~Settling /\ ~Asked => summary = CountsNow

(* What a calm page keeps, and the invariant that adds it to DInv. *)
Sequential == OneAtATime /\ StillReads /\ ListIsRight /\ SummaryIsRight
SInv == Unborn /\ (Calm => Sequential)

(* What becomes of jobs that were never created. *)
LEMMA UnbornStep ==
    ASSUME TypeOK, Unborn, [Next]_vars
    PROVE  Unborn'
<1>1. row \in [Jobs -> Rows] /\ \A j \in Jobs : row[j] \in Rows
  BY DEF TypeOK
<1>2. UNCHANGED row => Unborn'
  BY DEF Unborn
<1>3. ASSUME NEW j \in Jobs, NEW s \in {"active", "locked", "gone"},
             row' = [row EXCEPT ![j].state = s]
      PROVE  Unborn'
  <2>1. row'[j].state # "unborn" /\ \A k \in Jobs \ {j} : row'[k] = row[k]
    BY <1>1, <1>3 DEF Rows
  <2> QED
    BY <2>1 DEF Unborn
<1>4. ASSUME NEW j \in Jobs, UpdateRow(j) PROVE Unborn'
  <2>1. row'[j].state # "unborn" /\ \A k \in Jobs \ {j} : row'[k] = row[k]
    BY <1>1, <1>4 DEF UpdateRow, Rows
  <2> QED
    BY <2>1 DEF Unborn
<1>5. ASSUME DeleteLockedRows PROVE Unborn'
  <2>1. \A j \in Jobs : row'[j] = IF row[j].state = "locked"
                                  THEN [row[j] EXCEPT !.state = "gone"] ELSE row[j]
    BY <1>5 DEF DeleteLockedRows
  <2>2. \A j \in Jobs : [row[j] EXCEPT !.state = "gone"].state = "gone"
    BY <1>1 DEF Rows
  <2> QED
    BY <2>1, <2>2 DEF Unborn
<1>6. ASSUME NEW j \in Jobs, CreateRow(j) \/ DeleteRow(j) \/ LockRow(j) \/ RestoreRow(j)
      PROVE  Unborn'
  BY <1>3, <1>6 DEF CreateRow, DeleteRow, LockRow, RestoreRow
<1>7. ASSUME NEW i \in Fetches,
             BeginFetch(i) \/ ServeCounts(i) \/ ServePage(i) \/ FetchFails(i) \/ ReceiveList(i)
      PROVE  UNCHANGED row
  BY <1>7 DEF BeginFetch, ServeCounts, ServePage, FetchFails, ReceiveList
<1>8. ASSUME NEW i \in Refreshes, ServeStatus(i) \/ RefreshFails(i) \/ ReceiveStatus(i)
      PROVE  UNCHANGED row
  BY <1>8 DEF ServeStatus, RefreshFails, ReceiveStatus
<1>9. ASSUME BeginAdd \/ BeginArchive \/ \E j \in Jobs : BeginUpdate(j) \/ BeginDelete(j)
      PROVE  UNCHANGED row
  BY <1>9 DEF BeginAdd, BeginArchive, BeginUpdate, BeginDelete, Sends
<1>10. ASSUME NEW j \in Jobs, ServeAdd(j) \/ ServeUpdate(j) \/ ServeDelete(j) \/ Elsewhere(j)
       PROVE  Unborn'
  BY <1>4, <1>6, <1>10 DEF ServeAdd, ServeUpdate, ServeDelete, Elsewhere
<1>11. ASSUME NEW kind \in Kinds, Refuse(kind) \/ MutationFails(kind) \/ ReceiveFailure(kind)
       PROVE  UNCHANGED row
  BY <1>11 DEF Refuse, MutationFails, ReceiveFailure
<1>12. ASSUME ReceiveAdd \/ ReceiveUpdate \/ ReceiveDelete \/ ReceiveArchive PROVE UNCHANGED row
  BY <1>12 DEF ReceiveAdd, ReceiveUpdate, ReceiveDelete, ReceiveArchive, Succeeds
<1>13. ASSUME UNCHANGED vars PROVE UNCHANGED row
  BY <1>13 DEF vars
<1>14. ASSUME ServeArchive PROVE Unborn'
  BY <1>5, <1>14 DEF ServeArchive
<1> QED
  BY <1>2, <1>7, <1>8, <1>9, <1>10, <1>11, <1>12, <1>13, <1>14 DEF Next

(* The steps of a calm behaviour: nothing fails, nothing happens elsewhere,  *)
(* and what begins begins alone.                                             *)
LEMMA CalmStep ==
    ASSUME TypeOK, [Next]_vars, Calm'
    PROVE  /\ Calm
           /\ \A j \in Jobs : ~Elsewhere(j)
           /\ \A kind \in Kinds : ~MutationFails(kind)
           /\ \A i \in Fetches : BeginFetch(i) => Mutating = {}
           /\ BeginAdd \/ BeginArchive \/ (\E j \in Jobs : BeginUpdate(j) \/ BeginDelete(j)) =>
                 Mutating = {} /\ Fetching = {}
           /\ \A i \in Fetches : ReceiveList(i) /\ i = current => fetch[i].status = "complete"
           /\ \A i \in Refreshes : ReceiveStatus(i) /\ i = fresh => refresh[i].phase # "failed"
<1>1. \A j \in Jobs : ~Elsewhere(j)
  BY DEF Elsewhere, Calm
<1>2. \A kind \in Kinds : ~MutationFails(kind)
  BY DEF MutationFails, Calm
<1>3. \A i \in Fetches : BeginFetch(i) => Mutating = {}
  BY DEF BeginFetch, Calm
<1>4. BeginAdd \/ BeginArchive \/ (\E j \in Jobs : BeginUpdate(j) \/ BeginDelete(j)) =>
         Mutating = {} /\ Fetching = {}
  BY DEF BeginAdd, BeginArchive, BeginUpdate, BeginDelete, Sends, Calm
<1>5. \A i \in Fetches : ReceiveList(i) /\ i = current => fetch[i].status = "complete"
  BY DEF ReceiveList, IsCurrentFetch, Calm
<1>6. \A i \in Refreshes : ReceiveStatus(i) /\ i = fresh => refresh[i].phase # "failed"
  BY DEF ReceiveStatus, Calm
<1>7. trouble \subseteq trouble'
  <2>1. ASSUME NEW i \in Fetches,
               BeginFetch(i) \/ ServeCounts(i) \/ ServePage(i) \/ FetchFails(i) \/ ReceiveList(i)
        PROVE  trouble \subseteq trouble'
    BY <2>1 DEF BeginFetch, ServeCounts, ServePage, FetchFails, ReceiveList
  <2>2. ASSUME NEW i \in Refreshes, ServeStatus(i) \/ RefreshFails(i) \/ ReceiveStatus(i)
        PROVE  trouble \subseteq trouble'
    BY <2>2 DEF ServeStatus, RefreshFails, ReceiveStatus
  <2>3. ASSUME BeginAdd \/ BeginArchive \/ \E j \in Jobs : BeginUpdate(j) \/ BeginDelete(j)
        PROVE  trouble \subseteq trouble'
    BY <2>3 DEF BeginAdd, BeginArchive, BeginUpdate, BeginDelete, Sends
  <2>4. ASSUME NEW j \in Jobs, ServeAdd(j) \/ ServeUpdate(j) \/ ServeDelete(j) \/ Elsewhere(j)
        PROVE  trouble \subseteq trouble'
    BY <2>4 DEF ServeAdd, ServeUpdate, ServeDelete, Answered, Elsewhere
  <2>5. ASSUME NEW kind \in Kinds, Refuse(kind) \/ MutationFails(kind) \/ ReceiveFailure(kind)
        PROVE  trouble \subseteq trouble'
    BY <2>5 DEF Refuse, MutationFails, ReceiveFailure
  <2>6. ASSUME \/ ReceiveAdd \/ ReceiveUpdate \/ ReceiveDelete \/ ReceiveArchive
               \/ ServeArchive \/ UNCHANGED vars
        PROVE  trouble \subseteq trouble'
    BY <2>6 DEF ReceiveAdd, ReceiveUpdate, ReceiveDelete, ReceiveArchive, Succeeds,
                ServeArchive, Answered, vars
  <2> QED
    BY <2>1, <2>2, <2>3, <2>4, <2>5, <2>6 DEF Next
<1>8. Calm
  BY <1>7, RowStep DEF Calm
<1> QED
  BY <1>1, <1>2, <1>3, <1>4, <1>5, <1>6, <1>8

(* A mutation under way is the only one, and no list is being fetched. *)
LEMMA Alone ==
    ASSUME TypeOK, OneAtATime, NEW kind \in Kinds, mutation[kind].phase # "idle"
    PROVE  /\ Fetching = {} /\ \A i \in Fetches : ~InFlight(i)
           /\ \A k \in Kinds \ {kind} : mutation[k].phase = "idle"
  BY DEF OneAtATime, Mutating, Fetching

(* One mutation at a time stays one mutation at a time. *)
LEMMA MutationMoves ==
    ASSUME TypeOK, [Next]_vars, OneAtATime, Calm'
    PROVE  OneAtATime'
<1>1. mutation \in [Kinds -> Mutations] /\ fetch \in [Fetches -> Reads]
  BY DEF TypeOK
<1>2. ASSUME \A k \in Kinds : mutation[k].phase = "idle" => mutation'[k].phase = "idle",
             \A i \in Fetches : ~InFlight(i) => ~InFlight(i)'
      PROVE  OneAtATime'
  BY <1>2 DEF OneAtATime, Mutating, Fetching
<1>3. UNCHANGED <<mutation, fetch>> => OneAtATime'
  BY DEF OneAtATime, Mutating, Fetching, InFlight
<1>4. ASSUME NEW i \in Fetches, BeginFetch(i) PROVE OneAtATime'
  BY <1>4, CalmStep DEF BeginFetch, OneAtATime, Mutating
<1>5. ASSUME NEW i \in Fetches,
             ServeCounts(i) \/ ServePage(i) \/ FetchFails(i) \/ ReceiveList(i)
      PROVE  OneAtATime'
  <2>1. UNCHANGED mutation /\ InFlight(i) /\ \A k \in Fetches \ {i} : fetch'[k] = fetch[k]
    BY <1>1, <1>5 DEF ServeCounts, ServePage, FetchFails, ReceiveList
  <2> QED
    BY <1>2, <2>1 DEF InFlight
<1>6. ASSUME NEW i \in Refreshes, ServeStatus(i) \/ RefreshFails(i) \/ ReceiveStatus(i)
      PROVE  OneAtATime'
  BY <1>3, <1>6 DEF ServeStatus, RefreshFails, ReceiveStatus
<1>7. ASSUME NEW kind \in Kinds, NEW j, Sends(kind, j), Mutating = {}, Fetching = {}
      PROVE  OneAtATime'
  <2>1. UNCHANGED fetch /\ \A k \in Kinds \ {kind} : mutation'[k] = mutation[k]
    BY <1>1, <1>7 DEF Sends
  <2> QED
    BY <1>7, <2>1 DEF OneAtATime, Mutating, Fetching, InFlight
<1>8. ASSUME BeginAdd \/ BeginArchive \/ \E j \in Jobs : BeginUpdate(j) \/ BeginDelete(j)
      PROVE  OneAtATime'
  <2>1. Mutating = {} /\ Fetching = {}
    BY <1>8, CalmStep
  <2> QED
    BY <1>7, <1>8, <2>1 DEF BeginAdd, BeginArchive, BeginUpdate, BeginDelete, Kinds
<1>9. ASSUME NEW kind \in Kinds, mutation[kind].phase = "sent",
             NEW p, NEW j, NEW c, Answered(kind, p, j, c)
      PROVE  OneAtATime'
  <2>1. \A k \in Kinds \ {kind} : mutation'[k] = mutation[k]
    BY <1>1, <1>9 DEF Answered
  <2>2. \A i \in Fetches : ~InFlight(i) => ~InFlight(i)'
    BY <1>1, <1>9 DEF Answered, Witnessed, InFlight
  <2> QED
    BY <1>2, <1>9, <2>1, <2>2
<1>10. ASSUME NEW j \in Jobs, ServeAdd(j) \/ ServeUpdate(j) \/ ServeDelete(j)
       PROVE  OneAtATime'
  BY <1>9, <1>10 DEF ServeAdd, ServeUpdate, ServeDelete, Kinds
<1>11. ASSUME ServeArchive PROVE OneAtATime'
  BY <1>9, <1>11 DEF ServeArchive, Kinds
<1>12. ASSUME NEW kind \in Kinds, Refuse(kind) \/ ReceiveFailure(kind) PROVE OneAtATime'
  <2>1. /\ UNCHANGED fetch /\ mutation[kind].phase # "idle"
        /\ \A k \in Kinds \ {kind} : mutation'[k] = mutation[k]
    BY <1>1, <1>12 DEF Refuse, ReceiveFailure
  <2> QED
    BY <1>2, <2>1 DEF InFlight
<1>13. ASSUME ReceiveAdd \/ ReceiveUpdate \/ ReceiveDelete \/ ReceiveArchive PROVE OneAtATime'
  <2>1. PICK kind \in Kinds : \E is, version : Succeeds(kind, is, version)
    BY <1>13 DEF ReceiveAdd, ReceiveUpdate, ReceiveDelete, ReceiveArchive, Kinds
  <2>2. /\ UNCHANGED fetch /\ mutation[kind].phase # "idle"
        /\ \A k \in Kinds \ {kind} : mutation'[k] = mutation[k]
    BY <1>1, <2>1 DEF Succeeds
  <2> QED
    BY <1>2, <2>2 DEF InFlight
<1>14. ASSUME UNCHANGED vars PROVE OneAtATime'
  BY <1>3, <1>14 DEF vars
<1> QED
  BY CalmStep, <1>4, <1>5, <1>6, <1>8, <1>10, <1>11, <1>12, <1>13, <1>14 DEF Next

(* What becomes of the reads of a calm page. *)
LEMMA StillReadsStep ==
    ASSUME DInv, [Next]_vars, OneAtATime, StillReads, Calm'
    PROVE  StillReads'
<1>1. /\ row \in [Jobs -> Rows] /\ fetch \in [Fetches -> Reads] /\ ReadsFit /\ TypeOK
      /\ mutation \in [Kinds -> Mutations]
  BY DEF DInv, TypeOK
<1>2. UNCHANGED <<row, fetch>> => StillReads'
  BY DEF StillReads, StillRead, InFlight, JobsIn, CountsNow
<1>3. ASSUME NEW i \in Fetches, NEW r \in Reads, UNCHANGED row, fetch' = [fetch EXCEPT ![i] = r],
             r.status \notin {"idle", "over"} => StillRead(r)
      PROVE  StillReads'
  <2>1. /\ fetch'[i] = r /\ \A h \in Fetches \ {i} : fetch'[h] = fetch[h]
    BY <1>1, <1>3
  <2>2. JobsIn("active")' = JobsIn("active") /\ CountsNow' = CountsNow
    BY <1>3 DEF JobsIn, CountsNow
  <2> SUFFICES ASSUME NEW k \in Fetches, InFlight(k)'
               PROVE  StillRead(fetch[k])'
    BY DEF StillReads
  <2>3. StillRead(fetch'[k])
    BY <1>3, <2>1 DEF StillReads, InFlight
  <2> QED
    BY <1>3, <2>2, <2>3 DEF StillRead
<1>4. ASSUME NEW kind \in Kinds, mutation[kind].phase = "sent", fetch' = Witnessed
      PROVE  StillReads'
  <2>1. \A i \in Fetches : ~InFlight(i)
    BY <1>1, <1>4, Alone
  <2>2. \A i \in Fetches : ~InFlight(i)'
    BY <1>4, <2>1 DEF Witnessed, InFlight
  <2> QED
    BY <2>2 DEF StillReads
<1>5. ASSUME NEW i \in Fetches,
             BeginFetch(i) \/ ServeCounts(i) \/ ServePage(i) \/ FetchFails(i) \/ ReceiveList(i)
      PROVE  StillReads'
  <2> DEFINE r == fetch[i]
  <2>1. r \in Reads /\ (InFlight(i) => StillRead(r) /\ ReadFits(r, JobsIn("active")))
    BY <1>1 DEF StillReads, ReadsFit
  <2>2. CASE BeginFetch(i)
    <3>1. StillRead(NewRead) /\ NewRead \in Reads
      BY NewReadFits, EmptySeq DEF StillRead
    <3> QED
      BY <1>3, <2>2, <3>1 DEF BeginFetch
  <2>3. CASE ServeCounts(i)
    <3> DEFINE q == [r EXCEPT !.counts = CountsNow]
    <3>1. /\ q \in Reads /\ q.found = r.found /\ q.counts = CountsNow
          /\ q.steady = r.steady /\ q.ever = r.ever
      BY <2>1, CountsFacts DEF Reads
    <3>2. fetch' = [fetch EXCEPT ![i] = q] /\ UNCHANGED row /\ InFlight(i)
      BY <2>3 DEF ServeCounts
    <3> HIDE DEF q
    <3>3. StillRead(q)
      BY <2>1, <3>1, <3>2 DEF StillRead
    <3> QED
      BY <1>3, <3>1, <3>2, <3>3
  <2>4. CASE ServePage(i)
    <3> DEFINE q == AfterPage(r)
    <3>1. fetch' = [fetch EXCEPT ![i] = q] /\ UNCHANGED row /\ r.status = "reading"
          /\ InFlight(i)
      BY <2>4 DEF ServePage
    <3>2. /\ q \in Reads /\ q.steady = r.steady /\ q.ever = r.ever /\ q.counts = r.counts
          /\ \A h \in DOMAIN q.found : \/ h \in DOMAIN r.found /\ q.found[h] = r.found[h]
                                       \/ q.found[h].version = row[q.found[h].job].version
      BY <1>1, <2>1, <3>1, AfterPageFits
    <3> HIDE DEF q
    <3>3. StillRead(q)
      BY <2>1, <3>1, <3>2 DEF StillRead
    <3> QED
      BY <1>3, <3>1, <3>2, <3>3
  <2>5. CASE FetchFails(i)
    <3> DEFINE q == [r EXCEPT !.status = "failed"]
    <3>1. /\ q \in Reads /\ q.found = r.found /\ q.counts = r.counts
          /\ q.steady = r.steady /\ q.ever = r.ever
      BY <2>1 DEF Reads
    <3>2. fetch' = [fetch EXCEPT ![i] = q] /\ UNCHANGED row /\ InFlight(i)
      BY <2>5 DEF FetchFails
    <3> HIDE DEF q
    <3>3. StillRead(q)
      BY <2>1, <3>1, <3>2 DEF StillRead
    <3> QED
      BY <1>3, <3>1, <3>2, <3>3
  <2>6. CASE ReceiveList(i)
    BY <1>3, <2>6, NewReadFits DEF ReceiveList
  <2> QED
    BY <1>5, <2>2, <2>3, <2>4, <2>5, <2>6
<1>6. ASSUME NEW i \in Refreshes, ServeStatus(i) \/ RefreshFails(i) \/ ReceiveStatus(i)
      PROVE  StillReads'
  BY <1>2, <1>6 DEF ServeStatus, RefreshFails, ReceiveStatus
<1>7. ASSUME BeginAdd \/ BeginArchive \/ \E j \in Jobs : BeginUpdate(j) \/ BeginDelete(j)
      PROVE  StillReads'
  BY <1>2, <1>7 DEF BeginAdd, BeginArchive, BeginUpdate, BeginDelete, Sends
<1>8. ASSUME NEW j \in Jobs, ServeAdd(j) \/ ServeUpdate(j) \/ ServeDelete(j)
      PROVE  StillReads'
  BY <1>4, <1>8 DEF ServeAdd, ServeUpdate, ServeDelete, Answered, Kinds
<1>9. ASSUME ServeArchive PROVE StillReads'
  BY <1>4, <1>9 DEF ServeArchive, Answered, Kinds
<1>10. ASSUME NEW kind \in Kinds, Refuse(kind) \/ ReceiveFailure(kind) PROVE StillReads'
  BY <1>2, <1>10 DEF Refuse, ReceiveFailure
<1>11. ASSUME ReceiveAdd \/ ReceiveUpdate \/ ReceiveDelete \/ ReceiveArchive PROVE StillReads'
  BY <1>2, <1>11 DEF ReceiveAdd, ReceiveUpdate, ReceiveDelete, ReceiveArchive, Succeeds
<1>12. ASSUME UNCHANGED vars PROVE StillReads'
  BY <1>2, <1>12 DEF vars
<1> QED
  BY CalmStep, <1>1, <1>5, <1>6, <1>7, <1>8, <1>9, <1>10, <1>11, <1>12 DEF Next

---------------------------------------------------------------------------
(* The list of a calm page *)

(* The entries of the list name jobs. *)
LEMMA ListedJobs ==
    ASSUME list \in Seq(ShownJob)
    PROVE  /\ DOMAIN list = 1 .. Len(list) /\ Len(list) \in Nat
           /\ \A h \in DOMAIN list : /\ list[h] \in ShownJob /\ list[h].job \in Jobs
                                     /\ list[h].job \in Listed
                                     /\ list[h] = [job |-> list[h].job, version |-> list[h].version]
<1>1. DOMAIN list = 1 .. Len(list) /\ Len(list) \in Nat /\ list \in [1 .. Len(list) -> ShownJob]
  BY LenProperties
<1> QED
  BY <1>1 DEF ShownJob, Listed

(* The answer to the one mutation under way. *)
LEMMA AnsweredAlone ==
    ASSUME TypeOK, OneAtATime, NEW kind \in Kinds, mutation[kind].phase = "sent",
           NEW j, NEW c, Answered(kind, "done", j, c)
    PROVE  /\ fetch' = fetch /\ UNCHANGED <<list, summary, loading, current, refresh, fresh>>
           /\ \A k \in Kinds : ~Done(k) /\ (Done(k)' <=> k = kind)
           /\ DoneTargets = {} /\ DoneTargets' = {j}
           /\ Target(kind)' = j /\ mutation'[kind].counts = c
           /\ Received' = Received
<1>1. mutation \in [Kinds -> Mutations] /\ fetch \in [Fetches -> Reads]
  BY DEF TypeOK
<1>2. (\A i \in Fetches : ~InFlight(i)) /\ \A k \in Kinds \ {kind} : mutation[k].phase = "idle"
  BY Alone
<1>3. fetch' = fetch
  BY <1>1, <1>2 DEF Answered, Witnessed
<1>4. /\ \A k \in Kinds \ {kind} : mutation'[k] = mutation[k]
      /\ mutation'[kind].phase = "done" /\ mutation'[kind].job = j /\ mutation'[kind].counts = c
  BY <1>1 DEF Answered, Mutations
<1>5. \A k \in Kinds : ~Done(k) /\ (Done(k)' <=> k = kind)
  BY <1>2, <1>4 DEF Done
<1>6. DoneTargets = {} /\ DoneTargets' = {j} /\ Target(kind)' = j
  BY <1>4, <1>5 DEF DoneTargets, Target
<1>7. UNCHANGED <<list, summary, loading, current, refresh, fresh>>
  BY DEF Answered, page
<1>8. Received' = Received
  BY <1>3, <1>7 DEF Received, Fetching, InFlight
<1> QED
  BY <1>3, <1>4, <1>5, <1>6, <1>7, <1>8

(* The reply of the one mutation under way. *)
LEMMA SucceedsAlone ==
    ASSUME TypeOK, OneAtATime, NEW kind \in Kinds, NEW is, NEW version,
           Succeeds(kind, is, version)
    PROVE  /\ UNCHANGED <<row, fetch>>
           /\ \A k \in Kinds : (Done(k) <=> k = kind) /\ ~Done(k)'
           /\ DoneTargets = {Target(kind)} /\ DoneTargets' = {}
           /\ Received' = Received
<1>1. mutation \in [Kinds -> Mutations] /\ mutation[kind].phase = "done"
  BY DEF TypeOK, Succeeds
<1>2. Fetching = {} /\ \A k \in Kinds \ {kind} : mutation[k].phase = "idle"
  BY <1>1, Alone
<1>3. /\ \A k \in Kinds \ {kind} : mutation'[k] = mutation[k]
      /\ mutation'[kind].phase = "idle"
  BY <1>1 DEF Succeeds, NotSent
<1>4. \A k \in Kinds : (Done(k) <=> k = kind) /\ ~Done(k)'
  BY <1>1, <1>2, <1>3 DEF Done
<1>5. DoneTargets = {Target(kind)} /\ DoneTargets' = {}
  BY <1>4 DEF DoneTargets
<1>6. UNCHANGED <<row, fetch>>
  BY DEF Succeeds
<1>7. Received' = Received
  BY <1>2, <1>6 DEF Received, Fetching, InFlight
<1> QED
  BY <1>4, <1>5, <1>6, <1>7

(* What becomes of the list of a calm page. *)
LEMMA ListStep ==
    ASSUME DInv, [Next]_vars, Unborn, OneAtATime, StillReads, ListIsRight, Calm'
    PROVE  ListIsRight'
<1> DEFINE Goal == ListIsRight'
<1>1. /\ TypeOK /\ ReadsFit /\ Pending /\ row \in [Jobs -> Rows] /\ list \in Seq(ShownJob)
      /\ fetch \in [Fetches -> Reads] /\ mutation \in [Kinds -> Mutations]
      /\ Kinds = {"add", "update", "delete", "archive"} /\ 0 \notin Jobs
  BY Sizes DEF DInv, TypeOK, Kinds, Jobs
<1>2. /\ DOMAIN list = 1 .. Len(list) /\ Len(list) \in Nat
      /\ \A h \in DOMAIN list : /\ list[h] \in ShownJob /\ list[h].job \in Jobs
                                /\ list[h].job \in Listed
  BY <1>1, ListedJobs
<1>3. ~Received' => Goal
  BY DEF ListIsRight
(* What shows the rows goes on showing them. *)
<1>4. ASSUME UNCHANGED <<list, loading, row>>, Received' => Received,
             \A k \in Kinds : /\ Done(k)' <=> Done(k)
                              /\ Done(k) => Target(k)' = Target(k)
      PROVE  Goal
  <2>1. DoneTargets' = DoneTargets
    BY <1>4 DEF DoneTargets
  <2>2. UNCHANGED <<Listed, list, row, DoneTargets>>
    BY <1>4, <2>1 DEF Listed
  <2>3. ShowsBut(DoneTargets) => ShowsBut(DoneTargets)'
    BY <2>2 DEF ShowsBut, Distinct
  <2>4. /\ Done("add")' => Done("add") /\ Target("add")' = Target("add")
        /\ Done("update")' => Done("update") /\ Target("update")' = Target("update")
    BY <1>1, <1>4
  <2> QED
    BY <1>4, <2>2, <2>3, <2>4 DEF ListIsRight
<1>5. ASSUME NEW i \in Fetches, BeginFetch(i) PROVE Goal
  <2>1. current' = i /\ fetch'[i] = NewRead
    BY <1>1, <1>5 DEF BeginFetch
  <2>2. i \in Fetching'
    BY <2>1, NewReadFits DEF Fetching, InFlight
  <2> QED
    BY <1>3, <2>1, <2>2 DEF Received
<1>6. ASSUME NEW i \in Fetches, ServeCounts(i) \/ ServePage(i) \/ FetchFails(i) PROVE Goal
  <2>1. /\ UNCHANGED <<list, loading, row, mutation, current>> /\ InFlight(i)
        /\ \A k \in Fetches \ {i} : fetch'[k] = fetch[k]
    BY <1>1, <1>6 DEF ServeCounts, ServePage, FetchFails, page
  <2>2. fetch'[i].status \notin {"idle", "over"}
    <3>1. CASE ServeCounts(i)
      BY <1>1, <3>1 DEF ServeCounts, InFlight, Reads
    <3>2. CASE ServePage(i)
      BY <1>1, <3>2, AfterPageFits DEF ServePage, ReadsFit
    <3>3. CASE FetchFails(i)
      BY <1>1, <3>3 DEF FetchFails, Reads
    <3> QED
      BY <1>6, <3>1, <3>2, <3>3
  <2>3. Received' => Received
    BY <2>1, <2>2, Sizes DEF Received, Fetching, InFlight, Fetches
  <2> QED
    BY <1>4, <2>1, <2>3 DEF Done, Target
<1>7. ASSUME NEW i \in Fetches, ReceiveList(i), i # current PROVE Goal
  <2>1. /\ UNCHANGED <<list, loading, row, mutation, current>> /\ InFlight(i)
        /\ \A k \in Fetches \ {i} : fetch'[k] = fetch[k]
    BY <1>1, <1>7 DEF ReceiveList, page, IsCurrentFetch
  <2>2. Received' => Received
    BY <1>7, <2>1, Sizes DEF Received, Fetching, InFlight, Fetches
  <2> QED
    BY <1>4, <2>1, <2>2 DEF Done, Target
<1>8. ASSUME NEW i \in Fetches, ReceiveList(i), i = current PROVE Goal
  <2>1. /\ fetch[i].status = "complete" /\ InFlight(i) /\ UNCHANGED <<row, mutation>>
        /\ list' = fetch[i].found /\ loading' = FALSE
    BY <1>8, CalmStep, <1>1 DEF ReceiveList, IsCurrentFetch
  <2>2. StillRead(fetch[i]) /\ ReadFits(fetch[i], JobsIn("active"))
    BY <1>1, <2>1 DEF StillReads, ReadsFit
  <2>3. Distinct(fetch[i].found)
    BY <1>1, <2>2, DecreasingIsDistinct DEF ReadFits, Reads
  <2>4. Listed' = JobsIn("active")
    BY <2>1, <2>2 DEF Listed, IdsOf, ReadFits, StillRead
  <2>5. \A j \in Jobs : j \in Listed' <=> row'[j].state = "active"
    BY <2>1, <2>4 DEF JobsIn
  <2>6. \A k \in Kinds : ~Done(k)'
    BY <2>1 DEF OneAtATime, Mutating, Fetching, Done
  <2>7. DoneTargets' = {}
    BY <2>6 DEF DoneTargets
  <2>8. ShowsBut(DoneTargets)'
    BY <2>1, <2>2, <2>3, <2>5, <2>7 DEF ShowsBut, StillRead, Distinct
  <2> QED
    BY <1>1, <2>1, <2>6, <2>8 DEF ListIsRight
<1>9. ASSUME NEW i \in Refreshes, ServeStatus(i) \/ RefreshFails(i) \/ ReceiveStatus(i)
      PROVE  Goal
  <2>1. UNCHANGED <<list, loading, row, mutation, fetch, current>>
    BY <1>9 DEF ServeStatus, RefreshFails, ReceiveStatus, page
  <2> QED
    BY <1>4, <2>1 DEF Done, Target, Received, Fetching, InFlight
<1>10. ASSUME NEW kind \in Kinds, NEW j, Sends(kind, j) PROVE Goal
  <2>1. /\ UNCHANGED <<list, loading, row, fetch, current>> /\ mutation[kind].phase = "idle"
        /\ mutation'[kind].phase = "sent"
        /\ \A k \in Kinds \ {kind} : mutation'[k] = mutation[k]
    BY <1>1, <1>10 DEF Sends, page
  <2> QED
    BY <1>4, <2>1 DEF Done, Target, Received, Fetching, InFlight
<1>11. ASSUME BeginAdd \/ BeginArchive \/ \E j \in Jobs : BeginUpdate(j) \/ BeginDelete(j)
       PROVE  Goal
  BY <1>1, <1>10, <1>11 DEF BeginAdd, BeginArchive, BeginUpdate, BeginDelete
<1>12. ASSUME NEW kind \in Kinds, Refuse(kind) \/ ReceiveFailure(kind) PROVE Goal
  <2>1. /\ UNCHANGED <<list, loading, row, fetch, current>> /\ ~Done(kind) /\ ~Done(kind)'
        /\ \A k \in Kinds \ {kind} : mutation'[k] = mutation[k]
    BY <1>1, <1>12 DEF Refuse, ReceiveFailure, page, Done, NotSent, Mutations
  <2> QED
    BY <1>4, <2>1 DEF Done, Target, Received, Fetching, InFlight
<1>13. ASSUME UNCHANGED vars PROVE Goal
  BY <1>4, <1>13 DEF vars, Done, Target, Received, Fetching, InFlight
(* The server answers the one mutation under way: the list is right but for its job. *)
<1>14. ASSUME NEW j, UNCHANGED list, ShowsBut({}),
              \A k \in Jobs \ {j} : /\ row'[k].state = "active" <=> row[k].state = "active"
                                    /\ row'[k].version = row[k].version
       PROVE  ShowsBut({j})'
  <2>1. Listed' = Listed
    BY <1>14 DEF Listed
  <2> QED
    BY <1>2, <1>14, <2>1 DEF ShowsBut, Distinct
<1>15. ASSUME NEW j \in Jobs, ServeAdd(j) PROVE Goal
  <2>1. /\ UNCHANGED <<list, loading>> /\ Received' = Received /\ DoneTargets = {}
        /\ DoneTargets' = {j} /\ Target("add")' = j /\ ~Done("update")'
    BY <1>1, <1>15, AnsweredAlone DEF ServeAdd
  <2>2. /\ row[j].state = "unborn" /\ row'[j] = [state |-> "active", version |-> 0]
        /\ \A k \in Jobs \ {j} : row'[k] = row[k]
    BY <1>1, <1>15 DEF ServeAdd, CreateRow, Unborn, Rows
  <2> SUFFICES ASSUME Received
               PROVE  /\ ~loading' /\ ShowsBut(DoneTargets)'
                      /\ j \notin Listed'
    BY <2>1, <2>2 DEF ListIsRight
  <2>3. ~loading /\ ShowsBut({})
    BY <2>1 DEF ListIsRight
  <2>4. ShowsBut({j})'
    BY <1>14, <2>1, <2>2, <2>3
  <2>5. j \notin Listed' 
    BY <2>1, <2>2, <2>3 DEF ShowsBut, Listed
  <2>6. ShowsBut(DoneTargets)'
    BY <2>1, <2>4 DEF ShowsBut
  <2> QED
    BY <2>1, <2>3, <2>5, <2>6
<1>16. ASSUME NEW j \in Jobs, ServeUpdate(j) PROVE Goal
  <2>1. /\ UNCHANGED <<list, loading>> /\ Received' = Received /\ DoneTargets = {}
        /\ DoneTargets' = {j} /\ Target("update")' = j /\ ~Done("add")'
    BY <1>1, <1>16, AnsweredAlone DEF ServeUpdate
  <2>2. /\ row[j].state = "active" /\ row'[j].state = "active"
        /\ \A k \in Jobs \ {j} : row'[k] = row[k]
    BY <1>1, <1>16 DEF ServeUpdate, UpdateRow, Rows
  <2> SUFFICES ASSUME Received
               PROVE  /\ ~loading' /\ ShowsBut(DoneTargets)'
                      /\ j \in Listed'
    BY <2>1, <2>2 DEF ListIsRight
  <2>3. ~loading /\ ShowsBut({})
    BY <2>1 DEF ListIsRight
  <2>4. ShowsBut({j})'
    BY <1>14, <2>1, <2>2, <2>3
  <2>5. j \in Listed'
    BY <2>1, <2>2, <2>3 DEF ShowsBut, Listed
  <2>6. ShowsBut(DoneTargets)'
    BY <2>1, <2>4 DEF ShowsBut
  <2> QED
    BY <2>1, <2>3, <2>5, <2>6
<1>17. ASSUME NEW j \in Jobs, ServeDelete(j) PROVE Goal
  <2>1. /\ UNCHANGED <<list, loading>> /\ Received' = Received /\ DoneTargets = {}
        /\ DoneTargets' = {j} /\ ~Done("update")' /\ ~Done("add")'
    BY <1>1, <1>17, AnsweredAlone DEF ServeDelete
  <2>2. \A k \in Jobs \ {j} : row'[k] = row[k]
    BY <1>1, <1>17 DEF ServeDelete, DeleteRow
  <2> SUFFICES ASSUME Received
               PROVE  ~loading' /\ ShowsBut(DoneTargets)'
    BY <2>1, <2>2 DEF ListIsRight
  <2>3. ~loading /\ ShowsBut({})
    BY <2>1 DEF ListIsRight
  <2>4. ShowsBut({j})'
    BY <1>14, <2>1, <2>2, <2>3
  <2>5. ShowsBut(DoneTargets)'
    BY <2>1, <2>4 DEF ShowsBut
  <2> QED
    BY <2>1, <2>3, <2>5
<1>18. ASSUME ServeArchive PROVE Goal
  <2>1. /\ UNCHANGED <<list, loading>> /\ Received' = Received /\ DoneTargets = {}
        /\ DoneTargets' = {0} /\ ~Done("update")' /\ ~Done("add")'
    BY <1>1, <1>18, AnsweredAlone DEF ServeArchive
  <2>2. \A k \in Jobs : /\ row'[k].state = "active" <=> row[k].state = "active"
                        /\ row'[k].version = row[k].version
    <3>1. \A k \in Jobs : row'[k] = IF row[k].state = "locked"
                                    THEN [row[k] EXCEPT !.state = "gone"] ELSE row[k]
      BY <1>18 DEF ServeArchive, DeleteLockedRows
    <3>2. \A k \in Jobs : LET g == [row[k] EXCEPT !.state = "gone"] IN
                          g.state = "gone" /\ g.version = row[k].version
      BY <1>1 DEF Rows
    <3> QED
      BY <3>1, <3>2
  <2> SUFFICES ASSUME Received
               PROVE  ~loading' /\ ShowsBut(DoneTargets)'
    BY <2>1, <2>2 DEF ListIsRight
  <2>3. ~loading /\ ShowsBut({})
    BY <2>1 DEF ListIsRight
  <2>4. ShowsBut({0})'
    BY <1>14, <2>1, <2>2, <2>3
  <2>5. ShowsBut(DoneTargets)'
    BY <2>1, <2>4 DEF ShowsBut
  <2> QED
    BY <2>1, <2>3, <2>5
(* The page applies the reply of the one mutation under way. *)
<1>19. ASSUME NEW kind \in Kinds, NEW is, NEW version, Succeeds(kind, is, version),
              Received => ~loading' /\ ShowsBut({})'
       PROVE  Goal
  <2>1. Received' = Received /\ DoneTargets' = {} /\ ~Done("add")' /\ ~Done("update")'
    BY <1>1, <1>19, SucceedsAlone
  <2>2. ShowsBut({})' => ShowsBut(DoneTargets)'
    BY <2>1 DEF ShowsBut
  <2> QED
    BY <1>19, <2>1, <2>2 DEF ListIsRight
<1>20. ASSUME ReceiveAdd PROVE Goal
  <2> DEFINE j == Target("add")
             e == [job |-> j, version |-> 0]
  <2>1. /\ Succeeds("add", "present", 0) /\ Done("add") /\ j \in Jobs /\ loading' = FALSE
        /\ list' = <<e>> \o list /\ UNCHANGED row /\ DoneTargets = {j}
    BY <1>1, <1>20, SucceedsAlone
    DEF ReceiveAdd, Succeeds, InvalidatesFetches, Target, Pending, Done
  <2>2. e \in ShownJob /\ e.job = j /\ e.version = 0
    BY <2>1, Sizes DEF ShownJob
  <2> HIDE DEF j, e
  <2>3. /\ DOMAIN list' = 1 .. Len(list) + 1 /\ list'[1] = e
        /\ \A h \in 2 .. Len(list) + 1 : h - 1 \in DOMAIN list /\ list'[h] = list[h - 1]
    BY <1>1, <2>1, <2>2, PrependFacts
  <2>4. SUFFICES ASSUME Received
                 PROVE  ShowsBut({})'
    BY <1>1, <1>19, <2>1
  <2>5. /\ ShowsBut({j}) /\ j \notin Listed
        /\ row[j] = [state |-> "active", version |-> 0]
    BY <2>1, <2>4 DEF ListIsRight, j
  <2>6. \A h \in DOMAIN list' : \/ h = 1
                                \/ h \in 2 .. Len(list) + 1 /\ h - 1 \in DOMAIN list
    BY <1>2, <2>3
  <2>7. \A h \in 2 .. Len(list) + 1 : list'[h].job \in Listed /\ list'[h].job # j
    BY <1>2, <2>3, <2>5
  <2>8. Distinct(list')
    <3> SUFFICES ASSUME NEW h \in DOMAIN list', NEW k \in DOMAIN list', list'[h].job = list'[k].job
                 PROVE  h = k
      BY DEF Distinct
    <3>1. CASE h = 1 \/ k = 1
      BY <2>2, <2>3, <2>6, <2>7, <3>1
    <3>2. CASE h # 1 /\ k # 1
      <4>1. h - 1 = k - 1
        BY <2>3, <2>5, <2>6, <3>2 DEF ShowsBut, Distinct
      <4> QED
        BY <1>2, <2>3, <4>1
    <3> QED
      BY <3>1, <3>2
  <2>9. Listed' = Listed \cup {j}
    <3>1. \A h \in DOMAIN list' : list'[h].job \in Listed \cup {j}
      BY <2>2, <2>3, <2>6, <2>7
    <3>2. 1 \in DOMAIN list' /\ list'[1].job = j
      BY <1>2, <2>2, <2>3
    <3>3. \A h \in DOMAIN list : h + 1 \in 2 .. Len(list) + 1 /\ h + 1 \in DOMAIN list'
                                 /\ list'[h + 1] = list[h]
      <4> SUFFICES ASSUME NEW h \in DOMAIN list
                   PROVE  h + 1 \in 2 .. Len(list) + 1 /\ h + 1 \in DOMAIN list'
                          /\ list'[h + 1] = list[h]
        OBVIOUS
      <4>1. h \in Int /\ h + 1 \in 2 .. Len(list) + 1 /\ h + 1 \in 1 .. Len(list) + 1
            /\ (h + 1) - 1 = h
        BY <1>2
      <4> QED
        BY <2>3, <4>1
    <3>4. \A k \in Listed : \E h \in DOMAIN list' : list'[h].job = k
      BY <3>3 DEF Listed
    <3> QED
      BY <3>1, <3>2, <3>4 DEF Listed
  <2>10. \A k \in Jobs : k \in Listed' <=> row'[k].state = "active"
    BY <2>1, <2>5, <2>9 DEF ShowsBut
  <2>11. \A h \in DOMAIN list' : list'[h].version = row'[list'[h].job].version
    <3> SUFFICES ASSUME NEW h \in DOMAIN list'
                 PROVE  list'[h].version = row[list'[h].job].version
      BY <2>1
    <3>1. CASE h = 1
      BY <2>2, <2>3, <2>5, <3>1
    <3>2. CASE h # 1
      <4>1. h \in 2 .. Len(list) + 1 /\ h - 1 \in DOMAIN list /\ list'[h] = list[h - 1]
            /\ list[h - 1].job # j
        BY <2>3, <2>6, <2>7, <3>2
      <4> QED
        BY <2>5, <4>1 DEF ShowsBut
    <3> QED
      BY <3>1, <3>2
  <2> QED
    BY <2>8, <2>10, <2>11 DEF ShowsBut, Distinct
<1>21. ASSUME ReceiveUpdate PROVE Goal
  <2> DEFINE j == Target("update")
  <2>1. /\ Succeeds("update", "present", row[j].version) /\ Done("update") /\ j \in Jobs
        /\ loading' = FALSE /\ UNCHANGED row /\ DoneTargets = {j}
        /\ list' = [i \in DOMAIN list |-> IF list[i].job = j
                                          THEN [job |-> j, version |-> row[j].version]
                                          ELSE list[i]]
    BY <1>1, <1>21, SucceedsAlone
    DEF ReceiveUpdate, Succeeds, InvalidatesFetches, Target, Pending, Done
  <2> HIDE DEF j
  <2>2. SUFFICES ASSUME Received
                 PROVE  ShowsBut({})'
    BY <1>1, <1>19, <2>1
  <2>3. ShowsBut({j}) /\ j \in Listed /\ row[j].state = "active"
    BY <2>1, <2>2 DEF ListIsRight, j
  <2>4. /\ DOMAIN list' = DOMAIN list
        /\ \A h \in DOMAIN list : /\ list'[h].job = list[h].job
                                  /\ list'[h].version = row[list[h].job].version
    BY <2>1, <2>3 DEF ShowsBut
  <2>5. Listed' = Listed
    BY <2>4 DEF Listed
  <2> QED
    BY <2>1, <2>3, <2>4, <2>5 DEF ShowsBut, Distinct
<1>22. ASSUME ReceiveDelete PROVE Goal
  <2> DEFINE j == Target("delete")
  <2>1. /\ Succeeds("delete", "deleted", 0) /\ Done("delete") /\ j \in Jobs
        /\ loading' = FALSE /\ UNCHANGED row /\ DoneTargets = {j} /\ list' = Without(list, j)
        /\ row[j].state = "gone"
    BY <1>1, <1>22, SucceedsAlone
    DEF ReceiveDelete, Succeeds, InvalidatesFetches, Target, Pending, Done
  <2> HIDE DEF j
  <2>2. SUFFICES ASSUME Received
                 PROVE  ShowsBut({})'
    BY <1>1, <1>19, <2>1
  <2>3. ShowsBut({j})
    BY <2>1, <2>2 DEF ListIsRight
  <2>4. /\ \A n \in DOMAIN list' : \E h \in DOMAIN list : list'[n] = list[h] /\ list[h].job # j
        /\ \A h \in DOMAIN list : list[h].job # j => \E n \in DOMAIN list' : list'[n] = list[h]
        /\ Distinct(list')
    BY <1>1, <2>1, <2>3, WithoutFacts DEF ShowsBut
  <2>5. Listed' = Listed \ {j}
    BY <2>4 DEF Listed
  <2>6. \A h \in DOMAIN list' : list'[h].version = row[list'[h].job].version
    BY <2>3, <2>4 DEF ShowsBut
  <2> QED
    BY <2>1, <2>3, <2>4, <2>5, <2>6 DEF ShowsBut, Distinct
<1>23. ASSUME ReceiveArchive PROVE Goal
  <2>1. /\ Succeeds("archive", "deleted", 0) /\ UNCHANGED <<row, list, loading>>
        /\ DoneTargets = {0}
    BY <1>1, <1>23, SucceedsAlone DEF ReceiveArchive, Pending
  <2>2. SUFFICES ASSUME Received
                 PROVE  ~loading /\ ShowsBut({})'
    BY <1>1, <1>19, <2>1
  <2>3. ~loading /\ ShowsBut({0}) /\ Listed' = Listed
    BY <2>1, <2>2 DEF ListIsRight, Listed
  <2>4. \A h \in DOMAIN list : list[h].job \notin {0}
    BY <1>1, <1>2
  <2> QED
    BY <1>1, <2>1, <2>3, <2>4 DEF ShowsBut, Distinct
<1> HIDE DEF Goal
<1> QED
  BY CalmStep, <1>1, <1>5, <1>6, <1>7, <1>8, <1>9, <1>11, <1>12, <1>13, <1>15, <1>16, <1>17, <1>18,
     <1>20, <1>21, <1>22, <1>23 DEF Next, Goal

---------------------------------------------------------------------------
(* The summary of a calm page, and where it all ends *)

(* What becomes of the summary of a calm page. *)
LEMMA SummaryStep ==
    ASSUME DInv, [Next]_vars, OneAtATime, StillReads, SummaryIsRight, Calm'
    PROVE  SummaryIsRight'
<1> DEFINE Goal == SummaryIsRight'
           OneRefresh(i) == \A h \in Refreshes \ {i} : refresh'[h] = refresh[h]
<1>1. /\ TypeOK /\ row \in [Jobs -> Rows] /\ refresh \in [Refreshes -> RefreshStates]
      /\ fetch \in [Fetches -> Reads] /\ mutation \in [Kinds -> Mutations]
      /\ Kinds = {"add", "update", "delete", "archive"} /\ 0 \notin Refreshes
  BY Sizes DEF DInv, TypeOK, Kinds, Refreshes, RefreshStates
<1>2. UNCHANGED row => CountsNow' = CountsNow
  BY DEF CountsNow, JobsIn
(* Nothing the summary depends on changes, but perhaps the reception of a list. *)
<1>3. ASSUME UNCHANGED <<row, summary, refresh, fresh>>, Received' => Received,
             \A k \in Kinds : /\ Done(k)' <=> Done(k)
                              /\ Done(k) => mutation'[k].counts = mutation[k].counts
      PROVE  Goal
  <2>1. (Settling' <=> Settling) /\ (Asked' <=> Asked)
    BY <1>1, <1>3 DEF Settling, Asked, Refreshing
  <2>2. /\ Done("add")' => mutation'["add"].counts = CountsNow'
        /\ Done("delete")' => mutation'["delete"].counts = NoCounts
    BY <1>1, <1>2, <1>3 DEF SummaryIsRight
  <2>3. \A i \in Refreshes : i = fresh /\ refresh'[i].phase = "answered" /\ ~Settling'
           => refresh'[i].counts = CountsNow'
    BY <1>2, <1>3, <2>1 DEF SummaryIsRight
  <2>4. Received' /\ ~Settling' /\ ~Asked' => summary' = CountsNow'
    BY <1>2, <1>3, <2>1 DEF SummaryIsRight
  <2> QED
    BY <1>3, <2>2, <2>3, <2>4 DEF SummaryIsRight
<1>4. ASSUME NEW i \in Fetches, BeginFetch(i) \/ ServeCounts(i) \/ ServePage(i) \/ FetchFails(i)
      PROVE  Goal
  <2>1. UNCHANGED <<row, summary, refresh, fresh, mutation>>
    BY <1>4 DEF BeginFetch, ServeCounts, ServePage, FetchFails, page
  <2>2. Received' => Received
    <3>1. CASE BeginFetch(i)
      <4>1. current' = i /\ fetch'[i] = NewRead
        BY <1>1, <3>1 DEF BeginFetch
      <4>2. i \in Fetching'
        BY <4>1, NewReadFits DEF Fetching, InFlight
      <4> QED
        BY <4>1, <4>2 DEF Received
    <3>2. CASE ServeCounts(i) \/ ServePage(i) \/ FetchFails(i)
      <4>1. /\ UNCHANGED current /\ InFlight(i)
            /\ \A k \in Fetches \ {i} : fetch'[k] = fetch[k]
        BY <1>1, <3>2 DEF ServeCounts, ServePage, FetchFails
      <4>2. fetch'[i].status \notin {"idle", "over"}
        <5>1. CASE ServeCounts(i)
          BY <1>1, <5>1 DEF ServeCounts, InFlight, Reads
        <5>2. CASE ServePage(i)
          BY <1>1, <5>2, AfterPageFits DEF ServePage, DInv, ReadsFit
        <5>3. CASE FetchFails(i)
          BY <1>1, <5>3 DEF FetchFails, Reads
        <5> QED
          BY <3>2, <5>1, <5>2, <5>3
      <4> QED
        BY <4>1, <4>2, Sizes DEF Received, Fetching, InFlight, Fetches
    <3> QED
      BY <1>4, <3>1, <3>2
  <2> QED
    BY <1>3, <2>1, <2>2 DEF Done
<1>5. ASSUME NEW i \in Fetches, ReceiveList(i), i # current PROVE Goal
  <2>1. /\ UNCHANGED <<row, summary, refresh, fresh, mutation, current>> /\ InFlight(i)
        /\ \A k \in Fetches \ {i} : fetch'[k] = fetch[k]
    BY <1>1, <1>5 DEF ReceiveList, page, IsCurrentFetch
  <2>2. Received' => Received
    BY <1>5, <2>1, Sizes DEF Received, Fetching, InFlight, Fetches
  <2> QED
    BY <1>3, <2>1, <2>2 DEF Done
<1>6. ASSUME NEW i \in Fetches, ReceiveList(i), i = current PROVE Goal
  <2>1. /\ fetch[i].status = "complete" /\ InFlight(i) /\ fetch[i].counts # NoCounts
        /\ UNCHANGED <<row, mutation, refresh, fresh>> /\ summary' = fetch[i].counts
    BY <1>6, CalmStep, <1>1 DEF ReceiveList, IsCurrentFetch
  <2>2. summary' = CountsNow'
    BY <1>2, <2>1 DEF StillReads, StillRead
  <2> QED
    BY <1>2, <2>1, <2>2 DEF SummaryIsRight, Done, Settling
(* A refresh is asked for: the summary waits for its answer. *)
<1>7. ASSUME StartsRefresh, \A k \in Kinds : ~Done(k)' PROVE Goal
  <2>1. /\ fresh' \in Refreshes /\ refresh'[fresh'] = Asking("sent")
    BY <1>1, <1>7, NextRefreshFacts DEF StartsRefresh
  <2>2. refresh'[fresh'].phase = "sent"
    BY <2>1 DEF Asking
  <2>3. Asked'
    BY <2>1, <2>2 DEF Asked, Refreshing
  <2>4. ~Done("add")' /\ ~Done("delete")'
    BY <1>1, <1>7
  <2> QED
    BY <2>2, <2>3, <2>4 DEF SummaryIsRight
<1>8. ASSUME NEW i \in Refreshes, ServeStatus(i) \/ RefreshFails(i) \/ ReceiveStatus(i)
      PROVE  Goal
  <2>1. /\ UNCHANGED <<row, fetch, current, fresh, mutation>> /\ OneRefresh(i)
        /\ Received' = Received
    <3>1. UNCHANGED <<row, fetch, current, fresh, mutation>> /\ OneRefresh(i)
      BY <1>1, <1>8 DEF ServeStatus, RefreshFails, ReceiveStatus
    <3> QED
      BY <3>1 DEF Received, Fetching, InFlight
  <2>2. /\ Settling' = Settling
        /\ Done("add")' => mutation'["add"].counts = CountsNow'
        /\ Done("delete")' => mutation'["delete"].counts = NoCounts
    BY <1>2, <2>1 DEF SummaryIsRight, Done, Settling
  <2> SUFFICES /\ \A h \in Refreshes : h = fresh /\ refresh'[h].phase = "answered" /\ ~Settling
                      => refresh'[h].counts = CountsNow
               /\ Received /\ ~Settling /\ ~Asked' => summary' = CountsNow
    BY <1>2, <2>1, <2>2 DEF SummaryIsRight
  <2>3. ASSUME i # fresh, UNCHANGED summary
        PROVE  /\ \A h \in Refreshes : h = fresh /\ refresh'[h].phase = "answered" /\ ~Settling
                      => refresh'[h].counts = CountsNow
               /\ Received /\ ~Settling /\ ~Asked' => summary' = CountsNow
    BY <2>1, <2>3 DEF SummaryIsRight, Asked, Refreshing
  <2>4. CASE ServeStatus(i)
    <3>1. UNCHANGED summary /\ refresh'[i] = [phase |-> "answered", counts |-> CountsNow]
      BY <1>1, <2>4 DEF ServeStatus, page
    <3>2. refresh'[i].phase = "answered" /\ refresh'[i].counts = CountsNow
      BY <3>1
    <3>3. i = fresh => Asked'
      BY <2>1, <3>2 DEF Asked, Refreshing
    <3> QED
      BY <2>3, <3>1, <3>2, <3>3
  <2>5. CASE RefreshFails(i)
    <3>1. UNCHANGED summary /\ refresh'[i].phase = "failed"
      BY <1>1, <2>5 DEF RefreshFails, page, Asking
    <3>2. i = fresh => Asked'
      BY <2>1, <3>1 DEF Asked, Refreshing
    <3> QED
      BY <2>3, <3>1, <3>2
  <2>6. CASE ReceiveStatus(i) /\ i # fresh
    BY <2>3, <2>6 DEF ReceiveStatus
  <2>7. CASE ReceiveStatus(i) /\ i = fresh
    <3>1. /\ summary' = refresh[i].counts /\ refresh'[i].phase = "over"
          /\ refresh[i].phase \notin {"idle", "over", "sent", "failed"}
      BY <1>1, <2>7, CalmStep DEF ReceiveStatus, Refreshing, Asking
    <3>2. refresh[i].phase = "answered"
      BY <1>1, <3>1 DEF RefreshStates
    <3> QED
      BY <2>7, <3>1, <3>2 DEF SummaryIsRight
  <2> QED
    BY <1>8, <2>4, <2>5, <2>6, <2>7
<1>9. ASSUME NEW kind \in Kinds, NEW j, Sends(kind, j) PROVE Goal
  <2>1. /\ UNCHANGED <<row, summary, refresh, fresh, fetch, current>> /\ ~Done(kind) /\ ~Done(kind)'
        /\ \A k \in Kinds \ {kind} : mutation'[k] = mutation[k]
    BY <1>1, <1>9 DEF Sends, page, Done
  <2> QED
    BY <1>3, <2>1 DEF Done, Received, Fetching, InFlight
<1>10. ASSUME BeginAdd \/ BeginArchive \/ \E j \in Jobs : BeginUpdate(j) \/ BeginDelete(j)
       PROVE  Goal
  BY <1>1, <1>9, <1>10 DEF BeginAdd, BeginArchive, BeginUpdate, BeginDelete
<1>11. ASSUME NEW kind \in Kinds, Refuse(kind) \/ ReceiveFailure(kind) PROVE Goal
  <2>1. /\ UNCHANGED <<row, summary, refresh, fresh, fetch, current>> /\ ~Done(kind) /\ ~Done(kind)'
        /\ \A k \in Kinds \ {kind} : mutation'[k] = mutation[k]
    BY <1>1, <1>11 DEF Refuse, ReceiveFailure, page, Done, NotSent, Mutations
  <2> QED
    BY <1>3, <2>1 DEF Done, Received, Fetching, InFlight
<1>12. ASSUME UNCHANGED vars PROVE Goal
  BY <1>3, <1>12 DEF vars, Done, Received, Fetching, InFlight
(* The server answers the one mutation under way. *)
<1>13. ASSUME NEW j \in Jobs, ServeAdd(j) PROVE Goal
  <2>1. Done("add")' /\ ~Done("delete")' /\ mutation'["add"].counts = CountsNow'
    BY <1>1, <1>13, AnsweredAlone DEF ServeAdd
  <2> QED
    BY <2>1 DEF SummaryIsRight, Settling
<1>14. ASSUME NEW j \in Jobs, ServeDelete(j) PROVE Goal
  <2>1. Done("delete")' /\ ~Done("add")' /\ mutation'["delete"].counts = NoCounts
    BY <1>1, <1>14, AnsweredAlone DEF ServeDelete
  <2> QED
    BY <2>1 DEF SummaryIsRight, Settling
<1>15. ASSUME ServeArchive PROVE Goal
  <2>1. Done("archive")' /\ ~Done("add")' /\ ~Done("delete")'
    BY <1>1, <1>15, AnsweredAlone DEF ServeArchive
  <2> QED
    BY <2>1 DEF SummaryIsRight, Settling
<1>16. ASSUME NEW j \in Jobs, ServeUpdate(j) PROVE Goal
  <2>1. /\ ~Settling /\ ~Settling' /\ Received' = Received /\ UNCHANGED <<summary, refresh, fresh>>
    BY <1>1, <1>16, AnsweredAlone DEF ServeUpdate, Settling
  <2>2. \A k \in Jobs : row'[k].state = row[k].state
    BY <1>1, <1>16 DEF ServeUpdate, UpdateRow, Rows
  <2>3. CountsNow' = CountsNow
    <3>1. \A s : JobsIn(s)' = JobsIn(s)
      BY <2>2 DEF JobsIn
    <3> QED
      BY <3>1 DEF CountsNow
  <2>4. Asked' = Asked
    BY <2>1 DEF Asked, Refreshing
  <2> QED
    BY <2>1, <2>3, <2>4 DEF SummaryIsRight, Settling
(* The page applies the reply of the one mutation under way. *)
<1>17. ASSUME NEW kind \in Kinds, NEW is, NEW version, Succeeds(kind, is, version)
       PROVE  /\ ~Settling' /\ (\A k \in Kinds : ~Done(k)') /\ Received' = Received
              /\ CountsNow' = CountsNow /\ Done(kind)
              /\ \A k \in Kinds : Done(k) => k = kind
  BY <1>1, <1>2, <1>17, SucceedsAlone DEF Settling
<1>18. ASSUME ReceiveAdd PROVE Goal
  <2> DEFINE m == mutation["add"]
  <2>1. Succeeds("add", "present", 0) /\ SyncsSummary(m.counts, m.seq)
    BY <1>18 DEF ReceiveAdd
  <2>2. /\ \A k \in Kinds : ~Done(k)' 
        /\ m.counts = CountsNow' /\ ~Settling'
    BY <1>1, <1>17, <2>1 DEF SummaryIsRight
  <2>3. CASE StartsRefresh
    BY <1>7, <2>2, <2>3
  <2>4. CASE AppliesSummary(m.counts)
    <3>1. summary' = CountsNow' /\ fresh' = 0
      BY <2>2, <2>4 DEF AppliesSummary
    <3> QED
      BY <1>1, <2>2, <3>1 DEF SummaryIsRight
  <2> QED
    BY <2>1, <2>3, <2>4 DEF SyncsSummary
<1>19. ASSUME ReceiveDelete PROVE Goal
  <2> DEFINE m == mutation["delete"]
  <2>1. Succeeds("delete", "deleted", 0) /\ SyncsSummary(m.counts, m.seq)
    BY <1>19 DEF ReceiveDelete
  <2>2. (\A k \in Kinds : ~Done(k)') /\ m.counts = NoCounts
    BY <1>1, <1>17, <2>1 DEF SummaryIsRight
  <2> QED
    BY <1>7, <2>1, <2>2 DEF SyncsSummary
<1>20. ASSUME ReceiveArchive PROVE Goal
  <2>1. Succeeds("archive", "deleted", 0) /\ StartsRefresh
    BY <1>20 DEF ReceiveArchive
  <2> QED
    BY <1>1, <1>7, <1>17, <2>1
<1>21. ASSUME ReceiveUpdate PROVE Goal
  <2>1. Succeeds("update", "present", row[mutation["update"].job].version)
        /\ UNCHANGED <<summary, refresh, fresh>>
    BY <1>21 DEF ReceiveUpdate
  <2>2. /\ ~Settling /\ ~Settling' /\ Received' = Received /\ CountsNow' = CountsNow
        /\ Asked' = Asked
    BY <1>1, <1>17, <2>1 DEF Settling, Asked, Refreshing
  <2> QED
    BY <2>1, <2>2 DEF SummaryIsRight, Settling
<1> HIDE DEF Goal
<1> QED
  BY CalmStep, <1>1, <1>4, <1>5, <1>6, <1>8, <1>10, <1>11, <1>12, <1>13, <1>14, <1>15, <1>16,
     <1>18, <1>19, <1>20, <1>21 DEF Next, Goal

(* Nothing was received at first. *)
LEMMA InitSInv == Init => SInv
<1> SUFFICES ASSUME Init
             PROVE  SInv
  OBVIOUS
<1>1. /\ \A k \in Kinds : mutation[k].phase = "idle"
      /\ \A i \in Fetches : fetch[i].status = "idle" /\ ~InFlight(i)
      /\ \A i \in Refreshes : i # fresh
      /\ "add" \in Kinds /\ "delete" \in Kinds
  BY Sizes DEF Init, NotSent, NoRead, InFlight, Refreshes, Kinds
<1>2. 1 \in Fetches
  BY Sizes DEF Fetches
<1>3. Unborn
  BY DEF Init, Unborn
<1>4. OneAtATime /\ StillReads
  BY <1>1 DEF OneAtATime, StillReads, Mutating, Fetching
<1>5. ~Received
  BY <1>1, <1>2 DEF Received
<1>6. ListIsRight /\ SummaryIsRight
  BY <1>1, <1>5 DEF ListIsRight, SummaryIsRight, Done
<1> QED
  BY <1>3, <1>4, <1>6 DEF SInv, Sequential

(* A calm step from a calm state keeps what a calm page keeps. *)
LEMMA StepSInv == DInv /\ SInv /\ [Next]_vars => SInv'
<1> SUFFICES ASSUME DInv, SInv, [Next]_vars
             PROVE  SInv'
  OBVIOUS
<1>1. TypeOK /\ Unborn
  BY DEF DInv, SInv
<1>2. Unborn'
  BY <1>1, UnbornStep
<1>3. ASSUME Calm' PROVE Sequential'
  <2>1. Sequential
    BY <1>1, <1>3, CalmStep DEF SInv
  <2>2. OneAtATime /\ StillReads /\ ListIsRight /\ SummaryIsRight
    BY <2>1 DEF Sequential
  <2>3. OneAtATime' /\ StillReads'
    BY <1>1, <1>3, <2>2, MutationMoves, StillReadsStep
  <2>4. ListIsRight' /\ SummaryIsRight'
    BY <1>1, <1>3, <2>2, ListStep, SummaryStep
  <2> QED
    BY <2>3, <2>4 DEF Sequential
<1> QED
  BY <1>2, <1>3 DEF SInv

(* Both invariants hold of every behaviour. *)
THEOREM SequentialInvariant == Spec => [](DInv /\ SInv)
<1>1. Init => DInv /\ SInv
  BY InitDInv, InitSInv
<1>2. DInv /\ SInv /\ [Next]_vars => (DInv /\ SInv)'
  BY StepDInv, StepSInv
<1> QED
  BY <1>1, <1>2, PTL DEF Spec

(* A page whose mutations ran one at a time, none beside a list fetch and with *)
(* no failure, shows the active jobs with their content, each once, the counts *)
(* and no spinner whenever nothing is in flight, however its summaries and     *)
(* refreshes overtook each other (refreshStorageSummary, applyStorageSummary). *)
THEOREM SequentialPagesSettle == Spec => []SettlesWhenSequential
<1>1. DInv /\ SInv => SettlesWhenSequential
  <2> SUFFICES ASSUME DInv, SInv, Quiet, fetch[1].status # "idle", trouble = {}, touched = {}
               PROVE  Mirrors
    BY DEF SettlesWhenSequential
  <2>1. ListIsRight /\ SummaryIsRight /\ list \in Seq(ShownJob)
    BY DEF SInv, Calm, Sequential, DInv, TypeOK
  <2>2. Received /\ \A k \in Kinds : ~Done(k)
    BY DEF Received, Quiet, Mutating, Done
  <2>3. ~loading /\ ShowsBut({}) /\ ~Settling /\ ~Asked
    <3>1. DoneTargets = {}
      BY <2>2 DEF DoneTargets
    <3>2. ~Settling /\ ~Asked
      BY <2>2 DEF Settling, Asked, Quiet, Kinds
    <3> QED
      BY <2>1, <2>2, <3>1, <3>2 DEF ListIsRight
  <2>4. summary = CountsNow
    BY <2>1, <2>2, <2>3 DEF SummaryIsRight
  <2>5. Distinct(list) /\ Listed = JobsIn("active") /\ IdsOf(list) = Listed
    <3>1. Listed \subseteq Jobs
      BY <2>1, ListedJobs DEF Listed
    <3> QED
      BY <2>3, <3>1 DEF ShowsBut, JobsIn, IdsOf, Listed
  <2>6. Len(list) = Cardinality(JobsIn("active"))
    BY <2>1, <2>5, DistinctCounts
  <2>7. \A h \in DOMAIN list : list[h] = [job |-> list[h].job, version |-> row[list[h].job].version]
    BY <2>1, <2>3, ListedJobs DEF ShowsBut
  <2>8. {list[i] : i \in DOMAIN list}
          = {[job |-> j, version |-> row[j].version] : j \in JobsIn("active")}
    BY <2>5, <2>7 DEF Listed
  <2> QED
    BY <2>3, <2>4, <2>6, <2>8 DEF Mirrors
<1> QED
  BY <1>1, SequentialInvariant, PTL
===========================================================================
