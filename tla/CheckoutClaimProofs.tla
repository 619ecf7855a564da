------------------------ MODULE CheckoutClaimProofs ------------------------
(***************************************************************************)
(* Proofs about CheckoutClaim, for any number of invocations, attempts,    *)
(* rows and failures.  The argument for OneLiveUrl: a Session that can     *)
(* still be paid and whose URL is out is in an open row (LiveIsOpen),      *)
(* because a row leaves "open" only for a Session that is over, and at     *)
(* most one row is active.  A job that closes a row therefore has to know  *)
(* that its Session is over (WholeIn).                                     *)
(*                                                                         *)
(* For the customer: the row's customer, once set, stays (MappingStays),   *)
(* so what any lookup has found is what the row says (LookupsAreMapped),   *)
(* and a new customer needs a key Stripe has forgotten (MadeIsCounted).    *)
(***************************************************************************)
EXTENDS CheckoutClaim, SequenceTheorems, TLAPS

Over == {"complete", "expired"}

(* What a job of a given step can rely on, with sessions at Stripe f.       *)
WholeIn(f, j) ==
    /\ j.pc # "idle" => j.nonce \in Nonces
    /\ j.pc \in {"create", "finalize", "fail"} => j.row \in RowIds
    /\ j.pc = "finalize" => f[j.nonce] # "none"
    /\ j.pc = "close" /\ j.todo # <<>> => j.status \in Over
    /\ j.pc = "close" /\ j.todo \notin {<<>>, <<"expire", "mark">>} => f[j.nonce] \in Over

(* A row holds a Session exactly if it ever was open. *)
RowIsWhole(f, row) ==
    /\ row.status \in Over \cup {"open"} => row.session \in Nonces /\ f[row.session] # "none"
    /\ row.status \in {"creating", "failed"} => row.session = NoSession

JobsAreWhole == \A w \in Workers : WholeIn(sessions, job[w])
RowsAreWhole == \A r \in RowIds : RowIsWhole(sessions, rows[r])
PastIsOver == \A s \in past : sessions[s] \in Over

(* A payable URL is in an open row. *)
LiveIsOpen ==
    \A s \in handed : sessions[s] = "open" =>
        \E r \in RowIds : rows[r].status = "open" /\ rows[r].session = s

(* TypeOK but for the customer, which has an invariant of its own. *)
CoreTypeOK ==
    /\ sessions \in [Nonces -> SessionStatuses]
    /\ past \cup handed \cup subs \subseteq {n \in Nonces : sessions[n] # "none"}
    /\ local \in BOOLEAN
    /\ rows \in [RowIds -> Row]
    /\ \A q, r \in ActiveIn(rows) : q = r
    /\ late \subseteq {r \in RowIds : rows[r].status = "creating"}
    /\ job \in [Workers -> Job]
    /\ failures \in 0..MaxFailures

CInv == /\ CoreTypeOK /\ JobsAreWhole /\ RowsAreWhole /\ PastIsOver
        /\ LiveIsOpen /\ HandedOutIsMinted

(* Sessions at Stripe only go on: from none to open to over. *)
GoesOn(f, g) ==
    \A n \in Nonces : /\ f[n] # "none" => g[n] # "none"
                      /\ f[n] \in Over => g[n] \in Over

---------------------------------------------------------------------------
LEMMA TodoFacts ==
    /\ \A t \in Todos : t # <<>> => Tail(t) \in Todos
    /\ \A t \in Todos : t # <<>> /\ Head(t) = "expire" => Tail(t) = <<"mark">>
    /\ \A t \in Todos : t # <<>> /\ Head(t) # "expire" => Tail(t) # <<"expire", "mark">>
    /\ \A t \in Todos : t # <<>> /\ Head(t) # "expire" => t # <<"expire", "mark">>
<1> QED
  BY DEF Todos

LEMMA WholeStays ==
    ASSUME NEW f, NEW g, GoesOn(f, g), NEW j, WholeIn(f, j)
    PROVE  WholeIn(g, j)
<1> QED
  BY DEF GoesOn, WholeIn, Over

(* One worker moves to job j. *)
LEMMA JobMoves ==
    ASSUME NEW f, NEW g, GoesOn(f, g),
           NEW jobs \in [Workers -> Job], \A v \in Workers : WholeIn(f, jobs[v]),
           NEW w \in Workers, NEW j \in Job, WholeIn(g, j)
    PROVE  /\ [jobs EXCEPT ![w] = j] \in [Workers -> Job]
           /\ \A v \in Workers : WholeIn(g, [jobs EXCEPT ![w] = j][v])
<1>1. [jobs EXCEPT ![w] = j] \in [Workers -> Job]
  OBVIOUS
<1>2. ASSUME NEW v \in Workers PROVE WholeIn(g, [jobs EXCEPT ![w] = j][v])
  <2>1. WholeIn(g, jobs[v])
    BY WholeStays
  <2>2. [jobs EXCEPT ![w] = j][v] = IF v = w THEN j ELSE jobs[v]
    OBVIOUS
  <2> QED
    BY <2>1, <2>2
<1> QED
  BY <1>1, <1>2

LEMMA IdleIsWhole == Idle \in Job /\ \A f : WholeIn(f, Idle)
<1>1. <<>> \in Todos
  BY DEF Todos
<1> QED
  BY <1>1 DEF Idle, Job, WholeIn

LEMMA FailureIsWhole ==
    ASSUME CInv, NEW w \in Workers
    PROVE  /\ Thrown(w) \in Job /\ WholeIn(sessions, Thrown(w))
           /\ job[w].pc = "close" /\ job[w].todo # <<>>
                => AfterFailure(w) \in Job /\ WholeIn(sessions, AfterFailure(w))
           /\ job[w].pc # "close" => AfterFailure(w) = Thrown(w)
<1> USE DEF CInv, CoreTypeOK
<1>1. job[w] \in Job /\ WholeIn(sessions, job[w])
  BY DEF JobsAreWhole
<1>2. Thrown(w) \in Job /\ WholeIn(sessions, Thrown(w))
  BY <1>1, IdleIsWhole DEF Thrown, At, Job, WholeIn
<1>3. ASSUME job[w].pc = "close", job[w].todo # <<>>
      PROVE  AfterFailure(w) \in Job /\ WholeIn(sessions, AfterFailure(w))
  <2>1. CASE Head(job[w].todo) = "markQuietly"
    <3>1. job[w].todo \in Todos
      BY <1>1 DEF Job
    <3>2. /\ Tail(job[w].todo) \in Todos
          /\ Tail(job[w].todo) # <<"expire", "mark">>
          /\ job[w].todo # <<"expire", "mark">>
      BY <1>3, <2>1, <3>1, TodoFacts
    <3>3. AfterFailure(w) = [job[w] EXCEPT !.todo = Tail(job[w].todo)]
      BY <1>3, <2>1 DEF AfterFailure
    <3>4. AfterFailure(w) \in Job
      BY <1>1, <3>2, <3>3 DEF Job
    <3> QED
      BY <1>1, <1>3, <3>2, <3>3, <3>4 DEF WholeIn, Job
  <2>2. CASE Head(job[w].todo) # "markQuietly"
    BY <1>2, <2>2 DEF AfterFailure
  <2> QED
    BY <2>1, <2>2
<1> QED
  BY <1>2, <1>3 DEF AfterFailure

---------------------------------------------------------------------------
(* What every step that leaves the rows alone has to show. *)
LEMMA RowsAlone ==
    ASSUME CInv, GoesOn(sessions, sessions'), sessions' \in [Nonces -> SessionStatuses],
           rows' = rows, handed' = handed, past' = past, late' = late,
           \A n \in Nonces : sessions'[n] = "open" => sessions[n] \in {"none", "open"}
    PROVE  /\ RowsAreWhole' /\ PastIsOver' /\ LiveIsOpen' /\ HandedOutIsMinted'
           /\ rows' \in [RowIds -> Row] /\ \A q, r \in ActiveIn(rows') : q = r
           /\ past' \cup handed' \subseteq {n \in Nonces : sessions'[n] # "none"}
           /\ late' \subseteq {r \in RowIds : rows'[r].status = "creating"}
<1> USE DEF CInv, CoreTypeOK
<1>1. past \cup handed \cup subs \subseteq {n \in Nonces : sessions'[n] # "none"}
  BY DEF GoesOn
<1>2. RowsAreWhole'
  BY DEF RowsAreWhole, RowIsWhole, GoesOn
<1>3. PastIsOver'
  BY DEF PastIsOver, GoesOn
<1>4. LiveIsOpen'
  BY DEF LiveIsOpen
<1>5. HandedOutIsMinted'
  BY DEF HandedOutIsMinted, RowOf
<1>6. \A q, r \in ActiveIn(rows') : q = r
  OBVIOUS
<1> QED
  BY <1>1, <1>2, <1>3, <1>4, <1>5, <1>6

(* One worker moves, and what it moves to is whole for the Sessions of now. *)
LEMMA OneJobMoves ==
    ASSUME CInv, GoesOn(sessions, sessions'), NEW w \in Workers, NEW j \in Job,
           WholeIn(sessions', j), SetJob(w, j)
    PROVE  job' \in [Workers -> Job] /\ JobsAreWhole'
<1>1. job \in [Workers -> Job] /\ \A v \in Workers : WholeIn(sessions, job[v])
  BY DEF CInv, CoreTypeOK, JobsAreWhole
<1>2. job' = [job EXCEPT ![w] = j]
  BY DEF SetJob
<1>3. /\ [job EXCEPT ![w] = j] \in [Workers -> Job]
      /\ \A v \in Workers : WholeIn(sessions', [job EXCEPT ![w] = j][v])
  BY <1>1, JobMoves
<1> QED
  BY <1>2, <1>3 DEF JobsAreWhole

LEMMA GoesOnItself == GoesOn(sessions, sessions)
<1> QED
  BY DEF GoesOn

(* The user, Stripe and the clock. *)
LEMMA OutsideKeeps ==
    ASSUME CInv, NEW s \in Nonces, Pay(s) \/ ExpiresAtPasses(s)
    PROVE  CInv'
<1> USE DEF CInv, CoreTypeOK
<1>1. /\ sessions' \in [Nonces -> SessionStatuses] /\ GoesOn(sessions, sessions')
      /\ rows' = rows /\ handed' = handed /\ late' = late /\ job' = job
      /\ local' = local /\ failures' = failures
      /\ subs' \subseteq subs \cup handed
      /\ past' \subseteq {n \in Nonces : sessions'[n] \in Over}
      /\ \A n \in Nonces : sessions'[n] = "open" => sessions[n] = "open"
  BY DEF Pay, ExpiresAtPasses, SessionStatuses, GoesOn, Over, PastIsOver
<1>2. JobsAreWhole'
  BY <1>1, WholeStays DEF JobsAreWhole
<1>3. RowsAreWhole' /\ LiveIsOpen' /\ HandedOutIsMinted'
  BY <1>1 DEF RowsAreWhole, RowIsWhole, GoesOn, LiveIsOpen, HandedOutIsMinted, RowOf
<1>4. PastIsOver'
  BY <1>1 DEF PastIsOver
<1>5. past' \cup handed' \cup subs' \subseteq {n \in Nonces : sessions'[n] # "none"}
  BY <1>1 DEF GoesOn, Over
<1>6. CoreTypeOK'
  BY <1>1, <1>5 DEF ActiveIn
<1> QED
  BY <1>2, <1>3, <1>4, <1>6

LEMMA AgeingKeeps ==
    ASSUME CInv, NEW r \in RowIds, ClaimAges(r)
    PROVE  CInv'
<1> USE DEF CInv, CoreTypeOK, ClaimAges
<1>1. CoreTypeOK'
  BY DEF ActiveIn
<1>2. JobsAreWhole' /\ RowsAreWhole' /\ PastIsOver' /\ LiveIsOpen' /\ HandedOutIsMinted'
  BY DEF JobsAreWhole, RowsAreWhole, PastIsOver, LiveIsOpen, HandedOutIsMinted, RowOf
<1> QED
  BY <1>1, <1>2

LEMMA KeyKeeps ==
    ASSUME CInv, KeyForgets
    PROVE  CInv'
<1> USE DEF CInv, CoreTypeOK, KeyForgets
<1>1. CoreTypeOK'
  BY DEF ActiveIn
<1>2. JobsAreWhole' /\ RowsAreWhole' /\ PastIsOver' /\ LiveIsOpen' /\ HandedOutIsMinted'
  BY DEF JobsAreWhole, RowsAreWhole, PastIsOver, LiveIsOpen, HandedOutIsMinted, RowOf
<1> QED
  BY <1>1, <1>2

---------------------------------------------------------------------------
(* A step of one worker that leaves rows, URLs and Sessions alone. *)
LEMMA QuietStep ==
    ASSUME CInv, NEW w \in Workers, NEW j \in Job, WholeIn(sessions, j), SetJob(w, j),
           UNCHANGED <<sessions, past, handed, subs, local, rows, late>>,
           failures' \in 0..MaxFailures
    PROVE  CInv'
<1>1. job' \in [Workers -> Job] /\ JobsAreWhole'
  BY GoesOnItself, OneJobMoves
<1>2. CoreTypeOK'
  BY <1>1 DEF CInv, CoreTypeOK, ActiveIn
<1>3. RowsAreWhole' /\ PastIsOver' /\ LiveIsOpen' /\ HandedOutIsMinted'
  BY DEF CInv, RowsAreWhole, PastIsOver, LiveIsOpen, HandedOutIsMinted, RowOf
<1> QED
  BY <1>1, <1>2, <1>3 DEF CInv

LEMMA FailuresCount == ASSUME CInv, Failing PROVE failures' \in 0..MaxFailures
<1> QED
  BY BoundAssumption DEF CInv, CoreTypeOK, Failing

LEMMA FailureKeeps ==
    ASSUME CInv, NEW w \in Workers, CallFails(w) \/ Crash(w)
    PROVE  CInv'
<1>1. failures' \in 0..MaxFailures
  BY FailuresCount DEF CallFails, Crash
<1>2. CASE CallFails(w)
  <2>1. AfterFailure(w) \in Job /\ WholeIn(sessions, AfterFailure(w))
    BY <1>2, FailureIsWhole DEF CallFails
  <2> QED
    BY <1>1, <1>2, <2>1, QuietStep DEF CallFails
<1>3. CASE Crash(w)
  BY <1>1, <1>3, IdleIsWhole, QuietStep DEF Crash
<1> QED
  BY <1>2, <1>3

LEMMA StartKeeps ==
    ASSUME CInv, NEW w \in Workers, NEW n \in Nonces, StartCheckout(w, n)
    PROVE  CInv'
<1>1. [Idle EXCEPT !.pc = "claim", !.nonce = n] \in Job
  BY IdleIsWhole DEF Job, Idle
<1>2. WholeIn(sessions, [Idle EXCEPT !.pc = "claim", !.nonce = n])
  BY DEF WholeIn, Idle
<1>3. failures' \in 0..MaxFailures
  BY DEF CInv, CoreTypeOK, StartCheckout
<1> QED
  BY <1>1, <1>2, <1>3, QuietStep DEF StartCheckout

LEMMA CloseStartKeeps ==
    ASSUME CInv, NEW w \in Workers, NEW n \in Nonces, Poll(w, n) \/ Webhook(w, n) \/ Drain(w, n)
    PROVE  CInv'
<1>1. failures' \in 0..MaxFailures
  BY DEF CInv, CoreTypeOK, Poll, Webhook, Drain, StartClosing
<1>2. CASE \E todo \in Todos \ {<<>>, <<"expire", "mark">>} :
              sessions[n] \in Over /\ StartClosing(w, n, todo)
  <2>1. PICK todo \in Todos \ {<<>>, <<"expire", "mark">>} :
              sessions[n] \in Over /\ StartClosing(w, n, todo)
    BY <1>2
  <2> DEFINE j == [Idle EXCEPT !.pc = "close", !.nonce = n, !.todo = todo,
                              !.status = sessions[n]]
  <2>2. j \in Job /\ WholeIn(sessions, j)
    BY <2>1, IdleIsWhole DEF Job, Idle, Over, WholeIn
  <2> QED
    BY <1>1, <2>1, <2>2, QuietStep DEF StartClosing
<1>3. CASE /\ SetJob(w, [Idle EXCEPT !.pc = "close", !.nonce = n,
                           !.todo = <<"expire", "mark">>, !.status = "expired"])
           /\ UNCHANGED <<sessions, past, handed, subs, local, rows, late, failures>>
  <2> DEFINE j == [Idle EXCEPT !.pc = "close", !.nonce = n,
                           !.todo = <<"expire", "mark">>, !.status = "expired"]
  <2>1. <<"expire", "mark">> \in Todos
    BY DEF Todos
  <2>2. j \in Job /\ WholeIn(sessions, j)
    BY <2>1, IdleIsWhole DEF Job, Idle, Over, WholeIn
  <2> QED
    BY <1>1, <1>3, <2>2, QuietStep
<1>4. {<<"sync">>, <<"mark">>, <<"markQuietly">>, <<"sync", "mark">>,
       <<"sync", "markQuietly">>, <<"markQuietly", "sync">>}
         \subseteq Todos \ {<<>>, <<"expire", "mark">>}
  BY DEF Todos
<1>5. Poll(w, n) => <1>2!1
  BY <1>4 DEF Poll, Over
<1>6. Webhook(w, n) => <1>2!1
  BY <1>4 DEF Webhook, Over
<1>7. Drain(w, n) => <1>2!1 \/ <1>3!1
  BY <1>4 DEF Drain, Over
<1> QED
  BY <1>2, <1>3, <1>5, <1>6, <1>7

---------------------------------------------------------------------------
(* A step that hands out the URL of an open row's Session, or loses it.     *)
LEMMA HandOutMoves ==
    ASSUME CInv, NEW w \in Workers, job[w].pc \in {"claim", "wait", "finalize"},
           NEW s \in Nonces, HandOut(w, s), sessions' = sessions
    PROVE  /\ job' \in [Workers -> Job] /\ JobsAreWhole'
           /\ handed' \subseteq handed \cup {s}
           /\ failures' \in 0..MaxFailures
<1>1. Thrown(w) \in Job /\ WholeIn(sessions, Thrown(w))
  BY FailureIsWhole
<1>2. Idle \in Job /\ WholeIn(sessions, Idle)
  BY IdleIsWhole
<1>3. CASE handed' = handed \cup {s} /\ SetJob(w, Idle) /\ UNCHANGED failures
  BY <1>2, <1>3, GoesOnItself, OneJobMoves DEF CInv, CoreTypeOK
<1>4. CASE Failing /\ SetJob(w, Thrown(w)) /\ UNCHANGED handed
  BY <1>1, <1>4, GoesOnItself, OneJobMoves, FailuresCount
<1> QED
  BY <1>3, <1>4 DEF HandOut

(* A step whose reply arrives or is lost. *)
LEMMA ReplyMoves ==
    ASSUME CInv, NEW w \in Workers, NEW j \in Job, WholeIn(sessions', j), Reply(w, j),
           job[w].pc = "close" => job[w].todo # <<>>,
           GoesOn(sessions, sessions')
    PROVE  /\ job' \in [Workers -> Job] /\ JobsAreWhole'
           /\ failures' \in 0..MaxFailures
<1>1. AfterFailure(w) \in Job /\ WholeIn(sessions, AfterFailure(w))
  BY FailureIsWhole
<1>2. WholeIn(sessions', AfterFailure(w))
  BY <1>1, WholeStays
<1>3. CASE SetJob(w, j) /\ UNCHANGED failures
  BY <1>3, OneJobMoves DEF CInv, CoreTypeOK
<1>4. CASE SetJob(w, AfterFailure(w)) /\ Failing
  BY <1>1, <1>2, <1>4, OneJobMoves, FailuresCount
<1> QED
  BY <1>3, <1>4 DEF Reply

LEMMA WaitKeeps ==
    ASSUME CInv, NEW w \in Workers, WaitForOpen(w)
    PROVE  CInv'
<1> USE DEF CInv, CoreTypeOK
<1>1. CASE SetJob(w, Idle) /\ UNCHANGED <<handed, failures>>
  <2>1. failures' \in 0..MaxFailures
    BY <1>1
  <2> QED
    BY <1>1, <2>1, IdleIsWhole, QuietStep DEF WaitForOpen
<1>2. ASSUME NEW r \in RowIds, rows[r].status = "open", HandOut(w, rows[r].session)
      PROVE  CInv'
  <2> DEFINE s == rows[r].session
  <2>1. s \in Nonces /\ sessions[s] # "none"
    BY <1>2 DEF RowsAreWhole, RowIsWhole
  <2>2. UNCHANGED <<sessions, past, subs, local, rows, late>> /\ job[w].pc = "wait"
    BY DEF WaitForOpen
  <2>3. /\ job' \in [Workers -> Job] /\ JobsAreWhole'
        /\ handed' \subseteq handed \cup {s} /\ failures' \in 0..MaxFailures
    BY <1>2, <2>1, <2>2, HandOutMoves
  <2>4. CoreTypeOK'
    BY <2>1, <2>2, <2>3 DEF ActiveIn
  <2>5. RowsAreWhole' /\ PastIsOver'
    BY <2>2 DEF RowsAreWhole, PastIsOver
  <2>6. LiveIsOpen' /\ HandedOutIsMinted'
    BY <1>2, <2>2, <2>3 DEF LiveIsOpen, HandedOutIsMinted, RowOf
  <2> QED
    BY <2>3, <2>4, <2>5, <2>6
<1> QED
  BY <1>1, <1>2 DEF WaitForOpen

LEMMA ResolveKeeps ==
    ASSUME CInv, NEW w \in Workers, ResolveCustomer(w)
    PROVE  CInv'
<1> USE DEF CInv, CoreTypeOK, ResolveCustomer
<1>1. CoreTypeOK'
  BY DEF ActiveIn
<1>2. JobsAreWhole' /\ RowsAreWhole' /\ PastIsOver' /\ LiveIsOpen' /\ HandedOutIsMinted'
  BY DEF JobsAreWhole, RowsAreWhole, PastIsOver, LiveIsOpen, HandedOutIsMinted, RowOf
<1> QED
  BY <1>1, <1>2

LEMMA CreateKeeps ==
    ASSUME CInv, NEW w \in Workers, CreateSession(w)
    PROVE  CInv'
<1> USE DEF CInv, CoreTypeOK
<1> DEFINE n == job[w].nonce
<1>1. job[w] \in Job /\ WholeIn(sessions, job[w]) /\ job[w].pc = "create"
  BY DEF JobsAreWhole, CreateSession
<1>2. n \in Nonces /\ job[w].row \in RowIds
  BY <1>1 DEF WholeIn
<1>3. /\ UNCHANGED <<past, handed, subs, local, rows, late>>
      /\ sessions' = IF sessions[n] = "none" THEN [sessions EXCEPT ![n] = "open"] ELSE sessions
      /\ Reply(w, At(w, "finalize"))
  BY DEF CreateSession
<1>4. /\ sessions' \in [Nonces -> SessionStatuses] /\ GoesOn(sessions, sessions')
      /\ sessions'[n] # "none"
      /\ \A m \in Nonces : sessions'[m] = "open" => sessions[m] \in {"none", "open"}
  BY <1>2, <1>3 DEF SessionStatuses, GoesOn, Over
<1>5. At(w, "finalize") \in Job /\ WholeIn(sessions', At(w, "finalize"))
  BY <1>1, <1>2, <1>4 DEF At, Job, WholeIn
<1>6. job' \in [Workers -> Job] /\ JobsAreWhole' /\ failures' \in 0..MaxFailures
  BY <1>1, <1>3, <1>4, <1>5, ReplyMoves
<1>7. /\ RowsAreWhole' /\ PastIsOver' /\ HandedOutIsMinted'
      /\ LiveIsOpen'
  BY <1>3, <1>4, RowsAlone
<1>8. CoreTypeOK'
  BY <1>3, <1>4, <1>6 DEF ActiveIn, GoesOn
<1> QED
  BY <1>6, <1>7, <1>8

---------------------------------------------------------------------------
LEMMA FinalizeKeeps ==
    ASSUME CInv, NEW w \in Workers, Finalize(w)
    PROVE  CInv'
<1> USE DEF CInv, CoreTypeOK
<1> DEFINE n == job[w].nonce
           q == job[w].row
<1>1. job[w] \in Job /\ WholeIn(sessions, job[w]) /\ job[w].pc = "finalize"
  BY DEF JobsAreWhole, Finalize
<1>2. n \in Nonces /\ sessions[n] # "none" /\ q \in RowIds
  BY <1>1 DEF WholeIn
<1>3. UNCHANGED <<sessions, past, subs, local>>
  BY DEF Finalize
<1>4. CASE MayFinalize(q, n)
  <2>1. /\ rows' = [rows EXCEPT ![q] = [status |-> "open", session |-> n]]
        /\ late' = late \ {q} /\ HandOut(w, n)
    BY <1>4 DEF Finalize
  <2>2. rows[q].status = "creating" /\ rows[q].session = NoSession
    BY <1>2, <1>4 DEF MayFinalize, RowsAreWhole, RowIsWhole
  <2>3. /\ job' \in [Workers -> Job] /\ JobsAreWhole'
        /\ handed' \subseteq handed \cup {n} /\ failures' \in 0..MaxFailures
    BY <1>1, <1>2, <1>3, <2>1, HandOutMoves
  <2>4. /\ rows' \in [RowIds -> Row]
        /\ rows'[q] = [status |-> "open", session |-> n]
        /\ \A r \in RowIds \ {q} : rows'[r] = rows[r]
    BY <1>2, <2>1 DEF Row, RowStatuses, ActiveStatuses
  <2>5. \A p, r \in ActiveIn(rows') : p = r
    BY <1>2, <2>2, <2>4 DEF ActiveIn, ActiveStatuses
  <2>6. late' \subseteq {r \in RowIds : rows'[r].status = "creating"}
    BY <2>1, <2>4
  <2>7. CoreTypeOK'
    BY <1>2, <1>3, <2>3, <2>4, <2>5, <2>6
  <2>8. RowsAreWhole'
    BY <1>2, <1>3, <2>4 DEF RowsAreWhole, RowIsWhole, Over
  <2>9. LiveIsOpen' /\ HandedOutIsMinted'
    BY <1>2, <1>3, <2>2, <2>3, <2>4, NoneAssumption DEF LiveIsOpen, HandedOutIsMinted, RowOf
  <2>10. PastIsOver'
    BY <1>3 DEF PastIsOver
  <2> QED
    BY <2>3, <2>7, <2>8, <2>9, <2>10
<1>5. CASE ~MayFinalize(q, n)
  <2>1. SetJob(w, Thrown(w)) /\ UNCHANGED <<rows, late, handed, failures>>
    BY <1>5 DEF Finalize
  <2>2. Thrown(w) \in Job /\ WholeIn(sessions, Thrown(w))
    BY FailureIsWhole
  <2>3. failures' \in 0..MaxFailures
    BY <2>1
  <2> QED
    BY <1>3, <2>1, <2>2, <2>3, QuietStep
<1> QED
  BY <1>4, <1>5

LEMMA FailKeeps ==
    ASSUME CInv, NEW w \in Workers, FailClaim(w)
    PROVE  CInv'
<1> USE DEF CInv, CoreTypeOK
<1> DEFINE q == job[w].row
<1>1. job[w] \in Job /\ WholeIn(sessions, job[w]) /\ job[w].pc = "fail"
  BY DEF JobsAreWhole, FailClaim
<1>2. q \in RowIds
  BY <1>1 DEF WholeIn
<1>3. /\ UNCHANGED <<sessions, past, handed, subs, local, failures>> /\ SetJob(w, Idle)
      /\ rows' = [rows EXCEPT ![q] = IF rows[q].status = "creating" THEN FailedRow ELSE rows[q]]
      /\ late' = late \ {q}
  BY DEF FailClaim
<1>4. job' \in [Workers -> Job] /\ JobsAreWhole'
  BY <1>3, IdleIsWhole, GoesOnItself, OneJobMoves
<1>5. /\ rows' \in [RowIds -> Row]
      /\ \A r \in RowIds :
            \/ rows'[r] = rows[r]
            \/ r = q /\ rows[q].status = "creating" /\ rows'[q] = FailedRow
  BY <1>2, <1>3 DEF FailedRow, Row, RowStatuses, ActiveStatuses
<1>6. \A p, r \in ActiveIn(rows') : p = r
  BY <1>5 DEF ActiveIn, ActiveStatuses, FailedRow
<1>7. late' \subseteq {r \in RowIds : rows'[r].status = "creating"}
  BY <1>3, <1>5
<1>8. CoreTypeOK'
  BY <1>3, <1>4, <1>5, <1>6, <1>7
<1>9. RowsAreWhole' /\ PastIsOver'
  BY <1>3, <1>5 DEF RowsAreWhole, RowIsWhole, PastIsOver, FailedRow, Over
<1>10. LiveIsOpen' /\ HandedOutIsMinted'
  <2>1. \A r \in RowIds : rows[r].session # NoSession => rows'[r] = rows[r]
    BY <1>5 DEF RowsAreWhole, RowIsWhole
  <2>2. \A s \in handed : s # NoSession
    BY NoneAssumption
  <2> QED
    BY <1>3, <2>1, <2>2 DEF LiveIsOpen, HandedOutIsMinted, RowOf
<1> QED
  BY <1>4, <1>8, <1>9, <1>10

---------------------------------------------------------------------------
(* The jobs that close a row. *)
LEMMA CallDoneIsWhole ==
    ASSUME CInv, NEW w \in Workers, job[w].pc = "close", job[w].todo # <<>>
    PROVE  /\ CallDone(w) \in Job
           /\ Head(job[w].todo) # "expire" => WholeIn(sessions, CallDone(w))
           /\ Head(job[w].todo) = "expire" =>
                 \A f : f[job[w].nonce] \in Over => WholeIn(f, CallDone(w))
<1>1. job[w] \in Job /\ WholeIn(sessions, job[w])
  BY DEF CInv, CoreTypeOK, JobsAreWhole
<1>2. job[w].todo \in Todos
  BY <1>1 DEF Job
<1>3. Tail(job[w].todo) \in Todos
  BY <1>2, TodoFacts
<1>4. CallDone(w) \in Job
  BY <1>1, <1>3 DEF CallDone, Job
<1>5. /\ CallDone(w).pc = "close" /\ CallDone(w).nonce = job[w].nonce
      /\ CallDone(w).status = job[w].status /\ CallDone(w).todo = Tail(job[w].todo)
  BY <1>1 DEF CallDone, Job
<1>6. ASSUME Head(job[w].todo) # "expire" PROVE WholeIn(sessions, CallDone(w))
  <2>1. Tail(job[w].todo) # <<"expire", "mark">> /\ job[w].todo # <<"expire", "mark">>
    BY <1>2, <1>6, TodoFacts
  <2> QED
    BY <1>1, <1>5, <2>1 DEF WholeIn
<1>7. ASSUME Head(job[w].todo) = "expire", NEW f, f[job[w].nonce] \in Over
      PROVE  WholeIn(f, CallDone(w))
  BY <1>1, <1>5, <1>7 DEF WholeIn
<1> QED
  BY <1>4, <1>6, <1>7

LEMMA SyncKeeps ==
    ASSUME CInv, NEW w \in Workers, SyncSubscription(w)
    PROVE  CInv'
<1>1. job[w].pc = "close" /\ job[w].todo # <<>> /\ Head(job[w].todo) = "sync"
  BY DEF SyncSubscription, NextCall
<1>2. CallDone(w) \in Job /\ WholeIn(sessions, CallDone(w))
  BY <1>1, CallDoneIsWhole
<1>3. UNCHANGED <<sessions, past, handed, subs, rows, late>> /\ local' = TRUE
      /\ Reply(w, CallDone(w))
  BY DEF SyncSubscription
<1>4. job' \in [Workers -> Job] /\ JobsAreWhole' /\ failures' \in 0..MaxFailures
  BY <1>1, <1>2, <1>3, GoesOnItself, ReplyMoves
<1>5. CoreTypeOK'
  BY <1>3, <1>4 DEF CInv, CoreTypeOK, ActiveIn
<1>6. RowsAreWhole' /\ PastIsOver' /\ LiveIsOpen' /\ HandedOutIsMinted'
  BY <1>3 DEF CInv, RowsAreWhole, PastIsOver, LiveIsOpen, HandedOutIsMinted, RowOf
<1> QED
  BY <1>4, <1>5, <1>6 DEF CInv

LEMMA ExpireKeeps ==
    ASSUME CInv, NEW w \in Workers, ExpireAtStripe(w)
    PROVE  CInv'
<1> USE DEF CInv, CoreTypeOK
<1> DEFINE n == job[w].nonce
<1>1. job[w].pc = "close" /\ job[w].todo # <<>> /\ Head(job[w].todo) = "expire"
  BY DEF ExpireAtStripe, NextCall
<1>2. job[w] \in Job /\ n \in Nonces
  BY <1>1 DEF JobsAreWhole, WholeIn
<1>3. UNCHANGED <<past, handed, subs, local, rows, late>>
  BY DEF ExpireAtStripe
<1>4. CASE sessions[n] = "open"
  <2>1. sessions' = [sessions EXCEPT ![n] = "expired"] /\ Reply(w, CallDone(w))
    BY <1>4 DEF ExpireAtStripe
  <2>2. /\ sessions' \in [Nonces -> SessionStatuses] /\ GoesOn(sessions, sessions')
        /\ sessions'[n] \in Over
        /\ \A m \in Nonces : sessions'[m] = "open" => sessions[m] \in {"none", "open"}
    BY <1>2, <2>1 DEF SessionStatuses, GoesOn, Over
  <2>3. CallDone(w) \in Job /\ WholeIn(sessions', CallDone(w))
    BY <1>1, <2>2, CallDoneIsWhole
  <2>4. job' \in [Workers -> Job] /\ JobsAreWhole' /\ failures' \in 0..MaxFailures
    BY <1>1, <2>1, <2>2, <2>3, ReplyMoves
  <2>5. RowsAreWhole' /\ PastIsOver' /\ HandedOutIsMinted' /\ LiveIsOpen'
    BY <1>3, <2>2, RowsAlone
  <2>6. CoreTypeOK'
    BY <1>3, <2>2, <2>4 DEF ActiveIn, GoesOn
  <2> QED
    BY <2>4, <2>5, <2>6
<1>5. CASE sessions[n] # "open"
  <2>1. SetJob(w, Idle) /\ UNCHANGED <<sessions, failures>>
    BY <1>5 DEF ExpireAtStripe
  <2>2. failures' \in 0..MaxFailures
    BY <2>1
  <2> QED
    BY <1>3, <2>1, <2>2, IdleIsWhole, QuietStep
<1> QED
  BY <1>4, <1>5

LEMMA MarkKeeps ==
    ASSUME CInv, NEW w \in Workers, MarkTerminal(w)
    PROVE  CInv'
<1> USE DEF CInv, CoreTypeOK
<1> DEFINE n == job[w].nonce
<1>1. /\ job[w].pc = "close" /\ job[w].todo # <<>>
      /\ Head(job[w].todo) \in {"mark", "markQuietly"}
  BY DEF MarkTerminal, NextCall
<1>2. job[w] \in Job /\ WholeIn(sessions, job[w]) /\ job[w].todo \in Todos
  BY DEF JobsAreWhole, Job
<1>3. job[w].todo \notin {<<>>, <<"expire", "mark">>}
  BY <1>1, <1>2, TodoFacts
<1>4. n \in Nonces /\ sessions[n] \in Over /\ job[w].status \in Over
  BY <1>1, <1>2, <1>3 DEF WholeIn
<1>5. /\ UNCHANGED <<sessions, past, handed, subs, local, late>> /\ Reply(w, CallDone(w))
      /\ rows' = [r \in RowIds |->
                    IF rows[r].session = n /\ rows[r].status = "open"
                    THEN [rows[r] EXCEPT !.status = job[w].status] ELSE rows[r]]
  BY DEF MarkTerminal
<1>6. CallDone(w) \in Job /\ WholeIn(sessions, CallDone(w))
  BY <1>1, CallDoneIsWhole
<1>7. job' \in [Workers -> Job] /\ JobsAreWhole' /\ failures' \in 0..MaxFailures
  BY <1>1, <1>5, <1>6, GoesOnItself, ReplyMoves
<1>8. /\ rows' \in [RowIds -> Row]
      /\ \A r \in RowIds :
            /\ rows'[r].session = rows[r].session
            /\ \/ rows'[r].status = rows[r].status
               \/ rows[r].status = "open" /\ rows[r].session = n /\ rows'[r].status \in Over
  BY <1>4, <1>5 DEF Row, RowStatuses, ActiveStatuses, Over
<1>9. \A p, r \in ActiveIn(rows') : p = r
  BY <1>8 DEF ActiveIn, ActiveStatuses, Over
<1>10. CoreTypeOK'
  BY <1>5, <1>7, <1>8, <1>9
<1>11. RowsAreWhole' /\ PastIsOver'
  BY <1>5, <1>8 DEF RowsAreWhole, RowIsWhole, PastIsOver, Over
<1>12. LiveIsOpen' /\ HandedOutIsMinted'
  BY <1>4, <1>5, <1>8 DEF LiveIsOpen, HandedOutIsMinted, RowOf, Over
<1> QED
  BY <1>7, <1>10, <1>11, <1>12

LEMMA ClosedKeeps ==
    ASSUME CInv, NEW w \in Workers, Closed(w)
    PROVE  CInv'
<1>1. failures' \in 0..MaxFailures
  BY DEF CInv, CoreTypeOK, Closed
<1> QED
  BY <1>1, IdleIsWhole, QuietStep DEF Closed

---------------------------------------------------------------------------
(* Claiming: what the release of overdue rows leaves. *)
LEMMA ReleaseFacts ==
    ASSUME CInv, NEW kept, kept = AfterRelease
    PROVE  /\ kept \in [RowIds -> Row]
           /\ \A r \in RowIds :
                 /\ kept[r].session = rows[r].session
                 /\ RowIsWhole(sessions, kept[r])
                 /\ kept[r].status \in ActiveStatuses => kept[r] = rows[r] /\ ~Released(r)
                 /\ rows[r].status = "open" /\ sessions[rows[r].session] = "open"
                       => kept[r] = rows[r]
                 /\ rows[r] = FailedRow => kept[r] = FailedRow
                 /\ ~Released(r) => kept[r] = rows[r]
           /\ \A p, r \in ActiveIn(kept) : p = r
<1> USE DEF CInv, CoreTypeOK
<1>1. ASSUME NEW r \in RowIds
      PROVE  /\ kept[r] \in Row
             /\ kept[r].session = rows[r].session
             /\ RowIsWhole(sessions, kept[r])
             /\ kept[r].status \in ActiveStatuses => kept[r] = rows[r] /\ ~Released(r)
             /\ rows[r].status = "open" /\ sessions[rows[r].session] = "open"
                   => kept[r] = rows[r]
             /\ rows[r] = FailedRow => kept[r] = FailedRow
             /\ ~Released(r) => kept[r] = rows[r]
  <2>1. rows[r] \in Row /\ RowIsWhole(sessions, rows[r])
    BY DEF RowsAreWhole
  <2>2. CASE ~Released(r)
    BY <2>1, <2>2 DEF AfterRelease
  <2>3. CASE Released(r) /\ rows[r].status = "open"
    <3>1. kept[r] = [rows[r] EXCEPT !.status = "expired"]
      BY <2>3 DEF AfterRelease
    <3>2. sessions[rows[r].session] \in Over
      BY <2>3 DEF Released, PastIsOver
    <3> QED
      BY <2>1, <2>3, <3>1, <3>2
         DEF Row, RowStatuses, ActiveStatuses, RowIsWhole, Over, FailedRow
  <2>4. CASE Released(r) /\ rows[r].status = "creating"
    <3>1. kept[r] = FailedRow
      BY <2>4 DEF AfterRelease
    <3> QED
      BY <2>1, <2>4, <3>1
         DEF Row, RowStatuses, ActiveStatuses, RowIsWhole, Over, FailedRow
  <2> QED
    BY <2>2, <2>3, <2>4 DEF Released
<1>2. kept \in [RowIds -> Row]
  BY <1>1 DEF AfterRelease
<1>3. \A p, r \in ActiveIn(kept) : p = r
  BY <1>1 DEF ActiveIn
<1> QED
  BY <1>1, <1>2, <1>3

(* A claim changes rows, but no row of a Session that can be paid.          *)
LEMMA RowsMove ==
    ASSUME CInv, UNCHANGED <<sessions, past, subs, local>>,
           rows' \in [RowIds -> Row], \A p, r \in ActiveIn(rows') : p = r,
           \A r \in RowIds :
               /\ rows'[r].session = rows[r].session
               /\ RowIsWhole(sessions, rows'[r])
               /\ rows[r].status = "open" /\ sessions[rows[r].session] = "open"
                     => rows'[r].status = "open",
           late' \subseteq {r \in RowIds : rows'[r].status = "creating"},
           \A s \in handed' \ handed :
               \E r \in RowIds : rows'[r].status = "open" /\ rows'[r].session = s,
           job' \in [Workers -> Job], JobsAreWhole', failures' \in 0..MaxFailures
    PROVE  CInv'
<1> USE DEF CInv, CoreTypeOK
<1>1. RowsAreWhole' /\ PastIsOver'
  BY DEF RowsAreWhole, PastIsOver
<1>2. \A s \in handed' \ handed : s \in Nonces /\ sessions[s] # "none"
  BY DEF RowIsWhole, Over
<1>3. CoreTypeOK'
  BY <1>2
<1>4. LiveIsOpen' /\ HandedOutIsMinted'
  BY DEF LiveIsOpen, HandedOutIsMinted, RowOf
<1> QED
  BY <1>1, <1>3, <1>4

LEMMA ClaimKeeps ==
    ASSUME CInv, NEW w \in Workers, Claim(w)
    PROVE  CInv'
<1> USE DEF CInv, CoreTypeOK
<1> DEFINE kept == AfterRelease
<1>1. job[w] \in Job /\ WholeIn(sessions, job[w]) /\ job[w].pc = "claim"
  BY DEF JobsAreWhole, Claim
<1>2. UNCHANGED <<sessions, past, subs, local>> /\ late' = late \ {r \in RowIds : Released(r)}
  BY DEF Claim
<1>3. /\ kept \in [RowIds -> Row]
      /\ \A r \in RowIds :
            /\ kept[r].session = rows[r].session
            /\ RowIsWhole(sessions, kept[r])
            /\ kept[r].status \in ActiveStatuses => kept[r] = rows[r] /\ ~Released(r)
            /\ rows[r].status = "open" /\ sessions[rows[r].session] = "open"
                  => kept[r] = rows[r]
            /\ rows[r] = FailedRow => kept[r] = FailedRow
            /\ ~Released(r) => kept[r] = rows[r]
      /\ \A p, r \in ActiveIn(kept) : p = r
  BY ReleaseFacts
<1> HIDE DEF kept
<1>4. late' \subseteq {r \in RowIds : kept[r].status = "creating"}
  BY <1>2, <1>3
<1>5. ASSUME NEW r \in ActiveIn(kept), rows' = kept, kept[r].status = "open",
             HandOut(w, kept[r].session)
      PROVE  CInv'
  <2>1. r \in RowIds /\ kept[r].session \in Nonces
    BY <1>3, <1>5 DEF ActiveIn, RowIsWhole
  <2>2. /\ job' \in [Workers -> Job] /\ JobsAreWhole' /\ failures' \in 0..MaxFailures
        /\ handed' \subseteq handed \cup {kept[r].session}
    BY <1>1, <1>2, <1>5, <2>1, HandOutMoves
  <2> QED
    BY <1>2, <1>3, <1>4, <1>5, <2>1, <2>2, RowsMove
<1>6. ASSUME rows' = kept, Reply(w, At(w, "wait")), handed' = handed
      PROVE  CInv'
  <2>1. At(w, "wait") \in Job /\ WholeIn(sessions', At(w, "wait"))
    BY <1>1, <1>2 DEF At, Job, WholeIn
  <2>2. job' \in [Workers -> Job] /\ JobsAreWhole' /\ failures' \in 0..MaxFailures
    BY <1>1, <1>2, <1>6, <2>1, GoesOnItself, ReplyMoves
  <2> QED
    BY <1>2, <1>3, <1>4, <1>6, <2>2, RowsMove
<1>7. ASSUME ActiveIn(kept) = {}, NEW q \in FreeIds,
             rows' = [kept EXCEPT ![q].status = "creating"],
             Reply(w, [At(w, "create") EXCEPT !.row = q]), handed' = handed
      PROVE  CInv'
  <2> DEFINE j == [At(w, "create") EXCEPT !.row = q]
  <2>1. q \in RowIds /\ kept[q] = FailedRow /\ rows[q] = FailedRow
    BY <1>3, <1>7 DEF FreeIds
  <2>2. j \in Job /\ WholeIn(sessions', j)
    BY <1>1, <1>2, <2>1 DEF At, Job, WholeIn
  <2>3. job' \in [Workers -> Job] /\ JobsAreWhole' /\ failures' \in 0..MaxFailures
    BY <1>1, <1>2, <1>7, <2>2, GoesOnItself, ReplyMoves
  <2>4. /\ rows'[q] = [status |-> "creating", session |-> NoSession]
        /\ \A r \in RowIds \ {q} : rows'[r] = kept[r]
        /\ rows' \in [RowIds -> Row]
    BY <1>3, <1>7, <2>1 DEF FailedRow, Row, RowStatuses, ActiveStatuses
  <2>5. \A p, r \in ActiveIn(rows') : p = r
    BY <1>7, <2>4 DEF ActiveIn
  <2>6. late' \subseteq {r \in RowIds : rows'[r].status = "creating"}
    BY <1>4, <2>1, <2>4
  <2>7. \A r \in RowIds :
            /\ rows'[r].session = rows[r].session
            /\ RowIsWhole(sessions, rows'[r])
            /\ rows[r].status = "open" /\ sessions[rows[r].session] = "open"
                  => rows'[r].status = "open"
    BY <1>3, <2>1, <2>4 DEF FailedRow, RowIsWhole, Over
  <2> QED
    BY <1>2, <1>7, <2>3, <2>4, <2>5, <2>6, <2>7, RowsMove
<1> QED
  BY <1>5, <1>6, <1>7 DEF Claim, kept

---------------------------------------------------------------------------
LEMMA InitHolds == Init => CInv
<1> SUFFICES ASSUME Init PROVE CInv
  OBVIOUS
<1>1. CoreTypeOK
  <2>1. FailedRow \in Row /\ FailedRow.status \notin ActiveStatuses
    BY DEF FailedRow, Row, RowStatuses, ActiveStatuses
  <2>2. rows \in [RowIds -> Row] /\ \A q, r \in ActiveIn(rows) : q = r
    BY <2>1 DEF Init, ActiveIn
  <2>3. job \in [Workers -> Job] /\ failures \in 0..MaxFailures
    BY IdleIsWhole, BoundAssumption DEF Init
  <2> QED
    BY <2>2, <2>3 DEF Init, CoreTypeOK, SessionStatuses
<1>2. JobsAreWhole
  BY IdleIsWhole DEF Init, JobsAreWhole
<1>3. RowsAreWhole
  BY DEF Init, RowsAreWhole, RowIsWhole, FailedRow, Over
<1>4. PastIsOver /\ LiveIsOpen /\ HandedOutIsMinted
  BY DEF Init, PastIsOver, LiveIsOpen, HandedOutIsMinted
<1> QED
  BY <1>1, <1>2, <1>3, <1>4 DEF CInv

LEMMA NextKeeps == CInv /\ [Next]_vars => CInv'
<1> SUFFICES ASSUME CInv, [Next]_vars PROVE CInv'
  OBVIOUS
<1>1. CASE \E s \in Nonces : Pay(s) \/ ExpiresAtPasses(s)
  BY <1>1, OutsideKeeps
<1>2. CASE \E r \in RowIds : ClaimAges(r)
  BY <1>2, AgeingKeeps
<1>3. CASE KeyForgets
  BY <1>3, KeyKeeps
<1>4. ASSUME NEW w \in Workers,
             \E n \in Nonces : StartCheckout(w, n) \/ Poll(w, n) \/ Webhook(w, n) \/ Drain(w, n)
      PROVE  CInv'
  BY <1>4, StartKeeps, CloseStartKeeps
<1>5. ASSUME NEW w \in Workers, WorkerStep(w)
      PROVE  CInv'
  BY <1>5, ClaimKeeps, WaitKeeps, ResolveKeeps, CreateKeeps, FinalizeKeeps, FailKeeps,
     SyncKeeps, ExpireKeeps, MarkKeeps, ClosedKeeps DEF WorkerStep
<1>6. ASSUME NEW w \in Workers, CallFails(w) \/ Crash(w)
      PROVE  CInv'
  BY <1>6, FailureKeeps
<1>7. CASE UNCHANGED vars
  BY <1>7 DEF vars, CInv, CoreTypeOK, ActiveIn, JobsAreWhole, RowsAreWhole, PastIsOver,
              LiveIsOpen, HandedOutIsMinted, RowOf
<1> QED
  BY <1>1, <1>2, <1>3, <1>4, <1>5, <1>6, <1>7 DEF Next

(* The inductive invariant of everything but the customer. *)
THEOREM ClaimInvariant == Spec => []CInv
<1> QED
  BY InitHolds, NextKeeps, PTL DEF Spec

(* Duplicate checkout prevention for any number of overlapping requests: of *)
(* the URLs handed out at most one can still be paid.                       *)
THEOREM OneLiveUrlHolds == Spec => []OneLiveUrl
<1>1. CInv => OneLiveUrl
  <2> SUFFICES ASSUME CInv, NEW s \in handed, NEW t \in handed,
                      sessions[s] = "open", sessions[t] = "open"
               PROVE  s = t
    BY DEF OneLiveUrl
  <2>1. PICK q \in RowIds : rows[q].status = "open" /\ rows[q].session = s
    BY DEF CInv, LiveIsOpen
  <2>2. PICK r \in RowIds : rows[r].status = "open" /\ rows[r].session = t
    BY DEF CInv, LiveIsOpen
  <2>3. q = r
    BY <2>1, <2>2 DEF CInv, CoreTypeOK, ActiveIn, ActiveStatuses
  <2> QED
    BY <2>1, <2>2, <2>3
<1> QED
  BY <1>1, ClaimInvariant, PTL

(* Every URL that was handed out is on record for its user. *)
THEOREM HandedOutIsMintedHolds == Spec => []HandedOutIsMinted
<1>1. CInv => HandedOutIsMinted
  BY DEF CInv
<1> QED
  BY <1>1, ClaimInvariant, PTL

---------------------------------------------------------------------------
(* The customer.  What a lookup has found is what the row says. *)
LookupsAreMapped ==
    \A w \in Workers :
        /\ resolving[w].step = "resolved" => Mapped /\ resolving[w].customer = mapping.customer
        /\ resolving[w].step = "persist" => resolving[w].customer # NoCustomer

(* Customers come from keys Stripe has forgotten, and from the one it       *)
(* remembers; or there was one from the start, and nobody looks further.    *)
MadeIsCounted ==
    \/ made <= forgotten + IF keyed = NoCustomer THEN 0 ELSE 1
    \/ /\ Mapped /\ made = 1 /\ keyed = NoCustomer /\ forgotten = 0
       /\ \A w \in Workers : resolving[w].step \in {"load", "resolved"}

CustomerInv == CustomerTypeOK /\ LookupsAreMapped /\ MadeIsCounted

(* The row, once it has a customer, keeps it. *)
MappingStays == Mapped => Mapped' /\ mapping'.customer = mapping.customer

LEMMA LookupMoves ==
    ASSUME CustomerInv, NEW w \in Workers, NEW l \in Lookup, SetLookup(w, l)
    PROVE  /\ resolving' \in [Workers -> Lookup]
           /\ resolving'[w] = l
           /\ \A v \in Workers : v # w => resolving'[v] = resolving[v]
<1> QED
  BY DEF CustomerInv, CustomerTypeOK, SetLookup

LEMMA LookupForgotten ==
    ASSUME CustomerInv, NEW w \in Workers, SetLookup(w, Unresolved),
           UNCHANGED <<mapping, made, keyed, forgotten>>
    PROVE  CustomerInv' /\ MappingStays
<1>1. Unresolved \in Lookup /\ Unresolved.step = "load"
  BY DEF Unresolved, AtStep, Lookup
<1>2. /\ resolving' \in [Workers -> Lookup] /\ resolving'[w].step = "load"
      /\ \A v \in Workers : v # w => resolving'[v] = resolving[v]
  BY <1>1, LookupMoves
<1>3. CustomerTypeOK'
  BY <1>2 DEF CustomerInv, CustomerTypeOK
<1>4. LookupsAreMapped'
  BY <1>2 DEF CustomerInv, LookupsAreMapped, Mapped
<1>5. MadeIsCounted' /\ MappingStays
  BY <1>2 DEF CustomerInv, MadeIsCounted, Mapped, MappingStays
<1> QED
  BY <1>3, <1>4, <1>5 DEF CustomerInv

(* Looking up, and finding or not. *)
LEMMA ReadKeeps ==
    ASSUME CustomerInv, NEW w \in Workers,
           LoadCustomer(w) \/ UpsertPlaceholder(w) \/ ReloadCustomer(w)
    PROVE  CustomerInv' /\ MappingStays
<1> DEFINE found == Resolved(mapping.customer)
<1>1. /\ mapping' \in MappingRow /\ mapping'.customer = mapping.customer
      /\ UNCHANGED <<made, keyed, forgotten>>
  BY DEF LoadCustomer, UpsertPlaceholder, ReloadCustomer, CustomerInv, CustomerTypeOK, MappingRow
<1>2. PICK l : /\ SetLookup(w, l)
               /\ \/ l = found /\ Mapped
                  \/ l \in {AtStep("create"), AtStep("upsert")} /\ ~Mapped
  BY DEF LoadCustomer, UpsertPlaceholder, ReloadCustomer
<1>3. mapping.customer \in Customers \cup {NoCustomer}
  BY DEF CustomerInv, CustomerTypeOK, MappingRow
<1>4. l \in Lookup
  BY <1>2, <1>3 DEF AtStep, Resolved, Lookup
<1>5. /\ resolving' \in [Workers -> Lookup] /\ resolving'[w] = l
      /\ \A v \in Workers : v # w => resolving'[v] = resolving[v]
  BY <1>2, <1>4, LookupMoves
<1>6. CustomerTypeOK'
  BY <1>1, <1>5 DEF CustomerInv, CustomerTypeOK
<1>7. LookupsAreMapped'
  BY <1>1, <1>2, <1>5 DEF CustomerInv, LookupsAreMapped, Mapped, Resolved, AtStep
<1>8. MadeIsCounted' /\ MappingStays
  BY <1>1, <1>2, <1>5 DEF CustomerInv, MadeIsCounted, Mapped, MappingStays, Resolved
<1> QED
  BY <1>6, <1>7, <1>8 DEF CustomerInv

LEMMA CreateCustomerKeeps ==
    ASSUME CustomerInv, NEW w \in Workers, CreateCustomer(w)
    PROVE  CustomerInv' /\ MappingStays
<1> DEFINE l == [step |-> "persist", customer |-> CustomerForKey]
<1>1. /\ made \in 0..(MaxForgotten + 1) /\ forgotten \in 0..MaxForgotten
      /\ keyed \in {0} \cup 1..made
  BY ForgottenAssumption DEF CustomerInv, CustomerTypeOK, Customers, NoCustomer
<1>2. made <= forgotten + IF keyed = NoCustomer THEN 0 ELSE 1
  BY DEF CustomerInv, MadeIsCounted, CreateCustomer
<1>3. /\ CustomerForKey \in 1..made' /\ made' \in 1..(MaxForgotten + 1)
      /\ made' <= forgotten + 1 /\ keyed' = CustomerForKey
  BY <1>1, <1>2, ForgottenAssumption DEF CreateCustomer, CustomerForKey, NoCustomer
<1>4. UNCHANGED <<mapping, forgotten>> /\ SetLookup(w, l)
  BY DEF CreateCustomer
<1>5. l \in Lookup
  BY <1>3, ForgottenAssumption DEF Lookup, Customers
<1>6. /\ resolving' \in [Workers -> Lookup] /\ resolving'[w] = l
      /\ \A v \in Workers : v # w => resolving'[v] = resolving[v]
  BY <1>4, <1>5, LookupMoves
<1>7. CustomerTypeOK'
  BY <1>3, <1>4, <1>6 DEF CustomerInv, CustomerTypeOK, Customers
<1>8. LookupsAreMapped'
  BY <1>3, <1>4, <1>6 DEF CustomerInv, LookupsAreMapped, Mapped, NoCustomer
<1>9. MadeIsCounted' /\ MappingStays
  BY <1>3, <1>4 DEF MadeIsCounted, NoCustomer, MappingStays, Mapped
<1> QED
  BY <1>7, <1>8, <1>9 DEF CustomerInv

LEMMA PersistKeeps ==
    ASSUME CustomerInv, NEW w \in Workers, PersistCustomer(w)
    PROVE  CustomerInv' /\ MappingStays
<1> DEFINE c == resolving[w].customer
<1>1. /\ resolving[w].step = "persist" /\ resolving[w] \in Lookup
      /\ c \in Customers /\ mapping \in MappingRow
  BY DEF PersistCustomer, CustomerInv, CustomerTypeOK, LookupsAreMapped, Lookup
<1>2. UNCHANGED <<made, keyed, forgotten>>
  BY DEF PersistCustomer
<1>3. made <= forgotten + IF keyed = NoCustomer THEN 0 ELSE 1
  BY <1>1 DEF CustomerInv, MadeIsCounted
<1>4. MadeIsCounted'
  BY <1>2, <1>3 DEF MadeIsCounted
<1>5. CASE MayMap
  <2>1. mapping' = [mapping EXCEPT !.customer = c] /\ SetLookup(w, Resolved(c))
    BY <1>5 DEF PersistCustomer
  <2>2. mapping' \in MappingRow /\ mapping'.customer = c /\ c # NoCustomer
    BY <1>1, <2>1, ForgottenAssumption DEF MappingRow, Customers, NoCustomer
  <2>3. Resolved(c) \in Lookup
    BY <1>1 DEF Resolved, Lookup
  <2>4. /\ resolving' \in [Workers -> Lookup] /\ resolving'[w] = Resolved(c)
        /\ \A v \in Workers : v # w => resolving'[v] = resolving[v]
    BY <2>1, <2>3, LookupMoves
  <2>5. CustomerTypeOK'
    BY <1>2, <2>2, <2>4 DEF CustomerInv, CustomerTypeOK
  <2>6. LookupsAreMapped'
    BY <1>5, <2>2, <2>4 DEF CustomerInv, LookupsAreMapped, Mapped, MayMap, Resolved
  <2> QED
    BY <1>4, <1>5, <2>5, <2>6 DEF CustomerInv, MappingStays, MayMap
<1>6. CASE ~MayMap
  <2>1. mapping' = mapping /\ SetLookup(w, AtStep("reload"))
    BY <1>6 DEF PersistCustomer
  <2>2. AtStep("reload") \in Lookup
    BY DEF AtStep, Lookup
  <2>3. /\ resolving' \in [Workers -> Lookup] /\ resolving'[w] = AtStep("reload")
        /\ \A v \in Workers : v # w => resolving'[v] = resolving[v]
    BY <2>1, <2>2, LookupMoves
  <2>4. CustomerTypeOK'
    BY <1>2, <2>1, <2>3 DEF CustomerInv, CustomerTypeOK
  <2>5. LookupsAreMapped'
    BY <2>1, <2>3 DEF CustomerInv, LookupsAreMapped, Mapped, AtStep
  <2> QED
    BY <1>4, <2>1, <2>4, <2>5 DEF CustomerInv, MappingStays, Mapped
<1> QED
  BY <1>5, <1>6

LEMMA ForgettingKeeps ==
    ASSUME CustomerInv, KeyForgotten
    PROVE  CustomerInv' /\ MappingStays
<1>1. /\ made \in 0..(MaxForgotten + 1) /\ forgotten \in 0..MaxForgotten
      /\ keyed \in 1..made /\ forgotten < MaxForgotten
      /\ keyed' = 0 /\ forgotten' = forgotten + 1 /\ UNCHANGED <<mapping, made, resolving>>
  BY DEF CustomerInv, CustomerTypeOK, Customers, NoCustomer, KeyForgotten
<1>2. made <= forgotten + 1
  BY <1>1 DEF CustomerInv, MadeIsCounted, NoCustomer
<1>3. CustomerTypeOK'
  BY <1>1, ForgottenAssumption DEF CustomerInv, CustomerTypeOK, NoCustomer
<1>4. LookupsAreMapped' /\ MappingStays
  BY <1>1 DEF CustomerInv, LookupsAreMapped, Mapped, MappingStays
<1>5. MadeIsCounted'
  BY <1>1, <1>2 DEF MadeIsCounted, NoCustomer
<1> QED
  BY <1>3, <1>4, <1>5 DEF CustomerInv

---------------------------------------------------------------------------
(* The Sessions were created for the customer of the row. *)
PayerInv ==
    /\ payer \in [Nonces -> Customers \cup {NoCustomer}]
    /\ CustomerInv
    /\ SessionsAreOfTheMapping

(* A step that leaves the Sessions' customers alone, and creates none.      *)
LEMMA PayerStays ==
    ASSUME PayerInv, CustomerInv', MappingStays, payer' = payer,
           \A n \in Nonces : sessions'[n] # "none" => sessions[n] # "none"
    PROVE  PayerInv'
<1> QED
  BY DEF PayerInv, SessionsAreOfTheMapping, MappingStays

LEMMA CustomerAlone ==
    ASSUME CustomerInv, UNCHANGED customerVars
    PROVE  CustomerInv' /\ MappingStays
<1>1. CustomerTypeOK'
  BY DEF CustomerInv, CustomerTypeOK, customerVars
<1>2. LookupsAreMapped' /\ MadeIsCounted' /\ MappingStays
  BY DEF CustomerInv, LookupsAreMapped, MadeIsCounted, Mapped, MappingStays, customerVars
<1> QED
  BY <1>1, <1>2 DEF CustomerInv

LEMMA LookupStepKeeps ==
    ASSUME CustomerInv, NEW w \in Workers, LookupStep(w)
    PROVE  CustomerInv' /\ MappingStays
<1> QED
  BY ReadKeeps, CreateCustomerKeeps, PersistKeeps DEF LookupStep

LEMMA CreateSessionPays ==
    ASSUME CInv, PayerInv, NEW w \in Workers, CreateSession(w)
    PROVE  PayerInv'
<1> DEFINE n == job[w].nonce
           c == resolving[w].customer
<1>1. n \in Nonces /\ sessions \in [Nonces -> SessionStatuses]
  BY DEF CInv, CoreTypeOK, JobsAreWhole, WholeIn, CreateSession
<1>2. c = mapping.customer /\ Mapped /\ c \in Customers \cup {NoCustomer}
  BY DEF PayerInv, CustomerInv, LookupsAreMapped, CustomerTypeOK, MappingRow, CreateSession
<1>3. CustomerInv' /\ MappingStays
  BY LookupForgotten DEF PayerInv, CreateSession
<1>4. CASE sessions[n] = "none"
  <2>1. /\ payer' = [payer EXCEPT ![n] = c] /\ sessions' = [sessions EXCEPT ![n] = "open"]
    BY <1>4 DEF CreateSession
  <2>2. payer' \in [Nonces -> Customers \cup {NoCustomer}]
    BY <1>1, <1>2, <2>1 DEF PayerInv
  <2>3. ASSUME NEW m \in Nonces, sessions'[m] # "none"
        PROVE  Mapped' /\ payer'[m] = mapping'.customer
    <3>1. CASE m = n
      BY <1>1, <1>2, <1>3, <2>1, <3>1 DEF PayerInv, MappingStays
    <3>2. CASE m # n
      BY <1>1, <1>3, <2>1, <2>3, <3>2 DEF PayerInv, SessionsAreOfTheMapping, MappingStays
    <3> QED
      BY <3>1, <3>2
  <2> QED
    BY <1>3, <2>2, <2>3 DEF PayerInv, SessionsAreOfTheMapping
<1>5. CASE sessions[n] # "none"
  BY <1>3, <1>5, PayerStays DEF CreateSession
<1> QED
  BY <1>4, <1>5

LEMMA PayerInit == Init => PayerInv
<1> SUFFICES ASSUME Init PROVE PayerInv
  OBVIOUS
<1>1. Unresolved \in Lookup /\ Unresolved.step = "load"
  BY DEF Unresolved, AtStep, Lookup
<1>2. 1 \in Customers
  BY ForgottenAssumption DEF Customers
<1>3. CustomerTypeOK
  <2>1. mapping \in MappingRow /\ made \in Customers \cup {NoCustomer}
    <3>1. CASE made = 0 /\ mapping \in [exists: BOOLEAN, customer: {NoCustomer}]
      BY <3>1 DEF MappingRow, NoCustomer
    <3>2. CASE made = 1 /\ mapping = [exists |-> TRUE, customer |-> 1]
      BY <1>2, <3>2 DEF MappingRow
    <3> QED
      BY <3>1, <3>2 DEF Init, CustomerInit
  <2>2. resolving \in [Workers -> Lookup]
    BY <1>1 DEF Init, CustomerInit
  <2> QED
    BY <2>1, <2>2, ForgottenAssumption DEF Init, CustomerInit, CustomerTypeOK
<1>4. LookupsAreMapped /\ MadeIsCounted
  BY <1>1 DEF Init, CustomerInit, LookupsAreMapped, MadeIsCounted, Mapped, NoCustomer
<1>5. payer \in [Nonces -> Customers \cup {NoCustomer}] /\ SessionsAreOfTheMapping
  BY DEF Init, SessionsAreOfTheMapping
<1> QED
  BY <1>3, <1>4, <1>5 DEF PayerInv, CustomerInv

(* The steps that do not touch the customer. *)
LEMMA OthersPay ==
    ASSUME CInv, PayerInv, UNCHANGED customerSide,
           \A n \in Nonces : sessions'[n] # "none" => sessions[n] # "none"
    PROVE  PayerInv'
<1>1. CustomerInv' /\ MappingStays
  BY CustomerAlone DEF PayerInv, customerSide
<1> QED
  BY <1>1, PayerStays DEF customerSide

LEMMA PayerKeeps == CInv /\ PayerInv /\ [Next]_vars => PayerInv'
<1> SUFFICES ASSUME CInv, PayerInv, [Next]_vars PROVE PayerInv'
  OBVIOUS
<1>1. sessions \in [Nonces -> SessionStatuses]
  BY DEF CInv, CoreTypeOK
<1>2. ASSUME NEW s \in Nonces, Pay(s) \/ ExpiresAtPasses(s)
      PROVE  PayerInv'
  BY <1>1, <1>2, OthersPay DEF Pay, ExpiresAtPasses
<1>3. ASSUME NEW r \in RowIds, ClaimAges(r)
      PROVE  PayerInv'
  BY <1>3, OthersPay DEF ClaimAges
<1>4. CASE KeyForgets
  BY <1>4, ForgettingKeeps, PayerStays DEF KeyForgets, PayerInv
<1>5. ASSUME NEW w \in Workers, NEW n \in Nonces,
             StartCheckout(w, n) \/ Poll(w, n) \/ Webhook(w, n) \/ Drain(w, n)
      PROVE  PayerInv'
  BY <1>5, OthersPay DEF StartCheckout, Poll, Webhook, Drain, StartClosing
<1>6. ASSUME NEW w \in Workers, WorkerStep(w)
      PROVE  PayerInv'
  <2>1. CASE ResolveCustomer(w)
    BY <2>1, LookupStepKeeps, PayerStays DEF ResolveCustomer, PayerInv
  <2>2. CASE CreateSession(w)
    BY <2>2, CreateSessionPays
  <2>3. CASE ExpireAtStripe(w)
    <3>1. \A n \in Nonces : sessions'[n] # "none" => sessions[n] # "none"
      BY <1>1, <2>3 DEF ExpireAtStripe
    <3> QED
      BY <2>3, <3>1, OthersPay DEF ExpireAtStripe
  <2>4. CASE \/ Claim(w) \/ WaitForOpen(w) \/ Finalize(w) \/ FailClaim(w)
             \/ SyncSubscription(w) \/ MarkTerminal(w) \/ Closed(w)
    BY <2>4, OthersPay
       DEF Claim, WaitForOpen, Finalize, FailClaim, SyncSubscription, MarkTerminal, Closed
  <2> QED
    BY <1>6, <2>1, <2>2, <2>3, <2>4 DEF WorkerStep
<1>7. ASSUME NEW w \in Workers, CallFails(w) \/ Crash(w)
      PROVE  PayerInv'
  <2>1. CustomerInv' /\ MappingStays
    BY <1>7, LookupForgotten DEF CallFails, Crash, ForgetsLookup, PayerInv
  <2> QED
    BY <1>7, <2>1, PayerStays DEF CallFails, Crash, ForgetsLookup
<1>8. CASE UNCHANGED vars
  BY <1>8, OthersPay DEF vars
<1> QED
  BY <1>2, <1>3, <1>4, <1>5, <1>6, <1>7, <1>8 DEF Next

(* The inductive invariant of the customer. *)
THEOREM PayerInvariant == Spec => []PayerInv
<1> QED
  BY PayerInit, PayerKeeps, ClaimInvariant, PTL DEF Spec

(* The type invariant, with at most one active row. *)
THEOREM TypeCorrect == Spec => []TypeOK
<1>1. CInv /\ PayerInv => TypeOK
  BY DEF CInv, CoreTypeOK, PayerInv, CustomerInv, TypeOK
<1> QED
  BY <1>1, ClaimInvariant, PayerInvariant, PTL

(* Every Session is the mapped customer's. *)
THEOREM SessionsAreOfTheMappingHolds == Spec => []SessionsAreOfTheMapping
<1>1. PayerInv => SessionsAreOfTheMapping
  BY DEF PayerInv
<1> QED
  BY <1>1, PayerInvariant, PTL

(* One customer for every time Stripe forgets the key, and one more.        *)
THEOREM OneCustomerPerKeyHolds == Spec => []OneCustomerPerKey
<1>1. PayerInv => OneCustomerPerKey
  <2> SUFFICES ASSUME PayerInv PROVE made <= forgotten + 1
    BY DEF OneCustomerPerKey
  <2>1. made \in Nat /\ forgotten \in Nat
    BY ForgottenAssumption DEF PayerInv, CustomerInv, CustomerTypeOK, Customers, NoCustomer
  <2> QED
    BY <2>1 DEF PayerInv, CustomerInv, MadeIsCounted
<1> QED
  BY <1>1, PayerInvariant, PTL

=============================================================================
