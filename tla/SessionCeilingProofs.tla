------------------------ MODULE SessionCeilingProofs ------------------------
(***************************************************************************)
(* The shared ceiling, for any number of server instances, any limit,      *)
(* window and number of failures.                                          *)
(*                                                                         *)
(* ExtraSlotsAreResends.                                                   *)
(* The slots a request has taken, and those that late copies of its        *)
(* commands may still take, are together 1 more at most than the resends   *)
(* of the client (Due), and no more than these while a command is on its   *)
(* way or about to be sent (Sending): a resend makes room for the copy it  *)
(* leaves behind, and EVAL follows a reply that has taken no slot.         *)
(*                                                                         *)
(* The argument needs no arithmetic of the ring: whether the script allows *)
(* is one decision, and the counter of the request follows it.             *)
(*                                                                         *)
(* IsSlidingWindow.  For every second t of the window, no more requests    *)
(* were admitted after t than the ring holds counters of after t: an       *)
(* inequality between two sums (Covers), and an equality as long as the    *)
(* clock is not set back.  Counting a request adds 1 to both sums for the  *)
(* same seconds; a slot is reused only for a second Slots later, when what *)
(* it held is out of the window; a key expires when all it held is.        *)
(*                                                                         *)
(* RetryAfterIsTight.  The same equality says what the window will hold    *)
(* before and after the oldest counter has left it.                        *)
(***************************************************************************)
EXTENDS SessionCeiling, SumTheorems

(* The fields of a request, whatever Retry-After it carries. *)
Shaped(j) ==
    j \in [pc: Steps, reply: Replies, retry: {j.retry},
           answer: {"none", "allowed", "limited", "unavailable"},
           late: [Commands -> Nat], resent: Nat, counted: Nat]

(* The slots a request has taken and those its late copies may still take. *)
Due(j) == j.counted + j.late["evalsha"] + j.late["eval"]

(* A command of the request may still run while it is waited for, or the   *)
(* next one will be sent.                                                  *)
Sending(j) == j.pc \in Commands /\ j.reply \in {"none", "noscript"}

(* What a request has been counted for, by the step it is at.              *)
Counts(j) ==
    /\ Shaped(j)
    /\ Due(j) <= 1 + j.resent
    /\ Sending(j) => Due(j) <= j.resent
    /\ j.answer = "allowed" => j.counted >= 1
    /\ j.pc # "idle" => j.answer = "none"
    /\ j.pc \in {"secrets", "redis"} => Due(j) = 0 /\ j.reply = "none"
    /\ j.pc \in Commands /\ j.reply = "allowed" => j.counted >= 1

CInv ==
    /\ job = [w \in Workers |-> job[w]]
    /\ \A w \in Workers : Counts(job[w])

---------------------------------------------------------------------------
LEMMA SetJobFacts ==
    ASSUME CInv, NEW w \in Workers, NEW j, Counts(j), SetJob(w, j)
    PROVE  CInv'
  BY DEF CInv, SetJob

(* What is due is a number. *)
LEMMA DueNat ==
    ASSUME NEW j, Shaped(j)
    PROVE  /\ Due(j) \in Nat /\ j.resent \in Nat /\ j.counted \in Nat
           /\ j.late["evalsha"] \in Nat /\ j.late["eval"] \in Nat
  BY DEF Shaped, Due, Commands

(* A request at Redis that leaves its command behind. *)
LEMMA LeftFacts ==
    ASSUME NEW j, Counts(j)
    PROVE  /\ Shaped(Left(j)) /\ Due(Left(j)) <= 1 + j.resent
           /\ Left(j).pc = j.pc /\ Left(j).reply = j.reply /\ Left(j).retry = j.retry
           /\ Left(j).answer = j.answer /\ Left(j).resent = j.resent
           /\ Left(j).counted = j.counted
           /\ j.pc \notin Commands => Left(j) = j
<1>1. Shaped(j)
  BY DEF Counts
<1>2. CASE ~(j.pc \in Commands /\ j.reply = "none")
  <2>1. Left(j) = j
    BY <1>2 DEF Left
  <2> QED
    BY <1>1, <2>1 DEF Counts
<1>3. CASE j.pc \in Commands /\ j.reply = "none"
  <2> DEFINE late == [j.late EXCEPT ![j.pc] = @ + 1]
             now == [j EXCEPT !.late = late]
  <2>1. Left(j) = now
    BY <1>1, <1>3 DEF Left, Shaped
  <2>2. late \in [Commands -> Nat]
    BY <1>1, <1>3 DEF Shaped
  <2>3. late["evalsha"] + late["eval"] = j.late["evalsha"] + j.late["eval"] + 1
    BY <1>1, <1>3 DEF Shaped, Commands
  <2> HIDE DEF late
  <2>4. /\ Shaped(now) /\ now.pc = j.pc /\ now.reply = j.reply /\ now.retry = j.retry
        /\ now.answer = j.answer /\ now.resent = j.resent /\ now.counted = j.counted
        /\ now.late = late
    BY <1>1, <2>2 DEF Shaped
  <2> HIDE DEF now
  <2>5. late["evalsha"] \in Nat /\ late["eval"] \in Nat
    BY <2>2 DEF Commands
  <2>6. Due(now) = Due(j) + 1
    BY <1>1, <2>3, <2>4, <2>5, DueNat DEF Due
  <2>7. Due(j) <= j.resent
    BY <1>3 DEF Counts, Sending
  <2> QED
    BY <1>1, <1>3, <2>1, <2>4, <2>6, <2>7, DueNat
<1> QED
  BY <1>2, <1>3

(* A request that ends. *)
LEMMA EndFacts ==
    ASSUME NEW j, Counts(j), NEW a \in {"allowed", "limited", "unavailable"},
           a = "allowed" => j.counted >= 1
    PROVE  Counts([Left(j) EXCEPT !.pc = "idle", !.answer = a, !.reply = "none", !.retry = 0])
<1> DEFINE k == Left(j)
           now == [k EXCEPT !.pc = "idle", !.answer = a, !.reply = "none", !.retry = 0]
<1>1. /\ Shaped(k) /\ Due(k) <= 1 + k.resent /\ k.counted = j.counted
  BY LeftFacts
<1> HIDE DEF k
<1>2. /\ Shaped(now) /\ now.pc = "idle" /\ now.answer = a /\ now.counted = k.counted
      /\ now.resent = k.resent /\ now.late = k.late
  BY <1>1 DEF Shaped, Steps, Replies
<1> HIDE DEF now
<1>3. Due(now) = Due(k)
  BY <1>2 DEF Due
<1>4. Counts(now)
  BY <1>1, <1>2, <1>3 DEF Counts, Commands, Sending
<1> QED
  BY <1>4 DEF now, k

(* A new request, and one refused before anything is asked. *)
LEMMA NewFacts ==
    /\ Counts(NewRequest)
    /\ Counts([NewRequest EXCEPT !.pc = "idle"])
    /\ Counts([NewRequest EXCEPT !.pc = "idle", !.answer = "unavailable"])
<1> DEFINE Blank(p, a) == [pc |-> p, reply |-> "none", retry |-> 0, answer |-> a,
                           late |-> NoCopies, resent |-> 0, counted |-> 0]
<1>1. ASSUME NEW p \in {"idle", "secrets"}, NEW a \in {"none", "unavailable"},
             p = "secrets" => a = "none"
      PROVE  Counts(Blank(p, a))
  <2> DEFINE now == Blank(p, a)
  <2>1. NoCopies \in [Commands -> Nat] /\ NoCopies["evalsha"] = 0 /\ NoCopies["eval"] = 0
    BY DEF NoCopies, Commands
  <2>2. /\ now.pc = p /\ now.answer = a /\ now.reply = "none" /\ now.counted = 0
        /\ now.resent = 0 /\ now.late = NoCopies
    OBVIOUS
  <2>3. Shaped(now)
    BY <2>1 DEF Shaped, Steps, Replies, Verdicts
  <2> HIDE DEF now
  <2>4. Due(now) = 0
    BY <2>1, <2>2 DEF Due
  <2>5. Counts(now)
    BY <1>1, <2>2, <2>3, <2>4 DEF Counts, Commands, Sending
  <2> QED
    BY <2>5 DEF now
<1> DEFINE copies == NoCopies
<1>2. NewRequest = [pc |-> "secrets", reply |-> "none", retry |-> 0, answer |-> "none",
                    late |-> copies, resent |-> 0, counted |-> 0]
  BY DEF NewRequest
<1>3. /\ Counts(Blank("secrets", "none")) /\ Counts(Blank("idle", "none"))
      /\ Counts(Blank("idle", "unavailable"))
  BY <1>1
<1> HIDE DEF copies
<1>4. [NewRequest EXCEPT !.pc = "idle"]
        = [pc |-> "idle", reply |-> "none", retry |-> 0, answer |-> "none",
           late |-> copies, resent |-> 0, counted |-> 0]
  BY <1>2
<1>5. [NewRequest EXCEPT !.pc = "idle", !.answer = "unavailable"]
        = [pc |-> "idle", reply |-> "none", retry |-> 0, answer |-> "unavailable",
           late |-> copies, resent |-> 0, counted |-> 0]
  <2> DEFINE idle == [NewRequest EXCEPT !.pc = "idle"]
  <2>1. [NewRequest EXCEPT !.pc = "idle", !.answer = "unavailable"]
          = [idle EXCEPT !.answer = "unavailable"]
    BY <1>2
  <2>2. idle = [pc |-> "idle", reply |-> "none", retry |-> 0, answer |-> "none",
                late |-> copies, resent |-> 0, counted |-> 0]
    BY <1>4
  <2> HIDE DEF idle
  <2>3. [idle EXCEPT !.answer = "unavailable"]
          = [pc |-> "idle", reply |-> "none", retry |-> 0, answer |-> "unavailable",
             late |-> copies, resent |-> 0, counted |-> 0]
    BY <2>2
  <2> QED
    BY <2>1, <2>3
<1> QED
  BY <1>2, <1>3, <1>4, <1>5 DEF copies

(* One slot more, if the script allows. *)
LEMMA TakenFacts ==
    ASSUME NEW j, Shaped(j)
    PROVE  /\ Taken(j) \in Nat /\ j.counted <= Taken(j) /\ Taken(j) <= j.counted + 1
           /\ Verdict = "allowed" => Taken(j) >= 1
  BY DueNat DEF Taken

(* The script's verdict and the request's count agree. *)
LEMMA ResultFacts ==
    ASSUME NEW j, Counts(j), j.pc \in Commands, j.reply = "none"
    PROVE  Counts(Result(j))
<1> DEFINE v == Verdict
           retry == IF v = "rate_limited" THEN RetrySeconds ELSE 0
           n == Taken(j)
           now == [j EXCEPT !.reply = v, !.retry = retry, !.counted = n]
<1>1. v \in Verdicts
  BY DEF Verdict, Verdicts
<1>2. Due(j) <= j.resent /\ Shaped(j) /\ j.answer = "none"
  BY DEF Counts, Commands, Sending
<1>3. n \in Nat /\ n <= j.counted + 1 /\ (v = "allowed" => n >= 1)
  BY <1>2, TakenFacts
<1>4. Result(j) = now
  BY DEF Result
<1> HIDE DEF v, retry, n
<1>5. /\ Shaped(now) /\ now.pc = j.pc /\ now.reply = v /\ now.answer = "none"
      /\ now.counted = n /\ now.late = j.late /\ now.resent = j.resent
  BY <1>1, <1>2, <1>3 DEF Shaped, Replies
<1> HIDE DEF now
<1>6. Due(now) <= 1 + now.resent
  BY <1>2, <1>3, <1>5, DueNat DEF Due
<1>7. v \notin {"none", "noscript"}
  BY <1>1 DEF Verdicts
<1>8. Counts(now)
  BY <1>3, <1>5, <1>6, <1>7 DEF Counts, Commands, Sending
<1> QED
  BY <1>4, <1>8

(* A copy that nobody waits for arrives. *)
LEMMA LateFacts ==
    ASSUME CInv, NEW w \in Workers, NEW c \in Commands, LateArrives(w, c)
    PROVE  CInv'
<1> DEFINE j == job[w]
           less == [j.late EXCEPT ![c] = @ - 1]
           n == Taken(j)
<1>1. Counts(j) /\ Shaped(j)
  BY DEF CInv, Counts
<1>2. n \in Nat /\ j.counted <= n /\ n <= j.counted + 1
  BY <1>1, TakenFacts
<1>3. j.late[c] > 0 /\ j.late[c] <= Due(j)
  <2>1. j.late[c] > 0
    BY DEF LateArrives
  <2>2. /\ Due(j) \in Nat /\ j.resent \in Nat /\ j.counted \in Nat
        /\ j.late["evalsha"] \in Nat /\ j.late["eval"] \in Nat
    BY <1>1, DueNat
  <2>3. c = "evalsha" \/ c = "eval"
    BY DEF Commands
  <2> QED
    BY <2>1, <2>2, <2>3 DEF Due
<1>4. j.pc \notin {"secrets", "redis"}
  <2>1. j.late[c] \in Nat /\ Due(j) \in Nat
    BY <1>1, DueNat DEF Shaped
  <2>2. Due(j) # 0
    BY <1>3, <2>1
  <2>3. j.pc \in {"secrets", "redis"} => Due(j) = 0
    BY <1>1 DEF Counts
  <2> QED
    BY <2>2, <2>3
<1>5. less \in [Commands -> Nat]
  BY <1>1, <1>3 DEF Shaped
<1>6. /\ less["evalsha"] + less["eval"] = j.late["evalsha"] + j.late["eval"] - 1
      /\ less["evalsha"] \in Nat /\ less["eval"] \in Nat
  BY <1>1, <1>5 DEF Shaped, Commands
<1>7. ASSUME NEW m \in Nat, j.counted <= m, m <= j.counted + 1,
             SetJob(w, [j EXCEPT !.late = less, !.counted = m])
      PROVE  CInv'
  <2> DEFINE now == [j EXCEPT !.late = less, !.counted = m]
  <2> HIDE DEF less
  <2>1. /\ Shaped(now) /\ now.pc = j.pc /\ now.reply = j.reply /\ now.answer = j.answer
        /\ now.counted = m /\ now.late = less /\ now.resent = j.resent
    BY <1>1, <1>5 DEF Shaped
  <2> HIDE DEF now
  <2>2. Due(now) <= Due(j)
    BY <1>1, <1>6, <1>7, <2>1, DueNat DEF Due
  <2>3. Due(now) \in Nat /\ Due(j) \in Nat /\ j.resent \in Nat /\ j.counted \in Nat
    BY <1>1, <2>1, DueNat
  <2>4. Counts(now)
    BY <1>1, <1>4, <1>7, <2>1, <2>2, <2>3 DEF Counts, Sending
  <2> QED
    BY <1>7, <2>4, SetJobFacts DEF now
<1>8. CASE SetJob(w, [j EXCEPT !.late[c] = @ - 1, !.counted = n])
  <2> HIDE DEF n
  <2>1. [j EXCEPT !.late[c] = @ - 1, !.counted = n] = [j EXCEPT !.late = less, !.counted = n]
    BY <1>1 DEF Shaped
  <2> QED
    BY <1>2, <1>7, <1>8, <2>1
<1>9. CASE j.pc = "idle" /\ SetJob(w, [j EXCEPT !.resent = @ + 1, !.counted = n])
  <2> DEFINE again == j.resent + 1
             now == [j EXCEPT !.resent = again, !.counted = n]
  <2>5. again \in Nat /\ again = j.resent + 1
    BY <1>1, DueNat
  <2>6. [j EXCEPT !.resent = @ + 1, !.counted = n] = now
    BY <1>1 DEF Shaped
  <2> HIDE DEF n, again
  <2>1. /\ Shaped(now) /\ now.pc = "idle" /\ now.answer = j.answer
        /\ now.counted = n /\ now.late = j.late /\ now.resent = j.resent + 1
    BY <1>1, <1>2, <1>9, <2>5 DEF Shaped
  <2> HIDE DEF now
  <2>2. Due(now) <= Due(j) + 1 /\ Due(j) <= 1 + j.resent
    BY <1>1, <1>2, <2>1, DueNat DEF Due, Counts
  <2>3. Due(now) \in Nat /\ Due(j) \in Nat /\ j.resent \in Nat /\ j.counted \in Nat
    BY <1>1, <2>1, DueNat
  <2>4. Counts(now)
    BY <1>1, <1>2, <2>1, <2>2, <2>3 DEF Counts, Sending, Commands
  <2> QED
    BY <1>9, <2>4, <2>6, SetJobFacts
<1> QED
  BY <1>8, <1>9 DEF LateArrives

LEMMA StepKeeps ==
    ASSUME CInv, [Next]_vars
    PROVE  CInv'
<1>1. ASSUME UNCHANGED job PROVE CInv'
  BY <1>1 DEF CInv
<1>2. CASE Tick \/ ClockSetBack \/ KeyExpires \/ ScriptFlushed \/ UNCHANGED vars
  BY <1>1, <1>2 DEF Tick, ClockSetBack, KeyExpires, ScriptFlushed, vars
<1>3. ASSUME NEW c \in Commands, OrphanArrives(c) PROVE CInv'
  BY <1>1, <1>3 DEF OrphanArrives
<1>4. ASSUME NEW w \in Workers,
             \/ Begin(w) \/ LoadSecrets(w) \/ AcquireRedis(w) \/ EvalshaRuns(w) \/ EvalRuns(w)
             \/ ClientResends(w) \/ TransportFails(w) \/ SendEval(w) \/ Receive(w)
             \/ Deadline(w) \/ Restart(w)
      PROVE  CInv'
  <2> DEFINE j == job[w]
  <2>1. Counts(j)
    BY DEF CInv
  <2>2. ASSUME NEW a \in {"allowed", "limited", "unavailable"}, a = "allowed" => j.counted >= 1,
               Answer(w, a)
        PROVE  CInv'
    BY <2>1, <2>2, EndFacts, SetJobFacts DEF Answer
  <2>3. CASE Begin(w) \/ Restart(w)
    BY <2>3, NewFacts, SetJobFacts DEF Begin, Restart
  <2>4. CASE LoadSecrets(w)
    <3>1. CASE SetJob(w, [j EXCEPT !.pc = "redis"])
      <4> DEFINE now == [j EXCEPT !.pc = "redis"]
      <4>1. /\ Shaped(now) /\ now.pc = "redis" /\ now.answer = j.answer /\ now.late = j.late
            /\ now.counted = j.counted /\ now.reply = j.reply /\ now.resent = j.resent
            /\ j.pc = "secrets"
        BY <2>1, <2>4 DEF LoadSecrets, Counts, Shaped, Steps
      <4> HIDE DEF now
      <4>2. Due(now) = Due(j)
        BY <4>1 DEF Due
      <4>3. Counts(now)
        BY <2>1, <4>1, <4>2 DEF Counts, Commands, Sending
      <4> QED
        BY <3>1, <4>3, SetJobFacts DEF now
    <3> QED
      BY <2>2, <2>4, <3>1 DEF LoadSecrets
  <2>5. CASE AcquireRedis(w)
    <3>1. CASE SetJob(w, [j EXCEPT !.pc = "evalsha"])
      <4> DEFINE now == [j EXCEPT !.pc = "evalsha"]
      <4>1. /\ Shaped(now) /\ now.pc = "evalsha" /\ now.answer = j.answer /\ now.late = j.late
            /\ now.counted = j.counted /\ now.reply = j.reply /\ now.resent = j.resent
            /\ j.pc = "redis"
        BY <2>1, <2>5 DEF AcquireRedis, Counts, Shaped, Steps, Commands
      <4> HIDE DEF now
      <4>2. Due(now) = 0 /\ now.resent \in Nat
        BY <2>1, <4>1, DueNat DEF Due, Counts
      <4>3. Counts(now)
        BY <2>1, <4>1, <4>2 DEF Counts, Commands, Sending
      <4> QED
        BY <3>1, <4>3, SetJobFacts DEF now
    <3> QED
      BY <2>2, <2>5, <3>1 DEF AcquireRedis
  <2>6. CASE EvalshaRuns(w) \/ EvalRuns(w)
    <3>1. j.pc \in Commands /\ j.reply = "none"
      BY <2>6 DEF EvalshaRuns, EvalRuns, AtRedis, Commands
    <3>2. CASE SetJob(w, Result(j))
      BY <2>1, <3>1, <3>2, ResultFacts, SetJobFacts
    <3>3. CASE SetJob(w, [j EXCEPT !.reply = "noscript"])
      <4> DEFINE now == [j EXCEPT !.reply = "noscript"]
      <4>1. /\ Shaped(now) /\ now.pc = j.pc /\ now.answer = j.answer /\ now.late = j.late
            /\ now.counted = j.counted /\ now.reply = "noscript" /\ now.resent = j.resent
        BY <2>1 DEF Counts, Shaped, Replies
      <4> HIDE DEF now
      <4>2. Due(now) = Due(j) /\ Sending(j)
        BY <3>1, <4>1 DEF Due, Sending
      <4>3. Counts(now)
        BY <2>1, <3>1, <4>1, <4>2 DEF Counts, Commands, Sending
      <4> QED
        BY <3>3, <4>3, SetJobFacts DEF now
    <3> QED
      BY <2>6, <3>2, <3>3 DEF EvalshaRuns, EvalRuns
  <2>7. CASE ClientResends(w)
    <3> DEFINE k == Left(j)
               again == k.resent + 1
               now == [k EXCEPT !.reply = "none", !.retry = 0, !.resent = again]
    <3>1. j.pc \in Commands /\ SetJob(w, now)
      BY <2>7 DEF ClientResends
    <3>2. /\ Shaped(k) /\ Due(k) <= 1 + k.resent /\ k.counted = j.counted
          /\ k.pc = j.pc /\ k.answer = j.answer
      BY <2>1, LeftFacts
    <3> HIDE DEF k
    <3>7. again \in Nat /\ again = k.resent + 1
      BY <3>2, DueNat
    <3> HIDE DEF again
    <3>3. /\ Shaped(now) /\ now.pc = j.pc /\ now.answer = j.answer /\ now.late = k.late
          /\ now.counted = k.counted /\ now.reply = "none" /\ now.resent = k.resent + 1
      BY <3>2, <3>7 DEF Shaped, Replies
    <3> HIDE DEF now
    <3>4. Due(now) <= now.resent /\ Due(now) \in Nat /\ now.resent \in Nat
      BY <3>2, <3>3, DueNat DEF Due
    <3>5. j.answer = "none"
      BY <2>1, <3>1 DEF Counts, Commands
    <3>6. Counts(now)
      BY <3>1, <3>3, <3>4, <3>5 DEF Counts, Commands, Sending
    <3> QED
      BY <3>1, <3>6, SetJobFacts
  <2>8. CASE TransportFails(w)
    <3> DEFINE k == Left(j)
               now == [k EXCEPT !.reply = "error", !.retry = 0]
    <3>1. j.pc \in Commands /\ SetJob(w, now)
      BY <2>8 DEF TransportFails
    <3>2. /\ Shaped(k) /\ Due(k) <= 1 + k.resent /\ k.counted = j.counted
          /\ k.pc = j.pc /\ k.answer = j.answer
      BY <2>1, LeftFacts
    <3> HIDE DEF k
    <3>3. /\ Shaped(now) /\ now.pc = j.pc /\ now.answer = j.answer /\ now.late = k.late
          /\ now.counted = k.counted /\ now.reply = "error" /\ now.resent = k.resent
      BY <3>2 DEF Shaped, Replies
    <3> HIDE DEF now
    <3>4. Due(now) <= 1 + now.resent
      BY <3>2, <3>3 DEF Due
    <3>5. j.answer = "none"
      BY <2>1, <3>1 DEF Counts, Commands
    <3>6. Counts(now)
      BY <3>1, <3>3, <3>4, <3>5 DEF Counts, Commands, Sending
    <3> QED
      BY <3>1, <3>6, SetJobFacts
  <2>9. CASE SendEval(w)
    <3> DEFINE now == [j EXCEPT !.pc = "eval", !.reply = "none"]
    <3>1. /\ Shaped(now) /\ now.pc = "eval" /\ now.answer = j.answer /\ now.late = j.late
          /\ now.counted = j.counted /\ now.reply = "none" /\ now.resent = j.resent
      BY <2>1 DEF Counts, Shaped, Replies, Steps, Commands
    <3>2. j.pc = "evalsha" /\ j.reply = "noscript" /\ SetJob(w, now)
      BY <2>9 DEF SendEval, FallsBack
    <3> HIDE DEF now
    <3>3. Due(now) = Due(j) /\ Sending(j)
      BY <3>1, <3>2 DEF Due, Sending, Commands
    <3>4. Counts(now)
      BY <2>1, <3>1, <3>2, <3>3 DEF Counts, Commands, Sending
    <3> QED
      BY <3>2, <3>4, SetJobFacts
  <2>10. CASE Receive(w)
    <3>1. j.pc \in Commands /\ Answer(w, AnswerTo(j.reply))
      BY <2>10 DEF Receive
    <3>2. /\ AnswerTo(j.reply) \in {"allowed", "limited", "unavailable"}
          /\ AnswerTo(j.reply) = "allowed" => j.counted >= 1
      BY <2>1, <3>1 DEF AnswerTo, Counts
    <3> QED
      BY <2>2, <3>1, <3>2
  <2>11. CASE Deadline(w)
    BY <2>2, <2>11 DEF Deadline
  <2> QED
    BY <1>4, <2>3, <2>4, <2>5, <2>6, <2>7, <2>8, <2>9, <2>10, <2>11
<1> QED
  BY <1>2, <1>3, <1>4, LateFacts DEF Next

LEMMA InitCounts == Init => CInv
  BY NewFacts DEF Init, CInv

(* A request takes one place of the window, and one more at most for each  *)
(* time the client has sent a command of it again; it has a place when it  *)
(* is let through.  So the request itself never sends again what may have  *)
(* run (isTemporarySessionNoscriptError), whatever copies arrive late, are *)
(* overtaken by a deadline or outlive an instance.                         *)
THEOREM ExtraSlotsAreTheClients == Spec => []ExtraSlotsAreResends
<1>1. CInv => ExtraSlotsAreResends
  <2> SUFFICES ASSUME CInv, NEW w \in Workers
               PROVE  /\ job[w].counted <= 1 + job[w].resent
                      /\ job[w].answer = "allowed" => job[w].counted >= 1
    BY DEF ExtraSlotsAreResends
  <2>1. Counts(job[w]) /\ Shaped(job[w])
    BY DEF CInv, Counts
  <2> QED
    BY <2>1, DueNat DEF Counts, Due
<1>2. CInv /\ [Next]_vars => CInv'
  BY StepKeeps
<1> QED
  BY InitCounts, <1>1, <1>2, PTL DEF Spec

---------------------------------------------------------------------------
(* The ring of counters *)

(* Division with remainder.                                                *)
LEMMA Division ==
    ASSUME NEW n \in Nat \ {0}, NEW a \in Int
    PROVE  /\ a % n \in 0..(n - 1) /\ a \div n \in Int
           /\ a = n * (a \div n) + (a % n)
  OBVIOUS

(* Different multiples of n are at least n apart.                          *)
LEMMA NextMultiple ==
    ASSUME NEW n \in Nat \ {0}, NEW p \in Int, NEW q \in Int, p < q
    PROVE  n * p <= n * q - n
<1>1. q - p - 1 \in Nat
  OBVIOUS
<1>2. n * (q - p - 1) >= 0
  BY <1>1
<1>3. n * (q - p - 1) = n * q - n * p - n
  OBVIOUS
<1> QED
  BY <1>2, <1>3

(* A slot is shared by seconds that are at least n apart. *)
LEMMA Congruent ==
    ASSUME NEW n \in Nat \ {0}, NEW a \in Int, NEW b \in Int, a % n = b % n, a < b
    PROVE  a <= b - n
<1> DEFINE p == a \div n
           q == b \div n
<1>1. /\ a = n * p + (a % n) /\ b = n * q + (b % n)
      /\ p \in Int /\ q \in Int /\ a % n \in Int
  BY Division
<1> HIDE DEF p, q
<1>2. p < q
  <2>1. n * p < n * q
    BY <1>1
  <2>2. p >= q => n * p >= n * q
    BY <1>1, NextMultiple
  <2> QED
    BY <1>1, <2>1, <2>2
<1>3. n * p <= n * q - n
  BY <1>1, <1>2, NextMultiple
<1> QED
  BY <1>1, <1>3

---------------------------------------------------------------------------
(* The invariant *)

(* The ring as functions whose sums count requests.                        *)
SlotIds == 0..(Slots - 1)
CountOf(r) == [i \in SlotIds |-> r[i].count]
LaterIn(r, t) == [i \in SlotIds |-> IF r[i].label > t THEN r[i].count ELSE 0]
LaterAdmitted(a, t) == [s \in Seconds |-> IF s > t THEN a[s] ELSE 0]

(* What the ring holds of labels after t; what was admitted after second t. *)
InRing(t) == SumFunctionOnSet(LaterIn(ring, t), SlotIds)
After(t) == SumFunctionOnSet(LaterAdmitted(admitted, t), Seconds)

(* The clock is never below 0: real time starts MaxBack seconds up.        *)
TimeOK == elapsed \in MaxBack..LastSecond /\ back \in 0..MaxBack

(* A counter is in its second's slot, and all count Limit at most.         *)
RingOK ==
    /\ ring \in [SlotIds -> Slot]
    /\ \A i \in SlotIds : ring[i].count > 0 => ring[i].label % Slots = i
    /\ SumFunctionOnSet(CountOf(ring), SlotIds) <= Limit

(* The types of the rest.                                                  *)
Typed ==
    /\ expireAt \in Nat
    /\ scripted \in BOOLEAN
    /\ loader \in [Workers -> {"unread", "pair", "failed"}]
    /\ \A w \in Workers : job[w].retry \in 0..Window
    /\ orphans \in [Commands -> Nat]
    /\ admitted \in [Seconds -> Nat]
    /\ failures \in 0..MaxFailures

(* Requests were admitted in the past; while the key lives, it lives Slots *)
(* seconds longer than the last of them, by its clock.                     *)
Past ==
    \A s \in Seconds : admitted[s] > 0 =>
        /\ s <= elapsed
        /\ expireAt # 0 => s <= expireAt - Slots + back

(* The ring knows of every request of the last Slots seconds.  Setting the *)
(* clock back moves its labels towards the future, so that they stay longer *)
(* than real time asks for: then the ring may count too many.              *)
Covers ==
    \A t \in Int : t >= clock - Slots =>
        /\ After(t + back) <= InRing(t)
        /\ back = 0 => InRing(t) <= After(t)

(* Nothing is ahead of a clock that was never set back.                    *)
InOrder ==
    back = 0 => /\ expireAt <= clock + Slots
                /\ \A i \in SlotIds : ring[i].label <= clock

WInv == TimeOK /\ RingOK /\ Typed /\ Past /\ Covers /\ InOrder

---------------------------------------------------------------------------

(* The sets over which the sums range are finite.                          *)
LEMMA Dimensions ==
    /\ Slots \in Nat \ {0} /\ Slots = Window + 1 /\ Window >= 1 /\ Window \in Nat
    /\ Limit \in Nat /\ Limit >= 1 /\ MaxFailures \in Nat
    /\ MaxBack \in Nat /\ LastSecond \in Nat /\ MaxBack <= LastSecond
    /\ IsFiniteSet(SlotIds) /\ IsFiniteSet(Seconds)
    /\ Seconds = 0..LastSecond /\ SlotIds = 0..(Slots - 1)
<1>1. /\ Slots \in Nat \ {0} /\ Slots = Window + 1 /\ Window >= 1 /\ Window \in Nat
      /\ Limit \in Nat /\ Limit >= 1 /\ MaxFailures \in Nat
      /\ MaxBack \in Nat /\ LastSecond \in Nat /\ MaxBack <= LastSecond
  BY SizeAssumption, BoundAssumption DEF Slots, LastSecond
<1>2. IsFiniteSet(SlotIds) /\ IsFiniteSet(Seconds)
  BY <1>1, FS_Interval DEF SlotIds, Seconds
<1> QED
  BY <1>1, <1>2 DEF Seconds, SlotIds

(* The clock reads a second that the ring can label.                       *)
LEMMA ClockFacts ==
    ASSUME TimeOK
    PROVE  /\ clock \in Seconds /\ clock \in Int /\ elapsed \in Seconds
           /\ elapsed \in Int /\ back \in Nat /\ elapsed = clock + back
  BY Dimensions DEF TimeOK, clock

(* Of the seconds that share the slot of now, only now is in the window.   *)
LEMMA SameSlot ==
    ASSUME TimeOK, NEW l \in Int, l % Slots = clock % Slots, l <= clock, l > clock - Slots
    PROVE  l = clock
<1>1. clock \in Int /\ Slots \in Nat \ {0}
  BY ClockFacts, Dimensions
<1>2. l < clock => l <= clock - Slots
  BY <1>1, Congruent
<1> QED
  BY <1>1, <1>2

(* A sum of zeros is 0.                                                    *)
LEMMA SumOfZeros ==
    ASSUME NEW S, IsFiniteSet(S), NEW f, \A x \in S : f[x] = 0
    PROVE  SumFunctionOnSet(f, S) = 0
<1>1. SumFunctionOnSet(f, {}) = SumFunctionOnSet(f, S)
  BY SumOfPart
<1> QED
  BY <1>1, SumOfNone

(* What the ring holds after t is a number, no greater than all it holds.  *)
LEMMA RingSums ==
    ASSUME NEW r \in [SlotIds -> Slot], NEW t \in Int
    PROVE  /\ \A i \in SlotIds : /\ CountOf(r)[i] \in Nat /\ LaterIn(r, t)[i] \in Nat
                                 /\ LaterIn(r, t)[i] <= CountOf(r)[i]
                                 /\ r[i].label \in Int /\ r[i].count \in Nat
           /\ SumFunctionOnSet(LaterIn(r, t), SlotIds) \in Nat
           /\ SumFunctionOnSet(CountOf(r), SlotIds) \in Nat
           /\ SumFunctionOnSet(LaterIn(r, t), SlotIds) <= SumFunctionOnSet(CountOf(r), SlotIds)
<1>1. \A i \in SlotIds : /\ CountOf(r)[i] \in Nat /\ LaterIn(r, t)[i] \in Nat
                         /\ LaterIn(r, t)[i] <= CountOf(r)[i]
                         /\ r[i].label \in Int /\ r[i].count \in Nat
  BY Dimensions DEF CountOf, LaterIn, Slot
<1> QED
  BY <1>1, Dimensions, SumIsNat, SumMonotone

(* The later t, the less the ring holds after it.                          *)
LEMMA RingShrinks ==
    ASSUME NEW r \in [SlotIds -> Slot], NEW t \in Int, NEW u \in Int, t <= u
    PROVE  SumFunctionOnSet(LaterIn(r, u), SlotIds) <= SumFunctionOnSet(LaterIn(r, t), SlotIds)
<1>1. \A i \in SlotIds : /\ LaterIn(r, u)[i] \in Nat /\ LaterIn(r, t)[i] \in Nat
                         /\ LaterIn(r, u)[i] <= LaterIn(r, t)[i]
  BY Dimensions DEF LaterIn, Slot
<1> QED
  BY <1>1, Dimensions, SumMonotone

(* What was admitted after t is a number; the later t, the smaller.        *)
LEMMA AdmittedSums ==
    ASSUME NEW a \in [Seconds -> Nat], NEW t \in Int
    PROVE  /\ \A s \in Seconds : LaterAdmitted(a, t)[s] \in Nat
           /\ SumFunctionOnSet(LaterAdmitted(a, t), Seconds) \in Nat
<1>1. \A s \in Seconds : LaterAdmitted(a, t)[s] \in Nat
  BY DEF LaterAdmitted
<1> QED
  BY <1>1, Dimensions, SumIsNat

(* What the window of the ceiling holds, in the terms of the invariant. *)
LEMMA WindowHolds ==
    ASSUME TimeOK, Typed, Past, NEW u \in Int, u >= elapsed
    PROVE  Window_!AdmittedUpTo(u) = After(u - Slots)
<1> DEFINE P == {s \in Seconds : u - Slots < s /\ s <= u}
           f == LaterAdmitted(admitted, u - Slots)
<1>1. Window_!AdmittedUpTo(u) = SumFunctionOnSet(admitted, P)
  <2>1. Window_!AdmittedUpTo(u) =
          SumFunctionOnSet(admitted, {s \in Seconds : u - (Window + 1) < s /\ s <= u})
    BY DEF Window_!AdmittedUpTo, Window_!Seconds, Seconds, Window_!SumFunctionOnSet,
           Window_!FoldFunctionOnSet, Window_!MapThenFoldSet, SumFunctionOnSet,
           FoldFunctionOnSet, MapThenFoldSet
  <2>2. P = {s \in Seconds : u - (Window + 1) < s /\ s <= u}
    BY Dimensions
  <2> QED
    BY <2>1, <2>2
<1>2. /\ \A s \in Seconds : f[s] \in Nat
      /\ IsFiniteSet(P) /\ P \in SUBSET Seconds
  <2>1. admitted \in [Seconds -> Nat] /\ u - Slots \in Int
    BY Dimensions DEF Typed
  <2>2. P \in SUBSET Seconds
    OBVIOUS
  <2> QED
    BY <2>1, <2>2, AdmittedSums, Dimensions, FS_Subset
<1>3. \A s \in P : f[s] = admitted[s]
  BY Dimensions DEF LaterAdmitted
<1>4. \A s \in Seconds \ P : f[s] = 0
  <2> SUFFICES ASSUME NEW s \in Seconds \ P, s > u - Slots
               PROVE  admitted[s] = 0
    BY DEF LaterAdmitted
  <2>1. s \in Int /\ elapsed \in Int /\ Slots \in Int /\ admitted[s] \in Nat
    BY Dimensions, ClockFacts DEF Typed
  <2>2. s > elapsed
    BY <2>1
  <2> QED
    BY <2>1, <2>2 DEF Past
<1>5. SumFunctionOnSet(f, P) = SumFunctionOnSet(admitted, P)
  <2> HIDE DEF f, P
  <2>1. \A s \in P : f[s] \in Nat /\ f[s] = admitted[s]
    BY <1>2, <1>3
  <2> QED
    BY <1>2, <2>1, SumEqual
<1>6. SumFunctionOnSet(f, P) = SumFunctionOnSet(f, Seconds)
  BY <1>2, <1>4, Dimensions, SumOfPart
<1> QED
  BY <1>1, <1>5, <1>6 DEF After

---------------------------------------------------------------------------
(* The script *)

(* A slot is fresh if it is labelled with a second of the window, and empty *)
(* for the script otherwise.                                               *)
LEMMA FreshFacts ==
    ASSUME TimeOK, RingOK, NEW i \in SlotIds
    PROVE  /\ Fresh(i) \in Slot
           /\ Fresh(i).count = LaterIn(ring, clock - Slots)[i]
           /\ Fresh(i).count > 0 => Fresh(i) = ring[i] /\ ring[i].label > clock - Slots
           /\ Fresh(i).label = ring[i].label \/ Fresh(i) = EmptySlot
<1>1. /\ ring[i] \in Slot /\ ring[i].label \in Int /\ ring[i].count \in Nat
      /\ EmptySlot \in Slot /\ EmptySlot.count = 0
  BY Dimensions DEF RingOK, Slot, EmptySlot
<1>2. LaterIn(ring, clock - Slots)[i] =
         IF ring[i].label > clock - Slots THEN ring[i].count ELSE 0
  BY DEF LaterIn
<1> QED
  BY <1>1, <1>2, ClockFacts, Dimensions DEF Fresh

(* The script's total is what the ring holds of the last Slots seconds.    *)
LEMMA TotalIsRecent ==
    ASSUME TimeOK, RingOK
    PROVE  /\ Total = InRing(clock - Slots) /\ Total \in Nat
           /\ DOMAIN ring = SlotIds
<1>1. DOMAIN ring = SlotIds
  BY DEF RingOK
<1>2. [i \in SlotIds |-> Fresh(i).count] = LaterIn(ring, clock - Slots)
  BY FreshFacts DEF LaterIn
<1>3. Total = SumFunctionOnSet(LaterIn(ring, clock - Slots), SlotIds)
  BY <1>1, <1>2 DEF Total, SumFunction
<1>4. clock - Slots \in Int
  BY ClockFacts, Dimensions
<1> QED
  BY <1>1, <1>3, <1>4, RingSums DEF InRing, RingOK

(* Counting a request clears the slots that are too old, reuses the slot of *)
(* this second if an older one is in it, and adds 1 to what the ring holds *)
(* after any earlier second.                                               *)
LEMMA CountedAddsOne ==
    ASSUME TimeOK, RingOK, ~IsInvalid, Total < Limit, ring' = Counted, UNCHANGED clock
    PROVE  /\ RingOK'
           /\ \A i \in SlotIds : ring'[i].label <= clock
           /\ \A t \in Int : t >= clock - Slots =>
                 InRing(t)' = InRing(t) + IF t < clock THEN 1 ELSE 0
<1> DEFINE n == clock % Slots
           old == IF Fresh(n).label = clock THEN Fresh(n).count ELSE 0
<1>1. n \in SlotIds /\ clock \in Int /\ clock \in Seconds
  BY ClockFacts, Dimensions, Division
<1>2. /\ \A i \in SlotIds \ {n} : ring'[i] = Fresh(i)
      /\ ring'[n] = [label |-> clock, count |-> 1 + old]
      /\ DOMAIN ring' = SlotIds
  BY <1>1, TotalIsRecent DEF Counted
<1>3. \A i \in SlotIds : ring[i].label \in Int /\ ring[i].count \in Nat /\ ring[i].label <= clock
  BY Dimensions, TotalIsRecent, ClockFacts DEF IsInvalid, RingOK, Slot
<1>4. Fresh(n).count = old
  <2>1. CASE Fresh(n).count > 0
    <3>1. /\ ring[n].label % Slots = n /\ ring[n].label > clock - Slots
          /\ Fresh(n) = ring[n]
      BY <1>1, <2>1, FreshFacts DEF RingOK
    <3>2. ring[n].label = clock
      BY <1>1, <1>3, <3>1, SameSlot
    <3> QED
      BY <3>1, <3>2
  <2>2. CASE ~(Fresh(n).count > 0)
    BY <1>1, <2>2, FreshFacts, Dimensions DEF Slot
  <2> QED
    BY <2>1, <2>2
<1>5. /\ Fresh(n).count \in Nat /\ old \in Nat
      /\ Fresh(n).count = LaterIn(ring, clock - Slots)[n]
  BY <1>1, <1>4, FreshFacts, Dimensions DEF Slot
<1>6. old <= Total
  <2>1. LaterIn(ring, clock - Slots)[n] <= InRing(clock - Slots)
    <3>1. \A i \in SlotIds : LaterIn(ring, clock - Slots)[i] \in Nat
      BY <1>1, RingSums, Dimensions DEF RingOK
    <3> QED
      BY <1>1, <3>1, SummandFits, Dimensions DEF InRing
  <2> QED
    BY <1>4, <1>5, <2>1, TotalIsRecent
<1>7. ring' \in [SlotIds -> Slot]
  <2>1. ring'[n] \in Slot
    BY <1>1, <1>2, <1>5, <1>6, TotalIsRecent, Dimensions DEF Slot
  <2>2. ring' = [i \in SlotIds |-> ring'[i]]
    BY <1>2, TotalIsRecent, <1>1 DEF Counted
  <2>3. \A i \in SlotIds : ring'[i] \in Slot
    BY <1>2, <2>1, FreshFacts
  <2> QED
    BY <2>2, <2>3
<1> HIDE DEF n, old
<1>8. \A i \in SlotIds : /\ ring'[i].label \in Int /\ ring'[i].count \in Nat
                         /\ ring'[i].label <= clock
                         /\ ring'[i].count > 0 => /\ ring'[i].label > clock - Slots
                                                  /\ ring'[i].label % Slots = i
  <2>1. ASSUME NEW i \in SlotIds \ {n}
        PROVE  /\ ring'[i].label \in Int /\ ring'[i].count \in Nat
               /\ ring'[i].label <= clock
               /\ ring'[i].count > 0 => /\ ring'[i].label > clock - Slots
                                        /\ ring'[i].label % Slots = i
    <3>1. ring'[i] = Fresh(i) /\ EmptySlot.label = -1 /\ EmptySlot.count = 0
      BY <1>2 DEF EmptySlot
    <3> QED
      <4>1. /\ Fresh(i).label \in Int /\ Fresh(i).count \in Nat
            /\ Fresh(i).count > 0 => Fresh(i) = ring[i] /\ ring[i].label > clock - Slots
            /\ Fresh(i).label = ring[i].label \/ Fresh(i) = EmptySlot
        BY FreshFacts, Dimensions DEF Slot
      <4>2. /\ ring[i].label <= clock /\ clock >= 0
            /\ ring[i].count > 0 => ring[i].label % Slots = i
        BY <1>1, <1>3, Dimensions DEF RingOK
      <4>3. Fresh(i).label <= clock
        BY <1>1, <3>1, <4>1, <4>2
      <4> QED
        BY <3>1, <4>1, <4>2, <4>3
  <2>2. /\ ring'[n].label = clock /\ ring'[n].count \in Nat /\ clock > clock - Slots
        /\ clock % Slots = n
    BY <1>1, <1>2, <1>5, Dimensions DEF n
  <2> QED
    BY <1>1, <2>1, <2>2
<1>9. ASSUME NEW t \in Int, t >= clock - Slots
      PROVE  InRing(t)' = InRing(t) + IF t < clock THEN 1 ELSE 0
  <2> DEFINE f == LaterIn(ring, t)
             g == LaterIn(ring', t)
  <2>1. \A i \in SlotIds : f[i] \in Nat /\ g[i] \in Nat
    BY <1>7, RingSums DEF RingOK
  <2>2. \A i \in SlotIds \ {n} : f[i] = g[i]
    <3> SUFFICES ASSUME NEW i \in SlotIds \ {n} PROVE f[i] = g[i]
      OBVIOUS
    <3>1. ring'[i] = Fresh(i) /\ ring[i].label \in Int /\ ring[i].count \in Nat
      BY <1>2, <1>3
    <3>2. f[i] = (IF ring[i].label > t THEN ring[i].count ELSE 0)
          /\ g[i] = (IF ring'[i].label > t THEN ring'[i].count ELSE 0)
      BY DEF LaterIn
    <3>3. LaterIn(ring, clock - Slots)[i] =
            IF ring[i].label > clock - Slots THEN ring[i].count ELSE 0
      BY DEF LaterIn
    <3>4. /\ Fresh(i).count = LaterIn(ring, clock - Slots)[i]
          /\ Fresh(i).count > 0 => Fresh(i) = ring[i]
      BY FreshFacts
    <3> QED
      BY <1>1, <1>9, <3>1, <3>2, <3>3, <3>4, Dimensions
  <2>3. g[n] = (IF clock > t THEN 1 + old ELSE 0)
    BY <1>1, <1>2 DEF LaterIn
  <2>4. f[n] = (IF clock > t THEN old ELSE 0)
    <3>1. f[n] = IF ring[n].label > t THEN ring[n].count ELSE 0
      BY <1>1 DEF LaterIn
    <3>2. LaterIn(ring, clock - Slots)[n] =
            IF ring[n].label > clock - Slots THEN ring[n].count ELSE 0
      BY <1>1 DEF LaterIn
    <3>3. ring[n].label > clock - Slots /\ ring[n].count > 0 => ring[n].label = clock
      BY <1>1, <1>3, SameSlot DEF RingOK, n
    <3> QED
      BY <1>1, <1>3, <1>4, <1>5, <1>9, <3>1, <3>2, <3>3, Dimensions
  <2> HIDE DEF f, g
  <2>5. SumFunctionOnSet(g, SlotIds) = SumFunctionOnSet(f, SlotIds) + g[n] - f[n]
    <3>1. IsFiniteSet(SlotIds) /\ n \in SlotIds
      BY <1>1, Dimensions
    <3> QED
      BY <2>1, <2>2, <3>1, SumChangesAt
  <2>6. SumFunctionOnSet(f, SlotIds) \in Nat
    BY RingSums DEF RingOK, f
  <2>7. SumFunctionOnSet(g, SlotIds) = SumFunctionOnSet(f, SlotIds) + IF t < clock THEN 1 ELSE 0
    BY <1>1, <1>5, <2>3, <2>4, <2>5, <2>6
  <2> QED
    BY <2>7 DEF InRing, f, g
<1>10. SumFunctionOnSet(CountOf(ring'), SlotIds) <= Limit
  <2>1. CountOf(ring') = LaterIn(ring', clock - Slots)
    BY <1>1, <1>8, Dimensions DEF CountOf, LaterIn
  <2>2. InRing(clock - Slots)' = InRing(clock - Slots) + 1
    BY <1>1, <1>9, Dimensions
  <2> QED
    BY <2>1, <2>2, TotalIsRecent, Dimensions DEF InRing
<1> QED
  BY <1>7, <1>8, <1>9, <1>10 DEF RingOK

(* A request admitted now is one more after any earlier second.            *)
LEMMA AdmittedAddsOne ==
    ASSUME TimeOK, Typed, admitted' = [admitted EXCEPT ![elapsed] = @ + 1]
    PROVE  /\ admitted' \in [Seconds -> Nat]
           /\ \A t \in Int : After(t)' = After(t) + IF t < elapsed THEN 1 ELSE 0
<1>1. admitted \in [Seconds -> Nat] /\ elapsed \in Seconds /\ elapsed \in Int
  BY ClockFacts DEF Typed
<1>2. /\ admitted' \in [Seconds -> Nat] /\ admitted'[elapsed] = admitted[elapsed] + 1
      /\ \A s \in Seconds \ {elapsed} : admitted'[s] = admitted[s]
  BY <1>1
<1>3. ASSUME NEW t \in Int
      PROVE  After(t)' = After(t) + IF t < elapsed THEN 1 ELSE 0
  <2> DEFINE f == LaterAdmitted(admitted, t)
             g == LaterAdmitted(admitted', t)
  <2>1. \A s \in Seconds : f[s] \in Nat /\ g[s] \in Nat
    BY <1>1, <1>2, AdmittedSums
  <2>2. \A s \in Seconds \ {elapsed} : f[s] = g[s]
    BY <1>2 DEF LaterAdmitted
  <2>3. /\ f[elapsed] = (IF elapsed > t THEN admitted[elapsed] ELSE 0)
        /\ g[elapsed] = (IF elapsed > t THEN admitted[elapsed] + 1 ELSE 0)
    BY <1>1, <1>2 DEF LaterAdmitted
  <2>4. SumFunctionOnSet(f, Seconds) \in Nat
    BY <1>1, AdmittedSums
  <2> HIDE DEF f, g
  <2>5. SumFunctionOnSet(g, Seconds) = SumFunctionOnSet(f, Seconds) + g[elapsed] - f[elapsed]
    <3>1. IsFiniteSet(Seconds)
      BY Dimensions
    <3>2. ASSUME NEW y \in Seconds, \A s \in Seconds \ {y} : f[s] = g[s]
          PROVE  SumFunctionOnSet(g, Seconds) = SumFunctionOnSet(f, Seconds) + g[y] - f[y]
      BY <2>1, <3>1, <3>2, SumChangesAt
    <3> QED
      BY <1>1, <2>2, <3>2
  <2>6. admitted[elapsed] \in Nat
    BY <1>1
  <2>7. SumFunctionOnSet(g, Seconds) = SumFunctionOnSet(f, Seconds) + IF t < elapsed THEN 1 ELSE 0
    BY <1>1, <2>3, <2>4, <2>5, <2>6
  <2> QED
    BY <2>7 DEF After, f, g
<1> QED
  BY <1>2, <1>3

(* The window of real time holds what the ring counts as fresh. *)
LEMMA WindowIsTotal ==
    ASSUME WInv
    PROVE  /\ Window_!AdmittedUpTo(elapsed) \in Nat
           /\ Window_!AdmittedUpTo(elapsed) <= Total
           /\ back = 0 => Window_!AdmittedUpTo(elapsed) = Total
<1>1. /\ elapsed \in Int /\ clock \in Int /\ elapsed - Slots \in Int /\ clock - Slots \in Int
      /\ elapsed - Slots = (clock - Slots) + back
  BY ClockFacts, Dimensions DEF WInv
<1>2. Window_!AdmittedUpTo(elapsed) = After(elapsed - Slots)
  BY <1>1, WindowHolds DEF WInv
<1>3. Total = InRing(clock - Slots) /\ Total \in Nat
  BY TotalIsRecent DEF WInv
<1>4. After(elapsed - Slots) \in Nat
  BY <1>1, AdmittedSums DEF WInv, Typed, After
<1>5. /\ After((clock - Slots) + back) <= InRing(clock - Slots)
      /\ back = 0 => InRing(clock - Slots) <= After((clock - Slots) + back)
  BY <1>1 DEF WInv, Covers
<1> QED
  BY <1>1, <1>2, <1>3, <1>4, <1>5

(* A ring is found invalid only after the clock was set back.              *)
LEMMA ValidUnlessSetBack ==
    ASSUME WInv, back = 0
    PROVE  ~IsInvalid
<1>1. /\ \A i \in SlotIds : ring[i].label \in Int /\ ring[i].label <= clock
      /\ expireAt \in Nat /\ clock \in Int /\ expireAt <= clock + Slots
      /\ DOMAIN ring = SlotIds
  BY ClockFacts, Dimensions, RingSums, TotalIsRecent DEF WInv, InOrder, RingOK, Typed, Slot
<1>2. Total <= Limit /\ Total \in Nat
  <2>1. clock - Slots \in Int
    BY <1>1, Dimensions
  <2>2. /\ InRing(clock - Slots) <= SumFunctionOnSet(CountOf(ring), SlotIds)
        /\ InRing(clock - Slots) \in Nat /\ SumFunctionOnSet(CountOf(ring), SlotIds) \in Nat
    BY <2>1, RingSums DEF WInv, RingOK, InRing
  <2> QED
    BY <2>2, TotalIsRecent, Dimensions DEF WInv, RingOK
<1> QED
  BY <1>1, <1>2, Dimensions DEF IsInvalid

(* The script keeps the invariant, and does what a sliding window does.    *)
LEMMA ScriptFacts ==
    ASSUME WInv, RunScript, UNCHANGED <<elapsed, back>>
    PROVE  /\ TimeOK' /\ RingOK' /\ Past' /\ Covers' /\ InOrder'
           /\ expireAt' \in Nat /\ admitted' \in [Seconds -> Nat]
           /\ [Window_!Next]_(Window_!wvars)
<1>1. /\ clock' = clock /\ clock \in Int /\ clock \in Seconds /\ elapsed \in Int /\ back \in Nat
      /\ elapsed = clock + back /\ TimeOK'
      /\ expireAt \in Nat /\ admitted \in [Seconds -> Nat]
      /\ Slots \in Nat \ {0} /\ clock + Slots \in Nat /\ clock + Slots # 0
  BY ClockFacts, Dimensions DEF WInv, TimeOK, clock, Typed
<1>2. CASE Verdict = "allowed"
  <2>1. /\ ~IsInvalid /\ Total < Limit
    BY <1>2, Dimensions, TotalIsRecent DEF Verdict, WInv
  <2>2. /\ ring' = Counted /\ expireAt' = clock + Slots /\ decision' = "allowed"
        /\ admitted' = [admitted EXCEPT ![elapsed] = @ + 1]
    BY <1>2 DEF RunScript
  <2>3. /\ RingOK' /\ \A i \in SlotIds : ring'[i].label <= clock
        /\ \A t \in Int : t >= clock - Slots =>
              InRing(t)' = InRing(t) + IF t < clock THEN 1 ELSE 0
    BY <1>1, <2>1, <2>2, CountedAddsOne DEF WInv
  <2>4. /\ admitted' \in [Seconds -> Nat]
        /\ \A t \in Int : After(t)' = After(t) + IF t < elapsed THEN 1 ELSE 0
    BY <2>2, AdmittedAddsOne DEF WInv
  <2>5. Past'
    BY <1>1, <2>2 DEF WInv, Past
  <2>6. Covers'
    <3> SUFFICES ASSUME NEW t \in Int, t >= clock - Slots
                 PROVE  /\ After(t + back)' <= InRing(t)'
                        /\ back = 0 => InRing(t)' <= After(t + back)'
      BY <1>1 DEF Covers
    <3>1. /\ After(t + back) <= InRing(t)
          /\ back = 0 => InRing(t) <= After(t + back)
      BY DEF WInv, Covers
    <3>2. t + back \in Int /\ (t + back < elapsed <=> t < clock)
      BY <1>1
    <3>3. After(t + back) \in Nat /\ InRing(t) \in Nat
      BY <1>1, <3>2, AdmittedSums, RingSums DEF After, InRing, WInv, RingOK
    <3>4. InRing(t)' = InRing(t) + IF t < clock THEN 1 ELSE 0
      BY <2>3
    <3>5. After(t + back)' = After(t + back) + IF t < clock THEN 1 ELSE 0
      <4>1. After(t + back)' = SumFunctionOnSet(LaterAdmitted(admitted', t + back), Seconds)
        BY DEF After
      <4>2. \A u \in Int : SumFunctionOnSet(LaterAdmitted(admitted', u), Seconds)
                             = After(u) + IF u < elapsed THEN 1 ELSE 0
        BY <2>4 DEF After
      <4> QED
        BY <3>2, <4>1, <4>2
    <3> QED
      BY <3>1, <3>3, <3>4, <3>5
  <2>7. InOrder'
    BY <1>1, <2>2, <2>3 DEF InOrder
  <2>8. Window_!Admit
    <3>1. Window_!AdmittedUpTo(elapsed) < Limit
      BY <2>1, WindowIsTotal, TotalIsRecent, Dimensions DEF WInv
    <3> QED
      BY <2>2, <3>1 DEF Window_!Admit
  <2> QED
    BY <1>1, <2>2, <2>3, <2>4, <2>5, <2>6, <2>7, <2>8 DEF Window_!Next
<1>3. CASE Verdict # "allowed"
  <2>1. /\ UNCHANGED <<ring, expireAt, admitted>>
        /\ decision' = Verdict
    BY <1>3 DEF RunScript
  <2>2. RingOK' /\ Past' /\ Covers' /\ InOrder'
    BY <1>1, <2>1 DEF WInv, RingOK, Past, Covers, InOrder, After, InRing
  <2>3. Verdict \in {"invalid_state", "rate_limited"}
    BY <1>3 DEF Verdict
  <2>4. CASE Verdict = "invalid_state"
    <3>1. back > 0
      BY <1>1, <2>4, ValidUnlessSetBack DEF Verdict
    <3> QED
      BY <1>1, <2>1, <2>2, <2>4, <3>1 DEF Window_!Next, Window_!OutOfOrder
  <2>5. CASE Verdict = "rate_limited"
    <3>1. Total >= Limit
      BY <2>5 DEF Verdict
    <3>2. Window_!AdmittedUpTo(elapsed) >= Limit \/ back > 0
      BY <1>1, <3>1, WindowIsTotal
    <3> QED
      BY <1>1, <2>1, <2>2, <2>5, <3>2 DEF Window_!Next, Window_!Refuse
  <2> QED
    BY <2>3, <2>4, <2>5
<1> QED
  BY <1>2, <1>3

---------------------------------------------------------------------------
(* Retry-After *)

(* The seconds the script counts.                                          *)
Labels == {Fresh(i).label : i \in {k \in DOMAIN ring : Fresh(k).count > 0}}

(* When the script refuses, it counts some second, and Retry-After is for  *)
(* the oldest of them.                                                     *)
LEMMA OldestLabel ==
    ASSUME WInv, Verdict = "rate_limited"
    PROVE  \E o \in Labels :
              /\ \A l \in Labels : o <= l
              /\ o \in Int /\ clock - Slots < o /\ o <= clock
              /\ RetrySeconds = IF o + Slots - clock > Window THEN Window
                                ELSE o + Slots - clock
<1>1. /\ DOMAIN ring = SlotIds /\ Total = InRing(clock - Slots) /\ Total >= Limit
      /\ \A i \in SlotIds : ring[i].label <= clock
      /\ clock \in Int /\ clock - Slots \in Int
  <2>1. ~IsInvalid /\ Total >= Limit
    BY DEF Verdict
  <2>2. \A i \in SlotIds : ring[i].label \in Int
    BY Dimensions DEF WInv, RingOK, Slot
  <2>3. DOMAIN ring = SlotIds /\ Total = InRing(clock - Slots)
    BY TotalIsRecent DEF WInv
  <2>4. clock \in Int /\ clock - Slots \in Int
    BY ClockFacts, Dimensions DEF WInv
  <2> QED
    BY <2>1, <2>2, <2>3, <2>4 DEF IsInvalid
<1>2. \A l \in Labels : /\ l \in Int /\ l + 1 \in Nat
                        /\ clock - Slots < l /\ l <= clock
  <2> SUFFICES ASSUME NEW i \in SlotIds, Fresh(i).count > 0
               PROVE  /\ Fresh(i).label \in Int /\ Fresh(i).label + 1 \in Nat
                      /\ clock - Slots < Fresh(i).label /\ Fresh(i).label <= clock
    BY <1>1 DEF Labels
  <2> QED
    BY <1>1, FreshFacts, Dimensions DEF WInv, Slot
<1>3. Labels # {}
  <2> SUFFICES ASSUME \A i \in SlotIds : ~(Fresh(i).count > 0)
               PROVE  FALSE
    BY <1>1 DEF Labels
  <2>1. \A i \in SlotIds : LaterIn(ring, clock - Slots)[i] = 0
    BY FreshFacts, Dimensions DEF WInv, Slot
  <2>2. InRing(clock - Slots) = 0
    BY <2>1, SumOfZeros, Dimensions DEF InRing
  <2> QED
    BY <1>1, <2>2, Dimensions
<1>4. PICK n \in {l + 1 : l \in Labels} : \A m \in {l + 1 : l \in Labels} : n <= m
  <2>1. {l + 1 : l \in Labels} \subseteq Nat /\ {l + 1 : l \in Labels} # {}
    BY <1>2, <1>3
  <2> QED
    BY <2>1, LeastNumber
<1>5. PICK p \in Labels : n = p + 1
  BY <1>4
<1>6. ASSUME NEW l \in Labels
      PROVE  p <= l
  <2>1. n <= l + 1
    BY <1>4
  <2> QED
    BY <1>2, <1>5, <2>1
<1> DEFINE o == CHOOSE l \in Labels : \A m \in Labels : l <= m
<1>7. o \in Labels /\ \A l \in Labels : o <= l
  BY <1>6
<1>8. RetrySeconds = IF o + Slots - clock > Window THEN Window ELSE o + Slots - clock
  BY DEF RetrySeconds, Labels
<1> HIDE DEF o
<1> QED
  BY <1>2, <1>7, <1>8

(* Before the oldest second has left the window it is full; once it has,   *)
(* there is room.                                                          *)
LEMMA RetryFacts ==
    ASSUME WInv, Verdict = "rate_limited"
    PROVE  /\ RetrySeconds \in 1..Window
           /\ back = 0 =>
                /\ Window_!AdmittedUpTo(elapsed + RetrySeconds - 1) >= Limit
                /\ Window_!AdmittedUpTo(elapsed + RetrySeconds + 1) < Limit
<1> DEFINE r == RetrySeconds
<1>1. PICK o \in Labels :
              /\ \A l \in Labels : o <= l
              /\ o \in Int /\ clock - Slots < o /\ o <= clock
              /\ r = IF o + Slots - clock > Window THEN Window
                     ELSE o + Slots - clock
  BY OldestLabel
<1> HIDE DEF r
<1>2. /\ clock \in Int /\ Slots \in Nat /\ Window \in Nat /\ Window >= 1 /\ Slots = Window + 1
      /\ elapsed \in Int /\ back \in Nat /\ elapsed = clock + back /\ Limit \in Nat
      /\ IsFiniteSet(SlotIds)
  BY ClockFacts, Dimensions DEF WInv
<1>3. /\ r \in 1..Window /\ clock + r - Slots \in Int /\ clock + (r - 1) - Slots < o
      /\ clock + (r + 1) - Slots >= o
  BY <1>1, <1>2
<1>4. /\ Total >= Limit /\ Total <= Limit /\ Total = InRing(clock - Slots) /\ Total \in Nat
  BY TotalIsRecent, Dimensions DEF Verdict, IsInvalid, WInv
<1>5. \A i \in SlotIds : /\ ring[i].label \in Int /\ ring[i].count \in Nat
                         /\ ring[i].label > clock - Slots /\ ring[i].count > 0 =>
                               ring[i].label \in Labels /\ o <= ring[i].label
  <2> SUFFICES ASSUME NEW i \in SlotIds
               PROVE  /\ ring[i].label \in Int /\ ring[i].count \in Nat
                      /\ ring[i].label > clock - Slots /\ ring[i].count > 0 =>
                               ring[i].label \in Labels /\ o <= ring[i].label
    OBVIOUS
  <2>1. ring[i].label \in Int /\ ring[i].count \in Nat
    BY Dimensions DEF WInv, RingOK, Slot
  <2>2. ASSUME ring[i].label > clock - Slots, ring[i].count > 0
        PROVE  ring[i].label \in Labels
    <3>1. Fresh(i) = ring[i]
      BY <2>1, <2>2, <1>2 DEF Fresh
    <3> QED
      BY <2>2, <3>1, TotalIsRecent DEF Labels, WInv
  <2> QED
    BY <1>1, <2>1, <2>2
<1>6. ASSUME back = 0
      PROVE  Window_!AdmittedUpTo(elapsed + r - 1) >= Limit
  <2> DEFINE u == clock + (r - 1) - Slots
  <2>1. u \in Int /\ u >= clock - Slots /\ u < o
    BY <1>2, <1>3
  <2>2. Window_!AdmittedUpTo(elapsed + r - 1) = After(u)
    <3>1. /\ elapsed + r - 1 \in Int /\ elapsed + r - 1 >= elapsed
          /\ (elapsed + r - 1) - Slots = u
      BY <1>2, <1>3, <1>6
    <3> QED
      BY <3>1, WindowHolds DEF WInv
  <2>3. LaterIn(ring, u) = LaterIn(ring, clock - Slots)
    <3>1. \A i \in SlotIds :
             (IF ring[i].label > u THEN ring[i].count ELSE 0)
               = (IF ring[i].label > clock - Slots THEN ring[i].count ELSE 0)
      <4> HIDE DEF u
      <4> QED
        BY <1>1, <1>2, <1>5, <2>1
    <3> QED
      BY <3>1 DEF LaterIn
  <2>4. InRing(u) = Total
    BY <1>4, <2>3 DEF InRing
  <2> HIDE DEF u
  <2>5. u + back = u
    BY <1>6, <2>1
  <2>6. InRing(u) <= After(u) /\ After(u) \in Nat
    BY <1>6, <2>1, <2>5, AdmittedSums DEF WInv, Covers, Typed, After
  <2> QED
    BY <1>2, <1>4, <2>2, <2>4, <2>6
<1>7. ASSUME back = 0
      PROVE  Window_!AdmittedUpTo(elapsed + r + 1) < Limit
  <2> DEFINE u == clock + (r + 1) - Slots
             f == LaterIn(ring, clock - Slots)
  <2>1. u \in Int /\ u >= clock - Slots /\ u >= o
    BY <1>2, <1>3
  <2>2. Window_!AdmittedUpTo(elapsed + r + 1) = After(u)
    <3>1. /\ elapsed + r + 1 \in Int /\ elapsed + r + 1 >= elapsed
          /\ (elapsed + r + 1) - Slots = u
      BY <1>2, <1>3, <1>7
    <3> QED
      BY <3>1, WindowHolds DEF WInv
  <2> HIDE DEF u
  <2>3. PICK i \in SlotIds : ring[i].label = o /\ ring[i].count > 0 /\ f[i] = ring[i].count
    <3>1. PICK i \in SlotIds : Fresh(i).count > 0 /\ Fresh(i).label = o
      BY TotalIsRecent DEF Labels, WInv
    <3>2. Fresh(i) = ring[i] /\ Fresh(i).count = f[i]
      BY <3>1, FreshFacts DEF WInv
    <3> QED
      BY <3>1, <3>2
  <2> DEFINE g == [j \in SlotIds |-> IF j = i THEN 0 ELSE f[j]]
  <2>4. \A j \in SlotIds : /\ f[j] \in Nat /\ g[j] \in Nat /\ LaterIn(ring, u)[j] \in Nat
                           /\ LaterIn(ring, u)[j] <= g[j]
    <3>1. \A j \in SlotIds : f[j] \in Nat /\ LaterIn(ring, u)[j] \in Nat
      BY <1>2, <2>1, RingSums DEF WInv, RingOK
    <3>2. \A j \in SlotIds :
             /\ f[j] = (IF ring[j].label > clock - Slots THEN ring[j].count ELSE 0)
             /\ LaterIn(ring, u)[j] = (IF ring[j].label > u THEN ring[j].count ELSE 0)
      BY DEF LaterIn
    <3> HIDE DEF f
    <3>3. \A j \in SlotIds : g[j] = IF j = i THEN 0 ELSE f[j]
      OBVIOUS
    <3> QED
      BY <1>1, <1>2, <1>5, <2>1, <2>3, <3>1, <3>2, <3>3
  <2>5. \A j \in SlotIds \ {i} : f[j] = g[j]
    OBVIOUS
  <2>6. g[i] = 0
    OBVIOUS
  <2>7. SumFunctionOnSet(f, SlotIds) = Total
    BY <1>4 DEF InRing
  <2> HIDE DEF f, g
  <2>8. SumFunctionOnSet(g, SlotIds) = Total + g[i] - f[i]
    BY <1>2, <2>4, <2>5, <2>7, SumChangesAt
  <2>9. InRing(u) <= SumFunctionOnSet(g, SlotIds)
    BY <1>2, <2>4, SumMonotone DEF InRing
  <2>10. u + back = u
    BY <1>7, <2>1
  <2>11. After(u) <= InRing(u) /\ After(u) \in Nat /\ InRing(u) \in Nat
    BY <2>1, <2>10, AdmittedSums, RingSums DEF WInv, Covers, Typed, RingOK, After, InRing
  <2>12. f[i] \in Nat /\ f[i] > 0
    BY <2>3, <2>4, <1>5
  <2> QED
    BY <1>2, <1>4, <2>2, <2>6, <2>8, <2>9, <2>11, <2>12
<1> QED
  BY <1>3, <1>6, <1>7 DEF r

---------------------------------------------------------------------------
(* Steps *)

(* The part of the invariant that is about time and the ring.              *)
Ring == TimeOK /\ RingOK /\ Past /\ Covers /\ InOrder
        /\ expireAt \in Nat /\ admitted \in [Seconds -> Nat]

(* A second passes: what the ring must still know only shrinks.            *)
LEMMA TickKeeps ==
    ASSUME WInv, Tick
    PROVE  Ring' /\ Window_!Tick
<1>1. /\ elapsed' = elapsed + 1 /\ clock' = clock + 1 /\ clock \in Int /\ elapsed \in Int
      /\ UNCHANGED <<back, ring, expireAt, admitted, decision>>
  BY ClockFacts DEF Tick, redis, history, clock, WInv
<1>2. TimeOK'
  BY <1>1, ClockFacts, Dimensions DEF Tick, TimeOK, WInv
<1>3. RingOK' /\ expireAt' \in Nat /\ admitted' \in [Seconds -> Nat]
  BY <1>1 DEF WInv, RingOK, Typed
<1>4. Past'
  BY <1>1, Dimensions DEF WInv, Past
<1>5. Covers'
  <2>1. \A t \in Int : t >= (clock + 1) - Slots => t >= clock - Slots
    BY <1>1, Dimensions
  <2> QED
    BY <1>1, <2>1 DEF WInv, Covers, After, InRing
<1>6. InOrder'
  <2>1. \A i \in SlotIds : ring[i].label \in Int
    BY Dimensions DEF WInv, RingOK, Slot
  <2> QED
    BY <1>1, <2>1, Dimensions DEF WInv, InOrder, Typed
<1> QED
  BY <1>1, <1>2, <1>3, <1>4, <1>5, <1>6 DEF Ring, Window_!Tick

(* The clock is set back: the same requests are later by the clock.        *)
LEMMA SetBackKeeps ==
    ASSUME WInv, ClockSetBack
    PROVE  Ring' /\ Window_!SetBack
<1>1. /\ back' = back + 1 /\ clock' = clock - 1 /\ clock \in Int /\ elapsed \in Int
      /\ back \in Nat
      /\ UNCHANGED <<elapsed, ring, expireAt, admitted, decision>>
  BY ClockFacts DEF ClockSetBack, redis, history, clock, WInv
<1>2. TimeOK'
  BY <1>1, ClockFacts, Dimensions DEF ClockSetBack, TimeOK, WInv
<1>3. RingOK' /\ expireAt' \in Nat /\ admitted' \in [Seconds -> Nat]
  BY <1>1 DEF WInv, RingOK, Typed
<1>4. Past'
  BY <1>1, Dimensions DEF WInv, Past, Typed
<1>5. Covers'
  <2> SUFFICES ASSUME NEW t \in Int, t >= (clock - 1) - Slots
               PROVE  SumFunctionOnSet(LaterAdmitted(admitted, t + (back + 1)), Seconds) <= InRing(t)
    BY <1>1 DEF Covers, After, InRing
  <2>1. /\ t + 1 \in Int /\ t + 1 >= clock - Slots /\ t <= t + 1
        /\ (t + 1) + back = t + (back + 1) /\ t + (back + 1) \in Int
    BY <1>1, Dimensions
  <2>2. After(t + (back + 1)) <= InRing(t + 1)
    BY <2>1 DEF WInv, Covers
  <2>3. InRing(t + 1) <= InRing(t)
    BY <2>1, RingShrinks DEF WInv, RingOK, InRing
  <2>4. InRing(t) \in Nat /\ InRing(t + 1) \in Nat /\ After(t + (back + 1)) \in Nat
    BY <2>1, RingSums, AdmittedSums DEF WInv, RingOK, Typed, InRing, After
  <2> QED
    BY <2>2, <2>3, <2>4 DEF After
<1>6. InOrder'
  BY <1>1 DEF InOrder
<1> QED
  BY <1>1, <1>2, <1>3, <1>4, <1>5, <1>6 DEF Ring, Window_!SetBack

(* The key expires: every request it held is out of the window by then.    *)
LEMMA ExpiryKeeps ==
    ASSUME WInv, KeyExpires
    PROVE  Ring' /\ UNCHANGED Window_!wvars
<1>1. /\ UNCHANGED <<elapsed, back, admitted, decision>> /\ clock' = clock
      /\ clock \in Int /\ elapsed \in Int /\ back \in Nat /\ elapsed = clock + back
      /\ expireAt \in Nat /\ expireAt # 0 /\ clock >= expireAt /\ ring' = EmptyRing /\ expireAt' = 0
      /\ clock >= 0
  BY ClockFacts, Dimensions DEF KeyExpires, history, clock, WInv, Typed
<1>2. /\ ring' \in [SlotIds -> Slot]
      /\ \A i \in SlotIds : ring'[i].label = -1 /\ ring'[i].count = 0
  BY <1>1, Dimensions DEF EmptyRing, EmptySlot, Slot, SlotIds
<1>3. RingOK'
  <2>1. \A i \in SlotIds : CountOf(ring')[i] = 0
    BY <1>2 DEF CountOf
  <2>2. SumFunctionOnSet(CountOf(ring'), SlotIds) = 0
    BY <2>1, SumOfZeros, Dimensions
  <2> QED
    BY <1>2, <2>2, Dimensions DEF RingOK
<1>4. Past' /\ TimeOK' /\ InOrder'
  BY <1>1, <1>2, Dimensions DEF WInv, Past, TimeOK, InOrder
<1>5. Covers'
  <2> SUFFICES ASSUME NEW t \in Int, t >= clock - Slots
               PROVE  /\ SumFunctionOnSet(LaterAdmitted(admitted, t + back), Seconds) = 0
                      /\ SumFunctionOnSet(LaterIn(ring', t), SlotIds) = 0
    BY <1>1 DEF Covers, After, InRing
  <2>1. \A s \in Seconds : LaterAdmitted(admitted, t + back)[s] = 0
    <3> SUFFICES ASSUME NEW s \in Seconds, s > t + back PROVE admitted[s] = 0
      BY DEF LaterAdmitted
    <3>1. admitted[s] > 0 => s <= expireAt - Slots + back
      BY <1>1 DEF WInv, Past
    <3>2. admitted[s] \in Nat /\ s \in Int
      BY Dimensions DEF WInv, Typed
    <3> QED
      BY <1>1, <3>1, <3>2, Dimensions
  <2>2. \A i \in SlotIds : LaterIn(ring', t)[i] = 0
    BY <1>2 DEF LaterIn
  <2> QED
    BY <2>1, <2>2, SumOfZeros, Dimensions
<1> QED
  BY <1>1, <1>3, <1>4, <1>5 DEF Ring, Window_!wvars, WInv, Typed

(* Every step keeps the ring and is a step of the sliding window, or none. *)
LEMMA WindowStep ==
    ASSUME WInv, [Next]_vars
    PROVE  Ring' /\ [Window_!Next]_(Window_!wvars)
<1>1. ASSUME UNCHANGED <<elapsed, back, ring, expireAt, admitted, decision>>
      PROVE  Ring' /\ UNCHANGED Window_!wvars
  <2>1. clock' = clock
    BY <1>1 DEF clock
  <2> QED
    BY <1>1, <2>1 DEF WInv, Ring, TimeOK, RingOK, Past, Covers, InOrder, Typed, After, InRing,
                      Window_!wvars
<1>2. ASSUME RunScript, UNCHANGED <<elapsed, back>>
      PROVE  Ring' /\ [Window_!Next]_(Window_!wvars)
  BY <1>2, ScriptFacts DEF Ring
<1>3. CASE Tick
  BY <1>3, TickKeeps DEF Window_!Next
<1>4. CASE ClockSetBack
  BY <1>4, SetBackKeeps DEF Window_!Next
<1>5. CASE KeyExpires
  BY <1>5, ExpiryKeeps
<1>6. CASE ScriptFlushed \/ UNCHANGED vars
  BY <1>1, <1>6 DEF ScriptFlushed, vars, redis, history
<1>7. ASSUME NEW c \in Commands, OrphanArrives(c) \/ \E w \in Workers : LateArrives(w, c)
      PROVE  Ring' /\ [Window_!Next]_(Window_!wvars)
  BY <1>1, <1>2, <1>7 DEF OrphanArrives, LateArrives, RunsUnheard, redis, history
<1>8. ASSUME NEW w \in Workers, EvalshaRuns(w) \/ EvalRuns(w)
      PROVE  Ring' /\ [Window_!Next]_(Window_!wvars)
  BY <1>1, <1>2, <1>8 DEF EvalshaRuns, EvalRuns, history
<1>9. ASSUME NEW w \in Workers,
             \/ Begin(w) \/ LoadSecrets(w) \/ AcquireRedis(w) \/ ClientResends(w)
             \/ TransportFails(w) \/ SendEval(w) \/ Receive(w) \/ Deadline(w) \/ Restart(w)
      PROVE  Ring' /\ [Window_!Next]_(Window_!wvars)
  BY <1>1, <1>9 DEF Begin, LoadSecrets, AcquireRedis, ClientResends, TransportFails, SendEval,
                    Receive, Deadline, Restart, redis, history
<1> QED
  BY <1>3, <1>4, <1>5, <1>6, <1>7, <1>8, <1>9 DEF Next

---------------------------------------------------------------------------
(* Types *)

(* What an instance knows of its secrets.                                  *)
Loaders == {"unread", "pair", "failed"}

(* A request written with a legal Retry-After.                             *)
LEMMA SetJobRetry ==
    ASSUME WInv, CInv, NEW w \in Workers, NEW j, j.retry \in 0..Window, SetJob(w, j)
    PROVE  \A v \in Workers : job'[v].retry \in 0..Window
  BY DEF WInv, Typed, CInv, SetJob

(* Every step keeps the types of the rest.                                 *)
LEMMA TypedStep ==
    ASSUME WInv, CInv, [Next]_vars
    PROVE  /\ scripted' \in BOOLEAN
           /\ loader' \in [Workers -> Loaders]
           /\ \A w \in Workers : job'[w].retry \in 0..Window
           /\ orphans' \in [Commands -> Nat]
           /\ failures' \in 0..MaxFailures
<1> DEFINE T == /\ scripted \in BOOLEAN
                /\ loader \in [Workers -> Loaders]
                /\ \A w \in Workers : job[w].retry \in 0..Window
                /\ orphans \in [Commands -> Nat]
                /\ failures \in 0..MaxFailures
<1>1. T /\ MaxFailures \in Nat
  BY Dimensions DEF WInv, Typed, Loaders
<1>2. Failing => failures' \in 0..MaxFailures
  BY <1>1 DEF Failing
<1>3. ASSUME NEW w \in Workers, NEW a, Answer(w, a)
      PROVE  \A v \in Workers : job'[v].retry \in 0..Window
  <2> DEFINE k == Left(job[w])
  <2>1. Shaped(k) /\ k.retry \in 0..Window
    BY <1>1, LeftFacts DEF CInv
  <2> HIDE DEF k
  <2> DEFINE now == [k EXCEPT !.pc = "idle", !.answer = a, !.reply = "none", !.retry = 0]
  <2>2. now.retry = 0
    BY <2>1 DEF Shaped
  <2>3. now.retry \in 0..Window
    BY <2>2, SizeAssumption
  <2> HIDE DEF now
  <2> QED
    BY <1>3, <2>3, SetJobRetry DEF Answer, k, now
<1>4. ASSUME NEW w \in Workers, Abandon(w) PROVE orphans' \in [Commands -> Nat]
  <2> DEFINE k == Left(job[w])
  <2>1. Shaped(k)
    BY <1>1, LeftFacts DEF CInv
  <2> HIDE DEF k
  <2>2. k.late \in [Commands -> Nat]
    BY <2>1 DEF Shaped
  <2>3. orphans' = [c \in Commands |-> orphans[c] + k.late[c]]
    BY <1>4 DEF Abandon, k
  <2> QED
    BY <1>1, <2>2, <2>3
<1>5. CASE Tick \/ ClockSetBack \/ KeyExpires \/ UNCHANGED vars
  BY <1>1, <1>5 DEF Tick, ClockSetBack, KeyExpires, vars, redis, history
<1>6. CASE ScriptFlushed
  BY <1>1, <1>2, <1>6 DEF ScriptFlushed
<1>7. ASSUME NEW c \in Commands, OrphanArrives(c) PROVE T'
  <2>1. orphans' \in [Commands -> Nat]
    BY <1>1, <1>7 DEF OrphanArrives
  <2>2. failures' \in 0..MaxFailures /\ scripted' \in BOOLEAN
    BY <1>1, <1>2, <1>7 DEF OrphanArrives, RunsUnheard, redis
  <2> QED
    BY <1>1, <1>7, <2>1, <2>2 DEF OrphanArrives
<1>10. ASSUME NEW w \in Workers, NEW c \in Commands, LateArrives(w, c) PROVE T'
  <2> DEFINE j == job[w]
             n == Taken(j)
  <2>1. Shaped(j) /\ j.retry \in 0..Window
    BY <1>1 DEF CInv, Counts
  <2>2. \A v \in Workers : job'[v].retry \in 0..Window
    <3> HIDE DEF n
    <3>1. /\ [j EXCEPT !.late[c] = @ - 1].retry \in 0..Window
          /\ [j EXCEPT !.late[c] = @ - 1, !.counted = n].retry \in 0..Window
          /\ [j EXCEPT !.resent = @ + 1, !.counted = n].retry \in 0..Window
      BY <2>1 DEF Shaped
    <3> QED
      BY <1>10, <3>1, SetJobRetry DEF LateArrives, n
  <2>3. failures' \in 0..MaxFailures /\ scripted' \in BOOLEAN
    BY <1>1, <1>2, <1>10 DEF LateArrives, RunsUnheard, redis
  <2> QED
    BY <1>1, <1>10, <2>2, <2>3 DEF LateArrives
<1>8. ASSUME NEW w \in Workers,
             \/ Begin(w) \/ LoadSecrets(w) \/ AcquireRedis(w) \/ EvalshaRuns(w) \/ EvalRuns(w)
             \/ ClientResends(w) \/ TransportFails(w) \/ SendEval(w) \/ Receive(w)
             \/ Deadline(w) \/ Restart(w)
      PROVE  T'
  <2> DEFINE j == job[w]
             Kept == \A v \in Workers : job'[v].retry \in 0..Window
  <2>1. Shaped(j) /\ j.retry \in 0..Window
    BY <1>1 DEF CInv, Counts
  <2>2. 0 \in 0..Window
    BY Dimensions
  <2>3. CASE Begin(w)
    <3>1. NewRequest.retry = 0 /\ [NewRequest EXCEPT !.pc = "idle"].retry = 0
          /\ [NewRequest EXCEPT !.pc = "idle", !.answer = "unavailable"].retry = 0
      BY DEF NewRequest
    <3>2. Kept
      BY <2>2, <2>3, <3>1, SetJobRetry DEF Begin
    <3> QED
      BY <1>1, <1>4, <2>3, <3>2 DEF Begin, redis
  <2>4. CASE LoadSecrets(w)
    <3>1. [j EXCEPT !.pc = "redis"].retry \in 0..Window
      BY <2>1 DEF Shaped
    <3>2. Kept
      BY <1>3, <2>4, <3>1, SetJobRetry DEF LoadSecrets
    <3> QED
      BY <1>1, <1>2, <2>4, <3>2 DEF LoadSecrets, redis, Loaders
  <2>5. CASE AcquireRedis(w)
    <3>1. [j EXCEPT !.pc = "evalsha"].retry \in 0..Window
      BY <2>1 DEF Shaped
    <3>2. Kept
      BY <1>3, <2>5, <3>1, SetJobRetry DEF AcquireRedis
    <3> QED
      BY <1>1, <1>2, <2>5, <3>2 DEF AcquireRedis, redis
  <2>6. CASE EvalshaRuns(w) \/ EvalRuns(w)
    <3>1. Result(j).retry = IF Verdict = "rate_limited" THEN RetrySeconds ELSE 0
      BY <2>1 DEF Result, Shaped
    <3>2. Result(j).retry \in 0..Window
      BY <2>2, <3>1, RetryFacts
    <3>3. [j EXCEPT !.reply = "noscript"].retry \in 0..Window
      BY <2>1 DEF Shaped
    <3>4. Kept
      BY <2>6, <3>2, <3>3, SetJobRetry DEF EvalshaRuns, EvalRuns
    <3> QED
      BY <1>1, <2>6, <3>4 DEF EvalshaRuns, EvalRuns
  <2>7. CASE ClientResends(w) \/ TransportFails(w)
    <3> DEFINE k == Left(j)
    <3>1. Shaped(k)
      BY <1>1, LeftFacts DEF CInv
    <3> HIDE DEF k
    <3>2. /\ [k EXCEPT !.reply = "error", !.retry = 0].retry \in 0..Window
          /\ [k EXCEPT !.reply = "none", !.retry = 0, !.resent = @ + 1].retry \in 0..Window
      BY <2>2, <3>1 DEF Shaped
    <3>3. Kept
      BY <2>7, <3>2, SetJobRetry DEF ClientResends, TransportFails, k
    <3> QED
      BY <1>1, <1>2, <2>7, <3>3 DEF ClientResends, TransportFails, redis
  <2>8. CASE SendEval(w)
    <3>1. [j EXCEPT !.pc = "eval", !.reply = "none"].retry \in 0..Window
      BY <2>1 DEF Shaped
    <3>2. Kept
      BY <2>8, <3>1, SetJobRetry DEF SendEval
    <3> QED
      BY <1>1, <2>8, <3>2 DEF SendEval, redis
  <2>9. CASE Receive(w)
    BY <1>1, <1>3, <2>9 DEF Receive, redis
  <2>10. CASE Deadline(w)
    BY <1>1, <1>2, <1>3, <2>10 DEF Deadline, redis
  <2>11. CASE Restart(w)
    <3>1. [NewRequest EXCEPT !.pc = "idle"].retry = 0
      BY DEF NewRequest
    <3>2. Kept
      BY <2>2, <2>11, <3>1, SetJobRetry DEF Restart
    <3> QED
      BY <1>1, <1>2, <1>4, <2>11, <3>2 DEF Restart, redis, Loaders
  <2> QED
    BY <1>8, <2>3, <2>4, <2>5, <2>6, <2>7, <2>8, <2>9, <2>10, <2>11
<1> QED
  BY <1>5, <1>6, <1>7, <1>8, <1>10 DEF Next

(* An empty ring knows of every request: there was none.                   *)
LEMMA InitWindow == Init => WInv
<1> SUFFICES ASSUME Init
             PROVE  WInv
  OBVIOUS
<1>1. /\ elapsed = MaxBack /\ back = 0 /\ ring = EmptyRing /\ expireAt = 0
      /\ admitted = [s \in Seconds |-> 0] /\ clock = MaxBack
  BY Dimensions DEF Init, clock
<1>2. /\ ring \in [SlotIds -> Slot]
      /\ \A i \in SlotIds : ring[i].label = -1 /\ ring[i].count = 0
  BY <1>1, Dimensions DEF EmptyRing, EmptySlot, Slot, SlotIds
<1>3. TimeOK
  BY <1>1, Dimensions DEF TimeOK
<1>4. RingOK
  <2>1. \A i \in SlotIds : CountOf(ring)[i] = 0
    BY <1>2 DEF CountOf
  <2>2. SumFunctionOnSet(CountOf(ring), SlotIds) = 0
    BY <2>1, SumOfZeros, Dimensions
  <2> QED
    BY <1>2, <2>2, Dimensions DEF RingOK
<1>5. Typed
  <2>1. \A w \in Workers : job[w].retry \in 0..Window
    BY Dimensions DEF Init, NewRequest
  <2>2. orphans \in [Commands -> Nat] /\ scripted \in BOOLEAN
    BY DEF Init, NoCopies
  <2>3. failures \in 0..MaxFailures
    BY Dimensions DEF Init
  <2>4. loader \in [Workers -> Loaders]
    BY DEF Init, Loaders
  <2>5. admitted \in [Seconds -> Nat]
    BY <1>1
  <2> QED
    BY <1>1, <2>1, <2>2, <2>3, <2>4, <2>5 DEF Typed, Loaders
<1>6. Past
  BY <1>1 DEF Past
<1>7. Covers
  <2> SUFFICES ASSUME NEW t \in Int
               PROVE  After(t + back) = 0 /\ InRing(t) = 0
    BY DEF Covers
  <2>1. \A s \in Seconds : LaterAdmitted(admitted, t + back)[s] = 0
    BY <1>1 DEF LaterAdmitted
  <2>2. \A i \in SlotIds : LaterIn(ring, t)[i] = 0
    BY <1>2 DEF LaterIn
  <2> QED
    BY <2>1, <2>2, SumOfZeros, Dimensions DEF After, InRing
<1>8. InOrder
  BY <1>1, <1>2, Dimensions DEF InOrder
<1> QED
  BY <1>3, <1>4, <1>5, <1>6, <1>7, <1>8 DEF WInv

(* The ring of counters knows of every request that was admitted in the    *)
(* last Slots seconds of real time, whatever slots are reused, however the *)
(* key expires and however often the clock is set back.                    *)
THEOREM WindowInvariant == Spec => [](CInv /\ WInv)
<1>1. CInv /\ WInv /\ [Next]_vars => WInv'
  BY WindowStep, TypedStep DEF WInv, Ring, Typed, Loaders
<1> QED
  BY InitCounts, InitWindow, StepKeeps, <1>1, PTL DEF Spec

(* The types; every counter is in its second's slot, and the counters never *)
(* exceed the limit together (TypeOK), for every limit and window.         *)
THEOREM CeilingTypeCorrect == Spec => []TypeOK
<1>1. ASSUME CInv, WInv PROVE TypeOK
  <2>1. ASSUME NEW w \in Workers PROVE job[w] \in Request
    <3>1. Shaped(job[w]) /\ job[w].retry \in 0..Window
      BY <1>1 DEF CInv, Counts, WInv, Typed
    <3> QED
      BY <3>1 DEF Shaped, Request
  <2>2. job \in [Workers -> Request]
    BY <1>1, <2>1 DEF CInv
  <2>3. /\ DOMAIN ring = SlotIds /\ ring \in [0..(Slots - 1) -> Slot]
        /\ \A i \in DOMAIN ring : ring[i].count > 0 => ring[i].label % Slots = i
    BY <1>1 DEF WInv, RingOK, SlotIds
  <2>4. SumFunction([i \in DOMAIN ring |-> ring[i].count]) <= Limit
    BY <1>1, <2>3 DEF WInv, RingOK, CountOf, SumFunction
  <2>5. elapsed \in Seconds /\ back \in 0..MaxBack
    BY <1>1, Dimensions DEF WInv, TimeOK
  <2> QED
    BY <1>1, <2>2, <2>3, <2>4, <2>5 DEF TypeOK, WInv, Typed
<1>2. CInv /\ WInv => TypeOK
  BY <1>1
<1> QED
  BY <1>2, WindowInvariant, PTL

(* The ceiling implements the sliding window, for every limit, window and  *)
(* number of instances: never more than Limit requests in Slots seconds of *)
(* real time, and none refused as too many while there were fewer, unless  *)
(* the clock was set back.                                                 *)
THEOREM CeilingIsSlidingWindow == Spec => IsSlidingWindow
<1>1. Init => Window_!Init
  BY Dimensions DEF Init, Window_!Init, Seconds, Window_!Seconds
<1>2. WInv /\ [Next]_vars => [Window_!Next]_(Window_!wvars)
  BY WindowStep
<1> QED
  BY <1>1, <1>2, WindowInvariant, PTL DEF Spec, IsSlidingWindow, Window_!Spec

(* A request's reply becomes "rate_limited" only by the script's verdict,  *)
(* and Retry-After is then what the script computed.                       *)
LEMMA ReplyStep ==
    ASSUME CInv, WInv, [Next]_vars, NEW w \in Workers,
           job'[w].reply = "rate_limited", job[w].reply = "none"
    PROVE  Verdict = "rate_limited" /\ job'[w].retry = RetrySeconds
<1> DEFINE Limited(j) == j.reply = "rate_limited"
<1>1. /\ Shaped(job[w]) /\ ~Limited(job[w])
      /\ job = [v \in Workers |-> job[v]]
  BY DEF CInv, Counts
<1>2. job' # job
  BY <1>1
<1>3. ASSUME NEW v \in Workers, NEW j, SetJob(v, j) PROVE v = w /\ Limited(j) /\ job'[w] = j
  BY <1>1, <1>3 DEF SetJob
<1>9. Shaped(Left(job[w])) /\ ~Limited(Left(job[w]))
  BY <1>1, LeftFacts DEF CInv
<1>4. ASSUME NEW v \in Workers, NEW a PROVE ~Answer(v, a)
  <2> DEFINE k == Left(job[w])
  <2> HIDE DEF k
  <2>1. ~Limited([k EXCEPT !.pc = "idle", !.answer = a, !.reply = "none", !.retry = 0])
    BY <1>9 DEF Shaped, k
  <2> QED
    BY <1>3, <2>1 DEF Answer, k
<1>5. ASSUME NEW v \in Workers,
             \/ Begin(v) \/ LoadSecrets(v) \/ AcquireRedis(v) \/ ClientResends(v)
             \/ TransportFails(v) \/ SendEval(v) \/ Receive(v) \/ Deadline(v) \/ Restart(v)
             \/ \E c \in Commands : LateArrives(v, c)
      PROVE  FALSE
  <2>1. /\ ~Limited(NewRequest) /\ ~Limited([NewRequest EXCEPT !.pc = "idle"])
        /\ ~Limited([NewRequest EXCEPT !.pc = "idle", !.answer = "unavailable"])
    BY DEF NewRequest
  <2>2. /\ ~Limited([job[w] EXCEPT !.pc = "redis"])
        /\ ~Limited([job[w] EXCEPT !.pc = "evalsha"])
        /\ ~Limited([job[w] EXCEPT !.pc = "eval", !.reply = "none"])
    BY <1>1 DEF Shaped
  <2>6. /\ ~Limited([Left(job[w]) EXCEPT !.reply = "error", !.retry = 0])
        /\ ~Limited([Left(job[w]) EXCEPT !.reply = "none", !.retry = 0, !.resent = @ + 1])
    BY <1>9 DEF Shaped
  <2>7. ASSUME NEW c \in Commands, NEW n
        PROVE  /\ ~Limited([job[w] EXCEPT !.late[c] = @ - 1])
               /\ ~Limited([job[w] EXCEPT !.late[c] = @ - 1, !.counted = n])
               /\ ~Limited([job[w] EXCEPT !.resent = @ + 1, !.counted = n])
    BY <1>1 DEF Shaped
  <2> HIDE DEF Limited
  <2>3. CASE Begin(v) \/ Restart(v)
    BY <1>3, <2>1, <2>3 DEF Begin, Restart
  <2>4. CASE \/ LoadSecrets(v) \/ AcquireRedis(v) \/ ClientResends(v) \/ TransportFails(v)
             \/ SendEval(v) \/ \E c \in Commands : LateArrives(v, c)
    <3>1. CASE LoadSecrets(v)
      BY <1>3, <1>4, <2>2, <3>1 DEF LoadSecrets
    <3>2. CASE AcquireRedis(v)
      BY <1>3, <1>4, <2>2, <3>2 DEF AcquireRedis
    <3>3. CASE ClientResends(v) \/ TransportFails(v)
      BY <1>3, <2>6, <3>3 DEF ClientResends, TransportFails
    <3>4. CASE SendEval(v)
      BY <1>3, <2>2, <3>4 DEF SendEval
    <3>5. ASSUME NEW c \in Commands PROVE ~LateArrives(v, c)
      BY <1>3, <2>7 DEF LateArrives
    <3> QED
      BY <2>4, <3>1, <3>2, <3>3, <3>4, <3>5
  <2>5. CASE Receive(v) \/ Deadline(v)
    BY <1>4, <2>5 DEF Receive, Deadline
  <2> QED
    BY <1>5, <2>3, <2>4, <2>5
<1>6. ASSUME NEW v \in Workers, EvalshaRuns(v) \/ EvalRuns(v)
      PROVE  Verdict = "rate_limited" /\ job'[w].retry = RetrySeconds
  <2>1. ~Limited([job[w] EXCEPT !.reply = "noscript"])
    BY <1>1 DEF Shaped
  <2>2. /\ Result(job[w]).reply = Verdict
        /\ Result(job[w]).retry = IF Verdict = "rate_limited" THEN RetrySeconds ELSE 0
    BY <1>1 DEF Result, Shaped
  <2> HIDE DEF Limited
  <2>3. SetJob(v, Result(job[v])) \/ SetJob(v, [job[v] EXCEPT !.reply = "noscript"])
    BY <1>6 DEF EvalshaRuns, EvalRuns
  <2>4. v = w /\ Limited(Result(job[w])) /\ job'[w] = Result(job[w])
    BY <1>3, <2>1, <2>3
  <2> QED
    BY <2>2, <2>4 DEF Limited
<1>7. CASE Tick \/ ClockSetBack \/ KeyExpires \/ ScriptFlushed \/ UNCHANGED vars
  BY <1>2, <1>7 DEF Tick, ClockSetBack, KeyExpires, ScriptFlushed, vars
<1>8. ASSUME NEW c \in Commands PROVE ~OrphanArrives(c)
  BY <1>2, <1>8 DEF OrphanArrives
<1> QED
  BY <1>5, <1>6, <1>7, <1>8 DEF Next

(* Retry-After is right to the second for every limit and window, while the *)
(* clock is not set back: one second before it the window is still full,   *)
(* and one second after it a caller who is alone finds room.               *)
THEOREM RetryAfterIsRight == Spec => RetryAfterIsTight
<1> DEFINE Tight == \A w \in Workers :
         job'[w].reply = "rate_limited" /\ job[w].reply = "none" /\ back = 0 =>
           LET r == job'[w].retry IN
           /\ r >= 1
           /\ Window_!AdmittedUpTo(elapsed + r - 1) >= Limit
           /\ Window_!AdmittedUpTo(elapsed + r + 1) < Limit
<1>1. ASSUME CInv, WInv, [Next]_vars PROVE Tight
  <2> SUFFICES ASSUME NEW w \in Workers, job'[w].reply = "rate_limited",
                      job[w].reply = "none", back = 0
               PROVE  /\ job'[w].retry >= 1
                      /\ Window_!AdmittedUpTo(elapsed + job'[w].retry - 1) >= Limit
                      /\ Window_!AdmittedUpTo(elapsed + job'[w].retry + 1) < Limit
    OBVIOUS
  <2>1. Verdict = "rate_limited" /\ job'[w].retry = RetrySeconds
    BY <1>1, ReplyStep
  <2> QED
    BY <1>1, <2>1, RetryFacts
<1>2. CInv /\ WInv /\ [Next]_vars => [Tight]_vars
  BY <1>1
<1> QED
  BY <1>2, WindowInvariant, PTL DEF Spec, RetryAfterIsTight

=============================================================================
