--------------------------- MODULE SessionCeiling ---------------------------
(***************************************************************************)
(* The shared ceiling in front of GET /api/auth/session: one source's      *)
(* counters in one Redis hash, and the requests of several server          *)
(* instances that consult it (temporarySessionCeiling.js,                  *)
(* temporarySessionRedisScript.js).                                        *)
(*                                                                         *)
(* The Lua script runs atomically in Redis and keeps one counter per       *)
(* second in a ring of Slots = Window + 1 slots: a slot is reused for the  *)
(* second Slots later.  Everything around it is remote: a command may be   *)
(* slow, its reply may be lost, the script may be missing from Redis's     *)
(* cache, and a request that has met its deadline leaves a command behind  *)
(* which still runs later.  redis.js builds the Upstash client without     *)
(* turning its retries off: a command whose connection breaks is sent      *)
(* again, whether or not it has run.  Redis's clock may be set back.       *)
(*                                                                         *)
(* elapsed is real time; clock is what Redis's TIME says.  admitted is a   *)
(* history of when the script counted a request: only properties read it.  *)
(***************************************************************************)
EXTENDS Integers, FiniteSets, Functions

CONSTANTS
    Workers,      \* server instances, one request at a time each
    Limit,        \* TEMPORARY_SESSION_REDIS_LIMIT (400)
    Window,       \* TEMPORARY_SESSION_REDIS_WINDOW_SECONDS (60)
    MaxSeconds,   \* bound: seconds of real time
    MaxBack,      \* bound: seconds the clock is set back, in all
    MaxFailures   \* bound: calls that fail, connections lost, deadlines met

ASSUME SizeAssumption == Limit \in Nat \ {0} /\ Window \in Nat \ {0}
ASSUME BoundAssumption == {MaxSeconds, MaxBack, MaxFailures} \subseteq Nat

VARIABLES
    elapsed,    \* real time, in seconds
    back,       \* how far behind real time Redis's clock is
    ring,       \* the hash: [0..Slots-1 -> label and count]
    expireAt,   \* when the key expires by Redis's clock; 0 = no key
    scripted,   \* is the script in Redis's script cache?
    loader,     \* [Workers -> memo of the instance's secrets]
    job,        \* [Workers -> request]
    orphans,    \* [Commands -> copies of earlier requests still on their way]
    admitted,   \* history: requests counted in each second of real time
    decision,   \* history: the script's last decision
    failures    \* failures so far

redis == <<ring, expireAt, scripted>>
history == <<admitted, decision>>
vars == <<elapsed, back, redis, loader, job, orphans, history, failures>>

(* Mutant: a slot for each second of the window and none to spare. *)
SlotsShort == Window

(* TEMPORARY_SESSION_REDIS_SLOT_COUNT *)
Slots == Window + 1

clock == elapsed - back

(* The ring's labels start above 0, so that no clock is negative. *)
LastSecond == MaxBack + MaxSeconds
Seconds == 0..LastSecond

---------------------------------------------------------------------------
(* Records *)

EmptySlot == [label |-> -1, count |-> 0]
EmptyRing == [i \in 0..(Slots - 1) |-> EmptySlot]
Slot == [label: Seconds \cup {-1}, count: 0..Limit]

(* An error stands for every reply that is neither a result nor NOSCRIPT.   *)
Verdicts == {"allowed", "rate_limited", "invalid_state"}
Replies == Verdicts \cup {"none", "noscript", "error"}
Commands == {"evalsha", "eval"}
Steps == {"idle", "secrets", "redis"} \cup Commands

(* late: copies of its commands still on their way which nobody waits for.  *)
(* resent and counted are history: how often the client has sent a command  *)
(* of this request again, and how many slots the request has taken so far.  *)
Request == [pc: Steps, reply: Replies, retry: 0..Window,
            answer: {"none", "allowed", "limited", "unavailable"},
            late: [Commands -> Nat], resent: Nat, counted: Nat]

NoCopies == [c \in Commands |-> 0]

NewRequest == [pc |-> "secrets", reply |-> "none", retry |-> 0, answer |-> "none",
               late |-> NoCopies, resent |-> 0, counted |-> 0]

SetJob(w, j) == job' = [job EXCEPT ![w] = j]
Failing == failures < MaxFailures /\ failures' = failures + 1

---------------------------------------------------------------------------
(* The script *)

(* A slot older than the window is cleared when it is read.                 *)
Fresh(i) ==
    IF ring[i].count > 0 /\ ring[i].label < clock - Window THEN EmptySlot ELSE ring[i]

Total == SumFunction([i \in DOMAIN ring |-> Fresh(i).count])

(* A key from the future, by its labels or by its time to live. *)
IsInvalid ==
    \/ \E i \in DOMAIN ring : ring[i].label > clock
    \/ expireAt - clock > Slots
    \/ Total > Limit

(* Mutant: the delay is counted from the newest slot. *)
RetrySecondsNewest ==
    LET labels == {Fresh(i).label : i \in {k \in DOMAIN ring : Fresh(k).count > 0}}
        newest == CHOOSE l \in labels : \A m \in labels : l >= m
        wait == newest + Slots - clock
    IN  IF wait > Window THEN Window ELSE wait

(* Until the oldest slot leaves the window, but Window seconds at most. *)
RetrySeconds ==
    LET labels == {Fresh(i).label : i \in {k \in DOMAIN ring : Fresh(k).count > 0}}
        oldest == CHOOSE l \in labels : \A m \in labels : l <= m
        wait == oldest + Slots - clock
    IN  IF wait > Window THEN Window ELSE wait

(* Mutant: the limit itself is let through. *)
VerdictOffByOne == IF IsInvalid THEN "invalid_state"
                   ELSE IF Total > Limit THEN "rate_limited" ELSE "allowed"

Verdict == IF IsInvalid THEN "invalid_state"
           ELSE IF Total >= Limit THEN "rate_limited" ELSE "allowed"

Counted ==
    LET i == clock % Slots
        fresh == [k \in DOMAIN ring |-> Fresh(k)]
    IN  [fresh EXCEPT ![i] =
           [label |-> clock, count |-> 1 + IF @.label = clock THEN @.count ELSE 0]]

(* Redis removes an expired key before any command sees it. *)
KeyOverdue == expireAt # 0 /\ clock > expireAt

RunScript ==
    /\ ~KeyOverdue
    /\ decision' = Verdict
    /\ IF Verdict = "allowed"
       THEN /\ ring' = Counted
            /\ expireAt' = clock + Slots
            /\ admitted' = [admitted EXCEPT ![elapsed] = @ + 1]
       ELSE UNCHANGED <<ring, expireAt, admitted>>

Taken(j) == j.counted + IF Verdict = "allowed" THEN 1 ELSE 0

Result(j) == [j EXCEPT !.reply = Verdict,
                       !.retry = IF Verdict = "rate_limited" THEN RetrySeconds ELSE 0,
                       !.counted = Taken(j)]

---------------------------------------------------------------------------
(* Redis and its clock (external) *)

Tick ==
    /\ elapsed < LastSecond
    /\ elapsed' = elapsed + 1
    /\ UNCHANGED <<back, redis, loader, job, orphans, history, failures>>

ClockSetBack ==
    /\ back < MaxBack
    /\ back' = back + 1
    /\ UNCHANGED <<elapsed, redis, loader, job, orphans, history, failures>>

(* EXPIRE counts milliseconds, so within its last second a key may be gone. *)
KeyExpires ==
    /\ expireAt # 0
    /\ clock >= expireAt
    /\ ring' = EmptyRing
    /\ expireAt' = 0
    /\ UNCHANGED <<elapsed, back, scripted, loader, job, orphans, history, failures>>

ScriptFlushed ==
    /\ scripted
    /\ Failing
    /\ scripted' = FALSE
    /\ UNCHANGED <<elapsed, back, ring, expireAt, loader, job, orphans, history>>

RunsUnheard(c) ==
    /\ c = "eval" \/ scripted
    /\ RunScript
    /\ scripted' = TRUE

(* A copy that nobody waits for runs in the end, or never; its connection   *)
(* may break then, and the client, which knows of no deadline, sends it     *)
(* again.                                                                   *)
LateArrives(w, c) ==
    /\ job[w].late[c] > 0
    /\ RunsUnheard(c)
    /\ \/ /\ SetJob(w, [job[w] EXCEPT !.late[c] = @ - 1, !.counted = Taken(job[w])])
          /\ UNCHANGED failures
       \/ /\ job[w].pc = "idle"
          /\ SetJob(w, [job[w] EXCEPT !.resent = @ + 1, !.counted = Taken(job[w])])
          /\ Failing
    /\ UNCHANGED <<elapsed, back, loader, orphans>>

OrphanArrives(c) ==
    /\ orphans[c] > 0
    /\ RunsUnheard(c)
    /\ \/ /\ orphans' = [orphans EXCEPT ![c] = @ - 1]
          /\ UNCHANGED failures
       \/ Failing /\ UNCHANGED orphans
    /\ UNCHANGED <<elapsed, back, loader, job>>

---------------------------------------------------------------------------
(* evaluateDecision and executeTemporarySessionRedisScript *)

(* A command not yet run stays behind when it is not waited for any more.   *)
Left(j) == IF j.pc \in Commands /\ j.reply = "none"
           THEN [j EXCEPT !.late[j.pc] = @ + 1] ELSE j

(* What a request has left behind when the next one, or a restart, comes.   *)
Abandon(w) ==
    orphans' = [c \in Commands |-> orphans[c] + Left(job[w]).late[c]]

Answer(w, a) == SetJob(w, [Left(job[w]) EXCEPT !.pc = "idle", !.answer = a,
                                               !.reply = "none", !.retry = 0])

(* Method, route version, source mode and source come first: without a      *)
(* trusted source the request is refused before anything else is touched.   *)
Begin(w) ==
    /\ job[w].pc = "idle"
    /\ \/ SetJob(w, NewRequest)
       \/ SetJob(w, [NewRequest EXCEPT !.pc = "idle", !.answer = "unavailable"])
    /\ Abandon(w)
    /\ UNCHANGED <<elapsed, back, redis, loader, history, failures>>

(* getRuntimePair: the first outcome is the instance's for good.            *)
LoadSecrets(w) ==
    /\ job[w].pc = "secrets"
    /\ \/ /\ loader[w] \in {"unread", "pair"}
          /\ loader' = [loader EXCEPT ![w] = "pair"]
          /\ SetJob(w, [job[w] EXCEPT !.pc = "redis"])
          /\ UNCHANGED failures
       \/ /\ loader[w] = "unread"
          /\ Failing
          /\ loader' = [loader EXCEPT ![w] = "failed"]
          /\ Answer(w, "unavailable")
       \/ /\ loader[w] = "failed"
          /\ Answer(w, "unavailable")
          /\ UNCHANGED <<loader, failures>>
    /\ UNCHANGED <<elapsed, back, redis, orphans, history>>

(* getRedisClient for that pair, then EVALSHA is sent. *)
AcquireRedis(w) ==
    /\ job[w].pc = "redis"
    /\ \/ SetJob(w, [job[w] EXCEPT !.pc = "evalsha"]) /\ UNCHANGED failures
       \/ Answer(w, "unavailable") /\ Failing
    /\ UNCHANGED <<elapsed, back, redis, loader, orphans, history>>

AtRedis(w, c) == job[w].pc = c /\ job[w].reply = "none"

EvalshaRuns(w) ==
    /\ AtRedis(w, "evalsha")
    /\ IF scripted
       THEN RunScript /\ SetJob(w, Result(job[w]))
       ELSE /\ SetJob(w, [job[w] EXCEPT !.reply = "noscript"])
            /\ UNCHANGED <<ring, expireAt, history>>
    /\ UNCHANGED <<elapsed, back, scripted, loader, orphans, failures>>

EvalRuns(w) ==
    /\ AtRedis(w, "eval")
    /\ RunScript
    /\ SetJob(w, Result(job[w]))
    /\ scripted' = TRUE
    /\ UNCHANGED <<elapsed, back, loader, orphans, failures>>

(* The connection breaks: the command is lost or still on its way, or has   *)
(* run and only its reply is lost.  The client sends it again, for as long  *)
(* as its 1,500 ms last (a bound of its own, five, is not modelled).        *)
ClientResends(w) ==
    /\ job[w].pc \in Commands
    /\ job[w].reply # "error"
    /\ Failing
    /\ SetJob(w, [Left(job[w]) EXCEPT !.reply = "none", !.retry = 0, !.resent = @ + 1])
    /\ UNCHANGED <<elapsed, back, redis, loader, orphans, history>>

(* Those are over, or Redis answers with an error or something malformed.   *)
TransportFails(w) ==
    /\ job[w].pc \in Commands
    /\ job[w].reply # "error"
    /\ Failing
    /\ SetJob(w, [Left(job[w]) EXCEPT !.reply = "error", !.retry = 0])
    /\ UNCHANGED <<elapsed, back, redis, loader, orphans, history>>

(* Mutant: any failed EVALSHA is tried again with EVAL. *)
FallsBackOnAnyError(reply) == reply \in {"noscript", "error"}

(* isTemporarySessionNoscriptError: only what the reply says did not run.   *)
FallsBack(reply) == reply = "noscript"

SendEval(w) ==
    /\ job[w].pc = "evalsha"
    /\ FallsBack(job[w].reply)
    /\ SetJob(w, [job[w] EXCEPT !.pc = "eval", !.reply = "none"])
    /\ UNCHANGED <<elapsed, back, redis, loader, orphans, history, failures>>

AnswerTo(reply) ==
    CASE reply = "allowed" -> "allowed"
      [] reply = "rate_limited" -> "limited"
      [] OTHER -> "unavailable"

Receive(w) ==
    /\ job[w].pc \in Commands
    /\ job[w].reply # "none"
    /\ ~(job[w].pc = "evalsha" /\ FallsBack(job[w].reply))
    /\ Answer(w, AnswerTo(job[w].reply))
    /\ UNCHANGED <<elapsed, back, redis, loader, orphans, history, failures>>

(* Three seconds have passed: 503.                                          *)
Deadline(w) ==
    /\ job[w].pc # "idle"
    /\ Failing
    /\ Answer(w, "unavailable")
    /\ UNCHANGED <<elapsed, back, redis, loader, orphans, history>>

(* The instance is replaced by a fresh one, which reads its secrets anew.   *)
Restart(w) ==
    /\ Failing
    /\ loader' = [loader EXCEPT ![w] = "unread"]
    /\ SetJob(w, [NewRequest EXCEPT !.pc = "idle"])
    /\ Abandon(w)
    /\ UNCHANGED <<elapsed, back, redis, history>>

---------------------------------------------------------------------------
(* Specification *)

Init ==
    /\ elapsed = MaxBack
    /\ back = 0
    /\ ring = EmptyRing
    /\ expireAt = 0
    /\ scripted \in BOOLEAN
    /\ loader = [w \in Workers |-> "unread"]
    /\ job = [w \in Workers |-> [NewRequest EXCEPT !.pc = "idle"]]
    /\ orphans = NoCopies
    /\ admitted = [s \in Seconds |-> 0]
    /\ decision = "none"
    /\ failures = 0

Next ==
    \/ Tick \/ ClockSetBack \/ KeyExpires \/ ScriptFlushed
    \/ \E c \in Commands : OrphanArrives(c)
    \/ \E w \in Workers :
         \/ Begin(w)
         \/ LoadSecrets(w)
         \/ AcquireRedis(w)
         \/ EvalshaRuns(w)
         \/ EvalRuns(w)
         \/ \E c \in Commands : LateArrives(w, c)
         \/ ClientResends(w)
         \/ TransportFails(w)
         \/ SendEval(w)
         \/ Receive(w)
         \/ Deadline(w)
         \/ Restart(w)

Spec == Init /\ [][Next]_vars

---------------------------------------------------------------------------
(* Properties *)

(* Types; the ring's own consistency: a counter sits in its second's slot,  *)
(* and all of them together never exceed the limit.                         *)
TypeOK ==
    /\ elapsed \in Seconds /\ back \in 0..MaxBack
    /\ ring \in [0..(Slots - 1) -> Slot]
    /\ \A i \in DOMAIN ring : ring[i].count > 0 => ring[i].label % Slots = i
    /\ SumFunction([i \in DOMAIN ring |-> ring[i].count]) <= Limit
    /\ expireAt \in Nat
    /\ scripted \in BOOLEAN
    /\ loader \in [Workers -> {"unread", "pair", "failed"}]
    /\ job \in [Workers -> Request]
    /\ orphans \in [Commands -> Nat]
    /\ admitted \in [Seconds -> Nat]
    /\ failures \in 0..MaxFailures

(* The ring of counters is a sliding window of Slots seconds of real time:  *)
(* it never admits more, and refuses only when the window is full, however  *)
(* slots are reused, the key expires or the clock is set back.              *)
Window_ == INSTANCE SlidingWindow WITH
              now <- elapsed, Span <- Window + 1, disturbed <- (back > 0)

IsSlidingWindow == Window_!Spec

(* Every slot beyond the first that a request takes is due to a resend of   *)
(* the client: the request itself sends a second command only where the     *)
(* first has taken none ("a definitely non-executed cached-script lookup",  *)
(* isTemporarySessionNoscriptError), whatever runs late, twice or unheard.  *)
(* A request that is let through has taken a slot.                          *)
ExtraSlotsAreResends ==
    \A w \in Workers :
        /\ job[w].counted <= 1 + job[w].resent
        /\ job[w].answer = "allowed" => job[w].counted >= 1

(* Retry-After is right to the second, while the clock is not set back: one *)
(* second before it the window is still full, and one second after it (it   *)
(* is capped at Window, one less than the ring spans) there is room for a   *)
(* caller who is alone.                                                     *)
RetryAfterIsTight ==
    [][\A w \in Workers :
         job'[w].reply = "rate_limited" /\ job[w].reply = "none" /\ back = 0 =>
           LET r == job'[w].retry IN
           /\ r >= 1
           /\ Window_!AdmittedUpTo(elapsed + r - 1) >= Limit
           /\ Window_!AdmittedUpTo(elapsed + r + 1) < Limit]_vars

=============================================================================
