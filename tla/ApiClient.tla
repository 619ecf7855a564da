------------------------------ MODULE ApiClient ------------------------------
(***************************************************************************)
(* The browser in front of the gate (client/lib/api.js, AuthContext.js):   *)
(* calls made through apiRequest, the CSRF refresh they share, and what    *)
(* the page does to the cookies meanwhile: it primes the CSRF token, signs *)
(* out, or another tab signs somebody in.                                  *)
(*                                                                         *)
(* A call sends its request up to Retries + 1 times while the answer is    *)
(* SERVICE_UNAVAILABLE, and that twice over if its CSRF token was refused. *)
(* A call reads the token once per round but the browser attaches its      *)
(* cookies to every request, so the two may drift apart while it sleeps.   *)
(***************************************************************************)
EXTENDS RequestGate

CONSTANTS
    Calls,      \* apiRequest calls in progress at once
    Refresh,    \* the slot of the shared CSRF refresh
    First,      \* who is signed in at first; accounts are interchangeable
    Retries,    \* MAX_CLIENT_RETRIES (2)
    MaxChanges  \* bound: changes of session or CSRF cookie by others

ASSUME SlotAssumption == Slots = Calls \cup {Refresh} /\ Refresh \notin Calls
ASSUME FirstAssumption == First \in Users
ASSUME RetryAssumption == {Retries, MaxChanges} \subseteq Nat

VARIABLES
    session,    \* whose auth cookies the browser holds
    cookie,     \* the CSRF cookie
    call,       \* [Calls -> call]
    shared,     \* the shared refresh: csrfRefreshPromise
    changes     \* changes of session or CSRF cookie by others so far

clientVars == <<session, cookie, call, shared, changes>>
vars == <<gateVars, clientVars>>

(* made and calm are histories: how often the call took effect, and whether *)
(* session and CSRF cookie were left alone since the refresh it relies on.  *)
Call ==
    [pc: {"idle", "sent", "asleep", "waiting", "refreshed"},
     attempt: 0..Retries, header: Token,
     second: BOOLEAN, made: Nat, calm: BOOLEAN, result: {"none", "csrf", "other"}]

NewCall ==
    [pc |-> "idle", attempt |-> 0, header |-> NoToken,
     second |-> FALSE, made |-> 0, calm |-> FALSE, result |-> "none"]

SetCall(c, k) == call' = [call EXCEPT ![c] = k]

Changing == changes < MaxChanges /\ changes' = changes + 1

Unsettled(calls) == [c \in Calls |-> [calls[c] EXCEPT !.calm = FALSE]]

---------------------------------------------------------------------------
(* The page and the other tabs *)

(* The callback page of an OAuth sign-in, in this tab or another. *)
SignIn(u) ==
    /\ session # u
    /\ Changing
    /\ session' = u
    /\ call' = Unsettled(call)
    /\ shared' = [shared EXCEPT !.calm = FALSE]
    /\ UNCHANGED <<gateVars, cookie>>

(* The token and its cookie have the same life. *)
TokenExpires ==
    /\ cookie # NoToken
    /\ Changing
    /\ cookie' = NoToken
    /\ expired' = cookie.serial
    /\ call' = Unsettled(call)
    /\ shared' = [shared EXCEPT !.calm = FALSE]
    /\ UNCHANGED <<request, issued, session>>

(* The page primes the token on mount and on focus, here or in another tab: *)
(* the reply brings the token of whoever was signed in when it was sent.    *)
TokenPrimed(u) ==
    /\ issued < MaxTokens
    /\ Changing
    /\ issued' = issued + 1
    /\ cookie' = [user |-> u, serial |-> issued + 1]
    /\ call' = Unsettled(call)
    /\ shared' = [shared EXCEPT !.calm = FALSE]
    /\ UNCHANGED <<request, expired, session>>

(* A sign-out clears both cookies. *)
SignOut ==
    /\ session # Nobody
    /\ Changing
    /\ session' = Nobody
    /\ cookie' = NoToken
    /\ call' = Unsettled(call)
    /\ shared' = [shared EXCEPT !.calm = FALSE]
    /\ UNCHANGED gateVars

---------------------------------------------------------------------------
(* apiRequest *)

Send(c, k) ==
    /\ SetCall(c, [k EXCEPT !.pc = "sent"])
    /\ SetRequest(c, Arriving("create", session, cookie, k.header))

(* A slot is used again when its last request is over. *)
Begin(c) ==
    /\ call[c].pc = "idle"
    /\ request[c].stage = "none"
    /\ Send(c, [NewCall EXCEPT !.header = cookie])
    /\ UNCHANGED <<issued, expired, session, cookie, shared, changes>>

Return(k, result) ==
    [NewCall EXCEPT !.result = IF result = "csrf" THEN "csrf" ELSE "other", !.made = k.made,
                    !.calm = k.calm /\ result = "csrf"]

(* A request that was lost rejects the fetch. Inside the second round the   *)
(* catch answers with the first round's 403.                                *)
LostResult(k) == IF k.second THEN "csrf" ELSE "lost"

(* Mutant: one attempt too many. *)
MayRetryOnceMore(k) == k.attempt <= Retries

MayRetry(k) == k.attempt < Retries

(* Mutant: every attempt is the first. *)
NextAttemptStuck(k) == k.attempt

NextAttempt(k) == k.attempt + 1

(* Mutant: a server error is tried again too. *)
RetriesAnyFailure(reply) == reply \in {"unavailable", "failed"}

RetriesOn(reply) == reply = "unavailable"

(* Mutant: the promise is kept when it has settled. *)
SharesRefreshEver == issued > 0 \/ shared.running

(* Concurrent CSRF failures share one refresh request. *)
SharesRefresh == shared.running

(* refreshCsrfToken *)
StartRefresh(c, k) ==
    IF SharesRefresh
    THEN /\ SetCall(c, [k EXCEPT !.pc = IF shared.running THEN "waiting" ELSE "refreshed",
                                 !.calm = shared.running => shared.calm])
         /\ SetRequest(c, NoRequest)
         /\ UNCHANGED shared
    ELSE /\ SetCall(c, [k EXCEPT !.pc = "waiting", !.calm = TRUE])
         /\ request' = [request EXCEPT ![c] = NoRequest,
                          ![Refresh] = Arriving("csrf", session, cookie, NoToken)]
         /\ shared' = [running |-> TRUE, calm |-> TRUE]

Receive(c) ==
    LET q == request[c]
        k == [call[c] EXCEPT !.made = @ + IF q.effect THEN 1 ELSE 0]
    IN
    /\ call[c].pc = "sent"
    /\ q.stage = "replied"
    /\ IF RetriesOn(q.reply) /\ MayRetry(k)
       THEN /\ SetCall(c, [k EXCEPT !.pc = "asleep", !.attempt = NextAttempt(k)])
            /\ SetRequest(c, NoRequest)
            /\ UNCHANGED shared
       ELSE IF q.reply = "csrf" /\ ~k.second
       THEN StartRefresh(c, [k EXCEPT !.header = NoToken])
       ELSE /\ SetCall(c, IF q.reply # "lost" THEN Return(k, q.reply)
                           ELSE Return([k EXCEPT !.calm = FALSE], LostResult(k)))
            /\ SetRequest(c, NoRequest)
            /\ UNCHANGED shared
    /\ UNCHANGED <<issued, expired, session, cookie, changes>>

(* The same headers again; the browser attaches the cookies of now. *)
Wake(c) ==
    /\ call[c].pc = "asleep"
    /\ Send(c, call[c])
    /\ UNCHANGED <<issued, expired, session, cookie, shared, changes>>

(* The refresh settles for everyone who waits, and the promise is dropped.  *)
RefreshReplies ==
    LET q == request[Refresh] IN
    /\ q.stage = "replied"
    /\ SetRequest(Refresh, NoRequest)
    /\ cookie' = IF q.reply = "ok" THEN q.token ELSE cookie
    /\ call' = [c \in Calls |->
         IF call[c].pc # "waiting" THEN [call[c] EXCEPT !.calm = FALSE]
         ELSE IF q.reply = "ok" THEN [call[c] EXCEPT !.pc = "refreshed"]
         ELSE Return([call[c] EXCEPT !.calm = FALSE], "csrf")]
    /\ shared' = [running |-> FALSE, calm |-> FALSE]
    /\ UNCHANGED <<issued, expired, session, changes>>

(* The second round, with whatever token the cookie holds now. *)
Resume(c) ==
    /\ call[c].pc = "refreshed"
    /\ Send(c, [call[c] EXCEPT !.second = TRUE, !.attempt = 0, !.header = cookie])
    /\ UNCHANGED <<issued, expired, session, cookie, shared, changes>>

---------------------------------------------------------------------------
(* Specification *)

Init ==
    /\ GateInit
    /\ session = First
    /\ cookie = NoToken
    /\ call = [c \in Calls |-> NewCall]
    /\ shared = [running |-> FALSE, calm |-> FALSE]
    /\ changes = 0

Next ==
    \/ \E u \in Users : SignIn(u) \/ TokenPrimed(u)
    \/ SignOut \/ TokenExpires \/ RefreshReplies
    \/ \E r \in Slots : (GateStep(r) \/ Vanish(r)) /\ UNCHANGED clientVars
    \/ \E c \in Calls :
         \/ Begin(c)
         \/ Receive(c)
         \/ Wake(c)
         \/ Resume(c)

(* A request is answered or its connection ends; timers and promises run.   *)
(* Nobody has to sign in, and no token has to expire. A call is sequential: *)
(* at most one of its steps is possible at a time.                          *)
Fairness ==
    /\ \A c \in Calls : WF_vars(\/ (GateStep(c) \/ Vanish(c)) /\ UNCHANGED clientVars
                               \/ Receive(c) \/ Wake(c) \/ Resume(c))
    /\ WF_vars(\/ (GateStep(Refresh) \/ Vanish(Refresh)) /\ UNCHANGED clientVars
               \/ RefreshReplies)

Spec == Init /\ [][Next]_vars
FairSpec == Spec /\ Fairness

---------------------------------------------------------------------------
(* Properties *)

(* Types; a call waits exactly while the shared refresh is under way.       *)
TypeOK ==
    /\ request \in [Slots -> Request]
    /\ issued \in 0..MaxTokens /\ expired \in 0..issued
    /\ session \in Users \cup {Nobody}
    /\ cookie \in Token
    /\ call \in [Calls -> Call]
    /\ shared \in [running: BOOLEAN, calm: BOOLEAN]
    /\ changes \in 0..MaxChanges
    /\ shared.running <=> \E c \in Calls : call[c].pc = "waiting"
    /\ shared.running <=> request[Refresh].stage # "none"

(* "Only retry on SERVICE_UNAVAILABLE (Redis cold start), not on other      *)
(* errors" (api.js): however often a call is sent, with whatever lost       *)
(* replies, it creates one job at most.                                     *)
OneEffectPerCall == \A c \in Calls : call[c].made <= 1

(* "token was rejected - refresh and retry once": a call ends with the CSRF *)
(* error only if the refresh failed, the second round was lost, or somebody  *)
(* changed the session or the token since the refresh began.                *)
CsrfFailureIsExplained == \A c \in Calls : call[c].result = "csrf" => ~call[c].calm

(* Every call returns: no retry loop and no wait on the shared refresh goes *)
(* on for ever, whatever fails.                                             *)
EveryCallReturns == \A c \in Calls : call[c].pc # "idle" ~> call[c].pc = "idle"

=============================================================================
