----------------------------- MODULE RequestGate -----------------------------
(***************************************************************************)
(* What an API request passes before its handler runs (withRateLimit.js,   *)
(* rateLimit.js, csrf.js): authentication, the CSRF token, the quota of    *)
(* each window, and only then the handler.  Every one of these is a remote *)
(* call that may fail, or succeed and lose its reply.                      *)
(*                                                                         *)
(* A request carries the cookies the browser held when it was sent; the    *)
(* browser's own state belongs to the module that sends the requests.      *)
(* The limiter is a library: which of its windows is full is its business, *)
(* so a check is granted, refused, or unavailable.                         *)
(***************************************************************************)
EXTENDS Integers

CONSTANTS
    Users,      \* accounts
    Slots,      \* one request at a time in each
    MaxTokens   \* bound: CSRF tokens issued

ASSUME TokenAssumption == MaxTokens \in Nat

VARIABLES
    request,    \* [Slots -> request]
    issued,     \* CSRF tokens issued so far; their serial numbers
    expired     \* tokens up to this one are older than CSRF_MAX_AGE_SECONDS

gateVars == <<request, issued, expired>>

Nobody == "nobody"
NoToken == [user |-> Nobody, serial |-> 0]
Token == [user: Users, serial: 1..MaxTokens] \cup {NoToken}

Routes == {"create", "csrf"}
Windows == {"daily", "hourly"}

(* The windows a free account's operation is limited by (tiers.js): the     *)
(* hour's alone for reads, which the CSRF route counts as.                  *)
WindowsOf(route) == IF route = "csrf" THEN {"hourly"} ELSE Windows

Stages == {"none", "arrived", "handler", "replied"} \cup Windows

(* "unavailable" is the SERVICE_UNAVAILABLE code; "failed" any other error  *)
(* of the handler; "lost" a reply that never came.                          *)
(* "refused" is 401, 403 for a source that cannot be told, or 429.          *)
Replies == {"none", "ok", "refused", "csrf", "unavailable", "failed", "lost"}

(* charged and effect are histories: the windows that gave the request a    *)
(* place at its user's expense, and whether it took effect.                 *)
Request ==
    [route: Routes, session: Users \cup {Nobody}, cookie: Token, header: Token,
     stage: Stages, user: Users \cup {Nobody}, reply: Replies, token: Token,
     charged: SUBSET Windows, effect: BOOLEAN]

NoRequest ==
    [route |-> "csrf", session |-> Nobody, cookie |-> NoToken, header |-> NoToken,
     stage |-> "none", user |-> Nobody, reply |-> "none", token |-> NoToken,
     charged |-> {}, effect |-> FALSE]

Arriving(route, session, cookie, header) ==
    [NoRequest EXCEPT !.stage = "arrived", !.route = route, !.session = session,
                      !.cookie = cookie, !.header = header]

SetRequest(r, q) == request' = [request EXCEPT ![r] = q]

(* What is left of a request when it has been answered. *)
Reply(q, code) ==
    [NoRequest EXCEPT !.stage = "replied", !.route = q.route, !.reply = code,
                      !.token = q.token, !.effect = q.effect]

---------------------------------------------------------------------------
(* Authentication and CSRF *)

(* validateCsrfToken: double submit, age, and a signature over the user. *)
TokenPasses(q, user) ==
    /\ q.cookie # NoToken
    /\ q.header = q.cookie
    /\ q.cookie.serial > expired
    /\ q.cookie.user = user

CsrfPasses(q, user) == q.route = "create" => TokenPasses(q, user)

(* A failed authentication is counted against the AUTH quota of the source. *)
LimitedBy(route, user) == IF user = Nobody THEN Windows ELSE WindowsOf(route)

(* Mutant: the hour's window only. *)
FirstWindowHourly(windows) == "hourly"

(* The broader window first. *)
FirstWindow(windows) == IF "daily" \in windows THEN "daily" ELSE "hourly"

ToLimiter(q, user) ==
    [q EXCEPT !.stage = FirstWindow(LimitedBy(q.route, user)), !.user = user,
              !.session = Nobody, !.cookie = NoToken]

(* getUserFromRequest asks Supabase: the session may have ended meanwhile,  *)
(* and the answer may not come. A request without a user is counted against *)
(* its source, if it has one, before it is told so.                         *)
Authenticate(r) ==
    LET q == request[r] IN
    /\ q.stage = "arrived"
    /\ \/ SetRequest(r, Reply(q, "unavailable"))
       \/ /\ q.session # Nobody
          /\ SetRequest(r, IF CsrfPasses(q, q.session) THEN ToLimiter(q, q.session)
                                                       ELSE Reply(q, "csrf"))
       \/ SetRequest(r, Reply(q, "refused"))
       \/ SetRequest(r, ToLimiter(q, Nobody))
    /\ UNCHANGED <<issued, expired>>

---------------------------------------------------------------------------
(* checkRateLimit *)

Charge(q) == IF q.user = Nobody THEN q ELSE [q EXCEPT !.charged = @ \cup {q.stage}]

(* After its last window a request is served, or told it is not signed in.  *)
Granted(q) ==
    IF q.stage = "daily" /\ "hourly" \in LimitedBy(q.route, q.user)
    THEN [q EXCEPT !.stage = "hourly"]
    ELSE IF q.user # Nobody THEN [q EXCEPT !.stage = "handler"]
    ELSE Reply(q, "refused")

(* Fail closed. *)
WithoutLimiter(q) == Reply(q, "unavailable")

CheckWindow(r) ==
    LET q == request[r] IN
    /\ q.stage \in Windows
    /\ \/ SetRequest(r, Granted(Charge(q)))
       \/ SetRequest(r, Reply(q, "refused"))
       \/ SetRequest(r, WithoutLimiter(q))
       \/ SetRequest(r, WithoutLimiter(Charge(q)))     \* its reply was lost
    /\ UNCHANGED <<issued, expired>>

---------------------------------------------------------------------------
(* The handlers *)

(* sendCreateJobError: a create that threw is ADD_FAILED. *)
UnknownOutcome == "failed"

(* Billing or storage unknown, and nothing inserted: SERVICE_UNAVAILABLE.   *)
(* The insert may also be refused, or run and its outcome be lost.          *)
HandleCreate(r) ==
    LET q == request[r] IN
    /\ q.stage = "handler" /\ q.route = "create"
    /\ \/ SetRequest(r, Reply(q, "unavailable"))
       \/ SetRequest(r, Reply(q, "failed"))
       \/ SetRequest(r, Reply([q EXCEPT !.effect = TRUE], "ok"))
       \/ SetRequest(r, Reply([q EXCEPT !.effect = TRUE], UnknownOutcome))
    /\ UNCHANGED <<issued, expired>>

(* generateCsrfToken: bound to the user the request authenticated as. *)
HandleCsrf(r) ==
    LET q == request[r] IN
    /\ q.stage = "handler" /\ q.route = "csrf"
    /\ issued < MaxTokens
    /\ issued' = issued + 1
    /\ SetRequest(r, Reply([q EXCEPT !.token = [user |-> q.user, serial |-> issued + 1]], "ok"))
    /\ UNCHANGED expired

(* The invocation dies, or its reply does. *)
Vanish(r) ==
    /\ request[r].stage # "none" /\ request[r].reply # "lost"
    /\ SetRequest(r, Reply([request[r] EXCEPT !.token = NoToken], "lost"))
    /\ UNCHANGED <<issued, expired>>

GateStep(r) ==
    \/ Authenticate(r) \/ CheckWindow(r) \/ HandleCreate(r) \/ HandleCsrf(r)

GateInit ==
    /\ request = [r \in Slots |-> NoRequest]
    /\ issued = 0
    /\ expired = 0

---------------------------------------------------------------------------
(* Properties of the gate *)

(* "so forged tokens don't consume quota" and "to avoid draining the        *)
(* smaller hourly bucket" (withRateLimit.js, rateLimit.js): a request       *)
(* refused for its token or its session has cost its user nothing, one      *)
(* refused by the day has not cost an hour's place, and a handler runs only *)
(* for a request that every window of its operation let in.                 *)
ChargesFit ==
    [][\A r \in Slots :
         LET q == request[r]
             now == request'[r]
         IN
         /\ now.reply # q.reply /\ (now.reply = "csrf" \/ q.stage = "arrived") => q.charged = {}
         /\ "hourly" \in now.charged /\ "daily" \in WindowsOf(q.route) => "daily" \in now.charged
         /\ now.stage = "handler" => now.charged = WindowsOf(q.route)
         /\ now.effect /\ ~q.effect => q.charged = Windows /\ q.header.user = q.user]_request

=============================================================================
