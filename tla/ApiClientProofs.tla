-------------------------- MODULE ApiClientProofs --------------------------
(***************************************************************************)
(* Proofs about ApiClient and the gate behind it, for any accounts, calls, *)
(* numbers of retries, tokens and changes made by other tabs.              *)
(*                                                                         *)
(* A request that took effect is never answered with a code the client     *)
(* tries again on, so a call that is still at work has made nothing yet:   *)
(* that gives OneEffectPerCall.  CsrfFailureIsExplained needs the chain of *)
(* one refresh: while nobody interferes (calm), the token fetched belongs  *)
(* to the session of now, the second round carries it as header and as     *)
(* cookie, and the gate lets it pass.                                      *)
(***************************************************************************)
EXTENDS ApiClient, TLAPS

---------------------------------------------------------------------------
(* The invariant *)

(* What a request has been through says what it has been charged, and       *)
(* whether it may have taken effect.                                        *)
GateOK(q) ==
    /\ q \in Request
    /\ q.stage # "replied" \/ q.reply \in {"unavailable", "csrf"} => ~q.effect
    /\ q.stage \in {"none", "arrived", "daily", "replied"} => q.charged = {}
    /\ q.stage = "daily" => q.route = "create" \/ q.user = Nobody
    /\ q.stage = "hourly" =>
         q.charged = IF q.user # Nobody /\ q.route = "create" THEN {"daily"} ELSE {}
    /\ q.stage = "handler" => q.user # Nobody /\ q.charged = WindowsOf(q.route)
    /\ q.stage \in Windows \cup {"handler"} /\ q.user # Nobody /\ q.route = "create" =>
         q.header.user = q.user
    /\ q.stage # "replied" => q.reply = "none"

(* A token that passes for session s. *)
Passes(t, s) == t # NoToken /\ t.serial > expired /\ t.user = s /\ s # Nobody

(* A request of the second round, while session s and cookie t stay. *)
CarriesToken(q, s, t) ==
    /\ q.stage = "arrived" => q.session = s /\ q.cookie = t /\ q.header = t
    /\ q.reply # "csrf"

(* A refresh on behalf of session s. *)
RefreshesFor(q, s) ==
    /\ q.stage = "arrived" => q.session = s
    /\ q.stage \in Windows \cup {"handler"} => q.user \in {s, Nobody}
    /\ q.stage = "replied" /\ q.reply = "ok" => Passes(q.token, s)

(* What a call k, with request q in its slot, has done and may rely on.      *)
Sound(k, q) ==
    /\ k \in Call
    /\ k.made <= 1
    /\ k.pc # "idle" => k.made = 0 /\ k.result = "none"
    /\ k.pc = "idle" => ~k.calm
    /\ k.pc = "waiting" => shared.running /\ (k.calm => shared.calm)
    /\ k.calm /\ k.pc \in {"refreshed", "sent", "asleep"} => Passes(cookie, session)
    /\ k.calm /\ k.pc \in {"sent", "asleep"} => k.second /\ k.header = cookie
    /\ k.calm /\ k.pc = "sent" => CarriesToken(q, session, cookie)

AInv ==
    /\ TypeOK
    /\ \A r \in Slots : GateOK(request[r])
    /\ \A c \in Calls : Sound(call[c], request[c])
    /\ cookie.serial <= issued
    /\ request[Refresh].route = "csrf" /\ request[Refresh].token.serial <= issued
    /\ shared.calm => shared.running /\ RefreshesFor(request[Refresh], session)

---------------------------------------------------------------------------
(* Requests *)

LEMMA NoRequestFacts ==
    /\ NoToken \in Token /\ NoRequest \in Request /\ GateOK(NoRequest)
    /\ NoRequest.stage = "none" /\ NoRequest.route = "csrf" /\ NoRequest.reply = "none"
    /\ NoRequest.charged = {} /\ NoRequest.effect = FALSE /\ NoRequest.token = NoToken
<1>1. NoToken \in Token
  BY DEF Token
<1>2. NoRequest \in Request
  BY <1>1 DEF NoRequest, Request, Routes, Stages, Replies, Windows
<1>3. /\ NoRequest.stage = "none" /\ NoRequest.route = "csrf" /\ NoRequest.reply = "none"
      /\ NoRequest.charged = {} /\ NoRequest.effect = FALSE /\ NoRequest.token = NoToken
  BY DEF NoRequest
<1>4. GateOK(NoRequest)
  BY <1>2, <1>3 DEF GateOK, Windows
<1> QED
  BY <1>1, <1>2, <1>3, <1>4

LEMMA ArrivingFacts ==
    ASSUME NEW route \in Routes, NEW s \in Users \cup {Nobody}, NEW t \in Token, NEW h \in Token
    PROVE  LET q == Arriving(route, s, t, h) IN
           /\ GateOK(q) /\ q.stage = "arrived" /\ q.route = route /\ q.session = s
           /\ q.cookie = t /\ q.header = h /\ q.reply = "none" /\ q.charged = {}
           /\ ~q.effect /\ q.token = NoToken
<1> DEFINE q == Arriving(route, s, t, h)
<1>1. q \in Request
  BY NoRequestFacts DEF Arriving, Request, Stages
<1>2. /\ q.stage = "arrived" /\ q.route = route /\ q.session = s /\ q.cookie = t
      /\ q.header = h /\ q.reply = "none" /\ q.charged = {} /\ ~q.effect
      /\ q.token = NoToken
  BY NoRequestFacts DEF Arriving, Request
<1> HIDE DEF q
<1>3. GateOK(q)
  BY <1>1, <1>2 DEF GateOK, Windows
<1> QED
  BY <1>2, <1>3 DEF q

LEMMA ReplyFacts ==
    ASSUME NEW q \in Request, NEW code \in Replies,
           code \in {"unavailable", "csrf"} => ~q.effect
    PROVE  LET now == Reply(q, code) IN
           /\ GateOK(now) /\ now.stage = "replied" /\ now.route = q.route
           /\ now.reply = code /\ now.token = q.token /\ now.effect = q.effect
           /\ now.charged = {}
<1> DEFINE now == Reply(q, code)
<1>1. now \in Request
  BY NoRequestFacts DEF Reply, Request, Stages
<1>2. /\ now.stage = "replied" /\ now.route = q.route /\ now.reply = code
      /\ now.token = q.token /\ now.effect = q.effect /\ now.charged = {}
  BY NoRequestFacts DEF Reply, Request
<1> HIDE DEF now
<1>3. GateOK(now)
  BY <1>1, <1>2 DEF GateOK, Windows
<1> QED
  BY <1>2, <1>3 DEF now

(* What one step of the gate may make of a request. *)
Fits(q, now) ==
    /\ now.reply # q.reply /\ (now.reply = "csrf" \/ q.stage = "arrived") => q.charged = {}
    /\ "hourly" \in now.charged /\ "daily" \in WindowsOf(q.route) => "daily" \in now.charged
    /\ now.stage = "handler" => now.charged = WindowsOf(q.route)
    /\ now.effect /\ ~q.effect => q.charged = Windows /\ q.header.user = q.user

Moves(q, now) ==
    /\ GateOK(now) /\ q.stage # "none" /\ now.stage # "none" /\ now.route = q.route
    /\ Fits(q, now)
    /\ now.token \in {q.token, NoToken} \/ now.token.serial = issued'
    /\ \A s, t : Passes(t, s) /\ CarriesToken(q, s, t) => CarriesToken(now, s, t)
    /\ \A s : q.route = "csrf" /\ RefreshesFor(q, s) => RefreshesFor(now, s)

(* A reply that is not a success moves on whatever went before. *)
LEMMA RefusalMoves ==
    ASSUME NEW q, GateOK(q), q.stage \notin {"none", "replied"},
           NEW code \in {"unavailable", "refused", "failed", "lost"}
    PROVE  Moves(q, Reply(q, code))
<1>1. q \in Request /\ ~q.effect
  BY DEF GateOK
<1>2. LET now == Reply(q, code) IN
      /\ GateOK(now) /\ now.stage = "replied" /\ now.route = q.route /\ now.reply = code
      /\ now.effect = q.effect /\ now.charged = {} /\ now.token = q.token
  BY <1>1, ReplyFacts DEF Replies
<1>3. Fits(q, Reply(q, code))
  BY <1>1, <1>2 DEF Fits, GateOK
<1> QED
  BY <1>2, <1>3 DEF Moves, CarriesToken, RefreshesFor, Windows

LEMMA ToLimiterFacts ==
    ASSUME NEW q, GateOK(q), q.stage = "arrived", NEW u \in Users \cup {Nobody},
           u # Nobody /\ q.route = "create" => q.header.user = u
    PROVE  LET now == ToLimiter(q, u) IN
           /\ GateOK(now) /\ now.stage \in Windows /\ now.route = q.route /\ now.user = u
           /\ now.reply = "none" /\ now.effect = FALSE /\ now.charged = {}
           /\ now.token = q.token
<1> DEFINE stage == FirstWindow(LimitedBy(q.route, u))
           now == ToLimiter(q, u)
<1>1. q \in Request /\ q.charged = {} /\ q.effect = FALSE /\ q.reply = "none"
  BY DEF GateOK, Request
<1>2. stage = IF u = Nobody \/ q.route = "create" THEN "daily" ELSE "hourly"
  BY <1>1 DEF FirstWindow, LimitedBy, WindowsOf, Windows, Request, Routes
<1>3. stage \in Windows /\ stage \in Stages
  BY <1>2 DEF Windows, Stages
<1> HIDE DEF stage
<1>4. now = [q EXCEPT !.stage = stage, !.user = u, !.session = Nobody, !.cookie = NoToken]
  BY DEF ToLimiter, stage
<1>5. /\ now \in Request /\ now.stage = stage /\ now.route = q.route /\ now.user = u
      /\ now.header = q.header /\ now.reply = q.reply /\ now.effect = q.effect
      /\ now.charged = q.charged /\ now.token = q.token
  BY <1>1, <1>3, <1>4, NoRequestFacts DEF Request
<1> HIDE DEF now
<1>6. GateOK(now)
  BY <1>1, <1>2, <1>5 DEF GateOK, Request, Routes, Windows
<1> QED
  BY <1>1, <1>3, <1>5, <1>6 DEF now

LEMMA AuthenticateMoves ==
    ASSUME NEW r \in Slots, GateOK(request[r]), Authenticate(r)
    PROVE  \E now : SetRequest(r, now) /\ Moves(request[r], now)
<1> DEFINE q == request[r]
<1>1. q.stage = "arrived" /\ q \in Request /\ q.charged = {} /\ q.effect = FALSE
  BY DEF Authenticate, GateOK, Request
<1>2. ASSUME NEW u \in Users \cup {Nobody}, u # Nobody /\ q.route = "create" => q.header.user = u,
             u \in {q.session, Nobody}
      PROVE  Moves(q, ToLimiter(q, u))
  <2>1. LET now == ToLimiter(q, u) IN
        /\ GateOK(now) /\ now.stage \in Windows /\ now.route = q.route /\ now.user = u
        /\ now.reply = "none" /\ now.effect = FALSE /\ now.charged = {}
        /\ now.token = q.token
    BY <1>1, <1>2, ToLimiterFacts
  <2>2. Fits(q, ToLimiter(q, u))
    BY <1>1, <2>1 DEF Fits, Windows
  <2> QED
    BY <1>1, <1>2, <2>1, <2>2 DEF Moves, CarriesToken, RefreshesFor, Windows
<1>3. CASE SetRequest(r, Reply(q, "unavailable")) \/ SetRequest(r, Reply(q, "refused"))
  BY <1>1, <1>3, RefusalMoves
<1>4. CASE SetRequest(r, ToLimiter(q, Nobody))
  BY <1>2, <1>4
<1>5. CASE /\ q.session # Nobody /\ CsrfPasses(q, q.session)
           /\ SetRequest(r, ToLimiter(q, q.session))
  <2>1. q.session \in Users \cup {Nobody} /\ (q.route = "create" => q.header.user = q.session)
    BY <1>1, <1>5 DEF CsrfPasses, TokenPasses, Request
  <2> QED
    BY <1>2, <1>5, <2>1
<1>6. CASE /\ q.session # Nobody /\ ~CsrfPasses(q, q.session)
           /\ SetRequest(r, Reply(q, "csrf"))
  <2>1. LET now == Reply(q, "csrf") IN
        /\ GateOK(now) /\ now.stage = "replied" /\ now.route = q.route /\ now.reply = "csrf"
        /\ now.effect = FALSE /\ now.charged = {} /\ now.token = q.token
    BY <1>1, ReplyFacts DEF Replies
  <2>2. Fits(q, Reply(q, "csrf"))
    BY <1>1, <2>1 DEF Fits
  <2>3. ASSUME NEW s, NEW t, Passes(t, s), CarriesToken(q, s, t)
        PROVE  FALSE
    BY <1>1, <1>6, <2>3 DEF Passes, CarriesToken, CsrfPasses, TokenPasses
  <2>4. Moves(q, Reply(q, "csrf"))
    BY <1>1, <2>1, <2>2, <2>3 DEF Moves, RefreshesFor, Windows
  <2> QED
    BY <1>6, <2>4
<1> QED
  BY <1>3, <1>4, <1>5, <1>6 DEF Authenticate

LEMMA CheckWindowMoves ==
    ASSUME NEW r \in Slots, GateOK(request[r]), CheckWindow(r)
    PROVE  \E now : SetRequest(r, now) /\ Moves(request[r], now)
<1> DEFINE q == request[r]
           charged == Charge(q)
<1>1. q.stage \in Windows /\ q \in Request /\ q.effect = FALSE /\ q.reply = "none"
  BY DEF CheckWindow, GateOK, Request, Windows
<1>2. /\ charged \in Request /\ charged.effect = FALSE /\ charged.stage = q.stage
      /\ charged.user = q.user /\ charged.route = q.route /\ charged.header = q.header
      /\ charged.reply = "none" /\ charged.token = q.token
      /\ charged.charged = IF q.user = Nobody THEN q.charged ELSE q.charged \cup {q.stage}
  BY <1>1 DEF Charge, Request
<1> HIDE DEF charged
<1>3. CASE SetRequest(r, Reply(q, "refused")) \/ SetRequest(r, WithoutLimiter(q))
  BY <1>1, <1>3, RefusalMoves DEF WithoutLimiter, Windows
<1>4. CASE SetRequest(r, Reply(charged, "unavailable"))
  <2>1. LET now == Reply(charged, "unavailable") IN
        /\ GateOK(now) /\ now.stage = "replied" /\ now.route = q.route
        /\ now.reply = "unavailable" /\ now.effect = FALSE /\ now.charged = {}
        /\ now.token = q.token
    BY <1>2, ReplyFacts DEF Replies
  <2>2. Fits(q, Reply(charged, "unavailable"))
    BY <1>1, <2>1 DEF Fits, Windows
  <2>3. Moves(q, Reply(charged, "unavailable"))
    BY <1>1, <2>1, <2>2 DEF Moves, CarriesToken, RefreshesFor, Windows
  <2> QED
    BY <1>4, <2>3
<1>5. CASE SetRequest(r, Granted(charged))
  <2>1. CASE q.stage = "daily"
    <3> DEFINE now == [charged EXCEPT !.stage = "hourly"]
    <3>1. Granted(charged) = now
      BY <1>2, <2>1 DEF Granted, LimitedBy, WindowsOf, Windows
    <3>2. /\ now \in Request /\ now.stage = "hourly" /\ now.effect = FALSE
          /\ now.user = q.user /\ now.route = q.route /\ now.header = q.header
          /\ now.reply = "none" /\ now.charged = charged.charged
          /\ now.token = q.token
      BY <1>2 DEF Request, Stages, Windows
    <3> HIDE DEF now
    <3>3. q.charged = {} /\ (q.route = "create" \/ q.user = Nobody)
      BY <2>1 DEF GateOK
    <3>4. now.charged = IF q.user # Nobody /\ q.route = "create" THEN {"daily"} ELSE {}
      BY <1>2, <2>1, <3>2, <3>3
    <3>5. q.user # Nobody /\ q.route = "create" => q.header.user = q.user
      BY <1>1 DEF GateOK
    <3>6. GateOK(now)
      BY <3>2, <3>4, <3>5 DEF GateOK, Windows
    <3>7. Fits(q, now)
      BY <1>1, <3>2, <3>4 DEF Fits
    <3>8. Moves(q, now)
      BY <1>1, <2>1, <3>2, <3>6, <3>7 DEF Moves, CarriesToken, RefreshesFor, Windows
    <3> QED
      BY <1>5, <3>1, <3>8
  <2>2. CASE q.stage = "hourly" /\ q.user # Nobody
    <3> DEFINE now == [charged EXCEPT !.stage = "handler"]
    <3>1. Granted(charged) = now
      BY <1>2, <2>2 DEF Granted
    <3>2. /\ now \in Request /\ now.stage = "handler" /\ now.effect = FALSE
          /\ now.user = q.user /\ now.route = q.route /\ now.header = q.header
          /\ now.reply = "none" /\ now.charged = charged.charged
          /\ now.token = q.token
      BY <1>2 DEF Request, Stages
    <3> HIDE DEF now
    <3>3. now.charged = WindowsOf(q.route)
      <4>1. q.route \in {"create", "csrf"}
        BY <1>1 DEF Request, Routes
      <4>2. q.charged = IF q.route = "create" THEN {"daily"} ELSE {}
        BY <2>2 DEF GateOK
      <4> QED
        BY <1>2, <2>2, <3>2, <4>1, <4>2 DEF WindowsOf, Windows
    <3>4. q.user # Nobody /\ q.route = "create" => q.header.user = q.user
      BY <1>1 DEF GateOK
    <3>5. GateOK(now)
      BY <2>2, <3>2, <3>3, <3>4 DEF GateOK, Windows
    <3>6. Fits(q, now)
      BY <1>1, <3>2, <3>3 DEF Fits, Windows
    <3>7. Moves(q, now)
      BY <1>1, <2>2, <3>2, <3>5, <3>6 DEF Moves, CarriesToken, RefreshesFor, Windows
    <3> QED
      BY <1>5, <3>1, <3>7
  <2>3. CASE q.stage = "hourly" /\ q.user = Nobody
    <3>1. charged = q /\ Granted(charged) = Reply(q, "refused")
      BY <2>3 DEF Granted, Charge, charged
    <3> QED
      BY <1>5, <2>3, <3>1, RefusalMoves
  <2> QED
    BY <1>1, <2>1, <2>2, <2>3 DEF Windows
<1> QED
  BY <1>3, <1>4, <1>5 DEF CheckWindow, WithoutLimiter, charged

LEMMA HandleCreateMoves ==
    ASSUME NEW r \in Slots, GateOK(request[r]), HandleCreate(r)
    PROVE  \E now : SetRequest(r, now) /\ Moves(request[r], now)
<1> DEFINE q == request[r]
           made == [q EXCEPT !.effect = TRUE]
<1>1. q.stage = "handler" /\ q.route = "create" /\ q \in Request /\ q.effect = FALSE
  BY DEF HandleCreate, GateOK, Request
<1>2. made \in Request /\ made.effect = TRUE /\ made.route = "create" /\ made.token = q.token
  BY <1>1 DEF Request
<1> HIDE DEF made
<1>3. q.charged = Windows /\ q.header.user = q.user
  BY <1>1 DEF GateOK, WindowsOf
<1>4. CASE SetRequest(r, Reply(q, "unavailable")) \/ SetRequest(r, Reply(q, "failed"))
  BY <1>1, <1>4, RefusalMoves
<1>5. ASSUME NEW code \in {"ok", "failed"}
      PROVE  Moves(q, Reply(made, code))
  <2>1. LET now == Reply(made, code) IN
        /\ GateOK(now) /\ now.stage = "replied" /\ now.route = "create"
        /\ now.reply = code /\ now.charged = {} /\ now.token = q.token
    BY <1>2, ReplyFacts DEF Replies
  <2>2. Fits(q, Reply(made, code))
    BY <1>1, <1>3, <2>1 DEF Fits
  <2> QED
    BY <1>1, <2>1, <2>2 DEF Moves, CarriesToken, RefreshesFor
<1> QED
  BY <1>4, <1>5 DEF HandleCreate, UnknownOutcome, made

LEMMA HandleCsrfMoves ==
    ASSUME NEW r \in Slots, GateOK(request[r]), HandleCsrf(r),
           issued \in 0..MaxTokens, expired \in 0..issued
    PROVE  \E now : SetRequest(r, now) /\ Moves(request[r], now)
<1> DEFINE q == request[r]
           t == [user |-> q.user, serial |-> issued + 1]
           ready == [q EXCEPT !.token = t]
           now == Reply(ready, "ok")
<1>1. /\ q.stage = "handler" /\ q.route = "csrf" /\ q \in Request /\ q.effect = FALSE
      /\ q.user \in Users /\ q.user # Nobody /\ SetRequest(r, now)
  BY DEF HandleCsrf, GateOK, Request
<1>2. t \in Token /\ t # NoToken /\ t.serial > expired /\ t.serial = issued'
  BY <1>1, TokenAssumption DEF HandleCsrf, Token, NoToken
<1>3. ready \in Request /\ ready.route = "csrf" /\ ready.token = t /\ ready.effect = FALSE
  BY <1>1, <1>2 DEF Request
<1>4. t.user = q.user
  OBVIOUS
<1> HIDE DEF t, ready
<1>5. /\ GateOK(now) /\ now.stage = "replied" /\ now.route = "csrf" /\ now.reply = "ok"
      /\ now.token = t /\ now.effect = FALSE /\ now.charged = {}
  BY <1>3, ReplyFacts DEF Replies
<1> HIDE DEF now
<1>6. Fits(q, now)
  BY <1>1, <1>5 DEF Fits
<1>7. ASSUME NEW s, RefreshesFor(q, s)
      PROVE  RefreshesFor(now, s)
  <2>1. q.user = s
    BY <1>1, <1>7 DEF RefreshesFor
  <2> QED
    BY <1>1, <1>2, <1>4, <1>5, <2>1 DEF RefreshesFor, Passes, Windows
<1> QED
  BY <1>1, <1>2, <1>5, <1>6, <1>7 DEF Moves, CarriesToken

LEMMA VanishMoves ==
    ASSUME NEW r \in Slots, GateOK(request[r]), Vanish(r)
    PROVE  \E now : SetRequest(r, now) /\ Moves(request[r], now)
<1> DEFINE q == request[r]
           silent == [q EXCEPT !.token = NoToken]
           now == Reply(silent, "lost")
<1>1. q.stage # "none" /\ q \in Request /\ SetRequest(r, now)
  BY DEF Vanish, GateOK
<1>2. /\ silent \in Request /\ silent.route = q.route /\ silent.effect = q.effect
      /\ silent.token = NoToken
  BY <1>1, NoRequestFacts DEF Request
<1> HIDE DEF silent
<1>3. /\ GateOK(now) /\ now.stage = "replied" /\ now.route = q.route /\ now.reply = "lost"
      /\ now.effect = q.effect /\ now.charged = {} /\ now.token = NoToken
  BY <1>2, ReplyFacts DEF Replies
<1> HIDE DEF now
<1>4. Fits(q, now)
  BY <1>3 DEF Fits, GateOK
<1> QED
  BY <1>1, <1>3, <1>4 DEF Moves, CarriesToken, RefreshesFor, Windows

LEMMA GateMoves ==
    ASSUME NEW r \in Slots, GateOK(request[r]), GateStep(r) \/ Vanish(r),
           issued \in 0..MaxTokens, expired \in 0..issued
    PROVE  /\ \E now : SetRequest(r, now) /\ Moves(request[r], now)
           /\ issued' \in 0..MaxTokens /\ expired' = expired /\ expired' \in 0..issued'
           /\ issued <= issued'
<1>1. \E now : SetRequest(r, now) /\ Moves(request[r], now)
  BY AuthenticateMoves, CheckWindowMoves, HandleCreateMoves, HandleCsrfMoves, VanishMoves
     DEF GateStep
<1>2. /\ issued' \in 0..MaxTokens /\ expired' = expired /\ expired' \in 0..issued'
      /\ issued <= issued'
  BY TokenAssumption
     DEF GateStep, Authenticate, CheckWindow, HandleCreate, HandleCsrf, Vanish
<1> QED
  BY <1>1, <1>2

---------------------------------------------------------------------------
(* Calls *)

(* What a step of the page puts into a slot: nothing, or a new request.     *)
Blank(q) ==
    /\ GateOK(q) /\ q.stage \in {"none", "arrived"} /\ q.token = NoToken
    /\ q.reply = "none" /\ q.charged = {} /\ ~q.effect

LEMMA KeptFits == ASSUME NEW q, GateOK(q) PROVE Fits(q, q)
  BY DEF GateOK, Fits, WindowsOf, Windows, Request, Routes, Stages

LEMMA BlankFits == ASSUME NEW q, GateOK(q), NEW now, Blank(now) PROVE Fits(q, now)
  BY DEF GateOK, Fits, Blank

LEMMA NoRequestIsBlank == Blank(NoRequest)
  BY NoRequestFacts DEF Blank

LEMMA Refreshing == Refresh \in Slots /\ Refresh \notin Calls /\ Calls \subseteq Slots
  BY SlotAssumption

LEMMA Assemble ==
    ASSUME request' = [r \in Slots |-> request'[r]], call' = [c \in Calls |-> call'[c]],
           \A r \in Slots : GateOK(request'[r]),
           \A c \in Calls : Sound(call[c], request[c])',
           issued' \in 0..MaxTokens, expired' \in 0..issued',
           session' \in Users \cup {Nobody}, cookie' \in Token,
           shared' \in [running: BOOLEAN, calm: BOOLEAN], changes' \in 0..MaxChanges,
           shared'.running <=> \E c \in Calls : call'[c].pc = "waiting",
           shared'.running <=> request'[Refresh].stage # "none",
           request'[Refresh].route = "csrf",
           cookie'.serial <= issued', request'[Refresh].token.serial <= issued',
           shared'.calm => shared'.running /\ RefreshesFor(request[Refresh], session)'
    PROVE  AInv'
<1>1. request' \in [Slots -> Request]
  BY DEF GateOK
<1>2. call' \in [Calls -> Call]
  BY DEF Sound
<1> QED
  BY <1>1, <1>2 DEF AInv, TypeOK

LEMMA Basics ==
    ASSUME AInv
    PROVE  /\ request \in [Slots -> Request] /\ call \in [Calls -> Call]
           /\ issued \in 0..MaxTokens /\ expired \in 0..issued
           /\ session \in Users \cup {Nobody} /\ cookie \in Token
           /\ shared \in [running: BOOLEAN, calm: BOOLEAN] /\ changes \in 0..MaxChanges
           /\ shared.running <=> \E c \in Calls : call[c].pc = "waiting"
           /\ shared.running <=> request[Refresh].stage # "none"
           /\ cookie.serial <= issued /\ request[Refresh].token.serial <= issued
           /\ request[Refresh].route = "csrf"
  BY DEF AInv, TypeOK

(* A step that moves one call and its request, and nothing else.            *)
LEMMA OneCallKeeps ==
    ASSUME AInv, NEW c \in Calls, NEW k, NEW x, SetCall(c, k), SetRequest(c, x),
           UNCHANGED <<issued, expired, session, cookie, shared, changes>>,
           call[c].pc # "waiting", GateOK(x), Sound(k, x)
    PROVE  AInv'
<1>1. \A d \in Calls : call'[d] = IF d = c THEN k ELSE call[d]
  BY Basics DEF SetCall
<1>2. \A r \in Slots : request'[r] = IF r = c THEN x ELSE request[r]
  BY Basics DEF SetRequest
<1>3. /\ request' = [r \in Slots |-> request'[r]] /\ call' = [d \in Calls |-> call'[d]]
  BY Basics DEF SetCall, SetRequest
<1>4. \A r \in Slots : GateOK(request'[r])
  BY <1>2 DEF AInv
<1>5. ASSUME NEW d \in Calls
      PROVE  Sound(call[d], request[d])'
  <2>1. Sound(call'[d], request'[d])
    BY <1>1, <1>2, Refreshing DEF AInv
  <2> QED
    BY <2>1 DEF Sound, CarriesToken, Passes
<1>6. shared.running <=> \E d \in Calls : call'[d].pc = "waiting"
  <2>1. k.pc = "waiting" => shared.running
    BY DEF Sound
  <2> QED
    BY <1>1, <2>1, Basics
<1>7. request'[Refresh] = request[Refresh]
  BY <1>2, Refreshing
<1>8. shared'.calm => shared'.running /\ RefreshesFor(request[Refresh], session)'
  BY <1>7 DEF AInv, RefreshesFor, Passes
<1>9. request'[Refresh].route = "csrf"
  BY <1>7 DEF AInv
<1> QED
  BY <1>3, <1>4, <1>5, <1>6, <1>7, <1>8, <1>9, Basics, Assemble

LEMMA GateKeeps ==
    ASSUME AInv, NEW r \in Slots, GateStep(r) \/ Vanish(r), UNCHANGED clientVars
    PROVE  AInv' /\ \A s \in Slots : Fits(request[s], request'[s])
<1>1. GateOK(request[r])
  BY DEF AInv
<1>2. PICK now : SetRequest(r, now) /\ Moves(request[r], now)
  BY <1>1, GateMoves, Basics
<1>3. /\ issued' \in 0..MaxTokens /\ expired' = expired /\ expired' \in 0..issued'
      /\ issued <= issued'
  BY <1>1, GateMoves, Basics
<1>4. UNCHANGED <<session, cookie, call, shared, changes>>
  BY DEF clientVars
<1>5. \A s \in Slots : request'[s] = IF s = r THEN now ELSE request[s]
  BY <1>2, Basics DEF SetRequest
<1>6. request' = [s \in Slots |-> request'[s]] /\ call' = [c \in Calls |-> call'[c]]
  BY <1>2, <1>4, Basics DEF SetRequest
<1>7. \A s \in Slots : GateOK(request'[s])
  BY <1>2, <1>5 DEF AInv, Moves
<1>8. ASSUME NEW c \in Calls
      PROVE  Sound(call[c], request[c])'
  <2>1. Sound(call[c], request[c])
    BY DEF AInv
  <2>2. call[c].calm /\ call[c].pc = "sent" => CarriesToken(request'[c], session, cookie)
    <3>1. CASE c = r
      BY <1>2, <1>5, <2>1, <3>1 DEF Sound, Moves
    <3>2. CASE c # r
      BY <1>5, <2>1, <3>2, Refreshing DEF Sound
    <3> QED
      BY <3>1, <3>2
  <2> QED
    BY <1>3, <1>4, <2>1, <2>2 DEF Sound, CarriesToken, Passes
<1>9. /\ request'[Refresh].route = "csrf"
      /\ request'[Refresh].stage # "none" <=> request[Refresh].stage # "none"
      /\ RefreshesFor(request[Refresh], session) => RefreshesFor(request'[Refresh], session)
  BY <1>2, <1>5, Refreshing DEF AInv, Moves
<1>10. shared'.calm => shared'.running /\ RefreshesFor(request[Refresh], session)'
  BY <1>3, <1>4, <1>9 DEF AInv, RefreshesFor, Passes
<1>11. cookie'.serial <= issued' /\ request'[Refresh].token.serial <= issued'
  <2>1. /\ request[Refresh].token \in Token /\ cookie.serial \in Int
        /\ request[Refresh].token.serial \in Int /\ NoToken.serial = 0
    BY Basics, Refreshing, TokenAssumption DEF Request, Token, NoToken
  <2>2. request'[Refresh] = request[Refresh] \/ Moves(request[Refresh], request'[Refresh])
    BY <1>2, <1>5, Refreshing
  <2>3. \/ request'[Refresh].token \in {request[Refresh].token, NoToken}
        \/ request'[Refresh].token.serial = issued'
    BY <2>2 DEF Moves
  <2> QED
    BY <1>3, <1>4, <2>1, <2>3, Basics
<1>12. AInv'
  BY <1>3, <1>4, <1>6, <1>7, <1>8, <1>9, <1>10, <1>11, Basics, Assemble
<1>13. \A s \in Slots : Fits(request[s], request'[s])
  BY <1>2, <1>5, KeptFits DEF AInv, Moves
<1> QED
  BY <1>12, <1>13

(* Somebody changes the session or the token: nobody is calm any more.      *)
LEMMA UnsettledKeeps ==
    ASSUME AInv, request' = request, call' = Unsettled(call),
           shared' = [shared EXCEPT !.calm = FALSE],
           issued' \in 0..MaxTokens, expired' \in 0..issued',
           session' \in Users \cup {Nobody}, cookie' \in Token, changes' \in 0..MaxChanges,
           cookie'.serial <= issued', issued <= issued'
    PROVE  AInv'
<1>1. \A c \in Calls : call'[c] = [call[c] EXCEPT !.calm = FALSE]
  BY DEF Unsettled
<1>2. /\ request' = [r \in Slots |-> request'[r]] /\ call' = [c \in Calls |-> call'[c]]
      /\ \A r \in Slots : GateOK(request'[r])
  BY Basics DEF Unsettled, AInv
<1>3. shared' \in [running: BOOLEAN, calm: BOOLEAN] /\ shared'.running = shared.running
      /\ shared'.calm = FALSE
  BY Basics
<1>4. ASSUME NEW c \in Calls
      PROVE  Sound(call[c], request[c])' /\ call'[c].pc = call[c].pc
  <2>1. Sound(call[c], request[c]) /\ call[c] \in Call
    BY Basics DEF AInv
  <2>2. /\ call'[c] \in Call /\ call'[c].calm = FALSE /\ call'[c].pc = call[c].pc
        /\ call'[c].made = call[c].made /\ call'[c].result = call[c].result
    BY <1>1, <2>1 DEF Call
  <2> QED
    BY <1>3, <2>1, <2>2 DEF Sound
<1>5. shared'.running <=> \E c \in Calls : call'[c].pc = "waiting"
  BY <1>3, <1>4, Basics
<1>6. request'[Refresh].route = "csrf" /\ (shared'.running <=> request'[Refresh].stage # "none")
  BY <1>3, Basics DEF AInv
<1>7. request'[Refresh].token.serial <= issued'
  <2>1. request[Refresh].token.serial \in Int
    BY Basics, Refreshing, TokenAssumption DEF Request, Token, NoToken
  <2> QED
    BY <2>1, Basics
<1> QED
  BY <1>2, <1>3, <1>4, <1>5, <1>6, <1>7, Assemble

LEMMA ChangeKeeps ==
    ASSUME AInv, (\E u \in Users : SignIn(u) \/ TokenPrimed(u)) \/ SignOut \/ TokenExpires
    PROVE  AInv' /\ request' = request
<1>1. changes' \in 0..MaxChanges
  BY Basics, RetryAssumption DEF SignIn, TokenPrimed, SignOut, TokenExpires, Changing
<1>2. /\ request' = request /\ call' = Unsettled(call)
      /\ shared' = [shared EXCEPT !.calm = FALSE]
  BY DEF SignIn, TokenPrimed, SignOut, TokenExpires, gateVars
<1>3. CASE \E u \in Users : SignIn(u)
  BY <1>1, <1>2, <1>3, Basics, UnsettledKeeps DEF SignIn, gateVars
<1>4. CASE SignOut
  <2>1. cookie' = NoToken /\ NoToken.serial = 0 /\ UNCHANGED <<issued, expired>>
    BY <1>4 DEF SignOut, gateVars, NoToken
  <2> QED
    BY <1>1, <1>2, <1>4, <2>1, Basics, NoRequestFacts, UnsettledKeeps DEF SignOut
<1>5. ASSUME NEW u \in Users, TokenPrimed(u)
      PROVE  AInv'
  <2>1. issued' = issued + 1 /\ issued' \in 0..MaxTokens /\ expired' \in 0..issued'
    BY <1>5, Basics, TokenAssumption DEF TokenPrimed
  <2>2. cookie' \in Token /\ session' = session /\ cookie'.serial = issued'
    BY <1>5, <2>1, Basics, TokenAssumption DEF TokenPrimed, Token
  <2> QED
    BY <1>1, <1>2, <2>1, <2>2, Basics, UnsettledKeeps
<1>6. CASE TokenExpires
  <2>1. issued' = issued /\ session' = session /\ cookie' \in Token
    BY <1>6, NoRequestFacts DEF TokenExpires
  <2>2. expired' \in 0..issued'
    BY <1>6, <2>1, Basics, TokenAssumption DEF TokenExpires, Token
  <2>3. cookie'.serial <= issued'
    BY <1>6, <2>1, Basics DEF TokenExpires, NoToken
  <2> QED
    BY <1>1, <1>2, <2>1, <2>2, <2>3, Basics, UnsettledKeeps
<1> QED
  BY <1>2, <1>3, <1>4, <1>5, <1>6

(* Where a call may be sent from: what it is then is sound. *)
LEMMA SendFacts ==
    ASSUME AInv, NEW k \in Call, k.made = 0, k.result = "none",
           k.calm => Passes(cookie, session) /\ k.second /\ k.header = cookie,
           NEW x, x = Arriving("create", session, cookie, k.header)
    PROVE  GateOK(x) /\ Sound([k EXCEPT !.pc = "sent"], x)
<1> DEFINE sent == [k EXCEPT !.pc = "sent"]
<1>1. /\ "create" \in Routes /\ session \in Users \cup {Nobody} /\ cookie \in Token
      /\ k.header \in Token
  BY Basics DEF Routes, Call
<1>2. /\ GateOK(x) /\ x.stage = "arrived" /\ x.session = session
      /\ x.cookie = cookie /\ x.header = k.header /\ x.reply = "none"
  BY <1>1, ArrivingFacts
<1>3. /\ sent \in Call /\ sent.pc = "sent" /\ sent.made = 0 /\ sent.result = "none"
      /\ sent.calm = k.calm /\ sent.second = k.second /\ sent.header = k.header
  BY DEF Call
<1> HIDE DEF sent
<1>4. Sound(sent, x)
  BY <1>2, <1>3 DEF Sound, CarriesToken
<1> QED
  BY <1>2, <1>4 DEF sent

LEMMA NewCallFacts ==
    /\ NewCall \in Call /\ NewCall.made = 0 /\ NewCall.result = "none"
    /\ NewCall.calm = FALSE /\ NewCall.pc = "idle"
<1>1. 0 \in 0..Retries
  BY RetryAssumption
<1> QED
  BY <1>1, NoRequestFacts DEF NewCall, Call

LEMMA SendKeeps ==
    ASSUME AInv, NEW c \in Calls, Begin(c) \/ Wake(c) \/ Resume(c)
    PROVE  AInv'
<1>1. call[c] \in Call /\ Sound(call[c], request[c]) /\ cookie \in Token
  BY Basics DEF AInv
<1>2. call[c].header \in Token
  BY <1>1 DEF Call
<1>3. ASSUME NEW k \in Call, Send(c, k), call[c].pc # "waiting",
             k.made = 0, k.result = "none",
             k.calm => Passes(cookie, session) /\ k.second /\ k.header = cookie,
             UNCHANGED <<issued, expired, session, cookie, shared, changes>>
      PROVE  AInv'
  <2> DEFINE x == Arriving("create", session, cookie, k.header)
  <2>1. GateOK(x) /\ Sound([k EXCEPT !.pc = "sent"], x)
    BY <1>3, SendFacts
  <2> QED
    BY <1>3, <2>1, OneCallKeeps DEF Send
<1>4. CASE Begin(c)
  <2> DEFINE k == [NewCall EXCEPT !.header = cookie]
  <2>1. k \in Call /\ k.made = 0 /\ k.result = "none" /\ k.calm = FALSE
    BY <1>1, NewCallFacts DEF Call
  <2>2. Send(c, k) /\ call[c].pc # "waiting"
    BY <1>4 DEF Begin
  <2> HIDE DEF k
  <2> QED
    BY <1>3, <1>4, <2>1, <2>2 DEF Begin
<1>5. CASE Wake(c)
  BY <1>1, <1>3, <1>5 DEF Wake, Sound
<1>6. CASE Resume(c)
  <2> DEFINE k == [call[c] EXCEPT !.second = TRUE, !.attempt = 0, !.header = cookie]
  <2>1. 0 \in 0..Retries
    BY RetryAssumption
  <2>2. /\ k \in Call /\ k.made = call[c].made /\ k.result = call[c].result
        /\ k.calm = call[c].calm /\ k.second = TRUE /\ k.header = cookie
    BY <1>1, <2>1 DEF Call
  <2>3. call[c].pc = "refreshed"
    BY <1>6 DEF Resume
  <2>4. [k EXCEPT !.pc = "sent"]
          = [call[c] EXCEPT !.pc = "sent", !.second = TRUE, !.attempt = 0, !.header = cookie]
    BY <1>1 DEF Call
  <2>5. Send(c, k)
    BY <1>6, <2>4 DEF Resume, Send
  <2> HIDE DEF k
  <2> QED
    BY <1>1, <1>3, <1>6, <2>2, <2>3, <2>5 DEF Resume, Sound
<1> QED
  BY <1>4, <1>5, <1>6

LEMMA ReturnFacts ==
    ASSUME NEW k \in Call, k.made <= 1, NEW result, result = "csrf" => ~k.calm
    PROVE  Sound(Return(k, result), NoRequest) /\ Return(k, result).pc = "idle"
<1> DEFINE back == Return(k, result)
<1>1. k.made \in Nat /\ k.calm \in BOOLEAN /\ NewCall \in Call
  BY NewCallFacts DEF Call
<1>2. /\ back \in Call /\ back.pc = "idle" /\ back.made = k.made
      /\ back.calm <=> k.calm /\ result = "csrf"
  BY <1>1, NewCallFacts DEF Return, Call
<1> HIDE DEF back
<1>3. Sound(back, NoRequest)
  BY <1>2 DEF Sound
<1> QED
  BY <1>2, <1>3 DEF back

(* The call whose reply has come, counted. *)
LEMMA ReceivedFacts ==
    ASSUME AInv, NEW c \in Calls, call[c].pc = "sent", request[c].stage = "replied",
           NEW k, k = [call[c] EXCEPT !.made = @ + IF request[c].effect THEN 1 ELSE 0]
    PROVE  /\ k \in Call /\ k.made \in {0, 1} /\ k.result = "none" /\ k.pc = "sent"
           /\ request[c].reply \in {"unavailable", "csrf"} => k.made = 0
           /\ k.calm => /\ Passes(cookie, session) /\ k.second /\ k.header = cookie
                        /\ request[c].reply # "csrf"
<1>1. /\ call[c] \in Call /\ Sound(call[c], request[c]) /\ GateOK(request[c])
  BY Basics, Refreshing DEF AInv
<1>2. call[c].made = 0 /\ call[c].result = "none"
  BY <1>1 DEF Sound
<1>3. k.made = IF request[c].effect THEN 1 ELSE 0
  BY <1>1, <1>2 DEF Call
<1>4. /\ k \in Call /\ k.result = "none" /\ k.pc = "sent" /\ k.calm = call[c].calm
      /\ k.second = call[c].second /\ k.header = call[c].header
  BY <1>1, <1>2 DEF Call
<1>5. request[c].reply \in {"unavailable", "csrf"} => ~request[c].effect
  BY <1>1 DEF GateOK
<1>6. k.calm => /\ Passes(cookie, session) /\ k.second /\ k.header = cookie
                /\ request[c].reply # "csrf"
  BY <1>1, <1>4 DEF Sound, CarriesToken
<1> QED
  BY <1>3, <1>4, <1>5, <1>6

(* A call that has lost nothing and made nothing waits for the refresh.     *)
LEMMA WaitingFacts ==
    ASSUME NEW k \in Call, k.made = 0, k.result = "none", NEW calm \in BOOLEAN,
           NEW now, now = [k EXCEPT !.pc = "waiting", !.calm = calm]
    PROVE  /\ now \in Call /\ now.pc = "waiting" /\ now.made = 0 /\ now.result = "none"
           /\ now.calm <=> calm
  BY DEF Call

LEMMA RefreshRequestFacts ==
    ASSUME AInv, NEW x, x = Arriving("csrf", session, cookie, NoToken)
    PROVE  /\ GateOK(x) /\ x.stage = "arrived" /\ x.route = "csrf" /\ x.session = session
           /\ x.token = NoToken /\ Blank(x)
<1>1. /\ "csrf" \in Routes /\ session \in Users \cup {Nobody} /\ cookie \in Token
      /\ NoToken \in Token
  BY Basics, NoRequestFacts DEF Routes
<1>2. GateOK(x) /\ x.stage = "arrived" /\ x.route = "csrf"
  BY <1>1, ArrivingFacts
<1>3. x.session = session /\ x.token = NoToken
  BY <1>1, ArrivingFacts
<1>4. x.reply = "none" /\ x.charged = {} /\ ~x.effect
  BY <1>1, ArrivingFacts
<1> QED
  BY <1>2, <1>3, <1>4 DEF Blank

LEMMA StartRefreshKeeps ==
    ASSUME AInv, NEW c \in Calls, call[c].pc = "sent", NEW k \in Call, k.made = 0,
           k.result = "none", StartRefresh(c, k),
           UNCHANGED <<issued, expired, session, cookie, changes>>
    PROVE  AInv'
<1>1. shared.running \in BOOLEAN /\ shared.calm \in BOOLEAN
  BY Basics
<1>2. CASE shared.running
  <2> DEFINE now == [k EXCEPT !.pc = "waiting", !.calm = shared.calm]
  <2>1. SetCall(c, now) /\ SetRequest(c, NoRequest) /\ UNCHANGED shared
    <3>1. [k EXCEPT !.pc = IF shared.running THEN "waiting" ELSE "refreshed",
                    !.calm = shared.running => shared.calm] = now
      BY <1>1, <1>2 DEF Call
    <3> QED
      BY <1>2, <3>1 DEF StartRefresh, SharesRefresh
  <2>2. /\ now \in Call /\ now.pc = "waiting" /\ now.made = 0 /\ now.result = "none"
        /\ now.calm <=> shared.calm
    BY <1>1, WaitingFacts
  <2> HIDE DEF now
  <2>3. Sound(now, NoRequest)
    BY <1>2, <2>2 DEF Sound
  <2> QED
    BY <2>1, <2>3, NoRequestFacts, OneCallKeeps
<1>3. CASE ~shared.running
  <2> DEFINE now == [k EXCEPT !.pc = "waiting", !.calm = TRUE]
             x == Arriving("csrf", session, cookie, NoToken)
  <2>1. /\ SetCall(c, now)
        /\ request' = [request EXCEPT ![c] = NoRequest, ![Refresh] = x]
        /\ shared' = [running |-> TRUE, calm |-> TRUE]
    BY <1>3 DEF StartRefresh, SharesRefresh
  <2>2. /\ now \in Call /\ now.pc = "waiting" /\ now.made = 0 /\ now.result = "none"
    BY WaitingFacts
  <2>3. /\ GateOK(x) /\ x.stage = "arrived" /\ x.route = "csrf" /\ x.session = session
        /\ x.token = NoToken
    BY RefreshRequestFacts
  <2> HIDE DEF now, x
  <2>4. \A d \in Calls : call'[d] = IF d = c THEN now ELSE call[d]
    BY <2>1, Basics DEF SetCall
  <2>5. \A r \in Slots : request'[r] = IF r = Refresh THEN x
                                        ELSE IF r = c THEN NoRequest ELSE request[r]
    BY <2>1, Basics, Refreshing
  <2>6. /\ request' = [r \in Slots |-> request'[r]] /\ call' = [d \in Calls |-> call'[d]]
    BY <2>1, Basics DEF SetCall
  <2>7. \A r \in Slots : GateOK(request'[r])
    BY <2>3, <2>5, NoRequestFacts DEF AInv
  <2>8. ASSUME NEW d \in Calls
        PROVE  Sound(call[d], request[d])'
    <3>1. CASE d = c
      BY <2>1, <2>2, <2>4, <3>1 DEF Sound
    <3>2. CASE d # c
      <4>1. call'[d] = call[d] /\ request'[d] = request[d]
        BY <2>4, <2>5, <3>2, Refreshing
      <4>2. Sound(call[d], request[d]) /\ call[d].pc # "waiting"
        BY <1>3, Basics DEF AInv
      <4> QED
        BY <4>1, <4>2 DEF Sound, CarriesToken, Passes
    <3> QED
      BY <3>1, <3>2
  <2>9. request'[Refresh] = x
    BY <2>5, Refreshing
  <2>10. shared'.running /\ \E d \in Calls : call'[d].pc = "waiting"
    BY <2>1, <2>2, <2>4
  <2>11. shared' \in [running: BOOLEAN, calm: BOOLEAN]
    BY <2>1
  <2>12. RefreshesFor(request[Refresh], session)'
    BY <2>3, <2>9 DEF RefreshesFor, Windows
  <2>13. request'[Refresh].token.serial <= issued'
    BY <2>3, <2>9, Basics DEF NoToken
  <2> QED
    BY <2>3, <2>6, <2>7, <2>8, <2>9, <2>10, <2>11, <2>12, <2>13, Basics, Assemble
<1> QED
  BY <1>2, <1>3

LEMMA ReceiveKeeps ==
    ASSUME AInv, NEW c \in Calls, Receive(c)
    PROVE  AInv'
<1> DEFINE q == request[c]
           k == [call[c] EXCEPT !.made = @ + IF q.effect THEN 1 ELSE 0]
<1>1. /\ call[c].pc = "sent" /\ q.stage = "replied"
      /\ UNCHANGED <<issued, expired, session, cookie, changes>>
  BY DEF Receive
<1>2. /\ k \in Call /\ k.made \in {0, 1} /\ k.result = "none" /\ k.pc = "sent"
      /\ q.reply \in {"unavailable", "csrf"} => k.made = 0
      /\ k.calm => Passes(cookie, session) /\ k.second /\ k.header = cookie /\ q.reply # "csrf"
  BY <1>1, ReceivedFacts
<1>3. \/ /\ RetriesOn(q.reply) /\ MayRetry(k)
         /\ SetCall(c, [k EXCEPT !.pc = "asleep", !.attempt = NextAttempt(k)])
         /\ SetRequest(c, NoRequest)
         /\ UNCHANGED shared
      \/ q.reply = "csrf" /\ StartRefresh(c, [k EXCEPT !.header = NoToken])
      \/ /\ q.reply # "lost" /\ SetCall(c, Return(k, q.reply))
         /\ SetRequest(c, NoRequest)
         /\ UNCHANGED shared
      \/ /\ SetCall(c, Return([k EXCEPT !.calm = FALSE], LostResult(k)))
         /\ SetRequest(c, NoRequest)
         /\ UNCHANGED shared
  BY DEF Receive
<1> HIDE DEF k
<1>4. CASE /\ RetriesOn(q.reply) /\ MayRetry(k)
           /\ SetCall(c, [k EXCEPT !.pc = "asleep", !.attempt = NextAttempt(k)])
           /\ SetRequest(c, NoRequest)
           /\ UNCHANGED shared
  <2> DEFINE now == [k EXCEPT !.pc = "asleep", !.attempt = NextAttempt(k)]
  <2>1. k.made = 0
    BY <1>2, <1>4 DEF RetriesOn
  <2>2. NextAttempt(k) \in 0..Retries
    BY <1>2, <1>4, RetryAssumption DEF MayRetry, NextAttempt, Call
  <2>3. /\ now \in Call /\ now.pc = "asleep" /\ now.made = 0 /\ now.result = "none"
        /\ now.calm = k.calm /\ now.second = k.second /\ now.header = k.header
    BY <1>2, <2>1, <2>2 DEF Call
  <2> HIDE DEF now
  <2>4. Sound(now, NoRequest)
    BY <1>2, <2>3 DEF Sound
  <2>5. SetCall(c, now)
    BY <1>4 DEF now
  <2> QED
    BY <1>1, <1>4, <2>4, <2>5, NoRequestFacts, OneCallKeeps
<1>5. CASE q.reply = "csrf" /\ StartRefresh(c, [k EXCEPT !.header = NoToken])
  <2> DEFINE now == [k EXCEPT !.header = NoToken]
  <2>1. now \in Call /\ now.made = 0 /\ now.result = "none"
    BY <1>2, <1>5, NoRequestFacts DEF Call
  <2> QED
    BY <1>1, <1>5, <2>1, StartRefreshKeeps
<1>6. CASE /\ q.reply # "lost" /\ SetCall(c, Return(k, q.reply))
           /\ SetRequest(c, NoRequest)
           /\ UNCHANGED shared
  <2>1. Sound(Return(k, q.reply), NoRequest)
    BY <1>2, ReturnFacts
  <2> QED
    BY <1>1, <1>6, <2>1, NoRequestFacts, OneCallKeeps
<1>7. CASE /\ SetCall(c, Return([k EXCEPT !.calm = FALSE], LostResult(k)))
           /\ SetRequest(c, NoRequest)
           /\ UNCHANGED shared
  <2> DEFINE lost == [k EXCEPT !.calm = FALSE]
  <2>1. lost \in Call /\ lost.made <= 1 /\ ~lost.calm
    <3>1. k \in Call /\ k.made <= 1
      BY <1>2
    <3>2. lost \in Call /\ lost.made = k.made /\ lost.calm = FALSE
      BY <3>1 DEF Call
    <3> QED
      BY <3>1, <3>2
  <2> HIDE DEF lost
  <2>2. Sound(Return(lost, LostResult(k)), NoRequest)
    BY <2>1, ReturnFacts
  <2>3. SetCall(c, Return(lost, LostResult(k)))
    BY <1>7 DEF lost
  <2> QED
    BY <1>1, <1>7, <2>2, <2>3, NoRequestFacts, OneCallKeeps
<1> QED
  BY <1>3, <1>4, <1>5, <1>6, <1>7

(* The refresh settles: whoever waited calmly holds a token that passes.    *)
LEMMA RefreshRepliesKeeps ==
    ASSUME AInv, RefreshReplies
    PROVE  AInv'
<1> DEFINE q == request[Refresh]
<1>1. /\ q.stage = "replied" /\ request' = [request EXCEPT ![Refresh] = NoRequest]
      /\ shared' = [running |-> FALSE, calm |-> FALSE]
      /\ cookie' = IF q.reply = "ok" THEN q.token ELSE cookie
      /\ UNCHANGED <<issued, expired, session, changes>>
  BY DEF RefreshReplies, SetRequest
<1>2. call' = [c \in Calls |->
         IF call[c].pc # "waiting" THEN [call[c] EXCEPT !.calm = FALSE]
         ELSE IF q.reply = "ok" THEN [call[c] EXCEPT !.pc = "refreshed"]
         ELSE Return([call[c] EXCEPT !.calm = FALSE], "csrf")]
  BY DEF RefreshReplies
<1>3. \A r \in Slots : request'[r] = IF r = Refresh THEN NoRequest ELSE request[r]
  BY <1>1, Basics
<1>4. /\ request' = [r \in Slots |-> request'[r]] /\ call' = [d \in Calls |-> call'[d]]
  BY <1>1, <1>2, Basics
<1>5. \A r \in Slots : GateOK(request'[r])
  BY <1>3, NoRequestFacts DEF AInv
<1>6. shared.calm /\ q.reply = "ok" => Passes(cookie', session)
  BY <1>1 DEF AInv, RefreshesFor
<1>7. q.token \in Token /\ q.token.serial <= issued
  BY Basics, Refreshing DEF Request
<1>8. ASSUME NEW c \in Calls
      PROVE  Sound(call[c], request[c])' /\ call'[c].pc # "waiting"
  <2>1. Sound(call[c], request[c]) /\ call[c] \in Call /\ request'[c] = request[c]
    BY <1>3, Basics, Refreshing DEF AInv
  <2>2. CASE call[c].pc # "waiting"
    <3>1. call'[c] = [call[c] EXCEPT !.calm = FALSE]
      BY <1>2, <2>2
    <3>2. /\ call'[c] \in Call /\ call'[c].calm = FALSE /\ call'[c].pc = call[c].pc
          /\ call'[c].made = call[c].made /\ call'[c].result = call[c].result
      BY <2>1, <3>1 DEF Call
    <3> QED
      BY <2>1, <2>2, <3>2 DEF Sound
  <2>3. CASE call[c].pc = "waiting" /\ q.reply = "ok"
    <3>1. call'[c] = [call[c] EXCEPT !.pc = "refreshed"]
      BY <1>2, <2>3
    <3>2. /\ call'[c] \in Call /\ call'[c].calm = call[c].calm /\ call'[c].pc = "refreshed"
          /\ call'[c].made = call[c].made /\ call'[c].result = call[c].result
      BY <2>1, <3>1 DEF Call
    <3>3. call[c].calm => Passes(cookie', session')
      BY <1>1, <1>6, <2>1, <2>3 DEF Sound
    <3>4. call[c].made = 0 /\ call[c].result = "none"
      BY <2>1, <2>3 DEF Sound
    <3>5. Passes(cookie', session') => Passes(cookie, session)'
      BY <1>1 DEF Passes
    <3> QED
      BY <3>2, <3>3, <3>4, <1>1 DEF Sound, Passes
  <2>4. CASE call[c].pc = "waiting" /\ q.reply # "ok"
    <3> DEFINE k == [call[c] EXCEPT !.calm = FALSE]
    <3>1. call'[c] = Return(k, "csrf")
      BY <1>2, <2>4
    <3>2. k \in Call /\ k.made = call[c].made /\ k.calm = FALSE /\ call[c].made = 0
      BY <2>1, <2>4 DEF Call, Sound
    <3> HIDE DEF k
    <3>3. Sound(Return(k, "csrf"), NoRequest) /\ Return(k, "csrf").pc = "idle"
      BY <3>2, ReturnFacts
    <3>4. Sound(call'[c], NoRequest) /\ call'[c].pc = "idle"
      BY <3>1, <3>3
    <3> QED
      BY <3>4 DEF Sound
  <2> QED
    BY <2>2, <2>3, <2>4
<1>9. /\ shared' \in [running: BOOLEAN, calm: BOOLEAN] /\ ~shared'.running /\ ~shared'.calm
  BY <1>1
<1>10. /\ request'[Refresh] = NoRequest /\ cookie' \in Token /\ cookie'.serial <= issued'
  BY <1>1, <1>3, <1>7, Basics, Refreshing
<1>11. request'[Refresh].token.serial <= issued'
  BY <1>1, <1>10, NoRequestFacts, Basics DEF NoToken
<1> QED
  BY <1>1, <1>4, <1>5, <1>8, <1>9, <1>10, <1>11, NoRequestFacts, Basics, Assemble

---------------------------------------------------------------------------
(* The specification *)

LEMMA InitAInv == Init => AInv
<1> SUFFICES ASSUME Init PROVE AInv
  OBVIOUS
<1>1. /\ request = [r \in Slots |-> NoRequest] /\ issued = 0 /\ expired = 0
      /\ session = First /\ cookie = NoToken /\ changes = 0
      /\ call = [c \in Calls |-> NewCall]
      /\ shared = [running |-> FALSE, calm |-> FALSE]
  BY DEF Init, GateInit
<1>2. \A r \in Slots : request[r] = NoRequest
  BY <1>1
<1>3. \A c \in Calls : call[c] = NewCall
  BY <1>1
<1>4. /\ request \in [Slots -> Request] /\ call \in [Calls -> Call]
      /\ issued \in 0..MaxTokens /\ expired \in 0..issued /\ session \in Users \cup {Nobody}
      /\ cookie \in Token /\ changes \in 0..MaxChanges
      /\ shared \in [running: BOOLEAN, calm: BOOLEAN]
  BY <1>1, NoRequestFacts, NewCallFacts, TokenAssumption, FirstAssumption, RetryAssumption
<1>5. ~shared.running /\ ~shared.calm
  BY <1>1
<1>6. TypeOK
  BY <1>2, <1>3, <1>4, <1>5, NewCallFacts, NoRequestFacts, Refreshing DEF TypeOK
<1>7. \A c \in Calls : Sound(call[c], request[c])
  BY <1>3, NewCallFacts DEF Sound
<1>8. cookie.serial <= issued /\ request[Refresh].token.serial <= issued
  BY <1>1, <1>2, NoRequestFacts, Refreshing DEF NoToken
<1> QED
  BY <1>2, <1>5, <1>6, <1>7, <1>8, NoRequestFacts, Refreshing DEF AInv

(* What a step of a call leaves in the slots. *)
LEMMA SlotsFit ==
    ASSUME AInv, AInv',
           \/ \E c \in Calls : Begin(c) \/ Receive(c) \/ Wake(c) \/ Resume(c)
           \/ RefreshReplies
    PROVE  \A r \in Slots : Fits(request[r], request'[r])
<1>1. \A r \in Slots : request'[r] = request[r] \/ Blank(request'[r])
  <2>1. ASSUME NEW c \in Calls, NEW k \in Call, Send(c, k)
        PROVE  \A r \in Slots : request'[r] = request[r] \/ Blank(request'[r])
    <3> DEFINE x == Arriving("create", session, cookie, k.header)
    <3>1. /\ "create" \in Routes /\ session \in Users \cup {Nobody} /\ cookie \in Token
          /\ k.header \in Token
      BY Basics DEF Routes, Call
    <3>2. Blank(x)
      BY <3>1, ArrivingFacts DEF Blank
    <3>3. \A r \in Slots : request'[r] = IF r = c THEN x ELSE request[r]
      BY <2>1, Basics DEF Send, SetRequest
    <3> QED
      BY <3>2, <3>3
  <2>2. ASSUME NEW c \in Calls, Begin(c) \/ Wake(c) \/ Resume(c)
        PROVE  \A r \in Slots : request'[r] = request[r] \/ Blank(request'[r])
    <3>1. call[c] \in Call /\ cookie \in Token /\ 0 \in 0..Retries
      BY Basics, RetryAssumption
    <3>2. CASE Begin(c)
      <4>1. [NewCall EXCEPT !.header = cookie] \in Call
        BY <3>1, NewCallFacts DEF Call
      <4> QED
        BY <2>1, <3>2, <4>1 DEF Begin
    <3>3. CASE Wake(c)
      BY <2>1, <3>1, <3>3 DEF Wake
    <3>4. CASE Resume(c)
      <4>1. [call[c] EXCEPT !.second = TRUE, !.attempt = 0, !.header = cookie] \in Call
        BY <3>1 DEF Call
      <4> QED
        BY <2>1, <3>4, <4>1 DEF Resume
    <3> QED
      BY <2>2, <3>2, <3>3, <3>4
  <2>3. ASSUME NEW c \in Calls, Receive(c)
        PROVE  \A r \in Slots : request'[r] = request[r] \/ Blank(request'[r])
    <3>1. \/ SetRequest(c, NoRequest)
          \/ request' = [request EXCEPT ![c] = NoRequest,
                           ![Refresh] = Arriving("csrf", session, cookie, NoToken)]
      BY <2>3 DEF Receive, StartRefresh
    <3> DEFINE x == Arriving("csrf", session, cookie, NoToken)
    <3>2. Blank(x)
      BY RefreshRequestFacts
    <3> HIDE DEF x
    <3>3. request' = [request EXCEPT ![c] = NoRequest]
            \/ request' = [request EXCEPT ![c] = NoRequest, ![Refresh] = x]
      BY <3>1 DEF SetRequest, x
    <3>4. \A r \in Slots : request'[r] \in {request[r], NoRequest, x}
      BY <3>3, Basics
    <3> QED
      BY <3>2, <3>4, NoRequestIsBlank
  <2>4. ASSUME RefreshReplies
        PROVE  \A r \in Slots : request'[r] = request[r] \/ Blank(request'[r])
    <3>1. \A r \in Slots : request'[r] = IF r = Refresh THEN NoRequest ELSE request[r]
      BY <2>4, Basics DEF RefreshReplies, SetRequest
    <3> QED
      BY <3>1, NoRequestIsBlank
  <2> QED
    BY <2>2, <2>3, <2>4
<1>2. \A r \in Slots : GateOK(request[r])
  BY DEF AInv
<1> QED
  BY <1>1, <1>2, KeptFits, BlankFits

LEMMA NextAInv ==
    ASSUME AInv, [Next]_vars
    PROVE  AInv' /\ \A r \in Slots : Fits(request[r], request'[r])
<1>1. CASE (\E u \in Users : SignIn(u) \/ TokenPrimed(u)) \/ SignOut \/ TokenExpires
  <2>1. AInv' /\ request' = request
    BY <1>1, ChangeKeeps
  <2> QED
    BY <2>1, KeptFits DEF AInv
<1>2. CASE RefreshReplies
  BY <1>2, RefreshRepliesKeeps, SlotsFit
<1>3. ASSUME NEW r \in Slots, (GateStep(r) \/ Vanish(r)) /\ UNCHANGED clientVars
      PROVE  AInv' /\ \A s \in Slots : Fits(request[s], request'[s])
  BY <1>3, GateKeeps
<1>4. ASSUME NEW c \in Calls, Begin(c) \/ Receive(c) \/ Wake(c) \/ Resume(c)
      PROVE  AInv' /\ \A r \in Slots : Fits(request[r], request'[r])
  <2>1. AInv'
    BY <1>4, SendKeeps, ReceiveKeeps
  <2> QED
    BY <1>4, <2>1, SlotsFit
<1>5. CASE UNCHANGED vars
  <2>1. UNCHANGED <<request, issued, expired, session, cookie, call, shared, changes>>
    BY <1>5 DEF vars, gateVars, clientVars
  <2>2. AInv'
    BY <2>1 DEF AInv, TypeOK, Sound, CarriesToken, RefreshesFor, Passes
  <2> QED
    BY <2>1, <2>2, KeptFits DEF AInv
<1> QED
  BY <1>1, <1>2, <1>3, <1>4, <1>5 DEF Next

(* The state a call may be in, in any instance: the browser and the gate    *)
(* keep AInv, which says what each request in flight and each call at work  *)
(* have done and rely on.                                                   *)
THEOREM ClientInvariant == Spec => []AInv
<1>1. AInv /\ [Next]_vars => AInv'
  BY NextAInv
<1> QED
  BY InitAInv, <1>1, PTL DEF Spec

(* Types, and that a call waits exactly while the shared refresh (api.js,   *)
(* csrfRefreshPromise) is under way.                                        *)
THEOREM ClientTypeCorrect == Spec => []TypeOK
<1>1. AInv => TypeOK
  BY DEF AInv
<1> QED
  BY ClientInvariant, <1>1, PTL

(* However often apiRequest sends a create again, and whatever replies are  *)
(* lost, it takes effect once at most.                                      *)
THEOREM OneEffectPerRequest == Spec => []OneEffectPerCall
<1>1. AInv => OneEffectPerCall
  BY DEF AInv, Sound, OneEffectPerCall
<1> QED
  BY ClientInvariant, <1>1, PTL

(* apiRequest gives up with the CSRF error only when the refresh failed,    *)
(* the second round was lost, or somebody changed session or token.         *)
THEOREM CsrfRetrySuffices == Spec => []CsrfFailureIsExplained
<1>1. AInv => CsrfFailureIsExplained
  BY DEF AInv, Sound, CsrfFailureIsExplained
<1> QED
  BY ClientInvariant, <1>1, PTL

(* withRateLimit and checkRateLimit charge nobody for a refused token or    *)
(* session, and no hour for a refused day; a handler runs for a request     *)
(* that every window of its operation let in.                               *)
THEOREM GateChargesFit == Spec => ChargesFit
<1>1. AInv /\ [Next]_vars =>
        [\A r \in Slots :
           LET q == request[r]
               now == request'[r]
           IN
           /\ now.reply # q.reply /\ (now.reply = "csrf" \/ q.stage = "arrived") => q.charged = {}
           /\ "hourly" \in now.charged /\ "daily" \in WindowsOf(q.route) => "daily" \in now.charged
           /\ now.stage = "handler" => now.charged = WindowsOf(q.route)
           /\ now.effect /\ ~q.effect => q.charged = Windows /\ q.header.user = q.user]_request
  <2> SUFFICES ASSUME AInv, [Next]_vars
               PROVE  \A r \in Slots : Fits(request[r], request'[r])
    BY DEF Fits
  <2> QED
    BY NextAInv
<1> QED
  BY ClientInvariant, <1>1, PTL DEF Spec, ChargesFit

============================================================================
