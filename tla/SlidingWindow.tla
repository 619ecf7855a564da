--------------------------- MODULE SlidingWindow ---------------------------
(***************************************************************************)
(* What a shared ceiling promises, whatever it is built from: in any Span  *)
(* consecutive seconds at most Limit requests are admitted, and one is     *)
(* turned away for being too many only when that many were.  disturbed     *)
(* says the server's clock has been set back: then, and only then, the     *)
(* ceiling may refuse early or be out of order, but never admit more.      *)
(***************************************************************************)
EXTENDS Integers, Functions

CONSTANTS Limit, Span, LastSecond

VARIABLES now, admitted, disturbed, decision

wvars == <<now, admitted, disturbed, decision>>

Seconds == 0..LastSecond
Decisions == {"none", "allowed", "rate_limited", "invalid_state"}

(* Requests admitted in the Span seconds that end with second t. *)
AdmittedUpTo(t) ==
    SumFunctionOnSet(admitted, {s \in Seconds : t - Span < s /\ s <= t})

Init ==
    /\ now \in Seconds
    /\ admitted = [s \in Seconds |-> 0]
    /\ disturbed = FALSE
    /\ decision = "none"

Tick == now' = now + 1 /\ UNCHANGED <<admitted, disturbed, decision>>

SetBack == disturbed' = TRUE /\ UNCHANGED <<now, admitted, decision>>

Admit ==
    /\ AdmittedUpTo(now) < Limit
    /\ admitted' = [admitted EXCEPT ![now] = @ + 1]
    /\ decision' = "allowed"
    /\ UNCHANGED <<now, disturbed>>

Refuse ==
    /\ AdmittedUpTo(now) >= Limit \/ disturbed
    /\ decision' = "rate_limited"
    /\ UNCHANGED <<now, admitted, disturbed>>

OutOfOrder ==
    /\ disturbed
    /\ decision' = "invalid_state"
    /\ UNCHANGED <<now, admitted, disturbed>>

Next == Tick \/ SetBack \/ Admit \/ Refuse \/ OutOfOrder

Spec == Init /\ [][Next]_wvars

============================================================================
