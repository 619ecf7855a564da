---------------------- MODULE StorageClassification ----------------------
(***************************************************************************)
(* What the storage policy makes of the billing rows of a user.  The       *)
(* server classifies them on every request (billingService.js); the        *)
(* database classifies them again inside each storage function (migration  *)
(* 018) and does not know which prices the server counts as Premium.       *)
(***************************************************************************)
EXTENDS Integers

CONSTANTS
    Prices,     \* price ids a subscription may carry
    Allowlist   \* those getEntitledPriceIdAllowlist holds

ASSUME AllowlistAssumption == Allowlist \subseteq Prices

SubscriptionStatuses == {"active", "past_due", "unpaid", "canceled", "paused",
                         "incomplete", "incomplete_expired"}

\* billing_customers and billing_subscriptions of one user: mapped and held
\* say whether there is a row; dated, whether current_period_end is set.
BillingRow == [mapped : BOOLEAN, held : BOOLEAN, status : SubscriptionStatuses,
               canceling : BOOLEAN, dated : BOOLEAN, end : Int, price : Prices]

Premium == {"premium_active", "premium_canceling"}
StorageStatuses == Premium \cup
    {"terminal_free", "billing_reconciliation_pending", "payment_recovery",
     "sync_pending", "non_entitled_non_terminal", "billing_unavailable"}

\* hasCanonicalBillingEntitlement
Entitled(row) == row.held /\ row.status = "active" /\ row.price \in Allowlist

\* hasFutureCurrentPeriodEnd
PaidUntilLater(row, now) == row.dated /\ row.end > now

\* An active subscription: a cancelation counts once its period has ended.
ActiveStatus(row, now) ==
    IF ~row.canceling THEN "premium_active"
    ELSE IF PaidUntilLater(row, now) THEN "premium_canceling"
    ELSE "billing_reconciliation_pending"

WithoutSubscription(row) == IF row.mapped THEN "sync_pending" ELSE "terminal_free"

InactiveStatus(row) ==
    CASE row.status \in {"past_due", "unpaid"} -> "payment_recovery"
      [] row.status = "incomplete" -> "sync_pending"
      [] row.status = "canceled" -> "terminal_free"
      [] OTHER -> "non_entitled_non_terminal"

\* classifyConfirmedBillingStatusForStorage
ServerStatus(row, now) ==
    IF Entitled(row) THEN ActiveStatus(row, now)
    ELSE IF ~row.held THEN WithoutSubscription(row)
    ELSE InactiveStatus(row)

\* Mutant: a subscription in dunning counts as ended.
DatabaseStatusDropsDunning(row, now) ==
    IF ~row.held THEN WithoutSubscription(row)
    ELSE IF row.status = "active" THEN ActiveStatus(row, now)
    ELSE IF row.status \in {"past_due", "unpaid"} THEN "terminal_free"
    ELSE InactiveStatus(row)

\* resolve_canonical_storage_status_for_user
DatabaseStatus(row, now) ==
    IF ~row.held THEN WithoutSubscription(row)
    ELSE IF row.status = "active" THEN ActiveStatus(row, now)
    ELSE InactiveStatus(row)

\* classifyStorageCreateFlow
CreateFlow(status) ==
    CASE status \in Premium -> "apply_premium_limit"
      [] status = "terminal_free" -> "apply_free_limit"
      [] status = "payment_recovery" -> "block_payment_recovery"
      [] status = "sync_pending" -> "block_sync_pending"
      [] status = "non_entitled_non_terminal" -> "block_billing_state_review"
      [] OTHER -> "block_retryable"

\* isAutomaticOverflowLockEligible
LockEligibleStatus(status) == status = "terminal_free"

\* canStartCheckout
CanStartCheckout(row) == row.held => row.status \in {"canceled", "incomplete_expired"}

\* resolvePremiumEntitlement
EntitlementAnswer(row) ==
    CASE Entitled(row) -> "entitled"
      [] ~Entitled(row) /\ row.held /\ row.status \in {"past_due", "unpaid"} ->
            "PAYMENT_METHOD_UPDATE_REQUIRED"
      [] \/ row.mapped /\ ~row.held
         \/ row.held /\ row.status = "incomplete" -> "BILLING_SYNC_PENDING"
      [] OTHER -> "SUBSCRIPTION_REQUIRED"
=============================================================================
