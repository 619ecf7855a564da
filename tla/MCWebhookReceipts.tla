------------------------- MODULE MCWebhookReceipts -------------------------
(* Instances of WebhookReceipts for TLC. *)
EXTENDS WebhookReceipts, TLC

Symmetry == Permutations(Workers)

===========================================================================
