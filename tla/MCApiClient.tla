---------------------------- MODULE MCApiClient ----------------------------
(* Instances of ApiClient for TLC. *)
EXTENDS ApiClient

CallsAndRefresh == Calls \cup {Refresh}

=============================================================================
