----------------------------- MODULE CancelFlag -----------------------------
(***************************************************************************)
(* What a cancel source promises: the cancelled state and its reason       *)
(* change together, by indivisible cancel and reset calls.  Reason 0 is    *)
(* the empty one.                                                          *)
(***************************************************************************)
EXTENDS Integers

CONSTANT Reasons

VARIABLES cancelled, reason

vars == <<cancelled, reason>>

Init == cancelled = FALSE /\ reason = 0

Cancel(r) == cancelled' = TRUE /\ reason' = r

Reset == cancelled' = FALSE /\ reason' = 0

Next == Reset \/ \E r \in Reasons \cup {0} : Cancel(r)

Spec == Init /\ [][Next]_vars
=============================================================================
