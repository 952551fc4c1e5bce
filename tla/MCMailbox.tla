----------------------------- MODULE MCMailbox -----------------------------
(* Model values for Mailbox: language threads and windows are              *)
(* interchangeable, and no liveness property is checked with the symmetry. *)
EXTENDS Mailbox

Symmetry == Permutations(Consumers) \cup Permutations(Children)
=============================================================================
