----------------------------- MODULE MCWhenOrder -----------------------------
(* Model-checking instance of WhenOrder. *)
EXTENDS WhenOrder

NoRepeats == {}

\* A child that repeats, on whatever thread it is.
Loop == {1}
==============================================================================
