------------------------------- MODULE MCWhen --------------------------------
(* Model-checking instance of When. *)
EXTENDS When

NoRepeats == {}

\* Two children that repeat, beside children that end by themselves.
Loops == {0, 1}
==============================================================================
