----------------------------- MODULE MCRunLoop ------------------------------
(* Model-checking instance of RunLoop. *)
EXTENDS RunLoop

\* Five calls: three pushes and finish() leave one call for a job that is
\* pushed a second time, or for a finish() that comes twice.
CallBound == 5
==============================================================================
