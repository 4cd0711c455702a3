-------------------------------- MODULE Join ---------------------------------
(***************************************************************************)
(* What when_all and when_any promise to the future they are part of: the  *)
(* continuation is called once, after every child has completed, with the  *)
(* result of the first child that decided the outcome, or with the values  *)
(* of all the children, or the failure to get them, if none did.  Threads, *)
(* the queue of children and the counters do not appear here.              *)
(***************************************************************************)
CONSTANTS
  Children,  \* the joined futures
  Outcomes,  \* what a child completes with
  Deciding,  \* the outcomes that decide the result of the join
  None,      \* not completed, nobody, not delivered
  All,       \* delivered: the values of all children
  Failures   \* what may be delivered instead of them

VARIABLES
  outcome,   \* what each child completed with
  decider,   \* the first child to complete with a deciding outcome
  delivered  \* whose result the continuation was called with

jvars == <<outcome, decider, delivered>>

Init ==
  /\ outcome = [c \in Children |-> None]
  /\ decider = None
  /\ delivered = None

Complete(c, o) ==
  /\ outcome[c] = None
  /\ outcome' = [outcome EXCEPT ![c] = o]
  /\ decider' = IF decider = None /\ o \in Deciding THEN c ELSE decider
  /\ UNCHANGED delivered

Deliver ==
  /\ delivered = None
  /\ \A c \in Children : outcome[c] # None
  /\ delivered' \in IF decider = None THEN {All} \cup Failures ELSE {decider}
  /\ UNCHANGED <<outcome, decider>>

Next == Deliver \/ \E c \in Children, o \in Outcomes : Complete(c, o)

Spec == Init /\ [][Next]_jvars
==============================================================================
