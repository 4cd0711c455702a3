------------------------------ MODULE WorkQueue ------------------------------
(***************************************************************************)
(* What exy::run_loop promises to the threads that use it, without the     *)
(* mutex, the condition variable or the intrusive list: jobs are handed to *)
(* running threads in the order in which they were pushed, each push is    *)
(* executed once, and run() comes back only when the queue has been closed *)
(* and nothing is left in it.                                              *)
(***************************************************************************)
EXTENDS Sequences

CONSTANTS Threads, Jobs, Null

VARIABLES
  queue,     \* jobs pushed and not yet taken, oldest first
  closed,    \* has finish() been called?
  running,   \* the threads inside run()
  executing, \* the job whose continuation each running thread executes
  suspended  \* the jobs whose continuations it has left to drain the queue

wqvars == <<queue, closed, running, executing, suspended>>

Queued == {queue[i] : i \in DOMAIN queue}

Init ==
  /\ queue = <<>>
  /\ closed = FALSE
  /\ running = {}
  /\ executing = [t \in Threads |-> Null]
  /\ suspended = [t \in Threads |-> <<>>]

\* Only a closed queue may be drained by several threads at once.
Enter(t) ==
  /\ t \notin running
  /\ closed \/ running = {}
  /\ running' = running \cup {t}
  /\ UNCHANGED <<queue, closed, executing, suspended>>

\* A job may be pushed again once it has been taken, even while it executes.
Push(j) ==
  /\ j \notin Queued
  /\ queue' = Append(queue, j)
  /\ UNCHANGED <<closed, running, executing, suspended>>

Take(t) ==
  /\ t \in running
  /\ executing[t] = Null
  /\ queue # <<>>
  /\ executing' = [executing EXCEPT ![t] = Head(queue)]
  /\ queue' = Tail(queue)
  /\ UNCHANGED <<closed, running, suspended>>

Complete(t) ==
  /\ executing[t] # Null
  /\ executing' = [executing EXCEPT ![t] = Null]
  /\ UNCHANGED <<queue, closed, running, suspended>>

Close ==
  /\ closed' = TRUE
  /\ UNCHANGED <<queue, running, executing, suspended>>

Leave(t) ==
  /\ t \in running
  /\ executing[t] = Null
  /\ closed
  /\ queue = <<>>
  /\ suspended[t] = <<>>
  /\ running' = running \ {t}
  /\ UNCHANGED <<queue, closed, executing, suspended>>

\* A job may have the rest of a closed queue executed before it goes on, itself.
Suspend(t) ==
  /\ closed
  /\ executing[t] # Null
  /\ suspended' = [suspended EXCEPT ![t] = <<executing[t]>> \o @]
  /\ executing' = [executing EXCEPT ![t] = Null]
  /\ UNCHANGED <<queue, closed, running>>

Resume(t) ==
  /\ closed
  /\ executing[t] = Null
  /\ suspended[t] # <<>>
  /\ queue = <<>>
  /\ executing' = [executing EXCEPT ![t] = Head(suspended[t])]
  /\ suspended' = [suspended EXCEPT ![t] = Tail(@)]
  /\ UNCHANGED <<queue, closed, running>>

Next ==
  \/ \E t \in Threads : \/ Enter(t) \/ Take(t) \/ Complete(t) \/ Leave(t)
                        \/ Suspend(t) \/ Resume(t)
  \/ \E j \in Jobs : Push(j)
  \/ Close

Spec == Init /\ [][Next]_wqvars
==============================================================================
