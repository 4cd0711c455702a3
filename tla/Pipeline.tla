------------------------------ MODULE Pipeline -------------------------------
(***************************************************************************)
(* A pipeline "source | stage | ... | stage" of the adapters in            *)
(* include/exy/future, run by a consumer such as sync_wait.  All its       *)
(* stages share one result storage, raw bytes in which each stage creates  *)
(* and destroys objects by hand (support/storage.hpp), and tell each other *)
(* only by the function they call, Cont::call<S>, what lives in there.     *)
(*                                                                         *)
(* Control passes from one stage to the next, on one thread or another, so *)
(* a handler is one step; what happens concurrently is the stop request.   *)
(* Values are left out; what a pipeline looks like is in FutureTypes.      *)
(***************************************************************************)
EXTENDS FutureTypes

CONSTANTS
  Heads,     \* the sources pipelines begin with
  Adapters,  \* the stages that may follow
  MaxLength  \* how many may follow

ASSUME PipelineAssumption ==
  /\ \A st \in Heads    : IsStage(st) /\ st.kind \in Sources
  /\ \A st \in Adapters : IsStage(st) /\ st.kind \notin Sources
  /\ MaxLength \in Nat

VARIABLES
  prog,   \* the pipeline: its stages, the source first
  phase,  \* see Phases
  pos,    \* the stage in control; Len(prog) + 1 is the consumer
  sig,    \* S of the call<S> under way
  cell,   \* the objects created and not destroyed in the result storage
  cont,   \* _cont of the stages that reschedule
  stop    \* what the stop_requested query answers

vars == <<prog, phase, pos, sig, cell, cont, stop>>

\* "start": pos is started.  "call": the continuation of pos is called with sig.
\* "sub": the future made by pos = and_then runs.  "scheduled": pos waits for its
\* scheduler.  "done": the consumer has the result.
Phases == {"start", "call", "sub", "scheduled", "done"}

PipeTypeOK ==
  /\ prog \in Seq(Heads \cup Adapters) /\ prog # <<>>
  /\ phase \in Phases
  /\ pos \in 1 .. Len(prog) + 1
  /\ sig \in Sigs
  /\ cell \in Seq(Objects)
  /\ cont \in [1 .. Len(prog) -> Sigs]
  /\ stop \in BOOLEAN

Init ==
  /\ \E source \in Heads, n \in 0 .. MaxLength :
       \E stages \in [1 .. n -> Adapters] : prog = <<source>> \o stages
  /\ phase = "start"
  /\ pos = Len(prog)
  /\ sig = "stopped"
  /\ cell = <<>>
  /\ cont = [i \in 1 .. Len(prog) |-> "stopped"]
  /\ stop = FALSE

Stage == prog[pos]
Handles(kind) ==
  /\ phase = "call" /\ pos <= Len(prog)
  /\ Stage.kind = kind

\* storage_ref::get<S>: move the object out, destroy it.
Destroyed == Front(cell)

\* storage_ref::emplace<S>: create an object, on top of what is there.
Created(contents, s) == Append(contents, s)

\* exy::set and set_exception: go on with the next stage.
Set(contents, s) ==
  /\ cell' = Created(contents, s)
  /\ sig' = s
  /\ phase' = "call"
  /\ pos' = pos + 1

\* return &Cont::template call<S>
Forward ==
  /\ pos' = pos + 1
  /\ UNCHANGED <<phase, sig, cell>>

\* Mutant of StartAt: the stage below the one meant is started.
StartBelow(p) == phase' = "start" /\ pos' = p - 1 /\ UNCHANGED sig

StartAt(p) ==
  /\ phase' = "start"
  /\ pos' = p
  /\ UNCHANGED sig

------------------------------------------------------------------------------
(* Starting *)

\* An adapter starts what it adapts.
StartBase ==
  /\ phase = "start"
  /\ Stage.kind \notin Sources \cup {"repeat"}
  /\ StartAt(pos - 1)
  /\ UNCHANGED <<prog, cell, cont, stop>>

\* A factory's function creates the arguments of its only signature.
StartFactory ==
  /\ phase = "start"
  /\ Stage.kind = "factory"
  /\ \/ Set(cell, Stage.to[1])
     \/ Stage.throws /\ Set(cell, "exception")
  /\ UNCHANGED <<prog, cont, stop>>

\* schedule(inline): the inline scheduler completes at once.
StartInline ==
  /\ phase = "start"
  /\ Stage.kind = "inline"
  /\ Set(cell, "unit")
  /\ UNCHANGED <<prog, cont, stop>>

\* The queries are asked, and the client's function makes the value of the answers.
StartReadEnv ==
  /\ phase = "start"
  /\ Stage.kind = "read_env"
  /\ \/ Set(cell, Stage.to[1])
     \/ Stage.throws /\ Set(cell, "exception")
  /\ UNCHANGED <<prog, cont, stop>>

\* All that module When says happens; then one of the results is moved here.
StartWhenAny ==
  /\ phase = "start"
  /\ Stage.kind = "when_any"
  /\ \/ \E s \in ToSet(Stage.to) : Set(cell, s)
     \/ Stage.throws /\ Set(cell, "exception")
  /\ UNCHANGED <<prog, cont, stop>>

NeverAsks == FALSE  \* Mutant of StopRequested: no query
StopRequested == stop

\* repeat's _restart, with the result storage holding contents: stop, or copy
\* the base future and start the copy.
Restart(contents) ==
  \/ /\ StopRequested
     /\ Set(contents, "stopped")
  \/ /\ ~StopRequested
     /\ StartAt(pos - 1)
     /\ cell' = contents
  \/ /\ ~StopRequested
     /\ Stage.throws
     /\ Set(contents, "exception")

StartRepeat ==
  /\ phase = "start"
  /\ Stage.kind = "repeat"
  /\ Restart(cell)
  /\ UNCHANGED <<prog, cont, stop>>

------------------------------------------------------------------------------
(* continuation_for *)

\* adapter_continuation::call: the stage has no continuation_for<S>.
PassThrough ==
  /\ phase = "call" /\ pos <= Len(prog)
  /\ IF Stage.kind = "stop_point" THEN Tag(sig) = "stopped"
     ELSE Tag(sig) # Stage.from
  /\ Forward
  /\ UNCHANGED <<prog, cont, stop>>

\* with<S> destroys the arguments whether the function returns or throws.
Transform ==
  /\ Handles("transform") /\ Tag(sig) = Stage.from
  /\ \/ Set(Destroyed, Stage.to[1])
     \/ Stage.throws /\ Set(Destroyed, "exception")
  /\ UNCHANGED <<prog, cont, stop>>

\* The function makes a future, whose operation replaces the base's.
AndThen ==
  /\ Handles("and_then") /\ Tag(sig) = Stage.from
  /\ \/ /\ phase' = "sub"
        /\ cell' = Destroyed
        /\ UNCHANGED <<pos, sig>>
     \/ Stage.throws /\ Set(Destroyed, "exception")
  /\ UNCHANGED <<prog, cont, stop>>

\* The new future uses the same storage for what it makes on its way,
SubWorks ==
  /\ phase = "sub" /\ cell = <<>>
  /\ Stage.mid # <<>>
  /\ cell' = Stage.mid
  /\ UNCHANGED <<prog, phase, pos, sig, cont, stop>>

\* and completes into it.
SubCompletes ==
  /\ phase = "sub" /\ cell = Stage.mid
  /\ \E s \in ToSet(Stage.to) : Set(<<>>, s)
  /\ UNCHANGED <<prog, cont, stop>>

\* The function looks at the arguments in place.  If it throws they stay there.
With ==
  /\ Handles("with") /\ Tag(sig) = Stage.from
  /\ \/ Forward
     \/ Stage.throws /\ Set(cell, "exception")
  /\ UNCHANGED <<prog, cont, stop>>

StopPoint ==
  /\ Handles("stop_point") /\ Tag(sig) # "stopped"
  /\ \/ ~stop /\ Forward
     \/ stop /\ Set(Destroyed, "stopped")
  /\ UNCHANGED <<prog, cont, stop>>

\* Mutant of Repeat: the value of the finished round is not destroyed.
RepeatOver ==
  /\ Handles("repeat") /\ Tag(sig) = Stage.from
  /\ Restart(cell)
  /\ UNCHANGED <<prog, cont, stop>>

Repeat ==
  /\ Handles("repeat") /\ Tag(sig) = Stage.from
  /\ Restart(Destroyed)
  /\ UNCHANGED <<prog, cont, stop>>

\* _schedule<S>: remember how to go on, and start the scheduler's future.
Schedule ==
  /\ cont' = [cont EXCEPT ![pos] = sig]
  /\ phase' = "scheduled"
  /\ UNCHANGED <<prog, pos, sig, cell, stop>>

ContinuesOn == Handles("continues_on") /\ Tag(sig) = "value" /\ Schedule

\* The scheduler is the environment's, and its schedule() is noexcept.
Yield == Handles("yield") /\ Tag(sig) = "value" /\ Schedule

\* The scheduler's future, which has a result storage of its own, completes with
\* a value: go on with the result kept.
Scheduled ==
  /\ phase = "scheduled"
  /\ phase' = "call"
  /\ pos' = pos + 1
  /\ sig' = cont[pos]
  /\ UNCHANGED <<prog, cell, cont, stop>>

\* Mutant of ScheduleFails: schedulers that declare no error fail as well.
ScheduleFailsAnyway ==
  /\ phase = "scheduled"
  /\ Set(Destroyed, "exception")
  /\ UNCHANGED <<prog, cont, stop>>

\* ... or with an error, which replaces the result kept.  A delegation scheduler
\* never fails.
ScheduleFails ==
  /\ phase = "scheduled"
  /\ Stage.kind = "continues_on" /\ Stage.throws
  /\ Set(Destroyed, "exception")
  /\ UNCHANGED <<prog, cont, stop>>

\* The consumer takes the result.
Consume ==
  /\ phase = "call" /\ pos = Len(prog) + 1
  /\ phase' = "done"
  /\ cell' = Destroyed
  /\ UNCHANGED <<prog, pos, sig, cont, stop>>

RequestStop ==
  /\ ~stop
  /\ stop' = TRUE
  /\ UNCHANGED <<prog, phase, pos, sig, cell, cont>>

------------------------------------------------------------------------------
Step ==
  \/ StartBase \/ StartFactory \/ StartInline \/ StartReadEnv \/ StartWhenAny \/ StartRepeat
  \/ PassThrough \/ Transform \/ AndThen \/ SubWorks \/ SubCompletes
  \/ With \/ StopPoint \/ Repeat
  \/ ContinuesOn \/ Yield \/ Scheduled \/ ScheduleFails \/ Consume

Terminating == phase = "done" /\ UNCHANGED vars

Next == Step \/ RequestStop \/ Terminating

Spec == Init /\ [][Next]_vars

\* The client's functions return and the schedulers call back; nobody has to
\* request a stop.
FairSpec == Spec /\ WF_vars(Step)

------------------------------------------------------------------------------
(* Properties *)

\* Whoever is called with S finds exactly one object in the result storage, of
\* signature S: nothing is read that is not there, nothing is overwritten that is
\* still alive, and nothing is left when a base future is started again.
CellHoldsSignature ==
  /\ phase = "call" => cell = <<sig>>
  /\ phase = "scheduled" => cell = <<cont[pos]>>
  /\ phase = "sub" => cell \in {<<>>, Stage.mid}
  /\ phase \in {"start", "done"} => cell = <<>>

\* A stage is called only with signatures its base future declares.
CallsDeclared ==
  phase \in {"call", "scheduled"} /\ pos > 1 =>
    Contains(Types(prog)[IF phase = "call" THEN pos - 1 ELSE pos].sigs, sig)

\* The consumer makes the storage after the last future's storage_spec.  Whatever any
\* stage creates in it on the way has the room and the alignment it needs.
ResultFits ==
  \A i \in DOMAIN cell : Fits(cell[i], Types(prog)[Len(prog)].spec)

\* Once a stop is requested every pipeline ends, the loops in it included.
StopEnds == stop ~> (phase = "done")
==============================================================================
