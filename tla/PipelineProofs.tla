--------------------------- MODULE PipelineProofs ----------------------------
(***************************************************************************)
(* Proofs about Pipeline, for any sources, adapters and sizes of           *)
(* arguments, and pipelines of any length.                                 *)
(***************************************************************************)
EXTENDS Pipeline, FutureTypesProofs

\* The signatures of the future prog[1] | ... | prog[i].
Declared(i) == ToSet(Types(prog)[i].sigs)

\* The program is a source and adapters.
ProgInv ==
  /\ prog[1] \in Heads
  /\ \A i \in 2 .. Len(prog) : prog[i] \in Adapters

\* Where control is in each phase.  Only and_then runs a future of its own, and only for
\* what it handles; the two stages that reschedule remember what they were called with.
PhaseInv ==
  /\ phase = "start" => pos <= Len(prog)
  /\ phase \in {"call", "sub", "scheduled"} => pos >= 2
  /\ phase = "sub" => pos <= Len(prog) /\ Stage.kind = "and_then" /\ Tag(sig) = Stage.from
  /\ phase = "scheduled" =>
       pos <= Len(prog) /\ Stage.kind \in {"continues_on", "yield"} /\ cont[pos] = sig
  /\ phase = "done" => pos = Len(prog) + 1

\* A continuation is called with a signature the future before it has declared.
CallInv == phase \in {"call", "sub", "scheduled"} => sig \in Declared(pos - 1)

\* The inductive invariant.
Inv == PipeTypeOK /\ ProgInv /\ PhaseInv /\ CallInv

------------------------------------------------------------------------------
\* FutureTypes gives all futures of the program their types.
LEMMA ProgIsPipeline ==
  ASSUME PipeTypeOK, ProgInv
  PROVE  /\ IsPipeline(prog)
         /\ prog \in Seq(Heads \cup Adapters)
         /\ Len(prog) \in Nat \ {0}
         /\ \A i \in 1 .. Len(prog) : Types(prog)[i] \in FutureTypeSet
<1>1. prog \in Seq(Heads \cup Adapters) /\ prog # <<>>
  BY DEF PipeTypeOK
<1>2. Len(prog) \in Nat \ {0}
  BY <1>1, EmptySeq
<1>3. ASSUME NEW i \in 1 .. Len(prog)
      PROVE  IsStage(prog[i]) /\ (prog[i].kind \in Sources <=> i = 1)
  <2>1. CASE i = 1
    BY <2>1, PipelineAssumption DEF ProgInv
  <2>2. CASE i # 1
    BY <1>2, <2>2, PipelineAssumption DEF ProgInv
  <2>. QED BY <2>1, <2>2
<1>4. IsPipeline(prog)
  BY <1>1, <1>3 DEF IsPipeline
<1>. QED BY <1>1, <1>2, <1>4, TypesAre

(* What the stage in control is, and what its future declares. *)
LEMMA StageIs ==
  ASSUME Inv, pos <= Len(prog)
  PROVE  /\ pos \in 1 .. Len(prog)
         /\ IsStage(Stage)
         /\ Stage.kind \in Sources <=> pos = 1
         /\ pos = 1 => Types(prog)[pos] = TypeOf(Stage, Future(<<>>, <<>>))
         /\ pos # 1 => /\ Types(prog)[pos - 1] \in FutureTypeSet
                       /\ Types(prog)[pos] = TypeOf(Stage, Types(prog)[pos - 1])
<1>1. /\ IsPipeline(prog) /\ Len(prog) \in Nat \ {0}
      /\ prog \in Seq(Heads \cup Adapters)
      /\ \A i \in 1 .. Len(prog) : Types(prog)[i] \in FutureTypeSet
  BY ProgIsPipeline DEF Inv
<1>2. pos \in 1 .. Len(prog)
  BY <1>1 DEF Inv, PipeTypeOK
<1>3. Types(prog)[pos] = TypeOf(Stage, Before(Types(prog), pos))
  BY <1>1, <1>2, TypesUnfold DEF Stage
<1>4. IsStage(Stage) /\ (Stage.kind \in Sources <=> pos = 1)
  BY <1>1, <1>2 DEF IsPipeline, Stage
<1>5. CASE pos = 1
  BY <1>2, <1>3, <1>4, <1>5 DEF Before
<1>6. CASE pos # 1
  <2>1. pos - 1 \in 1 .. Len(prog)
    BY <1>1, <1>2, <1>6
  <2>. QED BY <1>1, <1>2, <1>3, <1>4, <1>6, <2>1 DEF Before
<1>. QED BY <1>5, <1>6

\* storage_ref::get leaves nothing behind if there was one object.
LEMMA DestroyedIs ==
  ASSUME cell \in Seq(Objects)
  PROVE  /\ Destroyed \in Seq(Objects)
         /\ ToSet(Destroyed) \subseteq ToSet(cell)
         /\ Len(cell) = 1 => Destroyed = <<>>
<1>1. Destroyed = SubSeq(cell, 1, Len(cell) - 1)
  BY DEF Destroyed, Front
<1>2. \A i \in 1 .. Len(cell) - 1 : i \in DOMAIN cell /\ cell[i] \in Objects
  OBVIOUS
<1>3. /\ Destroyed \in Seq(Objects)
      /\ \A i \in DOMAIN Destroyed : i \in DOMAIN cell /\ Destroyed[i] = cell[i]
  BY <1>1, <1>2
<1>4. ToSet(Destroyed) \subseteq ToSet(cell)
  BY <1>3 DEF ToSet
<1>5. Len(cell) = 1 => Destroyed = <<>>
  BY <1>1, SubSeqEmpty
<1>. QED BY <1>3, <1>4, <1>5

(* What a step may do to the result storage. *)
CellStep ==
  \/ ToSet(cell') \subseteq ToSet(cell)
  \/ /\ pos <= Len(prog)
     /\ \E s \in Declared(pos) : ToSet(cell') \subseteq ToSet(cell) \cup {s}
  \/ /\ phase = "sub" /\ Stage.mid # <<>>
     /\ ToSet(cell') \subseteq {Temp}

(* exy::set: what is declared may be called. *)
LEMMA SetKeepsInv ==
  ASSUME Inv, NEW contents \in Seq(Objects), NEW s \in Sigs,
         ToSet(contents) \subseteq ToSet(cell),
         pos <= Len(prog), s \in Declared(pos),
         Set(contents, s), UNCHANGED <<prog, cont, stop>>
  PROVE  Inv' /\ CellStep
<1>1. pos \in 1 .. Len(prog) /\ Len(prog) \in Nat
  BY StageIs
<1>2. /\ cell' \in Seq(Objects)
      /\ ToSet(cell') = ToSet(contents) \cup {s}
  BY AppendToSet DEF Set, Created, Objects
<1>3. PipeTypeOK'
  BY <1>1, <1>2 DEF Inv, PipeTypeOK, Set, Phases
<1>4. ProgInv'
  BY DEF Inv, ProgInv
<1>5. PhaseInv'
  BY <1>1 DEF PhaseInv, Set
<1>6. CallInv'
  BY <1>1 DEF CallInv, Declared, Set
<1>7. CellStep
  BY <1>2 DEF CellStep
<1>. QED BY <1>3, <1>4, <1>5, <1>6, <1>7 DEF Inv

(* An adapter starts its base. *)
LEMMA StartKeepsInv ==
  ASSUME Inv, pos <= Len(prog), Stage.kind \notin Sources,
         StartAt(pos - 1), cell' \in Seq(Objects), ToSet(cell') \subseteq ToSet(cell),
         UNCHANGED <<prog, cont, stop>>
  PROVE  Inv' /\ CellStep
<1>1. pos \in 2 .. Len(prog) /\ Len(prog) \in Nat
  BY StageIs
<1>2. PipeTypeOK'
  BY <1>1 DEF Inv, PipeTypeOK, StartAt, Phases
<1>3. ProgInv'
  BY DEF Inv, ProgInv
<1>4. PhaseInv' /\ CallInv'
  BY <1>1 DEF PhaseInv, CallInv, StartAt
<1>. QED BY <1>2, <1>3, <1>4 DEF Inv, CellStep

\* exy::pass_through: what the base has declared, and the stage too, may be called.
LEMMA ForwardKeepsInv ==
  ASSUME Inv, pos <= Len(prog), phase = "call", sig \in Declared(pos),
         Forward, UNCHANGED <<prog, cont, stop>>
  PROVE  Inv' /\ CellStep
<1>1. pos \in 1 .. Len(prog) /\ Len(prog) \in Nat
  BY StageIs
<1>2. PipeTypeOK'
  BY <1>1 DEF Inv, PipeTypeOK, Forward
<1>3. ProgInv'
  BY DEF Inv, ProgInv
<1>4. PhaseInv'
  BY <1>1 DEF PhaseInv, Forward
<1>5. CallInv'
  BY <1>1 DEF CallInv, Declared, Forward
<1>. QED BY <1>2, <1>3, <1>4, <1>5 DEF Inv, CellStep, Forward

\* Signatures the library makes.
LEMMA ExceptionIs == "exception" \in Sigs /\ "stopped" \in Sigs /\ "unit" \in Sigs
BY DEF Sigs

------------------------------------------------------------------------------
\* Starting an adapter starts its base.
LEMMA StepStartBase == Inv /\ StartBase => Inv' /\ CellStep
<1> SUFFICES ASSUME Inv, StartBase PROVE Inv' /\ CellStep
  OBVIOUS
<1>1. pos <= Len(prog) /\ cell \in Seq(Objects)
  BY DEF Inv, PhaseInv, StartBase, PipeTypeOK
<1>. QED BY <1>1, StartKeepsInv DEF StartBase

\* Sources: factory.hpp, environment.hpp, scheduler/inline.hpp and the end of when_any
\* complete with a signature they have declared.
LEMMA StepStartSource ==
  Inv /\ (StartFactory \/ StartInline \/ StartReadEnv \/ StartWhenAny) => Inv' /\ CellStep
<1> SUFFICES ASSUME Inv, StartFactory \/ StartInline \/ StartReadEnv \/ StartWhenAny
             PROVE  Inv' /\ CellStep
  OBVIOUS
<1>1. pos <= Len(prog) /\ cell \in Seq(Objects) /\ UNCHANGED <<prog, cont, stop>>
  BY DEF Inv, PhaseInv, PipeTypeOK, StartFactory, StartInline, StartReadEnv, StartWhenAny
<1>2. IsStage(Stage) /\ Stage.kind \in Sources
  BY <1>1, StageIs DEF Sources, StartFactory, StartInline, StartReadEnv, StartWhenAny
<1>3. pos = 1 /\ Types(prog)[pos] = TypeOf(Stage, Future(<<>>, <<>>))
  BY <1>1, <1>2, StageIs
<1>4. CASE StartFactory \/ StartReadEnv
  <2>1. Stage.kind \in {"factory", "read_env"}
    BY <1>4 DEF StartFactory, StartReadEnv
  <2>2. ToSet(Stage.to) \cup Throws(Stage.throws) \subseteq Declared(pos)
    BY <1>2, <1>3, <2>1, SourceDeclares DEF Declared, Throws
  <2>3. Stage.to[1] \in ToSet(Stage.to) /\ Stage.to[1] \in Sigs
    BY <1>2, <2>1, StageType
  <2>4. PICK s \in {Stage.to[1], "exception"} : Set(cell, s) /\ (s = Stage.to[1] \/ Stage.throws)
    BY <1>4 DEF StartFactory, StartReadEnv
  <2>5. s \in Sigs /\ s \in Declared(pos)
    BY <2>2, <2>3, <2>4, ExceptionIs DEF Throws
  <2>. QED BY <1>1, <2>4, <2>5, SetKeepsInv
<1>5. CASE StartInline
  <2>1. "unit" \in Declared(pos)
    BY <1>2, <1>3, <1>5, SourceDeclares DEF Declared, StartInline
  <2>. QED BY <1>1, <1>5, <2>1, ExceptionIs, SetKeepsInv DEF StartInline
<1>6. CASE StartWhenAny
  <2>1. ToSet(Stage.to) \cup Throws(Stage.throws) \subseteq Declared(pos)
    BY <1>2, <1>3, <1>6, SourceDeclares DEF Declared, StartWhenAny, Throws
  <2>2. Stage.to \in Seq(Sigs) /\ ToSet(Stage.to) \subseteq Sigs
    BY <1>2, StageType DEF ToSet
  <2>3. PICK s \in ToSet(Stage.to) \cup {"exception"} :
               Set(cell, s) /\ (s \in ToSet(Stage.to) \/ Stage.throws)
    BY <1>6 DEF StartWhenAny
  <2>4. s \in Sigs /\ s \in Declared(pos)
    BY <2>1, <2>2, <2>3, ExceptionIs DEF Throws
  <2>. QED BY <1>1, <2>3, <2>4, SetKeepsInv
<1>. QED BY <1>4, <1>5, <1>6

(* repeat's _restart. *)
LEMMA RestartKeepsInv ==
  ASSUME Inv, pos <= Len(prog), Stage.kind = "repeat",
         NEW contents \in Seq(Objects), ToSet(contents) \subseteq ToSet(cell),
         Restart(contents), UNCHANGED <<prog, cont, stop>>
  PROVE  Inv' /\ CellStep
<1>1. Stage.kind \notin Sources
  BY DEF Sources
<1>2. {"stopped"} \cup Throws(Stage.throws) \subseteq Declared(pos)
  <2> DEFINE base == Types(prog)[pos - 1]
  <2>1. /\ IsStage(Stage) /\ base \in FutureTypeSet
        /\ Types(prog)[pos] = TypeOf(Stage, base)
    BY <1>1, StageIs
  <2> HIDE DEF base
  <2>2. ToSet(TypeOf(Stage, base).sigs) =
          {s \in ToSet(base.sigs) : Tag(s) # Stage.from} \cup {"stopped"} \cup Throws(Stage.throws)
    BY <2>1, RepeatDeclares
  <2>. QED BY <2>1, <2>2 DEF Declared
<1>3. CASE Set(contents, "stopped")
  BY <1>2, <1>3, ExceptionIs, SetKeepsInv
<1>4. CASE StartAt(pos - 1) /\ cell' = contents
  BY <1>1, <1>4, StartKeepsInv
<1>5. CASE Stage.throws /\ Set(contents, "exception")
  BY <1>2, <1>5, ExceptionIs, SetKeepsInv DEF Throws
<1>. QED BY <1>3, <1>4, <1>5 DEF Restart

\* Starting a repeat is its first round.
LEMMA StepStartRepeat == Inv /\ StartRepeat => Inv' /\ CellStep
<1> SUFFICES ASSUME Inv, StartRepeat PROVE Inv' /\ CellStep
  OBVIOUS
<1>1. pos <= Len(prog) /\ cell \in Seq(Objects)
  BY DEF Inv, PhaseInv, StartRepeat, PipeTypeOK
<1>. QED BY <1>1, RestartKeepsInv DEF StartRepeat

(* A stage that is called has a base, which declares what it is called with. *)
LEMMA CalledIs ==
  ASSUME Inv, phase \in {"call", "sub", "scheduled"}, pos <= Len(prog)
  PROVE  LET base == Types(prog)[pos - 1] IN
         /\ IsStage(Stage) /\ Stage.kind \notin Sources
         /\ base \in FutureTypeSet
         /\ Types(prog)[pos] = TypeOf(Stage, base)
         /\ sig \in ToSet(base.sigs)
         /\ Tag(sig) = Stage.from => HasTag(base.sigs, Stage.from)
         /\ cell \in Seq(Objects) /\ sig \in Sigs
<1>1. pos # 1 /\ sig \in Declared(pos - 1) /\ cell \in Seq(Objects) /\ sig \in Sigs
  BY DEF Inv, PhaseInv, CallInv, PipeTypeOK
<1>. QED BY <1>1, StageIs DEF Declared, HasTag

\* A stage has declared everything it does not handle.
LEMMA StepPassThrough == Inv /\ PassThrough => Inv' /\ CellStep
<1> SUFFICES ASSUME Inv, PassThrough PROVE Inv' /\ CellStep
  OBVIOUS
<1> DEFINE base == Types(prog)[pos - 1]
<1>1. /\ phase = "call" /\ pos <= Len(prog)
      /\ IF Stage.kind = "stop_point" THEN Tag(sig) = "stopped" ELSE Tag(sig) # Stage.from
      /\ Forward /\ UNCHANGED <<prog, cont, stop>>
  BY DEF PassThrough
<1>2. /\ IsStage(Stage) /\ Stage.kind \notin Sources
      /\ base \in FutureTypeSet
      /\ Types(prog)[pos] = TypeOf(Stage, base)
      /\ sig \in ToSet(base.sigs)
  BY <1>1, CalledIs
<1> HIDE DEF base
<1>3. sig \in ToSet(TypeOf(Stage, base).sigs)
  <2>1. CASE Stage.kind = "transform"
    BY <1>1, <1>2, <2>1, TransformDeclares
  <2>2. CASE Stage.kind = "and_then"
    BY <1>1, <1>2, <2>2, AndThenDeclares
  <2>3. CASE Stage.kind = "repeat"
    BY <1>1, <1>2, <2>3, RepeatDeclares
  <2>4. CASE Stage.kind \in {"with", "continues_on"}
    BY <1>2, <2>4, ForwardersDeclare
  <2>5. CASE Stage.kind = "stop_point"
    BY <1>2, <2>5, StopPointDeclares
  <2>6. CASE Stage.kind = "yield"
    BY <1>2, <2>6, YieldDeclares
  <2>. QED BY <1>2, <2>1, <2>2, <2>3, <2>4, <2>5, <2>6 DEF IsStage, Sources
<1>. QED BY <1>1, <1>2, <1>3, ForwardKeepsInv DEF Declared

\* transform has declared the signature of the result, and the exception.
LEMMA StepTransform == Inv /\ Transform => Inv' /\ CellStep
<1> SUFFICES ASSUME Inv, Transform PROVE Inv' /\ CellStep
  OBVIOUS
<1>1. /\ phase = "call" /\ pos <= Len(prog) /\ Stage.kind = "transform" /\ Tag(sig) = Stage.from
      /\ UNCHANGED <<prog, cont, stop>>
  BY DEF Transform, Handles
<1>2. PICK s \in {Stage.to[1], "exception"} :
             Set(Destroyed, s) /\ (s = Stage.to[1] \/ Stage.throws)
  BY DEF Transform
<1>3. IsStage(Stage) /\ {Stage.to[1]} \cup Throws(Stage.throws) \subseteq Declared(pos)
  BY <1>1, CalledIs, TransformDeclares DEF Declared
<1>4. s \in Sigs /\ s \in Declared(pos)
  BY <1>1, <1>2, <1>3, StageType, ExceptionIs DEF Throws
<1>. QED BY <1>1, <1>2, <1>4, CalledIs, DestroyedIs, SetKeepsInv

\* and_then starts the inner future, or has declared the exception.
LEMMA StepAndThen == Inv /\ AndThen => Inv' /\ CellStep
<1> SUFFICES ASSUME Inv, AndThen PROVE Inv' /\ CellStep
  OBVIOUS
<1>1. /\ phase = "call" /\ pos <= Len(prog) /\ Stage.kind = "and_then" /\ Tag(sig) = Stage.from
      /\ UNCHANGED <<prog, cont, stop>>
  BY DEF AndThen, Handles
<1>2. cell \in Seq(Objects) /\ Destroyed \in Seq(Objects) /\ ToSet(Destroyed) \subseteq ToSet(cell)
  BY <1>1, CalledIs, DestroyedIs
<1>3. CASE phase' = "sub" /\ cell' = Destroyed /\ UNCHANGED <<pos, sig>>
  <2>1. PipeTypeOK'
    BY <1>1, <1>2, <1>3 DEF Inv, PipeTypeOK, Phases
  <2>2. ProgInv'
    BY <1>1 DEF Inv, ProgInv
  <2>3. PhaseInv'
    BY <1>1, <1>3 DEF Inv, PhaseInv, Stage
  <2>4. CallInv'
    BY <1>1, <1>3 DEF Inv, CallInv, Declared
  <2>. QED BY <1>2, <1>3, <2>1, <2>2, <2>3, <2>4 DEF Inv, CellStep
<1>4. CASE Stage.throws /\ Set(Destroyed, "exception")
  <2>1. Throws(Stage.throws) \subseteq Declared(pos)
    BY <1>1, CalledIs, AndThenDeclares DEF Declared
  <2>. QED BY <1>1, <1>2, <1>4, <2>1, ExceptionIs, SetKeepsInv DEF Throws
<1>. QED BY <1>3, <1>4 DEF AndThen

\* The inner future works in the result storage, with an object of its own.
LEMMA StepSubWorks == Inv /\ SubWorks => Inv' /\ CellStep
<1> SUFFICES ASSUME Inv, SubWorks PROVE Inv' /\ CellStep
  OBVIOUS
<1>1. phase = "sub" /\ Stage.mid # <<>> /\ cell' = Stage.mid
      /\ UNCHANGED <<prog, phase, pos, sig, cont, stop>>
  BY DEF SubWorks
<1>2. IsStage(Stage)
  BY <1>1, StageIs DEF Inv, PhaseInv
<1>3. Stage.mid = <<Temp>>
  BY <1>1, <1>2 DEF IsStage
<1>4. cell' \in Seq(Objects) /\ ToSet(cell') = {Temp}
  BY <1>1, <1>3 DEF Objects, ToSet
<1>5. PipeTypeOK'
  BY <1>1, <1>4 DEF Inv, PipeTypeOK
<1>6. ProgInv' /\ PhaseInv' /\ CallInv'
  BY <1>1 DEF Inv, ProgInv, PhaseInv, Stage, CallInv, Declared
<1>. QED BY <1>1, <1>4, <1>5, <1>6 DEF Inv, CellStep

\* and_then has declared the signatures of the inner future.
LEMMA StepSubCompletes == Inv /\ SubCompletes => Inv' /\ CellStep
<1> SUFFICES ASSUME Inv, SubCompletes PROVE Inv' /\ CellStep
  OBVIOUS
<1>1. /\ phase = "sub" /\ pos <= Len(prog) /\ Stage.kind = "and_then" /\ Tag(sig) = Stage.from
      /\ UNCHANGED <<prog, cont, stop>>
  BY DEF SubCompletes, Inv, PhaseInv
<1>2. PICK s \in ToSet(Stage.to) : Set(<<>>, s)
  BY DEF SubCompletes
<1>3. ToSet(Stage.to) \subseteq Declared(pos)
  BY <1>1, CalledIs, AndThenDeclares DEF Declared
<1>4. ToSet(Stage.to) \subseteq Sigs
  BY <1>1, CalledIs, StageType DEF ToSet
<1>5. <<>> \in Seq(Objects) /\ ToSet(<<>>) \subseteq ToSet(cell)
  BY EmptyToSet
<1>. QED BY <1>1, <1>2, <1>3, <1>4, <1>5, SetKeepsInv

\* with passes on what it was called with, or has declared the exception.
LEMMA StepWith == Inv /\ With => Inv' /\ CellStep
<1> SUFFICES ASSUME Inv, With PROVE Inv' /\ CellStep
  OBVIOUS
<1>1. /\ phase = "call" /\ pos <= Len(prog) /\ Stage.kind = "with" /\ Tag(sig) = Stage.from
      /\ UNCHANGED <<prog, cont, stop>>
  BY DEF With, Handles
<1>2. sig \in Declared(pos) /\ Throws(Stage.throws) \subseteq Declared(pos) /\ cell \in Seq(Objects)
  BY <1>1, CalledIs, ForwardersDeclare DEF Declared, Throws
<1>3. CASE Forward
  BY <1>1, <1>2, <1>3, ForwardKeepsInv
<1>4. CASE Stage.throws /\ Set(cell, "exception")
  BY <1>1, <1>2, <1>4, ExceptionIs, SetKeepsInv DEF Throws
<1>. QED BY <1>3, <1>4 DEF With

\* stop_point passes on what it was called with, or has declared the stop.
LEMMA StepStopPoint == Inv /\ StopPoint => Inv' /\ CellStep
<1> SUFFICES ASSUME Inv, StopPoint PROVE Inv' /\ CellStep
  OBVIOUS
<1>1. /\ phase = "call" /\ pos <= Len(prog) /\ Stage.kind = "stop_point"
      /\ UNCHANGED <<prog, cont, stop>>
  BY DEF StopPoint, Handles
<1>2. sig \in Declared(pos) /\ "stopped" \in Declared(pos) /\ cell \in Seq(Objects)
  BY <1>1, CalledIs, StopPointDeclares DEF Declared
<1>3. CASE Forward
  BY <1>1, <1>2, <1>3, ForwardKeepsInv
<1>4. CASE Set(Destroyed, "stopped")
  BY <1>1, <1>2, <1>4, ExceptionIs, DestroyedIs, SetKeepsInv
<1>. QED BY <1>3, <1>4 DEF StopPoint

\* repeat has declared the stop; its base is started again.
LEMMA StepRepeat == Inv /\ Repeat => Inv' /\ CellStep
<1> SUFFICES ASSUME Inv, Repeat PROVE Inv' /\ CellStep
  OBVIOUS
<1>1. phase = "call" /\ pos <= Len(prog) /\ Stage.kind = "repeat" /\ cell \in Seq(Objects)
  BY DEF Repeat, Handles, Inv, PipeTypeOK
<1>. QED BY <1>1, DestroyedIs, RestartKeepsInv DEF Repeat

\* The stages that reschedule remember the signature.
LEMMA StepSchedule == Inv /\ (ContinuesOn \/ Yield) => Inv' /\ CellStep
<1> SUFFICES ASSUME Inv, ContinuesOn \/ Yield PROVE Inv' /\ CellStep
  OBVIOUS
<1>1. /\ phase = "call" /\ pos <= Len(prog) /\ Stage.kind \in {"continues_on", "yield"}
      /\ cont' = [cont EXCEPT ![pos] = sig]
      /\ phase' = "scheduled"
      /\ UNCHANGED <<prog, pos, sig, cell, stop>>
  BY DEF ContinuesOn, Yield, Handles, Schedule
<1>2. pos \in 1 .. Len(prog)
  BY <1>1, StageIs
<1>3. PipeTypeOK'
  BY <1>1 DEF Inv, PipeTypeOK, Phases
<1>4. ProgInv'
  BY <1>1 DEF Inv, ProgInv
<1>5. PhaseInv'
  BY <1>1, <1>2 DEF Inv, PipeTypeOK, PhaseInv, Stage
<1>6. CallInv'
  BY <1>1 DEF Inv, CallInv, Declared
<1>. QED BY <1>1, <1>3, <1>4, <1>5, <1>6 DEF Inv, CellStep

\* They have declared whatever they were called with.
LEMMA StepScheduled == Inv /\ Scheduled => Inv' /\ CellStep
<1> SUFFICES ASSUME Inv, Scheduled PROVE Inv' /\ CellStep
  OBVIOUS
<1>1. /\ phase = "scheduled" /\ pos <= Len(prog) /\ Stage.kind \in {"continues_on", "yield"}
      /\ cont[pos] = sig
      /\ phase' = "call" /\ pos' = pos + 1 /\ sig' = sig
      /\ UNCHANGED <<prog, cell, cont, stop>>
  BY DEF Scheduled, Inv, PhaseInv
<1>2. pos \in 1 .. Len(prog) /\ Len(prog) \in Nat
  BY <1>1, StageIs
<1>3. sig \in Declared(pos)
  BY <1>1, CalledIs, ForwardersDeclare, YieldDeclares DEF Declared
<1>4. PipeTypeOK'
  BY <1>1, <1>2 DEF Inv, PipeTypeOK, Phases
<1>5. ProgInv'
  BY <1>1 DEF Inv, ProgInv
<1>6. PhaseInv'
  BY <1>1, <1>2 DEF PhaseInv
<1>7. CallInv'
  BY <1>1, <1>2, <1>3 DEF CallInv, Declared
<1>. QED BY <1>1, <1>4, <1>5, <1>6, <1>7 DEF Inv, CellStep

\* continues_on has declared the errors of its scheduler.
LEMMA StepScheduleFails == Inv /\ ScheduleFails => Inv' /\ CellStep
<1> SUFFICES ASSUME Inv, ScheduleFails PROVE Inv' /\ CellStep
  OBVIOUS
<1>1. /\ phase = "scheduled" /\ pos <= Len(prog) /\ Stage.kind = "continues_on" /\ Stage.throws
      /\ Set(Destroyed, "exception") /\ UNCHANGED <<prog, cont, stop>>
  BY DEF ScheduleFails, Inv, PhaseInv
<1>2. "exception" \in Declared(pos) /\ cell \in Seq(Objects)
  BY <1>1, CalledIs, ForwardersDeclare DEF Declared, Throws
<1>. QED BY <1>1, <1>2, ExceptionIs, DestroyedIs, SetKeepsInv

\* The consumer takes the result.
LEMMA StepConsume == Inv /\ Consume => Inv' /\ CellStep
<1> SUFFICES ASSUME Inv, Consume PROVE Inv' /\ CellStep
  OBVIOUS
<1>1. Destroyed \in Seq(Objects) /\ ToSet(Destroyed) \subseteq ToSet(cell)
  BY DestroyedIs DEF Inv, PipeTypeOK
<1>2. PipeTypeOK'
  BY <1>1 DEF Inv, PipeTypeOK, Consume, Phases
<1>3. ProgInv' /\ PhaseInv' /\ CallInv'
  BY DEF Inv, ProgInv, PhaseInv, CallInv, Consume
<1>. QED BY <1>1, <1>2, <1>3 DEF Inv, CellStep, Consume

\* A stop request changes nothing else.
LEMMA StepRequestStop == Inv /\ (RequestStop \/ UNCHANGED vars) => Inv' /\ CellStep
<1> SUFFICES ASSUME Inv, RequestStop \/ UNCHANGED vars PROVE Inv' /\ CellStep
  OBVIOUS
<1>1. UNCHANGED <<prog, phase, pos, sig, cell, cont>> /\ stop' \in BOOLEAN
  BY DEF RequestStop, vars, Inv, PipeTypeOK
<1>2. PipeTypeOK'
  BY <1>1 DEF Inv, PipeTypeOK
<1>3. ProgInv' /\ PhaseInv' /\ CallInv'
  BY <1>1 DEF Inv, ProgInv, PhaseInv, Stage, CallInv, Declared
<1>. QED BY <1>1, <1>2, <1>3 DEF Inv, CellStep

\* Every step keeps the invariant, and does one of three things to the result storage.
LEMMA StepInv == Inv /\ [Next]_vars => Inv' /\ CellStep
BY StepStartBase, StepStartSource, StepStartRepeat, StepPassThrough, StepTransform,
   StepAndThen, StepSubWorks, StepSubCompletes, StepWith, StepStopPoint, StepRepeat,
   StepSchedule, StepScheduled, StepScheduleFails, StepConsume, StepRequestStop
   DEF Next, Step, Terminating

\* The invariant holds in the beginning.
LEMMA InitInv == Init => Inv
<1> SUFFICES ASSUME Init PROVE Inv
  OBVIOUS
<1>a. PICK source \in Heads, n \in 0 .. MaxLength :
             \E stages \in [1 .. n -> Adapters] : prog = <<source>> \o stages
  BY DEF Init
<1>1. PICK stages \in [1 .. n -> Adapters] : prog = <<source>> \o stages
  BY <1>a
<1>2. n \in Nat /\ stages \in Seq(Adapters) /\ Len(stages) = n
  BY PipelineAssumption
<1>3. /\ prog \in Seq(Heads \cup Adapters) /\ Len(prog) = n + 1 /\ prog # <<>>
      /\ prog[1] = source
      /\ \A i \in 2 .. n + 1 : prog[i] = stages[i - 1]
  BY <1>1, <1>2
<1>4. ProgInv
  BY <1>2, <1>3 DEF ProgInv
<1>5. PipeTypeOK
  <2>1. Len(prog) \in Nat /\ Len(prog) \in 1 .. Len(prog) + 1 /\ "stopped" \in Sigs
    BY <1>2, <1>3, ExceptionIs
  <2>2. cont \in [1 .. Len(prog) -> Sigs] /\ cell \in Seq(Objects)
    BY <2>1 DEF Init
  <2>. QED BY <1>3, <2>1, <2>2 DEF Init, PipeTypeOK, Phases
<1>6. PhaseInv /\ CallInv
  BY <1>2, <1>3 DEF Init, PhaseInv, CallInv
<1>. QED BY <1>4, <1>5, <1>6 DEF Inv

\* Inv is an invariant, for all sources, adapters, lengths and sizes.
THEOREM Invariance == Spec => []Inv
<1>1. Inv /\ [Next]_vars => Inv'
  BY StepInv
<1>. QED BY InitInv, <1>1, PTL DEF Spec

\* The variables of Pipeline have their types, for pipelines of any length.
THEOREM TypeCorrect == Spec => []PipeTypeOK
BY Invariance, PTL DEF Inv

------------------------------------------------------------------------------
\* CallsDeclared is CallInv, and what it says of a stage that has rescheduled.
LEMMA InvDeclares == Inv => CallsDeclared
<1> SUFFICES ASSUME Inv, phase \in {"call", "scheduled"}, pos > 1
             PROVE  Contains(Types(prog)[IF phase = "call" THEN pos - 1 ELSE pos].sigs, sig)
  BY DEF CallsDeclared
<1> DEFINE at == IF phase = "call" THEN pos - 1 ELSE pos
<1>1. at \in 1 .. Len(prog) /\ Types(prog)[at].sigs \in Seq(Sigs)
  <2>1. at \in 1 .. Len(prog)
    BY ProgIsPipeline DEF Inv, PipeTypeOK, PhaseInv
  <2>. QED BY <2>1, ProgIsPipeline DEF Inv, FutureTypeSet
<1>2. sig \in Declared(at)
  <2>1. CASE phase = "call"
    BY <2>1 DEF Inv, CallInv
  <2>2. CASE phase = "scheduled"
    <3>1. pos <= Len(prog) /\ Stage.kind \in {"continues_on", "yield"}
      BY <2>2 DEF Inv, PhaseInv
    <3>. QED BY <2>2, <3>1, CalledIs, ForwardersDeclare, YieldDeclares DEF Declared
  <2>. QED BY <2>1, <2>2
<1> HIDE DEF at
<1>3. \E i \in DOMAIN Types(prog)[at].sigs : Types(prog)[at].sigs[i] = sig
  BY <1>2 DEF Declared, ToSet
<1>4. Contains(Types(prog)[at].sigs, sig)
  BY <1>1, <1>3 DEF Contains
<1>. QED BY <1>4 DEF at

\* Whatever the pipeline, a stage calls its continuation only with signatures that the
\* compiler computed for its future: Cont::call<S> exists for all it calls.
THEOREM OnlyDeclaredCalls == Spec => []CallsDeclared
BY Invariance, InvDeclares, PTL

------------------------------------------------------------------------------
\* The function of with is noexcept.  Otherwise with.hpp:55-58 leaks (run pipeline_with).
NoWithThrows == \A st \in Adapters : st.kind = "with" => ~st.throws

\* exy::set into an empty storage.
LEMMA SetHolds ==
  ASSUME NEW s \in Sigs, Set(<<>>, s)
  PROVE  CellHoldsSignature'
<1>1. cell' = <<s>> /\ sig' = s /\ phase' = "call"
  BY DEF Set, Created
<1>. QED BY <1>1 DEF CellHoldsSignature

\* If there is exactly one object, storage_ref::get empties the storage.
LEMMA HeldDestroyed ==
  ASSUME Inv, CellHoldsSignature, phase \in {"call", "scheduled"}
  PROVE  Destroyed = <<>>
<1>1. Len(cell) = 1 /\ cell \in Seq(Objects)
  BY DEF CellHoldsSignature, Inv, PipeTypeOK
<1>. QED BY <1>1, DestroyedIs

\* One step per stage: handlers take the object out before they create another, also on the
\* way to set_exception, or they leave it alone.
LEMMA StepHolds ==
  ASSUME NoWithThrows, Inv, CellHoldsSignature, [Next]_vars
  PROVE  CellHoldsSignature'
<1>1. CASE StartBase
  BY <1>1 DEF CellHoldsSignature, StartBase, StartAt
<1>2. CASE StartFactory \/ StartInline \/ StartReadEnv \/ StartWhenAny
  <2>1. cell = <<>> /\ \E s : Set(<<>>, s)
    BY <1>2 DEF CellHoldsSignature, StartFactory, StartInline, StartReadEnv, StartWhenAny
  <2>. QED BY <2>1 DEF CellHoldsSignature, Set, Created
<1>3. CASE StartRepeat \/ Repeat
  <2>1. Restart(<<>>)
    BY <1>3, HeldDestroyed DEF CellHoldsSignature, StartRepeat, Repeat, Handles
  <2>. QED BY <2>1 DEF Restart, CellHoldsSignature, Set, Created, StartAt
<1>4. CASE PassThrough
  BY <1>4 DEF CellHoldsSignature, PassThrough, Forward
<1>5. CASE Transform \/ AndThen \/ ScheduleFails
  <2>1. Destroyed = <<>>
    BY <1>5, HeldDestroyed DEF Transform, AndThen, Handles, ScheduleFails
  <2>2. (\E s : Set(<<>>, s)) \/ (phase' = "sub" /\ cell' = <<>>)
    BY <1>5, <2>1 DEF Transform, AndThen, ScheduleFails
  <2>. QED BY <2>2 DEF CellHoldsSignature, Set, Created
<1>6. CASE SubWorks
  BY <1>6 DEF CellHoldsSignature, SubWorks, Stage
<1>7. CASE SubCompletes
  BY <1>7 DEF CellHoldsSignature, SubCompletes, Set, Created
<1>8. CASE With
  <2>1. Stage \in Adapters
    <3>1. phase = "call" /\ pos <= Len(prog)
      BY <1>8 DEF With, Handles
    <3>2. pos \in 2 .. Len(prog)
      BY <3>1, ProgIsPipeline DEF Inv, PhaseInv, PipeTypeOK
    <3>. QED BY <3>2 DEF Inv, ProgInv, Stage
  <2>2. Forward
    BY <1>8, <2>1 DEF With, Handles, NoWithThrows
  <2>. QED BY <1>8, <2>2 DEF CellHoldsSignature, Forward, With, Handles
<1>9. CASE StopPoint
  <2>1. Destroyed = <<>> /\ phase = "call"
    BY <1>9, HeldDestroyed DEF StopPoint, Handles
  <2>2. Forward \/ Set(<<>>, "stopped")
    BY <1>9, <2>1 DEF StopPoint
  <2>. QED BY <2>1, <2>2 DEF CellHoldsSignature, Forward, Set, Created
<1>10. CASE ContinuesOn \/ Yield
  <2>1. phase = "call" /\ pos <= Len(prog) /\ Schedule
    BY <1>10 DEF ContinuesOn, Yield, Handles
  <2>2. pos \in 1 .. Len(prog)
    BY <2>1, StageIs
  <2>. QED BY <2>1, <2>2 DEF CellHoldsSignature, Schedule, Inv, PipeTypeOK
<1>11. CASE Scheduled
  BY <1>11 DEF CellHoldsSignature, Scheduled
<1>12. CASE Consume
  BY <1>12, HeldDestroyed DEF CellHoldsSignature, Consume
<1>13. CASE RequestStop \/ UNCHANGED vars
  BY <1>13 DEF CellHoldsSignature, RequestStop, vars, Stage
<1>. QED BY <1>1, <1>2, <1>3, <1>4, <1>5, <1>6, <1>7, <1>8, <1>9, <1>10, <1>11, <1>12, <1>13
         DEF Next, Step, Terminating

\* In pipelines of any length, with loops and failing schedulers anywhere, whoever is called
\* with S finds exactly one object in the result storage, of S.
THEOREM StorageHoldsSignature ==
  ASSUME NoWithThrows
  PROVE  Spec => []CellHoldsSignature
<1>1. Init => CellHoldsSignature
  BY DEF Init, CellHoldsSignature
<1>2. Inv /\ CellHoldsSignature /\ [Next]_vars => CellHoldsSignature'
  BY StepHolds
<1>. QED BY <1>1, <1>2, Invariance, PTL DEF Spec

------------------------------------------------------------------------------
\* What storage_spec's order puts first, size before alignment, is also as strictly aligned.
\* A type of 12 bytes aligned to 4 beside one of 8 bytes aligned to 8 is not ordered like that.
SizesOrdered == \A a, b \in Objects : AtLeast(SpecOf(a), SpecOf(b)) => Fits(b, SpecOf(a))

\* No signature a future adds to those of its base asks for more than what exy::max
\* has made of all of them.
MaxLosesNone ==
  \A i \in 1 .. Len(prog) : \A s \in Declared(i) :
    (i = 1 \/ s \notin Declared(i - 1)) => AtLeast(Types(prog)[i].spec, SpecOf(s))

\* exy::max finds the greatest element of every list the futures of prog ask it for.
MaxIsRight ==
  \A i \in 1 .. Len(prog) : prog[i].kind \notin {"stop_point", "yield"} =>
    \A s \in Declared(i) : AtLeast(Get(Types(prog)[i].sigs), SpecOf(s))

\* MaxLosesNone is a condition on exy::max: it is true wherever exy::max finds the greatest
\* element.
LEMMA RightMaxLosesNone == Inv /\ MaxIsRight => MaxLosesNone
<1> SUFFICES ASSUME Inv, MaxIsRight, NEW i \in 1 .. Len(prog), NEW s \in Declared(i),
                    i = 1 \/ s \notin Declared(i - 1)
             PROVE  AtLeast(Types(prog)[i].spec, SpecOf(s))
  BY DEF MaxLosesNone
<1> DEFINE T == Types(prog)
           base == Before(T, i)
<1>1. /\ IsStage(prog[i]) /\ (prog[i].kind \in Sources <=> i = 1)
      /\ T[i] \in FutureTypeSet /\ T[i] = TypeOf(prog[i], base)
      /\ i # 1 => base = T[i - 1] /\ base \in FutureTypeSet
  <2>1. /\ IsPipeline(prog) /\ prog \in Seq(Heads \cup Adapters)
        /\ \A k \in 1 .. Len(prog) : T[k] \in FutureTypeSet
    BY ProgIsPipeline DEF Inv
  <2>2. i # 1 => i - 1 \in 1 .. Len(prog)
    OBVIOUS
  <2>. QED BY <2>1, <2>2, TypesUnfold DEF IsPipeline, Before
<1>2. s \in ToSet(T[i].sigs) /\ (i = 1 \/ s \notin ToSet(T[i - 1].sigs))
  BY DEF Declared
<1>3. /\ T[i].sigs \in Seq(Sigs) /\ T[i].sigs # <<>> /\ T[i].spec \in Specs
      /\ s \in Sigs /\ SpecOf(s) \in Specs
  BY <1>1, <1>2, SpecsAre DEF FutureTypeSet, ToSet
<1> HIDE DEF T, base
<1>4. CASE prog[i].kind \notin {"stop_point", "yield"}
  <2>1. AtLeast(Get(T[i].sigs), SpecOf(s))
    BY <1>2, <1>4 DEF MaxIsRight, T
  <2>2. Get(T[i].sigs) \in Specs
    BY <1>3, GetType, SpecsAre, SeqMonotonic DEF Objects
  <2>3. AtLeast(T[i].spec, Get(T[i].sigs))
    BY <1>1, <1>4, SourceProvides, AdapterProvides
  <2>. QED BY <1>3, <2>1, <2>2, <2>3, AtLeastOrder DEF T
<1>5. CASE prog[i].kind \in {"stop_point", "yield"}
  <2>1. s = "stopped"
    <3>1. i # 1 /\ base = T[i - 1] /\ base \in FutureTypeSet /\ T[i] = TypeOf(prog[i], base)
      BY <1>1, <1>5 DEF Sources
    <3>2. CASE prog[i].kind = "stop_point"
      <4>1. ToSet(TypeOf(prog[i], base).sigs) = ToSet(base.sigs) \cup {"stopped"}
        BY <3>1, <3>2, StopPointDeclares
      <4>. QED BY <1>2, <3>1, <4>1
    <3>3. CASE prog[i].kind = "yield"
      <4>1. T[i] = base
        BY <1>1, <3>1, <3>3, YieldDeclares
      <4>. QED BY <1>2, <3>1, <4>1
    <3>. QED BY <1>5, <3>2, <3>3
  <2>2. AtLeast(T[i].spec, SpecOf(s))
    BY <1>3, <2>1, FutureTypesAssumption DEF AtLeast, SpecOf, Specs
  <2>. QED BY <2>2 DEF T
<1>. QED BY <1>4, <1>5

(* What any future of the pipeline declares, the last one provides for. *)
LEMMA LastProvides ==
  ASSUME Inv, MaxLosesNone
  PROVE  \A i \in 1 .. Len(prog) : \A s \in Declared(i) :
           AtLeast(Types(prog)[Len(prog)].spec, SpecOf(s))
<1> DEFINE n == Len(prog)
           T == Types(prog)
           Ok(k) == \A s \in ToSet(T[k].sigs) : AtLeast(T[k].spec, SpecOf(s))
           Good == {k \in Nat : k = 0 \/ Ok(k)}
<1>1. /\ IsPipeline(prog) /\ n \in Nat \ {0} /\ prog \in Seq(Heads \cup Adapters)
      /\ \A k \in 1 .. n : T[k] \in FutureTypeSet
      /\ \A k \in 1 .. n : T[k] = TypeOf(prog[k], Before(T, k))
  BY ProgIsPipeline, TypesUnfold DEF Inv
<1>2. \A k \in 1 .. n : \A s \in ToSet(T[k].sigs) :
        (k = 1 \/ s \notin ToSet(T[k - 1].sigs)) => AtLeast(T[k].spec, SpecOf(s))
  BY DEF MaxLosesNone, Declared
<1>3. \A k \in 1 .. n : IsStage(prog[k]) /\ (prog[k].kind \in Sources <=> k = 1)
  BY <1>1 DEF IsPipeline
<1>4. \A k \in 1 .. n : T[k].spec \in Specs /\ \A s \in ToSet(T[k].sigs) : SpecOf(s) \in Specs
  BY <1>1, SpecsAre DEF FutureTypeSet, ToSet
<1>5. \A k \in 1 .. n : AtLeast(T[n].spec, T[k].spec)
  BY <1>1, SpecsGrow
<1> HIDE DEF T, n
<1>6. ASSUME NEW k \in 0 .. n - 1, k \in Good PROVE k + 1 \in Good
  <2>1. k + 1 \in 1 .. n /\ k + 1 - 1 = k /\ k \in Nat
    BY <1>1
  <2>2. CASE k = 0
    BY <1>2, <2>1, <2>2
  <2>3. CASE k # 0
    <3>1. k \in 1 .. n
      BY <1>1, <2>3
    <3>2. AtLeast(T[k + 1].spec, T[k].spec)
      BY <1>1, <1>3, <2>1, <2>3, <3>1, AdapterGrows DEF Before
    <3>3. ASSUME NEW s \in ToSet(T[k + 1].sigs) PROVE AtLeast(T[k + 1].spec, SpecOf(s))
      <4>1. CASE s \notin ToSet(T[k].sigs)
        BY <1>2, <2>1, <4>1
      <4>2. CASE s \in ToSet(T[k].sigs)
        <5>1. AtLeast(T[k].spec, SpecOf(s))
          BY <1>6, <2>3, <4>2
        <5>. QED BY <1>4, <2>1, <3>1, <3>2, <4>2, <5>1, AtLeastOrder
      <4>. QED BY <4>1, <4>2
    <3>. QED BY <2>1, <3>3
  <2>. QED BY <2>2, <2>3
<1>7. 0 \in Good
  OBVIOUS
<1> HIDE DEF Good
<1>8. 0 .. n \subseteq Good
  BY <1>1, <1>6, <1>7, UpTo
<1>9. ASSUME NEW i \in 1 .. n, NEW s \in ToSet(T[i].sigs) PROVE AtLeast(T[n].spec, SpecOf(s))
  <2>1. i \in Good /\ i # 0 /\ n \in 1 .. n
    BY <1>1, <1>8
  <2>2. AtLeast(T[i].spec, SpecOf(s))
    BY <2>1 DEF Good
  <2>. QED BY <1>4, <1>5, <2>1, <2>2, AtLeastOrder
<1>. QED BY <1>9 DEF Declared, T, n

\* Of every object alive the last future has heard.
RoomInv ==
  MaxLosesNone => \A o \in ToSet(cell) : AtLeast(Types(prog)[Len(prog)].spec, SpecOf(o))

\* What a step creates, some future has declared, or is inside of an and_then.
LEMMA StepRoom ==
  ASSUME Inv, RoomInv, [Next]_vars
  PROVE  RoomInv'
<1>1. CellStep
  BY StepInv
<1>2. prog' = prog
  BY DEF Next, Step, Terminating, RequestStop, vars, StartBase, StartFactory, StartInline,
         StartReadEnv, StartWhenAny, StartRepeat, PassThrough, Transform, AndThen, SubWorks,
         SubCompletes, With, StopPoint, Repeat, ContinuesOn, Yield, Schedule, Scheduled,
         ScheduleFails, Consume
<1> DEFINE last == Types(prog)[Len(prog)].spec
<1> SUFFICES ASSUME MaxLosesNone, NEW o \in ToSet(cell') PROVE AtLeast(last, SpecOf(o))
  BY <1>2 DEF RoomInv, MaxLosesNone, Declared
<1>3. CASE o \in ToSet(cell)
  BY <1>3 DEF RoomInv
<1>4. CASE pos <= Len(prog) /\ o \in Declared(pos)
  BY <1>4, StageIs, LastProvides
<1>5. CASE phase = "sub" /\ Stage.mid # <<>> /\ o = Temp
  <2>1. /\ pos <= Len(prog) /\ Stage.kind = "and_then" /\ Tag(sig) = Stage.from
    BY <1>5 DEF Inv, PhaseInv
  <2>2. AtLeast(Types(prog)[pos].spec, SpecOf(Temp))
    BY <1>5, <2>1, CalledIs, AndThenDeclares
  <2>3. /\ pos \in 1 .. Len(prog) /\ IsPipeline(prog) /\ Len(prog) \in 1 .. Len(prog)
        /\ prog \in Seq(Heads \cup Adapters)
        /\ \A k \in 1 .. Len(prog) : Types(prog)[k].spec \in Specs
    BY <2>1, StageIs, ProgIsPipeline, SpecsAre DEF Inv, FutureTypeSet
  <2>4. AtLeast(last, Types(prog)[pos].spec)
    BY <2>3, SpecsGrow
  <2>. QED BY <1>5, <2>2, <2>3, <2>4, SpecsAre, AtLeastOrder
<1>. QED BY <1>1, <1>3, <1>4, <1>5 DEF CellStep

\* The last future's storage has room for all objects alive.
LEMMA RoomFits == SizesOrdered /\ Inv /\ RoomInv /\ MaxLosesNone => ResultFits
<1> SUFFICES ASSUME SizesOrdered, Inv, RoomInv, MaxLosesNone, NEW i \in DOMAIN cell
             PROVE  Fits(cell[i], Types(prog)[Len(prog)].spec)
  BY DEF ResultFits
<1>1. cell[i] \in Objects /\ cell[i] \in ToSet(cell)
  BY DEF Inv, PipeTypeOK, ToSet
<1>2. Types(prog)[Len(prog)].spec \in ObjectSpecs
  BY ProgIsPipeline DEF Inv, FutureTypeSet
<1>. QED BY <1>1, <1>2 DEF SizesOrdered, RoomInv, ObjectSpecs

\* The storage of the consumer, of the last future's storage_spec, has room for everything any
\* stage ever creates in it, temporaries inside of and_then included, provided that exy::max
\* loses no signature of this pipeline.
THEOREM StorageSuffices ==
  ASSUME SizesOrdered
  PROVE  Spec => [](MaxLosesNone => ResultFits)
<1>1. Init => RoomInv
  BY EmptyToSet DEF Init, RoomInv
<1>2. Inv /\ RoomInv /\ [Next]_vars => RoomInv'
  BY StepRoom
<1>3. Inv /\ RoomInv => (MaxLosesNone => ResultFits)
  BY RoomFits
<1>. QED BY <1>1, <1>2, <1>3, Invariance, PTL DEF Spec
=============================================================================
