----------------------------- MODULE FutureTypes -----------------------------
(***************************************************************************)
(* What the compiler computes of a pipeline: the signatures of each of its *)
(* futures, an ordered list, and its storage_spec, the size and alignment  *)
(* of the result storage it asks of whoever runs it.  There is one such    *)
(* storage for the whole pipeline, so the last future's spec has to        *)
(* provide for everything any stage ever creates in it.                    *)
(*                                                                         *)
(* A signature stands for its tag and the types of its arguments.          *)
(***************************************************************************)
EXTENDS Naturals, SequencesExt

CONSTANTS
  SizeOf,  \* sizeof and
  AlignOf  \* alignof the pack of a signature's arguments

Sigs == {"unit", "value1", "value2", "error", "exception", "stopped"}
Temp == "temp"  \* the arguments of a signature only the inside of a future knows
Objects == Sigs \cup {Temp}

Tag(s) ==
  CASE s \in {"unit", "value1", "value2"} -> "value"  \* unit: value_tag()
    [] s \in {"error", "exception"} -> "error"         \* exception: error_tag(exception_ptr)
    [] s = "stopped" -> "stopped"

Tags == {"value", "error", "stopped"}

ASSUME FutureTypesAssumption ==
  /\ SizeOf \in [Objects -> Nat]
  /\ AlignOf \in [Objects -> Nat \ {0}]
  /\ \A s \in {"unit", "stopped"} : SizeOf[s] = 0 /\ AlignOf[s] = 1  \* no arguments

------------------------------------------------------------------------------
(* storage_spec *)

Specs == [size : Nat, alignment : Nat \ {0}]

\* storage_spec's operator<=>
AtLeast(a, b) ==
  \/ a.size > b.size
  \/ a.size = b.size /\ a.alignment >= b.alignment

\* exy::max, which compares each argument with the first one.
MaxOf(h, ts) == FoldLeft(LAMBDA result, t : IF AtLeast(t, h) THEN t ELSE result, h, ts)

MaxOf2(a, b) == MaxOf(a, <<b>>)

SpecOf(s) == [size |-> SizeOf[s], alignment |-> AlignOf[s]]

\* storage_spec::get of a signature list
Get(sigs) ==
  LET specs == [i \in DOMAIN sigs |-> SpecOf(sigs[i])]
  IN MaxOf(Head(specs), Tail(specs))

\* Is there room for the arguments of s?
Fits(s, spec) ==
  /\ SizeOf[s] <= spec.size
  /\ spec.alignment % AlignOf[s] = 0

------------------------------------------------------------------------------
(* Lists of signatures *)

PushBack(sigs, s) == IF Contains(sigs, s) THEN sigs ELSE Append(sigs, s)  \* mp_set_push_back

Unique(sigs) == FoldLeft(PushBack, <<>>, sigs)                            \* mp_unique

HasTag(sigs, tag) == \E s \in ToSet(sigs) : Tag(s) = tag

InsertException(sigs, throws) == IF throws THEN PushBack(sigs, "exception") ELSE sigs

WithoutTag(sigs, tag) ==                                                  \* mp_remove_if
  FoldLeft(LAMBDA kept, s : IF Tag(s) = tag THEN kept ELSE Append(kept, s), <<>>, sigs)

ReplaceTag(sigs, tag, others) == Unique(WithoutTag(sigs, tag) \o others)

TransformTag(sigs, tag, s) ==
  Unique([i \in DOMAIN sigs |-> IF Tag(sigs[i]) = tag THEN s ELSE sigs[i]])

------------------------------------------------------------------------------
(***************************************************************************)
(* The stages of a pipeline.  from: the tag a stage handles.  to: what it  *)
(* makes of it (transform makes the same of everything).  mid: what the    *)
(* future made by and_then's function creates before it completes.         *)
(* throws: may the client's code in it (functions, moves, copies, a        *)
(* backend's schedule()) throw?                                            *)
(***************************************************************************)
Sources == {"factory", "inline", "read_env", "when_any"}

IsStage(st) ==
  /\ st.kind \in Sources \cup {"transform", "and_then", "with", "stop_point", "repeat",
                               "continues_on", "yield"}
  /\ st.from \in Tags
  /\ st.to \in Seq(Sigs) /\ st.mid \in {<<>>, <<Temp>>}
  /\ st.throws \in BOOLEAN
  /\ st.kind \in {"factory", "read_env", "transform"} => Len(st.to) = 1
  /\ st.kind \in {"when_any", "and_then"} => st.to # <<>>
  /\ st.kind \in {"continues_on", "yield"} => st.from = "value"

\* A future type; base is the one it adapts.
Future(sigs, spec) == [sigs |-> sigs, spec |-> spec]
Plain(sigs) == Future(sigs, Get(sigs))
OnTopOf(base, sigs) == Future(sigs, MaxOf2(base.spec, Get(sigs)))

FactoryType(st) == Plain(InsertException(st.to, st.throws))

InlineType == Plain(<<"unit">>)

ReadEnvType(st) == Plain(InsertException(st.to, st.throws))

\* Its children complete with one signature each; what they need for that is in the
\* operation.
WhenAnyType(st) == Plain(InsertException(Unique(st.to), st.throws))

TransformType(st, base) ==
  OnTopOf(base, InsertException(TransformTag(base.sigs, st.from, st.to[1]),
                                st.throws /\ HasTag(base.sigs, st.from)))

\* The future made by and_then's function: signatures and storage_spec of its own.
InnerType(st) ==
  Future(st.to, IF st.mid = <<>> THEN Get(st.to) ELSE MaxOf2(Get(st.mid), Get(st.to)))

\* Mutant of AndThenType: the inner future gets no say in the storage.
AndThenTypeWithoutInner(st, base) ==
  IF HasTag(base.sigs, st.from)
  THEN OnTopOf(base, InsertException(ReplaceTag(base.sigs, st.from, st.to), st.throws))
  ELSE OnTopOf(base, base.sigs)

AndThenType(st, base) ==
  LET inner == InnerType(st)
      outer == OnTopOf(base, InsertException(ReplaceTag(base.sigs, st.from, inner.sigs),
                                             st.throws))
  IN IF HasTag(base.sigs, st.from)
     THEN Future(outer.sigs, MaxOf2(outer.spec, inner.spec))
     ELSE OnTopOf(base, base.sigs)

WithType(st, base) ==
  OnTopOf(base, InsertException(base.sigs, st.throws /\ HasTag(base.sigs, st.from)))

StopPointType(base) == Future(PushBack(base.sigs, "stopped"), base.spec)

RepeatType(st, base) ==
  OnTopOf(base, InsertException(ReplaceTag(base.sigs, st.from, <<"stopped">>), st.throws))

\* The scheduler's errors are the exceptions of a schedule() that throws.
ContinuesOnType(st, base) == OnTopOf(base, InsertException(base.sigs, st.throws))

YieldType(base) == base

TypeOf(st, base) ==
  CASE st.kind = "factory"      -> FactoryType(st)
    [] st.kind = "inline"       -> InlineType
    [] st.kind = "read_env"     -> ReadEnvType(st)
    [] st.kind = "when_any"     -> WhenAnyType(st)
    [] st.kind = "transform"    -> TransformType(st, base)
    [] st.kind = "and_then"     -> AndThenType(st, base)
    [] st.kind = "with"         -> WithType(st, base)
    [] st.kind = "stop_point"   -> StopPointType(base)
    [] st.kind = "repeat"       -> RepeatType(st, base)
    [] st.kind = "continues_on" -> ContinuesOnType(st, base)
    [] st.kind = "yield"        -> YieldType(base)

\* The types of the futures p[1], p[1] | p[2], and so on.
Types(p) ==
  LET T[i \in DOMAIN p] == TypeOf(p[i], IF i = 1 THEN Future(<<>>, <<>>) ELSE T[i - 1])
  IN T
==============================================================================
