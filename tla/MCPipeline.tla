----------------------------- MODULE MCPipeline ------------------------------
(* Model-checking instance of Pipeline: all pipelines made of these stages.  *)
EXTENDS Pipeline

St(kind, from, to, mid, throws) ==
  [kind |-> kind, from |-> from, to |-> to, mid |-> mid, throws |-> throws]

AllHeads == { St("factory", "value", <<"value1">>, <<>>, TRUE),
              St("factory", "value", <<"error">>, <<>>, FALSE),
              St("factory", "value", <<"stopped">>, <<>>, FALSE),
              St("inline", "value", <<"unit">>, <<>>, FALSE),
              St("read_env", "value", <<"value2">>, <<>>, TRUE),
              St("when_any", "value", <<"value1", "value2", "value1">>, <<>>, FALSE) }

Quiet == { St("transform", "value", <<"value2">>, <<>>, TRUE),
           St("transform", "error", <<"value1">>, <<>>, FALSE),
           St("transform", "stopped", <<"stopped">>, <<>>, TRUE),
           St("and_then", "value", <<"value1", "error">>, <<Temp>>, TRUE),
           St("and_then", "error", <<"value1", "stopped">>, <<>>, FALSE),
           St("with", "value", <<>>, <<>>, FALSE),
           St("stop_point", "value", <<>>, <<>>, FALSE),
           St("repeat", "value", <<>>, <<>>, FALSE),
           St("repeat", "error", <<>>, <<>>, TRUE),
           St("continues_on", "value", <<>>, <<>>, TRUE),
           St("yield", "value", <<>>, <<>>, FALSE) }

\* Nothing is bigger than an exception_ptr, except inside of a future.
Sizes == [o \in Objects |-> CASE o \in {"unit", "stopped"} -> 0
                              [] o = "value2" -> 4
                              [] o = Temp -> 16
                              [] OTHER -> 8]
Alignments == [o \in Objects |-> CASE o \in {"unit", "stopped"} -> 1
                                   [] o = "value2" -> 4
                                   [] OTHER -> 8]

Throwing == { St("with", "value", <<>>, <<>>, TRUE) }

\* when_any(schedule(parallel), value() | repeat)
WorkAndLoop == { St("when_any", "value", <<"unit", "exception", "stopped">>, <<>>, FALSE) }
==============================================================================
