---------------------------- MODULE MCExecution -----------------------------
(* Instances of Execution for TLC: the pause of a pipeline and a tool, a   *)
(* pipeline, and one review behind an ordinary job.                        *)
EXTENDS Execution

CONSTANTS r1, j0

PipelineThenTool == << <<"producer", "consumer">>, <<"muxer">> >>
=============================================================================
