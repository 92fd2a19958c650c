-------------------------- MODULE MCPauseControl --------------------------
(* Instances of PauseControl for TLC: a pipeline and a single tool.        *)
EXTENDS PauseControl

PipelineThenTool == << <<"producer", "consumer">>, <<"muxer">> >>
=============================================================================
