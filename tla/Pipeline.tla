------------------------------ MODULE Pipeline ------------------------------
(***************************************************************************)
(* A run of two tools, one feeding the other (run_pipeline_execute in      *)
(* crates/media-runtime/src/supervisor.rs): the producer's stdout is       *)
(* carried to the consumer's stdin, and every other stream is drained into *)
(* the log, all at once, until both tools and all streams have ended.      *)
(*                                                                         *)
(* A pipe is the number of records in it.  What a tool does next is its    *)
(* own choice, but a write to a full pipe and a read from an empty one     *)
(* block it.  A tool may leave descendants that hold its pipes open.       *)
(***************************************************************************)
EXTENDS Naturals, Functions

CONSTANTS
  Room,    \* records a pipe holds
  Amount   \* bound: records a tool writes

(* What is assumed of them, where the module is used. *)
Capacities == Room \in Nat \ {0} /\ Amount \in Nat

Stage == {"producer", "consumer"}

(* The streams that are logged, and who writes them. *)
Logged   == {"producer stderr", "consumer stderr", "consumer stdout"}
Stream   == Logged \cup {"stdout", "stdin"}
Written(s) == IF s = "producer" THEN {"stdout", "producer stderr"}
                                ELSE {"consumer stdout", "consumer stderr"}

VARIABLES
  toFile,     \* the consumer's stdout is an owned file
  tool,       \* the leader of each tree
  heirs,      \* a descendant of it lives
  wish,       \* the stream a tool is blocked at, or "none"
  said,       \* records written to a stream
  pipe,       \* records in it
  logged,     \* records of it in the log
  taken,      \* records the consumer has read
  hand,       \* records transfer_binary has read and not written
  delivered,  \* the end of input has been passed on
  noted,      \* the stages whose success has been accepted
  drained,    \* the streams read to their end
  run,        \* where the run stands
  verdict     \* its result

vars == <<toFile, tool, heirs, wish, said, pipe, logged, taken, hand, delivered, noted,
          drained, run, verdict>>

supervisor == <<toFile, logged, hand, delivered, noted, drained, run, verdict>>
tools      == <<tool, heirs, wish, said, taken>>

Alive(s) == tool[s] = "running" \/ heirs[s]

Writer(p) == CHOOSE s \in Stage : p \in Written(s)

(* A pipe ends when every process that could write to it is gone. *)
Ended(p) == pipe[p] = 0 /\ ~Alive(Writer(p))

InputEnded == pipe["stdin"] = 0 /\ (delivered \/ run # "running")

-----------------------------------------------------------------------------
(* The tools.                                                              *)

Idle(s) == tool[s] = "running" /\ wish[s] = "none"

BeginWrite(s, p) ==
  /\ Idle(s) /\ p \in Written(s) /\ FoldFunctionOnSet(+, 0, said, Written(s)) < Amount
  /\ toFile => p # "consumer stdout"
  /\ wish' = [wish EXCEPT ![s] = p]
  /\ UNCHANGED <<tool, heirs, said, taken, pipe, supervisor>>

EndWrite(s) ==
  /\ tool[s] = "running" /\ wish[s] \in Written(s)
  /\ pipe[wish[s]] < Room
  /\ pipe' = [pipe EXCEPT ![wish[s]] = @ + 1]
  /\ said' = [said EXCEPT ![wish[s]] = @ + 1]
  /\ wish' = [wish EXCEPT ![s] = "none"]
  /\ UNCHANGED <<tool, heirs, taken, supervisor>>

(* A tool that has come to the end of its input reads no more. *)
BeginRead ==
  /\ Idle("consumer") /\ ~InputEnded
  /\ wish' = [wish EXCEPT !["consumer"] = "stdin"]
  /\ UNCHANGED <<tool, heirs, said, taken, pipe, supervisor>>

EndRead ==
  /\ tool["consumer"] = "running" /\ wish["consumer"] = "stdin"
  /\ \/ pipe["stdin"] > 0 /\ taken' = taken + 1 /\ pipe' = [pipe EXCEPT !["stdin"] = @ - 1]
     \/ InputEnded /\ UNCHANGED <<taken, pipe>>
  /\ wish' = [wish EXCEPT !["consumer"] = "none"]
  /\ UNCHANGED <<tool, heirs, said, supervisor>>

Quit(s) ==
  /\ Idle(s)
  /\ \E status \in {"succeeded", "failed"}, left \in BOOLEAN :
       tool' = [tool EXCEPT ![s] = status] /\ heirs' = [heirs EXCEPT ![s] = left]
  /\ UNCHANGED <<wish, said, taken, pipe, supervisor>>

-----------------------------------------------------------------------------
(* The supervisor.                                                         *)

SpawnConsumer ==
  /\ run = "starting" /\ tool["consumer"] = "unstarted"
  /\ \/ tool' = [tool EXCEPT !["consumer"] = "running"] /\ UNCHANGED <<verdict, run>>
     \/ verdict' = "error" /\ run' = "returned" /\ UNCHANGED tool
  /\ UNCHANGED <<toFile, heirs, wish, said, pipe, logged, taken, hand, delivered, noted,
                 drained>>

(* A producer that cannot be started takes the consumer with it. *)
SpawnProducer ==
  /\ run = "starting" /\ tool["consumer"] # "unstarted"
  /\ \/ tool' = [tool EXCEPT !["producer"] = "running"] /\ run' = "running"
        /\ UNCHANGED <<heirs, verdict>>
     \/ tool' = [tool EXCEPT !["consumer"] = "reaped"]
        /\ heirs' = [heirs EXCEPT !["consumer"] = FALSE]
        /\ verdict' = "error" /\ run' = "returned"
  /\ UNCHANGED <<toFile, wish, said, pipe, logged, taken, hand, delivered, noted, drained>>

(* The loop ends with an error, and with it every stream but one.          *)
Conclude(v) == verdict' = v /\ run' = "cleanup"

Terminated(s) == [heirs EXCEPT ![s] = FALSE]

(* wait_and_terminate_descendants, and what the loop makes of the status. *)
NoteExit(s) ==
  /\ run = "running" /\ s \notin noted
  /\ tool[s] \in {"succeeded", "failed"}
  /\ heirs' = Terminated(s)
  /\ IF tool[s] = "failed" THEN Conclude("error") /\ UNCHANGED noted
     ELSE IF s = "consumer" /\ ~delivered THEN Conclude("error") /\ UNCHANGED noted
     ELSE noted' = noted \cup {s} /\ UNCHANGED <<verdict, run>>
  /\ UNCHANGED <<toFile, tool, wish, said, pipe, logged, taken, hand, delivered, drained>>

Receive ==
  /\ run = "running" /\ hand = 0 /\ pipe["stdout"] > 0
  /\ hand' = 1
  /\ pipe' = [pipe EXCEPT !["stdout"] = @ - 1]
  /\ UNCHANGED <<tools, toFile, logged, delivered, noted, drained, run, verdict>>

(* Nobody reads the input of a consumer that is gone. *)
Forward ==
  /\ run = "running" /\ hand = 1
  /\ IF Alive("consumer")
     THEN /\ pipe["stdin"] < Room
          /\ pipe' = [pipe EXCEPT !["stdin"] = @ + 1]
          /\ hand' = 0
          /\ UNCHANGED <<run, verdict>>
     ELSE Conclude("error") /\ UNCHANGED <<hand, pipe>>
  /\ UNCHANGED <<tools, toFile, logged, delivered, noted, drained>>

(* The end is passed on and known in one step. *)
Deliver ==
  /\ run = "running" /\ ~delivered
  /\ hand = 0 /\ Ended("stdout")
  /\ delivered' = TRUE
  /\ UNCHANGED <<tools, toFile, pipe, logged, hand, noted, drained, run, verdict>>

(* Seeded fault: the diagnostics are read when the data is through. *)
InTurn(p) == run = "running" /\ (p # "consumer stdout" => delivered)

(* After the loop only the consumer's stdout is read on. *)
Reading(p) == run = "running" \/ (run = "draining" /\ p = "consumer stdout")

Drain(p) ==
  /\ p \in Logged \ drained /\ Reading(p) /\ pipe[p] > 0
  /\ pipe' = [pipe EXCEPT ![p] = @ - 1]
  /\ logged' = [logged EXCEPT ![p] = @ + 1]
  /\ UNCHANGED <<tools, toFile, hand, delivered, noted, drained, run, verdict>>

EndDrain(p) ==
  /\ p \in Logged \ drained /\ Reading(p) /\ Ended(p)
  /\ drained' = drained \cup {p}
  /\ UNCHANGED <<tools, toFile, pipe, logged, hand, delivered, noted, run, verdict>>

(* Seeded fault: two statuses are enough. *)
BothNoted == noted = Stage

Everything == noted = Stage /\ delivered /\ drained = Logged

Complete ==
  /\ run = "running" /\ Everything
  /\ Conclude("ok")
  /\ UNCHANGED <<tools, toFile, pipe, logged, hand, delivered, noted, drained>>

(* A cancellation or the time limit. *)
Interrupt ==
  /\ run = "running"
  /\ Conclude("error")
  /\ UNCHANGED <<tools, toFile, pipe, logged, hand, delivered, noted, drained>>

TerminateBoth ==
  /\ run = "cleanup"
  /\ tool' = [s \in Stage |-> "reaped"]
  /\ heirs' = [s \in Stage |-> FALSE]
  /\ wish' = [s \in Stage |-> "none"]
  /\ run' = "draining"
  /\ UNCHANGED <<toFile, said, pipe, logged, taken, hand, delivered, noted, drained, verdict>>

Return ==
  /\ run = "draining" /\ "consumer stdout" \in drained
  /\ run' = "returned"
  /\ UNCHANGED <<tools, toFile, pipe, logged, hand, delivered, noted, drained,
                 verdict>>

-----------------------------------------------------------------------------
Init ==
  /\ toFile \in BOOLEAN
  /\ tool = [s \in Stage |-> "unstarted"]
  /\ heirs = [s \in Stage |-> FALSE]
  /\ wish = [s \in Stage |-> "none"]
  /\ said = [p \in Stream |-> 0]
  /\ pipe = [p \in Stream |-> 0]
  /\ logged = [p \in Logged |-> 0]
  /\ taken = 0
  /\ hand = 0
  /\ delivered = FALSE
  /\ noted = {}
  /\ drained = IF toFile THEN {"consumer stdout"} ELSE {}
  /\ run = "starting"
  /\ verdict = "none"

Supervise ==
  \/ SpawnConsumer \/ SpawnProducer
  \/ \E s \in Stage : NoteExit(s)
  \/ Receive \/ Forward \/ Deliver
  \/ \E p \in Logged : Drain(p) \/ EndDrain(p)
  \/ Complete \/ TerminateBoth \/ Return

(* The caller has the result; the run is over. *)
Over == run = "returned" /\ UNCHANGED vars

Work(s) == EndWrite(s) \/ (s = "consumer" /\ EndRead) \/ Quit(s)

Next ==
  \/ Supervise \/ Interrupt
  \/ \E s \in Stage : EndWrite(s) \/ Quit(s) \/ \E p \in Written(s) : BeginWrite(s, p)
  \/ BeginRead \/ EndRead
  \/ Over

-----------------------------------------------------------------------------
(* Properties.                                                             *)

(* When the run returns no process of it lives and, once both tools have   *)
(* started, the consumer's output is in the log.  If it reports success,   *)
(* every record the producer wrote has been passed on before the           *)
(* consumer's end was accepted, and every stream is in the log.            *)
ReturnedComplete ==
  run = "returned" =>
    /\ \A s \in Stage : ~Alive(s)
    /\ tool["producer"] # "unstarted" => logged["consumer stdout"] = said["consumer stdout"]
    /\ verdict = "ok" =>
         /\ taken + pipe["stdin"] = said["stdout"]
         /\ \A p \in Logged : logged[p] = said[p]

(* Two tools that end by themselves when they are not blocked make a run   *)
(* that ends, whichever pipe is full and whoever inherits it: no stream    *)
(* waits for another, and nobody needs the time limit.                     *)
PipelineEnds == <>(run = "returned")
=============================================================================
