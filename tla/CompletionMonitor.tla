------------------------- MODULE CompletionMonitor -------------------------
(* The finish action of src-tauri/src/completion.rs, with the inspection   *)
(* tickets of src-tauri/src/analysis.rs.  Notices are left out.            *)
(*                                                                         *)
(* A task samples the job list twice a second; the monitor's mutex, the    *)
(* admission mutex and the ticket table are shared with the commands of    *)
(* the user interface.  The list is always read before the lock under      *)
(* which it is used.  Jobs stand for the rest of the program: only what    *)
(* the monitor can tell apart is kept.  An instant is kept as the time     *)
(* left until it, in units of which the countdown has Countdown and the    *)
(* life of a ticket TicketLife.                                            *)
EXTENDS Integers, FiniteSets

CONSTANTS
  Job,            \* job identifiers
  Ticket,         \* inspection tickets, each used once
  None,           \* no deadline
  Countdown,      \* 60 seconds
  TicketLife,     \* 30 seconds
  MaxTickets,     \* 4
  MaxGeneration,  \* bound: admissions, reconfigurations and cancellations
  Resumes         \* whether ended jobs may be resumed

ASSUME CompletionAssumption ==
  /\ None \notin Int
  /\ {Countdown, TicketLife, MaxTickets} \subseteq Nat \ {0}
  /\ MaxGeneration \in Nat
  /\ Resumes \in BOOLEAN

VARIABLES
  job,         \* the state of every job in JobManager's list
  ticket,      \* AnalysisTasks.tasks: the stage and remaining life of each ticket
  monitor,     \* Monitor
  dispatched,  \* the value in the admission mutex
  holder,      \* who holds the admission mutex
  call,        \* how far the command that holds it is, and the list it read
  sampler,     \* where the sampling task stands and what it has read
  quiet,       \* ghost: time since work was last admitted, up to Countdown
  queued,      \* ghost: jobs queued since, or active when, an action was armed
  resumed      \* ghost: jobs resumed since the list was read that an action was armed by

vars == <<job, ticket, monitor, dispatched, holder, call, sampler,
          quiet, queued, resumed>>

-----------------------------------------------------------------------------
(* Failed, Canceled, Interrupted and Stopped are one to the monitor. *)
Ended    == {"succeeded", "unsuccessful"}
Listing  == {"unlisted", "active"} \cup Ended
Jobs     == [Job -> Listing]
Unlisted == [j \in Job |-> "unlisted"]
Action   == {"none", "close", "shutdown"}
Deadline == 0 .. Countdown \cup {None}
Monitor  == [finish : Action, seen : SUBSET Job, armed : SUBSET Job,
             deadline : Deadline, generation : 0 .. MaxGeneration + 1]

ListedIn(jobs) == {j \in Job : jobs[j] # "unlisted"}
ActiveIn(jobs) == {j \in Job : jobs[j] = "active"}

(* AnalysisTasks::is_running: a reservation counts until it expires. *)

(* Seeded fault: a reservation never expires. *)
Reserved(t) == ticket[t].stage = "reserved"

Fresh(t)   == ticket[t].stage = "reserved" /\ ticket[t].left > 0
Started(t) == ticket[t].stage \in {"running", "prepared"}

AnalysisRunning == \E t \in Ticket : Started(t) \/ Fresh(t)

-----------------------------------------------------------------------------
(* Monitor::tick, applied to the job list that was read. *)

Disarmed(m) == [m EXCEPT !.finish = "none", !.armed = {}, !.deadline = None]

(* Jobs that join the armed queue: those never seen and those still active. *)
(* Seeded fault: a new job that has already ended does not join. *)
JoiningActive(m, jobs) == IF m.finish = "none" THEN {} ELSE ActiveIn(jobs)

Joining(m, jobs) ==
  IF m.finish = "none" THEN {}
  ELSE (ListedIn(jobs) \ m.seen) \cup ActiveIn(jobs)

Spoils(armed, jobs) == \E j \in armed : jobs[j] \in {"unlisted", "unsuccessful"}

Ticked(m, jobs, otherWork) ==
  LET armed == m.armed \cup Joining(m, jobs)
      seen  == [m EXCEPT !.seen = ListedIn(jobs), !.armed = armed]
      busy  == otherWork \/ ActiveIn(jobs) # {}
      start == m.deadline = None /\ armed # {}
  IN
  CASE m.finish = "none" -> seen
    [] m.finish # "none" /\ Spoils(armed, jobs) -> Disarmed(seen)
    [] m.finish # "none" /\ ~Spoils(armed, jobs) ->
         [seen EXCEPT !.deadline = IF busy THEN None
                                   ELSE IF start THEN Countdown ELSE @]

(* What a tick left behind asks for the finish action. *)
Due(m, jobs, otherWork) ==
  /\ m.finish # "none"
  /\ ~otherWork
  /\ ActiveIn(jobs) = {}
  /\ m.armed # {}
  /\ m.deadline = 0

(* Monitor::cancel. *)
Revoked(m) == [Disarmed(m) EXCEPT !.generation = @ + 1]

-----------------------------------------------------------------------------
(* Commands.  The guard of admit_work is kept until the command returns,   *)
(* so at most one command is past it.                                      *)

(* Seeded fault: the countdown goes on while new work is admitted. *)
CountdownKept(m) == [m EXCEPT !.generation = @ + 1]

Admitting(m) == [m EXCEPT !.deadline = None, !.generation = @ + 1]

Admitted ==
  /\ holder = "nobody"
  /\ ~dispatched
  /\ monitor.generation < MaxGeneration
  /\ monitor' = Admitting(monitor)
  /\ quiet' = 0

Idle == [did |-> "nothing", jobs |-> Unlisted]

AdmitWork ==
  /\ Admitted
  /\ holder' = "command"
  /\ call' = [call EXCEPT !.did = "admitted"]
  /\ UNCHANGED <<job, ticket, dispatched, sampler, queued, resumed>>

Returned ==
  /\ holder' = "nobody"
  /\ call' = Idle

(* The command fails, or admits nothing the monitor can see. *)
Refused ==
  /\ call.did \in {"admitted", "listed"}
  /\ Returned
  /\ UNCHANGED <<job, ticket, monitor, dispatched, sampler, quiet, queued, resumed>>

(* A new identifier: nobody has heard of it. *)
Unknown(j) ==
  /\ j \notin monitor.armed \cup monitor.seen
  /\ \A jobs \in {job, sampler.jobs, call.jobs} : jobs[j] = "unlisted"

Activate(j) == job' = [job EXCEPT ![j] = "active"]

QueueNew(j) ==
  /\ Unknown(j)
  /\ Activate(j)
  /\ queued' = queued \cup {j}
  /\ resumed' = resumed \ {j}

(* start_encode, enqueue_encode, enqueue_encode_batch, start_mux. *)
Enqueue(j) ==
  /\ call.did = "admitted"
  /\ QueueNew(j)
  /\ Returned
  /\ UNCHANGED <<ticket, monitor, dispatched, sampler, quiet>>

Requeue(j) ==
  /\ Resumes
  /\ job[j] = "unsuccessful"
  /\ Activate(j)
  /\ resumed' = resumed \cup {j}
  /\ UNCHANGED queued

(* resume_job, and av1an_recovery_action when it resumes. *)
Resume(j) ==
  /\ call.did = "admitted"
  /\ Requeue(j)
  /\ Returned
  /\ UNCHANGED <<ticket, monitor, dispatched, sampler, quiet>>

(* set_completion_options reads the list before configure locks the state. *)
ListForOptions ==
  /\ call.did = "admitted"
  /\ call' = [did |-> "listed", jobs |-> job]
  /\ UNCHANGED <<job, ticket, monitor, dispatched, holder, sampler, quiet, queued, resumed>>

Configured(m, finish, jobs) ==
  [finish     |-> finish,
   seen       |-> ListedIn(jobs),
   armed      |-> IF finish = "none" THEN {} ELSE ActiveIn(jobs),
   deadline   |-> None,
   generation |-> m.generation + 1]

Configure(finish) ==
  /\ call.did = "listed"
  /\ finish # "none" => ActiveIn(call.jobs) # {}
  /\ monitor.generation < MaxGeneration
  /\ monitor' = Configured(monitor, finish, call.jobs)
  /\ queued' = ActiveIn(job) \cup ActiveIn(call.jobs)
  /\ resumed' = {j \in ActiveIn(job) : call.jobs[j] \in Ended}
  /\ Returned
  /\ UNCHANGED <<job, ticket, dispatched, sampler, quiet>>

(* cancel_finish_action takes the state lock alone. *)
CancelFinish ==
  /\ monitor.generation < MaxGeneration
  /\ monitor' = Revoked(monitor)
  /\ UNCHANGED <<job, ticket, dispatched, holder, call, sampler, quiet, queued, resumed>>

-----------------------------------------------------------------------------
(* Tickets.  begin_media_analysis does not await between its admission and *)
(* its reservation; a command that runs under a ticket is not admitted.    *)

BeginTicket(t) ==
  /\ Admitted
  /\ ticket[t].stage = "unused"
  /\ Cardinality({u \in Ticket : Started(u) \/ Fresh(u)}) < MaxTickets
  /\ ticket' = [ticket EXCEPT ![t] = [stage |-> "reserved", left |-> TicketLife]]
  /\ UNCHANGED <<job, dispatched, holder, call, sampler, queued, resumed>>

(* Seeded fault: an expired ticket still starts. *)
MayRunExpired(t) == ticket[t].stage = "reserved"

MayRun(t) == Fresh(t)

RunTicket(t) ==
  /\ MayRun(t)
  /\ ticket' = [ticket EXCEPT ![t].stage = "running"]
  /\ UNCHANGED <<job, monitor, dispatched, holder, call, sampler, quiet, queued, resumed>>

(* prepare_command_edit queues a job to be reviewed, or resumes one, under *)
(* its ticket alone.                                                       *)
PrepareEdit(t, j) ==
  /\ ticket[t].stage = "running"
  /\ ticket' = [ticket EXCEPT ![t].stage = "prepared"]
  /\ QueueNew(j) \/ Requeue(j)
  /\ UNCHANGED <<monitor, dispatched, holder, call, sampler, quiet>>

(* RunningAnalysis is dropped, or an unused ticket is canceled. *)
EndTicket(t) ==
  /\ Started(t) \/ ticket[t].stage = "reserved"
  /\ ticket' = [ticket EXCEPT ![t].stage = "used"]
  /\ UNCHANGED <<job, monitor, dispatched, holder, call, sampler, quiet, queued, resumed>>

-----------------------------------------------------------------------------
(* The job manager: jobs end, and ended jobs may leave the history. *)
EndJob(j) ==
  /\ job[j] = "active"
  /\ \E state \in Ended : job' = [job EXCEPT ![j] = state]
  /\ UNCHANGED <<ticket, monitor, dispatched, holder, call, sampler, quiet, queued, resumed>>

ForgetJob(j) ==
  /\ job[j] \in Ended
  /\ job' = [job EXCEPT ![j] = "unlisted"]
  /\ UNCHANGED <<ticket, monitor, dispatched, holder, call, sampler, quiet, queued, resumed>>

Shorter(n) == IF n > 0 THEN n - 1 ELSE 0

TimePasses ==
  /\ monitor' = [monitor EXCEPT !.deadline = IF @ = None THEN None ELSE Shorter(@)]
  /\ ticket' = [t \in Ticket |-> [ticket[t] EXCEPT !.left = Shorter(@)]]
  /\ quiet' = IF quiet < Countdown THEN quiet + 1 ELSE quiet
  /\ UNCHANGED <<job, dispatched, holder, call, sampler, queued, resumed>>

-----------------------------------------------------------------------------
(* The task of completion::start. *)

Asleep == [at |-> "sleep", jobs |-> Unlisted, generation |-> 0]

SampleJobs ==
  /\ sampler.at = "sleep"
  /\ sampler' = [sampler EXCEPT !.at = "listed", !.jobs = job]
  /\ UNCHANGED <<job, ticket, monitor, dispatched, holder, call, quiet, queued, resumed>>

Tick ==
  LET m == Ticked(monitor, sampler.jobs, AnalysisRunning)
  IN
  /\ sampler.at = "listed"
  /\ monitor' = m
  /\ sampler' = IF Due(m, sampler.jobs, AnalysisRunning)
                THEN [sampler EXCEPT !.at = "due", !.generation = m.generation]
                ELSE Asleep
  /\ UNCHANGED <<job, ticket, dispatched, holder, call, quiet, queued, resumed>>

LockAdmission ==
  /\ sampler.at = "due"
  /\ holder = "nobody"
  /\ IF dispatched
     THEN sampler' = Asleep /\ UNCHANGED holder
     ELSE sampler' = [sampler EXCEPT !.at = "locked"] /\ holder' = "sampler"
  /\ UNCHANGED <<job, ticket, monitor, dispatched, call, quiet, queued, resumed>>

(* Seeded fault: the dispatch goes by the list of the tick. *)
ListOfTick == sampler.jobs

FreshJobs == job

RefreshJobs ==
  /\ sampler.at = "locked"
  /\ sampler' = [sampler EXCEPT !.at = "refreshed", !.jobs = FreshJobs]
  /\ UNCHANGED <<job, ticket, monitor, dispatched, holder, call, quiet, queued, resumed>>

Claimable == monitor.generation = sampler.generation

(* Monitor::claim: the generation, the list and the tickets are checked    *)
(* and the action dispatched under the state lock.  Starting the shutdown  *)
(* command may fail.                                                       *)
Claim ==
  LET m   == Ticked(monitor, sampler.jobs, AnalysisRunning)
      due == Claimable /\ Due(m, sampler.jobs, AnalysisRunning)
  IN
  /\ sampler.at = "refreshed"
  /\ holder' = "nobody"
  /\ \/ /\ ~due
        /\ monitor' = IF Claimable THEN m ELSE monitor
        /\ sampler' = Asleep
        /\ UNCHANGED dispatched
     \/ /\ due
        /\ monitor' = Revoked(m)
        /\ \/ /\ dispatched' = TRUE
              /\ sampler' = [Asleep EXCEPT
                               !.at = IF m.finish = "close" THEN "closed" ELSE "shutdown"]
           \/ /\ m.finish = "shutdown"
              /\ sampler' = Asleep
              /\ UNCHANGED dispatched
  /\ UNCHANGED <<job, ticket, call, quiet, queued, resumed>>

(* The shutdown command ended: declined, work is accepted again. *)
ShutdownAnswered ==
  /\ sampler.at = "shutdown"
  /\ \/ UNCHANGED dispatched
     \/ holder = "nobody" /\ dispatched' = FALSE
  /\ sampler' = Asleep
  /\ UNCHANGED <<job, ticket, monitor, holder, call, quiet, queued, resumed>>

-----------------------------------------------------------------------------
Init ==
  /\ job = Unlisted
  /\ ticket = [t \in Ticket |-> [stage |-> "unused", left |-> 0]]
  /\ monitor = [finish |-> "none", seen |-> {}, armed |-> {},
                deadline |-> None, generation |-> 0]
  /\ dispatched = FALSE
  /\ holder = "nobody"
  /\ call = Idle
  /\ sampler = Asleep
  /\ quiet = 0
  /\ queued = {}
  /\ resumed = {}

Command ==
  \/ Refused
  \/ \E j \in Job : Enqueue(j) \/ Resume(j)
  \/ ListForOptions
  \/ \E finish \in Action : Configure(finish)

Inspection ==
  \E t \in Ticket :
    \/ BeginTicket(t) \/ RunTicket(t) \/ EndTicket(t)
    \/ \E j \in Job : PrepareEdit(t, j)

Sampling ==
  \/ SampleJobs \/ Tick \/ LockAdmission \/ RefreshJobs \/ Claim \/ ShutdownAnswered

Next ==
  \/ AdmitWork \/ Command \/ CancelFinish
  \/ Inspection
  \/ \E j \in Job : EndJob(j) \/ ForgetJob(j)
  \/ TimePasses
  \/ Sampling

Spec == Init /\ [][Next]_vars

(* Tokio runs the sampling task and the command that holds the admission   *)
(* mutex; jobs and started inspections end; time passes.  Nobody has to    *)
(* use or cancel a reserved ticket.                                        *)
Fairness ==
  /\ WF_vars(Sampling)
  /\ WF_vars(TimePasses)
  /\ WF_vars(Command)
  /\ \A j \in Job : WF_vars(EndJob(j))
  /\ \A t \in Ticket : WF_vars(Started(t) /\ EndTicket(t))

FairSpec == Spec /\ Fairness

-----------------------------------------------------------------------------
TypeOK ==
  /\ job \in Jobs
  /\ ticket \in [Ticket -> [stage : {"unused", "reserved", "running", "prepared", "used"},
                            left : 0 .. TicketLife]]
  /\ monitor \in Monitor
  /\ dispatched \in BOOLEAN
  /\ holder \in {"nobody", "command", "sampler"}
  /\ call \in [did : {"nothing", "admitted", "listed"}, jobs : Jobs]
  /\ sampler \in [at : {"sleep", "listed", "due", "locked", "refreshed", "shutdown", "closed"},
                  jobs : Jobs, generation : 0 .. MaxGeneration + 1]
  /\ quiet \in 0 .. Countdown
  /\ {queued, resumed} \subseteq SUBSET Job

Dispatches == ~dispatched /\ dispatched'

(* The finish action is dispatched only while no job is queued or running  *)
(* and no inspection is reserved or running, although the list it goes by  *)
(* was read before the lock and a reviewed command queues its job under a  *)
(* ticket, past the admission mutex.                                       *)
DispatchOnlyIdle ==
  [][Dispatches => ActiveIn(job) = {} /\ ~AnalysisRunning]_vars

(* When the finish action is dispatched, every job that was active when it *)
(* was armed or was queued since has succeeded or left the list; resumed   *)
(* jobs are the subject of ResumedFailureDisarms.                          *)
DispatchAfterSuccess ==
  [][Dispatches => \A j \in queued \ resumed : job[j] \in {"succeeded", "unlisted"}]_vars

(* A whole countdown passes between the last admission and the dispatch.   *)
DispatchAfterCountdown ==
  [][Dispatches => quiet = Countdown]_vars

(* Once the action is dispatched no job becomes active and no inspection   *)
(* starts, until the system declines the shutdown.                         *)
NothingStartsAfterDispatch ==
  [][dispatched => /\ ActiveIn(job') \subseteq ActiveIn(job)
                   /\ \A t \in Ticket : Started(t)' => Started(t)]_vars

(* An armed action is dispatched or disarmed in the end, once nobody       *)
(* admits more work: no list, ticket or lock postpones it for ever.        *)
FinishSettles == monitor.finish # "none" ~> monitor.finish = "none"

(* Every job in the armed queue must succeed and additional work joins the *)
(* queue: a resumed job that has failed again keeps the action from being  *)
(* dispatched.                                                             *)
ResumedFailureDisarms ==
  [][Dispatches => \A j \in resumed : job[j] # "unsuccessful"]_vars
=============================================================================
