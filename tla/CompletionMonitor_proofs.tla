---------------------- MODULE CompletionMonitor_proofs ----------------------
(* Proofs about CompletionMonitor, for any number of jobs and tickets and  *)
(* any length of the countdown: the finish action is dispatched only when  *)
(* idle, after success and a whole countdown, and nothing starts after it. *)
EXTENDS CompletionMonitor, TLAPS

-----------------------------------------------------------------------------
(* The inductive invariant. *)

(* The admission mutex: a command or the sampling task holds it while it   *)
(* is past it, and nothing runs while an action is dispatched.             *)
Admission ==
  /\ holder = "command" <=> call.did # "nothing"
  /\ holder = "sampler" <=> sampler.at \in {"locked", "refreshed"}
  /\ dispatched => holder = "nobody" /\ ~AnalysisRunning

(* While nothing has been admitted since the tick, no inspection runs and  *)
(* no job has become active since the list was read again.                 *)
Undisturbed == monitor.generation = sampler.generation

Sampled ==
  /\ sampler.at \in {"due", "locked", "refreshed"} =>
       /\ sampler.generation <= monitor.generation
       /\ Undisturbed => ~AnalysisRunning
  /\ sampler.at = "refreshed" /\ Undisturbed =>
       \A j \in Job : sampler.jobs[j] # "active" => job[j] \in {sampler.jobs[j], "unlisted"}

(* The countdown began no earlier than the last admission. *)
Counted == monitor.deadline # None => quiet + monitor.deadline >= Countdown

(* A job of the queue is armed, or the monitor has yet to see it. *)
Joined ==
  monitor.finish # "none" => queued \ resumed \subseteq monitor.armed \cup (Job \ monitor.seen)

(* The bound on generations leaves room for the dispatch. *)
Bounded == monitor.finish # "none" => monitor.generation <= MaxGeneration

MonitorInv == TypeOK /\ Bounded /\ Admission /\ Sampled /\ Counted /\ Joined

-----------------------------------------------------------------------------
(* What a tick makes of the monitor. *)
LEMMA TickedMonitor ==
  ASSUME NEW m \in Monitor, NEW jobs \in Jobs, NEW otherWork \in BOOLEAN,
         NEW r, r = Ticked(m, jobs, otherWork)
  PROVE  /\ r \in Monitor
         /\ r.generation = m.generation
         /\ r.seen = ListedIn(jobs)
         /\ r.finish # "none" =>
              /\ r.finish = m.finish
              /\ r.armed = m.armed \cup (ListedIn(jobs) \ m.seen) \cup ActiveIn(jobs)
              /\ ~Spoils(r.armed, jobs)
         /\ r.deadline # None => r.deadline \in {Countdown, m.deadline}
<1> DEFINE armed == m.armed \cup Joining(m, jobs)
           seen  == [m EXCEPT !.seen = ListedIn(jobs), !.armed = armed]
<1>1. /\ seen \in Monitor /\ seen.generation = m.generation /\ seen.finish = m.finish
      /\ seen.seen = ListedIn(jobs) /\ seen.armed = armed /\ seen.deadline = m.deadline
  BY DEF Monitor, ListedIn, ActiveIn, Joining
<1>2. CASE m.finish = "none"
  BY <1>1, <1>2 DEF Ticked
<1>3. CASE m.finish # "none" /\ Spoils(armed, jobs)
  <2>1. r = Disarmed(seen)
    BY <1>3 DEF Ticked
  <2> QED
    BY <1>1, <2>1 DEF Disarmed, Monitor, Action, Deadline
<1>4. CASE m.finish # "none" /\ ~Spoils(armed, jobs)
  <2>1. \E d \in {None, Countdown, m.deadline} : r = [seen EXCEPT !.deadline = d]
    BY <1>1, <1>4 DEF Ticked
  <2>2. PICK d \in {None, Countdown, m.deadline} : r = [seen EXCEPT !.deadline = d]
    BY <2>1
  <2>3. d \in Deadline
    BY CompletionAssumption DEF Monitor, Deadline
  <2>4. /\ r \in Monitor /\ r.generation = m.generation /\ r.finish = m.finish
        /\ r.seen = ListedIn(jobs) /\ r.armed = armed /\ r.deadline = d
    BY <1>1, <2>2, <2>3 DEF Monitor
  <2> QED
    BY <1>4, <2>4 DEF Joining
<1> QED
  BY <1>2, <1>3, <1>4

(* A generation later. *)
LEMMA Regenerated ==
  ASSUME NEW m \in Monitor, m.generation <= MaxGeneration
  PROVE  /\ {Admitting(m), Revoked(m)} \subseteq Monitor
         /\ Admitting(m).generation = m.generation + 1
         /\ Admitting(m).deadline = None /\ Admitting(m).finish = m.finish
         /\ Admitting(m).armed = m.armed /\ Admitting(m).seen = m.seen
         /\ Revoked(m).generation = m.generation + 1
         /\ Revoked(m).deadline = None /\ Revoked(m).finish = "none"
<1>1. m.generation + 1 \in 0 .. MaxGeneration + 1
  BY CompletionAssumption DEF Monitor
<1>2. None \in Deadline /\ "none" \in Action
  BY DEF Deadline, Action
<1>3. /\ Disarmed(m) \in Monitor /\ Disarmed(m).generation = m.generation
      /\ Disarmed(m).deadline = None /\ Disarmed(m).finish = "none"
  BY <1>2 DEF Disarmed, Monitor
<1>4. /\ Revoked(m) \in Monitor /\ Revoked(m).generation = m.generation + 1
      /\ Revoked(m).deadline = None /\ Revoked(m).finish = "none"
  BY <1>1, <1>3 DEF Revoked, Monitor
<1>5. /\ Admitting(m) \in Monitor /\ Admitting(m).generation = m.generation + 1
      /\ Admitting(m).deadline = None /\ Admitting(m).finish = m.finish
      /\ Admitting(m).armed = m.armed /\ Admitting(m).seen = m.seen
  BY <1>1, <1>2 DEF Admitting, Monitor
<1> QED
  BY <1>4, <1>5

(* The sampling task between its rounds. *)
Rounds == [at : {"sleep", "listed", "due", "locked", "refreshed", "shutdown", "closed"},
           jobs : Jobs, generation : 0 .. MaxGeneration + 1]

LEMMA Rested ==
  /\ Asleep \in Rounds /\ Asleep.at = "sleep"
  /\ \A a \in {"shutdown", "closed"} :
       [Asleep EXCEPT !.at = a] \in Rounds /\ [Asleep EXCEPT !.at = a].at = a
<1>1. Unlisted \in Jobs
  BY DEF Unlisted, Jobs, Listing
<1>2. 0 \in 0 .. MaxGeneration + 1
  BY CompletionAssumption
<1> QED
  BY <1>1, <1>2 DEF Asleep, Rounds

(* A tick of the sampling task, and its claim. *)
Kept ==
  /\ monitor' \in Monitor
  /\ monitor'.finish # "none" =>
       /\ monitor'.finish = monitor.finish
       /\ monitor'.generation = monitor.generation
       /\ monitor.armed \cup (Job \ monitor.seen) \subseteq
            monitor'.armed \cup (Job \ monitor'.seen)
  /\ monitor'.deadline # None => monitor'.deadline \in {Countdown, monitor.deadline}

LEMMA TickStep ==
  ASSUME MonitorInv, Tick
  PROVE  /\ Kept
         /\ sampler'.at \in {"due", "sleep"}
         /\ sampler'.at = "due" => ~AnalysisRunning /\ monitor'.generation = sampler'.generation
         /\ sampler' \in Rounds
         /\ UNCHANGED <<job, ticket, dispatched, holder, call, quiet, queued, resumed>>
  <1>1. monitor \in Monitor /\ sampler.jobs \in Jobs /\ AnalysisRunning \in BOOLEAN
    BY DEF MonitorInv, TypeOK, AnalysisRunning, Started, Fresh
  <1> DEFINE m == Ticked(monitor, sampler.jobs, AnalysisRunning)
  <1>2. /\ m \in Monitor /\ m.generation = monitor.generation
        /\ m.seen = ListedIn(sampler.jobs)
        /\ m.finish # "none" =>
             /\ m.finish = monitor.finish
             /\ m.armed = monitor.armed \cup (ListedIn(sampler.jobs) \ monitor.seen)
                                       \cup ActiveIn(sampler.jobs)
             /\ ~Spoils(m.armed, sampler.jobs)
        /\ m.deadline # None => m.deadline \in {Countdown, monitor.deadline}
    BY <1>1, TickedMonitor
<1>3. Kept
  BY <1>2 DEF Tick, Kept, MonitorInv, TypeOK, Monitor
<1>4. CASE Due(m, sampler.jobs, AnalysisRunning)
  <2>1. /\ sampler' = [sampler EXCEPT !.at = "due", !.generation = m.generation]
        /\ monitor' = m /\ ~AnalysisRunning
    BY <1>4 DEF Tick, Due
  <2> QED
    BY <1>2, <1>3, <2>1 DEF Tick, MonitorInv, TypeOK, Monitor, Rounds
<1>5. CASE ~Due(m, sampler.jobs, AnalysisRunning)
  <2>1. sampler' = Asleep
    BY <1>5 DEF Tick
  <2> QED
    BY <1>3, <2>1, Rested DEF Tick
<1> QED
  BY <1>4, <1>5

LEMMA ClaimStep ==
  ASSUME MonitorInv, Claim
  PROVE  /\ Kept
         /\ sampler'.at \in {"sleep", "shutdown", "closed"}
         /\ sampler' \in Rounds
         /\ holder' = "nobody"
         /\ UNCHANGED <<job, ticket, call, quiet, queued, resumed>>
         /\ dispatched' => dispatched \/ ~AnalysisRunning
         /\ dispatched' \in BOOLEAN
  <1>1. monitor \in Monitor /\ sampler.jobs \in Jobs /\ AnalysisRunning \in BOOLEAN
    BY DEF MonitorInv, TypeOK, AnalysisRunning, Started, Fresh
  <1> DEFINE m == Ticked(monitor, sampler.jobs, AnalysisRunning)
  <1>2. /\ m \in Monitor /\ m.generation = monitor.generation
        /\ m.seen = ListedIn(sampler.jobs)
        /\ m.finish # "none" =>
             /\ m.finish = monitor.finish
             /\ m.armed = monitor.armed \cup (ListedIn(sampler.jobs) \ monitor.seen)
                                       \cup ActiveIn(sampler.jobs)
             /\ ~Spoils(m.armed, sampler.jobs)
        /\ m.deadline # None => m.deadline \in {Countdown, monitor.deadline}
    BY <1>1, TickedMonitor
<1>3. CASE ~(Claimable /\ Due(m, sampler.jobs, AnalysisRunning))
  <2>1. monitor' \in {m, monitor} /\ sampler' = Asleep /\ UNCHANGED dispatched
    BY <1>3 DEF Claim
  <2>2. Kept
    BY <1>2, <2>1 DEF Kept, MonitorInv, TypeOK, Monitor
  <2> QED
    BY <2>1, <2>2, Rested DEF Claim, MonitorInv, TypeOK
<1>4. CASE Claimable /\ Due(m, sampler.jobs, AnalysisRunning)
  <2>1. /\ monitor' = Revoked(m) /\ ~AnalysisRunning /\ m.finish # "none"
        /\ \/ dispatched' = TRUE /\ sampler' = [Asleep EXCEPT
                                      !.at = IF m.finish = "close" THEN "closed" ELSE "shutdown"]
           \/ sampler' = Asleep /\ UNCHANGED dispatched
    BY <1>4 DEF Claim, Due
  <2>2. m.generation <= MaxGeneration
    BY <1>2, <2>1 DEF MonitorInv, Bounded
  <2>3. monitor' \in Monitor /\ monitor'.finish = "none" /\ monitor'.deadline = None
    BY <1>2, <2>1, <2>2, Regenerated
  <2>4. Kept
    BY <2>3 DEF Kept
  <2> QED
    BY <2>1, <2>4, Rested DEF Claim, MonitorInv, TypeOK
<1> QED
  BY <1>3, <1>4

(* Time changes what is left, and nothing else of a ticket or the monitor. *)
LEMMA TimeStep ==
  ASSUME MonitorInv, TimePasses
  PROVE  /\ monitor' = [monitor EXCEPT !.deadline = monitor'.deadline]
         /\ monitor' \in Monitor
         /\ monitor'.deadline # None => /\ monitor.deadline # None
                                        /\ monitor'.deadline = Shorter(monitor.deadline)
         /\ ticket' \in [Ticket -> [stage : {"unused", "reserved", "running", "prepared",
                                             "used"}, left : 0 .. TicketLife]]
         /\ \A t \in Ticket : Started(t)' = Started(t)
         /\ AnalysisRunning' => AnalysisRunning
<1>1. \A n \in Nat : Shorter(n) \in Nat /\ Shorter(n) <= n
  BY DEF Shorter
<1>2. PICK d : monitor' = [monitor EXCEPT !.deadline = d]
               /\ d = IF monitor.deadline = None THEN None ELSE Shorter(monitor.deadline)
  BY DEF TimePasses
<1>3. /\ d \in Deadline
      /\ d # None => monitor.deadline # None /\ d = Shorter(monitor.deadline)
  BY <1>1, <1>2, CompletionAssumption DEF MonitorInv, TypeOK, Monitor, Deadline
<1>4. \A t \in Ticket : /\ ticket[t].left \in 0 .. TicketLife
                        /\ Shorter(ticket[t].left) \in 0 .. TicketLife
                        /\ Shorter(ticket[t].left) <= ticket[t].left
  BY <1>1, CompletionAssumption DEF MonitorInv, TypeOK
<1>5. \A t \in Ticket : ticket'[t] = [ticket[t] EXCEPT !.left = Shorter(ticket[t].left)]
  BY DEF TimePasses
<1>6. \A t \in Ticket : /\ ticket'[t].stage = ticket[t].stage
                        /\ ticket'[t].left = Shorter(ticket[t].left)
                        /\ ticket'[t] \in [stage : {"unused", "reserved", "running",
                                                    "prepared", "used"},
                                           left : 0 .. TicketLife]
  <2> SUFFICES ASSUME NEW t \in Ticket
               PROVE  /\ ticket'[t].stage = ticket[t].stage
                      /\ ticket'[t].left = Shorter(ticket[t].left)
                      /\ ticket'[t] \in [stage : {"unused", "reserved", "running",
                                                  "prepared", "used"},
                                         left : 0 .. TicketLife]
    OBVIOUS
  <2>1. ticket[t] \in [stage : {"unused", "reserved", "running", "prepared", "used"},
                       left : 0 .. TicketLife]
    BY DEF MonitorInv, TypeOK
  <2> QED
    BY <2>1, <1>4, <1>5
<1>7. ticket' \in [Ticket -> [stage : {"unused", "reserved", "running", "prepared", "used"},
                              left : 0 .. TicketLife]]
  BY <1>6 DEF TimePasses
<1>8. \A t \in Ticket : Started(t)' = Started(t)
  BY <1>6 DEF Started
<1>9. AnalysisRunning' => AnalysisRunning
  BY <1>4, <1>6, <1>8 DEF AnalysisRunning, Fresh
<1>10. /\ monitor' = [monitor EXCEPT !.deadline = monitor'.deadline]
       /\ monitor' \in Monitor
       /\ monitor'.deadline # None => /\ monitor.deadline # None
                                      /\ monitor'.deadline = Shorter(monitor.deadline)
  BY <1>2, <1>3 DEF MonitorInv, TypeOK, Monitor
<1> QED
  BY <1>7, <1>8, <1>9, <1>10

(* Types, and the bound on generations.                                    *)
LEMMA TypesStep ==
  ASSUME MonitorInv, [Next]_vars
  PROVE  (TypeOK /\ Bounded)'
<1>1. CASE AdmitWork
  <2>1. monitor' \in Monitor /\ (monitor'.finish # "none" => monitor'.generation <= MaxGeneration)
    <3>1. monitor \in Monitor /\ monitor.generation < MaxGeneration
      BY <1>1 DEF AdmitWork, Admitted, MonitorInv, TypeOK
    <3>2. monitor.generation \in Int /\ MaxGeneration \in Int
      BY <3>1, CompletionAssumption DEF Monitor
    <3> QED
      BY <1>1, <3>1, <3>2, Regenerated DEF AdmitWork, Admitted
  <2> QED
    BY <1>1, <2>1, CompletionAssumption DEF AdmitWork, Admitted, MonitorInv, Bounded, TypeOK
<1>2. CASE Refused
  BY <1>2, CompletionAssumption DEF Refused, Returned, Idle, MonitorInv, TypeOK, Bounded,
     Jobs, Listing, Ended, Unlisted, Monitor, Deadline, Action
<1>3. ASSUME NEW j \in Job, Enqueue(j)  PROVE (TypeOK /\ Bounded)'
  BY <1>3, CompletionAssumption DEF Enqueue, QueueNew, Unknown, Activate, Returned, Idle,
     MonitorInv, TypeOK, Bounded, Jobs, Listing, Ended, Unlisted, Monitor, Deadline, Action
<1>4. ASSUME NEW j \in Job, Resume(j)  PROVE (TypeOK /\ Bounded)'
  BY <1>4, CompletionAssumption DEF Resume, Requeue, Activate, Returned, Idle, MonitorInv, TypeOK,
     Bounded, Jobs, Listing, Ended, Unlisted, Monitor, Deadline, Action
<1>5. CASE ListForOptions
  BY <1>5, CompletionAssumption DEF ListForOptions, MonitorInv, TypeOK, Bounded, Jobs,
     Listing, Ended, Unlisted, Monitor, Deadline, Action
<1>6. ASSUME NEW finish \in Action, Configure(finish)  PROVE (TypeOK /\ Bounded)'
  BY <1>6, CompletionAssumption DEF Configure, Configured, Returned, Idle, ListedIn,
     ActiveIn, MonitorInv, TypeOK, Bounded, Jobs, Listing, Ended, Unlisted, Monitor,
     Deadline, Action
<1>7. CASE CancelFinish
  <2>1. monitor' \in Monitor /\ (monitor'.finish # "none" => monitor'.generation <= MaxGeneration)
    <3>1. monitor \in Monitor /\ monitor.generation < MaxGeneration
      BY <1>7 DEF CancelFinish, MonitorInv, TypeOK
    <3>2. monitor.generation \in Int /\ MaxGeneration \in Int
      BY <3>1, CompletionAssumption DEF Monitor
    <3> QED
      BY <1>7, <3>1, <3>2, Regenerated DEF CancelFinish
  <2> QED
    BY <1>7, <2>1, CompletionAssumption DEF CancelFinish, MonitorInv, Bounded, TypeOK
<1>8. ASSUME NEW t \in Ticket, BeginTicket(t)  PROVE (TypeOK /\ Bounded)'
  <2>1. monitor' \in Monitor /\ (monitor'.finish # "none" => monitor'.generation <= MaxGeneration)
    <3>1. monitor \in Monitor /\ monitor.generation < MaxGeneration
      BY <1>8 DEF BeginTicket, Admitted, MonitorInv, TypeOK
    <3>2. monitor.generation \in Int /\ MaxGeneration \in Int
      BY <3>1, CompletionAssumption DEF Monitor
    <3> QED
      BY <1>8, <3>1, <3>2, Regenerated DEF BeginTicket, Admitted
  <2> QED
    BY <1>8, <2>1, CompletionAssumption DEF BeginTicket, Admitted, MonitorInv, Bounded,
       TypeOK
<1>9. ASSUME NEW t \in Ticket, RunTicket(t)  PROVE (TypeOK /\ Bounded)'
  BY <1>9, CompletionAssumption DEF RunTicket, MayRun, Fresh, MonitorInv, TypeOK, Bounded,
     Jobs, Listing, Ended, Unlisted, Monitor, Deadline, Action
<1>10. ASSUME NEW t \in Ticket, NEW j \in Job, PrepareEdit(t, j)  PROVE (TypeOK /\ Bounded)'
  BY <1>10, CompletionAssumption DEF PrepareEdit, QueueNew, Requeue, Unknown, Activate, MonitorInv,
     TypeOK, Bounded, Jobs, Listing, Ended, Unlisted, Monitor, Deadline, Action
<1>11. ASSUME NEW t \in Ticket, EndTicket(t)  PROVE (TypeOK /\ Bounded)'
  BY <1>11, CompletionAssumption DEF EndTicket, MonitorInv, TypeOK, Bounded, Jobs, Listing,
     Ended, Unlisted, Monitor, Deadline, Action
<1>12. ASSUME NEW j \in Job, EndJob(j)  PROVE (TypeOK /\ Bounded)'
  BY <1>12, CompletionAssumption DEF EndJob, MonitorInv, TypeOK, Bounded, Jobs, Listing,
     Ended, Unlisted, Monitor, Deadline, Action
<1>13. ASSUME NEW j \in Job, ForgetJob(j)  PROVE (TypeOK /\ Bounded)'
  BY <1>13, CompletionAssumption DEF ForgetJob, MonitorInv, TypeOK, Bounded, Jobs, Listing,
     Ended, Unlisted, Monitor, Deadline, Action
<1>14. CASE TimePasses
  <2>1. monitor'.finish = monitor.finish /\ monitor'.generation = monitor.generation
    BY <1>14, TimeStep DEF MonitorInv, TypeOK, Monitor
  <2>2. quiet' \in 0 .. Countdown
    BY <1>14, CompletionAssumption DEF TimePasses, MonitorInv, TypeOK
  <2> QED
    BY <1>14, <2>1, <2>2, TimeStep DEF TimePasses, MonitorInv, Bounded, TypeOK
<1>15. CASE SampleJobs
  BY <1>15, CompletionAssumption DEF SampleJobs, MonitorInv, TypeOK, Bounded, Jobs, Listing,
     Ended, Unlisted, Monitor, Deadline, Action
<1>16. CASE Tick
  BY <1>16, TickStep DEF MonitorInv, Bounded, TypeOK, Kept, Rounds
<1>17. CASE LockAdmission
  BY <1>17, Rested DEF LockAdmission, Rounds, MonitorInv, Bounded, TypeOK
<1>18. CASE RefreshJobs
  BY <1>18, CompletionAssumption DEF RefreshJobs, FreshJobs, MonitorInv, TypeOK, Bounded,
     Jobs, Listing, Ended, Unlisted, Monitor, Deadline, Action
<1>19. CASE Claim
  BY <1>19, ClaimStep DEF MonitorInv, Bounded, TypeOK, Kept, Rounds
<1>20. CASE ShutdownAnswered
  BY <1>20, Rested DEF ShutdownAnswered, Rounds, MonitorInv, Bounded, TypeOK
<1>21. CASE UNCHANGED vars
  BY <1>21, CompletionAssumption DEF vars, MonitorInv, TypeOK, Bounded, Jobs, Listing,
     Ended, Unlisted, Monitor, Deadline, Action
<1> QED
  BY <1>1, <1>2, <1>3, <1>4, <1>5, <1>6, <1>7, <1>8, <1>9, <1>10, <1>11, <1>12, <1>13,
     <1>14, <1>15, <1>16, <1>17, <1>18, <1>19, <1>20, <1>21 DEF Next, Command, Inspection,
     Sampling

(* Who holds the admission mutex.                                          *)
LEMMA AdmissionStep ==
  ASSUME MonitorInv, [Next]_vars
  PROVE  Admission'
<1>1. CASE AdmitWork
  BY <1>1 DEF AdmitWork, Admitted, Admitting, MonitorInv, TypeOK, Admission,
     AnalysisRunning, Started, Fresh
<1>2. CASE Refused
  BY <1>2 DEF Refused, Returned, Idle, MonitorInv, TypeOK, Admission, AnalysisRunning,
     Started, Fresh
<1>3. ASSUME NEW j \in Job, Enqueue(j)  PROVE Admission'
  BY <1>3 DEF Enqueue, QueueNew, Unknown, Activate, Returned, Idle, MonitorInv, TypeOK,
     Admission, AnalysisRunning, Started, Fresh
<1>4. ASSUME NEW j \in Job, Resume(j)  PROVE Admission'
  BY <1>4 DEF Resume, Requeue, Activate, Returned, Idle, MonitorInv, TypeOK, Admission,
     AnalysisRunning, Started, Fresh
<1>5. CASE ListForOptions
  BY <1>5 DEF ListForOptions, MonitorInv, TypeOK, Admission, AnalysisRunning, Started, Fresh
<1>6. ASSUME NEW finish \in Action, Configure(finish)  PROVE Admission'
  BY <1>6 DEF Configure, Configured, Returned, Idle, ListedIn, ActiveIn, MonitorInv, TypeOK,
     Admission, AnalysisRunning, Started, Fresh
<1>7. CASE CancelFinish
  BY <1>7 DEF CancelFinish, Revoked, Disarmed, MonitorInv, TypeOK, Admission,
     AnalysisRunning, Started, Fresh
<1>8. ASSUME NEW t \in Ticket, BeginTicket(t)  PROVE Admission'
  BY <1>8 DEF BeginTicket, Admitted, Admitting, MonitorInv, TypeOK, Admission,
     AnalysisRunning, Started, Fresh
<1>9. ASSUME NEW t \in Ticket, RunTicket(t)  PROVE Admission'
  BY <1>9 DEF RunTicket, MayRun, Fresh, MonitorInv, TypeOK, Admission, AnalysisRunning,
     Started
<1>10. ASSUME NEW t \in Ticket, NEW j \in Job, PrepareEdit(t, j)  PROVE Admission'
  BY <1>10 DEF PrepareEdit, QueueNew, Requeue, Unknown, Activate, MonitorInv, TypeOK, Admission,
     AnalysisRunning, Started, Fresh
<1>11. ASSUME NEW t \in Ticket, EndTicket(t)  PROVE Admission'
  BY <1>11 DEF EndTicket, MonitorInv, TypeOK, Admission, AnalysisRunning, Started, Fresh
<1>12. ASSUME NEW j \in Job, EndJob(j)  PROVE Admission'
  BY <1>12 DEF EndJob, MonitorInv, TypeOK, Admission, AnalysisRunning, Started, Fresh
<1>13. ASSUME NEW j \in Job, ForgetJob(j)  PROVE Admission'
  BY <1>13 DEF ForgetJob, MonitorInv, TypeOK, Admission, AnalysisRunning, Started, Fresh
<1>14. CASE TimePasses
  BY <1>14, TimeStep DEF TimePasses, MonitorInv, TypeOK, Admission
<1>15. CASE SampleJobs
  BY <1>15 DEF SampleJobs, MonitorInv, TypeOK, Admission, AnalysisRunning, Started, Fresh
<1>16. CASE Tick
  <2>1. AnalysisRunning' = AnalysisRunning
    BY <1>16, TickStep DEF AnalysisRunning, Started, Fresh
  <2> QED
    BY <1>16, <2>1, TickStep DEF Tick, MonitorInv, Admission
<1>17. CASE LockAdmission
  BY <1>17 DEF LockAdmission, Asleep, MonitorInv, TypeOK, Admission, AnalysisRunning,
     Started, Fresh
<1>18. CASE RefreshJobs
  BY <1>18 DEF RefreshJobs, FreshJobs, MonitorInv, TypeOK, Admission, AnalysisRunning,
     Started, Fresh
<1>19. CASE Claim
  BY <1>19, ClaimStep DEF Claim, MonitorInv, Admission, AnalysisRunning, Started, Fresh
<1>20. CASE ShutdownAnswered
  BY <1>20 DEF ShutdownAnswered, Asleep, MonitorInv, TypeOK, Admission, AnalysisRunning,
     Started, Fresh
<1>21. CASE UNCHANGED vars
  BY <1>21 DEF vars, MonitorInv, TypeOK, Admission, AnalysisRunning, Started, Fresh
<1> QED
  BY <1>1, <1>2, <1>3, <1>4, <1>5, <1>6, <1>7, <1>8, <1>9, <1>10, <1>11, <1>12, <1>13,
     <1>14, <1>15, <1>16, <1>17, <1>18, <1>19, <1>20, <1>21 DEF Next, Command, Inspection,
     Sampling

(* What the sampling task may rely on between its tick and the claim:      *)
(* whatever admits work moves the generation on, and a ticket that was     *)
(* idle cannot start.                                                      *)
LEMMA SampledStep ==
  ASSUME MonitorInv, [Next]_vars
  PROVE  Sampled'
<1>1. CASE AdmitWork
  BY <1>1 DEF AdmitWork, Admitted, Admitting, MonitorInv, TypeOK, Admission, Sampled,
     Undisturbed, Monitor, Jobs, AnalysisRunning, Started, Fresh
<1>2. CASE Refused
  BY <1>2 DEF Refused, Returned, Idle, MonitorInv, TypeOK, Admission, Sampled, Undisturbed,
     Monitor, Jobs, AnalysisRunning, Started, Fresh
<1>3. ASSUME NEW j \in Job, Enqueue(j)  PROVE Sampled'
  BY <1>3 DEF Enqueue, QueueNew, Unknown, Activate, Returned, Idle, MonitorInv, TypeOK,
     Admission, Sampled, Undisturbed, Monitor, Jobs, AnalysisRunning, Started, Fresh
<1>4. ASSUME NEW j \in Job, Resume(j)  PROVE Sampled'
  BY <1>4 DEF Resume, Requeue, Activate, Returned, Idle, MonitorInv, TypeOK, Admission, Sampled,
     Undisturbed, Monitor, Jobs, AnalysisRunning, Started, Fresh
<1>5. CASE ListForOptions
  BY <1>5 DEF ListForOptions, MonitorInv, TypeOK, Admission, Sampled, Undisturbed, Monitor,
     Jobs, AnalysisRunning, Started, Fresh
<1>6. ASSUME NEW finish \in Action, Configure(finish)  PROVE Sampled'
  BY <1>6 DEF Configure, Configured, Returned, Idle, ListedIn, ActiveIn, MonitorInv, TypeOK,
     Admission, Sampled, Undisturbed, Monitor, Jobs, AnalysisRunning, Started, Fresh
<1>7. CASE CancelFinish
  BY <1>7 DEF CancelFinish, Revoked, Disarmed, MonitorInv, TypeOK, Admission, Sampled,
     Undisturbed, Monitor, Jobs, AnalysisRunning, Started, Fresh
<1>8. ASSUME NEW t \in Ticket, BeginTicket(t)  PROVE Sampled'
  BY <1>8 DEF BeginTicket, Admitted, Admitting, MonitorInv, TypeOK, Admission, Sampled,
     Undisturbed, Monitor, Jobs, AnalysisRunning, Started, Fresh
<1>9. ASSUME NEW t \in Ticket, RunTicket(t)  PROVE Sampled'
  BY <1>9 DEF RunTicket, MayRun, Fresh, MonitorInv, TypeOK, Admission, Sampled, Undisturbed,
     Monitor, Jobs, AnalysisRunning, Started
<1>10. ASSUME NEW t \in Ticket, NEW j \in Job, PrepareEdit(t, j)  PROVE Sampled'
  BY <1>10 DEF PrepareEdit, QueueNew, Requeue, Unknown, Activate, MonitorInv, TypeOK, Admission,
     Sampled, Undisturbed, Monitor, Jobs, AnalysisRunning, Started, Fresh
<1>11. ASSUME NEW t \in Ticket, EndTicket(t)  PROVE Sampled'
  BY <1>11 DEF EndTicket, MonitorInv, TypeOK, Admission, Sampled, Undisturbed, Monitor,
     Jobs, AnalysisRunning, Started, Fresh
<1>12. ASSUME NEW j \in Job, EndJob(j)  PROVE Sampled'
  BY <1>12 DEF EndJob, MonitorInv, TypeOK, Admission, Sampled, Undisturbed, Monitor, Jobs,
     AnalysisRunning, Started, Fresh
<1>13. ASSUME NEW j \in Job, ForgetJob(j)  PROVE Sampled'
  BY <1>13 DEF ForgetJob, MonitorInv, TypeOK, Admission, Sampled, Undisturbed, Monitor,
     Jobs, AnalysisRunning, Started, Fresh
<1>14. CASE TimePasses
  BY <1>14, TimeStep DEF TimePasses, MonitorInv, TypeOK, Admission, Sampled, Undisturbed,
     Kept, Monitor
<1>15. CASE SampleJobs
  BY <1>15 DEF SampleJobs, MonitorInv, TypeOK, Admission, Sampled, Undisturbed, Monitor,
     Jobs, AnalysisRunning, Started, Fresh
<1>16. CASE Tick
  <2>1. AnalysisRunning' = AnalysisRunning
    BY <1>16, TickStep DEF AnalysisRunning, Started, Fresh
  <2>2. monitor'.generation \in Int
    BY <1>16, TickStep DEF Kept, Monitor
  <2> QED
    BY <1>16, <2>1, <2>2, TickStep DEF Sampled, Undisturbed
<1>17. CASE LockAdmission
  BY <1>17 DEF LockAdmission, Asleep, MonitorInv, TypeOK, Admission, Sampled, Undisturbed,
     Monitor, Jobs, AnalysisRunning, Started, Fresh
<1>18. CASE RefreshJobs
  BY <1>18 DEF RefreshJobs, FreshJobs, MonitorInv, TypeOK, Admission, Sampled, Undisturbed,
     Monitor, Jobs, AnalysisRunning, Started, Fresh
<1>19. CASE Claim
  BY <1>19, ClaimStep DEF Sampled
<1>20. CASE ShutdownAnswered
  BY <1>20 DEF ShutdownAnswered, Asleep, MonitorInv, TypeOK, Admission, Sampled,
     Undisturbed, Monitor, Jobs, AnalysisRunning, Started, Fresh
<1>21. CASE UNCHANGED vars
  BY <1>21 DEF vars, MonitorInv, TypeOK, Admission, Sampled, Undisturbed, Monitor, Jobs,
     AnalysisRunning, Started, Fresh
<1> QED
  BY <1>1, <1>2, <1>3, <1>4, <1>5, <1>6, <1>7, <1>8, <1>9, <1>10, <1>11, <1>12, <1>13,
     <1>14, <1>15, <1>16, <1>17, <1>18, <1>19, <1>20, <1>21 DEF Next, Command, Inspection,
     Sampling

(* The countdown and the time since the last admission.                    *)
LEMMA CountedStep ==
  ASSUME MonitorInv, [Next]_vars
  PROVE  Counted'
<1>1. CASE AdmitWork
  BY <1>1, CompletionAssumption DEF AdmitWork, Admitted, Admitting, MonitorInv, TypeOK,
     Counted, Monitor, Deadline
<1>2. CASE Refused
  BY <1>2, CompletionAssumption DEF Refused, Returned, Idle, MonitorInv, TypeOK, Counted,
     Monitor, Deadline
<1>3. ASSUME NEW j \in Job, Enqueue(j)  PROVE Counted'
  BY <1>3, CompletionAssumption DEF Enqueue, QueueNew, Unknown, Activate, Returned, Idle,
     MonitorInv, TypeOK, Counted, Monitor, Deadline
<1>4. ASSUME NEW j \in Job, Resume(j)  PROVE Counted'
  BY <1>4, CompletionAssumption DEF Resume, Requeue, Activate, Returned, Idle, MonitorInv, TypeOK,
     Counted, Monitor, Deadline
<1>5. CASE ListForOptions
  BY <1>5, CompletionAssumption DEF ListForOptions, MonitorInv, TypeOK, Counted, Monitor,
     Deadline
<1>6. ASSUME NEW finish \in Action, Configure(finish)  PROVE Counted'
  BY <1>6, CompletionAssumption DEF Configure, Configured, Returned, Idle, ListedIn,
     ActiveIn, MonitorInv, TypeOK, Counted, Monitor, Deadline
<1>7. CASE CancelFinish
  BY <1>7, CompletionAssumption DEF CancelFinish, Revoked, Disarmed, MonitorInv, TypeOK,
     Counted, Monitor, Deadline
<1>8. ASSUME NEW t \in Ticket, BeginTicket(t)  PROVE Counted'
  BY <1>8, CompletionAssumption DEF BeginTicket, Admitted, Admitting, MonitorInv, TypeOK,
     Counted, Monitor, Deadline
<1>9. ASSUME NEW t \in Ticket, RunTicket(t)  PROVE Counted'
  BY <1>9, CompletionAssumption DEF RunTicket, MayRun, Fresh, MonitorInv, TypeOK, Counted,
     Monitor, Deadline
<1>10. ASSUME NEW t \in Ticket, NEW j \in Job, PrepareEdit(t, j)  PROVE Counted'
  BY <1>10, CompletionAssumption DEF PrepareEdit, QueueNew, Requeue, Unknown, Activate, MonitorInv,
     TypeOK, Counted, Monitor, Deadline
<1>11. ASSUME NEW t \in Ticket, EndTicket(t)  PROVE Counted'
  BY <1>11, CompletionAssumption DEF EndTicket, MonitorInv, TypeOK, Counted, Monitor,
     Deadline
<1>12. ASSUME NEW j \in Job, EndJob(j)  PROVE Counted'
  BY <1>12, CompletionAssumption DEF EndJob, MonitorInv, TypeOK, Counted, Monitor, Deadline
<1>13. ASSUME NEW j \in Job, ForgetJob(j)  PROVE Counted'
  BY <1>13, CompletionAssumption DEF ForgetJob, MonitorInv, TypeOK, Counted, Monitor,
     Deadline
<1>14. CASE TimePasses
  BY <1>14, TimeStep, CompletionAssumption DEF TimePasses, Shorter, MonitorInv, TypeOK,
     Counted, Kept, Monitor, Deadline
<1>15. CASE SampleJobs
  BY <1>15, CompletionAssumption DEF SampleJobs, MonitorInv, TypeOK, Counted, Monitor,
     Deadline
<1>16. CASE Tick
  BY <1>16, TickStep, CompletionAssumption DEF MonitorInv, TypeOK, Counted, Kept, Monitor,
     Deadline
<1>17. CASE LockAdmission
  BY <1>17, CompletionAssumption DEF LockAdmission, Asleep, MonitorInv, TypeOK, Counted,
     Monitor, Deadline
<1>18. CASE RefreshJobs
  BY <1>18, CompletionAssumption DEF RefreshJobs, FreshJobs, MonitorInv, TypeOK, Counted,
     Monitor, Deadline
<1>19. CASE Claim
  BY <1>19, ClaimStep, CompletionAssumption DEF MonitorInv, TypeOK, Counted, Kept, Monitor,
     Deadline
<1>20. CASE ShutdownAnswered
  BY <1>20, CompletionAssumption DEF ShutdownAnswered, Asleep, MonitorInv, TypeOK, Counted,
     Monitor, Deadline
<1>21. CASE UNCHANGED vars
  BY <1>21, CompletionAssumption DEF vars, MonitorInv, TypeOK, Counted, Monitor, Deadline
<1> QED
  BY <1>1, <1>2, <1>3, <1>4, <1>5, <1>6, <1>7, <1>8, <1>9, <1>10, <1>11, <1>12, <1>13,
     <1>14, <1>15, <1>16, <1>17, <1>18, <1>19, <1>20, <1>21 DEF Next, Command, Inspection,
     Sampling

(* A queued job joins at the first tick that sees it.                      *)
LEMMA JoinedStep ==
  ASSUME MonitorInv, [Next]_vars
  PROVE  Joined'
<1>1. CASE AdmitWork
  BY <1>1 DEF AdmitWork, Admitted, Admitting, MonitorInv, TypeOK, Admission, Joined,
     Monitor, Jobs, Listing, Ended, ActiveIn, ListedIn
<1>2. CASE Refused
  BY <1>2 DEF Refused, Returned, Idle, MonitorInv, TypeOK, Admission, Joined, Monitor, Jobs,
     Listing, Ended, ActiveIn, ListedIn
<1>3. ASSUME NEW j \in Job, Enqueue(j)  PROVE Joined'
  BY <1>3 DEF Enqueue, QueueNew, Unknown, Activate, Returned, Idle, MonitorInv, TypeOK,
     Admission, Joined, Monitor, Jobs, Listing, Ended, ActiveIn, ListedIn
<1>4. ASSUME NEW j \in Job, Resume(j)  PROVE Joined'
  BY <1>4 DEF Resume, Requeue, Activate, Returned, Idle, MonitorInv, TypeOK, Admission, Joined,
     Monitor, Jobs, Listing, Ended, ActiveIn, ListedIn
<1>5. CASE ListForOptions
  BY <1>5 DEF ListForOptions, MonitorInv, TypeOK, Admission, Joined, Monitor, Jobs, Listing,
     Ended, ActiveIn, ListedIn
<1>6. ASSUME NEW finish \in Action, Configure(finish)  PROVE Joined'
  BY <1>6 DEF Configure, Configured, Returned, Idle, ListedIn, ActiveIn, MonitorInv, TypeOK,
     Admission, Joined, Monitor, Jobs, Listing, Ended
<1>7. CASE CancelFinish
  BY <1>7 DEF CancelFinish, Revoked, Disarmed, MonitorInv, TypeOK, Admission, Joined,
     Monitor, Jobs, Listing, Ended, ActiveIn, ListedIn
<1>8. ASSUME NEW t \in Ticket, BeginTicket(t)  PROVE Joined'
  BY <1>8 DEF BeginTicket, Admitted, Admitting, MonitorInv, TypeOK, Admission, Joined,
     Monitor, Jobs, Listing, Ended, ActiveIn, ListedIn
<1>9. ASSUME NEW t \in Ticket, RunTicket(t)  PROVE Joined'
  BY <1>9 DEF RunTicket, MayRun, Fresh, MonitorInv, TypeOK, Admission, Joined, Monitor,
     Jobs, Listing, Ended, ActiveIn, ListedIn
<1>10. ASSUME NEW t \in Ticket, NEW j \in Job, PrepareEdit(t, j)  PROVE Joined'
  BY <1>10 DEF PrepareEdit, QueueNew, Requeue, Unknown, Activate, MonitorInv, TypeOK, Admission,
     Joined, Monitor, Jobs, Listing, Ended, ActiveIn, ListedIn
<1>11. ASSUME NEW t \in Ticket, EndTicket(t)  PROVE Joined'
  BY <1>11 DEF EndTicket, MonitorInv, TypeOK, Admission, Joined, Monitor, Jobs, Listing,
     Ended, ActiveIn, ListedIn
<1>12. ASSUME NEW j \in Job, EndJob(j)  PROVE Joined'
  BY <1>12 DEF EndJob, MonitorInv, TypeOK, Admission, Joined, Monitor, Jobs, Listing, Ended,
     ActiveIn, ListedIn
<1>13. ASSUME NEW j \in Job, ForgetJob(j)  PROVE Joined'
  BY <1>13 DEF ForgetJob, MonitorInv, TypeOK, Admission, Joined, Monitor, Jobs, Listing,
     Ended, ActiveIn, ListedIn
<1>14. CASE TimePasses
  BY <1>14, TimeStep DEF TimePasses, MonitorInv, TypeOK, Joined, Kept, Monitor
<1>15. CASE SampleJobs
  BY <1>15 DEF SampleJobs, MonitorInv, TypeOK, Admission, Joined, Monitor, Jobs, Listing,
     Ended, ActiveIn, ListedIn
<1>16. CASE Tick
  BY <1>16, TickStep DEF MonitorInv, TypeOK, Joined, Kept
<1>17. CASE LockAdmission
  BY <1>17 DEF LockAdmission, Asleep, MonitorInv, TypeOK, Admission, Joined, Monitor, Jobs,
     Listing, Ended, ActiveIn, ListedIn
<1>18. CASE RefreshJobs
  BY <1>18 DEF RefreshJobs, FreshJobs, MonitorInv, TypeOK, Admission, Joined, Monitor, Jobs,
     Listing, Ended, ActiveIn, ListedIn
<1>19. CASE Claim
  BY <1>19, ClaimStep DEF MonitorInv, TypeOK, Joined, Kept
<1>20. CASE ShutdownAnswered
  BY <1>20 DEF ShutdownAnswered, Asleep, MonitorInv, TypeOK, Admission, Joined, Monitor,
     Jobs, Listing, Ended, ActiveIn, ListedIn
<1>21. CASE UNCHANGED vars
  BY <1>21 DEF vars, MonitorInv, TypeOK, Admission, Joined, Monitor, Jobs, Listing, Ended,
     ActiveIn, ListedIn
<1> QED
  BY <1>1, <1>2, <1>3, <1>4, <1>5, <1>6, <1>7, <1>8, <1>9, <1>10, <1>11, <1>12, <1>13,
     <1>14, <1>15, <1>16, <1>17, <1>18, <1>19, <1>20, <1>21 DEF Next, Command, Inspection,
     Sampling

LEMMA MonitorInit == Init => MonitorInv
<1> SUFFICES ASSUME Init  PROVE MonitorInv
  OBVIOUS
<1>1. Unlisted \in Jobs /\ Idle.jobs = Unlisted /\ Asleep.jobs = Unlisted
  BY DEF Unlisted, Jobs, Listing, Idle, Asleep
<1>2. monitor \in Monitor
  BY CompletionAssumption DEF Init, Monitor, Action, Deadline
<1>3. TypeOK
  <2>1. sampler \in Rounds /\ call \in [did : {"nothing", "admitted", "listed"}, jobs : Jobs]
    BY <1>1, Rested DEF Init, Idle
  <2>2. ticket \in [Ticket -> [stage : {"unused", "reserved", "running", "prepared", "used"},
                               left : 0 .. TicketLife]]
    BY CompletionAssumption DEF Init
  <2>3. quiet \in 0 .. Countdown
    BY CompletionAssumption DEF Init
  <2> QED
    BY <1>1, <1>2, <2>1, <2>2, <2>3 DEF Init, TypeOK, Rounds
<1> QED
  BY <1>3, CompletionAssumption DEF Init, MonitorInv, Bounded, Admission, AnalysisRunning,
     Started, Fresh, Sampled, Counted, Joined, Idle, Asleep

THEOREM MonitorInvariant == Spec => []MonitorInv
<1>1. MonitorInv /\ [Next]_vars => MonitorInv'
  BY TypesStep, AdmissionStep, SampledStep, CountedStep, JoinedStep DEF MonitorInv
<1> QED
  BY MonitorInit, <1>1, PTL DEF Spec

-----------------------------------------------------------------------------
(* The dispatch. *)

(* Only the claim dispatches, by a list nothing has disturbed, of a        *)
(* monitor whose countdown has run down.                                   *)
LEMMA DispatchStep ==
  ASSUME MonitorInv, [Next]_vars, Dispatches
  PROVE  /\ Claim /\ ~AnalysisRunning /\ quiet = Countdown
         /\ \A j \in Job : job[j] # "active"
         /\ \A j \in queued \ resumed : job[j] \in {"succeeded", "unlisted"}
<1>1. Claim
  BY DEF Dispatches, Next, vars, Command, Inspection, Sampling, AdmitWork, Refused, Enqueue,
     Resume, ListForOptions, Configure, CancelFinish, BeginTicket, RunTicket, PrepareEdit,
     EndTicket, EndJob, ForgetJob, TimePasses, SampleJobs, Tick, LockAdmission, RefreshJobs,
     ShutdownAnswered
<1>2. monitor \in Monitor /\ sampler.jobs \in Jobs /\ AnalysisRunning \in BOOLEAN
  BY DEF MonitorInv, TypeOK, AnalysisRunning, Started, Fresh
<1> DEFINE m == Ticked(monitor, sampler.jobs, AnalysisRunning)
<1>3. /\ m \in Monitor /\ m.generation = monitor.generation
      /\ m.seen = ListedIn(sampler.jobs)
      /\ m.finish # "none" =>
           /\ m.finish = monitor.finish
           /\ m.armed = monitor.armed \cup (ListedIn(sampler.jobs) \ monitor.seen)
                                     \cup ActiveIn(sampler.jobs)
           /\ ~Spoils(m.armed, sampler.jobs)
      /\ m.deadline # None => m.deadline \in {Countdown, monitor.deadline}
  BY <1>2, TickedMonitor
<1>4. /\ sampler.at = "refreshed" /\ Undisturbed
      /\ m.finish # "none" /\ m.deadline = 0
      /\ ~AnalysisRunning /\ ActiveIn(sampler.jobs) = {}
  BY <1>1 DEF Dispatches, Claim, Claimable, Undisturbed, Due
<1>5. quiet = Countdown
  BY <1>2, <1>3, <1>4, CompletionAssumption DEF MonitorInv, TypeOK, Counted, Monitor, Deadline
<1>6. \A j \in Job : /\ sampler.jobs[j] # "active"
                     /\ job[j] \in {sampler.jobs[j], "unlisted"}
  BY <1>4 DEF MonitorInv, Sampled, ActiveIn
<1>7. \A j \in queued \ resumed : job[j] \in {"succeeded", "unlisted"}
  <2> SUFFICES ASSUME NEW j \in queued \ resumed, job[j] # "unlisted"
               PROVE  job[j] = "succeeded"
    OBVIOUS
  <2>1. j \in Job /\ job[j] = sampler.jobs[j] /\ j \in ListedIn(sampler.jobs)
    BY <1>6 DEF MonitorInv, TypeOK, ListedIn
  <2>2. j \in m.armed
    BY <1>3, <1>4, <2>1 DEF MonitorInv, Joined
  <2>3. sampler.jobs[j] \notin {"unlisted", "unsuccessful", "active"}
    BY <1>3, <1>4, <1>6, <2>1, <2>2 DEF Spoils
  <2> QED
    BY <1>2, <2>1, <2>3 DEF Jobs, Listing, Ended
<1> QED
  BY <1>1, <1>4, <1>5, <1>6, <1>7

(* A job or an inspection starts only past the admission mutex, or with a  *)
(* ticket that is already counted.                                         *)
LEMMA QuietStep ==
  ASSUME MonitorInv, [Next]_vars, dispatched
  PROVE  /\ ActiveIn(job') \subseteq ActiveIn(job)
         /\ \A t \in Ticket : Started(t)' => Started(t)
<1>1. call.did = "nothing" /\ ~AnalysisRunning
  BY DEF MonitorInv, Admission
<1>2. ~\E j \in Job : Enqueue(j) \/ Resume(j)
  BY <1>1 DEF Enqueue, Resume
<1>3. ~\E t \in Ticket : RunTicket(t) \/ \E j \in Job : PrepareEdit(t, j)
  BY <1>1 DEF RunTicket, MayRun, PrepareEdit, AnalysisRunning, Started
<1>4. ActiveIn(job') \subseteq ActiveIn(job)
  BY <1>2, <1>3 DEF Next, vars, Command, Inspection, Sampling, AdmitWork, Refused,
     ListForOptions, Configure, CancelFinish, BeginTicket, EndTicket, EndJob, ForgetJob,
     TimePasses, SampleJobs, Tick, LockAdmission, RefreshJobs, Claim, ShutdownAnswered,
     ActiveIn, Ended, MonitorInv, TypeOK, Jobs
<1>5. \A t \in Ticket : Started(t)' => Started(t)
  <2>1. CASE TimePasses
    BY <2>1, TimeStep
  <2>2. ASSUME NEW u \in Ticket, BeginTicket(u) \/ EndTicket(u)
        PROVE  \A t \in Ticket : Started(t)' => Started(t)
    <3>1. ticket \in [Ticket -> [stage : {"unused", "reserved", "running", "prepared", "used"},
                                 left : 0 .. TicketLife]]
      BY DEF MonitorInv, TypeOK
    <3>2. CASE BeginTicket(u)
      BY <3>1, <3>2 DEF BeginTicket, Started
    <3>3. CASE EndTicket(u)
      BY <3>1, <3>3 DEF EndTicket, Started
    <3> QED
      BY <2>2, <3>2, <3>3
  <2>3. CASE UNCHANGED ticket
    BY <2>3 DEF Started
  <2>4. TimePasses \/ (\E u \in Ticket : BeginTicket(u) \/ EndTicket(u)) \/ UNCHANGED ticket
    BY <1>2, <1>3 DEF Next, vars, Command, Inspection, Sampling, AdmitWork, Refused,
       ListForOptions, Configure, CancelFinish, EndJob, ForgetJob, SampleJobs, Tick,
       LockAdmission, RefreshJobs, Claim, ShutdownAnswered
  <2> QED
    BY <2>1, <2>2, <2>3, <2>4
<1> QED
  BY <1>4, <1>5

(* The finish action is dispatched only while no job is queued or running  *)
(* and no inspection is reserved or running (completion.rs, claim).        *)
THEOREM DispatchedIdle == Spec => DispatchOnlyIdle
<1>1. MonitorInv /\ [Next]_vars =>
        [Dispatches => ActiveIn(job) = {} /\ ~AnalysisRunning]_vars
  BY DispatchStep DEF ActiveIn
<1> QED
  BY MonitorInvariant, <1>1, PTL DEF Spec, DispatchOnlyIdle

(* Every job that was active when the action was armed, or was queued      *)
(* since, has succeeded or left the list when it is dispatched (tick).     *)
THEOREM DispatchedAfterSuccess == Spec => DispatchAfterSuccess
<1>1. MonitorInv /\ [Next]_vars =>
        [Dispatches => \A j \in queued \ resumed : job[j] \in {"succeeded", "unlisted"}]_vars
  BY DispatchStep
<1> QED
  BY MonitorInvariant, <1>1, PTL DEF Spec, DispatchAfterSuccess

(* A whole countdown passes between the last admission and the dispatch    *)
(* (admit_work takes the deadline back).                                   *)
THEOREM DispatchedAfterCountdown == Spec => DispatchAfterCountdown
<1>1. MonitorInv /\ [Next]_vars => [Dispatches => quiet = Countdown]_vars
  BY DispatchStep
<1> QED
  BY MonitorInvariant, <1>1, PTL DEF Spec, DispatchAfterCountdown

(* Once the action is dispatched nothing starts any more (the admission    *)
(* mutex keeps the dispatch).                                              *)
THEOREM DispatchedStartsNothing == Spec => NothingStartsAfterDispatch
<1>1. MonitorInv /\ [Next]_vars =>
        [dispatched => /\ ActiveIn(job') \subseteq ActiveIn(job)
                       /\ \A t \in Ticket : Started(t)' => Started(t)]_vars
  BY QuietStep
<1> QED
  BY MonitorInvariant, <1>1, PTL DEF Spec, NothingStartsAfterDispatch
=============================================================================
