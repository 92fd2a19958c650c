----------------------------- MODULE CommandEdit -----------------------------
(***************************************************************************)
(* Reviewed commands (crates/media-runtime/src/jobs/command_edit.rs): a    *)
(* task is prepared up to the program it would run, the program is held    *)
(* until the user confirms it, and only then started.  A review is a       *)
(* Session shared by the calls of the client, the worker of its job, or    *)
(* the task of its image, and whoever cancels it: the client, the tickets  *)
(* of its calls, a page load, Stop Queue or the queue's own requests.      *)
(*                                                                         *)
(* A session's one-shot channels are values; the program is a last look at *)
(* the cancellation, a start and an end.  A review's job is named like it. *)
(* Job states, pauses, storage faults and shutdown are JobManager's.       *)
(***************************************************************************)
EXTENDS Naturals, Sequences, SequencesExt

CONSTANTS
  Review,   \* review identifiers; one is used once
  Ordinary, \* jobs without a review that may be in the queue before
  Tasks     \* bound: what is reviewed, of Task

(* Quick encodes, saved and new-settings resumes, and fixed images. *)
Task == {"fresh", "saved", "renewed", "image"}

(* What is assumed of them, where the module is used. *)
Requests == Tasks \subseteq Task /\ Review \cap Ordinary = {}

VARIABLES
  task,       \* CommandEditRequest
  held,       \* Sessions
  withdrawn,  \* Session.cancel
  decision,   \* its channel: "open", "sent" or "dropped"
  review,     \* "open", "sent" or "failed"
  answer,     \* the acknowledgement: "open", "ok" or "failed"
  confirmed,  \* Session.confirmed
  prepare,    \* the call prepare_command_edit
  confirm,    \* the call confirm_command_edit
  ticket,     \* the ticket of the call under way is canceled
  undo,       \* cancel_command_edit has canceled the session, not yet its job
  order,      \* unfinished jobs, in the order of the queue
  worker,     \* where the worker stands
  signal,     \* Entry.cancel
  workspace,  \* owned recovery progress exists
  recipe,     \* the settings and command it is for: "old" or "new"
  told        \* ghost: a cancellation has returned, or a call was refused

session == <<withdrawn, decision, review, answer, confirmed>>
calls   == <<held, prepare, confirm, ticket, undo, told>>
jobs    == <<order, worker, signal>>
saved   == <<workspace, recipe>>
vars    == <<task, session, calls, jobs, saved>>

Image(r) == task[r] = "image"

Executing == {"preparing", "hold", "decided", "ready", "launching", "running"}

(* The job exists and is not terminal. *)
Unfinished(r) == ~Image(r) /\ worker[r] \notin {"none", "done"}

(* What the worker's own cancel receiver says. *)
Signaled(r) == IF Image(r) THEN withdrawn[r] ELSE signal[r]

(* Session::cancel. *)
Canceled(R) ==
  /\ withdrawn' = [r \in Review |-> withdrawn[r] \/ r \in R]
  /\ decision' = [r \in Review |-> IF r \in R /\ decision[r] = "open" THEN "dropped"
                                   ELSE decision[r]]
  /\ UNCHANGED <<review, answer, confirmed>>

-----------------------------------------------------------------------------
(* cancel_command_edit.  Calls that overlap on one review do the same, and *)
(* are one here.                                                           *)

BeginCancel(r) ==
  IF r \in held THEN Canceled({r}) /\ undo' = [undo EXCEPT ![r] = TRUE]
                ELSE UNCHANGED <<session, undo>>

(* cancel_job, or the end of the image task.  A review whose job is not    *)
(* bound yet has neither.                                                  *)
EndCancel(r) ==
  /\ undo[r]
  /\ Image(r) => worker[r] \in {"none", "done"}
  /\ signal' = [signal EXCEPT ![r] = @ \/ Unfinished(r)]
  /\ undo' = [undo EXCEPT ![r] = FALSE]
  /\ held' = held \ {r}
  /\ told' = told \cup {r}
  /\ UNCHANGED <<task, session, prepare, confirm, ticket, order, worker, saved>>

(* The client backs out, or the page is loaded again                       *)
(* (cancel_command_reviews), which may be at any time.                     *)
CancelCommandEdit(r) ==
  /\ r \in held /\ ~undo[r]
  /\ BeginCancel(r)
  /\ UNCHANGED <<task, held, prepare, confirm, ticket, told, jobs, saved>>

(* AnalysisTasks: the client aborts a call. *)
CancelTicket(r) ==
  /\ ~ticket[r]
  /\ prepare[r] \in {"admitting", "resuming", "waiting"} \/ confirm[r] \in {"waiting", "result"}
  /\ ticket' = [ticket EXCEPT ![r] = TRUE]
  /\ UNCHANGED <<task, session, held, prepare, confirm, undo, told, jobs, saved>>

-----------------------------------------------------------------------------
(* prepare_command_edit. *)

Prepare(r) ==
  /\ prepare[r] = "idle"
  /\ prepare' = [prepare EXCEPT ![r] = "admitting"]
  /\ held' = held \cup {r}
  /\ UNCHANGED <<task, session, confirm, ticket, undo, told, jobs, saved>>

(* av1an_recovery_action_with_review: the workspace gets its new settings  *)
(* before the job is queued again.                                         *)
NewSettings(r) ==
  /\ prepare[r] = "admitting" /\ task[r] = "renewed"
  /\ recipe' = [recipe EXCEPT ![r] = "new"]
  /\ prepare' = [prepare EXCEPT ![r] = "resuming"]
  /\ UNCHANGED <<task, session, held, confirm, ticket, undo, told, jobs, workspace>>

Admissible(r) == prepare[r] = IF task[r] = "renewed" THEN "resuming" ELSE "admitting"

(* The job is bound and queued, or the image task begins at once. *)
Admit(r) ==
  /\ Admissible(r)
  /\ prepare' = [prepare EXCEPT ![r] = "waiting"]
  /\ IF Image(r)
     THEN worker' = [worker EXCEPT ![r] = "preparing"] /\ UNCHANGED order
     ELSE /\ worker' = [worker EXCEPT ![r] = "queued"]
          /\ order' = Append(order, r)
  /\ UNCHANGED <<task, session, held, confirm, ticket, undo, told, signal, saved>>

(* The destination is taken, the queue full or stopped. *)
Refuse(r) ==
  /\ Admissible(r) /\ ~Image(r)
  /\ prepare' = [prepare EXCEPT ![r] = "refused"]
  /\ held' = held \ {r}
  /\ ticket' = [ticket EXCEPT ![r] = FALSE]
  /\ told' = told \cup {r}
  /\ UNCHANGED <<task, session, confirm, undo, jobs, saved>>

(* The select prefers the ticket. *)
EndPrepare(r) ==
  /\ prepare[r] = "waiting"
  /\ \/ /\ ticket[r]
        /\ prepare' = [prepare EXCEPT ![r] = "refused"]
        /\ BeginCancel(r)
        /\ UNCHANGED <<held, told>>
     \/ /\ ~ticket[r] /\ review[r] = "sent"
        /\ prepare' = [prepare EXCEPT ![r] = "offered"]
        /\ UNCHANGED <<session, undo, held, told>>
     \/ /\ ~ticket[r] /\ review[r] = "failed"
        /\ prepare' = [prepare EXCEPT ![r] = "refused"]
        /\ held' = held \ {r}
        /\ told' = told \cup {r}
        /\ UNCHANGED <<session, undo>>
  /\ ticket' = [ticket EXCEPT ![r] = FALSE]
  /\ UNCHANGED <<task, confirm, jobs, saved>>

-----------------------------------------------------------------------------
(* confirm_command_edit. *)

(* The command is empty. *)
Clear(r) ==
  /\ prepare[r] = "offered" /\ confirm[r] = "idle"
  /\ confirm' = [confirm EXCEPT ![r] = "refused"]
  /\ BeginCancel(r)
  /\ UNCHANGED <<task, held, prepare, ticket, told, jobs, saved>>

(* Only the worker that holds the review receives the decision. *)
Confirm(r) ==
  /\ prepare[r] = "offered" /\ confirm[r] = "idle"
  /\ IF r \in held /\ decision[r] = "open" /\ worker[r] = "hold"
     THEN /\ decision' = [decision EXCEPT ![r] = "sent"]
          /\ confirm' = [confirm EXCEPT ![r] = "waiting"]
          /\ UNCHANGED told
     ELSE /\ decision' = [decision EXCEPT ![r] = IF r \in held /\ @ = "open" THEN "dropped" ELSE @]
          /\ confirm' = [confirm EXCEPT ![r] = "refused"]
          /\ told' = told \cup {r}
  /\ UNCHANGED <<task, withdrawn, review, answer, confirmed, held, prepare, ticket, undo,
                 jobs, saved>>

(* A refused review stays in the map until it is canceled. *)
EndConfirm(r) ==
  /\ confirm[r] = "waiting"
  /\ \/ /\ ticket[r]
        /\ confirm' = [confirm EXCEPT ![r] = "refused"]
        /\ BeginCancel(r)
        /\ UNCHANGED <<held, told>>
     \/ /\ ~ticket[r] /\ answer[r] = "ok"
        /\ confirm' = [confirm EXCEPT ![r] = IF Image(r) THEN "result" ELSE "done"]
        /\ held' = IF Image(r) THEN held ELSE held \ {r}
        /\ UNCHANGED <<session, undo, told>>
     \/ /\ ~ticket[r] /\ answer[r] = "failed"
        /\ confirm' = [confirm EXCEPT ![r] = "refused"]
        /\ told' = told \cup {r}
        /\ UNCHANGED <<session, undo, held>>
  /\ ticket' = [ticket EXCEPT ![r] = FALSE]
  /\ UNCHANGED <<task, prepare, jobs, saved>>

(* images::finish waits for the image, canceled or not. *)
CancelResult(r) ==
  /\ confirm[r] = "result" /\ ticket[r]
  /\ Canceled({r})
  /\ ticket' = [ticket EXCEPT ![r] = FALSE]
  /\ UNCHANGED <<task, held, prepare, confirm, undo, told, jobs, saved>>

EndResult(r) ==
  /\ confirm[r] = "result" /\ worker[r] = "done"
  /\ confirm' = [confirm EXCEPT ![r] = "done"]
  /\ held' = held \ {r}
  /\ ticket' = [ticket EXCEPT ![r] = FALSE]
  /\ UNCHANGED <<task, session, prepare, undo, told, jobs, saved>>

-----------------------------------------------------------------------------
(* The worker of a job, or the task of an image. *)

Advance(r, from, to) ==
  /\ worker[r] = from
  /\ worker' = [worker EXCEPT ![r] = to]

Start(r) ==
  /\ Advance(r, "queued", "preparing")
  /\ Head(order) = r /\ ~signal[r]
  /\ UNCHANGED <<task, session, calls, order, signal, saved>>

(* A chunked encode owns its workspace before its command is known. *)
SaveProgress(r) ==
  /\ worker[r] = "preparing" /\ ~workspace[r] /\ task[r] = "fresh"
  /\ workspace' = [workspace EXCEPT ![r] = TRUE]
  /\ UNCHANGED <<task, session, calls, jobs, recipe>>

(* ask_initial: the review is sent to the call that waits for it. *)
Ask(r) ==
  /\ Advance(r, "preparing", "hold")
  /\ ~Signaled(r) /\ prepare[r] = "waiting"
  /\ review' = [review EXCEPT ![r] = "sent"]
  /\ UNCHANGED <<task, withdrawn, decision, answer, confirmed, calls, order, signal, saved>>

(* Seeded fault: only the cancellation of the job is watched. *)
NeverWithdrawn(r) == FALSE

Withdrawn(r) == withdrawn[r] \/ decision[r] = "dropped"

TakeDecision(r) ==
  /\ Advance(r, "hold", "decided")
  /\ ~Signaled(r) /\ ~withdrawn[r] /\ decision[r] = "sent"
  /\ confirmed' = [confirmed EXCEPT ![r] = TRUE]
  /\ UNCHANGED <<task, withdrawn, decision, review, answer, calls, order, signal, saved>>

(* The edited command is recorded, then the confirmation acknowledged. *)
Acknowledge(r) ==
  /\ Advance(r, "decided", "ready")
  /\ answer' = [answer EXCEPT ![r] = "ok"]
  /\ UNCHANGED <<task, withdrawn, decision, review, confirmed, calls, order, signal, saved>>

(* Seeded fault: the cancellation is not looked at again. *)
MayLaunchCanceled(r) == TRUE

MayLaunch(r) == ~Signaled(r)

(* The last look at the cancellation before the program: what follows,     *)
(* opening its log, is awaited.                                            *)
Launch(r) ==
  /\ Advance(r, "ready", "launching")
  /\ MayLaunch(r)
  /\ UNCHANGED <<task, session, calls, order, signal, saved>>

(* Nothing is looked at between the log and the start: a cancellation that *)
(* came meanwhile lets the program start, and then ends it.                *)
Spawn(r) ==
  /\ Advance(r, "launching", "running")
  /\ UNCHANGED <<task, session, calls, order, signal, saved>>

(* The select prefers the cancellation to the end of the program, and      *)
(* nothing is published without reading the cancellation again.            *)
Succeed(r) ==
  /\ Advance(r, "running", "succeeded")
  /\ ~Signaled(r)
  /\ UNCHANGED <<task, session, calls, order, signal, saved>>

(* Any step may fail, or heed the cancellation; a held worker fails only   *)
(* when nobody waits for its review any more.                              *)
Fail(r) ==
  /\ worker[r] \in Executing
  /\ worker[r] = "hold" => Signaled(r) \/ Withdrawn(r)
  /\ worker' = [worker EXCEPT ![r] = "failed"]
  /\ UNCHANGED <<task, session, calls, order, signal, saved>>

(* Seeded fault: every review counts as confirmed once it was sent. *)
NotSent(r) == review[r] # "sent"

Unconfirmed(r) == ~confirmed[r]

(* Session::finish. *)
Finished(r) ==
  /\ review' = [review EXCEPT ![r] = IF @ = "open" THEN "failed" ELSE @]
  /\ answer' = [answer EXCEPT ![r] = IF @ = "open" THEN "failed" ELSE @]

(* discard_unconfirmed_command, then finish: a fresh encode loses its      *)
(* unused workspace, a resumed one gets its recipe back.                   *)
Finish(r) ==
  /\ worker[r] \in {"succeeded", "failed"}
  /\ worker' = [worker EXCEPT ![r] = "done"]
  /\ LET back == worker[r] = "failed" /\ Unconfirmed(r) IN
     /\ workspace' = [workspace EXCEPT ![r] = @ /\ ~(back /\ task[r] = "fresh")]
     /\ recipe' = [recipe EXCEPT ![r] = IF back THEN "old" ELSE @]
  /\ Finished(r)
  /\ order' = Remove(order, r)
  /\ UNCHANGED <<task, withdrawn, decision, confirmed, calls, signal>>

(* run_queued: the job is canceled before its turn. *)
LeaveQueue(r) ==
  /\ Advance(r, "queued", "done")
  /\ signal[r]
  /\ Finished(r)
  /\ order' = Remove(order, r)
  /\ UNCHANGED <<task, withdrawn, decision, confirmed, calls, signal, saved>>

(* The jobs in front end, one after the other. *)
EndOrdinary ==
  /\ order # <<>> /\ Head(order) \in Ordinary
  /\ order' = Tail(order)
  /\ UNCHANGED <<task, session, calls, worker, signal, saved>>

-----------------------------------------------------------------------------
(* The queue's own requests. *)

(* cancel_job and stop_job. *)
CancelJob(r) ==
  /\ Unfinished(r) /\ ~signal[r]
  /\ signal' = [signal EXCEPT ![r] = TRUE]
  /\ UNCHANGED <<task, session, calls, order, worker, saved>>

(* cancel_all_jobs. *)
CancelAllJobs ==
  /\ held # {}
  /\ Canceled(held)
  /\ signal' = [r \in Review |-> signal[r] \/ Unfinished(r)]
  /\ UNCHANGED <<task, calls, order, worker, saved>>

-----------------------------------------------------------------------------
Init ==
  /\ task \in [Review -> Tasks]
  /\ held = {}
  /\ withdrawn = [r \in Review |-> FALSE]
  /\ decision = [r \in Review |-> "open"]
  /\ review = [r \in Review |-> "open"]
  /\ answer = [r \in Review |-> "open"]
  /\ confirmed = [r \in Review |-> FALSE]
  /\ prepare = [r \in Review |-> "idle"]
  /\ confirm = [r \in Review |-> "idle"]
  /\ ticket = [r \in Review |-> FALSE]
  /\ undo = [r \in Review |-> FALSE]
  /\ order = SetToSeq(Ordinary)
  /\ worker = [r \in Review |-> "none"]
  /\ signal = [r \in Review |-> FALSE]
  /\ workspace = [r \in Review |-> task[r] \in {"saved", "renewed"}]
  /\ recipe = [r \in Review |-> "old"]
  /\ told = {}

Calling(r) ==
  \/ NewSettings(r) \/ Admit(r) \/ Refuse(r) \/ EndPrepare(r)
  \/ EndConfirm(r) \/ CancelResult(r) \/ EndResult(r)

(* What the worker does by itself. *)
Stepping(r) ==
  \/ Start(r) \/ LeaveQueue(r) \/ Ask(r) \/ TakeDecision(r) \/ Acknowledge(r)
  \/ Launch(r) \/ Spawn(r) \/ Succeed(r) \/ Fail(r) \/ Finish(r)

User(r) == Prepare(r) \/ Clear(r) \/ Confirm(r) \/ CancelCommandEdit(r) \/ CancelTicket(r)
           \/ CancelJob(r)

(* No session is held and no job is left. *)
Over ==
  /\ held = {} /\ order = <<>>
  /\ \A r \in Review : prepare[r] # "idle" /\ worker[r] \in {"none", "done"}
  /\ UNCHANGED vars

Next ==
  \/ \E r \in Review : User(r) \/ Calling(r) \/ Stepping(r) \/ SaveProgress(r) \/ EndCancel(r)
  \/ CancelAllJobs \/ EndOrdinary \/ Over

(* Calls, cancellations and workers go on by themselves; users need not.   *)
Proceed(r) == Calling(r) \/ EndCancel(r)

-----------------------------------------------------------------------------
(* Properties. *)

(* Once a call on a review has been refused, or its cancellation has       *)
(* returned, its worker does not pass the last look before the program any *)
(* more, and a program already past it never ends in success.  Such a      *)
(* program may still be started; it is ended instead of published.         *)
CanceledNeverCompletes ==
  [][\A r \in told : worker'[r] \in {"launching", "succeeded"} => worker'[r] = worker[r]]_vars

(* A fresh encode whose command nobody confirmed leaves no saved progress  *)
(* behind, wherever its preparation was left.                              *)
UnconfirmedLeavesNothing ==
  \A r \in Review : task[r] = "fresh" /\ worker[r] = "done" /\ ~confirmed[r] => ~workspace[r]

(* A review that ended unconfirmed has not changed the recipe of the       *)
(* progress it would have resumed.                                         *)
BackingOutRestores ==
  \A r \in Review :
    task[r] = "renewed" /\ worker[r] = "done" /\ ~confirmed[r] => recipe[r] = "old"

(* A confirmation that waits is answered, by the worker that takes it or   *)
(* by whoever ends without it, and a withdrawn review does not hold the    *)
(* queue, at whatever step of its call it was withdrawn.                   *)
ReviewSettles ==
  \A r \in Review :
    confirm[r] = "waiting" \/ (withdrawn[r] /\ worker[r] = "hold")
      ~> confirm[r] # "waiting" /\ worker[r] # "hold"
=============================================================================
