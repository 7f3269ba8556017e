----------------------------- MODULE MCProgress -----------------------------
(***************************************************************************)
(* The components that have to make progress on their own, on small        *)
(* instances, in one run: the focus of a behaviour says which of them it   *)
(* is about, and the others do not move.  They share no state, so every    *)
(* behaviour of each is a behaviour here and nothing else is.  Shell,      *)
(* Enrollment, Recovery and Email, which have proofs, keep their own names *)
(* and constants.                                                          *)
(***************************************************************************)
EXTENDS Shell, Enrollment, Recovery, Email

CONSTANT NoAnswer

VARIABLES
    focus,  \* the component this behaviour is about
    stop_file, stop_run, stop_monitor, stop_captured, stop_latch, stop_signalled, stop_inc,
    stop_work, stop_stops,
    http_session, http_sequence, http_queue, http_caller, http_pending, http_subscribed, http_woken,
    http_answer, http_cursor, http_known, http_storedIn, http_events, http_asked, http_crashes,
    scheduler_stream, scheduler_kept, scheduler_through, scheduler_loopAt, scheduler_now,
    scheduler_ops, scheduler_wipes,
    telegram_sent, telegram_dropped, telegram_offset, telegram_pending, telegram_cursor,
    telegram_response, telegram_log, telegram_revoked, telegram_stopped, telegram_crashes,
    github_installed, github_doc, github_due, github_timers, github_inbox, github_obs,
    github_answers, github_up, github_work, github_received, github_enrolled, github_faults

stopState == <<stop_file, stop_run, stop_monitor, stop_captured, stop_latch, stop_signalled,
              stop_inc, stop_work, stop_stops>>
httpState == <<http_session, http_sequence, http_queue, http_caller, http_pending, http_subscribed,
              http_woken, http_answer, http_cursor, http_known, http_storedIn, http_events,
              http_asked, http_crashes>>
schedulerState == <<scheduler_stream, scheduler_kept, scheduler_through, scheduler_loopAt,
                   scheduler_now, scheduler_ops, scheduler_wipes>>
telegramState == <<telegram_sent, telegram_dropped, telegram_offset, telegram_pending,
                  telegram_cursor, telegram_response, telegram_log, telegram_revoked,
                  telegram_stopped, telegram_crashes>>
githubState == <<github_installed, github_doc, github_due, github_timers, github_inbox, github_obs,
                github_answers, github_up, github_work, github_received, github_enrolled,
                github_faults>>
vars == <<focus, recoveryVars, stopState, shellVars, httpState, schedulerState, telegramState,
          emailVars, enrollmentVars, githubState>>

Delivery(id, body, kind, inst) == [id |-> id, body |-> body, kind |-> kind, inst |-> inst]
Deliveries == {Delivery(1, 1, "push", 0), Delivery(1, 2, "push", 0), Delivery(3, 1, "deleted", 1)}

Stop == INSTANCE Stop WITH
    Instances <- {1, 2}, MaxRestarts <- 1, MaxStops <- 2, file <- stop_file, run <- stop_run,
    monitor <- stop_monitor, captured <- stop_captured, latch <- stop_latch,
    signalled <- stop_signalled, inc <- stop_inc, work <- stop_work, stops <- stop_stops
Http == INSTANCE HttpConnector WITH
    Requests <- {1, 2, 3}, NoAnswer <- NoAnswer, MaxQueue <- 2, MaxSessions <- 2, MaxCrashes <- 1,
    session <- http_session, sequence <- http_sequence, queue <- http_queue, caller <- http_caller,
    pending <- http_pending, subscribed <- http_subscribed, woken <- http_woken,
    answer <- http_answer, cursor <- http_cursor, known <- http_known, storedIn <- http_storedIn,
    events <- http_events, asked <- http_asked, crashes <- http_crashes
Scheduler == INSTANCE Scheduler WITH
    Timers <- {"t1"}, Schedules <- {"s1"}, Calendar <- {2, 4, 6}, Delays <- {1}, Page <- 2,
    MaxTime <- 4, MaxOps <- 2, MaxWipes <- 1, stream <- scheduler_stream, kept <- scheduler_kept,
    through <- scheduler_through, loopAt <- scheduler_loopAt, now <- scheduler_now,
    ops <- scheduler_ops, wipes <- scheduler_wipes
Telegram == INSTANCE Telegram WITH
    Kinds <- <<"media", "nofile", "strange", "media">>, Items <- 2, Attempts <- 2, Limit <- 2,
    MaxCrashes <- 1, sent <- telegram_sent, dropped <- telegram_dropped, offset <- telegram_offset,
    pending <- telegram_pending, cursor <- telegram_cursor, response <- telegram_response,
    log <- telegram_log, revoked <- telegram_revoked, stopped <- telegram_stopped,
    crashes <- telegram_crashes
GitHub == INSTANCE GitHub WITH
    Deliveries <- Deliveries, Installations <- {1}, EventBatch <- 2, MaxInbox <- 2, MaxRequests <- 1,
    MaxEnrolled <- 1, MaxFaults <- 1, installed <- github_installed, doc <- github_doc,
    due <- github_due, timers <- github_timers, inbox <- github_inbox, obs <- github_obs,
    answers <- github_answers, up <- github_up, work <- github_work, received <- github_received,
    enrolled <- github_enrolled, faults <- github_faults

Components == {"recovery", "stop", "shell", "http", "scheduler", "telegram", "email", "enrollment", "github"}
(* Every component is in an initial state; one of them runs, the others rest,  *)
(* in a fixed initial state.                                                  *)
Init ==
    /\ focus \in Components
    /\ (IF focus = "recovery" THEN TRUE ELSE pinned = FALSE)
    /\ RecoveryInit
    /\ Stop!Init
    /\ ShellInit
    /\ Http!Init
    /\ Scheduler!SchedulerInit
    /\ Telegram!Init
    /\ (IF focus = "email" THEN TRUE ELSE importHistory = FALSE)
    /\ EmailInit
    /\ EnrollmentInit
    /\ GitHub!GitHubInit
Still(c, state) == IF focus = c THEN TRUE ELSE UNCHANGED state
In(c, A) ==
    /\ focus = c /\ A /\ UNCHANGED focus
    /\ Still("recovery", recoveryVars)
    /\ Still("stop", stopState)
    /\ Still("shell", shellVars)
    /\ Still("http", httpState)
    /\ Still("scheduler", schedulerState)
    /\ Still("telegram", telegramState)
    /\ Still("email", emailVars)
    /\ Still("enrollment", enrollmentVars)
    /\ Still("github", githubState)

Next ==
    \/ In("recovery", RecoveryNext)
    \/ In("stop", Stop!Next)
    \/ In("shell", ShellNext)
    \/ In("http", Http!Next)
    \/ In("scheduler", Scheduler!SchedulerNext)
    \/ In("telegram", Telegram!Next)
    \/ In("email", EmailNext)
    \/ In("enrollment", EnrollmentNext)
    \/ In("github", GitHub!GitHubNext)
Spec == Init /\ [][Next]_vars
(* Each component's own fairness, while it is the one that runs.               *)
FairSpec ==
    /\ Spec
    /\ WF_recoveryVars(focus = "recovery" /\ Work)
    /\ WF_stopState(focus = "stop" /\ Stop!Halt)
    /\ WF_stopState(focus = "stop" /\ Stop!BeginTick)
    /\ SF_stopState(focus = "stop" /\ Stop!EndTick)
    /\ WF_stopState(focus = "stop" /\ Stop!MonitorLatches)
    /\ WF_stopState(focus = "stop" /\ Stop!MonitorSignals)
    /\ WF_stopState(focus = "stop" /\ Stop!Spawn(1))
    /\ WF_stopState(focus = "stop" /\ Stop!Spawn(2))
    /\ WF_shellVars(focus = "shell" /\ Executor)
    /\ WF_shellVars(focus = "shell" /\ ShellComponent("c1"))
    /\ WF_shellVars(focus = "shell" /\ ShellComponent("c2"))
    /\ WF_httpState(focus = "http" /\ Http!Component)
    /\ WF_schedulerState(focus = "scheduler" /\ Scheduler!Loop)
    /\ WF_telegramState(focus = "telegram" /\ Telegram!Poll)
    /\ SF_telegramState(focus = "telegram" /\ Telegram!Process)
    /\ WF_telegramState(focus = "telegram" /\ Telegram!Start)
    /\ WF_telegramState(focus = "telegram" /\ Telegram!Clock)
    /\ WF_emailVars(focus = "email" /\ Session)
    /\ WF_enrollmentVars(focus = "enrollment" /\ EnrollmentComponent)
    /\ WF_enrollmentVars(focus = "enrollment" /\ FireTimer)
    /\ WF_enrollmentVars(focus = "enrollment" /\ Clock)
    /\ WF_githubState(focus = "github" /\ GitHub!Component)
    /\ WF_githubState(focus = "github" /\ GitHub!Fire)

-----------------------------------------------------------------------------
(* A component that ran out of memory passes all its events or is recorded as *)
(* failed (Recovery.Recovers).                                                *)
EveryEventPassed == focus = "recovery" => Recovers
(* The STOP file ends the process (Stop.StopHalts).                           *)
StopHalts == focus = "stop" => Stop!StopHalts
(* Every command is answered and the executor comes back (Shell.Answered).    *)
EveryCommandAnswered == focus = "shell" => Answered
(* No wakeup of the HTTP component is lost (HttpConnector.InboxDrained).      *)
InboxDrained == focus = "http" => Http!InboxDrained
(* A timer nobody may cancel fires (Scheduler.TimerFires).                    *)
TimerFires == focus = "scheduler" => Scheduler!TimerFires
(* A trusted sender's update is observed (Telegram.UpdateObserved).           *)
UpdateObserved == focus = "telegram" => Telegram!UpdateObserved
(* Mail that stays is observed (Email.MailObserved).                          *)
EveryMailObserved == focus = "email" => MailObserved
(* The token of the owner's installation is obtained (GitHub.TokenObtained).  *)
TokenObtained == focus = "github" => GitHub!TokenObtained
=============================================================================
