-------------------------------- MODULE Stop --------------------------------
(***************************************************************************)
(* The emergency stop (pluribus-cli/src/stop.rs) against the running agent *)
(* (main.rs, agent.rs): a STOP file, a monitor thread that holds the       *)
(* cancellation handles of the instances installed at start, the latch     *)
(* that every admission reads, and the loop that reads the file between    *)
(* two ticks.  A handle belongs to one incarnation of an instance: a       *)
(* restart after resource exhaustion makes a new one.                      *)
(***************************************************************************)
EXTENDS Naturals, FiniteSets

CONSTANTS Instances, MaxRestarts, MaxStops

VARIABLES
    file,        \* the STOP file is present
    run,         \* "off", "tick" or "between": where the agent process is
    monitor,     \* "off", "watching", "latched" or "done"
    captured,    \* incarnations whose handles the monitor holds
    latch,       \* Agent::stopped
    signalled,   \* incarnations whose handle was shut down
    inc,         \* the incarnation of each instance
    work,        \* instance -> "idle", "admitting", "running"
    stops
stopVars == <<file, run, monitor, captured, latch, signalled, inc, work, stops>>

Incarnations == {<<i, inc[i]>> : i \in Instances}

Init ==
    /\ file = FALSE /\ run = "off" /\ monitor = "off" /\ captured = {} /\ latch = FALSE
    /\ signalled = {} /\ inc = [i \in Instances |-> 0] /\ work = [i \in Instances |-> "idle"]
    /\ stops = 0

(* `pluribus stop`. *)
Request ==
    /\ stops < MaxStops /\ file' = TRUE /\ stops' = stops + 1
    /\ UNCHANGED <<run, monitor, captured, latch, signalled, inc, work>>

(* `pluribus run`: prepare refuses while the file is there, --resume removes *)
(* it; the handles are captured once, after every instance was installed.    *)
Prepare(resume) == resume \/ ~file
Start(resume) ==
    /\ run = "off" /\ Prepare(resume)
    /\ file' = FALSE /\ run' = "between" /\ monitor' = "watching"
    /\ inc' = [i \in Instances |-> 0] /\ work' = [i \in Instances |-> "idle"]
    /\ captured' = {<<i, 0>> : i \in Instances} /\ latch' = FALSE /\ signalled' = {}
    /\ UNCHANGED stops

(* The monitor thread: the latch first, then every handle it holds. *)
MonitorLatches ==
    /\ monitor = "watching" /\ run # "off" /\ file
    /\ latch' = TRUE /\ monitor' = "latched"
    /\ UNCHANGED <<file, run, captured, signalled, inc, work, stops>>
MonitorSignals ==
    /\ monitor = "latched" /\ run # "off"
    /\ signalled' = signalled \cup captured /\ monitor' = "done"
    /\ UNCHANGED <<file, run, captured, latch, inc, work, stops>>

StoppedNever == FALSE
Stopped == file
(* The loop: the file is read between ticks; leaving drops the monitor and   *)
(* the agent, whose Drop shuts every current handle and aborts its workers.  *)
Halt ==
    /\ run = "between" /\ Stopped
    /\ run' = "off" /\ monitor' = "off" /\ latch' = TRUE
    /\ signalled' = signalled \cup Incarnations
    /\ work' = [i \in Instances |-> "idle"]
    /\ UNCHANGED <<file, captured, inc, stops>>
BeginTick ==
    /\ run = "between" /\ ~Stopped
    /\ run' = "tick"
    /\ UNCHANGED <<file, monitor, captured, latch, signalled, inc, work, stops>>
EndTick ==
    /\ run = "tick" /\ \A i \in Instances : work[i] # "admitting"
    /\ run' = "between"
    /\ UNCHANGED <<file, monitor, captured, latch, signalled, inc, work, stops>>

(* deliver: the latch is read once more before the instance is handed over.  *)
Admit(i) ==
    /\ run = "tick" /\ work[i] = "idle" /\ \A j \in Instances : work[j] # "admitting"
    /\ ~latch
    /\ work' = [work EXCEPT ![i] = "admitting"]
    /\ UNCHANGED <<file, run, monitor, captured, latch, signalled, inc, stops>>
Spawn(i) ==
    /\ run = "tick" /\ work[i] = "admitting"
    /\ work' = [work EXCEPT ![i] = "running"]
    /\ UNCHANGED <<file, run, monitor, captured, latch, signalled, inc, stops>>

(* collect_workers: the delivery ended, by itself or on its handle; one that *)
(* exhausted its memory is restarted with a fresh handle.                    *)
Collect(i) ==
    /\ run = "tick" /\ work[i] = "running"
    /\ work' = [work EXCEPT ![i] = "idle"]
    /\ UNCHANGED <<file, run, monitor, captured, latch, signalled, inc, stops>>
Restart(i) ==
    /\ run = "tick" /\ work[i] = "running" /\ <<i, inc[i]>> \notin signalled
    /\ inc[i] < MaxRestarts
    /\ inc' = [inc EXCEPT ![i] = @ + 1]
    /\ work' = [work EXCEPT ![i] = "idle"]
    /\ UNCHANGED <<file, run, monitor, captured, latch, signalled, stops>>

Next ==
    \/ Request \/ (\E r \in BOOLEAN : Start(r))
    \/ MonitorLatches \/ MonitorSignals \/ Halt \/ BeginTick \/ EndTick
    \/ \E i \in Instances : Admit(i) \/ Spawn(i) \/ Collect(i) \/ Restart(i)
Spec == Init /\ [][Next]_stopVars
(* A tick visits every instance once, so it ends; the monitor is a thread.   *)
FairSpec ==
    /\ Spec /\ WF_stopVars(Halt) /\ WF_stopVars(BeginTick) /\ SF_stopVars(EndTick)
    /\ WF_stopVars(MonitorLatches) /\ WF_stopVars(MonitorSignals)
    /\ \A i \in Instances : WF_stopVars(Spawn(i))

(* A stop takes effect: with the file in place the process ends, or the      *)
(* operator resumes, however many deliveries the ticks still had.            *)
StopHalts == file ~> (run = "off" \/ ~file)
=============================================================================
