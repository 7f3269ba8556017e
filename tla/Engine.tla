------------------------------- MODULE Engine -------------------------------
(***************************************************************************)
(* The RLM cognition engine (plugins/rlm/cognition/src/engine.rs) together *)
(* with the JavaScript sessions it drives (plugins/rlm/repl) and the       *)
(* environment that answers it: model provider, capability providers,      *)
(* timers, operator.                                                       *)
(*                                                                         *)
(* The engine is a deterministic function of its state and one event; the  *)
(* operators below take the engine state E (the struct Engine, plus the    *)
(* drafts `out` it returns) and return the next one, in the order of the   *)
(* code.  Cognition subscribes to "*": what it emits comes back to it      *)
(* through the log in commit order.                                        *)
(*                                                                         *)
(* Sessions: <<o>> is the root task of job o, <<o, 0>> the association     *)
(* task "associate:o", and Append(s, y) the child task of yield y of s.    *)
(* A task's messages are abstracted to whether valid_tool_history accepts  *)
(* them: "ok", "open" (a tool call awaits its result) or "bad".            *)
(***************************************************************************)
EXTENDS Naturals, Sequences, FiniteSets, SequencesExt

CONSTANTS
    Obs,          \* observations of one conversation; a job has its observation's id
    None,         \* absent
    MaxCalls,     \* model calls of one cycle (32)
    MaxRetries,   \* provider failures a job retries (5)
    MaxErrors,    \* invalid outputs, failed compactions, identical cells (3)
    MaxResource,  \* resource failures a task recovers from (2)
    MaxYields,    \* host requests of one cell (256)
    MaxDepth,     \* recursion depth of child queries (4)
    MaxChildren,  \* concurrent child queries (4)
    Profiles,     \* the environments explored; see `profile`
    MaxBatch,     \* events of one delivery
    MaxRev, MaxSteps   \* bounds of the explored behaviours

ASSUME BoundsAssumption ==
    /\ {MaxCalls, MaxRetries, MaxErrors, MaxResource, MaxYields, MaxDepth,
        MaxChildren, MaxRev, MaxSteps, MaxBatch} \subseteq Nat
    /\ MaxCalls > MaxErrors

VARIABLES
    E,        \* the engine's durable state
    log,      \* committed events cognition has not consumed
    replq,    \* committed code.* requests the REPL has not consumed
    realms,   \* the REPL's resident sessions
    yielded,  \* sessions whose last code.* result in the log is code.yielded
    asked,    \* model requests without a result
    caps,     \* capability requests of cells without a result
    timers,   \* timers set and not fired
    faults,   \* faults so far (bound)
    profile   \* what this behaviour's environment may do: the observations, what
              \* the model answers a task (answers) and an association (routes),
              \* how a step of a cell ends (cells), what compaction::admission
              \* says of a request (admissions), which faults and operator
              \* actions happen (faults, at most max), how many cycles a job
              \* gets (cycles), and whether an observation may name a job
              \* (explicit)

env == <<replq, realms, yielded, asked, caps, timers, faults, profile>>
vars == <<E, log, env>>

Terminal == {"completed", "failed", "cancelled"}
Parked == {"waiting-input", "waiting-time", "paused-budget"}

IsAssociation(s) == Len(s) = 2 /\ s[2] = 0
IsChild(s) == Len(s) > 1 /\ ~IsAssociation(s)
Root(s) == IF IsAssociation(s) THEN s ELSE <<s[1]>>
JobOf(s) == s[1]
Exists(e, o) == e.jobs[o].status # "none"
HasJob(e, s) == ~IsAssociation(s) /\ Exists(e, JobOf(s))
Status(e, s) == IF HasJob(e, s) THEN e.jobs[JobOf(s)].status ELSE "none"
Live(e) == DOMAIN e.tasks
Drop(f, S) == [x \in DOMAIN f \ S |-> f[x]]
Keep(q, S) == SelectSeq(q, LAMBDA s : s \in S)
Put(f, x, v) == [y \in DOMAIN f \cup {x} |-> IF y = x THEN v ELSE f[y]]

NoJob == [status |-> "none", rev |-> 0, reason |-> None, wake |-> None, naps |-> 0,
          retry |-> 0, cycle |-> 0, old |-> FALSE, unresolved |-> {}]

Init ==
    /\ E = [jobs |-> [o \in Obs |-> NoJob], tasks |-> << >>, queue |-> << >>,
            calls |-> << >>, budgets |-> << >>, inbox |-> [o \in Obs |-> "none"],
            codes |-> << >>, sched |-> FALSE, adm |-> "continue", out |-> << >>]
    /\ log = << >> /\ replq = << >> /\ realms = << >> /\ yielded = << >>
    /\ asked = {} /\ caps = {} /\ timers = {} /\ faults = 0 /\ profile \in Profiles

Emit(e, d) == [e EXCEPT !.out = Append(@, d)]
EmitAll(e, ds) == [e EXCEPT !.out = @ \o ds]
(* A code.* event gets the next event id of its session. *)
CodeId(e, s) == IF s \in DOMAIN e.codes THEN e.codes[s] + 1 ELSE 1
EmitCode(e, k, s, y) ==
    Emit([e EXCEPT !.codes = Put(@, s, CodeId(e, s))],
         [k |-> k, s |-> s, id |-> CodeId(e, s), y |-> y,
          rev |-> IF k = "evaluate" THEN e.tasks[s].rev ELSE None])
Close(e, s) == Emit(e, [k |-> "close", s |-> s])
CloseAll(e, S) == EmitAll(e, [i \in 1..Cardinality(S) |->
                                [k |-> "close", s |-> SetToSeq(S)[i]]])
TasksOf(e, o) == {s \in Live(e) : ~IsAssociation(s) /\ JobOf(s) = o}

(* What pushing a message does to the tool history. *)
UserSays(h) == IF h = "open" THEN "bad" ELSE h
ToolSays(h) == IF h = "open" THEN "ok" ELSE "bad"
CloseInterrupted(h) == IF h = "open" THEN "ok" ELSE h

NewTask(rev) ==
    [rev |-> rev, decided |-> rev, cell |-> rev, started |-> FALSE, errors |-> 0,
     compactions |-> 0, compacting |-> FALSE, resource |-> 0, pending |-> None,
     codes |-> {}, yields |-> 0, repeated |-> 0, history |-> "ok"]
Start(e, s) ==
    [e EXCEPT !.tasks = Put(@, s, NewTask(IF HasJob(e, s) THEN e.jobs[JobOf(s)].rev ELSE 0))]

-----------------------------------------------------------------------------
(* sleep: the job parks behind a timer.  Suspension (not a budget pause)   *)
(* closes the sessions and drops the children.                             *)
Sleep(e, s, status) ==
    IF ~HasJob(e, s) THEN e
    ELSE LET o == JobOf(s)
             j == e.jobs[o]
             parked == [e EXCEPT !.jobs[o] =
                          [j EXCEPT !.status = status, !.naps = @ + 1,
                                    !.reason = IF status = "paused-budget" THEN "budget" ELSE "scheduled",
                                    !.wake = [token |-> j.naps + 1, rev |-> j.rev, set |-> FALSE]]]
             set == Emit(parked, [k |-> "timer", o |-> o, token |-> j.naps + 1])
             closed == CloseAll(set, TasksOf(e, o))
             kept == Drop(closed.tasks, TasksOf(e, o) \ {<<o>>})
         IN  IF status = "paused-budget" THEN set
             ELSE [closed EXCEPT
                     !.tasks = [kept EXCEPT ![<<o>>] =
                                  [@ EXCEPT !.pending = None, !.started = FALSE,
                                            !.history = CloseInterrupted(@)]],
                     !.queue = Keep(@, DOMAIN kept)]

(* finish_root: the decision "complete", "fail", "wait-input", "wait-time", *)
(* or an error; a terminal decision removes the root task and its budget.   *)
FinishRootKeepsTask(e, s, decision) ==
    [e EXCEPT !.jobs[JobOf(s)] =
        [@ EXCEPT !.status = IF decision = "complete" THEN "completed" ELSE "failed",
                  !.wake = None, !.reason = None]]
FinishRoot(e, s, decision) ==
    LET o == JobOf(s)
        ended == [e EXCEPT !.jobs[o] =
                    [@ EXCEPT !.status = IF decision = "complete" THEN "completed" ELSE "failed",
                              !.wake = None, !.reason = None]]
    IN  CASE decision = "wait-input" ->
               [e EXCEPT !.jobs[o] = [@ EXCEPT !.status = "waiting-input",
                                               !.reason = "awaiting-user"]]
          [] decision = "wait-time" -> Sleep(e, s, "waiting-time")
          [] OTHER -> Close([ended EXCEPT !.tasks = Drop(@, {s}), !.budgets = Drop(@, {s})], s)

(* finish: an association leaves its observation for input, a root ends its *)
(* job, a child answers the yield it was started for.                       *)
FinishSilent(e, s) ==
    IF s \notin Live(e) THEN e
    ELSE IF IsAssociation(s)
    THEN [e EXCEPT !.tasks = Drop(@, {s}), !.budgets = Drop(@, {s}), !.inbox[JobOf(s)] = "unrouted"]
    ELSE IF ~IsChild(s) THEN FinishRoot(e, s, "fail")
    ELSE Close([e EXCEPT !.tasks = Drop(@, {s})], s)
Finish(e, s) ==
    IF s \notin Live(e) THEN e
    ELSE IF IsAssociation(s)
    THEN [e EXCEPT !.tasks = Drop(@, {s}), !.budgets = Drop(@, {s}),
                   !.inbox[JobOf(s)] = "unrouted"]
    ELSE IF ~IsChild(s) THEN FinishRoot(e, s, "fail")
    ELSE Close(EmitCode([e EXCEPT !.tasks = Drop(@, {s})], "resume", Front(s), Last(s)), s)

(* request, once the call is admitted: the decision is taken at the task's  *)
(* revision, and the context must pass the limits and the history check.    *)
Admit(e, s) ==
    LET r == Root(s)
        n == e.budgets[r] + 1
        call == [root |-> r, cycle |-> IF HasJob(e, s) THEN e.jobs[JobOf(s)].cycle ELSE 0, n |-> n]
        running == [e EXCEPT
            !.budgets[r] = n,
            !.queue = Keep(@, Live(e) \ {s}),
            !.tasks[s].decided = e.tasks[s].rev,
            !.jobs = IF HasJob(e, s) THEN [@ EXCEPT ![JobOf(s)].status = "running"] ELSE @]
        ask(x) == Emit([x EXCEPT !.calls = Put(@, call, s)], [k |-> "ask", call |-> call])
    IN  CASE e.adm = "limit" -> Finish(running, s)
          [] e.adm = "compact" -> ask([running EXCEPT !.tasks[s].compacting = TRUE])
          [] OTHER -> IF e.tasks[s].history # "ok" \/ e.adm = "reject"
                      THEN Finish(running, s)
                      ELSE ask(running)

(* request: one model call at a time; what cannot be asked now is queued.   *)
Request(e, s) ==
    CASE Status(e, s) \in Parked \cup Terminal -> e
      [] Status(e, s) \notin Parked \cup Terminal /\ IsChild(s) /\ e.budgets[Root(s)] >= MaxCalls ->
           Finish(e, s)
      [] OTHER ->
           IF s \in {e.calls[c] : c \in DOMAIN e.calls} THEN e
           ELSE IF ~e.sched \/ e.calls # << >>
           THEN [e EXCEPT !.queue = IF Contains(@, s) THEN @
                                    ELSE IF IsAssociation(s) THEN <<s>> \o @ ELSE Append(@, s)]
           ELSE IF HasJob(e, s) /\ e.jobs[JobOf(s)].old
           THEN IF IsChild(s) THEN Finish(e, s) ELSE Sleep(e, s, "paused-budget")
           ELSE IF e.budgets[Root(s)] >= MaxCalls THEN Sleep(e, s, "paused-budget")
           ELSE Admit(e, s)

(* stalled and correct_control. *)
Stalled(e, s) == IF IsChild(s) THEN Finish(e, s) ELSE FinishRoot(e, s, "fail")
CorrectControlAlways(e, s) == Request([e EXCEPT !.tasks[s].errors = @ + 1], s)
CorrectControl(e, s) ==
    LET wrong == [e EXCEPT !.tasks[s].errors = @ + 1]
    IN  IF wrong.tasks[s].errors < MaxErrors THEN Request(wrong, s)
        ELSE IF IsAssociation(s) THEN Finish(wrong, s) ELSE Stalled(wrong, s)

(* complete_compaction: a valid summary replaces the messages.              *)
CompleteCompaction(e, s, valid) ==
    LET n == e.tasks[s].compactions + 1
        done == [e EXCEPT !.tasks[s] =
                   [@ EXCEPT !.compacting = FALSE, !.compactions = IF valid THEN 0 ELSE n,
                             !.history = IF valid THEN "ok" ELSE @]]
    IN  IF ~valid /\ n >= MaxErrors
        THEN Finish([e EXCEPT !.tasks[s].compacting = FALSE], s)
        ELSE Request(done, s)

(* create_job *)
CreateJob(e, o) ==
    LET made == [e EXCEPT !.inbox[o] = "incorporated",
                          !.jobs[o] = [NoJob EXCEPT !.status = "runnable"],
                          !.budgets = Put(@, <<o>>, 0)]
    IN  Request(Start(made, <<o>>), <<o>>)

(* associate: an amendment or a cancellation bumps the job's revision,      *)
(* interrupts its cells and drops its children.                             *)
Associate(e, obs, o, cancel) ==
    IF ~Exists(e, o) THEN [e EXCEPT !.inbox[obs] = "unrouted"]
    ELSE IF e.jobs[o].status \in Terminal THEN e
    ELSE LET rev == e.jobs[o].rev + 1
             mine == TasksOf(e, o)
             bumped == [e EXCEPT
                 !.jobs[o] = [@ EXCEPT !.rev = rev, !.reason = None, !.wake = None,
                                       !.status = IF cancel THEN "cancelled" ELSE "runnable"],
                 !.inbox[obs] = "incorporated"]
             closed == CloseAll(bumped, mine)
             root == [e.tasks[<<o>>] EXCEPT !.rev = rev, !.errors = 0, !.pending = None,
                        !.started = FALSE, !.history = UserSays(CloseInterrupted(@))]
             kept == Drop(closed.tasks, mine \ (IF cancel THEN {} ELSE {<<o>>}))
             amended == [closed EXCEPT !.tasks = [kept EXCEPT ![<<o>>] = root]]
         IN  IF cancel THEN [closed EXCEPT !.tasks = kept, !.queue = Keep(@, DOMAIN kept)]
             ELSE IF <<o>> \in {e.calls[c] : c \in DOMAIN e.calls} THEN amended
             ELSE Request(amended, <<o>>)

(* routing_context: the jobs a message may be associated with.              *)
AutomaticallyRoutable(e, o) ==
    /\ Exists(e, o) /\ e.jobs[o].status \notin Terminal
    /\ ~(e.jobs[o].status = "waiting-input" /\ e.jobs[o].reason = "provider-error")
Clarifying(e) == {o \in Obs : e.inbox[o] = "clarify"}

OnObservation(e, o, job) ==
    LET seen == [e EXCEPT !.inbox[o] = "pending"]
        s == <<o, 0>>
    IN  IF e.inbox[o] # "none" THEN e
        ELSE IF job # None THEN Associate(seen, o, job, FALSE)
        ELSE IF (\A j \in Obs : ~AutomaticallyRoutable(seen, j)) /\ Clarifying(seen) = {}
        THEN CreateJob(seen, o)
        ELSE Request(Start([seen EXCEPT !.budgets = Put(@, s, 0)], s), s)

(* recover_resource_job: the task starts over from its checkpoint, at most  *)
(* MaxResource times.                                                       *)
RecoverResource(e, s) ==
    IF s \notin Live(e) THEN e
    ELSE LET n == e.tasks[s].resource + 1
             lost == [e EXCEPT
                 !.tasks[s] = [@ EXCEPT !.resource = n, !.started = FALSE, !.pending = None,
                                        !.compacting = FALSE, !.history = "ok"],
                 !.calls = Drop(@, {c \in DOMAIN @ : @[c] = s})]
             runnable == [lost EXCEPT !.jobs = IF HasJob(e, s)
                            THEN [@ EXCEPT ![JobOf(s)] = [@ EXCEPT !.status = "runnable", !.reason = None]]
                            ELSE @]
         IN  IF n > MaxResource
             THEN IF IsChild(s) \/ IsAssociation(s) THEN Finish(lost, s) ELSE FinishRoot(lost, s, "fail")
             ELSE Request(Close(runnable, s), s)

-----------------------------------------------------------------------------
(* model.completed / model.failed for an association task.                  *)
OnAssociation(e, s, answer) ==
    LET obs == JobOf(s)
        routed == [e EXCEPT !.tasks = Drop(@, {s}), !.budgets = Drop(@, {s})]
        toJob == answer.action \in {"amend", "cancel"}
        valid == /\ answer.action # "invalid"
                 /\ answer.resolves # None =>
                      /\ answer.action # "clarify" /\ e.inbox[answer.resolves] = "clarify"
                 /\ toJob => answer.job # None /\ AutomaticallyRoutable(e, answer.job)
        resolved == IF answer.resolves = None THEN routed
                    ELSE [routed EXCEPT !.inbox[answer.resolves] = "incorporated",
                            !.tasks = IF toJob
                                      THEN [@ EXCEPT ![<<answer.job>>].history = UserSays(@)] ELSE @]
    IN  CASE answer.action = "failed" -> Finish(e, s)
          [] answer.action # "failed" /\ ~valid -> CorrectControl(e, s)
          [] OTHER -> CASE answer.action = "new" -> CreateJob(resolved, obs)
                        [] toJob -> Associate(resolved, obs, answer.job, answer.action = "cancel")
                        [] OTHER -> [resolved EXCEPT !.inbox[obs] = "clarify"]

(* model.failed for a root or child task. *)
OnModelFailed(e, s, unknown) ==
    LET o == JobOf(s)
    IN  IF s \notin Live(e) THEN e
        ELSE IF unknown
        THEN [e EXCEPT !.jobs[o] = [@ EXCEPT !.status = "waiting-input", !.reason = "provider-error"]]
        ELSE IF e.jobs[o].retry < MaxRetries /\ ~IsChild(s)
        THEN LET slept == Sleep([e EXCEPT !.jobs[o].retry = @ + 1], s, "waiting-time")
             IN  [slept EXCEPT !.jobs[o].reason = "provider-error"]
        ELSE Finish(e, s)

(* validate_control: a child may only yield a result.                       *)
Refused(s) == {"invalid", "compact"} \cup
              IF IsChild(s) THEN {"fail", "wait-input", "wait-time"} ELSE {}

(* model.completed for a root or child task: one js cell or one yield.      *)
OnDecision(e, s, answer) ==
    LET t == e.tasks[s]
        fresh == [e EXCEPT !.tasks[s] =
                    [@ EXCEPT !.errors = 0, !.codes = {}, !.started = TRUE, !.cell = t.rev,
                              !.yields = 0, !.history = "open"]]
    IN  CASE t.compacting -> CompleteCompaction(e, s, answer = "compact")
          [] ~t.compacting /\ answer \in Refused(s) -> CorrectControl(e, s)
          [] ~t.compacting /\ answer = "again" /\ t.resource > 0 /\ ~t.started -> CorrectControl(e, s)
          [] OTHER ->
               IF answer \in {"js", "again"} THEN EmitCode(fresh, "evaluate", s, t.started)
               ELSE IF IsChild(s) THEN Finish([e EXCEPT !.tasks[s].errors = 0], s)
               ELSE FinishRoot([e EXCEPT !.tasks[s].errors = 0], s, answer)

OnModel(e, ev) ==
    LET s == e.calls[ev.call]
        taken == [e EXCEPT !.calls = Drop(@, {ev.call})]
        stale == s \in Live(e) /\ (\/ e.tasks[s].rev # e.tasks[s].decided
                                   \/ \E o \in Obs : e.inbox[o] = "pending")
    IN  IF ev.call \notin DOMAIN e.calls THEN e
        ELSE IF IsAssociation(s) /\ s \in Live(e) THEN OnAssociation(taken, s, ev.answer)
        ELSE IF stale THEN [taken EXCEPT !.queue = IF Contains(@, s) THEN @ ELSE Append(@, s),
                                         !.tasks[s].history = UserSays(@)]
        ELSE IF ev.answer \in {"failed", "unknown"}
        THEN OnModelFailed(taken, s, ev.answer = "unknown")
        ELSE IF s \notin Live(e) THEN taken
        ELSE OnDecision(taken, s, ev.answer)

(* code.completed / code.failed: the cell's result feeds the next request.  *)
OnCode(e, ev) ==
    LET s == ev.s
        t == e.tasks[s]
        resource == ev.result = "resource"
        lost == ev.result \in {"resource", "lost"}
        n == IF resource THEN t.resource + 1 ELSE t.resource
        again == IF t.yields = 0 /\ ev.same THEN t.repeated + 1 ELSE 1
        told == [e EXCEPT !.tasks[s] =
                   [@ EXCEPT !.codes = {}, !.resource = n,
                             !.started = IF lost THEN FALSE ELSE @,
                             !.pending = IF lost THEN None ELSE @]]
        counted == [told EXCEPT !.tasks[s].repeated = again]
    IN  IF \/ s \notin Live(e) \/ t.cell # t.rev \/ ev.rev \notin {None, t.rev}
           \/ (resource /\ ev.id \notin t.codes)
        THEN e
        ELSE IF n > MaxResource /\ resource
        THEN IF IsChild(s) THEN Finish(told, s) ELSE FinishRoot(told, s, "fail")
        ELSE IF again >= MaxErrors THEN Stalled(counted, s)
        ELSE Request([counted EXCEPT !.tasks[s].history = ToolSays(@)], s)

(* code.yielded: a child query, a capability, history (answered by the      *)
(* component's event log binding) or a refusal.                             *)
ChildRefused(e, s) ==
    \/ Cardinality({x \in Live(e) : IsChild(x)}) >= MaxChildren
    \/ Len(s) - 1 >= MaxDepth
OnYield(e, ev) ==
    LET s == ev.s
        t == e.tasks[s]
        counted == [e EXCEPT !.tasks[s].yields = @ + 1]
        child == Append(s, ev.y)
        refused == EmitCode(counted, "resume", s, ev.y)
    IN  IF s \notin Live(e) \/ t.cell # t.rev THEN e
        ELSE IF t.yields + 1 > MaxYields THEN refused
        ELSE CASE ev.method = "query" ->
                    IF ChildRefused(e, s) THEN refused ELSE Request(Start(counted, child), child)
               [] ev.method = "capability" /\ Len(s) = 1 ->
                    Emit([counted EXCEPT !.tasks[s].pending =
                            [y |-> ev.y, rev |-> t.rev, request |-> None]],
                         [k |-> "invoke", s |-> s, id |-> ev.id])
               [] OTHER -> refused

(* capability.requested and its results. *)
OnInvokeForgets(e, ev) ==
    IF ev.s \in Live(e) /\ e.tasks[ev.s].pending # None
    THEN [e EXCEPT !.jobs[JobOf(ev.s)].status = "waiting-activity"] ELSE e
OnInvoke(e, ev) ==
    IF ev.s \in Live(e) /\ e.tasks[ev.s].pending # None
    THEN [e EXCEPT !.tasks[ev.s].pending.request = ev.id,
                   !.jobs[JobOf(ev.s)].status = "waiting-activity"]
    ELSE e
OnCapability(e, ev) ==
    LET o == JobOf(ev.s)
        s == ev.s
        awaited == s \in Live(e) /\ e.tasks[s].pending # None /\ e.tasks[s].pending.request = ev.id
        answered == [e EXCEPT !.tasks[s].pending = None,
                              !.jobs[o] = [@ EXCEPT !.status = "runnable", !.reason = None]]
    IN  CASE ~awaited -> e
          [] awaited /\ ev.result = "unknown" ->
               Close([answered EXCEPT !.jobs[o] = [@ EXCEPT !.status = "waiting-input",
                                                            !.reason = "provider-error"]], s)
          [] OTHER -> EmitCode(answered, "resume", s, e.tasks[s].pending.y)

(* timer.set records the request of the job's wake; timer.fired wakes it.   *)
OnTimerSet(e, ev) ==
    LET w == e.jobs[ev.o].wake
    IN  IF w # None /\ w.token = ev.token THEN [e EXCEPT !.jobs[ev.o].wake.set = TRUE] ELSE e
Sleeping == {"waiting-time", "paused-budget"}
OnTimerFired(e, ev) ==
    LET o == ev.o
        j == e.jobs[o]
        renewed == j.old \/ e.budgets[<<o>>] >= MaxCalls
        awake == [e EXCEPT
            !.jobs[o] = [@ EXCEPT !.wake = None, !.status = "runnable", !.reason = None,
                                  !.old = FALSE, !.cycle = IF renewed THEN @ + 1 ELSE @],
            !.budgets = IF renewed THEN [@ EXCEPT ![<<o>>] = 0] ELSE @]
    IN  IF j.wake = None \/ ~j.wake.set \/ j.wake.token # ev.token \/ j.wake.rev # j.rev THEN e
        ELSE IF j.status \notin Sleeping THEN [e EXCEPT !.jobs[o].wake = None]
        ELSE Request(awake, <<o>>)

(* operator.job-control: cancel, or resume of a parked job without          *)
(* unresolved activities, at the revision the operator saw.                 *)
OnOperator(e, ev) ==
    LET o == ev.o
        j == e.jobs[o]
        cancel == ev.k = "cancel"
        mine == TasksOf(e, o)
        root == [e.tasks[<<o>>] EXCEPT !.rev = j.rev + 1, !.pending = None,
                                       !.started = FALSE, !.errors = 0]
        bumped == [e EXCEPT
            !.jobs[o] = [@ EXCEPT !.rev = @ + 1, !.reason = None, !.wake = None,
                                  !.status = IF cancel THEN "cancelled" ELSE "runnable"],
            !.calls = Drop(@, {c \in DOMAIN @ : @[c] \in mine}),
            !.tasks = IF cancel THEN Drop(@, mine)
                      ELSE [Drop(@, mine \ {<<o>>}) EXCEPT ![<<o>>] = root]]
        closed == CloseAll([bumped EXCEPT !.queue = Keep(@, Live(bumped))], mine)
        refused == \/ j.status \in Terminal \cup {"none"} \/ ev.rev # j.rev
                   \/ ~cancel /\ (\/ <<o>> \notin Live(e) \/ j.unresolved # {}
                                  \/ j.status \notin Parked \cup {"waiting-activity"})
    IN  IF refused THEN e
        ELSE IF cancel THEN closed
        ELSE [Request([closed EXCEPT !.sched = TRUE], <<o>>) EXCEPT !.sched = FALSE]

(* A result marked outcome-unknown leaves its activity unresolved until the *)
(* operator reconciles it.                                                  *)
NoteUnresolved(e, o, id) ==
    IF Exists(e, o) THEN [e EXCEPT !.jobs[o].unresolved = @ \cup {id}] ELSE e
NoteResult(e, ev) ==
    CASE ev.k = "model" /\ ~IsAssociation(ev.call.root) /\ ev.answer = "unknown" ->
           NoteUnresolved(e, JobOf(ev.call.root), ev.call)
      [] ev.k = "capability" /\ ev.result = "unknown" ->
           NoteUnresolved(e, JobOf(ev.s), <<ev.s, ev.id>>)
      [] OTHER -> e
(* operator.attempt-reconciled *)
Reconcile(e, ev) ==
    [e EXCEPT !.jobs = [o \in Obs |-> [@[o] EXCEPT !.unresolved = @ \ {ev.id}]]]

(* code.evaluate-requested, code.yielded and code.resumed name the cell's   *)
(* current event as long as the cell belongs to the task's revision.        *)
NoteCode(e, ev) ==
    IF ev.k \in {"evaluate", "resume", "yield"} /\ ev.s \in Live(e)
       /\ e.tasks[ev.s].cell = e.tasks[ev.s].rev
    THEN [e EXCEPT !.tasks[ev.s].codes =
            IF ev.k = "evaluate" THEN {ev.id} ELSE {Min(@ \cup {ev.id}), ev.id}]
    ELSE e

(* recover_resource_job finds the session from the deferred input: a new    *)
(* observation is taken in first, a model answer names its call.            *)
OnExhausted(e, input) ==
    LET taken == CASE input.k # "observation" -> e
                   [] OTHER -> [OnObservation(e, input.o, input.job) EXCEPT !.out = e.out]
        o == input.o
        session(x) ==
            CASE input.k = "observation" -> IF <<o>> \in Live(x) THEN <<o>> ELSE <<o, 0>>
              [] input.k = "model" -> IF input.call \in DOMAIN e.calls THEN e.calls[input.call] ELSE << >>
              [] input.k = "timer" -> <<o>>
              [] input.k \in {"code", "yield", "evaluate", "resume", "close", "invoke"} -> input.s
              [] OTHER -> << >>
        recovered(x) == RecoverResource(x, session(x))
    IN  IF input.k = "observation" /\ e.inbox[o] # "none" THEN e ELSE recovered(taken)

HandleEvent(e, ev) ==
    CASE ev.k = "observation" -> OnObservation(e, ev.o, ev.job)
      [] ev.k = "model" -> OnModel(e, ev)
      [] ev.k = "code" -> OnCode(e, ev)
      [] ev.k = "yield" -> OnYield(e, ev)
      [] ev.k = "invoke" -> OnInvoke(e, ev)
      [] ev.k = "capability" -> OnCapability(e, ev)
      [] ev.k = "timer" -> OnTimerSet(e, ev)
      [] ev.k = "fired" -> OnTimerFired(e, ev)
      [] ev.k = "exhausted" -> OnExhausted(e, ev.input)
      [] OTHER -> e

(* The tail of event: while no call is out, ask for the queued sessions; a  *)
(* head without a task stays and stops the scan.                            *)
DrainQueueNever(e) == e
DrainQueue(e) ==
    LET step(x) ==
          IF x.calls # << >> \/ x.queue = << >> \/ Head(x.queue) \notin Live(x) THEN x
          ELSE [Request([x EXCEPT !.queue = Tail(@), !.sched = TRUE], Head(x.queue))
                  EXCEPT !.sched = FALSE]
        after[n \in 0..Len(e.queue)] == IF n = 0 THEN e ELSE step(after[n - 1])
    IN  after[Len(e.queue)]

Event(e, ev) ==
    CASE ev.k \in {"cancel", "resume-job"} -> OnOperator(e, ev)
      [] ev.k = "reconciled" -> Reconcile(e, ev)
      [] OTHER -> DrainQueue(HandleEvent(NoteResult(NoteCode(e, ev), ev), ev))

-----------------------------------------------------------------------------
(* One delivery: the engine is loaded, with the queued sessions that still  *)
(* have a task, takes a batch in order, and what it emits is committed with *)
(* its cursor and comes back through the log.  Of a closed session only the *)
(* event's arrival matters, and only while a session is queued.             *)
Handle ==
    \E n \in 1..Min({Len(log), MaxBatch}) : \E adm \in [1..n -> profile.admissions] :
         LET loaded == [E EXCEPT !.queue = Keep(@, Live(E))]
             after[i \in 0..n] == IF i = 0 THEN loaded
                                  ELSE Event([after[i - 1] EXCEPT !.adm = adm[i]], log[i])
         IN  \E e \in {after[n]} :
             LET drafts(K) == SelectSeq(e.out, LAMBDA d : d.k \in K)
                 all(k) == {e.out[i] : i \in {m \in DOMAIN e.out : e.out[m].k = k}}
             IN  /\ E' = [e EXCEPT !.out = << >>, !.adm = "continue"]
                 /\ log' = SubSeq(log, n + 1, Len(log)) \o drafts(
                             {"evaluate", "resume", "invoke", "timer"} \cup
                             IF e.queue = << >> THEN {} ELSE {"close"})
                 /\ replq' = replq \o drafts({"evaluate", "resume", "close"})
                 /\ asked' = asked \cup {d.call : d \in all("ask")}
                 /\ caps' = caps \cup {[s |-> d.s, id |-> d.id] : d \in all("invoke")}
                 /\ timers' = timers \cup {[o |-> d.o, token |-> d.token] : d \in all("timer")}
                 /\ UNCHANGED <<realms, yielded, faults, profile>>

(* A connector records a message of the conversation. *)
Observe(o) ==
    /\ o \in profile.obs /\ E.inbox[o] = "none"
    /\ \A i \in DOMAIN log : log[i].k \in {"observation", "exhausted"} =>
          o # (IF log[i].k = "observation" THEN log[i].o
               ELSE IF log[i].input.k = "observation" THEN log[i].input.o ELSE None)
    /\ \E job \in {None} \cup (IF profile.explicit THEN Obs ELSE {}) :
         log' = Append(log, [k |-> "observation", o |-> o, job |-> job])
    /\ UNCHANGED <<E, env>>

(* The model provider answers a call. *)
AnswerModel(call) ==
    /\ call \in asked
    /\ asked' = asked \ {call}
    /\ \E answer \in
         IF IsAssociation(call.root)
         THEN [action : profile.routes \ {"amend", "cancel", "resolve"}, job : {None},
               resolves : {None} \cup IF "resolve" \in profile.routes THEN Clarifying(E) ELSE {}]
              \cup [action : profile.routes \cap {"amend", "cancel"}, job : {o \in Obs : Exists(E, o)},
                    resolves : {None} \cup IF "resolve" \in profile.routes THEN Clarifying(E) ELSE {}]
         ELSE profile.answers :
         log' = Append(log, [k |-> "model", call |-> call, answer |-> answer])
    /\ UNCHANGED <<E, replq, realms, yielded, caps, timers, faults, profile>>

(* A capability provider answers; an unknown outcome is a fault. *)
AnswerCapability(c) ==
    /\ c \in caps
    /\ caps' = caps \ {c}
    /\ \E result \in {"ok"} \cup ({"unknown"} \cap profile.faults) :
         log' = Append(log, [k |-> "capability", s |-> c.s, id |-> c.id, result |-> result])
    /\ UNCHANGED <<E, replq, realms, yielded, asked, timers, faults, profile>>

Fire(t) ==
    /\ t \in timers
    /\ E.jobs[t.o].cycle < profile.cycles
    /\ timers' = timers \ {t}
    /\ log' = Append(log, [k |-> "fired", o |-> t.o, token |-> t.token])
    /\ UNCHANGED <<E, replq, realms, yielded, asked, caps, faults, profile>>

(* Thirty minutes pass since the job's cycle began. *)
Age(o) ==
    /\ "age" \in profile.faults /\ faults < profile.max /\ faults' = faults + 1
    /\ Exists(E, o) /\ ~E.jobs[o].old
    /\ E' = [E EXCEPT !.jobs[o].old = TRUE]
    /\ UNCHANGED <<log, replq, realms, yielded, asked, caps, timers, profile>>

-----------------------------------------------------------------------------
(* The REPL. *)
CodeResult(s, id, rev, result, same) ==
    [k |-> "code", s |-> s, id |-> id, rev |-> rev, result |-> result, same |-> same]
Answer(ev, result, same) ==
    /\ log' = Append(log, CodeResult(ev.s, ev.id, ev.rev, result, same))
    /\ yielded' = Drop(yielded, {ev.s})
    /\ E' = E

(* step: run the cell until it asks the host for something or ends.  The    *)
(* realm hands out its requests one at a time and numbers them itself.      *)
RunCell(ev, realm) ==
    \/ \E method \in profile.cells \cap {"query", "capability", "history"} :
         /\ realm.n < MaxSteps
         /\ realms' = Put(realms, ev.s, [n |-> realm.n + 1, cell |-> "waiting"])
         /\ E' = [E EXCEPT !.codes = Put(@, ev.s, CodeId(E, ev.s))]
         /\ log' = Append(log, [k |-> "yield", s |-> ev.s, id |-> CodeId(E, ev.s), y |-> realm.n + 1,
                                method |-> method])
         /\ yielded' = Put(yielded, ev.s, CodeId(E, ev.s))
    \/ \E end \in profile.cells \cap {"done", "same", "error"} :
         /\ realms' = Put(realms, ev.s, [realm EXCEPT !.cell = "idle"])
         /\ Answer(ev, IF end = "error" THEN "error" ELSE "done", end = "same")
    \/ /\ "hang" \in profile.cells
       /\ realms' = Put(realms, ev.s, [realm EXCEPT !.cell = "hung"])
       /\ Answer(ev, "error", FALSE)

StartCell(ev) ==
    \/ /\ E.jobs[JobOf(ev.s)].rev # ev.rev      \* rejected or cancelled by the dispatcher
       /\ Answer(ev, "error", FALSE) /\ UNCHANGED realms
    \/ /\ E.jobs[JobOf(ev.s)].rev = ev.rev
       /\ \/ /\ ev.s \in DOMAIN realms /\ realms[ev.s].cell = "idle"
             /\ RunCell(ev, realms[ev.s])
          \/ /\ ev.s \in DOMAIN realms /\ realms[ev.s].cell # "idle"
             /\ Answer(ev, "error", FALSE) /\ UNCHANGED realms
          \/ /\ ev.s \notin DOMAIN realms
             /\ RunCell(ev, [n |-> 0, cell |-> "idle"])
          \/ /\ ev.s \notin DOMAIN realms /\ ev.y    \* requiresSession and no checkpoint
             /\ Answer(ev, "lost", FALSE) /\ UNCHANGED realms

ResumeCell(ev) ==
    \/ /\ ev.s \in DOMAIN realms
       /\ realms[ev.s].cell = "waiting" /\ realms[ev.s].n = ev.y
       /\ RunCell(ev, realms[ev.s])
    \/ /\ ev.s \in DOMAIN realms
       /\ ~(realms[ev.s].cell = "waiting" /\ realms[ev.s].n = ev.y)
       /\ Answer(ev, "error", FALSE) /\ UNCHANGED realms
    \/ /\ ev.s \notin DOMAIN realms
       /\ Answer(ev, "lost", FALSE) /\ UNCHANGED realms

ReplStep ==
    /\ replq # << >>
    /\ replq' = Tail(replq)
    /\ LET ev == Head(replq)
       IN  CASE ev.k = "close" -> realms' = Drop(realms, {ev.s}) /\ UNCHANGED <<E, log, yielded>>
             [] ev.k = "evaluate" -> StartCell(ev)
             [] ev.k = "resume" -> ResumeCell(ev)
    /\ UNCHANGED <<asked, caps, timers, faults, profile>>

(* The REPL traps or exhausts its memory, possibly on the delivery it is    *)
(* handling: every realm is gone, and fail_sessions answers each session    *)
(* that yielded last, and the delivery's.                                   *)
LoseRepl(result) ==
    /\ result \in profile.faults /\ faults < profile.max /\ faults' = faults + 1
    /\ DOMAIN realms # {}
    /\ realms' = << >>
    /\ \E n \in {0} \cup {1 : i \in DOMAIN replq} :
         LET batch == {i \in 1..n : replq[i].k # "close"}
             pending == [s \in DOMAIN yielded \cup {replq[i].s : i \in batch} |->
                           IF \E i \in batch : replq[i].s = s
                           THEN (CHOOSE i \in batch : replq[i].s = s) ELSE 0]
             order == SetToSeq(DOMAIN pending)
             failure(s) == IF pending[s] = 0 THEN CodeResult(s, yielded[s], None, result, FALSE)
                           ELSE CodeResult(s, replq[pending[s]].id, replq[pending[s]].rev, result, FALSE)
         IN  /\ log' = log \o [i \in DOMAIN order |-> failure(order[i])]
             /\ replq' = SubSeq(replq, n + 1, Len(replq))
    /\ yielded' = << >>
    /\ UNCHANGED <<E, asked, caps, timers, profile>>

(* Cognition exhausts its memory on an input: the host skips the input and  *)
(* records cognition.resource-exhausted in its place.                       *)
Defer ==
    /\ "defer" \in profile.faults /\ faults < profile.max /\ faults' = faults + 1
    /\ log # << >> /\ Head(log).k # "exhausted"
    /\ log' = Append(Tail(log), [k |-> "exhausted", input |-> Head(log)])
    /\ UNCHANGED <<E, replq, realms, yielded, asked, caps, timers, profile>>

(* The operator cancels or resumes a job at the revision shown, or          *)
(* reconciles an unresolved activity.                                       *)
Operate(o) ==
    /\ faults < profile.max /\ faults' = faults + 1
    /\ Exists(E, o) /\ E.jobs[o].rev < MaxRev
    /\ \/ \E k \in profile.faults \cap {"cancel", "resume-job"} :
            log' = Append(log, [k |-> k, o |-> o, rev |-> E.jobs[o].rev])
       \/ \E id \in E.jobs[o].unresolved : log' = Append(log, [k |-> "reconciled", id |-> id])
    /\ UNCHANGED <<E, replq, realms, yielded, asked, caps, timers, profile>>

Next ==
    \/ Handle \/ ReplStep \/ Defer
    \/ \E o \in Obs : Observe(o) \/ Age(o) \/ Operate(o)
    \/ \E call \in asked : AnswerModel(call)
    \/ \E c \in caps : AnswerCapability(c)
    \/ \E t \in timers : Fire(t)
    \/ \E result \in {"lost", "resource"} : LoseRepl(result)

Spec == Init /\ [][Next]_vars

(* Cognition and the REPL are driven by the host's loop, and the host gives *)
(* every model call, capability request and timer an outcome.  The first    *)
(* conjunct is WF_vars(Handle): Handle is enabled while the log is not      *)
(* empty, and a delivery always moves the log.                              *)
Fairness ==
    /\ []<>(log = << >>) \/ []<><<Handle>>_vars
    /\ WF_vars(ReplStep)
    /\ WF_vars(\E call \in asked : AnswerModel(call))
    /\ WF_vars(\E c \in caps : AnswerCapability(c))
    /\ WF_vars(\E t \in timers : Fire(t))
FairSpec == Spec /\ Fairness

-----------------------------------------------------------------------------
(* The unwraps of the engine never fail: a job that has not ended has its   *)
(* root task and its budget, a job that has ended has neither, and a job    *)
(* with a wake has not ended (timer.fired, associate, finish_root, sleep    *)
(* and request index tasks and budgets without a check).                    *)
JobHasRootTask ==
    \A o \in Obs : LET j == E.jobs[o] IN
        /\ Exists(E, o) /\ j.status \notin Terminal => {<<o>>} \subseteq Live(E) \cap DOMAIN E.budgets
        /\ j.status \in Terminal => <<o>> \notin Live(E) /\ j.wake = None
        /\ ~Exists(E, o) => TasksOf(E, o) = {}

(* Something will reach the engine about session s. *)
InFlight(s) ==
    \/ \E i \in DOMAIN log : \/ log[i].k \in {"code", "yield", "evaluate", "resume", "invoke", "capability"}
                                /\ log[i].s = s
                             \/ log[i].k = "model" /\ log[i].call \in DOMAIN E.calls
                                /\ E.calls[log[i].call] = s
                             \/ log[i].k = "exhausted"
    \/ \E i \in DOMAIN replq : replq[i].k # "close" /\ replq[i].s = s
    \/ \E c \in asked : c \in DOMAIN E.calls /\ E.calls[c] = s
    \/ \E c \in caps : c.s = s
    \/ Contains(E.queue, s)

(* A parked job will be woken: its wake has a timer that is set or firing   *)
(* (unless the host took the timer's event for a deferred input).           *)
SleeperHasTimer ==
    \A o \in Obs : E.jobs[o].status \in {"waiting-time", "paused-budget"} /\ "defer" \notin profile.faults =>
        LET w == E.jobs[o].wake IN
        /\ w # None /\ w.rev = E.jobs[o].rev
        /\ \/ [o |-> o, token |-> w.token] \in timers
           \/ \E i \in DOMAIN log : log[i].k = "fired" /\ log[i].o = o /\ log[i].token = w.token
        /\ w.set \/ \E i \in DOMAIN log : log[i].k = "timer" /\ log[i].o = o /\ log[i].token = w.token

(* No lost wake-up: a job that is runnable, running or waiting for an       *)
(* activity has a result on the way, a queued session or a child that has,  *)
(* and a parked job has its timer (finish, finish_root, sleep).             *)
JobIsDriven ==
    /\ \A o \in Obs : E.jobs[o].status \in {"runnable", "running", "waiting-activity"} =>
          \E s \in TasksOf(E, o) : InFlight(s)
    /\ SleeperHasTimer

(* The queue is served: while no model call is out and a live session is    *)
(* queued, another event is on its way to the engine.                       *)
QueueIsServed ==
    E.calls = << >> /\ Keep(E.queue, Live(E)) # << >> =>
        log # << >> \/ replq # << >> \/ asked # {} \/ caps # {}

(* An operator's resume continues the job: it must not end the job it was   *)
(* accepted for (operator_control leaves an interrupted cell's tool call    *)
(* open, and valid_tool_history then fails the job).                        *)
ResumeContinues ==
    [][\A o \in Obs :
         log # << >> /\ log[1].k = "resume-job" /\ log[1].o = o /\ E'.jobs[o].rev > E.jobs[o].rev
            => E'.jobs[o].status # "failed"]_vars

(* Every observation is routed: into a job, into a question, or to the      *)
(* operator's attention; none stays pending.                                *)
EveryObservationRouted ==
    \A o \in Obs : E.inbox[o] = "pending" ~> E.inbox[o] # "pending"

(* No job runs forever on its own: with a bounded number of calls in a      *)
(* cycle, every job that is working ends, or parks behind a timer or the    *)
(* user.                                                                    *)
JobSettles ==
    \A o \in Obs : E.jobs[o].status \in {"runnable", "running", "waiting-activity"}
                      ~> E.jobs[o].status \in Terminal \cup Parked
=============================================================================
