------------------------------ MODULE Dispatch ------------------------------
(***************************************************************************)
(* The agent loop and its router (crates/pluribus-cognition: agent.rs,     *)
(* dispatch.rs): how a requested effect is gated against authority,        *)
(* admitted, executed by a provider, cancelled, interrupted, and answered. *)
(*                                                                         *)
(* One pass of the loop collects finished workers, gates one page of new   *)
(* requests, and delivers the next pending event to every idle provider.   *)
(* Whatever a pass writes is a list of appends with an await after each:   *)
(* "act" holds the ones still to do, and the process may die before any of *)
(* them.  The appends deduplicate on a key per request and kind, so each   *)
(* kind is a set of requests here, and the first policy decision stays.    *)
(* The transaction that moves a cursor is atomic (module Delivery).        *)
(*                                                                         *)
(* Several processes may run the same agent on one database: the CLI takes *)
(* no lock.                                                                *)
(***************************************************************************)
EXTENDS Integers, Sequences, FiniteSets

CONSTANTS Agents,       \* processes running this agent
          Providers,    \* component instances outside cognition
          Requests,     \* effects cognition will ask for
          Route,        \* Route[r]: the provider of r's capability or model
          Models,       \* model.requested; the rest are capability.requested
          Inherent,     \* capabilities declared inherently idempotent
          Deadlines,    \* requests that carry a deadline
          Revisable,    \* requests that name a job and its revision
          Cancellable,  \* requests that cognition may ask to cancel
          Mixed,        \* providers that also subscribe to events of another type
          Policies,     \* configurations an operator may start the agent with
          Batch,        \* requests per gate page
          MaxWorkers,   \* capability workers at a time
          Traps,        \* may a provider trap?
          MaxNotes,     \* bound: events of another type
          MaxObservations,  \* bound: observations
          MaxCrashes    \* bound: process deaths

None == "none"

ASSUME DispatchAssumption ==
    /\ None \notin Requests \cup Providers
    /\ Route \in [Requests -> Providers]
    /\ Models \subseteq Requests /\ Inherent \subseteq Requests \ Models
    /\ Deadlines \subseteq Requests /\ Revisable \subseteq Requests
    /\ Cancellable \subseteq Requests
    /\ Mixed \subseteq Providers
    /\ Policies \subseteq [Requests -> {"allow", "deny", "unresolved"}]
    /\ Batch \in Nat \ {0} /\ MaxWorkers \in Nat \ {0}
    /\ Traps \in BOOLEAN /\ MaxNotes \in Nat
    /\ MaxObservations \in Nat /\ MaxCrashes \in Nat

VARIABLES
  \* the database
    log, cursor, decided, attempted, unknown, terminals, failed, backoff,
  \* the world
    overdue, stale, observed, consumed,
  \* one process
    pc, policy, present, gated, page, todo, act, ckpt, worker, cancelled,
  \* history
    runs, crashes

store   == <<log, cursor, decided, attempted, unknown, terminals, failed, backoff>>
world   == <<overdue, stale, observed, consumed>>
loop    == <<pc, policy, present, gated, page, todo>>
volatile == <<loop, act, ckpt, worker, cancelled>>
vars    == <<store, world, volatile, runs, crashes>>

Terminal == {"denied", "timed-out", "cancelled", "interrupted", "completed"}

(* A quarantine, of a call that is settled or idempotent, or of another.   *)
(* The cursor moves when the source task has not ended yet.                *)
Ends          == {<<"fail">>, <<"fail", "skip">>}
UncertainEnds == {<<"unknown", "interrupted", "fail">>,
                  <<"unknown", "interrupted", "fail", "skip">>}

(* The appends a handler may have left to do.                              *)
Plans == {<<"allow">>, <<"refuse", "denied">>, <<"denied">>,
          <<"timed-out", "skip">>, <<"denied", "skip">>,
          <<"attempt", "spawn">>, <<"spawn">>, <<"skip">>,
          <<"unknown", "interrupted", "skip">>, <<"interrupted", "skip">>,
          <<"cancelled", "restart", "skip">>, <<"restart", "skip">>,
          <<"cancelled", "skip", "recovered">>, <<"skip", "recovered">>, <<"recovered">>,
          <<"interrupted", "fail">>, <<"interrupted", "fail", "skip">>}
         \cup Ends \cup UncertainEnds

(* A stream event the loop reads: a request, a cancellation, or an event   *)
(* that provider "to" subscribes to.                                       *)
Item == [kind : {"request", "cancel", "note"}, req : Requests \cup {None},
         to : Providers \cup {None}]

(* The appends a handler still has to do, about the item at a position.    *)
Act   == [p : Providers, at : Nat, req : Requests \cup {None}, steps : Plans]
NoAct == [p |-> None, at |-> 0, req |-> None, steps |-> <<>>]

(* The failure on record, and the positions one was ever recorded for.     *)
Failure == [at : Nat, req : Requests \cup {None}, cancel : BOOLEAN, seen : SUBSET Nat]

Phases == {"running", "ran", "done", "failed", "trapped"}
Worker == [at : Nat, req : Requests \cup {None}, phase : Phases]
NoWorker == [at |-> 0, req |-> None, phase |-> "none"]

Answered(r)  == terminals[r] # {}              \* result_for
Running(a)   == pc[a] # "down"
Free(a)      == act[a] = NoAct
Failed(p)    == failed[p].at # 0
Healthy(f)   == [f EXCEPT !.at = 0, !.req = None, !.cancel = FALSE]
First(S)     == CHOOSE n \in S : \A m \in S : n <= m

Init ==
    /\ log = <<>>
    /\ cursor = [p \in Providers |-> 0]
    /\ decided = [r \in Requests |-> "none"]
    /\ attempted = {} /\ unknown = {}
    /\ terminals = [r \in Requests |-> {}]
    /\ failed = [p \in Providers |-> [at |-> 0, req |-> None, cancel |-> FALSE, seen |-> {}]]
    /\ backoff = {}
    /\ overdue = {} /\ stale = {} /\ observed = 0 /\ consumed = 0
    /\ pc = [a \in Agents |-> "down"]
    /\ policy \in [Agents -> Policies]
    /\ present = [a \in Agents |-> {}]
    /\ gated = [a \in Agents |-> 0]
    /\ page = [a \in Agents |-> {}]
    /\ todo = [a \in Agents |-> {}]
    /\ act = [a \in Agents |-> NoAct]
    /\ ckpt = [a \in Agents |-> [p \in Providers |-> 0]]
    /\ worker = [a \in Agents |-> [p \in Providers |-> NoWorker]]
    /\ cancelled = [a \in Agents |-> {}]
    /\ runs = [r \in Requests |-> 0]
    /\ crashes = 0

-----------------------------------------------------------------------------
(* The world: cognition's requests, the clock, the operator.               *)

Requested(r) == \E n \in 1..Len(log) : log[n].kind = "request" /\ log[n].req = r

Ask(r) ==
    /\ \E a \in Agents : Running(a)
    /\ ~Requested(r)
    /\ log' = Append(log, [kind |-> "request", req |-> r, to |-> Route[r]])
    /\ UNCHANGED <<cursor, decided, attempted, unknown, terminals, failed, backoff,
                   world, volatile, runs, crashes>>

(* cognition.cancel-requested                                              *)
AskCancel(r) ==
    /\ \E a \in Agents : Running(a)
    /\ r \in Cancellable /\ Requested(r)
    /\ \A n \in 1..Len(log) : log[n].kind = "cancel" => log[n].req # r
    /\ log' = Append(log, [kind |-> "cancel", req |-> r, to |-> None])
    /\ UNCHANGED <<cursor, decided, attempted, unknown, terminals, failed, backoff,
                   world, volatile, runs, crashes>>

(* An event of another type, for a provider that also subscribes to it or  *)
(* for none.                                                               *)
Note(p) ==
    /\ \E a \in Agents : Running(a)
    /\ Cardinality({n \in 1..Len(log) : log[n].kind = "note"}) < MaxNotes
    /\ log' = Append(log, [kind |-> "note", req |-> None, to |-> p])
    /\ UNCHANGED <<cursor, decided, attempted, unknown, terminals, failed, backoff,
                   world, volatile, runs, crashes>>

(* An observation arrives; cognition consumes it and may revise its jobs.  *)
Lag == consumed < observed

Observe ==
    /\ observed < MaxObservations
    /\ observed' = observed + 1
    /\ UNCHANGED <<store, overdue, stale, consumed, volatile, runs, crashes>>

Consume ==
    /\ Lag
    /\ consumed' = observed
    /\ stale' \in SUBSET Revisable
    /\ UNCHANGED <<store, overdue, observed, volatile, runs, crashes>>

PassDeadline(r) ==
    /\ r \in Deadlines \ overdue
    /\ overdue' = overdue \cup {r}
    /\ UNCHANGED <<store, stale, observed, consumed, volatile, runs, crashes>>

Elapse(p) ==
    /\ p \in backoff /\ backoff' = backoff \ {p}
    /\ UNCHANGED <<log, cursor, decided, attempted, unknown, terminals, failed,
                   world, volatile, runs, crashes>>

(* The operator's component.recovered.                                     *)
Recover(p) ==
    /\ Failed(p)
    /\ failed' = [failed EXCEPT ![p] = Healthy(@)]
    /\ UNCHANGED <<log, cursor, decided, attempted, unknown, terminals, backoff,
                   world, volatile, runs, crashes>>

-----------------------------------------------------------------------------
(* Process start and death.                                                *)

Start(a) ==
    /\ pc[a] = "down"
    /\ pc' = [pc EXCEPT ![a] = "install"]
    /\ \E c \in Policies : policy' = [policy EXCEPT ![a] = c]
    /\ todo' = [todo EXCEPT ![a] = Providers]
    /\ UNCHANGED <<store, world, present, gated, page, act, ckpt, worker, cancelled, runs, crashes>>

(* An instance starts after the stored cursor.                             *)
Resume(p) == cursor[p]

(* install_component: the checkpoint is the stored cursor; a failure whose *)
(* request was cancelled before it is settled (recover_installed_session). *)
Install(a) ==
    /\ pc[a] = "install" /\ Free(a)
    /\ \E p \in todo[a] :
         /\ todo' = [todo EXCEPT ![a] = @ \ {p}]
         /\ present' = [present EXCEPT ![a] = @ \cup {p}]
         /\ ckpt' = [ckpt EXCEPT ![a][p] = Resume(p)]
         /\ act' = IF Failed(p) /\ failed[p].cancel
                   THEN [act EXCEPT ![a] =
                          [p |-> p,
                           at |-> IF failed[p].at < cursor[p] THEN cursor[p] ELSE failed[p].at,
                           req |-> failed[p].req,
                           steps |-> <<"cancelled", "skip", "recovered">>]]
                   ELSE act
    /\ UNCHANGED <<store, world, pc, policy, gated, page, worker, cancelled, runs, crashes>>

EndInstall(a) ==
    /\ pc[a] = "install" /\ Free(a) /\ todo[a] = {}
    /\ pc' = [pc EXCEPT ![a] = "collect"]
    /\ UNCHANGED <<store, world, policy, present, gated, page, todo, act, ckpt, worker,
                   cancelled, runs, crashes>>

(* Everything a process knows and the log does not is lost.                *)
Down(a) ==
    /\ pc' = [pc EXCEPT ![a] = "down"]
    /\ present' = [present EXCEPT ![a] = {}]
    /\ gated' = [gated EXCEPT ![a] = 0]
    /\ page' = [page EXCEPT ![a] = {}]
    /\ todo' = [todo EXCEPT ![a] = {}]
    /\ act' = [act EXCEPT ![a] = NoAct]
    /\ ckpt' = [ckpt EXCEPT ![a] = [p \in Providers |-> 0]]
    /\ worker' = [worker EXCEPT ![a] = [p \in Providers |-> NoWorker]]
    /\ cancelled' = [cancelled EXCEPT ![a] = {}]
    /\ UNCHANGED policy

Crash(a) ==
    /\ Running(a) /\ crashes < MaxCrashes
    /\ crashes' = crashes + 1
    /\ Down(a)
    /\ UNCHANGED <<store, world, runs>>

-----------------------------------------------------------------------------
(* tick: collect_workers, gate_new_requests, deliver to every instance.    *)

Finished(a) == {p \in Providers : worker[a][p].phase \in {"done", "failed", "trapped"}}

(* A success re-arms the cancellation handle.  A cancelled worker is       *)
(* answered and replaced, a trapped one quarantined, a failed one delayed. *)
Collect(a) ==
    /\ pc[a] = "collect" /\ Free(a)
    /\ \E p \in Finished(a) :
         LET w == worker[a][p]
             job(steps) == [p |-> p, at |-> w.at, req |-> w.req, steps |-> steps]
             uncertain == w.req \in Requests \ Inherent /\ ~Answered(w.req)
         IN /\ worker' = [worker EXCEPT ![a][p] = NoWorker]
            /\ cancelled' = [cancelled EXCEPT ![a] = @ \ {p}]
            /\ \/ /\ w.phase = "done"
                  /\ backoff' = backoff \ {p}
                  /\ UNCHANGED act
               \/ /\ w.phase # "done" /\ p \in cancelled[a]
                  /\ act' = [act EXCEPT ![a] = job(<<"cancelled", "restart", "skip">>)]
                  /\ backoff' = backoff \ {p}
               \/ /\ w.phase = "failed" /\ p \notin cancelled[a]
                  /\ backoff' = backoff \cup {p}
                  /\ UNCHANGED act
               \/ /\ w.phase = "trapped" /\ p \notin cancelled[a]
                  /\ \E steps \in IF uncertain THEN UncertainEnds ELSE Ends :
                       act' = [act EXCEPT ![a] = job(steps)]
                  /\ UNCHANGED backoff
    /\ UNCHANGED <<log, cursor, decided, attempted, unknown, terminals, failed,
                   world, loop, ckpt, runs, crashes>>

(* The next page of requests and cancellations after gated_through.        *)
NextPage(a) ==
    LET new == {n \in (gated[a] + 1)..Len(log) :
                   log[n].kind = "cancel" \/ (log[n].kind = "request" /\ log[n].req \notin Models)}
    IN {n \in new : Cardinality({m \in new : m <= n}) <= Batch}

EndCollect(a) ==
    /\ pc[a] = "collect" /\ Free(a) /\ Finished(a) = {}
    /\ pc' = [pc EXCEPT ![a] = "gate"]
    /\ page' = [page EXCEPT ![a] = NextPage(a)]
    /\ UNCHANGED <<store, world, policy, present, gated, todo, act, ckpt, worker,
                   cancelled, runs, crashes>>

(* route_request: one registered provider and a grant that allows it.      *)
Permits(a, r) == policy[a][r] = "allow" /\ Route[r] \in present[a]

(* What the gate appends for a request: a refused one gets a decision and  *)
(* a terminal, an allowed one a decision.                                  *)
VerdictUndenied(a, r) ==                   \* mutant: records a refusal only
    IF Answered(r) THEN <<>> ELSE IF Permits(a, r) THEN <<"allow">> ELSE <<"refuse">>

Verdict(a, r) ==
    IF Answered(r) THEN <<>>
    ELSE IF policy[a][r] = "unresolved" THEN <<"denied">>
    ELSE IF Permits(a, r) THEN <<"allow">>
    ELSE <<"refuse", "denied">>

(* gate_new_requests, one event of the page.                               *)
Gate(a) ==
    /\ pc[a] = "gate" /\ Free(a) /\ page[a] # {}
    /\ LET n == First(page[a])
           r == log[n].req
       IN /\ page' = [page EXCEPT ![a] = @ \ {n}]
          /\ gated' = [gated EXCEPT ![a] = n]
          /\ IF log[n].kind = "cancel"
             THEN /\ cancelled' = [cancelled EXCEPT ![a] = @ \cup
                                      {p \in Providers : worker[a][p].req = r}]
                  /\ UNCHANGED act
             ELSE /\ act' = IF Verdict(a, r) = <<>> THEN act
                            ELSE [act EXCEPT ![a] = [p |-> Route[r], at |-> n, req |-> r,
                                                     steps |-> Verdict(a, r)]]
                  /\ UNCHANGED cancelled
    /\ UNCHANGED <<store, world, pc, policy, present, todo, ckpt, worker, runs, crashes>>

EndGate(a) ==
    /\ pc[a] = "gate" /\ Free(a) /\ page[a] = {}
    /\ pc' = [pc EXCEPT ![a] = "deliver"]
    /\ todo' = [todo EXCEPT ![a] = present[a]]
    /\ UNCHANGED <<store, world, policy, present, gated, page, act, ckpt, worker,
                   cancelled, runs, crashes>>

(* poll, authorized_for and drop_answered_requests: what the provider may  *)
(* be given after its cached checkpoint.                                   *)
PendingAnswered(a, p) ==                   \* mutant: keeps the answered requests
    {n \in (ckpt[a][p] + 1)..Len(log) :
        /\ log[n].to = p
        /\ log[n].kind = "request" /\ log[n].req \notin Models => decided[log[n].req] = "allow"}

Pending(a, p) ==
    {n \in (ckpt[a][p] + 1)..Len(log) :
        /\ log[n].to = p
        /\ log[n].kind = "request" =>
             /\ log[n].req \notin Models => decided[log[n].req] = "allow"
             /\ ~Answered(log[n].req)}

Active(a) == {p \in Providers : worker[a][p].req \in Requests \ Models}

(* Admission: expired, reauthorize, revision_current, admit_attempt.       *)
AdmissionRetries(a, r) ==                  \* mutant: an attempt without a result runs again
    IF r \in overdue THEN <<"timed-out", "skip">>
    ELSE IF ~Permits(a, r) \/ r \in stale THEN <<"denied", "skip">>
    ELSE IF r \notin attempted THEN <<"attempt", "spawn">> ELSE <<"spawn">>

AdmissionSilent(a, r) ==                   \* mutant: an overdue request is skipped unanswered
    IF r \in overdue THEN <<"skip">>
    ELSE IF ~Permits(a, r) \/ r \in stale THEN <<"denied", "skip">>
    ELSE IF r \notin attempted THEN <<"attempt", "spawn">>
    ELSE <<"unknown", "interrupted", "skip">>

Admission(a, r) ==
    IF r = None THEN <<"spawn">>
    ELSE IF r \in overdue THEN <<"timed-out", "skip">>
    ELSE IF r \notin Models /\ (~Permits(a, r) \/ r \in stale) THEN <<"denied", "skip">>
    ELSE IF r \notin attempted THEN <<"attempt", "spawn">>
    ELSE IF r \in Inherent THEN <<"spawn">>
    ELSE <<"unknown", "interrupted", "skip">>

(* deliver, up to admission: the provider is idle and has something to do, *)
(* a capability call also needs a free worker and a caught-up cognition.   *)
ReadyUnbounded(a, p) ==                    \* mutant: no ceiling
    /\ worker[a][p] = NoWorker /\ ~Failed(p) /\ p \notin backoff
    /\ Pending(a, p) # {} /\ ~Lag

Ready(a, p) ==
    /\ worker[a][p] = NoWorker /\ ~Failed(p) /\ p \notin backoff
    /\ Pending(a, p) # {}
    /\ log[First(Pending(a, p))].req \in Requests \ Models =>
          Cardinality(Active(a)) < MaxWorkers /\ ~Lag

Deliver(a) ==
    /\ pc[a] = "deliver" /\ Free(a)
    /\ \E p \in todo[a] :
         /\ todo' = [todo EXCEPT ![a] = @ \ {p}]
         /\ IF Ready(a, p)
            THEN LET n == First(Pending(a, p))
                 IN act' = [act EXCEPT ![a] =
                       [p |-> p, at |-> n, req |-> log[n].req,
                        steps |-> Admission(a, log[n].req)]]
            ELSE UNCHANGED act
    /\ UNCHANGED <<store, world, pc, policy, present, gated, page, ckpt, worker,
                   cancelled, runs, crashes>>

EndPass(a) ==
    /\ pc[a] = "deliver" /\ Free(a) /\ todo[a] = {}
    /\ pc' = [pc EXCEPT ![a] = "collect"]
    /\ UNCHANGED <<store, world, policy, present, gated, page, todo, act, ckpt, worker,
                   cancelled, runs, crashes>>

-----------------------------------------------------------------------------
(* The appends of a handler, one at a time.                                *)

Then(a, steps) == [act EXCEPT ![a] = IF steps = <<>> THEN NoAct ELSE [@ EXCEPT !.steps = steps]]

Doing(a, step) == act[a].steps # <<>> /\ Head(act[a].steps) = step
Rest(a) == Tail(act[a].steps)

(* append_decision, under the key policy:{request}.                        *)
Decide(a) ==
    /\ Doing(a, "allow") \/ Doing(a, "refuse")
    /\ decided' = [decided EXCEPT ![act[a].req] =
           IF @ # "none" THEN @ ELSE IF Doing(a, "allow") THEN "allow" ELSE "deny"]
    /\ act' = Then(a, Rest(a))
    /\ UNCHANGED <<log, cursor, attempted, unknown, terminals, failed, backoff, world,
                   loop, ckpt, worker, cancelled, runs, crashes>>

(* The terminal an append leaves: cancel_attempt keeps an existing result. *)
SettledTwice(r, t) ==                      \* mutant: cancels what has a result
    IF r = None THEN terminals ELSE [terminals EXCEPT ![r] = @ \cup {t}]

Settled(r, t) ==
    IF r = None \/ (t = "cancelled" /\ Answered(r)) THEN terminals
    ELSE [terminals EXCEPT ![r] = @ \cup {t}]

(* append_denial, expired, the failure of admit_attempt, cancel_attempt.   *)
Answer(a) ==
    /\ \E t \in {"denied", "timed-out", "interrupted", "cancelled"} :
         /\ Doing(a, t)
         /\ terminals' = Settled(act[a].req, t)
    /\ act' = Then(a, Rest(a))
    /\ UNCHANGED <<log, cursor, decided, attempted, unknown, failed, backoff, world,
                   loop, ckpt, worker, cancelled, runs, crashes>>

(* activity.unknown                                                        *)
MarkUnknown(a) ==
    /\ Doing(a, "unknown")
    /\ unknown' = unknown \cup {act[a].req}
    /\ act' = Then(a, Rest(a))
    /\ UNCHANGED <<log, cursor, decided, attempted, terminals, failed, backoff, world,
                   loop, ckpt, worker, cancelled, runs, crashes>>

(* The stored admission claim is this process's own.                       *)
ClaimWon(r) == r \notin attempted

(* activity.attempted: only the process whose claim was stored goes on.    *)
Attempt(a) ==
    /\ Doing(a, "attempt")
    /\ attempted' = attempted \cup {act[a].req}
    /\ act' = Then(a, IF ClaimWon(act[a].req) THEN Rest(a) ELSE <<"skip">>)
    /\ UNCHANGED <<log, cursor, decided, unknown, terminals, failed, backoff, world,
                   loop, ckpt, worker, cancelled, runs, crashes>>

Spawn(a) ==
    /\ Doing(a, "spawn")
    /\ worker' = [worker EXCEPT ![a][act[a].p] =
           [at |-> act[a].at, req |-> act[a].req, phase |-> "running"]]
    /\ act' = Then(a, Rest(a))
    /\ UNCHANGED <<store, world, loop, ckpt, cancelled, runs, crashes>>

(* skip: a refused transaction is an error of the tick and ends the        *)
(* process.                                                                *)
Skip(a) ==
    /\ Doing(a, "skip")
    /\ IF cursor[act[a].p] = ckpt[a][act[a].p] /\ ckpt[a][act[a].p] <= act[a].at
       THEN /\ cursor' = [cursor EXCEPT ![act[a].p] = act[a].at]
            /\ ckpt' = [ckpt EXCEPT ![a][act[a].p] = act[a].at]
            /\ act' = Then(a, Rest(a))
            /\ UNCHANGED <<loop, worker, cancelled>>
       ELSE Down(a) /\ UNCHANGED cursor
    /\ UNCHANGED <<log, decided, attempted, unknown, terminals, failed, backoff, world,
                   runs, crashes>>

(* A fresh incarnation reads the stored cursor.                            *)
Restart(a) ==
    /\ Doing(a, "restart")
    /\ ckpt' = [ckpt EXCEPT ![a][act[a].p] = Resume(act[a].p)]
    /\ act' = Then(a, Rest(a))
    /\ UNCHANGED <<store, world, loop, worker, cancelled, runs, crashes>>

(* component.failed, once per provider and position, and unregister.       *)
MarkFailed(a) ==
    /\ Doing(a, "fail")
    /\ failed' = [failed EXCEPT ![act[a].p] =
           IF act[a].at \in @.seen THEN @
           ELSE [at |-> act[a].at, req |-> act[a].req,
                 cancel |-> \E n \in 1..Len(log) :
                               log[n].kind = "cancel" /\ log[n].req = act[a].req,
                 seen |-> @.seen \cup {act[a].at}]]
    /\ present' = [present EXCEPT ![a] = @ \ {act[a].p}]
    /\ act' = Then(a, Rest(a))
    /\ UNCHANGED <<log, cursor, decided, attempted, unknown, terminals, backoff, world,
                   pc, policy, gated, page, todo, ckpt, worker, cancelled, runs, crashes>>

(* component.recovered, at installation.                                   *)
MarkRecovered(a) ==
    /\ Doing(a, "recovered")
    /\ failed' = [failed EXCEPT ![act[a].p] = Healthy(@)]
    /\ act' = Then(a, Rest(a))
    /\ UNCHANGED <<log, cursor, decided, attempted, unknown, terminals, backoff, world,
                   loop, ckpt, worker, cancelled, runs, crashes>>

-----------------------------------------------------------------------------
(* A worker: one delivery inside a provider (module Delivery).             *)

Working(a, p) == worker[a][p].phase \in {"running", "ran"}

(* The provider crosses the effect boundary.                               *)
Execute(a, p) ==
    /\ worker[a][p].phase = "running" /\ worker[a][p].req # None
    /\ runs' = [runs EXCEPT ![worker[a][p].req] = IF @ = 2 THEN 2 ELSE @ + 1]
    /\ worker' = [worker EXCEPT ![a][p].phase = "ran"]
    /\ UNCHANGED <<store, world, loop, act, ckpt, cancelled, crashes>>

(* A terminal result appended before the delivery's transaction.           *)
Publish(a, p) ==
    /\ worker[a][p].phase = "ran"
    /\ terminals' = [terminals EXCEPT ![worker[a][p].req] = @ \cup {"completed"}]
    /\ UNCHANGED <<log, cursor, decided, attempted, unknown, failed, backoff, world,
                   volatile, runs, crashes>>

(* The transaction: result and cursor, or a conflict and nothing.          *)
Finish(a, p) ==
    /\ Working(a, p)
    /\ IF cursor[p] = ckpt[a][p]
       THEN /\ cursor' = [cursor EXCEPT ![p] = worker[a][p].at]
            /\ ckpt' = [ckpt EXCEPT ![a][p] = worker[a][p].at]
            /\ terminals' = IF worker[a][p].req = None THEN terminals
                            ELSE [terminals EXCEPT ![worker[a][p].req] = @ \cup {"completed"}]
            /\ worker' = [worker EXCEPT ![a][p].phase = "done"]
       ELSE /\ worker' = [worker EXCEPT ![a][p].phase = "failed"]
            /\ UNCHANGED <<cursor, ckpt, terminals>>
    /\ UNCHANGED <<log, decided, attempted, unknown, failed, backoff, world, loop, act,
                   cancelled, runs, crashes>>

(* A failure the provider reports, or a cancelled call.                    *)
Fail(a, p) ==
    /\ Working(a, p)
    /\ worker' = [worker EXCEPT ![a][p].phase = "failed"]
    /\ UNCHANGED <<store, world, loop, act, ckpt, cancelled, runs, crashes>>

Trap(a, p) ==
    /\ Traps /\ Working(a, p)
    /\ worker' = [worker EXCEPT ![a][p].phase = "trapped"]
    /\ UNCHANGED <<store, world, loop, act, ckpt, cancelled, runs, crashes>>

-----------------------------------------------------------------------------
Append1(a) == Decide(a) \/ Answer(a) \/ MarkUnknown(a) \/ Attempt(a) \/ Spawn(a) \/ Skip(a)
              \/ Restart(a) \/ MarkFailed(a) \/ MarkRecovered(a)

LoopStep(a) == Start(a) \/ Install(a) \/ EndInstall(a) \/ Collect(a) \/ EndCollect(a)
               \/ Gate(a) \/ EndGate(a) \/ Deliver(a) \/ EndPass(a) \/ Append1(a)

WorkerStep(a, p) == Execute(a, p) \/ Publish(a, p) \/ Finish(a, p) \/ Fail(a, p) \/ Trap(a, p)

WorldStep == \/ \E r \in Requests : Ask(r) \/ AskCancel(r) \/ PassDeadline(r)
             \/ \E p \in Providers : Elapse(p) \/ Recover(p)
             \/ \E p \in Mixed \cup {None} : Note(p)
             \/ Observe \/ Consume

Next == \/ \E a \in Agents : LoopStep(a) \/ Crash(a) \/ \E p \in Providers : WorkerStep(a, p)
        \/ WorldStep

Spec == Init /\ [][Next]_vars

(* The loop never stops ticking and is started again; a call ends; time    *)
(* passes; cognition consumes its observations; a provider that is retried *)
(* again and again does not fail every time.                               *)
Fairness ==
    /\ \A a \in Agents :
         /\ WF_vars(LoopStep(a))
         /\ \A p \in Providers : SF_vars(Finish(a, p))
    /\ \A p \in Providers : WF_vars(Elapse(p))
    /\ WF_vars(Consume)

FairSpec == Spec /\ Fairness

-----------------------------------------------------------------------------
TypeOK ==
    /\ log \in Seq(Item)
    /\ cursor \in [Providers -> Nat]
    /\ decided \in [Requests -> {"none", "allow", "deny"}]
    /\ attempted \subseteq Requests /\ unknown \subseteq Requests
    /\ terminals \in [Requests -> SUBSET Terminal]
    /\ failed \in [Providers -> Failure]
    /\ backoff \subseteq Providers
    /\ overdue \subseteq Requests /\ stale \subseteq Requests
    /\ observed \in Nat /\ consumed \in Nat
    /\ pc \in [Agents -> {"down", "install", "collect", "gate", "deliver"}]
    /\ policy \in [Agents -> Policies]
    /\ present \in [Agents -> SUBSET Providers]
    /\ gated \in [Agents -> Nat]
    /\ page \in [Agents -> SUBSET Nat]
    /\ todo \in [Agents -> SUBSET Providers]
    /\ act \in [Agents -> Act \cup {NoAct}]
    /\ ckpt \in [Agents -> [Providers -> Nat]]
    /\ worker \in [Agents -> [Providers -> Worker \cup {NoWorker}]]
    /\ cancelled \in [Agents -> SUBSET Providers]
    /\ runs \in [Requests -> 0..2]
    /\ crashes \in Nat

(* An effect that is not inherently idempotent is executed at most once,   *)
(* whatever crashes, failures, traps, cancellations and concurrent         *)
(* processes there are (admit_attempt: the durable attempt and its claim   *)
(* come before the effect).                                                *)
AtMostOnce == \A r \in Requests \ Inherent : runs[r] <= 1

(* A request is answered once: a denial, a timeout, a cancellation, an     *)
(* interruption and a result exclude one another (result_for before every  *)
(* append, drop_answered_requests before every delivery).                  *)
OneTerminal == \A r \in Requests : Cardinality(terminals[r]) <= 1

(* No effect is executed after its request was answered: a denied request  *)
(* never runs (drop_answered_requests).                                    *)
NoRunAfterAnswer ==
    [][\A r \in Requests : runs'[r] # runs[r] => terminals[r] = {}]_vars

(* No provider's cursor passes a request that is allowed and not answered: *)
(* a restart resumes rather than skipping.                                 *)
NothingPassedOver ==
    \A n \in 1..Len(log) :
        /\ log[n].kind = "request" /\ n <= cursor[log[n].to]
        /\ log[n].req \in Models \/ decided[log[n].req] = "allow"
        => Answered(log[n].req)

(* At most MaxWorkers capability calls are under way in a process.         *)
Ceiling == \A a \in Agents : Cardinality(Active(a)) <= MaxWorkers

(* An admitted attempt without a result is never reported as a clean       *)
(* failure: a denial and a timeout before admission say that nothing       *)
(* happened.                                                               *)
UncertainIsNotClean ==
    \A r \in Requests \ Inherent :
        terminals[r] \cap {"denied", "timed-out"} # {} => runs[r] = 0

(* Every request is eventually answered.                                   *)
EveryRequestAnswered == \A r \in Requests : Requested(r) ~> Answered(r)
=============================================================================
