------------------------------ MODULE Recovery ------------------------------
(***************************************************************************)
(* How the agent (pluribus-cognition/src/agent.rs) treats a component that *)
(* exhausts its memory or reports a failure: it restarts the instance,     *)
(* delivers one event at a time, retries with a backoff that is recorded   *)
(* in the stream, gives an event up after the third failure by recording   *)
(* it as deferred together with the cursor, and marks the component failed *)
(* when it cannot be restarted.  The memory of the loop (backoff, reduced, *)
(* failed) is rebuilt from the health events after a crash.                *)
(***************************************************************************)
EXTENDS Naturals, Sequences, FiniteSetsExt

CONSTANTS
    LastEvent,   \* the component's events are at positions 1..LastEvent
    Poison,      \* events that exhaust the component's memory
    Heavy,       \* events that do so only in a batch of several
    BatchLimit,  \* events of one delivery
    Tries,       \* failures after which an event is given up (3)
    MaxCrashes,  \* bound: process crashes
    MaxErrors,   \* bound: reported failures
    MaxHealth    \* bound: health events in the stream

ASSUME RecoveryAssumption ==
    /\ LastEvent \in Nat /\ BatchLimit \in Nat \ {0}
    /\ Tries \in Nat /\ Tries >= 2

VARIABLES
    cursor,      \* the committed delivery cursor
    health,      \* the health events of the component, in stream order
    done,        \* events handled
    deferred,    \* events with a cognition.resource-exhausted record
    lost,        \* events skipped with their sessions failed (pinned component)
    pinned,      \* the component pins its sessions
    up, here,    \* the process runs; the instance is in `instances`
    mem,         \* backoff, reduced_batches, failed, health_through
    failing,     \* the batch whose failure is being recorded, or NoBatch
    attempts,    \* ghost: failed deliveries of an event alone
    crashes, errors
recoveryVars == <<cursor, health, done, deferred, lost, pinned, up, here, mem, failing,
                  attempts, crashes, errors>>

Events == 1 .. LastEvent
Own == 0     \* the backoff key of the instance itself
Keys == {Own} \cup Events
NoMemory == [backoff |-> [k \in Keys |-> 0], reduced |-> FALSE, failed |-> FALSE, through |-> 0]

(* A batch is a run of events. *)
Batch(first, last) == [first |-> first, last |-> last]
NoBatch == Batch(1, 0)
EventsOf(b) == b.first .. b.last
Alone(b) == b.first = b.last

RecoveryInit ==
    /\ cursor = 0 /\ health = << >> /\ done = {} /\ deferred = {} /\ lost = {}
    /\ pinned \in BOOLEAN
    /\ up = TRUE /\ here = TRUE /\ mem = NoMemory /\ failing = NoBatch
    /\ attempts = [e \in Events |-> 0] /\ crashes = 0 /\ errors = 0

(* The health events: a backoff, a recovery (of a batch, or of the whole     *)
(* component when it names no requests), a failure.                          *)
Backoff(k, n) == [kind |-> "backoff", key |-> k, n |-> n]
RecoveredEvent(keys, whole) == [kind |-> "recovered", keys |-> keys, whole |-> whole]
FailedEvent == [kind |-> "failed"]

(* refresh_health: the last event about a key, about the size of batches and *)
(* about the failure, of those not read before, says what is remembered.     *)
Unread(m) == m.through + 1 .. Len(health)
About(m, k) == {i \in Unread(m) :
    \/ health[i].kind = "backoff" /\ health[i].key = k
    \/ health[i].kind = "recovered" /\ k \in {Own} \cup health[i].keys}
AboutSize(m) == {i \in Unread(m) :
    \/ health[i].kind = "backoff" /\ health[i].key # Own
    \/ health[i].kind = "recovered" /\ health[i].whole}
AboutFailure(m) == {i \in Unread(m) : health[i].kind \in {"failed", "recovered"}}
Learned(m, k) ==
    IF About(m, k) = {} THEN m.backoff[k]
    ELSE LET h == health[Max(About(m, k))] IN IF h.kind = "backoff" THEN h.n ELSE 0
Reduced(m) == IF AboutSize(m) = {} THEN m.reduced ELSE health[Max(AboutSize(m))].kind = "backoff"
Failed(m) == IF AboutFailure(m) = {} THEN m.failed ELSE health[Max(AboutFailure(m))].kind = "failed"
Refreshed == [backoff |-> [k \in Keys |-> Learned(mem, k)], reduced |-> Reduced(mem),
              failed |-> Failed(mem), through |-> Len(health)]

(* recovered: a success clears the counters of the batch, and says so. *)
Cleared(f, K) == [k \in Keys |-> IF k \in K THEN 0 ELSE f[k]]
Recovered(m, batch) ==
    IF \A k \in {Own} \cup EventsOf(batch) : m.backoff[k] = 0 THEN UNCHANGED health /\ mem' = m
    ELSE /\ health' = Append(health, RecoveredEvent(EventsOf(batch), FALSE))
         /\ mem' = [m EXCEPT !.backoff = Cleared(@, {Own} \cup EventsOf(batch))]

BatchSizeFull(reduced) == BatchLimit
BatchSize(reduced) == IF reduced THEN 1 ELSE BatchLimit
NextBatch(after, reduced) ==
    Batch(after + 1, IF after + BatchSize(reduced) > LastEvent THEN LastEvent ELSE after + BatchSize(reduced))
Exhausts(batch) == \/ \E e \in EventsOf(batch) : e \in Poison
                   \/ ~Alone(batch) /\ \E e \in EventsOf(batch) : e \in Heavy

(* What became of a batch: it was handled, a failure was reported, or the    *)
(* memory was exhausted and the instance was restarted (a pinned one fails   *)
(* its sessions and skips the batch) or could not be.                        *)
Handled(m, batch) ==
    /\ cursor' = batch.last /\ done' = done \cup EventsOf(batch)
    /\ Recovered(m, batch)
    /\ UNCHANGED <<failing, attempts, here, lost, errors>>
Reported(m) ==
    /\ errors < MaxErrors /\ errors' = errors + 1
    /\ mem' = [m EXCEPT !.backoff[Own] = @ + 1]
    /\ health' = Append(health, Backoff(Own, m.backoff[Own] + 1))
    /\ UNCHANGED <<cursor, done, failing, attempts, here, lost>>
RestartAfterResource(m, batch) ==
    /\ failing' = batch /\ mem' = m
    /\ attempts' = IF Alone(batch) THEN [attempts EXCEPT ![batch.first] = @ + 1] ELSE attempts
    /\ cursor' = IF pinned THEN batch.last ELSE cursor
    /\ lost' = IF pinned THEN lost \cup EventsOf(batch) ELSE lost
    /\ UNCHANGED <<health, done, here, errors>>
MarkResourceRestartFailure(m, batch) ==
    /\ here' = FALSE
    /\ lost' = IF pinned THEN lost \cup EventsOf(batch) ELSE lost
    /\ mem' = [m EXCEPT !.failed = TRUE]
    /\ health' = Append(health, FailedEvent)
    /\ UNCHANGED <<cursor, done, failing, attempts, errors>>

(* tick: health is read first, then the instance gets its next batch. *)
Deliver ==
    /\ up /\ failing = NoBatch /\ ~Failed(mem) /\ here /\ cursor < LastEvent /\ Len(health) < MaxHealth
    /\ LET m == Refreshed
           batch == NextBatch(cursor, m.reduced)
       IN  IF Exhausts(batch)
           THEN RestartAfterResource(m, batch) \/ MarkResourceRestartFailure(m, batch)
           ELSE Handled(m, batch) \/ Reported(m)
    /\ UNCHANGED <<deferred, pinned, up, crashes>>

(* defer_delivery after the restart: one durable step, the backoff event or *)
(* the deferred record with the cursor (skip_with_events).                  *)
GivenUpEarly(n, batch) == Alone(batch)
GivenUp(n, batch) == n >= Tries /\ Alone(batch)
DeferDelivery ==
    /\ up /\ failing # NoBatch
    /\ LET first == failing.first
           n == IF mem.backoff[first] + 1 > Tries THEN Tries ELSE mem.backoff[first] + 1
       IN  IF GivenUp(n, failing)
           THEN /\ deferred' = deferred \cup {first}
                /\ cursor' = IF cursor > first THEN cursor ELSE first
                /\ mem' = [mem EXCEPT !.reduced = TRUE, !.backoff[first] = 0]
                /\ UNCHANGED health
           ELSE /\ health' = Append(health, Backoff(first, n))
                /\ mem' = [mem EXCEPT !.reduced = TRUE, !.backoff[first] = n]
                /\ UNCHANGED <<cursor, deferred>>
    /\ failing' = NoBatch
    /\ UNCHANGED <<done, lost, pinned, up, here, attempts, crashes, errors>>

Crash ==
    /\ up /\ crashes < MaxCrashes /\ crashes' = crashes + 1
    /\ up' = FALSE /\ here' = FALSE /\ mem' = NoMemory /\ failing' = NoBatch
    /\ UNCHANGED <<cursor, health, done, deferred, lost, pinned, attempts, errors>>

(* Installing a pinned component recovers it from a recorded failure        *)
(* (recover_installed_session); another one stays failed.                   *)
Install ==
    /\ ~up
    /\ up' = TRUE /\ here' = TRUE
    /\ health' = IF pinned /\ Failed(NoMemory) THEN Append(health, RecoveredEvent(Events, TRUE)) ELSE health
    /\ UNCHANGED <<cursor, done, deferred, lost, pinned, mem, failing, attempts, crashes, errors>>

RecoveryNext == Deliver \/ DeferDelivery \/ Crash \/ Install
RecoverySpec == RecoveryInit /\ [][RecoveryNext]_recoveryVars
Work == Deliver \/ DeferDelivery \/ Install
RecoveryFairSpec == RecoverySpec /\ WF_recoveryVars(Work)

(* An event the cursor passed was handled once, or has a record: it was     *)
(* given up because it exhausts the component alone, on its third failure   *)
(* (a crash may hide a failure from the count), or its sessions were failed *)
(* with a pinned component.                                                 *)
NoneGivenUpEarly ==
    /\ 1 .. cursor \subseteq done \cup deferred \cup lost
    /\ done \cap (deferred \cup lost) = {}
    /\ deferred \subseteq Poison
    /\ \A e \in Events : attempts[e] <= Tries + crashes
    /\ \A e \in deferred : attempts[e] + 1 >= Tries

(* Every event is consumed in the end, unless the component could not be    *)
(* restarted and is recorded as failed.                                     *)
Recovers == <>(cursor = LastEvent \/ \E i \in DOMAIN health : health[i].kind = "failed")
=============================================================================
