------------------------------ MODULE Delivery ------------------------------
(***************************************************************************)
(* Delivery of a stream to component instances: the transaction of the     *)
(* SQLite store (crates/pluribus-store-sqlite, DeliveryStore) under the    *)
(* running instance of the Wasm runtime (crates/pluribus-runtime-wasm,     *)
(* runner.rs).                                                             *)
(*                                                                         *)
(* Two tasks share an instance.  The agent (host) offers a batch and waits *)
(* for its reply, or moves the cursor past a batch by itself.  The guest's *)
(* source task takes the batch, then commits or rejects it; between        *)
(* deliveries it commits output of its own.  Both sides read the cached    *)
(* checkpoint under commit_gate and put it in the transaction as the value *)
(* the stored cursor must still have.  A dropped incarnation may leave a   *)
(* transaction that lands after its successor has read the cursor.         *)
(*                                                                         *)
(* Positions the instance does not subscribe to are consumed with the      *)
(* batch around them.  An outcome's proposals are all or nothing: one      *)
(* event stands for the list.                                              *)
(***************************************************************************)
EXTENDS Integers, Sequences

CONSTANTS Instances,    \* component instances
          Outside,      \* every producer that is not an instance
          MaxLog,       \* bound: events in the stream
          MaxBatch,     \* positions one poll may return
          MaxFaults,    \* bound: cancellations, traps and crashes
          OwnKeys,      \* idempotency keys a plugin chooses
          LateCommits   \* may a transaction outlive its incarnation?

ASSUME DeliveryAssumption ==
    /\ Outside \notin Instances
    /\ MaxLog \in Nat /\ MaxBatch \in Nat \ {0} /\ MaxFaults \in Nat
    /\ OwnKeys \subseteq Nat
    /\ LateCommits \in BOOLEAN

VARIABLES
  \* the database
    log, cursor, applied,
  \* the agent's side of each instance
    host, ckpt, mail, reply, hreq, cancelled, skipTo,
  \* the guest's side of each instance
    guest, batch, greq,
  \* transactions of dropped incarnations; which successors they overtook
    late, overtaken, faults

store   == <<log, cursor, applied>>
agent   == <<host, ckpt, mail, reply, hreq, cancelled, skipTo>>
source  == <<guest, batch, greq>>
past    == <<late, overtaken, faults>>
vars    == <<store, agent, source, past>>

Abs == INSTANCE DeliveryAbs WITH Instances <- Instances, Outside <- Outside,
                                 log <- log, cursor <- cursor, applied <- applied

Key   == Abs!Key
NoKey == Abs!NoKey
Event == Abs!Event
Block == Abs!Block

(* Mutant of HandleKey: the key is not derived from the checkpoint.        *)
HandleKeyFixed(i, c) == [phase |-> "handle", inst |-> i, at |-> 0]

(* CommitPhase::derived_key, and the deferral key of the agent.            *)
HandleKey(i, c) == [phase |-> "handle", inst |-> i, at |-> c]
InitKey(i, c)   == [phase |-> "init", inst |-> i, at |-> c]
DeferKey(i, p)  == [phase |-> "defer", inst |-> i, at |-> p]
OwnKey(i, k)    == [phase |-> "own", inst |-> i, at |-> k]

(* A batch in hand: the positions after+1 .. hi.                           *)
Batch   == [after : Nat, hi : Nat]
NoBatch == [after |-> 0, hi |-> 0]

(* DeliveryCommit.  moves = FALSE is a checkpoint of None.                 *)
Request == [inst : Instances, expected : Nat, moves : BOOLEAN, after : Nat,
            to : Nat, how : {"handled", "skipped"}, key : Key \cup {NoKey}]
NoRequest == [inst |-> Outside, expected |-> 0, moves |-> FALSE, after |-> 0,
              to |-> 0, how |-> "handled", key |-> NoKey]

-----------------------------------------------------------------------------
(* The store.                                                              *)

(* append_in: a key the stream already holds returns the stored event.     *)
Recorded(k) == \E n \in 1..Len(log) : log[n].key = k

AppendIn(e) == IF e.key # NoKey /\ Recorded(e.key) THEN log ELSE Append(log, e)

(* Mutant of Accepts: the stored cursor is not compared.                   *)
AcceptsAny(r) == r.moves => r.to >= r.expected

(* DeliveryCommit::validate, then the comparison with the stored cursor.   *)
Accepts(r) == /\ r.moves => r.to >= r.expected
              /\ cursor[r.inst] = r.expected

(* Mutant of Commit: the cursor moves, the events are lost.                *)
CommitLosesEvents(r) ==
    /\ log' = log
    /\ cursor' = [cursor EXCEPT ![r.inst] = IF r.moves THEN r.to ELSE @]
    /\ applied' = [applied EXCEPT ![r.inst] = IF r.moves /\ r.to > r.expected
           THEN Append(@, [from |-> r.after, to |-> r.to, how |-> r.how, result |-> r.key])
           ELSE @]

(* One transaction: state, events and cursor.                              *)
Commit(r) ==
    /\ log' = IF r.key = NoKey THEN log
              ELSE AppendIn([by |-> r.inst, key |-> r.key])
    /\ IF r.moves /\ r.to > r.expected
       THEN /\ cursor' = [cursor EXCEPT ![r.inst] = r.to]
            /\ applied' = [applied EXCEPT ![r.inst] = Append(@,
                   [from |-> r.after, to |-> r.to, how |-> r.how,
                    result |-> r.key])]
       ELSE UNCHANGED <<cursor, applied>>

Room == Len(log) < MaxLog

-----------------------------------------------------------------------------
Init ==
    /\ log = <<>>
    /\ cursor = [i \in Instances |-> 0]
    /\ applied = [i \in Instances |-> <<>>]
    /\ host = [i \in Instances |-> "down"]
    /\ ckpt = [i \in Instances |-> 0]
    /\ mail = [i \in Instances |-> NoBatch]
    /\ reply = [i \in Instances |-> "none"]
    /\ hreq = [i \in Instances |-> NoRequest]
    /\ cancelled = [i \in Instances |-> FALSE]
    /\ skipTo = [i \in Instances |-> 0]
    /\ guest = [i \in Instances |-> "none"]
    /\ batch = [i \in Instances |-> NoBatch]
    /\ greq = [i \in Instances |-> NoRequest]
    /\ late = {}
    /\ overtaken = [i \in Instances |-> FALSE]
    /\ faults = 0

(* An event of another producer.                                           *)
Observe ==
    /\ Room
    /\ log' = Append(log, [by |-> Outside, key |-> NoKey])
    /\ UNCHANGED <<cursor, applied, agent, source, past>>

(* instantiate_recipe: a fresh incarnation caches the stored cursor.       *)
Instantiate(i) ==
    /\ host[i] = "down"
    /\ host' = [host EXCEPT ![i] = "staged"]
    /\ ckpt' = [ckpt EXCEPT ![i] = cursor[i]]
    /\ overtaken' = [overtaken EXCEPT ![i] = FALSE]
    /\ UNCHANGED <<store, mail, reply, hreq, cancelled, skipTo, source, late, faults>>

(* init: startup output never moves the cursor.  A rejected commit ends    *)
(* the installation.  The source task starts once the instance has no      *)
(* batch to leave behind.                                                  *)
Startup(i) ==
    /\ host[i] = "staged"
    /\ \E k \in {NoKey, InitKey(i, ckpt[i])} :
         LET r == [inst |-> i, expected |-> ckpt[i], moves |-> FALSE, after |-> 0,
                   to |-> 0, how |-> "handled", key |-> k]
         IN /\ k # NoKey => Room
            /\ IF Accepts(r)
               THEN /\ Commit(r)
                    /\ host' = [host EXCEPT ![i] = IF skipTo[i] > 0 THEN "recovering" ELSE "idle"]
                    /\ guest' = [guest EXCEPT ![i] = IF skipTo[i] > 0 THEN "none" ELSE "free"]
               ELSE /\ host' = [host EXCEPT ![i] = "down"]
                    /\ UNCHANGED <<store, guest>>
    /\ UNCHANGED <<ckpt, mail, reply, hreq, cancelled, skipTo, batch, greq, past>>

-----------------------------------------------------------------------------
(* The agent's side.                                                       *)

(* Mutant of GateFree: no gate.                                            *)
GateAlwaysFree(i) == host[i] \in {"idle", "recovering", "sent", "waiting", "skipping"}

(* commit_gate: held across reading the checkpoint and the transaction.    *)
GateFree(i) == host[i] # "skipping" /\ guest[i] \notin {"committing", "publishing"}

(* deliver: poll from the cached checkpoint, then PluginInstance::handle.  *)
Offer(i) ==
    /\ host[i] = "idle"
    /\ \E hi \in (ckpt[i] + 1)..Len(log) :
         /\ hi <= ckpt[i] + MaxBatch
         /\ mail' = [mail EXCEPT ![i] = [after |-> ckpt[i], hi |-> hi]]
    /\ host' = [host EXCEPT ![i] = "sent"]
    /\ reply' = [reply EXCEPT ![i] = IF guest[i] = "dead" THEN "err" ELSE "none"]
    /\ UNCHANGED <<store, ckpt, hreq, cancelled, skipTo, source, past>>

Fault == faults < MaxFaults /\ faults' = faults + 1

(* CancellationHandle::cancel on an instance whose worker is out.          *)
Cancel(i) ==
    /\ host[i] \in {"sent", "waiting"}
    /\ ~cancelled[i]
    /\ Fault
    /\ cancelled' = [cancelled EXCEPT ![i] = TRUE]
    /\ UNCHANGED <<store, host, ckpt, mail, reply, hreq, skipTo, source, late, overtaken>>

(* collect_workers: a success re-arms the handle, a reported failure       *)
(* leaves the batch to be offered again.                                   *)
Collect(i) ==
    /\ host[i] \in {"sent", "waiting"}
    /\ \/ reply[i] = "ok" /\ cancelled' = [cancelled EXCEPT ![i] = FALSE]
       \/ reply[i] = "err" /\ ~cancelled[i] /\ guest[i] # "dead" /\ UNCHANGED cancelled
    /\ host' = [host EXCEPT ![i] = "idle"]
    /\ mail' = [mail EXCEPT ![i] = NoBatch]
    /\ reply' = [reply EXCEPT ![i] = "none"]
    /\ UNCHANGED <<store, ckpt, hreq, skipTo, source, past>>

(* What a replaced or killed incarnation may still have under way: the     *)
(* transaction in flight, or one more output of a source task that is      *)
(* alive until the agent drops it.                                         *)
Leftover(i) ==
    LET inFlight == {r \in {greq[i], hreq[i]} : r # NoRequest}
        output   == {[inst |-> i, expected |-> ckpt[i], moves |-> FALSE, after |-> 0,
                      to |-> 0, how |-> "handled", key |-> OwnKey(i, k)] : k \in OwnKeys}
    IN IF ~LateCommits THEN {}
       ELSE inFlight \cup (IF guest[i] = "free" THEN output ELSE {})

Drop(i, to) ==
    /\ late' = late \cup Leftover(i)
    /\ host' = [host EXCEPT ![i] = "down"]
    /\ mail' = [mail EXCEPT ![i] = NoBatch]
    /\ reply' = [reply EXCEPT ![i] = "none"]
    /\ hreq' = [hreq EXCEPT ![i] = NoRequest]
    /\ cancelled' = [cancelled EXCEPT ![i] = FALSE]
    /\ skipTo' = [skipTo EXCEPT ![i] = to]
    /\ guest' = [guest EXCEPT ![i] = "none"]
    /\ batch' = [batch EXCEPT ![i] = NoBatch]
    /\ greq' = [greq EXCEPT ![i] = NoRequest]
    /\ UNCHANGED <<store, ckpt, overtaken>>

(* cancel_worker, quarantine and restart_after_resource: a cancelled batch *)
(* is left behind, a trapped one is left behind or offered again.          *)
Replace(i) ==
    /\ \/ /\ host[i] \in {"sent", "waiting"} /\ reply[i] = "err"
          /\ \/ cancelled[i] /\ Drop(i, mail[i].hi)
             \/ ~cancelled[i] /\ guest[i] = "dead" /\ \E to \in {0, mail[i].hi} : Drop(i, to)
       \/ host[i] = "idle" /\ guest[i] = "dead" /\ Drop(i, 0)
    /\ UNCHANGED faults

(* The process dies, or a lifecycle future is dropped.                     *)
Crash(i) == host[i] # "down" /\ Fault /\ Drop(i, 0)

(* skip and skip_with_events: the agent moves the cursor past positions it *)
(* will not deliver, with a record of the deferral or without one.         *)
Skip(i) ==
    /\ host[i] \in {"idle", "recovering"}
    /\ GateFree(i)
    /\ \E to \in IF host[i] = "idle" THEN (ckpt[i] + 1)..Len(log) ELSE {skipTo[i]} :
         \E k \in {NoKey} \cup IF host[i] = "idle" /\ Room THEN {DeferKey(i, to)} ELSE {} :
           hreq' = [hreq EXCEPT ![i] =
               [inst |-> i, expected |-> ckpt[i], moves |-> TRUE, after |-> ckpt[i],
                to |-> to, how |-> "skipped", key |-> k]]
    /\ host' = [host EXCEPT ![i] = "skipping"]
    /\ UNCHANGED <<store, ckpt, mail, reply, cancelled, skipTo, source, past>>

(* Mutant of SkipLands: the source task is not started after recovery.     *)
SkipLandsAsleep(i) ==
    /\ host[i] = "skipping"
    /\ Accepts(hreq[i])
    /\ Commit(hreq[i])
    /\ ckpt' = [ckpt EXCEPT ![i] = hreq[i].to]
    /\ host' = [host EXCEPT ![i] = "idle"]
    /\ hreq' = [hreq EXCEPT ![i] = NoRequest]
    /\ skipTo' = [skipTo EXCEPT ![i] = 0]
    /\ UNCHANGED <<mail, reply, cancelled, guest, batch, greq, past>>

SkipLands(i) ==
    /\ host[i] = "skipping"
    /\ Accepts(hreq[i])
    /\ Commit(hreq[i])
    /\ ckpt' = [ckpt EXCEPT ![i] = hreq[i].to]
    /\ host' = [host EXCEPT ![i] = "idle"]
    /\ hreq' = [hreq EXCEPT ![i] = NoRequest]
    /\ skipTo' = [skipTo EXCEPT ![i] = 0]
    /\ guest' = [guest EXCEPT ![i] = IF @ = "none" THEN "free" ELSE @]
    /\ UNCHANGED <<mail, reply, cancelled, batch, greq, past>>

(* A refused skip is an error of the tick, which ends the process.         *)
SkipFails(i) ==
    /\ host[i] = "skipping"
    /\ ~Accepts(hreq[i])
    /\ Drop(i, 0)
    /\ UNCHANGED faults

-----------------------------------------------------------------------------
(* The guest's side.                                                       *)

(* runtime.next                                                            *)
Take(i) ==
    /\ guest[i] = "free"
    /\ host[i] = "sent" /\ reply[i] = "none"
    /\ guest' = [guest EXCEPT ![i] = "working"]
    /\ batch' = [batch EXCEPT ![i] = mail[i]]
    /\ host' = [host EXCEPT ![i] = "waiting"]
    /\ UNCHANGED <<store, ckpt, mail, reply, hreq, cancelled, skipTo, greq, past>>

(* events.append outside the transaction, under the plugin's own key.      *)
Stream(i) ==
    /\ guest[i] = "working"
    /\ Room
    /\ \E k \in OwnKeys : log' = AppendIn([by |-> i, key |-> OwnKey(i, k)])
    /\ UNCHANGED <<cursor, applied, agent, source, past>>

(* runtime.commit of a delivery: refused once the delivery is cancelled;   *)
(* the claim must lie in the batch.                                        *)
Propose(i) ==
    /\ guest[i] = "working"
    /\ ~cancelled[i]
    /\ GateFree(i)
    /\ \E to \in (batch[i].after + 1)..batch[i].hi,
          k \in {NoKey} \cup IF Room THEN {HandleKey(i, ckpt[i])} \cup
                                          {OwnKey(i, o) : o \in OwnKeys} ELSE {} :
         greq' = [greq EXCEPT ![i] =
             [inst |-> i, expected |-> ckpt[i], moves |-> TRUE, after |-> batch[i].after,
              to |-> to, how |-> "handled", key |-> k]]
    /\ guest' = [guest EXCEPT ![i] = "committing"]
    /\ UNCHANGED <<store, agent, batch, past>>

(* runtime.commit between deliveries: no checkpoint, a key is required.    *)
Emit(i) ==
    /\ guest[i] = "free"
    /\ GateFree(i)
    /\ Room
    /\ \E k \in OwnKeys : greq' = [greq EXCEPT ![i] =
           [inst |-> i, expected |-> ckpt[i], moves |-> FALSE, after |-> 0,
            to |-> 0, how |-> "handled", key |-> OwnKey(i, k)]]
    /\ guest' = [guest EXCEPT ![i] = "publishing"]
    /\ UNCHANGED <<store, agent, batch, past>>

(* run_commit receives the receipt: the cache moves, the reply is sent.    *)
CommitLands(i) ==
    /\ guest[i] \in {"committing", "publishing"}
    /\ Accepts(greq[i])
    /\ Commit(greq[i])
    /\ IF guest[i] = "committing"
       THEN /\ ckpt' = [ckpt EXCEPT ![i] = greq[i].to]
            /\ reply' = [reply EXCEPT ![i] = "ok"]
            /\ batch' = [batch EXCEPT ![i] = NoBatch]
       ELSE UNCHANGED <<ckpt, reply, batch>>
    /\ greq' = [greq EXCEPT ![i] = NoRequest]
    /\ guest' = [guest EXCEPT ![i] = "free"]
    /\ UNCHANGED <<host, mail, hreq, cancelled, skipTo, past>>

(* A conflict goes back to the guest, which still holds the delivery.      *)
CommitFails(i) ==
    /\ guest[i] \in {"committing", "publishing"}
    /\ ~Accepts(greq[i])
    /\ greq' = [greq EXCEPT ![i] = NoRequest]
    /\ guest' = [guest EXCEPT ![i] = IF @ = "committing" THEN "working" ELSE "free"]
    /\ UNCHANGED <<store, agent, batch, past>>

(* runtime.reject: a failure the plugin reports.                           *)
Reject(i) ==
    /\ guest[i] = "working"
    /\ reply' = [reply EXCEPT ![i] = "err"]
    /\ batch' = [batch EXCEPT ![i] = NoBatch]
    /\ guest' = [guest EXCEPT ![i] = "free"]
    /\ UNCHANGED <<store, host, ckpt, mail, hreq, cancelled, skipTo, greq, past>>

(* Mutant of Die: a trap after the commit turns the reply into an error.   *)
DieOverwrites(i) ==
    /\ guest[i] \in {"free", "working"}
    /\ Fault
    /\ guest' = [guest EXCEPT ![i] = "dead"]
    /\ batch' = [batch EXCEPT ![i] = NoBatch]
    /\ reply' = [reply EXCEPT ![i] = IF host[i] \in {"sent", "waiting"} THEN "err" ELSE @]
    /\ UNCHANGED <<store, host, ckpt, mail, hreq, cancelled, skipTo, greq, late, overtaken>>

(* The source task traps or returns: whoever waits on it gets an error.    *)
Die(i) ==
    /\ guest[i] \in {"free", "working"}
    /\ Fault
    /\ guest' = [guest EXCEPT ![i] = "dead"]
    /\ batch' = [batch EXCEPT ![i] = NoBatch]
    /\ reply' = [reply EXCEPT ![i] =
           IF host[i] \in {"sent", "waiting"} /\ @ = "none" THEN "err" ELSE @]
    /\ UNCHANGED <<store, host, ckpt, mail, hreq, cancelled, skipTo, greq, late, overtaken>>

-----------------------------------------------------------------------------
(* A transaction that was running when its incarnation was dropped         *)
(* commits or is refused; one that was still queued is discarded.          *)
LateLands(r) ==
    /\ r \in late
    /\ Accepts(r)
    /\ Commit(r)
    /\ late' = late \ {r}
    /\ overtaken' = [overtaken EXCEPT ![r.inst] = @ \/ r.moves]
    /\ UNCHANGED <<agent, source, faults>>

LateFails(r) ==
    /\ r \in late
    /\ late' = late \ {r}
    /\ UNCHANGED <<store, agent, source, overtaken, faults>>

-----------------------------------------------------------------------------
HostStep(i) == \/ Instantiate(i) \/ Startup(i) \/ Offer(i) \/ Cancel(i) \/ Collect(i)
               \/ Replace(i) \/ Crash(i) \/ Skip(i) \/ SkipLands(i) \/ SkipFails(i)

GuestStep(i) == \/ Take(i) \/ Stream(i) \/ Propose(i) \/ Emit(i) \/ CommitLands(i)
                \/ CommitFails(i) \/ Reject(i) \/ Die(i)

Next == \/ Observe
        \/ \E i \in Instances : HostStep(i) \/ GuestStep(i)
        \/ \E r \in late : LateLands(r) \/ LateFails(r)

Spec == Init /\ [][Next]_vars

(* The executor runs every ready task and the store finishes every         *)
(* transaction.  A guest calls next between outputs, ends a cancelled      *)
(* delivery, and does not reject every attempt for ever.                   *)
Fairness ==
    \A i \in Instances :
        /\ WF_vars(Instantiate(i)) /\ WF_vars(Startup(i)) /\ WF_vars(Offer(i))
        /\ WF_vars(Collect(i)) /\ WF_vars(Replace(i))
        /\ WF_vars(host[i] = "recovering" /\ Skip(i)) /\ WF_vars(SkipLands(i))
        /\ SF_vars(Take(i)) /\ SF_vars(Propose(i)) /\ WF_vars(CommitLands(i))
        /\ WF_vars(cancelled[i] /\ Reject(i))

FairSpec == Spec /\ Fairness

-----------------------------------------------------------------------------
Requests == {r \in {greq[i] : i \in Instances} \cup {hreq[i] : i \in Instances} : r # NoRequest}

TypeOK ==
    /\ log \in Seq(Event)
    /\ cursor \in [Instances -> Nat]
    /\ applied \in [Instances -> Seq(Block)]
    /\ host \in [Instances -> {"down", "staged", "recovering", "idle", "sent", "waiting", "skipping"}]
    /\ ckpt \in [Instances -> Nat]
    /\ mail \in [Instances -> Batch]
    /\ reply \in [Instances -> {"none", "ok", "err"}]
    /\ hreq \in [Instances -> Request \cup {NoRequest}]
    /\ cancelled \in [Instances -> BOOLEAN]
    /\ skipTo \in [Instances -> Nat]
    /\ guest \in [Instances -> {"none", "free", "working", "committing", "publishing", "dead"}]
    /\ batch \in [Instances -> Batch]
    /\ greq \in [Instances -> Request \cup {NoRequest}]
    /\ late \subseteq Request
    /\ overtaken \in [Instances -> BOOLEAN]
    /\ faults \in Nat

(* Every position up to an instance's cursor was consumed by exactly one   *)
(* committed outcome, in stream order, whatever traps, crashes, restarts   *)
(* and late transactions happened: what a batch was polled from is where   *)
(* the stored cursor stood when its outcome landed (run_commit, skip).     *)
ConsumedOnce ==
    \A i \in Instances :
        /\ cursor[i] = IF applied[i] = <<>> THEN 0 ELSE applied[i][Len(applied[i])].to
        /\ \A n \in 1..Len(applied[i]) :
             /\ applied[i][n].from = IF n = 1 THEN 0 ELSE applied[i][n - 1].to
             /\ applied[i][n].from < applied[i][n].to

(* A result and the advance of the cursor it belongs to are both there or  *)
(* both missing, and no result is recorded twice (plugin.wit: a crash      *)
(* cannot leave a projection ahead of its cursor or a result recorded      *)
(* twice).                                                                 *)
ResultsMatchCursor ==
    /\ \A i \in Instances : \A n \in 1..Len(applied[i]) :
         applied[i][n].result # NoKey => Recorded(applied[i][n].result)
    /\ \A m \in 1..Len(log) : log[m].key.phase \in {"handle", "defer"} =>
         /\ \E n \in 1..Len(applied[log[m].by]) : applied[log[m].by][n].result = log[m].key
         /\ \A n \in 1..Len(log) : log[n].key = log[m].key => n = m

(* No transaction that the store would accept proposes a result under a    *)
(* derived key the stream already holds: deduplication, which answers with *)
(* the old event, never swallows a new result (derived_key, append_in).    *)
NothingSwallowed ==
    \A r \in Requests \cup late :
        Accepts(r) /\ r.key.phase \in {"handle", "defer"} => ~Recorded(r.key)

(* commit_gate keeps the two sides of an instance from invalidating each   *)
(* other: as long as no earlier incarnation moved the cursor, every        *)
(* transaction in flight still carries the stored cursor.                  *)
NoSelfConflict ==
    \A r \in Requests : ~overtaken[r.inst] => cursor[r.inst] = r.expected

(* The agent acts on the reply of a worker: after a success the batch is   *)
(* (partly) consumed; after an error nothing of it is, so that cancelling, *)
(* retrying or deferring it cannot contradict a committed outcome.         *)
ReplyIsHonest ==
    \A i \in Instances :
        host[i] \in {"sent", "waiting"} =>
            /\ reply[i] = "ok" => cursor[i] > mail[i].after
            /\ reply[i] = "err" /\ ~overtaken[i] => cursor[i] = mail[i].after

(* Delivery implements its promise: every step is one atomic consumption,  *)
(* one published event, or invisible.                                      *)
Promise == Abs!Spec

(* Every event is eventually consumed by every instance, after any finite  *)
(* number of traps, cancellations and crashes.                             *)
EverythingConsumed ==
    \A i \in Instances : \A p \in 1..MaxLog :
        Len(log) >= p ~> cursor[i] >= p
=============================================================================
