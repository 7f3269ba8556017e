---------------------------- MODULE DeliveryAbs ----------------------------
(***************************************************************************)
(* What a delivery promises (wit/plugin.wit, record outcome): the events,  *)
(* the state mutations and the advance of the cursor of one outcome are    *)
(* committed together or not at all, and every position of the stream is   *)
(* consumed by one commit only.  There is no host, no guest, no cached     *)
(* checkpoint and no crash here: one atomic step per committed outcome.    *)
(* An outcome's list of proposals is all or nothing, so one event stands   *)
(* for the list.                                                           *)
(***************************************************************************)
EXTENDS Integers, Sequences

CONSTANTS Instances,   \* component instances; each owns one cursor
          Outside      \* every producer that is not an instance

VARIABLES log,         \* the agent's event stream
          cursor,      \* cursor[i]: highest position instance i has consumed
          applied      \* applied[i]: the committed outcomes that moved it

absVars == <<log, cursor, applied>>

Phases == {"handle", "init", "defer", "own"}

(* Deduplication keys.  "at" is the checkpoint or the position the host    *)
(* derives the key from, or the idempotency key the plugin chose.          *)
Key == [phase : Phases, inst : Instances, at : Nat]
NoKey == [phase |-> "none", inst |-> Outside, at |-> 0]

Event == [by : Instances \cup {Outside}, key : Key \cup {NoKey}]

(* One committed outcome: it consumed the positions from+1 .. to, and      *)
(* "result" is the key of the result it recorded.                          *)
Block == [from : Nat, to : Nat, how : {"handled", "skipped"},
          result : Key \cup {NoKey}]

Recorded(l, k) == \E n \in 1..Len(l) : l[n].key = k

HandleKey(i, c) == [phase |-> "handle", inst |-> i, at |-> c]
DeferKey(i, p)  == [phase |-> "defer", inst |-> i, at |-> p]

Init == /\ log = <<>>
        /\ cursor = [i \in Instances |-> 0]
        /\ applied = [i \in Instances |-> <<>>]

(* One new event that is no delivery's result.                             *)
Publish ==
    /\ Len(log') = Len(log) + 1
    /\ LET e == log'[Len(log')]
       IN /\ e \in Event
          /\ e.key.phase # "handle"
          /\ e.key # NoKey => ~Recorded(log, e.key)
          /\ log' = Append(log, e)
    /\ UNCHANGED <<cursor, applied>>

(* An outcome consumes the positions up to "to" and records at most one    *)
(* result, under the key k.  A result keyed by the host is always new; one *)
(* keyed by the plugin is the event already recorded under that key.       *)
Consume(i, to, how, k) ==
    /\ to \in (cursor[i] + 1)..Len(log)
    /\ cursor' = [cursor EXCEPT ![i] = to]
    /\ applied' = [applied EXCEPT ![i] = Append(@,
           [from |-> cursor[i], to |-> to, how |-> how, result |-> k])]
    /\ IF k = NoKey \/ (k.phase = "own" /\ Recorded(log, k))
       THEN log' = log
       ELSE ~Recorded(log, k) /\ log' = Append(log, [by |-> i, key |-> k])

Handle(i, to) ==
    \E k \in {NoKey, HandleKey(i, cursor[i])} : Consume(i, to, "handled", k)

HandleOwn(i, to) ==
    /\ Len(applied'[i]) = Len(applied[i]) + 1
    /\ LET k == applied'[i][Len(applied'[i])].result
       IN k \in Key /\ k.phase = "own" /\ Consume(i, to, "handled", k)

Skip(i, to) ==
    \E k \in {NoKey, DeferKey(i, to)} : Consume(i, to, "skipped", k)

Next == \/ Publish
        \/ \E i \in Instances, to \in 1..Len(log) :
               Handle(i, to) \/ HandleOwn(i, to) \/ Skip(i, to)

Spec == Init /\ [][Next]_absVars
=============================================================================
