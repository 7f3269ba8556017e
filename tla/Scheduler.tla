------------------------------ MODULE Scheduler ------------------------------
(***************************************************************************)
(* The scheduler plugin: timers and schedules as a projection of the       *)
(* stream (component.rs).  Its loop reads the stream page by page until it *)
(* has seen all of it, fires what is due, then waits for a delivery or the *)
(* clock.  Managing a schedule and firing one write the projection and a   *)
(* schedule.updated snapshot in the same commit.                           *)
(***************************************************************************)
EXTENDS Naturals, Sequences, FiniteSets, FiniteSetsExt, SequencesExt

CONSTANTS
    Timers, Schedules,  \* their ids
    Calendar,           \* the times at which a cron schedule occurs
    Delays,             \* how far ahead timers and one-time schedules are set
    Page,               \* events of one query, and of one firing up to its last schedule
    MaxTime, MaxOps, MaxWipes  \* bounds: time, requests, restarts

ASSUME SchedulerAssumption ==
    /\ IsFiniteSet(Timers) /\ IsFiniteSet(Schedules) /\ Timers \cap Schedules = {}
    /\ Calendar \subseteq Nat \ {0} /\ Delays \subseteq Nat \ {0} /\ Page \in Nat \ {0}

VARIABLES
    stream,    \* the events the scheduler reads, in order
    kept,      \* its state: timer: and schedule: keys, id -> entry or Absent
    through,   \* projection-through
    loopAt,    \* "refresh", "fire" or "wait"
    now, ops, wipes
schedulerVars == <<stream, kept, through, loopAt, now, ops, wipes>>

KeptIds == Timers \cup Schedules
Absent == [absent |-> TRUE]
NotDue == 0
Empty == [x \in KeptIds |-> Absent]
SchedulerInit ==
    /\ stream = << >> /\ kept = Empty /\ through = 0
    /\ loopAt = "refresh" /\ now = 1 /\ ops = 0 /\ wipes = 0

(* Timing: `at` and `after` happen once, cron whenever the calendar says.    *)
After(timing, t) ==
    LET later == {u \in Calendar : u > t}
    IN  IF timing = "cron" /\ later # {} THEN Min(later) ELSE NotDue
FirstTimes(timing, t) ==
    IF timing = "cron" THEN {After(timing, t)} \ {NotDue} ELSE {t + d : d \in Delays}

(* Other components: a timer.set, a timer.cancel by its owner or another,    *)
(* a schedule.updated that is not the scheduler's.                           *)
Set(t, due) == [kind |-> "set", id |-> t, due |-> due]
Cancel(t, own) == [kind |-> "cancel", id |-> t, own |-> own]
Updated(id, own, is) == [kind |-> "updated", id |-> id, own |-> own, is |-> is]
Named(x) == \E i \in DOMAIN stream : stream[i].id = x
AskTimer ==
    /\ ops < MaxOps /\ ops' = ops + 1
    /\ \/ \E t \in Timers, d \in {0} \cup Delays :
            ~Named(t) /\ now + d <= MaxTime /\ stream' = Append(stream, Set(t, now + d))
       \/ \E t \in Timers, own \in BOOLEAN : Named(t) /\ stream' = Append(stream, Cancel(t, own))
       \/ \E id \in Schedules : Named(id) /\ stream' = Append(stream, Updated(id, FALSE, Absent))
    /\ UNCHANGED <<kept, through, loopAt, now, wipes>>

(* refresh: one page; the last event that tells of an entry says what it is. *)
TellsAnyCancel(e) == e.kind \in {"set", "fired", "cancel"} \/ (e.kind = "updated" /\ e.own)
Tells(e) == e.kind \in {"set", "fired"} \/ (e.kind \in {"cancel", "updated"} /\ e.own)
Told(e) == CASE e.kind = "set" -> [due |-> e.due]
             [] e.kind = "updated" -> e.is
             [] OTHER -> Absent
Telling(log, x, from, to) == {i \in from + 1 .. to : log[i].id = x /\ Tells(log[i])}
Entry(log, f, x, from, to) ==
    IF Telling(log, x, from, to) = {} THEN f[x] ELSE Told(log[Max(Telling(log, x, from, to))])
Projected(f, from, to) == [x \in KeptIds |-> Entry(stream, f, x, from, to)]
Refresh ==
    /\ loopAt = "refresh"
    /\ IF through = Len(stream) THEN loopAt' = "fire" /\ UNCHANGED <<kept, through>>
       ELSE LET to == IF through + Page > Len(stream) THEN Len(stream) ELSE through + Page
            IN  kept' = Projected(kept, through, to) /\ through' = to /\ UNCHANGED loopAt
    /\ UNCHANGED <<stream, now, ops, wipes>>

(* fire: due timers, then schedules, while fewer than a page is proposed;    *)
(* the receipts and the new state in one commit; an event whose idempotency  *)
(* key is known is not appended again.                                       *)
DueTimers == {t \in Timers : kept[t] # Absent /\ kept[t].due <= now}
Occurring == {s \in Schedules : kept[s] # Absent /\ ~kept[s].paused /\ kept[s].next \in 1 .. now}
FirstPage(due, ran) ==
    /\ Cardinality(due) <= Page /\ (due = DueTimers \/ Cardinality(due) = Page)
    /\ ran # {} => Cardinality(due) + 2 * (Cardinality(ran) - 1) < Page
    /\ ran = Occurring \/ Cardinality(due) + 2 * Cardinality(ran) >= Page
TimerReceipt(t) == [kind |-> "fired", id |-> t]
Occurrence(s) == [kind |-> "observed", id |-> s, rev |-> kept[s].rev, due |-> kept[s].next]
Advanced(s) == [kept[s] EXCEPT !.next = After(kept[s].timing, now)]
SnapshotsNone(s) == {Occurrence(s)}
Snapshots(s) == {Occurrence(s), Updated(s, TRUE, Advanced(s))}
Committed(e) == \E i \in DOMAIN stream : stream[i] = e
Proposed(due, ran) ==
    {TimerReceipt(t) : t \in {u \in due : ~Committed(TimerReceipt(u))}} \cup
    UNION {Snapshots(s) : s \in {r \in ran : ~Committed(Occurrence(r))}}
FireDue ==
    /\ loopAt = "fire" /\ loopAt' = "wait"
    /\ \E due \in SUBSET DueTimers, ran \in SUBSET Occurring :
         /\ FirstPage(due, ran)
         /\ kept' = [x \in KeptIds |-> IF x \in due THEN Absent ELSE IF x \in ran THEN Advanced(x) ELSE kept[x]]
         /\ stream' = stream \o SetToSeq(Proposed(due, ran))
    /\ UNCHANGED <<through, now, ops, wipes>>

(* handle: one schedule capability; a snapshot and the projection together.  *)
Save(id, is) ==
    /\ stream' = Append(stream, Updated(id, TRUE, is))
    /\ kept' = [kept EXCEPT ![id] = is]
Created(timing, due) == [rev |-> 1, timing |-> timing, next |-> due, paused |-> FALSE]
Timed(timing) == {[timing |-> timing, next |-> due] : due \in FirstTimes(timing, now)}
Changes(s) ==
    {[s EXCEPT !.rev = @ + 1, !.paused = TRUE], [s EXCEPT !.rev = @ + 1]}
    \cup {[s EXCEPT !.rev = @ + 1, !.paused = p] : p \in IF s.next = NotDue THEN {} ELSE {FALSE}}
    \cup {[s EXCEPT !.rev = @ + 1, !.timing = t.timing, !.next = t.next] :
              t \in Timed("once") \cup Timed("cron")}
Manage ==
    /\ loopAt = "wait" /\ ops < MaxOps /\ ops' = ops + 1
    /\ \E id \in Schedules :
         \/ ~Named(id) /\ \E t \in Timed("once") \cup Timed("cron") : Save(id, Created(t.timing, t.next))
         \/ kept[id] # Absent /\ \E s \in Changes(kept[id]) \cup {Absent} : Save(id, s)
    /\ loopAt' \in {"wait", "refresh"}  \* the delivery may hold another request
    /\ UNCHANGED <<through, now, wipes>>

Clock ==
    /\ loopAt = "wait" /\ loopAt' = "refresh"
    /\ now' = IF now < MaxTime THEN now + 1 ELSE now
    /\ UNCHANGED <<stream, kept, through, ops, wipes>>
(* A restart begins the loop again; a rebuild also discards the state. *)
RestartLoop ==
    /\ wipes < MaxWipes /\ wipes' = wipes + 1 /\ loopAt' = "refresh"
    /\ \/ UNCHANGED <<kept, through>>
       \/ kept' = Empty /\ through' = 0
    /\ UNCHANGED <<stream, now, ops>>

Loop == Refresh \/ FireDue \/ Clock
SchedulerNext == AskTimer \/ Loop \/ Manage \/ RestartLoop
SchedulerSpec == SchedulerInit /\ [][SchedulerNext]_schedulerVars
SchedulerFairSpec == SchedulerSpec /\ WF_schedulerVars(Loop)

(* When the loop fires, its state is what a replay of the whole stream gives,*)
(* though it wrote part of it itself and read its own snapshots back later;  *)
(* so a rebuild loses no timer and repeats no occurrence.                    *)
ProjectionIsReplay ==
    /\ loopAt = "fire" => kept = Projected(Empty, 0, through)
    /\ \A i, j \in DOMAIN stream : i # j /\ stream[i].kind \in {"fired", "observed"} => stream[i] # stream[j]

(* A timer nobody cancelled with its owner's authority fires.               *)
TimerFires == \A t \in Timers :
    Named(t) ~> \E i \in DOMAIN stream : /\ stream[i].id = t
                                         /\ \/ stream[i].kind = "fired"
                                            \/ stream[i].kind = "cancel" /\ stream[i].own
==============================================================================
