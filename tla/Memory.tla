------------------------------- MODULE Memory -------------------------------
(***************************************************************************)
(* The memory plugin and the host's rebuild of a plugin's projection.      *)
(* Every accepted write is a change event in the log, committed together   *)
(* with its effect on the plugin's state (records, the head of every chain *)
(* of versions, a count and one receipt per operation).  State may be      *)
(* discarded between runs of the agent; before the plugin is activated the *)
(* host hands the plugin's own changes to its handler again, a page per    *)
(* commit, with a marker for how far it came.  A record has the identity   *)
(* of the operation that wrote it.                                         *)
(***************************************************************************)
EXTENDS Integers, Sequences, FiniteSets, FiniteSetsExt

CONSTANTS
    MemoryRequests,  \* the writes that may be asked for: [op, kind, of]
    ForeignOps,      \* operations another instance may have used
    Forgotten,       \* the head of a chain that was forgotten
    MaxRecords,      \* max_records
    MemoryBatch,     \* events in one delivery, and changes in one rebuilt page
    MaxAsks,         \* bound: writes asked for
    MaxForeign,      \* bound: changes written by another instance
    MaxStops         \* bound: stops of the agent

ASSUME MemoryAssumption == MemoryBatch \in Nat \ {0}

VARIABLES
    memoryLog, \* the agent's stream
    kv,       \* the plugin's state
    served,   \* its delivery cursor
    phase,    \* "down", "rebuilding", "restoring" a page, "active" or "handling" a delivery
    draft,    \* what the handler has done so far: [state, events]
    unhandled,     \* the events it still has to handle
    upto,     \* the last event of its batch
    after,    \* the rebuild's position
    high,     \* the rebuild's end
    stops

memoryVars == << memoryLog, kv, served, phase, draft, unhandled, upto, after, high, stops >>

NoKeys == [o \in {} |-> 0]
NoMemory ==
    [records |-> NoKeys,  \* id -> [root, of]
     heads   |-> NoKeys,  \* root -> current id, or Forgotten
     ops     |-> NoKeys,  \* operation -> what it did
     count   |-> 0,
     marker  |-> 0]
DraftOf(state, events) == [state |-> state, events |-> events]
NoDraft == DraftOf(NoMemory, << >>)

With(f, k, v) == [x \in DOMAIN f \cup {k} |-> IF x = k THEN v ELSE f[x]]

IsChange(e) == e.type = "change"
Own(e) == IsChange(e) /\ e.actor = "self"
HeadAfter(c) == IF c.kind = "forget" THEN Forgotten ELSE c.op

(* Engine::apply: a change whose operation has a receipt is not applied     *)
(* again (one with another receipt is an error; the plugin's own changes    *)
(* never have one).  The mutant applies it.                                 *)
Effect(state, c) ==
    [records |-> IF c.kind = "forget" THEN state.records
                 ELSE With(state.records, c.op, [root |-> c.root, of |-> c.of]),
     heads   |-> With(state.heads, c.root, HeadAfter(c)),
     ops     |-> With(state.ops, c.op, [kind |-> c.kind, of |-> c.of]),
     count   |-> IF c.kind = "forget" THEN state.count ELSE state.count + 1,
     marker  |-> state.marker]
ApplyAgain(state, c) == Effect(state, c)
Apply(state, c) == IF c.op \in DOMAIN state.ops THEN state ELSE Effect(state, c)

IsCurrent(state, id) ==
    /\ id \in DOMAIN state.records
    /\ state.heads[state.records[id].root] = id

(* The change a write makes, as the event that records it.                  *)
ChangeOf(state, r) ==
    [type |-> "change", actor |-> "self", op |-> r.op, kind |-> r.kind, of |-> r.of,
     root |-> IF r.kind = "remember" THEN r.op ELSE state.records[r.of].root]

AnswerTo(seq, verdict) == [type |-> "answer", request |-> seq, verdict |-> verdict]

(* Engine::execute: what a request makes of a draft.  An operation seen     *)
(* before returns its receipt, or conflicts with another use of its name.   *)
MemoryVerdict(state, r) ==
    IF r.op \in DOMAIN state.ops
    THEN IF state.ops[r.op] = [kind |-> r.kind, of |-> r.of] THEN "completed" ELSE "operation-conflict"
    ELSE IF r.kind # "remember" /\ ~IsCurrent(state, r.of) THEN "conflict"
    ELSE IF r.kind # "forget" /\ state.count >= MaxRecords THEN "capacity-exceeded"
    ELSE "written"
ExecuteWrite(d, r, seq) ==
    LET c == ChangeOf(d.state, r)
        verdict == MemoryVerdict(d.state, r)
    IN  IF verdict = "written"
        THEN DraftOf(Apply(d.state, c), Append(Append(d.events, c), AnswerTo(seq, "completed")))
        ELSE DraftOf(d.state, Append(d.events, AnswerTo(seq, verdict)))

IsAnswered(seq) == \E i \in 1 .. Len(memoryLog) : memoryLog[i].type = "answer" /\ memoryLog[i].request = seq

------------------------------------------------------------------------------
MemoryInit ==
    /\ memoryLog = << >> /\ kv = NoMemory /\ served = 0 /\ phase = "active"
    /\ draft = NoDraft /\ unhandled = {} /\ upto = 0 /\ after = 0 /\ high = 0 /\ stops = 0

(* A write is asked for, possibly one that was asked for before.            *)
AskWrite ==
    /\ Cardinality({i \in 1 .. Len(memoryLog) : memoryLog[i].type = "request"}) < MaxAsks
    /\ \E r \in MemoryRequests :
         memoryLog' = Append(memoryLog, [type |-> "request", op |-> r.op, kind |-> r.kind, of |-> r.of])
    /\ UNCHANGED << kv, served, phase, draft, unhandled, upto, after, high, stops >>

(* Another instance's change is in the same stream.                         *)
ForeignChange ==
    /\ Cardinality({i \in 1 .. Len(memoryLog) : IsChange(memoryLog[i]) /\ ~Own(memoryLog[i])}) < MaxForeign
    /\ \E o \in ForeignOps :
         memoryLog' = Append(memoryLog, [type |-> "change", actor |-> "other", op |-> o,
                             kind |-> "remember", of |-> o, root |-> o])
    /\ UNCHANGED << kv, served, phase, draft, unhandled, upto, after, high, stops >>

(* handle, for a delivery and for a page of the rebuild: events in order.   *)
Begin(batch, last) == draft' = DraftOf(kv, << >>) /\ unhandled' = batch /\ upto' = last
TakeDelivery ==
    /\ phase = "active" /\ served < Len(memoryLog) /\ phase' = "handling"
    /\ LET end == IF served + MemoryBatch < Len(memoryLog) THEN served + MemoryBatch ELSE Len(memoryLog)
       IN  Begin(served + 1 .. end, end)
    /\ UNCHANGED << memoryLog, kv, served, after, high, stops >>
Handled(d, seq) ==
    CASE Own(memoryLog[seq]) -> DraftOf(Apply(d.state, memoryLog[seq]), d.events)
      [] memoryLog[seq].type = "request" /\ ~IsAnswered(seq) -> ExecuteWrite(d, memoryLog[seq], seq)
      [] OTHER -> d
HandleNext ==
    /\ phase \in {"handling", "restoring"} /\ unhandled # {}
    /\ draft' = Handled(draft, Min(unhandled)) /\ unhandled' = unhandled \ {Min(unhandled)}
    /\ UNCHANGED << memoryLog, kv, served, phase, upto, after, high, stops >>
(* A delivery is committed with its events, its state and its cursor.       *)
CommitDelivery ==
    /\ phase = "handling" /\ unhandled = {} /\ phase' = "active"
    /\ kv' = draft.state /\ memoryLog' = memoryLog \o draft.events /\ served' = upto
    /\ draft' = NoDraft /\ upto' = 0
    /\ UNCHANGED << unhandled, after, high, stops >>

(* The agent stops; while it is down the plugin's state and cursor may be   *)
(* discarded.                                                               *)
StopMemory ==
    /\ phase # "down" /\ stops < MaxStops /\ stops' = stops + 1
    /\ phase' = "down" /\ draft' = NoDraft /\ unhandled' = {} /\ upto' = 0
    /\ UNCHANGED << memoryLog, kv, served, after, high >>
DiscardState ==
    /\ phase = "down" /\ kv # NoMemory /\ kv' = NoMemory /\ served' = 0
    /\ UNCHANGED << memoryLog, phase, draft, unhandled, upto, after, high, stops >>

(* rebuild: from the marker to the last change there is, of any actor.      *)
ChangesAfter(n) == {i \in 1 .. Len(memoryLog) : i > n /\ IsChange(memoryLog[i])}
StartRebuild ==
    /\ phase = "down" /\ phase' = "rebuilding" /\ after' = kv.marker
    /\ high' = Max({kv.marker} \cup ChangesAfter(kv.marker))
    /\ UNCHANGED << memoryLog, kv, served, draft, unhandled, upto, stops >>
(* A page: the plugin's own changes in it, committed with the marker.       *)
PageAfter(n) ==
    LET rest == {i \in ChangesAfter(n) : i <= high}
    IN  {i \in rest : Cardinality({j \in rest : j < i}) < MemoryBatch}
ReadPage ==
    /\ phase = "rebuilding" /\ PageAfter(after) # {} /\ phase' = "restoring"
    /\ Begin({i \in PageAfter(after) : Own(memoryLog[i])}, Max(PageAfter(after)))
    /\ UNCHANGED << memoryLog, kv, served, after, high, stops >>
Marked(state, n) ==
    [records |-> state.records, heads |-> state.heads, ops |-> state.ops, count |-> state.count, marker |-> n]
CommitPage ==
    /\ phase = "restoring" /\ unhandled = {} /\ phase' = "rebuilding"
    /\ kv' = Marked(draft.state, upto) /\ after' = upto /\ draft' = NoDraft /\ upto' = 0
    /\ UNCHANGED << memoryLog, served, unhandled, high, stops >>
Activate ==
    /\ phase = "rebuilding" /\ PageAfter(after) = {} /\ phase' = "active"
    /\ UNCHANGED << memoryLog, kv, served, draft, unhandled, upto, after, high, stops >>

MemoryNext ==
    \/ AskWrite \/ ForeignChange
    \/ TakeDelivery \/ HandleNext \/ CommitDelivery
    \/ StopMemory \/ DiscardState
    \/ StartRebuild \/ ReadPage \/ CommitPage \/ Activate
MemorySpec == MemoryInit /\ [][MemoryNext]_memoryVars

------------------------------------------------------------------------------
(* What a log says, without the plugin.                                     *)
Mine(L) == {i \in 1 .. Len(L) : Own(L[i])}
Written(L, P) == {i \in P : L[i].kind # "forget"}
Touching(L, P, root) == {i \in P : L[i].root = root}
Opening(L, P) == {L[i].op : i \in Written(L, P)}
Rooted(L, P) == {L[i].root : i \in P}

(* While the plugin serves, its projection is exactly what its own changes  *)
(* in the log say, through stops, discarded state and interrupted rebuilds, *)
(* and through changes another instance wrote: no record is missing, counted*)
(* twice or brought back after it was forgotten.  An operation changes      *)
(* something at most once, however often it is asked for.                   *)
ProjectionSurvives ==
    /\ \A i, j \in Mine(memoryLog) : memoryLog[i].op = memoryLog[j].op => i = j
    /\ phase \in {"active", "handling"} =>
         /\ DOMAIN kv.records = Opening(memoryLog, Mine(memoryLog))
         /\ kv.count = Cardinality(Written(memoryLog, Mine(memoryLog)))
         /\ DOMAIN kv.heads = Rooted(memoryLog, Mine(memoryLog))
         /\ \A root \in DOMAIN kv.heads :
              kv.heads[root] = HeadAfter(memoryLog[Max(Touching(memoryLog, Mine(memoryLog), root))])
==============================================================================
