------------------------------ MODULE Telegram ------------------------------
(***************************************************************************)
(* The Telegram receiver: one long poll at a time, whose updates become    *)
(* observations, or pending entries while they have media to download, in  *)
(* the same commit as the offset.  Every poll also tries one pending item, *)
(* rotating over the entries.                                              *)
(***************************************************************************)
EXTENDS Naturals, Sequences, SequencesExt, FiniteSets, FiniteSetsExt

CONSTANTS
    Kinds,      \* the updates Telegram will have, in order: "text", "media" or "strange"
    Items,      \* media items of a media update
    Attempts,   \* downloads tried for one item
    Limit,      \* updates in one response
    MaxCrashes

VARIABLES
    sent,       \* Telegram: how many updates it has
    dropped,    \* Telegram: the updates acknowledged by an offset
    offset,     \* state: updates up to here are taken
    pending,    \* state: pending-media entries, update -> items and the retry gate
    cursor,     \* state: media/cursor, 0 when absent
    response,   \* the response being processed, or << >>
    log,        \* the observations in the stream
    revoked,    \* the sender was removed from the trusted ones
    stopped, crashes
telegramVars == <<sent, dropped, offset, pending, cursor, response, log, revoked, stopped, crashes>>

None == 0
Nothing == [x \in {} |-> None]
Put(f, k, v) == [x \in DOMAIN f \cup {k} |-> IF x = k THEN v ELSE f[x]]
Drop(f, k) == [x \in DOMAIN f \ {k} |-> f[x]]
Ready == [status |-> "ready", tries |-> 0]
Failed == [status |-> "failed", tries |-> 0]
Waiting(n) == [status |-> "pending", tries |-> n]
IsPending(items) == \E i \in DOMAIN items : items[i].status = "pending"

Init ==
    /\ sent = 0 /\ dropped = 0 /\ offset = 0 /\ pending = Nothing /\ cursor = None
    /\ response = << >> /\ log = << >> /\ revoked = FALSE /\ stopped = FALSE /\ crashes = 0

Send ==
    /\ sent < Len(Kinds) /\ sent' = sent + 1
    /\ UNCHANGED <<dropped, offset, pending, cursor, response, log, revoked, stopped, crashes>>

(* poll_request and the fetch: the offset acknowledges what precedes it.     *)
Poll ==
    /\ ~stopped /\ response = << >>
    /\ dropped' = offset
    /\ response' = <<{u \in offset+1..sent : u <= offset + Limit}>>
    /\ UNCHANGED <<sent, offset, pending, cursor, log, revoked, stopped, crashes>>
(* The request or its answer fails: the loop backs off and polls again.      *)
PollFails ==
    /\ response # << >> /\ response' = << >>
    /\ UNCHANGED <<sent, dropped, offset, pending, cursor, log, revoked, stopped, crashes>>

(* normalize::updates keeps the known kinds of a trusted sender; a file that *)
(* Telegram describes without an id has failed before it is tried.           *)
Accepted(got) == {u \in got : Kinds[u] # "strange" /\ ~revoked}
Media(u) == IF Kinds[u] = "media" THEN [i \in 1..Items |-> Waiting(0)]
            ELSE IF Kinds[u] = "nofile" THEN [i \in 1..Items |-> Failed] ELSE << >>

(* fetch_pending: the first item still pending of the entry after the cursor.*)
AfterCursor == {u \in DOMAIN pending : u > cursor}
FailedOnceForgets(item, retryable) == IF retryable THEN item ELSE Failed
FailedOnce(item, retryable) ==
    IF retryable /\ item.tries + 1 < Attempts THEN Waiting(item.tries + 1) ELSE Failed
Downloads(items) ==
    LET i == Min({j \in DOMAIN items : items[j].status = "pending"})
    IN  {[items EXCEPT ![i] = r] :
            r \in {Ready, FailedOnce(items[i], TRUE), FailedOnce(items[i], FALSE)}}
Entry(items, gated) == [items |-> items, gated |-> gated]
(* What one scan leaves: the entries, the cursor and the observations. *)
Scanned(p, at, events) == [pending |-> p, cursor |-> at, events |-> events]
FetchPending ==
    IF AfterCursor = {} THEN {Scanned(pending, None, << >>)}
    ELSE LET u == Min(AfterCursor)
             e == pending[u]
         IN  IF revoked THEN {Scanned(Drop(pending, u), u, << >>)}
             ELSE IF e.gated THEN {Scanned(pending, u, << >>)}
             ELSE {IF IsPending(items) THEN Scanned(Put(pending, u, Entry(items, TRUE)), u, << >>)
                   ELSE Scanned(Drop(pending, u), u, <<u>>) : items \in Downloads(e.items)}

(* process_response and its commit, in which an idempotency key that is      *)
(* known appends nothing.                                                    *)
AppendOnce(l, u) == IF Contains(l, u) THEN l ELSE Append(l, u)
PollResponse(got) == {u \in got : IsPending(Media(u))}
Process ==
    /\ response # << >> /\ response' = << >>
    /\ LET got == response[1]
           later == PollResponse(Accepted(got))
           now == SetToSortSeq(Accepted(got) \ {u \in got : IsPending(Media(u))}, <)
       IN  \E f \in FetchPending :
             /\ log' = FoldLeft(AppendOnce, log, f.events \o now)
             /\ pending' = [u \in DOMAIN f.pending \cup later |->
                              IF u \in later THEN Entry(Media(u), FALSE) ELSE f.pending[u]]
             /\ cursor' = f.cursor
             /\ offset' = IF got = {} THEN offset ELSE Max(got)
    /\ UNCHANGED <<sent, dropped, revoked, stopped, crashes>>

(* The retry gate of the entries opens. *)
Clock ==
    /\ \E u \in DOMAIN pending : pending[u].gated
    /\ pending' = [u \in DOMAIN pending |-> [pending[u] EXCEPT !.gated = FALSE]]
    /\ UNCHANGED <<sent, dropped, offset, cursor, response, log, revoked, stopped, crashes>>

(* The process dies, before or after a commit, or the component stops; the   *)
(* next start reads its configuration again, in which the sender may be gone.*)
Halt ==
    /\ crashes < MaxCrashes /\ crashes' = crashes + 1 /\ ~stopped
    /\ stopped' = TRUE /\ response' = << >>
    /\ UNCHANGED <<sent, dropped, offset, pending, cursor, log, revoked>>
Start ==
    /\ stopped /\ stopped' = FALSE /\ revoked' \in {revoked, TRUE}
    /\ UNCHANGED <<sent, dropped, offset, pending, cursor, response, log, crashes>>

Loop == Poll \/ Process \/ Start
Next == Send \/ Loop \/ PollFails \/ Clock \/ Halt
FairSpec == Init /\ [][Next]_telegramVars
            /\ WF_telegramVars(Poll) /\ SF_telegramVars(Process) /\ WF_telegramVars(Start)
            /\ WF_telegramVars(Clock)

(* Every update of a trusted sender is observed in the end, whatever became   *)
(* of its media and of the media of the updates before it.                    *)
UpdateObserved == \A u \in DOMAIN Kinds :
    Kinds[u] # "strange" /\ sent >= u ~> Contains(log, u) \/ revoked
==============================================================================
