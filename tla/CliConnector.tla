---------------------------- MODULE CliConnector ----------------------------
(***************************************************************************)
(* The terminal connector: the bridge (plugins/cli/bridge) numbers typed   *)
(* lines and answers long polls, one thread per connection; the component  *)
(* (plugins/cli/client) polls with its stored cursor and commits the       *)
(* observations together with the next cursor.  Sessions tell one run of   *)
(* the bridge from another.  A poll takes its lines out of the inbox.      *)
(* Lines are in the order of their numbers wherever several are kept, so   *)
(* the inbox and a response are sets of numbers.                           *)
(***************************************************************************)
EXTENDS Naturals, Sequences, FiniteSetsExt

CONSTANTS
    MaxMessages,                              \* lines of one response
    MaxTyped, MaxPolls, MaxSessions, MaxBreaks  \* bounds: lines, polls, runs of the bridge, failures

ASSUME CliAssumption == MaxMessages \in Nat \ {0} /\ MaxPolls \in Nat

VARIABLES
    session, next,  \* of the running bridge: its id, the last number given
    inputInbox,     \* lines typed and not handed out
    typed, gone,    \* ghosts: lines typed; lines lost with a connection
    polls,          \* poll -> cursor it was sent with: threads waiting in wait_for_input
    mine,           \* the poll whose connection the component holds, or NoPoll
    response,       \* what that connection carries: [session, lines], or NoResponse
    inputCursor,    \* input/cursor, durable with the observations
    inputObserved,  \* the responses committed, without lines observed before (idempotency key)
    said,           \* the reply to the terminal: "none", "sent", "completed" or "failed"
    printed,        \* times it was printed
    running, breaks
cliVars == <<session, next, inputInbox, typed, gone, polls, mine, response, inputCursor, inputObserved,
             said, printed, running, breaks>>

NoPoll == 0
Response(s, lines) == [session |-> s, lines |-> lines]
NoResponse == Response(0, {})
Cursor(s, n) == [session |-> s, sequence |-> n]
CliInit ==
    /\ session = 1 /\ next = 0 /\ inputInbox = {} /\ typed = {} /\ gone = {}
    /\ polls = << >> /\ mine = NoPoll /\ response = NoResponse
    /\ inputCursor = Cursor(0, 0) /\ inputObserved = << >>
    /\ said = "none" /\ printed = 0 /\ running = TRUE /\ breaks = 0

(* read_terminal: one line. *)
Type ==
    /\ Cardinality(typed) < MaxTyped
    /\ next' = next + 1 /\ inputInbox' = inputInbox \cup {next + 1}
    /\ typed' = typed \cup {<<session, next + 1>>}
    /\ UNCHANGED <<session, gone, polls, mine, response, inputCursor, inputObserved, said, printed, running, breaks>>

(* run: connect and send poll_request with the stored cursor; the bridge     *)
(* starts a thread for the connection (spawn_connection, handle).            *)
Poll ==
    /\ running /\ mine = NoPoll /\ 1 .. MaxPolls \ DOMAIN polls # {}
    /\ LET k == Min(1 .. MaxPolls \ DOMAIN polls)
       IN  mine' = k /\ polls' = [q \in DOMAIN polls \cup {k} |-> IF q = k THEN inputCursor ELSE polls[q]]
    /\ UNCHANGED <<session, next, inputInbox, typed, gone, response, inputCursor, inputObserved, said, printed,
                   running, breaks>>

EffectiveAfterKept(p) == p.sequence
EffectiveAfter(p) == IF p.session = session THEN p.sequence ELSE 0
NewLines(p) == {n \in inputInbox : n > EffectiveAfter(p)}
(* The first of them: at most MaxMessages, fewer where they do not fit.      *)
PendingLines(p) == {lines \in SUBSET NewLines(p) :
    /\ lines # {} /\ Cardinality(lines) <= MaxMessages
    /\ \A n \in lines, m \in NewLines(p) : m < n => m \in lines}
Sent(r) == {<<r.session, n>> : n \in r.lines}
InFlight == Sent(response)
End(k) == polls' = [q \in DOMAIN polls \ {k} |-> polls[q]]

(* wait_for_input under the lock: lines leave the inbox with the response,   *)
(* which nobody reads when the connection is gone; or the wait times out.    *)
HandOver(k) ==
    /\ k \in DOMAIN polls
    /\ \E lines \in PendingLines(polls[k]) :
           /\ inputInbox' = {n \in inputInbox : n > Max(lines)}
           /\ response' = IF k = mine THEN Response(session, lines) ELSE response
           /\ gone' = IF k = mine THEN gone ELSE gone \cup Sent(Response(session, lines))
    /\ End(k)
    /\ UNCHANGED <<session, next, typed, mine, inputCursor, inputObserved, said, printed, running, breaks>>
TimesOut(k) ==
    /\ k \in DOMAIN polls /\ NewLines(polls[k]) = {}
    /\ response' = IF k = mine THEN Response(session, {}) ELSE response
    /\ End(k)
    /\ UNCHANGED <<session, next, inputInbox, typed, gone, mine, inputCursor, inputObserved, said, printed,
                   running, breaks>>

(* process_bytes and commit: observations and the cursor in one transaction. *)
CursorAfter(r) ==
    Cursor(r.session, IF r.lines # {} THEN Max(r.lines)
                      ELSE IF inputCursor.session = r.session THEN inputCursor.sequence ELSE 0)
Observed == UNION {Sent(inputObserved[i]) : i \in DOMAIN inputObserved}
Unobserved(r) == Response(r.session, {n \in r.lines : <<r.session, n>> \notin Observed})
CommitLines ==
    /\ running /\ mine # NoPoll /\ response # NoResponse
    /\ inputObserved' = IF Unobserved(response).lines = {} THEN inputObserved
                        ELSE Append(inputObserved, Unobserved(response))
    /\ inputCursor' = CursorAfter(response)
    /\ mine' = NoPoll /\ response' = NoResponse
    /\ UNCHANGED <<session, next, inputInbox, typed, gone, polls, said, printed, running, breaks>>

(* The connection breaks or the read fails: retried after a delay. *)
Disconnect ==
    /\ running /\ mine # NoPoll /\ breaks < MaxBreaks /\ breaks' = breaks + 1
    /\ mine' = NoPoll /\ response' = NoResponse /\ gone' = gone \cup InFlight
    /\ UNCHANGED <<session, next, inputInbox, typed, polls, inputCursor, inputObserved, said, printed, running>>
AgentCrash ==
    /\ running /\ breaks < MaxBreaks /\ breaks' = breaks + 1
    /\ running' = FALSE /\ said' = (IF said = "sent" THEN "failed" ELSE said)
    /\ mine' = NoPoll /\ response' = NoResponse /\ gone' = gone \cup InFlight
    /\ UNCHANGED <<session, next, inputInbox, typed, polls, inputCursor, inputObserved, printed>>
AgentStart ==
    /\ ~running /\ running' = TRUE
    /\ UNCHANGED <<session, next, inputInbox, typed, gone, polls, mine, response, inputCursor, inputObserved,
                   said, printed, breaks>>

(* cli.reply on a connection of its own: the bridge prints, then receipts;   *)
(* without a receipt the request fails, printed or not.                      *)
inputVars == <<session, next, inputInbox, typed, gone, polls, mine, response, inputCursor, inputObserved>>
SendReply ==
    /\ running /\ said = "none" /\ said' = "sent"
    /\ UNCHANGED <<inputVars, printed, running, breaks>>
PrintReply ==
    /\ said \in {"sent", "failed"} /\ printed = 0 /\ printed' = 1
    /\ UNCHANGED <<inputVars, said, running, breaks>>
Receipt ==
    /\ running /\ said = "sent"
    /\ \/ printed = 1 /\ said' = "completed"
       \/ said' = "failed"
    /\ UNCHANGED <<inputVars, printed, running, breaks>>

(* A new run of the bridge: a fresh session, an empty inbox, numbers from 1. *)
BridgeRestart ==
    /\ session < MaxSessions /\ session' = session + 1
    /\ next' = 0 /\ inputInbox' = {} /\ polls' = << >> /\ mine' = NoPoll /\ response' = NoResponse
    /\ UNCHANGED <<typed, gone, inputCursor, inputObserved, said, printed, running, breaks>>

Bridge(k) == HandOver(k) \/ TimesOut(k)
CliNext == \/ SendReply \/ PrintReply \/ Receipt
           \/ Type \/ Poll \/ CommitLines \/ Disconnect \/ AgentCrash \/ AgentStart \/ BridgeRestart
           \/ \E k \in 1 .. MaxPolls : Bridge(k)
CliSpec == CliInit /\ [][CliNext]_cliVars

(* Lines of one run of the bridge are observed in the order they were typed, *)
(* each at most once; a line is missing only when its connection broke: the  *)
(* cursor of an earlier run of the bridge hides none.                        *)
InOrder == \A i, j \in DOMAIN inputObserved : i < j =>
    \/ inputObserved[i].session < inputObserved[j].session
    \/ /\ inputObserved[i].session = inputObserved[j].session
       /\ \A m \in inputObserved[i].lines, n \in inputObserved[j].lines : m < n
Accounted(n) == n \in inputInbox \/ <<session, n>> \in InFlight \cup Observed \cup gone
InputInOrder == InOrder /\ \A n \in 1 .. next : Accounted(n)
=============================================================================
