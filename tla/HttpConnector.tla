---------------------------- MODULE HttpConnector ----------------------------
(***************************************************************************)
(* The HTTP connector: the native listener (plugins/http/listener) holds   *)
(* requests in a bounded in-memory inbox while their callers wait, wakes   *)
(* the subscribed component (plugins/http/src/lib.rs) and answers its      *)
(* polls one request at a time; a poll acknowledges with the component's   *)
(* stored cursor, which counts only within one session of the listener.    *)
(***************************************************************************)
EXTENDS Naturals, Sequences, SequencesExt

CONSTANTS Requests, NoAnswer, MaxQueue, MaxSessions, MaxCrashes

VARIABLES
    session, sequence,  \* Inbox of the running listener
    queue,              \* its messages, [n, r]
    caller,             \* request -> "new", "waiting", "answered", "closed", "refused"
    pending,            \* requests with a response channel
    subscribed, woken,  \* the subscription, and a notification not read yet
    answer,             \* the poll answer the component is about to commit
    cursor, known,      \* its stored cursor and listener-session
    storedIn,           \* ghost: the session in which the cursor was stored
    events,             \* http.request.received events, by request id
    asked,              \* requests whose consumer emitted http.response.requested
    crashes
httpVars == <<session, sequence, queue, caller, pending, subscribed, woken, answer, cursor, known,
              storedIn, events, asked, crashes>>
listenerVars == <<session, sequence, queue, caller, pending>>
componentVars == <<cursor, known, storedIn, events, asked>>

Init ==
    /\ session = 1 /\ sequence = 0 /\ queue = << >> /\ caller = [r \in Requests |-> "new"]
    /\ pending = {} /\ subscribed = FALSE /\ woken = FALSE /\ answer = NoAnswer
    /\ cursor = 0 /\ known = 0 /\ storedIn = 1 /\ events = {} /\ asked = {} /\ crashes = 0

(* receive and enqueue: the queue bound refuses, otherwise everyone subscribed is told. *)
Receive(r) ==
    /\ caller[r] = "new"
    /\ IF Len(queue) = MaxQueue
       THEN caller' = [caller EXCEPT ![r] = "refused"] /\ UNCHANGED <<sequence, queue, pending, woken>>
       ELSE /\ caller' = [caller EXCEPT ![r] = "waiting"] /\ pending' = pending \cup {r}
            /\ sequence' = sequence + 1 /\ queue' = Append(queue, [n |-> sequence + 1, r |-> r])
            /\ woken' = subscribed
    /\ UNCHANGED <<session, subscribed, answer, componentVars, crashes>>

(* The deadline passed or the caller went away: Pending is dropped. *)
Close(r) ==
    /\ caller[r] = "waiting"
    /\ caller' = [caller EXCEPT ![r] = "closed"] /\ pending' = pending \ {r}
    /\ queue' = SelectSeq(queue, LAMBDA m : m.r # r)
    /\ UNCHANGED <<session, sequence, subscribed, woken, answer, componentVars, crashes>>

(* subscribe: a first notification when something is queued already. *)
Subscribe ==
    /\ ~subscribed /\ subscribed' = TRUE /\ woken' = (queue # << >>)
    /\ UNCHANGED <<listenerVars, answer, componentVars, crashes>>

(* poll: what the cursor covers leaves the inbox, if it is of this session;  *)
(* the front is returned, and more behind it notify again.                   *)
Covered(m) == m.n <= cursor
NotifyNever(q) == FALSE
Notify(q) == Len(q) > 1
Poll ==
    /\ subscribed /\ woken /\ answer = NoAnswer
    /\ LET q == IF known = session THEN SelectSeq(queue, LAMBDA m : ~Covered(m)) ELSE queue
       IN  /\ queue' = q /\ woken' = Notify(q)
           /\ answer' = [session |-> session, messages |-> IF q = << >> THEN << >> ELSE <<Head(q)>>]
    /\ UNCHANGED <<session, sequence, caller, pending, subscribed, componentVars, crashes>>

(* The commit after a poll: the event, deduplicated by its request id, the   *)
(* cursor when a message came, the session whenever it is a new one.         *)
Commit ==
    /\ answer # NoAnswer
    /\ known' = answer.session /\ answer' = NoAnswer
    /\ IF answer.messages = << >> THEN UNCHANGED <<cursor, storedIn, events>>
       ELSE /\ cursor' = answer.messages[1].n /\ storedIn' = answer.session
            /\ events' = events \cup {answer.messages[1].r}
    /\ UNCHANGED <<listenerVars, subscribed, woken, asked, crashes>>

(* The consumer asks for a response; handle forwards it, and may do so again *)
(* after a transport failure: the channel is taken out once.                 *)
Ask(r) ==
    /\ r \in events \ asked /\ asked' = asked \cup {r}
    /\ UNCHANGED <<listenerVars, subscribed, woken, answer, cursor, known, storedIn, events, crashes>>
Respond(r) ==
    /\ r \in asked /\ r \in pending
    /\ pending' = pending \ {r} /\ caller' = [caller EXCEPT ![r] = "answered"]
    /\ queue' = SelectSeq(queue, LAMBDA m : m.r # r)
    /\ UNCHANGED <<session, sequence, subscribed, woken, answer, componentVars, crashes>>

(* The agent's process dies, or the connection breaks: a poll is repeated.   *)
Break ==
    /\ crashes < MaxCrashes /\ crashes' = crashes + 1
    /\ subscribed' = FALSE /\ woken' = FALSE /\ answer' = NoAnswer
    /\ UNCHANGED <<listenerVars, componentVars>>

(* "Listener restarts discard queued requests and close connections." *)
ListenerRestart ==
    /\ session < MaxSessions /\ session' = session + 1
    /\ sequence' = 0 /\ queue' = << >> /\ pending' = {} /\ subscribed' = FALSE /\ woken' = FALSE
    /\ answer' = NoAnswer
    /\ caller' = [r \in Requests |-> IF caller[r] = "waiting" THEN "closed" ELSE caller[r]]
    /\ UNCHANGED <<componentVars, crashes>>

Component == Subscribe \/ Poll \/ Commit
Next == \/ Component \/ Break \/ ListenerRestart
        \/ \E r \in Requests : Receive(r) \/ Close(r) \/ Ask(r) \/ Respond(r)
Spec == Init /\ [][Next]_httpVars
FairSpec == Spec /\ WF_httpVars(Component)

Skipped(r) == caller[r] = "waiting" /\ r \notin events /\ \A i \in DOMAIN queue : queue[i].r # r

(* No lost wakeup: a queued request reaches the stream or leaves the inbox.  *)
InboxDrained == \A r \in Requests :
    (\E i \in DOMAIN queue : queue[i].r = r) ~> (r \in events \/ \A i \in DOMAIN queue : queue[i].r # r)

(* "A listener session ID prevents old cursors from skipping new requests    *)
(* after restart."                                                           *)
NoneSkipped == \A r \in Requests : ~Skipped(r)
==============================================================================
