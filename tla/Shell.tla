-------------------------------- MODULE Shell --------------------------------
(***************************************************************************)
(* The shell plugin: the component (client/src/lib.rs) sends a request to  *)
(* the executor (executor/src/executor.rs) over a local socket and waits   *)
(* for its one result; the executor serves one connection at a time, runs  *)
(* the command in a process group, and relays the core requests that the   *)
(* command makes with pluribus-shell-cli (helper.rs) through a bridge      *)
(* thread and the same socket.  Closing the socket cancels the command.    *)
(***************************************************************************)
EXTENDS Naturals, Sequences

CONSTANTS Commands, Nobody, MaxCalls   \* MaxCalls bounds the core calls of a command

(* The executor that serves nobody serves no command.                        *)
ASSUME ShellAssumption == Nobody \notin Commands

VARIABLES
    client,     \* request -> "new", "waiting", "completed", "failed"
    open,       \* requests whose connection the component holds open
    backlog,    \* connections the executor has not accepted
    at, cur,    \* where the executor is, and the request it serves
    result,     \* the response to write
    readable,   \* request -> what the component can read: "", "core", or a response
    proc,       \* request -> "none", "running", "exited", "killed"
    worker,     \* the bridge thread: "none", "idle", "pending", "ended"
    reply,      \* a core reply is on its way to the executor
    calls
shellVars == <<client, open, backlog, at, cur, result, readable, proc, worker, reply, calls>>

ShellInit ==
    /\ client = [c \in Commands |-> "new"] /\ open = {} /\ backlog = << >>
    /\ at = "accept" /\ cur = Nobody /\ result = "" /\ readable = [c \in Commands |-> ""]
    /\ proc = [c \in Commands |-> "none"] /\ worker = "none" /\ reply = FALSE /\ calls = 0

ComponentFree == \A c \in Commands : client[c] # "waiting"   \* the component handles one event at a time
Settle(c, as) == client' = [client EXCEPT ![c] = as] /\ open' = open \ {c}

(* run: bad arguments fail at once; else the request goes out on a new socket. *)
Refuse(c) ==
    /\ ComponentFree /\ client[c] = "new" /\ Settle(c, "failed")
    /\ UNCHANGED <<backlog, at, cur, result, readable, proc, worker, reply, calls>>
Connect(c) ==
    /\ ComponentFree /\ client[c] = "new"
    /\ client' = [client EXCEPT ![c] = "waiting"] /\ open' = open \cup {c}
    /\ backlog' = Append(backlog, c)
    /\ UNCHANGED <<at, cur, result, readable, proc, worker, reply, calls>>

(* exchange: a core request is answered, by its bytes or its error; the      *)
(* result ends the exchange; so does the timeout, or a cancelled delivery.   *)
ClientCore(c) ==
    /\ client[c] = "waiting" /\ readable[c] = "core"
    /\ reply' = TRUE /\ readable' = [readable EXCEPT ![c] = ""]
    /\ UNCHANGED <<client, open, backlog, at, cur, result, proc, worker, calls>>
ClientReads(c) ==
    /\ client[c] = "waiting" /\ readable[c] \notin {"", "core"}
    /\ Settle(c, IF readable[c] = "completed" THEN "completed" ELSE "failed")
    /\ UNCHANGED <<backlog, at, cur, result, readable, proc, worker, reply, calls>>
ClientGivesUp(c) ==
    /\ client[c] = "waiting" /\ Settle(c, "failed")
    /\ UNCHANGED <<backlog, at, cur, result, readable, proc, worker, reply, calls>>

(* serve: one connection at a time. *)
Accept ==
    /\ at = "accept" /\ backlog # << >>
    /\ cur' = Head(backlog) /\ backlog' = Tail(backlog) /\ at' = "start"
    /\ UNCHANGED <<client, open, result, readable, proc, worker, reply, calls>>

Disconnected == cur \notin open \/ reply   \* end of stream, or a byte nobody asked for
AnswerWith(r, next) == result' = r /\ at' = next

(* execute_configured_inner, before the command: cancelled, failed or begun. *)
Begin ==
    /\ at = "start"
    /\ \/ Disconnected /\ AnswerWith("cancelled", "reply") /\ UNCHANGED <<proc, worker, calls>>
       \/ ~Disconnected /\ AnswerWith("unavailable", "reply") /\ UNCHANGED <<proc, worker, calls>>
       \/ /\ ~Disconnected /\ AnswerWith("", "loop")
          /\ proc' = [proc EXCEPT ![cur] = "running"] /\ worker' = "idle" /\ calls' = 0
    /\ UNCHANGED <<client, open, backlog, cur, readable, reply>>

(* The command by itself: it exits, or asks the core for something. *)
Exits ==
    /\ cur # Nobody /\ proc[cur] = "running" /\ at \in {"loop", "core"}
    /\ proc' = [proc EXCEPT ![cur] = "exited"]
    /\ UNCHANGED <<client, open, backlog, at, cur, result, readable, worker, reply, calls>>
Asks ==
    /\ at = "loop" /\ proc[cur] = "running" /\ worker = "idle" /\ calls < MaxCalls
    /\ worker' = "pending" /\ calls' = calls + 1
    /\ UNCHANGED <<client, open, backlog, at, cur, result, readable, proc, reply>>

(* One turn of the loop. *)
Cancelled ==
    /\ at = "loop" /\ Disconnected /\ AnswerWith("cancelled", "drop")
    /\ UNCHANGED <<client, open, backlog, cur, readable, proc, worker, reply, calls>>
Deadline ==
    /\ at = "loop" /\ ~Disconnected /\ AnswerWith("deadline", "drop")
    /\ UNCHANGED <<client, open, backlog, cur, readable, proc, worker, reply, calls>>
TakeCore ==
    /\ at = "loop" /\ ~Disconnected /\ worker = "pending" /\ readable[cur] = ""
    /\ at' = "core" /\ readable' = [readable EXCEPT ![cur] = "core"]
    /\ UNCHANGED <<client, open, backlog, cur, result, proc, worker, reply, calls>>
Collect ==
    /\ at = "loop" /\ ~Disconnected /\ proc[cur] = "exited" /\ AnswerWith("completed", "drop")
    /\ UNCHANGED <<client, open, backlog, cur, readable, proc, worker, reply, calls>>

(* core_round_trip: the reply goes to the bridge; the deadline or a closed   *)
(* socket ends the command.                                                  *)
CoreAnswered ==
    /\ at = "core" /\ reply
    /\ reply' = FALSE /\ worker' = "idle" /\ at' = "loop"
    /\ UNCHANGED <<client, open, backlog, cur, result, readable, proc, calls>>
CoreFails ==
    /\ at = "core" /\ ~reply /\ AnswerWith("unavailable", "drop")
    /\ UNCHANGED <<client, open, backlog, cur, readable, proc, worker, reply, calls>>

(* Leaving the function drops the activity, which kills the process group,   *)
(* then the bridge, which stops and joins its thread; a thread that waits    *)
(* for a core reply looks at the stop flag every 100 ms.                     *)
KillNothing(c) == proc[c]
Kill(c) == IF proc[c] = "running" THEN "killed" ELSE proc[c]
DropActivity ==
    /\ at = "drop" /\ proc' = [proc EXCEPT ![cur] = Kill(cur)] /\ at' = "join"
    /\ UNCHANGED <<client, open, backlog, cur, result, readable, worker, reply, calls>>
WorkerStuck(w) == w = "idle"
WorkerSees(w) == w \in {"idle", "pending"}
WorkerEnds ==
    /\ at = "join" /\ WorkerSees(worker) /\ worker' = "ended"
    /\ UNCHANGED <<client, open, backlog, at, cur, result, readable, proc, reply, calls>>
Join ==
    /\ at = "join" /\ worker = "ended" /\ at' = "reply"
    /\ UNCHANGED <<client, open, backlog, cur, result, readable, proc, worker, reply, calls>>
Reply ==
    /\ at = "reply" /\ at' = "accept" /\ cur' = Nobody /\ worker' = "none"
    /\ readable' = [readable EXCEPT ![cur] = IF cur \in open THEN result ELSE @]
    /\ reply' = FALSE /\ result' = ""
    /\ UNCHANGED <<client, open, backlog, proc, calls>>

Executor == Accept \/ Begin \/ Cancelled \/ Deadline \/ TakeCore \/ Collect \/ CoreAnswered
            \/ CoreFails \/ DropActivity \/ WorkerEnds \/ Join \/ Reply
ShellComponent(c) == Refuse(c) \/ Connect(c) \/ ClientCore(c) \/ ClientReads(c)
ShellNext == Executor \/ Exits \/ Asks \/ \E c \in Commands : ShellComponent(c) \/ ClientGivesUp(c)
ShellSpec == ShellInit /\ [][ShellNext]_shellVars
ShellFairSpec == ShellSpec /\ WF_shellVars(Executor) /\ \A c \in Commands : WF_shellVars(ShellComponent(c))

(* What a command did and what its requester was told agree: `completed`     *)
(* only after an exit the executor collected, and no process is left once    *)
(* the executor moved on to another connection.                              *)
Contained ==
    /\ \A c \in Commands : client[c] = "completed" => proc[c] = "exited"
    /\ \A c \in Commands : proc[c] = "running" => c = cur

(* Every request is answered, and the executor comes back for the next.      *)
Answered ==
    /\ \A c \in Commands : <>(client[c] \in {"completed", "failed"})
    /\ []<>(at = "accept")
==============================================================================
