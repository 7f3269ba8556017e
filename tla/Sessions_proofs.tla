--------------------------- MODULE Sessions_proofs ---------------------------
(***************************************************************************)
(* Components that hold a session with something outside: the shell's      *)
(* executor (Shell), a login (Enrollment) and a mailbox (Email).           *)
(***************************************************************************)
EXTENDS Shell, Enrollment, Email, TLAPS, FiniteSetTheorems, NaturalsInduction

-----------------------------------------------------------------------------
(***************************************************************************)
(* The executor leaves no process behind and tells no requester of an exit *)
(* that it did not collect, however the component's timeouts, the closing  *)
(* of sockets, the core calls of the commands and the one-at-a-time queue  *)
(* of the executor interleave; for any number of requests and core calls.  *)
(***************************************************************************)

ShellTypeOK ==
    /\ client \in [Commands -> {"new", "waiting", "completed", "failed"}]
    /\ readable \in [Commands -> {"", "core", "cancelled", "unavailable", "deadline", "completed"}]
    /\ proc \in [Commands -> {"none", "running", "exited", "killed"}]
    /\ backlog \in Seq(Commands)
    /\ at \in {"accept", "start", "loop", "core", "drop", "join", "reply"}
    /\ result \in {"", "cancelled", "unavailable", "deadline", "completed"}

(* Where the executor is says what became of the command it serves.        *)
Serving ==
    /\ at = "accept" => cur = Nobody
    /\ at # "accept" => cur \in Commands
    /\ at = "start" => proc[cur] = "none"
    /\ at \in {"join", "reply"} => proc[cur] # "running"
    /\ result = "completed" => at # "accept" /\ proc[cur] = "exited"

(* A connection waits for the executor once, and before its command runs.  *)
Queued ==
    /\ \A i \in 1..Len(backlog) :
         proc[backlog[i]] = "none" /\ client[backlog[i]] # "new" /\ backlog[i] # cur
    /\ \A i, j \in 1..Len(backlog) : backlog[i] = backlog[j] => i = j
    /\ \A c \in Commands : client[c] = "new" => proc[c] = "none" /\ c # cur

(* What the requester can read, and has read, is of an exit.               *)
Told ==
    /\ \A c \in Commands : proc[c] = "running" => c = cur
    /\ \A c \in Commands : readable[c] = "completed" => proc[c] = "exited"
    /\ \A c \in Commands : client[c] = "completed" => proc[c] = "exited"

ShellIInv == ShellTypeOK /\ Serving /\ Queued /\ Told

-----------------------------------------------------------------------------
(* The queue holds requests.                                               *)
LEMMA QueueTyped ==
    ASSUME ShellIInv
    PROVE  /\ backlog \in Seq(Commands) /\ Len(backlog) \in Nat
           /\ \A i \in 1..Len(backlog) : backlog[i] \in Commands
<1>1. backlog \in Seq(Commands)
    BY DEF ShellIInv, ShellTypeOK
<1> QED BY <1>1

(* A step of the executor within a turn: no process begins or ends.        *)
LEMMA TurnKeeps ==
    ASSUME ShellIInv, UNCHANGED <<client, backlog, cur, proc>>,
           at \in {"loop", "core", "drop", "join"},
           at' \in {"loop", "core", "drop", "join", "reply"},
           at' \in {"join", "reply"} => at = "join",
           result' \in {"", "cancelled", "unavailable", "deadline", "completed"},
           result' = "completed" => proc[cur] = "exited",
           readable' \in [Commands -> {"", "core", "cancelled", "unavailable", "deadline", "completed"}],
           \A c \in Commands : readable'[c] = "completed" => readable[c] = "completed"
    PROVE  ShellIInv'
<1>1. ShellTypeOK'
    BY DEF ShellIInv, ShellTypeOK
<1>2. Serving'
    BY DEF ShellIInv, Serving
<1>3. Queued'
    BY DEF ShellIInv, Queued
<1>4. Told'
    BY DEF ShellIInv, Told
<1> QED BY <1>1, <1>2, <1>3, <1>4 DEF ShellIInv

(* The executor's turns; the bridge and the command's core calls.          *)
LEMMA LoopKeeps ==
    ASSUME ShellIInv, Asks \/ Cancelled \/ Deadline \/ TakeCore \/ Collect \/ CoreAnswered \/ CoreFails
                 \/ WorkerEnds \/ Join
    PROVE  ShellIInv'
<1>1. /\ UNCHANGED <<client, backlog, cur, proc>>
      /\ at \in {"loop", "core", "drop", "join"}
      /\ at' \in {"loop", "core", "drop", "join", "reply"}
      /\ at' \in {"join", "reply"} => at = "join"
    BY DEF Asks, Cancelled, Deadline, TakeCore, Collect, CoreAnswered, CoreFails, WorkerEnds, Join,
           AnswerWith
<1>2. /\ result' \in {"", "cancelled", "unavailable", "deadline", "completed"}
      /\ result' = "completed" => proc[cur] = "exited"
    BY DEF Asks, Cancelled, Deadline, TakeCore, Collect, CoreAnswered, CoreFails, WorkerEnds, Join,
           AnswerWith, ShellIInv, ShellTypeOK, Serving
<1>3. /\ readable' \in [Commands -> {"", "core", "cancelled", "unavailable", "deadline", "completed"}]
      /\ \A c \in Commands : readable'[c] = "completed" => readable[c] = "completed"
    <2>1. readable \in [Commands -> {"", "core", "cancelled", "unavailable", "deadline", "completed"}]
        BY DEF ShellIInv, ShellTypeOK
    <2>2. readable' = readable \/ readable' = [readable EXCEPT ![cur] = "core"]
        BY DEF Asks, Cancelled, Deadline, TakeCore, Collect, CoreAnswered, CoreFails, WorkerEnds, Join
    <2> QED BY <2>1, <2>2
<1> QED BY <1>1, <1>2, <1>3, TurnKeeps

(* The component's side: nothing runs or ends by it.                       *)
LEMMA ClientKeeps ==
    ASSUME ShellIInv, NEW c \in Commands, Refuse(c) \/ ClientCore(c) \/ ClientReads(c) \/ ClientGivesUp(c)
    PROVE  ShellIInv'
<1>1. UNCHANGED <<backlog, at, cur, result, proc>>
    BY DEF Refuse, ClientCore, ClientReads, ClientGivesUp
<1>2. /\ client \in [Commands -> {"new", "waiting", "completed", "failed"}]
      /\ readable \in [Commands -> {"", "core", "cancelled", "unavailable", "deadline", "completed"}]
    BY DEF ShellIInv, ShellTypeOK
<1>3. /\ readable' \in [Commands -> {"", "core", "cancelled", "unavailable", "deadline", "completed"}]
      /\ \A d \in Commands : readable'[d] = "completed" => readable[d] = "completed"
    <2>1. readable' = readable \/ readable' = [readable EXCEPT ![c] = ""]
        BY DEF Refuse, ClientCore, ClientReads, ClientGivesUp
    <2> QED BY <1>2, <2>1
<1>4. /\ client' \in [Commands -> {"new", "waiting", "completed", "failed"}]
      /\ \A d \in Commands : client'[d] = "completed" => client[d] = "completed" \/ readable[d] = "completed"
      /\ \A d \in Commands : client'[d] = "new" => client[d] = "new"
    <2>1. \/ client' = client
          \/ client' = [client EXCEPT ![c] = "failed"]
          \/ client' = [client EXCEPT ![c] = "completed"] /\ readable[c] = "completed"
        BY DEF Refuse, ClientCore, ClientReads, ClientGivesUp, Settle
    <2> QED BY <1>2, <2>1
<1>5. ShellTypeOK' /\ Serving'
    BY <1>1, <1>3, <1>4 DEF ShellIInv, ShellTypeOK, Serving
<1>6. Queued'
    <2>1. \A i \in 1..Len(backlog) : backlog[i] \in Commands
        BY QueueTyped
    <2> QED BY <1>1, <1>4, <2>1 DEF ShellIInv, Queued
<1>7. Told'
    BY <1>1, <1>3, <1>4 DEF ShellIInv, Told
<1> QED BY <1>5, <1>6, <1>7 DEF ShellIInv

(* A new connection joins the end of the queue.                            *)
LEMMA ConnectKeeps == ASSUME ShellIInv, NEW c \in Commands, Connect(c) PROVE ShellIInv'
<1>1. /\ client \in [Commands -> {"new", "waiting", "completed", "failed"}]
      /\ backlog \in Seq(Commands) /\ Len(backlog) \in Nat
    BY QueueTyped DEF ShellIInv, ShellTypeOK
<1>2. /\ client[c] = "new" /\ client' = [client EXCEPT ![c] = "waiting"] /\ backlog' = Append(backlog, c)
      /\ UNCHANGED <<at, cur, result, readable, proc>>
    BY DEF Connect
<1>3. /\ client' \in [Commands -> {"new", "waiting", "completed", "failed"}] /\ client'[c] = "waiting"
      /\ \A d \in Commands : d # c => client'[d] = client[d]
    BY <1>1, <1>2
<1>4. /\ backlog' \in Seq(Commands) /\ Len(backlog') = Len(backlog) + 1 /\ backlog'[Len(backlog) + 1] = c
      /\ \A i \in 1..Len(backlog) : backlog'[i] = backlog[i] /\ backlog[i] \in Commands
      /\ \A i \in 1..Len(backlog') : i \in 1..Len(backlog) \/ i = Len(backlog) + 1
    BY <1>1, <1>2
<1>5. proc[c] = "none" /\ c # cur /\ \A i \in 1..Len(backlog) : backlog[i] # c
    BY <1>2 DEF ShellIInv, Queued
<1>6. ShellTypeOK' /\ Serving'
    BY <1>2, <1>3, <1>4 DEF ShellIInv, ShellTypeOK, Serving
<1>7. Queued'
    <2>1. ASSUME NEW i \in 1..Len(backlog')
          PROVE  proc[backlog'[i]] = "none" /\ client'[backlog'[i]] # "new" /\ backlog'[i] # cur
        BY <1>3, <1>4, <1>5 DEF ShellIInv, Queued
    <2>2. ASSUME NEW i \in 1..Len(backlog'), NEW j \in 1..Len(backlog'), backlog'[i] = backlog'[j]
          PROVE  i = j
        BY <1>4, <1>5, <2>2 DEF ShellIInv, Queued
    <2>3. ASSUME NEW d \in Commands, client'[d] = "new" PROVE proc[d] = "none" /\ d # cur
        BY <1>3, <2>3 DEF ShellIInv, Queued
    <2> QED BY <1>2, <2>1, <2>2, <2>3 DEF Queued
<1>8. Told'
    BY <1>2, <1>3 DEF ShellIInv, Told
<1> QED BY <1>6, <1>7, <1>8 DEF ShellIInv

(* The executor takes the connection at the head of the queue.             *)
LEMMA AcceptKeeps == ASSUME Nobody \notin Commands, ShellIInv, Accept PROVE ShellIInv'
<1>1. backlog \in Seq(Commands) /\ Len(backlog) \in Nat
    BY QueueTyped
<1>2. /\ at = "accept" /\ backlog # << >> /\ cur' = Head(backlog) /\ backlog' = Tail(backlog)
      /\ at' = "start" /\ UNCHANGED <<client, result, readable, proc>>
    BY DEF Accept
<1>3. /\ Len(backlog) > 0 /\ backlog' \in Seq(Commands) /\ Len(backlog') = Len(backlog) - 1
      /\ cur' = backlog[1] /\ backlog[1] \in Commands
      /\ \A i \in 1..Len(backlog') : i + 1 \in 1..Len(backlog) /\ backlog'[i] = backlog[i + 1]
    BY <1>1, <1>2
<1>4. proc[cur'] = "none" /\ client[cur'] # "new" /\ result # "completed"
    BY <1>2, <1>3 DEF ShellIInv, Queued, Serving
<1>5. \A i \in 1..Len(backlog') : backlog'[i] # cur'
    BY <1>1, <1>3 DEF ShellIInv, Queued
<1>6. ShellTypeOK' /\ Serving'
    BY <1>2, <1>3, <1>4 DEF ShellIInv, ShellTypeOK, Serving
<1>7. Queued'
    <2>1. ASSUME NEW i \in 1..Len(backlog')
          PROVE  proc[backlog'[i]] = "none" /\ client[backlog'[i]] # "new" /\ backlog'[i] # cur'
        BY <1>3, <1>5 DEF ShellIInv, Queued
    <2>2. ASSUME NEW i \in 1..Len(backlog'), NEW j \in 1..Len(backlog'), backlog'[i] = backlog'[j]
          PROVE  i = j
        <3>1. i + 1 = j + 1
            BY <1>3, <2>2 DEF ShellIInv, Queued
        <3> QED BY <3>1
    <2>3. ASSUME NEW d \in Commands, client[d] = "new" PROVE proc[d] = "none" /\ d # cur'
        BY <1>4, <2>3 DEF ShellIInv, Queued
    <2> QED BY <1>2, <2>1, <2>2, <2>3 DEF Queued
<1>8. Told'
    <2>1. \A d \in Commands : proc[d] # "running"
        BY <1>2 DEF ShellIInv, Told, Serving
    <2> QED BY <1>2, <2>1 DEF ShellIInv, Told
<1> QED BY <1>6, <1>7, <1>8 DEF ShellIInv

(* The process of the request served begins, exits or is killed.           *)
LEMMA ProcessKeeps ==
    ASSUME ShellIInv, NEW p \in {"running", "exited", "killed"},
           cur \in Commands, proc' = [proc EXCEPT ![cur] = p],
           UNCHANGED <<client, backlog, cur, readable>>,
           p = "running" \/ proc[cur] = "running" \/ p = proc[cur],
           p = "running" => at = "start",
           at' \in {"loop", "core", "join"}, at' = "join" => p # "running",
           result' = result \/ result' = "", result = "completed" => p = "exited"
    PROVE  ShellIInv'
<1>1. proc \in [Commands -> {"none", "running", "exited", "killed"}]
    BY DEF ShellIInv, ShellTypeOK
<1>2. /\ proc' \in [Commands -> {"none", "running", "exited", "killed"}] /\ proc'[cur] = p
      /\ \A d \in Commands : d # cur => proc'[d] = proc[d]
    BY <1>1
<1>3. ShellTypeOK'
    BY <1>2 DEF ShellIInv, ShellTypeOK
<1>4. Serving'
    BY <1>2 DEF ShellIInv, Serving
<1>5. Queued'
    <2>1. \A i \in 1..Len(backlog) : backlog[i] \in Commands
        BY QueueTyped
    <2>2. ASSUME NEW i \in 1..Len(backlog)
          PROVE  proc'[backlog[i]] = "none" /\ client[backlog[i]] # "new" /\ backlog[i] # cur
        BY <1>2, <2>1 DEF ShellIInv, Queued
    <2>3. ASSUME NEW d \in Commands, client[d] = "new" PROVE proc'[d] = "none" /\ d # cur
        BY <1>2, <2>3 DEF ShellIInv, Queued
    <2> QED BY <2>2, <2>3 DEF ShellIInv, Queued
<1>6. Told'
    <2>1. proc[cur] = "exited" => p = "exited"
        BY DEF ShellIInv, Serving
    <2>2. \A d \in Commands : proc[d] = "exited" => proc'[d] = "exited"
        BY <1>2, <2>1
    <2>3. \A d \in Commands : proc'[d] = "running" => d = cur
        BY <1>2 DEF ShellIInv, Told
    <2> QED BY <2>2, <2>3 DEF ShellIInv, Told
<1> QED BY <1>3, <1>4, <1>5, <1>6 DEF ShellIInv

(* The command begins, or the request is answered without it.              *)
LEMMA BeginKeeps == ASSUME ShellIInv, Begin PROVE ShellIInv'
<1>1. at = "start" /\ cur \in Commands /\ proc[cur] = "none" /\ UNCHANGED <<client, backlog, cur, readable>>
    BY DEF Begin, ShellIInv, Serving
<1>2. CASE result' \in {"cancelled", "unavailable"} /\ at' = "reply" /\ proc' = proc
    <2>1. ShellTypeOK' /\ Serving'
        BY <1>1, <1>2 DEF ShellIInv, ShellTypeOK, Serving
    <2>2. Queued' /\ Told'
        BY <1>1, <1>2 DEF ShellIInv, Queued, Told
    <2> QED BY <2>1, <2>2 DEF ShellIInv
<1>3. CASE result' = "" /\ at' = "loop" /\ proc' = [proc EXCEPT ![cur] = "running"]
    <2>1. result # "completed"
        BY <1>1 DEF ShellIInv, Serving
    <2> QED BY <1>1, <1>3, <2>1, ProcessKeeps
<1> QED BY <1>2, <1>3 DEF Begin, AnswerWith

(* The command exits by itself.                                            *)
LEMMA ExitsKeeps == ASSUME ShellIInv, Exits PROVE ShellIInv'
<1>1. /\ proc[cur] = "running" /\ at \in {"loop", "core"} /\ UNCHANGED <<client, backlog, cur, readable, at, result>>
      /\ proc' = [proc EXCEPT ![cur] = "exited"]
    BY DEF Exits
<1>2. cur \in Commands
    BY <1>1 DEF ShellIInv, Serving
<1> QED BY <1>1, <1>2, ProcessKeeps

(* Leaving the function kills what still runs.                             *)
LEMMA DropKeeps == ASSUME ShellIInv, DropActivity PROVE ShellIInv'
<1>1. /\ at = "drop" /\ at' = "join" /\ UNCHANGED <<client, backlog, cur, readable, result>>
      /\ proc' = [proc EXCEPT ![cur] = Kill(cur)]
    BY DEF DropActivity
<1>2. cur \in Commands /\ (result = "completed" => proc[cur] = "exited")
    BY <1>1 DEF ShellIInv, Serving
<1>3. proc[cur] \in {"none", "running", "exited", "killed"}
    BY <1>2 DEF ShellIInv, ShellTypeOK
<1>4. CASE proc[cur] # "none"
    BY <1>1, <1>2, <1>3, <1>4, ProcessKeeps DEF Kill
<1>5. CASE proc[cur] = "none"
    <2>1. proc' = proc
        BY <1>1, <1>2, <1>5 DEF Kill, ShellIInv, ShellTypeOK
    <2>2. ShellTypeOK' /\ Serving'
        BY <1>1, <1>2, <1>5, <2>1 DEF ShellIInv, ShellTypeOK, Serving
    <2>3. Queued' /\ Told'
        BY <1>1, <2>1 DEF ShellIInv, Queued, Told
    <2> QED BY <2>2, <2>3 DEF ShellIInv
<1> QED BY <1>4, <1>5

(* The result is written, if anyone still reads, and the connection ends.  *)
LEMMA ReplyKeeps == ASSUME Nobody \notin Commands, ShellIInv, Reply PROVE ShellIInv'
<1>1. /\ at = "reply" /\ at' = "accept" /\ cur' = Nobody /\ result' = ""
      /\ UNCHANGED <<client, backlog, proc>>
      /\ readable' = [readable EXCEPT ![cur] = IF cur \in open THEN result ELSE @]
    BY DEF Reply
<1>2. cur \in Commands /\ proc[cur] # "running" /\ (result = "completed" => proc[cur] = "exited")
    BY <1>1 DEF ShellIInv, Serving
<1>3. /\ readable \in [Commands -> {"", "core", "cancelled", "unavailable", "deadline", "completed"}]
      /\ result \in {"", "cancelled", "unavailable", "deadline", "completed"}
    BY DEF ShellIInv, ShellTypeOK
<1>4. /\ readable' \in [Commands -> {"", "core", "cancelled", "unavailable", "deadline", "completed"}]
      /\ \A d \in Commands : readable'[d] = "completed" => readable[d] = "completed" \/ (d = cur /\ result = "completed")
    BY <1>1, <1>2, <1>3
<1>5. ShellTypeOK' /\ Serving'
    BY <1>1, <1>4 DEF ShellIInv, ShellTypeOK, Serving
<1>6. Queued'
    <2>1. \A i \in 1..Len(backlog) : backlog[i] # Nobody
        BY QueueTyped
    <2> QED BY <1>1, <2>1 DEF ShellIInv, Queued
<1>7. Told'
    BY <1>1, <1>2, <1>4 DEF ShellIInv, Told
<1> QED BY <1>5, <1>6, <1>7 DEF ShellIInv

-----------------------------------------------------------------------------
(* Nothing is asked and nothing runs at first.                             *)
LEMMA ShellInitInv == ASSUME Nobody \notin Commands, ShellInit PROVE ShellIInv
<1>1. backlog = << >>
    BY DEF ShellInit
<1>2. ShellTypeOK /\ Serving
    <2>1. backlog \in Seq(Commands)
        BY <1>1
    <2>2. ShellTypeOK
        BY <2>1 DEF ShellInit, ShellTypeOK
    <2>3. Serving
        BY DEF ShellInit, Serving
    <2> QED BY <2>2, <2>3
<1>3. Queued
    <2>1. Len(backlog) = 0
        BY <1>1
    <2>2. \A c \in Commands : proc[c] = "none" /\ c # cur
        BY DEF ShellInit
    <2> QED BY <2>1, <2>2 DEF Queued
<1>4. Told
    BY DEF ShellInit, Told
<1> QED BY <1>2, <1>3, <1>4 DEF ShellIInv

(* Every step keeps the command and what is told of it together.           *)
LEMMA ShellNextInv == ASSUME Nobody \notin Commands, ShellIInv, [ShellNext]_shellVars PROVE ShellIInv'
<1>1. CASE Executor
    BY <1>1, AcceptKeeps, BeginKeeps, LoopKeeps, DropKeeps, ReplyKeeps DEF Executor
<1>2. CASE Exits \/ Asks
    BY <1>2, ExitsKeeps, LoopKeeps
<1>3. ASSUME NEW c \in Commands, ShellComponent(c) \/ ClientGivesUp(c) PROVE ShellIInv'
    BY <1>3, ClientKeeps, ConnectKeeps DEF ShellComponent
<1>4. CASE UNCHANGED shellVars
    BY <1>4 DEF shellVars, ShellIInv, ShellTypeOK, Serving, Queued, Told
<1> QED BY <1>1, <1>2, <1>3, <1>4 DEF ShellNext

(* A requester is told `completed` only of a command that exited by itself *)
(* and was collected, and a process runs only while the executor serves    *)
(* its connection: no timeout, closed socket, late core reply or failure   *)
(* of the bridge leaves one behind (execute_configured_inner, Activity).   *)
THEOREM ShellContains == ShellSpec => []Contained
<1>1. Nobody \notin Commands
    BY ShellAssumption
<1>2. ShellInit => ShellIInv
    BY <1>1, ShellInitInv
<1>3. ShellIInv /\ [ShellNext]_shellVars => ShellIInv'
    BY <1>1, ShellNextInv
<1>4. ShellIInv => Contained
    BY DEF ShellIInv, Told, Contained
<1> QED BY <1>2, <1>3, <1>4, PTL DEF ShellSpec

-----------------------------------------------------------------------------
(***************************************************************************)
(* Tokens of an enrollment never replace those of a later one.  The record *)
(* may change between the time a step read it and the time it writes; what *)
(* makes this hold is that every write replaces the exact record it read,  *)
(* and that a sealing which adopts a changed record has compared the login *)
(* it is for.  For any enrollments, polls, refreshes, crashes and swaps.   *)
(***************************************************************************)

Devices == [id : Nat, due : Nat, code : BOOLEAN]
Tokens == [of : Nat, version : Nat]
Records == [tokens : Tokens, staged : Nat, device : Seq(Devices), completed : Nat]
Requests == [kind : {"request"}, id : Nat]
Timers == [kind : {"timer"}, id : Nat, due : Nat]
Events == Requests \cup Timers
Sealing == [step : {"seal"}, event : Events, asked : Records, expected : Records,
            tokens : Tokens, tries : Nat]

EnrollmentTypeOK ==
    /\ record \in Records /\ used \subseteq Nat \ {0} /\ cli \subseteq used
    /\ inbox \in Seq(Events) /\ timers \subseteq Timers /\ issued \in Nat

(* The tokens held are no newer than the login under way, nor than the     *)
(* enrollment staged.                                                      *)
Ordered ==
    /\ record.tokens.of = 0 \/ record.tokens.of \in used
    /\ record.staged # None => record.staged \in used /\ record.tokens.of <= record.staged
    /\ record.device # << >> => /\ record.device[1].id \in used
                                /\ record.tokens.of <= record.device[1].id

(* A request in the stream is of an enrollment that was begun.             *)
Known == \A i \in 1..Len(inbox) : inbox[i].kind = "request" => inbox[i].id \in used

(* What a record read earlier says of the enrollment being worked on.      *)
Login(r, id) == r.device # << >> /\ r.device[1].id = id /\ r.staged \in {None, id}

Working ==
    /\ work.step = "commit" => work.out \subseteq Timers
    /\ work.step = "start" => work.event.id \in used /\ work.prev.staged = work.event.id
    /\ work.step \in {"expire", "poll", "exchange"} => work.event \in Events /\ work.prev \in Records
    /\ work.step \in {"expire", "poll", "exchange"} => Login(work.prev, work.event.id)
    /\ work.step = "refresh" => work.version \in Nat
    /\ work.step = "seal" => work \in Sealing
    /\ work.step = "seal" => /\ Login(work.asked, work.event.id)
                             /\ PendingMatches(work.expected, work.asked)
                             /\ work.tokens.of = work.event.id

(* A delivery under way is of the event at the head of the stream.         *)
Busy == work.step \notin {"idle", "refresh"} => inbox # << >>

EnrollmentIInv == EnrollmentTypeOK /\ Ordered /\ Known /\ Working /\ Busy

-----------------------------------------------------------------------------
(* A record, taken apart.                                                  *)
LEMMA RecordTyped ==
    ASSUME EnrollmentIInv
    PROVE  /\ record \in Records /\ record.tokens \in Tokens /\ record.tokens.of \in Nat
           /\ record.tokens.version \in Nat /\ record.staged \in Nat /\ record.completed \in Nat
           /\ record.device \in Seq(Devices)
           /\ record.device # << >> =>
                record.device[1] \in Devices /\ record.device[1].id \in Nat /\ record.device[1].due \in Nat
<1>1. record \in Records
    BY DEF EnrollmentIInv, EnrollmentTypeOK
<1>2. /\ record.tokens \in Tokens /\ record.staged \in Nat /\ record.completed \in Nat
      /\ record.device \in Seq(Devices)
    BY <1>1 DEF Records
<1>3. record.tokens.of \in Nat /\ record.tokens.version \in Nat
    BY <1>2 DEF Tokens
<1>4. record.device # << >> => record.device[1] \in Devices
    BY <1>2
<1>5. record.device # << >> => record.device[1].id \in Nat /\ record.device[1].due \in Nat
    BY <1>4 DEF Devices
<1> QED BY <1>1, <1>2, <1>3, <1>4, <1>5

(* A step that leaves the stream and the timers alone keeps the invariant  *)
(* when it keeps the order of the record and knows what it works on.       *)
LEMMA StepKeeps ==
    ASSUME EnrollmentIInv, UNCHANGED <<cli, inbox, timers, used>>, issued' \in Nat,
           record' \in Records, Ordered', Working',
           work'.step \in {"idle", "refresh"} \/ inbox # << >>
    PROVE  EnrollmentIInv'
<1>1. EnrollmentTypeOK' /\ Known' /\ Busy'
    BY DEF EnrollmentIInv, EnrollmentTypeOK, Known, Busy
<1> QED BY <1>1 DEF EnrollmentIInv

(* A record whose tokens are the ones before, and whose staged enrollment  *)
(* and device login are the ones before or none, is as ordered.            *)
LEMMA OrderedKept ==
    ASSUME EnrollmentIInv, used' = used, record'.tokens.of = record.tokens.of,
           record'.staged \in {None, record.staged},
           \/ record'.device = << >>
           \/ record'.device = record.device
           \/ /\ record'.device # << >> /\ record'.device[1].id \in used
              /\ record.tokens.of <= record'.device[1].id
    PROVE  Ordered'
BY DEF EnrollmentIInv, Ordered

(* A sequence of one.                                                      *)
LEMMA One ==
    ASSUME NEW S, NEW d \in S
    PROVE  <<d>> \in Seq(S) /\ <<d>>[1] = d /\ <<d>> # << >>
<1>1. <<d>> \in Seq(S)
    OBVIOUS
<1>2. <<d>>[1] = d
    OBVIOUS
<1>3. <<d>> # << >>
    <2>1. Len(<<d>>) = 1 /\ Len(<< >>) = 0
        OBVIOUS
    <2> QED BY <2>1
<1> QED BY <1>1, <1>2, <1>3

(* Timers are of devices.                                                  *)
LEMMA TimerTyped ==
    ASSUME NEW d \in Devices
    PROVE  Timer(d) \in Timers
BY DEF Timer, Timers, Devices

LEMMA EmitTyped ==
    ASSUME NEW ds, \A d \in ds : d \in Devices
    PROVE  Emit(ds).step = "commit" /\ Emit(ds).out \subseteq Timers
<1>1. Emit(ds).step = "commit" /\ Emit(ds).out = {Timer(d) : d \in ds}
    BY DEF Emit
<1> QED BY <1>1, TimerTyped

(* What needs no knowledge of the record.                                  *)
LEMMA IdleWorks ==
    ASSUME work' = Idle \/ \E ds \in SUBSET Devices : work' = Emit(ds)
    PROVE  Working'
<1>1. CASE work' = Idle
    <2>1. work'.step = "idle"
        BY <1>1 DEF Idle
    <2> QED BY <2>1 DEF Working
<1>2. ASSUME NEW ds \in SUBSET Devices, work' = Emit(ds) PROVE Working'
    <2>1. work'.step = "commit" /\ work'.out \subseteq Timers
        BY <1>2, EmitTyped
    <2> QED BY <2>1 DEF Working
<1> QED BY <1>1, <1>2

(* The swap of a record that a step read: done on that record, or lost.    *)
LEMMA ReplacedCases ==
    ASSUME NEW new, NEW then, Replaced(new, then)
    PROVE  \/ record = work.prev /\ record' = new /\ work' = then
           \/ record' = record /\ work' = Idle
BY DEF Replaced

(* A step that only reads, and goes idle.                                  *)
LEMMA LostKeeps ==
    ASSUME EnrollmentIInv, record' = record, work' = Idle, UNCHANGED <<cli, inbox, timers, used, issued>>
    PROVE  EnrollmentIInv'
<1>1. Working'
    BY IdleWorks
<1>2. Ordered' /\ record' \in Records /\ issued' \in Nat
    BY DEF EnrollmentIInv, EnrollmentTypeOK, Ordered
<1>3. work'.step = "idle"
    BY DEF Idle
<1> QED BY <1>1, <1>2, <1>3, StepKeeps

-----------------------------------------------------------------------------
(* The CLI stages an enrollment later than any before.                     *)
LEMMA StageKeeps == ASSUME EnrollmentIInv, Stage PROVE EnrollmentIInv'
<1>1. PICK id \in Ids \ used :
        /\ \A j \in used : j < id
        /\ record' = [record EXCEPT !.staged = id] /\ cli' = {id} /\ used' = used \cup {id}
    BY DEF Stage
<1>2. UNCHANGED <<inbox, timers, work, issued>>
    BY DEF Stage
<1>3. id \in Nat \ {0}
    BY EnrollmentAssumption
<1>4. /\ record' \in Records /\ record'.tokens = record.tokens /\ record'.device = record.device
      /\ record'.staged = id
    BY <1>1, <1>3, RecordTyped DEF Records
<1>5. EnrollmentTypeOK'
    BY <1>1, <1>2, <1>3, <1>4 DEF EnrollmentIInv, EnrollmentTypeOK
<1>6. Ordered'
    <2>1. record.tokens.of <= id
        BY <1>1, <1>3, RecordTyped DEF EnrollmentIInv, Ordered
    <2> QED BY <1>1, <1>4, <2>1 DEF EnrollmentIInv, Ordered
<1>7. Known' /\ Busy'
    BY <1>1, <1>2 DEF EnrollmentIInv, Known, Busy
<1>8. Working'
    BY <1>1, <1>2 DEF EnrollmentIInv, Working, Login, PendingMatches
<1> QED BY <1>5, <1>6, <1>7, <1>8 DEF EnrollmentIInv

(* An event joins the stream.                                              *)
LEMMA AppendKeeps ==
    ASSUME EnrollmentIInv, NEW e \in Events, e.kind = "request" => e.id \in used,
           inbox' = Append(inbox, e), cli' \subseteq cli,
           UNCHANGED <<record, timers, work, used, issued>>
    PROVE  EnrollmentIInv'
<1>1. inbox \in Seq(Events) /\ Len(inbox) \in Nat
    <2>1. inbox \in Seq(Events)
        BY DEF EnrollmentIInv, EnrollmentTypeOK
    <2> QED BY <2>1
<1>2. /\ inbox' \in Seq(Events) /\ Len(inbox') = Len(inbox) + 1 /\ inbox'[Len(inbox) + 1] = e
      /\ \A i \in 1..Len(inbox) : inbox'[i] = inbox[i]
      /\ \A i \in 1..Len(inbox') : i \in 1..Len(inbox) \/ i = Len(inbox) + 1
    BY <1>1
<1>3. EnrollmentTypeOK'
    BY <1>2 DEF EnrollmentIInv, EnrollmentTypeOK
<1>4. Known' /\ Busy'
    <2>1. inbox' # << >>
        BY <1>1, <1>2
    <2> QED BY <1>2, <2>1 DEF EnrollmentIInv, Known, Busy
<1>5. Ordered' /\ Working'
    BY DEF EnrollmentIInv, Ordered, Working, Login, PendingMatches
<1> QED BY <1>3, <1>4, <1>5 DEF EnrollmentIInv

LEMMA AppendRequestKeeps == ASSUME EnrollmentIInv, AppendRequest PROVE EnrollmentIInv'
<1>1. PICK id \in cli : inbox' = Append(inbox, Request(id)) \/ inbox' = inbox
    BY DEF AppendRequest
<1>2. cli' = {} /\ UNCHANGED <<record, timers, work, used, issued>>
    BY DEF AppendRequest
<1>3. id \in used /\ id \in Nat
    BY DEF EnrollmentIInv, EnrollmentTypeOK
<1>4. Request(id) \in Events /\ Request(id).id = id
    BY <1>3 DEF Request, Events, Requests
<1>5. CASE inbox' = Append(inbox, Request(id))
    BY <1>2, <1>3, <1>4, <1>5, AppendKeeps
<1>6. CASE inbox' = inbox
    <2>1. EnrollmentTypeOK' /\ Known' /\ Busy'
        BY <1>2, <1>6 DEF EnrollmentIInv, EnrollmentTypeOK, Known, Busy
    <2>2. Ordered' /\ Working'
        BY <1>2, <1>6 DEF EnrollmentIInv, Ordered, Working, Login, PendingMatches
    <2> QED BY <2>1, <2>2 DEF EnrollmentIInv
<1> QED BY <1>1, <1>5, <1>6

LEMMA FireTimerKeeps == ASSUME EnrollmentIInv, FireTimer PROVE EnrollmentIInv'
<1>1. PICK t \in timers \ fired : inbox' = Append(inbox, t)
    BY DEF FireTimer
<1>2. UNCHANGED <<record, cli, timers, work, used, issued>>
    BY DEF FireTimer
<1>3. t \in Events /\ t.kind = "timer"
    BY DEF EnrollmentIInv, EnrollmentTypeOK, Events, Timers
<1> QED BY <1>1, <1>2, <1>3, AppendKeeps

(* A delivery ends; its timers are set when it commits.                    *)
LEMMA CommitKeeps == ASSUME EnrollmentIInv, Commit PROVE EnrollmentIInv'
<1>1. work.out \subseteq Timers
    BY DEF Commit, EnrollmentIInv, Working
<1>2. work' = Idle /\ UNCHANGED <<record, cli, used, issued>>
    BY DEF Commit
<1>3. timers' \subseteq Timers
    BY <1>1 DEF Commit, EnrollmentIInv, EnrollmentTypeOK
<1>4. inbox' \in Seq(Events) /\ Known'
    <2>1. inbox \in Seq(Events)
        BY DEF EnrollmentIInv, EnrollmentTypeOK
    <2>2. CASE inbox' = inbox
        BY <1>2, <2>1, <2>2 DEF EnrollmentIInv, Known
    <2>3. CASE inbox' = Tail(inbox)
        <3>1. inbox # << >>
            BY DEF Commit, EnrollmentIInv, Busy
        <3>2. /\ inbox' \in Seq(Events)
              /\ \A i \in 1..Len(inbox') : i + 1 \in 1..Len(inbox) /\ inbox'[i] = inbox[i + 1]
            BY <2>1, <2>3, <3>1
        <3> QED BY <1>2, <3>2 DEF EnrollmentIInv, Known
    <2> QED BY <2>2, <2>3 DEF Commit
<1>5. EnrollmentTypeOK' /\ Ordered'
    BY <1>2, <1>3, <1>4 DEF EnrollmentIInv, EnrollmentTypeOK, Ordered
<1>6. Working' /\ Busy'
    BY <1>2, IdleWorks DEF Busy, Idle
<1> QED BY <1>4, <1>5, <1>6 DEF EnrollmentIInv

(* The process dies in a delivery; setup sets the timer of the login.      *)
LEMMA RestartKeeps == ASSUME EnrollmentIInv, Restart PROVE EnrollmentIInv'
<1>1. /\ work' = Idle /\ UNCHANGED <<record, cli, inbox, used, issued>>
      /\ timers' = timers \cup {Timer(record.device[i]) : i \in DOMAIN record.device}
    BY DEF Restart
<1>2. \A i \in DOMAIN record.device : record.device[i] \in Devices
    BY RecordTyped
<1>3. timers' \subseteq Timers
    BY <1>1, <1>2, TimerTyped DEF EnrollmentIInv, EnrollmentTypeOK
<1>4. EnrollmentTypeOK' /\ Ordered' /\ Known'
    BY <1>1, <1>3 DEF EnrollmentIInv, EnrollmentTypeOK, Ordered, Known
<1>5. Working' /\ Busy'
    BY <1>1, IdleWorks DEF Busy, Idle
<1> QED BY <1>4, <1>5 DEF EnrollmentIInv

-----------------------------------------------------------------------------
(* The first part of a delivery: the record is read, and what is done with *)
(* it depends on it.                                                       *)
LEMMA HandleKeeps == ASSUME EnrollmentIInv, Handle PROVE EnrollmentIInv'
<1> DEFINE e == Head(inbox)
<1>1. /\ work = Idle /\ inbox # << >> /\ UNCHANGED <<cli, inbox, timers, used, issued>>
      /\ record' = record
      /\ (e.kind = "request" /\ BeginRequest(e)) \/ BeginTimer(e)
    <2>1. IF e.kind = "request" THEN BeginRequest(e) ELSE BeginTimer(e)
        BY Zenon DEF Handle
    <2>2. record' = record
        BY <2>1, Zenon DEF BeginRequest, BeginTimer
    <2> QED BY <2>1, <2>2, Zenon DEF Handle
<1>2. e \in Events /\ e.id \in Nat /\ (e.kind = "request" => e.id \in used)
    <2>1. inbox \in Seq(Events)
        BY DEF EnrollmentIInv, EnrollmentTypeOK
    <2>2. e = inbox[1] /\ 1 \in 1..Len(inbox) /\ e \in Events
        BY <1>1, <2>1
    <2>3. e.id \in Nat
        BY <2>2 DEF Events, Requests, Timers
    <2> QED BY <2>2, <2>3 DEF EnrollmentIInv, Known
<1> HIDE DEF e
<1>3. Working'
    <2>1. CASE e.kind = "request" /\ BeginRequest(e)
        <3>1. \/ work' = Emit({})
              \/ record.device # << >> /\ work' = Emit({record.device[1]})
              \/ record.staged = e.id /\ work' = Wait("start", e, record)
            BY <2>1 DEF BeginRequest, StartAgain
        <3>2. CASE work' = Emit({})
            BY <3>2, IdleWorks
        <3>3. CASE record.device # << >> /\ work' = Emit({record.device[1]})
            <4>1. {record.device[1]} \in SUBSET Devices
                BY <3>3, RecordTyped
            <4> QED BY <3>3, <4>1, IdleWorks
        <3>4. CASE record.staged = e.id /\ work' = Wait("start", e, record)
            <4>1. work'.step = "start" /\ work'.event = e /\ work'.prev = record
                BY <3>4 DEF Wait
            <4> QED BY <1>1, <1>2, <2>1, <3>4, <4>1 DEF Working
        <3> QED BY <3>1, <3>2, <3>3, <3>4
    <2>2. CASE BeginTimer(e)
        <3>1. \/ work' = Emit({})
              \/ record.device # << >> /\ work' = Emit({record.device[1]})
              \/ /\ Login(record, e.id)
                 /\ \E s \in {"expire", "poll", "exchange"} : work' = Wait(s, e, record)
            BY <2>2 DEF BeginTimer, Rearm, Login
        <3>2. CASE work' = Emit({})
            BY <3>2, IdleWorks
        <3>3. CASE record.device # << >> /\ work' = Emit({record.device[1]})
            <4>1. {record.device[1]} \in SUBSET Devices
                BY <3>3, RecordTyped
            <4> QED BY <3>3, <4>1, IdleWorks
        <3>4. ASSUME Login(record, e.id), NEW s \in {"expire", "poll", "exchange"},
                     work' = Wait(s, e, record)
              PROVE  Working'
            <4>1. work'.step = s /\ work'.event = e /\ work'.prev = record
                BY <3>4 DEF Wait
            <4>2. Login(work'.prev, work'.event.id)
                BY <3>4, <4>1 DEF Login
            <4> QED BY <1>2, <4>1, <4>2, RecordTyped DEF Working
        <3> QED BY <3>1, <3>2, <3>3, <3>4
    <2> QED BY <1>1, <2>1, <2>2
<1>4. Ordered' /\ record' \in Records /\ issued' \in Nat
    BY <1>1 DEF EnrollmentIInv, EnrollmentTypeOK, Ordered
<1> QED BY <1>1, <1>3, <1>4, StepKeeps

(* A device code is asked for, and the login it begins is recorded.        *)
LEMMA StartKeeps == ASSUME EnrollmentIInv, Start PROVE EnrollmentIInv'
<1> DEFINE id == work.event.id
           device == Device(id, 1, FALSE)
           none == [work.prev EXCEPT !.staged = None, !.completed = id]
           begun == [work.prev EXCEPT !.staged = None, !.device = <<device>>]
<1>1. /\ id \in used /\ id \in Nat /\ work.prev.staged = id
      /\ inbox # << >> /\ UNCHANGED <<cli, inbox, timers, used, issued>>
    <2>1. work.step = "start"
        BY DEF Start
    <2>2. id \in used /\ work.prev.staged = id /\ inbox # << >>
        BY <2>1 DEF EnrollmentIInv, Working, Busy
    <2> QED BY <2>2 DEF Start, EnrollmentIInv, EnrollmentTypeOK
<1>2. \/ Replaced(none, Emit({})) \/ Replaced(begun, Emit({device}))
      \/ record' = record /\ work' = Idle
    BY Zenon DEF Start
<1>3. device \in Devices /\ device.id = id
    BY <1>1 DEF Device, Devices
<1>4. CASE record = work.prev /\ record' = none /\ work' = Emit({})
    <2>1. /\ record' \in Records /\ record'.tokens = record.tokens /\ record'.staged = None
          /\ record'.device = record.device
        BY <1>1, <1>4, RecordTyped DEF Records, None
    <2>2. Working' /\ work'.step = "commit"
        BY <1>4, IdleWorks, EmitTyped
    <2>3. Ordered'
        BY <1>1, <2>1, OrderedKept
    <2> QED BY <1>1, <2>1, <2>2, <2>3, StepKeeps DEF EnrollmentIInv, EnrollmentTypeOK
<1>5. CASE record = work.prev /\ record' = begun /\ work' = Emit({device})
    <2>1. <<device>> \in Seq(Devices) /\ <<device>>[1] = device /\ <<device>> # << >>
        BY <1>3, One
    <2> HIDE DEF device
    <2>2. /\ record' \in Records /\ record'.tokens = record.tokens /\ record'.staged = None
          /\ record'.device = <<device>>
        BY <1>5, <2>1, RecordTyped DEF Records, None
    <2>3. Working'
        BY <1>3, <1>5, IdleWorks
    <2>4. record.tokens.of <= id
        BY <1>1, <1>5 DEF EnrollmentIInv, Ordered, EnrollmentTypeOK, None
    <2>5. Ordered'
        BY <1>1, <1>3, <2>1, <2>2, <2>4, OrderedKept
    <2> QED BY <1>1, <2>2, <2>3, <2>5, StepKeeps DEF EnrollmentIInv, EnrollmentTypeOK
<1>6. CASE record' = record /\ work' = Idle
    BY <1>1, <1>6, LostKeeps
<1> QED BY <1>2, <1>4, <1>5, <1>6, ReplacedCases

(* A login that is over is recorded as completed.                          *)
LEMMA OverKeeps ==
    ASSUME EnrollmentIInv, record.device # << >>, record' = Over(record), work' = Emit({}), inbox # << >>,
           UNCHANGED <<cli, inbox, timers, used, issued>>
    PROVE  EnrollmentIInv'
<1>1. << >> \in Seq(Devices)
    OBVIOUS
<1>2. /\ record' \in Records /\ record'.tokens = record.tokens /\ record'.staged = record.staged
      /\ record'.device = << >>
    BY <1>1, RecordTyped DEF Over, Records
<1>3. Working'
    BY IdleWorks
<1>4. Ordered'
    BY <1>2, OrderedKept
<1> QED BY <1>2, <1>3, <1>4, StepKeeps DEF EnrollmentIInv, EnrollmentTypeOK

LEMMA ExpireKeeps == ASSUME EnrollmentIInv, Expire PROVE EnrollmentIInv'
<1>1. /\ Replaced(Over(work.prev), Emit({})) /\ work.prev.device # << >> /\ inbox # << >>
      /\ UNCHANGED <<cli, inbox, timers, used, issued>>
    BY DEF Expire, EnrollmentIInv, Working, Login, Busy
<1>2. CASE record = work.prev /\ record' = Over(work.prev) /\ work' = Emit({})
    BY <1>1, <1>2, OverKeeps
<1>3. CASE record' = record /\ work' = Idle
    BY <1>1, <1>3, LostKeeps
<1> QED BY <1>1, <1>2, <1>3, ReplacedCases

(* The provider is asked: not yet, refused, approved, or no answer.        *)
LEMMA PollKeeps == ASSUME EnrollmentIInv, Poll PROVE EnrollmentIInv'
<1> DEFINE d == work.prev.device[1]
           later == Device(d.id, d.due + 1, FALSE)
           yes == Device(d.id, d.due, TRUE)
           waits == [work.prev EXCEPT !.device = <<later>>]
           approved == [work.prev EXCEPT !.device = <<yes>>]
<1>1. /\ work.step = "poll" /\ inbox # << >> /\ UNCHANGED <<cli, inbox, timers, used, issued>>
      /\ work.event \in Events /\ Login(work.prev, work.event.id)
    BY DEF Poll, EnrollmentIInv, Working, Busy
<1>2. \/ Replaced(waits, Emit({later}))
      \/ Replaced(Over(work.prev), Emit({}))
      \/ Replaced(approved, Wait("exchange", work.event, approved))
      \/ record' = record /\ work' = Idle
    BY Zenon DEF Poll
<1>3. ASSUME record = work.prev
      PROVE  /\ later \in Devices /\ yes \in Devices
             /\ later.id = record.device[1].id /\ yes.id = record.device[1].id
    <2>1. d.id \in Nat /\ d.due \in Nat
        BY <1>1, <1>3, RecordTyped DEF Login
    <2> QED BY <1>3, <2>1 DEF Device, Devices
<1>4. CASE record = work.prev /\ record' = waits /\ work' = Emit({later})
    <2>1. later \in Devices /\ later.id = record.device[1].id /\ record.device # << >>
        BY <1>1, <1>3, <1>4 DEF Login
    <2>2. <<later>> \in Seq(Devices) /\ <<later>>[1] = later /\ <<later>> # << >>
        BY <2>1, One
    <2> HIDE DEF later
    <2>3. /\ record' \in Records /\ record'.tokens = record.tokens /\ record'.staged = record.staged
          /\ record'.device = <<later>>
        BY <1>4, <2>2, RecordTyped DEF Records
    <2>4. Working'
        BY <1>4, <2>1, IdleWorks
    <2>5. Ordered'
        BY <1>1, <2>1, <2>2, <2>3, OrderedKept DEF EnrollmentIInv, Ordered
    <2> QED BY <1>1, <2>3, <2>4, <2>5, StepKeeps DEF EnrollmentIInv, EnrollmentTypeOK
<1>5. CASE record = work.prev /\ record' = Over(work.prev) /\ work' = Emit({})
    BY <1>1, <1>5, OverKeeps DEF Login
<1>6. CASE record = work.prev /\ record' = approved /\ work' = Wait("exchange", work.event, approved)
    <2>1. yes \in Devices /\ yes.id = record.device[1].id /\ record.device # << >>
        BY <1>1, <1>3, <1>6 DEF Login
    <2>2. <<yes>> \in Seq(Devices) /\ <<yes>>[1] = yes /\ <<yes>> # << >>
        BY <2>1, One
    <2> HIDE DEF yes
    <2>3. /\ record' \in Records /\ record'.tokens = record.tokens /\ record'.staged = record.staged
          /\ record'.device = <<yes>>
        BY <1>6, <2>2, RecordTyped DEF Records
    <2>4. work'.step = "exchange" /\ work'.event = work.event /\ work'.prev = record'
        BY <1>6 DEF Wait
    <2>5. Login(record', work.event.id)
        BY <1>1, <1>6, <2>1, <2>2, <2>3 DEF Login
    <2>6. Working'
        BY <1>1, <2>3, <2>4, <2>5 DEF Working, Login
    <2>7. Ordered'
        BY <1>1, <2>1, <2>2, <2>3, OrderedKept DEF EnrollmentIInv, Ordered
    <2> QED BY <1>1, <2>3, <2>6, <2>7, StepKeeps DEF EnrollmentIInv, EnrollmentTypeOK
<1>7. CASE record' = record /\ work' = Idle
    BY <1>1, <1>7, LostKeeps
<1> QED BY <1>2, <1>4, <1>5, <1>6, <1>7, ReplacedCases

(* The tokens are obtained, for the login that was approved.               *)
LEMMA ExchangeKeeps == ASSUME EnrollmentIInv, Exchange PROVE EnrollmentIInv'
<1>1. /\ work.step = "exchange" /\ inbox # << >> /\ UNCHANGED <<record, cli, inbox, timers, used>>
      /\ work.event \in Events /\ work.prev \in Records /\ Login(work.prev, work.event.id)
    BY DEF Exchange, EnrollmentIInv, Working, Busy
<1>2. issued \in Nat /\ work.event.id \in Nat
    BY <1>1 DEF EnrollmentIInv, EnrollmentTypeOK, Events, Requests, Timers
<1>3. CASE /\ issued' = issued + 1
           /\ work' = [step |-> "seal", event |-> work.event, asked |-> work.prev, expected |-> work.prev,
                       tokens |-> [of |-> work.event.id, version |-> issued + 1], tries |-> 1]
    <2> DEFINE t == [of |-> work.event.id, version |-> issued + 1]
    <2>1. t \in Tokens /\ t.of = work.event.id
        BY <1>2 DEF Tokens
    <2> HIDE DEF t
    <2>2. /\ work' \in Sealing /\ work'.step = "seal" /\ work'.event = work.event
          /\ work'.asked = work.prev /\ work'.expected = work.prev /\ work'.tokens = t
        BY <1>1, <1>3, <2>1 DEF t, Sealing
    <2>3. Login(work'.asked, work'.event.id) /\ PendingMatches(work'.expected, work'.asked)
        BY <1>1, <2>2 DEF Login, PendingMatches
    <2>4. Working'
        BY <2>1, <2>2, <2>3 DEF Working
    <2>5. Ordered' /\ record' \in Records /\ issued' \in Nat
        BY <1>1, <1>2, <1>3 DEF EnrollmentIInv, EnrollmentTypeOK, Ordered
    <2> QED BY <1>1, <2>4, <2>5, StepKeeps
<1>4. CASE issued' = issued /\ work' = Idle
    BY <1>1, <1>4, LostKeeps
<1> QED BY <1>3, <1>4 DEF Exchange

(* What the record says when the tokens are sealed into it.                *)
LEMMA SealedLogin ==
    ASSUME EnrollmentIInv, work.step = "seal", record = work.expected
    PROVE  /\ Login(record, work.tokens.of) /\ work.tokens \in Tokens
           /\ work.tokens.of \in used /\ record.tokens.of <= work.tokens.of
<1>1. Login(record, work.tokens.of)
    BY DEF EnrollmentIInv, Working, PendingMatches, Login
<1>2. work.tokens \in Tokens
    BY DEF EnrollmentIInv, Working, Sealing
<1> QED BY <1>1, <1>2 DEF EnrollmentIInv, Ordered, Login

(* They are sealed; or the record is compared with the login, and adopted. *)
LEMMA SealKeeps == ASSUME EnrollmentIInv, Seal PROVE EnrollmentIInv'
<1>1. /\ work.step = "seal" /\ inbox # << >> /\ UNCHANGED <<cli, inbox, timers, used, issued>>
      /\ issued \in Nat
    BY DEF Seal, EnrollmentIInv, EnrollmentTypeOK, Busy
<1>2. CASE record = work.expected /\ record' = Sealed(record, work.tokens) /\ work' = Emit({})
    <2>1. /\ record.device # << >> /\ work.tokens \in Tokens /\ work.tokens.of \in used
        BY <1>1, <1>2, SealedLogin DEF Login
    <2>2. << >> \in Seq(Devices)
        OBVIOUS
    <2>3. /\ record' \in Records /\ record'.tokens = work.tokens /\ record'.staged = None
          /\ record'.device = << >>
        BY <1>2, <2>1, <2>2, RecordTyped DEF Sealed, Records, None
    <2>4. Working'
        BY <1>2, IdleWorks
    <2>5. Ordered'
        BY <1>1, <2>1, <2>3 DEF Ordered
    <2> QED BY <1>1, <2>3, <2>4, <2>5, StepKeeps
<1>3. CASE /\ record' = record /\ PendingMatches(record, work.asked)
           /\ work' = [work EXCEPT !.expected = record, !.tries = @ + 1]
    <2>1. work \in Sealing
        BY <1>1 DEF EnrollmentIInv, Working
    <2>2. /\ work' \in Sealing /\ work'.step = "seal" /\ work'.event = work.event
          /\ work'.asked = work.asked /\ work'.expected = record /\ work'.tokens = work.tokens
        <3>1. /\ work.step = "seal" /\ work.event \in Events /\ work.asked \in Records
              /\ work.tokens \in Tokens /\ work.tries \in Nat /\ work.tries + 1 \in Nat
            BY <2>1 DEF Sealing
        <3>2. record \in Records
            BY RecordTyped
        <3>3. work' = [step |-> work.step, event |-> work.event, asked |-> work.asked, expected |-> record,
                       tokens |-> work.tokens, tries |-> work.tries + 1]
            BY <1>3, <2>1 DEF Sealing
        <3> QED BY <3>1, <3>2, <3>3 DEF Sealing
    <2>3. Login(work.asked, work.event.id) /\ work.tokens.of = work.event.id
        BY <1>1 DEF EnrollmentIInv, Working
    <2>4. Login(work'.asked, work'.event.id) /\ PendingMatches(work'.expected, work'.asked)
        BY <1>3, <2>2, <2>3 DEF Login, PendingMatches
    <2>5. Working'
        BY <2>2, <2>3, <2>4 DEF Working
    <2>6. Ordered' /\ record' \in Records
        BY <1>1, <1>3 DEF EnrollmentIInv, EnrollmentTypeOK, Ordered
    <2> QED BY <1>1, <2>5, <2>6, StepKeeps
<1>4. CASE record' = record /\ work' = Idle
    BY <1>1, <1>4, LostKeeps
<1>5. CASE record' = record /\ work' = Emit({})
    <2>1. Working'
        BY <1>5, IdleWorks
    <2>2. Ordered' /\ record' \in Records
        BY <1>1, <1>5 DEF EnrollmentIInv, EnrollmentTypeOK, Ordered
    <2> QED BY <1>1, <2>1, <2>2, StepKeeps
<1> QED BY <1>2, <1>3, <1>4, <1>5 DEF Seal

(* The tokens expired: a new version of them, of the same enrollment.      *)
LEMMA BeginModelKeeps == ASSUME EnrollmentIInv, BeginModel PROVE EnrollmentIInv'
<1>1. /\ issued' = issued + 1 /\ issued \in Nat /\ UNCHANGED <<record, cli, inbox, timers, used>>
      /\ work' = [step |-> "refresh", prev |-> record, version |-> issued + 1]
    BY DEF BeginModel, EnrollmentIInv, EnrollmentTypeOK
<1>2. work'.step = "refresh" /\ work'.version \in Nat
    BY <1>1
<1>3. Working'
    BY <1>2 DEF Working
<1>4. Ordered' /\ record' \in Records /\ issued' \in Nat
    BY <1>1 DEF EnrollmentIInv, EnrollmentTypeOK, Ordered
<1> QED BY <1>1, <1>2, <1>3, <1>4, StepKeeps

LEMMA RefreshKeeps == ASSUME EnrollmentIInv, Refresh PROVE EnrollmentIInv'
<1> DEFINE new == [work.prev EXCEPT !.tokens.version = work.version]
<1>1. /\ work.version \in Nat /\ Replaced(new, Idle) /\ UNCHANGED <<cli, inbox, timers, used, issued>>
    BY DEF Refresh, EnrollmentIInv, Working
<1>2. CASE record = work.prev /\ record' = new /\ work' = Idle
    <2>1. /\ record' = [record EXCEPT !.tokens = [record.tokens EXCEPT !.version = work.version]]
        BY <1>2
    <2>2. /\ [record.tokens EXCEPT !.version = work.version] \in Tokens
          /\ [record.tokens EXCEPT !.version = work.version].of = record.tokens.of
        BY <1>1, RecordTyped DEF Tokens
    <2>3. /\ record' \in Records /\ record'.tokens.of = record.tokens.of
          /\ record'.staged = record.staged /\ record'.device = record.device
        BY <2>1, <2>2, RecordTyped DEF Records
    <2>4. Working' /\ work'.step = "idle"
        BY <1>2, IdleWorks DEF Idle
    <2>5. Ordered'
        BY <1>1, <2>3, OrderedKept
    <2> QED BY <1>1, <2>3, <2>4, <2>5, StepKeeps DEF EnrollmentIInv, EnrollmentTypeOK
<1>3. CASE record' = record /\ work' = Idle
    BY <1>1, <1>3, LostKeeps
<1> QED BY <1>1, <1>2, <1>3, ReplacedCases

-----------------------------------------------------------------------------
LEMMA EnrollmentInitInv == EnrollmentInit => EnrollmentIInv
<1> SUFFICES ASSUME EnrollmentInit PROVE EnrollmentIInv
    OBVIOUS
<1>1. << >> \in Seq(Devices) /\ << >> \in Seq(Events) /\ Len(<< >>) = 0
    OBVIOUS
<1>2. EnrollmentTypeOK
    BY <1>1 DEF EnrollmentInit, EnrollmentTypeOK, Empty, NoTokens, None, Records, Tokens
<1>3. Ordered
    BY DEF EnrollmentInit, Ordered, Empty, NoTokens, None
<1>4. Known
    BY <1>1 DEF EnrollmentInit, Known
<1>5. work.step = "idle"
    BY DEF EnrollmentInit, Idle
<1> QED BY <1>2, <1>3, <1>4, <1>5 DEF EnrollmentIInv, Working, Busy

(* Every step keeps the record ordered and what is worked on known.        *)
LEMMA EnrollmentNextInv == ASSUME EnrollmentIInv, [EnrollmentNext]_enrollmentVars PROVE EnrollmentIInv'
<1>1. CASE EnrollmentComponent
    BY <1>1, HandleKeeps, StartKeeps, ExpireKeeps, PollKeeps, ExchangeKeeps, SealKeeps, CommitKeeps,
       RefreshKeeps DEF EnrollmentComponent
<1>2. CASE Stage \/ AppendRequest \/ FireTimer \/ BeginModel \/ Restart
    BY <1>2, StageKeeps, AppendRequestKeeps, FireTimerKeeps, BeginModelKeeps, RestartKeeps
<1>3. CASE Clock \/ UNCHANGED enrollmentVars
    <2>1. UNCHANGED <<record, cli, inbox, timers, work, used, issued>>
        BY <1>3 DEF Clock, enrollmentVars
    <2>2. EnrollmentTypeOK' /\ Ordered' /\ Known' /\ Busy'
        BY <2>1 DEF EnrollmentIInv, EnrollmentTypeOK, Ordered, Known, Busy
    <2>3. Working'
        BY <2>1 DEF EnrollmentIInv, Working, Login, PendingMatches
    <2> QED BY <2>2, <2>3 DEF EnrollmentIInv
<1> QED BY <1>1, <1>2, <1>3 DEF EnrollmentNext

LEMMA SpecInv == EnrollmentSpec => []EnrollmentIInv
<1>1. EnrollmentIInv /\ [EnrollmentNext]_enrollmentVars => EnrollmentIInv'
    BY EnrollmentNextInv, EnrollmentAssumption
<1> QED BY <1>1, EnrollmentInitInv, PTL DEF EnrollmentSpec

(* Every step but a sealing keeps whose tokens are held.                   *)
LEMMA TokensChange ==
    ASSUME EnrollmentIInv, EnrollmentNext, record'.tokens.of # record.tokens.of
    PROVE  work.step = "seal" /\ record = work.expected /\ record' = Sealed(record, work.tokens)
<1>1. \A new, then : Replaced(new, then) => record' = record \/ (record = work.prev /\ record' = new)
    BY ReplacedCases
<1>2. CASE Stage
    <2>1. PICK id \in Ids : record' = [record EXCEPT !.staged = id]
        BY <1>2 DEF Stage
    <2> QED BY <2>1, RecordTyped DEF Records
<1>3. CASE Start
    <2> DEFINE id == work.event.id
    <2>1. \/ record' = [record EXCEPT !.staged = None, !.completed = id]
          \/ record' = [record EXCEPT !.staged = None, !.device = <<Device(id, 1, FALSE)>>]
          \/ record' = record
        BY <1>1, <1>3, Zenon DEF Start
    <2> QED BY <2>1, RecordTyped DEF Records
<1>4. CASE Expire \/ Poll
    <2>1. \/ record' = Over(record)
          \/ \E d : record' = [record EXCEPT !.device = d]
          \/ record' = record
        BY <1>1, <1>4, Zenon DEF Expire, Poll
    <2> QED BY <2>1, RecordTyped DEF Over, Records
<1>5. CASE Refresh
    <2>1. record' = record \/ record' = [record EXCEPT !.tokens.version = work.version]
        BY <1>1, <1>5, Zenon DEF Refresh
    <2> QED BY <2>1, RecordTyped DEF Records, Tokens
<1>6. CASE AppendRequest \/ FireTimer \/ Clock \/ BeginModel \/ Restart \/ Exchange \/ Commit
    BY <1>6 DEF AppendRequest, FireTimer, Clock, BeginModel, Restart, Exchange, Commit
<1>7. CASE Handle
    BY <1>7, Zenon DEF Handle, BeginRequest, BeginTimer
<1>8. CASE Seal
    BY <1>8 DEF Seal
<1> QED BY <1>2, <1>3, <1>4, <1>5, <1>6, <1>7, <1>8 DEF EnrollmentNext, EnrollmentComponent

(* Whoever writes the record meanwhile, the command line, a refresh or a   *)
(* delivery that is handled again, the tokens of one enrollment are never  *)
(* replaced by those of an earlier one, and are sealed only while no later *)
(* enrollment is staged (seal_tokens, pending_matches).                    *)
THEOREM NewestTokensWin == EnrollmentSpec => NewestWins
<1>1. EnrollmentIInv /\ [EnrollmentNext]_enrollmentVars =>
        [record'.tokens.of # record.tokens.of =>
            /\ record'.tokens.of > record.tokens.of
            /\ record.staged \in {None, record'.tokens.of}]_enrollmentVars
    <2> SUFFICES ASSUME EnrollmentIInv, EnrollmentNext, record'.tokens.of # record.tokens.of
                 PROVE  /\ record'.tokens.of > record.tokens.of
                        /\ record.staged \in {None, record'.tokens.of}
        OBVIOUS
    <2>1. work.step = "seal" /\ record = work.expected /\ record' = Sealed(record, work.tokens)
        BY TokensChange
    <2>2. /\ Login(record, work.tokens.of) /\ work.tokens \in Tokens
          /\ record.tokens.of <= work.tokens.of /\ record.tokens.of \in Nat
        BY <2>1, SealedLogin, RecordTyped
    <2>3. record'.tokens = work.tokens /\ work.tokens.of \in Nat
        BY <2>1, <2>2, RecordTyped DEF Sealed, Records, Tokens
    <2> QED BY <2>2, <2>3 DEF Login
<1> QED BY <1>1, SpecInv, PTL DEF EnrollmentSpec, NewestWins

-----------------------------------------------------------------------------
(***************************************************************************)
(* The mail cursor passes no message silently, for every size of the       *)
(* batches, every mailbox and every number of lost connections.            *)
(***************************************************************************)

(* The mailbox, and what is stored, remembered and owed, are numbered.     *)
MailTypeOK ==
    /\ validity \in Nat \ {0} /\ next \in Nat \ {0}
    /\ present \subseteq 1 .. next - 1
    /\ importHistory \in BOOLEAN
    /\ stored.validity \in 0 .. validity /\ stored.last \in Nat
    /\ stored = NoCursor \/ stored.validity # 0
    /\ stored.validity = validity => stored.last < next
    /\ \A m \in owed : m.validity \in 1 .. validity /\ m.uid \in Nat \ {0}

(* A session has the cursor of the mailbox it opened.                      *)
InSession ==
    Connected => /\ seen = [validity |-> validity, last |-> seen.last]
                 /\ stored.validity = validity /\ stored # NoCursor
                 /\ seen.last \in stored.last .. next - 1
                 /\ session # "fetch" => seen.last = stored.last

(* A message owed in this mailbox is there or was expunged; before the     *)
(* first session, and after a renumbering, the mailbox owes what it says.  *)
StillThere == \A m \in owed : m.validity = validity =>
    m.uid < next /\ m = Message(m.uid) /\ (m.uid \in present \/ m \in gone)
OwedWhere ==
    /\ stored = NoCursor => \A m \in owed : m.validity = validity /\ importHistory
    /\ stored # NoCursor /\ stored.validity # validity => \A m \in owed : m.validity # validity

(* The UIDs to fetch leave none out, and what the session's cursor passed  *)
(* is among the observations it will commit.                               *)
FetchesAll == session = "fetch" =>
    /\ found \subseteq 1 .. next - 1
    /\ \A u \in present, w \in found : u > seen.last /\ u <= w => u \in found
    /\ \A m \in owed : m.validity = validity /\ m.uid > stored.last /\ m.uid <= seen.last
                        => m \in batch \/ m \in gone

EmailIInv == MailTypeOK /\ InSession /\ StillThere /\ OwedWhere /\ FetchesAll /\ NoneSkippedSilently

-----------------------------------------------------------------------------
(* A set of numbers has a least one, and Min is it.                        *)
LEMMA LeastIs ==
    ASSUME NEW S \in SUBSET Nat, S # {}
    PROVE  Min(S) \in S /\ \A y \in S : Min(S) <= y
<1> DEFINE R == {ss \in Nat \X Nat : ss[1] < ss[2]}
<1>1. IsWellFoundedOn(R, Nat)
    BY NatLessThanWellFounded DEF OpToRel
<1>2. \A x \in Nat, y \in Nat : x < y => <<x, y>> \in R
    OBVIOUS
<1> HIDE DEF R
<1>3. S \subseteq Nat /\ S # {}
    OBVIOUS
<1>4. PICK x \in S : \A y \in S : ~(<<y, x>> \in R)
    BY ONLY <1>1, <1>3, WFMin
<1>5. \A y \in S : ~(y < x)
    BY <1>2, <1>3, <1>4
<1>6. \E m \in S : \A y \in S : m <= y
    BY <1>3, <1>4, <1>5
<1> QED BY <1>6 DEF Min

(* The first few of the UIDs after the cursor leave none out.              *)
LEMMA SearchLeavesNoneOut ==
    ASSUME MailTypeOK, seen.last \in Nat
    PROVE  /\ SearchSince \subseteq present
           /\ \A u \in present, w \in SearchSince : u > seen.last /\ u <= w => u \in SearchSince
<1> DEFINE new == {u \in present : u > seen.last}
           before(u) == {v \in new : v < u}
<1>1. SearchSince = {u \in new : Cardinality(before(u)) < FetchLimit}
    BY DEF SearchSince
<1>2. ASSUME NEW u \in present, NEW w \in SearchSince, u > seen.last, u <= w
      PROVE  u \in SearchSince
    <2>1. u \in new /\ w \in new /\ u \in Nat /\ w \in Nat /\ new \subseteq Nat
        <3>1. present \subseteq Nat
            BY DEF MailTypeOK
        <3> QED BY <1>1, <1>2, <3>1
    <2>2. before(u) \subseteq before(w)
        BY <1>2, <2>1
    <2>3. IsFiniteSet(before(w))
        <3>1. IsFiniteSet(1 .. next - 1)
            BY FS_Interval DEF MailTypeOK
        <3>2. before(w) \subseteq 1 .. next - 1
            BY DEF MailTypeOK
        <3> QED BY <3>1, <3>2, FS_Subset
    <2>4. IsFiniteSet(before(u)) /\ Cardinality(before(u)) <= Cardinality(before(w))
        BY <2>2, <2>3, FS_Subset
    <2>5. Cardinality(before(u)) \in Nat /\ Cardinality(before(w)) \in Nat
        BY <2>3, <2>4, FS_CardinalityType
    <2>6. Cardinality(before(w)) < FetchLimit
        BY <1>1
    <2> HIDE DEF before, new
    <2> QED BY <1>1, <2>1, <2>4, <2>5, <2>6, EmailAssumption
<1> QED BY <1>1, <1>2

(* The number of messages of a mailbox.                                    *)
LEMMA MailCount ==
    ASSUME MailTypeOK
    PROVE  Cardinality(present) \in Nat
<1>1. IsFiniteSet(1 .. next - 1)
    BY FS_Interval DEF MailTypeOK
<1> QED BY <1>1, FS_Subset, FS_CardinalityType DEF MailTypeOK

-----------------------------------------------------------------------------
LEMMA EmailInitHolds ==
    ASSUME EmailInit
    PROVE  EmailIInv
<1>1. /\ validity = 1 /\ present = {1} /\ next = 2 /\ importHistory \in BOOLEAN
      /\ owed = (IF importHistory THEN {Message(1)} ELSE {})
      /\ gone = {} /\ stored = NoCursor /\ session = "off"
    BY DEF EmailInit
<1>2. NoCursor.validity = 0 /\ NoCursor.last = 0
    BY DEF NoCursor
<1>3. \A m \in owed : importHistory /\ m = Message(1) /\ m.validity = 1 /\ m.uid = 1
    BY <1>1 DEF Message
<1>4. MailTypeOK
    BY <1>1, <1>2, <1>3 DEF MailTypeOK
<1>5. InSession /\ FetchesAll
    BY <1>1 DEF InSession, FetchesAll, Connected
<1>6. StillThere /\ OwedWhere
    BY <1>1, <1>2, <1>3 DEF StillThere, OwedWhere
<1>7. NoneSkippedSilently
    BY <1>1 DEF NoneSkippedSilently, PassedBy
<1> QED BY <1>4, <1>5, <1>6, <1>7 DEF EmailIInv

(* A step that leaves the mailbox, the cursor and the stream alone.        *)
LEMMA QuietMail ==
    ASSUME EmailIInv, UNCHANGED <<mailbox, importHistory, stored, log>>,
           InSession', FetchesAll'
    PROVE  EmailIInv'
<1>1. UNCHANGED <<validity, present, next, owed, gone>>
    BY DEF mailbox
<1>2. MailTypeOK'
    BY <1>1 DEF EmailIInv, MailTypeOK
<1>3. StillThere' /\ OwedWhere'
    BY <1>1 DEF EmailIInv, StillThere, OwedWhere, Message
<1>4. NoneSkippedSilently'
    BY <1>1 DEF EmailIInv, NoneSkippedSilently
<1> QED BY <1>2, <1>3, <1>4 DEF EmailIInv

LEMMA ArriveKeeps ==
    ASSUME EmailIInv, Arrive
    PROVE  EmailIInv'
<1>1. MailTypeOK /\ InSession /\ StillThere /\ OwedWhere /\ FetchesAll /\ NoneSkippedSilently
    BY DEF EmailIInv
<1>2. /\ next' = next + 1 /\ present' = present \cup {next}
      /\ UNCHANGED <<validity, gone, importHistory, stored, session, seen, found, batch, log>>
    BY DEF Arrive
<1>3. PICK n : n = Message(next)
    OBVIOUS
<1>4. n = [validity |-> validity, uid |-> next] /\ n.validity = validity /\ n.uid = next
    BY <1>3 DEF Message
<1>5. \/ owed' = owed
      \/ owed' = owed \cup {n} /\ ((stored = NoCursor /\ importHistory) \/ stored.validity = validity)
    BY <1>3 DEF Arrive
<1>6. validity \in Nat \ {0} /\ next \in Nat \ {0} /\ present \subseteq 1 .. next - 1
    BY <1>1 DEF MailTypeOK
<1>7. MailTypeOK'
    <2>1. next' \in Nat \ {0} /\ present' \subseteq 1 .. next' - 1
        BY <1>2, <1>6
    <2>2. \A m \in owed' : m.validity \in 1 .. validity /\ m.uid \in Nat \ {0}
        BY <1>1, <1>4, <1>5, <1>6 DEF MailTypeOK
    <2>3. stored.validity = validity => stored.last < next'
        BY <1>1, <1>2, <1>6 DEF MailTypeOK
    <2> QED BY <1>1, <1>2, <2>1, <2>2, <2>3 DEF MailTypeOK
<1>8. InSession'
    <2>1. Connected' = Connected
        BY <1>2 DEF Connected
    <2>2. Connected => seen.last \in stored.last .. next' - 1
        BY <1>1, <1>2, <1>6 DEF InSession, MailTypeOK
    <2> QED BY <1>1, <1>2, <2>1, <2>2 DEF InSession
<1>9. StillThere'
    <2> SUFFICES ASSUME NEW m \in owed', m.validity = validity
                 PROVE  m.uid < next' /\ m = [validity |-> validity, uid |-> m.uid] /\ (m.uid \in present' \/ m \in gone)
        BY <1>2 DEF StillThere, Message
    <2>1. CASE m = n
        BY <1>2, <1>4, <1>6, <2>1
    <2>2. CASE m \in owed
        BY <1>1, <1>2, <1>6, <2>2 DEF StillThere, Message, MailTypeOK
    <2> QED BY <1>5, <2>1, <2>2
<1>10. OwedWhere'
    BY <1>1, <1>2, <1>4, <1>5, <1>6 DEF OwedWhere, NoCursor
<1>11. FetchesAll'
    <2> SUFFICES ASSUME session = "fetch"
                 PROVE  /\ found \subseteq 1 .. next' - 1
                        /\ \A u \in present', w \in found : u > seen.last /\ u <= w => u \in found
                        /\ \A m \in owed' : m.validity = validity /\ m.uid > stored.last /\ m.uid <= seen.last
                             => m \in batch \/ m \in gone
        BY <1>2 DEF FetchesAll
    <2>1. /\ found \subseteq 1 .. next - 1
          /\ \A u \in present, w \in found : u > seen.last /\ u <= w => u \in found
          /\ \A m \in owed : m.validity = validity /\ m.uid > stored.last /\ m.uid <= seen.last
                             => m \in batch \/ m \in gone
        BY <1>1 DEF FetchesAll
    <2>2. seen.last < next /\ seen.last \in Int
        BY <1>1, <1>6 DEF InSession, Connected, MailTypeOK
    <2>3. found \subseteq 1 .. next' - 1
        BY <1>2, <1>6, <2>1
    <2>4. \A w \in found : ~(next <= w)
        BY <1>6, <2>1
    <2>5. \A u \in present', w \in found : u > seen.last /\ u <= w => u \in found
        BY <1>2, <2>1, <2>4
    <2>6. ~(n.uid <= seen.last)
        BY <1>4, <1>6, <2>2
    <2> QED BY <1>5, <2>1, <2>3, <2>5, <2>6
<1>12. NoneSkippedSilently'
    <2> SUFFICES ASSUME NEW m \in owed', PassedBy(stored, m)
                 PROVE  m \in log \/ m \in gone \/ \E x \in log : x.uid = 0 /\ x.validity > m.validity
        BY <1>2 DEF NoneSkippedSilently, PassedBy
    <2>1. CASE m \in owed
        BY <1>1, <2>1 DEF NoneSkippedSilently
    <2>2. CASE m = n
        <3>1. stored.validity \in 0 .. validity /\ stored.last \in Nat /\ (stored.validity = validity => stored.last < next)
            BY <1>1 DEF MailTypeOK
        <3>2. FALSE
            BY <1>4, <1>6, <2>2, <3>1 DEF PassedBy
        <3> QED BY <3>2
    <2> QED BY <1>5, <2>1, <2>2
<1> QED BY <1>7, <1>8, <1>9, <1>10, <1>11, <1>12 DEF EmailIInv

LEMMA ExpungeKeeps ==
    ASSUME EmailIInv, Expunge
    PROVE  EmailIInv'
<1>1. MailTypeOK /\ InSession /\ StillThere /\ OwedWhere /\ FetchesAll /\ NoneSkippedSilently
    BY DEF EmailIInv
<1>2. PICK u \in present : present' = present \ {u} /\ gone' = gone \cup {Message(u)}
    BY DEF Expunge
<1>3. UNCHANGED <<validity, next, owed, importHistory, stored, session, seen, found, batch, log>>
    BY DEF Expunge
<1>4. MailTypeOK'
    BY <1>1, <1>2, <1>3 DEF MailTypeOK
<1>5. InSession' /\ OwedWhere'
    BY <1>1, <1>3 DEF InSession, OwedWhere, Connected
<1>6. StillThere'
    BY <1>1, <1>2, <1>3 DEF StillThere, Message
<1>7. FetchesAll'
    BY <1>1, <1>2, <1>3 DEF FetchesAll
<1>8. NoneSkippedSilently'
    BY <1>1, <1>2, <1>3 DEF NoneSkippedSilently
<1> QED BY <1>4, <1>5, <1>6, <1>7, <1>8 DEF EmailIInv

LEMMA RenumberKeeps ==
    ASSUME EmailIInv, Renumber
    PROVE  EmailIInv'
<1>1. MailTypeOK /\ InSession /\ StillThere /\ OwedWhere /\ FetchesAll /\ NoneSkippedSilently
    BY DEF EmailIInv
<1>2. PICK c : c = Cardinality(present)
    OBVIOUS
<1>3. /\ session = "off" /\ validity' = validity + 1 /\ present' = 1 .. c /\ next' = c + 1
      /\ UNCHANGED <<gone, importHistory, stored, session, seen, found, batch, log>>
    BY <1>2 DEF Renumber
<1>4. c \in Nat /\ validity \in Nat \ {0} /\ stored.validity \in 0 .. validity /\ stored.last \in Nat
    BY <1>1, <1>2, MailCount DEF MailTypeOK
<1>5. \A m \in owed' : \/ stored # NoCursor /\ m \in owed
                      \/ /\ stored = NoCursor /\ importHistory
                         /\ m = [validity |-> validity', uid |-> m.uid] /\ m.validity = validity' /\ m.uid \in 1 .. c
    <2>1. owed' = IF stored # NoCursor THEN owed
                  ELSE {[validity |-> validity', uid |-> u] : u \in IF importHistory THEN present' ELSE {}}
        BY DEF Renumber
    <2>2. CASE stored # NoCursor
        BY <2>1, <2>2
    <2>3. CASE stored = NoCursor
        <3> SUFFICES ASSUME NEW m \in owed'
                     PROVE  /\ importHistory
                            /\ m = [validity |-> validity', uid |-> m.uid] /\ m.validity = validity' /\ m.uid \in 1 .. c
            BY <2>3
        <3>1. PICK u \in IF importHistory THEN present' ELSE {} : m = [validity |-> validity', uid |-> u]
            BY <2>1, <2>3
        <3>2. importHistory /\ u \in 1 .. c
            BY <1>3, <3>1
        <3> QED BY <3>1, <3>2
    <2> QED BY <2>2, <2>3
<1>6. NoCursor.validity = 0
    BY DEF NoCursor
<1>7. MailTypeOK'
    <2>1. validity' \in Nat \ {0} /\ next' \in Nat \ {0} /\ present' \subseteq 1 .. next' - 1
        BY <1>3, <1>4
    <2>2. stored.validity \in 0 .. validity' /\ stored.validity # validity'
        BY <1>3, <1>4
    <2>3. \A m \in owed' : m.validity \in 1 .. validity' /\ m.uid \in Nat \ {0}
        BY <1>1, <1>3, <1>4, <1>5 DEF MailTypeOK
    <2> QED BY <1>1, <1>3, <2>1, <2>2, <2>3 DEF MailTypeOK
<1>8. InSession' /\ FetchesAll'
    BY <1>3 DEF InSession, FetchesAll, Connected
<1>9. \A m \in owed : m.validity # validity'
    BY <1>1, <1>3, <1>4 DEF MailTypeOK
<1>10. StillThere'
    <2>1. \A m \in owed' : m.validity = validity' =>
            m.uid < next' /\ m = [validity |-> validity', uid |-> m.uid] /\ m.uid \in present'
        BY <1>3, <1>4, <1>5, <1>9
    <2> QED BY <2>1 DEF StillThere, Message
<1>11. OwedWhere'
    BY <1>3, <1>5, <1>9 DEF OwedWhere
<1>12. NoneSkippedSilently'
    BY <1>1, <1>3, <1>5 DEF NoneSkippedSilently, PassedBy
<1> QED BY <1>7, <1>8, <1>10, <1>11, <1>12 DEF EmailIInv

(* A session resumes at a UID of the mailbox; at the stored one when it    *)
(* belongs to this mailbox, and with a notice when it does not.            *)
LEMMA ReconcileIs ==
    ASSUME MailTypeOK
    PROVE  /\ Reconcile = [validity |-> validity, last |-> Reconcile.last]
           /\ Reconcile.validity = validity /\ Reconcile.last \in 0 .. next - 1 /\ Reconcile # NoCursor
           /\ stored = NoCursor /\ importHistory => Reconcile.last = 0
           /\ stored # NoCursor /\ stored.validity = validity => Reconcile.last = stored.last
<1>1. /\ validity \in Nat \ {0} /\ next \in Nat \ {0} /\ stored.last \in Nat
      /\ stored.validity = validity => stored.last < next
    BY DEF MailTypeOK
<1>2. Boundary \in 0 .. next - 1 /\ Boundary = next - 1
    BY <1>1 DEF Boundary
<1>3. NoCursor.validity = 0
    BY DEF NoCursor
<1>4. PICK l : /\ l = IF stored = NoCursor THEN (IF importHistory THEN 0 ELSE Boundary)
                      ELSE IF Renumbered THEN Boundary ELSE Min({stored.last, Boundary})
    OBVIOUS
<1>5. Reconcile = [validity |-> validity, last |-> l]
    BY <1>4 DEF Reconcile, CursorAt
<1>6. stored.validity = validity => Min({stored.last, Boundary}) = stored.last
    <2>1. ASSUME stored.validity = validity PROVE Min({stored.last, Boundary}) = stored.last
        <3>1. PICK S : S = {stored.last, Boundary}
            OBVIOUS
        <3>2. S \in SUBSET Nat /\ S # {} /\ stored.last <= Boundary
            BY <1>1, <1>2, <2>1, <3>1
        <3>3. Min(S) \in S /\ \A y \in S : Min(S) <= y
            BY <3>2, LeastIs
        <3>4. Min(S) <= stored.last /\ (Min(S) = stored.last \/ Min(S) = Boundary)
            BY <3>1, <3>3
        <3>5. Min(S) = stored.last
            BY <1>1, <1>2, <3>2, <3>4
        <3> QED BY <3>1, <3>5
    <2> QED BY <2>1
<1>7. stored = NoCursor => stored.validity # validity
    BY <1>1, <1>3
<1>8. l \in 0 .. next - 1
    BY <1>1, <1>2, <1>4, <1>6 DEF Renumbered
<1>9. Reconcile.last = l /\ Reconcile.validity = validity
    BY <1>5
<1>10. Reconcile # NoCursor
    BY <1>1, <1>3, <1>9
<1> QED BY <1>4, <1>5, <1>6, <1>7, <1>8, <1>9, <1>10 DEF Renumbered

LEMMA OpenKeeps ==
    ASSUME EmailIInv, Open
    PROVE  EmailIInv'
<1>1. MailTypeOK /\ InSession /\ StillThere /\ OwedWhere /\ FetchesAll /\ NoneSkippedSilently
    BY DEF EmailIInv
<1>2. PICK r : r = Reconcile
    OBVIOUS
<1>3. /\ session' = "search" /\ seen' = r /\ stored' = r /\ log' = log \cup Announcement
      /\ UNCHANGED <<validity, present, next, owed, gone, importHistory>>
    BY <1>2 DEF Open, mailbox
<1>4. /\ r = [validity |-> validity, last |-> r.last]
      /\ r.validity = validity /\ r.last \in 0 .. next - 1 /\ r # NoCursor
      /\ stored = NoCursor /\ importHistory => r.last = 0
      /\ stored # NoCursor /\ stored.validity = validity => r.last = stored.last
    BY <1>1, <1>2, ReconcileIs
<1>5. validity \in Nat \ {0} /\ next \in Nat \ {0} /\ \A m \in owed : m.validity \in 1 .. validity /\ m.uid \in Nat \ {0}
    BY <1>1 DEF MailTypeOK
<1>6. MailTypeOK'
    <2>1. r.validity \in 0 .. validity /\ r.last \in Nat /\ r.validity # 0 /\ r.last < next
        BY <1>4, <1>5
    <2> QED BY <1>1, <1>3, <2>1 DEF MailTypeOK
<1>7. InSession'
    <2>1. r.last \in r.last .. next - 1
        BY <1>4, <1>5
    <2> QED BY <1>3, <1>4, <2>1 DEF InSession, Connected
<1>8. StillThere' /\ FetchesAll'
    BY <1>1, <1>3 DEF StillThere, FetchesAll, Message
<1>9. OwedWhere'
    BY <1>3, <1>4 DEF OwedWhere
<1>10. NoneSkippedSilently'
    <2> SUFFICES ASSUME NEW m \in owed, PassedBy(r, m)
                 PROVE  m \in log' \/ m \in gone \/ \E x \in log' : x.uid = 0 /\ x.validity > m.validity
        BY <1>3 DEF NoneSkippedSilently, PassedBy
    <2>1. CASE stored = NoCursor
        <3>1. m.validity = validity /\ r.last = 0
            BY <1>1, <1>4, <2>1 DEF OwedWhere
        <3> QED BY <1>4, <1>5, <3>1 DEF PassedBy
    <2>2. CASE stored # NoCursor /\ stored.validity = validity
        <3>1. PassedBy(stored, m)
            BY <1>4, <2>2 DEF PassedBy
        <3> QED BY <1>1, <1>3, <3>1 DEF NoneSkippedSilently
    <2>3. CASE stored # NoCursor /\ stored.validity # validity
        <3>1. m.validity # validity
            BY <1>1, <2>3 DEF OwedWhere
        <3>2. Notice(validity) \in log'
            BY <1>3, <2>3 DEF Announcement, Renumbered
        <3>3. Notice(validity).uid = 0 /\ Notice(validity).validity = validity
            BY DEF Notice
        <3>4. m.validity \in 1 .. validity
            BY <1>5
        <3>5. validity > m.validity
            BY <1>5, <3>1, <3>4
        <3> QED BY <3>2, <3>3, <3>5
    <2> QED BY <2>1, <2>2, <2>3
<1> QED BY <1>6, <1>7, <1>8, <1>9, <1>10 DEF EmailIInv

LEMMA SearchKeeps ==
    ASSUME EmailIInv, Search
    PROVE  EmailIInv'
<1>1. MailTypeOK /\ InSession
    BY DEF EmailIInv
<1>2. /\ session = "search" /\ session' \in {"entering", "fetch"} /\ found' = SearchSince
      /\ UNCHANGED <<mailbox, importHistory, stored, seen, batch, log>>
      /\ UNCHANGED <<validity, present, next, owed, gone>>
    BY DEF Search, mailbox
<1>3. /\ seen = [validity |-> validity, last |-> seen.last] /\ stored.validity = validity /\ stored # NoCursor
      /\ seen.last \in stored.last .. next - 1 /\ seen.last = stored.last
    BY <1>1, <1>2 DEF InSession, Connected
<1>4. InSession'
    BY <1>2, <1>3 DEF InSession
<1>5. stored.last \in Nat /\ present \subseteq 1 .. next - 1 /\ seen.last \in Nat
    BY <1>1, <1>3 DEF MailTypeOK
<1>6. /\ SearchSince \subseteq present
      /\ \A u \in present, w \in SearchSince : u > seen.last /\ u <= w => u \in SearchSince
    BY <1>1, <1>5, SearchLeavesNoneOut
<1>7. \A m \in owed : ~(m.uid > stored.last /\ m.uid <= seen.last)
    BY <1>1, <1>3, <1>5 DEF MailTypeOK
<1>8. FetchesAll'
    BY <1>2, <1>5, <1>6, <1>7 DEF FetchesAll
<1> QED BY <1>2, <1>4, <1>8, QuietMail

LEMMA FetchKeeps ==
    ASSUME EmailIInv, Fetch
    PROVE  EmailIInv'
<1>1. MailTypeOK /\ InSession /\ StillThere /\ FetchesAll
    BY DEF EmailIInv
<1>2. PICK u : u = Min(Unfetched)
    OBVIOUS
<1>3. /\ session = "fetch" /\ Unfetched # {} /\ seen' = [seen EXCEPT !.last = u] /\ batch' = batch \cup Fetched(u)
      /\ UNCHANGED <<mailbox, importHistory, stored, session, found, log>>
      /\ UNCHANGED <<validity, present, next, owed, gone>>
    BY <1>2 DEF Fetch, mailbox
<1>4. /\ seen = [validity |-> validity, last |-> seen.last] /\ stored.validity = validity /\ stored # NoCursor
      /\ seen.last \in stored.last .. next - 1
    BY <1>1, <1>3 DEF InSession, Connected
<1>5. stored.last \in Nat /\ next \in Nat \ {0} /\ seen.last \in Nat /\ present \subseteq 1 .. next - 1
    BY <1>1, <1>4 DEF MailTypeOK
<1>6. /\ found \subseteq 1 .. next - 1
      /\ \A x \in present, w \in found : x > seen.last /\ x <= w => x \in found
      /\ \A m \in owed : m.validity = validity /\ m.uid > stored.last /\ m.uid <= seen.last
                          => m \in batch \/ m \in gone
    BY <1>1, <1>3 DEF FetchesAll
<1>7. u \in found /\ u > seen.last /\ \A y \in found : y > seen.last => u <= y
    <2>1. Unfetched \in SUBSET Nat /\ Unfetched # {}
        BY <1>3, <1>5, <1>6 DEF Unfetched
    <2>2. u \in Unfetched /\ \A y \in Unfetched : u <= y
        BY <1>2, <2>1, LeastIs
    <2> QED BY <2>2 DEF Unfetched
<1>8. u \in Nat /\ u \in 1 .. next - 1
    BY <1>5, <1>6, <1>7
<1>9. seen' = [validity |-> validity, last |-> u] /\ seen'.last = u /\ seen'.validity = validity
    BY <1>3, <1>4
<1>10. InSession'
    <2>1. u \in stored.last .. next - 1
        BY <1>4, <1>5, <1>7, <1>8
    <2> QED BY <1>3, <1>4, <1>9, <2>1 DEF InSession
<1>11. FetchesAll'
    <2>1. \A x \in present, w \in found : x > u /\ x <= w => x \in found
        BY <1>5, <1>6, <1>7, <1>8
    <2>2. ASSUME NEW m \in owed, m.validity = validity, m.uid > stored.last, m.uid <= u
          PROVE  m \in batch' \/ m \in gone
        <3>1. m.uid \in Nat /\ m = Message(m.uid) /\ (m.uid \in present \/ m \in gone)
            BY <1>1, <2>2 DEF StillThere, MailTypeOK
        <3>2. CASE m.uid <= seen.last
            BY <1>3, <1>6, <2>2, <3>2
        <3>3. CASE m.uid > seen.last /\ m.uid \in present
            <4>1. m.uid \in found
                BY <1>6, <1>7, <2>2, <3>3
            <4>2. u <= m.uid
                BY <1>7, <3>3, <4>1
            <4>3. m.uid = u
                BY <1>8, <2>2, <3>1, <4>2
            <4>4. m \in Fetched(u)
                BY <3>1, <3>3, <4>3 DEF Fetched
            <4> QED BY <1>3, <4>4
        <3> QED BY <1>5, <3>1, <3>2, <3>3
    <2> QED BY <1>3, <1>6, <1>9, <2>1, <2>2 DEF FetchesAll
<1> QED BY <1>3, <1>10, <1>11, QuietMail

LEMMA CommitMailKeeps ==
    ASSUME EmailIInv, CommitMail
    PROVE  EmailIInv'
<1>1. MailTypeOK /\ InSession /\ StillThere /\ OwedWhere /\ FetchesAll /\ NoneSkippedSilently
    BY DEF EmailIInv
<1>2. /\ session = "fetch" /\ log' = log \cup batch /\ stored' = seen /\ session' \in {"search", "entering"}
      /\ UNCHANGED <<validity, present, next, owed, gone, importHistory, seen>>
    BY DEF CommitMail, mailbox
<1>3. /\ seen = [validity |-> validity, last |-> seen.last] /\ stored.validity = validity /\ stored # NoCursor
      /\ seen.last \in stored.last .. next - 1
    BY <1>1, <1>2 DEF InSession, Connected
<1>4. /\ validity \in Nat \ {0} /\ next \in Nat \ {0} /\ stored.last \in Nat /\ seen.last \in Nat /\ seen.last < next
      /\ seen.validity = validity
    BY <1>1, <1>3 DEF MailTypeOK
<1>5. seen # NoCursor
    BY <1>4 DEF NoCursor
<1>6. MailTypeOK'
    <2>1. seen.validity \in 0 .. validity /\ seen.validity # 0
        BY <1>4
    <2> QED BY <1>1, <1>2, <1>4, <2>1 DEF MailTypeOK
<1>7. InSession'
    <2>1. seen.last \in seen.last .. next - 1
        BY <1>4
    <2> QED BY <1>2, <1>3, <1>4, <1>5, <2>1 DEF InSession
<1>8. StillThere' /\ FetchesAll'
    BY <1>1, <1>2 DEF StillThere, FetchesAll, Message
<1>9. OwedWhere'
    BY <1>2, <1>4, <1>5 DEF OwedWhere
<1>10. NoneSkippedSilently'
    <2> SUFFICES ASSUME NEW m \in owed, PassedBy(seen, m)
                 PROVE  m \in log' \/ m \in gone \/ \E x \in log' : x.uid = 0 /\ x.validity > m.validity
        BY <1>2 DEF NoneSkippedSilently, PassedBy
    <2>1. CASE PassedBy(stored, m)
        BY <1>1, <1>2, <2>1 DEF NoneSkippedSilently
    <2>2. CASE ~PassedBy(stored, m)
        <3>1. m.uid \in Nat /\ m.validity = validity /\ m.uid > stored.last /\ m.uid <= seen.last
            BY <1>1, <1>3, <1>4, <2>2 DEF PassedBy, MailTypeOK
        <3>2. m \in batch \/ m \in gone
            BY <1>1, <1>2, <3>1 DEF FetchesAll
        <3> QED BY <1>2, <3>2
    <2> QED BY <2>1, <2>2
<1> QED BY <1>6, <1>7, <1>8, <1>9, <1>10 DEF EmailIInv

(* Entering and leaving IDLE, a refusal and a lost connection.             *)
LEMMA QuietKeeps ==
    ASSUME EmailIInv, IdleBegin \/ Announced \/ Renew \/ Refused \/ Lose
    PROVE  EmailIInv'
<1>1. InSession /\ UNCHANGED <<mailbox, importHistory, stored, log>>
    BY DEF EmailIInv, IdleBegin, Announced, Renew, Refused, Lose
<1>2. UNCHANGED <<validity, present, next, owed, gone>>
    BY <1>1 DEF mailbox
<1>3. \/ session \in {"entering", "idle"} /\ session' \in {"idle", "search"} /\ UNCHANGED seen
      \/ session' \in {"off", "ended"}
    BY DEF IdleBegin, Announced, Renew, Refused, Lose
<1>4. InSession' /\ FetchesAll'
    BY <1>1, <1>2, <1>3 DEF InSession, FetchesAll, Connected
<1> QED BY <1>1, <1>4, QuietMail

LEMMA EmailNextKeeps ==
    ASSUME EmailIInv, [EmailNext]_emailVars
    PROVE  EmailIInv'
<1>1. CASE UNCHANGED emailVars
    <2>1. UNCHANGED <<mailbox, importHistory, stored, session, seen, found, batch, log>>
        BY <1>1 DEF emailVars
    <2>2. UNCHANGED <<validity, present, next, owed, gone>>
        BY <2>1 DEF mailbox
    <2>3. InSession' /\ FetchesAll'
        BY <2>1, <2>2 DEF EmailIInv, InSession, FetchesAll, Connected
    <2> QED BY <2>1, <2>3, QuietMail
<1>2. CASE EmailNext
    BY <1>2, ArriveKeeps, ExpungeKeeps, RenumberKeeps, OpenKeeps, SearchKeeps, FetchKeeps, CommitMailKeeps,
       QuietKeeps DEF EmailNext, Session
<1> QED BY <1>1, <1>2

(* What the stored mail cursor passed was observed, was expunged, or is    *)
(* covered by a notice that the mailbox was renumbered (catch_up, commit   *)
(* and reconcile of the mail connector).                                   *)
THEOREM EmailNoneSkippedSilently == EmailSpec => []NoneSkippedSilently
<1>1. EmailInit => EmailIInv
    BY EmailInitHolds
<1>2. EmailIInv /\ [EmailNext]_emailVars => EmailIInv'
    BY EmailNextKeeps
<1>3. EmailIInv => NoneSkippedSilently
    BY DEF EmailIInv
<1> QED BY <1>1, <1>2, <1>3, PTL DEF EmailSpec
=============================================================================
