-------------------------- MODULE Dispatch_proofs --------------------------
(***************************************************************************)
(* No effect that is not inherently idempotent is executed twice, and no   *)
(* process exceeds its ceiling: for any number of processes, providers,    *)
(* requests, crashes and policies.  A process that is alone on its         *)
(* database answers a request once, executes nothing that is answered and, *)
(* with providers that keep to one kind of call, passes over none.         *)
(***************************************************************************)
EXTENDS Dispatch, TLAPS, WellFoundedInduction, FiniteSetTheorems

(* What the loop reads in the log has the fields it uses.                  *)
Readable ==
    /\ \A n \in 1..Len(log) : log[n].kind # "note" => log[n].req \in Requests
    /\ \A a \in Agents : \A n \in page[a] : n \in 1..Len(log) /\ log[n].kind # "note"

(* An attempt and an unknown outcome are about a request.                  *)
Named ==
    \A a \in Agents : act[a].steps # <<>> /\ Head(act[a].steps) \in {"attempt", "unknown"}
                      => act[a].req \in Requests

(* The permission to execute a request: admitted and not yet handed to a   *)
(* worker, or handed to one that has not executed it yet.                  *)
Armed(a, r) == act[a].req = r /\ act[a].steps = <<"spawn">>
Held(a, p, r) == worker[a][p].req = r /\ worker[a][p].phase = "running"

(* There is one permission per request, it comes after the durable         *)
(* attempt, and it is spent by the execution.                              *)
OnePermission ==
    \A r \in Requests \ Inherent :
        /\ runs[r] <= 1
        /\ r \notin attempted => runs[r] = 0
        /\ \A a \in Agents : Armed(a, r) =>
             /\ r \in attempted /\ runs[r] = 0
             /\ \A b \in Agents : Armed(b, r) => a = b
             /\ \A b \in Agents, p \in Providers : ~Held(b, p, r)
        /\ \A a \in Agents, p \in Providers : Held(a, p, r) =>
             /\ r \in attempted /\ runs[r] = 0
             /\ \A b \in Agents, q \in Providers : Held(b, q, r) => a = b /\ p = q

IInv == TypeOK /\ Readable /\ Named /\ OnePermission

-----------------------------------------------------------------------------
(* A set of positions has a first one.                                     *)
LEMMA FirstIn ==
    ASSUME NEW S \in SUBSET Nat, S # {}
    PROVE  First(S) \in S /\ \A m \in S : First(S) <= m
<1> DEFINE R == {ss \in Nat \X Nat : ss[1] < ss[2]}
<1>1. IsWellFoundedOn(R, Nat)
    BY NatLessThanWellFounded DEF OpToRel
<1>2. \A x \in Nat, y \in Nat : x < y => <<x, y>> \in R
    OBVIOUS
<1> HIDE DEF R
<1>3. S \subseteq Nat /\ S # {}
    OBVIOUS
<1>4. PICK x \in S : \A y \in S : ~(<<y, x>> \in R)
    BY ONLY <1>1, <1>3, WFMin
<1>5. \A y \in S : ~(y < x)
    BY <1>2, <1>3, <1>4
<1>6. \A y \in S : x <= y
    BY <1>3, <1>5
<1> QED BY <1>4, <1>6 DEF First

(* The plans are closed under doing the next append, and only the claim is *)
(* followed by a bare hand-over.                                           *)
LEMMA PlanRest ==
    ASSUME NEW s \in Plans
    PROVE  /\ s # <<>>
           /\ Tail(s) \in Plans \cup {<<>>}
           /\ Tail(s) # <<>> => Head(Tail(s)) \notin {"attempt", "unknown"}
           /\ Tail(s) = <<"spawn">> => Head(s) = "attempt"
           /\ Head(s) = "attempt" => Tail(s) = <<"spawn">>
           /\ Head(s) = "spawn" => s = <<"spawn">>
<1>1. CASE s \in {<<"allow">>, <<"denied">>, <<"spawn">>, <<"skip">>, <<"recovered">>, <<"fail">>}
    BY <1>1 DEF Plans, Ends, UncertainEnds
<1>2. CASE s = <<"refuse", "denied">>
    <2>1. Head(s) = "refuse" /\ Tail(s) = <<"denied">>
        BY <1>2
    <2> QED BY <2>1 DEF Plans, Ends, UncertainEnds
<1>3. CASE s = <<"timed-out", "skip">>
    <2>1. Head(s) = "timed-out" /\ Tail(s) = <<"skip">>
        BY <1>3
    <2> QED BY <2>1 DEF Plans, Ends, UncertainEnds
<1>4. CASE s = <<"denied", "skip">>
    <2>1. Head(s) = "denied" /\ Tail(s) = <<"skip">>
        BY <1>4
    <2> QED BY <2>1 DEF Plans, Ends, UncertainEnds
<1>5. CASE s = <<"attempt", "spawn">>
    <2>1. Head(s) = "attempt" /\ Tail(s) = <<"spawn">>
        BY <1>5
    <2> QED BY <2>1 DEF Plans, Ends, UncertainEnds
<1>6. CASE s = <<"unknown", "interrupted", "skip">>
    <2>1. Head(s) = "unknown" /\ Tail(s) = <<"interrupted", "skip">>
        BY <1>6
    <2> QED BY <2>1 DEF Plans, Ends, UncertainEnds
<1>7. CASE s = <<"interrupted", "skip">>
    <2>1. Head(s) = "interrupted" /\ Tail(s) = <<"skip">>
        BY <1>7
    <2> QED BY <2>1 DEF Plans, Ends, UncertainEnds
<1>8. CASE s = <<"cancelled", "restart", "skip">>
    <2>1. Head(s) = "cancelled" /\ Tail(s) = <<"restart", "skip">>
        BY <1>8
    <2> QED BY <2>1 DEF Plans, Ends, UncertainEnds
<1>9. CASE s = <<"restart", "skip">>
    <2>1. Head(s) = "restart" /\ Tail(s) = <<"skip">>
        BY <1>9
    <2> QED BY <2>1 DEF Plans, Ends, UncertainEnds
<1>10. CASE s = <<"cancelled", "skip", "recovered">>
    <2>1. Head(s) = "cancelled" /\ Tail(s) = <<"skip", "recovered">>
        BY <1>10
    <2> QED BY <2>1 DEF Plans, Ends, UncertainEnds
<1>11. CASE s = <<"skip", "recovered">>
    <2>1. Head(s) = "skip" /\ Tail(s) = <<"recovered">>
        BY <1>11
    <2> QED BY <2>1 DEF Plans, Ends, UncertainEnds
<1>12. CASE s = <<"interrupted", "fail">>
    <2>1. Head(s) = "interrupted" /\ Tail(s) = <<"fail">>
        BY <1>12
    <2> QED BY <2>1 DEF Plans, Ends, UncertainEnds
<1>13. CASE s = <<"interrupted", "fail", "skip">>
    <2>1. Head(s) = "interrupted" /\ Tail(s) = <<"fail", "skip">>
        BY <1>13
    <2> QED BY <2>1 DEF Plans, Ends, UncertainEnds
<1>14. CASE s = <<"unknown", "interrupted", "fail">>
    <2>1. Head(s) = "unknown" /\ Tail(s) = <<"interrupted", "fail">>
        BY <1>14
    <2> QED BY <2>1 DEF Plans, Ends, UncertainEnds
<1>15. CASE s = <<"unknown", "interrupted", "fail", "skip">>
    <2>1. Head(s) = "unknown" /\ Tail(s) = <<"interrupted", "fail", "skip">>
        BY <1>15
    <2> QED BY <2>1 DEF Plans, Ends, UncertainEnds
<1>16. CASE s = <<"fail", "skip">>
    <2>1. Head(s) = "fail" /\ Tail(s) = <<"skip">>
        BY <1>16
    <2> QED BY <2>1 DEF Plans, Ends, UncertainEnds
<1> QED BY <1>1, <1>2, <1>3, <1>4, <1>5, <1>6, <1>7, <1>8, <1>9, <1>10, <1>11, <1>12, <1>13, <1>14, <1>15, <1>16 DEF Plans, Ends, UncertainEnds

(* A step that admits nothing and executes nothing keeps the permissions.  *)
LEMMA NothingNew ==
    ASSUME OnePermission, attempted' = attempted, runs' = runs,
           \A a \in Agents : \/ act'[a] = act[a] \/ act'[a].steps # <<"spawn">>
                             \/ act'[a].req \notin Requests \ Inherent,
           \A a \in Agents, p \in Providers :
               worker'[a][p] = worker[a][p] \/ worker'[a][p].phase # "running"
    PROVE  OnePermission'
<1>1. \A a \in Agents, r \in Requests \ Inherent : Armed(a, r)' => Armed(a, r)
    BY DEF Armed
<1>2. \A a \in Agents, p \in Providers, r \in Requests : Held(a, p, r)' => Held(a, p, r)
    BY DEF Held
<1> SUFFICES ASSUME NEW r \in Requests \ Inherent
             PROVE  OnePermission!(r)'
    BY DEF OnePermission
<1> QED BY <1>1, <1>2 DEF OnePermission

-----------------------------------------------------------------------------
(* Forgetting a failure leaves a record of the same type.                  *)
LEMMA HealthyTyped ==
    ASSUME NEW f \in Failure
    PROVE  Healthy(f) \in Failure
BY DEF Healthy, Failure

(* The log only grows by items that have the fields the loop uses.         *)
LEMMA Grows ==
    ASSUME IInv, NEW i \in Item, i.kind # "note" => i.req \in Requests,
           log' = Append(log, i), page' = page
    PROVE  log' \in Seq(Item) /\ Readable'
<1>1. log \in Seq(Item) /\ page \in [Agents -> SUBSET Nat]
    BY DEF IInv, TypeOK
<1>2. Len(log') = Len(log) + 1 /\ log' \in Seq(Item) /\ Len(log) \in Nat
    BY <1>1
<1>3. \A n \in 1..Len(log) : log'[n] = log[n]
    BY <1>1
<1>4. log'[Len(log) + 1] = i
    BY <1>1
<1> QED BY <1>1, <1>2, <1>3, <1>4 DEF IInv, Readable

(* A request is logged.                                                    *)
LEMMA AskKeeps ==
    ASSUME IInv, NEW r \in Requests, Ask(r)
    PROVE  IInv'
<1>0. log' \in Seq(Item) /\ Readable'
    BY Grows, DispatchAssumption DEF Ask, Item, volatile, loop, TypeOK
<1>1. TypeOK'
    BY <1>0 DEF IInv, TypeOK, Ask, volatile, loop, world
<1>2. Readable' /\ Named'
    BY <1>0 DEF IInv, Named, Ask, volatile
<1>3. OnePermission'
    BY NothingNew DEF IInv, Ask, store, volatile
<1> QED BY <1>1, <1>2, <1>3 DEF IInv

(* A cancellation is logged.                                               *)
LEMMA AskCancelKeeps ==
    ASSUME IInv, NEW r \in Requests, AskCancel(r)
    PROVE  IInv'
<1>0. log' \in Seq(Item) /\ Readable'
    BY Grows, DispatchAssumption DEF AskCancel, Item, volatile, loop, TypeOK
<1>1. TypeOK'
    BY <1>0 DEF IInv, TypeOK, AskCancel, volatile, loop, world
<1>2. Readable' /\ Named'
    BY <1>0 DEF IInv, Named, AskCancel, volatile
<1>3. OnePermission'
    BY NothingNew DEF IInv, AskCancel, store, volatile
<1> QED BY <1>1, <1>2, <1>3 DEF IInv

(* An event of another type is logged.                                     *)
LEMMA NoteKeeps ==
    ASSUME IInv, NEW p \in Mixed \cup {None}, Note(p)
    PROVE  IInv'
<1>0. log' \in Seq(Item) /\ Readable'
    BY Grows, DispatchAssumption DEF Note, Item, volatile, loop, TypeOK
<1>1. TypeOK'
    BY <1>0 DEF IInv, TypeOK, Note, volatile, loop, world
<1>2. Readable' /\ Named'
    BY <1>0 DEF IInv, Named, Note, volatile
<1>3. OnePermission'
    BY NothingNew DEF IInv, Note, store, volatile
<1> QED BY <1>1, <1>2, <1>3 DEF IInv

(* An observation arrives.                                                 *)
LEMMA ObserveKeeps ==
    ASSUME IInv, Observe
    PROVE  IInv'
<1>1. TypeOK'
    BY DispatchAssumption DEF IInv, TypeOK, Observe, store, volatile, loop, world, Healthy
<1>2. Readable' /\ Named'
    BY DEF IInv, Readable, Named, Observe, store, volatile, loop
<1>3. OnePermission'
    BY NothingNew DEF IInv, Observe, store, volatile
<1> QED BY <1>1, <1>2, <1>3 DEF IInv

(* Cognition consumes the observations.                                    *)
LEMMA ConsumeKeeps ==
    ASSUME IInv, Consume
    PROVE  IInv'
<1>1. TypeOK'
    BY DispatchAssumption DEF IInv, TypeOK, Consume, store, volatile, loop, world, Healthy
<1>2. Readable' /\ Named'
    BY DEF IInv, Readable, Named, Consume, store, volatile, loop
<1>3. OnePermission'
    BY NothingNew DEF IInv, Consume, store, volatile
<1> QED BY <1>1, <1>2, <1>3 DEF IInv

(* A deadline passes.                                                      *)
LEMMA PassDeadlineKeeps ==
    ASSUME IInv, NEW r \in Requests, PassDeadline(r)
    PROVE  IInv'
<1>1. TypeOK'
    BY DispatchAssumption DEF IInv, TypeOK, PassDeadline, store, volatile, loop, world, Healthy
<1>2. Readable' /\ Named'
    BY DEF IInv, Readable, Named, PassDeadline, store, volatile, loop
<1>3. OnePermission'
    BY NothingNew DEF IInv, PassDeadline, store, volatile
<1> QED BY <1>1, <1>2, <1>3 DEF IInv

(* A backoff ends.                                                         *)
LEMMA ElapseKeeps ==
    ASSUME IInv, NEW p \in Providers, Elapse(p)
    PROVE  IInv'
<1>1. TypeOK'
    BY DispatchAssumption DEF IInv, TypeOK, Elapse, store, volatile, loop, world, Healthy
<1>2. Readable' /\ Named'
    BY DEF IInv, Readable, Named, Elapse, store, volatile, loop
<1>3. OnePermission'
    BY NothingNew DEF IInv, Elapse, store, volatile
<1> QED BY <1>1, <1>2, <1>3 DEF IInv

(* The operator recovers a provider.                                       *)
LEMMA RecoverKeeps ==
    ASSUME IInv, NEW p \in Providers, Recover(p)
    PROVE  IInv'
<1>1. TypeOK'
    BY HealthyTyped DEF IInv, TypeOK, Recover, store, volatile, loop, world
<1>2. Readable' /\ Named'
    BY DEF IInv, Readable, Named, Recover, store, volatile, loop
<1>3. OnePermission'
    BY NothingNew DEF IInv, Recover, store, volatile
<1> QED BY <1>1, <1>2, <1>3 DEF IInv

-----------------------------------------------------------------------------
(* A handler's plan after one more append.                                 *)
LEMMA ThenTyped ==
    ASSUME IInv, NEW a \in Agents, act[a].steps # <<>>, NEW s \in Plans \cup {<<>>}
    PROVE  /\ act[a] \in Act
           /\ Then(a, s) \in [Agents -> Act \cup {NoAct}]
           /\ \A b \in Agents : b # a => Then(a, s)[b] = act[b]
           /\ Then(a, s)[a].steps = s
           /\ s # <<>> => Then(a, s)[a].req = act[a].req
<1>1. act \in [Agents -> Act \cup {NoAct}] /\ act[a] \in Act
    BY DEF IInv, TypeOK, NoAct
<1>2. CASE s = <<>>
    BY <1>1, <1>2 DEF Then, NoAct
<1>3. CASE s # <<>>
    BY <1>1, <1>3 DEF Then, Act
<1> QED BY <1>1, <1>2, <1>3

(* The next append of a plan that does not claim an attempt admits nothing *)
(* and leaves a plan.                                                      *)
LEMMA NextAppend ==
    ASSUME IInv, NEW a \in Agents, NEW step, Doing(a, step), step # "attempt",
           act' = Then(a, Rest(a))
    PROVE  /\ act[a] \in Act
           /\ act' \in [Agents -> Act \cup {NoAct}]
           /\ Named'
           /\ \A b \in Agents : act'[b] = act[b] \/ act'[b].steps # <<"spawn">>
<1>1. act[a].steps # <<>> /\ Head(act[a].steps) = step
    BY DEF Doing
<1>2. act[a] \in Act /\ act[a].steps \in Plans
    BY <1>1 DEF IInv, TypeOK, NoAct, Act
<1>3. /\ Rest(a) \in Plans \cup {<<>>}
      /\ Rest(a) # <<>> => Head(Rest(a)) \notin {"attempt", "unknown"}
      /\ Rest(a) # <<"spawn">>
    BY <1>1, <1>2, PlanRest DEF Rest
<1>4. /\ act' \in [Agents -> Act \cup {NoAct}]
      /\ \A b \in Agents : b # a => act'[b] = act[b]
      /\ act'[a].steps = Rest(a)
    BY <1>1, <1>3, ThenTyped
<1>5. Named'
    BY <1>3, <1>4 DEF IInv, Named
<1> QED BY <1>2, <1>3, <1>4, <1>5

(* A process starts.                                                       *)
LEMMA StartKeeps ==
    ASSUME IInv, NEW a \in Agents, Start(a)
    PROVE  IInv'
<1>1. TypeOK'
    BY DispatchAssumption DEF IInv, TypeOK, Start, store, world, volatile, loop
<1>2. Readable' /\ Named'
    BY DEF IInv, Readable, Named, Start, store, volatile, loop
<1>3. OnePermission'
    BY NothingNew DEF IInv, Start, store, volatile
<1> QED BY <1>1, <1>2, <1>3 DEF IInv

(* Installation ends.                                                      *)
LEMMA EndInstallKeeps ==
    ASSUME IInv, NEW a \in Agents, EndInstall(a)
    PROVE  IInv'
<1>1. TypeOK'
    BY DispatchAssumption DEF IInv, TypeOK, EndInstall, store, world, volatile, loop
<1>2. Readable' /\ Named'
    BY DEF IInv, Readable, Named, EndInstall, store, volatile, loop
<1>3. OnePermission'
    BY NothingNew DEF IInv, EndInstall, store, volatile
<1> QED BY <1>1, <1>2, <1>3 DEF IInv

(* The gate pass ends.                                                     *)
LEMMA EndGateKeeps ==
    ASSUME IInv, NEW a \in Agents, EndGate(a)
    PROVE  IInv'
<1>1. TypeOK'
    BY DispatchAssumption DEF IInv, TypeOK, EndGate, store, world, volatile, loop
<1>2. Readable' /\ Named'
    BY DEF IInv, Readable, Named, EndGate, store, volatile, loop
<1>3. OnePermission'
    BY NothingNew DEF IInv, EndGate, store, volatile
<1> QED BY <1>1, <1>2, <1>3 DEF IInv

(* A pass ends.                                                            *)
LEMMA EndPassKeeps ==
    ASSUME IInv, NEW a \in Agents, EndPass(a)
    PROVE  IInv'
<1>1. TypeOK'
    BY DispatchAssumption DEF IInv, TypeOK, EndPass, store, world, volatile, loop
<1>2. Readable' /\ Named'
    BY DEF IInv, Readable, Named, EndPass, store, volatile, loop
<1>3. OnePermission'
    BY NothingNew DEF IInv, EndPass, store, volatile
<1> QED BY <1>1, <1>2, <1>3 DEF IInv

(* A decision is appended.                                                 *)
LEMMA DecideKeeps ==
    ASSUME IInv, NEW a \in Agents, Decide(a)
    PROVE  IInv'
<1>0. /\ act[a] \in Act
      /\ act' \in [Agents -> Act \cup {NoAct}]
      /\ Named'
      /\ \A b \in Agents : act'[b] = act[b] \/ act'[b].steps # <<"spawn">>
    BY NextAppend DEF Decide
<1>1. TypeOK'
    BY <1>0 DEF IInv, TypeOK, Decide, Act, store, world, loop
<1>2. Readable' /\ Named'
    BY <1>0 DEF IInv, Readable, Decide, store, loop
<1>3. OnePermission'
    BY <1>0, NothingNew DEF IInv, Decide, store
<1> QED BY <1>1, <1>2, <1>3 DEF IInv

(* A terminal is appended.                                                 *)
LEMMA AnswerKeeps ==
    ASSUME IInv, NEW a \in Agents, Answer(a)
    PROVE  IInv'
<1>0. /\ act[a] \in Act
      /\ act' \in [Agents -> Act \cup {NoAct}]
      /\ Named'
      /\ \A b \in Agents : act'[b] = act[b] \/ act'[b].steps # <<"spawn">>
    BY NextAppend DEF Answer
<1>1. TypeOK'
    BY <1>0 DEF IInv, TypeOK, Answer, Act, store, world, loop, Settled, Terminal
<1>2. Readable' /\ Named'
    BY <1>0 DEF IInv, Readable, Answer, store, loop
<1>3. OnePermission'
    BY <1>0, NothingNew DEF IInv, Answer, store
<1> QED BY <1>1, <1>2, <1>3 DEF IInv

(* An unknown outcome is appended.                                         *)
LEMMA MarkUnknownKeeps ==
    ASSUME IInv, NEW a \in Agents, MarkUnknown(a)
    PROVE  IInv'
<1>0. /\ act[a] \in Act
      /\ act' \in [Agents -> Act \cup {NoAct}]
      /\ Named'
      /\ \A b \in Agents : act'[b] = act[b] \/ act'[b].steps # <<"spawn">>
    BY NextAppend DEF MarkUnknown
<1>1. TypeOK'
    BY <1>0 DEF IInv, TypeOK, MarkUnknown, Act, store, world, loop, Named, Doing
<1>2. Readable' /\ Named'
    BY <1>0 DEF IInv, Readable, MarkUnknown, store, loop
<1>3. OnePermission'
    BY <1>0, NothingNew DEF IInv, MarkUnknown, store
<1> QED BY <1>1, <1>2, <1>3 DEF IInv

(* A fresh incarnation starts.                                             *)
LEMMA RestartKeeps ==
    ASSUME IInv, NEW a \in Agents, Restart(a)
    PROVE  IInv'
<1>0. /\ act[a] \in Act
      /\ act' \in [Agents -> Act \cup {NoAct}]
      /\ Named'
      /\ \A b \in Agents : act'[b] = act[b] \/ act'[b].steps # <<"spawn">>
    BY NextAppend DEF Restart
<1>1. TypeOK'
    BY <1>0 DEF IInv, TypeOK, Restart, Act, store, world, loop, Resume
<1>2. Readable' /\ Named'
    BY <1>0 DEF IInv, Readable, Restart, store, loop
<1>3. OnePermission'
    BY <1>0, NothingNew DEF IInv, Restart, store
<1> QED BY <1>1, <1>2, <1>3 DEF IInv

(* A failure is appended.                                                  *)
LEMMA MarkFailedKeeps ==
    ASSUME IInv, NEW a \in Agents, MarkFailed(a)
    PROVE  IInv'
<1>0. /\ act[a] \in Act
      /\ act' \in [Agents -> Act \cup {NoAct}]
      /\ Named'
      /\ \A b \in Agents : act'[b] = act[b] \/ act'[b].steps # <<"spawn">>
    BY NextAppend DEF MarkFailed
<1>1. TypeOK'
    <2>1. act[a].p \in Providers /\ act[a].at \in Nat /\ act[a].req \in Requests \cup {None}
        BY <1>0 DEF Act
    <2>2. failed' \in [Providers -> Failure]
        BY <2>1 DEF IInv, TypeOK, MarkFailed, Failure
    <2>3. present' \in [Agents -> SUBSET Providers]
        BY DEF IInv, TypeOK, MarkFailed
    <2> QED BY <1>0, <2>2, <2>3 DEF IInv, TypeOK, MarkFailed, store, world, loop
<1>2. Readable' /\ Named'
    BY <1>0 DEF IInv, Readable, MarkFailed, store, loop
<1>3. OnePermission'
    BY <1>0, NothingNew DEF IInv, MarkFailed, store
<1> QED BY <1>1, <1>2, <1>3 DEF IInv

(* A recovery is appended.                                                 *)
LEMMA MarkRecoveredKeeps ==
    ASSUME IInv, NEW a \in Agents, MarkRecovered(a)
    PROVE  IInv'
<1>0. /\ act[a] \in Act
      /\ act' \in [Agents -> Act \cup {NoAct}]
      /\ Named'
      /\ \A b \in Agents : act'[b] = act[b] \/ act'[b].steps # <<"spawn">>
    BY NextAppend DEF MarkRecovered
<1>1. TypeOK'
    BY <1>0, HealthyTyped DEF IInv, TypeOK, MarkRecovered, Act, store, world, loop
<1>2. Readable' /\ Named'
    BY <1>0 DEF IInv, Readable, MarkRecovered, store, loop
<1>3. OnePermission'
    BY <1>0, NothingNew DEF IInv, MarkRecovered, store
<1> QED BY <1>1, <1>2, <1>3 DEF IInv

(* A process dies: its permissions die with it.                            *)
LEMMA DownKeeps ==
    ASSUME IInv, NEW a \in Agents, Down(a),
           UNCHANGED <<store, world, runs>>, crashes' \in Nat
    PROVE  IInv'
<1>1. TypeOK'
    BY DEF IInv, TypeOK, Down, store, world
<1>2. Readable' /\ Named'
    BY DEF IInv, TypeOK, Readable, Named, Down, store, NoAct
<1>3. /\ act'[a].steps # <<"spawn">> /\ \A b \in Agents : b # a => act'[b] = act[b]
      /\ \A p \in Providers : worker'[a][p].phase # "running"
      /\ \A b \in Agents, p \in Providers : b # a => worker'[b][p] = worker[b][p]
    BY DEF IInv, TypeOK, Down, NoAct, NoWorker
<1>4. OnePermission'
    BY <1>3, NothingNew DEF IInv, store
<1> QED BY <1>1, <1>2, <1>4 DEF IInv

(* A process dies between two steps.                                       *)
LEMMA CrashKeeps ==
    ASSUME IInv, NEW a \in Agents, Crash(a)
    PROVE  IInv'
BY DownKeeps DEF Crash, IInv, TypeOK

(* A handler starts a plan.                                                *)
LEMMA NewPlan ==
    ASSUME IInv, NEW a \in Agents, NEW p \in Providers, NEW n \in Nat,
           NEW r \in Requests \cup {None}, NEW s \in Plans,
           Head(s) \in {"attempt", "unknown"} => r \in Requests,
           act' = [act EXCEPT ![a] = [p |-> p, at |-> n, req |-> r, steps |-> s]]
    PROVE  /\ act' \in [Agents -> Act \cup {NoAct}]
           /\ Named'
           /\ \A b \in Agents : b # a => act'[b] = act[b]
           /\ act'[a].steps = s /\ act'[a].req = r
<1>1. act \in [Agents -> Act \cup {NoAct}]
    BY DEF IInv, TypeOK
<1>2. [p |-> p, at |-> n, req |-> r, steps |-> s] \in Act
    BY DEF Act
<1>3. /\ act' \in [Agents -> Act \cup {NoAct}]
      /\ \A b \in Agents : b # a => act'[b] = act[b]
      /\ act'[a].steps = s /\ act'[a].req = r
    BY <1>1, <1>2
<1> QED BY <1>3 DEF IInv, Named

(* A component is installed, and a cancelled failure settled.              *)
LEMMA InstallKeeps ==
    ASSUME IInv, NEW a \in Agents, Install(a)
    PROVE  IInv'
<1>1. PICK p \in todo[a] :
         /\ todo' = [todo EXCEPT ![a] = @ \ {p}]
         /\ present' = [present EXCEPT ![a] = @ \cup {p}]
         /\ ckpt' = [ckpt EXCEPT ![a][p] = Resume(p)]
         /\ \/ act' = act
            \/ \E n \in Nat : act' = [act EXCEPT ![a] =
                   [p |-> p, at |-> n, req |-> failed[p].req,
                    steps |-> <<"cancelled", "skip", "recovered">>]]
    BY DEF Install, IInv, TypeOK, Failure
<1>2. p \in Providers /\ failed[p].req \in Requests \cup {None}
    BY <1>1 DEF IInv, TypeOK, Failure
<1>3. <<"cancelled", "skip", "recovered">> \in Plans
    BY DEF Plans
<1>4. /\ act' \in [Agents -> Act \cup {NoAct}] /\ Named'
      /\ \A b \in Agents : act'[b] = act[b] \/ act'[b].steps # <<"spawn">>
    <2>1. CASE act' = act
        BY <2>1 DEF IInv, TypeOK, Named
    <2>2. CASE act' # act
        BY <1>1, <1>2, <1>3, <2>2, NewPlan
    <2> QED BY <2>1, <2>2
<1>5. TypeOK'
    BY <1>1, <1>2, <1>4 DEF IInv, TypeOK, Install, Resume, store, world
<1>6. Readable' /\ Named'
    BY <1>4 DEF IInv, Readable, Install, store
<1>7. OnePermission'
    BY <1>4, NothingNew DEF IInv, Install, store
<1> QED BY <1>5, <1>6, <1>7 DEF IInv

(* A finished worker is collected.                                         *)
LEMMA CollectKeeps ==
    ASSUME IInv, NEW a \in Agents, Collect(a)
    PROVE  IInv'
<1> DEFINE Job(p, s) == [p |-> p, at |-> worker[a][p].at, req |-> worker[a][p].req, steps |-> s]
           Uncertain(p) == worker[a][p].req \in Requests \ Inherent /\ ~Answered(worker[a][p].req)
<1>1. PICK p \in Finished(a) :
         /\ worker' = [worker EXCEPT ![a][p] = NoWorker]
         /\ cancelled' = [cancelled EXCEPT ![a] = @ \ {p}]
         /\ \/ /\ worker[a][p].phase = "done"
               /\ backoff' = backoff \ {p}
               /\ UNCHANGED act
            \/ /\ worker[a][p].phase # "done" /\ p \in cancelled[a]
               /\ act' = [act EXCEPT ![a] = Job(p, <<"cancelled", "restart", "skip">>)]
               /\ backoff' = backoff \ {p}
            \/ /\ worker[a][p].phase = "failed" /\ p \notin cancelled[a]
               /\ backoff' = backoff \cup {p}
               /\ UNCHANGED act
            \/ /\ worker[a][p].phase = "trapped" /\ p \notin cancelled[a]
               /\ \E s \in IF Uncertain(p) THEN UncertainEnds ELSE Ends :
                    act' = [act EXCEPT ![a] = Job(p, s)]
               /\ UNCHANGED backoff
    BY Zenon DEF Collect
<1>2. /\ p \in Providers /\ worker[a][p] \in Worker
      /\ worker[a][p].at \in Nat /\ worker[a][p].req \in Requests \cup {None}
    BY DEF Finished, IInv, TypeOK, NoWorker, Worker
<1>3. /\ act' \in [Agents -> Act \cup {NoAct}] /\ Named'
      /\ \A b \in Agents : act'[b] = act[b] \/ act'[b].steps # <<"spawn">>
    <2>1. CASE act' = act
        BY <2>1 DEF IInv, TypeOK, Named
    <2>2. CASE act' = [act EXCEPT ![a] = Job(p, <<"cancelled", "restart", "skip">>)]
        <3>1. <<"cancelled", "restart", "skip">> \in Plans
            BY DEF Plans
        <3>2. /\ Head(<<"cancelled", "restart", "skip">>) = "cancelled"
              /\ <<"cancelled", "restart", "skip">> # <<"spawn">>
            OBVIOUS
        <3> QED BY <1>2, <2>2, <3>1, <3>2, NewPlan
    <2>3. ASSUME NEW s \in IF Uncertain(p) THEN UncertainEnds ELSE Ends,
                 act' = [act EXCEPT ![a] = Job(p, s)]
          PROVE  <1>3!1 /\ <1>3!2
        <3>1. s \in Plans /\ s # <<"spawn">>
            BY <2>3 DEF Plans, Ends, UncertainEnds
        <3>2. Head(s) \in {"attempt", "unknown"} => worker[a][p].req \in Requests
            BY <2>3 DEF Ends, UncertainEnds
        <3> QED BY <1>2, <2>3, <3>1, <3>2, NewPlan
    <2> QED BY <1>1, <2>1, <2>2, <2>3
<1>4. TypeOK'
    BY <1>1, <1>2, <1>3 DEF IInv, TypeOK, Collect, world, loop
<1>5. Readable' /\ Named'
    BY <1>3 DEF IInv, Readable, Collect, loop
<1>6. \A b \in Agents, q \in Providers :
          worker'[b][q] = worker[b][q] \/ worker'[b][q].phase # "running"
    BY <1>1, <1>2 DEF IInv, TypeOK, NoWorker
<1>7. OnePermission'
    BY <1>3, <1>6, NothingNew DEF IInv, Collect
<1> QED BY <1>4, <1>5, <1>7 DEF IInv

(* The gate reads its next page.                                           *)
LEMMA EndCollectKeeps ==
    ASSUME IInv, NEW a \in Agents, EndCollect(a)
    PROVE  IInv'
<1>1. NextPage(a) \subseteq {n \in 1..Len(log) : log[n].kind # "note"} /\ NextPage(a) \subseteq Nat
    BY DEF NextPage, IInv, TypeOK
<1>2. TypeOK'
    BY <1>1 DEF IInv, TypeOK, EndCollect, store, world
<1>3. Readable' /\ Named'
    BY <1>1 DEF IInv, TypeOK, Readable, Named, EndCollect, store
<1>4. OnePermission'
    BY NothingNew DEF IInv, EndCollect, store
<1> QED BY <1>2, <1>3, <1>4 DEF IInv

(* The gate handles one event of its page.                                 *)
LEMMA GateKeeps ==
    ASSUME IInv, NEW a \in Agents, Gate(a)
    PROVE  IInv'
<1> DEFINE n == First(page[a])
           r == log[n].req
<1>1. /\ page[a] \in SUBSET Nat /\ page[a] # {}
      /\ page' = [page EXCEPT ![a] = @ \ {n}] /\ gated' = [gated EXCEPT ![a] = n]
      /\ \/ /\ cancelled' = [cancelled EXCEPT ![a] = @ \cup {p \in Providers : worker[a][p].req = r}]
            /\ act' = act
         \/ /\ \/ act' = act
               \/ /\ Verdict(a, r) # <<>>
                  /\ act' = [act EXCEPT ![a] = [p |-> Route[r], at |-> n, req |-> r,
                                                steps |-> Verdict(a, r)]]
            /\ cancelled' = cancelled
    BY DEF Gate, IInv, TypeOK
<1>2. n \in page[a] /\ n \in Nat
    BY <1>1, FirstIn
<1>3. r \in Requests /\ Route[r] \in Providers
    BY <1>2, DispatchAssumption DEF IInv, Readable
<1> HIDE DEF n, r
<1>4. \/ Verdict(a, r) = <<>>
      \/ Verdict(a, r) = <<"denied">> \/ Verdict(a, r) = <<"allow">>
      \/ Verdict(a, r) = <<"refuse", "denied">>
    BY DEF Verdict
<1>5. Verdict(a, r) # <<>> => /\ Verdict(a, r) \in Plans /\ Verdict(a, r) # <<"spawn">>
                              /\ Head(Verdict(a, r)) \notin {"attempt", "unknown"}
    BY <1>4 DEF Plans
<1>6. /\ act' \in [Agents -> Act \cup {NoAct}] /\ Named'
      /\ \A b \in Agents : act'[b] = act[b] \/ act'[b].steps # <<"spawn">>
    <2>1. CASE act' = act
        BY <2>1 DEF IInv, TypeOK, Named
    <2>2. CASE act' # act
        <3>1. /\ Verdict(a, r) # <<>>
              /\ act' = [act EXCEPT ![a] = [p |-> Route[r], at |-> n, req |-> r,
                                            steps |-> Verdict(a, r)]]
            BY <1>1, <2>2
        <3> QED BY <1>2, <1>3, <1>5, <3>1, NewPlan
    <2> QED BY <2>1, <2>2
<1>7. TypeOK'
    <2>1. cancelled' \in [Agents -> SUBSET Providers]
        BY <1>1 DEF IInv, TypeOK
    <2>2. page' \in [Agents -> SUBSET Nat] /\ gated' \in [Agents -> Nat]
        BY <1>1, <1>2 DEF IInv, TypeOK
    <2> QED BY <1>6, <2>1, <2>2 DEF IInv, TypeOK, Gate, store, world
<1>8. Readable' /\ Named'
    BY <1>1, <1>6 DEF IInv, TypeOK, Readable, Gate, store
<1>9. OnePermission'
    BY <1>6, NothingNew DEF IInv, Gate, store
<1> QED BY <1>7, <1>8, <1>9 DEF IInv

(* A provider is given its next event, or none.  A bare hand-over is of an *)
(* event that is no request or of an idempotent call.                      *)
LEMMA DeliverKeeps ==
    ASSUME IInv, NEW a \in Agents, Deliver(a)
    PROVE  IInv'
<1>1. PICK p \in todo[a] :
         /\ todo' = [todo EXCEPT ![a] = @ \ {p}]
         /\ \/ act' = act
            \/ /\ Ready(a, p)
               /\ act' = [act EXCEPT ![a] =
                     [p |-> p, at |-> First(Pending(a, p)), req |-> log[First(Pending(a, p))].req,
                      steps |-> Admission(a, log[First(Pending(a, p))].req)]]
    BY DEF Deliver
<1> DEFINE n == First(Pending(a, p))
           r == log[n].req
<1>2. p \in Providers
    BY <1>1 DEF IInv, TypeOK
<1>3. ASSUME Ready(a, p)
      PROVE  n \in Nat /\ r \in Requests \cup {None}
    <2>1. Pending(a, p) \in SUBSET (1..Len(log)) /\ Pending(a, p) \in SUBSET Nat
        BY <1>2 DEF Pending, IInv, TypeOK
    <2>2. n \in Pending(a, p)
        BY <1>3, <2>1, FirstIn DEF Ready
    <2>3. log[n] \in Item
        BY <2>1, <2>2 DEF IInv, TypeOK
    <2> QED BY <2>1, <2>2, <2>3 DEF Item
<1> HIDE DEF n, r
<1>4. \/ Admission(a, r) = <<"spawn">> /\ r \notin Requests \ Inherent
      \/ Admission(a, r) = <<"timed-out", "skip">> \/ Admission(a, r) = <<"denied", "skip">>
      \/ /\ r # None
         /\ \/ Admission(a, r) = <<"attempt", "spawn">>
            \/ Admission(a, r) = <<"unknown", "interrupted", "skip">>
    BY DispatchAssumption DEF Admission
<1>5. /\ Admission(a, r) \in Plans
      /\ Admission(a, r) = <<"spawn">> => r \notin Requests \ Inherent
      /\ Head(Admission(a, r)) \in {"attempt", "unknown"} => r # None
    BY <1>4 DEF Plans
<1>6. /\ act' \in [Agents -> Act \cup {NoAct}] /\ Named'
      /\ \A b \in Agents : \/ act'[b] = act[b] \/ act'[b].steps # <<"spawn">>
                           \/ act'[b].req \notin Requests \ Inherent
    <2>1. CASE act' = act
        BY <2>1 DEF IInv, TypeOK, Named
    <2>2. CASE act' # act
        <3>1. /\ Ready(a, p)
              /\ act' = [act EXCEPT ![a] = [p |-> p, at |-> n, req |-> r,
                                            steps |-> Admission(a, r)]]
            BY <1>1, <2>2 DEF n, r
        <3>2. n \in Nat /\ r \in Requests \cup {None}
            BY <1>3, <3>1
        <3>3. Head(Admission(a, r)) \in {"attempt", "unknown"} => r \in Requests
            BY <1>5, <3>2
        <3> QED BY <1>2, <1>5, <3>1, <3>2, <3>3, NewPlan
    <2> QED BY <2>1, <2>2
<1>7. TypeOK'
    BY <1>1, <1>6 DEF IInv, TypeOK, Deliver, store, world
<1>8. Readable' /\ Named'
    BY <1>6 DEF IInv, Readable, Deliver, store
<1>9. OnePermission'
    BY <1>6, NothingNew DEF IInv, Deliver, store
<1> QED BY <1>7, <1>8, <1>9 DEF IInv

(* The claim is stored: the process that wins it holds the permission.     *)
LEMMA AttemptKeeps ==
    ASSUME IInv, NEW a \in Agents, Attempt(a)
    PROVE  IInv'
<1> DEFINE r == act[a].req
           s == IF ClaimWon(r) THEN Rest(a) ELSE <<"skip">>
<1>1. /\ act[a].steps # <<>> /\ Head(act[a].steps) = "attempt"
      /\ attempted' = attempted \cup {r} /\ act' = Then(a, s)
      /\ worker' = worker /\ runs' = runs
    BY DEF Attempt, Doing
<1>2. act[a].steps \in Plans /\ act[a].steps # <<"spawn">> /\ r \in Requests
    BY <1>1 DEF IInv, TypeOK, Named, NoAct, Act
<1>3. s \in Plans /\ (s = <<"spawn">> \/ s = <<"skip">>) /\ s # <<>>
      /\ Head(s) \notin {"attempt", "unknown"} /\ (s = <<"spawn">> => r \notin attempted)
    <2>1. <<"spawn">> \in Plans /\ <<"skip">> \in Plans
        BY DEF Plans
    <2>2. Rest(a) = <<"spawn">>
        BY <1>1, <1>2, PlanRest DEF Rest
    <2>3. CASE ClaimWon(r)
        BY <2>1, <2>2, <2>3 DEF ClaimWon
    <2>4. CASE ~ClaimWon(r)
        BY <2>1, <2>4
    <2> QED BY <2>3, <2>4
<1> HIDE DEF s
<1>4. /\ act' \in [Agents -> Act \cup {NoAct}]
      /\ \A b \in Agents : b # a => act'[b] = act[b]
      /\ act'[a].steps = s /\ act'[a].req = r
    BY <1>1, <1>3, ThenTyped
<1>5. TypeOK'
    BY <1>1, <1>2, <1>4 DEF IInv, TypeOK, Attempt, world, loop
<1>6. Readable' /\ Named'
    BY <1>3, <1>4 DEF IInv, Readable, Named, Attempt, loop
<1>7. OnePermission'
    <2> SUFFICES ASSUME NEW x \in Requests \ Inherent
                 PROVE  OnePermission!(x)'
        BY DEF OnePermission
    <2>1. OnePermission!(x)
        BY DEF IInv, OnePermission
    <2>2. \A b \in Agents, p \in Providers : Held(b, p, x)' <=> Held(b, p, x)
        BY <1>1 DEF Held
    <2>3. CASE x # r
        <3>1. \A b \in Agents : Armed(b, x)' => Armed(b, x)
            BY <1>4, <2>3 DEF Armed
        <3> QED BY <1>1, <2>1, <2>2, <3>1
    <2>4. CASE x = r /\ s = <<"skip">>
        <3>1. \A b \in Agents : Armed(b, x)' => Armed(b, x)
            BY <1>4, <2>4 DEF Armed
        <3> QED BY <1>1, <2>1, <2>2, <3>1
    <2>5. CASE x = r /\ s = <<"spawn">>
        <3>1. \A b \in Agents : Armed(b, x)' => b = a
            BY <1>3, <1>4, <2>1, <2>5 DEF Armed
        <3>2. x \in attempted' /\ runs'[x] = 0
            BY <1>1, <1>3, <2>1, <2>5
        <3>3. \A b \in Agents, p \in Providers : ~Held(b, p, x)'
            BY <1>3, <2>1, <2>2, <2>5
        <3> QED BY <3>1, <3>2, <3>3
    <2> QED BY <1>3, <2>3, <2>4, <2>5
<1> QED BY <1>5, <1>6, <1>7 DEF IInv

(* The permission passes to the worker.                                    *)
LEMMA SpawnKeeps ==
    ASSUME IInv, NEW a \in Agents, Spawn(a)
    PROVE  IInv'
<1> DEFINE r == act[a].req
           p == act[a].p
<1>1. /\ Doing(a, "spawn") /\ act' = Then(a, Rest(a))
      /\ worker' = [worker EXCEPT ![a][p] = [at |-> act[a].at, req |-> r, phase |-> "running"]]
      /\ attempted' = attempted /\ runs' = runs
    BY DEF Spawn, store
<1>2. /\ act[a] \in Act /\ act' \in [Agents -> Act \cup {NoAct}] /\ Named'
      /\ \A b \in Agents : act'[b] = act[b] \/ act'[b].steps # <<"spawn">>
    BY <1>1, NextAppend
<1>3. act[a].steps = <<"spawn">> /\ p \in Providers /\ Rest(a) = <<>>
    BY <1>1, <1>2, PlanRest DEF Act, Doing, Rest
<1>4. act'[a].steps = <<>> /\ \A b \in Agents : b # a => act'[b] = act[b]
    BY <1>1, <1>3, ThenTyped DEF Doing
<1>5. /\ worker'[a][p].req = r /\ worker'[a][p].phase = "running"
      /\ \A b \in Agents, q \in Providers : b # a \/ q # p => worker'[b][q] = worker[b][q]
      /\ worker' \in [Agents -> [Providers -> Worker \cup {NoWorker}]]
    BY <1>1, <1>2, <1>3 DEF IInv, TypeOK, Act, Worker, Phases
<1>6. TypeOK'
    BY <1>2, <1>5 DEF IInv, TypeOK, Spawn, store, world, loop
<1>7. Readable' /\ Named'
    BY <1>2 DEF IInv, Readable, Spawn, store, loop
<1>8. OnePermission'
    <2> SUFFICES ASSUME NEW x \in Requests \ Inherent
                 PROVE  OnePermission!(x)'
        BY DEF OnePermission
    <2>1. OnePermission!(x)
        BY DEF IInv, OnePermission
    <2>2. \A b \in Agents : Armed(b, x)' => Armed(b, x) /\ b # a
        BY <1>4 DEF Armed
    <2>3. \A b \in Agents, q \in Providers :
              Held(b, q, x)' => Held(b, q, x) \/ (b = a /\ q = p /\ x = r)
        BY <1>5 DEF Held
    <2>4. x = r => Armed(a, x)
        BY <1>3 DEF Armed
    <2> QED BY <1>1, <1>3, <2>1, <2>2, <2>3, <2>4
<1> QED BY <1>6, <1>7, <1>8 DEF IInv

(* The cursor skips, or the process ends.                                  *)
LEMMA SkipKeeps ==
    ASSUME IInv, NEW a \in Agents, Skip(a)
    PROVE  IInv'
<1>1. CASE Down(a) /\ UNCHANGED cursor
    BY <1>1, DownKeeps DEF Skip, store, IInv, TypeOK
<1>2. CASE ~(Down(a) /\ UNCHANGED cursor)
    <2>1. /\ Doing(a, "skip") /\ act' = Then(a, Rest(a))
          /\ cursor' = [cursor EXCEPT ![act[a].p] = act[a].at]
          /\ ckpt' = [ckpt EXCEPT ![a][act[a].p] = act[a].at]
          /\ UNCHANGED <<loop, worker, cancelled>>
          /\ UNCHANGED <<log, decided, attempted, unknown, terminals, failed, backoff, world,
                         runs, crashes>>
        BY <1>2 DEF Skip
    <2>2. /\ act[a] \in Act /\ act' \in [Agents -> Act \cup {NoAct}] /\ Named'
          /\ \A b \in Agents : act'[b] = act[b] \/ act'[b].steps # <<"spawn">>
        BY <2>1, NextAppend
    <2>3. TypeOK'
        BY <2>1, <2>2 DEF IInv, TypeOK, Act, world, loop
    <2>4. Readable' /\ Named'
        BY <2>1, <2>2 DEF IInv, Readable, loop
    <2>5. OnePermission'
        BY <2>1, <2>2, NothingNew DEF IInv
    <2> QED BY <2>3, <2>4, <2>5 DEF IInv
<1> QED BY <1>1, <1>2

(* The execution spends the permission.                                    *)
LEMMA ExecuteKeeps ==
    ASSUME IInv, NEW a \in Agents, NEW p \in Providers, Execute(a, p)
    PROVE  IInv'
<1> DEFINE r == worker[a][p].req
<1>1. /\ worker[a][p] \in Worker /\ r \in Requests /\ Held(a, p, r)
      /\ runs' = [runs EXCEPT ![r] = IF @ = 2 THEN 2 ELSE @ + 1]
      /\ worker' = [worker EXCEPT ![a][p].phase = "ran"]
      /\ act' = act /\ attempted' = attempted
    BY DEF Execute, IInv, TypeOK, Worker, NoWorker, Held, store
<1>2. /\ worker' \in [Agents -> [Providers -> Worker \cup {NoWorker}]]
      /\ worker'[a][p].phase = "ran"
      /\ \A b \in Agents, q \in Providers : b # a \/ q # p => worker'[b][q] = worker[b][q]
    BY <1>1 DEF IInv, TypeOK, Worker, Phases
<1>3. runs' \in [Requests -> 0..2] /\ (runs[r] = 0 => runs'[r] = 1)
      /\ \A x \in Requests : x # r => runs'[x] = runs[x]
    BY <1>1 DEF IInv, TypeOK
<1>4. TypeOK'
    BY <1>2, <1>3 DEF IInv, TypeOK, Execute, store, world, loop
<1>5. Readable' /\ Named'
    BY DEF IInv, Readable, Named, Execute, store, loop
<1>6. OnePermission'
    <2> SUFFICES ASSUME NEW x \in Requests \ Inherent
                 PROVE  OnePermission!(x)'
        BY DEF OnePermission
    <2>1. OnePermission!(x)
        BY DEF IInv, OnePermission
    <2>2. \A b \in Agents : Armed(b, x)' <=> Armed(b, x)
        BY <1>1 DEF Armed
    <2>3. \A b \in Agents, q \in Providers : Held(b, q, x)' => Held(b, q, x) /\ (b # a \/ q # p)
        BY <1>2 DEF Held
    <2>4. CASE x # r
        BY <1>1, <1>3, <2>1, <2>2, <2>3, <2>4
    <2>5. CASE x = r
        <3>1. Held(a, p, x) /\ runs[x] = 0 /\ x \in attempted
            BY <1>1, <2>1, <2>5
        <3>2. \A b \in Agents : ~Armed(b, x)
            BY <2>1, <3>1
        <3>3. \A b \in Agents, q \in Providers : ~Held(b, q, x)'
            BY <2>1, <2>3, <3>1
        <3> QED BY <1>1, <1>3, <2>2, <2>5, <3>1, <3>2, <3>3
    <2> QED BY <2>4, <2>5
<1> QED BY <1>4, <1>5, <1>6 DEF IInv

(* A worker appends its result.                                            *)
LEMMA PublishKeeps ==
    ASSUME IInv, NEW a \in Agents, NEW p \in Providers, Publish(a, p)
    PROVE  IInv'
<1>1. worker[a][p] \in Worker
    BY DEF Publish, Working, IInv, TypeOK, NoWorker
<1>2. TypeOK'
    BY <1>1 DEF IInv, TypeOK, Publish, Worker, Phases, Terminal, store, world, volatile, loop
<1>3. Readable' /\ Named'
    BY DEF IInv, Readable, Named, Publish, store, volatile, loop
<1>4. \A b \in Agents, q \in Providers :
          worker'[b][q] = worker[b][q] \/ worker'[b][q].phase # "running"
    BY <1>1 DEF IInv, TypeOK, Publish, Worker, volatile
<1>5. OnePermission'
    BY <1>4, NothingNew DEF IInv, Publish, store, volatile
<1> QED BY <1>2, <1>3, <1>5 DEF IInv

(* A worker's transaction is stored, or refused.                           *)
LEMMA FinishKeeps ==
    ASSUME IInv, NEW a \in Agents, NEW p \in Providers, Finish(a, p)
    PROVE  IInv'
<1>1. worker[a][p] \in Worker /\ worker[a][p].at \in Nat
    BY DEF Finish, Working, IInv, TypeOK, NoWorker, Worker
<1>2. PICK ph \in {"done", "failed"} : worker' = [worker EXCEPT ![a][p].phase = ph]
    BY DEF Finish
<1>3. /\ worker' \in [Agents -> [Providers -> Worker \cup {NoWorker}]]
      /\ \A b \in Agents, q \in Providers :
             worker'[b][q] = worker[b][q] \/ worker'[b][q].phase # "running"
    BY <1>1, <1>2 DEF IInv, TypeOK, Worker, Phases
<1>4. cursor' \in [Providers -> Nat] /\ ckpt' \in [Agents -> [Providers -> Nat]]
    <2>1. cursor \in [Providers -> Nat] /\ ckpt \in [Agents -> [Providers -> Nat]]
        BY DEF IInv, TypeOK
    <2>2. CASE cursor[p] = ckpt[a][p]
        BY <1>1, <2>1, <2>2 DEF Finish
    <2>3. CASE cursor[p] # ckpt[a][p]
        BY <2>1, <2>3 DEF Finish
    <2> QED BY <2>2, <2>3
<1>5. terminals' \in [Requests -> SUBSET Terminal]
    BY DEF IInv, TypeOK, Finish, Terminal
<1>6. TypeOK'
    BY <1>3, <1>4, <1>5 DEF IInv, TypeOK, Finish, world, loop
<1>7. Readable' /\ Named'
    BY DEF IInv, Readable, Named, Finish, loop
<1>8. OnePermission'
    BY <1>3, NothingNew DEF IInv, Finish
<1> QED BY <1>6, <1>7, <1>8 DEF IInv

(* A worker reports a failure.                                             *)
LEMMA FailKeeps ==
    ASSUME IInv, NEW a \in Agents, NEW p \in Providers, Fail(a, p)
    PROVE  IInv'
<1>1. worker[a][p] \in Worker
    BY DEF Fail, Working, IInv, TypeOK, NoWorker
<1>2. TypeOK'
    BY <1>1 DEF IInv, TypeOK, Fail, Worker, Phases, Terminal, store, world, volatile, loop
<1>3. Readable' /\ Named'
    BY DEF IInv, Readable, Named, Fail, store, volatile, loop
<1>4. \A b \in Agents, q \in Providers :
          worker'[b][q] = worker[b][q] \/ worker'[b][q].phase # "running"
    BY <1>1 DEF IInv, TypeOK, Fail, Worker, volatile
<1>5. OnePermission'
    BY <1>4, NothingNew DEF IInv, Fail, store, volatile
<1> QED BY <1>2, <1>3, <1>5 DEF IInv

(* A worker traps.                                                         *)
LEMMA TrapKeeps ==
    ASSUME IInv, NEW a \in Agents, NEW p \in Providers, Trap(a, p)
    PROVE  IInv'
<1>1. worker[a][p] \in Worker
    BY DEF Trap, Working, IInv, TypeOK, NoWorker
<1>2. TypeOK'
    BY <1>1 DEF IInv, TypeOK, Trap, Worker, Phases, Terminal, store, world, volatile, loop
<1>3. Readable' /\ Named'
    BY DEF IInv, Readable, Named, Trap, store, volatile, loop
<1>4. \A b \in Agents, q \in Providers :
          worker'[b][q] = worker[b][q] \/ worker'[b][q].phase # "running"
    BY <1>1 DEF IInv, TypeOK, Trap, Worker, volatile
<1>5. OnePermission'
    BY <1>4, NothingNew DEF IInv, Trap, store, volatile
<1> QED BY <1>2, <1>3, <1>5 DEF IInv

-----------------------------------------------------------------------------
(* The first state has no permission.                                      *)
LEMMA InitInv == Init => IInv
<1> SUFFICES ASSUME Init PROVE IInv
    OBVIOUS
<1>1. TypeOK
    BY DEF Init, TypeOK, Failure
<1>2. Readable /\ Named
    BY DEF Init, Readable, Named, NoAct
<1>3. OnePermission
    <2>1. \A a \in Agents : act[a].steps # <<"spawn">>
        BY DEF Init, NoAct
    <2>2. \A a \in Agents, p \in Providers : worker[a][p].phase # "running"
        BY DEF Init, NoWorker
    <2>3. \A r \in Requests : runs[r] = 0
        BY DEF Init
    <2> QED BY <2>1, <2>2, <2>3 DEF OnePermission, Armed, Held
<1> QED BY <1>1, <1>2, <1>3 DEF IInv

(* Every step keeps the invariant.                                         *)
LEMMA NextInv == IInv /\ [Next]_vars => IInv'
<1> SUFFICES ASSUME IInv, [Next]_vars PROVE IInv'
    OBVIOUS
<1>1. ASSUME NEW a \in Agents, LoopStep(a) PROVE IInv'
    <2>1. CASE Append1(a)
        BY <2>1, DecideKeeps, AnswerKeeps, MarkUnknownKeeps, AttemptKeeps, SpawnKeeps, SkipKeeps,
           RestartKeeps, MarkFailedKeeps, MarkRecoveredKeeps DEF Append1
    <2> QED BY <1>1, <2>1, StartKeeps, InstallKeeps, EndInstallKeeps, CollectKeeps,
               EndCollectKeeps, GateKeeps, EndGateKeeps, DeliverKeeps, EndPassKeeps DEF LoopStep
<1>2. ASSUME NEW a \in Agents, NEW p \in Providers, WorkerStep(a, p) PROVE IInv'
    BY <1>2, ExecuteKeeps, PublishKeeps, FinishKeeps, FailKeeps, TrapKeeps DEF WorkerStep
<1>3. CASE WorldStep
    BY <1>3, AskKeeps, AskCancelKeeps, PassDeadlineKeeps, NoteKeeps, ElapseKeeps, RecoverKeeps,
       ObserveKeeps, ConsumeKeeps DEF WorldStep
<1>4. CASE UNCHANGED vars
    <2>1. TypeOK' /\ Readable' /\ Named'
        BY <1>4 DEF IInv, TypeOK, Readable, Named, vars, store, world, volatile, loop
    <2>2. OnePermission'
        BY <1>4, NothingNew DEF IInv, vars, store, volatile
    <2> QED BY <2>1, <2>2 DEF IInv
<1> QED BY <1>1, <1>2, <1>3, <1>4, CrashKeeps DEF Next

(* The invariant holds in every reachable state.                           *)
THEOREM SpecInv == Spec => []IInv
BY InitInv, NextInv, PTL DEF Spec

(* Every reachable state of the loop is well typed, for any number of      *)
(* processes, providers and requests.                                      *)
THEOREM Typed == Spec => []TypeOK
BY SpecInv, PTL DEF IInv

(* An effect that is not inherently idempotent is executed at most once:   *)
(* admit_attempt stores the attempt and compares the claim before the      *)
(* provider is called, and no path calls it without.                       *)
THEOREM EffectOnce == Spec => []AtMostOnce
<1>1. IInv => AtMostOnce
    BY DEF IInv, OnePermission, AtMostOnce
<1> QED BY <1>1, SpecInv, PTL

-----------------------------------------------------------------------------
(* One answer, and no execution after it: for one process per database,    *)
(* which nothing in the CLI enforces (module Dispatch shows two).          *)
OneProcess == \A a, b \in Agents : a = b

(* The appends left in a plan: those that answer, and a plan of the gate.  *)
Left(s) == {s[i] : i \in 1..Len(s)}
Answers == {"denied", "timed-out", "interrupted"}
Gating(L) == L # {} /\ L \subseteq {"allow", "refuse", "denied"}

(* Requests and cancellations in the log name what they are about; only    *)
(* they are on a gate page.                                                *)
Gateable(n) == log[n].kind = "cancel" \/ (log[n].kind = "request" /\ log[n].req \notin Models)
LogFits ==
    /\ \A n \in 1..Len(log) :
         /\ log[n].kind = "request" => log[n].to = Route[log[n].req]
         /\ log[n].kind = "cancel" => log[n].to = None
         /\ log[n].kind = "note" => log[n].to \in Mixed \cup {None} /\ log[n].req = None
    /\ \A a \in Agents : \A n \in page[a] : Gateable(n)

(* A process that installs its components has no worker yet.               *)
Quiet ==
    \A a \in Agents :
        /\ pc[a] \in {"down", "install"} => \A p \in Providers : worker[a][p] = NoWorker
        /\ pc[a] = "down" => act[a] = NoAct

(* Allowed by the configuration, which a model call needs not be.          *)
Cleared(a, r) == r \in Models \/ Permits(a, r)

(* A plan that answers or calls is about a request without answer, and no  *)
(* worker has it.                                                          *)
PlanFit(a, L, r, p) ==
    /\ "spawn" \in L => pc[a] = "deliver"
    /\ L \cap {"spawn", "fail"} # {} => worker[a][p] = NoWorker
    /\ r \in Requests /\ L \cap (Answers \cup {"spawn"}) # {} => terminals[r] = {}
    /\ r \in Requests /\ L \cap (Answers \cup {"spawn", "cancelled"}) # {} =>
         \A q \in Providers : worker[a][q].req # r
    /\ r \in Requests /\ "spawn" \in L => p = Route[r] /\ Cleared(a, r)
PlanFits == \A a \in Agents : PlanFit(a, Left(act[a].steps), act[a].req, act[a].p)

(* A worker's request has no answer but the worker's own, and none before  *)
(* the execution.                                                          *)
WorkerFit(a, p, w) ==
    w.req \in Requests =>
        /\ p = Route[w.req] /\ Cleared(a, w.req)
        /\ terminals[w.req] \subseteq {"completed"}
        /\ w.phase = "running" => terminals[w.req] = {}
WorkerFits == \A a \in Agents, p \in Providers : WorkerFit(a, p, worker[a][p])

Single == \A r \in Requests : \A s, t \in terminals[r] : s = t

AInv == LogFits /\ Quiet /\ PlanFits /\ WorkerFits /\ Single

-----------------------------------------------------------------------------
(* The words of a short plan.                                              *)
LEMMA LeftOf ==
    /\ Left(<<>>) = {}
    /\ \A w : Left(<<w>>) = {w}
    /\ \A w, x : Left(<<w, x>>) = {w, x}
    /\ \A w, x, y : Left(<<w, x, y>>) = {w, x, y}
    /\ \A w, x, y, z : Left(<<w, x, y, z>>) = {w, x, y, z}
BY DEF Left

(* What is left of a plan, by its next append: an answer is the last one,  *)
(* a hand-over ends the plan, and a plan of the gate stays one.            *)
LEMMA PlanLeft ==
    ASSUME NEW s \in Plans
    PROVE  /\ Left(s) = {Head(s)} \cup Left(Tail(s))
           /\ Head(s) \in Answers \cup {"cancelled"} =>
                Left(Tail(s)) \cap (Answers \cup {"cancelled", "spawn"}) = {}
           /\ Head(s) \in {"attempt", "spawn"} => Left(Tail(s)) \subseteq {"spawn"}
           /\ Head(s) # "attempt" => "spawn" \notin Left(Tail(s))
           /\ Head(s) = "spawn" => Left(Tail(s)) = {}
           /\ Gating(Left(Tail(s))) => Gating(Left(s))
           /\ Head(s) \in {"allow", "refuse"} => Gating(Left(s))
           /\ "attempt" \notin Left(Tail(s))
           /\ Head(s) = "skip" => Left(s) \cap (Answers \cup {"cancelled"}) = {}
<1>1. CASE s = <<"allow">>
    <2>1. Head(s) = "allow" /\ Tail(s) = <<>>
        BY <1>1
    <2>2. Left(s) = {"allow"} /\ Left(Tail(s)) = {}
        BY <1>1, <2>1, LeftOf
    <2> QED BY <2>1, <2>2 DEF Answers, Gating
<1>2. CASE s = <<"denied">>
    <2>1. Head(s) = "denied" /\ Tail(s) = <<>>
        BY <1>2
    <2>2. Left(s) = {"denied"} /\ Left(Tail(s)) = {}
        BY <1>2, <2>1, LeftOf
    <2> QED BY <2>1, <2>2 DEF Answers, Gating
<1>3. CASE s = <<"spawn">>
    <2>1. Head(s) = "spawn" /\ Tail(s) = <<>>
        BY <1>3
    <2>2. Left(s) = {"spawn"} /\ Left(Tail(s)) = {}
        BY <1>3, <2>1, LeftOf
    <2> QED BY <2>1, <2>2 DEF Answers, Gating
<1>4. CASE s = <<"skip">>
    <2>1. Head(s) = "skip" /\ Tail(s) = <<>>
        BY <1>4
    <2>2. Left(s) = {"skip"} /\ Left(Tail(s)) = {}
        BY <1>4, <2>1, LeftOf
    <2> QED BY <2>1, <2>2 DEF Answers, Gating
<1>5. CASE s = <<"recovered">>
    <2>1. Head(s) = "recovered" /\ Tail(s) = <<>>
        BY <1>5
    <2>2. Left(s) = {"recovered"} /\ Left(Tail(s)) = {}
        BY <1>5, <2>1, LeftOf
    <2> QED BY <2>1, <2>2 DEF Answers, Gating
<1>6. CASE s = <<"fail">>
    <2>1. Head(s) = "fail" /\ Tail(s) = <<>>
        BY <1>6
    <2>2. Left(s) = {"fail"} /\ Left(Tail(s)) = {}
        BY <1>6, <2>1, LeftOf
    <2> QED BY <2>1, <2>2 DEF Answers, Gating
<1>7. CASE s = <<"refuse", "denied">>
    <2>1. Head(s) = "refuse" /\ Tail(s) = <<"denied">>
        BY <1>7
    <2>2. Left(s) = {"refuse", "denied"} /\ Left(Tail(s)) = {"denied"}
        BY <1>7, <2>1, LeftOf
    <2> QED BY <2>1, <2>2 DEF Answers, Gating
<1>8. CASE s = <<"timed-out", "skip">>
    <2>1. Head(s) = "timed-out" /\ Tail(s) = <<"skip">>
        BY <1>8
    <2>2. Left(s) = {"timed-out", "skip"} /\ Left(Tail(s)) = {"skip"}
        BY <1>8, <2>1, LeftOf
    <2> QED BY <2>1, <2>2 DEF Answers, Gating
<1>9. CASE s = <<"denied", "skip">>
    <2>1. Head(s) = "denied" /\ Tail(s) = <<"skip">>
        BY <1>9
    <2>2. Left(s) = {"denied", "skip"} /\ Left(Tail(s)) = {"skip"}
        BY <1>9, <2>1, LeftOf
    <2> QED BY <2>1, <2>2 DEF Answers, Gating
<1>10. CASE s = <<"attempt", "spawn">>
    <2>1. Head(s) = "attempt" /\ Tail(s) = <<"spawn">>
        BY <1>10
    <2>2. Left(s) = {"attempt", "spawn"} /\ Left(Tail(s)) = {"spawn"}
        BY <1>10, <2>1, LeftOf
    <2> QED BY <2>1, <2>2 DEF Answers, Gating
<1>11. CASE s = <<"unknown", "interrupted", "skip">>
    <2>1. Head(s) = "unknown" /\ Tail(s) = <<"interrupted", "skip">>
        BY <1>11
    <2>2. Left(s) = {"unknown", "interrupted", "skip"} /\ Left(Tail(s)) = {"interrupted", "skip"}
        BY <1>11, <2>1, LeftOf
    <2> QED BY <2>1, <2>2 DEF Answers, Gating
<1>12. CASE s = <<"interrupted", "skip">>
    <2>1. Head(s) = "interrupted" /\ Tail(s) = <<"skip">>
        BY <1>12
    <2>2. Left(s) = {"interrupted", "skip"} /\ Left(Tail(s)) = {"skip"}
        BY <1>12, <2>1, LeftOf
    <2> QED BY <2>1, <2>2 DEF Answers, Gating
<1>13. CASE s = <<"cancelled", "restart", "skip">>
    <2>1. Head(s) = "cancelled" /\ Tail(s) = <<"restart", "skip">>
        BY <1>13
    <2>2. Left(s) = {"cancelled", "restart", "skip"} /\ Left(Tail(s)) = {"restart", "skip"}
        BY <1>13, <2>1, LeftOf
    <2> QED BY <2>1, <2>2 DEF Answers, Gating
<1>14. CASE s = <<"restart", "skip">>
    <2>1. Head(s) = "restart" /\ Tail(s) = <<"skip">>
        BY <1>14
    <2>2. Left(s) = {"restart", "skip"} /\ Left(Tail(s)) = {"skip"}
        BY <1>14, <2>1, LeftOf
    <2> QED BY <2>1, <2>2 DEF Answers, Gating
<1>15. CASE s = <<"cancelled", "skip", "recovered">>
    <2>1. Head(s) = "cancelled" /\ Tail(s) = <<"skip", "recovered">>
        BY <1>15
    <2>2. Left(s) = {"cancelled", "skip", "recovered"} /\ Left(Tail(s)) = {"skip", "recovered"}
        BY <1>15, <2>1, LeftOf
    <2> QED BY <2>1, <2>2 DEF Answers, Gating
<1>16. CASE s = <<"skip", "recovered">>
    <2>1. Head(s) = "skip" /\ Tail(s) = <<"recovered">>
        BY <1>16
    <2>2. Left(s) = {"skip", "recovered"} /\ Left(Tail(s)) = {"recovered"}
        BY <1>16, <2>1, LeftOf
    <2> QED BY <2>1, <2>2 DEF Answers, Gating
<1>17. CASE s = <<"interrupted", "fail">>
    <2>1. Head(s) = "interrupted" /\ Tail(s) = <<"fail">>
        BY <1>17
    <2>2. Left(s) = {"interrupted", "fail"} /\ Left(Tail(s)) = {"fail"}
        BY <1>17, <2>1, LeftOf
    <2> QED BY <2>1, <2>2 DEF Answers, Gating
<1>18. CASE s = <<"interrupted", "fail", "skip">>
    <2>1. Head(s) = "interrupted" /\ Tail(s) = <<"fail", "skip">>
        BY <1>18
    <2>2. Left(s) = {"interrupted", "fail", "skip"} /\ Left(Tail(s)) = {"fail", "skip"}
        BY <1>18, <2>1, LeftOf
    <2> QED BY <2>1, <2>2 DEF Answers, Gating
<1>19. CASE s = <<"fail", "skip">>
    <2>1. Head(s) = "fail" /\ Tail(s) = <<"skip">>
        BY <1>19
    <2>2. Left(s) = {"fail", "skip"} /\ Left(Tail(s)) = {"skip"}
        BY <1>19, <2>1, LeftOf
    <2> QED BY <2>1, <2>2 DEF Answers, Gating
<1>20. CASE s = <<"unknown", "interrupted", "fail">>
    <2>1. Head(s) = "unknown" /\ Tail(s) = <<"interrupted", "fail">>
        BY <1>20
    <2>2. Left(s) = {"unknown", "interrupted", "fail"} /\ Left(Tail(s)) = {"interrupted", "fail"}
        BY <1>20, <2>1, LeftOf
    <2> QED BY <2>1, <2>2 DEF Answers, Gating
<1>21. CASE s = <<"unknown", "interrupted", "fail", "skip">>
    <2>1. Head(s) = "unknown" /\ Tail(s) = <<"interrupted", "fail", "skip">>
        BY <1>21
    <2>2. Left(s) = {"unknown", "interrupted", "fail", "skip"} /\ Left(Tail(s)) = {"interrupted", "fail", "skip"}
        BY <1>21, <2>1, LeftOf
    <2> QED BY <2>1, <2>2 DEF Answers, Gating
<1> QED BY <1>1, <1>2, <1>3, <1>4, <1>5, <1>6, <1>7, <1>8, <1>9, <1>10, <1>11, <1>12, <1>13, <1>14, <1>15, <1>16, <1>17, <1>18, <1>19, <1>20, <1>21 DEF Plans, Ends, UncertainEnds

(* A plan after its next append.                                           *)
LEMMA Advance ==
    ASSUME IInv, NEW a \in Agents, NEW step, Doing(a, step),
           NEW s \in Plans \cup {<<>>}, act' = Then(a, s)
    PROVE  /\ act[a] \in Act /\ act[a].steps \in Plans /\ Head(act[a].steps) = step
           /\ \A b \in Agents : b # a => act'[b] = act[b]
           /\ act'[a].steps = s
           /\ Left(s) # {} => /\ act'[a].req = act[a].req
                              /\ act'[a].p = act[a].p /\ act'[a].at = act[a].at
<1>1. act \in [Agents -> Act \cup {NoAct}] /\ act[a] \in Act
    BY DEF IInv, TypeOK, NoAct, Doing
<1>2. act[a].steps \in Plans /\ Head(act[a].steps) = step
    BY <1>1 DEF Act, Doing
<1>3. CASE s = <<>>
    BY <1>1, <1>2, <1>3, LeftOf DEF Then, NoAct
<1>4. CASE s # <<>>
    BY <1>1, <1>2, <1>4 DEF Then, Act
<1> QED BY <1>3, <1>4

(* The rest of a plan is one that it was already.                          *)
LEMMA Rests ==
    ASSUME IInv, NEW a \in Agents, NEW step, Doing(a, step), act' = Then(a, Rest(a))
    PROVE  /\ act[a] \in Act /\ act[a].steps \in Plans /\ Head(act[a].steps) = step
           /\ \A b \in Agents : b # a => act'[b] = act[b]
           /\ act'[a].steps = Tail(act[a].steps)
           /\ Left(act[a].steps) = {step} \cup Left(act'[a].steps)
           /\ Left(act'[a].steps) # {} =>
                 /\ act'[a].req = act[a].req
                 /\ act'[a].p = act[a].p /\ act'[a].at = act[a].at
<1>1. act[a].steps \in Plans
    BY DEF IInv, TypeOK, NoAct, Act, Doing
<1>2. Rest(a) \in Plans \cup {<<>>}
    BY <1>1, PlanRest DEF Rest
<1>3. /\ Head(act[a].steps) = step /\ act'[a].steps = Rest(a)
      /\ Left(act[a].steps) = {Head(act[a].steps)} \cup Left(Tail(act[a].steps))
    BY <1>1, <1>2, Advance, PlanLeft
<1> QED BY <1>1, <1>2, <1>3, Advance DEF Rest

(* Nothing is left of no plan.                                             *)
LEMMA Idle ==
    ASSUME NEW a, Free(a)
    PROVE  act[a] = NoAct /\ Left(act[a].steps) = {}
BY LeftOf DEF Free, NoAct

(* What the invariant reads is what it read.                               *)
LEMMA SameFits ==
    ASSUME AInv, UNCHANGED <<log, terminals, volatile>>
    PROVE  AInv'
<1>1. UNCHANGED <<log, terminals, pc, policy, present, page, act, worker>>
    BY DEF volatile, loop
<1>2. LogFits' /\ Quiet' /\ Single'
    BY <1>1 DEF AInv, LogFits, Gateable, Quiet, Single
<1>3. PlanFits'
    BY <1>1 DEF AInv, PlanFits, PlanFit, Cleared, Permits
<1>4. WorkerFits'
    BY <1>1 DEF AInv, WorkerFits, WorkerFit, Cleared, Permits
<1> QED BY <1>2, <1>3, <1>4 DEF AInv

(* The log grows by an item that names what it is about.                   *)
LEMMA GrowsFits ==
    ASSUME IInv, AInv, NEW i \in Item, log' = Append(log, i), UNCHANGED <<terminals, volatile>>,
           i.kind = "request" => i.to = Route[i.req],
           i.kind = "cancel" => i.to = None,
           i.kind = "note" => i.to \in Mixed \cup {None} /\ i.req = None
    PROVE  AInv'
<1>1. UNCHANGED <<terminals, pc, policy, present, page, act, worker>>
    BY DEF volatile, loop
<1>2. LogFits'
    <2>1. /\ Len(log') = Len(log) + 1 /\ Len(log) \in Nat /\ log'[Len(log) + 1] = i
          /\ \A n \in 1..Len(log) : log'[n] = log[n]
        BY DEF IInv, TypeOK
    <2>2. \A b \in Agents : \A n \in page[b] : n \in 1..Len(log)
        BY DEF IInv, Readable
    <2>3. \A n \in 1..Len(log') : n \in 1..Len(log) \/ n = Len(log) + 1
        BY <2>1
    <2> QED BY <1>1, <2>1, <2>2, <2>3 DEF AInv, LogFits, Gateable
<1>3. Quiet' /\ Single'
    BY <1>1 DEF AInv, Quiet, Single
<1>4. PlanFits'
    BY <1>1 DEF AInv, PlanFits, PlanFit, Cleared, Permits
<1>5. WorkerFits'
    BY <1>1 DEF AInv, WorkerFits, WorkerFit, Cleared, Permits
<1> QED BY <1>2, <1>3, <1>4, <1>5 DEF AInv

(* Cognition, the clock and the operator answer nothing.                   *)
LEMMA WorldFits ==
    ASSUME IInv, AInv, WorldStep
    PROVE  AInv'
<1>1. ASSUME NEW r \in Requests, Ask(r) PROVE AInv'
    <2>1. [kind |-> "request", req |-> r, to |-> Route[r]] \in Item
        BY DispatchAssumption DEF Item
    <2> QED BY <1>1, <2>1, GrowsFits DEF Ask
<1>2. ASSUME NEW r \in Requests, AskCancel(r) PROVE AInv'
    <2>1. [kind |-> "cancel", req |-> r, to |-> None] \in Item
        BY DEF Item
    <2> QED BY <1>2, <2>1, GrowsFits DEF AskCancel
<1>3. ASSUME NEW p \in Mixed \cup {None}, Note(p) PROVE AInv'
    <2>1. [kind |-> "note", req |-> None, to |-> p] \in Item
        BY DispatchAssumption DEF Item
    <2> QED BY <1>3, <2>1, GrowsFits DEF Note
<1>4. ASSUME \/ \E r \in Requests : PassDeadline(r)
             \/ \E p \in Providers : Elapse(p) \/ Recover(p)
             \/ Observe \/ Consume
      PROVE  AInv'
    BY <1>4, SameFits DEF PassDeadline, Elapse, Recover, Observe, Consume, store
<1> QED BY <1>1, <1>2, <1>3, <1>4 DEF WorldStep

(* A process starts with no plan and no worker, under any policy.          *)
LEMMA StartFits ==
    ASSUME OneProcess, IInv, AInv, NEW a \in Agents, Start(a)
    PROVE  AInv'
<1>1. /\ UNCHANGED <<log, terminals, present, page, act, worker>>
      /\ pc[a] = "down" /\ pc'[a] = "install"
    BY DEF Start, store, IInv, TypeOK
<1>2. act[a] = NoAct /\ \A p \in Providers : worker[a][p] = NoWorker
    BY <1>1 DEF AInv, Quiet
<1>3. Left(act'[a].steps) = {} /\ \A p \in Providers : worker'[a][p].req \notin Requests
    BY <1>1, <1>2, LeftOf, DispatchAssumption DEF NoAct, NoWorker
<1>4. \A b \in Agents : b = a
    BY DEF OneProcess
<1>5. LogFits' /\ Quiet' /\ Single'
    BY <1>1, <1>2, <1>4 DEF AInv, LogFits, Gateable, Quiet, Single
<1>6. PlanFits'
    BY <1>3, <1>4 DEF PlanFits, PlanFit
<1>7. WorkerFits'
    BY <1>3, <1>4 DEF WorkerFits, WorkerFit
<1> QED BY <1>5, <1>6, <1>7 DEF AInv

(* A pass moves on to its next part.                                       *)
LEMMA TurnFits ==
    ASSUME OneProcess, IInv, AInv, NEW a \in Agents,
           EndInstall(a) \/ EndCollect(a) \/ EndGate(a) \/ EndPass(a)
    PROVE  AInv'
<1>1. /\ UNCHANGED <<log, terminals, policy, present, act, worker>>
      /\ pc'[a] \in {"collect", "gate", "deliver"} /\ Free(a)
      /\ page' = page \/ page' = [page EXCEPT ![a] = NextPage(a)]
    BY DEF EndInstall, EndCollect, EndGate, EndPass, store, IInv, TypeOK
<1>2. act'[a] = NoAct /\ Left(act'[a].steps) = {}
    BY <1>1, Idle
<1>3. \A b \in Agents : b = a
    BY DEF OneProcess
<1>4. LogFits'
    <2>1. \A n \in NextPage(a) : Gateable(n)
        BY DEF NextPage, Gateable
    <2> QED BY <1>1, <1>3, <2>1 DEF IInv, TypeOK, AInv, LogFits, Gateable
<1>5. Quiet' /\ Single'
    BY <1>1, <1>3 DEF AInv, Quiet, Single
<1>6. PlanFits'
    BY <1>2, <1>3 DEF PlanFits, PlanFit
<1>7. WorkerFits'
    BY <1>1 DEF AInv, WorkerFits, WorkerFit, Cleared, Permits
<1> QED BY <1>4, <1>5, <1>6, <1>7 DEF AInv

(* A process that dies leaves neither a plan nor a worker.                 *)
LEMMA DownFits ==
    ASSUME OneProcess, IInv, AInv, NEW a \in Agents, Down(a), UNCHANGED <<log, terminals>>
    PROVE  AInv'
<1>1. /\ act'[a] = NoAct /\ page'[a] = {}
      /\ \A p \in Providers : worker'[a][p] = NoWorker
    BY DEF Down, IInv, TypeOK
<1>2. Left(act'[a].steps) = {} /\ \A p \in Providers : worker'[a][p].req \notin Requests
    BY <1>1, LeftOf, DispatchAssumption DEF NoAct, NoWorker
<1>3. \A b \in Agents : b = a
    BY DEF OneProcess
<1>4. LogFits' /\ Quiet' /\ Single'
    BY <1>1, <1>3 DEF AInv, LogFits, Gateable, Quiet, Single
<1>5. PlanFits'
    BY <1>2, <1>3 DEF PlanFits, PlanFit
<1>6. WorkerFits'
    BY <1>2, <1>3 DEF WorkerFits, WorkerFit
<1> QED BY <1>4, <1>5, <1>6 DEF AInv

(* The appends that change neither an answer, a worker nor what is         *)
(* permitted.                                                              *)
LEMMA AppendFits ==
    ASSUME OneProcess, IInv, AInv, NEW a \in Agents, NEW step, Doing(a, step),
           NEW s \in Plans \cup {<<>>}, act' = Then(a, s),
           Left(s) \subseteq Left(act[a].steps) \cup {"skip"},
           UNCHANGED <<log, terminals, loop, worker>>
    PROVE  AInv'
<1>1. UNCHANGED <<log, terminals, pc, policy, present, page, worker>>
    BY DEF loop
<1>2. /\ act[a] \in Act /\ act'[a].steps = s
      /\ Left(s) # {} => act'[a].req = act[a].req /\ act'[a].p = act[a].p
    BY Advance
<1>3. \A b \in Agents : b = a
    BY DEF OneProcess
<1>4. LogFits' /\ Single'
    BY <1>1 DEF AInv, LogFits, Gateable, Single
<1>5. Quiet'
    <2>1. pc[a] # "down"
        BY <1>2 DEF AInv, Quiet, Doing, NoAct
    <2> QED BY <1>1, <1>3, <2>1 DEF AInv, Quiet
<1>6. PlanFits'
    <2>1. PlanFit(a, Left(act[a].steps), act[a].req, act[a].p)
        BY DEF AInv, PlanFits
    <2>2. CASE Left(s) = {}
        BY <1>2, <1>3, <2>2 DEF PlanFits, PlanFit
    <2>3. CASE Left(s) # {}
        <3>1. \A x \in Answers \cup {"spawn", "fail", "cancelled"} :
                  x \in Left(s) => x \in Left(act[a].steps)
            BY DEF Answers
        <3>2. PlanFit(a, Left(s), act[a].req, act[a].p)
            BY <2>1, <3>1 DEF PlanFit
        <3>3. PlanFit(a, Left(s), act[a].req, act[a].p)'
            BY <1>1, <1>2, <2>3, <3>2 DEF PlanFit, Cleared, Permits
        <3> QED BY <1>2, <1>3, <2>3, <3>3 DEF PlanFits
    <2> QED BY <2>2, <2>3
<1>7. WorkerFits'
    BY <1>1 DEF AInv, WorkerFits, WorkerFit, Cleared, Permits
<1> QED BY <1>4, <1>5, <1>6, <1>7 DEF AInv

(* A decision, an unknown outcome, a restart and a recovery answer nothing. *)
LEMMA PlainFits ==
    ASSUME OneProcess, IInv, AInv, NEW a \in Agents,
           Decide(a) \/ MarkUnknown(a) \/ Restart(a) \/ MarkRecovered(a)
    PROVE  AInv'
<1>1. PICK step : Doing(a, step)
    BY DEF Decide, MarkUnknown, Restart, MarkRecovered
<1>2. act' = Then(a, Rest(a)) /\ UNCHANGED <<log, terminals, loop, worker>>
    BY DEF Decide, MarkUnknown, Restart, MarkRecovered, store
<1>3. /\ Rest(a) \in Plans \cup {<<>>}
      /\ Left(Rest(a)) \subseteq Left(act[a].steps)
    BY <1>1, <1>2, Rests, PlanRest DEF Rest
<1> QED BY <1>1, <1>2, <1>3, AppendFits

(* The claim is stored, or was by another.                                 *)
LEMMA AttemptFits ==
    ASSUME OneProcess, IInv, AInv, NEW a \in Agents, Attempt(a)
    PROVE  AInv'
<1> DEFINE s == IF ClaimWon(act[a].req) THEN Rest(a) ELSE <<"skip">>
<1>1. Doing(a, "attempt") /\ act' = Then(a, s) /\ UNCHANGED <<log, terminals, loop, worker>>
    BY DEF Attempt
<1>2. act[a].steps \in Plans
    BY <1>1 DEF IInv, TypeOK, NoAct, Act, Doing
<1>3. /\ Rest(a) \in Plans \cup {<<>>} /\ <<"skip">> \in Plans
      /\ Left(act[a].steps) = {Head(act[a].steps)} \cup Left(Rest(a)) /\ Left(<<"skip">>) = {"skip"}
    BY <1>2, PlanRest, PlanLeft, LeftOf DEF Rest, Plans
<1>4. s \in Plans \cup {<<>>} /\ Left(s) \subseteq Left(act[a].steps) \cup {"skip"}
    BY <1>3
<1> HIDE DEF s
<1> QED BY <1>1, <1>4, AppendFits

(* The cursor skips, or the process ends.                                  *)
LEMMA SkipFits ==
    ASSUME OneProcess, IInv, AInv, NEW a \in Agents, Skip(a)
    PROVE  AInv'
<1>1. CASE Down(a)
    BY <1>1, DownFits DEF Skip
<1>2. CASE ~Down(a)
    <2>1. Doing(a, "skip") /\ act' = Then(a, Rest(a)) /\ UNCHANGED <<log, terminals, loop, worker>>
        BY <1>2 DEF Skip
    <2>2. /\ Rest(a) \in Plans \cup {<<>>}
          /\ Left(Rest(a)) \subseteq Left(act[a].steps)
        BY <2>1, Rests, PlanRest DEF Rest
    <2> QED BY <2>1, <2>2, AppendFits
<1> QED BY <1>1, <1>2

(* An answer is appended: the plan's request had none, or keeps it.        *)
LEMMA AnswerFits ==
    ASSUME OneProcess, IInv, AInv, NEW a \in Agents, Answer(a)
    PROVE  AInv'
<1> DEFINE r == act[a].req
           L == Left(act[a].steps)
           M == Left(act'[a].steps)
<1>1. PICK t \in Answers \cup {"cancelled"} : Doing(a, t) /\ terminals' = Settled(r, t)
    BY DEF Answer, Answers
<1>2. act' = Then(a, Rest(a)) /\ UNCHANGED <<log, pc, policy, present, page, worker>>
    BY DEF Answer, loop
<1>3. /\ act[a] \in Act /\ act[a].steps \in Plans /\ Head(act[a].steps) = t
      /\ act'[a].steps = Tail(act[a].steps)
      /\ L = {t} \cup M
      /\ M # {} => act'[a].req = r /\ act'[a].p = act[a].p
    BY <1>1, <1>2, Rests
<1>4. M \cap (Answers \cup {"cancelled", "spawn"}) = {}
    BY <1>1, <1>3, PlanLeft
<1>5. \A b \in Agents : b = a
    BY DEF OneProcess
<1>6. PlanFit(a, L, r, act[a].p)
    BY DEF AInv, PlanFits
<1>7. terminals \in [Requests -> SUBSET Terminal] /\ r \in Requests \cup {None} /\ None \notin Requests
    BY <1>3, DispatchAssumption DEF IInv, TypeOK, Act
<1> HIDE DEF r, L, M
<1>8. \/ terminals' = terminals
      \/ /\ r \in Requests /\ terminals[r] = {} /\ terminals' = [terminals EXCEPT ![r] = {t}]
         /\ \A q \in Providers : worker[a][q].req # r
    <2>1. CASE r = None
        BY <1>1, <2>1 DEF Settled
    <2>2. CASE r \in Requests /\ t \in Answers
        <3>1. terminals[r] = {} /\ \A q \in Providers : worker[a][q].req # r
            BY <1>3, <1>6, <2>2 DEF PlanFit
        <3> QED BY <1>1, <1>7, <2>2, <3>1 DEF Settled, Answers
    <2>3. CASE r \in Requests /\ t = "cancelled"
        <3>1. \A q \in Providers : worker[a][q].req # r
            BY <1>3, <1>6, <2>3 DEF PlanFit
        <3> QED BY <1>1, <1>7, <2>3, <3>1 DEF Settled, Answered
    <2> QED BY <1>1, <1>7, <2>1, <2>2, <2>3
<1>9. LogFits'
    BY <1>2 DEF AInv, LogFits, Gateable
<1>10. Quiet'
    <2>1. pc[a] # "down"
        BY <1>1 DEF AInv, Quiet, Doing, NoAct
    <2> QED BY <1>2, <1>5, <2>1 DEF AInv, Quiet
<1>11. PlanFits'
    <2>1. CASE M = {}
        BY <1>5, <2>1 DEF PlanFits, PlanFit, M
    <2>2. CASE M # {}
        <3>1. PlanFit(a, Left(act[a].steps), act[a].req, act[a].p)'
            BY <1>2, <1>3, <1>4, <1>6, <2>2 DEF PlanFit, M
        <3> QED BY <1>5, <3>1 DEF PlanFits
    <2> QED BY <2>1, <2>2
<1>12. WorkerFits'
    <2> SUFFICES ASSUME NEW q \in Providers
                 PROVE  WorkerFit(a, q, worker[a][q])'
        BY <1>2, <1>5 DEF WorkerFits
    <2>1. WorkerFit(a, q, worker[a][q])
        BY DEF AInv, WorkerFits
    <2>2. worker[a][q].req \in Requests => terminals'[worker[a][q].req] = terminals[worker[a][q].req]
        BY <1>7, <1>8
    <2> QED BY <1>2, <2>1, <2>2 DEF WorkerFit, Cleared, Permits
<1>13. Single'
    BY <1>7, <1>8 DEF AInv, Single
<1> QED BY <1>9, <1>10, <1>11, <1>12, <1>13 DEF AInv

(* A provider that failed has no worker.                                   *)
LEMMA MarkFailedFits ==
    ASSUME OneProcess, IInv, AInv, NEW a \in Agents, MarkFailed(a)
    PROVE  AInv'
<1> DEFINE L == Left(act[a].steps)
           M == Left(act'[a].steps)
<1>1. /\ Doing(a, "fail") /\ act' = Then(a, Rest(a))
      /\ present' = [present EXCEPT ![a] = @ \ {act[a].p}]
      /\ UNCHANGED <<log, terminals, pc, policy, page, worker>>
    BY DEF MarkFailed
<1>2. /\ act[a] \in Act /\ act[a].steps \in Plans /\ Head(act[a].steps) = "fail"
      /\ act'[a].steps = Tail(act[a].steps)
      /\ L = {"fail"} \cup M
      /\ M # {} => act'[a].req = act[a].req /\ act'[a].p = act[a].p
    BY <1>1, Rests
<1>3. "spawn" \notin M
    BY <1>2, PlanLeft
<1>4. \A b \in Agents : b = a
    BY DEF OneProcess
<1>5. PlanFit(a, L, act[a].req, act[a].p)
    BY DEF AInv, PlanFits
<1> HIDE DEF L, M
<1>6. LogFits' /\ Single'
    BY <1>1 DEF AInv, LogFits, Gateable, Single
<1>7. Quiet'
    <2>1. pc[a] # "down"
        BY <1>1 DEF AInv, Quiet, Doing, NoAct
    <2> QED BY <1>1, <1>4, <2>1 DEF AInv, Quiet
<1>8. PlanFits'
    <2>1. CASE M = {}
        BY <1>4, <2>1 DEF PlanFits, PlanFit, M
    <2>2. CASE M # {}
        <3>1. PlanFit(a, Left(act[a].steps), act[a].req, act[a].p)'
            BY <1>1, <1>2, <1>3, <1>5, <2>2 DEF PlanFit, M
        <3> QED BY <1>4, <3>1 DEF PlanFits
    <2> QED BY <2>1, <2>2
<1>9. WorkerFits'
    <2> SUFFICES ASSUME NEW q \in Providers, worker[a][q].req \in Requests
                 PROVE  WorkerFit(a, q, worker[a][q])'
        BY <1>1, <1>4 DEF WorkerFits, WorkerFit
    <2>1. WorkerFit(a, q, worker[a][q])
        BY DEF AInv, WorkerFits
    <2>2. q # act[a].p
        BY <1>2, <1>5, DispatchAssumption DEF PlanFit, NoWorker
    <2> QED BY <1>1, <2>1, <2>2 DEF WorkerFit, Cleared, Permits, IInv, TypeOK
<1> QED BY <1>6, <1>7, <1>8, <1>9 DEF AInv

(* The plan a handler starts.                                              *)
LEMMA BeginPlan ==
    ASSUME IInv, NEW a \in Agents, NEW plan, act' = [act EXCEPT ![a] = plan]
    PROVE  act'[a] = plan
BY DEF IInv, TypeOK

(* A cancelled failure is settled before any worker is spawned.            *)
LEMMA InstallFits ==
    ASSUME OneProcess, IInv, AInv, NEW a \in Agents, Install(a)
    PROVE  AInv'
<1>1. /\ pc[a] = "install" /\ Free(a) /\ UNCHANGED <<log, terminals, pc, policy, page, worker>>
      /\ \E p \in todo[a] : present' = [present EXCEPT ![a] = @ \cup {p}]
      /\ \/ act' = act
         \/ \E p, n, r : act' = [act EXCEPT ![a] = [p |-> p, at |-> n, req |-> r,
                                     steps |-> <<"cancelled", "skip", "recovered">>]]
    BY DEF Install, store
<1>2. \A b \in Agents : b = a
    BY DEF OneProcess
<1>3. \A p \in Providers : worker[a][p] = NoWorker /\ worker[a][p].req \notin Requests
    BY <1>1, DispatchAssumption DEF AInv, Quiet, NoWorker
<1>4. \/ Left(act'[a].steps) = {}
      \/ Left(act'[a].steps) = {"cancelled", "skip", "recovered"}
    <2>1. CASE act' = act
        BY <1>1, <2>1, Idle
    <2>2. CASE act' # act
        <3>1. act'[a].steps = <<"cancelled", "skip", "recovered">>
            BY <1>1, <2>2, BeginPlan
        <3> QED BY <3>1, LeftOf
    <2> QED BY <2>1, <2>2
<1>5. LogFits' /\ Quiet' /\ Single'
    BY <1>1, <1>2, <1>3 DEF AInv, LogFits, Gateable, Quiet, Single
<1>6. PlanFits'
    BY <1>1, <1>2, <1>3, <1>4 DEF PlanFits, PlanFit, Answers
<1>7. WorkerFits'
    BY <1>1, <1>2, <1>3 DEF WorkerFits, WorkerFit
<1> QED BY <1>5, <1>6, <1>7 DEF AInv

(* A collected worker leaves no other on its request.                      *)
LEMMA CollectFits ==
    ASSUME OneProcess, IInv, AInv, NEW a \in Agents, Collect(a)
    PROVE  AInv'
<1> DEFINE Plan(p, s) == [p |-> p, at |-> worker[a][p].at, req |-> worker[a][p].req, steps |-> s]
<1>1. PICK p \in Providers :
         /\ worker' = [worker EXCEPT ![a][p] = NoWorker]
         /\ \/ act' = act
            \/ act' = [act EXCEPT ![a] = Plan(p, <<"cancelled", "restart", "skip">>)]
            \/ \E s \in Ends : act' = [act EXCEPT ![a] = Plan(p, s)]
            \/ /\ worker[a][p].req \in Requests /\ ~Answered(worker[a][p].req)
               /\ \E s \in UncertainEnds : act' = [act EXCEPT ![a] = Plan(p, s)]
    BY Zenon DEF Collect, Finished
<1>2. /\ pc[a] = "collect" /\ Free(a)
      /\ UNCHANGED <<log, terminals, pc, policy, present, page>>
    BY DEF Collect, loop
<1>3. \A b \in Agents : b = a
    BY DEF OneProcess
<1>4. /\ worker'[a][p] = NoWorker /\ worker'[a][p].req \notin Requests
      /\ \A q \in Providers : q # p => worker'[a][q] = worker[a][q]
    BY <1>1, DispatchAssumption DEF IInv, TypeOK, NoWorker
<1>5. \A q \in Providers : worker[a][q].req \in Requests => q = Route[worker[a][q].req]
    BY DEF AInv, WorkerFits, WorkerFit
<1>6. \/ Left(act'[a].steps) = {}
      \/ /\ act'[a].p = p /\ act'[a].req = worker[a][p].req
         /\ \/ Left(act'[a].steps) \subseteq {"cancelled", "restart", "skip", "fail"}
            \/ /\ Left(act'[a].steps) \subseteq {"unknown", "interrupted", "fail", "skip"}
               /\ worker[a][p].req \in Requests => terminals[worker[a][p].req] = {}
    <2>1. CASE act' = act
        BY <1>2, <2>1, Idle
    <2>2. CASE act' = [act EXCEPT ![a] = Plan(p, <<"cancelled", "restart", "skip">>)]
        <3>1. act'[a] = Plan(p, <<"cancelled", "restart", "skip">>)
            BY <2>2, BeginPlan
        <3>2. Left(<<"cancelled", "restart", "skip">>) = {"cancelled", "restart", "skip"}
            BY LeftOf
        <3> QED BY <3>1, <3>2
    <2>3. ASSUME NEW s \in Ends, act' = [act EXCEPT ![a] = Plan(p, s)] PROVE <1>6
        <3>1. Left(s) \subseteq {"fail", "skip"}
            BY LeftOf DEF Ends
        <3>2. act'[a] = Plan(p, s)
            BY <2>3, BeginPlan
        <3> QED BY <3>2, <2>3, <3>1
    <2>4. ASSUME ~Answered(worker[a][p].req),
                 NEW s \in UncertainEnds, act' = [act EXCEPT ![a] = Plan(p, s)]
          PROVE <1>6
        <3>1. Left(s) \subseteq {"unknown", "interrupted", "fail", "skip"}
            BY LeftOf DEF UncertainEnds
        <3>2. act'[a] = Plan(p, s)
            BY <2>4, BeginPlan
        <3> QED BY <3>2, <2>4, <3>1 DEF Answered
    <2> QED BY <1>1, <2>1, <2>2, <2>3, <2>4
<1>7. LogFits' /\ Single'
    BY <1>2 DEF AInv, LogFits, Gateable, Single
<1>8. Quiet'
    BY <1>2, <1>3 DEF Quiet
<1>9. PlanFits'
    <2>1. CASE Left(act'[a].steps) = {}
        BY <1>3, <2>1 DEF PlanFits, PlanFit
    <2>2. CASE Left(act'[a].steps) # {}
        <3>1. \A q \in Providers : act'[a].req \in Requests => worker'[a][q].req # act'[a].req
            BY <1>4, <1>5, <1>6, <2>2
        <3>2. /\ act'[a].p = p /\ "spawn" \notin Left(act'[a].steps)
              /\ act'[a].req \in Requests /\ Left(act'[a].steps) \cap Answers # {} =>
                    terminals'[act'[a].req] = {}
            BY <1>2, <1>6, <2>2 DEF Answers
        <3>3. PlanFit(a, Left(act[a].steps), act[a].req, act[a].p)'
            BY <1>4, <3>1, <3>2 DEF PlanFit
        <3> QED BY <1>3, <3>3 DEF PlanFits
    <2> QED BY <2>1, <2>2
<1>10. WorkerFits'
    BY <1>2, <1>3, <1>4 DEF AInv, WorkerFits, WorkerFit, Cleared, Permits
<1> QED BY <1>7, <1>8, <1>9, <1>10 DEF AInv

(* The gate refuses nothing that a worker has: the policy that admitted it *)
(* still holds.                                                            *)
LEMMA GateFitsPlan ==
    ASSUME OneProcess, IInv, AInv, NEW a \in Agents, Gate(a)
    PROVE  AInv'
<1> DEFINE n == First(page[a])
           r == log[n].req
           v == Verdict(a, r)
<1>1. /\ page[a] \in SUBSET Nat /\ page[a] # {} /\ Free(a) /\ pc[a] = "gate"
      /\ page' = [page EXCEPT ![a] = @ \ {n}]
      /\ UNCHANGED <<log, terminals, pc, policy, present, worker>>
      /\ \/ act' = act
         \/ /\ log[n].kind # "cancel" /\ v # <<>>
            /\ act' = [act EXCEPT ![a] = [p |-> Route[r], at |-> n, req |-> r, steps |-> v]]
    BY DEF Gate, IInv, TypeOK, store
<1>2. n \in page[a]
    BY <1>1, FirstIn
<1>3. Gateable(n)
    BY <1>2 DEF AInv, LogFits
<1> HIDE DEF n, r
<1>4. \A b \in Agents : b = a
    BY DEF OneProcess
<1>5. v # <<>> => /\ ~Answered(r)
                  /\ \/ Left(v) = {"allow"}
                     \/ ~Permits(a, r) /\ Left(v) \subseteq {"refuse", "denied"}
    <2>1. \/ v = <<>>
          \/ ~Answered(r) /\ v = <<"allow">>
          \/ ~Answered(r) /\ ~Permits(a, r) /\ (v = <<"denied">> \/ v = <<"refuse", "denied">>)
        <3>1. policy[a][r] = "unresolved" => ~Permits(a, r)
            BY DEF Permits
        <3> QED BY <3>1, Zenon DEF Verdict, v
    <2>2. /\ Left(<<"allow">>) = {"allow"} /\ Left(<<"denied">>) = {"denied"}
          /\ Left(<<"refuse", "denied">>) = {"refuse", "denied"}
        BY LeftOf
    <2> QED BY <2>1, <2>2
<1> HIDE DEF v
<1>6. LogFits' /\ Single'
    BY <1>1, <1>4 DEF AInv, LogFits, Gateable, Single, IInv, TypeOK
<1>7. Quiet'
    BY <1>1, <1>4 DEF Quiet
<1>8. PlanFits'
    <2>1. CASE act' = act
        BY <1>1, <1>4, <2>1, Idle DEF PlanFits, PlanFit
    <2>2. CASE act' # act
        <3>0. /\ v # <<>> /\ log[n].kind # "cancel"
              /\ act' = [act EXCEPT ![a] = [p |-> Route[r], at |-> n, req |-> r, steps |-> v]]
            BY <1>1, <2>2
        <3>1. /\ act'[a].req = r /\ act'[a].steps = v /\ v # <<>> /\ log[n].kind # "cancel"
            BY <3>0 DEF IInv, TypeOK
        <3>2. r \notin Models
            BY <1>3, <3>1 DEF Gateable, r
        <3>3. ~Permits(a, r) => \A q \in Providers : worker[a][q].req \in Requests =>
                                                     worker[a][q].req # r
            BY <3>2 DEF AInv, WorkerFits, WorkerFit, Cleared
        <3>4. PlanFit(a, Left(act[a].steps), act[a].req, act[a].p)'
            BY <1>1, <1>5, <3>1, <3>3 DEF PlanFit, Answered, Answers
        <3> QED BY <1>4, <3>4 DEF PlanFits
    <2> QED BY <2>1, <2>2
<1>9. WorkerFits'
    BY <1>1 DEF AInv, WorkerFits, WorkerFit, Cleared, Permits
<1> QED BY <1>6, <1>7, <1>8, <1>9 DEF AInv

(* An event that a provider is given and that names a request is a request *)
(* of the provider's, without answer.                                      *)
LEMMA Offered ==
    ASSUME IInv, AInv, NEW a \in Agents, NEW p \in Providers, Pending(a, p) # {}
    PROVE  LET n == First(Pending(a, p))
           IN  /\ n \in Pending(a, p) /\ n \in 1..Len(log) /\ log[n].to = p
               /\ log[n].req \in Requests \cup {None}
               /\ log[n].req \in Requests =>
                    /\ log[n].kind = "request" /\ p = Route[log[n].req]
                    /\ terminals[log[n].req] = {}
               /\ log[n].kind = "note" => log[n].req = None
<1> DEFINE n == First(Pending(a, p))
<1>1. Pending(a, p) \in SUBSET (1..Len(log)) /\ Pending(a, p) \in SUBSET Nat
    BY DEF Pending, IInv, TypeOK
<1>2. n \in Pending(a, p)
    BY <1>1, FirstIn
<1> HIDE DEF n
<1>3. n \in 1..Len(log) /\ log[n] \in Item
    BY <1>1, <1>2 DEF IInv, TypeOK
<1>4. log[n].to = p /\ (log[n].kind = "request" => ~Answered(log[n].req))
    BY <1>2 DEF Pending
<1>5. /\ log[n].kind \in {"request", "cancel", "note"} /\ log[n].req \in Requests \cup {None}
      /\ None \notin Requests \cup Providers
    BY <1>3, DispatchAssumption DEF Item
<1>6. log[n].kind # "cancel"
    BY <1>3, <1>4, <1>5 DEF AInv, LogFits
<1>7. log[n].kind = "note" => log[n].req = None
    BY <1>3 DEF AInv, LogFits
<1>8. log[n].kind = "request" => p = Route[log[n].req]
    BY <1>3, <1>4 DEF AInv, LogFits
<1> QED BY <1>2, <1>3, <1>4, <1>5, <1>6, <1>7, <1>8 DEF n, Answered

(* A provider is given a request that has no answer and no worker.         *)
LEMMA DeliverFits ==
    ASSUME OneProcess, IInv, AInv, NEW a \in Agents, Deliver(a)
    PROVE  AInv'
<1>1. /\ pc[a] = "deliver" /\ Free(a)
      /\ UNCHANGED <<log, terminals, pc, policy, present, page, worker>>
    BY DEF Deliver, store
<1>2. PICK p \in Providers :
         \/ act' = act
         \/ /\ Ready(a, p)
            /\ act' = [act EXCEPT ![a] =
                  [p |-> p, at |-> First(Pending(a, p)), req |-> log[First(Pending(a, p))].req,
                   steps |-> Admission(a, log[First(Pending(a, p))].req)]]
    BY DEF Deliver, IInv, TypeOK
<1>3. \A b \in Agents : b = a
    BY DEF OneProcess
<1>4. LogFits' /\ Single' /\ Quiet'
    BY <1>1, <1>3 DEF AInv, LogFits, Gateable, Single, Quiet
<1>5. PlanFits'
    <2>1. CASE act' = act
        BY <1>1, <1>3, <2>1, Idle DEF PlanFits, PlanFit
    <2>2. CASE act' # act
        <3> DEFINE r == log[First(Pending(a, p))].req
        <3>1. /\ act'[a].p = p /\ act'[a].req = r /\ act'[a].steps = Admission(a, r)
              /\ Ready(a, p)
            BY <1>2, <2>2, BeginPlan
        <3>2. Pending(a, p) # {} /\ worker[a][p] = NoWorker
            BY <3>1 DEF Ready
        <3>3. /\ r \in Requests \cup {None}
              /\ r \in Requests => p = Route[r] /\ terminals[r] = {}
            BY <3>2, Offered
        <3> HIDE DEF r
        <3>4. \/ Left(Admission(a, r)) \cap {"spawn", "fail", "cancelled"} = {}
              \/ /\ Left(Admission(a, r)) \subseteq {"attempt", "spawn"}
                 /\ r \in Requests => Cleared(a, r)
            <4>1. \/ Admission(a, r) \in {<<"timed-out", "skip">>, <<"denied", "skip">>,
                                          <<"unknown", "interrupted", "skip">>}
                  \/ /\ Admission(a, r) \in {<<"attempt", "spawn">>, <<"spawn">>}
                     /\ r \in Requests => Cleared(a, r)
                BY <3>3, DispatchAssumption DEF Admission, Cleared
            <4>2. /\ Left(<<"timed-out", "skip">>) = {"timed-out", "skip"}
                  /\ Left(<<"denied", "skip">>) = {"denied", "skip"}
                  /\ Left(<<"unknown", "interrupted", "skip">>) = {"unknown", "interrupted", "skip"}
                  /\ Left(<<"attempt", "spawn">>) = {"attempt", "spawn"}
                  /\ Left(<<"spawn">>) = {"spawn"}
                BY LeftOf
            <4> QED BY <4>1, <4>2
        <3>5. r \in Requests => \A q \in Providers : worker[a][q].req # r
            BY <3>2, <3>3, DispatchAssumption DEF AInv, WorkerFits, WorkerFit, NoWorker
        <3>6. PlanFit(a, Left(act[a].steps), act[a].req, act[a].p)'
            BY <1>1, <3>1, <3>2, <3>3, <3>4, <3>5 DEF PlanFit, Cleared, Permits
        <3> QED BY <1>3, <3>6 DEF PlanFits
    <2> QED BY <2>1, <2>2
<1>6. WorkerFits'
    BY <1>1 DEF AInv, WorkerFits, WorkerFit, Cleared, Permits
<1> QED BY <1>4, <1>5, <1>6 DEF AInv

(* The worker has a request without answer.                                *)
LEMMA SpawnFits ==
    ASSUME OneProcess, IInv, AInv, NEW a \in Agents, Spawn(a)
    PROVE  AInv'
<1> DEFINE p == act[a].p
           r == act[a].req
<1>1. /\ Doing(a, "spawn") /\ act' = Then(a, Rest(a))
      /\ worker' = [worker EXCEPT ![a][p] = [at |-> act[a].at, req |-> r, phase |-> "running"]]
      /\ UNCHANGED <<log, terminals, pc, policy, present, page>>
    BY DEF Spawn, store, loop
<1>2. /\ act[a] \in Act /\ act[a].steps \in Plans /\ Head(act[a].steps) = "spawn"
      /\ "spawn" \in Left(act[a].steps) /\ act'[a].steps = Tail(act[a].steps)
    BY <1>1, Rests
<1>3. Left(act'[a].steps) = {}
    BY <1>2, PlanLeft
<1>4. PlanFit(a, Left(act[a].steps), r, p)
    BY DEF AInv, PlanFits
<1>5. /\ pc[a] = "deliver" /\ (r \in Requests => p = Route[r] /\ Cleared(a, r) /\ terminals[r] = {})
    BY <1>2, <1>4 DEF PlanFit
<1>6. \A b \in Agents : b = a
    BY DEF OneProcess
<1>7. /\ p \in Providers /\ worker'[a][p].req = r
      /\ \A q \in Providers : q # p => worker'[a][q] = worker[a][q]
    BY <1>1, <1>2 DEF IInv, TypeOK, Act
<1>8. LogFits' /\ Single'
    BY <1>1 DEF AInv, LogFits, Gateable, Single
<1>9. Quiet'
    BY <1>1, <1>5, <1>6 DEF Quiet
<1>10. PlanFits'
    BY <1>3, <1>6 DEF PlanFits, PlanFit
<1>11. WorkerFits'
    <2> SUFFICES ASSUME NEW q \in Providers
                 PROVE  WorkerFit(a, q, worker[a][q])'
        BY <1>6 DEF WorkerFits
    <2>1. WorkerFit(a, q, worker[a][q])
        BY DEF AInv, WorkerFits
    <2>2. CASE q = p
        BY <1>1, <1>5, <1>7, <2>2 DEF WorkerFit, Cleared, Permits
    <2>3. CASE q # p
        BY <1>1, <1>7, <2>1, <2>3 DEF WorkerFit, Cleared, Permits
    <2> QED BY <2>2, <2>3
<1> QED BY <1>8, <1>9, <1>10, <1>11 DEF AInv

(* A worker's call goes on; its result is its request's only answer.       *)
LEMMA WorkerStepFits ==
    ASSUME OneProcess, IInv, AInv, NEW a \in Agents, NEW p \in Providers, WorkerStep(a, p)
    PROVE  AInv'
<1> DEFINE w == worker[a][p]
           r == worker[a][p].req
<1>1. /\ UNCHANGED <<log, pc, policy, present, page, act>>
      /\ w.phase \in {"running", "ran"}
      /\ \/ \E f \in {"ran", "done", "failed", "trapped"} :
                worker' = [worker EXCEPT ![a][p].phase = f]
         \/ w.phase = "ran" /\ worker' = worker
      /\ \/ terminals' = terminals
         \/ /\ terminals' = [terminals EXCEPT ![r] = @ \cup {"completed"}]
            /\ r # None \/ w.phase = "ran"
    BY DEF WorkerStep, Execute, Publish, Finish, Fail, Trap, Working, store, volatile, loop
<1>2. /\ w \in Worker /\ r \in Requests \cup {None} /\ w # NoWorker
    BY <1>1 DEF IInv, TypeOK, Worker, NoWorker
<1>3. /\ worker'[a][p].req = r /\ worker'[a][p].phase # "running"
      /\ \A q \in Providers : q # p => worker'[a][q] = worker[a][q]
    <2>1. CASE worker' = worker /\ w.phase = "ran"
        BY <2>1
    <2>2. ASSUME NEW f \in {"ran", "done", "failed", "trapped"},
                 worker' = [worker EXCEPT ![a][p].phase = f]
          PROVE  <1>3
        BY <1>2, <2>2 DEF IInv, TypeOK, Worker
    <2> QED BY <1>1, <2>1, <2>2
<1>4. \A b \in Agents : b = a
    BY DEF OneProcess
<1>5. WorkerFit(a, p, w) /\ \A q \in Providers : WorkerFit(a, q, worker[a][q])
    BY DEF AInv, WorkerFits
<1>6. \A x \in Requests : \/ terminals'[x] = terminals[x]
                          \/ x = r /\ terminals'[x] = terminals[x] \cup {"completed"}
    BY <1>1 DEF IInv, TypeOK
<1>7. PlanFit(a, Left(act[a].steps), act[a].req, act[a].p)
    BY DEF AInv, PlanFits
<1> HIDE DEF w, r
<1>8. LogFits'
    BY <1>1 DEF AInv, LogFits, Gateable
<1>9. Quiet'
    <2>1. pc[a] \notin {"down", "install"}
        BY <1>2 DEF AInv, Quiet, w
    <2> QED BY <1>1, <1>4, <2>1 DEF Quiet
<1>10. PlanFits'
    <2>1. \A q \in Providers : worker'[a][q].req = worker[a][q].req
        BY <1>3 DEF r
    <2>2. act[a].req \in Requests /\ Left(act[a].steps) \cap (Answers \cup {"spawn"}) # {} =>
              act[a].req # r
        BY <1>7 DEF PlanFit, r
    <2>3. Left(act[a].steps) \cap {"spawn", "fail"} # {} => act[a].p # p
        BY <1>2, <1>7 DEF PlanFit, w
    <2>4. \A q \in Providers : q # p /\ worker[a][q] = NoWorker => worker'[a][q] = NoWorker
        BY <1>3
    <2>5. Left(act[a].steps) # {} => act[a].p \in Providers
        BY LeftOf DEF IInv, TypeOK, Act, NoAct
    <2>6. PlanFit(a, Left(act[a].steps), act[a].req, act[a].p)'
        BY <1>1, <1>6, <1>7, <2>1, <2>2, <2>3, <2>4, <2>5 DEF PlanFit, Cleared, Permits
    <2> QED BY <1>4, <2>6 DEF PlanFits
<1>11. WorkerFits'
    <2> SUFFICES ASSUME NEW q \in Providers
                 PROVE  WorkerFit(a, q, worker[a][q])'
        BY <1>4 DEF WorkerFits
    <2>1. CASE q = p
        BY <1>1, <1>3, <1>5, <1>6, <2>1 DEF WorkerFit, Cleared, Permits, w, r
    <2>2. CASE q # p
        <3>1. worker[a][q].req \in Requests => worker[a][q].req # r
            BY <1>5, <2>2 DEF WorkerFit, w, r
        <3>2. worker[a][q].req \in Requests =>
                  terminals'[worker[a][q].req] = terminals[worker[a][q].req]
            BY <1>6, <3>1
        <3>3. worker'[a][q] = worker[a][q] /\ WorkerFit(a, q, worker[a][q])
            BY <1>3, <1>5, <2>2
        <3> QED BY <1>1, <3>2, <3>3 DEF WorkerFit, Cleared, Permits
    <2> QED BY <2>1, <2>2
<1>12. Single'
    <2> SUFFICES ASSUME NEW x \in Requests
                 PROVE  \A s, t \in terminals'[x] : s = t
        BY DEF Single
    <2>1. CASE x = r
        BY <1>5, <1>6, <2>1 DEF WorkerFit, AInv, Single, w, r
    <2>2. CASE x # r
        BY <1>6, <2>2 DEF AInv, Single
    <2> QED BY <2>1, <2>2
<1> QED BY <1>8, <1>9, <1>10, <1>11, <1>12 DEF AInv

-----------------------------------------------------------------------------
(* Nothing is answered at first.                                           *)
LEMMA InitFits == Init => AInv
<1> SUFFICES ASSUME Init PROVE AInv
    OBVIOUS
<1>1. /\ log = <<>> /\ \A a \in Agents : page[a] = {} /\ act[a] = NoAct
      /\ \A a \in Agents, p \in Providers : worker[a][p] = NoWorker
      /\ \A r \in Requests : terminals[r] = {}
    BY DEF Init
<1>2. LogFits /\ Quiet /\ Single
    BY <1>1 DEF LogFits, Quiet, Single
<1>3. PlanFits
    <2>1. \A a \in Agents : Left(act[a].steps) = {}
        BY <1>1, LeftOf DEF NoAct
    <2> QED BY <2>1 DEF PlanFits, PlanFit
<1>4. WorkerFits
    BY <1>1, DispatchAssumption DEF WorkerFits, WorkerFit, NoWorker
<1> QED BY <1>2, <1>3, <1>4 DEF AInv

(* Every step of a process that is alone keeps it.                         *)
LEMMA NextFits ==
    ASSUME OneProcess, IInv, AInv, [Next]_vars
    PROVE  AInv'
<1>1. ASSUME NEW a \in Agents, LoopStep(a) PROVE AInv'
    <2>1. CASE Append1(a)
        BY <2>1, PlainFits, AnswerFits, AttemptFits, SpawnFits, SkipFits, MarkFailedFits DEF Append1
    <2> QED BY <1>1, <2>1, StartFits, InstallFits, TurnFits, CollectFits, GateFitsPlan, DeliverFits
            DEF LoopStep
<1>2. ASSUME NEW a \in Agents, Crash(a) PROVE AInv'
    BY <1>2, DownFits DEF Crash, store
<1>3. ASSUME NEW a \in Agents, NEW p \in Providers, WorkerStep(a, p) PROVE AInv'
    BY <1>3, WorkerStepFits
<1>4. CASE WorldStep
    BY <1>4, WorldFits
<1>5. CASE UNCHANGED vars
    BY <1>5, SameFits DEF vars, store
<1> QED BY <1>1, <1>2, <1>3, <1>4, <1>5 DEF Next

(* The invariant of a process that is alone on its database.               *)
THEOREM SpecFits == ASSUME OneProcess PROVE Spec => []AInv
<1>1. IInv /\ AInv /\ [Next]_vars => AInv'
    BY NextFits
<1> QED BY <1>1, InitFits, SpecInv, PTL DEF Spec

(* One process answers a request once: result_for before a denial of the   *)
(* gate and before a cancellation, drop_answered_requests before a         *)
(* delivery, and a worker's own result exclude one another, whatever       *)
(* crashes and restarts there are.                                         *)
THEOREM OneAnswer == ASSUME OneProcess PROVE Spec => []OneTerminal
<1>1. AInv => OneTerminal
    <2> SUFFICES ASSUME AInv, NEW r \in Requests
                 PROVE  Cardinality(terminals[r]) <= 1
        BY DEF OneTerminal
    <2>1. CASE terminals[r] = {}
        BY <2>1, FS_EmptySet
    <2>2. CASE terminals[r] # {}
        <3>1. PICK t : t \in terminals[r]
            BY <2>2
        <3>2. terminals[r] = {t}
            BY <3>1 DEF AInv, Single
        <3>3. Cardinality({t}) = 1
            BY FS_Singleton
        <3> QED BY <3>2, <3>3
    <2> QED BY <2>1, <2>2
<1> QED BY <1>1, SpecFits, PTL

(* It executes nothing that was answered: between drop_answered_requests   *)
(* and the provider's call nobody else answers the request.                *)
THEOREM AnsweredIsFinal == ASSUME OneProcess PROVE Spec => NoRunAfterAnswer
<1>1. IInv /\ AInv /\ [Next]_vars =>
          [\A r \in Requests : runs'[r] # runs[r] => terminals[r] = {}]_vars
    <2> SUFFICES ASSUME IInv, AInv, Next, NEW r \in Requests, runs'[r] # runs[r]
                 PROVE  terminals[r] = {}
        OBVIOUS
    <2>1. \A a \in Agents : Append1(a) => runs' = runs
        BY DEF Append1, Decide, Answer, MarkUnknown, Attempt, Spawn, Skip, Restart, MarkFailed,
               MarkRecovered
    <2>2. \A a \in Agents : LoopStep(a) \/ Crash(a) => runs' = runs
        BY <2>1 DEF LoopStep, Start, Install, EndInstall, Collect, EndCollect, Gate, EndGate, Deliver,
                    EndPass, Crash
    <2>3. \A a \in Agents, p \in Providers : WorkerStep(a, p) => Execute(a, p) \/ runs' = runs
        BY DEF WorkerStep, Publish, Finish, Fail, Trap
    <2>4. WorldStep => runs' = runs
        BY DEF WorldStep, Ask, AskCancel, Note, Observe, Consume, PassDeadline, Elapse, Recover
    <2>5. PICK a \in Agents, p \in Providers : Execute(a, p)
        BY <2>2, <2>3, <2>4 DEF Next
    <2>6. worker[a][p].req = r /\ worker[a][p].phase = "running"
        BY <2>5 DEF Execute, IInv, TypeOK
    <2> QED BY <2>6 DEF AInv, WorkerFits, WorkerFit
<1> QED BY <1>1, SpecInv, SpecFits, PTL DEF Spec, NoRunAfterAnswer

-----------------------------------------------------------------------------
(* The ceiling on capability calls, for any number of processes: a         *)
(* hand-over that is planned has a worker to go to.                        *)
Room(a) ==
    /\ IsFiniteSet(Active(a)) /\ Cardinality(Active(a)) <= MaxWorkers
    /\ "spawn" \in Left(act[a].steps) /\ act[a].req \in Requests \ Models
          => Cardinality(Active(a)) < MaxWorkers

CInv == \A a \in Agents : Room(a)

(* Room is kept by what spawns nothing and plans no hand-over.             *)
LEMMA RoomStays ==
    ASSUME NEW a \in Agents, Room(a),
           \A p \in Providers : worker'[a][p].req \in {worker[a][p].req, None},
           "spawn" \in Left(act'[a].steps) =>
               "spawn" \in Left(act[a].steps) /\ act'[a].req = act[a].req
    PROVE  Room(a)'
<1>1. Active(a)' \subseteq Active(a)
    BY DispatchAssumption DEF Active
<1>2. IsFiniteSet(Active(a)) /\ Cardinality(Active(a)) <= MaxWorkers
    BY DEF Room
<1>3. /\ IsFiniteSet(Active(a)') /\ Cardinality(Active(a)') <= Cardinality(Active(a))
      /\ Cardinality(Active(a)') \in Nat /\ Cardinality(Active(a)) \in Nat /\ MaxWorkers \in Nat
    BY <1>1, <1>2, FS_Subset, FS_CardinalityType, DispatchAssumption
<1>4. /\ Active(a)' = (Active(a))'
    OBVIOUS
<1> QED BY <1>3, <1>4 DEF Room

(* Another process's step leaves a process's workers and plan alone.       *)
LEMMA RoomOfOthers ==
    ASSUME CInv, NEW a \in Agents, NEW b \in Agents,
           worker'[b] = worker[b] /\ act'[b] = act[b]
    PROVE  Room(b)'
BY RoomStays DEF CInv

(* The steps of the loop other than a delivery and a hand-over.            *)
LEMMA LoopRoom ==
    ASSUME IInv, CInv, NEW a \in Agents, LoopStep(a), ~Deliver(a), ~Spawn(a)
    PROVE  CInv'
<1>1. /\ \A b \in Agents : b # a => worker'[b] = worker[b] /\ act'[b] = act[b]
      /\ \A p \in Providers : worker'[a][p].req \in {worker[a][p].req, None}
      /\ "spawn" \in Left(act'[a].steps) =>
             "spawn" \in Left(act[a].steps) /\ act'[a].req = act[a].req
    <2>1. CASE Start(a) \/ EndInstall(a) \/ EndCollect(a) \/ EndGate(a) \/ EndPass(a)
        BY <2>1 DEF Start, EndInstall, EndCollect, EndGate, EndPass
    <2>2. CASE Install(a)
        <3>1. /\ worker' = worker
              /\ \/ act' = act
                 \/ \E p, n, r : act' = [act EXCEPT ![a] = [p |-> p, at |-> n, req |-> r,
                                             steps |-> <<"cancelled", "skip", "recovered">>]]
            BY <2>2 DEF Install
        <3> DEFINE s == <<"cancelled", "skip", "recovered">>
        <3>2. "spawn" \notin Left(s)
            BY LeftOf
        <3>3. \/ act' = act
              \/ \E p, n, r : act' = [act EXCEPT ![a] = [p |-> p, at |-> n, req |-> r, steps |-> s]]
            BY <3>1
        <3> HIDE DEF s
        <3>4. (act' = act \/ act'[a].steps = s) /\ \A b \in Agents : b # a => act'[b] = act[b]
            BY <3>3 DEF IInv, TypeOK
        <3> QED BY <3>1, <3>2, <3>4
    <2>3. CASE Collect(a)
        <3>1. PICK p \in Providers :
                 /\ worker' = [worker EXCEPT ![a][p] = NoWorker]
                 /\ \/ act' = act
                    \/ \E s \in {<<"cancelled", "restart", "skip">>} \cup Ends \cup UncertainEnds :
                          act' = [act EXCEPT ![a] = [p |-> p, at |-> worker[a][p].at,
                                                     req |-> worker[a][p].req, steps |-> s]]
            BY <2>3, Zenon DEF Collect, Finished
        <3>2. \A s \in {<<"cancelled", "restart", "skip">>} \cup Ends \cup UncertainEnds :
                  "spawn" \notin Left(s)
            BY LeftOf DEF Ends, UncertainEnds
        <3>3. /\ \A b \in Agents : b # a => worker'[b] = worker[b]
              /\ \A q \in Providers : worker'[a][q].req \in {worker[a][q].req, None}
            <4>1. \A q \in Providers : worker'[a][q] \in {worker[a][q], NoWorker}
                BY <3>1 DEF IInv, TypeOK
            <4> QED BY <3>1, <4>1 DEF IInv, TypeOK, NoWorker
        <3>5. \A b \in Agents : b # a => act'[b] = act[b]
            BY <3>1 DEF IInv, TypeOK
        <3>4. act' = act \/ "spawn" \notin Left(act'[a].steps)
            BY <3>1, <3>2 DEF IInv, TypeOK
        <3> QED BY <3>3, <3>4, <3>5
    <2>4. CASE Gate(a)
        <3>1. /\ worker' = worker
              /\ \/ act' = act
                 \/ \E p, n, r : /\ Verdict(a, r) # <<>>
                                 /\ act' = [act EXCEPT ![a] = [p |-> p, at |-> n, req |-> r,
                                                               steps |-> Verdict(a, r)]]
            BY <2>4 DEF Gate
        <3>2. \A r : "spawn" \notin Left(Verdict(a, r))
            BY LeftOf DEF Verdict
        <3> QED BY <3>1, <3>2 DEF IInv, TypeOK
    <2>5. CASE Decide(a) \/ Answer(a) \/ MarkUnknown(a) \/ Restart(a) \/ MarkFailed(a) \/ MarkRecovered(a)
        <3>1. PICK step : Doing(a, step)
            BY <2>5 DEF Decide, Answer, MarkUnknown, Restart, MarkFailed, MarkRecovered
        <3>2. act' = Then(a, Rest(a)) /\ worker' = worker
            BY <2>5 DEF Decide, Answer, MarkUnknown, Restart, MarkFailed, MarkRecovered
        <3> QED BY <3>1, <3>2, Rests
    <2>6. CASE Attempt(a)
        <3> DEFINE s == IF ClaimWon(act[a].req) THEN Rest(a) ELSE <<"skip">>
        <3>1. Doing(a, "attempt") /\ act' = Then(a, s) /\ worker' = worker
            BY <2>6 DEF Attempt
        <3>2. act[a].steps \in Plans
            BY <3>1 DEF IInv, TypeOK, NoAct, Act, Doing
        <3>3. /\ Rest(a) \in Plans \cup {<<>>} /\ <<"skip">> \in Plans
              /\ Left(act[a].steps) = {Head(act[a].steps)} \cup Left(Rest(a))
              /\ Left(<<"skip">>) = {"skip"}
            BY <3>2, PlanRest, PlanLeft, LeftOf DEF Rest, Plans
        <3>4. s \in Plans \cup {<<>>} /\ Left(s) \subseteq Left(act[a].steps) \cup {"skip"}
            BY <3>3
        <3> HIDE DEF s
        <3> QED BY <3>1, <3>4, Advance
    <2>7. CASE Skip(a)
        <3>1. CASE Down(a)
            BY <3>1, LeftOf DEF Down, NoAct, NoWorker, IInv, TypeOK
        <3>2. CASE ~Down(a)
            <4>1. Doing(a, "skip") /\ act' = Then(a, Rest(a)) /\ worker' = worker
                BY <2>7, <3>2 DEF Skip
            <4> QED BY <4>1, Rests
        <3> QED BY <3>1, <3>2
    <2> QED BY <2>1, <2>2, <2>3, <2>4, <2>5, <2>6, <2>7 DEF LoopStep, Append1
<1> QED BY <1>1, RoomStays, RoomOfOthers DEF CInv

(* A delivery plans a capability call when there is room for it.           *)
LEMMA DeliverRoom ==
    ASSUME IInv, CInv, NEW a \in Agents, Deliver(a)
    PROVE  CInv'
<1>1. /\ worker' = worker /\ \A b \in Agents : b # a => act'[b] = act[b]
      /\ \/ act'[a] = act[a]
         \/ act'[a].req \in Requests \ Models => Cardinality(Active(a)) < MaxWorkers
    BY DEF Deliver, Ready, IInv, TypeOK
<1>2. Room(a)'
    <2>1. CASE act'[a] = act[a]
        BY <1>1, <2>1, RoomStays DEF CInv
    <2>2. CASE act'[a] # act[a]
        BY <1>1, <2>2 DEF CInv, Room, Active
    <2> QED BY <2>1, <2>2
<1> QED BY <1>1, <1>2, RoomOfOthers DEF CInv

(* A hand-over takes one worker.                                           *)
LEMMA SpawnRoom ==
    ASSUME IInv, CInv, NEW a \in Agents, Spawn(a)
    PROVE  CInv'
<1> DEFINE p == act[a].p
           r == act[a].req
<1>1. /\ Doing(a, "spawn") /\ act' = Then(a, Rest(a))
      /\ worker' = [worker EXCEPT ![a][p] = [at |-> act[a].at, req |-> r, phase |-> "running"]]
    BY DEF Spawn
<1>2. /\ act[a] \in Act /\ act[a].steps \in Plans /\ Head(act[a].steps) = "spawn"
      /\ "spawn" \in Left(act[a].steps) /\ act'[a].steps = Tail(act[a].steps)
      /\ \A b \in Agents : b # a => act'[b] = act[b]
    BY <1>1, Rests
<1>3. Left(act'[a].steps) = {}
    BY <1>2, PlanLeft
<1>4. /\ p \in Providers /\ worker'[a][p].req = r
      /\ \A q \in Providers : q # p => worker'[a][q] = worker[a][q]
      /\ \A b \in Agents : b # a => worker'[b] = worker[b]
    BY <1>1, <1>2 DEF IInv, TypeOK, Act
<1>5. Room(a)
    BY DEF CInv
<1>6. Room(a)'
    <2>1. CASE r \in Requests \ Models
        <3>1. Active(a)' \subseteq Active(a) \cup {p}
            BY <1>4 DEF Active
        <3>2. IsFiniteSet(Active(a)) /\ Cardinality(Active(a)) < MaxWorkers
            BY <1>2, <1>5, <2>1 DEF Room
        <3>3. /\ Cardinality(Active(a)) \in Nat /\ MaxWorkers \in Nat
              /\ IsFiniteSet(Active(a) \cup {p})
              /\ Cardinality(Active(a) \cup {p}) \in {Cardinality(Active(a)), Cardinality(Active(a)) + 1}
            BY <3>2, FS_AddElement, FS_CardinalityType, DispatchAssumption
        <3>4. /\ IsFiniteSet(Active(a)')
              /\ Cardinality(Active(a)') <= Cardinality(Active(a) \cup {p})
              /\ Cardinality(Active(a)') \in Nat
            BY <3>1, <3>3, FS_Subset, FS_CardinalityType
        <3>5. Cardinality(Active(a)') <= MaxWorkers
            BY <3>2, <3>3, <3>4
        <3> QED BY <1>3, <3>4, <3>5 DEF Room
    <2>2. CASE r \notin Requests \ Models
        <3>1. Active(a)' \subseteq Active(a)
            BY <1>4, <2>2 DEF Active
        <3>2. IsFiniteSet(Active(a)) /\ Cardinality(Active(a)) <= MaxWorkers
            BY <1>5 DEF Room
        <3>3. /\ IsFiniteSet(Active(a)') /\ Cardinality(Active(a)') <= Cardinality(Active(a))
              /\ Cardinality(Active(a)') \in Nat /\ Cardinality(Active(a)) \in Nat /\ MaxWorkers \in Nat
            BY <3>1, <3>2, FS_Subset, FS_CardinalityType, DispatchAssumption
        <3> QED BY <1>3, <3>2, <3>3 DEF Room
    <2> QED BY <2>1, <2>2
<1> QED BY <1>2, <1>4, <1>6, RoomOfOthers DEF CInv

(* A worker keeps its request, a process that dies has none.               *)
LEMMA WorkerRoom ==
    ASSUME IInv, CInv, NEW a \in Agents, NEW p \in Providers, WorkerStep(a, p)
    PROVE  CInv'
<1>1. /\ act' = act
      /\ \/ worker' = worker
         \/ \E f : worker' = [worker EXCEPT ![a][p].phase = f]
    BY DEF WorkerStep, Execute, Publish, Finish, Fail, Trap, volatile
<1>2. worker[a][p] \in Worker
    BY DEF WorkerStep, Execute, Publish, Finish, Fail, Trap, Working, IInv, TypeOK, NoWorker
<1>3. \A b \in Agents, q \in Providers : worker'[b][q].req = worker[b][q].req
    <2>1. ASSUME NEW f, worker' = [worker EXCEPT ![a][p].phase = f] PROVE <1>3
        BY <1>2, <2>1 DEF IInv, TypeOK, Worker
    <2> QED BY <1>1, <2>1
<1> QED BY <1>1, <1>3, RoomStays DEF CInv

(* Every step keeps within the ceiling.                                    *)
LEMMA NextRoom ==
    ASSUME IInv, CInv, [Next]_vars
    PROVE  CInv'
<1>1. ASSUME NEW a \in Agents, Crash(a) PROVE CInv'
    <2>1. /\ act'[a].steps = <<>> /\ \A p \in Providers : worker'[a][p].req = None
          /\ \A b \in Agents : b # a => act'[b] = act[b] /\ worker'[b] = worker[b]
        BY <1>1 DEF Crash, Down, NoAct, NoWorker, IInv, TypeOK
    <2>2. "spawn" \notin Left(act'[a].steps)
        BY <2>1, LeftOf
    <2> QED BY <2>1, <2>2, RoomStays, RoomOfOthers DEF CInv
<1>2. CASE WorldStep \/ UNCHANGED vars
    <2>1. act' = act /\ worker' = worker
        BY <1>2 DEF WorldStep, Ask, AskCancel, Note, Observe, Consume, PassDeadline, Elapse, Recover,
                    vars, volatile
    <2> QED BY <2>1, RoomStays DEF CInv
<1> QED BY <1>1, <1>2, LoopRoom, DeliverRoom, SpawnRoom, WorkerRoom DEF Next

(* No process has more capability calls under way than its ceiling: the    *)
(* loop counts the workers before it admits a call (deliver), and what a   *)
(* crash or a second process does in between frees workers at most.        *)
THEOREM CeilingHolds == Spec => []Ceiling
<1>1. Init => CInv
    <2> SUFFICES ASSUME Init, NEW a \in Agents PROVE Room(a)
        BY DEF CInv
    <2>1. Active(a) = {} /\ act[a].steps = <<>>
        BY DispatchAssumption DEF Init, Active, NoWorker, NoAct
    <2> QED BY <2>1, LeftOf, FS_EmptySet, DispatchAssumption DEF Room
<1>2. IInv /\ CInv /\ [Next]_vars => CInv'
    BY NextRoom
<1>3. CInv => Ceiling
    BY DEF CInv, Room, Ceiling
<1> QED BY <1>1, <1>2, <1>3, SpecInv, PTL DEF Spec

-----------------------------------------------------------------------------
(* No cursor passes a request that is allowed and not answered: for one    *)
(* process, where a provider serves either models or capabilities and      *)
(* nothing else, and no inherently idempotent call traps.  Without one of  *)
(* these the loop does pass such a request.                                *)

(* The providers the result is about: one that serves models and           *)
(* capabilities is given a model call past a capability that is not gated  *)
(* yet, one that subscribes to other events a later event past it, and a   *)
(* quarantine moves past an idempotent call without an answer.             *)
Separate ==
    /\ Mixed = {} /\ \A r \in Models, s \in Requests \ Models : Route[r] # Route[s]
    /\ Traps => Inherent = {}

(* The gate is through with the event at a position, and a cursor may      *)
(* pass it.                                                                *)
Capability(n) == log[n].kind = "request" /\ log[n].req \notin Models
GateDone(n) == Capability(n) => decided[log[n].req] # "none" \/ Answered(log[n].req)
Passable(n) ==
    /\ GateDone(n)
    /\ log[n].kind = "request" /\ (log[n].req \in Models \/ decided[log[n].req] = "allow")
         => Answered(log[n].req)

(* A provider may pass everything before a position.                       *)
Clear(p, n) == \A m \in 1..Len(log) : m < n /\ log[m].to = p => Passable(m)

(* The position of a request.                                              *)
On(n, r) == n \in 1..Len(log) /\ log[n].kind = "request" /\ log[n].req = r

(* A request is logged once, and allowed after that.                       *)
AskedOnce ==
    /\ \A m, n \in 1..Len(log) :
          log[m].kind = "request" /\ log[n].kind = "request" /\ log[m].req = log[n].req => m = n
    /\ \A r \in Requests : decided[r] = "allow" => Requested(r)

CursorClear ==
    \A p \in Providers :
        /\ cursor[p] <= Len(log) /\ Clear(p, cursor[p] + 1)
        /\ \A a \in Agents : ckpt[a][p] <= Len(log) /\ Clear(p, ckpt[a][p] + 1)

(* What is allowed was gated after everything before it.                   *)
GateOrder ==
    \A m, k \in 1..Len(log) :
        Capability(m) /\ decided[log[m].req] = "allow" /\ k < m => GateDone(k)

(* The gate goes through the log in order.                                 *)
GateFit(a, L, n, r) ==
    /\ gated[a] <= Len(log)
    /\ \A k \in 1..Len(log) : k <= gated[a] => GateDone(k) \/ (Gating(L) /\ n = k)
    /\ \A m \in page[a] :
         /\ gated[a] < m
         /\ \A k \in 1..Len(log) : gated[a] < k /\ k < m /\ Gateable(k) => k \in page[a]
    /\ Gating(L) =>
         /\ n \in 1..Len(log) /\ Capability(n) /\ log[n].req = r
         /\ \A k \in 1..Len(log) : k < n => GateDone(k)
GateFits == \A a \in Agents : GateFit(a, Left(act[a].steps), act[a].at, act[a].req)

(* Where a plan may move its provider's cursor to.                         *)
PlanAt(L, p, n, r) ==
    /\ L # {} /\ ~Gating(L) => n <= Len(log) /\ Clear(p, n)
    /\ ~Gating(L) /\ L \cap (Answers \cup {"spawn", "fail"}) # {} => On(n, r)
    /\ "cancelled" \in L => r \in Requests /\ (Clear(p, n + 1) \/ On(n, r))
    /\ "skip" \in L /\ L \cap (Answers \cup {"cancelled"}) = {} => Clear(p, n + 1)
    /\ "attempt" \in L => r \notin attempted
PlanPlace == \A a \in Agents : PlanAt(Left(act[a].steps), act[a].p, act[a].at, act[a].req)

WorkerAt(p, w) ==
    w # NoWorker => On(w.at, w.req) /\ Clear(p, w.at) /\ (w.phase = "trapped" => Traps)
WorkerPlace == \A a \in Agents, p \in Providers : WorkerAt(p, worker[a][p])

FailureAt(p, f) == f.at # 0 => On(f.at, f.req) /\ Clear(p, f.at)
FailurePlace == \A p \in Providers : FailureAt(p, failed[p])

PInv == /\ AskedOnce /\ CursorClear /\ GateOrder /\ GateFits
        /\ PlanPlace /\ WorkerPlace /\ FailurePlace

-----------------------------------------------------------------------------
(* What a step only adds to: the log, the answers, the first decisions.    *)
Kept ==
    /\ Len(log) <= Len(log') /\ \A n \in 1..Len(log) : log'[n] = log[n]
    /\ \A r \in Requests : /\ terminals[r] \subseteq terminals'[r]
                           /\ decided[r] # "none" => decided'[r] = decided[r]

(* A step that leaves them alone adds nothing.                             *)
LEMMA SameKept ==
    ASSUME UNCHANGED <<log, terminals, decided>>, IInv
    PROVE  Kept
BY DEF Kept, IInv, TypeOK

(* The gate does not take back what it did.                                *)
LEMMA DoneStable ==
    ASSUME IInv, Kept, NEW n \in 1..Len(log), GateDone(n)
    PROVE  GateDone(n)'
<1>1. log'[n] = log[n] /\ (log[n].kind = "request" => log[n].req \in Requests)
    BY DEF Kept, IInv, Readable
<1> QED BY <1>1 DEF Kept, GateDone, Capability, Answered

(* What may be passed may always be passed.                                *)
LEMMA PassStable ==
    ASSUME IInv, Kept, NEW n \in 1..Len(log), Passable(n)
    PROVE  Passable(n)'
<1>1. log'[n] = log[n] /\ (log[n].kind = "request" => log[n].req \in Requests)
    BY DEF Kept, IInv, Readable
<1>2. GateDone(n)'
    BY DoneStable DEF Passable
<1> QED BY <1>1, <1>2 DEF Kept, Passable, GateDone, Capability, Answered

(* And so everything before a position of the log.                         *)
LEMMA ClearStable ==
    ASSUME IInv, IInv', Kept, NEW p, NEW n \in Nat, n <= Len(log) + 1, Clear(p, n)
    PROVE  Clear(p, n)'
<1> SUFFICES ASSUME NEW m \in 1..Len(log'), m < n, log'[m].to = p
             PROVE  Passable(m)'
    BY DEF Clear
<1>1. m \in 1..Len(log) /\ log'[m] = log[m]
    BY DEF Kept, IInv, TypeOK
<1>2. Passable(m)
    BY <1>1 DEF Clear
<1> QED BY <1>1, <1>2, PassStable

(* A request stays where it is.                                            *)
LEMMA OnStable ==
    ASSUME IInv, IInv', Kept, NEW n, NEW r, On(n, r)
    PROVE  On(n, r)' /\ n \in 1..Len(log) /\ n \in Nat /\ n <= Len(log) + 1 /\ Len(log) \in Nat
BY DEF On, Kept, IInv, TypeOK

(* A request at a position that may be passed up to may be passed once it  *)
(* has an answer.                                                          *)
LEMMA PassOne ==
    ASSUME IInv', NEW p, NEW n, NEW r, Clear(p, n)', On(n, r)', Answered(r)'
    PROVE  Clear(p, n + 1)'
<1>1. Passable(n)' /\ n \in Nat
    BY DEF On, Passable, GateDone, IInv, TypeOK
<1>2. \A m \in 1..Len(log') : m < n + 1 => m < n \/ m = n
    BY <1>1 DEF IInv, TypeOK
<1> QED BY <1>1, <1>2 DEF Clear

(* Cursors that stay, or move to where they may.                           *)
LEMMA CursorStays ==
    ASSUME IInv, IInv', Kept, CursorClear,
           \A p \in Providers : \/ cursor'[p] = cursor[p]
                                \/ cursor'[p] <= Len(log') /\ Clear(p, cursor[p] + 1)',
           \A a \in Agents, p \in Providers :
               \/ ckpt'[a][p] = ckpt[a][p] \/ ckpt'[a][p] = cursor[p] \/ ckpt'[a][p] = 0
               \/ ckpt'[a][p] <= Len(log') /\ Clear(p, ckpt[a][p] + 1)'
    PROVE  CursorClear'
<1>1. \A p \in Providers : cursor[p] \in Nat /\ cursor'[p] \in Nat
    BY DEF IInv, TypeOK
<1>2. \A a \in Agents, p \in Providers : ckpt[a][p] \in Nat /\ ckpt'[a][p] \in Nat
    BY DEF IInv, TypeOK
<1>3. Len(log) \in Nat /\ Len(log') \in Nat /\ Len(log) <= Len(log')
    BY DEF IInv, TypeOK, Kept
<1>4. \A p \in Providers, n \in Nat : n <= Len(log) /\ Clear(p, n + 1) => Clear(p, n + 1)'
    BY <1>3, ClearStable
<1>5. \A p \in Providers : Clear(p, 0 + 1)'
    BY <1>3 DEF Clear
<1>6. ASSUME NEW p \in Providers
      PROVE  cursor'[p] <= Len(log') /\ Clear(p, cursor[p] + 1)'
    BY <1>1, <1>3, <1>4, <1>6 DEF CursorClear
<1>7. ASSUME NEW p \in Providers, NEW a \in Agents
      PROVE  ckpt'[a][p] <= Len(log') /\ Clear(p, ckpt[a][p] + 1)'
    BY <1>1, <1>2, <1>3, <1>4, <1>5, <1>7 DEF CursorClear
<1> QED BY <1>6, <1>7 DEF CursorClear

(* Decisions that stay.                                                    *)
LEMMA OrderStays ==
    ASSUME IInv, IInv', Kept, AskedOnce, GateOrder, UNCHANGED <<log, decided>>
    PROVE  GateOrder' /\ AskedOnce'
<1>1. GateOrder'
    BY DoneStable DEF GateOrder, Capability
<1>2. AskedOnce'
    BY DEF AskedOnce, Requested
<1> QED BY <1>1, <1>2

(* The gate's place stays, or its plan is done.                            *)
LEMMA GateStays ==
    ASSUME IInv, IInv', Kept, GateFits, NEW a \in Agents, UNCHANGED <<page, gated>>,
           Gating(Left(act'[a].steps)) => /\ Gating(Left(act[a].steps))
                                          /\ act'[a].at = act[a].at /\ act'[a].req = act[a].req,
           Gating(Left(act[a].steps)) =>
               \/ Gating(Left(act'[a].steps)) /\ act'[a].at = act[a].at
               \/ \A n \in 1..Len(log) : n = act[a].at => GateDone(n)'
    PROVE  GateFit(a, Left(act[a].steps), act[a].at, act[a].req)'
<1> DEFINE L == Left(act[a].steps)
           M == Left(act'[a].steps)
<1>1. GateFit(a, L, act[a].at, act[a].req)
    BY DEF GateFits
<1>2. /\ Len(log) \in Nat /\ Len(log') \in Nat /\ Len(log) <= Len(log') /\ gated[a] \in Nat
      /\ page[a] \in SUBSET Nat /\ \A n \in page[a] : n \in 1..Len(log)
      /\ \A n \in 1..Len(log) : log'[n] = log[n]
    BY DEF IInv, TypeOK, Readable, Kept
<1>3. \A n \in 1..Len(log) : GateDone(n) => GateDone(n)'
    BY DoneStable
<1> HIDE DEF L, M
<1>4. \A k \in 1..Len(log') : k <= gated'[a] => GateDone(k)' \/ (Gating(M) /\ act'[a].at = k)
    BY <1>1, <1>2, <1>3 DEF GateFit, L, M
<1>5. \A m \in page'[a] :
         /\ gated'[a] < m
         /\ \A k \in 1..Len(log') : gated'[a] < k /\ k < m /\ Gateable(k)' => k \in page'[a]
    <2> SUFFICES ASSUME NEW m \in page[a], NEW k \in 1..Len(log'), gated[a] < k, k < m, Gateable(k)'
                 PROVE  k \in page[a]
        BY <1>1 DEF GateFit
    <2>1. k \in 1..Len(log)
        BY <1>2
    <2> QED BY <1>1, <1>2, <2>1 DEF GateFit, Gateable
<1>6. Gating(M) =>
         /\ act'[a].at \in 1..Len(log') /\ Capability(act[a].at)' /\ log'[act'[a].at].req = act'[a].req
         /\ \A k \in 1..Len(log') : k < act'[a].at => GateDone(k)'
    <2> SUFFICES ASSUME Gating(M) PROVE <1>6!2
        OBVIOUS
    <2>1. /\ act[a].at \in 1..Len(log) /\ Capability(act[a].at) /\ log[act[a].at].req = act[a].req
          /\ \A k \in 1..Len(log) : k < act[a].at => GateDone(k)
          /\ act'[a].at = act[a].at /\ act'[a].req = act[a].req
        BY <1>1 DEF GateFit, L, M
    <2>2. log'[act[a].at] = log[act[a].at]
        BY <1>2, <2>1
    <2>3. \A k \in 1..Len(log') : k < act[a].at => k \in 1..Len(log)
        BY <1>2, <2>1
    <2> QED BY <1>2, <1>3, <2>1, <2>2, <2>3 DEF Capability
<1>7. gated'[a] <= Len(log')
    BY <1>1, <1>2 DEF GateFit
<1> QED BY <1>4, <1>5, <1>6, <1>7 DEF GateFit, M

(* A plan that goes on.                                                    *)
LEMMA PlanGoesOn ==
    ASSUME IInv, IInv', Kept, NEW L, NEW M, M \subseteq L, NEW p, NEW n \in Nat, NEW r,
           PlanAt(L, p, n, r),
           attempted' = attempted \/ "attempt" \notin M,
           "skip" \in M /\ M \cap (Answers \cup {"cancelled"}) = {} =>
               L \cap (Answers \cup {"cancelled"}) = {} \/ Clear(p, n + 1)'
    PROVE  PlanAt(M, p, n, r)'
<1>1. Len(log) \in Nat /\ Len(log') \in Nat /\ Len(log) <= Len(log')
    BY DEF IInv, TypeOK, Kept
<1>2. M # {} /\ ~Gating(M) => L # {} /\ ~Gating(L)
    BY DEF Gating
<1>3. \A x : x \in M => x \in L
    OBVIOUS
<1>4. L # {} /\ ~Gating(L) =>
          /\ n <= Len(log') /\ Clear(p, n)'
          /\ Clear(p, n + 1) => Clear(p, n + 1)'
    BY <1>1, ClearStable DEF PlanAt
<1>5. On(n, r) => On(n, r)'
    BY OnStable
<1>6. "cancelled" \in M \/ "skip" \in M => L # {} /\ ~Gating(L)
    BY DEF Gating
<1>7. M # {} /\ ~Gating(M) => n <= Len(log') /\ Clear(p, n)'
    BY <1>2, <1>4
<1>8. ~Gating(M) /\ M \cap (Answers \cup {"spawn", "fail"}) # {} => On(n, r)'
    BY <1>2, <1>3, <1>5 DEF PlanAt
<1>9. "cancelled" \in M => r \in Requests /\ (Clear(p, n + 1)' \/ On(n, r)')
    BY <1>3, <1>4, <1>5, <1>6 DEF PlanAt
<1>10. "skip" \in M /\ M \cap (Answers \cup {"cancelled"}) = {} => Clear(p, n + 1)'
    BY <1>3, <1>4, <1>6 DEF PlanAt
<1>11. "attempt" \in M => r \notin attempted'
    BY <1>3 DEF PlanAt
<1> QED BY <1>7, <1>8, <1>9, <1>10, <1>11 DEF PlanAt

(* Plans that stay.                                                        *)
LEMMA ActStays ==
    ASSUME IInv, IInv', Kept, PlanPlace, UNCHANGED <<act, attempted>>
    PROVE  PlanPlace'
<1> SUFFICES ASSUME NEW a \in Agents
             PROVE  PlanAt(Left(act[a].steps), act[a].p, act[a].at, act[a].req)'
    BY DEF PlanPlace
<1>1. PlanAt(Left(act[a].steps), act[a].p, act[a].at, act[a].req) /\ act[a].at \in Nat
    BY DEF PlanPlace, IInv, TypeOK, Act, NoAct
<1> DEFINE L == Left(act[a].steps)
           p == act[a].p
           n == act[a].at
           r == act[a].req
<1>2. \A M : M = L => PlanAt(M, p, n, r)'
    BY <1>1, PlanGoesOn
<1> QED BY <1>2

(* Workers that keep their place, are gone, or were given one.             *)
LEMMA WorkersStay ==
    ASSUME IInv, IInv', Kept, WorkerPlace,
           \A a \in Agents, p \in Providers :
               \/ worker'[a][p] = worker[a][p] \/ worker'[a][p] = NoWorker
               \/ /\ worker[a][p] # NoWorker
                  /\ worker'[a][p].at = worker[a][p].at /\ worker'[a][p].req = worker[a][p].req
                  /\ worker'[a][p].phase = "trapped" => Traps
               \/ WorkerAt(p, worker[a][p])'
    PROVE  WorkerPlace'
<1> SUFFICES ASSUME NEW a \in Agents, NEW p \in Providers
             PROVE  WorkerAt(p, worker[a][p])'
    BY DEF WorkerPlace
<1>1. WorkerAt(p, worker[a][p])
    BY DEF WorkerPlace
<1>2. worker[a][p] # NoWorker => On(worker[a][p].at, worker[a][p].req) /\ Clear(p, worker[a][p].at)
                                /\ (worker[a][p].phase = "trapped" => Traps)
    BY <1>1 DEF WorkerAt
<1>3. \A n, r : On(n, r) /\ Clear(p, n) => On(n, r)' /\ Clear(p, n)'
    BY OnStable, ClearStable
<1> QED BY <1>2, <1>3 DEF WorkerAt

(* Failures that stay, are forgotten, or are recorded where they may.      *)
LEMMA FailuresStay ==
    ASSUME IInv, IInv', Kept, FailurePlace,
           \A p \in Providers : \/ failed'[p] = failed[p] \/ failed'[p].at = 0
                                \/ FailureAt(p, failed[p])'
    PROVE  FailurePlace'
<1> SUFFICES ASSUME NEW p \in Providers
             PROVE  FailureAt(p, failed[p])'
    BY DEF FailurePlace
<1>1. FailureAt(p, failed[p])
    BY DEF FailurePlace
<1>2. \A n, r : On(n, r) /\ Clear(p, n) => On(n, r)' /\ Clear(p, n)'
    BY OnStable, ClearStable
<1> QED BY <1>1, <1>2 DEF FailureAt

(* A failure that is forgotten has no position.                            *)
LEMMA HealthyAt ==
    ASSUME NEW f \in Failure
    PROVE  Healthy(f).at = 0
BY DEF Healthy, Failure

(* The log grows by something new.                                         *)
LEMMA GrowsPlaces ==
    ASSUME IInv, IInv', PInv, NEW i \in Item, log' = Append(log, i),
           i.kind = "request" => i.req \in Requests /\ ~Requested(i.req),
           UNCHANGED <<cursor, decided, attempted, terminals, failed, volatile>>
    PROVE  PInv'
<1>1. UNCHANGED <<page, gated, act, ckpt, worker>>
    BY DEF volatile, loop
<1>2. /\ Len(log') = Len(log) + 1 /\ Len(log) \in Nat /\ log'[Len(log) + 1] = i
      /\ \A n \in 1..Len(log) : log'[n] = log[n]
      /\ \A n \in 1..Len(log') : n \in 1..Len(log) \/ n = Len(log) + 1
    BY DEF IInv, TypeOK
<1>3. Kept
    BY <1>2 DEF Kept
<1>4. i.kind = "request" => /\ \A n \in 1..Len(log) : log[n].kind = "request" => log[n].req # i.req
                            /\ decided[i.req] # "allow"
    BY DEF PInv, AskedOnce, Requested
<1>5. AskedOnce'
    <2>1. \A r \in Requests : Requested(r) => Requested(r)'
        BY <1>2 DEF Requested
    <2>2. \A m, n \in 1..Len(log') :
              log'[m].kind = "request" /\ log'[n].kind = "request" /\ log'[m].req = log'[n].req => m = n
        BY <1>2, <1>4 DEF PInv, AskedOnce
    <2> QED BY <2>1, <2>2 DEF PInv, AskedOnce
<1>6. GateOrder'
    <2> SUFFICES ASSUME NEW m \in 1..Len(log'), NEW k \in 1..Len(log'),
                        Capability(m)', decided'[log'[m].req] = "allow", k < m
                 PROVE  GateDone(k)'
        BY DEF GateOrder
    <2>1. m \in 1..Len(log) /\ k \in 1..Len(log)
        BY <1>2, <1>4 DEF Capability
    <2>2. GateDone(k)
        BY <1>2, <2>1 DEF PInv, GateOrder, Capability
    <2> QED BY <1>3, <2>1, <2>2, DoneStable
<1>7. CursorClear'
    BY <1>1, <1>3, CursorStays DEF PInv
<1>8. GateFits'
    BY <1>1, <1>3, GateStays DEF PInv, GateFits
<1>9. PlanPlace'
    BY <1>1, <1>3, ActStays DEF PInv
<1>10. WorkerPlace' /\ FailurePlace'
    BY <1>1, <1>3, WorkersStay, FailuresStay DEF PInv
<1> QED BY <1>5, <1>6, <1>7, <1>8, <1>9, <1>10 DEF PInv

(* What the invariant reads stays as it was.                               *)
LEMMA SamePlaces ==
    ASSUME IInv, IInv', PInv, Kept,
           UNCHANGED <<log, decided, cursor, attempted, page, gated, act, ckpt, worker>>,
           \A p \in Providers : failed'[p] = failed[p] \/ failed'[p].at = 0
    PROVE  PInv'
<1>1. AskedOnce' /\ GateOrder'
    BY OrderStays DEF PInv
<1>2. CursorClear'
    BY CursorStays DEF PInv
<1>3. GateFits'
    BY GateStays DEF PInv, GateFits
<1>4. PlanPlace'
    BY ActStays DEF PInv
<1>5. WorkerPlace' /\ FailurePlace'
    BY WorkersStay, FailuresStay DEF PInv
<1> QED BY <1>1, <1>2, <1>3, <1>4, <1>5 DEF PInv

(* Cognition, the clock and the operator pass over nothing.                *)
LEMMA WorldPlaces ==
    ASSUME IInv, IInv', PInv, WorldStep
    PROVE  PInv'
<1>1. ASSUME NEW r \in Requests, Ask(r) PROVE PInv'
    <2>1. [kind |-> "request", req |-> r, to |-> Route[r]] \in Item
        BY DispatchAssumption DEF Item
    <2> QED BY <1>1, <2>1, GrowsPlaces DEF Ask
<1>2. ASSUME NEW r \in Requests, AskCancel(r) PROVE PInv'
    <2>1. [kind |-> "cancel", req |-> r, to |-> None] \in Item
        BY DEF Item
    <2> QED BY <1>2, <2>1, GrowsPlaces DEF AskCancel
<1>3. ASSUME NEW p \in Mixed \cup {None}, Note(p) PROVE PInv'
    <2>1. [kind |-> "note", req |-> None, to |-> p] \in Item
        BY DispatchAssumption DEF Item
    <2> QED BY <1>3, <2>1, GrowsPlaces DEF Note
<1>4. ASSUME \/ \E r \in Requests : PassDeadline(r)
             \/ \E p \in Providers : Elapse(p) \/ Recover(p)
             \/ Observe \/ Consume
      PROVE  PInv'
    <2>1. UNCHANGED <<log, decided, cursor, attempted, terminals, volatile>>
        BY <1>4 DEF PassDeadline, Elapse, Recover, Observe, Consume, store
    <2>2. \A p \in Providers : failed'[p] = failed[p] \/ failed'[p].at = 0
        <3>1. failed' = failed \/ \E p \in Providers : failed' = [failed EXCEPT ![p] = Healthy(@)]
            BY <1>4 DEF PassDeadline, Elapse, Recover, Observe, Consume, store
        <3> QED BY <3>1, HealthyAt DEF IInv, TypeOK
    <2>3. Kept
        BY <2>1, SameKept
    <2> QED BY <2>1, <2>2, <2>3, SamePlaces DEF volatile, loop
<1> QED BY <1>1, <1>2, <1>3, <1>4 DEF WorldStep

(* A pass moves on to its next part.                                       *)
LEMMA TurnPlaces ==
    ASSUME IInv, IInv', PInv, NEW a \in Agents,
           Start(a) \/ EndInstall(a) \/ EndGate(a) \/ EndPass(a)
    PROVE  PInv'
<1>1. /\ UNCHANGED <<log, decided, cursor, attempted, page, gated, act, ckpt, worker>>
      /\ UNCHANGED <<terminals, failed>>
    BY DEF Start, EndInstall, EndGate, EndPass, store
<1> QED BY <1>1, SameKept, SamePlaces

(* A page of the gate holds everything up to its last event.               *)
LEMMA PageFits ==
    ASSUME IInv, NEW a \in Agents, NEW m \in NextPage(a), NEW k \in 1..Len(log),
           gated[a] < k, k < m, Gateable(k)
    PROVE  k \in NextPage(a)
<1> DEFINE new == {n \in (gated[a] + 1)..Len(log) :
                      log[n].kind = "cancel" \/ (log[n].kind = "request" /\ log[n].req \notin Models)}
           upto(n) == {j \in new : j <= n}
<1>1. gated[a] \in Nat /\ Len(log) \in Nat /\ Batch \in Nat
    BY DispatchAssumption DEF IInv, TypeOK
<1>2. m \in new /\ Cardinality(upto(m)) <= Batch
    BY DEF NextPage
<1>3. k \in new
    BY <1>1 DEF Gateable
<1>4. upto(k) \subseteq upto(m) /\ upto(m) \subseteq (gated[a] + 1)..Len(log)
    BY <1>1, <1>2, <1>3
<1> HIDE DEF new, upto
<1>5. IsFiniteSet((gated[a] + 1)..Len(log))
    <2>1. gated[a] + 1 \in Int /\ Len(log) \in Int
        BY <1>1
    <2> QED BY <2>1, FS_Interval, Zenon
<1>6. IsFiniteSet(upto(m))
    BY <1>4, <1>5, FS_Subset
<1>7. /\ Cardinality(upto(k)) <= Cardinality(upto(m))
      /\ Cardinality(upto(k)) \in Nat /\ Cardinality(upto(m)) \in Nat
    BY <1>4, <1>6, FS_Subset, FS_CardinalityType
<1>8. Cardinality(upto(k)) <= Batch
    BY <1>1, <1>2, <1>7
<1> QED BY <1>3, <1>8 DEF NextPage, new, upto

(* The gate reads the next page.                                           *)
LEMMA EndCollectPlaces ==
    ASSUME OneProcess, IInv, IInv', PInv, NEW a \in Agents, EndCollect(a)
    PROVE  PInv'
<1>1. /\ UNCHANGED <<log, decided, cursor, attempted, terminals, failed, gated, act, ckpt, worker>>
      /\ page'[a] = NextPage(a) /\ Free(a)
    BY DEF EndCollect, store, IInv, TypeOK
<1>2. Kept
    BY <1>1, SameKept
<1>3. AskedOnce' /\ GateOrder' /\ CursorClear'
    BY <1>1, <1>2, OrderStays, CursorStays DEF PInv
<1>4. GateFits'
    <2>1. /\ Left(act'[a].steps) = {} /\ ~Gating({})
        BY <1>1, Idle DEF Gating
    <2>2. GateFit(a, {}, act[a].at, act[a].req)
        BY <1>1, <2>1 DEF PInv, GateFits
    <2>3. \A m \in NextPage(a) : gated[a] < m
        BY DEF NextPage, IInv, TypeOK
    <2>4. \A m \in NextPage(a) : \A k \in 1..Len(log) :
              gated[a] < k /\ k < m /\ Gateable(k) => k \in NextPage(a)
        BY PageFits
    <2>5. \A k \in 1..Len(log) : k <= gated[a] => GateDone(k)'
        BY <1>2, <2>1, <2>2, DoneStable DEF GateFit
    <2>6. gated[a] <= Len(log)
        BY <2>2 DEF GateFit
    <2>7. GateFit(a, Left(act[a].steps), act[a].at, act[a].req)'
        BY <1>1, <2>1, <2>3, <2>4, <2>5, <2>6 DEF GateFit, Gateable
    <2> QED BY <2>7 DEF GateFits, OneProcess
<1>5. PlanPlace' /\ WorkerPlace' /\ FailurePlace'
    BY <1>1, <1>2, ActStays, WorkersStay, FailuresStay DEF PInv
<1> QED BY <1>3, <1>4, <1>5 DEF PInv

(* A process dies; the database stays.                                     *)
LEMMA DownPlaces ==
    ASSUME OneProcess, IInv, IInv', PInv, NEW a \in Agents, Down(a), UNCHANGED store
    PROVE  PInv'
<1>1. /\ UNCHANGED <<log, decided, cursor, attempted, terminals, failed>>
      /\ act'[a] = NoAct /\ page'[a] = {} /\ gated'[a] = 0
      /\ \A p \in Providers : worker'[a][p] = NoWorker /\ ckpt'[a][p] = 0
    BY DEF Down, store, IInv, TypeOK
<1>2. Left(act'[a].steps) = {} /\ ~Gating({})
    BY <1>1, LeftOf DEF NoAct, Gating
<1>3. Kept
    BY <1>1, SameKept
<1>4. \A b \in Agents : b = a
    BY DEF OneProcess
<1>5. AskedOnce' /\ GateOrder'
    BY <1>1, <1>3, OrderStays DEF PInv
<1>6. CursorClear'
    BY <1>1, <1>3, <1>4, CursorStays DEF PInv
<1>7. GateFits'
    <2>1. Len(log') \in Nat
        BY DEF IInv, TypeOK
    <2>2. GateFit(a, Left(act[a].steps), act[a].at, act[a].req)'
        BY <1>1, <1>2, <2>1 DEF GateFit
    <2> QED BY <1>4, <2>2 DEF GateFits
<1>8. PlanPlace'
    BY <1>2, <1>4 DEF PlanPlace, PlanAt
<1>9. WorkerPlace' /\ FailurePlace'
    BY <1>1, <1>3, <1>4, WorkersStay, FailuresStay DEF PInv
<1> QED BY <1>5, <1>6, <1>7, <1>8, <1>9 DEF PInv

(* The next append of a plan, where it leaves the plan.                    *)
LEMMA NextPlaces ==
    ASSUME OneProcess, IInv, IInv', PInv, Kept, NEW a \in Agents, NEW step, Doing(a, step),
           act' = Then(a, Rest(a)), UNCHANGED <<log, page, gated>>,
           step \in Answers \cup {"cancelled"} =>
               \A p, n : p = act[a].p /\ n = act[a].at /\ "skip" \in Left(act'[a].steps)
                         => Clear(p, n + 1)',
           step \in {"allow", "refuse"} \cup Answers =>
               \A n \in 1..Len(log) : n = act[a].at /\ Gating(Left(act[a].steps)) => GateDone(n)'
    PROVE  GateFits' /\ PlanPlace'
<1> DEFINE L == Left(act[a].steps)
           M == Left(act'[a].steps)
<1>1. /\ act[a] \in Act /\ act[a].steps \in Plans /\ Head(act[a].steps) = step
      /\ act'[a].steps = Tail(act[a].steps)
      /\ L = {step} \cup M
      /\ M # {} => /\ act'[a].req = act[a].req
                   /\ act'[a].p = act[a].p /\ act'[a].at = act[a].at
    BY Rests
<1>2. (Gating(M) => Gating(L)) /\ "attempt" \notin M
    BY <1>1, PlanLeft
<1>3. Gating(L) => step \in {"allow", "refuse"} \cup Answers
    BY <1>1 DEF Gating, Answers
<1>4. \A b \in Agents : b = a
    BY DEF OneProcess
<1>5. GateFits'
    <2>1. Gating(M) => Gating(L) /\ act'[a].at = act[a].at /\ act'[a].req = act[a].req
        BY <1>1, <1>2 DEF Gating
    <2>2. Gating(L) => \A n \in 1..Len(log) : n = act[a].at => GateDone(n)'
        BY <1>3
    <2>3. GateFit(a, Left(act[a].steps), act[a].at, act[a].req)'
        BY <2>1, <2>2, GateStays DEF PInv
    <2> QED BY <1>4, <2>3 DEF GateFits
<1>6. PlanPlace'
    <2>1. CASE M = {}
        BY <1>4, <2>1 DEF PlanPlace, PlanAt
    <2>2. CASE M # {}
        <3> DEFINE At(p, n, r) == p = act[a].p /\ n = act[a].at /\ r = act[a].req
        <3>1. PlanAt(L, act[a].p, act[a].at, act[a].req) /\ act[a].at \in Nat
            BY <1>1 DEF PInv, PlanPlace, Act
        <3>2. ASSUME NEW p, NEW n, NEW r, At(p, n, r), NEW X, X = L, NEW Y, Y = M
              PROVE  PlanAt(Y, p, n, r)'
            <4>1. PlanAt(X, p, n, r) /\ n \in Nat /\ Y \subseteq X /\ "attempt" \notin Y
                BY <1>1, <1>2, <3>1, <3>2
            <4>2. "skip" \in Y /\ Y \cap (Answers \cup {"cancelled"}) = {} =>
                      X \cap (Answers \cup {"cancelled"}) = {} \/ Clear(p, n + 1)'
                <5>1. CASE step \in Answers \cup {"cancelled"}
                    BY <3>2, <5>1
                <5>2. CASE step \notin Answers \cup {"cancelled"}
                    BY <1>1, <3>2, <5>2
                <5> QED BY <5>1, <5>2
            <4> HIDE DEF L, M, At
            <4> QED BY <4>1, <4>2, PlanGoesOn
        <3>3. PlanAt(Left(act[a].steps), act[a].p, act[a].at, act[a].req)'
            BY <1>1, <2>2, <3>2
        <3> QED BY <1>4, <3>3 DEF PlanPlace
    <2> QED BY <2>1, <2>2
<1> QED BY <1>5, <1>6

(* The first decision about a request is recorded after those before it.   *)
LEMMA DecidePlaces ==
    ASSUME OneProcess, IInv, IInv', PInv, NEW a \in Agents, Decide(a)
    PROVE  PInv'
<1> DEFINE r == act[a].req
           n == act[a].at
<1>1. PICK step \in {"allow", "refuse"} : Doing(a, step)
    BY DEF Decide
<1>2. /\ act' = Then(a, Rest(a))
      /\ decided' = [decided EXCEPT ![r] =
             IF @ # "none" THEN @ ELSE IF Doing(a, "allow") THEN "allow" ELSE "deny"]
      /\ UNCHANGED <<log, cursor, attempted, terminals, failed, page, gated, ckpt, worker>>
    BY DEF Decide, loop
<1>3. act[a] \in Act /\ act[a].steps \in Plans /\ Head(act[a].steps) = step
    BY <1>1, <1>2, Rests
<1>4. Gating(Left(act[a].steps))
    BY <1>1, <1>3, PlanLeft
<1>5. /\ n \in 1..Len(log) /\ Capability(n) /\ log[n].req = r
      /\ \A k \in 1..Len(log) : k < n => GateDone(k)
    BY <1>4 DEF PInv, GateFits, GateFit
<1>6. r \in Requests /\ decided \in [Requests -> {"none", "allow", "deny"}]
    BY <1>5 DEF Capability, IInv, Readable, TypeOK
<1> HIDE DEF r, n
<1>7. /\ \A x \in Requests : x # r => decided'[x] = decided[x]
      /\ decided'[r] # "none" /\ (decided[r] # "none" => decided'[r] = decided[r])
    BY <1>2, <1>6
<1>8. Kept
    BY <1>2, <1>7 DEF Kept, IInv, TypeOK
<1>9. AskedOnce'
    <2>1. Requested(r)
        BY <1>5 DEF Requested, Capability
    <2> QED BY <1>2, <1>7, <2>1 DEF PInv, AskedOnce, Requested
<1>10. GateOrder'
    <2> SUFFICES ASSUME NEW m \in 1..Len(log), NEW k \in 1..Len(log),
                        Capability(m), decided'[log[m].req] = "allow", k < m
                 PROVE  GateDone(k)'
        BY <1>2 DEF GateOrder, Capability
    <2>1. CASE log[m].req = r
        <3>1. m = n
            BY <1>5, <2>1 DEF PInv, AskedOnce, Capability
        <3> QED BY <1>5, <1>8, <3>1, DoneStable
    <2>2. CASE log[m].req # r
        <3>1. decided[log[m].req] = "allow"
            BY <1>7, <2>2 DEF Capability, IInv, Readable
        <3> QED BY <1>8, <3>1, DoneStable DEF PInv, GateOrder
    <2> QED BY <2>1, <2>2
<1>11. CursorClear'
    BY <1>2, <1>8, CursorStays DEF PInv
<1>12. GateFits' /\ PlanPlace'
    <2>1. ASSUME NEW m \in 1..Len(log), m = act[a].at PROVE GateDone(m)'
        <3>1. log[m].req = r
            BY <1>5, <2>1 DEF n
        <3> QED BY <1>2, <1>7, <3>1 DEF GateDone
    <2>2. step \notin Answers \cup {"cancelled"}
        BY DEF Answers
    <2> QED BY <1>1, <1>2, <1>8, <2>1, <2>2, NextPlaces
<1>13. WorkerPlace' /\ FailurePlace'
    BY <1>2, <1>8, WorkersStay, FailuresStay DEF PInv
<1> QED BY <1>9, <1>10, <1>11, <1>12, <1>13 DEF PInv

(* An answer lets the cursor pass its request.                             *)
LEMMA AnswerPlaces ==
    ASSUME OneProcess, IInv, IInv', PInv, NEW a \in Agents, Answer(a)
    PROVE  PInv'
<1> DEFINE r == act[a].req
           L == Left(act[a].steps)
<1>1. PICK t \in Answers \cup {"cancelled"} : Doing(a, t) /\ terminals' = Settled(r, t)
    BY DEF Answer, Answers
<1>2. /\ act' = Then(a, Rest(a))
      /\ UNCHANGED <<log, decided, cursor, attempted, failed, page, gated, ckpt, worker>>
    BY DEF Answer, loop
<1>3. /\ act[a] \in Act /\ L = {t} \cup Left(act'[a].steps)
    BY <1>1, <1>2, Rests
<1>4. r \in Requests \cup {None} /\ act[a].at \in Nat /\ terminals \in [Requests -> SUBSET Terminal]
    BY <1>3 DEF Act, IInv, TypeOK
<1>5. /\ \A x \in Requests : terminals[x] \subseteq terminals'[x]
      /\ r \in Requests => terminals'[r] # {}
    BY <1>1, <1>4, DispatchAssumption DEF Settled, Answered
<1>6. Kept
    BY <1>2, <1>5 DEF Kept, IInv, TypeOK
<1>7. AskedOnce' /\ GateOrder' /\ CursorClear'
    BY <1>2, <1>6, OrderStays, CursorStays DEF PInv
<1>8. WorkerPlace' /\ FailurePlace'
    BY <1>2, <1>6, WorkersStay, FailuresStay DEF PInv
<1>9. ASSUME NEW p, NEW n, p = act[a].p, n = act[a].at, "skip" \in Left(act'[a].steps)
      PROVE  Clear(p, n + 1)'
    <2>1. L # {} /\ ~Gating(L) /\ t \in L
        BY <1>3, <1>9 DEF Gating
    <2>2. PlanAt(L, p, n, r)
        BY <1>9 DEF PInv, PlanPlace
    <2> HIDE DEF L, r
    <2>3. n \in Nat /\ n <= Len(log) /\ Len(log) \in Nat /\ Clear(p, n)
        BY <1>4, <1>9, <2>1, <2>2 DEF PlanAt, IInv, TypeOK
    <2>4. Clear(p, n)' /\ (Clear(p, n + 1) => Clear(p, n + 1)')
        BY <1>6, <2>3, ClearStable
    <2>5. On(n, r) \/ Clear(p, n + 1)
        BY <2>1, <2>2 DEF PlanAt
    <2>6. \A x : x = r /\ On(n, x)' /\ x \in Requests => Clear(p, n + 1)'
        BY <1>5, <2>4, PassOne DEF Answered
    <2>7. \A x : x = r /\ On(n, r) => On(n, x)' /\ x \in Requests
        BY <1>6, OnStable DEF On, IInv, Readable
    <2> QED BY <2>4, <2>5, <2>6, <2>7
<1>10. ASSUME NEW n \in 1..Len(log), n = act[a].at, Gating(L)
       PROVE  GateDone(n)'
    <2>1. Capability(n) /\ log[n].req = r
        BY <1>10 DEF PInv, GateFits, GateFit
    <2>2. r \in Requests
        BY <2>1 DEF Capability, IInv, Readable
    <2> QED BY <1>2, <1>5, <2>1, <2>2 DEF GateDone, Answered
<1>11. GateFits' /\ PlanPlace'
    BY <1>1, <1>2, <1>6, <1>9, <1>10, NextPlaces
<1> QED BY <1>7, <1>8, <1>11 DEF PInv

(* The other appends.                                                      *)
LEMMA AppendPlaces ==
    ASSUME OneProcess, IInv, IInv', PInv, NEW a \in Agents, NEW step, Doing(a, step),
           act' = Then(a, Rest(a)),
           step \notin {"allow", "refuse", "cancelled"} \cup Answers,
           UNCHANGED <<log, decided, terminals, page, gated>>
    PROVE  Kept /\ AskedOnce' /\ GateOrder' /\ GateFits' /\ PlanPlace'
<1>1. Kept
    BY SameKept
<1>2. AskedOnce' /\ GateOrder'
    BY <1>1, OrderStays DEF PInv
<1>3. GateFits' /\ PlanPlace'
    BY <1>1, NextPlaces
<1> QED BY <1>1, <1>2, <1>3

(* An unknown outcome, a restart and a recovery.                           *)
LEMMA PlainPlaces ==
    ASSUME OneProcess, IInv, IInv', PInv, NEW a \in Agents,
           MarkUnknown(a) \/ Restart(a) \/ MarkRecovered(a)
    PROVE  PInv'
<1>1. PICK step \in {"unknown", "restart", "recovered"} : Doing(a, step)
    BY DEF MarkUnknown, Restart, MarkRecovered
<1>2. /\ act' = Then(a, Rest(a)) /\ UNCHANGED <<log, decided, terminals, page, gated>>
      /\ UNCHANGED <<cursor, worker>>
      /\ ckpt' = ckpt \/ ckpt' = [ckpt EXCEPT ![a][act[a].p] = cursor[act[a].p]]
      /\ failed' = failed \/ failed' = [failed EXCEPT ![act[a].p] = Healthy(@)]
    BY DEF MarkUnknown, Restart, MarkRecovered, Resume, loop, store
<1>3. step \notin {"allow", "refuse", "cancelled"} \cup Answers
    BY DEF Answers
<1>4. Kept /\ AskedOnce' /\ GateOrder' /\ GateFits' /\ PlanPlace'
    BY <1>1, <1>2, <1>3, AppendPlaces
<1>5. \A b \in Agents, p \in Providers : ckpt'[b][p] = ckpt[b][p] \/ ckpt'[b][p] = cursor[p]
    <2>1. CASE ckpt' = ckpt
        BY <2>1
    <2>2. CASE ckpt' = [ckpt EXCEPT ![a][act[a].p] = cursor[act[a].p]]
        <3>1. ckpt \in [Agents -> [Providers -> Nat]]
            BY DEF IInv, TypeOK
        <3> QED BY <2>2, <3>1
    <2> QED BY <1>2, <2>1, <2>2
<1>6. \A p \in Providers : failed'[p] = failed[p] \/ failed'[p].at = 0
    BY <1>2, HealthyAt DEF IInv, TypeOK
<1>7. CursorClear' /\ WorkerPlace' /\ FailurePlace'
    BY <1>2, <1>4, <1>5, <1>6, CursorStays, WorkersStay, FailuresStay DEF PInv
<1> QED BY <1>4, <1>7 DEF PInv

(* A failure is recorded where its request is.                             *)
LEMMA MarkFailedPlaces ==
    ASSUME OneProcess, IInv, IInv', PInv, NEW a \in Agents, MarkFailed(a)
    PROVE  PInv'
<1>1. /\ Doing(a, "fail") /\ act' = Then(a, Rest(a)) /\ "fail" \notin Answers
      /\ UNCHANGED <<log, decided, terminals, page, gated, cursor, worker, ckpt>>
    BY DEF MarkFailed, Answers
<1>2. Kept /\ AskedOnce' /\ GateOrder' /\ GateFits' /\ PlanPlace'
    BY <1>1, AppendPlaces
<1>3. act[a] \in Act /\ "fail" \in Left(act[a].steps)
    BY <1>1, Rests
<1>4. On(act[a].at, act[a].req) /\ Clear(act[a].p, act[a].at)
    <2>1. ~Gating(Left(act[a].steps)) /\ Left(act[a].steps) # {}
        BY <1>3 DEF Gating
    <2> QED BY <1>3, <2>1 DEF PInv, PlanPlace, PlanAt
<1>5. \A p \in Providers : failed'[p] = failed[p] \/ (FailureAt(p, failed[p]))'
    <2> SUFFICES ASSUME NEW p \in Providers, failed'[p] # failed[p]
                 PROVE  FailureAt(p, failed[p])'
        OBVIOUS
    <2>1. p = act[a].p /\ failed'[p].at = act[a].at /\ failed'[p].req = act[a].req
        BY DEF MarkFailed, IInv, TypeOK
    <2>2. ASSUME NEW n, NEW r, n = act[a].at, r = act[a].req
          PROVE  On(n, r)' /\ Clear(p, n)'
        BY <1>2, <1>4, <2>1, <2>2, OnStable, ClearStable
    <2> QED BY <2>1, <2>2 DEF FailureAt
<1>6. CursorClear' /\ WorkerPlace' /\ FailurePlace'
    BY <1>1, <1>2, <1>5, CursorStays, WorkersStay, FailuresStay DEF PInv
<1> QED BY <1>2, <1>6 DEF PInv

(* A cursor skips to where it may, or the process ends.                    *)
LEMMA SkipPlaces ==
    ASSUME OneProcess, IInv, IInv', PInv, NEW a \in Agents, Skip(a)
    PROVE  PInv'
<1>1. CASE Down(a) /\ UNCHANGED cursor
    <2>1. UNCHANGED store
        BY <1>1 DEF Skip, store
    <2> QED BY <1>1, <2>1, DownPlaces
<1>2. CASE ~(Down(a) /\ UNCHANGED cursor)
    <2>1. /\ Doing(a, "skip") /\ act' = Then(a, Rest(a)) /\ "skip" \notin Answers
          /\ cursor' = [cursor EXCEPT ![act[a].p] = act[a].at]
          /\ ckpt' = [ckpt EXCEPT ![a][act[a].p] = act[a].at]
          /\ UNCHANGED <<log, decided, terminals, page, gated, worker, failed>>
        BY <1>2 DEF Skip, loop, Answers
    <2>2. Kept /\ AskedOnce' /\ GateOrder' /\ GateFits' /\ PlanPlace'
        BY <2>1, AppendPlaces
    <2>3. /\ act[a] \in Act /\ act[a].steps \in Plans /\ Head(act[a].steps) = "skip"
          /\ "skip" \in Left(act[a].steps)
        BY <2>1, Rests
    <2>4. /\ act[a].at \in Nat /\ act[a].at <= Len(log) /\ Len(log) \in Nat
          /\ Clear(act[a].p, act[a].at + 1)
        <3>1. /\ ~Gating(Left(act[a].steps)) /\ Left(act[a].steps) # {}
              /\ Left(act[a].steps) \cap (Answers \cup {"cancelled"}) = {}
            BY <2>3, PlanLeft DEF Gating
        <3>2. act[a].at \in Nat /\ Len(log) \in Nat
            BY <2>3 DEF Act, IInv, TypeOK
        <3>3. PlanAt(Left(act[a].steps), act[a].p, act[a].at, act[a].req)
            BY DEF PInv, PlanPlace
        <3> QED BY <2>3, <3>1, <3>2, <3>3 DEF PlanAt
    <2>5. \A p, n : p = act[a].p /\ n = act[a].at => Clear(p, n + 1)'
        BY <2>2, <2>4, ClearStable
    <2>6. \A p \in Providers : \/ cursor'[p] = cursor[p]
                               \/ p = act[a].p /\ cursor'[p] = act[a].at
        BY <2>1 DEF IInv, TypeOK
    <2>7. \A b \in Agents, p \in Providers : \/ ckpt'[b][p] = ckpt[b][p]
                                             \/ p = act[a].p /\ ckpt'[b][p] = act[a].at
        BY <2>1 DEF IInv, TypeOK
    <2>8. CursorClear'
        BY <2>1, <2>2, <2>4, <2>5, <2>6, <2>7, CursorStays DEF PInv
    <2>9. WorkerPlace' /\ FailurePlace'
        BY <2>1, <2>2, WorkersStay, FailuresStay DEF PInv
    <2> QED BY <2>2, <2>8, <2>9 DEF PInv
<1> QED BY <1>1, <1>2

(* The claim of a process that is alone is stored.                         *)
LEMMA AttemptPlaces ==
    ASSUME OneProcess, IInv, IInv', PInv, NEW a \in Agents, Attempt(a)
    PROVE  PInv'
<1>1. /\ Doing(a, "attempt") /\ "attempt" \notin Answers
      /\ act' = Then(a, IF ClaimWon(act[a].req) THEN Rest(a) ELSE <<"skip">>)
      /\ UNCHANGED <<log, decided, terminals, page, gated, cursor, worker, ckpt, failed>>
    BY DEF Attempt, loop, Answers
<1>2. "attempt" \in Left(act[a].steps)
    BY <1>1, PlanLeft DEF Doing, IInv, TypeOK, Act, NoAct
<1>3. act[a].req \notin attempted
    BY <1>2 DEF PInv, PlanPlace, PlanAt
<1>4. act' = Then(a, Rest(a))
    BY <1>1, <1>3 DEF ClaimWon
<1>5. Kept /\ AskedOnce' /\ GateOrder' /\ GateFits' /\ PlanPlace'
    BY <1>1, <1>4, AppendPlaces
<1>6. CursorClear' /\ WorkerPlace' /\ FailurePlace'
    BY <1>1, <1>5, CursorStays, WorkersStay, FailuresStay DEF PInv
<1> QED BY <1>5, <1>6 DEF PInv

(* A worker starts where the plan is.                                      *)
LEMMA SpawnPlaces ==
    ASSUME OneProcess, IInv, IInv', PInv, NEW a \in Agents, Spawn(a)
    PROVE  PInv'
<1>1. /\ Doing(a, "spawn") /\ act' = Then(a, Rest(a)) /\ "spawn" \notin Answers
      /\ worker' = [worker EXCEPT ![a][act[a].p] =
             [at |-> act[a].at, req |-> act[a].req, phase |-> "running"]]
      /\ UNCHANGED <<log, decided, terminals, page, gated, cursor, ckpt, failed>>
    BY DEF Spawn, loop, store, Answers
<1>2. Kept /\ AskedOnce' /\ GateOrder' /\ GateFits' /\ PlanPlace'
    BY <1>1, AppendPlaces
<1>3. act[a] \in Act /\ "spawn" \in Left(act[a].steps)
    BY <1>1, Rests
<1>4. On(act[a].at, act[a].req) /\ Clear(act[a].p, act[a].at)
    <2>1. ~Gating(Left(act[a].steps)) /\ Left(act[a].steps) # {}
        BY <1>3 DEF Gating
    <2> QED BY <1>3, <2>1 DEF PInv, PlanPlace, PlanAt
<1>5. \A b \in Agents, p \in Providers : worker'[b][p] = worker[b][p] \/ WorkerAt(p, worker[b][p])'
    <2> SUFFICES ASSUME NEW b \in Agents, NEW p \in Providers, worker'[b][p] # worker[b][p]
                 PROVE  WorkerAt(p, worker[b][p])'
        OBVIOUS
    <2>1. /\ p = act[a].p /\ worker'[b][p].at = act[a].at /\ worker'[b][p].req = act[a].req
          /\ worker'[b][p].phase = "running"
        BY <1>1 DEF IInv, TypeOK
    <2>2. ASSUME NEW n, NEW r, n = act[a].at, r = act[a].req
          PROVE  On(n, r)' /\ Clear(p, n)'
        BY <1>2, <1>4, <2>1, <2>2, OnStable, ClearStable
    <2> QED BY <2>1, <2>2 DEF WorkerAt
<1>6. CursorClear' /\ WorkerPlace' /\ FailurePlace'
    BY <1>1, <1>2, <1>5, CursorStays, WorkersStay, FailuresStay DEF PInv
<1> QED BY <1>2, <1>6 DEF PInv

(* A request that has its answer may be passed.                            *)
LEMMA PassNow ==
    ASSUME IInv, NEW p, NEW n, NEW r, Clear(p, n), On(n, r), Answered(r)
    PROVE  Clear(p, n + 1)
<1>1. Passable(n) /\ n \in Nat
    BY DEF On, Passable, GateDone, IInv, TypeOK
<1>2. \A m \in 1..Len(log) : m < n + 1 => m < n \/ m = n
    BY <1>1 DEF IInv, TypeOK
<1> QED BY <1>1, <1>2 DEF Clear

(* A request of the log is one of cognition's.                             *)
LEMMA OnRequest ==
    ASSUME IInv, NEW n, NEW r, On(n, r)
    PROVE  r \in Requests /\ n \in Nat /\ n <= Len(log) /\ Len(log) \in Nat
BY DEF On, IInv, Readable, TypeOK

(* A plan of the loop's, other than the gate's, begins where it may.       *)
LEMMA BeginPlaces ==
    ASSUME OneProcess, IInv, IInv', PInv, NEW a \in Agents, Free(a),
           NEW p, NEW n \in Nat, NEW r, NEW s,
           act' = [act EXCEPT ![a] = [p |-> p, at |-> n, req |-> r, steps |-> s]],
           PlanAt(Left(s), p, n, r), ~Gating(Left(s)),
           UNCHANGED <<log, decided, terminals, attempted, page, gated>>
    PROVE  Kept /\ AskedOnce' /\ GateOrder' /\ GateFits' /\ PlanPlace'
<1>1. /\ act'[a].p = p /\ act'[a].at = n /\ act'[a].req = r /\ act'[a].steps = s
    <2>1. act'[a] = [p |-> p, at |-> n, req |-> r, steps |-> s]
        BY BeginPlan
    <2> QED BY <2>1
<1>2. Kept
    BY SameKept
<1>3. AskedOnce' /\ GateOrder'
    BY <1>2, OrderStays DEF PInv
<1>4. \A b \in Agents : b = a
    BY DEF OneProcess
<1>5. Left(act[a].steps) = {} /\ ~Gating({})
    BY Idle DEF Gating
<1>6. GateFits'
    <2>1. GateFit(a, Left(act[a].steps), act[a].at, act[a].req)'
        BY <1>1, <1>2, <1>5, GateStays DEF PInv
    <2> QED BY <1>4, <2>1 DEF GateFits
<1>7. PlanPlace'
    <2>1. ASSUME NEW L, L = Left(s) PROVE PlanAt(L, p, n, r)'
        BY <1>2, <2>1, PlanGoesOn
    <2>2. PlanAt(Left(act[a].steps), act[a].p, act[a].at, act[a].req)'
        BY <1>1, <2>1
    <2> QED BY <1>4, <2>2 DEF PlanPlace
<1> QED BY <1>2, <1>3, <1>6, <1>7

(* A process installs a component after the stored cursor.                 *)
LEMMA InstallPlaces ==
    ASSUME OneProcess, IInv, IInv', PInv, NEW a \in Agents, Install(a)
    PROVE  PInv'
<1> DEFINE s == <<"cancelled", "skip", "recovered">>
           At(p) == IF failed[p].at < cursor[p] THEN cursor[p] ELSE failed[p].at
<1>1. PICK p \in Providers :
         /\ ckpt' = [ckpt EXCEPT ![a][p] = cursor[p]]
         /\ \/ act' = act
            \/ /\ Failed(p)
               /\ act' = [act EXCEPT ![a] = [p |-> p, at |-> At(p), req |-> failed[p].req,
                                             steps |-> s]]
    BY DEF Install, Resume, IInv, TypeOK
<1>2. /\ Free(a)
      /\ UNCHANGED <<log, decided, terminals, attempted, page, gated, cursor, worker, failed>>
    BY DEF Install, store
<1>3. Left(s) = {"cancelled", "skip", "recovered"}
    BY LeftOf
<1> HIDE DEF s
<1>4. Kept /\ AskedOnce' /\ GateOrder' /\ GateFits' /\ PlanPlace'
    <2>1. CASE act' = act
        <3>1. Kept
            BY <1>2, SameKept
        <3> QED BY <1>2, <2>1, <3>1, OrderStays, GateStays, ActStays DEF PInv, GateFits
    <2>2. CASE act' # act
        <3> DEFINE n == At(p)
                   r == failed[p].req
        <3>1. /\ act' = [act EXCEPT ![a] = [p |-> p, at |-> n, req |-> r, steps |-> s]]
              /\ Failed(p)
            BY <1>1, <2>2
        <3>2. /\ failed[p].at \in Nat /\ cursor[p] \in Nat /\ Len(log) \in Nat
              /\ cursor[p] <= Len(log) /\ Clear(p, cursor[p] + 1)
            BY DEF IInv, TypeOK, Failure, PInv, CursorClear
        <3>3. On(failed[p].at, r) /\ Clear(p, failed[p].at)
            BY <3>1 DEF PInv, FailurePlace, FailureAt, Failed
        <3>4. r \in Requests /\ failed[p].at <= Len(log)
            BY <3>3, OnRequest
        <3>5. Clear(p, cursor[p])
            BY <3>2 DEF Clear
        <3>6. /\ n \in Nat /\ n <= Len(log) /\ Clear(p, n)
              /\ Clear(p, n + 1) \/ On(n, r)
            BY <3>2, <3>3, <3>4, <3>5
        <3> HIDE DEF n, r, At
        <3>7. PlanAt(Left(s), p, n, r) /\ ~Gating(Left(s))
            BY <1>3, <3>4, <3>6 DEF PlanAt, Gating, Answers
        <3> QED BY <1>2, <3>1, <3>6, <3>7, BeginPlaces
    <2> QED BY <2>1, <2>2
<1>5. \A b \in Agents, q \in Providers : ckpt'[b][q] = ckpt[b][q] \/ ckpt'[b][q] = cursor[q]
    <2>1. ckpt \in [Agents -> [Providers -> Nat]]
        BY DEF IInv, TypeOK
    <2> QED BY <1>1, <2>1
<1>6. CursorClear' /\ WorkerPlace' /\ FailurePlace'
    BY <1>2, <1>4, <1>5, CursorStays, WorkersStay, FailuresStay DEF PInv
<1> QED BY <1>4, <1>6 DEF PInv

(* A finished worker's request is where the worker was; what a trap leaves *)
(* without an answer is answered before the cursor moves.                  *)
LEMMA CollectPlaces ==
    ASSUME OneProcess, Separate, IInv, IInv', PInv, NEW a \in Agents, Collect(a)
    PROVE  PInv'
<1> DEFINE Plan(p, s) == [p |-> p, at |-> worker[a][p].at, req |-> worker[a][p].req, steps |-> s]
<1>1. PICK p \in Providers :
         /\ p \in Finished(a)
         /\ worker' = [worker EXCEPT ![a][p] = NoWorker]
         /\ \/ act' = act
            \/ act' = [act EXCEPT ![a] = Plan(p, <<"cancelled", "restart", "skip">>)]
            \/ /\ worker[a][p].phase = "trapped"
               /\ ~(worker[a][p].req \in Requests \ Inherent /\ ~Answered(worker[a][p].req))
               /\ \E s \in Ends : act' = [act EXCEPT ![a] = Plan(p, s)]
            \/ \E s \in UncertainEnds : act' = [act EXCEPT ![a] = Plan(p, s)]
    BY Zenon DEF Collect, Finished
<1>2. /\ Free(a)
      /\ UNCHANGED <<log, decided, terminals, attempted, page, gated, cursor, ckpt, failed>>
    BY DEF Collect, loop
<1> DEFINE n == worker[a][p].at
           r == worker[a][p].req
<1>3. On(n, r) /\ Clear(p, n) /\ (worker[a][p].phase = "trapped" => Traps)
    <2>1. worker[a][p] # NoWorker
        BY <1>1 DEF Finished, NoWorker
    <2> QED BY <2>1 DEF PInv, WorkerPlace, WorkerAt
<1>4. r \in Requests /\ n \in Nat /\ n <= Len(log)
    BY <1>3, OnRequest
<1>5. Kept /\ AskedOnce' /\ GateOrder' /\ GateFits' /\ PlanPlace'
    <2>1. CASE act' = act
        <3>1. Kept
            BY <1>2, SameKept
        <3> QED BY <1>2, <2>1, <3>1, OrderStays, GateStays, ActStays DEF PInv, GateFits
    <2>2. ASSUME NEW s, act' = [act EXCEPT ![a] = Plan(p, s)],
                 PlanAt(Left(s), p, n, r), ~Gating(Left(s))
          PROVE  <1>5
        BY <1>2, <1>4, <2>2, BeginPlaces
    <2> HIDE DEF n, r, Plan
    <2>3. CASE act' = [act EXCEPT ![a] = Plan(p, <<"cancelled", "restart", "skip">>)]
        <3>1. Left(<<"cancelled", "restart", "skip">>) = {"cancelled", "restart", "skip"}
            BY LeftOf
        <3> DEFINE s == <<"cancelled", "restart", "skip">>
        <3> HIDE DEF s
        <3>2. PlanAt(Left(s), p, n, r) /\ ~Gating(Left(s))
            BY <1>3, <1>4, <3>1 DEF PlanAt, Gating, Answers, s
        <3> QED BY <2>2, <2>3, <3>2 DEF s
    <2>4. ASSUME NEW s \in UncertainEnds, act' = [act EXCEPT ![a] = Plan(p, s)] PROVE <1>5
        <3>1. /\ Left(s) \subseteq {"unknown", "interrupted", "fail", "skip"}
              /\ "interrupted" \in Left(s)
            BY LeftOf DEF UncertainEnds
        <3>2. PlanAt(Left(s), p, n, r) /\ ~Gating(Left(s))
            BY <1>3, <1>4, <3>1 DEF PlanAt, Gating, Answers
        <3> QED BY <2>2, <2>4, <3>2
    <2>5. ASSUME NEW s \in Ends, act' = [act EXCEPT ![a] = Plan(p, s)],
                 worker[a][p].phase = "trapped",
                 ~(worker[a][p].req \in Requests \ Inherent /\ ~Answered(worker[a][p].req))
          PROVE  <1>5
        <3>1. Left(s) \subseteq {"fail", "skip"} /\ "fail" \in Left(s)
            BY LeftOf DEF Ends
        <3>2. Answered(r)
            BY <1>3, <1>4, <2>5 DEF Separate, r
        <3>3. Clear(p, n + 1)
            BY <1>3, <3>2, PassNow
        <3>4. PlanAt(Left(s), p, n, r) /\ ~Gating(Left(s))
            BY <1>3, <1>4, <3>1, <3>3 DEF PlanAt, Gating, Answers
        <3> QED BY <2>2, <2>5, <3>4
    <2> QED BY <1>1, <2>1, <2>3, <2>4, <2>5
<1>6. \A b \in Agents, q \in Providers : worker'[b][q] = worker[b][q] \/ worker'[b][q] = NoWorker
    BY <1>1 DEF IInv, TypeOK
<1>7. CursorClear' /\ WorkerPlace' /\ FailurePlace'
    BY <1>2, <1>5, <1>6, CursorStays, WorkersStay, FailuresStay DEF PInv
<1> QED BY <1>5, <1>7 DEF PInv

(* The gate takes the first event of its page: everything before it was    *)
(* gated already or is none of the gate's.                                 *)
LEMMA GatePlaces ==
    ASSUME OneProcess, IInv, IInv', AInv, PInv, NEW a \in Agents, Gate(a)
    PROVE  PInv'
<1> DEFINE n == First(page[a])
           r == log[n].req
           v == Verdict(a, r)
           L == Left(act'[a].steps)
<1>1. /\ page[a] \in SUBSET Nat /\ page[a] # {} /\ Free(a)
      /\ page'[a] = page[a] \ {n} /\ gated'[a] = n
      /\ UNCHANGED <<log, decided, terminals, attempted, cursor, ckpt, worker, failed>>
      /\ \/ log[n].kind = "cancel" /\ act' = act
         \/ log[n].kind # "cancel" /\ v = <<>> /\ act' = act
         \/ /\ log[n].kind # "cancel" /\ v # <<>>
            /\ act' = [act EXCEPT ![a] = [p |-> Route[r], at |-> n, req |-> r, steps |-> v]]
    BY DEF Gate, IInv, TypeOK, store
<1>2. n \in page[a] /\ \A m \in page[a] : n <= m
    BY <1>1, FirstIn
<1>3. /\ Gateable(n) /\ n \in 1..Len(log) /\ Len(log) \in Nat /\ n \in Nat /\ gated[a] \in Nat
      /\ \A m \in page[a] : m \in Nat
    BY <1>1, <1>2 DEF AInv, LogFits, IInv, Readable, TypeOK
<1>4. /\ v = <<>> => Answered(r)
      /\ v = <<>> \/ v = <<"allow">> \/ v = <<"denied">> \/ v = <<"refuse", "denied">>
    BY Zenon DEF Verdict, v
<1> HIDE DEF n, r, v
<1>5. \/ L = {} /\ (log[n].kind = "cancel" \/ Answered(r))
      \/ /\ L \subseteq {"allow", "refuse", "denied"} /\ L # {} /\ log[n].kind # "cancel"
         /\ act'[a].at = n /\ act'[a].req = r
    <2>1. CASE act' = act /\ (log[n].kind = "cancel" \/ v = <<>>)
        <3>1. L = {}
            BY <1>1, <2>1, Idle
        <3> QED BY <1>4, <2>1, <3>1
    <2>2. CASE log[n].kind # "cancel" /\ v # <<>>
               /\ act' = [act EXCEPT ![a] = [p |-> Route[r], at |-> n, req |-> r, steps |-> v]]
        <3>1. act'[a] = [p |-> Route[r], at |-> n, req |-> r, steps |-> v]
            BY <2>2, BeginPlan
        <3>2. act'[a].at = n /\ act'[a].req = r /\ act'[a].steps = v
            BY <3>1
        <3>3. /\ Left(<<"allow">>) = {"allow"} /\ Left(<<"denied">>) = {"denied"}
              /\ Left(<<"refuse", "denied">>) = {"refuse", "denied"}
            BY LeftOf
        <3> QED BY <1>4, <2>2, <3>2, <3>3
    <2> QED BY <1>1, <2>1, <2>2
<1> HIDE DEF L
<1>6. Kept
    BY <1>1, SameKept
<1>7. AskedOnce' /\ GateOrder' /\ CursorClear'
    BY <1>1, <1>6, OrderStays, CursorStays DEF PInv
<1>8. WorkerPlace' /\ FailurePlace'
    BY <1>1, <1>6, WorkersStay, FailuresStay DEF PInv
<1>9. \A b \in Agents : b = a
    BY DEF OneProcess
<1>10. PlanPlace'
    <2>1. PlanAt(Left(act[a].steps), act[a].p, act[a].at, act[a].req)'
        BY <1>5 DEF PlanAt, Gating, Answers, L
    <2> QED BY <1>9, <2>1 DEF PlanPlace
<1>11. \A k \in 1..Len(log) : k < n => GateDone(k)
    <2> SUFFICES ASSUME NEW k \in 1..Len(log), k < n
                 PROVE  GateDone(k)
        OBVIOUS
    <2>1. Left(act[a].steps) = {} /\ ~Gating({})
        BY <1>1, Idle DEF Gating
    <2>2. GateFit(a, {}, act[a].at, act[a].req)
        BY <2>1 DEF PInv, GateFits
    <2>3. CASE k <= gated[a]
        BY <2>1, <2>2, <2>3 DEF GateFit
    <2>4. CASE gated[a] < k
        <3>1. k \notin page[a]
            BY <1>2, <1>3
        <3>2. ~Gateable(k)
            BY <1>2, <2>2, <2>4, <3>1 DEF GateFit
        <3> QED BY <3>2 DEF Gateable, GateDone, Capability
    <2> QED BY <1>3, <2>3, <2>4
<1>12. GateFits'
    <2>1. \A k \in 1..Len(log) : k < n => GateDone(k)'
        BY <1>6, <1>11, DoneStable
    <2>2. Gating(L) \/ GateDone(n)
        BY <1>5 DEF Gating, GateDone, Capability, r
    <2>3. Gating(L) \/ \A m : m = n => GateDone(m)'
        BY <1>3, <1>6, <2>2, DoneStable
    <2>4. Gating(L) => act'[a].at = n /\ act'[a].req = log[n].req /\ Capability(n)
        BY <1>3, <1>5 DEF Gating, Gateable, Capability, r
    <2>5. \A k \in 1..Len(log) : k <= n => GateDone(k)' \/ (Gating(L) /\ act'[a].at = k)
        BY <1>3, <2>1, <2>3, <2>4
    <2>6. \A m \in page'[a] : n < m /\ m \in page[a]
        BY <1>1, <1>2, <1>3
    <2>7. \A m \in page[a] : \A k \in 1..Len(log) : gated[a] < k /\ k < m /\ Gateable(k) => k \in page[a]
        BY DEF PInv, GateFits, GateFit
    <2>8. gated[a] < n
        BY <1>2 DEF PInv, GateFits, GateFit
    <2>9. \A m \in page'[a] : \A k \in 1..Len(log) : n < k /\ k < m /\ Gateable(k) => k \in page'[a]
        BY <1>1, <1>3, <2>6, <2>7, <2>8
    <2>10. GateFit(a, Left(act[a].steps), act[a].at, act[a].req)'
        BY <1>1, <1>3, <2>1, <2>4, <2>5, <2>6, <2>9 DEF GateFit, L, Gateable, Capability
    <2> QED BY <1>9, <2>10 DEF GateFits
<1> QED BY <1>7, <1>8, <1>10, <1>12 DEF PInv

(* What a provider is given is the first it may not pass: what is not      *)
(* offered is answered, or was refused by the gate before the offer was    *)
(* allowed.                                                                *)
LEMMA OfferedPlace ==
    ASSUME Separate, IInv, AInv, PInv, NEW a \in Agents, NEW p \in Providers,
           Pending(a, p) # {}
    PROVE  LET n == First(Pending(a, p))
           IN  On(n, log[n].req) /\ Clear(p, n)
<1> DEFINE n == First(Pending(a, p))
<1>1. /\ n \in Pending(a, p) /\ n \in 1..Len(log) /\ log[n].to = p
      /\ \A m \in Pending(a, p) : n <= m
    <2>1. Pending(a, p) \in SUBSET Nat
        BY DEF Pending, IInv, TypeOK
    <2> QED BY <2>1, Offered, FirstIn
<1> HIDE DEF n
<1>2. \A m \in 1..Len(log) : log[m].to = p =>
          log[m].kind = "request" /\ log[m].req \in Requests /\ Route[log[m].req] = p
    <2> SUFFICES ASSUME NEW m \in 1..Len(log), log[m].to = p
                 PROVE  log[m].kind = "request" /\ log[m].req \in Requests /\ Route[log[m].req] = p
        OBVIOUS
    <2>1. p # None
        BY DispatchAssumption
    <2>2. log[m].kind \in {"request", "cancel", "note"}
        <3>1. log[m] \in Item
            BY DEF IInv, TypeOK
        <3> QED BY <3>1 DEF Item
    <2> QED BY <2>1, <2>2 DEF Separate, AInv, LogFits, IInv, Readable
<1>3. ckpt[a][p] \in Nat /\ Len(log) \in Nat /\ Clear(p, ckpt[a][p] + 1)
    BY DEF IInv, TypeOK, PInv, CursorClear
<1>4. Clear(p, n)
    <2> SUFFICES ASSUME NEW m \in 1..Len(log), m < n, log[m].to = p
                 PROVE  Passable(m)
        BY DEF Clear
    <2>1. CASE m <= ckpt[a][p]
        BY <1>3, <2>1 DEF Clear
    <2>2. CASE ckpt[a][p] < m
        <3>1. m \notin Pending(a, p) /\ m \in (ckpt[a][p] + 1)..Len(log)
            BY <1>1, <1>3, <2>2
        <3>2. CASE Answered(log[m].req)
            BY <3>2 DEF Passable, GateDone
        <3>3. CASE ~Answered(log[m].req)
            <4>1. log[m].req \notin Models /\ decided[log[m].req] # "allow"
                BY <1>2, <3>1, <3>3 DEF Pending
            <4>2. log[n].req \notin Models
                BY <1>1, <1>2, <4>1 DEF Separate
            <4>3. Capability(n) /\ decided[log[n].req] = "allow"
                BY <1>1, <1>2, <4>2 DEF Pending, Capability
            <4>4. GateDone(m)
                BY <1>1, <4>3 DEF PInv, GateOrder
            <4> QED BY <4>1, <4>4 DEF Passable
        <3> QED BY <3>2, <3>3
    <2> QED BY <1>3, <2>1, <2>2
<1>5. On(n, log[n].req)
    BY <1>1, <1>2 DEF On
<1> QED BY <1>4, <1>5 DEF n

(* A provider is given the first request it may not pass.                  *)
LEMMA DeliverPlaces ==
    ASSUME OneProcess, Separate, IInv, IInv', AInv, PInv, NEW a \in Agents, Deliver(a)
    PROVE  PInv'
<1>1. /\ Free(a)
      /\ UNCHANGED <<log, decided, terminals, attempted, page, gated, cursor, ckpt, worker, failed>>
    BY DEF Deliver, store
<1>2. PICK p \in Providers :
         \/ act' = act
         \/ /\ Ready(a, p)
            /\ act' = [act EXCEPT ![a] =
                  [p |-> p, at |-> First(Pending(a, p)), req |-> log[First(Pending(a, p))].req,
                   steps |-> Admission(a, log[First(Pending(a, p))].req)]]
    BY DEF Deliver, IInv, TypeOK
<1>3. Kept /\ AskedOnce' /\ GateOrder' /\ GateFits' /\ PlanPlace'
    <2>1. CASE act' = act
        <3>1. Kept
            BY <1>1, SameKept
        <3> QED BY <1>1, <2>1, <3>1, OrderStays, GateStays, ActStays DEF PInv, GateFits
    <2>2. CASE act' # act
        <3> DEFINE n == First(Pending(a, p))
                   r == log[n].req
                   s == Admission(a, r)
        <3>1. /\ act' = [act EXCEPT ![a] = [p |-> p, at |-> n, req |-> r, steps |-> s]]
              /\ Pending(a, p) # {}
            BY <1>2, <2>2 DEF Ready
        <3>2. On(n, r) /\ Clear(p, n)
            BY <3>1, OfferedPlace
        <3> HIDE DEF n, r
        <3>3. n \in Nat /\ n <= Len(log) /\ r \in Requests
            BY <3>2, OnRequest
        <3>4. \/ s = <<"timed-out", "skip">> \/ s = <<"denied", "skip">>
              \/ s = <<"unknown", "interrupted", "skip">>
              \/ s = <<"attempt", "spawn">> /\ r \notin attempted
              \/ s = <<"spawn">>
            BY DEF Admission
        <3> HIDE DEF s
        <3>5. \/ /\ Left(s) \cap {"cancelled", "attempt"} = {} /\ Left(s) \cap Answers # {}
                 /\ "skip" \in Left(s)
              \/ Left(s) = {"attempt", "spawn"} /\ r \notin attempted
              \/ Left(s) = {"spawn"}
            <4>1. /\ Left(<<"timed-out", "skip">>) = {"timed-out", "skip"}
                  /\ Left(<<"denied", "skip">>) = {"denied", "skip"}
                  /\ Left(<<"unknown", "interrupted", "skip">>) = {"unknown", "interrupted", "skip"}
                  /\ Left(<<"attempt", "spawn">>) = {"attempt", "spawn"}
                  /\ Left(<<"spawn">>) = {"spawn"}
                BY LeftOf
            <4> QED BY <3>4, <4>1 DEF Answers
        <3>6. PlanAt(Left(s), p, n, r) /\ ~Gating(Left(s))
            BY <3>2, <3>3, <3>5 DEF PlanAt, Gating, Answers
        <3> QED BY <1>1, <3>1, <3>3, <3>6, BeginPlaces
    <2> QED BY <2>1, <2>2
<1>4. CursorClear' /\ WorkerPlace' /\ FailurePlace'
    BY <1>1, <1>3, CursorStays, WorkersStay, FailuresStay DEF PInv
<1> QED BY <1>3, <1>4 DEF PInv

(* A worker's transaction answers its request and moves the cursor to it.  *)
LEMMA WorkerStepPlaces ==
    ASSUME OneProcess, IInv, IInv', PInv, NEW a \in Agents, NEW p \in Providers,
           WorkerStep(a, p)
    PROVE  PInv'
<1> DEFINE w == worker[a][p]
<1>1. /\ UNCHANGED <<log, decided, attempted, failed, page, gated, act>>
      /\ w.phase \in {"running", "ran"}
      /\ \/ worker' = worker
         \/ \E f \in {"ran", "done", "failed"} : worker' = [worker EXCEPT ![a][p].phase = f]
         \/ Traps /\ worker' = [worker EXCEPT ![a][p].phase = "trapped"]
      /\ \/ UNCHANGED <<cursor, ckpt>>
         \/ /\ cursor' = [cursor EXCEPT ![p] = w.at]
            /\ ckpt' = [ckpt EXCEPT ![a][p] = w.at]
            /\ w.req # None => terminals' = [terminals EXCEPT ![w.req] = @ \cup {"completed"}]
      /\ \/ terminals' = terminals
         \/ terminals' = [terminals EXCEPT ![w.req] = @ \cup {"completed"}]
    BY DEF WorkerStep, Execute, Publish, Finish, Fail, Trap, Working, store, volatile, loop
<1>2. w # NoWorker /\ w \in Worker
    BY <1>1 DEF NoWorker, IInv, TypeOK
<1>3. On(w.at, w.req) /\ Clear(p, w.at)
    BY <1>2 DEF PInv, WorkerPlace, WorkerAt
<1>4. /\ w.req \in Requests /\ w.at \in Nat /\ w.at <= Len(log) /\ Len(log) \in Nat
      /\ w.req # None
    BY <1>3, OnRequest, DispatchAssumption
<1> HIDE DEF w
<1>5. /\ \A x \in Requests : terminals[x] \subseteq terminals'[x]
      /\ terminals' = [terminals EXCEPT ![w.req] = @ \cup {"completed"}] => terminals'[w.req] # {}
    <2>1. terminals \in [Requests -> SUBSET Terminal]
        BY DEF IInv, TypeOK
    <2>2. CASE terminals' = terminals
        BY <1>4, <2>1, <2>2
    <2>3. CASE terminals' = [terminals EXCEPT ![w.req] = @ \cup {"completed"}]
        BY <1>4, <2>1, <2>3
    <2> QED BY <1>1, <2>2, <2>3
<1>6. Kept
    BY <1>1, <1>5 DEF Kept, IInv, TypeOK
<1>7. AskedOnce' /\ GateOrder'
    BY <1>1, <1>6, OrderStays DEF PInv
<1>8. GateFits' /\ PlanPlace' /\ FailurePlace'
    BY <1>1, <1>6, GateStays, ActStays, FailuresStay DEF PInv, GateFits
<1>9. CursorClear'
    <2>1. CASE UNCHANGED <<cursor, ckpt>>
        BY <1>6, <2>1, CursorStays DEF PInv
    <2>2. CASE /\ cursor' = [cursor EXCEPT ![p] = w.at]
               /\ ckpt' = [ckpt EXCEPT ![a][p] = w.at]
               /\ w.req # None => terminals' = [terminals EXCEPT ![w.req] = @ \cup {"completed"}]
        <3>1. ASSUME NEW n, NEW r, n = w.at, r = w.req
              PROVE  Clear(p, n + 1)'
            <4>1. On(n, r)' /\ Clear(p, n)'
                BY <1>3, <1>4, <1>6, <3>1, OnStable, ClearStable
            <4>2. Answered(r)'
                BY <1>4, <1>5, <2>2, <3>1 DEF Answered
            <4> QED BY <4>1, <4>2, PassOne
        <3>2. \A q \in Providers : \/ cursor'[q] = cursor[q]
                                   \/ q = p /\ cursor'[q] = w.at
            BY <2>2 DEF IInv, TypeOK
        <3>3. \A b \in Agents, q \in Providers : \/ ckpt'[b][q] = ckpt[b][q]
                                                 \/ q = p /\ ckpt'[b][q] = w.at
            <4>1. ckpt \in [Agents -> [Providers -> Nat]]
                BY DEF IInv, TypeOK
            <4> QED BY <2>2, <4>1
        <3> QED BY <1>1, <1>4, <1>6, <3>1, <3>2, <3>3, CursorStays DEF PInv
    <2> QED BY <1>1, <2>1, <2>2
<1>10. WorkerPlace'
    <2>1. \A b \in Agents, q \in Providers :
              \/ worker'[b][q] = worker[b][q]
              \/ /\ worker[b][q] # NoWorker
                 /\ worker'[b][q].at = worker[b][q].at /\ worker'[b][q].req = worker[b][q].req
                 /\ worker'[b][q].phase = "trapped" => Traps
        <3>1. ASSUME NEW f, worker' = [worker EXCEPT ![a][p].phase = f], f = "trapped" => Traps
              PROVE  <2>1
            BY <1>2, <3>1 DEF IInv, TypeOK, Worker, w
        <3>2. CASE worker' = worker
            BY <3>2
        <3> QED BY <1>1, <3>1, <3>2
    <2> QED BY <1>6, <2>1, WorkersStay DEF PInv
<1> QED BY <1>7, <1>8, <1>9, <1>10 DEF PInv

-----------------------------------------------------------------------------
(* Nothing is logged at first.                                             *)
LEMMA InitPlaces == Init => PInv
<1> SUFFICES ASSUME Init PROVE PInv
    OBVIOUS
<1>1. /\ Len(log) = 0 /\ 1..Len(log) = {}
      /\ \A a \in Agents : page[a] = {} /\ act[a].steps = <<>> /\ gated[a] = 0
      /\ \A a \in Agents, p \in Providers : worker[a][p] = NoWorker /\ ckpt[a][p] = 0
      /\ \A p \in Providers : failed[p].at = 0 /\ cursor[p] = 0
      /\ \A r \in Requests : decided[r] = "none"
    BY DEF Init, NoAct
<1>2. AskedOnce /\ GateOrder /\ CursorClear
    BY <1>1 DEF AskedOnce, GateOrder, CursorClear, Clear
<1>3. \A a \in Agents : Left(act[a].steps) = {}
    BY <1>1, LeftOf
<1>4. GateFits /\ PlanPlace
    <2>1. ~Gating({})
        BY DEF Gating
    <2>2. GateFits
        <3> SUFFICES ASSUME NEW a \in Agents
                     PROVE  GateFit(a, {}, act[a].at, act[a].req)
            BY <1>3 DEF GateFits
        <3>1. gated[a] = 0 /\ page[a] = {} /\ Len(log) = 0
            BY <1>1
        <3>2. \A k : k \notin 1..Len(log)
            BY <1>1
        <3> QED BY <2>1, <3>1, <3>2 DEF GateFit
    <2> QED BY <1>3, <2>2 DEF PlanPlace, PlanAt
<1>5. WorkerPlace /\ FailurePlace
    BY <1>1 DEF WorkerPlace, WorkerAt, FailurePlace, FailureAt
<1> QED BY <1>2, <1>4, <1>5 DEF PInv

(* Every step of a process that is alone keeps the places.                 *)
LEMMA StepPlaces ==
    ASSUME OneProcess, Separate, IInv, IInv', AInv, PInv, [Next]_vars
    PROVE  PInv'
<1>1. ASSUME NEW a \in Agents, LoopStep(a) PROVE PInv'
    <2>1. CASE Append1(a)
        BY <2>1, DecidePlaces, AnswerPlaces, PlainPlaces, AttemptPlaces, SpawnPlaces, SkipPlaces,
           MarkFailedPlaces DEF Append1
    <2> QED BY <1>1, <2>1, InstallPlaces, TurnPlaces, CollectPlaces, EndCollectPlaces, GatePlaces,
               DeliverPlaces DEF LoopStep
<1>2. ASSUME NEW a \in Agents, Crash(a) PROVE PInv'
    BY <1>2, DownPlaces DEF Crash
<1>3. ASSUME NEW a \in Agents, NEW p \in Providers, WorkerStep(a, p) PROVE PInv'
    BY <1>3, WorkerStepPlaces
<1>4. CASE WorldStep
    BY <1>4, WorldPlaces
<1>5. CASE UNCHANGED vars
    <2>1. UNCHANGED <<log, decided, cursor, attempted, terminals, failed, page, gated, act, ckpt, worker>>
        BY <1>5 DEF vars, store, volatile, loop
    <2> QED BY <2>1, SameKept, SamePlaces
<1> QED BY <1>1, <1>2, <1>3, <1>4, <1>5 DEF Next

(* A process that is alone on its database, whose providers serve either   *)
(* models or capabilities and never trap in an idempotent call, passes     *)
(* over no request that is allowed and has no answer (skip and the         *)
(* delivery's transaction move the cursor behind the answer).              *)
THEOREM NoneLost == ASSUME OneProcess, Separate PROVE Spec => []NothingPassedOver
<1>1. IInv /\ IInv' /\ AInv /\ PInv /\ [Next]_vars => PInv'
    BY StepPlaces
<1>2. IInv /\ AInv /\ PInv => NothingPassedOver
    <2> SUFFICES ASSUME IInv, AInv, PInv, NEW n \in 1..Len(log),
                        log[n].kind = "request", n <= cursor[log[n].to],
                        log[n].req \in Models \/ decided[log[n].req] = "allow"
                 PROVE  Answered(log[n].req)
        BY DEF NothingPassedOver
    <2>1. log[n].to \in Providers
        <3>1. log[n].req \in Requests /\ log[n].to = Route[log[n].req]
            BY DEF IInv, Readable, AInv, LogFits
        <3> QED BY <3>1, DispatchAssumption
    <2>2. Clear(log[n].to, cursor[log[n].to] + 1) /\ cursor[log[n].to] \in Nat /\ n \in Nat
        BY <2>1 DEF PInv, CursorClear, IInv, TypeOK
    <2>3. Passable(n)
        BY <2>2 DEF Clear
    <2> QED BY <2>3 DEF Passable
<1> QED BY <1>1, <1>2, InitPlaces, SpecInv, SpecFits, PTL DEF Spec
=============================================================================
