---------------------------- MODULE GitHub_proofs ----------------------------
(***************************************************************************)
(* The GitHub provider's answers are honest: for any deliveries, batches,  *)
(* repetitions, restarts and failures of the API.  What the proof carries  *)
(* is how the delivery in progress relates to what is committed: its batch *)
(* is the head of the inbox, what it will observe is not observed yet, and *)
(* an enrollment it will refuse is one of the events it consumes.          *)
(***************************************************************************)
EXTENDS GitHub, TLAPS, SequenceTheorems

Busy == work.step \in {"event", "load"}
Record(d) ==
    d = [app |-> d.app, installation |-> d.installation, exports |-> d.exports,
         staged |-> d.staged, result |-> d.result]
Whole(w) ==
    w = [step |-> w.step, batch |-> w.batch, at |-> w.at, due |-> w.due, timers |-> w.timers,
         obs |-> w.obs, answers |-> w.answers, prev |-> w.prev]

Shapes ==
    /\ inbox \in Seq(ToSet(inbox)) /\ obs \in Seq(ToSet(obs)) /\ enrolled \in Nat
    /\ Record(doc) /\ doc.app = doc.result
    /\ work = Idle \/ Busy
    /\ Busy => /\ Whole(work)
               /\ work.obs \in Seq(ToSet(work.obs))
    /\ work.step = "event" => /\ Record(work.prev) /\ work.prev.result = doc.app

(* The batch is the head of the inbox, and stays it: events are only added *)
(* at the end until it is consumed.                                        *)
BatchFits ==
    Busy => /\ work.batch \in Seq(ToSet(work.batch)) /\ Len(work.batch) <= Len(inbox)
            /\ \A i \in 1..Len(work.batch) : work.batch[i] = inbox[i]
            /\ work.at \in Nat \ {0}
            /\ work.at <= IF work.step = "event" THEN Len(work.batch) ELSE Len(work.batch) + 1

(* An enrollment is asked for once, and webhook requests are as GitHub     *)
(* sends them.                                                             *)
InboxFits ==
    /\ \A i \in 1..Len(inbox) :
         /\ inbox[i].type \in {"http", "enroll", "timer"}
         /\ inbox[i].type = "http" => inbox[i].hook \in Deliveries
         /\ inbox[i].type = "enroll" => inbox[i].id \in Nat /\ inbox[i].id <= enrolled
    /\ \A i, j \in 1..Len(inbox) :
         inbox[i].type = "enroll" /\ inbox[j].type = "enroll" /\ inbox[i].id = inbox[j].id => i = j

(* A delivery is observed once, in the stream and in what is staged.       *)
OnceIn(s) == \A i, j \in 1..Len(s) : s[i].id = s[j].id => i = j
ObservedOnce ==
    /\ OnceIn(obs)
    /\ Busy => /\ OnceIn(work.obs)
               /\ \A i \in 1..Len(obs), j \in 1..Len(work.obs) : obs[i].id # work.obs[j].id

(* A webhook answer and the observation it speaks of.                      *)
Witness(o, a) == o.id = a.hook.id /\ (o.body = a.hook.body <=> a.status = 200)
Judged(a) == a.type = "http" /\ a.status \in {200, 409}
Witnessed(s, A) == \A a \in A : Judged(a) => \E o \in s : Witness(o, a)
HooksFit ==
    /\ Witnessed(ToSet(obs), answers)
    /\ Busy => Witnessed(ToSet(obs) \cup ToSet(work.obs), work.answers)

(* A refused enrollment is behind the cursor once its answer is committed, *)
(* and among the events handled until then.                                *)
Refused(A) == {a \in A : a.type = "enroll" /\ ~a.ok}
EnrollsFit ==
    /\ \A a \in Refused(answers) :
         /\ a.id \in Nat /\ a.id <= enrolled /\ doc.app # a.id
         /\ \A i \in 1..Len(inbox) : inbox[i].type = "enroll" => inbox[i].id # a.id
    /\ Busy => \A a \in Refused(work.answers) :
         /\ doc.app # a.id
         /\ \E i \in 1..Len(work.batch) :
              i < work.at /\ work.batch[i].type = "enroll" /\ work.batch[i].id = a.id

IInv == Shapes /\ BatchFits /\ InboxFits /\ ObservedOnce /\ HooksFit /\ EnrollsFit

-----------------------------------------------------------------------------
(* Sequences, over whatever they hold.                                     *)
LEMMA Ranged ==
    ASSUME NEW S, NEW s \in Seq(S)
    PROVE  s \in Seq(ToSet(s))
BY DEF ToSet

LEMMA AppendRanged ==
    ASSUME NEW s, s \in Seq(ToSet(s)), NEW e
    PROVE  /\ Append(s, e) \in Seq(ToSet(Append(s, e))) /\ Len(Append(s, e)) = Len(s) + 1
           /\ Append(s, e)[Len(s) + 1] = e /\ \A i \in 1..Len(s) : Append(s, e)[i] = s[i]
           /\ Len(s) \in Nat /\ ToSet(Append(s, e)) = ToSet(s) \cup {e}
<1> DEFINE S == ToSet(s) \cup {e}
<1>1. s \in Seq(S) /\ e \in S
    OBVIOUS
<1> HIDE DEF S
<1>2. Append(s, e) \in Seq(S)
    BY <1>1
<1>3. Append(s, e) \in Seq(ToSet(Append(s, e)))
    BY <1>2, Ranged
<1>4. /\ Len(Append(s, e)) = Len(s) + 1 /\ Len(s) \in Nat
      /\ Append(s, e)[Len(s) + 1] = e /\ \A i \in 1..Len(s) : Append(s, e)[i] = s[i]
    BY <1>1
<1>5. ToSet(Append(s, e)) = ToSet(s) \cup {e}
    <2>1. DOMAIN Append(s, e) = 1..(Len(s) + 1) /\ DOMAIN s = 1..Len(s)
        BY <1>1, <1>2, <1>4
    <2> QED BY <2>1, <1>4 DEF ToSet
<1> QED BY <1>3, <1>4, <1>5

LEMMA ConcatRanged ==
    ASSUME NEW s, s \in Seq(ToSet(s)), NEW t, t \in Seq(ToSet(t))
    PROVE  /\ s \o t \in Seq(ToSet(s \o t)) /\ Len(s \o t) = Len(s) + Len(t)
           /\ Len(s) \in Nat /\ Len(t) \in Nat
           /\ \A i \in 1..Len(s) : (s \o t)[i] = s[i]
           /\ \A i \in (Len(s) + 1)..(Len(s) + Len(t)) : (s \o t)[i] = t[i - Len(s)]
           /\ ToSet(s \o t) = ToSet(s) \cup ToSet(t)
<1> DEFINE S == ToSet(s) \cup ToSet(t)
<1>1. s \in Seq(S) /\ t \in Seq(S)
    OBVIOUS
<1> HIDE DEF S
<1>2. s \o t \in Seq(S)
    BY <1>1
<1>3. s \o t \in Seq(ToSet(s \o t))
    BY <1>2, Ranged
<1>4. /\ Len(s \o t) = Len(s) + Len(t) /\ Len(s) \in Nat /\ Len(t) \in Nat
      /\ \A i \in 1..Len(s) : (s \o t)[i] = s[i]
      /\ \A i \in (Len(s) + 1)..(Len(s) + Len(t)) : (s \o t)[i] = t[i - Len(s)]
    BY <1>1
<1>5. ToSet(s \o t) = ToSet(s) \cup ToSet(t)
    <2>1. DOMAIN (s \o t) = 1..(Len(s) + Len(t)) /\ DOMAIN s = 1..Len(s) /\ DOMAIN t = 1..Len(t)
        BY <1>1, <1>2, <1>4
    <2>2. ToSet(s \o t) \subseteq ToSet(s) \cup ToSet(t)
        BY <2>1, <1>4 DEF ToSet
    <2>3. ToSet(s) \subseteq ToSet(s \o t)
        BY <2>1, <1>4 DEF ToSet
    <2>4. ToSet(t) \subseteq ToSet(s \o t)
        <3> SUFFICES ASSUME NEW i \in 1..Len(t) PROVE t[i] \in ToSet(s \o t)
            BY <2>1 DEF ToSet
        <3>1. Len(s) + i \in (Len(s) + 1)..(Len(s) + Len(t)) /\ (s \o t)[Len(s) + i] = t[i]
            BY <1>4
        <3>2. Len(s) + i \in DOMAIN (s \o t)
            BY <3>1, <2>1, <1>4
        <3> QED BY <3>1, <3>2 DEF ToSet
    <2> QED BY <2>2, <2>3, <2>4
<1> QED BY <1>3, <1>4, <1>5

LEMMA HeadRanged ==
    ASSUME NEW s, s \in Seq(ToSet(s)), NEW n \in 0..Len(s)
    PROVE  LET h == SubSeq(s, 1, n)
           IN  h \in Seq(ToSet(h)) /\ Len(h) = n /\ \A i \in 1..n : h[i] = s[i]
<1>1. SubSeq(s, 1, n) \in Seq(ToSet(s)) /\ Len(SubSeq(s, 1, n)) = n
    OBVIOUS
<1>2. \A i \in 1..n : SubSeq(s, 1, n)[i] = s[i]
    OBVIOUS
<1>3. SubSeq(s, 1, n) \in Seq(ToSet(SubSeq(s, 1, n)))
    BY <1>1, Ranged
<1> QED BY <1>1, <1>2, <1>3

LEMMA TailRanged ==
    ASSUME NEW s, s \in Seq(ToSet(s)), NEW n \in 0..Len(s)
    PROVE  LET r == SubSeq(s, n + 1, Len(s))
           IN  /\ r \in Seq(ToSet(r)) /\ Len(r) = Len(s) - n /\ Len(s) \in Nat
               /\ \A i \in 1..(Len(s) - n) : r[i] = s[n + i]
<1>0. Len(s) \in Nat
    OBVIOUS
<1>1. SubSeq(s, n + 1, Len(s)) \in Seq(ToSet(s))
    OBVIOUS
<1>2. Len(SubSeq(s, n + 1, Len(s))) = Len(s) - n
    BY <1>0
<1>3. \A i \in 1..(Len(s) - n) : SubSeq(s, n + 1, Len(s))[i] = s[n + i]
    BY <1>0
<1> QED BY <1>0, <1>1, <1>2, <1>3, Ranged

-----------------------------------------------------------------------------
(* Steps that touch neither the inbox, the answers and observations nor    *)
(* the delivery in progress, and the record only beside the App.           *)
LEMMA BesideKeeps ==
    ASSUME IInv, UNCHANGED <<inbox, obs, answers, work, enrolled>>,
           Record(doc'), doc'.app = doc.app, doc'.result = doc.result
    PROVE  IInv'
<1>1. Shapes' /\ Busy' = Busy
    BY DEF IInv, Shapes, Busy, Record
<1>2. BatchFits' /\ InboxFits'
    BY DEF IInv, BatchFits, InboxFits, Busy
<1>3. ObservedOnce' /\ HooksFit'
    BY DEF IInv, ObservedOnce, OnceIn, HooksFit, Witnessed, Busy
<1>4. EnrollsFit'
    BY DEF IInv, EnrollsFit, Busy
<1> QED BY <1>1, <1>2, <1>3, <1>4 DEF IInv

(* The delivery is dropped: a crash, or a record that changed under it.    *)
LEMMA IdleKeeps ==
    ASSUME IInv, work' = Idle, UNCHANGED <<inbox, obs, answers, enrolled, doc>>
    PROVE  IInv'
<1>1. ~Busy' /\ work'.step = "idle"
    BY DEF Busy, Idle
<1>2. Shapes' /\ BatchFits' /\ InboxFits'
    BY <1>1 DEF IInv, Shapes, BatchFits, InboxFits, Record
<1>3. ObservedOnce' /\ HooksFit'
    BY <1>1 DEF IInv, ObservedOnce, OnceIn, HooksFit, Witnessed
<1>4. EnrollsFit'
    BY <1>1 DEF IInv, EnrollsFit
<1> QED BY <1>2, <1>3, <1>4 DEF IInv

(* An event is added to the inbox.                                         *)
LEMMA ArrivalKeeps ==
    ASSUME IInv, NEW e, inbox' = Append(inbox, e), UNCHANGED <<obs, answers, work>>,
           e.type \in {"http", "enroll", "timer"}, e.type = "http" => e.hook \in Deliveries,
           IF e.type = "enroll" THEN enrolled' = enrolled + 1 /\ e.id = enrolled' ELSE enrolled' = enrolled,
           Record(doc'), doc'.app = doc.app, doc'.result = doc.result
    PROVE  IInv'
<1>1. /\ inbox' \in Seq(ToSet(inbox')) /\ Len(inbox') = Len(inbox) + 1 /\ Len(inbox) \in Nat
      /\ inbox'[Len(inbox) + 1] = e /\ \A i \in 1..Len(inbox) : inbox'[i] = inbox[i]
    BY AppendRanged DEF IInv, Shapes
<1>2. enrolled \in Nat /\ enrolled' \in Nat /\ enrolled <= enrolled'
    BY DEF IInv, Shapes
<1>3. Shapes'
    BY <1>1, <1>2 DEF IInv, Shapes, Busy, Record
<1>4. BatchFits'
    <2> SUFFICES ASSUME Busy PROVE BatchFits'
        BY DEF BatchFits, Busy
    <2>1. /\ work.batch \in Seq(ToSet(work.batch)) /\ Len(work.batch) <= Len(inbox)
          /\ \A i \in 1..Len(work.batch) : work.batch[i] = inbox[i]
          /\ work.at \in Nat \ {0}
          /\ work.at <= IF work.step = "event" THEN Len(work.batch) ELSE Len(work.batch) + 1
        BY DEF IInv, BatchFits
    <2>2. Len(work.batch) \in Nat
        BY <2>1
    <2>3. Len(work.batch) <= Len(inbox') /\ \A i \in 1..Len(work.batch) : work.batch[i] = inbox'[i]
        BY <1>1, <2>1, <2>2
    <2> QED BY <2>1, <2>3 DEF BatchFits
<1>5. InboxFits'
    <2>1. \A i \in 1..Len(inbox') : i \in 1..Len(inbox) \/ i = Len(inbox) + 1
        BY <1>1
    <2>2. \A i \in 1..Len(inbox) : inbox[i].type = "enroll" => inbox[i].id \in Nat /\ inbox[i].id <= enrolled
        BY DEF IInv, InboxFits
    <2>3. \A i \in 1..Len(inbox') :
            /\ inbox'[i].type \in {"http", "enroll", "timer"}
            /\ inbox'[i].type = "http" => inbox'[i].hook \in Deliveries
            /\ inbox'[i].type = "enroll" => inbox'[i].id \in Nat /\ inbox'[i].id <= enrolled'
        BY <1>1, <1>2, <2>1, <2>2 DEF IInv, InboxFits
    <2>4. \A i \in 1..Len(inbox) : inbox[i].type = "enroll" /\ e.type = "enroll" => inbox[i].id # e.id
        BY <1>2, <2>2
    <2>5. \A i, j \in 1..Len(inbox') :
            inbox'[i].type = "enroll" /\ inbox'[j].type = "enroll" /\ inbox'[i].id = inbox'[j].id => i = j
        BY <1>1, <2>1, <2>4 DEF IInv, InboxFits
    <2> QED BY <2>3, <2>5 DEF InboxFits
<1>6. ObservedOnce' /\ HooksFit'
    BY DEF IInv, ObservedOnce, OnceIn, HooksFit, Witnessed, Busy
<1>7. EnrollsFit'
    <2>1. \A a \in Refused(answers') :
            /\ a.id \in Nat /\ a.id <= enrolled' /\ doc'.app # a.id
            /\ \A i \in 1..Len(inbox') : inbox'[i].type = "enroll" => inbox'[i].id # a.id
        <3> SUFFICES ASSUME NEW a \in Refused(answers)
                     PROVE  /\ a.id \in Nat /\ a.id <= enrolled' /\ doc'.app # a.id
                            /\ \A i \in 1..Len(inbox') : inbox'[i].type = "enroll" => inbox'[i].id # a.id
            BY DEF Refused
        <3>1. /\ a.id \in Nat /\ a.id <= enrolled /\ doc.app # a.id
              /\ \A i \in 1..Len(inbox) : inbox[i].type = "enroll" => inbox[i].id # a.id
            BY DEF IInv, EnrollsFit
        <3>2. \A i \in 1..Len(inbox') : i \in 1..Len(inbox) \/ i = Len(inbox) + 1
            BY <1>1
        <3> QED BY <1>1, <1>2, <3>1, <3>2
    <2>2. Busy' => \A a \in Refused(work'.answers) :
            /\ doc'.app # a.id
            /\ \E i \in 1..Len(work'.batch) :
                 i < work'.at /\ work'.batch[i].type = "enroll" /\ work'.batch[i].id = a.id
        BY DEF IInv, EnrollsFit, Busy
    <2> QED BY <2>1, <2>2 DEF EnrollsFit
<1> QED BY <1>3, <1>4, <1>5, <1>6, <1>7 DEF IInv

LEMMA WorldKeeps ==
    ASSUME IInv, InstallApp \/ Receive \/ StageEnrollment \/ Age \/ Fire \/ Setup
    PROVE  IInv'
<1>0. Record(doc)
    BY DEF IInv, Shapes
<1>1. CASE InstallApp \/ Setup
    BY <1>0, <1>1, BesideKeeps DEF InstallApp, Setup
<1>2. CASE Age
    <2>1. /\ doc' = [doc EXCEPT !.exports.fresh = FALSE]
          /\ UNCHANGED <<inbox, obs, answers, work, enrolled>>
        BY <1>2 DEF Age
    <2>2. Record(doc') /\ doc'.app = doc.app /\ doc'.result = doc.result
        BY <1>0, <2>1 DEF Record
    <2> QED BY <2>1, <2>2, BesideKeeps
<1>3. CASE Receive
    <2>1. PICK d \in Deliveries :
            inbox' = Append(inbox, [type |-> "http", seq |-> received', hook |-> d])
        BY <1>3 DEF Receive
    <2> DEFINE e == [type |-> "http", seq |-> received', hook |-> d]
    <2>2. e.type = "http" /\ e.hook \in Deliveries
        OBVIOUS
    <2>3. UNCHANGED <<doc, obs, answers, work, enrolled>>
        BY <1>3 DEF Receive
    <2> HIDE DEF e
    <2>4. inbox' = Append(inbox, e)
        BY <2>1 DEF e
    <2> QED BY <1>0, <2>2, <2>3, <2>4, ArrivalKeeps
<1>4. CASE StageEnrollment
    <2> DEFINE e == [type |-> "enroll", id |-> enrolled']
    <2>1. e.type = "enroll" /\ e.id = enrolled'
        OBVIOUS
    <2>2. /\ enrolled' = enrolled + 1 /\ doc' = [doc EXCEPT !.staged = enrolled']
          /\ inbox' = Append(inbox, e) /\ UNCHANGED <<obs, answers, work>>
        BY <1>4 DEF StageEnrollment
    <2>3. Record(doc') /\ doc'.app = doc.app /\ doc'.result = doc.result
        BY <1>0, <2>2 DEF Record
    <2> HIDE DEF e
    <2> QED BY <2>1, <2>2, <2>3, ArrivalKeeps
<1>5. CASE Fire
    <2>1. PICK t \in timers : inbox' = Append(inbox, Timer(t))
        BY <1>5 DEF Fire
    <2>2. Timer(t).type = "timer"
        BY DEF Timer
    <2>3. UNCHANGED <<doc, obs, answers, work, enrolled>>
        BY <1>5 DEF Fire
    <2> QED BY <1>0, <2>1, <2>2, <2>3, ArrivalKeeps
<1> QED BY <1>1, <1>2, <1>3, <1>4, <1>5

-----------------------------------------------------------------------------
(* A batch is taken: at least one event, from the head of the inbox.       *)
LEMMA TakeKeeps == ASSUME IInv, Take PROVE IInv'
<1> DEFINE n == Min({EventBatch, Len(inbox)})
<1>1. inbox \in Seq(ToSet(inbox)) /\ inbox # << >> /\ Len(inbox) \in Nat
    BY DEF IInv, Shapes, Take
<1>2. n \in 1..Len(inbox)
    <2>1. Len(inbox) > 0
        BY <1>1
    <2>2. \E x \in {EventBatch, Len(inbox)} : \A y \in {EventBatch, Len(inbox)} : x =< y
        BY <1>1, GitHubAssumption
    <2>3. n \in {EventBatch, Len(inbox)} /\ \A y \in {EventBatch, Len(inbox)} : n =< y
        BY <2>2 DEF Min
    <2> HIDE DEF n
    <2> QED BY <1>1, <2>1, <2>3, GitHubAssumption
<1> DEFINE b == SubSeq(inbox, 1, n)
<1>3. b \in Seq(ToSet(b)) /\ Len(b) = n /\ \A i \in 1..n : b[i] = inbox[i]
    <2> HIDE DEF n
    <2>1. n \in 0..Len(inbox)
        BY <1>1, <1>2
    <2> QED BY <1>1, <2>1, HeadRanged
<1>4. /\ work' = [step |-> "event", batch |-> b, at |-> 1, due |-> due, timers |-> {},
                  obs |-> << >>, answers |-> {}, prev |-> doc]
      /\ UNCHANGED <<doc, inbox, obs, answers, enrolled>>
    BY DEF Take
<1> HIDE DEF n, b
<1>5. /\ work'.step = "event" /\ work'.batch = b /\ work'.at = 1 /\ work'.obs = << >>
      /\ work'.answers = {} /\ work'.prev = doc /\ Busy'
      /\ Whole(work')
    BY <1>4 DEF Busy, Whole
<1>6. Shapes'
    <2>1. << >> \in Seq(ToSet(<< >>))
        BY Ranged
    <2>2. Record(work'.prev) /\ work'.prev.result = doc'.app
        BY <1>4, <1>5 DEF IInv, Shapes, Record
    <2> QED BY <1>4, <1>5, <2>1, <2>2 DEF IInv, Shapes, Record
<1>7. BatchFits'
    BY <1>1, <1>2, <1>3, <1>4, <1>5 DEF BatchFits
<1>8. InboxFits'
    BY <1>4 DEF IInv, InboxFits
<1>9. ObservedOnce' /\ HooksFit' /\ EnrollsFit'
    <2>1. 1..Len(work'.obs) = {}
        BY <1>5
    <2>2. ObservedOnce'
        BY <1>4, <2>1 DEF IInv, ObservedOnce, OnceIn
    <2>3. HooksFit'
        BY <1>4, <1>5 DEF IInv, HooksFit, Witnessed
    <2>4. EnrollsFit'
        BY <1>4, <1>5 DEF IInv, EnrollsFit, Refused
    <2> QED BY <2>2, <2>3, <2>4
<1> QED BY <1>6, <1>7, <1>8, <1>9 DEF IInv

(* The record is read again for the next event of the batch.               *)
LEMMA LoadKeeps == ASSUME IInv, Load PROVE IInv'
<1>1. /\ work.step = "load" /\ work.at <= Len(work.batch) /\ Busy
      /\ work' = [work EXCEPT !.step = "event", !.prev = doc]
      /\ UNCHANGED <<doc, inbox, obs, answers, enrolled>>
    BY DEF Load, Busy
<1>2. /\ work'.step = "event" /\ work'.batch = work.batch /\ work'.at = work.at
      /\ work'.obs = work.obs /\ work'.answers = work.answers /\ work'.prev = doc /\ Busy'
      /\ Whole(work')
    <2>1. Whole(work)
        BY <1>1 DEF IInv, Shapes
    <2> QED BY <1>1, <2>1 DEF Busy, Whole
<1>3. Shapes'
    BY <1>1, <1>2 DEF IInv, Shapes, Record
<1>4. BatchFits' /\ InboxFits'
    BY <1>1, <1>2 DEF IInv, BatchFits, InboxFits
<1>5. ObservedOnce' /\ HooksFit'
    BY <1>1, <1>2 DEF IInv, ObservedOnce, OnceIn, HooksFit, Witnessed
<1>6. EnrollsFit'
    BY <1>1, <1>2 DEF IInv, EnrollsFit
<1> QED BY <1>3, <1>4, <1>5, <1>6 DEF IInv

(* What the batch found is committed with the consumption of its events.   *)
LEMMA CommitKeeps == ASSUME IInv, Commit PROVE IInv'
<1>1. /\ work.step = "load" /\ work.at > Len(work.batch) /\ Busy /\ work' = Idle
      /\ obs' = obs \o work.obs /\ answers' = answers \cup work.answers
      /\ inbox' = SubSeq(inbox, Len(work.batch) + 1, Len(inbox)) /\ UNCHANGED <<doc, enrolled>>
    BY DEF Commit, Busy
<1> DEFINE n == Len(work.batch)
<1>2. ~Busy' /\ work'.step = "idle"
    BY <1>1 DEF Busy, Idle
<1>3. /\ work.batch \in Seq(ToSet(work.batch)) /\ n <= Len(inbox)
      /\ \A i \in 1..n : work.batch[i] = inbox[i]
    BY <1>1 DEF IInv, BatchFits
<1>4. n \in Nat
    BY <1>3
<1>5. inbox \in Seq(ToSet(inbox)) /\ Len(inbox) \in Nat /\ n \in 0..Len(inbox)
    BY <1>3, <1>4 DEF IInv, Shapes
<1> HIDE DEF n
<1>6. /\ inbox' \in Seq(ToSet(inbox')) /\ Len(inbox') = Len(inbox) - n
      /\ \A i \in 1..Len(inbox') : n + i \in 1..Len(inbox) /\ inbox'[i] = inbox[n + i]
    <2>1. inbox' = SubSeq(inbox, n + 1, Len(inbox))
        BY <1>1 DEF n
    <2>2. /\ inbox' \in Seq(ToSet(inbox')) /\ Len(inbox') = Len(inbox) - n
          /\ \A i \in 1..(Len(inbox) - n) : inbox'[i] = inbox[n + i]
        BY <1>5, <2>1, TailRanged
    <2> QED BY <1>4, <1>5, <2>2
<1>7. /\ obs' \in Seq(ToSet(obs')) /\ Len(obs') = Len(obs) + Len(work.obs)
      /\ Len(obs) \in Nat /\ Len(work.obs) \in Nat
      /\ \A i \in 1..Len(obs) : obs'[i] = obs[i]
      /\ \A i \in (Len(obs) + 1)..(Len(obs) + Len(work.obs)) : obs'[i] = work.obs[i - Len(obs)]
      /\ ToSet(obs') = ToSet(obs) \cup ToSet(work.obs)
    <2>1. obs \in Seq(ToSet(obs)) /\ work.obs \in Seq(ToSet(work.obs))
        BY <1>1 DEF IInv, Shapes
    <2> QED BY <1>1, <2>1, ConcatRanged
<1>8. Shapes'
    BY <1>1, <1>2, <1>6, <1>7 DEF IInv, Shapes, Record
<1>9. BatchFits' /\ InboxFits'
    <2>1. BatchFits'
        BY <1>2 DEF BatchFits
    <2>2. \A i \in 1..Len(inbox') :
            /\ inbox'[i].type \in {"http", "enroll", "timer"}
            /\ inbox'[i].type = "http" => inbox'[i].hook \in Deliveries
            /\ inbox'[i].type = "enroll" => inbox'[i].id \in Nat /\ inbox'[i].id <= enrolled'
        BY <1>1, <1>6 DEF IInv, InboxFits
    <2>3. \A i, j \in 1..Len(inbox') :
            inbox'[i].type = "enroll" /\ inbox'[j].type = "enroll" /\ inbox'[i].id = inbox'[j].id => i = j
        <3> SUFFICES ASSUME NEW i \in 1..Len(inbox'), NEW j \in 1..Len(inbox'),
                            inbox'[i].type = "enroll", inbox'[j].type = "enroll",
                            inbox'[i].id = inbox'[j].id
                     PROVE  i = j
            OBVIOUS
        <3>1. n + i = n + j
            BY <1>6 DEF IInv, InboxFits
        <3> QED BY <3>1, <1>4
    <2> QED BY <2>1, <2>2, <2>3 DEF InboxFits
<1>10. ObservedOnce'
    <2>1. \A i \in 1..Len(obs') : i \in 1..Len(obs) \/ (i - Len(obs) \in 1..Len(work.obs)
                                                       /\ obs'[i] = work.obs[i - Len(obs)])
        BY <1>7
    <2>2. /\ OnceIn(obs) /\ OnceIn(work.obs)
          /\ \A i \in 1..Len(obs), j \in 1..Len(work.obs) : obs[i].id # work.obs[j].id
        BY <1>1 DEF IInv, ObservedOnce
    <2>3. ASSUME NEW i \in 1..Len(obs'), NEW j \in 1..Len(obs'), obs'[i].id = obs'[j].id
          PROVE  i = j
        <3>1. CASE i \in 1..Len(obs) /\ j \in 1..Len(obs)
            BY <1>7, <2>2, <2>3, <3>1 DEF OnceIn
        <3>2. CASE i \notin 1..Len(obs) /\ j \notin 1..Len(obs)
            <4>1. i - Len(obs) = j - Len(obs)
                BY <2>1, <2>2, <2>3, <3>2 DEF OnceIn
            <4> QED BY <4>1, <1>7
        <3>3. CASE i \in 1..Len(obs) /\ j \notin 1..Len(obs)
            BY <1>7, <2>1, <2>2, <2>3, <3>3
        <3>4. CASE i \notin 1..Len(obs) /\ j \in 1..Len(obs)
            BY <1>7, <2>1, <2>2, <2>3, <3>4
        <3> QED BY <3>1, <3>2, <3>3, <3>4
    <2> QED BY <1>2, <2>3 DEF ObservedOnce, OnceIn
<1>11. HooksFit'
    BY <1>1, <1>2, <1>7 DEF IInv, HooksFit, Witnessed
<1>12. EnrollsFit'
    <2> SUFFICES ASSUME NEW a \in Refused(answers')
                 PROVE  /\ a.id \in Nat /\ a.id <= enrolled' /\ doc'.app # a.id
                        /\ \A i \in 1..Len(inbox') : inbox'[i].type = "enroll" => inbox'[i].id # a.id
        BY <1>2 DEF EnrollsFit
    <2>1. CASE a \in Refused(answers)
        BY <1>1, <1>6, <2>1 DEF IInv, EnrollsFit
    <2>2. CASE a \in Refused(work.answers)
        <3>1. doc.app # a.id
            BY <1>1, <2>2 DEF IInv, EnrollsFit
        <3>2. PICK k \in 1..n : work.batch[k].type = "enroll" /\ work.batch[k].id = a.id
            BY <1>1, <2>2 DEF IInv, EnrollsFit, n
        <3>3. k \in 1..Len(inbox) /\ inbox[k].type = "enroll" /\ inbox[k].id = a.id
            BY <1>3, <1>5, <3>2
        <3>4. a.id \in Nat /\ a.id <= enrolled
            BY <3>3 DEF IInv, InboxFits
        <3>5. \A i \in 1..Len(inbox') : n + i # k
            BY <1>4, <1>6, <3>2
        <3>6. \A i \in 1..Len(inbox') : inbox'[i].type = "enroll" => inbox'[i].id # a.id
            BY <1>6, <3>3, <3>5 DEF IInv, InboxFits
        <3> QED BY <1>1, <3>1, <3>4, <3>6
    <2> QED BY <1>1, <2>1, <2>2 DEF Refused
<1> QED BY <1>8, <1>9, <1>10, <1>11, <1>12 DEF IInv

-----------------------------------------------------------------------------
(* An event is handled: what is staged for it, and what the record becomes. *)
Staged(o, A) ==
    /\ Whole(work') /\ work'.step = "load" /\ work'.batch = work.batch /\ work'.at = work.at + 1
    /\ work'.obs = o /\ work'.answers = A

LEMMA HandledKeeps ==
    ASSUME IInv, work.step = "event", NEW o, NEW A, Staged(o, A),
           UNCHANGED <<inbox, obs, answers, enrolled>>, Record(doc'), doc'.app = doc'.result,
           o \in Seq(ToSet(o)), OnceIn(o),
           \A i \in 1..Len(obs), j \in 1..Len(o) : obs[i].id # o[j].id,
           Witnessed(ToSet(obs) \cup ToSet(o), A),
           \A a \in Refused(answers) : doc'.app # a.id,
           \A a \in Refused(A) :
             /\ doc'.app # a.id
             /\ \E i \in 1..Len(work.batch) :
                  i < work.at + 1 /\ work.batch[i].type = "enroll" /\ work.batch[i].id = a.id
    PROVE  IInv'
<1>1. /\ work'.step = "load" /\ work'.batch = work.batch /\ work'.at = work.at + 1
      /\ work'.obs = o /\ work'.answers = A /\ Busy' /\ Busy
      /\ Whole(work')
    BY DEF Staged, Busy
<1>2. Shapes'
    BY <1>1 DEF IInv, Shapes, Record
<1>3. BatchFits' /\ InboxFits'
    <2>1. /\ work.batch \in Seq(ToSet(work.batch)) /\ Len(work.batch) <= Len(inbox)
          /\ \A i \in 1..Len(work.batch) : work.batch[i] = inbox[i]
          /\ work.at \in Nat \ {0} /\ work.at <= Len(work.batch)
        BY <1>1 DEF IInv, BatchFits
    <2>2. Len(work.batch) \in Nat
        BY <2>1
    <2>3. work'.at \in Nat \ {0} /\ work'.at <= Len(work.batch) + 1
        BY <1>1, <2>1, <2>2
    <2>4. BatchFits'
        BY <1>1, <2>1, <2>3 DEF BatchFits
    <2> QED BY <2>4 DEF IInv, InboxFits
<1>4. ObservedOnce'
    BY <1>1 DEF IInv, ObservedOnce, OnceIn
<1>5. HooksFit'
    BY <1>1 DEF IInv, HooksFit, Witnessed
<1>6. EnrollsFit'
    BY <1>1 DEF IInv, EnrollsFit
<1> QED BY <1>2, <1>3, <1>4, <1>5, <1>6 DEF IInv

(* What is known while an event is handled.                                *)
LEMMA HandlingFacts ==
    ASSUME IInv, work.step = "event"
    PROVE  /\ Record(doc) /\ Record(work.prev) /\ work.prev.result = doc.app /\ doc.app = doc.result
           /\ Whole(work)
           /\ work.at \in 1..Len(work.batch) /\ work.at \in Nat /\ Len(work.batch) \in Nat
           /\ Len(work.batch) <= Len(inbox) /\ \A i \in 1..Len(work.batch) : work.batch[i] = inbox[i]
           /\ work.obs \in Seq(ToSet(work.obs)) /\ obs \in Seq(ToSet(obs)) /\ OnceIn(work.obs)
           /\ \A i \in 1..Len(obs), j \in 1..Len(work.obs) : obs[i].id # work.obs[j].id
           /\ Witnessed(ToSet(obs) \cup ToSet(work.obs), work.answers)
           /\ \A a \in Refused(answers) :
                doc.app # a.id /\ \A i \in 1..Len(inbox) : inbox[i].type = "enroll" => inbox[i].id # a.id
           /\ \A a \in Refused(work.answers) :
                /\ doc.app # a.id
                /\ \E i \in 1..Len(work.batch) :
                     i < work.at /\ work.batch[i].type = "enroll" /\ work.batch[i].id = a.id
<1>1. Busy
    BY DEF Busy
<1>2. /\ work.batch \in Seq(ToSet(work.batch)) /\ Len(work.batch) <= Len(inbox)
      /\ \A i \in 1..Len(work.batch) : work.batch[i] = inbox[i]
      /\ work.at \in Nat \ {0} /\ work.at <= Len(work.batch)
    BY <1>1 DEF IInv, BatchFits
<1>3. work.at \in 1..Len(work.batch) /\ work.at \in Nat /\ Len(work.batch) \in Nat
    BY <1>2
<1>4. /\ Record(doc) /\ Record(work.prev) /\ work.prev.result = doc.app /\ doc.app = doc.result
      /\ Whole(work)
      /\ work.obs \in Seq(ToSet(work.obs)) /\ obs \in Seq(ToSet(obs))
    BY <1>1 DEF IInv, Shapes
<1> QED BY <1>1, <1>2, <1>3, <1>4 DEF IInv, ObservedOnce, HooksFit, EnrollsFit

(* The delivery in progress and the record, field by field.                *)
LEMMA DoneIs ==
    ASSUME NEW w, Whole(w), NEW u, u = Done(w)
    PROVE  /\ Whole(u) /\ u.step = "load" /\ u.batch = w.batch /\ u.at = w.at + 1
           /\ u.obs = w.obs /\ u.answers = w.answers
BY DEF Done, Whole

LEMMA RescheduledIs ==
    ASSUME NEW w, Whole(w), NEW x, NEW u, u = Rescheduled(w, x)
    PROVE  Whole(u) /\ u.batch = w.batch /\ u.at = w.at /\ u.obs = w.obs /\ u.answers = w.answers
BY DEF Rescheduled, Whole

LEMMA AnswerIs ==
    ASSUME NEW w, Whole(w), NEW x, NEW u, u = [w EXCEPT !.answers = @ \cup {x}]
    PROVE  /\ Whole(u) /\ u.batch = w.batch /\ u.at = w.at
           /\ u.obs = w.obs /\ u.answers = w.answers \cup {x}
BY DEF Whole

LEMMA ClearedIs ==
    ASSUME NEW d, Record(d), NEW u, u = Cleared(d)
    PROVE  Record(u) /\ u.app = d.app /\ u.result = d.result
BY DEF Cleared, Record

LEMMA BesideIs ==
    ASSUME NEW d, Record(d), NEW v, NEW e, NEW u,
           u = [d EXCEPT !.staged = v] \/ u = [d EXCEPT !.installation = v, !.exports = e]
    PROVE  Record(u) /\ u.app = d.app /\ u.result = d.result
BY DEF Record

(* What is staged after an answer, with or without an observation.         *)
LEMMA RescheduledStaged ==
    ASSUME IInv, work.step = "event", NEW x, work' = Done(work) \/ work' = Done(Rescheduled(work, x))
    PROVE  Staged(work.obs, work.answers)
<1>1. Whole(work)
    BY HandlingFacts
<1>2. CASE work' = Done(work)
    BY <1>1, <1>2, DoneIs DEF Staged
<1>3. CASE work' = Done(Rescheduled(work, x))
    <2>1. PICK w : w = Rescheduled(work, x)
        OBVIOUS
    <2>2. /\ Whole(w) /\ w.batch = work.batch /\ w.at = work.at
          /\ w.obs = work.obs /\ w.answers = work.answers
        BY <1>1, <2>1, RescheduledIs
    <2>3. work' = Done(w)
        BY <1>3, <2>1
    <2> QED BY <2>2, <2>3, DoneIs DEF Staged
<1> QED BY <1>2, <1>3

LEMMA ReplyStaged ==
    ASSUME NEW o, NEW x, NEW w, Whole(w), w.batch = work.batch, w.at = work.at, w.obs = o,
           w.answers = work.answers, work' = Reply(w, x)
    PROVE  Staged(o, work.answers \cup {x})
<1>1. PICK u : u = [w EXCEPT !.answers = @ \cup {x}]
    OBVIOUS
<1>2. /\ Whole(u) /\ u.batch = work.batch /\ u.at = work.at
      /\ u.obs = o /\ u.answers = work.answers \cup {x}
    BY <1>1, AnswerIs
<1>3. work' = Done(u)
    BY <1>1 DEF Reply
<1> QED BY <1>2, <1>3, DoneIs DEF Staged

(* What was refused before in the batch stays refused while the App stays. *)
LEMMA RefusedStay ==
    ASSUME IInv, work.step = "event", doc'.app = doc.app
    PROVE  \A a \in Refused(work.answers) :
             /\ doc'.app # a.id
             /\ \E i \in 1..Len(work.batch) :
                  i < work.at + 1 /\ work.batch[i].type = "enroll" /\ work.batch[i].id = a.id
<1> SUFFICES ASSUME NEW a \in Refused(work.answers)
             PROVE  /\ doc'.app # a.id
                    /\ \E i \in 1..Len(work.batch) :
                         i < work.at + 1 /\ work.batch[i].type = "enroll" /\ work.batch[i].id = a.id
    OBVIOUS
<1>1. doc.app # a.id /\ work.at \in Nat /\ Len(work.batch) \in Nat
    BY HandlingFacts
<1>2. PICK i \in 1..Len(work.batch) :
        i < work.at /\ work.batch[i].type = "enroll" /\ work.batch[i].id = a.id
    BY HandlingFacts
<1>3. i < work.at + 1
    BY <1>1, <1>2
<1> QED BY <1>1, <1>2, <1>3

(* A timer: the record changes beside the App, and only if it is as read.  *)
LEMMA OnTimerKeeps ==
    ASSUME IInv, work.step = "event", OnTimer, UNCHANGED <<inbox, obs, answers, enrolled>>
    PROVE  IInv'
<1>1. Staged(work.obs, work.answers)
    BY RescheduledStaged DEF OnTimer
<1>2. Record(doc') /\ doc'.app = doc.app /\ doc'.result = doc.result
    <2>1. doc' \in {doc, Refreshed(doc, installed), Cleared(doc)}
        BY DEF OnTimer, Saved
    <2>2. Record(doc)
        BY HandlingFacts
    <2>3. CASE doc' = Cleared(doc)
        BY <2>2, <2>3, ClearedIs
    <2>4. CASE doc' = Refreshed(doc, installed)
        <3>1. \/ doc' = Cleared(doc) \/ doc' = doc
              \/ doc' = [doc EXCEPT !.installation = installed,
                                    !.exports = [inst |-> installed, fresh |-> TRUE]]
            BY <2>4 DEF Refreshed
        <3>2. CASE doc' = [doc EXCEPT !.installation = installed,
                                      !.exports = [inst |-> installed, fresh |-> TRUE]]
            BY <2>2, <3>2 DEF Record
        <3> QED BY <2>2, <2>3, <3>1, <3>2
    <2> QED BY <2>1, <2>2, <2>3, <2>4
<1>3. \A a \in Refused(work.answers) :
        /\ doc'.app # a.id
        /\ \E i \in 1..Len(work.batch) :
             i < work.at + 1 /\ work.batch[i].type = "enroll" /\ work.batch[i].id = a.id
    BY <1>2, RefusedStay
<1> QED BY <1>1, <1>2, <1>3, HandlingFacts, HandledKeeps

(* An enrollment: the App becomes the one asked for only with a record as  *)
(* read, and no other answer refuses that one.                             *)
LEMMA OnEnrollKeeps ==
    ASSUME IInv, work.step = "event", work.batch[work.at].type = "enroll", OnEnroll,
           UNCHANGED <<inbox, obs, answers, enrolled>>
    PROVE  IInv'
<1> DEFINE id == work.batch[work.at].id
           gone == [work.prev EXCEPT !.staged = Nothing]
           app == [Cleared(gone) EXCEPT !.app = id, !.result = id]
<1>1. \/ work' = Reply(work, Enrolled(id, TRUE)) /\ doc' = doc
      \/ work' = Reply(work, Enrolled(id, TRUE)) /\ Saved /\ doc' = app
      \/ work' = Reply(work, Enrolled(id, FALSE)) /\ work.prev.result # id /\ doc' = doc
      \/ work' = Reply(work, Enrolled(id, FALSE)) /\ work.prev.result # id /\ Saved /\ doc' = gone
    <2>1. CASE Saved
        BY <2>1 DEF OnEnroll
    <2>2. CASE ~Saved
        <3>1. Saved = FALSE
            BY <2>2, Zenon DEF Saved
        <3>2. Enrolled(id, Saved) = Enrolled(id, FALSE)
            BY <3>1, Zenon
        <3> QED BY <2>2, <3>2 DEF OnEnroll
    <2> QED BY <2>1, <2>2
<1>2. Record(doc) /\ Record(work.prev) /\ work.prev.result = doc.app /\ doc.app = doc.result /\ Whole(work)
    BY HandlingFacts
<1>3. Saved => Record(gone) /\ gone.app = doc.app /\ gone.result = doc.app
    BY <1>2, BesideIs DEF Saved
<1>4. Saved => Record(app) /\ app.app = id /\ app.result = id
    <2> HIDE DEF gone
    <2>1. PICK c : c = Cleared(gone)
        OBVIOUS
    <2>2. Saved => Record(c)
        BY <1>3, <2>1, ClearedIs
    <2>3. app = [c EXCEPT !.app = id, !.result = id]
        BY <2>1
    <2> HIDE DEF app, id
    <2> QED BY <2>2, <2>3 DEF Record
<1> HIDE DEF gone, app
<1>5. PICK ok \in BOOLEAN :
        /\ work' = Reply(work, Enrolled(id, ok)) /\ (~ok => work.prev.result # id)
        /\ \/ ok /\ Saved /\ doc' = app
           \/ doc' = doc
           \/ Saved /\ doc' = gone
    <2>1. CASE work' = Reply(work, Enrolled(id, TRUE)) /\ (doc' = doc \/ (Saved /\ doc' = app))
        <3> WITNESS TRUE \in BOOLEAN
        <3> QED BY <2>1
    <2>2. CASE /\ work' = Reply(work, Enrolled(id, FALSE)) /\ work.prev.result # id
               /\ doc' = doc \/ (Saved /\ doc' = gone)
        <3> WITNESS FALSE \in BOOLEAN
        <3> QED BY <2>2
    <2> QED BY <1>1, <2>1, <2>2
<1>6. Staged(work.obs, work.answers \cup {Enrolled(id, ok)})
    BY <1>2, <1>5, ReplyStaged
<1>7. Witnessed(ToSet(obs) \cup ToSet(work.obs), work.answers \cup {Enrolled(id, ok)})
    BY HandlingFacts DEF Witnessed, Judged, Enrolled
<1>8. work.at \in 1..Len(work.batch) /\ work.at \in Nat /\ Len(work.batch) \in Nat
      /\ work.at \in 1..Len(inbox) /\ inbox[work.at].type = "enroll" /\ inbox[work.at].id = id
    <2>1. /\ work.at \in 1..Len(work.batch) /\ work.at \in Nat /\ Len(work.batch) \in Nat
          /\ Len(work.batch) <= Len(inbox) /\ work.batch[work.at] = inbox[work.at]
        BY HandlingFacts
    <2>2. Len(inbox) \in Nat
        BY DEF IInv, Shapes
    <2> QED BY <2>1, <2>2
<1>9. /\ work.obs \in Seq(ToSet(work.obs)) /\ OnceIn(work.obs)
      /\ \A i \in 1..Len(obs), j \in 1..Len(work.obs) : obs[i].id # work.obs[j].id
    BY HandlingFacts
<1>10. Refused(work.answers \cup {Enrolled(id, ok)}) \subseteq
        Refused(work.answers) \cup {a \in {Enrolled(id, ok)} : ~ok /\ a.id = id}
    BY DEF Refused, Enrolled
<1>11. CASE doc' = doc \/ (Saved /\ doc' = gone)
    <2>1. Record(doc') /\ doc'.app = doc.app /\ doc'.result = doc.app
        BY <1>2, <1>3, <1>11
    <2>2. \A a \in Refused(answers) : doc'.app # a.id
        BY <2>1, HandlingFacts
    <2>3. \A a \in Refused(work.answers \cup {Enrolled(id, ok)}) :
            /\ doc'.app # a.id
            /\ \E i \in 1..Len(work.batch) :
                 i < work.at + 1 /\ work.batch[i].type = "enroll" /\ work.batch[i].id = a.id
        BY <1>2, <1>5, <1>8, <1>10, <2>1, RefusedStay
    <2>4. PICK A : A = work.answers \cup {Enrolled(id, ok)}
        OBVIOUS
    <2> QED BY <1>6, <1>7, <1>9, <2>1, <2>2, <2>3, <2>4, HandledKeeps
<1>12. CASE ok /\ Saved /\ doc' = app
    <2>1. Record(doc') /\ doc'.app = id /\ doc'.result = id /\ ok
        BY <1>4, <1>5, <1>12
    <2>2. \A a \in Refused(answers) : doc'.app # a.id
        BY <1>8, <2>1, HandlingFacts
    <2>3. ASSUME NEW a \in Refused(work.answers \cup {Enrolled(id, ok)})
          PROVE  /\ doc'.app # a.id
                 /\ \E i \in 1..Len(work.batch) :
                      i < work.at + 1 /\ work.batch[i].type = "enroll" /\ work.batch[i].id = a.id
        <3>1. a \in Refused(work.answers)
            BY <1>10, <2>1
        <3>2. PICK i \in 1..Len(work.batch) :
                i < work.at /\ work.batch[i].type = "enroll" /\ work.batch[i].id = a.id
            BY <3>1, HandlingFacts
        <3>3. i \in 1..Len(inbox) /\ inbox[i].type = "enroll" /\ inbox[i].id = a.id /\ i # work.at
            BY <1>8, <3>2, HandlingFacts
        <3>4. a.id # id
            BY <1>8, <3>3 DEF IInv, InboxFits
        <3>5. i < work.at + 1
            BY <1>8, <3>2
        <3> QED BY <2>1, <3>2, <3>4, <3>5
    <2>4. PICK A : A = work.answers \cup {Enrolled(id, ok)}
        OBVIOUS
    <2> QED BY <1>6, <1>7, <1>9, <2>1, <2>2, <2>3, <2>4, HandledKeeps
<1> QED BY <1>5, <1>11, <1>12

(* What a webhook request is answered before deliveries are compared: a    *)
(* conflict is never among it.                                             *)
LEMMA AdmittedIs ==
    ASSUME NEW h \in Deliveries, NEW d
    PROVE  Admitted(h, d) \subseteq {200, 400, 403, 503}
<1>1. h.kind \in {"malformed", "push", "created", "deleted"}
    BY GitHubAssumption
<1>2. CASE h.kind = "malformed"
    BY <1>2 DEF Admitted
<1>3. CASE h.kind # "malformed" /\ d.app = Nothing
    BY <1>3 DEF Admitted
<1>4. CASE h.kind = "push" /\ d.app # Nothing
    BY <1>4 DEF Admitted
<1>5. CASE h.kind \in {"created", "deleted"} /\ d.app # Nothing
    BY <1>5 DEF Admitted
<1> QED BY <1>1, <1>2, <1>3, <1>4, <1>5

(* A webhook request that is compared changes the record beside the App.   *)
LEMMA LifecycleIs ==
    ASSUME NEW h, NEW d, Record(d), NEW u, u = Lifecycle(h, d)
    PROVE  Record(u) /\ u.app = d.app /\ u.result = d.result
<1>1. CASE h.kind = "deleted"
    <2>1. u = Cleared(d)
        BY <1>1 DEF Lifecycle
    <2> QED BY <2>1, ClearedIs
<1>2. CASE h.kind = "created"
    <2>1. u = [d EXCEPT !.installation = h.inst,
                        !.exports = IF d.installation # h.inst THEN NoExports ELSE @]
        BY <1>2 DEF Lifecycle
    <2> QED BY <2>1 DEF Record
<1>3. CASE h.kind \notin {"deleted", "created"}
    BY <1>3 DEF Lifecycle
<1> QED BY <1>1, <1>2, <1>3

(* One more webhook answer, which refuses no enrollment.                   *)
LEMMA HookAnswered ==
    ASSUME IInv, work.step = "event", UNCHANGED <<inbox, obs, answers, enrolled>>,
           Record(doc'), doc'.app = doc.app, doc'.result = doc.result,
           NEW o, NEW a, a.type = "http", Staged(o, work.answers \cup {a}),
           o \in Seq(ToSet(o)), OnceIn(o), ToSet(work.obs) \subseteq ToSet(o),
           \A i \in 1..Len(obs), j \in 1..Len(o) : obs[i].id # o[j].id,
           Judged(a) => \E x \in ToSet(obs) \cup ToSet(o) : Witness(x, a)
    PROVE  IInv'
<1> DEFINE A == work.answers \cup {a}
<1>1. Witnessed(ToSet(obs) \cup ToSet(o), A)
    BY HandlingFacts DEF Witnessed
<1>2. Refused(A) = Refused(work.answers)
    BY DEF Refused
<1>3. \A x \in Refused(answers) : doc'.app # x.id
    BY HandlingFacts
<1>4. \A x \in Refused(A) :
        /\ doc'.app # x.id
        /\ \E i \in 1..Len(work.batch) :
             i < work.at + 1 /\ work.batch[i].type = "enroll" /\ work.batch[i].id = x.id
    BY <1>2, RefusedStay
<1>5. doc'.app = doc'.result
    BY HandlingFacts
<1> HIDE DEF A
<1>6. Staged(o, A)
    BY DEF A
<1> QED BY <1>1, <1>3, <1>4, <1>5, <1>6, HandledKeeps

(* A webhook request: compared with what is observed or will be, and       *)
(* observed when it is new.                                                *)
LEMMA OnHttpKeeps ==
    ASSUME IInv, work.step = "event", work.batch[work.at].hook \in Deliveries, OnHttp,
           UNCHANGED <<inbox, obs, answers, enrolled>>
    PROVE  IInv'
<1> DEFINE e == work.batch[work.at]
           h == e.hook
           same == \E o \in Known(h) : o.body = h.body
           new == [id |-> h.id, body |-> h.body]
<1>1. PICK status \in Admitted(h, work.prev) :
        IF status # 200
        THEN work' = Reply(work, HttpAnswer(e.seq, h, status)) /\ UNCHANGED doc
        ELSE IF h.kind # "push" /\ ~Saved
        THEN work' = Idle /\ UNCHANGED doc
        ELSE /\ doc' = IF h.kind = "push" THEN doc ELSE Lifecycle(h, work.prev)
             /\ work' = IF Known(h) # {}
                        THEN Reply(work, HttpAnswer(e.seq, h, IF same THEN 200 ELSE 409))
                        ELSE Reply([work EXCEPT !.obs = Append(@, new)], HttpAnswer(e.seq, h, 200))
    BY DEF OnHttp
<1>2. status \in {200, 400, 403, 503}
    BY AdmittedIs
<1>3. /\ Record(doc) /\ Whole(work) /\ work.obs \in Seq(ToSet(work.obs)) /\ OnceIn(work.obs)
      /\ \A i \in 1..Len(obs), j \in 1..Len(work.obs) : obs[i].id # work.obs[j].id
      /\ obs \in Seq(ToSet(obs))
    BY HandlingFacts
<1>4. \A s : LET a == HttpAnswer(e.seq, h, s) IN a.type = "http" /\ a.hook = h /\ a.status = s
    BY DEF HttpAnswer
<1> HIDE DEF e, h, same, new
<1>5. CASE status # 200
    <2>1. PICK a : a = HttpAnswer(e.seq, h, status)
        OBVIOUS
    <2>2. a.type = "http" /\ ~Judged(a)
        BY <1>2, <1>4, <1>5, <2>1 DEF Judged
    <2>3. Staged(work.obs, work.answers \cup {a})
        BY <1>1, <1>3, <1>5, <2>1, ReplyStaged
    <2> QED BY <1>1, <1>3, <1>5, <2>2, <2>3, HookAnswered
<1>6. CASE status = 200 /\ h.kind # "push" /\ ~Saved
    BY <1>1, <1>6, IdleKeeps
<1>7. CASE status = 200 /\ (h.kind = "push" \/ Saved)
    <2>1. Record(doc') /\ doc'.app = doc.app /\ doc'.result = doc.result
        <3>1. CASE h.kind = "push"
            BY <1>1, <1>3, <1>7, <3>1
        <3>2. CASE h.kind # "push"
            <4>1. work.prev = doc /\ doc' = Lifecycle(h, doc)
                BY <1>1, <1>7, <3>2 DEF Saved
            <4> QED BY <1>3, <4>1, LifecycleIs
        <3> QED BY <3>1, <3>2
    <2>2. CASE Known(h) # {}
        <3>1. PICK a : a = HttpAnswer(e.seq, h, IF same THEN 200 ELSE 409)
            OBVIOUS
        <3>2. Staged(work.obs, work.answers \cup {a})
            BY <1>1, <1>3, <1>7, <2>2, <3>1, ReplyStaged
        <3>3. a.type = "http" /\ a.hook = h /\ a.status = IF same THEN 200 ELSE 409
            BY <1>4, <3>1
        <3>4. \E x \in ToSet(obs) \cup ToSet(work.obs) : Witness(x, a)
            <4>1. CASE same
                <5>1. PICK x \in Known(h) : x.body = h.body
                    BY <4>1 DEF same
                <5>2. x \in ToSet(obs) \cup ToSet(work.obs) /\ x.id = h.id
                    BY <5>1 DEF Known
                <5> QED BY <3>3, <4>1, <5>1, <5>2 DEF Witness
            <4>2. CASE ~same
                <5>1. PICK x \in Known(h) : TRUE
                    BY <2>2
                <5>2. x.body # h.body
                    BY <4>2, <5>1 DEF same
                <5>3. x \in ToSet(obs) \cup ToSet(work.obs) /\ x.id = h.id
                    BY <5>1 DEF Known
                <5> QED BY <3>3, <4>2, <5>2, <5>3 DEF Witness
            <4> QED BY <4>1, <4>2
        <3> QED BY <1>3, <2>1, <3>2, <3>3, <3>4, HookAnswered
    <2>3. CASE Known(h) = {}
        <3>1. PICK a : a = HttpAnswer(e.seq, h, 200)
            OBVIOUS
        <3>2. PICK o : o = Append(work.obs, new)
            OBVIOUS
        <3>3. PICK w : w = [work EXCEPT !.obs = Append(@, new)]
            OBVIOUS
        <3>4. /\ Whole(w) /\ w.batch = work.batch /\ w.at = work.at
              /\ w.obs = o /\ w.answers = work.answers
            BY <1>3, <3>2, <3>3 DEF Whole
        <3>5. Staged(o, work.answers \cup {a})
            BY <1>1, <1>7, <2>3, <3>1, <3>3, <3>4, ReplyStaged
        <3>6. /\ o \in Seq(ToSet(o)) /\ Len(o) = Len(work.obs) + 1 /\ Len(work.obs) \in Nat
              /\ o[Len(work.obs) + 1] = new /\ \A i \in 1..Len(work.obs) : o[i] = work.obs[i]
              /\ ToSet(o) = ToSet(work.obs) \cup {new}
            BY <1>3, <3>2, AppendRanged
        <3>7. new.id = h.id /\ new.body = h.body
            BY DEF new
        <3>8. /\ \A i \in 1..Len(obs) : obs[i].id # h.id
              /\ \A i \in 1..Len(work.obs) : work.obs[i].id # h.id
            <4>1. DOMAIN obs = 1..Len(obs) /\ DOMAIN work.obs = 1..Len(work.obs)
                BY <1>3
            <4> QED BY <2>3, <4>1 DEF Known, ToSet
        <3>9. \A i \in 1..Len(o) : i \in 1..Len(work.obs) \/ i = Len(work.obs) + 1
            BY <3>6
        <3>10. OnceIn(o)
            BY <1>3, <3>6, <3>7, <3>8, <3>9 DEF OnceIn
        <3>11. \A i \in 1..Len(obs), j \in 1..Len(o) : obs[i].id # o[j].id
            BY <1>3, <3>6, <3>7, <3>8, <3>9
        <3>12. Witness(new, a) /\ a.type = "http"
            BY <1>4, <3>1, <3>7 DEF Witness
        <3> QED BY <2>1, <3>5, <3>6, <3>10, <3>11, <3>12, HookAnswered
    <2> QED BY <2>2, <2>3
<1> QED BY <1>5, <1>6, <1>7

-----------------------------------------------------------------------------
(* An event of the batch is handled, whatever its kind.                    *)
LEMMA HandleEventKeeps == ASSUME IInv, HandleEvent PROVE IInv'
<1>1. work.step = "event" /\ UNCHANGED <<inbox, obs, answers, enrolled>>
    BY DEF HandleEvent
<1>2. /\ work.batch[work.at].type \in {"http", "enroll", "timer"}
      /\ work.batch[work.at].type = "http" => work.batch[work.at].hook \in Deliveries
    <2>1. /\ work.at \in 1..Len(work.batch) /\ work.at \in Nat /\ Len(work.batch) \in Nat
          /\ Len(work.batch) <= Len(inbox) /\ work.batch[work.at] = inbox[work.at]
        BY <1>1, HandlingFacts
    <2>2. inbox \in Seq(ToSet(inbox))
        BY DEF IInv, Shapes
    <2>3. work.at \in 1..Len(inbox)
        BY <2>1, <2>2
    <2> QED BY <2>1, <2>3 DEF IInv, InboxFits
<1>3. CASE work.batch[work.at].type = "timer"
    <2>1. OnTimer
        BY <1>3 DEF HandleEvent
    <2> QED BY <1>1, <2>1, OnTimerKeeps
<1>4. CASE work.batch[work.at].type = "enroll"
    <2>1. OnEnroll
        BY <1>4 DEF HandleEvent
    <2> QED BY <1>1, <1>4, <2>1, OnEnrollKeeps
<1>5. CASE work.batch[work.at].type = "http"
    <2>1. OnHttp
        BY <1>5 DEF HandleEvent
    <2> QED BY <1>1, <1>2, <1>5, <2>1, OnHttpKeeps
<1> QED BY <1>2, <1>3, <1>4, <1>5

LEMMA InitInv == ASSUME GitHubInit PROVE IInv
<1>1. ~Busy /\ work.step = "idle" /\ work = Idle
    BY DEF GitHubInit, Busy, Idle
<1>2. inbox \in Seq(ToSet(inbox)) /\ obs \in Seq(ToSet(obs)) /\ Len(inbox) = 0 /\ Len(obs) = 0
    <2>1. inbox = << >> /\ obs = << >>
        BY DEF GitHubInit
    <2> QED BY <2>1, Ranged
<1>3. Record(doc) /\ doc.app = doc.result /\ enrolled = 0 /\ answers = {}
    BY DEF GitHubInit, NoApp, Record
<1>4. Shapes /\ BatchFits
    BY <1>1, <1>2, <1>3 DEF Shapes, BatchFits
<1>5. InboxFits /\ ObservedOnce
    BY <1>1, <1>2 DEF InboxFits, ObservedOnce, OnceIn
<1>6. HooksFit /\ EnrollsFit
    BY <1>1, <1>3 DEF HooksFit, EnrollsFit, Witnessed, Refused
<1> QED BY <1>4, <1>5, <1>6 DEF IInv

(* Every step keeps the delivery in progress and what is committed apart.  *)
LEMMA NextInv == ASSUME IInv, [GitHubNext]_githubVars PROVE IInv'
<1>1. CASE InstallApp \/ Receive \/ StageEnrollment \/ Age \/ Fire \/ Setup
    BY <1>1, WorldKeeps
<1>2. CASE GitHubCrash
    BY <1>2, IdleKeeps DEF GitHubCrash
<1>3. CASE Take \/ Load \/ HandleEvent \/ Commit
    BY <1>3, TakeKeeps, LoadKeeps, HandleEventKeeps, CommitKeeps
<1>4. CASE UNCHANGED githubVars
    <2>1. Record(doc')
        BY <1>4 DEF githubVars, IInv, Shapes, Record
    <2> QED BY <1>4, <2>1, BesideKeeps DEF githubVars
<1> QED BY <1>1, <1>2, <1>3, <1>4 DEF GitHubNext, Component

(* However often a webhook is sent, in one batch or across restarts, it is *)
(* observed once; one answered 200 is observed with its body, one answered *)
(* 409 with another (normalize).  An enrollment answered with an error is  *)
(* not the App in force (enroll).                                          *)
THEOREM HonestAnswers == GitHubSpec => []AnswersAreHonest
<1>1. GitHubInit => IInv
    BY InitInv
<1>2. IInv /\ [GitHubNext]_githubVars => IInv'
    BY NextInv
<1>3. IInv => AnswersAreHonest
    <2> SUFFICES ASSUME IInv PROVE AnswersAreHonest
        OBVIOUS
    <2>1. obs \in Seq(ToSet(obs))
        BY DEF IInv, Shapes
    <2>2. DOMAIN obs = 1..Len(obs)
        BY <2>1
    <2>3. \A i, j \in DOMAIN obs : obs[i].id = obs[j].id => i = j
        BY <2>2 DEF IInv, ObservedOnce, OnceIn
    <2>4. ASSUME NEW a \in answers, a.type = "http", a.status \in {200, 409}
          PROVE  \E i \in DOMAIN obs :
                   obs[i].id = a.hook.id /\ (obs[i].body = a.hook.body <=> a.status = 200)
        <3>1. PICK o \in ToSet(obs) : Witness(o, a)
            BY <2>4 DEF IInv, HooksFit, Witnessed, Judged
        <3>2. PICK i \in DOMAIN obs : o = obs[i]
            BY DEF ToSet
        <3> QED BY <3>1, <3>2 DEF Witness
    <2>5. \A a \in {b \in answers : b.type = "enroll"} : ~a.ok => doc.app # a.id
        BY DEF IInv, EnrollsFit, Refused
    <2> QED BY <2>3, <2>4, <2>5 DEF AnswersAreHonest
<1> QED BY <1>1, <1>2, <1>3, PTL DEF GitHubSpec
==============================================================================
