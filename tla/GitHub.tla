------------------------------- MODULE GitHub -------------------------------
(***************************************************************************)
(* The GitHub provider (plugins/github): webhook deliveries that GitHub    *)
(* may repeat, alter and reorder, an App enrolled through the shared       *)
(* credential record, and an installation token renewed by a chain of      *)
(* timers.  The record is replaced during a delivery, by comparison with   *)
(* what was read; observations, answers, the next timer and the chain's    *)
(* state are committed after it.  A timer is named by its due time, and    *)
(* only equality of those is compared: a new timer takes an unused name.   *)
(***************************************************************************)
EXTENDS Naturals, Sequences, FiniteSets, FiniteSetsExt, SequencesExt

CONSTANTS
    Deliveries,    \* webhook requests: [id, body, kind, inst]
    Installations, \* installation ids GitHub may give the App
    EventBatch,    \* events in one delivery
    MaxInbox,      \* bound: events waiting when the world adds one
    MaxRequests,   \* bound: webhook requests received
    MaxEnrolled,   \* bound: enrollments staged by the CLI
    MaxFaults      \* bound: crashes, and answers of the API that fail

(* A delivery takes at least one event; the events GitHub sends.             *)
ASSUME GitHubAssumption ==
    /\ EventBatch \in Nat \ {0}
    /\ \A d \in Deliveries : d.kind \in {"malformed", "push", "created", "deleted"}

VARIABLES
    installed,  \* GitHub: the owner's installation, 0 when there is none
    doc,        \* the credential record: app, installation, exports, staged, result
    due,        \* state refresh/due
    timers,     \* timers set and not fired
    inbox,      \* events to deliver
    obs,        \* the plugin's observations: [id, body]
    answers,    \* http and enrollment answers committed
    up, work,   \* the component runs; the delivery in progress, or Idle
    received, enrolled, faults
githubVars == <<installed, doc, due, timers, inbox, obs, answers, up, work,
                received, enrolled, faults>>

Nothing == 0
Idle == [step |-> "idle"]
NoExports == [inst |-> Nothing, fresh |-> FALSE]
NoApp == [app |-> Nothing, installation |-> Nothing, exports |-> NoExports, staged |-> Nothing, result |-> Nothing]
Timer(t) == [type |-> "timer", due |-> t]
GitHubInit ==
    /\ installed = Nothing /\ doc = NoApp /\ due = Nothing /\ timers = {} /\ inbox = << >>
    /\ obs = << >> /\ answers = {} /\ up = FALSE /\ work = Idle
    /\ received = 0 /\ enrolled = 0 /\ faults = 0

(* The world: an installation is made or removed, a webhook request arrives, *)
(* the CLI stages an enrollment and asks for it, a token comes near its      *)
(* expiry, the scheduler fires a timer.                                      *)
InstallApp ==
    /\ \E i \in Installations \cup {Nothing} : i > installed /\ installed' = i
    /\ UNCHANGED <<doc, due, timers, inbox, obs, answers, up, work, received, enrolled, faults>>
Receive ==
    /\ Len(inbox) < MaxInbox /\ received < MaxRequests /\ received' = received + 1
    /\ \E d \in Deliveries : inbox' = Append(inbox, [type |-> "http", seq |-> received', hook |-> d])
    /\ UNCHANGED <<installed, doc, due, timers, obs, answers, up, work, enrolled, faults>>
StageEnrollment ==
    /\ Len(inbox) < MaxInbox /\ enrolled < MaxEnrolled /\ enrolled' = enrolled + 1
    /\ doc' = [doc EXCEPT !.staged = enrolled']
    /\ inbox' = Append(inbox, [type |-> "enroll", id |-> enrolled'])
    /\ UNCHANGED <<installed, due, timers, obs, answers, up, work, received, faults>>
Age ==
    /\ doc.exports.fresh /\ faults < MaxFaults /\ faults' = faults + 1
    /\ doc' = [doc EXCEPT !.exports.fresh = FALSE]
    /\ UNCHANGED <<installed, due, timers, inbox, obs, answers, up, work, received, enrolled>>
Fire ==
    /\ \E t \in timers : timers' = timers \ {t} /\ inbox' = Append(inbox, Timer(t))
    /\ UNCHANGED <<installed, doc, due, obs, answers, up, work, received, enrolled, faults>>

(* setup: a chain of its own, whatever timers an earlier run left.           *)
Unused(more) ==
    LET taken == timers \cup more \cup {due} \cup {e.due : e \in {f \in ToSet(inbox) : f.type = "timer"}}
    IN  Min(1..(Cardinality(taken) + 1) \ taken)
Setup ==
    /\ ~up /\ up' = TRUE
    /\ due' = Unused({}) /\ timers' = timers \cup {due'}
    /\ UNCHANGED <<installed, doc, inbox, obs, answers, work, received, enrolled, faults>>
GitHubCrash ==
    /\ up /\ faults < MaxFaults /\ faults' = faults + 1 /\ up' = FALSE /\ work' = Idle
    /\ UNCHANGED <<installed, doc, due, timers, inbox, obs, answers, received, enrolled>>

(* handle: a batch is taken, each event reads the record and may replace it. *)
Take ==
    /\ up /\ work = Idle /\ inbox # << >>
    /\ work' = [step |-> "event", batch |-> SubSeq(inbox, 1, Min({EventBatch, Len(inbox)})), at |-> 1,
                due |-> due, timers |-> {}, obs |-> << >>, answers |-> {}, prev |-> doc]
    /\ UNCHANGED <<installed, doc, due, timers, inbox, obs, answers, up, received, enrolled, faults>>
Load ==
    /\ work.step = "load" /\ work.at <= Len(work.batch)
    /\ work' = [work EXCEPT !.step = "event", !.prev = doc]
    /\ UNCHANGED <<installed, doc, due, timers, inbox, obs, answers, up, received, enrolled, faults>>
Done(w) == [w EXCEPT !.step = "load", !.at = @ + 1, !.prev = NoApp]
Saved == doc = work.prev
Faulty == faults < MaxFaults /\ faults' = faults + 1

(* refresh: the installation the API reports, the cached exports or a new    *)
(* token; a failure clears the record.  Nothing is saved without an App.     *)
Cached(d, inst) == d.installation = inst /\ d.exports.inst = inst /\ d.exports.fresh
Cleared(d) == [d EXCEPT !.installation = Nothing, !.exports = NoExports]
Refreshed(d, inst) ==
    IF inst = Nothing THEN Cleared(d)
    ELSE IF Cached(d, inst) THEN d
    ELSE [d EXCEPT !.installation = inst, !.exports = [inst |-> inst, fresh |-> TRUE]]
RefreshDue(active, fired) == active # Nothing /\ active = fired
(* The next timer of the chain and the state that names it.                  *)
RescheduledTimerOnly(w, t) == [w EXCEPT !.timers = @ \cup {t}]
Rescheduled(w, t) == [w EXCEPT !.timers = @ \cup {t}, !.due = t]
OnTimer ==
    LET e == work.batch[work.at]
        next == Unused(work.timers \cup {work.due})
    IN  IF ~RefreshDue(work.due, e.due)
        THEN work' = Done(work) /\ UNCHANGED <<doc, faults>>
        ELSE /\ \/ /\ doc' = IF Saved /\ work.prev.app # Nothing THEN Refreshed(work.prev, installed) ELSE doc
                   /\ UNCHANGED faults
                \/ /\ Faulty
                   /\ doc' = IF Saved /\ work.prev.app # Nothing THEN Cleared(work.prev) ELSE doc
             /\ work' = Done(Rescheduled(work, next))

(* enroll: a result it has already, input that is gone, or the App the input *)
(* names.                                                                    *)
Enrolled(id, ok) == [type |-> "enroll", id |-> id, ok |-> ok]
Reply(w, a) == Done([w EXCEPT !.answers = @ \cup {a}])
OnEnroll ==
    LET id == work.batch[work.at].id
        gone == [work.prev EXCEPT !.staged = Nothing]
    IN  IF work.prev.result = id
        THEN work' = Reply(work, Enrolled(id, TRUE)) /\ UNCHANGED <<doc, faults>>
        ELSE IF work.prev.staged # id
        THEN work' = Reply(work, Enrolled(id, FALSE)) /\ UNCHANGED <<doc, faults>>
        ELSE \/ /\ doc' = IF Saved THEN [Cleared(gone) EXCEPT !.app = id, !.result = id] ELSE doc
                /\ work' = Reply(work, Enrolled(id, Saved)) /\ UNCHANGED faults
             \/ /\ Faulty /\ doc' = IF Saved THEN gone ELSE doc
                /\ work' = Reply(work, Enrolled(id, FALSE))
             \/ Faulty /\ UNCHANGED doc /\ work' = Reply(work, Enrolled(id, FALSE))   \* expired

(* normalize: what a request is answered before deliveries are compared.     *)
Owned(h) == h.inst \in Installations \cup {Nothing}     \* of the configured owner
Admitted(h, d) ==
    CASE h.kind = "malformed" -> {400}
      [] h.kind # "malformed" /\ d.app = Nothing -> {503}
      [] h.kind = "push" /\ d.app # Nothing ->
           IF ~Owned(h) THEN {403, 503}
           ELSE IF d.exports.inst # Nothing /\ d.exports.fresh /\ d.installation # Nothing THEN {200, 403, 503} ELSE {503}
      [] h.kind \in {"created", "deleted"} /\ d.app # Nothing -> IF Owned(h) THEN {200} ELSE {403}
Lifecycle(h, d) ==
    CASE h.kind = "deleted" -> Cleared(d)
      [] h.kind = "created" -> [d EXCEPT !.installation = h.inst,
                                         !.exports = IF d.installation # h.inst THEN NoExports ELSE @]
      [] OTHER -> d
(* The observation of this delivery that is committed, or staged before it.  *)
KnownCommitted(h) == {o \in ToSet(obs) : o.id = h.id}
Known(h) == {o \in ToSet(obs) \cup ToSet(work.obs) : o.id = h.id}
HttpAnswer(seq, h, status) == [type |-> "http", seq |-> seq, hook |-> h, status |-> status]
OnHttp ==
    LET e == work.batch[work.at]
        h == e.hook
        same == \E o \in Known(h) : o.body = h.body
    IN  /\ UNCHANGED faults
        /\ \E status \in Admitted(h, work.prev) :
             IF status # 200
             THEN work' = Reply(work, HttpAnswer(e.seq, h, status)) /\ UNCHANGED doc
             ELSE IF h.kind # "push" /\ ~Saved
             THEN work' = Idle /\ UNCHANGED doc          \* the delivery fails, and comes again
             ELSE /\ doc' = IF h.kind = "push" THEN doc ELSE Lifecycle(h, work.prev)
                  /\ work' = IF Known(h) # {}
                             THEN Reply(work, HttpAnswer(e.seq, h, IF same THEN 200 ELSE 409))
                             ELSE Reply([work EXCEPT !.obs = Append(@, [id |-> h.id, body |-> h.body])],
                                        HttpAnswer(e.seq, h, 200))
HandleEvent ==
    /\ work.step = "event"
    /\ LET e == work.batch[work.at]
       IN  CASE e.type = "timer" -> OnTimer
             [] e.type = "enroll" -> OnEnroll
             [] e.type = "http" -> OnHttp
    /\ UNCHANGED <<installed, due, timers, inbox, obs, answers, up, received, enrolled>>
Commit ==
    /\ work.step = "load" /\ work.at > Len(work.batch)
    /\ due' = work.due /\ timers' = timers \cup work.timers
    /\ obs' = obs \o work.obs /\ answers' = answers \cup work.answers
    /\ inbox' = SubSeq(inbox, Len(work.batch) + 1, Len(inbox)) /\ work' = Idle
    /\ UNCHANGED <<installed, doc, up, received, enrolled, faults>>

Component == Setup \/ Take \/ Load \/ HandleEvent \/ Commit
GitHubNext == InstallApp \/ Receive \/ StageEnrollment \/ Age \/ Fire \/ GitHubCrash \/ Component
GitHubSpec == GitHubInit /\ [][GitHubNext]_githubVars
GitHubFairSpec == GitHubSpec /\ WF_githubVars(Component) /\ WF_githubVars(Fire)

(* A delivery is observed once, however often it is sent, in one batch or    *)
(* across restarts; a webhook answered 200 is observed with its body, one    *)
(* answered 409 with another.  An enrollment answered with an error is not   *)
(* the one in force.                                                         *)
AnswersAreHonest ==
    /\ \A i, j \in DOMAIN obs : obs[i].id = obs[j].id => i = j
    /\ \A a \in {b \in answers : b.type = "http" /\ b.status \in {200, 409}} :
         \E i \in DOMAIN obs : obs[i].id = a.hook.id /\ (obs[i].body = a.hook.body <=> a.status = 200)
    /\ \A a \in {b \in answers : b.type = "enroll"} : ~a.ok => doc.app # a.id

(* The token of the owner's installation is obtained, whatever webhooks,     *)
(* crashes and failures did to the record before.                            *)
TokenObtained == \A i \in Installations :
    doc.app # Nothing /\ installed = i ~> doc.exports.inst = i \/ installed # i
=============================================================================
