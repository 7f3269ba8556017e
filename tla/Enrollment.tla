------------------------------ MODULE Enrollment ------------------------------
(***************************************************************************)
(* Enrolling and keeping a model subscription (plugins/openai-codex).  The *)
(* credential record is shared: the CLI stages an enrollment in it, the    *)
(* component turns that into a device login it polls on timers, seals the  *)
(* tokens, and replaces them when they expire.  Every writer replaces the  *)
(* exact record it read.  What the component writes there is not part of   *)
(* its commit: a delivery whose commit fails is handled again.             *)
(***************************************************************************)
EXTENDS Naturals, Sequences, SequencesExt, FiniteSets

CONSTANTS Ids, MaxPolls, MaxSwaps, MaxFailures, MaxRefreshes

(* Enrollments are numbered in the order they are begun; 0 stands for none.  *)
ASSUME EnrollmentAssumption == Ids \subseteq Nat \ {0}

VARIABLES
    record,     \* the stored credential: tokens, staged, device, completed
    cli,        \* enrollments staged and not yet requested
    inbox,      \* events the component has to handle, in order
    timers,     \* timer.set events, by their idempotency key
    fired,      \* those whose timer.fired is in the stream
    work,       \* the delivery being handled, or Idle
    used, expired, \* history: enrollment ids used; clock: ids past their expiry
    issued,     \* the provider: the refresh token it honours
    failures, refreshes
enrollmentVars == <<record, cli, inbox, timers, fired, work, used, expired, issued, failures, refreshes>>

None == 0
NoTokens == [of |-> None, version |-> 0]
Empty == [tokens |-> NoTokens, staged |-> None, device |-> << >>, completed |-> None]
Idle == [step |-> "idle"]
Request(id) == [kind |-> "request", id |-> id]
Timer(d) == [kind |-> "timer", id |-> d.id, due |-> d.due]
Device(id, due, code) == [id |-> id, due |-> due, code |-> code]

EnrollmentInit ==
    /\ record = Empty /\ cli = {} /\ inbox = << >> /\ timers = {} /\ fired = {} /\ work = Idle
    /\ used = {} /\ expired = {} /\ issued = 0 /\ failures = 0 /\ refreshes = 0

(* The CLI: stage_plugin_enrollment, then the request event; it may be gone  *)
(* in between.                                                               *)
Stage ==
    /\ cli = {}
    /\ \E id \in Ids \ used :
         /\ \A j \in used : j < id
         /\ record' = [record EXCEPT !.staged = id] /\ cli' = {id} /\ used' = used \cup {id}
    /\ UNCHANGED <<inbox, timers, fired, work, expired, issued, failures, refreshes>>
AppendRequest ==
    /\ \E id \in cli : inbox' = Append(inbox, Request(id)) \/ inbox' = inbox
    /\ cli' = {}
    /\ UNCHANGED <<record, timers, fired, work, used, expired, issued, failures, refreshes>>

(* The scheduler fires a timer; time passes the expiry of an enrollment.     *)
FireTimer ==
    /\ \E t \in timers \ fired : fired' = fired \cup {t} /\ inbox' = Append(inbox, t)
    /\ UNCHANGED <<record, cli, timers, work, used, expired, issued, failures, refreshes>>
Clock ==
    /\ \E id \in used \ expired : expired' = expired \cup {id}
    /\ UNCHANGED <<record, cli, inbox, timers, fired, work, used, issued, failures, refreshes>>

(* The outcome of a delivery: emit these timers and commit; or an error,     *)
(* after which the same event is delivered again.                            *)
Emit(ds) == [step |-> "commit", out |-> {Timer(d) : d \in ds}]
Wait(step, e, prev) == [step |-> step, event |-> e, prev |-> prev]
(* compare_and_swap of the record a step read, and the step after it; a lost *)
(* swap is an error.                                                         *)
Replaced(new, next) ==
    IF record = work.prev THEN record' = new /\ work' = next ELSE record' = record /\ work' = Idle

(* start_device_enrollment, up to the request for a device code.             *)
StartAgain(e) == record.staged = None /\ record.device # << >> /\ record.device[1].id = e.id
BeginRequest(e) ==
    /\ UNCHANGED record
    /\ work' = IF record.completed = e.id THEN Emit({})
               ELSE IF StartAgain(e) THEN Emit({record.device[1]})
               ELSE IF record.staged # e.id THEN Emit({})
               ELSE Wait("start", e, record)
Start ==
    /\ work.step = "start"
    /\ LET id == work.event.id
           device == Device(id, 1, FALSE)
       IN  \/ id \in expired /\ Replaced([work.prev EXCEPT !.staged = None, !.completed = id], Emit({}))
           \/ /\ id \notin expired
              /\ Replaced([work.prev EXCEPT !.staged = None, !.device = <<device>>], Emit({device}))
           \/ id \notin expired /\ UNCHANGED record /\ work' = Idle     \* the endpoint failed
    /\ UNCHANGED <<cli, inbox, timers, fired, used, expired, issued, failures, refreshes>>

(* poll_device_enrollment, up to what it asks the provider.                  *)
RearmNever(d) == {}
Rearm(d) == {d}
BeginTimer(e) ==
    /\ UNCHANGED record
    /\ LET d == record.device
       IN  work' = IF d = << >> \/ (d # << >> /\ d[1].id # e.id) THEN Emit({})
                   ELSE IF record.staged \notin {None, e.id} THEN Emit({})
                   ELSE IF e.due < d[1].due THEN Emit(Rearm(d[1]))
                   ELSE IF e.id \in expired THEN Wait("expire", e, record)
                   ELSE IF d[1].code THEN Wait("exchange", e, record)
                   ELSE Wait("poll", e, record)
Over(r) == [r EXCEPT !.device = << >>, !.completed = r.device[1].id]
Expire ==
    /\ work.step = "expire" /\ Replaced(Over(work.prev), Emit({}))
    /\ UNCHANGED <<cli, inbox, timers, fired, used, expired, issued, failures, refreshes>>
Poll ==
    /\ work.step = "poll"
    /\ LET d == work.prev.device[1]
           later == Device(d.id, d.due + 1, FALSE)
           approved == [work.prev EXCEPT !.device = <<Device(d.id, d.due, TRUE)>>]
       IN  \/ d.due < MaxPolls /\ Replaced([work.prev EXCEPT !.device = <<later>>], Emit({later}))
           \/ Replaced(Over(work.prev), Emit({}))                    \* refused
           \/ Replaced(approved, Wait("exchange", work.event, approved))
           \/ UNCHANGED record /\ work' = Idle            \* the endpoint failed
    /\ UNCHANGED <<cli, inbox, timers, fired, used, expired, issued, failures, refreshes>>

(* exchange_device_code and seal_tokens: a record that only gained what does *)
(* not concern this login is adopted and tried again.                        *)
PendingMatchesAny(actual, expected) == actual.device # << >>
PendingMatches(actual, expected) ==
    actual.device = expected.device /\ actual.staged = expected.staged
Exchange ==
    /\ work.step = "exchange"
    /\ UNCHANGED record
    /\ \/ /\ issued < MaxSwaps /\ issued' = issued + 1
          /\ work' = [step |-> "seal", event |-> work.event, asked |-> work.prev, expected |-> work.prev,
                      tokens |-> [of |-> work.event.id, version |-> issued + 1], tries |-> 1]
       \/ UNCHANGED issued /\ work' = Idle
    /\ UNCHANGED <<cli, inbox, timers, fired, used, expired, failures, refreshes>>
Sealed(r, tokens) == [r EXCEPT !.completed = IF r.device = << >> THEN @ ELSE r.device[1].id,
                               !.device = << >>, !.staged = None, !.tokens = tokens]
Seal ==
    /\ work.step = "seal"
    /\ IF record = work.expected THEN record' = Sealed(record, work.tokens) /\ work' = Emit({})
       ELSE /\ UNCHANGED record
            /\ work' = IF ~PendingMatches(record, work.asked) THEN Emit({})
                       ELSE IF work.tries = 4 THEN Idle
                       ELSE [work EXCEPT !.expected = record, !.tries = @ + 1]
    /\ UNCHANGED <<cli, inbox, timers, fired, used, expired, issued, failures, refreshes>>

(* complete: a 401 exchanges the refresh token; a lost swap adopts the       *)
(* tokens of the winner.                                                     *)
BeginModel ==
    /\ work = Idle /\ record.tokens.version # 0 /\ refreshes < MaxRefreshes /\ issued < MaxSwaps
    /\ record.tokens.version = issued
    /\ refreshes' = refreshes + 1 /\ issued' = issued + 1
    /\ work' = [step |-> "refresh", prev |-> record, version |-> issued + 1]
    /\ UNCHANGED <<record, cli, inbox, timers, fired, used, expired, failures>>
Refresh ==
    /\ work.step = "refresh"
    /\ Replaced([work.prev EXCEPT !.tokens.version = work.version], Idle)
    /\ UNCHANGED <<cli, inbox, timers, fired, used, expired, issued, failures, refreshes>>

Handle ==
    /\ work = Idle /\ inbox # << >>
    /\ LET e == Head(inbox) IN IF e.kind = "request" THEN BeginRequest(e) ELSE BeginTimer(e)
    /\ UNCHANGED <<cli, inbox, timers, fired, used, expired, issued, failures, refreshes>>
Commit ==
    /\ work.step = "commit" /\ work' = Idle
    /\ \/ timers' = timers \cup work.out /\ inbox' = Tail(inbox) /\ UNCHANGED failures
       \/ failures < MaxFailures /\ failures' = failures + 1 /\ UNCHANGED <<timers, inbox>>
    /\ UNCHANGED <<record, cli, fired, used, expired, issued, refreshes>>
(* The process dies; setup sets the timer of the device login it finds.      *)
Restart ==
    /\ work # Idle /\ failures < MaxFailures /\ failures' = failures + 1 /\ work' = Idle
    /\ timers' = timers \cup {Timer(record.device[i]) : i \in DOMAIN record.device}
    /\ UNCHANGED <<record, cli, inbox, fired, used, expired, issued, refreshes>>

EnrollmentComponent == Handle \/ Start \/ Expire \/ Poll \/ Exchange \/ Seal \/ Commit \/ Refresh
EnrollmentNext == Stage \/ AppendRequest \/ FireTimer \/ Clock \/ EnrollmentComponent \/ BeginModel \/ Restart
EnrollmentSpec == EnrollmentInit /\ [][EnrollmentNext]_enrollmentVars
EnrollmentFairSpec ==
    /\ EnrollmentSpec
    /\ WF_enrollmentVars(EnrollmentComponent) /\ WF_enrollmentVars(FireTimer)
    /\ WF_enrollmentVars(Clock)

(* Tokens of one enrollment never replace those of a later one, and are only *)
(* sealed while no later enrollment is staged.                               *)
NewestWins ==
    [][record'.tokens.of # record.tokens.of =>
        /\ record'.tokens.of > record.tokens.of
        /\ record.staged \in {None, record'.tokens.of}]_enrollmentVars

(* A device login ends: sealed, refused, expired, or superseded by an        *)
(* enrollment that was begun after it.                                       *)
LoginEnds == \A id \in Ids :
    (record.device # << >> /\ record.device[1].id = id)
        ~> (record.device = << >> \/ \E later \in used : later > id)
==============================================================================
