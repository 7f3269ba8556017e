----------------------------- MODULE MCEngine -----------------------------
(* Engine on small instances: the environments of its runs. *)
EXTENDS Engine

CONSTANTS o1, o2, o3

(* Nothing but one job that runs a cell and completes. *)
Plain == [obs |-> {o1}, answers |-> {"js", "complete"}, routes |-> {"new"},
          cells |-> {"done"}, admissions |-> {"continue"}, faults |-> {}, max |-> 0, cycles |-> 0,
          explicit |-> FALSE]

(* One job: every way a cell can end, compaction and refused requests. *)
OneJob == [Plain EXCEPT
    !.answers = {"js", "complete", "invalid", "compact", "again"},
    !.cells = {"done", "same", "error", "query", "capability", "history", "hang"},
    !.admissions = {"continue", "compact", "reject"}]

(* Two messages: corrections and cancellations while cells run. *)
Corrections == [Plain EXCEPT
    !.obs = {o1, o2}, !.answers = {"js"}, !.cells = {"done", "capability"},
    !.routes = {"amend", "cancel"}]
CorrectedChild == [Plain EXCEPT
    !.obs = {o1, o2}, !.answers = {"js"}, !.cells = {"done", "query"}, !.routes = {"amend"}]
(* Questions to the user, and failed associations. *)
Questions == [Plain EXCEPT
    !.obs = {o1, o2, o3}, !.answers = {"complete"}, !.admissions = {"continue", "limit"},
    !.routes = {"new", "amend", "clarify", "resolve", "invalid", "failed"}]

(* The sessions are lost while cells and children are under way. *)
LostRepl == [Plain EXCEPT
    !.answers = {"js"}, !.cells = {"done", "query"}, !.faults = {"lost", "resource"}, !.max = 2]

(* Sleeping, provider failures and cycles that run out of time. *)
Time == [Plain EXCEPT
    !.answers = {"js", "fail", "wait-time", "wait-input", "failed"},
    !.faults = {"age"}, !.max = 1, !.cycles = 1]

(* The operator cancels, resumes and reconciles. *)
Operator == [Plain EXCEPT
    !.answers = {"js", "wait-time", "unknown"},
    !.cells = {"done", "capability"}, !.faults = {"cancel", "resume-job", "unknown"}, !.max = 2]

(* Cognition exhausts its memory on an input. *)
Exhausted == [Plain EXCEPT
    !.obs = {o1, o2}, !.answers = {"js"}, !.faults = {"defer"}, !.max = 1,
    !.routes = {"amend"}]

SafetyProfiles == {OneJob, Corrections, CorrectedChild, Questions, LostRepl, Time, Operator, Exhausted}
OperatorOnly == {Operator}
=============================================================================
