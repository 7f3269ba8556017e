-------------------------------- MODULE Email --------------------------------
(***************************************************************************)
(* The mail receiver: one IMAP session that catches up from a stored       *)
(* cursor in batches, then idles until the server announces an arrival or  *)
(* the IDLE must be renewed.  A mailbox is identified by its UIDVALIDITY;  *)
(* a renumbered one starts over at its boundary and says so in the stream. *)
(* Any command of the session reads, and drops, what the server pushed     *)
(* before completing it.                                                   *)
(***************************************************************************)
EXTENDS Naturals, FiniteSetsExt

CONSTANTS
    FetchLimit,    \* messages of one catch-up, the configuration's batch
    MaxUid, MaxDrops, MaxRenumbers, MaxExpunged  \* bounds: UIDs, lost connections, renumberings, expunged mail

ASSUME EmailAssumption == FetchLimit \in Nat \ {0}

VARIABLES
    validity, present, next,    \* the mailbox: UIDVALIDITY, its UIDs, UIDNEXT
    importHistory,              \* the configuration's import_history
    stored,                     \* state: the cursor, NoCursor before the first session
    session,                    \* "off", "search", "fetch", "entering", "idle" or "ended"
    seen, found, batch,         \* the session's cursor, UIDs to fetch, observations so far
    push,                       \* an EXISTS the server pushed and nobody read
    log,                        \* the observations and notices in the stream, by idempotency key
    owed, gone,                 \* history: messages to be observed, messages expunged
    drops                       \* connections lost
mailbox == <<validity, present, next, owed, gone>>
emailVars == <<mailbox, importHistory, stored, session, seen, found, batch, push, log, drops>>

NoCursor == [validity |-> 0, last |-> 0]
Message(u) == [validity |-> validity, uid |-> u]
Notice(v) == [validity |-> v, uid |-> 0]
EmailInit ==
    /\ validity = 1 /\ present = {1} /\ next = 2
    /\ importHistory \in BOOLEAN /\ owed = IF importHistory THEN {Message(1)} ELSE {}
    /\ gone = {} /\ stored = NoCursor /\ session = "off" /\ seen = NoCursor
    /\ found = {} /\ batch = {} /\ push = FALSE /\ log = {} /\ drops = 0

Connected == session \notin {"off", "ended"}
(* The server: mail arrives and is expunged; a mailbox is renumbered only    *)
(* under no session, and what it holds gets new UIDs.                        *)
Arrive ==
    /\ next <= MaxUid /\ next' = next + 1 /\ present' = present \cup {next}
    /\ owed' = IF (stored = NoCursor /\ importHistory) \/ stored.validity = validity
               THEN owed \cup {Message(next)} ELSE owed
    /\ push' = Connected
    /\ UNCHANGED <<validity, gone, importHistory, stored, session, seen, found, batch, log, drops>>
Expunge ==
    /\ Cardinality(gone) < MaxExpunged
    /\ \E u \in present : present' = present \ {u} /\ gone' = gone \cup {Message(u)}
    /\ UNCHANGED <<validity, next, owed, importHistory, stored, session, seen, found, batch, push, log, drops>>
Renumber ==
    /\ session = "off" /\ validity <= MaxRenumbers /\ validity' = validity + 1
    /\ present' = 1..Cardinality(present) /\ next' = Cardinality(present) + 1
    /\ owed' = IF stored # NoCursor THEN owed
               ELSE {[validity |-> validity', uid |-> u] : u \in IF importHistory THEN present' ELSE {}}
    /\ UNCHANGED <<gone, importHistory, stored, session, seen, found, batch, push, log, drops>>

(* resolve_cursor: the cursor a session resumes from and what it announces.  *)
Boundary == next - 1
CursorAt(last) == [validity |-> validity, last |-> last]
Renumbered == stored # NoCursor /\ stored.validity # validity
Reconcile ==
    CursorAt(IF stored = NoCursor THEN (IF importHistory THEN 0 ELSE Boundary)
             ELSE IF Renumbered THEN Boundary ELSE Min({stored.last, Boundary}))
AnnouncedSilently == {}
Announcement == IF Renumbered THEN {Notice(validity)} ELSE {}

(* read_until_tagged: a command reads up to its completion, and drops what   *)
(* the server pushed before it.                                              *)
Completed == push' = FALSE

(* session: connect, authenticate, examine, then commit where it stands.     *)
(* An answer no retry changes ends the component.                            *)
Open ==
    /\ session = "off" /\ session' = "search" /\ Completed
    /\ seen' = Reconcile /\ stored' = Reconcile
    /\ log' = log \cup Announcement
    /\ UNCHANGED <<mailbox, importHistory, found, batch, drops>>
Refused ==
    /\ session = "off" /\ session' = "ended" /\ drops < MaxDrops /\ drops' = drops + 1
    /\ UNCHANGED <<mailbox, importHistory, stored, seen, found, batch, push, log>>

(* catch_up: search, fetch each UID, commit observations and cursor.         *)
(* The items of a FETCH response, none for an expunged UID.                   *)
Fetched(u) == IF u \in present THEN {Message(u)} ELSE {}
(* The first of the UIDs after the cursor.                                    *)
SearchSince == LET new == {u \in present : u > seen.last}
               IN  {u \in new : Cardinality({v \in new : v < u}) < FetchLimit}
Search ==
    /\ session = "search" /\ Completed
    /\ session' = IF SearchSince = {} THEN "entering" ELSE "fetch"
    /\ found' = SearchSince
    /\ UNCHANGED <<mailbox, importHistory, stored, seen, batch, log, drops>>
Unfetched == {u \in found : u > seen.last}
Fetch ==
    /\ session = "fetch" /\ Unfetched # {} /\ Completed
    /\ seen' = [seen EXCEPT !.last = Min(Unfetched)]
    /\ batch' = batch \cup Fetched(Min(Unfetched))
    /\ UNCHANGED <<mailbox, importHistory, stored, session, found, log, drops>>
CommitMail ==
    /\ session = "fetch" /\ Unfetched = {}
    /\ log' = log \cup batch /\ stored' = seen
    /\ session' = IF Cardinality(found) = FetchLimit THEN "search" ELSE "entering"
    /\ found' = {} /\ batch' = {}
    /\ UNCHANGED <<mailbox, importHistory, seen, push, drops>>

(* idle_begin, an announced arrival, the renewal, idle_end. *)
IdleBegin ==
    /\ session = "entering" /\ session' = "idle" /\ Completed
    /\ UNCHANGED <<mailbox, importHistory, stored, seen, found, batch, log, drops>>
Announced ==
    /\ session = "idle" /\ push /\ session' = "search" /\ Completed
    /\ UNCHANGED <<mailbox, importHistory, stored, seen, found, batch, log, drops>>
RenewNever == Announced
Renew ==
    /\ session = "idle" /\ session' = "search" /\ Completed
    /\ UNCHANGED <<mailbox, importHistory, stored, seen, found, batch, log, drops>>

(* The connection is lost or the process dies: the session is forgotten.     *)
Lose ==
    /\ Connected /\ drops < MaxDrops /\ drops' = drops + 1 /\ session' = "off"
    /\ seen' = NoCursor /\ found' = {} /\ batch' = {} /\ push' = FALSE
    /\ UNCHANGED <<mailbox, importHistory, stored, log>>

Session == Open \/ Search \/ Fetch \/ CommitMail \/ IdleBegin \/ Renew
EmailNext == Arrive \/ Expunge \/ Renumber \/ Refused \/ Session \/ Announced \/ Lose
EmailSpec == EmailInit /\ [][EmailNext]_emailVars
EmailFairSpec == EmailSpec /\ WF_emailVars(Session)

(* What the stored cursor has passed is in the stream, was expunged, or a     *)
(* notice says the mailbox was renumbered after it.                           *)
PassedBy(c, m) ==
    c # NoCursor /\ (m.validity < c.validity \/ (m.validity = c.validity /\ m.uid <= c.last))
NoneSkippedSilently == \A m \in owed :
    PassedBy(stored, m) => \/ m \in log \/ m \in gone
                          \/ \E n \in log : n.uid = 0 /\ n.validity > m.validity

(* A message that stays is observed, also when its announcement was dropped.  *)
MailObserved == \A v \in 1..MaxRenumbers + 1, u \in 1..MaxUid :
    LET m == [validity |-> v, uid |-> u]
    IN  m \in owed ~> m \in log \/ m \in gone \/ validity # v \/ session = "ended"
==============================================================================
