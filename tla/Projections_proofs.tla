------------------------ MODULE Projections_proofs --------------------------
(***************************************************************************)
(* Two states kept beside the log of events are what the log says.  The    *)
(* scheduler fires on a state that is the replay of its stream, and no     *)
(* receipt is committed twice; for any timers, schedules, calendars, sizes *)
(* of pages, restarts and rebuilds.  The memory plugin serves from a state *)
(* that holds exactly its own changes; for any writes, sizes of batches,   *)
(* limits, stops, discards and rebuilds.                                   *)
(***************************************************************************)
EXTENDS Scheduler, Memory, TLAPS, FiniteSetTheorems, NaturalsInduction

Entries == [rev : Nat \ {0}, timing : {"once", "cron"}, next : Nat, paused : BOOLEAN]
EventTyped(e) ==
    /\ e.kind \in {"set", "cancel", "fired", "updated", "observed"}
    /\ e.kind \in {"set", "cancel", "fired"} => e.id \in Timers
    /\ e.kind \in {"updated", "observed"} => e.id \in Schedules
    /\ e.kind = "set" => e.due \in Nat
    /\ e.kind = "updated" => e.is = Absent \/ e.is \in Entries
Log(L) == (\E S : L \in Seq(S)) /\ \A i \in 1 .. Len(L) : EventTyped(L[i])
SchedulerTypeOK ==
    /\ Log(stream)
    /\ kept = [x \in KeptIds |-> kept[x]]
    /\ \A t \in Timers : kept[t] = Absent \/ (kept[t] = [due |-> kept[t].due] /\ kept[t].due \in Nat)
    /\ \A s \in Schedules : kept[s] = Absent \/ kept[s] \in Entries
    /\ through \in 0 .. Len(stream) /\ now \in Nat

(* What the unread events will not tell is already as a replay would have  *)
(* it: the loop may read its own snapshots again, in pages.                *)
Replayed(L, x, to) == Entry(L, Empty, x, 0, to)
CaughtUp(L, K, from) ==
    \A x \in KeptIds : Telling(L, x, from, Len(L)) = {} => K[x] = Replayed(L, x, Len(L))

(* Before it fires the loop has read every snapshot, which only it writes; *)
(* while it waits its schedules are the last snapshots.                    *)
AtFire == loopAt = "fire" =>
    /\ \A x \in KeptIds : kept[x] = Replayed(stream, x, through)
    /\ \A s \in Schedules : Telling(stream, s, through, Len(stream)) = {}
AtWait == loopAt = "wait" => \A s \in Schedules : kept[s] = Replayed(stream, s, Len(stream))

(* A timer is set once, before all else that is said of it.                *)
SetFirst(L) == \A i, j \in 1 .. Len(L) :
    L[i].kind = "set" /\ L[j].id = L[i].id /\ j # i => i < j

(* The snapshots of a schedule go forward: its revision, and within one    *)
(* the next occurrence, until there is none.  A deletion is the last one.  *)
Later(b, a) ==
    /\ a # Absent
    /\ \/ b = Absent \/ b.rev > a.rev
       \/ b.rev = a.rev /\ a.next # NotDue /\ (b.next = NotDue \/ b.next > a.next)
Snapshot(e, s) == e.kind = "updated" /\ e.own /\ e.id = s
Forward(L) == \A s \in Schedules : \A i, j \in 1 .. Len(L) :
    i < j /\ Snapshot(L[i], s) /\ Snapshot(L[j], s) => Later(L[j].is, L[i].is)

(* An occurrence that was observed has a snapshot later than it.           *)
Followed(L) == \A i \in 1 .. Len(L) : L[i].kind = "observed" =>
    \E j \in 1 .. Len(L) : /\ Snapshot(L[j], L[i].id)
                           /\ Later(L[j].is, [rev |-> L[i].rev, next |-> L[i].due])

ReceiptsOnce(L) == \A i, j \in 1 .. Len(L) :
    i # j /\ L[i].kind \in {"fired", "observed"} => L[i] # L[j]

LogInv(L) == SetFirst(L) /\ Forward(L) /\ Followed(L) /\ ReceiptsOnce(L)
SchedulerIInv == SchedulerTypeOK /\ CaughtUp(stream, kept, through) /\ AtFire /\ AtWait /\ LogInv(stream)

-----------------------------------------------------------------------------
(* A set of numbers has a least one.                                       *)
LEMMA LeastOne ==
    ASSUME NEW S \in SUBSET Nat, S # {}
    PROVE  Min(S) \in S /\ \A y \in S : Min(S) <= y
<1> DEFINE R == {ss \in Nat \X Nat : ss[1] < ss[2]}
<1>1. IsWellFoundedOn(R, Nat)
    BY NatLessThanWellFounded DEF OpToRel
<1>2. \A x \in Nat, y \in Nat : x < y => <<x, y>> \in R
    OBVIOUS
<1> HIDE DEF R
<1>3. S \subseteq Nat /\ S # {}
    OBVIOUS
<1>4. PICK x \in S : \A y \in S : ~(<<y, x>> \in R)
    BY ONLY <1>1, <1>3, WFMin
<1>5. \A y \in S : ~(y < x)
    BY <1>2, <1>3, <1>4
<1>6. \E m \in S : \A y \in S : m <= y
    BY <1>3, <1>4, <1>5
<1> QED BY <1>6 DEF Min

(* A bounded set of positions has a last one.                              *)
LEMMA LastOne ==
    ASSUME NEW n \in Nat, NEW S \in SUBSET (1 .. n), S # {}
    PROVE  \E m \in S : \A j \in S : j <= m
<1>1. PICK T \in SUBSET Nat : T = {k \in Nat : \A j \in S : j <= k}
    OBVIOUS
<1>2. n \in T
    BY <1>1
<1>3. PICK x : x \in T /\ \A y \in T : x <= y
    BY <1>2, LeastOne
<1>4. PICK y \in S : y \in 1 .. n /\ y <= x
    BY <1>1, <1>3
<1>5. x \in S
    <2> SUFFICES ASSUME x \notin S PROVE FALSE
        OBVIOUS
    <2>1. x \in Nat /\ \A j \in S : j <= x
        BY <1>1, <1>3
    <2>2. \A j \in S : j <= x - 1
        BY <2>1
    <2>3. x - 1 \in T
        BY <1>1, <1>4, <2>1, <2>2
    <2> QED BY <1>3, <2>1, <2>3
<1> QED BY <1>1, <1>3, <1>5

LEMMA LastIsMax ==
    ASSUME NEW n \in Nat, NEW S \in SUBSET (1 .. n), NEW m \in S, \A j \in S : j <= m
    PROVE  Max(S) = m
<1>1. \A x \in S : (\A y \in S : x >= y) => x = m
    OBVIOUS
<1>2. \A y \in S : m >= y
    OBVIOUS
<1> QED BY <1>1, <1>2 DEF Max

-----------------------------------------------------------------------------
(* The last event that tells of an entry.                                  *)
LEMMA EntryUntold ==
    ASSUME NEW L, NEW f, NEW x, NEW a, NEW b, Telling(L, x, a, b) = {}
    PROVE  Entry(L, f, x, a, b) = f[x]
BY DEF Entry

LEMMA EntryTold ==
    ASSUME NEW L, NEW f, NEW x, NEW a \in Nat, NEW b \in Nat,
           NEW m \in Telling(L, x, a, b), \A j \in Telling(L, x, a, b) : j <= m
    PROVE  Entry(L, f, x, a, b) = Told(L[m])
<1>1. PICK T : T = Telling(L, x, a, b)
    OBVIOUS
<1>2. T \in SUBSET (1 .. b) /\ m \in T
    BY <1>1 DEF Telling
<1>3. Max(T) = m
    BY <1>1, <1>2, LastIsMax
<1> QED BY <1>1, <1>2, <1>3 DEF Entry

LEMMA LastTelling ==
    ASSUME NEW L, NEW x, NEW a \in Nat, NEW b \in Nat, Telling(L, x, a, b) # {}
    PROVE  \E m \in Telling(L, x, a, b) : \A j \in Telling(L, x, a, b) : j <= m
<1>1. Telling(L, x, a, b) \in SUBSET (1 .. b)
    BY DEF Telling
<1> QED BY <1>1, LastOne

(* The log with more events at its end.                                    *)
Silent(q, x) == \A k \in 1 .. Len(q) : ~(q[k].id = x /\ Tells(q[k]))

LEMMA Joined ==
    ASSUME NEW L, Log(L), NEW S, NEW q \in Seq(S)
    PROVE  /\ \E T : L \o q \in Seq(T)
           /\ Len(L) \in Nat /\ Len(q) \in Nat /\ Len(L \o q) = Len(L) + Len(q)
           /\ \A i \in 1 .. Len(L) : (L \o q)[i] = L[i]
           /\ \A i \in 1 .. Len(L \o q) : i > Len(L) => i - Len(L) \in 1 .. Len(q) /\ (L \o q)[i] = q[i - Len(L)]
           /\ \A k \in 1 .. Len(q) : Len(L) + k \in 1 .. Len(L \o q) /\ (L \o q)[Len(L) + k] = q[k]
<1>1. PICK T : L \in Seq(T)
    BY DEF Log
<1>2. L \in Seq(T \cup S) /\ q \in Seq(T \cup S)
    BY <1>1
<1>3. L \o q \in Seq(T \cup S)
    BY <1>2
<1> QED BY <1>2, <1>3

LEMMA TellingKept ==
    ASSUME NEW L, Log(L), NEW S, NEW q \in Seq(S), NEW x, NEW a \in Nat, NEW b \in 0 .. Len(L)
    PROVE  /\ Telling(L \o q, x, a, b) = Telling(L, x, a, b)
           /\ \A f : Entry(L \o q, f, x, a, b) = Entry(L, f, x, a, b)
<1>1. PICK M : M = L \o q
    OBVIOUS
<1>2. Len(L) \in Nat /\ \A i \in 1 .. b : M[i] = L[i]
    BY <1>1, Joined
<1>3. Telling(M, x, a, b) = Telling(L, x, a, b)
    BY <1>2 DEF Telling
<1>4. ASSUME NEW f PROVE Entry(M, f, x, a, b) = Entry(L, f, x, a, b)
    <2>1. CASE Telling(L, x, a, b) = {}
        BY <1>3, <2>1, EntryUntold
    <2>2. CASE Telling(L, x, a, b) # {}
        <3>1. b \in Nat
            BY <1>2
        <3>2. PICK m \in Telling(L, x, a, b) : \A j \in Telling(L, x, a, b) : j <= m
            BY <2>2, <3>1, LastTelling
        <3>3. m \in 1 .. b
            BY <3>1, <3>2 DEF Telling
        <3>4. Entry(L, f, x, a, b) = Told(L[m]) /\ Entry(M, f, x, a, b) = Told(M[m])
            BY <1>3, <3>1, <3>2, EntryTold
        <3> QED BY <1>2, <3>3, <3>4
    <2> QED BY <2>1, <2>2
<1> QED BY <1>1, <1>3, <1>4

(* Events that tell nothing of an entry change nothing of it.              *)
LEMMA TellingSilent ==
    ASSUME NEW L, Log(L), NEW S, NEW q \in Seq(S), NEW x, Silent(q, x), NEW a \in 0 .. Len(L)
    PROVE  /\ Telling(L \o q, x, a, Len(L \o q)) = Telling(L, x, a, Len(L))
           /\ \A f : Entry(L \o q, f, x, a, Len(L \o q)) = Entry(L, f, x, a, Len(L))
<1>1. PICK M : M = L \o q
    OBVIOUS
<1>2. /\ Len(L) \in Nat /\ Len(q) \in Nat /\ Len(M) = Len(L) + Len(q)
      /\ \A i \in 1 .. Len(L) : M[i] = L[i]
      /\ \A i \in 1 .. Len(M) : i > Len(L) => i - Len(L) \in 1 .. Len(q) /\ M[i] = q[i - Len(L)]
    BY <1>1, Joined
<1>3. ASSUME NEW i \in Telling(M, x, a, Len(M)) PROVE i \in Telling(L, x, a, Len(L))
    <2>1. i \in a + 1 .. Len(M) /\ M[i].id = x /\ Tells(M[i]) /\ i \in 1 .. Len(M)
        BY <1>2 DEF Telling
    <2>2. ~(i > Len(L))
        BY <1>2, <2>1 DEF Silent
    <2>3. i \in 1 .. Len(L) /\ i \in a + 1 .. Len(L)
        BY <1>2, <2>1, <2>2
    <2> QED BY <1>2, <2>1, <2>3 DEF Telling
<1>4. ASSUME NEW i \in Telling(L, x, a, Len(L)) PROVE i \in Telling(M, x, a, Len(M))
    <2>1. i \in a + 1 .. Len(L) /\ L[i].id = x /\ Tells(L[i]) /\ i \in 1 .. Len(L)
        BY <1>2 DEF Telling
    <2> QED BY <1>2, <2>1 DEF Telling
<1>5. Telling(M, x, a, Len(M)) = Telling(L, x, a, Len(L))
    BY <1>3, <1>4
<1>6. ASSUME NEW f PROVE Entry(M, f, x, a, Len(M)) = Entry(L, f, x, a, Len(L))
    <2>1. CASE Telling(L, x, a, Len(L)) = {}
        BY <1>5, <2>1, EntryUntold
    <2>2. CASE Telling(L, x, a, Len(L)) # {}
        <3>1. a \in Nat /\ Len(M) \in Nat
            BY <1>2
        <3>2. PICK m \in Telling(L, x, a, Len(L)) : \A j \in Telling(L, x, a, Len(L)) : j <= m
            BY <1>2, <2>2, <3>1, LastTelling
        <3>3. m \in 1 .. Len(L)
            BY <1>2, <3>1, <3>2 DEF Telling
        <3>4. Entry(L, f, x, a, Len(L)) = Told(L[m])
            BY <1>2, <3>1, <3>2, EntryTold
        <3>5. Entry(M, f, x, a, Len(M)) = Told(M[m])
            BY <1>5, <3>1, <3>2, EntryTold
        <3> QED BY <1>2, <3>3, <3>4, <3>5
    <2> QED BY <2>1, <2>2
<1> QED BY <1>1, <1>5, <1>6

(* The one event that tells of an entry says what it is.                   *)
LEMMA TellingSpoken ==
    ASSUME NEW L, Log(L), NEW S, NEW q \in Seq(S), NEW x, NEW a \in 0 .. Len(L),
           NEW k \in 1 .. Len(q), q[k].id = x, Tells(q[k])
    PROVE  Len(L) + k \in Telling(L \o q, x, a, Len(L \o q))
<1>1. PICK M : M = L \o q
    OBVIOUS
<1>2. /\ Len(L) \in Nat /\ Len(q) \in Nat /\ Len(M) = Len(L) + Len(q)
      /\ Len(L) + k \in 1 .. Len(M) /\ M[Len(L) + k] = q[k]
    BY <1>1, Joined
<1>3. Len(L) + k \in a + 1 .. Len(M)
    BY <1>2
<1> QED BY <1>1, <1>2, <1>3 DEF Telling

LEMMA SpokenOnce ==
    ASSUME NEW L, Log(L), NEW S, NEW q \in Seq(S), NEW x,
           NEW k \in 1 .. Len(q), q[k].id = x, Tells(q[k]),
           \A j \in 1 .. Len(q) : q[j].id = x /\ Tells(q[j]) => j = k
    PROVE  Replayed(L \o q, x, Len(L \o q)) = Told(q[k])
<1>1. PICK M : M = L \o q
    OBVIOUS
<1>2. /\ Len(L) \in Nat /\ Len(q) \in Nat /\ Len(M) = Len(L) + Len(q)
      /\ \A i \in 1 .. Len(M) : i > Len(L) => i - Len(L) \in 1 .. Len(q) /\ M[i] = q[i - Len(L)]
      /\ Len(L) + k \in 1 .. Len(M) /\ M[Len(L) + k] = q[k]
    BY <1>1, Joined
<1>3. PICK m : m = Len(L) + k
    OBVIOUS
<1>4. m \in 1 .. Len(M) /\ M[m] = q[k] /\ Len(M) \in Nat /\ 0 \in 0 .. Len(L)
    BY <1>2, <1>3
<1>5. m \in Telling(M, x, 0, Len(M))
    BY <1>1, <1>3, <1>4, TellingSpoken
<1>6. ASSUME NEW i \in Telling(M, x, 0, Len(M)) PROVE i <= m
    <2>1. i \in 1 .. Len(M) /\ M[i].id = x /\ Tells(M[i])
        BY <1>4 DEF Telling
    <2>2. CASE i > Len(L)
        <3>1. i - Len(L) = k
            BY <1>2, <2>1, <2>2
        <3> QED BY <1>2, <1>3, <2>1, <3>1
    <2>3. CASE ~(i > Len(L))
        BY <1>2, <1>3, <2>1, <2>3
    <2> QED BY <2>2, <2>3
<1>7. Entry(M, Empty, x, 0, Len(M)) = Told(M[m])
    BY <1>4, <1>5, <1>6, EntryTold
<1> QED BY <1>1, <1>4, <1>7 DEF Replayed

-----------------------------------------------------------------------------
(* What more events do to the log.                                         *)

(* Writing down what an entry is now keeps the state caught up.            *)
LEMMA CaughtUpGrows ==
    ASSUME NEW L, Log(L), NEW S, NEW q \in Seq(S), NEW K, NEW K2, NEW from \in 0 .. Len(L),
           CaughtUp(L, K, from),
           \A x \in KeptIds : Silent(q, x) /\ Telling(L, x, from, Len(L)) = {} => K2[x] = K[x]
    PROVE  CaughtUp(L \o q, K2, from)
<1> SUFFICES ASSUME NEW x \in KeptIds, Telling(L \o q, x, from, Len(L \o q)) = {}
             PROVE  K2[x] = Replayed(L \o q, x, Len(L \o q))
    BY DEF CaughtUp
<1>1. Silent(q, x)
    BY TellingSpoken DEF Silent
<1>2. Telling(L, x, from, Len(L)) = {}
    BY <1>1, TellingSilent
<1>3. K2[x] = Replayed(L, x, Len(L))
    BY <1>2, <1>1 DEF CaughtUp
<1>4. 0 \in 0 .. Len(L)
    BY Joined
<1> QED BY <1>1, <1>3, <1>4, TellingSilent DEF Replayed

LEMMA SetFirstGrows ==
    ASSUME NEW L, Log(L), NEW S, NEW q \in Seq(S), SetFirst(L),
           \A k \in 1 .. Len(q) : q[k].kind = "set" =>
               Len(q) = 1 /\ \A i \in 1 .. Len(L) : L[i].id # q[k].id
    PROVE  SetFirst(L \o q)
<1>1. PICK M : M = L \o q
    OBVIOUS
<1>2. /\ Len(L) \in Nat /\ Len(q) \in Nat /\ Len(M) = Len(L) + Len(q)
      /\ \A i \in 1 .. Len(L) : M[i] = L[i]
      /\ \A i \in 1 .. Len(M) : i > Len(L) => i - Len(L) \in 1 .. Len(q) /\ M[i] = q[i - Len(L)]
    BY <1>1, Joined
<1>3. ASSUME NEW i \in 1 .. Len(M), NEW j \in 1 .. Len(M),
             M[i].kind = "set", M[j].id = M[i].id, j # i
      PROVE  i < j
    <2>1. CASE i > Len(L)
        <3>1. Len(q) = 1 /\ \A k \in 1 .. Len(L) : L[k].id # M[i].id
            BY <1>2, <1>3, <2>1
        <3>2. ~(j > Len(L))
            BY <1>2, <1>3, <2>1, <3>1
        <3>3. j \in 1 .. Len(L)
            BY <1>2, <3>2
        <3> QED BY <1>2, <1>3, <3>1, <3>3
    <2>2. CASE ~(i > Len(L)) /\ j > Len(L)
        BY <1>2, <2>2
    <2>3. CASE ~(i > Len(L)) /\ ~(j > Len(L))
        <3>1. i \in 1 .. Len(L) /\ j \in 1 .. Len(L)
            BY <1>2, <2>3
        <3> QED BY <1>2, <1>3, <3>1 DEF SetFirst
    <2> QED BY <2>1, <2>2, <2>3
<1> QED BY <1>1, <1>3 DEF SetFirst

LEMMA ReceiptsOnceGrows ==
    ASSUME NEW L, Log(L), NEW S, NEW q \in Seq(S), ReceiptsOnce(L),
           \A j, k \in 1 .. Len(q) : j # k => q[j] # q[k],
           \A k \in 1 .. Len(q) : q[k].kind \in {"fired", "observed"} => \A i \in 1 .. Len(L) : L[i] # q[k]
    PROVE  ReceiptsOnce(L \o q)
<1>1. PICK M : M = L \o q
    OBVIOUS
<1>2. /\ Len(L) \in Nat /\ Len(q) \in Nat /\ Len(M) = Len(L) + Len(q)
      /\ \A i \in 1 .. Len(L) : M[i] = L[i]
      /\ \A i \in 1 .. Len(M) : i > Len(L) => i - Len(L) \in 1 .. Len(q) /\ M[i] = q[i - Len(L)]
    BY <1>1, Joined
<1>3. ASSUME NEW i \in 1 .. Len(M), NEW j \in 1 .. Len(M), i # j,
             M[i].kind \in {"fired", "observed"}, M[i] = M[j]
      PROVE  FALSE
    <2>1. CASE i > Len(L) /\ j > Len(L)
        <3>1. i - Len(L) # j - Len(L)
            BY <1>2, <1>3
        <3> QED BY <1>2, <1>3, <2>1, <3>1
    <2>2. CASE i > Len(L) /\ ~(j > Len(L))
        <3>1. j \in 1 .. Len(L)
            BY <1>2, <2>2
        <3> QED BY <1>2, <1>3, <2>2, <3>1
    <2>3. CASE ~(i > Len(L)) /\ j > Len(L)
        <3>1. i \in 1 .. Len(L)
            BY <1>2, <2>3
        <3> QED BY <1>2, <1>3, <2>3, <3>1
    <2>4. CASE ~(i > Len(L)) /\ ~(j > Len(L))
        <3>1. i \in 1 .. Len(L) /\ j \in 1 .. Len(L)
            BY <1>2, <2>4
        <3> QED BY <1>2, <1>3, <3>1 DEF ReceiptsOnce
    <2> QED BY <2>1, <2>2, <2>3, <2>4
<1> QED BY <1>1, <1>3 DEF ReceiptsOnce

LEMMA LaterChains ==
    ASSUME NEW a, NEW b, NEW c, Later(b, a), Later(c, b),
           b # Absent => b.rev \in Nat /\ b.next \in Nat,
           c # Absent => c.rev \in Nat /\ c.next \in Nat,
           a.rev \in Nat, a.next \in Nat
    PROVE  Later(c, a)
BY DEF Later, NotDue

LEMMA AbsentIsNone ==
    /\ Absent \notin Entries
    /\ \A a, b : [rev |-> a, next |-> b] # Absent
    /\ \A d : [due |-> d] # Absent
<1>1. DOMAIN Absent = {"absent"}
    BY DEF Absent
<1>2. \A e \in Entries : DOMAIN e = {"rev", "timing", "next", "paused"}
    BY DEF Entries
<1>3. \A a, b : DOMAIN [rev |-> a, next |-> b] = {"rev", "next"}
    OBVIOUS
<1>4. \A d : DOMAIN [due |-> d] = {"due"}
    OBVIOUS
<1> QED BY <1>1, <1>2, <1>3, <1>4

(* Only its own snapshots tell of a schedule.                              *)
LEMMA TellsSnapshot ==
    ASSUME NEW e, EventTyped(e), NEW s \in Schedules
    PROVE  e.id = s /\ Tells(e) <=> Snapshot(e, s)
BY SchedulerAssumption DEF EventTyped, Tells, Snapshot

LEMMA TellingSnapshot ==
    ASSUME NEW L, Log(L), NEW s \in Schedules, NEW i
    PROVE  i \in Telling(L, s, 0, Len(L)) <=> i \in 1 .. Len(L) /\ Snapshot(L[i], s)
<1>1. \A j \in 1 .. Len(L) : L[j].id = s /\ Tells(L[j]) <=> Snapshot(L[j], s)
    BY TellsSnapshot DEF Log
<1>2. Telling(L, s, 0, Len(L)) = {j \in 1 .. Len(L) : L[j].id = s /\ Tells(L[j])}
    BY DEF Telling
<1> QED BY <1>1, <1>2

LEMMA LastSnapshot ==
    ASSUME NEW L, Log(L), Forward(L), NEW s \in Schedules, NEW i \in 1 .. Len(L), Snapshot(L[i], s)
    PROVE  \E m \in 1 .. Len(L) :
               /\ Snapshot(L[m], s) /\ Replayed(L, s, Len(L)) = L[m].is
               /\ i = m \/ Later(L[m].is, L[i].is)
<1>1. Len(L) \in Nat
    BY DEF Log
<1>2. Telling(L, s, 0, Len(L)) # {}
    BY TellingSnapshot
<1>3. PICK m \in Telling(L, s, 0, Len(L)) : \A j \in Telling(L, s, 0, Len(L)) : j <= m
    BY <1>1, <1>2, LastTelling
<1>4. m \in 1 .. Len(L) /\ Snapshot(L[m], s) /\ i <= m
    BY <1>3, TellingSnapshot
<1>5. Replayed(L, s, Len(L)) = Told(L[m])
    BY <1>1, <1>3, EntryTold DEF Replayed
<1>6. Told(L[m]) = L[m].is
    BY <1>4 DEF Told, Snapshot
<1>7. i = m \/ i < m
    BY <1>4
<1> QED BY <1>4, <1>5, <1>6, <1>7 DEF Forward

LEMMA SnapshotTyped ==
    ASSUME NEW e, EventTyped(e), NEW s, Snapshot(e, s), e.is # Absent
    PROVE  e.is.rev \in Nat /\ e.is.next \in Nat
BY DEF EventTyped, Snapshot, Entries

LEMMA ForwardGrows ==
    ASSUME NEW L, Log(L), NEW S, NEW q \in Seq(S), Forward(L),
           \A k \in 1 .. Len(q) : EventTyped(q[k]),
           \A s \in Schedules : \A k \in 1 .. Len(q) : Snapshot(q[k], s) =>
               /\ \A j \in 1 .. Len(q) : Snapshot(q[j], s) => j = k
               /\ \/ Later(q[k].is, Replayed(L, s, Len(L)))
                  \/ \A i \in 1 .. Len(L) : ~Snapshot(L[i], s)
    PROVE  Forward(L \o q)
<1>1. PICK M : M = L \o q
    OBVIOUS
<1>2. /\ Len(L) \in Nat /\ Len(q) \in Nat /\ Len(M) = Len(L) + Len(q)
      /\ \A i \in 1 .. Len(L) : M[i] = L[i]
      /\ \A i \in 1 .. Len(M) : i > Len(L) => i - Len(L) \in 1 .. Len(q) /\ M[i] = q[i - Len(L)]
    BY <1>1, Joined
<1>3. ASSUME NEW s \in Schedules, NEW i \in 1 .. Len(M), NEW j \in 1 .. Len(M), i < j,
             Snapshot(M[i], s), Snapshot(M[j], s)
      PROVE  Later(M[j].is, M[i].is)
    <2>1. CASE i > Len(L)
        <3>1. j > Len(L) /\ i - Len(L) # j - Len(L)
            BY <1>2, <1>3, <2>1
        <3> QED BY <1>2, <1>3, <2>1, <3>1
    <2>2. CASE ~(i > Len(L)) /\ j > Len(L)
        <3>1. i \in 1 .. Len(L) /\ M[i] = L[i]
            BY <1>2, <2>2
        <3>2. PICK k \in 1 .. Len(q) : M[j] = q[k]
            BY <1>2, <2>2
        <3>3. Later(q[k].is, Replayed(L, s, Len(L)))
            BY <1>3, <3>1, <3>2
        <3>4. PICK m \in 1 .. Len(L) : /\ Snapshot(L[m], s) /\ Replayed(L, s, Len(L)) = L[m].is
                                       /\ i = m \/ Later(L[m].is, L[i].is)
            BY <1>3, <3>1, LastSnapshot
        <3>5. CASE i = m
            BY <3>1, <3>2, <3>3, <3>4, <3>5
        <3>6. CASE Later(L[m].is, L[i].is)
            <4>1. EventTyped(q[k]) /\ EventTyped(L[m]) /\ EventTyped(L[i])
                BY <3>1 DEF Log
            <4>2. L[i].is # Absent
                BY <3>6 DEF Later
            <4>3. L[i].is.rev \in Nat /\ L[i].is.next \in Nat
                BY <1>3, <3>1, <4>1, <4>2, SnapshotTyped
            <4>4. L[m].is # Absent => L[m].is.rev \in Nat /\ L[m].is.next \in Nat
                BY <3>4, <4>1, SnapshotTyped
            <4>5. q[k].is # Absent => q[k].is.rev \in Nat /\ q[k].is.next \in Nat
                BY <1>3, <3>2, <4>1, SnapshotTyped
            <4>6. Later(q[k].is, L[i].is)
                BY <3>3, <3>4, <3>6, <4>3, <4>4, <4>5, LaterChains
            <4> QED BY <3>1, <3>2, <4>6
        <3> QED BY <3>4, <3>5, <3>6
    <2>3. CASE ~(i > Len(L)) /\ ~(j > Len(L))
        <3>1. i \in 1 .. Len(L) /\ j \in 1 .. Len(L)
            BY <1>2, <2>3
        <3> QED BY <1>2, <1>3, <3>1 DEF Forward
    <2> QED BY <2>1, <2>2, <2>3
<1> QED BY <1>1, <1>3 DEF Forward

LEMMA FollowedGrows ==
    ASSUME NEW L, Log(L), NEW S, NEW q \in Seq(S), Followed(L),
           \A k \in 1 .. Len(q) : q[k].kind = "observed" =>
               \E j \in 1 .. Len(q) : /\ Snapshot(q[j], q[k].id)
                                      /\ Later(q[j].is, [rev |-> q[k].rev, next |-> q[k].due])
    PROVE  Followed(L \o q)
<1>1. PICK M : M = L \o q
    OBVIOUS
<1>2. /\ Len(L) \in Nat /\ Len(q) \in Nat /\ Len(M) = Len(L) + Len(q)
      /\ \A i \in 1 .. Len(L) : M[i] = L[i]
      /\ \A i \in 1 .. Len(M) : i > Len(L) => i - Len(L) \in 1 .. Len(q) /\ M[i] = q[i - Len(L)]
      /\ \A k \in 1 .. Len(q) : Len(L) + k \in 1 .. Len(M) /\ M[Len(L) + k] = q[k]
    BY <1>1, Joined
<1>3. ASSUME NEW i \in 1 .. Len(M), M[i].kind = "observed"
      PROVE  \E j \in 1 .. Len(M) : /\ Snapshot(M[j], M[i].id)
                                    /\ Later(M[j].is, [rev |-> M[i].rev, next |-> M[i].due])
    <2>1. CASE i > Len(L)
        <3>1. PICK k \in 1 .. Len(q) : M[i] = q[k]
            BY <1>2, <2>1
        <3>2. PICK j \in 1 .. Len(q) : /\ Snapshot(q[j], q[k].id)
                                       /\ Later(q[j].is, [rev |-> q[k].rev, next |-> q[k].due])
            BY <1>3, <3>1
        <3>3. Len(L) + j \in 1 .. Len(M) /\ M[Len(L) + j] = q[j]
            BY <1>2
        <3> QED BY <3>1, <3>2, <3>3
    <2>2. CASE ~(i > Len(L))
        <3>1. i \in 1 .. Len(L) /\ M[i] = L[i]
            BY <1>2, <2>2
        <3>2. PICK j \in 1 .. Len(L) : /\ Snapshot(L[j], L[i].id)
                                       /\ Later(L[j].is, [rev |-> L[i].rev, next |-> L[i].due])
            BY <1>3, <3>1 DEF Followed
        <3>3. j \in 1 .. Len(M) /\ M[j] = L[j]
            BY <1>2
        <3> QED BY <3>1, <3>2, <3>3
    <2> QED BY <2>1, <2>2
<1> QED BY <1>1, <1>3 DEF Followed

LEMMA LogGrows ==
    ASSUME NEW L, Log(L), NEW S, NEW q \in Seq(S), \A k \in 1 .. Len(q) : EventTyped(q[k])
    PROVE  Log(L \o q)
<1>1. PICK M : M = L \o q
    OBVIOUS
<1>2. /\ Len(L) \in Nat /\ Len(q) \in Nat /\ Len(M) = Len(L) + Len(q)
      /\ \A i \in 1 .. Len(L) : M[i] = L[i]
      /\ \A i \in 1 .. Len(M) : i > Len(L) => i - Len(L) \in 1 .. Len(q) /\ M[i] = q[i - Len(L)]
      /\ \E T : M \in Seq(T)
    BY <1>1, Joined
<1>3. ASSUME NEW i \in 1 .. Len(M) PROVE EventTyped(M[i])
    <2>1. CASE i > Len(L)
        BY <1>2, <2>1
    <2>2. CASE ~(i > Len(L))
        <3>1. i \in 1 .. Len(L)
            BY <1>2, <2>2
        <3> QED BY <1>2, <3>1 DEF Log
    <2> QED BY <2>1, <2>2
<1> QED BY <1>1, <1>2, <1>3 DEF Log

-----------------------------------------------------------------------------
(* What is due when the loop fires was not told before.                    *)
LEMMA UnknownOccurrence ==
    ASSUME Log(stream), Forward(stream), Followed(stream), NEW s \in Schedules,
           kept[s] \in Entries, kept[s] = Replayed(stream, s, Len(stream))
    PROVE  \A i \in 1 .. Len(stream) : stream[i] # Occurrence(s)
<1> SUFFICES ASSUME NEW i \in 1 .. Len(stream), stream[i] = Occurrence(s) PROVE FALSE
    OBVIOUS
<1>1. PICK e : e = kept[s]
    OBVIOUS
<1>2. e.rev \in Nat /\ e.next \in Nat
    BY <1>1 DEF Entries
<1>3. PICK a : a = [rev |-> e.rev, next |-> e.next]
    OBVIOUS
<1>4. stream[i].kind = "observed" /\ stream[i].id = s /\ stream[i].rev = e.rev /\ stream[i].due = e.next
    BY <1>1 DEF Occurrence
<1>5. PICK j \in 1 .. Len(stream) : Snapshot(stream[j], s) /\ Later(stream[j].is, a)
    BY <1>3, <1>4 DEF Followed
<1>6. PICK m \in 1 .. Len(stream) : /\ e = stream[m].is
                                    /\ j = m \/ Later(stream[m].is, stream[j].is)
    BY <1>1, <1>5, LastSnapshot
<1>7. EventTyped(stream[j])
    BY DEF Log
<1>8. stream[j].is # Absent => stream[j].is.rev \in Nat /\ stream[j].is.next \in Nat
    BY <1>5, <1>7, SnapshotTyped
<1>9. a.rev = e.rev /\ a.next = e.next
    BY <1>3
<1>10. Later(e, a)
    <2>1. CASE j = m
        BY <1>5, <1>6, <2>1
    <2>2. CASE Later(stream[m].is, stream[j].is)
        BY <1>2, <1>5, <1>6, <1>8, <1>9, <2>2, LaterChains
    <2> QED BY <1>6, <2>1, <2>2
<1>11. e # Absent
    BY <1>1, AbsentIsNone
<1> QED BY <1>2, <1>9, <1>10, <1>11 DEF Later

LEMMA UnreadReceipt ==
    ASSUME Log(stream), SetFirst(stream), through \in 0 .. Len(stream), NEW t \in Timers,
           kept[t] # Absent, kept[t] = Replayed(stream, t, through),
           NEW i \in 1 .. Len(stream), stream[i] = TimerReceipt(t)
    PROVE  Telling(stream, t, through, Len(stream)) # {}
<1>1. Len(stream) \in Nat /\ through \in Nat
    BY DEF Log
<1>2. stream[i].kind = "fired" /\ stream[i].id = t /\ Tells(stream[i])
    BY DEF TimerReceipt, Tells
<1>3. CASE i > through
    <2>1. i \in through + 1 .. Len(stream)
        BY <1>1, <1>3
    <2> QED BY <1>2, <2>1 DEF Telling
<1>4. CASE ~(i > through)
    <2>1. i \in Telling(stream, t, 0, through)
        BY <1>1, <1>2, <1>4 DEF Telling
    <2>2. PICK m \in Telling(stream, t, 0, through) : \A j \in Telling(stream, t, 0, through) : j <= m
        BY <1>1, <2>1, LastTelling
    <2>3. Replayed(stream, t, through) = Told(stream[m])
        BY <1>1, <2>2, EntryTold DEF Replayed
    <2>4. m \in 1 .. Len(stream) /\ stream[m].id = t /\ i <= m
        BY <1>1, <2>1, <2>2 DEF Telling
    <2>5. EventTyped(stream[m])
        BY <2>4 DEF Log
    <2>6. stream[m].kind # "updated"
        BY <2>4, <2>5, SchedulerAssumption DEF EventTyped
    <2>7. stream[m].kind = "set"
        BY <2>3, <2>6 DEF Told
    <2>8. m < i
        BY <1>2, <2>4, <2>7 DEF SetFirst
    <2> QED BY <1>1, <2>4, <2>8
<1> QED BY <1>3, <1>4

-----------------------------------------------------------------------------
(* A finite set in some order, each member once.                           *)
LEMMA Listing ==
    ASSUME NEW P, IsFiniteSet(P)
    PROVE  /\ SetToSeq(P) \in Seq(P)
           /\ \A k \in 1 .. Len(SetToSeq(P)) : SetToSeq(P)[k] \in P
           /\ \A e \in P : \E k \in 1 .. Len(SetToSeq(P)) : SetToSeq(P)[k] = e
           /\ \A j, k \in 1 .. Len(SetToSeq(P)) : j # k => SetToSeq(P)[j] # SetToSeq(P)[k]
<1>1. PICK n \in Nat : n = Cardinality(P) /\ ExistsBijection(1 .. n, P)
    BY FS_CardinalityType
<1>2. \E f \in [1 .. n -> P] : IsInjective(f)
    BY <1>1 DEF ExistsBijection, Bijection, Injection
<1>3. PICK q : q = SetToSeq(P)
    OBVIOUS
<1>4. q \in [1 .. n -> P] /\ IsInjective(q)
    BY <1>1, <1>2, <1>3 DEF SetToSeq
<1>5. q \in Injection(1 .. n, P)
    BY <1>4 DEF Injection
<1>6. Cardinality(1 .. n) = n
    BY FS_Interval
<1>7. q \in Surjection(1 .. n, P)
    BY <1>1, <1>5, <1>6, FS_Injection
<1>8. q \in Seq(P) /\ Len(q) = n
    BY <1>4
<1>9. \A e \in P : \E k \in 1 .. n : q[k] = e
    BY <1>7 DEF Surjection
<1>10. \A j, k \in 1 .. n : j # k => q[j] # q[k]
    BY <1>4 DEF IsInjective
<1> QED BY <1>3, <1>4, <1>8, <1>9, <1>10

LEMMA ProposedFinite ==
    ASSUME NEW due \in SUBSET Timers, NEW ran \in SUBSET Schedules
    PROVE  IsFiniteSet(Proposed(due, ran))
<1> DEFINE r == [t \in Timers |-> TimerReceipt(t)]
           o == [s \in Schedules |-> Occurrence(s)]
           u == [s \in Schedules |-> Updated(s, TRUE, Advanced(s))]
<1>1. IsFiniteSet({r[t] : t \in Timers})
    <2>1. r \in Surjection(Timers, {r[t] : t \in Timers})
        BY DEF Surjection
    <2> QED BY <2>1, FS_Surjection, SchedulerAssumption
<1>2. IsFiniteSet({o[s] : s \in Schedules})
    <2>1. o \in Surjection(Schedules, {o[s] : s \in Schedules})
        BY DEF Surjection
    <2> QED BY <2>1, FS_Surjection, SchedulerAssumption
<1>3. IsFiniteSet({u[s] : s \in Schedules})
    <2>1. u \in Surjection(Schedules, {u[s] : s \in Schedules})
        BY DEF Surjection
    <2> QED BY <2>1, FS_Surjection, SchedulerAssumption
<1>4. IsFiniteSet({r[t] : t \in Timers} \cup ({o[s] : s \in Schedules} \cup {u[s] : s \in Schedules}))
    BY <1>1, <1>2, <1>3, FS_Union
<1>5. Proposed(due, ran) \subseteq {r[t] : t \in Timers} \cup ({o[s] : s \in Schedules} \cup {u[s] : s \in Schedules})
    BY DEF Proposed, Snapshots
<1> QED BY <1>4, <1>5, FS_Subset

LEMMA AfterLater ==
    ASSUME NEW timing, NEW t \in Nat
    PROVE  After(timing, t) \in Nat /\ (After(timing, t) = NotDue \/ After(timing, t) > t)
<1>1. {u \in Calendar : u > t} \in SUBSET Nat
    BY SchedulerAssumption
<1>2. CASE {u \in Calendar : u > t} # {}
    <2>1. Min({u \in Calendar : u > t}) \in {u \in Calendar : u > t}
        BY <1>1, <1>2, LeastOne
    <2> QED BY <1>1, <2>1 DEF After, NotDue
<1>3. CASE {u \in Calendar : u > t} = {}
    BY <1>3 DEF After, NotDue
<1> QED BY <1>2, <1>3

LEMMA AdvancedTyped ==
    ASSUME NEW s, kept[s] \in Entries, now \in Nat, kept[s].next \in 1 .. now
    PROVE  /\ Advanced(s) \in Entries
           /\ Later(Advanced(s), kept[s])
           /\ Later(Advanced(s), [rev |-> kept[s].rev, next |-> kept[s].next])
<1>1. PICK e \in Entries : e = kept[s]
    OBVIOUS
<1>2. PICK n \in Nat : n = After(e.timing, now) /\ (n = NotDue \/ n > now)
    BY AfterLater
<1>3. PICK a : a = Advanced(s)
    OBVIOUS
<1>4. a = [e EXCEPT !.next = n]
    BY <1>1, <1>2, <1>3 DEF Advanced
<1>5. a \in Entries /\ a.rev = e.rev /\ a.next = n /\ e.rev \in Nat
    BY <1>2, <1>4 DEF Entries
<1>6. e # Absent /\ a # Absent
    BY <1>5, AbsentIsNone
<1>7. e.next # NotDue /\ (n = NotDue \/ n > e.next)
    BY <1>1, <1>2 DEF NotDue
<1>8. Later(a, e)
    BY <1>5, <1>6, <1>7 DEF Later
<1>9. Later(a, [rev |-> e.rev, next |-> e.next])
    BY <1>5, <1>6, <1>7, AbsentIsNone DEF Later
<1> QED BY <1>1, <1>3, <1>5, <1>8, <1>9

-----------------------------------------------------------------------------
(* What the loop proposes when it fires.                                   *)
LEMMA LogDomain ==
    ASSUME NEW L, Log(L)
    PROVE  DOMAIN L = 1 .. Len(L) /\ Len(L) \in Nat
BY DEF Log

Ahead(s) == Updated(s, TRUE, Advanced(s))
Due(due, ran) == due \in SUBSET DueTimers /\ ran \in SUBSET Occurring

LEMMA DueTyped ==
    ASSUME SchedulerIInv, loopAt = "fire", NEW due, NEW ran, Due(due, ran)
    PROVE  /\ due \in SUBSET Timers /\ ran \in SUBSET Schedules /\ due \cap ran = {}
           /\ \A t \in due : kept[t] # Absent /\ kept[t] = Replayed(stream, t, through)
           /\ \A s \in Schedules : kept[s] = Replayed(stream, s, Len(stream))
           /\ \A s \in ran : kept[s] \in Entries /\ kept[s].next \in 1 .. now
           /\ \A s \in ran : Advanced(s) \in Entries /\ Later(Advanced(s), kept[s])
                             /\ Later(Advanced(s), [rev |-> kept[s].rev, next |-> kept[s].next])
<1>1. due \in SUBSET Timers /\ ran \in SUBSET Schedules /\ due \cap ran = {}
    BY SchedulerAssumption DEF Due, DueTimers, Occurring
<1>2. \A t \in due : kept[t] # Absent /\ kept[t] = Replayed(stream, t, through)
    BY DEF Due, DueTimers, SchedulerIInv, AtFire, KeptIds
<1>3. \A s \in Schedules : kept[s] = Replayed(stream, s, Len(stream))
    BY DEF SchedulerIInv, AtFire, CaughtUp, KeptIds
<1>4. \A s \in ran : kept[s] \in Entries /\ kept[s].next \in 1 .. now
    BY DEF Due, Occurring, SchedulerIInv, SchedulerTypeOK
<1>5. now \in Nat
    BY DEF SchedulerIInv, SchedulerTypeOK
<1>6. \A s \in ran : /\ Advanced(s) \in Entries /\ Later(Advanced(s), kept[s])
                     /\ Later(Advanced(s), [rev |-> kept[s].rev, next |-> kept[s].next])
    BY <1>4, <1>5, AdvancedTyped
<1> QED BY <1>1, <1>2, <1>3, <1>4, <1>6

LEMMA ProposedMembers ==
    ASSUME SchedulerIInv, loopAt = "fire", NEW due, NEW ran, Due(due, ran)
    PROVE  /\ \A e \in Proposed(due, ran) :
                 \/ \E t \in due : e = TimerReceipt(t) /\ \A i \in 1 .. Len(stream) : stream[i] # e
                 \/ \E s \in ran : e = Occurrence(s) /\ \A i \in 1 .. Len(stream) : stream[i] # e
                 \/ \E s \in ran : e = Ahead(s)
           /\ \A s \in ran : Occurrence(s) \in Proposed(due, ran) /\ Ahead(s) \in Proposed(due, ran)
           /\ \A t \in due : TimerReceipt(t) \in Proposed(due, ran) \/ Telling(stream, t, through, Len(stream)) # {}
<1>1. DOMAIN stream = 1 .. Len(stream) /\ Log(stream) /\ SetFirst(stream) /\ Forward(stream)
      /\ Followed(stream) /\ through \in 0 .. Len(stream)
    BY LogDomain DEF SchedulerIInv, SchedulerTypeOK, LogInv
<1>2. \A s \in ran : ~Committed(Occurrence(s))
    BY <1>1, DueTyped, UnknownOccurrence DEF Committed
<1>3. \A s \in ran : Occurrence(s) \in Proposed(due, ran) /\ Ahead(s) \in Proposed(due, ran)
    BY <1>2 DEF Proposed, Snapshots, Ahead
<1>4. ASSUME NEW t \in due PROVE TimerReceipt(t) \in Proposed(due, ran) \/ Telling(stream, t, through, Len(stream)) # {}
    <2>1. CASE Committed(TimerReceipt(t))
        BY <1>1, <2>1, DueTyped, UnreadReceipt DEF Committed
    <2>2. CASE ~Committed(TimerReceipt(t))
        BY <2>2 DEF Proposed
    <2> QED BY <2>1, <2>2
<1>5. ASSUME NEW e \in Proposed(due, ran)
      PROVE  \/ \E t \in due : e = TimerReceipt(t) /\ \A i \in 1 .. Len(stream) : stream[i] # e
             \/ \E s \in ran : e = Occurrence(s) /\ \A i \in 1 .. Len(stream) : stream[i] # e
             \/ \E s \in ran : e = Ahead(s)
    <2>1. CASE \E t \in due : e = TimerReceipt(t) /\ ~Committed(e)
        BY <1>1, <2>1 DEF Committed
    <2>2. CASE \E s \in ran : e \in Snapshots(s)
        BY <1>1, <1>2, <2>2 DEF Committed, Snapshots, Ahead
    <2> QED BY <2>1, <2>2 DEF Proposed
<1> QED BY <1>3, <1>4, <1>5

LEMMA EventsRead ==
    /\ \A t : TimerReceipt(t).kind = "fired" /\ TimerReceipt(t).id = t
    /\ \A s : /\ Occurrence(s).kind = "observed" /\ Occurrence(s).id = s
              /\ Occurrence(s).rev = kept[s].rev /\ Occurrence(s).due = kept[s].next
    /\ \A s, own, is : /\ Updated(s, own, is).kind = "updated" /\ Updated(s, own, is).id = s
                       /\ Updated(s, own, is).own = own /\ Updated(s, own, is).is = is
BY DEF TimerReceipt, Occurrence, Updated

LEMMA ProposedIsOne ==
    ASSUME SchedulerIInv, loopAt = "fire", NEW due, NEW ran, Due(due, ran), NEW e \in Proposed(due, ran)
    PROVE  \/ \E t \in due : e = TimerReceipt(t) /\ \A i \in 1 .. Len(stream) : stream[i] # e
           \/ \E s \in ran : e = Occurrence(s) /\ \A i \in 1 .. Len(stream) : stream[i] # e
           \/ \E s \in ran : e = Ahead(s)
BY ProposedMembers

LEMMA ProposedTyped ==
    ASSUME SchedulerIInv, loopAt = "fire", NEW due, NEW ran, Due(due, ran), NEW e \in Proposed(due, ran)
    PROVE  EventTyped(e)
<1>0. due \in SUBSET Timers /\ ran \in SUBSET Schedules /\ \A s \in ran : Advanced(s) \in Entries
    BY DueTyped
<1>1. ASSUME NEW t \in due, e = TimerReceipt(t) PROVE EventTyped(e)
    <2>1. e.kind = "fired" /\ e.id = t
        BY <1>1, EventsRead
    <2> QED BY <1>0, <2>1 DEF EventTyped
<1>2. ASSUME NEW s \in ran, e = Occurrence(s) PROVE EventTyped(e)
    <2>1. e.kind = "observed" /\ e.id = s
        BY <1>2, EventsRead
    <2> QED BY <1>0, <2>1 DEF EventTyped
<1>3. ASSUME NEW s \in ran, e = Ahead(s) PROVE EventTyped(e)
    <2>1. e.kind = "updated" /\ e.id = s /\ e.is = Advanced(s)
        BY <1>3 DEF Updated, Ahead
    <2> QED BY <1>0, <2>1 DEF EventTyped
<1> QED BY <1>1, <1>2, <1>3, ProposedIsOne

(* Of a schedule it proposes at most one snapshot, which goes forward.     *)
LEMMA ProposedSnapshot ==
    ASSUME SchedulerIInv, loopAt = "fire", NEW due, NEW ran, Due(due, ran), NEW e \in Proposed(due, ran)
    PROVE  /\ \A s \in Schedules : Snapshot(e, s) => s \in ran /\ e = Ahead(s)
           /\ \A t \in Timers : e.id = t => e = TimerReceipt(t)
           /\ e.kind # "set"
           /\ e.kind \in {"fired", "observed"} => \A i \in 1 .. Len(stream) : stream[i] # e
           /\ e.kind = "observed" => \E s \in ran : e = Occurrence(s)
<1> DEFINE New == \A i \in 1 .. Len(stream) : stream[i] # e
           Goal == /\ \A s \in Schedules : Snapshot(e, s) => s \in ran /\ e = Ahead(s)
                   /\ \A t \in Timers : e.id = t => e = TimerReceipt(t)
                   /\ e.kind # "set"
                   /\ e.kind \in {"fired", "observed"} => New
                   /\ e.kind = "observed" => \E s \in ran : e = Occurrence(s)
<1>1. due \in SUBSET Timers /\ ran \in SUBSET Schedules /\ Timers \cap Schedules = {}
    BY DueTyped, SchedulerAssumption
<1> HIDE DEF New
<1>2. ASSUME NEW t \in due, e = TimerReceipt(t), New PROVE Goal
    <2>1. e.kind = "fired" /\ e.id = t
        BY <1>2, EventsRead
    <2> QED BY <1>1, <1>2, <2>1 DEF Snapshot
<1>3. ASSUME NEW s \in ran, e = Occurrence(s), New PROVE Goal
    <2>1. e.kind = "observed" /\ e.id = s
        BY <1>3, EventsRead
    <2> QED BY <1>1, <1>3, <2>1 DEF Snapshot
<1>4. ASSUME NEW s \in ran, e = Ahead(s) PROVE Goal
    <2>1. e.kind = "updated" /\ e.id = s
        BY <1>4 DEF Updated, Ahead
    <2> QED BY <1>1, <1>4, <2>1 DEF Snapshot
<1>5. Goal
    <2>1. \/ \E t \in due : e = TimerReceipt(t) /\ New
          \/ \E s \in ran : e = Occurrence(s) /\ New
          \/ \E s \in ran : e = Ahead(s)
        BY ProposedIsOne DEF New
    <2> HIDE DEF Goal
    <2> QED BY <1>2, <1>3, <1>4, <2>1
<1> QED BY <1>5 DEF New

-----------------------------------------------------------------------------
(* Firing keeps the invariant.                                             *)
Fired(due, ran, q) ==
    /\ Due(due, ran) /\ q = SetToSeq(Proposed(due, ran))
    /\ kept' = [x \in KeptIds |-> IF x \in due THEN Absent ELSE IF x \in ran THEN Advanced(x) ELSE kept[x]]
    /\ stream' = stream \o q

LEMMA FiredBatch ==
    ASSUME SchedulerIInv, loopAt = "fire", NEW due, NEW ran, NEW q, Fired(due, ran, q)
    PROVE  /\ q \in Seq(Proposed(due, ran))
           /\ \A k \in 1 .. Len(q) : q[k] \in Proposed(due, ran)
           /\ \A e \in Proposed(due, ran) : \E k \in 1 .. Len(q) : q[k] = e
           /\ \A j, k \in 1 .. Len(q) : j # k => q[j] # q[k]
<1>1. due \in SUBSET Timers /\ ran \in SUBSET Schedules
    BY DueTyped DEF Fired
<1>2. IsFiniteSet(Proposed(due, ran))
    BY <1>1, ProposedFinite
<1>3. q = SetToSeq(Proposed(due, ran))
    BY DEF Fired
<1> QED BY <1>2, <1>3, Listing

LEMMA FiredLog ==
    ASSUME SchedulerIInv, loopAt = "fire", NEW due, NEW ran, NEW q, Fired(due, ran, q)
    PROVE  Log(stream') /\ LogInv(stream')
<1>1. Due(due, ran) /\ stream' = stream \o q
    BY DEF Fired
<1>2. Log(stream) /\ SetFirst(stream) /\ Forward(stream) /\ Followed(stream) /\ ReceiptsOnce(stream)
    BY DEF SchedulerIInv, SchedulerTypeOK, LogInv
<1>3. PICK P : P = Proposed(due, ran)
    OBVIOUS
<1>4. /\ q \in Seq(P) /\ \A k \in 1 .. Len(q) : q[k] \in P
      /\ \A e \in P : \E k \in 1 .. Len(q) : q[k] = e
      /\ \A j, k \in 1 .. Len(q) : j # k => q[j] # q[k]
    BY <1>3, FiredBatch
<1>5. \A e \in P : EventTyped(e)
    BY <1>1, <1>3, ProposedTyped
<1>6. ASSUME NEW e \in P
      PROVE  /\ \A s \in Schedules : Snapshot(e, s) => s \in ran /\ e = Ahead(s)
             /\ e.kind # "set"
             /\ e.kind \in {"fired", "observed"} => \A i \in 1 .. Len(stream) : stream[i] # e
             /\ e.kind = "observed" => \E s \in ran : e = Occurrence(s)
    <2>1. e \in Proposed(due, ran)
        BY <1>3
    <2>2. Due(due, ran)
        BY <1>1
    <2> QED BY ONLY SchedulerIInv, loopAt = "fire", <2>1, <2>2, ProposedSnapshot
<1>7. Log(stream \o q)
    BY <1>2, <1>4, <1>5, LogGrows
<1>8. SetFirst(stream \o q)
    BY <1>2, <1>4, <1>6, SetFirstGrows
<1>9. ReceiptsOnce(stream \o q)
    BY <1>2, <1>4, <1>6, ReceiptsOnceGrows
<1>10. Forward(stream \o q)
    <2>1. ASSUME NEW s \in Schedules, NEW k \in 1 .. Len(q), Snapshot(q[k], s)
          PROVE  /\ \A j \in 1 .. Len(q) : Snapshot(q[j], s) => j = k
                 /\ Later(q[k].is, Replayed(stream, s, Len(stream)))
        <3>1. s \in ran /\ q[k] = Ahead(s)
            BY <1>4, <1>6, <2>1
        <3>2. \A j \in 1 .. Len(q) : Snapshot(q[j], s) => q[j] = q[k]
            BY <1>4, <1>6, <2>1
        <3>3. q[k].is = Advanced(s)
            BY <3>1 DEF Ahead, Updated
        <3>4. Later(Advanced(s), kept[s]) /\ kept[s] = Replayed(stream, s, Len(stream))
            BY <1>1, <3>1, DueTyped
        <3> QED BY <1>4, <3>2, <3>3, <3>4
    <2> QED BY <1>2, <1>4, <1>5, <2>1, ForwardGrows
<1>11. Followed(stream \o q)
    <2>1. ASSUME NEW k \in 1 .. Len(q), q[k].kind = "observed"
          PROVE  \E j \in 1 .. Len(q) : /\ Snapshot(q[j], q[k].id)
                                        /\ Later(q[j].is, [rev |-> q[k].rev, next |-> q[k].due])
        <3>1. PICK s \in ran : q[k] = Occurrence(s)
            BY <1>4, <1>6, <2>1
        <3>2. q[k].id = s /\ q[k].rev = kept[s].rev /\ q[k].due = kept[s].next
            BY <3>1 DEF Occurrence
        <3>3. Ahead(s) \in P
            BY <1>1, <1>3, ProposedMembers
        <3>4. PICK j \in 1 .. Len(q) : q[j] = Ahead(s)
            BY <1>4, <3>3
        <3>5. Snapshot(q[j], s) /\ q[j].is = Advanced(s)
            BY <3>4 DEF Ahead, Updated, Snapshot
        <3>6. Later(Advanced(s), [rev |-> kept[s].rev, next |-> kept[s].next])
            BY <1>1, DueTyped
        <3> QED BY <3>2, <3>5, <3>6
    <2> QED BY <1>2, <1>4, <2>1, FollowedGrows
<1> QED BY <1>1, <1>7, <1>8, <1>9, <1>10, <1>11 DEF LogInv

LEMMA FiredState ==
    ASSUME SchedulerIInv, loopAt = "fire", NEW due, NEW ran, NEW q, Fired(due, ran, q)
    PROVE  /\ CaughtUp(stream', kept', through)
           /\ \A s \in Schedules : kept'[s] = Replayed(stream', s, Len(stream'))
<1>1. Due(due, ran) /\ stream' = stream \o q
    BY DEF Fired
<1>2. Log(stream) /\ through \in 0 .. Len(stream) /\ CaughtUp(stream, kept, through)
    BY DEF SchedulerIInv, SchedulerTypeOK, LogInv
<1>3. PICK P : P = Proposed(due, ran)
    OBVIOUS
<1>4. /\ q \in Seq(P) /\ \A k \in 1 .. Len(q) : q[k] \in P
      /\ \A e \in P : \E k \in 1 .. Len(q) : q[k] = e
      /\ \A j, k \in 1 .. Len(q) : j # k => q[j] # q[k]
    BY <1>3, FiredBatch
<1>5. \A s \in ran : ~Silent(q, s)
    <2> SUFFICES ASSUME NEW s \in ran PROVE ~Silent(q, s)
        OBVIOUS
    <2>1. PICK k \in 1 .. Len(q) : q[k] = Ahead(s)
        BY <1>1, <1>3, <1>4, ProposedMembers
    <2>2. q[k].id = s /\ Tells(q[k])
        BY <2>1 DEF Ahead, Updated, Tells
    <2> QED BY <2>2 DEF Silent
<1>6. \A t \in due : ~Silent(q, t) \/ Telling(stream, t, through, Len(stream)) # {}
    <2> SUFFICES ASSUME NEW t \in due, TimerReceipt(t) \in P PROVE ~Silent(q, t)
        BY <1>1, <1>3, ProposedMembers
    <2>1. PICK k \in 1 .. Len(q) : q[k] = TimerReceipt(t)
        BY <1>4
    <2>2. q[k].id = t /\ Tells(q[k])
        BY <2>1 DEF TimerReceipt, Tells
    <2> QED BY <2>2 DEF Silent
<1>7. \A x \in KeptIds : x \notin due /\ x \notin ran => kept'[x] = kept[x]
    BY DEF Fired
<1>8. CaughtUp(stream \o q, kept', through)
    BY <1>2, <1>4, <1>5, <1>6, <1>7, CaughtUpGrows
<1>9. ASSUME NEW s \in Schedules PROVE kept'[s] = Replayed(stream \o q, s, Len(stream \o q))
    <2>1. s \in KeptIds /\ s \notin due
        BY <1>1, DueTyped, SchedulerAssumption DEF KeptIds
    <2>2. \A k \in 1 .. Len(q) : q[k].id = s /\ Tells(q[k]) => s \in ran /\ q[k] = Ahead(s)
        <3>1. \A e \in P : EventTyped(e) /\ (Snapshot(e, s) => s \in ran /\ e = Ahead(s))
            BY <1>1, <1>3, ProposedTyped, ProposedSnapshot
        <3> QED BY <1>4, <3>1, TellsSnapshot
    <2>3. 0 \in 0 .. Len(stream)
        BY <1>2, LogDomain
    <2>4. CASE s \in ran
        <3>1. PICK k \in 1 .. Len(q) : q[k] = Ahead(s)
            BY <1>1, <1>3, <1>4, <2>4, ProposedMembers
        <3> Log(stream) /\ q \in Seq(P) /\ k \in 1 .. Len(q)
            BY <1>2, <1>4
        <3>2. q[k].id = s /\ Tells(q[k]) /\ Told(q[k]) = Advanced(s)
            BY <3>1 DEF Ahead, Updated, Tells, Told
        <3>3. \A j \in 1 .. Len(q) : q[j].id = s /\ Tells(q[j]) => j = k
            BY <1>4, <2>2, <3>1
        <3>4. Replayed(stream \o q, s, Len(stream \o q)) = Advanced(s)
            <4>1. Replayed(stream \o q, s, Len(stream \o q)) = Told(q[k])
                BY ONLY Log(stream), q \in Seq(P), k \in 1 .. Len(q), <3>2, <3>3, SpokenOnce
            <4> QED BY <3>2, <4>1
        <3>5. kept'[s] = Advanced(s)
            BY <2>1, <2>4 DEF Fired
        <3> QED BY <3>4, <3>5
    <2>5. CASE s \notin ran
        <3>1. Silent(q, s)
            BY <2>2, <2>5 DEF Silent
        <3>2. kept'[s] = kept[s] /\ kept[s] = Replayed(stream, s, Len(stream))
            BY <1>1, <1>7, <2>1, <2>5, DueTyped
        <3> QED BY <1>2, <1>4, <2>3, <3>1, <3>2, TellingSilent DEF Replayed
    <2> QED BY <2>4, <2>5
<1> QED BY <1>1, <1>8, <1>9

-----------------------------------------------------------------------------
(* One more event.                                                         *)
LEMMA OneEvent ==
    ASSUME NEW L, Log(L), NEW e
    PROVE  /\ Append(L, e) = L \o <<e>>
           /\ <<e>> \in Seq({e}) /\ Len(<<e>>) = 1 /\ <<e>>[1] = e
           /\ \A k \in 1 .. Len(<<e>>) : k = 1 /\ <<e>>[k] = e
<1>1. PICK T : L \in Seq(T)
    BY DEF Log
<1>2. L \in Seq(T \cup {e}) /\ e \in T \cup {e}
    BY <1>1
<1> QED BY <1>2

LEMMA LogInvAppend ==
    ASSUME NEW L, Log(L), LogInv(L), NEW e, EventTyped(e), e.kind \notin {"fired", "observed"},
           e.kind = "set" => \A i \in 1 .. Len(L) : L[i].id # e.id,
           \A s \in Schedules : Snapshot(e, s) =>
               \/ Later(e.is, Replayed(L, s, Len(L)))
               \/ \A i \in 1 .. Len(L) : ~Snapshot(L[i], s)
    PROVE  Log(Append(L, e)) /\ LogInv(Append(L, e))
<1>1. PICK q : q = <<e>>
    OBVIOUS
<1>2. /\ Append(L, e) = L \o q
      /\ q \in Seq({e}) /\ Len(q) = 1 /\ \A k \in 1 .. Len(q) : k = 1 /\ q[k] = e
    BY <1>1, OneEvent
<1>3. SetFirst(L) /\ Forward(L) /\ Followed(L) /\ ReceiptsOnce(L)
    BY DEF LogInv
<1>4. Log(L \o q)
    BY <1>2, LogGrows
<1>5. SetFirst(L \o q)
    BY <1>2, <1>3, SetFirstGrows
<1>6. Forward(L \o q)
    BY <1>2, <1>3, ForwardGrows
<1>7. Followed(L \o q)
    BY <1>2, <1>3, FollowedGrows
<1>8. ReceiptsOnce(L \o q)
    BY <1>2, <1>3, ReceiptsOnceGrows
<1> QED BY <1>2, <1>4, <1>5, <1>6, <1>7, <1>8 DEF LogInv

(* An event of another component, of a timer or with no say.               *)
LEMMA ForeignEvent ==
    ASSUME SchedulerIInv, NEW e, EventTyped(e), e.kind \notin {"fired", "observed"},
           e.kind = "set" => \A i \in 1 .. Len(stream) : stream[i].id # e.id,
           \A s \in Schedules : ~Snapshot(e, s),
           stream' = Append(stream, e), UNCHANGED <<kept, through, loopAt, now>>
    PROVE  SchedulerIInv'
<1>1. PICK q : q = <<e>>
    OBVIOUS
<1>2. Log(stream) /\ LogInv(stream) /\ CaughtUp(stream, kept, through) /\ through \in 0 .. Len(stream)
    BY DEF SchedulerIInv, SchedulerTypeOK
<1>3. /\ stream' = stream \o q
      /\ q \in Seq({e}) /\ Len(q) = 1 /\ \A k \in 1 .. Len(q) : k = 1 /\ q[k] = e
    BY <1>1, <1>2, OneEvent
<1>4. Log(stream') /\ LogInv(stream')
    BY <1>2, LogInvAppend
<1>5. \A s \in Schedules : Silent(q, s)
    BY <1>3, TellsSnapshot DEF Silent
<1>6. CaughtUp(stream', kept', through')
    <2>1. CaughtUp(stream \o q, kept, through)
        BY <1>2, <1>3, CaughtUpGrows
    <2> QED BY <1>3, <2>1
<1>7. Len(stream) \in Nat /\ Len(stream') = Len(stream) + 1
    <2>1. Len(stream) \in Nat /\ Len(stream \o q) = Len(stream) + Len(q)
        BY <1>2, <1>3, Joined
    <2> QED BY <1>3, <2>1
<1>8. SchedulerTypeOK'
    BY <1>2, <1>4, <1>7 DEF SchedulerIInv, SchedulerTypeOK
<1>9. AtFire'
    <2> SUFFICES ASSUME loopAt = "fire"
                 PROVE  /\ \A x \in KeptIds : kept[x] = Replayed(stream', x, through)
                        /\ \A s \in Schedules : Telling(stream', s, through, Len(stream')) = {}
        BY DEF AtFire
    <2>1. \A x \in KeptIds : kept[x] = Replayed(stream, x, through)
        BY DEF SchedulerIInv, AtFire
    <2>2. \A x \in KeptIds : Replayed(stream', x, through) = Replayed(stream, x, through)
        BY <1>2, <1>3, TellingKept DEF Replayed
    <2>3. \A s \in Schedules : Telling(stream', s, through, Len(stream')) = Telling(stream, s, through, Len(stream))
        BY <1>2, <1>3, <1>5, TellingSilent
    <2>4. \A s \in Schedules : Telling(stream, s, through, Len(stream)) = {}
        BY DEF SchedulerIInv, AtFire
    <2> QED BY <2>1, <2>2, <2>3, <2>4
<1>10. AtWait'
    <2> SUFFICES ASSUME loopAt = "wait", NEW s \in Schedules
                 PROVE  kept[s] = Replayed(stream', s, Len(stream'))
        BY DEF AtWait
    <2>1. kept[s] = Replayed(stream, s, Len(stream))
        BY DEF SchedulerIInv, AtWait
    <2>2. 0 \in 0 .. Len(stream)
        BY <1>7
    <2> QED BY <1>2, <1>3, <1>5, <2>1, <2>2, TellingSilent DEF Replayed
<1> QED BY <1>4, <1>6, <1>8, <1>9, <1>10 DEF SchedulerIInv

LEMMA AskKeeps ==
    ASSUME SchedulerIInv, AskTimer
    PROVE  SchedulerIInv'
<1>1. UNCHANGED <<kept, through, loopAt, now>> /\ now \in Nat /\ DOMAIN stream = 1 .. Len(stream)
    BY LogDomain DEF AskTimer, SchedulerIInv, SchedulerTypeOK
<1>2. ASSUME NEW t \in Timers, NEW d \in {0} \cup Delays, ~Named(t), stream' = Append(stream, Set(t, now + d))
      PROVE  SchedulerIInv'
    <2>1. PICK e : e = Set(t, now + d)
        OBVIOUS
    <2>2. e.kind = "set" /\ e.id = t /\ e.due = now + d /\ now + d \in Nat
        BY <1>1, <2>1, SchedulerAssumption DEF Set
    <2>3. EventTyped(e) /\ \A s \in Schedules : ~Snapshot(e, s)
        BY <2>2 DEF EventTyped, Snapshot
    <2>4. \A i \in 1 .. Len(stream) : stream[i].id # e.id
        BY <1>1, <1>2, <2>2 DEF Named
    <2> QED BY <1>1, <1>2, <2>1, <2>2, <2>3, <2>4, ForeignEvent
<1>3. ASSUME NEW t \in Timers, NEW own \in BOOLEAN, stream' = Append(stream, Cancel(t, own))
      PROVE  SchedulerIInv'
    <2>1. PICK e : e = Cancel(t, own)
        OBVIOUS
    <2>2. e.kind = "cancel" /\ e.id = t
        BY <2>1 DEF Cancel
    <2>3. EventTyped(e) /\ \A s \in Schedules : ~Snapshot(e, s)
        BY <2>2 DEF EventTyped, Snapshot
    <2> QED BY <1>1, <1>3, <2>1, <2>2, <2>3, ForeignEvent
<1>4. ASSUME NEW s \in Schedules, stream' = Append(stream, Updated(s, FALSE, Absent))
      PROVE  SchedulerIInv'
    <2>1. PICK e : e = Updated(s, FALSE, Absent)
        OBVIOUS
    <2>2. e.kind = "updated" /\ e.id = s /\ ~e.own /\ e.is = Absent
        BY <2>1 DEF Updated
    <2>3. EventTyped(e) /\ \A r \in Schedules : ~Snapshot(e, r)
        BY <2>2 DEF EventTyped, Snapshot
    <2> QED BY <1>1, <1>4, <2>1, <2>2, <2>3, ForeignEvent
<1> QED BY <1>2, <1>3, <1>4 DEF AskTimer

-----------------------------------------------------------------------------
(* A schedule capability writes the state and its snapshot together.       *)
LEMMA SaveKeeps ==
    ASSUME SchedulerIInv, loopAt = "wait", NEW id \in Schedules, NEW is,
           is = Absent \/ is \in Entries,
           Later(is, kept[id]) \/ \A i \in 1 .. Len(stream) : stream[i].id # id,
           Save(id, is), loopAt' # "fire", UNCHANGED <<through, now>>
    PROVE  SchedulerIInv'
<1>1. PICK e : e = Updated(id, TRUE, is)
    OBVIOUS
<1>2. e.kind = "updated" /\ e.id = id /\ e.own /\ e.is = is
    BY <1>1 DEF Updated
<1>3. PICK q : q = <<e>>
    OBVIOUS
<1>4. /\ Log(stream) /\ LogInv(stream) /\ CaughtUp(stream, kept, through) /\ through \in 0 .. Len(stream)
      /\ kept[id] = Replayed(stream, id, Len(stream)) /\ DOMAIN kept = KeptIds
    BY DEF SchedulerIInv, SchedulerTypeOK, AtWait
<1>5. /\ stream' = Append(stream, e) /\ stream' = stream \o q
      /\ q \in Seq({e}) /\ Len(q) = 1 /\ \A k \in 1 .. Len(q) : k = 1 /\ q[k] = e
    BY <1>1, <1>3, <1>4, OneEvent DEF Save
<1>6. id \in KeptIds /\ id \notin Timers
    BY SchedulerAssumption DEF KeptIds
<1>7. kept'[id] = is /\ kept' = [x \in KeptIds |-> kept'[x]] /\ \A x \in KeptIds : x # id => kept'[x] = kept[x]
    BY <1>4, <1>6 DEF Save
<1>8. EventTyped(e)
    BY <1>2 DEF EventTyped
<1>9. Log(stream') /\ LogInv(stream')
    <2>1. \A s \in Schedules : Snapshot(e, s) =>
              Later(e.is, Replayed(stream, s, Len(stream))) \/ \A i \in 1 .. Len(stream) : ~Snapshot(stream[i], s)
        BY <1>2, <1>4 DEF Snapshot
    <2> QED BY <1>2, <1>4, <1>5, <1>8, <2>1, LogInvAppend
<1>10. ~Silent(q, id)
    BY <1>2, <1>5 DEF Silent, Tells
<1>11. CaughtUp(stream', kept', through')
    <2>1. CaughtUp(stream \o q, kept', through)
        BY <1>4, <1>5, <1>7, <1>10, CaughtUpGrows
    <2> QED BY <1>5, <2>1
<1>12. Len(stream) \in Nat /\ Len(stream') = Len(stream) + 1
    <2>1. Len(stream) \in Nat /\ Len(stream \o q) = Len(stream) + Len(q)
        BY <1>4, <1>5, Joined
    <2> QED BY <1>5, <2>1
<1>13. SchedulerTypeOK'
    <2>1. \A t \in Timers : kept'[t] = kept[t]
        BY <1>6, <1>7 DEF KeptIds
    <2>2. \A s \in Schedules : kept'[s] = Absent \/ kept'[s] \in Entries
        BY <1>7 DEF KeptIds, SchedulerIInv, SchedulerTypeOK
    <2>3. \A t \in Timers : kept'[t] = Absent \/ (kept'[t] = [due |-> kept'[t].due] /\ kept'[t].due \in Nat)
        BY <2>1 DEF SchedulerIInv, SchedulerTypeOK
    <2> QED BY <1>4, <1>7, <1>9, <1>12, <2>2, <2>3 DEF SchedulerIInv, SchedulerTypeOK
<1>14. ASSUME NEW s \in Schedules PROVE kept'[s] = Replayed(stream \o q, s, Len(stream \o q))
    <2>1. CASE s = id
        <3>1. 1 \in 1 .. Len(q) /\ q[1] = e /\ q[1].id = id /\ Tells(q[1]) /\ Told(q[1]) = is
            BY <1>2, <1>5 DEF Tells, Told
        <3>2. \A j \in 1 .. Len(q) : q[j].id = id /\ Tells(q[j]) => j = 1
            BY <1>5
        <3>3. Replayed(stream \o q, id, Len(stream \o q)) = Told(q[1])
            BY <1>4, <1>5, <3>1, <3>2, SpokenOnce
        <3> QED BY <1>7, <2>1, <3>1, <3>3
    <2>2. CASE s # id
        <3>1. Silent(q, s)
            BY <1>2, <1>5, <2>2 DEF Silent
        <3>2. kept'[s] = kept[s] /\ kept[s] = Replayed(stream, s, Len(stream))
            BY <1>7, <2>2 DEF KeptIds, SchedulerIInv, AtWait
        <3>3. 0 \in 0 .. Len(stream)
            BY <1>12
        <3> QED BY <1>4, <1>5, <3>1, <3>2, <3>3, TellingSilent DEF Replayed
    <2> QED BY <2>1, <2>2
<1>15. AtWait'
    BY <1>5, <1>14 DEF AtWait
<1> QED BY <1>9, <1>11, <1>13, <1>15 DEF SchedulerIInv, AtFire

LEMMA TimedTyped ==
    ASSUME now \in Nat, NEW t \in Timed("once") \cup Timed("cron")
    PROVE  t.timing \in {"once", "cron"} /\ t.next \in Nat
<1>1. PICK timing \in {"once", "cron"} : t \in Timed(timing)
    OBVIOUS
<1>2. PICK due \in FirstTimes(timing, now) : t = [timing |-> timing, next |-> due]
    BY <1>1 DEF Timed
<1>3. due \in Nat
    BY <1>2, AfterLater, SchedulerAssumption DEF FirstTimes
<1> QED BY <1>1, <1>2, <1>3

LEMMA ChangesTyped ==
    ASSUME now \in Nat, NEW s \in Entries, NEW c \in Changes(s)
    PROVE  c \in Entries /\ Later(c, s)
<1>1. s.rev \in Nat /\ s.rev + 1 \in Nat \ {0} /\ s # Absent
    BY AbsentIsNone DEF Entries
<1>2. CASE \E p \in BOOLEAN : c = [s EXCEPT !.rev = @ + 1, !.paused = p]
    <2>1. PICK p \in BOOLEAN : c = [s EXCEPT !.rev = @ + 1, !.paused = p]
        BY <1>2
    <2>2. c \in Entries /\ c.rev = s.rev + 1
        BY <1>1, <2>1 DEF Entries
    <2> QED BY <1>1, <2>2 DEF Later
<1>3. CASE c = [s EXCEPT !.rev = @ + 1]
    BY <1>1, <1>3 DEF Entries, Later
<1>4. CASE \E t \in Timed("once") \cup Timed("cron") : c = [s EXCEPT !.rev = @ + 1, !.timing = t.timing, !.next = t.next]
    <2>1. PICK t \in Timed("once") \cup Timed("cron") : c = [s EXCEPT !.rev = @ + 1, !.timing = t.timing, !.next = t.next]
        BY <1>4
    <2>2. t.timing \in {"once", "cron"} /\ t.next \in Nat
        BY TimedTyped
    <2>3. c \in Entries /\ c.rev = s.rev + 1
        BY <1>1, <2>1, <2>2 DEF Entries
    <2> QED BY <1>1, <2>3 DEF Later
<1> QED BY <1>2, <1>3, <1>4 DEF Changes

LEMMA ManageKeeps ==
    ASSUME SchedulerIInv, Manage
    PROVE  SchedulerIInv'
<1>1. loopAt = "wait" /\ loopAt' # "fire" /\ UNCHANGED <<through, now>> /\ now \in Nat /\ DOMAIN stream = 1 .. Len(stream)
    BY LogDomain DEF Manage, SchedulerIInv, SchedulerTypeOK
<1>2. ASSUME NEW id \in Schedules, ~Named(id), NEW t \in Timed("once") \cup Timed("cron"),
             Save(id, Created(t.timing, t.next))
      PROVE  SchedulerIInv'
    <2>1. Created(t.timing, t.next) \in Entries
        BY <1>1, TimedTyped DEF Created, Entries
    <2>2. \A i \in 1 .. Len(stream) : stream[i].id # id
        BY <1>1, <1>2 DEF Named
    <2> QED BY <1>1, <1>2, <2>1, <2>2, SaveKeeps
<1>3. ASSUME NEW id \in Schedules, kept[id] # Absent, NEW s \in Changes(kept[id]) \cup {Absent}, Save(id, s)
      PROVE  SchedulerIInv'
    <2>1. kept[id] \in Entries
        BY <1>3 DEF SchedulerIInv, SchedulerTypeOK
    <2>2. s = Absent \/ (s \in Entries /\ Later(s, kept[id]))
        BY <1>1, <2>1, ChangesTyped
    <2>3. Later(s, kept[id])
        BY <1>3, <2>2 DEF Later
    <2> QED BY <1>1, <1>3, <2>2, <2>3, SaveKeeps
<1> QED BY <1>2, <1>3 DEF Manage

-----------------------------------------------------------------------------
(* Reading one page.                                                       *)
LEMMA ToldTyped ==
    ASSUME NEW e, EventTyped(e), Tells(e)
    PROVE  /\ e.id \in Timers => Told(e) = Absent \/ (Told(e) = [due |-> Told(e).due] /\ Told(e).due \in Nat)
           /\ e.id \in Schedules => Told(e) = Absent \/ Told(e) \in Entries
<1>1. CASE e.kind = "set"
    BY <1>1, SchedulerAssumption DEF EventTyped, Told
<1>2. CASE e.kind = "updated"
    BY <1>2, SchedulerAssumption DEF EventTyped, Told
<1>3. CASE e.kind \notin {"set", "updated"}
    BY <1>3 DEF Told
<1> QED BY <1>1, <1>2, <1>3

LEMMA PageReads ==
    ASSUME Log(stream), through \in 0 .. Len(stream), NEW to \in through .. Len(stream), NEW x \in KeptIds,
           CaughtUp(stream, kept, through), Telling(stream, x, to, Len(stream)) = {}
    PROVE  Entry(stream, kept, x, through, to) = Replayed(stream, x, Len(stream))
<1>1. Len(stream) \in Nat /\ through \in Nat /\ to \in Nat
    BY LogDomain
<1>2. \A i \in Telling(stream, x, 0, Len(stream)) : i <= to
    BY <1>1 DEF Telling
<1>3. CASE Telling(stream, x, through, to) = {}
    <2>1. Telling(stream, x, through, Len(stream)) = {}
        BY <1>1, <1>2, <1>3 DEF Telling
    <2>2. kept[x] = Replayed(stream, x, Len(stream))
        BY <2>1 DEF CaughtUp
    <2> QED BY <1>3, <2>2, EntryUntold
<1>4. CASE Telling(stream, x, through, to) # {}
    <2>1. PICK m \in Telling(stream, x, through, to) : \A j \in Telling(stream, x, through, to) : j <= m
        BY <1>1, <1>4, LastTelling
    <2>2. Entry(stream, kept, x, through, to) = Told(stream[m])
        BY <1>1, <2>1, EntryTold
    <2>3. m \in Telling(stream, x, 0, Len(stream)) /\ m > through /\ m \in Nat
        BY <1>1, <2>1 DEF Telling
    <2>4. ASSUME NEW j \in Telling(stream, x, 0, Len(stream)) PROVE j <= m
        <3>1. j \in 1 .. to
            BY <1>1, <1>2 DEF Telling
        <3>2. CASE j > through
            <4>1. j \in Telling(stream, x, through, to)
                BY <1>1, <3>1, <3>2 DEF Telling
            <4> QED BY <2>1, <4>1
        <3>3. CASE ~(j > through)
            BY <1>1, <2>3, <3>1, <3>3
        <3> QED BY <3>2, <3>3
    <2>5. Replayed(stream, x, Len(stream)) = Told(stream[m])
        BY <1>1, <2>3, <2>4, EntryTold DEF Replayed
    <2> QED BY <2>2, <2>5
<1> QED BY <1>3, <1>4

LEMMA PageTyped ==
    ASSUME SchedulerTypeOK, NEW to \in through .. Len(stream), NEW x \in KeptIds
    PROVE  LET k == Entry(stream, kept, x, through, to)
           IN  /\ x \in Timers => k = Absent \/ (k = [due |-> k.due] /\ k.due \in Nat)
               /\ x \in Schedules => k = Absent \/ k \in Entries
<1>1. Log(stream) /\ Len(stream) \in Nat /\ through \in Nat /\ to \in Nat
    BY LogDomain DEF SchedulerTypeOK
<1>2. PICK k : k = Entry(stream, kept, x, through, to)
    OBVIOUS
<1>3. CASE Telling(stream, x, through, to) = {}
    <2>1. k = kept[x]
        BY <1>2, <1>3, EntryUntold
    <2> QED BY <1>2, <2>1 DEF SchedulerTypeOK
<1>4. CASE Telling(stream, x, through, to) # {}
    <2>1. PICK m \in Telling(stream, x, through, to) : \A j \in Telling(stream, x, through, to) : j <= m
        BY <1>1, <1>4, LastTelling
    <2>2. k = Told(stream[m])
        BY <1>1, <1>2, <2>1, EntryTold
    <2>3. m \in 1 .. Len(stream) /\ stream[m].id = x /\ Tells(stream[m])
        BY <1>1, <2>1 DEF Telling
    <2>4. EventTyped(stream[m])
        BY <1>1, <2>3 DEF Log
    <2> QED BY <1>2, <2>2, <2>3, <2>4, ToldTyped
<1> QED BY <1>3, <1>4

LEMMA RefreshKeeps ==
    ASSUME SchedulerIInv, Refresh
    PROVE  SchedulerIInv'
<1>1. /\ Log(stream) /\ LogInv(stream) /\ CaughtUp(stream, kept, through) /\ through \in 0 .. Len(stream)
      /\ Len(stream) \in Nat /\ SchedulerTypeOK /\ loopAt = "refresh" /\ UNCHANGED <<stream, now>>
    BY LogDomain DEF SchedulerIInv, SchedulerTypeOK, Refresh
<1>2. CASE through = Len(stream)
    <2>1. loopAt' = "fire" /\ UNCHANGED <<kept, through>>
        BY <1>2 DEF Refresh
    <2>2. \A x : Telling(stream, x, Len(stream), Len(stream)) = {}
        BY <1>1 DEF Telling
    <2>3. \A x \in KeptIds : kept[x] = Replayed(stream, x, through)
        BY <1>1, <1>2, <2>2 DEF CaughtUp
    <2>4. AtFire'
        BY <1>1, <1>2, <2>1, <2>2, <2>3 DEF AtFire
    <2>5. SchedulerTypeOK'
        BY <1>1, <2>1 DEF SchedulerTypeOK
    <2> QED BY <1>1, <2>1, <2>4, <2>5 DEF SchedulerIInv, AtWait
<1>3. CASE through # Len(stream)
    <2>1. PICK to : to = IF through + Page > Len(stream) THEN Len(stream) ELSE through + Page
        OBVIOUS
    <2>2. kept' = Projected(kept, through, to) /\ through' = to /\ loopAt' = "refresh"
        BY <1>1, <1>3, <2>1 DEF Refresh
    <2>3. to \in through .. Len(stream) /\ to \in 0 .. Len(stream)
        BY <1>1, <2>1, SchedulerAssumption
    <2>4. kept' = [x \in KeptIds |-> kept'[x]] /\ \A x \in KeptIds : kept'[x] = Entry(stream, kept, x, through, to)
        BY <2>2 DEF Projected
    <2>5. CaughtUp(stream, kept', to)
        BY <1>1, <2>3, <2>4, PageReads DEF CaughtUp
    <2>6. \A t \in Timers : kept'[t] = Absent \/ (kept'[t] = [due |-> kept'[t].due] /\ kept'[t].due \in Nat)
        BY <1>1, <2>3, <2>4, PageTyped DEF KeptIds
    <2>7. \A s \in Schedules : kept'[s] = Absent \/ kept'[s] \in Entries
        BY <1>1, <2>3, <2>4, PageTyped DEF KeptIds
    <2>8. SchedulerTypeOK'
        BY <1>1, <2>2, <2>3, <2>4, <2>6, <2>7 DEF SchedulerTypeOK
    <2> QED BY <1>1, <2>2, <2>5, <2>8 DEF SchedulerIInv, AtFire, AtWait
<1> QED BY <1>2, <1>3

LEMMA FireKeeps ==
    ASSUME SchedulerIInv, FireDue
    PROVE  SchedulerIInv'
<1>1. PICK due \in SUBSET DueTimers, ran \in SUBSET Occurring :
          /\ kept' = [x \in KeptIds |-> IF x \in due THEN Absent ELSE IF x \in ran THEN Advanced(x) ELSE kept[x]]
          /\ stream' = stream \o SetToSeq(Proposed(due, ran))
    BY DEF FireDue
<1>2. PICK q : q = SetToSeq(Proposed(due, ran))
    OBVIOUS
<1>3. Fired(due, ran, q) /\ Due(due, ran)
    BY <1>1, <1>2 DEF Fired, Due
<1>4. loopAt = "fire" /\ loopAt' = "wait" /\ UNCHANGED <<through, now>>
    BY DEF FireDue
<1>5. Log(stream') /\ LogInv(stream')
    BY <1>3, <1>4, FiredLog
<1>6. CaughtUp(stream', kept', through) /\ \A s \in Schedules : kept'[s] = Replayed(stream', s, Len(stream'))
    BY <1>3, <1>4, FiredState
<1>7. Log(stream) /\ through \in 0 .. Len(stream) /\ now \in Nat
    BY DEF SchedulerIInv, SchedulerTypeOK
<1>8. through \in 0 .. Len(stream')
    <2>1. Len(stream) \in Nat /\ Len(q) \in Nat /\ Len(stream \o q) = Len(stream) + Len(q)
        BY <1>3, <1>4, <1>7, FiredBatch, Joined
    <2> QED BY <1>1, <1>2, <1>7, <2>1
<1>9. due \in SUBSET Timers /\ ran \in SUBSET Schedules /\ \A s \in ran : Advanced(s) \in Entries
    BY <1>3, <1>4, DueTyped
<1>10. \A t \in Timers : kept'[t] = Absent \/ kept'[t] = kept[t]
    BY <1>1, <1>9, SchedulerAssumption DEF KeptIds
<1>11. \A s \in Schedules : kept'[s] = kept[s] \/ kept'[s] \in Entries
    BY <1>1, <1>9, SchedulerAssumption DEF KeptIds
<1>12. SchedulerTypeOK'
    <2>1. \A t \in Timers : kept'[t] = Absent \/ (kept'[t] = [due |-> kept'[t].due] /\ kept'[t].due \in Nat)
        BY <1>10 DEF SchedulerIInv, SchedulerTypeOK
    <2>2. \A s \in Schedules : kept'[s] = Absent \/ kept'[s] \in Entries
        BY <1>11 DEF SchedulerIInv, SchedulerTypeOK
    <2>3. kept' = [x \in KeptIds |-> kept'[x]]
        BY <1>1
    <2> QED BY <1>4, <1>5, <1>7, <1>8, <2>1, <2>2, <2>3 DEF SchedulerTypeOK
<1> QED BY <1>4, <1>5, <1>6, <1>12 DEF SchedulerIInv, AtFire, AtWait

LEMMA InitHolds ==
    ASSUME SchedulerInit
    PROVE  SchedulerIInv
<1>1. stream = << >> /\ Len(stream) = 0 /\ kept = Empty /\ through = 0 /\ loopAt = "refresh" /\ now = 1
    BY DEF SchedulerInit
<1>2. Log(stream)
    <2>1. stream \in Seq({})
        BY <1>1
    <2> QED BY <1>1, <2>1 DEF Log
<1>3. \A x \in KeptIds : kept[x] = Absent
    BY <1>1 DEF Empty
<1>4. SchedulerTypeOK
    BY <1>1, <1>2, <1>3 DEF SchedulerTypeOK, Empty, KeptIds
<1>5. CaughtUp(stream, kept, through)
    BY <1>1, EntryUntold DEF CaughtUp, Replayed
<1>6. LogInv(stream)
    BY <1>1 DEF LogInv, SetFirst, Forward, Followed, ReceiptsOnce
<1> QED BY <1>1, <1>4, <1>5, <1>6 DEF SchedulerIInv, AtFire, AtWait

LEMMA RestartKeeps ==
    ASSUME SchedulerIInv, RestartLoop
    PROVE  SchedulerIInv'
<1>1. /\ Log(stream) /\ LogInv(stream) /\ CaughtUp(stream, kept, through)
      /\ Len(stream) \in Nat /\ SchedulerTypeOK /\ loopAt' = "refresh" /\ UNCHANGED <<stream, now>>
    BY LogDomain DEF SchedulerIInv, SchedulerTypeOK, RestartLoop
<1>2. CASE UNCHANGED <<kept, through>>
    <2>1. SchedulerTypeOK'
        BY <1>1, <1>2 DEF SchedulerTypeOK
    <2> QED BY <1>1, <1>2, <2>1 DEF SchedulerIInv, AtFire, AtWait
<1>3. CASE kept' = Empty /\ through' = 0
    <2>1. \A x \in KeptIds : kept'[x] = Absent
        BY <1>3 DEF Empty
    <2>2. SchedulerTypeOK'
        BY <1>1, <1>3, <2>1 DEF SchedulerTypeOK, Empty, KeptIds
    <2>3. CaughtUp(stream, Empty, 0)
        BY <1>1, EntryUntold DEF CaughtUp, Replayed
    <2> QED BY <1>1, <1>3, <2>2, <2>3 DEF SchedulerIInv, AtFire, AtWait
<1> QED BY <1>2, <1>3 DEF RestartLoop

LEMMA ClockKeeps ==
    ASSUME SchedulerIInv, Clock
    PROVE  SchedulerIInv'
<1>1. loopAt' = "refresh" /\ UNCHANGED <<stream, kept, through>> /\ now \in Nat /\ now' \in Nat
    BY DEF Clock, SchedulerIInv, SchedulerTypeOK
<1>2. SchedulerTypeOK'
    BY <1>1 DEF SchedulerIInv, SchedulerTypeOK
<1> QED BY <1>1, <1>2 DEF SchedulerIInv, AtFire, AtWait

LEMMA StutterKeeps ==
    ASSUME SchedulerIInv, UNCHANGED schedulerVars
    PROVE  SchedulerIInv'
<1>1. UNCHANGED <<stream, kept, through, loopAt, now>>
    BY DEF schedulerVars
<1>2. SchedulerTypeOK'
    BY <1>1 DEF SchedulerIInv, SchedulerTypeOK
<1> QED BY <1>1, <1>2 DEF SchedulerIInv, AtFire, AtWait

LEMMA ReplayFollows ==
    ASSUME SchedulerIInv
    PROVE  ProjectionIsReplay
<1>1. ASSUME loopAt = "fire" PROVE kept = Projected(Empty, 0, through)
    <2>1. \A x \in KeptIds : kept[x] = Replayed(stream, x, through)
        BY <1>1 DEF SchedulerIInv, AtFire
    <2>2. kept = [x \in KeptIds |-> kept[x]]
        BY DEF SchedulerIInv, SchedulerTypeOK
    <2> QED BY <2>1, <2>2 DEF Projected, Replayed
<1>2. DOMAIN stream = 1 .. Len(stream)
    BY LogDomain DEF SchedulerIInv, SchedulerTypeOK
<1>3. \A i, j \in DOMAIN stream : i # j /\ stream[i].kind \in {"fired", "observed"} => stream[i] # stream[j]
    BY <1>2 DEF SchedulerIInv, LogInv, ReceiptsOnce
<1> QED BY <1>1, <1>3 DEF ProjectionIsReplay

(* However timers are set, schedules managed and the loop restarted or     *)
(* rebuilt, refresh and fire leave the scheduler with the state a replay   *)
(* of its stream gives, and no timer or occurrence is told twice.          *)
THEOREM SchedulerProjectionIsReplay == SchedulerSpec => []ProjectionIsReplay
<1>1. SchedulerInit => SchedulerIInv
    BY InitHolds
<1>2. SchedulerIInv /\ [SchedulerNext]_schedulerVars => SchedulerIInv'
    BY AskKeeps, RefreshKeeps, FireKeeps, ClockKeeps, ManageKeeps, RestartKeeps, StutterKeeps DEF SchedulerNext, Loop
<1>3. SchedulerIInv => ProjectionIsReplay
    BY ReplayFollows
<1> QED BY <1>1, <1>2, <1>3, PTL DEF SchedulerSpec

-----------------------------------------------------------------------------
(* The memory plugin's state holds the changes at the positions P of a log. *)
Holds(st, L, P) ==
    /\ DOMAIN st.ops = {L[i].op : i \in P}
    /\ DOMAIN st.records = Opening(L, P)
    /\ IsFiniteSet(DOMAIN st.records) /\ st.count = Cardinality(DOMAIN st.records)
    /\ DOMAIN st.heads = Rooted(L, P)
    /\ \A root \in Rooted(L, P) : st.heads[root] = HeadAfter(L[Max(Touching(L, P, root))])
Logged(L) == \E S : L \in Seq(S)
Unique(L) == \A i, j \in Mine(L) : L[i].op = L[j].op => i = j
Upto(L, n) == {i \in Mine(L) : i <= n}

(* After a stop the state holds a beginning, the marker's at least.        *)
Beginning(L, st, a) == \E n \in Nat : a <= n /\ Holds(st, L, Upto(L, n))

(* A page of the rebuild: what it has not applied is still to be handled.  *)
Restoring(L, st, rest, last) == \E m \in Nat :
    Holds(st, L, Upto(L, m)) /\ \A i \in Mine(L) : m < i /\ i <= last => i \in rest

(* What a delivery has done so far, if it were committed now.              *)
DraftHolds(L, d) ==
    /\ Logged(d.events) /\ d.state.marker \in Nat /\ Unique(L \o d.events)
    /\ Holds(d.state, L \o d.events, Mine(L \o d.events))

MemoryTypeOK ==
    /\ Logged(memoryLog) /\ kv.marker \in Nat /\ upto \in Nat /\ served \in Nat
    /\ draft = DraftOf(draft.state, draft.events)
    /\ phase \in {"down", "rebuilding", "restoring", "active", "handling"}
Rebuilt ==
    /\ phase \in {"down", "rebuilding", "restoring"} => Beginning(memoryLog, kv, kv.marker)
    /\ phase \in {"rebuilding", "restoring"} => after = kv.marker /\ \A i \in Mine(memoryLog) : i <= high
    /\ phase = "restoring" =>
         /\ \A i \in unhandled : i \in Mine(memoryLog) /\ i <= upto
         /\ Restoring(memoryLog, draft.state, unhandled, upto)
Serving ==
    /\ phase \in {"active", "handling"} => Holds(kv, memoryLog, Mine(memoryLog))
    /\ phase = "handling" => unhandled \subseteq 1 .. Len(memoryLog) /\ DraftHolds(memoryLog, draft)
MemoryIInv == MemoryTypeOK /\ Unique(memoryLog) /\ Rebuilt /\ Serving

(* A bounded set of numbers has a greatest one.                            *)
LEMMA MaxOf ==
    ASSUME NEW n \in Nat, NEW S \in SUBSET (0 .. n), S # {}
    PROVE  Max(S) \in S /\ \A j \in S : j <= Max(S)
<1>1. PICK T \in SUBSET Nat : T = {k \in Nat : \A j \in S : j <= k}
    OBVIOUS
<1>2. n \in T
    BY <1>1
<1>3. PICK x : x \in T /\ \A y \in T : x <= y
    BY <1>2, LeastOne
<1>4. PICK y \in S : y \in 0 .. n /\ y <= x
    BY <1>1, <1>3
<1>5. x \in S
    <2> SUFFICES ASSUME x \notin S PROVE FALSE
        OBVIOUS
    <2>1. x \in Nat /\ \A j \in S : j <= x
        BY <1>1, <1>3
    <2>2. \A j \in S : j <= x - 1
        BY <2>1
    <2>3. x - 1 \in T
        BY <1>1, <1>4, <2>1, <2>2
    <2> QED BY <1>3, <2>1, <2>3
<1>6. \E m \in S : \A j \in S : m >= j
    BY <1>1, <1>3, <1>5
<1>7. Max(S) \in S /\ \A j \in S : Max(S) >= j
    BY <1>6 DEF Max
<1>8. \A j \in S : j \in Int
    OBVIOUS
<1> QED BY <1>7, <1>8

LEMMA LastTouching ==
    ASSUME NEW n \in Nat, NEW P \in SUBSET (1 .. n), NEW L, NEW root \in Rooted(L, P)
    PROVE  /\ Max(Touching(L, P, root)) \in P /\ L[Max(Touching(L, P, root))].root = root
           /\ \A j \in P : L[j].root = root => j <= Max(Touching(L, P, root))
<1>1. Touching(L, P, root) \in SUBSET (1 .. n) /\ Touching(L, P, root) # {}
    BY DEF Touching, Rooted
<1>2. Max(Touching(L, P, root)) \in Touching(L, P, root) /\ \A j \in Touching(L, P, root) : j <= Max(Touching(L, P, root))
    <2>1. Touching(L, P, root) \in SUBSET (0 .. n)
        BY <1>1
    <2> QED BY <1>1, <2>1, MaxOf
<1> QED BY <1>2 DEF Touching

LEMMA TouchingIs ==
    ASSUME NEW n \in Nat, NEW P \in SUBSET (1 .. n), NEW L, NEW m \in P,
           \A j \in P : L[j].root = L[m].root => j <= m
    PROVE  Max(Touching(L, P, L[m].root)) = m
<1>1. Touching(L, P, L[m].root) \in SUBSET (1 .. n) /\ m \in Touching(L, P, L[m].root)
    BY DEF Touching
<1>2. \A j \in Touching(L, P, L[m].root) : j <= m
    BY DEF Touching
<1> QED BY <1>1, <1>2, LastIsMax

(* The same changes in the same order, at other positions.                 *)
Shifts(sg, L, P, M, Q) ==
    /\ \A i \in P : sg[i] \in Q /\ M[sg[i]] = L[i]
    /\ \A q \in Q : \E i \in P : q = sg[i]
    /\ \A i, j \in P : i <= j => sg[i] <= sg[j]
LEMMA HoldsShifted ==
    ASSUME NEW st, NEW n \in Nat, NEW L, NEW P \in SUBSET (1 .. n), Holds(st, L, P),
           NEW M, NEW Q \in SUBSET (1 .. n + 1), NEW sg, Shifts(sg, L, P, M, Q)
    PROVE  Holds(st, M, Q)
<1> USE DEF Shifts
<1>0. /\ \A q \in Q : \E i \in P : M[q] = L[i]
      /\ \A i \in P : \E q \in Q : M[q] = L[i]
    OBVIOUS
<1>1. {M[q].op : q \in Q} = {L[i].op : i \in P}
    <2>1. ASSUME NEW x \in {M[q].op : q \in Q} PROVE x \in {L[i].op : i \in P}
        BY <1>0
    <2>2. ASSUME NEW x \in {L[i].op : i \in P} PROVE x \in {M[q].op : q \in Q}
        BY <1>0
    <2> QED BY <2>1, <2>2
<1>2. Opening(M, Q) = Opening(L, P)
    <2>1. ASSUME NEW x \in Opening(M, Q) PROVE x \in Opening(L, P)
        BY <1>0 DEF Opening, Written
    <2>2. ASSUME NEW x \in Opening(L, P) PROVE x \in Opening(M, Q)
        BY <1>0 DEF Opening, Written
    <2> QED BY <2>1, <2>2
<1>3. Rooted(M, Q) = Rooted(L, P)
    <2>1. ASSUME NEW x \in Rooted(M, Q) PROVE x \in Rooted(L, P)
        BY <1>0 DEF Rooted
    <2>2. ASSUME NEW x \in Rooted(L, P) PROVE x \in Rooted(M, Q)
        BY <1>0 DEF Rooted
    <2> QED BY <2>1, <2>2
<1>4. ASSUME NEW root \in Rooted(L, P) PROVE M[Max(Touching(M, Q, root))] = L[Max(Touching(L, P, root))]
    <2>1. PICK m : m = Max(Touching(L, P, root))
        OBVIOUS
    <2>2. m \in P /\ L[m].root = root /\ \A j \in P : L[j].root = root => j <= m
        <3>1. /\ Max(Touching(L, P, root)) \in P /\ L[Max(Touching(L, P, root))].root = root
              /\ \A j \in P : L[j].root = root => j <= Max(Touching(L, P, root))
            BY LastTouching
        <3> QED BY <2>1, <3>1
    <2>3. sg[m] \in Q /\ M[sg[m]] = L[m] /\ M[sg[m]].root = root
        BY <2>2
    <2>4. \A q \in Q : M[q].root = M[sg[m]].root => q <= sg[m]
        BY <2>2, <2>3
    <2>5. Max(Touching(M, Q, M[sg[m]].root)) = sg[m]
        BY <2>3, <2>4, TouchingIs, n + 1 \in Nat
    <2> QED BY <2>1, <2>3, <2>5
<1> QED BY <1>1, <1>2, <1>3, <1>4 DEF Holds

LEMMA HoldsKept ==
    ASSUME NEW st, NEW n \in Nat, NEW L, NEW P \in SUBSET (1 .. n), Holds(st, L, P),
           NEW M, \A i \in P : M[i] = L[i]
    PROVE  Holds(st, M, P)
<1>1. {M[i].op : i \in P} = {L[i].op : i \in P} /\ Rooted(M, P) = Rooted(L, P)
    BY DEF Rooted
<1>2. Opening(M, P) = Opening(L, P)
    <2>1. Written(M, P) = Written(L, P)
        BY DEF Written
    <2>2. \A i \in Written(L, P) : M[i] = L[i]
        BY DEF Written
    <2> QED BY <2>1, <2>2 DEF Opening
<1>3. ASSUME NEW root \in Rooted(L, P) PROVE M[Max(Touching(M, P, root))] = L[Max(Touching(L, P, root))]
    <2>1. Touching(M, P, root) = Touching(L, P, root)
        BY DEF Touching
    <2>2. Max(Touching(L, P, root)) \in P
        BY LastTouching
    <2> QED BY <2>1, <2>2
<1> QED BY <1>1, <1>2, <1>3 DEF Holds

(* One more change, of an operation that is new.                           *)
LEMMA EffectHolds ==
    ASSUME NEW st, NEW n \in Nat, NEW L, NEW P \in SUBSET (1 .. n), Holds(st, L, P),
           NEW M, \A i \in P : M[i] = L[i],
           NEW m \in Nat, \A i \in P : i < m, 0 < m, M[m].op \notin DOMAIN st.ops
    PROVE  Holds(Effect(st, M[m]), M, P \cup {m})
<1>1. PICK c : c = M[m]
    OBVIOUS
<1>2. PICK Q : Q = P \cup {m}
    OBVIOUS
<1>3. PICK t : t = Effect(st, c)
    OBVIOUS
<1>4. Q \in SUBSET (1 .. m) /\ m \in Q /\ P \in SUBSET Q
    BY <1>2
<1>5. Holds(st, M, P)
    BY HoldsKept
<1>6. DOMAIN t.ops = {M[i].op : i \in Q}
    <2>1. DOMAIN t.ops = DOMAIN st.ops \cup {c.op}
        <3>1. PICK v : t.ops = With(st.ops, c.op, v)
            BY <1>3 DEF Effect
        <3> QED BY <3>1 DEF With
    <2> QED BY <1>1, <1>2, <1>5, <2>1 DEF Holds
<1>7. /\ DOMAIN t.records = Opening(M, Q)
      /\ IsFiniteSet(DOMAIN t.records) /\ t.count = Cardinality(DOMAIN t.records)
    <2>0. IsFiniteSet(DOMAIN st.records) /\ st.count = Cardinality(DOMAIN st.records) /\ DOMAIN st.records = Opening(M, P)
        BY <1>5 DEF Holds
    <2>1. CASE c.kind = "forget"
        <3>1. Opening(M, Q) = Opening(M, P)
            BY <1>1, <1>2, <2>1 DEF Opening, Written
        <3>2. t.records = st.records /\ t.count = st.count
            BY <1>3, <2>1 DEF Effect
        <3> QED BY <2>0, <3>1, <3>2
    <2>2. CASE c.kind # "forget"
        <3>1. Opening(M, Q) = Opening(M, P) \cup {c.op}
            BY <1>1, <1>2, <2>2 DEF Opening, Written
        <3>2. DOMAIN t.records = DOMAIN st.records \cup {c.op} /\ t.count = st.count + 1
            <4>1. t.count = st.count + 1 /\ \E v : t.records = With(st.records, c.op, v)
                BY <1>3, <2>2 DEF Effect
            <4>2. PICK v : t.records = With(st.records, c.op, v)
                BY <4>1
            <4> QED BY <4>1, <4>2 DEF With
        <3>3. c.op \notin DOMAIN st.records
            BY <1>1, <1>5 DEF Holds, Opening, Written
        <3>4. IsFiniteSet(DOMAIN st.records \cup {c.op})
              /\ Cardinality(DOMAIN st.records \cup {c.op}) = Cardinality(DOMAIN st.records) + 1
            BY <2>0, <3>3, FS_AddElement
        <3> QED BY <2>0, <3>1, <3>2, <3>4
    <2> QED BY <2>1, <2>2
<1>8. /\ DOMAIN t.heads = DOMAIN st.heads \cup {c.root} /\ t.heads[c.root] = HeadAfter(c)
      /\ \A r \in DOMAIN st.heads : r # c.root => t.heads[r] = st.heads[r]
    <2>1. PICK v : v = HeadAfter(c) /\ t.heads = With(st.heads, c.root, v)
        BY <1>3 DEF Effect
    <2> QED BY <2>1 DEF With
<1>9. DOMAIN t.heads = Rooted(M, Q)
    BY <1>1, <1>2, <1>5, <1>8 DEF Holds, Rooted
<1>10. ASSUME NEW root \in Rooted(M, Q) PROVE t.heads[root] = HeadAfter(M[Max(Touching(M, Q, root))])
    <2>1. CASE root = c.root
        <3>1. \A j \in Q : j <= m
            BY <1>2
        <3>2. Max(Touching(M, Q, M[m].root)) = m
            BY <1>4, <3>1, TouchingIs
        <3> QED BY <1>1, <1>8, <2>1, <3>2
    <2>2. CASE root # c.root
        <3>1. Touching(M, Q, root) = Touching(M, P, root)
            BY <1>1, <1>2, <2>2 DEF Touching
        <3>2. root \in Rooted(M, P)
            BY <1>1, <1>2, <2>2 DEF Rooted
        <3> QED BY <1>5, <1>8, <2>2, <3>1, <3>2 DEF Holds
    <2> QED BY <2>1, <2>2
<1> QED BY <1>1, <1>2, <1>3, <1>6, <1>7, <1>9, <1>10 DEF Holds

-----------------------------------------------------------------------------
(* Logs and what is written to them.                                       *)
LEMMA LogIs ==
    ASSUME NEW L, Logged(L)
    PROVE  /\ Len(L) \in Nat /\ Mine(L) \in SUBSET (1 .. Len(L)) /\ L \o << >> = L
           /\ \A n : Upto(L, n) \in SUBSET (1 .. Len(L))
BY DEF Logged, Mine, Upto

LEMMA AppendIs ==
    ASSUME NEW L, Logged(L), NEW e
    PROVE  /\ Logged(Append(L, e)) /\ Len(Append(L, e)) = Len(L) + 1
           /\ \A i \in 1 .. Len(L) : Append(L, e)[i] = L[i]
           /\ Append(L, e)[Len(L) + 1] = e
<1>1. PICK S : L \in Seq(S)
    BY DEF Logged
<1>2. L \in Seq(S \cup {e}) /\ e \in S \cup {e}
    BY <1>1
<1>3. Append(L, e) \in Seq(S \cup {e})
    BY <1>2
<1> QED BY <1>2, <1>3 DEF Logged

LEMMA ConcatIs ==
    ASSUME NEW L, Logged(L), NEW E, Logged(E)
    PROVE  /\ Logged(L \o E) /\ Len(L \o E) = Len(L) + Len(E)
           /\ \A i \in 1 .. Len(L) + Len(E) : (L \o E)[i] = IF i <= Len(L) THEN L[i] ELSE E[i - Len(L)]
           /\ \A e : L \o Append(E, e) = Append(L \o E, e)
<1>1. PICK S : L \in Seq(S)
    BY DEF Logged
<1>2. PICK T : E \in Seq(T)
    BY DEF Logged
<1>3. L \in Seq(S \cup T) /\ E \in Seq(S \cup T)
    BY <1>1, <1>2
<1>4. L \o E \in Seq(S \cup T)
    BY <1>3
<1>5. ASSUME NEW e PROVE L \o Append(E, e) = Append(L \o E, e)
    <2>1. PICK U : U = S \cup T \cup {e}
        OBVIOUS
    <2>2. L \in Seq(U) /\ E \in Seq(U) /\ e \in U
        BY <1>1, <1>2, <2>1
    <2> QED BY <2>2
<1> QED BY <1>3, <1>4, <1>5 DEF Logged

(* What is no change of the plugin's own changes nothing for it.           *)
LEMMA MineAppend ==
    ASSUME NEW L, Logged(L), NEW e
    PROVE  /\ Mine(Append(L, e)) = IF Own(e) THEN Mine(L) \cup {Len(L) + 1} ELSE Mine(L)
           /\ ~Own(e) => \A n : Upto(Append(L, e), n) = Upto(L, n)
<1>1. /\ Len(Append(L, e)) = Len(L) + 1 /\ Len(L) \in Nat
      /\ \A i \in 1 .. Len(L) : Append(L, e)[i] = L[i]
      /\ Append(L, e)[Len(L) + 1] = e
    BY AppendIs, LogIs
<1>2. PICK A : A = Append(L, e)
    OBVIOUS
<1>3. Mine(A) = IF Own(e) THEN Mine(L) \cup {Len(L) + 1} ELSE Mine(L)
    <2>1. 1 .. Len(A) = (1 .. Len(L)) \cup {Len(L) + 1}
        BY <1>1, <1>2
    <2>2. \A i \in 1 .. Len(L) : Own(A[i]) <=> Own(L[i])
        BY <1>1, <1>2
    <2>3. Own(A[Len(L) + 1]) <=> Own(e)
        BY <1>1, <1>2
    <2> QED BY <2>1, <2>2, <2>3 DEF Mine
<1> QED BY <1>2, <1>3 DEF Upto

LEMMA HoldsAppend ==
    ASSUME NEW st, NEW L, Logged(L), NEW P \in SUBSET Mine(L), Holds(st, L, P), NEW e
    PROVE  Holds(st, Append(L, e), P)
<1>1. Len(L) \in Nat /\ P \in SUBSET (1 .. Len(L)) /\ \A i \in P : Append(L, e)[i] = L[i]
    BY LogIs, AppendIs
<1> QED BY <1>1, HoldsKept

(* An event of another is written while a delivery is handled.             *)
LEMMA Inserted ==
    ASSUME NEW st, NEW L, Logged(L), NEW E, Logged(E), NEW e, ~Own(e),
           Holds(st, L \o E, Mine(L \o E)), Unique(L \o E)
    PROVE  Holds(st, Append(L, e) \o E, Mine(Append(L, e) \o E)) /\ Unique(Append(L, e) \o E)
<1>1. PICK A : A = L \o E
    OBVIOUS
<1>2. PICK B : B = Append(L, e) \o E
    OBVIOUS
<1>3. PICK l \in Nat : l = Len(L)
    BY LogIs
<1>4. PICK k \in Nat : k = Len(E)
    BY LogIs
<1>5. /\ Len(A) = l + k /\ \A i \in 1 .. l + k : A[i] = IF i <= l THEN L[i] ELSE E[i - l]
    BY <1>1, <1>3, <1>4, ConcatIs
<1>6. /\ Len(B) = l + 1 + k /\ \A i \in 1 .. l + 1 + k : B[i] = IF i <= l + 1 THEN Append(L, e)[i] ELSE E[i - (l + 1)]
    BY <1>2, <1>3, <1>4, ConcatIs, AppendIs
<1>7. \A i \in 1 .. l : Append(L, e)[i] = L[i]
    BY <1>3, AppendIs
<1>8. Append(L, e)[l + 1] = e
    BY <1>3, AppendIs
<1>9. PICK sg : sg = [i \in Mine(A) |-> IF i <= l THEN i ELSE i + 1]
    OBVIOUS
<1>10. Mine(A) \in SUBSET (1 .. l + k) /\ Mine(B) \in SUBSET (1 .. l + k + 1) /\ l + k \in Nat
    BY <1>5, <1>6 DEF Mine
<1>11. ASSUME NEW i \in Mine(A)
       PROVE  /\ sg[i] \in 1 .. Len(B) /\ B[sg[i]] = A[i]
              /\ sg[i] = IF i <= l THEN i ELSE i + 1
    <2>1. i \in 1 .. l + k /\ sg[i] = IF i <= l THEN i ELSE i + 1
        BY <1>9, <1>10
    <2>2. CASE i <= l
        <3>1. i \in 1 .. l + 1 + k /\ i <= l + 1 /\ i \in 1 .. l
            BY <2>1, <2>2
        <3>2. B[i] = L[i]
            BY <1>6, <1>7, <3>1
        <3>3. A[i] = L[i]
            BY <1>5, <2>1, <2>2
        <3> QED BY <1>6, <2>1, <2>2, <3>1, <3>2, <3>3
    <2>3. CASE ~(i <= l)
        <3>1. i + 1 \in 1 .. l + 1 + k /\ ~(i + 1 <= l + 1) /\ (i + 1) - (l + 1) = i - l
            BY <2>1, <2>3
        <3>2. B[i + 1] = E[i - l]
            BY <1>6, <3>1
        <3>3. A[i] = E[i - l]
            BY <1>5, <2>1, <2>3
        <3> QED BY <1>6, <2>1, <2>3, <3>1, <3>2, <3>3
    <2> QED BY <2>2, <2>3
<1>12. \A i \in Mine(A) : sg[i] \in Mine(B)
    BY <1>11 DEF Mine
<1>13. ASSUME NEW q \in Mine(B) PROVE \E i \in Mine(A) : q = sg[i]
    <2>1. q \in 1 .. l + 1 + k /\ Own(B[q])
        BY <1>6 DEF Mine
    <2>2. CASE q <= l
        <3>0. q \in 1 .. l + k /\ q <= l + 1 /\ q \in 1 .. l
            BY <2>1, <2>2
        <3>1. A[q] = B[q] /\ q \in 1 .. l + k
            <4>1. B[q] = L[q]
                BY <1>6, <1>7, <2>1, <3>0
            <4>2. A[q] = L[q]
                BY <1>5, <2>2, <3>0
            <4> QED BY <3>0, <4>1, <4>2
        <3>2. q \in Mine(A)
            BY <1>5, <2>1, <3>1 DEF Mine
        <3> QED BY <1>11, <2>2, <3>2
    <2>3. CASE q = l + 1
        <3>0. q <= l + 1
            BY <2>1, <2>3
        <3>1. B[q] = Append(L, e)[q]
            BY <1>6, <2>1, <3>0
        <3> QED BY <1>8, <2>1, <2>3, <3>1
    <2>4. CASE q > l + 1
        <3>1. q - 1 \in 1 .. l + k /\ ~(q - 1 <= l) /\ (q - 1) - l = q - (l + 1) /\ q - 1 + 1 = q
            BY <2>1, <2>4
        <3>2. A[q - 1] = E[q - (l + 1)]
            BY <1>5, <3>1
        <3>3. B[q] = E[q - (l + 1)]
            BY <1>6, <2>1, <2>4
        <3>4. q - 1 \in Mine(A)
            BY <1>5, <2>1, <3>1, <3>2, <3>3 DEF Mine
        <3> QED BY <1>11, <3>1, <3>4
    <2> QED BY <2>1, <2>2, <2>3, <2>4
<1>14. \A i, j \in Mine(A) : i <= j => sg[i] <= sg[j]
    BY <1>10, <1>11
<1>15. Holds(st, B, Mine(B))
    <2>1. Shifts(sg, A, Mine(A), B, Mine(B))
        BY <1>11, <1>12, <1>13, <1>14 DEF Shifts
    <2>2. Holds(st, A, Mine(A))
        BY <1>1
    <2> QED BY <1>10, <2>1, <2>2, HoldsShifted
<1>16. Unique(B)
    <2>1. ASSUME NEW p \in Mine(B), NEW q \in Mine(B), B[p].op = B[q].op PROVE p = q
        <3>1. PICK i \in Mine(A) : p = sg[i]
            BY <1>13
        <3>2. PICK j \in Mine(A) : q = sg[j]
            BY <1>13
        <3>3. A[i].op = A[j].op
            BY <1>11, <2>1, <3>1, <3>2
        <3> QED BY <1>1, <3>1, <3>2, <3>3 DEF Unique
    <2> QED BY <2>1 DEF Unique
<1> QED BY <1>2, <1>15, <1>16

(* A write of the plugin's own, with its answer.                           *)
LEMMA OwnAppended ==
    ASSUME NEW st, NEW A, Logged(A), Holds(st, A, Mine(A)), Unique(A),
           NEW c, Own(c), c.op \notin DOMAIN st.ops
    PROVE  Holds(Effect(st, c), Append(A, c), Mine(Append(A, c))) /\ Unique(Append(A, c))
<1>1. PICK B : B = Append(A, c)
    OBVIOUS
<1>2. PICK m \in Nat : m = Len(A) + 1
    BY LogIs
<1>3. Len(A) \in Nat /\ Mine(A) \in SUBSET (1 .. Len(A))
    BY LogIs
<1>4. B[m] = c /\ \A i \in Mine(A) : B[i] = A[i]
    BY <1>1, <1>2, <1>3, AppendIs
<1>5. Mine(B) = Mine(A) \cup {m}
    BY <1>1, <1>2, MineAppend
<1>6. (\A i \in Mine(A) : i < m) /\ 0 < m
    BY <1>2, <1>3
<1>7. Holds(Effect(st, B[m]), B, Mine(A) \cup {m})
    BY <1>3, <1>4, <1>6, EffectHolds
<1>8. \A i \in Mine(A) : A[i].op # c.op
    BY DEF Holds
<1>9. ASSUME NEW i \in Mine(B), NEW j \in Mine(B), B[i].op = B[j].op PROVE i = j
    BY <1>4, <1>5, <1>8, <1>9 DEF Unique
<1> QED BY <1>1, <1>4, <1>5, <1>7, <1>9 DEF Unique

LEMMA UniqueAppend ==
    ASSUME NEW A, Logged(A), Unique(A), NEW e, ~Own(e)
    PROVE  Unique(Append(A, e))
<1>1. Mine(Append(A, e)) = Mine(A) /\ \A i \in Mine(A) : Append(A, e)[i] = A[i]
    BY MineAppend, LogIs, AppendIs
<1> QED BY <1>1 DEF Unique

LEMMA UniqueBefore ==
    ASSUME NEW L, Logged(L), NEW E, Logged(E), Unique(L \o E)
    PROVE  Unique(L)
<1>1. \A i \in Mine(L) : i \in Mine(L \o E) /\ (L \o E)[i] = L[i]
    BY LogIs, ConcatIs DEF Mine
<1> QED BY <1>1 DEF Unique

LEMMA EmptyLogged == Logged(<< >>)
BY DEF Logged

(* Everything there is, as a beginning.                                    *)
LEMMA WholeBeginning ==
    ASSUME NEW L, Logged(L), NEW st, NEW a \in Nat, Holds(st, L, Mine(L))
    PROVE  Beginning(L, st, a)
<1>1. Len(L) + a \in Nat /\ a <= Len(L) + a
    BY LogIs
<1>2. Upto(L, Len(L) + a) = Mine(L)
    BY LogIs DEF Upto
<1> QED BY <1>1, <1>2 DEF Beginning

LEMMA NothingHeld ==
    ASSUME NEW L, Logged(L)
    PROVE  Beginning(L, NoMemory, NoMemory.marker)
<1>1. Upto(L, 0) = {}
    BY LogIs DEF Upto
<1>2. Holds(NoMemory, L, {})
    <2>1. DOMAIN NoKeys = {} /\ IsFiniteSet({}) /\ Cardinality({}) = 0
        BY FS_EmptySet DEF NoKeys
    <2>2. Opening(L, {}) = {} /\ Rooted(L, {}) = {} /\ {L[i].op : i \in {}} = {}
        BY DEF Opening, Written, Rooted
    <2> QED BY <2>1, <2>2 DEF Holds, NoMemory
<1>3. NoMemory.marker = 0
    BY DEF NoMemory
<1> QED BY <1>1, <1>2, <1>3 DEF Beginning

(* One event of a delivery.                                                *)
LEMMA AnswerAdded ==
    ASSUME NEW L, Logged(L), NEW d, DraftHolds(L, d), NEW e, ~Own(e)
    PROVE  DraftHolds(L, DraftOf(d.state, Append(d.events, e)))
<1>1. PICK E : E = d.events /\ Logged(E)
    BY DEF DraftHolds
<1>2. PICK A : A = L \o E /\ Logged(A)
    BY <1>1, ConcatIs
<1>3. L \o Append(E, e) = Append(A, e) /\ Logged(Append(E, e))
    BY <1>1, <1>2, ConcatIs, AppendIs
<1>4. Unique(A) /\ Holds(d.state, A, Mine(A)) /\ d.state.marker \in Nat
    BY <1>1, <1>2 DEF DraftHolds
<1>5. Unique(Append(A, e))
    BY <1>2, <1>4, UniqueAppend
<1>6. Mine(Append(A, e)) = Mine(A)
    BY <1>2, MineAppend
<1>7. Holds(d.state, Append(A, e), Mine(Append(A, e)))
    BY <1>2, <1>4, <1>6, HoldsAppend
<1>8. /\ DraftOf(d.state, Append(d.events, e)).state = d.state
      /\ DraftOf(d.state, Append(d.events, e)).events = Append(E, e)
    BY <1>1 DEF DraftOf
<1> QED BY <1>3, <1>4, <1>5, <1>7, <1>8 DEF DraftHolds

LEMMA WriteAdded ==
    ASSUME NEW L, Logged(L), NEW d, DraftHolds(L, d), NEW c, Own(c), c.op \notin DOMAIN d.state.ops
    PROVE  DraftHolds(L, DraftOf(Effect(d.state, c), Append(d.events, c)))
<1>1. PICK E : E = d.events /\ Logged(E)
    BY DEF DraftHolds
<1>2. PICK A : A = L \o E /\ Logged(A)
    BY <1>1, ConcatIs
<1>3. L \o Append(E, c) = Append(A, c) /\ Logged(Append(E, c))
    BY <1>1, <1>2, ConcatIs, AppendIs
<1>4. Unique(A) /\ Holds(d.state, A, Mine(A)) /\ d.state.marker \in Nat
    BY <1>1, <1>2 DEF DraftHolds
<1>5. PICK t : t = Effect(d.state, c) /\ t.marker \in Nat
    <2>1. Effect(d.state, c).marker = d.state.marker
        BY DEF Effect
    <2> QED BY <1>4, <2>1
<1>6. PICK st : st = d.state
    OBVIOUS
<1>7. Holds(t, Append(A, c), Mine(Append(A, c))) /\ Unique(Append(A, c))
    BY <1>2, <1>4, <1>5, <1>6, OwnAppended
<1>8. /\ DraftOf(t, Append(d.events, c)).state = t
      /\ DraftOf(t, Append(d.events, c)).events = Append(E, c)
    BY <1>1 DEF DraftOf
<1> QED BY <1>3, <1>5, <1>7, <1>8 DEF DraftHolds

LEMMA ExecuteHolds ==
    ASSUME NEW L, Logged(L), NEW d, DraftHolds(L, d), NEW r, NEW seq
    PROVE  DraftHolds(L, ExecuteWrite(d, r, seq))
<1>1. PICK c : c = ChangeOf(d.state, r)
    OBVIOUS
<1>2. Own(c) /\ c.op = r.op
    BY <1>1 DEF ChangeOf, Own, IsChange
<1>3. \A v : ~Own(AnswerTo(seq, v))
    BY DEF AnswerTo, Own, IsChange
<1>4. CASE MemoryVerdict(d.state, r) = "written"
    <2>1. c.op \notin DOMAIN d.state.ops
        BY <1>2, <1>4 DEF MemoryVerdict
    <2>2. PICK w : w = DraftOf(Effect(d.state, c), Append(d.events, c))
        OBVIOUS
    <2>3. DraftHolds(L, w)
        BY <1>2, <2>1, <2>2, WriteAdded
    <2>4. ExecuteWrite(d, r, seq) = DraftOf(w.state, Append(w.events, AnswerTo(seq, "completed")))
        BY <1>1, <1>4, <2>1, <2>2 DEF ExecuteWrite, Apply, DraftOf
    <2> QED BY <1>3, <2>3, <2>4, AnswerAdded
<1>5. CASE MemoryVerdict(d.state, r) # "written"
    <2>1. ExecuteWrite(d, r, seq) = DraftOf(d.state, Append(d.events, AnswerTo(seq, MemoryVerdict(d.state, r))))
        BY <1>5 DEF ExecuteWrite
    <2>2. PICK v : v = MemoryVerdict(d.state, r)
        OBVIOUS
    <2>3. DraftHolds(L, DraftOf(d.state, Append(d.events, AnswerTo(seq, v))))
        BY <1>3, AnswerAdded
    <2> QED BY <2>1, <2>2, <2>3
<1> QED BY <1>4, <1>5

LEMMA HandledHolds ==
    ASSUME Logged(memoryLog), NEW d, d = DraftOf(d.state, d.events), DraftHolds(memoryLog, d),
           NEW seq \in 1 .. Len(memoryLog)
    PROVE  DraftHolds(memoryLog, Handled(d, seq))
<1>1. CASE Own(memoryLog[seq])
    <2>1. Handled(d, seq) = DraftOf(Apply(d.state, memoryLog[seq]), d.events)
        BY <1>1 DEF Handled, Own, IsChange
    <2>2. PICK E : E = d.events /\ Logged(E)
        BY DEF DraftHolds
    <2>3. seq \in Mine(memoryLog \o E) /\ (memoryLog \o E)[seq] = memoryLog[seq]
        <3>1. Len(memoryLog) \in Nat /\ Len(E) \in Nat
            BY <2>2, LogIs
        <3>2. seq \in 1 .. Len(memoryLog) + Len(E) /\ seq <= Len(memoryLog)
            BY <3>1
        <3>3. Len(memoryLog \o E) = Len(memoryLog) + Len(E) /\ (memoryLog \o E)[seq] = memoryLog[seq]
            BY <2>2, <3>2, ConcatIs
        <3> QED BY <1>1, <3>2, <3>3 DEF Mine
    <2>4. DOMAIN d.state.ops = {(memoryLog \o E)[i].op : i \in Mine(memoryLog \o E)}
        BY <2>2 DEF DraftHolds, Holds
    <2>5. memoryLog[seq].op \in DOMAIN d.state.ops
        BY <2>3, <2>4
    <2>6. Handled(d, seq) = d
        BY <2>1, <2>5 DEF Apply
    <2> QED BY <2>6
<1>2. CASE ~Own(memoryLog[seq]) /\ memoryLog[seq].type = "request" /\ ~IsAnswered(seq)
    <2>1. Handled(d, seq) = ExecuteWrite(d, memoryLog[seq], seq)
        BY <1>2 DEF Handled
    <2> QED BY <2>1, ExecuteHolds
<1>3. CASE ~Own(memoryLog[seq]) /\ ~(memoryLog[seq].type = "request" /\ ~IsAnswered(seq))
    <2>1. Handled(d, seq) = d
        BY <1>3 DEF Handled
    <2> QED BY <2>1
<1> QED BY <1>1, <1>2, <1>3

-----------------------------------------------------------------------------
(* The steps.                                                              *)
LEMMA OtherWrites ==
    ASSUME MemoryIInv, NEW e, ~Own(e), memoryLog' = Append(memoryLog, e),
           UNCHANGED << kv, served, phase, draft, unhandled, upto, after, high, stops >>
    PROVE  MemoryIInv'
<1>1. PICK L : L = memoryLog /\ Logged(L) /\ Unique(L)
    BY DEF MemoryIInv, MemoryTypeOK
<1>2. PICK M : M = Append(L, e)
    OBVIOUS
<1>3. Logged(M) /\ Len(M) = Len(L) + 1 /\ Len(L) \in Nat
    BY <1>1, <1>2, AppendIs, LogIs
<1>4. Mine(M) = Mine(L) /\ \A n : Upto(M, n) = Upto(L, n)
    BY <1>1, <1>2, MineAppend
<1>5. Unique(M)
    BY <1>1, <1>2, UniqueAppend
<1>6. \A st, n : Holds(st, L, Upto(L, n)) => Holds(st, M, Upto(M, n))
    <2>1. \A n : Upto(L, n) \in SUBSET Mine(L)
        BY DEF Upto
    <2> QED BY <1>1, <1>2, <1>4, <2>1, HoldsAppend
<1>7. \A st : Holds(st, L, Mine(L)) => Holds(st, M, Mine(M))
    BY <1>1, <1>2, <1>4, HoldsAppend
<1>8. MemoryTypeOK'
    BY <1>1, <1>2, <1>3 DEF MemoryIInv, MemoryTypeOK
<1>9. Rebuilt'
    <2>1. \A st, a : Beginning(L, st, a) => Beginning(M, st, a)
        BY <1>6 DEF Beginning
    <2>2. \A st, rest, last : Restoring(L, st, rest, last) => Restoring(M, st, rest, last)
        BY <1>4, <1>6 DEF Restoring
    <2> QED BY <1>1, <1>2, <1>4, <2>1, <2>2 DEF MemoryIInv, Rebuilt
<1>10. Serving'
    <2>1. ASSUME phase = "handling" PROVE DraftHolds(M, draft)
        <3>1. DraftHolds(L, draft)
            BY <1>1, <2>1 DEF MemoryIInv, Serving
        <3>2. PICK E : E = draft.events /\ Logged(E)
            BY <3>1 DEF DraftHolds
        <3>3. PICK st : st = draft.state /\ Holds(st, L \o E, Mine(L \o E)) /\ Unique(L \o E)
            BY <3>1, <3>2 DEF DraftHolds
        <3>4. Holds(st, M \o E, Mine(M \o E)) /\ Unique(M \o E)
            BY <1>1, <1>2, <3>2, <3>3, Inserted
        <3> QED BY <3>1, <3>2, <3>3, <3>4 DEF DraftHolds
    <2>2. phase = "handling" => unhandled \subseteq 1 .. Len(M)
        BY <1>1, <1>3 DEF MemoryIInv, Serving
    <2> QED BY <1>1, <1>2, <1>7, <2>1, <2>2 DEF MemoryIInv, Serving
<1> QED BY <1>1, <1>2, <1>5, <1>8, <1>9, <1>10 DEF MemoryIInv

LEMMA AskWriteKeeps == ASSUME MemoryIInv, AskWrite PROVE MemoryIInv'
<1>1. \A r : ~Own([type |-> "request", op |-> r.op, kind |-> r.kind, of |-> r.of])
    BY DEF Own, IsChange
<1>2. PICK e : memoryLog' = Append(memoryLog, e) /\ ~Own(e)
    BY <1>1 DEF AskWrite
<1> QED BY <1>2, OtherWrites DEF AskWrite

LEMMA ForeignKeeps == ASSUME MemoryIInv, ForeignChange PROVE MemoryIInv'
<1>1. \A o : ~Own([type |-> "change", actor |-> "other", op |-> o,
                   kind |-> "remember", of |-> o, root |-> o])
    BY DEF Own, IsChange
<1>2. PICK e : memoryLog' = Append(memoryLog, e) /\ ~Own(e)
    BY <1>1 DEF ForeignChange
<1> QED BY <1>2, OtherWrites DEF ForeignChange

LEMMA DraftIs == ASSUME NEW st, NEW ev PROVE DraftOf(st, ev).state = st /\ DraftOf(st, ev).events = ev
BY DEF DraftOf

LEMMA TakeKeeps == ASSUME MemoryIInv, TakeDelivery PROVE MemoryIInv'
<1>1. PICK end : end = IF served + MemoryBatch < Len(memoryLog) THEN served + MemoryBatch ELSE Len(memoryLog)
    OBVIOUS
<1>2. /\ phase = "active" /\ phase' = "handling" /\ draft' = DraftOf(kv, << >>)
      /\ unhandled' = served + 1 .. end /\ upto' = end
      /\ UNCHANGED << memoryLog, kv, served, after, high, stops >>
    BY <1>1 DEF TakeDelivery, Begin
<1>3. Logged(memoryLog) /\ kv.marker \in Nat /\ served \in Nat /\ Unique(memoryLog) /\ Len(memoryLog) \in Nat
    BY LogIs DEF MemoryIInv, MemoryTypeOK
<1>4. end \in 0 .. Len(memoryLog) /\ served + 1 .. end \subseteq 1 .. Len(memoryLog)
    BY <1>1, <1>3, MemoryAssumption
<1>5. Holds(kv, memoryLog, Mine(memoryLog))
    BY <1>2 DEF MemoryIInv, Serving
<1>6. DraftHolds(memoryLog, DraftOf(kv, << >>))
    BY <1>3, <1>5, LogIs, EmptyLogged, DraftIs DEF DraftHolds
<1>7. MemoryTypeOK'
    <2>1. draft' = DraftOf(draft'.state, draft'.events)
        BY <1>2, DraftIs
    <2> QED BY <1>2, <1>3, <1>4, <2>1 DEF MemoryTypeOK
<1>8. Serving'
    BY <1>2, <1>4, <1>5, <1>6 DEF Serving
<1> QED BY <1>2, <1>3, <1>7, <1>8 DEF MemoryIInv, Rebuilt

LEMMA HandledIsDraft ==
    ASSUME NEW d, d = DraftOf(d.state, d.events), NEW seq
    PROVE  Handled(d, seq) = DraftOf(Handled(d, seq).state, Handled(d, seq).events)
<1>1. \E st, ev : Handled(d, seq) = DraftOf(st, ev)
    BY DEF Handled, ExecuteWrite, Own, IsChange
<1> QED BY <1>1, DraftIs

(* A change of a page: it is applied if it is the next one.                *)
LEMMA RestoringKeeps ==
    ASSUME NEW L, Logged(L), Unique(L), NEW st, NEW rest, NEW last \in Nat,
           \A i \in rest : i \in Mine(L) /\ i <= last, Restoring(L, st, rest, last),
           NEW seq \in rest, \A i \in rest : seq <= i
    PROVE  Restoring(L, Apply(st, L[seq]), rest \ {seq}, last)
<1>1. PICK m \in Nat : Holds(st, L, Upto(L, m)) /\ \A i \in Mine(L) : m < i /\ i <= last => i \in rest
    BY DEF Restoring
<1>2. Len(L) \in Nat /\ Upto(L, m) \in SUBSET (1 .. Len(L)) /\ Mine(L) \in SUBSET (1 .. Len(L)) /\ seq \in Mine(L)
    BY LogIs
<1>3. seq \in Nat /\ 0 < seq
    BY <1>2
<1>4. CASE seq <= m
    <2>1. L[seq].op \in DOMAIN st.ops
        BY <1>1, <1>2, <1>4 DEF Holds, Upto
    <2>2. Apply(st, L[seq]) = st
        BY <2>1 DEF Apply
    <2>3. \A i \in Mine(L) : m < i /\ i <= last => i \in rest \ {seq}
        BY <1>1, <1>2, <1>3, <1>4
    <2> QED BY <1>1, <2>2, <2>3 DEF Restoring
<1>5. CASE m < seq
    <2>1. L[seq].op \notin DOMAIN st.ops
        <3>1. \A i \in Upto(L, m) : i \in Mine(L) /\ i # seq
            BY <1>2, <1>3, <1>5 DEF Upto
        <3> QED BY <1>1, <1>2, <3>1 DEF Holds, Unique
    <2>2. Upto(L, seq) = Upto(L, m) \cup {seq}
        <3>1. ASSUME NEW i \in Mine(L), i <= seq, m < i PROVE i = seq
            BY <1>1, <1>2, <1>3, <3>1
        <3> QED BY <1>2, <1>3, <1>5, <3>1 DEF Upto
    <2>3. \A i \in Upto(L, m) : i < seq
        BY <1>2, <1>3, <1>5 DEF Upto
    <2>4. Holds(Effect(st, L[seq]), L, Upto(L, seq))
        <3>1. PICK P \in SUBSET (1 .. Len(L)) : P = Upto(L, m) /\ Holds(st, L, P) /\ \A i \in P : L[i] = L[i]
            BY <1>1, <1>2
        <3>2. Holds(Effect(st, L[seq]), L, P \cup {seq})
            BY <1>2, <1>3, <2>1, <2>3, <3>1, EffectHolds
        <3> QED BY <2>2, <3>1, <3>2
    <2>5. \A i \in Mine(L) : seq < i /\ i <= last => i \in rest \ {seq}
        BY <1>1, <1>2, <1>3, <1>5
    <2> QED BY <1>3, <2>1, <2>4, <2>5 DEF Apply, Restoring
<1> QED BY <1>2, <1>3, <1>4, <1>5

LEMMA HandleKeeps == ASSUME MemoryIInv, HandleNext PROVE MemoryIInv'
<1>1. /\ unhandled # {} /\ draft' = Handled(draft, Min(unhandled)) /\ unhandled' = unhandled \ {Min(unhandled)}
      /\ UNCHANGED << memoryLog, kv, served, phase, upto, after, high, stops >>
    BY DEF HandleNext
<1>2. MemoryTypeOK /\ Unique(memoryLog) /\ Rebuilt /\ Serving /\ Logged(memoryLog)
      /\ upto \in Nat /\ draft = DraftOf(draft.state, draft.events)
    BY DEF MemoryIInv, MemoryTypeOK
<1>3. Mine(memoryLog) \in SUBSET Nat /\ Len(memoryLog) \in Nat
    BY <1>2, LogIs
<1>4. draft' = DraftOf(draft'.state, draft'.events)
    BY <1>1, <1>2, HandledIsDraft
<1>5. MemoryTypeOK'
    BY <1>1, <1>2, <1>4 DEF MemoryTypeOK
<1>6. ASSUME phase = "restoring" PROVE Rebuilt' /\ Serving'
    <2>1. /\ \A i \in unhandled : i \in Mine(memoryLog) /\ i <= upto
          /\ Restoring(memoryLog, draft.state, unhandled, upto)
        BY <1>2, <1>6 DEF Rebuilt
    <2>2. Min(unhandled) \in unhandled /\ \A i \in unhandled : Min(unhandled) <= i
        BY <1>1, <1>3, <2>1, LeastOne
    <2>3. PICK seq \in unhandled : seq = Min(unhandled) /\ \A i \in unhandled : seq <= i
        BY <2>2
    <2>4. Own(memoryLog[seq])
        BY <2>1 DEF Mine
    <2>5. draft' = DraftOf(Apply(draft.state, memoryLog[seq]), draft.events)
        BY <1>1, <2>3, <2>4 DEF Handled, Own, IsChange
    <2>6. draft'.state = Apply(draft.state, memoryLog[seq])
        BY <2>5, DraftIs
    <2>7. PICK st : st = draft.state
        OBVIOUS
    <2>8. Restoring(memoryLog, Apply(st, memoryLog[seq]), unhandled \ {seq}, upto)
        BY <1>2, <2>1, <2>3, <2>7, RestoringKeeps
    <2>9. Restoring(memoryLog', draft'.state, unhandled', upto')
        BY <1>1, <2>3, <2>6, <2>7, <2>8
    <2> QED BY <1>1, <1>2, <1>6, <2>1, <2>9 DEF Rebuilt, Serving
<1>7. ASSUME phase = "handling" PROVE Rebuilt' /\ Serving'
    <2>1. unhandled \subseteq 1 .. Len(memoryLog) /\ DraftHolds(memoryLog, draft)
        BY <1>2, <1>7 DEF Serving
    <2>2. Min(unhandled) \in unhandled
        BY <1>1, <1>3, <2>1, LeastOne
    <2>3. DraftHolds(memoryLog, draft')
        BY <1>1, <1>2, <2>1, <2>2, HandledHolds
    <2> QED BY <1>1, <1>2, <1>7, <2>1, <2>3 DEF Rebuilt, Serving
<1>8. phase \in {"handling", "restoring"}
    BY DEF HandleNext
<1> QED BY <1>1, <1>2, <1>5, <1>6, <1>7, <1>8 DEF MemoryIInv

LEMMA CommitKeeps == ASSUME MemoryIInv, CommitDelivery PROVE MemoryIInv'
<1>1. DraftHolds(memoryLog, draft) /\ Logged(memoryLog) /\ served \in Nat /\ upto \in Nat
    BY DEF CommitDelivery, MemoryIInv, MemoryTypeOK, Serving
<1>2. /\ phase' = "active" /\ kv' = draft.state /\ memoryLog' = memoryLog \o draft.events
      /\ served' = upto /\ draft' = NoDraft /\ upto' = 0
    BY DEF CommitDelivery
<1>3. Logged(memoryLog') /\ Unique(memoryLog') /\ Holds(kv', memoryLog', Mine(memoryLog')) /\ kv'.marker \in Nat
    BY <1>1, <1>2, ConcatIs DEF DraftHolds
<1>4. NoDraft = DraftOf(NoDraft.state, NoDraft.events)
    BY DraftIs DEF NoDraft
<1> QED BY <1>1, <1>2, <1>3, <1>4 DEF MemoryIInv, MemoryTypeOK, Rebuilt, Serving

LEMMA StopKeeps == ASSUME MemoryIInv, StopMemory PROVE MemoryIInv'
<1>1. /\ phase' = "down" /\ draft' = NoDraft /\ upto' = 0 /\ phase # "down"
      /\ UNCHANGED << memoryLog, kv, served, after, high >>
    BY DEF StopMemory
<1>2. MemoryTypeOK /\ Unique(memoryLog) /\ Rebuilt /\ Serving /\ Logged(memoryLog) /\ kv.marker \in Nat
    BY DEF MemoryIInv, MemoryTypeOK
<1>3. Beginning(memoryLog, kv, kv.marker)
    <2>1. CASE phase \in {"active", "handling"}
        <3>1. Holds(kv, memoryLog, Mine(memoryLog))
            BY <1>2, <2>1 DEF Serving
        <3> QED BY <1>2, <3>1, WholeBeginning
    <2> QED BY <1>1, <1>2, <2>1 DEF MemoryTypeOK, Rebuilt
<1>4. NoDraft = DraftOf(NoDraft.state, NoDraft.events)
    BY DraftIs DEF NoDraft
<1> QED BY <1>1, <1>2, <1>3, <1>4 DEF MemoryIInv, MemoryTypeOK, Rebuilt, Serving

LEMMA DiscardKeeps == ASSUME MemoryIInv, DiscardState PROVE MemoryIInv'
<1>1. /\ phase = "down" /\ kv' = NoMemory /\ served' = 0
      /\ UNCHANGED << memoryLog, phase, draft, unhandled, upto, after, high, stops >>
    BY DEF DiscardState
<1>2. Logged(memoryLog) /\ MemoryTypeOK /\ Unique(memoryLog)
    BY DEF MemoryIInv, MemoryTypeOK
<1>3. Beginning(memoryLog, NoMemory, NoMemory.marker) /\ NoMemory.marker \in Nat
    BY <1>2, NothingHeld DEF NoMemory
<1> QED BY <1>1, <1>2, <1>3 DEF MemoryIInv, MemoryTypeOK, Rebuilt, Serving

(* A page holds every change up to its last, and is empty only at the end. *)
Remaining(n) == {i \in ChangesAfter(n) : i <= high}
LEMMA PageIs ==
    ASSUME Logged(memoryLog), NEW n
    PROVE  /\ Remaining(n) \in SUBSET (1 .. Len(memoryLog)) /\ PageAfter(n) \in SUBSET Remaining(n)
           /\ Remaining(n) # {} => PageAfter(n) # {}
           /\ \A i \in Remaining(n), k \in PageAfter(n) : i <= k => i \in PageAfter(n)
<1>1. Len(memoryLog) \in Nat
    BY LogIs
<1>2. PICK R \in SUBSET (1 .. Len(memoryLog)) : R = Remaining(n)
    BY DEF Remaining, ChangesAfter
<1>3. PageAfter(n) = {i \in R : Cardinality({j \in R : j < i}) < MemoryBatch}
    BY <1>2 DEF PageAfter, Remaining
<1>4. IsFiniteSet(R)
    <2>1. IsFiniteSet(1 .. Len(memoryLog))
        BY <1>1, FS_Interval
    <2> QED BY <1>2, <2>1, FS_Subset
<1>5. ASSUME R # {} PROVE PageAfter(n) # {}
    <2>1. R \in SUBSET Nat
        BY <1>1, <1>2
    <2>2. PICK m \in R : \A j \in R : m <= j
        BY <1>5, <2>1, LeastOne
    <2>3. {j \in R : j < m} = {}
        <3>1. ASSUME NEW j \in R PROVE ~(j < m)
            <4>1. j \in Nat /\ m \in Nat /\ m <= j
                BY <2>1, <2>2
            <4> QED BY <4>1
        <3> QED BY <3>1
    <2>4. Cardinality({j \in R : j < m}) < MemoryBatch
        BY <2>3, FS_EmptySet, MemoryAssumption
    <2> QED BY <1>3, <2>2, <2>4
<1>6. ASSUME NEW i \in R, NEW k \in PageAfter(n), i <= k PROVE i \in PageAfter(n)
    <2>1. PICK I : I = {j \in R : j < i}
        OBVIOUS
    <2>2. PICK K : K = {j \in R : j < k}
        OBVIOUS
    <2>3. I \subseteq K /\ K \subseteq R
        BY <1>1, <1>2, <1>3, <1>6, <2>1, <2>2
    <2>4. IsFiniteSet(K) /\ IsFiniteSet(I)
        BY <1>4, <2>3, FS_Subset
    <2>5. Cardinality(I) <= Cardinality(K) /\ Cardinality(I) \in Nat /\ Cardinality(K) \in Nat
        BY <2>3, <2>4, FS_Subset, FS_CardinalityType
    <2>6. Cardinality(K) < MemoryBatch
        BY <1>3, <2>2
    <2>7. Cardinality(I) < MemoryBatch
        BY <2>5, <2>6, MemoryAssumption
    <2> QED BY <1>3, <2>1, <2>7
<1> QED BY <1>2, <1>3, <1>5, <1>6

LEMMA StartKeeps == ASSUME MemoryIInv, StartRebuild PROVE MemoryIInv'
<1>1. /\ phase = "down" /\ phase' = "rebuilding" /\ after' = kv.marker
      /\ high' = Max({kv.marker} \cup ChangesAfter(kv.marker))
      /\ UNCHANGED << memoryLog, kv, served, draft, unhandled, upto, stops >>
    BY DEF StartRebuild
<1>2. MemoryTypeOK /\ Unique(memoryLog) /\ Logged(memoryLog) /\ kv.marker \in Nat /\ Len(memoryLog) \in Nat
    BY LogIs DEF MemoryIInv, MemoryTypeOK
<1>3. PICK S : S = {kv.marker} \cup ChangesAfter(kv.marker)
    OBVIOUS
<1>4. S \in SUBSET (0 .. Len(memoryLog) + kv.marker) /\ S # {} /\ Len(memoryLog) + kv.marker \in Nat
    BY <1>2, <1>3 DEF ChangesAfter
<1>5. Max(S) \in S /\ \A j \in S : j <= Max(S)
    BY <1>4, MaxOf
<1>6. ASSUME NEW i \in Mine(memoryLog) PROVE i <= Max(S)
    <2>1. i \in 1 .. Len(memoryLog) /\ IsChange(memoryLog[i])
        BY DEF Mine, Own
    <2>2. CASE i <= kv.marker
        <3>1. kv.marker <= Max(S) /\ Max(S) \in Nat
            <4>1. kv.marker \in S
                BY <1>3
            <4>2. S \in SUBSET Nat
                BY <1>4
            <4> QED BY <1>5, <4>1, <4>2
        <3> QED BY <1>2, <2>1, <2>2, <3>1
    <2>3. CASE i > kv.marker
        BY <1>3, <1>5, <2>1, <2>3 DEF ChangesAfter
    <2> QED BY <1>2, <2>1, <2>2, <2>3
<1>7. Beginning(memoryLog, kv, kv.marker)
    BY <1>1 DEF MemoryIInv, Rebuilt
<1> QED BY <1>1, <1>2, <1>3, <1>6, <1>7 DEF MemoryIInv, MemoryTypeOK, Rebuilt, Serving

LEMMA ReadKeeps == ASSUME MemoryIInv, ReadPage PROVE MemoryIInv'
<1>1. PICK last : last = Max(PageAfter(after))
    OBVIOUS
<1>2. /\ phase = "rebuilding" /\ phase' = "restoring" /\ PageAfter(after) # {}
      /\ draft' = DraftOf(kv, << >>) /\ unhandled' = {i \in PageAfter(after) : Own(memoryLog[i])} /\ upto' = last
      /\ UNCHANGED << memoryLog, kv, served, after, high, stops >>
    BY <1>1 DEF ReadPage, Begin
<1>3. MemoryTypeOK /\ Unique(memoryLog) /\ Logged(memoryLog) /\ kv.marker \in Nat /\ Len(memoryLog) \in Nat
    BY LogIs DEF MemoryIInv, MemoryTypeOK
<1>4. Beginning(memoryLog, kv, kv.marker) /\ after = kv.marker /\ \A i \in Mine(memoryLog) : i <= high
    BY <1>2 DEF MemoryIInv, Rebuilt
<1>5. PICK page \in SUBSET (1 .. Len(memoryLog)) : page = PageAfter(after) /\ page \in SUBSET Remaining(after)
    BY <1>3, PageIs
<1>6. last \in page /\ last \in Nat /\ \A j \in page : j <= last
    <2>1. page \in SUBSET (0 .. Len(memoryLog)) /\ page # {}
        BY <1>2, <1>3, <1>5
    <2>2. Max(page) \in page /\ \A j \in page : j <= Max(page)
        BY <1>3, <2>1, MaxOf
    <2> QED BY <1>1, <1>5, <2>1, <2>2
<1>7. \A i \in unhandled' : i \in Mine(memoryLog) /\ i <= last
    BY <1>2, <1>5, <1>6 DEF Mine
<1>8. Restoring(memoryLog, kv, unhandled', last)
    <2>1. PICK n \in Nat : kv.marker <= n /\ Holds(kv, memoryLog, Upto(memoryLog, n))
        BY <1>4 DEF Beginning
    <2>2. ASSUME NEW i \in Mine(memoryLog), n < i, i <= last PROVE i \in unhandled'
        <3>1. i \in 1 .. Len(memoryLog) /\ Own(memoryLog[i]) /\ IsChange(memoryLog[i]) /\ i <= high
            BY <1>4 DEF Mine, Own
        <3>2. i > after
            BY <1>3, <1>4, <2>1, <2>2, <3>1
        <3>3. i \in Remaining(after)
            BY <3>1, <3>2 DEF Remaining, ChangesAfter
        <3>4. i \in PageAfter(after)
            BY <1>3, <1>5, <1>6, <2>2, <3>3, PageIs
        <3> QED BY <1>2, <3>1, <3>4
    <2> QED BY <2>1, <2>2 DEF Restoring
<1>9. draft' = DraftOf(draft'.state, draft'.events) /\ draft'.state = kv
    BY <1>2, DraftIs
<1>10. MemoryTypeOK'
    BY <1>2, <1>3, <1>6, <1>9 DEF MemoryTypeOK
<1>11. Rebuilt'
    BY <1>2, <1>4, <1>7, <1>8, <1>9 DEF Rebuilt
<1> QED BY <1>2, <1>3, <1>10, <1>11 DEF MemoryIInv, Serving

LEMMA PageKeeps == ASSUME MemoryIInv, CommitPage PROVE MemoryIInv'
<1>1. /\ phase = "restoring" /\ phase' = "rebuilding" /\ unhandled = {}
      /\ kv' = Marked(draft.state, upto) /\ after' = upto /\ draft' = NoDraft /\ upto' = 0
      /\ UNCHANGED << memoryLog, served, unhandled, high, stops >>
    BY DEF CommitPage
<1>2. MemoryTypeOK /\ Unique(memoryLog) /\ Logged(memoryLog) /\ upto \in Nat
    BY DEF MemoryIInv, MemoryTypeOK
<1>3. PICK m \in Nat : /\ Holds(draft.state, memoryLog, Upto(memoryLog, m))
                       /\ \A i \in Mine(memoryLog) : ~(m < i /\ i <= upto)
    BY <1>1 DEF MemoryIInv, Rebuilt, Restoring
<1>4. PICK n \in Nat : upto <= n /\ Upto(memoryLog, n) = Upto(memoryLog, m)
    <2>1. Mine(memoryLog) \in SUBSET Nat
        BY <1>2, LogIs
    <2>2. CASE upto <= m
        BY <2>2
    <2>3. CASE m < upto
        <3>1. Upto(memoryLog, upto) = Upto(memoryLog, m)
            BY <1>2, <1>3, <2>1, <2>3 DEF Upto
        <3> QED BY <1>2, <3>1
    <2> QED BY <1>2, <2>2, <2>3
<1>5. kv'.marker = upto /\ Holds(kv', memoryLog, Upto(memoryLog, n))
    BY <1>1, <1>3, <1>4 DEF Marked, Holds
<1>6. Beginning(memoryLog, kv', upto)
    BY <1>4, <1>5 DEF Beginning
<1>7. NoDraft = DraftOf(NoDraft.state, NoDraft.events)
    BY DraftIs DEF NoDraft
<1>8. \A i \in Mine(memoryLog) : i <= high
    BY <1>1 DEF MemoryIInv, Rebuilt
<1>9. MemoryTypeOK'
    BY <1>1, <1>2, <1>5, <1>7 DEF MemoryTypeOK
<1>10. Rebuilt'
    BY <1>1, <1>5, <1>6, <1>8 DEF Rebuilt
<1> QED BY <1>1, <1>2, <1>9, <1>10 DEF MemoryIInv, Serving

LEMMA ActivateKeeps == ASSUME MemoryIInv, Activate PROVE MemoryIInv'
<1>1. /\ phase = "rebuilding" /\ phase' = "active" /\ PageAfter(after) = {}
      /\ UNCHANGED << memoryLog, kv, served, draft, unhandled, upto, after, high, stops >>
    BY DEF Activate
<1>2. MemoryTypeOK /\ Unique(memoryLog) /\ Logged(memoryLog) /\ kv.marker \in Nat /\ Len(memoryLog) \in Nat
    BY LogIs DEF MemoryIInv, MemoryTypeOK
<1>3. Beginning(memoryLog, kv, kv.marker) /\ after = kv.marker /\ \A i \in Mine(memoryLog) : i <= high
    BY <1>1 DEF MemoryIInv, Rebuilt
<1>4. Remaining(after) = {}
    BY <1>1, <1>2, PageIs
<1>5. PICK n \in Nat : kv.marker <= n /\ Holds(kv, memoryLog, Upto(memoryLog, n))
    BY <1>3 DEF Beginning
<1>6. ASSUME NEW i \in Mine(memoryLog) PROVE i <= n
    <2>1. i \in 1 .. Len(memoryLog) /\ IsChange(memoryLog[i]) /\ i <= high
        BY <1>3 DEF Mine, Own
    <2>2. ~(i > after)
        BY <1>4, <2>1 DEF Remaining, ChangesAfter
    <2> QED BY <1>2, <1>3, <1>5, <2>1, <2>2
<1>7. Upto(memoryLog, n) = Mine(memoryLog)
    BY <1>6 DEF Upto
<1> QED BY <1>1, <1>2, <1>5, <1>7 DEF MemoryIInv, MemoryTypeOK, Rebuilt, Serving

-----------------------------------------------------------------------------
LEMMA MemoryStart == ASSUME MemoryInit PROVE MemoryIInv
<1>1. /\ memoryLog = << >> /\ kv = NoMemory /\ served = 0 /\ phase = "active"
      /\ draft = NoDraft /\ unhandled = {} /\ upto = 0
    BY DEF MemoryInit
<1>2. Logged(memoryLog) /\ Mine(memoryLog) = {} /\ Unique(memoryLog)
    BY <1>1, EmptyLogged DEF Mine, Unique
<1>3. \A n : Upto(memoryLog, n) = {}
    BY <1>2 DEF Upto
<1>4. Holds(kv, memoryLog, Mine(memoryLog))
    BY <1>1, <1>2, <1>3, NothingHeld DEF Beginning
<1>5. NoDraft = DraftOf(NoDraft.state, NoDraft.events) /\ NoMemory.marker = 0
    BY DraftIs DEF NoDraft, NoMemory
<1> QED BY <1>1, <1>2, <1>4, <1>5 DEF MemoryIInv, MemoryTypeOK, Rebuilt, Serving

LEMMA MemoryStutter == ASSUME MemoryIInv, UNCHANGED memoryVars PROVE MemoryIInv'
BY DEF memoryVars, MemoryIInv, MemoryTypeOK, Rebuilt, Serving

LEMMA MemoryCounts ==
    ASSUME NEW st, NEW L, Logged(L), Unique(L), Holds(st, L, Mine(L))
    PROVE  st.count = Cardinality(Written(L, Mine(L)))
<1>1. PICK W : W = Written(L, Mine(L))
    OBVIOUS
<1>2. Len(L) \in Nat /\ W \in SUBSET (1 .. Len(L))
    BY <1>1, LogIs DEF Written
<1>3. IsFiniteSet(W)
    <2>1. IsFiniteSet(1 .. Len(L))
        BY <1>2, FS_Interval
    <2> QED BY <1>2, <2>1, FS_Subset
<1>4. PICK R : R = {L[i].op : i \in W}
    OBVIOUS
<1>5. PICK f : f = [i \in W |-> L[i].op]
    OBVIOUS
<1>6. f \in [W -> R]
    BY <1>4, <1>5
<1>7. \A a, b \in W : f[a] = f[b] => a = b
    BY <1>1, <1>5 DEF Unique, Written
<1>8. \A r \in R : \E i \in W : f[i] = r
    BY <1>4, <1>5
<1>9. f \in Bijection(W, R)
    BY <1>6, <1>7, <1>8 DEF Bijection, Injection, Surjection, IsInjective
<1>10. Cardinality(R) = Cardinality(W)
    BY <1>3, <1>9, FS_Bijection DEF ExistsBijection
<1>11. st.count = Cardinality(R)
    BY <1>1, <1>4 DEF Holds, Opening
<1> QED BY <1>1, <1>10, <1>11

(* Whatever is asked for and by whom, and through stops, discarded state   *)
(* and interrupted rebuilds, the memory plugin serves from exactly what    *)
(* its changes in the log say (Engine::apply, execute and rebuild).        *)
THEOREM MemoryProjectionSurvives == MemorySpec => []ProjectionSurvives
<1>1. MemoryInit => MemoryIInv
    BY MemoryStart
<1>2. MemoryIInv /\ [MemoryNext]_memoryVars => MemoryIInv'
    BY AskWriteKeeps, ForeignKeeps, TakeKeeps, HandleKeeps, CommitKeeps, StopKeeps, DiscardKeeps,
       StartKeeps, ReadKeeps, PageKeeps, ActivateKeeps, MemoryStutter DEF MemoryNext
<1>3. MemoryIInv => ProjectionSurvives
    <2> SUFFICES ASSUME MemoryIInv PROVE ProjectionSurvives
        OBVIOUS
    <2>1. Logged(memoryLog) /\ Unique(memoryLog)
        BY DEF MemoryIInv, MemoryTypeOK
    <2>2. ASSUME phase \in {"active", "handling"}
          PROVE  /\ DOMAIN kv.records = Opening(memoryLog, Mine(memoryLog))
                 /\ kv.count = Cardinality(Written(memoryLog, Mine(memoryLog)))
                 /\ DOMAIN kv.heads = Rooted(memoryLog, Mine(memoryLog))
                 /\ \A root \in DOMAIN kv.heads :
                      kv.heads[root] = HeadAfter(memoryLog[Max(Touching(memoryLog, Mine(memoryLog), root))])
        <3>1. Holds(kv, memoryLog, Mine(memoryLog))
            BY <2>2 DEF MemoryIInv, Serving
        <3>2. kv.count = Cardinality(Written(memoryLog, Mine(memoryLog)))
            BY <2>1, <3>1, MemoryCounts
        <3> QED BY <3>1, <3>2 DEF Holds
    <2> QED BY <2>1, <2>2 DEF ProjectionSurvives, Unique
<1> QED BY <1>1, <1>2, <1>3, PTL DEF MemorySpec
=============================================================================
