-------------------------- MODULE Delivery_proofs --------------------------
(***************************************************************************)
(* Delivery consumes every position once, records every result with the    *)
(* cursor it belongs to, and implements DeliveryAbs: for any instances,    *)
(* any batch size and any number of traps, crashes and late transactions.  *)
(***************************************************************************)
EXTENDS Delivery, TLAPS

(* The positions committed outcomes consumed follow one another.           *)
Chained ==
    \A i \in Instances :
        /\ applied[i] = <<>> => cursor[i] = 0
        /\ applied[i] # <<>> => cursor[i] = applied[i][Len(applied[i])].to
        /\ \A n \in 1..Len(applied[i]) :
             /\ n = 1 => applied[i][n].from = 0
             /\ n # 1 => applied[i][n].from = applied[i][n - 1].to
             /\ applied[i][n].from < applied[i][n].to

(* A derived key in the stream belongs to a position the cursor has left.  *)
KeysBehind ==
    \A m \in 1..Len(log) :
        /\ log[m].key.phase = "handle" =>
             /\ log[m].by = log[m].key.inst
             /\ log[m].key.at < cursor[log[m].by]
        /\ log[m].key.phase = "defer" =>
             /\ log[m].by = log[m].key.inst
             /\ log[m].key.at <= cursor[log[m].by]

StoreInv == Chained /\ KeysBehind /\ ResultsMatchCursor

(* What every transaction looks like.                                      *)
WellFormed(r) ==
    /\ r \in Request
    /\ r.moves => /\ r.after = r.expected /\ r.to <= Len(log)
                  /\ r.key.phase # "init"
    /\ r.key.phase = "handle" => /\ r.moves /\ r.to > r.expected
                                 /\ r.how = "handled"
                                 /\ r.key = HandleKey(r.inst, r.expected)
    /\ r.key.phase = "defer" => /\ r.moves /\ r.to > r.expected
                                /\ r.how = "skipped"
                                /\ r.key = DeferKey(r.inst, r.to)
    /\ r.how = "skipped" => r.key.phase \in {"none", "defer"}

(* The guest's transaction belongs to the batch in hand.                   *)
GuestInv(i) ==
    /\ guest[i] \in {"working", "committing"} =>
          host[i] = "waiting" /\ reply[i] = "none" /\ batch[i] = mail[i]
    /\ guest[i] \in {"committing", "publishing"} <=> greq[i] # NoRequest
    /\ greq[i] # NoRequest =>
          /\ WellFormed(greq[i])
          /\ greq[i].inst = i /\ greq[i].expected = ckpt[i]
          /\ host[i] # "skipping"
          /\ guest[i] = "committing" => greq[i].moves /\ greq[i].to > greq[i].expected
          /\ guest[i] = "publishing" => ~greq[i].moves

(* The agent's view of the batch, the cache and the cursor.                *)
HostInv(i) ==
    /\ host[i] \in {"sent", "waiting"} =>
          /\ mail[i].hi <= Len(log)
          /\ reply[i] # "ok" => mail[i].after = ckpt[i]
          /\ reply[i] = "ok" => mail[i].after < cursor[i]
    /\ skipTo[i] <= Len(log)
    /\ host[i] \in {"down", "staged", "recovering"} => guest[i] = "none"
    /\ host[i] = "skipping" <=> hreq[i] # NoRequest
    /\ hreq[i] # NoRequest =>
          /\ WellFormed(hreq[i])
          /\ hreq[i].inst = i /\ hreq[i].expected = ckpt[i] /\ hreq[i].moves
    /\ host[i] # "down" /\ ~overtaken[i] => ckpt[i] = cursor[i]

IInv ==
    /\ TypeOK
    /\ StoreInv
    /\ \A i \in Instances : GuestInv(i) /\ HostInv(i)
    /\ \A r \in late : WellFormed(r)

-----------------------------------------------------------------------------
(* The database.                                                           *)

StoreType == /\ log \in Seq(Event)
             /\ cursor \in [Instances -> Nat]
             /\ applied \in [Instances -> Seq(Block)]

USE DeliveryAssumption

(* Keys: only NoKey has the phase "none".                                  *)
LEMMA KeyPhases ==
    ASSUME NEW k \in Key \cup {NoKey}
    PROVE  /\ k = NoKey <=> k.phase = "none"
           /\ k # NoKey => k \in Key
  BY DEF Key, NoKey, Abs!Key, Abs!NoKey, Abs!Phases

(* append_in (crates/pluribus-store-sqlite) keeps the stream: it returns   *)
(* the old stream or the old stream with the event at its end, and the key *)
(* of the event is recorded afterwards.                                    *)
LEMMA AppendInKeeps ==
    ASSUME log \in Seq(Event), NEW e \in Event
    PROVE  /\ AppendIn(e) \in Seq(Event)
           /\ Len(AppendIn(e)) >= Len(log)
           /\ \A n \in 1..Len(log) : AppendIn(e)[n] = log[n]
           /\ \/ AppendIn(e) = log /\ Recorded(e.key)
              \/ /\ AppendIn(e) = Append(log, e)
                 /\ Len(AppendIn(e)) = Len(log) + 1
                 /\ AppendIn(e)[Len(log) + 1] = e
                 /\ e.key = NoKey \/ ~Recorded(e.key)
  BY DEF AppendIn

(* An event that is no delivery's result disturbs nothing.                 *)
LEMMA PublishKeeps ==
    ASSUME StoreType, StoreInv, NEW e \in Event,
           e.key.phase \notin {"handle", "defer"},
           log' = AppendIn(e), cursor' = cursor, applied' = applied
    PROVE  StoreType' /\ StoreInv' /\ Len(log') >= Len(log)
  <1>0. /\ log \in Seq(Event) /\ log' \in Seq(Event)
        /\ Len(log') >= Len(log)
        /\ \A n \in 1..Len(log) : log'[n] = log[n]
    BY AppendInKeeps DEF StoreType
  <1>1. StoreType' /\ Len(log') >= Len(log)
    BY <1>0 DEF StoreType
  <1>2. \A n \in 1..Len(log) : n \in 1..Len(log') /\ log'[n] = log[n]
    BY <1>0
  <1>3. \A n \in 1..Len(log') :
          log'[n].key.phase \in {"handle", "defer"} => n \in 1..Len(log)
    <2>1. log \in Seq(Event) /\ Len(log) \in Nat
      BY DEF StoreType
    <2>2. CASE log' = log
      BY <2>2
    <2>3. CASE log' = Append(log, e)
      BY <2>1, <2>3
    <2> QED BY <2>1, <2>2, <2>3, AppendInKeeps
  <1>4. Chained'
    BY DEF StoreInv, Chained
  <1>5. KeysBehind'
    BY <1>1, <1>2, <1>3 DEF StoreInv, KeysBehind
  <1>6. ResultsMatchCursor'
    <2>1. \A k : Recorded(k) => Recorded(k)'
      BY <1>2 DEF Recorded
    <2>2. ASSUME NEW i \in Instances, NEW n \in 1..Len(applied[i]),
                 applied[i][n].result # NoKey
          PROVE  Recorded(applied[i][n].result)'
      BY <2>1, <2>2 DEF StoreInv, ResultsMatchCursor
    <2>3. ASSUME NEW m \in 1..Len(log'), log'[m].key.phase \in {"handle", "defer"}
          PROVE  /\ \E n \in 1..Len(applied[log'[m].by]) :
                       applied[log'[m].by][n].result = log'[m].key
                 /\ \A n \in 1..Len(log') : log'[n].key = log'[m].key => n = m
      BY <1>2, <1>3, <2>3 DEF StoreInv, ResultsMatchCursor
    <2> QED BY <2>2, <2>3 DEF ResultsMatchCursor
  <1> QED BY <1>1, <1>4, <1>5, <1>6 DEF StoreInv

(* A request's fields.                                                     *)
LEMMA RequestFields ==
    ASSUME NEW r \in Request
    PROVE  /\ r.inst \in Instances /\ r.expected \in Nat /\ r.moves \in BOOLEAN
           /\ r.after \in Nat /\ r.to \in Nat /\ r.how \in {"handled", "skipped"}
           /\ r.key \in Key \cup {NoKey}
           /\ [by |-> r.inst, key |-> r.key] \in Event
           /\ [from |-> r.after, to |-> r.to, how |-> r.how, result |-> r.key] \in Block
  BY DEF Request, Event, Abs!Event, Block, Abs!Block, Key, NoKey

(* A transaction the store accepts proposes no derived key that is already *)
(* in the stream: the comparison with the stored cursor is what keeps      *)
(* deduplication from swallowing a result.                                 *)
LEMMA AcceptedKeysAreNew ==
    ASSUME StoreType, StoreInv, NEW r, WellFormed(r), Accepts(r),
           r.key.phase \in {"handle", "defer"}
    PROVE  ~Recorded(r.key)
  <1>0. /\ r.inst \in Instances /\ r.expected \in Nat /\ r.moves \in BOOLEAN
        /\ r.after \in Nat /\ r.to \in Nat
    BY RequestFields DEF WellFormed
  <1>1. SUFFICES ASSUME NEW m \in 1..Len(log), log[m].key = r.key PROVE FALSE
    BY DEF Recorded
  <1>2. CASE r.key.phase = "handle"
    <2>1. r.key = HandleKey(r.inst, r.expected) /\ cursor[r.inst] = r.expected
      BY <1>2 DEF WellFormed, Accepts
    <2>2. log[m].key.phase = "handle" /\ log[m].key.inst = r.inst /\ log[m].key.at = r.expected
      BY <1>1, <2>1 DEF HandleKey
    <2> QED BY <1>0, <2>1, <2>2 DEF StoreInv, KeysBehind
  <1>3. CASE r.key.phase = "defer"
    <2>1. r.key = DeferKey(r.inst, r.to) /\ cursor[r.inst] = r.expected /\ r.to > r.expected
      BY <1>3 DEF WellFormed, Accepts
    <2>2. log[m].key.phase = "defer" /\ log[m].key.inst = r.inst /\ log[m].key.at = r.to
      BY <1>1, <2>1 DEF DeferKey
    <2> QED BY <1>0, <2>1, <2>2 DEF StoreInv, KeysBehind
  <1> QED BY <1>2, <1>3

(* Where an accepted transaction leaves the cursor.                        *)
LEMMA CommitMoves ==
    ASSUME StoreType, NEW r, WellFormed(r), Accepts(r), Commit(r)
    PROVE  /\ cursor' \in [Instances -> Nat]
           /\ r.inst \in Instances
           /\ cursor'[r.inst] = IF r.moves THEN r.to ELSE cursor[r.inst]
           /\ cursor'[r.inst] >= cursor[r.inst]
           /\ \A i \in Instances \ {r.inst} : cursor'[i] = cursor[i]
           /\ \A i \in Instances : cursor'[i] >= cursor[i]
  <1>0. /\ r.inst \in Instances /\ r.expected \in Nat /\ r.moves \in BOOLEAN
        /\ r.after \in Nat /\ r.to \in Nat
    BY RequestFields DEF WellFormed
  <1> USE <1>0 DEF StoreType, Accepts
  <1>1. CASE r.moves /\ r.to > r.expected
    <2>1. cursor' = [cursor EXCEPT ![r.inst] = r.to]
      BY <1>1 DEF Commit
    <2> QED BY <1>1, <2>1
  <1>2. CASE ~(r.moves /\ r.to > r.expected)
    <2>1. cursor' = cursor
      BY <1>2 DEF Commit
    <2> QED BY <1>2, <2>1
  <1> QED BY <1>1, <1>2

(* What an accepted transaction leaves in the stream.                      *)
LEMMA CommitAppends ==
    ASSUME StoreType, NEW r, WellFormed(r), Commit(r)
    PROVE  /\ log' \in Seq(Event)
           /\ Len(log') >= Len(log)
           /\ \A n \in 1..Len(log) : n \in 1..Len(log') /\ log'[n] = log[n]
           /\ r.key # NoKey => Recorded(r.key)'
           /\ \/ log' = log
              \/ /\ r.key # NoKey /\ ~Recorded(r.key)
                 /\ log' = Append(log, [by |-> r.inst, key |-> r.key])
                 /\ Len(log') = Len(log) + 1
                 /\ log'[Len(log) + 1] = [by |-> r.inst, key |-> r.key]
  <1> DEFINE e == [by |-> r.inst, key |-> r.key]
  <1>1. e \in Event /\ log \in Seq(Event) /\ Len(log) \in Nat
    <2>1. r \in Request
      BY DEF WellFormed
    <2>2. e \in Event
      BY <2>1, RequestFields
    <2>3. log \in Seq(Event) /\ Len(log) \in Nat
      BY DEF StoreType
    <2> QED BY <2>2, <2>3
  <1>2. CASE r.key = NoKey
    BY <1>1, <1>2 DEF Commit
  <1>3. CASE r.key # NoKey
    <2>1. log' = AppendIn(e)
      BY <1>3 DEF Commit
    <2>2. CASE Recorded(r.key)
      <3>1. log' = log
        BY <1>3, <2>1, <2>2 DEF AppendIn
      <3> QED BY <1>1, <2>2, <3>1 DEF Recorded
    <2>3. CASE ~Recorded(r.key)
      <3>1. log' = Append(log, e)
        BY <2>1, <2>3 DEF AppendIn
      <3>2. Len(log') = Len(log) + 1 /\ log'[Len(log) + 1] = e /\ log' \in Seq(Event)
        BY <1>1, <3>1
      <3>3. \A n \in 1..Len(log) : n \in 1..Len(log') /\ log'[n] = log[n]
        BY <1>1, <3>1, <3>2
      <3>4. Recorded(r.key)'
        BY <1>1, <3>2 DEF Recorded
      <3> HIDE DEF e
      <3> QED BY <1>1, <1>3, <2>3, <3>1, <3>2, <3>3, <3>4 DEF e
    <2> QED BY <2>2, <2>3
  <1> QED BY <1>2, <1>3

(* An accepted transaction of any kind keeps the database consistent.      *)
LEMMA CommitKeeps ==
    ASSUME StoreType, StoreInv, NEW r, WellFormed(r), Accepts(r), Commit(r)
    PROVE  StoreType' /\ StoreInv'
  <1> DEFINE j == r.inst
             b == [from |-> r.after, to |-> r.to, how |-> r.how, result |-> r.key]
             moved == r.moves /\ r.to > r.expected
  <1>0. r \in Request
    BY DEF WellFormed
  <1>1. /\ j \in Instances /\ r.expected \in Nat /\ r.moves \in BOOLEAN
        /\ r.after \in Nat /\ r.to \in Nat /\ r.key \in Key \cup {NoKey} /\ b \in Block
    BY <1>0, RequestFields
  <1>2. applied' = IF moved THEN [applied EXCEPT ![j] = Append(@, b)] ELSE applied
    BY DEF Commit
  <1>3. applied' \in [Instances -> Seq(Block)]
    BY <1>1, <1>2 DEF StoreType
  <1>4. StoreType'
    BY <1>3, CommitMoves, CommitAppends DEF StoreType
  <1>5. \A i \in Instances : \A n \in 1..Len(applied[i]) :
           n \in 1..Len(applied'[i]) /\ applied'[i][n] = applied[i][n]
    BY <1>1, <1>2 DEF StoreType
  <1>6. moved => /\ applied'[j] = Append(applied[j], b)
                 /\ Len(applied'[j]) = Len(applied[j]) + 1
                 /\ applied'[j][Len(applied[j]) + 1] = b
    BY <1>1, <1>2 DEF StoreType
  <1>7. Chained'
    <2>1. SUFFICES ASSUME NEW i \in Instances
                   PROVE  /\ applied'[i] = <<>> => cursor'[i] = 0
                          /\ applied'[i] # <<>> => cursor'[i] = applied'[i][Len(applied'[i])].to
                          /\ \A n \in 1..Len(applied'[i]) :
                               /\ n = 1 => applied'[i][n].from = 0
                               /\ n # 1 => applied'[i][n].from = applied'[i][n - 1].to
                               /\ applied'[i][n].from < applied'[i][n].to
      BY DEF Chained
    <2>2. CASE ~moved \/ i # j
      <3>1. applied'[i] = applied[i]
        BY <1>1, <1>2, <2>2 DEF StoreType
      <3>2. cursor'[i] = cursor[i]
        BY <1>1, <2>2 DEF StoreType, Commit
      <3> QED BY <3>1, <3>2 DEF StoreInv, Chained
    <2>3. CASE moved /\ i = j
      <3>1. /\ cursor[i] = r.expected /\ r.after = r.expected /\ r.expected < r.to
            /\ cursor'[i] = r.to
        BY <1>1, <2>3, CommitMoves DEF Accepts, WellFormed
      <3>2. /\ applied[i] \in Seq(Block) /\ Len(applied[i]) \in Nat
            /\ applied[i] = <<>> <=> Len(applied[i]) = 0
        BY DEF StoreType
      <3>3. /\ applied'[i] # <<>> /\ applied'[i][Len(applied'[i])] = b
            /\ Len(applied'[i]) = Len(applied[i]) + 1
        BY <1>6, <2>3, <3>2
      <3>4. ASSUME NEW n \in 1..Len(applied[i])
            PROVE  /\ n = 1 => applied'[i][n].from = 0
                   /\ n # 1 => applied'[i][n].from = applied'[i][n - 1].to
                   /\ applied'[i][n].from < applied'[i][n].to
        BY <1>5, <3>2 DEF StoreInv, Chained
      <3>5. b.from = cursor[i] /\ b.to = r.to /\ b.from < b.to
        BY <3>1
      <3>6. Len(applied[i]) = 0 => b.from = 0
        BY <3>2, <3>5 DEF StoreInv, Chained
      <3>7. Len(applied[i]) # 0 => b.from = applied'[i][Len(applied[i])].to
        BY <1>5, <3>2, <3>5 DEF StoreInv, Chained
      <3> HIDE DEF b
      <3> QED BY <3>1, <3>2, <3>3, <3>4, <3>5, <3>6, <3>7
    <2> QED BY <2>2, <2>3
  <1>8. /\ \A n \in 1..Len(log) : n \in 1..Len(log') /\ log'[n] = log[n]
        /\ \A i \in Instances : cursor'[i] >= cursor[i] /\ cursor'[i] \in Nat /\ cursor[i] \in Nat
        /\ Len(log) \in Nat
    <2>1. \A n \in 1..Len(log) : n \in 1..Len(log') /\ log'[n] = log[n]
      BY CommitAppends
    <2>2. \A i \in Instances : cursor'[i] >= cursor[i]
      BY CommitMoves
    <2>3. cursor \in [Instances -> Nat] /\ cursor' \in [Instances -> Nat] /\ Len(log) \in Nat
      BY <1>4 DEF StoreType
    <2> QED BY <2>1, <2>2, <2>3
  <1>9. /\ r.key.phase = "handle" => moved /\ r.key = HandleKey(j, r.expected)
        /\ r.key.phase = "defer" => moved /\ r.key = DeferKey(j, r.to)
    BY DEF WellFormed
  <1>10. \A n \in 1..Len(log') : n \in 1..Len(log) \/
            (n = Len(log) + 1 /\ log'[n] = [by |-> j, key |-> r.key]
              /\ Len(log') = Len(log) + 1 /\ ~Recorded(r.key))
    <2>1. CASE log' = log
      BY <2>1
    <2>2. CASE log' # log
      <3>1. /\ Len(log') = Len(log) + 1 /\ ~Recorded(r.key)
            /\ log'[Len(log) + 1] = [by |-> j, key |-> r.key]
        BY <2>2, CommitAppends
      <3> QED BY <1>8, <3>1
    <2> QED BY <2>1, <2>2
  <1>11. KeysBehind'
    <2>1. SUFFICES ASSUME NEW m \in 1..Len(log')
                   PROVE /\ log'[m].key.phase = "handle" =>
                              /\ log'[m].by = log'[m].key.inst
                              /\ log'[m].key.at < cursor'[log'[m].by]
                         /\ log'[m].key.phase = "defer" =>
                              /\ log'[m].by = log'[m].key.inst
                              /\ log'[m].key.at <= cursor'[log'[m].by]
      BY DEF KeysBehind
    <2>2. CASE m \in 1..Len(log)
      <3>1. log'[m] = log[m] /\ log[m] \in Event
        BY <1>8, <2>2 DEF StoreType
      <3>2. log[m].key.phase # "none" => log[m].key.at \in Nat /\ log[m].key.inst \in Instances
        BY <3>1 DEF Event, Abs!Event, Abs!Key, Abs!NoKey
      <3> QED BY <1>8, <2>2, <3>1, <3>2 DEF StoreInv, KeysBehind
    <2>3. CASE m \notin 1..Len(log)
      <3>1. log'[m] = [by |-> j, key |-> r.key]
        BY <1>10, <2>3
      <3>2. moved => cursor'[j] = r.to
        BY CommitMoves
      <3> QED BY <1>1, <1>9, <3>1, <3>2 DEF HandleKey, DeferKey
    <2> QED BY <2>2, <2>3
  <1>12. ResultsMatchCursor'
    <2> DEFINE RecordedNext(k) == \E m \in 1..Len(log') : log'[m].key = k
    <2>1. \A k : Recorded(k) => RecordedNext(k)
      BY <1>8 DEF Recorded
    <2>2. ASSUME NEW i \in Instances, NEW n \in 1..Len(applied'[i]),
                 applied'[i][n].result # NoKey
          PROVE  RecordedNext(applied'[i][n].result)
      <3>1. CASE n \in 1..Len(applied[i])
        <4>1. applied'[i][n] = applied[i][n] /\ Recorded(applied[i][n].result)
          BY <1>5, <2>2, <3>1 DEF StoreInv, ResultsMatchCursor
        <4> HIDE DEF RecordedNext
        <4> QED BY <2>1, <4>1
      <3>2. CASE n \notin 1..Len(applied[i])
        <4>1. i = j /\ moved
          BY <1>1, <1>2, <3>2 DEF StoreType
        <4>2. Len(applied[i]) \in Nat
          BY DEF StoreType
        <4>3. applied'[i][n] = b
          BY <1>6, <3>2, <4>1, <4>2
        <4>4. r.key # NoKey => RecordedNext(r.key)
          BY CommitAppends DEF Recorded
        <4> QED BY <2>2, <4>3, <4>4
      <3> QED BY <3>1, <3>2
    <2>3. ASSUME NEW m \in 1..Len(log'), log'[m].key.phase \in {"handle", "defer"}
          PROVE  /\ \E n \in 1..Len(applied'[log'[m].by]) :
                       applied'[log'[m].by][n].result = log'[m].key
                 /\ \A n \in 1..Len(log') : log'[n].key = log'[m].key => n = m
      <3>1. CASE m \in 1..Len(log)
        <4>1. log'[m] = log[m] /\ log[m] \in Event
          BY <1>8, <3>1 DEF StoreType
        <4>2. log[m].by \in Instances
          BY <2>3, <3>1, <4>1 DEF StoreInv, KeysBehind, Event, Abs!Event, Abs!Key, Abs!NoKey
        <4>3. \E n \in 1..Len(applied[log[m].by]) : applied[log[m].by][n].result = log[m].key
          BY <2>3, <3>1, <4>1 DEF StoreInv, ResultsMatchCursor
        <4>4. \E n \in 1..Len(applied'[log'[m].by]) : applied'[log'[m].by][n].result = log'[m].key
          BY <1>5, <4>1, <4>2, <4>3
        <4>5. ASSUME NEW n \in 1..Len(log'), log'[n].key = log'[m].key
              PROVE  n = m
          <5>1. CASE n \in 1..Len(log)
            BY <1>8, <2>3, <3>1, <4>1, <4>5, <5>1 DEF StoreInv, ResultsMatchCursor
          <5>2. CASE n \notin 1..Len(log)
            BY <1>10, <3>1, <4>1, <4>5, <5>2 DEF Recorded
          <5> QED BY <5>1, <5>2
        <4> QED BY <4>4, <4>5
      <3>2. CASE m \notin 1..Len(log)
        <4>1. /\ m = Len(log) + 1 /\ log'[m] = [by |-> j, key |-> r.key]
              /\ ~Recorded(r.key) /\ Len(log') = Len(log) + 1
          BY <1>10, <3>2
        <4>2. moved
          BY <1>9, <2>3, <4>1
        <4>3. /\ Len(applied'[j]) \in 1..Len(applied'[j])
              /\ applied'[j][Len(applied'[j])] = b
          BY <1>1, <1>6, <4>2 DEF StoreType
        <4>4. \E n \in 1..Len(applied'[log'[m].by]) : applied'[log'[m].by][n].result = log'[m].key
          BY <4>1, <4>3
        <4>5. ASSUME NEW n \in 1..Len(log'), log'[n].key = log'[m].key
              PROVE  n = m
          BY <1>8, <1>10, <4>1, <4>5 DEF Recorded
        <4> QED BY <4>4, <4>5
      <3> QED BY <3>1, <3>2
    <2> QED BY <2>2, <2>3 DEF ResultsMatchCursor, Recorded
  <1> QED BY <1>4, <1>7, <1>11, <1>12 DEF StoreInv

-----------------------------------------------------------------------------
(* The inductive invariant.                                                *)

(* Steps that leave the database alone.                                    *)
LEMMA StoreUnchanged ==
    ASSUME IInv, UNCHANGED store
    PROVE  StoreType' /\ StoreInv' /\ Len(log') >= Len(log)
  <1>1. log' = log /\ cursor' = cursor /\ applied' = applied
    BY DEF store
  <1>2. StoreType /\ StoreInv
    BY DEF IInv, TypeOK, StoreType
  <1>3. StoreType'
    BY <1>1, <1>2 DEF StoreType
  <1>4. Chained'
    BY <1>1, <1>2 DEF StoreInv, Chained
  <1>5. KeysBehind'
    BY <1>1, <1>2 DEF StoreInv, KeysBehind
  <1>6. ResultsMatchCursor'
    BY <1>1, <1>2 DEF StoreInv, ResultsMatchCursor, Recorded
  <1>7. Len(log') >= Len(log)
    BY <1>1, <1>2 DEF StoreType
  <1> QED BY <1>3, <1>4, <1>5, <1>6, <1>7 DEF StoreInv

(* A transaction stays well formed while the stream grows.                 *)
LEMMA WellFormedGrows ==
    ASSUME log \in Seq(Event), log' \in Seq(Event), Len(log') >= Len(log),
           NEW r, WellFormed(r)
    PROVE  WellFormed(r)'
  <1>1. r \in Request
    BY DEF WellFormed
  <1>2. r.to \in Nat
    BY <1>1, RequestFields
  <1>3. Len(log) \in Nat /\ Len(log') \in Nat
    OBVIOUS
  <1> QED BY <1>1, <1>2, <1>3 DEF WellFormed

(* An instance that takes no step keeps its invariant while others do.     *)
LEMMA Bystander ==
    ASSUME IInv, StoreType', Len(log') >= Len(log), NEW j \in Instances,
           cursor'[j] = cursor[j], host'[j] = host[j], ckpt'[j] = ckpt[j],
           mail'[j] = mail[j], reply'[j] = reply[j], hreq'[j] = hreq[j],
           skipTo'[j] = skipTo[j], guest'[j] = guest[j], batch'[j] = batch[j],
           greq'[j] = greq[j], overtaken'[j] = overtaken[j]
    PROVE  GuestInv(j)' /\ HostInv(j)'
  <1>1. /\ Len(log) \in Nat /\ Len(log') \in Nat
        /\ skipTo[j] \in Nat /\ mail[j].hi \in Nat
        /\ log \in Seq(Event) /\ log' \in Seq(Event)
    BY DEF IInv, TypeOK, StoreType, Batch
  <1>2. \A r : WellFormed(r) => WellFormed(r)'
    BY <1>1, WellFormedGrows
  <1>3. GuestInv(j)'
    BY <1>1, <1>2 DEF IInv, GuestInv
  <1>4. HostInv(j)'
    BY <1>1, <1>2 DEF IInv, HostInv
  <1> QED BY <1>3, <1>4

(* The transactions already left behind stay well formed.                  *)
LEMMA LateStays ==
    ASSUME IInv, StoreType', Len(log') >= Len(log), late' \subseteq late
    PROVE  \A r \in late' : WellFormed(r)'
  <1>1. log \in Seq(Event) /\ log' \in Seq(Event)
    BY DEF IInv, TypeOK, StoreType
  <1> QED BY <1>1, WellFormedGrows DEF IInv

(* The fields of a type-correct state, for one instance.                   *)
LEMMA InstanceFields ==
    ASSUME TypeOK, NEW i \in Instances
    PROVE  /\ ckpt[i] \in Nat /\ cursor[i] \in Nat /\ skipTo[i] \in Nat
           /\ mail[i] \in Batch /\ mail[i].after \in Nat /\ mail[i].hi \in Nat
           /\ batch[i] \in Batch /\ batch[i].after \in Nat /\ batch[i].hi \in Nat
           /\ Len(log) \in Nat /\ log \in Seq(Event)
           /\ greq[i] # NoRequest => greq[i] \in Request
           /\ hreq[i] # NoRequest => hreq[i] \in Request
  BY DEF TypeOK, Batch

(* The requests the actions build.                                         *)
LEMMA NewRequest ==
    ASSUME NEW i \in Instances, NEW c \in Nat, NEW m \in BOOLEAN, NEW a \in Nat,
           NEW t \in Nat, NEW h \in {"handled", "skipped"}, NEW k \in Key \cup {NoKey}
    PROVE  LET r == [inst |-> i, expected |-> c, moves |-> m, after |-> a,
                     to |-> t, how |-> h, key |-> k]
           IN  r \in Request /\ r # NoRequest
  <1> DEFINE r == [inst |-> i, expected |-> c, moves |-> m, after |-> a,
                   to |-> t, how |-> h, key |-> k]
  <1>1. r \in Request
    BY DEF Request
  <1>2. r.inst = i /\ NoRequest.inst = Outside
    BY DEF NoRequest
  <1> QED BY <1>1, <1>2

(* The keys the actions build.                                             *)
LEMMA NewKeys ==
    ASSUME NEW i \in Instances, NEW n \in Nat
    PROVE  /\ HandleKey(i, n) \in Key /\ HandleKey(i, n).phase = "handle"
           /\ InitKey(i, n) \in Key /\ InitKey(i, n).phase = "init"
           /\ DeferKey(i, n) \in Key /\ DeferKey(i, n).phase = "defer"
           /\ OwnKey(i, n) \in Key /\ OwnKey(i, n).phase = "own"
           /\ NoKey.phase = "none"
  BY DEF Key, Abs!Key, Abs!Phases, HandleKey, InitKey, DeferKey, OwnKey, NoKey, Abs!NoKey

(* Initially.                                                              *)
LEMMA InitInv == Init => IInv
  <1> SUFFICES ASSUME Init PROVE IInv
    OBVIOUS
  <1>1. NoBatch \in Batch /\ <<>> \in Seq(Event) /\ <<>> \in Seq(Block)
    BY DEF NoBatch, Batch
  <1>2. TypeOK
    BY <1>1 DEF Init, TypeOK
  <1>3. StoreInv
    BY DEF Init, StoreInv, Chained, KeysBehind, ResultsMatchCursor
  <1>4. ASSUME NEW i \in Instances PROVE GuestInv(i)
    BY DEF Init, GuestInv
  <1>5. ASSUME NEW i \in Instances PROVE HostInv(i)
    <2>1. /\ Len(log) = 0 /\ skipTo[i] = 0 /\ hreq[i] = NoRequest
          /\ host[i] = "down" /\ guest[i] = "none"
      BY DEF Init
    <2> QED BY <2>1 DEF HostInv
  <1> QED BY <1>2, <1>3, <1>4, <1>5 DEF IInv, Init

(* One lemma per action.                                                   *)
LEMMA ObserveKeeps == ASSUME IInv, Observe PROVE IInv'
  <1> DEFINE e == [by |-> Outside, key |-> NoKey]
  <1>1. e \in Event /\ e.key = NoKey /\ e.key.phase = "none"
    BY DEF Event, Abs!Event, NoKey, Abs!NoKey
  <1>2. log' = AppendIn(e)
    BY DEF Observe, AppendIn
  <1>3. StoreType /\ StoreInv
    BY DEF IInv, TypeOK, StoreType
  <1>4. StoreType' /\ StoreInv' /\ Len(log') >= Len(log)
    BY <1>1, <1>2, <1>3, PublishKeeps DEF Observe
  <1>5. \A j \in Instances : GuestInv(j)' /\ HostInv(j)'
    BY <1>4, Bystander DEF Observe, agent, source, past
  <1>6. \A r \in late' : WellFormed(r)'
    BY <1>4, LateStays DEF Observe, past
  <1>7. TypeOK'
    BY <1>4 DEF IInv, TypeOK, StoreType, Observe, agent, source, past
  <1> QED BY <1>4, <1>5, <1>6, <1>7 DEF IInv

LEMMA InstantiateKeeps == ASSUME IInv, NEW i \in Instances, Instantiate(i) PROVE IInv'
  <1>1. StoreType' /\ StoreInv' /\ Len(log') >= Len(log)
    BY StoreUnchanged DEF Instantiate
  <1>2. TypeOK'
    BY DEF IInv, TypeOK, Instantiate, store, source
  <1>3. \A r \in late' : WellFormed(r)'
    BY <1>1, LateStays DEF Instantiate
  <1>4. ASSUME NEW j \in Instances \ {i} PROVE GuestInv(j)' /\ HostInv(j)'
    BY <1>1, <1>4, Bystander DEF Instantiate, store, source, IInv, TypeOK
  <1>5. GuestInv(i)' /\ HostInv(i)'
    <2>1. greq[i] = NoRequest /\ guest[i] \notin {"working", "committing", "publishing"}
      BY DEF IInv, GuestInv, HostInv, Instantiate
    <2> QED BY <2>1 DEF IInv, TypeOK, GuestInv, HostInv, Instantiate, store, source
  <1> QED BY <1>1, <1>2, <1>3, <1>4, <1>5 DEF IInv

LEMMA StartupKeeps == ASSUME IInv, NEW i \in Instances, Startup(i) PROVE IInv'
  <1> DEFINE req(k) == [inst |-> i, expected |-> ckpt[i], moves |-> FALSE, after |-> 0,
                        to |-> 0, how |-> "handled", key |-> k]
  <1>1. PICK k \in {NoKey, InitKey(i, ckpt[i])} :
           IF Accepts(req(k))
           THEN /\ Commit(req(k))
                /\ host' = [host EXCEPT ![i] = IF skipTo[i] > 0 THEN "recovering" ELSE "idle"]
                /\ guest' = [guest EXCEPT ![i] = IF skipTo[i] > 0 THEN "none" ELSE "free"]
           ELSE /\ host' = [host EXCEPT ![i] = "down"]
                /\ UNCHANGED <<store, guest>>
    BY DEF Startup
  <1>2. /\ host[i] = "staged" /\ guest[i] = "none" /\ greq[i] = NoRequest /\ hreq[i] = NoRequest
        /\ UNCHANGED <<ckpt, mail, reply, hreq, cancelled, skipTo, batch, greq, past>>
    BY DEF Startup, IInv, HostInv, GuestInv
  <1>3. StoreType /\ StoreInv /\ TypeOK
    BY DEF IInv, TypeOK, StoreType
  <1>4. /\ k \in Key \cup {NoKey} /\ k.phase \in {"none", "init"}
        /\ ckpt[i] \in Nat
    BY <1>3, NewKeys, InstanceFields
  <1>5. req(k) \in Request
    BY <1>4, NewRequest
  <1>6. WellFormed(req(k))
    BY <1>4, <1>5 DEF WellFormed
  <1> HIDE DEF req
  <1>7. CASE Accepts(req(k))
    <2>1. StoreType' /\ StoreInv' /\ Len(log') >= Len(log)
      BY <1>1, <1>3, <1>6, <1>7, CommitKeeps, CommitAppends
    <2>2. UNCHANGED cursor
      BY <1>1, <1>7 DEF Commit, req
    <2>3. TypeOK'
      BY <1>1, <1>2, <1>7, <2>1 DEF IInv, TypeOK, StoreType, past
    <2>4. \A r \in late' : WellFormed(r)'
      BY <1>2, <2>1, LateStays DEF past
    <2>5. ASSUME NEW j \in Instances \ {i} PROVE GuestInv(j)' /\ HostInv(j)'
      BY <1>1, <1>2, <1>7, <2>1, <2>2, <2>5, Bystander DEF past, IInv, TypeOK
    <2>6. /\ host'[i] \in {"recovering", "idle"} /\ guest'[i] \in {"none", "free"}
          /\ host'[i] = "recovering" => guest'[i] = "none"
      BY <1>1, <1>3, <1>7 DEF TypeOK
    <2>7. GuestInv(i)'
      BY <1>2, <2>6 DEF GuestInv
    <2>8. HostInv(i)'
      <3>1. skipTo[i] <= Len(log) /\ Len(log') \in Nat
        BY <2>1, StoreUnchanged DEF IInv, HostInv, StoreType
      <3>2. skipTo'[i] <= Len(log')
        BY <1>2, <1>3, <2>1, <3>1, InstanceFields
      <3> QED BY <1>2, <2>2, <2>6, <3>2 DEF HostInv, IInv, past
    <2> QED BY <2>1, <2>3, <2>4, <2>5, <2>7, <2>8 DEF IInv
  <1>8. CASE ~Accepts(req(k))
    <2>1. StoreType' /\ StoreInv' /\ Len(log') >= Len(log)
      BY <1>1, <1>8, StoreUnchanged
    <2>2. TypeOK'
      BY <1>1, <1>2, <1>8, <2>1 DEF IInv, TypeOK, StoreType, past
    <2>3. \A r \in late' : WellFormed(r)'
      BY <1>2, <2>1, LateStays DEF past
    <2>4. ASSUME NEW j \in Instances \ {i} PROVE GuestInv(j)' /\ HostInv(j)'
      BY <1>1, <1>2, <1>8, <2>1, <2>4, Bystander DEF past, IInv, TypeOK, store
    <2>5. host'[i] = "down" /\ guest'[i] = "none" /\ log' = log
      BY <1>1, <1>2, <1>3, <1>8 DEF TypeOK, store
    <2>6. GuestInv(i)' /\ HostInv(i)'
      BY <1>2, <2>5 DEF GuestInv, HostInv, IInv
    <2> QED BY <2>1, <2>2, <2>3, <2>4, <2>6 DEF IInv
  <1> QED BY <1>7, <1>8

LEMMA OfferKeeps == ASSUME IInv, NEW i \in Instances, Offer(i) PROVE IInv'
  <1>1. StoreType' /\ StoreInv' /\ Len(log') >= Len(log)
    BY StoreUnchanged DEF Offer
  <1>2. PICK hi \in (ckpt[i] + 1)..Len(log) :
           mail' = [mail EXCEPT ![i] = [after |-> ckpt[i], hi |-> hi]]
    BY DEF Offer
  <1>3. /\ host[i] = "idle" /\ host' = [host EXCEPT ![i] = "sent"]
        /\ reply' = [reply EXCEPT ![i] = IF guest[i] = "dead" THEN "err" ELSE "none"]
        /\ UNCHANGED <<store, ckpt, hreq, cancelled, skipTo, source, past>>
    BY DEF Offer
  <1>4. TypeOK /\ hi \in Nat /\ [after |-> ckpt[i], hi |-> hi] \in Batch
    BY <1>2, InstanceFields DEF IInv, Batch
  <1>5. TypeOK'
    BY <1>2, <1>3, <1>4 DEF TypeOK, store, source, past
  <1>6. \A r \in late' : WellFormed(r)'
    BY <1>1, <1>3, LateStays DEF past
  <1>7. ASSUME NEW j \in Instances \ {i} PROVE GuestInv(j)' /\ HostInv(j)'
    BY <1>1, <1>2, <1>3, <1>7, Bystander DEF store, source, past, IInv, TypeOK
  <1>8. /\ host'[i] = "sent" /\ reply'[i] \in {"none", "err"}
        /\ mail'[i].after = ckpt[i] /\ mail'[i].hi = hi
    BY <1>2, <1>3, <1>4 DEF TypeOK
  <1>9. GuestInv(i)'
    BY <1>3, <1>8 DEF IInv, GuestInv, WellFormed, store, source
  <1>10. HostInv(i)'
    BY <1>2, <1>3, <1>4, <1>8, InstanceFields DEF IInv, HostInv, store, source, past
  <1> QED BY <1>1, <1>5, <1>6, <1>7, <1>9, <1>10 DEF IInv

LEMMA CancelKeeps == ASSUME IInv, NEW i \in Instances, Cancel(i) PROVE IInv'
  <1>1. StoreType' /\ StoreInv' /\ Len(log') >= Len(log)
    BY StoreUnchanged DEF Cancel
  <1>2. TypeOK'
    BY DEF IInv, TypeOK, Cancel, Fault, store, source
  <1>3. \A r \in late' : WellFormed(r)'
    BY <1>1, LateStays DEF Cancel
  <1>4. \A j \in Instances : GuestInv(j)' /\ HostInv(j)'
    BY <1>1, Bystander DEF Cancel, store, source
  <1> QED BY <1>1, <1>2, <1>3, <1>4 DEF IInv

LEMMA CollectKeeps == ASSUME IInv, NEW i \in Instances, Collect(i) PROVE IInv'
  <1>1. StoreType' /\ StoreInv' /\ Len(log') >= Len(log)
    BY StoreUnchanged DEF Collect
  <1>2. TypeOK'
    BY DEF IInv, TypeOK, Collect, store, source, past, NoBatch, Batch
  <1>3. \A r \in late' : WellFormed(r)'
    BY <1>1, LateStays DEF Collect, past
  <1>4. ASSUME NEW j \in Instances \ {i} PROVE GuestInv(j)' /\ HostInv(j)'
    BY <1>1, <1>4, Bystander DEF Collect, store, source, past, IInv, TypeOK
  <1>5. /\ host[i] \in {"sent", "waiting"} /\ reply[i] # "none" /\ host'[i] = "idle"
        /\ UNCHANGED <<store, ckpt, hreq, skipTo, source, past>>
    BY DEF Collect, IInv, TypeOK
  <1>6. guest[i] \notin {"working", "committing"}
    BY <1>5 DEF IInv, GuestInv
  <1>7. GuestInv(i)'
    BY <1>5, <1>6 DEF IInv, GuestInv, WellFormed, store, source
  <1>8. HostInv(i)'
    BY <1>5 DEF IInv, HostInv, WellFormed, store, source, past
  <1> QED BY <1>1, <1>2, <1>3, <1>4, <1>7, <1>8 DEF IInv

(* What a dropped incarnation leaves under way is well formed.             *)
LEMMA LeftoverWellFormed ==
    ASSUME IInv, NEW i \in Instances, NEW r \in Leftover(i)
    PROVE  WellFormed(r)
  <1>1. CASE r \in {greq[i], hreq[i]} /\ r # NoRequest
    BY <1>1 DEF IInv, GuestInv, HostInv
  <1>2. ASSUME NEW k \in OwnKeys,
               r = [inst |-> i, expected |-> ckpt[i], moves |-> FALSE, after |-> 0,
                    to |-> 0, how |-> "handled", key |-> OwnKey(i, k)]
        PROVE  WellFormed(r)
    <2>1. OwnKey(i, k) \in Key /\ OwnKey(i, k).phase = "own" /\ ckpt[i] \in Nat
      BY NewKeys, InstanceFields DEF IInv
    <2>2. r \in Request
      BY <1>2, <2>1, NewRequest
    <2> QED BY <1>2, <2>1, <2>2 DEF WellFormed
  <1> QED BY <1>1, <1>2 DEF Leftover

LEMMA DropKeeps ==
    ASSUME IInv, NEW i \in Instances, NEW to \in Nat, to <= Len(log), Drop(i, to),
           faults' \in Nat
    PROVE  IInv'
  <1>1. StoreType' /\ StoreInv' /\ Len(log') >= Len(log)
    BY StoreUnchanged DEF Drop
  <1>2. ASSUME NEW r \in late' PROVE WellFormed(r) /\ r \in Request
    BY LeftoverWellFormed DEF Drop, IInv, WellFormed
  <1>3. NoBatch \in Batch
    BY DEF NoBatch, Batch
  <1>4. TypeOK'
    BY <1>2, <1>3 DEF IInv, TypeOK, Drop, store
  <1>5. \A r \in late' : WellFormed(r)'
    <2>1. log \in Seq(Event) /\ log' \in Seq(Event)
      BY <1>1 DEF IInv, TypeOK, StoreType
    <2> QED BY <1>1, <1>2, <2>1, WellFormedGrows
  <1>6. ASSUME NEW j \in Instances \ {i} PROVE GuestInv(j)' /\ HostInv(j)'
    BY <1>1, <1>6, Bystander DEF Drop, store, IInv, TypeOK
  <1>7. /\ host'[i] = "down" /\ guest'[i] = "none" /\ greq'[i] = NoRequest
        /\ hreq'[i] = NoRequest /\ skipTo'[i] = to /\ log' = log
    BY DEF Drop, IInv, TypeOK, store
  <1>8. GuestInv(i)' /\ HostInv(i)'
    BY <1>7 DEF GuestInv, HostInv
  <1> QED BY <1>1, <1>4, <1>5, <1>6, <1>8 DEF IInv

LEMMA ReplaceKeeps == ASSUME IInv, NEW i \in Instances, Replace(i) PROVE IInv'
  <1>1. /\ mail[i].hi \in Nat /\ faults \in Nat /\ Len(log) \in Nat /\ 0 <= Len(log)
        /\ host[i] \in {"sent", "waiting"} => mail[i].hi <= Len(log)
    BY InstanceFields DEF IInv, HostInv, TypeOK
  <1>2. \E to \in Nat : to <= Len(log) /\ Drop(i, to)
    BY <1>1 DEF Replace
  <1> QED BY <1>1, <1>2, DropKeeps DEF Replace

LEMMA CrashKeeps == ASSUME IInv, NEW i \in Instances, Crash(i) PROVE IInv'
  <1>1. faults' \in Nat /\ Len(log) \in Nat /\ 0 <= Len(log) /\ Drop(i, 0)
    BY DEF Crash, Fault, IInv, TypeOK
  <1> QED BY <1>1, DropKeeps

LEMMA SkipFailsKeeps == ASSUME IInv, NEW i \in Instances, SkipFails(i) PROVE IInv'
  <1>1. faults' \in Nat /\ Len(log) \in Nat /\ 0 <= Len(log) /\ Drop(i, 0)
    BY DEF SkipFails, IInv, TypeOK
  <1> QED BY <1>1, DropKeeps

LEMMA SkipKeeps == ASSUME IInv, NEW i \in Instances, Skip(i) PROVE IInv'
  <1> DEFINE req(to, k) == [inst |-> i, expected |-> ckpt[i], moves |-> TRUE,
                            after |-> ckpt[i], to |-> to, how |-> "skipped", key |-> k]
  <1>1. StoreType' /\ StoreInv' /\ Len(log') >= Len(log)
    BY StoreUnchanged DEF Skip
  <1>2. PICK to \in IF host[i] = "idle" THEN (ckpt[i] + 1)..Len(log) ELSE {skipTo[i]} :
         \E k \in {NoKey} \cup IF host[i] = "idle" /\ Room THEN {DeferKey(i, to)} ELSE {} :
           hreq' = [hreq EXCEPT ![i] = req(to, k)]
    BY DEF Skip
  <1>3. PICK k \in {NoKey} \cup IF host[i] = "idle" /\ Room THEN {DeferKey(i, to)} ELSE {} :
           hreq' = [hreq EXCEPT ![i] = req(to, k)]
    BY <1>2
  <1>4. /\ host[i] \in {"idle", "recovering"} /\ GateFree(i)
        /\ host' = [host EXCEPT ![i] = "skipping"]
        /\ UNCHANGED <<store, ckpt, mail, reply, cancelled, skipTo, source, past>>
    BY DEF Skip
  <1>5. TypeOK /\ ckpt[i] \in Nat /\ Len(log) \in Nat
    BY InstanceFields DEF IInv
  <1>6. to \in Nat /\ to <= Len(log) /\ (host[i] = "idle" => to > ckpt[i])
    BY <1>2, <1>5, InstanceFields DEF IInv, HostInv
  <1>7. /\ k \in Key \cup {NoKey}
        /\ k = NoKey \/ (k = DeferKey(i, to) /\ to > ckpt[i])
        /\ NoKey.phase = "none" /\ DeferKey(i, to).phase = "defer"
    BY <1>3, <1>6, NewKeys
  <1>8. req(to, k) \in Request /\ req(to, k) # NoRequest
    BY <1>5, <1>6, <1>7, NewRequest
  <1>9. PICK q \in Request :
           /\ q # NoRequest /\ hreq' = [hreq EXCEPT ![i] = q]
           /\ q.inst = i /\ q.expected = ckpt[i] /\ q.moves /\ q.after = ckpt[i]
           /\ q.to = to /\ q.how = "skipped" /\ q.key = k
    BY <1>3, <1>8
  <1>10. WellFormed(q)
    BY <1>6, <1>7, <1>9 DEF WellFormed
  <1>11. WellFormed(q)'
    BY <1>1, <1>5, <1>10, WellFormedGrows DEF TypeOK, StoreType
  <1>12. TypeOK'
    BY <1>4, <1>5, <1>9 DEF TypeOK, store, source, past
  <1>13. \A r \in late' : WellFormed(r)'
    BY <1>1, <1>4, LateStays DEF past
  <1>14. ASSUME NEW j \in Instances \ {i} PROVE GuestInv(j)' /\ HostInv(j)'
    BY <1>1, <1>4, <1>9, <1>14, Bystander DEF store, source, past, IInv, TypeOK
  <1>15. /\ host'[i] = "skipping" /\ hreq'[i] = q /\ ckpt' = ckpt
         /\ greq'[i] = NoRequest /\ guest'[i] \notin {"working", "committing", "publishing"}
         /\ overtaken' = overtaken /\ cursor' = cursor
    BY <1>4, <1>5, <1>9 DEF TypeOK, GateFree, IInv, GuestInv, source, store, past
  <1>16. GuestInv(i)'
    BY <1>15 DEF GuestInv
  <1>17. HostInv(i)'
    BY <1>4, <1>9, <1>11, <1>15 DEF IInv, HostInv, store
  <1> QED BY <1>1, <1>12, <1>13, <1>14, <1>16, <1>17 DEF IInv

LEMMA SkipLandsKeeps == ASSUME IInv, NEW i \in Instances, SkipLands(i) PROVE IInv'
  <1>1. PICK q : q = hreq[i]
    OBVIOUS
  <1>2. /\ host[i] = "skipping" /\ Accepts(q) /\ Commit(q)
        /\ ckpt' = [ckpt EXCEPT ![i] = q.to]
        /\ host' = [host EXCEPT ![i] = "idle"]
        /\ hreq' = [hreq EXCEPT ![i] = NoRequest]
        /\ skipTo' = [skipTo EXCEPT ![i] = 0]
        /\ guest' = [guest EXCEPT ![i] = IF @ = "none" THEN "free" ELSE @]
        /\ UNCHANGED <<mail, reply, cancelled, batch, greq, past>>
    BY <1>1 DEF SkipLands
  <1>3. WellFormed(q) /\ q.inst = i /\ q.moves
    BY <1>1, <1>2 DEF IInv, HostInv
  <1>4. q.to \in Nat
    BY <1>3, RequestFields DEF WellFormed
  <1>5. StoreType /\ StoreInv /\ TypeOK
    BY DEF IInv, TypeOK, StoreType
  <1>6. StoreType' /\ StoreInv' /\ Len(log') >= Len(log)
    BY <1>2, <1>3, <1>5, CommitKeeps, CommitAppends
  <1>7. cursor'[i] = q.to /\ \A j \in Instances \ {i} : cursor'[j] = cursor[j]
    BY <1>2, <1>3, <1>5, CommitMoves
  <1>8. TypeOK'
    BY <1>2, <1>4, <1>5, <1>6 DEF TypeOK, StoreType, past
  <1>9. \A r \in late' : WellFormed(r)'
    BY <1>2, <1>6, LateStays DEF past
  <1>10. ASSUME NEW j \in Instances \ {i} PROVE GuestInv(j)' /\ HostInv(j)'
    BY <1>2, <1>5, <1>6, <1>7, <1>10, Bystander DEF past, TypeOK
  <1>11. /\ host'[i] = "idle" /\ hreq'[i] = NoRequest /\ greq'[i] = NoRequest
         /\ skipTo'[i] = 0 /\ ckpt'[i] = q.to
         /\ guest'[i] \notin {"working", "committing", "publishing"}
    BY <1>2, <1>5 DEF TypeOK, IInv, GuestInv
  <1>12. GuestInv(i)'
    BY <1>11 DEF GuestInv
  <1>13. 0 <= Len(log')
    BY <1>6 DEF StoreType
  <1>14. HostInv(i)'
    BY <1>7, <1>11, <1>13 DEF HostInv
  <1> QED BY <1>6, <1>8, <1>9, <1>10, <1>12, <1>14 DEF IInv

LEMMA TakeKeeps == ASSUME IInv, NEW i \in Instances, Take(i) PROVE IInv'
  <1>1. StoreType' /\ StoreInv' /\ Len(log') >= Len(log)
    BY StoreUnchanged DEF Take
  <1>2. TypeOK'
    BY DEF IInv, TypeOK, Take, store, past
  <1>3. \A r \in late' : WellFormed(r)'
    BY <1>1, LateStays DEF Take, past
  <1>4. ASSUME NEW j \in Instances \ {i} PROVE GuestInv(j)' /\ HostInv(j)'
    BY <1>1, <1>4, Bystander DEF Take, store, past, IInv, TypeOK
  <1>5. GuestInv(i)'
    <2>1. /\ guest[i] = "free" /\ guest'[i] = "working"
          /\ host'[i] = "waiting" /\ reply[i] = "none" /\ reply' = reply
          /\ batch'[i] = mail[i] /\ mail' = mail /\ greq' = greq
      BY DEF Take, IInv, TypeOK
    <2> QED BY <2>1 DEF IInv, GuestInv
  <1>6. HostInv(i)'
    BY DEF Take, store, past, IInv, TypeOK, HostInv
  <1> QED BY <1>1, <1>2, <1>3, <1>4, <1>5, <1>6 DEF IInv

LEMMA StreamKeeps == ASSUME IInv, NEW i \in Instances, Stream(i) PROVE IInv'
  <1>1. PICK k \in OwnKeys : log' = AppendIn([by |-> i, key |-> OwnKey(i, k)])
    BY DEF Stream
  <1>2. /\ [by |-> i, key |-> OwnKey(i, k)] \in Event
        /\ [by |-> i, key |-> OwnKey(i, k)].key.phase = "own"
    BY NewKeys DEF Event, Abs!Event, Key
  <1>3. StoreType /\ StoreInv
    BY DEF IInv, TypeOK, StoreType
  <1>4. StoreType' /\ StoreInv' /\ Len(log') >= Len(log)
    BY <1>1, <1>2, <1>3, PublishKeeps DEF Stream
  <1>5. \A j \in Instances : GuestInv(j)' /\ HostInv(j)'
    BY <1>4, Bystander DEF Stream, agent, source, past
  <1>6. \A r \in late' : WellFormed(r)'
    BY <1>4, LateStays DEF Stream, past
  <1>7. TypeOK'
    BY <1>4 DEF IInv, TypeOK, StoreType, Stream, agent, source, past
  <1> QED BY <1>4, <1>5, <1>6, <1>7 DEF IInv

LEMMA ProposeKeeps == ASSUME IInv, NEW i \in Instances, Propose(i) PROVE IInv'
  <1> DEFINE req(to, k) == [inst |-> i, expected |-> ckpt[i], moves |-> TRUE,
                            after |-> batch[i].after, to |-> to, how |-> "handled", key |-> k]
             keys == {NoKey} \cup IF Room THEN {HandleKey(i, ckpt[i])} \cup
                                               {OwnKey(i, o) : o \in OwnKeys} ELSE {}
  <1>1. StoreType' /\ StoreInv' /\ Len(log') >= Len(log)
    BY StoreUnchanged DEF Propose
  <1>2. PICK to \in (batch[i].after + 1)..batch[i].hi, k \in keys :
           greq' = [greq EXCEPT ![i] = req(to, k)]
    BY DEF Propose
  <1>3. /\ guest[i] = "working" /\ GateFree(i)
        /\ guest' = [guest EXCEPT ![i] = "committing"]
        /\ UNCHANGED <<store, agent, batch, past>>
    BY DEF Propose
  <1>4. TypeOK /\ ckpt[i] \in Nat /\ Len(log) \in Nat /\ batch[i].after \in Nat /\ batch[i].hi \in Nat
    BY InstanceFields DEF IInv
  <1>5. /\ host[i] = "waiting" /\ reply[i] = "none" /\ batch[i] = mail[i]
        /\ batch[i].after = ckpt[i] /\ batch[i].hi <= Len(log)
    BY <1>3 DEF IInv, GuestInv, HostInv
  <1>6. to \in Nat /\ to <= Len(log) /\ to > ckpt[i]
    BY <1>2, <1>4, <1>5
  <1>7. /\ k \in Key \cup {NoKey}
        /\ k.phase = "handle" => k = HandleKey(i, ckpt[i])
        /\ k.phase \in {"none", "handle", "own"}
    BY <1>2, <1>4, NewKeys
  <1>8. req(to, k) \in Request /\ req(to, k) # NoRequest
    BY <1>4, <1>6, <1>7, NewRequest
  <1>9. PICK q \in Request :
           /\ q # NoRequest /\ greq' = [greq EXCEPT ![i] = q]
           /\ q.inst = i /\ q.expected = ckpt[i] /\ q.moves /\ q.after = ckpt[i]
           /\ q.to = to /\ q.how = "handled" /\ q.key = k
    BY <1>2, <1>5, <1>8
  <1>10. WellFormed(q)
    BY <1>6, <1>7, <1>9 DEF WellFormed
  <1>11. WellFormed(q)'
    BY <1>1, <1>4, <1>10, WellFormedGrows DEF TypeOK, StoreType
  <1>12. TypeOK'
    BY <1>3, <1>4, <1>9 DEF TypeOK, store, agent, past
  <1>13. \A r \in late' : WellFormed(r)'
    BY <1>1, <1>3, LateStays DEF past
  <1>14. ASSUME NEW j \in Instances \ {i} PROVE GuestInv(j)' /\ HostInv(j)'
    BY <1>1, <1>3, <1>9, <1>14, Bystander DEF store, agent, past, IInv, TypeOK
  <1>15. guest'[i] = "committing" /\ greq'[i] = q /\ host'[i] = "waiting"
    BY <1>3, <1>4, <1>5, <1>9 DEF TypeOK, agent
  <1>16. GuestInv(i)'
    BY <1>3, <1>5, <1>6, <1>9, <1>11, <1>15 DEF GuestInv, agent
  <1>17. HostInv(i)'
    BY <1>3, <1>15 DEF IInv, HostInv, WellFormed, store, agent, past
  <1> QED BY <1>1, <1>12, <1>13, <1>14, <1>16, <1>17 DEF IInv

LEMMA EmitKeeps == ASSUME IInv, NEW i \in Instances, Emit(i) PROVE IInv'
  <1> DEFINE req(k) == [inst |-> i, expected |-> ckpt[i], moves |-> FALSE, after |-> 0,
                        to |-> 0, how |-> "handled", key |-> OwnKey(i, k)]
  <1>1. StoreType' /\ StoreInv' /\ Len(log') >= Len(log)
    BY StoreUnchanged DEF Emit
  <1>2. PICK k \in OwnKeys : greq' = [greq EXCEPT ![i] = req(k)]
    BY DEF Emit
  <1>3. /\ guest[i] = "free" /\ GateFree(i)
        /\ guest' = [guest EXCEPT ![i] = "publishing"]
        /\ UNCHANGED <<store, agent, batch, past>>
    BY DEF Emit
  <1>4. TypeOK /\ ckpt[i] \in Nat
    BY InstanceFields DEF IInv
  <1>5. OwnKey(i, k) \in Key /\ OwnKey(i, k).phase = "own"
    BY NewKeys
  <1>6. req(k) \in Request /\ req(k) # NoRequest
    BY <1>4, <1>5, NewRequest
  <1>7. PICK q \in Request :
           /\ q # NoRequest /\ greq' = [greq EXCEPT ![i] = q]
           /\ q.inst = i /\ q.expected = ckpt[i] /\ q.moves = FALSE
           /\ q.how = "handled" /\ q.key.phase = "own"
    BY <1>2, <1>5, <1>6
  <1>8. WellFormed(q)
    BY <1>7 DEF WellFormed
  <1>9. WellFormed(q)'
    BY <1>1, <1>4, <1>8, WellFormedGrows DEF TypeOK, StoreType
  <1>10. TypeOK'
    BY <1>3, <1>4, <1>7 DEF TypeOK, store, agent, past
  <1>11. \A r \in late' : WellFormed(r)'
    BY <1>1, <1>3, LateStays DEF past
  <1>12. ASSUME NEW j \in Instances \ {i} PROVE GuestInv(j)' /\ HostInv(j)'
    BY <1>1, <1>3, <1>7, <1>12, Bystander DEF store, agent, past, IInv, TypeOK
  <1>13. /\ guest'[i] = "publishing" /\ greq'[i] = q /\ host'[i] # "skipping"
         /\ host[i] \notin {"down", "staged", "recovering"}
    BY <1>3, <1>4, <1>7 DEF TypeOK, agent, GateFree, IInv, HostInv
  <1>14. GuestInv(i)'
    BY <1>3, <1>7, <1>9, <1>13 DEF GuestInv, agent
  <1>15. HostInv(i)'
    BY <1>3, <1>13 DEF IInv, HostInv, WellFormed, store, agent, past
  <1> QED BY <1>1, <1>10, <1>11, <1>12, <1>14, <1>15 DEF IInv

LEMMA CommitLandsKeeps == ASSUME IInv, NEW i \in Instances, CommitLands(i) PROVE IInv'
  <1>1. PICK q : q = greq[i]
    OBVIOUS
  <1>2. /\ guest[i] \in {"committing", "publishing"} /\ Accepts(q) /\ Commit(q)
        /\ greq' = [greq EXCEPT ![i] = NoRequest]
        /\ guest' = [guest EXCEPT ![i] = "free"]
        /\ UNCHANGED <<host, mail, hreq, cancelled, skipTo, past>>
    BY <1>1 DEF CommitLands
  <1>3. /\ WellFormed(q) /\ q.inst = i /\ q.expected = ckpt[i] /\ host[i] # "skipping"
        /\ guest[i] = "committing" => q.moves /\ q.to > q.expected
        /\ guest[i] = "publishing" => ~q.moves
    BY <1>1, <1>2 DEF IInv, GuestInv
  <1>4. q.to \in Nat /\ q.expected \in Nat
    BY <1>3, RequestFields DEF WellFormed
  <1>5. StoreType /\ StoreInv /\ TypeOK
    BY DEF IInv, TypeOK, StoreType
  <1>6. StoreType' /\ StoreInv' /\ Len(log') >= Len(log)
    BY <1>2, <1>3, <1>5, CommitKeeps, CommitAppends
  <1>7. /\ cursor'[i] = IF q.moves THEN q.to ELSE cursor[i]
        /\ \A j \in Instances \ {i} : cursor'[j] = cursor[j]
    BY <1>2, <1>3, <1>5, CommitMoves
  <1>8. /\ ckpt' = IF guest[i] = "committing" THEN [ckpt EXCEPT ![i] = q.to] ELSE ckpt
        /\ reply' = IF guest[i] = "committing" THEN [reply EXCEPT ![i] = "ok"] ELSE reply
        /\ batch' = IF guest[i] = "committing" THEN [batch EXCEPT ![i] = NoBatch] ELSE batch
    BY <1>1 DEF CommitLands
  <1>9. TypeOK'
    BY <1>2, <1>4, <1>5, <1>6, <1>8 DEF TypeOK, StoreType, past, NoBatch, Batch
  <1>10. \A r \in late' : WellFormed(r)'
    BY <1>2, <1>6, LateStays DEF past
  <1>11. ASSUME NEW j \in Instances \ {i} PROVE GuestInv(j)' /\ HostInv(j)'
    BY <1>2, <1>5, <1>6, <1>7, <1>8, <1>11, Bystander DEF past, TypeOK
  <1>12. GuestInv(i)'
    BY <1>2, <1>5 DEF GuestInv, TypeOK
  <1>13. hreq[i] = NoRequest /\ host[i] \notin {"down", "staged", "recovering"}
    BY <1>2, <1>3 DEF IInv, HostInv
  <1>14. Len(log') \in Nat /\ Len(log) \in Nat /\ skipTo[i] \in Nat /\ mail[i].hi \in Nat
    BY <1>5, <1>6, InstanceFields DEF StoreType
  <1>15. CASE guest[i] = "committing"
    <2>1. /\ ckpt'[i] = q.to /\ cursor'[i] = q.to /\ reply'[i] = "ok" /\ q.to > ckpt[i]
          /\ host[i] = "waiting" /\ mail[i].after = ckpt[i]
      BY <1>3, <1>5, <1>7, <1>8, <1>15 DEF TypeOK, IInv, GuestInv, HostInv
    <2>2. HostInv(i)'
      BY <1>2, <1>5, <1>6, <1>13, <1>14, <2>1 DEF IInv, HostInv, TypeOK
    <2> QED BY <1>6, <1>9, <1>10, <1>11, <1>12, <2>2 DEF IInv
  <1>16. CASE guest[i] = "publishing"
    <2>1. ckpt' = ckpt /\ cursor'[i] = cursor[i] /\ reply' = reply
      BY <1>3, <1>5, <1>7, <1>8, <1>16
    <2>2. HostInv(i)'
      BY <1>2, <1>5, <1>6, <1>13, <1>14, <2>1 DEF IInv, HostInv, TypeOK, past
    <2> QED BY <1>6, <1>9, <1>10, <1>11, <1>12, <2>2 DEF IInv
  <1> QED BY <1>2, <1>15, <1>16

LEMMA CommitFailsKeeps == ASSUME IInv, NEW i \in Instances, CommitFails(i) PROVE IInv'
  <1>1. StoreType' /\ StoreInv' /\ Len(log') >= Len(log)
    BY StoreUnchanged DEF CommitFails
  <1>2. TypeOK'
    BY DEF IInv, TypeOK, CommitFails, store, agent, past
  <1>3. \A r \in late' : WellFormed(r)'
    BY <1>1, LateStays DEF CommitFails, past
  <1>4. ASSUME NEW j \in Instances \ {i} PROVE GuestInv(j)' /\ HostInv(j)'
    BY <1>1, <1>4, Bystander DEF CommitFails, store, agent, past, IInv, TypeOK
  <1>5. /\ guest'[i] = IF guest[i] = "committing" THEN "working" ELSE "free"
        /\ greq'[i] = NoRequest /\ guest[i] \in {"committing", "publishing"}
        /\ UNCHANGED <<store, agent, batch, past>>
    BY DEF CommitFails, IInv, TypeOK
  <1>6. GuestInv(i)'
    BY <1>5 DEF IInv, GuestInv, agent
  <1>7. HostInv(i)'
    BY <1>5 DEF IInv, HostInv, WellFormed, store, agent, past
  <1> QED BY <1>1, <1>2, <1>3, <1>4, <1>6, <1>7 DEF IInv

LEMMA RejectKeeps == ASSUME IInv, NEW i \in Instances, Reject(i) PROVE IInv'
  <1>1. StoreType' /\ StoreInv' /\ Len(log') >= Len(log)
    BY StoreUnchanged DEF Reject
  <1>2. TypeOK'
    BY DEF IInv, TypeOK, Reject, store, past, NoBatch, Batch
  <1>3. \A r \in late' : WellFormed(r)'
    BY <1>1, LateStays DEF Reject, past
  <1>4. ASSUME NEW j \in Instances \ {i} PROVE GuestInv(j)' /\ HostInv(j)'
    BY <1>1, <1>4, Bystander DEF Reject, store, past, IInv, TypeOK
  <1>5. /\ guest[i] = "working" /\ guest'[i] = "free" /\ reply'[i] = "err"
        /\ UNCHANGED <<store, host, ckpt, mail, hreq, skipTo, greq, past>>
    BY DEF Reject, IInv, TypeOK
  <1>6. GuestInv(i)'
    BY <1>5 DEF IInv, GuestInv
  <1>7. HostInv(i)'
    BY <1>5 DEF IInv, GuestInv, HostInv, WellFormed, store, past
  <1> QED BY <1>1, <1>2, <1>3, <1>4, <1>6, <1>7 DEF IInv

LEMMA DieKeeps == ASSUME IInv, NEW i \in Instances, Die(i) PROVE IInv'
  <1>1. StoreType' /\ StoreInv' /\ Len(log') >= Len(log)
    BY StoreUnchanged DEF Die
  <1>2. TypeOK'
    <2>1. /\ guest' \in [Instances ->
                {"none", "free", "working", "committing", "publishing", "dead"}]
          /\ batch' \in [Instances -> Batch]
      BY DEF IInv, TypeOK, Die, NoBatch, Batch
    <2>2. reply' \in [Instances -> {"none", "ok", "err"}] /\ faults' \in Nat
      BY DEF IInv, TypeOK, Die, Fault
    <2> QED BY <2>1, <2>2 DEF IInv, TypeOK, Die, store
  <1>3. \A r \in late' : WellFormed(r)'
    BY <1>1, LateStays DEF Die
  <1>4. ASSUME NEW j \in Instances \ {i} PROVE GuestInv(j)' /\ HostInv(j)'
    BY <1>1, <1>4, Bystander DEF Die, store, IInv, TypeOK
  <1>5. /\ guest[i] \in {"free", "working"} /\ guest'[i] = "dead"
        /\ reply'[i] = (IF host[i] \in {"sent", "waiting"} /\ reply[i] = "none"
                       THEN "err" ELSE reply[i])
        /\ UNCHANGED <<store, host, ckpt, mail, hreq, skipTo, greq, late, overtaken>>
    BY DEF Die, IInv, TypeOK
  <1>6. GuestInv(i)'
    BY <1>5 DEF IInv, GuestInv
  <1>7. HostInv(i)'
    BY <1>5 DEF IInv, GuestInv, HostInv, WellFormed, store
  <1> QED BY <1>1, <1>2, <1>3, <1>4, <1>6, <1>7 DEF IInv

LEMMA LateLandsKeeps == ASSUME IInv, NEW r \in late, LateLands(r) PROVE IInv'
  <1>1. WellFormed(r) /\ r \in Request
    BY DEF IInv, WellFormed
  <1>2. r.inst \in Instances /\ r.moves \in BOOLEAN
    BY <1>1, RequestFields
  <1>3. StoreType /\ StoreInv /\ TypeOK
    BY DEF IInv, TypeOK, StoreType
  <1>4. StoreType' /\ StoreInv' /\ Len(log') >= Len(log)
    BY <1>1, <1>3, CommitKeeps, CommitAppends DEF LateLands
  <1>5. /\ cursor'[r.inst] = IF r.moves THEN r.to ELSE cursor[r.inst]
        /\ cursor'[r.inst] >= cursor[r.inst]
        /\ \A j \in Instances \ {r.inst} : cursor'[j] = cursor[j]
    BY <1>1, <1>3, CommitMoves DEF LateLands
  <1>6. TypeOK'
    BY <1>2, <1>3, <1>4 DEF TypeOK, StoreType, LateLands, agent, source
  <1>7. \A q \in late' : WellFormed(q)'
    BY <1>4, LateStays DEF LateLands
  <1>8. ASSUME NEW j \in Instances \ {r.inst} PROVE GuestInv(j)' /\ HostInv(j)'
    BY <1>3, <1>4, <1>5, <1>8, Bystander DEF LateLands, agent, source, TypeOK
  <1>9. CASE ~r.moves
    <2>1. cursor'[r.inst] = cursor[r.inst] /\ overtaken'[r.inst] = overtaken[r.inst]
      BY <1>2, <1>3, <1>5, <1>9 DEF LateLands, TypeOK
    <2>2. GuestInv(r.inst)' /\ HostInv(r.inst)'
      BY <1>2, <1>4, <2>1, Bystander DEF LateLands, agent, source
    <2> QED BY <1>4, <1>6, <1>7, <1>8, <2>2 DEF IInv
  <1>10. CASE r.moves
    <2> DEFINE i == r.inst
    <2>1. /\ overtaken'[i] = TRUE /\ UNCHANGED <<agent, source>>
          /\ cursor[i] \in Nat /\ cursor'[i] \in Nat /\ cursor'[i] >= cursor[i]
      BY <1>2, <1>3, <1>4, <1>5, <1>10 DEF LateLands, TypeOK, StoreType
    <2>2. /\ Len(log) \in Nat /\ Len(log') \in Nat /\ skipTo[i] \in Nat
          /\ mail[i].hi \in Nat /\ mail[i].after \in Nat
          /\ log \in Seq(Event) /\ log' \in Seq(Event)
      BY <1>2, <1>3, <1>4, InstanceFields DEF StoreType
    <2>3. \A q : WellFormed(q) => WellFormed(q)'
      BY <1>4, <2>2, WellFormedGrows
    <2>4. i \in Instances /\ GuestInv(i) /\ HostInv(i)
      BY <1>2 DEF IInv
    <2> HIDE DEF i
    <2>5. GuestInv(i)'
      BY <2>1, <2>2, <2>3, <2>4 DEF GuestInv, agent, source
    <2>6. HostInv(i)'
      BY <1>4, <2>1, <2>2, <2>3, <2>4 DEF HostInv, agent, source
    <2>7. \A j \in Instances : GuestInv(j)' /\ HostInv(j)'
      BY <1>8, <2>5, <2>6 DEF i
    <2> QED BY <1>4, <1>6, <1>7, <2>7 DEF IInv
  <1> QED BY <1>2, <1>9, <1>10

LEMMA LateFailsKeeps == ASSUME IInv, NEW r \in late, LateFails(r) PROVE IInv'
  <1>1. StoreType' /\ StoreInv' /\ Len(log') >= Len(log)
    BY StoreUnchanged DEF LateFails
  <1>2. TypeOK'
    BY DEF IInv, TypeOK, LateFails, store, agent, source
  <1>3. \A q \in late' : WellFormed(q)'
    BY <1>1, LateStays DEF LateFails
  <1>4. \A j \in Instances : GuestInv(j)' /\ HostInv(j)'
    BY <1>1, Bystander DEF LateFails, store, agent, source
  <1> QED BY <1>1, <1>2, <1>3, <1>4 DEF IInv

LEMMA NextInv == IInv /\ [Next]_vars => IInv'
  <1> SUFFICES ASSUME IInv, [Next]_vars PROVE IInv'
    OBVIOUS
  <1>1. CASE Observe
    BY <1>1, ObserveKeeps
  <1>2. ASSUME NEW i \in Instances, HostStep(i) PROVE IInv'
    BY <1>2, InstantiateKeeps, StartupKeeps, OfferKeeps, CancelKeeps, CollectKeeps,
       ReplaceKeeps, CrashKeeps, SkipKeeps, SkipLandsKeeps, SkipFailsKeeps DEF HostStep
  <1>3. ASSUME NEW i \in Instances, GuestStep(i) PROVE IInv'
    BY <1>3, TakeKeeps, StreamKeeps, ProposeKeeps, EmitKeeps, CommitLandsKeeps,
       CommitFailsKeeps, RejectKeeps, DieKeeps DEF GuestStep
  <1>4. ASSUME NEW r \in late, LateLands(r) \/ LateFails(r) PROVE IInv'
    BY <1>4, LateLandsKeeps, LateFailsKeeps
  <1>5. CASE UNCHANGED vars
    <2>1. StoreType' /\ StoreInv' /\ Len(log') >= Len(log)
      BY <1>5, StoreUnchanged DEF vars
    <2>2. TypeOK'
      BY <1>5 DEF IInv, TypeOK, vars, store, agent, source, past
    <2>3. \A q \in late' : WellFormed(q)'
      BY <1>5, <2>1, LateStays DEF vars, past
    <2>4. \A j \in Instances : GuestInv(j)' /\ HostInv(j)'
      BY <1>5, <2>1, Bystander DEF vars, store, agent, source, past
    <2> QED BY <2>1, <2>2, <2>3, <2>4 DEF IInv
  <1> QED BY <1>1, <1>2, <1>3, <1>4, <1>5 DEF Next

LEMMA SpecInv == Spec => []IInv
  BY InitInv, NextInv, PTL DEF Spec

-----------------------------------------------------------------------------
(* The properties.                                                         *)

(* Every variable keeps its type; in particular no cursor, checkpoint or   *)
(* request of the runner leaves the naturals.                              *)
THEOREM Typed == Spec => []TypeOK
  <1>1. IInv => TypeOK
    BY DEF IInv
  <1> QED BY <1>1, SpecInv, PTL

(* run_commit and skip consume every position once and in stream order,    *)
(* for any number of instances, traps, crashes and late transactions.      *)
THEOREM Once == Spec => []ConsumedOnce
  <1>1. IInv => ConsumedOnce
    BY DEF IInv, StoreInv, Chained, ConsumedOnce
  <1> QED BY <1>1, SpecInv, PTL

(* The transaction of the store records a result together with the cursor  *)
(* it belongs to, and records it once.                                     *)
THEOREM Atomic == Spec => []ResultsMatchCursor
  <1>1. IInv => ResultsMatchCursor
    BY DEF IInv, StoreInv
  <1> QED BY <1>1, SpecInv, PTL

(* Deduplication on the keys of derived_key never swallows a result.       *)
THEOREM NoSwallow == Spec => []NothingSwallowed
  <1>1. IInv => NothingSwallowed
    <2> SUFFICES ASSUME IInv, NEW r \in Requests \cup late, Accepts(r),
                        r.key.phase \in {"handle", "defer"}
                 PROVE  ~Recorded(r.key)
      BY DEF NothingSwallowed
    <2>1. WellFormed(r)
      BY DEF Requests, IInv, GuestInv, HostInv
    <2>2. StoreType /\ StoreInv
      BY DEF IInv, TypeOK, StoreType
    <2> QED BY <2>1, <2>2, AcceptedKeysAreNew
  <1> QED BY <1>1, SpecInv, PTL

(* commit_gate: host and guest of an instance never make each other's      *)
(* transaction conflict.                                                   *)
THEOREM Gated == Spec => []NoSelfConflict
  <1>1. IInv => NoSelfConflict
    <2> SUFFICES ASSUME IInv, NEW r \in Requests, ~overtaken[r.inst]
                 PROVE  cursor[r.inst] = r.expected
      BY DEF NoSelfConflict
    <2>1. PICK i \in Instances : r \in {greq[i], hreq[i]} /\ r # NoRequest
      BY DEF Requests
    <2>2. r.inst = i /\ r.expected = ckpt[i]
      BY <2>1 DEF IInv, GuestInv, HostInv
    <2>3. host[i] # "down"
      BY <2>1 DEF IInv, GuestInv, HostInv
    <2> QED BY <2>2, <2>3 DEF IInv, HostInv
  <1> QED BY <1>1, SpecInv, PTL

(* The reply a worker gives the agent agrees with the stored cursor.       *)
THEOREM Honest == Spec => []ReplyIsHonest
  <1>1. IInv => ReplyIsHonest
    <2> SUFFICES ASSUME IInv, NEW i \in Instances, host[i] \in {"sent", "waiting"}
                 PROVE  /\ reply[i] = "ok" => cursor[i] > mail[i].after
                        /\ reply[i] = "err" /\ ~overtaken[i] => cursor[i] = mail[i].after
      BY DEF ReplyIsHonest
    <2>1. cursor[i] \in Nat /\ mail[i].after \in Nat
      BY InstanceFields DEF IInv
    <2> QED BY <2>1 DEF IInv, HostInv
  <1> QED BY <1>1, SpecInv, PTL

-----------------------------------------------------------------------------
(* The refinement.                                                         *)

(* A new event that is no delivery's result is a step of the promise.      *)
LEMMA PublishRefines ==
    ASSUME StoreType, NEW e \in Event, e.key.phase # "handle",
           log' = AppendIn(e), cursor' = cursor, applied' = applied
    PROVE  Abs!Next \/ UNCHANGED store
  <1>1. CASE log' = log
    BY <1>1 DEF store
  <1>2. CASE log' # log
    <2>1. /\ log' = Append(log, e) /\ Len(log') = Len(log) + 1 /\ log'[Len(log')] = e
          /\ e.key = NoKey \/ ~Recorded(e.key)
      BY <1>2, AppendInKeeps DEF StoreType
    <2>2. Abs!Publish
      BY <2>1 DEF Abs!Publish, Event, NoKey, Recorded, Abs!Recorded
    <2> QED BY <2>2 DEF Abs!Next
  <1> QED BY <1>1, <1>2

(* An accepted transaction is one atomic step of the promise.              *)
LEMMA CommitRefines ==
    ASSUME StoreType, StoreInv, NEW r, WellFormed(r), Accepts(r), Commit(r)
    PROVE  Abs!Next \/ UNCHANGED store
  <1>0. r \in Request
    BY DEF WellFormed
  <1>1. /\ r.inst \in Instances /\ r.expected \in Nat /\ r.moves \in BOOLEAN
        /\ r.after \in Nat /\ r.to \in Nat /\ r.key \in Key \cup {NoKey}
        /\ [by |-> r.inst, key |-> r.key] \in Event
        /\ r.how \in {"handled", "skipped"}
    BY <1>0, RequestFields
  <1>2. CASE ~(r.moves /\ r.to > r.expected)
    <2>1. cursor' = cursor /\ applied' = applied
      BY <1>2 DEF Commit
    <2>2. r.key.phase \notin {"handle", "defer"}
      BY <1>2 DEF WellFormed
    <2>3. CASE r.key = NoKey
      BY <2>1, <2>3 DEF Commit, store
    <2>4. CASE r.key # NoKey
      <3>1. log' = AppendIn([by |-> r.inst, key |-> r.key])
        BY <2>4 DEF Commit
      <3> QED BY <1>1, <2>1, <2>2, <3>1, PublishRefines
    <2> QED BY <2>3, <2>4
  <1>3. CASE r.moves /\ r.to > r.expected
    <2> DEFINE i == r.inst
    <2>1. /\ cursor[i] = r.expected /\ r.after = cursor[i]
          /\ r.to \in (cursor[i] + 1)..Len(log) /\ r.to \in 1..Len(log)
      <3>1. Len(log) \in Nat
        BY DEF StoreType
      <3> QED BY <1>1, <1>3, <3>1 DEF Accepts, WellFormed
    <2>2. /\ cursor' = [cursor EXCEPT ![i] = r.to]
          /\ applied' = [applied EXCEPT ![i] = Append(@,
                 [from |-> cursor[i], to |-> r.to, how |-> r.how, result |-> r.key])]
      BY <1>3, <2>1 DEF Commit
    <2>3. r.key # NoKey /\ ~(r.key.phase = "own" /\ Recorded(r.key)) =>
             ~Recorded(r.key) /\ log' = Append(log, [by |-> i, key |-> r.key])
      <3>1. SUFFICES ASSUME r.key # NoKey, ~(r.key.phase = "own" /\ Recorded(r.key))
                     PROVE  ~Recorded(r.key)
        BY DEF Commit, AppendIn
      <3>2. r.key.phase \in {"handle", "defer", "own"}
        BY <1>1, <1>3, <3>1, KeyPhases DEF WellFormed, Key, Abs!Key, Abs!Phases
      <3> QED BY <3>1, <3>2, AcceptedKeysAreNew
    <2>4. r.key = NoKey \/ (r.key.phase = "own" /\ Recorded(r.key)) => log' = log
      BY DEF Commit, AppendIn
    <2>5. Abs!Consume(i, r.to, r.how, r.key)
      BY <2>1, <2>2, <2>3, <2>4 DEF Abs!Consume, Recorded, Abs!Recorded, NoKey
    <2>6. CASE r.how = "skipped"
      <3>1. r.key \in {NoKey, DeferKey(i, r.to)}
        BY <1>1, <2>6, KeyPhases DEF WellFormed
      <3>2. Abs!Skip(i, r.to)
        BY <2>5, <2>6, <3>1 DEF Abs!Skip, DeferKey, Abs!DeferKey, NoKey
      <3> QED BY <1>1, <2>1, <3>2 DEF Abs!Next
    <2>7. CASE r.how = "handled" /\ r.key.phase # "own"
      <3>1. r.key \in {NoKey, HandleKey(i, cursor[i])}
        BY <1>1, <1>3, <2>1, <2>7, KeyPhases DEF WellFormed, Key, Abs!Key, Abs!Phases
      <3>2. Abs!Handle(i, r.to)
        BY <2>5, <2>7, <3>1 DEF Abs!Handle, HandleKey, Abs!HandleKey, NoKey
      <3> QED BY <1>1, <2>1, <3>2 DEF Abs!Next
    <2>8. CASE r.how = "handled" /\ r.key.phase = "own"
      <3>1. r.key \in Key
        BY <1>1, <2>8, KeyPhases
      <3>2. /\ applied'[i] = Append(applied[i],
                 [from |-> cursor[i], to |-> r.to, how |-> r.how, result |-> r.key])
            /\ applied[i] \in Seq(Block)
        BY <1>1, <2>2 DEF StoreType
      <3>3. /\ Len(applied'[i]) = Len(applied[i]) + 1
            /\ applied'[i][Len(applied'[i])].result = r.key
        BY <3>2
      <3>4. Abs!HandleOwn(i, r.to)
        BY <2>5, <2>8, <3>1, <3>3 DEF Abs!HandleOwn, Key
      <3> QED BY <1>1, <2>1, <3>4 DEF Abs!Next
    <2> QED BY <1>1, <2>6, <2>7, <2>8
  <1> QED BY <1>1, <1>2, <1>3

LEMMA NextRefines ==
    ASSUME IInv, [Next]_vars
    PROVE  Abs!Next \/ UNCHANGED store
  <1>1. StoreType /\ StoreInv
    BY DEF IInv, TypeOK, StoreType
  <1>2. CASE Observe
    <2>1. /\ [by |-> Outside, key |-> NoKey] \in Event
          /\ [by |-> Outside, key |-> NoKey].key.phase = "none"
      BY DEF Event, Abs!Event, NoKey, Abs!NoKey
    <2>2. log' = AppendIn([by |-> Outside, key |-> NoKey]) /\ cursor' = cursor /\ applied' = applied
      BY <1>2 DEF Observe, AppendIn
    <2> QED BY <1>1, <2>1, <2>2, PublishRefines
  <1>3. ASSUME NEW i \in Instances, Stream(i) PROVE Abs!Next \/ UNCHANGED store
    <2>1. PICK k \in OwnKeys : log' = AppendIn([by |-> i, key |-> OwnKey(i, k)])
      BY <1>3 DEF Stream
    <2>2. /\ [by |-> i, key |-> OwnKey(i, k)] \in Event
          /\ [by |-> i, key |-> OwnKey(i, k)].key.phase = "own"
      BY NewKeys DEF Event, Abs!Event, Key
    <2> QED BY <1>1, <1>3, <2>1, <2>2, PublishRefines DEF Stream
  <1>4. ASSUME NEW i \in Instances, Startup(i) PROVE Abs!Next \/ UNCHANGED store
    <2> DEFINE req(k) == [inst |-> i, expected |-> ckpt[i], moves |-> FALSE, after |-> 0,
                          to |-> 0, how |-> "handled", key |-> k]
    <2>1. PICK k \in {NoKey, InitKey(i, ckpt[i])} :
             IF Accepts(req(k)) THEN Commit(req(k)) ELSE UNCHANGED store
      BY <1>4 DEF Startup
    <2>2. k \in Key \cup {NoKey} /\ k.phase \in {"none", "init"} /\ ckpt[i] \in Nat
      BY NewKeys, InstanceFields DEF IInv
    <2>3. req(k) \in Request
      BY <2>2, NewRequest
    <2>4. WellFormed(req(k))
      BY <2>2, <2>3 DEF WellFormed
    <2> HIDE DEF req
    <2> QED BY <1>1, <2>1, <2>4, CommitRefines
  <1>5. ASSUME NEW i \in Instances, SkipLands(i) PROVE Abs!Next \/ UNCHANGED store
    <2>1. WellFormed(hreq[i])
      BY <1>5 DEF IInv, HostInv, SkipLands
    <2> QED BY <1>1, <1>5, <2>1, CommitRefines DEF SkipLands
  <1>6. ASSUME NEW i \in Instances, CommitLands(i) PROVE Abs!Next \/ UNCHANGED store
    <2>1. WellFormed(greq[i])
      BY <1>6 DEF IInv, GuestInv, CommitLands
    <2> QED BY <1>1, <1>6, <2>1, CommitRefines DEF CommitLands
  <1>7. ASSUME NEW r \in late, LateLands(r) PROVE Abs!Next \/ UNCHANGED store
    BY <1>1, <1>7, CommitRefines DEF LateLands, IInv
  <1>8. ASSUME NEW r \in late, LateFails(r) PROVE UNCHANGED store
    BY <1>8 DEF LateFails
  <1>9. ASSUME NEW i \in Instances, HostStep(i) PROVE Abs!Next \/ UNCHANGED store
    BY <1>4, <1>5, <1>9 DEF HostStep, Instantiate, Offer, Cancel, Collect, Replace, Crash,
       Skip, SkipFails, Drop
  <1>10. ASSUME NEW i \in Instances, GuestStep(i) PROVE Abs!Next \/ UNCHANGED store
    BY <1>3, <1>6, <1>10 DEF GuestStep, Take, Propose, Emit, CommitFails, Reject, Die
  <1>11. CASE UNCHANGED vars
    BY <1>11 DEF vars
  <1> QED BY <1>2, <1>7, <1>8, <1>9, <1>10, <1>11 DEF Next

(* The runner over the store implements its promise (plugin.wit, outcome): *)
(* every step of host, guest or a dropped incarnation is one atomic        *)
(* consumption, one published event, or invisible.                         *)
THEOREM Implements == Spec => Promise
  <1>1. Init => Abs!Init
    BY DEF Init, Abs!Init
  <1>2. IInv /\ [Next]_vars => [Abs!Next]_(Abs!absVars)
    BY NextRefines DEF store, Abs!absVars
  <1> QED BY <1>1, <1>2, SpecInv, PTL DEF Spec, Promise, Abs!Spec
=============================================================================
