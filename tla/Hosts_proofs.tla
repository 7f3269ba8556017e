---------------------------- MODULE Hosts_proofs ----------------------------
(***************************************************************************)
(* What the host does for its components: it stores blobs (Blobs), sends   *)
(* their HTTP requests (HttpHost) and streams them a model's reply         *)
(* (ModelStream).                                                          *)
(***************************************************************************)
EXTENDS Blobs, HttpHost, ModelStream, TLAPS, SequenceTheorems, FiniteSetTheorems

-----------------------------------------------------------------------------
(***************************************************************************)
(* A blob is what its caller meant to write.  A write or a publication     *)
(* outlives the caller that waits for it, a caller asks again for what may *)
(* have been done already, an upload can be aborted while its tasks run,   *)
(* the process may die and an object rot meanwhile: for any uploads,       *)
(* plans, limits and numbers of cancellations and crashes.                 *)
(***************************************************************************)

Chunks == UNION {{Plan[u][k] : k \in DOMAIN Plan[u]} : u \in Uploads}
Files == [held : BOOLEAN, bytes : Seq(Chunks), prev : Seq([offset : Nat, chunk : Chunks])]
Callers == [step : {"new", "open", "writing", "finishing", "stored", "failed"}, acked : Nat, try : Nat]

BlobsTypeOK ==
    /\ file \in [Uploads -> Files] /\ caller \in [Uploads -> Callers]
    /\ \A t \in tasks : t.of \in Uploads

(* A temporary file is a beginning of the plan, and holds at least what    *)
(* its caller was told.                                                    *)
Begun(u) ==
    /\ Len(file[u].bytes) <= Len(Plan[u])
    /\ \A k \in 1..Len(file[u].bytes) : file[u].bytes[k] = Plan[u][k]
    /\ caller[u].step \in {"open", "writing", "finishing"} => caller[u].acked <= Len(file[u].bytes)

(* A write still to run is of the chunk the plan has at its offset.        *)
WriteFits(t) ==
    t.kind = "write" => /\ t.offset \in Nat /\ t.offset < Len(Plan[t.of])
                        /\ t.chunk = Plan[t.of][t.offset + 1]

(* A publication still to run is the only one of its upload, which can be  *)
(* opened, aborted and written no more; its file is the whole plan.        *)
FinishFits(t) ==
    t.kind = "finish" =>
        /\ caller[t.of].step \in {"finishing", "failed"} /\ t.of \notin table
        /\ Len(file[t.of].bytes) = Len(Plan[t.of])
        /\ \A s \in tasks : s.kind = "finish" /\ s.of = t.of => s = t

(* An upload the store knows was begun.                                    *)
TableFits == \A u \in Uploads : u \in table => caller[u].step # "new"

(* What was compared with its object in this process equals it.            *)
VerifiedFits ==
    /\ \A d \in verified : d \in DOMAIN objects /\ objects[d] = d
    /\ ~storeUp => verified = {}

(* What can be named is stored.                                            *)
Stored == visible \in [Instances -> SUBSET DOMAIN objects]

UploadInv ==
    /\ BlobsTypeOK /\ TableFits /\ \A u \in Uploads : Begun(u)
    /\ \A t \in tasks : WriteFits(t) /\ FinishFits(t)
BlobsIInv == UploadInv /\ VerifiedFits /\ Stored /\ BlobIsContent

-----------------------------------------------------------------------------
(* A plan is a sequence of chunks.                                         *)
LEMMA PlanTyped ==
    ASSUME NEW u \in Uploads
    PROVE  Plan[u] \in Seq(Chunks) /\ Len(Plan[u]) \in Nat
<1>1. Plan[u] \in Seq({Plan[u][k] : k \in DOMAIN Plan[u]})
    BY BlobsAssumption
<1>2. {Plan[u][k] : k \in DOMAIN Plan[u]} \subseteq Chunks
    BY DEF Chunks
<1>3. Plan[u] \in Seq(Chunks)
    BY <1>1, <1>2
<1> QED BY <1>3

(* A file and a caller, taken apart.                                       *)
LEMMA FileTyped ==
    ASSUME UploadInv, NEW u \in Uploads
    PROVE  /\ file[u] \in Files /\ file[u].bytes \in Seq(Chunks) /\ Len(file[u].bytes) \in Nat
           /\ caller[u] \in Callers /\ caller[u].acked \in Nat /\ caller[u].try \in Nat
<1>1. file[u] \in Files /\ caller[u] \in Callers
    BY DEF UploadInv, BlobsTypeOK
<1>2. file[u].bytes \in Seq(Chunks)
    BY <1>1 DEF Files
<1>3. Len(file[u].bytes) \in Nat
    BY <1>2
<1> QED BY <1>1, <1>2, <1>3 DEF Callers

LEMMA ConstantFiles == Fresh \in Files /\ Gone \in Files
                       /\ Fresh.bytes = << >> /\ Gone.bytes = << >> /\ Len(<< >>) = 0
<1>1. << >> \in Seq(Chunks) /\ << >> \in Seq([offset : Nat, chunk : Chunks]) /\ Len(<< >>) = 0
    OBVIOUS
<1> QED BY <1>1 DEF Fresh, Gone, Files

(* What At does.                                                           *)
LEMMA AtDoes ==
    ASSUME UploadInv, NEW u \in Uploads, NEW phase, NEW acked \in Nat,
           phase \in {"new", "open", "writing", "finishing", "stored", "failed"}, At(u, phase, acked)
    PROVE  /\ caller' \in [Uploads -> Callers] /\ caller'[u].step = phase /\ caller'[u].acked = acked
           /\ caller'[u].try = caller[u].try
           /\ \A v \in Uploads : v # u => caller'[v] = caller[v]
<1>1. caller \in [Uploads -> Callers]
    BY DEF UploadInv, BlobsTypeOK
<1>2. caller' = [caller EXCEPT ![u] = [[caller[u] EXCEPT !.step = phase] EXCEPT !.acked = acked]]
    BY <1>1 DEF At, Callers
<1>3. /\ caller'[u] = [[caller[u] EXCEPT !.step = phase] EXCEPT !.acked = acked]
      /\ \A v \in Uploads : v # u => caller'[v] = caller[v]
    BY <1>1, <1>2
<1>4. /\ caller'[u] \in Callers /\ caller'[u].step = phase /\ caller'[u].acked = acked
      /\ caller'[u].try = caller[u].try
    <2>1. caller[u] \in Callers /\ caller[u].try \in Nat
        BY FileTyped
    <2>2. caller'[u] = [step |-> phase, acked |-> acked, try |-> caller[u].try]
        BY <1>3, <2>1 DEF Callers
    <2> QED BY <2>1, <2>2 DEF Callers
<1> QED BY <1>1, <1>2, <1>3, <1>4

(* A step that leaves the objects alone, and tells no caller that its blob *)
(* is stored.                                                              *)
LEMMA ObjectsSame ==
    ASSUME BlobsIInv, UNCHANGED <<objects, verified, visible, named, reads, storeUp>>,
           \A u \in Uploads : caller'[u].step = "stored" => caller[u].step = "stored"
    PROVE  (VerifiedFits /\ Stored /\ BlobIsContent)'
BY DEF BlobsIInv, VerifiedFits, Stored, BlobIsContent

(* A step of one upload: the others' files and tasks are as they were.     *)
LEMMA UploadStep ==
    ASSUME UploadInv, NEW u \in Uploads,
           file' \in [Uploads -> Files], caller' \in [Uploads -> Callers],
           \A v \in Uploads : v # u => file'[v] = file[v] /\ caller'[v] = caller[v],
           \A v \in Uploads : v # u => (v \in table' <=> v \in table),
           u \in table' => caller'[u].step # "new",
           Begun(u)',
           \A t \in tasks' : t \in tasks \/ t.of = u,
           \A t \in tasks' : t.of = u => WriteFits(t) /\ FinishFits(t)'
    PROVE  UploadInv'
<1>1. BlobsTypeOK'
    BY DEF UploadInv, BlobsTypeOK
<1>2. TableFits'
    BY DEF UploadInv, TableFits
<1>3. ASSUME NEW v \in Uploads PROVE Begun(v)'
    BY <1>3 DEF UploadInv, Begun
<1>4. ASSUME NEW t \in tasks' PROVE WriteFits(t)' /\ FinishFits(t)'
    <2>1. CASE t.of = u
        BY <2>1 DEF WriteFits
    <2>2. CASE t.of # u
        <3>1. t \in tasks /\ t.of \in Uploads
            BY <2>2 DEF UploadInv, BlobsTypeOK
        <3>2. WriteFits(t) /\ FinishFits(t)
            BY <3>1 DEF UploadInv
        <3>3. \A s \in tasks' : s.of = t.of => s \in tasks
            BY <2>2
        <3> QED BY <2>2, <3>1, <3>2, <3>3 DEF WriteFits, FinishFits
    <2> QED BY <2>1, <2>2
<1> QED BY <1>1, <1>2, <1>3, <1>4 DEF UploadInv

(* A step of one upload that adds no task and keeps its file: what its     *)
(* tasks rest on is kept when the caller does not go back.                 *)
LEMMA CallerStep ==
    ASSUME UploadInv, NEW u \in Uploads,
           file' = file, tasks' = tasks, table' \subseteq table, \A v \in Uploads : v # u => (v \in table' <=> v \in table),
           caller' \in [Uploads -> Callers], \A v \in Uploads : v # u => caller'[v] = caller[v],
           caller'[u].step # "new",
           caller'[u].step \in {"open", "writing", "finishing"} =>
               caller'[u].acked <= Len(file[u].bytes),
           caller[u].step \in {"finishing", "failed"} => caller'[u].step \in {"finishing", "failed"}
    PROVE  UploadInv'
<1>1. file' \in [Uploads -> Files]
    BY DEF UploadInv, BlobsTypeOK
<1>2. Begun(u)'
    BY DEF UploadInv, Begun
<1>3. ASSUME NEW t \in tasks', t.of = u PROVE WriteFits(t) /\ FinishFits(t)'
    BY <1>3 DEF UploadInv, WriteFits, FinishFits
<1> QED BY <1>1, <1>2, <1>3, UploadStep

-----------------------------------------------------------------------------
(* An upload is opened, empty; or refused for its declared size.           *)
LEMMA BeginPutKeeps == ASSUME BlobsIInv, NEW u \in Uploads, BeginPut(u) PROVE BlobsIInv'
<1>1. /\ caller[u].step = "new" /\ tasks' = tasks /\ UploadInv
      /\ UNCHANGED <<objects, verified, visible, named, reads, storeUp>>
    BY DEF BeginPut, BlobsIInv
<1>2. CASE At(u, "failed", 0) /\ UNCHANGED <<table, file>>
    <2>1. /\ caller' \in [Uploads -> Callers] /\ caller'[u].step = "failed"
          /\ \A v \in Uploads : v # u => caller'[v] = caller[v]
        BY <1>1, <1>2, AtDoes
    <2>2. UploadInv'
        BY <1>1, <1>2, <2>1, CallerStep
    <2> QED BY <1>1, <2>1, <2>2, ObjectsSame DEF BlobsIInv
<1>3. CASE table' = table \cup {u} /\ file' = [file EXCEPT ![u] = Fresh] /\ At(u, "open", 0)
    <2>1. /\ caller' \in [Uploads -> Callers] /\ caller'[u].step = "open" /\ caller'[u].acked = 0
          /\ \A v \in Uploads : v # u => caller'[v] = caller[v]
        BY <1>1, <1>3, AtDoes
    <2>2. /\ file' \in [Uploads -> Files] /\ file'[u] = Fresh
          /\ \A v \in Uploads : v # u => file'[v] = file[v]
        BY <1>1, <1>3, ConstantFiles DEF UploadInv, BlobsTypeOK
    <2>3. file'[u].bytes = << >> /\ Len(file'[u].bytes) = 0
        BY <2>2, ConstantFiles
    <2>4. Begun(u)'
        BY <2>1, <2>3, PlanTyped DEF Begun
    <2>5. ASSUME NEW t \in tasks', t.of = u PROVE WriteFits(t) /\ FinishFits(t)'
        <3>1. WriteFits(t) /\ FinishFits(t)
            BY <1>1 DEF UploadInv
        <3>2. t.kind # "finish"
            BY <1>1, <2>5, <3>1 DEF FinishFits
        <3> QED BY <3>1, <3>2 DEF FinishFits
    <2>6. UploadInv'
        BY <1>1, <1>3, <2>1, <2>2, <2>4, <2>5, UploadStep
    <2> QED BY <1>1, <2>1, <2>6, ObjectsSame DEF BlobsIInv
<1> QED BY <1>2, <1>3 DEF BeginPut

(* A write is admitted: of the next chunk of the plan.                     *)
LEMMA AdmitKeeps == ASSUME BlobsIInv, NEW u \in Uploads, Admit(u) PROVE BlobsIInv'
<1> DEFINE t == Task(u, "write", Plan[u][caller[u].acked + 1])
<1>1. /\ caller[u].step = "open" /\ caller[u].acked < Len(Plan[u]) /\ u \in table
      /\ At(u, "writing", caller[u].acked) /\ tasks' = tasks \cup {t} /\ UploadInv
      /\ UNCHANGED <<table, file, objects, verified, visible, named, reads, storeUp>>
    BY DEF Admit, Holds, BlobsIInv
<1>2. /\ caller' \in [Uploads -> Callers] /\ caller'[u].step = "writing" /\ caller'[u].acked = caller[u].acked
      /\ \A v \in Uploads : v # u => caller'[v] = caller[v]
    BY <1>1, AtDoes, FileTyped
<1>3. t.of = u /\ t.kind = "write" /\ t.offset = caller[u].acked /\ t.chunk = Plan[u][caller[u].acked + 1]
    BY DEF Task
<1> HIDE DEF t
<1>4. WriteFits(t)
    BY <1>1, <1>3, FileTyped DEF WriteFits
<1>5. Begun(u)'
    BY <1>1, <1>2 DEF UploadInv, Begun
<1>6. ASSUME NEW s \in tasks', s.of = u PROVE WriteFits(s) /\ FinishFits(s)'
    <2>1. CASE s = t
        BY <1>3, <1>4, <2>1 DEF FinishFits
    <2>2. CASE s \in tasks
        <3>1. WriteFits(s) /\ FinishFits(s)
            BY <1>1, <2>2 DEF UploadInv
        <3>2. s.kind # "finish"
            BY <1>1, <1>6, <3>1 DEF FinishFits
        <3> QED BY <3>1, <3>2 DEF FinishFits
    <2> QED BY <1>1, <2>1, <2>2
<1>7. file' \in [Uploads -> Files]
    BY <1>1 DEF UploadInv, BlobsTypeOK
<1>8. UploadInv'
    BY <1>1, <1>2, <1>3, <1>5, <1>6, <1>7, UploadStep
<1> QED BY <1>1, <1>2, <1>8, ObjectsSame DEF BlobsIInv

(* A caller stops waiting and asks again.                                  *)
LEMMA RetryKeeps == ASSUME BlobsIInv, NEW u \in Uploads, Retry(u) PROVE BlobsIInv'
<1>1. /\ caller[u].step = "writing" /\ UploadInv
      /\ caller' = [caller EXCEPT ![u].step = "open", ![u].try = @ + 1]
      /\ UNCHANGED <<table, file, tasks, objects, verified, visible, named, reads, storeUp>>
    BY DEF Retry, BlobsIInv
<1>2. /\ caller' \in [Uploads -> Callers] /\ caller'[u].step = "open" /\ caller'[u].acked = caller[u].acked
      /\ \A v \in Uploads : v # u => caller'[v] = caller[v]
    <2>1. caller \in [Uploads -> Callers] /\ caller[u].acked \in Nat /\ caller[u].try \in Nat
        BY <1>1, FileTyped DEF UploadInv, BlobsTypeOK
    <2>2. caller' = [caller EXCEPT ![u] = [step |-> "open", acked |-> caller[u].acked, try |-> caller[u].try + 1]]
        BY <1>1, <2>1 DEF Callers
    <2>3. [step |-> "open", acked |-> caller[u].acked, try |-> caller[u].try + 1] \in Callers
        BY <2>1 DEF Callers
    <2> QED BY <2>1, <2>2, <2>3
<1>3. UploadInv'
    BY <1>1, <1>2, CallerStep DEF UploadInv, Begun
<1> QED BY <1>1, <1>2, <1>3, ObjectsSame DEF BlobsIInv

(* An upload is aborted; its file goes unless it is being published.       *)
LEMMA AbortPutKeeps == ASSUME BlobsIInv, NEW u \in Uploads, AbortPut(u) PROVE BlobsIInv'
<1>1. /\ caller[u].step \in {"open", "writing", "finishing"} /\ At(u, "failed", 0) /\ UploadInv
      /\ table' = table \ {u} /\ tasks' = tasks
      /\ UNCHANGED <<objects, verified, visible, named, reads, storeUp>>
    BY DEF AbortPut, Released, BlobsIInv
<1>2. /\ caller' \in [Uploads -> Callers] /\ caller'[u].step = "failed"
      /\ \A v \in Uploads : v # u => caller'[v] = caller[v]
    BY <1>1, AtDoes
<1>3. CASE u \notin table
    <2>1. file' = file
        BY <1>3 DEF AbortPut
    <2>2. UploadInv'
        BY <1>1, <1>2, <2>1, CallerStep
    <2> QED BY <1>1, <1>2, <2>2, ObjectsSame DEF BlobsIInv
<1>4. CASE u \in table
    <2>1. file' = [file EXCEPT ![u] = Gone]
        BY <1>4 DEF AbortPut
    <2>2. /\ file' \in [Uploads -> Files] /\ file'[u] = Gone
          /\ \A v \in Uploads : v # u => file'[v] = file[v]
        BY <1>1, <2>1, ConstantFiles DEF UploadInv, BlobsTypeOK
    <2>3. Begun(u)'
        BY <1>2, <2>2, ConstantFiles, PlanTyped DEF Begun
    <2>4. ASSUME NEW t \in tasks', t.of = u PROVE WriteFits(t) /\ FinishFits(t)'
        <3>1. WriteFits(t) /\ FinishFits(t)
            BY <1>1 DEF UploadInv
        <3>2. t.kind # "finish"
            BY <1>4, <2>4, <3>1 DEF FinishFits
        <3> QED BY <3>1, <3>2 DEF FinishFits
    <2>5. UploadInv'
        BY <1>1, <1>2, <2>2, <2>3, <2>4, UploadStep
    <2> QED BY <1>1, <1>2, <2>5, ObjectsSame DEF BlobsIInv
<1> QED BY <1>3, <1>4

(* A publication is admitted once the caller was told of the whole plan.   *)
LEMMA FinishPutKeeps == ASSUME BlobsIInv, NEW u \in Uploads, FinishPut(u) PROVE BlobsIInv'
<1> DEFINE t == Task(u, "finish", "none")
<1>1. /\ caller[u].step = "open" /\ caller[u].acked = Len(Plan[u]) /\ UploadInv
      /\ At(u, "finishing", caller[u].acked) /\ tasks' = tasks \cup {t} /\ table' = table \ {u}
      /\ UNCHANGED <<file, objects, verified, visible, named, reads, storeUp>>
    BY DEF FinishPut, Holds, BlobsIInv
<1>2. /\ caller' \in [Uploads -> Callers] /\ caller'[u].step = "finishing"
      /\ caller'[u].acked = caller[u].acked
      /\ \A v \in Uploads : v # u => caller'[v] = caller[v]
    BY <1>1, AtDoes, FileTyped
<1>3. t.of = u /\ t.kind = "finish"
    BY DEF Task
<1> HIDE DEF t
<1>4. Begun(u)' /\ Len(file[u].bytes) = Len(Plan[u])
    BY <1>1, <1>2, FileTyped, PlanTyped DEF UploadInv, Begun
<1>5. ASSUME NEW s \in tasks, s.of = u PROVE s.kind # "finish"
    BY <1>1, <1>5 DEF UploadInv, FinishFits
<1>6. ASSUME NEW s \in tasks', s.of = u PROVE WriteFits(s) /\ FinishFits(s)'
    <2>1. CASE s = t
        <3>1. \A r \in tasks' : r.kind = "finish" /\ r.of = u => r = t
            BY <1>1, <1>5
        <3> QED BY <1>1, <1>2, <1>3, <1>4, <2>1, <3>1 DEF FinishFits, WriteFits
    <2>2. CASE s \in tasks
        BY <1>1, <1>5, <1>6, <2>2 DEF UploadInv, FinishFits
    <2> QED BY <1>1, <2>1, <2>2
<1>7. file' \in [Uploads -> Files]
    BY <1>1 DEF UploadInv, BlobsTypeOK
<1>8. UploadInv'
    BY <1>1, <1>2, <1>3, <1>4, <1>6, <1>7, UploadStep
<1> QED BY <1>1, <1>2, <1>8, ObjectsSame DEF BlobsIInv

-----------------------------------------------------------------------------
(* The file after a write that ran.                                        *)
LEMMA Written ==
    ASSUME UploadInv, NEW t \in tasks, t.kind = "write", t.offset = Size(t.of),
           file' = [file EXCEPT ![t.of] = [held |-> TRUE, bytes |-> Append(@.bytes, t.chunk),
                                           prev |-> <<[offset |-> t.offset, chunk |-> t.chunk]>>]]
    PROVE  /\ file' \in [Uploads -> Files]
           /\ \A v \in Uploads : v # t.of => file'[v] = file[v]
           /\ Len(file'[t.of].bytes) = Len(file[t.of].bytes) + 1
           /\ Len(file'[t.of].bytes) <= Len(Plan[t.of])
           /\ \A k \in 1..Len(file'[t.of].bytes) : file'[t.of].bytes[k] = Plan[t.of][k]
<1> DEFINE u == t.of
           n == Len(file[u].bytes)
           f == [held |-> TRUE, bytes |-> Append(file[u].bytes, t.chunk),
                 prev |-> <<[offset |-> t.offset, chunk |-> t.chunk]>>]
<1>1. u \in Uploads /\ file \in [Uploads -> Files] /\ file' = [file EXCEPT ![u] = f]
    BY DEF UploadInv, BlobsTypeOK
<1>2. file[u].bytes \in Seq(Chunks) /\ n \in Nat
    BY <1>1, FileTyped
<1>3. t.offset = n /\ n < Len(Plan[u]) /\ t.chunk = Plan[u][n + 1] /\ Begun(u)
    BY <1>1 DEF UploadInv, WriteFits, Size
<1>4. t.chunk \in Chunks
    BY <1>1, <1>2, <1>3, PlanTyped
<1>5. f \in Files
    <2>1. Append(file[u].bytes, t.chunk) \in Seq(Chunks)
        BY <1>2, <1>4
    <2>2. [offset |-> t.offset, chunk |-> t.chunk] \in [offset : Nat, chunk : Chunks]
        BY <1>2, <1>3, <1>4
    <2>3. <<[offset |-> t.offset, chunk |-> t.chunk]>> \in Seq([offset : Nat, chunk : Chunks])
        BY <2>2
    <2> QED BY <2>1, <2>3 DEF Files
<1>6. /\ file' \in [Uploads -> Files] /\ file'[u] = f /\ \A v \in Uploads : v # u => file'[v] = file[v]
    BY <1>1, <1>5
<1>7. file'[u].bytes = Append(file[u].bytes, t.chunk)
    BY <1>6
<1>8. /\ Len(file'[u].bytes) = n + 1 /\ file'[u].bytes[n + 1] = t.chunk
      /\ \A k \in 1..n : file'[u].bytes[k] = file[u].bytes[k]
    BY <1>2, <1>4, <1>7
<1>9. \A k \in 1..(n + 1) : file'[u].bytes[k] = Plan[u][k]
    BY <1>2, <1>3, <1>8 DEF Begun
<1>10. n + 1 <= Len(Plan[u])
    BY <1>1, <1>2, <1>3, PlanTyped
<1> HIDE DEF f
<1> QED BY <1>6, <1>8, <1>9, <1>10

(* A write runs, whoever still waits for it.                               *)
LEMMA RunWriteKeeps == ASSUME BlobsIInv, NEW t \in tasks, RunWrite(t) PROVE BlobsIInv'
<1> DEFINE u == t.of
           n == Len(file[u].bytes)
<1>1. /\ t.kind = "write" /\ tasks' = tasks \ {t} /\ UploadInv /\ u \in Uploads /\ table' = table
      /\ UNCHANGED <<objects, verified, visible, named, reads, storeUp>>
    BY DEF RunWrite, BlobsIInv, UploadInv, BlobsTypeOK
<1>2. /\ n \in Nat /\ Begun(u) /\ caller \in [Uploads -> Callers] /\ file \in [Uploads -> Files]
    BY <1>1, FileTyped DEF UploadInv, BlobsTypeOK
<1>3. /\ file' \in [Uploads -> Files] /\ \A v \in Uploads : v # u => file'[v] = file[v]
      /\ Len(file'[u].bytes) \in Nat /\ n <= Len(file'[u].bytes)
      /\ Len(file'[u].bytes) <= Len(Plan[u])
      /\ \A k \in 1..Len(file'[u].bytes) : file'[u].bytes[k] = Plan[u][k]
    <2>1. \/ file' = file
          \/ /\ t.offset = Size(u)
             /\ file' = [file EXCEPT ![u] = [held |-> TRUE, bytes |-> Append(@.bytes, t.chunk),
                                             prev |-> <<[offset |-> t.offset, chunk |-> t.chunk]>>]]
        BY DEF RunWrite, WriteVerdict
    <2>2. CASE file' = file
        BY <1>2, <2>2 DEF Begun
    <2>3. CASE file' # file
        BY <1>1, <1>2, <2>1, <2>3, Written
    <2> QED BY <2>2, <2>3
<1>4. \/ caller' = caller
      \/ caller[u].step = "writing" /\ At(u, "open", Len(file'[u].bytes))
      \/ caller[u].step = "writing" /\ At(u, "failed", 0)
    BY DEF RunWrite, Awaited
<1>5. /\ caller' \in [Uploads -> Callers] /\ \A v \in Uploads : v # u => caller'[v] = caller[v]
      /\ \/ caller'[u] = caller[u]
         \/ /\ caller[u].step = "writing" /\ caller'[u].step \in {"open", "failed"}
            /\ caller'[u].acked <= Len(file'[u].bytes)
    <2>1. CASE caller' = caller
        BY <1>2, <2>1
    <2>2. CASE caller[u].step = "writing" /\ At(u, "open", Len(file'[u].bytes))
        BY <1>1, <1>3, <2>2, AtDoes
    <2>3. CASE caller[u].step = "writing" /\ At(u, "failed", 0)
        BY <1>1, <1>3, <2>3, AtDoes
    <2> QED BY <1>4, <2>1, <2>2, <2>3
<1>6. Begun(u)'
    <2>1. caller'[u].step \in {"open", "writing", "finishing"} => caller'[u].acked <= Len(file'[u].bytes)
        BY <1>1, <1>2, <1>3, <1>5, FileTyped DEF Begun
    <2> QED BY <1>3, <2>1 DEF Begun
<1>7. ASSUME NEW s \in tasks', s.of = u PROVE WriteFits(s) /\ FinishFits(s)'
    <2>1. s \in tasks /\ WriteFits(s) /\ FinishFits(s)
        BY <1>1 DEF UploadInv
    <2>2. CASE s.kind = "finish"
        <3>1. /\ caller[u].step \in {"finishing", "failed"} /\ u \notin table /\ n = Len(Plan[u])
              /\ \A r \in tasks : r.kind = "finish" /\ r.of = u => r = s
            BY <1>7, <2>1, <2>2 DEF FinishFits
        <3>2. caller'[u] = caller[u] /\ Len(file'[u].bytes) = Len(Plan[u])
            BY <1>2, <1>3, <1>5, <3>1
        <3> QED BY <1>1, <1>7, <2>1, <3>1, <3>2 DEF FinishFits
    <2>3. CASE s.kind # "finish"
        BY <2>1, <2>3 DEF FinishFits
    <2> QED BY <2>2, <2>3
<1>8. u \in table' => caller'[u].step # "new"
    BY <1>1, <1>5 DEF UploadInv, TableFits
<1>9. UploadInv'
    BY <1>1, <1>3, <1>5, <1>6, <1>7, <1>8, UploadStep
<1>10. \A v \in Uploads : caller'[v].step = "stored" => caller[v].step = "stored"
    BY <1>5
<1> QED BY <1>1, <1>9, <1>10, ObjectsSame DEF BlobsIInv

-----------------------------------------------------------------------------
(* A file as long as its plan is the plan.                                 *)
LEMMA WholeFile ==
    ASSUME UploadInv, NEW u \in Uploads, Len(file[u].bytes) = Len(Plan[u])
    PROVE  file[u].bytes = Plan[u]
<1>1. file[u].bytes \in Seq(Chunks) /\ Plan[u] \in Seq(Chunks)
    BY FileTyped, PlanTyped
<1>2. \A k \in 1..Len(file[u].bytes) : file[u].bytes[k] = Plan[u][k]
    BY DEF UploadInv, Begun
<1> QED BY <1>1, <1>2, SeqEqual

(* The file of a publication goes, and its caller is told, if it waits.    *)
LEMMA PublishedUpload ==
    ASSUME UploadInv, NEW t \in tasks, t.kind = "finish",
           tasks' = tasks \ {t}, table' = table, file' = [file EXCEPT ![t.of] = Gone],
           caller' \in [Uploads -> Callers],
           \A v \in Uploads : v # t.of => caller'[v] = caller[v],
           caller'[t.of].step \in {"stored", "failed"}
    PROVE  UploadInv'
<1> DEFINE u == t.of
<1>1. u \in Uploads /\ FinishFits(t)
    BY DEF UploadInv, BlobsTypeOK
<1>2. /\ file' \in [Uploads -> Files] /\ file'[u] = Gone
      /\ \A v \in Uploads : v # u => file'[v] = file[v]
    BY <1>1, ConstantFiles DEF UploadInv, BlobsTypeOK
<1>3. Begun(u)'
    BY <1>1, <1>2, ConstantFiles, PlanTyped DEF Begun
<1>4. ASSUME NEW s \in tasks', s.of = u PROVE WriteFits(s) /\ FinishFits(s)'
    <2>1. s \in tasks /\ s # t /\ WriteFits(s)
        BY DEF UploadInv
    <2>2. s.kind # "finish"
        BY <1>1, <1>4, <2>1 DEF FinishFits
    <2> QED BY <2>1, <2>2 DEF FinishFits
<1> QED BY <1>1, <1>2, <1>3, <1>4, UploadStep

(* A publication runs, whoever still waits for it.                         *)
LEMMA PublishKeeps == ASSUME BlobsIInv, NEW t \in tasks, PublishFile(t) PROVE BlobsIInv'
<1> DEFINE u == t.of
           d == file[u].bytes
<1>1. /\ t.kind = "finish" /\ tasks' = tasks \ {t} /\ table' = table /\ storeUp' = storeUp /\ storeUp
      /\ file' = [file EXCEPT ![u] = Gone] /\ UNCHANGED <<named, reads>> /\ UploadInv /\ u \in Uploads
    BY DEF PublishFile, BlobsIInv, UploadInv, BlobsTypeOK
<1>2. /\ d = Plan[u] /\ caller[u].step \in {"finishing", "failed"}
      /\ caller \in [Uploads -> Callers] /\ caller[u].acked \in Nat
    BY <1>1, WholeFile, FileTyped DEF UploadInv, FinishFits, BlobsTypeOK
<1> HIDE DEF d
<1>3. CASE At(u, "failed", 0) /\ UNCHANGED <<objects, verified, visible>>
    <2>1. /\ caller' \in [Uploads -> Callers] /\ caller'[u].step = "failed"
          /\ \A v \in Uploads : v # u => caller'[v] = caller[v]
        BY <1>1, <1>3, AtDoes
    <2>2. UploadInv'
        BY <1>1, <2>1, PublishedUpload
    <2> QED BY <1>1, <1>3, <2>1, <2>2, ObjectsSame DEF BlobsIInv
<1>4. CASE /\ ~(d \in DOMAIN objects /\ ~VerifyFile(d))
           /\ objects' = IF d \in DOMAIN objects THEN objects ELSE Put(objects, d, d)
           /\ verified' = verified \cup {d}
           /\ PutFinished(u, d)
    <2>1. /\ DOMAIN objects' = DOMAIN objects \cup {d} /\ objects'[d] = d
          /\ \A c \in DOMAIN objects : objects'[c] = objects[c]
        <3>1. CASE d \in DOMAIN objects
            BY <1>4, <3>1 DEF VerifyFile, BlobsIInv, VerifiedFits
        <3>2. CASE d \notin DOMAIN objects
            BY <1>4, <3>2 DEF Put
        <3> QED BY <3>1, <3>2
    <2>2. /\ caller' \in [Uploads -> Callers] /\ caller'[u].step \in {"stored", "failed"}
          /\ \A v \in Uploads : v # u => caller'[v] = caller[v]
        <3>1. CASE caller[u].step # "finishing"
            BY <1>2, <1>4, <3>1 DEF PutFinished
        <3>2. CASE caller[u].step = "finishing"
            BY <1>1, <1>2, <1>4, <3>2, AtDoes DEF PutFinished
        <3> QED BY <3>1, <3>2
    <2>3. visible' \in [Instances -> SUBSET (DOMAIN objects \cup {d})]
        <3>1. visible \in [Instances -> SUBSET DOMAIN objects] /\ Owner[u] \in Instances
            BY <1>1, BlobsAssumption DEF BlobsIInv, Stored
        <3>2. visible' = visible \/ visible' = [visible EXCEPT ![Owner[u]] = @ \cup {d}]
            BY <1>4 DEF PutFinished
        <3> QED BY <3>1, <3>2
    <2>4. UploadInv'
        BY <1>1, <2>2, PublishedUpload
    <2>5. VerifiedFits' /\ Stored'
        BY <1>1, <1>4, <2>1, <2>3 DEF BlobsIInv, VerifiedFits, Stored
    <2>6. BlobIsContent'
        <3>1. ASSUME NEW v \in Uploads, caller'[v].step = "stored" PROVE Plan[v] \in DOMAIN objects'
            BY <1>2, <2>1, <2>2, <3>1 DEF BlobsIInv, BlobIsContent
        <3>2. ASSUME NEW c \in DOMAIN objects' PROVE \E v \in Uploads : c = Plan[v]
            BY <1>1, <1>2, <2>1, <3>2 DEF BlobsIInv, BlobIsContent
        <3>3. named \subseteq DOMAIN objects' /\ \A r \in reads : r[2] = r[1]
            BY <2>1 DEF BlobsIInv, BlobIsContent
        <3> QED BY <1>1, <3>1, <3>2, <3>3 DEF BlobIsContent
    <2> QED BY <2>4, <2>5, <2>6 DEF BlobsIInv
<1> QED BY <1>3, <1>4 DEF PublishFile, d

-----------------------------------------------------------------------------
(* A step that touches no upload.                                          *)
LEMMA UploadsSame ==
    ASSUME UploadInv, UNCHANGED <<table, file, tasks, caller>>
    PROVE  UploadInv'
BY DEF UploadInv, BlobsTypeOK, TableFits, Begun, WriteFits, FinishFits

(* Naming, being handed and reading a blob.                                *)
LEMMA UseKeeps ==
    ASSUME BlobsIInv, NEW i \in Instances, Name(i) \/ Reveal(i) \/ Read(i)
    PROVE  BlobsIInv'
<1>1. UNCHANGED <<table, file, tasks, caller, objects, storeUp>> /\ UploadInv'
    BY UploadsSame DEF Name, Reveal, Read, BlobsIInv
<1>2. visible \in [Instances -> SUBSET DOMAIN objects] /\ named \subseteq DOMAIN objects
    BY DEF BlobsIInv, Stored, BlobIsContent
<1>3. visible' \in [Instances -> SUBSET DOMAIN objects] /\ named' \subseteq DOMAIN objects
    <2>1. CASE Name(i)
        BY <1>2, <2>1 DEF Name
    <2>2. CASE Reveal(i)
        BY <1>2, <2>2 DEF Reveal
    <2>3. CASE Read(i)
        BY <1>2, <2>3 DEF Read
    <2> QED BY <2>1, <2>2, <2>3
<1>4. /\ \A d \in verified' : d \in DOMAIN objects /\ objects[d] = d
      /\ \A r \in reads' : r[2] = r[1]
      /\ ~storeUp => verified' = {}
    <2>1. CASE Name(i) \/ Reveal(i)
        BY <2>1 DEF Name, Reveal, BlobsIInv, VerifiedFits, BlobIsContent
    <2>2. CASE Read(i)
        <3>1. PICK d \in visible[i] : /\ VerifyFile(d) /\ verified' = verified \cup {d}
                                       /\ reads' = reads \cup {<<d, objects[d]>>}
            BY <2>2 DEF Read, Visible
        <3>2. d \in DOMAIN objects /\ objects[d] = d
            BY <1>2, <3>1 DEF VerifyFile, BlobsIInv, VerifiedFits
        <3> QED BY <2>2, <3>1, <3>2 DEF Read, BlobsIInv, VerifiedFits, BlobIsContent
    <2> QED BY <2>1, <2>2
<1>5. VerifiedFits' /\ Stored'
    BY <1>1, <1>3, <1>4 DEF VerifiedFits, Stored
<1>6. BlobIsContent'
    BY <1>1, <1>3, <1>4 DEF BlobsIInv, BlobIsContent
<1> QED BY <1>1, <1>5, <1>6 DEF BlobsIInv

(* The process dies; an object rots; the process starts again.             *)
LEMMA CrashKeeps == ASSUME BlobsIInv, StoreCrash PROVE BlobsIInv'
<1>1. /\ table' = {} /\ tasks' = {} /\ file' = [u \in Uploads |-> Gone] /\ verified' = {}
      /\ caller' = [u \in Uploads |-> IF caller[u].step = "stored" THEN caller[u] ELSE NewCaller]
      /\ visible' = [i \in Instances |-> {}] /\ UNCHANGED <<objects, named, reads>>
    BY DEF StoreCrash
<1>2. caller \in [Uploads -> Callers] /\ NewCaller \in Callers /\ NewCaller.step = "new"
    BY DEF BlobsIInv, UploadInv, BlobsTypeOK, Callers, NewCaller
<1>3. /\ caller' \in [Uploads -> Callers]
      /\ \A u \in Uploads : caller'[u].step \in {"stored", "new"}
      /\ \A u \in Uploads : caller'[u].step = "stored" => caller[u].step = "stored"
    BY <1>1, <1>2
<1>4. \A u \in Uploads : Begun(u)'
    BY <1>1, <1>3, ConstantFiles, PlanTyped DEF Begun
<1>5. UploadInv'
    BY <1>1, <1>3, <1>4, ConstantFiles DEF UploadInv, BlobsTypeOK, TableFits
<1>6. VerifiedFits' /\ Stored'
    BY <1>1 DEF VerifiedFits, Stored
<1>7. BlobIsContent'
    BY <1>1, <1>3 DEF BlobsIInv, BlobIsContent
<1> QED BY <1>5, <1>6, <1>7 DEF BlobsIInv

LEMMA RotKeeps == ASSUME BlobsIInv, Rot PROVE BlobsIInv'
<1>1. PICK d \in DOMAIN objects : objects' = [objects EXCEPT ![d] = Damage]
    BY DEF Rot
<1>2. /\ ~storeUp /\ UNCHANGED <<table, file, tasks, caller, verified, visible, named, reads, storeUp>>
      /\ DOMAIN objects' = DOMAIN objects
    BY <1>1 DEF Rot
<1>3. UploadInv'
    BY <1>2, UploadsSame DEF BlobsIInv
<1>4. VerifiedFits' /\ Stored' /\ BlobIsContent'
    BY <1>2 DEF BlobsIInv, VerifiedFits, Stored, BlobIsContent
<1> QED BY <1>3, <1>4 DEF BlobsIInv

LEMMA OpenKeeps == ASSUME BlobsIInv, Open PROVE BlobsIInv'
<1>1. UNCHANGED <<table, file, tasks, caller, objects, verified, visible, named, reads>> /\ storeUp' = TRUE
    BY DEF Open
<1>2. UploadInv'
    BY <1>1, UploadsSame DEF BlobsIInv
<1>3. VerifiedFits' /\ Stored' /\ BlobIsContent'
    BY <1>1 DEF BlobsIInv, VerifiedFits, Stored, BlobIsContent
<1> QED BY <1>2, <1>3 DEF BlobsIInv

-----------------------------------------------------------------------------
LEMMA BlobsInitInv == ASSUME BlobsInit PROVE BlobsIInv
<1>1. NewCaller \in Callers /\ NewCaller.step = "new"
    BY DEF Callers, NewCaller
<1>2. BlobsTypeOK /\ TableFits
    BY <1>1, ConstantFiles DEF BlobsInit, BlobsTypeOK, TableFits
<1>3. \A u \in Uploads : Begun(u)
    BY <1>1, ConstantFiles, PlanTyped DEF BlobsInit, Begun
<1>4. UploadInv
    BY <1>2, <1>3 DEF UploadInv, BlobsInit
<1>5. VerifiedFits /\ Stored
    BY DEF BlobsInit, VerifiedFits, Stored
<1>6. BlobIsContent
    BY <1>1 DEF BlobsInit, BlobIsContent
<1> QED BY <1>4, <1>5, <1>6 DEF BlobsIInv

(* Every step keeps the files the beginnings of their plans.               *)
LEMMA BlobsNextInv == ASSUME BlobsIInv, [BlobsNext]_blobVars PROVE BlobsIInv'
<1>1. CASE \E u \in Uploads : BeginPut(u) \/ Admit(u) \/ Retry(u) \/ AbortPut(u) \/ FinishPut(u)
    BY <1>1, BeginPutKeeps, AdmitKeeps, RetryKeeps, AbortPutKeeps, FinishPutKeeps
<1>2. CASE \E t \in tasks : RunWrite(t) \/ PublishFile(t)
    BY <1>2, RunWriteKeeps, PublishKeeps
<1>3. CASE \E i \in Instances : Name(i) \/ Reveal(i) \/ Read(i)
    BY <1>3, UseKeeps
<1>4. CASE StoreCrash \/ Rot \/ Open
    BY <1>4, CrashKeeps, RotKeeps, OpenKeeps
<1>5. CASE UNCHANGED blobVars
    <2>1. UNCHANGED <<table, file, tasks, caller, objects, verified, visible, named, reads, storeUp>>
        BY <1>5 DEF blobVars
    <2>2. UploadInv'
        BY <2>1, UploadsSame DEF BlobsIInv
    <2>3. VerifiedFits' /\ Stored' /\ BlobIsContent'
        BY <2>1 DEF BlobsIInv, VerifiedFits, Stored, BlobIsContent
    <2> QED BY <2>2, <2>3 DEF BlobsIInv
<1> QED BY <1>1, <1>2, <1>3, <1>4, <1>5 DEF BlobsNext

(* Whatever is cancelled, asked again, aborted while its tasks run, lost   *)
(* in a crash or damaged on disk, an object is stored under the digest of  *)
(* what some caller meant to write, a caller told that its blob is stored  *)
(* and an event that names one can rely on it, and a read returns the      *)
(* content or fails (FileUpload::write, finish_put, verify_file).          *)
THEOREM BlobsAreContent == BlobsSpec => []BlobIsContent
<1>1. BlobsInit => BlobsIInv
    BY BlobsInitInv
<1>2. BlobsIInv /\ [BlobsNext]_blobVars => BlobsIInv'
    BY BlobsNextInv
<1>3. BlobsIInv => BlobIsContent
    BY DEF BlobsIInv
<1> QED BY <1>1, <1>2, <1>3, PTL DEF BlobsSpec

-----------------------------------------------------------------------------
(***************************************************************************)
(* Every hop of an outgoing request stays within the component's grant,    *)
(* and credentials stay out once a redirect has left the first origin: for *)
(* any origins, grants, limits and answers of the servers.                 *)
(***************************************************************************)

Verbs == {"GET", "POST"}
Addresses == {"none", "public", "private"}
Hop == [origin : Origins, method : Verbs, body : BOOLEAN, secret : BOOLEAN, address : Addresses]

HttpHostTypeOK ==
    /\ grant \in HttpGrants
    /\ request \in [origin : Origins, method : Verbs, body : {0, 1, 2}]
    /\ url \in Origins /\ method \in Verbs /\ body \in BOOLEAN /\ strip \in BOOLEAN
    /\ redirects \in Nat /\ address \in Addresses /\ hops \in Seq(Hop)
    /\ step \in {"prepare", "validate", "resolve", "send", "respond", "store", "done"}

(* One hop for the request and one for each redirect, the next one still   *)
(* to be sent before a response.                                           *)
Counted ==
    /\ redirects <= grant.redirects
    /\ Len(hops) <= redirects + 1
    /\ step \in {"prepare", "validate", "resolve", "send"} => Len(hops) <= redirects

(* What is sent next was checked after the last redirect.                  *)
Checked ==
    /\ step \in {"resolve", "send"} => Granted(url, method)
    /\ step = "send" => address = "public" \/ grant.private

(* While the credentials are sent, no hop has left the first origin.       *)
AtHome == ~strip => url = request.origin /\ \A j \in 1..Len(hops) : hops[j].origin = request.origin

HopConfined(i) ==
    /\ Granted(hops[i].origin, hops[i].method)
    /\ hops[i].address = "public" \/ grant.private
    /\ hops[i].secret => \A j \in 1..i : hops[j].origin = request.origin

HttpHostIInv == HttpHostTypeOK /\ Counted /\ Checked /\ AtHome /\ \A i \in 1..Len(hops) : HopConfined(i)

-----------------------------------------------------------------------------
(* A step that sends nothing, redirects nowhere and is not about to send.  *)
LEMMA Stays ==
    ASSUME HttpHostIInv, UNCHANGED <<grant, request, url, method, body, strip, redirects, address, hops>>,
           step' \in {step, "validate", "respond", "store", "done"},
           step' = "validate" => step = "prepare"
    PROVE  HttpHostIInv'
<1>1. HttpHostTypeOK' /\ Counted'
    BY DEF HttpHostIInv, HttpHostTypeOK, Counted
<1>2. Checked' /\ AtHome'
    BY DEF HttpHostIInv, Checked, AtHome, Granted
<1>3. \A i \in 1..Len(hops) : HopConfined(i)'
    BY DEF HttpHostIInv, HopConfined, Granted
<1> QED BY <1>1, <1>2, <1>3 DEF HttpHostIInv

(* The destination is checked against the grant.                           *)
LEMMA ValidateKeeps == HttpHostIInv /\ Validate => HttpHostIInv'
<1> SUFFICES ASSUME HttpHostIInv, Validate PROVE HttpHostIInv'
    OBVIOUS
<1>1. HttpHostTypeOK' /\ Counted'
    BY DEF Validate, Return, HttpHostIInv, HttpHostTypeOK, Counted
<1>2. Checked' /\ AtHome'
    BY DEF Validate, Return, HttpHostIInv, Checked, AtHome, Granted
<1>3. \A i \in 1..Len(hops) : HopConfined(i)'
    BY DEF Validate, HttpHostIInv, HopConfined, Granted
<1> QED BY <1>1, <1>2, <1>3 DEF Validate, HttpHostIInv

(* Its address is checked, and is the one the client connects to.          *)
LEMMA ResolveKeeps == HttpHostIInv /\ Resolve => HttpHostIInv'
<1> SUFFICES ASSUME HttpHostIInv, Resolve PROVE HttpHostIInv'
    OBVIOUS
<1>1. HttpHostTypeOK' /\ Counted'
    BY DEF Resolve, Return, HttpHostIInv, HttpHostTypeOK, Counted, Addresses
<1>2. Checked' /\ AtHome'
    BY DEF Resolve, Return, HttpHostIInv, Checked, AtHome, Granted
<1>3. \A i \in 1..Len(hops) : HopConfined(i)'
    BY DEF Resolve, HttpHostIInv, HopConfined, Granted
<1> QED BY <1>1, <1>2, <1>3 DEF Resolve, HttpHostIInv

(* What is sent was checked.                                               *)
LEMMA SendKeeps == HttpHostIInv /\ Send => HttpHostIInv'
<1> SUFFICES ASSUME HttpHostIInv, Send PROVE HttpHostIInv'
    OBVIOUS
<1> DEFINE h == [origin |-> url, method |-> method, body |-> body,
                 secret |-> ~strip, address |-> address]
<1>1. /\ h \in Hop /\ hops \in Seq(Hop) /\ Len(hops) \in Nat
      /\ hops' = Append(hops, h) /\ step = "send" /\ step' = "respond"
      /\ UNCHANGED <<grant, request, url, method, body, strip, redirects, address>>
    BY DEF Send, Headers, HttpHostIInv, HttpHostTypeOK, Hop
<1>2. /\ hops' \in Seq(Hop) /\ Len(hops') = Len(hops) + 1 /\ hops'[Len(hops) + 1] = h
      /\ \A i \in 1..Len(hops) : hops'[i] = hops[i]
      /\ \A i \in 1..Len(hops') : i \in 1..Len(hops) \/ i = Len(hops) + 1
    BY <1>1
<1>3. /\ h.origin = url /\ h.method = method /\ h.address = address /\ (h.secret => ~strip)
    OBVIOUS
<1> HIDE DEF h
<1>4. HttpHostTypeOK' /\ Counted'
    BY <1>1, <1>2 DEF HttpHostIInv, HttpHostTypeOK, Counted
<1>5. Checked' /\ AtHome'
    BY <1>1, <1>2, <1>3 DEF HttpHostIInv, Checked, AtHome
<1>6. ASSUME NEW i \in 1..Len(hops') PROVE HopConfined(i)'
    <2>1. CASE i \in 1..Len(hops)
        <3>1. \A j \in 1..i : j \in 1..Len(hops)
            BY <1>1, <2>1
        <3>2. HopConfined(i) /\ hops'[i] = hops[i] /\ \A j \in 1..i : hops'[j] = hops[j]
            BY <1>2, <2>1, <3>1 DEF HttpHostIInv
        <3> QED BY <1>1, <3>2 DEF HopConfined, Granted
    <2>2. CASE i = Len(hops) + 1
        <3>1. Granted(h.origin, h.method) /\ (h.address = "public" \/ grant.private)
            BY <1>1, <1>3 DEF HttpHostIInv, Checked
        <3>2. h.secret => \A j \in 1..i : hops'[j].origin = request.origin
            BY <1>2, <1>3, <2>2 DEF HttpHostIInv, AtHome
        <3> QED BY <1>1, <1>2, <2>2, <3>1, <3>2 DEF HopConfined, Granted
    <2> QED BY <1>2, <2>1, <2>2
<1> QED BY <1>4, <1>5, <1>6 DEF HttpHostIInv

(* A redirect is counted, checked again, and takes the credentials out     *)
(* when it leaves the origin.                                              *)
LEMMA RedirectKeeps ==
    ASSUME \A g \in HttpGrants : g.redirects \in Nat, HttpHostIInv, Redirect
    PROVE  HttpHostIInv'
<1>1. /\ step = "respond" /\ UNCHANGED <<grant, request, address, hops>>
      /\ \/ step' = "done" /\ UNCHANGED <<url, method, body, strip, redirects>>
         \/ /\ redirects # grant.redirects /\ redirects' = redirects + 1 /\ step' = "validate"
            /\ url' \in Origins /\ strip' = (strip \/ url' # url)
            /\ \/ method' = "GET" /\ body' = FALSE
               \/ UNCHANGED <<method, body>>
    BY DEF Redirect, Return, Strip
<1>2. HttpHostTypeOK'
    <2>1. redirects' \in Nat /\ url' \in Origins /\ method' \in Verbs
        BY <1>1 DEF HttpHostIInv, HttpHostTypeOK, Verbs
    <2>2. strip' \in BOOLEAN
        BY <1>1, Zenon DEF HttpHostIInv, HttpHostTypeOK
    <2>3. body' \in BOOLEAN
        BY <1>1, Zenon DEF HttpHostIInv, HttpHostTypeOK
    <2>4. step' \in {"validate", "done"}
        BY <1>1
    <2> QED BY <1>1, <2>1, <2>2, <2>3, <2>4 DEF HttpHostIInv, HttpHostTypeOK
<1>3. Counted'
    <2>1. grant.redirects \in Nat /\ redirects \in Nat /\ Len(hops) \in Nat /\ redirects <= grant.redirects
        BY DEF HttpHostIInv, HttpHostTypeOK, Counted
    <2>2. step = "respond" /\ Len(hops) <= redirects + 1
        BY <1>1 DEF HttpHostIInv, Counted
    <2>3. CASE step' = "done" /\ redirects' = redirects
        BY <1>1, <2>1, <2>2, <2>3 DEF Counted
    <2>4. CASE redirects # grant.redirects /\ redirects' = redirects + 1
        BY <1>1, <2>1, <2>2, <2>4 DEF Counted
    <2> QED BY <1>1, <2>3, <2>4
<1>4. Checked' /\ AtHome'
    <2>1. CASE step' = "done" /\ UNCHANGED <<url, method, body, strip, redirects>>
        BY <1>1, <2>1 DEF HttpHostIInv, Checked, AtHome
    <2>2. CASE step' = "validate" /\ strip' = (strip \/ url' # url)
        BY <1>1, <2>2 DEF HttpHostIInv, Checked, AtHome
    <2> QED BY <1>1, <2>1, <2>2
<1>5. \A i \in 1..Len(hops) : HopConfined(i)'
    BY <1>1 DEF HttpHostIInv, HopConfined, Granted
<1> QED BY <1>1, <1>2, <1>3, <1>4, <1>5 DEF HttpHostIInv

-----------------------------------------------------------------------------
(* No hop is sent at first.                                                *)
LEMMA HttpHostInitInv ==
    ASSUME \A g \in HttpGrants : g.redirects \in Nat, HttpHostInit
    PROVE  HttpHostIInv
<1>1. HttpHostTypeOK
    <2>1. url \in Origins /\ method \in Verbs /\ redirects \in Nat /\ hops \in Seq(Hop)
        BY DEF HttpHostInit, Verbs
    <2>2. strip \in BOOLEAN
        BY DEF HttpHostInit
    <2>3. body \in BOOLEAN
        <3>1. body = (request.body > 0)
            BY DEF HttpHostInit
        <3>2. (request.body > 0) \in BOOLEAN
            BY SMT
        <3> QED BY <3>1, <3>2, Zenon
    <2> QED BY <2>1, <2>2, <2>3 DEF HttpHostInit, HttpHostTypeOK, Verbs, Addresses
<1>2. Counted /\ Len(hops) = 0
    <2>1. grant.redirects \in Nat
        BY <1>1 DEF HttpHostTypeOK
    <2> QED BY <2>1 DEF HttpHostInit, Counted
<1>3. Checked /\ AtHome
    BY <1>2 DEF HttpHostInit, Checked, AtHome
<1> QED BY <1>1, <1>2, <1>3 DEF HttpHostIInv

(* Every step keeps the hops within the grant.                             *)
LEMMA HttpHostNextInv ==
    ASSUME \A g \in HttpGrants : g.redirects \in Nat, HttpHostIInv, [HttpHostNext]_httpHostVars
    PROVE  HttpHostIInv'
<1>1. CASE Prepare \/ Respond \/ Store \/ Abandon \/ Abort
    <2>1. /\ UNCHANGED <<grant, request, url, method, body, strip, redirects, address, hops>>
          /\ step' \in {step, "validate", "respond", "store", "done"}
          /\ step' = "validate" => step = "prepare"
        BY <1>1 DEF Prepare, Respond, Store, Abandon, Abort, Return, HttpHostIInv, HttpHostTypeOK
    <2> QED BY <2>1, Stays
<1>2. CASE UNCHANGED httpHostVars
    BY <1>2 DEF httpHostVars, HttpHostIInv, HttpHostTypeOK, Counted, Checked, AtHome, HopConfined, Granted
<1> QED BY <1>1, <1>2, ValidateKeeps, ResolveKeeps, SendKeeps, RedirectKeeps DEF HttpHostNext

(* Whatever the servers answer, every hop was granted, by its origin, its  *)
(* method and its address, no more redirects are followed than the grant   *)
(* allows, and a hop that carries credentials comes before any that leaves *)
(* the first origin (send_request, redirect handling).                     *)
THEOREM Confined == HttpHostSpec => []HopsConfined
<1>1. \A g \in HttpGrants : g.redirects \in Nat
    BY HttpHostAssumption
<1>2. HttpHostInit => HttpHostIInv
    BY <1>1, HttpHostInitInv
<1>3. HttpHostIInv /\ [HttpHostNext]_httpHostVars => HttpHostIInv'
    BY <1>1, HttpHostNextInv
<1>4. HttpHostIInv => HopsConfined
    <2>1. HttpHostIInv => Len(hops) <= grant.redirects + 1
        BY <1>1 DEF HttpHostIInv, HttpHostTypeOK, Counted
    <2> QED BY <2>1 DEF HttpHostIInv, HopConfined, HopsConfined
<1> QED BY <1>2, <1>3, <1>4, PTL DEF HttpHostSpec

-----------------------------------------------------------------------------
(***************************************************************************)
(* A completion is the whole reply.  The connection is read in pieces of   *)
(* any size, which need not end where a record does; it may break off, the *)
(* agent may restart: what a plugin has accumulated is what the records it *)
(* applied say, and only a reply that is over becomes a completion.        *)
(***************************************************************************)

(* What a plugin has accumulated is what the records it applied say.       *)
Partials == [text : Seq(Nat), call : {<< >>, << Tools[tool] >>}, args : Nat, finish : BOOLEAN,
             pending : Seq(Nat), batch : Nat, outcome : {"going", "terminal", "failed"}]
Accumulated(st, n) ==
    /\ st \in Partials
    /\ Ascending(st.text, SaidText(n))
    /\ st.call = IF Said({"call"}, n) = {} THEN << >> ELSE << Tools[tool] >>
    /\ vendor = "openrouter" => st.args = Cardinality(Said({"args"}, n))
    /\ vendor = "codex" /\ st.call # << >> => st.args = Fragments
    /\ st.finish => \E i \in 1 .. n : reply[i] = "stop"

Wire == RecordBytes * Len(reply)
ModelTypeOK ==
    /\ vendor \in {"codex", "openrouter"} /\ reply \in ServerReplies /\ tool \in 1 .. Len(Tools)
    /\ callPhase \in {"idle", "reading", "parsing"}
    /\ sent \in 0 .. Wire /\ got \in 0 .. Wire /\ frames \in Seq(0 .. Wire)
Parsing ==
    /\ callPhase # "idle" => parsed \in 0 .. Len(reply) /\ partial.outcome = "going" /\ Accumulated(partial, parsed)
    /\ callPhase = "reading" => parsed = Complete(got)
ModelIInv == ModelTypeOK /\ Parsing /\ CompletionIsWhole

LEMMA ReplyIs ==
    ASSUME reply \in ServerReplies
    PROVE  /\ reply \in Seq(RecordKinds) /\ Len(reply) \in Nat /\ Wire \in Nat
           /\ \A i, j \in 1 .. Len(reply) : i < j /\ reply[i] \in {"stop", "done"}
                => reply[j] \notin {"text", "wide", "call", "args"}
BY ModelAssumption DEF Wire, RecordBytes

LEMMA SaidFinite ==
    ASSUME NEW kinds, NEW n \in Nat
    PROVE  IsFiniteSet(Said(kinds, n)) /\ Cardinality(Said(kinds, n)) \in Nat
<1>1. IsFiniteSet(1 .. n)
    BY FS_Interval
<1>2. IsFiniteSet(Said(kinds, n))
    BY <1>1, FS_Subset DEF Said
<1> QED BY <1>2, FS_CardinalityType

LEMMA SaidNext ==
    ASSUME NEW kinds, NEW n \in Nat
    PROVE  Said(kinds, n + 1) = IF reply[n + 1] \in kinds THEN Said(kinds, n) \cup {n + 1} ELSE Said(kinds, n)
BY DEF Said

(* A reply that is over says nothing more.                                 *)
LEMMA SaidAll ==
    ASSUME reply \in ServerReplies, NEW n \in 0 .. Len(reply), NEW e \in 1 .. n, reply[e] \in {"stop", "done"},
           NEW kinds \in SUBSET {"text", "wide", "call", "args"}
    PROVE  Said(kinds, n) = Said(kinds, Len(reply))
<1>1. Len(reply) \in Nat
    BY ReplyIs
<1>2. ASSUME NEW i \in 1 .. Len(reply), reply[i] \in kinds PROVE i \in 1 .. n
    <2>1. ~(e < i)
        <3>1. e \in 1 .. Len(reply)
            BY <1>1
        <3>2. reply[i] \in {"text", "wide", "call", "args"}
            BY <1>2
        <3> QED BY <1>2, <3>1, <3>2, ReplyIs
    <2> QED BY <1>1, <1>2, <2>1
<1> QED BY <1>1, <1>2 DEF Said

LEMMA OriginalName ==
    ASSUME tool \in 1 .. Len(Tools)
    PROVE  Original(ProviderTool(tool)) = Tools[tool]
<1>1. \A i : ProviderTool(i)[2] = i
    BY DEF ProviderTool
<1>2. {i \in 1 .. Len(Tools) : ProviderTool(i) = ProviderTool(tool)} = {tool}
    BY <1>1
<1>3. Len(Tools) \in Nat
    BY ModelAssumption
<1>4. (CHOOSE i \in {tool} : \A j \in {tool} : j <= i) = tool
    BY <1>3
<1> QED BY <1>2, <1>4 DEF Original

LEMMA AppendAscending ==
    ASSUME NEW s \in Seq(Nat), NEW S, Ascending(s, S), NEW k \in Nat, \A x \in S : x < k
    PROVE  Ascending(Append(s, k), S \cup {k})
<1>1. PICK t : t = Append(s, k)
    OBVIOUS
<1>2. Len(t) = Len(s) + 1 /\ t[Len(s) + 1] = k /\ Len(s) \in Nat /\ \A i \in 1 .. Len(s) : t[i] = s[i] /\ s[i] \in S
    BY <1>1 DEF Ascending
<1>3. {t[i] : i \in 1 .. Len(t)} = S \cup {k}
    <2>1. {s[i] : i \in 1 .. Len(s)} = S
        BY DEF Ascending
    <2>2. 1 .. Len(t) = (1 .. Len(s)) \cup {Len(s) + 1}
        BY <1>2
    <2>3. ASSUME NEW x \in {t[i] : i \in 1 .. Len(t)} PROVE x \in S \cup {k}
        BY <1>2, <2>2
    <2>4. ASSUME NEW x \in S \cup {k} PROVE x \in {t[i] : i \in 1 .. Len(t)}
        BY <1>2, <2>1, <2>2
    <2> QED BY <2>3, <2>4
<1>4. ASSUME NEW i \in 1 .. Len(t), NEW j \in 1 .. Len(t), i < j PROVE t[i] < t[j]
    <2>1. CASE j = Len(s) + 1
        <3>1. i \in 1 .. Len(s)
            BY <1>2, <1>4, <2>1
        <3> QED BY <1>2, <2>1, <3>1
    <2>2. CASE j \in 1 .. Len(s)
        <3>1. i \in 1 .. Len(s)
            BY <1>2, <1>4, <2>2
        <3>2. s[i] < s[j]
            BY <1>4, <2>2, <3>1 DEF Ascending
        <3> QED BY <1>2, <2>2, <3>1, <3>2
    <2> QED BY <1>2, <2>1, <2>2
<1> QED BY <1>1, <1>3, <1>4 DEF Ascending

(* One record.                                                             *)
Applied(st, t, n, k) ==
    /\ t \in Partials
    /\ t.text = IF k \in {"text", "wide"} THEN Append(st.text, n) ELSE st.text
    /\ t.call = IF k = "call" THEN << Tools[tool] >> ELSE st.call
    /\ vendor = "codex" => t.args = IF k = "call" THEN Fragments ELSE st.args
    /\ vendor = "openrouter" => t.args = IF k = "args" THEN st.args + 1 ELSE st.args
    /\ t.finish => st.finish \/ k = "stop"
    /\ t.outcome = "terminal" => k \in {"stop", "done"}

LEMMA EventApplied ==
    ASSUME vendor = "codex", NEW st \in Partials, st.outcome = "going", NEW n \in Nat, NEW k \in RecordKinds,
           reply[n] = k, Fragments \in Nat, Original(ProviderTool(tool)) = Tools[tool]
    PROVE  Applied(st, ProcessEvent(st, n), n, k)
<1> USE DEF Partials
<1>0. /\ st.text \in Seq(Nat) /\ st.pending \in Seq(Nat) /\ Append(st.text, n) \in Seq(Nat) /\ Append(st.pending, n) \in Seq(Nat)
    OBVIOUS
<1>1. CASE k \in {"text", "wide"}
    <2>1. ProcessEvent(st, n) = [Delta(st, n) EXCEPT !.text = Append(@, n)]
        BY <1>1 DEF ProcessEvent
    <2> QED BY <1>0, <1>1, <2>1 DEF Applied, Delta
<1>2. CASE k = "call"
    <2>1. ProcessEvent(st, n) = ParseToolCall(st)
        BY <1>2 DEF ProcessEvent
    <2> QED BY <1>0, <1>2, <2>1 DEF Applied, ParseToolCall
<1>3. CASE k = "args"
    <2>1. ProcessEvent(st, n) = Delta(st, n)
        BY <1>3 DEF ProcessEvent
    <2> QED BY <1>0, <1>3, <2>1 DEF Applied, Delta
<1>4. CASE k = "stop"
    <2>1. ProcessEvent(st, n) = [Delta(st, n) EXCEPT !.outcome = "terminal"]
        BY <1>4 DEF ProcessEvent
    <2> QED BY <1>0, <1>4, <2>1 DEF Applied, Delta
<1>5. CASE k = "error"
    <2>1. ProcessEvent(st, n) = [st EXCEPT !.outcome = "failed"]
        BY <1>5 DEF ProcessEvent
    <2> QED BY <1>0, <1>5, <2>1 DEF Applied
<1>6. CASE k \in {"comment", "done"}
    <2>1. ProcessEvent(st, n) = st
        BY <1>6 DEF ProcessEvent
    <2> QED BY <1>0, <1>6, <2>1 DEF Applied
<1> QED BY <1>1, <1>2, <1>3, <1>4, <1>5, <1>6 DEF RecordKinds

LEMMA ChunkApplied ==
    ASSUME vendor = "openrouter", NEW st \in Partials, st.outcome = "going", NEW n \in Nat, NEW k \in RecordKinds,
           reply[n] = k, Original(ProviderTool(tool)) = Tools[tool]
    PROVE  Applied(st, ProcessChunk(st, n), n, k)
<1> USE DEF Partials
<1>0. /\ st.text \in Seq(Nat) /\ st.pending \in Seq(Nat) /\ Append(st.text, n) \in Seq(Nat) /\ Append(st.pending, n) \in Seq(Nat)
    OBVIOUS
<1>1. CASE k \in {"text", "wide"}
    <2>1. ProcessChunk(st, n) = [Delta(st, n) EXCEPT !.text = Append(@, n)]
        BY <1>1 DEF ProcessChunk
    <2> QED BY <1>0, <1>1, <2>1 DEF Applied, Delta
<1>2. CASE k = "call"
    <2>1. ProcessChunk(st, n) = [Delta(st, n) EXCEPT !.call = << Original(ProviderTool(tool)) >>]
        BY <1>2 DEF ProcessChunk, AccumulateCall
    <2> QED BY <1>0, <1>2, <2>1 DEF Applied, Delta
<1>3. CASE k = "args"
    <2>1. ProcessChunk(st, n) = [Delta(st, n) EXCEPT !.args = @ + 1]
        BY <1>3 DEF ProcessChunk, AccumulateCall
    <2>2. PICK a \in Nat : a = st.args + 1
        OBVIOUS
    <2>3. ProcessChunk(st, n) = [Delta(st, n) EXCEPT !.args = a]
        BY <2>1, <2>2 DEF Delta
    <2> QED BY <1>0, <1>3, <2>2, <2>3 DEF Applied, Delta
<1>4. CASE k = "stop"
    <2>1. ProcessChunk(st, n) = [st EXCEPT !.finish = TRUE]
        BY <1>4 DEF ProcessChunk
    <2> QED BY <1>0, <1>4, <2>1 DEF Applied
<1>5. CASE k = "done"
    <2>1. ProcessChunk(st, n) = [st EXCEPT !.outcome = "terminal"]
        BY <1>5 DEF ProcessChunk
    <2> QED BY <1>0, <1>5, <2>1 DEF Applied
<1>6. CASE k = "error"
    <2>1. ProcessChunk(st, n) = [st EXCEPT !.outcome = "failed"]
        BY <1>6 DEF ProcessChunk
    <2> QED BY <1>0, <1>6, <2>1 DEF Applied
<1>7. CASE k = "comment"
    <2>1. ProcessChunk(st, n) = st
        BY <1>7 DEF ProcessChunk
    <2> QED BY <1>0, <1>7, <2>1 DEF Applied
<1> QED BY <1>1, <1>2, <1>3, <1>4, <1>5, <1>6, <1>7 DEF RecordKinds

LEMMA ProcessKeeps ==
    ASSUME ModelTypeOK, NEW n \in Nat, n < Len(reply), NEW st, st.outcome = "going", Accumulated(st, n)
    PROVE  /\ Accumulated(Process(st, n + 1), n + 1)
           /\ Process(st, n + 1).outcome = "terminal" => reply[n + 1] \in {"stop", "done"}
<1>1. PICK t : t = Process(st, n + 1)
    OBVIOUS
<1>2. PICK k \in RecordKinds : k = reply[n + 1]
    <2>1. n + 1 \in 1 .. Len(reply) /\ reply \in Seq(RecordKinds)
        BY ReplyIs DEF ModelTypeOK
    <2> QED BY <2>1
<1>3. /\ st \in Partials /\ Ascending(st.text, SaidText(n))
      /\ st.call = IF Said({"call"}, n) = {} THEN << >> ELSE << Tools[tool] >>
      /\ vendor = "openrouter" => st.args = Cardinality(Said({"args"}, n))
      /\ vendor = "codex" /\ st.call # << >> => st.args = Fragments
      /\ st.finish => \E i \in 1 .. n : reply[i] = "stop"
    BY DEF Accumulated
<1>4. /\ vendor \in {"codex", "openrouter"} /\ Fragments \in Nat
      /\ Original(ProviderTool(tool)) = Tools[tool]
    BY OriginalName, ReplyIs, SaidFinite DEF ModelTypeOK, Fragments
<1>5. Applied(st, t, n + 1, k)
    <2>1. CASE vendor = "codex"
        <3>1. t = ProcessEvent(st, n + 1)
            BY <1>1, <2>1 DEF Process
        <3> QED BY <1>2, <1>3, <1>4, <2>1, <3>1, EventApplied
    <2>2. CASE vendor = "openrouter"
        <3>1. t = ProcessChunk(st, n + 1)
            BY <1>1, <2>2 DEF Process
        <3> QED BY <1>2, <1>3, <1>4, <2>2, <3>1, ChunkApplied
    <2> QED BY <1>4, <2>1, <2>2
<1>6. Ascending(t.text, SaidText(n + 1))
    <2>1. CASE k \in {"text", "wide"}
        <3>1. SaidText(n + 1) = SaidText(n) \cup {n + 1}
            BY <1>2, <2>1, SaidNext DEF SaidText
        <3>2. \A x \in SaidText(n) : x < n + 1
            BY DEF SaidText, Said
        <3>3. PICK s \in Seq(Nat) : s = st.text
            BY <1>3 DEF Partials
        <3>4. Ascending(Append(s, n + 1), SaidText(n) \cup {n + 1})
            BY <1>3, <3>2, <3>3, AppendAscending
        <3> QED BY <1>5, <2>1, <3>1, <3>3, <3>4 DEF Applied
    <2>2. CASE k \notin {"text", "wide"}
        <3>1. SaidText(n + 1) = SaidText(n)
            BY <1>2, <2>2, SaidNext DEF SaidText
        <3> QED BY <1>3, <1>5, <2>2, <3>1 DEF Applied
    <2> QED BY <2>1, <2>2
<1>7. t.call = IF Said({"call"}, n + 1) = {} THEN << >> ELSE << Tools[tool] >>
    <2>1. Said({"call"}, n + 1) = IF k = "call" THEN Said({"call"}, n) \cup {n + 1} ELSE Said({"call"}, n)
        BY <1>2, SaidNext
    <2> QED BY <1>3, <1>5, <2>1 DEF Applied
<1>8. ASSUME vendor = "openrouter" PROVE t.args = Cardinality(Said({"args"}, n + 1))
    <2>1. Said({"args"}, n + 1) = IF k = "args" THEN Said({"args"}, n) \cup {n + 1} ELSE Said({"args"}, n)
        BY <1>2, SaidNext
    <2>2. IsFiniteSet(Said({"args"}, n)) /\ n + 1 \notin Said({"args"}, n)
        <3>1. n + 1 \notin Said({"args"}, n)
            BY DEF Said
        <3> QED BY <3>1, SaidFinite
    <2>3. Cardinality(Said({"args"}, n) \cup {n + 1}) = Cardinality(Said({"args"}, n)) + 1
        BY <2>2, FS_AddElement
    <2> QED BY <1>3, <1>5, <1>8, <2>1, <2>3 DEF Applied
<1>9. vendor = "codex" /\ t.call # << >> => t.args = Fragments
    BY <1>3, <1>5 DEF Applied
<1>10. t.finish => \E i \in 1 .. n + 1 : reply[i] = "stop"
    BY <1>2, <1>3, <1>5 DEF Applied
<1>11. Accumulated(t, n + 1)
    BY <1>5, <1>6, <1>7, <1>8, <1>9, <1>10 DEF Accumulated, Applied
<1> QED BY <1>1, <1>2, <1>5, <1>11 DEF Applied

(* A reply that is over was accumulated whole.                             *)
LEMMA WholeWhenOver ==
    ASSUME ModelTypeOK, NEW n \in 0 .. Len(reply), NEW st, Accumulated(st, n),
           NEW e \in 1 .. n, reply[e] \in {"stop", "done"},
           NEW c, c = IF vendor = "codex" THEN FinishResponse(st) ELSE FinishChunks(st)
    PROVE  Ascending(c.text, SaidText(Len(reply))) /\ c.call = SaidCall(Len(reply))
<1>1. reply \in ServerReplies /\ vendor \in {"codex", "openrouter"}
    BY DEF ModelTypeOK
<1>2. SaidText(n) = SaidText(Len(reply))
    BY <1>1, SaidAll DEF SaidText
<1>3. Said({"call"}, n) = Said({"call"}, Len(reply)) /\ Said({"args"}, n) = Said({"args"}, Len(reply))
    BY <1>1, SaidAll
<1>4. /\ st \in Partials /\ Ascending(st.text, SaidText(n))
      /\ st.call = IF Said({"call"}, n) = {} THEN << >> ELSE << Tools[tool] >>
      /\ vendor = "openrouter" => st.args = Cardinality(Said({"args"}, n))
      /\ vendor = "codex" /\ st.call # << >> => st.args = Fragments
    BY DEF Accumulated
<1>5. st.call # << >> => st.args = Fragments
    BY <1>1, <1>3, <1>4 DEF Fragments
<1>6. (IF st.call = << >> THEN << >> ELSE << st.call[1], st.args >>) = SaidCall(Len(reply))
    BY <1>3, <1>4, <1>5 DEF SaidCall
<1>7. CASE vendor = "openrouter"
    BY <1>2, <1>4, <1>6, <1>7 DEF FinishChunks
<1>8. CASE vendor = "codex"
    <2>1. c.text = IF st.text = << >> THEN Ordered(SaidText(Len(reply))) ELSE st.text
        BY <1>8 DEF FinishResponse
    <2>2. c.call = SaidCall(Len(reply))
        BY <1>6, <1>8 DEF FinishResponse
    <2>3. ASSUME st.text = << >> PROVE Ascending(Ordered(SaidText(Len(reply))), SaidText(Len(reply)))
        <3>1. SaidText(Len(reply)) = {}
            BY <1>2, <1>4, <2>3 DEF Ascending
        <3>2. Ascending(<< >>, {}) /\ << >> \in [1 .. 0 -> {}]
            BY DEF Ascending
        <3>3. Cardinality({}) = 0
            BY FS_EmptySet
        <3>4. Ascending(Ordered({}), {})
            BY <3>2, <3>3 DEF Ordered
        <3> QED BY <3>1, <3>4
    <2> QED BY <1>2, <1>4, <2>1, <2>2, <2>3
<1> QED BY <1>1, <1>7, <1>8

LEMMA Flushed ==
    ASSUME NEW st, NEW n, Accumulated(st, n), Flush(st), UNCHANGED << vendor, reply, tool >>
    PROVE  partial'.outcome = st.outcome /\ Accumulated(partial, n)'
<1>1. PICK t : t = partial'
    OBVIOUS
<1>2. t = IF st.pending = << >> THEN st ELSE [st EXCEPT !.pending = << >>, !.batch = @ + 1]
    BY <1>1 DEF Flush
<1>3. st \in Partials
    BY DEF Accumulated
<1>4. /\ t \in Partials /\ t.text = st.text /\ t.call = st.call /\ t.args = st.args
      /\ t.finish = st.finish /\ t.outcome = st.outcome
    <2>1. CASE st.pending = << >>
        BY <1>2, <1>3, <2>1
    <2>2. CASE st.pending # << >>
        <3>1. PICK b \in Nat : b = st.batch + 1
            BY <1>3 DEF Partials
        <3>2. t = [st EXCEPT !.pending = << >>, !.batch = b]
            BY <1>2, <2>2, <3>1
        <3>3. << >> \in Seq(Nat)
            OBVIOUS
        <3> QED BY <1>3, <3>2, <3>3 DEF Partials
    <2> QED BY <2>1, <2>2
<1>5. Accumulated(t, n)
    BY <1>4 DEF Accumulated
<1> QED BY <1>1, <1>4, <1>5 DEF Accumulated, Partials, SaidText, Said, Fragments

(* What is complete of the bytes received is in the reply.                 *)
LEMMA CompleteIs ==
    ASSUME NEW g \in Nat, NEW m \in Nat, g <= RecordBytes * m
    PROVE  /\ Complete(g) \in 0 .. m
           /\ g % RecordBytes > 1 => Complete(g) < m
BY DEF Complete, RecordBytes

LEMMA CallInit ==
    ASSUME ModelInit
    PROVE  ModelIInv
<1>1. ModelTypeOK
    BY ReplyIs DEF ModelInit, ModelTypeOK, Wire
<1> QED BY <1>1 DEF ModelInit, ModelIInv, Parsing, CompletionIsWhole

(* A step that ends the call without a completion, or leaves it idle.      *)
LEMMA ClosedKeeps ==
    ASSUME ModelTypeOK, CompletionIsWhole, CloseStream, UNCHANGED << vendor, reply, tool, sent >>, got' \in 0 .. Wire,
           completion'.kind = "failed" \/ UNCHANGED completion
    PROVE  ModelIInv'
<1>1. ModelTypeOK'
    <2>1. Wire' = Wire /\ << >> \in Seq(0 .. Wire)
        BY DEF Wire
    <2> QED BY <2>1 DEF ModelTypeOK, CloseStream
<1>2. Parsing'
    BY DEF Parsing, CloseStream
<1>3. CompletionIsWhole'
    <2>1. CASE completion'.kind = "failed"
        BY <2>1 DEF CompletionIsWhole
    <2>2. CASE UNCHANGED completion
        BY <2>2 DEF CompletionIsWhole, SaidText, SaidCall, Said, Fragments
    <2> QED BY <2>1, <2>2
<1> QED BY <1>1, <1>2, <1>3 DEF ModelIInv

LEMMA FreshStateIs ==
    FreshState.outcome = "going" /\ Accumulated(FreshState, 0)
<1>1. \A kinds : Said(kinds, 0) = {}
    BY DEF Said
<1>2. Cardinality({}) = 0
    BY FS_EmptySet
<1>3. FreshState \in Partials
    BY DEF FreshState, Partials
<1>4. Ascending(<< >>, {})
    BY DEF Ascending
<1> QED BY <1>1, <1>2, <1>3, <1>4 DEF FreshState, Accumulated, SaidText

LEMMA CallKeeps ==
    ASSUME ModelIInv, Call
    PROVE  ModelIInv'
<1>1. ModelTypeOK /\ CompletionIsWhole /\ completion.kind = "none"
    BY DEF ModelIInv, Call
<1>2. CASE reply' \in ServerReplies /\ tool' \in 1 .. Len(Tools) /\ StartStream /\ UNCHANGED completion
    <2>1. ModelTypeOK'
        <3>1. Wire' \in Nat
            BY <1>2, ModelAssumption DEF Wire, RecordBytes
        <3>2. << >> \in Seq((0 .. Wire)')
            OBVIOUS
        <3> QED BY <1>1, <1>2, <3>1, <3>2 DEF ModelTypeOK, Call, StartStream
    <2>2. parsed' = 0 /\ got' = 0 /\ partial' = FreshState /\ Len(reply)' \in Nat
        BY <1>2, ModelAssumption DEF Call
    <2>3. (FreshState.outcome = "going" /\ Accumulated(FreshState, 0))'
        BY FreshStateIs, PTL
    <2>4. (partial.outcome = "going" /\ Accumulated(partial, parsed))'
        BY <2>2, <2>3 DEF FreshState, Accumulated, Partials, SaidText, Said, Fragments
    <2>5. Complete(0) = 0
        BY DEF Complete, RecordBytes
    <2>6. Parsing'
        BY <2>2, <2>4, <2>5 DEF Parsing, Complete
    <2> QED BY <1>1, <1>2, <2>1, <2>6 DEF ModelIInv, CompletionIsWhole
<1>3. CASE Refused /\ UNCHANGED << reply, tool >>
    <2>1. Wire \in Nat
        BY <1>1, ReplyIs DEF ModelTypeOK
    <2>2. ModelTypeOK'
        <3>1. Wire' = Wire /\ << >> \in Seq(0 .. Wire)
            BY <1>3 DEF Wire
        <3> QED BY <1>1, <1>3, <2>1, <3>1 DEF ModelTypeOK, Call, Refused, Unavailable, CloseStream
    <2>3. Parsing' /\ CompletionIsWhole'
        BY <1>3 DEF Parsing, CompletionIsWhole, Refused, Unavailable, CloseStream
    <2> QED BY <2>2, <2>3 DEF ModelIInv
<1> QED BY <1>2, <1>3 DEF Call

(* What was parsed is left alone.                                          *)
LEMMA ParsingKept ==
    ASSUME Parsing, UNCHANGED << vendor, reply, tool, callPhase, got, parsed, partial >>
    PROVE  Parsing'
BY DEF Parsing, Accumulated, Partials, SaidText, Said, Fragments, Complete

LEMMA WholeKept ==
    ASSUME CompletionIsWhole, UNCHANGED << reply, tool, completion >>
    PROVE  CompletionIsWhole'
BY DEF CompletionIsWhole, SaidText, SaidCall, Said, Fragments

LEMMA TransferKeeps ==
    ASSUME ModelIInv, Transfer
    PROVE  ModelIInv'
<1>1. ModelTypeOK /\ Parsing /\ CompletionIsWhole
    BY DEF ModelIInv
<1>2. UNCHANGED << vendor, reply, tool, callPhase, got, parsed, partial, completion >>
    BY DEF Transfer
<1>3. Wire' = Wire /\ Wire \in Nat
    BY <1>1, <1>2, ReplyIs DEF Wire, ModelTypeOK
<1>4. \A e \in 0 .. Wire : Append(frames, e) \in Seq(0 .. Wire)
    BY <1>1 DEF ModelTypeOK
<1>5. sent' \in 0 .. Wire /\ frames' \in Seq(0 .. Wire)
    <2>1. ASSUME NEW end \in sent + 1 .. Wire PROVE end \in 0 .. Wire
        BY <1>1, <1>3 DEF ModelTypeOK
    <2>2. 0 \in 0 .. Wire
        BY <1>3
    <2>3. CASE \E end \in sent + 1 .. Wire :
                  IF end > MaxBytes
                  THEN frames' = Append(frames, 0) /\ transfer' = "ended" /\ UNCHANGED sent
                  ELSE frames' = Append(frames, end) /\ sent' = end /\ UNCHANGED transfer
        BY <1>1, <1>4, <2>1, <2>2, <2>3 DEF ModelTypeOK
    <2>4. CASE transfer' = "ended" /\ frames' \in {frames, Append(frames, 0)} /\ UNCHANGED sent
        BY <1>1, <1>4, <2>2, <2>4 DEF ModelTypeOK
    <2> QED BY <2>3, <2>4 DEF Transfer, Wire
<1>6. ModelTypeOK'
    BY <1>1, <1>2, <1>3, <1>5 DEF ModelTypeOK
<1> QED BY <1>1, <1>2, <1>6, ParsingKept, WholeKept DEF ModelIInv

LEMMA ReceiveBytesKeeps ==
    ASSUME ModelIInv, ReceiveBytes
    PROVE  ModelIInv'
<1>1. ModelTypeOK /\ Parsing /\ CompletionIsWhole
    BY DEF ModelIInv
<1>2. UNCHANGED << vendor, reply, tool, sent, parsed, partial >> /\ callPhase = "reading" /\ frames # << >>
    BY DEF ReceiveBytes
<1>3. got \in 0 .. Wire /\ frames \in Seq(0 .. Wire) /\ Head(frames) \in 0 .. Wire /\ Tail(frames) \in Seq(0 .. Wire)
    <2>1. PICK W : W = 0 .. Wire
        OBVIOUS
    <2>2. got \in W /\ frames \in Seq(W) /\ frames # << >>
        BY <1>1, <1>2, <2>1 DEF ModelTypeOK
    <2>3. Head(frames) \in W /\ Tail(frames) \in Seq(W)
        BY <2>2
    <2> QED BY <2>1, <2>2, <2>3
<1>4. CASE Unavailable /\ UNCHANGED got
    BY <1>1, <1>2, <1>3, <1>4, ClosedKeeps DEF Unavailable
<1>5. CASE got' = Head(frames) /\ Unavailable
    BY <1>1, <1>2, <1>3, <1>5, ClosedKeeps DEF Unavailable
<1>6. CASE got' = Head(frames) /\ callPhase' = "parsing" /\ frames' = Tail(frames) /\ UNCHANGED completion
    <2>1. ModelTypeOK'
        <3>1. Wire' = Wire
            BY <1>2 DEF Wire
        <3> QED BY <1>1, <1>2, <1>3, <1>6, <3>1 DEF ModelTypeOK
    <2>2. Parsing'
        BY <1>1, <1>2, <1>6 DEF Parsing, Accumulated, Partials, SaidText, Said, Fragments
    <2> QED BY <1>1, <1>2, <1>6, <2>1, <2>2, WholeKept DEF ModelIInv
<1> QED BY <1>4, <1>5, <1>6 DEF ReceiveBytes

(* A completion, made of a reply that is over.                             *)
LEMMA CompletedKeeps ==
    ASSUME ModelTypeOK, UNCHANGED << vendor, reply, tool, sent, got >>, NEW st, Completed(st),
           NEW n \in 0 .. Len(reply), Accumulated(st, n), NEW e \in 1 .. n, reply[e] \in {"stop", "done"}
    PROVE  ModelIInv'
<1>1. PICK c : c = completion'
    OBVIOUS
<1>2. Ascending(c.text, SaidText(Len(reply))) /\ c.call = SaidCall(Len(reply))
    BY <1>1, WholeWhenOver DEF Completed
<1>3. CompletionIsWhole'
    BY <1>1, <1>2 DEF CompletionIsWhole, SaidText, SaidCall, Said, Fragments
<1>4. ModelTypeOK'
    <2>1. Wire' = Wire /\ << >> \in Seq(0 .. Wire)
        BY DEF Wire
    <2> QED BY <2>1 DEF ModelTypeOK, Completed, CloseStream
<1>5. Parsing'
    BY DEF Parsing, Completed, CloseStream
<1> QED BY <1>3, <1>4, <1>5 DEF ModelIInv

LEMMA ParseRecordKeeps ==
    ASSUME ModelIInv, ParseRecord
    PROVE  ModelIInv'
<1>1. ModelTypeOK /\ Parsing /\ CompletionIsWhole
    BY DEF ModelIInv
<1>2. /\ UNCHANGED << vendor, reply, tool, sent, got >> /\ callPhase = "parsing"
      /\ parsed < Complete(got) /\ parsed' = parsed + 1
    BY DEF ParseRecord
<1>3. PICK n \in Nat : n = parsed
    BY <1>1, <1>2 DEF Parsing
<1>4. Len(reply) \in Nat /\ n < Len(reply)
    <2>1. Len(reply) \in Nat /\ got \in Nat /\ got <= RecordBytes * Len(reply)
        BY <1>1, ReplyIs DEF ModelTypeOK, Wire
    <2>2. Complete(got) \in 0 .. Len(reply)
        BY <2>1, CompleteIs
    <2> QED BY <1>2, <1>3, <2>1, <2>2
<1>5. PICK st : st = Process(partial, n + 1)
    OBVIOUS
<1>6. partial.outcome = "going" /\ Accumulated(partial, n)
    BY <1>1, <1>2, <1>3 DEF Parsing
<1>7. Accumulated(st, n + 1) /\ (st.outcome = "terminal" => reply[n + 1] \in {"stop", "done"})
    BY <1>1, <1>4, <1>5, <1>6, ProcessKeeps
<1>8. CASE Unavailable
    <2>1. got' \in 0 .. Wire
        BY <1>1, <1>2 DEF ModelTypeOK
    <2> QED BY <1>1, <1>2, <1>8, <2>1, ClosedKeeps DEF Unavailable
<1>9. CASE st.outcome = "terminal" /\ Completed(st)
    <2>1. n + 1 \in 0 .. Len(reply) /\ n + 1 \in 1 .. n + 1
        BY <1>4
    <2> QED BY <1>1, <1>2, <1>7, <1>9, <2>1, CompletedKeeps
<1>10. CASE /\ st.outcome = "going" /\ partial' = st
            /\ UNCHANGED << callPhase, transfer, frames, emitted, completion >>
    <2>1. ModelTypeOK'
        BY <1>1, <1>2, <1>10 DEF ModelTypeOK, Wire
    <2>2. Accumulated(partial, n + 1)'
        BY <1>2, <1>7, <1>10 DEF Accumulated, Partials, SaidText, Said, Fragments
    <2>3. Parsing'
        <3>1. parsed' = n + 1 /\ n + 1 \in 0 .. Len(reply) /\ Len(reply)' = Len(reply)
            BY <1>2, <1>3, <1>4
        <3>2. (partial.outcome = "going" /\ Accumulated(partial, parsed))'
            BY <1>10, <2>2, <3>1 DEF Accumulated, SaidText, Said
        <3> QED BY <1>2, <1>10, <3>1, <3>2 DEF Parsing
    <2> QED BY <1>1, <1>2, <1>10, <2>1, <2>3, WholeKept DEF ModelIInv
<1> QED BY <1>3, <1>5, <1>8, <1>9, <1>10 DEF ParseRecord

LEMMA ReadAgainKeeps ==
    ASSUME ModelIInv, ReadAgain
    PROVE  ModelIInv'
<1>1. ModelTypeOK /\ Parsing /\ CompletionIsWhole
    BY DEF ModelIInv
<1>2. /\ UNCHANGED << vendor, reply, tool, sent, frames, got, parsed, completion >>
      /\ callPhase = "parsing" /\ callPhase' = "reading" /\ Flush(partial) /\ parsed = Complete(got)
    BY DEF ReadAgain
<1>3. parsed \in 0 .. Len(reply) /\ partial.outcome = "going" /\ Accumulated(partial, parsed)
    BY <1>1, <1>2 DEF Parsing
<1>4. PICK n : n = parsed
    OBVIOUS
<1>5. partial'.outcome = "going" /\ Accumulated(partial, n)'
    BY <1>2, <1>3, <1>4, Flushed
<1>6. (parsed \in 0 .. Len(reply) /\ Accumulated(partial, parsed) /\ parsed = Complete(got))'
    BY <1>2, <1>3, <1>4, <1>5 DEF Accumulated, SaidText, Said, Complete
<1>7. Parsing'
    BY <1>5, <1>6 DEF Parsing
<1>8. ModelTypeOK'
    BY <1>1, <1>2 DEF ModelTypeOK, Wire
<1> QED BY <1>1, <1>2, <1>7, <1>8, WholeKept DEF ModelIInv

LEMMA ReceiveClosedKeeps ==
    ASSUME ModelIInv, ReceiveClosed
    PROVE  ModelIInv'
<1>1. ModelTypeOK /\ Parsing /\ CompletionIsWhole
    BY DEF ModelIInv
<1>2. UNCHANGED << vendor, reply, tool, sent, got, parsed >> /\ callPhase = "reading"
    BY DEF ReceiveClosed
<1>3. got' \in 0 .. Wire
    BY <1>1, <1>2 DEF ModelTypeOK
<1>4. CASE Unavailable
    BY <1>1, <1>2, <1>3, <1>4, ClosedKeeps DEF Unavailable
<1>5. CASE Ended(Remainder) /\ Completed(Remainder)
    <2>1. PICK n \in Nat : n = parsed
        BY <1>1, <1>2 DEF Parsing
    <2>2. Len(reply) \in Nat /\ n \in 0 .. Len(reply) /\ (got % RecordBytes > 1 => n < Len(reply))
        <3>1. Len(reply) \in Nat /\ got \in Nat /\ got <= RecordBytes * Len(reply)
            BY <1>1, ReplyIs DEF ModelTypeOK, Wire
        <3> QED BY <1>1, <1>2, <2>1, <3>1, CompleteIs DEF Parsing
    <2>3. partial.outcome = "going" /\ Accumulated(partial, n)
        BY <1>1, <1>2, <2>1 DEF Parsing
    <2>4. PICK st : st = Remainder
        OBVIOUS
    <2>5. \E m \in 0 .. Len(reply) : Accumulated(st, m)
        <3>1. CASE got % RecordBytes > 1
            <4>1. Accumulated(Process(partial, n + 1), n + 1)
                BY <1>1, <2>2, <2>3, <3>1, ProcessKeeps
            <4>2. st = Process(partial, n + 1) /\ n + 1 \in 0 .. Len(reply)
                BY <2>1, <2>2, <2>4, <3>1 DEF Remainder
            <4> QED BY <4>1, <4>2
        <3>2. CASE ~(got % RecordBytes > 1)
            BY <2>2, <2>3, <2>4, <3>2 DEF Remainder
        <3> QED BY <3>1, <3>2
    <2>6. PICK m \in 0 .. Len(reply) : Accumulated(st, m)
        BY <2>5
    <2>7. PICK e \in 1 .. m : reply[e] = "stop"
        BY <1>5, <2>4, <2>6 DEF Ended, Accumulated
    <2> QED BY <1>1, <1>2, <1>5, <2>4, <2>6, <2>7, CompletedKeeps
<1> QED BY <1>4, <1>5 DEF ReceiveClosed

(* ModelIInv is an inductive invariant of a model call.                    *)
LEMMA ModelInduction ==
    ASSUME ModelIInv, [ModelNext]_modelVars
    PROVE  ModelIInv'
<1>1. ModelTypeOK /\ Parsing /\ CompletionIsWhole
    BY DEF ModelIInv
<1>2. CASE ResponseDeadline
    <2>1. got' \in 0 .. Wire
        BY <1>1, <1>2 DEF ModelTypeOK, ResponseDeadline
    <2> QED BY <1>1, <1>2, <2>1, ClosedKeeps DEF ResponseDeadline, Unavailable
<1>3. CASE RestartCall
    <2>1. got' \in 0 .. Wire
        BY <1>1, <1>3 DEF ModelTypeOK, RestartCall
    <2> QED BY <1>1, <1>3, <2>1, ClosedKeeps DEF RestartCall
<1>4. CASE UNCHANGED modelVars
    <2>1. ModelTypeOK'
        BY <1>1, <1>4 DEF modelVars, ModelTypeOK, Wire
    <2> QED BY <1>1, <1>4, <2>1, ParsingKept, WholeKept DEF modelVars, ModelIInv
<1> QED BY <1>2, <1>3, <1>4, CallKeeps, TransferKeeps, ReceiveBytesKeeps, ParseRecordKeeps,
           ReadAgainKeeps, ReceiveClosedKeeps DEF ModelNext

(* Whatever the sizes of the reads and wherever the connection ends, a     *)
(* completion holds every piece of text of the reply in order and the      *)
(* whole tool call under its own name.                                     *)
THEOREM ModelCompletionIsWhole == ModelSpec => []CompletionIsWhole
<1>1. ModelInit => ModelIInv
    BY CallInit
<1>2. ModelIInv /\ [ModelNext]_modelVars => ModelIInv'
    BY ModelInduction
<1>3. ModelIInv => CompletionIsWhole
    BY DEF ModelIInv
<1> QED BY <1>1, <1>2, <1>3, PTL DEF ModelSpec
=============================================================================
