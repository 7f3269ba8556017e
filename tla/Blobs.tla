-------------------------------- MODULE Blobs --------------------------------
(***************************************************************************)
(* Content-addressed blobs: the file store (pluribus-store-fs) and how the *)
(* host lets an instance write, publish and read them.  A write or a       *)
(* publication that was admitted runs to its end in a task of its own,     *)
(* also when the caller that waits for it is cancelled: its delivery ends, *)
(* the upload is aborted, or the caller asks again.  Equal contents have   *)
(* one object; here a digest is the content it is the digest of.           *)
(***************************************************************************)
EXTENDS Naturals, Sequences, SequencesExt, FiniteSets

CONSTANTS Uploads, Instances,
          Owner,        \* the instance of an upload
          Plan,         \* the chunks its caller means to write
          Expected,     \* the size it declared, 0 for none
          Limit,        \* max_blob_bytes
          Damage,       \* what is left of a damaged object
          MaxCancels, MaxStoreCrashes

(* A caller has a finite sequence of chunks to write, for one instance.       *)
ASSUME BlobsAssumption ==
    /\ Owner \in [Uploads -> Instances]
    /\ \A u \in Uploads : Plan[u] \in Seq({Plan[u][k] : k \in DOMAIN Plan[u]})

VARIABLES
    table,      \* uploads the store knows: the id map
    file,       \* upload -> its temporary file: [held, bytes, prev]
    tasks,      \* admitted writes and publications that have not run
    caller,     \* upload -> [step, acked, try]: what its caller is doing
    objects,    \* digest -> what the object holds
    verified,   \* digests this process has compared with their object
    visible,    \* instance -> digests it may read or name
    named,      \* digests named by committed events
    reads,      \* what reads returned: <<digest, bytes>>
    storeUp, cancels, storeCrashes
blobVars == <<table, file, tasks, caller, objects, verified, visible, named, reads,
              storeUp, cancels, storeCrashes>>

Size(u) == Len(file[u].bytes)
Fresh == [held |-> TRUE, bytes |-> << >>, prev |-> << >>]
Gone == [held |-> FALSE, bytes |-> << >>, prev |-> << >>]
Put(f, k, v) == [x \in DOMAIN f \cup {k} |-> IF x = k THEN v ELSE f[x]]
NewCaller == [step |-> "new", acked |-> 0, try |-> 0]
BlobsInit ==
    /\ table = {} /\ file = [u \in Uploads |-> Gone] /\ tasks = {} /\ caller = [u \in Uploads |-> NewCaller]
    /\ objects = [d \in {} |-> << >>] /\ verified = {} /\ visible = [i \in Instances |-> {}]
    /\ named = {} /\ reads = {} /\ storeUp = TRUE /\ cancels = 0 /\ storeCrashes = 0

(* A delivery writes and finishes only the uploads it opened.                 *)
Holds(u) == caller[u].step = "open"
At(u, step, acked) == caller' = [caller EXCEPT ![u].step = step, ![u].acked = acked]

(* begin_put *)
BeginPut(u) ==
    /\ storeUp /\ caller[u].step = "new"
    /\ IF Expected[u] > Limit
       THEN At(u, "failed", 0) /\ UNCHANGED <<table, file>>
       ELSE /\ table' = table \cup {u} /\ file' = [file EXCEPT ![u] = Fresh] /\ At(u, "open", 0)
    /\ UNCHANGED <<tasks, objects, verified, visible, named, reads, storeUp, cancels, storeCrashes>>

(* write: admitted while the upload is known, then a task of its own.         *)
Task(u, kind, chunk) == [of |-> u, kind |-> kind, offset |-> caller[u].acked, chunk |-> chunk, try |-> caller[u].try]
Admit(u) ==
    /\ storeUp /\ Holds(u) /\ caller[u].acked < Len(Plan[u])
    /\ u \in table
    /\ At(u, "writing", caller[u].acked)
    /\ tasks' = tasks \cup {Task(u, "write", Plan[u][caller[u].acked + 1])}
    /\ UNCHANGED <<table, file, objects, verified, visible, named, reads,
                   storeUp, cancels, storeCrashes>>

(* FileUpload::write: appended at the end, or the last write once more.       *)
Replayed(u, t) == file[u].prev = <<[offset |-> t.offset, chunk |-> t.chunk]>>
WriteVerdictAnyOffset(u, t) == IF ~file[u].held THEN "not-found" ELSE IF Size(u) + 1 > Limit THEN "exhausted" ELSE "written"
WriteVerdict(u, t) ==
    IF ~file[u].held THEN "not-found"
    ELSE IF t.offset # Size(u) THEN IF Replayed(u, t) THEN "replayed" ELSE "conflict"
    ELSE IF Size(u) + 1 > Limit \/ (Expected[u] # 0 /\ Size(u) + 1 > Expected[u]) THEN "exhausted"
    ELSE "written"
Awaited(t) == caller[t.of].step = "writing" /\ caller[t.of].try = t.try
RunWrite(t) ==
    /\ storeUp /\ t \in tasks /\ t.kind = "write" /\ tasks' = tasks \ {t}
    /\ LET u == t.of
           v == WriteVerdict(u, t)
       IN  /\ file' = IF v # "written" THEN file
                      ELSE [file EXCEPT ![u] = [held |-> TRUE, bytes |-> Append(@.bytes, t.chunk),
                                                prev |-> <<[offset |-> t.offset, chunk |-> t.chunk]>>]]
           /\ IF ~Awaited(t) THEN UNCHANGED caller
              ELSE IF v \in {"written", "replayed"} THEN At(u, "open", Len(file'[u].bytes))
              ELSE At(u, "failed", 0)
    /\ UNCHANGED <<table, objects, verified, visible, named, reads, storeUp, cancels, storeCrashes>>

(* The caller stops waiting and asks again, with what it last had answered;   *)
(* or its delivery ends, and what it opened is aborted.                       *)
Retry(u) ==
    /\ storeUp /\ caller[u].step = "writing" /\ cancels < MaxCancels /\ cancels' = cancels + 1
    /\ caller' = [caller EXCEPT ![u].step = "open", ![u].try = @ + 1]
    /\ UNCHANGED <<table, file, tasks, objects, verified, visible, named, reads, storeUp, storeCrashes>>
Released(u) == caller[u].step \in {"open", "writing", "finishing"} /\ At(u, "failed", 0)
AbortPut(u) ==
    /\ storeUp /\ Released(u) /\ cancels < MaxCancels /\ cancels' = cancels + 1
    /\ table' = table \ {u} /\ file' = IF u \in table THEN [file EXCEPT ![u] = Gone] ELSE file
    /\ UNCHANGED <<tasks, objects, verified, visible, named, reads, storeUp, storeCrashes>>

(* finish_put: the id is gone at once; the task takes the file, compares its  *)
(* size, and publishes it under its digest unless the object is there.        *)
FinishPut(u) ==
    /\ storeUp /\ Holds(u) /\ caller[u].acked = Len(Plan[u])
    /\ table' = table \ {u} /\ At(u, "finishing", caller[u].acked)
    /\ tasks' = tasks \cup {Task(u, "finish", "none")}
    /\ UNCHANGED <<file, objects, verified, visible, named, reads, storeUp, cancels, storeCrashes>>
VerifyFile(d) == d \in verified \/ (d \in DOMAIN objects /\ objects[d] = d)
PutFinished(u, d) ==
    IF caller[u].step # "finishing" THEN UNCHANGED <<visible, caller>>
    ELSE At(u, "stored", caller[u].acked) /\ visible' = [visible EXCEPT ![Owner[u]] = @ \cup {d}]
PublishFile(t) ==
    /\ storeUp /\ t \in tasks /\ t.kind = "finish" /\ tasks' = tasks \ {t}
    /\ file' = [file EXCEPT ![t.of] = Gone]
    /\ LET u == t.of
           d == file[u].bytes
       IN  IF Expected[u] \notin {0, Size(u)} \/ (d \in DOMAIN objects /\ ~VerifyFile(d))
           THEN At(u, "failed", 0) /\ UNCHANGED <<objects, verified, visible>>
           ELSE /\ objects' = IF d \in DOMAIN objects THEN objects ELSE Put(objects, d, d)
                /\ verified' = verified \cup {d}
                /\ PutFinished(u, d)
    /\ UNCHANGED <<table, named, reads, storeUp, cancels, storeCrashes>>

(* An instance names a blob in an event, is handed one, reads one.            *)
Name(i) ==
    /\ storeUp /\ \E d \in visible[i] \ named : named' = named \cup {d}
    /\ UNCHANGED <<table, file, tasks, caller, objects, verified, visible, reads,
                   storeUp, cancels, storeCrashes>>
Reveal(i) ==
    /\ storeUp /\ \E d \in named \ visible[i] : visible' = [visible EXCEPT ![i] = @ \cup {d}]
    /\ UNCHANGED <<table, file, tasks, caller, objects, verified, named, reads,
                   storeUp, cancels, storeCrashes>>
Visible(i) == visible[i]
Read(i) ==
    /\ storeUp /\ \E d \in Visible(i) :
         /\ VerifyFile(d) /\ verified' = verified \cup {d} /\ reads' = reads \cup {<<d, objects[d]>>}
         /\ <<d, objects[d]>> \notin reads
    /\ UNCHANGED <<table, file, tasks, caller, objects, visible, named, storeUp, cancels, storeCrashes>>

(* The process dies with its uploads; an object may be damaged meanwhile.     *)
StoreCrash ==
    /\ storeUp /\ storeCrashes < MaxStoreCrashes /\ storeCrashes' = storeCrashes + 1 /\ storeUp' = FALSE
    /\ table' = {} /\ tasks' = {} /\ file' = [u \in Uploads |-> Gone]
    /\ caller' = [u \in Uploads |-> IF caller[u].step = "stored" THEN caller[u] ELSE NewCaller]
    /\ verified' = {} /\ visible' = [i \in Instances |-> {}]
    /\ UNCHANGED <<objects, named, reads, cancels>>
Rot ==
    /\ ~storeUp /\ \E d \in DOMAIN objects : objects[d] # Damage /\ objects' = [objects EXCEPT ![d] = Damage]
    /\ UNCHANGED <<table, file, tasks, caller, verified, visible, named, reads,
                   storeUp, cancels, storeCrashes>>
Open ==
    /\ ~storeUp /\ storeUp' = TRUE
    /\ UNCHANGED <<table, file, tasks, caller, objects, verified, visible, named, reads,
                   cancels, storeCrashes>>

BlobsNext ==
    \/ \E u \in Uploads : BeginPut(u) \/ Admit(u) \/ Retry(u) \/ AbortPut(u) \/ FinishPut(u)
    \/ \E t \in tasks : RunWrite(t) \/ PublishFile(t)
    \/ \E i \in Instances : Name(i) \/ Reveal(i) \/ Read(i)
    \/ StoreCrash \/ Rot \/ Open
BlobsSpec == BlobsInit /\ [][BlobsNext]_blobVars

(* A stored blob is what its caller meant to write, once and in order,        *)
(* whatever was cancelled and asked again; what an event names is stored, and *)
(* a read returns it or fails, also after a crash that damaged the object.    *)
BlobIsContent ==
    /\ \A u \in Uploads : caller[u].step = "stored" => Plan[u] \in DOMAIN objects
    /\ \A d \in DOMAIN objects : \E u \in Uploads : d = Plan[u]
    /\ named \subseteq DOMAIN objects
    /\ \A r \in reads : r[2] = r[1]
==============================================================================
