---------------------------- MODULE ModelStream ----------------------------
(***************************************************************************)
(* One model call of a provider plugin (openai-codex or openrouter), from  *)
(* the reply's bytes on the connection to the completion: the host's       *)
(* transfer task and its bounded queue of frames (pluribus-host-http), the *)
(* response body handed to the component (wasi_http), and the plugin's     *)
(* record framing and accumulation.                                        *)
(*                                                                         *)
(* The reply is a sequence of records.  On the wire a record is four       *)
(* bytes: two of payload and the two newlines that end it.  In a "wide"    *)
(* record the payload is one two-byte UTF-8 character.  Bytes are          *)
(* numbered, so that the plugin's buffer is an interval of the wire: what  *)
(* was received (got) past the records that were parsed.                   *)
(***************************************************************************)
EXTENDS Integers, Sequences, FiniteSets

CONSTANTS
    ServerReplies, \* the replies a server may send: sequences of record kinds
    Tools,         \* the tools of the request: their names, as characters
    MaxName,       \* MAX_PROVIDER_TOOL_NAME_BYTES
    MaxFrames,     \* STREAM_QUEUE_FRAMES: the frames the host holds
    MaxBytes,      \* the grant's max_response_bytes
    MaxRestarts    \* bound: restarts while the call runs

RecordKinds == {"text", "wide", "call", "args", "comment", "stop", "done", "error"}
(* A reply says nothing after its end.                                      *)
ASSUME ModelAssumption ==
    /\ Tools \in Seq(Seq(STRING))
    /\ \A r \in ServerReplies :
         /\ r \in Seq(RecordKinds)
         /\ \A i, j \in 1 .. Len(r) : i < j /\ r[i] \in {"stop", "done"}
                                       => r[j] \notin {"text", "wide", "call", "args"}

VARIABLES
    vendor,      \* the plugin that serves the call
    reply,       \* the records the server sends to this attempt
    tool,        \* the tool the reply calls, if it calls one
    callPhase,   \* "idle", "reading" the response, or "parsing" what was read
    sent,        \* bytes the transfer task has read off the connection
    frames,      \* frames read and not handed over: where they end, or 0 for an error
    transfer,    \* the transfer task: "none", "running" or "ended"
    got,         \* bytes the plugin has received
    parsed,      \* records it has applied
    partial,     \* StreamState: what it has accumulated
    emitted,     \* the durable model.stream events, by ordinal
    completion,  \* the completion or failure that was proposed
    restarts

modelVars == << vendor, reply, tool, callPhase, sent, frames, transfer, got, parsed, partial,
                emitted, completion, restarts >>

RecordBytes == 4

Ident == {"a", "b", "_", "0", "1", "2"}

(* Provider tool names are cut to size, restricted to an alphabet and made  *)
(* distinct by the tool's position.                                         *)
ProviderTool(i) ==
    LET most == MaxName - 3
    IN  << [k \in 1 .. (IF Len(Tools[i]) < most THEN Len(Tools[i]) ELSE most) |->
              IF Tools[i][k] \in Ident THEN Tools[i][k] ELSE "_"], i >>

Original(name) ==
    LET known == {i \in 1 .. Len(Tools) : ProviderTool(i) = name}
    IN  IF known = {} THEN << >>
        ELSE Tools[CHOOSE i \in known : \A j \in known : j <= i]

------------------------------------------------------------------------------
(* What the first n records of the reply say.                               *)
Said(kinds, n) == {i \in 1 .. n : reply[i] \in kinds}
SaidText(n) == Said({"text", "wide"}, n)
Fragments == Cardinality(Said({"args"}, Len(reply)))
SaidCall(n) == IF Said({"call"}, n) = {} THEN << >> ELSE << Tools[tool], Fragments >>

Ascending(s, S) ==
    /\ {s[i] : i \in 1 .. Len(s)} = S
    /\ \A i, j \in 1 .. Len(s) : i < j => s[i] < s[j]
Ordered(S) == CHOOSE s \in [1 .. Cardinality(S) -> S] : Ascending(s, S)

FreshState == [text |-> << >>, call |-> << >>, args |-> 0, finish |-> FALSE,
          pending |-> << >>, batch |-> 0, outcome |-> "going"]

Delta(st, i) == [st EXCEPT !.pending = Append(@, i)]

(* Codex names the call in its finished item, arguments included.           *)
ParseToolCall(st) ==
    [st EXCEPT !.call = << Original(ProviderTool(tool)) >>, !.args = Fragments]

(* OpenRouter sends the name once and the arguments in fragments.           *)
AccumulateCall(st, i) ==
    IF reply[i] = "call"
    THEN [Delta(st, i) EXCEPT !.call = << Original(ProviderTool(tool)) >>]
    ELSE [Delta(st, i) EXCEPT !.args = @ + 1]

(* A record applied to what Codex has said so far: its terminal event ends  *)
(* the reply.                                                               *)
ProcessEvent(st, i) ==
    CASE reply[i] \in {"text", "wide"} -> [Delta(st, i) EXCEPT !.text = Append(@, i)]
      [] reply[i] = "call"  -> ParseToolCall(st)
      [] reply[i] = "args"  -> Delta(st, i)
      [] reply[i] = "stop"  -> [Delta(st, i) EXCEPT !.outcome = "terminal"]
      [] reply[i] = "error" -> [st EXCEPT !.outcome = "failed"]
      [] OTHER -> st

(* The same for OpenRouter, which notes a finish reason and ends at [DONE]. *)
ProcessChunk(st, i) ==
    CASE reply[i] \in {"text", "wide"} -> [Delta(st, i) EXCEPT !.text = Append(@, i)]
      [] reply[i] \in {"call", "args"} -> AccumulateCall(st, i)
      [] reply[i] = "stop"  -> [st EXCEPT !.finish = TRUE]
      [] reply[i] = "done"  -> [st EXCEPT !.outcome = "terminal"]
      [] reply[i] = "error" -> [st EXCEPT !.outcome = "failed"]
      [] OTHER -> st

Process(st, i) == IF vendor = "codex" THEN ProcessEvent(st, i) ELSE ProcessChunk(st, i)

(* split_sse: the records that are complete, the last of them ending at the *)
(* last blank line, and whether the whole buffer is UTF-8.                  *)
Utf8(n) == ~(n % RecordBytes = 1 /\ reply[(n \div RecordBytes) + 1] = "wide")
Complete(n) == n \div RecordBytes

(* A batch of deltas becomes one durable event, unless its ordinal is       *)
(* already there.                                                           *)
EmitStream(st) ==
    emitted' = IF st.pending # << >> /\ st.batch + 1 > Len(emitted)
               THEN Append(emitted, st.pending) ELSE emitted

Flush(st) ==
    /\ EmitStream(st)
    /\ partial' = IF st.pending = << >> THEN st
                  ELSE [st EXCEPT !.pending = << >>, !.batch = @ + 1]

------------------------------------------------------------------------------
ModelInit ==
    /\ vendor \in {"codex", "openrouter"} /\ reply \in ServerReplies /\ tool \in 1 .. Len(Tools)
    /\ callPhase = "idle" /\ sent = 0 /\ frames = << >> /\ transfer = "none"
    /\ got = 0 /\ parsed = 0 /\ partial = FreshState /\ emitted = << >>
    /\ completion = [kind |-> "none"] /\ restarts = 0

(* The reader is dropped with the call: the stream is closed and the        *)
(* transfer task aborted.                                                   *)
CloseStream == callPhase' = "idle" /\ transfer' = "none" /\ frames' = << >>
StartStream == callPhase' = "reading" /\ transfer' = "running" /\ frames' = << >>
Unavailable == completion' = [kind |-> "failed"] /\ CloseStream

(* The host sends nothing for a component that is stopping or has no grant, *)
(* and the exchange may fail before there is a response.                    *)
Refused == Unavailable

(* The call is made: refused by the plugin or by the host's policy, or      *)
(* answered with an open response.                                          *)
Call ==
    /\ callPhase = "idle" /\ completion.kind = "none"
    /\ got' = 0 /\ parsed' = 0 /\ partial' = FreshState /\ sent' = 0
    /\ \/ /\ reply' \in ServerReplies /\ tool' \in 1 .. Len(Tools)
          /\ StartStream /\ UNCHANGED completion
       \/ Refused /\ UNCHANGED << reply, tool >>
    /\ UNCHANGED << vendor, emitted, restarts >>

(* read_bytes: the transfer task reads some bytes and hands them over, with *)
(* room for them; it stops at the end of the response, or at an error,      *)
(* which it hands over too.                                                 *)
Transfer ==
    /\ transfer = "running" /\ Len(frames) < MaxFrames
    /\ \/ \E end \in sent + 1 .. RecordBytes * Len(reply) :
            IF end > MaxBytes
            THEN frames' = Append(frames, 0) /\ transfer' = "ended" /\ UNCHANGED sent
            ELSE frames' = Append(frames, end) /\ sent' = end /\ UNCHANGED transfer
       \/ transfer' = "ended" /\ frames' \in {frames, Append(frames, 0)} /\ UNCHANGED sent
    /\ UNCHANGED << vendor, reply, tool, callPhase, got, parsed, partial, emitted, completion,
                    restarts >>

(* finish                                                                   *)
FinishChunks(st) ==
    [kind |-> "completed", text |-> st.text,
     call |-> IF st.call = << >> THEN << >> ELSE << st.call[1], st.args >>]

(* Codex fills what was not streamed from its terminal event.               *)
FinishResponse(st) ==
    [kind |-> "completed",
     text |-> IF st.text = << >> THEN Ordered(SaidText(Len(reply))) ELSE st.text,
     call |-> IF st.call = << >> THEN SaidCall(Len(reply)) ELSE << st.call[1], st.args >>]

Completed(st) ==
    /\ completion' = IF vendor = "codex" THEN FinishResponse(st) ELSE FinishChunks(st)
    /\ CloseStream

(* One read of the reader: the error, which the host may report ahead of    *)
(* the frames before it, or bytes, which are decoded before they are split. *)
ReceiveBytes ==
    /\ callPhase = "reading" /\ frames # << >>
    /\ \/ (\E i \in 1 .. Len(frames) : frames[i] = 0) /\ Unavailable /\ UNCHANGED got
       \/ /\ Head(frames) > 0 /\ got' = Head(frames)
          /\ \/ ~Utf8(got') /\ Unavailable
             \/ /\ Utf8(got') /\ callPhase' = "parsing" /\ frames' = Tail(frames)
                /\ UNCHANGED << transfer, completion >>
    /\ UNCHANGED << vendor, reply, tool, sent, parsed, partial, emitted, restarts >>

(* The complete records of a read, in order; then one batch of deltas.      *)
ParseRecord ==
    /\ callPhase = "parsing" /\ parsed < Complete(got) /\ parsed' = parsed + 1
    /\ LET st == Process(partial, parsed + 1)
       IN  \/ st.outcome = "failed" /\ Unavailable /\ UNCHANGED << partial, emitted >>
           \/ st.outcome = "terminal" /\ Flush(st) /\ Completed(st)
           \/ /\ st.outcome = "going" /\ partial' = st
              /\ UNCHANGED << callPhase, transfer, frames, emitted, completion >>
    /\ UNCHANGED << vendor, reply, tool, sent, got, restarts >>
ReadAgain ==
    /\ callPhase = "parsing" /\ parsed = Complete(got) /\ Flush(partial) /\ callPhase' = "reading"
    /\ UNCHANGED << vendor, reply, tool, sent, frames, transfer, got, parsed, completion,
                    restarts >>

(* The rest of the buffer at the end: a last record may lack its blank      *)
(* line, but one that was cut inside does not parse.                        *)
Unparsable == got % RecordBytes = 1 /\ reply[parsed + 1] # "comment"
Remainder == IF got % RecordBytes > 1 THEN Process(partial, parsed + 1) ELSE partial

(* Mutant: the end of the connection is taken for the end of the reply.     *)
EndedAnyway(st) == vendor = "openrouter"

(* A reply is over only when its provider says so.                          *)
Ended(st) == vendor = "openrouter" /\ st.finish

(* The read that finds the response closed.                                 *)
ReceiveClosed ==
    /\ callPhase = "reading" /\ frames = << >> /\ transfer = "ended"
    /\ \/ /\ vendor = "codex" \/ Unparsable \/ Remainder.outcome = "failed"
          /\ Unavailable /\ UNCHANGED << partial, emitted >>
       \/ /\ vendor = "openrouter" /\ ~Unparsable /\ Remainder.outcome # "failed"
          /\ Flush(Remainder)
          /\ IF Ended(Remainder) THEN Completed(Remainder) ELSE Unavailable
    /\ UNCHANGED << vendor, reply, tool, sent, got, parsed, restarts >>

(* The deadline of the response, or a cancelled delivery, ends the body     *)
(* with an error.                                                           *)
ResponseDeadline ==
    /\ callPhase = "reading" /\ Unavailable
    /\ UNCHANGED << vendor, reply, tool, sent, got, parsed, partial, emitted, restarts >>

(* The agent stops before the delivery is committed; the request is         *)
(* delivered again, and the durable stream is what it was.                  *)
RestartCall ==
    /\ callPhase # "idle" /\ restarts < MaxRestarts /\ restarts' = restarts + 1 /\ CloseStream
    /\ UNCHANGED << vendor, reply, tool, sent, got, parsed, partial, emitted, completion >>

ModelNext ==
    \/ Call \/ Transfer \/ ReceiveBytes \/ ParseRecord \/ ReadAgain \/ ReceiveClosed
    \/ ResponseDeadline \/ RestartCall
ModelSpec == ModelInit /\ [][ModelNext]_modelVars

------------------------------------------------------------------------------
(* A completion is the whole reply, whatever the sizes of the reads and     *)
(* wherever the connection ended: every piece of text in order, and the     *)
(* tool call under the name its tool was offered by, with all its arguments.*)
CompletionIsWhole ==
    completion.kind = "completed" =>
        /\ Ascending(completion.text, SaidText(Len(reply)))
        /\ completion.call = SaidCall(Len(reply))

(* The sizes of the reads never fail a call: "the unconsumed tail" is kept   *)
(* "so a record spanning two reads is not truncated", and bytes that arrive *)
(* are refused only when the reply itself reports an error.                 *)
SplitRecordKept ==
    [][got' > got /\ completion'.kind = "failed"
         => "error" \in {reply[i] : i \in 1 .. Len(reply)}]_modelVars
==============================================================================
