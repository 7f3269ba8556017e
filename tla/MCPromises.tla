----------------------------- MODULE MCPromises -----------------------------
(***************************************************************************)
(* The components whose promises are safety properties, on small           *)
(* instances, in one run: the focus of a behaviour says which of them it   *)
(* is about, and the others do not move.  The components that have proofs  *)
(* keep their own names and get their constants from the configuration.    *)
(***************************************************************************)
EXTENDS Dispatch, Authority, GitHub, Blobs, HttpHost, Senders, CliConnector, Scheduler, Memory,
        ModelStream, TLC

VARIABLES
    focus,  \* the component this behaviour is about
    mime_text, mime_subject, mime_tree, mime_wire, mime_read, mime_stage

mimeState == <<mime_text, mime_subject, mime_tree, mime_wire, mime_read, mime_stage>>
promiseVars == <<focus, schedulerVars, githubVars, vars, authorityVars, memoryVars, blobVars,
                 modelVars, httpHostVars, senderVars, mimeState, cliVars>>

Delivery(id, text, kind, inst) == [id |-> id, body |-> text, kind |-> kind, inst |-> inst]
Webhooks == {Delivery(1, 1, "push", 0), Delivery(1, 2, "push", 0), Delivery(3, 1, "deleted", 1)}

Connector(provider, inherits, by, replies) ==
    [provider |-> provider, inherits |-> inherits, reply |-> by, replies |-> replies]
Claim(conversation, trusted) == [provider |-> "tg", conversation |-> conversation, trusted |-> trusted]
TwoPeople == {Claim("k", TRUE), Claim("l", TRUE), Claim("k", FALSE)}
TwoConnectors == ("tg-in" :> Connector("tg", FALSE, "tg-out", {"message"}))
              @@ ("sched" :> Connector("any", TRUE, "none", {}))
StandingFor == ("message" :> {[provider |-> "any", conversations |-> {"any"}]})
            @@ ("shell" :> {[provider |-> "any", conversations |-> {"k"}], [provider |-> "sh", conversations |-> {"any"}]})
            @@ ("both" :> {[provider |-> "any", conversations |-> {"any"}]})
CapabilityProviders == ("message" :> {"tg-out"}) @@ ("shell" :> {"sh"}) @@ ("both" :> {"sh", "tg-out"})

Write(op, kind, of) == [op |-> op, kind |-> kind, of |-> of]
Writes == {Write("a", "remember", "none"), Write("b", "supersede", "a"), Write("c", "forget", "b"),
           Write("b", "remember", "none")}

UploadOwner == ("x" :> "i") @@ ("y" :> "j") @@ ("z" :> "j")
UploadSize == ("x" :> 0) @@ ("y" :> 2) @@ ("z" :> 3)

ModelReplies == {<<"text", "wide", "stop", "done">>, <<"args", "call", "comment", "stop", "done">>,
            <<"text", "error">>}
ModelTools == << <<"a", ".", "b">>, <<"a", "_", "b">> >>

HttpsA == <<"https", "a">>
HttpsB == <<"https", "b">>
HttpA == <<"http", "a">>
Grant(most, bytes, plain, origins, methods) ==
    [redirects |-> most, request |-> bytes, response |-> bytes, http |-> plain, private |-> plain,
     origins |-> origins, methods |-> methods]
StrictGrant == Grant(2, 1, FALSE, {HttpsA, HttpsB}, {"GET", "POST"})
PostGrant == Grant(2, 2, TRUE, {HttpsA, HttpsB, HttpA}, {"POST"})
WideGrant == Grant(3, 2, TRUE, {HttpsA, HttpsB, HttpA}, {"GET", "POST"})

UpTo(S, n) == UNION {[1 .. k -> S] : k \in 0 .. n}
Bodies == UpTo({<<0, "x">>, <<1, "">>, <<1, "x">>}, 2) \ {<< >>}
Part(kind, depth, text) == [kind |-> kind, depth |-> depth, text |-> text]
UploadPlan == [u \in Uploads |-> <<"a", "b">>]
TwoProviders == ("r1" :> "p1") @@ ("r2" :> "p2") @@ ("r3" :> "p2")
AllowAll == {[r \in Requests |-> "allow"]}
AnyGrant == {StrictGrant, PostGrant, WideGrant}
AnyOrigin == {HttpsA, HttpsB, HttpA}
Damaged == <<"!">>

Parts == {Part("multipart", 0, << >>), Part("plain", 1, <<"D">>), Part("plain", 1, << >>),
          Part("html", 1, <<"u">>), Part("file", 1, << >>), Part("plain", 2, <<"=">>)}

Mime == INSTANCE Mime WITH
    Texts <- UpTo({"D", "=", " ", "u", "\n"}, 5), Subjects <- UpTo({"D", " ", "u"}, 6),
    Trees <- UpTo(Parts, 3), Plain <- 3, Width <- 5, Word <- 3, Fold <- 6, Limit <- 5,
    MaxDepth <- 1, MaxParts <- 3, text <- mime_text, subject <- mime_subject, tree <- mime_tree,
    wire <- mime_wire, read <- mime_read, stage <- mime_stage

Components == {"scheduler", "github", "dispatch", "authority", "memory", "blobs", "model", "hosts", "senders", "mime", "cli"}
(* Every component is in an initial state; one of them runs, the others rest,  *)
(* in a fixed initial state.                                                  *)
PromisesInit ==
    /\ focus \in Components
    /\ SchedulerInit
    /\ GitHubInit
    /\ Init
    /\ AuthorityInit
    /\ MemoryInit
    /\ BlobsInit
    /\ (IF focus = "model" THEN TRUE ELSE vendor = "codex" /\ reply = <<"text", "error">> /\ tool = 1)
    /\ ModelInit
    /\ (IF focus = "hosts" THEN TRUE ELSE grant = WideGrant /\ request = [origin |-> HttpsA, method |-> "GET", body |-> 0])
    /\ HttpHostInit
    /\ (IF focus = "senders" THEN TRUE ELSE channel = "call" /\ message = <<<<0, "x">>>>)
    /\ SendersInit
    /\ (IF focus = "mime" THEN TRUE ELSE mime_text = << >> /\ mime_subject = << >> /\ mime_tree = << >>)
    /\ Mime!Init
    /\ CliInit
Still(c, state) == IF focus = c THEN TRUE ELSE UNCHANGED state
In(c, A) ==
    /\ focus = c /\ A /\ UNCHANGED focus
    /\ Still("scheduler", schedulerVars)
    /\ Still("github", githubVars)
    /\ Still("dispatch", vars)
    /\ Still("authority", authorityVars)
    /\ Still("memory", memoryVars)
    /\ Still("blobs", blobVars)
    /\ Still("model", modelVars)
    /\ Still("hosts", httpHostVars)
    /\ Still("senders", senderVars)
    /\ Still("mime", mimeState)
    /\ Still("cli", cliVars)

PromisesNext ==
    \/ In("scheduler", SchedulerNext)
    \/ In("github", GitHubNext)
    \/ In("dispatch", Next)
    \/ In("authority", AuthorityNext)
    \/ In("memory", MemoryNext)
    \/ In("blobs", BlobsNext)
    \/ In("model", ModelNext)
    \/ In("hosts", HttpHostNext)
    \/ In("senders", SendersNext)
    \/ In("mime", Mime!Next)
    \/ In("cli", CliNext)
PromisesSpec == PromisesInit /\ [][PromisesNext]_promiseVars

-----------------------------------------------------------------------------
(* A message written is read back as it was (Mime.ReadAsWritten).             *)
ReadAsWritten == focus = "mime" => Mime!ReadAsWritten
=============================================================================
