------------------------------ MODULE Authority ------------------------------
(***************************************************************************)
(* Origin-scoped authority: what a request may do follows from the         *)
(* observation it goes back to.  A request is committed with the event     *)
(* that caused it; the resolver walks the causes to an observation of a    *)
(* configured connector and issues the standing grants and a reply grant   *)
(* confined to its conversation.  A derived observation (a scheduled one)  *)
(* issues nothing: it names the observation it derives from and must agree *)
(* with it, while cognition reads the claims of the derived one.           *)
(***************************************************************************)
EXTENDS Naturals, Sequences, FiniteSets, FiniteSetsExt

CONSTANTS Conversations,
          OriginClaims,       \* what observations say: [provider, conversation, trusted]
          Ingress,   \* ingress component -> [provider, inherits, reply, replies]
          StandingGrants,     \* capability -> operator grants: [provider, conversations]
          Bound,        \* capabilities whose provider binds the conversation of a request
          ProvidersOf,    \* capability -> the components that provide it
          Anyone,       \* a grant for any provider, or that any conversation satisfies
          MaxChain,     \* 4096
          MaxEvents

(* No connector, and no conversation, is called "any".                         *)
ASSUME AnyoneAssumption ==
    /\ MaxChain \in Nat
    /\ Anyone \notin Conversations
    /\ \A c \in OriginClaims : c.conversation \in Conversations
    /\ \A c \in DOMAIN Ingress : Ingress[c].reply # Anyone

VARIABLES trail,          \* committed events
          decisions     \* what the gate decided, event by event
authorityVars == <<trail, decisions>>

(* An event names its cause (0 for none); an observation also claims a        *)
(* provider, a conversation and trust, and a derived one the observation it   *)
(* comes from; a request names a capability, for a conversation.             *)
ObservationEvent(c, cause, claims, origin) ==
    [kind |-> "observation", actor |-> c, cause |-> cause, claims |-> claims, origin |-> origin,
     capability |-> "none"]
RequestEvent(cause, capability, conversation) ==
    [kind |-> "request", actor |-> "cognition", cause |-> cause, origin |-> 0, capability |-> capability,
     claims |-> [provider |-> "none", conversation |-> conversation, trusted |-> FALSE]]
AuthorityInit == trail = << >> /\ decisions = << >>
CommitEvent(e) == Len(trail) < MaxEvents /\ trail' = Append(trail, e) /\ UNCHANGED decisions

(* A component commits an observation: a connector's own, or a derived one,   *)
(* with the claims and the origin its author chose.  Cognition asks for       *)
(* something on behalf of an earlier event.                                   *)
CommitObservation(c) ==
    \E claims \in OriginClaims, cause \in 0 .. Len(trail), origin \in 0 .. Len(trail) :
        /\ IF Ingress[c].inherits THEN cause # 0 ELSE cause = 0 /\ origin = 0
        /\ CommitEvent(ObservationEvent(c, cause, claims, origin))
CommitRequest ==
    \E cause \in 1 .. Len(trail), capability \in DOMAIN ProvidersOf, conversation \in Conversations :
        CommitEvent(RequestEvent(cause, capability, conversation))

(* OriginAuthority::resolve: 0 an error, else the observation that issues.    *)
(* A step looks at one event, knowing what the derived observation before it  *)
(* said of the one it derives from; at most MaxChain events are looked at.    *)
SameClaimsAssumed(e, claims) == TRUE
SameClaims(e, claims) == e.claims = claims
Agrees(i, expected) == expected = << >> \/ (expected[1] = i /\ SameClaims(trail[i], expected[2]))
Expectations == {<< >>} \cup ((0 .. Len(trail)) \X OriginClaims)
ResolveStep(farther) == [i \in 0 .. Len(trail) |-> [expected \in Expectations |->
    IF i = 0 THEN 0
    ELSE IF trail[i].kind = "observation"
         THEN IF ~Agrees(i, expected) THEN 0
              ELSE IF ~Ingress[trail[i].actor].inherits THEN i
              ELSE IF trail[i].origin = 0 THEN 0
              ELSE farther[trail[i].cause][<<trail[i].origin, trail[i].claims>>]
    ELSE farther[trail[i].cause][expected]]]
ResolveOrigin[steps \in 0 .. MaxChain] ==
    IF steps = 0 THEN [i \in 0 .. Len(trail) |-> [expected \in Expectations |-> 0]]
    ELSE ResolveStep(ResolveOrigin[steps - 1])

(* OriginAuthority::issue: nothing for an untrusted origin, or one that       *)
(* claims another provider; a reply capability has the reply grant alone.     *)
ReplyGrant(o) == {[provider |-> Ingress[trail[o].actor].reply, conversations |-> {trail[o].claims.conversation}]}
Grants(o, capability) ==
    IF ~trail[o].claims.trusted \/ trail[o].claims.provider # Ingress[trail[o].actor].provider THEN {}
    ELSE IF capability \in Ingress[trail[o].actor].replies THEN ReplyGrant(o)
    ELSE StandingGrants[capability]

(* ProjectedConstraints: a constraint is satisfied only by a selector the     *)
(* provider's contract binds.                                                 *)
Allows(grant, capability, conversation) ==
    \/ grant.conversations = {Anyone}
    \/ capability \in Bound /\ conversation \in grant.conversations
AuthorityDecide(o, capability, provider, conversation) ==
    \E g \in Grants(o, capability) : g.provider \in {Anyone, provider} /\ Allows(g, capability, conversation)

(* route_request: the one registered provider of the capability.              *)
RouteRequest(o, capability, conversation) ==
    \E p \in ProvidersOf[capability] : ProvidersOf[capability] = {p} /\ AuthorityDecide(o, capability, p, conversation)

(* The gate takes the events in order and decides about the requests.         *)
GateEvent ==
    /\ Len(decisions) < Len(trail)
    /\ LET i == Len(decisions) + 1
           o == ResolveOrigin[MaxChain][i][<< >>]
           allowed == o # 0 /\ RouteRequest(o, trail[i].capability, trail[i].claims.conversation)
       IN  decisions' = Append(decisions, IF trail[i].kind # "request" THEN "none" ELSE IF allowed THEN "allowed" ELSE "denied")
    /\ UNCHANGED trail

AuthorityNext == (\E c \in DOMAIN Ingress : CommitObservation(c)) \/ CommitRequest \/ GateEvent
AuthoritySpec == AuthorityInit /\ [][AuthorityNext]_authorityVars

(* The observations a request goes back to: the smallest set that has the     *)
(* request and the cause of each of its events.                               *)
Causal(S) == \A k \in S : trail[k].cause \in S \cup {0}
Causes(i) == {j \in 1 .. i : \A S \in SUBSET (1 .. i) : i \in S /\ Causal(S) => j \in S}
Behind(i) == {j \in Causes(i) : trail[j].kind = "observation"}
OwnBehind(i) == {j \in Behind(i) : ~Ingress[trail[j].actor].inherits}
KeepsOrigin(i) ==
    LET near == trail[Max(Behind(i))]
        own == trail[Max(OwnBehind(i))]
    IN  /\ OwnBehind(i) # {} /\ near.claims.trusted
        /\ own.claims = near.claims
        /\ trail[i].capability \in Ingress[own.actor].replies =>
             /\ ProvidersOf[trail[i].capability] = {Ingress[own.actor].reply}
             /\ trail[i].claims.conversation = near.claims.conversation
(* What the gate allows is what the person behind the request may have: the   *)
(* observation cognition answers, however it was derived, is trusted, comes   *)
(* from a connector's own observation with the same claims, and a reply goes  *)
(* through that connector to that conversation only.                          *)
RequestKeepsOrigin == \A i \in DOMAIN decisions : decisions[i] = "allowed" => KeepsOrigin(i)
==============================================================================
