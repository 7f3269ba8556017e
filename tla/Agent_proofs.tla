---------------------------- MODULE Agent_proofs ----------------------------
(***************************************************************************)
(* The agent's loop: whose authority a request carries (Authority), and how *)
(* a component that exhausts its memory gets its events (Recovery).        *)
(***************************************************************************)
EXTENDS Authority, Recovery, NaturalsInduction, WellFoundedInduction, TLAPS

-----------------------------------------------------------------------------
(***************************************************************************)
(* Whatever events are committed, by whom and with which causes, a request *)
(* the gate allows acts for the connector's own observation it goes back   *)
(* to, and a reply for nobody else's conversation; for every set of        *)
(* connectors, grants and providers and any length of the chain of causes. *)
(***************************************************************************)

(* Every event comes after its cause and the observation it derives from.  *)
EventTyped(i) ==
    /\ trail[i].cause \in 0 .. i - 1
    /\ trail[i].kind = "observation" =>
         /\ trail[i].actor \in DOMAIN Ingress
         /\ trail[i].claims \in OriginClaims
         /\ trail[i].origin \in 0 .. i - 1
    /\ trail[i].kind = "request" => trail[i].claims.conversation \in Conversations
AuthorityTypeOK ==
    /\ Len(trail) \in Nat /\ DOMAIN trail = 1 .. Len(trail)
    /\ Len(decisions) \in 0 .. Len(trail) /\ DOMAIN decisions = 1 .. Len(decisions)
    /\ \E S : trail \in Seq(S)
    /\ \E S : decisions \in Seq(S)
    /\ \A i \in 1 .. Len(trail) : EventTyped(i)

-----------------------------------------------------------------------------
(* A set of numbers has a least one.                                       *)
LEMMA LeastNumber ==
    ASSUME NEW S \in SUBSET Nat, S # {}
    PROVE  \E x \in S : \A y \in S : x <= y
<1> DEFINE R == {ss \in Nat \X Nat : ss[1] < ss[2]}
<1>1. IsWellFoundedOn(R, Nat)
    BY NatLessThanWellFounded DEF OpToRel
<1>2. \A x \in Nat, y \in Nat : x < y => <<x, y>> \in R
    OBVIOUS
<1> HIDE DEF R
<1>3. S \subseteq Nat /\ S # {}
    OBVIOUS
<1>4. PICK x \in S : \A y \in S : ~(<<y, x>> \in R)
    BY ONLY <1>1, <1>3, WFMin
<1>5. \A y \in S : ~(y < x)
    BY <1>2, <1>3, <1>4
<1> QED BY <1>3, <1>4, <1>5

(* Induction, with the set of the numbers that have the property.          *)
LEMMA NumbersInduct ==
    ASSUME NEW S, 0 \in S, \A n \in Nat : n \in S => n + 1 \in S
    PROVE  \A n \in Nat : n \in S
<1> SUFFICES ASSUME NEW n \in Nat, n \notin S PROVE FALSE
    OBVIOUS
<1>1. PICK T \in SUBSET Nat : T = {k \in Nat : k \notin S}
    OBVIOUS
<1>2. PICK x \in T : \A y \in T : x <= y
    BY <1>1, LeastNumber
<1>3. x # 0 /\ x - 1 \in Nat /\ x - 1 \notin T
    BY <1>1, <1>2
<1> QED BY <1>1, <1>3

(* A bounded set of numbers has a greatest one.                            *)
LEMMA GreatestNumber ==
    ASSUME NEW n \in Nat, NEW S \in SUBSET (1 .. n), S # {}
    PROVE  Max(S) \in S /\ \A j \in S : j <= Max(S)
<1>1. PICK T \in SUBSET Nat : T = {k \in Nat : \A j \in S : j <= k}
    OBVIOUS
<1>2. n \in T
    BY <1>1
<1>3. PICK x \in T : \A y \in T : x <= y
    BY <1>1, <1>2, LeastNumber
<1>4. x # 0
    <2>1. PICK y \in S : y \in 1 .. n
        OBVIOUS
    <2>2. y <= x
        BY <1>1, <1>3, <2>1
    <2> QED BY <1>3, <2>1, <2>2
<1>5. x \in S
    <2> SUFFICES ASSUME x \notin S PROVE FALSE
        OBVIOUS
    <2>1. x - 1 \in T
        BY <1>1, <1>3, <1>4
    <2> QED BY <1>3, <2>1
<1>6. \E m \in S : \A j \in S : m >= j
    BY <1>1, <1>3, <1>5
<1>7. Max(S) \in S /\ \A j \in S : Max(S) >= j
    BY <1>6 DEF Max
<1> QED BY <1>7

(* One function after the other, as the loop of resolve goes on.           *)
LEMMA ResolveOriginUnfolds ==
    /\ ResolveOrigin[0] = [i \in 0 .. Len(trail) |-> [expected \in Expectations |-> 0]]
    /\ \A n \in 1 .. MaxChain : ResolveOrigin[n] = ResolveStep(ResolveOrigin[n - 1])
<1>1. PICK b : b = [i \in 0 .. Len(trail) |-> [expected \in Expectations |-> 0]]
    OBVIOUS
<1> DEFINE S == {k \in Nat : \E f : f = [n \in 0 .. k |-> IF n = 0 THEN b ELSE ResolveStep(f[n - 1])]}
<1>2. 0 \in S
    <2>1. [n \in 0 .. 0 |-> b] = [n \in 0 .. 0 |-> IF n = 0 THEN b ELSE ResolveStep([m \in 0 .. 0 |-> b][n - 1])]
        OBVIOUS
    <2> QED BY <2>1
<1>3. ASSUME NEW k \in Nat, k \in S PROVE k + 1 \in S
    <2>1. PICK f : f = [n \in 0 .. k |-> IF n = 0 THEN b ELSE ResolveStep(f[n - 1])]
        BY <1>3
    <2>2. PICK top : top = ResolveStep(f[k])
        OBVIOUS
    <2>3. PICK g : g = [n \in 0 .. k + 1 |-> IF n = k + 1 THEN top ELSE f[n]]
        OBVIOUS
    <2>4. g = [n \in 0 .. k + 1 |-> IF n = 0 THEN b ELSE ResolveStep(g[n - 1])]
        <3>1. g[k + 1] = ResolveStep(g[k])
            <4>1. g[k + 1] = top /\ g[k] = f[k]
                BY <2>3
            <4> QED BY <2>2, <4>1
        <3>2. ASSUME NEW n \in 0 .. k PROVE g[n] = IF n = 0 THEN b ELSE ResolveStep(g[n - 1])
            <4>1. g[n] = f[n] /\ f[n] = IF n = 0 THEN b ELSE ResolveStep(f[n - 1])
                BY <2>1, <2>3
            <4>2. n # 0 => g[n - 1] = f[n - 1]
                BY <2>3
            <4> QED BY <4>1, <4>2
        <3>3. ASSUME NEW n \in 0 .. k + 1 PROVE g[n] = IF n = 0 THEN b ELSE ResolveStep(g[n - 1])
            <4>1. n \in 0 .. k \/ (n = k + 1 /\ n # 0 /\ n - 1 = k)
                OBVIOUS
            <4>2. CASE n = k + 1 /\ n # 0 /\ n - 1 = k
                BY <3>1, <4>2
            <4> QED BY <3>2, <4>1, <4>2
        <3> QED BY <2>3, <3>3
    <2> QED BY <2>4
<1>4. MaxChain \in S
    <2> HIDE DEF S
    <2> QED BY <1>2, <1>3, NumbersInduct, AnyoneAssumption
<1>5. \E f : f = [n \in 0 .. MaxChain |-> IF n = 0 THEN b ELSE ResolveStep(f[n - 1])]
    BY <1>4
<1>6. ResolveOrigin = CHOOSE f : f = [n \in 0 .. MaxChain |-> IF n = 0 THEN b ELSE ResolveStep(f[n - 1])]
    BY <1>1 DEF ResolveOrigin
<1>7. ResolveOrigin = [n \in 0 .. MaxChain |-> IF n = 0 THEN b ELSE ResolveStep(ResolveOrigin[n - 1])]
    BY <1>5, <1>6
<1>8. ResolveOrigin[0] = b
    BY <1>7, AnyoneAssumption
<1>9. \A n \in 1 .. MaxChain : ResolveOrigin[n] = ResolveStep(ResolveOrigin[n - 1])
    BY <1>7, AnyoneAssumption
<1> QED BY <1>1, <1>8, <1>9

-----------------------------------------------------------------------------
(* The causes of an event are the event and the causes of its cause.       *)
LEMMA CausesOfOne ==
    ASSUME AuthorityTypeOK, NEW i \in 1 .. Len(trail)
    PROVE  /\ i \in Causes(i) /\ Causes(i) \subseteq 1 .. i
           /\ Causal(Causes(i))
<1>1. i \in Causes(i) /\ Causes(i) \subseteq 1 .. i
    BY DEF Causes, AuthorityTypeOK
<1>2. ASSUME NEW k \in Causes(i), trail[k].cause # 0 PROVE trail[k].cause \in Causes(i)
    <2>1. trail[k].cause \in 1 .. i
        BY <1>1, <1>2 DEF AuthorityTypeOK, EventTyped
    <2>2. ASSUME NEW T \in SUBSET (1 .. i), i \in T, Causal(T) PROVE trail[k].cause \in T
        <3>1. k \in T
            BY <2>2 DEF Causes
        <3> QED BY <1>2, <2>2, <3>1 DEF Causal
    <2> QED BY <2>1, <2>2 DEF Causes
<1> QED BY <1>1, <1>2 DEF Causal

LEMMA CausesUnfold ==
    ASSUME AuthorityTypeOK, NEW i \in 1 .. Len(trail)
    PROVE  Causes(i) = {i} \cup (IF trail[i].cause = 0 THEN {} ELSE Causes(trail[i].cause))
<1>1. PICK c : c = trail[i].cause
    OBVIOUS
<1>2. c \in 0 .. i - 1 /\ i \in Nat /\ i \in 1 .. i /\ c \in Nat
    BY <1>1 DEF AuthorityTypeOK, EventTyped
<1>3. i \in Causes(i) /\ Causes(i) \subseteq 1 .. i /\ Causal(Causes(i))
    BY CausesOfOne
<1>4. CASE c = 0
    <2>1. Causal({i}) /\ {i} \in SUBSET (1 .. i)
        BY <1>1, <1>2, <1>4 DEF Causal
    <2>2. Causes(i) \subseteq {i}
        BY <2>1 DEF Causes
    <2> QED BY <1>1, <1>3, <1>4, <2>2
<1>5. CASE c # 0
    <2>1. c \in 1 .. Len(trail) /\ c \in 1 .. i
        BY <1>2, <1>5 DEF AuthorityTypeOK
    <2>2. c \in Causes(c) /\ Causes(c) \subseteq 1 .. c /\ Causal(Causes(c))
        BY <2>1, CausesOfOne
    <2>3. Causes(i) \subseteq {i} \cup Causes(c)
        <3> DEFINE T == {i} \cup Causes(c)
        <3>1. T \in SUBSET (1 .. i)
            BY <1>2, <2>1, <2>2
        <3>2. Causal(T)
            BY <1>1, <2>2 DEF Causal
        <3> QED BY <3>1, <3>2 DEF Causes
    <2>4. ASSUME NEW j \in Causes(c) PROVE j \in Causes(i)
        <3>1. j \in 1 .. i
            BY <2>1, <2>2, <1>2
        <3>2. ASSUME NEW T \in SUBSET (1 .. i), i \in T, Causal(T) PROVE j \in T
            <4>1. c \in T
                BY <1>1, <1>5, <3>2 DEF Causal
            <4>2. PICK U : U = T \cap (1 .. c)
                OBVIOUS
            <4>3. ASSUME NEW k \in U PROVE trail[k].cause \in U \cup {0}
                <5>1. k \in T /\ k \in 1 .. c /\ k \in 1 .. Len(trail)
                    BY <4>2, <4>3, <2>1
                <5>2. trail[k].cause \in 0 .. k - 1 /\ trail[k].cause \in T \cup {0}
                    BY <5>1, <3>2 DEF AuthorityTypeOK, EventTyped, Causal
                <5> QED BY <1>2, <4>2, <5>1, <5>2
            <4>4. Causal(U) /\ c \in U /\ U \in SUBSET (1 .. c)
                BY <4>1, <4>2, <4>3, <2>1 DEF Causal
            <4> QED BY <4>2, <4>4 DEF Causes
        <3> QED BY <3>1, <3>2 DEF Causes
    <2> QED BY <1>1, <1>3, <1>5, <2>3, <2>4
<1> QED BY <1>4, <1>5

(* What the walk from an event finds: the nearest observation that is a    *)
(* connector's own, with the claims of the nearest observation of all and  *)
(* with those expected by the derived observation before it.               *)
Found(i, expected, o) ==
    /\ o \in OwnBehind(i) /\ \A j \in OwnBehind(i) : j <= o
    /\ \E n \in Behind(i) :
         /\ \A j \in Behind(i) : j <= n
         /\ trail[n].claims = trail[o].claims
         /\ expected # << >> => expected[2] = trail[n].claims
FoundIn(R) ==
    \A i \in 1 .. Len(trail), expected \in Expectations :
        R[i][expected] # 0 => Found(i, expected, R[i][expected])
ZeroAtZero(R) == \A expected \in Expectations : R[0][expected] = 0

(* One step of the walk keeps that.                                        *)
LEMMA ResolveStepFinds ==
    ASSUME AuthorityTypeOK, NEW R, FoundIn(R), ZeroAtZero(R)
    PROVE  FoundIn(ResolveStep(R)) /\ ZeroAtZero(ResolveStep(R))
<1>1. ZeroAtZero(ResolveStep(R))
    BY DEF ZeroAtZero, ResolveStep, AuthorityTypeOK
<1>2. ASSUME NEW i \in 1 .. Len(trail), NEW x \in Expectations, ResolveStep(R)[i][x] # 0
      PROVE  Found(i, x, ResolveStep(R)[i][x])
    <2>1. PICK c : c = trail[i].cause
        OBVIOUS
    <2>2. c \in 0 .. i - 1 /\ i \in 1 .. Len(trail) /\ i \in 0 .. Len(trail) /\ i # 0 /\ EventTyped(i)
        BY <2>1 DEF AuthorityTypeOK, EventTyped
    <2>3. Causes(i) = {i} \cup (IF c = 0 THEN {} ELSE Causes(c))
        BY <2>1, CausesUnfold
    <2>4. c # 0 => c \in 1 .. Len(trail) /\ \A j \in Causes(c) : j \in Nat /\ j <= c
        BY <2>2, CausesOfOne DEF AuthorityTypeOK
    <2>5. ResolveStep(R)[i][x] =
            IF trail[i].kind = "observation"
            THEN IF ~Agrees(i, x) THEN 0
                 ELSE IF ~Ingress[trail[i].actor].inherits THEN i
                 ELSE IF trail[i].origin = 0 THEN 0
                 ELSE R[c][<<trail[i].origin, trail[i].claims>>]
            ELSE R[c][x]
        BY <2>1, <2>2 DEF ResolveStep
    <2>6. PICK o : o = ResolveStep(R)[i][x]
        OBVIOUS
    <2>7. CASE trail[i].kind = "observation" /\ ~Ingress[trail[i].actor].inherits
        <3>1. o = i /\ Agrees(i, x)
            BY <1>2, <2>5, <2>6, <2>7
        <3>2. i \in OwnBehind(i) /\ \A j \in Behind(i) : j <= i
            BY <2>2, <2>3, <2>4, <2>7 DEF OwnBehind, Behind
        <3>3. x # << >> => x[2] = trail[i].claims
            BY <3>1 DEF Agrees, SameClaims
        <3> QED BY <2>6, <3>1, <3>2, <3>3 DEF Found, OwnBehind
    <2>8. CASE trail[i].kind = "observation" /\ Ingress[trail[i].actor].inherits
        <3>1. PICK y : y = <<trail[i].origin, trail[i].claims>>
            OBVIOUS
        <3>2. o = R[c][y] /\ Agrees(i, x)
            BY <1>2, <2>5, <2>6, <2>8, <3>1
        <3>3. trail[i].origin \in 0 .. Len(trail) /\ trail[i].claims \in OriginClaims
            BY <2>2, <2>8 DEF EventTyped, AuthorityTypeOK
        <3>4. y \in Expectations /\ y # << >> /\ y[2] = trail[i].claims
            BY <3>1, <3>3 DEF Expectations
        <3>5. c # 0
            BY <3>2, <3>4, <1>2, <2>6 DEF ZeroAtZero
        <3>6. Found(c, y, o)
            BY <3>2, <3>4, <3>5, <2>4, <1>2, <2>6 DEF FoundIn
        <3>7. o \in OwnBehind(i) /\ \A j \in OwnBehind(i) : j <= o
            BY <2>3, <2>8, <3>5, <3>6 DEF Found, OwnBehind, Behind
        <3>8. i \in Behind(i) /\ \A j \in Behind(i) : j <= i
            BY <2>2, <2>3, <2>4, <2>8 DEF Behind
        <3>9. trail[i].claims = trail[o].claims /\ (x # << >> => x[2] = trail[i].claims)
            BY <3>2, <3>4, <3>6 DEF Found, Agrees, SameClaims
        <3> QED BY <2>6, <3>7, <3>8, <3>9 DEF Found
    <2>9. CASE trail[i].kind # "observation"
        <3>1. o = R[c][x]
            BY <2>5, <2>6, <2>9
        <3>2. c # 0
            BY <3>1, <1>2, <2>6 DEF ZeroAtZero
        <3>3. Found(c, x, o)
            BY <3>1, <3>2, <2>4, <1>2, <2>6 DEF FoundIn
        <3>4. Behind(i) = Behind(c) /\ OwnBehind(i) = OwnBehind(c)
            BY <2>3, <2>9, <3>2 DEF Behind, OwnBehind
        <3> QED BY <2>6, <3>3, <3>4 DEF Found
    <2> QED BY <2>7, <2>8, <2>9
<1> QED BY <1>1, <1>2 DEF FoundIn

(* The walk of a bounded number of steps, by induction on their number.    *)
LEMMA ResolveOriginFinds ==
    ASSUME AuthorityTypeOK, NEW i \in 1 .. Len(trail), ResolveOrigin[MaxChain][i][<< >>] # 0
    PROVE  Found(i, << >>, ResolveOrigin[MaxChain][i][<< >>])
<1> DEFINE S == {n \in Nat : n <= MaxChain => FoundIn(ResolveOrigin[n]) /\ ZeroAtZero(ResolveOrigin[n])}
<1>1. 0 \in S
    <2>1. ResolveOrigin[0] = [k \in 0 .. Len(trail) |-> [expected \in Expectations |-> 0]]
        BY ResolveOriginUnfolds
    <2>2. FoundIn(ResolveOrigin[0]) /\ ZeroAtZero(ResolveOrigin[0])
        BY <2>1 DEF FoundIn, ZeroAtZero, AuthorityTypeOK
    <2> QED BY <2>2
<1>2. ASSUME NEW n \in Nat, n \in S PROVE n + 1 \in S
    <2> SUFFICES ASSUME n + 1 <= MaxChain
                 PROVE  FoundIn(ResolveOrigin[n + 1]) /\ ZeroAtZero(ResolveOrigin[n + 1])
        OBVIOUS
    <2>1. FoundIn(ResolveOrigin[n]) /\ ZeroAtZero(ResolveOrigin[n])
        BY <1>2, AnyoneAssumption
    <2>2. n + 1 \in 1 .. MaxChain /\ (n + 1) - 1 = n
        BY AnyoneAssumption
    <2>3. ResolveOrigin[n + 1] = ResolveStep(ResolveOrigin[n])
        BY <2>2, ResolveOriginUnfolds
    <2> QED BY <2>1, <2>3, ResolveStepFinds
<1>3. MaxChain \in S
    <2> HIDE DEF S
    <2> QED BY <1>1, <1>2, NumbersInduct, AnyoneAssumption
<1>4. FoundIn(ResolveOrigin[MaxChain])
    BY <1>3, AnyoneAssumption
<1>5. << >> \in Expectations
    BY DEF Expectations
<1> QED BY <1>4, <1>5 DEF FoundIn

-----------------------------------------------------------------------------
(* What the gate decides on is behind the request whatever comes after it. *)
LEMMA BehindStays ==
    ASSUME AuthorityTypeOK, NEW e, trail' = Append(trail, e), NEW i \in 1 .. Len(trail)
    PROVE  /\ trail'[i] = trail[i]
           /\ Behind(i)' = Behind(i) /\ OwnBehind(i)' = OwnBehind(i)
           /\ \A j \in Behind(i) : trail'[j] = trail[j]
<1>1. \A k \in 1 .. i : trail'[k] = trail[k]
    BY DEF AuthorityTypeOK
<1>2. \A T \in SUBSET (1 .. i) : Causal(T)' <=> Causal(T)
    BY <1>1 DEF Causal
<1>3. Causes(i)' = Causes(i) /\ Causes(i) \subseteq 1 .. i
    BY <1>2 DEF Causes
<1>4. Behind(i)' = Behind(i) /\ Behind(i) \subseteq 1 .. i
    BY <1>1, <1>3 DEF Behind
<1>5. OwnBehind(i)' = OwnBehind(i)
    BY <1>1, <1>4 DEF OwnBehind
<1>6. i \in 1 .. i
    BY DEF AuthorityTypeOK
<1> QED BY <1>1, <1>4, <1>5, <1>6

(* Every step commits an event after its cause, or decides about one more. *)
LEMMA AuthorityStep ==
    ASSUME AuthorityTypeOK, AuthorityNext
    PROVE  \/ /\ UNCHANGED decisions
              /\ \E e : /\ trail' = Append(trail, e)
                        /\ e.cause \in 0 .. Len(trail)
                        /\ e.kind = "observation" =>
                             /\ e.actor \in DOMAIN Ingress /\ e.claims \in OriginClaims
                             /\ e.origin \in 0 .. Len(trail)
                        /\ e.kind = "request" => e.claims.conversation \in Conversations
           \/ GateEvent
<1>1. ASSUME NEW c \in DOMAIN Ingress, CommitObservation(c)
      PROVE  /\ UNCHANGED decisions
             /\ \E e : /\ trail' = Append(trail, e)
                       /\ e.cause \in 0 .. Len(trail)
                       /\ e.kind = "observation" =>
                            /\ e.actor \in DOMAIN Ingress /\ e.claims \in OriginClaims
                            /\ e.origin \in 0 .. Len(trail)
                       /\ e.kind = "request" => e.claims.conversation \in Conversations
    <2>1. PICK claims \in OriginClaims, cause \in 0 .. Len(trail), origin \in 0 .. Len(trail) :
              CommitEvent(ObservationEvent(c, cause, claims, origin))
        BY <1>1 DEF CommitObservation
    <2>2. PICK e : e = ObservationEvent(c, cause, claims, origin)
        OBVIOUS
    <2>3. /\ e.cause = cause /\ e.kind = "observation" /\ e.actor = c /\ e.claims = claims
          /\ e.origin = origin
        BY <2>2 DEF ObservationEvent
    <2>4. trail' = Append(trail, e) /\ UNCHANGED decisions
        BY <2>1, <2>2 DEF CommitEvent
    <2> QED BY <2>3, <2>4
<1>2. ASSUME CommitRequest
      PROVE  /\ UNCHANGED decisions
             /\ \E e : /\ trail' = Append(trail, e)
                       /\ e.cause \in 0 .. Len(trail)
                       /\ e.kind = "observation" =>
                            /\ e.actor \in DOMAIN Ingress /\ e.claims \in OriginClaims
                            /\ e.origin \in 0 .. Len(trail)
                       /\ e.kind = "request" => e.claims.conversation \in Conversations
    <2>1. PICK cause \in 1 .. Len(trail), capability \in DOMAIN ProvidersOf, conversation \in Conversations :
              CommitEvent(RequestEvent(cause, capability, conversation))
        BY <1>2 DEF CommitRequest
    <2>2. PICK e : e = RequestEvent(cause, capability, conversation)
        OBVIOUS
    <2>3. e.cause = cause /\ e.kind = "request" /\ e.claims.conversation = conversation
        BY <2>2 DEF RequestEvent
    <2>4. trail' = Append(trail, e) /\ UNCHANGED decisions
        BY <2>1, <2>2 DEF CommitEvent
    <2>5. e.cause \in 0 .. Len(trail)
        BY <2>3 DEF AuthorityTypeOK
    <2> QED BY <2>3, <2>4, <2>5
<1> QED BY <1>1, <1>2 DEF AuthorityNext

(* Events come after their causes, decisions after the events.             *)
LEMMA AuthorityKeepsTypes ==
    ASSUME AuthorityTypeOK, [AuthorityNext]_authorityVars
    PROVE  AuthorityTypeOK'
<1>1. CASE UNCHANGED authorityVars
    BY <1>1 DEF AuthorityTypeOK, EventTyped, authorityVars
<1>2. ASSUME NEW e, trail' = Append(trail, e), UNCHANGED decisions, e.cause \in 0 .. Len(trail),
             e.kind = "observation" =>
               /\ e.actor \in DOMAIN Ingress /\ e.claims \in OriginClaims /\ e.origin \in 0 .. Len(trail),
             e.kind = "request" => e.claims.conversation \in Conversations
      PROVE  AuthorityTypeOK'
    <2>1. Len(trail') = Len(trail) + 1 /\ DOMAIN trail' = 1 .. Len(trail') /\ Len(trail) \in Nat
        BY <1>2 DEF AuthorityTypeOK
    <2>2. trail'[Len(trail) + 1] = e /\ \A i \in 1 .. Len(trail) : trail'[i] = trail[i]
        BY <1>2 DEF AuthorityTypeOK
    <2>3. ASSUME NEW i \in 1 .. Len(trail') PROVE EventTyped(i)'
        <3>1. CASE i = Len(trail) + 1
            BY <1>2, <2>1, <2>2, <3>1 DEF EventTyped
        <3>2. CASE i \in 1 .. Len(trail)
            BY <2>2, <3>2 DEF EventTyped, AuthorityTypeOK
        <3> QED BY <2>1, <3>1, <3>2
    <2>4. \E S : trail' \in Seq(S)
        <3>1. PICK S : trail \in Seq(S)
            BY DEF AuthorityTypeOK
        <3>2. trail' \in Seq(S \cup {e})
            BY <1>2, <3>1
        <3> QED BY <3>2
    <2> QED BY <1>2, <2>1, <2>3, <2>4 DEF AuthorityTypeOK
<1>3. CASE GateEvent
    <2>1. PICK d : decisions' = Append(decisions, d) /\ UNCHANGED trail /\ Len(decisions) < Len(trail)
        BY <1>3 DEF GateEvent
    <2>2. Len(decisions') = Len(decisions) + 1 /\ DOMAIN decisions' = 1 .. Len(decisions')
        BY <2>1 DEF AuthorityTypeOK
    <2>3. \E S : decisions' \in Seq(S)
        <3>1. PICK S : decisions \in Seq(S)
            BY DEF AuthorityTypeOK
        <3>2. decisions' \in Seq(S \cup {d})
            BY <2>1, <3>1
        <3> QED BY <3>2
    <2> QED BY <2>1, <2>2, <2>3 DEF AuthorityTypeOK, EventTyped
<1> QED BY <1>1, <1>2, <1>3, AuthorityStep

(* What the gate allows is what the observation it found issues.           *)
LEMMA GateKeepsOrigin ==
    ASSUME AuthorityTypeOK, GateEvent, NEW i, i = Len(decisions) + 1, decisions'[i] = "allowed"
    PROVE  KeepsOrigin(i)
<1>1. i \in 1 .. Len(trail) /\ EventTyped(i)
    BY DEF GateEvent, AuthorityTypeOK
<1>2. PICK o : o = ResolveOrigin[MaxChain][i][<< >>]
    OBVIOUS
<1>3. PICK allowed : allowed = (o # 0 /\ RouteRequest(o, trail[i].capability, trail[i].claims.conversation))
    OBVIOUS
<1>4. decisions' = Append(decisions, IF trail[i].kind # "request" THEN "none" ELSE IF allowed THEN "allowed" ELSE "denied")
    BY <1>2, <1>3 DEF GateEvent
<1>5. decisions'[i] = IF trail[i].kind # "request" THEN "none" ELSE IF allowed THEN "allowed" ELSE "denied"
    BY <1>4 DEF AuthorityTypeOK
<1>6. trail[i].kind = "request" /\ allowed
    BY <1>5
<1>7. o # 0 /\ RouteRequest(o, trail[i].capability, trail[i].claims.conversation)
    BY <1>3, <1>6
<1>8. Found(i, << >>, o)
    BY <1>1, <1>2, <1>7, ResolveOriginFinds
<1>9. PICK n \in Behind(i) : (\A j \in Behind(i) : j <= n) /\ trail[n].claims = trail[o].claims
    BY <1>8 DEF Found
<1>10. Behind(i) \in SUBSET Nat /\ OwnBehind(i) \in SUBSET Nat /\ Behind(i) \subseteq 1 .. Len(trail)
    BY <1>1 DEF OwnBehind, Behind, Causes, AuthorityTypeOK
<1>11. Max(Behind(i)) = n /\ Max(OwnBehind(i)) = o
    <2>1. OwnBehind(i) # {} /\ OwnBehind(i) \in SUBSET (1 .. Len(trail)) /\ Behind(i) # {}
        BY <1>8, <1>9, <1>10 DEF Found, OwnBehind
    <2>2. /\ Max(Behind(i)) \in Behind(i) /\ \A j \in Behind(i) : j <= Max(Behind(i))
          /\ Max(OwnBehind(i)) \in OwnBehind(i) /\ \A j \in OwnBehind(i) : j <= Max(OwnBehind(i))
        BY <1>10, <2>1, GreatestNumber DEF AuthorityTypeOK
    <2>3. \A m \in OwnBehind(i) : o <= m /\ m <= o => m = o
        BY <1>8, <1>10 DEF Found
    <2>4. \A m \in Behind(i) : n <= m /\ m <= n => m = n
        BY <1>9, <1>10
    <2> QED BY <1>8, <1>9, <2>2, <2>3, <2>4 DEF Found
<1>12. /\ o \in 1 .. Len(trail) /\ trail[o].actor \in DOMAIN Ingress
       /\ trail[o].claims.conversation \in Conversations
    BY <1>8, <1>10, AnyoneAssumption DEF Found, OwnBehind, Behind, AuthorityTypeOK, EventTyped
<1>13. PICK p \in ProvidersOf[trail[i].capability] :
           /\ ProvidersOf[trail[i].capability] = {p}
           /\ AuthorityDecide(o, trail[i].capability, p, trail[i].claims.conversation)
    BY <1>7 DEF RouteRequest
<1>14. PICK g \in Grants(o, trail[i].capability) :
           g.provider \in {Anyone, p} /\ Allows(g, trail[i].capability, trail[i].claims.conversation)
    BY <1>13 DEF AuthorityDecide
<1>15. trail[o].claims.trusted
    BY <1>14 DEF Grants
<1>16. ASSUME trail[i].capability \in Ingress[trail[o].actor].replies
       PROVE  /\ p = Ingress[trail[o].actor].reply
              /\ trail[i].claims.conversation = trail[o].claims.conversation
    <2>1. Grants(o, trail[i].capability) \subseteq ReplyGrant(o)
        BY <1>16 DEF Grants
    <2>2. /\ g.provider = Ingress[trail[o].actor].reply
          /\ g.conversations = {trail[o].claims.conversation}
        BY <1>14, <2>1 DEF ReplyGrant
    <2>3. g.provider # Anyone /\ g.conversations # {Anyone}
        BY <1>12, <2>2, AnyoneAssumption
    <2> QED BY <1>14, <2>2, <2>3 DEF Allows
<1> QED BY <1>8, <1>9, <1>11, <1>13, <1>15, <1>16 DEF Found, KeepsOrigin

-----------------------------------------------------------------------------
AuthorityIInv == AuthorityTypeOK /\ RequestKeepsOrigin

LEMMA AuthorityInitHolds ==
    ASSUME AuthorityInit
    PROVE  AuthorityIInv
<1>1. << >> \in Seq({}) /\ Len(<< >>) = 0 /\ DOMAIN << >> = 1 .. 0
    OBVIOUS
<1> QED BY <1>1 DEF AuthorityInit, AuthorityIInv, AuthorityTypeOK, RequestKeepsOrigin

LEMMA AuthorityNextKeeps ==
    ASSUME AuthorityIInv, [AuthorityNext]_authorityVars
    PROVE  AuthorityIInv'
<1>1. AuthorityTypeOK /\ RequestKeepsOrigin
    BY DEF AuthorityIInv
<1>2. AuthorityTypeOK'
    BY <1>1, AuthorityKeepsTypes
<1>3. CASE UNCHANGED authorityVars
    <2>1. trail' = trail /\ decisions' = decisions
        BY <1>3 DEF authorityVars
    <2>2. \A i : KeepsOrigin(i)' <=> KeepsOrigin(i)
        BY <2>1 DEF KeepsOrigin, OwnBehind, Behind, Causes, Causal
    <2>3. ASSUME NEW i \in DOMAIN decisions', decisions'[i] = "allowed" PROVE KeepsOrigin(i)'
        <3>1. KeepsOrigin(i)
            BY <1>1, <2>1, <2>3 DEF RequestKeepsOrigin
        <3> QED BY <2>2, <3>1
    <2> QED BY <1>2, <2>3 DEF RequestKeepsOrigin, AuthorityIInv
<1>4. ASSUME NEW e, trail' = Append(trail, e), UNCHANGED decisions PROVE RequestKeepsOrigin'
    <2> SUFFICES ASSUME NEW i \in 1 .. Len(trail), KeepsOrigin(i)
                 PROVE  KeepsOrigin(i)'
        BY <1>1, <1>4 DEF RequestKeepsOrigin, AuthorityTypeOK
    <2>1. /\ trail'[i] = trail[i]
          /\ Behind(i)' = Behind(i) /\ OwnBehind(i)' = OwnBehind(i)
          /\ \A j \in Behind(i) : trail'[j] = trail[j]
        BY <1>1, <1>4, BehindStays
    <2>2. Behind(i) \in SUBSET (1 .. i) /\ OwnBehind(i) \in SUBSET (1 .. i) /\ OwnBehind(i) # {} /\ Behind(i) # {}
        <3>1. Behind(i) \in SUBSET (1 .. i) /\ OwnBehind(i) \subseteq Behind(i)
            BY DEF OwnBehind, Behind, Causes
        <3>2. OwnBehind(i) # {}
            BY DEF KeepsOrigin
        <3> QED BY <3>1, <3>2
    <2>3. Max(Behind(i)) \in Behind(i) /\ Max(OwnBehind(i)) \in OwnBehind(i)
        <3>1. i \in Nat
            BY <1>1 DEF AuthorityTypeOK
        <3> QED BY <2>2, <3>1, GreatestNumber
    <2>4. PICK near, own : near = Max(Behind(i)) /\ own = Max(OwnBehind(i))
        OBVIOUS
    <2>5. near = Max(Behind(i))' /\ own = Max(OwnBehind(i))' /\ trail'[near] = trail[near] /\ trail'[own] = trail[own]
        BY <2>1, <2>3, <2>4 DEF OwnBehind
    <2> QED BY <2>1, <2>4, <2>5 DEF KeepsOrigin
<1>5. CASE GateEvent
    <2>1. PICK d : decisions' = Append(decisions, d) /\ UNCHANGED trail
        BY <1>5 DEF GateEvent
    <2>2. \A i : KeepsOrigin(i)' <=> KeepsOrigin(i)
        BY <2>1 DEF KeepsOrigin, OwnBehind, Behind, Causes, Causal
    <2>3. ASSUME NEW i \in DOMAIN decisions', decisions'[i] = "allowed" PROVE KeepsOrigin(i)
        <3>1. CASE i = Len(decisions) + 1
            BY <1>1, <1>5, <2>3, <3>1, GateKeepsOrigin
        <3>2. CASE i # Len(decisions) + 1
            <4>1. i \in DOMAIN decisions /\ decisions'[i] = decisions[i]
                BY <1>1, <2>1, <2>3, <3>2 DEF AuthorityTypeOK
            <4> QED BY <1>1, <2>3, <4>1 DEF RequestKeepsOrigin
        <3> QED BY <3>1, <3>2
    <2>4. ASSUME NEW i \in DOMAIN decisions', decisions'[i] = "allowed" PROVE KeepsOrigin(i)'
        BY <2>2, <2>3, <2>4
    <2> QED BY <1>2, <2>4 DEF RequestKeepsOrigin, AuthorityIInv
<1> QED BY <1>1, <1>2, <1>3, <1>4, <1>5, AuthorityStep DEF AuthorityIInv

(* What the gate allows is what the person behind the request may have.    *)
THEOREM AuthorityRequestKeepsOrigin == AuthoritySpec => []RequestKeepsOrigin
<1>1. AuthorityInit => AuthorityIInv
    BY AuthorityInitHolds
<1>2. AuthorityIInv /\ [AuthorityNext]_authorityVars => AuthorityIInv'
    BY AuthorityNextKeeps
<1>3. AuthorityIInv => RequestKeepsOrigin
    BY DEF AuthorityIInv
<1> QED BY <1>1, <1>2, <1>3, PTL DEF AuthoritySpec

-----------------------------------------------------------------------------
(***************************************************************************)
(* No event of a component that runs out of memory is passed without being *)
(* handled or recorded, and none is given up before its third failure,     *)
(* wherever the process dies; for any events, size of batches and bounds.  *)
(***************************************************************************)

HealthTyped(h) ==
    /\ h.kind \in {"backoff", "recovered", "failed"}
    /\ h.kind = "backoff" => h.key \in Keys /\ h.n \in Nat
    /\ h.kind = "recovered" => h.whole \in BOOLEAN
RecoveryTypeOK ==
    /\ cursor \in 0 .. LastEvent
    /\ \E S : health \in Seq(S)
    /\ \A i \in 1 .. Len(health) : HealthTyped(health[i])
    /\ pinned \in BOOLEAN
    /\ mem.backoff \in [Keys -> Nat] /\ mem.reduced \in BOOLEAN
    /\ mem.through \in 0 .. Len(health)
    /\ mem = [backoff |-> mem.backoff, reduced |-> mem.reduced, failed |-> mem.failed, through |-> mem.through]
    /\ attempts \in [Events -> Nat] /\ crashes \in Nat

(* The count of an event in the stream: what a restarted process knows.    *)
Recorded(e) == Learned(NoMemory, e)
(* The events that may still be delivered or whose failure is recorded.    *)
Open(e) == e > cursor \/ (failing # NoBatch /\ e = failing.first)

(* The batch that failed: the next one, which a pinned component skipped.  *)
FailingIs ==
    \/ failing = NoBatch
    \/ /\ failing = Batch(failing.first, failing.last)
       /\ failing.first \in Events /\ failing.last \in failing.first .. LastEvent
       /\ mem.through = Len(health)
       /\ Alone(failing) => failing.first \in Poison
       /\ ~Alone(failing) => Recorded(failing.first) = 0
       /\ IF pinned THEN cursor = failing.last /\ EventsOf(failing) \subseteq lost /\ lost \subseteq 1 .. cursor
                    ELSE failing.first = cursor + 1

(* What the process remembers is what the stream says, the counts of the   *)
(* passed events aside; the size of the batches too, for a pinned one.     *)
Remembered ==
    /\ \A e \in Events : Open(e) => Learned(mem, e) = Recorded(e)
    /\ pinned => Reduced(mem) = Reduced(NoMemory)
    /\ ~pinned => \A i \in 1 .. Len(health) : health[i].kind = "recovered" => ~health[i].whole
    /\ ~pinned => \A i \in 1 .. mem.through : health[i].kind = "backoff" /\ health[i].key # Own => mem.reduced

(* A count is of failures of the event alone, one of them hidden by a      *)
(* crash, one of a batch it was the first of.                              *)
Counted ==
    \A e \in Events : Open(e) =>
        /\ Recorded(e) < Tries
        /\ attempts[e] <= Recorded(e) + crashes + (IF failing = Batch(e, e) THEN 1 ELSE 0)
        /\ Recorded(e) <= attempts[e] + (IF failing = Batch(e, e) THEN 0 ELSE 1)
        /\ pinned => Recorded(e) = 0

(* What is handled or given up was passed; the sessions of events that     *)
(* come next are failed only when the batch exhausts memory once more.     *)
Passed ==
    /\ done \subseteq 1 .. cursor /\ deferred \subseteq 1 .. cursor
    /\ ~pinned => lost = {}
    /\ \/ lost \subseteq 1 .. cursor
       \/ LET b == NextBatch(cursor, Reduced(NoMemory)) IN Exhausts(b) /\ lost \subseteq 1 .. b.last

RecoveryIInv == RecoveryTypeOK /\ FailingIs /\ Remembered /\ Counted /\ Passed /\ NoneGivenUpEarly

-----------------------------------------------------------------------------
(* The last of some positions of a sequence, when one more is appended.    *)
LEMMA LastPosition ==
    ASSUME NEW n \in Nat, NEW S \in SUBSET (1 .. n)
    PROVE  /\ S # {} => Max(S) \in S
           /\ Max(S \cup {n + 1}) = n + 1
<1>1. S # {} => Max(S) \in S
    BY GreatestNumber
<1>2. S \cup {n + 1} \in SUBSET (1 .. n + 1) /\ S \cup {n + 1} # {} /\ n + 1 \in Nat
    OBVIOUS
<1>3. PICK T : T = S \cup {n + 1}
    OBVIOUS
<1>4. Max(T) \in T /\ \A j \in T : j <= Max(T)
    BY <1>2, <1>3, GreatestNumber
<1>5. Max(T) = n + 1
    <2>1. PICK x : x = Max(T)
        OBVIOUS
    <2>2. x \in T /\ (\A j \in T : j <= x) /\ n + 1 \in T /\ T \subseteq 1 .. n + 1
        BY ONLY <1>2, <1>3, <1>4, <2>1, n + 1 \in S \cup {n + 1}
    <2>3. x \in 1 .. n + 1 /\ n + 1 <= x
        BY <2>2
    <2> QED BY <2>1, <2>3
<1> QED BY <1>1, <1>3, <1>5

IsAbout(h, k) == \/ h.kind = "backoff" /\ h.key = k
                 \/ h.kind = "recovered" /\ k \in {Own} \cup h.keys
IsAboutSize(h) == \/ h.kind = "backoff" /\ h.key # Own
                  \/ h.kind = "recovered" /\ h.whole

(* What one more health event changes of what is remembered.               *)
LEMMA LearnedAppend ==
    ASSUME RecoveryTypeOK, NEW h, health' = Append(health, h),
           NEW m, m.through \in 0 .. Len(health), NEW k
    PROVE  Learned(m, k)' = IF IsAbout(h, k) THEN IF h.kind = "backoff" THEN h.n ELSE 0
                            ELSE Learned(m, k)
<1>1. PICK n \in Nat : n = Len(health)
    BY DEF RecoveryTypeOK
<1>2. Len(health') = n + 1 /\ health'[n + 1] = h /\ \A i \in 1 .. n : health'[i] = health[i]
    BY <1>1 DEF RecoveryTypeOK
<1>3. PICK A : A = About(m, k)
    OBVIOUS
<1>4. A \in SUBSET (1 .. n) /\ \A i \in A : i \in 1 .. n
    BY <1>1, <1>3 DEF About, Unread
<1>5. About(m, k)' = {i \in m.through + 1 .. n + 1 : IsAbout(health'[i], k)}
    BY <1>2 DEF About, Unread, IsAbout
<1>6. A = {i \in m.through + 1 .. n : IsAbout(health[i], k)}
    BY <1>1, <1>3 DEF About, Unread, IsAbout
<1>7. CASE IsAbout(h, k)
    <2>1. About(m, k)' = A \cup {n + 1}
        BY <1>1, <1>2, <1>5, <1>6, <1>7
    <2>2. Max(About(m, k)') = n + 1
        BY <1>4, <2>1, LastPosition
    <2> QED BY <1>2, <1>7, <2>1, <2>2 DEF Learned
<1>8. CASE ~IsAbout(h, k)
    <2>1. About(m, k)' = A
        BY <1>1, <1>2, <1>5, <1>6, <1>8
    <2>2. A # {} => health'[Max(A)] = health[Max(A)]
        BY <1>2, <1>4, LastPosition
    <2> QED BY <1>3, <1>8, <2>1, <2>2 DEF Learned
<1> QED BY <1>7, <1>8

LEMMA ReducedAppend ==
    ASSUME RecoveryTypeOK, NEW h, health' = Append(health, h),
           NEW m, m.through \in 0 .. Len(health)
    PROVE  Reduced(m)' = IF IsAboutSize(h) THEN h.kind = "backoff" ELSE Reduced(m)
<1>1. PICK n \in Nat : n = Len(health)
    BY DEF RecoveryTypeOK
<1>2. Len(health') = n + 1 /\ health'[n + 1] = h /\ \A i \in 1 .. n : health'[i] = health[i]
    BY <1>1 DEF RecoveryTypeOK
<1>3. PICK A : A = AboutSize(m)
    OBVIOUS
<1>4. A \in SUBSET (1 .. n) /\ \A i \in A : i \in 1 .. n
    BY <1>1, <1>3 DEF AboutSize, Unread
<1>5. AboutSize(m)' = {i \in m.through + 1 .. n + 1 : IsAboutSize(health'[i])}
    BY <1>2 DEF AboutSize, Unread, IsAboutSize
<1>6. A = {i \in m.through + 1 .. n : IsAboutSize(health[i])}
    BY <1>1, <1>3 DEF AboutSize, Unread, IsAboutSize
<1>7. CASE IsAboutSize(h)
    <2>1. AboutSize(m)' = A \cup {n + 1}
        BY <1>1, <1>2, <1>5, <1>6, <1>7
    <2>2. Max(AboutSize(m)') = n + 1
        BY <1>4, <2>1, LastPosition
    <2> QED BY <1>2, <1>7, <2>1, <2>2 DEF Reduced
<1>8. CASE ~IsAboutSize(h)
    <2>1. AboutSize(m)' = A
        BY <1>1, <1>2, <1>5, <1>6, <1>8
    <2>2. A # {} => health'[Max(A)] = health[Max(A)]
        BY <1>2, <1>4, LastPosition
    <2> QED BY <1>3, <1>8, <2>1, <2>2 DEF Reduced
<1> QED BY <1>7, <1>8

(* A memory that has read everything knows what it has.                    *)
LEMMA NothingUnread ==
    ASSUME RecoveryTypeOK, NEW m, m.through = Len(health)
    PROVE  Reduced(m) = m.reduced /\ \A k : Learned(m, k) = m.backoff[k]
<1>1. Unread(m) = {}
    BY DEF Unread, RecoveryTypeOK
<1> QED BY <1>1 DEF Reduced, Learned, AboutSize, About

(* What is learned is a number.                                            *)
LEMMA LearnedIsNumber ==
    ASSUME RecoveryTypeOK, NEW m, m.through \in 0 .. Len(health), NEW k, m.backoff[k] \in Nat
    PROVE  Learned(m, k) \in Nat
<1>1. About(m, k) \in SUBSET (1 .. Len(health)) /\ Len(health) \in Nat
    BY DEF About, Unread, RecoveryTypeOK
<1>2. About(m, k) # {} => Max(About(m, k)) \in 1 .. Len(health)
    BY <1>1, LastPosition
<1> QED BY <1>2 DEF Learned, RecoveryTypeOK, HealthTyped

LEMMA ReducedIsBoolean ==
    ASSUME NEW m, m.reduced \in BOOLEAN
    PROVE  Reduced(m) \in BOOLEAN
BY DEF Reduced

LEMMA LearnedSame ==
    ASSUME health' = health
    PROVE  \A m, k : Learned(m, k)' = Learned(m, k) /\ Reduced(m)' = Reduced(m)
BY DEF Learned, Reduced, About, AboutSize, Unread

(* The memory of a fresh process.                                          *)
LEMMA NoMemoryIs ==
    ASSUME RecoveryTypeOK
    PROVE  /\ NoMemory.through = 0 /\ NoMemory.through \in 0 .. Len(health) /\ Len(health) \in Nat
           /\ NoMemory.reduced = FALSE
           /\ \A k \in Keys : NoMemory.backoff[k] = 0
           /\ \A e \in Events : Recorded(e) \in Nat /\ Learned(mem, e) \in Nat
<1>1. NoMemory.through = 0 /\ NoMemory.reduced = FALSE /\ NoMemory.backoff = [k \in Keys |-> 0]
    BY DEF NoMemory
<1>2. Len(health) \in Nat
    BY DEF RecoveryTypeOK
<1>3. \A k \in Keys : NoMemory.backoff[k] = 0
    BY <1>1
<1>4. ASSUME NEW e \in Events PROVE Recorded(e) \in Nat /\ Learned(mem, e) \in Nat
    <2>1. e \in Keys /\ NoMemory.backoff[e] \in Nat /\ mem.backoff[e] \in Nat
        BY <1>3 DEF Keys, RecoveryTypeOK
    <2>2. mem.through \in 0 .. Len(health) /\ NoMemory.through \in 0 .. Len(health)
        BY <1>1, <1>2 DEF RecoveryTypeOK
    <2> QED BY <2>1, <2>2, LearnedIsNumber DEF Recorded
<1> QED BY <1>1, <1>2, <1>3, <1>4

LEMMA RefreshedIs ==
    ASSUME RecoveryTypeOK, NEW r, r = Refreshed
    PROVE  /\ r = [backoff |-> r.backoff, reduced |-> r.reduced, failed |-> r.failed, through |-> r.through]
           /\ r.through = Len(health) /\ r.reduced = Reduced(mem) /\ r.reduced \in BOOLEAN
           /\ r.backoff \in [Keys -> Nat]
           /\ \A k \in Keys : r.backoff[k] = Learned(mem, k)
<1>1. /\ r.through = Len(health) /\ r.reduced = Reduced(mem) /\ r.failed = Failed(mem)
      /\ r.backoff = [k \in Keys |-> Learned(mem, k)]
    BY DEF Refreshed
<1>2. r = [backoff |-> r.backoff, reduced |-> r.reduced, failed |-> r.failed, through |-> r.through]
    BY DEF Refreshed
<1>3. \A k \in Keys : Learned(mem, k) \in Nat
    BY LearnedIsNumber DEF RecoveryTypeOK
<1>4. Reduced(mem) \in BOOLEAN
    BY ReducedIsBoolean DEF RecoveryTypeOK
<1> QED BY <1>1, <1>2, <1>3, <1>4

LEMMA NextBatchIs ==
    ASSUME RecoveryTypeOK, cursor < LastEvent, NEW reduced \in BOOLEAN, NEW b, b = NextBatch(cursor, reduced)
    PROVE  /\ b = Batch(b.first, b.last)
           /\ b.first = cursor + 1 /\ b.first \in Events
           /\ b.last \in b.first .. LastEvent /\ b.last \in 0 .. LastEvent
           /\ reduced => b.last = b.first
           /\ EventsOf(b) = cursor + 1 .. b.last /\ EventsOf(b) \subseteq Events
           /\ b # NoBatch
<1>1. PICK l : l = IF cursor + BatchSize(reduced) > LastEvent THEN LastEvent ELSE cursor + BatchSize(reduced)
    OBVIOUS
<1>2. BatchSize(reduced) \in Nat /\ BatchSize(reduced) >= 1 /\ (reduced => BatchSize(reduced) = 1)
    BY RecoveryAssumption DEF BatchSize
<1>3. b = Batch(cursor + 1, l)
    BY <1>1 DEF NextBatch
<1>4. b.first = cursor + 1 /\ b.last = l
    BY <1>3 DEF Batch
<1>5. cursor \in Nat /\ l \in cursor + 1 .. LastEvent /\ (reduced => l = cursor + 1) /\ LastEvent \in Nat
    BY <1>1, <1>2, RecoveryAssumption DEF RecoveryTypeOK
<1>6. b # NoBatch
    <2>1. NoBatch.last = 0
        BY DEF NoBatch, Batch
    <2> QED BY <1>4, <1>5, <2>1
<1> QED BY <1>3, <1>4, <1>5, <1>6 DEF EventsOf, Events

LEMMA NoBatchIs == NoBatch.first = 1 /\ NoBatch.last = 0 /\ \A e \in Events : NoBatch # Batch(e, e)
<1>1. NoBatch.first = 1 /\ NoBatch.last = 0
    BY DEF NoBatch, Batch
<1>2. ASSUME NEW e \in Events PROVE NoBatch # Batch(e, e)
    <2>1. Batch(e, e).last = e /\ e # 0
        BY RecoveryAssumption DEF Batch, Events
    <2> QED BY <1>1, <2>1
<1> QED BY <1>1, <1>2

-----------------------------------------------------------------------------
(* An unpinned component that was delivered single events stays so.        *)
LEMMA StaysReduced ==
    ASSUME RecoveryTypeOK, Remembered, ~pinned,
           \/ mem.reduced
           \/ \E i \in 1 .. Len(health) : health[i].kind = "backoff" /\ health[i].key # Own
    PROVE  Reduced(mem)
<1>1. AboutSize(mem) \in SUBSET (1 .. Len(health)) /\ Len(health) \in Nat
    BY DEF AboutSize, Unread, RecoveryTypeOK
<1>2. CASE AboutSize(mem) = {}
    <2>1. ASSUME NEW i \in 1 .. Len(health), health[i].kind = "backoff", health[i].key # Own
          PROVE  i \in 1 .. mem.through
        BY <1>2, <2>1 DEF AboutSize, Unread, RecoveryTypeOK
    <2>2. mem.reduced
        BY <2>1 DEF Remembered
    <2> QED BY <1>2, <2>2 DEF Reduced
<1>3. CASE AboutSize(mem) # {}
    <2>1. Max(AboutSize(mem)) \in AboutSize(mem)
        BY <1>1, <1>3, LastPosition
    <2>2. health[Max(AboutSize(mem))].kind = "backoff"
        BY <1>1, <2>1 DEF AboutSize, Remembered
    <2> QED BY <1>3, <2>2 DEF Reduced
<1> QED BY <1>2, <1>3

(* A step after which the memory has read the stream it found, and that    *)
(* says nothing of the events that come: the counts stay.                  *)
LEMMA QuietStep ==
    ASSUME RecoveryTypeOK, Remembered, Counted, failing = NoBatch, failing' = NoBatch,
           UNCHANGED <<pinned, attempts, crashes>>, cursor' \in cursor .. LastEvent,
           \/ health' = health
           \/ \E h : /\ health' = Append(health, h) /\ ~IsAboutSize(h)
                     /\ \A e \in Events : e > cursor' => ~IsAbout(h, e),
           mem'.through = Len(health), mem'.reduced = Reduced(mem),
           \A e \in Events : e > cursor' => mem'.backoff[e] = Learned(mem, e)
    PROVE  FailingIs' /\ Remembered' /\ Counted'
<1>1. FailingIs'
    BY DEF FailingIs
<1>2. \A e \in Events : Open(e)' => e > cursor' /\ Open(e)
    <2>1. cursor \in Nat
        BY DEF RecoveryTypeOK
    <2> QED BY <2>1, RecoveryAssumption DEF Open, Events
<1>3. PICK m : m = mem'
    OBVIOUS
<1>4. \A k : Learned(m, k) = m.backoff[k]
    BY <1>3, NothingUnread
<1>5. Reduced(m) = Reduced(mem)
    BY <1>3, NothingUnread
<1>6. m.through \in 0 .. Len(health) /\ NoMemory.through \in 0 .. Len(health)
    BY <1>3, NoMemoryIs
<1>7. ASSUME NEW e \in Events, e > cursor'
      PROVE  Learned(m, e)' = Learned(m, e) /\ Learned(NoMemory, e)' = Learned(NoMemory, e)
    <2>1. CASE health' = health
        BY <2>1, LearnedSame
    <2>2. CASE health' # health
        <3>1. PICK h : health' = Append(health, h) /\ ~IsAbout(h, e)
            BY <1>7, <2>2
        <3> QED BY <1>6, <3>1, LearnedAppend
    <2> QED BY <2>1, <2>2
<1>8. Reduced(m)' = Reduced(m) /\ Reduced(NoMemory)' = Reduced(NoMemory)
    <2>1. CASE health' = health
        BY <2>1, LearnedSame
    <2>2. CASE health' # health
        <3>1. PICK h : health' = Append(health, h) /\ ~IsAboutSize(h)
            BY <2>2
        <3> QED BY <1>6, <3>1, ReducedAppend
    <2> QED BY <2>1, <2>2
<1>9. ASSUME NEW e \in Events, Open(e)'
      PROVE  Learned(mem, e)' = Recorded(e)' /\ Recorded(e)' = Recorded(e) /\ Open(e)
    <2>1. e > cursor' /\ Open(e)
        BY <1>2, <1>9
    <2>2. Learned(m, e)' = m.backoff[e] /\ m.backoff[e] = Learned(mem, e)
        BY <1>3, <1>4, <1>7, <2>1
    <2>3. Learned(mem, e) = Learned(NoMemory, e)
        BY <2>1 DEF Remembered, Recorded
    <2>4. Learned(NoMemory, e)' = Learned(NoMemory, e)
        BY <1>7, <2>1
    <2>5. Learned(mem, e)' = Learned(m, e)'
        BY <1>3 DEF Learned, About, Unread
    <2> QED BY <2>1, <2>2, <2>3, <2>4, <2>5 DEF Recorded
<1>10. Remembered'
    <2>1. pinned' => Reduced(mem)' = Reduced(NoMemory)'
        <3>1. Reduced(mem)' = Reduced(m)'
            BY <1>3 DEF Reduced, AboutSize, Unread
        <3> QED BY <1>5, <1>8, <3>1 DEF Remembered
    <2>2. ASSUME ~pinned, NEW i \in 1 .. Len(health'), health'[i].kind = "recovered"
          PROVE  ~health'[i].whole
        <3>1. CASE health' = health
            BY <2>2, <3>1 DEF Remembered
        <3>2. CASE health' # health
            <4>1. PICK h : health' = Append(health, h) /\ ~IsAboutSize(h)
                BY <3>2
            <4>2. \/ i \in 1 .. Len(health) /\ health'[i] = health[i]
                  \/ health'[i] = h
                BY <4>1 DEF RecoveryTypeOK
            <4> QED BY <2>2, <4>1, <4>2 DEF Remembered, IsAboutSize
        <3> QED BY <3>1, <3>2
    <2>3. ASSUME ~pinned, NEW i \in 1 .. mem'.through, health'[i].kind = "backoff", health'[i].key # Own
          PROVE  mem'.reduced
        <3>1. i \in 1 .. Len(health) /\ health'[i] = health[i]
            BY DEF RecoveryTypeOK
        <3> QED BY <2>3, <3>1, StaysReduced
    <2> QED BY <1>9, <2>1, <2>2, <2>3 DEF Remembered
<1>11. Counted'
    BY <1>9 DEF Counted
<1> QED BY <1>1, <1>10, <1>11

(* The counts while no failure is being recorded.                          *)
LEMMA CountedIdle ==
    ASSUME RecoveryTypeOK, Counted, failing = NoBatch, NEW e \in Events, Open(e)
    PROVE  /\ Recorded(e) < Tries /\ (pinned => Recorded(e) = 0)
           /\ attempts[e] <= Recorded(e) + crashes /\ Recorded(e) <= attempts[e] + 1
<1>1. failing # Batch(e, e)
    BY NoBatchIs
<1>2. Recorded(e) \in Nat /\ attempts[e] \in Nat /\ crashes \in Nat
    BY NoMemoryIs DEF RecoveryTypeOK
<1>3. /\ Recorded(e) < Tries /\ (pinned => Recorded(e) = 0)
      /\ attempts[e] <= Recorded(e) + crashes + 0 /\ Recorded(e) <= attempts[e] + 1
    BY <1>1 DEF Counted
<1> QED BY <1>2, <1>3

(* One more health event is in the stream.                                 *)
LEMMA HealthTypes ==
    ASSUME RecoveryTypeOK, \/ health' = health
                           \/ \E h : HealthTyped(h) /\ health' = Append(health, h)
    PROVE  /\ \E S : health' \in Seq(S)
           /\ \A i \in 1 .. Len(health') : HealthTyped(health'[i])
           /\ Len(health') \in Nat /\ Len(health) \in Nat /\ Len(health) <= Len(health')
<1>1. PICK S : health \in Seq(S)
    BY DEF RecoveryTypeOK
<1>2. CASE health' = health
    BY <1>1, <1>2 DEF RecoveryTypeOK
<1>3. CASE health' # health
    <2>1. PICK h : HealthTyped(h) /\ health' = Append(health, h)
        BY <1>3
    <2>2. health' \in Seq(S \cup {h}) /\ Len(health') = Len(health) + 1 /\ Len(health) \in Nat
        BY <1>1, <2>1
    <2>3. ASSUME NEW i \in 1 .. Len(health') PROVE HealthTyped(health'[i])
        <3>1. (i \in 1 .. Len(health) /\ health'[i] = health[i]) \/ health'[i] = h
            BY <1>1, <2>1, <2>2
        <3> QED BY <2>1, <3>1 DEF RecoveryTypeOK
    <2> QED BY <2>2, <2>3
<1> QED BY <1>2, <1>3

LEMMA HealthEvents ==
    /\ \A k \in Keys, n \in Nat : HealthTyped(Backoff(k, n)) /\ (k = Own => ~IsAboutSize(Backoff(k, n)))
    /\ \A K : HealthTyped(RecoveredEvent(K, FALSE)) /\ ~IsAboutSize(RecoveredEvent(K, FALSE))
    /\ HealthTyped(RecoveredEvent(Events, TRUE))
    /\ HealthTyped(FailedEvent) /\ ~IsAboutSize(FailedEvent)
    /\ \A e \in Events :
         /\ ~IsAbout(FailedEvent, e)
         /\ \A n : ~IsAbout(Backoff(Own, n), e)
         /\ \A K : e \notin K => ~IsAbout(RecoveredEvent(K, FALSE), e)
<1>1. Own \notin Events
    BY RecoveryAssumption DEF Own, Events
<1> QED BY <1>1 DEF HealthTyped, Backoff, RecoveredEvent, FailedEvent, IsAboutSize, IsAbout

-----------------------------------------------------------------------------
(* Deliver: a batch was handled, or a failure of it was reported.          *)
LEMMA HandledKeeps ==
    ASSUME RecoveryIInv, failing = NoBatch, cursor < LastEvent, NEW b, b = NextBatch(cursor, Refreshed.reduced),
           ~Exhausts(b), Handled(Refreshed, b), UNCHANGED <<deferred, pinned, up, crashes>>
    PROVE  RecoveryIInv'
<1>1. RecoveryTypeOK /\ FailingIs /\ Remembered /\ Counted /\ Passed /\ NoneGivenUpEarly
    BY DEF RecoveryIInv
<1>2. PICK r : r = Refreshed
    OBVIOUS
<1>3. /\ r = [backoff |-> r.backoff, reduced |-> r.reduced, failed |-> r.failed, through |-> r.through]
      /\ r.through = Len(health) /\ r.reduced = Reduced(mem) /\ r.reduced \in BOOLEAN
      /\ r.backoff \in [Keys -> Nat]
      /\ \A k \in Keys : r.backoff[k] = Learned(mem, k)
    BY <1>1, <1>2, RefreshedIs
<1>4. /\ b.first = cursor + 1 /\ b.last \in b.first .. LastEvent /\ b.last \in 0 .. LastEvent
      /\ EventsOf(b) = cursor + 1 .. b.last /\ EventsOf(b) \subseteq Events
    BY <1>1, <1>2, <1>3, NextBatchIs
<1>5. cursor \in Nat /\ cursor' = b.last /\ cursor' \in cursor .. LastEvent /\ cursor' \in 0 .. LastEvent /\ LastEvent \in Nat
    BY <1>1, <1>4, RecoveryAssumption DEF Handled, RecoveryTypeOK
<1>6. /\ \/ health' = health
         \/ health' = Append(health, RecoveredEvent(EventsOf(b), FALSE))
      /\ mem' = [backoff |-> mem'.backoff, reduced |-> mem'.reduced, failed |-> mem'.failed, through |-> mem'.through]
      /\ mem'.through = Len(health) /\ mem'.reduced = r.reduced
      /\ mem'.backoff \in [Keys -> Nat]
      /\ \A k \in Keys : k \notin {Own} \cup EventsOf(b) => mem'.backoff[k] = r.backoff[k]
    <2>1. Recovered(r, b)
        BY <1>2 DEF Handled
    <2>2. CASE \A k \in {Own} \cup EventsOf(b) : r.backoff[k] = 0
        BY <1>3, <2>1, <2>2 DEF Recovered
    <2>3. CASE ~\A k \in {Own} \cup EventsOf(b) : r.backoff[k] = 0
        <3>1. PICK f : f = Cleared(r.backoff, {Own} \cup EventsOf(b))
            OBVIOUS
        <3>2. f \in [Keys -> Nat] /\ \A k \in Keys : k \notin {Own} \cup EventsOf(b) => f[k] = r.backoff[k]
            BY <1>3, <3>1 DEF Cleared
        <3>3. mem' = [r EXCEPT !.backoff = f] /\ health' = Append(health, RecoveredEvent(EventsOf(b), FALSE))
            BY <2>1, <2>3, <3>1 DEF Recovered
        <3>4. mem' = [backoff |-> f, reduced |-> r.reduced, failed |-> r.failed, through |-> r.through]
            BY <1>3, <3>3
        <3> QED BY <1>3, <3>2, <3>3, <3>4
    <2> QED BY <2>2, <2>3
<1>7. \A e \in Events : e > cursor' => e \in Keys /\ e \notin {Own} \cup EventsOf(b)
    BY <1>4, <1>5 DEF Keys, Own, Events
<1>8. UNCHANGED <<pinned, attempts, crashes, failing, lost, deferred>>
    BY DEF Handled
<1>9. RecoveryTypeOK'
    <2>1. /\ \E S : health' \in Seq(S)
          /\ \A i \in 1 .. Len(health') : HealthTyped(health'[i])
          /\ Len(health') \in Nat /\ Len(health) \in Nat /\ Len(health) <= Len(health')
        BY <1>1, <1>6, HealthTypes, HealthEvents
    <2>2. pinned' \in BOOLEAN /\ attempts' \in [Events -> Nat] /\ crashes' \in Nat
        BY <1>1, <1>8 DEF RecoveryTypeOK
    <2> QED BY <1>3, <1>5, <1>6, <2>1, <2>2 DEF RecoveryTypeOK
<1>10. FailingIs' /\ Remembered' /\ Counted'
    <2>1. \/ health' = health
          \/ \E h : /\ health' = Append(health, h) /\ ~IsAboutSize(h)
                    /\ \A e \in Events : e > cursor' => ~IsAbout(h, e)
        BY <1>6, <1>7, HealthEvents
    <2>2. \A e \in Events : e > cursor' => mem'.backoff[e] = Learned(mem, e)
        BY <1>3, <1>6, <1>7
    <2> QED BY <1>1, <1>3, <1>5, <1>6, <1>8, <2>1, <2>2, QuietStep
<1>11. lost \subseteq 1 .. cursor
    <2>1. CASE pinned
        <3>1. Reduced(NoMemory) = r.reduced
            BY <1>1, <1>3, <2>1 DEF Remembered
        <3> QED BY <1>1, <1>2, <3>1 DEF Passed
    <2>2. CASE ~pinned
        BY <1>1, <2>2 DEF Passed
    <2> QED BY <2>1, <2>2
<1>12. Passed'
    <2>1. done' = done \cup EventsOf(b)
        BY DEF Handled
    <2>2. done \subseteq 1 .. cursor /\ deferred \subseteq 1 .. cursor /\ (~pinned => lost = {})
        BY <1>1 DEF Passed
    <2>3. done' \subseteq 1 .. cursor' /\ deferred' \subseteq 1 .. cursor' /\ lost' \subseteq 1 .. cursor'
        <3>1. 1 .. cursor \subseteq 1 .. cursor' /\ EventsOf(b) \subseteq 1 .. cursor'
            BY <1>4, <1>5
        <3> QED BY <1>8, <1>11, <2>1, <2>2, <3>1
    <2>4. ~pinned' => lost' = {}
        BY <1>8, <2>2
    <2> QED BY <2>3, <2>4 DEF Passed
<1>13. NoneGivenUpEarly'
    <2>1. done' = done \cup EventsOf(b)
        BY DEF Handled
    <2>2. 1 .. cursor' = (1 .. cursor) \cup EventsOf(b)
        BY <1>4, <1>5
    <2>3. EventsOf(b) \cap (deferred \cup lost) = {}
        BY <1>1, <1>4, <1>5, <1>11 DEF Passed
    <2>4. 1 .. cursor' \subseteq done' \cup deferred' \cup lost'
        BY <1>1, <1>8, <2>1, <2>2 DEF NoneGivenUpEarly
    <2>5. done' \cap (deferred' \cup lost') = {}
        BY <1>1, <1>8, <2>1, <2>3 DEF NoneGivenUpEarly
    <2> QED BY <1>1, <1>8, <2>4, <2>5 DEF NoneGivenUpEarly
<1> QED BY <1>9, <1>10, <1>12, <1>13 DEF RecoveryIInv

LEMMA ReportedKeeps ==
    ASSUME RecoveryIInv, failing = NoBatch, Reported(Refreshed), UNCHANGED <<deferred, pinned, up, crashes>>
    PROVE  RecoveryIInv'
<1>1. RecoveryTypeOK /\ FailingIs /\ Remembered /\ Counted /\ Passed /\ NoneGivenUpEarly
    BY DEF RecoveryIInv
<1>2. PICK r : r = Refreshed
    OBVIOUS
<1>3. /\ r = [backoff |-> r.backoff, reduced |-> r.reduced, failed |-> r.failed, through |-> r.through]
      /\ r.through = Len(health) /\ r.reduced = Reduced(mem) /\ r.reduced \in BOOLEAN
      /\ r.backoff \in [Keys -> Nat]
      /\ \A k \in Keys : r.backoff[k] = Learned(mem, k)
    BY <1>1, <1>2, RefreshedIs
<1>4. PICK h : h = Backoff(Own, r.backoff[Own] + 1)
    OBVIOUS
<1>5. Own \in Keys /\ r.backoff[Own] + 1 \in Nat /\ \A e \in Events : e # Own /\ e \in Keys
    BY <1>3, RecoveryAssumption DEF Keys, Own, Events
<1>6. HealthTyped(h) /\ ~IsAboutSize(h) /\ \A e \in Events : ~IsAbout(h, e)
    BY <1>4, <1>5, HealthEvents
<1>7. health' = Append(health, h) /\ mem' = [r EXCEPT !.backoff[Own] = @ + 1]
    BY <1>2, <1>4 DEF Reported
<1>8. /\ mem' = [backoff |-> mem'.backoff, reduced |-> mem'.reduced, failed |-> mem'.failed, through |-> mem'.through]
      /\ mem'.through = Len(health) /\ mem'.reduced = r.reduced
      /\ mem'.backoff \in [Keys -> Nat]
      /\ \A k \in Keys : k # Own => mem'.backoff[k] = r.backoff[k]
    <2>1. PICK f : f = [r.backoff EXCEPT ![Own] = @ + 1]
        OBVIOUS
    <2>2. f \in [Keys -> Nat] /\ \A k \in Keys : k # Own => f[k] = r.backoff[k]
        BY <1>3, <1>5, <2>1
    <2>3. mem' = [backoff |-> f, reduced |-> r.reduced, failed |-> r.failed, through |-> r.through]
        BY <1>3, <1>7, <2>1
    <2> QED BY <1>3, <2>2, <2>3
<1>9. UNCHANGED <<cursor, done, deferred, lost, pinned, attempts, crashes, failing>>
    BY DEF Reported
<1>10. RecoveryTypeOK'
    <2>1. /\ \E S : health' \in Seq(S)
          /\ \A i \in 1 .. Len(health') : HealthTyped(health'[i])
          /\ Len(health') \in Nat /\ Len(health) \in Nat /\ Len(health) <= Len(health')
        BY <1>1, <1>6, <1>7, HealthTypes
    <2> QED BY <1>1, <1>3, <1>8, <1>9, <2>1 DEF RecoveryTypeOK
<1>11. FailingIs' /\ Remembered' /\ Counted'
    <2>1. cursor' \in cursor .. LastEvent
        BY <1>1, <1>9, RecoveryAssumption DEF RecoveryTypeOK
    <2>2. \A e \in Events : e > cursor' => mem'.backoff[e] = Learned(mem, e)
        BY <1>3, <1>5, <1>8
    <2> QED BY <1>1, <1>3, <1>6, <1>7, <1>8, <1>9, <2>1, <2>2, QuietStep
<1>12. Passed'
    <2>1. Reduced(NoMemory)' = Reduced(NoMemory)
        BY <1>1, <1>6, <1>7, NoMemoryIs, ReducedAppend
    <2>2. NextBatch(cursor, Reduced(NoMemory))' = NextBatch(cursor, Reduced(NoMemory))
        BY <1>9, <2>1 DEF NextBatch, BatchSize
    <2>3. PICK b : b = NextBatch(cursor, Reduced(NoMemory))
        OBVIOUS
    <2> QED BY <1>1, <1>9, <2>2, <2>3 DEF Passed
<1>13. NoneGivenUpEarly'
    BY <1>1, <1>9 DEF NoneGivenUpEarly
<1> QED BY <1>10, <1>11, <1>12, <1>13 DEF RecoveryIInv

(* Deliver: the batch exhausted the memory and the instance was restarted. *)
LEMMA RestartKeeps ==
    ASSUME RecoveryIInv, failing = NoBatch, cursor < LastEvent, NEW b, b = NextBatch(cursor, Refreshed.reduced),
           Exhausts(b), RestartAfterResource(Refreshed, b), UNCHANGED <<deferred, pinned, up, crashes>>
    PROVE  RecoveryIInv'
<1>1. RecoveryTypeOK /\ FailingIs /\ Remembered /\ Counted /\ Passed /\ NoneGivenUpEarly
    BY DEF RecoveryIInv
<1>2. PICK r : r = Refreshed
    OBVIOUS
<1>3. /\ r = [backoff |-> r.backoff, reduced |-> r.reduced, failed |-> r.failed, through |-> r.through]
      /\ r.through = Len(health) /\ r.reduced = Reduced(mem) /\ r.reduced \in BOOLEAN
      /\ r.backoff \in [Keys -> Nat]
      /\ \A k \in Keys : r.backoff[k] = Learned(mem, k)
    BY <1>1, <1>2, RefreshedIs
<1>4. /\ b = Batch(b.first, b.last) /\ b # NoBatch /\ b.first \in Events
      /\ b.first = cursor + 1 /\ b.last \in b.first .. LastEvent /\ b.last \in 0 .. LastEvent
      /\ EventsOf(b) = cursor + 1 .. b.last /\ EventsOf(b) \subseteq Events
      /\ r.reduced => b.last = b.first
    BY <1>1, <1>2, <1>3, NextBatchIs
<1>5. cursor \in Nat /\ LastEvent \in Nat /\ cursor' \in {cursor, b.last} /\ cursor' \in 0 .. LastEvent
    BY <1>1, <1>4, RecoveryAssumption DEF RestartAfterResource, RecoveryTypeOK
<1>6. failing' = b /\ mem' = r /\ health' = health /\ UNCHANGED <<done, deferred, pinned, crashes>>
    BY <1>2 DEF RestartAfterResource
<1>7. /\ cursor' = IF pinned THEN b.last ELSE cursor
      /\ lost' = IF pinned THEN lost \cup EventsOf(b) ELSE lost
      /\ attempts' = IF Alone(b) THEN [attempts EXCEPT ![b.first] = @ + 1] ELSE attempts
    BY DEF RestartAfterResource
<1>8. attempts \in [Events -> Nat] /\ attempts' \in [Events -> Nat] /\ \A e \in Events : attempts'[e] >= attempts[e]
    BY <1>1, <1>4, <1>7 DEF RecoveryTypeOK
<1>9. RecoveryTypeOK'
    <2>1. Len(health) \in Nat /\ r.through \in 0 .. Len(health)
        BY <1>1, <1>3 DEF RecoveryTypeOK
    <2> QED BY <1>1, <1>3, <1>5, <1>6, <1>8, <2>1 DEF RecoveryTypeOK
<1>10. \A m, k : Learned(m, k)' = Learned(m, k) /\ Reduced(m)' = Reduced(m)
    BY <1>6, LearnedSame
<1>11. \A e \in Events : Recorded(e)' = Recorded(e) /\ Recorded(e) \in Nat
    BY <1>1, <1>10, NoMemoryIs DEF Recorded
<1>12. ASSUME NEW e \in Events, Open(e)' PROVE e > cursor /\ Open(e)
    BY <1>4, <1>5, <1>6, <1>7, <1>12, RecoveryAssumption DEF Open, Events
<1>13. ~Alone(b) => Recorded(b.first) = 0
    <2> SUFFICES ASSUME ~Alone(b) PROVE Recorded(b.first) = 0
        OBVIOUS
    <2>1. Open(b.first) /\ ~r.reduced
        BY <1>4, <1>5 DEF Open, Alone
    <2>2. CASE pinned
        BY <1>1, <1>4, <2>1, <2>2 DEF Counted
    <2>3. CASE ~pinned
        <3>1. ~Reduced(mem)
            BY <1>3, <2>1
        <3>2. \A i \in 1 .. Len(health) : ~(health[i].kind = "backoff" /\ health[i].key # Own)
            BY <1>1, <2>3, <3>1, StaysReduced
        <3>3. PICK A : A = About(NoMemory, b.first)
            OBVIOUS
        <3>4. A \in SUBSET (1 .. Len(health)) /\ Len(health) \in Nat
            BY <1>1, <3>3, NoMemoryIs DEF About, Unread
        <3>5. A # {} => Max(A) \in A
            BY <3>4, LastPosition
        <3>6. \A i \in A : health[i].kind # "backoff"
            <4>1. b.first # Own
                BY <1>4, RecoveryAssumption DEF Events, Own
            <4> QED BY <3>2, <3>3, <3>4, <4>1 DEF About
        <3>7. b.first \in Keys
            BY <1>4 DEF Keys
        <3> QED BY <1>1, <3>3, <3>5, <3>6, <3>7, NoMemoryIs DEF Recorded, Learned
    <2> QED BY <2>2, <2>3
<1>14. pinned => lost \subseteq 1 .. b.last
    <2>1. pinned => Reduced(NoMemory) = r.reduced
        BY <1>1, <1>3 DEF Remembered
    <2>2. PICK c : c = NextBatch(cursor, Reduced(NoMemory))
        OBVIOUS
    <2>3. pinned => c = b
        BY <1>2, <2>1, <2>2
    <2>4. lost \subseteq 1 .. cursor \/ lost \subseteq 1 .. c.last
        BY <1>1, <2>2 DEF Passed
    <2> QED BY <1>4, <1>5, <2>3, <2>4
<1>15. FailingIs'
    <2>1. Alone(b) => b.first \in Poison
        <3> SUFFICES ASSUME Alone(b) PROVE b.first \in Poison
            OBVIOUS
        <3>1. PICK e \in EventsOf(b) : e \in Poison
            BY DEF Exhausts
        <3>2. e \in cursor + 1 .. cursor + 1
            BY <1>4, <3>1 DEF Alone
        <3>3. e = b.first
            BY <1>4, <1>5, <3>2
        <3> QED BY <3>1, <3>3
    <2>2. mem'.through = Len(health')
        BY <1>3, <1>6
    <2>3. ~Alone(b) => Recorded(b.first)' = 0
        BY <1>4, <1>11, <1>13
    <2>4. pinned => cursor' = b.last /\ EventsOf(b) \subseteq lost' /\ lost' \subseteq 1 .. cursor'
        BY <1>4, <1>5, <1>7, <1>14
    <2>5. ~pinned => b.first = cursor' + 1
        BY <1>4, <1>7
    <2>6. failing' = b /\ pinned' = pinned
        BY <1>6
    <2>7. ~Alone(failing)' => Recorded(failing.first)' = 0
        BY <2>3, <2>6 DEF Alone
    <2>8. Alone(failing)' => failing'.first \in Poison
        BY <2>1, <2>6 DEF Alone
    <2>9. IF pinned' THEN cursor' = failing'.last /\ EventsOf(failing)' \subseteq lost' /\ lost' \subseteq 1 .. cursor'
          ELSE failing'.first = cursor' + 1
        BY <2>4, <2>5, <2>6 DEF EventsOf
    <2>10. /\ failing' = Batch(failing.first, failing.last)'
           /\ failing'.first \in Events /\ failing'.last \in failing'.first .. LastEvent
        BY <1>4, <2>6 DEF Batch
    <2> QED BY <2>2, <2>7, <2>8, <2>9, <2>10 DEF FailingIs
<1>16. Remembered'
    <2>1. ASSUME NEW e \in Events, Open(e)' PROVE Learned(mem, e)' = Recorded(e)'
        <3>1. Open(e) /\ e \in Keys
            BY <1>12, <2>1 DEF Keys
        <3>2. Learned(mem, e)' = Learned(r, e)'
            BY <1>6 DEF Learned, About, Unread
        <3>3. Learned(r, e) = r.backoff[e]
            BY <1>1, <1>3, NothingUnread
        <3> QED BY <1>1, <1>3, <1>10, <1>11, <3>1, <3>2, <3>3 DEF Remembered
    <2>2. pinned => Reduced(mem)' = Reduced(NoMemory)'
        <3>1. Reduced(mem)' = Reduced(r)'
            BY <1>6 DEF Reduced, AboutSize, Unread
        <3>2. Reduced(r) = Reduced(mem)
            BY <1>1, <1>3, NothingUnread
        <3> QED BY <1>1, <1>10, <3>1, <3>2 DEF Remembered
    <2>3. ASSUME ~pinned, NEW i \in 1 .. Len(health), health[i].kind = "backoff", health[i].key # Own
          PROVE  r.reduced
        BY <1>1, <1>3, <2>3, StaysReduced
    <2>4. ~pinned => \A i \in 1 .. Len(health) : health[i].kind = "recovered" => ~health[i].whole
        BY <1>1 DEF Remembered
    <2>5. mem' = r /\ health' = health /\ pinned' = pinned /\ mem'.through = Len(health)
        BY <1>3, <1>6
    <2> QED BY <2>1, <2>2, <2>3, <2>4, <2>5 DEF Remembered
<1>17. Counted'
    <2> SUFFICES ASSUME NEW e \in Events, Open(e)'
                 PROVE  (/\ Recorded(e) < Tries
                         /\ attempts[e] <= Recorded(e) + crashes + (IF failing = Batch(e, e) THEN 1 ELSE 0)
                         /\ Recorded(e) <= attempts[e] + (IF failing = Batch(e, e) THEN 0 ELSE 1)
                         /\ pinned => Recorded(e) = 0)'
        BY DEF Counted
    <2>1. /\ Recorded(e) < Tries /\ (pinned => Recorded(e) = 0)
          /\ attempts[e] <= Recorded(e) + crashes /\ Recorded(e) <= attempts[e] + 1
        BY <1>1, <1>12, CountedIdle
    <2>2. Recorded(e) \in Nat /\ attempts[e] \in Nat /\ crashes \in Nat
        BY <1>1, <1>11 DEF RecoveryTypeOK
    <2>3. CASE b = Batch(e, e)
        <3>1. b.first = e /\ b.last = e
            BY <2>3 DEF Batch
        <3>2. attempts'[e] = attempts[e] + 1
            BY <1>7, <1>8, <3>1 DEF Alone
        <3> QED BY <1>6, <1>11, <2>1, <2>2, <2>3, <3>2
    <2>4. CASE b # Batch(e, e)
        <3>1. attempts'[e] = attempts[e]
            <4>1. Alone(b) => b.first # e
                BY <1>4, <2>4 DEF Alone
            <4> QED BY <1>7, <1>8, <4>1
        <3> QED BY <1>6, <1>11, <2>1, <2>2, <2>4, <3>1
    <2> QED BY <2>3, <2>4
<1>18. Passed'
    <2>1. done \subseteq 1 .. cursor /\ deferred \subseteq 1 .. cursor /\ (~pinned => lost = {})
        BY <1>1 DEF Passed
    <2>2. done' \subseteq 1 .. cursor' /\ deferred' \subseteq 1 .. cursor'
        BY <1>4, <1>5, <1>6, <2>1
    <2>3. (~pinned' => lost' = {}) /\ lost' \subseteq 1 .. cursor'
        BY <1>4, <1>5, <1>6, <1>7, <1>14, <2>1
    <2> QED BY <2>2, <2>3 DEF Passed
<1>19. NoneGivenUpEarly'
    <2>1. 1 .. cursor' \subseteq done' \cup deferred' \cup lost'
        <3>1. pinned => 1 .. cursor' = (1 .. cursor) \cup EventsOf(b)
            BY <1>4, <1>5, <1>7
        <3> QED BY <1>1, <1>6, <1>7, <3>1 DEF NoneGivenUpEarly
    <2>2. done' \cap (deferred' \cup lost') = {}
        <3>1. done \cap EventsOf(b) = {}
            BY <1>1, <1>4, <1>5 DEF Passed
        <3> QED BY <1>1, <1>6, <1>7, <3>1 DEF NoneGivenUpEarly
    <2>3. deferred' \subseteq Poison
        BY <1>1, <1>6 DEF NoneGivenUpEarly
    <2>4. ASSUME NEW e \in Events PROVE attempts'[e] <= Tries + crashes'
        <3>1. attempts[e] <= Tries + crashes /\ attempts[e] \in Nat /\ crashes \in Nat /\ crashes' = crashes
            BY <1>1, <1>6 DEF NoneGivenUpEarly, RecoveryTypeOK
        <3>2. CASE Alone(b) /\ e = b.first
            <4>1. Open(e)
                BY <1>4, <1>5, <3>2 DEF Open
            <4>2. Recorded(e) < Tries /\ attempts[e] <= Recorded(e) + crashes
                BY <1>1, <4>1, CountedIdle
            <4>3. attempts'[e] = attempts[e] + 1
                BY <1>7, <1>8, <3>2
            <4> QED BY <1>11, <3>1, <4>2, <4>3, RecoveryAssumption
        <3>3. CASE ~(Alone(b) /\ e = b.first)
            <4>1. attempts'[e] = attempts[e]
                BY <1>7, <1>8, <3>3
            <4> QED BY <3>1, <4>1
        <3> QED BY <3>2, <3>3
    <2>5. ASSUME NEW e \in deferred PROVE attempts'[e] + 1 >= Tries
        <3>1. e \in Events
            BY <1>1, <1>5 DEF Passed, Events
        <3>2. attempts[e] + 1 >= Tries
            BY <1>1 DEF NoneGivenUpEarly
        <3> QED BY <1>8, <3>1, <3>2, RecoveryAssumption
    <2> QED BY <1>6, <2>1, <2>2, <2>3, <2>4, <2>5 DEF NoneGivenUpEarly
<1> QED BY <1>9, <1>15, <1>16, <1>17, <1>18, <1>19 DEF RecoveryIInv

(* Deliver: the instance could not be restarted.                           *)
LEMMA MarkKeeps ==
    ASSUME RecoveryIInv, failing = NoBatch, cursor < LastEvent, NEW b, b = NextBatch(cursor, Refreshed.reduced),
           Exhausts(b), MarkResourceRestartFailure(Refreshed, b), UNCHANGED <<deferred, pinned, up, crashes>>
    PROVE  RecoveryIInv'
<1>1. RecoveryTypeOK /\ FailingIs /\ Remembered /\ Counted /\ Passed /\ NoneGivenUpEarly
    BY DEF RecoveryIInv
<1>2. PICK r : r = Refreshed
    OBVIOUS
<1>3. /\ r = [backoff |-> r.backoff, reduced |-> r.reduced, failed |-> r.failed, through |-> r.through]
      /\ r.through = Len(health) /\ r.reduced = Reduced(mem) /\ r.reduced \in BOOLEAN
      /\ r.backoff \in [Keys -> Nat]
      /\ \A k \in Keys : r.backoff[k] = Learned(mem, k)
    BY <1>1, <1>2, RefreshedIs
<1>4. /\ b.first = cursor + 1 /\ b.last \in b.first .. LastEvent /\ b.last \in 0 .. LastEvent
      /\ EventsOf(b) = cursor + 1 .. b.last /\ EventsOf(b) \subseteq Events
    BY <1>1, <1>2, <1>3, NextBatchIs
<1>5. cursor \in Nat /\ cursor \in cursor .. LastEvent /\ LastEvent \in Nat
    BY <1>1, RecoveryAssumption DEF RecoveryTypeOK
<1>6. health' = Append(health, FailedEvent) /\ mem' = [r EXCEPT !.failed = TRUE]
    BY <1>2 DEF MarkResourceRestartFailure
<1>7. mem' = [backoff |-> r.backoff, reduced |-> r.reduced, failed |-> TRUE, through |-> r.through]
    BY <1>3, <1>6
<1>8. /\ UNCHANGED <<cursor, done, deferred, pinned, attempts, crashes, failing>>
      /\ lost' = IF pinned THEN lost \cup EventsOf(b) ELSE lost
    BY DEF MarkResourceRestartFailure
<1>9. RecoveryTypeOK'
    <2>1. /\ \E S : health' \in Seq(S)
          /\ \A i \in 1 .. Len(health') : HealthTyped(health'[i])
          /\ Len(health') \in Nat /\ Len(health) \in Nat /\ Len(health) <= Len(health')
        BY <1>1, <1>6, HealthTypes, HealthEvents
    <2>2. /\ mem'.backoff = r.backoff /\ mem'.reduced = r.reduced /\ mem'.through = Len(health)
          /\ mem' = [backoff |-> mem'.backoff, reduced |-> mem'.reduced, failed |-> mem'.failed, through |-> mem'.through]
        BY <1>3, <1>7
    <2> QED BY <1>1, <1>3, <1>8, <2>1, <2>2 DEF RecoveryTypeOK
<1>10. FailingIs' /\ Remembered' /\ Counted'
    <2>1. /\ health' = Append(health, FailedEvent) /\ ~IsAboutSize(FailedEvent)
          /\ \A e \in Events : ~IsAbout(FailedEvent, e)
        BY <1>6, HealthEvents
    <2>2. mem'.through = Len(health) /\ mem'.reduced = Reduced(mem) /\ \A e \in Events : mem'.backoff[e] = Learned(mem, e)
        BY <1>3, <1>7 DEF Keys
    <2>3. cursor' \in cursor .. LastEvent
        BY <1>5, <1>8
    <2> QED BY <1>1, <1>8, <2>1, <2>2, <2>3, QuietStep
<1>11. Passed'
    <2>1. Reduced(NoMemory)' = Reduced(NoMemory)
        BY <1>1, <1>6, NoMemoryIs, HealthEvents, ReducedAppend
    <2>2. pinned => Reduced(NoMemory) = r.reduced
        BY <1>1, <1>3 DEF Remembered
    <2>3. done \subseteq 1 .. cursor /\ deferred \subseteq 1 .. cursor /\ (~pinned => lost = {})
        BY <1>1 DEF Passed
    <2>4. CASE ~pinned
        <3>1. lost' = {} /\ lost' \subseteq 1 .. cursor'
            BY <1>8, <2>3, <2>4
        <3> QED BY <1>8, <2>3, <3>1 DEF Passed
    <2>5. CASE pinned
        <3>1. NextBatch(cursor, Reduced(NoMemory))' = b
            BY <1>2, <1>8, <2>1, <2>2, <2>5 DEF NextBatch, BatchSize
        <3>2. lost \subseteq 1 .. b.last
            <4>1. PICK c : c = NextBatch(cursor, Reduced(NoMemory))
                OBVIOUS
            <4>2. c = b
                BY <1>2, <2>2, <2>5, <4>1
            <4>3. lost \subseteq 1 .. cursor \/ lost \subseteq 1 .. c.last
                BY <1>1, <4>1 DEF Passed
            <4> QED BY <1>4, <1>5, <4>2, <4>3
        <3>3. lost' \subseteq 1 .. b.last
            <4>1. EventsOf(b) \subseteq 1 .. b.last
                BY <1>4, <1>5
            <4> QED BY <1>8, <2>5, <3>2, <4>1
        <3>4. pinned' /\ done' \subseteq 1 .. cursor' /\ deferred' \subseteq 1 .. cursor'
            BY <1>8, <2>3, <2>5
        <3> QED BY <3>1, <3>3, <3>4 DEF Passed
    <2> QED BY <2>4, <2>5
<1>12. NoneGivenUpEarly'
    <2>1. done \cap EventsOf(b) = {}
        BY <1>1, <1>4, <1>5 DEF Passed
    <2>2. lost \subseteq lost' /\ lost' \subseteq lost \cup EventsOf(b)
        BY <1>8
    <2> QED BY <1>1, <1>8, <2>1, <2>2 DEF NoneGivenUpEarly
<1> QED BY <1>9, <1>10, <1>11, <1>12 DEF RecoveryIInv

(* defer_delivery: the failure is recorded, or the event is given up.      *)
LEMMA DeferFacts ==
    ASSUME RecoveryIInv, DeferDelivery
    PROVE  /\ failing.first \in Events /\ failing.first \in Keys /\ Open(failing.first)
           /\ mem.through = Len(health)
           /\ mem.backoff[failing.first] = Recorded(failing.first)
           /\ Recorded(failing.first) \in Nat /\ Recorded(failing.first) + 1 <= Tries
           /\ failing.last \in failing.first .. LastEvent
           /\ Alone(failing) <=> failing = Batch(failing.first, failing.first)
<1>1. RecoveryTypeOK /\ FailingIs /\ Remembered /\ Counted
    BY DEF RecoveryIInv
<1>2. failing # NoBatch
    BY DEF DeferDelivery
<1>3. /\ failing = Batch(failing.first, failing.last)
      /\ failing.first \in Events /\ failing.last \in failing.first .. LastEvent
      /\ mem.through = Len(health)
    BY <1>1, <1>2 DEF FailingIs
<1>4. Open(failing.first) /\ failing.first \in Keys
    BY <1>2, <1>3 DEF Open, Keys
<1>5. mem.backoff[failing.first] = Recorded(failing.first)
    <2>1. Learned(mem, failing.first) = mem.backoff[failing.first]
        BY <1>1, <1>3, NothingUnread
    <2> QED BY <1>1, <1>3, <1>4, <2>1 DEF Remembered
<1>6. Recorded(failing.first) \in Nat /\ Recorded(failing.first) < Tries
    BY <1>1, <1>3, <1>4, NoMemoryIs DEF Counted
<1>7. Alone(failing) <=> failing = Batch(failing.first, failing.first)
    <2>1. PICK f, l : f = failing.first /\ l = failing.last
        OBVIOUS
    <2>2. failing = Batch(f, l)
        BY <1>3, <2>1
    <2>3. Batch(f, f).last = f
        BY DEF Batch
    <2> QED BY <2>1, <2>2, <2>3 DEF Alone
<1> QED BY <1>3, <1>4, <1>5, <1>6, <1>7, RecoveryAssumption

LEMMA GivenUpKeeps ==
    ASSUME RecoveryIInv, DeferDelivery, GivenUp(Recorded(failing.first) + 1, failing)
    PROVE  RecoveryIInv'
<1>1. RecoveryTypeOK /\ FailingIs /\ Remembered /\ Counted /\ Passed /\ NoneGivenUpEarly
    BY DEF RecoveryIInv
<1>2. PICK f : f = failing.first
    OBVIOUS
<1>3. /\ f \in Events /\ f \in Keys /\ Open(f) /\ mem.through = Len(health)
      /\ mem.backoff[f] = Recorded(f) /\ Recorded(f) \in Nat /\ Recorded(f) + 1 <= Tries
      /\ failing = Batch(f, f) /\ f \in Poison /\ Recorded(f) + 1 >= Tries
    <2>1. Alone(failing) /\ Recorded(f) + 1 >= Tries
        BY <1>2 DEF GivenUp
    <2>2. f \in Poison
        BY <1>1, <1>2, <2>1 DEF FailingIs, DeferDelivery
    <2> QED BY <1>2, <2>1, <2>2, DeferFacts
<1>4. ~pinned
    BY <1>1, <1>3, RecoveryAssumption DEF Counted
<1>5. f = cursor + 1 /\ cursor \in Nat /\ f \in 0 .. LastEvent
    BY <1>1, <1>2, <1>3, <1>4, RecoveryAssumption DEF FailingIs, DeferDelivery, RecoveryTypeOK, Events
<1>6. /\ deferred' = deferred \cup {f} /\ cursor' = f /\ health' = health /\ failing' = NoBatch
      /\ mem' = [mem EXCEPT !.reduced = TRUE, !.backoff[f] = 0]
      /\ UNCHANGED <<done, lost, pinned, attempts, crashes>>
    <2>1. PICK n : n = IF mem.backoff[f] + 1 > Tries THEN Tries ELSE mem.backoff[f] + 1
        OBVIOUS
    <2>2. n = Recorded(f) + 1
        BY <1>3, <2>1, RecoveryAssumption
    <2>3. GivenUp(n, failing)
        BY <1>2, <2>2
    <2>4. /\ deferred' = deferred \cup {f} /\ cursor' = (IF cursor > f THEN cursor ELSE f) /\ health' = health /\ failing' = NoBatch
          /\ mem' = [mem EXCEPT !.reduced = TRUE, !.backoff[f] = 0]
          /\ UNCHANGED <<done, lost, pinned, attempts, crashes>>
        BY <1>2, <2>1, <2>3 DEF DeferDelivery
    <2> QED BY <1>5, <2>4
<1>7. /\ mem' = [backoff |-> mem'.backoff, reduced |-> TRUE, failed |-> mem'.failed, through |-> mem'.through]
      /\ mem'.through = mem.through /\ mem'.reduced = TRUE /\ mem'.backoff \in [Keys -> Nat]
      /\ \A k \in Keys : k # f => mem'.backoff[k] = mem.backoff[k]
    <2>1. PICK g : g = [mem.backoff EXCEPT ![f] = 0]
        OBVIOUS
    <2>2. g \in [Keys -> Nat] /\ \A k \in Keys : k # f => g[k] = mem.backoff[k]
        BY <1>1, <2>1 DEF RecoveryTypeOK
    <2>3. mem = [backoff |-> mem.backoff, reduced |-> mem.reduced, failed |-> mem.failed, through |-> mem.through]
        BY <1>1 DEF RecoveryTypeOK
    <2>4. mem' = [backoff |-> g, reduced |-> TRUE, failed |-> mem.failed, through |-> mem.through]
        BY <1>6, <2>1, <2>3
    <2> QED BY <2>2, <2>4
<1>8. RecoveryTypeOK'
    BY <1>1, <1>5, <1>6, <1>7 DEF RecoveryTypeOK
<1>9. \A e \in Events : Open(e)' => e > f /\ Open(e) /\ e # f /\ e \in Keys
    <2>1. f \in Nat
        BY <1>5
    <2> QED BY <1>5, <1>6, <2>1, RecoveryAssumption DEF Open, Events, Keys
<1>10. \A e \in Events : Recorded(e)' = Recorded(e) /\ Recorded(e) \in Nat
    BY <1>1, <1>6, LearnedSame, NoMemoryIs DEF Recorded
<1>11. Remembered'
    <2>1. ASSUME NEW e \in Events, Open(e)' PROVE Learned(mem, e)' = Recorded(e)'
        <3>1. Open(e) /\ e # f /\ e \in Keys
            BY <1>9, <2>1
        <3>2. PICK m : m = mem'
            OBVIOUS
        <3>3. Learned(mem, e)' = Learned(m, e)'
            BY <3>2 DEF Learned, About, Unread
        <3>4. Learned(m, e)' = Learned(m, e)
            BY <1>6, LearnedSame
        <3>5. Learned(m, e) = m.backoff[e] /\ Learned(mem, e) = mem.backoff[e]
            BY <1>1, <1>3, <1>7, <3>2, NothingUnread
        <3>6. Learned(mem, e) = Recorded(e)
            BY <1>1, <3>1 DEF Remembered
        <3> QED BY <1>7, <1>10, <3>1, <3>2, <3>3, <3>4, <3>5, <3>6
    <2> QED BY <1>1, <1>4, <1>6, <1>7, <2>1 DEF Remembered
<1>12. Counted'
    <2>1. ASSUME NEW e \in Events, Open(e)'
          PROVE  /\ Recorded(e) < Tries /\ attempts[e] <= Recorded(e) + crashes /\ Recorded(e) <= attempts[e] + 1
                 /\ failing' # Batch(e, e)
        <3>1. Open(e) /\ e # f
            BY <1>9, <2>1
        <3>2. failing # Batch(e, e)
            <4>1. Batch(e, e).first = e /\ Batch(f, f).first = f
                BY DEF Batch
            <4> QED BY <1>3, <3>1, <4>1
        <3>3. Recorded(e) \in Nat /\ attempts[e] \in Nat /\ crashes \in Nat
            BY <1>1, <1>10 DEF RecoveryTypeOK
        <3>4. /\ Recorded(e) < Tries
              /\ attempts[e] <= Recorded(e) + crashes + 0 /\ Recorded(e) <= attempts[e] + 1
            BY <1>1, <3>1, <3>2 DEF Counted
        <3> QED BY <1>6, <3>3, <3>4, NoBatchIs
    <2>2. ASSUME NEW e \in Events, Open(e)'
          PROVE  (/\ Recorded(e) < Tries
                  /\ attempts[e] <= Recorded(e) + crashes + (IF failing = Batch(e, e) THEN 1 ELSE 0)
                  /\ Recorded(e) <= attempts[e] + (IF failing = Batch(e, e) THEN 0 ELSE 1)
                  /\ pinned => Recorded(e) = 0)'
        <3>1. Recorded(e) \in Nat /\ attempts[e] \in Nat /\ crashes \in Nat /\ Recorded(e)' = Recorded(e)
            BY <1>1, <1>10 DEF RecoveryTypeOK
        <3> QED BY <1>4, <1>6, <2>1, <2>2, <3>1
    <2> QED BY <2>2 DEF Counted
<1>13. Passed'
    <2>1. lost = {} /\ done \subseteq 1 .. cursor /\ deferred \subseteq 1 .. cursor
        BY <1>1, <1>4 DEF Passed
    <2>2. done' \subseteq 1 .. cursor' /\ deferred' \subseteq 1 .. cursor' /\ lost' = {}
        BY <1>5, <1>6, <2>1
    <2> QED BY <2>2 DEF Passed
<1>14. NoneGivenUpEarly'
    <2>1. 1 .. cursor' = (1 .. cursor) \cup {f}
        BY <1>5, <1>6
    <2>2. f \notin done
        BY <1>1, <1>5 DEF Passed
    <2>3. attempts[f] + 1 >= Tries
        <3>1. Recorded(f) <= attempts[f] + 0 /\ attempts[f] \in Nat
            BY <1>1, <1>3 DEF Counted, RecoveryTypeOK
        <3> QED BY <1>3, <3>1, RecoveryAssumption
    <2> QED BY <1>1, <1>3, <1>6, <2>1, <2>2, <2>3 DEF NoneGivenUpEarly
<1> QED BY <1>8, <1>6, <1>11, <1>12, <1>13, <1>14 DEF RecoveryIInv, FailingIs

LEMMA BackoffKeeps ==
    ASSUME RecoveryIInv, DeferDelivery, ~GivenUp(Recorded(failing.first) + 1, failing)
    PROVE  RecoveryIInv'
<1>1. RecoveryTypeOK /\ FailingIs /\ Remembered /\ Counted /\ Passed /\ NoneGivenUpEarly
    BY DEF RecoveryIInv
<1>2. PICK f : f = failing.first
    OBVIOUS
<1>3. /\ f \in Events /\ f \in Keys /\ Open(f) /\ mem.through = Len(health)
      /\ mem.backoff[f] = Recorded(f) /\ Recorded(f) \in Nat /\ Recorded(f) + 1 <= Tries
      /\ Alone(failing) <=> failing = Batch(f, f)
      /\ failing.last \in f .. LastEvent
    BY <1>2, DeferFacts
<1>4. f \in Nat /\ f # Own /\ cursor \in Nat /\ LastEvent \in Nat /\ Tries \in Nat /\ Tries >= 2
    BY <1>1, <1>3, RecoveryAssumption DEF Events, Own, RecoveryTypeOK
<1>5. PICK n : n = Recorded(f) + 1
    OBVIOUS
<1>6. n \in Nat /\ n < Tries
    <2>1. CASE Alone(failing)
        BY <1>2, <1>3, <1>4, <1>5, <2>1 DEF GivenUp
    <2>2. CASE ~Alone(failing)
        <3>1. Recorded(f) = 0
            BY <1>1, <1>2, <2>2 DEF FailingIs, DeferDelivery
        <3> QED BY <1>4, <1>5, <3>1
    <2> QED BY <2>1, <2>2
<1>7. /\ health' = Append(health, Backoff(f, n)) /\ failing' = NoBatch
      /\ mem' = [mem EXCEPT !.reduced = TRUE, !.backoff[f] = n]
      /\ UNCHANGED <<cursor, done, deferred, lost, pinned, attempts, crashes>>
    <2>1. n = IF mem.backoff[f] + 1 > Tries THEN Tries ELSE mem.backoff[f] + 1
        BY <1>3, <1>4, <1>5, <1>6
    <2>2. ~GivenUp(n, failing)
        BY <1>2, <1>5
    <2> QED BY <1>2, <2>1, <2>2 DEF DeferDelivery
<1>8. /\ mem' = [backoff |-> mem'.backoff, reduced |-> TRUE, failed |-> mem'.failed, through |-> mem'.through]
      /\ mem'.through = mem.through /\ mem'.reduced = TRUE /\ mem'.backoff \in [Keys -> Nat]
      /\ \A k \in Keys : k # f => mem'.backoff[k] = mem.backoff[k]
    <2>1. PICK g : g = [mem.backoff EXCEPT ![f] = n]
        OBVIOUS
    <2>2. g \in [Keys -> Nat] /\ \A k \in Keys : k # f => g[k] = mem.backoff[k]
        BY <1>1, <1>6, <2>1 DEF RecoveryTypeOK
    <2>3. mem = [backoff |-> mem.backoff, reduced |-> mem.reduced, failed |-> mem.failed, through |-> mem.through]
        BY <1>1 DEF RecoveryTypeOK
    <2>4. mem' = [backoff |-> g, reduced |-> TRUE, failed |-> mem.failed, through |-> mem.through]
        BY <1>7, <2>1, <2>3
    <2> QED BY <2>2, <2>4
<1>9. PICK h : h = Backoff(f, n)
    OBVIOUS
<1>10. /\ HealthTyped(h) /\ IsAboutSize(h) /\ IsAbout(h, f) /\ h.kind = "backoff" /\ h.n = n
       /\ \A e \in Events : e # f => ~IsAbout(h, e)
    BY <1>3, <1>4, <1>6, <1>9 DEF HealthTyped, IsAboutSize, IsAbout, Backoff
<1>11. RecoveryTypeOK'
    <2>1. /\ \E S : health' \in Seq(S)
          /\ \A i \in 1 .. Len(health') : HealthTyped(health'[i])
          /\ Len(health') \in Nat /\ Len(health) \in Nat /\ Len(health) <= Len(health')
        BY <1>1, <1>7, <1>9, <1>10, HealthTypes
    <2>2. mem'.through \in 0 .. Len(health')
        BY <1>3, <1>8, <2>1
    <2> QED BY <1>1, <1>7, <1>8, <2>1, <2>2 DEF RecoveryTypeOK
<1>12. PICK m : m = mem'
    OBVIOUS
<1>13. m.through \in 0 .. Len(health) /\ NoMemory.through \in 0 .. Len(health) /\ m.through = Len(health)
    BY <1>1, <1>3, <1>8, <1>12, NoMemoryIs DEF RecoveryTypeOK
<1>14. \A k : Learned(mem, k)' = Learned(m, k)'
    BY <1>12 DEF Learned, About, Unread
<1>15. Reduced(mem)' = Reduced(m)'
    BY <1>12 DEF Reduced, AboutSize, Unread
<1>16. /\ Learned(m, f)' = n /\ Recorded(f)' = n
    BY <1>1, <1>7, <1>9, <1>10, <1>13, LearnedAppend DEF Recorded
<1>17. ASSUME NEW e \in Events, e # f
       PROVE  Learned(m, e)' = mem.backoff[e] /\ Recorded(e)' = Recorded(e)
    <2>1. Learned(m, e)' = Learned(m, e) /\ Learned(NoMemory, e)' = Learned(NoMemory, e)
        BY <1>1, <1>7, <1>9, <1>10, <1>13, <1>17, LearnedAppend
    <2>2. Learned(m, e) = m.backoff[e]
        BY <1>1, <1>13, NothingUnread
    <2>3. m.backoff[e] = mem.backoff[e]
        BY <1>8, <1>12, <1>17 DEF Keys
    <2> QED BY <2>1, <2>2, <2>3 DEF Recorded
<1>18. Reduced(m)' /\ Reduced(NoMemory)'
    BY <1>1, <1>7, <1>9, <1>10, <1>13, ReducedAppend
<1>19. \A e \in Events : Open(e)' => Open(e) /\ e > cursor
    BY <1>4, <1>7, RecoveryAssumption DEF Open, Events
<1>20. Remembered'
    <2>1. ASSUME NEW e \in Events, Open(e)' PROVE Learned(mem, e)' = Recorded(e)'
        <3>1. CASE e = f
            BY <1>14, <1>16, <3>1
        <3>2. CASE e # f
            <4>1. Learned(mem, e) = mem.backoff[e] /\ Learned(mem, e) = Recorded(e)
                BY <1>1, <1>3, <1>19, <2>1, NothingUnread DEF Remembered
            <4> QED BY <1>14, <1>17, <3>2, <4>1
        <3> QED BY <3>1, <3>2
    <2>2. pinned' => Reduced(mem)' = Reduced(NoMemory)'
        <3>1. Reduced(m)' \in BOOLEAN /\ Reduced(NoMemory)' \in BOOLEAN
            BY <1>8, <1>12, ReducedAppend, <1>1, <1>7, <1>9, <1>10, <1>13
        <3> QED BY <1>15, <1>18, <3>1
    <2>3. ASSUME ~pinned, NEW i \in 1 .. Len(health'), health'[i].kind = "recovered" PROVE ~health'[i].whole
        <3>1. (i \in 1 .. Len(health) /\ health'[i] = health[i]) \/ health'[i] = h
            BY <1>1, <1>7, <1>9 DEF RecoveryTypeOK
        <3> QED BY <1>1, <1>10, <2>3, <3>1 DEF Remembered
    <2> QED BY <1>7, <1>8, <2>1, <2>2, <2>3 DEF Remembered
<1>21. Counted'
    <2>1. ASSUME NEW e \in Events, Open(e)'
          PROVE  (/\ Recorded(e) < Tries
                  /\ attempts[e] <= Recorded(e) + crashes + (IF failing = Batch(e, e) THEN 1 ELSE 0)
                  /\ Recorded(e) <= attempts[e] + (IF failing = Batch(e, e) THEN 0 ELSE 1)
                  /\ pinned => Recorded(e) = 0)'
        <3>1. Open(e) /\ e > cursor /\ failing' # Batch(e, e) /\ attempts' = attempts /\ crashes' = crashes /\ pinned' = pinned
            BY <1>7, <1>19, <2>1, NoBatchIs
        <3>2. Recorded(e) \in Nat /\ attempts[e] \in Nat /\ crashes \in Nat
            BY <1>1, NoMemoryIs DEF RecoveryTypeOK
        <3>3. /\ Recorded(e) < Tries
              /\ attempts[e] <= Recorded(e) + crashes + (IF failing = Batch(e, e) THEN 1 ELSE 0)
              /\ Recorded(e) <= attempts[e] + (IF failing = Batch(e, e) THEN 0 ELSE 1)
              /\ pinned => Recorded(e) = 0
            BY <1>1, <3>1 DEF Counted
        <3>4. CASE e = f
            <4>1. ~pinned
                <5>1. pinned => cursor = failing.last
                    BY <1>1 DEF FailingIs, DeferDelivery
                <5> QED BY <1>3, <1>4, <3>1, <3>4, <5>1
            <4>2. attempts[e] <= Recorded(e) + crashes + 1
                BY <3>2, <3>3
            <4>3. Recorded(e) <= attempts[e] + (IF failing = Batch(e, e) THEN 0 ELSE 1) /\ (failing # Batch(e, e) => Recorded(e) = 0)
                <5>1. failing # Batch(e, e) => Recorded(e) = 0
                    BY <1>1, <1>2, <1>3, <3>4 DEF FailingIs, DeferDelivery
                <5> QED BY <3>3, <5>1
            <4>4. Recorded(e)' = Recorded(e) + 1 /\ Recorded(e)' < Tries
                BY <1>5, <1>6, <1>16, <3>4
            <4>5. Recorded(e) + 1 <= attempts[e] + 1
                BY <3>2, <4>3
            <4>6. attempts[e] <= (Recorded(e) + 1) + crashes + 0
                BY <3>2, <4>2
            <4> QED BY <3>1, <4>1, <4>4, <4>5, <4>6
        <3>5. CASE e # f
            <4>1. failing # Batch(e, e)
                <5>1. Batch(e, e).first = e
                    BY DEF Batch
                <5> QED BY <1>2, <3>5, <5>1
            <4>2. Recorded(e)' = Recorded(e)
                BY <1>17, <3>5
            <4> QED BY <3>1, <3>3, <4>1, <4>2
        <3> QED BY <3>4, <3>5
    <2> QED BY <2>1 DEF Counted
<1>22. Passed'
    <2>1. lost \subseteq 1 .. cursor
        BY <1>1 DEF FailingIs, Passed, DeferDelivery
    <2>2. done \subseteq 1 .. cursor /\ deferred \subseteq 1 .. cursor /\ (~pinned => lost = {})
        BY <1>1 DEF Passed
    <2> QED BY <1>7, <2>1, <2>2 DEF Passed
<1>23. NoneGivenUpEarly'
    BY <1>1, <1>7 DEF NoneGivenUpEarly
<1> QED BY <1>7, <1>11, <1>20, <1>21, <1>22, <1>23 DEF RecoveryIInv, FailingIs

(* The process dies; it is started again and the component is installed.   *)
LEMMA CrashKeeps ==
    ASSUME RecoveryIInv, Crash
    PROVE  RecoveryIInv'
<1>1. RecoveryTypeOK /\ FailingIs /\ Remembered /\ Counted /\ Passed /\ NoneGivenUpEarly
    BY DEF RecoveryIInv
<1>2. /\ crashes' = crashes + 1 /\ mem' = NoMemory /\ failing' = NoBatch
      /\ UNCHANGED <<cursor, health, done, deferred, lost, pinned, attempts>>
    BY DEF Crash
<1>3. /\ NoMemory.backoff \in [Keys -> Nat] /\ NoMemory.reduced = FALSE /\ NoMemory.through = 0
      /\ NoMemory = [backoff |-> NoMemory.backoff, reduced |-> NoMemory.reduced,
                     failed |-> NoMemory.failed, through |-> NoMemory.through]
    BY DEF NoMemory
<1>4. RecoveryTypeOK'
    <2>1. 0 \in 0 .. Len(health) /\ crashes + 1 \in Nat
        BY <1>1 DEF RecoveryTypeOK
    <2> QED BY <1>1, <1>2, <1>3, <2>1 DEF RecoveryTypeOK
<1>5. \A m, k : Learned(m, k)' = Learned(m, k) /\ Reduced(m)' = Reduced(m)
    BY <1>2, LearnedSame
<1>6. Remembered'
    <2>1. \A e : Learned(mem, e)' = Recorded(e)'
        BY <1>2 DEF Recorded, Learned, About, Unread
    <2>2. Reduced(mem)' = Reduced(NoMemory)'
        BY <1>2 DEF Reduced, AboutSize, Unread
    <2>3. 1 .. mem'.through = {}
        BY <1>2, <1>3
    <2> QED BY <1>1, <1>2, <2>1, <2>2, <2>3 DEF Remembered
<1>7. Counted'
    <2>1. ASSUME NEW e \in Events, Open(e)'
          PROVE  (/\ Recorded(e) < Tries
                  /\ attempts[e] <= Recorded(e) + crashes + (IF failing = Batch(e, e) THEN 1 ELSE 0)
                  /\ Recorded(e) <= attempts[e] + (IF failing = Batch(e, e) THEN 0 ELSE 1)
                  /\ pinned => Recorded(e) = 0)'
        <3>1. Open(e) /\ failing' # Batch(e, e) /\ Recorded(e)' = Recorded(e)
            BY <1>2, <1>5, <2>1, NoBatchIs DEF Open, Recorded
        <3>2. Recorded(e) \in Nat /\ attempts[e] \in Nat /\ crashes \in Nat
            BY <1>1, NoMemoryIs DEF RecoveryTypeOK
        <3>3. /\ Recorded(e) < Tries
              /\ attempts[e] <= Recorded(e) + crashes + (IF failing = Batch(e, e) THEN 1 ELSE 0)
              /\ Recorded(e) <= attempts[e] + (IF failing = Batch(e, e) THEN 0 ELSE 1)
              /\ pinned => Recorded(e) = 0
            BY <1>1, <3>1 DEF Counted
        <3>4. attempts[e] <= Recorded(e) + (crashes + 1) + 0 /\ Recorded(e) <= attempts[e] + 1
            BY <3>2, <3>3
        <3> QED BY <1>2, <3>1, <3>3, <3>4
    <2> QED BY <2>1 DEF Counted
<1>8. Passed'
    <2>1. NextBatch(cursor, Reduced(NoMemory))' = NextBatch(cursor, Reduced(NoMemory))
        BY <1>2, <1>5 DEF NextBatch, BatchSize
    <2>2. PICK b : b = NextBatch(cursor, Reduced(NoMemory))
        OBVIOUS
    <2> QED BY <1>1, <1>2, <2>1, <2>2 DEF Passed
<1>9. NoneGivenUpEarly'
    <2>1. \A e \in Events : attempts[e] <= Tries + (crashes + 1)
        BY <1>1, RecoveryAssumption DEF NoneGivenUpEarly, RecoveryTypeOK
    <2> QED BY <1>1, <1>2, <2>1 DEF NoneGivenUpEarly
<1> QED BY <1>2, <1>4, <1>6, <1>7, <1>8, <1>9 DEF RecoveryIInv, FailingIs

(* A batch that holds one that exhausts the memory alone does so too.      *)
LEMMA WiderExhausts ==
    ASSUME RecoveryTypeOK, NEW reduced \in BOOLEAN, Exhausts(NextBatch(cursor, reduced))
    PROVE  /\ Exhausts(NextBatch(cursor, FALSE))
           /\ NextBatch(cursor, reduced).last <= NextBatch(cursor, FALSE).last
           /\ NextBatch(cursor, reduced).last \in Nat /\ NextBatch(cursor, FALSE).last \in Nat
<1>1. PICK b, c : b = NextBatch(cursor, reduced) /\ c = NextBatch(cursor, FALSE)
    OBVIOUS
<1>2. cursor \in Nat /\ LastEvent \in Nat /\ BatchLimit \in Nat /\ BatchLimit >= 1 /\ cursor <= LastEvent
    BY RecoveryAssumption DEF RecoveryTypeOK
<1>3. PICK e \in EventsOf(b) : e \in Poison \/ e \in Heavy
    BY <1>1 DEF Exhausts
<1>4. cursor < LastEvent
    <2>1. b.first = cursor + 1 /\ b.last <= LastEvent /\ b.last \in Int
        BY <1>1, <1>2 DEF NextBatch, Batch, BatchSize
    <2>2. e \in b.first .. b.last
        BY <1>3 DEF EventsOf
    <2> QED BY <1>2, <2>1, <2>2
<1>5. /\ b.first = cursor + 1 /\ b.last \in b.first .. LastEvent /\ (reduced => b.last = b.first)
      /\ EventsOf(b) = cursor + 1 .. b.last
      /\ c.first = cursor + 1 /\ c.last \in c.first .. LastEvent /\ EventsOf(c) = cursor + 1 .. c.last
    BY <1>1, <1>4, NextBatchIs
<1>6. CASE ~reduced
    <2>1. b = c
        BY <1>1, <1>6 DEF NextBatch, BatchSize
    <2>2. b.last \in Nat /\ b.last <= c.last /\ c.last \in Nat
        BY <1>2, <1>5, <2>1
    <2>3. Exhausts(c)
        BY <1>1, <2>1
    <2> QED BY <1>1, <2>2, <2>3
<1>7. CASE reduced
    <2>1. b.last = cursor + 1 /\ cursor + 1 <= c.last /\ c.last \in Nat
        BY <1>2, <1>5, <1>7
    <2>2. EventsOf(b) \subseteq EventsOf(c)
        BY <1>2, <1>5, <2>1
    <2>3. \E x \in EventsOf(b) : x \in Poison
        BY <1>1, <1>5, <2>1 DEF Exhausts, Alone
    <2>4. Exhausts(c)
        BY <2>2, <2>3 DEF Exhausts
    <2>5. b.last <= c.last /\ b.last \in Nat
        BY <1>2, <2>1
    <2> QED BY <1>1, <2>1, <2>4, <2>5
<1> QED BY <1>6, <1>7

LEMMA InstallKeeps ==
    ASSUME RecoveryIInv, Install, failing = NoBatch
    PROVE  RecoveryIInv'
<1>1. RecoveryTypeOK /\ FailingIs /\ Remembered /\ Counted /\ Passed /\ NoneGivenUpEarly
    BY DEF RecoveryIInv
<1>2. UNCHANGED <<cursor, done, deferred, lost, pinned, mem, failing, attempts, crashes>>
    BY DEF Install
<1>3. CASE health' = health
    <2>1. \A m, k : Learned(m, k)' = Learned(m, k) /\ Reduced(m)' = Reduced(m)
        BY <1>3, LearnedSame
    <2>2. RecoveryTypeOK' /\ NoneGivenUpEarly'
        BY <1>1, <1>2, <1>3 DEF RecoveryTypeOK, NoneGivenUpEarly
    <2>3. /\ \A e : Recorded(e)' = Recorded(e) /\ (Open(e)' <=> Open(e)) /\ Learned(mem, e)' = Learned(mem, e)
          /\ Reduced(mem)' = Reduced(mem) /\ Reduced(NoMemory)' = Reduced(NoMemory)
        BY <1>2, <1>3 DEF Recorded, Open, Learned, About, Unread, Reduced, AboutSize
    <2>4. Remembered'
        BY <1>1, <1>2, <1>3, <2>3 DEF Remembered
    <2>5. Counted'
        BY <1>1, <1>2, <2>3 DEF Counted
    <2>6. Passed'
        <3>1. NextBatch(cursor, Reduced(NoMemory))' = NextBatch(cursor, Reduced(NoMemory))
            BY <1>2, <2>3 DEF NextBatch, BatchSize
        <3>2. PICK b : b = NextBatch(cursor, Reduced(NoMemory))
            OBVIOUS
        <3> QED BY <1>1, <1>2, <3>1, <3>2 DEF Passed
    <2> QED BY <1>2, <2>2, <2>4, <2>5, <2>6 DEF RecoveryIInv, FailingIs
<1>4. CASE pinned /\ health' = Append(health, RecoveredEvent(Events, TRUE))
    <2>1. PICK h : h = RecoveredEvent(Events, TRUE)
        OBVIOUS
    <2>2. HealthTyped(h) /\ IsAboutSize(h) /\ h.kind # "backoff" /\ \A e \in Events : IsAbout(h, e)
        BY <2>1 DEF HealthTyped, IsAboutSize, IsAbout, RecoveredEvent
    <2>3. RecoveryTypeOK'
        <3>1. /\ \E S : health' \in Seq(S)
              /\ \A i \in 1 .. Len(health') : HealthTyped(health'[i])
              /\ Len(health') \in Nat /\ Len(health) \in Nat /\ Len(health) <= Len(health')
            BY <1>1, <1>4, <2>1, <2>2, HealthTypes
        <3> QED BY <1>1, <1>2, <3>1 DEF RecoveryTypeOK
    <2>4. PICK m : m = mem
        OBVIOUS
    <2>5. m.through \in 0 .. Len(health) /\ NoMemory.through \in 0 .. Len(health)
        BY <1>1, <2>4, NoMemoryIs DEF RecoveryTypeOK
    <2>6. ASSUME NEW e \in Events PROVE Learned(mem, e)' = 0 /\ Recorded(e)' = 0
        <3>1. Learned(m, e)' = 0 /\ Learned(NoMemory, e)' = 0
            BY <1>1, <1>4, <2>1, <2>2, <2>5, LearnedAppend
        <3>2. Learned(mem, e)' = Learned(m, e)'
            BY <1>2, <2>4 DEF Learned, About, Unread
        <3> QED BY <3>1, <3>2 DEF Recorded
    <2>7. Reduced(mem)' = FALSE /\ Reduced(NoMemory)' = FALSE
        <3>1. Reduced(m)' = (h.kind = "backoff") /\ Reduced(NoMemory)' = (h.kind = "backoff")
            BY <1>1, <1>4, <2>1, <2>2, <2>5, ReducedAppend
        <3>2. Reduced(mem)' = Reduced(m)'
            BY <1>2, <2>4 DEF Reduced, AboutSize, Unread
        <3> QED BY <2>2, <3>1, <3>2
    <2>8. Remembered'
        BY <1>2, <1>4, <2>6, <2>7 DEF Remembered
    <2>9. Counted'
        <3>1. ASSUME NEW e \in Events, Open(e)'
              PROVE  (/\ Recorded(e) < Tries
                      /\ attempts[e] <= Recorded(e) + crashes + (IF failing = Batch(e, e) THEN 1 ELSE 0)
                      /\ Recorded(e) <= attempts[e] + (IF failing = Batch(e, e) THEN 0 ELSE 1)
                      /\ pinned => Recorded(e) = 0)'
            <4>1. Open(e)
                BY <1>2, <3>1 DEF Open
            <4>2. Recorded(e) = 0 /\ attempts[e] <= Recorded(e) + crashes
                BY <1>1, <1>4, <4>1, CountedIdle
            <4>3. failing' # Batch(e, e) /\ attempts' = attempts /\ crashes' = crashes /\ Recorded(e)' = 0
                BY <1>2, <2>6, NoBatchIs
            <4>4. attempts[e] \in Nat /\ crashes \in Nat /\ 0 < Tries
                BY <1>1, RecoveryAssumption DEF RecoveryTypeOK
            <4>5. attempts[e] <= 0 + crashes + 0 /\ 0 <= attempts[e] + 1
                BY <4>2, <4>4
            <4> QED BY <4>3, <4>4, <4>5
        <3> QED BY <3>1 DEF Counted
    <2>10. Passed'
        <3>1. PICK b, c : b = NextBatch(cursor, Reduced(NoMemory)) /\ c = NextBatch(cursor, FALSE)
            OBVIOUS
        <3>2. NextBatch(cursor, Reduced(NoMemory))' = c
            BY <1>2, <2>7, <3>1 DEF NextBatch, BatchSize
        <3>3. done \subseteq 1 .. cursor /\ deferred \subseteq 1 .. cursor
            BY <1>1 DEF Passed
        <3>4. CASE lost \subseteq 1 .. cursor
            BY <1>2, <1>4, <3>3, <3>4 DEF Passed
        <3>5. CASE Exhausts(b) /\ lost \subseteq 1 .. b.last
            <4>1. Reduced(NoMemory) \in BOOLEAN
                <5>1. PICK m0 : m0 = NoMemory
                    OBVIOUS
                <5>2. m0.reduced \in BOOLEAN
                    BY <1>1, <5>1, NoMemoryIs
                <5> QED BY <5>1, <5>2, ReducedIsBoolean
            <4>2. Exhausts(c) /\ b.last <= c.last /\ b.last \in Nat /\ c.last \in Nat
                BY <1>1, <3>1, <3>5, <4>1, WiderExhausts
            <4>3. lost \subseteq 1 .. c.last
                BY <3>5, <4>2
            <4> QED BY <1>2, <1>4, <3>2, <3>3, <4>2, <4>3 DEF Passed
        <3> QED BY <1>1, <3>1, <3>4, <3>5 DEF Passed
    <2>11. NoneGivenUpEarly'
        BY <1>1, <1>2 DEF NoneGivenUpEarly
    <2> QED BY <1>2, <2>3, <2>8, <2>9, <2>10, <2>11 DEF RecoveryIInv, FailingIs
<1> QED BY <1>3, <1>4 DEF Install

-----------------------------------------------------------------------------
LEMMA RecoveryInitHolds ==
    ASSUME RecoveryInit
    PROVE  RecoveryIInv
<1>1. /\ NoMemory.backoff = [k \in Keys |-> 0] /\ NoMemory.reduced = FALSE /\ NoMemory.through = 0
      /\ NoMemory = [backoff |-> NoMemory.backoff, reduced |-> NoMemory.reduced,
                     failed |-> NoMemory.failed, through |-> NoMemory.through]
    BY DEF NoMemory
<1>2. << >> \in Seq({}) /\ Len(<< >>) = 0
    OBVIOUS
<1>3. RecoveryTypeOK
    <2>1. cursor \in 0 .. LastEvent /\ attempts \in [Events -> Nat] /\ crashes \in Nat /\ pinned \in BOOLEAN
        BY RecoveryAssumption DEF RecoveryInit
    <2>2. health = << >> /\ mem = NoMemory
        BY DEF RecoveryInit
    <2>3. NoMemory.backoff \in [Keys -> Nat]
        BY <1>1
    <2>4. /\ \E S : health \in Seq(S)
          /\ \A i \in 1 .. Len(health) : HealthTyped(health[i])
          /\ Len(health) = 0
        BY <1>2, <2>2
    <2>5. /\ mem.backoff \in [Keys -> Nat] /\ mem.reduced \in BOOLEAN
          /\ mem.through \in 0 .. Len(health)
        <3>1. mem.backoff = NoMemory.backoff /\ mem.reduced = NoMemory.reduced /\ mem.through = NoMemory.through
            BY ONLY <2>2
        <3>2. 0 \in 0 .. Len(health)
            BY <2>4
        <3>3. mem.reduced \in BOOLEAN
            BY <1>1, <3>1
        <3>4. mem.through = 0
            BY <1>1, <3>1
        <3> QED BY <2>3, <3>1, <3>2, <3>3, <3>4
    <2>6. mem = [backoff |-> mem.backoff, reduced |-> mem.reduced, failed |-> mem.failed, through |-> mem.through]
        BY <1>1, <2>2
    <2> QED BY <2>1, <2>4, <2>5, <2>6 DEF RecoveryTypeOK
<1>4. mem = NoMemory /\ failing = NoBatch /\ health = << >> /\ cursor = 0 /\ done = {} /\ deferred = {} /\ lost = {}
      /\ attempts = [e \in Events |-> 0] /\ crashes = 0
    BY DEF RecoveryInit
<1>5. \A e \in Events : Recorded(e) = 0
    <2>1. About(NoMemory, 0) = {} /\ \A e \in Events : About(NoMemory, e) = {}
        BY <1>1, <1>2, <1>4 DEF About, Unread
    <2> QED BY <1>1, <2>1 DEF Recorded, Learned, Keys
<1>6. Remembered
    BY <1>1, <1>2, <1>4 DEF Remembered, Recorded
<1>7. Counted
    <2>1. \A e \in Events : failing # Batch(e, e)
        BY <1>4, NoBatchIs
    <2> QED BY <1>4, <1>5, <2>1, RecoveryAssumption DEF Counted
<1>8. Passed
    BY <1>4 DEF Passed
<1>9. NoneGivenUpEarly
    BY <1>4, RecoveryAssumption DEF NoneGivenUpEarly
<1> QED BY <1>3, <1>4, <1>6, <1>7, <1>8, <1>9 DEF RecoveryIInv, FailingIs

(* While the process is down no failure is being recorded.                 *)
Down == ~up => failing = NoBatch

LEMMA RecoveryNextKeeps ==
    ASSUME RecoveryIInv, Down, [RecoveryNext]_recoveryVars
    PROVE  RecoveryIInv' /\ Down'
<1>1. CASE UNCHANGED recoveryVars
    <2>1. RecoveryTypeOK' /\ NoneGivenUpEarly'
        BY <1>1 DEF RecoveryIInv, RecoveryTypeOK, NoneGivenUpEarly, recoveryVars
    <2>2. UNCHANGED <<cursor, health, done, deferred, lost, pinned, up, here, mem, failing, attempts, crashes>>
        BY <1>1 DEF recoveryVars
    <2>3. /\ \A e : Recorded(e)' = Recorded(e) /\ (Open(e)' <=> Open(e)) /\ Learned(mem, e)' = Learned(mem, e)
          /\ Reduced(mem)' = Reduced(mem) /\ Reduced(NoMemory)' = Reduced(NoMemory)
        BY <2>2 DEF Recorded, Open, Learned, About, Unread, Reduced, AboutSize
    <2>4. FailingIs'
        BY <2>2, <2>3 DEF RecoveryIInv, FailingIs, Alone, EventsOf
    <2>5. Remembered'
        BY <2>2, <2>3 DEF RecoveryIInv, Remembered
    <2>6. Counted'
        BY <2>2, <2>3 DEF RecoveryIInv, Counted
    <2>7. Passed'
        <3>1. NextBatch(cursor, Reduced(NoMemory))' = NextBatch(cursor, Reduced(NoMemory))
            BY <2>2, <2>3 DEF NextBatch, BatchSize
        <3>2. PICK b : b = NextBatch(cursor, Reduced(NoMemory))
            OBVIOUS
        <3> QED BY <2>2, <3>1, <3>2 DEF RecoveryIInv, Passed
    <2>8. Down'
        BY <2>2 DEF Down
    <2> QED BY <2>1, <2>4, <2>5, <2>6, <2>7, <2>8 DEF RecoveryIInv
<1>2. CASE Deliver
    <2>1. /\ up /\ failing = NoBatch /\ cursor < LastEvent /\ UNCHANGED <<deferred, pinned, up, crashes>>
        BY <1>2 DEF Deliver
    <2>2. PICK b : b = NextBatch(cursor, Refreshed.reduced)
        OBVIOUS
    <2>3. \/ Exhausts(b) /\ (RestartAfterResource(Refreshed, b) \/ MarkResourceRestartFailure(Refreshed, b))
          \/ ~Exhausts(b) /\ (Handled(Refreshed, b) \/ Reported(Refreshed))
        BY <1>2, <2>2 DEF Deliver
    <2>4. RecoveryIInv'
        BY <2>1, <2>2, <2>3, HandledKeeps, ReportedKeeps, RestartKeeps, MarkKeeps
    <2> QED BY <2>1, <2>4 DEF Down
<1>3. CASE DeferDelivery
    <2>1. RecoveryIInv'
        BY <1>3, GivenUpKeeps, BackoffKeeps
    <2> QED BY <1>3, <2>1 DEF DeferDelivery, Down
<1>4. CASE Crash
    <2>1. RecoveryIInv'
        BY <1>4, CrashKeeps
    <2> QED BY <1>4, <2>1 DEF Crash, Down
<1>5. CASE Install
    <2>1. failing = NoBatch /\ failing' = failing
        BY <1>5 DEF Install, Down
    <2>2. RecoveryIInv'
        BY <1>5, <2>1, InstallKeeps
    <2> QED BY <2>1, <2>2 DEF Down
<1> QED BY <1>1, <1>2, <1>3, <1>4, <1>5 DEF RecoveryNext

(* No event is passed unhandled and unrecorded, none is given up early.    *)
THEOREM RecoveryNoneGivenUpEarly == RecoverySpec => []NoneGivenUpEarly
<1>1. RecoveryInit => RecoveryIInv /\ Down
    BY RecoveryInitHolds DEF RecoveryInit, Down
<1>2. RecoveryIInv /\ Down /\ [RecoveryNext]_recoveryVars => (RecoveryIInv /\ Down)'
    BY RecoveryNextKeeps
<1>3. RecoveryIInv => NoneGivenUpEarly
    BY DEF RecoveryIInv
<1> QED BY <1>1, <1>2, <1>3, PTL DEF RecoverySpec
=============================================================================
