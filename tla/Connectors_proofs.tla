-------------------------- MODULE Connectors_proofs --------------------------
(***************************************************************************)
(* What connectors send for a request (Senders) and what the terminal's    *)
(* connector reads (CliConnector).                                         *)
(***************************************************************************)
EXTENDS Senders, CliConnector, TLAPS, FiniteSetTheorems, NaturalsInduction

-----------------------------------------------------------------------------
(***************************************************************************)
(* The terminal answer of a send request is honest about the delivery: for *)
(* any messages, any number of recipients and any replies of the endpoint. *)
(***************************************************************************)

Line == Nat \X STRING

Early == {"ehlo", "auth", "password", "mail"}

Shapes ==
    /\ channel \in {"email", "call", "media"}
    /\ recipients \in Nat
    /\ channel # "email" => recipients = 1
    /\ message \in Seq(Line)
    /\ stage \in {"compose", "rcpt", "data", "body", "gather", "post", "done"} \union Early

(* Nothing is delivered and nothing answered before the last exchange.     *)
Open == stage # "done" => delivered = <<>> /\ answer = "none"

(* The envelope is the recipients up to the last one accepted, and all of  *)
(* them once the endpoint is asked to take the body.                       *)
EnvelopeFits ==
    /\ stage \in Early => recipients > 0 /\ envelope = {}
    /\ stage = "compose" => envelope = {}
    /\ stage = "rcpt" => \E k \in Nat : k < recipients /\ envelope = 1..k
    /\ stage \in {"data", "body"} => envelope = 1..recipients
    /\ stage \in {"gather", "post"} => channel # "email"

IInv == Shapes /\ Open /\ EnvelopeFits /\ AnswerIsHonest

-----------------------------------------------------------------------------
(* No error of the endpoint reads as a completion, and one that leaves the *)
(* outcome open reads as such.                                             *)
LEMMA ErrorOfReply ==
    ASSUME NEW reply \in Replies, reply # "ok"
    PROVE  /\ ErrorOf(reply) # "completed" /\ ErrorOf(reply) # "none"
           /\ reply \in Unheard => ErrorOf(reply) \in {"unavailable", "deadline-exceeded",
                                                       "resource-exhausted"}
  BY DEF ErrorOf, Replies, Unheard

LEMMA APair ==
    ASSUME NEW l \in Line
    PROVE  \E n \in Nat, t \in STRING : l = << n, t >>
<1>1. l = << l[1], l[2] >> /\ l[1] \in Nat /\ l[2] \in STRING
  BY DEF Line
<1> QED BY <1>1

LEMMA NotTheEnd ==
    ASSUME NEW n \in Nat, n # 1, NEW t
    PROVE  << n, t >> # Terminator
<1>1. << n, t >>[1] = n /\ Terminator[1] = 1
  BY DEF Terminator
<1> QED BY <1>1

(* Dot stuffing leaves one line that can end the message, the last one.    *)
LEMMA OneTerminator ==
    ASSUME NEW m \in Seq(Line)
    PROVE  /\ Len(DotStuff(m)) = Len(m) + 1
           /\ DotStuff(m)[Len(m) + 1] = Terminator
           /\ \A i \in 1..Len(m) :
                /\ DotStuff(m)[i] # Terminator
                /\ DotStuff(m)[i] = IF m[i][1] > 0 THEN << m[i][1] + 1, m[i][2] >> ELSE m[i]
<1> DEFINE Stuffed(i) == IF m[i][1] > 0 THEN << m[i][1] + 1, m[i][2] >> ELSE m[i]
           body == [i \in 1..Len(m) |-> Stuffed(i)]
<1>1. ASSUME NEW i \in 1..Len(m)
      PROVE  Stuffed(i) \in Line /\ Stuffed(i) # Terminator
  <2>1. m[i] \in Line
    OBVIOUS
  <2>2. PICK n \in Nat, t \in STRING : m[i] = << n, t >>
    BY <2>1, APair
  <2>3. m[i][1] = n /\ m[i][2] = t
    BY <2>2
  <2>4. CASE n > 0
    <3>1. Stuffed(i) = << n + 1, t >>
      BY <2>3, <2>4
    <3>2. << n + 1, t >> \in Line
      BY DEF Line
    <3>3. << n + 1, t >> # Terminator
      <4>1. n + 1 \in Nat /\ n + 1 # 1
        BY <2>4
      <4> QED BY <4>1, NotTheEnd
    <3> HIDE DEF Stuffed
    <3> QED BY <3>1, <3>2, <3>3
  <2>5. CASE ~(n > 0)
    <3>1. Stuffed(i) = << n, t >>
      BY <2>2, <2>3, <2>5
    <3>2. << n, t >> \in Line
      BY DEF Line
    <3>3. << n, t >> # Terminator
      <4>1. n # 1
        BY <2>5
      <4> QED BY <4>1, NotTheEnd
    <3> HIDE DEF Stuffed
    <3> QED BY <3>1, <3>2, <3>3
  <2> QED BY <2>4, <2>5
<1> HIDE DEF Stuffed
<1>2. Len(m) \in Nat
  OBVIOUS
<1> DEFINE Wire == Line \union {Terminator}
<1>3. body \in Seq(Wire) /\ Len(body) = Len(m)
  BY <1>1, <1>2
<1>4. Terminator \in Wire
  OBVIOUS
<1>5. DotStuff(m) = Append(body, Terminator)
  BY DEF DotStuff, Stuffed
<1>6. \A i \in 1..Len(m) : body[i] = Stuffed(i)
  OBVIOUS
<1> HIDE DEF body
<1> HIDE DEF Wire
<1>7. /\ Len(Append(body, Terminator)) = Len(m) + 1
      /\ Append(body, Terminator)[Len(m) + 1] = Terminator
      /\ \A i \in 1..Len(m) : Append(body, Terminator)[i] = body[i]
  BY <1>2, <1>3, <1>4
<1> QED BY <1>1, <1>5, <1>6, <1>7 DEF Stuffed

(* The endpoint reads back the message that was composed.                  *)
LEMMA ReadBack ==
    ASSUME NEW m \in Seq(Line)
    PROVE  Received(DotStuff(m)) = m
<1>0. PICK s : s = DotStuff(m)
  OBVIOUS
<1>1. /\ Len(s) = Len(m) + 1 /\ s[Len(m) + 1] = Terminator
      /\ \A i \in 1..Len(m) :
           /\ s[i] # Terminator
           /\ s[i] = IF m[i][1] > 0 THEN << m[i][1] + 1, m[i][2] >> ELSE m[i]
  BY <1>0, OneTerminator
<1>2. Len(m) \in Nat
  OBVIOUS
<1> DEFINE Ends(n) == s[n] = Terminator /\ \A k \in 1..(n - 1) : s[k] # Terminator
           end == CHOOSE n \in 1..Len(s) : Ends(n)
<1>3. \A i \in 1..Len(m) : s[i] # Terminator
  BY <1>1
<1>4. Len(s) = Len(m) + 1 /\ s[Len(m) + 1] = Terminator
  BY <1>1
<1>5. Ends(Len(m) + 1) /\ Len(m) + 1 \in 1..Len(s)
  BY <1>3, <1>4, <1>2
<1>6. \A n \in 1..Len(s) : Ends(n) => n = Len(m) + 1
  BY <1>3, <1>4, <1>2
<1>7. end \in 1..Len(s) /\ Ends(end)
  <2> HIDE DEF Ends
  <2> QED BY <1>5
<1>8. end = Len(m) + 1
  <2> HIDE DEF Ends, end
  <2> QED BY <1>6, <1>7
<1> DEFINE Plain(i) == IF s[i][1] > 0 THEN << s[i][1] - 1, s[i][2] >> ELSE s[i]
<1>9. ASSUME NEW i \in 1..Len(m)
      PROVE  Plain(i) = m[i]
  <2>0. m[i] \in Line
    OBVIOUS
  <2>1. PICK n \in Nat, t \in STRING : m[i] = << n, t >>
    BY <2>0, APair
  <2>2. m[i][1] = n /\ m[i][2] = t
    BY <2>1
  <2>3. CASE n > 0
    <3>1. s[i] = << n + 1, t >>
      BY <1>1, <2>2, <2>3
    <3>2. s[i][1] = n + 1 /\ s[i][2] = t
      BY <3>1
    <3>3. n + 1 > 0 /\ (n + 1) - 1 = n
      OBVIOUS
    <3>4. Plain(i) = << n, t >>
      BY <3>2, <3>3
    <3> QED BY <2>1, <3>4
  <2>4. CASE ~(n > 0)
    <3>1. s[i] = << n, t >>
      BY <1>1, <2>1, <2>2, <2>4
    <3>2. s[i][1] = n
      BY <3>1
    <3> QED BY <3>1, <3>2, <2>1, <2>4
  <2> QED BY <2>3, <2>4
<1>10. Received(s) = [i \in 1..(end - 1) |-> Plain(i)]
  BY DEF Received
<1> HIDE DEF end, Plain
<1>11. Received(s) = [i \in 1..Len(m) |-> Plain(i)]
  <2>1. end - 1 = Len(m)
    BY <1>8, <1>2
  <2> QED BY <1>10, <2>1
<1>12. m = [i \in 1..Len(m) |-> m[i]]
  OBVIOUS
<1> QED BY <1>0, <1>9, <1>11, <1>12

-----------------------------------------------------------------------------
LEMMA InitHolds == SendersInit => IInv
  BY SendersAssumption DEF SendersInit, IInv, Shapes, Open, EnvelopeFits, AnswerIsHonest, Early, Line

(* A request that is answered without a delivery is answered honestly,     *)
(* whatever the refusal.                                                   *)
LEMMA ConcludeKeeps ==
    ASSUME IInv, NEW a, a # "completed", stage # "done", Conclude(a),
           UNCHANGED << channel, recipients, message, delivered >>
    PROVE  IInv'
  BY DEF IInv, Shapes, Open, EnvelopeFits, AnswerIsHonest, Conclude, Early

(* An agreed command leads on and delivers nothing.                        *)
LEMMA MovesOn ==
    ASSUME IInv, stage # "done", NEW then, then # "done", stage' = then, UNCHANGED answer,
           UNCHANGED << channel, recipients, message, delivered >>, Shapes', EnvelopeFits'
    PROVE  IInv'
  BY DEF IInv, Open, AnswerIsHonest

LEMMA CommandKeeps ==
    ASSUME IInv, NEW name \in Early \union {"data"}, NEW then, Command(name, then),
           name \in Early => then \in Early \union {"rcpt"},
           name = "data" => then = "body"
    PROVE  IInv'
<1> USE DEF Command
<1>1. PICK reply \in Replies : IF reply = "ok" THEN stage' = then /\ UNCHANGED answer
                               ELSE Conclude(ErrorOf(reply))
  OBVIOUS
<1>2. CASE reply = "ok"
  <2>1. stage' = then /\ UNCHANGED answer
    BY <1>1, <1>2
  <2>2. Shapes'
    BY <2>1 DEF IInv, Shapes, Early
  <2>3. CASE name \in Early /\ then = "rcpt"
    <3>1. envelope' = 1..0 /\ recipients' > 0 /\ recipients' \in Nat
      BY <2>3 DEF IInv, EnvelopeFits, Shapes
    <3>2. EnvelopeFits'
      BY <3>1, <2>1, <2>3 DEF EnvelopeFits, Early
    <3> QED BY <3>2, <2>1, <2>2, <2>3, MovesOn DEF Early
  <2>4. CASE name \in Early /\ then \in Early
    <3>1. EnvelopeFits'
      BY <2>1, <2>4 DEF IInv, EnvelopeFits, Early
    <3> QED BY <3>1, <2>1, <2>2, <2>4, MovesOn DEF Early
  <2>5. CASE name = "data" /\ then = "body"
    <3>1. EnvelopeFits'
      BY <2>1, <2>5 DEF IInv, EnvelopeFits, Early
    <3> QED BY <3>1, <2>1, <2>2, <2>5, MovesOn DEF Early
  <2> QED BY <2>3, <2>4, <2>5 DEF Early
<1>3. CASE reply # "ok"
  BY <1>1, <1>3, ErrorOfReply, ConcludeKeeps DEF Early
<1> QED BY <1>2, <1>3

LEMMA RcptKeeps ==
    ASSUME IInv, Rcpt
    PROVE  IInv'
<1>1. PICK reply \in Replies, then \in 1..recipients :
         /\ then \notin envelope
         /\ \A r \in 1..(then - 1) : r \in envelope
         /\ envelope' = IF reply = "ok" THEN envelope \union {then} ELSE envelope
         /\ IF ~RcptAgreed(reply) THEN Conclude(ErrorOf(reply))
            ELSE /\ stage' = (IF then = recipients THEN "data" ELSE "rcpt")
                 /\ UNCHANGED answer
  BY DEF Rcpt
<1>2. stage = "rcpt" /\ UNCHANGED << channel, recipients, message, delivered >>
  BY DEF Rcpt
<1>3. CASE reply = "ok"
  <2>1. PICK k \in Nat : k < recipients /\ envelope = 1..k
    BY <1>2 DEF IInv, EnvelopeFits
  <2>2. recipients \in Nat
    BY DEF IInv, Shapes
  <2>3. then = k + 1
    <3>1. ~(then <= k)
      BY <1>1, <2>1, <2>2
    <3>2. CASE then > k + 1
      <4>1. k + 1 \in 1..(then - 1)
        BY <3>2, <2>2
      <4> QED BY <4>1, <1>1, <2>1
    <3> QED BY <3>1, <3>2, <2>2
  <2>4. envelope' = 1..then
    BY <1>1, <1>3, <2>1, <2>3
  <2>5. stage' = (IF then = recipients THEN "data" ELSE "rcpt") /\ UNCHANGED answer
    BY <1>1, <1>3 DEF RcptAgreed
  <2>6. Shapes'
    BY <1>2, <2>5 DEF IInv, Shapes
  <2>7. then \in Nat /\ then <= recipients
    BY <2>2
  <2>8. EnvelopeFits'
    BY <1>2, <2>2, <2>4, <2>5, <2>7 DEF EnvelopeFits, Early
  <2> QED BY <1>2, <2>5, <2>6, <2>8, MovesOn
<1>4. CASE reply # "ok"
  BY <1>1, <1>2, <1>4, ErrorOfReply, ConcludeKeeps DEF RcptAgreed
<1> QED BY <1>3, <1>4

(* A delivery is answered as completed or as uncertain.                    *)
LEMMA DeliveryKeeps ==
    ASSUME IInv, NEW reply \in Unheard \union {"ok"}, stage # "done",
           NEW set, set = 1..recipients,
           delivered' = Append(delivered, << set, message >>),
           Conclude(IF reply = "ok" THEN "completed" ELSE ErrorOf(reply)),
           UNCHANGED << channel, recipients, message >>
    PROVE  IInv'
<1>1. delivered = <<>>
  BY DEF IInv, Open
<1>2. delivered' = << << 1..recipients', message' >> >>
  BY <1>1
<1>3. delivered' # <<>>
  BY <1>2
<1>4. answer' \in {"completed", "unavailable", "deadline-exceeded", "resource-exhausted"}
  BY ErrorOfReply DEF Conclude, Replies, Unheard
<1>5. stage' = "done"
  BY DEF Conclude
<1>6. AnswerIsHonest'
  BY <1>2, <1>3, <1>4 DEF AnswerIsHonest
<1>7. Shapes' /\ Open' /\ EnvelopeFits'
  BY <1>5 DEF IInv, Shapes, Open, EnvelopeFits, Early
<1> QED BY <1>6, <1>7 DEF IInv

LEMMA BodyKeeps ==
    ASSUME IInv, Body
    PROVE  IInv'
<1>1. Received(DotStuff(message)) = message
  BY ReadBack DEF IInv, Shapes
<1>2. envelope = 1..recipients /\ stage # "done"
  BY DEF Body, IInv, EnvelopeFits
<1>3. PICK reply \in Replies :
         \/ /\ reply \in Unheard \union {"ok"}
            /\ delivered' = Append(delivered, << envelope, Received(DotStuff(message)) >>)
            /\ Conclude(IF reply = "ok" THEN "completed" ELSE ErrorOf(reply))
         \/ /\ reply # "ok"
            /\ Conclude(ErrorOf(reply))
            /\ UNCHANGED delivered
  BY DEF Body
<1>4. UNCHANGED << channel, recipients, message >>
  BY DEF Body
<1>5. CASE /\ reply \in Unheard \union {"ok"}
           /\ delivered' = Append(delivered, << envelope, Received(DotStuff(message)) >>)
           /\ Conclude(IF reply = "ok" THEN "completed" ELSE ErrorOf(reply))
  BY <1>1, <1>2, <1>4, <1>5, DeliveryKeeps
<1>6. CASE reply # "ok" /\ Conclude(ErrorOf(reply)) /\ UNCHANGED delivered
  BY <1>2, <1>4, <1>6, ErrorOfReply, ConcludeKeeps
<1> QED BY <1>3, <1>5, <1>6

LEMMA PostKeeps ==
    ASSUME IInv, Post
    PROVE  IInv'
<1>1. recipients = 1 /\ stage # "done" /\ UNCHANGED << channel, recipients, message >>
  BY DEF Post, IInv, Shapes, EnvelopeFits
<1>2. {1} = 1..recipients
  BY <1>1
<1>3. CASE /\ delivered' = Append(delivered, << {1}, message >>)
           /\ \E reply \in {"ok", "closed", "silent"} :
                Conclude(IF reply = "ok" THEN "completed" ELSE ErrorOf(reply))
  <2>1. PICK reply \in {"ok", "closed", "silent"} :
           Conclude(IF reply = "ok" THEN "completed" ELSE ErrorOf(reply))
    BY <1>3
  <2>2. reply \in Unheard \union {"ok"}
    BY DEF Unheard
  <2> QED BY <1>1, <1>2, <1>3, <2>1, <2>2, DeliveryKeeps
<1>4. CASE Conclude("unavailable") /\ UNCHANGED delivered
  BY <1>1, <1>4, ConcludeKeeps
<1> QED BY <1>3, <1>4 DEF Post

(* The steps before the wire: the arguments and the files.                 *)
LEMMA ComposeKeeps ==
    ASSUME IInv, Compose \/ ComposeCall \/ Gather
    PROVE  IInv'
<1>1. stage # "done" /\ UNCHANGED << channel, recipients, message, envelope, delivered >>
  BY DEF Compose, ComposeCall, Gather
<1>2. CASE Conclude("invalid-argument") \/ Conclude("not-found")
  BY <1>1, <1>2, ConcludeKeeps
<1>3. CASE /\ stage = "compose" /\ channel = "email" /\ recipients > 0
           /\ stage' = "ehlo" /\ UNCHANGED answer
  <2>1. Shapes' /\ EnvelopeFits'
    BY <1>1, <1>3 DEF IInv, Shapes, EnvelopeFits, Early
  <2> QED BY <1>1, <1>3, <2>1, MovesOn
<1>4. CASE channel # "email" /\ stage' \in {"gather", "post"} /\ UNCHANGED answer
  <2>1. Shapes' /\ EnvelopeFits'
    BY <1>1, <1>4 DEF IInv, Shapes, EnvelopeFits, Early
  <2> QED BY <1>1, <1>4, <2>1, MovesOn
<1>5. Gather => channel # "email"
  BY DEF Gather, IInv, EnvelopeFits
<1> QED BY <1>2, <1>3, <1>4, <1>5 DEF Compose, ComposeCall, Gather

LEMMA NextKeeps ==
    ASSUME IInv, [SendersNext]_senderVars
    PROVE  IInv'
<1>1. CASE Compose \/ ComposeCall \/ Gather
  BY <1>1, ComposeKeeps
<1>2. CASE Ehlo \/ Data
  BY <1>2, CommandKeeps DEF Ehlo, Data, Early
<1>3. CASE Authenticate
  <2>1. CASE Command("auth", "mail") \/ Command("auth", "password") \/ Command("password", "mail")
    BY <2>1, CommandKeeps DEF Early
  <2>2. CASE /\ stage = "auth" /\ Conclude("unsupported")
             /\ UNCHANGED << channel, recipients, message, envelope, delivered >>
    BY <2>2, ConcludeKeeps
  <2> QED BY <1>3, <2>1, <2>2 DEF Authenticate
<1>4. CASE Mail
  <2>1. CASE Command("mail", "rcpt")
    BY <2>1, CommandKeeps DEF Early
  <2>2. CASE /\ stage = "mail" /\ Conclude("resource-exhausted")
             /\ UNCHANGED << channel, recipients, message, envelope, delivered >>
    BY <2>2, ConcludeKeeps
  <2> QED BY <1>4, <2>1, <2>2 DEF Mail
<1>5. CASE Rcpt \/ Body \/ Post
  BY <1>5, RcptKeeps, BodyKeeps, PostKeeps
<1>6. CASE UNCHANGED senderVars
  BY <1>6 DEF senderVars, IInv, Shapes, Open, EnvelopeFits, AnswerIsHonest
<1> QED BY <1>1, <1>2, <1>3, <1>4, <1>5, <1>6 DEF SendersNext

(* What is delivered is the message asked for, to all its recipients and   *)
(* once; a completed request was delivered and a refused one was not       *)
(* (Session::submit of smtp.rs, telegram/send).                            *)
THEOREM SendersAreHonest == SendersSpec => []AnswerIsHonest
<1>1. SendersInit => IInv
  BY InitHolds
<1>2. IInv /\ [SendersNext]_senderVars => IInv'
  BY NextKeeps
<1>3. IInv => AnswerIsHonest
  BY DEF IInv
<1> QED BY <1>1, <1>2, <1>3, PTL DEF SendersSpec

-----------------------------------------------------------------------------
(***************************************************************************)
(* Terminal lines are observed in order, once, and lost only with their    *)
(* connection, for every number of polls, bridge runs and failures.        *)
(***************************************************************************)

ResponseTyped(r) == r = Response(r.session, r.lines) /\ r.session \in Nat /\ r.lines \in SUBSET (Nat \ {0})

CliTypeOK ==
    /\ session \in Nat \ {0} /\ next \in Nat
    /\ inputInbox \subseteq 1 .. next
    /\ DOMAIN polls \subseteq Nat \ {0} /\ mine \in Nat
    /\ ResponseTyped(response)
    /\ \E S : inputObserved \in Seq(S)
    /\ \A i \in 1 .. Len(inputObserved) :
           ResponseTyped(inputObserved[i]) /\ inputObserved[i].session \in 1 .. session

(* Below every line of the inbox, in the numbering of this bridge.         *)
Behind(n) == n \in 0 .. next /\ \A l \in inputInbox : n < l

(* Only the poll the component holds has a response, and is answered once. *)
OneResponse ==
    response # NoResponse => /\ response.session = session /\ mine # NoPoll /\ mine \notin DOMAIN polls
                             /\ \A n \in response.lines : Behind(n)

(* A cursor of this run of the bridge, stored or sent, is behind the inbox.*)
CursorBehind(c) == /\ c.session \in 0 .. session
                   /\ c.session = session => Behind(c.sequence)
CursorsBehind == CursorBehind(inputCursor) /\ \A k \in DOMAIN polls : CursorBehind(polls[k])

(* What was observed in this run is behind the inbox and the response.     *)
ObservedBehind == \A i \in 1 .. Len(inputObserved) : inputObserved[i].session = session =>
    \A m \in inputObserved[i].lines : Behind(m) /\ \A n \in response.lines : m < n

CliIInv == CliTypeOK /\ OneResponse /\ CursorsBehind /\ ObservedBehind /\ InputInOrder

-----------------------------------------------------------------------------
(* A set of numbers has a least one.                                       *)
LEMMA LeastNumber ==
    ASSUME NEW S \in SUBSET Nat, S # {}
    PROVE  \E x \in S : \A y \in S : x <= y
<1> DEFINE R == {ss \in Nat \X Nat : ss[1] < ss[2]}
<1>1. IsWellFoundedOn(R, Nat)
    BY NatLessThanWellFounded DEF OpToRel
<1>2. \A x \in Nat, y \in Nat : x < y => <<x, y>> \in R
    OBVIOUS
<1> HIDE DEF R
<1>3. S \subseteq Nat /\ S # {}
    OBVIOUS
<1>4. PICK x \in S : \A y \in S : ~(<<y, x>> \in R)
    BY ONLY <1>1, <1>3, WFMin
<1>5. \A y \in S : ~(y < x)
    BY <1>2, <1>3, <1>4
<1> QED BY <1>3, <1>4, <1>5

(* A bounded set of numbers has a greatest one.                            *)
LEMMA GreatestNumber ==
    ASSUME NEW n \in Nat, NEW S \in SUBSET (1 .. n), S # {}
    PROVE  Max(S) \in S /\ \A j \in S : j <= Max(S)
<1>1. PICK T \in SUBSET Nat : T = {k \in Nat : \A j \in S : j <= k}
    OBVIOUS
<1>2. n \in T
    BY <1>1
<1>3. PICK x \in T : \A y \in T : x <= y
    BY <1>1, <1>2, LeastNumber
<1>4. x # 0
    <2>1. PICK y \in S : y \in 1 .. n
        OBVIOUS
    <2>2. y <= x
        BY <1>1, <1>3, <2>1
    <2> QED BY <1>3, <2>1, <2>2
<1>5. x \in S
    <2> SUFFICES ASSUME x \notin S PROVE FALSE
        OBVIOUS
    <2>1. x - 1 \in T
        BY <1>1, <1>3, <1>4
    <2> QED BY <1>3, <2>1
<1>6. \E m \in S : \A j \in S : m >= j
    BY <1>1, <1>3, <1>5
<1> QED BY <1>6 DEF Max

-----------------------------------------------------------------------------
LEMMA CliInitHolds ==
    ASSUME CliInit
    PROVE  CliIInv
<1>1. /\ session = 1 /\ next = 0 /\ inputInbox = {} /\ polls = << >> /\ mine = 0
      /\ response = Response(0, {}) /\ inputCursor = Cursor(0, 0) /\ inputObserved = << >>
    BY DEF CliInit, NoPoll, NoResponse
<1>2. << >> \in Seq({}) /\ Len(inputObserved) = 0 /\ DOMAIN polls = {} /\ DOMAIN inputObserved = {}
    BY <1>1
<1>3. response.session = 0 /\ response.lines = {} /\ response = Response(response.session, response.lines)
    BY <1>1 DEF Response
<1>4. CliTypeOK
    BY <1>1, <1>2, <1>3 DEF CliTypeOK, ResponseTyped
<1>5. OneResponse /\ ObservedBehind
    BY <1>1, <1>2 DEF OneResponse, ObservedBehind, NoResponse
<1>6. CursorsBehind
    BY <1>1, <1>2 DEF CursorsBehind, CursorBehind, Cursor
<1>7. InputInOrder
    BY <1>1, <1>2 DEF InputInOrder, InOrder
<1> QED BY <1>4, <1>5, <1>6, <1>7 DEF CliIInv

(* Only the sequence of responses says what was observed.                  *)
LEMMA ObservedSame ==
    ASSUME inputObserved' = inputObserved
    PROVE  Observed' = Observed /\ (InOrder' <=> InOrder)
BY DEF Observed, InOrder, Sent

LEMMA TypeKeeps ==
    ASSUME CliIInv, Type
    PROVE  CliIInv'
<1>1. CliTypeOK /\ OneResponse /\ CursorsBehind /\ ObservedBehind /\ InputInOrder
    BY DEF CliIInv
<1>2. /\ next' = next + 1 /\ inputInbox' = inputInbox \cup {next + 1}
      /\ UNCHANGED <<session, gone, polls, mine, response, inputCursor, inputObserved>>
    BY DEF Type
<1>3. next \in Nat /\ inputInbox \subseteq 1 .. next
    BY <1>1 DEF CliTypeOK
<1>4. \A n : Behind(n) => Behind(n)'
    BY <1>2, <1>3 DEF Behind
<1>5. CliTypeOK'
    <2>1. next' \in Nat /\ inputInbox' \subseteq 1 .. next'
        BY <1>2, <1>3
    <2> QED BY <1>1, <1>2, <2>1 DEF CliTypeOK
<1>6. OneResponse'
    BY <1>1, <1>2, <1>4 DEF OneResponse
<1>7. CursorsBehind'
    BY <1>1, <1>2, <1>4 DEF CursorsBehind, CursorBehind
<1>8. ObservedBehind'
    BY <1>1, <1>2, <1>4 DEF ObservedBehind
<1>9. InputInOrder'
    <2>1. Observed' = Observed /\ (InOrder' <=> InOrder) /\ InFlight' = InFlight
        BY <1>2, ObservedSame DEF InFlight, Sent
    <2>2. \A n \in 1 .. next' : n \in 1 .. next \/ n = next + 1
        BY <1>2, <1>3
    <2>3. \A n \in 1 .. next' : Accounted(n)'
        BY <1>1, <1>2, <2>1, <2>2 DEF InputInOrder, Accounted
    <2> QED BY <1>1, <2>1, <2>3 DEF InputInOrder
<1> QED BY <1>5, <1>6, <1>7, <1>8, <1>9 DEF CliIInv

LEMMA PollKeeps ==
    ASSUME CliIInv, Poll
    PROVE  CliIInv'
<1>1. CliTypeOK /\ OneResponse /\ CursorsBehind /\ ObservedBehind /\ InputInOrder
    BY DEF CliIInv
<1>2. PICK k : k = Min(1 .. MaxPolls \ DOMAIN polls)
    OBVIOUS
<1>3. /\ mine = 0 /\ mine' = k /\ polls' = [q \in DOMAIN polls \cup {k} |-> IF q = k THEN inputCursor ELSE polls[q]]
      /\ 1 .. MaxPolls \ DOMAIN polls # {}
      /\ UNCHANGED <<session, next, inputInbox, gone, response, inputCursor, inputObserved>>
    BY <1>2 DEF Poll, NoPoll
<1>4. k \in Nat \ {0}
    <2>0. 1 .. MaxPolls \ DOMAIN polls \in SUBSET Nat
        BY CliAssumption
    <2>1. PICK S \in SUBSET Nat : S = 1 .. MaxPolls \ DOMAIN polls
        BY <2>0
    <2>2. PICK x \in S : \A y \in S : x <= y
        BY <1>3, <2>1, LeastNumber
    <2>3. Min(S) \in S
        BY <2>2 DEF Min
    <2>4. k \in 1 .. MaxPolls
        BY <1>2, <2>1, <2>3
    <2> QED BY <2>4, CliAssumption
<1>5. response = NoResponse
    BY <1>1, <1>3 DEF OneResponse, NoPoll
<1>6. DOMAIN polls' = DOMAIN polls \cup {k} /\ \A q \in DOMAIN polls' : polls'[q] = inputCursor \/ (q \in DOMAIN polls /\ polls'[q] = polls[q])
    BY <1>3
<1>7. \A n : Behind(n)' <=> Behind(n)
    BY <1>3 DEF Behind
<1>8. \A c : CursorBehind(c)' <=> CursorBehind(c)
    BY <1>3, <1>7 DEF CursorBehind
<1>9. CliTypeOK'
    BY <1>1, <1>3, <1>4, <1>6 DEF CliTypeOK
<1>10. OneResponse'
    BY <1>3, <1>5 DEF OneResponse, NoResponse
<1>11. CursorsBehind'
    <2>1. CursorBehind(inputCursor)'
        BY <1>1, <1>3, <1>7 DEF CursorsBehind, CursorBehind
    <2>2. \A q \in DOMAIN polls' : CursorBehind(polls'[q])
        BY <1>1, <1>6 DEF CursorsBehind
    <2>3. \A q \in DOMAIN polls' : CursorBehind(polls[q])'
        BY <1>3, <1>7, <2>2 DEF CursorBehind
    <2> QED BY <2>1, <2>3 DEF CursorsBehind
<1>12. ObservedBehind'
    BY <1>1, <1>3, <1>7 DEF ObservedBehind
<1>13. InputInOrder'
    <2>1. Observed' = Observed /\ (InOrder' <=> InOrder) /\ InFlight' = InFlight
        BY <1>3, ObservedSame DEF InFlight, Sent
    <2> QED BY <1>1, <1>3, <2>1 DEF InputInOrder, Accounted
<1> QED BY <1>9, <1>10, <1>11, <1>12, <1>13 DEF CliIInv

(* A poll that ended: its cursor is no longer waited with.                 *)
LEMMA EndIs ==
    ASSUME NEW k, End(k)
    PROVE  DOMAIN polls' = DOMAIN polls \ {k} /\ \A q \in DOMAIN polls' : polls'[q] = polls[q]
BY DEF End

LEMMA HandOverKeeps ==
    ASSUME CliIInv, NEW k, HandOver(k)
    PROVE  CliIInv'
<1>1. CliTypeOK /\ OneResponse /\ CursorsBehind /\ ObservedBehind /\ InputInOrder
    BY DEF CliIInv
<1>2. PICK lines \in PendingLines(polls[k]) :
           /\ inputInbox' = {n \in inputInbox : n > Max(lines)}
           /\ response' = IF k = mine THEN Response(session, lines) ELSE response
           /\ gone' = IF k = mine THEN gone ELSE gone \cup Sent(Response(session, lines))
    BY DEF HandOver
<1>3. k \in DOMAIN polls /\ End(k) /\ UNCHANGED <<session, next, mine, inputCursor, inputObserved>>
    BY DEF HandOver
<1>4. session \in Nat \ {0} /\ next \in Nat /\ inputInbox \subseteq 1 .. next
    BY <1>1 DEF CliTypeOK
<1>5. /\ lines \in SUBSET (1 .. next) /\ lines # {} /\ lines \subseteq inputInbox
      /\ \A n \in lines, m \in NewLines(polls[k]) : m < n => m \in lines
    BY <1>2, <1>4 DEF PendingLines, NewLines
<1>6. PICK x \in lines : x = Max(lines) /\ \A j \in lines : j <= x
    BY <1>4, <1>5, GreatestNumber
<1>7. \A n \in inputInbox : n \in lines \/ n > x
    <2> SUFFICES ASSUME NEW n \in inputInbox, n <= x
                 PROVE  n \in lines
        BY <1>4, <1>5, <1>6
    <2>1. n > EffectiveAfter(polls[k])
        <3>1. CursorBehind(polls[k])
            BY <1>1, <1>3 DEF CursorsBehind
        <3>2. n \in Nat /\ n > 0
            BY <1>4
        <3>3. CASE polls[k].session = session
            BY <3>1, <3>2, <3>3 DEF CursorBehind, Behind, EffectiveAfter
        <3>4. CASE polls[k].session # session
            BY <3>2, <3>4 DEF EffectiveAfter
        <3> QED BY <3>3, <3>4
    <2>2. n \in NewLines(polls[k])
        BY <2>1 DEF NewLines
    <2>3. n = x \/ n < x
        BY <1>4, <1>5, <1>6
    <2> QED BY <1>5, <1>6, <2>2, <2>3
<1>8. inputInbox' = {n \in inputInbox : n > x} /\ inputInbox' \subseteq inputInbox
    BY <1>2, <1>6
<1>9. /\ \A n : Behind(n) => Behind(n)'
      /\ \A n \in lines : Behind(n)'
    <2>1. \A n : Behind(n) => Behind(n)'
        BY <1>3, <1>8 DEF Behind
    <2>2. \A n \in lines : n \in 0 .. next /\ n <= x
        BY <1>4, <1>5, <1>6
    <2>3. x \in 1 .. next /\ \A l \in inputInbox' : l \in 1 .. next /\ x < l
        BY <1>4, <1>5, <1>6, <1>8
    <2>4. \A n \in lines : \A l \in inputInbox' : n < l
        BY <1>4, <2>2, <2>3
    <2>5. \A n \in lines : Behind(n)'
        BY <1>3, <2>2, <2>4 DEF Behind
    <2> QED BY <2>1, <2>5
<1>10. DOMAIN polls' = DOMAIN polls \ {k} /\ \A q \in DOMAIN polls' : polls'[q] = polls[q]
    BY <1>3, EndIs
<1>11. PICK r : r = Response(session, lines)
    OBVIOUS
<1>12. r.session = session /\ r.lines = lines /\ ResponseTyped(r)
    BY <1>4, <1>5, <1>11 DEF Response, ResponseTyped
<1>13. \/ k = mine /\ response' = r /\ gone' = gone
       \/ k # mine /\ response' = response /\ gone' = gone \cup Sent(r)
    BY <1>2, <1>11
<1>14. k = mine => response = NoResponse
    BY <1>1, <1>3 DEF OneResponse
<1>15. CliTypeOK'
    <2>1. inputInbox' \subseteq 1 .. next /\ DOMAIN polls' \subseteq Nat \ {0}
        BY <1>1, <1>4, <1>8, <1>10 DEF CliTypeOK
    <2>2. ResponseTyped(response')
        BY <1>1, <1>12, <1>13 DEF CliTypeOK
    <2>3. ResponseTyped(response)'
        BY <2>2 DEF ResponseTyped, Response
    <2> QED BY <1>1, <1>3, <2>1, <2>3 DEF CliTypeOK
<1>16. OneResponse'
    <2>1. CASE k = mine
        <3>1. mine' # NoPoll /\ mine' \notin DOMAIN polls' /\ response' = r
            BY <1>1, <1>3, <1>10, <1>13, <2>1 DEF CliTypeOK, NoPoll
        <3>2. response'.session = session' /\ \A n \in response'.lines : Behind(n)'
            BY <1>3, <1>9, <1>12, <3>1
        <3> QED BY <3>1, <3>2 DEF OneResponse, NoPoll
    <2>2. CASE k # mine
        BY <1>1, <1>3, <1>9, <1>10, <1>13, <2>2 DEF OneResponse, NoPoll, NoResponse
    <2> QED BY <2>1, <2>2
<1>17. CursorsBehind'
    BY <1>1, <1>3, <1>9, <1>10 DEF CursorsBehind, CursorBehind
<1>18. ObservedBehind'
    <2> SUFFICES ASSUME NEW i \in 1 .. Len(inputObserved), inputObserved[i].session = session,
                        NEW m \in inputObserved[i].lines
                 PROVE  Behind(m)' /\ \A n \in response'.lines : m < n
        BY <1>3 DEF ObservedBehind
    <2>1. Behind(m) /\ \A n \in response.lines : m < n
        BY <1>1 DEF ObservedBehind
    <2>2. \A n \in lines : m < n
        BY <1>5, <2>1 DEF Behind
    <2> QED BY <1>9, <1>12, <1>13, <2>1, <2>2
<1>19. InputInOrder'
    <2>1. Observed' = Observed /\ (InOrder' <=> InOrder)
        BY <1>3, ObservedSame
    <2>2. Sent(r) = {<<session, n>> : n \in lines}
        BY <1>12 DEF Sent
    <2>3. gone \cup InFlight \cup Sent(r) \subseteq gone' \cup InFlight'
        <3>1. CASE k = mine
            <4>1. InFlight = {}
                BY <1>14, <3>1 DEF InFlight, Sent, NoResponse, Response
            <4>2. InFlight' = Sent(r) /\ gone' = gone
                BY <1>13, <3>1 DEF InFlight, Sent
            <4> QED BY <4>1, <4>2
        <3>2. CASE k # mine
            <4>1. InFlight' = InFlight /\ gone' = gone \cup Sent(r)
                BY <1>13, <3>2 DEF InFlight, Sent
            <4> QED BY <4>1
        <3> QED BY <3>1, <3>2
    <2>4. ASSUME NEW n \in 1 .. next PROVE Accounted(n)'
        <3>1. Accounted(n)
            BY <1>1 DEF InputInOrder
        <3>2. CASE n \in inputInbox
            <4>1. n \in inputInbox' \/ <<session, n>> \in Sent(r)
                BY <1>7, <1>8, <2>2, <3>2
            <4> QED BY <1>3, <2>3, <4>1 DEF Accounted
        <3>3. CASE <<session, n>> \in InFlight \cup Observed \cup gone
            BY <1>3, <2>1, <2>3, <3>3 DEF Accounted
        <3> QED BY <3>1, <3>2, <3>3 DEF Accounted
    <2> QED BY <1>1, <1>3, <2>1, <2>4 DEF InputInOrder
<1> QED BY <1>15, <1>16, <1>17, <1>18, <1>19 DEF CliIInv

LEMMA TimesOutKeeps ==
    ASSUME CliIInv, NEW k, TimesOut(k)
    PROVE  CliIInv'
<1>1. CliTypeOK /\ OneResponse /\ CursorsBehind /\ ObservedBehind /\ InputInOrder
    BY DEF CliIInv
<1>2. PICK r : r = Response(session, {})
    OBVIOUS
<1>3. /\ k \in DOMAIN polls /\ End(k) /\ response' = (IF k = mine THEN r ELSE response)
      /\ UNCHANGED <<session, next, inputInbox, gone, mine, inputCursor, inputObserved>>
    BY <1>2 DEF TimesOut
<1>4. DOMAIN polls' = DOMAIN polls \ {k} /\ \A q \in DOMAIN polls' : polls'[q] = polls[q]
    BY <1>3, EndIs
<1>5. r.session = session /\ r.lines = {} /\ ResponseTyped(r)
    BY <1>1, <1>2 DEF Response, ResponseTyped, CliTypeOK
<1>6. k = mine => response = NoResponse
    BY <1>1, <1>3 DEF OneResponse
<1>7. NoResponse.lines = {}
    BY DEF NoResponse, Response
<1>8. \A n : Behind(n)' <=> Behind(n)
    BY <1>3 DEF Behind
<1>9. CliTypeOK'
    <2>1. ResponseTyped(response')
        BY <1>1, <1>3, <1>5 DEF CliTypeOK
    <2>2. ResponseTyped(response)'
        BY <2>1 DEF ResponseTyped, Response
    <2> QED BY <1>1, <1>3, <1>4, <2>2 DEF CliTypeOK
<1>10. OneResponse'
    <2>1. CASE k = mine
        BY <1>1, <1>3, <1>4, <1>5, <2>1 DEF OneResponse, CliTypeOK, NoPoll
    <2>2. CASE k # mine
        BY <1>1, <1>3, <1>4, <1>8, <2>2 DEF OneResponse, NoPoll, NoResponse
    <2> QED BY <2>1, <2>2
<1>11. CursorsBehind'
    BY <1>1, <1>3, <1>4, <1>8 DEF CursorsBehind, CursorBehind
<1>12. response'.lines = response.lines
    BY <1>3, <1>5, <1>6, <1>7
<1>13. ObservedBehind'
    BY <1>1, <1>3, <1>8, <1>12 DEF ObservedBehind
<1>14. InputInOrder'
    <2>1. Observed' = Observed /\ (InOrder' <=> InOrder)
        BY <1>3, ObservedSame
    <2>2. InFlight \subseteq InFlight'
        <3>1. CASE k = mine
            BY <1>6, <1>7, <3>1 DEF InFlight, Sent
        <3>2. CASE k # mine
            BY <1>3, <3>2 DEF InFlight, Sent
        <3> QED BY <3>1, <3>2
    <2> QED BY <1>1, <1>3, <2>1, <2>2 DEF InputInOrder, Accounted
<1> QED BY <1>9, <1>10, <1>11, <1>13, <1>14 DEF CliIInv

LEMMA CommitLinesKeeps ==
    ASSUME CliIInv, CommitLines
    PROVE  CliIInv'
<1>1. CliTypeOK /\ OneResponse /\ CursorsBehind /\ ObservedBehind /\ InputInOrder
    BY DEF CliIInv
<1>2. PICK r, u, o : r = response /\ u = Unobserved(response) /\ o = Len(inputObserved)
    OBVIOUS
<1>3. /\ response # NoResponse
      /\ inputObserved' = (IF u.lines = {} THEN inputObserved ELSE Append(inputObserved, u))
      /\ inputCursor' = CursorAfter(r) /\ mine' = NoPoll /\ response' = NoResponse
      /\ UNCHANGED <<session, next, inputInbox, gone, polls>>
    BY <1>2 DEF CommitLines
<1>4. session \in Nat \ {0} /\ next \in Nat /\ inputInbox \subseteq 1 .. next /\ ResponseTyped(r)
    BY <1>1, <1>2 DEF CliTypeOK
<1>5. r.session = session /\ \A n \in r.lines : Behind(n)
    BY <1>1, <1>2, <1>3 DEF OneResponse
<1>6. /\ u = Response(u.session, u.lines) /\ u.session = session /\ u.lines \subseteq r.lines
      /\ \A n \in r.lines : n \in u.lines \/ <<session, n>> \in Observed
    BY <1>2, <1>5 DEF Unobserved, Response
<1>7. ResponseTyped(u)
    BY <1>4, <1>6 DEF ResponseTyped
<1>8. NoResponse.lines = {} /\ ResponseTyped(NoResponse)
    BY DEF NoResponse, Response, ResponseTyped
<1>9. \A n : Behind(n)' <=> Behind(n)
    BY <1>3 DEF Behind
<1>10. PICK S : inputObserved \in Seq(S)
    BY <1>1 DEF CliTypeOK
<1>11. /\ o \in Nat /\ \E T : inputObserved' \in Seq(T)
       /\ DOMAIN inputObserved = 1 .. o
       /\ \/ inputObserved' = inputObserved /\ u.lines = {}
          \/ /\ Len(inputObserved') = o + 1 /\ inputObserved'[o + 1] = u /\ DOMAIN inputObserved' = 1 .. o + 1
             /\ \A i \in 1 .. o : inputObserved'[i] = inputObserved[i]
    <2>1. o \in Nat /\ DOMAIN inputObserved = 1 .. o
        BY <1>2, <1>10
    <2>2. CASE u.lines = {}
        BY <1>3, <1>10, <2>1, <2>2
    <2>3. CASE u.lines # {}
        <3>1. inputObserved' = Append(inputObserved, u) /\ inputObserved \in Seq(S \cup {u}) /\ u \in S \cup {u}
            BY <1>3, <1>10, <2>3
        <3>2. inputObserved' \in Seq(S \cup {u}) /\ Len(inputObserved') = o + 1 /\ inputObserved'[o + 1] = u
            BY <1>2, <3>1
        <3>3. DOMAIN inputObserved' = 1 .. o + 1 /\ \A i \in 1 .. o : inputObserved'[i] = inputObserved[i]
            BY <1>2, <2>1, <3>1, <3>2
        <3> QED BY <2>1, <3>2, <3>3
    <2> QED BY <2>2, <2>3
<1>12. Len(inputObserved) = o
    BY <1>2
<1>13. \A i \in 1 .. Len(inputObserved') : (i \in 1 .. o /\ inputObserved'[i] = inputObserved[i])
                                            \/ (i = o + 1 /\ inputObserved'[i] = u)
    <2>1. CASE inputObserved' = inputObserved
        <3>1. Len(inputObserved') = o /\ \A i : inputObserved'[i] = inputObserved[i]
            BY <1>12, <2>1
        <3> QED BY ONLY <3>1
    <2>2. CASE /\ Len(inputObserved') = o + 1 /\ inputObserved'[o + 1] = u
               /\ \A i \in 1 .. o : inputObserved'[i] = inputObserved[i]
        <3>1. \A i \in 1 .. o + 1 : i \in 1 .. o \/ i = o + 1
            BY <1>11
        <3>2. 1 .. Len(inputObserved') = 1 .. o + 1
            BY <2>2
        <3> QED BY ONLY <2>2, <3>1, <3>2
    <2> QED BY <1>11, <2>1, <2>2
<1>14. CliTypeOK'
    <2>1. \A i \in 1 .. Len(inputObserved') : ResponseTyped(inputObserved'[i]) /\ inputObserved'[i].session \in 1 .. session
        BY <1>1, <1>4, <1>6, <1>7, <1>12, <1>13 DEF CliTypeOK
    <2>2. ResponseTyped(response)' /\ \A i \in 1 .. Len(inputObserved') : ResponseTyped(inputObserved[i])'
        BY <1>3, <1>8, <2>1 DEF ResponseTyped, Response, NoResponse
    <2>3. mine' \in Nat
        BY <1>3 DEF NoPoll
    <2> QED BY <1>1, <1>3, <1>11, <2>1, <2>2, <2>3 DEF CliTypeOK
<1>15. OneResponse'
    BY <1>3 DEF OneResponse, NoResponse
<1>16. CursorsBehind'
    <2>1. \A c : CursorBehind(c)' <=> CursorBehind(c)
        BY <1>3, <1>9 DEF CursorBehind
    <2>2. PICK c : c = CursorAfter(r)
        OBVIOUS
    <2>3. c.session = session
        BY <1>5, <2>2 DEF CursorAfter, Cursor
    <2>4. Behind(c.sequence)
        <3>1. CASE r.lines # {}
            <4>1. r.lines \in SUBSET (1 .. next)
                <5>1. \A n \in r.lines : Behind(n) /\ n # 0
                    BY <1>1, <1>2, <1>5 DEF CliTypeOK, ResponseTyped
                <5> QED BY <1>4, <5>1 DEF Behind
            <4>2. Max(r.lines) \in r.lines
                BY <1>4, <3>1, <4>1, GreatestNumber
            <4>3. c.sequence = Max(r.lines)
                BY <2>2, <3>1 DEF CursorAfter, Cursor
            <4> QED BY <1>5, <4>2, <4>3
        <3>2. CASE r.lines = {} /\ inputCursor.session = session
            <4>1. c.sequence = inputCursor.sequence
                BY <1>5, <2>2, <3>2 DEF CursorAfter, Cursor
            <4> QED BY <1>1, <3>2, <4>1 DEF CursorsBehind, CursorBehind
        <3>3. CASE r.lines = {} /\ inputCursor.session # session
            <4>1. c.sequence = 0
                BY <1>5, <2>2, <3>3 DEF CursorAfter, Cursor
            <4> QED BY <1>4, <4>1 DEF Behind
        <3> QED BY <3>1, <3>2, <3>3
    <2>5. CursorBehind(inputCursor')
        BY <1>3, <1>4, <2>2, <2>3, <2>4 DEF CursorBehind
    <2>6. CursorBehind(inputCursor)' /\ \A q \in DOMAIN polls' : CursorBehind(polls[q])'
        BY <1>1, <1>3, <1>9, <2>5 DEF CursorBehind, CursorsBehind
    <2> QED BY <2>6 DEF CursorsBehind
<1>17. ObservedBehind'
    <2> SUFFICES ASSUME NEW i \in 1 .. Len(inputObserved'), inputObserved'[i].session = session,
                        NEW m \in inputObserved'[i].lines
                 PROVE  Behind(m)
        BY <1>3, <1>8, <1>9 DEF ObservedBehind
    <2> QED BY <1>1, <1>5, <1>6, <1>12, <1>13 DEF ObservedBehind
<1>18. InputInOrder'
    <2>1. InOrder'
        <3>1. CASE inputObserved' = inputObserved
            BY <1>1, <3>1, ObservedSame DEF InputInOrder
        <3>2. CASE inputObserved' # inputObserved
            <4>1. /\ inputObserved'[o + 1] = u /\ DOMAIN inputObserved' = 1 .. o + 1
                  /\ \A i \in 1 .. o : inputObserved'[i] = inputObserved[i]
                BY <1>11, <3>2
            <4>2. ASSUME NEW i \in 1 .. o + 1, NEW j \in 1 .. o + 1, i < j
                  PROVE  \/ inputObserved'[i].session < inputObserved'[j].session
                         \/ /\ inputObserved'[i].session = inputObserved'[j].session
                            /\ \A m \in inputObserved'[i].lines, n \in inputObserved'[j].lines : m < n
                <5>1. i \in 1 .. o
                    BY <1>11, <4>2
                <5>2. CASE j \in 1 .. o
                    BY <1>1, <1>11, <4>1, <4>2, <5>1, <5>2 DEF InputInOrder, InOrder
                <5>3. CASE j = o + 1
                    <6>1. inputObserved'[i] = inputObserved[i] /\ inputObserved'[j] = u
                        BY <4>1, <5>1, <5>3
                    <6>2. inputObserved[i].session \in 1 .. session
                        BY <1>1, <1>12, <5>1 DEF CliTypeOK
                    <6>3. inputObserved[i].session = session => \A m \in inputObserved[i].lines, n \in u.lines : m < n
                        BY <1>1, <1>2, <1>6, <1>12, <5>1 DEF ObservedBehind
                    <6> QED BY <1>4, <1>6, <6>1, <6>2, <6>3
                <5> QED BY <1>11, <5>2, <5>3
            <4> QED BY <4>1, <4>2 DEF InOrder
        <3> QED BY <3>1, <3>2
    <2>2. Observed \cup Sent(r) \subseteq Observed'
        <3>1. Observed \cup Sent(u) \subseteq Observed'
            <4>1. CASE inputObserved' = inputObserved /\ u.lines = {}
                BY <4>1, ObservedSame DEF Sent
            <4>2. CASE /\ inputObserved'[o + 1] = u /\ DOMAIN inputObserved' = 1 .. o + 1
                       /\ \A i \in 1 .. o : inputObserved'[i] = inputObserved[i]
                <5>1. Observed' = UNION {Sent(inputObserved'[i]) : i \in 1 .. o + 1}
                    BY <4>2 DEF Observed, Sent
                <5>2. Observed = UNION {Sent(inputObserved[i]) : i \in 1 .. o}
                    BY <1>11 DEF Observed
                <5>3. o + 1 \in 1 .. o + 1 /\ 1 .. o \subseteq 1 .. o + 1
                    BY <1>11
                <5>4. Sent(u) \subseteq Observed'
                    BY <4>2, <5>1, <5>3
                <5>5. Observed \subseteq Observed'
                    BY <4>2, <5>1, <5>2, <5>3
                <5> QED BY <5>4, <5>5
            <4> QED BY <1>11, <4>1, <4>2
        <3>2. Sent(r) \subseteq Observed \cup Sent(u)
            BY <1>5, <1>6 DEF Sent
        <3> QED BY <3>1, <3>2
    <2>3. InFlight = Sent(r)
        BY <1>2 DEF InFlight
    <2>4. ASSUME NEW n \in 1 .. next PROVE Accounted(n)'
        <3>1. Accounted(n)
            BY <1>1 DEF InputInOrder
        <3> QED BY <1>3, <2>2, <2>3, <3>1 DEF Accounted
    <2> QED BY <1>3, <2>1, <2>4 DEF InputInOrder
<1> QED BY <1>14, <1>15, <1>16, <1>17, <1>18 DEF CliIInv

(* The connection is lost: its lines go with it.                           *)
LEMMA LostKeeps ==
    ASSUME CliIInv, Disconnect \/ AgentCrash
    PROVE  CliIInv'
<1>1. CliTypeOK /\ OneResponse /\ CursorsBehind /\ ObservedBehind /\ InputInOrder
    BY DEF CliIInv
<1>2. /\ mine' = NoPoll /\ response' = NoResponse /\ gone' = gone \cup InFlight
      /\ UNCHANGED <<session, next, inputInbox, polls, inputCursor, inputObserved>>
    BY DEF Disconnect, AgentCrash
<1>3. NoResponse.lines = {} /\ ResponseTyped(NoResponse) /\ NoPoll \in Nat
    BY DEF NoResponse, Response, ResponseTyped, NoPoll
<1>4. \A n : Behind(n)' <=> Behind(n)
    BY <1>2 DEF Behind
<1>5. CliTypeOK'
    <2>1. ResponseTyped(response)'
        BY <1>2, <1>3 DEF ResponseTyped, Response, NoResponse
    <2> QED BY <1>1, <1>2, <1>3, <2>1 DEF CliTypeOK
<1>6. OneResponse'
    BY <1>2 DEF OneResponse, NoResponse
<1>7. CursorsBehind'
    BY <1>1, <1>2, <1>4 DEF CursorsBehind, CursorBehind
<1>8. ObservedBehind'
    BY <1>1, <1>2, <1>3, <1>4 DEF ObservedBehind
<1>9. InputInOrder'
    <2>1. Observed' = Observed /\ (InOrder' <=> InOrder)
        BY <1>2, ObservedSame
    <2> QED BY <1>1, <1>2, <2>1 DEF InputInOrder, Accounted
<1> QED BY <1>5, <1>6, <1>7, <1>8, <1>9 DEF CliIInv

LEMMA BridgeRestartKeeps ==
    ASSUME CliIInv, BridgeRestart
    PROVE  CliIInv'
<1>1. CliTypeOK /\ OneResponse /\ CursorsBehind /\ ObservedBehind /\ InputInOrder
    BY DEF CliIInv
<1>2. /\ session' = session + 1 /\ next' = 0 /\ inputInbox' = {} /\ polls' = << >>
      /\ mine' = NoPoll /\ response' = NoResponse /\ UNCHANGED <<inputCursor, inputObserved>>
    BY DEF BridgeRestart
<1>3. NoResponse.lines = {} /\ ResponseTyped(NoResponse) /\ NoPoll \in Nat /\ DOMAIN polls' = {}
    BY <1>2 DEF NoResponse, Response, ResponseTyped, NoPoll
<1>4. session \in Nat \ {0} /\ session' \in Nat \ {0}
    BY <1>1, <1>2 DEF CliTypeOK
<1>5. \A i \in 1 .. Len(inputObserved) : inputObserved[i].session \in 1 .. session' /\ inputObserved[i].session # session'
    BY <1>1, <1>2, <1>4 DEF CliTypeOK
<1>6. CliTypeOK'
    <2>1. ResponseTyped(response)' /\ \A i \in 1 .. Len(inputObserved) : ResponseTyped(inputObserved[i])'
        BY <1>1, <1>2, <1>3 DEF ResponseTyped, Response, NoResponse, CliTypeOK
    <2> QED BY <1>1, <1>2, <1>3, <1>4, <1>5, <2>1 DEF CliTypeOK
<1>7. OneResponse'
    BY <1>2 DEF OneResponse, NoResponse
<1>8. CursorsBehind'
    <2>1. inputCursor.session \in 0 .. session' /\ inputCursor.session # session'
        BY <1>1, <1>2, <1>4 DEF CursorsBehind, CursorBehind
    <2> QED BY <1>2, <1>3, <2>1 DEF CursorsBehind, CursorBehind
<1>9. ObservedBehind'
    BY <1>2, <1>5 DEF ObservedBehind
<1>10. InputInOrder'
    BY <1>1, <1>2, ObservedSame DEF InputInOrder
<1> QED BY <1>6, <1>7, <1>8, <1>9, <1>10 DEF CliIInv

(* A step that does not concern the input.                                 *)
LEMMA InputSame ==
    ASSUME CliIInv, UNCHANGED inputVars
    PROVE  CliIInv'
<1>1. CliTypeOK /\ OneResponse /\ CursorsBehind /\ ObservedBehind /\ InputInOrder
    BY DEF CliIInv
<1>2. UNCHANGED <<session, next, inputInbox, gone, polls, mine, response, inputCursor, inputObserved>>
    BY DEF inputVars
<1>3. \A n : Behind(n)' <=> Behind(n)
    BY <1>2 DEF Behind
<1>4. CliTypeOK'
    BY <1>1, <1>2 DEF CliTypeOK, ResponseTyped, Response
<1>5. OneResponse'
    BY <1>1, <1>2, <1>3 DEF OneResponse, NoResponse, NoPoll
<1>6. CursorsBehind' /\ ObservedBehind'
    BY <1>1, <1>2, <1>3 DEF CursorsBehind, CursorBehind, ObservedBehind
<1>7. InputInOrder'
    <2>1. Observed' = Observed /\ (InOrder' <=> InOrder) /\ InFlight' = InFlight
        BY <1>2, ObservedSame DEF InFlight, Sent
    <2> QED BY <1>1, <1>2, <2>1 DEF InputInOrder, Accounted
<1> QED BY <1>4, <1>5, <1>6, <1>7 DEF CliIInv

LEMMA CliNextKeeps ==
    ASSUME CliIInv, [CliNext]_cliVars
    PROVE  CliIInv'
<1>1. CASE UNCHANGED cliVars
    BY <1>1, InputSame DEF cliVars, inputVars
<1>2. CASE SendReply \/ PrintReply \/ Receipt \/ AgentStart
    <2>1. UNCHANGED inputVars
        BY <1>2 DEF SendReply, PrintReply, Receipt, AgentStart, inputVars
    <2> QED BY <2>1, InputSame
<1>3. CASE Type \/ Poll \/ CommitLines \/ Disconnect \/ AgentCrash \/ BridgeRestart
    BY <1>3, TypeKeeps, PollKeeps, CommitLinesKeeps, LostKeeps, BridgeRestartKeeps
<1>4. ASSUME NEW k \in 1 .. MaxPolls, Bridge(k) PROVE CliIInv'
    BY <1>4, HandOverKeeps, TimesOutKeeps DEF Bridge
<1> QED BY <1>1, <1>2, <1>3, <1>4 DEF CliNext

(* Lines of one run of the bridge are observed in the order they were      *)
(* typed, each at most once, and one is missing only when its connection   *)
(* broke (wait_for_input of the bridge, process_bytes of the client).      *)
THEOREM CliInputInOrder == CliSpec => []InputInOrder
<1>1. CliInit => CliIInv
    BY CliInitHolds
<1>2. CliIInv /\ [CliNext]_cliVars => CliIInv'
    BY CliNextKeeps
<1>3. CliIInv => InputInOrder
    BY DEF CliIInv
<1> QED BY <1>1, <1>2, <1>3, PTL DEF CliSpec
=============================================================================
