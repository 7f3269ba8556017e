------------------------------ MODULE Senders ------------------------------
(***************************************************************************)
(* The sending capabilities of the email and Telegram connectors: one      *)
(* request is checked, put on the wire and answered.  Email is an SMTP     *)
(* submission, one exchange per command; Telegram is one HTTP call, whose  *)
(* body for media is gathered from blobs first.  The endpoint answers each *)
(* exchange as it likes, and any answer can be lost.                       *)
(*                                                                         *)
(* A line of a message is << leading dots, the rest of it >>.              *)
(***************************************************************************)
EXTENDS Integers, Sequences, SequencesExt

CONSTANTS
    Messages,     \* message bodies: sequences of lines
    Recipients    \* the most recipients a message names

ASSUME SendersAssumption == Messages \subseteq Seq(Nat \X STRING) /\ Recipients \in Nat

VARIABLES
    channel,     \* "email", "call" or "media"
    recipients,  \* how many recipients the request names
    message,     \* its body
    stage,       \* what the connector does next
    envelope,    \* the recipients the endpoint has accepted
    delivered,   \* what the endpoint delivered: << recipients, body >>
    answer       \* the capability's terminal event

senderVars == << channel, recipients, message, stage, envelope, delivered, answer >>

(* How an endpoint answers a command: it agrees, asks for another time,     *)
(* rejects the credential, finds the message too large or refuses for good; *)
(* or it closes the connection, says nothing, or never ends its reply.      *)
Unheard == {"closed", "silent", "endless"}
Replies == {"ok", "later", "unauthorised", "oversize", "refused"} \union Unheard

(* refused, and the errors of a reply that cannot be read.                  *)
ErrorOf(reply) ==
    CASE reply \in {"later", "closed"}     -> "unavailable"
      [] reply = "unauthorised"            -> "permission-denied"
      [] reply \in {"oversize", "endless"} -> "resource-exhausted"
      [] reply = "silent"                  -> "deadline-exceeded"
      [] reply = "refused"                 -> "invalid-argument"

Terminator == << 1, "" >>

(* dot_stuff: a dot is added to each line that begins with one, and the     *)
(* terminator follows.                                                      *)
DotStuff(lines) ==
    Append([i \in 1..Len(lines) |->
              IF lines[i][1] > 0 THEN << lines[i][1] + 1, lines[i][2] >>
              ELSE lines[i]],
           Terminator)

(* What an endpoint makes of the lines it is sent.                          *)
Received(lines) ==
    LET end == CHOOSE n \in 1..Len(lines) :
                  lines[n] = Terminator /\ \A k \in 1..(n - 1) : lines[k] # Terminator
    IN  [i \in 1..(end - 1) |->
           IF lines[i][1] > 0 THEN << lines[i][1] - 1, lines[i][2] >> ELSE lines[i]]

SendersInit ==
    /\ channel \in {"email", "call", "media"}
    /\ recipients \in 0..Recipients
    /\ channel # "email" => recipients = 1
    /\ message \in Messages
    /\ stage = "compose"
    /\ envelope = {}
    /\ delivered = <<>>
    /\ answer = "none"

Conclude(a) == answer' = a /\ stage' = "done"

(* compose: a message is built and checked whole before the endpoint is     *)
(* reached.                                                                 *)
Compose ==
    /\ stage = "compose"
    /\ channel = "email"
    /\ \/ Conclude("invalid-argument")
       \/ recipients > 0 /\ stage' = "ehlo" /\ UNCHANGED answer
    /\ UNCHANGED << channel, recipients, message, envelope, delivered >>

(* A Telegram capability: its arguments are checked for its method.         *)
ComposeCall ==
    /\ stage = "compose"
    /\ channel # "email"
    /\ \/ Conclude("invalid-argument")
       \/ stage' = (IF channel = "media" THEN "gather" ELSE "post") /\ UNCHANGED answer
    /\ UNCHANGED << channel, recipients, message, envelope, delivered >>

(* One SMTP command that must be agreed to before the next.                 *)
Command(name, next) ==
    /\ stage = name
    /\ \E reply \in Replies :
         IF reply = "ok" THEN stage' = next /\ UNCHANGED answer
         ELSE Conclude(ErrorOf(reply))
    /\ UNCHANGED << channel, recipients, message, envelope, delivered >>

Ehlo == Command("ehlo", "auth")

(* authenticate: PLAIN in one exchange or LOGIN in two; an endpoint without  *)
(* password authentication is refused.                                      *)
Authenticate ==
    \/ Command("auth", "mail")
    \/ Command("auth", "password")
    \/ Command("password", "mail")
    \/ /\ stage = "auth"
       /\ Conclude("unsupported")
       /\ UNCHANGED << channel, recipients, message, envelope, delivered >>

(* MAIL FROM, after the advertised size was compared.                       *)
Mail ==
    \/ Command("mail", "rcpt")
    \/ /\ stage = "mail"
       /\ Conclude("resource-exhausted")
       /\ UNCHANGED << channel, recipients, message, envelope, delivered >>

(* Mutant: a recipient the endpoint refuses is left out.                    *)
RcptRefusalIgnored(reply) == reply \notin Unheard

RcptAgreed(reply) == reply = "ok"

(* RCPT TO for the next recipient: one refusal ends the submission.         *)
Rcpt ==
    /\ stage = "rcpt"
    /\ \E reply \in Replies, next \in 1..recipients :
         /\ next \notin envelope
         /\ \A r \in 1..(next - 1) : r \in envelope
         /\ envelope' = IF reply = "ok" THEN envelope \union {next} ELSE envelope
         /\ IF ~RcptAgreed(reply) THEN Conclude(ErrorOf(reply))
            ELSE /\ stage' = (IF next = recipients THEN "data" ELSE "rcpt")
                 /\ UNCHANGED answer
    /\ UNCHANGED << channel, recipients, message, delivered >>

Data == Command("data", "body")

(* The body, and the answer to it: the endpoint takes the message or not,   *)
(* and says so unless its answer is lost.  (QUIT follows every outcome; its *)
(* answer is discarded.)                                                    *)
Body ==
    /\ stage = "body"
    /\ \E reply \in Replies :
         \/ /\ reply \in Unheard \union {"ok"}
            /\ delivered' = Append(delivered,
                                   << envelope, Received(DotStuff(message)) >>)
            /\ Conclude(IF reply = "ok" THEN "completed" ELSE ErrorOf(reply))
         \/ /\ reply # "ok"
            /\ Conclude(ErrorOf(reply))
            /\ UNCHANGED delivered
    /\ UNCHANGED << channel, recipients, message, envelope >>

(* multipart: the files are read into one body; a blob that cannot be read  *)
(* ends the call.                                                           *)
Gather ==
    /\ stage = "gather"
    /\ \/ Conclude("not-found")
       \/ stage' = "post" /\ UNCHANGED answer
    /\ UNCHANGED << channel, recipients, message, envelope, delivered >>

(* The call: Telegram's answers other than success are all "unavailable".   *)
Post ==
    /\ stage = "post"
    /\ \/ /\ delivered' = Append(delivered, << {1}, message >>)
          /\ \E reply \in {"ok", "closed", "silent"} :
               Conclude(IF reply = "ok" THEN "completed" ELSE ErrorOf(reply))
       \/ /\ Conclude("unavailable")
          /\ UNCHANGED delivered
    /\ UNCHANGED << channel, recipients, message, envelope >>

SendersNext ==
    \/ Compose \/ ComposeCall \/ Ehlo \/ Authenticate \/ Mail \/ Rcpt \/ Data \/ Body
    \/ Gather \/ Post

SendersSpec == SendersInit /\ [][SendersNext]_senderVars

------------------------------------------------------------------------------
(* What was delivered is the message that was asked for, to every recipient *)
(* it names and no smaller set of them, once.  A completed request was      *)
(* delivered, and one answered with a refusal was not; only an answer that  *)
(* leaves the outcome open may hide a delivery.                             *)
AnswerIsHonest ==
    /\ delivered # <<>> =>
         /\ delivered = << << 1..recipients, message >> >>
         /\ answer \in {"completed", "unavailable", "deadline-exceeded",
                       "resource-exhausted"}
    /\ answer = "completed" => delivered # <<>>
==============================================================================
