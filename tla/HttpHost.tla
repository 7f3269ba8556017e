------------------------------ MODULE HttpHost ------------------------------
(***************************************************************************)
(* An outgoing request under a component's grant (pluribus-host-http): the *)
(* checks made before it, the redirects it follows, each checked again,    *)
(* the headers it carries on each hop, and the response body kept as a     *)
(* blob.  A hop is what reached a server.                                  *)
(***************************************************************************)
EXTENDS Integers, Sequences

CONSTANTS
    Origins,     \* network origins, << scheme, host >>
    HttpGrants,  \* the grants a component may hold
    HardLimit,   \* MAX_REDIRECTS
    MaxChunks    \* bound: parts a response body arrives in

(* A grant counts redirects (max-redirects is a u8).                        *)
ASSUME HttpHostAssumption == \A g \in HttpGrants : g.redirects \in Nat

VARIABLES
    grant,      \* the component's HttpGrant
    request,    \* what the component asked: [origin, method, body]
    url,        \* where the next hop goes
    method,
    body,       \* the next hop carries the request body
    strip,      \* credential headers are left out
    redirects,  \* redirects followed
    step,       \* what the call does next
    address,    \* what the host resolved to: "public" or "private"
    hops,       \* the requests that were sent
    upload,     \* the blob of the response body
    stored,     \* bytes written to it
    result      \* "none", "response" or an error

httpHostVars == << grant, request, url, method, body, strip, redirects, step,
                   address, hops, upload, stored, result >>

HttpHostInit ==
    /\ grant \in HttpGrants
    /\ request \in [origin : Origins, method : {"GET", "POST"}, body : {0, 1, 2}]
    /\ url = request.origin
    /\ method = request.method
    /\ body = (request.body > 0)
    /\ strip = FALSE
    /\ redirects = 0
    /\ step = "prepare"
    /\ address = "none"
    /\ hops = <<>>
    /\ upload = "none"
    /\ stored = 0
    /\ result = "none"

Return(r) == step' = "done" /\ result' = r

(* prepare_request: the request and the grant are within the host's limits. *)
Prepare ==
    /\ step = "prepare"
    /\ IF grant.redirects > HardLimit THEN Return("invalid")
       ELSE IF request.body > grant.request THEN Return("exhausted")
       ELSE step' = "validate" /\ UNCHANGED result
    /\ UNCHANGED << grant, request, url, method, body, strip, redirects,
                    address, hops, upload, stored >>

Granted(origin, verb) ==
    /\ origin[1] = "https" \/ (origin[1] = "http" /\ grant.http)
    /\ origin \in grant.origins
    /\ verb \in grant.methods

(* validate_destination, before every hop.                                  *)
Validate ==
    /\ step = "validate"
    /\ IF Granted(url, method) THEN step' = "resolve" /\ UNCHANGED result
       ELSE Return("denied")
    /\ UNCHANGED << grant, request, url, method, body, strip, redirects,
                    address, hops, upload, stored >>

(* resolve_destination: the addresses the name has now; the client is told  *)
(* to connect to what was checked.                                          *)
Resolve ==
    /\ step = "resolve"
    /\ address' \in {"public", "private"}
    /\ IF address' = "private" /\ ~grant.private THEN Return("denied")
       ELSE step' = "send" /\ UNCHANGED result
    /\ UNCHANGED << grant, request, url, method, body, strip, redirects, hops,
                    upload, stored >>

(* prepare_headers and the exchange.                                        *)
Headers == [origin |-> url, method |-> method, body |-> body,
            secret |-> ~strip, address |-> address]

Send ==
    /\ step = "send"
    /\ hops' = Append(hops, Headers)
    /\ step' = "respond"
    /\ UNCHANGED << grant, request, url, method, body, strip, redirects,
                    address, upload, stored, result >>

(* Mutant: only the hop that changes the origin goes without credentials.   *)
StripOnce(next) == next # url

(* Once a redirect has left an origin, credentials stay out.                *)
Strip(next) == strip \/ next # url

(* A redirect with a location: 303, and 301 or 302 of a POST, become a GET  *)
(* without a body; 307 and 308 are sent again as they were.                 *)
Redirect ==
    /\ step = "respond"
    /\ \E next \in Origins, status \in {302, 303, 307} :
         IF redirects = grant.redirects
         THEN /\ Return("exhausted")
              /\ UNCHANGED << url, method, body, strip, redirects >>
         ELSE /\ url' = next
              /\ strip' = Strip(next)
              /\ IF status = 303 \/ (status = 302 /\ method = "POST")
                 THEN method' = "GET" /\ body' = FALSE
                 ELSE UNCHANGED << method, body >>
              /\ redirects' = redirects + 1
              /\ step' = "validate"
              /\ UNCHANGED result
    /\ UNCHANGED << grant, request, address, hops, upload, stored >>

(* store_response: any other response; its body goes to a new blob.         *)
Respond ==
    /\ step = "respond"
    /\ upload' = "open"
    /\ step' = "store"
    /\ UNCHANGED << grant, request, url, method, body, strip, redirects,
                    address, hops, stored, result >>

Store ==
    /\ step = "store"
    /\ \/ /\ stored < MaxChunks
          /\ IF stored + 1 > grant.response
             THEN Return("exhausted") /\ UNCHANGED stored
             ELSE stored' = stored + 1 /\ UNCHANGED << step, result >>
          /\ UNCHANGED upload
       \/ /\ upload' = "finished"
          /\ Return("response")
          /\ UNCHANGED stored
    /\ UNCHANGED << grant, request, url, method, body, strip, redirects,
                    address, hops >>

(* The deadline, a transport error, or the caller giving the call up.       *)
Abandon ==
    /\ step # "done"
    /\ Return("failed")
    /\ UNCHANGED << grant, request, url, method, body, strip, redirects,
                    address, hops, upload, stored >>

(* ResponseUpload's Drop leaves an unfinished blob to a task of its own.    *)
Abort ==
    /\ step = "done"
    /\ upload = "open"
    /\ upload' = "aborted"
    /\ UNCHANGED << grant, request, url, method, body, strip, redirects, step,
                    address, hops, stored, result >>

HttpHostNext == \/ Prepare \/ Validate \/ Resolve \/ Send \/ Redirect \/ Respond
        \/ Store \/ Abandon \/ Abort

HttpHostSpec == HttpHostInit /\ [][HttpHostNext]_httpHostVars

------------------------------------------------------------------------------
(* Whatever the servers answer, no hop goes anywhere the grant does not     *)
(* allow, the grant's number of redirects is not passed, and credential     *)
(* headers are sent only until a redirect first leaves the origin the       *)
(* component addressed; coming back does not bring them back.               *)
HopsConfined ==
    /\ Len(hops) <= grant.redirects + 1
    /\ \A i \in 1..Len(hops) :
         /\ Granted(hops[i].origin, hops[i].method)
         /\ hops[i].address = "public" \/ grant.private
         /\ hops[i].secret => \A j \in 1..i : hops[j].origin = request.origin
==============================================================================
