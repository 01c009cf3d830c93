------------------------------- MODULE Proxy -------------------------------
(***************************************************************************)
(* kernel.mjs makeProxy: one call of core.proxy, the modules' only way to  *)
(* the outside.  A call resolves the host, pins one address, sends the     *)
(* request to it and follows redirects.  Between its awaits DNS may give   *)
(* other answers, and the upstream, the network and the idle timer produce *)
(* the socket's events in any order.  Calls share no state, so one call    *)
(* after the other is enough.                                              *)
(***************************************************************************)
EXTENDS Integers

CONSTANTS
  Targets,             (* the URLs modules pass and upstreams redirect to *)
  Addresses,           (* the addresses DNS answers with                  *)
  Blocked,             (* those isBlockedIp refuses                       *)
  Answers,             (* the sets of addresses DNS may answer with       *)
  LiteralAddress,      (* the hosts that are addresses, and which         *)
  ALLOW_HOSTS,         (* cfg.ALLOW_HOSTS, normalized                     *)
  GH_HOST,             (* the host op=github is for                       *)
  PROXY_MAX_REDIRECT,  (* cfg.PROXY_MAX_REDIRECT                          *)
  DO_MAX_RESP,         (* cfg.DO_MAX_RESP, in bytes                       *)
  MAX_BODY,            (* bound on the length of a body that ends         *)
  MAX_CHUNK            (* bound on the bytes of one data event            *)

(* What `new URL` and normalizeHost make of a URL: its flaws, and its host *)
(* (NoHost if it does not normalize).                                      *)
NoHost == "none"
UrlType == [flaws : SUBSET {"unparsable", "not_https", "credentials", "port"},
            host : STRING]

ASSUME ProxyAssumption ==
  /\ Targets \subseteq UrlType
  /\ ALLOW_HOSTS \subseteq STRING /\ NoHost \notin ALLOW_HOSTS
  /\ Blocked \subseteq Addresses /\ Answers \subseteq SUBSET Addresses
  /\ \A host \in DOMAIN LiteralAddress : LiteralAddress[host] \in Addresses
  /\ PROXY_MAX_REDIRECT \in Int
  /\ DO_MAX_RESP \in Nat /\ MAX_BODY \in Nat /\ MAX_CHUNK \in Nat \ {0}

VARIABLES
  phase,    (* where the call is                                          *)
  home,     (* the host the caller named, its credential is meant for     *)
  bearer,   (* the call's headers carry github's token                    *)
  url,      (* curUrl                                                     *)
  hop,      (* hop                                                        *)
  pin,      (* the pinned address                                         *)
  resp,     (* the response so far                                        *)
  quiet,    (* nothing has come on the socket for PROXY_TIMEOUT_MS        *)
  result,   (* what the call resolved to                                  *)
  dialled,  (* history: the hosts and addresses requests were sent to     *)
  sent,     (* history: how many requests were sent                       *)
  body,     (* the length of the body the upstream is sending, or Endless *)
  size      (* history: the bytes of it that have come                    *)

vars == <<phase, home, bearer, url, hop, pin, resp, quiet, result, dialled, sent,
          body, size>>

Endless == -1

(* A URL that is not given at all: no redirect's Location, no t=.          *)
NoLocation == [flaws |-> {"absent"}, host |-> NoHost]
NoAddress == <<>>
NoResponse == [status |-> "none", location |-> NoLocation,
               total |-> 0, truncated |-> FALSE]
NoResult == [error |-> "none", flag |-> "none", resp |-> NoResponse]

----------------------------------------------------------------------------
(* How a call ends.                                                        *)

(* A failure of the bridge's own: there is no response to hand on.         *)
Fail(error) ==
  /\ phase' = "done"
  /\ result' = [error |-> error, flag |-> "none", resp |-> NoResponse]

(* finalize: the upstream's response is handed on, a 3xx with a flag.      *)
Finalize(r, flag) ==
  /\ phase' = "done"
  /\ result' = [error |-> IF r.status = "ok" THEN "none" ELSE "upstream_error",
                flag |-> flag, resp |-> r]

----------------------------------------------------------------------------
(* The checks before the first hop, in the code's order.                   *)

TargetError(u) ==
  IF "unparsable" \in u.flaws THEN "bad_target"
  ELSE IF "not_https" \in u.flaws THEN "only_https"
  ELSE IF "credentials" \in u.flaws THEN "bad_target"
  ELSE IF "port" \in u.flaws THEN "bad_port"
  ELSE IF u.host = NoHost THEN "bad_host"
  ELSE IF u.host \notin ALLOW_HOSTS THEN "host_not_allowed"
  ELSE IF PROXY_MAX_REDIRECT < 0 THEN "too_many_redirects"
  ELSE "none"

(* A new request of a client's, for u: nothing has been sent yet.          *)
Start(u, credential) ==
  /\ phase = "done"
  /\ home' = u.host /\ url' = u /\ hop' = 0 /\ bearer' = credential
  /\ dialled' = {} /\ sent' = 0
  /\ pin' = NoAddress /\ resp' = NoResponse /\ quiet' = FALSE
  /\ body' = 0 /\ size' = 0

Refuse(u, error) == Start(u, FALSE) /\ Fail(error)

Call(u, credential) ==
  /\ Start(u, credential)
  /\ IF TargetError(u) = "none"
       THEN phase' = "resolving" /\ result' = NoResult
       ELSE Fail(TargetError(u))

(* op=fetch hands its target on as it is, and so does core.proxy's answer. *)
Fetch(u) ==
  \/ u = NoLocation /\ Refuse(u, "missing_target")
  \/ u # NoLocation /\ Call(u, FALSE)

(* op=github adds the stored token, if there is one, to a request it has   *)
(* matched by its host.                                                    *)
Github(u) ==
  /\ "unparsable" \notin u.flaws /\ u.host = GH_HOST
  /\ Refuse(u, "github_not_provisioned") \/ Call(u, TRUE)

----------------------------------------------------------------------------
(* One hop: resolvePinned, then requestOnce.                               *)

(* DNS answers anew at every hop; the empty set is a failure.              *)
DnsAnswers(host) ==
  IF host \in DOMAIN LiteralAddress THEN {{LiteralAddress[host]}} ELSE Answers

(* Every address of the answer must be public.                             *)
Pins(answer) == IF answer \cap Blocked = {} THEN answer ELSE {}

Resolve ==
  /\ phase = "resolving"
  /\ \E answer \in DnsAnswers(url.host) :
       \/ /\ url.host \notin ALLOW_HOSTS
          /\ Fail("host_not_allowed")
          /\ UNCHANGED <<pin, dialled, sent>>
       \/ /\ url.host \in ALLOW_HOSTS /\ Pins(answer) = {}
          /\ Fail(IF answer = {} THEN "dns_failed" ELSE "blocked_ip")
          /\ UNCHANGED <<pin, dialled, sent>>
       \/ /\ url.host \in ALLOW_HOSTS
          /\ pin' \in Pins(answer)
          /\ dialled' = dialled \cup {[host |-> url.host, address |-> pin']}
          /\ sent' = sent + 1
          /\ phase' = "connecting"
          /\ UNCHANGED result
  /\ resp' = NoResponse /\ quiet' = FALSE
  /\ body' = 0 /\ size' = 0
  /\ UNCHANGED <<home, bearer, url, hop>>

Waiting == phase \in {"connecting", "receiving"}

Connection == <<home, bearer, url, hop, pin, dialled, sent>>

LastHop == hop = PROXY_MAX_REDIRECT

(* Mutated: a redirect to another host of the allowlist is followed.       *)
RedirectFlagAllowed(loc) ==
  IF "not_https" \in loc.flaws THEN "non_https"
  ELSE IF "port" \in loc.flaws THEN "bad_port"
  ELSE IF loc.host \notin ALLOW_HOSTS THEN "host_not_allowed"
  ELSE IF LastHop THEN "too_many_redirects"
  ELSE "none"

(* Why a redirect is handed to the caller instead of followed.             *)
RedirectFlag(loc) ==
  IF "not_https" \in loc.flaws THEN "non_https"
  ELSE IF "port" \in loc.flaws THEN "bad_port"
  ELSE IF loc.host \notin ALLOW_HOSTS THEN "host_not_allowed"
  ELSE IF loc.host # url.host THEN "cross_host"
  ELSE IF LastHop THEN "too_many_redirects"
  ELSE "none"

(* The hop's response is complete: hand it on, or take the next hop.       *)
Settle(r) ==
  LET loc == r.location IN
  /\ \/ /\ r.status # "redirect" \/ loc = NoLocation
        /\ Finalize(r, "none")
        /\ UNCHANGED <<url, hop>>
     \/ /\ r.status = "redirect" /\ loc # NoLocation
        /\ IF "unparsable" \in loc.flaws
             THEN Fail("bad_redirect") /\ UNCHANGED <<url, hop>>
           ELSE IF RedirectFlag(loc) # "none"
             THEN Finalize(r, RedirectFlag(loc)) /\ UNCHANGED <<url, hop>>
           ELSE /\ url' = loc /\ hop' = hop + 1
                /\ phase' = "resolving" /\ UNCHANGED result
  /\ UNCHANGED <<home, bearer, pin, resp, quiet, dialled, sent, body, size>>

(* The connection cannot be made, or breaks before the response begins.    *)
ConnectFails ==
  /\ phase = "connecting"
  /\ Fail("upstream_failed")
  /\ UNCHANGED <<Connection, resp, quiet, body, size>>

Headers ==
  /\ phase = "connecting"
  /\ phase' = "receiving"
  /\ \E status \in {"ok", "redirect", "other"}, loc \in Targets \cup {NoLocation} :
       resp' = [NoResponse EXCEPT !.status = status, !.location = loc]
  /\ body' \in 0..MAX_BODY \cup {Endless}
  /\ quiet' = FALSE
  /\ UNCHANGED <<Connection, result, size>>

(* What the next data event may bring.                                     *)
Chunks == {n \in 1..MAX_CHUNK : body = Endless \/ size + n <= body}

(* A chunk of n bytes, cut at the cap.                                     *)
Received(n) ==
  LET over == resp.total + n > DO_MAX_RESP IN
  [resp EXCEPT !.total = IF over THEN DO_MAX_RESP ELSE resp.total + n,
               !.truncated = over]

(* Mutated: reading goes on after the cap is reached.                      *)
DataNeverStopping ==
  /\ phase = "receiving"
  /\ \E n \in Chunks :
       /\ resp' = IF resp.truncated THEN resp ELSE Received(n)
       /\ size' = IF resp.truncated THEN size ELSE size + n
  /\ quiet' = FALSE
  /\ UNCHANGED <<Connection, phase, result, body>>

(* A chunk that goes over the cap destroys the response.                   *)
Data ==
  /\ phase = "receiving"
  /\ \E n \in Chunks :
       /\ resp' = Received(n)
       /\ size' = size + n
  /\ phase' = IF resp'.truncated THEN "destroyed" ELSE "receiving"
  /\ quiet' = FALSE
  /\ UNCHANGED <<Connection, result, body>>

(* The upstream has sent everything.                                       *)
End == phase = "receiving" /\ size = body /\ Settle(resp)

(* Mutated: without the "error" listener the "close" that follows a lost   *)
(* connection settles the hop.                                             *)
LostAsClose == phase = "receiving" /\ Settle(resp)

(* The connection breaks inside the response: Node emits "error" before    *)
(* "close".                                                                *)
Lost ==
  /\ phase = "receiving"
  /\ Fail("upstream_failed")
  /\ UNCHANGED <<Connection, resp, quiet, body, size>>

(* "close" of the response that the cap destroyed.                         *)
Close == phase = "destroyed" /\ Settle(resp)

(* Nothing comes on the socket for a while...                              *)
Silence ==
  /\ Waiting /\ ~quiet
  /\ quiet' = TRUE
  /\ UNCHANGED <<Connection, phase, resp, result, body, size>>

(* Mutated: the timer destroys the request but does not settle the hop.    *)
TimeoutUnsettled ==
  /\ Waiting /\ quiet
  /\ phase' = "aborted"
  /\ UNCHANGED <<Connection, resp, quiet, result, body, size>>

(* ... and the idle timer fires, unless something came first.              *)
Timeout ==
  /\ Waiting /\ quiet
  /\ Fail("upstream_timeout")
  /\ UNCHANGED <<Connection, resp, quiet, body, size>>

----------------------------------------------------------------------------

Init ==
  /\ phase = "done" /\ result = NoResult
  /\ home = NoHost /\ url = NoLocation /\ hop = 0 /\ bearer = FALSE
  /\ dialled = {} /\ sent = 0
  /\ pin = NoAddress /\ resp = NoResponse /\ quiet = FALSE
  /\ body = 0 /\ size = 0

Next ==
  \/ \E u \in Targets \cup {NoLocation} : Fetch(u)
  \/ \E u \in Targets : Github(u)
  \/ Resolve
  \/ ConnectFails \/ Headers \/ Data \/ End \/ Lost \/ Close
  \/ Silence \/ Timeout

(* Time passes, the resolver answers, and Node delivers timer and close    *)
(* events.  Nothing is assumed of the upstream.                            *)
Spec ==
  /\ Init /\ [][Next]_vars
  /\ WF_vars(Resolve) /\ WF_vars(Close)
  /\ WF_vars(Silence) /\ WF_vars(Timeout)

----------------------------------------------------------------------------

RespType == [status : {"none", "ok", "redirect", "other"},
             location : Targets \cup {NoLocation},
             total : Nat, truncated : BOOLEAN]

ResultType ==
  [error : {"none", "bad_target", "only_https", "bad_port", "bad_host",
            "host_not_allowed", "too_many_redirects", "dns_failed",
            "blocked_ip", "bad_redirect", "upstream_failed",
            "upstream_timeout", "upstream_error", "missing_target",
            "github_not_provisioned"},
   flag : {"none", "non_https", "bad_port", "host_not_allowed", "cross_host",
           "too_many_redirects"},
   resp : RespType]

TypeOK ==
  /\ phase \in {"done", "resolving", "connecting", "receiving", "destroyed"}
  /\ url \in Targets \cup {NoLocation}
  /\ home = NoHost \/ \E u \in Targets : home = u.host
  /\ hop \in Nat /\ sent \in Nat /\ bearer \in BOOLEAN
  /\ body \in Nat \cup {Endless} /\ size \in Nat
  /\ pin \in Addresses \cup {NoAddress}
  /\ resp \in RespType
  /\ quiet \in BOOLEAN
  /\ result \in ResultType
  /\ \A d \in dialled : d.address \in Addresses

(* I8: whatever DNS answers at each hop, whatever redirects come back, a   *)
(* request never goes to a blocked address.                                *)
NeverDialsBlocked == \A d \in dialled : d.address \notin Blocked

(* "the credential stays with its intended host" (kernel.mjs 466): the     *)
(* caller's headers are sent again at every hop, so no hop may leave the   *)
(* host the caller named, which is on the allowlist, and github's token    *)
(* goes to GitHub's API only.                                              *)
CredentialStaysOnHost ==
  \A d \in dialled :
    /\ d.host = home /\ d.host \in ALLOW_HOSTS
    /\ bearer => d.host = GH_HOST

(* "Max same-host redirects followed" (README 261): a call sends at most   *)
(* PROXY_MAX_REDIRECT + 1 requests, however long the chain.                *)
HopsBounded ==
  sent <= IF PROXY_MAX_REDIRECT < 0 THEN 0 ELSE PROXY_MAX_REDIRECT + 1

(* "Response cap: truncate + flag" (SPEC 225): a body handed on without    *)
(* the flag is the whole body, one with the flag is the first DO_MAX_RESP  *)
(* bytes of a longer one.  A connection lost half-way never passes for a   *)
(* short response.                                                         *)
WholeOrFlagged ==
  result.resp.status # "none" =>
    IF result.resp.truncated
      THEN /\ result.resp.total = DO_MAX_RESP
           /\ body = Endless \/ body > DO_MAX_RESP
      ELSE result.resp.total = body

(* Every call resolves, whatever the upstream does: silence runs into the  *)
(* timer at every hop, a stream without end into the cap, redirects into   *)
(* the bound.  telegram.mjs's loop and every http op await this.           *)
CallReturns == phase # "done" ~> phase = "done"
============================================================================
