---------------------------- MODULE ProxyProofs ----------------------------
(***************************************************************************)
(* Proofs about Proxy, for any targets, addresses, limits and bodies; about*)
(* IpClassifier, for every address and every way to write it; and what     *)
(* follows from the two together.                                          *)
(***************************************************************************)
EXTENDS ProxyAddresses, SequenceTheorems, TLAPS

(* While a call is under way it is at the host it was made for, on the     *)
(* list, within its redirects, and has sent a request for each hop; and    *)
(* one with github's token was made for GitHub.                            *)
OnCourse ==
  /\ bearer => home = GH_HOST
  /\ phase # "done" =>
       /\ url.host = home /\ home \in ALLOW_HOSTS
       /\ hop <= PROXY_MAX_REDIRECT
       /\ result = NoResult
  /\ phase = "resolving" => sent = hop
  /\ phase \in {"connecting", "receiving", "destroyed"} => sent = hop + 1

(* What has been kept of the body that has come so far.                    *)
KeptSoFar ==
  /\ phase = "connecting" => size = 0
  /\ phase = "receiving" =>
       /\ resp.total = size /\ ~resp.truncated
       /\ size <= DO_MAX_RESP
  /\ phase = "destroyed" =>
       /\ resp.total = DO_MAX_RESP /\ resp.truncated
       /\ body = Endless \/ body > DO_MAX_RESP

IInv ==
  /\ TypeOK
  /\ OnCourse
  /\ KeptSoFar
  /\ NeverDialsBlocked
  /\ CredentialStaysOnHost
  /\ HopsBounded
  /\ WholeOrFlagged

LEMMA Records ==
  /\ NoResponse \in RespType /\ NoResult \in ResultType
  /\ NoResponse.status = "none" /\ NoResult.resp = NoResponse
  /\ NoLocation.host = NoHost /\ NoHost \notin ALLOW_HOSTS
BY ProxyAssumption
   DEF NoResponse, NoResult, RespType, ResultType, NoLocation

(* A call that ends with an error of the bridge's own hands nothing on.    *)
LEMMA FailGood ==
  ASSUME IInv, NEW error, Fail(error),
         error \in {"bad_target", "only_https", "bad_port", "bad_host",
                    "host_not_allowed", "too_many_redirects", "dns_failed",
                    "blocked_ip", "bad_redirect", "upstream_failed",
                    "upstream_timeout", "missing_target",
                    "github_not_provisioned"}
  PROVE  /\ phase' = "done"
         /\ result' \in ResultType
         /\ result'.resp.status = "none"
BY Records DEF Fail, ResultType

(* A client's request begins a call or is refused.                         *)
LEMMA StartGood ==
  ASSUME IInv, NEW u \in Targets \cup {NoLocation}, NEW credential \in BOOLEAN,
         credential => u.host = GH_HOST, Start(u, credential),
         \/ /\ u.host \in ALLOW_HOSTS /\ PROXY_MAX_REDIRECT >= 0
            /\ phase' = "resolving" /\ result' = NoResult
         \/ /\ phase' = "done" /\ result' \in ResultType
            /\ result'.resp.status = "none"
  PROVE  IInv'
<1>1. /\ home' = u.host /\ url' = u /\ hop' = 0 /\ bearer' = credential
      /\ dialled' = {} /\ sent' = 0
      /\ pin' = NoAddress /\ resp' = NoResponse /\ quiet' = FALSE
      /\ body' = 0 /\ size' = 0
  BY DEF Start
<1>2. TypeOK'
  BY <1>1, Records DEF TypeOK
<1>3. OnCourse' /\ KeptSoFar'
  BY <1>1, ProxyAssumption DEF OnCourse, KeptSoFar
<1>4. NeverDialsBlocked' /\ CredentialStaysOnHost' /\ HopsBounded'
  BY <1>1, ProxyAssumption DEF NeverDialsBlocked, CredentialStaysOnHost, HopsBounded
<1>5. WholeOrFlagged'
  BY Records DEF WholeOrFlagged
<1> QED  BY <1>2, <1>3, <1>4, <1>5 DEF IInv

LEMMA CallGood ==
  ASSUME IInv, NEW u \in Targets, NEW credential \in BOOLEAN,
         credential => u.host = GH_HOST, Call(u, credential)
  PROVE  IInv'
<1>1. CASE TargetError(u) = "none"
  <2>1. u.host \in ALLOW_HOSTS /\ PROXY_MAX_REDIRECT >= 0
    BY <1>1, ProxyAssumption DEF TargetError
  <2> QED  BY <1>1, <2>1, StartGood DEF Call
<1>2. CASE TargetError(u) # "none"
  <2>1. phase' = "done" /\ result' \in ResultType /\ result'.resp.status = "none"
    BY <1>2, FailGood DEF Call, TargetError
  <2> QED  BY <2>1, StartGood DEF Call
<1> QED  BY <1>1, <1>2

(* What the handlers of op=fetch and op=github make of a request.          *)
LEMMA HandlersGood ==
  ASSUME IInv,
         \/ \E u \in Targets \cup {NoLocation} : Fetch(u)
         \/ \E u \in Targets : Github(u)
  PROVE  IInv'
<1>1. ASSUME NEW u \in Targets \cup {NoLocation},
             NEW error \in {"missing_target", "github_not_provisioned"},
             Refuse(u, error)
      PROVE  IInv'
  <2>1. phase' = "done" /\ result' \in ResultType /\ result'.resp.status = "none"
    BY <1>1, FailGood DEF Refuse
  <2> QED  BY <1>1, <2>1, StartGood DEF Refuse
<1>2. ASSUME NEW u \in Targets \cup {NoLocation}, Fetch(u)
      PROVE  IInv'
  BY <1>1, <1>2, CallGood DEF Fetch
<1>3. ASSUME NEW u \in Targets, Github(u)
      PROVE  IInv'
  BY <1>1, <1>3, CallGood DEF Github
<1> QED  BY <1>2, <1>3

LEMMA ResolveGood ==
  ASSUME IInv, Resolve
  PROVE  IInv'
<1> USE DEF IInv
<1>1. /\ phase = "resolving"
      /\ resp' = NoResponse /\ quiet' = FALSE /\ body' = 0 /\ size' = 0
      /\ UNCHANGED <<home, bearer, url, hop>>
  BY DEF Resolve
<1>2. url.host = home /\ home \in ALLOW_HOSTS /\ hop <= PROXY_MAX_REDIRECT
      /\ result = NoResult /\ sent = hop /\ hop \in Nat
  BY <1>1 DEF OnCourse, TypeOK
<1>3. PICK answer \in DnsAnswers(url.host) :
        \/ /\ \/ Fail("host_not_allowed") \/ Fail("dns_failed") \/ Fail("blocked_ip")
           /\ UNCHANGED <<pin, dialled, sent>>
        \/ /\ pin' \in Pins(answer)
           /\ dialled' = dialled \cup {[host |-> url.host, address |-> pin']}
           /\ sent' = sent + 1
           /\ phase' = "connecting"
           /\ UNCHANGED result
  BY DEF Resolve
<1>4. CASE /\ \/ Fail("host_not_allowed") \/ Fail("dns_failed") \/ Fail("blocked_ip")
           /\ UNCHANGED <<pin, dialled, sent>>
  <2>1. phase' = "done" /\ result' \in ResultType /\ result'.resp.status = "none"
    BY <1>4, FailGood
  <2>2. TypeOK'
    BY <1>1, <1>4, <2>1, Records DEF TypeOK
  <2> QED  BY <1>1, <1>4, <2>1, <2>2
           DEF OnCourse, KeptSoFar, NeverDialsBlocked, CredentialStaysOnHost,
               HopsBounded, WholeOrFlagged
<1>5. CASE /\ pin' \in Pins(answer)
           /\ dialled' = dialled \cup {[host |-> url.host, address |-> pin']}
           /\ sent' = sent + 1
           /\ phase' = "connecting"
           /\ UNCHANGED result
  <2>1. pin' \in Addresses /\ pin' \notin Blocked
    <3>1. answer \subseteq Addresses
      BY <1>3, ProxyAssumption DEF DnsAnswers
    <3> QED  BY <1>5, <3>1 DEF Pins
  <2>2. TypeOK'
    <3>1. \A d \in dialled' : d.address \in Addresses
      BY <1>5, <2>1 DEF TypeOK
    <3>2. sent' \in Nat /\ pin' \in Addresses \cup {NoAddress}
      BY <1>5, <2>1 DEF TypeOK
    <3>3. phase' \in {"done", "resolving", "connecting", "receiving", "destroyed"}
      BY <1>5
    <3> QED  BY <1>1, <1>5, <3>1, <3>2, <3>3, Records DEF TypeOK
  <2>3. OnCourse' /\ KeptSoFar'
    BY <1>1, <1>2, <1>5 DEF OnCourse, KeptSoFar
  <2>4. NeverDialsBlocked' /\ CredentialStaysOnHost'
    <3>1. bearer => home = GH_HOST
      BY DEF OnCourse
    <3> QED  BY <1>1, <1>2, <1>5, <2>1, <3>1
             DEF NeverDialsBlocked, CredentialStaysOnHost
  <2>5. HopsBounded'
    BY <1>2, <1>5, ProxyAssumption DEF HopsBounded
  <2>6. WholeOrFlagged'
    BY <1>2, <1>5, Records DEF WholeOrFlagged
  <2> QED  BY <2>2, <2>3, <2>4, <2>5, <2>6
<1> QED  BY <1>3, <1>4, <1>5

(* A hop's complete response is handed on or leads to the next hop.        *)
LEMMA SettleGood ==
  ASSUME IInv, phase \in {"receiving", "destroyed"}, Settle(resp),
         phase = "receiving" => size = body
  PROVE  IInv'
<1> USE DEF IInv
<1> DEFINE loc == resp.location
<1>1. UNCHANGED <<home, bearer, pin, resp, quiet, dialled, sent, body, size>>
  BY DEF Settle
<1>2. /\ url.host = home /\ home \in ALLOW_HOSTS /\ hop <= PROXY_MAX_REDIRECT
      /\ result = NoResult /\ sent = hop + 1 /\ hop \in Nat
      /\ resp \in RespType /\ loc \in Targets \cup {NoLocation}
  BY DEF OnCourse, TypeOK, RespType
<1>3. IF resp.truncated
        THEN resp.total = DO_MAX_RESP /\ (body = Endless \/ body > DO_MAX_RESP)
        ELSE resp.total = body
  BY DEF KeptSoFar
<1>4. \/ Fail("bad_redirect") /\ UNCHANGED <<url, hop>>
      \/ \E flag \in {"none", "non_https", "bad_port", "host_not_allowed",
                      "cross_host", "too_many_redirects"} :
           Finalize(resp, flag) /\ UNCHANGED <<url, hop>>
      \/ /\ loc # NoLocation /\ RedirectFlag(loc) = "none"
         /\ url' = loc /\ hop' = hop + 1
         /\ phase' = "resolving" /\ UNCHANGED result
  BY DEF Settle, RedirectFlag
<1> HIDE DEF loc
<1>5. CASE Fail("bad_redirect") /\ UNCHANGED <<url, hop>>
  <2>1. phase' = "done" /\ result' \in ResultType /\ result'.resp.status = "none"
    BY <1>5, FailGood
  <2>2. TypeOK'
    BY <1>1, <1>5, <2>1 DEF TypeOK
  <2> QED  BY <1>1, <1>5, <2>1, <2>2
           DEF OnCourse, KeptSoFar, NeverDialsBlocked, CredentialStaysOnHost,
               HopsBounded, WholeOrFlagged
<1>6. ASSUME NEW flag \in {"none", "non_https", "bad_port", "host_not_allowed",
                           "cross_host", "too_many_redirects"},
             Finalize(resp, flag), UNCHANGED <<url, hop>>
      PROVE  IInv'
  <2>1. /\ phase' = "done" /\ result' \in ResultType /\ result'.resp = resp
    BY <1>2, <1>6 DEF Finalize, ResultType
  <2>2. TypeOK'
    BY <1>1, <1>6, <2>1 DEF TypeOK
  <2>3. WholeOrFlagged'
    BY <1>1, <1>3, <2>1 DEF WholeOrFlagged
  <2> QED  BY <1>1, <1>6, <2>1, <2>2, <2>3
           DEF OnCourse, KeptSoFar, NeverDialsBlocked, CredentialStaysOnHost,
               HopsBounded
<1>7. CASE /\ loc # NoLocation /\ RedirectFlag(loc) = "none"
           /\ url' = loc /\ hop' = hop + 1
           /\ phase' = "resolving" /\ UNCHANGED result
  <2>1. loc.host = url.host /\ hop # PROXY_MAX_REDIRECT
    BY <1>7 DEF RedirectFlag, LastHop
  <2>2. hop' \in Nat /\ hop' <= PROXY_MAX_REDIRECT
    BY <1>2, <1>7, <2>1, ProxyAssumption
  <2>3. TypeOK'
    BY <1>1, <1>2, <1>7, <2>2 DEF TypeOK
  <2>4. OnCourse'
    BY <1>1, <1>2, <1>7, <2>1, <2>2 DEF OnCourse
  <2> QED  BY <1>1, <1>7, <2>3, <2>4
           DEF KeptSoFar, NeverDialsBlocked, CredentialStaysOnHost,
               HopsBounded, WholeOrFlagged
<1> QED  BY <1>4, <1>5, <1>6, <1>7

LEMMA DataGood ==
  ASSUME IInv, Data
  PROVE  IInv'
<1> USE DEF IInv
<1>1. PICK n \in Chunks : resp' = Received(n) /\ size' = size + n
  BY DEF Data
<1>2. /\ UNCHANGED <<home, bearer, url, hop, pin, dialled, sent, result, body>>
      /\ quiet' = FALSE /\ phase = "receiving"
      /\ phase' = IF resp'.truncated THEN "destroyed" ELSE "receiving"
  BY DEF Data, Connection
<1>3. /\ n \in Nat /\ size \in Nat /\ DO_MAX_RESP \in Nat
      /\ body = Endless \/ size + n <= body
      /\ resp \in RespType
      /\ resp.total = size /\ size <= DO_MAX_RESP /\ ~resp.truncated
  BY <1>2, ProxyAssumption DEF Chunks, TypeOK, KeptSoFar
<1>4. /\ resp' \in RespType
      /\ resp'.truncated <=> size + n > DO_MAX_RESP
      /\ resp'.total = IF size + n > DO_MAX_RESP THEN DO_MAX_RESP ELSE size + n
  <2>1. CASE size + n > DO_MAX_RESP
    <3>1. resp' = [resp EXCEPT !.total = DO_MAX_RESP, !.truncated = TRUE]
      BY <1>1, <1>3, <2>1 DEF Received
    <3> QED  BY <1>3, <2>1, <3>1 DEF RespType
  <2>2. CASE ~(size + n > DO_MAX_RESP)
    <3>1. (resp.total + n > DO_MAX_RESP) = FALSE
      BY <1>3, <2>2
    <3>2. resp' = [resp EXCEPT !.total = size + n, !.truncated = FALSE]
      BY <1>1, <1>3, <3>1 DEF Received
    <3>3. size + n \in Nat
      BY <1>3
    <3> QED  BY <1>3, <2>2, <3>2, <3>3 DEF RespType
  <2> QED  BY <2>1, <2>2
<1>5. TypeOK'
  <2>1. size' \in Nat
    BY <1>1, <1>3
  <2>2. phase' \in {"receiving", "destroyed"}
    BY <1>2
  <2> QED  BY <1>2, <1>4, <2>1, <2>2 DEF TypeOK
<1>6. KeptSoFar'
  <2>1. CASE size + n > DO_MAX_RESP
    <3>1. body = Endless \/ body > DO_MAX_RESP
      BY <1>3, <2>1 DEF TypeOK, Endless
    <3>2. phase' = "destroyed"
      BY <1>2, <1>4, <2>1
    <3> QED  BY <1>2, <1>4, <2>1, <3>1, <3>2 DEF KeptSoFar
  <2>2. CASE ~(size + n > DO_MAX_RESP)
    <3>1. phase' = "receiving" /\ ~resp'.truncated
      BY <1>2, <1>4, <2>2
    <3>2. resp'.total = size' /\ size' <= DO_MAX_RESP
      BY <1>1, <1>3, <1>4, <2>2
    <3> QED  BY <3>1, <3>2 DEF KeptSoFar
  <2> QED  BY <2>1, <2>2
<1>7. OnCourse'
  BY <1>2 DEF OnCourse
<1> QED  BY <1>2, <1>5, <1>6, <1>7, Records
         DEF NeverDialsBlocked, CredentialStaysOnHost, HopsBounded,
             WholeOrFlagged, OnCourse

(* The other events of the socket and the timer.                           *)
LEMMA EventGood ==
  ASSUME IInv, ConnectFails \/ Headers \/ Lost \/ Silence \/ Timeout
  PROVE  IInv'
<1> USE DEF IInv
<1>1. UNCHANGED <<home, bearer, url, hop, pin, dialled, sent>>
  BY DEF ConnectFails, Headers, Lost, Silence, Timeout, Connection
<1>2. NeverDialsBlocked' /\ CredentialStaysOnHost' /\ HopsBounded'
  BY <1>1 DEF NeverDialsBlocked, CredentialStaysOnHost, HopsBounded
<1>3. CASE ConnectFails \/ Lost \/ Timeout
  <2>1. phase' = "done" /\ result' \in ResultType /\ result'.resp.status = "none"
    BY <1>3, FailGood DEF ConnectFails, Lost, Timeout
  <2>2. UNCHANGED <<resp, quiet, body, size>>
    BY <1>3 DEF ConnectFails, Lost, Timeout
  <2>3. TypeOK'
    BY <1>1, <2>1, <2>2 DEF TypeOK
  <2>4. OnCourse' /\ KeptSoFar' /\ WholeOrFlagged'
    BY <1>1, <2>1 DEF OnCourse, KeptSoFar, WholeOrFlagged
  <2> QED  BY <1>2, <2>3, <2>4
<1>4. CASE Headers
  <2>1. /\ phase = "connecting" /\ phase' = "receiving" /\ quiet' = FALSE
        /\ UNCHANGED <<result, size>>
    BY <1>4 DEF Headers
  <2>2. body' \in Nat \cup {Endless}
    <3>1. body' \in 0..MAX_BODY \cup {Endless} /\ MAX_BODY \in Nat
      BY <1>4, ProxyAssumption DEF Headers
    <3> QED  BY <3>1
  <2>3. /\ resp' \in RespType /\ resp'.total = 0 /\ ~resp'.truncated
    BY <1>4, Records DEF Headers, NoResponse, RespType
  <2>4. TypeOK'
    BY <1>1, <2>1, <2>3, <2>2 DEF TypeOK
  <2>5. size = 0
    BY <2>1 DEF KeptSoFar
  <2>6. OnCourse'
    BY <1>1, <2>1 DEF OnCourse
  <2>7. KeptSoFar'
    BY <2>1, <2>3, <2>5, ProxyAssumption DEF KeptSoFar
  <2>8. WholeOrFlagged'
    BY <2>1, Records DEF OnCourse, WholeOrFlagged
  <2> QED  BY <1>2, <2>4, <2>6, <2>7, <2>8
<1>5. CASE Silence
  BY <1>1, <1>2, <1>5 DEF Silence, Waiting, Connection, TypeOK, OnCourse, KeptSoFar,
                          WholeOrFlagged
<1> QED  BY <1>3, <1>4, <1>5

(* What holds of every call, at every moment between its awaits.           *)
THEOREM ProxyInvariant == Spec => []IInv
<1>1. Init => IInv
  <2> SUFFICES ASSUME Init  PROVE IInv
    OBVIOUS
  <2>1. TypeOK
    BY Records DEF Init, TypeOK
  <2>2. OnCourse /\ KeptSoFar /\ NeverDialsBlocked /\ CredentialStaysOnHost
    BY DEF Init, OnCourse, KeptSoFar, NeverDialsBlocked, CredentialStaysOnHost
  <2>3. HopsBounded
    BY ProxyAssumption DEF Init, HopsBounded
  <2>4. WholeOrFlagged
    BY Records DEF Init, WholeOrFlagged
  <2> QED  BY <2>1, <2>2, <2>3, <2>4 DEF IInv
<1>2. IInv /\ [Next]_vars => IInv'
  <2> SUFFICES ASSUME IInv, [Next]_vars  PROVE IInv'
    OBVIOUS
  <2>1. CASE End \/ Close
    BY <2>1, SettleGood DEF End, Close
  <2>2. CASE UNCHANGED vars
    BY <2>2 DEF vars, IInv, TypeOK, OnCourse, KeptSoFar, NeverDialsBlocked,
                CredentialStaysOnHost, HopsBounded, WholeOrFlagged
  <2> QED  BY <2>1, <2>2, HandlersGood, ResolveGood, DataGood, EventGood DEF Next
<1> QED  BY <1>1, <1>2, PTL DEF Spec

(* I8: no request of any call goes to an address isBlockedIp refuses,      *)
(* whatever DNS answers at each hop.                                       *)
THEOREM BlockedNeverDialled == Spec => []NeverDialsBlocked
BY ProxyInvariant, PTL DEF IInv

(* Every request of a call goes to the host the caller named, and that     *)
(* host is on the allowlist, and is GitHub's if the request carries        *)
(* github's token, however long the chain of redirects.                    *)
THEOREM CredentialNeverLeavesHost == Spec => []CredentialStaysOnHost
BY ProxyInvariant, PTL DEF IInv

(* A call sends at most PROXY_MAX_REDIRECT + 1 requests.                   *)
THEOREM HopsAlwaysBounded == Spec => []HopsBounded
BY ProxyInvariant, PTL DEF IInv

(* A body handed on is whole, or it is flagged and is the first            *)
(* DO_MAX_RESP bytes of a longer one, however it was cut into chunks.      *)
THEOREM BodyAlwaysWholeOrFlagged == Spec => []WholeOrFlagged
BY ProxyInvariant, PTL DEF IInv

(* A proxied call keeps its types, whatever the network answers.           *)
THEOREM ProxyTypeCorrect == Spec => []TypeOK
BY ProxyInvariant, PTL DEF IInv

----------------------------------------------------------------------------
(* The classifier.                                                         *)

LEMMA OctetsType ==
  ASSUME NEW x \in Word, NEW y \in Word
  PROVE  /\ Octets(x, y) \in IPv4
         /\ Hextet(Octets(x, y)[1], Octets(x, y)[2]) = x
         /\ Hextet(Octets(x, y)[3], Octets(x, y)[4]) = y
<1>1. \A z \in Word : /\ z \div 256 \in Octet /\ (z % 256) \in Octet
                      /\ (z \div 256) * 256 + (z % 256) = z
  BY DEF Octet, Word
<1>2. Octets(x, y) \in IPv4
  BY <1>1 DEF Octets, IPv4
<1> QED  BY <1>1, <1>2 DEF Octets, Hextet

(* isBlockedIp's tests of the octets are membership in the blocks: no      *)
(* address of a block is let through, and no other one is refused.         *)
THEOREM ClassifiesIPv4Exactly ==
  ASSUME NEW p \in IPv4
  PROVE  IsBlockedV4(p) <=> Internal4(p)
<1> DEFINE x == p[1]
           y == p[2]
<1>1. x \in 0..255 /\ y \in 0..255
  BY DEF IPv4, Octet
<1>2. \A a, b, n \in Nat :
        InBlock4(p, a, b, n) <=> /\ a * 256 + b <= x * 256 + y
                                 /\ x * 256 + y < a * 256 + b + n
  BY DEF InBlock4, Hextet
<1>3. IsBlockedV4(p) <=> \/ x \in {0, 10, 127} \/ x >= 224
                         \/ x = 169 /\ y = 254
                         \/ x = 172 /\ y \in 16..31
                         \/ x = 192 /\ y = 168
                         \/ x = 100 /\ y \in 64..127
  BY DEF IsBlockedV4
<1> HIDE DEF x, y
<1>4. InBlock4(p, 0, 0, 256) <=> x = 0
  <2>1. InBlock4(p, 0, 0, 256) <=> 0 <= x * 256 + y /\ x * 256 + y < 256
    BY <1>1, <1>2
  <2> QED  BY <1>1, <2>1
<1>5. InBlock4(p, 10, 0, 256) <=> x = 10
  <2>1. InBlock4(p, 10, 0, 256) <=> 2560 <= x * 256 + y /\ x * 256 + y < 2816
    BY <1>1, <1>2
  <2> QED  BY <1>1, <2>1
<1>6. InBlock4(p, 127, 0, 256) <=> x = 127
  <2>1. InBlock4(p, 127, 0, 256) <=> 32512 <= x * 256 + y /\ x * 256 + y < 32768
    BY <1>1, <1>2
  <2> QED  BY <1>1, <2>1
<1>7. InBlock4(p, 169, 254, 1) <=> x = 169 /\ y = 254
  <2>1. InBlock4(p, 169, 254, 1) <=> 43518 <= x * 256 + y /\ x * 256 + y < 43519
    BY <1>1, <1>2
  <2> QED  BY <1>1, <2>1
<1>8. InBlock4(p, 172, 16, 16) <=> x = 172 /\ y \in 16..31
  <2>1. InBlock4(p, 172, 16, 16) <=> 44048 <= x * 256 + y /\ x * 256 + y < 44064
    BY <1>1, <1>2
  <2> QED  BY <1>1, <2>1
<1>9. InBlock4(p, 192, 168, 1) <=> x = 192 /\ y = 168
  <2>1. InBlock4(p, 192, 168, 1) <=> 49320 <= x * 256 + y /\ x * 256 + y < 49321
    BY <1>1, <1>2
  <2> QED  BY <1>1, <2>1
<1>10. InBlock4(p, 100, 64, 64) <=> x = 100 /\ y \in 64..127
  <2>1. InBlock4(p, 100, 64, 64) <=> 25664 <= x * 256 + y /\ x * 256 + y < 25728
    BY <1>1, <1>2
  <2> QED  BY <1>1, <2>1
<1>11. InBlock4(p, 224, 0, 8192) <=> x >= 224
  <2>1. InBlock4(p, 224, 0, 8192) <=> 57344 <= x * 256 + y /\ x * 256 + y < 65536
    BY <1>1, <1>2
  <2> QED  BY <1>1, <2>1
<1> QED  BY <1>3, <1>4, <1>5, <1>6, <1>7, <1>8, <1>9, <1>10, <1>11 DEF Internal4

LEMMA FunctionIsSeq ==
  ASSUME NEW S, NEW n \in Nat, NEW f \in [1..n -> S]
  PROVE  f \in Seq(S) /\ Len(f) = n
<1>1. f \in Seq(S)
  BY SeqDef
<1>2. 1..n = 1..Len(f) /\ Len(f) \in Nat
  BY <1>1, LenProperties
<1> QED  BY <1>1, <1>2

(* A sequence is the concatenation of the three parts it is made of.       *)
LEMMA ThreeParts ==
  ASSUME NEW S, NEW a \in Seq(S), NEW b \in Seq(S), NEW c \in Seq(S),
         NEW h \in Seq(S), Len(h) = Len(a) + Len(b) + Len(c),
         \A k \in 1..Len(a) : a[k] = h[k],
         \A k \in 1..Len(b) : b[k] = h[Len(a) + k],
         \A k \in 1..Len(c) : c[k] = h[Len(a) + Len(b) + k]
  PROVE  a \o b \o c = h
<1> DEFINE f == a \o b
           g == f \o c
<1>1. /\ f \in Seq(S) /\ Len(f) = Len(a) + Len(b)
      /\ \A k \in 1..Len(a) : f[k] = a[k]
      /\ \A k \in Len(a) + 1..Len(f) : f[k] = b[k - Len(a)]
  OBVIOUS
<1>2. \A k \in 1..Len(f) : f[k] = h[k]
  <2> HIDE DEF f
  <2>5. Len(a) \in Nat /\ Len(b) \in Nat /\ Len(f) \in Nat
    BY <1>1, LenProperties
  <2> SUFFICES ASSUME NEW k \in 1..Len(f)  PROVE f[k] = h[k]
    OBVIOUS
  <2>6. CASE k <= Len(a)
    <3>1. k \in 1..Len(a)
      BY <2>5, <2>6
    <3> QED  BY <1>1, <3>1
  <2>7. CASE k > Len(a)
    <3>1. k - Len(a) \in 1..Len(b) /\ Len(a) + (k - Len(a)) = k
      BY <1>1, <2>5, <2>7
    <3>2. k \in Len(a) + 1..Len(f)
      BY <2>5, <2>7
    <3>3. f[k] = b[k - Len(a)]
      BY <1>1, <3>2
    <3>4. b[k - Len(a)] = h[Len(a) + (k - Len(a))]
      BY <3>1
    <3> QED  BY <3>1, <3>3, <3>4
  <2> QED  BY <2>5, <2>6, <2>7
<1> HIDE DEF f
<1>3. /\ g \in Seq(S) /\ Len(g) = Len(f) + Len(c)
      /\ \A k \in 1..Len(f) : g[k] = f[k]
      /\ \A k \in Len(f) + 1..Len(g) : g[k] = c[k - Len(f)]
  BY <1>1
<1>4. \A k \in 1..Len(g) : g[k] = h[k]
  <2> HIDE DEF g
  <2>5. Len(f) \in Nat /\ Len(c) \in Nat /\ Len(g) \in Nat
    BY <1>1, <1>3, LenProperties
  <2> SUFFICES ASSUME NEW k \in 1..Len(g)  PROVE g[k] = h[k]
    OBVIOUS
  <2>6. CASE k <= Len(f)
    <3>1. k \in 1..Len(f)
      BY <2>5, <2>6
    <3> QED  BY <1>2, <1>3, <3>1
  <2>7. CASE k > Len(f)
    <3>1. k - Len(f) \in 1..Len(c) /\ Len(f) + (k - Len(f)) = k
      BY <1>3, <2>5, <2>7
    <3>2. k \in Len(f) + 1..Len(g)
      BY <2>5, <2>7
    <3>3. g[k] = c[k - Len(f)]
      BY <1>3, <3>2
    <3>4. c[k - Len(f)] = h[Len(f) + (k - Len(f))]
      BY <1>1, <3>1
    <3> QED  BY <3>1, <3>3, <3>4
  <2> QED  BY <2>5, <2>6, <2>7
<1>5. g = h
  <2> HIDE DEF g
  <2> QED  BY <1>1, <1>3, <1>4
<1> QED  BY <1>5 DEF f

(* expandV6 undoes the writing, whichever run of zeros was shortened and   *)
(* whether or not the last two hextets are written as an IPv4 address.     *)
LEMMA ExpandsToAddress ==
  ASSUME NEW h \in IPv6, NEW n \in {6, 8}, NEW i \in 0..8, NEW j \in 0..8,
         IsCut(h, n, i, j)
  PROVE  ExpandV6(Text6(h, n, i, j)) = h
<1> DEFINE t == Text6(h, n, i, j)
           head == [k \in 1..i |-> h[k]]
           hextail == [k \in 1..n - j |-> h[j + k]]
           last == IF n = 8 THEN <<>> ELSE <<h[7], h[8]>>
           tail == hextail \o last
           zeros == [k \in 1..j - i |-> 0]
<1>1. /\ i <= j /\ j <= n /\ n \in {6, 8} /\ i \in Nat /\ j \in Nat
      /\ \A k \in i + 1..j : h[k] = 0
      /\ ~(i < j) => i = n
  BY DEF IsCut
<1>2. \A k \in 1..8 : h[k] \in Word
  BY DEF IPv6
<1>3. h \in Seq(Word) /\ Len(h) = 8
  BY FunctionIsSeq DEF IPv6
<1>4. head \in Seq(Word) /\ Len(head) = i
  <2>1. head \in [1..i -> Word]
    BY <1>1, <1>2
  <2> QED  BY <1>1, <2>1, FunctionIsSeq
<1>5. hextail \in Seq(Word) /\ Len(hextail) = n - j
  <2>1. \A k \in 1..n - j : j + k \in 1..8
    BY <1>1
  <2>2. hextail \in [1..n - j -> Word] /\ n - j \in Nat
    BY <1>1, <1>2, <2>1
  <2> QED  BY <2>2, FunctionIsSeq
<1>6. last \in Seq(Word) /\ Len(last) = 8 - n
  BY <1>1, <1>2
<1>7. zeros \in Seq(Word) /\ Len(zeros) = j - i
  <2>1. 0 \in Word /\ j - i \in Nat
    BY <1>1 DEF Word
  <2>2. zeros \in [1..j - i -> Word]
    BY <2>1
  <2> QED  BY <2>1, <2>2, FunctionIsSeq
<1>8. ExpandV6(t) = IF Len(head \o zeros \o tail) = 8
                      THEN head \o zeros \o tail ELSE Unparsable
  <2> DEFINE v4 == Octets(h[7], h[8])
             ending == IF t.v4 = <<>> THEN <<>>
                       ELSE <<Hextet(t.v4[1], t.v4[2]), Hextet(t.v4[3], t.v4[4])>>
             missing == IF t.gap THEN 8 - Len(t.head) - Len(t.tail \o ending) ELSE 0
  <2>1. /\ t.head = head /\ t.gap = (i < j) /\ t.tail = hextail
        /\ t.v4 = IF n = 8 THEN <<>> ELSE v4
    BY DEF Text6
  <2>2. v4 # <<>> /\ Hextet(v4[1], v4[2]) = h[7] /\ Hextet(v4[3], v4[4]) = h[8]
    <3>1. v4 # <<>>
      BY DEF Octets
    <3> QED  BY <1>2, <3>1, OctetsType
  <2>3. ending = last
    <3> HIDE DEF v4, t
    <3> QED  BY <2>1, <2>2
  <2>4. missing = j - i
    <3>1. Len(t.tail \o ending) = 8 - j
      <4> HIDE DEF ending, last, hextail, t
      <4>1. Len(hextail \o last) = (n - j) + (8 - n)
        BY <1>5, <1>6, ConcatProperties
      <4> QED  BY <1>1, <2>1, <2>3, <4>1
    <3>2. missing = IF i < j THEN 8 - i - (8 - j) ELSE 0
      <4> HIDE DEF ending, t, head
      <4> QED  BY <1>4, <2>1, <3>1
    <3> HIDE DEF missing
    <3>3. ~(i < j) => i = j /\ 8 - i - (8 - j) = j - i
      BY <1>1
    <3> QED  BY <1>1, <3>2, <3>3
  <2>5. ExpandV6(t) = LET x == t.head \o [k \in 1..missing |-> 0] \o (t.tail \o ending)
                      IN  IF Len(x) = 8 THEN x ELSE Unparsable
    BY DEF ExpandV6
  <2> HIDE DEF missing, ending, t
  <2> QED  BY <2>1, <2>3, <2>4, <2>5
<1> HIDE DEF head, hextail, last, zeros, t
<1>9. /\ tail \in Seq(Word) /\ Len(tail) = 8 - j
      /\ \A k \in 1..8 - j :
           tail[k] = IF k <= n - j THEN hextail[k] ELSE last[k - (n - j)]
  <2>1. /\ tail \in Seq(Word) /\ Len(tail) = Len(hextail) + Len(last)
        /\ \A k \in 1..Len(hextail) + Len(last) :
             tail[k] = IF k <= Len(hextail) THEN hextail[k]
                                            ELSE last[k - Len(hextail)]
    BY <1>5, <1>6, ConcatProperties
  <2>2. Len(hextail) + Len(last) = 8 - j
    BY <1>1, <1>5, <1>6
  <2> HIDE DEF tail
  <2> QED  BY <1>5, <2>1, <2>2
<1>10. \A k \in 1..8 - j : tail[k] = h[j + k]
  <2> HIDE DEF tail
  <2> SUFFICES ASSUME NEW k \in 1..8 - j  PROVE tail[k] = h[j + k]
    OBVIOUS
  <2>1. CASE k <= n - j
    <3>1. k \in 1..n - j
      BY <1>1, <2>1
    <3> QED  BY <1>9, <2>1, <3>1 DEF hextail
  <2>2. CASE ~(k <= n - j)
    <3>1. /\ n = 6
          /\ \/ k - (n - j) = 1 /\ j + k = 7
             \/ k - (n - j) = 2 /\ j + k = 8
      BY <1>1, <2>2
    <3>2. last[1] = h[7] /\ last[2] = h[8]
      BY <3>1 DEF last
    <3> QED  BY <1>9, <2>2, <3>1, <3>2
  <2> QED  BY <2>1, <2>2
<1> HIDE DEF tail
<1>11. head \o zeros \o tail = h
  <2>1. Len(h) = Len(head) + Len(zeros) + Len(tail)
    BY <1>1, <1>3, <1>4, <1>7, <1>9
  <2>2. \A k \in 1..Len(head) : head[k] = h[k]
    BY <1>4 DEF head
  <2>3. \A k \in 1..Len(zeros) : zeros[k] = h[Len(head) + k]
    BY <1>1, <1>4, <1>7 DEF zeros
  <2>4. \A k \in 1..Len(tail) : tail[k] = h[Len(head) + Len(zeros) + k]
    <3>1. i + (j - i) = j
      BY <1>1
    <3> QED  BY <1>4, <1>7, <1>9, <1>10, <3>1
  <2> QED  BY <1>3, <1>4, <1>7, <1>9, <2>1, <2>2, <2>3, <2>4, ThreeParts
<1> QED  BY <1>3, <1>8, <1>11 DEF t

(* Whatever way an address is written, the text begins with its first      *)
(* hextet unless that is zero.                                             *)
LEMMA FirstIsWritten ==
  ASSUME NEW h \in IPv6, NEW n \in {6, 8}, NEW i \in 0..8, NEW j \in 0..8,
         IsCut(h, n, i, j), h[1] # 0
  PROVE  /\ Text6(h, n, i, j).head # <<>>
         /\ Text6(h, n, i, j).head[1] = h[1]
<1> DEFINE head == [k \in 1..i |-> h[k]]
<1>1. 1 \in 1..i
  <2>1. ASSUME i = 0  PROVE FALSE
    <3>1. 1 \in i + 1..j
      BY <2>1 DEF IsCut
    <3> QED  BY <3>1 DEF IsCut
  <2> QED  BY <2>1
<1>2. head[1] = h[1] /\ DOMAIN head = 1..i
  BY <1>1
<1>3. head # <<>>
  BY <1>1, <1>2
<1> QED  BY <1>2, <1>3 DEF Text6

(* No internal address is let through, in any of the texts it has: neither *)
(* the shortening of zeros, nor a dotted ending, nor one of the families   *)
(* that carry an IPv4 address hides it.                                    *)
THEOREM InternalIsBlocked ==
  ASSUME NEW a \in IPv4 \cup IPv6, NEW t \in Texts(a), Internal(a)
  PROVE  IsBlockedIp(t)
<1>1. CASE a \in IPv4
  <2>1. t = Text4(a) /\ Internal4(a)
    BY <1>1 DEF Texts, Internal
  <2> QED  BY <1>1, <2>1, ClassifiesIPv4Exactly DEF Text4, IsBlockedIp
<1>2. CASE a \notin IPv4
  <2>1. PICK n \in {6, 8}, i \in 0..8, j \in 0..8 :
          t = Text6(a, n, i, j) /\ IsCut(a, n, i, j)
    <3>1. PICK c \in {6, 8} \X (0..8) \X (0..8) :
            t = Text6(a, c[1], c[2], c[3]) /\ IsCut(a, c[1], c[2], c[3])
      BY <1>2 DEF Texts
    <3> QED  BY <3>1
  <2>2. a \in IPv6 /\ Internal6(a)
    BY <1>2 DEF Internal
  <2>3. a \in Seq(Word) /\ Len(a) = 8 /\ \A k \in 1..8 : a[k] \in Word
    BY <2>2, FunctionIsSeq DEF IPv6
  <2>4. ExpandV6(t) = a /\ a # Unparsable
    <3>1. a # Unparsable
      BY <2>3 DEF Unparsable
    <3> QED  BY <2>1, <2>2, <3>1, ExpandsToAddress
  <2>5. t.family = 6
    BY <2>1 DEF Text6
  <2> SUFFICES IsBlockedV6(t)
    BY <2>5 DEF IsBlockedIp
  <2>6. CASE a = Zero6
    <3>1. n = 8 /\ i = 0 /\ j = 8
      <4>1. \A k \in 1..8 : a[k] = 0
        BY <2>6 DEF Zero6
      <4>2. i < j
        BY <2>1, <2>6, <4>1 DEF IsCut
      <4>3. n = 8
        BY <2>1, <2>6 DEF IsCut
      <4> QED  BY <2>1, <4>1, <4>2, <4>3 DEF IsCut
    <3>2. t.head = <<>> /\ t.tail = <<>> /\ t.gap /\ t.v4 = <<>>
      <4>1. \A f \in [1..0 -> Word] : f = <<>>
        BY FunctionIsSeq
      <4>2. [k \in 1..0 |-> a[k]] = <<>> /\ [k \in 1..0 |-> a[8 + k]] = <<>>
        BY <4>1
      <4>3. 8 - 8 = 0 /\ 0 < 8
        OBVIOUS
      <4> QED  BY <2>1, <3>1, <4>2, <4>3 DEF Text6
    <3> QED  BY <3>2 DEF IsBlockedV6, IsLoopbackText
  <2>7. CASE a = [Zero6 EXCEPT ![8] = 1]
    <3>1. (\A k \in 1..7 : a[k] = 0) /\ a[8] = 1
      BY <2>7 DEF Zero6
    <3>2. IsBlockedV4(Octets(a[7], a[8]))
      BY <3>1 DEF IsBlockedV4, Octets
    <3>3. EmbedsBlocked(a)
      BY <3>1, <3>2 DEF EmbedsBlocked
    <3> QED  BY <2>4, <3>3 DEF IsBlockedV6
  <2>8. CASE a[1] \in 65152..65215 \/ a[1] \in 64512..65023 \/ a[1] >= 65280
    <3> DEFINE x == a[1]
    <3>1. x \in Word
      BY <2>2 DEF IPv6
    <3>2. x \in 65152..65215 \/ x \in 64512..65023 \/ x >= 65280
      BY <2>8
    <3>3. x # 0 => t.head # <<>> /\ t.head[1] = x
      BY <2>1, <2>2, FirstIsWritten
    <3> HIDE DEF x
    <3>4. x \in 0..65535 /\ x # 0
      BY <3>1, <3>2 DEF Word
    <3>5. \/ x \div 16 \in {4072, 4073, 4074, 4075}
          \/ x \div 256 \in {252, 253, 255}
      BY <3>2, <3>4
    <3>6. \E p \in {4072, 4073, 4074, 4075, 252, 253, 255} : Begins(t, p)
      <4>1. \A p : x \div 16 = p \/ x \div 256 = p => Begins(t, p)
        BY <3>3, <3>4 DEF Begins
      <4>2. CASE x \div 16 \in {4072, 4073, 4074, 4075}
        BY <4>1, <4>2
      <4>3. CASE x \div 256 \in {252, 253, 255}
        BY <4>1, <4>3
      <4> QED  BY <3>5, <4>2, <4>3
    <3> QED  BY <3>6 DEF IsBlockedV6, FE8, FC, FF
  <2>9. ASSUME NEW p \in {Octets(a[2], a[3]), Octets(a[7], a[8])},
               StandsFor(a, p), Internal4(p)
        PROVE  IsBlockedV6(t)
    <3>1. IsBlockedV4(p)
      BY <2>3, <2>9, OctetsType, ClassifiesIPv4Exactly
    <3> DEFINE start == SubSeq(a, 1, 6)
    <3>2. \A k \in 1..6 : start[k] = a[k]
      BY <2>3, SubSeqProperties
    <3>3. EmbedsBlocked(a)
      <4>1. CASE a[1] = SixToFour /\ p = Octets(a[2], a[3])
        BY <3>1, <4>1 DEF EmbedsBlocked
      <4> HIDE DEF start
      <4>2. CASE start = Nat64 \o <<0, 0, 0, 0>> /\ p = Octets(a[7], a[8])
        <5>1. start[1] = Nat64[1] /\ start[2] = Nat64[2]
          BY <4>2 DEF Nat64
        <5> QED  BY <3>1, <3>2, <4>2, <5>1 DEF EmbedsBlocked
      <4>3. CASE /\ start \in {<<0, 0, 0, 0, 0, 0>>, <<0, 0, 0, 0, 0, FFFF>>,
                               <<0, 0, 0, 0, FFFF, 0>>}
                 /\ Octets(a[7], a[8]) # <<0, 0, 0, 0>>
                 /\ p = Octets(a[7], a[8])
        <5>1. /\ \A k \in 1..4 : a[k] = 0
              /\ a[5] \in {0, FFFF} /\ a[6] \in {0, FFFF}
          BY <3>2, <4>3
        <5>2. ~(a[7] = 0 /\ a[8] = 0)
          BY <4>3 DEF Octets
        <5> QED  BY <3>1, <4>3, <5>1, <5>2 DEF EmbedsBlocked
      <4> QED  BY <2>9, <4>1, <4>2, <4>3 DEF StandsFor, start
    <3> QED  BY <2>4, <3>3 DEF IsBlockedV6
  <2> QED  BY <2>2, <2>6, <2>7, <2>8, <2>9 DEF Internal6
<1> QED  BY <1>1, <1>2

(* I8 for every address and every answer of DNS: no request is ever sent   *)
(* to an internal address.                                                 *)
THEOREM InternalNeverDialled == Spec => []NeverDialsInternal
<1>1. IInv => NeverDialsInternal
  <2> SUFFICES ASSUME IInv, NEW d \in dialled, Internal(d.address)  PROVE FALSE
    BY DEF NeverDialsInternal
  <2>1. d.address \in Addresses /\ d.address \notin Blocked
    BY DEF IInv, TypeOK, NeverDialsBlocked
  <2>2. IsBlockedIp(TextOf[d.address])
    BY <2>1, InternalIsBlocked, AddressAssumption
  <2> QED  BY <2>1, <2>2, AddressAssumption
<1> QED  BY <1>1, ProxyInvariant, PTL
============================================================================
