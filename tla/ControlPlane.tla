---------------------------- MODULE ControlPlane ----------------------------
(***************************************************************************)
(* The control plane: kernel.mjs control.rotate with its operator gate,    *)
(* the rotate hook and the data plane of modules/github.mjs, the long-poll *)
(* daemon of modules/telegram.mjs, the CLI's `issue`, and a module that    *)
(* uses the rotate it was given on its own account.  Their rotates run     *)
(* concurrently; the daemon's messages are redelivered until they are      *)
(* confirmed, and its cursor is lost on restart.  The store is taken as    *)
(* atomic here (DoorKeyStore refines it), and a call of core.proxy as one  *)
(* that returns (Proxy).                                                   *)
(***************************************************************************)
EXTENDS Integers, Sequences

CONSTANTS
  OPERATOR_SENDERS,   (* cfg.OPERATOR_SENDERS                             *)
  OPERATOR_CHATS,     (* cfg.OPERATOR_CHATS                               *)
  Updates,            (* the Telegram updates that may be sent            *)
  CliNames,           (* the lists of names `issue` is run with           *)
  ModuleNames,        (* those that a module on its own account asks for  *)
  Modules,            (* the loaded modules                               *)
  Hooks,              (* those with a rotate hook that does what github's *)
                      (* does; of the shipped modules, github             *)
  TTL,                (* the lifetime each caller asks for, 0 = none      *)
  DEFAULT_TTL,        (* github.mjs's 3600                                *)
  MIN_TTL,            (* github.mjs's 60                                  *)
  Lifetimes,          (* the remaining lives of the tokens GitHub mints   *)
  MAX_UPDATES,        (* bound on the updates sent                        *)
  MAX_KEYS,           (* bound on the door-keys minted                    *)
  MAX_TIME            (* bound of the clock                               *)

(* An update: whether it is the /issue gesture, and whose it is.  NoId is  *)
(* an id that Telegram did not send.                                       *)
NoId == "no id"
UpdateType == [isIssue : BOOLEAN, chatId : STRING, senderId : STRING]

(* What a caller of rotate says of who it acts for.  None is what the CLI  *)
(* says (assertion == null); Anyone is an identity without any id.         *)
NoAssertion == [chatId |-> "none", senderId |-> "none"]
Anyone == [chatId |-> NoId, senderId |-> NoId]

(* A minted token's answer without expires_at, and one that has no life    *)
(* because it is not minted but GITHUB_TOKEN.                              *)
NoExpiry == -1
Static == -2

Callers == {"daemon", "cli", "module"}

ASSUME ControlAssumption ==
  /\ Updates \subseteq UpdateType
  /\ {NoId, "none"} \cap (OPERATOR_SENDERS \cup OPERATOR_CHATS) = {}
  /\ CliNames \subseteq Seq(STRING) /\ ModuleNames \subseteq Seq(STRING)
  /\ Hooks \subseteq Modules /\ Modules \subseteq STRING
  /\ TTL \in [Callers -> Nat] /\ MIN_TTL \in Nat \ {0} /\ DEFAULT_TTL \in Nat \ {0}
  /\ Lifetimes \subseteq Nat \cup {NoExpiry}
  /\ MAX_UPDATES \in Nat /\ MAX_KEYS \in Nat /\ MAX_TIME \in Nat

VARIABLES
  now,         (* seconds                                                 *)
  env,         (* which GitHub credentials are configured                 *)
  doorKey,     (* the door-keys minted so far, the last is current        *)
  token,       (* the store's "github:token"                              *)
  rot,         (* the rotate() call of each caller                        *)
  updates,     (* the updates sent; an update's id is its index           *)
  confirmed,   (* Telegram holds the updates above this id                *)
  dpc,         (* where the daemon is in its loop                         *)
  offset,      (* its cursor                                              *)
  batch,       (* the ids of the response it has still to look at         *)
  handled,     (* history: how often this process handled each update     *)
  seen         (* history: the ids some process has finished with         *)

telegram == <<updates, confirmed>>
daemon == <<dpc, offset, batch, handled, seen>>
vars == <<now, env, doorKey, token, rot, telegram, daemon>>

(* A token: when it was stored, until when the store keeps it (0 = for     *)
(* ever), the life GitHub gave it, and the lifetime its caller asked for.  *)
NoToken == [born |-> 0, exp |-> 0, life |-> Static, asked |-> 0]

(* A call of rotate: who it is for (what operatorAuthorized was given),    *)
(* the names it was given, those left to do, by their places, and results. *)
Idle == [pc |-> "idle", who |-> NoAssertion, names |-> <<>>, todo |-> {}, results |-> {}]

----------------------------------------------------------------------------
(* control.rotate, for any of its callers.                                 *)

(* Mutated: a listed chat is enough, whoever of its members writes.        *)
AuthorizedByChat(assertion) ==
  \/ assertion = NoAssertion
  \/ assertion.senderId \in OPERATOR_SENDERS
  \/ assertion.chatId \in OPERATOR_CHATS

(* operatorAuthorized: nobody but the host says nothing of who it is.      *)
Authorized(assertion) ==
  \/ assertion = NoAssertion
  \/ assertion.senderId \in OPERATOR_SENDERS
  \/ /\ assertion.chatId = assertion.senderId
     /\ assertion.chatId \in OPERATOR_CHATS

(* Mutated: what a module says is passed on as it is.                      *)
ModuleAssertionAsIs(assertion) == assertion

(* makeCore: the rotate that modules are given never says nothing.         *)
ModuleAssertion(assertion) == IF assertion = NoAssertion THEN Anyone ELSE assertion

Identity(u) == [chatId |-> u.chatId, senderId |-> u.senderId]

KeyNames == {"door-key", "_key"}
WantKey(names) == names = <<>> \/ \E i \in DOMAIN names : names[i] \in KeyNames

(* The call's synchronous beginning: the door-key first.  What is left to  *)
(* do are the other names.                                                 *)
StartRotate(p, who, names) ==
  /\ rot[p].pc = "idle"
  /\ doorKey' = IF WantKey(names) THEN doorKey + 1 ELSE doorKey
  /\ doorKey' <= MAX_KEYS
  /\ rot' = [rot EXCEPT ![p] =
       [pc |-> "rotating", who |-> who, names |-> names,
        todo |-> {i \in DOMAIN names : names[i] \notin KeyNames},
        results |-> IF WantKey(names) THEN {<<"door-key", "minted">>} ELSE {}]]

(* The call is at its i-th name.                                           *)
AtName(p, i) == i \in rot[p].todo /\ \A j \in rot[p].todo : i <= j

(* Mutated: a hook that fails ends the call.                               *)
ResultEndingOnError(p, i, outcome) ==
  rot' = [rot EXCEPT ![p] =
    [pc |-> "rotating", who |-> rot[p].who, names |-> rot[p].names,
     todo |-> IF outcome = "minted" THEN rot[p].todo \ {i} ELSE {},
     results |-> rot[p].results \cup {<<rot[p].names[i], outcome>>}]]

(* The outcome for the i-th name; the call goes on with the next.          *)
Result(p, i, outcome) ==
  rot' = [rot EXCEPT ![p] =
    [pc |-> "rotating", who |-> rot[p].who, names |-> rot[p].names,
     todo |-> rot[p].todo \ {i},
     results |-> rot[p].results \cup {<<rot[p].names[i], outcome>>}]]

NoHook(p, i) ==
  /\ rot[p].pc = "rotating" /\ AtName(p, i)
  /\ \/ rot[p].names[i] \notin Modules /\ Result(p, i, "no_such_module")
     \/ /\ rot[p].names[i] \in Modules \ Hooks
        /\ Result(p, i, "no_rotate_hook")
  /\ UNCHANGED <<now, env, doorKey, token, telegram, daemon>>

AtHook(p, i) ==
  rot[p].pc = "rotating" /\ AtName(p, i) /\ rot[p].names[i] \in Hooks

----------------------------------------------------------------------------
(* github's rotate hook.                                                   *)

(* store.set("token", ...) with the given ttl.                             *)
SetToken(p, ttl, life) ==
  token' = [born |-> now, exp |-> IF ttl = 0 THEN 0 ELSE now + ttl,
            life |-> life, asked |-> TTL[p]]

HookStatic(p, i) ==
  /\ AtHook(p, i) /\ ~env.app
  /\ IF env.static THEN SetToken(p, TTL[p], Static) /\ Result(p, i, "minted")
                   ELSE UNCHANGED token /\ Result(p, i, "no_github_creds")
  /\ UNCHANGED <<now, env, doorKey, telegram, daemon>>

(* The App flow asks GitHub for a token, and awaits.                       *)
HookMints(p, i) ==
  /\ AtHook(p, i) /\ env.app
  /\ rot' = [rot EXCEPT ![p].pc = "minting"]
  /\ UNCHANGED <<now, env, doorKey, token, telegram, daemon>>

Minimum(a, b) == IF a <= b THEN a ELSE b
Maximum(a, b) == IF a >= b THEN a ELSE b

(* Mutated: the requested lifetime is used, whatever GitHub says.          *)
TokenTtlAsAsked(ttl, life) ==
  Maximum(MIN_TTL, IF ttl = 0 THEN DEFAULT_TTL ELSE ttl)

(* Mutated: an answer that has expired already counts as one of no life.   *)
TokenTtlOfExpired(ttl, life) ==
  LET wanted == IF life # NoExpiry
                  THEN IF ttl = 0 THEN life ELSE Minimum(ttl, life)
                  ELSE ttl
  IN  Maximum(MIN_TTL, IF wanted = 0 THEN DEFAULT_TTL ELSE wanted)

(* The store's lifetime for a token GitHub gives the life `life`.  One     *)
(* that has expired already is kept like one of unknown life.              *)
TokenTtl(ttl, life) ==
  LET wanted == IF life > 0
                  THEN IF ttl = 0 THEN life ELSE Minimum(ttl, life)
                  ELSE ttl
  IN  Maximum(MIN_TTL, IF wanted = 0 THEN DEFAULT_TTL ELSE wanted)

MintReturns(p, i) ==
  /\ rot[p].pc = "minting" /\ AtName(p, i)
  /\ \E life \in Lifetimes : SetToken(p, TokenTtl(TTL[p], life), life)
  /\ Result(p, i, "minted")
  /\ UNCHANGED <<now, env, doorKey, telegram, daemon>>

(* The mint fails: the static token if there is one.                       *)
MintFails(p, i) ==
  /\ rot[p].pc = "minting" /\ AtName(p, i)
  /\ IF env.static THEN SetToken(p, TTL[p], Static) /\ Result(p, i, "minted")
                   ELSE UNCHANGED token /\ Result(p, i, "mint_failed")
  /\ UNCHANGED <<now, env, doorKey, telegram, daemon>>

(* The hook throws (the store cannot be written): rotate catches it.       *)
HookThrows(p, i) ==
  /\ \/ AtHook(p, i) /\ ~env.app /\ env.static
     \/ rot[p].pc = "minting" /\ AtName(p, i)
  /\ Result(p, i, "rotate_failed")
  /\ UNCHANGED <<now, env, doorKey, token, telegram, daemon>>

RotateStep(p) ==
  \E i \in rot[p].todo :
    \/ NoHook(p, i) \/ HookStatic(p, i) \/ HookMints(p, i)
    \/ MintReturns(p, i) \/ MintFails(p, i) \/ HookThrows(p, i)

Finished(p) == rot[p].pc = "rotating" /\ rot[p].todo = {}

(* github's handle: what it reads from the store and sends with a request. *)
Usable == token # NoToken /\ (token.exp = 0 \/ token.exp >= now)

----------------------------------------------------------------------------
(* The daemon.                                                             *)

ROTATE_NAMES == <<"door", "github">>

(* Telegram: getUpdates confirms the updates below the offset and answers  *)
(* with some of the oldest of the others.                                  *)
Confirms == confirmed' = Maximum(confirmed, offset - 1)

PollReturns ==
  /\ dpc = "poll"
  /\ Confirms
  /\ \E last \in confirmed'..Len(updates) : batch' = confirmed' + 1 .. last
  /\ dpc' = "batch"
  /\ UNCHANGED <<now, env, doorKey, token, rot, updates, offset, handled, seen>>

(* Mutated: an error of the loop ends the daemon.                          *)
PollFailsForGood ==
  /\ dpc = "poll"
  /\ dpc' = "dead"
  /\ Confirms \/ UNCHANGED confirmed
  /\ UNCHANGED <<now, env, doorKey, token, rot, updates, offset, batch, handled, seen>>

(* The request, or its response, is lost, or makes no sense.               *)
PollFails ==
  /\ dpc = "poll"
  /\ dpc' = "backoff"
  /\ Confirms \/ UNCHANGED confirmed
  /\ UNCHANGED <<now, env, doorKey, token, rot, updates, offset, batch, handled, seen>>

BackoffEnds ==
  /\ dpc = "backoff"
  /\ dpc' = "poll"
  /\ UNCHANGED <<now, env, doorKey, token, rot, telegram, offset, batch, handled, seen>>

BatchEnds ==
  /\ dpc = "batch" /\ batch = {}
  /\ dpc' = "poll"
  /\ UNCHANGED <<now, env, doorKey, token, rot, telegram, offset, batch, handled, seen>>

IsOldest(id) == id \in batch /\ \A other \in batch : id <= other

(* Mutated: the cursor skips an update.                                    *)
AdvanceTooFar(id) == IF id >= offset THEN id + 2 ELSE offset

(* Mutated: the cursor stays on the update it has seen.                    *)
AdvanceTooLittle(id) == IF id >= offset THEN id ELSE offset

Advance(id) == IF id >= offset THEN id + 1 ELSE offset

IsGesture(u) == u.isIssue /\ u.chatId # NoId

(* Mutated: the daemon does not await the rotate.                          *)
LookAtNoAwait(id) ==
  /\ dpc = "batch" /\ IsOldest(id)
  /\ offset' = Advance(id)
  /\ batch' = batch \ {id}
  /\ IF IsGesture(updates[id]) /\ Authorized(ModuleAssertion(Identity(updates[id])))
       THEN /\ StartRotate("daemon", Identity(updates[id]), ROTATE_NAMES)
            /\ UNCHANGED <<dpc, seen>>
       ELSE /\ UNCHANGED <<doorKey, rot, dpc>>
            /\ seen' = seen \cup {id}
  /\ handled' = [handled EXCEPT ![id] = @ + 1]
  /\ UNCHANGED <<now, env, token, telegram>>

(* Looking at the next update: the cursor moves on first, then a gesture   *)
(* of the operator starts a rotate; the kernel refuses anyone else's.      *)
LookAt(id) ==
  /\ dpc = "batch" /\ IsOldest(id)
  /\ offset' = Advance(id)
  /\ batch' = batch \ {id}
  /\ IF IsGesture(updates[id]) /\ Authorized(ModuleAssertion(Identity(updates[id])))
       THEN /\ StartRotate("daemon", Identity(updates[id]), ROTATE_NAMES)
            /\ dpc' = "rotate"
            /\ UNCHANGED seen
       ELSE /\ UNCHANGED <<doorKey, rot, dpc>>
            /\ seen' = seen \cup {id}
  /\ handled' = [handled EXCEPT ![id] = @ + 1]
  /\ UNCHANGED <<now, env, token, telegram>>

(* The update the daemon's rotate is for: the last one looked at.          *)
Current == offset - 1

DaemonRotateEnds ==
  /\ dpc = "rotate" /\ Finished("daemon")
  /\ rot' = [rot EXCEPT !["daemon"] = Idle]
  /\ dpc' = "batch"
  /\ seen' = seen \cup {Current}
  /\ UNCHANGED <<now, env, doorKey, token, telegram, offset, batch, handled>>

----------------------------------------------------------------------------
(* The CLI, Telegram's users, the process's end, and time.                 *)

CliIssue ==
  /\ Authorized(NoAssertion)
  /\ \E names \in CliNames : StartRotate("cli", NoAssertion, <<"door-key">> \o names)
  /\ UNCHANGED <<now, env, token, telegram, daemon>>

(* The command prints its results, or is killed before.                    *)
CliEnds ==
  /\ rot["cli"].pc # "idle"
  /\ rot' = [rot EXCEPT !["cli"] = Idle]
  /\ UNCHANGED <<now, env, doorKey, token, telegram, daemon>>

(* A module calls the rotate it was given at start, from wherever it is,   *)
(* also from its handle.  It may say nothing of who it acts for, or name   *)
(* any identity it likes: the kernel looks at the ids, not at where they   *)
(* come from.  No shipped module but telegram calls it.                    *)
CapturedRotate ==
  /\ \E said \in {NoAssertion, Anyone} \cup {Identity(u) : u \in Updates} :
       /\ Authorized(ModuleAssertion(said))
       /\ \E names \in ModuleNames :
            StartRotate("module", ModuleAssertion(said), names)
  /\ UNCHANGED <<now, env, token, telegram, daemon>>

ModuleRotateEnds ==
  /\ Finished("module")
  /\ rot' = [rot EXCEPT !["module"] = Idle]
  /\ UNCHANGED <<now, env, doorKey, token, telegram, daemon>>

SendUpdate ==
  /\ Len(updates) < MAX_UPDATES
  /\ \E u \in Updates : updates' = Append(updates, u)
  /\ UNCHANGED <<now, env, doorKey, token, rot, confirmed, daemon>>

NotHandled == [id \in 1..MAX_UPDATES |-> 0]

(* The server process ends anywhere and a new one starts its daemon.       *)
Restart ==
  /\ dpc' = "poll" /\ offset' = 0 /\ batch' = {} /\ handled' = NotHandled
  /\ rot' = [rot EXCEPT !["daemon"] = Idle, !["module"] = Idle]
  /\ UNCHANGED <<now, env, doorKey, token, telegram, seen>>

Tick ==
  /\ now < MAX_TIME
  /\ now' = now + 1
  /\ UNCHANGED <<env, doorKey, token, rot, telegram, daemon>>

Init ==
  /\ now = 1
  /\ env \in [app : BOOLEAN, static : BOOLEAN]
  /\ doorKey = 0 /\ token = NoToken
  /\ rot = [p \in Callers |-> Idle]
  /\ updates = <<>> /\ confirmed = 0
  /\ dpc = "poll" /\ offset = 0 /\ batch = {}
  /\ handled = NotHandled /\ seen = {}

DaemonStep ==
  \/ PollReturns \/ PollFails \/ BackoffEnds \/ BatchEnds
  \/ \E id \in 1..MAX_UPDATES : LookAt(id)
  \/ RotateStep("daemon") \/ DaemonRotateEnds

Next ==
  \/ DaemonStep
  \/ \E p \in {"cli", "module"} : RotateStep(p)
  \/ CliIssue \/ CliEnds
  \/ CapturedRotate \/ ModuleRotateEnds
  \/ SendUpdate \/ Restart \/ Tick

(* The daemon's awaits return: core.proxy's calls and the back-off's timer *)
Spec == Init /\ [][Next]_vars /\ WF_vars(DaemonStep)

----------------------------------------------------------------------------

Outcomes == {"minted", "no_such_module", "no_rotate_hook", "no_github_creds",
             "mint_failed", "rotate_failed"}
TokenType == [born : Nat, exp : Nat, life : Nat \cup {NoExpiry, Static}, asked : Nat]

TypeOK ==
  /\ now \in Nat /\ doorKey \in 0..MAX_KEYS
  /\ env \in [app : BOOLEAN, static : BOOLEAN]
  /\ token \in TokenType
  /\ \A p \in Callers :
       /\ rot[p].pc \in {"idle", "rotating", "minting"}
       /\ rot[p].todo \subseteq DOMAIN rot[p].names
       /\ \A r \in rot[p].results : r[2] \in Outcomes
  /\ updates \in Seq(Updates) /\ Len(updates) <= MAX_UPDATES
  /\ confirmed \in 0..Len(updates)
  /\ dpc \in {"poll", "backoff", "batch", "rotate"}
  /\ offset \in 0..Len(updates) + 1
  /\ batch \subseteq 1..Len(updates)
  /\ handled \in [1..MAX_UPDATES -> Nat]
  /\ seen \subseteq 1..Len(updates)

(* "we advance `offset` past every update we've consumed so a given update *)
(* is delivered once" (telegram.mjs 116): lost responses and failed polls  *)
(* do not make one process act on an update twice.                         *)
HandledOnce == \A id \in 1..MAX_UPDATES : handled[id] <= 1

(* A gesture is not lost: Telegram drops an update only after some process *)
(* is through with it; a process that dies half-way leaves it to the next. *)
ConfirmedWereHandled == 1..confirmed \subseteq seen

(* Who the documents call an operator: a listed sender, or a listed chat   *)
(* that is the sender's own (kernel.mjs 687-691).                          *)
IsOperator(who) ==
  \/ who.senderId \in OPERATOR_SENDERS
  \/ who.senderId = who.chatId /\ who.chatId \in OPERATOR_CHATS

(* I12, as far as the code has it: a secret changes only in the CLI's      *)
(* rotate, or in one whose caller named an operator; the daemon names the  *)
(* sender of the very update it is looking at, across all its awaits.  A   *)
(* module that names nobody changes nothing.  That one which calls rotate  *)
(* on its own account has seen the operator it names is not promised: the  *)
(* kernel cannot tell, against its comment at 607-609.                     *)
OnlyOperatorsRotate ==
  [][doorKey' # doorKey \/ token' # token =>
       \E p \in Callers :
         /\ rot'[p] # rot[p]
         /\ p # "cli" => IsOperator(rot'[p].who)
         /\ p = "daemon" => \E id \in DOMAIN updates :
              id = offset' - 1 /\ rot'[p].who = Identity(updates[id])]_vars

(* One name that fails does not keep the others from their turn: when a    *)
(* rotate of the daemon is through, every name it asked for has an outcome.*)
EveryNameAnswered ==
  dpc = "rotate" /\ Finished("daemon") =>
    \A i \in DOMAIN ROTATE_NAMES :
      \E r \in rot["daemon"].results : r[1] = ROTATE_NAMES[i]

(* What bounds a token's use: the life GitHub gave it, if any was left,    *)
(* and what its own caller asked for; the default, if neither says.        *)
Limits(t) ==
  {n \in {t.life, t.asked} : n > 0} \cup
  (IF t.life \in {0, NoExpiry} /\ t.asked = 0 THEN {DEFAULT_TTL} ELSE {})

(* "Prefer GitHub's real expiry to size the TTL; clamp to >=60s, cap by    *)
(* requested ttl" (github.mjs 151): whichever callers await GitHub at the  *)
(* same time and whichever answer comes last, a request is sent with a     *)
(* token only within each of its limits, or the minimum.  The comment      *)
(* holds of no token that GitHub gives as expired already: that one is     *)
(* used for as long as was asked, or the default.                          *)
TokenServedWithinLife ==
  Usable => \A limit \in Limits(token) : now <= token.born + Maximum(MIN_TTL, limit)

(* "Absolutely nothing in the loop may kill the daemon" (telegram.mjs 183):*)
(* it comes back to polling from everywhere.                               *)
DaemonKeepsPolling == []<>(dpc = "poll")

(* telegram.mjs 9: an operator's /issue re-mints the kernel door-key.      *)
OperatorIssueMintsDoorKey ==
  dpc = "rotate" /\ Finished("daemon") => <<"door-key", "minted">> \in rot["daemon"].results
=============================================================================
