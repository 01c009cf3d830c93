# A TLA+ model of get-hub

get-hub is a small bridge: clients without credentials call it over HTTP with a
temporary *door-key*, it holds the credentials and makes the outbound calls. One
Node process serves requests, keeps its secrets in a JSON file, runs module
daemons, and shares the file with short-lived CLI processes. The code is
sequential text full of `await`s: what goes wrong in it goes wrong between two
steps of different actors, which is what these models are about.

Paths such as `kernel.mjs 274` are in the repository's root.

## 1. The system

| Part | State it keeps | Operations | Who calls it |
|---|---|---|---|
| **Nonce memory** (`kernel.mjs` 266-297) | insertion-ordered Map nonce → expiry | `nonceSeen`: sweep, cap, remember | `authenticate`, once per signed request |
| **Key store** (`kernel.mjs` 218-265) | JSON file; the server's cached door-key `dkVal, dkExp, dkLoaded` | `get`, `set`, `del` (each load → change → save), `getDoorKey` | requests, `rotate`, the CLI (`server.mjs` 129-170) in processes of its own |
| **Gateway** (`kernel.mjs` 759-876, `server.mjs` 80-126) | sockets | method, parse, route, authenticate, handle, answer; socket timeout | HTTP clients |
| **Outbound proxy** (`kernel.mjs` 376-508, `modules/fetch.mjs`, `modules/github.mjs` 102-132) | one call's hop, URL, pinned address, response | target checks, resolve and pin, request, redirect | module handlers, github's rotate, telegram's loop |
| **Exec** (`kernel.mjs` 514-573, `modules/run.mjs`) | one call's child process, timer, buffer | name and argument checks, path lock, spawn, timer, output, close | modules `run`, `temp` |
| **Control plane** (`kernel.mjs` 695-745, `modules/github.mjs`, `modules/telegram.mjs`) | telegram's cursor; the rotates in progress; github's token | `rotate` with the operator gate; rotate hook; long-poll loop | the daemon, the CLI and modules with a `start`, concurrently |
| **Module loader and views** (`kernel.mjs` 299-319, 623-670) | loaded modules | load in order, duplicate and collision guards, what a module sees of the environment and of the store | boot |
| **IP classifier** (`kernel.mjs` 108-209) | none | `isBlockedIp`, `expandV6` on the text of an address | proxy, for every address DNS answers with |
| Host normalization (`kernel.mjs` 97-107) | none | string cleaning | proxy, config |
| **Core factory** (`kernel.mjs` 578-617) | none | wrapping; the identity forced on a module's `rotate` | boot |
| **Configuration and boot** (`kernel.mjs` 32-95, 879-891, `server.mjs` 31-78) | `process.env`, the configuration's copy of it | `.env` line by line, `FOO_FILE` key by key, modules, daemons' start, `listen` | the server and every command |
| **Module linter** (`lint.mjs`) | none | scanners that strip text and find arguments; the gate on module names; rules | development, deployment gate |
| Secret scrubbing (`kernel.mjs` 327-346) | none | regular expressions | every log line |
| Stateless ops (`ping, echo, hash, info, ops, secure_echo`) | none | one handler each | gateway |
| Scripts, unit file | none | shell | deployment |

How they interact: a request passes the gateway, which asks the store for the
door-key (cached) and the nonce memory for single use; its handler then awaits a
proxy or exec call while other requests come in. The telegram daemon is started at
boot and never awaited; through the control plane it sets secrets in the same
store the requests read. The CLI does the same from another process: it shares
the file with the server and nothing else, in particular not the cache.

What is hard: a store operation of one process between two steps of another's;
caches that outlive what they copy; the wall clock, which two different
retention periods are measured with and which can be set back; network events in
any order; redelivered and lost Telegram updates; a process that ends anywhere;
child processes that outlive the script that was killed. `PROJECT.json` lists
each such hazard at its line with the properties that guard it.

What makes each part correct: a signed request runs once; no refused request
costs anyone their nonce; memory is bounded; a door-key is accepted while valid
and no longer; what `issue` and `kill` do is final; a protected handler runs for
a holder of the key only; an outbound call stays on its host and off private
addresses and always returns; a script never outlives its time, and an ok answer
is a complete one; an operator's gesture is acted upon once and never lost, and
nobody else's ever; a token is used within its lifetime; one failure in a rotate or in a poll does not take the rest
with it; no module sees what another keeps; a configuration value comes from where
the documents say, whatever the order of the keys; the linter's rules look at code
and at nothing else, and its gate and the loader agree.

## 2. The modules

| Module | Models | Notes |
|---|---|---|
| `NonceRegister` | *abstract*: an unbounded register of when each nonce was last accepted | what single use promises, refusals included: a nonce is refused only if it is spent or `NONCE_MAX` are |
| `AtomicStore` | *abstract*: a key store whose operations are single steps | an operation changes one entry and no other, the server's copy follows the server's own, and from the first disturbance on nothing is promised |
| `NonceRing` | `nonceSeen` | the Map is a function nonce → `[exp, at]`, `at` the insertion place. `Replay`, `Refuse`, `Remember` are the three ways through the function; `Cleaned`/`Swept` the sweep, `OverCapacity` the cap loop. Implements `NonceRegister` |
| `DoorKeyStore` | `makeStore`'s file and cache, `rotate`'s and the modules' store calls, the CLI | one file operation is three steps: `Begin…` (load and change the copy), `Truncate`, `Write` (`writeFileSync` truncates first). `GetDoorKey` is the cached read. Implements `AtomicStore` while it is not disturbed |
| `Gateway` | `handleRequest`, `authenticate`, the server callback | composes `NonceRing` (instance `Ring`). `Arrive…` is everything up to the first `await`: Node runs it without giving way |
| `Proxy` | `makeProxy`, the handlers of `op=fetch` and `op=github` | one action per event: `Headers`, `Data`, `End`, `Lost`, `Close`, `Timeout`; `Settle` is what the loop does with a hop's response |
| `Exec` | `makeExec`, the handler of `op=run` | script, what it leaves behind, timer and the two pipes as independent actors; `left` is the set of pipes that left-over processes hold |
| `ControlPlane` | `control.rotate`, github's hook, telegram's loop, the CLI's `issue`, a module that rotates on its own account | `rot[p]` is one rotate call's program counter, whom it is for, and results, for the daemon, the CLI and a module. `CapturedRotate` is the module's call, with any identity or none |
| `IpClassifier` | `isBlockedIp`, `expandV6` | an address is its octets or hextets; what the classifier is given is its *text* (where `::` is, whether the tail is dotted), and an address has several. `Internal` is the reference: the blocks as the documents name them, and the IPv6 forms that carry an IPv4 address |
| `ProxyAddresses` | the composition of the two: `Blocked` is what the classifier makes of the text DNS gives | |
| `ModuleLoader` | `loadModules`, `envFor`, `moduleView`, the linter's gate on a directory's names | names and keys are sequences of characters, because what one begins another with is the whole question; which files there are is chosen in `Init` |
| `Boot` | `loadDotEnv`, `loadConfig`, `build`, `boot`, `serve` up to `listen` | extends `ModuleLoader`: the loader's steps are one phase of a process. The keys of the environment and the daemons' start jobs come in any order; a daemon's start never returns |
| `LintScan` | `stripCommentsAndStrings`, `stripCommentsOnly`, `matchDelim`, `topLevelFirstArg`, `containsTopLevelPlus` | a *writer* builds every short text by JavaScript's lexical rules and remembers what each character is; the scanners have to find the same out. Each loop is a recursive function: what it has after n rounds |
| `NonceRingProofs`, `DoorKeyStoreProofs`, `GatewayProofs`, `ProxyProofs`, `ExecProofs`, `ControlPlaneProofs`, `ModuleLoaderProofs`, `LintScanProofs` | theorems | see section 4 |
| `MC…` | the definitions the configurations give TLC | |

`ControlPlane` takes the store as atomic and a proxy call as one that returns;
`DoorKeyStore` and `Proxy` are where those two are looked at: `StoreIsAtomic` says until
when the first may be assumed, `CallReturns` is the second. `Gateway` lets
the door-key change at any time; `DoorKeyStore` says when it does. `NonceRing`'s clock
may be set back (`CLOCK_STEPS_BACK`); `monotone` remembers whether it has been, since the
process began, and the properties that need a forward clock say so.

A definition preceded by a comment that starts with "Mutated:" is a plausible bug
in the definition after it. None is used by a specification; they show that the
property they are listed with in `PROJECT.json` would notice.

## 3. What is model-checked

| Run | Result | Shows |
|---|---|---|
| `nonce_ring` | holds | under a clock that may be set back: size ≤ cap, no live entry is dropped; until it is set back, the Map implements the single-use register: what is accepted and what is refused |
| `store` | holds | server and CLI interleaved step by step, dying inside writes: no expired key is ever served; as long as no two operations overlap, no retired key is in the file or newly cached; if none dies half-way either, an issued key persists, the server sees its own writes, and the store implements one whose operations are single steps |
| `kill_live` | **violated** | a running server goes on accepting a retired key from its cache |
| `wake_up` | **violated** | a server that cached "no key" does not notice `issue` |
| `gateway` | holds | signed requests run at most once; protected handlers are authenticated; nonces are taken by accepted requests only; replay refusals have a reason |
| `nonce_outlived` | **violated** | with default retention, a request whose `ts` is ahead of the server's clock runs twice |
| `proxy` | holds | with addresses at the edges of the blocks, in the text DNS gives: never an internal address, never another host, github's token to GitHub only, whole or flagged bodies, every call returns |
| `exec` | holds | bounded buffer, complete ok answers, an answer unless a left-over process goes on holding stdout or stderr |
| `control_plane` | holds | updates handled once per process and never lost, every name answered; secrets change only for the CLI and for callers that name an operator, of which the daemon names the sender of its update; a token is used within each of its limits; the daemon keeps polling |
| `boot` | holds | loaded modules share no variable and no store key; the lint gate and the loader give one verdict; each configuration value comes from where it should, in whatever order keys are looked at; a server whose modules fit reaches `listen` with every daemon's start called |
| `lint_scan` | holds | of every text of six pieces the stripped views show the code, all of it, at its place, and nothing else; a call's arguments end where they should |
| `operator_door_key` | **violated** | the operator's `/issue` leaves the door-key as it was |

The four violations are disagreements between the code and what its texts say;
`PROJECT.json` "findings" quotes both sides. In short:

* *kill_live*: `getDoorKey` answers from memory until its copy's TTL lapses, and
  `set`/`del` refresh the copy of their own process only. `kill` and `issue` run in
  another process, so the server takes the old key until it expires or is restarted
  (for ever, with `KEY_TTL_SEC=0`).
* *wake_up*: the absence of a key is cached with expiry 0, which means "never".
* *nonce_outlived*: `|now - ts| ≤ TS_WINDOW_SEC` is two-sided, so a request stays
  acceptable up to twice the window after it was first accepted, while its nonce is
  kept for one window. A retention of twice the window is enough.
* *operator_door_key*: the daemon asks for `door`, the kernel knows `door-key` and
  `_key`.

Smaller disagreements met while reading, without a run: a store operation that
loaded the file before a CLI command and saves after it brings back what the
command removed (TLC shows it at once when the condition on `disturbed` is
dropped from `RetiredKeyNotInFile`); exec's timeout kills the script and not what it started, so a
call whose script left a process holding its stdout or its stderr has no answer (the
exception in `AnswersOnceReleased`); `EXEC_MAX_OUT` counts UTF-16 code units, `README.md` 268
says bytes; `truncated` is set when the output is exactly the cap; SPEC.md 160 says a
degraded request to a sleeping server gets `no_sig`, it gets `no_secret_server`;
`.env.example` 59 says the nonce memory evicts its oldest entry, it refuses the new
one; with `NONCE_MAX=0` it keeps one entry, so the bound is max(1, `NONCE_MAX`).
Three more are about what the properties of `boot` and `control_plane` say:

* SPEC.md 132 gives the boot phase as "for each module, `await module.start?.(core)`", where
  SPEC.md 124 has a `start` that "runs forever". The code (`kernel.mjs` 881-888) does not
  await, and says why. `ServerComesUp` is stated of the code; its mutant
  `ListenAwaited` is the boot of SPEC.md 132, which does not come up.
* The comment at `github.mjs` 151, "Prefer GitHub's real expiry to size the TTL; clamp to >=60s,
  cap by requested ttl", holds of no token that GitHub gives as expired already (the server's
  clock is ahead, say): `secs > 0` fails, and the token is stored as if its life were unknown, for
  the asked lifetime or 3600 seconds, and used until then. `TokenServedWithinLife` bounds
  such a token by what was asked or the default (`Limits`), and every token by the minimum
  where that is more: a lifetime below 60 s is no cap.
* The comment at `kernel.mjs` 607-609 says that a `handle` that kept a `rotate` "cannot
  self-authorize, so it can never mint". What the code ensures (611-612) is that a module cannot
  pass for the host by naming nobody. An identity that a module names goes to
  `operatorAuthorized` as it is, so one that names an operator's ids rotates, whether or not it
  has seen that operator; SPEC.md 280 (I12) counts on modules for that. `OnlyOperatorsRotate`
  says what remains: no secret changes for a module that names nobody, or no operator.

### Bounds, and why they are enough

* *Nonces*: 4 nonces over a cap of 2 make every combination of stale own entry,
  expired head, full Map and replay; retention 2 and time up to 6 let a nonce expire
  and return twice. In the gateway a memory of one and two nonces makes refusal at
  the cap and reuse after expiry happen. The nonce theorems have no bounds.
* *Store*: a server and one CLI process (each command is a process that does one
  operation after the other; two commands at once add nothing to what a server and
  a command do to each other's loads and saves), one module token, 2-3 door-keys,
  time past the expiry of the first. `disturbed` is a history variable: it says
  whether two operations have overlapped and whether a process has died inside one,
  and the properties that the code promises only to an undisturbed store say so.
* *Gateway*: two sockets, one request for every outcome of `authenticate` and
  `handleRequest`, and two requests that share a nonce.
* *Proxy*: 2 redirects, sixteen addresses (three public ones, edges of the blocks, and
  one for each way an IPv6 address carries an IPv4 one), hosts on and off
  the list and a literal one, a cap of 2 with chunks of 1 and 2 over bodies of 0 to 4
  and without end: below, at and over the cap. DNS gives any set of addresses at any hop.
* *Exec*: a cap of 3, chunks of 1 and 2, 6 characters in all: the cap is met exactly
  and overrun by one.
* *Control plane*: two updates of four kinds, one door-key, github tokens that live
  for less than the minimum, more than asked for, not at all and unknown; callers that ask
  for a lifetime and callers that do not. The names a rotate is given include one that is no hook
  and one that is no module. A module on its own account asks for the door-key in the run, for
  any names in the theorems, and says that it is for nobody, for anyone, or for any sender of an update.
* *Module loader*: three files, each of them skipped, broken in any way or a module
  with a name of one or two characters, or one of three: names that are equal, equal once
  "-" is "_", contained in one another, and unrelated, in every order. The loader's
  theorems have no bounds.
* *Boot*: every such directory under one environment, and for one directory every
  environment over `A`, `A_FILE` and `A_FILE_FILE` with values that are empty, plain, or the
  path of a readable file (one of which contains another's path), with every `.env` of
  up to two lines, an ignored one among them; and every chain of files that name files
  up to `A_FILE_FILE_FILE`; for the server and for a command.
* *Linter*: six pieces, that is up to eleven characters: enough for a call with a
  string in it, a comma inside or after the string, and its closing parenthesis; for
  an escape followed by its quote; and for one kind of literal after another.

`MAX_TIME`, `MAX_KEYS`, `MAX_UPDATES`, `MAX_BODY`, `MAX_CHUNK`, `MAX_OUTPUT` and `MAX_PIECES` exist for
the checker; the code has none of them.

### Fairness

* `Gateway`: none. A handler need not end, and `s.setTimeout` (`server.mjs` 114) is a timer of
  inactivity that the client's bytes reset, so a socket need not time out either. That
  each request is answered or its socket freed is therefore not claimed.
* `Proxy`: the resolver answers, time passes (`Silence`), the idle timer fires if
  nothing came, and a destroyed response emits "close". Nothing is assumed of the upstream: it may
  send for ever. Activity on the socket is taken to be bytes of the body.
* `Exec`: the file system answers and a process is spawned or not; the timer fires;
  "close" is delivered when the script has ended and both its pipes, stdout and stderr, are
  released.
  Nothing is assumed of scripts or of what they leave behind.
* `ControlPlane`: the daemon takes its next step: its awaits are proxy calls, which
  return (`CallReturns`), and a timer.
* `Boot`: the process takes its next step. Up to `listen` it waits for nothing outside:
  files are read synchronously, modules are imported, and a daemon's start is called
  but not awaited.

## 4. What is proved

With TLAPS, for every value of the constants that meets the named assumptions.

**Nonce memory** (`NonceRingProofs`, from `NonceAssumption`: cap and retention are
naturals; the set of nonces need not be finite). `TypeCorrect`;
`SizeAlwaysBounded` and `NeverEvictsLive` hold for every clock. With a clock that
does not step back, `OldestExpiresFirst`, `LiveAlwaysRemembered`,
`RefusalsJustified` and `RingImplementsRegister`. The inductive invariant is
`TypeOK`, `PlacesInPast` (each entry's place is before the next one's) and
`InsertionOrderIsExpiryOrder`: the sweep stops at the first live entry and the cap
loop looks at the front entry only, so neither `LiveNoncesRemembered` nor
`RefusalJustified` is inductive without knowing that the front expires first.
`SizeBounded` alone needs that a Map with a dead oldest entry is not left at the
cap by the sweep, which holds in any order: this is why it survives a clock set back.
That a *refusal* is one the register may give rests on `EntriesAreTaken` as well: every
entry of the Map carries the expiry of its nonce's last acceptance, so that a Map full
of live entries is `NONCE_MAX` spent nonces (`RefusalHasReason`).

**Gateway** (`GatewayProofs`, from `GatewayAssumption`, for any sockets, requests and
keys). `GatewayUsesRing`: every step of the gateway is a step of the nonce memory or
leaves it alone, so that what is proved there holds here. From it
`RetainedLongEnoughIsSingleUse`: if `NONCE_TTL_SEC ≥ TS_WINDOW_SEC + min(SKEW_AHEAD,
TS_WINDOW_SEC)`, a signed request is let in at most once. The invariant (`AcceptInv`) ties
three retention periods together: the nonce of a request that was let in was taken no
earlier than its timestamp less what a timestamp may be ahead; so when the memory has
forgotten it, the timestamp has left the window. `TwiceTheWindowIsEnough` is the corollary an
operator can use; the run `nonce_outlived` is what happens with the default, which
does not meet the condition for a client whose clock is ahead. `RefusalsHaveReason` takes
`RefusalHasReason` from the memory: a valid signed request is turned away as a replay only for
a nonce that was accepted within its retention, or with `NONCE_MAX` of them. `AuthBeforeHandle` (a
protected handler runs for a request that carried the key of its arrival),
`NoNonceBurnt` and `GatewayTypeCorrect` need no condition.

**Key store** (`DoorKeyStoreProofs`, from `StoreAssumption`, for any number of CLI
processes, whatever overlaps and whoever dies). `ExpiredKeyNeverServed`: the
invariant says that *every* copy of a door-key, in the file, in a process's
snapshot or in the cache, carries the expiry it was minted with; a stale copy is
then no longer-lived than its original. `RetiredKeyNeverReturns` and
`CacheNeverTakesRetiredKey`: as long as no two operations have overlapped, at most one
process holds a snapshot, and neither the file nor that snapshot has a retired key
(`NoneRetired`); a crash can empty the file and cannot bring a key back.

While no operation overlaps another and none dies half-way, more holds (`CalmInv`). The
argument is that then one process at most is inside an operation, that what it is going to write
differs from the file in one entry (`OneEntryAtATime`), and that no operation on another
entry, nor a mere look at it, removes the door-key's (`GetsTokensOnly`): so the write is the
operation. From it `StoreIsAtomic` (the refinement of `AtomicStore`, for any number of
processes, with load and truncate as steps that change nothing), `IssuedKeyStays`,
`OwnWritesAreSeen`, and `OwnKeyIsServed`: if the server was the last to change the door-key,
what it authenticates with is the key of the file. `AloneRetiresAtOnce` and
`AloneActivatesAtOnce` are the two statements that `kill_live` and `wake_up` violate, proved
for an undisturbed server with no second process: they need the CLI to fail.

**Outbound proxy** (`ProxyProofs`, from `ProxyAssumption`): `BlockedNeverDialled`,
`CredentialNeverLeavesHost`, `HopsAlwaysBounded`, `BodyAlwaysWholeOrFlagged`, whatever DNS
answers and whatever the upstream sends. While a call is under way its URL's
host is the caller's and on the list, it has sent one request per hop so far, and
it was made for GitHub if it carries github's token (`OnCourse`); what has been kept
of a body is what arrived up to the cap, and a response that was cut says so (`KeptSoFar`).

**IP classifier** (`ProxyProofs`, second half, from `AddressAssumption`): `ClassifiesIPv4Exactly`:
of all 2^32 IPv4 addresses the classifier blocks those of the internal blocks and no
others. `InternalIsBlocked`: in every text DNS may give for it, every internal IPv4
or IPv6 address is blocked, and every IPv6 address that carries an internal IPv4 one; the lemma it
rests on says that `expandV6` undoes the writing, whichever run of zeros was
shortened and whether or not the tail is dotted. With `BlockedNeverDialled` this gives
`InternalNeverDialled` for the composition.

**Exec** (`ExecProofs`): `ExecTypeCorrect` (with the buffer's bound: one chunk over
the cap) and `OkIsComplete`. What has been kept is what was written up to the cap
(`Kept`), and which of child, timer and answer can be under way together
depends on the call's phase (`Phases`).

**Control plane** (`ControlPlaneProofs`, from `ControlAssumption`, for any operators,
updates, modules and lifetimes). `UpdatesHandledOnce` and `NoUpdateLost` rest on where the cursor
stands: everything below it was handled once and is finished with, except the
update whose rotate is under way, and a response's ids lie above it without a gap
(`CursorInv`, `SeenInv`); a restart loses the cursor and the handling counts, and
what Telegram holds confirmed was finished before. `OperatorsRotate` and `RotateAnswersAll` rest on
`RotateInv`: a rotate of the daemon runs for the operator who sent the update it is at, and owes an
answer only for names still to do; a rotate of a module runs for an operator, because
whatever a module says, `Authorized` is never asked about nobody (`OnlyOperatorsAuthorized`).
`TokenNotOutlived`: a stored token's expiry lies within each of its limits, or the minimum
(`WithinLife`); its three limits are those a token can have (`Limits`: the life it was given if any was
left, what its own caller asked for, and the default where neither says anything), and the lemma
`TokenTtlBound` is the case distinction of github's hook. `ControlTypeCorrect`.

**Module loader** (`ModuleLoaderProofs`, from `LoaderAssumption`, for every set of
files, names and keys): `EnvViewsAlwaysDisjoint`, `StoreViewsAlwaysDisjoint`,
`VerdictAlwaysIgnoresOrder`, `GateAlwaysAgrees` (the linter compares names over the whole
directory, the loader file by file: one verdict). Two prefixes of one key are comparable, so modules that share
a variable collide in the guard's sense, and the guard has compared every
pair of loaded modules. Store keys are told apart by the first ":", which a
name cannot contain. `BootLoads`: a booting process implements the loader, so that this
holds of the server and of every command (`BootKeepsViewsApart`).

**Boot and configuration** (same module, from `BootAssumption`). `BootTypeCorrect`.
`ConfigAlwaysPrecedes`: for every environment, `.env`, set of readable files and order of
the keys. The invariant (`ConfigInv`) says of the environment what the lines read so far have
made of it (`EnvSoFar`), and of each key that has been looked at that its value is
settled (`SettledKey`). The proof found an earlier statement of the property false: with
`FOO_FILE_FILE_FILE` given, `FOO_FILE_FILE` is made of it, then `FOO_FILE` of that, or not, as
the keys come; the property was corrected and the chain added to the run.
`OnlyFittingModulesEverRun` is the safety half of `ServerComesUp`: a process dies of its
modules exactly when they do not fit, and no daemon runs beside one that was refused.

**Module linter** (`LintScanProofs`, from `ScanAssumption`: any number of pieces). `ViewsAlwaysExact`: of
every text, of any length, that the writer can write, each stripped view has the code (the second
one the strings too) at its place and blanks elsewhere. There is no induction over the text in
the proof: the induction is along the writer's steps. The invariant (`ReadsOn`) says that
*whatever is written next*, the scanner gets, after some number of rounds, to the end
of what there is, in the state the writer left it in and with that much of the view right;
a piece then adds one round, a regular expression's first two adding two (`PieceByPiece`). One
lemma per kind of piece says what a round makes of it. The scanner that copies strings
does not look for regular expressions, so what is said of it leaves those out, as the property does.

`ArgumentsAlwaysFound` is proved in the same way for the scanner of arguments, which reads the raw
text and stops at what it finds: if no comma (or plus) at depth 0 has been written, it passes
over all that there is, with the writer's depth of brackets and in the writer's quotes, and so
it did up to every character of code before (`PassesCode`, `PassesPiece`). So it stops at
the first one (`FindsFirst`). `matchDelim` counts brackets in the stripped view; by `ViewsInv`
these are the code's, and where the depth falls below zero for the first time it is -1
(`DelimIsMatched`).

Out of the prover's reach, and so checked by TLC only: liveness under fairness
(`CallReturns`, `AnswersOnceReleased`, `DaemonKeepsPolling`, and that
the server of `ServerComesUp` does come up). Every other property of a passing run is a
theorem; what the theorems do not cover is what the models leave out (section 5).

## 5. What is not modelled

* Host and URL parsing (`normalizeHost` is string cleaning and the URL parser), HMAC,
  secret scrubbing: functions of text. `Proxy` takes a URL as the flaws the code tests for and
  `ALLOW_HOSTS` as normalized; `Gateway` takes a signature as the key it was made with.
* How numbers in the environment are parsed (`intEnv`), and how a line of `.env`
  is split and unquoted: a line is a key and a value, or one to be ignored. A `FOO_FILE`
  that itself comes from a `FOO_FILE_FILE` may be expanded or not, as the keys come: of
  such a FOO the property says only that it is empty or what the file has.
* Of the classifier: it blocks more than `Internal` names (a short first group such
  as `ff::`, which it reads as a block's prefix; both places of the marker `ffff`); that it
  blocks too much for IPv6 is not a property. NAT64 is `64:ff9b::/96`.
* Of the linter: the rules, which are lists of regular expressions over the stripped
  views. `LintScan`'s writer writes no template with `${}`, no division after a string
  or another division, and no regular expression after a keyword or ")": the scanners
  guess there and the code's comments say so. `lintExecCalls` looks for a first argument in the raw text,
  in which it tells strings from code but neither comments nor regular expressions;
  the property leaves such texts out.
* The core factory beyond the identity it forces on `rotate` and the views it gives:
  wrapping without state.
* The stateless ops: for the gateway any handler is one that answers, throws, or
  does not come back. A handler that goes on after its socket timed out is not followed further.
* Degraded `key=` requests can be replayed by design; only signed ones are counted.
* Request bodies, headers and logs; the unit file and its restarts (a restart is an
  action of the models that have something to lose in it).

## 6. Plan

Done, in this order: nonce memory with its abstract register; key store with its abstract
store; gateway; proxy; exec; control plane; module loader; then the IP classifier and its
composition with the proxy, boot and configuration, the linter's scanners and gate; and a
theorem for each safety property of the passing runs.

Left, in the order of what each would add:

1. Two CLI processes at once in a run (the theorems have any number), and `kill` cut short between two keys.
