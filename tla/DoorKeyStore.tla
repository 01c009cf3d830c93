---------------------------- MODULE DoorKeyStore ----------------------------
(***************************************************************************)
(* kernel.mjs makeStore: the JSON store file, and the server's in-memory   *)
(* copy of the door-key.  The file is shared by the server and by the      *)
(* operator's CLI processes (server.mjs issue / kill / show).  Every store *)
(* operation loads the whole file, changes its copy and writes the whole   *)
(* file back; another process may run between any two of those steps.      *)
(***************************************************************************)
EXTENDS Integers

CONSTANTS
  Cli,               (* the operator's CLI processes                      *)
  Tokens,            (* the modules' keys in the store, "<name>:token"    *)
  ServerRotates,     (* the keys the modules' daemons ask the server to   *)
                     (* rotate; of the shipped modules, telegram asks     *)
                     (* for github's token only                           *)
  KEY_TTL_SEC,       (* cfg.KEY_TTL_SEC, 0 = the door-key never expires   *)
  TOKEN_TTL_SEC,     (* the lifetime a module gives its token             *)
  MAX_TIME,          (* bound of the clock                                *)
  MAX_KEYS           (* bound on the door-keys ever minted                *)

ASSUME StoreAssumption ==
  /\ KEY_TTL_SEC \in Nat /\ TOKEN_TTL_SEC \in Nat
  /\ MAX_TIME \in Nat /\ MAX_KEYS \in Nat
  /\ ServerRotates \subseteq {"hmac:current"} \cup Tokens
  /\ "hmac:current" \notin Tokens /\ "server" \notin Cli

DOOR_KEY == "hmac:current"
StoreKeys == {DOOR_KEY} \cup Tokens
Processes == {"server"} \cup Cli

VARIABLES
  now,        (* nowSec()                                                 *)
  disk,       (* the store file: an entry [v, exp] for every key          *)
  torn,       (* the file is truncated: a write has begun and not ended   *)
  cache,      (* the server's dkVal, dkExp, dkLoaded                      *)
  pc,         (* where each process is in its store operation             *)
  snap,       (* the copy of the file each process is about to write      *)
  op,         (* the operation each process is in                         *)
  todo,       (* what a CLI command has still to do: to which keys        *)
  answer,     (* the server's last getDoorKey(): key and time             *)
  minted,     (* history: the door-keys minted so far are 1..minted       *)
  expiry,     (* history: the expiry each door-key was minted with        *)
  issued,     (* history: the door-keys whose `issue` has been written    *)
  retired,    (* history: the door-keys a later issue or kill replaced    *)
  writer,     (* history: the process that last wrote the door-key        *)
  disturbed   (* history: what has befallen store operations so far:      *)
              (* "overlap" of two, "crash" between truncation and write   *)

file == <<disk, torn>>
procs == <<pc, snap, op, todo>>
history == <<minted, expiry, issued, retired, writer, disturbed>>
vars == <<now, disk, torn, cache, pc, snap, op, todo, answer,
          minted, expiry, issued, retired, writer, disturbed>>

(* Door-keys are numbered as they are minted; 0 stands for "", no key.     *)
(* A module's token has the value 1.                                       *)
NoKey == 0
Absent == [v |-> 0, exp |-> 0]
EmptyFile == [k \in StoreKeys |-> Absent]

(* loadRaw: a file that does not parse is read as an empty store.          *)
Load == IF torn THEN EmptyFile ELSE disk

Expired(e) == e.exp # 0 /\ e.exp < now

(* Mutated: the expiry is computed with its sign wrong.                     *)
ExpiryForSwapped(ttl) == IF ttl = 0 THEN 0 ELSE ttl - now

ExpiryFor(ttl) == IF ttl = 0 THEN 0 ELSE now + ttl

----------------------------------------------------------------------------
(* One store operation: load and change the copy; truncate; write.         *)

(* p touches the file; another process may be inside an operation.         *)
TouchFile(p) ==
  /\ pc[p] = "idle"
  /\ disturbed' = IF \E q \in Processes : pc[q] # "idle"
                    THEN disturbed \cup {"overlap"} ELSE disturbed

(* The copy an operation is going to write back.                           *)
BeginWith(p, o, s) ==
  /\ op' = [op EXCEPT ![p] = o]
  /\ snap' = [snap EXCEPT ![p] = s]
  /\ pc' = [pc EXCEPT ![p] = "loaded"]
  /\ UNCHANGED <<now, file, cache, answer, issued, retired, writer>>

(* set(): of the door-key with a fresh value, of a token with its value.   *)
BeginSet(p, k) ==
  /\ TouchFile(p)
  /\ k = DOOR_KEY => minted < MAX_KEYS
  /\ LET ttl == IF k = DOOR_KEY THEN KEY_TTL_SEC ELSE TOKEN_TTL_SEC
         v   == IF k = DOOR_KEY THEN minted + 1 ELSE 1
     IN  /\ BeginWith(p, [do |-> "set", key |-> k],
                      [Load EXCEPT ![k] = [v |-> v, exp |-> ExpiryFor(ttl)]])
         /\ IF k = DOOR_KEY
              THEN /\ minted' = v
                   /\ expiry' = [expiry EXCEPT ![v] = ExpiryFor(ttl)]
              ELSE UNCHANGED <<minted, expiry>>

(* Mutated: only an expired entry is deleted.                              *)
BeginDelExpiredOnly(p, k) ==
  /\ TouchFile(p)
  /\ BeginWith(p, [do |-> "del", key |-> k],
               [Load EXCEPT ![k] = IF Expired(@) THEN Absent ELSE @])
  /\ UNCHANGED <<minted, expiry>>

BeginDel(p, k) ==
  /\ TouchFile(p)
  /\ BeginWith(p, [do |-> "del", key |-> k], [Load EXCEPT ![k] = Absent])
  /\ UNCHANGED <<minted, expiry>>

(* Mutated: the whole store is dropped with the expired entry.             *)
BeginGetExpiredDroppingAll(p, k) ==
  /\ TouchFile(p)
  /\ Expired(Load[k])
  /\ BeginWith(p, [do |-> "get", key |-> k], EmptyFile)
  /\ UNCHANGED <<minted, expiry>>

(* get() writes only when it finds the entry expired: it deletes it.       *)
BeginGetExpired(p, k) ==
  /\ TouchFile(p)
  /\ Expired(Load[k])
  /\ BeginWith(p, [do |-> "get", key |-> k], [Load EXCEPT ![k] = Absent])
  /\ UNCHANGED <<minted, expiry>>

(* saveRaw, first half: writeFileSync truncates the file...                *)
Truncate(p) ==
  /\ pc[p] = "loaded"
  /\ pc' = [pc EXCEPT ![p] = "truncated"]
  /\ torn' = TRUE
  /\ UNCHANGED <<now, disk, cache, snap, op, todo, answer, history>>

(* Mutated: set and del leave the cache alone.                             *)
CacheAfterUntouched(p) == cache

(* Mutated: the cache is refreshed from the file before it is written.     *)
CacheAfterTooEarly(p) ==
  IF p # "server" \/ op[p].key # DOOR_KEY \/ op[p].do = "get" THEN cache
  ELSE [val |-> disk[DOOR_KEY].v, exp |-> disk[DOOR_KEY].exp, loaded |-> TRUE]

(* Only the server process outlives the operation, so only its cache       *)
(* matters: set and del of the door-key keep it coherent.                  *)
CacheAfter(p) ==
  IF p # "server" \/ op[p].key # DOOR_KEY \/ op[p].do = "get" THEN cache
  ELSE [val |-> snap[p][DOOR_KEY].v, exp |-> snap[p][DOOR_KEY].exp,
        loaded |-> TRUE]

(* ... and second half: the whole copy is written.  If another process has *)
(* written since this one truncated, a longer text of it may remain behind *)
(* this one's, and the file does not parse.                                *)
Write(p) ==
  /\ pc[p] = "truncated"
  /\ pc' = [pc EXCEPT ![p] = "idle"]
  /\ torn' \in IF torn THEN {FALSE} ELSE BOOLEAN
  /\ disk' = snap[p]
  /\ cache' = CacheAfter(p)
  /\ IF op[p].key = DOOR_KEY /\ op[p].do \in {"set", "del"}
       THEN LET new == IF op[p].do = "set" THEN {snap[p][DOOR_KEY].v} \ {NoKey}
                       ELSE {} IN
            /\ issued' = issued \cup new
            /\ retired' = retired \cup (issued \ new)
            /\ writer' = p
       ELSE UNCHANGED <<issued, retired, writer>>
  /\ snap' = [snap EXCEPT ![p] = EmptyFile]
  /\ UNCHANGED <<now, op, todo, answer, minted, expiry, disturbed>>

----------------------------------------------------------------------------
(* The server process.                                                     *)

(* Mutated: a cached key never lapses.                                     *)
CacheHitForever == cache.loaded

CacheHit == cache.loaded /\ (cache.exp = 0 \/ now < cache.exp)

(* Mutated: a read caches the key as one that never lapses.                *)
CacheFromForgettingExpiry(s) ==
  LET e == s[DOOR_KEY] IN
  IF e = Absent \/ Expired(e)
    THEN [val |-> NoKey, exp |-> 0, loaded |-> TRUE]
    ELSE [val |-> e.v, exp |-> 0, loaded |-> TRUE]

(* What a read of the file puts in the cache.  A missing or expired key is *)
(* cached as "no key" with expiry 0, which never lapses.                   *)
CacheFrom(s) ==
  LET e == s[DOOR_KEY] IN
  IF e = Absent \/ Expired(e)
    THEN [val |-> NoKey, exp |-> 0, loaded |-> TRUE]
    ELSE [val |-> e.v, exp |-> e.exp, loaded |-> TRUE]

(* getDoorKey(), on every protected request, signed or not.                *)
GetDoorKey ==
  /\ pc["server"] = "idle"
  /\ \/ /\ CacheHit
        /\ UNCHANGED cache
        /\ UNCHANGED disturbed
     \/ /\ ~CacheHit
        /\ TouchFile("server")
        /\ cache' = CacheFrom(Load)
  /\ answer' = [key |-> cache'.val, time |-> now]
  /\ UNCHANGED <<now, file, procs, minted, expiry, issued, retired, writer>>

(* control.rotate called by a module's daemon: the door-key, or the token  *)
(* of a module.                                                            *)
ServerRotate(k) == BeginSet("server", k) /\ UNCHANGED todo

(* A module's handler reads its token.                                     *)
ServerGetToken(k) == BeginGetExpired("server", k) /\ UNCHANGED todo

NoAnswer == [key |-> NoKey, time |-> 0]
NotLoaded == [val |-> NoKey, exp |-> 0, loaded |-> FALSE]

(* The server process ends between operations and a new one starts.        *)
Restart ==
  /\ pc["server"] = "idle"
  /\ cache' = NotLoaded
  /\ answer' = NoAnswer
  /\ UNCHANGED <<now, file, procs, history>>

----------------------------------------------------------------------------
(* The operator's commands: each is a process of its own that does one     *)
(* store operation after the other, the door-key's first.                  *)

Nothing == [do |-> "none", keys |-> {}]

Start(c, do, keys) ==
  /\ pc[c] = "idle" /\ todo[c] = Nothing
  /\ todo' = [todo EXCEPT ![c] = [do |-> do, keys |-> keys]]
  /\ UNCHANGED <<now, file, cache, pc, snap, op, answer, history>>

(* `issue [name...]`: rotates the door-key, then the named modules.        *)
Issue(c) ==
  /\ minted < MAX_KEYS
  /\ \E names \in SUBSET Tokens : Start(c, "set", {DOOR_KEY} \cup names)

(* `kill`: deletes the door-key, then every module's token.                *)
Kill(c) == Start(c, "del", StoreKeys)

(* `show`: reads the door-key without changing the file, then get()s every *)
(* module's token.                                                         *)
Show(c) == Start(c, "get", Tokens)

Done(c, k) ==
  LET rest == todo[c].keys \ {k} IN
  todo' = [todo EXCEPT ![c] = IF rest = {} THEN Nothing
                              ELSE [do |-> todo[c].do, keys |-> rest]]

(* The next key of a command.                                              *)
IsNext(c, k) ==
  /\ k \in todo[c].keys
  /\ DOOR_KEY \in todo[c].keys => k = DOOR_KEY

CliOp(c, k) ==
  /\ IsNext(c, k)
  /\ Done(c, k)
  /\ \/ todo[c].do = "set" /\ BeginSet(c, k)
     \/ todo[c].do = "del" /\ BeginDel(c, k)
     \/ todo[c].do = "get" /\ BeginGetExpired(c, k)

(* A get() of an entry that has not expired writes nothing, and neither    *)
(* does a module's rotate hook that fails to mint its token.               *)
CliSkip(c, k) ==
  /\ pc[c] = "idle"
  /\ IsNext(c, k)
  /\ \/ todo[c].do = "get" /\ ~Expired(Load[k])
     \/ todo[c].do = "set" /\ k # DOOR_KEY
  /\ Done(c, k)
  /\ UNCHANGED <<now, file, cache, pc, snap, op, answer, history>>

(* A process dies inside an operation; the file stays as it is.            *)
Crash(p) ==
  /\ pc[p] # "idle"
  /\ pc' = [pc EXCEPT ![p] = "idle"]
  /\ snap' = [snap EXCEPT ![p] = EmptyFile]
  /\ todo' = [todo EXCEPT ![p] = Nothing]
  /\ IF p = "server"
       THEN cache' = NotLoaded /\ answer' = NoAnswer
       ELSE UNCHANGED <<cache, answer>>
  /\ disturbed' = IF pc[p] = "truncated" THEN disturbed \cup {"crash"}
                                         ELSE disturbed
  /\ UNCHANGED <<now, file, op, minted, expiry, issued, retired, writer>>

Tick ==
  /\ now < MAX_TIME
  /\ now' = now + 1
  /\ UNCHANGED <<file, cache, procs, answer, history>>

Init ==
  /\ now = 1
  /\ disk = EmptyFile
  /\ torn = FALSE
  /\ cache = NotLoaded
  /\ pc = [p \in Processes |-> "idle"]
  /\ snap = [p \in Processes |-> EmptyFile]
  /\ op = [p \in Processes |-> [do |-> "none", key |-> DOOR_KEY]]
  /\ todo = [p \in Processes |-> Nothing]
  /\ answer = NoAnswer
  /\ minted = 0
  /\ expiry = [v \in 1..MAX_KEYS |-> 0]
  /\ issued = {}
  /\ retired = {}
  /\ writer = "server"
  /\ disturbed = {}

ServerNext ==
  \/ GetDoorKey
  \/ Restart
  \/ \E k \in ServerRotates : ServerRotate(k)
  \/ \E k \in Tokens : ServerGetToken(k)

CliNext(c) ==
  \/ Issue(c) \/ Kill(c) \/ Show(c)
  \/ \E k \in StoreKeys : CliOp(c, k) \/ CliSkip(c, k)

Next ==
  \/ Tick
  \/ ServerNext
  \/ \E c \in Cli : CliNext(c)
  \/ \E p \in Processes : Truncate(p) \/ Write(p) \/ Crash(p)

Spec == Init /\ [][Next]_vars

----------------------------------------------------------------------------

Entries == [v : 0..MAX_KEYS \cup {1}, exp : Nat]

TypeOK ==
  /\ now \in Nat
  /\ disk \in [StoreKeys -> Entries]
  /\ torn \in BOOLEAN
  /\ cache \in [val : 0..MAX_KEYS, exp : Nat, loaded : BOOLEAN]
  /\ pc \in [Processes -> {"idle", "loaded", "truncated"}]
  /\ snap \in [Processes -> [StoreKeys -> Entries]]
  /\ op \in [Processes -> [do : {"none", "set", "del", "get"}, key : StoreKeys]]
  /\ todo \in [Processes -> [do : {"none", "set", "del", "get"},
                             keys : SUBSET StoreKeys]]
  /\ answer \in [key : 0..MAX_KEYS, time : Nat]
  /\ minted \in 0..MAX_KEYS
  /\ expiry \in [1..MAX_KEYS -> Nat]
  /\ issued \subseteq 1..minted
  /\ retired \subseteq issued
  /\ writer \in Processes
  /\ disturbed \subseteq {"overlap", "crash"}

(* The server never authenticates against a door-key past the expiry it    *)
(* was minted with, however the cache, the file, restarts, crashes and     *)
(* concurrent commands interleave (kernel.mjs 257-265): a stale copy lives *)
(* no longer than its key.                                                 *)
NoExpiredKeyServed ==
  answer.key # NoKey =>
    expiry[answer.key] = 0 \/ answer.time <= expiry[answer.key]

(* `issue` supersedes the old key and `kill` wipes it: once the command's  *)
(* write is done, no later operation of any process, on whatever key,      *)
(* brings a retired door-key back into the file, crashes or not, as long   *)
(* as no process has come in between the load and the save of another.     *)
RetiredKeyNotInFile ==
  "overlap" \notin disturbed => disk[DOOR_KEY].v \notin retired

(* The server never loads a retired door-key: what its cache may hold      *)
(* stale was loaded before the key was retired.                            *)
NeverCachesRetiredKey ==
  [][cache' # cache /\ "overlap" \notin disturbed'
       => cache'.val \notin retired']_vars

(* An issued door-key that nothing retired is in the file until it expires *)
(* ("The door-key persists across restarts", DEPLOY.md 303): a token's     *)
(* set, its deletion or the removal of an expired entry never loses it,    *)
(* as long as operations neither overlap nor die with the file truncated.  *)
IssuedKeyPersists ==
  disturbed = {} =>
    \A v \in issued \ retired :
      disk[DOOR_KEY] = [v |-> v, exp |-> expiry[v]]

(* "keep cache coherent on rotate" (kernel.mjs 243): when the door-key was  *)
(* last written by the server itself, its cache agrees with the file, or    *)
(* has found the file's key expired.                                       *)
ServerSeesOwnWrites ==
  disturbed = {} /\ cache.loaded /\ writer = "server" =>
    \/ cache.val = disk[DOOR_KEY].v
    \/ cache.val = NoKey /\ Expired(disk[DOOR_KEY])

(* README 195-200, DEPLOY.md 99-100 and 305: the way to change keys is the *)
(* CLI; after `issue` the previous door-key stops working, after `kill`    *)
(* none does.  Overlaps and crashes of store operations are left out.      *)
RetiredKeyNotServed ==
  [][answer' # answer /\ disturbed' = {} => answer'.key \notin retired]_vars

(* server.mjs 123: "Run `node server.mjs issue` to activate": a server     *)
(* asked after an issue has been written does not answer "no key" while    *)
(* that key is in the file and valid.                                      *)
IssueActivates ==
  [][(answer' \notin {answer, NoAnswer} /\ answer'.key = NoKey /\ disturbed' = {})
       => ~ \E v \in issued \ retired : disk[DOOR_KEY].v = v
                                        /\ ~Expired(disk[DOOR_KEY])]_vars

(* As long as operations neither overlap nor die half-way, the file and    *)
(* the cache implement a store whose operations are single steps.          *)
Atomic == INSTANCE AtomicStore WITH
  store <- disk, own <- (writer = "server"), calm <- (disturbed = {})
ImplementsAtomicStore == Atomic!AtomicSpec
============================================================================
