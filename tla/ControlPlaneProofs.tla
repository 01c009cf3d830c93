------------------------- MODULE ControlPlaneProofs -------------------------
(***************************************************************************)
(* ControlPlane's safety properties, for any operators, updates, modules   *)
(* and lifetimes.  The inductive invariant says where the cursor stands    *)
(* (everything below it has been handled once and is finished, but for the *)
(* update whose rotate is under way), on whose behalf a rotate of the      *)
(* daemon runs and what it still owes, and how long a stored token lives.  *)
(***************************************************************************)
EXTENDS ControlPlane, TLAPS

(* The calls are records of the shape of Idle.                             *)
RotShape ==
  /\ DOMAIN rot = Callers
  /\ \A p \in Callers : DOMAIN rot[p] = {"pc", "who", "names", "todo", "results"}

(* What is below the cursor was handled once, what is above never; the     *)
(* ids of a response are above it.                                         *)
CursorInv ==
  /\ \A id \in 1..MAX_UPDATES : handled[id] <= 1 /\ (id >= offset => handled[id] = 0)
  /\ \A id \in batch : id >= offset

(* Whatever comes before the cursor, before an id of the response or up to *)
(* the confirmed id is finished with, but for the rotate's own update.     *)
SeenInv ==
  /\ 1..confirmed \subseteq seen
  /\ \A j \in 1..offset - 1 : j \in seen \/ (dpc = "rotate" /\ j = Current)
  /\ \A id \in batch : \A j \in 1..id - 1 :
       j \in batch \/ j \in seen \/ (dpc = "rotate" /\ j = Current)

(* The daemon's rotate is for an operator's update, and owes an answer for *)
(* each of its names that is still to do; a module's is for an operator.   *)
RotateInv ==
  /\ dpc # "rotate" => rot["daemon"].pc = "idle"
  /\ dpc = "rotate" =>
       /\ Current \in 1..Len(updates) /\ IsOperator(Identity(updates[Current]))
       /\ rot["daemon"].who = Identity(updates[Current])
       /\ rot["daemon"].names = ROTATE_NAMES
       /\ \A i \in DOMAIN ROTATE_NAMES :
            \/ i \in rot["daemon"].todo
            \/ \E r \in rot["daemon"].results : r[1] = ROTATE_NAMES[i]
  /\ rot["module"].pc # "idle" => IsOperator(rot["module"].who)

(* A token is not kept beyond any of its limits, or the minimum.           *)
WithinLife(t) ==
  \A limit \in Limits(t) : t.exp # 0 /\ t.exp <= t.born + Maximum(MIN_TTL, limit)

ControlInvariant ==
  TypeOK /\ RotShape /\ CursorInv /\ SeenInv /\ RotateInv /\ WithinLife(token)

----------------------------------------------------------------------------
(* Lemmas about the operators.                                             *)

(* What a module says is never taken for the host's silence: whom the      *)
(* kernel lets rotate is an operator, or says to be one.                   *)
LEMMA OnlyOperatorsAuthorized ==
  /\ \A said : Authorized(ModuleAssertion(said)) => IsOperator(ModuleAssertion(said))
  /\ \A u : Authorized(ModuleAssertion(Identity(u))) => IsOperator(Identity(u))
<1>1. Anyone # NoAssertion /\ ~Authorized(Anyone)
  <2>1. Anyone.chatId = NoId /\ Anyone.senderId = NoId /\ NoAssertion.chatId = "none"
    BY DEF Anyone, NoAssertion
  <2>2. NoId # "none"
    BY DEF NoId
  <2>3. NoId \notin OPERATOR_SENDERS /\ NoId \notin OPERATOR_CHATS
    BY ControlAssumption
  <2> QED  BY <2>1, <2>2, <2>3 DEF Authorized
<1>2. ASSUME NEW said, Authorized(ModuleAssertion(said))
      PROVE  ModuleAssertion(said) = said /\ IsOperator(said)
  <2>1. said # NoAssertion /\ ModuleAssertion(said) = said
    BY <1>1, <1>2 DEF ModuleAssertion
  <2>2. Authorized(said)
    BY <1>2, <2>1
  <2>3. IsOperator(said)
    BY <2>1, <2>2 DEF Authorized, IsOperator
  <2> QED  BY <2>1, <2>3
<1>3. ASSUME NEW said, Authorized(ModuleAssertion(said))
      PROVE  IsOperator(ModuleAssertion(said))
  <2>1. ModuleAssertion(said) = said /\ IsOperator(said)
    BY <1>2, <1>3
  <2> QED  BY <2>1
<1>4. ASSUME NEW u, Authorized(ModuleAssertion(Identity(u)))  PROVE IsOperator(Identity(u))
  BY <1>2, <1>4
<1> QED  BY <1>3, <1>4

(* The store's lifetime for a token is positive and within each limit, or  *)
(* the minimum.                                                            *)
LEMMA TokenTtlBound ==
  ASSUME NEW ttl \in Nat, NEW life \in Lifetimes
  PROVE  /\ TokenTtl(ttl, life) \in Nat \ {0}
         /\ life > 0 => TokenTtl(ttl, life) <= Maximum(MIN_TTL, life)
         /\ ttl > 0 => TokenTtl(ttl, life) <= Maximum(MIN_TTL, ttl)
         /\ life <= 0 /\ ttl = 0 => TokenTtl(ttl, life) <= Maximum(MIN_TTL, DEFAULT_TTL)
<1>1. MIN_TTL \in Nat \ {0} /\ DEFAULT_TTL \in Nat \ {0} /\ life \in Nat \cup {-1}
  BY ControlAssumption DEF NoExpiry
<1> QED  BY <1>1 DEF TokenTtl, Maximum, Minimum

LEMMA SetTokenWithinLife ==
  ASSUME now \in Nat, NEW p \in Callers, NEW ttl \in Nat,
         NEW life \in Nat \cup {NoExpiry, Static}, SetToken(p, ttl, life),
         life > 0 => ttl # 0 /\ ttl <= Maximum(MIN_TTL, life),
         TTL[p] > 0 => ttl # 0 /\ ttl <= Maximum(MIN_TTL, TTL[p]),
         life \in {0, NoExpiry} /\ TTL[p] = 0 =>
           ttl # 0 /\ ttl <= Maximum(MIN_TTL, DEFAULT_TTL)
  PROVE  token' \in TokenType /\ WithinLife(token')
<1>1. /\ MIN_TTL \in Nat /\ DEFAULT_TTL \in Nat /\ TTL[p] \in Nat
      /\ life \in Nat \cup {-1, -2}
  BY ControlAssumption DEF NoExpiry, Static
<1>2. /\ token'.born = now /\ token'.life = life /\ token'.asked = TTL[p]
      /\ token'.exp = (IF ttl = 0 THEN 0 ELSE now + ttl)
  BY DEF SetToken
<1>3. token' \in TokenType
  BY <1>1 DEF SetToken, TokenType
<1>4. ASSUME NEW limit \in Nat, ttl # 0 /\ ttl <= Maximum(MIN_TTL, limit)
      PROVE  token'.exp # 0 /\ token'.exp <= token'.born + Maximum(MIN_TTL, limit)
  <2>1. Maximum(MIN_TTL, limit) \in Nat
    BY <1>1 DEF Maximum
  <2>2. token'.exp = now + ttl
    BY <1>2, <1>4
  <2> QED  BY <1>2, <1>4, <2>1, <2>2
<1>5. ASSUME NEW limit \in Limits(token')
      PROVE  limit \in Nat /\ ttl # 0 /\ ttl <= Maximum(MIN_TTL, limit)
  <2>1. \/ limit = life /\ life > 0
        \/ limit = TTL[p] /\ TTL[p] > 0
        \/ limit = DEFAULT_TTL /\ life \in {0, NoExpiry} /\ TTL[p] = 0
    BY <1>2, <1>5 DEF Limits
  <2> QED  BY <1>1, <2>1
<1>6. WithinLife(token')
  BY <1>4, <1>5 DEF WithinLife
<1> QED  BY <1>3, <1>6

----------------------------------------------------------------------------
(* A step of a rotate.                                                     *)

(* It ends the turn of one name or begins a mint; the token stays, or is   *)
(* stored with a lifetime that fits its life.                              *)
LEMMA RotateStepEffect ==
  ASSUME TypeOK, NEW p \in Callers, RotateStep(p)
  PROVE  /\ rot[p].pc # "idle"
         /\ UNCHANGED <<now, env, doorKey, telegram, daemon>>
         /\ \/ rot' = [rot EXCEPT ![p].pc = "minting"] /\ token' = token
            \/ \E i \in rot[p].todo, o \in Outcomes : Result(p, i, o)
         /\ token' = token \/ (token' \in TokenType /\ WithinLife(token'))
<1> PICK i \in rot[p].todo :
      \/ NoHook(p, i) \/ HookStatic(p, i) \/ HookMints(p, i)
      \/ MintReturns(p, i) \/ MintFails(p, i) \/ HookThrows(p, i)
  BY DEF RotateStep
<1>1. now \in Nat /\ TTL[p] \in Nat /\ MIN_TTL \in Nat
  BY ControlAssumption DEF TypeOK
<1>9. ASSUME SetToken(p, TTL[p], Static)  PROVE token' \in TokenType /\ WithinLife(token')
  <2>1. Static \in Nat \cup {NoExpiry, Static} /\ ~(Static > 0) /\ Static \notin {0, NoExpiry}
    BY DEF Static, NoExpiry
  <2>2. TTL[p] > 0 => TTL[p] # 0 /\ TTL[p] <= Maximum(MIN_TTL, TTL[p])
    BY <1>1 DEF Maximum
  <2> QED  BY <1>1, <1>9, <2>1, <2>2, SetTokenWithinLife
<1>2. CASE NoHook(p, i)
  BY <1>2 DEF NoHook, Outcomes, telegram, daemon
<1>3. CASE HookStatic(p, i)
  <2>1. SetToken(p, TTL[p], Static) \/ token' = token
    BY <1>3 DEF HookStatic
  <2>2. token' = token \/ (token' \in TokenType /\ WithinLife(token'))
    BY <1>9, <2>1
  <2>3. Result(p, i, "minted") \/ Result(p, i, "no_github_creds")
    BY <1>3 DEF HookStatic
  <2> QED  BY <1>3, <2>2, <2>3 DEF HookStatic, AtHook, Outcomes, telegram, daemon
<1>4. CASE HookMints(p, i)
  BY <1>4 DEF HookMints, AtHook, telegram, daemon
<1>5. CASE MintReturns(p, i)
  <2>1. PICK life \in Lifetimes : SetToken(p, TokenTtl(TTL[p], life), life)
    BY <1>5 DEF MintReturns
  <2>2. life \in Nat \cup {NoExpiry, Static} /\ (life \in {0, NoExpiry} => life <= 0)
    BY ControlAssumption DEF NoExpiry
  <2>3. /\ TokenTtl(TTL[p], life) \in Nat /\ TokenTtl(TTL[p], life) # 0
        /\ life > 0 => TokenTtl(TTL[p], life) <= Maximum(MIN_TTL, life)
        /\ TTL[p] > 0 => TokenTtl(TTL[p], life) <= Maximum(MIN_TTL, TTL[p])
        /\ life <= 0 /\ TTL[p] = 0 => TokenTtl(TTL[p], life) <= Maximum(MIN_TTL, DEFAULT_TTL)
    BY <1>1, TokenTtlBound
  <2>4. token' \in TokenType /\ WithinLife(token')
    BY <1>1, <2>1, <2>2, <2>3, SetTokenWithinLife
  <2> QED  BY <1>5, <2>4 DEF MintReturns, Outcomes, telegram, daemon
<1>6. CASE MintFails(p, i)
  <2>1. SetToken(p, TTL[p], Static) \/ token' = token
    BY <1>6 DEF MintFails
  <2>2. token' = token \/ (token' \in TokenType /\ WithinLife(token'))
    BY <1>9, <2>1
  <2>3. Result(p, i, "minted") \/ Result(p, i, "mint_failed")
    BY <1>6 DEF MintFails
  <2> QED  BY <1>6, <2>2, <2>3 DEF MintFails, Outcomes, telegram, daemon
<1>7. CASE HookThrows(p, i)
  BY <1>7 DEF HookThrows, AtHook, Outcomes, telegram, daemon
<1> QED  BY <1>2, <1>3, <1>4, <1>5, <1>6, <1>7

(* The other caller's call is not touched, and the calls keep their shape. *)
RotTypes ==
  \A p \in Callers :
    /\ rot[p].pc \in {"idle", "rotating", "minting"}
    /\ rot[p].todo \subseteq DOMAIN rot[p].names
    /\ \A r \in rot[p].results : r[2] \in Outcomes

LEMMA ResultEffect ==
  ASSUME RotShape, RotTypes, NEW p \in Callers, NEW i \in rot[p].todo,
         NEW o \in Outcomes, Result(p, i, o)
  PROVE  /\ RotShape' /\ RotTypes'
         /\ \A q \in Callers \ {p} : rot'[q] = rot[q]
         /\ rot'[p].who = rot[p].who /\ rot'[p].names = rot[p].names
         /\ rot'[p].todo = rot[p].todo \ {i} /\ rot'[p] # rot[p]
         /\ rot'[p].results = rot[p].results \cup {<<rot[p].names[i], o>>}
<1> DEFINE r == [pc |-> "rotating", who |-> rot[p].who, names |-> rot[p].names,
                 todo |-> rot[p].todo \ {i},
                 results |-> rot[p].results \cup {<<rot[p].names[i], o>>}]
<1>1. /\ DOMAIN r = {"pc", "who", "names", "todo", "results"}
      /\ r.pc = "rotating" /\ r.who = rot[p].who /\ r.names = rot[p].names /\ r.todo = rot[p].todo \ {i}
      /\ r.results = rot[p].results \cup {<<rot[p].names[i], o>>}
  OBVIOUS
<1>2. /\ rot' = [rot EXCEPT ![p] = r]
  BY DEF Result
<1> HIDE DEF r
<1>3. DOMAIN rot' = Callers /\ rot'[p] = r /\ \A q \in Callers \ {p} : rot'[q] = rot[q]
  BY <1>2 DEF RotShape
<1>4. RotShape'
  BY <1>1, <1>3 DEF RotShape
<1>5. ASSUME NEW x \in r.results  PROVE x[2] \in Outcomes
  <2>1. <<rot[p].names[i], o>>[2] = o
    OBVIOUS
  <2> QED  BY <1>1, <1>5, <2>1 DEF RotTypes
<1>6. RotTypes'
  <2>1. r.todo \subseteq DOMAIN r.names
    BY <1>1 DEF RotTypes
  <2> QED  BY <1>1, <1>3, <1>5, <2>1 DEF RotTypes
<1> QED  BY <1>1, <1>3, <1>4, <1>6

LEMMA MintingEffect ==
  ASSUME RotShape, RotTypes, NEW p \in Callers, rot' = [rot EXCEPT ![p].pc = "minting"]
  PROVE  /\ RotShape' /\ RotTypes'
         /\ \A q \in Callers \ {p} : rot'[q] = rot[q]
         /\ rot'[p].who = rot[p].who /\ rot'[p].names = rot[p].names /\ rot'[p].todo = rot[p].todo
         /\ rot'[p].results = rot[p].results
<1>1. DOMAIN rot' = Callers /\ \A q \in Callers \ {p} : rot'[q] = rot[q]
  BY DEF RotShape
<1>2. rot'[p] = [rot[p] EXCEPT !.pc = "minting"]
  BY DEF RotShape
<1>3. /\ DOMAIN rot'[p] = {"pc", "who", "names", "todo", "results"} /\ rot'[p].pc = "minting"
      /\ rot'[p].who = rot[p].who /\ rot'[p].names = rot[p].names /\ rot'[p].todo = rot[p].todo
      /\ rot'[p].results = rot[p].results
  BY <1>2 DEF RotShape
<1> QED  BY <1>1, <1>3 DEF RotShape, RotTypes

(* A rotate begins.                                                        *)
LEMMA StartEffect ==
  ASSUME RotShape, RotTypes, NEW p \in Callers, NEW who, NEW names, StartRotate(p, who, names),
         doorKey \in 0..MAX_KEYS
  PROVE  /\ RotShape' /\ RotTypes' /\ doorKey' \in 0..MAX_KEYS
         /\ \A q \in Callers \ {p} : rot'[q] = rot[q]
         /\ rot[p].pc = "idle" /\ rot'[p].pc = "rotating"
         /\ rot'[p].who = who /\ rot'[p].names = names
         /\ rot'[p].todo = {i \in DOMAIN names : names[i] \notin KeyNames}
<1> DEFINE r == [pc |-> "rotating", who |-> who, names |-> names,
                 todo |-> {i \in DOMAIN names : names[i] \notin KeyNames},
                 results |-> IF WantKey(names) THEN {<<"door-key", "minted">>} ELSE {}]
<1>1. /\ DOMAIN r = {"pc", "who", "names", "todo", "results"}
      /\ r.pc = "rotating" /\ r.who = who /\ r.names = names
      /\ r.todo = {i \in DOMAIN names : names[i] \notin KeyNames}
      /\ r.results \subseteq {<<"door-key", "minted">>}
  OBVIOUS
<1>2. rot' = [rot EXCEPT ![p] = r] /\ rot[p].pc = "idle"
  BY DEF StartRotate
<1> HIDE DEF r
<1>3. DOMAIN rot' = Callers /\ rot'[p] = r /\ \A q \in Callers \ {p} : rot'[q] = rot[q]
  BY <1>2 DEF RotShape
<1>4. RotShape'
  BY <1>1, <1>3 DEF RotShape
<1>5. \A x \in r.results : x[2] \in Outcomes
  BY <1>1 DEF Outcomes
<1>6. RotTypes'
  <2>1. r.todo \subseteq DOMAIN r.names
    BY <1>1
  <2> QED  BY <1>1, <1>3, <1>5, <2>1 DEF RotTypes
<1>7. doorKey' \in 0..MAX_KEYS
  BY ControlAssumption DEF StartRotate
<1> QED  BY <1>1, <1>2, <1>3, <1>4, <1>6, <1>7

(* A call is over.                                                         *)
LEMMA EndEffect ==
  ASSUME RotShape, RotTypes, NEW p \in Callers, rot' = [rot EXCEPT ![p] = Idle]
  PROVE  /\ RotShape' /\ RotTypes' /\ rot'[p].pc = "idle"
         /\ \A q \in Callers \ {p} : rot'[q] = rot[q]
<1>1. /\ DOMAIN Idle = {"pc", "who", "names", "todo", "results"}
      /\ Idle.pc = "idle" /\ Idle.todo = {} /\ Idle.results = {}
  BY DEF Idle
<1>2. DOMAIN rot' = Callers /\ rot'[p] = Idle /\ \A q \in Callers \ {p} : rot'[q] = rot[q]
  BY DEF RotShape
<1> QED  BY <1>1, <1>2 DEF RotShape, RotTypes

----------------------------------------------------------------------------
(* The invariant is inductive.                                             *)

(* What TypeOK says of everything but the rotate calls.                    *)
OtherTypes ==
  /\ now \in Nat /\ doorKey \in 0..MAX_KEYS
  /\ env \in [app : BOOLEAN, static : BOOLEAN]
  /\ token \in TokenType
  /\ updates \in Seq(Updates) /\ Len(updates) <= MAX_UPDATES
  /\ confirmed \in 0..Len(updates)
  /\ dpc \in {"poll", "backoff", "batch", "rotate"}
  /\ offset \in 0..Len(updates) + 1
  /\ batch \subseteq 1..Len(updates)
  /\ handled \in [1..MAX_UPDATES -> Nat]
  /\ seen \subseteq 1..Len(updates)

LEMMA TypesSplit == TypeOK <=> OtherTypes /\ RotTypes
BY DEF TypeOK, OtherTypes, RotTypes

LEMMA InitInvariant == Init => ControlInvariant
<1> SUFFICES ASSUME Init  PROVE ControlInvariant
  OBVIOUS
<1>1. rot = [p \in Callers |-> Idle]
  BY DEF Init
<1>2. /\ DOMAIN Idle = {"pc", "who", "names", "todo", "results"}
      /\ Idle.pc = "idle" /\ Idle.todo = {} /\ Idle.results = {}
  BY DEF Idle
<1>3. RotShape /\ RotTypes /\ rot["daemon"].pc = "idle" /\ rot["module"].pc = "idle"
  BY <1>1, <1>2 DEF RotShape, RotTypes, Callers
<1>4. token \in TokenType /\ WithinLife(token)
  BY DEF Init, NoToken, TokenType, WithinLife, Limits, Static, NoExpiry
<1>5. Len(updates) = 0 /\ updates \in Seq(Updates) /\ handled = [id \in 1..MAX_UPDATES |-> 0]
  BY DEF Init, NotHandled
<1>6. OtherTypes
  BY <1>4, <1>5, ControlAssumption DEF OtherTypes, Init
<1>7. CursorInv
  BY <1>5 DEF CursorInv, Init
<1>8. SeenInv
  BY DEF SeenInv, Init
<1>9. RotateInv
  BY <1>3 DEF RotateInv, Init
<1> QED  BY <1>3, <1>4, <1>6, <1>7, <1>8, <1>9, TypesSplit DEF ControlInvariant

(* A step of a rotate, of the daemon or of the CLI.                        *)
LEMMA RotateStepKeeps ==
  ASSUME ControlInvariant, NEW p \in Callers, RotateStep(p)
  PROVE  ControlInvariant'
<1>1. TypeOK /\ OtherTypes /\ RotShape /\ RotTypes /\ CursorInv /\ SeenInv /\ RotateInv
      /\ WithinLife(token)
  BY TypesSplit DEF ControlInvariant
<1>2. /\ rot[p].pc # "idle"
      /\ UNCHANGED <<now, env, doorKey, telegram, daemon>>
      /\ \/ rot' = [rot EXCEPT ![p].pc = "minting"] /\ token' = token
         \/ \E i \in rot[p].todo, o \in Outcomes : Result(p, i, o)
      /\ token' = token \/ (token' \in TokenType /\ WithinLife(token'))
  BY <1>1, RotateStepEffect
<1>3. UNCHANGED <<now, env, doorKey, updates, confirmed, dpc, offset, batch, handled, seen>>
  BY <1>2 DEF telegram, daemon
<1>4. token' \in TokenType /\ WithinLife(token')
  BY <1>1, <1>2 DEF OtherTypes, WithinLife
<1>5. OtherTypes'
  BY <1>1, <1>3, <1>4 DEF OtherTypes
<1>6. CursorInv' /\ SeenInv'
  BY <1>1, <1>3 DEF CursorInv, SeenInv, Current
<1>7. /\ RotShape' /\ RotTypes'
      /\ \A q \in Callers \ {p} : rot'[q] = rot[q]
      /\ rot'[p].who = rot[p].who /\ rot'[p].names = rot[p].names
      /\ \A i \in rot[p].todo :
           \/ i \in rot'[p].todo
           \/ \E r \in rot'[p].results : r[1] = rot[p].names[i]
      /\ rot[p].results \subseteq rot'[p].results
  <2>1. CASE rot' = [rot EXCEPT ![p].pc = "minting"]
    BY <1>1, <2>1, MintingEffect
  <2>2. ASSUME NEW i \in rot[p].todo, NEW o \in Outcomes, Result(p, i, o)
        PROVE  <1>7
    <3>1. /\ RotShape' /\ RotTypes'
          /\ \A q \in Callers \ {p} : rot'[q] = rot[q]
          /\ rot'[p].who = rot[p].who /\ rot'[p].names = rot[p].names
          /\ rot'[p].todo = rot[p].todo \ {i}
          /\ rot'[p].results = rot[p].results \cup {<<rot[p].names[i], o>>}
      BY <1>1, <2>2, ResultEffect
    <3>2. <<rot[p].names[i], o>>[1] = rot[p].names[i]
      OBVIOUS
    <3> QED  BY <3>1, <3>2
  <2> QED  BY <1>2, <2>1, <2>2
<1>8. RotateInv'
  <2>1. rot'["module"].pc # "idle" => IsOperator(rot'["module"].who)
    <3>1. CASE p = "module"
      BY <1>1, <1>2, <1>7, <3>1 DEF RotateInv
    <3>2. CASE p # "module"
      BY <1>1, <1>7, <3>2 DEF RotateInv, Callers
    <3> QED  BY <3>1, <3>2
  <2>2. CASE p # "daemon"
    <3>1. rot'["daemon"] = rot["daemon"]
      BY <1>7, <2>2 DEF Callers
    <3> QED  BY <1>1, <1>3, <2>1, <3>1 DEF RotateInv, Current
  <2>3. CASE p = "daemon"
    <3>1. dpc = "rotate" /\ dpc' = "rotate"
      BY <1>1, <1>2, <1>3, <2>3 DEF RotateInv
    <3>2. rot["daemon"].names = ROTATE_NAMES /\ rot["daemon"].who = Identity(updates[Current])
      BY <1>1, <3>1 DEF RotateInv
    <3>3. ASSUME NEW i \in DOMAIN ROTATE_NAMES
          PROVE  \/ i \in rot'["daemon"].todo
                 \/ \E r \in rot'["daemon"].results : r[1] = ROTATE_NAMES[i]
      BY <1>1, <1>7, <2>3, <3>1, <3>2 DEF RotateInv
    <3> QED  BY <1>1, <1>3, <1>7, <2>1, <2>3, <3>1, <3>2, <3>3 DEF RotateInv, Current
  <2> QED  BY <2>2, <2>3
<1>9. TypeOK'
  BY <1>5, <1>7 DEF TypeOK, OtherTypes, RotTypes
<1> QED  BY <1>4, <1>6, <1>7, <1>8, <1>9 DEF ControlInvariant

(* The CLI's and the modules' calls of rotate.                             *)
LEMMA CliKeeps ==
  ASSUME ControlInvariant, CliIssue \/ CliEnds \/ CapturedRotate \/ ModuleRotateEnds
  PROVE  ControlInvariant'
<1>1. OtherTypes /\ RotShape /\ RotTypes /\ CursorInv /\ SeenInv /\ RotateInv
      /\ WithinLife(token)
  BY TypesSplit DEF ControlInvariant
<1>2. UNCHANGED <<now, env, token, updates, confirmed, dpc, offset, batch, handled, seen>>
  BY DEF CliIssue, CliEnds, CapturedRotate, ModuleRotateEnds, telegram, daemon
<1>3. /\ RotShape' /\ RotTypes' /\ doorKey' \in 0..MAX_KEYS /\ rot'["daemon"] = rot["daemon"]
      /\ rot'["module"].pc # "idle" => IsOperator(rot'["module"].who)
  <2> USE DEF Callers
  <2>1. CASE CliIssue
    <3>1. PICK names \in CliNames : StartRotate("cli", NoAssertion, <<"door-key">> \o names)
      BY <2>1 DEF CliIssue
    <3> QED  BY <1>1, <3>1, StartEffect DEF OtherTypes, RotateInv
  <2>2. CASE CliEnds
    <3>1. rot' = [rot EXCEPT !["cli"] = Idle] /\ doorKey' = doorKey
      BY <2>2 DEF CliEnds
    <3> QED  BY <1>1, <3>1, EndEffect DEF OtherTypes, RotateInv
  <2>3. CASE CapturedRotate
    <3>1. PICK said : /\ Authorized(ModuleAssertion(said))
                      /\ \E names \in ModuleNames :
                           StartRotate("module", ModuleAssertion(said), names)
      BY <2>3 DEF CapturedRotate
    <3>2. PICK names \in ModuleNames : StartRotate("module", ModuleAssertion(said), names)
      BY <3>1
    <3>3. IsOperator(ModuleAssertion(said))
      BY <3>1, OnlyOperatorsAuthorized
    <3>4. /\ RotShape' /\ RotTypes' /\ doorKey' \in 0..MAX_KEYS
          /\ \A q \in Callers \ {"module"} : rot'[q] = rot[q]
          /\ rot'["module"].who = ModuleAssertion(said)
      BY <1>1, <3>2, StartEffect DEF OtherTypes
    <3> QED  BY <3>3, <3>4
  <2>4. CASE ModuleRotateEnds
    <3>1. rot' = [rot EXCEPT !["module"] = Idle] /\ doorKey' = doorKey
      BY <2>4 DEF ModuleRotateEnds
    <3> QED  BY <1>1, <3>1, EndEffect DEF OtherTypes
  <2> QED  BY <2>1, <2>2, <2>3, <2>4
<1>4. OtherTypes'
  BY <1>1, <1>2, <1>3 DEF OtherTypes
<1>5. CursorInv' /\ SeenInv' /\ WithinLife(token')
  BY <1>1, <1>2 DEF CursorInv, SeenInv, Current, WithinLife
<1>6. RotateInv'
  BY <1>1, <1>2, <1>3 DEF RotateInv, Current
<1>7. TypeOK'
  BY <1>3, <1>4 DEF TypeOK, OtherTypes, RotTypes
<1> QED  BY <1>3, <1>5, <1>6, <1>7 DEF ControlInvariant

(* The ids of a response follow the confirmed ones without a gap.          *)
LEMMA AboveConfirmed ==
  ASSUME NEW c \in Nat, NEW last \in Nat, NEW n \in Nat, NEW o \in Nat,
         last <= n, c >= o - 1, NEW id \in c + 1 .. last
  PROVE  /\ id \in 1..n /\ id >= o
         /\ \A j \in 1..id - 1 : j \in c + 1 .. last \/ j \in 1..c
<1>1. id \in Nat /\ id >= c + 1 /\ id <= last
  OBVIOUS
<1>2. ASSUME NEW j \in 1..id - 1  PROVE j \in c + 1 .. last \/ j \in 1..c
  BY <1>1
<1> QED  BY <1>1, <1>2

(* The daemon's poll, its response or its failure.                         *)
LEMMA PollKeeps ==
  ASSUME ControlInvariant, PollReturns \/ PollFails \/ BackoffEnds \/ BatchEnds
  PROVE  ControlInvariant'
<1>1. OtherTypes /\ RotShape /\ RotTypes /\ CursorInv /\ SeenInv /\ RotateInv
      /\ WithinLife(token)
  BY TypesSplit DEF ControlInvariant
<1>2. UNCHANGED <<now, env, doorKey, token, rot, updates, offset, handled, seen>>
  BY DEF PollReturns, PollFails, BackoffEnds, BatchEnds, telegram
<1>3. dpc # "rotate" /\ dpc' # "rotate" /\ dpc' \in {"poll", "backoff", "batch", "rotate"}
  BY DEF PollReturns, PollFails, BackoffEnds, BatchEnds
<1>4. Len(updates) \in Nat /\ confirmed \in 0..Len(updates) /\ offset \in 0..Len(updates) + 1
      /\ batch \subseteq 1..Len(updates) /\ seen \subseteq 1..Len(updates)
  BY <1>1 DEF OtherTypes
<1>5. /\ 1..confirmed \subseteq seen
      /\ \A j \in 1..offset - 1 : j \in seen
  BY <1>1, <1>3 DEF SeenInv
<1>6. ASSUME Confirms
      PROVE  /\ confirmed' \in 0..Len(updates) /\ confirmed' >= offset - 1
             /\ 1..confirmed' \subseteq seen
  BY <1>4, <1>5, <1>6 DEF Confirms, Maximum
<1>7. /\ confirmed' \in 0..Len(updates) /\ 1..confirmed' \subseteq seen
      /\ batch' \subseteq 1..Len(updates)
      /\ \A id \in batch' : id >= offset
      /\ \A id \in batch' : \A j \in 1..id - 1 : j \in batch' \/ j \in seen
  <2>1. CASE PollReturns
    <3>1. confirmed' \in 0..Len(updates) /\ confirmed' >= offset - 1 /\ 1..confirmed' \subseteq seen
      BY <1>6, <2>1 DEF PollReturns
    <3>2. PICK last \in confirmed'..Len(updates) : batch' = confirmed' + 1 .. last
      BY <2>1 DEF PollReturns
    <3>3. /\ confirmed' \in Nat /\ last \in Nat /\ last <= Len(updates)
          /\ offset \in Nat /\ Len(updates) \in Nat
      BY <1>4, <3>1, <3>2
    <3>4. ASSUME NEW id \in confirmed' + 1 .. last
          PROVE  /\ id \in 1..Len(updates) /\ id >= offset
                 /\ \A j \in 1..id - 1 : j \in confirmed' + 1 .. last \/ j \in 1..confirmed'
      BY <3>1, <3>3, AboveConfirmed
    <3>5. ASSUME NEW id \in batch'
          PROVE  /\ id \in 1..Len(updates) /\ id >= offset
                 /\ \A j \in 1..id - 1 : j \in batch' \/ j \in seen
      <4>1. id \in confirmed' + 1 .. last
        BY <3>2, <3>5
      <4>2. \A j : j \in 1..confirmed' => j \in seen
        BY <3>1
      <4>3. \A j : j \in confirmed' + 1 .. last => j \in batch'
        BY <3>2
      <4> QED  BY <3>4, <4>1, <4>2, <4>3
    <3> QED  BY <3>1, <3>5
  <2>2. CASE PollFails
    <3>1. batch' = batch /\ (Confirms \/ confirmed' = confirmed)
      BY <2>2 DEF PollFails
    <3>2. confirmed' \in 0..Len(updates) /\ 1..confirmed' \subseteq seen
      BY <1>4, <1>5, <1>6, <3>1
    <3> QED  BY <1>1, <1>3, <1>4, <3>1, <3>2 DEF CursorInv, SeenInv
  <2>3. CASE BackoffEnds \/ BatchEnds
    <3>1. batch' = batch /\ confirmed' = confirmed
      BY <2>3 DEF BackoffEnds, BatchEnds, telegram
    <3> QED  BY <1>1, <1>3, <1>4, <1>5, <3>1 DEF CursorInv, SeenInv
  <2> QED  BY <2>1, <2>2, <2>3
<1>8. OtherTypes'
  BY <1>1, <1>2, <1>3, <1>7 DEF OtherTypes
<1>9. CursorInv' /\ SeenInv' /\ WithinLife(token')
  BY <1>1, <1>2, <1>3, <1>5, <1>7 DEF CursorInv, SeenInv, WithinLife
<1>10. RotShape' /\ RotTypes' /\ RotateInv'
  BY <1>1, <1>2, <1>3 DEF RotShape, RotTypes, RotateInv
<1>11. TypeOK'
  BY <1>8, <1>10 DEF TypeOK, OtherTypes, RotTypes
<1> QED  BY <1>9, <1>10, <1>11 DEF ControlInvariant

(* Looking at an update.                                                   *)
LEMMA LookAtKeeps ==
  ASSUME ControlInvariant, NEW id \in 1..MAX_UPDATES, LookAt(id)
  PROVE  ControlInvariant'
<1>1. OtherTypes /\ RotShape /\ RotTypes /\ CursorInv /\ SeenInv /\ RotateInv
      /\ WithinLife(token)
  BY TypesSplit DEF ControlInvariant
<1>2. /\ UNCHANGED <<now, env, token, updates, confirmed>>
      /\ dpc = "batch" /\ batch' = batch \ {id} /\ offset' = Advance(id)
      /\ id \in batch /\ \A other \in batch : id <= other
      /\ handled' = [handled EXCEPT ![id] = handled[id] + 1]
  BY DEF LookAt, IsOldest, telegram
<1>3. /\ Len(updates) \in Nat /\ offset \in Nat /\ MAX_UPDATES \in Nat /\ Len(updates) <= MAX_UPDATES
      /\ batch \subseteq 1..Len(updates) /\ handled \in [1..MAX_UPDATES -> Nat]
      /\ seen \subseteq 1..Len(updates)
  BY <1>1, ControlAssumption DEF OtherTypes
<1>4. id \in 1..Len(updates) /\ id >= offset /\ offset' = id + 1
  BY <1>1, <1>2, <1>3 DEF CursorInv, Advance
<1>5. /\ RotShape' /\ RotTypes' /\ doorKey' \in 0..MAX_KEYS
      /\ \/ /\ dpc' = "batch" /\ seen' = seen \cup {id} /\ rot' = rot
         \/ /\ dpc' = "rotate" /\ seen' = seen
            /\ IsOperator(Identity(updates[id]))
            /\ rot'["daemon"].who = Identity(updates[id])
            /\ rot'["module"] = rot["module"]
            /\ rot'["daemon"].names = ROTATE_NAMES
            /\ rot'["daemon"].todo = {i \in DOMAIN ROTATE_NAMES : ROTATE_NAMES[i] \notin KeyNames}
  <2> DEFINE Acts == IsGesture(updates[id]) /\ Authorized(ModuleAssertion(Identity(updates[id])))
  <2>1. CASE Acts
    <3>1. /\ StartRotate("daemon", Identity(updates[id]), ROTATE_NAMES)
          /\ dpc' = "rotate" /\ seen' = seen
      BY <2>1 DEF LookAt
    <3>2. IsOperator(Identity(updates[id]))
      BY <2>1, OnlyOperatorsAuthorized
    <3>3. doorKey \in 0..MAX_KEYS /\ "daemon" \in Callers /\ "module" \in Callers \ {"daemon"}
      BY <1>1 DEF OtherTypes, Callers
    <3> QED  BY <1>1, <3>1, <3>2, <3>3, StartEffect
  <2>2. CASE ~Acts
    <3>1. doorKey' = doorKey /\ rot' = rot /\ dpc' = dpc /\ seen' = seen \cup {id}
      BY <2>2 DEF LookAt
    <3> QED  BY <1>1, <1>2, <3>1 DEF RotShape, RotTypes, OtherTypes
  <2> QED  BY <2>1, <2>2
<1>6. OtherTypes'
  <2>1. handled' \in [1..MAX_UPDATES -> Nat]
    BY <1>2, <1>3
  <2>2. batch' \subseteq 1..Len(updates) /\ offset' \in 0..Len(updates) + 1
    BY <1>2, <1>3, <1>4
  <2>3. seen' \subseteq 1..Len(updates) /\ dpc' \in {"poll", "backoff", "batch", "rotate"}
    BY <1>3, <1>4, <1>5
  <2> QED  BY <1>1, <1>2, <1>5, <2>1, <2>2, <2>3 DEF OtherTypes
<1>7. CursorInv'
  <2>1. ASSUME NEW k \in 1..MAX_UPDATES
        PROVE  handled'[k] <= 1 /\ (k >= id + 1 => handled'[k] = 0)
    <3>1. handled[k] <= 1 /\ (k >= offset => handled[k] = 0) /\ handled[id] = 0
      BY <1>1, <1>4 DEF CursorInv
    <3>2. handled'[k] = IF k = id THEN handled[id] + 1 ELSE handled[k]
      BY <1>2, <1>3
    <3> QED  BY <1>3, <1>4, <3>1, <3>2
  <2>2. ASSUME NEW k \in batch'  PROVE k >= id + 1
    BY <1>2, <1>3, <2>2
  <2> QED  BY <1>4, <2>1, <2>2 DEF CursorInv
<1>8. SeenInv'
  <2>1. \A j \in 1..id - 1 : j \in seen
    <3>1. ASSUME NEW j \in 1..id - 1  PROVE j \notin batch
      BY <1>2, <1>3
    <3> QED  BY <1>1, <1>2, <3>1 DEF SeenInv
  <2>2. 1..confirmed' \subseteq seen'
    BY <1>1, <1>2, <1>5 DEF SeenInv
  <2>3. Current' = id
    BY <1>3, <1>4 DEF Current
  <2>4. \A j \in 1..id : j \in seen' \/ (dpc' = "rotate" /\ j = id)
    <3>1. ASSUME NEW j \in 1..id  PROVE j = id \/ j \in 1..id - 1
      BY <1>4
    <3> QED  BY <1>5, <2>1, <3>1
  <2>5. ASSUME NEW k \in batch', NEW j \in 1..k - 1
        PROVE  j \in batch' \/ j \in seen' \/ (dpc' = "rotate" /\ j = id)
    <3>1. k \in batch
      BY <1>2, <2>5
    <3>2. j \in batch \/ j \in seen
      BY <1>1, <1>2, <3>1 DEF SeenInv
    <3> QED  BY <1>2, <1>5, <3>2
  <2>6. offset' - 1 = id
    BY <1>3, <1>4
  <2> QED  BY <2>2, <2>3, <2>4, <2>5, <2>6 DEF SeenInv
<1>9. RotateInv'
  <2>1. Current' = id
    BY <1>3, <1>4 DEF Current
  <2>2. CASE dpc' = "batch" /\ rot' = rot
    BY <1>1, <1>2, <2>2 DEF RotateInv
  <2>3. CASE dpc' = "rotate"
    <3>1. {i \in DOMAIN ROTATE_NAMES : ROTATE_NAMES[i] \notin KeyNames} = DOMAIN ROTATE_NAMES
      BY DEF ROTATE_NAMES, KeyNames
    <3>2. updates'[id] = updates[id] /\ Len(updates') = Len(updates)
      BY <1>2
    <3> QED  BY <1>1, <1>4, <1>5, <2>1, <2>3, <3>1, <3>2 DEF RotateInv
  <2> QED  BY <1>5, <2>2, <2>3
<1>10. WithinLife(token')
  BY <1>1, <1>2 DEF WithinLife
<1>11. TypeOK'
  BY <1>5, <1>6 DEF TypeOK, OtherTypes, RotTypes
<1> QED  BY <1>5, <1>7, <1>8, <1>9, <1>10, <1>11 DEF ControlInvariant

(* The daemon's rotate ends.                                               *)
LEMMA DaemonRotateEndsKeeps ==
  ASSUME ControlInvariant, DaemonRotateEnds
  PROVE  ControlInvariant'
<1>1. OtherTypes /\ RotShape /\ RotTypes /\ CursorInv /\ SeenInv /\ RotateInv
      /\ WithinLife(token)
  BY TypesSplit DEF ControlInvariant
<1>2. /\ UNCHANGED <<now, env, doorKey, token, updates, confirmed, offset, batch, handled>>
      /\ dpc = "rotate" /\ dpc' = "batch" /\ seen' = seen \cup {Current}
      /\ rot' = [rot EXCEPT !["daemon"] = Idle] /\ "daemon" \in Callers
  BY DEF DaemonRotateEnds, telegram, Callers
<1>3. /\ RotShape' /\ RotTypes' /\ rot'["daemon"].pc = "idle"
      /\ rot'["module"] = rot["module"]
  BY <1>1, <1>2, EndEffect DEF Callers
<1>4. Current \in 1..Len(updates)
  BY <1>1, <1>2 DEF RotateInv
<1>5. OtherTypes'
  BY <1>1, <1>2, <1>4 DEF OtherTypes
<1>6. CursorInv' /\ SeenInv' /\ WithinLife(token')
  BY <1>1, <1>2 DEF CursorInv, SeenInv, WithinLife
<1>7. RotateInv'
  BY <1>1, <1>2, <1>3 DEF RotateInv
<1>8. TypeOK'
  BY <1>3, <1>5 DEF TypeOK, OtherTypes, RotTypes
<1> QED  BY <1>3, <1>6, <1>7, <1>8 DEF ControlInvariant

(* The users, the end of the process, and time.                            *)
LEMMA EnvironmentKeeps ==
  ASSUME ControlInvariant, SendUpdate \/ Restart \/ Tick \/ UNCHANGED vars
  PROVE  ControlInvariant'
<1>1. OtherTypes /\ RotShape /\ RotTypes /\ CursorInv /\ SeenInv /\ RotateInv
      /\ WithinLife(token)
  BY TypesSplit DEF ControlInvariant
<1>2. CASE SendUpdate
  <2>1. UNCHANGED <<now, env, doorKey, token, rot, confirmed, dpc, offset, batch, handled, seen>>
    BY <1>2 DEF SendUpdate, daemon
  <2>2. PICK u \in Updates : updates' = Append(updates, u)
    BY <1>2 DEF SendUpdate
  <2>3. Len(updates) < MAX_UPDATES /\ updates \in Seq(Updates) /\ MAX_UPDATES \in Nat
    BY <1>1, <1>2, ControlAssumption DEF SendUpdate, OtherTypes
  <2>4. /\ updates' \in Seq(Updates) /\ Len(updates') = Len(updates) + 1 /\ Len(updates) \in Nat
        /\ \A k \in 1..Len(updates) : updates'[k] = updates[k]
    BY <2>2, <2>3
  <2>5. OtherTypes'
    BY <1>1, <2>1, <2>3, <2>4 DEF OtherTypes
  <2>6. CursorInv' /\ SeenInv' /\ RotShape' /\ RotTypes' /\ WithinLife(token')
    BY <1>1, <2>1 DEF CursorInv, SeenInv, Current, RotShape, RotTypes, WithinLife
  <2>7. Current' = Current
    BY <2>1 DEF Current
  <2>8. Current \in 1..Len(updates) => Current \in 1..Len(updates') /\ updates'[Current] = updates[Current]
    BY <2>4
  <2>9. RotateInv'
    BY <1>1, <2>1, <2>7, <2>8 DEF RotateInv
  <2>10. TypeOK'
    BY <2>5, <2>6 DEF TypeOK, OtherTypes, RotTypes
  <2> QED  BY <2>6, <2>9, <2>10 DEF ControlInvariant
<1>3. CASE Restart
  <2>1. /\ UNCHANGED <<now, env, doorKey, token, updates, confirmed, seen>>
        /\ dpc' = "poll" /\ offset' = 0 /\ batch' = {} /\ handled' = NotHandled
        /\ rot' = [rot EXCEPT !["daemon"] = Idle, !["module"] = Idle]
    BY <1>3 DEF Restart, telegram
  <2>2. RotShape' /\ RotTypes' /\ rot'["daemon"].pc = "idle" /\ rot'["module"].pc = "idle"
    <3>1. /\ DOMAIN Idle = {"pc", "who", "names", "todo", "results"}
          /\ Idle.pc = "idle" /\ Idle.todo = {} /\ Idle.results = {}
      BY DEF Idle
    <3>2. /\ DOMAIN rot' = Callers /\ rot'["cli"] = rot["cli"]
          /\ rot'["daemon"] = Idle /\ rot'["module"] = Idle
      BY <1>1, <2>1 DEF RotShape, Callers
    <3> QED  BY <1>1, <3>1, <3>2 DEF RotShape, RotTypes, Callers
  <2>3. handled' \in [1..MAX_UPDATES -> Nat] /\ \A id \in 1..MAX_UPDATES : handled'[id] = 0
    BY <2>1 DEF NotHandled
  <2>4. Len(updates) \in Nat
    BY <1>1 DEF OtherTypes
  <2>5. OtherTypes'
    BY <1>1, <2>1, <2>3, <2>4 DEF OtherTypes
  <2>6. CursorInv' /\ SeenInv' /\ RotateInv' /\ WithinLife(token')
    BY <1>1, <2>1, <2>2, <2>3 DEF CursorInv, SeenInv, RotateInv, WithinLife
  <2>7. TypeOK'
    BY <2>2, <2>5 DEF TypeOK, OtherTypes, RotTypes
  <2> QED  BY <2>2, <2>6, <2>7 DEF ControlInvariant
<1>4. CASE Tick \/ UNCHANGED vars
  <2>1. /\ UNCHANGED <<env, doorKey, token, rot, updates, confirmed, dpc, offset, batch, handled, seen>>
        /\ now' \in Nat
    BY <1>1, <1>4 DEF Tick, vars, telegram, daemon, OtherTypes
  <2>2. OtherTypes'
    BY <1>1, <2>1 DEF OtherTypes
  <2>3. CursorInv' /\ SeenInv' /\ RotShape' /\ RotTypes' /\ RotateInv' /\ WithinLife(token')
    BY <1>1, <2>1 DEF CursorInv, SeenInv, Current, RotShape, RotTypes, RotateInv, WithinLife
  <2>4. TypeOK'
    BY <2>2, <2>3 DEF TypeOK, OtherTypes, RotTypes
  <2> QED  BY <2>3, <2>4 DEF ControlInvariant
<1> QED  BY <1>2, <1>3, <1>4

LEMMA NextKeeps == ControlInvariant /\ [Next]_vars => ControlInvariant'
<1> SUFFICES ASSUME ControlInvariant, [Next]_vars  PROVE ControlInvariant'
  OBVIOUS
<1>1. ASSUME NEW p \in Callers, RotateStep(p)  PROVE ControlInvariant'
  BY <1>1, RotateStepKeeps
<1>2. CASE CliIssue \/ CliEnds \/ CapturedRotate \/ ModuleRotateEnds
  BY <1>2, CliKeeps
<1>3. CASE PollReturns \/ PollFails \/ BackoffEnds \/ BatchEnds
  BY <1>3, PollKeeps
<1>4. ASSUME NEW id \in 1..MAX_UPDATES, LookAt(id)  PROVE ControlInvariant'
  BY <1>4, LookAtKeeps
<1>5. CASE DaemonRotateEnds
  BY <1>5, DaemonRotateEndsKeeps
<1>6. CASE SendUpdate \/ Restart \/ Tick \/ UNCHANGED vars
  BY <1>6, EnvironmentKeeps
<1> QED  BY <1>1, <1>2, <1>3, <1>4, <1>5, <1>6 DEF Next, DaemonStep, Callers

LEMMA AlwaysInvariant == Spec => []ControlInvariant
<1> QED  BY InitInvariant, NextKeeps, PTL DEF Spec

----------------------------------------------------------------------------
(* The theorems.                                                           *)

(* ControlPlane's state stays well formed, for all constants.              *)
THEOREM ControlTypeCorrect == Spec => []TypeOK
<1>1. ControlInvariant => TypeOK
  BY DEF ControlInvariant
<1> QED  BY <1>1, AlwaysInvariant, PTL

(* One process acts on an update at most once (telegram.mjs 116), whatever *)
(* polls fail and whatever responses are lost.                             *)
THEOREM UpdatesHandledOnce == Spec => []HandledOnce
<1>1. ControlInvariant => HandledOnce
  BY DEF ControlInvariant, CursorInv, HandledOnce
<1> QED  BY <1>1, AlwaysInvariant, PTL

(* Telegram drops no update that a process was not through with.           *)
THEOREM NoUpdateLost == Spec => []ConfirmedWereHandled
<1>1. ControlInvariant => ConfirmedWereHandled
  BY DEF ControlInvariant, SeenInv, ConfirmedWereHandled
<1> QED  BY <1>1, AlwaysInvariant, PTL

(* A rotate of the daemon that is through has answered each of its names.  *)
THEOREM RotateAnswersAll == Spec => []EveryNameAnswered
<1>1. ControlInvariant => EveryNameAnswered
  BY DEF ControlInvariant, RotateInv, EveryNameAnswered, Finished
<1> QED  BY <1>1, AlwaysInvariant, PTL

(* No request is sent with a token beyond what GitHub gave it if any life  *)
(* was left, what its own caller asked for, or the default if neither says *)
(* anything, whichever callers mint at the same time; but always within    *)
(* the minimum.                                                            *)
THEOREM TokenNotOutlived == Spec => []TokenServedWithinLife
<1>1. ASSUME ControlInvariant, Usable, NEW limit \in Limits(token)
      PROVE  now <= token.born + Maximum(MIN_TTL, limit)
  <2>1. token.exp # 0 /\ token.exp <= token.born + Maximum(MIN_TTL, limit)
    BY <1>1 DEF ControlInvariant, WithinLife
  <2>2. token.exp >= now
    BY <1>1, <2>1 DEF Usable
  <2>3. /\ token.exp \in Nat /\ token.born \in Nat /\ now \in Nat /\ MIN_TTL \in Nat
        /\ token.life \in Nat \cup {-1, -2} /\ token.asked \in Nat /\ DEFAULT_TTL \in Nat
    BY <1>1, ControlAssumption DEF ControlInvariant, TypeOK, TokenType, NoExpiry, Static
  <2>4. limit \in Int
    BY <1>1, <2>3 DEF Limits
  <2>5. Maximum(MIN_TTL, limit) \in Int
    BY <2>3, <2>4 DEF Maximum
  <2> QED  BY <2>1, <2>2, <2>3, <2>5
<1>2. ControlInvariant => TokenServedWithinLife
  BY <1>1 DEF TokenServedWithinLife
<1> QED  BY <1>2, AlwaysInvariant, PTL

(* I12: a secret changes only in the CLI's rotate or in one whose caller   *)
(* named an operator; the daemon names the sender of the update it is at,  *)
(* and a module that names nobody, or anybody else, changes nothing.       *)
THEOREM OperatorsRotate == Spec => OnlyOperatorsRotate
<1> DEFINE ForDaemon == \E id \in DOMAIN updates :
                          id = offset' - 1 /\ rot'["daemon"].who = Identity(updates[id])
           Rightly(p) == /\ rot'[p] # rot[p]
                         /\ p # "cli" => IsOperator(rot'[p].who)
                         /\ p = "daemon" => ForDaemon
           Changed == doorKey' # doorKey \/ token' # token
<1>1. ASSUME ControlInvariant, [Next]_vars, Changed  PROVE \E p \in Callers : Rightly(p)
  <2>1. OtherTypes /\ RotShape /\ RotTypes /\ CursorInv /\ RotateInv
    BY <1>1, TypesSplit DEF ControlInvariant
  <2>2. DOMAIN updates = 1..Len(updates) /\ Len(updates) \in Nat /\ offset \in Nat
    BY <2>1 DEF OtherTypes
  <2>3. ASSUME NEW p \in Callers, RotateStep(p)  PROVE Rightly(p)
    <3>1. /\ rot[p].pc # "idle" /\ UNCHANGED doorKey /\ offset' = offset
          /\ \/ token' = token
             \/ \E i \in rot[p].todo, o \in Outcomes : Result(p, i, o)
      BY <1>1, <2>3, RotateStepEffect DEF ControlInvariant, daemon
    <3>2. PICK i \in rot[p].todo, o \in Outcomes : Result(p, i, o)
      BY <1>1, <3>1
    <3>3. rot'[p] # rot[p] /\ rot'[p].who = rot[p].who
      BY <2>1, <3>2, ResultEffect
    <3>4. CASE p = "daemon"
      <4>1. /\ Current \in DOMAIN updates /\ IsOperator(Identity(updates[Current]))
            /\ rot["daemon"].who = Identity(updates[Current])
        BY <2>1, <2>2, <3>1, <3>4 DEF RotateInv
      <4>2. ForDaemon /\ IsOperator(rot'[p].who)
        BY <3>1, <3>3, <3>4, <4>1 DEF Current
      <4> QED  BY <3>3, <4>2
    <3>5. CASE p = "module"
      BY <2>1, <3>1, <3>3, <3>5 DEF RotateInv
    <3>6. CASE p = "cli"
      BY <3>3, <3>6
    <3> QED  BY <3>4, <3>5, <3>6 DEF Callers
  <2>4. CASE CliIssue
    <3>1. PICK names \in CliNames : StartRotate("cli", NoAssertion, <<"door-key">> \o names)
      BY <2>4 DEF CliIssue
    <3>2. rot["cli"].pc = "idle" /\ rot'["cli"].pc = "rotating"
      BY <2>1, <3>1, StartEffect DEF OtherTypes, Callers
    <3>3. Rightly("cli")
      BY <3>2
    <3> QED  BY <3>3 DEF Callers
  <2>5. CASE CapturedRotate
    <3>1. PICK said : /\ Authorized(ModuleAssertion(said))
                      /\ \E names \in ModuleNames :
                           StartRotate("module", ModuleAssertion(said), names)
      BY <2>5 DEF CapturedRotate
    <3>2. PICK names \in ModuleNames : StartRotate("module", ModuleAssertion(said), names)
      BY <3>1
    <3>3. /\ rot["module"].pc = "idle" /\ rot'["module"].pc = "rotating"
          /\ rot'["module"].who = ModuleAssertion(said)
      BY <2>1, <3>2, StartEffect DEF OtherTypes, Callers
    <3>4. Rightly("module")
      BY <3>1, <3>3, OnlyOperatorsAuthorized
    <3> QED  BY <3>4 DEF Callers
  <2>6. ASSUME NEW id \in 1..MAX_UPDATES, LookAt(id)  PROVE Rightly("daemon")
    <3>1. /\ Authorized(ModuleAssertion(Identity(updates[id])))
          /\ StartRotate("daemon", Identity(updates[id]), ROTATE_NAMES)
      BY <1>1, <2>6 DEF LookAt
    <3>2. id \in batch /\ offset' = Advance(id)
      BY <2>6 DEF LookAt, IsOldest
    <3>3. id \in DOMAIN updates /\ id >= offset /\ id \in Nat
      BY <2>1, <2>2, <3>2 DEF OtherTypes, CursorInv
    <3>4. offset' - 1 = id
      BY <2>2, <3>2, <3>3 DEF Advance
    <3>5. /\ rot["daemon"].pc = "idle" /\ rot'["daemon"].pc = "rotating"
          /\ rot'["daemon"].who = Identity(updates[id])
      BY <2>1, <3>1, StartEffect DEF OtherTypes, Callers
    <3>6. IsOperator(rot'["daemon"].who)
      BY <3>1, <3>5, OnlyOperatorsAuthorized
    <3> QED  BY <3>3, <3>4, <3>5, <3>6
  <2>7. CASE \/ PollReturns \/ PollFails \/ BackoffEnds \/ BatchEnds \/ DaemonRotateEnds
             \/ CliEnds \/ ModuleRotateEnds \/ SendUpdate \/ Restart \/ Tick \/ UNCHANGED vars
    BY <1>1, <2>7 DEF PollReturns, PollFails, BackoffEnds, BatchEnds, DaemonRotateEnds,
                      CliEnds, ModuleRotateEnds, SendUpdate, Restart, Tick, vars
  <2> HIDE DEF Rightly, Changed
  <2> QED  BY <1>1, <2>3, <2>4, <2>5, <2>6, <2>7 DEF Next, DaemonStep, Callers
<1>2. ControlInvariant /\ [Next]_vars =>
        [doorKey' # doorKey \/ token' # token =>
           \E p \in Callers :
             /\ rot'[p] # rot[p]
             /\ p # "cli" => IsOperator(rot'[p].who)
             /\ p = "daemon" => \E id \in DOMAIN updates :
                  id = offset' - 1 /\ rot'[p].who = Identity(updates[id])]_vars
  BY <1>1
<1> QED  BY <1>2, AlwaysInvariant, PTL DEF Spec, OnlyOperatorsRotate

=============================================================================
