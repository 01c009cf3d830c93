--------------------------- MODULE MCControlPlane ---------------------------
EXTENDS ControlPlane

(* The operator in a shared group and in a private chat; another member of *)
(* the group; and a message that is no gesture, without a sender.          *)
MCUpdates ==
  {[isIssue |-> TRUE, chatId |-> "group", senderId |-> "operator"],
   [isIssue |-> TRUE, chatId |-> "dm", senderId |-> "dm"],
   [isIssue |-> TRUE, chatId |-> "group", senderId |-> "member"],
   [isIssue |-> FALSE, chatId |-> "dm", senderId |-> NoId]}

MCCliNames == {<<>>, <<"ping", "github">>}

(* Tokens with no known expiry, already expired, shorter than the minimum  *)
(* and longer than the lifetime asked for.                                 *)
MCLifetimes == {NoExpiry, 0, 1, 4}

(* What a module on its own account asks for: the default, the door-key.   *)
MCModuleNames == {<<>>}

(* The daemon asks for a lifetime; the CLI's KEY_TTL_SEC is 0, for ever.   *)
MCTtl == [p \in Callers |-> IF p = "daemon" THEN 2 ELSE 0]

(* Nobody calls rotate but the daemon.                                     *)
MCNobody == {}
=============================================================================
