------------------------------- MODULE MCBoot -------------------------------
(* Boot for TLC: every directory of three files under one environment, and *)
(* every environment over three variables, A, A_F and A_F_F ("_F" is the   *)
(* suffix), with .env files of up to two lines, for one directory.         *)
EXTENDS Boot

MCUpper == "a" :> "A" @@ "b" :> "B"

MCModuleNames ==
  (BoundedSeq({"a", "b", "-", "_"}, 2) \ {<<>>}) \cup {<<"a", "-", "b">>}
MCEnvKeys == BoundedSeq({"A", "B", "_"}, 4) \cup {<<"A", "_", "F">>}
MCStoreKeys == BoundedSeq({"a", ":"}, 2)
MCReservedName == <<"b">>

MCFileSuffix == <<"_", "F">>
MCContents == "path" :> "secret" @@ "other" :> "path" @@ "third" :> "other"
MCDaemons == {<<"a">>, <<"a", "b">>, <<"b", "-">>}

Keys == {<<"A">>, <<"A", "_", "F">>, <<"A", "_", "F", "_", "F">>}
EnvValues == {"", "v", "path", "other"}
RealEnvs == UNION {[D -> EnvValues] : D \in SUBSET Keys}
Lines == {Ignored} \cup [key : {<<"A">>, <<"A", "_", "F">>}, value : {"", "path"}]

(* A chain of files that name files.                                       *)
DeepKeys == Keys \cup {<<"A", "_", "F", "_", "F", "_", "F">>}
DeepEnvs == UNION {[D -> {"", "third"}] : D \in SUBSET DeepKeys}

OneDir == [f \in Files |-> [kind |-> "module", name |-> IF f = 1 THEN <<"a">> ELSE <<"b", "-">>]]
OneEnv == <<"A">> :> "v"

MCSetups ==
  [real : {OneEnv}, lines : {<<>>}, dir : [Files -> FileTypes]]
    \cup [real : DeepEnvs, lines : {<<>>},
          dir : {[f \in Files |-> [kind |-> "skipped"]]}]
    \cup [real : RealEnvs, lines : BoundedSeq(Lines, 2),
          dir : {[OneDir EXCEPT ![3] = [kind |-> "skipped"]]}]
============================================================================
