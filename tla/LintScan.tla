------------------------------ MODULE LintScan ------------------------------
(***************************************************************************)
(* lint.mjs's view of a module's text: stripCommentsAndStrings,            *)
(* stripCommentsOnly, matchDelim and topLevelFirstArg, on which every rule *)
(* of the linter rests.  A text is a sequence of characters, one of each   *)
(* kind the scanners tell apart.  What the scanners should see is known    *)
(* from how the text came about: it is written piece by piece, by the      *)
(* lexical rules of JavaScript.  One kind of bracket stands for the three, *)
(* and one letter for what names and numbers are made of.                  *)
(***************************************************************************)
EXTENDS Integers, SequencesExt

CONSTANT MAX_PIECES   (* bound on the pieces of a text                     *)

ASSUME ScanAssumption == MAX_PIECES \in Nat

VARIABLES
  src,      (* the text written so far                                    *)
  kind,     (* of each character: "code", "comment", "string" or "regex"  *)
  lex,      (* what is being written                                      *)
  opened,   (* where its content began                                    *)
  prev,     (* the last character of code that is not space               *)
  pieces    (* how many pieces were written                               *)

vars == <<src, kind, lex, opened, prev, pieces>>

Nothing == ""
DoubleQuote == "dquote"
Backtick == "backtick"
Newline == "newline"
Space == "space"
Comma == "comma"
Quotes == {"'", DoubleQuote, Backtick}
Closing == [sq |-> "'", dq |-> DoubleQuote, tpl |-> Backtick, regex |-> "/"]
QuoteState(c) == CHOOSE state \in {"sq", "dq", "tpl"} : Closing[state] = c
Blanks == {Space, Newline}

CharAt(s, i) == IF i \in DOMAIN s THEN s[i] ELSE Nothing

----------------------------------------------------------------------------
(* The scanners.  A step reads one character or two, and says what is put  *)
(* out for them and in which state it leaves the scanner.                  *)

(* regexAllowedAfter.                                                      *)
RegexAllowedAfter(p) == p \notin {")", "a"}

Blanked(c) == IF c = Newline THEN Newline ELSE Space

Step(n, out, state, p) == [n |-> n, out |-> out, state |-> state, prev |-> p]

CodeStep(c, c2, p) ==
  CASE c = "/" /\ c2 = "/" -> Step(2, <<Space, Space>>, "line", p)
    [] c = "/" /\ c2 = "*" -> Step(2, <<Space, Space>>, "block", p)
    [] c \in Quotes -> Step(1, <<Space>>, QuoteState(c), p)
    [] c = "/" /\ c2 \notin {"/", "*"} /\ RegexAllowedAfter(p) -> Step(1, <<Space>>, "regex", p)
    [] OTHER -> Step(1, <<c>>, "code", IF c \in Blanks THEN p ELSE c)

CommentStep(c, c2, state, p) ==
  CASE state = "line" /\ c = Newline -> Step(1, <<Newline>>, "code", p)
    [] state = "block" /\ c = "*" /\ c2 = "/" -> Step(2, <<Space, Space>>, "code", p)
    [] OTHER -> Step(1, <<Blanked(c)>>, state, p)

(* Mutated: a backslash hides nothing.                                     *)
LiteralStepUnescaped(c, state, p) ==
  IF c = Closing[state] THEN Step(1, <<Space>>, "code", c)
  ELSE Step(1, <<Blanked(c)>>, state, p)

(* An escape is two characters, even if the text ends after the first.     *)
LiteralStep(c, state, p) ==
  CASE c = "\\" -> Step(2, <<Space, Space>>, state, p)
    [] c = Closing[state] -> Step(1, <<Space>>, "code", c)
    [] c = Newline /\ state = "regex" -> Step(1, <<Newline>>, "code", p)
    [] OTHER -> Step(1, <<Blanked(c)>>, state, p)

(* A string is copied, and there are no regular expressions.               *)
CopyingStep(c, c2, state, p) ==
  CASE state = "code" /\ c = "/" /\ c2 \in {"/", "*"} -> CodeStep(c, c2, p)
    [] state = "code" /\ ~(c = "/" /\ c2 \in {"/", "*"}) ->
         Step(1, <<c>>, IF c \in Quotes THEN QuoteState(c) ELSE "code", p)
    [] state # "code" /\ c = "\\" ->
         Step(2, IF c2 = Nothing THEN <<c>> ELSE <<c, c2>>, state, p)
    [] OTHER -> Step(1, <<c>>, IF c = Closing[state] THEN "code" ELSE state, p)

(* The two scanners are one loop, one that blanks and one that copies.     *)
ReadStep(copies, c, c2, state, p) ==
  CASE state \in {"line", "block"} -> CommentStep(c, c2, state, p)
    [] copies /\ state \notin {"line", "block"} -> CopyingStep(c, c2, state, p)
    [] ~copies /\ state = "code" -> CodeStep(c, c2, p)
    [] OTHER -> LiteralStep(c, state, p)

(* One round of the loop; the text may be read to its end already.         *)
Round(copies, s, r) ==
  IF r.i > Len(s) THEN r
  ELSE LET step == ReadStep(copies, s[r.i], CharAt(s, r.i + 1), r.state, r.prev)
       IN  [i |-> r.i + step.n, out |-> r.out \o step.out,
            state |-> step.state, prev |-> step.prev]

(* Where the scanner is after each number of rounds: with as many as there *)
(* are characters it is at the end.                                        *)
Rounds(copies, s) ==
  LET after[n \in Nat] ==
        IF n = 0 THEN [i |-> 1, out |-> <<>>, state |-> "code", prev |-> Nothing]
        ELSE Round(copies, s, after[n - 1])
  IN  after

StripCommentsAndStrings(s) == Rounds(FALSE, s)[Len(s)].out
StripCommentsOnly(s) == Rounds(TRUE, s)[Len(s)].out

(* Where the delimiter opened at index open is closed, or 0.                   *)
MatchDelim(s, open, openCh, closeCh) ==
  LET Count(ch, i) == Cardinality({k \in open..i : s[k] = ch})
      closed == {i \in open..Len(s) :
                   s[i] = closeCh /\ Count(openCh, i) = Count(closeCh, i)}
  IN  IF closed = {} THEN 0 ELSE Min(closed)

Moved(r, n, turn, quote) ==
  [i |-> r.i + n, depth |-> r.depth + turn, quote |-> quote, found |-> 0]

(* Mutated: a comma in a string is not told from one between arguments.    *)
LookInStrings(args, ch, r) ==
  CASE args[r.i] = "(" -> Moved(r, 1, 1, Nothing)
    [] args[r.i] = ")" -> Moved(r, 1, -1, Nothing)
    [] args[r.i] = ch /\ r.depth = 0 -> [r EXCEPT !.found = r.i]
    [] OTHER -> Moved(r, 1, 0, Nothing)

(* One round of topLevelFirstArg and containsTopLevelPlus.                 *)
Look(args, ch, r) ==
  LET c == args[r.i] IN
    CASE r.quote # Nothing /\ c = "\\" -> Moved(r, 2, 0, r.quote)
      [] r.quote # Nothing /\ c # "\\" ->
           Moved(r, 1, 0, IF c = r.quote THEN Nothing ELSE r.quote)
      [] r.quote = Nothing /\ c \in Quotes -> Moved(r, 1, 0, c)
      [] r.quote = Nothing /\ c = "(" -> Moved(r, 1, 1, Nothing)
      [] r.quote = Nothing /\ c = ")" -> Moved(r, 1, -1, Nothing)
      [] r.quote = Nothing /\ c = ch /\ r.depth = 0 -> [r EXCEPT !.found = r.i]
      [] OTHER -> Moved(r, 1, 0, Nothing)

Looks(args, ch) ==
  LET after[n \in Nat] ==
        IF n = 0 THEN [i |-> 1, depth |-> 0, quote |-> Nothing, found |-> 0]
        ELSE LET r == after[n - 1]
             IN  IF r.i > Len(args) \/ r.found # 0 THEN r ELSE Look(args, ch, r)
  IN  after

(* The first ch outside brackets and strings, or 0: topLevelFirstArg ends  *)
(* at the first comma, containsTopLevelPlus asks for a plus.               *)
TopLevel(args, ch) == Looks(args, ch)[Len(args)].found

TopLevelFirstArg(args) ==
  LET comma == TopLevel(args, Comma)
  IN  IF comma = 0 THEN args ELSE SubSeq(args, 1, comma - 1)

ContainsTopLevelPlus(args) == TopLevel(args, "+") # 0

----------------------------------------------------------------------------
(* The writer.                                                             *)

Write(piece, k, next) ==
  /\ pieces < MAX_PIECES
  /\ pieces' = pieces + 1
  /\ src' = src \o piece
  /\ kind' = kind \o [i \in 1..Len(piece) |-> k]
  /\ lex' = next
  /\ opened' = IF next = lex THEN opened ELSE Len(src')

(* The last character is a division sign, which a "/" would turn into the  *)
(* beginning of a comment.                                                 *)
AfterDivision == src # <<>> /\ Last(src) = "/" /\ Last(kind) = "code"

WriteCode(c) ==
  /\ lex = "code"
  /\ Write(<<c>>, "code", "code")
  /\ prev' = IF c = Newline THEN prev ELSE c

(* A division follows an operand.  (The scanner takes a slash after a      *)
(* string or after another division for a regular expression, and one      *)
(* after a keyword or a condition for a division, a heuristic by its own   *)
(* comment: such texts are not written.)                                   *)
WriteDivision ==
  /\ lex = "code" /\ prev \in {"a", ")"}
  /\ ~AfterDivision
  /\ Write(<<"/">>, "code", "code")
  /\ prev' = "/"

OpenComment(mark, next) ==
  /\ lex = "code" /\ ~AfterDivision
  /\ Write(<<"/", mark>>, "comment", next)
  /\ UNCHANGED prev

OpenString(c) ==
  /\ lex = "code"
  /\ Write(<<c>>, "string", QuoteState(c))
  /\ UNCHANGED prev

(* A regular expression begins where an operand is due, and not with "*".  *)
OpenRegex ==
  /\ lex = "code" /\ prev \in {Nothing, "(", Comma, "+"}
  /\ Write(<<"/", "a">>, "regex", "regex")
  /\ UNCHANGED prev

InComment(c) ==
  /\ lex \in {"line", "block"}
  /\ lex = "line" => c # Newline
  /\ lex = "block" /\ Len(src) > opened /\ Last(src) = "*" => c # "/"
  /\ Write(<<c>>, "comment", lex)
  /\ UNCHANGED prev

CloseComment ==
  /\ \/ lex = "line" /\ Write(<<Newline>>, "code", "code")
     \/ lex = "block" /\ Write(<<"*", "/">>, "comment", "code")
  /\ UNCHANGED prev

Kind == IF lex = "regex" THEN "regex" ELSE "string"

InLiteral(c) ==
  /\ lex \in DOMAIN Closing
  /\ c \notin {Closing[lex], "\\"} /\ (c = Newline => lex = "tpl")
  /\ Write(<<c>>, Kind, lex)
  /\ UNCHANGED prev

Escape(c) ==
  /\ lex \in DOMAIN Closing
  /\ c = Newline => lex # "regex"
  /\ Write(<<"\\", c>>, Kind, lex)
  /\ UNCHANGED prev

CloseLiteral ==
  /\ lex \in DOMAIN Closing
  /\ Write(<<Closing[lex]>>, Kind, "code")
  /\ prev' = Closing[lex]

Init ==
  /\ src = <<>> /\ kind = <<>> /\ lex = "code" /\ opened = 0
  /\ prev = Nothing /\ pieces = 0

Next ==
  \/ \E c \in {"a", "+", Comma, "(", ")", Newline} : WriteCode(c)
  \/ WriteDivision \/ OpenRegex
  \/ OpenComment("/", "line") \/ OpenComment("*", "block")
  \/ \E c \in Quotes : OpenString(c)
  \/ \E c \in {"a", "'", "/", "*", "\\", Newline} : InComment(c)
  \/ CloseComment
  \/ \E c \in {Comma, "+", "(", "'", DoubleQuote, "/", "*", Newline} : InLiteral(c)
  \/ \E c \in {"\\", "'", "/", Newline} : Escape(c)
  \/ CloseLiteral

Spec == Init /\ [][Next]_vars

----------------------------------------------------------------------------

Written(k) == \E i \in DOMAIN kind : kind[i] = k

(* "Positions align because stripping is 1:1 length" (lint.mjs 214): what  *)
(* the rules look at is the code, all of it and at its place, and nothing  *)
(* but the code; and a specifier is looked for in the code and the strings.*)
(* (stripCommentsOnly knows no regular expressions: a text with one is     *)
(* left out there.)                                                        *)
ViewsAreExact ==
  LET stripped == StripCommentsAndStrings(src)
      rawNC == StripCommentsOnly(src)
  IN  /\ Len(stripped) = Len(src)
      /\ \A i \in DOMAIN src : IF kind[i] = "code" THEN stripped[i] = src[i]
                                                   ELSE stripped[i] \in Blanks
      /\ ~Written("regex") =>
           /\ Len(rawNC) = Len(src)
           /\ \A i \in DOMAIN src : IF kind[i] # "comment" THEN rawNC[i] = src[i]
                                                           ELSE rawNC[i] \in Blanks

(* How deep in brackets the i-th character after the first is.             *)
Depth(i) ==
  Cardinality({k \in 2..i : kind[k] = "code" /\ src[k] = "("})
    - Cardinality({k \in 2..i : kind[k] = "code" /\ src[k] = ")"})

Between(ch, close) ==
  {i \in 2..close - 1 : kind[i] = "code" /\ src[i] = ch /\ Depth(i) = 0}

(* lintExecCalls: the arguments of a call end where the writer closed its  *)
(* parenthesis; the first one ends where the first comma between arguments *)
(* is, and it is a concatenation when there is a plus in it, although both *)
(* are looked for in the raw text, with its strings.  (Comments and regular*)
(* expressions are not told from code there, so a text with one is left    *)
(* out of the last two.)                                                   *)
ArgumentsAreFound ==
  src # <<>> /\ src[1] = "(" /\ lex = "code" =>
    LET closed == {i \in 2..Len(src) : kind[i] = "code" /\ src[i] = ")" /\ Depth(i) < 0}
        close == MatchDelim(StripCommentsAndStrings(src), 1, "(", ")")
        firstArg == TopLevelFirstArg(SubSeq(src, 2, close - 1))
        end == Min(Between(Comma, close) \union {close})
    IN  /\ close = IF closed = {} THEN 0 ELSE Min(closed)
        /\ close # 0 /\ ~Written("comment") /\ ~Written("regex") =>
             /\ firstArg = SubSeq(src, 2, end - 1)
             /\ ContainsTopLevelPlus(firstArg) <=> Between("+", end) # {}
============================================================================
