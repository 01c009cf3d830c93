--------------------------- MODULE LintScanProofs ---------------------------
(***************************************************************************)
(* Proofs about LintScan, for texts of any length.  What the scanners make *)
(* of a text is found by going along with its writer: whatever may be      *)
(* written yet, they get to the end of what has been written in the state  *)
(* it was left in.                                                         *)
(***************************************************************************)
EXTENDS LintScan, FiniteSetTheorems, SequenceTheorems, WellFoundedInduction, TLAPS

----------------------------------------------------------------------------
(* The loops.                                                              *)

LEMMA LeastNumber ==
  ASSUME NEW S \in SUBSET Nat, S # {}
  PROVE  \E n \in S : \A m \in S : n <= m
<1>1. PICK n \in S : \A m \in S : ~(<<m, n>> \in OpToRel(<, Nat))
  BY NatLessThanWellFounded, WFMin
<1>2. \A m \in S : ~(m < n)
  BY <1>1 DEF OpToRel
<1> QED  BY <1>2

Start == [i |-> 1, out |-> <<>>, state |-> "code", prev |-> Nothing]

(* The rounds of a scanner are what their definition says, one by one.     *)
LEMMA RoundByRound ==
  ASSUME NEW copies, NEW s
  PROVE  /\ Rounds(copies, s)[0] = Start
         /\ \A n \in Nat : Rounds(copies, s)[n + 1] = Round(copies, s, Rounds(copies, s)[n])
<1> DEFINE Runs(n, g) == /\ g[0] = Start
                         /\ \A k \in 0..n - 1 : g[k + 1] = Round(copies, s, g[k])
<1>1. ASSUME NEW n \in Nat  PROVE \E g : Runs(n, g)
  <2> DEFINE S == {m \in Nat : ~\E g : Runs(m, g)}
  <2> SUFFICES ASSUME S # {}  PROVE FALSE
    OBVIOUS
  <2>1. PICK m \in S : \A k \in S : m <= k
    <3> HIDE DEF S
    <3> QED  BY LeastNumber DEF S
  <2>2. CASE m = 0
    <3>1. Runs(0, [k \in {0} |-> Start])
      OBVIOUS
    <3> QED  BY <2>1, <2>2, <3>1
  <2>3. CASE m # 0
    <3>1. m - 1 \in Nat /\ m - 1 \notin S
      BY <2>1, <2>3
    <3>2. PICK g : Runs(m - 1, g)
      BY <3>1
    <3> DEFINE h == [k \in 0..m |-> IF k = m THEN Round(copies, s, g[m - 1]) ELSE g[k]]
    <3>3. h[0] = Start
      BY <2>1, <2>3, <3>2
    <3>4. ASSUME NEW k \in 0..m - 1  PROVE h[k + 1] = Round(copies, s, h[k])
      BY <2>1, <2>3, <3>2, <3>4
    <3> QED  BY <2>1, <3>3, <3>4
  <2> QED  BY <2>2, <2>3
<1>2. ASSUME NEW n \in Nat, NEW m \in Nat, NEW g, NEW h, Runs(n, g), Runs(m, h),
             NEW k \in Nat, k <= n, k <= m
      PROVE  g[k] = h[k]
  <2> DEFINE S == {j \in Nat : j <= n /\ j <= m /\ g[j] # h[j]}
  <2> SUFFICES ASSUME S # {}  PROVE FALSE
    BY <1>2
  <2>1. PICK j \in S : \A i \in S : j <= i
    <3> HIDE DEF S
    <3> QED  BY LeastNumber DEF S
  <2>2. j # 0
    BY <1>2, <2>1
  <2>3. j - 1 \in Nat /\ j - 1 \notin S
    BY <2>1, <2>2
  <2>4. g[j - 1] = h[j - 1]
    BY <2>1, <2>3
  <2>5. j - 1 \in 0..n - 1 /\ j - 1 \in 0..m - 1 /\ (j - 1) + 1 = j
    BY <2>1, <2>2
  <2>6. g[j] = Round(copies, s, g[j - 1]) /\ h[j] = Round(copies, s, h[j - 1])
    BY <1>2, <2>5
  <2> QED  BY <2>1, <2>4, <2>6
<1> DEFINE G(n) == CHOOSE g : Runs(n, g)
           f == [n \in Nat |-> G(n)[n]]
<1>3. \A n \in Nat : Runs(n, G(n))
  BY <1>1
<1>4. f[0] = Start
  <2>1. G(0)[0] = Start
    BY <1>3
  <2> HIDE DEF G
  <2> QED  BY <2>1
<1>5. ASSUME NEW n \in Nat  PROVE f[n + 1] = Round(copies, s, f[n])
  <2>1. Runs(n, G(n)) /\ Runs(n + 1, G(n + 1))
    BY <1>3
  <2>2. G(n + 1)[n] = G(n)[n]
    <3> HIDE DEF Runs, G
    <3> QED  BY <1>2, <2>1
  <2>3. G(n + 1)[n + 1] = Round(copies, s, G(n + 1)[n])
    BY <2>1
  <2> HIDE DEF G
  <2> QED  BY <2>2, <2>3
<1>6. f = [n \in Nat |-> IF n = 0 THEN Start ELSE Round(copies, s, f[n - 1])]
  <2> HIDE DEF G
  <2> SUFFICES ASSUME NEW n \in Nat, n # 0  PROVE f[n] = Round(copies, s, f[n - 1])
    BY <1>4
  <2>1. n - 1 \in Nat /\ (n - 1) + 1 = n
    OBVIOUS
  <2> HIDE DEF f
  <2> QED  BY <1>5, <2>1
<1> HIDE DEF f
<1>7. Rounds(copies, s)
        = [n \in Nat |-> IF n = 0 THEN Start ELSE Round(copies, s, Rounds(copies, s)[n - 1])]
  BY <1>6 DEF Rounds, Start
<1> HIDE DEF Runs
<1> QED  BY <1>7

(* A scanner that has read its text stays where it is.                     *)
LEMMA ReadToTheEnd ==
  ASSUME NEW copies, NEW s, NEW n \in Nat, NEW m \in Nat, n <= m,
         Rounds(copies, s)[n].i > Len(s)
  PROVE  Rounds(copies, s)[m] = Rounds(copies, s)[n]
<1> DEFINE S == {j \in Nat : n <= j /\ Rounds(copies, s)[j] # Rounds(copies, s)[n]}
<1> SUFFICES ASSUME S # {}  PROVE FALSE
  OBVIOUS
<1>1. PICK j \in S : \A i \in S : j <= i
  <2> HIDE DEF S
  <2> QED  BY LeastNumber DEF S
<1>2. j # n
  BY <1>1
<1>3. j - 1 \in Nat /\ n <= j - 1 /\ j - 1 \notin S /\ (j - 1) + 1 = j
  BY <1>1, <1>2
<1>4. Rounds(copies, s)[j - 1] = Rounds(copies, s)[n]
  BY <1>3
<1>5. Rounds(copies, s)[j] = Round(copies, s, Rounds(copies, s)[j - 1])
  BY <1>3, RoundByRound
<1>6. Round(copies, s, Rounds(copies, s)[n]) = Rounds(copies, s)[n]
  BY DEF Round
<1> QED  BY <1>1, <1>4, <1>5, <1>6

----------------------------------------------------------------------------
(* The writer.                                                             *)

Char == {"a", "+", "comma", "(", ")", "newline", "space", "/", "*", "\\"} \cup Quotes
Text == Seq(Char)
Kinds == {"code", "comment", "string", "regex"}

(* What the writer keeps: it has put a slash between two operands only     *)
(* where it still knows of it.                                             *)
WriterInv ==
  /\ src \in Text /\ kind \in Seq(Kinds) /\ Len(kind) = Len(src)
  /\ lex \in {"code", "line", "block", "sq", "dq", "tpl", "regex"}
  /\ opened \in 0..Len(src)
  /\ AfterDivision => lex = "code" /\ prev = "/"
  /\ lex = "regex" => Written("regex")

(* Which character may be written next, or that the text ends.             *)
Follows(s, ks, state, o, c) ==
  /\ s # <<>> /\ Last(s) = "/" /\ Last(ks) = "code" => c \notin {"/", "*"}
  /\ state = "block" /\ Len(s) > o /\ Last(s) = "*" => c # "/"

MayFollow(c) == Follows(src, kind, lex, opened, c)
MayFollowNext(c) == Follows(src', kind', lex', opened', c)

(* An action of the writer, without what it says of its place.             *)
Writes(piece, k, next) ==
  /\ src' = src \o piece
  /\ kind' = kind \o [i \in 1..Len(piece) |-> k]
  /\ lex' = next
  /\ opened' = IF next = lex THEN opened ELSE Len(src')

LEMMA WriteWrites ==
  ASSUME NEW piece, NEW k, NEW next, Write(piece, k, next)
  PROVE  Writes(piece, k, next)
BY DEF Write, Writes

LEMMA Pieces ==
  ASSUME NEW c \in Char, NEW c2 \in Char
  PROVE  /\ <<c>> \in Text /\ Len(<<c>>) = 1 /\ <<c>>[1] = c
         /\ <<c, c2>> \in Text /\ Len(<<c, c2>>) = 2 /\ <<c, c2>>[1] = c /\ <<c, c2>>[2] = c2
BY DEF Text

LEMMA WhatIsWritten ==
  ASSUME WriterInv, NEW piece \in Text, Len(piece) \in {1, 2}, NEW k \in Kinds, NEW next,
         Writes(piece, k, next)
  PROVE  /\ src' \in Text /\ Len(src') = Len(src) + Len(piece)
         /\ kind' \in Seq(Kinds) /\ Len(kind') = Len(src')
         /\ \A i \in 1..Len(src) : src'[i] = src[i] /\ kind'[i] = kind[i]
         /\ \A i \in 1..Len(piece) : src'[Len(src) + i] = piece[i] /\ kind'[Len(src) + i] = k
         /\ Last(src') = piece[Len(piece)] /\ Last(kind') = k
<1> DEFINE ks == [i \in 1..Len(piece) |-> k]
<1>1. ks \in Seq(Kinds) /\ Len(ks) = Len(piece) /\ \A i \in 1..Len(piece) : ks[i] = k
  <2>1. CASE Len(piece) = 1
    <3>1. ks = <<k>>
      BY <2>1
    <3> HIDE DEF ks
    <3> QED  BY <2>1, <3>1
  <2>2. CASE Len(piece) = 2
    <3>1. ks = <<k, k>>
      BY <2>2
    <3> HIDE DEF ks
    <3> QED  BY <2>2, <3>1
  <2> QED  BY <2>1, <2>2
<1>2. src' = src \o piece /\ kind' = kind \o ks
  BY DEF Writes
<1> HIDE DEF ks
<1>3. /\ src' \in Text /\ Len(src') = Len(src) + Len(piece)
      /\ \A i \in 1..Len(src) : src'[i] = src[i]
      /\ \A i \in 1..Len(piece) : src'[Len(src) + i] = piece[i]
  BY <1>2 DEF WriterInv, Text
<1>4. /\ kind' \in Seq(Kinds) /\ Len(kind') = Len(src) + Len(piece)
      /\ \A i \in 1..Len(src) : kind'[i] = kind[i]
      /\ \A i \in 1..Len(piece) : kind'[Len(src) + i] = k
  <2>1. kind \in Seq(Kinds) /\ Len(kind) = Len(src) /\ Len(src) \in Nat
    BY DEF WriterInv, Text
  <2>2. /\ kind \o ks \in Seq(Kinds) /\ Len(kind \o ks) = Len(kind) + Len(ks)
        /\ \A i \in 1..Len(kind) + Len(ks) :
             (kind \o ks)[i] = IF i <= Len(kind) THEN kind[i] ELSE ks[i - Len(kind)]
    BY <1>1, <2>1, ConcatProperties
  <2>3. ASSUME NEW i \in 1..Len(piece)  PROVE (kind \o ks)[Len(src) + i] = k
    <3>1. /\ Len(src) + i \in 1..Len(kind) + Len(ks) /\ ~(Len(src) + i <= Len(kind))
          /\ (Len(src) + i) - Len(kind) = i
      BY <1>1, <2>1
    <3> QED  BY <1>1, <2>2, <3>1
  <2> QED  BY <1>1, <1>2, <2>1, <2>2, <2>3
<1>5. Last(src') = piece[Len(piece)] /\ Last(kind') = k
  <2>1. Len(piece) \in 1..Len(piece)
    OBVIOUS
  <2> QED  BY <1>3, <1>4, <2>1 DEF Last
<1> QED  BY <1>3, <1>4, <1>5

(* What a piece leaves of the writer's invariant to show.                  *)
LEMMA KeepsInv ==
  ASSUME WriterInv, NEW piece \in Text, Len(piece) \in {1, 2}, NEW k \in Kinds,
         NEW next \in {"code", "line", "block", "sq", "dq", "tpl", "regex"},
         Writes(piece, k, next),
         k = "code" /\ piece[Len(piece)] = "/" => next = "code" /\ prev' = "/",
         next = "regex" => lex = "regex" \/ k = "regex"
  PROVE  WriterInv'
<1>1. /\ src' \in Text /\ Len(src') = Len(src) + Len(piece)
      /\ kind' \in Seq(Kinds) /\ Len(kind') = Len(src')
      /\ \A i \in 1..Len(src) : src'[i] = src[i] /\ kind'[i] = kind[i]
      /\ \A i \in 1..Len(piece) : src'[Len(src) + i] = piece[i] /\ kind'[Len(src) + i] = k
      /\ Last(src') = piece[Len(piece)] /\ Last(kind') = k
  BY WhatIsWritten
<1>2. lex' = next /\ opened' \in 0..Len(src')
  BY <1>1 DEF Writes, WriterInv, Text
<1>3. AfterDivision' => lex' = "code" /\ prev' = "/"
  <2>1. AfterDivision' => Last(src)' = "/" /\ Last(kind)' = "code"
    BY DEF AfterDivision
  <2> QED  BY <1>1, <1>2, <2>1
<1>5. /\ DOMAIN kind = 1..Len(src) /\ DOMAIN kind' = 1..Len(src')
      /\ Len(src) \in Nat /\ Len(src') = Len(src) + Len(piece)
  <2>1. Len(src) \in Nat /\ kind \in Seq(Kinds) /\ Len(kind) = Len(src)
    BY DEF WriterInv, Text
  <2> QED  BY <1>1, <2>1, LenProperties
<1>4. lex' = "regex" => Written("regex")'
  <2>1. CASE lex = "regex"
    <3>1. PICK i \in DOMAIN kind : kind[i] = "regex"
      BY <2>1 DEF WriterInv, Written
    <3>2. i \in DOMAIN kind' /\ kind'[i] = "regex"
      BY <1>1, <1>5, <3>1
    <3> QED  BY <3>2 DEF Written
  <2>2. CASE k = "regex"
    <3>1. Len(src) + 1 \in DOMAIN kind' /\ 1 \in 1..Len(piece)
      BY <1>5
    <3>2. kind'[Len(src) + 1] = "regex"
      BY <1>1, <2>2, <3>1
    <3> QED  BY <3>1, <3>2 DEF Written
  <2> QED  BY <1>2, <2>1, <2>2
<1> QED  BY <1>1, <1>2, <1>3, <1>4 DEF WriterInv

LEMMA Characters ==
  /\ Quotes = {"'", "dquote", "backtick"} /\ Blanks = {"space", "newline"} /\ Nothing = ""
  /\ DoubleQuote = "dquote" /\ Backtick = "backtick" /\ Newline = "newline"
  /\ Space = "space" /\ Comma = "comma"
  /\ DOMAIN Closing = {"sq", "dq", "tpl", "regex"}
  /\ Closing["sq"] = "'" /\ Closing["dq"] = "dquote" /\ Closing["tpl"] = "backtick"
  /\ Closing["regex"] = "/"
  /\ QuoteState("'") = "sq" /\ QuoteState("dquote") = "dq" /\ QuoteState("backtick") = "tpl"
  /\ \A c : Blanked(c) \in Blanks
<1>1. /\ DOMAIN Closing = {"sq", "dq", "tpl", "regex"}
      /\ Closing["sq"] = "'" /\ Closing["dq"] = "dquote" /\ Closing["tpl"] = "backtick"
      /\ Closing["regex"] = "/"
  BY DEF Closing, DoubleQuote, Backtick
<1>2. /\ QuoteState("'") = "sq" /\ QuoteState("dquote") = "dq"
      /\ QuoteState("backtick") = "tpl"
  BY <1>1 DEF QuoteState
<1>3. \A c : Blanked(c) \in Blanks
  BY DEF Blanked, Blanks, Newline, Space
<1> QED  BY <1>1, <1>2, <1>3 DEF Quotes, Blanks, Nothing, DoubleQuote, Backtick, Newline, Space, Comma

----------------------------------------------------------------------------
(* The views.                                                              *)

(* What a scanner shows: the code, or the code and the strings.            *)
Seen(copies, k) == IF copies THEN k # "comment" ELSE k = "code"

ShownAs(copies, k, c, d) == IF Seen(copies, k) THEN d = c ELSE d \in Blanks

Shows(copies, s, ks, out) ==
  /\ out \in Text /\ Len(out) = Len(s)
  /\ \A i \in 1..Len(s) : ShownAs(copies, ks[i], s[i], out[i])

(* A scanner is where a writer is.                                         *)
Is(copies, r, i, state, p) == /\ r.i = i /\ r.state = state
                              /\ ~copies => r.prev = p

(* When t follows a text s of these kinds, it gets to the end of s.        *)
Reads(copies, s, ks, state, p, t) ==
  \E n \in 0..Len(s) : /\ Is(copies, Rounds(copies, s \o t)[n], Len(s) + 1, state, p)
                       /\ Shows(copies, s, ks, Rounds(copies, s \o t)[n].out)

(* Whatever is written next, the scanner gets to the end of what there is. *)
ReadsOn(copies) ==
  \A t \in Text : MayFollow(CharAt(t, 1)) => Reads(copies, src, kind, lex, prev, t)

(* A piece is read right, if what was written before was.                  *)
LEMMA PieceByPiece ==
  ASSUME WriterInv, NEW copies, ReadsOn(copies),
         NEW piece \in Text, Len(piece) \in {1, 2}, NEW k \in Kinds, NEW next,
         Writes(piece, k, next), MayFollow(piece[1]),
         \A t \in Text, n \in Nat :
           /\ MayFollowNext(CharAt(t, 1))
           /\ Is(copies, Rounds(copies, src' \o t)[n], Len(src) + 1, lex, prev)
           /\ Rounds(copies, src' \o t)[n].out \in Text
           => \E m \in 1..Len(piece), out \in Text :
                /\ Is(copies, Rounds(copies, src' \o t)[n + m], Len(src') + 1, lex', prev')
                /\ Rounds(copies, src' \o t)[n + m].out
                     = Rounds(copies, src' \o t)[n].out \o out
                /\ Len(out) = Len(piece)
                /\ \A i \in 1..Len(piece) : ShownAs(copies, k, piece[i], out[i])
  PROVE  ReadsOn(copies)'
<1> SUFFICES ASSUME NEW t \in Text, MayFollowNext(CharAt(t, 1))
             PROVE  Reads(copies, src', kind', lex', prev', t)
  BY DEF ReadsOn, MayFollow, MayFollowNext
<1>1. /\ src' \in Text /\ Len(src') = Len(src) + Len(piece)
      /\ \A i \in 1..Len(src) : src'[i] = src[i] /\ kind'[i] = kind[i]
      /\ \A i \in 1..Len(piece) : src'[Len(src) + i] = piece[i] /\ kind'[Len(src) + i] = k
  BY WhatIsWritten
<1>2. src \in Text /\ Len(src) \in Nat
  BY DEF WriterInv, Text
<1>3. /\ piece \o t \in Text /\ src' \o t = src \o (piece \o t)
      /\ CharAt(piece \o t, 1) = piece[1]
  <2>1. src' \o t = src \o (piece \o t)
    BY <1>2, ConcatAssociative DEF Writes, Text
  <2>2. /\ piece \o t \in Text /\ Len(piece \o t) = Len(piece) + Len(t)
        /\ \A i \in 1..Len(piece) + Len(t) :
             (piece \o t)[i] = IF i <= Len(piece) THEN piece[i] ELSE t[i - Len(piece)]
    BY ConcatProperties DEF Text
  <2>3. 1 \in DOMAIN (piece \o t) /\ (piece \o t)[1] = piece[1]
    BY <2>2, LenProperties DEF Text
  <2> QED  BY <2>1, <2>2, <2>3 DEF CharAt
<1> DEFINE after(n) == Rounds(copies, src' \o t)[n]
<1>4. PICK n \in 0..Len(src) : /\ Is(copies, after(n), Len(src) + 1, lex, prev)
                               /\ Shows(copies, src, kind, after(n).out)
  BY <1>3 DEF ReadsOn, Reads
<1>5. PICK m \in 1..Len(piece), out \in Text :
        /\ Is(copies, after(n + m), Len(src') + 1, lex', prev')
        /\ after(n + m).out = after(n).out \o out
        /\ Len(out) = Len(piece)
        /\ \A i \in 1..Len(piece) : ShownAs(copies, k, piece[i], out[i])
  <2>1. n \in Nat /\ after(n).out \in Text
    BY <1>2, <1>4 DEF Shows
  <2> QED  BY <1>4, <2>1, Zenon
<1> HIDE DEF after
<1>6. Shows(copies, src', kind', after(n + m).out)
  <2> DEFINE old == after(n).out
             new == after(n + m).out
  <2>1. /\ old \in Text /\ Len(old) = Len(src)
        /\ \A i \in 1..Len(src) : ShownAs(copies, kind[i], src[i], old[i])
    BY <1>4 DEF Shows
  <2>2. new = old \o out
    BY <1>5
  <2> HIDE DEF old, new
  <2>3. /\ new \in Text /\ Len(new) = Len(src) + Len(piece)
        /\ \A i \in 1..Len(src) + Len(piece) :
             new[i] = IF i <= Len(src) THEN old[i] ELSE out[i - Len(src)]
    <3>1. /\ old \o out \in Text /\ Len(old \o out) = Len(old) + Len(out)
          /\ \A i \in 1..Len(old) + Len(out) :
               (old \o out)[i] = IF i <= Len(old) THEN old[i] ELSE out[i - Len(old)]
      BY <2>1, ConcatProperties DEF Text
    <3> QED  BY <1>5, <2>1, <2>2, <3>1
  <2>4. ASSUME NEW i \in 1..Len(src')  PROVE ShownAs(copies, kind'[i], src'[i], new[i])
    <3>1. CASE i <= Len(src)
      <4>1. i \in 1..Len(src) /\ new[i] = old[i]
        BY <1>1, <1>2, <2>3, <3>1
      <4> QED  BY <1>1, <2>1, <4>1
    <3>2. CASE ~(i <= Len(src))
      <4>1. /\ i - Len(src) \in 1..Len(piece) /\ Len(src) + (i - Len(src)) = i
            /\ new[i] = out[i - Len(src)]
        BY <1>1, <1>2, <2>3, <3>2
      <4>2. src'[i] = piece[i - Len(src)] /\ kind'[i] = k
        BY <1>1, <4>1
      <4> QED  BY <1>5, <4>1, <4>2
    <3> QED  BY <3>1, <3>2
  <2>5. Shows(copies, src', kind', new)
    BY <1>1, <2>3, <2>4 DEF Shows
  <2> QED  BY <2>5 DEF new
<1>7. n + m \in 0..Len(src')
  BY <1>1, <1>2
<1> QED  BY <1>5, <1>6, <1>7 DEF after, Reads

(* One that is read in one round.                                          *)
LEMMA RoundByPiece ==
  ASSUME WriterInv, NEW copies, ReadsOn(copies),
         NEW piece \in Text, Len(piece) \in {1, 2}, NEW k \in Kinds, NEW next,
         Writes(piece, k, next), MayFollow(piece[1]),
         \A c2, p :
           /\ IF Len(piece) = 2 THEN c2 = piece[2] ELSE MayFollowNext(c2)
           /\ ~copies => p = prev
           => \E out \in Text : \E q :
                /\ ReadStep(copies, piece[1], c2, lex, p) = Step(Len(piece), out, next, q)
                /\ ~copies => q = prev'
                /\ Len(out) = Len(piece)
                /\ \A i \in 1..Len(piece) : ShownAs(copies, k, piece[i], out[i])
  PROVE  ReadsOn(copies)'
<1>1. ASSUME NEW t \in Text, NEW n \in Nat, MayFollowNext(CharAt(t, 1)),
             Is(copies, Rounds(copies, src' \o t)[n], Len(src) + 1, lex, prev),
             Rounds(copies, src' \o t)[n].out \in Text
      PROVE  \E m \in 1..Len(piece), out \in Text :
                /\ Is(copies, Rounds(copies, src' \o t)[n + m], Len(src') + 1, lex', prev')
                /\ Rounds(copies, src' \o t)[n + m].out
                     = Rounds(copies, src' \o t)[n].out \o out
                /\ Len(out) = Len(piece)
                /\ \A i \in 1..Len(piece) : ShownAs(copies, k, piece[i], out[i])
  <2> DEFINE s == src' \o t
             r == Rounds(copies, s)[n]
  <2>1. /\ src' \in Text /\ Len(src') = Len(src) + Len(piece) /\ Len(src) \in Nat
        /\ \A i \in 1..Len(piece) : src'[Len(src) + i] = piece[i]
    BY WhatIsWritten DEF WriterInv, Text
  <2>2. /\ s \in Text /\ Len(s) = Len(src') + Len(t) /\ Len(t) \in Nat
        /\ \A i \in 1..Len(src') + Len(t) :
             s[i] = IF i <= Len(src') THEN src'[i] ELSE t[i - Len(src')]
    <3>1. src' \in Seq(Char) /\ t \in Seq(Char) /\ Len(t) \in Nat
      BY <2>1 DEF Text
    <3>2. /\ s \in Seq(Char) /\ Len(s) = Len(src') + Len(t)
          /\ \A i \in 1..Len(src') + Len(t) :
               s[i] = IF i <= Len(src') THEN src'[i] ELSE t[i - Len(src')]
      BY <3>1, ConcatProperties
    <3> HIDE DEF s
    <3> QED  BY <3>1, <3>2 DEF Text
  <2>3. r.i = Len(src) + 1 /\ r.state = lex /\ (~copies => r.prev = prev)
    BY <1>1 DEF Is
  <2>4. r.i <= Len(s) /\ s[r.i] = piece[1]
    <3>1. Len(src) + 1 <= Len(src') /\ 1 \in 1..Len(piece)
      BY <2>1
    <3> HIDE DEF s, r
    <3> QED  BY <2>1, <2>2, <2>3, <3>1
  <2> DEFINE c2 == CharAt(s, r.i + 1)
  <2>5. IF Len(piece) = 2 THEN c2 = piece[2] ELSE MayFollowNext(c2)
    <3>1. CASE Len(piece) = 2
      <4>1. /\ 2 \in 1..Len(piece) /\ r.i + 1 = Len(src) + 2 /\ r.i + 1 \in 1..Len(s)
            /\ r.i + 1 <= Len(src')
        BY <2>1, <2>2, <2>3, <3>1
      <4>2. r.i + 1 \in DOMAIN s /\ s[r.i + 1] = piece[2]
        <5> HIDE DEF s, r
        <5> QED  BY <2>1, <2>2, <4>1, LenProperties DEF Text
      <4> QED  BY <3>1, <4>2 DEF CharAt
    <3>2. CASE Len(piece) = 1
      <4>1. r.i + 1 = Len(src') + 1 /\ DOMAIN s = 1..Len(src') + Len(t) /\ DOMAIN t = 1..Len(t)
        <5> HIDE DEF s, r
        <5> QED  BY <2>1, <2>2, <2>3, <3>2, LenProperties DEF Text
      <4>2. c2 = CharAt(t, 1)
        <5>1. CASE Len(t) = 0
          <6>1. r.i + 1 \notin DOMAIN s /\ 1 \notin DOMAIN t
            BY <2>1, <4>1, <5>1
          <6> QED  BY <6>1 DEF CharAt
        <5>2. CASE Len(t) # 0
          <6>1. /\ r.i + 1 \in 1..Len(src') + Len(t) /\ 1 \in DOMAIN t
                /\ ~(r.i + 1 <= Len(src')) /\ (r.i + 1) - Len(src') = 1
            BY <2>1, <2>2, <4>1, <5>2
          <6>2. r.i + 1 \in DOMAIN s /\ s[r.i + 1] = t[1]
            <7> HIDE DEF s, r
            <7> QED  BY <2>2, <4>1, <6>1
          <6> QED  BY <6>1, <6>2 DEF CharAt
        <5> QED  BY <5>1, <5>2
      <4> HIDE DEF c2
      <4> QED  BY <1>1, <3>2, <4>2
    <3> QED  BY <3>1, <3>2
  <2>0. PICK out \in Text : \E q :
          /\ ReadStep(copies, piece[1], c2, lex, r.prev) = Step(Len(piece), out, next, q)
          /\ ~copies => q = prev'
          /\ Len(out) = Len(piece)
          /\ \A i \in 1..Len(piece) : ShownAs(copies, k, piece[i], out[i])
    <3> HIDE DEF c2, r
    <3> QED  BY <2>3, <2>5
  <2>6. PICK q :
          /\ ReadStep(copies, piece[1], c2, lex, r.prev) = Step(Len(piece), out, next, q)
          /\ ~copies => q = prev'
          /\ Len(out) = Len(piece)
          /\ \A i \in 1..Len(piece) : ShownAs(copies, k, piece[i], out[i])
    BY <2>0
  <2>7. Rounds(copies, s)[n + 1] = Round(copies, s, r)
    BY RoundByRound
  <2>8. Round(copies, s, r)
          = [i |-> r.i + Len(piece), out |-> r.out \o out, state |-> next, prev |-> q]
    <3>1. ~(r.i > Len(s))
      <4> HIDE DEF s, r
      <4> QED  BY <2>1, <2>2, <2>3, <2>4
    <3>2. Step(Len(piece), out, next, q)
            = [n |-> Len(piece), out |-> out, state |-> next, prev |-> q]
      BY DEF Step
    <3>3. ReadStep(copies, s[r.i], CharAt(s, r.i + 1), r.state, r.prev)
            = [n |-> Len(piece), out |-> out, state |-> next, prev |-> q]
      <4> HIDE DEF s, r
      <4> QED  BY <2>3, <2>4, <2>6, <3>2 DEF c2
    <3> HIDE DEF s, r, c2
    <3> DEFINE rd == ReadStep(copies, s[r.i], CharAt(s, r.i + 1), r.state, r.prev)
    <3>4. Round(copies, s, r) = [i |-> r.i + rd.n, out |-> r.out \o rd.out,
                                 state |-> rd.state, prev |-> rd.prev]
      BY <3>1 DEF Round
    <3>5. rd.n = Len(piece) /\ rd.out = out /\ rd.state = next /\ rd.prev = q
      BY <3>3
    <3> HIDE DEF rd
    <3> QED  BY <3>4, <3>5
  <2>9. Is(copies, Rounds(copies, s)[n + 1], Len(src') + 1, lex', prev')
    <3>1. lex' = next
      BY DEF Writes
    <3>2. r.i + Len(piece) = Len(src') + 1
      BY <2>1, <2>3
    <3> HIDE DEF r
    <3> QED  BY <2>6, <2>7, <2>8, <3>1, <3>2 DEF Is
  <2>10. /\ 1 \in 1..Len(piece)
         /\ Rounds(copies, s)[n + 1].out = Rounds(copies, s)[n].out \o out
    BY <2>7, <2>8
  <2> HIDE DEF r
  <2> QED  BY <2>6, <2>9, <2>10, Zenon
<1> QED  BY <1>1, PieceByPiece

----------------------------------------------------------------------------
(* What is put out for each piece there is.                                *)

Either(copies, copied, blank) == IF copies THEN copied ELSE blank

LEMMA CodeIsRead ==
  ASSUME NEW copies \in BOOLEAN, NEW c \in {"a", "+", "comma", "(", ")", "newline"}, NEW c2, NEW p
  PROVE  \E q : /\ ReadStep(copies, c, c2, "code", p) = Step(1, <<c>>, "code", q)
                /\ ~copies => q = IF c = "newline" THEN p ELSE c
<1>1. c # "/" /\ c \notin Quotes /\ (c \in Blanks <=> c = "newline")
  BY Characters
<1>2. CASE copies
  <2>1. ReadStep(copies, c, c2, "code", p) = Step(1, <<c>>, "code", p)
    BY <1>1, <1>2 DEF ReadStep, CopyingStep
  <2> QED  BY <1>2, <2>1
<1>3. CASE ~copies
  <2> DEFINE q == IF c = "newline" THEN p ELSE c
  <2>1. ReadStep(copies, c, c2, "code", p) = Step(1, <<c>>, "code", q)
    BY <1>1, <1>3 DEF ReadStep, CodeStep
  <2>2. ~copies => q = IF c = "newline" THEN p ELSE c
    OBVIOUS
  <2> HIDE DEF q
  <2> QED  BY <2>1, <2>2
<1> QED  BY <1>2, <1>3

LEMMA DivisionIsRead ==
  ASSUME NEW copies \in BOOLEAN, NEW c2, c2 \notin {"/", "*"}, NEW p,
         ~copies => p \in {"a", ")"}
  PROVE  ReadStep(copies, "/", c2, "code", p)
           = Step(1, <<"/">>, "code", IF copies THEN p ELSE "/")
<1>1. "/" \notin Quotes /\ "/" \notin Blanks
  BY Characters
<1>2. ~copies => CodeStep("/", c2, p) = Step(1, <<"/">>, "code", "/")
  BY <1>1 DEF CodeStep, Space, RegexAllowedAfter
<1>3. CopyingStep("/", c2, "code", p) = Step(1, <<"/">>, "code", p)
  BY <1>1 DEF CopyingStep
<1> QED  BY <1>2, <1>3 DEF ReadStep

LEMMA OpeningIsRead ==
  ASSUME NEW copies \in BOOLEAN, NEW p
  PROVE  /\ ReadStep(copies, "/", "/", "code", p) = Step(2, <<"space", "space">>, "line", p)
         /\ ReadStep(copies, "/", "*", "code", p) = Step(2, <<"space", "space">>, "block", p)
         /\ \A c \in Quotes : \A c2 : ReadStep(copies, c, c2, "code", p)
              = Step(1, <<Either(copies, c, "space")>>, QuoteState(c), p)
         /\ ~copies /\ p \in {Nothing, "(", "comma", "+"} => ReadStep(copies, "/", "a", "code", p)
              = Step(1, <<"space">>, "regex", p)
<1>1. "/" \notin Quotes
  BY Characters
<1>2. /\ CodeStep("/", "/", p) = Step(2, <<"space", "space">>, "line", p)
      /\ CodeStep("/", "*", p) = Step(2, <<"space", "space">>, "block", p)
  BY <1>1 DEF CodeStep, Space
<1>3. p \in {Nothing, "(", "comma", "+"} => CodeStep("/", "a", p) = Step(1, <<"space">>, "regex", p)
  BY <1>1 DEF CodeStep, Space, RegexAllowedAfter, Nothing
<1>4. ASSUME NEW c \in Quotes, NEW c2
      PROVE  ReadStep(copies, c, c2, "code", p)
               = Step(1, <<Either(copies, c, "space")>>, QuoteState(c), p)
  <2>1. c # "/"
    BY <1>1
  <2>2. CodeStep(c, c2, p) = Step(1, <<"space">>, QuoteState(c), p)
    BY <2>1 DEF CodeStep, Space
  <2>3. CopyingStep(c, c2, "code", p) = Step(1, <<c>>, QuoteState(c), p)
    BY <2>1 DEF CopyingStep
  <2> QED  BY <2>2, <2>3 DEF ReadStep, Either
<1>5. /\ CopyingStep("/", "/", "code", p) = Step(2, <<"space", "space">>, "line", p)
      /\ CopyingStep("/", "*", "code", p) = Step(2, <<"space", "space">>, "block", p)
  BY <1>2 DEF CopyingStep
<1> QED  BY <1>2, <1>3, <1>4, <1>5 DEF ReadStep

LEMMA CommentIsRead ==
  ASSUME NEW copies, NEW c, NEW c2, NEW p
  PROVE  /\ c # "newline" => ReadStep(copies, c, c2, "line", p) = Step(1, <<Blanked(c)>>, "line", p)
         /\ ReadStep(copies, "newline", c2, "line", p) = Step(1, <<"newline">>, "code", p)
         /\ ~(c = "*" /\ c2 = "/")
              => ReadStep(copies, c, c2, "block", p) = Step(1, <<Blanked(c)>>, "block", p)
         /\ ReadStep(copies, "*", "/", "block", p) = Step(2, <<"space", "space">>, "code", p)
BY DEF ReadStep, CommentStep, Newline, Space

LEMMA ContentIsRead ==
  ASSUME NEW copies \in BOOLEAN, NEW state \in {"sq", "dq", "tpl", "regex"}, NEW p, NEW c2,
         NEW c, c \notin {Closing[state], "\\"}, c = "newline" => state # "regex"
  PROVE  ReadStep(copies, c, c2, state, p)
           = Step(1, <<Either(copies, c, Blanked(c))>>, state, p)
<1>1. /\ state \notin {"line", "block", "code"} /\ Closing[state] # "\\"
      /\ ~(c = "newline" /\ state = "regex") /\ c # "\\" /\ c # Closing[state]
  BY Characters
<1>2. LiteralStep(c, state, p) = Step(1, <<Blanked(c)>>, state, p)
  BY <1>1 DEF LiteralStep, Newline, Space
<1>3. CopyingStep(c, c2, state, p) = Step(1, <<c>>, state, p)
  BY <1>1 DEF CopyingStep
<1> QED  BY <1>1, <1>2, <1>3 DEF ReadStep, Either

LEMMA EscapeIsRead ==
  ASSUME NEW copies \in BOOLEAN, NEW state \in {"sq", "dq", "tpl", "regex"}, NEW p, NEW c2,
         c2 # Nothing
  PROVE  ReadStep(copies, "\\", c2, state, p)
           = Step(2, <<Either(copies, "\\", "space"), Either(copies, c2, "space")>>, state, p)
<1>1. Closing[state] # "\\" /\ state \notin {"line", "block", "code"}
  BY Characters
<1>2. LiteralStep("\\", state, p) = Step(2, <<"space", "space">>, state, p)
  BY <1>1 DEF LiteralStep, Newline, Space
<1>3. CopyingStep("\\", c2, state, p) = Step(2, <<"\\", c2>>, state, p)
  BY <1>1 DEF CopyingStep
<1> QED  BY <1>1, <1>2, <1>3 DEF ReadStep, Either

LEMMA ClosingIsRead ==
  ASSUME NEW copies \in BOOLEAN, NEW state \in {"sq", "dq", "tpl", "regex"}, NEW p, NEW c2
  PROVE  ReadStep(copies, Closing[state], c2, state, p)
           = Step(1, <<Either(copies, Closing[state], "space")>>, "code",
                  Either(copies, p, Closing[state]))
<1>1. Closing[state] \notin {"\\", "newline"} /\ state \notin {"line", "block", "code"}
  BY Characters
<1>2. LiteralStep(Closing[state], state, p) = Step(1, <<"space">>, "code", Closing[state])
  BY <1>1 DEF LiteralStep, Newline, Space
<1>3. CopyingStep(Closing[state], c2, state, p) = Step(1, <<Closing[state]>>, "code", p)
  BY <1>1 DEF CopyingStep
<1> QED  BY <1>1, <1>2, <1>3 DEF ReadStep, Either

LEMMA LetterIsRead ==
  ASSUME NEW copies, ~copies, NEW p, NEW c2
  PROVE  ReadStep(copies, "a", c2, "regex", p) = Step(1, <<"space">>, "regex", p)
<1>1. LiteralStep("a", "regex", p) = Step(1, <<"space">>, "regex", p)
  BY Characters DEF LiteralStep, Blanked, Newline, Space
<1> QED  BY <1>1 DEF ReadStep

LEMMA OneCharacter ==
  ASSUME WriterInv, NEW copies \in BOOLEAN, ReadsOn(copies),
         NEW c \in Char, NEW k \in Kinds, NEW next, Writes(<<c>>, k, next), MayFollow(c),
         NEW d \in Char, ShownAs(copies, k, c, d),
         \A c2, p : MayFollowNext(c2) /\ (~copies => p = prev) =>
           \E q : /\ ReadStep(copies, c, c2, lex, p) = Step(1, <<d>>, next, q)
                  /\ ~copies => q = prev'
  PROVE  ReadsOn(copies)'
<1>1. /\ <<c>> \in Text /\ Len(<<c>>) = 1 /\ <<c>>[1] = c
      /\ <<d>> \in Text /\ Len(<<d>>) = 1 /\ <<d>>[1] = d
  BY Pieces
<1> DEFINE piece == <<c>>
<1>2. /\ piece \in Text /\ Len(piece) = 1 /\ piece[1] = c
      /\ Writes(piece, k, next)
  BY <1>1
<1> HIDE DEF piece
<1>3. ASSUME NEW c2, NEW p, IF Len(piece) = 2 THEN c2 = piece[2] ELSE MayFollowNext(c2),
             ~copies => p = prev
      PROVE  \E out \in Text : \E q :
               /\ ReadStep(copies, piece[1], c2, lex, p) = Step(Len(piece), out, next, q)
               /\ ~copies => q = prev'
               /\ Len(out) = Len(piece)
               /\ \A i \in 1..Len(piece) : ShownAs(copies, k, piece[i], out[i])
  <2>1. PICK q : /\ ReadStep(copies, c, c2, lex, p) = Step(1, <<d>>, next, q)
                 /\ ~copies => q = prev'
    <3>1. MayFollowNext(c2)
      BY <1>2, <1>3
    <3> QED  BY <1>3, <3>1, Zenon
  <2>2. \A i \in 1..Len(piece) : ShownAs(copies, k, piece[i], <<d>>[i])
    <3> SUFFICES ASSUME NEW i \in 1..Len(piece)  PROVE ShownAs(copies, k, piece[i], <<d>>[i])
      OBVIOUS
    <3>1. i = 1
      BY <1>2
    <3> QED  BY <1>1, <1>2, <3>1
  <2>3. <<d>> \in Text
    BY <1>1
  <2> WITNESS <<d>> \in Text
  <2> WITNESS q
  <2> QED  BY <1>1, <1>2, <2>1, <2>2
<1>4. /\ MayFollow(piece[1]) /\ piece \in Text /\ Len(piece) \in {1, 2}
      /\ Writes(piece, k, next)
  BY <1>2
<1> QED  BY <1>3, <1>4, RoundByPiece

LEMMA TwoCharacters ==
  ASSUME WriterInv, NEW copies \in BOOLEAN, ReadsOn(copies),
         NEW c \in Char, NEW c2 \in Char, NEW k \in Kinds, NEW next,
         Writes(<<c, c2>>, k, next), MayFollow(c),
         NEW d \in Char, ShownAs(copies, k, c, d),
         NEW d2 \in Char, ShownAs(copies, k, c2, d2), ~copies => prev' = prev,
         \A p : ReadStep(copies, c, c2, lex, p) = Step(2, <<d, d2>>, next, p)
  PROVE  ReadsOn(copies)'
<1> DEFINE piece == <<c, c2>>
           shown == <<d, d2>>
<1>1. /\ piece \in Text /\ Len(piece) = 2 /\ piece[1] = c /\ piece[2] = c2
      /\ shown \in Text /\ Len(shown) = 2 /\ shown[1] = d /\ shown[2] = d2
      /\ Writes(piece, k, next)
  BY Pieces
<1>2. \A p : ReadStep(copies, piece[1], piece[2], lex, p) = Step(2, shown, next, p)
  BY <1>1
<1> HIDE DEF piece, shown
<1>3. ASSUME NEW c3, NEW p, IF Len(piece) = 2 THEN c3 = piece[2] ELSE MayFollowNext(c3),
             ~copies => p = prev
      PROVE  \E out \in Text : \E q :
               /\ ReadStep(copies, piece[1], c3, lex, p) = Step(Len(piece), out, next, q)
               /\ ~copies => q = prev'
               /\ Len(out) = Len(piece)
               /\ \A i \in 1..Len(piece) : ShownAs(copies, k, piece[i], out[i])
  <2>1. c3 = piece[2]
    BY <1>1, <1>3
  <2>2. \A i \in 1..Len(piece) : ShownAs(copies, k, piece[i], shown[i])
    <3> SUFFICES ASSUME NEW i \in 1..Len(piece)  PROVE ShownAs(copies, k, piece[i], shown[i])
      OBVIOUS
    <3>1. i = 1 \/ i = 2
      BY <1>1
    <3> QED  BY <1>1, <3>1
  <2>3. shown \in Text
    BY <1>1
  <2> WITNESS shown \in Text
  <2> WITNESS p
  <2> QED  BY <1>1, <1>2, <1>3, <2>1, <2>2
<1>4. /\ MayFollow(piece[1]) /\ piece \in Text /\ Len(piece) \in {1, 2}
      /\ Writes(piece, k, next)
  BY <1>1
<1> QED  BY <1>3, <1>4, RoundByPiece

----------------------------------------------------------------------------
(* The writer's actions.                                                   *)

(* Only a "/" or a "*" can be taken for something else after what there is.*)
LEMMA OthersMayFollow ==
  ASSUME NEW c, c \notin {"/", "*"}  PROVE MayFollow(c)
BY DEF MayFollow, Follows

LEMMA AfterNoDivision ==
  ASSUME NEW c, WriterInv, ~AfterDivision, lex = "code"  PROVE MayFollow(c)
<1>1. src # <<>> /\ Last(src) = "/" /\ Last(kind) = "code" => FALSE
  BY DEF AfterDivision
<1> QED  BY <1>1 DEF MayFollow, Follows

LEMMA CodeReadsOn ==
  ASSUME WriterInv, NEW copies \in BOOLEAN, ReadsOn(copies),
         NEW c \in {"a", "+", "comma", "(", ")", "newline"}, WriteCode(c)
  PROVE  WriterInv' /\ ReadsOn(copies)'
<1>1. /\ Writes(<<c>>, "code", "code") /\ lex = "code"
      /\ prev' = IF c = "newline" THEN prev ELSE c
  BY WriteWrites DEF WriteCode, Newline
<1>2. c \in Char /\ "code" \in Kinds /\ c # "/"
  BY DEF Kinds, Char
<1>3. WriterInv'
  <2>1. <<c>> \in Text /\ Len(<<c>>) = 1 /\ <<c>>[1] = c
    BY <1>2, Pieces
  <2> QED  BY <1>1, <1>2, <2>1, KeepsInv
<1>4. ReadsOn(copies)'
  <2>1. MayFollow(c)
    BY OthersMayFollow
  <2>2. ShownAs(copies, "code", c, c)
    BY DEF ShownAs, Seen
  <2>3. ASSUME NEW c2, NEW p, ~copies => p = prev
        PROVE  \E q : /\ ReadStep(copies, c, c2, lex, p) = Step(1, <<c>>, "code", q)
                      /\ ~copies => q = prev'
    <3>1. PICK q : /\ ReadStep(copies, c, c2, "code", p) = Step(1, <<c>>, "code", q)
                   /\ ~copies => q = IF c = "newline" THEN p ELSE c
      BY CodeIsRead
    <3>2. ~copies => q = prev'
      BY <1>1, <2>3, <3>1
    <3> QED  BY <1>1, <3>1, <3>2
  <2> QED  BY <1>1, <1>2, <2>1, <2>2, <2>3, OneCharacter
<1> QED  BY <1>3, <1>4

LEMMA DivisionReadsOn ==
  ASSUME WriterInv, NEW copies \in BOOLEAN, ReadsOn(copies), WriteDivision
  PROVE  WriterInv' /\ ReadsOn(copies)'
<1>1. /\ Writes(<<"/">>, "code", "code") /\ lex = "code" /\ prev' = "/"
      /\ prev \in {"a", ")"} /\ ~AfterDivision
  BY WriteWrites DEF WriteDivision
<1>2. "/" \in Char /\ "code" \in Kinds
  BY DEF Char, Kinds
<1>5. <<"/">> \in Text /\ Len(<<"/">>) = 1 /\ <<"/">>[1] = "/"
  BY <1>2, Pieces
<1>3. WriterInv'
  BY <1>1, <1>2, <1>5, KeepsInv
<1>4. ReadsOn(copies)'
  <2>1. MayFollow("/")
    BY <1>1, AfterNoDivision
  <2>2. ShownAs(copies, "code", "/", "/")
    BY DEF ShownAs, Seen
  <2>3. ASSUME NEW c2, NEW p, MayFollowNext(c2), ~copies => p = prev
        PROVE  \E q : /\ ReadStep(copies, "/", c2, lex, p) = Step(1, <<"/">>, "code", q)
                      /\ ~copies => q = prev'
    <3>1. Last(src') = "/" /\ Last(kind') = "code" /\ Len(src') = Len(src) + 1 /\ src \in Text
      BY <1>1, <1>2, <1>5, WhatIsWritten DEF WriterInv
    <3>2. src' # <<>>
      BY <3>1 DEF Text
    <3>3. c2 \notin {"/", "*"}
      BY <2>3, <3>1, <3>2 DEF MayFollowNext, Follows
    <3> QED  BY <1>1, <2>3, <3>3, DivisionIsRead
  <2> QED  BY <1>1, <1>2, <2>1, <2>2, <2>3, OneCharacter
<1> QED  BY <1>3, <1>4

LEMMA CommentOpeningReadsOn ==
  ASSUME WriterInv, NEW copies \in BOOLEAN, ReadsOn(copies),
         NEW mark, NEW next, <<mark, next>> \in {<<"/", "line">>, <<"*", "block">>},
         OpenComment(mark, next)
  PROVE  WriterInv' /\ ReadsOn(copies)'
<1>1. /\ Writes(<<"/", mark>>, "comment", next) /\ lex = "code" /\ prev' = prev
      /\ ~AfterDivision
  BY WriteWrites DEF OpenComment
<1>2. /\ mark \in Char /\ "/" \in Char /\ "space" \in Char
      /\ "comment" \in Kinds /\ next \in {"line", "block"}
  BY DEF Char, Kinds
<1>3. WriterInv'
  <2>1. <<"/", mark>> \in Text /\ Len(<<"/", mark>>) = 2
    BY <1>2, Pieces
  <2> QED  BY <1>1, <1>2, <2>1, KeepsInv
<1>4. ReadsOn(copies)'
  <2>1. MayFollow("/")
    BY <1>1, AfterNoDivision
  <2>2. ShownAs(copies, "comment", "/", "space") /\ ShownAs(copies, "comment", mark, "space")
    BY DEF ShownAs, Seen, Blanks, Space
  <2>3. \A p : ReadStep(copies, "/", mark, lex, p) = Step(2, <<"space", "space">>, next, p)
    BY <1>1, OpeningIsRead
  <2>4. Writes(<<"/", mark>>, "comment", next) /\ (~copies => prev' = prev)
    BY <1>1
  <2> QED  BY <1>2, <2>1, <2>2, <2>3, <2>4, TwoCharacters
<1> QED  BY <1>3, <1>4

LEMMA StringOpeningReadsOn ==
  ASSUME WriterInv, NEW copies \in BOOLEAN, ReadsOn(copies), NEW c \in Quotes, OpenString(c)
  PROVE  WriterInv' /\ ReadsOn(copies)'
<1>1. Writes(<<c>>, "string", QuoteState(c)) /\ lex = "code" /\ prev' = prev
  BY WriteWrites DEF OpenString
<1>2. /\ c \in Char /\ "string" \in Kinds /\ c \notin {"/", "*"}
      /\ QuoteState(c) \in {"sq", "dq", "tpl"}
  BY Characters DEF Kinds, Char
<1>3. WriterInv'
  <2>1. <<c>> \in Text /\ Len(<<c>>) = 1 /\ <<c>>[1] = c
    BY <1>2, Pieces
  <2> QED  BY <1>1, <1>2, <2>1, KeepsInv
<1>4. ReadsOn(copies)'
  <2> DEFINE d == Either(copies, c, "space")
  <2>1. MayFollow(c)
    BY <1>2, OthersMayFollow
  <2>2. ShownAs(copies, "string", c, d) /\ d \in Char
    BY <1>2 DEF Either, ShownAs, Seen, Blanks, Space, Char
  <2>3. ASSUME NEW c2, NEW p, ~copies => p = prev
        PROVE  \E q : /\ ReadStep(copies, c, c2, lex, p) = Step(1, <<d>>, QuoteState(c), q)
                      /\ ~copies => q = prev'
    BY <1>1, <2>3, OpeningIsRead
  <2> HIDE DEF d
  <2> QED  BY <1>1, <1>2, <2>1, <2>2, <2>3, OneCharacter
<1> QED  BY <1>3, <1>4

(* Two rounds: the slash, and the first character after it.                *)
LEMMA RegexReadsOn ==
  ASSUME WriterInv, NEW copies \in BOOLEAN, ~copies, ReadsOn(copies), OpenRegex
  PROVE  WriterInv' /\ ReadsOn(copies)'
<1> DEFINE piece == <<"/", "a">>
<1>1. /\ Writes(piece, "regex", "regex") /\ lex = "code" /\ prev' = prev
      /\ prev \in {Nothing, "(", "+", Comma}
  BY WriteWrites DEF OpenRegex
<1>2. /\ piece \in Text /\ Len(piece) = 2 /\ piece[1] = "/" /\ piece[2] = "a"
      /\ "regex" \in Kinds
  <2>1. "/" \in Char /\ "a" \in Char
    BY DEF Char
  <2> QED  BY <2>1, Pieces DEF Kinds
<1> HIDE DEF piece
<1>3. WriterInv'
  BY <1>1, <1>2, KeepsInv
<1>4. MayFollow(piece[1])
  <2>1. ~AfterDivision
    BY <1>1 DEF WriterInv, Nothing, Comma
  <2> QED  BY <1>1, <1>2, <2>1, AfterNoDivision
<1>5. ASSUME NEW t \in Text, NEW n \in Nat, MayFollowNext(CharAt(t, 1)),
             Is(copies, Rounds(copies, src' \o t)[n], Len(src) + 1, lex, prev),
             Rounds(copies, src' \o t)[n].out \in Text
      PROVE  \E m \in 1..Len(piece), out \in Text :
                /\ Is(copies, Rounds(copies, src' \o t)[n + m], Len(src') + 1, lex', prev')
                /\ Rounds(copies, src' \o t)[n + m].out
                     = Rounds(copies, src' \o t)[n].out \o out
                /\ Len(out) = Len(piece)
                /\ \A i \in 1..Len(piece) : ShownAs(copies, "regex", piece[i], out[i])
  <2> DEFINE s == src' \o t
             r == Rounds(copies, s)[n]
  <2>1. /\ src' \in Seq(Char) /\ Len(src') = Len(src) + 2 /\ Len(src) \in Nat
        /\ src'[Len(src) + 1] = "/" /\ src'[Len(src) + 2] = "a"
    <3>1. /\ src' \in Text /\ Len(src') = Len(src) + Len(piece)
          /\ \A i \in 1..Len(piece) : src'[Len(src) + i] = piece[i]
      BY <1>1, <1>2, WhatIsWritten
    <3>2. 1 \in 1..Len(piece) /\ 2 \in 1..Len(piece) /\ Len(src) \in Nat
      BY <1>2 DEF WriterInv, Text
    <3> QED  BY <1>2, <3>1, <3>2 DEF Text
  <2>2. /\ s \in Seq(Char) /\ Len(s) = Len(src') + Len(t) /\ Len(t) \in Nat
        /\ DOMAIN s = 1..Len(s)
        /\ s[Len(src) + 1] = "/" /\ s[Len(src) + 2] = "a"
    <3>1. t \in Seq(Char) /\ Len(t) \in Nat
      BY DEF Text
    <3>2. /\ s \in Seq(Char) /\ Len(s) = Len(src') + Len(t)
          /\ \A i \in 1..Len(src') + Len(t) :
               s[i] = IF i <= Len(src') THEN src'[i] ELSE t[i - Len(src')]
      BY <2>1, <3>1, ConcatProperties
    <3> HIDE DEF s
    <3>3. /\ Len(src) + 1 \in 1..Len(src') + Len(t) /\ Len(src) + 1 <= Len(src')
          /\ Len(src) + 2 \in 1..Len(src') + Len(t) /\ Len(src) + 2 <= Len(src')
      BY <2>1, <3>1
    <3> QED  BY <2>1, <3>1, <3>2, <3>3, LenProperties
  <2>3. r.i = Len(src) + 1 /\ r.state = "code" /\ r.prev = prev
    BY <1>1, <1>5 DEF Is
  <2> DEFINE r1 == [i |-> Len(src) + 2, out |-> r.out \o <<"space">>,
                    state |-> "regex", prev |-> prev]
  <2> HIDE DEF s, r
  <2>4. Round(copies, s, r) = r1
    <3>1. CharAt(s, r.i + 1) = "a" /\ s[r.i] = "/" /\ ~(r.i > Len(s))
      BY <2>1, <2>2, <2>3 DEF CharAt
    <3> DEFINE rd == ReadStep(copies, s[r.i], CharAt(s, r.i + 1), r.state, r.prev)
    <3>2. rd = Step(1, <<"space">>, "regex", prev)
      BY <1>1, <2>3, <3>1, OpeningIsRead DEF Comma
    <3>3. rd.n = 1 /\ rd.out = <<"space">> /\ rd.state = "regex" /\ rd.prev = prev
      <4> HIDE DEF rd
      <4> QED  BY <3>2 DEF Step
    <3>4. Round(copies, s, r) = [i |-> r.i + rd.n, out |-> r.out \o rd.out,
                                state |-> rd.state, prev |-> rd.prev]
      BY <3>1 DEF Round
    <3>5. r.i + 1 = Len(src) + 2
      BY <2>1, <2>3
    <3> HIDE DEF rd
    <3> QED  BY <3>3, <3>4, <3>5
  <2> DEFINE r2 == [i |-> Len(src') + 1, out |-> r1.out \o <<"space">>,
                    state |-> "regex", prev |-> prev]
  <2>5. r1.i = Len(src) + 2 /\ r1.state = "regex" /\ r1.prev = prev
    OBVIOUS
  <2>6. r1.out = r.out \o <<"space">>
    OBVIOUS
  <2> HIDE DEF r1
  <2>7. Round(copies, s, r1) = r2
    <3>1. s[r1.i] = "a" /\ ~(r1.i > Len(s))
      BY <2>1, <2>2, <2>5
    <3> DEFINE rd == ReadStep(copies, s[r1.i], CharAt(s, r1.i + 1), r1.state, r1.prev)
    <3>2. rd = Step(1, <<"space">>, "regex", prev)
      BY <2>5, <3>1, LetterIsRead
    <3>3. rd.n = 1 /\ rd.out = <<"space">> /\ rd.state = "regex" /\ rd.prev = prev
      <4> HIDE DEF rd
      <4> QED  BY <3>2 DEF Step
    <3>4. Round(copies, s, r1) = [i |-> r1.i + rd.n, out |-> r1.out \o rd.out,
                                 state |-> rd.state, prev |-> rd.prev]
      BY <3>1 DEF Round
    <3>5. r1.i + 1 = Len(src') + 1
      BY <2>1, <2>5
    <3> HIDE DEF rd
    <3> QED  BY <3>3, <3>4, <3>5
  <2>8. Rounds(copies, s)[n + 2] = r2
    <3>1. Rounds(copies, s)[n + 1] = r1
      BY <2>4, RoundByRound DEF r
    <3>2. n + 1 \in Nat /\ (n + 1) + 1 = n + 2
      OBVIOUS
    <3>3. Rounds(copies, s)[(n + 1) + 1] = Round(copies, s, Rounds(copies, s)[n + 1])
      BY <3>2, RoundByRound
    <3> QED  BY <2>7, <3>1, <3>2, <3>3
  <2>9. Is(copies, Rounds(copies, s)[n + 2], Len(src') + 1, lex', prev')
    <3>1. lex' = "regex"
      BY <1>1 DEF Writes
    <3>2. r2.i = Len(src') + 1 /\ r2.state = "regex" /\ r2.prev = prev
      OBVIOUS
    <3> HIDE DEF r2
    <3> QED  BY <1>1, <2>8, <3>1, <3>2 DEF Is
  <2>10. Rounds(copies, s)[n + 2].out = r.out \o <<"space", "space">>
    <3>1. r2.out = r1.out \o <<"space">>
      OBVIOUS
    <3> HIDE DEF r2
    <3>2. Rounds(copies, s)[n + 2].out = (r.out \o <<"space">>) \o <<"space">>
      BY <2>6, <2>8, <3>1
    <3>3. r.out \in Seq(Char) /\ "space" \in Char
      BY <1>5 DEF Text, r, s, Char, Space
    <3>4. <<"space">> \in Seq(Char)
      BY <3>3
    <3>5. (r.out \o <<"space">>) \o <<"space">> = r.out \o (<<"space">> \o <<"space">>)
      BY <3>3, <3>4, ConcatAssociative
    <3>6. <<"space">> \o <<"space">> = <<"space", "space">>
      <4> DEFINE one == <<"space">>
                 both == <<"space", "space">>
      <4>1. one \in Seq(Char) /\ Len(one) = 1 /\ one[1] = "space"
        BY <3>3
      <4>2. both \in Seq(Char) /\ Len(both) = 2 /\ both[1] = "space" /\ both[2] = "space"
        BY <3>3
      <4> HIDE DEF one, both
      <4>3. one \o one \in Seq(Char) /\ Len(one \o one) = 2
        BY <4>1, ConcatProperties
      <4>4. ASSUME NEW i \in 1..Len(one \o one)  PROVE (one \o one)[i] = both[i]
        <5>1. i \in 1..Len(one) + Len(one) /\ (i = 1 \/ i = 2)
          BY <4>1, <4>3
        <5>2. (one \o one)[i] = IF i <= Len(one) THEN one[i] ELSE one[i - Len(one)]
          BY <4>1, <5>1, ConcatProperties
        <5> QED  BY <4>1, <4>2, <5>1, <5>2
      <4>5. one \o one = both
        BY <4>2, <4>3, <4>4, SeqEqual
      <4> QED  BY <4>5 DEF one, both
    <3> QED  BY <3>2, <3>5, <3>6
  <2> DEFINE shown == <<"space", "space">>
  <2>11. /\ shown \in Text /\ Len(shown) = 2
         /\ \A i \in 1..2 : ShownAs(copies, "regex", piece[i], shown[i])
    <3>1. "space" \in Char
      BY DEF Char, Space
    <3>2. /\ shown \in Text /\ Len(shown) = 2
          /\ shown[1] = "space" /\ shown[2] = "space"
      BY <3>1, Pieces
    <3> HIDE DEF shown
    <3>3. ASSUME NEW i \in 1..2  PROVE ShownAs(copies, "regex", piece[i], shown[i])
      <4>1. i = 1 \/ i = 2
        OBVIOUS
      <4>2. shown[i] = "space"
        BY <3>2, <4>1
      <4> QED  BY <4>2 DEF ShownAs, Seen, Blanks, Space
    <3> QED  BY <3>2, <3>3
  <2>12. 2 \in 1..Len(piece) /\ Len(shown) = Len(piece) /\ 1..2 = 1..Len(piece)
    BY <1>2, <2>11
  <2> HIDE DEF shown
  <2> QED  BY <2>9, <2>10, <2>11, <2>12 DEF r, s, shown
<1>6. ReadsOn(copies)'
  <2>1. Len(piece) \in {1, 2} /\ piece \in Text /\ "regex" \in Kinds
    BY <1>2
  <2> QED  BY <1>1, <1>4, <1>5, <2>1, PieceByPiece
<1> QED  BY <1>3, <1>6

LEMMA CommentReadsOn ==
  ASSUME WriterInv, NEW copies \in BOOLEAN, ReadsOn(copies),
         NEW c \in {"a", "'", "/", "*", "\\", "newline"}, InComment(c)
  PROVE  WriterInv' /\ ReadsOn(copies)'
<1>1. /\ Writes(<<c>>, "comment", lex) /\ lex \in {"line", "block"} /\ prev' = prev
      /\ lex = "line" => c # "newline"
      /\ lex = "block" /\ Len(src) > opened /\ Last(src) = "*" => c # "/"
  BY WriteWrites DEF InComment, Newline
<1>2. c \in Char /\ "comment" \in Kinds /\ Blanked(c) \in Char
  BY DEF Char, Kinds, Blanked, Newline, Space, Quotes
<1>3. <<c>> \in Text /\ Len(<<c>>) = 1 /\ <<c>>[1] = c
  BY <1>2, Pieces
<1>4. WriterInv'
  BY <1>1, <1>2, <1>3, KeepsInv
<1>5. ReadsOn(copies)'
  <2>1. MayFollow(c)
    <3>1. ~AfterDivision
      BY <1>1 DEF WriterInv
    <3>2. src # <<>> /\ Last(src) = "/" /\ Last(kind) = "code" => FALSE
      BY <3>1 DEF AfterDivision
    <3> QED  BY <1>1, <3>2 DEF MayFollow, Follows
  <2>2. ShownAs(copies, "comment", c, Blanked(c))
    BY Characters DEF ShownAs, Seen
  <2>3. ASSUME NEW c2, NEW p, MayFollowNext(c2)
        PROVE  ReadStep(copies, c, c2, lex, p) = Step(1, <<Blanked(c)>>, lex, p)
    <3>1. CASE lex = "line"
      BY <1>1, <3>1, CommentIsRead
    <3>2. CASE lex = "block"
      <4>1. lex' = "block" /\ opened' = opened
        BY <1>1, <3>2 DEF Writes
      <4>2. Len(src') = Len(src) + 1 /\ Last(src') = c
        BY <1>1, <1>2, <1>3, WhatIsWritten
      <4>3. Len(src') > opened'
        BY <4>1, <4>2 DEF WriterInv, Text
      <4>4. ~(c = "*" /\ c2 = "/")
        BY <2>3, <4>1, <4>2, <4>3 DEF MayFollowNext, Follows
      <4> QED  BY <3>2, <4>4, CommentIsRead
    <3> QED  BY <1>1, <3>1, <3>2
  <2>4. \A c2, p : MayFollowNext(c2) /\ (~copies => p = prev) =>
          \E q : /\ ReadStep(copies, c, c2, lex, p) = Step(1, <<Blanked(c)>>, lex, q)
                 /\ ~copies => q = prev'
    BY <1>1, <2>3
  <2> QED  BY <1>1, <1>2, <2>1, <2>2, <2>4, OneCharacter
<1> QED  BY <1>4, <1>5

LEMMA CommentClosingReadsOn ==
  ASSUME WriterInv, NEW copies \in BOOLEAN, ReadsOn(copies), CloseComment
  PROVE  WriterInv' /\ ReadsOn(copies)'
<1>1. /\ \/ lex = "line" /\ Writes(<<"newline">>, "code", "code")
         \/ lex = "block" /\ Writes(<<"*", "/">>, "comment", "code")
      /\ prev' = prev
  BY WriteWrites DEF CloseComment, Newline
<1>2. /\ "newline" \in Char /\ "*" \in Char /\ "/" \in Char /\ "space" \in Char
      /\ "code" \in Kinds /\ "comment" \in Kinds
  BY DEF Char, Kinds, Newline, Space
<1>3. /\ <<"newline">> \in Text /\ Len(<<"newline">>) = 1 /\ <<"newline">>[1] = "newline"
      /\ <<"*", "/">> \in Text /\ Len(<<"*", "/">>) = 2
  BY <1>2, Pieces
<1>4. CASE lex = "line" /\ Writes(<<"newline">>, "code", "code")
  <2>1. WriterInv'
    BY <1>2, <1>3, <1>4, KeepsInv
  <2>2. MayFollow("newline")
    BY OthersMayFollow
  <2>3. ShownAs(copies, "code", "newline", "newline")
    BY DEF ShownAs, Seen
  <2>4. \A c2, p : ReadStep(copies, "newline", c2, lex, p) = Step(1, <<"newline">>, "code", p)
    BY <1>4, CommentIsRead
  <2>5. \A c2, p : MayFollowNext(c2) /\ (~copies => p = prev) =>
          \E q : /\ ReadStep(copies, "newline", c2, lex, p) = Step(1, <<"newline">>, "code", q)
                 /\ ~copies => q = prev'
    BY <1>1, <2>4
  <2>6. ReadsOn(copies)'
    BY <1>2, <1>4, <2>2, <2>3, <2>5, OneCharacter
  <2> QED  BY <2>1, <2>6
<1>5. CASE lex = "block" /\ Writes(<<"*", "/">>, "comment", "code")
  <2>1. WriterInv'
    BY <1>2, <1>3, <1>5, KeepsInv
  <2>2. MayFollow("*")
    <3>1. ~AfterDivision
      BY <1>5 DEF WriterInv
    <3>2. src # <<>> /\ Last(src) = "/" /\ Last(kind) = "code" => FALSE
      BY <3>1 DEF AfterDivision
    <3> QED  BY <3>2 DEF MayFollow, Follows
  <2>3. ShownAs(copies, "comment", "*", "space") /\ ShownAs(copies, "comment", "/", "space")
    BY DEF ShownAs, Seen, Blanks, Space
  <2>4. \A p : ReadStep(copies, "*", "/", lex, p) = Step(2, <<"space", "space">>, "code", p)
    BY <1>5, CommentIsRead
  <2>5. Writes(<<"*", "/">>, "comment", "code") /\ (~copies => prev' = prev)
    BY <1>1, <1>5
  <2>6. ReadsOn(copies)'
    BY <1>2, <2>2, <2>3, <2>4, <2>5, TwoCharacters
  <2> QED  BY <2>1, <2>6
<1> QED  BY <1>1, <1>4, <1>5

(* Within literals, a scanner that copies knows only strings.              *)
LEMMA KindOfLiteral ==
  ASSUME NEW copies \in BOOLEAN, WriterInv, lex \in DOMAIN Closing,
         copies => ~Written("regex")
  PROVE  /\ Kind \in Kinds \ {"code", "comment"} /\ (copies => Kind = "string")
         /\ lex \in {"sq", "dq", "tpl", "regex"} /\ ~AfterDivision
<1>1. lex \in {"sq", "dq", "tpl", "regex"} /\ (copies => lex # "regex")
  BY Characters DEF WriterInv
<1> QED  BY <1>1 DEF Kind, Kinds, WriterInv

LEMMA LiteralReadsOn ==
  ASSUME WriterInv, NEW copies \in BOOLEAN, ReadsOn(copies), copies => ~Written("regex"),
         NEW c \in {"comma", "+", "(", "'", "dquote", "/", "*", "newline"}, InLiteral(c)
  PROVE  WriterInv' /\ ReadsOn(copies)'
<1>1. /\ Writes(<<c>>, Kind, lex) /\ lex \in DOMAIN Closing /\ prev' = prev
      /\ c \notin {Closing[lex], "\\"} /\ (c = "newline" => lex = "tpl")
  BY WriteWrites DEF InLiteral, Newline
<1>2. /\ Kind \in Kinds \ {"code", "comment"} /\ (copies => Kind = "string")
      /\ lex \in {"sq", "dq", "tpl", "regex"} /\ ~AfterDivision
  BY <1>1, KindOfLiteral
<1>3. c \in Char /\ Blanked(c) \in Char
  BY Characters DEF Char, Blanked
<1>4. <<c>> \in Text /\ Len(<<c>>) = 1 /\ <<c>>[1] = c
  BY <1>3, Pieces
<1>5. WriterInv'
  BY <1>1, <1>2, <1>4, KeepsInv
<1>6. ReadsOn(copies)'
  <2> DEFINE d == Either(copies, c, Blanked(c))
  <2>1. MayFollow(c)
    <3>1. src # <<>> /\ Last(src) = "/" /\ Last(kind) = "code" => FALSE
      BY <1>2 DEF AfterDivision
    <3> QED  BY <1>2, <3>1 DEF MayFollow, Follows
  <2>2. ShownAs(copies, Kind, c, d) /\ d \in Char
    BY <1>2, <1>3, Characters DEF Either, ShownAs, Seen
  <2>3. ASSUME NEW c2, NEW p  PROVE ReadStep(copies, c, c2, lex, p) = Step(1, <<d>>, lex, p)
    <3>1. c = "newline" => lex # "regex"
      BY <1>1
    <3> QED  BY <1>1, <1>2, <3>1, ContentIsRead
  <2>4. \A c2, p : MayFollowNext(c2) /\ (~copies => p = prev) =>
          \E q : /\ ReadStep(copies, c, c2, lex, p) = Step(1, <<d>>, lex, q)
                 /\ ~copies => q = prev'
    <3> HIDE DEF d
    <3> QED  BY <1>1, <2>3
  <2> HIDE DEF d
  <2> QED  BY <1>1, <1>2, <1>3, <2>1, <2>2, <2>4, OneCharacter
<1> QED  BY <1>5, <1>6

LEMMA EscapeReadsOn ==
  ASSUME WriterInv, NEW copies \in BOOLEAN, ReadsOn(copies), copies => ~Written("regex"),
         NEW c \in {"\\", "'", "/", "newline"}, Escape(c)
  PROVE  WriterInv' /\ ReadsOn(copies)'
<1>1. Writes(<<"\\", c>>, Kind, lex) /\ lex \in DOMAIN Closing /\ prev' = prev
  BY WriteWrites DEF Escape
<1>2. /\ Kind \in Kinds \ {"code", "comment"} /\ (copies => Kind = "string")
      /\ lex \in {"sq", "dq", "tpl", "regex"}
  BY <1>1, KindOfLiteral
<1>3. c \in Char /\ "\\" \in Char /\ "space" \in Char /\ c # Nothing
  BY Characters DEF Char
<1>4. <<"\\", c>> \in Text /\ Len(<<"\\", c>>) = 2
  BY <1>3, Pieces
<1>5. WriterInv'
  BY <1>1, <1>2, <1>4, KeepsInv
<1>6. ReadsOn(copies)'
  <2> DEFINE d == Either(copies, "\\", "space")
             d2 == Either(copies, c, "space")
  <2>1. MayFollow("\\")
    BY OthersMayFollow
  <2>2. /\ ShownAs(copies, Kind, "\\", d) /\ d \in Char
        /\ ShownAs(copies, Kind, c, d2) /\ d2 \in Char
    BY <1>2, <1>3, Characters DEF Either, ShownAs, Seen
  <2>3. ASSUME NEW p  PROVE ReadStep(copies, "\\", c, lex, p) = Step(2, <<d, d2>>, lex, p)
    BY <1>2, <1>3, EscapeIsRead
  <2>4. Writes(<<"\\", c>>, Kind, lex) /\ (~copies => prev' = prev) /\ Kind \in Kinds
    BY <1>1, <1>2
  <2> HIDE DEF d, d2
  <2> QED  BY <1>3, <2>1, <2>2, <2>3, <2>4, TwoCharacters
<1> QED  BY <1>5, <1>6

LEMMA LiteralClosingReadsOn ==
  ASSUME WriterInv, NEW copies \in BOOLEAN, ReadsOn(copies), copies => ~Written("regex"),
         CloseLiteral
  PROVE  WriterInv' /\ ReadsOn(copies)'
<1> DEFINE c == Closing[lex]
<1>1. Writes(<<c>>, Kind, "code") /\ lex \in DOMAIN Closing /\ prev' = c
  BY WriteWrites DEF CloseLiteral
<1>2. /\ Kind \in Kinds \ {"code", "comment"} /\ (copies => Kind = "string")
      /\ lex \in {"sq", "dq", "tpl", "regex"} /\ ~AfterDivision
  BY <1>1, KindOfLiteral
<1>3. c \in Char /\ "space" \in Char
  BY <1>2, Characters DEF Char
<1>4. ASSUME NEW c2, NEW p
      PROVE  ReadStep(copies, c, c2, lex, p)
               = Step(1, <<Either(copies, c, "space")>>, "code", Either(copies, p, c))
  BY <1>2, ClosingIsRead
<1>5. lex # "block"
  BY <1>2
<1> HIDE DEF c
<1>6. <<c>> \in Text /\ Len(<<c>>) = 1 /\ <<c>>[1] = c
  BY <1>3, Pieces
<1>7. WriterInv'
  BY <1>1, <1>2, <1>6, KeepsInv
<1>8. ReadsOn(copies)'
  <2> DEFINE d == Either(copies, c, "space")
  <2>1. MayFollow(c)
    <3>1. src # <<>> /\ Last(src) = "/" /\ Last(kind) = "code" => FALSE
      BY <1>2 DEF AfterDivision
    <3> QED  BY <1>5, <3>1 DEF MayFollow, Follows
  <2>2. ShownAs(copies, Kind, c, d) /\ d \in Char
    BY <1>2, <1>3, Characters DEF Either, ShownAs, Seen
  <2>3. ASSUME NEW c2, NEW p, ~copies => p = prev
        PROVE  \E q : /\ ReadStep(copies, c, c2, lex, p) = Step(1, <<d>>, "code", q)
                      /\ ~copies => q = prev'
    <3> DEFINE q == Either(copies, p, c)
    <3>1. ReadStep(copies, c, c2, lex, p) = Step(1, <<d>>, "code", q)
      BY <1>4
    <3>2. ~copies => q = prev'
      BY <1>1 DEF Either
    <3> HIDE DEF q, d
    <3> QED  BY <3>1, <3>2
  <2> HIDE DEF d
  <2> QED  BY <1>1, <1>2, <1>3, <2>1, <2>2, <2>3, OneCharacter
<1> QED  BY <1>7, <1>8

(* What was written stays.                                                 *)
LEMMA RegexStaysWritten ==
  ASSUME WriterInv, NEW piece \in Text, Len(piece) \in {1, 2}, NEW k \in Kinds, NEW next,
         Write(piece, k, next), Written("regex")
  PROVE  Written("regex")'
<1>1. /\ kind' \in Seq(Kinds) /\ Len(kind') = Len(src) + Len(piece)
      /\ \A i \in 1..Len(src) : kind'[i] = kind[i]
  BY WriteWrites, WhatIsWritten
<1>2. DOMAIN kind = 1..Len(src) /\ Len(src) \in Nat /\ DOMAIN kind' = 1..Len(src) + Len(piece)
  BY <1>1, LenProperties DEF WriterInv, Text
<1>3. PICK i \in DOMAIN kind : kind[i] = "regex"
  BY DEF Written
<1>4. i \in DOMAIN kind' /\ kind'[i] = "regex"
  BY <1>1, <1>2, <1>3
<1> QED  BY <1>4 DEF Written

LEMMA RegexStays ==
  ASSUME WriterInv, Next, Written("regex")
  PROVE  Written("regex")'
<1>1. /\ {"a", "+", Comma, "(", ")", Newline, "/", "*", "\\", "'", DoubleQuote} \subseteq Char
      /\ Quotes \subseteq Char
      /\ "code" \in Kinds /\ "comment" \in Kinds /\ "string" \in Kinds /\ "regex" \in Kinds
      /\ Kind \in Kinds
  BY DEF Char, Kinds, Kind, Comma, Newline, DoubleQuote, Quotes
<1>2. ASSUME NEW c \in Char, NEW k \in Kinds, NEW next, Write(<<c>>, k, next)
      PROVE  Written("regex")'
  <2> DEFINE piece == <<c>>
  <2>1. piece \in Text /\ Len(piece) = 1
    BY Pieces
  <2>2. Write(piece, k, next)
    BY <1>2
  <2> HIDE DEF piece
  <2> QED  BY <2>1, <2>2, RegexStaysWritten
<1>3. ASSUME NEW c \in Char, NEW c2 \in Char, NEW k \in Kinds, NEW next,
             Write(<<c, c2>>, k, next)
      PROVE  Written("regex")'
  <2> DEFINE piece == <<c, c2>>
  <2>1. piece \in Text /\ Len(piece) = 2
    BY Pieces
  <2>2. Write(piece, k, next)
    BY <1>3
  <2> HIDE DEF piece
  <2> QED  BY <2>1, <2>2, RegexStaysWritten
<1>4. ASSUME NEW c \in Char, WriteCode(c) \/ OpenString(c) \/ InComment(c) \/ InLiteral(c)
      PROVE  \E k \in Kinds : \E next : Write(<<c>>, k, next)
  BY <1>1, <1>4, Zenon DEF WriteCode, OpenString, InComment, InLiteral
<1>5. ASSUME WriteDivision  PROVE \E k \in Kinds : \E next : Write(<<"/">>, k, next)
  BY <1>1, <1>5, Zenon DEF WriteDivision
<1>6. ASSUME NEW mark \in Char, NEW next, OpenComment(mark, next)
      PROVE  \E k \in Kinds : \E n : Write(<<"/", mark>>, k, n)
  BY <1>1, <1>6, Zenon DEF OpenComment
<1>7. ASSUME OpenRegex  PROVE \E k \in Kinds : \E next : Write(<<"/", "a">>, k, next)
  BY <1>1, <1>7, Zenon DEF OpenRegex
<1>8. ASSUME NEW c \in Char, Escape(c)  PROVE \E k \in Kinds : \E next : Write(<<"\\", c>>, k, next)
  BY <1>1, <1>8, Zenon DEF Escape
<1>9. ASSUME CloseComment
      PROVE  \E k \in Kinds : \E next : Write(<<Newline>>, k, next) \/ Write(<<"*", "/">>, k, next)
  BY <1>1, <1>9, Zenon DEF CloseComment
<1>10. ASSUME CloseLiteral
       PROVE  \E c \in Char, k \in Kinds : \E next : Write(<<c>>, k, next)
  <2>1. Closing[lex] \in Char
    BY <1>10, Characters DEF CloseLiteral, Char
  <2>2. Write(<<Closing[lex]>>, Kind, "code")
    BY <1>10 DEF CloseLiteral
  <2> QED  BY <1>1, <2>1, <2>2
<1>11. "/" \in Char /\ "*" \in Char /\ "a" \in Char /\ "\\" \in Char /\ Newline \in Char
  BY <1>1
<1>12. CASE \E c \in Char : WriteCode(c) \/ OpenString(c) \/ InComment(c) \/ InLiteral(c)
  BY <1>2, <1>4, <1>12
<1>13. CASE WriteDivision
  BY <1>2, <1>5, <1>11, <1>13
<1>14. CASE \E mark \in Char : \E next : OpenComment(mark, next)
  BY <1>3, <1>6, <1>11, <1>14
<1>15. CASE OpenRegex
  BY <1>3, <1>7, <1>11, <1>15
<1>16. CASE \E c \in Char : Escape(c)
  BY <1>3, <1>8, <1>11, <1>16
<1>17. CASE CloseComment
  BY <1>2, <1>3, <1>9, <1>11, <1>17
<1>18. CASE CloseLiteral
  BY <1>2, <1>10, <1>18
<1>19. \/ \E c \in Char : WriteCode(c) \/ OpenString(c) \/ InComment(c) \/ InLiteral(c)
       \/ WriteDivision \/ OpenRegex \/ CloseComment \/ CloseLiteral
       \/ \E mark \in Char : \E next : OpenComment(mark, next)
       \/ \E c \in Char : Escape(c)
  BY <1>1, Zenon DEF Next
<1> QED  BY <1>12, <1>13, <1>14, <1>15, <1>16, <1>17, <1>18, <1>19

(* Every step of the writer, for a scanner that knows what it writes.      *)
LEMMA NextReadsOn ==
  ASSUME WriterInv, NEW copies \in BOOLEAN, ReadsOn(copies), copies => ~Written("regex"), Next,
         copies => ~OpenRegex
  PROVE  WriterInv' /\ ReadsOn(copies)'
<1>1. CASE \E c \in {"a", "+", Comma, "(", ")", Newline} : WriteCode(c)
  BY <1>1, CodeReadsOn DEF Comma, Newline
<1>2. CASE WriteDivision
  BY <1>2, DivisionReadsOn
<1>3. CASE OpenRegex
  BY <1>3, RegexReadsOn
<1>4. CASE OpenComment("/", "line") \/ OpenComment("*", "block")
  BY <1>4, CommentOpeningReadsOn
<1>5. CASE \E c \in Quotes : OpenString(c)
  BY <1>5, StringOpeningReadsOn
<1>6. CASE \E c \in {"a", "'", "/", "*", "\\", Newline} : InComment(c)
  BY <1>6, CommentReadsOn DEF Newline
<1>7. CASE CloseComment
  BY <1>7, CommentClosingReadsOn
<1>8. CASE \E c \in {Comma, "+", "(", "'", DoubleQuote, "/", "*", Newline} : InLiteral(c)
  BY <1>8, LiteralReadsOn DEF Comma, DoubleQuote, Newline
<1>9. CASE \E c \in {"\\", "'", "/", Newline} : Escape(c)
  BY <1>9, EscapeReadsOn DEF Newline
<1>10. CASE CloseLiteral
  BY <1>10, LiteralClosingReadsOn
<1> QED  BY <1>1, <1>2, <1>3, <1>4, <1>5, <1>6, <1>7, <1>8, <1>9, <1>10, Zenon DEF Next

----------------------------------------------------------------------------
(* Both views, along every behaviour.                                      *)

ViewsInv ==
  /\ WriterInv
  /\ ReadsOn(FALSE)
  /\ ~Written("regex") => ReadsOn(TRUE)

LEMMA ViewsInit ==
  ASSUME Init  PROVE ViewsInv
<1>1. src = <<>> /\ kind = <<>> /\ lex = "code" /\ opened = 0 /\ prev = Nothing
  BY DEF Init
<1>2. /\ src \in Text /\ Len(src) = 0 /\ kind \in Seq(Kinds) /\ Len(kind) = 0
  BY <1>1 DEF Text
<1>3. WriterInv
  BY <1>1, <1>2 DEF WriterInv, AfterDivision
<1>4. ASSUME NEW copies \in BOOLEAN  PROVE ReadsOn(copies)
  <2> SUFFICES ASSUME NEW t \in Text  PROVE Reads(copies, src, kind, lex, prev, t)
    BY DEF ReadsOn
  <2>1. Rounds(copies, src \o t)[0] = Start
    BY RoundByRound
  <2>2. Is(copies, Start, Len(src) + 1, lex, prev)
    <3>1. Len(src) + 1 = 1
      BY <1>2
    <3>2. Start.i = 1 /\ Start.state = "code" /\ Start.prev = Nothing
      BY DEF Start, Nothing
    <3> QED  BY <1>1, <3>1, <3>2 DEF Is
  <2>3. Shows(copies, src, kind, Start.out)
    BY <1>1, <1>2 DEF Shows, Start
  <2>4. 0 \in 0..Len(src)
    BY <1>2
  <2> QED  BY <2>1, <2>2, <2>3, <2>4 DEF Reads
<1> QED  BY <1>3, <1>4 DEF ViewsInv

LEMMA ViewsNext ==
  ASSUME ViewsInv, [Next]_vars  PROVE ViewsInv'
<1>1. CASE UNCHANGED vars
  BY <1>1 DEF vars, ViewsInv, WriterInv, AfterDivision, Written, ReadsOn, Reads, MayFollow
<1>2. CASE Next
  <2>1. WriterInv' /\ ReadsOn(FALSE)'
    BY <1>2, NextReadsOn DEF ViewsInv
  <2>2. ASSUME ~Written("regex")'  PROVE ReadsOn(TRUE)'
    <3>1. ~Written("regex")
      BY <1>2, <2>2, RegexStays DEF ViewsInv
    <3>2. ~OpenRegex
      <4> SUFFICES ASSUME OpenRegex  PROVE FALSE
        OBVIOUS
      <4>1. ReadsOn(FALSE) /\ WriterInv
        BY DEF ViewsInv
      <4>2. lex' = "regex"
        BY DEF OpenRegex, Write
      <4>3. WriterInv'
        BY <2>1
      <4> QED  BY <2>2, <4>2, <4>3 DEF WriterInv
    <3> QED  BY <1>2, <3>1, <3>2, NextReadsOn DEF ViewsInv
  <2> QED  BY <2>1, <2>2 DEF ViewsInv
<1> QED  BY <1>1, <1>2

(* What a scanner shows of a text, at its end.                             *)
LEMMA AtTheEnd ==
  ASSUME WriterInv, NEW copies \in BOOLEAN, ReadsOn(copies)
  PROVE  Shows(copies, src, kind, Rounds(copies, src)[Len(src)].out)
<1>1. src \in Text /\ Len(src) \in Nat
  BY DEF WriterInv, Text
<1>2. <<>> \in Text /\ src \o <<>> = src
  BY <1>1, ConcatEmptySeq, EmptySeq DEF Text
<1>3. MayFollow(CharAt(<<>>, 1))
  <2>1. CharAt(<<>>, 1) = ""
    BY DEF CharAt, Nothing
  <2> QED  BY <2>1, OthersMayFollow
<1>4. Reads(copies, src, kind, lex, prev, <<>>)
  BY <1>2, <1>3 DEF ReadsOn
<1>5. PICK n \in 0..Len(src) : /\ Is(copies, Rounds(copies, src)[n], Len(src) + 1, lex, prev)
                               /\ Shows(copies, src, kind, Rounds(copies, src)[n].out)
  BY <1>2, <1>4 DEF Reads
<1>6. n \in Nat /\ n <= Len(src) /\ Rounds(copies, src)[n].i > Len(src)
  BY <1>1, <1>5 DEF Is
<1>7. Rounds(copies, src)[Len(src)] = Rounds(copies, src)[n]
  BY <1>1, <1>6, ReadToTheEnd
<1> QED  BY <1>5, <1>7

LEMMA ViewsShow ==
  ASSUME ViewsInv  PROVE ViewsAreExact
<1> DEFINE stripped == StripCommentsAndStrings(src)
           rawNC == StripCommentsOnly(src)
<1>1. Shows(FALSE, src, kind, stripped)
  BY AtTheEnd DEF ViewsInv, StripCommentsAndStrings
<1>2. ~Written("regex") => Shows(TRUE, src, kind, rawNC)
  BY AtTheEnd DEF ViewsInv, StripCommentsOnly
<1>3. DOMAIN src = 1..Len(src)
  BY LenProperties DEF ViewsInv, WriterInv, Text
<1> HIDE DEF stripped, rawNC
<1>4. /\ Len(stripped) = Len(src)
      /\ \A i \in DOMAIN src : IF kind[i] = "code" THEN stripped[i] = src[i]
                                                   ELSE stripped[i] \in Blanks
  BY <1>1, <1>3 DEF Shows, ShownAs, Seen
<1>5. ~Written("regex") =>
        /\ Len(rawNC) = Len(src)
        /\ \A i \in DOMAIN src : IF kind[i] # "comment" THEN rawNC[i] = src[i]
                                                        ELSE rawNC[i] \in Blanks
  BY <1>2, <1>3 DEF Shows, ShownAs, Seen
<1> QED  BY <1>4, <1>5 DEF stripped, rawNC, ViewsAreExact

(* However long a text is, what the rules of the linter look at is its     *)
(* code, all of it and at its place, and nothing but its code; and a       *)
(* specifier is looked for in its code and its strings.                    *)
THEOREM ViewsAlwaysExact == Spec => []ViewsAreExact
<1>1. Init => ViewsInv
  BY ViewsInit
<1>2. ViewsInv /\ [Next]_vars => ViewsInv'
  BY ViewsNext
<1>3. ViewsInv => ViewsAreExact
  BY ViewsShow
<1> QED  BY <1>1, <1>2, <1>3, PTL DEF Spec

----------------------------------------------------------------------------
(* The arguments of a call.                                                *)

(* Where topLevelFirstArg is, having found nothing.                        *)
At(i, depth, quote) == [i |-> i, depth |-> depth, quote |-> quote, found |-> 0]

LookOn(args, ch, r) == IF r.i > Len(args) \/ r.found # 0 THEN r ELSE Look(args, ch, r)

LEMMA LookByLook ==
  ASSUME NEW args, NEW ch
  PROVE  /\ Looks(args, ch)[0] = At(1, 0, Nothing)
         /\ \A n \in Nat : Looks(args, ch)[n + 1] = LookOn(args, ch, Looks(args, ch)[n])
<1> DEFINE Begin == At(1, 0, Nothing)
           Runs(n, g) == /\ g[0] = Begin
                         /\ \A k \in 0..n - 1 : g[k + 1] = LookOn(args, ch, g[k])
<1> HIDE DEF Begin
<1>1. ASSUME NEW n \in Nat  PROVE \E g : Runs(n, g)
  <2> DEFINE S == {m \in Nat : ~\E g : Runs(m, g)}
  <2> SUFFICES ASSUME S # {}  PROVE FALSE
    OBVIOUS
  <2>1. PICK m \in S : \A k \in S : m <= k
    <3> HIDE DEF S
    <3> QED  BY LeastNumber DEF S
  <2>2. CASE m = 0
    <3>1. Runs(0, [k \in {0} |-> Begin])
      OBVIOUS
    <3> QED  BY <2>1, <2>2, <3>1
  <2>3. CASE m # 0
    <3>1. m - 1 \in Nat /\ m - 1 \notin S
      BY <2>1, <2>3
    <3>2. PICK g : Runs(m - 1, g)
      BY <3>1
    <3> DEFINE h == [k \in 0..m |-> IF k = m THEN LookOn(args, ch, g[m - 1]) ELSE g[k]]
    <3>3. h[0] = Begin
      BY <2>1, <2>3, <3>2
    <3>4. ASSUME NEW k \in 0..m - 1  PROVE h[k + 1] = LookOn(args, ch, h[k])
      BY <2>1, <2>3, <3>2, <3>4
    <3> QED  BY <2>1, <3>3, <3>4
  <2> QED  BY <2>2, <2>3
<1>2. ASSUME NEW n \in Nat, NEW m \in Nat, NEW g, NEW h, Runs(n, g), Runs(m, h),
             NEW k \in Nat, k <= n, k <= m
      PROVE  g[k] = h[k]
  <2> DEFINE S == {j \in Nat : j <= n /\ j <= m /\ g[j] # h[j]}
  <2> SUFFICES ASSUME S # {}  PROVE FALSE
    BY <1>2
  <2>1. PICK j \in S : \A i \in S : j <= i
    <3> HIDE DEF S
    <3> QED  BY LeastNumber DEF S
  <2>2. j # 0
    BY <1>2, <2>1
  <2>3. j - 1 \in Nat /\ j - 1 \notin S
    BY <2>1, <2>2
  <2>4. g[j - 1] = h[j - 1]
    BY <2>1, <2>3
  <2>5. j - 1 \in 0..n - 1 /\ j - 1 \in 0..m - 1 /\ (j - 1) + 1 = j
    BY <2>1, <2>2
  <2>6. g[j] = LookOn(args, ch, g[j - 1]) /\ h[j] = LookOn(args, ch, h[j - 1])
    BY <1>2, <2>5
  <2> QED  BY <2>1, <2>4, <2>6
<1> DEFINE G(n) == CHOOSE g : Runs(n, g)
           f == [n \in Nat |-> G(n)[n]]
<1>3. \A n \in Nat : Runs(n, G(n))
  <2> HIDE DEF Runs
  <2> QED  BY <1>1
<1>4. f[0] = Begin
  <2>1. G(0)[0] = Begin
    BY <1>3
  <2> HIDE DEF G
  <2> QED  BY <2>1
<1>5. ASSUME NEW n \in Nat  PROVE f[n + 1] = LookOn(args, ch, f[n])
  <2>1. Runs(n, G(n)) /\ Runs(n + 1, G(n + 1))
    <3> HIDE DEF Runs, G
    <3> QED  BY <1>3
  <2>2. G(n + 1)[n] = G(n)[n]
    <3> HIDE DEF Runs, G
    <3> QED  BY <1>2, <2>1
  <2>3. G(n + 1)[n + 1] = LookOn(args, ch, G(n + 1)[n])
    BY <2>1
  <2> HIDE DEF G
  <2> QED  BY <2>2, <2>3
<1>6. f = [n \in Nat |-> IF n = 0 THEN Begin ELSE LookOn(args, ch, f[n - 1])]
  <2> HIDE DEF G
  <2> SUFFICES ASSUME NEW n \in Nat, n # 0  PROVE f[n] = LookOn(args, ch, f[n - 1])
    BY <1>4
  <2>1. n - 1 \in Nat /\ (n - 1) + 1 = n
    OBVIOUS
  <2> HIDE DEF f
  <2> QED  BY <1>5, <2>1
<1> HIDE DEF f
<1>7. Looks(args, ch)
        = [n \in Nat |-> IF n = 0 THEN Begin ELSE LookOn(args, ch, Looks(args, ch)[n - 1])]
  BY <1>6 DEF Looks, LookOn, Begin, At
<1> HIDE DEF Runs
<1> QED  BY <1>7 DEF Begin

(* Once it has found a character, or read its text, it stays where it is.  *)
LEMMA LooksToTheEnd ==
  ASSUME NEW args, NEW ch, NEW n \in Nat, NEW m \in Nat, n <= m,
         Looks(args, ch)[n].i > Len(args) \/ Looks(args, ch)[n].found # 0
  PROVE  Looks(args, ch)[m] = Looks(args, ch)[n]
<1> DEFINE S == {j \in Nat : n <= j /\ Looks(args, ch)[j] # Looks(args, ch)[n]}
<1> SUFFICES ASSUME S # {}  PROVE FALSE
  OBVIOUS
<1>1. PICK j \in S : \A i \in S : j <= i
  <2> HIDE DEF S
  <2> QED  BY LeastNumber DEF S
<1>2. j # n
  BY <1>1
<1>3. j - 1 \in Nat /\ n <= j - 1 /\ j - 1 \notin S /\ (j - 1) + 1 = j
  BY <1>1, <1>2
<1>4. Looks(args, ch)[j - 1] = Looks(args, ch)[n]
  BY <1>3
<1>5. Looks(args, ch)[j] = LookOn(args, ch, Looks(args, ch)[j - 1])
  BY <1>3, LookByLook
<1>6. LookOn(args, ch, Looks(args, ch)[n]) = Looks(args, ch)[n]
  BY DEF LookOn
<1> QED  BY <1>1, <1>4, <1>5, <1>6

(* How a character of code changes the depth.                              *)
Turn(k, c) ==
  IF k = "code" /\ c = "(" THEN 1 ELSE IF k = "code" /\ c = ")" THEN -1 ELSE 0

LEMMA Movement ==
  ASSUME NEW i, NEW depth \in Int, NEW quote, NEW n, NEW turn \in Int, NEW q
  PROVE  /\ Moved(At(i, depth, quote), n, turn, q) = At(i + n, depth + turn, q)
         /\ depth + 0 = depth
         /\ At(i, depth, quote).i = i /\ At(i, depth, quote).depth = depth
         /\ At(i, depth, quote).quote = quote
BY DEF Moved, At

LEMMA CodeIsLookedAt ==
  ASSUME NEW c \in {"a", "+", "comma", "(", ")", "newline", "/"}, NEW ch \in {"comma", "+"},
         NEW args, NEW i, NEW depth \in Int, args[i] = c, ~(c = ch /\ depth = 0)
  PROVE  Look(args, ch, At(i, depth, Nothing)) = At(i + 1, depth + Turn("code", c), Nothing)
<1> DEFINE r == At(i, depth, Nothing)
<1>1. c \notin Quotes
  BY Characters
<1>2. r.i = i /\ r.depth = depth /\ r.quote = Nothing
  BY Movement
<1>3. Moved(r, 1, Turn("code", c), Nothing) = At(i + 1, depth + Turn("code", c), Nothing)
  <2>1. Turn("code", c) \in Int
    BY DEF Turn
  <2> QED  BY <2>1, Movement
<1>4. Look(args, ch, r) = Moved(r, 1, Turn("code", c), Nothing)
  <2> HIDE DEF r
  <2>1. CASE c = "("
    BY <1>1, <1>2, <2>1 DEF Look, Turn
  <2>2. CASE c = ")"
    BY <1>1, <1>2, <2>2 DEF Look, Turn
  <2>3. CASE c \notin {"(", ")"}
    BY <1>1, <1>2, <2>3 DEF Look, Turn
  <2> QED  BY <2>1, <2>2, <2>3
<1> QED  BY <1>3, <1>4

LEMMA StringIsLookedAt ==
  ASSUME NEW q \in Quotes, NEW ch \in {"comma", "+"}, NEW args, NEW i, NEW depth \in Int
  PROVE  /\ args[i] = q => Look(args, ch, At(i, depth, Nothing)) = At(i + 1, depth, q)
         /\ args[i] \notin {q, "\\"} => Look(args, ch, At(i, depth, q)) = At(i + 1, depth, q)
         /\ args[i] = "\\" => Look(args, ch, At(i, depth, q)) = At(i + 2, depth, q)
         /\ args[i] = q => Look(args, ch, At(i, depth, q)) = At(i + 1, depth, Nothing)
<1> DEFINE r(quote) == At(i, depth, quote)
<1>1. q # Nothing /\ q # "\\" /\ q \in Quotes /\ q \notin {"(", ")", ch}
  BY Characters
<1>2. \A quote : r(quote).i = i /\ r(quote).depth = depth /\ r(quote).quote = quote
  BY Movement
<1>3. \A quote, n, to : Moved(r(quote), n, 0, to) = At(i + n, depth, to)
  BY Movement
<1> HIDE DEF r
<1>4. args[i] = q => Look(args, ch, r(Nothing)) = Moved(r(Nothing), 1, 0, q)
  BY <1>1, <1>2 DEF Look
<1>5. args[i] \notin {q, "\\"} => Look(args, ch, r(q)) = Moved(r(q), 1, 0, q)
  BY <1>1, <1>2 DEF Look
<1>6. args[i] = "\\" => Look(args, ch, r(q)) = Moved(r(q), 2, 0, q)
  BY <1>1, <1>2 DEF Look
<1>7. args[i] = q => Look(args, ch, r(q)) = Moved(r(q), 1, 0, Nothing)
  BY <1>1, <1>2 DEF Look
<1> QED  BY <1>3, <1>4, <1>5, <1>6, <1>7 DEF r

(* Depth and Between of a given text.                                      *)
Turns(s, ks, ch, i) == {k \in 2..i : ks[k] = "code" /\ s[k] = ch}
DepthIn(s, ks, i) == Cardinality(Turns(s, ks, "(", i)) - Cardinality(Turns(s, ks, ")", i))
BetweenIn(s, ks, ch, close) ==
  {i \in 2..close - 1 : ks[i] = "code" /\ s[i] = ch /\ DepthIn(s, ks, i) = 0}

LEMMA DepthsAgree ==
  /\ \A i : Depth(i) = DepthIn(src, kind, i)
  /\ \A ch, close : Between(ch, close) = BetweenIn(src, kind, ch, close)
<1>1. \A i : Depth(i) = DepthIn(src, kind, i)
  BY DEF Depth, DepthIn, Turns
<1> QED  BY <1>1 DEF Between, BetweenIn

LEMMA TurnsStep ==
  ASSUME NEW s, NEW ks, NEW ch, NEW i \in Nat \ {0}
  PROVE  /\ IsFiniteSet(Turns(s, ks, ch, i)) /\ Cardinality(Turns(s, ks, ch, i)) \in Nat
         /\ Cardinality(Turns(s, ks, ch, 1)) = 0
         /\ Cardinality(Turns(s, ks, ch, i + 1))
              = Cardinality(Turns(s, ks, ch, i))
                  + (IF ks[i + 1] = "code" /\ s[i + 1] = ch THEN 1 ELSE 0)
<1>1. IsFiniteSet(Turns(s, ks, ch, i)) /\ Cardinality(Turns(s, ks, ch, i)) \in Nat
  <2>1. IsFiniteSet(2..i)
    BY FS_Interval
  <2>2. Turns(s, ks, ch, i) \in SUBSET (2..i)
    BY DEF Turns
  <2> QED  BY <2>1, <2>2, FS_Subset, FS_CardinalityType
<1>2. Cardinality(Turns(s, ks, ch, 1)) = 0
  <2>1. Turns(s, ks, ch, 1) = {}
    BY DEF Turns
  <2> QED  BY <2>1, FS_EmptySet
<1>3. CASE ks[i + 1] = "code" /\ s[i + 1] = ch
  <2>1. Turns(s, ks, ch, i + 1) = Turns(s, ks, ch, i) \cup {i + 1}
    BY <1>3 DEF Turns
  <2>2. i + 1 \notin Turns(s, ks, ch, i)
    BY DEF Turns
  <2> QED  BY <1>1, <1>2, <1>3, <2>1, <2>2, FS_AddElement
<1>4. CASE ~(ks[i + 1] = "code" /\ s[i + 1] = ch)
  <2>1. Turns(s, ks, ch, i + 1) = Turns(s, ks, ch, i)
    BY <1>4 DEF Turns
  <2> QED  BY <1>1, <1>2, <1>4, <2>1
<1> QED  BY <1>1, <1>2, <1>3, <1>4

LEMMA DepthStep ==
  ASSUME NEW s, NEW ks, NEW i \in Nat \ {0}
  PROVE  /\ DepthIn(s, ks, i) \in Int /\ DepthIn(s, ks, 1) = 0
         /\ DepthIn(s, ks, i + 1) = DepthIn(s, ks, i) + Turn(ks[i + 1], s[i + 1])
<1> DEFINE a(ch, j) == Cardinality(Turns(s, ks, ch, j))
           b(ch) == IF ks[i + 1] = "code" /\ s[i + 1] = ch THEN 1 ELSE 0
<1>1. /\ a("(", i) \in Nat /\ a("(", 1) = 0 /\ a("(", i + 1) = a("(", i) + b("(")
      /\ a(")", i) \in Nat /\ a(")", 1) = 0 /\ a(")", i + 1) = a(")", i) + b(")")
  BY TurnsStep
<1>2. Turn(ks[i + 1], s[i + 1]) = b("(") - b(")") /\ b("(") \in Int /\ b(")") \in Int
  BY DEF Turn
<1>3. \A j : DepthIn(s, ks, j) = a("(", j) - a(")", j)
  BY DEF DepthIn
<1> HIDE DEF a, b
<1> QED  BY <1>1, <1>2, <1>3

(* They say nothing of what comes later.                                   *)
Agree(s, ks, s2, ks2, n) == \A i \in 2..n : s2[i] = s[i] /\ ks2[i] = ks[i]

LEMMA DepthSoFar ==
  ASSUME NEW s, NEW ks, NEW s2, NEW ks2, NEW n \in Nat, Agree(s, ks, s2, ks2, n)
  PROVE  /\ \A i \in 1..n : DepthIn(s2, ks2, i) = DepthIn(s, ks, i)
         /\ \A ch : \A j \in 2..n + 1 : BetweenIn(s2, ks2, ch, j) = BetweenIn(s, ks, ch, j)
<1>1. ASSUME NEW i \in 1..n, NEW ch  PROVE Turns(s2, ks2, ch, i) = Turns(s, ks, ch, i)
  BY DEF Turns, Agree
<1>2. ASSUME NEW i \in 1..n  PROVE DepthIn(s2, ks2, i) = DepthIn(s, ks, i)
  BY <1>1 DEF DepthIn
<1>3. ASSUME NEW ch, NEW j \in 2..n + 1  PROVE BetweenIn(s2, ks2, ch, j) = BetweenIn(s, ks, ch, j)
  BY <1>2 DEF BetweenIn, Agree
<1> QED  BY <1>2, <1>3

----------------------------------------------------------------------------
(* The scanner of arguments goes along with the writer.                    *)

(* In which quotes the writer is.                                          *)
Quote(state) == IF state = "code" THEN Nothing ELSE Closing[state]

InStrings == {"code", "sq", "dq", "tpl"}

(* In every text that goes on from s[2] to s[j - 1], the scanner gets to   *)
(* s[j] with nothing found, at this depth and in these quotes.             *)
Passes(ch, s, j, depth, quote) ==
  \A args \in Text :
    Len(args) >= j - 2 /\ (\A k \in 1..j - 2 : args[k] = s[k + 1])
      => \E n \in 0..j - 2 : Looks(args, ch)[n] = At(j - 1, depth, quote)

(* So it does from each character of code to the next, and to the end of   *)
(* what there is, as long as there is nothing to be found in between.      *)
PassesCode(ch, s, ks, state) ==
  /\ \A j \in 2..Len(s) : ks[j] = "code" /\ BetweenIn(s, ks, ch, j) = {} =>
       Passes(ch, s, j, DepthIn(s, ks, j - 1), Nothing)
  /\ BetweenIn(s, ks, ch, Len(s) + 1) = {} =>
       Passes(ch, s, Len(s) + 1, DepthIn(s, ks, Len(s)), Quote(state))

WrittenIn(ks, k) == \E i \in DOMAIN ks : ks[i] = k

(* A call's text: one in which only code and strings are to be told apart. *)
CallIn(s, ks) ==
  s # <<>> /\ s[1] = "(" /\ ~WrittenIn(ks, "comment") /\ ~WrittenIn(ks, "regex")

(* A text that begins with a bracket begins with one of code.              *)
CallInv ==
  /\ src = <<>> => lex = "code"
  /\ src # <<>> /\ src[1] = "(" => kind[1] = "code"
  /\ lex \in {"line", "block"} => Written("comment")
  /\ lex = "regex" => Written("regex")

(* A piece takes the scanner on as it takes on the writer, if it is not    *)
(* what is looked for.                                                     *)
TakesOn(ch, piece, m, k, state, next) ==
  \A args, i : \A depth \in Int :
    args[i] = piece[1] /\ ~(k = "code" /\ piece[1] = ch /\ depth = 0) =>
      Look(args, ch, At(i, depth, Quote(state)))
        = At(i + m, depth + Turn(k, piece[1]), Quote(next))

(* A piece of m characters; code is written one at a time.                 *)
Fits(piece, m, k, state) ==
  /\ piece \in Text /\ Len(piece) = m
  /\ k = "code" => m = 1 /\ state = "code"

Extends(s, ks, piece, m, k, s2, ks2) ==
  /\ Len(s2) = Len(s) + m /\ Len(ks2) = Len(s2)
  /\ \A i \in 1..Len(s) : s2[i] = s[i] /\ ks2[i] = ks[i]
  /\ \A i \in 1..m : s2[Len(s) + i] = piece[i] /\ ks2[Len(s) + i] = k

LEMMA PassesPiece ==
  ASSUME NEW s \in Text, NEW ks \in Seq(Kinds), Len(ks) = Len(s), s # <<>>, NEW state,
         NEW ch \in {"comma", "+"}, PassesCode(ch, s, ks, state),
         NEW piece, NEW m \in {1, 2}, NEW k \in Kinds, NEW next, Fits(piece, m, k, state),
         NEW s2 \in Text, NEW ks2 \in Seq(Kinds), Extends(s, ks, piece, m, k, s2, ks2),
         TakesOn(ch, piece, m, k, state, next)
  PROVE  PassesCode(ch, s2, ks2, next)
<1> DEFINE L == Len(s)
<1>1. /\ L \in Nat \ {0} /\ L \in Nat /\ L >= 1 /\ Len(s2) = L + m
      /\ m \in {1, 2} /\ m \in Nat /\ m >= 1
      /\ \A i \in 1..L : s2[i] = s[i] /\ ks2[i] = ks[i]
      /\ \A i \in 1..m : s2[L + i] = piece[i] /\ ks2[L + i] = k
  <2>1. L \in Nat \ {0}
    BY EmptySeq, LenProperties DEF Text
  <2> HIDE DEF L
  <2>2. L >= 1 /\ m \in Nat /\ m >= 1
    BY <2>1
  <2> QED  BY <2>1, <2>2 DEF Extends, L
<1> HIDE DEF L
<1>2. /\ \A i \in 1..L : DepthIn(s2, ks2, i) = DepthIn(s, ks, i)
      /\ \A j \in 2..L + 1 : BetweenIn(s2, ks2, ch, j) = BetweenIn(s, ks, ch, j)
  <2>1. Agree(s, ks, s2, ks2, L)
    BY <1>1 DEF L, Agree
  <2>2. L \in Nat
    BY <1>1
  <2> QED  BY <2>1, <2>2, DepthSoFar
<1>3. ASSUME NEW j \in 2..L + 1, NEW depth, NEW quote, Passes(ch, s, j, depth, quote)
      PROVE  Passes(ch, s2, j, depth, quote)
  <2> SUFFICES ASSUME NEW args \in Text, Len(args) >= j - 2,
                      \A i \in 1..j - 2 : args[i] = s2[i + 1]
               PROVE  \E n \in 0..j - 2 : Looks(args, ch)[n] = At(j - 1, depth, quote)
    BY DEF Passes
  <2>1. \A i \in 1..j - 2 : args[i] = s[i + 1]
    BY <1>1 DEF L
  <2> QED  BY <1>3, <2>1 DEF Passes
<1>4. DepthIn(s, ks, L) \in Int
  BY <1>1, DepthStep
<1>5. ASSUME NEW j \in 2..Len(s2), ks2[j] = "code", BetweenIn(s2, ks2, ch, j) = {}
      PROVE  Passes(ch, s2, j, DepthIn(s2, ks2, j - 1), Nothing)
  <2>1. CASE j <= L
    <3>1. j \in 2..L /\ ks[j] = "code" /\ BetweenIn(s, ks, ch, j) = {}
      BY <1>1, <1>2, <1>5, <2>1 DEF L
    <3>2. Passes(ch, s, j, DepthIn(s, ks, j - 1), Nothing)
      BY <3>1 DEF PassesCode, L
    <3>3. DepthIn(s2, ks2, j - 1) = DepthIn(s, ks, j - 1)
      <4>1. j - 1 \in 1..L
        BY <1>1, <3>1
      <4> QED  BY <1>2, <4>1
    <3> QED  BY <1>1, <1>3, <3>1, <3>2, <3>3
  <2>2. CASE ~(j <= L)
    <3>1. j - L \in 1..m /\ L + (j - L) = j
      BY <1>1, <2>2
    <3>2. ks2[j] = k
      BY <1>1, <3>1
    <3>6. k = "code" /\ m = 1
      BY <1>5, <3>2 DEF Fits
    <3>3. j = L + 1 /\ state = "code" /\ Quote(state) = Nothing
      <4>1. state = "code"
        BY <3>6 DEF Fits
      <4>2. j - L = 1
        BY <3>1, <3>6
      <4> QED  BY <1>1, <4>1, <4>2 DEF Quote
    <3>4. Passes(ch, s, j, DepthIn(s, ks, L), Nothing)
      BY <1>1, <1>2, <1>5, <3>3 DEF PassesCode, L
    <3>5. DepthIn(s2, ks2, j - 1) = DepthIn(s, ks, L)
      BY <1>1, <1>2, <3>3
    <3> QED  BY <1>1, <1>3, <3>3, <3>4, <3>5
  <2> QED  BY <2>1, <2>2
<1>6. ASSUME BetweenIn(s2, ks2, ch, Len(s2) + 1) = {}
      PROVE  Passes(ch, s2, Len(s2) + 1, DepthIn(s2, ks2, Len(s2)), Quote(next))
  <2> DEFINE depth == DepthIn(s, ks, L)
             turn == Turn(k, piece[1])
  <2>1. BetweenIn(s2, ks2, ch, L + 1) = {}
    BY <1>1, <1>6 DEF BetweenIn
  <2>2. Passes(ch, s, L + 1, depth, Quote(state))
    BY <1>1, <1>2, <2>1 DEF PassesCode, L
  <2>3. /\ s2[L + 1] = piece[1] /\ ks2[L + 1] = k
        /\ m = 2 => ks2[L + 2] = k /\ k # "code"
    <3>1. 1 \in 1..m /\ (m = 2 => 2 \in 1..m)
      BY <1>1
    <3> QED  BY <1>1, <3>1 DEF Fits
  <2>4. DepthIn(s2, ks2, L + 1) = depth + turn /\ turn \in Int
    <3>1. L \in 1..L
      BY <1>1
    <3>2. DepthIn(s2, ks2, L) = depth
      BY <1>2, <3>1
    <3>3. DepthIn(s2, ks2, L + 1) = DepthIn(s2, ks2, L) + Turn(ks2[L + 1], s2[L + 1])
      BY <1>1, DepthStep
    <3>4. turn \in Int
      BY DEF Turn
    <3> HIDE DEF depth
    <3> QED  BY <2>3, <3>2, <3>3, <3>4
  <2>5. DepthIn(s2, ks2, Len(s2)) = depth + turn
    <3>1. CASE m = 1
      <4>1. Len(s2) = L + 1
        BY <1>1, <3>1
      <4> QED  BY <2>4, <4>1
    <3>2. CASE m = 2
      <4>1. L + 1 \in Nat \ {0} /\ (L + 1) + 1 = Len(s2) /\ (L + 1) + 1 = L + 2
        BY <1>1, <3>2
      <4>2. Turn(ks2[L + 2], s2[L + 2]) = 0
        BY <2>3, <3>2 DEF Turn
      <4>3. DepthIn(s2, ks2, L + 2) = DepthIn(s2, ks2, L + 1) + Turn(ks2[L + 2], s2[L + 2])
        <5>1. L + 1 \in Nat \ {0} /\ (L + 1) + 1 = L + 2
          BY <4>1
        <5>2. \A i \in Nat \ {0} :
                DepthIn(s2, ks2, i + 1) = DepthIn(s2, ks2, i) + Turn(ks2[i + 1], s2[i + 1])
          BY DepthStep
        <5>3. DepthIn(s2, ks2, (L + 1) + 1)
                = DepthIn(s2, ks2, L + 1) + Turn(ks2[(L + 1) + 1], s2[(L + 1) + 1])
          BY <5>1, <5>2
        <5> QED  BY <5>1, <5>3
      <4> QED  BY <1>4, <2>4, <4>1, <4>2, <4>3
    <3> QED  BY <3>1, <3>2
  <2>6. ~(k = "code" /\ piece[1] = ch /\ depth = 0)
    <3> SUFFICES ASSUME k = "code", piece[1] = ch, depth = 0  PROVE FALSE
      OBVIOUS
    <3>1. turn = 0
      BY DEF Turn
    <3>2. L + 1 \in 2..(Len(s2) + 1) - 1 /\ DepthIn(s2, ks2, L + 1) = 0
      <4>1. DepthIn(s2, ks2, L + 1) = depth + turn
        BY <2>4
      <4> HIDE DEF depth, turn
      <4> QED  BY <1>1, <3>1, <4>1
    <3>3. L + 1 \in BetweenIn(s2, ks2, ch, Len(s2) + 1)
      BY <2>3, <3>2 DEF BetweenIn
    <3> QED  BY <1>6, <3>3
  <2> HIDE DEF depth, turn
  <2>7. SUFFICES ASSUME NEW args \in Text, Len(args) >= (Len(s2) + 1) - 2,
                        \A i \in 1..(Len(s2) + 1) - 2 : args[i] = s2[i + 1]
                 PROVE  \E n \in 0..(Len(s2) + 1) - 2 :
                          Looks(args, ch)[n] = At((Len(s2) + 1) - 1, depth + turn, Quote(next))
    BY <2>5 DEF Passes
  <2>8. PICK n \in 0..L - 1 : Looks(args, ch)[n] = At(L, depth, Quote(state))
    <3>1. Len(args) >= (L + 1) - 2 /\ \A i \in 1..(L + 1) - 2 : args[i] = s[i + 1]
      <4>1. \A i \in 1..(L + 1) - 2 : i \in 1..(Len(s2) + 1) - 2 /\ i + 1 \in 1..L
        BY <1>1
      <4>2. Len(args) \in Nat
        BY LenProperties DEF Text
      <4> QED  BY <1>1, <2>7, <4>1, <4>2 DEF L
    <3>2. (L + 1) - 2 = L - 1 /\ (L + 1) - 1 = L
      BY <1>1
    <3> QED  BY <2>2, <3>1, <3>2 DEF Passes
  <2>9. L <= Len(args) /\ args[L] = piece[1]
    <3>1. Len(args) \in Nat
      BY LenProperties DEF Text
    <3>2. L \in 1..(Len(s2) + 1) - 2
      BY <1>1
    <3> QED  BY <1>1, <2>3, <2>7, <3>1, <3>2
  <2>10. Looks(args, ch)[n + 1] = Look(args, ch, At(L, depth, Quote(state)))
    <3>1. LookOn(args, ch, At(L, depth, Quote(state))) = Look(args, ch, At(L, depth, Quote(state)))
      <4>1. Len(args) \in Nat
        BY LenProperties DEF Text
      <4> QED  BY <1>1, <2>9, <4>1 DEF LookOn, At
    <3>2. n \in Nat
      BY <1>1
    <3>3. Looks(args, ch)[n + 1] = LookOn(args, ch, Looks(args, ch)[n])
      BY <3>2, LookByLook
    <3> QED  BY <2>8, <3>1, <3>3
  <2>11. Looks(args, ch)[n + 1] = At(L + m, depth + turn, Quote(next))
    <3>1. depth \in Int
      BY <1>4 DEF depth
    <3>2. Look(args, ch, At(L, depth, Quote(state)))
            = At(L + m, depth + Turn(k, piece[1]), Quote(next))
      BY <2>6, <2>9, <3>1 DEF TakesOn
    <3> QED  BY <2>10, <3>2 DEF turn
  <2>12. n + 1 \in 0..(Len(s2) + 1) - 2 /\ (Len(s2) + 1) - 1 = L + m
    <3>1. n + 1 \in 0..L
      BY <1>1
    <3>2. (Len(s2) + 1) - 2 = L + m - 1 /\ (Len(s2) + 1) - 1 = L + m
      BY <1>1
    <3>3. L + m - 1 >= L
      BY <1>1
    <3> QED  BY <1>1, <3>1, <3>2, <3>3
  <2> QED  BY <2>11, <2>12
<1> QED  BY <1>5, <1>6 DEF PassesCode

LEMMA CodeTakesOn ==
  ASSUME NEW c \in {"a", "+", "comma", "(", ")", "newline", "/"}, NEW ch \in {"comma", "+"}
  PROVE  TakesOn(ch, <<c>>, 1, "code", "code", "code")
<1>1. Quote("code") = Nothing /\ <<c>>[1] = c
  BY DEF Quote
<1>2. SUFFICES ASSUME NEW args, NEW i, NEW depth \in Int, args[i] = c, ~(c = ch /\ depth = 0)
               PROVE  Look(args, ch, At(i, depth, Nothing))
                        = At(i + 1, depth + Turn("code", c), Nothing)
  BY <1>1 DEF TakesOn
<1> QED  BY <1>2, CodeIsLookedAt

LEMMA StringTakesOn ==
  ASSUME NEW state \in {"sq", "dq", "tpl"}, NEW ch \in {"comma", "+"}
  PROVE  /\ TakesOn(ch, <<Closing[state]>>, 1, "string", "code", state)
         /\ TakesOn(ch, <<Closing[state]>>, 1, "string", state, "code")
         /\ \A c \in Char \ {Closing[state], "\\"} : TakesOn(ch, <<c>>, 1, "string", state, state)
         /\ \A c \in Char : TakesOn(ch, <<"\\", c>>, 2, "string", state, state)
<1> DEFINE q == Closing[state]
<1>1. q \in Quotes
  BY Characters
<1>2. Quote("code") = Nothing /\ Quote(state) = q
  BY DEF Quote
<1> HIDE DEF q
<1>3. \A c : \A depth \in Int : depth + Turn("string", c) = depth
  BY DEF Turn
<1>4. \A args, i : \A depth \in Int :
        /\ args[i] = q => Look(args, ch, At(i, depth, Nothing)) = At(i + 1, depth, q)
        /\ args[i] \notin {q, "\\"} => Look(args, ch, At(i, depth, q)) = At(i + 1, depth, q)
        /\ args[i] = "\\" => Look(args, ch, At(i, depth, q)) = At(i + 2, depth, q)
        /\ args[i] = q => Look(args, ch, At(i, depth, q)) = At(i + 1, depth, Nothing)
  BY <1>1, StringIsLookedAt
<1>5. TakesOn(ch, <<q>>, 1, "string", "code", state)
  <2>1. <<q>>[1] = q
    OBVIOUS
  <2> QED  BY <1>2, <1>3, <1>4, <2>1 DEF TakesOn
<1>6. TakesOn(ch, <<q>>, 1, "string", state, "code")
  <2>1. <<q>>[1] = q
    OBVIOUS
  <2> QED  BY <1>2, <1>3, <1>4, <2>1 DEF TakesOn
<1>7. ASSUME NEW c \in Char \ {q, "\\"}  PROVE TakesOn(ch, <<c>>, 1, "string", state, state)
  <2>1. <<c>>[1] = c /\ c \notin {q, "\\"}
    OBVIOUS
  <2> QED  BY <1>2, <1>3, <1>4, <2>1 DEF TakesOn
<1>8. ASSUME NEW c \in Char  PROVE TakesOn(ch, <<"\\", c>>, 2, "string", state, state)
  <2>1. <<"\\", c>>[1] = "\\"
    OBVIOUS
  <2> QED  BY <1>2, <1>3, <1>4, <2>1 DEF TakesOn
<1> QED  BY <1>5, <1>6, <1>7, <1>8 DEF q

(* What a piece is to the scanner of arguments.                            *)
Suits(piece, m, k, next) ==
  /\ Writes(piece, k, next) /\ piece \in Text /\ Len(piece) = m
  /\ piece[1] = "(" /\ lex = "code" => k = "code"
  /\ k = "code" => next = "code"
  /\ next \in {"line", "block"} => k = "comment"
  /\ next = "regex" => k = "regex"
  /\ k \in {"code", "string"} /\ lex \in InStrings =>
       /\ Fits(piece, m, k, lex)
       /\ \A ch \in {"comma", "+"} : TakesOn(ch, piece, m, k, lex, next)

Suitable == \E m \in {1, 2}, k \in Kinds : \E piece, next : Suits(piece, m, k, next)

LEMMA CodeSuits ==
  ASSUME \/ \E c \in {"a", "+", "comma", "(", ")", "newline"} : WriteCode(c)
         \/ WriteDivision
  PROVE  Suitable
<1>1. PICK c \in {"a", "+", "comma", "(", ")", "newline", "/"} :
        lex = "code" /\ Write(<<c>>, "code", "code")
  BY DEF WriteCode, WriteDivision
<1>2. c \in Char
  BY DEF Char
<1>3. Writes(<<c>>, "code", "code")
  BY <1>1, WriteWrites
<1>4. <<c>> \in Text /\ Len(<<c>>) = 1 /\ <<c>>[1] = c
  BY <1>2, Pieces
<1>5. \A ch \in {"comma", "+"} : TakesOn(ch, <<c>>, 1, "code", "code", "code")
  BY CodeTakesOn
<1>6. Fits(<<c>>, 1, "code", "code")
  BY <1>4 DEF Fits
<1>7. Suits(<<c>>, 1, "code", "code")
  BY <1>1, <1>3, <1>4, <1>5, <1>6 DEF Suits
<1> QED  BY <1>7 DEF Suitable, Kinds

LEMMA OpeningSuits ==
  ASSUME NEW c \in Quotes, OpenString(c)
  PROVE  Suitable
<1> DEFINE next == QuoteState(c)
<1>1. next \in {"sq", "dq", "tpl"} /\ Closing[next] = c /\ c \in Char /\ c # "("
  BY Characters DEF Char
<1> HIDE DEF next
<1>2. lex = "code" /\ Writes(<<c>>, "string", next)
  BY WriteWrites DEF OpenString, next
<1>3. <<c>> \in Text /\ Len(<<c>>) = 1 /\ <<c>>[1] = c
  BY <1>1, Pieces
<1>4. \A ch \in {"comma", "+"} : TakesOn(ch, <<c>>, 1, "string", "code", next)
  BY <1>1, StringTakesOn
<1>5. Fits(<<c>>, 1, "string", "code")
  BY <1>3 DEF Fits
<1>6. Suits(<<c>>, 1, "string", next)
  BY <1>1, <1>2, <1>3, <1>4, <1>5 DEF Suits
<1> QED  BY <1>6 DEF Suitable, Kinds

LEMMA CommentSuits ==
  ASSUME \/ OpenComment("/", "line") \/ OpenComment("*", "block")
         \/ \E c \in {"a", "'", "/", "*", "\\", "newline"} : InComment(c)
         \/ CloseComment
  PROVE  Suitable
<1>1. ASSUME NEW mark \in {"/", "*"}, NEW next \in {"line", "block"}, OpenComment(mark, next)
      PROVE  Suitable
  <2>1. Writes(<<"/", mark>>, "comment", next)
    BY <1>1, WriteWrites DEF OpenComment
  <2>2. "/" \in Char /\ mark \in Char
    BY DEF Char
  <2>3. <<"/", mark>> \in Text /\ Len(<<"/", mark>>) = 2 /\ <<"/", mark>>[1] = "/"
    BY <2>2, Pieces
  <2>4. Suits(<<"/", mark>>, 2, "comment", next)
    BY <2>1, <2>3 DEF Suits
  <2> QED  BY <2>4 DEF Suitable, Kinds
<1>2. ASSUME NEW c \in {"a", "'", "/", "*", "\\", "newline"}, InComment(c)  PROVE Suitable
  <2>1. Writes(<<c>>, "comment", lex) /\ lex \in {"line", "block"}
    BY <1>2, WriteWrites DEF InComment
  <2>2. c \in Char
    BY Characters DEF Char
  <2>3. <<c>> \in Text /\ Len(<<c>>) = 1 /\ <<c>>[1] = c
    BY <2>2, Pieces
  <2>4. Suits(<<c>>, 1, "comment", lex)
    BY <2>1, <2>3 DEF Suits
  <2> QED  BY <2>4 DEF Suitable, Kinds
<1>3. ASSUME lex = "line", Write(<<Newline>>, "code", "code")  PROVE Suitable
  <2>1. Writes(<<"newline">>, "code", "code")
    BY <1>3, WriteWrites DEF Newline
  <2>2. "newline" \in Char
    BY DEF Char
  <2>3. <<"newline">> \in Text /\ Len(<<"newline">>) = 1
    BY <2>2, Pieces
  <2>4. Suits(<<"newline">>, 1, "code", "code")
    BY <1>3, <2>1, <2>3 DEF Suits, InStrings
  <2> QED  BY <2>4 DEF Suitable, Kinds
<1>4. ASSUME lex = "block", Write(<<"*", "/">>, "comment", "code")  PROVE Suitable
  <2>1. Writes(<<"*", "/">>, "comment", "code")
    BY <1>4, WriteWrites
  <2>2. "*" \in Char /\ "/" \in Char
    BY DEF Char
  <2>3. <<"*", "/">> \in Text /\ Len(<<"*", "/">>) = 2 /\ <<"*", "/">>[1] = "*"
    BY <2>2, Pieces
  <2>4. Suits(<<"*", "/">>, 2, "comment", "code")
    BY <1>4, <2>1, <2>3 DEF Suits
  <2> QED  BY <2>4 DEF Suitable, Kinds
<1> QED  BY <1>1, <1>2, <1>3, <1>4 DEF CloseComment

(* A string's next character, an escape in it, or its end.                 *)
LEMMA StringSuits ==
  ASSUME lex \in {"sq", "dq", "tpl"},
         \/ \E c \in Char : InLiteral(c) \/ Escape(c)
         \/ CloseLiteral
  PROVE  Suitable
<1> DEFINE q == Closing[lex]
<1>1. q \in Char /\ q # "(" /\ Kind = "string" /\ lex # "code" /\ "\\" \in Char
  BY Characters DEF Char, Kind
<1>2. \A ch \in {"comma", "+"} :
        /\ TakesOn(ch, <<q>>, 1, "string", lex, "code")
        /\ \A c \in Char \ {q, "\\"} : TakesOn(ch, <<c>>, 1, "string", lex, lex)
        /\ \A c \in Char : TakesOn(ch, <<"\\", c>>, 2, "string", lex, lex)
  BY StringTakesOn
<1>3. ASSUME NEW c \in Char, InLiteral(c)  PROVE Suitable
  <2>1. Writes(<<c>>, "string", lex) /\ c \in Char \ {q, "\\"}
    BY <1>1, <1>3, WriteWrites DEF InLiteral
  <2>2. <<c>> \in Text /\ Len(<<c>>) = 1
    BY <2>1, Pieces
  <2>3. Suits(<<c>>, 1, "string", lex)
    BY <1>1, <1>2, <2>1, <2>2 DEF Suits, Fits
  <2> QED  BY <2>3 DEF Suitable, Kinds
<1>4. ASSUME NEW c \in Char, Escape(c)  PROVE Suitable
  <2>1. Writes(<<"\\", c>>, "string", lex)
    BY <1>1, <1>4, WriteWrites DEF Escape
  <2>2. <<"\\", c>> \in Text /\ Len(<<"\\", c>>) = 2
    BY <1>1, Pieces
  <2>3. Suits(<<"\\", c>>, 2, "string", lex)
    BY <1>1, <1>2, <2>1, <2>2 DEF Suits, Fits
  <2> QED  BY <2>3 DEF Suitable, Kinds
<1>5. ASSUME CloseLiteral  PROVE Suitable
  <2>1. Writes(<<q>>, "string", "code")
    BY <1>1, <1>5, WriteWrites DEF CloseLiteral
  <2>2. <<q>> \in Text /\ Len(<<q>>) = 1
    BY <1>1, Pieces
  <2>3. Suits(<<q>>, 1, "string", "code")
    BY <1>1, <1>2, <2>1, <2>2 DEF Suits, Fits
  <2> QED  BY <2>3 DEF Suitable, Kinds
<1> QED  BY <1>3, <1>4, <1>5

LEMMA RegexSuits ==
  ASSUME \/ OpenRegex
         \/ /\ lex = "regex"
            /\ \/ \E c \in Char : InLiteral(c) \/ Escape(c)
               \/ CloseLiteral
  PROVE  Suitable
<1>1. "\\" \in Char /\ "/" \in Char /\ "a" \in Char
  BY DEF Char
<1>2. lex = "regex" => Kind = "regex" /\ Closing[lex] = "/"
  BY Characters DEF Kind
<1>3. ASSUME NEW piece, NEW m \in {1, 2}, piece \in Text, Len(piece) = m,
             NEW next, Writes(piece, "regex", next), next \in {"code", "regex"},
             lex = "code" => piece[1] # "("
      PROVE  Suitable
  <2>1. Suits(piece, m, "regex", next)
    BY <1>3 DEF Suits
  <2> QED  BY <2>1 DEF Suitable, Kinds
<1>4. CASE OpenRegex
  <2>1. Writes(<<"/", "a">>, "regex", "regex")
    BY <1>4, WriteWrites DEF OpenRegex
  <2>2. <<"/", "a">> \in Text /\ Len(<<"/", "a">>) = 2 /\ <<"/", "a">>[1] = "/"
    BY <1>1, Pieces
  <2> QED  BY <1>3, <2>1, <2>2
<1>5. ASSUME lex = "regex", NEW c \in Char, InLiteral(c)  PROVE Suitable
  <2>1. Writes(<<c>>, "regex", "regex")
    BY <1>2, <1>5, WriteWrites DEF InLiteral
  <2>2. <<c>> \in Text /\ Len(<<c>>) = 1
    BY Pieces
  <2> QED  BY <1>3, <1>5, <2>1, <2>2
<1>6. ASSUME lex = "regex", NEW c \in Char, Escape(c)  PROVE Suitable
  <2>1. Writes(<<"\\", c>>, "regex", "regex")
    BY <1>2, <1>6, WriteWrites DEF Escape
  <2>2. <<"\\", c>> \in Text /\ Len(<<"\\", c>>) = 2
    BY <1>1, Pieces
  <2> QED  BY <1>3, <1>6, <2>1, <2>2
<1>7. ASSUME lex = "regex", CloseLiteral  PROVE Suitable
  <2>1. Writes(<<"/">>, "regex", "code")
    BY <1>2, <1>7, WriteWrites DEF CloseLiteral
  <2>2. <<"/">> \in Text /\ Len(<<"/">>) = 1
    BY <1>1, Pieces
  <2> QED  BY <1>3, <1>7, <2>1, <2>2
<1> QED  BY <1>4, <1>5, <1>6, <1>7

LEMMA NextSuits ==
  ASSUME Next  PROVE Suitable
<1>1. CASE \/ \E c \in {"a", "+", Comma, "(", ")", Newline} : WriteCode(c)
           \/ WriteDivision
  BY <1>1, CodeSuits DEF Comma, Newline
<1>2. CASE \E c \in Quotes : OpenString(c)
  BY <1>2, OpeningSuits
<1>3. CASE \/ OpenComment("/", "line") \/ OpenComment("*", "block")
           \/ \E c \in {"a", "'", "/", "*", "\\", Newline} : InComment(c)
           \/ CloseComment
  BY <1>3, CommentSuits DEF Newline
<1>4. CASE OpenRegex
  BY <1>4, RegexSuits
<1>5. CASE \/ \E c \in {Comma, "+", "(", "'", DoubleQuote, "/", "*", Newline} : InLiteral(c)
           \/ \E c \in {"\\", "'", "/", Newline} : Escape(c)
           \/ CloseLiteral
  <2>1. lex \in {"sq", "dq", "tpl"} \/ lex = "regex"
    BY <1>5, Characters DEF InLiteral, Escape, CloseLiteral
  <2>2. (\E c \in Char : InLiteral(c) \/ Escape(c)) \/ CloseLiteral
    BY <1>5, Characters DEF Char
  <2> QED  BY <2>1, <2>2, StringSuits, RegexSuits
<1> QED  BY <1>1, <1>2, <1>3, <1>4, <1>5, Zenon DEF Next

(* The scanner of arguments passes over what was written of a call.        *)
ArgsInv ==
  /\ CallInv
  /\ CallIn(src, kind) => \A ch \in {"comma", "+"} : PassesCode(ch, src, kind, lex)

LEMMA ArgsInit ==
  ASSUME Init  PROVE ArgsInv
BY DEF Init, ArgsInv, CallInv, CallIn

(* One character of a call: its bracket.                                   *)
LEMMA FirstPasses ==
  ASSUME NEW s, NEW ks, Len(s) = 1, NEW ch  PROVE PassesCode(ch, s, ks, "code")
<1>1. DepthIn(s, ks, 1) = 0
  BY DepthStep
<1>2. Passes(ch, s, 2, 0, Nothing)
  <2>1. Quote("code") = Nothing
    BY DEF Quote
  <2> SUFFICES ASSUME NEW args  PROVE \E n \in 0..0 : Looks(args, ch)[n] = At(1, 0, Nothing)
    BY DEF Passes
  <2> QED  BY LookByLook
<1>3. Quote("code") = Nothing
  BY DEF Quote
<1> QED  BY <1>1, <1>2, <1>3 DEF PassesCode

LEMMA ArgsNext ==
  ASSUME WriterInv, ArgsInv, Next  PROVE ArgsInv'
<1>1. PICK m \in {1, 2}, k \in Kinds : \E p, to : Suits(p, m, k, to)
  BY NextSuits DEF Suitable
<1>2. PICK piece, next : Suits(piece, m, k, next)
  BY <1>1
<1> DEFINE L == Len(src)
<1>3. piece \in Text /\ Len(piece) = m /\ Writes(piece, k, next) /\ lex' = next
  BY <1>2 DEF Suits, Writes
<1>4. /\ src' \in Text /\ kind' \in Seq(Kinds) /\ Len(kind') = Len(src')
      /\ Extends(src, kind, piece, m, k, src', kind')
  <2>1. Len(piece) \in {1, 2}
    BY <1>3
  <2>2. /\ src' \in Text /\ Len(src') = Len(src) + Len(piece)
        /\ kind' \in Seq(Kinds) /\ Len(kind') = Len(src')
        /\ \A i \in 1..Len(src) : src'[i] = src[i] /\ kind'[i] = kind[i]
        /\ \A i \in 1..Len(piece) : src'[Len(src) + i] = piece[i] /\ kind'[Len(src) + i] = k
    BY <1>3, <2>1, WhatIsWritten
  <2> QED  BY <1>3, <2>2 DEF Extends
<1>5. /\ src \in Text /\ kind \in Seq(Kinds) /\ Len(kind) = L /\ L \in Nat
      /\ DOMAIN kind = 1..L /\ DOMAIN kind' = 1..Len(src') /\ Len(src') = L + m
      /\ \A i \in 1..L : src'[i] = src[i] /\ kind'[i] = kind[i]
      /\ src'[L + 1] = piece[1] /\ kind'[L + 1] = k
  <2>1. src \in Text /\ kind \in Seq(Kinds) /\ Len(kind) = L /\ L \in Nat
    BY LenProperties DEF WriterInv, Text
  <2>2. DOMAIN kind = 1..L /\ DOMAIN kind' = 1..Len(src')
    BY <1>4, <2>1, LenProperties
  <2>3. 1 \in 1..m
    OBVIOUS
  <2> QED  BY <1>4, <2>1, <2>2, <2>3 DEF Extends
<1> HIDE DEF L
<1>6. L = 0 <=> src = <<>>
  BY <1>5, EmptySeq DEF L, Text
<1>7. \A a \in Kinds : Written(a) \/ k = a => Written(a)'
  <2> TAKE a \in Kinds
  <2>1. CASE Written(a)
    <3>1. PICK i \in DOMAIN kind : kind[i] = a
      BY <2>1 DEF Written
    <3>2. i \in DOMAIN kind' /\ kind'[i] = a
      BY <1>5, <3>1
    <3> QED  BY <3>2 DEF Written
  <2>2. CASE k = a
    <3>1. L + 1 \in DOMAIN kind' /\ kind'[L + 1] = a
      BY <1>5, <2>2
    <3> QED  BY <3>1 DEF Written
  <2> QED  BY <2>1, <2>2
<1>8. src' # <<>>
  <2>1. Len(src') # 0
    BY <1>5
  <2> QED  BY <2>1, <1>4, EmptySeq DEF Text
<1>9. CallInv'
  <2>1. src'[1] = "(" => kind'[1] = "code"
    <3>1. CASE src = <<>>
      <4>1. L + 1 = 1 /\ lex = "code"
        BY <1>5, <1>6, <3>1 DEF ArgsInv, CallInv
      <4> QED  BY <1>2, <1>5, <4>1 DEF Suits
    <3>2. CASE src # <<>>
      <4>1. 1 \in 1..L
        BY <1>5, <1>6, <3>2
      <4> QED  BY <1>5, <3>2, <4>1 DEF ArgsInv, CallInv
    <3> QED  BY <3>1, <3>2
  <2>2. lex' \in {"line", "block"} => Written("comment")'
    BY <1>2, <1>3, <1>7 DEF Suits, Kinds
  <2>3. lex' = "regex" => Written("regex")'
    BY <1>2, <1>3, <1>7 DEF Suits, Kinds
  <2> QED  BY <1>8, <2>1, <2>2, <2>3 DEF CallInv
<1>10. ASSUME CallIn(src', kind'), NEW ch \in {"comma", "+"}
       PROVE  PassesCode(ch, src', kind', lex')
  <2>1. ~Written("comment")' /\ ~Written("regex")' /\ src'[1] = "("
    BY <1>10 DEF CallIn, WrittenIn, Written
  <2>2. k \in {"code", "string"} /\ ~Written("comment") /\ ~Written("regex")
    BY <1>7, <2>1 DEF Kinds
  <2>3. lex \in InStrings
    BY <2>2 DEF ArgsInv, CallInv, WriterInv, InStrings
  <2>4. Fits(piece, m, k, lex) /\ TakesOn(ch, piece, m, k, lex, next)
    BY <1>2, <2>2, <2>3 DEF Suits
  <2>5. CASE src = <<>>
    <3>1. L + 1 = 1 /\ lex = "code"
      BY <1>5, <1>6, <2>5 DEF ArgsInv, CallInv
    <3>2. k = "code" /\ next = "code"
      BY <1>2, <1>5, <2>1, <3>1 DEF Suits
    <3>3. m = 1
      BY <2>4, <3>2 DEF Fits
    <3>4. Len(src') = 1
      BY <1>5, <3>1, <3>3
    <3> QED  BY <1>3, <3>2, <3>4, FirstPasses
  <2>6. CASE src # <<>>
    <3>1. 1 \in 1..L
      BY <1>5, <1>6, <2>6
    <3>2. src[1] = "("
      BY <1>5, <2>1, <3>1
    <3>3. CallIn(src, kind)
      BY <2>2, <2>6, <3>2 DEF CallIn, WrittenIn, Written
    <3>4. PassesCode(ch, src, kind, lex)
      BY <3>3 DEF ArgsInv
    <3>5. Len(kind) = Len(src)
      BY <1>5 DEF L
    <3>6. PassesCode(ch, src', kind', next)
      <4>1. src \in Text /\ kind \in Seq(Kinds)
        BY <1>5
      <4>2. /\ src' \in Text /\ kind' \in Seq(Kinds)
            /\ Extends(src, kind, piece, m, k, src', kind')
        BY <1>4
      <4> QED  BY <2>4, <2>6, <3>4, <3>5, <4>1, <4>2, PassesPiece
    <3> QED  BY <1>3, <3>6
  <2> QED  BY <2>5, <2>6
<1> QED  BY <1>9, <1>10 DEF ArgsInv

----------------------------------------------------------------------------
(* What a call's arguments are taken for.                                  *)

(* The scanner finds the first ch between arguments, up to some character  *)
(* of code.                                                                *)
LEMMA FindsFirst ==
  ASSUME WriterInv, NEW ch \in {"comma", "+"}, PassesCode(ch, src, kind, lex),
         NEW e \in 2..Len(src), kind[e] = "code",
         NEW args \in Text, Len(args) = e - 2, \A k \in 1..e - 2 : args[k] = src[k + 1]
  PROVE  TopLevel(args, ch)
           = IF Between(ch, e) = {} THEN 0 ELSE Min(Between(ch, e)) - 1
<1>1. /\ Len(src) \in Nat /\ e \in Nat /\ e - 2 \in Nat
      /\ \A close : Between(ch, close) = BetweenIn(src, kind, ch, close)
  BY LenProperties, DepthsAgree DEF WriterInv, Text
<1>2. CASE Between(ch, e) = {}
  <2>1. Passes(ch, src, e, DepthIn(src, kind, e - 1), Nothing)
    BY <1>1, <1>2 DEF PassesCode
  <2>2. PICK n \in 0..e - 2 :
          Looks(args, ch)[n] = At(e - 1, DepthIn(src, kind, e - 1), Nothing)
    <3>1. Len(args) >= e - 2
      BY <1>1
    <3> QED  BY <2>1, <3>1 DEF Passes
  <2>3. Looks(args, ch)[n].i = e - 1 /\ Looks(args, ch)[n].found = 0
    BY <2>2 DEF At
  <2>4. n \in Nat /\ n <= e - 2 /\ e - 1 > Len(args)
    BY <1>1
  <2>5. Looks(args, ch)[e - 2] = Looks(args, ch)[n]
    BY <1>1, <2>3, <2>4, LooksToTheEnd
  <2> QED  BY <1>2, <2>3, <2>5 DEF TopLevel
<1>3. CASE Between(ch, e) # {}
  <2>1. Between(ch, e) \subseteq Nat
    BY <1>1 DEF Between
  <2>2. PICK j \in Between(ch, e) : \A i \in Between(ch, e) : j <= i
    BY <1>3, <2>1, LeastNumber
  <2>3. Min(Between(ch, e)) = j
    <3>1. \A i \in Between(ch, e) : (\A y \in Between(ch, e) : i <= y) => i = j
      BY <2>1, <2>2
    <3> QED  BY <2>2, <3>1 DEF Min
  <2>4. /\ j \in 2..e - 1 /\ j \in 2..Len(src) /\ kind[j] = "code" /\ src[j] = ch
        /\ DepthIn(src, kind, j) = 0
    BY <1>1, <2>2 DEF BetweenIn
  <2>5. BetweenIn(src, kind, ch, j) = {}
    <3> SUFFICES ASSUME NEW i \in BetweenIn(src, kind, ch, j)  PROVE FALSE
      OBVIOUS
    <3>1. i \in BetweenIn(src, kind, ch, e) /\ i < j /\ i \in Nat
      BY <1>1, <2>4 DEF BetweenIn
    <3> QED  BY <1>1, <2>2, <2>4, <3>1
  <2>6. DepthIn(src, kind, j - 1) = 0
    <3>1. j - 1 \in Nat \ {0} /\ (j - 1) + 1 = j
      BY <2>4
    <3>2. /\ DepthIn(src, kind, j - 1) \in Int
          /\ DepthIn(src, kind, (j - 1) + 1)
               = DepthIn(src, kind, j - 1) + Turn(kind[(j - 1) + 1], src[(j - 1) + 1])
      BY <3>1, DepthStep
    <3>3. Turn(kind[j], src[j]) = 0
      BY <2>4 DEF Turn
    <3> QED  BY <2>4, <3>1, <3>2, <3>3
  <2>7. Passes(ch, src, j, 0, Nothing)
    BY <2>4, <2>5, <2>6 DEF PassesCode
  <2>8. PICK n \in 0..j - 2 : Looks(args, ch)[n] = At(j - 1, 0, Nothing)
    <3>1. Len(args) >= j - 2 /\ \A k \in 1..j - 2 : args[k] = src[k + 1]
      BY <1>1, <2>4
    <3> QED  BY <2>7, <3>1 DEF Passes
  <2>9. args[j - 1] = ch /\ j - 1 <= Len(args)
    <3>1. j - 1 \in 1..e - 2 /\ (j - 1) + 1 = j
      BY <1>1, <2>4
    <3> QED  BY <1>1, <2>4, <3>1
  <2>10. Look(args, ch, At(j - 1, 0, Nothing)).found = j - 1
    <3>1. ch \notin Quotes /\ ch \notin {"(", ")"}
      BY Characters
    <3>2. /\ At(j - 1, 0, Nothing).i = j - 1 /\ At(j - 1, 0, Nothing).depth = 0
          /\ At(j - 1, 0, Nothing).quote = Nothing
      BY DEF At
    <3>3. Look(args, ch, At(j - 1, 0, Nothing)) = [At(j - 1, 0, Nothing) EXCEPT !.found = j - 1]
      BY <2>9, <3>1, <3>2 DEF Look
    <3> QED  BY <3>3 DEF At
  <2>11. Looks(args, ch)[n + 1] = Look(args, ch, At(j - 1, 0, Nothing))
    <3>1. n \in Nat
      BY <2>4
    <3>2. LookOn(args, ch, At(j - 1, 0, Nothing)) = Look(args, ch, At(j - 1, 0, Nothing))
      BY <1>1, <2>4, <2>9 DEF LookOn, At
    <3>3. Looks(args, ch)[n + 1] = LookOn(args, ch, Looks(args, ch)[n])
      BY <3>1, LookByLook
    <3> QED  BY <2>8, <3>2, <3>3
  <2>12. Looks(args, ch)[e - 2] = Looks(args, ch)[n + 1]
    <3>1. n + 1 \in Nat /\ n + 1 <= e - 2 /\ j - 1 # 0
      BY <1>1, <2>4
    <3>2. Looks(args, ch)[n + 1].found # 0
      BY <2>10, <2>11, <3>1
    <3> QED  BY <1>1, <3>1, <3>2, LooksToTheEnd
  <2> QED  BY <1>3, <2>3, <2>10, <2>11, <2>12 DEF TopLevel
<1> QED  BY <1>2, <1>3

LEMMA LeastIsMin ==
  ASSUME NEW S, S \subseteq Nat, NEW j \in S, \A i \in S : j <= i
  PROVE  Min(S) = j
<1>1. \A i \in S : (\A y \in S : i <= y) => i = j
  OBVIOUS
<1> QED  BY <1>1 DEF Min

(* Counting a view's brackets is counting those of the code.               *)
LEMMA BracketsOfCode ==
  ASSUME NEW view, Shows(FALSE, src, kind, view), src \in Text, kind[1] = "code",
         src[1] = "(", NEW i \in 1..Len(src)
  PROVE  /\ view[i] = ")" <=> kind[i] = "code" /\ src[i] = ")"
         /\ Cardinality({k \in 1..i : view[k] = "("}) = Cardinality({k \in 1..i : view[k] = ")"})
              <=> Depth(i) = -1
<1>1. Len(src) \in Nat /\ i \in Nat \ {0}
  BY LenProperties DEF Text
<1>2. ASSUME NEW ch \in {"(", ")"}, NEW k \in 1..Len(src)
      PROVE  view[k] = ch <=> kind[k] = "code" /\ src[k] = ch
  <2>1. ch \notin Blanks
    BY Characters
  <2> QED  BY <2>1 DEF Shows, ShownAs, Seen
<1>3. ASSUME NEW ch \in {"(", ")"}
      PROVE  {k \in 1..i : view[k] = ch} = Turns(src, kind, ch, i) \cup (IF ch = "(" THEN {1} ELSE {})
  <2>1. \A k \in 1..i : view[k] = ch <=> kind[k] = "code" /\ src[k] = ch
    BY <1>1, <1>2
  <2> QED  BY <1>1, <2>1 DEF Turns
<1>4. /\ \A ch : IsFiniteSet(Turns(src, kind, ch, i)) /\ Cardinality(Turns(src, kind, ch, i)) \in Nat
      /\ \A ch : 1 \notin Turns(src, kind, ch, i)
  <2>1. \A ch : IsFiniteSet(Turns(src, kind, ch, i)) /\ Cardinality(Turns(src, kind, ch, i)) \in Nat
    BY <1>1, TurnsStep
  <2>2. \A ch : 1 \notin Turns(src, kind, ch, i)
    BY DEF Turns
  <2> QED  BY <2>1, <2>2
<1>5. Cardinality({k \in 1..i : view[k] = "("}) = Cardinality(Turns(src, kind, "(", i)) + 1
  BY <1>3, <1>4, FS_AddElement
<1>6. Cardinality({k \in 1..i : view[k] = ")"}) = Cardinality(Turns(src, kind, ")", i))
  BY <1>3
<1>7. Depth(i) = Cardinality(Turns(src, kind, "(", i)) - Cardinality(Turns(src, kind, ")", i))
  BY DepthsAgree DEF DepthIn
<1>8. Cardinality({k \in 1..i : view[k] = "("}) = Cardinality({k \in 1..i : view[k] = ")"})
        <=> Depth(i) = -1
  BY <1>4, <1>5, <1>6, <1>7
<1> QED  BY <1>2, <1>8

ClosedBy == {i \in 2..Len(src) : kind[i] = "code" /\ src[i] = ")" /\ Depth(i) < 0}

(* A call is closed where its depth falls below zero for the first time.   *)
LEMMA DelimIsMatched ==
  ASSUME NEW view, Shows(FALSE, src, kind, view), src \in Text, kind[1] = "code", src[1] = "("
  PROVE  /\ MatchDelim(view, 1, "(", ")") = IF ClosedBy = {} THEN 0 ELSE Min(ClosedBy)
         /\ ClosedBy # {} => Min(ClosedBy) \in ClosedBy
<1> DEFINE Even(i) == Cardinality({k \in 1..i : view[k] = "("})
                        = Cardinality({k \in 1..i : view[k] = ")"})
           matched == {i \in 1..Len(view) : view[i] = ")" /\ Even(i)}
           Below == {i \in 2..Len(src) : Depth(i) < 0}
<1>1. MatchDelim(view, 1, "(", ")") = IF matched = {} THEN 0 ELSE Min(matched)
  BY DEF MatchDelim
<1>2. Len(src) \in Nat /\ Len(view) = Len(src)
  BY LenProperties DEF Text, Shows
<1>3. \A i \in 1..Len(src) :
        /\ view[i] = ")" <=> kind[i] = "code" /\ src[i] = ")"
        /\ Even(i) <=> Depth(i) = -1
  BY BracketsOfCode
<1> HIDE DEF Even
<1>4. matched = {i \in 2..Len(src) : kind[i] = "code" /\ src[i] = ")" /\ Depth(i) = -1}
  <2>1. 1 \notin matched
    BY <1>2, <1>3
  <2> QED  BY <1>2, <1>3, <2>1
<1>5. matched \subseteq ClosedBy /\ ClosedBy \subseteq Below /\ Below \subseteq Nat
  BY <1>4 DEF ClosedBy
<1>6. CASE ClosedBy = {}
  BY <1>1, <1>5, <1>6
<1>7. CASE ClosedBy # {}
  <2>1. Below # {}
    BY <1>5, <1>7
  <2>2. PICK j \in Below : \A i \in Below : j <= i
    <3> HIDE DEF Below
    <3> QED  BY <1>5, <2>1, LeastNumber
  <2>3. j \in 2..Len(src) /\ Depth(j) < 0 /\ j - 1 \in Nat \ {0} /\ (j - 1) + 1 = j
    BY <1>2, <2>2
  <2>4. /\ Depth(1) = 0 /\ Depth(j - 1) \in Int
        /\ Depth(j) = Depth(j - 1) + Turn(kind[j], src[j])
    BY <2>3, DepthsAgree, DepthStep
  <2>5. Depth(j - 1) >= 0
    <3>1. CASE j = 2
      BY <2>4, <3>1
    <3>2. CASE j # 2
      <4>1. j - 1 \in 2..Len(src) /\ ~(j <= j - 1)
        BY <1>2, <2>3, <3>2
      <4>2. j - 1 \notin Below
        BY <2>2, <4>1
      <4> QED  BY <2>4, <4>1, <4>2
    <3> QED  BY <3>1, <3>2
  <2>6. kind[j] = "code" /\ src[j] = ")" /\ Depth(j) = -1
    <3>1. CASE Turn(kind[j], src[j]) = -1
      <4>1. kind[j] = "code" /\ src[j] = ")"
        BY <3>1 DEF Turn
      <4> QED  BY <2>3, <2>4, <2>5, <3>1, <4>1
    <3>2. CASE Turn(kind[j], src[j]) \in {0, 1}
      BY <2>3, <2>4, <2>5, <3>2
    <3>3. Turn(kind[j], src[j]) \in {-1, 0, 1}
      BY DEF Turn
    <3> QED  BY <3>1, <3>2, <3>3
  <2>7. j \in matched /\ j \in ClosedBy
    BY <1>4, <1>5, <2>3, <2>6
  <2> HIDE DEF matched, Below
  <2>8. Min(matched) = j
    <3>1. matched \subseteq Nat /\ \A i \in matched : j <= i
      BY <1>5, <2>2
    <3> QED  BY <2>7, <3>1, LeastIsMin
  <2>9. Min(ClosedBy) = j
    <3>1. ClosedBy \subseteq Nat /\ \A i \in ClosedBy : j <= i
      BY <1>5, <2>2
    <3> QED  BY <2>7, <3>1, LeastIsMin
  <2> QED  BY <1>1, <1>7, <2>7, <2>8, <2>9
<1> QED  BY <1>6, <1>7

(* A part of a text, and a part of that.                                   *)
LEMMA PartOfText ==
  ASSUME NEW s \in Text, NEW e \in 2..Len(s)
  PROVE  LET args == SubSeq(s, 2, e - 1)
         IN  /\ args \in Text /\ Len(args) = e - 2
             /\ \A k \in 1..e - 2 : args[k] = s[k + 1]
             /\ \A c \in 2..e : SubSeq(args, 1, c - 2) = SubSeq(s, 2, c - 1)
<1>1. Len(s) \in Nat /\ e \in Nat
  BY LenProperties DEF Text
<1>2. ASSUME NEW c \in 2..Len(s)
      PROVE  /\ SubSeq(s, 2, c - 1) \in Text /\ Len(SubSeq(s, 2, c - 1)) = c - 2
             /\ \A k \in 1..c - 2 : SubSeq(s, 2, c - 1)[k] = s[k + 1]
  <2>1. \A k \in 2..c - 1 : k \in 1..Len(s)
    BY <1>1
  <2>2. /\ SubSeq(s, 2, c - 1) \in Seq(Char)
        /\ Len(SubSeq(s, 2, c - 1)) = IF 2 <= c - 1 THEN (c - 1) - 2 + 1 ELSE 0
        /\ \A k \in 1..(c - 1) - 2 + 1 : SubSeq(s, 2, c - 1)[k] = s[2 + k - 1]
    BY <1>1, <2>1, SubSeqProperties DEF Text
  <2>3. ASSUME NEW k \in 1..c - 2  PROVE SubSeq(s, 2, c - 1)[k] = s[k + 1]
    <3>1. k \in 1..(c - 1) - 2 + 1 /\ 2 + k - 1 = k + 1
      BY <1>1
    <3> QED  BY <2>2, <3>1
  <2> QED  BY <1>1, <2>2, <2>3 DEF Text
<1> DEFINE args == SubSeq(s, 2, e - 1)
<1>3. /\ args \in Text /\ Len(args) = e - 2 /\ \A k \in 1..e - 2 : args[k] = s[k + 1]
  BY <1>2
<1> HIDE DEF args
<1>4. ASSUME NEW c \in 2..e  PROVE SubSeq(args, 1, c - 2) = SubSeq(s, 2, c - 1)
  <2>1. \A k \in 1..c - 2 : k \in 1..Len(args)
    BY <1>1, <1>3
  <2>2. /\ SubSeq(args, 1, c - 2) \in Seq(Char)
        /\ Len(SubSeq(args, 1, c - 2)) = IF 1 <= c - 2 THEN (c - 2) - 1 + 1 ELSE 0
        /\ \A k \in 1..(c - 2) - 1 + 1 : SubSeq(args, 1, c - 2)[k] = args[1 + k - 1]
    BY <1>1, <1>3, <2>1, SubSeqProperties DEF Text
  <2>3. Len(SubSeq(args, 1, c - 2)) = c - 2
    BY <1>1, <2>2
  <2>4. c \in 2..Len(s)
    BY <1>1
  <2>5. ASSUME NEW k \in 1..c - 2  PROVE SubSeq(args, 1, c - 2)[k] = SubSeq(s, 2, c - 1)[k]
    <3>1. k \in 1..(c - 2) - 1 + 1 /\ 1 + k - 1 = k /\ k \in 1..e - 2
      BY <1>1
    <3> QED  BY <1>2, <1>3, <2>2, <2>4, <3>1
  <2>6. SubSeq(s, 2, c - 1) \in Seq(Char) /\ Len(SubSeq(s, 2, c - 1)) = c - 2
    BY <1>2, <2>4 DEF Text
  <2> QED  BY <2>2, <2>3, <2>5, <2>6, SeqEqual
<1> QED  BY <1>3, <1>4 DEF args

LEMMA ArgumentsFound ==
  ASSUME ViewsInv, ArgsInv  PROVE ArgumentsAreFound
<1> SUFFICES ASSUME src # <<>>, src[1] = "(", lex = "code"  PROVE ArgumentsAreFound
  BY DEF ArgumentsAreFound
<1> DEFINE close == MatchDelim(StripCommentsAndStrings(src), 1, "(", ")")
           args == SubSeq(src, 2, close - 1)
           firstArg == TopLevelFirstArg(args)
           commas == Between(Comma, close)
           end == Min(commas \union {close})
<1>1. src \in Text /\ WriterInv /\ kind[1] = "code"
  BY DEF ViewsInv, WriterInv, ArgsInv, CallInv
<1>2. Shows(FALSE, src, kind, StripCommentsAndStrings(src))
  BY AtTheEnd DEF ViewsInv, StripCommentsAndStrings
<1>3. /\ close = IF ClosedBy = {} THEN 0 ELSE Min(ClosedBy)
      /\ ClosedBy # {} => Min(ClosedBy) \in ClosedBy
  BY <1>1, <1>2, DelimIsMatched
<1> HIDE DEF close
<1>4. ASSUME close # 0, ~Written("comment"), ~Written("regex")
      PROVE  /\ firstArg = SubSeq(src, 2, end - 1)
             /\ ContainsTopLevelPlus(firstArg) <=> Between("+", end) # {}
  <2>1. Len(src) \in Nat /\ close \in 2..Len(src) /\ kind[close] = "code"
    BY <1>1, <1>3, <1>4, LenProperties DEF ClosedBy, Text
  <2>2. \A ch \in {"comma", "+"} : PassesCode(ch, src, kind, lex)
    BY <1>4 DEF ArgsInv, CallIn, WrittenIn, Written
  <2>3. /\ args \in Text /\ Len(args) = close - 2
        /\ \A k \in 1..close - 2 : args[k] = src[k + 1]
        /\ \A c \in 2..close : SubSeq(args, 1, c - 2) = SubSeq(src, 2, c - 1)
    BY <1>1, <2>1, PartOfText
  <2> HIDE DEF args
  <2>4. Comma = "comma"
    BY DEF Comma
  <2>5. TopLevel(args, Comma) = IF commas = {} THEN 0 ELSE Min(commas) - 1
    <3>1. PassesCode(Comma, src, kind, lex) /\ Comma \in {"comma", "+"}
      BY <2>2, <2>4
    <3> QED  BY <1>1, <2>1, <2>3, <3>1, FindsFirst
  <2>6. commas \subseteq 2..close - 1 /\ \A c \in commas : kind[c] = "code"
    BY DEF Between
  <2> HIDE DEF commas
  <2>7. end \in 2..Len(src) /\ kind[end] = "code" /\ firstArg = SubSeq(src, 2, end - 1)
    <3>1. CASE commas = {}
      <4>1. end = close
        <5>1. commas \union {close} = {close} /\ {close} \subseteq Nat
          BY <2>1, <3>1
        <5>2. Min({close}) = close
          BY <2>1, <5>1, LeastIsMin
        <5> QED  BY <5>1, <5>2
      <4>2. firstArg = args
        BY <2>5, <3>1 DEF TopLevelFirstArg
      <4> HIDE DEF firstArg, end
      <4> QED  BY <2>1, <4>1, <4>2 DEF args
    <3>2. CASE commas # {}
      <4>1. commas \subseteq Nat
        BY <2>1, <2>6
      <4>2. PICK c \in commas : \A i \in commas : c <= i
        BY <3>2, <4>1, LeastNumber
      <4>3. Min(commas) = c
        BY <4>1, <4>2, LeastIsMin
      <4>4. end = c
        <5>1. /\ commas \union {close} \subseteq Nat /\ c \in commas \union {close}
              /\ \A i \in commas \union {close} : c <= i
          BY <2>1, <2>6, <4>1, <4>2
        <5> QED  BY <5>1, LeastIsMin
      <4>5. c \in 2..close /\ c \in 2..Len(src) /\ c - 1 # 0 /\ (c - 1) - 1 = c - 2
        BY <2>1, <2>6, <4>2
      <4>6. firstArg = SubSeq(args, 1, (c - 1) - 1)
        BY <2>5, <3>2, <4>3, <4>5 DEF TopLevelFirstArg
      <4> HIDE DEF firstArg, end
      <4> QED  BY <2>3, <2>6, <4>2, <4>4, <4>5, <4>6
    <3> QED  BY <3>1, <3>2
  <2> HIDE DEF firstArg, end
  <2>8. TopLevel(firstArg, "+") = IF Between("+", end) = {} THEN 0 ELSE Min(Between("+", end)) - 1
    <3>1. /\ SubSeq(src, 2, end - 1) \in Text /\ Len(SubSeq(src, 2, end - 1)) = end - 2
          /\ \A k \in 1..end - 2 : SubSeq(src, 2, end - 1)[k] = src[k + 1]
      BY <1>1, <2>7, PartOfText
    <3>2. /\ firstArg \in Text /\ Len(firstArg) = end - 2
          /\ \A k \in 1..end - 2 : firstArg[k] = src[k + 1]
      BY <2>7, <3>1
    <3>3. PassesCode("+", src, kind, lex)
      BY <2>2
    <3> QED  BY <1>1, <2>7, <3>2, <3>3, FindsFirst
  <2>9. Between("+", end) # {} => Min(Between("+", end)) - 1 # 0
    <3> SUFFICES ASSUME Between("+", end) # {}  PROVE Min(Between("+", end)) - 1 # 0
      OBVIOUS
    <3>1. end \in Nat
      BY <2>1, <2>7
    <3>2. Between("+", end) \subseteq Nat /\ \A i \in Between("+", end) : i >= 2
      BY <3>1 DEF Between
    <3>3. PICK i \in Between("+", end) : \A j \in Between("+", end) : i <= j
      BY <3>2, LeastNumber
    <3>4. Min(Between("+", end)) = i
      BY <3>2, <3>3, LeastIsMin
    <3> QED  BY <3>2, <3>3, <3>4
  <2> QED  BY <2>7, <2>8, <2>9 DEF ContainsTopLevelPlus
<1> QED  BY <1>3, <1>4 DEF ArgumentsAreFound, ClosedBy, close

(* However long a text is, the arguments of a call end where its           *)
(* parenthesis closes.  If it has neither comments nor regular expressions *)
(* in it, the first one ends at the first comma between arguments, or      *)
(* there, and is taken for a concatenation exactly when there is a plus    *)
(* outside its brackets and strings.                                       *)
THEOREM ArgumentsAlwaysFound == Spec => []ArgumentsAreFound
<1>1. Init => ViewsInv /\ ArgsInv
  BY ViewsInit, ArgsInit
<1>2. ViewsInv /\ ArgsInv /\ [Next]_vars => (ViewsInv /\ ArgsInv)'
  <2> SUFFICES ASSUME ViewsInv, ArgsInv, [Next]_vars  PROVE ViewsInv' /\ ArgsInv'
    OBVIOUS
  <2>1. ViewsInv'
    BY ViewsNext
  <2>2. CASE Next
    BY <2>1, <2>2, ArgsNext DEF ViewsInv
  <2>3. CASE UNCHANGED vars
    <3>1. src' = src /\ kind' = kind /\ lex' = lex
      BY <2>3 DEF vars
    <3>2. CallInv'
      BY <3>1 DEF ArgsInv, CallInv, Written
    <3>3. (CallIn(src, kind) => \A ch \in {"comma", "+"} : PassesCode(ch, src, kind, lex))'
      BY <3>1 DEF ArgsInv
    <3>4. ArgsInv'
      BY <3>2, <3>3 DEF ArgsInv
    <3> QED  BY <2>1, <3>4
  <2> QED  BY <2>1, <2>2, <2>3
<1>3. ViewsInv /\ ArgsInv => ArgumentsAreFound
  BY ArgumentsFound
<1> QED  BY <1>1, <1>2, <1>3, PTL DEF Spec
=============================================================================
