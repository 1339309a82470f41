-------------------------- MODULE DraftContentProofs --------------------------
(***************************************************************************)
(* Proofs of the properties of DraftContent, for all texts, attachments,   *)
(* contents and requests.                                                  *)
(*                                                                         *)
(* Texts are sequences and the operators of MessageText are recursive      *)
(* functions of the community modules, so the first half of the module is  *)
(* about them.  The induction it needs is one over sets of numbers         *)
(* (Induct), from the well-foundedness of their order; a property of all   *)
(* numbers or texts is the set of those that have it.                      *)
(***************************************************************************)
EXTENDS DraftContent, TLAPS, SequenceTheorems, FiniteSetTheorems, WellFoundedInduction

-----------------------------------------------------------------------------
(* Induction *)

\* The order of the natural numbers is well founded.
LEMMA Less == IsWellFoundedOn({p \in Nat \X Nat : p[1] < p[2]}, Nat)
BY NatLessThanWellFounded DEF OpToRel

\* Induction: a set of natural numbers with 0 in it that is closed under the
\* successor is all of them.
LEMMA Induct ==
    ASSUME NEW S \in SUBSET Nat, 0 \in S, \A n \in S : n + 1 \in S
    PROVE  S = Nat
<1> DEFINE R == {p \in Nat \X Nat : p[1] < p[2]}
<1>1. SUFFICES ASSUME Nat \ S # {} PROVE FALSE
  OBVIOUS
<1>2. PICK x \in Nat \ S : \A y \in Nat \ S : <<y, x>> \notin R
  <2>1. Nat \ S \subseteq Nat OBVIOUS
  <2> HIDE DEF R
  <2>2. IsWellFoundedOn(R, Nat) BY Less DEF R
  <2> QED BY <1>1, <2>1, <2>2, WFMin
<1>3. \A y \in Nat \ S : ~(y < x)
  BY <1>2
<1>4. x # 0 /\ x - 1 \in Nat
  OBVIOUS
<1>5. x - 1 \in S
  BY <1>3, <1>4
<1> QED
  BY <1>4, <1>5

\* The recursive function in FlattenSeq exists, for any sequences.
LEMMA FlattenExists ==
    ASSUME NEW ss, NEW m \in Nat
    PROVE  \E f : f = [i \in 1..m |-> IF i = 1 THEN ss[i] ELSE f[i - 1] \o ss[i]]
<1> DEFINE Def(f, n) == [i \in 1..n |-> IF i = 1 THEN ss[i] ELSE f[i - 1] \o ss[i]]
           S == {n \in Nat : \E f : f = Def(f, n)}
<1>1. 0 \in S
  <2> DEFINE g == [i \in 1..0 |-> 0]
  <2>1. g = Def(g, 0)
    OBVIOUS
  <2> QED BY <2>1
<1>2. ASSUME NEW n \in S PROVE n + 1 \in S
  <2>1. PICK f : f = Def(f, n)
    OBVIOUS
  <2> DEFINE g == [i \in 1..(n+1) |-> IF i <= n THEN f[i] ELSE IF i = 1 THEN ss[i] ELSE f[i-1] \o ss[i]]
  <2>2. ASSUME NEW i \in 1..(n+1) PROVE g[i] = Def(g, n+1)[i]
    <3>1. CASE i = 1
       BY <3>1, <2>1
    <3>2. CASE i # 1
       <4>1. i - 1 \in 1..n /\ g[i-1] = f[i-1]
          BY <3>2
       <4>2. CASE i <= n
         <5>1. i \in 1..n BY <4>2
         <5>2. f[i] = f[i-1] \o ss[i] BY <2>1, <5>1, <3>2
         <5> QED BY <5>1, <5>2, <4>1, <3>2
       <4> QED BY <4>1, <4>2, <3>2
    <3> QED BY <3>1, <3>2
  <2>3. g = Def(g, n+1)
    <3> DEFINE h == Def(g, n + 1)
    <3>1. /\ DOMAIN g = 1..(n+1) /\ DOMAIN h = 1..(n+1)
          /\ g = [i \in DOMAIN g |-> g[i]] /\ h = [i \in DOMAIN h |-> h[i]]
      OBVIOUS
    <3>2. \A i \in 1..(n+1) : g[i] = h[i] BY <2>2
    <3> HIDE DEF g, h
    <3>3. g = h BY <3>1, <3>2
    <3> QED BY <3>3 DEF h
  <2>4. \E ff : ff = Def(ff, n + 1)
    <3> HIDE DEF g
    <3> QED BY <2>3
  <2>5. n + 1 \in Nat
    OBVIOUS
  <2> HIDE DEF g, Def
  <2> QED BY <2>4, <2>5
<1>3. S = Nat
  <2> HIDE DEF S
  <2>1. S \subseteq Nat BY DEF S
  <2> QED BY <1>1, <1>2, <2>1, Induct
<1> QED
  BY <1>3

-----------------------------------------------------------------------------
(* Flattened sequences *)

\* FlattenSeq concatenates one sequence after the other.
LEMMA FlattenUnfolds ==
    ASSUME NEW C, NEW ss \in Seq(Seq(C)), Len(ss) > 0
    PROVE  \E f : /\ \A i \in 1..Len(ss) : f[i] = IF i = 1 THEN ss[i] ELSE f[i - 1] \o ss[i]
                  /\ FlattenSeq(ss) = f[Len(ss)]
<1> DEFINE Unfolds(f) == f = [i \in 1..Len(ss) |-> IF i = 1 THEN ss[i] ELSE f[i - 1] \o ss[i]]
<1>1. \E f : Unfolds(f)
  <2>1. Len(ss) \in Nat
    BY LenProperties
  <2> QED
    BY <2>1, FlattenExists, Zenon
<1>2. Unfolds(CHOOSE f : Unfolds(f))
  <2> HIDE DEF Unfolds
  <2> QED BY <1>1
<1>3. FlattenSeq(ss) = (CHOOSE f : Unfolds(f))[Len(ss)]
  <2>1. Len(ss) # 0
    OBVIOUS
  <2> QED
    BY <2>1, Zenon DEF FlattenSeq
<1> HIDE DEF Unfolds
<1>4. \E f : Unfolds(f) /\ FlattenSeq(ss) = f[Len(ss)]
  BY <1>2, <1>3
<1>5. ASSUME NEW f, Unfolds(f)
      PROVE  \A i \in 1..Len(ss) : f[i] = IF i = 1 THEN ss[i] ELSE f[i - 1] \o ss[i]
  BY <1>5 DEF Unfolds
<1> QED
  BY <1>4, <1>5

\* One more sequence at the end is one more concatenation.
LEMMA FlattenAppend ==
    ASSUME NEW C, NEW ss \in Seq(Seq(C)), NEW x \in Seq(C)
    PROVE  FlattenSeq(Append(ss, x)) = FlattenSeq(ss) \o x
<1> DEFINE tt == Append(ss, x)
           n == Len(ss)
<1>1. /\ tt \in Seq(Seq(C)) /\ Len(tt) = n + 1 /\ n \in Nat
      /\ \A i \in 1..n : tt[i] = ss[i]
      /\ tt[n + 1] = x
  BY AppendProperties, LenProperties
<1> HIDE DEF tt
<1>2. PICK g : /\ \A i \in 1..Len(tt) : g[i] = IF i = 1 THEN tt[i] ELSE g[i - 1] \o tt[i]
               /\ FlattenSeq(tt) = g[Len(tt)]
  <2>1. Len(tt) > 0
    BY <1>1
  <2> QED
    BY <1>1, <2>1, FlattenUnfolds
<1>3. CASE n = 0
  <2>1. FlattenSeq(tt) = x
    BY <1>1, <1>2, <1>3
  <2>2. FlattenSeq(ss) = <<>> 
    BY <1>3, EmptySeq DEF FlattenSeq
  <2>3. <<>> \o x = x
    BY ConcatEmptySeq
  <2> QED
    BY <2>1, <2>2, <2>3 DEF tt
<1>4. CASE n > 0
  <2>1. PICK f : /\ \A i \in 1..n : f[i] = IF i = 1 THEN ss[i] ELSE f[i - 1] \o ss[i]
                 /\ FlattenSeq(ss) = f[n]
    BY <1>4, FlattenUnfolds
  <2> DEFINE S == {k \in Nat : k \in 1..n => g[k] = f[k]}
  <2>2. 0 \in S
    OBVIOUS
  <2>3. ASSUME NEW k \in S PROVE k + 1 \in S
    <3>1. SUFFICES ASSUME k + 1 \in 1..n PROVE g[k + 1] = f[k + 1]
      OBVIOUS
    <3>2. g[k + 1] = IF k = 0 THEN tt[k + 1] ELSE g[k] \o tt[k + 1]
      <4>1. k \in Nat /\ k + 1 \in 1..Len(tt) /\ (k + 1) - 1 = k /\ (k = 0 <=> k + 1 = 1)
        BY <1>1, <3>1
      <4> QED
        BY <1>2, <4>1
    <3>3. f[k + 1] = IF k = 0 THEN ss[k + 1] ELSE f[k] \o ss[k + 1]
      <4>1. k \in Nat /\ (k + 1) - 1 = k /\ (k = 0 <=> k + 1 = 1)
        OBVIOUS
      <4> QED
        BY <2>1, <3>1, <4>1
    <3>4. k # 0 => k \in 1..n
      BY <1>1, <3>1
    <3> QED
      BY <1>1, <3>1, <3>2, <3>3, <3>4
  <2>4. S = Nat
    <3>1. S \subseteq Nat OBVIOUS
    <3> HIDE DEF S
    <3> QED BY <2>2, <2>3, <3>1, Induct
  <2>5. g[n] = f[n]
    <3>1. n \in Nat /\ n \in 1..n
      BY <1>1, <1>4
    <3>2. n \in S
      BY <3>1, <2>4
    <3> QED
      BY <3>1, <3>2
  <2>6. g[n + 1] = g[n] \o x
    <3>1. n + 1 \in 1..Len(tt) /\ n + 1 # 1 /\ (n + 1) - 1 = n
      BY <1>1, <1>4
    <3> QED
      BY <1>1, <1>2, <3>1
  <2> QED
    BY <1>1, <1>2, <2>1, <2>5, <2>6 DEF tt
<1> QED
  BY <1>1, <1>3, <1>4

\* Induction over sequences: a set with the empty one in it that is closed under
\* Append is all of them.
LEMMA SeqInduct ==
    ASSUME NEW C, NEW S \in SUBSET Seq(C), <<>> \in S,
           \A s \in S, c \in C : Append(s, c) \in S
    PROVE  S = Seq(C)
<1> DEFINE N == {n \in Nat : \A s \in Seq(C) : Len(s) = n => s \in S}
<1>1. 0 \in N
  BY EmptySeq
<1>2. ASSUME NEW n \in N PROVE n + 1 \in N
  <2>1. SUFFICES ASSUME NEW s \in Seq(C), Len(s) = n + 1 PROVE s \in S
    OBVIOUS
  <2>2. s # <<>>
    BY <2>1, EmptySeq
  <2>3. PICK t \in Seq(C), c \in C : s = Append(t, c)
    BY <2>2, SequenceEmptyOrAppend
  <2>4. Len(t) = n
    BY <2>1, <2>3, AppendProperties, LenProperties
  <2> QED BY <2>3, <2>4
<1>3. N = Nat
  <2>1. N \subseteq Nat OBVIOUS
  <2> HIDE DEF N
  <2> QED BY <1>1, <1>2, <2>1, Induct
<1> QED
  BY <1>3, LenProperties

\* Flattening sequences over a set is a sequence over it.
LEMMA FlattenType ==
    ASSUME NEW C
    PROVE  \A ss \in Seq(Seq(C)) : FlattenSeq(ss) \in Seq(C)
<1> DEFINE S == {ss \in Seq(Seq(C)) : FlattenSeq(ss) \in Seq(C)}
<1>1. <<>> \in S
  BY EmptySeq DEF FlattenSeq
<1>2. ASSUME NEW ss \in S, NEW x \in Seq(C) PROVE Append(ss, x) \in S
  BY FlattenAppend, ConcatProperties, AppendProperties
<1>3. S = Seq(Seq(C))
  <2>1. S \subseteq Seq(Seq(C)) OBVIOUS
  <2> HIDE DEF S
  <2> QED BY <1>1, <1>2, <2>1, SeqInduct
<1> QED
  BY <1>3

-----------------------------------------------------------------------------
(* Line breaks *)

\* What Lf makes of one more character.
LfPiece(t, c) ==
    CASE c = "cr" -> <<"lf">>
      [] c = "lf" /\ t # <<>> /\ Last(t) = "cr" -> <<>>
      [] OTHER -> <<c>>

\* Lf reads a text from left to right: one more character adds its piece.
LEMMA LfAppend ==
    ASSUME NEW t \in Text, NEW c \in Chars
    PROVE  Lf(Append(t, c)) = Lf(t) \o LfPiece(t, c)
<1> DEFINE Pieces(text) ==
        [i \in DOMAIN text |->
            CASE text[i] = "cr" -> <<"lf">>
              [] text[i] = "lf" /\ i > 1 /\ text[i - 1] = "cr" -> <<>>
              [] OTHER -> <<text[i]>>]
<1>0. \A d \in Chars : <<d>> \in Seq(Chars)
  OBVIOUS
<1>a. <<"lf">> \in Seq(Chars) /\ <<>> \in Seq(Chars)
  BY DEF Chars
<1>1. ASSUME NEW s \in Text PROVE Pieces(s) \in Seq(Seq(Chars)) /\ Len(Pieces(s)) = Len(s)
  <2>1. DOMAIN s = 1..Len(s) /\ Len(s) \in Nat /\ \A i \in 1..Len(s) : s[i] \in Chars
    BY LenProperties, ElementOfSeq DEF Text
  <2>2. \A i \in 1..Len(s) : Pieces(s)[i] \in Seq(Chars)
    <3> TAKE i \in 1..Len(s)
    <3>1. s[i] \in Chars
      BY <2>1
    <3>2. <<s[i]>> \in Seq(Chars)
      BY <1>0, <3>1
    <3> QED
      BY <1>a, <2>1, <3>2
  <2>3. DOMAIN Pieces(s) = 1..Len(s)
    BY <2>1
  <2>4. Pieces(s) = [i \in 1..Len(s) |-> Pieces(s)[i]]
    BY <2>1
  <2> HIDE DEF Pieces
  <2>5. Pieces(s) \in [1..Len(s) -> Seq(Chars)]
    BY <2>2, <2>4
  <2> QED
    BY <2>1, <2>5, SeqDef
<1>2. /\ Append(t, c) \in Text /\ Len(Append(t, c)) = Len(t) + 1
      /\ \A i \in 1..Len(t) : Append(t, c)[i] = t[i]
      /\ Append(t, c)[Len(t) + 1] = c
  BY AppendProperties DEF Text
<1>b. Len(t) \in Nat /\ DOMAIN t = 1..Len(t) /\ DOMAIN Append(t, c) = 1..(Len(t) + 1)
  BY <1>2, LenProperties DEF Text
<1>3. LfPiece(t, c) \in Seq(Chars)
  BY <1>0, <1>a DEF LfPiece
<1>4. Pieces(Append(t, c)) = Append(Pieces(t), LfPiece(t, c))
  <2> DEFINE u == Append(t, c)
             l == Pieces(u)
             r == Append(Pieces(t), LfPiece(t, c))
  <2>1. /\ r \in Seq(Seq(Chars)) /\ Len(r) = Len(t) + 1
        /\ \A i \in 1..Len(t) : r[i] = Pieces(t)[i]
        /\ r[Len(t) + 1] = LfPiece(t, c)
    <3> HIDE DEF Pieces
    <3> QED BY <1>1, <1>3, AppendProperties
  <2>2. l \in Seq(Seq(Chars)) /\ Len(l) = Len(t) + 1
    <3> HIDE DEF Pieces
    <3> QED BY <1>1, <1>2
  <2>3. ASSUME NEW i \in 1..Len(t) PROVE l[i] = r[i]
    <3>1. u[i] = t[i] /\ (i > 1 => u[i - 1] = t[i - 1])
      BY <1>2, <1>b
    <3>2. i \in DOMAIN u /\ i \in DOMAIN t
      BY <1>b
    <3> HIDE DEF u, r
    <3>3. l[i] = Pieces(t)[i]
      BY <3>1, <3>2
    <3> QED
      BY <3>3, <2>1
  <2>4. l[Len(t) + 1] = LfPiece(t, c)
    <3>1. Len(t) + 1 \in DOMAIN u /\ u[Len(t) + 1] = c
      BY <1>2, <1>b
    <3>2. Len(t) + 1 > 1 <=> t # <<>>
      BY <1>b, EmptySeq DEF Text
    <3>3. t # <<>> => u[(Len(t) + 1) - 1] = Last(t)
      <4>1. (Len(t) + 1) - 1 = Len(t) /\ (t # <<>> => Len(t) \in 1..Len(t))
        BY <1>b, <3>2
      <4> QED
        BY <1>2, <4>1 DEF Last
    <3> HIDE DEF u
    <3> QED
      BY <3>1, <3>2, <3>3 DEF LfPiece
  <2> HIDE DEF l, r
  <2>5. l = r
    <3>1. \A i \in 1..Len(l) : l[i] = r[i]
      BY <2>2, <2>3, <2>4, <2>1, <1>b
    <3> QED
      BY <2>1, <2>2, <3>1, SeqEqual
  <2> QED
    BY <2>5 DEF l, r, u
<1>5. Lf(t) = FlattenSeq(Pieces(t)) /\ Lf(Append(t, c)) = FlattenSeq(Pieces(Append(t, c)))
  BY DEF Lf
<1>6. Pieces(t) \in Seq(Seq(Chars))
  BY <1>1
<1> HIDE DEF Pieces
<1> QED
  BY <1>3, <1>4, <1>5, <1>6, FlattenAppend

\* The characters of a text in which every line break is a LF.
Clean == Chars \ {"cr"}

\* Such texts are texts.
LEMMA CleanIsText == Seq(Clean) \subseteq Text
<1>1. Clean \subseteq Chars
  BY DEF Clean
<1> QED
  BY <1>1, SeqMonotonic DEF Text

\* No text, no line breaks.
LEMMA LfEmpty == Lf(<<>>) = <<>>
<1> DEFINE p == [i \in DOMAIN <<>> |->
        CASE <<>>[i] = "cr" -> <<"lf">>
          [] <<>>[i] = "lf" /\ i > 1 /\ <<>>[i - 1] = "cr" -> <<>>
          [] OTHER -> <<<<>>[i]>>]
<1>1. p = <<>>
  OBVIOUS
<1>2. FlattenSeq(<<>>) = <<>>
  BY DEF FlattenSeq
<1>3. Lf(<<>>) = FlattenSeq(p)
  BY DEF Lf
<1> QED
  BY <1>1, <1>2, <1>3

\* No CR is left by Lf, by which _text_part_hash compares texts.
LEMMA LfType == \A t \in Text : Lf(t) \in Seq(Clean)
<1> DEFINE S == {t \in Text : Lf(t) \in Seq(Clean)}
<1>1. <<>> \in S
  BY LfEmpty, EmptySeq DEF Text
<1>2. ASSUME NEW t \in S, NEW c \in Chars PROVE Append(t, c) \in S
  <2>0. c # "cr" => <<c>> \in Seq(Clean)
    BY DEF Clean
  <2>a. <<>> \in Seq(Clean) /\ <<"lf">> \in Seq(Clean)
    BY DEF Clean, Chars
  <2>1. LfPiece(t, c) \in Seq(Clean)
    BY <2>0, <2>a DEF LfPiece
  <2>2. Append(t, c) \in Text
    BY AppendProperties DEF Text
  <2> QED
    BY <2>1, <2>2, LfAppend, ConcatProperties
<1>3. S = Text
  <2>1. S \subseteq Seq(Chars) BY DEF Text
  <2> HIDE DEF S
  <2> QED BY <1>1, <1>2, <2>1, SeqInduct DEF Text
<1> QED
  BY <1>3

\* Lf leaves a text alone whose line breaks are LFs.
LEMMA LfOfClean == \A t \in Seq(Clean) : Lf(t) = t
<1> DEFINE S == {t \in Seq(Clean) : Lf(t) = t}
<1>1. <<>> \in S
  BY LfEmpty, EmptySeq
<1>2. ASSUME NEW t \in S, NEW c \in Clean PROVE Append(t, c) \in S
  <2>1. t # <<>> => Last(t) # "cr"
    <3>1. t # <<>> => Len(t) \in 1..Len(t)
      BY EmptySeq
    <3>2. t # <<>> => Last(t) \in Clean
      BY <3>1, ElementOfSeq DEF Last
    <3> QED
      BY <3>2 DEF Clean
  <2>2. c \in Chars /\ c # "cr"
    BY DEF Clean
  <2>3. LfPiece(t, c) = <<c>>
    BY <2>1, <2>2 DEF LfPiece
  <2>4. Lf(Append(t, c)) = t \o <<c>>
    BY <2>2, <2>3, LfAppend, CleanIsText
  <2> QED
    BY <2>4, AppendIsConcat, AppendProperties
<1>3. S = Seq(Clean)
  <2>1. S \subseteq Seq(Clean) OBVIOUS
  <2> HIDE DEF S
  <2> QED BY <1>1, <1>2, <2>1, SeqInduct
<1> QED
  BY <1>3

\* No CR is left in what set_content stores.
LEMMA LinesType == \A t \in Text : Lines(t) \in Seq(Clean)
<1> TAKE t \in Text
<1>1. Lf(t) \in Seq(Clean) /\ "lf" \in Clean
  BY LfType DEF Clean, Chars
<1> QED
  BY <1>1, AppendProperties DEF Lines

\* What Crlf makes of one character.
CrlfPiece(c) == IF c = "lf" THEN <<"cr", "lf">> ELSE <<c>>

\* A line break on the wire is a text.
LEMMA CrlfPieceType == \A c \in Chars : CrlfPiece(c) \in Text
<1> TAKE c \in Chars
<1>1. <<"cr", "lf">> \in Seq(Chars)
  BY DEF Chars
<1>2. <<c>> \in Seq(Chars)
  OBVIOUS
<1> QED
  BY <1>1, <1>2 DEF CrlfPiece, Text

\* Crlf goes character by character.
LEMMA CrlfAppend ==
    ASSUME NEW t \in Text, NEW c \in Chars
    PROVE  Crlf(Append(t, c)) = Crlf(t) \o CrlfPiece(c)
<1> DEFINE Pieces(text) == [i \in DOMAIN text |-> IF text[i] = "lf" THEN <<"cr", "lf">> ELSE <<text[i]>>]
<1>1. ASSUME NEW s \in Text PROVE Pieces(s) \in Seq(Seq(Chars)) /\ Len(Pieces(s)) = Len(s)
  <2>1. DOMAIN s = 1..Len(s) /\ Len(s) \in Nat /\ \A i \in 1..Len(s) : s[i] \in Chars
    BY LenProperties, ElementOfSeq DEF Text
  <2>2. \A i \in 1..Len(s) : Pieces(s)[i] \in Seq(Chars)
    BY <2>1, CrlfPieceType DEF CrlfPiece, Text
  <2>4. Pieces(s) = [i \in 1..Len(s) |-> Pieces(s)[i]]
    BY <2>1
  <2> HIDE DEF Pieces
  <2>5. Pieces(s) \in [1..Len(s) -> Seq(Chars)]
    BY <2>2, <2>4
  <2> QED
    BY <2>1, <2>5, SeqDef
<1>2. /\ Append(t, c) \in Text /\ Len(Append(t, c)) = Len(t) + 1
      /\ \A i \in 1..Len(t) : Append(t, c)[i] = t[i]
      /\ Append(t, c)[Len(t) + 1] = c
  BY AppendProperties DEF Text
<1>b. Len(t) \in Nat /\ DOMAIN t = 1..Len(t) /\ DOMAIN Append(t, c) = 1..(Len(t) + 1)
  BY <1>2, LenProperties DEF Text
<1>3. CrlfPiece(c) \in Seq(Chars)
  BY CrlfPieceType DEF Text
<1>4. Pieces(Append(t, c)) = Append(Pieces(t), CrlfPiece(c))
  <2> DEFINE u == Append(t, c)
             l == Pieces(u)
             r == Append(Pieces(t), CrlfPiece(c))
  <2>1. /\ r \in Seq(Seq(Chars)) /\ Len(r) = Len(t) + 1
        /\ \A i \in 1..Len(t) : r[i] = Pieces(t)[i]
        /\ r[Len(t) + 1] = CrlfPiece(c)
    <3> HIDE DEF Pieces
    <3> QED BY <1>1, <1>3, AppendProperties
  <2>2. l \in Seq(Seq(Chars)) /\ Len(l) = Len(t) + 1
    <3> HIDE DEF Pieces
    <3> QED BY <1>1, <1>2
  <2>3. ASSUME NEW i \in 1..Len(t) PROVE l[i] = r[i]
    <3>1. u[i] = t[i]
      BY <1>2
    <3>2. i \in DOMAIN u /\ i \in DOMAIN t
      BY <1>b
    <3> HIDE DEF u, r
    <3>3. l[i] = Pieces(t)[i]
      BY <3>1, <3>2
    <3> QED
      BY <3>3, <2>1
  <2>4. l[Len(t) + 1] = CrlfPiece(c)
    <3>1. Len(t) + 1 \in DOMAIN u /\ u[Len(t) + 1] = c
      BY <1>2, <1>b
    <3> HIDE DEF u
    <3> QED
      BY <3>1 DEF CrlfPiece
  <2> HIDE DEF l, r
  <2>5. l = r
    <3>1. \A i \in 1..Len(l) : l[i] = r[i]
      BY <2>2, <2>3, <2>4, <2>1, <1>b
    <3> QED
      BY <2>1, <2>2, <3>1, SeqEqual
  <2> QED
    BY <2>5 DEF l, r, u
<1>5. Crlf(t) = FlattenSeq(Pieces(t)) /\ Crlf(Append(t, c)) = FlattenSeq(Pieces(Append(t, c)))
  BY DEF Crlf
<1>6. Pieces(t) \in Seq(Seq(Chars))
  BY <1>1
<1> HIDE DEF Pieces
<1> QED
  BY <1>3, <1>4, <1>5, <1>6, FlattenAppend

\* No text, nothing on the wire.
LEMMA CrlfEmpty == Crlf(<<>>) = <<>>
<1> DEFINE p == [i \in DOMAIN <<>> |-> IF <<>>[i] = "lf" THEN <<"cr", "lf">> ELSE <<<<>>[i]>>]
<1>1. p = <<>>
  OBVIOUS
<1>2. FlattenSeq(<<>>) = <<>>
  BY DEF FlattenSeq
<1>3. Crlf(<<>>) = FlattenSeq(p)
  BY DEF Crlf
<1> QED
  BY <1>1, <1>2, <1>3

\* What is on the wire is a text.
LEMMA CrlfType == \A t \in Text : Crlf(t) \in Text
<1> DEFINE S == {t \in Text : Crlf(t) \in Text}
<1>1. <<>> \in S
  BY CrlfEmpty, EmptySeq DEF Text
<1>2. ASSUME NEW t \in S, NEW c \in Chars PROVE Append(t, c) \in S
  BY CrlfPieceType, CrlfAppend, ConcatProperties, AppendProperties DEF Text
<1>3. S = Text
  <2>1. S \subseteq Seq(Chars) BY DEF Text
  <2> HIDE DEF S
  <2> QED BY <1>1, <1>2, <2>1, SeqInduct DEF Text
<1> QED
  BY <1>3

\* The way over the wire changes nothing but the form of the line breaks, which
\* Lf takes back: the seal of a part survives it.
LEMMA LfOfCrlf == \A t \in Seq(Clean) : Lf(Crlf(t)) = t
<1> DEFINE S == {t \in Seq(Clean) : Lf(Crlf(t)) = t}
<1>1. <<>> \in S
  BY LfEmpty, CrlfEmpty, EmptySeq
<1>2. ASSUME NEW t \in S, NEW c \in Clean PROVE Append(t, c) \in S
  <2>1. /\ t \in Text /\ c \in Chars /\ c # "cr" /\ Crlf(t) \in Text
        /\ Append(t, c) \in Seq(Clean) /\ Append(t, c) = t \o <<c>>
    BY CleanIsText, CrlfType, AppendProperties, AppendIsConcat DEF Clean
  <2>2. CASE c = "lf"
    <3> DEFINE u == Append(Crlf(t), "cr")
    <3>1. "cr" \in Chars /\ "lf" \in Chars
      BY DEF Chars
    <3>2. u \in Text /\ u # <<>> /\ Last(u) = "cr" /\ Crlf(Append(t, c)) = Append(u, "lf")
      <4>1. /\ u \in Text /\ u # <<>> /\ Last(u) = "cr"
            /\ Append(u, "lf") = u \o <<"lf">> /\ u = Crlf(t) \o <<"cr">>
        BY <2>1, <3>1, AppendProperties, AppendIsConcat DEF Text, Last
      <4>2. Crlf(t) \in Seq(Chars) /\ <<"cr">> \in Seq(Chars) /\ <<"lf">> \in Seq(Chars)
        BY <2>1, <3>1 DEF Text
      <4>a. <<"cr">> \o <<"lf">> = <<"cr", "lf">>
        <5>1. Append(<<"cr">>, "lf") = <<"cr">> \o <<"lf">>
          BY <4>2, <3>1, AppendIsConcat
        <5>2. Append(<<"cr">>, "lf") = <<"cr", "lf">>
          <6> DEFINE a == Append(<<"cr">>, "lf")
                     b == <<"cr", "lf">>
          <6>1. a \in Seq(Chars) /\ Len(a) = 2 /\ a[1] = "cr" /\ a[2] = "lf"
            <7>1. /\ a \in Seq(Chars) /\ Len(a) = Len(<<"cr">>) + 1
                  /\ \A i \in 1..Len(<<"cr">>) : a[i] = <<"cr">>[i]
                  /\ a[Len(<<"cr">>) + 1] = "lf"
              BY <4>2, <3>1, AppendProperties
            <7>2. Len(<<"cr">>) = 1 /\ <<"cr">>[1] = "cr"
              OBVIOUS
            <7> HIDE DEF a
            <7> QED BY <7>1, <7>2
          <6>2. b \in Seq(Chars) /\ Len(b) = 2 /\ b[1] = "cr" /\ b[2] = "lf"
            BY <3>1
          <6> HIDE DEF a, b
          <6>3. \A i \in 1..Len(a) : a[i] = b[i]
            BY <6>1, <6>2
          <6>4. a = b
            BY <6>1, <6>2, <6>3, SeqEqual
          <6> QED BY <6>4 DEF a, b
        <5> QED
          BY <5>1, <5>2
      <4>3. (Crlf(t) \o <<"cr">>) \o <<"lf">> = Crlf(t) \o <<"cr", "lf">>
        BY <4>2, <4>a, ConcatAssociative
      <4> QED
        BY <4>1, <4>3, <2>1, <2>2, CrlfAppend DEF CrlfPiece
    <3>3. LfPiece(u, "lf") = <<>> /\ LfPiece(Crlf(t), "cr") = <<"lf">>
      <4> HIDE DEF u
      <4> QED BY <3>2 DEF LfPiece
    <3>4. Lf(u) = t \o <<"lf">>
      BY <2>1, <3>1, <3>3, LfAppend
    <3>5. Lf(Append(u, "lf")) = (t \o <<"lf">>) \o <<>>
      <4> HIDE DEF u
      <4> QED BY <3>1, <3>2, <3>3, <3>4, LfAppend
    <3>6. (t \o <<"lf">>) \o <<>> = t \o <<"lf">>
      BY <2>1, <2>2, ConcatEmptySeq
    <3> QED
      BY <2>1, <2>2, <3>2, <3>5, <3>6
  <2>3. CASE c # "lf"
    <3>1. Crlf(Append(t, c)) = Append(Crlf(t), c)
      BY <2>1, <2>3, CrlfAppend, AppendIsConcat DEF CrlfPiece, Text
    <3>2. LfPiece(Crlf(t), c) = <<c>>
      BY <2>1, <2>3 DEF LfPiece
    <3> QED
      BY <2>1, <3>1, <3>2, LfAppend
  <2> QED BY <2>2, <2>3
<1>3. S = Seq(Clean)
  <2>1. S \subseteq Seq(Clean) OBVIOUS
  <2> HIDE DEF S
  <2> QED BY <1>1, <1>2, <2>1, SeqInduct
<1> QED
  BY <1>3

-----------------------------------------------------------------------------
(* Sizes *)

\* The recursion behind FoldLeft, over the sets of indices.
SumStep(t, f, s) == IF s = {} THEN 0 ELSE f[s \ {Max(s)}] + SizeOf(t[Max(s)])

\* FoldLeft sums over the sets of indices; this is the function it builds.
Sums(t, n, f) == f = [s \in SUBSET (1..n) |-> SumStep(t, f, s)]

\* The largest index of a set up to n + 1 that has n + 1 in it.
LEMMA MaxOfNext ==
    ASSUME NEW n \in Nat, NEW s \in SUBSET (1..(n + 1)), n + 1 \in s
    PROVE  Max(s) = n + 1
<1>1. \A y \in s : n + 1 >= y
  OBVIOUS
<1>2. \A x \in s : (\A y \in s : x >= y) => x = n + 1
  OBVIOUS
<1> QED
  BY <1>1, <1>2 DEF Max

\* The function exists for every number of indices.
LEMMA SumsExist ==
    ASSUME NEW t
    PROVE  \A n \in Nat : \E f : Sums(t, n, f)
<1> DEFINE S == {n \in Nat : \E f : Sums(t, n, f)}
<1>1. 0 \in S
  <2> DEFINE g == [s \in SUBSET (1..0) |-> 0]
  <2>1. \A s \in SUBSET (1..0) : s = {}
    OBVIOUS
  <2>2. Sums(t, 0, g)
    BY <2>1 DEF Sums, SumStep
  <2> QED BY <2>2
<1>2. ASSUME NEW n \in S PROVE n + 1 \in S
  <2>1. PICK f : Sums(t, n, f)
    OBVIOUS
  <2> DEFINE g == [s \in SUBSET (1..(n + 1)) |->
                       IF n + 1 \in s THEN f[s \ {n + 1}] + SizeOf(t[n + 1]) ELSE f[s]]
  <2>2. ASSUME NEW s \in SUBSET (1..(n + 1)) PROVE g[s] = SumStep(t, g, s)
    <3>1. CASE n + 1 \in s
      <4>1. Max(s) = n + 1 /\ s # {}
        BY <3>1, MaxOfNext
      <4>2. s \ {n + 1} \in SUBSET (1..n) /\ s \ {n + 1} \in SUBSET (1..(n + 1)) /\ n + 1 \notin s \ {n + 1}
        OBVIOUS
      <4>3. g[s \ {n + 1}] = f[s \ {n + 1}]
        BY <4>2
      <4>4. g[s] = f[s \ {n + 1}] + SizeOf(t[n + 1])
        BY <3>1
      <4> HIDE DEF g
      <4> QED
        BY <4>1, <4>3, <4>4 DEF SumStep
    <3>2. CASE n + 1 \notin s
      <4>1. s \in SUBSET (1..n)
        BY <3>2
      <4>2. g[s] = f[s]
        BY <3>2
      <4>3. f[s] = SumStep(t, f, s)
        BY <2>1, <4>1 DEF Sums
      <4>4. \A m : s \ {m} \in SUBSET (1..(n + 1)) /\ n + 1 \notin s \ {m}
        BY <3>2
      <4>5. g[s \ {Max(s)}] = f[s \ {Max(s)}]
        BY <4>4
      <4> HIDE DEF g
      <4> QED
        BY <4>2, <4>3, <4>5 DEF SumStep
    <3> QED
      BY <3>1, <3>2
  <2>3. Sums(t, n + 1, g)
    <3>1. g = [s \in SUBSET (1..(n + 1)) |-> g[s]]
      OBVIOUS
    <3> HIDE DEF g
    <3> QED
      BY <2>2, <3>1, Zenon DEF Sums
  <2> QED BY <2>3
<1>3. S = Nat
  <2>1. S \subseteq Nat OBVIOUS
  <2> HIDE DEF S
  <2> QED BY <1>1, <1>2, <2>1, Induct
<1> QED
  BY <1>3

\* Size is the value of that function on all indices of a text.
LEMMA SizeUnfolds ==
    ASSUME NEW t \in Text
    PROVE  \E f : Sums(t, Len(t), f) /\ Size(t) = f[1..Len(t)]
<1>1. Len(t) \in Nat /\ DOMAIN t = 1..Len(t)
  BY LenProperties DEF Text
<1>2. \E f : Sums(t, Len(t), f)
  BY <1>1, SumsExist
<1>3. Sums(t, Len(t), CHOOSE f : Sums(t, Len(t), f))
  BY <1>2, Zenon
<1>4. Size(t) = (CHOOSE f : Sums(t, Len(t), f))[1..Len(t)]
  BY <1>1, Zenon DEF Size, FoldLeft, MapThenFoldSet, Sums, SumStep
<1> QED
  BY <1>3, <1>4

\* No text has no bytes.
LEMMA SizeEmpty == Size(<<>>) = 0
<1>1. <<>> \in Text /\ Len(<<>>) = 0
  BY EmptySeq DEF Text
<1>2. PICK f : Sums(<<>>, 0, f) /\ Size(<<>>) = f[1..0]
  BY <1>1, SizeUnfolds
<1>3. 1..0 = {}
  OBVIOUS
<1> QED
  BY <1>2, <1>3 DEF Sums, SumStep

\* The indices of a text with one more character.
LEMMA NextInterval ==
    ASSUME NEW k \in Nat
    PROVE  Max(1..(k + 1)) = k + 1 /\ (1..(k + 1)) \ {k + 1} = 1..k /\ 1..(k + 1) # {}
<1>1. 1..(k + 1) \in SUBSET (1..(k + 1)) /\ k + 1 \in 1..(k + 1)
  OBVIOUS
<1>2. Max(1..(k + 1)) = k + 1
  BY <1>1, MaxOfNext
<1>3. (1..(k + 1)) \ {k + 1} = 1..k /\ 1..(k + 1) # {}
  OBVIOUS
<1> QED
  BY <1>2, <1>3

\* The sum over one more index.
LEMMA SumNext ==
    ASSUME NEW k \in Nat, NEW t, NEW f
    PROVE  SumStep(t, f, 1..(k + 1)) = f[1..k] + SizeOf(t[k + 1])
BY NextInterval DEF SumStep

\* Sums over the same indices of a longer text are the same.
LEMMA SizeAppend ==
    ASSUME NEW t \in Text, NEW c \in Chars
    PROVE  Size(Append(t, c)) = Size(t) + SizeOf(c)
<1> DEFINE u == Append(t, c)
           n == Len(t)
<1>1. /\ u \in Text /\ Len(u) = n + 1 /\ n \in Nat
      /\ \A i \in 1..n : u[i] = t[i]
      /\ u[n + 1] = c
  BY AppendProperties, LenProperties DEF Text
<1> HIDE DEF u
<1>2. PICK f : Sums(t, n, f) /\ Size(t) = f[1..n]
  BY SizeUnfolds
<1>3. PICK g : Sums(u, n + 1, g) /\ Size(u) = g[1..(n + 1)]
  BY <1>1, SizeUnfolds
<1> DEFINE S == {k \in Nat : k <= n => f[1..k] = g[1..k]}
<1>4. \A k \in 0..n : f[1..k] = SumStep(t, f, 1..k)
  <2>1. \A k \in 0..n : 1..k \in SUBSET (1..n)
    BY <1>1
  <2> QED
    BY <1>2, <2>1 DEF Sums
<1>5. \A k \in 0..(n + 1) : g[1..k] = SumStep(u, g, 1..k)
  <2>1. \A k \in 0..(n + 1) : 1..k \in SUBSET (1..(n + 1))
    BY <1>1
  <2> QED
    BY <1>3, <2>1 DEF Sums
<1>7. 0 \in S
  <2>1. 1..0 = {} /\ 0 \in 0..n /\ 0 \in 0..(n + 1)
    BY <1>1
  <2> QED
    BY <1>4, <1>5, <2>1 DEF SumStep
<1>8. ASSUME NEW k \in S PROVE k + 1 \in S
  <2>1. SUFFICES ASSUME k + 1 <= n PROVE f[1..(k + 1)] = g[1..(k + 1)]
    OBVIOUS
  <2>2. k \in Nat /\ k + 1 \in 0..n /\ k + 1 \in 0..(n + 1) /\ k + 1 \in 1..n /\ f[1..k] = g[1..k]
    BY <1>1, <2>1
  <2>3. f[1..(k + 1)] = f[1..k] + SizeOf(t[k + 1])
    BY <1>4, <2>2, SumNext
  <2>4. g[1..(k + 1)] = g[1..k] + SizeOf(u[k + 1])
    BY <1>5, <2>2, SumNext
  <2> QED
    BY <1>1, <2>2, <2>3, <2>4
<1>9. S = Nat
  <2>1. S \subseteq Nat OBVIOUS
  <2> HIDE DEF S
  <2> QED BY <1>7, <1>8, <2>1, Induct
<1>10. f[1..n] = g[1..n]
  BY <1>1, <1>9
<1>11. g[1..(n + 1)] = g[1..n] + SizeOf(c)
  <2>1. n + 1 \in 0..(n + 1)
    BY <1>1
  <2> QED
    BY <1>1, <1>5, <2>1, SumNext
<1> QED
  BY <1>2, <1>3, <1>10, <1>11 DEF u

\* A character takes one to three bytes.
LEMMA SizeOfType == \A c \in Chars : SizeOf(c) \in 1..3
BY DEF SizeOf, Chars

\* The size of a text is a number.
LEMMA SizeType == \A t \in Text : Size(t) \in Nat
<1> DEFINE S == {t \in Text : Size(t) \in Nat}
<1>1. <<>> \in S
  BY SizeEmpty, EmptySeq DEF Text
<1>2. ASSUME NEW t \in S, NEW c \in Chars PROVE Append(t, c) \in S
  BY SizeAppend, SizeOfType, AppendProperties DEF Text
<1>3. S = Text
  <2>1. S \subseteq Seq(Chars) BY DEF Text
  <2> HIDE DEF S
  <2> QED BY <1>1, <1>2, <2>1, SeqInduct DEF Text
<1> QED
  BY <1>3

-----------------------------------------------------------------------------
(* Cutting *)

\* A set of numbers up to n that is not empty has a largest element, and Max is it.
LEMMA MaxExists ==
    ASSUME NEW n \in Nat, NEW T \in SUBSET (0..n), T # {}
    PROVE  Max(T) \in T /\ \A y \in T : Max(T) >= y
<1> DEFINE S == {k \in Nat : \A U \in SUBSET (0..k) : U # {} => \E x \in U : \A y \in U : x >= y}
<1>1. 0 \in S
  <2>1. 0 \in 0..0 /\ \A y \in 0..0 : y = 0
    OBVIOUS
  <2>2. ASSUME NEW U \in SUBSET (0..0), U # {} PROVE \E x \in U : \A y \in U : x >= y
    <3>1. PICK x \in U : TRUE
      BY <2>2
    <3>2. \A y \in U : x >= y
      BY <2>1
    <3> QED BY <3>2
  <2> QED BY <2>2
<1>2. ASSUME NEW k \in S PROVE k + 1 \in S
  <2>1. SUFFICES ASSUME NEW U \in SUBSET (0..(k + 1)), U # {}
                 PROVE  \E x \in U : \A y \in U : x >= y
    OBVIOUS
  <2>2. CASE k + 1 \in U
    BY <2>2
  <2>3. CASE k + 1 \notin U
    <3>1. U \in SUBSET (0..k)
      BY <2>3
    <3> QED BY <2>1, <3>1
  <2> QED BY <2>2, <2>3
<1>3. S = Nat
  <2>1. S \subseteq Nat OBVIOUS
  <2> HIDE DEF S
  <2> QED BY <1>1, <1>2, <2>1, Induct
<1>4. \E x \in T : \A y \in T : x >= y
  BY <1>3
<1> QED
  BY <1>4 DEF Max

\* The first k characters of a text.
Prefix(t, k) == SubSeq(t, 1, k)

\* They are a text of k characters, and a prefix.
LEMMA PrefixType ==
    ASSUME NEW t \in Text, NEW k \in 0..Len(t)
    PROVE  /\ Prefix(t, k) \in Text /\ Len(Prefix(t, k)) = k
           /\ \A i \in 1..k : Prefix(t, k)[i] = t[i]
           /\ IsPrefix(Prefix(t, k), t)
<1>1. Len(t) \in Nat /\ k \in Int /\ \A i \in 1..k : t[i] \in Chars
  BY LenProperties, ElementOfSeq DEF Text
<1>2. /\ Prefix(t, k) \in Text /\ Len(Prefix(t, k)) = k
      /\ \A i \in 1..k : Prefix(t, k)[i] = t[i]
  <2>1. /\ SubSeq(t, 1, k) \in Seq(Chars)
        /\ Len(SubSeq(t, 1, k)) = IF 1 <= k THEN k - 1 + 1 ELSE 0
        /\ \A i \in 1..(k - 1 + 1) : SubSeq(t, 1, k)[i] = t[1 + i - 1]
    BY <1>1, SubSeqProperties
  <2>2. \A i \in 1..k : i \in 1..(k - 1 + 1) /\ 1 + i - 1 = i
    BY <1>1
  <2> QED
    BY <1>1, <2>1, <2>2 DEF Prefix, Text
<1>3. SubSeq(Prefix(t, k), 1, k) = Prefix(t, k)
  BY <1>2, SubSeqFull DEF Text
<1> QED
  BY <1>1, <1>2, <1>3 DEF IsPrefix, Prefix

\* The prefix of no character.
LEMMA PrefixZero == ASSUME NEW t PROVE Prefix(t, 0) = <<>>
BY SubSeqEmpty DEF Prefix

\* The prefix of all characters.
LEMMA PrefixFull == ASSUME NEW t \in Text PROVE Prefix(t, Len(t)) = t
BY SubSeqFull DEF Prefix, Text

\* The prefix of one more character.
LEMMA PrefixNext ==
    ASSUME NEW t \in Text, NEW k \in Nat, k + 1 <= Len(t)
    PROVE  Prefix(t, k + 1) = Append(Prefix(t, k), t[k + 1]) /\ t[k + 1] \in Chars
<1>1. Len(t) \in Nat /\ 1 \in 1..Len(t) /\ k + 1 \in 1..Len(t) /\ (k + 1) - 1 = k /\ k \in 0..Len(t)
  BY LenProperties DEF Text
<1>2. SubSeq(t, 1, k + 1) = SubSeq(t, 1, (k + 1) - 1) \o <<t[k + 1]>>
  BY <1>1, SubSeqRecursiveSecond DEF Text
<1>3. t[k + 1] \in Chars
  BY <1>1, ElementOfSeq DEF Text
<1>4. Prefix(t, k) \in Text
  BY <1>1, PrefixType
<1> QED
  BY <1>1, <1>2, <1>3, <1>4, AppendIsConcat DEF Prefix, Text

\* A text and a longer prefix of it are at least as large.
LEMMA SizeGrows ==
    ASSUME NEW t \in Text
    PROVE  \A m \in 0..Len(t) : \A k \in 0..m : Size(Prefix(t, k)) + (m - k) <= Size(Prefix(t, m))
<1>0. Len(t) \in Nat
  BY LenProperties DEF Text
<1> DEFINE S == {m \in Nat : m <= Len(t) => \A k \in 0..m : Size(Prefix(t, k)) + (m - k) <= Size(Prefix(t, m))}
<1>1. 0 \in S
  <2>1. \A k \in 0..0 : k = 0
    OBVIOUS
  <2>2. Size(Prefix(t, 0)) = 0
    BY PrefixZero, SizeEmpty
  <2> QED BY <2>1, <2>2
<1>2. ASSUME NEW m \in S PROVE m + 1 \in S
  <2>1. SUFFICES ASSUME m + 1 <= Len(t), NEW k \in 0..(m + 1)
                 PROVE  Size(Prefix(t, k)) + (m + 1 - k) <= Size(Prefix(t, m + 1))
    OBVIOUS
  <2>2. Size(Prefix(t, m + 1)) = Size(Prefix(t, m)) + SizeOf(t[m + 1]) /\ SizeOf(t[m + 1]) \in 1..3
    <3>1. m \in Nat /\ m \in 0..Len(t)
      BY <1>0, <2>1
    <3> QED
      BY <2>1, <3>1, PrefixNext, PrefixType, SizeAppend, SizeOfType
  <2>3. \A j \in 0..(m + 1) : Size(Prefix(t, j)) \in Nat
    <3>1. \A j \in 0..(m + 1) : j \in 0..Len(t)
      BY <1>0, <2>1
    <3> QED BY <3>1, PrefixType, SizeType
  <2>4. CASE k = m + 1
    BY <2>3, <2>4
  <2>5. CASE k \in 0..m
    <3>1. Size(Prefix(t, k)) + (m - k) <= Size(Prefix(t, m))
      BY <1>0, <2>1, <2>5
    <3>2. Size(Prefix(t, k)) \in Nat /\ Size(Prefix(t, m)) \in Nat
      BY <2>3, <2>5
    <3> QED
      BY <2>2, <2>5, <3>1, <3>2
  <2> QED BY <2>4, <2>5
<1>3. S = Nat
  <2>1. S \subseteq Nat OBVIOUS
  <2> HIDE DEF S
  <2> QED BY <1>1, <1>2, <2>1, Induct
<1>4. ASSUME NEW m \in 0..Len(t)
      PROVE  \A k \in 0..m : Size(Prefix(t, k)) + (m - k) <= Size(Prefix(t, m))
  <2>1. m \in Nat /\ m <= Len(t)
    BY <1>0
  <2>2. m \in S
    <3> HIDE DEF S
    <3> QED BY <1>3, <2>1
  <2> QED BY <2>1, <2>2
<1> QED
  BY <1>4

\* The prefix that fits: how long it is.
LEMMA FittingIs ==
    ASSUME NEW t \in Text, NEW n \in Nat
    PROVE  \E k \in 0..Len(t) : /\ Fitting(t, n) = Prefix(t, k)
                                /\ Size(Prefix(t, k)) <= n
                                /\ \A j \in 0..Len(t) : Size(Prefix(t, j)) <= n => j <= k
<1> DEFINE T == {i \in 0..Len(t) : Size(Prefix(t, i)) <= n}
<1>1. Len(t) \in Nat
  BY LenProperties DEF Text
<1>2. 0 \in T
  BY <1>1, PrefixZero, SizeEmpty
<1>3. Fitting(t, n) = Prefix(t, Max(T))
  BY DEF Fitting, Prefix
<1>4. Max(T) \in T /\ \A y \in T : Max(T) >= y
  <2>1. T \in SUBSET (0..Len(t)) /\ T # {}
    BY <1>2
  <2> HIDE DEF T
  <2> QED BY <1>1, <2>1, MaxExists
<1> DEFINE k == Max(T)
<1>5. k \in 0..Len(t) /\ Size(Prefix(t, k)) <= n
  BY <1>4
<1>6. ASSUME NEW j \in 0..Len(t), Size(Prefix(t, j)) <= n PROVE j <= k
  <2>1. j \in T
    BY <1>6
  <2> HIDE DEF T
  <2> QED BY <1>4, <1>5, <2>1
<1> HIDE DEF k
<1> QED
  BY <1>3, <1>5, <1>6 DEF k

\* A text fits just when its size does.
LEMMA FittingAll ==
    ASSUME NEW t \in Text, NEW n \in Nat
    PROVE  Fitting(t, n) = t <=> Size(t) <= n
<1>1. PICK k \in 0..Len(t) : /\ Fitting(t, n) = Prefix(t, k)
                             /\ Size(Prefix(t, k)) <= n
                             /\ \A j \in 0..Len(t) : Size(Prefix(t, j)) <= n => j <= k
  BY FittingIs
<1>2. Len(t) \in Nat /\ Len(t) \in 0..Len(t) /\ Prefix(t, Len(t)) = t
  BY LenProperties, PrefixFull DEF Text
<1> QED
  BY <1>1, <1>2

\* A cut text is a text, and the text itself when that fits: _snapshot returns a
\* text in full whose declared length is not too small.
LEMMA CutType ==
    ASSUME NEW t \in Text, NEW n \in Nat
    PROVE  /\ Cut(t, n) \in Text
           /\ Size(t) <= n => Cut(t, n) = t
<1>1. Fitting(t, n) \in Text
  BY FittingIs, PrefixType
<1>2. "?" \in Chars
  BY DEF Chars
<1> QED
  BY <1>1, <1>2, FittingAll, AppendProperties DEF Cut, Text

-----------------------------------------------------------------------------
(* Prefixes *)

\* Texts one behind the other are a text.
LEMMA TextConcat ==
    ASSUME NEW s \in Text, NEW t \in Text
    PROVE  s \o t \in Text
BY ConcatProperties DEF Text

\* Concatenation of texts is associative.
LEMMA TextAssociative ==
    ASSUME NEW s \in Text, NEW t \in Text, NEW u \in Text
    PROVE  (s \o t) \o u = s \o (t \o u)
BY ConcatAssociative DEF Text

\* One more character is a concatenation.
LEMMA TextAppend ==
    ASSUME NEW t \in Text, NEW c \in Chars
    PROVE  /\ Append(t, c) \in Text /\ <<c>> \in Text
           /\ Append(t, c) = t \o <<c>>
<1>1. <<c>> \in Seq(Chars)
  OBVIOUS
<1> QED
  BY <1>1, AppendProperties, AppendIsConcat DEF Text

\* A prefix is no longer and has the same characters.
LEMMA PrefixMeans ==
    ASSUME NEW s \in Text, NEW t \in Text
    PROVE  IsPrefix(s, t) <=> Len(s) <= Len(t) /\ \A i \in 1..Len(s) : s[i] = t[i]
<1>1. Len(s) \in Nat /\ Len(t) \in Nat
  BY LenProperties DEF Text
<1>2. SubSeq(s, 1, Len(s)) = s
  BY SubSeqFull DEF Text
<1>3. CASE Len(s) <= Len(t)
  <2>1. Len(s) \in 0..Len(t)
    BY <1>1, <1>3
  <2>2. /\ Prefix(t, Len(s)) \in Text /\ Len(Prefix(t, Len(s))) = Len(s)
        /\ \A i \in 1..Len(s) : Prefix(t, Len(s))[i] = t[i]
    BY <2>1, PrefixType
  <2>3. s = Prefix(t, Len(s)) <=> \A i \in 1..Len(s) : s[i] = t[i]
    <3>1. (\A i \in 1..Len(s) : s[i] = t[i]) => s = Prefix(t, Len(s))
      BY <2>2, SeqEqual DEF Text
    <3> QED BY <2>2, <3>1
  <2> QED
    BY <1>2, <1>3, <2>3 DEF IsPrefix, Prefix
<1> QED
  BY <1>3 DEF IsPrefix

\* A prefix of a prefix is a prefix.
LEMMA PrefixOfPrefix ==
    ASSUME NEW s \in Text, NEW t \in Text, NEW u \in Text, IsPrefix(s, t), IsPrefix(t, u)
    PROVE  IsPrefix(s, u)
<1>1. Len(s) \in Nat /\ Len(t) \in Nat /\ Len(u) \in Nat
  BY LenProperties DEF Text
<1>2. Len(s) <= Len(t) /\ \A i \in 1..Len(s) : s[i] = t[i]
  BY PrefixMeans
<1>3. Len(t) <= Len(u) /\ \A i \in 1..Len(t) : t[i] = u[i]
  BY PrefixMeans
<1>4. \A i \in 1..Len(s) : i \in 1..Len(t)
  BY <1>1, <1>2
<1>5. Len(s) <= Len(u) /\ \A i \in 1..Len(s) : s[i] = u[i]
  BY <1>1, <1>2, <1>3, <1>4
<1> QED
  BY <1>5, PrefixMeans

\* A text is a prefix of itself.
LEMMA PrefixSelf == ASSUME NEW t \in Text PROVE IsPrefix(t, t)
<1>1. Len(t) \in Nat
  BY LenProperties DEF Text
<1> QED
  BY <1>1, PrefixMeans

\* A prefix behind the same text.
LEMMA PrefixOfConcat ==
    ASSUME NEW u \in Text, NEW s \in Text, NEW t \in Text, IsPrefix(s, t)
    PROVE  IsPrefix(u \o s, u \o t)
<1>1. Len(s) \in Nat /\ Len(t) \in Nat /\ Len(u) \in Nat
  BY LenProperties DEF Text
<1>2. Len(s) <= Len(t) /\ \A i \in 1..Len(s) : s[i] = t[i]
  BY PrefixMeans
<1>3. /\ u \o s \in Text /\ Len(u \o s) = Len(u) + Len(s)
      /\ \A i \in 1..Len(u) + Len(s) : (u \o s)[i] = IF i <= Len(u) THEN u[i] ELSE s[i - Len(u)]
  BY ConcatProperties DEF Text
<1>4. /\ u \o t \in Text /\ Len(u \o t) = Len(u) + Len(t)
      /\ \A i \in 1..Len(u) + Len(t) : (u \o t)[i] = IF i <= Len(u) THEN u[i] ELSE t[i - Len(u)]
  BY ConcatProperties DEF Text
<1>5. ASSUME NEW i \in 1..Len(u) + Len(s) PROVE (u \o s)[i] = (u \o t)[i]
  <2>1. i \in 1..Len(u) + Len(t)
    BY <1>1, <1>2
  <2>2. CASE i <= Len(u)
    BY <1>3, <1>4, <2>1, <2>2
  <2>3. CASE i > Len(u)
    <3>1. i - Len(u) \in 1..Len(s) /\ ~(i <= Len(u))
      BY <1>1, <2>3
    <3> QED
      BY <1>2, <1>3, <1>4, <2>1, <3>1
  <2>4. i <= Len(u) \/ i > Len(u)
    BY <1>1
  <2> QED
    BY <2>2, <2>3, <2>4
<1>6. Len(u \o s) <= Len(u \o t) /\ \A i \in 1..Len(u \o s) : (u \o s)[i] = (u \o t)[i]
  BY <1>1, <1>2, <1>3, <1>4, <1>5
<1> QED
  BY <1>3, <1>4, <1>6, PrefixMeans

\* A text is a prefix of itself with another behind it.
LEMMA PrefixOfLonger ==
    ASSUME NEW s \in Text, NEW t \in Text
    PROVE  IsPrefix(s, s \o t)
<1>1. <<>> \in Text /\ IsPrefix(<<>>, t)
  <2>1. <<>> \in Text /\ Len(<<>>) = 0 /\ Len(t) \in Nat
    BY EmptySeq, LenProperties DEF Text
  <2> QED
    BY <2>1, PrefixMeans
<1>2. s \o <<>> = s
  BY ConcatEmptySeq DEF Text
<1> QED
  BY <1>1, <1>2, PrefixOfConcat

\* Without the trace of a cut character it is a prefix.
LEMMA WholeIsPrefix ==
    ASSUME NEW t \in Text
    PROVE  Whole(t) \in Text /\ IsPrefix(Whole(t), t)
<1>1. CASE t # <<>> /\ Last(t) = "?"
  <2>1. Len(t) \in Nat /\ Len(t) - 1 \in 0..Len(t)
    BY <1>1, EmptySeq, LenProperties DEF Text
  <2>2. Whole(t) = Prefix(t, Len(t) - 1)
    BY <1>1 DEF Whole, Front, Prefix
  <2> QED
    BY <2>1, <2>2, PrefixType
<1>2. CASE ~(t # <<>> /\ Last(t) = "?")
  BY <1>2, PrefixSelf DEF Whole
<1> QED
  BY <1>1, <1>2

\* Prefixes of a text and one more character.
LEMMA PrefixOfAppend ==
    ASSUME NEW t \in Text, NEW c \in Chars, NEW k \in 0..Len(Append(t, c))
    PROVE  \/ Prefix(Append(t, c), k) = Append(t, c)
           \/ IsPrefix(Prefix(Append(t, c), k), t)
<1> DEFINE u == Append(t, c)
<1>1. u \in Text /\ Len(u) = Len(t) + 1 /\ Len(t) \in Nat /\ \A i \in 1..Len(t) : u[i] = t[i]
  BY AppendProperties, LenProperties DEF Text
<1> HIDE DEF u
<1>2. SUFFICES ASSUME NEW j \in 0..Len(u)
               PROVE  Prefix(u, j) = u \/ IsPrefix(Prefix(u, j), t)
  BY DEF u
<1>3. CASE j = Len(u)
  BY <1>1, <1>3, PrefixFull
<1>4. CASE j <= Len(t)
  <2>1. Prefix(u, j) \in Text /\ Len(Prefix(u, j)) = j /\ \A i \in 1..j : Prefix(u, j)[i] = u[i]
    BY PrefixType, <1>1
  <2>2. \A i \in 1..j : i \in 1..Len(t)
    BY <1>1, <1>4
  <2> QED
    BY <1>1, <1>4, <2>1, <2>2, PrefixMeans
<1> QED
  BY <1>1, <1>3, <1>4

\* Whole takes away what errors="replace" puts in the place of a cut character.
LEMMA WholeOfAppend ==
    ASSUME NEW t \in Text
    PROVE  Whole(Append(t, "?")) = t
<1> DEFINE u == Append(t, "?")
<1>0. "?" \in Chars
  BY DEF Chars
<1>1. /\ u \in Text /\ Len(u) = Len(t) + 1 /\ Len(t) \in Nat /\ \A i \in 1..Len(t) : u[i] = t[i]
      /\ u # <<>> /\ u[Len(t) + 1] = "?"
  BY <1>0, AppendProperties, LenProperties DEF Text
<1> HIDE DEF u
<1>2. Whole(u) = Prefix(u, Len(t))
  BY <1>1 DEF Whole, Front, Last, Prefix
<1>3. /\ Prefix(u, Len(t)) \in Text /\ Len(Prefix(u, Len(t))) = Len(t)
      /\ \A i \in 1..Len(t) : Prefix(u, Len(t))[i] = u[i]
  BY <1>1, PrefixType
<1>4. Prefix(u, Len(t)) = t
  BY <1>1, <1>3, SeqEqual DEF Text
<1> QED
  BY <1>2, <1>4 DEF u

\* Sizes add up.
LEMMA SizeConcat ==
    ASSUME NEW s \in Text
    PROVE  \A t \in Text : Size(s \o t) = Size(s) + Size(t)
<1> DEFINE S == {t \in Text : Size(s \o t) = Size(s) + Size(t)}
<1>1. <<>> \in S
  <2>1. <<>> \in Text /\ s \o <<>> = s
    BY EmptySeq, ConcatEmptySeq DEF Text
  <2> QED
    BY <2>1, SizeEmpty, SizeType
<1>2. ASSUME NEW t \in S, NEW c \in Chars PROVE Append(t, c) \in S
  <2>1. /\ t \in Text /\ Append(t, c) \in Text /\ s \o t \in Text
        /\ Size(s) \in Nat /\ Size(t) \in Nat /\ SizeOf(c) \in Nat
    <3>1. t \in Text
      OBVIOUS
    <3>2. Append(t, c) \in Text /\ s \o t \in Text
      BY <3>1, AppendProperties, ConcatProperties DEF Text
    <3>3. SizeOf(c) \in Nat
      BY SizeOfType
    <3> QED
      BY <3>1, <3>2, <3>3, SizeType
  <2>2. s \o Append(t, c) = Append(s \o t, c)
    <3>1. Append(t, c) = t \o <<c>> /\ Append(s \o t, c) = (s \o t) \o <<c>>
      BY <2>1, AppendIsConcat DEF Text
    <3>2. <<c>> \in Seq(Chars)
      OBVIOUS
    <3> QED
      BY <2>1, <3>1, <3>2, ConcatAssociative DEF Text
  <2>3. Size(Append(s \o t, c)) = Size(s \o t) + SizeOf(c) /\ Size(Append(t, c)) = Size(t) + SizeOf(c)
    BY <2>1, SizeAppend
  <2>4. Size(s \o t) = Size(s) + Size(t)
    OBVIOUS
  <2>5. Size(s \o Append(t, c)) = Size(s) + Size(Append(t, c))
    BY <2>1, <2>2, <2>3, <2>4
  <2> QED
    BY <2>1, <2>5
<1>3. S = Text
  <2>1. S \subseteq Seq(Chars) BY DEF Text
  <2> HIDE DEF S
  <2> QED BY <1>1, <1>2, <2>1, SeqInduct DEF Text
<1> QED
  BY <1>3

\* The line break between two texts is one byte.
LEMMA SizeOfBreak == <<"lf">> \in Text /\ Size(<<"lf">>) = 1
<1>1. "lf" \in Chars /\ <<>> \in Text
  BY EmptySeq DEF Chars, Text
<1>2. Append(<<>>, "lf") = <<"lf">>
  <2>1. Append(<<>>, "lf") = <<>> \o <<"lf">> /\ <<"lf">> \in Seq(Chars)
    BY <1>1, AppendIsConcat DEF Text
  <2> QED
    BY <2>1, ConcatEmptySeq
<1>3. Size(Append(<<>>, "lf")) = Size(<<>>) + SizeOf("lf")
  BY <1>1, SizeAppend
<1> QED
  BY <1>1, <1>2, <1>3, SizeEmpty DEF SizeOf, Text

-----------------------------------------------------------------------------
(* The texts mail_read shows *)

\* What Joined puts before and with the body i.
Piece(bodies, i) == (IF i = 1 THEN <<>> ELSE <<"lf">>) \o bodies[i]

\* All of them, in order.
Pieces(bodies) == [i \in DOMAIN bodies |-> Piece(bodies, i)]

\* The first k bodies, joined.
JoinedTo(bodies, k) == FlattenSeq(SubSeq(Pieces(bodies), 1, k))

\* The pieces are texts, and flattened they are what mail_read shows at most.
LEMMA PiecesType ==
    ASSUME NEW bodies \in Seq(Text)
    PROVE  /\ Pieces(bodies) \in Seq(Text) /\ Len(Pieces(bodies)) = Len(bodies)
           /\ Joined(bodies) = FlattenSeq(Pieces(bodies))
           /\ \A i \in 1..Len(bodies) : Pieces(bodies)[i] = Piece(bodies, i) /\ Piece(bodies, i) \in Text
<1>1. DOMAIN bodies = 1..Len(bodies) /\ Len(bodies) \in Nat /\ \A i \in 1..Len(bodies) : bodies[i] \in Text
  BY LenProperties, ElementOfSeq
<1>2. <<>> \in Text /\ <<"lf">> \in Text
  BY EmptySeq DEF Text, Chars
<1>3. \A i \in 1..Len(bodies) : Piece(bodies, i) \in Text
  <2> TAKE i \in 1..Len(bodies)
  <2>1. CASE i = 1
    BY <1>1, <1>2, <2>1, ConcatProperties DEF Piece, Text
  <2>2. CASE i # 1
    BY <1>1, <1>2, <2>2, ConcatProperties DEF Piece, Text
  <2> QED BY <2>1, <2>2
<1>4. Joined(bodies) = FlattenSeq(Pieces(bodies))
  BY DEF Joined, Pieces, Piece
<1>5. Pieces(bodies) \in [1..Len(bodies) -> Text] /\ \A i \in 1..Len(bodies) : Pieces(bodies)[i] = Piece(bodies, i)
  BY <1>1, <1>3 DEF Pieces
<1>6. Pieces(bodies) \in Seq(Text) /\ Len(Pieces(bodies)) = Len(bodies)
  BY <1>1, <1>5, SeqDef
<1> QED
  BY <1>3, <1>4, <1>5, <1>6

\* JoinedTo goes from nothing to all the texts, piece by piece.
LEMMA JoinedSteps ==
    ASSUME NEW bodies \in Seq(Text)
    PROVE  /\ JoinedTo(bodies, 0) = <<>>
           /\ JoinedTo(bodies, Len(bodies)) = Joined(bodies)
           /\ \A k \in 0..Len(bodies) : JoinedTo(bodies, k) \in Text
           /\ \A k \in 0..Len(bodies) :
                 k < Len(bodies) => JoinedTo(bodies, k + 1) = JoinedTo(bodies, k) \o Piece(bodies, k + 1)
<1> DEFINE ps == Pieces(bodies)
           n == Len(bodies)
<1>1. /\ ps \in Seq(Text) /\ Len(ps) = n /\ n \in Nat /\ Joined(bodies) = FlattenSeq(ps)
      /\ \A i \in 1..n : ps[i] = Piece(bodies, i) /\ Piece(bodies, i) \in Text
  BY PiecesType, LenProperties
<1> HIDE DEF ps
<1>2. \A k \in 0..n : SubSeq(ps, 1, k) \in Seq(Text)
  <2> TAKE k \in 0..n
  <2>1. \A i \in 1..k : ps[i] \in Text
    BY <1>1
  <2> QED
    BY <2>1, SubSeqProperties
<1>3. JoinedTo(bodies, 0) = <<>>
  <2>1. SubSeq(ps, 1, 0) = <<>>
    BY SubSeqEmpty
  <2>2. FlattenSeq(<<>>) = <<>>
    BY DEF FlattenSeq
  <2> QED
    BY <2>1, <2>2 DEF JoinedTo, ps
<1>4. JoinedTo(bodies, n) = Joined(bodies)
  <2>1. SubSeq(ps, 1, n) = ps
    BY <1>1, SubSeqFull
  <2> QED
    BY <1>1, <2>1 DEF JoinedTo, ps
<1>5. \A k \in 0..n : JoinedTo(bodies, k) \in Text
  BY <1>2, FlattenType DEF JoinedTo, ps, Text
<1>6. ASSUME NEW k \in 0..n, k < n
      PROVE  JoinedTo(bodies, k + 1) = JoinedTo(bodies, k) \o Piece(bodies, k + 1)
  <2>1. 1 \in 1..n /\ k + 1 \in 1..n /\ (k + 1) - 1 = k
    BY <1>1, <1>6
  <2>2. SubSeq(ps, 1, k + 1) = SubSeq(ps, 1, (k + 1) - 1) \o <<ps[k + 1]>>
    BY <1>1, <2>1, SubSeqRecursiveSecond
  <2>3. SubSeq(ps, 1, k + 1) = Append(SubSeq(ps, 1, k), ps[k + 1])
    BY <1>1, <1>2, <2>1, <2>2, AppendIsConcat
  <2>4. FlattenSeq(Append(SubSeq(ps, 1, k), ps[k + 1])) = FlattenSeq(SubSeq(ps, 1, k)) \o ps[k + 1]
    <3>1. SubSeq(ps, 1, k) \in Seq(Seq(Chars)) /\ ps[k + 1] \in Seq(Chars)
      BY <1>1, <1>2, <2>1 DEF Text
    <3> QED
      BY <3>1, FlattenAppend
  <2> QED
    BY <1>1, <2>1, <2>3, <2>4 DEF JoinedTo, ps
<1> QED
  BY <1>3, <1>4, <1>5, <1>6

\* From the second body on, each adds at least the line break before it.
LEMMA JoinedGrows ==
    ASSUME NEW bodies \in Seq(Text), NEW k \in 0..Len(bodies)
    PROVE  /\ IsPrefix(JoinedTo(bodies, k), Joined(bodies))
           /\ Size(JoinedTo(bodies, k)) <= Size(Joined(bodies))
           /\ 0 < k /\ k < Len(bodies) => Size(JoinedTo(bodies, k)) < Size(Joined(bodies))
<1> DEFINE n == Len(bodies)
           J(i) == JoinedTo(bodies, i)
           S == {d \in Nat : \A i \in 0..n : i + d = n =>
                     /\ IsPrefix(J(i), J(n)) /\ Size(J(i)) <= Size(J(n))
                     /\ 0 < i /\ i < n => Size(J(i)) < Size(J(n))}
<1>1. n \in Nat /\ \A i \in 0..n : J(i) \in Text /\ Size(J(i)) \in Nat
  BY JoinedSteps, SizeType, LenProperties
<1>2. 0 \in S
  <2>1. \A i \in 0..n : i + 0 = n => i = n
    BY <1>1
  <2>2. n \in 0..n
    BY <1>1
  <2>3. IsPrefix(J(n), J(n)) /\ Size(J(n)) <= Size(J(n))
    BY <1>1, <2>2, PrefixSelf
  <2> HIDE DEF J
  <2> QED
    BY <1>1, <2>1, <2>3
<1>3. ASSUME NEW d \in S PROVE d + 1 \in S
  <2>1. SUFFICES ASSUME NEW i \in 0..n, i + (d + 1) = n
                 PROVE  /\ IsPrefix(J(i), J(n)) /\ Size(J(i)) <= Size(J(n))
                        /\ 0 < i /\ i < n => Size(J(i)) < Size(J(n))
    OBVIOUS
  <2>2. d \in Nat /\ i + 1 \in 0..n /\ i + 1 \in 1..n /\ (i + 1) + d = n /\ i < n
    BY <1>1, <2>1
  <2>3. IsPrefix(J(i + 1), J(n)) /\ Size(J(i + 1)) <= Size(J(n))
    <3> HIDE DEF J
    <3> QED BY <2>2
  <2>4. J(i + 1) = J(i) \o Piece(bodies, i + 1) /\ Piece(bodies, i + 1) \in Text
    BY <2>2, JoinedSteps, PiecesType
  <2>5. J(i) \in Text /\ J(i + 1) \in Text /\ J(n) \in Text /\ Size(J(i)) \in Nat /\ Size(J(n)) \in Nat
    <3>1. n \in 0..n
      BY <1>1
    <3> HIDE DEF J
    <3> QED BY <1>1, <2>2, <3>1
  <2>6. Size(J(i + 1)) = Size(J(i)) + Size(Piece(bodies, i + 1)) /\ Size(Piece(bodies, i + 1)) \in Nat
    BY <2>4, <2>5, SizeConcat, SizeType
  <2>7. 0 < i => Size(Piece(bodies, i + 1)) >= 1
    <3>1. SUFFICES ASSUME 0 < i PROVE Size(Piece(bodies, i + 1)) >= 1
      OBVIOUS
    <3>2. Piece(bodies, i + 1) = <<"lf">> \o bodies[i + 1]
      <4>1. i + 1 # 1
        BY <3>1, <2>2
      <4> QED
        BY <4>1 DEF Piece
    <3>3. <<"lf">> \in Text /\ bodies[i + 1] \in Text
      BY <2>2, ElementOfSeq DEF Text, Chars
    <3>4. Size(<<"lf">>) = 1
      BY SizeOfBreak
    <3>5. Size(<<"lf">> \o bodies[i + 1]) = Size(<<"lf">>) + Size(bodies[i + 1])
      BY <3>3, SizeConcat
    <3>6. Size(bodies[i + 1]) \in Nat
      BY <3>3, SizeType
    <3>7. Size(Piece(bodies, i + 1)) = Size(<<"lf">>) + Size(bodies[i + 1])
      BY <3>2, <3>5, Zenon
    <3> QED
      BY <3>4, <3>6, <3>7
  <2>8. IsPrefix(J(i), J(i + 1))
    BY <2>4, <2>5, PrefixOfLonger
  <2>9. IsPrefix(J(i), J(n))
    <3> HIDE DEF J
    <3> QED BY <2>3, <2>5, <2>8, PrefixOfPrefix
  <2> HIDE DEF J
  <2> QED
    BY <1>1, <2>1, <2>3, <2>5, <2>6, <2>7, <2>9
<1>4. S = Nat
  <2>1. S \subseteq Nat OBVIOUS
  <2> HIDE DEF S
  <2> QED BY <1>2, <1>3, <2>1, Induct
<1>5. n - k \in Nat /\ k + (n - k) = n
  BY <1>1
<1>6. J(n) = Joined(bodies)
  BY JoinedSteps
<1>7. n - k \in S
  <2> HIDE DEF S
  <2> QED BY <1>4, <1>5
<1> HIDE DEF J
<1>8. /\ IsPrefix(J(k), J(n)) /\ Size(J(k)) <= Size(J(n))
      /\ 0 < k /\ k < n => Size(J(k)) < Size(J(n))
  BY <1>5, <1>7
<1> QED
  BY <1>6, <1>8 DEF J

\* The recursion behind ReadBodies, over the sets of indices.
RoundStep(bodies, max, f, s) ==
    IF s = {} THEN NothingRead(max)
    ELSE ReadBody(bodies, f[s \ {Max(s)}], [i \in DOMAIN bodies |-> i][Max(s)])

\* FoldLeft over the texts; this is the function it builds.
Rounds(bodies, max, n, f) == f = [s \in SUBSET (1..n) |-> RoundStep(bodies, max, f, s)]

\* The function exists for every number of texts.
LEMMA RoundsExist ==
    ASSUME NEW bodies, NEW max
    PROVE  \A n \in Nat : \E f : Rounds(bodies, max, n, f)
<1> DEFINE S == {n \in Nat : \E f : Rounds(bodies, max, n, f)}
           idx == [i \in DOMAIN bodies |-> i]
<1>1. 0 \in S
  <2> DEFINE g == [s \in SUBSET (1..0) |-> NothingRead(max)]
  <2>1. \A s \in SUBSET (1..0) : s = {}
    OBVIOUS
  <2>2. Rounds(bodies, max, 0, g)
    BY <2>1 DEF Rounds, RoundStep
  <2> QED BY <2>2
<1>2. ASSUME NEW n \in S PROVE n + 1 \in S
  <2>1. PICK f : Rounds(bodies, max, n, f)
    OBVIOUS
  <2> DEFINE g == [s \in SUBSET (1..(n + 1)) |->
                       IF n + 1 \in s THEN ReadBody(bodies, f[s \ {n + 1}], idx[n + 1]) ELSE f[s]]
  <2>2. ASSUME NEW s \in SUBSET (1..(n + 1)) PROVE g[s] = RoundStep(bodies, max, g, s)
    <3>1. CASE n + 1 \in s
      <4>1. Max(s) = n + 1 /\ s # {}
        BY <3>1, MaxOfNext
      <4>2. s \ {n + 1} \in SUBSET (1..n) /\ s \ {n + 1} \in SUBSET (1..(n + 1)) /\ n + 1 \notin s \ {n + 1}
        OBVIOUS
      <4>3. g[s \ {n + 1}] = f[s \ {n + 1}]
        BY <4>2
      <4>4. g[s] = ReadBody(bodies, f[s \ {n + 1}], idx[n + 1])
        BY <3>1
      <4> HIDE DEF g
      <4>5. RoundStep(bodies, max, g, s) = ReadBody(bodies, g[s \ {Max(s)}], idx[Max(s)])
        BY <4>1 DEF RoundStep
      <4> HIDE DEF idx
      <4> QED
        BY <4>1, <4>3, <4>4, <4>5
    <3>2. CASE n + 1 \notin s
      <4>1. s \in SUBSET (1..n)
        BY <3>2
      <4>2. g[s] = f[s]
        BY <3>2
      <4>3. f[s] = RoundStep(bodies, max, f, s)
        BY <2>1, <4>1 DEF Rounds
      <4>4. \A m : s \ {m} \in SUBSET (1..(n + 1)) /\ n + 1 \notin s \ {m}
        BY <3>2
      <4>5. g[s \ {Max(s)}] = f[s \ {Max(s)}]
        BY <4>4
      <4> HIDE DEF g
      <4> QED
        BY <4>2, <4>3, <4>5 DEF RoundStep
    <3> QED
      BY <3>1, <3>2
  <2>3. Rounds(bodies, max, n + 1, g)
    <3>1. g = [s \in SUBSET (1..(n + 1)) |-> g[s]]
      OBVIOUS
    <3> HIDE DEF g
    <3> QED
      BY <2>2, <3>1, Zenon DEF Rounds
  <2> QED BY <2>3
<1>3. S = Nat
  <2>1. S \subseteq Nat OBVIOUS
  <2> HIDE DEF S
  <2> QED BY <1>1, <1>2, <2>1, Induct
<1> QED
  BY <1>3

\* What has been read after the first k rounds, as a sequence from round 0 on.
LEMMA ReadInRounds ==
    ASSUME NEW bodies \in Seq(Text), NEW max
    PROVE  \E r : /\ r[0] = NothingRead(max)
                  /\ \A k \in 0..(Len(bodies) - 1) : r[k + 1] = ReadBody(bodies, r[k], k + 1)
                  /\ ReadBodies(bodies, max) = r[Len(bodies)]
<1> DEFINE n == Len(bodies)
           idx == [i \in DOMAIN bodies |-> i]
<1>1. n \in Nat /\ DOMAIN bodies = 1..n
  BY LenProperties
<1>2. \E f : Rounds(bodies, max, n, f)
  BY <1>1, RoundsExist
<1> DEFINE f == CHOOSE f : Rounds(bodies, max, n, f)
<1>3. Rounds(bodies, max, n, f)
  BY <1>2, Zenon
<1>4. ReadBodies(bodies, max) = f[1..n]
  <2>1. DOMAIN idx = 1..n
    BY <1>1
  <2> QED
    BY <2>1, Zenon DEF ReadBodies, FoldLeft, MapThenFoldSet, Rounds, RoundStep
<1> HIDE DEF f
<1> DEFINE r == [k \in 0..n |-> f[1..k]]
<1>5. \A k \in 0..n : r[k] = f[1..k] /\ f[1..k] = RoundStep(bodies, max, f, 1..k)
  <2>1. \A k \in 0..n : 1..k \in SUBSET (1..n)
    BY <1>1
  <2> QED
    BY <1>3, <2>1 DEF Rounds
<1> HIDE DEF r
<1>6. r[0] = NothingRead(max)
  <2>1. 0 \in 0..n /\ 1..0 = {}
    BY <1>1
  <2> QED
    BY <1>5, <2>1 DEF RoundStep
<1>7. ASSUME NEW k \in 0..(n - 1) PROVE r[k + 1] = ReadBody(bodies, r[k], k + 1)
  <2>1. k \in Nat /\ k \in 0..n /\ k + 1 \in 0..n /\ k + 1 \in 1..n
    BY <1>1
  <2>3. Max(1..(k + 1)) = k + 1 /\ (1..(k + 1)) \ {k + 1} = 1..k /\ 1..(k + 1) # {}
    BY <2>1, NextInterval
  <2>4. idx[k + 1] = k + 1
    BY <1>1, <2>1
  <2>5. RoundStep(bodies, max, f, 1..(k + 1)) = ReadBody(bodies, f[1..k], k + 1)
    BY <2>3, <2>4 DEF RoundStep
  <2> QED
    BY <1>5, <2>1, <2>5
<1>8. r[n] = f[1..n]
  BY <1>1, <1>5
<1> QED
  BY <1>4, <1>6, <1>7, <1>8

\* What holds of the reading after k rounds: while it is not truncated it is the
\* first k bodies and what is left is known; once it is truncated nothing is left,
\* the bodies are too large, and what was read is a prefix of them with at most
\* the trace of a character behind it.
ReadTo(bodies, max, k, read) ==
    /\ read.left \in Nat /\ read.text \in Text /\ read.truncated \in BOOLEAN
    /\ ~read.truncated =>
          /\ read.text = JoinedTo(bodies, k)
          /\ Size(read.text) + read.left = max
          /\ read.left = 0 => k = Len(bodies)
    /\ read.truncated =>
          /\ read.left = 0
          /\ Size(Joined(bodies)) > max
          /\ \E p \in Text : IsPrefix(p, Joined(bodies)) /\ read.text \in {p, Append(p, "?")}

\* A text and behind it what is cut from another: a prefix of both, with at most
\* the trace of one character behind it.
LEMMA CutBehind ==
    ASSUME NEW u \in Text, NEW body \in Text, NEW room \in Nat
    PROVE  /\ u \o Cut(body, room) \in Text
           /\ \E p \in Text : IsPrefix(p, u \o body) /\ u \o Cut(body, room) \in {p, Append(p, "?")}
<1>1. PICK j \in 0..Len(body) : Fitting(body, room) = Prefix(body, j)
  BY FittingIs
<1> DEFINE whole == Prefix(body, j)
           p == u \o whole
<1>2. whole \in Text /\ IsPrefix(whole, body)
  BY PrefixType
<1>3. Cut(body, room) \in {whole, Append(whole, "?")}
  BY <1>1 DEF Cut
<1> HIDE DEF whole
<1>4. p \in Text /\ IsPrefix(p, u \o body)
  BY <1>2, TextConcat, PrefixOfConcat
<1>5. "?" \in Chars
  BY DEF Chars
<1>6. u \o Append(whole, "?") = Append(p, "?")
  <2>1. Append(whole, "?") = whole \o <<"?">> /\ <<"?">> \in Text
    BY <1>2, <1>5, TextAppend
  <2>2. Append(p, "?") = p \o <<"?">>
    <3> HIDE DEF p
    <3> QED BY <1>4, <1>5, TextAppend
  <2>3. (u \o whole) \o <<"?">> = u \o (whole \o <<"?">>)
    BY <1>2, <2>1, TextAssociative
  <2> QED
    BY <2>1, <2>2, <2>3
<1>7. u \o Cut(body, room) \in {p, Append(p, "?")}
  BY <1>3, <1>6
<1> HIDE DEF p
<1>8. Append(p, "?") \in Text
  BY <1>4, <1>5, TextAppend
<1> QED
  BY <1>4, <1>7, <1>8

\* The size of three texts one behind the other.
OfThree(r, s, t) ==
    /\ r \o (s \o t) = (r \o s) \o t /\ r \o s \in Text
    /\ Size(r \o (s \o t)) = Size(r) + Size(s) + Size(t)

\* Sizes of three texts add up.
LEMMA SizeOfThree ==
    ASSUME NEW r \in Text, NEW s \in Text, NEW t \in Text
    PROVE  OfThree(r, s, t)
<1>1. s \o t \in Text /\ r \o s \in Text /\ r \o (s \o t) = (r \o s) \o t
  BY TextConcat, TextAssociative
<1>2. Size(r \o (s \o t)) = Size(r) + Size(s \o t)
  BY <1>1, SizeConcat
<1>3. Size(s \o t) = Size(s) + Size(t)
  BY SizeConcat
<1>4. Size(r) \in Nat /\ Size(s) \in Nat /\ Size(t) \in Nat
  BY SizeType
<1> QED
  BY <1>1, <1>2, <1>3, <1>4 DEF OfThree

\* What _read_bodies puts in front of the i-th text.
Separator(i) == IF i = 1 THEN <<>> ELSE <<"lf">>

\* One round of the reading: what is left, what was read, and whether it is cut.
LEMMA ReadBodyIs ==
    ASSUME NEW bodies, NEW read, NEW i, read.left # 0, ~read.truncated
    PROVE  LET room == read.left - Size(Separator(i))
               next == ReadBody(bodies, read, i)
           IN  /\ next.left = IF Size(bodies[i]) > room THEN 0 ELSE room - Size(bodies[i])
               /\ next.text = read.text \o Separator(i) \o Cut(bodies[i], room)
               /\ next.truncated \in BOOLEAN
               /\ next.truncated <=> \/ Size(bodies[i]) > room
                                     \/ next.left = 0 /\ i < Len(bodies)
BY DEF ReadBody, Separator

\* A part of what there is to read.
Within(part, all) == IsPrefix(part, all) /\ Size(part) <= Size(all)

\* The room that what was read leaves.
Leaves(before, separator, room, max) == Size(before) + Size(separator) + room = max

\* A text that does not fit.
TooLarge(body, room) == Size(body) > room

\* A prefix, with at most the trace of one character behind it.
CutOf(text, all) == \E p \in Text : IsPrefix(p, all) /\ text \in {p, Append(p, "?")}

\* A round with a text that is too large cuts it, and then all the texts are too
\* large.
LEMMA RoundCuts ==
    ASSUME NEW before \in Text, NEW separator \in Text, NEW body \in Text, NEW all \in Text,
           NEW room \in Nat, NEW max \in Nat,
           Within(before \o (separator \o body), all),
           Leaves(before, separator, room, max), TooLarge(body, room)
    PROVE  /\ TooLarge(all, max)
           /\ before \o separator \o Cut(body, room) \in Text
           /\ CutOf(before \o separator \o Cut(body, room), all)
<1>1. PICK u \in Text : /\ u = before \o separator
                        /\ before \o (separator \o body) = u \o body
                        /\ Size(before \o (separator \o body)) = Size(before) + Size(separator) + Size(body)
  <2>1. OfThree(before, separator, body)
    BY SizeOfThree
  <2> QED BY <2>1 DEF OfThree
<1>2. TooLarge(all, max)
  <2>1. Size(before) \in Nat /\ Size(separator) \in Nat /\ Size(body) \in Nat /\ Size(all) \in Nat
    BY SizeType
  <2>2. /\ Size(before) + Size(separator) + Size(body) <= Size(all)
        /\ Size(before) + Size(separator) + room = max /\ Size(body) > room
    BY <1>1 DEF Within, Leaves, TooLarge
  <2>3. Size(all) > max
    BY <2>1, <2>2
  <2> QED BY <2>3 DEF TooLarge
<1>3. u \o body \in Text
  BY <1>1, TextConcat
<1>4. /\ u \o Cut(body, room) \in Text
      /\ \E p \in Text : IsPrefix(p, u \o body) /\ u \o Cut(body, room) \in {p, Append(p, "?")}
  BY <1>1, CutBehind
<1>5. IsPrefix(u \o body, all)
  BY <1>1 DEF Within
<1>6. CutOf(u \o Cut(body, room), all)
  BY <1>3, <1>4, <1>5, PrefixOfPrefix DEF CutOf
<1> QED
  BY <1>1, <1>2, <1>4, <1>6, Zenon

\* A round with a text that fits reads it in full and keeps count of the room.
LEMMA RoundFits ==
    ASSUME NEW before \in Text, NEW separator \in Text, NEW body \in Text,
           NEW room \in Nat, NEW max \in Nat,
           Leaves(before, separator, room, max), ~TooLarge(body, room)
    PROVE  /\ before \o separator \o Cut(body, room) = before \o (separator \o body)
           /\ room - Size(body) \in Nat
           /\ Leaves(before \o (separator \o body), <<>>, room - Size(body), max)
<1>1. /\ before \o (separator \o body) = (before \o separator) \o body
      /\ Size(before \o (separator \o body)) = Size(before) + Size(separator) + Size(body)
  <2>1. OfThree(before, separator, body)
    BY SizeOfThree
  <2> QED BY <2>1 DEF OfThree
<1>2. Size(before) \in Nat /\ Size(separator) \in Nat /\ Size(body) \in Nat
  BY SizeType
<1>3. Size(body) <= room /\ Size(before) + Size(separator) + room = max
  BY <1>2 DEF TooLarge, Leaves
<1>4. Cut(body, room) = body
  BY <1>3, CutType
<1>5. room - Size(body) \in Nat
      /\ Size(before) + Size(separator) + Size(body) + 0 + (room - Size(body)) = max
  BY <1>2, <1>3
<1>6. Leaves(before \o (separator \o body), <<>>, room - Size(body), max)
  BY <1>1, <1>5, SizeEmpty DEF Leaves
<1> QED
  BY <1>1, <1>4, <1>5, <1>6

\* Every round of _read_bodies preserves ReadTo.
LEMMA ReadToNext ==
    ASSUME NEW bodies \in Seq(Text), NEW max \in Nat, NEW k \in 0..(Len(bodies) - 1), NEW read,
           ReadTo(bodies, max, k, read)
    PROVE  ReadTo(bodies, max, k + 1, ReadBody(bodies, read, k + 1))
<1>1. PICK n \in Nat : n = Len(bodies)
  BY LenProperties
<1>2. PICK i \in Nat : i = k + 1
  BY <1>1
<1>3. k \in Nat /\ k < n /\ k \in 0..n /\ i \in 1..n /\ i \in 0..n /\ n \in 0..n /\ 0 < i /\ (i = 1 <=> k = 0)
  BY <1>1, <1>2
<1>4. PICK next : next = ReadBody(bodies, read, i)
  OBVIOUS
<1>5. PICK body \in Text : body = bodies[i]
  BY <1>1, <1>3, ElementOfSeq
<1>6. PICK separator \in Text : separator = Separator(i) /\ Size(separator) \in {0, 1}
                                /\ (Size(separator) = 1 => k # 0)
  <2>1. Separator(i) \in Text /\ Size(Separator(i)) = IF k = 0 THEN 0 ELSE 1
    BY <1>3, EmptySeq, SizeEmpty, SizeOfBreak DEF Text, Separator
  <2> QED
    BY <2>1
<1>7. PICK before \in Text, after \in Text, all \in Text :
          /\ before = JoinedTo(bodies, k) /\ after = JoinedTo(bodies, i) /\ all = Joined(bodies)
          /\ after = before \o (separator \o body)
          /\ IsPrefix(after, all) /\ Size(after) <= Size(all)
          /\ i < n => Size(after) < Size(all)
  <2>1. JoinedTo(bodies, k) \in Text /\ JoinedTo(bodies, i) \in Text /\ Joined(bodies) \in Text
    BY <1>1, <1>3, JoinedSteps
  <2>2. JoinedTo(bodies, i) = JoinedTo(bodies, k) \o Piece(bodies, i)
    BY <1>1, <1>2, <1>3, JoinedSteps
  <2>3. Piece(bodies, i) = separator \o body
    BY <1>5, <1>6 DEF Piece, Separator
  <2>4. /\ IsPrefix(JoinedTo(bodies, i), Joined(bodies)) /\ Size(JoinedTo(bodies, i)) <= Size(Joined(bodies))
        /\ i < n => Size(JoinedTo(bodies, i)) < Size(Joined(bodies))
    BY <1>1, <1>3, JoinedGrows
  <2> QED
    BY <2>1, <2>2, <2>3, <2>4
<1>8. SUFFICES ReadTo(bodies, max, i, next)
  BY <1>2, <1>4
<1>9. CASE read.left = 0
  <2>1. next = read
    BY <1>4, <1>9 DEF ReadBody
  <2>2. read.truncated
    BY <1>1, <1>3, <1>9 DEF ReadTo
  <2> QED
    BY <2>1, <2>2 DEF ReadTo
<1>10. CASE read.left # 0
  <2>0. ~read.truncated
    BY <1>10 DEF ReadTo
  <2>1. /\ read.left \in Nat /\ Size(before) + read.left = max
        /\ read.text = before
    BY <1>7, <2>0 DEF ReadTo
  <2>2. PICK room \in Nat : /\ room = read.left - Size(separator)
                            /\ Size(before) + Size(separator) + room = max
    <3>1. PICK l \in Nat : l = read.left /\ l # 0 /\ Size(before) + l = max
      BY <1>10, <2>1
    <3>2. l - Size(separator) \in Nat /\ Size(before) + Size(separator) + (l - Size(separator)) = max
      <4>1. Size(separator) \in {0, 1}
        BY <1>6
      <4>2. Size(before) \in Nat
        BY SizeType
      <4> QED
        BY <3>1, <4>1, <4>2
    <3> QED
      BY <3>1, <3>2
  <2>3. /\ next.left = IF Size(body) > room THEN 0 ELSE room - Size(body)
        /\ next.text = before \o separator \o Cut(body, room)
    <3>1. /\ next.left = IF Size(bodies[i]) > read.left - Size(Separator(i)) THEN 0
                         ELSE read.left - Size(Separator(i)) - Size(bodies[i])
          /\ next.text = read.text \o Separator(i) \o Cut(bodies[i], read.left - Size(Separator(i)))
      BY <1>4, <1>10, <2>0, ReadBodyIs, Zenon
    <3>2. read.left - Size(Separator(i)) = room /\ bodies[i] = body /\ Separator(i) = separator
      BY <1>5, <1>6, <2>2, Zenon
    <3> QED
      BY <2>1, <3>1, <3>2, Zenon
  <2>4. /\ next.truncated \in BOOLEAN
        /\ next.truncated <=> Size(body) > room \/ (next.left = 0 /\ i < n)
    BY <1>1, <1>4, <1>5, <1>6, <1>10, <2>0, <2>2, ReadBodyIs
  <2>5. CASE Size(body) > room
    <3>1. /\ Size(all) > max /\ next.text \in Text
          /\ \E p \in Text : IsPrefix(p, all) /\ next.text \in {p, Append(p, "?")}
      <4>1. Within(before \o (separator \o body), all)
        BY <1>7, Zenon DEF Within
      <4>2. Leaves(before, separator, room, max) /\ TooLarge(body, room)
        BY <2>2, <2>5 DEF Leaves, TooLarge
      <4>3. /\ TooLarge(all, max) /\ before \o separator \o Cut(body, room) \in Text
            /\ CutOf(before \o separator \o Cut(body, room), all)
        BY <4>1, <4>2, RoundCuts
      <4> QED
        BY <2>3, <4>3, Zenon DEF TooLarge, CutOf
    <3>2. next.left = 0 /\ next.truncated
      BY <2>3, <2>4, <2>5
    <3> QED
      BY <1>7, <2>4, <3>1, <3>2 DEF ReadTo
  <2>6. CASE ~(Size(body) > room)
    <3>1. next.text = after /\ next.left \in Nat /\ Size(after) + next.left = max
      <4>1. /\ before \o separator \o Cut(body, room) = before \o (separator \o body)
            /\ room - Size(body) \in Nat
            /\ Leaves(before \o (separator \o body), <<>>, room - Size(body), max)
        <5>1. Leaves(before, separator, room, max) /\ ~TooLarge(body, room)
          BY <2>2, <2>6 DEF Leaves, TooLarge
        <5> QED
          BY <5>1, RoundFits
      <4>2. next.left = room - Size(body)
        BY <2>3, <2>6, Zenon
      <4>3. Size(after) + 0 + next.left = max
        BY <1>7, <4>1, <4>2, SizeEmpty DEF Leaves
      <4>4. Size(after) \in Nat
        BY SizeType
      <4>5. next.left \in Nat
        BY <4>1, <4>2
      <4>6. next.text = after
        BY <1>7, <2>3, <4>1, Zenon
      <4> QED
        BY <4>3, <4>4, <4>5, <4>6
    <3>2. next.truncated <=> next.left = 0 /\ i < n
      BY <2>4, <2>6
    <3>3. next.truncated => Size(all) > max
      <4>1. i < n /\ next.left = 0 => Size(all) > max
        BY <1>7, <3>1, SizeType
      <4> QED
        BY <3>2, <4>1
    <3>4. ~next.truncated /\ next.left = 0 => i = n
      <4>1. ~(i < n) => i = n
        BY <1>3
      <4> QED
        BY <3>2, <4>1
    <3>5. next.text \in {after, Append(after, "?")}
      BY <3>1
    <3> QED
      BY <1>1, <1>7, <2>4, <3>1, <3>2, <3>3, <3>4, <3>5 DEF ReadTo
  <2> QED
    BY <2>5, <2>6
<1> QED
  BY <1>9, <1>10

\* ReadTo holds of the start.
LEMMA NothingReadYet ==
    ASSUME NEW bodies \in Seq(Text), NEW max \in Nat \ {0}
    PROVE  ReadTo(bodies, max, 0, NothingRead(max))
<1>1. PICK read : read = NothingRead(max)
  OBVIOUS
<1>2. read.left = max /\ read.text = <<>> /\ ~read.truncated /\ read.truncated \in BOOLEAN
  BY <1>1 DEF NothingRead
<1>3. <<>> \in Text /\ Size(<<>>) = 0 /\ JoinedTo(bodies, 0) = <<>>
  BY EmptySeq, SizeEmpty, JoinedSteps DEF Text
<1>4. Size(read.text) + read.left = max /\ read.left # 0 /\ read.left \in Nat
  BY <1>2, <1>3
<1>5. ReadTo(bodies, max, 0, read)
  BY <1>2, <1>3, <1>4 DEF ReadTo
<1> QED
  BY <1>1, <1>5

\* ReadTo holds at the end, by induction over the texts.
LEMMA BodiesRead ==
    ASSUME NEW bodies \in Seq(Text), NEW max \in Nat \ {0}
    PROVE  ReadTo(bodies, max, Len(bodies), ReadBodies(bodies, max))
<1> DEFINE n == Len(bodies)
<1>1. n \in Nat
  BY LenProperties
<1>2. PICK r : /\ r[0] = NothingRead(max)
               /\ \A k \in 0..(n - 1) : r[k + 1] = ReadBody(bodies, r[k], k + 1)
               /\ ReadBodies(bodies, max) = r[n]
  BY ReadInRounds
<1> DEFINE S == {k \in Nat : k <= n => ReadTo(bodies, max, k, r[k])}
<1>3. 0 \in S
  <2>1. ReadTo(bodies, max, 0, NothingRead(max))
    BY NothingReadYet
  <2> QED BY <1>2, <2>1
<1>4. ASSUME NEW k \in S PROVE k + 1 \in S
  <2>1. SUFFICES ASSUME k + 1 <= n PROVE ReadTo(bodies, max, k + 1, r[k + 1])
    OBVIOUS
  <2>2. k \in 0..(n - 1) /\ ReadTo(bodies, max, k, r[k])
    BY <1>1, <2>1
  <2> QED
    BY <1>2, <2>2, ReadToNext
<1>5. S = Nat
  <2>1. S \subseteq Nat OBVIOUS
  <2> HIDE DEF S
  <2> QED BY <1>3, <1>4, <2>1, Induct
<1>6. n \in S
  <2> HIDE DEF S
  <2> QED BY <1>1, <1>5
<1> QED
  BY <1>1, <1>2, <1>6

\* Whatever the texts and the bound, what is shown is within the bound, a prefix
\* of the texts, and called truncated just when something is missing.
LEMMA BoundedTextIsHonest ==
    ASSUME NEW bodies \in Seq(Text), NEW max \in Nat \ {0}
    PROVE  LET shown == BoundedText(bodies, max)
           IN  /\ Size(shown.text) <= max
               /\ IsPrefix(Whole(shown.text), Joined(bodies))
               /\ shown.truncated <=> shown.text # Joined(bodies)
<1> DEFINE read == ReadBodies(bodies, max)
           shown == BoundedText(bodies, max)
           all == Joined(bodies)
<1>1. ReadTo(bodies, max, Len(bodies), read)
  BY BodiesRead
<1>2. /\ shown.text = Fitting(read.text, max)
      /\ shown.truncated <=> read.truncated \/ Size(read.text) > max
  BY DEF BoundedText
<1>3. all \in Text /\ all = JoinedTo(bodies, Len(bodies)) /\ Size(all) \in Nat
  <2>1. Len(bodies) \in 0..Len(bodies)
    BY LenProperties
  <2> QED
    BY <2>1, JoinedSteps, SizeType
<1> HIDE DEF read, shown, all
<1>4. read.text \in Text
  BY <1>1 DEF ReadTo
<1>5. PICK k \in 0..Len(read.text) : /\ shown.text = Prefix(read.text, k)
                                     /\ Size(shown.text) <= max
  BY <1>2, <1>4, FittingIs
<1>6. shown.text \in Text /\ IsPrefix(shown.text, read.text)
  BY <1>4, <1>5, PrefixType
<1>7. Whole(shown.text) \in Text /\ IsPrefix(Whole(shown.text), shown.text)
  BY <1>6, WholeIsPrefix
<1>8. CASE ~read.truncated
  <2>1. read.text = all /\ Size(all) + read.left = max /\ read.left \in Nat
    BY <1>1, <1>3, <1>8 DEF ReadTo
  <2>2. shown.text = all /\ ~shown.truncated
    <3>1. ~(Size(read.text) > max) /\ Size(read.text) <= max
      BY <1>3, <2>1
    <3> QED
      BY <1>2, <1>4, <1>8, <2>1, <3>1, FittingAll
  <2> QED
    BY <1>5, <1>7, <2>2 DEF shown, all
<1>9. CASE read.truncated
  <2>1. PICK p \in Text : IsPrefix(p, all) /\ read.text \in {p, Append(p, "?")}
    BY <1>1, <1>9 DEF ReadTo, all
  <2>2. Size(all) > max /\ shown.truncated
    BY <1>1, <1>2, <1>9 DEF ReadTo, all
  <2>3. shown.text # all
    BY <1>3, <1>5, <2>2
  <2>4. IsPrefix(Whole(shown.text), p)
    <3>1. CASE read.text = p
      BY <1>6, <1>7, <3>1, PrefixOfPrefix
    <3>2. CASE read.text = Append(p, "?")
      <4>1. "?" \in Chars
        BY DEF Chars
      <4>2. shown.text = Append(p, "?") \/ IsPrefix(shown.text, p)
        BY <1>5, <3>2, <4>1, PrefixOfAppend
      <4>3. CASE shown.text = Append(p, "?")
        BY <4>3, WholeOfAppend, PrefixSelf
      <4>4. CASE IsPrefix(shown.text, p)
        BY <1>6, <1>7, <4>4, PrefixOfPrefix
      <4> QED
        BY <4>2, <4>3, <4>4
    <3> QED
      BY <2>1, <3>1, <3>2
  <2>5. IsPrefix(Whole(shown.text), all)
    BY <1>3, <1>7, <2>1, <2>4, PrefixOfPrefix
  <2> QED
    BY <1>5, <2>2, <2>3, <2>5 DEF shown, all
<1> QED
  BY <1>8, <1>9

-----------------------------------------------------------------------------
(* The parts of a message and their seals *)

\* Text parts, the gateway's and those of the other client.
TextParts ==
    [kind : {"plain", "html"}, data : Text, length : Nat \cup {None},
     seal : [length : Nat, text : Text] \cup {None}, id : {None}]

\* Attachments, whole and damaged, with and without the headers of the gateway.
FileParts ==
    [kind : {"file"}, data : Files \cup {Damaged}, length : {None},
     seal : Files \cup {None}, id : Files \cup {None}]

\* All parts a message may have.
Part == TextParts \cup FileParts \cup {InlinePart}

\* A seal is the gateway's, whatever became of the part that carries it.
SealOf(content, part) ==
    /\ part.kind = "plain" /\ part.seal # None => part.seal.text = Lines(content.body)
    /\ part.kind = "html" /\ part.seal # None =>
          content.html # None /\ part.seal.text = Lines(content.html)
    /\ part.kind = "file" => part.seal \in content.files \cup {None}

\* Parts a message that declares the content may have.
PartsFor(content) == {part \in Part : SealOf(content, part)}

\* What Trusted asks of one part.
Intact(part) ==
    /\ part.kind = "file" => part.seal = part.data
    /\ IsText(part) => part.seal = TextSeal(part.data, part.length)

\* The messages.
Messages == [declared : Content, seal : Envelope, head : Envelope, parts : Seq(Part)]

\* Whatever the other client did, the seals in a message are those of the content
\* it declares.
MessageOK(m) ==
    /\ m \in Messages
    /\ m.seal = m.declared.head
    /\ m.parts \in Seq(PartsFor(m.declared))

\* The rows of the store.
Records == [content : Content, status : {"synced_to_gmx", "modified", "failed", "invalidated"}]

\* The inductive invariant: the message carries no forged seal, an update works on
\* the content it read, and a message nobody touched is the gateway's own.
ContentInv ==
    /\ MessageOK(message)
    /\ record \in Records /\ edits \in Nat
    /\ job # NoJob =>
          /\ job.next \in Content
          /\ ~touched => job.next = Merge(Snapshot(message), job.request) /\ job.request \in Request
    /\ ~touched => \E encoding \in Encodings : message = Compose(record.content, encoding)

\* Line breaks are the same after a second normalisation, and after the wire.
LEMMA LinesOfLines ==
    ASSUME NEW text \in Text
    PROVE  /\ Lines(text) \in Text /\ Lf(Lines(text)) = Lines(text)
           /\ Crlf(Lines(text)) \in Text /\ Lf(Crlf(Lines(text))) = Lines(text)
BY LinesType, CleanIsText, LfOfClean, LfOfCrlf, CrlfType

\* A text part of the gateway carries an intact seal, in either encoding.
LEMMA WrittenIs ==
    ASSUME NEW kind \in {"plain", "html"}, NEW text \in Text, NEW encoding
    PROVE  LET part == Written(kind, text, encoding)
           IN  /\ part \in TextParts /\ part.kind = kind
               /\ part.seal.text = Lines(text)
               /\ Intact(part)
<1> DEFINE part == Written(kind, text, encoding)
           data == IF encoding = "base64" THEN Lines(text) ELSE Crlf(Lines(text))
<1>1. data \in Text /\ Lf(data) = Lines(text) /\ Lf(Lines(text)) = Lines(text) /\ Lines(text) \in Text
  BY LinesOfLines
<1>2. Size(text) \in Nat
  BY SizeType
<1>3. part = [kind |-> kind, data |-> data, length |-> Size(text),
              seal |-> [length |-> Size(text), text |-> Lines(text)], id |-> None]
  BY <1>1 DEF Written, TextPart, TextSeal
<1> HIDE DEF part, data
<1>4. part \in TextParts
  BY <1>1, <1>2, <1>3 DEF TextParts
<1>5. Intact(part)
  BY <1>1, <1>3 DEF Intact, TextSeal, IsText
<1>6. part.kind = kind /\ part.seal.text = Lines(text)
  BY <1>3
<1> QED
  BY <1>4, <1>5, <1>6 DEF part

\* The attachments of a draft can be listed, each of them.
LEMMA FilesListed ==
    ASSUME NEW files \in SUBSET Files
    PROVE  /\ SetToSeq(files) \in Seq(files)
           /\ \A file \in files : \E i \in DOMAIN SetToSeq(files) : SetToSeq(files)[i] = file
<1>1. IsFiniteSet(files)
  BY ContentAssumption, FS_Subset
<1> DEFINE n == Cardinality(files)
           Lists(f) == f \in [1..n -> files] /\ IsInjective(f)
<1>2. n \in Nat
  BY <1>1, FS_CardinalityType
<1>3. PICK f : f \in Bijection(1..n, files)
  BY <1>1, FS_CardinalityType DEF ExistsBijection
<1>4. Lists(f)
  BY <1>3 DEF Bijection, Injection, IsInjective
<1>5. Lists(SetToSeq(files))
  <2>1. Lists(CHOOSE g : Lists(g))
    <3> HIDE DEF Lists
    <3> QED BY <1>4
  <2>2. SetToSeq(files) = CHOOSE g : Lists(g)
    BY Zenon DEF SetToSeq
  <2> QED
    BY <2>1, <2>2
<1>6. PICK g : g = SetToSeq(files) /\ g \in [1..n -> files] /\ IsInjective(g)
  BY <1>5
<1> HIDE DEF n
<1>7. g \in Injection(1..n, files)
  BY <1>6 DEF Injection, IsInjective
<1>8. g \in Surjection(1..n, files)
  <2>1. Cardinality(1..n) = n
    <3>1. 1 \in Int /\ n \in Int /\ ~(1 > n) => n - 1 + 1 = n
      BY <1>2
    <3> QED
      BY <1>2, <3>1, FS_Interval
  <2> QED
    BY <1>1, <1>7, <2>1, FS_Injection DEF n
<1>9. \A file \in files : \E i \in 1..n : g[i] = file
  BY <1>8 DEF Surjection
<1>10. g \in Seq(files) /\ DOMAIN g = 1..n
  BY <1>2, <1>6
<1> QED
  BY <1>6, <1>9, <1>10

\* An attachment of the gateway carries an intact seal.
LEMMA FilePartIs ==
    ASSUME NEW files \in SUBSET Files, NEW file \in files
    PROVE  LET part == FilePart(file, file, file)
           IN  /\ part \in FileParts /\ part.kind = "file" /\ part.seal \in files
               /\ Intact(part)
BY DEF FilePart, FileParts, Intact, IsText

\* The message of a revision has the seals of its content, and is trusted unless
\* its subject does not come back as it was.
LEMMA ComposeIs ==
    ASSUME NEW content \in Content, NEW encoding
    PROVE  LET m == Compose(content, encoding)
           IN  /\ MessageOK(m)
               /\ m.declared = content
               /\ ~content.head.padded => Trusted(m)
<1> DEFINE m == Compose(content, encoding)
           files == SetToSeq(content.files)
           Whence == {part \in PartsFor(content) : Intact(part)}
           plain == Written("plain", content.body, encoding.plain)
           html == Written("html", content.html, encoding.html)
           alternative == IF content.html = None THEN <<>> ELSE <<html>>
           listed == [i \in DOMAIN files |-> FilePart(files[i], files[i], files[i])]
           parts == <<plain>> \o alternative \o listed
<1>1. /\ content.head \in Envelope /\ content.body \in Text /\ content.html \in Text \cup {None}
      /\ content.files \in SUBSET Files
  BY DEF Content
<1>2. plain \in Whence
  <2>1. plain \in TextParts /\ plain.kind = "plain" /\ plain.seal.text = Lines(content.body) /\ Intact(plain)
    BY <1>1, WrittenIs
  <2> HIDE DEF plain
  <2> QED
    BY <2>1 DEF PartsFor, SealOf, Part
<1>3. alternative \in Seq(Whence)
  <2>1. CASE content.html = None
    BY <2>1, EmptySeq
  <2>2. CASE content.html # None
    <3>1. html \in TextParts /\ html.kind = "html" /\ html.seal.text = Lines(content.html) /\ Intact(html)
      BY <1>1, <2>2, WrittenIs
    <3> HIDE DEF html
    <3>2. html \in Whence
      BY <2>2, <3>1 DEF PartsFor, SealOf, Part
    <3> HIDE DEF Whence
    <3> QED
      BY <2>2, <3>2
  <2> QED
    BY <2>1, <2>2
<1>4. listed \in Seq(Whence)
  <2>1. files \in Seq(content.files)
    BY <1>1, FilesListed
  <2>2. ASSUME NEW file \in content.files PROVE FilePart(file, file, file) \in Whence
    <3>1. PICK part : part = FilePart(file, file, file)
      OBVIOUS
    <3>2. part \in FileParts /\ part.kind = "file" /\ part.seal \in content.files /\ Intact(part)
      BY <1>1, <3>1, FilePartIs
    <3>3. part \in Whence
      BY <3>2 DEF PartsFor, SealOf, Part
    <3> QED
      BY <3>1, <3>3
  <2> HIDE DEF Whence, files
  <2>3. DOMAIN files = 1..Len(files) /\ Len(files) \in Nat /\ \A i \in 1..Len(files) : files[i] \in content.files
    BY <2>1, LenProperties, ElementOfSeq
  <2> QED
    BY <2>2, <2>3
<1>5. parts \in Seq(Whence)
  <2>1. <<plain>> \in Seq(Whence)
    <3> HIDE DEF Whence, plain
    <3> QED BY <1>2
  <2> HIDE DEF Whence, plain, alternative, listed
  <2> QED
    BY <1>3, <1>4, <2>1, ConcatProperties
<1>6. m = [declared |-> content, seal |-> content.head, head |-> AsReceived(content.head), parts |-> parts]
  BY Zenon DEF Compose
<1> HIDE DEF m, parts
<1>7. parts \in Seq(PartsFor(content)) /\ parts \in Seq(Part) /\ \A i \in DOMAIN parts : Intact(parts[i])
  BY <1>5 DEF PartsFor
<1>8. AsReceived(content.head) \in Envelope /\ (~content.head.padded => AsReceived(content.head) = content.head)
  BY <1>1 DEF AsReceived, Envelope
<1>9. MessageOK(m) /\ m.declared = content
  BY <1>1, <1>6, <1>7, <1>8 DEF MessageOK, Messages
<1>10. ASSUME ~content.head.padded PROVE Trusted(m)
  BY <1>6, <1>7, <1>8, <1>10 DEF Trusted, Intact
<1> QED
  BY <1>9, <1>10 DEF m

\* In sync, a message is what the gateway wrote.
LEMMA TrustedIsOurs ==
    ASSUME NEW m, MessageOK(m), NEW content \in Content, ServerHash(m) = content
    PROVE  Ours(m, content) /\ m.declared = content /\ m.head = content.head
<1>1. Trusted(m) /\ m.declared = content
  BY ContentAssumption DEF ServerHash
<1>2. /\ m.seal = m.head /\ m.seal = content.head
      /\ m.parts \in Seq(PartsFor(content))
  BY <1>1 DEF Trusted, MessageOK, Messages
<1>3. ASSUME NEW i \in DOMAIN m.parts
      PROVE  LET part == m.parts[i]
             IN  /\ part.kind = "plain" => Lf(part.data) = Lines(content.body)
                 /\ part.kind = "html"  => content.html # None /\ Lf(part.data) = Lines(content.html)
                 /\ part.kind = "file"  => part.data \in content.files
  <2>1. PICK part : part = m.parts[i]
    OBVIOUS
  <2>2. part \in PartsFor(content)
    BY <1>2, <2>1, ElementOfSeq
  <2>3. Intact(part)
    BY <1>1, <1>3, <2>1 DEF Trusted, Intact
  <2>4. CASE part.kind \in {"plain", "html"}
    <3>1. part \in TextParts
      BY <2>2, <2>4 DEF PartsFor, Part, FileParts, InlinePart
    <3>2. part.seal = [length |-> part.length, text |-> Lf(part.data)]
      BY <2>3, <2>4 DEF Intact, IsText, TextSeal
    <3>3. Lf(part.data) \in Text /\ part.length \in Nat \cup {None}
      BY <3>1, LfType, CleanIsText DEF TextParts
    <3>4. part.seal # None
      BY <3>2, <3>3, ContentAssumption
    <3>5. part.seal.text = Lf(part.data)
      BY <3>2
    <3> QED
      BY <2>1, <2>2, <2>4, <3>4, <3>5 DEF PartsFor, SealOf
  <2>5. CASE part.kind = "file"
    <3>1. part \in FileParts
      BY <2>2, <2>5 DEF PartsFor, Part, TextParts, InlinePart
    <3>2. part.seal = part.data /\ part.data \in Files \cup {Damaged} /\ part.seal \in content.files \cup {None}
      BY <2>2, <2>3, <2>5, <3>1 DEF Intact, FileParts, PartsFor, SealOf
    <3>3. None \notin Files \cup {Damaged}
      BY ContentAssumption
    <3> QED
      BY <2>1, <2>5, <3>2, <3>3
  <2> QED
    BY <2>1, <2>4, <2>5
<1> QED
  BY <1>1, <1>2, <1>3 DEF Ours

-----------------------------------------------------------------------------
(* Reading a message back *)

\* The parts of one kind are parts of that kind.
LEMMA PartsOfType ==
    ASSUME NEW m \in Messages, NEW kind
    PROVE  PartsOf(m, kind) \in Seq({part \in Part : part.kind = kind})
<1> DEFINE Kind == {part \in Part : part.kind = kind}
           pieces == [i \in DOMAIN m.parts |-> IF m.parts[i].kind = kind THEN <<m.parts[i]>> ELSE <<>>]
<1>1. m.parts \in Seq(Part)
  BY DEF Messages
<1>2. /\ DOMAIN m.parts = 1..Len(m.parts) /\ Len(m.parts) \in Nat
      /\ \A i \in 1..Len(m.parts) : m.parts[i] \in Part
  BY <1>1, LenProperties, ElementOfSeq
<1>3. ASSUME NEW i \in DOMAIN m.parts PROVE pieces[i] \in Seq(Kind)
  <2>1. CASE m.parts[i].kind = kind
    <3>1. m.parts[i] \in Kind
      BY <1>2, <2>1
    <3> HIDE DEF Kind
    <3> QED
      BY <2>1, <3>1
  <2>2. CASE m.parts[i].kind # kind
    BY <2>2, EmptySeq
  <2> QED
    BY <2>1, <2>2
<1> HIDE DEF Kind
<1>4. pieces \in Seq(Seq(Kind))
  <2> DEFINE n == Len(m.parts)
  <2>1. n \in Nat /\ pieces \in [1..n -> Seq(Kind)]
    BY <1>2, <1>3
  <2> HIDE DEF n, pieces
  <2> QED
    BY <2>1
<1>5. PartsOf(m, kind) = FlattenSeq(pieces)
  BY Zenon DEF PartsOf
<1> QED
  BY <1>4, <1>5, FlattenType DEF Kind

\* What is read back of a text part is a text.
LEMMA ReadBackType ==
    ASSUME NEW part \in TextParts
    PROVE  ReadBack(part) \in Text
<1>1. part.data \in Text /\ part.length \in Nat \cup {None}
  BY DEF TextParts
<1>2. CASE part.length # None
  <2>1. Cut(part.data, part.length) \in Text
    BY <1>1, <1>2, CutType
  <2> QED
    BY <1>2, <2>1, Zenon DEF ReadBack
<1>3. CASE part.length = None
  <2>1. part.data # <<>> => Front(part.data) \in Text
    <3>1. SUFFICES ASSUME part.data # <<>> PROVE Front(part.data) \in Text
      OBVIOUS
    <3>2. Len(part.data) - 1 \in 0..Len(part.data)
      BY <1>1, <3>1, EmptySeq, LenProperties DEF Text
    <3>3. Front(part.data) = Prefix(part.data, Len(part.data) - 1)
      BY Zenon DEF Front, Prefix
    <3> QED
      BY <1>1, <3>2, <3>3, PrefixType
  <2> QED
    BY <1>1, <1>3, <2>1, Zenon DEF ReadBack
<1> QED
  BY <1>2, <1>3

\* What is read of a message, merged with a request, is the content of a revision.
LEMMA TextsOf ==
    ASSUME NEW m \in Messages, NEW kind \in {"plain", "html"}, PartsOf(m, kind) # <<>>
    PROVE  ReadBack(PartsOf(m, kind)[1]) \in Text
<1>1. PartsOf(m, kind) \in Seq({part \in Part : part.kind = kind})
  BY PartsOfType
<1>2. PartsOf(m, kind)[1] \in {part \in Part : part.kind = kind}
  <2>1. 1 \in 1..Len(PartsOf(m, kind))
    BY <1>1, EmptySeq, LenProperties
  <2> QED
    BY <1>1, <2>1, ElementOfSeq
<1>3. PartsOf(m, kind)[1] \in TextParts
  BY <1>2 DEF Part, FileParts, InlinePart
<1> QED
  BY <1>3, ReadBackType

\* The ids read back are those of attachments.
LEMMA FilesOf ==
    ASSUME NEW m \in Messages
    PROVE  {part.id : part \in ToSet(PartsOf(m, "file"))} \ {None} \subseteq Files
<1>1. PartsOf(m, "file") \in Seq({part \in Part : part.kind = "file"})
  BY PartsOfType
<1>2. PICK list : list = PartsOf(m, "file")
  OBVIOUS
<1>3. ToSet(list) \subseteq {part \in Part : part.kind = "file"}
  <2>1. \A i \in DOMAIN list : list[i] \in {part \in Part : part.kind = "file"}
    BY <1>1, <1>2, ElementOfSeq, LenProperties
  <2> QED
    BY <2>1 DEF ToSet
<1>4. ASSUME NEW part \in ToSet(list) PROVE part.id \in Files \cup {None}
  BY <1>3, <1>4 DEF Part, TextParts, FileParts, InlinePart
<1> QED
  BY <1>2, <1>4

\* What _snapshot reads is a content.
LEMMA SnapshotType ==
    ASSUME NEW m \in Messages
    PROVE  Snapshot(m) \in Content
<1> DEFINE body == IF PartsOf(m, "plain") = <<>> THEN <<>> ELSE ReadBack(PartsOf(m, "plain")[1])
           html == IF PartsOf(m, "html") = <<>> THEN None ELSE ReadBack(PartsOf(m, "html")[1])
           files == {part.id : part \in ToSet(PartsOf(m, "file"))} \ {None}
<1>1. m.head \in Envelope
  BY DEF Messages
<1>2. body \in Text
  BY TextsOf, EmptySeq DEF Text
<1>3. html \in Text \cup {None}
  BY TextsOf
<1>4. files \in SUBSET Files
  BY FilesOf
<1>5. Snapshot(m) = [head |-> m.head, body |-> body, html |-> html, files |-> files]
  BY Zenon DEF Snapshot
<1> HIDE DEF body, html, files
<1> QED
  BY <1>1, <1>2, <1>3, <1>4, <1>5 DEF Content

\* What _updated_draft makes of it and a request is a content.
LEMMA MergeType ==
    ASSUME NEW snapshot \in Content, NEW request \in Request
    PROVE  Merge(snapshot, request) \in Content
<1> DEFINE next == Merge(snapshot, request)
<1>1. DOMAIN snapshot = {"head", "body", "html", "files"}
  BY DEF Content
<1>2. /\ next.head = IF request.head = Keep THEN snapshot.head ELSE request.head
      /\ next.body = IF request.body = Keep THEN snapshot.body ELSE request.body
      /\ next.html = IF request.html = Keep THEN snapshot.html ELSE request.html
      /\ next.files = IF request.files = Keep THEN snapshot.files ELSE request.files
      /\ next = [head |-> next.head, body |-> next.body, html |-> next.html, files |-> next.files]
  BY <1>1 DEF Merge
<1>3. /\ snapshot.head \in Envelope /\ snapshot.body \in Text /\ snapshot.html \in Text \cup {None}
      /\ snapshot.files \in SUBSET Files
  BY DEF Content
<1>4. /\ request.head \in Envelope \cup {Keep} /\ request.body \in Text \cup {Keep}
      /\ request.html \in Text \cup {Keep} /\ request.files \in (SUBSET Files) \cup {Keep}
  BY DEF Request
<1> HIDE DEF next
<1>5. next.head \in Envelope /\ next.body \in Text /\ next.html \in Text \cup {None} /\ next.files \in SUBSET Files
  BY <1>2, <1>3, <1>4
<1> QED
  BY <1>2, <1>5 DEF next, Content

\* Another subject leaves the seals alone.
LEMMA HeadChanges ==
    ASSUME NEW m, MessageOK(m), NEW subject \in Subjects
    PROVE  MessageOK([m EXCEPT !.head = [subject |-> subject, padded |-> FALSE]])
BY DEF MessageOK, Messages, Envelope

\* So do other parts, if they may stand in such a message.
LEMMA PartsChange ==
    ASSUME NEW m, MessageOK(m), NEW parts \in Seq(PartsFor(m.declared))
    PROVE  MessageOK([m EXCEPT !.parts = parts])
<1>1. parts \in Seq(Part)
  BY DEF PartsFor
<1> QED
  BY <1>1 DEF MessageOK, Messages

\* So does one other part.
LEMMA PartChanges ==
    ASSUME NEW m, MessageOK(m), NEW i \in DOMAIN m.parts, NEW part \in PartsFor(m.declared)
    PROVE  MessageOK([m EXCEPT !.parts[i] = part])
<1>1. m.parts \in Seq(PartsFor(m.declared)) /\ i \in 1..Len(m.parts)
  BY LenProperties DEF MessageOK, Messages
<1>2. [m.parts EXCEPT ![i] = part] \in Seq(PartsFor(m.declared))
  BY <1>1, ExceptSeq
<1>3. [m EXCEPT !.parts[i] = part] = [m EXCEPT !.parts = [m.parts EXCEPT ![i] = part]]
  BY DEF MessageOK, Messages
<1> QED
  BY <1>2, <1>3, PartsChange

-----------------------------------------------------------------------------
(* The other client *)

\* A text or an attachment another client writes carries no seal that is not the
\* gateway's.
LEMMA ForeignPart ==
    ASSUME NEW content, NEW part \in PartsFor(content)
    PROVE  /\ IsText(part) =>
                 \A text \in Text : [part EXCEPT !.data = text] \in PartsFor(content)
           /\ [part EXCEPT !.length = None, !.seal = None, !.id = None] \in PartsFor(content)
           /\ part.kind = "file" => [part EXCEPT !.data = Damaged] \in PartsFor(content)
           /\ IsText(part) => part.data \in Text
<1>1. CASE IsText(part)
  <2>1. part \in TextParts
    BY <1>1 DEF PartsFor, Part, FileParts, InlinePart, IsText
  <2>2. ASSUME NEW text \in Text PROVE [part EXCEPT !.data = text] \in PartsFor(content)
    <3>1. PICK new : new = [part EXCEPT !.data = text]
      OBVIOUS
    <3>2. new \in TextParts /\ new.kind = part.kind /\ new.seal = part.seal
      BY <2>1, <3>1 DEF TextParts
    <3> QED
      BY <1>1, <3>1, <3>2 DEF PartsFor, Part, SealOf, IsText
  <2>3. [part EXCEPT !.length = None, !.seal = None, !.id = None] \in PartsFor(content)
    <3>1. PICK new : new = [part EXCEPT !.length = None, !.seal = None, !.id = None]
      OBVIOUS
    <3>2. new \in TextParts /\ new.kind = part.kind /\ new.seal = None
      BY <2>1, <3>1 DEF TextParts
    <3> QED
      BY <1>1, <3>1, <3>2 DEF PartsFor, Part, SealOf, IsText
  <2>4. part.kind # "file" /\ part.data \in Text
    BY <1>1, <2>1 DEF IsText, TextParts
  <2> QED
    BY <1>1, <2>2, <2>3, <2>4
<1>2. CASE part.kind = "file"
  <2>1. part \in FileParts /\ ~IsText(part)
    BY <1>2 DEF PartsFor, Part, TextParts, InlinePart, IsText
  <2>2. [part EXCEPT !.length = None, !.seal = None, !.id = None] \in PartsFor(content)
    <3>1. PICK new : new = [part EXCEPT !.length = None, !.seal = None, !.id = None]
      OBVIOUS
    <3>2. new \in FileParts /\ new.kind = "file" /\ new.seal = None
      BY <1>2, <2>1, <3>1 DEF FileParts
    <3> QED
      BY <1>2, <3>1, <3>2 DEF PartsFor, Part, SealOf
  <2>3. [part EXCEPT !.data = Damaged] \in PartsFor(content)
    <3>1. PICK new : new = [part EXCEPT !.data = Damaged]
      OBVIOUS
    <3>2. new \in FileParts /\ new.kind = "file" /\ new.seal = part.seal
      BY <1>2, <2>1, <3>1 DEF FileParts
    <3> QED
      BY <1>2, <3>1, <3>2 DEF PartsFor, Part, SealOf
  <2> QED
    BY <2>1, <2>2, <2>3
<1>3. CASE ~IsText(part) /\ part.kind # "file"
  <2>1. part = InlinePart
    BY <1>3 DEF PartsFor, Part, TextParts, FileParts, IsText
  <2>2. [part EXCEPT !.length = None, !.seal = None, !.id = None] \in PartsFor(content)
    <3> DEFINE Inline == [kind : {"inline"}, data : {Damaged}, length : {None}, seal : {None}, id : {None}]
    <3>1. PICK new : new = [part EXCEPT !.length = None, !.seal = None, !.id = None]
      OBVIOUS
    <3>2. part \in Inline
      BY <2>1 DEF InlinePart
    <3>3. new \in Inline
      BY <3>1, <3>2
    <3>4. new = InlinePart
      BY <3>3 DEF InlinePart
    <3> QED
      BY <2>1, <3>1, <3>4
  <2> QED
    BY <1>3, <2>2
<1> QED
  BY <1>1, <1>2, <1>3

\* A part another client adds has no seal.
LEMMA AddedPart ==
    ASSUME NEW content, NEW kind \in {"plain", "html"}, NEW text \in Text
    PROVE  {InlinePart, FilePart(Damaged, None, None), TextPart(kind, text, None, None)} \subseteq PartsFor(content)
<1>1. InlinePart \in PartsFor(content)
  BY DEF PartsFor, Part, SealOf, InlinePart
<1>2. FilePart(Damaged, None, None) \in PartsFor(content)
  <2>1. PICK new : new = FilePart(Damaged, None, None)
    OBVIOUS
  <2>2. new \in FileParts /\ new.kind = "file" /\ new.seal = None
    BY <2>1 DEF FileParts, FilePart
  <2> QED
    BY <2>1, <2>2 DEF PartsFor, Part, SealOf
<1>3. TextPart(kind, text, None, None) \in PartsFor(content)
  <2>1. PICK new : new = TextPart(kind, text, None, None)
    OBVIOUS
  <2>2. new \in TextParts /\ new.kind = kind /\ new.seal = None
    BY <2>1 DEF TextParts, TextPart
  <2> QED
    BY <2>1, <2>2 DEF PartsFor, Part, SealOf
<1> QED
  BY <1>1, <1>2, <1>3

\* No change of the other client forges a seal.
LEMMA EditKeepsMessageOK ==
    ASSUME MessageOK(message), edits \in Nat, OtherClient
    PROVE  /\ MessageOK(message') /\ touched' = TRUE /\ edits' # edits /\ edits' \in Nat
           /\ UNCHANGED <<record, job>>
<1>0. OtherClient => \E new : Change(new)
  <2>1. EditHead => \E new : Change(new)
    BY Zenon DEF EditHead
  <2>2. EditText => \E new : Change(new)
    BY Zenon DEF EditText, ChangePart
  <2>3. EditBreaks => \E new : Change(new)
    BY Zenon DEF EditBreaks, ChangePart
  <2>4. DamageFile => \E new : Change(new)
    BY Zenon DEF DamageFile, ChangePart
  <2>5. StripHeaders => \E new : Change(new)
    BY Zenon DEF StripHeaders, ChangePart
  <2>6. RemovePart => \E new : Change(new)
    BY Zenon DEF RemovePart
  <2>7. AddPart => \E new : Change(new)
    BY Zenon DEF AddPart
  <2> QED
    BY <2>1, <2>2, <2>3, <2>4, <2>5, <2>6, <2>7 DEF OtherClient
<1> USE DEF Change, ChangePart
<1> DEFINE content == message.declared
           Parts == PartsFor(content)
<1>1. message.parts \in Seq(Parts) /\ \A i \in DOMAIN message.parts : message.parts[i] \in Parts
  BY ElementOfSeq, LenProperties DEF MessageOK, Messages
<1>2. ASSUME EditHead PROVE MessageOK(message')
  BY <1>2, HeadChanges DEF EditHead
<1>3. ASSUME EditText PROVE MessageOK(message')
  <2>1. PICK i \in DOMAIN message.parts, text \in ForeignTexts :
            /\ IsText(message.parts[i])
            /\ message' = [message EXCEPT !.parts[i] = [message.parts[i] EXCEPT !.data = text]]
    BY <1>3 DEF EditText
  <2>2. text \in Text
    BY ContentAssumption
  <2>3. [message.parts[i] EXCEPT !.data = text] \in Parts
    BY <1>1, <2>1, <2>2, ForeignPart
  <2> QED
    BY <2>1, <2>3, PartChanges
<1>4. ASSUME EditBreaks PROVE MessageOK(message')
  <2>1. PICK i \in DOMAIN message.parts : IsText(message.parts[i]) /\
          \E form \in {Lf(message.parts[i].data), Crlf(Lf(message.parts[i].data))} :
            message' = [message EXCEPT !.parts[i] = [message.parts[i] EXCEPT !.data = form]]
    BY <1>4 DEF EditBreaks
  <2>2. PICK form \in {Lf(message.parts[i].data), Crlf(Lf(message.parts[i].data))} :
            message' = [message EXCEPT !.parts[i] = [message.parts[i] EXCEPT !.data = form]]
    BY <2>1
  <2>3. message.parts[i].data \in Text
    BY <1>1, <2>1, ForeignPart
  <2>4. form \in Text
    BY <2>3, LfType, CrlfType, CleanIsText
  <2>5. [message.parts[i] EXCEPT !.data = form] \in Parts
    BY <1>1, <2>1, <2>4, ForeignPart
  <2> QED
    BY <2>2, <2>5, PartChanges
<1>5. ASSUME DamageFile PROVE MessageOK(message')
  <2>1. PICK i \in DOMAIN message.parts :
            /\ message.parts[i].kind = "file"
            /\ message' = [message EXCEPT !.parts[i] = [message.parts[i] EXCEPT !.data = Damaged]]
    BY <1>5 DEF DamageFile
  <2>2. [message.parts[i] EXCEPT !.data = Damaged] \in Parts
    BY <1>1, <2>1, ForeignPart
  <2> QED
    BY <2>1, <2>2, PartChanges
<1>6. ASSUME StripHeaders PROVE MessageOK(message')
  <2>1. PICK i \in DOMAIN message.parts :
            message' = [message EXCEPT !.parts[i] =
                [message.parts[i] EXCEPT !.length = None, !.seal = None, !.id = None]]
    BY <1>6 DEF StripHeaders
  <2>2. [message.parts[i] EXCEPT !.length = None, !.seal = None, !.id = None] \in Parts
    BY <1>1, ForeignPart
  <2> QED
    BY <2>1, <2>2, PartChanges
<1>7. ASSUME RemovePart PROVE MessageOK(message')
  <2>1. PICK i \in DOMAIN message.parts :
            message' = [message EXCEPT !.parts = RemoveAt(message.parts, i)]
    BY <1>7 DEF RemovePart
  <2>2. RemoveAt(message.parts, i) \in Seq(Parts)
    <3>1. PICK list \in Seq(Parts), n \in Nat : list = message.parts /\ n = Len(list)
      BY <1>1, LenProperties
    <3> HIDE DEF Parts
    <3>2. i \in 1..n
      BY <3>1, LenProperties
    <3>3. SubSeq(list, 1, i - 1) \in Seq(Parts)
      <4>1. 1 \in 1..(n + 1) /\ i - 1 \in (1 - 1)..n
        BY <3>2
      <4> QED
        BY <3>1, <4>1, SubSeqProperties
    <3>4. SubSeq(list, i + 1, n) \in Seq(Parts)
      <4>1. i + 1 \in 1..(n + 1) /\ n \in ((i + 1) - 1)..n
        BY <3>2
      <4> QED
        BY <3>1, <4>1, SubSeqProperties
    <3>5. RemoveAt(message.parts, i) = SubSeq(list, 1, i - 1) \o SubSeq(list, i + 1, n)
      BY <3>1, Zenon DEF RemoveAt
    <3> QED
      BY <3>3, <3>4, <3>5, ConcatProperties
  <2> QED
    BY <2>1, <2>2, PartsChange
<1>8. ASSUME AddPart PROVE MessageOK(message')
  <2>1. PICK part \in ForeignParts : message' = [message EXCEPT !.parts = Append(message.parts, part)]
    BY <1>8 DEF AddPart
  <2>2. part \in Parts
    <3>1. ForeignTexts \subseteq Text /\ <<>> \in Text
      BY ContentAssumption, EmptySeq DEF Text
    <3> HIDE DEF Parts
    <3>2. ASSUME NEW kind \in {"plain", "html"}, NEW text \in Text
          PROVE  {InlinePart, FilePart(Damaged, None, None), TextPart(kind, text, None, None)} \subseteq Parts
      BY AddedPart DEF Parts
    <3> QED
      BY <2>1, <3>1, <3>2 DEF ForeignParts
  <2>3. Append(message.parts, part) \in Seq(Parts)
    BY <1>1, <2>2, AppendProperties
  <2> QED
    BY <2>1, <2>3, PartsChange
<1>9. touched' = TRUE /\ edits' # edits /\ edits' \in Nat /\ UNCHANGED <<record, job>>
  BY <1>0
<1> QED
  BY <1>2, <1>3, <1>4, <1>5, <1>6, <1>7, <1>8, <1>9 DEF OtherClient

-----------------------------------------------------------------------------
(* The invariant, and what follows from it *)

\* The invariant holds of the message the draft was created with.
LEMMA ContentInvInit == ContentInit => ContentInv
<1>1. SUFFICES ASSUME ContentInit PROVE ContentInv
  OBVIOUS
<1>2. PICK content \in Contents, encoding \in Encodings :
          message = Compose(content, encoding) /\ record = [content |-> content, status |-> "synced_to_gmx"]
  BY <1>1 DEF ContentInit
<1>3. content \in Content
  BY ContentAssumption
<1>4. MessageOK(message)
  BY <1>2, <1>3, ComposeIs
<1>5. record \in Records /\ record.content = content
  BY <1>2, <1>3 DEF Records
<1>6. job = NoJob /\ edits = 0
  BY <1>1 DEF ContentInit
<1>7. \E e \in Encodings : message = Compose(record.content, e)
  BY <1>2, <1>5, Zenon
<1> QED
  BY <1>4, <1>5, <1>6, <1>7 DEF ContentInv

\* Closing a draft preserves the invariant.
LEMMA CloseStep ==
    ASSUME ContentInv, NEW status \in {"modified", "failed", "invalidated"}, Close(status)
    PROVE  ContentInv' /\ ~Synced'
<1>1. /\ record' \in Records /\ record'.content = record.content /\ record'.status = status
  BY DEF ContentInv, Close, Records
<1>2. job' = NoJob /\ message' = message /\ touched' = touched /\ edits' = edits
  BY DEF Close
<1>3. MessageOK(message') /\ edits' \in Nat
  BY <1>2 DEF ContentInv
<1>4. ~touched' => \E encoding \in Encodings : message' = Compose(record'.content, encoding)
  BY <1>1, <1>2, Zenon DEF ContentInv
<1> QED
  BY <1>1, <1>2, <1>3, <1>4 DEF ContentInv, Synced

\* A step that replaces the message is one of an update that found the draft in
\* sync.
LEMMA ReplacedStep ==
    ASSUME ContentInv, NEW encoding \in Encodings, Replace(encoding), message' # message
    PROVE  /\ InSync /\ edits' = edits /\ job # NoJob
           /\ message' = Compose(job.next, encoding) /\ record' = [record EXCEPT !.content = job.next]
           /\ job' = NoJob /\ touched' = FALSE
BY DEF Replace, Close

\* Every step preserves the invariant.
LEMMA ContentInvNext == ContentInv /\ [ContentNext]_vars => ContentInv'
<1>1. SUFFICES ASSUME ContentInv, [ContentNext]_vars PROVE ContentInv'
  OBVIOUS
<1>2. ASSUME NEW request \in Requests, Inspect(request) PROVE ContentInv'
  <2> DEFINE next == Merge(Snapshot(message), request)
  <2>1. next \in Content
    <3>1. message \in Messages
      BY <1>1 DEF ContentInv, MessageOK, Messages
    <3>2. Snapshot(message) \in Content /\ request \in Request
      BY <3>1, SnapshotType, ContentAssumption
    <3> QED
      BY <3>2, MergeType
  <2>2. CASE Close("modified") \/ Close("failed")
    BY <1>1, <2>2, CloseStep
  <2>3. CASE job' = [request |-> request, next |-> next] /\ UNCHANGED <<message, record, touched, edits>>
    <3> HIDE DEF next
    <3>0. request \in Request /\ next = Merge(Snapshot(message), request)
      BY ContentAssumption DEF next
    <3>1. job'.next \in Content /\ job'.request \in Request /\ job'.next = Merge(Snapshot(message), job'.request)
      BY <2>1, <2>3, <3>0
    <3>2. message' = message /\ record' = record /\ touched' = touched /\ edits' = edits
      BY <2>3
    <3> QED
      BY <1>1, <3>1, <3>2 DEF ContentInv
  <2> QED
    BY <1>2, <2>2, <2>3 DEF Inspect
<1>3. ASSUME NEW encoding \in Encodings, Replace(encoding) PROVE ContentInv'
  <2> DEFINE new == Compose(job.next, encoding)
  <2>1. CASE Close("modified") \/ Close("invalidated")
    BY <1>1, <2>1, CloseStep
  <2>2. CASE /\ job # NoJob /\ message' = new /\ record' = [record EXCEPT !.content = job.next]
             /\ job' = NoJob /\ touched' = FALSE /\ edits' = edits
    <3>1. job.next \in Content
      BY <1>1, <2>2 DEF ContentInv
    <3>2. MessageOK(new)
      BY <3>1, ComposeIs
    <3>3. record' \in Records /\ record'.content = job.next
      BY <1>1, <2>2, <3>1 DEF ContentInv, Records
    <3>4. \E e \in Encodings : message' = Compose(record'.content, e)
      BY <2>2, <3>3, Zenon
    <3>5. edits' \in Nat /\ job' = NoJob /\ MessageOK(message')
      BY <1>1, <2>2, <3>2 DEF ContentInv
    <3> QED
      BY <3>3, <3>4, <3>5 DEF ContentInv
  <2> QED
    BY <1>3, <2>1, <2>2 DEF Replace
<1>4. ASSUME Fail PROVE ContentInv'
  BY <1>1, <1>4, CloseStep DEF Fail
<1>5. ASSUME Summarize PROVE ContentInv'
  BY <1>1, <1>5, CloseStep DEF Summarize
<1>6. ASSUME OtherClient PROVE ContentInv'
  <2>1. MessageOK(message') /\ touched' = TRUE /\ edits' \in Nat /\ record' = record /\ job' = job
    BY <1>1, <1>6, EditKeepsMessageOK DEF ContentInv
  <2> QED
    BY <1>1, <2>1 DEF ContentInv
<1>7. ASSUME UNCHANGED vars PROVE ContentInv'
  <2>1. message' = message /\ record' = record /\ job' = job /\ touched' = touched /\ edits' = edits
    BY <1>7 DEF vars
  <2> QED
    BY <1>1, <2>1 DEF ContentInv
<1> QED
  BY <1>1, <1>2, <1>3, <1>4, <1>5, <1>6, <1>7 DEF ContentNext

\* The invariant holds in every state.
THEOREM ContentInvAlways == ContentSpec => []ContentInv
<1>1. ContentInv /\ [ContentNext]_vars => ContentInv'
  BY ContentInvNext
<1> QED
  BY ContentInvInit, <1>1, PTL DEF ContentSpec

\* The invariant implies that a message in sync is the gateway's.
LEMMA InvInSync == ContentInv => InSyncIsOurs
<1>1. SUFFICES ASSUME ContentInv
               PROVE  /\ ~touched /\ ~record.content.head.padded => InSync
                      /\ InSync => Ours(message, record.content)
  BY DEF InSyncIsOurs
<1>2. record.content \in Content /\ MessageOK(message)
  BY <1>1 DEF ContentInv, Records
<1>3. ASSUME ~touched, ~record.content.head.padded PROVE InSync
  <2>1. PICK encoding \in Encodings : message = Compose(record.content, encoding)
    BY <1>1, <1>3 DEF ContentInv
  <2>2. message.declared = record.content /\ Trusted(message)
    BY <1>2, <1>3, <2>1, ComposeIs
  <2> QED
    BY <2>2 DEF InSync, ServerHash
<1>4. ASSUME InSync PROVE Ours(message, record.content)
  BY <1>2, <1>4, TrustedIsOurs DEF InSync
<1> QED
  BY <1>3, <1>4

\* The hash of DraftWriter tells the gateway's own message from a changed one: as
\* long as nobody changed it the draft is in sync (but for a subject with white
\* space in front), and in sync it shows no envelope, text or attachment the
\* gateway did not write.  For all texts, attachments and requests.
THEOREM InSyncAlwaysOurs == ContentSpec => []InSyncIsOurs
BY ContentInvAlways, InvInSync, PTL

\* No update of mail_update_draft replaces a message in which another client has
\* changed the envelope, a text or an attachment or added one, not even between
\* the inspection and the replacement.
THEOREM NoEditOverwritten == ContentSpec => EditsAreNotOverwritten
<1>1. ASSUME ContentInv, [ContentNext]_vars
      PROVE  [edits' = edits /\ message' # message => Ours(message, record.content)]_vars
  <2>1. SUFFICES ASSUME ContentNext, edits' = edits, message' # message
                 PROVE  Ours(message, record.content)
    BY <1>1
  <2>2. ASSUME NEW encoding \in Encodings, Replace(encoding) PROVE Ours(message, record.content)
    <3>1. InSync
      BY <1>1, <2>1, <2>2, ReplacedStep
    <3>2. record.content \in Content /\ MessageOK(message)
      BY <1>1 DEF ContentInv, Records
    <3> QED
      BY <3>1, <3>2, TrustedIsOurs DEF InSync
  <2>3. ~OtherClient
    BY <1>1, <2>1, EditKeepsMessageOK DEF ContentInv
  <2>4. (\E request \in Requests : Inspect(request)) \/ Fail \/ Summarize => message' = message
    BY DEF Inspect, Fail, Summarize, Close
  <2> QED
    BY <2>1, <2>2, <2>3, <2>4 DEF ContentNext
<1> QED
  BY ContentInvAlways, <1>1, PTL DEF ContentSpec, EditsAreNotOverwritten

\* The plain texts of a message are texts.
LEMMA PlainTexts ==
    ASSUME NEW m \in Messages
    PROVE  LET plain == PartsOf(m, "plain") IN [i \in DOMAIN plain |-> plain[i].data] \in Seq(Text)
<1>1. PICK plain : plain = PartsOf(m, "plain")
  OBVIOUS
<1>2. plain \in Seq({part \in Part : part.kind = "plain"})
  BY <1>1, PartsOfType
<1>3. PICK n \in Nat : DOMAIN plain = 1..n /\ \A i \in 1..n : plain[i] \in {part \in Part : part.kind = "plain"}
  BY <1>2, LenProperties, ElementOfSeq
<1>4. ASSUME NEW i \in 1..n PROVE plain[i].data \in Text
  <2>1. plain[i] \in TextParts
    BY <1>3 DEF Part, FileParts, InlinePart
  <2> QED
    BY <2>1 DEF TextParts
<1>5. [i \in DOMAIN plain |-> plain[i].data] \in Seq(Text)
  <2>1. [i \in 1..n |-> plain[i].data] \in [1..n -> Text]
    BY <1>4
  <2> HIDE DEF Text
  <2> QED
    BY <1>3, <2>1
<1> QED
  BY <1>1, <1>5

\* The invariant implies that a message is read honestly.
LEMMA InvRead == ContentInv => ReadIsHonest
<1>1. SUFFICES ASSUME ContentInv PROVE ReadIsHonest
  OBVIOUS
<1> DEFINE texts == LET plain == PartsOf(message, "plain") IN [i \in DOMAIN plain |-> plain[i].data]
<1>2. texts \in Seq(Text)
  BY <1>1, PlainTexts DEF ContentInv, MessageOK, Messages
<1>3. MaxBody \in Nat \ {0}
  BY ContentAssumption
<1>4. PICK bodies \in Seq(Text) : bodies = texts
  BY <1>2
<1> HIDE DEF texts
<1>5. LET shown == BoundedText(bodies, MaxBody)
      IN  /\ Size(shown.text) <= MaxBody
          /\ IsPrefix(Whole(shown.text), Joined(bodies))
          /\ shown.truncated <=> shown.text # Joined(bodies)
  BY <1>3, BoundedTextIsHonest
<1> QED
  BY <1>4, <1>5, Zenon DEF ReadIsHonest, ShownBody, texts

\* What mail_read shows of any message is within MAX_BODY_SIZE, a prefix of its
\* texts, and called truncated just when something is missing.
THEOREM ReadsAreHonest == ContentSpec => []ReadIsHonest
BY ContentInvAlways, InvRead, PTL

-----------------------------------------------------------------------------
(* How much of a text is kept *)

\* The size of a text of one character.
LEMMA SizeOfOne == ASSUME NEW c \in Chars PROVE <<c>> \in Text /\ Size(<<c>>) = SizeOf(c)
<1>1. <<>> \in Text /\ Append(<<>>, c) = <<c>>
  BY EmptySeq DEF Text
<1>2. Size(Append(<<>>, c)) = Size(<<>>) + SizeOf(c)
  BY <1>1, SizeAppend
<1>3. SizeOf(c) \in Nat
  BY SizeOfType
<1> QED
  BY <1>1, <1>2, <1>3, SizeEmpty, TextAppend

\* A text with LFs only is no longer than it was.
LEMMA LfNoLonger == \A t \in Text : Size(Lf(t)) <= Size(t)
<1> DEFINE S == {t \in Text : Size(Lf(t)) <= Size(t)}
<1>1. <<>> \in S
  BY LfEmpty, SizeEmpty, EmptySeq DEF Text
<1>2. ASSUME NEW t \in S, NEW c \in Chars PROVE Append(t, c) \in S
  <2>1. Lf(t) \in Text /\ Append(t, c) \in Text
    BY LfType, CleanIsText, TextAppend
  <2>2. LfPiece(t, c) \in Text /\ Size(LfPiece(t, c)) <= SizeOf(c)
    <3>1. CASE c = "cr"
      <4>1. "lf" \in Chars /\ SizeOf("lf") = 1 /\ SizeOf(c) = 1
        BY <3>1 DEF Chars, SizeOf
      <4>2. LfPiece(t, c) = <<"lf">>
        BY <3>1 DEF LfPiece
      <4> QED
        BY <4>1, <4>2, SizeOfOne
    <3>2. CASE c # "cr" /\ LfPiece(t, c) = <<>>
      <4>1. SizeOf(c) \in Nat
        BY SizeOfType
      <4> QED
        BY <3>2, <4>1, SizeEmpty, EmptySeq DEF Text
    <3>3. CASE LfPiece(t, c) = <<c>>
      <4>1. SizeOf(c) \in Nat
        BY SizeOfType
      <4> QED
        BY <3>3, <4>1, SizeOfOne
    <3>4. c = "cr" \/ LfPiece(t, c) = <<>> \/ LfPiece(t, c) = <<c>>
      BY DEF LfPiece
    <3> QED
      BY <3>1, <3>2, <3>3, <3>4
  <2>3. Size(Lf(Append(t, c))) = Size(Lf(t)) + Size(LfPiece(t, c))
    <3>1. Lf(Append(t, c)) = Lf(t) \o LfPiece(t, c)
      BY LfAppend
    <3> QED
      BY <2>1, <2>2, <3>1, SizeConcat
  <2>4. Size(Append(t, c)) = Size(t) + SizeOf(c)
    BY SizeAppend
  <2>5. Size(t) \in Nat /\ Size(Lf(t)) \in Nat /\ Size(LfPiece(t, c)) \in Nat /\ SizeOf(c) \in Nat
    BY <2>1, <2>2, SizeType, SizeOfType
  <2>6. Size(Lf(Append(t, c))) <= Size(Append(t, c))
    BY <2>2, <2>3, <2>4, <2>5
  <2> QED
    BY <2>1, <2>6
<1>3. S = Text
  <2>1. S \subseteq Seq(Chars)
    BY DEF Text
  <2> HIDE DEF S
  <2> QED BY <1>1, <1>2, <2>1, SeqInduct DEF Text
<1> QED
  BY <1>3

\* The line breaks of a text.
Marks(t) == {i \in DOMAIN t : t[i] = "lf"}

\* One more character is one more line break or none.
LEMMA MarksAppend ==
    ASSUME NEW t \in Text, NEW c \in Chars, IsFiniteSet(Marks(t))
    PROVE  /\ IsFiniteSet(Marks(Append(t, c)))
           /\ Cardinality(Marks(Append(t, c))) = Cardinality(Marks(t)) + IF c = "lf" THEN 1 ELSE 0
<1>1. PICK u \in Text, n \in Nat :
          /\ u = Append(t, c) /\ n = Len(t)
          /\ DOMAIN u = 1..(n + 1) /\ DOMAIN t = 1..n
          /\ (\A i \in 1..n : u[i] = t[i]) /\ u[n + 1] = c
  <2>1. PICK u \in Text, n \in Nat : u = Append(t, c) /\ n = Len(t)
    BY TextAppend, LenProperties DEF Text
  <2>2. Len(u) = n + 1 /\ (\A i \in 1..n : u[i] = t[i]) /\ u[n + 1] = c
    BY <2>1, AppendProperties DEF Text
  <2>3. DOMAIN u = 1..(n + 1) /\ DOMAIN t = 1..n
    BY <2>1, <2>2, LenProperties DEF Text
  <2> QED
    BY <2>1, <2>2, <2>3
<1>2. Cardinality(Marks(t)) \in Nat
  BY FS_CardinalityType
<1>3. CASE c = "lf"
  <2>1. Marks(u) = Marks(t) \cup {n + 1} /\ n + 1 \notin Marks(t)
    BY <1>1, <1>3 DEF Marks
  <2> QED
    BY <1>1, <1>2, <1>3, <2>1, FS_AddElement
<1>4. CASE c # "lf"
  <2>1. Marks(u) = Marks(t)
    BY <1>1, <1>4 DEF Marks
  <2> QED
    BY <1>1, <1>2, <1>4, <2>1
<1> QED
  BY <1>3, <1>4

\* No text has no line breaks.
LEMMA MarksEmpty == IsFiniteSet(Marks(<<>>)) /\ Cardinality(Marks(<<>>)) = 0
<1>1. Marks(<<>>) = {}
  BY DEF Marks
<1> QED
  BY <1>1, FS_EmptySet

\* There are finitely many.
LEMMA MarksFinite == \A t \in Text : IsFiniteSet(Marks(t)) /\ Cardinality(Marks(t)) \in Nat
<1> DEFINE S == {t \in Text : IsFiniteSet(Marks(t))}
<1>1. <<>> \in S
  BY MarksEmpty, EmptySeq DEF Text
<1>2. ASSUME NEW t \in S, NEW c \in Chars PROVE Append(t, c) \in S
  BY MarksAppend, TextAppend
<1>3. S = Text
  <2>1. S \subseteq Seq(Chars)
    BY DEF Text
  <2> HIDE DEF S
  <2> QED BY <1>1, <1>2, <2>1, SeqInduct DEF Text
<1> QED
  BY <1>3, FS_CardinalityType

\* A line break on the wire takes one byte more.
LEMMA CrlfPieceSize ==
    ASSUME NEW c \in Chars
    PROVE  /\ CrlfPiece(c) \in Text
           /\ Size(CrlfPiece(c)) = SizeOf(c) + IF c = "lf" THEN 1 ELSE 0
<1>1. CASE c = "lf"
  <2>1. "cr" \in Chars /\ SizeOf("cr") = 1 /\ SizeOf("lf") = 1
    BY DEF Chars, SizeOf
  <2>2. <<"cr">> \in Text /\ Size(<<"cr">>) = 1
    BY <2>1, SizeOfOne
  <2>3. Size(Append(<<"cr">>, "lf")) = Size(<<"cr">>) + SizeOf("lf")
    BY <1>1, <2>2, SizeAppend
  <2>4. CrlfPiece(c) = Append(<<"cr">>, "lf")
    BY <1>1 DEF CrlfPiece
  <2> QED
    BY <1>1, <2>1, <2>2, <2>3, <2>4, CrlfPieceType
<1>2. CASE c # "lf"
  <2>1. CrlfPiece(c) = <<c>> /\ SizeOf(c) \in Nat
    BY <1>2, SizeOfType DEF CrlfPiece
  <2> QED
    BY <1>2, <2>1, SizeOfOne
<1> QED
  BY <1>1, <1>2

\* A text on the wire takes one byte more for each of its line breaks.
LEMMA CrlfSize == \A t \in Text : Size(Crlf(t)) = Size(t) + Cardinality(Marks(t))
<1> DEFINE S == {t \in Text : Size(Crlf(t)) = Size(t) + Cardinality(Marks(t))}
<1>1. <<>> \in S
  BY CrlfEmpty, SizeEmpty, MarksEmpty, EmptySeq DEF Text
<1>2. ASSUME NEW t \in S, NEW c \in Chars PROVE Append(t, c) \in S
  <2>1. Crlf(t) \in Text /\ Append(t, c) \in Text /\ CrlfPiece(c) \in Text
    BY CrlfType, CrlfPieceType, TextAppend
  <2>2. Size(Crlf(Append(t, c))) = Size(Crlf(t)) + Size(CrlfPiece(c))
    <3>1. Crlf(Append(t, c)) = Crlf(t) \o CrlfPiece(c)
      BY CrlfAppend
    <3> QED
      BY <2>1, <3>1, SizeConcat
  <2>3. PICK more \in {0, 1} : more = IF c = "lf" THEN 1 ELSE 0
    OBVIOUS
  <2>4. /\ Size(CrlfPiece(c)) = SizeOf(c) + more
        /\ Cardinality(Marks(Append(t, c))) = Cardinality(Marks(t)) + more
        /\ Size(Append(t, c)) = Size(t) + SizeOf(c)
    BY <2>3, CrlfPieceSize, MarksAppend, MarksFinite, SizeAppend
  <2>5. Size(t) \in Nat /\ SizeOf(c) \in Nat /\ Cardinality(Marks(t)) \in Nat
    BY SizeType, SizeOfType, MarksFinite
  <2>6. Size(Crlf(Append(t, c))) = Size(Append(t, c)) + Cardinality(Marks(Append(t, c)))
    BY <2>2, <2>4, <2>5
  <2> QED
    BY <2>1, <2>6
<1>3. S = Text
  <2>1. S \subseteq Seq(Chars)
    BY DEF Text
  <2> HIDE DEF S
  <2> QED BY <1>1, <1>2, <2>1, SeqInduct DEF Text
<1> QED
  BY <1>3

\* A prefix that ends in the first of two texts is a prefix of that.
LEMMA PrefixInConcat ==
    ASSUME NEW s \in Text, NEW t \in Text, NEW j \in 0..Len(s)
    PROVE  Prefix(s \o t, j) = Prefix(s, j)
<1>1. PICK u \in Text, n \in Nat : /\ u = s \o t /\ n = Len(s) /\ Len(u) \in Nat /\ n <= Len(u)
                                   /\ \A i \in 1..n : u[i] = s[i]
  <2>1. s \o t \in Text /\ Len(s) \in Nat /\ Len(s) <= Len(s \o t) /\ \A i \in 1..Len(s) : (s \o t)[i] = s[i]
    BY ConcatProperties, LenProperties DEF Text
  <2>2. Len(s \o t) \in Nat
    BY <2>1, LenProperties DEF Text
  <2> QED
    BY <2>1, <2>2
<1>2. j \in 0..Len(u) /\ j \in 0..n /\ j \in Nat
  BY <1>1
<1>3. PICK p \in Text, q \in Text : p = Prefix(u, j) /\ q = Prefix(s, j)
  BY <1>2, PrefixType
<1>4. /\ Len(p) = j /\ \A i \in 1..j : p[i] = u[i]
      /\ Len(q) = j /\ \A i \in 1..j : q[i] = s[i]
  BY <1>1, <1>2, <1>3, PrefixType
<1>5. \A i \in 1..j : p[i] = q[i]
  BY <1>1, <1>2, <1>4
<1>6. p = q
  BY <1>4, <1>5, SeqEqual DEF Text
<1> QED
  BY <1>1, <1>3, <1>6

\* What a cut leaves of a text on the wire is what is left of the text, and it
\* takes no more characters from the text than from what is on the wire.
CutsBack(o) ==
    \A j \in 0..Len(Crlf(o)) :
        \E k \in 0..Len(o) : Lf(Prefix(Crlf(o), j)) = Prefix(o, k) /\ Len(o) - k <= Len(Crlf(o)) - j

\* One more character.
LEMMA CutsBackNext ==
    ASSUME NEW t \in Seq(Clean), NEW c \in Clean, CutsBack(t)
    PROVE  CutsBack(Append(t, c))
<1>1. t \in Text /\ c \in Chars /\ c # "cr" /\ Crlf(t) \in Text /\ CrlfPiece(c) \in Text
  BY CleanIsText, CrlfType, CrlfPieceType DEF Clean
<1>2. PICK w \in Text, d \in Text, a \in Nat, b \in {1, 2}, n \in Nat :
          /\ w = Append(t, c) /\ d = Crlf(w) /\ d = Crlf(t) \o CrlfPiece(c)
          /\ a = Len(Crlf(t)) /\ b = Len(CrlfPiece(c)) /\ Len(d) = a + b
          /\ n = Len(t) /\ Len(w) = n + 1
  <2>1. Append(t, c) \in Text /\ Len(Append(t, c)) = Len(t) + 1
    BY <1>1, AppendProperties DEF Text
  <2>2. Crlf(Append(t, c)) \in Text /\ Crlf(Append(t, c)) = Crlf(t) \o CrlfPiece(c)
    BY <1>1, <2>1, CrlfAppend, CrlfType
  <2>3. Len(Crlf(t)) \in Nat /\ Len(t) \in Nat
    BY <1>1, LenProperties DEF Text
  <2>4. Len(CrlfPiece(c)) \in {1, 2}
    BY DEF CrlfPiece
  <2>5. Len(Crlf(t) \o CrlfPiece(c)) = Len(Crlf(t)) + Len(CrlfPiece(c))
    BY <1>1, ConcatProperties DEF Text
  <2> QED
    BY <2>1, <2>2, <2>3, <2>4, <2>5
<1>3. SUFFICES ASSUME NEW j \in 0..(a + b)
               PROVE  \E k \in 0..(n + 1) : Lf(Prefix(d, j)) = Prefix(w, k) /\ (n + 1) - k <= (a + b) - j
  BY <1>2 DEF CutsBack
<1>4. w \in Seq(Clean) /\ Lf(d) = w /\ Lf(Crlf(t)) = t
  <2>1. w \in Seq(Clean)
    BY <1>2, AppendProperties
  <2> QED
    BY <1>2, <2>1, LfOfCrlf
<1>5. CASE j <= a
  <2>1. j \in 0..a
    BY <1>5
  <2>2. PICK k \in 0..n : Lf(Prefix(Crlf(t), j)) = Prefix(t, k) /\ n - k <= a - j
    BY <1>2, <2>1 DEF CutsBack
  <2>3. Prefix(d, j) = Prefix(Crlf(t), j)
    BY <1>1, <1>2, <2>1, PrefixInConcat
  <2>4. Prefix(w, k) = Prefix(t, k)
    <3>1. w = t \o <<c>> /\ <<c>> \in Text
      BY <1>1, <1>2, TextAppend
    <3> QED
      BY <1>1, <1>2, <3>1, PrefixInConcat
  <2>5. (n + 1) - k <= (a + b) - j /\ k \in 0..(n + 1)
    BY <2>2
  <2> QED
    BY <2>2, <2>3, <2>4, <2>5
<1>6. ASSUME Lf(Prefix(d, j)) = w
      PROVE  \E k \in 0..(n + 1) : Lf(Prefix(d, j)) = Prefix(w, k) /\ (n + 1) - k <= (a + b) - j
  <2>1. Prefix(w, n + 1) = w
    BY <1>2, PrefixFull
  <2>2. n + 1 \in 0..(n + 1) /\ (n + 1) - (n + 1) <= (a + b) - j
    BY <1>2
  <2> QED
    BY <1>6, <2>1, <2>2
<1>7. CASE j = a + b
  <2>1. Prefix(d, j) = d
    BY <1>2, <1>7, PrefixFull
  <2> QED
    BY <1>4, <1>6, <2>1
<1>8. CASE j = a + 1 /\ b = 2
  <2>1. c = "lf" /\ CrlfPiece(c)[1] = "cr"
    BY <1>2, <1>8 DEF CrlfPiece
  <2>2. Prefix(d, a) = Crlf(t)
    <3>1. a \in 0..Len(Crlf(t))
      BY <1>2
    <3>2. Prefix(d, a) = Prefix(Crlf(t), a)
      BY <1>1, <1>2, <3>1, PrefixInConcat
    <3> QED
      BY <1>1, <1>2, <3>2, PrefixFull
  <2>3. d[a + 1] = "cr"
    <3>1. a + 1 \in (a + 1)..(a + b) /\ (a + 1) - a = 1
      BY <1>8
    <3>2. (Crlf(t) \o CrlfPiece(c))[a + 1] = CrlfPiece(c)[(a + 1) - a]
      <4>1. \A i \in (Len(Crlf(t)) + 1)..(Len(Crlf(t)) + Len(CrlfPiece(c))) :
               (Crlf(t) \o CrlfPiece(c))[i] = CrlfPiece(c)[i - Len(Crlf(t))]
        BY <1>1, ConcatProperties DEF Text
      <4> QED
        BY <1>2, <3>1, <4>1
    <3> QED
      BY <1>2, <2>1, <3>1, <3>2
  <2>4. Prefix(d, a + 1) = Append(Crlf(t), "cr")
    <3>1. a + 1 <= Len(d)
      BY <1>2
    <3> QED
      BY <2>2, <2>3, <3>1, PrefixNext
  <2>5. Lf(Append(Crlf(t), "cr")) = t \o <<"lf">>
    <3>1. "cr" \in Chars /\ LfPiece(Crlf(t), "cr") = <<"lf">>
      BY DEF Chars, LfPiece
    <3> QED
      BY <1>1, <1>4, <3>1, LfAppend
  <2>6. t \o <<"lf">> = w
    BY <1>1, <1>2, <2>1, TextAppend
  <2> QED
    BY <1>6, <1>8, <2>4, <2>5, <2>6
<1>9. j <= a \/ j = a + b \/ (j = a + 1 /\ b = 2)
  OBVIOUS
<1> QED
  BY <1>5, <1>7, <1>8, <1>9

\* That is so of all texts.
LEMMA CutsBackAlways == \A o \in Seq(Clean) : CutsBack(o)
<1> DEFINE S == {o \in Seq(Clean) : CutsBack(o)}
<1>1. <<>> \in S
  <2>1. Crlf(<<>>) = <<>> /\ Len(<<>>) = 0 /\ <<>> \in Seq(Clean)
    BY CrlfEmpty, EmptySeq
  <2>2. Lf(Prefix(<<>>, 0)) = Prefix(<<>>, 0)
    BY PrefixZero, LfEmpty
  <2>3. CutsBack(<<>>)
    BY <2>1, <2>2 DEF CutsBack
  <2> QED
    BY <2>1, <2>3
<1>2. ASSUME NEW t \in S, NEW c \in Clean PROVE Append(t, c) \in S
  BY CutsBackNext, AppendProperties
<1>3. S = Seq(Clean)
  <2>1. S \subseteq Seq(Clean) OBVIOUS
  <2> HIDE DEF S
  <2> QED BY <1>1, <1>2, <2>1, SeqInduct
<1> QED
  BY <1>3

\* Lines is the text with LFs, and one more at its end if it had none there.
LEMMA LinesIs ==
    ASSUME NEW t \in Text
    PROVE  Lines(t) \in Seq(Clean) /\ Lf(t) \in Seq(Clean)
           /\ (Lines(t) = Lf(t) \/ Lines(t) = Append(Lf(t), "lf"))
BY LinesType, LfType DEF Lines

\* The fitting prefix of o on the wire, where n bytes are enough for o itself.
LEMMA FittingLoses ==
    ASSUME NEW o \in Seq(Clean), NEW n \in Nat, Size(o) <= n,
           NEW j \in 0..Len(Crlf(o)),
           j < Len(Crlf(o)) => Size(Prefix(Crlf(o), j + 1)) > n
    PROVE  Len(Crlf(o)) - j <= Cardinality(Marks(o))
<1>1. o \in Text /\ Crlf(o) \in Text
  BY CleanIsText, CrlfType
<1>2. PICK m \in Nat : m = Len(Crlf(o))
  BY <1>1, LenProperties DEF Text
<1>3. PICK s \in Nat, marks \in Nat :
          s = Size(o) /\ marks = Cardinality(Marks(o)) /\ Size(Crlf(o)) = s + marks
  BY <1>1, SizeType, MarksFinite, CrlfSize
<1>4. CASE j = m
  BY <1>2, <1>3, <1>4
<1>5. CASE j < m
  <2>1. j + 1 \in 0..m /\ m \in 0..m
    BY <1>5
  <2>2. Size(Prefix(Crlf(o), j + 1)) + (m - (j + 1)) <= Size(Prefix(Crlf(o), m))
    BY <1>1, <1>2, <2>1, SizeGrows
  <2>3. Prefix(Crlf(o), m) = Crlf(o)
    BY <1>1, <1>2, PrefixFull
  <2>4. PICK p \in Nat : p = Size(Prefix(Crlf(o), j + 1))
    <3>1. Prefix(Crlf(o), j + 1) \in Text
      BY <1>1, <1>2, <2>1, PrefixType
    <3> QED
      BY <3>1, SizeType
  <2>5. p > n /\ p + (m - (j + 1)) <= s + marks /\ s <= n
    BY <1>2, <1>3, <1>5, <2>2, <2>3, <2>4
  <2>6. m - j <= marks
    BY <2>5
  <2> QED
    BY <1>2, <1>3, <2>6
<1> QED
  BY <1>2, <1>4, <1>5

\* The prefix of length j of the lines of a text, or of them on the wire, that fits.
Keeps(old, data, j) ==
    LET after == Lf(Prefix(data, j))
    IN  /\ after \in Text /\ IsPrefix(after, Lines(old))
        /\ Len(after) + Cardinality(Marks(Lf(old))) >= Len(Lf(old))

\* Of the lines as set_content stores them (base64) nothing but the last line
\* break is lost.
LEMMA LinesKept ==
    ASSUME NEW old \in Text, NEW j \in 0..Len(Lines(old)),
           \A i \in 0..Len(Lines(old)) : Size(Prefix(Lines(old), i)) <= Size(old) => i <= j
    PROVE  Keeps(old, Lines(old), j)
<1>1. PICK o \in Seq(Clean), l \in Seq(Clean), n \in Nat, m \in Nat :
          /\ o = Lf(old) /\ l = Lines(old) /\ (l = o \/ l = Append(o, "lf"))
          /\ n = Len(o) /\ m = Len(l)
  BY LinesIs, LenProperties
<1>2. o \in Text /\ l \in Text /\ "lf" \in Chars
  BY CleanIsText DEF Chars
<1>3. n <= m /\ Prefix(l, n) = o
  <2>1. CASE l = o
    BY <1>1, <1>2, <2>1, PrefixFull
  <2>2. CASE l = Append(o, "lf")
    <3>1. l = o \o <<"lf">> /\ <<"lf">> \in Text /\ Len(l) = n + 1
      <4>1. l = o \o <<"lf">> /\ <<"lf">> \in Text
        BY <1>2, <2>2, TextAppend
      <4>2. Len(Append(o, "lf")) = Len(o) + 1
        BY <1>2, AppendProperties DEF Text
      <4> QED
        BY <1>1, <2>2, <4>1, <4>2
    <3>2. Prefix(l, n) = Prefix(o, n) /\ Prefix(o, n) = o
      BY <1>1, <1>2, <3>1, PrefixInConcat, PrefixFull
    <3> QED
      BY <1>1, <3>1, <3>2
  <2> QED
    BY <1>1, <2>1, <2>2
<1>4. n <= j
  <2>1. Size(o) <= Size(old)
    BY <1>1, LfNoLonger
  <2>2. n \in 0..m
    BY <1>3
  <2> QED
    BY <1>1, <1>3, <2>1, <2>2
<1>5. PICK p \in Text : p = Prefix(l, j) /\ Len(p) = j /\ IsPrefix(p, l)
  BY <1>1, <1>2, PrefixType
<1>6. Lf(p) = p
  <2>1. p \in Seq(Clean)
    <3>1. j \in 0..m
      BY <1>1
    <3>2. SubSeq(l, 1, j) \in Seq(Clean)
      <4>1. 1 \in 1..(m + 1) /\ j \in (1 - 1)..m
        BY <3>1
      <4> QED
        BY <1>1, <4>1, SubSeqProperties
    <3> QED
      BY <1>5, <3>2 DEF Prefix
  <2> QED
    BY <2>1, LfOfClean
<1>7. Cardinality(Marks(o)) \in Nat
  BY <1>2, MarksFinite
<1>8. Len(p) + Cardinality(Marks(o)) >= n
  BY <1>1, <1>4, <1>5, <1>7
<1> QED
  BY <1>1, <1>5, <1>6, <1>8 DEF Keeps
\* No longer prefix fits.
Largest(data, n, j) == \A i \in 0..Len(data) : Size(Prefix(data, i)) <= n => i <= j

\* One step further is too much.
LEMMA OneMoreIsTooMuch ==
    ASSUME NEW data \in Text, NEW n \in Nat, NEW j \in 0..Len(data), Largest(data, n, j)
    PROVE  j < Len(data) => Size(Prefix(data, j + 1)) > n
<1>1. SUFFICES ASSUME j < Len(data) PROVE Size(Prefix(data, j + 1)) > n
  OBVIOUS
<1>2. PICK m \in Nat : m = Len(data)
  BY LenProperties DEF Text
<1>3. j + 1 \in 0..m /\ ~(j + 1 <= j)
  BY <1>1, <1>2
<1>4. Prefix(data, j + 1) \in Text
  BY <1>2, <1>3, PrefixType
<1>5. PICK s \in Nat : s = Size(Prefix(data, j + 1))
  BY <1>4, SizeType
<1>6. ~(s <= n)
  BY <1>2, <1>3, <1>5 DEF Largest
<1> QED
  BY <1>5, <1>6

\* Of the lines on the wire no more is lost than one character per line break.
LEMMA WireKept ==
    ASSUME NEW old \in Text, NEW j \in 0..Len(Crlf(Lines(old))),
           Largest(Crlf(Lines(old)), Size(old), j)
    PROVE  Keeps(old, Crlf(Lines(old)), j)
<1>1. PICK o \in Seq(Clean), l \in Seq(Clean), size \in Nat :
          o = Lf(old) /\ l = Lines(old) /\ (l = o \/ l = Append(o, "lf")) /\ size = Size(old)
  BY LinesIs, SizeType
<1>2. /\ o \in Text /\ l \in Text /\ Crlf(o) \in Text /\ Crlf(l) \in Text
      /\ Size(o) <= size
  BY <1>1, CleanIsText, CrlfType, LfNoLonger
<1>3. PICK n \in Nat, a \in Nat, d \in Nat, marks \in Nat :
          n = Len(o) /\ a = Len(Crlf(o)) /\ d = Len(Crlf(l)) /\ marks = Cardinality(Marks(o))
  BY <1>2, LenProperties, MarksFinite DEF Text
<1>4. j \in 0..d /\ (j < d => Size(Prefix(Crlf(l), j + 1)) > size)
  BY <1>1, <1>2, <1>3, OneMoreIsTooMuch
<1>5. PICK k \in 0..Len(l) : Lf(Prefix(Crlf(l), j)) = Prefix(l, k) /\ Len(l) - k <= d - j
  BY <1>1, <1>3, <1>4, CutsBackAlways DEF CutsBack
<1>6. PICK after \in Text : after = Lf(Prefix(Crlf(l), j)) /\ IsPrefix(after, l) /\ Len(after) = k
  BY <1>2, <1>5, PrefixType
<1>7. Len(after) + marks >= n
  <2>1. CASE l = o
    <3>1. d - j <= marks
      BY <1>1, <1>2, <1>3, <1>4, <2>1, FittingLoses
    <3>2. n - k <= d - j
      BY <1>3, <1>5, <2>1
    <3> QED
      BY <1>3, <1>4, <1>5, <1>6, <2>1, <3>1, <3>2
  <2>2. CASE l = Append(o, "lf")
    <3>1. "lf" \in Chars /\ CrlfPiece("lf") = <<"cr", "lf">> /\ CrlfPiece("lf") \in Text
      BY CrlfPieceType DEF Chars, CrlfPiece
    <3>2. Crlf(l) = Crlf(o) \o <<"cr", "lf">> /\ <<"cr", "lf">> \in Text
      BY <1>2, <2>2, <3>1, CrlfAppend
    <3>3. d = a + 2 /\ Len(l) = n + 1
      <4>1. Len(Crlf(o) \o <<"cr", "lf">>) = Len(Crlf(o)) + Len(<<"cr", "lf">>)
        BY <1>2, <3>2, ConcatProperties DEF Text
      <4>2. Len(Append(o, "lf")) = Len(o) + 1
        BY <1>2, <3>1, AppendProperties DEF Text
      <4> QED
        BY <1>3, <2>2, <3>2, <4>1, <4>2
    <3>4. CASE j <= a
      <4>1. j \in 0..a
        BY <1>4, <3>4
      <4>2. \A i \in 0..a : Prefix(Crlf(l), i) = Prefix(Crlf(o), i)
        BY <1>2, <1>3, <3>2, PrefixInConcat
      <4>3. j < a => Size(Prefix(Crlf(o), j + 1)) > size
        <5>1. SUFFICES ASSUME j < a PROVE Size(Prefix(Crlf(o), j + 1)) > size
          OBVIOUS
        <5>2. j + 1 \in 0..a /\ j < d
          BY <3>3, <4>1, <5>1
        <5> QED
          BY <1>4, <4>2, <5>2
      <4>4. a - j <= marks
        BY <1>1, <1>2, <1>3, <4>1, <4>3, FittingLoses
      <4>5. PICK i \in 0..n : Lf(Prefix(Crlf(o), j)) = Prefix(o, i) /\ n - i <= a - j
        BY <1>1, <1>3, <4>1, CutsBackAlways DEF CutsBack
      <4>6. Len(after) = i
        <5>1. after = Prefix(o, i)
          BY <1>6, <4>1, <4>2, <4>5
        <5> QED
          BY <1>2, <1>3, <5>1, PrefixType
      <4> QED
        BY <4>1, <4>4, <4>5, <4>6
    <3>5. CASE j > a
      <4>1. k \in 0..(n + 1) /\ (n + 1) - k <= (a + 2) - j
        BY <1>5, <3>3
      <4>2. k >= n
        BY <1>4, <3>5, <4>1
      <4> QED
        BY <1>6, <4>1, <4>2
    <3> QED
      BY <1>4, <3>4, <3>5
  <2> QED
    BY <1>1, <2>1, <2>2
<1> QED
  BY <1>1, <1>3, <1>6, <1>7 DEF Keeps

\* A text in the payload of the gateway that is read back.
LEMMA CutIsShortened ==
    ASSUME NEW old \in Text, NEW data \in {Lines(old), Crlf(Lines(old))}
    PROVE  Shortened(old, Cut(data, Size(old)))
<1>1. data \in Text /\ Size(old) \in Nat
  BY LinesOfLines, SizeType
<1>2. PICK j \in 0..Len(data) : Fitting(data, Size(old)) = Prefix(data, j) /\ Largest(data, Size(old), j)
  BY <1>1, FittingIs DEF Largest
<1>3. Keeps(old, data, j)
  <2>1. CASE data = Lines(old)
    BY <1>2, <2>1, LinesKept DEF Largest
  <2>2. CASE data = Crlf(Lines(old))
    BY <1>2, <2>2, WireKept
  <2> QED
    BY <2>1, <2>2
<1>4. PICK p \in Text : p = Prefix(data, j)
  BY <1>1, PrefixType
<1>5. Cut(data, Size(old)) \in {p, Append(p, "?")}
  BY <1>2, <1>4 DEF Cut
<1>6. Lf(p) \in {Lf(Cut(data, Size(old))), Lf(Whole(Cut(data, Size(old))))}
  <2>1. Whole(Append(p, "?")) = p
    BY <1>4, WholeOfAppend
  <2> QED
    BY <1>5, <2>1
<1>7. IsPrefix(Lf(p), Lines(old)) /\ Len(Lf(p)) + Breaks(old) >= Len(Lf(old))
  <2>1. Breaks(old) = Cardinality(Marks(Lf(old)))
    BY DEF Breaks, Marks
  <2> QED
    BY <1>3, <1>4, <2>1 DEF Keeps
<1> QED
  BY <1>6, <1>7 DEF Shortened

-----------------------------------------------------------------------------
(* Elements of flattened sequences *)

\* The elements of two sequences one behind the other.
LEMMA ConcatElements ==
    ASSUME NEW C, NEW s \in Seq(C), NEW t \in Seq(C)
    PROVE  /\ s \o t \in Seq(C) /\ DOMAIN (s \o t) = 1..(Len(s) + Len(t))
           /\ Len(s) \in Nat /\ Len(t) \in Nat
           /\ \A i \in 1..Len(s) : (s \o t)[i] = s[i]
           /\ \A i \in 1..Len(t) : (s \o t)[Len(s) + i] = t[i]
<1>1. /\ s \o t \in Seq(C) /\ Len(s \o t) = Len(s) + Len(t)
      /\ \A i \in 1..Len(s) : (s \o t)[i] = s[i]
      /\ \A i \in (Len(s) + 1)..(Len(s) + Len(t)) : (s \o t)[i] = t[i - Len(s)]
  BY ConcatProperties
<1>2. PICK a \in Nat, b \in Nat : a = Len(s) /\ b = Len(t)
  BY LenProperties
<1>3. ASSUME NEW i \in 1..b PROVE (s \o t)[a + i] = t[i]
  <2>1. a + i \in (a + 1)..(a + b) /\ (a + i) - a = i
    OBVIOUS
  <2> QED
    BY <1>1, <1>2, <2>1
<1>4. DOMAIN (s \o t) = 1..(a + b)
  BY <1>1, <1>2, LenProperties
<1> QED
  BY <1>1, <1>2, <1>3, <1>4

\* The elements of a sequence and one more.
Appends(C, s, x) ==
    \E t \in Seq(C), n \in Nat :
       /\ t = Append(s, x) /\ n = Len(s) /\ Len(t) = n + 1
       /\ (\A i \in 1..n : t[i] = s[i]) /\ t[n + 1] = x

\* They are those of the sequence and that one.
LEMMA AppendElements ==
    ASSUME NEW C, NEW s \in Seq(C), NEW x \in C
    PROVE  Appends(C, s, x)
<1>1. PICK t \in Seq(C), n \in Nat : t = Append(s, x) /\ n = Len(s)
  BY AppendProperties, LenProperties
<1>2. Len(t) = n + 1 /\ (\A i \in 1..n : t[i] = s[i]) /\ t[n + 1] = x
  BY <1>1, AppendProperties
<1> QED
  BY <1>1, <1>2 DEF Appends

\* The elements of a flattened sequence.
Holds(ss, c) == \E i \in 1..Len(ss) : \E j \in 1..Len(ss[i]) : ss[i][j] = c

\* A flattened sequence has the elements of its parts.
LEMMA FlattenHolds ==
    ASSUME NEW C
    PROVE  \A ss \in Seq(Seq(C)) : \A c : (\E j \in 1..Len(FlattenSeq(ss)) : FlattenSeq(ss)[j] = c) <=> Holds(ss, c)
<1> DEFINE S == {ss \in Seq(Seq(C)) : \A c : (\E j \in 1..Len(FlattenSeq(ss)) : FlattenSeq(ss)[j] = c) <=> Holds(ss, c)}
<1>1. <<>> \in S
  <2>1. FlattenSeq(<<>>) = <<>> /\ Len(<<>>) = 0 /\ <<>> \in Seq(Seq(C))
    BY EmptySeq DEF FlattenSeq
  <2> QED
    BY <2>1 DEF Holds
<1>2. ASSUME NEW ss \in S, NEW x \in Seq(C) PROVE Append(ss, x) \in S
  <2>1. PICK tt \in Seq(Seq(C)), n \in Nat :
            /\ tt = Append(ss, x) /\ n = Len(ss) /\ Len(tt) = n + 1
            /\ (\A i \in 1..n : tt[i] = ss[i]) /\ tt[n + 1] = x
    <3>1. ss \in Seq(Seq(C))
      OBVIOUS
    <3> HIDE DEF S
    <3>2. Appends(Seq(C), ss, x)
      BY <3>1, AppendElements
    <3> QED BY <3>2 DEF Appends
  <2>2. PICK f \in Seq(C), g \in Seq(C) : f = FlattenSeq(ss) /\ g = FlattenSeq(tt) /\ g = f \o x
    <3>1. FlattenSeq(Append(ss, x)) = FlattenSeq(ss) \o x
      BY FlattenAppend
    <3> QED
      BY <2>1, <3>1, FlattenType
  <2>3. PICK a \in Nat, b \in Nat : a = Len(f) /\ b = Len(x) /\ Len(g) = a + b
    BY <2>2, ConcatProperties, LenProperties
  <2>4. (\A i \in 1..a : g[i] = f[i]) /\ (\A i \in 1..b : g[a + i] = x[i])
    BY <2>2, <2>3, ConcatElements
  <2>5. SUFFICES ASSUME NEW c PROVE (\E j \in 1..Len(g) : g[j] = c) <=> Holds(tt, c)
    BY <2>1, <2>2
  <2>6. (\E j \in 1..a : f[j] = c) <=> Holds(ss, c)
    BY <2>2, <2>3
  <2>7. (\E j \in 1..Len(g) : g[j] = c) <=> (\E j \in 1..a : f[j] = c) \/ (\E j \in 1..b : x[j] = c)
    <3>1. ASSUME NEW j \in 1..(a + b) PROVE (\E i \in 1..a : g[j] = f[i]) \/ (\E i \in 1..b : g[j] = x[i])
      <4>1. CASE j <= a
        BY <2>4, <4>1
      <4>2. CASE j > a
        <5>1. j - a \in 1..b /\ a + (j - a) = j
          BY <4>2
        <5> QED
          BY <2>4, <5>1
      <4> QED
        BY <4>1, <4>2
    <3>2. ASSUME NEW i \in 1..a PROVE i \in 1..(a + b) /\ g[i] = f[i]
      BY <2>4
    <3>3. ASSUME NEW i \in 1..b PROVE a + i \in 1..(a + b) /\ g[a + i] = x[i]
      BY <2>4
    <3> HIDE DEF S
    <3>4. ASSUME NEW j \in 1..(a + b), g[j] = c
          PROVE  (\E i \in 1..a : f[i] = c) \/ (\E i \in 1..b : x[i] = c)
      BY <3>1, <3>4
    <3>5. ASSUME NEW i \in 1..a, f[i] = c PROVE \E j \in 1..(a + b) : g[j] = c
      BY <3>2, <3>5
    <3>6. ASSUME NEW i \in 1..b, x[i] = c PROVE \E j \in 1..(a + b) : g[j] = c
      BY <3>3, <3>6
    <3> QED
      BY <2>3, <3>4, <3>5, <3>6
  <2>8. Holds(tt, c) <=> Holds(ss, c) \/ (\E j \in 1..b : x[j] = c)
    <3>1. n + 1 \in 1..(n + 1) /\ (\A i \in 1..n : i \in 1..(n + 1)) /\ \A i \in 1..(n + 1) : i = n + 1 \/ i \in 1..n
      OBVIOUS
    <3>2. ASSUME Holds(tt, c) PROVE Holds(ss, c) \/ (\E j \in 1..b : x[j] = c)
      <4>1. PICK i \in 1..(n + 1) : \E j \in 1..Len(tt[i]) : tt[i][j] = c
        BY <2>1, <3>2 DEF Holds
      <4>2. CASE i = n + 1
        BY <2>1, <2>3, <4>1, <4>2
      <4>3. CASE i \in 1..n
        BY <2>1, <4>1, <4>3 DEF Holds
      <4> QED
        BY <3>1, <4>2, <4>3
    <3>3. ASSUME Holds(ss, c) PROVE Holds(tt, c)
      <4>1. PICK i \in 1..n : \E j \in 1..Len(ss[i]) : ss[i][j] = c
        BY <2>1, <3>3 DEF Holds
      <4>2. i \in 1..(n + 1) /\ tt[i] = ss[i]
        BY <2>1, <3>1
      <4> QED
        BY <2>1, <4>1, <4>2 DEF Holds
    <3>4. ASSUME \E j \in 1..b : x[j] = c PROVE Holds(tt, c)
      BY <2>1, <2>3, <3>1, <3>4 DEF Holds
    <3> QED
      BY <3>2, <3>3, <3>4
  <2> QED
    BY <2>6, <2>7, <2>8
<1>3. S = Seq(Seq(C))
  <2>1. S \subseteq Seq(Seq(C)) OBVIOUS
  <2> HIDE DEF S
  <2> QED BY <1>1, <1>2, <2>1, SeqInduct
<1> QED
  BY <1>3

\* The first element of a flattened sequence.
Leads(ss, k, c) ==
    /\ k \in 1..Len(ss) /\ ss[k] = <<c>>
    /\ \A i \in 1..Len(ss) : i < k => ss[i] = <<>>

\* Empty parts leave nothing.
LEMMA FlattenNone ==
    ASSUME NEW C
    PROVE  \A ss \in Seq(Seq(C)) : (\A i \in 1..Len(ss) : ss[i] = <<>>) => FlattenSeq(ss) = <<>>
<1>1. SUFFICES ASSUME NEW ss \in Seq(Seq(C)), \A i \in 1..Len(ss) : ss[i] = <<>> PROVE FlattenSeq(ss) = <<>>
  OBVIOUS
<1>2. PICK f \in Seq(C) : f = FlattenSeq(ss)
  BY FlattenType
<1>3. \A c : ~Holds(ss, c)
  BY <1>1, EmptySeq DEF Holds
<1>4. \A j \in 1..Len(f) : FALSE
  BY <1>2, <1>3, FlattenHolds
<1>5. Len(f) = 0
  <2>1. PICK n \in Nat : n = Len(f)
    BY LenProperties
  <2>2. n # 0 => 1 \in 1..n
    OBVIOUS
  <2> QED
    BY <1>4, <2>1, <2>2
<1> QED
  BY <1>2, <1>5, EmptySeq

\* The first part that is not empty leads.
LEMMA FlattenLeads ==
    ASSUME NEW C, NEW c \in C
    PROVE  \A ss \in Seq(Seq(C)) : (\E k : Leads(ss, k, c)) => FlattenSeq(ss) # <<>> /\ FlattenSeq(ss)[1] = c
<1> DEFINE S == {ss \in Seq(Seq(C)) : (\E k : Leads(ss, k, c)) => FlattenSeq(ss) # <<>> /\ FlattenSeq(ss)[1] = c}
<1>1. <<>> \in S
  <2>1. <<>> \in Seq(Seq(C)) /\ Len(<<>>) = 0
    BY EmptySeq
  <2> QED
    BY <2>1 DEF Leads
<1>2. ASSUME NEW ss \in S, NEW x \in Seq(C) PROVE Append(ss, x) \in S
  <2>1. PICK tt \in Seq(Seq(C)), n \in Nat :
            /\ tt = Append(ss, x) /\ n = Len(ss) /\ Len(tt) = n + 1
            /\ (\A i \in 1..n : tt[i] = ss[i]) /\ tt[n + 1] = x
    <3>1. ss \in Seq(Seq(C))
      OBVIOUS
    <3> HIDE DEF S
    <3>2. Appends(Seq(C), ss, x)
      BY <3>1, AppendElements
    <3> QED BY <3>2 DEF Appends
  <2>2. PICK f \in Seq(C), g \in Seq(C) : f = FlattenSeq(ss) /\ g = FlattenSeq(tt) /\ g = f \o x
    <3>1. FlattenSeq(Append(ss, x)) = FlattenSeq(ss) \o x
      BY FlattenAppend
    <3> QED
      BY <2>1, <3>1, FlattenType
  <2>3. SUFFICES ASSUME NEW k, Leads(tt, k, c) PROVE g # <<>> /\ g[1] = c
    BY <2>1, <2>2
  <2>4. k \in 1..(n + 1) /\ tt[k] = <<c>> /\ \A i \in 1..(n + 1) : i < k => tt[i] = <<>>
    BY <2>1, <2>3 DEF Leads
  <2>5. CASE k \in 1..n
    <3>1. Leads(ss, k, c)
      <4>1. \A i \in 1..n : i \in 1..(n + 1)
        OBVIOUS
      <4> QED
        BY <2>1, <2>4, <2>5, <4>1 DEF Leads
    <3>2. f # <<>> /\ f[1] = c
      BY <2>2, <3>1
    <3>3. 1 \in 1..Len(f)
      BY <3>2, EmptySeq, LenProperties
    <3>4. g[1] = f[1] /\ Len(g) = Len(f) + Len(x) /\ Len(x) \in Nat /\ Len(f) \in Nat
      BY <2>2, <3>3, ConcatProperties, LenProperties
    <3>5. Len(g) # 0
      BY <3>3, <3>4
    <3> QED
      BY <3>2, <3>4, <3>5, EmptySeq
  <2>6. CASE k = n + 1
    <3>1. \A i \in 1..n : ss[i] = <<>>
      <4>1. \A i \in 1..n : i \in 1..(n + 1) /\ i < n + 1
        OBVIOUS
      <4> QED
        BY <2>1, <2>4, <2>6, <4>1
    <3>2. f = <<>>
      BY <2>1, <2>2, <3>1, FlattenNone
    <3>3. g = x /\ x = <<c>>
      BY <2>1, <2>2, <2>4, <2>6, <3>2, ConcatEmptySeq
    <3> QED
      BY <3>3
  <2> QED
    BY <2>4, <2>5, <2>6
<1>3. S = Seq(Seq(C))
  <2>1. S \subseteq Seq(Seq(C)) OBVIOUS
  <2> HIDE DEF S
  <2> QED BY <1>1, <1>2, <2>1, SeqInduct
<1> QED
  BY <1>3

\* The first part of a kind, and all of a kind.
LEMMA PartsOfMeans ==
    ASSUME NEW m \in Messages, NEW kind
    PROVE  /\ (\A i \in DOMAIN m.parts : m.parts[i].kind # kind) => PartsOf(m, kind) = <<>>
           /\ \A k \in DOMAIN m.parts :
                 /\ m.parts[k].kind = kind
                 /\ \A i \in DOMAIN m.parts : i < k => m.parts[i].kind # kind
                 => PartsOf(m, kind) # <<>> /\ PartsOf(m, kind)[1] = m.parts[k]
           /\ \A part : part \in ToSet(PartsOf(m, kind)) <=>
                 \E i \in DOMAIN m.parts : m.parts[i] = part /\ part.kind = kind
<1> DEFINE pieces == [i \in DOMAIN m.parts |-> IF m.parts[i].kind = kind THEN <<m.parts[i]>> ELSE <<>>]
<1>1. m.parts \in Seq(Part)
  BY DEF Messages
<1>2. PICK n \in Nat : /\ DOMAIN m.parts = 1..n
                       /\ \A i \in 1..n : m.parts[i] \in Part
  BY <1>1, LenProperties, ElementOfSeq
<1>3. ASSUME NEW i \in 1..n PROVE pieces[i] \in Seq(Part)
  BY <1>2, EmptySeq
<1>4. PICK ss \in Seq(Seq(Part)) :
          /\ ss = pieces /\ Len(ss) = n
          /\ \A i \in 1..n : ss[i] = IF m.parts[i].kind = kind THEN <<m.parts[i]>> ELSE <<>>
  <2>1. pieces \in [1..n -> Seq(Part)]
    BY <1>2, <1>3
  <2>2. \A i \in 1..n : pieces[i] = IF m.parts[i].kind = kind THEN <<m.parts[i]>> ELSE <<>>
    BY <1>2
  <2> HIDE DEF pieces
  <2>3. pieces \in Seq(Seq(Part)) /\ Len(pieces) = n
    BY <2>1
  <2> QED
    BY <2>2, <2>3
<1>5. PICK list \in Seq(Part) : list = PartsOf(m, kind) /\ list = FlattenSeq(ss)
  <2>1. PartsOf(m, kind) = FlattenSeq(pieces)
    BY Zenon DEF PartsOf
  <2> QED
    BY <1>4, <2>1, FlattenType
<1> HIDE DEF pieces
<1>6. ASSUME \A i \in 1..n : m.parts[i].kind # kind PROVE list = <<>>
  BY <1>4, <1>5, <1>6, FlattenNone
<1>7. ASSUME NEW k \in 1..n, m.parts[k].kind = kind, \A i \in 1..n : i < k => m.parts[i].kind # kind
      PROVE  list # <<>> /\ list[1] = m.parts[k]
  <2>1. Leads(ss, k, m.parts[k]) /\ m.parts[k] \in Part
    BY <1>2, <1>4, <1>7 DEF Leads
  <2> QED
    BY <1>5, <2>1, FlattenLeads
<1>8. ASSUME NEW part PROVE part \in ToSet(list) <=> \E i \in 1..n : m.parts[i] = part /\ part.kind = kind
  <2>1. part \in ToSet(list) <=> \E j \in 1..Len(list) : list[j] = part
    <3>1. DOMAIN list = 1..Len(list)
      BY LenProperties
    <3> QED
      BY <3>1 DEF ToSet
  <2>2. part \in ToSet(list) <=> Holds(ss, part)
    BY <1>5, <2>1, FlattenHolds
  <2>3. ASSUME Holds(ss, part) PROVE \E i \in 1..n : m.parts[i] = part /\ part.kind = kind
    <3>1. PICK i \in 1..n : \E j \in 1..Len(ss[i]) : ss[i][j] = part
      BY <1>4, <2>3 DEF Holds
    <3>2. m.parts[i].kind = kind
      BY <1>4, <3>1, EmptySeq
    <3>3. ss[i] = <<m.parts[i]>>
      BY <1>4, <3>2
    <3>4. m.parts[i] = part
      BY <3>1, <3>3
    <3> QED
      BY <3>2, <3>4
  <2>4. ASSUME NEW i \in 1..n, m.parts[i] = part, part.kind = kind PROVE Holds(ss, part)
    <3>1. ss[i] = <<part>>
      BY <1>4, <2>4
    <3>2. Len(ss[i]) = 1 /\ ss[i][1] = part
      BY <3>1
    <3> QED
      BY <1>4, <3>2 DEF Holds
  <2> QED
    BY <2>2, <2>3, <2>4
<1> QED
  BY <1>2, <1>5, <1>6, <1>7, <1>8

\* Two sequences of one element.
LEMMA PairConcat == ASSUME NEW a, NEW b PROVE <<a>> \o <<b>> = <<a, b>>
<1> DEFINE C == {a, b}
<1>1. PICK p \in Seq(C), q \in Seq(C) : p = <<a>> /\ q = <<b>> /\ Len(p) = 1 /\ Len(q) = 1 /\ p[1] = a /\ q[1] = b
  <2>1. <<a>> \in Seq(C) /\ <<b>> \in Seq(C)
    OBVIOUS
  <2>2. Len(<<a>>) = 1 /\ Len(<<b>>) = 1 /\ <<a>>[1] = a /\ <<b>>[1] = b
    OBVIOUS
  <2> QED
    BY <2>1, <2>2, Zenon
<1>2. PICK r \in Seq(C) : r = <<a, b>> /\ Len(r) = 2 /\ r[1] = a /\ r[2] = b
  <2>1. <<a, b>> \in Seq(C)
    OBVIOUS
  <2>2. Len(<<a, b>>) = 2 /\ <<a, b>>[1] = a /\ <<a, b>>[2] = b
    OBVIOUS
  <2> QED
    BY <2>1, <2>2, Zenon
<1> HIDE DEF C
<1>3. PICK s \in Seq(C) : s = p \o q /\ Len(s) = Len(p) + Len(q)
  BY ConcatProperties
<1>4. (\A i \in 1..Len(p) : s[i] = p[i]) /\ (\A i \in 1..Len(q) : s[Len(p) + i] = q[i])
  BY <1>3, ConcatElements
<1>5. s[1] = a /\ s[2] = b /\ Len(s) = 2
  <2>1. 1 \in 1..Len(p) /\ 1 \in 1..Len(q) /\ Len(p) + 1 = 2
    BY <1>1
  <2> QED
    BY <1>1, <1>3, <1>4, <2>1
<1>6. \A i \in 1..Len(s) : s[i] = r[i]
  BY <1>2, <1>5
<1>7. s = r
  BY <1>2, <1>5, <1>6, SeqEqual
<1> QED
  BY <1>1, <1>2, <1>3, <1>7

\* The parts of a message of the gateway.
LEMMA ComposedParts ==
    ASSUME NEW content \in Content, NEW encoding
    PROVE  LET parts == Compose(content, encoding).parts
               Listed(file) == FilePart(file, file, file)
           IN  /\ 1 \in DOMAIN parts /\ parts[1] = Written("plain", content.body, encoding.plain)
               /\ content.html # None => 2 \in DOMAIN parts /\ parts[2] = Written("html", content.html, encoding.html)
               /\ content.html = None => \A i \in DOMAIN parts : parts[i].kind # "html"
               /\ \A i \in DOMAIN parts : parts[i].kind = "file" =>
                     \E file \in content.files : parts[i] = Listed(file)
               /\ \A file \in content.files : \E i \in DOMAIN parts : parts[i] = Listed(file)
<1> DEFINE parts == Compose(content, encoding).parts
           files == SetToSeq(content.files)
           listed == [i \in DOMAIN files |-> FilePart(files[i], files[i], files[i])]
<1>1. PICK plain, html :
          /\ plain = Written("plain", content.body, encoding.plain) /\ plain.kind = "plain"
          /\ html = Written("html", content.html, encoding.html) /\ html.kind = "html"
  <2>1. PICK plain, html : plain = Written("plain", content.body, encoding.plain) /\ html = Written("html", content.html, encoding.html)
    OBVIOUS
  <2>2. plain.kind = "plain" /\ html.kind = "html"
    BY <2>1 DEF Written, TextPart
  <2> QED
    BY <2>1, <2>2
<1>2. PICK k \in Nat : /\ DOMAIN listed = 1..k
                       /\ \A i \in 1..k : \E file \in content.files : listed[i] = FilePart(file, file, file)
                       /\ \A file \in content.files : \E i \in 1..k : listed[i] = FilePart(file, file, file)
                       /\ listed \in [1..k -> {FilePart(file, file, file) : file \in content.files}]
  <2>1. /\ files \in Seq(content.files)
        /\ \A file \in content.files : \E i \in DOMAIN files : files[i] = file
    BY FilesListed DEF Content
  <2> HIDE DEF files
  <2>2. PICK k \in Nat : DOMAIN files = 1..k /\ \A i \in 1..k : files[i] \in content.files
    BY <2>1, LenProperties, ElementOfSeq
  <2> QED
    BY <2>1, <2>2
<1>3. \A file \in content.files : FilePart(file, file, file).kind = "file"
  BY DEF FilePart
<1> DEFINE C == {plain, html} \cup {FilePart(file, file, file) : file \in content.files}
           texts == IF content.html = None THEN <<plain>> ELSE <<plain, html>>
<1>4. parts = texts \o listed
  <2>1. parts = <<plain>> \o (IF content.html = None THEN <<>> ELSE <<html>>) \o listed
    BY <1>1, Zenon DEF Compose
  <2>2. <<plain>> \o (IF content.html = None THEN <<>> ELSE <<html>>) = texts
    <3>1. CASE content.html = None
      <4>1. <<plain>> \in Seq({plain})
        OBVIOUS
      <4> QED
        BY <3>1, <4>1, ConcatEmptySeq
    <3>2. CASE content.html # None
      <4>1. <<plain>> \o <<html>> = <<plain, html>>
        BY PairConcat
      <4> QED
        BY <3>2, <4>1
    <3> QED
      BY <3>1, <3>2
  <2> HIDE DEF parts, listed, texts
  <2> QED
    BY <2>1, <2>2
<1> HIDE DEF parts, listed
<1>5. texts \in Seq(C) /\ listed \in Seq(C) /\ Len(listed) = k
  <2>1. plain \in C /\ html \in C
    OBVIOUS
  <2>2. listed \in [1..k -> C]
    BY <1>2
  <2> HIDE DEF C
  <2> QED
    BY <2>1, <2>2
<1>6. /\ DOMAIN parts = 1..(Len(texts) + k)
      /\ \A i \in 1..Len(texts) : parts[i] = texts[i]
      /\ \A i \in 1..k : parts[Len(texts) + i] = listed[i]
  BY <1>4, <1>5, ConcatElements
<1>7. PICK t \in {1, 2} :
          /\ t = Len(texts) /\ texts[1] = plain
          /\ content.html # None => t = 2 /\ texts[2] = html
          /\ content.html = None => t = 1
  OBVIOUS
<1> HIDE DEF texts, C
<1>8. \A i \in 1..(t + k) : i \in 1..t \/ \E j \in 1..k : i = t + j
  <2>1. ASSUME NEW i \in 1..(t + k), i > t PROVE i - t \in 1..k /\ i = t + (i - t)
    BY <2>1
  <2> QED
    BY <2>1
<1>9. 1 \in 1..(t + k) /\ 1 \in 1..t /\ (\A j \in 1..k : t + j \in 1..(t + k)) /\ (t = 2 => 2 \in 1..(t + k) /\ 2 \in 1..t)
  OBVIOUS
<1>10. \A i \in 1..t : parts[i].kind \in {"plain", "html"} /\ (content.html = None => parts[i].kind # "html")
  <2>1. \A i \in 1..t : i = 1 \/ (i = 2 /\ t = 2)
    OBVIOUS
  <2> QED
    BY <1>1, <1>6, <1>7, <2>1
<1>11. \A i \in 1..k : parts[t + i] = listed[i] /\ parts[t + i].kind = "file"
  BY <1>2, <1>3, <1>6, <1>7
<1>12. 1 \in DOMAIN parts /\ parts[1] = plain /\ (content.html # None => 2 \in DOMAIN parts /\ parts[2] = html)
  BY <1>6, <1>7, <1>9
<1>13. content.html = None => \A i \in DOMAIN parts : parts[i].kind # "html"
  <2>1. SUFFICES ASSUME content.html = None, NEW i \in DOMAIN parts PROVE parts[i].kind # "html"
    OBVIOUS
  <2>2. i \in 1..t \/ \E j \in 1..k : i = t + j
    BY <1>6, <1>7, <1>8
  <2>3. CASE i \in 1..t
    BY <1>10, <2>1, <2>3
  <2>4. CASE \E j \in 1..k : i = t + j
    BY <1>11, <2>4
  <2> QED
    BY <2>2, <2>3, <2>4
<1>14. \A i \in DOMAIN parts : parts[i].kind = "file" => \E file \in content.files : parts[i] = FilePart(file, file, file)
  BY <1>2, <1>6, <1>7, <1>8, <1>10, <1>11
<1>15. \A file \in content.files : \E i \in DOMAIN parts : parts[i] = FilePart(file, file, file)
  BY <1>2, <1>6, <1>7, <1>9, <1>11
<1> QED
  BY <1>1, <1>12, <1>13, <1>14, <1>15 DEF parts

-----------------------------------------------------------------------------
(* What is kept of a revision *)

\* A text of the gateway is cut to the length it had before its line breaks were
\* normalised.
LEMMA WrittenReadBack ==
    ASSUME NEW kind, NEW text \in Text, NEW encoding
    PROVE  \E data \in {Lines(text), Crlf(Lines(text))} :
              ReadBack(Written(kind, text, encoding)) = Cut(data, Size(text))
<1>0. PICK data \in {Lines(text), Crlf(Lines(text))} :
          \E part : part = Written(kind, text, encoding) /\ part.data = data /\ part.length = Size(text)
  <2>1. PICK part : part = Written(kind, text, encoding)
    OBVIOUS
  <2>2. /\ part.data = IF encoding = "base64" THEN Lines(text) ELSE Crlf(Lines(text))
        /\ part.length = Size(text)
    BY <2>1 DEF Written, TextPart
  <2> QED
    BY <2>1, <2>2
<1>1. PICK part : part = Written(kind, text, encoding) /\ part.data = data /\ part.length = Size(text)
  BY <1>0
<1>2. part.length # None
  <2>1. Size(text) \in Nat
    BY SizeType
  <2> QED
    BY <1>1, <2>1, ContentAssumption
<1>3. ReadBack(part) = Cut(part.data, part.length)
  BY <1>2, Zenon DEF ReadBack
<1> QED
  BY <1>1, <1>3

\* What is read back of a message nobody touched: the attachments and the HTML
\* alternative it has, and the texts up to one character per line break.
LEMMA SnapshotOfComposed ==
    ASSUME NEW content \in Content, NEW encoding
    PROVE  LET m == Compose(content, encoding)
               snapshot == Snapshot(m)
           IN  /\ snapshot.head = m.head
               /\ Shortened(content.body, snapshot.body)
               /\ content.html = None => snapshot.html = None
               /\ content.html # None => Shortened(content.html, snapshot.html)
               /\ snapshot.files = content.files
               /\ DOMAIN snapshot = {"head", "body", "html", "files"}
<1>1. PICK m \in Messages : m = Compose(content, encoding)
  <2>1. Compose(content, encoding) \in Messages
    BY ComposeIs DEF MessageOK, Messages
  <2> QED
    BY <2>1
<1>2. PICK snapshot : snapshot = Snapshot(m)
  OBVIOUS
<1>3. /\ snapshot.head = m.head
      /\ snapshot.body = IF PartsOf(m, "plain") = <<>> THEN <<>> ELSE ReadBack(PartsOf(m, "plain")[1])
      /\ snapshot.html = IF PartsOf(m, "html") = <<>> THEN None ELSE ReadBack(PartsOf(m, "html")[1])
      /\ snapshot.files = {part.id : part \in ToSet(PartsOf(m, "file"))} \ {None}
      /\ DOMAIN snapshot = {"head", "body", "html", "files"}
  BY <1>2 DEF Snapshot
<1>4. content.body \in Text /\ content.html \in Text \cup {None} /\ content.files \subseteq Files
  BY DEF Content
<1>5. /\ 1 \in DOMAIN m.parts /\ m.parts[1] = Written("plain", content.body, encoding.plain)
      /\ content.html # None => 2 \in DOMAIN m.parts /\ m.parts[2] = Written("html", content.html, encoding.html)
      /\ content.html = None => \A i \in DOMAIN m.parts : m.parts[i].kind # "html"
      /\ \A i \in DOMAIN m.parts : m.parts[i].kind = "file" =>
            \E file \in content.files : m.parts[i] = FilePart(file, file, file)
      /\ \A file \in content.files : \E i \in DOMAIN m.parts : m.parts[i] = FilePart(file, file, file)
  BY <1>1, ComposedParts
<1>6. \A text, form : Written("plain", text, form).kind = "plain" /\ Written("html", text, form).kind = "html"
  BY DEF Written, TextPart
<1>7. \A i \in DOMAIN m.parts : i \in Nat /\ 1 <= i
  <2>1. m.parts \in Seq(Part)
    BY DEF Messages
  <2> QED
    BY <2>1, LenProperties
<1>8. Shortened(content.body, snapshot.body)
  <2>1. m.parts[1].kind = "plain" /\ \A i \in DOMAIN m.parts : i < 1 => m.parts[i].kind # "plain"
    BY <1>5, <1>6, <1>7
  <2>2. PartsOf(m, "plain") # <<>> /\ PartsOf(m, "plain")[1] = m.parts[1]
    BY <1>5, <2>1, PartsOfMeans
  <2>3. snapshot.body = ReadBack(Written("plain", content.body, encoding.plain))
    BY <1>3, <1>5, <2>2
  <2> QED
    BY <1>4, <2>3, WrittenReadBack, CutIsShortened
<1>9. ASSUME content.html = None PROVE snapshot.html = None
  <2>1. PartsOf(m, "html") = <<>>
    BY <1>5, <1>9, PartsOfMeans
  <2> QED
    BY <1>3, <2>1
<1>10. ASSUME content.html # None PROVE Shortened(content.html, snapshot.html)
  <2>1. m.parts[2].kind = "html" /\ \A i \in DOMAIN m.parts : i < 2 => m.parts[i].kind # "html"
    <3>1. m.parts[1].kind = "plain" /\ m.parts[2].kind = "html"
      BY <1>5, <1>6, <1>10
    <3>2. \A i \in DOMAIN m.parts : i < 2 => i = 1
      BY <1>7
    <3> QED
      BY <3>1, <3>2
  <2>2. PartsOf(m, "html") # <<>> /\ PartsOf(m, "html")[1] = m.parts[2]
    BY <1>5, <1>10, <2>1, PartsOfMeans
  <2>3. snapshot.html = ReadBack(Written("html", content.html, encoding.html))
    BY <1>3, <1>5, <1>10, <2>2
  <2>4. content.html \in Text
    BY <1>4, <1>10
  <2> QED
    BY <2>3, <2>4, WrittenReadBack, CutIsShortened
<1>11. snapshot.files = content.files
  <2> DEFINE listed == ToSet(PartsOf(m, "file"))
  <2>1. \A part : part \in listed <=> \E i \in DOMAIN m.parts : m.parts[i] = part /\ part.kind = "file"
    BY PartsOfMeans
  <2>2. \A file : FilePart(file, file, file).kind = "file" /\ FilePart(file, file, file).id = file
    BY DEF FilePart
  <2> HIDE DEF listed
  <2>3. \A part \in listed : \E file \in content.files : part = FilePart(file, file, file)
    BY <1>5, <2>1
  <2>4. \A file \in content.files : FilePart(file, file, file) \in listed
    BY <1>5, <2>1, <2>2
  <2>5. {part.id : part \in listed} = content.files
    BY <2>2, <2>3, <2>4
  <2>6. None \notin content.files
    BY <1>4, ContentAssumption
  <2> QED
    BY <1>3, <2>5, <2>6 DEF listed
<1> QED
  BY <1>1, <1>2, <1>3, <1>8, <1>9, <1>10, <1>11

\* Fields a request does not name are carried from revision to revision; a text
\* loses no more than one character per line break, whatever its length, encoding
\* and line breaks.
THEOREM KeptFieldsAlwaysSurvive == ContentSpec => KeptFieldsSurvive
<1> DEFINE Kept == LET named == job.request
                       old == record.content
                       new == record'.content
                   IN  /\ named.head = Keep => new.head = old.head
                       /\ named.files = Keep => new.files = old.files
                       /\ named.body = Keep => Shortened(old.body, new.body)
                       /\ named.html = Keep => \/ old.html = None /\ new.html = None
                                               \/ old.html # None /\ Shortened(old.html, new.html)
<1>1. ASSUME ContentInv, [ContentNext]_vars
      PROVE  [edits' = edits /\ message' # message /\ ~touched => Kept]_vars
  <2>1. SUFFICES ASSUME ContentNext, edits' = edits, message' # message, ~touched PROVE Kept
    BY <1>1
  <2>2. ASSUME NEW encoding \in Encodings, Replace(encoding) PROVE Kept
    <3>1. InSync /\ job # NoJob /\ record' = [record EXCEPT !.content = job.next]
      BY <1>1, <2>1, <2>2, ReplacedStep
    <3>2. record.content \in Content /\ MessageOK(message) /\ record'.content = job.next
      BY <1>1, <3>1 DEF ContentInv, Records
    <3>3. job.next = Merge(Snapshot(message), job.request)
      BY <1>1, <2>1, <3>1 DEF ContentInv
    <3>4. PICK e \in Encodings : message = Compose(record.content, e)
      BY <1>1, <2>1 DEF ContentInv
    <3>5. message.head = record.content.head
      BY <3>1, <3>2, TrustedIsOurs DEF InSync
    <3>6. PICK snapshot, next, old :
              snapshot = Snapshot(message) /\ next = Merge(snapshot, job.request) /\ old = record.content
      OBVIOUS
    <3>7. /\ snapshot.head = old.head
          /\ Shortened(old.body, snapshot.body)
          /\ old.html = None => snapshot.html = None
          /\ old.html # None => Shortened(old.html, snapshot.html)
          /\ snapshot.files = old.files
          /\ DOMAIN snapshot = {"head", "body", "html", "files"}
      BY <3>2, <3>4, <3>5, <3>6, SnapshotOfComposed
    <3>8. /\ job.request.head = Keep => next.head = snapshot.head
          /\ job.request.body = Keep => next.body = snapshot.body
          /\ job.request.html = Keep => next.html = snapshot.html
          /\ job.request.files = Keep => next.files = snapshot.files
      BY <3>6, <3>7 DEF Merge
    <3>9. record'.content = next
      BY <3>2, <3>3, <3>6
    <3> QED
      BY <3>6, <3>7, <3>8, <3>9
  <2>3. ~OtherClient
    BY <1>1, <2>1, EditKeepsMessageOK DEF ContentInv
  <2>4. (\E request \in Requests : Inspect(request)) \/ Fail \/ Summarize => message' = message
    BY DEF Inspect, Fail, Summarize, Close
  <2> HIDE DEF Kept
  <2> QED
    BY <2>1, <2>2, <2>3, <2>4 DEF ContentNext
<1> QED
  BY ContentInvAlways, <1>1, PTL DEF ContentSpec, KeptFieldsSurvive
===============================================================================
