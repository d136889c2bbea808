--------------------------- MODULE SequenceLemmas ---------------------------
(***************************************************************************)
(* Sequences of sequences, and what FlattenSeq makes of them: unfolded at  *)
(* either end, element by element, and the beginnings of a flattened       *)
(* sequence.  The models put their wires, buffers and streams together     *)
(* with it.                                                                *)
(***************************************************************************)
EXTENDS SequencesExt, SequenceTheorems, WellFoundedInduction, TLAPS

\* Induction over the natural numbers, for a set: were a number missing, the
\* least one missing would follow one that is not.
LEMMA SetInduction ==
  ASSUME NEW S, 0 \in S, \A n \in Nat : n \in S => n + 1 \in S
  PROVE  \A n \in Nat : n \in S
<1> DEFINE Less == {p \in Nat \X Nat : p[1] < p[2]}
<1>1. OpToRel(<, Nat) = Less BY Zenon DEF OpToRel
<1> HIDE DEF Less
<1> SUFFICES ASSUME Nat \ S # {} PROVE FALSE
  OBVIOUS
<1>2. PICK m \in Nat \ S : \A n \in Nat \ S : ~ (<<n, m>> \in Less)
  BY NatLessThanWellFounded, WFMin, <1>1
<1>3. m # 0 /\ m - 1 \in Nat /\ m - 1 < m /\ (m - 1) + 1 = m BY <1>2
<1>4. <<m - 1, m>> \in Less BY <1>3 DEF Less
<1>5. m - 1 \in S BY <1>2, <1>3, <1>4, Zenon
<1> QED BY <1>2, <1>3, <1>5

\* f holds the concatenations of the first elements of s, as FlattenSeq has it.
Joins(f, s, n) == f = [i \in 1 .. n |-> IF i = 1 THEN s[i] ELSE f[i - 1] \o s[i]]

\* Such a function exists, of any length.
LEMMA JoinsExist ==
  ASSUME NEW s, NEW n \in Nat
  PROVE  \E f : Joins(f, s, n)
<1> DEFINE S == {m \in Nat : \E f : Joins(f, s, m)}
<1>1. 0 \in S
  <2>1. Joins([i \in 1 .. 0 |-> 0], s, 0) BY DEF Joins
  <2> QED BY <2>1
<1>2. ASSUME NEW m \in Nat, m \in S PROVE m + 1 \in S
  <2>1. PICK f : Joins(f, s, m) BY <1>2
  <2> DEFINE g == [i \in 1 .. m + 1 |->
                    IF i <= m THEN f[i] ELSE IF i = 1 THEN s[i] ELSE f[i - 1] \o s[i]]
  <2>2. \A i \in 1 .. m : f[i] = IF i = 1 THEN s[i] ELSE f[i - 1] \o s[i]
    BY <2>1 DEF Joins
  <2>3. \A i \in 1 .. m : g[i] = f[i] OBVIOUS
  <2>4. \A i \in 1 .. m + 1 : g[i] = IF i = 1 THEN s[i] ELSE g[i - 1] \o s[i]
    <3> SUFFICES ASSUME NEW i \in 1 .. m + 1
                 PROVE  g[i] = IF i = 1 THEN s[i] ELSE g[i - 1] \o s[i]
      OBVIOUS
    <3>1. i # 1 => i - 1 \in 1 .. m /\ g[i - 1] = f[i - 1] BY <2>3
    <3>2. CASE i <= m BY <2>2, <2>3, <3>1, <3>2
    <3>3. CASE i = m + 1 BY <3>1, <3>3
    <3> QED BY <3>2, <3>3
  <2>5. Joins(g, s, m + 1) BY <2>4 DEF Joins
  <2> QED BY <2>5
<1> HIDE DEF S
<1>3. n \in S BY <1>1, <1>2, SetInduction
<1> QED BY <1>3 DEF S

\* Flattening unfolded.
LEMMA FlattenJoins ==
  ASSUME NEW s, Len(s) \in Nat \ {0}
  PROVE  \E f : Joins(f, s, Len(s)) /\ FlattenSeq(s) = f[Len(s)]
<1> DEFINE g == CHOOSE f : f = [i \in 1 .. Len(s) |-> IF i = 1 THEN s[i] ELSE f[i - 1] \o s[i]]
<1>1. FlattenSeq(s) = g[Len(s)]
  BY DEF FlattenSeq
<1>2. \E f : f = [i \in 1 .. Len(s) |-> IF i = 1 THEN s[i] ELSE f[i - 1] \o s[i]]
  BY JoinsExist DEF Joins
<1>3. Joins(g, s, Len(s)) BY <1>2 DEF Joins
<1> QED BY <1>1, <1>3

\* Two sequences with the same first n elements have the same concatenations
\* up to n, and these are sequences.
LEMMA JoinsAgree ==
  ASSUME NEW S, NEW s, NEW t, NEW n \in Nat, NEW p \in Nat, n <= p,
         NEW f, NEW g, Joins(f, s, n), Joins(g, t, p),
         \A i \in 1 .. n : s[i] = t[i] /\ s[i] \in Seq(S)
  PROVE  \A i \in 1 .. n : f[i] = g[i] /\ f[i] \in Seq(S)
<1> DEFINE P == {m \in Nat : m \in 1 .. n => f[m] = g[m] /\ f[m] \in Seq(S)}
<1>1. 0 \in P OBVIOUS
<1>2. ASSUME NEW m \in Nat, m \in P PROVE m + 1 \in P
  <2> SUFFICES ASSUME m + 1 \in 1 .. n
               PROVE  f[m + 1] = g[m + 1] /\ f[m + 1] \in Seq(S)
    OBVIOUS
  <2>1. /\ f[m + 1] = IF m = 0 THEN s[m + 1] ELSE f[m] \o s[m + 1]
        /\ g[m + 1] = IF m = 0 THEN t[m + 1] ELSE g[m] \o t[m + 1]
    <3>1. m + 1 \in 1 .. n /\ m + 1 \in 1 .. p /\ (m + 1 = 1 <=> m = 0) /\ (m + 1) - 1 = m
      OBVIOUS
    <3>2. Joins(f, s, n) /\ Joins(g, t, p) OBVIOUS
    <3>3. f[m + 1] = IF m + 1 = 1 THEN s[m + 1] ELSE f[(m + 1) - 1] \o s[m + 1]
      BY <3>1, <3>2 DEF Joins
    <3>4. g[m + 1] = IF m + 1 = 1 THEN t[m + 1] ELSE g[(m + 1) - 1] \o t[m + 1]
      BY <3>1, <3>2 DEF Joins
    <3> QED BY <3>1, <3>3, <3>4
  <2>2. s[m + 1] = t[m + 1] /\ s[m + 1] \in Seq(S) OBVIOUS
  <2>3. m # 0 => f[m] = g[m] /\ f[m] \in Seq(S) BY <1>2
  <2> QED BY <2>1, <2>2, <2>3, ConcatProperties
<1> HIDE DEF P
<1>3. \A m \in Nat : m \in P BY <1>1, <1>2, SetInduction
<1> QED BY <1>3 DEF P

\* One item more.
LEMMA FlattenAppend ==
  ASSUME NEW S, NEW s \in Seq(Seq(S)), NEW x \in Seq(S)
  PROVE  /\ FlattenSeq(s) \in Seq(S)
         /\ FlattenSeq(Append(s, x)) = FlattenSeq(s) \o x
<1> DEFINE t == Append(s, x)
           n == Len(s)
<1>1. /\ n \in Nat /\ Len(t) = n + 1 /\ t[n + 1] = x
      /\ \A i \in 1 .. n : s[i] = t[i] /\ s[i] \in Seq(S)
  BY AppendProperties, LenProperties, ElementOfSeq
<1> HIDE DEF t
<1>2. PICK g : Joins(g, t, n + 1) /\ FlattenSeq(t) = g[n + 1]
  <2>1. n + 1 \in Nat \ {0} BY <1>1
  <2> QED BY <1>1, <2>1, FlattenJoins, SMTT(30)
<1>3. g[n + 1] = IF n = 0 THEN t[n + 1] ELSE g[n] \o t[n + 1]
  <2>1. n + 1 \in 1 .. n + 1 /\ (n + 1 = 1 <=> n = 0) /\ (n + 1) - 1 = n BY <1>1
  <2> QED BY <1>2, <2>1 DEF Joins
<1>4. CASE n = 0
  <2>1. s = <<>> BY <1>4, EmptySeq
  <2>2. FlattenSeq(s) = <<>> BY <2>1 DEF FlattenSeq
  <2>3. FlattenSeq(t) = x BY <1>1, <1>2, <1>3, <1>4
  <2> QED BY <2>2, <2>3, ConcatEmptySeq, EmptySeq DEF t
<1>5. CASE n # 0
  <2>1. PICK f : Joins(f, s, n) /\ FlattenSeq(s) = f[n]
    BY <1>1, <1>5, FlattenJoins
  <2>2. \A i \in 1 .. n : f[i] = g[i] /\ f[i] \in Seq(S)
    <3>1. PICK p : p = n + 1 OBVIOUS
    <3>2. p \in Nat /\ n \in Nat /\ n <= p /\ Joins(g, t, p) /\ Joins(f, s, n)
      BY <1>1, <1>2, <2>1, <3>1
    <3>3. \A i \in 1 .. n : s[i] = t[i] /\ s[i] \in Seq(S) BY <1>1
    <3> HIDE DEF n
    <3> QED BY <3>2, <3>3, JoinsAgree
  <2>3. f[n] = g[n] /\ f[n] \in Seq(S) BY <1>1, <1>5, <2>2
  <2>4. FlattenSeq(t) = FlattenSeq(s) \o x BY <1>1, <1>2, <1>3, <1>5, <2>1, <2>3
  <2> QED BY <2>1, <2>3, <2>4 DEF t
<1> QED BY <1>4, <1>5

\* Appending to the end of a concatenation.
LEMMA ConcatAppend ==
  ASSUME NEW S, NEW s \in Seq(S), NEW t \in Seq(S), NEW x \in S
  PROVE  s \o Append(t, x) = Append(s \o t, x)
<1>1. <<x>> \in Seq(S) OBVIOUS
<1>2. Append(t, x) = t \o <<x>> BY AppendIsConcat
<1>3. PICK r \in Seq(S) : r = s \o t BY ConcatProperties
<1>4. Append(r, x) = r \o <<x>> BY AppendIsConcat
<1>5. PICK u \in Seq(S) : u = <<x>> BY <1>1
<1>6. (s \o t) \o u = s \o (t \o u) BY ConcatAssociative
<1> QED BY <1>2, <1>3, <1>4, <1>5, <1>6

\* A piece a moved from one side of a concatenation to the other.
Regrouped(s, c, a, b, f) ==
    (s \o c) \o ((a \o b) \o f) = (s \o (c \o a)) \o (b \o f)

\* It is the same sequence.
LEMMA Regroup ==
  ASSUME NEW S, NEW s \in Seq(S), NEW c \in Seq(S), NEW a \in Seq(S),
         NEW b \in Seq(S), NEW f \in Seq(S)
  PROVE  Regrouped(s, c, a, b, f)
BY ConcatAssociative, ConcatProperties, SMTT(60) DEF Regrouped

\* Flattening from the front.
LEMMA FlattenCons ==
  ASSUME NEW S, NEW x \in Seq(S), NEW t \in Seq(Seq(S))
  PROVE  FlattenSeq(<<x>> \o t) = x \o FlattenSeq(t)
<1> DEFINE P == {n \in Nat : \A u \in Seq(Seq(S)) :
                     Len(u) = n => FlattenSeq(<<x>> \o u) = x \o FlattenSeq(u)}
<1>e. <<>> \in Seq(Seq(S)) /\ FlattenSeq(<<>>) = <<>>
      /\ x \o <<>> = x /\ <<>> \o x = x
  BY EmptySeq, ConcatEmptySeq DEF FlattenSeq
<1>x. <<x>> \in Seq(Seq(S)) /\ Append(<<>>, x) = <<x>> OBVIOUS
<1>1. 0 \in P
  <2> SUFFICES ASSUME NEW u \in Seq(Seq(S)), Len(u) = 0
               PROVE  FlattenSeq(<<x>> \o u) = x \o FlattenSeq(u)
    OBVIOUS
  <2>1. u = <<>> BY EmptySeq
  <2>2. <<x>> \o u = <<x>> BY <1>x, <2>1, ConcatEmptySeq
  <2>3. FlattenSeq(Append(<<>>, x)) = FlattenSeq(<<>>) \o x BY <1>e, FlattenAppend
  <2> QED BY <1>e, <1>x, <2>1, <2>2, <2>3
<1>2. ASSUME NEW n \in Nat, n \in P PROVE n + 1 \in P
  <2>0. PICK m \in Nat : m = n + 1 OBVIOUS
  <2> SUFFICES ASSUME NEW u \in Seq(Seq(S)), Len(u) = m
               PROVE  FlattenSeq(<<x>> \o u) = x \o FlattenSeq(u)
    BY <2>0
  <2>1. PICK v \in Seq(Seq(S)), y \in Seq(S) : u = Append(v, y)
    <3>1. u # <<>> BY <2>0, EmptySeq
    <3> QED BY <3>1, SequenceEmptyOrAppend
  <2>2. Len(v) = n BY <2>0, <2>1, AppendProperties, LenProperties
  <2>3. FlattenSeq(<<x>> \o v) = x \o FlattenSeq(v) BY <1>2, <2>2
  <2>4. PICK w \in Seq(Seq(S)) : w = <<x>> \o v BY <1>x, ConcatProperties
  <2>5. <<x>> \o u = Append(w, y)
    <3>1. PICK z \in Seq(Seq(S)) : z = <<x>> BY <1>x
    <3>2. z \o Append(v, y) = Append(z \o v, y) BY ConcatAppend, SMTT(30)
    <3> QED BY <2>1, <2>4, <3>1, <3>2
  <2>6. FlattenSeq(Append(w, y)) = FlattenSeq(w) \o y BY FlattenAppend
  <2>7. FlattenSeq(u) = FlattenSeq(v) \o y /\ FlattenSeq(v) \in Seq(S) BY <2>1, FlattenAppend
  <2>8. (x \o FlattenSeq(v)) \o y = x \o (FlattenSeq(v) \o y)
    <3>1. PICK z \in Seq(S) : z = FlattenSeq(v) BY <2>7
    <3>2. (x \o z) \o y = x \o (z \o y) BY ConcatAssociative, SMTT(30)
    <3> QED BY <3>1, <3>2
  <2> QED BY <2>3, <2>4, <2>5, <2>6, <2>7, <2>8
<1> HIDE DEF P
<1>3. \A n \in Nat : n \in P BY <1>1, <1>2, SetInduction
<1>4. Len(t) \in P BY <1>3, LenProperties
<1> QED BY <1>4 DEF P

\* What the first k pieces of p come to.
Upto(p, k) == FlattenSeq(SubSeq(p, 1, k))

\* One piece after another.
LEMMA UptoStep ==
  ASSUME NEW S, NEW p \in Seq(Seq(S)), NEW k \in 1 .. Len(p)
  PROVE  /\ Upto(p, k - 1) \in Seq(S) /\ Upto(p, k) \in Seq(S)
         /\ Upto(p, k) = Upto(p, k - 1) \o p[k]
<1>1. Len(p) \in Nat /\ p[k] \in Seq(S) /\ k \in Int /\ k \in Nat
  BY LenProperties, ElementOfSeq
<1>2. PICK i \in Nat : i = k - 1 BY <1>1
<1>3. SubSeq(p, 1, i) \in Seq(Seq(S))
  <2>1. \A n \in 1 .. i : p[n] \in Seq(S) BY <1>1, <1>2, ElementOfSeq
  <2> QED BY <2>1, <1>2, SubSeqProperties
<1>4. SubSeq(p, 1, k) = Append(SubSeq(p, 1, i), p[k])
  <2>1. 1 \in 1 .. Len(p) /\ k \in 1 .. Len(p) BY <1>1
  <2>2. SubSeq(p, 1, k) = SubSeq(p, 1, k - 1) \o <<p[k]>>
    BY <2>1, SubSeqRecursiveSecond
  <2>3. Append(SubSeq(p, 1, i), p[k]) = SubSeq(p, 1, i) \o <<p[k]>>
    BY <1>1, <1>3, AppendIsConcat
  <2> QED BY <1>2, <2>2, <2>3
<1>5. PICK s \in Seq(Seq(S)) : s = SubSeq(p, 1, i) BY <1>3
<1>6. /\ FlattenSeq(s) \in Seq(S)
      /\ FlattenSeq(Append(s, p[k])) = FlattenSeq(s) \o p[k]
  BY <1>1, <1>5, FlattenAppend
<1>7. FlattenSeq(s) \o p[k] \in Seq(S) BY <1>1, <1>6, ConcatProperties
<1> QED BY <1>2, <1>4, <1>5, <1>6, <1>7 DEF Upto

\* None of them, and all.
LEMMA UptoEnds ==
  ASSUME NEW S, NEW p \in Seq(Seq(S))
  PROVE  Upto(p, 0) = <<>> /\ Upto(p, Len(p)) = FlattenSeq(p)
<1>1. SubSeq(p, 1, 0) = <<>> BY SubSeqEmpty
<1>2. SubSeq(p, 1, Len(p)) = p BY SubSeqFull
<1>3. FlattenSeq(<<>>) = <<>> BY EmptySeq DEF FlattenSeq
<1> QED BY <1>1, <1>2, <1>3 DEF Upto

\* Beginnings: s comes first in t.
Begins(S, s, t) == \E r \in Seq(S) : s \o r = t

\* Every sequence begins itself and, with the empty one, every other.
LEMMA BeginsSelf ==
  ASSUME NEW S, NEW s \in Seq(S)
  PROVE  Begins(S, s, s) /\ Begins(S, <<>>, s)
<1>1. <<>> \in Seq(S) /\ s \o <<>> = s /\ <<>> \o s = s BY EmptySeq, ConcatEmptySeq
<1> QED BY <1>1 DEF Begins

\* A part of a beginning is a beginning.
LEMMA BeginsPart ==
  ASSUME NEW S, NEW a \in Seq(S), NEW b \in Seq(S), NEW t, Begins(S, a \o b, t)
  PROVE  Begins(S, a, t)
<1>1. PICK r \in Seq(S) : (a \o b) \o r = t BY DEF Begins
<1>2. (a \o b) \o r = a \o (b \o r) BY ConcatAssociative
<1>3. b \o r \in Seq(S) BY ConcatProperties
<1> QED BY <1>1, <1>2, <1>3 DEF Begins

\* The first two of three.
LEMMA BeginsFirst ==
  ASSUME NEW S, NEW a \in Seq(S), NEW o \in Seq(S), NEW r \in Seq(S), NEW t,
         Begins(S, a \o (o \o r), t)
  PROVE  Begins(S, a \o o, t)
<1>1. a \o (o \o r) = (a \o o) \o r BY ConcatAssociative, ConcatProperties, SMTT(60)
<1>2. a \o o \in Seq(S) BY ConcatProperties
<1>3. Begins(S, (a \o o) \o r, t) BY <1>1
<1> QED BY <1>2, <1>3, BeginsPart

\* The first two of three, with a part of the third.
LEMMA BeginsWithin ==
  ASSUME NEW S, NEW a \in Seq(S), NEW o \in Seq(S), NEW b \in Seq(S), NEW r \in Seq(S), NEW t,
         Begins(S, a \o (o \o (b \o r)), t)
  PROVE  Begins(S, a \o (o \o b), t)
<1>1. PICK c \in Seq(S) : c = o \o b BY ConcatProperties
<1>2. o \o (b \o r) = c \o r BY <1>1, ConcatAssociative
<1>3. a \o (c \o r) = (a \o c) \o r BY <1>1, ConcatAssociative, ConcatProperties, SMTT(60)
<1>4. a \o c \in Seq(S) BY <1>1, ConcatProperties
<1>5. Begins(S, (a \o c) \o r, t) BY <1>2, <1>3
<1>6. Begins(S, a \o c, t) BY <1>1, <1>4, <1>5, BeginsPart
<1> QED BY <1>1, <1>6

\* Every number of pieces begins the whole.
LEMMA UptoBegins ==
  ASSUME NEW S, NEW p \in Seq(Seq(S)), NEW k \in 0 .. Len(p)
  PROVE  Upto(p, k) \in Seq(S) /\ Begins(S, Upto(p, k), FlattenSeq(p))
<1>0. Len(p) \in Nat BY LenProperties
<1>1. \A i \in 0 .. Len(p) : Upto(p, i) \in Seq(S)
  <2> SUFFICES ASSUME NEW i \in 0 .. Len(p) PROVE Upto(p, i) \in Seq(S)
    OBVIOUS
  <2>1. CASE i = 0
    <3>1. Upto(p, 0) = <<>> BY UptoEnds
    <3>2. <<>> \in Seq(S) OBVIOUS
    <3> QED BY <2>1, <3>1, <3>2
  <2>2. CASE i # 0
    <3>1. i \in 1 .. Len(p) BY <2>2, <1>0
    <3> QED BY <3>1, UptoStep
  <2> QED BY <2>1, <2>2
<1> DEFINE P == {n \in Nat : n <= Len(p) => Begins(S, Upto(p, Len(p) - n), FlattenSeq(p))}
<1>2. 0 \in P
  <2>1. Len(p) \in 0 .. Len(p) /\ Len(p) - 0 = Len(p) BY <1>0
  <2>2. Begins(S, Upto(p, Len(p)), Upto(p, Len(p))) BY <1>1, <2>1, BeginsSelf
  <2> QED BY <2>1, <2>2, UptoEnds
<1>3. ASSUME NEW n \in Nat, n \in P PROVE n + 1 \in P
  <2> SUFFICES ASSUME n + 1 <= Len(p)
               PROVE  Begins(S, Upto(p, Len(p) - (n + 1)), FlattenSeq(p))
    OBVIOUS
  <2>0. Len(p) - n \in Nat BY <1>0
  <2>1. PICK i \in Nat : i = Len(p) - n BY <2>0
  <2>2. i \in 1 .. Len(p) /\ i - 1 = Len(p) - (n + 1) /\ n <= Len(p) BY <1>0, <2>1
  <2>3. Begins(S, Upto(p, i), FlattenSeq(p)) BY <1>3, <2>1, <2>2
  <2>4. PICK a \in Seq(S) : a = Upto(p, i - 1) BY <2>2, UptoStep
  <2>5. PICK b \in Seq(S) : b = p[i] BY <2>2, ElementOfSeq
  <2>6. Upto(p, i) = a \o b BY <2>2, <2>4, <2>5, UptoStep
  <2>7. Begins(S, a, FlattenSeq(p)) BY <2>3, <2>4, <2>5, <2>6, BeginsPart
  <2> QED BY <2>2, <2>4, <2>7
<1> HIDE DEF P
<1>4. \A n \in Nat : n \in P BY <1>2, <1>3, SetInduction
<1>5. PICK n \in Nat : n = Len(p) - k
  <2>1. Len(p) - k \in Nat BY <1>0
  <2> QED BY <2>1
<1>6. n \in P /\ n <= Len(p) /\ Len(p) - n = k BY <1>0, <1>4, <1>5
<1> QED BY <1>1, <1>6 DEF P

\* A beginning is a prefix.
LEMMA BeginsIsPrefix ==
  ASSUME NEW S, NEW s \in Seq(S), NEW t \in Seq(S), Begins(S, s, t)
  PROVE  IsPrefix(s, t)
<1>1. PICK r \in Seq(S) : s \o r = t BY DEF Begins
<1>2. Len(s) \in Nat /\ Len(r) \in Nat /\ Len(t) = Len(s) + Len(r)
      /\ \A i \in 1 .. Len(s) : t[i] = s[i]
  BY <1>1, LenProperties, ConcatProperties
<1>3. Len(s) <= Len(t) BY <1>2
<1>4. PICK n \in Nat : n = Len(s) BY <1>2
<1>5. \A i \in 1 .. n : s[i] \in S /\ t[i] \in S BY <1>2, <1>4, ElementOfSeq
<1>6. /\ SubSeq(s, 1, n) \in Seq(S) /\ Len(SubSeq(s, 1, n)) = n
      /\ \A i \in 1 .. n : SubSeq(s, 1, n)[i] = s[i]
  <2>1. /\ SubSeq(s, 1, n) \in Seq(S)
        /\ Len(SubSeq(s, 1, n)) = IF 1 <= n THEN n - 1 + 1 ELSE 0
        /\ \A i \in 1 .. n - 1 + 1 : SubSeq(s, 1, n)[i] = s[1 + i - 1]
    BY <1>4, <1>5, SubSeqProperties
  <2> QED BY <1>4, <2>1
<1>7. /\ SubSeq(t, 1, n) \in Seq(S) /\ Len(SubSeq(t, 1, n)) = n
      /\ \A i \in 1 .. n : SubSeq(t, 1, n)[i] = t[i]
  <2>1. /\ SubSeq(t, 1, n) \in Seq(S)
        /\ Len(SubSeq(t, 1, n)) = IF 1 <= n THEN n - 1 + 1 ELSE 0
        /\ \A i \in 1 .. n - 1 + 1 : SubSeq(t, 1, n)[i] = t[1 + i - 1]
    BY <1>4, <1>5, SubSeqProperties
  <2> QED BY <1>4, <2>1
<1>8. SubSeq(s, 1, n) = SubSeq(t, 1, n)
  <2>1. \A i \in 1 .. Len(SubSeq(s, 1, n)) : SubSeq(s, 1, n)[i] = SubSeq(t, 1, n)[i]
    BY <1>2, <1>4, <1>6, <1>7
  <2> QED BY <1>6, <1>7, <2>1, SeqEqual
<1> QED BY <1>3, <1>4, <1>8 DEF IsPrefix

\* Front and Last undo Append.
LEMMA FrontLast ==
  ASSUME NEW S, NEW s \in Seq(S), NEW e \in S
  PROVE  Front(Append(s, e)) = s /\ Last(Append(s, e)) = e
<1>1. PICK t \in Seq(S) : t = Append(s, e) BY AppendProperties
<1>2. PICK n \in Nat : n = Len(s) BY LenProperties
<1>3. Len(t) = n + 1 /\ t[n + 1] = e /\ \A i \in 1 .. n : t[i] = s[i]
  BY <1>1, <1>2, AppendProperties
<1>4. Last(t) = e BY <1>3 DEF Last
<1>5. Front(t) = SubSeq(t, 1, n)
  <2>1. Len(t) - 1 = n BY <1>3
  <2> QED BY <2>1 DEF Front
<1>6. \A i \in 1 .. n : t[i] \in S BY <1>2, <1>3, ElementOfSeq
<1>7. /\ SubSeq(t, 1, n) \in Seq(S) /\ Len(SubSeq(t, 1, n)) = n
      /\ \A i \in 1 .. n : SubSeq(t, 1, n)[i] = t[i]
  <2>1. /\ SubSeq(t, 1, n) \in Seq(S)
        /\ Len(SubSeq(t, 1, n)) = IF 1 <= n THEN n - 1 + 1 ELSE 0
        /\ \A i \in 1 .. n - 1 + 1 : SubSeq(t, 1, n)[i] = t[1 + i - 1]
    BY <1>2, <1>6, SubSeqProperties
  <2> QED BY <1>2, <2>1
<1>8. SubSeq(t, 1, n) = s
  <2>1. \A i \in 1 .. Len(SubSeq(t, 1, n)) : SubSeq(t, 1, n)[i] = s[i] BY <1>3, <1>7
  <2> QED BY <1>2, <1>7, <2>1, SeqEqual
<1> QED BY <1>1, <1>4, <1>5, <1>8
=============================================================================
