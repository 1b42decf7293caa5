--------------------------- MODULE JobRunnerProofs ---------------------------
(***************************************************************************)
(* Proofs that no output of a script is lost, for any texts, any sizes of   *)
(* the pipes and any way in which the text is cut into writes and reads.    *)
(*                                                                          *)
(* What the lines of output.txt stand for is a recursive function of the    *)
(* lines.  The first lemmas find what it does to one line more, by the      *)
(* least number for which it would not: such functions exist, agree where   *)
(* their arguments do, and so Unlines(Append(ls, l)) is Unlines(ls) with l  *)
(* and a newline behind it.  Then every step moves characters from one part *)
(* of a text to the next and leaves the whole as it was.                    *)
(***************************************************************************)
EXTENDS JobRunner, SequenceTheorems, WellFoundedInduction, TLAPS

Letters == Chars \cup {NL}

-----------------------------------------------------------------------------
(* Lines and the text they stand for.                                      *)

\* A set of numbers has a least one.
LEMMA Least == \A T \in SUBSET Nat : T # {} => \E m \in T : \A k \in Nat : k < m => k \notin T
<1>1. \A T \in SUBSET Nat : T # {} => \E m \in T : \A k \in T : <<k, m>> \notin OpToRel(<, Nat)
  BY NatLessThanWellFounded, WFMin
<1>2. \A k, m \in Nat : k < m => <<k, m>> \in OpToRel(<, Nat)
  BY DEF OpToRel
<1> QED BY <1>1, <1>2

\* f flattens the first n of the sequences ss.
Flat(f, n, ss) ==
    f = [i \in 1 .. n |-> IF i = 1 THEN ss[i] ELSE f[i - 1] \o ss[i]]

LEMMA FlatValue ==
    ASSUME NEW f, NEW n \in Nat, NEW ss, Flat(f, n, ss), NEW i \in 1 .. n
    PROVE  f[i] = IF i = 1 THEN ss[i] ELSE f[i - 1] \o ss[i]
  BY DEF Flat

LEMMA FlatExists ==
    ASSUME NEW ss PROVE \A n \in Nat : \E f : Flat(f, n, ss)
<1> DEFINE Bad == {n \in Nat : ~ \E f : Flat(f, n, ss)}
<1> SUFFICES ASSUME Bad # {} PROVE FALSE
  OBVIOUS
<1>1. PICK m \in Bad : \A k \in Nat : k < m => k \notin Bad
  <2>1. Bad \in SUBSET Nat OBVIOUS
  <2> HIDE DEF Bad
  <2> QED BY <2>1, Least
<1>2. m \in Nat /\ ~ \E f : Flat(f, m, ss)
  OBVIOUS
<1>3. CASE m = 0
  <2> DEFINE g == [i \in 1 .. 0 |-> ss[i]]
  <2>1. Flat(g, 0, ss) BY DEF Flat
  <2> QED BY <1>2, <1>3, <2>1
<1>4. CASE m # 0
  <2>1. m - 1 \in Nat /\ m - 1 < m BY <1>2, <1>4
  <2>2. m - 1 \notin Bad
    <3> HIDE DEF Bad
    <3> QED BY <1>1, <2>1
  <2>3. PICK f : Flat(f, m - 1, ss) BY <2>1, <2>2
  <2> DEFINE g == [i \in 1 .. m |-> IF i = 1 THEN ss[i] ELSE f[i - 1] \o ss[i]]
  <2>4. \A j \in 1 .. m - 1 : g[j] = f[j]
    BY <1>2, <2>1, <2>3, FlatValue
  <2>5. \A i \in 1 .. m : i # 1 => g[i - 1] = f[i - 1]
    <3> HIDE DEF g
    <3> QED BY <1>2, <2>4
  <2>6. g = [i \in 1 .. m |-> IF i = 1 THEN ss[i] ELSE g[i - 1] \o ss[i]]
    <3>1. \A i \in 1 .. m : (IF i = 1 THEN ss[i] ELSE f[i - 1] \o ss[i])
                          = (IF i = 1 THEN ss[i] ELSE g[i - 1] \o ss[i])
      <4> HIDE DEF g
      <4> QED BY <2>5
    <3>2. g = [i \in 1 .. m |-> IF i = 1 THEN ss[i] ELSE f[i - 1] \o ss[i]]
      OBVIOUS
    <3> HIDE DEF g
    <3> QED BY <3>1, <3>2
  <2> HIDE DEF g
  <2> QED BY <1>2, <2>6 DEF Flat
<1> QED BY <1>3, <1>4

\* What is flattened does not depend on what comes after it.
LEMMA FlatSame ==
    ASSUME NEW f, NEW n \in Nat, NEW ss, Flat(f, n, ss),
           NEW g, NEW m \in Nat, NEW ts, Flat(g, m, ts),
           NEW k \in 1 .. n, k <= m, \A i \in 1 .. k : ss[i] = ts[i]
    PROVE  f[k] = g[k]
<1> DEFINE Bad == {i \in 1 .. k : f[i] # g[i]}
<1> SUFFICES ASSUME Bad # {} PROVE FALSE
  OBVIOUS
<1>1. PICK j \in Bad : \A i \in Nat : i < j => i \notin Bad
  <2>1. Bad \in SUBSET Nat OBVIOUS
  <2> HIDE DEF Bad
  <2> QED BY <2>1, Least
<1>2. j \in 1 .. k /\ f[j] # g[j] /\ j \in 1 .. n /\ j \in 1 .. m
  OBVIOUS
<1>3. f[j] = (IF j = 1 THEN ss[j] ELSE f[j - 1] \o ss[j])
  BY <1>2, FlatValue
<1>4. g[j] = (IF j = 1 THEN ts[j] ELSE g[j - 1] \o ts[j])
  BY <1>2, FlatValue
<1>5. j # 1 => f[j - 1] = g[j - 1]
  <2> SUFFICES ASSUME j # 1 PROVE f[j - 1] = g[j - 1]
    OBVIOUS
  <2>1. j - 1 \in 1 .. k /\ j - 1 < j /\ j - 1 \in Nat BY <1>2
  <2>2. j - 1 \notin Bad
    <3> HIDE DEF Bad
    <3> QED BY <1>1, <2>1
  <2> QED BY <2>1, <2>2
<1> QED BY <1>2, <1>3, <1>4, <1>5

LEMMA FlattenIs ==
    ASSUME NEW ss, Len(ss) \in Nat \ {0}
    PROVE  \E f : Flat(f, Len(ss), ss) /\ FlattenSeq(ss) = f[Len(ss)]
<1>1. FlattenSeq(ss) = (CHOOSE f : Flat(f, Len(ss), ss))[Len(ss)]
  BY DEF FlattenSeq, Flat
<1> QED BY <1>1, FlatExists

LEMMA FlattenAppend ==
    ASSUME NEW S, NEW ss \in Seq(Seq(S)), NEW x \in Seq(S)
    PROVE  FlattenSeq(Append(ss, x)) = FlattenSeq(ss) \o x
<1> DEFINE ts == Append(ss, x)
           n == Len(ss)
<1>1. /\ n \in Nat /\ Len(ts) = n + 1 /\ \A i \in 1 .. n : ts[i] = ss[i]
      /\ ts[n + 1] = x
  BY AppendProperties, LenProperties
<1> HIDE DEF ts
<1>2. PICK f : Flat(f, n + 1, ts) /\ FlattenSeq(ts) = f[n + 1]
  BY <1>1, FlattenIs
<1>3. f[n + 1] = IF n = 0 THEN x ELSE f[n] \o x
  BY <1>1, <1>2, FlatValue
<1>4. CASE n = 0
  <2>1. ss = <<>> BY <1>4, EmptySeq
  <2>2. FlattenSeq(ss) = <<>> BY <2>1, <1>4 DEF FlattenSeq
  <2> QED BY <1>2, <1>3, <1>4, <2>2, ConcatEmptySeq DEF ts
<1>5. CASE n # 0
  <2>1. PICK g : Flat(g, n, ss) /\ FlattenSeq(ss) = g[n]
    BY <1>1, <1>5, FlattenIs
  <2>2. f[n] = g[n]
    BY <1>1, <1>2, <1>5, <2>1, FlatSame
  <2> QED BY <1>2, <1>3, <1>5, <2>1, <2>2 DEF ts
<1> QED BY <1>4, <1>5

LEMMA FlattenType ==
    ASSUME NEW S, NEW ss \in Seq(Seq(S))
    PROVE  FlattenSeq(ss) \in Seq(S)
<1> DEFINE n == Len(ss)
<1>1. n \in Nat /\ \A i \in 1 .. n : ss[i] \in Seq(S)
  BY LenProperties, ElementOfSeq
<1>2. CASE n = 0
  BY <1>2, EmptySeq DEF FlattenSeq
<1>3. CASE n # 0
  <2>1. PICK f : Flat(f, n, ss) /\ FlattenSeq(ss) = f[n]
    BY <1>1, <1>3, FlattenIs
  <2> DEFINE Bad == {i \in 1 .. n : f[i] \notin Seq(S)}
  <2>2. Bad = {}
    <3> SUFFICES ASSUME Bad # {} PROVE FALSE
      OBVIOUS
    <3>1. PICK j \in Bad : \A i \in Nat : i < j => i \notin Bad
      <4>1. Bad \in SUBSET Nat OBVIOUS
      <4> HIDE DEF Bad
      <4> QED BY <4>1, Least
    <3>2. j \in 1 .. n /\ f[j] \notin Seq(S)
      OBVIOUS
    <3>3. f[j] = IF j = 1 THEN ss[j] ELSE f[j - 1] \o ss[j]
      BY <1>1, <2>1, <3>2, FlatValue
    <3>4. j # 1 => f[j - 1] \in Seq(S)
      <4> SUFFICES ASSUME j # 1 PROVE f[j - 1] \in Seq(S)
        OBVIOUS
      <4>1. j - 1 \in 1 .. n /\ j - 1 < j /\ j - 1 \in Nat BY <1>1, <3>2
      <4>2. j - 1 \notin Bad
        <5> HIDE DEF Bad
        <5> QED BY <3>1, <4>1
      <4> QED BY <4>1, <4>2
    <3>5. f[j] \in Seq(S)
      <4>1. CASE j = 1 BY <1>1, <3>2, <3>3, <4>1
      <4>2. CASE j # 1
        <5>1. f[j - 1] \in Seq(S) /\ ss[j] \in Seq(S) BY <1>1, <3>2, <3>4, <4>2
        <5> QED BY <3>3, <4>2, <5>1, ConcatProperties
      <4> QED BY <4>1, <4>2
    <3> QED BY <3>2, <3>5
  <2> QED BY <1>1, <1>3, <2>1, <2>2
<1> QED BY <1>2, <1>3

LEMMA FunctionIsSeq ==
    ASSUME NEW S, NEW n \in Nat, NEW f \in [1 .. n -> S] PROVE f \in Seq(S)
<1>1. f \in UNION {[1 .. m -> S] : m \in Nat}
  OBVIOUS
<1> QED BY <1>1, SeqDef, Zenon

\* One line more stands for its characters and a newline more.
LEMMA UnlinesAppend ==
    ASSUME NEW ls \in Seq(Seq(Letters)), NEW l \in Seq(Letters)
    PROVE  /\ Unlines(ls) \in Seq(Letters)
           /\ Unlines(Append(ls, l)) = Unlines(ls) \o Append(l, NL)
<1> DEFINE ended(ms) == [i \in DOMAIN ms |-> Append(ms[i], NL)]
<1>1. NL \in Letters
  BY DEF Letters
<1>2. ended(ls) \in Seq(Seq(Letters)) /\ Append(l, NL) \in Seq(Letters)
  <2>1. \A i \in 1 .. Len(ls) : Append(ls[i], NL) \in Seq(Letters)
    BY <1>1, ElementOfSeq, AppendProperties
  <2>2. Len(ls) \in Nat /\ DOMAIN ls = 1 .. Len(ls)
    BY LenProperties
  <2>3. ended(ls) \in [1 .. Len(ls) -> Seq(Letters)]
    BY <2>1, <2>2
  <2>4. Append(l, NL) \in Seq(Letters)
    BY <1>1, AppendProperties
  <2> DEFINE e == ended(ls)
  <2> HIDE DEF e, ended
  <2>5. e \in [1 .. Len(ls) -> Seq(Letters)]
    BY <2>3 DEF e
  <2>6. e \in Seq(Seq(Letters))
    BY <2>2, <2>5, FunctionIsSeq
  <2> QED BY <2>4, <2>6 DEF e
<1>3. ended(Append(ls, l)) = Append(ended(ls), Append(l, NL))
  <2>1. Len(ls) \in Nat /\ DOMAIN ls = 1 .. Len(ls)
    BY LenProperties
  <2>2. /\ Append(ls, l) \in Seq(Seq(Letters)) /\ Len(Append(ls, l)) = Len(ls) + 1
        /\ DOMAIN Append(ls, l) = 1 .. Len(ls) + 1
        /\ \A i \in 1 .. Len(ls) : Append(ls, l)[i] = ls[i]
        /\ Append(ls, l)[Len(ls) + 1] = l
    BY AppendProperties, LenProperties
  <2> DEFINE e == ended(ls)
             a == ended(Append(ls, l))
             b == Append(e, Append(l, NL))
  <2>3. DOMAIN e = 1 .. Len(ls) /\ \A i \in 1 .. Len(ls) : e[i] = Append(ls[i], NL)
    BY <2>1
  <2>4. Len(e) = Len(ls)
    <3> HIDE DEF e
    <3> QED BY <1>2, <2>1, <2>3, LenProperties DEF e
  <2>5. /\ Len(b) = Len(ls) + 1 /\ DOMAIN b = 1 .. Len(ls) + 1 /\ b \in Seq(Seq(Letters))
        /\ \A i \in 1 .. Len(ls) : b[i] = e[i]
        /\ b[Len(ls) + 1] = Append(l, NL)
    BY <1>2, <2>4, AppendProperties, LenProperties
  <2>6. /\ a = [i \in 1 .. Len(ls) + 1 |-> a[i]]
        /\ \A i \in 1 .. Len(ls) + 1 : a[i] = Append(Append(ls, l)[i], NL)
    BY <2>2
  <2>7. b = [i \in 1 .. Len(ls) + 1 |-> b[i]]
    <3> HIDE DEF b
    <3> QED BY <2>5, SeqDef
  <2>8. \A i \in 1 .. Len(ls) + 1 : a[i] = b[i]
    <3> HIDE DEF a, b, e, ended
    <3> SUFFICES ASSUME NEW i \in 1 .. Len(ls) + 1 PROVE a[i] = b[i]
      OBVIOUS
    <3>1. a[i] = Append(Append(ls, l)[i], NL)
      BY <2>6
    <3>2. CASE i = Len(ls) + 1
      BY <2>2, <2>5, <3>1, <3>2
    <3>3. CASE i # Len(ls) + 1
      <4>1. i \in 1 .. Len(ls)
        BY <2>1, <3>3
      <4>2. b[i] = e[i] /\ e[i] = Append(ls[i], NL) /\ Append(ls, l)[i] = ls[i]
        BY <2>2, <2>3, <2>5, <4>1
      <4> QED BY <3>1, <4>2
    <3> QED BY <3>2, <3>3
  <2> HIDE DEF a, b
  <2>9. a = b BY <2>6, <2>7, <2>8
  <2> QED BY <2>9 DEF a, b
<1>4. /\ Unlines(ls) = FlattenSeq(ended(ls))
      /\ Unlines(Append(ls, l)) = FlattenSeq(ended(Append(ls, l)))
  BY DEF Unlines
<1> HIDE DEF ended
<1> QED BY <1>2, <1>3, <1>4, FlattenAppend, FlattenType

LEMMA UnlinesType ==
    ASSUME NEW ls \in Seq(Seq(Letters)) PROVE Unlines(ls) \in Seq(Letters)
  BY UnlinesAppend, EmptySeq

LEMMA NoLines == Unlines(<<>>) = <<>>
<1> DEFINE e == [i \in DOMAIN <<>> |-> Append(<<>>[i], NL)]
<1>1. e = <<>>
  OBVIOUS
<1>2. FlattenSeq(<<>>) = <<>>
  BY DEF FlattenSeq
<1> QED BY <1>1, <1>2 DEF Unlines

-----------------------------------------------------------------------------
(* What a write, a read and a line handler make of the parts they touch: x  *)
(* in output.txt, b in the buffer, p in the pipe, r still to be written.    *)

LEMMA Assoc ==
    \A a, b, c \in Seq(Letters) : (a \o b) \o c = a \o (b \o c)
  BY ConcatAssociative

LEMMA Halves ==
    ASSUME NEW a \in Seq(Letters), NEW n \in 1 .. Len(a)
    PROVE  /\ SubSeq(a, 1, n) \in Seq(Letters) /\ SubSeq(a, n + 1, Len(a)) \in Seq(Letters)
           /\ SubSeq(a, 1, n) \o SubSeq(a, n + 1, Len(a)) = a
           /\ SubSeq(a, 1, n - 1) \in Seq(Letters)
           /\ SubSeq(a, 1, n) = Append(SubSeq(a, 1, n - 1), a[n])
<1>1. /\ Len(a) \in Nat /\ n \in Nat /\ n >= 1 /\ n <= Len(a)
      /\ \A i \in 1 .. Len(a) : a[i] \in Letters
  BY LenProperties, ElementOfSeq
<1>2. SubSeq(a, 1, n) \in Seq(Letters)
  BY <1>1, SubSeqProperties
<1>3. SubSeq(a, n + 1, Len(a)) \in Seq(Letters)
  BY <1>1, SubSeqProperties
<1>4. SubSeq(a, 1, n - 1) \in Seq(Letters)
  BY <1>1, SubSeqProperties
<1>5. SubSeq(a, 1, n) \o SubSeq(a, n + 1, Len(a)) = SubSeq(a, 1, Len(a))
  <2>1. 1 \in 1 .. Len(a) + 1 /\ n \in 1 - 1 .. Len(a) /\ Len(a) \in n .. Len(a)
    BY <1>1
  <2> QED BY <2>1, ConcatAdjacentSubSeq
<1>6. SubSeq(a, 1, n) = SubSeq(a, 1, n - 1) \o <<a[n]>>
  <2>1. 1 \in 1 .. Len(a) /\ n \in 1 .. Len(a)
    BY <1>1
  <2> QED BY <2>1, SubSeqRecursiveSecond
<1>7. Append(SubSeq(a, 1, n - 1), a[n]) = SubSeq(a, 1, n - 1) \o <<a[n]>>
  BY <1>1, <1>4, AppendIsConcat
<1>8. SubSeq(a, 1, Len(a)) = a
  BY SubSeqFull
<1> QED BY <1>2, <1>3, <1>4, <1>5, <1>6, <1>7, <1>8

\* Write: the next character goes to the end of the pipe.
LEMMA WriteMoves ==
    ASSUME NEW p \in Seq(Letters), NEW r \in Seq(Letters), r # <<>>
    PROVE  /\ Append(p, Head(r)) \in Seq(Letters) /\ Tail(r) \in Seq(Letters)
           /\ Append(p, Head(r)) \o Tail(r) = p \o r
<1>1. Head(r) \in Letters /\ Tail(r) \in Seq(Letters)
  BY HeadTailProperties
<1>2. /\ Append(p, Head(r)) \in Seq(Letters) /\ Append(p, Head(r)) = p \o <<Head(r)>>
      /\ <<Head(r)>> \in Seq(Letters)
  BY <1>1, AppendProperties, AppendIsConcat
<1>3. <<Head(r)>> \o Tail(r) = r
  <2>1. Len(r) \in Nat /\ Len(r) >= 1
    BY LenProperties, EmptySeq
  <2>2. r = <<r[1]>> \o SubSeq(r, 2, Len(r))
    <3>1. 1 \in 1 .. Len(r) /\ Len(r) \in 1 .. Len(r) BY <2>1
    <3>2. SubSeq(r, 1, Len(r)) = <<r[1]>> \o SubSeq(r, 1 + 1, Len(r))
      BY <3>1, SubSeqRecursiveFirst
    <3> QED BY <3>2, SubSeqFull
  <2>3. Head(r) = r[1] OBVIOUS
  <2> QED BY <2>2, <2>3, TailIsSubSeq
<1>4. (p \o <<Head(r)>>) \o Tail(r) = p \o (<<Head(r)>> \o Tail(r))
  BY <1>1, <1>2, ConcatAssociative
<1> QED BY <1>1, <1>2, <1>3, <1>4

\* Read: the first n characters of the pipe go to the end of the buffer.
LEMMA ReadMoves ==
    ASSUME NEW b \in Seq(Letters), NEW p \in Seq(Letters), NEW n \in 1 .. Len(p)
    PROVE  /\ b \o SubSeq(p, 1, n) \in Seq(Letters)
           /\ SubSeq(p, n + 1, Len(p)) \in Seq(Letters)
           /\ (b \o SubSeq(p, 1, n)) \o SubSeq(p, n + 1, Len(p)) = b \o p
<1>1. /\ SubSeq(p, 1, n) \in Seq(Letters) /\ SubSeq(p, n + 1, Len(p)) \in Seq(Letters)
      /\ SubSeq(p, 1, n) \o SubSeq(p, n + 1, Len(p)) = p
  BY Halves
<1>2. b \o SubSeq(p, 1, n) \in Seq(Letters)
  BY <1>1, ConcatProperties
<1>3. (b \o SubSeq(p, 1, n)) \o SubSeq(p, n + 1, Len(p))
      = b \o (SubSeq(p, 1, n) \o SubSeq(p, n + 1, Len(p)))
  BY <1>1, Assoc
<1> QED BY <1>1, <1>2, <1>3

\* LineRead: the buffer up to its newline becomes a line of output.txt.
LEMMA LineMoves ==
    ASSUME NEW ls \in Seq(Seq(Letters)), NEW b \in Seq(Letters), NEW n \in 1 .. Len(b), b[n] = NL,
           \A i \in 1 .. n - 1 : b[i] # NL
    PROVE  LET l == SubSeq(b, 1, n - 1)
               b1 == SubSeq(b, n + 1, Len(b))
           IN  /\ l \in Seq(Letters) /\ b1 \in Seq(Letters)
               /\ Append(ls, l) \in Seq(Seq(Letters))
               /\ Unlines(Append(ls, l)) \o b1 = Unlines(ls) \o b
<1> DEFINE l == SubSeq(b, 1, n - 1)
           b1 == SubSeq(b, n + 1, Len(b))
<1>1. /\ l \in Seq(Letters) /\ b1 \in Seq(Letters) /\ SubSeq(b, 1, n) \in Seq(Letters)
      /\ SubSeq(b, 1, n) = Append(l, NL) /\ SubSeq(b, 1, n) \o b1 = b
  BY Halves
<1> HIDE DEF l, b1
<1>2. Append(ls, l) \in Seq(Seq(Letters))
  BY <1>1, AppendProperties
<1>3. Unlines(ls) \in Seq(Letters) /\ Unlines(Append(ls, l)) = Unlines(ls) \o SubSeq(b, 1, n)
  BY <1>1, UnlinesAppend
<1> DEFINE x == Unlines(ls)
           h == SubSeq(b, 1, n)
<1> HIDE DEF x, h
<1>4. x \in Seq(Letters) /\ h \in Seq(Letters) /\ b1 \in Seq(Letters)
  BY <1>1, <1>3 DEF x, h
<1>5. (x \o h) \o b1 = x \o (h \o b1)
  BY <1>4, Assoc
<1>6. h \o b1 = b /\ Unlines(Append(ls, l)) = x \o h
  BY <1>1, <1>3 DEF x, h
<1>7. Unlines(Append(ls, l)) \o b1 = Unlines(ls) \o b
  BY <1>5, <1>6 DEF x
<1> QED BY <1>1, <1>2, <1>7 DEF l, b1

-----------------------------------------------------------------------------
(* The invariant.                                                          *)

Typed ==
    /\ text \in [Streams -> Seq(Letters)] /\ rest \in [Streams -> Seq(Letters)]
    /\ pipe \in [Streams -> Seq(Letters)] /\ buf \in [Streams -> Seq(Letters)]
    /\ lines \in [Streams -> Seq(Seq(Letters))]
    /\ writer \in [Streams -> BOOLEAN] /\ reading \in [Streams -> BOOLEAN]

\* Who has closed a stream has written all of it.
WrittenFirst == \A s \in Streams : ~writer[s] => rest[s] = <<>>

\* What the end of a stream has left.
AtEnd ==
    /\ ~reading["out"] => Unlines(lines["out"]) = Append(text["out"], NL)
    /\ ~reading["err"] => /\ Unlines(lines["err"]) \o buf["err"] = text["err"]
                          /\ ~HasLine(buf["err"])

IInv == Typed /\ WrittenFirst /\ NothingLost /\ AtEnd

LEMMA IInvInit == Init => IInv
<1> SUFFICES ASSUME Init PROVE IInv
  OBVIOUS
<1>1. Text \subseteq Seq(Letters)
  <2> SUFFICES ASSUME NEW x \in Text PROVE x \in Seq(Letters)
    OBVIOUS
  <2>1. PICK m \in 0 .. MaxText : x \in [1 .. m -> Letters]
    BY DEF Text, SeqOf, Letters
  <2>2. m \in Nat
    BY RunnerAssumption
  <2> QED BY <2>1, <2>2, FunctionIsSeq
<1>2. text \in [Streams -> Seq(Letters)]
  BY <1>1 DEF Init, async_system
<1>3. <<>> \in Seq(Letters) /\ <<>> \in Seq(Seq(Letters))
  BY EmptySeq
<1>4. Typed
  BY <1>2, <1>3 DEF Init, async_system, Typed
<1>5. WrittenFirst
  BY DEF Init, async_system, WrittenFirst
<1>6. NothingLost
  <2> SUFFICES ASSUME NEW s \in Streams
               PROVE  Unlines(lines[s]) \o buf[s] \o pipe[s] \o rest[s] = text[s]
    BY DEF NothingLost
  <2>1. lines[s] = <<>> /\ buf[s] = <<>> /\ pipe[s] = <<>> /\ rest[s] = text[s]
    BY DEF Init
  <2>2. text[s] \in Seq(Letters)
    BY <1>2
  <2>3. Unlines(lines[s]) = <<>>
    BY <2>1, NoLines
  <2> QED BY <1>3, <2>1, <2>2, <2>3, ConcatEmptySeq
<1>7. AtEnd
  BY DEF Init, async_system, AtEnd, Streams
<1> QED BY <1>4, <1>5, <1>6, <1>7 DEF IInv

\* The parts of one stream change, as a whole they do not.
LEMMA Moved ==
    ASSUME IInv, NEW s \in Streams, reading[s],
           NEW b \in Seq(Letters), NEW p \in Seq(Letters), NEW r \in Seq(Letters),
           NEW ls \in Seq(Seq(Letters)),
           Unlines(ls) \o b \o p \o r = Unlines(lines[s]) \o buf[s] \o pipe[s] \o rest[s],
           lines' = [lines EXCEPT ![s] = ls] /\ buf' = [buf EXCEPT ![s] = b],
           pipe' = [pipe EXCEPT ![s] = p] /\ rest' = [rest EXCEPT ![s] = r],
           writer[s] \/ r = rest[s],
           UNCHANGED <<text, writer, reading>>
    PROVE  IInv'
<1>1. Typed /\ WrittenFirst /\ NothingLost /\ AtEnd
  BY DEF IInv
<1>2. /\ lines'[s] = ls /\ buf'[s] = b /\ pipe'[s] = p /\ rest'[s] = r
      /\ \A u \in Streams : u # s => /\ lines'[u] = lines[u] /\ buf'[u] = buf[u]
                                     /\ pipe'[u] = pipe[u] /\ rest'[u] = rest[u]
  BY <1>1 DEF Typed
<1>3. Typed'
  BY <1>1 DEF Typed
<1>4. WrittenFirst'
  BY <1>1, <1>2 DEF WrittenFirst
<1>5. NothingLost'
  <2> SUFFICES ASSUME NEW u \in Streams, reading[u]
               PROVE  Unlines(lines'[u]) \o buf'[u] \o pipe'[u] \o rest'[u] = text[u]
    BY DEF NothingLost, Unlines
  <2>1. Unlines(lines[u]) \o buf[u] \o pipe[u] \o rest[u] = text[u]
    BY <1>1 DEF NothingLost
  <2> QED BY <1>2, <2>1
<1>6. AtEnd'
  <2>1. "out" \in Streams /\ "err" \in Streams
    BY DEF Streams
  <2>2. ~reading["out"] => s # "out"
    OBVIOUS
  <2>3. ~reading["err"] => s # "err"
    OBVIOUS
  <2>4. ~reading["out"] => Unlines(lines'["out"]) = Append(text["out"], NL)
    BY <1>1, <1>2, <2>1, <2>2 DEF AtEnd
  <2>5. ~reading["err"] => /\ Unlines(lines'["err"]) \o buf'["err"] = text["err"]
                          /\ ~HasLine(buf'["err"])
    BY <1>1, <1>2, <2>1, <2>3 DEF AtEnd
  <2> QED BY <2>4, <2>5 DEF AtEnd, Unlines, HasLine
<1> QED BY <1>3, <1>4, <1>5, <1>6 DEF IInv

LEMMA ScriptKeeps ==
    ASSUME IInv, NEW s \in Streams, Write(s) PROVE IInv'
<1>1. /\ writer[s] /\ rest[s] # <<>>
      /\ pipe' = [pipe EXCEPT ![s] = Append(pipe[s], Head(rest[s]))]
      /\ rest' = [rest EXCEPT ![s] = Tail(rest[s])]
      /\ UNCHANGED <<text, writer, buf, reading, lines>>
  BY DEF Write
<1>2. /\ pipe[s] \in Seq(Letters) /\ rest[s] \in Seq(Letters) /\ buf[s] \in Seq(Letters)
      /\ lines[s] \in Seq(Seq(Letters)) /\ Typed
  BY DEF IInv, Typed
<1> DEFINE p == Append(pipe[s], Head(rest[s]))
           r == Tail(rest[s])
           x == Unlines(lines[s])
<1>3. p \in Seq(Letters) /\ r \in Seq(Letters) /\ p \o r = pipe[s] \o rest[s]
  BY <1>1, <1>2, WriteMoves
<1>4. x \in Seq(Letters)
  BY <1>2, UnlinesType
<1>5. lines' = [lines EXCEPT ![s] = lines[s]] /\ buf' = [buf EXCEPT ![s] = buf[s]]
  BY <1>1, <1>2 DEF Typed
<1>6. pipe' = [pipe EXCEPT ![s] = p] /\ rest' = [rest EXCEPT ![s] = r]
  BY <1>1
<1> DEFINE y == x \o buf[s]
<1>7. y \in Seq(Letters)
  BY <1>2, <1>4, ConcatProperties
<1> HIDE DEF p, r, x, y
<1>8. y \o p \o r = y \o (p \o r) /\ y \o pipe[s] \o rest[s] = y \o (pipe[s] \o rest[s])
  BY <1>2, <1>3, <1>7, Assoc
<1>9. Unlines(lines[s]) \o buf[s] \o p \o r = Unlines(lines[s]) \o buf[s] \o pipe[s] \o rest[s]
  BY <1>3, <1>8 DEF x, y
<1>10. CASE reading[s]
  <2>1. writer[s] /\ UNCHANGED <<text, writer, reading>>
    BY <1>1
  <2>2. /\ buf[s] \in Seq(Letters) /\ p \in Seq(Letters) /\ r \in Seq(Letters)
        /\ lines[s] \in Seq(Seq(Letters))
    BY <1>2, <1>3
  <2> QED BY <1>5, <1>6, <1>9, <1>10, <2>1, <2>2, Moved
<1>11. CASE ~reading[s]
  <2>1. Typed'
    BY <1>1, <1>2, <1>3, <1>6 DEF Typed
  <2>2. WrittenFirst'
    BY <1>1, <1>2, <1>6 DEF IInv, WrittenFirst, Typed
  <2>3. NothingLost'
    <3> SUFFICES ASSUME NEW u \in Streams, reading[u]
                 PROVE  Unlines(lines[u]) \o buf[u] \o pipe'[u] \o rest'[u] = text[u]
      BY <1>1 DEF NothingLost, Unlines
    <3>1. u # s
      BY <1>11
    <3>2. pipe'[u] = pipe[u] /\ rest'[u] = rest[u]
      BY <1>2, <1>6, <3>1 DEF Typed
    <3> QED BY <3>2 DEF IInv, NothingLost
  <2>4. AtEnd'
    BY <1>1 DEF IInv, AtEnd, Unlines, HasLine
  <2> QED BY <2>1, <2>2, <2>3, <2>4 DEF IInv
<1> QED BY <1>10, <1>11

LEMMA ReadKeeps ==
    ASSUME IInv, NEW s \in Streams, Read(s) PROVE IInv'
<1>1. PICK n \in 1 .. Len(pipe[s]) :
          /\ buf' = [buf EXCEPT ![s] = buf[s] \o SubSeq(pipe[s], 1, n)]
          /\ pipe' = [pipe EXCEPT ![s] = SubSeq(pipe[s], n + 1, Len(pipe[s]))]
  BY DEF Read
<1>2. reading[s] /\ UNCHANGED <<text, rest, writer, reading, lines>>
  BY DEF Read, scriptVars
<1>3. /\ pipe[s] \in Seq(Letters) /\ rest[s] \in Seq(Letters) /\ buf[s] \in Seq(Letters)
      /\ lines[s] \in Seq(Seq(Letters)) /\ Typed
  BY DEF IInv, Typed
<1> DEFINE b == buf[s] \o SubSeq(pipe[s], 1, n)
           p == SubSeq(pipe[s], n + 1, Len(pipe[s]))
           x == Unlines(lines[s])
<1>4. b \in Seq(Letters) /\ p \in Seq(Letters) /\ b \o p = buf[s] \o pipe[s]
  BY <1>3, ReadMoves
<1>5. x \in Seq(Letters)
  BY <1>3, UnlinesType
<1>6. lines' = [lines EXCEPT ![s] = lines[s]] /\ rest' = [rest EXCEPT ![s] = rest[s]]
  BY <1>2, <1>3 DEF Typed
<1>7. buf' = [buf EXCEPT ![s] = b] /\ pipe' = [pipe EXCEPT ![s] = p]
  BY <1>1
<1> HIDE DEF b, p, x
<1>8. x \o b \o p = x \o (b \o p)
  BY <1>4, <1>5, Assoc
<1>9. x \o buf[s] \o pipe[s] = x \o (buf[s] \o pipe[s])
  BY <1>3, <1>5, Assoc
<1>10. x \o b \o p \o rest[s] = x \o buf[s] \o pipe[s] \o rest[s]
  BY <1>4, <1>8, <1>9
<1> QED BY <1>2, <1>3, <1>4, <1>6, <1>7, <1>10, Moved DEF x

LEMMA LineKeeps ==
    ASSUME IInv, NEW s \in Streams, LineRead(s) PROVE IInv'
<1>1. PICK n \in 1 .. Len(buf[s]) :
          /\ buf[s][n] = NL /\ \A i \in 1 .. n - 1 : buf[s][i] # NL
          /\ lines' = [lines EXCEPT ![s] = Append(lines[s], SubSeq(buf[s], 1, n - 1))]
          /\ buf' = [buf EXCEPT ![s] = SubSeq(buf[s], n + 1, Len(buf[s]))]
  BY DEF LineRead, make_string
<1>2. reading[s] /\ UNCHANGED <<text, rest, writer, reading, pipe>>
  BY DEF LineRead, scriptVars
<1>3. /\ pipe[s] \in Seq(Letters) /\ rest[s] \in Seq(Letters) /\ buf[s] \in Seq(Letters)
      /\ lines[s] \in Seq(Seq(Letters)) /\ Typed
  BY DEF IInv, Typed
<1> DEFINE b == SubSeq(buf[s], n + 1, Len(buf[s]))
           ls == Append(lines[s], SubSeq(buf[s], 1, n - 1))
<1>4. /\ b \in Seq(Letters) /\ ls \in Seq(Seq(Letters))
      /\ Unlines(ls) \o b = Unlines(lines[s]) \o buf[s]
  BY <1>1, <1>3, LineMoves
<1>5. pipe' = [pipe EXCEPT ![s] = pipe[s]] /\ rest' = [rest EXCEPT ![s] = rest[s]]
  BY <1>2, <1>3 DEF Typed
<1>6. buf' = [buf EXCEPT ![s] = b] /\ lines' = [lines EXCEPT ![s] = ls]
  BY <1>1
<1> HIDE DEF b, ls
<1>7. Unlines(ls) \o b \o pipe[s] \o rest[s] = Unlines(lines[s]) \o buf[s] \o pipe[s] \o rest[s]
  BY <1>4
<1> QED BY <1>2, <1>3, <1>4, <1>5, <1>6, <1>7, Moved

\* At the end of a stream nothing of it is on the way.
LEMMA EndOfStream ==
    ASSUME IInv, NEW s \in Streams, AtEof(s)
    PROVE  /\ buf[s] \in Seq(Letters) /\ lines[s] \in Seq(Seq(Letters))
           /\ Unlines(lines[s]) \in Seq(Letters)
           /\ Unlines(lines[s]) \o buf[s] = text[s]
<1>1. /\ buf[s] \in Seq(Letters) /\ lines[s] \in Seq(Seq(Letters))
  BY DEF IInv, Typed
<1>2. Unlines(lines[s]) \in Seq(Letters)
  BY <1>1, UnlinesType
<1>3. pipe[s] = <<>> /\ rest[s] = <<>>
  BY DEF AtEof, IInv, WrittenFirst
<1>4. Unlines(lines[s]) \o buf[s] \o <<>> \o <<>> = text[s]
  BY <1>3 DEF IInv, NothingLost, AtEof
<1>5. Unlines(lines[s]) \o buf[s] \in Seq(Letters)
  BY <1>1, <1>2, ConcatProperties
<1> QED BY <1>1, <1>2, <1>4, <1>5, ConcatEmptySeq

LEMMA EofKeeps ==
    ASSUME IInv, OutEof \/ ErrEof PROVE IInv'
<1>1. "out" \in Streams /\ "err" \in Streams /\ \A s \in Streams : s = "out" \/ s = "err"
  BY DEF Streams
<1>2. Typed /\ WrittenFirst /\ NothingLost /\ AtEnd
  BY DEF IInv
<1>3. CASE OutEof
  <2>1. /\ AtEof("out") /\ UNCHANGED <<text, rest, writer, pipe>>
        /\ lines' = [lines EXCEPT !["out"] = Append(lines["out"], buf["out"])]
        /\ buf' = [buf EXCEPT !["out"] = <<>>]
        /\ reading' = [reading EXCEPT !["out"] = FALSE]
    BY <1>3 DEF OutEof, scriptVars
  <2>2. /\ buf["out"] \in Seq(Letters) /\ lines["out"] \in Seq(Seq(Letters))
        /\ Unlines(lines["out"]) \in Seq(Letters)
        /\ Unlines(lines["out"]) \o buf["out"] = text["out"]
    BY <1>1, <2>1, EndOfStream
  <2>3. /\ Append(lines["out"], buf["out"]) \in Seq(Seq(Letters)) /\ <<>> \in Seq(Letters)
    BY <2>2, AppendProperties, EmptySeq
  <2>4. /\ lines'["out"] = Append(lines["out"], buf["out"]) /\ ~reading'["out"]
        /\ lines'["err"] = lines["err"] /\ buf'["err"] = buf["err"]
        /\ reading'["err"] = reading["err"]
    BY <1>1, <1>2, <2>1 DEF Typed
  <2>5. Unlines(lines'["out"]) = Append(text["out"], NL)
    <3> DEFINE x == Unlines(lines["out"])
               b == buf["out"]
    <3>1. NL \in Letters
      BY DEF Letters
    <3>2. Unlines(Append(lines["out"], b)) = x \o Append(b, NL)
      BY <2>2, UnlinesAppend
    <3>3. /\ x \in Seq(Letters) /\ b \in Seq(Letters) /\ x \o b = text["out"]
          /\ <<NL>> \in Seq(Letters)
      BY <2>2, <3>1
    <3> HIDE DEF x, b
    <3>4. Append(b, NL) = b \o <<NL>> /\ x \o b \in Seq(Letters)
      BY <3>1, <3>3, AppendIsConcat, ConcatProperties
    <3>5. Append(x \o b, NL) = (x \o b) \o <<NL>>
      BY <3>1, <3>4, AppendIsConcat
    <3>6. (x \o b) \o <<NL>> = x \o (b \o <<NL>>)
      BY <3>3, Assoc
    <3> QED BY <2>4, <3>2, <3>3, <3>4, <3>5, <3>6 DEF b
  <2>6. Typed'
    BY <1>2, <2>1, <2>3 DEF Typed
  <2>7. WrittenFirst'
    BY <1>2, <2>1 DEF WrittenFirst
  <2>8. NothingLost'
    <3> SUFFICES ASSUME NEW s \in Streams, reading'[s]
                 PROVE  Unlines(lines'[s]) \o buf'[s] \o pipe'[s] \o rest'[s] = text'[s]
      BY DEF NothingLost, Unlines
    <3>1. s = "err"
      BY <1>1, <2>4
    <3> QED BY <1>2, <2>1, <2>4, <3>1 DEF NothingLost
  <2>9. AtEnd'
    <3>1. ~reading'["err"] => /\ Unlines(lines'["err"]) \o buf'["err"] = text["err"]
                             /\ ~HasLine(buf'["err"])
      BY <1>2, <2>4 DEF AtEnd
    <3>2. Unlines(lines'["out"]) = Append(text'["out"], NL) /\ text' = text
      BY <2>1, <2>5
    <3> QED BY <3>1, <3>2 DEF AtEnd, Unlines, HasLine
  <2> QED BY <2>6, <2>7, <2>8, <2>9 DEF IInv
<1>4. CASE ErrEof
  <2>1. /\ AtEof("err") /\ UNCHANGED <<text, rest, writer, pipe, buf, lines>>
        /\ reading' = [reading EXCEPT !["err"] = FALSE]
    BY <1>4 DEF ErrEof, scriptVars
  <2>2. Unlines(lines["err"]) \o buf["err"] = text["err"] /\ ~HasLine(buf["err"])
    BY <1>1, <2>1, EndOfStream DEF AtEof
  <2>3. reading'["out"] = reading["out"] /\ ~reading'["err"]
    BY <1>1, <1>2, <2>1 DEF Typed
  <2>4. Typed'
    BY <1>2, <2>1 DEF Typed
  <2>5. WrittenFirst'
    BY <1>2, <2>1 DEF WrittenFirst
  <2>6. NothingLost'
    <3> SUFFICES ASSUME NEW s \in Streams, reading'[s]
                 PROVE  Unlines(lines[s]) \o buf[s] \o pipe[s] \o rest[s] = text[s]
      BY <2>1 DEF NothingLost, Unlines
    <3>1. s = "out"
      BY <1>1, <2>3
    <3> QED BY <1>2, <2>3, <3>1 DEF NothingLost
  <2>7. AtEnd'
    BY <1>2, <2>1, <2>2, <2>3 DEF AtEnd, Unlines, HasLine
  <2> QED BY <2>4, <2>5, <2>6, <2>7 DEF IInv
<1> QED BY <1>3, <1>4

LEMMA IInvStep == IInv /\ [Next]_vars => IInv'
<1> SUFFICES ASSUME IInv, [Next]_vars PROVE IInv'
  OBVIOUS
<1>1. ASSUME NEW s \in Streams, Write(s) PROVE IInv'
  BY <1>1, ScriptKeeps
<1>2. ASSUME NEW s \in Streams, Close(s) PROVE IInv'
  <2>1. /\ rest[s] = <<>> /\ writer' = [writer EXCEPT ![s] = FALSE]
        /\ UNCHANGED <<text, rest, pipe, buf, reading, lines>>
    BY <1>2 DEF Close
  <2>2. Typed' /\ WrittenFirst'
    BY <2>1 DEF IInv, Typed, WrittenFirst
  <2>3. NothingLost' /\ AtEnd'
    BY <2>1 DEF IInv, NothingLost, AtEnd, Unlines, HasLine
  <2> QED BY <2>2, <2>3 DEF IInv
<1>3. CASE Exit \/ ExitHandler \/ Done \/ UNCHANGED vars
  <2>1. UNCHANGED <<text, rest, pipe, buf, reading, lines, writer>>
    BY <1>3 DEF Exit, ExitHandler, Done, vars, scriptVars, runnerVars
  <2> QED BY <2>1 DEF IInv, Typed, WrittenFirst, NothingLost, AtEnd, Unlines, HasLine
<1>4. ASSUME NEW s \in Streams, Read(s) \/ LineRead(s) PROVE IInv'
  BY <1>4, ReadKeeps, LineKeeps
<1>5. CASE OutEof \/ ErrEof
  BY <1>5, EofKeeps
<1> QED BY <1>1, <1>2, <1>3, <1>4, <1>5 DEF Next, Script, Handlers

LEMMA IInvAlways == Spec => []IInv
  BY IInvInit, IInvStep, PTL DEF Spec

-----------------------------------------------------------------------------
\* However long the texts are, however large the pipes, and however writes, reads and
\* line handlers alternate: no character is lost, doubled or out of order.
THEOREM TextKept == Spec => []NothingLost
<1>1. IInv => NothingLost
  BY DEF IInv
<1> QED BY <1>1, IInvAlways, PTL

\* When run returns, output.txt has all of stdout and all complete lines of stderr; what
\* stderr lacks is a last line without a newline.
THEOREM OutputKept == Spec => []OutputComplete
<1>1. IInv => OutputComplete
  <2>1. "out" \in Streams /\ "err" \in Streams
    BY DEF Streams
  <2> QED BY <2>1 DEF IInv, AtEnd, OutputComplete, Returned
<1> QED BY <1>1, IInvAlways, PTL
=============================================================================
