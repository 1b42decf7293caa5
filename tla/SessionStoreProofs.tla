------------------------- MODULE SessionStoreProofs -------------------------
(***************************************************************************)
(* Proofs about SessionStore for any number of processes, any programs of   *)
(* sets and any keys and values.                                            *)
(*                                                                          *)
(* They are about the bytes of the file.  A file of lines followed by one   *)
(* line more has the lines of both (LinesAppend), and a pair's line has     *)
(* that pair and no other (PairLine); so what Rewrite writes has the pairs  *)
(* of the map with the new one among them (RewriteReads).  FlattenSeq is a  *)
(* recursive function: what it returns is found by the least number of      *)
(* lines for which it would return something else.  From there on a step    *)
(* of a process changes a set of pairs.                                     *)
(***************************************************************************)
EXTENDS SessionStore, FiniteSetTheorems, FunctionTheorems, SequenceTheorems,
        WellFoundedInduction, TLAPS

\* A set of numbers has a least one.
LEMMA Least == \A T \in SUBSET Nat : T # {} => \E m \in T : \A k \in Nat : k < m => k \notin T
<1>1. \A T \in SUBSET Nat : T # {} => \E m \in T : \A k \in T : <<k, m>> \notin OpToRel(<, Nat)
  BY NatLessThanWellFounded, WFMin
<1>2. \A k, m \in Nat : k < m => <<k, m>> \in OpToRel(<, Nat)
  BY DEF OpToRel
<1> QED BY <1>1, <1>2

-----------------------------------------------------------------------------
(* Lines.                                                                   *)

\* Nothing, or lines.
Whole(f) == f \in Seq(Bytes) /\ (f # <<>> => f[Len(f)] = "nl")

\* Where the line before the newline at j begins, less one.
Start(f, j) == Max({0} \cup {i \in Newlines(f) : i < j})

\* The greatest of a set is what Max finds.
LEMMA MaxIs ==
    ASSUME NEW S \in SUBSET Nat, NEW n \in S, \A i \in S : i <= n PROVE Max(S) = n
<1>1. \A x \in S : (\A y \in S : x >= y) => x = n
  <2> SUFFICES ASSUME NEW x \in S, \A y \in S : x >= y PROVE x = n OBVIOUS
  <2>1. x >= n /\ x <= n /\ x \in Nat /\ n \in Nat OBVIOUS
  <2> QED BY <2>1
<1>2. \A y \in S : n >= y OBVIOUS
<1> QED BY <1>1, <1>2 DEF Max

\* A line begins behind the newline before it, or at the start.
LEMMA StartIs == ASSUME NEW f, Whole(f), NEW j \in Newlines(f) PROVE Start(f, j) \in 0 .. j - 1
<1> DEFINE S == {0} \cup {i \in Newlines(f) : i < j}
           T == {j - i : i \in S}
<1>1. j \in Nat /\ j >= 1 /\ \A i \in Newlines(f) : i \in Nat
  <2>1. f \in Seq(Bytes) /\ DOMAIN f = 1 .. Len(f) /\ Len(f) \in Nat
    BY LenProperties DEF Whole
  <2> QED BY <2>1 DEF Newlines
<1>2. \A i \in S : i \in Nat /\ i < j
  BY <1>1
<1>3. T \in SUBSET Nat /\ T # {}
  <2>1. 0 \in S OBVIOUS
  <2> HIDE DEF S
  <2> QED BY <1>1, <1>2, <2>1
<1>4. PICK t \in T : \A k \in Nat : k < t => k \notin T
  <2> HIDE DEF T
  <2> QED BY <1>3, Least
<1>5. PICK n \in S : t = j - n
  <2> HIDE DEF S
  <2> QED BY <1>4
<1>6. \A i \in S : i <= n
  <2> HIDE DEF S
  <2> SUFFICES ASSUME NEW i \in S, ~(i <= n) PROVE FALSE OBVIOUS
  <2>1. j - i \in T /\ j - i \in Nat /\ j - i < t BY <1>1, <1>2, <1>5
  <2> HIDE DEF T
  <2> QED BY <1>4, <2>1
<1>7. Max(S) = n
  <2>1. S \in SUBSET Nat BY <1>2
  <2> HIDE DEF S
  <2> QED BY <1>6, <2>1, MaxIs
<1>8. Start(f, j) = Max(S)
  BY DEF Start
<1> HIDE DEF S
<1> QED BY <1>1, <1>2, <1>5, <1>7, <1>8

\* What is written behind the newline of the last line is a line of its own.
LEMMA LinesAppend ==
    ASSUME NEW f, Whole(f), NEW l \in Seq(Bytes), \A i \in DOMAIN l : l[i] # "nl"
    PROVE  /\ Whole(f \o (l \o <<"nl">>))
           /\ Lines(f \o (l \o <<"nl">>)) = Lines(f) \cup {l}
<1> DEFINE g == f \o (l \o <<"nl">>)
           n == Len(f)
           k == Len(l)
<1>1. f \in Seq(Bytes) /\ <<"nl">> \in Seq(Bytes) /\ l \o <<"nl">> \in Seq(Bytes)
  BY DEF Whole, Bytes
<1>2. /\ n \in Nat /\ k \in Nat /\ DOMAIN f = 1 .. n /\ DOMAIN l = 1 .. k
      /\ Len(l \o <<"nl">>) = k + 1
      /\ \A i \in 1 .. k : (l \o <<"nl">>)[i] = l[i]
      /\ (l \o <<"nl">>)[k + 1] = "nl"
  BY <1>1, LenProperties, ConcatProperties
<1>3. /\ g \in Seq(Bytes) /\ Len(g) = n + k + 1 /\ DOMAIN g = 1 .. n + k + 1
      /\ \A i \in 1 .. n : g[i] = f[i]
      /\ \A i \in 1 .. k : g[n + i] = l[i]
      /\ g[n + k + 1] = "nl"
  <2> DEFINE t == l \o <<"nl">>
  <2>1. t \in Seq(Bytes) /\ Len(t) = k + 1 /\ \A i \in 1 .. k : t[i] = l[i] BY <1>1, <1>2
  <2>2. t[k + 1] = "nl" BY <1>2
  <2> HIDE DEF t, k, n
  <2>3. /\ f \o t \in Seq(Bytes) /\ Len(f \o t) = Len(f) + Len(t)
        /\ \A i \in 1 .. Len(f) + Len(t) : (f \o t)[i] = IF i <= Len(f) THEN f[i] ELSE t[i - Len(f)]
    BY <1>1, <2>1, ConcatProperties
  <2>4. Len(f) = n BY DEF n
  <2> DEFINE h == f \o t
  <2>5. /\ h \in Seq(Bytes) /\ Len(h) = n + k + 1
        /\ \A i \in 1 .. n + k + 1 : h[i] = IF i <= n THEN f[i] ELSE t[i - n]
    BY <1>2, <2>1, <2>3, <2>4
  <2>6. DOMAIN h = 1 .. n + k + 1 BY <2>5, LenProperties
  <2> HIDE DEF h
  <2>7. \A i \in 1 .. n : h[i] = f[i] BY <1>2, <2>5
  <2>8. ASSUME NEW i \in 1 .. k PROVE h[n + i] = l[i]
    <3>1. n + i \in 1 .. n + k + 1 /\ ~(n + i <= n) /\ (n + i) - n = i BY <1>2
    <3> QED BY <2>1, <2>5, <3>1
  <2>9. h[n + k + 1] = "nl"
    <3>1. n + k + 1 \in 1 .. n + k + 1 /\ ~(n + k + 1 <= n) /\ (n + k + 1) - n = k + 1 BY <1>2
    <3> QED BY <2>2, <2>5, <3>1
  <2> QED BY <2>5, <2>6, <2>7, <2>8, <2>9 DEF h, t
<1> HIDE DEF g
<1>4. Whole(g)
  BY <1>3 DEF Whole
<1> DEFINE z == n + k + 1
<1>5. Newlines(g) = Newlines(f) \cup {z}
  <2>1. ASSUME NEW i \in Newlines(g) PROVE i \in Newlines(f) \cup {z}
    <3>1. i \in 1 .. z /\ g[i] = "nl" BY <1>3 DEF Newlines
    <3>2. CASE i <= n BY <1>2, <1>3, <3>1, <3>2 DEF Newlines
    <3>3. CASE i > n /\ i # z
      <4>1. i - n \in 1 .. k /\ n + (i - n) = i BY <1>2, <3>1, <3>3
      <4>2. g[n + (i - n)] = l[i - n] BY <1>3, <4>1
      <4>3. l[i - n] # "nl" BY <1>2, <4>1
      <4> QED BY <3>1, <4>1, <4>2, <4>3
    <3> QED BY <1>2, <3>1, <3>2, <3>3
  <2>2. z \in Newlines(g) BY <1>2, <1>3 DEF Newlines
  <2>3. Newlines(f) \subseteq Newlines(g) BY <1>2, <1>3 DEF Newlines
  <2> HIDE DEF z, n, k
  <2> QED BY <2>1, <2>2, <2>3
<1>6. Newlines(f) \subseteq 1 .. n
  BY <1>2 DEF Newlines
<1>7. ASSUME NEW j \in Newlines(f)
      PROVE  SubSeq(g, Start(g, j) + 1, j - 1) = SubSeq(f, Start(f, j) + 1, j - 1)
  <2>1. {i \in Newlines(g) : i < j} = {i \in Newlines(f) : i < j}
    BY <1>2, <1>5, <1>6
  <2>2. Start(g, j) = Start(f, j)
    BY <2>1 DEF Start
  <2>3. Start(f, j) \in 0 .. j - 1 /\ j \in 1 .. n
    BY <1>6, StartIs
  <2> DEFINE a == Start(f, j) + 1
  <2>4. a \in 1 .. j BY <2>3
  <2> HIDE DEF a
  <2>5. CASE a = j
    <3>1. j - 1 \in Int /\ a \in Int /\ j - 1 < a BY <2>3, <2>4, <2>5
    <3>2. SubSeq(g, a, j - 1) = <<>> /\ SubSeq(f, a, j - 1) = <<>> BY <3>1, SubSeqEmpty
    <3> QED BY <2>2, <3>2 DEF a
  <2>6. CASE a # j
    <3>1. a \in 1 .. Len(f) /\ j - 1 \in 1 .. Len(f) BY <1>2, <2>3, <2>4, <2>6
    <3>2. SubSeq(g, a, j - 1) = SubSeq(f, a, j - 1) BY <1>1, <3>1, SubSeqOfConcat1 DEF g
    <3> QED BY <2>2, <3>2 DEF a
  <2> QED BY <2>2, <2>5, <2>6 DEF a
<1>8. Start(g, z) = n
  <2>1. {i \in Newlines(g) : i < z} = Newlines(f)
    BY <1>2, <1>5, <1>6
  <2>2. n \in {0} \cup Newlines(f)
    <3>1. CASE f = <<>> BY <3>1
    <3>2. CASE f # <<>>
      <4>1. f[n] = "nl" /\ n # 0 BY <1>1, <3>2, EmptySeq DEF Whole
      <4> QED BY <1>2, <4>1 DEF Newlines
    <3> QED BY <3>1, <3>2
  <2>3. {0} \cup Newlines(f) \in SUBSET Nat /\ \A i \in {0} \cup Newlines(f) : i <= n
    BY <1>2, <1>6
  <2> HIDE DEF n
  <2> QED BY <2>1, <2>2, <2>3, MaxIs DEF Start
<1>9. SubSeq(g, n + 1, z - 1) = l
  <2>1. n + 1 \in Int /\ z - 1 \in Int /\ z - 1 = n + k BY <1>2
  <2>2. \A i \in n + 1 .. z - 1 : g[i] \in Bytes
    BY <1>2, <1>3, ElementOfSeq
  <2> DEFINE s == SubSeq(g, n + 1, z - 1)
  <2>3. /\ s \in Seq(Bytes) /\ Len(s) = (IF n + 1 <= z - 1 THEN z - 1 - (n + 1) + 1 ELSE 0)
        /\ \A i \in 1 .. z - 1 - (n + 1) + 1 : s[i] = g[n + 1 + i - 1]
    <3> HIDE DEF z, n
    <3> QED BY <2>1, <2>2, SubSeqProperties
  <2> HIDE DEF s
  <2>4. Len(s) = k /\ \A i \in 1 .. k : s[i] = g[n + i]
    <3>1. z - 1 - (n + 1) + 1 = k /\ (n + 1 <= z - 1 <=> k # 0) BY <1>2
    <3>2. \A i \in 1 .. k : n + 1 + i - 1 = n + i BY <1>2
    <3> QED BY <1>2, <2>3, <3>1, <3>2
  <2>5. \A i \in 1 .. Len(s) : s[i] = l[i] BY <1>3, <2>4
  <2>6. s = l BY <2>3, <2>4, <2>5, SeqEqual
  <2> QED BY <2>6 DEF s
<1>10. Lines(g) = {SubSeq(g, Start(g, j) + 1, j - 1) : j \in Newlines(g)}
  BY DEF Lines, Start
<1>11. Lines(f) = {SubSeq(f, Start(f, j) + 1, j - 1) : j \in Newlines(f)}
  BY DEF Lines, Start
<1> HIDE DEF z, n, k
<1>12. Lines(g) = Lines(f) \cup {l}
  <2>1. SubSeq(g, Start(g, z) + 1, z - 1) = l BY <1>8, <1>9
  <2>2. Lines(f) \cup {l} \subseteq Lines(g) BY <1>5, <1>7, <1>10, <1>11, <2>1
  <2>3. ASSUME NEW x \in Lines(g) PROVE x \in Lines(f) \cup {l}
    <3>1. PICK j \in Newlines(g) : x = SubSeq(g, Start(g, j) + 1, j - 1) BY <1>10
    <3>2. CASE j = z BY <2>1, <3>1, <3>2
    <3>3. CASE j \in Newlines(f) BY <1>7, <1>11, <3>1, <3>3
    <3> QED BY <1>5, <3>2, <3>3
  <2> QED BY <2>2, <2>3
<1> QED BY <1>4, <1>12 DEF g

-----------------------------------------------------------------------------
(* The pairs in a file.                                                     *)

\* The pairs in a line.
Parts(l) == {<<i - 1, Len(l) - i>> : i \in Equals(l)}

\* f is nothing but lines with these pairs.
Reads(f, ps) == Whole(f) /\ ~Refusable(f) /\ Pairs(f) = ps

\* A text of n letters.
LEMMA TextIs ==
    ASSUME NEW n \in Nat
    PROVE  Text(n) \in Seq(Bytes) /\ Len(Text(n)) = n /\ \A i \in 1 .. n : Text(n)[i] = "x"
<1>1. Text(n) \in [1 .. n -> Bytes] BY DEF Text, Bytes
<1>2. Text(n) \in Seq(Bytes)
  <2>1. Text(n) \in UNION {[1 .. m -> Bytes] : m \in Nat} BY <1>1
  <2> QED BY <2>1, SeqDef, Zenon
<1>3. DOMAIN Text(n) = 1 .. Len(Text(n)) /\ Len(Text(n)) \in Nat BY <1>2, LenProperties
<1>4. DOMAIN Text(n) = 1 .. n BY DEF Text
<1>5. Len(Text(n)) = n
  <2> DEFINE m == Len(Text(n))
  <2>1. 1 .. m = 1 .. n /\ m \in Nat BY <1>3, <1>4
  <2> HIDE DEF m
  <2>2. m \in 1 .. n \/ m = 0 BY <2>1
  <2>3. n \in 1 .. m \/ n = 0 BY <2>1
  <2> QED BY <2>1, <2>2, <2>3 DEF m
<1> QED BY <1>2, <1>5 DEF Text

\* The one "=" of a pair tells its key and value apart.
LEMMA PairLine ==
    ASSUME NEW k \in Nat, NEW v \in Nat
    PROVE  /\ Pair(k, v) \in Seq(Bytes) /\ \A i \in DOMAIN Pair(k, v) : Pair(k, v)[i] # "nl"
           /\ Pair(k, v) # <<>> /\ Equals(Pair(k, v)) = {k + 1}
           /\ Parts(Pair(k, v)) = {<<k, v>>}
<1> DEFINE l == Pair(k, v)
           a == Text(k)
           b == Text(v)
           e == <<"=">>
<1>1. e \in Seq(Bytes) /\ Len(e) = 1 /\ e[1] = "=" BY DEF Bytes
<1>2. /\ a \in Seq(Bytes) /\ Len(a) = k /\ \A i \in 1 .. k : a[i] = "x"
      /\ b \in Seq(Bytes) /\ Len(b) = v /\ \A i \in 1 .. v : b[i] = "x"
  BY TextIs
<1>3. l = (a \o e) \o b BY DEF Pair
<1> HIDE DEF a, b, e, l
<1>4. /\ a \o e \in Seq(Bytes) /\ Len(a \o e) = k + 1
      /\ \A i \in 1 .. k + 1 : (a \o e)[i] = IF i <= k THEN a[i] ELSE e[i - k]
  <2>1. /\ a \o e \in Seq(Bytes) /\ Len(a \o e) = Len(a) + Len(e)
        /\ \A i \in 1 .. Len(a) + Len(e) : (a \o e)[i] = IF i <= Len(a) THEN a[i] ELSE e[i - Len(a)]
    <3>1. a \in Seq(Bytes) /\ e \in Seq(Bytes) BY <1>1, <1>2
    <3> QED BY <3>1, ConcatProperties
  <2> DEFINE c == a \o e
  <2>2. Len(c) = k + 1 /\ c \in Seq(Bytes) BY <1>1, <1>2, <2>1
  <2>3. \A i \in 1 .. k + 1 : c[i] = IF i <= k THEN a[i] ELSE e[i - k]
    BY <1>1, <1>2, <2>1
  <2> HIDE DEF c
  <2> QED BY <2>2, <2>3 DEF c
<1>5. /\ l \in Seq(Bytes) /\ Len(l) = k + 1 + v
      /\ \A i \in 1 .. k + 1 + v : l[i] = IF i <= k + 1 THEN (a \o e)[i] ELSE b[i - (k + 1)]
  <2> DEFINE c == a \o e
  <2>1. c \in Seq(Bytes) /\ Len(c) = k + 1 BY <1>4
  <2>2. l = c \o b BY <1>3
  <2> HIDE DEF c
  <2>3. /\ c \o b \in Seq(Bytes) /\ Len(c \o b) = Len(c) + Len(b)
        /\ \A i \in 1 .. Len(c) + Len(b) : (c \o b)[i] = IF i <= Len(c) THEN c[i] ELSE b[i - Len(c)]
    BY <1>2, <2>1, ConcatProperties
  <2> QED BY <1>2, <2>1, <2>2, <2>3 DEF c
<1>6. DOMAIN l = 1 .. k + 1 + v BY <1>5, LenProperties
<1>7. \A i \in 1 .. k + 1 + v : l[i] = IF i = k + 1 THEN "=" ELSE "x"
  <2> SUFFICES ASSUME NEW i \in 1 .. k + 1 + v PROVE l[i] = IF i = k + 1 THEN "=" ELSE "x"
    OBVIOUS
  <2>1. CASE i <= k
    <3>1. i \in 1 .. k /\ i \in 1 .. k + 1 /\ i # k + 1 BY <2>1
    <3> QED BY <1>2, <1>4, <1>5, <3>1, <2>1
  <2>2. CASE i = k + 1
    <3>1. i - k = 1 /\ i \in 1 .. k + 1 /\ ~(i <= k) /\ i <= k + 1 BY <2>2
    <3>2. l[i] = (a \o e)[i] BY <1>5, <3>1
    <3>3. (a \o e)[i] = e[1] BY <1>4, <3>1
    <3> QED BY <1>1, <2>2, <3>2, <3>3
  <2>3. CASE i > k + 1
    <3>1. i - (k + 1) \in 1 .. v /\ ~(i <= k + 1) /\ i # k + 1 BY <2>3
    <3> QED BY <1>2, <1>5, <3>1
  <2> QED BY <2>1, <2>2, <2>3
<1>8. Equals(l) = {k + 1}
  BY <1>6, <1>7 DEF Equals
<1>9. l # <<>>
  BY <1>5, EmptySeq
<1>10. Parts(l) = {<<k, v>>}
  <2>1. (k + 1) - 1 = k /\ Len(l) - (k + 1) = v BY <1>5
  <2> QED BY <1>8, <2>1 DEF Parts
<1> QED BY <1>5, <1>6, <1>7, <1>8, <1>9, <1>10 DEF l

\* An empty file has no lines.
LEMMA EmptyReads == Reads(<<>>, {})
<1>1. Newlines(<<>>) = {} BY DEF Newlines
<1>2. Lines(<<>>) = {} BY <1>1 DEF Lines
<1>3. <<>> \in Seq(Bytes) BY EmptySeq
<1> QED BY <1>2, <1>3 DEF Reads, Whole, Refusable, Malformed, Pairs

\* A pair more.
LEMMA PairAppend ==
    ASSUME NEW f, NEW ps, Reads(f, ps), NEW k \in Nat \ {0}, NEW v \in Nat
    PROVE  Reads(f \o (Pair(k, v) \o <<"nl">>), ps \cup {<<k, v>>})
<1> DEFINE l == Pair(k, v)
           g == f \o (l \o <<"nl">>)
<1>1. /\ l \in Seq(Bytes) /\ \A i \in DOMAIN l : l[i] # "nl"
      /\ l # <<>> /\ Equals(l) = {k + 1} /\ Parts(l) = {<<k, v>>}
  BY PairLine
<1> HIDE DEF l
<1>2. Whole(g) /\ Lines(g) = Lines(f) \cup {l}
  BY <1>1, LinesAppend DEF Reads
<1> HIDE DEF g
<1>3. 1 \notin Equals(l) BY <1>1
<1>4. ~Refusable(g)
  BY <1>1, <1>2, <1>3 DEF Reads, Refusable, Malformed
<1>5. \A h : Pairs(h) = UNION {Parts(x) : x \in Lines(h)}
  BY DEF Pairs, Parts
<1>6. Pairs(g) = Pairs(f) \cup {<<k, v>>}
  <2> HIDE DEF Parts
  <2>1. Pairs(g) = UNION {Parts(x) : x \in Lines(f) \cup {l}} BY <1>2, <1>5
  <2>2. Pairs(f) = UNION {Parts(x) : x \in Lines(f)} BY <1>5
  <2> QED BY <1>1, <2>1, <2>2
<1> QED BY <1>2, <1>4, <1>6 DEF Reads, g, l

-----------------------------------------------------------------------------
(* The rewritten file.                                                      *)

\* f flattens the first n of the sequences ss.
Flat(f, n, ss) ==
    f = [i \in 1 .. n |-> IF i = 1 THEN ss[i] ELSE f[i - 1] \o ss[i]]

\* What it holds at i.
LEMMA FlatValue ==
    ASSUME NEW f, NEW n \in Nat, NEW ss, Flat(f, n, ss), NEW i \in 1 .. n
    PROVE  f[i] = IF i = 1 THEN ss[i] ELSE f[i - 1] \o ss[i]
  BY DEF Flat

\* There is such a function, for any n.
LEMMA FlatExists ==
    ASSUME NEW ss PROVE \A n \in Nat : \E f : Flat(f, n, ss)
<1> DEFINE Bad == {n \in Nat : ~ \E f : Flat(f, n, ss)}
<1> SUFFICES ASSUME Bad # {} PROVE FALSE
  OBVIOUS
<1>1. PICK m \in Bad : \A k \in Nat : k < m => k \notin Bad
  <2>1. Bad \in SUBSET Nat OBVIOUS
  <2> HIDE DEF Bad
  <2> QED BY <2>1, Least
<1>2. m \in Nat /\ ~ \E f : Flat(f, m, ss)
  OBVIOUS
<1>3. CASE m = 0
  <2> DEFINE g == [i \in 1 .. 0 |-> ss[i]]
  <2>1. Flat(g, 0, ss) BY DEF Flat
  <2> QED BY <1>2, <1>3, <2>1
<1>4. CASE m # 0
  <2>1. m - 1 \in Nat /\ m - 1 < m BY <1>2, <1>4
  <2>2. m - 1 \notin Bad
    <3> HIDE DEF Bad
    <3> QED BY <1>1, <2>1
  <2>3. PICK f : Flat(f, m - 1, ss) BY <2>1, <2>2
  <2> DEFINE g == [i \in 1 .. m |-> IF i = 1 THEN ss[i] ELSE f[i - 1] \o ss[i]]
  <2>4. \A j \in 1 .. m - 1 : g[j] = f[j]
    BY <1>2, <2>1, <2>3, FlatValue
  <2>5. \A i \in 1 .. m : i # 1 => g[i - 1] = f[i - 1]
    <3> HIDE DEF g
    <3> QED BY <1>2, <2>4
  <2>6. g = [i \in 1 .. m |-> IF i = 1 THEN ss[i] ELSE g[i - 1] \o ss[i]]
    <3>1. \A i \in 1 .. m : (IF i = 1 THEN ss[i] ELSE f[i - 1] \o ss[i])
                          = (IF i = 1 THEN ss[i] ELSE g[i - 1] \o ss[i])
      <4> HIDE DEF g
      <4> QED BY <2>5
    <3>2. g = [i \in 1 .. m |-> IF i = 1 THEN ss[i] ELSE f[i - 1] \o ss[i]]
      OBVIOUS
    <3> HIDE DEF g
    <3> QED BY <3>1, <3>2
  <2> HIDE DEF g
  <2> QED BY <1>2, <2>6 DEF Flat
<1> QED BY <1>3, <1>4

\* FlattenSeq returns the last value of one.
LEMMA FlattenIs ==
    ASSUME NEW ss, Len(ss) \in Nat \ {0}
    PROVE  \E f : Flat(f, Len(ss), ss) /\ FlattenSeq(ss) = f[Len(ss)]
<1>1. FlattenSeq(ss) = (CHOOSE f : Flat(f, Len(ss), ss))[Len(ss)]
  BY DEF FlattenSeq, Flat
<1> QED BY <1>1, FlatExists

\* A function from 1 .. n is a sequence.
LEMMA FunctionIsSeq ==
    ASSUME NEW S, NEW n \in Nat, NEW f \in [1 .. n -> S] PROVE f \in Seq(S)
<1>1. f \in UNION {[1 .. m -> S] : m \in Nat}
  OBVIOUS
<1> QED BY <1>1, SeqDef, Zenon

\* A line for each key of o, one after the other.
LEMMA LinesWritten ==
    ASSUME NEW ks \in SUBSET (Nat \ {0}), NEW o \in Seq(ks), NEW val \in [ks -> Nat]
    PROVE  Reads(FlattenSeq([i \in DOMAIN o |-> Pair(o[i], val[o[i]]) \o <<"nl">>]),
                 {<<o[i], val[o[i]]>> : i \in DOMAIN o})
<1> DEFINE n == Len(o)
           ss == [i \in DOMAIN o |-> Pair(o[i], val[o[i]]) \o <<"nl">>]
           Upto(i) == {<<o[j], val[o[j]]>> : j \in 1 .. i}
<1>1. n \in Nat /\ DOMAIN o = 1 .. n /\ \A i \in 1 .. n : o[i] \in ks
  BY LenProperties, ElementOfSeq
<1>2. /\ DOMAIN ss = 1 .. n
      /\ \A i \in 1 .. n : ss[i] = Pair(o[i], val[o[i]]) \o <<"nl">>
  BY <1>1
<1>3. Len(ss) = n
  <2>1. \A i \in 1 .. n : ss[i] \in Seq(Bytes)
    <3> SUFFICES ASSUME NEW i \in 1 .. n PROVE ss[i] \in Seq(Bytes) OBVIOUS
    <3>1. Pair(o[i], val[o[i]]) \in Seq(Bytes) BY <1>1, PairLine
    <3>2. <<"nl">> \in Seq(Bytes) BY DEF Bytes
    <3> DEFINE l == Pair(o[i], val[o[i]])
    <3>3. ss[i] = l \o <<"nl">> BY <1>2
    <3> HIDE DEF ss, l
    <3>4. l \in Seq(Bytes) BY <3>1 DEF l
    <3> QED BY <3>2, <3>3, <3>4, ConcatProperties
  <2>2. ss = [i \in 1 .. n |-> ss[i]] BY <1>1
  <2> HIDE DEF ss
  <2>3. ss \in [1 .. n -> Seq(Bytes)] BY <2>1, <2>2
  <2>4. ss \in Seq(Seq(Bytes)) BY <1>1, <2>3, FunctionIsSeq
  <2>5. DOMAIN ss = 1 .. Len(ss) /\ Len(ss) \in Nat BY <2>4, LenProperties
  <2> HIDE DEF n
  <2> QED BY <1>1, <1>2, <2>5
<1> HIDE DEF ss
<1>4. CASE n = 0
  <2>1. ss = <<>>
    <3>1. DOMAIN ss = {} BY <1>1, <1>2, <1>4
    <3> QED BY <1>1, <1>4, <3>1 DEF ss
  <2>2. FlattenSeq(ss) = ss BY <1>3, <1>4 DEF FlattenSeq
  <2>3. {<<o[i], val[o[i]]>> : i \in DOMAIN o} = {} BY <1>1, <1>4
  <2> QED BY <2>1, <2>2, <2>3, EmptyReads DEF ss
<1>5. CASE n # 0
  <2>1. PICK f : Flat(f, n, ss) /\ FlattenSeq(ss) = f[n]
    <3> HIDE DEF n
    <3> QED BY <1>1, <1>3, <1>5, FlattenIs
  <2> DEFINE Bad == {i \in 1 .. n : ~Reads(f[i], Upto(i))}
  <2>2. Bad = {}
    <3> SUFFICES ASSUME Bad # {} PROVE FALSE
      OBVIOUS
    <3>1. PICK j \in Bad : \A i \in Nat : i < j => i \notin Bad
      <4>1. Bad \in SUBSET Nat OBVIOUS
      <4> HIDE DEF Bad
      <4> QED BY <4>1, Least
    <3>2. j \in 1 .. n /\ ~Reads(f[j], Upto(j))
      OBVIOUS
    <3> DEFINE k == o[j]
               v == val[o[j]]
               l == Pair(k, v) \o <<"nl">>
    <3>3. k \in Nat \ {0} /\ v \in Nat BY <1>1, <3>2
    <3>4. ss[j] = l BY <1>2, <3>2
    <3>5. f[j] = IF j = 1 THEN l ELSE f[j - 1] \o l
      <4> HIDE DEF l, n
      <4> QED BY <1>1, <2>1, <3>2, <3>4, FlatValue
    <3>6. CASE j = 1
      <4>1. Reads(<<>> \o l, {} \cup {<<k, v>>})
        <5> HIDE DEF k, v
        <5> QED BY <3>3, EmptyReads, PairAppend
      <4>2. <<>> \o l = l
        <5>1. Pair(k, v) \in Seq(Bytes) /\ <<"nl">> \in Seq(Bytes)
          <6> HIDE DEF k, v
          <6>1. Pair(k, v) \in Seq(Bytes) BY <3>3, PairLine
          <6> QED BY <6>1 DEF Bytes
        <5>2. l \in Seq(Bytes)
          <6> HIDE DEF k, v
          <6> QED BY <5>1, ConcatProperties
        <5> HIDE DEF l
        <5> QED BY <5>2, ConcatEmptySeq
      <4>3. Upto(j) = {<<k, v>>} BY <3>6
      <4> HIDE DEF l, k, v, Upto
      <4> QED BY <3>2, <3>5, <3>6, <4>1, <4>2, <4>3
    <3>7. CASE j # 1
      <4>1. j - 1 \in 1 .. n /\ j - 1 < j /\ j - 1 \in Nat BY <1>1, <3>2, <3>7
      <4>2. j - 1 \notin Bad
        <5> HIDE DEF Bad
        <5> QED BY <3>1, <4>1
      <4>3. Reads(f[j - 1], Upto(j - 1))
        <5> HIDE DEF Upto
        <5> QED BY <4>1, <4>2
      <4>4. Upto(j) = Upto(j - 1) \cup {<<k, v>>}
        <5>1. 1 .. j = (1 .. (j - 1)) \cup {j} BY <4>1, <3>2
        <5> QED BY <5>1
      <4>5. Reads(f[j - 1] \o l, Upto(j - 1) \cup {<<k, v>>})
        <5> HIDE DEF k, v, Upto
        <5> QED BY <3>3, <4>3, PairAppend
      <4> HIDE DEF l, k, v, Upto
      <4> QED BY <3>2, <3>5, <3>7, <4>4, <4>5
    <3> QED BY <3>6, <3>7
  <2>3. Reads(f[n], Upto(n))
    <3> HIDE DEF Upto
    <3> QED BY <1>1, <1>5, <2>2
  <2>4. Upto(n) = {<<o[i], val[o[i]]>> : i \in DOMAIN o} BY <1>1
  <2> HIDE DEF Upto
  <2> QED BY <2>1, <2>3, <2>4 DEF ss
<1> QED BY <1>4, <1>5

\* What set_value reads into.
IsMap(m) ==
    /\ DOMAIN m \in SUBSET (Nat \ {0}) /\ IsFiniteSet(DOMAIN m)
    /\ m \in [DOMAIN m -> Nat]

\* The keys up to a key tell its place, so every key has one.
LEMMA InOrderIs ==
    ASSUME NEW ks \in SUBSET Nat, IsFiniteSet(ks)
    PROVE  InOrder(ks) \in Seq(ks) /\ {InOrder(ks)[i] : i \in DOMAIN InOrder(ks)} = ks
<1> DEFINE n == Cardinality(ks)
           Below(k) == {j \in ks : j < k}
           o == InOrder(ks)
<1>1. n \in Nat
  BY FS_CardinalityType
<1>2. ASSUME NEW k \in ks
      PROVE  IsFiniteSet(Below(k)) /\ Cardinality(Below(k)) \in 0 .. n - 1
  <2>1. Below(k) \in SUBSET ks /\ Below(k) # ks BY <1>2
  <2> HIDE DEF Below, n
  <2>2. IsFiniteSet(Below(k)) /\ Cardinality(Below(k)) <= n /\ Cardinality(Below(k)) # n
    BY <2>1, FS_Subset DEF n
  <2> QED BY <1>1, <2>2, FS_CardinalityType
<1>3. ASSUME NEW j \in ks, NEW k \in ks, j < k
      PROVE  Cardinality(Below(j)) # Cardinality(Below(k))
  <2>1. Below(j) \in SUBSET Below(k) /\ j \in Below(k) /\ j \notin Below(j)
    <3>1. j \in Nat /\ k \in Nat /\ \A i \in ks : i \in Nat /\ (i < j => i < k) BY <1>3
    <3>2. ~(j < j) BY <3>1
    <3> HIDE DEF n, o
    <3>3. Below(j) \in SUBSET Below(k) BY <3>1
    <3>4. j \in Below(k) BY <1>3
    <3>5. j \notin Below(j) BY <3>2
    <3> QED BY <3>3, <3>4, <3>5
  <2> HIDE DEF Below, n
  <2> QED BY <1>2, <2>1, FS_Subset
<1> DEFINE r == [k \in ks |-> Cardinality(Below(k)) + 1]
<1>4. r \in Injection(ks, 1 .. n)
  <2>1. r \in [ks -> 1 .. n]
    <3> HIDE DEF Below, n
    <3> QED BY <1>1, <1>2
  <2>2. ASSUME NEW j \in ks, NEW k \in ks, r[j] = r[k] PROVE j = k
    <3>1. Cardinality(Below(j)) = Cardinality(Below(k))
      <4> HIDE DEF Below, n
      <4> QED BY <1>1, <1>2, <2>2
    <3>2. j < k \/ k < j \/ j = k OBVIOUS
    <3> HIDE DEF Below, n
    <3> QED BY <1>3, <3>1, <3>2
  <2> HIDE DEF r, n
  <2> QED BY <2>1, <2>2, Fun_IsInj
<1>5. r \in Surjection(ks, 1 .. n)
  <2>1. IsFiniteSet(1 .. n) /\ Cardinality(1 .. n) = n
    <3> HIDE DEF n
    <3>1. 1 \in Int /\ n \in Int BY <1>1
    <3>2. Cardinality(1 .. n) = IF 1 > n THEN 0 ELSE n - 1 + 1 BY <3>1, FS_Interval
    <3> QED BY <1>1, <3>1, <3>2, FS_Interval
  <2> HIDE DEF r
  <2> QED BY <1>4, <2>1, FS_Injection
<1>6. \A i \in 1 .. n : \E k \in ks : Cardinality(Below(k)) = i - 1
  <2> SUFFICES ASSUME NEW i \in 1 .. n PROVE \E k \in ks : Cardinality(Below(k)) = i - 1
    OBVIOUS
  <2>1. PICK k \in ks : r[k] = i
    <3> HIDE DEF r, n
    <3> QED BY <1>5 DEF Surjection
  <2>2. Cardinality(Below(k)) + 1 = i BY <2>1
  <2> HIDE DEF Below, n, r
  <2>3. Cardinality(Below(k)) \in Int BY <1>1, <1>2
  <2> QED BY <2>2, <2>3
<1>7. o = [i \in 1 .. n |-> CHOOSE k \in ks : Cardinality(Below(k)) = i - 1]
  BY DEF InOrder
<1>8. DOMAIN o = 1 .. n /\ \A i \in 1 .. n : o[i] \in ks /\ Cardinality(Below(o[i])) = i - 1
  <2> HIDE DEF Below, n, o
  <2> QED BY <1>6, <1>7
<1>9. o \in Seq(ks)
  <2>1. o \in [1 .. n -> ks]
    <3> HIDE DEF Below, n, o
    <3> QED BY <1>7, <1>8
  <2> HIDE DEF n, o
  <2> QED BY <1>1, <2>1, FunctionIsSeq
<1>10. ASSUME NEW k \in ks PROVE \E i \in DOMAIN o : o[i] = k
  <2> DEFINE i == Cardinality(Below(k)) + 1
  <2>1. i \in 1 .. n
    <3> HIDE DEF Below, n
    <3> QED BY <1>1, <1>2, <1>10
  <2>2. o[i] \in ks /\ Cardinality(Below(o[i])) = Cardinality(Below(k))
    <3> HIDE DEF Below, n, o
    <3>1. Cardinality(Below(o[i])) = i - 1 /\ o[i] \in ks BY <1>8, <2>1
    <3>2. Cardinality(Below(k)) \in Int BY <1>1, <1>2, <1>10
    <3> QED BY <3>1, <3>2
  <2> DEFINE j == o[i]
  <2> HIDE DEF i
  <2>3. j \in ks /\ Cardinality(Below(j)) = Cardinality(Below(k)) BY <2>2
  <2> HIDE DEF j
  <2>4. j < k \/ k < j \/ j = k BY <1>10, <2>3
  <2>5. j = k
    <3> HIDE DEF Below, n, o
    <3> QED BY <1>3, <1>10, <2>3, <2>4
  <2> HIDE DEF Below, n, o
  <2> QED BY <1>8, <2>1, <2>5 DEF j
<1> HIDE DEF n, o, Below
<1> QED BY <1>8, <1>9, <1>10 DEF o

\* A rewrite writes the map with the new pair.
LEMMA RewriteReads ==
    ASSUME NEW m, IsMap(m), NEW k \in Nat \ {0}, NEW v \in Nat
    PROVE  Reads(Rewrite(m, k, v), {<<x, IF x = k THEN v ELSE m[x]>> : x \in DOMAIN m \cup {k}})
<1> DEFINE ks == DOMAIN m \cup {k}
           val == [x \in ks |-> IF x = k THEN v ELSE m[x]]
           o == Order(m, k)
<1>1. ks \in SUBSET (Nat \ {0}) /\ val \in [ks -> Nat] BY DEF IsMap
<1>2. /\ InOrder(DOMAIN m) \in Seq(DOMAIN m)
      /\ {InOrder(DOMAIN m)[i] : i \in DOMAIN InOrder(DOMAIN m)} = DOMAIN m
  <2>1. DOMAIN m \in SUBSET Nat /\ IsFiniteSet(DOMAIN m) BY DEF IsMap
  <2> QED BY <2>1, InOrderIs
<1>3. o \in Seq(ks) /\ {o[i] : i \in DOMAIN o} = ks
  <2> DEFINE a == InOrder(DOMAIN m)
             b == IF k \in DOMAIN m THEN <<>> ELSE <<k>>
  <2>1. a \in Seq(ks) BY <1>2, SeqMonotonic
  <2>2. b \in Seq(ks) /\ Range(b) = IF k \in DOMAIN m THEN {} ELSE {k}
    <3>1. CASE k \in DOMAIN m
      <4>1. b = <<>> BY <3>1
      <4>2. <<>> \in Seq(ks) /\ DOMAIN <<>> = {} BY EmptySeq
      <4> HIDE DEF b
      <4> QED BY <3>1, <4>1, <4>2 DEF Range
    <3>2. CASE k \notin DOMAIN m
      <4>1. b = <<k>> BY <3>2
      <4>2. k \in ks OBVIOUS
      <4> HIDE DEF b, ks
      <4>3. <<k>> \in Seq(ks) /\ DOMAIN <<k>> = {1} /\ <<k>>[1] = k BY <4>2
      <4> QED BY <3>2, <4>1, <4>3 DEF Range
    <3> QED BY <3>1, <3>2
  <2>3. Range(a) = DOMAIN m BY <1>2 DEF Range
  <2>4. o = a \o b BY DEF Order
  <2> HIDE DEF a, b, o, ks
  <2>5. o \in Seq(ks) /\ Range(o) = Range(a) \cup Range(b)
    BY <2>1, <2>2, <2>4, ConcatProperties, RangeConcatenation
  <2> QED BY <2>2, <2>3, <2>5 DEF Range, ks
<1>4. Rewrite(m, k, v) = FlattenSeq([i \in DOMAIN o |-> Pair(o[i], val[o[i]]) \o <<"nl">>])
  <2> DEFINE V(x) == IF x = k THEN v ELSE m[x]
             w == [i \in DOMAIN o |-> Pair(o[i], V(o[i])) \o <<"nl">>]
             u == [i \in DOMAIN o |-> Pair(o[i], val[o[i]]) \o <<"nl">>]
  <2>1. Rewrite(m, k, v) = FlattenSeq(w) BY DEF Rewrite
  <2>2. \A i \in DOMAIN o : val[o[i]] = V(o[i]) BY <1>3
  <2>3. u = w
    <3> HIDE DEF o, val, V
    <3> QED BY <2>2
  <2> QED BY <2>1, <2>3
<1> DEFINE ps == {<<o[i], val[o[i]]>> : i \in DOMAIN o}
<1>5. ps = {<<x, val[x]>> : x \in ks}
  <2> HIDE DEF o, val, ks
  <2> QED BY <1>3
<1>6. ps = {<<x, IF x = k THEN v ELSE m[x]>> : x \in ks}
  <2>1. \A x \in ks : val[x] = IF x = k THEN v ELSE m[x] OBVIOUS
  <2> HIDE DEF ps, val, o, ks
  <2> QED BY <1>5, <2>1
<1> HIDE DEF o, val, ks
<1>7. Reads(Rewrite(m, k, v), ps)
  <2> DEFINE f == FlattenSeq([i \in DOMAIN o |-> Pair(o[i], val[o[i]]) \o <<"nl">>])
  <2>1. Reads(f, ps) BY <1>1, <1>3, LinesWritten
  <2>2. Rewrite(m, k, v) = f BY <1>4
  <2> HIDE DEF f, ps
  <2> QED BY <2>1, <2>2
<1> QED BY <1>6, <1>7 DEF ks

-----------------------------------------------------------------------------
(* The invariants.                                                          *)

Graph(m) == {<<k, m[k]>> : k \in DOMAIN m}

\* A file of lines, and finitely many.
Fine(f) ==
    /\ Reads(f, Pairs(f)) /\ IsFiniteSet(Pairs(f))
    /\ Pairs(f) \in SUBSET ((Nat \ {0}) \X Nat)

Typed ==
    /\ pc = [p \in Clients |-> pc[p]] /\ loaded = [p \in Clients |-> loaded[p]]
    /\ at = [p \in Clients |-> at[p]] /\ prog \in [Clients -> Programs]
    /\ stored \subseteq Sets /\ latest \in [Keys -> Nat]
    /\ \A p \in Clients : at[p] \in Nat \ {0} /\ (InSet(p) => ~Ended(p))

\* Nothing is in the file, or in a map that was read, that was not set.
Genuine ==
    ~overlaid =>
        /\ Fine(file) /\ Pairs(file) \subseteq stored
        /\ \A p \in Clients : InSet(p) => IsMap(loaded[p]) /\ Graph(loaded[p]) \subseteq stored

\* These pairs are what was set last.
Tells(ps, l) ==
    /\ \A kv \in ps : kv[1] \in Keys /\ kv[2] = l[kv[1]]
    /\ \A k \in Keys : (\A kv \in ps : kv[1] # k) => l[k] = 0

\* One set at a time, and the map it has read is the file, until it is again.
OneByOne ==
    ~raced =>
        /\ Fine(file)
        /\ \A p, q \in Clients : InSet(p) /\ InSet(q) => p = q
        /\ \A p \in Clients : InSet(p) => IsMap(loaded[p]) /\ Tells(Graph(loaded[p]), latest)
        /\ \A p \in Clients : pc[p] = "truncated" => file = <<>>
        /\ (\A p \in Clients : pc[p] # "truncated") => Tells(Pairs(file), latest)

IInv == Typed /\ Genuine /\ OneByOne

\* A key has one value, and the two of startjob's have the same.
Single(ps) == \A a, b \in ps : a[1] = b[1] => a = b
Paired(ps) == \A j \in Nat : <<NameKey, j>> \in ps <=> <<NumberKey, j>> \in ps

\* No process but startjob sets one of the two.
Plain(prg) == \A i \in DOMAIN prg : prg[i][1] \notin {NameKey, NumberKey}
OnlyStartjobs == \A prg \in Programs : Plain(prg) \/ \E j \in Nat : prg = LastJob(j)

\* One process at a time; it finds the two values paired and leaves them so, but
\* for a startjob between its two sets.
InTurn ==
    ~mixed =>
        /\ Fine(file) /\ Single(Pairs(file))
        /\ \A p, q \in Clients : Begun(p) /\ Begun(q) => p = q
        /\ \A p \in Clients : InSet(p) => IsMap(loaded[p])
        /\ \A p \in Clients : pc[p] = "truncated" => file = <<>>
        /\ (\A p \in Clients : ~Begun(p)) => Paired(Pairs(file))
        /\ \A p \in Clients : Begun(p) /\ (Plain(prog[p]) \/ at[p] = 1) =>
               /\ InSet(p) => Paired(Graph(loaded[p]))
               /\ pc[p] # "truncated" => Paired(Pairs(file))
        /\ \A p \in Clients, j \in Nat : Begun(p) /\ prog[p] = LastJob(j) /\ at[p] = 2 =>
               /\ pc[p] = "ready" => <<NameKey, j>> \in Pairs(file)
               /\ InSet(p) => <<NameKey, j>> \in Graph(loaded[p])

-----------------------------------------------------------------------------
(* What set_value reads and writes.                                         *)

\* A finite set has a finite image.
LEMMA ImageFinite ==
    ASSUME NEW S, IsFiniteSet(S), NEW T, NEW F \in [S -> T] PROVE IsFiniteSet({F[x] : x \in S})
<1> DEFINE I == {F[x] : x \in S}
<1>1. F \in [S -> I] /\ \A y \in I : \E x \in S : F[x] = y OBVIOUS
<1> HIDE DEF I
<1>2. F \in Surjection(S, I) BY <1>1, Fun_IsSurj
<1> QED BY <1>2, FS_Surjection DEF I

\* The map it reads has the pairs of the file.
LEMMA MapsAre ==
    ASSUME NEW f, Fine(f), NEW m \in Maps(f)
    PROVE  /\ IsMap(m) /\ Graph(m) \subseteq Pairs(f)
           /\ DOMAIN m = {kv[1] : kv \in Pairs(f)}
<1> DEFINE ps == Pairs(f)
           ks == {kv[1] : kv \in ps}
<1>1. /\ m \in [ks -> {kv[2] : kv \in ps}] /\ \A k \in ks : <<k, m[k]>> \in ps
  BY DEF Maps
<1>2. IsFiniteSet(ps) /\ ps \in SUBSET ((Nat \ {0}) \X Nat)
  BY DEF Fine
<1> HIDE DEF ps
<1>3. IsFiniteSet(ks)
  <2> DEFINE F == [kv \in ps |-> kv[1]]
  <2>1. F \in [ps -> Nat] BY <1>2
  <2>2. {F[kv] : kv \in ps} = ks OBVIOUS
  <2> HIDE DEF F, ks
  <2>3. IsFiniteSet({F[kv] : kv \in ps}) BY <1>2, <2>1, ImageFinite
  <2> QED BY <2>2, <2>3
<1>4. ks \in SUBSET (Nat \ {0}) /\ {kv[2] : kv \in ps} \in SUBSET Nat
  BY <1>2
<1> HIDE DEF ks
<1>5. DOMAIN m = ks BY <1>1
<1>6. IsMap(m)
  BY <1>1, <1>3, <1>4 DEF IsMap
<1>7. Graph(m) \subseteq ps
  BY <1>1, <1>5 DEF Graph
<1> QED BY <1>5, <1>6, <1>7 DEF ks, ps

\* An emptied file is one of lines, and has no pairs.
LEMMA EmptyFine == Fine(<<>>) /\ Pairs(<<>>) = {}
<1>1. Reads(<<>>, {}) BY EmptyReads
<1>2. IsFiniteSet({}) BY FS_EmptySet
<1> QED BY <1>1, <1>2 DEF Fine, Reads

\* What it writes has the pairs of the map, but for the one that it sets.
Changed(m, k, v) == {<<x, IF x = k THEN v ELSE m[x]>> : x \in DOMAIN m \cup {k}}

\* set_value writes a file of lines that has the pairs of the map it has
\* changed, and none but those of the map and the one it sets.
LEMMA RewriteFine ==
    ASSUME NEW m, IsMap(m), NEW k \in Nat \ {0}, NEW v \in Nat
    PROVE  /\ Fine(Rewrite(m, k, v)) /\ Pairs(Rewrite(m, k, v)) = Changed(m, k, v)
           /\ Changed(m, k, v) \subseteq Graph(m) \cup {<<k, v>>}
<1> DEFINE ks == DOMAIN m \cup {k}
           ps == Changed(m, k, v)
           f == Rewrite(m, k, v)
           F == [x \in ks |-> <<x, IF x = k THEN v ELSE m[x]>>]
<1>1. Reads(f, ps) BY RewriteReads DEF Changed
<1>2. IsFiniteSet(ks) BY FS_AddElement DEF IsMap
<1>3. F \in [ks -> (Nat \ {0}) \X Nat] BY DEF IsMap
<1>4. {F[x] : x \in ks} = ps BY DEF Changed
<1>5. ps \in SUBSET ((Nat \ {0}) \X Nat)
  <2> HIDE DEF F, ks, ps
  <2> QED BY <1>3, <1>4
<1>6. IsFiniteSet(ps)
  <2> DEFINE T == (Nat \ {0}) \X Nat
  <2>1. F \in [ks -> T] BY <1>3
  <2> HIDE DEF F, ks, ps, T
  <2>2. IsFiniteSet({F[x] : x \in ks}) BY <1>2, <2>1, ImageFinite
  <2> QED BY <1>4, <2>2
<1>7. ps \subseteq Graph(m) \cup {<<k, v>>}
  BY DEF Changed, Graph
<1> HIDE DEF ps, f
<1>8. Pairs(f) = ps BY <1>1 DEF Reads
<1> QED BY <1>1, <1>5, <1>6, <1>7, <1>8 DEF Fine, ps, f

\* A rewrite over something that is not longer leaves nothing of it.
LEMMA OverlayIs ==
    ASSUME NEW f, Fine(f), NEW g, Fine(g), Len(f) <= Len(g) PROVE Overlay(f, g) = g
<1>1. f \in Seq(Bytes) /\ g \in Seq(Bytes) /\ Len(f) \in Nat /\ Len(g) \in Nat
  BY LenProperties DEF Fine, Reads, Whole
<1>2. SubSeq(f, Len(g) + 1, Len(f)) = <<>>
  <2>1. Len(g) + 1 \in Int /\ Len(f) \in Int /\ Len(f) < Len(g) + 1 BY <1>1
  <2> QED BY <2>1, SubSeqEmpty
<1> QED BY <1>1, <1>2, ConcatEmptySeq DEF Overlay

\* The set that a process is at.
LEMMA SetOf ==
    ASSUME Typed, NEW p \in Clients, ~Ended(p)
    PROVE  /\ at[p] \in DOMAIN prog[p] /\ prog[p][at[p]] \in Sets
           /\ prog[p][at[p]] = <<prog[p][at[p]][1], prog[p][at[p]][2]>>
           /\ prog[p][at[p]][1] \in Nat \ {0} /\ prog[p][at[p]][1] \in Keys
           /\ prog[p][at[p]][2] \in Nat
<1> DEFINE g == prog[p]
           s == prog[p][at[p]]
<1>1. g \in Programs /\ g \in Seq((Nat \ {0}) \X Nat)
  BY StoreAssumption DEF Typed
<1>2. Len(g) \in Nat /\ DOMAIN g = 1 .. Len(g) /\ at[p] \in 1 .. Len(g)
  <2>1. at[p] \in Nat \ {0} /\ ~(at[p] > Len(g)) BY DEF Typed, Ended
  <2> HIDE DEF g
  <2>2. Len(g) \in Nat /\ DOMAIN g = 1 .. Len(g) BY <1>1, LenProperties
  <2> QED BY <2>1, <2>2
<1>3. s \in (Nat \ {0}) \X Nat
  <2> HIDE DEF g
  <2>1. g[at[p]] \in (Nat \ {0}) \X Nat BY <1>1, <1>2, ElementOfSeq
  <2> QED BY <2>1 DEF g
<1>4. s \in Sets
  <2>1. s \in Range(g) BY <1>2 DEF Range
  <2> HIDE DEF g, s
  <2> QED BY <1>1, <2>1 DEF Sets
<1>5. s[1] \in Keys BY <1>4 DEF Keys
<1> QED BY <1>2, <1>3, <1>4, <1>5

-----------------------------------------------------------------------------
(* Each set keeps the invariants.                                           *)

\* Nothing is in the file at first, and nobody has begun.
LEMMA InitInv == Init => IInv
<1> SUFFICES ASSUME Init PROVE IInv OBVIOUS
<1>1. file = <<>> /\ Fine(file) /\ Pairs(file) = {} BY EmptyFine DEF Init
<1>2. \A p \in Clients : pc[p] = "ready" /\ at[p] = 1 BY DEF Init
<1>3. Typed
  <2>1. pc = [p \in Clients |-> pc[p]] BY DEF Init
  <2>2. loaded = [p \in Clients |-> loaded[p]] /\ at = [p \in Clients |-> at[p]] BY DEF Init
  <2> QED BY <1>2, <2>1, <2>2 DEF Init, Typed, InSet
<1>4. Tells(Pairs(file), latest) BY <1>1 DEF Init, Tells
<1> QED BY <1>1, <1>2, <1>3, <1>4 DEF IInv, Genuine, OneByOne, InSet

\* A process that is in a set is at one of its sets.
LEMMA TypedStep == ASSUME Typed, [Next]_vars PROVE Typed'
<1>1. ASSUME NEW p \in Clients, Load(p) PROVE Typed'
  <2>1. /\ pc' = [pc EXCEPT ![p] = "loaded"] /\ ~Ended(p)
        /\ UNCHANGED <<prog, at, stored, latest>>
    BY <1>1 DEF Load, Moves
  <2>2. PICK m : loaded' = [loaded EXCEPT ![p] = m] BY <1>1 DEF Load
  <2> QED BY <2>1, <2>2 DEF Typed, InSet, Ended
<1>2. ASSUME NEW p \in Clients, LoadRefused(p) \/ Truncate(p) \/ Kill(p) PROVE Typed'
  <2>1. UNCHANGED <<prog, at, stored, latest, loaded>>
    BY <1>2 DEF LoadRefused, Truncate, Kill, histVars
  <2>2. \/ pc' = [pc EXCEPT ![p] = "failed"]
        \/ pc' = [pc EXCEPT ![p] = "truncated"] /\ InSet(p)
    BY <1>2 DEF LoadRefused, Truncate, Kill, Moves, InSet
  <2> QED BY <2>1, <2>2 DEF Typed, InSet, Ended
<1>3. ASSUME NEW p \in Clients, Store(p) PROVE Typed'
  <2> DEFINE k == prog[p][at[p]][1]
             v == prog[p][at[p]][2]
  <2>1. /\ pc' = [pc EXCEPT ![p] = "ready"] /\ pc[p] = "truncated"
        /\ stored' = stored \cup {<<k, v>>} /\ latest' = [latest EXCEPT ![k] = v]
        /\ at' = [at EXCEPT ![p] = @ + 1] /\ UNCHANGED <<prog, loaded>>
    BY <1>3 DEF Store, Moves
  <2>2. ~Ended(p) BY <2>1 DEF Typed, InSet
  <2>3. <<k, v>> \in Sets /\ k \in Keys /\ v \in Nat BY <2>2, SetOf
  <2> HIDE DEF k, v
  <2>4. stored' \subseteq Sets /\ latest' \in [Keys -> Nat] BY <2>1, <2>3 DEF Typed
  <2>5. \A q \in Clients : at'[q] \in Nat \ {0}
    <3>1. \A q \in Clients : at'[q] = IF q = p THEN at[q] + 1 ELSE at[q] BY <2>1 DEF Typed
    <3>2. \A q \in Clients : at[q] \in Nat \ {0} BY DEF Typed
    <3> QED BY <3>1, <3>2
  <2>6. \A q \in Clients : InSet(q)' => q # p /\ InSet(q) BY <2>1 DEF Typed, InSet
  <2>7. \A q \in Clients : q # p /\ ~Ended(q) => ~Ended(q)' BY <2>1 DEF Typed, Ended
  <2> QED BY <2>1, <2>4, <2>5, <2>6, <2>7 DEF Typed
<1>4. CASE UNCHANGED vars
  BY <1>4 DEF Typed, InSet, Ended, vars, clientVars, histVars
<1> QED BY <1>1, <1>2, <1>3, <1>4 DEF Next, Done

\* Processes that do not move stay where they are.
Stays(q) == pc'[q] = pc[q] /\ at'[q] = at[q] /\ prog'[q] = prog[q] /\ loaded'[q] = loaded[q]

\* What a read does, to the process and to the others.
LEMMA LoadIs ==
    ASSUME Typed, NEW p \in Clients, Load(p)
    PROVE  /\ pc[p] = "ready" /\ pc'[p] = "loaded" /\ ~Ended(p) /\ loaded'[p] \in Maps(file)
           /\ ~raced' => ~raced /\ \A q \in Clients : q # p => ~InSet(q)
           /\ ~mixed' => ~mixed /\ \A q \in Clients : q # p => ~Begun(q)
           /\ \A q \in Clients : q # p => Stays(q)
           /\ at'[p] = at[p] /\ UNCHANGED <<file, prog, stored, latest, overlaid>>
<1>1. pc[p] = "ready" /\ pc' = [pc EXCEPT ![p] = "loaded"] BY DEF Load, Moves
<1>2. PICK m \in Maps(file) : loaded' = [loaded EXCEPT ![p] = m] BY DEF Load
<1>3. UNCHANGED <<file, prog, at, stored, latest, overlaid>> BY DEF Load
<1>4. loaded'[p] = m /\ pc'[p] = "loaded" BY <1>1, <1>2 DEF Typed
<1>5. \A q \in Clients : q # p => Stays(q) BY <1>1, <1>2, <1>3 DEF Typed, Stays
<1>6. /\ ~raced' => ~raced /\ \A q \in Clients : q # p => ~InSet(q)
      /\ ~mixed' => ~mixed /\ \A q \in Clients : q # p => ~Begun(q)
  BY Zenon DEF Load
<1>7. ~Ended(p) BY DEF Load
<1> QED BY <1>1, <1>2, <1>3, <1>4, <1>5, <1>6, <1>7

\* What emptying the file does.
LEMMA TruncateIs ==
    ASSUME Typed, NEW p \in Clients, Truncate(p)
    PROVE  /\ pc[p] = "loaded" /\ pc'[p] = "truncated" /\ file' = <<>>
           /\ \A q \in Clients : q # p => Stays(q)
           /\ UNCHANGED <<prog, at, loaded, stored, latest, raced, overlaid, mixed>>
  BY DEF Truncate, Moves, Typed, Stays, histVars

\* A process that ends with an error, or is killed, leaves the file as it is.
Stops(p) ==
    /\ ~Ended(p) /\ pc'[p] = "failed"
    /\ ~raced' => ~raced /\ pc[p] # "truncated"
    /\ \A q \in Clients : q # p => Stays(q)
    /\ UNCHANGED <<file, prog, at, loaded, stored, latest, overlaid, mixed>>

\* A refused set and a kill are such ends.
LEMMA StopsIs ==
    ASSUME Typed, NEW p \in Clients, LoadRefused(p) \/ Kill(p) PROVE Stops(p)
<1>1. pc' = [pc EXCEPT ![p] = "failed"] /\ ~Ended(p) BY DEF LoadRefused, Kill, Moves
<1>2. UNCHANGED <<file, prog, at, loaded, stored, latest, overlaid, mixed>>
  BY DEF LoadRefused, Kill, histVars
<1>3. ~raced' => ~raced /\ pc[p] # "truncated"
  <2>1. CASE LoadRefused(p)
    <3>1. pc[p] = "ready" /\ raced' = raced BY <2>1 DEF LoadRefused, Moves, histVars
    <3> QED BY <3>1
  <2>2. CASE Kill(p)
    <3>1. raced' = (raced \/ pc[p] = "truncated") BY <2>2 DEF Kill
    <3> QED BY <3>1, Zenon
  <2> QED BY <2>1, <2>2
<1>4. pc'[p] = "failed" /\ \A q \in Clients : q # p => Stays(q)
  BY <1>1, <1>2 DEF Typed, Stays
<1> QED BY <1>1, <1>2, <1>3, <1>4 DEF Stops

\* What Store writes, if nothing longer is under it.
LEMMA StoreIs ==
    ASSUME Typed, NEW p \in Clients, Store(p), IsMap(loaded[p]), Fine(file),
           NEW k, k = prog[p][at[p]][1], NEW v, v = prog[p][at[p]][2],
           ~overlaid' \/ file = <<>>
    PROVE  /\ k \in Keys /\ Fine(file') /\ Pairs(file') = Changed(loaded[p], k, v)
           /\ Changed(loaded[p], k, v) \subseteq Graph(loaded[p]) \cup {<<k, v>>}
<1> DEFINE new == Rewrite(loaded[p], k, v)
<1>1. pc[p] = "truncated" /\ file' = Overlay(file, new)
  BY DEF Store, Moves
<1>2. k \in Nat \ {0} /\ k \in Keys /\ v \in Nat
  <2>1. ~Ended(p) BY <1>1 DEF Typed, InSet
  <2> QED BY <2>1, SetOf
<1>3. /\ Fine(new) /\ Pairs(new) = Changed(loaded[p], k, v)
      /\ Changed(loaded[p], k, v) \subseteq Graph(loaded[p]) \cup {<<k, v>>}
  BY <1>2, RewriteFine
<1> HIDE DEF new
<1>4. Len(file) \in Nat /\ Len(new) \in Nat
  BY <1>3, LenProperties DEF Fine, Reads, Whole
<1>5. Len(file) <= Len(new)
  <2>1. CASE ~overlaid'
    <3>1. overlaid' = (overlaid \/ Len(file) > Len(new)) BY DEF Store, new
    <3>2. ~(Len(file) > Len(new)) BY <2>1, <3>1, Zenon
    <3> QED BY <1>4, <3>2
  <2>2. CASE file = <<>>
    <3>1. Len(file) = 0 BY <2>2
    <3> QED BY <1>4, <3>1
  <2> QED BY <2>1, <2>2
<1>6. file' = new BY <1>1, <1>3, <1>5, OverlayIs
<1> QED BY <1>2, <1>3, <1>6

\* What a write does to all but the file.
LEMMA StoreMoves ==
    ASSUME Typed, NEW p \in Clients, Store(p)
    PROVE  /\ pc[p] = "truncated" /\ InSet(p) /\ ~Ended(p) /\ pc'[p] = "ready"
           /\ at'[p] = at[p] + 1 /\ \A q \in Clients : q # p => Stays(q)
           /\ stored' = stored \cup {<<prog[p][at[p]][1], prog[p][at[p]][2]>>}
           /\ latest' = [latest EXCEPT ![prog[p][at[p]][1]] = prog[p][at[p]][2]]
           /\ ~overlaid' => ~overlaid
           /\ UNCHANGED <<prog, loaded, raced, mixed>>
<1>1. pc[p] = "truncated" /\ pc' = [pc EXCEPT ![p] = "ready"] BY DEF Store, Moves
<1>2. at' = [at EXCEPT ![p] = @ + 1] /\ UNCHANGED <<prog, loaded, raced, mixed>> BY DEF Store
<1>3. pc'[p] = "ready" /\ at'[p] = at[p] + 1 /\ \A q \in Clients : q # p => Stays(q)
  BY <1>1, <1>2 DEF Typed, Stays
<1>4. InSet(p) /\ ~Ended(p) BY <1>1 DEF InSet, Typed
<1>5. /\ stored' = stored \cup {<<prog[p][at[p]][1], prog[p][at[p]][2]>>}
      /\ latest' = [latest EXCEPT ![prog[p][at[p]][1]] = prog[p][at[p]][2]]
  BY DEF Store
<1>6. ~overlaid' => ~overlaid
  <2>1. \E n : overlaid' = (overlaid \/ Len(file) > n) BY DEF Store
  <2> QED BY <2>1, Zenon
<1> QED BY <1>1, <1>2, <1>3, <1>4, <1>5, <1>6

\* The pairs of a map.
LEMMA GraphIs ==
    ASSUME NEW m
    PROVE  /\ \A x, y : <<x, y>> \in Graph(m) <=> x \in DOMAIN m /\ y = m[x]
           /\ \A kv \in Graph(m) : kv = <<kv[1], kv[2]>>
  BY DEF Graph

\* The pairs of a changed map.
LEMMA ChangedIs ==
    ASSUME NEW m, NEW k, NEW v
    PROVE  /\ \A x, y : <<x, y>> \in Changed(m, k, v) <=>
                  IF x = k THEN y = v ELSE x \in DOMAIN m /\ y = m[x]
           /\ \A kv \in Changed(m, k, v) : kv = <<kv[1], kv[2]>>
  BY DEF Changed

\* It differs from the map in the key that is set.
LEMMA ChangedGraph ==
    ASSUME NEW m, NEW k, NEW v
    PROVE  \A x, y : <<x, y>> \in Changed(m, k, v) <=>
                         IF x = k THEN y = v ELSE <<x, y>> \in Graph(m)
<1>1. \A x, y : <<x, y>> \in Changed(m, k, v) <=>
                    IF x = k THEN y = v ELSE x \in DOMAIN m /\ y = m[x]
  BY ChangedIs
<1>2. \A x, y : <<x, y>> \in Graph(m) <=> x \in DOMAIN m /\ y = m[x]
  BY GraphIs
<1> QED BY <1>1, <1>2

\* With tuples for pairs.
LEMMA PairwiseTells ==
    ASSUME NEW ps, \A kv \in ps : kv = <<kv[1], kv[2]>>, NEW l
    PROVE  Tells(ps, l) <=> /\ \A x, y : <<x, y>> \in ps => x \in Keys /\ y = l[x]
                            /\ \A x \in Keys : (\A y : <<x, y>> \notin ps) => l[x] = 0
<1>1. \A x, y : <<x, y>>[1] = x /\ <<x, y>>[2] = y OBVIOUS
<1>2. (\A kv \in ps : kv[1] \in Keys /\ kv[2] = l[kv[1]])
      <=> \A x, y : <<x, y>> \in ps => x \in Keys /\ y = l[x]
  BY <1>1
<1>3. ASSUME NEW x PROVE (\A kv \in ps : kv[1] # x) <=> \A y : <<x, y>> \notin ps
  BY <1>1
<1> QED BY <1>2, <1>3 DEF Tells

\* A relation that is a function has one value for a key.
LEMMA PairwiseSingle ==
    ASSUME NEW ps, \A kv \in ps : kv = <<kv[1], kv[2]>>,
           \A x, y, z : <<x, y>> \in ps /\ <<x, z>> \in ps => y = z
    PROVE  Single(ps)
<1> SUFFICES ASSUME NEW a \in ps, NEW b \in ps, a[1] = b[1] PROVE a = b
  BY DEF Single
<1>1. <<a[1], a[2]>> \in ps /\ <<a[1], b[2]>> \in ps OBVIOUS
<1>2. a[2] = b[2] BY <1>1
<1> QED BY <1>2

\* What tells the last value of a key has one value for it.
LEMMA TellsSingle ==
    ASSUME NEW ps, \A kv \in ps : kv = <<kv[1], kv[2]>>, NEW l, Tells(ps, l) PROVE Single(ps)
  BY PairwiseTells, PairwiseSingle

\* A changed map has one value for a key.
LEMMA SingleChanged == ASSUME NEW m, NEW k, NEW v PROVE Single(Changed(m, k, v))
<1> DEFINE ps == Changed(m, k, v)
<1>1. \A kv \in ps : kv = <<kv[1], kv[2]>> BY ChangedIs
<1>2. \A x, y : <<x, y>> \in ps <=> IF x = k THEN y = v ELSE x \in DOMAIN m /\ y = m[x]
  BY ChangedIs
<1> HIDE DEF ps
<1>3. \A x, y, z : <<x, y>> \in ps /\ <<x, z>> \in ps => y = z BY <1>2
<1>4. Single(ps) BY <1>1, <1>3, PairwiseSingle
<1> QED BY <1>4 DEF ps

\* One line for a key, and the map that is read is the file.
LEMMA MapIsFile ==
    ASSUME NEW f, Fine(f), Single(Pairs(f)), NEW m \in Maps(f)
    PROVE  IsMap(m) /\ Graph(m) = Pairs(f)
<1>1. IsMap(m) /\ Graph(m) \subseteq Pairs(f) /\ DOMAIN m = {kv[1] : kv \in Pairs(f)}
  BY MapsAre
<1>2. ASSUME NEW kv \in Pairs(f) PROVE kv \in Graph(m)
  <2>1. kv[1] \in DOMAIN m BY <1>1
  <2>2. <<kv[1], m[kv[1]]>> \in Graph(m) /\ <<kv[1], m[kv[1]]>>[1] = kv[1]
    BY <2>1, GraphIs
  <2>3. <<kv[1], m[kv[1]]>> \in Pairs(f) BY <1>1, <2>2
  <2>4. kv = <<kv[1], m[kv[1]]>> BY <2>2, <2>3 DEF Single
  <2> QED BY <2>2, <2>4
<1> QED BY <1>1, <1>2

\* A map that tells what was last set does so after a set.
LEMMA TellsChanged ==
    ASSUME NEW m, NEW l \in [Keys -> Nat], Tells(Graph(m), l), NEW k \in Keys, NEW v \in Nat
    PROVE  Tells(Changed(m, k, v), [l EXCEPT ![k] = v])
<1> DEFINE ps == Changed(m, k, v)
           g == Graph(m)
           n == [l EXCEPT ![k] = v]
<1>1. /\ \A x, y : <<x, y>> \in ps <=> IF x = k THEN y = v ELSE <<x, y>> \in g
      /\ \A kv \in ps : kv = <<kv[1], kv[2]>>
  BY ChangedIs, ChangedGraph
<1>2. /\ \A x, y : <<x, y>> \in g => x \in Keys /\ y = l[x]
      /\ \A x \in Keys : (\A y : <<x, y>> \notin g) => l[x] = 0
  BY GraphIs, PairwiseTells
<1>3. \A x \in Keys : n[x] = IF x = k THEN v ELSE l[x] OBVIOUS
<1> HIDE DEF ps, g, n
<1>4. \A x, y : <<x, y>> \in ps => x \in Keys /\ y = n[x] BY <1>1, <1>2, <1>3
<1>5. \A x \in Keys : (\A y : <<x, y>> \notin ps) => n[x] = 0
  <2> SUFFICES ASSUME NEW x \in Keys, \A y : <<x, y>> \notin ps PROVE n[x] = 0 OBVIOUS
  <2>1. x # k BY <1>1
  <2>2. \A y : <<x, y>> \notin g BY <1>1, <2>1
  <2> QED BY <1>2, <1>3, <2>1, <2>2
<1>6. Tells(ps, n) BY <1>1, <1>4, <1>5, PairwiseTells
<1> QED BY <1>6 DEF ps, n

-----------------------------------------------------------------------------
(* What the file says.                                                      *)

\* A map that is read has pairs of the file; a write that is not shorter than
\* what is under it leaves those of the map and the one that is set.
LEMMA GenuineStep == ASSUME Typed, Genuine, [Next]_vars PROVE Genuine'
<1> SUFFICES ASSUME ~overlaid'
             PROVE  /\ Fine(file') /\ Pairs(file') \subseteq stored'
                    /\ \A q \in Clients : InSet(q)' =>
                           IsMap(loaded'[q]) /\ Graph(loaded'[q]) \subseteq stored'
  BY DEF Genuine
<1>1. ASSUME ~overlaid
      PROVE  /\ Fine(file) /\ Pairs(file) \subseteq stored
             /\ \A q \in Clients : InSet(q) =>
                    IsMap(loaded[q]) /\ Graph(loaded[q]) \subseteq stored
  BY <1>1 DEF Genuine
<1>2. ASSUME NEW p \in Clients, Load(p) PROVE Genuine'
  <2>1. /\ pc'[p] = "loaded" /\ loaded'[p] \in Maps(file) /\ ~overlaid
        /\ \A q \in Clients : q # p => Stays(q)
        /\ file' = file /\ stored' = stored
    BY <1>2, LoadIs
  <2>2. IsMap(loaded'[p]) /\ Graph(loaded'[p]) \subseteq stored
    BY <1>1, <2>1, MapsAre
  <2> QED BY <1>1, <2>1, <2>2 DEF Genuine, Stays, InSet
<1>3. ASSUME NEW p \in Clients, Truncate(p) PROVE Genuine'
  <2>1. /\ pc[p] = "loaded" /\ pc'[p] = "truncated" /\ file' = <<>> /\ ~overlaid
        /\ \A q \in Clients : q # p => Stays(q)
        /\ loaded' = loaded /\ stored' = stored
    BY <1>3, TruncateIs
  <2> QED BY <1>1, <2>1, EmptyFine DEF Genuine, Stays, InSet
<1>4. ASSUME NEW p \in Clients, LoadRefused(p) \/ Kill(p) PROVE Genuine'
  <2>1. Stops(p) BY <1>4, StopsIs
  <2>2. ~overlaid BY <2>1 DEF Stops
  <2> QED BY <1>1, <2>1, <2>2 DEF Genuine, Stops, Stays, InSet
<1>5. ASSUME NEW p \in Clients, Store(p) PROVE Genuine'
  <2> DEFINE k == prog[p][at[p]][1]
             v == prog[p][at[p]][2]
  <2>1. /\ InSet(p) /\ pc'[p] = "ready" /\ ~overlaid /\ loaded' = loaded
        /\ \A q \in Clients : q # p => Stays(q)
        /\ stored' = stored \cup {<<k, v>>}
    BY <1>5, StoreMoves
  <2>2. /\ Fine(file') /\ Pairs(file') = Changed(loaded[p], k, v)
        /\ Changed(loaded[p], k, v) \subseteq Graph(loaded[p]) \cup {<<k, v>>}
    BY <1>1, <1>5, <2>1, StoreIs
  <2> HIDE DEF k, v
  <2> QED BY <1>1, <2>1, <2>2 DEF Genuine, Stays, InSet
<1>6. CASE UNCHANGED vars
  BY <1>1, <1>6 DEF Genuine, InSet, vars, clientVars, histVars
<1> QED BY <1>2, <1>3, <1>4, <1>5, <1>6 DEF Next, Done, Genuine

\* The one process in a set has read the file as it was before its set; it is
\* empty when it writes it.
LEMMA OneByOneStep == ASSUME Typed, OneByOne, [Next]_vars PROVE OneByOne'
<1> SUFFICES ASSUME ~raced' PROVE OneByOne'
  BY DEF OneByOne
<1>1. ASSUME ~raced
      PROVE  /\ Fine(file)
             /\ \A p, q \in Clients : InSet(p) /\ InSet(q) => p = q
             /\ \A p \in Clients : InSet(p) => IsMap(loaded[p]) /\ Tells(Graph(loaded[p]), latest)
             /\ \A p \in Clients : pc[p] = "truncated" => file = <<>>
             /\ (\A p \in Clients : pc[p] # "truncated") => Tells(Pairs(file), latest)
  BY <1>1 DEF OneByOne
<1>2. ASSUME NEW p \in Clients, Load(p) PROVE OneByOne'
  <2>1. /\ pc[p] = "ready" /\ pc'[p] = "loaded" /\ loaded'[p] \in Maps(file) /\ ~raced
        /\ \A q \in Clients : q # p => Stays(q) /\ ~InSet(q)
        /\ file' = file /\ latest' = latest
    BY <1>2, LoadIs
  <2>2. \A q \in Clients : pc[q] # "truncated" /\ pc'[q] # "truncated"
    BY <2>1 DEF InSet, Stays
  <2>3. Fine(file) /\ Tells(Pairs(file), latest) BY <1>1, <2>1, <2>2
  <2>4. Single(Pairs(file))
    <3>1. \A kv \in Pairs(file) : kv = <<kv[1], kv[2]>> BY <2>3 DEF Fine
    <3> QED BY <2>3, <3>1, TellsSingle
  <2>5. IsMap(loaded'[p]) /\ Tells(Graph(loaded'[p]), latest)
    BY <2>1, <2>3, <2>4, MapIsFile
  <2>6. \A q \in Clients : InSet(q)' => q = p BY <2>1 DEF InSet, Stays
  <2> QED BY <2>1, <2>2, <2>3, <2>4, <2>5, <2>6 DEF OneByOne
<1>3. ASSUME NEW p \in Clients, Truncate(p) PROVE OneByOne'
  <2>1. /\ pc[p] = "loaded" /\ pc'[p] = "truncated" /\ file' = <<>> /\ ~raced
        /\ \A q \in Clients : q # p => Stays(q)
        /\ loaded' = loaded /\ latest' = latest
    BY <1>3, TruncateIs
  <2>2. \A q \in Clients : InSet(q)' <=> InSet(q) BY <2>1 DEF InSet, Stays
  <2> QED BY <1>1, <2>1, <2>2, EmptyFine DEF OneByOne
<1>4. ASSUME NEW p \in Clients, LoadRefused(p) \/ Kill(p) PROVE OneByOne'
  <2>1. Stops(p) BY <1>4, StopsIs
  <2>2. ~raced /\ pc[p] # "truncated" BY <2>1 DEF Stops
  <2>3. \A q \in Clients : /\ InSet(q)' => InSet(q)
                           /\ pc'[q] = "truncated" <=> pc[q] = "truncated"
    BY <2>1, <2>2 DEF Stops, Stays, InSet
  <2>4. UNCHANGED <<file, loaded, latest>> BY <2>1 DEF Stops
  <2> QED BY <1>1, <2>2, <2>3, <2>4 DEF OneByOne
<1>5. ASSUME NEW p \in Clients, Store(p) PROVE OneByOne'
  <2> DEFINE k == prog[p][at[p]][1]
             v == prog[p][at[p]][2]
             m == loaded[p]
  <2>1. /\ pc[p] = "truncated" /\ InSet(p) /\ pc'[p] = "ready" /\ ~raced
        /\ \A q \in Clients : q # p => Stays(q)
        /\ latest' = [latest EXCEPT ![k] = v]
    BY <1>5, StoreMoves
  <2>2. IsMap(m) /\ Tells(Graph(m), latest) /\ file = <<>> /\ Fine(file)
    BY <1>1, <2>1
  <2>3. k \in Keys /\ Fine(file') /\ Pairs(file') = Changed(m, k, v)
    BY <1>5, <2>2, StoreIs
  <2>4. \A q \in Clients : ~InSet(q)'
    BY <1>1, <2>1 DEF InSet, Stays
  <2> HIDE DEF k, v, m
  <2>5. latest \in [Keys -> Nat] BY DEF Typed
  <2>6. v \in Nat
    <3>1. ~Ended(p) BY <1>5, StoreMoves
    <3> QED BY <3>1, SetOf DEF v
  <2>7. Tells(Pairs(file'), latest')
    <3>1. Tells(Changed(m, k, v), [latest EXCEPT ![k] = v])
      BY <2>2, <2>3, <2>5, <2>6, TellsChanged
    <3> QED BY <2>1, <2>3, <3>1
  <2> QED BY <2>3, <2>4, <2>7 DEF OneByOne, InSet
<1>6. CASE UNCHANGED vars
  BY <1>6 DEF OneByOne, InSet, vars, clientVars, histVars
<1> QED BY <1>2, <1>3, <1>4, <1>5, <1>6 DEF Next, Done

\* The invariants hold in every state.
LEMMA IInvAlways == Spec => []IInv
<1>1. IInv /\ [Next]_vars => IInv'
  BY TypedStep, GenuineStep, OneByOneStep DEF IInv
<1> QED BY <1>1, InitInv, PTL DEF Spec

\* What a reader finds, when the file says one thing of a key.
LEMMA ResultOf ==
    ASSUME NEW f, Fine(f), Single(Pairs(f)), NEW k, NEW v,
           IF \E kv \in Pairs(f) : kv[1] = k THEN <<k, v>> \in Pairs(f) ELSE v = 0
    PROVE  Results(f, k) = {v}
<1> DEFINE ps == Pairs(f)
           ks == {kv[1] : kv \in ps}
           m0 == [x \in ks |-> (CHOOSE kv \in ps : kv[1] = x)[2]]
<1>1. \A x \in ks : \E kv \in ps : kv[1] = x
  OBVIOUS
<1>2. \A kv \in ps : kv = <<kv[1], kv[2]>>
  BY DEF Fine
<1>3. m0 \in Maps(f)
  <2> HIDE DEF ps
  <2>1. \A x \in ks : <<x, m0[x]>> \in ps /\ m0[x] \in {kv[2] : kv \in ps}
    <3> SUFFICES ASSUME NEW x \in ks PROVE <<x, m0[x]>> \in ps /\ m0[x] \in {kv[2] : kv \in ps}
      OBVIOUS
    <3> DEFINE c == CHOOSE kv \in ps : kv[1] = x
    <3>1. c \in ps /\ c[1] = x BY <1>1
    <3>2. m0[x] = c[2] OBVIOUS
    <3> HIDE DEF c, m0, ks
    <3> QED BY <1>2, <3>1, <3>2
  <2>2. m0 \in [ks -> {kv[2] : kv \in ps}]
    <3>1. m0 = [x \in ks |-> m0[x]] OBVIOUS
    <3> HIDE DEF m0, ks
    <3> QED BY <2>1, <3>1
  <2> HIDE DEF m0
  <2> QED BY <2>1, <2>2 DEF Maps, ps
<1>4. \A m \in Maps(f) : DOMAIN m = ks /\ \A x \in ks : <<x, m[x]>> \in ps
  BY DEF Maps
<1>5. \A m \in Maps(f) : (IF k \in DOMAIN m THEN m[k] ELSE 0) = v
  <2> SUFFICES ASSUME NEW m \in Maps(f) PROVE (IF k \in DOMAIN m THEN m[k] ELSE 0) = v
    OBVIOUS
  <2>1. CASE k \in ks
    <3>1. <<k, v>> \in ps /\ <<k, m[k]>> \in ps BY <1>1, <1>4, <2>1
    <3>2. <<k, v>> = <<k, m[k]>> BY <3>1 DEF Single
    <3> HIDE DEF ks
    <3> QED BY <1>4, <2>1, <3>2
  <2>2. CASE k \notin ks
    <3>1. v = 0 BY <2>2
    <3> QED BY <1>4, <2>2, <3>1
  <2> QED BY <2>1, <2>2
<1> HIDE DEF m0
<1> QED BY <1>3, <1>5 DEF Results

\* Whatever processes set, in whatever order and however they overlap, a reader
\* sees only pairs that were set, unless a rewrite was shorter than what it was
\* written over (set_value, get_value).
THEOREM NothingMadeUp == Spec => []NothingInvented
<1>1. IInv => NothingInvented
  BY DEF IInv, Genuine, NothingInvented, Fine, Reads
<1> QED BY <1>1, IInvAlways, PTL

\* As long as no two sets overlap, and none is cut in half, the file says of
\* every key the value last set for it (set_value).
THEOREM LastValueKept == Spec => []Durable
<1>1. IInv => Durable
  <2> SUFFICES ASSUME IInv, ~raced, \A p \in Clients : pc[p] # "truncated"
               PROVE  ~Refusable(file) /\ \A k \in Keys : Results(file, k) = {latest[k]}
    BY DEF Durable
  <2>1. Fine(file) /\ Tells(Pairs(file), latest) BY DEF IInv, OneByOne
  <2>2. \A kv \in Pairs(file) : kv = <<kv[1], kv[2]>> BY <2>1 DEF Fine
  <2>3. Single(Pairs(file)) BY <2>1, <2>2, TellsSingle
  <2>4. ASSUME NEW k \in Keys PROVE Results(file, k) = {latest[k]}
    <3>1. IF \E kv \in Pairs(file) : kv[1] = k THEN <<k, latest[k]>> \in Pairs(file)
                                              ELSE latest[k] = 0
      BY <2>1, <2>2 DEF Tells
    <3> QED BY <2>1, <2>3, <3>1, ResultOf
  <2> QED BY <2>1, <2>4 DEF Fine, Reads
<1> QED BY <1>1, IInvAlways, PTL

-----------------------------------------------------------------------------
(* startjob's pair.                                                         *)

\* A set of another key leaves the two as they are; the set of the number
\* after the name makes them the same.
LEMMA PairedChanged ==
    ASSUME NEW m, NEW k, NEW v \in Nat
    PROVE  /\ k \notin {NameKey, NumberKey} /\ Paired(Graph(m)) => Paired(Changed(m, k, v))
           /\ k = NumberKey /\ <<NameKey, v>> \in Graph(m) => Paired(Changed(m, k, v))
<1> DEFINE ps == Changed(m, k, v)
           g == Graph(m)
<1>1. \A x, y : <<x, y>> \in ps <=> IF x = k THEN y = v ELSE <<x, y>> \in g
  BY ChangedGraph
<1>2. \A x, y, z : <<x, y>> \in g /\ <<x, z>> \in g => y = z
  BY GraphIs
<1> HIDE DEF ps, g
<1>3. k \notin {NameKey, NumberKey} /\ Paired(g) => Paired(ps)
  BY <1>1 DEF Paired
<1>4. k = NumberKey /\ <<NameKey, v>> \in g => Paired(ps)
  BY <1>1, <1>2, StoreAssumption DEF Paired
<1> QED BY <1>3, <1>4 DEF ps, g

\* What startjob sets.
LEMMA LastJobIs ==
    ASSUME NEW j
    PROVE  /\ ~Plain(LastJob(j)) /\ Len(LastJob(j)) = 2
           /\ LastJob(j)[1][1] = NameKey /\ LastJob(j)[1][2] = j
           /\ LastJob(j)[2][1] = NumberKey /\ LastJob(j)[2][2] = j
<1>1. LastJob(j)[1][1] = NameKey /\ 1 \in DOMAIN LastJob(j) /\ Len(LastJob(j)) = 2
  BY DEF LastJob
<1>2. ~Plain(LastJob(j)) BY <1>1 DEF Plain
<1> QED BY <1>1, <1>2 DEF LastJob

\* Nobody has begun at first.
LEMMA InTurnInit == Init => InTurn
<1> SUFFICES ASSUME Init PROVE InTurn OBVIOUS
<1>1. file = <<>> /\ Fine(file) /\ Pairs(file) = {} BY EmptyFine DEF Init
<1>2. \A p \in Clients : pc[p] = "ready" /\ at[p] = 1 BY DEF Init
<1>3. \A p \in Clients : ~Begun(p) /\ ~InSet(p) BY <1>2 DEF Begun, InSet
<1>4. Single(Pairs(file)) /\ Paired(Pairs(file)) BY <1>1 DEF Single, Paired
<1> QED BY <1>1, <1>2, <1>3, <1>4 DEF InTurn

\* Whoever begins finds the two values paired; a startjob that goes on finds the
\* name it has set.
LEMMA InTurnLoad ==
    ASSUME Typed, InTurn, NEW p \in Clients, Load(p) PROVE InTurn'
<1> SUFFICES ASSUME ~mixed' PROVE InTurn'
  BY DEF InTurn
<1>1. /\ pc[p] = "ready" /\ pc'[p] = "loaded" /\ ~Ended(p) /\ loaded'[p] \in Maps(file)
      /\ ~mixed /\ \A q \in Clients : q # p => Stays(q) /\ ~Begun(q)
      /\ at'[p] = at[p] /\ UNCHANGED <<file, prog>>
  BY LoadIs
<1>2. \A q \in Clients : q # p => ~Begun(q)' BY <1>1 DEF Stays, Begun, Ended, InSet
<1>3. \A q \in Clients : InSet(q) => Begun(q) BY DEF Typed, Begun
<1>4. Begun(p)' BY <1>1 DEF Begun, Ended, InSet
<1>5. \A q \in Clients : (InSet(q)' => q = p) /\ pc'[q] # "truncated"
  BY <1>1, <1>3 DEF Stays, InSet
<1>6. Fine(file) /\ Single(Pairs(file)) BY <1>1 DEF InTurn
<1>7. IsMap(loaded'[p]) /\ Graph(loaded'[p]) = Pairs(file) BY <1>1, <1>6, MapIsFile
<1>8. ASSUME Plain(prog[p]) \/ at[p] = 1 PROVE Paired(Pairs(file))
  <2>1. CASE Begun(p) BY <1>1, <1>8, <2>1 DEF InTurn
  <2>2. CASE ~Begun(p)
    <3>1. \A q \in Clients : ~Begun(q) BY <1>1, <2>2
    <3> QED BY <1>1, <3>1 DEF InTurn
  <2> QED BY <2>1, <2>2
<1>9. ASSUME NEW j \in Nat, prog[p] = LastJob(j), at[p] = 2 PROVE <<NameKey, j>> \in Pairs(file)
  <2>1. Begun(p) BY <1>1, <1>9 DEF Begun
  <2> QED BY <1>1, <1>9, <2>1 DEF InTurn
<1> QED BY <1>1, <1>2, <1>4, <1>5, <1>6, <1>7, <1>8, <1>9 DEF InTurn

\* The pairs are in the map while the file is empty.
LEMMA InTurnTruncate ==
    ASSUME Typed, InTurn, NEW p \in Clients, Truncate(p) PROVE InTurn'
<1> SUFFICES ASSUME ~mixed' PROVE InTurn'
  BY DEF InTurn
<1>1. /\ pc[p] = "loaded" /\ pc'[p] = "truncated" /\ file' = <<>> /\ ~mixed
      /\ \A q \in Clients : q # p => Stays(q)
      /\ UNCHANGED <<prog, at, loaded>>
  BY TruncateIs
<1>2. \A q \in Clients : (InSet(q)' <=> InSet(q)) /\ (Begun(q)' <=> Begun(q))
  BY <1>1 DEF Stays, Begun, Ended, InSet
<1>3. Begun(p) BY <1>1 DEF Typed, Begun, InSet
<1>4. Single({}) BY DEF Single
<1>5. \A q \in Clients : Begun(q) => q = p BY <1>1, <1>3 DEF InTurn
<1> QED BY <1>1, <1>2, <1>3, <1>4, <1>5, EmptyFine DEF InTurn

\* A process that stops leaves the file to the others; one that stops between its
\* two sets has begun for good, and SamePair says no more.
LEMMA InTurnStops ==
    ASSUME Typed, InTurn, NEW p \in Clients, Stops(p) PROVE InTurn'
<1> SUFFICES ASSUME ~mixed' PROVE InTurn'
  BY DEF InTurn
<1>1. /\ ~Ended(p) /\ pc'[p] = "failed" /\ ~mixed
      /\ \A q \in Clients : q # p => Stays(q)
      /\ UNCHANGED <<file, prog, at, loaded>>
  BY DEF Stops
<1>2. \A q \in Clients : /\ InSet(q)' => InSet(q) /\ q # p
                         /\ Begun(q)' => Begun(q)
                         /\ q # p /\ Begun(q) => Begun(q)'
                         /\ pc'[q] = "truncated" => pc[q] = "truncated"
  BY <1>1 DEF Stays, Begun, Ended, InSet
<1>3. ASSUME Begun(p), Plain(prog[p]) \/ at[p] = 1 PROVE Paired(Pairs(file))
  <2>1. CASE pc[p] = "truncated"
    <3>1. file = <<>> BY <1>1, <2>1 DEF InTurn
    <3> QED BY <3>1, EmptyFine DEF Paired
  <2>2. CASE pc[p] # "truncated" BY <1>1, <1>3, <2>2 DEF InTurn
  <2> QED BY <2>1, <2>2
<1>4. ASSUME \A q \in Clients : ~Begun(q)' PROVE Paired(Pairs(file))
  <2>1. CASE Begun(p)
    <3>1. ~(at[p] > 1) BY <1>1, <1>4 DEF Begun, Ended
    <3>2. at[p] \in Nat \ {0} BY DEF Typed
    <3>3. at[p] = 1 BY <3>1, <3>2
    <3> QED BY <1>3, <2>1, <3>3
  <2>2. CASE ~Begun(p)
    <3>1. \A q \in Clients : ~Begun(q) BY <1>2, <1>4, <2>2
    <3> QED BY <1>1, <3>1 DEF InTurn
  <2> QED BY <2>1, <2>2
<1>5. /\ Fine(file) /\ Single(Pairs(file))
      /\ \A q, r \in Clients : Begun(q) /\ Begun(r) => q = r
      /\ \A q \in Clients : InSet(q) => IsMap(loaded[q])
      /\ \A q \in Clients : pc[q] = "truncated" => file = <<>>
  BY <1>1 DEF InTurn
<1>6. ASSUME NEW q \in Clients, Begun(q)', Plain(prog[q]) \/ at[q] = 1
      PROVE  (InSet(q)' => Paired(Graph(loaded[q]))) /\ (pc'[q] # "truncated" => Paired(Pairs(file)))
  <2>1. CASE q = p BY <1>2, <1>3, <1>6, <2>1
  <2>2. CASE q # p
    <3>1. pc'[q] = pc[q] BY <1>1, <2>2 DEF Stays
    <3>2. Begun(q) /\ (InSet(q)' => InSet(q)) BY <1>2, <1>6
    <3> QED BY <1>1, <1>6, <3>1, <3>2 DEF InTurn
  <2> QED BY <2>1, <2>2
<1>7. ASSUME NEW q \in Clients, NEW j \in Nat, Begun(q)', prog[q] = LastJob(j), at[q] = 2
      PROVE  /\ pc'[q] = "ready" => <<NameKey, j>> \in Pairs(file)
             /\ InSet(q)' => <<NameKey, j>> \in Graph(loaded[q])
  <2>1. CASE q = p BY <1>1, <1>2, <2>1
  <2>2. CASE q # p
    <3>1. pc'[q] = pc[q] BY <1>1, <2>2 DEF Stays
    <3>2. Begun(q) /\ (InSet(q)' => InSet(q)) BY <1>2, <1>7
    <3> QED BY <1>1, <1>7, <3>1, <3>2 DEF InTurn
  <2> QED BY <2>1, <2>2
<1>8. /\ prog' = prog /\ at' = at /\ loaded' = loaded /\ file' = file
      /\ \A q, r \in Clients : Begun(q)' /\ Begun(r)' => q = r
      /\ \A q \in Clients : InSet(q)' => IsMap(loaded[q])
      /\ \A q \in Clients : pc'[q] = "truncated" => file = <<>>
  BY <1>1, <1>2, <1>5
<1> QED BY <1>4, <1>5, <1>6, <1>7, <1>8 DEF InTurn

\* A set of another key leaves the two as they are; a startjob sets the name, then
\* pairs it.
LEMMA InTurnStore ==
    ASSUME Typed, InTurn, OnlyStartjobs, NEW p \in Clients, Store(p) PROVE InTurn'
<1> SUFFICES ASSUME ~mixed' PROVE InTurn'
  BY DEF InTurn
<1> DEFINE k == prog[p][at[p]][1]
           v == prog[p][at[p]][2]
           m == loaded[p]
<1>1. /\ pc[p] = "truncated" /\ InSet(p) /\ ~Ended(p) /\ pc'[p] = "ready" /\ ~mixed
      /\ at'[p] = at[p] + 1 /\ \A q \in Clients : q # p => Stays(q)
      /\ UNCHANGED <<prog, loaded>>
  BY StoreMoves
<1>2. Begun(p) /\ at[p] \in Nat \ {0} BY <1>1 DEF Begun, Typed
<1>3. Fine(file) /\ file = <<>> /\ IsMap(m) BY <1>1 DEF InTurn
<1>4. Fine(file') /\ Pairs(file') = Changed(m, k, v)
  BY <1>3, StoreIs
<1>5. Single(Pairs(file')) BY <1>4, SingleChanged
<1>6. \A q \in Clients : q # p => ~Begun(q) /\ ~InSet(q)
  BY <1>1, <1>2 DEF InTurn, Typed, Begun
<1>7. \A q \in Clients : /\ Begun(q)' => q = p
                         /\ ~InSet(q)' /\ pc'[q] # "truncated"
  BY <1>1, <1>6 DEF Stays, Begun, Ended, InSet
<1>8. v \in Nat BY <1>1, SetOf
<1>9. prog[p] \in Programs /\ at[p] \in DOMAIN prog[p]
  BY <1>1, SetOf DEF Typed
<1>10. CASE Plain(prog[p])
  <2>1. k \notin {NameKey, NumberKey} BY <1>9, <1>10 DEF Plain
  <2>2. Paired(Graph(m)) BY <1>1, <1>2, <1>10 DEF InTurn
  <2> HIDE DEF k, v, m
  <2>3. Paired(Pairs(file')) BY <1>4, <1>8, <2>1, <2>2, PairedChanged
  <2>4. \A j : prog[p] # LastJob(j) BY <1>10, LastJobIs
  <2> QED BY <1>1, <1>4, <1>5, <1>7, <2>3, <2>4 DEF InTurn
<1>11. ASSUME NEW j \in Nat, prog[p] = LastJob(j) PROVE InTurn'
  <2>1. Len(prog[p]) = 2
    <3>1. Len(LastJob(j)) = 2 BY LastJobIs
    <3> QED BY <1>11, <3>1
  <2>2. at[p] \in 1 .. 2
    <3>1. ~(at[p] > 2) BY <1>1, <2>1 DEF Ended
    <3> QED BY <1>2, <3>1
  <2>3. CASE at[p] = 1
    <3>1. k = NameKey /\ v = j BY <1>11, <2>3, LastJobIs
    <3>2. at'[p] = 2 BY <1>1, <2>3
    <3>3. Begun(p)'
      <4>1. ~(2 > Len(prog[p])) BY <2>1
      <4> QED BY <1>1, <3>2, <4>1 DEF Begun, Ended
    <3>4. ~Plain(prog[p]) BY <1>11, LastJobIs
    <3>5. \A i \in Nat : prog[p] = LastJob(i) => i = j
      <4> SUFFICES ASSUME NEW i \in Nat, prog[p] = LastJob(i) PROVE i = j OBVIOUS
      <4>1. LastJob(i)[1][2] = i /\ LastJob(j)[1][2] = j BY LastJobIs
      <4>2. LastJob(i) = LastJob(j) BY <1>11
      <4> QED BY <4>1, <4>2
    <3> HIDE DEF k, v, m
    <3>6. <<NameKey, j>> \in Pairs(file') BY <1>4, <3>1, ChangedIs
    <3> QED BY <1>1, <1>4, <1>5, <1>7, <3>2, <3>3, <3>4, <3>5, <3>6 DEF InTurn
  <2>4. CASE at[p] = 2
    <3>1. k = NumberKey /\ v = j BY <1>11, <2>4, LastJobIs
    <3>2. ~Begun(p)'
      <4>1. at'[p] = 3 /\ 3 > Len(prog[p]) BY <1>1, <2>4, <2>1
      <4> QED BY <1>1, <4>1 DEF Begun, Ended
    <3>3. <<NameKey, j>> \in Graph(m) BY <1>1, <1>2, <1>11, <2>4 DEF InTurn
    <3> HIDE DEF k, v, m
    <3>4. Paired(Pairs(file')) BY <1>4, <1>8, <3>1, <3>3, PairedChanged
    <3>5. \A q \in Clients : ~Begun(q)' BY <1>7, <3>2
    <3> QED BY <1>4, <1>5, <1>7, <3>4, <3>5 DEF InTurn
  <2> QED BY <2>2, <2>3, <2>4
<1> QED BY <1>9, <1>10, <1>11 DEF OnlyStartjobs

\* So does every step.
LEMMA InTurnStep == ASSUME Typed, InTurn, OnlyStartjobs, [Next]_vars PROVE InTurn'
<1>1. CASE UNCHANGED vars
  BY <1>1 DEF InTurn, Begun, Ended, InSet, vars, clientVars, histVars
<1>2. ASSUME NEW p \in Clients, LoadRefused(p) \/ Kill(p) PROVE InTurn'
  BY <1>2, StopsIs, InTurnStops
<1> QED BY <1>1, <1>2, InTurnLoad, InTurnTruncate, InTurnStore DEF Next, Done

\* If startjob alone sets the name and the number of the last job, any number
\* of them and of other processes leave, as long as they take turns, the name
\* and the number of the same job, or neither (startjob's main, set_value).
THEOREM PairKept == ASSUME OnlyStartjobs PROVE Spec => []SamePair
<1>1. InTurn /\ IInv => SamePair
  <2> SUFFICES ASSUME InTurn, ~mixed, \A p \in Clients : ~Begun(p)
               PROVE  Results(file, NameKey) = Results(file, NumberKey)
    BY DEF SamePair
  <2> DEFINE ps == Pairs(file)
  <2>1. Fine(file) /\ Single(ps) /\ Paired(ps) BY DEF InTurn
  <2>2. \A kv \in ps : kv = <<kv[1], kv[2]>> /\ kv[2] \in Nat BY <2>1 DEF Fine
  <2> HIDE DEF ps
  <2>3. ASSUME NEW v \in Nat, <<NameKey, v>> \in ps
        PROVE  Results(file, NameKey) = Results(file, NumberKey)
    <3>1. <<NumberKey, v>> \in ps BY <2>1, <2>3 DEF Paired
    <3>2. /\ \E kv \in ps : kv[1] = NameKey
          /\ \E kv \in ps : kv[1] = NumberKey
      <4>1. <<NameKey, v>>[1] = NameKey /\ <<NumberKey, v>>[1] = NumberKey OBVIOUS
      <4> QED BY <2>3, <3>1, <4>1
    <3>3. Results(file, NameKey) = {v} BY <2>1, <2>3, <3>2, ResultOf DEF ps
    <3>4. Results(file, NumberKey) = {v} BY <2>1, <3>1, <3>2, ResultOf DEF ps
    <3> QED BY <3>3, <3>4
  <2>4. ASSUME \A v \in Nat : <<NameKey, v>> \notin ps
        PROVE  Results(file, NameKey) = Results(file, NumberKey)
    <3>1. \A v \in Nat : <<NumberKey, v>> \notin ps
      <4>1. \A j \in Nat : <<NameKey, j>> \in ps <=> <<NumberKey, j>> \in ps
        BY <2>1 DEF Paired
      <4> QED BY <2>4, <4>1
    <3>2. \A kv \in ps : kv[1] # NameKey /\ kv[1] # NumberKey
      <4> SUFFICES ASSUME NEW kv \in ps PROVE kv[1] # NameKey /\ kv[1] # NumberKey
        OBVIOUS
      <4>1. <<kv[1], kv[2]>> \in ps /\ kv[2] \in Nat BY <2>2
      <4> QED BY <2>4, <3>1, <4>1
    <3>3. /\ IF \E kv \in ps : kv[1] = NameKey THEN <<NameKey, 0>> \in ps ELSE 0 = 0
          /\ IF \E kv \in ps : kv[1] = NumberKey THEN <<NumberKey, 0>> \in ps ELSE 0 = 0
      BY <3>2
    <3>4. Results(file, NameKey) = {0} BY <2>1, <3>3, ResultOf DEF ps
    <3>5. Results(file, NumberKey) = {0} BY <2>1, <3>3, ResultOf DEF ps
    <3> QED BY <3>4, <3>5
  <2> QED BY <2>3, <2>4
<1>2. IInv /\ InTurn /\ [Next]_vars => InTurn'
  BY InTurnStep DEF IInv
<1> QED BY <1>1, <1>2, IInvAlways, InTurnInit, PTL DEF Spec

-----------------------------------------------------------------------------
(* A file that cannot be read.                                              *)

\* A set that begins on a poisoned file is refused before it empties the file,
\* so nobody comes to write it anew.
LEMMA PoisonStep ==
    ASSUME Typed, [Next]_vars, Poisoned PROVE Poisoned'
<1>1. Malformed(file) /\ \A p \in Clients : pc[p] \notin {"loaded", "truncated"}
  BY DEF Poisoned, InSet
<1>2. ASSUME NEW p \in Clients, LoadRefused(p) \/ Kill(p) PROVE Poisoned'
  <2>1. file' = file /\ pc' = [pc EXCEPT ![p] = "failed"]
    BY <1>2 DEF LoadRefused, Kill, Moves
  <2>2. \A q \in Clients : pc'[q] \notin {"loaded", "truncated"}
    BY <1>1, <2>1 DEF Typed
  <2> QED BY <1>1, <2>1, <2>2 DEF Poisoned, InSet, Malformed, Lines, Newlines, Equals
<1>3. ASSUME NEW p \in Clients, Load(p) \/ Truncate(p) \/ Store(p) PROVE FALSE
  BY <1>1, <1>3 DEF Load, Truncate, Store, Moves
<1>4. CASE UNCHANGED vars
  BY <1>1, <1>4 DEF Poisoned, InSet, Malformed, Lines, Newlines, Equals, vars, clientVars
<1> QED BY <1>2, <1>3, <1>4 DEF Next, Done

\* Once the file of a session has a line that begins with "=" and no set is
\* under way, no sequence of sets, by however many processes, makes it readable
\* again (set_value reads before it empties the file).
THEOREM PoisonForEver == Spec => PoisonStays
<1>1. IInv /\ [Next]_vars => [Poisoned => Poisoned']_vars
  BY PoisonStep DEF IInv
<1> QED BY <1>1, IInvAlways, PTL DEF Spec, PoisonStays
=============================================================================
