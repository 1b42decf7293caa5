--------------------------- MODULE CronTableProofs ---------------------------
(***************************************************************************)
(* Proofs about CronTable for any number of cis_cron runs and daemons, any  *)
(* command lines, expressions and tables.                                   *)
(*                                                                          *)
(* The larger part is about the bytes of the table.  load_cron_list's loop  *)
(* is a recursive function on the places of the file: there is one          *)
(* (LoopExists), what it reads from a place on does not depend on what is   *)
(* before it (LoopSecond), and the line of an entry is read as one entry,   *)
(* Cut(e), whatever follows it (LineReads); that of a plain entry as the    *)
(* entry itself (CutPlain).  operator< orders entries (EntryOrder), so a    *)
(* set is written entry by entry, each once (InOrderIs, ContentsRead).      *)
(* From there on a step of a run changes a set of entries, and TableInv     *)
(* says of every place of a run what is read and what is yet to be written. *)
(*                                                                          *)
(* The last part is about the name of the condition.  A name that stands    *)
(* for nothing is made by whoever opens it first; from its own create_only  *)
(* on the condition stays that of a daemon that is the only one ever        *)
(* started, although every cis_cron run may make the condition too.         *)
(***************************************************************************)
EXTENDS CronTable, FiniteSetTheorems, FunctionTheorems, SequenceTheorems,
        WellFoundedInduction, TLAPS

-----------------------------------------------------------------------------
(* Numbers.                                                                 *)

\* A set of numbers has a least one.
LEMMA Least == \A T \in SUBSET Nat : T # {} => \E m \in T : \A k \in Nat : k < m => k \notin T
<1>1. \A T \in SUBSET Nat : T # {} => \E m \in T : \A k \in T : <<k, m>> \notin OpToRel(<, Nat)
  BY NatLessThanWellFounded, WFMin
<1>2. \A k, m \in Nat : k < m => <<k, m>> \in OpToRel(<, Nat)
  BY DEF OpToRel
<1> QED BY <1>1, <1>2

\* A set of numbers up to m has a greatest one.
LEMMA Greatest ==
    ASSUME NEW m \in Nat, NEW T \in SUBSET (1 .. m), T # {}
    PROVE  \E k \in T : \A j \in 1 .. m : k < j => j \notin T
<1> DEFINE U == {m - k : k \in T}
<1>1. U \in SUBSET Nat /\ U # {}
  <2>1. \A k \in T : m - k \in Nat OBVIOUS
  <2> QED BY <2>1
<1>2. PICK u \in U : \A v \in Nat : v < u => v \notin U
  <2> HIDE DEF U
  <2> QED BY <1>1, Least
<1>3. PICK k \in T : u = m - k OBVIOUS
<1>4. ASSUME NEW j \in 1 .. m, k < j, j \in T PROVE FALSE
  <2>1. m - j \in U BY <1>4
  <2>2. m - j \in Nat /\ m - j < u BY <1>3, <1>4
  <2> HIDE DEF U
  <2> QED BY <1>2, <2>1, <2>2
<1> QED BY <1>4

\* The least of a set is what Min finds.
LEMMA MinIs ==
    ASSUME NEW S \in SUBSET Nat, NEW n \in S, \A i \in S : n <= i PROVE Min(S) = n
<1>1. \A x \in S : (\A y \in S : x <= y) => x = n
  <2> SUFFICES ASSUME NEW x \in S, \A y \in S : x <= y PROVE x = n OBVIOUS
  <2>1. x >= n /\ x <= n /\ x \in Nat /\ n \in Nat OBVIOUS
  <2> QED BY <2>1
<1>2. \A y \in S : n <= y OBVIOUS
<1> QED BY <1>1, <1>2 DEF Min

\* The greatest is what Max finds.
LEMMA MaxIs ==
    ASSUME NEW S \in SUBSET Nat, NEW n \in S, \A i \in S : i <= n PROVE Max(S) = n
<1>1. \A x \in S : (\A y \in S : x >= y) => x = n
  <2> SUFFICES ASSUME NEW x \in S, \A y \in S : x >= y PROVE x = n OBVIOUS
  <2>1. x >= n /\ x <= n /\ x \in Nat /\ n \in Nat OBVIOUS
  <2> QED BY <2>1
<1>2. \A y \in S : n >= y OBVIOUS
<1> QED BY <1>1, <1>2 DEF Max

\* A function from 1 .. n is a sequence.
LEMMA FunctionIsSeq ==
    ASSUME NEW S, NEW n \in Nat, NEW f \in [1 .. n -> S] PROVE f \in Seq(S)
<1>1. f \in UNION {[1 .. m -> S] : m \in Nat}
  OBVIOUS
<1> QED BY <1>1, SeqDef, Zenon

-----------------------------------------------------------------------------
(* What load_cron_list reads.                                               *)

\* Where At finds c: nowhere up to the end, or at the first of its places.
LEMMA AtIs ==
    ASSUME NEW f \in Text, NEW c, NEW i \in Nat \ {0}
    PROVE  /\ At(f, c, i) \in 1 .. Len(f) + 1
           /\ \A j \in i .. Len(f) : j < At(f, c, i) => f[j] # c
           /\ At(f, c, i) <= Len(f) => At(f, c, i) >= i /\ f[At(f, c, i)] = c
<1> DEFINE n == Len(f)
           P == {j \in i .. n : f[j] = c}
           S == {n + 1} \cup P
<1>1. n \in Nat BY LenProperties DEF Text
<1>2. S \in SUBSET Nat /\ S # {}
  <2> HIDE DEF n
  <2> QED BY <1>1
<1>3. PICK m \in S : \A k \in Nat : k < m => k \notin S
  <2> HIDE DEF S
  <2> QED BY <1>2, Least
<1>4. \A k \in S : m <= k
  <2> HIDE DEF S
  <2> QED BY <1>2, <1>3
<1>5. At(f, c, i) = m
  <2>1. Min(S) = m
    <3> HIDE DEF S
    <3> QED BY <1>2, <1>4, MinIs
  <2> QED BY <2>1 DEF At
<1>6. \A j \in i .. n : j < m => f[j] # c
  <2> HIDE DEF n
  <2> QED BY <1>1, <1>3
<1>7. m \in 1 .. n + 1 /\ (m <= n => m >= i /\ f[m] = c)
  <2> HIDE DEF n
  <2>1. n + 1 \in S OBVIOUS
  <2>2. m <= n + 1 BY <1>4, <2>1
  <2> QED BY <1>1, <2>2
<1> QED BY <1>5, <1>6, <1>7

\* Nothing else is such a place.
LEMMA AtOnly ==
    ASSUME NEW f \in Text, NEW c, NEW i \in Nat \ {0}, NEW m \in i .. Len(f),
           f[m] = c, \A j \in i .. Len(f) : j < m => f[j] # c
    PROVE  At(f, c, i) = m
<1> DEFINE a == At(f, c, i)
<1>1. Len(f) \in Nat BY LenProperties DEF Text
<1>2. /\ a \in 1 .. Len(f) + 1
      /\ \A j \in i .. Len(f) : j < a => f[j] # c
      /\ a <= Len(f) => a >= i /\ f[a] = c
  <2> HIDE DEF a
  <2> QED BY AtIs DEF a
<1> HIDE DEF a
<1>3. ~(m < a) BY <1>1, <1>2
<1>4. a <= Len(f) /\ a >= i /\ a \in Nat BY <1>1, <1>2, <1>3
<1>5. ~(a < m) BY <1>1, <1>2, <1>4
<1> QED BY <1>1, <1>3, <1>4, <1>5 DEF a

\* Without one it is the end.
LEMMA AtNone ==
    ASSUME NEW f \in Text, NEW c, NEW i \in Nat \ {0}, \A j \in i .. Len(f) : f[j] # c
    PROVE  At(f, c, i) = Len(f) + 1
<1>1. Len(f) \in Nat BY LenProperties DEF Text
<1>2. At(f, c, i) \in 1 .. Len(f) + 1 /\ ~(At(f, c, i) <= Len(f))
  BY <1>1, AtIs
<1> QED BY <1>1, <1>2

\* The entry at i, between the next space and the newline after it, if there
\* is one, and where the loop goes on.
Space(f, i) == At(f, "sp", i)
Newline(f, i) == At(f, "nl", Space(f, i) + 1)
Ends(f, i) ==
    i > Len(f) \/ Space(f, i) = i \/ Newline(f, i) <= Space(f, i) + 1 \/ Space(f, i) > Len(f)
EntryAt(f, i) ==
    [job |-> SubSeq(f, i, Space(f, i) - 1), expr |-> SubSeq(f, Space(f, i) + 1, Newline(f, i) - 1)]

\* h tells for every place what the loop reads from there on.
Loop(f, h) ==
    h = [i \in 1 .. Len(f) + 2 |->
            IF Ends(f, i) THEN {} ELSE {EntryAt(f, i)} \cup h[Newline(f, i) + 1]]

\* The facts about one turn of the loop.
LEMMA TurnIs ==
    ASSUME NEW f \in Text, NEW i \in 1 .. Len(f) + 2
    PROVE  /\ Space(f, i) \in 1 .. Len(f) + 1 /\ Newline(f, i) \in 1 .. Len(f) + 1
           /\ ~Ends(f, i) =>
                 /\ i < Space(f, i) /\ Space(f, i) + 1 < Newline(f, i)
                 /\ \A j \in i .. Space(f, i) - 1 : f[j] # "sp"
                 /\ \A j \in Space(f, i) + 1 .. Newline(f, i) - 1 : f[j] # "nl"
<1> DEFINE s == Space(f, i)
           n == Newline(f, i)
<1>1. Len(f) \in Nat BY LenProperties DEF Text
<1>2. i \in Nat \ {0} BY <1>1
<1>3. /\ s \in 1 .. Len(f) + 1
      /\ \A j \in i .. Len(f) : j < s => f[j] # "sp"
      /\ s <= Len(f) => s >= i
  BY <1>2, AtIs DEF Space
<1>4. s + 1 \in Nat \ {0} BY <1>1, <1>3
<1>5. /\ n \in 1 .. Len(f) + 1
      /\ \A j \in s + 1 .. Len(f) : j < n => f[j] # "nl"
  <2> HIDE DEF s
  <2> QED BY <1>4, AtIs DEF Newline, s
<1>6. ASSUME ~Ends(f, i) PROVE s <= Len(f) /\ s # i /\ s + 1 < n
  BY <1>1, <1>3, <1>5, <1>6 DEF Ends
<1> HIDE DEF s, n
<1>7. ASSUME ~Ends(f, i)
      PROVE  /\ i < s /\ s + 1 < n
             /\ \A j \in i .. s - 1 : f[j] # "sp"
             /\ \A j \in s + 1 .. n - 1 : f[j] # "nl"
  <2>1. s <= Len(f) /\ s # i /\ s + 1 < n BY <1>6, <1>7
  <2> QED BY <1>1, <1>2, <1>3, <1>5, <2>1
<1> QED BY <1>3, <1>5, <1>7 DEF s, n

\* There is such a function.
LoopFrom(f, a, h) ==
    h = [i \in a .. Len(f) + 2 |->
            IF Ends(f, i) THEN {} ELSE {EntryAt(f, i)} \cup h[Newline(f, i) + 1]]

\* By the least number of places, from the end, for which there is none.
LEMMA LoopExists == ASSUME NEW f \in Text PROVE \E h : Loop(f, h)
<1> DEFINE N == Len(f) + 2
           Bad == {n \in 0 .. N : ~ \E h : LoopFrom(f, N + 1 - n, h)}
<1>1. Len(f) \in Nat /\ N \in Nat BY LenProperties DEF Text
<1>2. Bad = {}
  <2> SUFFICES ASSUME Bad # {} PROVE FALSE OBVIOUS
  <2>1. PICK m \in Bad : \A k \in Nat : k < m => k \notin Bad
    <3>1. Bad \in SUBSET Nat BY <1>1
    <3> HIDE DEF Bad
    <3> QED BY <3>1, Least
  <2>2. m \in 0 .. N /\ ~ \E h : LoopFrom(f, N + 1 - m, h) OBVIOUS
  <2> DEFINE a == N + 1 - m
  <2>3. CASE m = 0
    <3> DEFINE g == [i \in a .. N |-> {}]
    <3>1. a .. N = {}
      <4> HIDE DEF N
      <4> QED BY <1>1, <2>3
    <3>2. g = [i \in a .. N |->
                 IF Ends(f, i) THEN {} ELSE {EntryAt(f, i)} \cup g[Newline(f, i) + 1]]
      <4> HIDE DEF N, a
      <4> QED BY <3>1
    <3>3. LoopFrom(f, a, g)
      <4> HIDE DEF g, a
      <4> QED BY <3>2 DEF LoopFrom
    <3> QED BY <2>2, <3>3
  <2>4. CASE m # 0
    <3>1. m - 1 \in 0 .. N /\ m - 1 \in Nat /\ m - 1 < m /\ N + 1 - (m - 1) = a + 1 /\ a \in 1 .. N
      <4> HIDE DEF N
      <4> QED BY <1>1, <2>2, <2>4
    <3>2. m - 1 \notin Bad
      <4> HIDE DEF Bad, N
      <4> QED BY <2>1, <3>1
    <3>3. PICK h : LoopFrom(f, a + 1, h)
      <4>1. \E h : LoopFrom(f, N + 1 - (m - 1), h)
        <5> HIDE DEF N
        <5> QED BY <3>1, <3>2
      <4> HIDE DEF a, N
      <4> QED BY <3>1, <4>1
    <3> DEFINE g == [i \in a .. N |->
                       IF Ends(f, i) THEN {} ELSE {EntryAt(f, i)} \cup h[Newline(f, i) + 1]]
    <3> HIDE DEF a
    <3>4. \A i \in a + 1 .. N : g[i] = h[i]
      <4> SUFFICES ASSUME NEW i \in a + 1 .. N PROVE g[i] = h[i] OBVIOUS
      <4>1. i \in a .. N
        <5> HIDE DEF N
        <5> QED BY <1>1, <3>1
      <4>2. h[i] = IF Ends(f, i) THEN {} ELSE {EntryAt(f, i)} \cup h[Newline(f, i) + 1]
        <5>1. i \in a + 1 .. Len(f) + 2 OBVIOUS
        <5> HIDE DEF g, N, Bad
        <5> QED BY <3>3, <5>1 DEF LoopFrom
      <4> QED BY <4>1, <4>2
    <3>5. ASSUME NEW i \in a .. N, ~Ends(f, i)
          PROVE  g[Newline(f, i) + 1] = h[Newline(f, i) + 1]
      <4>1. i \in 1 .. Len(f) + 2 BY <1>1, <3>1
      <4> DEFINE s == Space(f, i)
                 n == Newline(f, i)
      <4>2. s \in 1 .. Len(f) + 1 /\ n \in 1 .. Len(f) + 1 /\ i < s /\ s + 1 < n
        BY <3>5, <4>1, TurnIs
      <4> HIDE DEF s, n
      <4>3. n + 1 \in a + 1 .. N BY <1>1, <3>1, <4>1, <4>2
      <4> QED BY <3>4, <4>3 DEF n
    <3>6. g = [i \in a .. N |->
                 IF Ends(f, i) THEN {} ELSE {EntryAt(f, i)} \cup g[Newline(f, i) + 1]]
      <4>1. \A i \in a .. N :
                (IF Ends(f, i) THEN {} ELSE {EntryAt(f, i)} \cup h[Newline(f, i) + 1])
              = (IF Ends(f, i) THEN {} ELSE {EntryAt(f, i)} \cup g[Newline(f, i) + 1])
        <5> HIDE DEF g, N
        <5> QED BY <3>5
      <4>2. g = [i \in a .. N |->
                   IF Ends(f, i) THEN {} ELSE {EntryAt(f, i)} \cup h[Newline(f, i) + 1]]
        OBVIOUS
      <4> HIDE DEF g, N
      <4> QED BY <4>1, <4>2
    <3>7. LoopFrom(f, a, g)
      <4> HIDE DEF g
      <4> QED BY <3>6 DEF LoopFrom
    <3> QED BY <2>2, <3>7 DEF a
  <2> QED BY <2>3, <2>4
<1>3. PICK h : LoopFrom(f, 1, h)
  <2>1. N \in 0 .. N /\ N + 1 - N = 1
    <3> HIDE DEF N
    <3> QED BY <1>1
  <2>2. \E h : LoopFrom(f, N + 1 - N, h) BY <1>2, <2>1
  <2> QED BY <2>1, <2>2
<1>4. Loop(f, h) BY <1>3 DEF LoopFrom, Loop
<1> QED BY <1>4

\* Entries is what one reads from the first byte on.
LEMMA EntriesAre ==
    ASSUME NEW f \in Text PROVE \E h : Loop(f, h) /\ Entries(f) = h[1]
<1>1. Entries(f) = (CHOOSE h : Loop(f, h))[1]
  BY DEF Entries, Parsed, Loop, Ends, EntryAt, Newline, Space
<1> QED BY <1>1, LoopExists

\* A part of a text.
LEMMA PartIs ==
    ASSUME NEW f \in Text, NEW a \in Nat \ {0}, NEW b \in Nat, b <= Len(f)
    PROVE  /\ SubSeq(f, a, b) \in Text
           /\ Len(SubSeq(f, a, b)) = IF a <= b THEN b - a + 1 ELSE 0
           /\ \A i \in 1 .. b - a + 1 : SubSeq(f, a, b)[i] = f[a + i - 1]
<1>1. Len(f) \in Nat BY LenProperties DEF Text
<1>2. \A i \in a .. b : f[i] \in Bytes
  <2> SUFFICES ASSUME NEW i \in a .. b PROVE f[i] \in Bytes OBVIOUS
  <2>1. i \in 1 .. Len(f) BY <1>1
  <2> QED BY <2>1, ElementOfSeq DEF Text
<1>3. a \in Int /\ b \in Int OBVIOUS
<1>4. /\ SubSeq(f, a, b) \in Seq(Bytes)
      /\ Len(SubSeq(f, a, b)) = IF a <= b THEN b - a + 1 ELSE 0
      /\ \A i \in 1 .. b - a + 1 : SubSeq(f, a, b)[i] = f[a + i - 1]
  BY <1>2, <1>3, SubSeqProperties
<1> QED BY <1>4 DEF Text

\* One without a c.
LEMMA PartWithout ==
    ASSUME NEW f \in Text, NEW a \in Nat \ {0}, NEW b \in Nat, b <= Len(f), a <= b,
           NEW c, \A j \in a .. b : f[j] # c
    PROVE  SubSeq(f, a, b) # <<>> /\ SubSeq(f, a, b)[1] = f[a] /\ c \notin Range(SubSeq(f, a, b))
<1> DEFINE s == SubSeq(f, a, b)
<1>1. s \in Text /\ Len(s) = b - a + 1 /\ \A i \in 1 .. b - a + 1 : s[i] = f[a + i - 1]
  BY PartIs
<1>2. DOMAIN s = 1 .. b - a + 1
  <2> HIDE DEF s
  <2> QED BY <1>1, LenProperties DEF Text
<1>3. \A i \in 1 .. b - a + 1 : s[i] # c
  <2> SUFFICES ASSUME NEW i \in 1 .. b - a + 1 PROVE s[i] # c OBVIOUS
  <2>1. a + i - 1 \in a .. b OBVIOUS
  <2> HIDE DEF s
  <2> QED BY <1>1, <2>1
<1>4. s[1] = f[a]
  <2>1. 1 \in 1 .. b - a + 1 /\ a + 1 - 1 = a OBVIOUS
  <2> HIDE DEF s
  <2> QED BY <1>1, <2>1
<1>5. s # <<>>
  <2> HIDE DEF s
  <2> QED BY <1>1, EmptySeq DEF Text
<1> HIDE DEF s
<1> QED BY <1>2, <1>3, <1>4, <1>5 DEF s, Range

\* What is read is an entry that would come back as it is.
LEMMA EntryAtPlain ==
    ASSUME NEW f \in Text, NEW i \in 1 .. Len(f) + 2, ~Ends(f, i)
    PROVE  EntryAt(f, i) \in Entry /\ Plain(EntryAt(f, i))
<1> DEFINE s == Space(f, i)
           n == Newline(f, i)
           job == SubSeq(f, i, s - 1)
           expr == SubSeq(f, s + 1, n - 1)
<1>1. Len(f) \in Nat BY LenProperties DEF Text
<1>2. /\ s \in 1 .. Len(f) + 1 /\ n \in 1 .. Len(f) + 1
      /\ i < s /\ s + 1 < n
      /\ \A j \in i .. s - 1 : f[j] # "sp"
      /\ \A j \in s + 1 .. n - 1 : f[j] # "nl"
  BY TurnIs
<1> HIDE DEF s, n
<1>3. /\ i \in Nat \ {0} /\ s - 1 \in Nat /\ s - 1 <= Len(f) /\ i <= s - 1
      /\ s + 1 \in Nat \ {0} /\ n - 1 \in Nat /\ n - 1 <= Len(f) /\ s + 1 <= n - 1
  BY <1>1, <1>2
<1>4. job \in Text /\ job # <<>> /\ job[1] = f[i] /\ "sp" \notin Range(job)
  <2> DEFINE b == s - 1
  <2>1. i \in Nat \ {0} /\ b \in Nat /\ b <= Len(f) /\ i <= b /\ \A j \in i .. b : f[j] # "sp"
    BY <1>2, <1>3
  <2> HIDE DEF b
  <2>2. SubSeq(f, i, b) \in Text BY <2>1, PartIs
  <2>3. SubSeq(f, i, b) # <<>> /\ SubSeq(f, i, b)[1] = f[i] /\ "sp" \notin Range(SubSeq(f, i, b))
    BY <2>1, PartWithout
  <2> QED BY <2>2, <2>3 DEF b
<1>5. expr \in Text /\ expr # <<>> /\ "nl" \notin Range(expr)
  <2> DEFINE a == s + 1
             b == n - 1
  <2>1. a \in Nat \ {0} /\ b \in Nat /\ b <= Len(f) /\ a <= b /\ \A j \in a .. b : f[j] # "nl"
    BY <1>2, <1>3
  <2> HIDE DEF a, b
  <2>2. SubSeq(f, a, b) \in Text BY <2>1, PartIs
  <2>3. SubSeq(f, a, b) # <<>> /\ "nl" \notin Range(SubSeq(f, a, b))
    BY <2>1, PartWithout
  <2> QED BY <2>2, <2>3 DEF a, b
<1>6. f[i] # "sp"
  <2>1. i \in i .. s - 1 BY <1>1, <1>2
  <2> QED BY <1>2, <2>1
<1>7. EntryAt(f, i) = [job |-> job, expr |-> expr] BY DEF EntryAt, s, n
<1> HIDE DEF job, expr
<1> QED BY <1>4, <1>5, <1>6, <1>7 DEF Entry, Plain, OneLine

\* They are finitely many.
LEMMA EntriesPlain ==
    ASSUME NEW f \in Text
    PROVE  Entries(f) \in SUBSET Entry /\ IsFiniteSet(Entries(f)) /\ \A e \in Entries(f) : Plain(e)
<1> DEFINE N == Len(f) + 2
           Fine(t) == t \in SUBSET Entry /\ IsFiniteSet(t) /\ \A e \in t : Plain(e)
<1>1. Len(f) \in Nat BY LenProperties DEF Text
<1>2. PICK h : Loop(f, h) /\ Entries(f) = h[1] BY EntriesAre
<1> DEFINE Bad == {i \in 1 .. N : ~Fine(h[i])}
<1>3. Bad = {}
  <2> SUFFICES ASSUME Bad # {} PROVE FALSE OBVIOUS
  <2>1. PICK i \in Bad : \A j \in 1 .. N : i < j => j \notin Bad
    <3>1. N \in Nat /\ Bad \in SUBSET (1 .. N) BY <1>1
    <3> HIDE DEF Bad, N
    <3> QED BY <3>1, Greatest
  <2>2. i \in 1 .. N /\ ~Fine(h[i]) OBVIOUS
  <2>3. h[i] = IF Ends(f, i) THEN {} ELSE {EntryAt(f, i)} \cup h[Newline(f, i) + 1]
    <3>1. i \in 1 .. Len(f) + 2 BY <2>2
    <3> HIDE DEF Bad, N, Fine
    <3> QED BY <1>2, <3>1 DEF Loop
  <2>4. CASE Ends(f, i)
    <3>1. h[i] = {} BY <2>3, <2>4
    <3> QED BY <2>2, <3>1, FS_EmptySet
  <2>5. CASE ~Ends(f, i)
    <3> DEFINE k == Newline(f, i) + 1
               e == EntryAt(f, i)
    <3>1. e \in Entry /\ Plain(e) BY <2>2, <2>5, EntryAtPlain
    <3>2. k \in 1 .. N /\ i < k
      <4>1. Newline(f, i) \in 1 .. Len(f) + 1 /\ Space(f, i) \in 1 .. Len(f) + 1
            /\ i < Space(f, i) /\ Space(f, i) + 1 < Newline(f, i)
        BY <2>2, <2>5, TurnIs
      <4> QED BY <1>1, <2>2, <4>1
    <3>3. Fine(h[k])
      <4>1. k \notin Bad
        <5> HIDE DEF Bad, N, k
        <5> QED BY <2>1, <3>2
      <4> HIDE DEF Fine, N, k
      <4> QED BY <3>2, <4>1
    <3>4. h[i] = h[k] \cup {e} BY <2>3, <2>5
    <3> HIDE DEF k, e
    <3>5. IsFiniteSet(h[i]) BY <3>3, <3>4, FS_AddElement
    <3> QED BY <2>2, <3>1, <3>3, <3>4, <3>5
  <2> QED BY <2>4, <2>5
<1>4. Fine(h[1])
  <2>1. 1 \in 1 .. N BY <1>1
  <2> HIDE DEF Fine
  <2> QED BY <1>3, <2>1
<1> QED BY <1>2, <1>4

-----------------------------------------------------------------------------
(* One text after another.                                                  *)

\* Its bytes are those of the two.
LEMMA Joined ==
    ASSUME NEW l \in Text, NEW g \in Text
    PROVE  /\ l \o g \in Text /\ Len(l) \in Nat /\ Len(g) \in Nat
           /\ Len(l \o g) = Len(l) + Len(g)
           /\ \A i \in 1 .. Len(l) : (l \o g)[i] = l[i]
           /\ \A i \in 1 .. Len(g) : (l \o g)[Len(l) + i] = g[i]
<1>1. Len(l) \in Nat /\ Len(g) \in Nat BY LenProperties DEF Text
<1>2. /\ l \o g \in Seq(Bytes) /\ Len(l \o g) = Len(l) + Len(g)
      /\ \A i \in 1 .. Len(l) + Len(g) :
             (l \o g)[i] = IF i <= Len(l) THEN l[i] ELSE g[i - Len(l)]
  BY ConcatProperties DEF Text
<1>3. ASSUME NEW i \in 1 .. Len(g) PROVE (l \o g)[Len(l) + i] = g[i]
  <2>1. Len(l) + i \in 1 .. Len(l) + Len(g) /\ ~(Len(l) + i <= Len(l)) /\ Len(l) + i - Len(l) = i
    BY <1>1
  <2> QED BY <1>2, <2>1
<1>4. ASSUME NEW i \in 1 .. Len(l) PROVE (l \o g)[i] = l[i]
  <2>1. i \in 1 .. Len(l) + Len(g) BY <1>1
  <2> QED BY <1>2, <2>1
<1> QED BY <1>1, <1>2, <1>3, <1>4 DEF Text

\* What is found in the first is found there.
LEMMA AtFirst ==
    ASSUME NEW l \in Text, NEW g \in Text, NEW c, NEW i \in Nat \ {0}, At(l, c, i) <= Len(l)
    PROVE  At(l \o g, c, i) = At(l, c, i)
<1> DEFINE f == l \o g
           m == At(l, c, i)
<1>1. /\ f \in Text /\ Len(l) \in Nat /\ Len(g) \in Nat /\ Len(f) = Len(l) + Len(g)
      /\ \A j \in 1 .. Len(l) : f[j] = l[j]
  BY Joined
<1>2. m \in 1 .. Len(l) + 1 /\ (\A j \in i .. Len(l) : j < m => l[j] # c) /\ m >= i /\ l[m] = c
  BY AtIs
<1>3. m <= Len(l) OBVIOUS
<1> HIDE DEF m, f
<1>4. m \in i .. Len(f) /\ f[m] = c /\ \A j \in i .. Len(f) : j < m => f[j] # c
  <2>1. m \in i .. Len(l) /\ m \in 1 .. Len(l) BY <1>1, <1>2, <1>3
  <2>2. f[m] = c BY <1>1, <1>2, <2>1
  <2>3. ASSUME NEW j \in i .. Len(f), j < m PROVE f[j] # c
    <3>1. j \in i .. Len(l) /\ j \in 1 .. Len(l) BY <1>1, <2>1, <2>3
    <3> QED BY <1>1, <1>2, <2>3, <3>1
  <2> QED BY <1>1, <2>1, <2>2, <2>3
<1>5. At(f, c, i) = m BY <1>1, <1>4, AtOnly
<1> QED BY <1>5 DEF m, f

\* And from the second on it is as if there were no first.
LEMMA AtSecond ==
    ASSUME NEW l \in Text, NEW g \in Text, NEW c, NEW i \in Nat \ {0}
    PROVE  At(l \o g, c, Len(l) + i) = Len(l) + At(g, c, i)
<1> DEFINE f == l \o g
           m == At(g, c, i)
           L == Len(l)
<1>1. /\ f \in Text /\ L \in Nat /\ Len(g) \in Nat /\ Len(f) = L + Len(g)
      /\ \A j \in 1 .. Len(g) : f[L + j] = g[j]
  BY Joined
<1>2. /\ m \in 1 .. Len(g) + 1
      /\ \A j \in i .. Len(g) : j < m => g[j] # c
      /\ m <= Len(g) => m >= i /\ g[m] = c
  BY AtIs
<1> HIDE DEF m, f, L
<1>3. ASSUME NEW j \in L + i .. Len(f) PROVE j - L \in i .. Len(g) /\ f[j] = g[j - L]
  <2>1. j - L \in i .. Len(g) /\ j - L \in 1 .. Len(g) /\ L + (j - L) = j BY <1>1
  <2>2. f[L + (j - L)] = g[j - L] BY <1>1, <2>1
  <2> QED BY <2>1, <2>2
<1>4. L + i \in Nat \ {0} BY <1>1
<1>5. CASE m <= Len(g)
  <2>1. L + m \in L + i .. Len(f) /\ f[L + m] = c
    <3>1. L + m \in L + i .. Len(f) /\ m \in 1 .. Len(g) BY <1>1, <1>2, <1>5
    <3> QED BY <1>1, <1>2, <1>5, <3>1
  <2>2. ASSUME NEW j \in L + i .. Len(f), j < L + m PROVE f[j] # c
    <3>1. j - L < m /\ j - L \in i .. Len(g) /\ f[j] = g[j - L] BY <1>1, <1>2, <1>3, <2>2
    <3> QED BY <1>2, <3>1
  <2>3. At(f, c, L + i) = L + m
    <3> DEFINE a == L + i
               b == L + m
    <3>1. a \in Nat \ {0} /\ b \in a .. Len(f) /\ f[b] = c /\ \A j \in a .. Len(f) : j < b => f[j] # c
      BY <1>4, <2>1, <2>2
    <3> HIDE DEF a, b
    <3>2. f \in Text BY <1>1
    <3>3. At(f, c, a) = b BY <3>1, <3>2, AtOnly
    <3> QED BY <3>3 DEF a, b
  <2> QED BY <2>3 DEF m, f, L
<1>6. CASE ~(m <= Len(g))
  <2>1. m = Len(g) + 1 BY <1>1, <1>2, <1>6
  <2>2. ASSUME NEW j \in L + i .. Len(f) PROVE f[j] # c
    <3>1. j - L < m /\ j - L \in i .. Len(g) /\ f[j] = g[j - L] BY <1>1, <1>3, <2>1
    <3> QED BY <1>2, <3>1
  <2>3. At(f, c, L + i) = Len(f) + 1
    <3> DEFINE a == L + i
    <3>1. a \in Nat \ {0} /\ \A j \in a .. Len(f) : f[j] # c BY <1>4, <2>2
    <3> HIDE DEF a
    <3>2. At(f, c, a) = Len(f) + 1 BY <1>1, <3>1, AtNone
    <3> QED BY <3>2 DEF a
  <2>4. Len(f) + 1 = L + m BY <1>1, <2>1
  <2> QED BY <2>3, <2>4 DEF m, f, L
<1> QED BY <1>5, <1>6

\* So are the parts.
LEMMA PartOfFirst ==
    ASSUME NEW l \in Text, NEW g \in Text, NEW a \in Nat \ {0}, NEW b \in Nat, b <= Len(l)
    PROVE  SubSeq(l \o g, a, b) = SubSeq(l, a, b)
<1> DEFINE f == l \o g
           s == SubSeq(f, a, b)
           t == SubSeq(l, a, b)
<1>1. /\ f \in Text /\ Len(l) \in Nat /\ Len(g) \in Nat /\ Len(f) = Len(l) + Len(g)
      /\ \A j \in 1 .. Len(l) : f[j] = l[j]
  BY Joined
<1> HIDE DEF f
<1>2. b <= Len(f) BY <1>1
<1>3. /\ s \in Text /\ Len(s) = (IF a <= b THEN b - a + 1 ELSE 0)
      /\ \A i \in 1 .. b - a + 1 : s[i] = f[a + i - 1]
  BY <1>1, <1>2, PartIs
<1>4. /\ t \in Text /\ Len(t) = (IF a <= b THEN b - a + 1 ELSE 0)
      /\ \A i \in 1 .. b - a + 1 : t[i] = l[a + i - 1]
  BY PartIs
<1> HIDE DEF s, t
<1>5. ASSUME NEW i \in 1 .. Len(s) PROVE s[i] = t[i]
  <2>1. i \in 1 .. b - a + 1 /\ a + i - 1 \in 1 .. Len(l) BY <1>1, <1>3
  <2> QED BY <1>1, <1>3, <1>4, <2>1
<1>6. s = t BY <1>3, <1>4, <1>5, SeqEqual DEF Text
<1> QED BY <1>6 DEF s, t, f

\* And those of the second.
LEMMA PartOfSecond ==
    ASSUME NEW l \in Text, NEW g \in Text, NEW a \in Nat \ {0}, NEW b \in Nat, b <= Len(g)
    PROVE  SubSeq(l \o g, Len(l) + a, Len(l) + b) = SubSeq(g, a, b)
<1> DEFINE f == l \o g
           L == Len(l)
           s == SubSeq(f, L + a, L + b)
           t == SubSeq(g, a, b)
<1>1. /\ f \in Text /\ L \in Nat /\ Len(g) \in Nat /\ Len(f) = L + Len(g)
      /\ \A j \in 1 .. Len(g) : f[L + j] = g[j]
  BY Joined
<1> HIDE DEF f, L
<1>2. L + b <= Len(f) /\ L + a \in Nat \ {0} /\ L + b \in Nat BY <1>1
<1>3. /\ s \in Text /\ Len(s) = (IF L + a <= L + b THEN L + b - (L + a) + 1 ELSE 0)
      /\ \A i \in 1 .. L + b - (L + a) + 1 : s[i] = f[L + a + i - 1]
  BY <1>1, <1>2, PartIs
<1>4. /\ t \in Text /\ Len(t) = (IF a <= b THEN b - a + 1 ELSE 0)
      /\ \A i \in 1 .. b - a + 1 : t[i] = g[a + i - 1]
  BY PartIs
<1> HIDE DEF s, t
<1>5. Len(s) = Len(t) BY <1>1, <1>3, <1>4
<1>6. ASSUME NEW i \in 1 .. Len(s) PROVE s[i] = t[i]
  <2>1. /\ i \in 1 .. L + b - (L + a) + 1 /\ i \in 1 .. b - a + 1
        /\ a + i - 1 \in 1 .. Len(g) /\ L + a + i - 1 = L + (a + i - 1)
    BY <1>1, <1>3
  <2>2. s[i] = f[L + (a + i - 1)] BY <1>3, <2>1
  <2> QED BY <1>1, <1>4, <2>1, <2>2
<1>7. s = t BY <1>3, <1>4, <1>5, <1>6, SeqEqual DEF Text
<1> QED BY <1>7 DEF s, t, f, L

\* The loop reads the second as it would alone.
LEMMA LoopSecond ==
    ASSUME NEW l \in Text, NEW g \in Text, NEW h, Loop(l \o g, h), NEW k, Loop(g, k)
    PROVE  \A i \in 1 .. Len(g) + 2 : h[Len(l) + i] = k[i]
<1> DEFINE f == l \o g
           L == Len(l)
           N == Len(g) + 2
           Bad == {i \in 1 .. N : h[L + i] # k[i]}
<1>1. f \in Text /\ L \in Nat /\ Len(g) \in Nat /\ Len(f) = L + Len(g) BY Joined
<1> SUFFICES ASSUME Bad # {} PROVE FALSE OBVIOUS
<1>2. PICK i \in Bad : \A j \in 1 .. N : i < j => j \notin Bad
  <2>1. N \in Nat /\ Bad \in SUBSET (1 .. N) BY <1>1
  <2> HIDE DEF Bad, N
  <2> QED BY <2>1, Greatest
<1>3. i \in 1 .. N /\ h[L + i] # k[i] OBVIOUS
<1> DEFINE s == Space(g, i)
           n == Newline(g, i)
<1>4. /\ s \in 1 .. Len(g) + 1 /\ n \in 1 .. Len(g) + 1
      /\ ~Ends(g, i) => i < s /\ s + 1 < n
  BY <1>3, TurnIs
<1>5. Space(f, L + i) = L + s
  <2>1. i \in Nat \ {0} BY <1>1, <1>3
  <2> QED BY <2>1, AtSecond DEF Space
<1>6. Newline(f, L + i) = L + n
  <2>1. s + 1 \in Nat \ {0} BY <1>1, <1>4
  <2>2. At(f, "nl", L + (s + 1)) = L + At(g, "nl", s + 1) BY <2>1, AtSecond
  <2>3. L + s + 1 = L + (s + 1) BY <1>1, <1>4
  <2>4. Newline(f, L + i) = At(f, "nl", L + s + 1) BY <1>5 DEF Newline
  <2> QED BY <2>2, <2>3, <2>4 DEF Newline
<1> HIDE DEF f, s, n
<1>7. Ends(f, L + i) <=> Ends(g, i)
  <2>1. Ends(f, L + i) <=> L + i > Len(f) \/ L + s = L + i \/ L + n <= L + s + 1 \/ L + s > Len(f)
    BY <1>5, <1>6 DEF Ends
  <2>2. Ends(g, i) <=> i > Len(g) \/ s = i \/ n <= s + 1 \/ s > Len(g)
    BY DEF Ends, s, n
  <2> HIDE DEF L, N, Bad
  <2>3. i \in Nat BY <1>1, <1>3 DEF N
  <2> QED BY <1>1, <1>4, <2>1, <2>2, <2>3
<1>8. h[L + i] = IF Ends(f, L + i) THEN {} ELSE {EntryAt(f, L + i)} \cup h[Newline(f, L + i) + 1]
  <2>1. Loop(f, h) BY DEF f
  <2>2. L + i \in 1 .. Len(f) + 2 BY <1>1, <1>3
  <2> HIDE DEF L, N, Bad
  <2> QED BY <2>1, <2>2 DEF Loop
<1>9. k[i] = IF Ends(g, i) THEN {} ELSE {EntryAt(g, i)} \cup k[n + 1]
  <2>1. i \in 1 .. Len(g) + 2 BY <1>3
  <2> HIDE DEF L, N, Bad
  <2> QED BY <2>1 DEF Loop, n
<1>10. CASE Ends(g, i)
  BY <1>3, <1>7, <1>8, <1>9, <1>10
<1>11. CASE ~Ends(g, i)
  <2>1. i < s /\ s + 1 < n BY <1>4, <1>11
  <2>2. EntryAt(f, L + i) = EntryAt(g, i)
    <3>1. SubSeq(f, L + i, L + (s - 1)) = SubSeq(g, i, s - 1)
      <4>1. i \in Nat \ {0} /\ s - 1 \in Nat /\ s - 1 <= Len(g) BY <1>1, <1>3, <1>4, <2>1
      <4> QED BY <4>1, PartOfSecond DEF f
    <3>2. SubSeq(f, L + (s + 1), L + (n - 1)) = SubSeq(g, s + 1, n - 1)
      <4>1. s + 1 \in Nat \ {0} /\ n - 1 \in Nat /\ n - 1 <= Len(g) BY <1>1, <1>3, <1>4, <2>1
      <4> QED BY <4>1, PartOfSecond DEF f
    <3>3. EntryAt(f, L + i) = [job |-> SubSeq(f, L + i, L + (s - 1)),
                               expr |-> SubSeq(f, L + (s + 1), L + (n - 1))]
      <4> HIDE DEF L, N, Bad
      <4>1. EntryAt(f, L + i) = [job |-> SubSeq(f, L + i, Space(f, L + i) - 1),
                                 expr |-> SubSeq(f, Space(f, L + i) + 1, Newline(f, L + i) - 1)]
        BY DEF EntryAt
      <4>2. Space(f, L + i) - 1 = L + (s - 1) BY <1>1, <1>4, <1>5
      <4>3. Space(f, L + i) + 1 = L + (s + 1) BY <1>1, <1>4, <1>5
      <4>4. Newline(f, L + i) - 1 = L + (n - 1) BY <1>1, <1>4, <1>6
      <4> QED BY <4>1, <4>2, <4>3, <4>4, Zenon
    <3> QED BY <3>1, <3>2, <3>3 DEF EntryAt, s, n
  <2>3. h[L + (n + 1)] = k[n + 1]
    <3>1. n + 1 \in 1 .. N /\ i < n + 1 BY <1>1, <1>3, <1>4, <2>1
    <3>2. n + 1 \notin Bad
      <4> HIDE DEF Bad, N
      <4> QED BY <1>2, <3>1
    <3> HIDE DEF N, L
    <3> QED BY <3>1, <3>2
  <2>4. L + n + 1 = L + (n + 1) BY <1>1, <1>4
  <2>5. h[L + i] = {EntryAt(f, L + i)} \cup h[L + n + 1] BY <1>6, <1>7, <1>8, <1>11
  <2>6. k[i] = {EntryAt(g, i)} \cup k[n + 1] BY <1>9, <1>11
  <2> HIDE DEF Bad, N, L
  <2> QED BY <1>3, <2>2, <2>3, <2>4, <2>5, <2>6
<1> QED BY <1>10, <1>11

-----------------------------------------------------------------------------
(* Lines.                                                                   *)

\* f reads as the entries t, whatever follows it.
Reads(f, t) == f \in Text /\ \A g \in Text : Entries(f \o g) = t \cup Entries(g)

\* What the line of e is read as.
Cut(e) == EntryAt(Line(e), 1)
Cuts(t) == {Cut(e) : e \in t}

\* An empty file is no entry, ...
LEMMA EmptyText == <<>> \in Text /\ Len(<<>>) = 0 /\ Entries(<<>>) = {}
<1>1. <<>> \in Text /\ Len(<<>>) = 0 BY EmptySeq DEF Text
<1>2. PICK h : Loop(<<>>, h) /\ Entries(<<>>) = h[1] BY <1>1, EntriesAre
<1>3. Ends(<<>>, 1) BY <1>1 DEF Ends
<1>4. h[1] = {}
  <2>1. 1 \in 1 .. Len(<<>>) + 2 BY <1>1
  <2> QED BY <1>2, <1>3, <2>1 DEF Loop
<1> QED BY <1>1, <1>2, <1>4

\* ... whatever follows it.
LEMMA ReadsNothing == Reads(<<>>, {})
<1>1. \A g \in Text : <<>> \o g = g BY ConcatEmptySeq DEF Text
<1> QED BY <1>1, EmptyText DEF Reads

\* The file itself is read so, ...
LEMMA ReadsEntries == ASSUME NEW f, NEW t, Reads(f, t) PROVE f \in Text /\ Entries(f) = t
<1>1. f \in Text BY DEF Reads
<1>2. f \o <<>> = f BY <1>1, ConcatEmptySeq DEF Text
<1>3. Entries(f \o <<>>) = t \cup Entries(<<>>) BY EmptyText DEF Reads
<1> QED BY <1>1, <1>2, <1>3, EmptyText

\* ... and two such files after one another as the entries of both.
LEMMA ReadsBoth ==
    ASSUME NEW f, NEW t, Reads(f, t), NEW g, NEW u, Reads(g, u) PROVE Reads(f \o g, t \cup u)
<1>1. f \in Text /\ g \in Text BY DEF Reads
<1>2. f \o g \in Text BY <1>1, Joined
<1>3. ASSUME NEW r \in Text PROVE Entries((f \o g) \o r) = (t \cup u) \cup Entries(r)
  <2>1. (f \o g) \o r = f \o (g \o r) BY <1>1, ConcatAssociative DEF Text
  <2>2. g \o r \in Text BY <1>1, Joined
  <2>3. Entries(f \o (g \o r)) = t \cup Entries(g \o r) BY <2>2 DEF Reads
  <2>4. Entries(g \o r) = u \cup Entries(r) BY DEF Reads
  <2> QED BY <2>1, <2>3, <2>4
<1> QED BY <1>2, <1>3 DEF Reads

\* The bytes of a line.
LEMMA LineIs ==
    ASSUME NEW e \in Entry
    PROVE  /\ Line(e) \in Text /\ Len(e.job) \in Nat /\ Len(e.expr) \in Nat
           /\ Len(Line(e)) = Len(e.job) + Len(e.expr) + 2
           /\ \A i \in 1 .. Len(e.job) : Line(e)[i] = e.job[i]
           /\ Line(e)[Len(e.job) + 1] = "sp"
           /\ \A i \in 1 .. Len(e.expr) : Line(e)[Len(e.job) + 1 + i] = e.expr[i]
           /\ Line(e)[Len(e.job) + Len(e.expr) + 2] = "nl"
<1> DEFINE J == Len(e.job)
           X == Len(e.expr)
           a == e.job \o <<"sp">>
           b == a \o e.expr
           l == b \o <<"nl">>
<1>1. e.job \in Text /\ e.expr \in Text BY DEF Entry
<1>2. /\ <<"sp">> \in Text /\ Len(<<"sp">>) = 1 /\ <<"sp">>[1] = "sp"
      /\ <<"nl">> \in Text /\ Len(<<"nl">>) = 1 /\ <<"nl">>[1] = "nl"
  BY DEF Text, Bytes
<1>3. /\ a \in Text /\ J \in Nat /\ Len(a) = J + 1
      /\ \A i \in 1 .. J : a[i] = e.job[i]
      /\ a[J + 1] = "sp"
  <2>1. /\ a \in Text /\ J \in Nat /\ Len(a) = J + Len(<<"sp">>)
        /\ \A i \in 1 .. J : a[i] = e.job[i]
        /\ \A i \in 1 .. Len(<<"sp">>) : a[J + i] = <<"sp">>[i]
    BY <1>1, <1>2, Joined
  <2> HIDE DEF a, J
  <2> QED BY <1>2, <2>1
<1> HIDE DEF a
<1>4. /\ b \in Text /\ X \in Nat /\ Len(b) = J + 1 + X
      /\ \A i \in 1 .. J + 1 : b[i] = a[i]
      /\ \A i \in 1 .. X : b[J + 1 + i] = e.expr[i]
  <2>1. /\ b \in Text /\ X \in Nat /\ Len(b) = Len(a) + X
        /\ \A i \in 1 .. Len(a) : b[i] = a[i]
        /\ \A i \in 1 .. X : b[Len(a) + i] = e.expr[i]
    BY <1>1, <1>3, Joined
  <2> HIDE DEF b, J, X
  <2> QED BY <1>3, <2>1
<1> HIDE DEF b
<1>5. /\ l \in Text /\ Len(l) = J + 1 + X + 1
      /\ \A i \in 1 .. J + 1 + X : l[i] = b[i]
      /\ l[J + 1 + X + 1] = "nl"
  <2>1. /\ l \in Text /\ Len(l) = Len(b) + Len(<<"nl">>)
        /\ \A i \in 1 .. Len(b) : l[i] = b[i]
        /\ \A i \in 1 .. Len(<<"nl">>) : l[Len(b) + i] = <<"nl">>[i]
    BY <1>2, <1>4, Joined
  <2> HIDE DEF l, J, X
  <2> QED BY <1>2, <1>4, <2>1
<1>6. Line(e) = l BY DEF Line, l, b, a
<1> HIDE DEF l, J, X
<1>7. /\ J + 1 + X + 1 = J + X + 2
      /\ \A i \in 1 .. J : i \in 1 .. J + 1 /\ i \in 1 .. J + 1 + X
      /\ J + 1 \in 1 .. J + 1 /\ J + 1 \in 1 .. J + 1 + X
      /\ \A i \in 1 .. X : J + 1 + i \in 1 .. J + 1 + X
  BY <1>3, <1>4
<1>8. \A i \in 1 .. J : l[i] = e.job[i] BY <1>3, <1>4, <1>5, <1>7
<1>9. l[J + 1] = "sp" BY <1>3, <1>4, <1>5, <1>7
<1>10. \A i \in 1 .. X : l[J + 1 + i] = e.expr[i] BY <1>4, <1>5, <1>7
<1> QED BY <1>3, <1>4, <1>5, <1>6, <1>7, <1>8, <1>9, <1>10 DEF J, X

\* Where a line is cut: at the first space, and at its newline.
LEMMA LineCut ==
    ASSUME NEW e \in Entry, OneLine(e)
    PROVE  /\ Space(Line(e), 1) \in 2 .. Len(e.job) + 1
           /\ Newline(Line(e), 1) = Len(Line(e))
           /\ Plain(e) => Space(Line(e), 1) = Len(e.job) + 1
<1> DEFINE J == Len(e.job)
           X == Len(e.expr)
           l == Line(e)
           s == Space(l, 1)
<1>1. /\ l \in Text /\ J \in Nat /\ X \in Nat /\ Len(l) = J + X + 2
      /\ \A i \in 1 .. J : l[i] = e.job[i]
      /\ l[J + 1] = "sp"
      /\ \A i \in 1 .. X : l[J + 1 + i] = e.expr[i]
      /\ l[J + X + 2] = "nl"
  BY LineIs
<1>2. /\ e.job # <<>> /\ e.job[1] # "sp" /\ e.expr # <<>> /\ "nl" \notin Range(e.expr)
      /\ "sp" \in Range(e.job) => "nl" \notin Range(e.job)
  BY DEF OneLine
<1>3. J # 0 /\ X # 0 /\ DOMAIN e.job = 1 .. J /\ DOMAIN e.expr = 1 .. X
  <2>1. e.job \in Seq(Bytes) /\ e.expr \in Seq(Bytes) BY DEF Entry, Text
  <2> QED BY <1>2, <2>1, EmptySeq, LenProperties
<1>4. /\ s \in 1 .. Len(l) + 1
      /\ \A j \in 1 .. Len(l) : j < s => l[j] # "sp"
      /\ s <= Len(l) => l[s] = "sp"
  <2>1. l \in Text /\ 1 \in Nat \ {0} /\ s = At(l, "sp", 1) BY <1>1 DEF Space
  <2> HIDE DEF l, s
  <2>2. /\ s \in 1 .. Len(l) + 1
        /\ \A j \in 1 .. Len(l) : j < s => l[j] # "sp"
        /\ s <= Len(l) => s >= 1 /\ l[s] = "sp"
    BY <2>1, AtIs
  <2> QED BY <2>2
<1> HIDE DEF s, l, J, X
<1>5. s <= J + 1 BY <1>1, <1>4
<1>6. s # 1 /\ l[s] = "sp"
  <2>1. l[s] = "sp" BY <1>1, <1>4, <1>5
  <2>2. l[1] = e.job[1] BY <1>1, <1>3
  <2> QED BY <1>2, <2>1, <2>2
<1>7. s \in 2 .. J + 1 BY <1>1, <1>4, <1>5, <1>6
<1>8. ASSUME NEW j \in s + 1 .. Len(l), j < J + X + 2 PROVE l[j] # "nl"
  <2>1. CASE j <= J
    <3>1. s \in 1 .. J /\ j \in 1 .. J BY <1>1, <1>7, <1>8, <2>1
    <3>2. e.job[s] = "sp" /\ l[j] = e.job[j] BY <1>1, <1>6, <3>1
    <3>3. "sp" \in Range(e.job) BY <1>3, <3>1, <3>2 DEF Range
    <3>4. e.job[j] # "nl" BY <1>2, <1>3, <3>1, <3>3 DEF Range
    <3> QED BY <3>2, <3>4
  <2>2. CASE j = J + 1
    BY <1>1, <2>2
  <2>3. CASE j > J + 1
    <3>1. j - (J + 1) \in 1 .. X /\ J + 1 + (j - (J + 1)) = j BY <1>1, <1>7, <1>8, <2>3
    <3>2. l[j] = e.expr[j - (J + 1)] BY <1>1, <3>1
    <3> QED BY <1>2, <1>3, <3>1, <3>2 DEF Range
  <2> QED BY <1>1, <1>7, <1>8, <2>1, <2>2, <2>3
<1>9. Newline(l, 1) = Len(l)
  <2> DEFINE m == Len(l)
             a == s + 1
  <2>1. /\ a \in Nat \ {0} /\ m \in a .. Len(l) /\ l[m] = "nl"
        /\ \A j \in a .. Len(l) : j < m => l[j] # "nl"
    BY <1>1, <1>7, <1>8
  <2> HIDE DEF m, a
  <2>2. l \in Text BY <1>1
  <2>3. At(l, "nl", a) = m BY <2>1, <2>2, AtOnly
  <2> QED BY <2>3 DEF Newline, m, a, s
<1>10. Plain(e) => s = J + 1
  <2> SUFFICES ASSUME Plain(e), s # J + 1 PROVE FALSE OBVIOUS
  <2>1. s \in 1 .. J BY <1>1, <1>7
  <2>2. e.job[s] = "sp" BY <1>1, <1>6, <2>1
  <2> QED BY <1>3, <2>1, <2>2 DEF Plain, Range
<1> QED BY <1>7, <1>9, <1>10 DEF s, l, J

\* So it is one entry.
LEMMA LineReads == ASSUME NEW e \in Entry, OneLine(e) PROVE Reads(Line(e), {Cut(e)})
<1> DEFINE l == Line(e)
<1>1. l \in Text /\ Len(l) \in Nat
  BY LineIs, LenProperties DEF Text
<1>2. Newline(l, 1) = Len(l) BY LineCut
<1>3. Space(l, 1) \in Nat /\ Space(l, 1) >= 2 /\ Space(l, 1) + 1 < Len(l)
  <2> DEFINE J == Len(e.job)
             X == Len(e.expr)
  <2>1. J \in Nat /\ X \in Nat /\ Len(l) = J + X + 2 BY LineIs
  <2>2. Space(l, 1) \in 2 .. J + 1 BY LineCut
  <2>3. X # 0 BY EmptySeq DEF OneLine, Entry, Text
  <2> HIDE DEF l, J, X
  <2> QED BY <2>1, <2>2, <2>3
<1> HIDE DEF l
<1>4. ASSUME NEW g \in Text PROVE Entries(l \o g) = {Cut(e)} \cup Entries(g)
  <2> DEFINE f == l \o g
             s == Space(l, 1)
             n == Len(l)
  <2>1. f \in Text /\ Len(f) = Len(l) + Len(g) /\ Len(g) \in Nat BY <1>1, Joined
  <2>2. PICK h : Loop(f, h) /\ Entries(f) = h[1]
    <3> HIDE DEF f
    <3> QED BY <2>1, EntriesAre
  <2>3. PICK k : Loop(g, k) /\ Entries(g) = k[1] BY EntriesAre
  <2>4. s \in Nat /\ s >= 2 /\ s + 1 < n /\ n \in Nat BY <1>1, <1>3
  <2>5. Space(f, 1) = s
    <3>1. s = At(l, "sp", 1) /\ 1 \in Nat \ {0} /\ l \in Text BY <1>1 DEF Space
    <3> HIDE DEF s
    <3>2. At(l, "sp", 1) <= Len(l) BY <2>4, <3>1
    <3>3. At(l \o g, "sp", 1) = At(l, "sp", 1) BY <3>1, <3>2, AtFirst
    <3> QED BY <3>1, <3>3 DEF Space
  <2>6. Newline(f, 1) = n
    <3>1. At(l, "nl", s + 1) = n BY <1>2 DEF Newline
    <3>2. s + 1 \in Nat \ {0} /\ n <= Len(l) BY <2>4
    <3>3. At(f, "nl", s + 1) = n
      <4> DEFINE a == s + 1
      <4>1. a \in Nat \ {0} /\ At(l, "nl", a) <= Len(l) /\ At(l, "nl", a) = n BY <3>1, <3>2
      <4> HIDE DEF a, s, n
      <4>2. At(f, "nl", a) = At(l, "nl", a) BY <1>1, <4>1, AtFirst
      <4> QED BY <4>1, <4>2 DEF a
    <3> QED BY <2>5, <3>3 DEF Newline
  <2>7. ~Ends(f, 1)
    <3> HIDE DEF f, s
    <3> QED BY <1>1, <2>1, <2>4, <2>5, <2>6 DEF Ends
  <2>8. EntryAt(f, 1) = Cut(e)
    <3>1. SubSeq(f, 1, s - 1) = SubSeq(l, 1, s - 1)
      <4>1. s - 1 \in Nat /\ s - 1 <= Len(l) /\ 1 \in Nat \ {0} BY <2>4
      <4> QED BY <1>1, <4>1, PartOfFirst
    <3>2. SubSeq(f, s + 1, n - 1) = SubSeq(l, s + 1, n - 1)
      <4>1. n - 1 \in Nat /\ n - 1 <= Len(l) /\ s + 1 \in Nat \ {0} BY <2>4
      <4> QED BY <1>1, <4>1, PartOfFirst
    <3>3. Cut(e) = [job |-> SubSeq(l, 1, s - 1), expr |-> SubSeq(l, s + 1, n - 1)]
      BY <1>2 DEF Cut, EntryAt, l
    <3> HIDE DEF s, n, f
    <3> QED BY <2>5, <2>6, <3>1, <3>2, <3>3 DEF EntryAt
  <2>9. h[1] = {Cut(e)} \cup h[n + 1]
    <3> HIDE DEF f, n
    <3>1. 1 \in 1 .. Len(f) + 2 BY <1>1, <2>1
    <3>2. h[1] = IF Ends(f, 1) THEN {} ELSE {EntryAt(f, 1)} \cup h[Newline(f, 1) + 1]
      BY <2>2, <3>1 DEF Loop
    <3> QED BY <2>6, <2>7, <2>8, <3>2
  <2>10. h[n + 1] = k[1]
    <3>1. Loop(l \o g, h) /\ Loop(g, k) /\ l \in Text BY <1>1, <2>2, <2>3
    <3> HIDE DEF f, s, n
    <3>2. \A i \in 1 .. Len(g) + 2 : h[Len(l) + i] = k[i]
      BY <3>1, LoopSecond
    <3>3. 1 \in 1 .. Len(g) + 2 BY <2>1
    <3> QED BY <3>2, <3>3 DEF n
  <2> QED BY <2>2, <2>3, <2>9, <2>10
<1> QED BY <1>1, <1>4 DEF Reads, l

\* A plain entry's line is cut where its job ends.
LEMMA CutPlain == ASSUME NEW e \in Entry, Plain(e) PROVE Cut(e) = e
<1> DEFINE l == Line(e)
           J == Len(e.job)
           X == Len(e.expr)
           a == SubSeq(l, 1, J)
           b == SubSeq(l, J + 2, J + X + 1)
<1>1. /\ l \in Text /\ J \in Nat /\ X \in Nat /\ Len(l) = J + X + 2
      /\ \A i \in 1 .. J : l[i] = e.job[i]
      /\ \A i \in 1 .. X : l[J + 1 + i] = e.expr[i]
  BY LineIs
<1>2. Space(l, 1) = J + 1 /\ Newline(l, 1) = J + X + 2
  BY <1>1, LineCut DEF Plain
<1>3. e.job \in Text /\ e.expr \in Text /\ e = [job |-> e.job, expr |-> e.expr] BY DEF Entry
<1> HIDE DEF l, J, X
<1>4. a = e.job
  <2>1. /\ a \in Text /\ Len(a) = IF 1 <= J THEN J - 1 + 1 ELSE 0
        /\ \A i \in 1 .. J - 1 + 1 : a[i] = l[1 + i - 1]
    <3>1. 1 \in Nat \ {0} /\ J <= Len(l) BY <1>1
    <3> QED BY <1>1, <3>1, PartIs
  <2> HIDE DEF a
  <2>2. Len(a) = Len(e.job) BY <1>1, <2>1 DEF J
  <2>3. \A i \in 1 .. Len(a) : a[i] = e.job[i]
    <3> SUFFICES ASSUME NEW i \in 1 .. Len(a) PROVE a[i] = e.job[i] OBVIOUS
    <3>1. i \in 1 .. J - 1 + 1 /\ i \in 1 .. J /\ 1 + i - 1 = i BY <1>1, <2>1
    <3> QED BY <1>1, <2>1, <3>1
  <2> QED BY <1>3, <2>1, <2>2, <2>3, SeqEqual DEF Text
<1>5. b = e.expr
  <2>1. b \in Text /\ Len(b) = X /\ \A i \in 1 .. X : b[i] = l[J + 1 + i]
    <3> DEFINE c == J + 2
               d == J + X + 1
    <3>1. c \in Nat \ {0} /\ d \in Nat /\ d <= Len(l) BY <1>1
    <3>2. d - c + 1 = X /\ (IF c <= d THEN d - c + 1 ELSE 0) = X BY <1>1
    <3>3. \A i \in 1 .. X : c + i - 1 = J + 1 + i BY <1>1
    <3>4. b = SubSeq(l, c, d) OBVIOUS
    <3> HIDE DEF b, c, d
    <3>5. /\ SubSeq(l, c, d) \in Text /\ Len(SubSeq(l, c, d)) = IF c <= d THEN d - c + 1 ELSE 0
          /\ \A i \in 1 .. d - c + 1 : SubSeq(l, c, d)[i] = l[c + i - 1]
      BY <1>1, <3>1, PartIs
    <3> QED BY <3>2, <3>3, <3>4, <3>5
  <2> HIDE DEF b
  <2>2. Len(b) = Len(e.expr) BY <2>1 DEF X
  <2>3. \A i \in 1 .. Len(b) : b[i] = e.expr[i] BY <1>1, <2>1
  <2>4. b \in Seq(Bytes) /\ e.expr \in Seq(Bytes) BY <1>3, <2>1 DEF Text
  <2> QED BY <2>2, <2>3, <2>4, SeqEqual
<1>6. Cut(e) = [job |-> a, expr |-> b]
  <2>1. J \in Nat /\ X \in Nat BY <1>1
  <2>2. Space(l, 1) - 1 = J /\ Space(l, 1) + 1 = J + 2 /\ Newline(l, 1) - 1 = J + X + 1
    BY <1>2, <2>1
  <2> QED BY <2>2 DEF Cut, EntryAt, l
<1> HIDE DEF a, b
<1> QED BY <1>3, <1>4, <1>5, <1>6

-----------------------------------------------------------------------------
(* The order of a set.                                                      *)

\* Two bytes differ in their rank.
LEMMA RankIs ==
    /\ \A c \in Bytes : Rank[c] \in Nat
    /\ \A c, d \in Bytes : c # d => Rank[c] < Rank[d] \/ Rank[d] < Rank[c]
  BY DEF Rank, Bytes

\* Before orders texts: of two texts, one comes before the other, ...
LEMMA BeforeTotal ==
    ASSUME NEW s \in Text, NEW t \in Text, s # t PROVE Before(s, t) \/ Before(t, s)
<1> DEFINE Differ == {i \in Nat \ {0} : i > Len(s) \/ i > Len(t) \/ s[i] # t[i]}
<1>1. Len(s) \in Nat /\ Len(t) \in Nat BY LenProperties DEF Text
<1>2. PICK i \in Differ : \A j \in Nat : j < i => j \notin Differ
  <2>1. Differ \in SUBSET Nat /\ Len(s) + 1 \in Differ BY <1>1
  <2> HIDE DEF Differ
  <2> QED BY <2>1, Least
<1>3. i \in Nat \ {0} /\ (i > Len(s) \/ i > Len(t) \/ s[i] # t[i]) OBVIOUS
<1>4. \A j \in 1 .. i - 1 : j <= Len(s) /\ j <= Len(t) /\ s[j] = t[j]
  <2> SUFFICES ASSUME NEW j \in 1 .. i - 1 PROVE j <= Len(s) /\ j <= Len(t) /\ s[j] = t[j] OBVIOUS
  <2>1. j \in Nat \ {0} /\ j < i BY <1>3
  <2>2. j \notin Differ
    <3> HIDE DEF Differ
    <3> QED BY <1>2, <2>1
  <2> QED BY <1>1, <2>1, <2>2
<1> HIDE DEF Differ
<1>5. i <= Len(s) + 1 /\ i <= Len(t) + 1
  <2> SUFFICES ASSUME i > Len(s) + 1 \/ i > Len(t) + 1 PROVE FALSE BY <1>1, <1>3
  <2>1. i - 1 \in 1 .. i - 1 BY <1>1, <1>3
  <2> QED BY <1>1, <1>3, <1>4, <2>1
<1>6. CASE i > Len(s) /\ i > Len(t)
  <2>1. Len(s) = Len(t) /\ i - 1 = Len(s) BY <1>1, <1>3, <1>5, <1>6
  <2>2. \A j \in 1 .. Len(s) : s[j] = t[j] BY <1>4, <2>1
  <2> QED BY <2>1, <2>2, SeqEqual DEF Text
<1>7. CASE i > Len(s) /\ i <= Len(t)
  <2>1. i \in 1 .. Len(t) BY <1>1, <1>3, <1>7
  <2> QED BY <1>4, <1>5, <1>7, <2>1 DEF Before
<1>8. CASE i <= Len(s) /\ i > Len(t)
  <2>1. i \in 1 .. Len(s) /\ \A j \in 1 .. i - 1 : t[j] = s[j] BY <1>1, <1>3, <1>4, <1>8
  <2> QED BY <1>5, <1>8, <2>1 DEF Before
<1>9. CASE i <= Len(s) /\ i <= Len(t)
  <2>1. i \in 1 .. Len(s) /\ i \in 1 .. Len(t) /\ s[i] # t[i] BY <1>1, <1>3, <1>9
  <2>2. s[i] \in Bytes /\ t[i] \in Bytes BY <2>1, ElementOfSeq DEF Text
  <2>3. Rank[s[i]] < Rank[t[i]] \/ Rank[t[i]] < Rank[s[i]] BY <2>1, <2>2, RankIs
  <2>4. \A j \in 1 .. i - 1 : s[j] = t[j] /\ t[j] = s[j] BY <1>4
  <2> QED BY <1>5, <2>1, <2>3, <2>4 DEF Before
<1> QED BY <1>1, <1>3, <1>6, <1>7, <1>8, <1>9

\* ... and none before itself.
LEMMA BeforeIrreflexive == ASSUME NEW s \in Text PROVE ~Before(s, s)
<1> SUFFICES ASSUME Before(s, s) PROVE FALSE OBVIOUS
<1>1. Len(s) \in Nat BY LenProperties DEF Text
<1>2. PICK i \in 1 .. Len(s) : i > Len(s) \/ Rank[s[i]] < Rank[s[i]] BY DEF Before
<1>3. Rank[s[i]] \in Nat BY ElementOfSeq, RankIs DEF Text
<1> QED BY <1>1, <1>2, <1>3

\* What comes before a text comes before all after it.
LEMMA BeforeTransitive ==
    ASSUME NEW s \in Text, NEW t \in Text, NEW u \in Text, Before(s, t), Before(t, u)
    PROVE  Before(s, u)
<1>1. Len(s) \in Nat /\ Len(t) \in Nat /\ Len(u) \in Nat BY LenProperties DEF Text
<1>2. PICK i \in 1 .. Len(t) :
        /\ i <= Len(s) + 1 /\ \A j \in 1 .. i - 1 : s[j] = t[j]
        /\ i > Len(s) \/ Rank[s[i]] < Rank[t[i]]
  BY DEF Before
<1>3. PICK k \in 1 .. Len(u) :
        /\ k <= Len(t) + 1 /\ \A j \in 1 .. k - 1 : t[j] = u[j]
        /\ k > Len(t) \/ Rank[t[k]] < Rank[u[k]]
  BY DEF Before
<1>4. CASE i < k
  <2>1. i \in 1 .. k - 1 /\ i \in 1 .. Len(u) BY <1>1, <1>4
  <2>2. t[i] = u[i] BY <1>3, <2>1
  <2>3. \A j \in 1 .. i - 1 : s[j] = u[j]
    <3>1. \A j \in 1 .. i - 1 : j \in 1 .. k - 1 BY <1>1, <1>4
    <3> QED BY <1>2, <1>3, <3>1
  <2>4. i > Len(s) \/ Rank[s[i]] < Rank[u[i]] BY <1>2, <2>2
  <2> QED BY <1>2, <2>1, <2>3, <2>4 DEF Before
<1>5. CASE i = k
  <2>1. i \in 1 .. Len(u) /\ Rank[t[i]] < Rank[u[i]] BY <1>1, <1>3, <1>5
  <2>2. \A j \in 1 .. i - 1 : s[j] = u[j] BY <1>2, <1>3, <1>5
  <2>3. t[i] \in Bytes /\ u[i] \in Bytes BY <2>1, ElementOfSeq DEF Text
  <2>4. i > Len(s) \/ Rank[s[i]] < Rank[u[i]]
    <3> SUFFICES ASSUME ~(i > Len(s)) PROVE Rank[s[i]] < Rank[u[i]] OBVIOUS
    <3>1. i \in 1 .. Len(s) BY <1>1
    <3>2. s[i] \in Bytes BY <3>1, ElementOfSeq DEF Text
    <3>3. Rank[s[i]] < Rank[t[i]] BY <1>2
    <3>4. Rank[s[i]] \in Nat /\ Rank[t[i]] \in Nat /\ Rank[u[i]] \in Nat BY <2>3, <3>2, RankIs
    <3> QED BY <2>1, <3>3, <3>4
  <2> QED BY <1>2, <2>1, <2>2, <2>4 DEF Before
<1>6. CASE i > k
  <2>1. k \in 1 .. i - 1 /\ k <= Len(s) + 1 /\ ~(k > Len(t)) BY <1>1, <1>2, <1>6
  <2>2. s[k] = t[k] /\ Rank[t[k]] < Rank[u[k]] BY <1>2, <1>3, <2>1
  <2>3. \A j \in 1 .. k - 1 : s[j] = u[j]
    <3>1. \A j \in 1 .. k - 1 : j \in 1 .. i - 1 BY <1>1, <1>6
    <3> QED BY <1>2, <1>3, <3>1
  <2> QED BY <2>1, <2>2, <2>3 DEF Before
<1> QED BY <1>1, <1>4, <1>5, <1>6

\* So operator< orders entries.
LEMMA EntryOrder ==
    /\ \A d, e \in Entry : d # e => EntryLess(d, e) \/ EntryLess(e, d)
    /\ \A e \in Entry : ~EntryLess(e, e)
    /\ \A c, d, e \in Entry : EntryLess(c, d) /\ EntryLess(d, e) => EntryLess(c, e)
<1>1. \A e \in Entry : e.job \in Text /\ e.expr \in Text BY DEF Entry
<1>2. \A d, e \in Entry : d # e => EntryLess(d, e) \/ EntryLess(e, d)
  <2>1. \A d, e \in Entry : d # e => d.job # e.job \/ d.expr # e.expr BY DEF Entry
  <2> QED BY <1>1, <2>1, BeforeTotal DEF EntryLess
<1>3. \A e \in Entry : ~EntryLess(e, e)
  BY <1>1, BeforeIrreflexive DEF EntryLess
<1>4. \A c, d, e \in Entry : EntryLess(c, d) /\ EntryLess(d, e) => EntryLess(c, e)
  <2> SUFFICES ASSUME NEW c \in Entry, NEW d \in Entry, NEW e \in Entry,
                      EntryLess(c, d), EntryLess(d, e)
               PROVE  EntryLess(c, e)
    OBVIOUS
  <2>1. CASE Before(c.job, d.job) /\ Before(d.job, e.job)
    <3>1. Before(c.job, e.job) BY <1>1, <2>1, BeforeTransitive
    <3> QED BY <3>1 DEF EntryLess
  <2>2. CASE c.job = d.job /\ d.job = e.job
    <3>1. Before(c.expr, d.expr) /\ Before(d.expr, e.expr)
      BY <1>1, <2>2, BeforeIrreflexive DEF EntryLess
    <3>2. Before(c.expr, e.expr) BY <1>1, <3>1, BeforeTransitive
    <3> QED BY <2>2, <3>2 DEF EntryLess
  <2> QED BY <2>1, <2>2 DEF EntryLess
<1> QED BY <1>2, <1>3, <1>4

\* The entries below an entry tell its place, so every entry has one.
LEMMA InOrderIs ==
    ASSUME NEW t \in SUBSET Entry, IsFiniteSet(t)
    PROVE  InOrder(t) \in Seq(t) /\ Range(InOrder(t)) = t
<1> DEFINE n == Cardinality(t)
           Below(k) == {j \in t : EntryLess(j, k)}
           o == InOrder(t)
<1>1. n \in Nat
  BY FS_CardinalityType
<1>2. ASSUME NEW k \in t
      PROVE  IsFiniteSet(Below(k)) /\ Cardinality(Below(k)) \in 0 .. n - 1
  <2>1. Below(k) \in SUBSET t /\ Below(k) # t BY <1>2, EntryOrder
  <2> HIDE DEF Below, n
  <2>2. IsFiniteSet(Below(k)) /\ Cardinality(Below(k)) <= n /\ Cardinality(Below(k)) # n
    BY <2>1, FS_Subset DEF n
  <2> QED BY <1>1, <2>2, FS_CardinalityType
<1>3. ASSUME NEW j \in t, NEW k \in t, EntryLess(j, k)
      PROVE  Cardinality(Below(j)) # Cardinality(Below(k))
  <2>1. Below(j) \in SUBSET Below(k) /\ j \in Below(k) /\ j \notin Below(j)
    BY <1>3, EntryOrder
  <2> HIDE DEF Below, n
  <2> QED BY <1>2, <2>1, FS_Subset
<1> DEFINE r == [k \in t |-> Cardinality(Below(k)) + 1]
<1>4. r \in Injection(t, 1 .. n)
  <2>1. r \in [t -> 1 .. n]
    <3> HIDE DEF Below, n
    <3> QED BY <1>1, <1>2
  <2>2. ASSUME NEW j \in t, NEW k \in t, r[j] = r[k] PROVE j = k
    <3>1. Cardinality(Below(j)) = Cardinality(Below(k))
      <4> HIDE DEF Below, n
      <4> QED BY <1>1, <1>2, <2>2
    <3>2. EntryLess(j, k) \/ EntryLess(k, j) \/ j = k BY EntryOrder
    <3> HIDE DEF Below, n
    <3> QED BY <1>3, <3>1, <3>2
  <2> HIDE DEF r, n
  <2> QED BY <2>1, <2>2, Fun_IsInj
<1>5. r \in Surjection(t, 1 .. n)
  <2>1. IsFiniteSet(1 .. n) /\ Cardinality(1 .. n) = n
    <3> HIDE DEF n
    <3>1. 1 \in Int /\ n \in Int BY <1>1
    <3>2. Cardinality(1 .. n) = IF 1 > n THEN 0 ELSE n - 1 + 1 BY <3>1, FS_Interval
    <3> QED BY <1>1, <3>1, <3>2, FS_Interval
  <2> HIDE DEF r
  <2> QED BY <1>4, <2>1, FS_Injection
<1>6. \A i \in 1 .. n : \E k \in t : Cardinality(Below(k)) = i - 1
  <2> SUFFICES ASSUME NEW i \in 1 .. n PROVE \E k \in t : Cardinality(Below(k)) = i - 1
    OBVIOUS
  <2>1. PICK k \in t : r[k] = i
    <3> HIDE DEF r, n
    <3> QED BY <1>5 DEF Surjection
  <2>2. Cardinality(Below(k)) + 1 = i BY <2>1
  <2> HIDE DEF Below, n, r
  <2>3. Cardinality(Below(k)) \in Int BY <1>1, <1>2
  <2> QED BY <2>2, <2>3
<1>7. o = [i \in 1 .. n |-> CHOOSE k \in t : Cardinality(Below(k)) = i - 1]
  BY DEF InOrder
<1>8. DOMAIN o = 1 .. n /\ \A i \in 1 .. n : o[i] \in t /\ Cardinality(Below(o[i])) = i - 1
  <2> HIDE DEF Below, n, o
  <2> QED BY <1>6, <1>7
<1>9. o \in Seq(t)
  <2>1. o \in [1 .. n -> t]
    <3> HIDE DEF Below, n, o
    <3> QED BY <1>7, <1>8
  <2> HIDE DEF n, o
  <2> QED BY <1>1, <2>1, FunctionIsSeq
<1>10. ASSUME NEW k \in t PROVE \E i \in DOMAIN o : o[i] = k
  <2> DEFINE i == Cardinality(Below(k)) + 1
  <2>1. i \in 1 .. n
    <3> HIDE DEF Below, n
    <3> QED BY <1>1, <1>2, <1>10
  <2>2. o[i] \in t /\ Cardinality(Below(o[i])) = Cardinality(Below(k))
    <3> HIDE DEF Below, n, o
    <3>1. Cardinality(Below(o[i])) = i - 1 /\ o[i] \in t BY <1>8, <2>1
    <3>2. Cardinality(Below(k)) \in Int BY <1>1, <1>2, <1>10
    <3> QED BY <3>1, <3>2
  <2> DEFINE j == o[i]
  <2> HIDE DEF i
  <2>3. j \in t /\ Cardinality(Below(j)) = Cardinality(Below(k)) BY <2>2
  <2> HIDE DEF j
  <2>4. EntryLess(j, k) \/ EntryLess(k, j) \/ j = k BY <1>10, <2>3, EntryOrder
  <2>5. j = k
    <3> HIDE DEF Below, n, o
    <3> QED BY <1>3, <1>10, <2>3, <2>4
  <2> HIDE DEF Below, n, o
  <2> QED BY <1>8, <2>1, <2>5 DEF j
<1> HIDE DEF n, o, Below
<1> QED BY <1>8, <1>9, <1>10 DEF o, Range

-----------------------------------------------------------------------------
(* The table as one run writes it.                                          *)

\* f flattens the first n of the sequences ss.
Flat(f, n, ss) ==
    f = [i \in 1 .. n |-> IF i = 1 THEN ss[i] ELSE f[i - 1] \o ss[i]]

\* What it holds at i.
LEMMA FlatValue ==
    ASSUME NEW f, NEW n \in Nat, NEW ss, Flat(f, n, ss), NEW i \in 1 .. n
    PROVE  f[i] = IF i = 1 THEN ss[i] ELSE f[i - 1] \o ss[i]
  BY DEF Flat

\* There is such a function, for any n.
LEMMA FlatExists ==
    ASSUME NEW ss PROVE \A n \in Nat : \E f : Flat(f, n, ss)
<1> DEFINE Bad == {n \in Nat : ~ \E f : Flat(f, n, ss)}
<1> SUFFICES ASSUME Bad # {} PROVE FALSE
  OBVIOUS
<1>1. PICK m \in Bad : \A k \in Nat : k < m => k \notin Bad
  <2>1. Bad \in SUBSET Nat OBVIOUS
  <2> HIDE DEF Bad
  <2> QED BY <2>1, Least
<1>2. m \in Nat /\ ~ \E f : Flat(f, m, ss)
  OBVIOUS
<1>3. CASE m = 0
  <2> DEFINE g == [i \in 1 .. 0 |-> ss[i]]
  <2>1. Flat(g, 0, ss) BY DEF Flat
  <2> QED BY <1>2, <1>3, <2>1
<1>4. CASE m # 0
  <2>1. m - 1 \in Nat /\ m - 1 < m BY <1>2, <1>4
  <2>2. m - 1 \notin Bad
    <3> HIDE DEF Bad
    <3> QED BY <1>1, <2>1
  <2>3. PICK f : Flat(f, m - 1, ss) BY <2>1, <2>2
  <2> DEFINE g == [i \in 1 .. m |-> IF i = 1 THEN ss[i] ELSE f[i - 1] \o ss[i]]
  <2>4. \A j \in 1 .. m - 1 : g[j] = f[j]
    BY <1>2, <2>1, <2>3, FlatValue
  <2>5. \A i \in 1 .. m : i # 1 => g[i - 1] = f[i - 1]
    <3> HIDE DEF g
    <3> QED BY <1>2, <2>4
  <2>6. g = [i \in 1 .. m |-> IF i = 1 THEN ss[i] ELSE g[i - 1] \o ss[i]]
    <3>1. \A i \in 1 .. m : (IF i = 1 THEN ss[i] ELSE f[i - 1] \o ss[i])
                          = (IF i = 1 THEN ss[i] ELSE g[i - 1] \o ss[i])
      <4> HIDE DEF g
      <4> QED BY <2>5
    <3>2. g = [i \in 1 .. m |-> IF i = 1 THEN ss[i] ELSE f[i - 1] \o ss[i]]
      OBVIOUS
    <3> HIDE DEF g
    <3> QED BY <3>1, <3>2
  <2> HIDE DEF g
  <2> QED BY <1>2, <2>6 DEF Flat
<1> QED BY <1>3, <1>4

\* FlattenSeq returns the last value of one.
LEMMA FlattenIs ==
    ASSUME NEW ss, Len(ss) \in Nat \ {0}
    PROVE  \E f : Flat(f, Len(ss), ss) /\ FlattenSeq(ss) = f[Len(ss)]
<1>1. FlattenSeq(ss) = (CHOOSE f : Flat(f, Len(ss), ss))[Len(ss)]
  BY DEF FlattenSeq, Flat
<1> QED BY <1>1, FlatExists

\* A line for each entry of o, one after the other.
LEMMA LinesWritten ==
    ASSUME NEW t \in SUBSET Entry, \A e \in t : OneLine(e), NEW o \in Seq(t)
    PROVE  Reads(FlattenSeq([i \in DOMAIN o |-> Line(o[i])]), Cuts(Range(o)))
<1> DEFINE n == Len(o)
           ss == [i \in DOMAIN o |-> Line(o[i])]
           Upto(i) == {Cut(o[j]) : j \in 1 .. i}
<1>1. n \in Nat /\ DOMAIN o = 1 .. n /\ \A i \in 1 .. n : o[i] \in Entry /\ OneLine(o[i])
  <2>1. n \in Nat /\ DOMAIN o = 1 .. n /\ \A i \in 1 .. n : o[i] \in t
    BY LenProperties, ElementOfSeq
  <2> HIDE DEF n
  <2> QED BY <2>1
<1>2. DOMAIN ss = 1 .. n /\ \A i \in 1 .. n : ss[i] = Line(o[i])
  BY <1>1
<1>3. Len(ss) = n
  <2>1. \A i \in 1 .. n : ss[i] \in Text
    <3> HIDE DEF ss, n
    <3> QED BY <1>1, <1>2, LineIs
  <2>2. ss = [i \in 1 .. n |-> ss[i]] BY <1>1
  <2> HIDE DEF ss
  <2>3. ss \in [1 .. n -> Text] BY <2>1, <2>2
  <2>4. ss \in Seq(Text) BY <1>1, <2>3, FunctionIsSeq
  <2>5. DOMAIN ss = 1 .. Len(ss) /\ Len(ss) \in Nat BY <2>4, LenProperties
  <2> HIDE DEF n
  <2> QED BY <1>1, <1>2, <2>5
<1>4. Cuts(Range(o)) = Upto(n)
  BY <1>1 DEF Cuts, Range
<1> HIDE DEF ss
<1>5. CASE n = 0
  <2>1. ss = <<>>
    <3>1. DOMAIN ss = {} BY <1>1, <1>2, <1>5
    <3> QED BY <1>1, <1>5, <3>1 DEF ss
  <2>2. FlattenSeq(ss) = ss BY <1>3, <1>5 DEF FlattenSeq
  <2>3. Upto(n) = {} BY <1>5
  <2> QED BY <1>4, <2>1, <2>2, <2>3, ReadsNothing DEF ss
<1>6. CASE n # 0
  <2>1. PICK f : Flat(f, n, ss) /\ FlattenSeq(ss) = f[n]
    <3> HIDE DEF n
    <3> QED BY <1>1, <1>3, <1>6, FlattenIs
  <2> DEFINE Bad == {i \in 1 .. n : ~Reads(f[i], Upto(i))}
  <2>2. Bad = {}
    <3> SUFFICES ASSUME Bad # {} PROVE FALSE
      OBVIOUS
    <3>1. PICK j \in Bad : \A i \in Nat : i < j => i \notin Bad
      <4>1. Bad \in SUBSET Nat OBVIOUS
      <4> HIDE DEF Bad
      <4> QED BY <4>1, Least
    <3>2. j \in 1 .. n /\ ~Reads(f[j], Upto(j))
      OBVIOUS
    <3> DEFINE l == Line(o[j])
    <3>3. Reads(l, {Cut(o[j])}) BY <1>1, <3>2, LineReads
    <3>4. f[j] = IF j = 1 THEN l ELSE f[j - 1] \o l
      <4>1. ss[j] = l BY <1>2, <3>2
      <4> HIDE DEF l, n
      <4> QED BY <1>1, <2>1, <3>2, <4>1, FlatValue
    <3> HIDE DEF l
    <3>5. CASE j = 1
      <4>1. Upto(j) = {Cut(o[j])} BY <3>5
      <4> HIDE DEF Upto
      <4> QED BY <3>2, <3>3, <3>4, <3>5, <4>1
    <3>6. CASE j # 1
      <4>1. j - 1 \in 1 .. n /\ j - 1 < j /\ j - 1 \in Nat BY <1>1, <3>2, <3>6
      <4>2. j - 1 \notin Bad
        <5> HIDE DEF Bad
        <5> QED BY <3>1, <4>1
      <4>3. Reads(f[j - 1], Upto(j - 1))
        <5> HIDE DEF Upto
        <5> QED BY <4>1, <4>2
      <4>4. Upto(j) = Upto(j - 1) \cup {Cut(o[j])}
        <5>1. 1 .. j = (1 .. (j - 1)) \cup {j} BY <4>1, <3>2
        <5> QED BY <5>1
      <4>5. Reads(f[j - 1] \o l, Upto(j - 1) \cup {Cut(o[j])})
        <5> HIDE DEF Upto
        <5> QED BY <3>3, <4>3, ReadsBoth
      <4> HIDE DEF Upto
      <4> QED BY <3>2, <3>4, <3>6, <4>4, <4>5
    <3> QED BY <3>5, <3>6
  <2>3. Reads(f[n], Upto(n))
    <3> HIDE DEF Upto
    <3> QED BY <1>1, <1>6, <2>2
  <2> HIDE DEF Upto
  <2> QED BY <1>4, <2>1, <2>3 DEF ss
<1> QED BY <1>5, <1>6

\* Any set is written as a text.
LEMMA ContentsText ==
    ASSUME NEW t \in SUBSET Entry, IsFiniteSet(t) PROVE Contents(t) \in Text
<1> DEFINE o == InOrder(t)
           n == Len(o)
           ss == [i \in DOMAIN o |-> Line(o[i])]
<1>1. o \in Seq(t) BY InOrderIs
<1> HIDE DEF o
<1>2. n \in Nat /\ DOMAIN o = 1 .. n /\ \A i \in 1 .. n : o[i] \in Entry
  <2>1. n \in Nat /\ DOMAIN o = 1 .. n /\ \A i \in 1 .. n : o[i] \in t
    BY <1>1, LenProperties, ElementOfSeq
  <2> HIDE DEF n
  <2> QED BY <2>1
<1>3. DOMAIN ss = 1 .. n /\ \A i \in 1 .. n : ss[i] \in Text
  BY <1>2, LineIs
<1>4. Contents(t) = FlattenSeq(ss) BY DEF Contents, o
<1>5. ss = [i \in 1 .. n |-> ss[i]] BY <1>2
<1> HIDE DEF ss, n
<1>6. ss \in [1 .. n -> Text] BY <1>3, <1>5
<1>7. ss \in Seq(Text) BY <1>2, <1>6, FunctionIsSeq
<1>8. Len(ss) = n
  <2>1. DOMAIN ss = 1 .. Len(ss) /\ Len(ss) \in Nat BY <1>7, LenProperties
  <2> QED BY <1>2, <1>3, <2>1
<1>9. CASE n = 0
  <2>1. ss = <<>> BY <1>7, <1>8, <1>9, EmptySeq
  <2>2. FlattenSeq(ss) = ss BY <1>8, <1>9 DEF FlattenSeq
  <2> QED BY <1>4, <2>1, <2>2, EmptyText
<1>10. CASE n # 0
  <2>1. PICK f : Flat(f, n, ss) /\ FlattenSeq(ss) = f[n] BY <1>2, <1>8, <1>10, FlattenIs
  <2> DEFINE Bad == {i \in 1 .. n : f[i] \notin Text}
  <2>2. Bad = {}
    <3> SUFFICES ASSUME Bad # {} PROVE FALSE OBVIOUS
    <3>1. PICK j \in Bad : \A i \in Nat : i < j => i \notin Bad
      <4>1. Bad \in SUBSET Nat OBVIOUS
      <4> HIDE DEF Bad
      <4> QED BY <4>1, Least
    <3>2. j \in 1 .. n /\ f[j] \notin Text OBVIOUS
    <3>3. f[j] = IF j = 1 THEN ss[j] ELSE f[j - 1] \o ss[j] BY <1>2, <2>1, <3>2, FlatValue
    <3>4. ss[j] \in Text BY <1>3, <3>2
    <3>5. j # 1 BY <3>2, <3>3, <3>4
    <3>6. j - 1 \in 1 .. n /\ j - 1 < j /\ j - 1 \in Nat BY <1>2, <3>2, <3>5
    <3>7. j - 1 \notin Bad
      <4> HIDE DEF Bad
      <4> QED BY <3>1, <3>6
    <3>8. f[j - 1] \in Text BY <3>6, <3>7
    <3>9. f[j - 1] \o ss[j] \in Text BY <3>4, <3>8, Joined
    <3> QED BY <3>2, <3>3, <3>5, <3>9
  <2>3. n \in 1 .. n BY <1>2, <1>10
  <2>4. f[n] \in Text BY <2>2, <2>3
  <2> QED BY <1>4, <2>1, <2>4
<1> QED BY <1>9, <1>10

\* So what a run makes of a set is read as its entries.
LEMMA ContentsRead ==
    ASSUME NEW t \in SUBSET Entry, IsFiniteSet(t), \A e \in t : OneLine(e)
    PROVE  Reads(Contents(t), Cuts(t))
<1>1. InOrder(t) \in Seq(t) /\ Range(InOrder(t)) = t BY InOrderIs
<1>2. Reads(FlattenSeq([i \in DOMAIN InOrder(t) |-> Line(InOrder(t)[i])]), Cuts(Range(InOrder(t))))
  BY <1>1, LinesWritten
<1> QED BY <1>1, <1>2 DEF Contents

\* For plain entries these are the entries themselves.
LEMMA CutsPlain == ASSUME NEW t \in SUBSET Entry, \A e \in t : Plain(e) PROVE Cuts(t) = t
<1>1. \A e \in t : Cut(e) = e BY CutPlain
<1> QED BY <1>1 DEF Cuts

\* A write at the end is one after the file.
LEMMA WriteAtEnd ==
    ASSUME NEW f \in Text, NEW s \in Text PROVE WriteAt(f, Len(f), s) = f \o s
<1> DEFINE n == Len(f)
           w == WriteAt(f, n, s)
           m == Len(s)
           g == f \o s
<1>1. /\ n \in Nat /\ m \in Nat /\ g \in Text /\ Len(g) = n + m
      /\ \A i \in 1 .. n : g[i] = f[i]
      /\ \A i \in 1 .. m : g[n + i] = s[i]
  BY Joined
<1>2. Max({n, n + m}) = n + m
  <2> DEFINE k == n + m
  <2>1. {n, k} \in SUBSET Nat /\ k \in {n, k} /\ \A i \in {n, k} : i <= k
    <3> HIDE DEF n, m
    <3> QED BY <1>1
  <2> HIDE DEF n, k
  <2> QED BY <2>1, MaxIs DEF k
<1>3. w = [i \in 1 .. n + m |->
              IF i \in n + 1 .. n + m THEN s[i - n] ELSE IF i <= n THEN f[i] ELSE "nul"]
  BY <1>2 DEF WriteAt
<1> HIDE DEF w, n, m, g
<1>4. ASSUME NEW i \in 1 .. n + m PROVE w[i] = g[i]
  <2>1. CASE i \in n + 1 .. n + m
    <3> DEFINE k == i - n
    <3>1. k \in 1 .. m /\ n + k = i BY <1>1, <2>1
    <3> HIDE DEF k
    <3>2. g[n + k] = s[k] BY <1>1, <3>1
    <3>3. w[i] = s[k] BY <1>3, <1>4, <2>1 DEF k
    <3> QED BY <3>1, <3>2, <3>3
  <2>2. CASE i \notin n + 1 .. n + m
    <3>1. i \in 1 .. n BY <1>1, <2>2
    <3>2. g[i] = f[i] BY <1>1, <3>1
    <3>3. i <= n BY <1>1, <3>1
    <3> QED BY <1>3, <1>4, <2>2, <3>2, <3>3
  <2> QED BY <2>1, <2>2
<1>5. g = [i \in 1 .. n + m |-> g[i]]
  <2>1. g \in Seq(Bytes) /\ Len(g) = n + m BY <1>1 DEF Text
  <2>2. g \in [1 .. n + m -> Bytes] BY <2>1, LenProperties
  <2> QED BY <2>2
<1>6. w = [i \in 1 .. n + m |-> w[i]] BY <1>3
<1>7. w = g
  <2> DEFINE d == 1 .. n + m
  <2>1. w = [i \in d |-> w[i]] /\ g = [i \in d |-> g[i]] /\ \A i \in d : w[i] = g[i] BY <1>4, <1>5, <1>6
  <2> HIDE DEF d
  <2> QED BY <2>1
<1> QED BY <1>7 DEF w, n, g

\* Wherever it is, a text is written into a text.
LEMMA WriteIsText ==
    ASSUME NEW f \in Text, NEW n \in Nat, NEW s \in Text PROVE WriteAt(f, n, s) \in Text
<1> DEFINE m == Len(s)
           k == Len(f)
           w == WriteAt(f, n, s)
           big == Max({k, n + m})
<1>1. m \in Nat /\ k \in Nat BY LenProperties DEF Text
<1>2. (\A i \in 1 .. m : s[i] \in Bytes) /\ (\A i \in 1 .. k : f[i] \in Bytes)
  BY ElementOfSeq DEF Text
<1>3. big \in Nat
  <2> DEFINE j == IF k <= n + m THEN n + m ELSE k
             S == {k, n + m}
  <2>1. S \in SUBSET Nat /\ j \in S /\ \A i \in S : i <= j
    <3> HIDE DEF k, m
    <3> QED BY <1>1
  <2> HIDE DEF S, j
  <2>2. Max(S) = j BY <2>1, MaxIs
  <2> QED BY <2>1, <2>2 DEF S
<1>4. w = [i \in 1 .. big |-> IF i \in n + 1 .. n + m THEN s[i - n] ELSE IF i <= k THEN f[i] ELSE "nul"]
  BY DEF WriteAt
<1> HIDE DEF w, m, k, big
<1>5. ASSUME NEW i \in 1 .. big
      PROVE  (IF i \in n + 1 .. n + m THEN s[i - n] ELSE IF i <= k THEN f[i] ELSE "nul") \in Bytes
  <2>1. i \in n + 1 .. n + m => i - n \in 1 .. m BY <1>1
  <2>2. i <= k => i \in 1 .. k BY <1>1, <1>3
  <2>3. "nul" \in Bytes BY DEF Bytes
  <2> QED BY <1>2, <2>1, <2>2, <2>3
<1>6. w \in [1 .. big -> Bytes] BY <1>4, <1>5
<1>7. w \in Seq(Bytes) BY <1>3, <1>6, FunctionIsSeq
<1> QED BY <1>7 DEF w, Text

\* The entries of a sequence are its first and the others.
LEMMA HeadTailRange ==
    ASSUME NEW s \in Seq(Entry), s # <<>>
    PROVE  /\ Head(s) \in Entry /\ Tail(s) \in Seq(Entry)
           /\ Range(s) = {Head(s)} \cup Range(Tail(s))
<1> DEFINE t == Tail(s)
<1>1. Len(s) \in Nat \ {0} /\ DOMAIN s = 1 .. Len(s) BY EmptySeq, LenProperties
<1>2. /\ Head(s) \in Entry /\ t \in Seq(Entry) /\ Len(t) = Len(s) - 1
      /\ \A i \in 1 .. Len(t) : t[i] = s[i + 1]
  BY HeadTailProperties
<1>3. Head(s) = s[1] BY <1>1
<1>4. DOMAIN t = 1 .. Len(t)
  <2> HIDE DEF t
  <2> QED BY <1>2, LenProperties
<1> HIDE DEF t
<1>5. ASSUME NEW i \in 1 .. Len(s), i # 1 PROVE s[i] \in Range(t)
  <2> DEFINE j == i - 1
  <2>1. j \in 1 .. Len(t) /\ j + 1 = i BY <1>1, <1>2, <1>5
  <2> HIDE DEF j
  <2> QED BY <1>2, <1>4, <2>1 DEF Range
<1>6. ASSUME NEW i \in 1 .. Len(t) PROVE t[i] \in Range(s)
  <2>1. i + 1 \in 1 .. Len(s) BY <1>1, <1>2
  <2> QED BY <1>1, <1>2, <2>1 DEF Range
<1>7. Range(t) \subseteq Range(s) BY <1>4, <1>6 DEF Range
<1>8. Range(s) \subseteq {s[1]} \cup Range(t) BY <1>1, <1>5 DEF Range
<1>9. s[1] \in Range(s) BY <1>1 DEF Range
<1> QED BY <1>2, <1>3, <1>7, <1>8, <1>9 DEF t

-----------------------------------------------------------------------------
(* The invariant.                                                           *)

\* What the command of p makes of the entries t.
Change(p, t) == IF cmd[p].op = "add" THEN add(t, EntryOf(p)) ELSE del(t, EntryOf(p))

AllOneLine == \A e \in added : OneLine(e)

\* A run that saves has a finite set of entries, and a table to write.
Typed ==
    /\ TypeOK
    /\ copy \in [Clients -> SUBSET Entry] /\ shown \in [Clients -> SUBSET Entry]
    /\ timers \in [Daemons -> SUBSET Entry]
    /\ \A p \in Clients : IsFiniteSet(copy[p]) /\ (Saving(p) => there)

\* Whatever the table was, what a run has of it came back from a line, or is
\* the entry it adds, which make_cron accepts.
Genuine ==
    /\ \A e \in added : make_cron(e.expr)
    /\ \A p \in Clients : Saving(p) =>
          /\ cmd[p].op \in {"add", "del"} /\ make_cron(cmd[p].expr)
          /\ \A e \in copy[p] : Plain(e) \/ e \in Added(p)
          /\ pc[p] = "writing" => Added(p) \subseteq added

\* Runs that do not overlap work on the table as it is.
OneByOne ==
    ~overlapped =>
        /\ \A p, q \in Clients : Saving(p) /\ Saving(q) => p = q
        /\ \A p \in Clients : pc[p] = "loaded" => copy[p] = Change(p, Entries(file))

\* What is read and what is still to be written are what is saved.
Written ==
    ~overlapped /\ AllOneLine =>
        \A p \in Clients : pc[p] = "writing" =>
            /\ off[p] = Len(file)
            /\ Reads(file, Entries(file))
            /\ Range(todo[p]) \subseteq copy[p]
            /\ Entries(file) \cup Cuts(Range(todo[p])) = Cuts(copy[p])

\* What is in the table, and what a run puts there, was saved.
Whole ==
    ~overlapped /\ AllPlain =>
        /\ Entries(file) \subseteq added
        /\ \A p \in Clients : pc[p] = "writing" => copy[p] \subseteq added

\* Between the runs the table is what the history says, and a run that saves
\* is about to make its change to it.
Kept ==
    ~overlapped /\ ~cut /\ AllPlain =>
        /\ Quiet => Entries(file) = table
        /\ \A p \in Clients : pc[p] = "writing" => copy[p] = Change(p, table)

TableInv == Genuine /\ OneByOne /\ Written /\ Whole /\ Kept

\* What a run adds is an entry.
LEMMA EntryOfIs ==
    ASSUME TypeOK, NEW p \in Clients
    PROVE  EntryOf(p) \in Entry /\ Added(p) \subseteq Entry
<1>1. cmd[p] \in Command BY TableAssumption DEF TypeOK
<1>2. EntryOf(p) \in Entry BY <1>1 DEF Command, EntryOf, Entry
<1> QED BY <1>2 DEF Added

\* Runs and daemons begin with a table that was saved, or with none.
LEMMA InitTyped == Init => Typed /\ TableInv
<1> SUFFICES ASSUME Init PROVE Typed /\ TableInv OBVIOUS
<1>1. /\ table \in SUBSET Entry /\ IsFiniteSet(table)
      /\ \A e \in table : make_cron(e.expr)
      /\ there \in BOOLEAN /\ (~there => file = <<>>)
      /\ (file = <<>> /\ table = {}) \/ file = Contents(table)
  <2>1. CASE \E t \in Tables : file = Contents(t) /\ there = TRUE /\ table = t
    <3>1. PICK t \in Tables : file = Contents(t) /\ there = TRUE /\ table = t BY <2>1
    <3>2. IsFiniteSet(t) /\ t \subseteq [job : Text, expr : Exprs] /\ Exprs \subseteq Text
      BY TableAssumption
    <3>3. \A e \in t : e \in Entry /\ make_cron(e.expr)
      <4> SUFFICES ASSUME NEW e \in t PROVE e \in Entry /\ make_cron(e.expr) OBVIOUS
      <4>1. e \in [job : Text, expr : Exprs] BY <3>2
      <4>2. e = [job |-> e.job, expr |-> e.expr] /\ e.job \in Text /\ e.expr \in Exprs BY <4>1
      <4>3. e.expr \in Text BY <3>2, <4>2
      <4>4. [job |-> e.job, expr |-> e.expr] \in Entry BY <4>2, <4>3 DEF Entry
      <4> QED BY <4>2, <4>4 DEF make_cron
    <3> QED BY <3>1, <3>2, <3>3
  <2>2. CASE file = <<>> /\ there = FALSE /\ table = {}
    BY <2>2, FS_EmptySet
  <2> QED BY <2>1, <2>2 DEF Init
<1>2. file \in Text
  <2>1. \A t \in SUBSET Entry : IsFiniteSet(t) => Contents(t) \in Text
    BY ContentsText
  <2> QED BY <1>1, <2>1, EmptyText
<1>3. ASSUME \A e \in table : Plain(e) PROVE Entries(file) = table
  <2>1. CASE file = <<>> /\ table = {} BY <2>1, EmptyText
  <2>2. CASE file = Contents(table)
    <3>1. \A e \in table : OneLine(e) BY <1>3 DEF Plain
    <3>2. Reads(Contents(table), Cuts(table)) BY <1>1, <3>1, ContentsRead
    <3>3. Cuts(table) = table BY <1>1, <1>3, CutsPlain
    <3> QED BY <2>2, <3>2, <3>3, ReadsEntries
  <2> QED BY <1>1, <2>1, <2>2
<1>4. \A p \in Clients : pc[p] = "start" /\ ~Saving(p) BY DEF Init, Saving
<1>5. Typed
  <2>1. TypeOK
    <3>1. \A p \in Clients : copy[p] = {} /\ shown[p] = {} BY DEF Init
    <3>2. \A d \in Daemons : timers[d] = {} BY DEF Init
    <3>3. <<>> \in Seq(Entry) BY EmptySeq
    <3> QED BY <1>1, <1>2, <3>1, <3>2, <3>3 DEF Init, TypeOK, Over
  <2>2. \A p \in Clients : copy[p] = {} BY DEF Init
  <2> QED BY <1>4, <2>1, <2>2, FS_EmptySet DEF Init, Typed
<1>6. added = table BY DEF Init
<1>7. Whole /\ Kept
  BY <1>3, <1>4, <1>6 DEF Whole, Kept, AllPlain
<1>8. Genuine /\ OneByOne /\ Written
  BY <1>1, <1>4, <1>6 DEF Genuine, OneByOne, Written
<1> QED BY <1>5, <1>7, <1>8 DEF TableInv

\* Every step keeps the types: those of a run ...
LEMMA TypedCli == ASSUME Typed, NEW p \in Clients, Cli(p) PROVE Typed'
<1> USE DEF Typed
<1>1. EntryOf(p) \in Entry /\ Added(p) \subseteq Entry BY EntryOfIs
<1>2. Entries(file) \in SUBSET Entry /\ IsFiniteSet(Entries(file))
  BY EntriesPlain DEF TypeOK
<1>3. CASE ExprRefused(p) \/ MaskRefused(p) \/ LoadRefused(p) \/ DelRefused(p)
  BY <1>3 DEF ExprRefused, MaskRefused, LoadRefused, DelRefused, Moves, TypeOK, Over, Saving,
              daemonVars, histVars
<1>4. CASE List(p)
  <2>1. {e \in Entries(file) : e.job = cmd[p].job} \in SUBSET Entry BY <1>2
  <2> QED BY <1>4, <2>1 DEF List, Moves, TypeOK, Over, Saving, daemonVars, histVars
<1>5. ASSUME NEW new \in SUBSET Entry, IsFiniteSet(new), Load(p, new) PROVE Typed'
  BY <1>5 DEF Load, Moves, TypeOK, Over, Saving, daemonVars
<1>6. CASE Add(p)
  <2>1. add(Entries(file), EntryOf(p)) \in SUBSET Entry /\ IsFiniteSet(add(Entries(file), EntryOf(p)))
    BY <1>1, <1>2, FS_AddElement DEF add
  <2> QED BY <1>5, <1>6, <2>1 DEF Add
<1>7. CASE Del(p)
  <2>1. del(Entries(file), EntryOf(p)) \in SUBSET Entry /\ IsFiniteSet(del(Entries(file), EntryOf(p)))
    BY <1>1, <1>2, FS_RemoveElement DEF del
  <2> QED BY <1>5, <1>7, <2>1 DEF Del
<1>8. CASE Open(p)
  <2>1. InOrder(copy[p]) \in Seq(Entry)
    <3>1. InOrder(copy[p]) \in Seq(copy[p]) /\ copy[p] \in SUBSET Entry BY InOrderIs
    <3> QED BY <3>1, SeqMonotonic
  <2> QED BY <1>1, <1>8, <2>1, EmptyText DEF Open, Moves, TypeOK, Over, Saving, daemonVars
<1>9. CASE OpenFails(p)
  BY <1>9 DEF OpenFails, Moves, TypeOK, Over, Saving, daemonVars, histVars
<1>10. CASE WriteLine(p)
  <2>1. todo[p] \in Seq(Entry) /\ todo[p] # <<>> /\ off[p] \in Nat /\ file \in Text
    BY <1>10 DEF TypeOK, WriteLine
  <2>2. Head(todo[p]) \in Entry /\ Tail(todo[p]) \in Seq(Entry) BY <2>1, HeadTailProperties
  <2>3. Line(Head(todo[p])) \in Text /\ Len(Line(Head(todo[p]))) \in Nat
    BY <2>2, LineIs, LenProperties DEF Text
  <2>4. file' \in Text BY <1>10, <2>1, <2>3, WriteIsText DEF WriteLine
  <2>5. todo' \in [Clients -> Seq(Entry)] BY <1>10, <2>2 DEF TypeOK, WriteLine
  <2>6. off' \in [Clients -> Nat]
    <3>1. off[p] + Len(Line(Head(todo[p]))) \in Nat BY <2>1, <2>3
    <3> QED BY <1>10, <3>1 DEF TypeOK, WriteLine
  <2>7. there' = there /\ there BY <1>10 DEF WriteLine, Saving
  <2>8. UNCHANGED <<cmd, pc, copy, shown, daemon, timers, cv, mutex, table, added, overlapped, cut>>
    BY <1>10 DEF WriteLine, daemonVars, histVars
  <2>9. TypeOK' BY <2>4, <2>5, <2>6, <2>7, <2>8 DEF TypeOK
  <2> QED BY <2>7, <2>8, <2>9 DEF Saving
<1>11. CASE Notify(p)
  <2>1. table' \subseteq Entry BY <1>1, <1>11 DEF Notify, TypeOK, add, del
  <2> QED BY <1>11, <2>1 DEF Notify, TypeOK, Over, Saving
<1>12. CASE Kill(p)
  BY <1>12 DEF Kill, TypeOK, Over, Saving, daemonVars
<1> QED BY <1>3, <1>4, <1>6, <1>7, <1>8, <1>9, <1>10, <1>11, <1>12 DEF Cli

\* ... and those of a daemon.
LEMMA TypedDaemon == ASSUME Typed, NEW d \in Daemons, Daemon(d) PROVE Typed'
<1> USE DEF Typed
<1>1. Entries(file) \in SUBSET Entry
  BY EntriesPlain DEF TypeOK
<1>2. CASE Update(d)
  BY <1>1, <1>2 DEF Update, Becomes, TypeOK, Saving, cliVars, histVars
<1>3. CASE ~Update(d)
  BY <1>3 DEF Daemon, RemoveCv, RemoveMutex, MakeCv, MakeMutex, End, Becomes, TypeOK, Saving,
              cliVars, histVars
<1> QED BY <1>2, <1>3

\* So does every step.
LEMMA TypedStep == ASSUME Typed, [Next]_vars PROVE Typed'
<1>1. CASE UNCHANGED vars
  BY <1>1 DEF Typed, TypeOK, Saving, vars, cliVars, daemonVars, histVars
<1> QED BY <1>1, TypedCli, TypedDaemon DEF Next

\* A step that leaves the table and what is saved alone, and takes nobody
\* who writes out of it.
Idle ==
    /\ UNCHANGED <<file, cmd, copy, todo, off, table, added, overlapped, cut>>
    /\ \A q \in Clients :
          /\ Saving(q)' => pc'[q] = pc[q]
          /\ pc[q] = "writing" => pc'[q] = "writing"

\* Such a step changes nothing of all that.
LEMMA IdleKeeps == ASSUME TableInv, Idle PROVE TableInv' /\ Content' = Content
<1>1. \A q \in Clients : (pc'[q] = "writing" <=> pc[q] = "writing")
                         /\ (pc'[q] = "loaded" => pc[q] = "loaded") /\ (Saving(q)' => Saving(q))
  BY DEF Idle, Saving
<1>2. /\ file' = file /\ cmd' = cmd /\ copy' = copy /\ todo' = todo /\ off' = off
      /\ table' = table /\ added' = added /\ overlapped' = overlapped /\ cut' = cut
  BY DEF Idle
<1>3. Quiet' <=> Quiet BY <1>1 DEF Quiet
<1>4. Entries(file)' = Entries(file) BY <1>2
<1>5. \A q \in Clients : EntryOf(q)' = EntryOf(q) /\ Added(q)' = Added(q) BY <1>2 DEF EntryOf, Added
<1>6. Genuine' BY <1>1, <1>2, <1>5 DEF TableInv, Genuine
<1>7. OneByOne'
  <2>1. \A q \in Clients : Change(q, Entries(file))' = Change(q, Entries(file))
    BY <1>2, <1>4, <1>5 DEF Change
  <2> QED BY <1>1, <1>2, <2>1 DEF TableInv, OneByOne
<1>8. Written' BY <1>1, <1>2, <1>4 DEF TableInv, Written, AllOneLine
<1>9. Whole' BY <1>1, <1>2, <1>4 DEF TableInv, Whole, AllPlain
<1>10. Kept'
  <2>1. \A q \in Clients : Change(q, table)' = Change(q, table)
    BY <1>2, <1>5 DEF Change
  <2> QED BY <1>1, <1>2, <1>3, <1>4, <2>1 DEF TableInv, Kept, AllPlain
<1>11. Content' = Content
  <2>1. {q \in Clients : pc'[q] = "writing"} = {q \in Clients : pc[q] = "writing"} BY <1>1
  <2> QED BY <1>2, <1>3, <1>4, <2>1 DEF Content
<1> QED BY <1>6, <1>7, <1>8, <1>9, <1>10, <1>11 DEF TableInv

\* What only one run writes is its set.
LEMMA ContentOf ==
    ASSUME NEW p \in Clients, pc[p] = "writing", \A q \in Clients : pc[q] = "writing" => q = p
    PROVE  Content = copy[p]
<1>1. {q \in Clients : pc[q] = "writing"} = {p} OBVIOUS
<1>2. UNION {copy[q] : q \in {q \in Clients : pc[q] = "writing"}} = copy[p] BY <1>1
<1>3. ~Quiet BY DEF Quiet
<1> QED BY <1>2, <1>3 DEF Content

\* A change leaves what is poisoned.
LEMMA ChangePoisoned ==
    ASSUME NEW p \in Clients, make_cron(cmd[p].expr), NEW t, Poisoned(t) PROVE Poisoned(Change(p, t))
<1>1. PICK e \in t : ~make_cron(e.expr) BY DEF Poisoned
<1>2. e # EntryOf(p) BY <1>1 DEF EntryOf
<1>3. e \in Change(p, t) BY <1>1, <1>2 DEF Change, add, del
<1> QED BY <1>1, <1>3 DEF Poisoned

\* What PoisonStays says of a step.
Spoilt ==
    ~overlapped' /\ ~cut' /\ (\A e \in added' : OneLine(e)) /\ Poisoned(Content)
        => Poisoned(Content')

\* A run loads the table.
LEMMA LoadKeeps ==
    ASSUME Typed, TableInv, NEW p \in Clients, cmd[p].op \in {"add", "del"}, make_cron(cmd[p].expr),
           Load(p, Change(p, Entries(file)))
    PROVE  TableInv' /\ Spoilt
<1> DEFINE new == Change(p, Entries(file))
<1>1. /\ pc[p] = "start" /\ pc' = [pc EXCEPT ![p] = "loaded"]
      /\ copy' = [copy EXCEPT ![p] = new]
      /\ overlapped' = (overlapped \/ \E q \in Clients \ {p} : Saving(q))
      /\ file' = file /\ cmd' = cmd /\ todo' = todo /\ off' = off
      /\ table' = table /\ added' = added /\ cut' = cut
  BY DEF Load, Moves
<1>2. /\ DOMAIN pc = Clients /\ DOMAIN copy = Clients /\ file \in Text
  BY DEF Typed, TypeOK
<1>3. \A e \in Entries(file) : Plain(e) BY <1>2, EntriesPlain
<1>4. \A e \in new : Plain(e) \/ e \in Added(p) BY <1>3 DEF Change, add, del, Added
<1> HIDE DEF new
<1>5. /\ pc'[p] = "loaded" /\ copy'[p] = new
      /\ \A q \in Clients \ {p} : pc'[q] = pc[q] /\ copy'[q] = copy[q]
  BY <1>1, <1>2
<1>6. \A q \in Clients : EntryOf(q)' = EntryOf(q) /\ Added(q)' = Added(q) BY <1>1 DEF EntryOf, Added
<1>7. Entries(file)' = Entries(file) BY <1>1
<1>8. ~overlapped' => ~overlapped /\ \A q \in Clients \ {p} : ~Saving(q) /\ ~Saving(q)'
  <2>1. ~overlapped' => ~overlapped /\ \A q \in Clients \ {p} : ~Saving(q) BY <1>1, Zenon
  <2> QED BY <1>5, <2>1 DEF Saving
<1>9. Genuine'
  <2>1. \A e \in added' : make_cron(e.expr) BY <1>1 DEF TableInv, Genuine
  <2>2. ASSUME NEW q \in Clients, Saving(q)'
        PROVE  (/\ cmd[q].op \in {"add", "del"} /\ make_cron(cmd[q].expr)
                /\ \A e \in copy[q] : Plain(e) \/ e \in Added(q)
                /\ pc[q] = "writing" => Added(q) \subseteq added)'
    <3>1. CASE q = p BY <1>1, <1>4, <1>5, <1>6, <3>1
    <3>2. CASE q # p
      <4>1. pc'[q] = pc[q] /\ copy'[q] = copy[q] /\ Saving(q) BY <1>5, <2>2, <3>2 DEF Saving
      <4> QED BY <1>1, <1>6, <4>1 DEF TableInv, Genuine
    <3> QED BY <3>1, <3>2
  <2> QED BY <2>1, <2>2 DEF Genuine
<1>10. OneByOne'
  <2> SUFFICES ASSUME ~overlapped'
               PROVE  /\ \A q, r \in Clients : Saving(q)' /\ Saving(r)' => q = r
                      /\ \A q \in Clients : pc'[q] = "loaded" => copy'[q] = Change(q, Entries(file))'
    BY DEF OneByOne
  <2>1. \A q \in Clients : Saving(q)' => q = p BY <1>8
  <2>2. Change(p, Entries(file))' = new BY <1>1, <1>6, <1>7 DEF new, Change
  <2> QED BY <1>5, <2>1, <2>2 DEF Saving
<1>11. ~overlapped' => Quiet /\ Quiet' /\ \A q \in Clients : pc'[q] # "writing"
  BY <1>1, <1>5, <1>8 DEF Quiet, Saving
<1>12. Written' BY <1>11 DEF Written
<1>13. Whole' BY <1>1, <1>7, <1>11 DEF TableInv, Whole, AllPlain
<1>14. Kept' BY <1>1, <1>7, <1>8, <1>11 DEF TableInv, Kept, AllPlain
<1>15. Spoilt BY <1>7, <1>11 DEF Spoilt, Content
<1> QED BY <1>9, <1>10, <1>12, <1>13, <1>14, <1>15 DEF TableInv

\* A run empties the file and is about to write.
LEMMA OpenKeeps ==
    ASSUME Typed, TableInv, NEW p \in Clients, Open(p) PROVE TableInv' /\ Spoilt
<1>1. /\ pc[p] = "loaded" /\ pc' = [pc EXCEPT ![p] = "writing"]
      /\ file' = <<>> /\ todo' = [todo EXCEPT ![p] = InOrder(copy[p])] /\ off' = [off EXCEPT ![p] = 0]
      /\ added' = added \cup Added(p)
      /\ cmd' = cmd /\ copy' = copy /\ table' = table /\ overlapped' = overlapped /\ cut' = cut
  BY DEF Open, Moves
<1>2. /\ DOMAIN pc = Clients /\ DOMAIN todo = Clients /\ DOMAIN off = Clients
      /\ copy[p] \in SUBSET Entry /\ IsFiniteSet(copy[p])
  BY DEF Typed, TypeOK
<1>3. /\ pc'[p] = "writing" /\ todo'[p] = InOrder(copy[p]) /\ off'[p] = 0
      /\ \A q \in Clients \ {p} : pc'[q] = pc[q] /\ todo'[q] = todo[q] /\ off'[q] = off[q]
  BY <1>1, <1>2
<1>4. \A q \in Clients : EntryOf(q)' = EntryOf(q) /\ Added(q)' = Added(q) BY <1>1 DEF EntryOf, Added
<1>5. /\ cmd[p].op \in {"add", "del"} /\ make_cron(cmd[p].expr)
      /\ \A e \in copy[p] : Plain(e) \/ e \in Added(p)
  BY <1>1 DEF TableInv, Genuine, Saving
<1>6. \A q \in Clients : Saving(q)' <=> Saving(q) BY <1>1, <1>3 DEF Saving
<1>7. ~overlapped => \A q \in Clients : Saving(q) => q = p
  BY <1>1 DEF TableInv, OneByOne, Saving
<1>8. ~overlapped => copy[p] = Change(p, Entries(file))
  BY <1>1 DEF TableInv, OneByOne
<1>9. ~overlapped => Quiet /\ ~Quiet' /\ \A q \in Clients : pc'[q] = "writing" => q = p
  BY <1>1, <1>3, <1>6, <1>7 DEF Quiet, Saving
<1>10. Genuine'
  <2>1. \A e \in added' : make_cron(e.expr) BY <1>1, <1>5 DEF TableInv, Genuine, Added, EntryOf
  <2>2. ASSUME NEW q \in Clients, Saving(q)'
        PROVE  (/\ cmd[q].op \in {"add", "del"} /\ make_cron(cmd[q].expr)
                /\ \A e \in copy[q] : Plain(e) \/ e \in Added(q)
                /\ pc[q] = "writing" => Added(q) \subseteq added)'
    <3>1. CASE q = p BY <1>1, <1>4, <1>5, <3>1
    <3>2. CASE q # p
      <4>1. pc'[q] = pc[q] /\ Saving(q) BY <1>3, <1>6, <2>2, <3>2
      <4> QED BY <1>1, <1>4, <4>1 DEF TableInv, Genuine
    <3> QED BY <3>1, <3>2
  <2> QED BY <2>1, <2>2 DEF Genuine
<1>11. OneByOne'
  <2>1. ~overlapped => \A q \in Clients : Saving(q)' => q = p BY <1>6, <1>7
  <2>2. ~overlapped => \A q \in Clients : pc'[q] # "loaded" BY <1>3, <2>1 DEF Saving
  <2> QED BY <1>1, <2>1, <2>2 DEF OneByOne
<1>12. Written'
  <2> SUFFICES ASSUME ~overlapped', AllOneLine'
               PROVE  \A q \in Clients : pc'[q] = "writing" =>
                        /\ off'[q] = Len(file')
                        /\ Reads(file', Entries(file'))
                        /\ Range(todo'[q]) \subseteq copy'[q]
                        /\ Entries(file') \cup Cuts(Range(todo'[q])) = Cuts(copy'[q])
    BY DEF Written
  <2>1. \A q \in Clients : pc'[q] = "writing" => q = p BY <1>1, <1>9
  <2>2. Range(InOrder(copy[p])) = copy[p] BY <1>2, InOrderIs
  <2>3. off'[p] = Len(file') /\ Reads(file', Entries(file')) /\ Entries(file') = {}
    BY <1>1, <1>3, EmptyText, ReadsNothing
  <2> QED BY <1>1, <1>3, <2>1, <2>2, <2>3
<1>13. Whole'
  <2> SUFFICES ASSUME ~overlapped', AllPlain'
               PROVE  /\ Entries(file') \subseteq added'
                      /\ \A q \in Clients : pc'[q] = "writing" => copy'[q] \subseteq added'
    BY DEF Whole
  <2>1. ~overlapped /\ AllPlain BY <1>1 DEF AllPlain
  <2>2. Entries(file) \subseteq added BY <2>1 DEF TableInv, Whole
  <2>3. copy[p] \subseteq Entries(file) \cup Added(p) BY <1>8, <2>1 DEF Change, add, del, Added
  <2>4. Entries(file') = {} BY <1>1, EmptyText
  <2> QED BY <1>1, <1>9, <2>1, <2>2, <2>3, <2>4
<1>14. Kept'
  <2> SUFFICES ASSUME ~overlapped', ~cut', AllPlain'
               PROVE  /\ Quiet' => Entries(file') = table'
                      /\ \A q \in Clients : pc'[q] = "writing" => copy'[q] = Change(q, table)'
    BY DEF Kept
  <2>1. ~overlapped /\ ~cut /\ AllPlain BY <1>1 DEF AllPlain
  <2>2. Entries(file) = table BY <1>9, <2>1 DEF TableInv, Kept
  <2>3. Change(p, table)' = Change(p, table) BY <1>1, <1>4 DEF Change
  <2> QED BY <1>1, <1>8, <1>9, <2>1, <2>2, <2>3
<1>15. Spoilt
  <2> SUFFICES ASSUME ~overlapped', Poisoned(Content) PROVE Poisoned(Content') BY DEF Spoilt
  <2>1. Content = Entries(file) BY <1>1, <1>9 DEF Content
  <2>2. Poisoned(copy[p]) BY <1>1, <1>5, <1>8, <2>1, ChangePoisoned
  <2>3. Content' = copy'[p] BY <1>1, <1>3, <1>9, ContentOf DEF Content, Quiet
  <2> QED BY <1>1, <2>2, <2>3
<1> QED BY <1>10, <1>11, <1>12, <1>13, <1>14, <1>15 DEF TableInv

\* A run writes a line.
LEMMA WriteKeeps ==
    ASSUME Typed, TableInv, NEW p \in Clients, WriteLine(p) PROVE TableInv' /\ Spoilt
<1> DEFINE e == Head(todo[p])
<1>1. /\ pc[p] = "writing" /\ todo[p] # <<>>
      /\ file' = WriteAt(file, off[p], Line(e))
      /\ off' = [off EXCEPT ![p] = @ + Len(Line(e))]
      /\ todo' = [todo EXCEPT ![p] = Tail(@)]
      /\ cmd' = cmd /\ pc' = pc /\ copy' = copy
      /\ table' = table /\ added' = added /\ overlapped' = overlapped /\ cut' = cut
  BY DEF WriteLine, histVars
<1>2. /\ todo[p] \in Seq(Entry) /\ file \in Text /\ DOMAIN off = Clients /\ DOMAIN todo = Clients
      /\ copy[p] \in SUBSET Entry /\ added \in SUBSET Entry
  BY DEF Typed, TypeOK
<1>3. e \in Entry /\ Tail(todo[p]) \in Seq(Entry) /\ Range(todo[p]) = {e} \cup Range(Tail(todo[p]))
  BY <1>1, <1>2, HeadTailRange
<1> HIDE DEF e
<1>4. off'[p] = off[p] + Len(Line(e)) /\ todo'[p] = Tail(todo[p])
  BY <1>1, <1>2
<1>5. \A q \in Clients : EntryOf(q)' = EntryOf(q) /\ Added(q)' = Added(q) BY <1>1 DEF EntryOf, Added
<1>6. ~overlapped => \A q \in Clients : Saving(q) => q = p
  BY <1>1 DEF TableInv, OneByOne, Saving
<1>7. ~Quiet /\ ~Quiet' BY <1>1 DEF Quiet
<1>8. Content' = Content BY <1>1, <1>7 DEF Content
<1>9. Genuine' BY <1>1, <1>5 DEF TableInv, Genuine, Saving
<1>10. OneByOne'
  <2>1. ~overlapped => \A q \in Clients : pc[q] # "loaded" BY <1>1, <1>6 DEF Saving
  <2>2. ~overlapped => \A q, r \in Clients : Saving(q)' /\ Saving(r)' => q = r
    BY <1>1, <1>6 DEF Saving
  <2> QED BY <1>1, <2>1, <2>2 DEF OneByOne
<1>11. ASSUME ~overlapped, AllOneLine
       PROVE  /\ off'[p] = Len(file')
              /\ Reads(file', Entries(file'))
              /\ Range(todo'[p]) \subseteq copy'[p]
              /\ Entries(file') \cup Cuts(Range(todo'[p])) = Cuts(copy'[p])
  <2>1. /\ off[p] = Len(file) /\ Reads(file, Entries(file)) /\ Range(todo[p]) \subseteq copy[p]
        /\ Entries(file) \cup Cuts(Range(todo[p])) = Cuts(copy[p])
    BY <1>1, <1>11 DEF TableInv, Written
  <2>2. OneLine(e)
    <3>1. e \in copy[p] BY <1>3, <2>1
    <3>2. Plain(e) \/ e \in added BY <1>1, <3>1 DEF TableInv, Genuine, Saving
    <3> QED BY <1>11, <3>2 DEF AllOneLine, Plain
  <2>3. Line(e) \in Text /\ Len(Line(e)) \in Nat BY <1>3, LineIs, LenProperties DEF Text
  <2>4. file' = file \o Line(e) BY <1>1, <1>2, <2>1, <2>3, WriteAtEnd
  <2>5. Reads(file', Entries(file) \cup {Cut(e)})
    BY <1>3, <2>1, <2>2, <2>4, LineReads, ReadsBoth
  <2>6. Entries(file') = Entries(file) \cup {Cut(e)} BY <2>5, ReadsEntries
  <2>7. Len(file') = Len(file) + Len(Line(e)) BY <1>2, <2>3, <2>4, Joined
  <2>8. off'[p] = Len(file') BY <1>4, <2>1, <2>7
  <2>9. Cuts(Range(todo[p])) = {Cut(e)} \cup Cuts(Range(todo'[p])) BY <1>3, <1>4 DEF Cuts
  <2> QED BY <1>1, <1>3, <1>4, <2>1, <2>5, <2>6, <2>8, <2>9
<1>12. Written'
  <2>1. ~overlapped => \A q \in Clients : pc'[q] = "writing" => q = p BY <1>1, <1>6 DEF Saving
  <2> QED BY <1>1, <1>11, <2>1 DEF Written, AllOneLine
<1>13. Whole'
  <2> SUFFICES ASSUME ~overlapped, AllPlain PROVE Entries(file') \subseteq added
    BY <1>1 DEF TableInv, Whole, AllPlain
  <2>1. AllOneLine BY DEF AllPlain, AllOneLine, Plain
  <2>2. Entries(file') \subseteq Cuts(copy[p]) BY <1>1, <1>11, <2>1
  <2>3. copy[p] \subseteq added BY <1>1 DEF TableInv, Whole
  <2>4. Cuts(copy[p]) = copy[p] BY <1>2, <2>3, CutsPlain DEF AllPlain
  <2> QED BY <2>2, <2>3, <2>4
<1>14. Kept'
  <2>1. \A q \in Clients : Change(q, table)' = Change(q, table) BY <1>1, <1>5 DEF Change
  <2> QED BY <1>1, <1>7, <2>1 DEF TableInv, Kept, AllPlain
<1> QED BY <1>8, <1>9, <1>10, <1>12, <1>13, <1>14 DEF TableInv, Spoilt

\* A run that has written all is done.
LEMMA NotifyKeeps ==
    ASSUME Typed, TableInv, NEW p \in Clients, Notify(p), pc[p] = "writing" PROVE TableInv' /\ Spoilt
<1>1. /\ todo[p] = <<>> /\ table' = Change(p, table)
      /\ pc' = [pc EXCEPT ![p] = "ok"]
      /\ file' = file /\ cmd' = cmd /\ copy' = copy /\ todo' = todo /\ off' = off
      /\ added' = added /\ overlapped' = overlapped /\ cut' = cut
  BY DEF Notify, Change
<1>2. DOMAIN pc = Clients /\ copy[p] \in SUBSET Entry /\ added \in SUBSET Entry
  BY DEF Typed, TypeOK
<1>3. pc'[p] = "ok" /\ \A q \in Clients \ {p} : pc'[q] = pc[q]
  BY <1>1, <1>2
<1>4. \A q \in Clients : (Saving(q)' => q # p /\ Saving(q)) /\ (pc'[q] = "writing" => pc[q] = "writing")
  BY <1>3 DEF Saving
<1>5. \A q \in Clients : EntryOf(q)' = EntryOf(q) /\ Added(q)' = Added(q) BY <1>1 DEF EntryOf, Added
<1>6. ~overlapped => \A q \in Clients : ~Saving(q)'
  BY <1>4 DEF TableInv, OneByOne, Saving
<1>7. ~overlapped => Quiet' /\ \A q \in Clients : pc'[q] # "loaded" /\ pc'[q] # "writing"
  BY <1>6 DEF Quiet, Saving
<1>8. ASSUME ~overlapped, AllOneLine PROVE Entries(file) = Cuts(copy[p])
  <2>1. Entries(file) \cup Cuts(Range(todo[p])) = Cuts(copy[p])
    BY <1>8 DEF TableInv, Written
  <2>2. Range(todo[p]) = {} BY <1>1 DEF Range
  <2> QED BY <2>1, <2>2 DEF Cuts
<1>9. Genuine'
  <2>1. ASSUME NEW q \in Clients, Saving(q)'
        PROVE  (/\ cmd[q].op \in {"add", "del"} /\ make_cron(cmd[q].expr)
                /\ \A e \in copy[q] : Plain(e) \/ e \in Added(q)
                /\ pc[q] = "writing" => Added(q) \subseteq added)'
    <3>1. Saving(q) /\ pc'[q] = pc[q] BY <1>3, <1>4, <2>1
    <3> QED BY <1>1, <1>5, <3>1 DEF TableInv, Genuine
  <2> QED BY <1>1, <2>1 DEF TableInv, Genuine
<1>10. OneByOne' BY <1>1, <1>6, <1>7 DEF OneByOne
<1>11. Written' BY <1>1, <1>7 DEF Written
<1>12. Whole' BY <1>1, <1>7 DEF TableInv, Whole, AllPlain
<1>13. Kept'
  <2> SUFFICES ASSUME ~overlapped, ~cut, AllPlain PROVE Entries(file) = table'
    BY <1>1, <1>7 DEF Kept, AllPlain
  <2>1. AllOneLine BY DEF AllPlain, AllOneLine, Plain
  <2>2. copy[p] \subseteq added BY DEF TableInv, Whole
  <2>3. Cuts(copy[p]) = copy[p] BY <1>2, <2>2, CutsPlain DEF AllPlain
  <2>4. copy[p] = Change(p, table) BY DEF TableInv, Kept
  <2> QED BY <1>1, <1>8, <2>1, <2>3, <2>4
<1>14. Spoilt
  <2> SUFFICES ASSUME ~overlapped, AllOneLine, Poisoned(Content) PROVE Poisoned(Content')
    BY <1>1 DEF Spoilt, AllOneLine
  <2>1. Content = copy[p]
    <3>1. \A q \in Clients : pc[q] = "writing" => q = p BY DEF TableInv, OneByOne, Saving
    <3> QED BY <3>1, ContentOf
  <2>2. Content' = Entries(file) BY <1>1, <1>7 DEF Content
  <2>3. PICK e \in copy[p] : ~make_cron(e.expr) BY <2>1 DEF Poisoned
  <2>4. e \notin Added(p) BY <2>3 DEF TableInv, Genuine, Saving, Added, EntryOf
  <2>5. Plain(e) BY <2>3, <2>4 DEF TableInv, Genuine, Saving
  <2>6. Cut(e) = e BY <1>2, <2>3, <2>5, CutPlain
  <2>7. e \in Entries(file) BY <1>8, <2>3, <2>6 DEF Cuts
  <2> QED BY <2>2, <2>3, <2>7 DEF Poisoned
<1> QED BY <1>9, <1>10, <1>11, <1>12, <1>13, <1>14 DEF TableInv

\* A run is killed while it writes.
LEMMA KillKeeps ==
    ASSUME Typed, TableInv, NEW p \in Clients, Kill(p), pc[p] = "writing" PROVE TableInv' /\ Spoilt
<1>1. /\ pc' = [pc EXCEPT ![p] = "killed"]
      /\ file' = file /\ cmd' = cmd /\ copy' = copy /\ todo' = todo /\ off' = off
      /\ added' = added /\ overlapped' = overlapped /\ table' = table
  BY DEF Kill
<1>2. cut'
  <2>1. cut' = (cut \/ pc[p] = "writing") BY DEF Kill
  <2> QED BY <2>1, Zenon
<1>3. DOMAIN pc = Clients BY DEF Typed, TypeOK
<1>4. pc'[p] = "killed" /\ \A q \in Clients \ {p} : pc'[q] = pc[q]
  BY <1>1, <1>3
<1>5. \A q \in Clients : Saving(q)' => q # p /\ Saving(q) /\ pc'[q] = pc[q]
  BY <1>4 DEF Saving
<1>6. \A q \in Clients : EntryOf(q)' = EntryOf(q) /\ Added(q)' = Added(q) BY <1>1 DEF EntryOf, Added
<1>7. ~overlapped => \A q \in Clients : ~Saving(q)' /\ pc'[q] # "loaded" /\ pc'[q] # "writing"
  BY <1>5 DEF TableInv, OneByOne, Saving
<1>8. Genuine' BY <1>1, <1>5, <1>6 DEF TableInv, Genuine
<1>9. OneByOne' BY <1>1, <1>7 DEF OneByOne
<1>10. Written' BY <1>1, <1>7 DEF Written
<1>11. Whole' BY <1>1, <1>7 DEF TableInv, Whole, AllPlain
<1> QED BY <1>2, <1>8, <1>9, <1>10, <1>11 DEF TableInv, Kept, Spoilt

\* So does every step of a run.
LEMMA CliTable == ASSUME Typed, TableInv, NEW p \in Clients, Cli(p) PROVE TableInv' /\ Spoilt
<1>1. DOMAIN pc = Clients BY DEF Typed, TypeOK
<1>2. Idle => TableInv' /\ Spoilt BY IdleKeeps DEF Spoilt
<1>3. CASE ExprRefused(p) \/ MaskRefused(p) \/ LoadRefused(p) \/ List(p) \/ DelRefused(p)
  <2>1. Idle
    BY <1>1, <1>3 DEF Idle, Saving, Moves, ExprRefused, MaskRefused, LoadRefused, List, DelRefused,
                      histVars
  <2> QED BY <1>2, <2>1
<1>4. CASE Add(p)
  <2>1. Change(p, Entries(file)) = add(Entries(file), EntryOf(p)) BY <1>4 DEF Add, Change
  <2> QED BY <1>4, <2>1, LoadKeeps DEF Add
<1>5. CASE Del(p)
  <2>1. Change(p, Entries(file)) = del(Entries(file), EntryOf(p)) BY <1>5 DEF Del, Change
  <2> QED BY <1>5, <2>1, LoadKeeps DEF Del
<1>6. CASE Open(p)
  BY <1>6, OpenKeeps
<1>7. CASE OpenFails(p)
  <2>1. Idle BY <1>1, <1>7 DEF Idle, Saving, Moves, OpenFails, histVars
  <2> QED BY <1>2, <2>1
<1>8. CASE WriteLine(p)
  BY <1>8, WriteKeeps
<1>9. CASE Notify(p)
  <2>1. CASE pc[p] = "writing" BY <1>9, <2>1, NotifyKeeps
  <2>2. CASE pc[p] # "writing"
    <3>1. Idle BY <1>1, <1>9, <2>2 DEF Idle, Saving, Notify
    <3> QED BY <1>2, <3>1
  <2> QED BY <2>1, <2>2
<1>10. CASE Kill(p)
  <2>1. CASE pc[p] = "writing" BY <1>10, <2>1, KillKeeps
  <2>2. CASE pc[p] # "writing"
    <3>1. cut' = cut
      <4>1. cut' = (cut \/ pc[p] = "writing") BY <1>10 DEF Kill
      <4>2. cut \in BOOLEAN BY DEF Typed, TypeOK
      <4> QED BY <2>2, <4>1, <4>2
    <3>2. Idle BY <1>1, <1>10, <2>2, <3>1 DEF Idle, Saving, Kill
    <3> QED BY <1>2, <3>2
  <2> QED BY <2>1, <2>2
<1> QED BY <1>3, <1>4, <1>5, <1>6, <1>7, <1>8, <1>9, <1>10 DEF Cli

\* Daemons only read the table.
LEMMA TableStep == ASSUME Typed, TableInv, [Next]_vars PROVE TableInv' /\ Spoilt
<1>1. Idle => TableInv' /\ Spoilt BY IdleKeeps DEF Spoilt
<1>2. ASSUME NEW d \in Daemons, Daemon(d) PROVE Idle
  BY <1>2 DEF Daemon, RemoveCv, RemoveMutex, MakeCv, MakeMutex, Update, End, Idle, Saving, cliVars,
              histVars
<1>3. CASE UNCHANGED vars
  <2>1. Idle BY <1>3 DEF Idle, Saving, vars, cliVars, histVars
  <2> QED BY <1>1, <2>1
<1> QED BY <1>1, <1>2, <1>3, CliTable DEF Next

\* So both hold for ever.
LEMMA TableAlways == Spec => [](Typed /\ TableInv)
<1>1. Typed /\ TableInv /\ [Next]_vars => (Typed /\ TableInv)'
  BY TypedStep, TableStep
<1> QED BY <1>1, InitTyped, PTL DEF Spec

-----------------------------------------------------------------------------
(* The table.                                                               *)

\* Every step of runs and daemons, killed or not, leaves texts, entries and
\* states of the kind they are.
THEOREM TypesKept == Spec => []TypeOK
<1>1. Typed => TypeOK BY DEF Typed
<1> QED BY <1>1, TableAlways, PTL

\* Any number of runs of any plain entries, none overlapping and none killed
\* half way: the table is what their additions and deletions made of it.
THEOREM TableKept == Spec => []Durable
<1>1. TableInv => Durable BY DEF TableInv, Kept, Durable
<1> QED BY <1>1, TableAlways, PTL

\* Between any two lines of a run that does not overlap another, and after a
\* kill there, the table is read as entries that were saved.
THEOREM WholeEntries == Spec => []NothingTorn
<1>1. TableInv => NothingTorn BY DEF TableInv, Whole, NothingTorn
<1> QED BY <1>1, TableAlways, PTL

\* No run that saves rids the table of an expression that is none.
THEOREM PoisonKept == Spec => PoisonStays
<1>1. Typed /\ TableInv /\ [Next]_vars =>
        [~overlapped' /\ ~cut' /\ (\A e \in added' : OneLine(e)) /\ Poisoned(Content)
            => Poisoned(Content')]_vars
  BY TableStep DEF Spoilt
<1> QED BY <1>1, TableAlways, PTL DEF Spec, PoisonStays

\* A daemon throws only at an expression that is not one, and none such is in
\* the table as long as the entries are plain.
LEMMA SurvivesStep ==
    ASSUME Typed, TableInv, DaemonSurvives, [Next]_vars PROVE DaemonSurvives'
<1> SUFFICES ASSUME ~overlapped', AllPlain', NEW d \in Daemons PROVE daemon'[d] # "thrown"
  BY DEF DaemonSurvives
<1>1. daemon \in [Daemons -> {"off", "cv removed", "removed", "cv made", "up", "ended", "thrown"}]
  BY DEF Typed, TypeOK
<1>2. ASSUME ~overlapped, AllPlain PROVE \A c \in Daemons : daemon[c] # "thrown"
  BY <1>2 DEF DaemonSurvives
<1>3. ASSUME NEW p \in Clients, Cli(p) PROVE daemon'[d] # "thrown"
  <2>1. daemon' = daemon
    BY <1>3 DEF Cli, ExprRefused, MaskRefused, LoadRefused, List, Add, Del, DelRefused, Load, Open,
           OpenFails, WriteLine, Notify, Kill, daemonVars
  <2>2. ~overlapped
    <3>1. overlapped' = overlapped \/ \E new : Load(p, new)
      BY <1>3 DEF Cli, ExprRefused, MaskRefused, LoadRefused, List, Add, Del, DelRefused, Open,
             OpenFails, WriteLine, Notify, Kill, histVars
    <3>2. ASSUME NEW new, Load(p, new) PROVE ~overlapped
      <4>1. overlapped' = (overlapped \/ \E q \in Clients \ {p} : Saving(q)) BY <3>2 DEF Load
      <4> QED BY <4>1, Zenon
    <3> QED BY <3>1, <3>2
  <2>3. added \subseteq added'
    BY <1>3 DEF Cli, ExprRefused, MaskRefused, LoadRefused, List, Add, Del, DelRefused, Load, Open,
           OpenFails, WriteLine, Notify, Kill, histVars
  <2> QED BY <1>2, <2>1, <2>2, <2>3 DEF AllPlain
<1>4. ASSUME NEW c \in Daemons, Daemon(c) PROVE daemon'[d] # "thrown"
  <2>1. overlapped' = overlapped /\ added' = added
    BY <1>4 DEF Daemon, RemoveCv, RemoveMutex, MakeCv, MakeMutex, Update, End, histVars
  <2>2. ~overlapped /\ AllPlain BY <2>1 DEF AllPlain
  <2>3. \A e \in Entries(file) : make_cron(e.expr)
    BY <2>2 DEF TableInv, Whole, Genuine
  <2> QED
    BY <1>1, <1>2, <1>4, <2>2, <2>3
    DEF Daemon, RemoveCv, RemoveMutex, MakeCv, MakeMutex, Update, End, Becomes
<1>5. CASE UNCHANGED vars
  BY <1>2, <1>5 DEF vars, histVars, daemonVars, AllPlain
<1> QED BY <1>3, <1>4, <1>5 DEF Next

\* So update throws at nothing that cis_cron wrote, whenever it runs.
THEOREM DaemonSafe == Spec => []DaemonSurvives
<1>1. Init => DaemonSurvives BY DEF Init, DaemonSurvives
<1>2. Typed /\ TableInv /\ DaemonSurvives /\ [Next]_vars => DaemonSurvives'
  BY SurvivesStep
<1> QED BY <1>1, <1>2, TableAlways, PTL DEF Spec

-----------------------------------------------------------------------------
(* The condition.                                                           *)

\* No other daemon was started.
Alone(d) == \A c \in Daemons \ {d} : daemon[c] = "off"

Hears ==
    \A d \in Daemons : daemon[d] \in {"cv made", "up"} /\ Alone(d) => cv = d

IInv == daemon = [d \in Daemons |-> daemon[d]] /\ Hears

\* No daemon has the condition at first.
LEMMA IInvInit == Init => IInv
  BY DEF Init, IInv, Hears

\* A cis_cron run finds the condition of a daemon and leaves it.
LEMMA CliKeeps ==
    ASSUME IInv, NEW p \in Clients, Cli(p) PROVE IInv'
<1>1. daemon' = daemon
  BY DEF Cli, ExprRefused, MaskRefused, LoadRefused, List, Add, Del, DelRefused, Load, Open,
         OpenFails, WriteLine, Notify, Kill, daemonVars
<1>2. cv' = cv \/ (cv = Nobody /\ cv' = Stray)
  <2>1. CASE Notify(p)
    BY <2>1 DEF Notify
  <2>2. CASE ~Notify(p)
    BY <2>2 DEF Cli, ExprRefused, MaskRefused, LoadRefused, List, Add, Del, DelRefused, Load,
                Open, OpenFails, WriteLine, Kill, daemonVars
  <2> QED BY <2>1, <2>2
<1>3. Nobody \notin Daemons
  BY TableAssumption
<1> QED BY <1>1, <1>2, <1>3 DEF IInv, Hears, Alone

\* The steps of a daemon: to begin is to be off no more, and every other step
\* is of one that is not off.
LEMMA DaemonKeeps ==
    ASSUME IInv, NEW c \in Daemons, Daemon(c) PROVE IInv'
<1>1. PICK to \in {"cv removed", "removed", "cv made", "up", "ended", "thrown"} \cup {daemon[c]} :
          daemon' = [daemon EXCEPT ![c] = to]
  <2>1. CASE Update(c)
    BY <2>1 DEF IInv, Update, Becomes
  <2>2. CASE ~Update(c)
    BY <2>2 DEF Daemon, RemoveCv, RemoveMutex, MakeCv, MakeMutex, End, Becomes
  <2> QED BY <2>1, <2>2
<1>2. daemon'[c] # "off"
  BY <1>1 DEF IInv, Daemon, RemoveCv, RemoveMutex, MakeCv, MakeMutex, End, Update, Becomes
<1>3. \A d \in Daemons : d # c => daemon'[d] = daemon[d]
  BY <1>1 DEF IInv
<1>4. \A d \in Daemons : d # c => ~Alone(d)'
  BY <1>2 DEF Alone
<1>5. Alone(c)' <=> Alone(c)
  BY <1>3 DEF Alone
<1>6. daemon'[c] \in {"cv made", "up"} =>
          cv' = c \/ (daemon[c] \in {"cv made", "up"} /\ cv' = cv)
  BY <1>1 DEF IInv, Daemon, RemoveCv, RemoveMutex, MakeCv, MakeMutex, End, Update, Becomes
<1> QED BY <1>1, <1>4, <1>5, <1>6 DEF IInv, Hears

\* So it holds for ever.
LEMMA IInvAlways == Spec => []IInv
<1>1. ASSUME IInv, [Next]_vars PROVE IInv'
  <2>1. CASE UNCHANGED vars
    BY <1>1, <2>1 DEF IInv, Hears, Alone, vars, daemonVars
  <2> QED BY <1>1, <2>1, CliKeeps, DaemonKeeps DEF Next
<1> QED BY <1>1, IInvInit, PTL DEF Spec

\* Any number of cis_cron runs may notify while a daemon removes and makes the
\* condition: if it comes up, and no other daemon is started, it has the
\* condition that notify_daemon opens.
THEOREM AloneHears == Spec => []OnlyStartsDeafen
<1>1. IInv => OnlyStartsDeafen
  BY DEF IInv, Hears, Alone, OnlyStartsDeafen
<1> QED BY <1>1, IInvAlways, PTL
=============================================================================
