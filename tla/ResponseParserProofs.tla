----------------------- MODULE ResponseParserProofs -----------------------
(***************************************************************************)
(* Proofs about ResponseParser, for pipelines of any commands, answers and *)
(* lengths: see README.md, section 4.                                      *)
(*                                                                         *)
(* The inductive invariant says where in the stream the parser is: what    *)
(* the buffer and the network hold is the rest of the answer to one        *)
(* command, from a line or a value on, and the answers behind it.          *)
(***************************************************************************)
EXTENDS ResponseParser, FiniteSetTheorems, SequenceTheorems, TLAPS

-----------------------------------------------------------------------------
\* Sequences

\* Induction: a set of numbers that is not empty has a least one.
LEMMA Least ==
    ASSUME NEW T, T \subseteq Nat, NEW n \in T
    PROVE  \E m \in T : \A k \in T : m <= k
<1> DEFINE S == 0 .. n
           C == {0 .. k : k \in {m \in 0 .. n : m \in T}}
<1>1. IsFiniteSet(S)
  BY FS_Interval
<1>2. C \subseteq FiniteSubsetsOf(S) /\ C # {}
  BY <1>1, FS_FiniteSubsetsOfFinite
<1>3. IsWellFoundedOn(StrictSubsetOrdering(S), FiniteSubsetsOf(S))
  BY FS_StrictSubsetOrderingWellFounded
<1> HIDE DEF C
<1>4. \E x \in C : \A y \in C : ~ (<<y, x>> \in StrictSubsetOrdering(S))
  BY <1>2, <1>3, WFMin
<1>5. PICK x \in C : \A y \in C : ~ (<<y, x>> \in StrictSubsetOrdering(S))
  BY <1>4
<1>6. PICK m \in 0 .. n : m \in T /\ x = 0 .. m
  BY DEF C
<1>7. ASSUME NEW k \in T, k < m PROVE FALSE
  <2>1. 0 .. k \in C
    BY <1>7 DEF C
  <2>2. 0 .. k \subseteq 0 .. m /\ 0 .. k # 0 .. m /\ 0 .. m \subseteq S
    BY <1>7
  <2> QED
    BY <1>5, <1>6, <2>1, <2>2 DEF StrictSubsetOrdering
<1> QED
  BY <1>6, <1>7

-----------------------------------------------------------------------------
\* FlattenSeq

\* The recursion inside FlattenSeq, for the first n elements.
IsFlat(f, s, n) == f = [i \in 1 .. n |-> IF i = 1 THEN s[i] ELSE f[i - 1] \o s[i]]
Flat(s) == CHOOSE f : IsFlat(f, s, Len(s))

LEMMA FlatExists ==
    ASSUME NEW s, NEW n \in Nat
    PROVE  \E f : IsFlat(f, s, n)
<1> DEFINE Missing == {m \in Nat : ~\E f : IsFlat(f, s, m)}
<1> SUFFICES ASSUME n \in Missing PROVE FALSE
  OBVIOUS
<1>1. PICK m \in Missing : \A k \in Missing : m <= k
  BY Least
<1>2. m # 0
  <2>1. IsFlat([i \in 1 .. 0 |-> s], s, 0)
    BY DEF IsFlat
  <2> QED
    BY <2>1
<1>3. m - 1 \in Nat /\ m - 1 \notin Missing
  BY <1>1, <1>2
<1>4. PICK f : IsFlat(f, s, m - 1)
  BY <1>3
<1> DEFINE g == [i \in 1 .. m |-> IF i = 1 THEN s[i] ELSE f[i - 1] \o s[i]]
<1>5. ASSUME NEW i \in 1 .. m - 1 PROVE f[i] = g[i]
  <2>1. f[i] = IF i = 1 THEN s[i] ELSE f[i - 1] \o s[i]
    BY <1>4 DEF IsFlat
  <2>2. i \in 1 .. m
    BY <1>3
  <2> QED
    BY <2>1, <2>2
<1>6. ASSUME NEW i \in 1 .. m, i # 1 PROVE f[i - 1] = g[i - 1]
  <2>1. i - 1 \in 1 .. m - 1
    BY <1>3, <1>6
  <2> HIDE DEF g
  <2> QED
    BY <1>5, <2>1
<1>7. IsFlat(g, s, m)
  BY <1>6 DEF IsFlat
<1> QED
  BY <1>1, <1>7

LEMMA FlatIs ==
    ASSUME NEW s, Len(s) \in Nat
    PROVE  /\ DOMAIN Flat(s) = 1 .. Len(s)
           /\ \A i \in 1 .. Len(s) : Flat(s)[i] = IF i = 1 THEN s[i] ELSE Flat(s)[i - 1] \o s[i]
<1>1. IsFlat(Flat(s), s, Len(s))
  BY FlatExists DEF Flat
<1> QED
  BY <1>1 DEF IsFlat

LEMMA FlattenIs ==
    ASSUME NEW s
    PROVE  FlattenSeq(s) = IF Len(s) = 0 THEN s ELSE Flat(s)[Len(s)]
  BY DEF FlattenSeq, Flat, IsFlat

\* It depends on the elements met so far only.
LEMMA FlatSame ==
    ASSUME NEW s, NEW t, Len(s) \in Nat, Len(t) \in Nat, NEW n \in Nat,
           n <= Len(s), n <= Len(t), \A i \in 1 .. n : s[i] = t[i]
    PROVE  \A i \in 1 .. n : Flat(s)[i] = Flat(t)[i]
<1> DEFINE Bad == {i \in 1 .. n : Flat(s)[i] # Flat(t)[i]}
<1> SUFFICES ASSUME NEW i \in Bad PROVE FALSE
  OBVIOUS
<1>0. Bad \subseteq Nat
  OBVIOUS
<1>1. PICK m \in Bad : \A k \in Bad : m <= k
  <2> HIDE DEF Bad
  <2> QED
    BY <1>0, Least
<1>2. /\ Flat(s)[m] = IF m = 1 THEN s[m] ELSE Flat(s)[m - 1] \o s[m]
      /\ Flat(t)[m] = IF m = 1 THEN t[m] ELSE Flat(t)[m - 1] \o t[m]
  BY FlatIs
<1>3. m # 1 => Flat(s)[m - 1] = Flat(t)[m - 1]
  BY <1>1
<1> QED
  BY <1>2, <1>3

LEMMA FlatType ==
    ASSUME NEW T, NEW s \in Seq(Seq(T))
    PROVE  \A i \in 1 .. Len(s) : Flat(s)[i] \in Seq(T)
<1> DEFINE Bad == {i \in 1 .. Len(s) : Flat(s)[i] \notin Seq(T)}
<1> SUFFICES ASSUME NEW i \in Bad PROVE FALSE
  OBVIOUS
<1>0. Bad \subseteq Nat
  OBVIOUS
<1>1. PICK m \in Bad : \A k \in Bad : m <= k
  <2> HIDE DEF Bad
  <2> QED
    BY <1>0, Least
<1>2. Flat(s)[m] = IF m = 1 THEN s[m] ELSE Flat(s)[m - 1] \o s[m]
  BY FlatIs
<1>3. m # 1 => Flat(s)[m - 1] \in Seq(T)
  BY <1>1
<1>4. s[m] \in Seq(T)
  OBVIOUS
<1>5. \A a \in Seq(T), b \in Seq(T) : a \o b \in Seq(T)
  OBVIOUS
<1>6. Flat(s)[m] \in Seq(T)
  BY <1>2, <1>3, <1>4, <1>5, Zenon
<1> QED
  BY <1>6

LEMMA FlattenAppend ==
    ASSUME NEW T, NEW s \in Seq(Seq(T)), NEW x \in Seq(T)
    PROVE  FlattenSeq(s) \in Seq(T) /\ FlattenSeq(Append(s, x)) = FlattenSeq(s) \o x
<1> DEFINE t == Append(s, x)
<1>1. /\ t \in Seq(Seq(T)) /\ Len(t) = Len(s) + 1 /\ Len(s) \in Nat /\ t[Len(t)] = x
      /\ \A i \in 1 .. Len(s) : t[i] = s[i]
  OBVIOUS
<1> HIDE DEF t
<1>2. FlattenSeq(t) = Flat(t)[Len(t)]
  BY <1>1, FlattenIs
<1>3. Flat(t)[Len(t)] = IF Len(t) = 1 THEN t[Len(t)] ELSE Flat(t)[Len(t) - 1] \o t[Len(t)]
  BY <1>1, FlatIs
<1>4. CASE Len(s) = 0
  <2>1. s = <<>> /\ FlattenSeq(s) = <<>>
    BY <1>4, FlattenIs
  <2>2. <<>> \o x = x /\ <<>> \in Seq(T)
    OBVIOUS
  <2> QED
    <3>1. Len(t) = 1
      BY <1>1, <1>4
    <3>2. FlattenSeq(t) = x
      BY <1>1, <1>2, <1>3, <3>1
    <3> QED
      BY <2>1, <2>2, <3>2 DEF t
<1>5. CASE Len(s) # 0
  <2>1. Flat(t)[Len(s)] = Flat(s)[Len(s)]
    <3>1. /\ Len(s) <= Len(t) /\ Len(t) \in Nat /\ Len(s) <= Len(s)
          /\ \A i \in 1 .. Len(s) : t[i] = s[i]
      BY <1>1
    <3>2. \A i \in 1 .. Len(s) : Flat(t)[i] = Flat(s)[i]
      BY <1>1, <3>1, FlatSame
    <3> QED
      BY <1>1, <1>5, <3>2
  <2>2. FlattenSeq(s) = Flat(s)[Len(s)] /\ Flat(s)[Len(s)] \in Seq(T)
    BY <1>1, <1>5, FlattenIs, FlatType
  <2> QED
    <3>1. Len(t) # 1 /\ Len(t) - 1 = Len(s)
      BY <1>1, <1>5
    <3>2. FlattenSeq(t) = Flat(s)[Len(s)] \o x
      BY <1>1, <1>2, <1>3, <2>1, <3>1
    <3> QED
      BY <2>2, <3>2 DEF t
<1> QED
  BY <1>4, <1>5

\* What the first k elements of s amount to.
Before(s, k) == FlattenSeq(SubSeq(s, 1, k))

LEMMA BeforeStep ==
    ASSUME NEW T, NEW s \in Seq(Seq(T)), NEW k \in 0 .. Len(s)
    PROVE  /\ Before(s, k) \in Seq(T)
           /\ k < Len(s) => s[k + 1] \in Seq(T) /\ Before(s, k + 1) = Before(s, k) \o s[k + 1]
<1> DEFINE b == SubSeq(s, 1, k)
<1>1. b \in Seq(Seq(T))
  OBVIOUS
<1>2. k < Len(s) => s[k + 1] \in Seq(T) /\ SubSeq(s, 1, k + 1) = Append(b, s[k + 1])
  OBVIOUS
<1> HIDE DEF b
<1>3. <<>> \in Seq(T)
  OBVIOUS
<1>4. FlattenSeq(b) \in Seq(T) /\ \A x \in Seq(T) : FlattenSeq(Append(b, x)) = FlattenSeq(b) \o x
  BY <1>1, <1>3, FlattenAppend
<1> QED
  BY <1>2, <1>4 DEF Before, b

LEMMA BeforeAll ==
    ASSUME NEW T, NEW s \in Seq(Seq(T))
    PROVE  /\ FlattenSeq(s) = Before(s, Len(s)) /\ FlattenSeq(s) \in Seq(T)
           /\ Before(s, 0) = <<>>
<1>1. SubSeq(s, 1, Len(s)) = s /\ Len(s) \in 0 .. Len(s) /\ Len(SubSeq(s, 1, 0)) = 0
      /\ SubSeq(s, 1, 0) = <<>>
  OBVIOUS
<1>2. FlattenSeq(SubSeq(s, 1, 0)) = <<>>
  BY <1>1, FlattenIs
<1> QED
  BY <1>1, <1>2, BeforeStep DEF Before

LEMMA Associative ==
    ASSUME NEW S, NEW a \in Seq(S), NEW b \in Seq(S), NEW c \in Seq(S)
    PROVE  a \o (b \o c) = (a \o b) \o c
  BY ConcatAssociative, SMTT(30)

\* The same, with the equation named, for the steps that have many others.
Grouped(a, b, c) == a \o (b \o c) = (a \o b) \o c

LEMMA Grouping ==
    ASSUME NEW S, NEW a \in Seq(S), NEW b \in Seq(S), NEW c \in Seq(S)
    PROVE  Grouped(a, b, c)
  BY Associative DEF Grouped

LEMMA Joined ==
    ASSUME NEW S, NEW a \in Seq(S), NEW b \in Seq(S)
    PROVE  /\ a \o b \in Seq(S) /\ Len(a \o b) = Len(a) + Len(b)
           /\ \A i \in 1 .. Len(a) : (a \o b)[i] = a[i]
           /\ \A i \in 1 .. Len(b) : (a \o b)[Len(a) + i] = b[i]
  OBVIOUS

LEMMA Cancel ==
    ASSUME NEW S, NEW a \in Seq(S), NEW x \in Seq(S), NEW y \in Seq(S), a \o x = a \o y
    PROVE  x = y
  BY ConcatSimplifications

LEMMA NextIndex ==
    ASSUME NEW S, NEW s \in Seq(S), NEW j \in 0 .. Len(s), j < Len(s)
    PROVE  /\ j + 1 \in DOMAIN s /\ j + 1 \in 1 .. Len(s) /\ j + 1 \in 0 .. Len(s)
           /\ j \in Nat /\ (j + 1) - 1 = j
  OBVIOUS

LEMMA ElementIn ==
    ASSUME NEW S, NEW q \in Seq(S), NEW i \in DOMAIN q
    PROVE  q[i] \in S
  OBVIOUS

\* The whole is what the first k elements amount to and something more.
LEMMA BeforeIsPrefix ==
    ASSUME NEW T, NEW s \in Seq(Seq(T)), NEW k \in 0 .. Len(s)
    PROVE  \E x \in Seq(T) : FlattenSeq(s) = Before(s, k) \o x
<1> DEFINE Bad == {m \in k .. Len(s) : ~\E x \in Seq(T) : Before(s, m) = Before(s, k) \o x}
<1>1. Bad \subseteq Nat
  OBVIOUS
<1>2. ASSUME NEW n \in Bad PROVE FALSE
  <2>1. PICK m \in Bad : \A i \in Bad : m <= i
    <3> HIDE DEF Bad
    <3> QED
      BY <1>1, <1>2, Least
  <2>2. m # k
    <3>1. Before(s, k) \in Seq(T)
      BY BeforeStep
    <3>2. <<>> \in Seq(T) /\ Before(s, k) \o <<>> = Before(s, k)
      BY <3>1
    <3> QED
      BY <3>2
  <2>3. m - 1 \in k .. Len(s) /\ m - 1 \notin Bad
    <3>1. m - 1 \in k .. Len(s) /\ ~(m <= m - 1)
      BY <2>2
    <3> HIDE DEF Bad
    <3> QED
      BY <2>1, <3>1
  <2>4. PICK x \in Seq(T) : Before(s, m - 1) = Before(s, k) \o x
    BY <2>3
  <2>5. m - 1 \in 0 .. Len(s) /\ m - 1 < Len(s) /\ (m - 1) + 1 = m
    BY <2>3
  <2>6. s[m] \in Seq(T) /\ Before(s, m) = Before(s, m - 1) \o s[m] /\ Before(s, k) \in Seq(T)
    BY <2>5, BeforeStep
  <2>7. x \o s[m] \in Seq(T) /\ Before(s, m) = Before(s, k) \o (x \o s[m])
    <3>1. x \o s[m] \in Seq(T)
      BY <2>6
    <3> DEFINE u == Before(s, k)  v == s[m]
    <3>2. u \in Seq(T) /\ v \in Seq(T) /\ Before(s, m) = (u \o x) \o v
      BY <2>4, <2>6
    <3> HIDE DEF u, v
    <3>3. u \o (x \o v) = (u \o x) \o v
      BY <3>2, Associative, SMTT(30)
    <3> QED
      BY <3>1, <3>2, <3>3 DEF u, v
  <2> QED
    BY <2>7
<1>3. Len(s) \in k .. Len(s)
  OBVIOUS
<1> QED
  BY <1>2, <1>3, BeforeAll

\* What comes behind the first k elements begins with the next one.
Continues(T, s, k, y) ==
    /\ k = Len(s) => y = <<>>
    /\ k < Len(s) => \E z \in Seq(T) : /\ y = s[k + 1] \o z
                                       /\ FlattenSeq(s) = Before(s, k + 1) \o z

LEMMA Continuation ==
    ASSUME NEW T, NEW s \in Seq(Seq(T)), NEW k \in 0 .. Len(s), NEW y \in Seq(T),
           FlattenSeq(s) = Before(s, k) \o y
    PROVE  Continues(T, s, k, y)
<1>1. Before(s, k) \in Seq(T)
  BY BeforeStep
<1>2. CASE k = Len(s)
  <2>1. Before(s, k) \o y = Before(s, k) \o <<>> /\ <<>> \in Seq(T)
    BY <1>1, <1>2, BeforeAll
  <2> QED
    BY <1>1, <1>2, <2>1, Cancel DEF Continues
<1>3. CASE k < Len(s)
  <2>1. k + 1 \in 0 .. Len(s)
    BY <1>3
  <2>2. PICK z \in Seq(T) : FlattenSeq(s) = Before(s, k + 1) \o z
    BY <2>1, BeforeIsPrefix
  <2>3. s[k + 1] \in Seq(T) /\ Before(s, k + 1) = Before(s, k) \o s[k + 1]
    BY <1>3, BeforeStep
  <2>4. Before(s, k) \o y = Before(s, k) \o (s[k + 1] \o z) /\ s[k + 1] \o z \in Seq(T)
    <3>1. s[k + 1] \o z \in Seq(T)
      BY <2>3
    <3> DEFINE u == Before(s, k)  v == s[k + 1]
    <3>2. u \in Seq(T) /\ v \in Seq(T) /\ FlattenSeq(s) = (u \o v) \o z
      BY <1>1, <2>2, <2>3
    <3> HIDE DEF u, v
    <3>3. u \o (v \o z) = (u \o v) \o z
      BY <3>2, Associative, SMTT(30)
    <3> QED
      BY <3>1, <3>2, <3>3 DEF u, v
  <2>5. y = s[k + 1] \o z
    BY <1>1, <2>4, Cancel
  <2> QED
    <3>1. k # Len(s)
      BY <1>3
    <3> QED
      BY <2>2, <2>5, <3>1 DEF Continues
<1> QED
  BY <1>2, <1>3

\* What a step takes off the front of the buffer is the front of the stream.
TakenOff(b, t, a, x) ==
    SubSeq(b, 1, Len(a)) = a /\ SubSeq(b, Len(a) + 1, Len(b)) \o t = x

LEMMA Taken ==
    ASSUME NEW S, NEW b \in Seq(S), NEW t \in Seq(S), NEW a \in Seq(S), NEW x \in Seq(S),
           b \o t = a \o x, Len(a) <= Len(b)
    PROVE  TakenOff(b, t, a, x)
<1> DEFINE n == Len(a)  r == SubSeq(b, n + 1, Len(b))
<1>1. n \in Nat /\ Len(b) \in Nat /\ n \in 0 .. Len(b)
  OBVIOUS
<1>2. /\ SubSeq(b, 1, n) \in Seq(S) /\ Len(SubSeq(b, 1, n)) = n
      /\ \A i \in 1 .. n : SubSeq(b, 1, n)[i] = b[i]
  BY <1>1
<1>3. \A i \in 1 .. n : b[i] = a[i]
  <2>1. \A i \in 1 .. n : (b \o t)[i] = b[i] /\ (a \o x)[i] = a[i]
    BY <1>1, Joined
  <2> QED
    BY <2>1
<1>4. SubSeq(b, 1, n) = a
  BY <1>1, <1>2, <1>3, SeqEqual
<1>5. r \in Seq(S) /\ b = SubSeq(b, 1, n) \o r
  <2>1. r \in Seq(S) /\ Len(r) = Len(b) - n /\ \A i \in 1 .. Len(b) - n : r[i] = b[n + i]
    BY <1>1
  <2> DEFINE h == SubSeq(b, 1, n)
  <2>2. h \in Seq(S) /\ Len(h) = n /\ \A i \in 1 .. n : h[i] = b[i]
    BY <1>2
  <2> HIDE DEF h, r
  <2>3. /\ h \o r \in Seq(S) /\ Len(h \o r) = Len(b)
        /\ \A i \in 1 .. n : (h \o r)[i] = h[i]
        /\ \A i \in 1 .. Len(b) - n : (h \o r)[n + i] = r[i]
    <3>1. /\ h \o r \in Seq(S) /\ Len(h \o r) = Len(h) + Len(r)
          /\ \A i \in 1 .. Len(h) : (h \o r)[i] = h[i]
          /\ \A i \in 1 .. Len(r) : (h \o r)[Len(h) + i] = r[i]
      <4>1. h \in Seq(S) /\ r \in Seq(S)
        BY <2>1, <2>2
      <4> QED
        BY <4>1, Joined
    <3> HIDE DEF n
    <3> QED
      BY <1>1, <2>1, <2>2, <3>1
  <2>4. ASSUME NEW i \in 1 .. Len(b) PROVE (h \o r)[i] = b[i]
    <3>1. CASE i <= n
      BY <1>1, <2>2, <2>3, <3>1
    <3>2. CASE i > n
      <4>1. i - n \in 1 .. Len(b) - n /\ n + (i - n) = i
        BY <1>1, <3>2
      <4> QED
        BY <2>1, <2>3, <4>1
    <3>3. i <= n \/ i > n
      BY <1>1
    <3> QED
      BY <3>1, <3>2, <3>3
  <2> QED
    BY <2>1, <2>3, <2>4, SeqEqual DEF h
<1> HIDE DEF n, r
<1>6. a \o (r \o t) = a \o x /\ r \o t \in Seq(S)
  <2>1. r \o t \in Seq(S) /\ a \o (r \o t) = (a \o r) \o t
    BY <1>5, Associative, SMTT(30)
  <2> QED
    BY <1>4, <1>5, <2>1
<1> QED
  BY <1>4, <1>5, <1>6, Cancel DEF n, r, TakenOff

-----------------------------------------------------------------------------
\* The stream

\* What the answers are made of.
Bodies(c)  == [i \in DOMAIN c.hits |-> Body("VALUE", c.hits[i].key, c.hits[i].value)]
Lines(c)   == [i \in DOMAIN c.lines |-> Text(c.lines[i])]
Answers(p) == [i \in DOMAIN p |-> Wire(p[i])]

CRLF == <<CR, LF>>

LEMMA LineEndsTyped == CR \in Symbols /\ LF \in Symbols /\ CRLF \in Seq(Symbols) /\ CR # LF
<1>1. CR.word # LF.word
  BY DEF CR, LF
<1>2. CR \in Symbols /\ LF \in Symbols
  BY WordsAssumption DEF CR, LF, Symbols
<1>3. <<CR, LF>> \in Seq(Symbols)
  BY <1>2
<1> QED
  BY <1>1, <1>2, <1>3 DEF CRLF

LEMMA TextTyped ==
    ASSUME NEW symbol \in Symbols
    PROVE  Text(symbol) \in Seq(Symbols)
  BY LineEndsTyped DEF Text

\* The kinds of command, each with its parts.
LEMMA Kinds ==
    ASSUME NEW c \in Commands
    PROVE  \/ /\ c.kind = "multi" /\ c.keys \in SUBSET Nat /\ c.fails \in BOOLEAN
              /\ c.hits \in Seq([key : Nat, value : Seq(Symbols)])
           \/ /\ c.kind = "stats" /\ c.fails \in BOOLEAN
              /\ c.lines \in Seq([word : {"STAT"}, text : Words]) /\ (c.fails => c.lines = <<>>)
           \/ /\ c.kind = "config" /\ c.fails \in BOOLEAN
              /\ c.value \in Seq(Symbols) /\ c.value # <<>>
           \/ c.kind = "single" /\ c.line \in Words
<1>1. CASE c \in [kind : {"multi"}, keys : SUBSET Nat,
                  hits : Seq([key : Nat, value : Seq(Symbols)]), fails : BOOLEAN]
  BY <1>1
<1>2. CASE c \in [kind : {"stats"}, lines : Seq([word : {"STAT"}, text : Words]), fails : {FALSE}]
  BY <1>2
<1>3. CASE c \in [kind : {"stats"}, lines : {<<>>}, fails : {TRUE}]
  <2>1. c.kind = "stats" /\ c.lines = <<>> /\ c.fails = TRUE
    BY <1>3
  <2>2. <<>> \in Seq([word : {"STAT"}, text : Words])
    OBVIOUS
  <2> QED
    BY <2>1, <2>2
<1>4. CASE c \in [kind : {"config"}, value : Seq(Symbols) \ {<<>>}, fails : BOOLEAN]
  BY <1>4
<1>5. CASE c \in [kind : {"single"}, line : Words]
  BY <1>5
<1> QED
  BY <1>1, <1>2, <1>3, <1>4, <1>5 DEF Commands

LEMMA LastLineTyped ==
    ASSUME NEW c, c.fails \in BOOLEAN
    PROVE  \E symbol \in Symbols : /\ LastLine(c) = Text(symbol)
                                   /\ symbol = [word |-> IF c.fails THEN "ERROR" ELSE "END"]
<1>1. [word |-> IF c.fails THEN "ERROR" ELSE "END"] \in Symbols
  BY WordsAssumption DEF Symbols
<1> QED
  BY <1>1 DEF LastLine

LEMMA BodyTyped ==
    ASSUME NEW word \in {"VALUE", "CONFIG"}, NEW key \in Nat, NEW value \in Seq(Symbols)
    PROVE  LET symbol == [word |-> word, key |-> key, bytes |-> Len(value)] IN
           /\ symbol \in Symbols
           /\ Body(word, key, value) = Text(symbol) \o (value \o CRLF)
           /\ Body(word, key, value) \in Seq(Symbols)
<1> DEFINE symbol == [word |-> word, key |-> key, bytes |-> Len(value)]
<1>1. symbol \in Symbols
  <2>1. Len(value) \in Nat
    OBVIOUS
  <2> QED
    BY <2>1 DEF Symbols
<1> DEFINE t == Text(symbol)
<1>2. t \in Seq(Symbols)
  BY <1>1, TextTyped
<1>3. CRLF \in Seq(Symbols)
  BY LineEndsTyped
<1>4. Body(word, key, value) = (t \o value) \o CRLF
  BY DEF Body, CRLF
<1> HIDE DEF t, symbol
<1>5. t \o (value \o CRLF) = (t \o value) \o CRLF
  BY <1>2, <1>3, Associative
<1>6. (t \o value) \o CRLF \in Seq(Symbols)
  BY <1>2, <1>3
<1> QED
  BY <1>1, <1>4, <1>5, <1>6 DEF t, symbol

LEMMA PartsTyped ==
    ASSUME NEW c \in Commands
    PROVE  /\ c.kind = "multi" => Bodies(c) \in Seq(Seq(Symbols)) /\ Len(Bodies(c)) = Len(c.hits)
           /\ c.kind = "stats" => Lines(c) \in Seq(Seq(Symbols)) /\ Len(Lines(c)) = Len(c.lines)
           /\ c.kind # "single" => LastLine(c) \in Seq(Symbols)
<1>1. CASE c.kind = "multi"
  <2>1. c.hits \in Seq([key : Nat, value : Seq(Symbols)]) /\ c.fails \in BOOLEAN
    BY <1>1, Kinds
  <2>2. ASSUME NEW i \in DOMAIN c.hits
        PROVE  Body("VALUE", c.hits[i].key, c.hits[i].value) \in Seq(Symbols)
    <3>1. c.hits[i] \in [key : Nat, value : Seq(Symbols)]
      BY <2>1, ElementIn
    <3>2. c.hits[i].key \in Nat /\ c.hits[i].value \in Seq(Symbols)
      BY <3>1
    <3> QED
      BY <3>2, BodyTyped
  <2>3. DOMAIN c.hits = 1 .. Len(c.hits) /\ Len(c.hits) \in Nat
    BY <2>1
  <2>4. Bodies(c) \in Seq(Seq(Symbols)) /\ Len(Bodies(c)) = Len(c.hits)
    BY <2>2, <2>3 DEF Bodies
  <2>5. LastLine(c) \in Seq(Symbols)
    BY <2>1, LastLineTyped, TextTyped
  <2> QED
    BY <1>1, <2>4, <2>5
<1>2. CASE c.kind = "stats"
  <2>1. c.lines \in Seq([word : {"STAT"}, text : Words]) /\ c.fails \in BOOLEAN
    BY <1>2, Kinds
  <2>2. \A i \in DOMAIN c.lines : c.lines[i] \in [word : {"STAT"}, text : Words]
    BY <2>1, ElementIn
  <2>6. \A i \in DOMAIN c.lines : c.lines[i] \in Symbols
    BY <2>2 DEF Symbols
  <2>3. \A i \in DOMAIN c.lines : Text(c.lines[i]) \in Seq(Symbols)
    BY <2>6, TextTyped
  <2>4. DOMAIN c.lines = 1 .. Len(c.lines) /\ Len(c.lines) \in Nat
    BY <2>1
  <2>5. Lines(c) \in Seq(Seq(Symbols)) /\ Len(Lines(c)) = Len(c.lines)
    BY <2>3, <2>4 DEF Lines
  <2>7. LastLine(c) \in Seq(Symbols)
    BY <2>1, LastLineTyped, TextTyped
  <2> QED
    BY <1>2, <2>5, <2>7
<1>3. CASE c.kind = "config"
  BY <1>3, Kinds, LastLineTyped, TextTyped
<1>4. CASE c.kind = "single"
  BY <1>4
<1> QED
  BY <1>1, <1>2, <1>3, <1>4, Kinds

\* The answer to each kind of command.
LEMMA WireIs ==
    ASSUME NEW c \in Commands
    PROVE  /\ Wire(c) \in Seq(Symbols)
           /\ c.kind = "multi" => Wire(c) = FlattenSeq(Bodies(c)) \o LastLine(c)
           /\ c.kind = "stats" => Wire(c) = FlattenSeq(Lines(c)) \o LastLine(c)
           /\ c.kind = "config" /\ c.fails => Wire(c) = LastLine(c)
           /\ c.kind = "config" /\ ~c.fails =>
                  Wire(c) = Text([word |-> "CONFIG", key |-> 0, bytes |-> Len(c.value)])
                                \o ((c.value \o CRLF) \o LastLine(c))
           /\ c.kind = "single" => Wire(c) = Text([word |-> c.line])
<1>1. CASE c.kind = "multi"
  <2>1. Wire(c) = FlattenSeq(Bodies(c)) \o LastLine(c)
    BY <1>1 DEF Wire, Bodies
  <2>2. FlattenSeq(Bodies(c)) \in Seq(Symbols) /\ LastLine(c) \in Seq(Symbols)
    BY <1>1, PartsTyped, BeforeAll
  <2> QED
    BY <1>1, <2>1, <2>2
<1>2. CASE c.kind = "stats"
  <2>1. Wire(c) = FlattenSeq(Lines(c)) \o LastLine(c)
    BY <1>2 DEF Wire, Lines
  <2>2. FlattenSeq(Lines(c)) \in Seq(Symbols) /\ LastLine(c) \in Seq(Symbols)
    BY <1>2, PartsTyped, BeforeAll
  <2> QED
    BY <1>2, <2>1, <2>2
<1>3. CASE c.kind = "config"
  <2>1. /\ c.value \in Seq(Symbols) /\ LastLine(c) \in Seq(Symbols) /\ CRLF \in Seq(Symbols)
        /\ c.fails \in BOOLEAN
    BY <1>3, Kinds, PartsTyped, LineEndsTyped
  <2>2. CASE c.fails
    <3>1. Wire(c) = <<>> \o LastLine(c)
      BY <1>3, <2>2 DEF Wire
    <3> QED
      BY <1>3, <2>1, <2>2, <3>1
  <2>3. CASE ~c.fails
    <3> DEFINE t == Text([word |-> "CONFIG", key |-> 0, bytes |-> Len(c.value)])
               l == LastLine(c)
               v == c.value \o CRLF
    <3>1. Wire(c) = Body("CONFIG", 0, c.value) \o l
      BY <1>3, <2>3 DEF Wire
    <3>2. Body("CONFIG", 0, c.value) = t \o v /\ t \in Seq(Symbols) /\ v \in Seq(Symbols)
          /\ l \in Seq(Symbols)
      <4>1. /\ [word |-> "CONFIG", key |-> 0, bytes |-> Len(c.value)] \in Symbols
            /\ Body("CONFIG", 0, c.value) = t \o v
        BY <2>1, BodyTyped
      <4>2. t \in Seq(Symbols)
        BY <4>1, TextTyped
      <4>3. v \in Seq(Symbols)
        BY <2>1
      <4> HIDE DEF t, v
      <4> QED
        BY <2>1, <4>1, <4>2, <4>3
    <3> HIDE DEF t, l, v
    <3>3. (t \o v) \o l = t \o (v \o l)
      BY <3>2, Associative
    <3>4. t \o (v \o l) \in Seq(Symbols)
      BY <3>2
    <3>5. Wire(c) = t \o (v \o l)
      BY <3>1, <3>2, <3>3
    <3> QED
      BY <1>3, <2>3, <3>4, <3>5 DEF t, l, v
  <2> QED
    BY <2>1, <2>2, <2>3
<1>4. CASE c.kind = "single"
  <2>1. [word |-> c.line] \in Symbols
    BY <1>4, Kinds DEF Symbols
  <2>2. Wire(c) = Text([word |-> c.line])
    BY <1>4 DEF Wire
  <2> QED
    BY <1>4, <2>1, <2>2, TextTyped
<1> QED
  BY <1>1, <1>2, <1>3, <1>4, Kinds

\* The pipeline, as the sequence of its answers.
LEMMA AnswersTyped ==
    ASSUME NEW p \in Pipelines
    PROVE  /\ p \in Seq(Commands) /\ Answers(p) \in Seq(Seq(Symbols)) /\ Len(Answers(p)) = Len(p)
           /\ \A i \in 1 .. Len(p) : p[i] \in Commands /\ Answers(p)[i] = Wire(p[i])
           /\ Stream(p) = FlattenSeq(Answers(p))
           /\ \A n \in 0 .. Len(p) : Stream(SubSeq(p, 1, n)) = Before(Answers(p), n)
<1>1. p \in Seq(Commands) /\ DOMAIN p = 1 .. Len(p) /\ Len(p) \in Nat
  BY PipelinesAssumption
<1>2. \A i \in 1 .. Len(p) : p[i] \in Commands /\ Wire(p[i]) \in Seq(Symbols)
  <2>1. \A i \in 1 .. Len(p) : p[i] \in Commands
    BY <1>1
  <2> QED
    BY <2>1, WireIs
<1>3. Answers(p) \in Seq(Seq(Symbols)) /\ Len(Answers(p)) = Len(p)
  BY <1>1, <1>2 DEF Answers
<1>4. \A i \in 1 .. Len(p) : Answers(p)[i] = Wire(p[i])
  BY <1>1 DEF Answers
<1>5. Stream(p) = FlattenSeq(Answers(p))
  BY DEF Stream, Answers
<1>6. ASSUME NEW n \in 0 .. Len(p) PROVE Stream(SubSeq(p, 1, n)) = Before(Answers(p), n)
  <2> DEFINE q == SubSeq(p, 1, n)  s == SubSeq(Answers(p), 1, n)
  <2>1. DOMAIN q = 1 .. n /\ \A i \in 1 .. n : q[i] = p[i]
    BY <1>1
  <2>2. s \in Seq(Seq(Symbols)) /\ Len(s) = n /\ \A i \in 1 .. n : s[i] = Answers(p)[i]
    BY <1>1, <1>3
  <2> HIDE DEF q, s
  <2>3. s = [i \in 1 .. n |-> s[i]]
    BY <2>2
  <2>4. \A i \in 1 .. n : s[i] = Wire(q[i])
    BY <1>1, <1>4, <2>1, <2>2
  <2>5. s = [i \in DOMAIN q |-> Wire(q[i])]
    BY <2>1, <2>3, <2>4
  <2> QED
    BY <2>5 DEF Stream, Before, q, s
<1> QED
  BY <1>1, <1>2, <1>3, <1>4, <1>5, <1>6

-----------------------------------------------------------------------------
\* The inductive invariant

TypeInv == pipeline \in Pipelines /\ buffer \in Seq(Symbols) /\ incoming \in Seq(Symbols)

\* What the parser has yet to read.
Ahead == buffer \o incoming

\* It is the rest `todo` of the answer to command k + 1, and the answers to the
\* commands behind it.
Left(k, todo) ==
    /\ \E done \in Seq(Symbols) : Wire(pipeline[k + 1]) = done \o todo
    /\ \E rest \in Seq(Symbols) :
          /\ Ahead = todo \o rest
          /\ FlattenSeq(Answers(pipeline)) = Before(Answers(pipeline), k + 1) \o rest

\* The next line is for command k + 1.
Turn(k) ==
    /\ ~(currentCommand = <<>> /\ commandQueue = <<>>)
    /\ Shifted = pipeline[k + 1]
    /\ Behind = SubSeq(pipeline, k + 2, Len(pipeline))

FirstKeys(c, j)   == [i \in 1 .. j |-> c.hits[i].key]
FirstValues(c, j) == [i \in 1 .. j |-> c.hits[i].value]
FirstLines(c, j)  == [i \in 1 .. j |-> <<c.lines[i]>>]

\* In the answer to a multi-get: before a line, before the empty line behind an
\* empty value, or before a value.
InMulti(k, c) ==
    \E j \in 0 .. Len(c.hits), y \in Seq(Symbols) :
        /\ FlattenSeq(Bodies(c)) = Before(Bodies(c), j) \o y
        /\ foundKeys = FirstKeys(c, j)
        /\ \/ /\ pendingValueBytes = 0
              /\ multilineData = FirstValues(c, j)
              /\ Left(k, y \o LastLine(c)) \/ Left(k, CRLF \o (y \o LastLine(c)))
           \/ /\ j > 0 /\ c.hits[j].value # <<>>
              /\ pendingValueBytes = Len(c.hits[j].value)
              /\ multilineData = FirstValues(c, j - 1)
              /\ Left(k, (c.hits[j].value \o CRLF) \o (y \o LastLine(c)))

InStats(k, c) ==
    /\ pendingValueBytes = 0 /\ foundKeys = <<>>
    /\ \E j \in 0 .. Len(c.lines), y \in Seq(Symbols) :
        /\ FlattenSeq(Lines(c)) = Before(Lines(c), j) \o y
        /\ multilineData = FirstLines(c, j)
        /\ Left(k, y \o LastLine(c))

InConfig(k, c) ==
    /\ foundKeys = <<>>
    /\ \/ pendingValueBytes = 0 /\ multilineData = <<>> /\ Left(k, Wire(c))
       \/ /\ ~c.fails /\ pendingValueBytes = Len(c.value) /\ multilineData = <<>>
          /\ Left(k, (c.value \o CRLF) \o LastLine(c))
       \/ ~c.fails /\ pendingValueBytes = 0 /\ multilineData = <<c.value>> /\ Left(k, LastLine(c))

InSingle(k, c) ==
    pendingValueBytes = 0 /\ foundKeys = <<>> /\ multilineData = <<>> /\ Left(k, Wire(c))

Inside(k, c) ==
    /\ Turn(k)
    /\ c.kind = "multi"  => InMulti(k, c)
    /\ c.kind = "stats"  => InStats(k, c)
    /\ c.kind = "config" => InConfig(k, c)
    /\ c.kind = "single" => InSingle(k, c)

\* The first k promises are settled as they ought to be.
Position(k) ==
    /\ results = [i \in 1 .. k |-> Meaning(pipeline[i])]
    /\ k = Len(pipeline) => Ahead = <<>> /\ pendingValueBytes = 0
    /\ k < Len(pipeline) => Inside(k, pipeline[k + 1])

\* Between chunks the buffer holds less than a line or the value awaited.
Stuck == ~ValueComplete /\ (pendingValueBytes > 0 \/ LineEnds = {})

ParserInv ==
    /\ TypeInv
    /\ \E k \in 0 .. Len(pipeline) : Position(k)
    /\ ~running => Stuck

-----------------------------------------------------------------------------
\* Between two answers

AtStart(k) ==
    /\ results = [i \in 1 .. k |-> Meaning(pipeline[i])]
    /\ currentCommand = <<>> /\ commandQueue = SubSeq(pipeline, k + 1, Len(pipeline))
    /\ foundKeys = <<>> /\ multilineData = <<>> /\ pendingValueBytes = 0
    /\ FlattenSeq(Answers(pipeline)) = Before(Answers(pipeline), k) \o Ahead

LEMMA QueueSteps ==
    ASSUME NEW S, NEW p \in Seq(S), NEW k \in 0 .. Len(p), k < Len(p)
    PROVE  /\ SubSeq(p, k + 1, Len(p)) # <<>> /\ Head(SubSeq(p, k + 1, Len(p))) = p[k + 1]
           /\ Tail(SubSeq(p, k + 1, Len(p))) = SubSeq(p, k + 2, Len(p))
<1> DEFINE q == SubSeq(p, k + 1, Len(p))  r == SubSeq(p, k + 2, Len(p))
<1>1. /\ q \in Seq(S) /\ Len(q) = Len(p) - k /\ Len(p) \in Nat
      /\ \A i \in 1 .. Len(p) - k : q[i] = p[k + i]
  OBVIOUS
<1>2. /\ r \in Seq(S) /\ Len(r) = Len(p) - k - 1
      /\ \A i \in 1 .. Len(p) - k - 1 : r[i] = p[k + 1 + i]
  OBVIOUS
<1> HIDE DEF q, r
<1>3. q # <<>> /\ Head(q) = p[k + 1]
  BY <1>1
<1>4. /\ Tail(q) \in Seq(S) /\ Len(Tail(q)) = Len(r)
      /\ \A i \in 1 .. Len(r) : Tail(q)[i] = q[i + 1]
  BY <1>1, <1>2, <1>3
<1>5. ASSUME NEW i \in 1 .. Len(r) PROVE Tail(q)[i] = r[i]
  <2>1. i + 1 \in 1 .. Len(p) - k /\ k + (i + 1) = k + 1 + i
    BY <1>1, <1>2
  <2> QED
    BY <1>1, <1>2, <1>4, <2>1
<1>6. Tail(q) = r
  BY <1>2, <1>4, <1>5, SeqEqual
<1> QED
  BY <1>3, <1>6 DEF q, r

Started == \A i \in 0 .. Len(pipeline) : AtStart(i) => Position(i)

LEMMA Fresh == TypeInv => Started
<1> SUFFICES ASSUME TypeInv, NEW k \in 0 .. Len(pipeline), AtStart(k)
             PROVE  Position(k)
  BY DEF Started
<1> DEFINE A == Answers(pipeline)
<1>1. /\ pipeline \in Seq(Commands) /\ Len(pipeline) \in Nat
      /\ A \in Seq(Seq(Symbols)) /\ Len(A) = Len(pipeline)
      /\ \A i \in 1 .. Len(pipeline) : pipeline[i] \in Commands /\ A[i] = Wire(pipeline[i])
  BY AnswersTyped DEF TypeInv
<1>2. Ahead \in Seq(Symbols) /\ FlattenSeq(A) = Before(A, k) \o Ahead
  <2>1. buffer \in Seq(Symbols) /\ incoming \in Seq(Symbols)
    BY DEF TypeInv
  <2> QED
    BY <2>1 DEF AtStart, Ahead
<1> HIDE DEF A
<1>3. /\ k = Len(pipeline) => Ahead = <<>>
      /\ k < Len(pipeline) => \E z \in Seq(Symbols) : /\ Ahead = A[k + 1] \o z
                                                      /\ FlattenSeq(A) = Before(A, k + 1) \o z
  <2>1. k \in 0 .. Len(A)
    BY <1>1
  <2>2. /\ k = Len(A) => Ahead = <<>>
        /\ k < Len(A) => \E z \in Seq(Symbols) : /\ Ahead = A[k + 1] \o z
                                                 /\ FlattenSeq(A) = Before(A, k + 1) \o z
    <3>1. A \in Seq(Seq(Symbols))
      BY <1>1
    <3> QED
      <4>1. Continues(Symbols, A, k, Ahead)
        BY <1>2, <2>1, <3>1, Continuation
      <4> QED
        BY <4>1 DEF Continues
  <2> QED
    BY <1>1, <2>2
<1>4. CASE k < Len(pipeline)
  <2> DEFINE c == pipeline[k + 1]
  <2>1. c \in Commands /\ A[k + 1] = Wire(c)
    BY <1>1, <1>4
  <2>2. Left(k, Wire(c))
    <3>1. Wire(c) = <<>> \o Wire(c) /\ <<>> \in Seq(Symbols)
      BY <2>1, WireIs
    <3> QED
      BY <1>3, <1>4, <2>1, <3>1 DEF Left, A
  <2>3. Turn(k)
    <3>1. /\ commandQueue # <<>> /\ Head(commandQueue) = c
          /\ Tail(commandQueue) = SubSeq(pipeline, k + 2, Len(pipeline))
      BY <1>1, <1>4, QueueSteps DEF AtStart
    <3> QED
      BY <3>1 DEF AtStart, Turn, Shifted, Behind
  <2> HIDE DEF c
  <2>4. foundKeys = <<>> /\ multilineData = <<>> /\ pendingValueBytes = 0
    BY DEF AtStart
  <2>5. ASSUME c.kind = "multi" PROVE InMulti(k, c)
    <3> DEFINE y == FlattenSeq(Bodies(c))
    <3>1. Bodies(c) \in Seq(Seq(Symbols)) /\ c.hits \in Seq([key : Nat, value : Seq(Symbols)])
      BY <2>1, <2>5, PartsTyped, Kinds
    <3>2. y \in Seq(Symbols) /\ Before(Bodies(c), 0) = <<>>
      BY <3>1, BeforeAll
    <3>3. Left(k, y \o LastLine(c))
      BY <2>1, <2>2, <2>5, WireIs
    <3> HIDE DEF y
    <3>4. y = <<>> \o y
      BY <3>2
    <3>5. 0 \in 0 .. Len(c.hits)
      BY <3>1
    <3>6. FirstKeys(c, 0) = <<>> /\ FirstValues(c, 0) = <<>>
      BY DEF FirstKeys, FirstValues
    <3>7. FlattenSeq(Bodies(c)) = Before(Bodies(c), 0) \o y
      BY <3>2, <3>4 DEF y
    <3> QED
      BY <2>4, <3>2, <3>3, <3>5, <3>6, <3>7 DEF InMulti
  <2>6. ASSUME c.kind = "stats" PROVE InStats(k, c)
    <3> DEFINE y == FlattenSeq(Lines(c))
    <3>1. Lines(c) \in Seq(Seq(Symbols)) /\ c.lines \in Seq([word : {"STAT"}, text : Words])
      BY <2>1, <2>6, PartsTyped, Kinds
    <3>2. y \in Seq(Symbols) /\ Before(Lines(c), 0) = <<>>
      BY <3>1, BeforeAll
    <3>3. Left(k, y \o LastLine(c))
      BY <2>1, <2>2, <2>6, WireIs
    <3> HIDE DEF y
    <3>4. y = <<>> \o y
      BY <3>2
    <3>5. 0 \in 0 .. Len(c.lines)
      BY <3>1
    <3>6. FirstLines(c, 0) = <<>>
      BY DEF FirstLines
    <3>7. FlattenSeq(Lines(c)) = Before(Lines(c), 0) \o y
      BY <3>2, <3>4 DEF y
    <3> QED
      BY <2>4, <3>2, <3>3, <3>5, <3>6, <3>7 DEF InStats
  <2>7. Inside(k, c)
    BY <2>2, <2>3, <2>4, <2>5, <2>6 DEF Inside, InConfig, InSingle
  <2> QED
    BY <1>1, <1>4, <2>7 DEF Position, AtStart, c
<1>5. CASE k = Len(pipeline)
  BY <1>1, <1>3, <1>5 DEF Position, AtStart
<1> QED
  BY <1>1, <1>4, <1>5

-----------------------------------------------------------------------------
\* What a step takes off the stream

Parted(k, a, z, rest) ==
    /\ rest \in Seq(Symbols) /\ z \o rest \in Seq(Symbols)
    /\ buffer \o incoming = a \o (z \o rest)
    /\ FlattenSeq(Answers(pipeline)) = Before(Answers(pipeline), k + 1) \o rest

LEMMA Parts ==
    ASSUME TypeInv, NEW k, NEW a \in Seq(Symbols), NEW z \in Seq(Symbols), Left(k, a \o z)
    PROVE  \E rest : Parted(k, a, z, rest)
<1>1. PICK rest \in Seq(Symbols) :
         /\ Ahead = (a \o z) \o rest
         /\ FlattenSeq(Answers(pipeline)) = Before(Answers(pipeline), k + 1) \o rest
  BY DEF Left
<1>2. (a \o z) \o rest = a \o (z \o rest) /\ z \o rest \in Seq(Symbols)
  BY <1>1, Associative, SMTT(30)
<1> QED
  BY <1>1, <1>2 DEF Ahead, Parted

\* The front of the stream, once all of it is in the buffer.
LEMMA FrontTaken ==
    ASSUME TypeInv, NEW k, NEW a \in Seq(Symbols), NEW z \in Seq(Symbols), Left(k, a \o z),
           Len(a) <= Len(buffer), buffer' = Rest(Len(a)), UNCHANGED <<incoming, pipeline>>
    PROVE  SubSeq(buffer, 1, Len(a)) = a /\ Left(k, z)'
<1>0. PICK rest : Parted(k, a, z, rest)
  BY Parts
<1>1. /\ buffer \o incoming = a \o (z \o rest) /\ z \o rest \in Seq(Symbols)
      /\ FlattenSeq(Answers(pipeline)) = Before(Answers(pipeline), k + 1) \o rest
      /\ rest \in Seq(Symbols)
  BY <1>0 DEF Parted
<1>2. buffer \in Seq(Symbols) /\ incoming \in Seq(Symbols)
  BY DEF TypeInv
<1>3. /\ SubSeq(buffer, 1, Len(a)) = a
      /\ SubSeq(buffer, Len(a) + 1, Len(buffer)) \o incoming = z \o rest
  <2> DEFINE x == z \o rest
  <2>1. x \in Seq(Symbols) /\ buffer \o incoming = a \o x
    BY <1>1
  <2> HIDE DEF x
  <2>2. TakenOff(buffer, incoming, a, x)
    BY <1>2, <2>1, Taken
  <2> QED
    BY <2>2 DEF x, TakenOff
<1>4. Ahead' = z \o rest
  BY <1>3 DEF Ahead, Rest
<1>5. PICK done \in Seq(Symbols) : Wire(pipeline[k + 1]) = done \o (a \o z)
  BY DEF Left
<1>6. done \o a \in Seq(Symbols) /\ Wire(pipeline[k + 1]) = (done \o a) \o z
  <2>1. Grouped(done, a, z)
    BY <1>5, Grouping
  <2>2. done \o a \in Seq(Symbols)
    BY <1>5, Joined
  <2> QED
    BY <1>5, <2>1, <2>2 DEF Grouped
<1>7. Left(k, z)'
  BY <1>1, <1>4, <1>6 DEF Left
<1> QED
  BY <1>3, <1>7

LEMMA ValueTaken ==
    ASSUME TypeInv, NEW k, NEW value \in Seq(Symbols), NEW z \in Seq(Symbols),
           Left(k, (value \o CRLF) \o z), pendingValueBytes = Len(value), ValueComplete,
           buffer' = Rest(pendingValueBytes + 2), UNCHANGED <<incoming, pipeline>>
    PROVE  SubSeq(buffer, 1, pendingValueBytes) = value /\ Left(k, z)'
<1> DEFINE a == value \o CRLF
<1>1. CRLF \in Seq(Symbols)
  BY LineEndsTyped
<1>2. a \in Seq(Symbols) /\ Len(a) = pendingValueBytes + 2
  <2>1. a \in Seq(Symbols) /\ Len(a) = Len(value) + Len(CRLF)
    BY <1>1, Joined
  <2>2. Len(CRLF) = 2
    BY DEF CRLF
  <2> HIDE DEF a
  <2> QED
    BY <2>1, <2>2
<1>3. Len(a) <= Len(buffer) /\ Len(value) <= Len(buffer)
  BY <1>2 DEF ValueComplete, TypeInv
<1> HIDE DEF a
<1>4. Left(k, z)'
  <2>1. Left(k, a \o z)
    BY DEF a
  <2> QED
    BY <1>2, <1>3, <2>1, FrontTaken
<1>5. SubSeq(buffer, 1, Len(value)) = value
  <2>0. Left(k, a \o z)
    BY DEF a
  <2>1. PICK rest : Parted(k, a, z, rest)
    BY <1>2, <2>0, Parts
  <2> DEFINE x == z \o rest
  <2>2. x \in Seq(Symbols) /\ buffer \o incoming = (value \o CRLF) \o x
    BY <2>1 DEF a, Parted
  <2> HIDE DEF x
  <2>3. (value \o CRLF) \o x = value \o (CRLF \o x) /\ CRLF \o x \in Seq(Symbols)
    <3>1. x \in Seq(Symbols)
      BY <2>2
    <3>2. CRLF \o x \in Seq(Symbols)
      BY <1>1, <3>1
    <3>3. Grouped(value, CRLF, x)
      BY <1>1, <3>1, Grouping
    <3> QED
      BY <3>2, <3>3 DEF Grouped
  <2>4. buffer \in Seq(Symbols) /\ incoming \in Seq(Symbols)
    BY DEF TypeInv
  <2>5. buffer \o incoming = value \o (CRLF \o x)
    BY <2>2, <2>3
  <2> DEFINE y == CRLF \o x
  <2>6. y \in Seq(Symbols) /\ buffer \o incoming = value \o y
    BY <2>3, <2>5
  <2> HIDE DEF y
  <2> QED
    <3>1. TakenOff(buffer, incoming, value, y)
      BY <1>3, <2>4, <2>6, Taken
    <3> QED
      BY <3>1 DEF TakenOff
<1> QED
  BY <1>4, <1>5

\* The first line end of the buffer.
LEMMA LineEndIs ==
    ASSUME TypeInv, LineEnds # {}
    PROVE  /\ LineEnd \in LineEnds /\ \A j \in LineEnds : LineEnd <= j
           /\ LineEnd \in Nat /\ LineEnd >= 1 /\ LineEnd + 1 <= Len(buffer)
           /\ buffer[LineEnd] = CR /\ buffer[LineEnd + 1] = LF
<1>1. Len(buffer) \in Nat
  BY DEF TypeInv
<1>2. LineEnds \subseteq Nat
  BY <1>1 DEF LineEnds
<1>3. PICK i \in LineEnds : TRUE
  OBVIOUS
<1>4. \E e \in LineEnds : \A j \in LineEnds : e <= j
  BY <1>2, <1>3, Least
<1>5. LineEnd \in LineEnds /\ \A j \in LineEnds : LineEnd <= j
  BY <1>4 DEF LineEnd
<1> HIDE DEF LineEnd
<1> QED
  BY <1>1, <1>5 DEF LineEnds

LEMMA BufferStart ==
    ASSUME TypeInv, NEW a \in Seq(Symbols), NEW x \in Seq(Symbols), buffer \o incoming = a \o x
    PROVE  \A i \in 1 .. Len(a) : i <= Len(buffer) => buffer[i] = a[i]
<1>1. buffer \in Seq(Symbols) /\ incoming \in Seq(Symbols)
  BY DEF TypeInv
<1>2. \A i \in 1 .. Len(buffer) : (buffer \o incoming)[i] = buffer[i]
  BY <1>1, Joined
<1>3. \A i \in 1 .. Len(a) : (a \o x)[i] = a[i]
  BY Joined
<1>4. Len(a) \in Nat /\ Len(buffer) \in Nat
  BY <1>1
<1> QED
  BY <1>2, <1>3, <1>4

LEMMA LineTaken ==
    ASSUME TypeInv, NEW k, NEW symbol \in Symbols, NEW z \in Seq(Symbols),
           Left(k, Text(symbol) \o z), LineEnds # {},
           buffer' = Rest(LineEnd + 1), UNCHANGED <<incoming, pipeline>>
    PROVE  SubSeq(buffer, 1, LineEnd - 1) = <<symbol>> /\ Left(k, z)'
<1> DEFINE a == Text(symbol)
<1>1. a \in Seq(Symbols)
  BY TextTyped
<1>2. Len(a) = 3 /\ a[1] = symbol /\ a[2] = CR /\ a[3] = LF
  BY DEF Text
<1> HIDE DEF a
<1>3. PICK rest : Parted(k, a, z, rest)
  BY <1>1, Parts DEF a
<1>4. \A i \in 1 .. 3 : i <= Len(buffer) => buffer[i] = a[i]
  BY <1>1, <1>2, <1>3, BufferStart DEF Parted
<1>5. LineEnd = 2 /\ Len(buffer) >= 3
  <2>1. Len(buffer) \in Nat /\ CR # LF
    BY LineEndsTyped DEF TypeInv
  <2>2. LineEnd # 1
    BY <1>2, <1>4, <2>1, LineEndIs
  <2>3. LineEnd \in Nat /\ LineEnd >= 2 /\ LineEnd + 1 <= Len(buffer)
    BY <2>2, LineEndIs
  <2>4. 3 <= Len(buffer)
    BY <2>1, <2>3
  <2>5. buffer[2] = CR /\ buffer[2 + 1] = LF
    BY <1>2, <1>4, <2>1, <2>4
  <2>6. 2 \in LineEnds
    BY <2>1, <2>4, <2>5 DEF LineEnds
  <2> QED
    BY <2>1, <2>3, <2>4, <2>6, LineEndIs
<1>6. SubSeq(buffer, 1, Len(a)) = a /\ Left(k, z)'
  <2>1. Left(k, a \o z) /\ Len(a) <= Len(buffer) /\ buffer' = Rest(Len(a))
    BY <1>2, <1>5 DEF a, TypeInv
  <2> QED
    BY <1>1, <2>1, FrontTaken
<1>7. SubSeq(buffer, 1, 1) = <<symbol>>
  <2>1. buffer[1] = symbol /\ buffer \in Seq(Symbols) /\ Len(buffer) >= 3
    BY <1>2, <1>4, <1>5 DEF TypeInv
  <2>2. /\ SubSeq(buffer, 1, 1) \in Seq(Symbols) /\ Len(SubSeq(buffer, 1, 1)) = 1
        /\ SubSeq(buffer, 1, 1)[1] = symbol
    BY <2>1
  <2>3. <<symbol>> \in Seq(Symbols) /\ Len(<<symbol>>) = 1 /\ <<symbol>>[1] = symbol
    OBVIOUS
  <2>4. \A i \in 1 .. 1 : i = 1
    OBVIOUS
  <2> QED
    BY <2>2, <2>3, <2>4, SeqEqual
<1> QED
  BY <1>5, <1>6, <1>7

LEMMA EmptyLineTaken ==
    ASSUME TypeInv, NEW k, NEW z \in Seq(Symbols), Left(k, CRLF \o z), LineEnds # {},
           buffer' = Rest(LineEnd + 1), UNCHANGED <<incoming, pipeline>>
    PROVE  SubSeq(buffer, 1, LineEnd - 1) = <<>> /\ Left(k, z)'
<1> DEFINE a == CRLF
<1>1. a \in Seq(Symbols) /\ Len(a) = 2 /\ a[1] = CR /\ a[2] = LF
  BY LineEndsTyped DEF CRLF
<1> HIDE DEF a
<1>2. PICK rest : Parted(k, a, z, rest)
  BY <1>1, Parts DEF a
<1>3. \A i \in 1 .. 2 : i <= Len(buffer) => buffer[i] = a[i]
  BY <1>1, <1>2, BufferStart DEF Parted
<1>4. LineEnd = 1 /\ Len(buffer) >= 2
  <2>1. Len(buffer) \in Nat
    BY DEF TypeInv
  <2>2. LineEnd \in Nat /\ LineEnd >= 1 /\ LineEnd + 1 <= Len(buffer)
    BY LineEndIs
  <2>3. buffer[1] = CR /\ buffer[1 + 1] = LF /\ 2 <= Len(buffer)
    BY <1>1, <1>3, <2>1, <2>2
  <2>4. 1 \in LineEnds
    BY <2>1, <2>3 DEF LineEnds
  <2> QED
    BY <2>1, <2>2, <2>3, <2>4, LineEndIs
<1>5. Left(k, z)'
  <2>1. Left(k, a \o z) /\ Len(a) <= Len(buffer) /\ buffer' = Rest(Len(a))
    BY <1>1, <1>4 DEF a, TypeInv
  <2> QED
    BY <1>1, <2>1, FrontTaken
<1>6. SubSeq(buffer, 1, 0) = <<>>
  OBVIOUS
<1> QED
  BY <1>4, <1>5, <1>6

-----------------------------------------------------------------------------
\* Lines

LEMMA OneWord ==
    ASSUME NEW symbol, NEW word
    PROVE  /\ StartsWith(<<symbol>>, word) <=> symbol.word = word
           /\ Is(<<symbol>>, word) <=> symbol = [word |-> word]
           /\ ~StartsWith(<<>>, word) /\ ~Is(<<>>, word)
  BY DEF StartsWith, Is

\* The handlers of a line see the command whose turn it is.
LEMMA Handled ==
    ASSUME NEW k, Turn(k), NEW c, c = pipeline[k + 1], NEW line, ProcessLine(line)
    PROVE  /\ commandQueue' = SubSeq(pipeline, k + 2, Len(pipeline))
           /\ \/ StatsLine(c, line) \/ ConfigLine(c, line) \/ MultiLine(c, line)
              \/ SingleLine(c, line) \/ DroppedLine(c, line)
<1>1. Shifted = c /\ Behind = SubSeq(pipeline, k + 2, Len(pipeline))
  BY DEF Turn
<1>2. /\ commandQueue' = Behind
      /\ \/ StatsLine(Shifted, line) \/ ConfigLine(Shifted, line) \/ MultiLine(Shifted, line)
         \/ SingleLine(Shifted, line) \/ DroppedLine(Shifted, line)
  BY DEF ProcessLine, Turn
<1> QED
  BY <1>1, <1>2

\* A line in the middle of an answer.
LEMMA GoesOn ==
    ASSUME NEW k \in Nat, k < Len(pipeline), NEW c, c = pipeline[k + 1], Position(k),
           Continue(c), commandQueue' = SubSeq(pipeline, k + 2, Len(pipeline)),
           UNCHANGED pipeline,
           c.kind = "multi" => InMulti(k, c)', c.kind = "stats" => InStats(k, c)',
           c.kind = "config" => InConfig(k, c)', c.kind # "single", Len(pipeline) \in Nat
    PROVE  Position(k)'
<1>1. Turn(k)'
  <2>1. currentCommand' = <<c>> /\ <<c>> # <<>> /\ Head(<<c>>) = c
    BY DEF Continue
  <2> QED
    BY <2>1 DEF Turn, Shifted, Behind
<1>2. Inside(k, c)'
  BY <1>1 DEF Inside
<1>3. Inside(k, pipeline[k + 1])'
  BY <1>2 DEF Inside
<1>4. results' = [i \in 1 .. k |-> Meaning(pipeline'[i])]
  BY DEF Position, Continue
<1> QED
  BY <1>3, <1>4 DEF Position

LEMMA FreshNext == TypeInv' => Started'
  BY Fresh, PTL

\* The last line of an answer.
LEMMA Ends ==
    ASSUME TypeInv, TypeInv', NEW k \in 0 .. Len(pipeline), k < Len(pipeline), Position(k),
           Settle(Meaning(pipeline[k + 1])), Finish, multilineData' = <<>>,
           pendingValueBytes = 0, commandQueue' = SubSeq(pipeline, k + 2, Len(pipeline)),
           Left(k, <<>>)', UNCHANGED pipeline
    PROVE  Position(k + 1)'
<1>1. Len(pipeline) \in Nat /\ k + 1 \in 0 .. Len(pipeline) /\ k \in Nat /\ (k + 1) + 1 = k + 2
  BY AnswersTyped DEF TypeInv
<1>2. results' = [i \in 1 .. k + 1 |-> Meaning(pipeline[i])]
  <2> DEFINE M(i) == Meaning(pipeline[i])
  <2>1. results = [i \in 1 .. k |-> M(i)] /\ results' = Append(results, M(k + 1))
    BY DEF Position, Settle
  <2> HIDE DEF M
  <2>2. Append([i \in 1 .. k |-> M(i)], M(k + 1)) = [i \in 1 .. k + 1 |-> M(i)]
    BY <1>1
  <2> QED
    BY <2>1, <2>2 DEF M
<1>3. FlattenSeq(Answers(pipeline')) = Before(Answers(pipeline'), k + 1) \o Ahead'
  <2>1. PICK rest \in Seq(Symbols) :
           /\ Ahead' = <<>> \o rest
           /\ FlattenSeq(Answers(pipeline')) = Before(Answers(pipeline'), k + 1) \o rest
    BY DEF Left
  <2>2. <<>> \o rest = rest
    BY <2>1
  <2> QED
    BY <2>1, <2>2
<1>4. AtStart(k + 1)'
  BY <1>1, <1>2, <1>3 DEF AtStart, Finish
<1>5. \A i \in 0 .. Len(pipeline') : AtStart(i)' => Position(i)'
  BY FreshNext DEF Started
<1>6. k + 1 \in 0 .. Len(pipeline')
  BY <1>1
<1> QED
  BY <1>4, <1>5, <1>6

LEMMA LastLineTaken ==
    ASSUME TypeInv, NEW k, NEW c, c.fails \in BOOLEAN, Left(k, LastLine(c)), LineEnds # {},
           buffer' = Rest(LineEnd + 1), UNCHANGED <<incoming, pipeline>>
    PROVE  /\ SubSeq(buffer, 1, LineEnd - 1) =
                  <<[word |-> IF c.fails THEN "ERROR" ELSE "END"]>>
           /\ Left(k, <<>>)'
<1>1. PICK symbol \in Symbols : /\ LastLine(c) = Text(symbol)
                                /\ symbol = [word |-> IF c.fails THEN "ERROR" ELSE "END"]
  BY LastLineTyped
<1> DEFINE t == Text(symbol)
<1>2. t \in Seq(Symbols)
  BY <1>1, TextTyped
<1> HIDE DEF t
<1>3. t = t \o <<>> /\ <<>> \in Seq(Symbols)
  BY <1>2
<1>4. Left(k, t \o <<>>)
  BY <1>1, <1>3 DEF t
<1>5. Left(k, Text(symbol) \o <<>>)
  BY <1>4 DEF t
<1> QED
  BY <1>1, <1>3, <1>5, LineTaken

-----------------------------------------------------------------------------
\* The lines of each kind of answer

LEMMA SingleStep ==
    ASSUME TypeInv, TypeInv', NEW k \in 0 .. Len(pipeline), k < Len(pipeline), Position(k),
           NEW c \in Commands, c = pipeline[k + 1], c.kind = "single", ReadLine
    PROVE  Position(k + 1)'
<1>1. Turn(k) /\ InSingle(k, c)
  BY DEF Position, Inside
<1> DEFINE symbol == [word |-> c.line]  line == SubSeq(buffer, 1, LineEnd - 1)
<1>2. symbol \in Symbols /\ Wire(c) = Text(symbol)
  BY Kinds, WireIs DEF Symbols
<1>3. Text(symbol) = Text(symbol) \o <<>> /\ <<>> \in Seq(Symbols)
  <2> DEFINE t == Text(symbol)
  <2>1. t \in Seq(Symbols)
    BY <1>2, TextTyped
  <2> HIDE DEF t
  <2>2. t = t \o <<>>
    BY <2>1
  <2> QED
    BY <2>2 DEF t
<1>4. Left(k, Text(symbol) \o <<>>)
  BY <1>1, <1>2, <1>3 DEF InSingle
<1>5. ProcessLine(line) /\ LineEnds # {} /\ buffer' = Rest(LineEnd + 1)
      /\ UNCHANGED <<incoming, pipeline>> /\ pendingValueBytes = 0
  BY DEF ReadLine
<1>6. line = <<symbol>> /\ Left(k, <<>>)'
  BY <1>2, <1>3, <1>4, <1>5, LineTaken
<1> HIDE DEF line
<1>7. commandQueue' = SubSeq(pipeline, k + 2, Len(pipeline)) /\ SingleLine(c, line)
  BY <1>1, <1>5, Handled DEF StatsLine, ConfigLine, MultiLine, DroppedLine
<1>8. Settle(Meaning(c)) /\ Finish /\ UNCHANGED multilineData
  <2>1. /\ StartsWith(line, "ERROR") <=> c.line = "ERROR"
        /\ Is(line, "NOT_STORED") <=> c.line = "NOT_STORED"
    <3>1. symbol.word = c.line /\ (symbol = [word |-> "NOT_STORED"] <=> c.line = "NOT_STORED")
      OBVIOUS
    <3> HIDE DEF symbol
    <3> QED
      BY <1>6, <3>1, OneWord
  <2>2. line = <<[word |-> c.line]>>
    BY <1>6
  <2> QED
    BY <1>7, <2>1, <2>2 DEF SingleLine, Meaning
<1>9. multilineData' = <<>>
  BY <1>1, <1>8 DEF InSingle
<1> QED
  BY <1>5, <1>6, <1>7, <1>8, <1>9, Ends

LEMMA ConfigStep ==
    ASSUME TypeInv, TypeInv', NEW k \in 0 .. Len(pipeline), k < Len(pipeline), Position(k),
           NEW c \in Commands, c = pipeline[k + 1], c.kind = "config", ReadLine
    PROVE  Position(k)' \/ Position(k + 1)'
<1> DEFINE line == SubSeq(buffer, 1, LineEnd - 1)
<1>1. Turn(k) /\ InConfig(k, c)
  BY DEF Position, Inside
<1>2. c.fails \in BOOLEAN /\ c.value \in Seq(Symbols) /\ c.value # <<>>
  BY Kinds
<1>3. ProcessLine(line) /\ LineEnds # {} /\ buffer' = Rest(LineEnd + 1)
      /\ UNCHANGED <<incoming, pipeline>> /\ pendingValueBytes = 0
  BY DEF ReadLine
<1>4. /\ commandQueue' = SubSeq(pipeline, k + 2, Len(pipeline))
      /\ ConfigLine(c, line) \/ DroppedLine(c, line)
  <2> HIDE DEF line
  <2> QED
    BY <1>1, <1>3, Handled DEF StatsLine, SingleLine, MultiLine
<1>5. CASE Left(k, LastLine(c)) /\ (c.fails \/ multilineData = <<c.value>>)
  <2> DEFINE word == IF c.fails THEN "ERROR" ELSE "END"
  <2>1. line = <<[word |-> word]>> /\ Left(k, <<>>)'
    BY <1>2, <1>3, <1>5, LastLineTaken
  <2> HIDE DEF line
  <2>2. /\ StartsWith(line, "ERROR") <=> word = "ERROR"
        /\ StartsWith(line, "CONFIG") <=> word = "CONFIG"
        /\ Is(line, "END") <=> word = "END"
    <3> DEFINE symbol == [word |-> word]
    <3>1. symbol.word = word /\ (symbol = [word |-> "END"] <=> word = "END")
      OBVIOUS
    <3>2. line = <<symbol>>
      BY <2>1
    <3> HIDE DEF symbol, word
    <3> QED
      BY <3>1, <3>2, OneWord
  <2>3. Settle(Meaning(c)) /\ multilineData' = <<>> /\ Finish
    <3>1. CASE c.fails
      BY <1>4, <2>2, <3>1 DEF ConfigLine, DroppedLine, Meaning
    <3>2. CASE ~c.fails
      BY <1>4, <1>5, <2>2, <3>2 DEF ConfigLine, DroppedLine, Meaning
    <3> QED
      BY <3>1, <3>2
  <2> QED
    BY <1>3, <1>4, <2>1, <2>3, Ends
<1>6. CASE ~c.fails /\ Left(k, Wire(c)) /\ multilineData = <<>>
  <2> DEFINE symbol == [word |-> "CONFIG", key |-> 0, bytes |-> Len(c.value)]
             z == (c.value \o CRLF) \o LastLine(c)
  <2>1. symbol \in Symbols /\ Wire(c) = Text(symbol) \o z
    BY <1>2, <1>6, WireIs, BodyTyped
  <2>2. z \in Seq(Symbols)
    <3>1. CRLF \in Seq(Symbols) /\ LastLine(c) \in Seq(Symbols)
      BY PartsTyped, LineEndsTyped
    <3> QED
      BY <1>2, <3>1
  <2>3. line = <<symbol>> /\ Left(k, z)'
    <3> HIDE DEF z, symbol
    <3> QED
      BY <1>3, <1>6, <2>1, <2>2, LineTaken
  <2>4. symbol.word = "CONFIG" /\ symbol.bytes = Len(c.value)
    OBVIOUS
  <2>5. symbol # [word |-> "END"]
    <3>1. symbol.word # [word |-> "END"].word
      OBVIOUS
    <3> QED
      BY <3>1
  <2> HIDE DEF symbol, line
  <2>6. StartsWith(line, "CONFIG") /\ ~StartsWith(line, "ERROR") /\ ~Is(line, "END")
        /\ line[1] = symbol
    BY <2>3, <2>4, <2>5, OneWord
  <2>7. /\ pendingValueBytes' = Len(c.value) /\ Continue(c)
        /\ UNCHANGED <<foundKeys, multilineData>>
    BY <1>4, <2>4, <2>6 DEF ConfigLine, DroppedLine
  <2>8. InConfig(k, c)'
    BY <1>1, <1>6, <2>3, <2>7 DEF InConfig
  <2>9. k \in Nat /\ Len(pipeline) \in Nat /\ c.kind # "multi" /\ c.kind # "stats"
    BY AnswersTyped DEF TypeInv
  <2> QED
    BY <1>3, <1>4, <2>7, <2>8, <2>9, GoesOn
<1>7. pendingValueBytes # Len(c.value)
  BY <1>2, <1>3
<1>8. c.fails => Wire(c) = LastLine(c)
  BY WireIs
<1> QED
  BY <1>1, <1>2, <1>5, <1>6, <1>7, <1>8 DEF InConfig

LEMMA LeftGrouped ==
    ASSUME NEW k, NEW a \in Seq(Symbols), NEW b \in Seq(Symbols), NEW z \in Seq(Symbols)
    PROVE  Left(k, (a \o b) \o z) <=> Left(k, a \o (b \o z))
<1>1. a \o (b \o z) = (a \o b) \o z
  BY Associative
<1> QED
  BY <1>1

\* The last line of a multi-line answer settles the promise.
LastLineFor(k, c, line) ==
    line = <<[word |-> IF c.fails THEN "ERROR" ELSE "END"]>> /\ Left(k, <<>>)'

LEMMA LastWord ==
    ASSUME NEW k, NEW c, c.fails \in BOOLEAN, NEW line, LastLineFor(k, c, line)
    PROVE  /\ StartsWith(line, "ERROR") <=> c.fails
           /\ Is(line, "END") <=> ~c.fails
           /\ ~StartsWith(line, "VALUE") /\ ~StartsWith(line, "STAT") /\ ~StartsWith(line, "CONFIG")
<1> DEFINE word == IF c.fails THEN "ERROR" ELSE "END"
           symbol == [word |-> word]
<1>1. symbol.word = word /\ (symbol = [word |-> "END"] <=> word = "END") /\ line = <<symbol>>
  BY DEF LastLineFor
<1>2. (word = "ERROR" <=> c.fails) /\ (word = "END" <=> ~c.fails)
      /\ word \notin {"VALUE", "STAT", "CONFIG"}
  OBVIOUS
<1> HIDE DEF symbol, word
<1> QED
  BY <1>1, <1>2, OneWord

LEMMA StatsStep ==
    ASSUME TypeInv, TypeInv', NEW k \in 0 .. Len(pipeline), k < Len(pipeline), Position(k),
           NEW c \in Commands, c = pipeline[k + 1], c.kind = "stats", ReadLine
    PROVE  Position(k)' \/ Position(k + 1)'
<1> DEFINE line == SubSeq(buffer, 1, LineEnd - 1)
<1>1. Turn(k) /\ InStats(k, c)
  BY DEF Position, Inside
<1>2. /\ c.fails \in BOOLEAN /\ c.lines \in Seq([word : {"STAT"}, text : Words])
      /\ (c.fails => c.lines = <<>>)
  BY Kinds
<1>3. ProcessLine(line) /\ LineEnds # {} /\ buffer' = Rest(LineEnd + 1)
      /\ UNCHANGED <<incoming, pipeline>> /\ pendingValueBytes = 0
  BY DEF ReadLine
<1>4. /\ commandQueue' = SubSeq(pipeline, k + 2, Len(pipeline))
      /\ StatsLine(c, line) \/ DroppedLine(c, line)
  <2> HIDE DEF line
  <2> QED
    BY <1>1, <1>3, Handled DEF ConfigLine, SingleLine, MultiLine
<1>5. PICK j \in 0 .. Len(c.lines), y \in Seq(Symbols) :
         /\ FlattenSeq(Lines(c)) = Before(Lines(c), j) \o y
         /\ multilineData = FirstLines(c, j)
         /\ Left(k, y \o LastLine(c))
  BY <1>1 DEF InStats
<1>6. /\ Lines(c) \in Seq(Seq(Symbols)) /\ Len(Lines(c)) = Len(c.lines)
      /\ LastLine(c) \in Seq(Symbols) /\ Len(c.lines) \in Nat
  BY <1>2, PartsTyped
<1>7. /\ j = Len(c.lines) => y = <<>>
      /\ j < Len(c.lines) => \E z \in Seq(Symbols) :
            y = Lines(c)[j + 1] \o z /\ FlattenSeq(Lines(c)) = Before(Lines(c), j + 1) \o z
  <2> DEFINE s == Lines(c)
  <2>1. s \in Seq(Seq(Symbols)) /\ j \in 0 .. Len(s) /\ FlattenSeq(s) = Before(s, j) \o y
    BY <1>5, <1>6
  <2>3. Len(s) = Len(c.lines) /\ y \in Seq(Symbols)
    BY <1>5, <1>6
  <2> HIDE DEF s
  <2>2. Continues(Symbols, s, j, y)
    <3>1. y \in Seq(Symbols)
      BY <1>5
    <3> QED
      BY <2>1, <3>1, Continuation
  <2> QED
    BY <2>2, <2>3 DEF s, Continues
<1>8. CASE j = Len(c.lines)
  <2>1. Left(k, LastLine(c))
    <3>1. y \o LastLine(c) = LastLine(c)
      BY <1>6, <1>7, <1>8
    <3> QED
      BY <1>5, <3>1
  <2>2. LastLineFor(k, c, line)
    BY <1>2, <1>3, <2>1, LastLineTaken DEF LastLineFor
  <2> HIDE DEF line
  <2>3. Left(k, <<>>)'
    BY <2>2 DEF LastLineFor
  <2>5. /\ StartsWith(line, "ERROR") <=> c.fails
        /\ Is(line, "END") <=> ~c.fails
        /\ ~StartsWith(line, "STAT")
    BY <1>2, <2>2, LastWord
  <2>4. Settle(Meaning(c)) /\ multilineData' = <<>> /\ Finish
    <3>1. CASE c.fails
      <4>1. multilineData = <<>>
        BY <1>2, <1>5, <1>8, <3>1 DEF FirstLines
      <4>2. Settle(Rejected) /\ UNCHANGED multilineData /\ Finish
        BY <1>4, <2>5, <3>1 DEF StatsLine, DroppedLine
      <4>3. Meaning(c) = Rejected
        BY <3>1 DEF Meaning
      <4> QED
        BY <4>1, <4>2, <4>3
    <3>2. CASE ~c.fails
      <4>1. Settle(Resolved(multilineData)) /\ multilineData' = <<>> /\ Finish
        BY <1>4, <2>5, <3>2 DEF StatsLine, DroppedLine
      <4>2. multilineData = [i \in DOMAIN c.lines |-> <<c.lines[i]>>]
        BY <1>2, <1>5, <1>8 DEF FirstLines
      <4>3. Meaning(c) = Resolved(multilineData)
        BY <3>2, <4>2 DEF Meaning
      <4> QED
        BY <4>1, <4>3
    <3> QED
      BY <3>1, <3>2
  <2> QED
    BY <1>3, <1>4, <2>3, <2>4, Ends
<1>9. CASE j < Len(c.lines)
  <2>1. PICK z \in Seq(Symbols) : /\ y = Lines(c)[j + 1] \o z
                                  /\ FlattenSeq(Lines(c)) = Before(Lines(c), j + 1) \o z
    BY <1>7, <1>9
  <2> DEFINE symbol == c.lines[j + 1]
  <2>2. j + 1 \in 1 .. Len(c.lines) /\ j + 1 \in 0 .. Len(c.lines) /\ j \in Nat
    BY <1>6, <1>9
  <2>3. symbol \in [word : {"STAT"}, text : Words]
    <3>1. j + 1 \in DOMAIN c.lines
      BY <1>2, <2>2
    <3> QED
      BY <1>2, <3>1, ElementIn
  <2>4. symbol \in Symbols /\ symbol.word = "STAT"
    BY <2>3 DEF Symbols
  <2>5. symbol # [word |-> "END"]
    <3>1. symbol.word # [word |-> "END"].word
      BY <2>4
    <3> QED
      BY <3>1
  <2>6. Lines(c)[j + 1] = Text(symbol)
    BY <1>2, <2>2 DEF Lines
  <2>7. z \o LastLine(c) \in Seq(Symbols) /\ Text(symbol) \in Seq(Symbols)
    BY <1>6, <2>1, <2>4, TextTyped
  <2>8. Left(k, Text(symbol) \o (z \o LastLine(c)))
    BY <1>5, <1>6, <2>1, <2>6, <2>7, LeftGrouped
  <2>9. line = <<symbol>> /\ Left(k, z \o LastLine(c))'
    <3> HIDE DEF symbol
    <3> QED
      BY <1>3, <2>4, <2>7, <2>8, LineTaken
  <2> HIDE DEF symbol, line
  <2>10. StartsWith(line, "STAT") /\ ~StartsWith(line, "ERROR") /\ ~Is(line, "END")
    BY <2>4, <2>5, <2>9, OneWord
  <2>11. /\ multilineData' = Append(multilineData, line) /\ Continue(c)
         /\ UNCHANGED <<foundKeys, pendingValueBytes>>
    BY <1>4, <2>10 DEF StatsLine, DroppedLine
  <2>12. multilineData' = FirstLines(c, j + 1)
    <3> DEFINE f(i) == <<c.lines[i]>>
    <3>1. multilineData = [i \in 1 .. j |-> f(i)] /\ multilineData' = Append(multilineData, f(j + 1))
      BY <1>5, <2>9, <2>11 DEF FirstLines, symbol
    <3> HIDE DEF f
    <3>2. Append([i \in 1 .. j |-> f(i)], f(j + 1)) = [i \in 1 .. j + 1 |-> f(i)]
      BY <2>2
    <3> QED
      BY <3>1, <3>2 DEF FirstLines, f
  <2>13. InStats(k, c)'
    BY <1>1, <1>3, <2>1, <2>2, <2>9, <2>11, <2>12 DEF InStats
  <2>14. k \in Nat /\ Len(pipeline) \in Nat /\ c.kind # "multi" /\ c.kind # "config"
    BY AnswersTyped DEF TypeInv
  <2> QED
    BY <1>3, <1>4, <2>11, <2>13, <2>14, GoesOn
<1> QED
  BY <1>5, <1>6, <1>8, <1>9

\* The empty line behind an empty value.
LEMMA MultiEmptyLine ==
    ASSUME TypeInv, NEW k \in 0 .. Len(pipeline), k < Len(pipeline), Position(k),
           NEW c \in Commands, c = pipeline[k + 1], c.kind = "multi", ReadLine,
           NEW j \in 0 .. Len(c.hits), NEW y \in Seq(Symbols),
           FlattenSeq(Bodies(c)) = Before(Bodies(c), j) \o y,
           foundKeys = FirstKeys(c, j), multilineData = FirstValues(c, j),
           Left(k, CRLF \o (y \o LastLine(c)))
    PROVE  Position(k)'
<1> DEFINE line == SubSeq(buffer, 1, LineEnd - 1)
<1>1. Turn(k)
  BY DEF Position, Inside
<1>2. ProcessLine(line) /\ LineEnds # {} /\ buffer' = Rest(LineEnd + 1)
      /\ UNCHANGED <<incoming, pipeline>> /\ pendingValueBytes = 0
  BY DEF ReadLine
<1>3. y \o LastLine(c) \in Seq(Symbols)
  <2>1. LastLine(c) \in Seq(Symbols)
    BY PartsTyped
  <2> QED
    BY <2>1
<1>4. line = <<>> /\ Left(k, y \o LastLine(c))'
  BY <1>2, <1>3, EmptyLineTaken
<1> HIDE DEF line
<1>5. /\ commandQueue' = SubSeq(pipeline, k + 2, Len(pipeline))
      /\ MultiLine(c, line) \/ DroppedLine(c, line)
  BY <1>1, <1>2, Handled DEF StatsLine, SingleLine, ConfigLine
<1>6. DroppedLine(c, line)
  <2>1. /\ ~StartsWith(line, "VALUE") /\ ~StartsWith(line, "ERROR") /\ ~Is(line, "END")
    BY <1>4, OneWord
  <2> QED
    BY <1>5, <2>1 DEF MultiLine, ValueLine, MultiEnds, MultiFails
<1>7. Continue(c) /\ UNCHANGED <<foundKeys, multilineData, pendingValueBytes>>
  BY <1>6 DEF DroppedLine
<1>8. InMulti(k, c)'
  BY <1>2, <1>4, <1>7 DEF InMulti
<1>9. k \in Nat /\ Len(pipeline) \in Nat /\ c.kind # "stats" /\ c.kind # "config"
  BY AnswersTyped DEF TypeInv
<1> QED
  BY <1>2, <1>5, <1>7, <1>8, <1>9, GoesOn

\* END or an error line.
LEMMA MultiLastLine ==
    ASSUME TypeInv, TypeInv', NEW k \in 0 .. Len(pipeline), k < Len(pipeline), Position(k),
           NEW c \in Commands, c = pipeline[k + 1], c.kind = "multi", ReadLine,
           foundKeys = FirstKeys(c, Len(c.hits)), multilineData = FirstValues(c, Len(c.hits)),
           Left(k, LastLine(c))
    PROVE  Position(k + 1)'
<1> DEFINE line == SubSeq(buffer, 1, LineEnd - 1)
<1>1. Turn(k)
  BY DEF Position, Inside
<1>2. ProcessLine(line) /\ LineEnds # {} /\ buffer' = Rest(LineEnd + 1)
      /\ UNCHANGED <<incoming, pipeline>> /\ pendingValueBytes = 0
  BY DEF ReadLine
<1>3. c.fails \in BOOLEAN /\ c.hits \in Seq([key : Nat, value : Seq(Symbols)])
  BY Kinds
<1>4. LastLineFor(k, c, line)
  <2>1. c.fails \in BOOLEAN /\ LineEnds # {} /\ buffer' = Rest(LineEnd + 1)
        /\ UNCHANGED <<incoming, pipeline>>
    BY <1>2, <1>3
  <2>2. line = <<[word |-> IF c.fails THEN "ERROR" ELSE "END"]>> /\ Left(k, <<>>)'
    BY <2>1, LastLineTaken
  <2> HIDE DEF line
  <2> QED
    BY <2>2 DEF LastLineFor
<1> HIDE DEF line
<1>5. Left(k, <<>>)'
  BY <1>4 DEF LastLineFor
<1>6. /\ commandQueue' = SubSeq(pipeline, k + 2, Len(pipeline))
      /\ MultiLine(c, line) \/ DroppedLine(c, line)
  BY <1>1, <1>2, Handled DEF StatsLine, SingleLine, ConfigLine
<1>7. /\ StartsWith(line, "ERROR") <=> c.fails
      /\ Is(line, "END") <=> ~c.fails
      /\ ~StartsWith(line, "VALUE")
  BY <1>3, <1>4, LastWord
<1>8. MultiEnds(c, line) \/ MultiFails(line)
  BY <1>6, <1>7 DEF MultiLine, ValueLine, DroppedLine
<1>9. Settle(Meaning(c)) /\ multilineData' = <<>> /\ Finish
  <2>1. CASE c.fails
    <3>1. Settle(Rejected) /\ multilineData' = <<>> /\ Finish
      BY <1>7, <1>8, <2>1 DEF MultiEnds, MultiFails
    <3>2. Meaning(c) = Rejected
      BY <2>1 DEF Meaning
    <3> QED
      BY <3>1, <3>2
  <2>2. CASE ~c.fails
    <3>1. /\ Settle(Result("resolved", multilineData, foundKeys, c.keys \ ToSet(foundKeys)))
          /\ multilineData' = <<>> /\ Finish
      BY <1>7, <1>8, <2>2 DEF MultiEnds, MultiFails
    <3>2. /\ foundKeys = [i \in DOMAIN c.hits |-> c.hits[i].key]
          /\ multilineData = [i \in DOMAIN c.hits |-> c.hits[i].value]
      BY <1>3 DEF FirstKeys, FirstValues
    <3>3. Meaning(c) = Result("resolved", multilineData, foundKeys, c.keys \ ToSet(foundKeys))
      BY <2>2, <3>2 DEF Meaning
    <3> QED
      BY <3>1, <3>3
  <2> QED
    BY <2>1, <2>2
<1> QED
  BY <1>2, <1>5, <1>6, <1>9, Ends

\* VALUE <key> <flags> <bytes>
LEMMA MultiValueLine ==
    ASSUME TypeInv, NEW k \in 0 .. Len(pipeline), k < Len(pipeline), Position(k),
           NEW c \in Commands, c = pipeline[k + 1], c.kind = "multi", ReadLine,
           NEW j \in 0 .. Len(c.hits), j < Len(c.hits), NEW z \in Seq(Symbols),
           FlattenSeq(Bodies(c)) = Before(Bodies(c), j + 1) \o z,
           foundKeys = FirstKeys(c, j), multilineData = FirstValues(c, j),
           Left(k, Bodies(c)[j + 1] \o (z \o LastLine(c)))
    PROVE  Position(k)'
<1> DEFINE line == SubSeq(buffer, 1, LineEnd - 1)
           hit == c.hits[j + 1]
           symbol == [word |-> "VALUE", key |-> hit.key, bytes |-> Len(hit.value)]
           body == hit.value \o CRLF
           more == z \o LastLine(c)
<1>1. Turn(k)
  BY DEF Position, Inside
<1>2. ProcessLine(line) /\ LineEnds # {} /\ buffer' = Rest(LineEnd + 1)
      /\ UNCHANGED <<incoming, pipeline>> /\ pendingValueBytes = 0
  BY DEF ReadLine
<1>3. c.hits \in Seq([key : Nat, value : Seq(Symbols)]) /\ LastLine(c) \in Seq(Symbols)
  BY Kinds, PartsTyped
<1>4. /\ j + 1 \in DOMAIN c.hits /\ j + 1 \in 1 .. Len(c.hits) /\ j + 1 \in 0 .. Len(c.hits)
      /\ j \in Nat /\ (j + 1) - 1 = j
  BY <1>3, NextIndex
<1>5. hit \in [key : Nat, value : Seq(Symbols)]
  BY <1>3, <1>4, ElementIn
<1>6. hit.key \in Nat /\ hit.value \in Seq(Symbols) /\ CRLF \in Seq(Symbols)
  BY <1>5, LineEndsTyped
<1>7. /\ symbol \in Symbols /\ Bodies(c)[j + 1] = Text(symbol) \o body
      /\ body \in Seq(Symbols) /\ more \in Seq(Symbols)
  <2>1. Bodies(c)[j + 1] = Body("VALUE", hit.key, hit.value)
    BY <1>4 DEF Bodies
  <2>2. symbol \in Symbols /\ Body("VALUE", hit.key, hit.value) = Text(symbol) \o body
    <3> HIDE DEF hit
    <3> QED
      BY <1>6, BodyTyped
  <2>3. body \in Seq(Symbols) /\ more \in Seq(Symbols)
    BY <1>3, <1>6
  <2> QED
    BY <2>1, <2>2, <2>3
<1>8. symbol.word = "VALUE" /\ symbol.key = hit.key /\ symbol.bytes = Len(hit.value)
  OBVIOUS
<1>9. symbol # [word |-> "END"]
  <2>1. symbol.word # [word |-> "END"].word
    OBVIOUS
  <2> QED
    BY <2>1
<1> HIDE DEF symbol, body, more, hit, line
<1>10. Left(k, Text(symbol) \o (body \o more))
  <2>1. Left(k, (Text(symbol) \o body) \o more)
    BY <1>7 DEF more
  <2> QED
    BY <1>7, <2>1, TextTyped, LeftGrouped
<1>11. line = <<symbol>> /\ Left(k, body \o more)'
  <2>1. body \o more \in Seq(Symbols)
    BY <1>7
  <2> QED
    BY <1>2, <1>7, <1>10, <2>1, LineTaken DEF line
<1>12. /\ commandQueue' = SubSeq(pipeline, k + 2, Len(pipeline))
       /\ MultiLine(c, line) \/ DroppedLine(c, line)
  BY <1>1, <1>2, Handled DEF StatsLine, SingleLine, ConfigLine
<1>13. StartsWith(line, "VALUE") /\ ~StartsWith(line, "ERROR") /\ ~Is(line, "END")
       /\ line[1] = symbol
  BY <1>8, <1>9, <1>11, OneWord
<1>14. ValueLine(c, line)
  BY <1>12, <1>13 DEF MultiLine, MultiEnds, MultiFails, DroppedLine
<1>15. /\ Continue(c) /\ foundKeys' = Append(foundKeys, hit.key)
       /\ IF Len(hit.value) = 0
          THEN multilineData' = Append(multilineData, <<>>) /\ UNCHANGED pendingValueBytes
          ELSE pendingValueBytes' = Len(hit.value) /\ UNCHANGED multilineData
  BY <1>8, <1>13, <1>14 DEF ValueLine
<1>16. foundKeys' = FirstKeys(c, j + 1)
  <2> DEFINE f(i) == c.hits[i].key
  <2>1. foundKeys = [i \in 1 .. j |-> f(i)] /\ foundKeys' = Append(foundKeys, f(j + 1))
    BY <1>15 DEF FirstKeys, hit
  <2> HIDE DEF f
  <2>2. Append([i \in 1 .. j |-> f(i)], f(j + 1)) = [i \in 1 .. j + 1 |-> f(i)]
    BY <1>4
  <2> QED
    BY <2>1, <2>2 DEF FirstKeys, f
<1>17. InMulti(k, c)'
  <2>1. CASE Len(hit.value) = 0
    <3>1. hit.value = <<>>
      BY <1>6, <2>1
    <3>2. body = CRLF
      BY <1>6, <3>1 DEF body
    <3>3. multilineData' = FirstValues(c, j + 1)
      <4> DEFINE f(i) == c.hits[i].value
      <4>1. multilineData = [i \in 1 .. j |-> f(i)] /\ multilineData' = Append(multilineData, f(j + 1))
        BY <1>15, <2>1, <3>1 DEF FirstValues, hit
      <4> HIDE DEF f
      <4>2. Append([i \in 1 .. j |-> f(i)], f(j + 1)) = [i \in 1 .. j + 1 |-> f(i)]
        BY <1>4
      <4> QED
        BY <4>1, <4>2 DEF FirstValues, f
    <3>4. pendingValueBytes' = 0
      BY <1>2, <1>15, <2>1
    <3>5. Left(k, CRLF \o (z \o LastLine(c)))'
      BY <1>11, <3>2 DEF more
    <3> QED
      BY <1>4, <1>16, <3>3, <3>4, <3>5 DEF InMulti
  <2>2. CASE Len(hit.value) # 0
    <3>1. hit.value # <<>>
      BY <2>2
    <3>2. pendingValueBytes' = Len(hit.value) /\ multilineData' = FirstValues(c, (j + 1) - 1)
      BY <1>4, <1>15, <2>2
    <3>3. Left(k, (hit.value \o CRLF) \o (z \o LastLine(c)))'
      BY <1>11 DEF body, more
    <3>4. j + 1 > 0
      BY <1>4
    <3> QED
      BY <1>4, <1>16, <3>1, <3>2, <3>3, <3>4 DEF InMulti, hit
  <2> QED
    BY <2>1, <2>2
<1>18. k \in Nat /\ Len(pipeline) \in Nat /\ c.kind # "stats" /\ c.kind # "config"
  BY AnswersTyped DEF TypeInv
<1> QED
  BY <1>2, <1>12, <1>15, <1>17, <1>18, GoesOn

LEMMA MultiStep ==
    ASSUME TypeInv, TypeInv', NEW k \in 0 .. Len(pipeline), k < Len(pipeline), Position(k),
           NEW c \in Commands, c = pipeline[k + 1], c.kind = "multi", ReadLine
    PROVE  Position(k)' \/ Position(k + 1)'
<1>1. InMulti(k, c)
  BY DEF Position, Inside
<1>2. c.hits \in Seq([key : Nat, value : Seq(Symbols)])
  BY Kinds
<1>3. PICK j \in 0 .. Len(c.hits), y \in Seq(Symbols) :
         /\ FlattenSeq(Bodies(c)) = Before(Bodies(c), j) \o y
         /\ foundKeys = FirstKeys(c, j)
         /\ \/ /\ pendingValueBytes = 0
               /\ multilineData = FirstValues(c, j)
               /\ Left(k, y \o LastLine(c)) \/ Left(k, CRLF \o (y \o LastLine(c)))
            \/ /\ j > 0 /\ c.hits[j].value # <<>>
               /\ pendingValueBytes = Len(c.hits[j].value)
               /\ multilineData = FirstValues(c, j - 1)
               /\ Left(k, (c.hits[j].value \o CRLF) \o (y \o LastLine(c)))
  BY <1>1 DEF InMulti
<1>4. /\ multilineData = FirstValues(c, j)
      /\ Left(k, y \o LastLine(c)) \/ Left(k, CRLF \o (y \o LastLine(c)))
  <2>1. pendingValueBytes = 0
    BY DEF ReadLine
  <2>2. ASSUME j > 0, c.hits[j].value # <<>> PROVE pendingValueBytes # Len(c.hits[j].value)
    <3>1. j \in DOMAIN c.hits
      BY <1>2, <2>2
    <3>2. c.hits[j] \in [key : Nat, value : Seq(Symbols)]
      BY <1>2, <3>1, ElementIn
    <3>3. c.hits[j].value \in Seq(Symbols)
      BY <3>2
    <3> QED
      BY <2>1, <2>2, <3>3
  <2> QED
    BY <1>3, <2>2
<1>5. CASE Left(k, CRLF \o (y \o LastLine(c)))
  BY <1>3, <1>4, <1>5, MultiEmptyLine
<1>6. CASE Left(k, y \o LastLine(c))
  <2>1. /\ Bodies(c) \in Seq(Seq(Symbols)) /\ Len(Bodies(c)) = Len(c.hits)
        /\ LastLine(c) \in Seq(Symbols) /\ Len(c.hits) \in Nat
    BY <1>2, PartsTyped
  <2>2. /\ j = Len(c.hits) => y = <<>>
        /\ j < Len(c.hits) => \E z \in Seq(Symbols) :
              y = Bodies(c)[j + 1] \o z /\ FlattenSeq(Bodies(c)) = Before(Bodies(c), j + 1) \o z
    <3> DEFINE s == Bodies(c)
    <3>1. s \in Seq(Seq(Symbols)) /\ j \in 0 .. Len(s) /\ FlattenSeq(s) = Before(s, j) \o y
      BY <1>3, <2>1
    <3>2. Len(s) = Len(c.hits) /\ y \in Seq(Symbols)
      BY <1>3, <2>1
    <3> HIDE DEF s
    <3>3. Continues(Symbols, s, j, y)
      <4>1. y \in Seq(Symbols)
        BY <1>3
      <4> QED
        BY <3>1, <4>1, Continuation
    <3> QED
      BY <3>2, <3>3 DEF s, Continues
  <2>3. CASE j = Len(c.hits)
    <3>1. y \o LastLine(c) = LastLine(c)
      BY <2>1, <2>2, <2>3
    <3>2. Left(k, LastLine(c))
      BY <1>6, <3>1
    <3> QED
      BY <1>3, <1>4, <2>3, <3>2, MultiLastLine
  <2>4. CASE j < Len(c.hits)
    <3>1. PICK z \in Seq(Symbols) : /\ y = Bodies(c)[j + 1] \o z
                                    /\ FlattenSeq(Bodies(c)) = Before(Bodies(c), j + 1) \o z
      BY <2>2, <2>4
    <3>2. Bodies(c)[j + 1] \in Seq(Symbols)
      <4>1. j + 1 \in DOMAIN Bodies(c)
        BY <2>1, <2>4
      <4> QED
        BY <2>1, <4>1, ElementIn
    <3>3. Left(k, Bodies(c)[j + 1] \o (z \o LastLine(c)))
      BY <1>6, <2>1, <3>1, <3>2, LeftGrouped
    <3> QED
      BY <1>3, <1>4, <2>4, <3>1, <3>3, MultiValueLine
  <2> QED
    BY <1>3, <2>1, <2>3, <2>4
<1> QED
  BY <1>4, <1>5, <1>6

-----------------------------------------------------------------------------
\* The steps of the loop and of the network

\* Only a value that is not empty is waited for.
LEMMA AwaitsNat ==
    ASSUME TypeInv, NEW k \in 0 .. Len(pipeline), Position(k)
    PROVE  pendingValueBytes \in Nat
<1>1. Len(pipeline) \in Nat
  BY AnswersTyped DEF TypeInv
<1>2. CASE k = Len(pipeline)
  BY <1>2 DEF Position
<1>3. CASE k < Len(pipeline)
  <2> DEFINE c == pipeline[k + 1]
  <2>1. c \in Commands
    BY <1>1, <1>3, AnswersTyped DEF TypeInv
  <2>2. Inside(k, c)
    BY <1>3 DEF Position
  <2> HIDE DEF c
  <2>3. CASE c.kind = "multi"
    <3>1. c.hits \in Seq([key : Nat, value : Seq(Symbols)]) /\ InMulti(k, c)
      BY <2>1, <2>2, <2>3, Kinds DEF Inside
    <3>2. PICK j \in 0 .. Len(c.hits) :
             pendingValueBytes = 0 \/ (j > 0 /\ pendingValueBytes = Len(c.hits[j].value))
      BY <3>1 DEF InMulti
    <3>3. ASSUME j > 0 PROVE Len(c.hits[j].value) \in Nat
      <4>1. j \in DOMAIN c.hits
        BY <3>1, <3>2, <3>3
      <4>2. c.hits[j] \in [key : Nat, value : Seq(Symbols)]
        BY <3>1, <4>1, ElementIn
      <4>3. c.hits[j].value \in Seq(Symbols)
        BY <4>2
      <4> QED
        BY <4>3
    <3> QED
      BY <3>2, <3>3
  <2>4. CASE c.kind = "stats"
    BY <2>2, <2>4 DEF Inside, InStats
  <2>5. CASE c.kind = "config"
    <3>1. c.value \in Seq(Symbols)
      BY <2>1, <2>5, Kinds
    <3>2. Len(c.value) \in Nat
      BY <3>1
    <3> QED
      BY <2>2, <2>5, <3>2 DEF Inside, InConfig
  <2>6. CASE c.kind = "single"
    BY <2>2, <2>6 DEF Inside, InSingle
  <2> QED
    BY <2>1, <2>3, <2>4, <2>5, <2>6, Kinds
<1> QED
  BY <1>1, <1>2, <1>3

\* What is left of the buffer is typed.
LEMMA RestTyped ==
    ASSUME TypeInv, NEW n \in Nat
    PROVE  Rest(n) \in Seq(Symbols)
  BY DEF TypeInv, Rest

\* A value in the middle of an answer.
LEMMA ValueGoesOn ==
    ASSUME NEW k \in Nat, k < Len(pipeline), NEW c, c = pipeline[k + 1], Position(k),
           UNCHANGED <<currentCommand, commandQueue, results, pipeline>>,
           c.kind = "multi" => InMulti(k, c)', c.kind = "stats" => InStats(k, c)',
           c.kind = "config" => InConfig(k, c)', c.kind # "single", Len(pipeline) \in Nat
    PROVE  Position(k)'
<1>1. Turn(k)
  BY DEF Position, Inside
<1>2. Turn(k)'
  BY <1>1 DEF Turn, Shifted, Behind
<1>3. Inside(k, c)'
  BY <1>2 DEF Inside
<1>4. Inside(k, pipeline[k + 1])'
  BY <1>3 DEF Inside
<1>5. results' = [i \in 1 .. k |-> Meaning(pipeline'[i])]
  BY DEF Position
<1> QED
  BY <1>4, <1>5 DEF Position

LEMMA ReadValueStep ==
    ASSUME TypeInv, NEW k \in 0 .. Len(pipeline), Position(k), ReadValue
    PROVE  Position(k)'
<1>1. Len(pipeline) \in Nat /\ k \in Nat
  BY AnswersTyped DEF TypeInv
<1>2. multilineData' = Append(multilineData, SubSeq(buffer, 1, pendingValueBytes))
  BY DEF ReadValue
<1>10. ValueComplete /\ buffer' = Rest(pendingValueBytes + 2) /\ UNCHANGED <<incoming, pipeline>>
  BY DEF ReadValue
<1>11. UNCHANGED <<currentCommand, commandQueue, results, pipeline>>
  BY DEF ReadValue
<1>12. pendingValueBytes' = 0 /\ UNCHANGED foundKeys
  BY DEF ReadValue
<1>13. pendingValueBytes # 0
  BY DEF ReadValue, ValueComplete
<1>3. k < Len(pipeline)
  BY <1>1, <1>13 DEF Position
<1>4. pipeline[k + 1] \in Commands
  BY <1>1, <1>3, AnswersTyped DEF TypeInv
<1>6. PICK c \in Commands : c = pipeline[k + 1]
  BY <1>4
<1>5. Inside(k, c)
  BY <1>3, <1>6 DEF Position
<1>7. CASE c.kind = "multi"
  <2>1. c.hits \in Seq([key : Nat, value : Seq(Symbols)]) /\ LastLine(c) \in Seq(Symbols)
    BY <1>4, <1>7, Kinds, PartsTyped
  <2>2. PICK j \in 0 .. Len(c.hits), y \in Seq(Symbols) :
           /\ FlattenSeq(Bodies(c)) = Before(Bodies(c), j) \o y
           /\ foundKeys = FirstKeys(c, j)
           /\ j > 0 /\ c.hits[j].value # <<>>
           /\ pendingValueBytes = Len(c.hits[j].value)
           /\ multilineData = FirstValues(c, j - 1)
           /\ Left(k, (c.hits[j].value \o CRLF) \o (y \o LastLine(c)))
    <3>1. InMulti(k, c)
      BY <1>5, <1>7 DEF Inside
    <3> QED
      BY <1>13, <3>1 DEF InMulti
  <2>3. j \in DOMAIN c.hits /\ j - 1 \in Nat /\ (j - 1) + 1 = j
    BY <2>1, <2>2
  <2>4. c.hits[j].value \in Seq(Symbols)
    <3>1. c.hits[j] \in [key : Nat, value : Seq(Symbols)]
      BY <2>1, <2>3, ElementIn
    <3> QED
      BY <3>1
  <2>5. y \o LastLine(c) \in Seq(Symbols)
    BY <2>1, <2>2
  <2>6. SubSeq(buffer, 1, pendingValueBytes) = c.hits[j].value /\ Left(k, y \o LastLine(c))'
    <3> DEFINE value == c.hits[j].value  more == y \o LastLine(c)
    <3>1. /\ value \in Seq(Symbols) /\ more \in Seq(Symbols) /\ pendingValueBytes = Len(value)
          /\ Left(k, (value \o CRLF) \o more)
      BY <2>2, <2>4, <2>5
    <3> HIDE DEF value, more
    <3>2. SubSeq(buffer, 1, pendingValueBytes) = value /\ Left(k, more)'
      BY <1>10, <3>1, ValueTaken
    <3> QED
      BY <3>2 DEF value, more
  <2>7. multilineData' = FirstValues(c, j)
    <3> DEFINE f(i) == c.hits[i].value  i0 == j - 1
    <3>1. /\ multilineData = [i \in 1 .. i0 |-> f(i)] /\ multilineData' = Append(multilineData, f(j))
          /\ i0 \in Nat /\ i0 + 1 = j
      BY <1>2, <2>2, <2>3, <2>6 DEF FirstValues
    <3> HIDE DEF f, i0
    <3>2. Append([i \in 1 .. i0 |-> f(i)], f(i0 + 1)) = [i \in 1 .. i0 + 1 |-> f(i)]
      BY <3>1
    <3> QED
      BY <3>1, <3>2 DEF FirstValues, f
  <2>8. InMulti(k, c)'
    BY <1>12, <2>2, <2>6, <2>7 DEF InMulti
  <2>9. c.kind # "stats" /\ c.kind # "config" /\ c.kind # "single"
    BY <1>7
  <2> QED
    BY <1>1, <1>3, <1>6, <1>11, <2>8, <2>9, ValueGoesOn
<1>8. CASE c.kind = "config"
  <2>1. c.value \in Seq(Symbols) /\ LastLine(c) \in Seq(Symbols)
    BY <1>4, <1>8, Kinds, PartsTyped
  <2>2. /\ ~c.fails /\ pendingValueBytes = Len(c.value) /\ multilineData = <<>>
        /\ foundKeys = <<>> /\ Left(k, (c.value \o CRLF) \o LastLine(c))
    BY <1>5, <1>8, <1>13 DEF Inside, InConfig
  <2>3. SubSeq(buffer, 1, pendingValueBytes) = c.value /\ Left(k, LastLine(c))'
    <3> DEFINE value == c.value  more == LastLine(c)
    <3>1. /\ value \in Seq(Symbols) /\ more \in Seq(Symbols) /\ pendingValueBytes = Len(value)
          /\ Left(k, (value \o CRLF) \o more)
      BY <2>1, <2>2
    <3> HIDE DEF value, more
    <3>2. SubSeq(buffer, 1, pendingValueBytes) = value /\ Left(k, more)'
      BY <1>10, <3>1, ValueTaken
    <3> QED
      BY <3>2 DEF value, more
  <2>4. multilineData' = <<c.value>>
    BY <1>2, <2>2, <2>3
  <2>5. InConfig(k, c)'
    BY <1>12, <2>2, <2>3, <2>4 DEF InConfig
  <2>6. c.kind # "stats" /\ c.kind # "multi" /\ c.kind # "single"
    BY <1>8
  <2> QED
    BY <1>1, <1>3, <1>6, <1>11, <2>5, <2>6, ValueGoesOn
<1>9. c.kind # "stats" /\ c.kind # "single"
  BY <1>5, <1>13 DEF Inside, InStats, InSingle
<1> QED
  BY <1>4, <1>7, <1>8, <1>9, Kinds

LEMMA ReadLineStep ==
    ASSUME TypeInv, TypeInv', NEW k \in 0 .. Len(pipeline), Position(k), ReadLine
    PROVE  k < Len(pipeline) /\ (Position(k)' \/ Position(k + 1)')
<1>1. Len(pipeline) \in Nat /\ k \in Nat
  BY AnswersTyped DEF TypeInv
<1>2. k # Len(pipeline)
  <2>1. SUFFICES ASSUME Ahead = <<>> PROVE FALSE
    BY DEF Position
  <2>2. buffer = <<>>
    BY <2>1 DEF Ahead, TypeInv
  <2>3. LineEnds = {}
    BY <2>2 DEF LineEnds
  <2> QED
    BY <2>3 DEF ReadLine
<1>3. k < Len(pipeline)
  BY <1>1, <1>2
<1>4. pipeline[k + 1] \in Commands
  BY <1>1, <1>3, AnswersTyped DEF TypeInv
<1> QED
  BY <1>3, <1>4, Kinds, SingleStep, ConfigStep, StatsStep, MultiStep

\* A chunk that arrives only moves symbols into the buffer.
LEMMA AheadSame ==
    ASSUME NEW k, Position(k), Ahead' = Ahead,
           UNCHANGED <<commandQueue, currentCommand, foundKeys, multilineData,
                       pendingValueBytes, results, pipeline>>
    PROVE  Position(k)'
<1>1. CASE k < Len(pipeline)
  <2> DEFINE c == pipeline[k + 1]
  <2>1. Inside(k, c)
    BY <1>1 DEF Position
  <2>2. c' = c
    OBVIOUS
  <2> HIDE DEF c
  <2>3. Turn(k)'
    BY <2>1 DEF Inside, Turn, Shifted, Behind
  <2>4. c.kind = "multi" => InMulti(k, c)'
    <3>1. SUFFICES ASSUME InMulti(k, c) PROVE InMulti(k, c)'
      BY <2>1 DEF Inside
    <3> QED
      BY <2>2, <3>1, ZenonT(30) DEF InMulti, Left
  <2>5. c.kind = "stats" => InStats(k, c)'
    BY <2>1, <2>2 DEF Inside, InStats, Left
  <2>6. c.kind = "config" => InConfig(k, c)'
    BY <2>1, <2>2 DEF Inside, InConfig, Left
  <2>7. c.kind = "single" => InSingle(k, c)'
    BY <2>1, <2>2 DEF Inside, InSingle, Left
  <2>8. Inside(k, c)'
    BY <2>2, <2>3, <2>4, <2>5, <2>6, <2>7 DEF Inside
  <2> QED
    BY <1>1, <2>8 DEF Position, c
<1>2. CASE ~(k < Len(pipeline))
  BY <1>2 DEF Position
<1> QED
  BY <1>1, <1>2

LEMMA Halves ==
    ASSUME NEW S, NEW b \in Seq(S), NEW s \in Seq(S), NEW n \in 1 .. Len(s)
    PROVE  /\ b \o SubSeq(s, 1, n) \in Seq(S) /\ SubSeq(s, n + 1, Len(s)) \in Seq(S)
           /\ (b \o SubSeq(s, 1, n)) \o SubSeq(s, n + 1, Len(s)) = b \o s
<1> DEFINE x == SubSeq(s, 1, n)  y == SubSeq(s, n + 1, Len(s))
<1>1. /\ x \in Seq(S) /\ Len(x) = n /\ \A i \in 1 .. n : x[i] = s[i]
  OBVIOUS
<1>2. /\ y \in Seq(S) /\ Len(y) = Len(s) - n /\ \A i \in 1 .. Len(s) - n : y[i] = s[n + i]
  OBVIOUS
<1> HIDE DEF x, y
<1>3. /\ x \o y \in Seq(S) /\ Len(x \o y) = Len(x) + Len(y)
      /\ \A i \in 1 .. Len(x) : (x \o y)[i] = x[i]
      /\ \A i \in 1 .. Len(y) : (x \o y)[Len(x) + i] = y[i]
  <2>1. x \in Seq(S) /\ y \in Seq(S)
    BY <1>1, <1>2
  <2> QED
    BY <2>1, Joined
<1>4. ASSUME NEW i \in 1 .. Len(s) PROVE (x \o y)[i] = s[i]
  <2>1. CASE i <= n
    <3>1. i \in 1 .. n
      BY <2>1
    <3>2. x[i] = s[i] /\ i \in 1 .. Len(x)
      BY <1>1, <3>1
    <3> QED
      BY <1>3, <3>2
  <2>2. CASE i > n
    <3>1. i - n \in 1 .. Len(s) - n /\ n + (i - n) = i
      BY <2>2
    <3>2. y[i - n] = s[i] /\ i - n \in 1 .. Len(y)
      BY <1>2, <3>1
    <3>3. (x \o y)[Len(x) + (i - n)] = y[i - n]
      BY <1>3, <3>2
    <3>4. Len(x) + (i - n) = i
      BY <1>1, <3>1
    <3> QED
      BY <3>2, <3>3, <3>4
  <2>3. i <= n \/ i > n
    OBVIOUS
  <2> QED
    BY <2>1, <2>2, <2>3
<1>5. x \o y = s
  <2>1. Len(x \o y) = Len(s)
    BY <1>1, <1>2, <1>3
  <2> QED
    BY <1>3, <1>4, <2>1, SeqEqual
<1>6. (b \o x) \o y = b \o s
  <2>1. Grouped(b, x, y)
    BY <1>1, <1>2, Grouping
  <2> QED
    BY <1>5, <2>1 DEF Grouped
<1>7. b \o x \in Seq(S)
  BY <1>1, Joined
<1> QED
  BY <1>2, <1>6, <1>7 DEF x, y

LEMMA DeliverStep ==
    ASSUME TypeInv, NEW n, Deliver(n)
    PROVE  TypeInv' /\ Ahead' = Ahead
<1>1. /\ n \in 1 .. Len(incoming) /\ buffer' = buffer \o SubSeq(incoming, 1, n)
      /\ incoming' = SubSeq(incoming, n + 1, Len(incoming)) /\ pipeline' = pipeline
  BY DEF Deliver
<1>2. /\ buffer \o SubSeq(incoming, 1, n) \in Seq(Symbols)
      /\ SubSeq(incoming, n + 1, Len(incoming)) \in Seq(Symbols)
      /\ (buffer \o SubSeq(incoming, 1, n)) \o SubSeq(incoming, n + 1, Len(incoming))
            = buffer \o incoming
  <2>1. buffer \in Seq(Symbols) /\ incoming \in Seq(Symbols) /\ n \in 1 .. Len(incoming)
    BY <1>1 DEF TypeInv
  <2> QED
    BY <2>1, Halves, ZenonT(30)
<1> QED
  BY <1>1, <1>2 DEF TypeInv, Ahead

-----------------------------------------------------------------------------
\* The invariant

LEMMA ParserInit == Init => ParserInv
<1> SUFFICES ASSUME Init PROVE ParserInv
  OBVIOUS
<1> DEFINE A == Answers(pipeline)
<1>1. /\ pipeline \in Seq(Commands) /\ Len(pipeline) \in Nat /\ A \in Seq(Seq(Symbols))
      /\ Stream(pipeline) = FlattenSeq(A)
  BY AnswersTyped DEF Init
<1> HIDE DEF A
<1>2. FlattenSeq(A) \in Seq(Symbols) /\ Before(A, 0) = <<>>
  BY <1>1, BeforeAll
<1>3. TypeInv
  BY <1>1, <1>2 DEF Init, TypeInv
<1>4. FlattenSeq(A) = Before(A, 0) \o Ahead
  <2>1. <<>> \o FlattenSeq(A) = FlattenSeq(A)
    BY <1>2
  <2>2. buffer = <<>> /\ incoming = FlattenSeq(A)
    BY <1>1 DEF Init
  <2>3. Ahead = FlattenSeq(A)
    BY <2>1, <2>2 DEF Ahead
  <2> QED
    BY <1>2, <2>1, <2>3
<1>5. AtStart(0)
  <2>1. commandQueue = SubSeq(pipeline, 0 + 1, Len(pipeline))
    BY <1>1 DEF Init
  <2>2. results = [i \in 1 .. 0 |-> Meaning(pipeline[i])]
    BY DEF Init
  <2> QED
    BY <1>4, <2>1, <2>2 DEF AtStart, Init, A
<1>6. Position(0)
  BY <1>1, <1>3, <1>5, Fresh DEF Started
<1>7. Stuck
  <2>1. LineEnds = {}
    BY DEF Init, LineEnds
  <2> QED
    BY <2>1 DEF Init, Stuck, ValueComplete
<1> QED
  BY <1>1, <1>3, <1>6, <1>7 DEF ParserInv

LEMMA ParserNext == ParserInv /\ [Next]_vars => ParserInv'
<1> SUFFICES ASSUME ParserInv, [Next]_vars PROVE ParserInv'
  OBVIOUS
<1>1. TypeInv /\ (~running => Stuck) /\ Len(pipeline) \in Nat
  BY AnswersTyped DEF ParserInv, TypeInv
<1>2. PICK k \in 0 .. Len(pipeline) : Position(k)
  BY DEF ParserInv
<1>3. ASSUME NEW n, Deliver(n) PROVE ParserInv'
  <2>1. TypeInv' /\ Ahead' = Ahead
    BY <1>1, <1>3, DeliverStep
  <2>2. running' = TRUE /\ UNCHANGED <<commandQueue, currentCommand, foundKeys, multilineData,
                                       pendingValueBytes, results, pipeline>>
    BY <1>3 DEF Deliver
  <2>3. Position(k)'
    BY <1>2, <2>1, <2>2, AheadSame
  <2> QED
    BY <1>2, <2>1, <2>2, <2>3 DEF ParserInv
<1>4. ASSUME ReadValue PROVE ParserInv'
  <2>1. TypeInv'
    <3>1. pendingValueBytes + 2 \in Nat
      BY <1>1, <1>2, AwaitsNat
    <3>2. Rest(pendingValueBytes + 2) \in Seq(Symbols)
      BY <1>1, <3>1, RestTyped
    <3> QED
      BY <1>1, <1>4, <3>2 DEF ReadValue, TypeInv
  <2>2. Position(k)'
    BY <1>1, <1>2, <1>4, ReadValueStep
  <2>3. running' /\ pipeline' = pipeline
    BY <1>4 DEF ReadValue
  <2> QED
    BY <1>2, <2>1, <2>2, <2>3 DEF ParserInv
<1>5. ASSUME ReadLine PROVE ParserInv'
  <2>1. TypeInv'
    <3>1. LineEnd + 1 \in Nat
      BY <1>1, <1>5, LineEndIs DEF ReadLine
    <3>2. Rest(LineEnd + 1) \in Seq(Symbols)
      BY <1>1, <3>1, RestTyped
    <3> QED
      BY <1>1, <1>5, <3>2 DEF ReadLine, TypeInv
  <2>2. k < Len(pipeline) /\ (Position(k)' \/ Position(k + 1)')
    BY <1>1, <1>2, <1>5, <2>1, ReadLineStep
  <2>3. running' /\ pipeline' = pipeline
    BY <1>5 DEF ReadLine
  <2>4. k \in 0 .. Len(pipeline') /\ k + 1 \in 0 .. Len(pipeline')
    BY <1>1, <1>2, <2>2, <2>3
  <2> QED
    BY <2>1, <2>2, <2>3, <2>4 DEF ParserInv
<1>6. ASSUME Break PROVE ParserInv'
  <2>1. UNCHANGED <<commandQueue, currentCommand, foundKeys, multilineData,
                    pendingValueBytes, buffer, incoming, results, pipeline>>
    BY <1>6 DEF Break
  <2>2. TypeInv' /\ Ahead' = Ahead
    BY <1>1, <2>1 DEF TypeInv, Ahead
  <2>3. Position(k)'
    BY <1>2, <2>1, <2>2, AheadSame
  <2>4. Stuck'
    BY <1>6, <2>1 DEF Break, Stuck, ValueComplete, LineEnds
  <2> QED
    BY <1>2, <2>1, <2>2, <2>3, <2>4 DEF ParserInv
<1>7. ASSUME UNCHANGED vars PROVE ParserInv'
  <2>1. UNCHANGED <<commandQueue, currentCommand, foundKeys, multilineData,
                    pendingValueBytes, buffer, running, incoming, results, pipeline>>
    BY <1>7 DEF vars
  <2>2. TypeInv' /\ Ahead' = Ahead
    BY <1>1, <2>1 DEF TypeInv, Ahead
  <2>3. Position(k)'
    BY <1>2, <2>1, <2>2, AheadSame
  <2>4. ~running' => Stuck'
    BY <1>1, <2>1 DEF Stuck, ValueComplete, LineEnds
  <2> QED
    BY <1>2, <2>1, <2>2, <2>3, <2>4 DEF ParserInv
<1> QED
  BY <1>3, <1>4, <1>5, <1>6, <1>7 DEF Next

-----------------------------------------------------------------------------
\* An answer that has arrived is read to its end

\* The last symbol of the answer to command n has been delivered.
Whole(n) == Len(Before(Answers(pipeline), n)) + Len(incoming) <= Len(FlattenSeq(Answers(pipeline)))

LEMMA AllThere ==
    ASSUME TypeInv, NEW k \in 0 .. Len(pipeline), k < Len(pipeline), Whole(k + 1),
           NEW todo \in Seq(Symbols), Left(k, todo)
    PROVE  Len(todo) <= Len(buffer)
<1> DEFINE A == Answers(pipeline)
<1>1. buffer \in Seq(Symbols) /\ incoming \in Seq(Symbols) /\ Len(pipeline) \in Nat
      /\ A \in Seq(Seq(Symbols)) /\ Len(A) = Len(pipeline)
  BY AnswersTyped DEF TypeInv
<1> HIDE DEF A
<1>2. Before(A, k + 1) \in Seq(Symbols)
  <2>1. k + 1 \in 0 .. Len(A)
    BY <1>1
  <2> QED
    BY <1>1, <2>1, BeforeStep
<1>3. PICK rest \in Seq(Symbols) :
         /\ buffer \o incoming = todo \o rest
         /\ FlattenSeq(A) = Before(A, k + 1) \o rest
  BY DEF Left, Ahead, A
<1> DEFINE b == Before(A, k + 1)
<1>4. Len(b \o rest) = Len(b) + Len(rest) /\ Len(b) \in Nat
  <2>1. b \in Seq(Symbols)
    BY <1>2
  <2> HIDE DEF b
  <2> QED
    BY <1>3, <2>1, Joined
<1>5. Len(b) + Len(incoming) <= Len(b \o rest)
  BY <1>3 DEF Whole, A
<1> HIDE DEF b
<1>6. Len(buffer) + Len(incoming) = Len(todo) + Len(rest)
  <2>1. Len(buffer \o incoming) = Len(buffer) + Len(incoming)
    BY <1>1, Joined
  <2>2. Len(todo \o rest) = Len(todo) + Len(rest)
    BY <1>3, Joined
  <2> QED
    BY <1>3, <2>1, <2>2
<1>7. Len(buffer) \in Nat /\ Len(incoming) \in Nat /\ Len(todo) \in Nat /\ Len(rest) \in Nat
  BY <1>1, <1>3
<1> QED
  BY <1>4, <1>5, <1>6, <1>7

LEMMA LineThere ==
    ASSUME TypeInv, NEW k, NEW u \in Seq(Symbols), NEW symbol \in Symbols,
           Left(k, u \o Text(symbol)), Len(u \o Text(symbol)) <= Len(buffer)
    PROVE  LineEnds # {}
<1> DEFINE t == Text(symbol)  a == u \o t
<1>1. t \in Seq(Symbols) /\ Len(t) = 3 /\ t[2] = CR /\ t[3] = LF
  BY TextTyped DEF Text
<1> HIDE DEF t
<1>2. /\ a \in Seq(Symbols) /\ Len(a) = Len(u) + 3
      /\ a[Len(u) + 2] = CR /\ a[Len(u) + 3] = LF
  <2>1. /\ u \o t \in Seq(Symbols) /\ Len(u \o t) = Len(u) + Len(t)
        /\ \A i \in 1 .. Len(t) : (u \o t)[Len(u) + i] = t[i]
    <3>1. t \in Seq(Symbols)
      BY <1>1
    <3> QED
      BY <3>1, Joined
  <2>2. 2 \in 1 .. Len(t) /\ 3 \in 1 .. Len(t)
    BY <1>1
  <2> QED
    BY <1>1, <2>1, <2>2
<1>3. Left(k, a) /\ Len(a) <= Len(buffer)
  BY DEF t
<1> HIDE DEF a
<1>4. PICK rest \in Seq(Symbols) : buffer \o incoming = a \o rest
  BY <1>3 DEF Left, Ahead
<1>5. \A i \in 1 .. Len(a) : i <= Len(buffer) => buffer[i] = a[i]
  BY <1>2, <1>4, BufferStart
<1>6. Len(u) \in Nat /\ Len(buffer) \in Nat
  BY DEF TypeInv
<1> DEFINE n == Len(u) + 2
<1>7. n \in 1 .. Len(a) /\ n + 1 \in 1 .. Len(a) /\ n \in 1 .. Len(buffer) - 1
      /\ n <= Len(buffer) /\ n + 1 <= Len(buffer) /\ n + 1 = Len(u) + 3
  BY <1>2, <1>3, <1>6
<1>8. buffer[n] = CR /\ buffer[n + 1] = LF
  BY <1>2, <1>5, <1>7
<1> HIDE DEF n
<1> QED
  BY <1>7, <1>8 DEF LineEnds

LEMMA ValueThere ==
    ASSUME TypeInv, NEW value \in Seq(Symbols), NEW z \in Seq(Symbols), value # <<>>,
           pendingValueBytes = Len(value), Len((value \o CRLF) \o z) <= Len(buffer)
    PROVE  ValueComplete
<1> DEFINE a == value \o CRLF
<1>1. a \in Seq(Symbols) /\ Len(a) = Len(value) + Len(CRLF) /\ Len(CRLF) = 2
  <2>1. CRLF \in Seq(Symbols)
    BY LineEndsTyped
  <2> QED
    BY <2>1, Joined DEF CRLF
<1> HIDE DEF a
<1>2. Len(a \o z) = Len(a) + Len(z)
  BY <1>1, Joined, ZenonT(30)
<1>3. Len(a \o z) <= Len(buffer)
  BY DEF a
<1>4. Len(value) \in Nat /\ Len(z) \in Nat /\ Len(value) # 0 /\ Len(buffer) \in Nat
  BY DEF TypeInv
<1>5. /\ pendingValueBytes = Len(value) /\ Len(a) = Len(value) + 2
      /\ Len(a) + Len(z) <= Len(buffer)
  BY <1>1, <1>2, <1>3
<1>6. pendingValueBytes > 0 /\ Len(buffer) >= pendingValueBytes + 2
  BY <1>4, <1>5
<1> QED
  BY <1>6 DEF ValueComplete

\* A line that is all that is left.
LEMMA OnlyLine ==
    ASSUME TypeInv, NEW k \in 0 .. Len(pipeline), k < Len(pipeline), Whole(k + 1),
           NEW u \in Seq(Symbols), NEW symbol \in Symbols, Left(k, u \o Text(symbol))
    PROVE  LineEnds # {}
<1>1. u \o Text(symbol) \in Seq(Symbols)
  BY TextTyped
<1> QED
  BY <1>1, AllThere, LineThere

LEMMA LastLineThere ==
    ASSUME TypeInv, NEW k \in 0 .. Len(pipeline), k < Len(pipeline), Whole(k + 1),
           NEW c, c.fails \in BOOLEAN, NEW u \in Seq(Symbols), Left(k, u \o LastLine(c))
    PROVE  LineEnds # {}
<1>1. PICK symbol \in Symbols : LastLine(c) = Text(symbol)
  BY LastLineTyped
<1>2. Left(k, u \o Text(symbol))
  BY <1>1
<1> QED
  BY <1>1, <1>2, OnlyLine

LEMMA NoneBefore ==
    ASSUME NEW k, NEW z \in Seq(Symbols), Left(k, z)
    PROVE  Left(k, <<>> \o z)
<1>1. <<>> \o z = z
  OBVIOUS
<1> QED
  BY <1>1

LEMMA Moves ==
    ASSUME TypeInv, NEW k \in 0 .. Len(pipeline), k < Len(pipeline), Position(k), Whole(k + 1)
    PROVE  ~Stuck
<1> SUFFICES ValueComplete \/ (pendingValueBytes = 0 /\ LineEnds # {})
  BY DEF Stuck
<1>1. Len(pipeline) \in Nat
  BY AnswersTyped DEF TypeInv
<1>2. pipeline[k + 1] \in Commands
  BY <1>1, AnswersTyped DEF TypeInv
<1>3. PICK c \in Commands : c = pipeline[k + 1]
  BY <1>2
<1>4. Inside(k, c)
  BY <1>3 DEF Position
<1>5. CASE c.kind = "multi"
  <2>1. /\ c.hits \in Seq([key : Nat, value : Seq(Symbols)]) /\ LastLine(c) \in Seq(Symbols)
        /\ c.fails \in BOOLEAN /\ CRLF \in Seq(Symbols)
    BY <1>5, Kinds, PartsTyped, LineEndsTyped
  <2>2. PICK j \in 0 .. Len(c.hits), y \in Seq(Symbols) :
           \/ /\ pendingValueBytes = 0
              /\ Left(k, y \o LastLine(c)) \/ Left(k, CRLF \o (y \o LastLine(c)))
           \/ /\ j > 0 /\ c.hits[j].value # <<>>
              /\ pendingValueBytes = Len(c.hits[j].value)
              /\ Left(k, (c.hits[j].value \o CRLF) \o (y \o LastLine(c)))
    <3>1. InMulti(k, c)
      BY <1>4, <1>5 DEF Inside
    <3> QED
      BY <3>1 DEF InMulti
  <2>3. CASE pendingValueBytes = 0 /\ Left(k, y \o LastLine(c))
    <3>1. c.fails \in BOOLEAN /\ y \in Seq(Symbols) /\ Left(k, y \o LastLine(c))
      BY <2>1, <2>2, <2>3
    <3>2. LineEnds # {}
      BY <3>1, LastLineThere
    <3> QED
      BY <2>3, <3>2
  <2>4. CASE pendingValueBytes = 0 /\ Left(k, CRLF \o (y \o LastLine(c)))
    <3>1. Left(k, (CRLF \o y) \o LastLine(c))
      BY <2>1, <2>2, <2>4, LeftGrouped
    <3>2. CRLF \o y \in Seq(Symbols)
      BY <2>1, <2>2
    <3>3. c.fails \in BOOLEAN
      BY <2>1
    <3> DEFINE u == CRLF \o y
    <3>4. u \in Seq(Symbols) /\ Left(k, u \o LastLine(c))
      BY <3>1, <3>2
    <3> HIDE DEF u
    <3>5. LineEnds # {}
      BY <3>3, <3>4, LastLineThere
    <3> QED
      BY <2>4, <3>5
  <2>5. CASE /\ j > 0 /\ c.hits[j].value # <<>>
             /\ pendingValueBytes = Len(c.hits[j].value)
             /\ Left(k, (c.hits[j].value \o CRLF) \o (y \o LastLine(c)))
    <3> DEFINE value == c.hits[j].value  more == y \o LastLine(c)
    <3>1. value \in Seq(Symbols)
      <4>1. j \in DOMAIN c.hits
        BY <2>1, <2>2, <2>5
      <4>2. c.hits[j] \in [key : Nat, value : Seq(Symbols)]
        BY <2>1, <4>1, ElementIn
      <4> QED
        BY <4>2
    <3>2. more \in Seq(Symbols)
      BY <2>1, <2>2
    <3>3. Left(k, (value \o CRLF) \o more) /\ pendingValueBytes = Len(value) /\ value # <<>>
      BY <2>5
    <3> HIDE DEF value, more
    <3>4. (value \o CRLF) \o more \in Seq(Symbols)
      BY <2>1, <3>1, <3>2
    <3>5. Len((value \o CRLF) \o more) <= Len(buffer)
      BY <3>3, <3>4, AllThere
    <3> QED
      BY <3>1, <3>2, <3>3, <3>5, ValueThere
  <2> QED
    BY <2>2, <2>3, <2>4, <2>5
<1>6. CASE c.kind = "stats"
  <2>1. c.fails \in BOOLEAN
    BY <1>6, Kinds
  <2>2. pendingValueBytes = 0 /\ \E y \in Seq(Symbols) : Left(k, y \o LastLine(c))
    BY <1>4, <1>6 DEF Inside, InStats
  <2> QED
    BY <2>1, <2>2, LastLineThere
<1>7. CASE c.kind = "config"
  <2>1. /\ c.value \in Seq(Symbols) /\ c.value # <<>> /\ LastLine(c) \in Seq(Symbols)
        /\ c.fails \in BOOLEAN /\ CRLF \in Seq(Symbols)
    BY <1>7, Kinds, PartsTyped, LineEndsTyped
  <2>2. \/ pendingValueBytes = 0 /\ Left(k, Wire(c))
        \/ pendingValueBytes = Len(c.value) /\ Left(k, (c.value \o CRLF) \o LastLine(c))
        \/ pendingValueBytes = 0 /\ Left(k, LastLine(c))
    BY <1>4, <1>7 DEF Inside, InConfig
  <2>3. CASE pendingValueBytes = 0 /\ Left(k, LastLine(c))
    <3> DEFINE u == <<>>
    <3>1. u \in Seq(Symbols) /\ Left(k, u \o LastLine(c))
      BY <2>1, <2>3, NoneBefore
    <3>2. c.fails \in BOOLEAN
      BY <2>1
    <3> HIDE DEF u
    <3>3. LineEnds # {}
      BY <3>1, <3>2, LastLineThere
    <3> QED
      BY <2>3, <3>3
  <2>4. CASE pendingValueBytes = 0 /\ Left(k, Wire(c))
    <3>1. CASE c.fails
      BY <1>7, <2>3, <2>4, <3>1, WireIs
    <3>2. CASE ~c.fails
      <4> DEFINE symbol == [word |-> "CONFIG", key |-> 0, bytes |-> Len(c.value)]
                 t == Text(symbol)
                 a == c.value \o CRLF
      <4>1. symbol \in Symbols
        BY <2>1, BodyTyped
      <4>2. t \in Seq(Symbols) /\ a \in Seq(Symbols)
        BY <2>1, <4>1, TextTyped
      <4>3. Left(k, t \o (a \o LastLine(c)))
        BY <1>7, <2>4, <3>2, WireIs
      <4> HIDE DEF symbol, t, a
      <4>4. Left(k, (t \o a) \o LastLine(c)) /\ t \o a \in Seq(Symbols)
        BY <2>1, <4>2, <4>3, LeftGrouped
      <4> DEFINE u == t \o a
      <4>5. u \in Seq(Symbols) /\ Left(k, u \o LastLine(c)) /\ c.fails \in BOOLEAN
        BY <2>1, <4>4
      <4> HIDE DEF u
      <4>6. LineEnds # {}
        BY <4>5, LastLineThere
      <4> QED
        BY <2>4, <4>6
    <3> QED
      BY <2>1, <3>1, <3>2
  <2>5. CASE pendingValueBytes = Len(c.value) /\ Left(k, (c.value \o CRLF) \o LastLine(c))
    <3>1. (c.value \o CRLF) \o LastLine(c) \in Seq(Symbols)
      BY <2>1
    <3>2. Len((c.value \o CRLF) \o LastLine(c)) <= Len(buffer)
      BY <2>5, <3>1, AllThere
    <3> QED
      BY <2>1, <2>5, <3>2, ValueThere
  <2> QED
    BY <2>2, <2>3, <2>4, <2>5
<1>8. CASE c.kind = "single"
  <2>1. [word |-> c.line] \in Symbols /\ Wire(c) = Text([word |-> c.line])
    BY <1>8, Kinds, WireIs DEF Symbols
  <2>2. pendingValueBytes = 0 /\ Left(k, Text([word |-> c.line]))
    BY <1>4, <1>8, <2>1 DEF Inside, InSingle
  <2>3. Left(k, <<>> \o Text([word |-> c.line])) /\ <<>> \in Seq(Symbols)
    BY <2>1, <2>2, TextTyped, NoneBefore
  <2> QED
    BY <2>1, <2>2, <2>3, OnlyLine
<1> QED
  BY <1>5, <1>6, <1>7, <1>8, Kinds

LEMMA WholeBefore ==
    ASSUME TypeInv, NEW n \in 0 .. Len(pipeline), NEW m \in 0 .. Len(pipeline), m <= n, Whole(n)
    PROVE  Whole(m)
<1> DEFINE A == Answers(pipeline)  s == SubSeq(A, 1, n)
<1>1. A \in Seq(Seq(Symbols)) /\ Len(A) = Len(pipeline) /\ Len(pipeline) \in Nat
  BY AnswersTyped DEF TypeInv
<1> HIDE DEF A
<1>2. s \in Seq(Seq(Symbols)) /\ Len(s) = n /\ SubSeq(s, 1, m) = SubSeq(A, 1, m)
  <2>1. /\ s \in Seq(Seq(Symbols)) /\ Len(s) = n /\ \A i \in 1 .. n : s[i] = A[i]
    BY <1>1
  <2>2. /\ SubSeq(A, 1, m) \in Seq(Seq(Symbols)) /\ Len(SubSeq(A, 1, m)) = m
        /\ \A i \in 1 .. m : SubSeq(A, 1, m)[i] = A[i]
    BY <1>1
  <2> HIDE DEF s
  <2>3. /\ SubSeq(s, 1, m) \in Seq(Seq(Symbols)) /\ Len(SubSeq(s, 1, m)) = m
        /\ \A i \in 1 .. m : SubSeq(s, 1, m)[i] = s[i]
    BY <2>1
  <2>4. \A i \in 1 .. m : i \in 1 .. n
    BY <1>1
  <2>5. SubSeq(s, 1, m) = SubSeq(A, 1, m)
    BY <2>1, <2>2, <2>3, <2>4, SeqEqual
  <2> QED
    BY <2>1, <2>5
<1>3. FlattenSeq(s) = Before(A, n) /\ Before(s, m) = Before(A, m)
  BY <1>2 DEF Before
<1> HIDE DEF s
<1>4. PICK x \in Seq(Symbols) : FlattenSeq(s) = Before(s, m) \o x
  <2>1. m \in 0 .. Len(s)
    BY <1>1, <1>2
  <2> QED
    BY <1>2, <2>1, BeforeIsPrefix
<1>5. Before(A, m) \in Seq(Symbols)
  <2>1. m \in 0 .. Len(A)
    BY <1>1
  <2> QED
    BY <1>1, <2>1, BeforeStep
<1> DEFINE b == Before(A, m)
<1>6. b \in Seq(Symbols) /\ Before(A, n) = b \o x
  BY <1>3, <1>4, <1>5
<1> HIDE DEF b
<1>7. Len(Before(A, n)) = Len(b) + Len(x) /\ Len(b) \in Nat /\ Len(x) \in Nat
  BY <1>4, <1>6, Joined
<1>8. FlattenSeq(A) \in Seq(Symbols) /\ incoming \in Seq(Symbols)
  BY <1>1, BeforeAll DEF TypeInv
<1>9. Len(FlattenSeq(A)) \in Nat /\ Len(incoming) \in Nat
  BY <1>8
<1>10. Len(Before(A, n)) + Len(incoming) <= Len(FlattenSeq(A))
  BY DEF Whole, A
<1>11. Len(b) + Len(incoming) <= Len(FlattenSeq(A))
  BY <1>7, <1>9, <1>10
<1> QED
  BY <1>11 DEF Whole, A, b

\* Somewhere inside an answer there is something left of it.
LEMMA SomethingLeft ==
    ASSUME TypeInv, NEW k \in 0 .. Len(pipeline), k < Len(pipeline), Position(k)
    PROVE  \E todo \in Seq(Symbols) : Left(k, todo)
<1>1. Len(pipeline) \in Nat
  BY AnswersTyped DEF TypeInv
<1>2. pipeline[k + 1] \in Commands
  BY <1>1, AnswersTyped DEF TypeInv
<1>3. PICK c \in Commands : c = pipeline[k + 1]
  BY <1>2
<1>4. Inside(k, c)
  BY <1>3 DEF Position
<1>5. Wire(c) \in Seq(Symbols) /\ CRLF \in Seq(Symbols)
      /\ (c.kind # "single" => LastLine(c) \in Seq(Symbols))
  BY WireIs, LineEndsTyped, PartsTyped
<1>6. CASE c.kind = "multi"
  <2>1. c.hits \in Seq([key : Nat, value : Seq(Symbols)]) /\ LastLine(c) \in Seq(Symbols)
    BY <1>5, <1>6, Kinds
  <2>2. PICK j \in 0 .. Len(c.hits), y \in Seq(Symbols) :
           \/ Left(k, y \o LastLine(c)) \/ Left(k, CRLF \o (y \o LastLine(c)))
           \/ j > 0 /\ Left(k, (c.hits[j].value \o CRLF) \o (y \o LastLine(c)))
    <3>1. InMulti(k, c)
      BY <1>4, <1>6 DEF Inside
    <3> QED
      BY <3>1 DEF InMulti
  <2>3. y \o LastLine(c) \in Seq(Symbols)
    BY <2>1, <2>2
  <2>4. CRLF \o (y \o LastLine(c)) \in Seq(Symbols)
    BY <1>5, <2>3
  <2>5. ASSUME j > 0 PROVE (c.hits[j].value \o CRLF) \o (y \o LastLine(c)) \in Seq(Symbols)
    <3>1. j \in DOMAIN c.hits
      BY <2>1, <2>2, <2>5
    <3>2. c.hits[j] \in [key : Nat, value : Seq(Symbols)]
      BY <2>1, <3>1, ElementIn
    <3>3. c.hits[j].value \in Seq(Symbols)
      BY <3>2
    <3> QED
      BY <1>5, <2>3, <3>3
  <2> QED
    BY <2>2, <2>3, <2>4, <2>5
<1>7. CASE c.kind = "stats"
  <2>1. PICK y \in Seq(Symbols) : Left(k, y \o LastLine(c))
    BY <1>4, <1>7 DEF Inside, InStats
  <2>2. y \o LastLine(c) \in Seq(Symbols)
    BY <1>5, <1>7, <2>1
  <2> QED
    BY <2>1, <2>2
<1>8. CASE c.kind = "config"
  <2>1. Left(k, Wire(c)) \/ Left(k, (c.value \o CRLF) \o LastLine(c)) \/ Left(k, LastLine(c))
    BY <1>4, <1>8 DEF Inside, InConfig
  <2>2. c.value \in Seq(Symbols) /\ LastLine(c) \in Seq(Symbols)
    BY <1>5, <1>8, Kinds
  <2>3. (c.value \o CRLF) \o LastLine(c) \in Seq(Symbols)
    BY <1>5, <2>2
  <2> QED
    BY <1>5, <2>1, <2>2, <2>3
<1>9. CASE c.kind = "single"
  BY <1>4, <1>5, <1>9 DEF Inside, InSingle
<1> QED
  BY <1>6, <1>7, <1>8, <1>9, Kinds

\* The answers read are among those that have arrived.
LEMMA WholeRead ==
    ASSUME TypeInv, NEW k \in 0 .. Len(pipeline), Position(k)
    PROVE  Whole(k)
<1> DEFINE A == Answers(pipeline)
<1>1. A \in Seq(Seq(Symbols)) /\ Len(A) = Len(pipeline) /\ Len(pipeline) \in Nat
      /\ buffer \in Seq(Symbols) /\ incoming \in Seq(Symbols)
  BY AnswersTyped DEF TypeInv
<1> HIDE DEF A
<1>2. CASE k = Len(pipeline)
  <2>1. buffer \o incoming = <<>>
    BY <1>2 DEF Position, Ahead
  <2>2. Len(buffer \o incoming) = Len(buffer) + Len(incoming)
    BY <1>1, Joined
  <2>3. Len(incoming) = 0
    <3>1. Len(buffer \o incoming) = 0
      BY <2>1
    <3>2. Len(buffer) \in Nat /\ Len(incoming) \in Nat
      BY <1>1
    <3> QED
      BY <2>2, <3>1, <3>2
  <2>4. FlattenSeq(A) = Before(A, k) /\ FlattenSeq(A) \in Seq(Symbols)
    BY <1>1, <1>2, BeforeAll
  <2>5. Len(Before(A, k)) \in Nat /\ Len(FlattenSeq(A)) = Len(Before(A, k))
    BY <2>4
  <2>6. Len(Before(A, k)) + Len(incoming) <= Len(FlattenSeq(A))
    BY <2>3, <2>5
  <2> QED
    BY <2>6 DEF Whole, A
<1>3. CASE k < Len(pipeline)
  <2>1. A[k + 1] = Wire(pipeline[k + 1]) /\ k + 1 \in 1 .. Len(pipeline)
    BY <1>1, <1>3, AnswersTyped DEF TypeInv, A
  <2>2. A[k + 1] \in Seq(Symbols) /\ Before(A, k) \in Seq(Symbols)
        /\ Before(A, k + 1) = Before(A, k) \o A[k + 1]
    <3>1. k \in 0 .. Len(A) /\ k < Len(A)
      BY <1>1, <1>3
    <3> QED
      BY <1>1, <3>1, BeforeStep
  <2>3. PICK todo : todo \in Seq(Symbols) /\ Left(k, todo)
    BY <1>3, SomethingLeft
  <2>4. PICK done \in Seq(Symbols) : A[k + 1] = done \o todo
    BY <2>1, <2>3 DEF Left
  <2>5. PICK rest \in Seq(Symbols) : /\ buffer \o incoming = todo \o rest
                                     /\ FlattenSeq(A) = Before(A, k + 1) \o rest
    BY <2>3 DEF Left, Ahead, A
  <2> DEFINE a == A[k + 1]  b == Before(A, k)  d == Before(A, k + 1)
  <2>13. d \in Seq(Symbols)
    <3>1. k + 1 \in 0 .. Len(A)
      BY <1>1, <1>3
    <3> QED
      BY <1>1, <3>1, BeforeStep
  <2>6. a \in Seq(Symbols) /\ b \in Seq(Symbols) /\ d = b \o a /\ a = done \o todo
        /\ FlattenSeq(A) = d \o rest
    BY <2>2, <2>4, <2>5
  <2> HIDE DEF a, b, d
  <2>7. Len(a) = Len(done) + Len(todo) /\ Len(done) \in Nat /\ Len(todo) \in Nat
    BY <2>3, <2>4, <2>6, Joined
  <2>8. Len(d) = Len(b) + Len(a) /\ Len(b) \in Nat
    BY <2>6, Joined
  <2>9. Len(FlattenSeq(A)) = Len(d) + Len(rest) /\ Len(rest) \in Nat
    <3>1. rest \in Seq(Symbols)
      BY <2>5
    <3>2. Len(d \o rest) = Len(d) + Len(rest) /\ Len(rest) \in Nat
      BY <2>13, <3>1, Joined
    <3> QED
      BY <2>6, <3>2
  <2>10. Len(buffer) + Len(incoming) = Len(todo) + Len(rest)
    <3>1. Len(buffer \o incoming) = Len(buffer) + Len(incoming)
      BY <1>1, Joined
    <3>2. Len(todo \o rest) = Len(todo) + Len(rest)
      BY <2>3, <2>5, Joined
    <3> QED
      BY <2>5, <3>1, <3>2
  <2>11. Len(buffer) \in Nat /\ Len(incoming) \in Nat
    BY <1>1
  <2>12. Len(b) + Len(incoming) <= Len(FlattenSeq(A))
    BY <2>7, <2>8, <2>9, <2>10, <2>11
  <2> QED
    BY <2>12 DEF Whole, A, b
<1> QED
  BY <1>1, <1>2, <1>3

LEMMA ParserPrompt == ParserInv => ExactAndPrompt
<1> SUFFICES ASSUME ParserInv, ~running
             PROVE  LET n == CHOOSE n \in Arrived : \A m \in Arrived : m <= n IN
                    results = [i \in 1 .. n |-> Meaning(pipeline[i])]
  BY DEF ExactAndPrompt
<1>1. TypeInv /\ Stuck
  BY DEF ParserInv
<1>2. PICK k \in 0 .. Len(pipeline) : Position(k)
  BY DEF ParserInv
<1>3. Len(pipeline) \in Nat /\ k \in Nat
  BY <1>1, AnswersTyped DEF TypeInv
<1>4. Arrived = {n \in 0 .. Len(pipeline) : Whole(n)}
  <2>1. /\ Stream(pipeline) = FlattenSeq(Answers(pipeline))
        /\ \A n \in 0 .. Len(pipeline) :
              Stream(SubSeq(pipeline, 1, n)) = Before(Answers(pipeline), n)
    BY <1>1, AnswersTyped DEF TypeInv
  <2> QED
    BY <2>1 DEF Arrived, Whole
<1>5. k \in Arrived
  BY <1>1, <1>2, <1>4, WholeRead
<1>6. ASSUME NEW m \in Arrived PROVE m <= k
  <2>1. m \in 0 .. Len(pipeline) /\ Whole(m)
    BY <1>4, <1>6
  <2>2. SUFFICES ASSUME m > k PROVE FALSE
    BY <1>3, <2>1
  <2>3. k < Len(pipeline) /\ k + 1 \in 0 .. Len(pipeline) /\ k + 1 <= m
    BY <1>3, <2>1, <2>2
  <2>4. Whole(k + 1)
    BY <1>1, <2>1, <2>3, WholeBefore
  <2> QED
    BY <1>1, <1>2, <2>3, <2>4, Moves
<1> DEFINE n == CHOOSE n \in Arrived : \A m \in Arrived : m <= n
<1>7. n \in Arrived /\ \A m \in Arrived : m <= n
  BY <1>5, <1>6
<1>8. n = k
  <2>1. n \in 0 .. Len(pipeline)
    BY <1>4, <1>7
  <2> HIDE DEF n
  <2> QED
    BY <1>3, <1>5, <1>6, <1>7, <2>1
<1> QED
  BY <1>2, <1>8 DEF Position

\* However the server's answers are cut into chunks, and whatever the values
\* contain, every promise settles with what the server meant, and as soon as the
\* last byte of its answer is there: handleData() leaves no whole answer in the
\* buffer (node.ts 804-1019).
THEOREM ExactAndPromptHolds == Spec => []ExactAndPrompt
  BY ParserInit, ParserNext, ParserPrompt, PTL DEF Spec

=============================================================================
