--------------------------- MODULE SaslNodeProofs ---------------------------
(***************************************************************************)
(* Theorems about SaslNode, for any number of sockets and requests, all    *)
(* operations, values, deltas and word sizes.                              *)
(***************************************************************************)
EXTENDS SaslNode, SequenceTheorems, TLAPS

USE MaxSocketsAssumption, MaxRequestsAssumption, BaseAssumption

-----------------------------------------------------------------------------
\* Words

Halves == 0 .. Base - 1           \* what a word of a body holds
Bodies == [is : {"body"}, number : Halves]

\* Numbers survive being written as words and read again.
LEMMA WordsOfNumbers ==
    ASSUME NEW ns \in Seq(Halves)
    PROVE  /\ Words(ns) \in Seq(Bodies) /\ Len(Words(ns)) = Len(ns)
           /\ \A i \in DOMAIN ns : Words(ns)[i] = Number(ns[i])
           /\ Numbers(Words(ns)) = ns
<1>1. DOMAIN ns = 1 .. Len(ns) /\ Len(ns) \in Nat
  OBVIOUS
<1>2. \A i \in 1 .. Len(ns) : Number(ns[i]) \in Bodies /\ Number(ns[i]).number = ns[i]
  BY DEF Number, Bodies
<1>3. Words(ns) = [i \in 1 .. Len(ns) |-> Number(ns[i])]
  BY <1>1 DEF Words
<1>4. Words(ns) \in Seq(Bodies) /\ DOMAIN Words(ns) = 1 .. Len(ns) /\ Len(Words(ns)) = Len(ns)
  BY <1>1, <1>2, <1>3
<1>5. Numbers(Words(ns)) = [i \in 1 .. Len(ns) |-> ns[i]]
  BY <1>2, <1>3, <1>4 DEF Numbers
<1>6. [i \in 1 .. Len(ns) |-> ns[i]] = ns
  BY <1>1
<1> QED
  BY <1>1, <1>3, <1>4, <1>5, <1>6

\* A 64-bit number is read as it was written (binary-protocol.ts 261-277).
LEMMA SplitAndJoin ==
    ASSUME NEW n \in 0 .. Base * Base - 1
    PROVE  Split64(n) \in Seq(Halves) /\ n \div Base \in Halves /\ n % Base \in Halves
           /\ (n \div Base) * Base + (n % Base) = n
<1>1. n \in Nat /\ Base \in Nat /\ Base > 0 /\ n < Base * Base
  OBVIOUS
<1>2. n \div Base \in Nat /\ n % Base \in 0 .. Base - 1 /\ n = Base * (n \div Base) + (n % Base)
  BY <1>1
<1>3. n \div Base < Base
  <2> DEFINE h == n \div Base
  <2>1. h \in Nat /\ Base * h <= n
    BY <1>2
  <2> HIDE DEF h
  <2>2. ~(h >= Base)
    <3> SUFFICES ASSUME h >= Base PROVE FALSE
      OBVIOUS
    <3>1. Base * h >= Base * Base
      BY <1>1, <2>1
    <3> QED
      BY <1>1, <2>1, <3>1
  <2> QED
    BY <2>1, <2>2 DEF h
<1> QED
  BY <1>2, <1>3 DEF Split64, Halves

-----------------------------------------------------------------------------
\* Packets

OpCodes == AllOps \cup {"auth"}

\* A packet has the length its header states, and a body of numbers.
IsPacket(p, of, opcode) ==
    /\ p \in Seq(WordsType) /\ Len(p) >= HeaderSize
    /\ p[1].is = "first" /\ p[1].of = of /\ p[1].opcode = opcode
    /\ p[2].is = "second" /\ Len(p) = HeaderSize + p[2].totalBodyLength
    /\ p[1].extrasLength \in Nat /\ p[1].keyLength \in Nat /\ p[2].totalBodyLength \in Nat
    /\ p[1].extrasLength + p[1].keyLength <= p[2].totalBodyLength
    /\ \A j \in DOMAIN p : j > HeaderSize => p[j] \in Bodies

\* What a reader finds in it.
Extras(p) == Numbers(Between(p, 0, p[1].extrasLength))
Payload(p) == Numbers(Between(p, p[1].extrasLength + p[1].keyLength, p[2].totalBodyLength))

LEMMA HeaderWords ==
    ASSUME NEW of \in Listeners, NEW opcode \in OpCodes, NEW status \in Statuses,
           NEW e \in Nat, NEW k \in Nat, NEW t \in Nat
    PROVE  /\ SerializeHeader(of, opcode, status, e, k, t) \in Seq(WordsType)
           /\ Len(SerializeHeader(of, opcode, status, e, k, t)) = 2
           /\ SerializeHeader(of, opcode, status, e, k, t)[1] =
                  [is |-> "first", of |-> of, opcode |-> opcode, status |-> status,
                   extrasLength |-> e, keyLength |-> k]
           /\ SerializeHeader(of, opcode, status, e, k, t)[2] =
                  [is |-> "second", totalBodyLength |-> t]
<1> DEFINE a == [is |-> "first", of |-> of, opcode |-> opcode, status |-> status,
                 extrasLength |-> e, keyLength |-> k]
           b == [is |-> "second", totalBodyLength |-> t]
<1>1. a \in WordsType /\ b \in WordsType
  BY DEF WordsType, OpCodes
<1> HIDE DEF a, b
<1>2. <<a, b>> \in Seq(WordsType) /\ Len(<<a, b>>) = 2 /\ <<a, b>>[1] = a /\ <<a, b>>[2] = b
  BY <1>1
<1> QED
  BY <1>2 DEF SerializeHeader, a, b

LEMMA Associative ==
    ASSUME NEW S, NEW a \in Seq(S), NEW b \in Seq(S), NEW c \in Seq(S)
    PROVE  a \o (b \o c) = (a \o b) \o c
  BY ConcatAssociative

Regrouped(a, b, c, d) == a \o (b \o c \o d) = a \o b \o c \o d

LEMMA FourJoined ==
    ASSUME NEW a \in Seq(WordsType), NEW b \in Seq(WordsType), NEW c \in Seq(WordsType),
           NEW d \in Seq(WordsType)
    PROVE  Regrouped(a, b, c, d)
<1> DEFINE w == b \o c
<1>1. w \in Seq(WordsType)
  OBVIOUS
<1>2. a \o w = (a \o b) \o c
  BY Associative
<1> HIDE DEF w
<1>3. a \o (w \o d) = (a \o w) \o d
  BY <1>1, Associative, SMTT(30)
<1> QED
  BY <1>2, <1>3 DEF w, Regrouped

LEMMA Rest ==
    ASSUME NEW S, NEW w \in Seq(S), NEW k \in 0 .. Len(w)
    PROVE  /\ SubSeq(w, k + 1, Len(w)) \in Seq(S) /\ Len(SubSeq(w, k + 1, Len(w))) = Len(w) - k
           /\ \A i \in 1 .. Len(w) - k : SubSeq(w, k + 1, Len(w))[i] = w[k + i]
  OBVIOUS

LEMMA Joined ==
    ASSUME NEW S, NEW a \in Seq(S), NEW b \in Seq(S)
    PROVE  /\ a \o b \in Seq(S) /\ Len(a \o b) = Len(a) + Len(b)
           /\ \A i \in 1 .. Len(a) : (a \o b)[i] = a[i]
           /\ \A i \in 1 .. Len(b) : (a \o b)[Len(a) + i] = b[i]
  OBVIOUS

\* What a packet is built of comes back from it.
LEMMA WordsOfBoth ==
    ASSUME NEW a \in Seq(Halves), NEW b \in Seq(Halves)
    PROVE  Words(a \o b) = Words(a) \o Words(b)
<1>1. PICK x \in Seq(Bodies), y \in Seq(Bodies) : x = Words(a) /\ y = Words(b)
  BY WordsOfNumbers
<1>2. /\ Len(x) = Len(a) /\ \A i \in 1 .. Len(a) : x[i] = Number(a[i])
      /\ Len(y) = Len(b) /\ \A i \in 1 .. Len(b) : y[i] = Number(b[i])
  BY <1>1, WordsOfNumbers
<1> DEFINE c == a \o b
<1>3. /\ c \in Seq(Halves) /\ Len(c) = Len(a) + Len(b) /\ Len(a) \in Nat /\ Len(b) \in Nat
      /\ \A i \in 1 .. Len(a) : c[i] = a[i]
      /\ \A i \in 1 .. Len(b) : c[Len(a) + i] = b[i]
  OBVIOUS
<1> HIDE DEF c
<1>4. PICK z \in Seq(Bodies) : z = Words(c)
  BY <1>3, WordsOfNumbers
<1>5. Len(z) = Len(c) /\ \A i \in 1 .. Len(c) : z[i] = Number(c[i])
  BY <1>3, <1>4, WordsOfNumbers
<1>6. x \o y \in Seq(Bodies) /\ Len(x \o y) = Len(z)
  BY <1>1, <1>2, <1>3, <1>4, <1>5
<1>7. ASSUME NEW i \in 1 .. Len(z) PROVE (x \o y)[i] = z[i]
  <2>1. CASE i <= Len(a)
    BY <1>2, <1>3, <1>5, <1>7, <2>1
  <2>2. CASE i > Len(a)
    <3>1. i - Len(a) \in 1 .. Len(b) /\ Len(a) + (i - Len(a)) = i
      BY <1>3, <1>5, <1>7, <2>2
    <3>2. c[i] = b[i - Len(a)] /\ z[i] = Number(c[i]) /\ y[i - Len(a)] = Number(b[i - Len(a)])
      BY <1>2, <1>3, <1>5, <1>7, <3>1
    <3>3. (x \o y)[i] = y[i - Len(a)]
      BY <1>2, <1>3, <1>6, <1>7, <2>2
    <3> QED
      BY <3>2, <3>3
  <2>3. i <= Len(a) \/ i > Len(a)
    BY <1>3, <1>4, <1>7
  <2> QED
    BY <2>1, <2>2, <2>3
<1>8. x \o y = z
  BY <1>6, <1>7, SeqEqual
<1> QED
  BY <1>1, <1>4, <1>8 DEF c

\* The parts of a concatenation of three.
LEMMA ThreeParts ==
    ASSUME NEW S, NEW a \in Seq(S), NEW b \in Seq(S), NEW c \in Seq(S),
           NEW s \in Seq(S), s = a \o b \o c
    PROVE  /\ Len(s) = Len(a) + Len(b) + Len(c)
           /\ SubSeq(s, 1, Len(a)) = a
           /\ SubSeq(s, Len(a) + Len(b) + 1, Len(a) + Len(b) + Len(c)) = c
<1>1. /\ Len(s) = Len(a) + Len(b) + Len(c)
      /\ Len(a) \in Nat /\ Len(b) \in Nat /\ Len(c) \in Nat
      /\ \A i \in 1 .. Len(a) : s[i] = a[i]
      /\ \A i \in 1 .. Len(c) : s[Len(a) + Len(b) + i] = c[i]
  OBVIOUS
<1>2. ASSUME NEW n \in Nat, NEW d \in Seq(S), NEW m \in Nat, m = Len(d), n + m <= Len(s),
             \A i \in 1 .. m : s[n + i] = d[i]
      PROVE  SubSeq(s, n + 1, n + m) = d
  <2>1. SubSeq(s, n + 1, n + m) \in Seq(S) /\ Len(SubSeq(s, n + 1, n + m)) = m
    BY <1>1, <1>2
  <2>2. \A i \in 1 .. m : SubSeq(s, n + 1, n + m)[i] = s[n + i]
    BY <1>1, <1>2, SMTT(30)
  <2> QED
    BY <1>2, <2>1, <2>2, SeqEqual
<1>3. SubSeq(s, 0 + 1, 0 + Len(a)) = a
  <2>1. 0 + Len(a) <= Len(s) /\ \A i \in 1 .. Len(a) : s[0 + i] = a[i]
    BY <1>1
  <2> QED
    BY <1>1, <1>2, <2>1
<1>4. SubSeq(s, Len(a) + Len(b) + 1, Len(a) + Len(b) + Len(c)) = c
  <2> DEFINE n == Len(a) + Len(b)
  <2>1. n \in Nat /\ n + Len(c) <= Len(s) /\ \A i \in 1 .. Len(c) : s[n + i] = c[i]
    BY <1>1
  <2> HIDE DEF n
  <2>2. SubSeq(s, n + 1, n + Len(c)) = c
    BY <1>1, <1>2, <2>1
  <2> QED
    BY <2>2 DEF n
<1> QED
  BY <1>1, <1>3, <1>4

\* A header and the words of a body, and what lies between two places of it.
LEMMA BodyOfPacket ==
    ASSUME NEW h \in Seq(WordsType), Len(h) = HeaderSize, NEW body \in Seq(Halves)
    PROVE  LET p == h \o Words(body) IN
           /\ p \in Seq(WordsType) /\ Len(p) = 2 + Len(body) /\ p[1] = h[1] /\ p[2] = h[2]
           /\ \A j \in 3 .. Len(p) : p[j] \in Bodies
           /\ \A i, j \in 0 .. Len(body) : i <= j =>
                  Numbers(Between(p, i, j)) = SubSeq(body, i + 1, j)
<1>1. PICK w \in Seq(WordsType) : w = Words(body)
  <2>1. Bodies \subseteq WordsType
    BY DEF Bodies, WordsType, Halves
  <2>2. Seq(Bodies) \subseteq Seq(WordsType)
    BY <2>1
  <2> QED
    BY <2>2, WordsOfNumbers
<1>2. /\ Len(w) = Len(body) /\ Len(body) \in Nat
      /\ \A i \in 1 .. Len(body) : w[i] = Number(body[i]) /\ Number(body[i]) \in Bodies
  <2>1. \A i \in 1 .. Len(body) : Number(body[i]) \in Bodies
    BY DEF Number, Bodies
  <2> QED
    BY <1>1, <2>1, WordsOfNumbers
<1> DEFINE p == h \o w
<1>3. /\ p \in Seq(WordsType) /\ Len(p) = Len(h) + Len(w)
      /\ \A i \in 1 .. Len(h) : p[i] = h[i]
      /\ \A i \in 1 .. Len(w) : p[Len(h) + i] = w[i]
  <2> HIDE DEF p
  <2>1. p = h \o w
    BY DEF p
  <2>2. p \in Seq(WordsType) /\ Len(p) = Len(h) + Len(w)
    BY <2>1, Joined
  <2>3. \A i \in 1 .. Len(h) : p[i] = h[i]
    BY <2>1, Joined
  <2>4. \A i \in 1 .. Len(w) : p[Len(h) + i] = w[i]
    BY <2>1, Joined
  <2> QED
    BY <2>2, <2>3, <2>4
<1> HIDE DEF p
<1>4. /\ p \in Seq(WordsType) /\ Len(p) = 2 + Len(body) /\ p[1] = h[1] /\ p[2] = h[2]
      /\ \A i \in 1 .. Len(body) : p[2 + i] = w[i]
  BY <1>2, <1>3 DEF HeaderSize
<1>5. ASSUME NEW j \in 3 .. Len(p) PROVE p[j] \in Bodies
  <2>1. j - 2 \in 1 .. Len(body) /\ 2 + (j - 2) = j
    BY <1>2, <1>4, <1>5
  <2> QED
    BY <1>2, <1>4, <2>1
<1>6. ASSUME NEW i \in 0 .. Len(body), NEW j \in 0 .. Len(body), i <= j
      PROVE  Numbers(Between(p, i, j)) = SubSeq(body, i + 1, j)
  <2> DEFINE u == SubSeq(p, 2 + i + 1, 2 + j)
             v == SubSeq(body, i + 1, j)
  <2>1. u \in Seq(WordsType) /\ Len(u) = j - i /\ \A k \in 1 .. j - i : u[k] = p[2 + (i + k)]
    BY <1>2, <1>4, <1>6
  <2>2. v \in Seq(Halves) /\ Len(v) = j - i /\ \A k \in 1 .. j - i : v[k] = body[i + k]
    BY <1>2, <1>6
  <2> HIDE DEF u, v
  <2>3. ASSUME NEW k \in 1 .. j - i PROVE u[k].number = v[k]
    <3>1. i + k \in 1 .. Len(body)
      BY <1>2, <1>6, <2>3
    <3>2. u[k] = Number(body[i + k])
      BY <1>2, <1>4, <2>1, <2>3, <3>1
    <3> QED
      BY <2>2, <2>3, <3>2 DEF Number
  <2>4. Numbers(u) = [k \in 1 .. j - i |-> v[k]]
    BY <1>6, <2>1, <2>3 DEF Numbers
  <2>5. v = [k \in 1 .. j - i |-> v[k]]
    BY <1>6, <2>2
  <2> QED
    BY <2>4, <2>5 DEF u, v, Between, HeaderSize
<1> QED
  BY <1>1, <1>4, <1>5, <1>6 DEF p

\* A packet built of a header, extras, a key and a value is one, and is taken
\* apart into what it was built of.
Build(of, opcode, status, extras, key, value) ==
    SerializeHeader(of, opcode, status, Len(extras), Len(key), Len(extras) + Len(key) + Len(value))
        \o Words(extras) \o Words(key) \o Words(value)

IsBuilt(p, of, opcode, status, extras, key, value) ==
    /\ IsPacket(p, of, opcode) /\ p[1].status = status
    /\ p[1].extrasLength = Len(extras) /\ p[1].keyLength = Len(key)
    /\ p[2].totalBodyLength = Len(extras) + Len(key) + Len(value)
    /\ Extras(p) = extras /\ Payload(p) = value
    /\ Numbers(SubSeq(p, 3, Len(p))) = extras \o key \o value
    /\ Len(p) = 2 + Len(extras) + Len(key) + Len(value)

LEMMA BuiltPacket ==
    ASSUME NEW of \in Listeners, NEW opcode \in OpCodes, NEW status \in Statuses,
           NEW extras \in Seq(Halves), NEW key \in Seq(Halves), NEW value \in Seq(Halves)
    PROVE  IsBuilt(Build(of, opcode, status, extras, key, value), of, opcode, status,
                   extras, key, value)
<1> DEFINE t == Len(extras) + Len(key) + Len(value)
           h == SerializeHeader(of, opcode, status, Len(extras), Len(key), t)
           body == extras \o key \o value
           p == h \o Words(body)
<1>1. /\ Len(extras) \in Nat /\ Len(key) \in Nat /\ Len(value) \in Nat /\ t \in Nat
      /\ body \in Seq(Halves) /\ Len(body) = t
  OBVIOUS
<1>2. /\ SubSeq(body, 1, Len(extras)) = extras
      /\ SubSeq(body, Len(extras) + Len(key) + 1, t) = value
      /\ SubSeq(body, 1, t) = body
  <2>1. /\ SubSeq(body, 1, Len(extras)) = extras
        /\ SubSeq(body, Len(extras) + Len(key) + 1, t) = value
    BY <1>1, ThreeParts
  <2> HIDE DEF body, t
  <2>2. SubSeq(body, 1, Len(body)) = body
    <3>1. /\ SubSeq(body, 1, Len(body)) \in Seq(Halves)
          /\ Len(SubSeq(body, 1, Len(body))) = Len(body)
          /\ \A i \in 1 .. Len(body) : SubSeq(body, 1, Len(body))[i] = body[i]
      BY <1>1
    <3> QED
      BY <1>1, <3>1, SeqEqual
  <2> QED
    BY <1>1, <2>1, <2>2
<1>3. Build(of, opcode, status, extras, key, value) = p
  <2>1. Words(body) = Words(extras) \o Words(key) \o Words(value)
    <3>1. extras \o key \in Seq(Halves)
      OBVIOUS
    <3>2. Words(body) = Words(extras \o key) \o Words(value)
      BY <3>1, WordsOfBoth
    <3>3. Words(extras \o key) = Words(extras) \o Words(key)
      BY WordsOfBoth
    <3> QED
      BY <3>2, <3>3
  <2>2. /\ h \in Seq(WordsType) /\ Words(extras) \in Seq(WordsType)
        /\ Words(key) \in Seq(WordsType) /\ Words(value) \in Seq(WordsType)
    <3>1. Bodies \subseteq WordsType
      BY DEF Bodies, WordsType, Halves
    <3>2. Seq(Bodies) \subseteq Seq(WordsType)
      BY <3>1
    <3>3. h \in Seq(WordsType)
      BY <1>1, HeaderWords
    <3> QED
      BY <3>2, <3>3, WordsOfNumbers
  <2>4. Build(of, opcode, status, extras, key, value)
            = h \o Words(extras) \o Words(key) \o Words(value)
    BY DEF Build
  <2> HIDE DEF h
  <2>5. h \o (Words(extras) \o Words(key) \o Words(value))
            = h \o Words(extras) \o Words(key) \o Words(value)
    <3> DEFINE x == Words(extras)
               y == Words(key)
               z == Words(value)
    <3>1. x \in Seq(WordsType) /\ y \in Seq(WordsType) /\ z \in Seq(WordsType)
          /\ h \in Seq(WordsType)
      BY <2>2
    <3> HIDE DEF x, y, z
    <3>2. Regrouped(h, x, y, z)
      BY <3>1, FourJoined
    <3> QED
      BY <3>2 DEF Regrouped, x, y, z
  <2> QED
    BY <2>1, <2>4, <2>5
<1>4. /\ h \in Seq(WordsType) /\ Len(h) = 2
      /\ h[1] = [is |-> "first", of |-> of, opcode |-> opcode, status |-> status,
                 extrasLength |-> Len(extras), keyLength |-> Len(key)]
      /\ h[2] = [is |-> "second", totalBodyLength |-> t]
  BY <1>1, HeaderWords
<1> HIDE DEF h, body
<1>5. /\ p \in Seq(WordsType) /\ Len(p) = 2 + Len(body) /\ p[1] = h[1] /\ p[2] = h[2]
      /\ \A j \in 3 .. Len(p) : p[j] \in Bodies
      /\ \A i, j \in 0 .. Len(body) : i <= j =>
                  Numbers(Between(p, i, j)) = SubSeq(body, i + 1, j)
  BY <1>1, <1>4, BodyOfPacket DEF HeaderSize
<1>5a. ASSUME NEW i \in Nat, NEW j \in Nat, NEW k, i <= j, j <= Len(body), k = i + 1
       PROVE  Numbers(Between(p, i, j)) = SubSeq(body, k, j)
  <2>1. i \in 0 .. Len(body) /\ j \in 0 .. Len(body)
    BY <1>1, <1>5a
  <2> QED
    BY <1>5, <1>5a, <2>1
<1>5b. /\ p[1].extrasLength = Len(extras) /\ p[1].keyLength = Len(key)
       /\ p[2].totalBodyLength = t /\ p[1].status = status
  BY <1>4, <1>5
<1> HIDE DEF p
<1>6. IsPacket(p, of, opcode)
  <2>1. \A j \in DOMAIN p : j > 2 => j \in 3 .. Len(p)
    BY <1>5
  <2>2. /\ p[1].extrasLength \in Nat /\ p[1].keyLength \in Nat /\ p[2].totalBodyLength \in Nat
        /\ p[1].extrasLength + p[1].keyLength <= p[2].totalBodyLength
    BY <1>1, <1>5b
  <2> QED
    BY <1>1, <1>4, <1>5, <2>1, <2>2, SMTT(30) DEF IsPacket, HeaderSize
<1>7. Extras(p) = extras
  <2>1. Numbers(Between(p, 0, Len(extras))) = SubSeq(body, 1, Len(extras))
    <3>1. 0 \in Nat /\ 0 <= Len(extras) /\ Len(extras) <= Len(body) /\ 1 = 0 + 1
      BY <1>1
    <3> QED
      BY <1>1, <1>5a, <3>1
  <2> QED
    BY <1>2, <1>5b, <2>1 DEF Extras
<1>8. Payload(p) = value
  <2>1. Numbers(Between(p, Len(extras) + Len(key), t)) = SubSeq(body, Len(extras) + Len(key) + 1, t)
    <3> DEFINE n == Len(extras) + Len(key)
    <3>1. n \in Nat /\ t \in Nat /\ n <= t /\ t <= Len(body)
      BY <1>1
    <3> HIDE DEF n, t
    <3>2. Numbers(Between(p, n, t)) = SubSeq(body, n + 1, t)
      BY <1>5a, <3>1
    <3> QED
      BY <3>2 DEF n
  <2> QED
    BY <1>2, <1>5b, <2>1 DEF Payload
<1>9. Numbers(SubSeq(p, 3, Len(p))) = body
  <2>1. Numbers(Between(p, 0, t)) = SubSeq(body, 1, t)
    <3>1. 0 \in Nat /\ 0 <= t /\ t <= Len(body) /\ 1 = 0 + 1 /\ t \in Nat
      BY <1>1
    <3> HIDE DEF t
    <3> QED
      BY <1>5a, <3>1
  <2>2. Between(p, 0, t) = SubSeq(p, 3, Len(p))
    <3> HIDE DEF t
    <3> QED
      BY <1>1, <1>5 DEF Between, HeaderSize
  <2>3. SubSeq(body, 1, t) = body
    BY <1>2
  <2> HIDE DEF t
  <2> QED
    BY <2>1, <2>2, <2>3
<1>10. Len(p) = 2 + Len(extras) + Len(key) + Len(value)
  BY <1>1, <1>5
<1>11. Build(of, opcode, status, extras, key, value) = p
  BY <1>3 DEF body
<1>12. IsBuilt(p, of, opcode, status, extras, key, value)
  BY <1>5b, <1>6, <1>7, <1>8, <1>9, <1>10 DEF body, IsBuilt
<1> QED
  BY <1>11, <1>12

-----------------------------------------------------------------------------
\* The packets of the model, as they are built

LEMMA NoWords ==
    /\ <<>> \in Seq(Halves) /\ Len(<<>>) = 0
    /\ \A x \in Seq(WordsType) : x \o Words(<<>>) = x
<1>1. <<>> \in Seq(Halves) /\ Len(<<>>) = 0
  OBVIOUS
<1>2. Words(<<>>) \in Seq(Bodies) /\ Len(Words(<<>>)) = 0
  BY <1>1, WordsOfNumbers
<1>3. Words(<<>>) = <<>>
  BY <1>2, EmptySeq
<1>4. \A x \in Seq(WordsType) : x \o <<>> = x
  OBVIOUS
<1> QED
  BY <1>1, <1>3, <1>4

LEMMA WordsTyped ==
    ASSUME NEW ns \in Seq(Halves)
    PROVE  Words(ns) \in Seq(WordsType) /\ Len(Words(ns)) = Len(ns) /\ Len(ns) \in Nat
<1>1. Bodies \subseteq WordsType
  BY DEF Bodies, WordsType, Halves
<1>2. Seq(Bodies) \subseteq Seq(WordsType)
  BY <1>1
<1>3. Len(ns) \in Nat
  OBVIOUS
<1> QED
  BY <1>2, <1>3, WordsOfNumbers

LEMMA SmallWords ==
    /\ <<0>> \in Seq(Halves) /\ Len(<<0>>) = 1
    /\ <<1>> \in Seq(Halves) /\ Len(<<1>>) = 1
    /\ <<0, 0>> \in Seq(Halves) /\ Len(<<0, 0>>) = 2
    /\ <<0, 1>> \in Seq(Halves) /\ Len(<<0, 1>>) = 2
  BY DEF Halves

\* A packet without extras, without a value, or without a key.
LEMMA Shapes ==
    ASSUME NEW of \in Listeners, NEW opcode \in OpCodes, NEW status \in Statuses
    PROVE  /\ \A k, v \in Seq(Halves) : Build(of, opcode, status, <<>>, k, v)
              = SerializeHeader(of, opcode, status, 0, Len(k), Len(k) + Len(v)) \o Words(k) \o Words(v)
           /\ \A e, k \in Seq(Halves) : Build(of, opcode, status, e, k, <<>>)
              = SerializeHeader(of, opcode, status, Len(e), Len(k), Len(e) + Len(k)) \o Words(e) \o Words(k)
           /\ \A k \in Seq(Halves) : Build(of, opcode, status, <<>>, k, <<>>)
              = SerializeHeader(of, opcode, status, 0, Len(k), Len(k)) \o Words(k)
           /\ \A e, v \in Seq(Halves) : Build(of, opcode, status, e, <<>>, v)
              = SerializeHeader(of, opcode, status, Len(e), 0, Len(e) + Len(v)) \o Words(e) \o Words(v)
           /\ \A e \in Seq(Halves) : Build(of, opcode, status, e, <<>>, <<>>)
              = SerializeHeader(of, opcode, status, Len(e), 0, Len(e)) \o Words(e)
           /\ Build(of, opcode, status, <<>>, <<>>, <<>>)
              = SerializeHeader(of, opcode, status, 0, 0, 0)
<1> DEFINE h(x, y, t) == SerializeHeader(of, opcode, status, x, y, t)
           o == <<>>
           B(a, b, c) == Build(of, opcode, status, a, b, c)
<1>1. \A ns \in Seq(Halves) : Words(ns) \in Seq(WordsType) /\ Len(ns) \in Nat
  BY WordsTyped
<1>2. \A x, y, t \in Nat : h(x, y, t) \in Seq(WordsType)
  BY HeaderWords
<1>3. Len(o) = 0 /\ \A x \in Seq(WordsType) : x \o Words(o) = x
  BY NoWords
<1>4. \A x, y \in Seq(WordsType) : x \o y \in Seq(WordsType)
  BY Joined
<1> HIDE DEF h, o, B
<1>5. ASSUME NEW k \in Seq(Halves), NEW v \in Seq(Halves)
      PROVE  B(o, k, v) = h(0, Len(k), Len(k) + Len(v)) \o Words(k) \o Words(v)
  <2>1. Len(k) + Len(v) = 0 + Len(k) + Len(v) /\ 0 = Len(o) /\ Len(k) = Len(k)
    BY <1>1, <1>3
  <2>2. B(o, k, v) = h(0, Len(k), Len(k) + Len(v)) \o Words(o) \o Words(k) \o Words(v)
    BY <2>1 DEF B, Build, h
  <2>3. h(0, Len(k), Len(k) + Len(v)) \in Seq(WordsType)
    BY <1>1, <1>2
  <2> QED
    BY <1>3, <2>2, <2>3
<1>6. ASSUME NEW e \in Seq(Halves), NEW k \in Seq(Halves)
      PROVE  B(e, k, o) = h(Len(e), Len(k), Len(e) + Len(k)) \o Words(e) \o Words(k)
  <2>1. Len(e) + Len(k) = Len(e) + Len(k) + Len(o) /\ Len(e) = Len(e) /\ Len(k) = Len(k)
    BY <1>1, <1>3
  <2>2. B(e, k, o) = h(Len(e), Len(k), Len(e) + Len(k)) \o Words(e) \o Words(k) \o Words(o)
    BY <2>1 DEF B, Build, h
  <2>3. h(Len(e), Len(k), Len(e) + Len(k)) \in Seq(WordsType)
    BY <1>1, <1>2
  <2>4. h(Len(e), Len(k), Len(e) + Len(k)) \o Words(e) \in Seq(WordsType)
    BY <1>1, <1>4, <2>3
  <2>5. h(Len(e), Len(k), Len(e) + Len(k)) \o Words(e) \o Words(k) \in Seq(WordsType)
    BY <1>1, <1>4, <2>4
  <2> QED
    BY <1>3, <2>2, <2>3, <2>4, <2>5
<1>7. ASSUME NEW k \in Seq(Halves)
      PROVE  B(o, k, o) = h(0, Len(k), Len(k)) \o Words(k)
  <2>1. Len(k) = 0 + Len(k) + Len(o) /\ 0 = Len(o) /\ Len(k) = Len(k)
    BY <1>1, <1>3
  <2>2. B(o, k, o) = h(0, Len(k), Len(k)) \o Words(o) \o Words(k) \o Words(o)
    BY <2>1 DEF B, Build, h
  <2>3. h(0, Len(k), Len(k)) \in Seq(WordsType)
    BY <1>1, <1>2
  <2>4. h(0, Len(k), Len(k)) \o Words(k) \in Seq(WordsType)
    BY <1>1, <1>4, <2>3
  <2> QED
    BY <1>3, <2>2, <2>3, <2>4
<1>8. ASSUME NEW e \in Seq(Halves), NEW v \in Seq(Halves)
      PROVE  B(e, o, v) = h(Len(e), 0, Len(e) + Len(v)) \o Words(e) \o Words(v)
  <2>1. Len(e) + Len(v) = Len(e) + 0 + Len(v) /\ Len(e) = Len(e) /\ 0 = Len(o)
    BY <1>1, <1>3
  <2>2. B(e, o, v) = h(Len(e), 0, Len(e) + Len(v)) \o Words(e) \o Words(o) \o Words(v)
    BY <2>1 DEF B, Build, h
  <2>3. h(Len(e), 0, Len(e) + Len(v)) \in Seq(WordsType)
    BY <1>1, <1>2
  <2>4. h(Len(e), 0, Len(e) + Len(v)) \o Words(e) \in Seq(WordsType)
    BY <1>1, <1>4, <2>3
  <2> QED
    BY <1>3, <2>2, <2>3, <2>4
<1>9. ASSUME NEW e \in Seq(Halves)
      PROVE  B(e, o, o) = h(Len(e), 0, Len(e)) \o Words(e)
  <2>1. Len(e) = Len(e) + 0 + Len(o) /\ Len(e) = Len(e) /\ 0 = Len(o)
    BY <1>1, <1>3
  <2>2. B(e, o, o) = h(Len(e), 0, Len(e)) \o Words(e) \o Words(o) \o Words(o)
    BY <2>1 DEF B, Build, h
  <2>3. h(Len(e), 0, Len(e)) \in Seq(WordsType)
    BY <1>1, <1>2
  <2>4. h(Len(e), 0, Len(e)) \o Words(e) \in Seq(WordsType)
    BY <1>1, <1>4, <2>3
  <2> QED
    BY <1>3, <2>2, <2>3, <2>4
<1>10. B(o, o, o) = h(0, 0, 0)
  <2>1. 0 = 0 + 0 + Len(o) /\ 0 = Len(o) /\ 0 = Len(o)
    BY <1>1, <1>3
  <2>2. B(o, o, o) = h(0, 0, 0) \o Words(o) \o Words(o) \o Words(o)
    BY <2>1 DEF B, Build, h
  <2>3. h(0, 0, 0) \in Seq(WordsType)
    BY <1>1, <1>2
  <2> QED
    BY <1>3, <2>2, <2>3
<1> QED
  BY <1>5, <1>6, <1>7, <1>8, <1>9, <1>10 DEF h, o, B

\* The packet of a request says what was asked for.
LEMMA RequestPacket ==
    ASSUME NEW r \in Requests, NEW q \in Asked, q.op # "text"
    PROVE  LET p == Packet(r, q) IN
           /\ IsPacket(p, r, q.op) /\ Payload(p) = q.value
           /\ q.op \in CounterOps =>
                  /\ Extras(p)[1] * Base + Extras(p)[2] = q.delta
                  /\ q.delta \in 0 .. Base * Base - 1
<1>1. /\ r \in Listeners /\ q.op \in AllOps /\ q.op \in OpCodes /\ "success" \in Statuses
      /\ q.value \in Seq(Halves)
      /\ q.op \notin StoreOps \cup ConcatOps => q.value = <<>>
      /\ q.op \in CounterOps => q.delta \in 0 .. Base * Base - 1
      /\ Key \in Seq(Halves) /\ Len(Key) = 1
  <2>1. q.op \in StoreOps \cup ConcatOps => q.value \in Seq(Halves)
    BY WordsAssumption DEF Asked, Halves
  <2>2. q.op \notin StoreOps \cup ConcatOps => q.value = <<>> /\ q.value \in Seq(Halves)
    BY NoWords DEF Asked
  <2>3. q.op \in AllOps
    BY OpsAssumption DEF Asked
  <2>4. q.op \in CounterOps => q.delta \in 0 .. Base * Base - 1
    BY WordsAssumption DEF Asked
  <2>5. r \in Listeners /\ "success" \in Statuses /\ q.op \in OpCodes
    BY <2>3 DEF Listeners, Statuses, OpCodes
  <2>6. Key \in Seq(Halves) /\ Len(Key) = 1
    BY SmallWords DEF Key
  <2> QED
    BY <2>1, <2>2, <2>3, <2>4, <2>5, <2>6
<1>2. PICK op \in OpCodes : op = q.op
  BY <1>1
<1> DEFINE B(e, k, v) == Build(r, op, "success", e, k, v)
           H(x, y, t) == SerializeHeader(r, op, "success", x, y, t)
<1>3. /\ \A k, v \in Seq(Halves) : B(<<>>, k, v) = H(0, Len(k), Len(k) + Len(v)) \o Words(k) \o Words(v)
      /\ \A e, k \in Seq(Halves) : B(e, k, <<>>) = H(Len(e), Len(k), Len(e) + Len(k))
                                                      \o Words(e) \o Words(k)
      /\ \A k \in Seq(Halves) : B(<<>>, k, <<>>) = H(0, Len(k), Len(k)) \o Words(k)
      /\ \A e \in Seq(Halves) : B(e, <<>>, <<>>) = H(Len(e), 0, Len(e)) \o Words(e)
      /\ B(<<>>, <<>>, <<>>) = H(0, 0, 0)
  <2>1. r \in Listeners /\ "success" \in Statuses
    BY <1>1
  <2> QED
    BY <2>1, Shapes, ZenonT(30)
<1>3a. ASSUME NEW e \in Seq(Halves), NEW k \in Seq(Halves), NEW v \in Seq(Halves)
      PROVE  /\ IsPacket(B(e, k, v), r, op)
             /\ Payload(B(e, k, v)) = v /\ Extras(B(e, k, v)) = e
  BY <1>1, BuiltPacket DEF IsBuilt
<1> HIDE DEF B, H
<1>4. CASE q.op \in StoreOps
  <2>1. Packet(r, q) = BuildStore(r, q.op, Key, q.value)
    BY <1>4 DEF Packet, StoreOps, ConcatOps, CounterOps, KeyOps, BareOps
  <2>2. BuildStore(r, q.op, Key, q.value) = B(<<0, 0>>, Key, q.value)
    BY <1>2, SmallWords DEF B, Build, BuildStore
  <2>4. q.op \notin CounterOps
    BY <1>1, <1>4 DEF StoreOps, ConcatOps, CounterOps, KeyOps, BareOps
  <2>5. IsPacket(B(<<0, 0>>, Key, q.value), r, op) /\ Payload(B(<<0, 0>>, Key, q.value)) = q.value
    <3>1. <<0, 0>> \in Seq(Halves) /\ Key \in Seq(Halves) /\ q.value \in Seq(Halves)
      BY <1>1, NoWords, SmallWords
    <3> QED
      BY <1>3a, <3>1, Zenon
  <2> QED
    BY <1>2, <2>1, <2>2, <2>4, <2>5
<1>5. CASE q.op \in ConcatOps
  <2>1. Packet(r, q) = BuildConcat(r, q.op, Key, q.value)
    BY <1>5 DEF Packet, StoreOps, ConcatOps, CounterOps, KeyOps, BareOps
  <2>2. BuildConcat(r, q.op, Key, q.value) = H(0, Len(Key), Len(Key) + Len(q.value)) \o Words(Key) \o Words(q.value)
    BY <1>2, <1>5 DEF BuildConcat, H
  <2>3. BuildConcat(r, q.op, Key, q.value) = B(<<>>, Key, q.value)
    BY <1>1, <1>3, <2>2
  <2>4. q.op \notin CounterOps
    BY <1>1, <1>5 DEF StoreOps, ConcatOps, CounterOps, KeyOps, BareOps
  <2>5. IsPacket(B(<<>>, Key, q.value), r, op) /\ Payload(B(<<>>, Key, q.value)) = q.value
    <3>1. <<>> \in Seq(Halves) /\ Key \in Seq(Halves) /\ q.value \in Seq(Halves)
      BY <1>1, NoWords, SmallWords
    <3> QED
      BY <1>3a, <3>1, Zenon
  <2> QED
    BY <1>2, <2>1, <2>3, <2>4, <2>5
<1>6. CASE q.op \in CounterOps
  <2>1. Packet(r, q) = BuildCounter(r, q.op, Key, q.delta, 0)
    BY <1>6 DEF Packet, StoreOps, ConcatOps, CounterOps, KeyOps, BareOps
  <2> DEFINE e == Split64(q.delta) \o Split64(0) \o <<0>>
  <2>2. PICK a \in Halves, b \in Halves :
            a = q.delta \div Base /\ b = q.delta % Base /\ a * Base + b = q.delta
    BY <1>1, <1>6, SplitAndJoin
  <2>3. PICK c \in Halves, d \in Halves : c = 0 \div Base /\ d = 0 % Base
    <3>1. 0 \in 0 .. Base * Base - 1
      BY <1>1, <1>6
    <3> QED
      BY <3>1, SplitAndJoin
  <2>4. Split64(q.delta) = <<a, b>> /\ Split64(0) = <<c, d>> /\ 0 \in Halves
    BY <2>2, <2>3 DEF Split64, Halves
  <2>5. /\ <<a, b>> \o <<c, d>> \o <<0>> \in Seq(Halves)
        /\ Len(<<a, b>> \o <<c, d>> \o <<0>>) = 5
        /\ (<<a, b>> \o <<c, d>> \o <<0>>)[1] = a /\ (<<a, b>> \o <<c, d>> \o <<0>>)[2] = b
    BY <2>4
  <2>6. e \in Seq(Halves) /\ Len(e) = 5 /\ e[1] = a /\ e[2] = b
    BY <2>4, <2>5
  <2>7. BuildCounter(r, q.op, Key, q.delta, 0)
            = H(Len(e), Len(Key), Len(e) + Len(Key)) \o Words(e) \o Words(Key)
    BY <1>2, <2>6 DEF BuildCounter, H
  <2> HIDE DEF e
  <2>8. BuildCounter(r, q.op, Key, q.delta, 0) = B(e, Key, <<>>)
    BY <1>1, <1>3, <2>6, <2>7
  <2>9. IsPacket(B(e, Key, <<>>), r, op) /\ Payload(B(e, Key, <<>>)) = <<>>
        /\ Extras(B(e, Key, <<>>)) = e
    BY <1>1, <1>3a, <2>6, NoWords
  <2>10. q.value = <<>>
    BY <1>1, <1>6 DEF StoreOps, ConcatOps, CounterOps
  <2>11. e[1] * Base + e[2] = q.delta
    BY <2>2, <2>6
  <2> QED
    BY <1>1, <1>2, <1>6, <2>1, <2>8, <2>9, <2>10, <2>11
<1>7. CASE q.op \in KeyOps
  <2>1. Packet(r, q) = BuildKey(r, q.op, Key)
    BY <1>7 DEF Packet, StoreOps, ConcatOps, CounterOps, KeyOps, BareOps
  <2>2. BuildKey(r, q.op, Key) = H(0, Len(Key), Len(Key)) \o Words(Key)
    BY <1>2, <1>7 DEF BuildKey, H
  <2>3. BuildKey(r, q.op, Key) = B(<<>>, Key, <<>>)
    BY <1>1, <1>3, <2>2
  <2>4. q.op \notin CounterOps /\ q.value = <<>>
    BY <1>1, <1>7 DEF StoreOps, ConcatOps, CounterOps, KeyOps, BareOps
  <2>5. IsPacket(B(<<>>, Key, <<>>), r, op) /\ Payload(B(<<>>, Key, <<>>)) = <<>>
    <3>1. <<>> \in Seq(Halves) /\ Key \in Seq(Halves) /\ <<>> \in Seq(Halves)
      BY <1>1, NoWords, SmallWords
    <3> QED
      BY <1>3a, <3>1, Zenon
  <2> QED
    BY <1>2, <2>1, <2>3, <2>4, <2>5
<1>8. CASE q.op \in BareOps
  <2>1. Packet(r, q) = BuildBare(r, q.op)
    BY <1>8 DEF Packet, StoreOps, ConcatOps, CounterOps, KeyOps, BareOps
  <2>2. BuildBare(r, q.op) = H(0, 0, 0)
    BY <1>2, <1>8 DEF BuildBare, H
  <2>3. BuildBare(r, q.op) = B(<<>>, <<>>, <<>>)
    BY <1>1, <1>3, <2>2
  <2>4. q.op \notin CounterOps /\ q.value = <<>>
    BY <1>1, <1>8 DEF StoreOps, ConcatOps, CounterOps, KeyOps, BareOps
  <2>5. IsPacket(B(<<>>, <<>>, <<>>), r, op) /\ Payload(B(<<>>, <<>>, <<>>)) = <<>>
    <3>1. <<>> \in Seq(Halves) /\ <<>> \in Seq(Halves) /\ <<>> \in Seq(Halves)
      BY <1>1, NoWords, SmallWords
    <3> QED
      BY <1>3a, <3>1, Zenon
  <2> QED
    BY <1>2, <2>1, <2>3, <2>4, <2>5
<1>9. CASE q.op = "touch"
  <2>1. Packet(r, q) = BuildTouch(r, Key)
    BY <1>9 DEF Packet, StoreOps, ConcatOps, CounterOps, KeyOps, BareOps
  <2>2. BuildTouch(r, Key) = H(Len(<<0>>), Len(Key), Len(<<0>>) + Len(Key)) \o Words(<<0>>) \o Words(Key)
    BY <1>2, <1>9, SmallWords DEF BuildTouch, H
  <2>3. BuildTouch(r, Key) = B(<<0>>, Key, <<>>)
    BY <1>1, <1>3, <2>2, SmallWords
  <2>4. q.op \notin CounterOps /\ q.value = <<>>
    BY <1>1, <1>9 DEF StoreOps, ConcatOps, CounterOps, KeyOps, BareOps
  <2>5. IsPacket(B(<<0>>, Key, <<>>), r, op) /\ Payload(B(<<0>>, Key, <<>>)) = <<>>
    <3>1. <<0>> \in Seq(Halves) /\ Key \in Seq(Halves) /\ <<>> \in Seq(Halves)
      BY <1>1, NoWords, SmallWords
    <3> QED
      BY <1>3a, <3>1, Zenon
  <2> QED
    BY <1>2, <2>1, <2>3, <2>4, <2>5
<1>10. CASE q.op = "flush"
  <2>1. Packet(r, q) = BuildFlush(r)
    BY <1>10 DEF Packet, StoreOps, ConcatOps, CounterOps, KeyOps, BareOps
  <2>2. BuildFlush(r) = H(Len(<<0>>), 0, Len(<<0>>)) \o Words(<<0>>)
    BY <1>2, <1>10, SmallWords DEF BuildFlush, H
  <2>3. BuildFlush(r) = B(<<0>>, <<>>, <<>>)
    BY <1>1, <1>3, <2>2, SmallWords
  <2>4. q.op \notin CounterOps /\ q.value = <<>>
    BY <1>1, <1>10 DEF StoreOps, ConcatOps, CounterOps, KeyOps, BareOps
  <2>5. IsPacket(B(<<0>>, <<>>, <<>>), r, op) /\ Payload(B(<<0>>, <<>>, <<>>)) = <<>>
    <3>1. <<0>> \in Seq(Halves) /\ <<>> \in Seq(Halves) /\ <<>> \in Seq(Halves)
      BY <1>1, NoWords, SmallWords
    <3> QED
      BY <1>3a, <3>1, Zenon
  <2> QED
    BY <1>2, <2>1, <2>3, <2>4, <2>5
<1> QED
  BY <1>1, <1>4, <1>5, <1>6, <1>7, <1>8, <1>9, <1>10 DEF AllOps

LEMMA AuthPacket ==
    IsPacket(BuildSaslPlain(Auth, <<1>>, <<0, 1>>), Auth, "auth")
<1>1. Auth \in Listeners /\ "auth" \in OpCodes /\ "success" \in Statuses
  BY DEF Listeners, OpCodes, Statuses
<1>2. BuildSaslPlain(Auth, <<1>>, <<0, 1>>) = Build(Auth, "auth", "success", <<>>, <<1>>, <<0, 1>>)
  <2>1. \A k, v \in Seq(Halves) : Build(Auth, "auth", "success", <<>>, k, v)
            = SerializeHeader(Auth, "auth", "success", 0, Len(k), Len(k) + Len(v))
                  \o Words(k) \o Words(v)
    BY <1>1, Shapes
  <2> QED
    BY <2>1, SmallWords DEF BuildSaslPlain
<1>3. IsPacket(Build(Auth, "auth", "success", <<>>, <<1>>, <<0, 1>>), Auth, "auth")
  BY <1>1, NoWords, BuiltPacket, SmallWords DEF IsBuilt
<1> QED
  BY <1>2, <1>3

-----------------------------------------------------------------------------
\* The server

Numbers64 == 0 .. Base * Base - 1

LEMMA NumbersOfValues ==
    ASSUME NEW old \in StoredType, old # <<>>
    PROVE  /\ old[1] \in Seq(Halves) /\ Len(old) = 1 /\ old = <<old[1]>>
           /\ IsNumber(old[1]) => ToNumber(old[1]) \in Numbers64
<1>1. old \in Seq(Seq(Halves)) /\ Len(old) <= 1
  BY DEF StoredType, Halves
<1>2. Len(old) = 1
  <2> DEFINE n == Len(old)
  <2>1. n # 0
    BY <1>1, EmptySeq
  <2>2. n \in Nat /\ n <= 1
    BY <1>1
  <2> HIDE DEF n
  <2>3. n = 1
    BY <2>1, <2>2
  <2> QED
    BY <2>3 DEF n
<1>3. old[1] \in Seq(Halves) /\ old = <<old[1]>>
  BY <1>1, <1>2
<1>4. PICK v \in Seq(Halves) : v = old[1]
  BY <1>3
<1>5. ASSUME IsNumber(v) PROVE ToNumber(v) \in Numbers64
  <2>1. CASE Len(v) = 1
    <3>1. v[1] \in Halves
      BY <1>4, <2>1
    <3>2. v[1] \in Nat /\ v[1] < Base /\ Base <= Base * Base
      BY <3>1 DEF Halves
    <3> QED
      BY <2>1, <3>2 DEF ToNumber, Numbers64
  <2>2. CASE Len(v) = 2
    <3>1. v[1] \in Halves /\ v[2] \in Halves
      BY <1>4, <2>2
    <3>2. PICK a \in Nat, b \in Nat : a = v[1] /\ b = v[2] /\ a <= Base - 1 /\ b <= Base - 1
      BY <3>1 DEF Halves
    <3>3. a * Base <= (Base - 1) * Base /\ a * Base \in Nat
      BY <3>2, SMTT(30)
    <3>4. (Base - 1) * Base = Base * Base - Base
      OBVIOUS
    <3>5. a * Base + b \in 0 .. Base * Base - 1
      <4> DEFINE t == a * Base
                 u == Base * Base
      <4>1. t \in Nat /\ t <= u - Base /\ u \in Nat
        BY <3>3, <3>4
      <4> HIDE DEF t, u
      <4>2. t + b \in 0 .. u - 1
        BY <3>2, <4>1
      <4> QED
        BY <4>2 DEF t, u
    <3> QED
      BY <2>2, <3>2, <3>5 DEF ToNumber, Numbers64
  <2> QED
    BY <1>5, <2>1, <2>2 DEF IsNumber
<1> QED
  BY <1>2, <1>3, <1>4, <1>5

LEMMA ValuesOfNumbers ==
    ASSUME NEW n \in Numbers64
    PROVE  ToValue(n) \in Seq(Halves) /\ IsNumber(ToValue(n)) /\ ToNumber(ToValue(n)) = n
<1>1. CASE n < Base
  <2>1. n \in Halves
    BY <1>1 DEF Halves, Numbers64
  <2>2. ToValue(n) = <<n>>
    BY <1>1 DEF ToValue
  <2> QED
    BY <2>1, <2>2 DEF IsNumber, ToNumber
<1>2. CASE ~(n < Base)
  <2>1. ToValue(n) = <<n \div Base, n % Base>>
    BY <1>2 DEF ToValue, Split64
  <2>2. PICK a \in Halves, b \in Halves : a = n \div Base /\ b = n % Base /\ a * Base + b = n
    BY SplitAndJoin DEF Numbers64
  <2> QED
    BY <2>1, <2>2 DEF IsNumber, ToNumber
<1> QED
  BY <1>1, <1>2

LEMMA SumsAreNumbers ==
    ASSUME NEW op, NEW a \in Numbers64, NEW b \in Numbers64
    PROVE  Sum(op, a, b) \in Numbers64
<1>1. Base * Base \in Nat /\ Base * Base > 0
  OBVIOUS
<1> DEFINE n == Base * Base
<1>2. a \in 0 .. n - 1 /\ b \in 0 .. n - 1 /\ n \in Nat /\ n > 0
  BY <1>1 DEF Numbers64
<1> HIDE DEF n
<1>3. (a + b) % n \in 0 .. n - 1
  BY <1>2
<1>4. a > b => a - b \in 0 .. n - 1
  BY <1>2
<1>5. 0 \in 0 .. n - 1
  BY <1>2
<1> QED
  BY <1>3, <1>4, <1>5 DEF Sum, Numbers64, n

\* Operations keep the value a value, and counters keep it a number.
LEMMA EffectTyped ==
    ASSUME NEW op \in AllOps, NEW value \in Seq(Halves), NEW delta, NEW old \in StoredType,
           op \in CounterOps => delta \in Numbers64
    PROVE  /\ Effect(op, value, delta, old) \in StoredType
           /\ op \in CounterOps /\ Succeeds(op, old) =>
                  /\ Len(Effect(op, value, delta, old)) = 1
                  /\ ToNumber(Effect(op, value, delta, old)[1]) \in Numbers64
<1>1. \A v \in Seq(Halves) : <<v>> \in StoredType /\ Len(<<v>>) = 1 /\ <<v>>[1] = v
  BY DEF StoredType, Halves
<1>2. <<>> \in StoredType
  BY DEF StoredType
<1>3. CASE ~Succeeds(op, old)
  BY <1>3 DEF Effect
<1>4. CASE Succeeds(op, old) /\ op \in StoreOps
  <2>1. Effect(op, value, delta, old) = <<value>>
    BY <1>4 DEF Effect, StoreOps, CounterOps
  <2> QED
    BY <1>1, <1>4, <2>1 DEF StoreOps, CounterOps
<1>5. CASE Succeeds(op, old) /\ op \in ConcatOps
  <2>1. old # <<>>
    BY <1>5 DEF Succeeds, ConcatOps, CounterOps
  <2>2. PICK v \in Seq(Halves) : v = old[1]
    BY <2>1, NumbersOfValues
  <2>3. v \o value \in Seq(Halves) /\ value \o v \in Seq(Halves)
    BY Joined
  <2>4. Effect(op, value, delta, old) \in {<<v \o value>>, <<value \o v>>}
    BY <1>5, <2>2 DEF Effect, StoreOps, ConcatOps, CounterOps
  <2> QED
    BY <1>1, <1>5, <2>3, <2>4 DEF ConcatOps, CounterOps
<1>6. CASE Succeeds(op, old) /\ op \in CounterOps
  <2>1. PICK n \in Numbers64 : Effect(op, value, delta, old) = <<ToValue(n)>>
    <3>1. CASE old = <<>>
      <4>1. Effect(op, value, delta, old) = <<ToValue(0)>>
        BY <1>6, <3>1 DEF Effect, StoreOps, CounterOps
      <4>2. 0 \in Numbers64
        <5>1. Base * Base > 0 /\ Base * Base \in Nat
          OBVIOUS
        <5> QED
          BY <5>1 DEF Numbers64
      <4> QED
        BY <4>1, <4>2
    <3>2. CASE old # <<>>
      <4>1. Effect(op, value, delta, old) = <<ToValue(Sum(op, ToNumber(old[1]), delta))>>
        BY <1>6, <3>2 DEF Effect, StoreOps, CounterOps
      <4>2. IsNumber(old[1])
        BY <1>6, <3>2 DEF Succeeds, CounterOps
      <4>3. Sum(op, ToNumber(old[1]), delta) \in Numbers64
        BY <1>6, <3>2, <4>2, NumbersOfValues, SumsAreNumbers
      <4> QED
        BY <4>1, <4>3
    <3> QED
      BY <3>1, <3>2
  <2>2. ToValue(n) \in Seq(Halves) /\ ToNumber(ToValue(n)) = n
    BY ValuesOfNumbers
  <2> QED
    BY <1>1, <2>1, <2>2
<1>7. CASE Succeeds(op, old) /\ op \in AllOps \ (StoreOps \cup ConcatOps \cup CounterOps)
  <2>1. Effect(op, value, delta, old) \in {<<>>, old}
    BY <1>7 DEF Effect, StoreOps, ConcatOps, CounterOps
  <2> QED
    BY <1>2, <1>7, <2>1
<1> QED
  BY <1>3, <1>4, <1>5, <1>6, <1>7

\* The packets of an answer: two for the statistics, and one otherwise.
Statistics(r, old) == Response(r, "stat", "success", <<1>>, <<Len(old)>>)
EndOfAnswer(r)     == Response(r, "stat", "success", <<>>, <<>>)

LEMMA ResponseIsBuilt ==
    ASSUME NEW of \in Listeners, NEW op \in OpCodes, NEW status \in Statuses,
           NEW key \in Seq(Halves), NEW value \in Seq(Halves)
    PROVE  Response(of, op, status, key, value) = Build(of, op, status, <<>>, key, value)
<1>1. \A k, v \in Seq(Halves) : Build(of, op, status, <<>>, k, v)
            = SerializeHeader(of, op, status, 0, Len(k), Len(k) + Len(v)) \o Words(k) \o Words(v)
  BY Shapes, ZenonT(30)
<1> QED
  BY <1>1 DEF Response

LEMMA AnswerIsBuilt ==
    ASSUME NEW of \in Listeners, NEW op \in AllOps, NEW old \in StoredType, NEW new \in StoredType,
           op \in CounterOps /\ Succeeds(op, old) =>
               Len(new) = 1 /\ ToNumber(new[1]) \in Numbers64
    PROVE  /\ op = "stat" => Succeeds(op, old) /\ Answer(of, op, old, new) =
                                 Statistics(of, old) \o EndOfAnswer(of)
           /\ op # "stat" /\ ~Succeeds(op, old) =>
                  Failure(op) \in Statuses \ {"success"} /\ Answer(of, op, old, new) =
                      Build(of, op, Failure(op), <<>>, <<>>, <<1>>)
           /\ op = "get" /\ Succeeds(op, old) => Answer(of, op, old, new) =
                  Build(of, op, "success", <<0>>, <<>>, old[1])
           /\ op \in CounterOps /\ Succeeds(op, old) => Answer(of, op, old, new) =
                  Build(of, op, "success", <<>>, <<>>, Split64(ToNumber(new[1])))
           /\ op = "version" => Succeeds(op, old) /\ Answer(of, op, old, new) =
                  Build(of, op, "success", <<>>, <<>>, <<1>>)
           /\ op \notin {"get", "version", "stat"} \cup CounterOps /\ Succeeds(op, old) =>
                  Answer(of, op, old, new) = Build(of, op, "success", <<>>, <<>>, <<>>)
<1>1. "success" \in Statuses /\ op \in OpCodes /\ <<>> \in Seq(Halves) /\ <<1>> \in Seq(Halves)
  BY NoWords, SmallWords DEF Statuses, OpCodes
<1>2. ASSUME NEW status \in Statuses, NEW value \in Seq(Halves)
      PROVE  Response(of, op, status, <<>>, value) = Build(of, op, status, <<>>, <<>>, value)
  BY <1>1, ResponseIsBuilt
<1>3. ASSUME op = "stat"
      PROVE  Succeeds(op, old) /\ Answer(of, op, old, new) =
                                 Statistics(of, old) \o EndOfAnswer(of)
  BY <1>3 DEF Succeeds, Answer, Statistics, EndOfAnswer, CounterOps
<1>4. ASSUME op # "stat", ~Succeeds(op, old)
      PROVE  Failure(op) \in Statuses \ {"success"} /\ Answer(of, op, old, new) =
                      Build(of, op, Failure(op), <<>>, <<>>, <<1>>)
  <2>1. Failure(op) \in Statuses \ {"success"}
    BY DEF Failure, Statuses, ConcatOps
  <2>2. Answer(of, op, old, new) = Response(of, op, Failure(op), <<>>, <<1>>)
    BY <1>4 DEF Answer
  <2> QED
    BY <1>1, <1>2, <2>1, <2>2
<1>5. ASSUME op = "get", Succeeds(op, old)
      PROVE  Answer(of, op, old, new) = Build(of, op, "success", <<0>>, <<>>, old[1])
  <2>1. old # <<>>
    BY <1>5 DEF Succeeds, CounterOps
  <2>2. old[1] \in Seq(Halves)
    BY <2>1, NumbersOfValues
  <2>3. Answer(of, op, old, new) = SerializeHeader(of, op, "success", 1, 0, 1 + Len(old[1]))
                                       \o Words(<<0>>) \o Words(old[1])
    BY <1>5 DEF Answer, CounterOps
  <2>4. \A e, v \in Seq(Halves) : Build(of, op, "success", e, <<>>, v) =
            SerializeHeader(of, op, "success", Len(e), 0, Len(e) + Len(v)) \o Words(e) \o Words(v)
    BY <1>1, Shapes, ZenonT(30)
  <2>5. Build(of, op, "success", <<0>>, <<>>, old[1]) =
            SerializeHeader(of, op, "success", Len(<<0>>), 0, Len(<<0>>) + Len(old[1]))
                \o Words(<<0>>) \o Words(old[1])
    BY <2>2, <2>4, SmallWords, Zenon
  <2> QED
    BY <2>3, <2>5
<1>6. ASSUME op \in CounterOps, Succeeds(op, old)
      PROVE  Answer(of, op, old, new) =
                  Build(of, op, "success", <<>>, <<>>, Split64(ToNumber(new[1])))
  <2>1. Split64(ToNumber(new[1])) \in Seq(Halves)
    BY <1>6, SplitAndJoin DEF Numbers64
  <2>2. Answer(of, op, old, new) = Response(of, op, "success", <<>>, Split64(ToNumber(new[1])))
    BY <1>6 DEF Answer, CounterOps
  <2> QED
    BY <1>1, <1>2, <2>1, <2>2
<1>7. ASSUME op = "version"
      PROVE  Succeeds(op, old) /\ Answer(of, op, old, new) =
                  Build(of, op, "success", <<>>, <<>>, <<1>>)
  <2>1. Succeeds(op, old)
    BY <1>7 DEF Succeeds, CounterOps
  <2>2. Answer(of, op, old, new) = Response(of, op, "success", <<>>, <<1>>)
    BY <1>7, <2>1 DEF Answer, CounterOps
  <2> QED
    BY <1>1, <1>2, <2>1, <2>2
<1>8. ASSUME op \notin {"get", "version", "stat"} \cup CounterOps, Succeeds(op, old)
      PROVE  Answer(of, op, old, new) = Build(of, op, "success", <<>>, <<>>, <<>>)
  <2>1. Answer(of, op, old, new) = Response(of, op, "success", <<>>, <<>>)
    BY <1>8 DEF Answer, CounterOps
  <2> QED
    BY <1>1, <1>2, <2>1
<1> QED
  BY <1>3, <1>4, <1>5, <1>6, <1>7, <1>8

LEMMA ResponseTyped ==
    ASSUME NEW of \in Listeners, NEW op \in OpCodes, NEW status \in Statuses,
           NEW key \in Seq(Halves), NEW value \in Seq(Halves)
    PROVE  Response(of, op, status, key, value) \in Seq(WordsType)
<1>1. IsPacket(Build(of, op, status, <<>>, key, value), of, op)
  BY NoWords, BuiltPacket DEF IsBuilt
<1> QED
  BY <1>1, ResponseIsBuilt DEF IsPacket

LEMMA AnswerTyped ==
    ASSUME NEW of \in Listeners, NEW op \in AllOps, NEW old \in StoredType, NEW new \in StoredType,
           op \in CounterOps /\ Succeeds(op, old) =>
               Len(new) = 1 /\ ToNumber(new[1]) \in Numbers64
    PROVE  Answer(of, op, old, new) \in Seq(WordsType)
<1>1. /\ "success" \in Statuses /\ op \in OpCodes
      /\ <<>> \in Seq(Halves) /\ <<1>> \in Seq(Halves) /\ <<0>> \in Seq(Halves)
  BY NoWords, SmallWords DEF Statuses, OpCodes
<1>2. ASSUME NEW status \in Statuses, NEW e \in Seq(Halves), NEW v \in Seq(Halves)
      PROVE  Build(of, op, status, e, <<>>, v) \in Seq(WordsType)
  <2>1. IsPacket(Build(of, op, status, e, <<>>, v), of, op)
    BY <1>1, BuiltPacket DEF IsBuilt
  <2> QED
    BY <2>1 DEF IsPacket
<1>3. CASE op = "stat"
  <2>1. <<Len(old)>> \in Seq(Halves)
    <3>1. Len(old) \in Nat /\ Len(old) <= 1
      BY DEF StoredType
    <3>2. Len(old) \in Halves
      BY <3>1 DEF Halves
    <3> QED
      BY <3>2
  <2>2. Statistics(of, old) \in Seq(WordsType) /\ EndOfAnswer(of) \in Seq(WordsType)
    BY <1>1, <1>3, <2>1, ResponseTyped DEF Statistics, EndOfAnswer
  <2> QED
    BY <1>3, <2>2, AnswerIsBuilt, Joined
<1>4. CASE op # "stat" /\ ~Succeeds(op, old)
  <2>1. Failure(op) \in Statuses /\ Answer(of, op, old, new) =
                      Build(of, op, Failure(op), <<>>, <<>>, <<1>>)
    BY <1>4, AnswerIsBuilt
  <2> QED
    BY <1>1, <1>2, <2>1
<1>5. CASE op = "get" /\ Succeeds(op, old)
  <2>1. old # <<>>
    BY <1>5 DEF Succeeds, CounterOps
  <2>2. old[1] \in Seq(Halves)
    BY <2>1, NumbersOfValues
  <2>3. Answer(of, op, old, new) = Build(of, op, "success", <<0>>, <<>>, old[1])
    BY <1>5, AnswerIsBuilt
  <2> QED
    BY <1>1, <1>2, <2>2, <2>3
<1>6. CASE op \in CounterOps /\ Succeeds(op, old)
  <2>1. Split64(ToNumber(new[1])) \in Seq(Halves)
    BY <1>6, SplitAndJoin DEF Numbers64
  <2>2. Answer(of, op, old, new) = Build(of, op, "success", <<>>, <<>>, Split64(ToNumber(new[1])))
    BY <1>6, AnswerIsBuilt
  <2> QED
    BY <1>1, <1>2, <2>1, <2>2
<1>7. CASE op = "version"
  <2>1. Answer(of, op, old, new) = Build(of, op, "success", <<>>, <<>>, <<1>>)
    BY <1>7, AnswerIsBuilt
  <2> QED
    BY <1>1, <1>2, <2>1
<1>8. CASE op \notin {"get", "version", "stat"} \cup CounterOps /\ Succeeds(op, old)
  <2>1. Answer(of, op, old, new) = Build(of, op, "success", <<>>, <<>>, <<>>)
    BY <1>8, AnswerIsBuilt
  <2> QED
    BY <1>1, <1>2, <2>1
<1> QED
  BY <1>3, <1>4, <1>5, <1>6, <1>7, <1>8

-----------------------------------------------------------------------------
\* The invariants

\* The packet a listener waits for the answer to.
PacketOf(l) == IF l = Auth THEN BuildSaslPlain(Auth, <<1>>, <<0, 1>>) ELSE Packet(l, request[l])

Sendable == {Auth} \cup
    { r \in Requests : result[r] # "none" /\ request[r] \in Asked /\ request[r].op # "text" }
Packets == [l \in Sendable |-> PacketOf(l)]

Starts(w) == w.is \in {"first", "text"}

\* Words are whole packets of `packets`, and text commands.
Framed(words, packets) ==
    /\ words # <<>> => Starts(words[1])
    /\ \A i \in DOMAIN words : words[i].is = "text" => i = Len(words) \/ Starts(words[i + 1])
    /\ \A i \in DOMAIN words : words[i].is = "first" =>
          /\ words[i].of \in DOMAIN packets
          /\ LET end == i + Len(packets[words[i].of]) - 1 IN
             /\ end <= Len(words)
             /\ \A j \in i .. end : words[j] = packets[words[i].of][j - i + 1]
             /\ end = Len(words) \/ Starts(words[end + 1])

TypeInv ==
    /\ TypeOK
    /\ \A s \in Sockets : Framed(toServer[s], Packets)

\* Sockets are created in order; what lives is the last one and the node's own,
\* and nothing of an earlier one is left to close once it is open.
Connections ==
    /\ \A t, u \in Sockets : t < u /\ socketState[u] # "none" => socketState[t] # "none"
    /\ socket # None =>
          /\ socketState[socket] # "none"
          /\ \A u \in Sockets : u > socket => socketState[u] = "none"
    /\ connected =>
          /\ socket # None /\ socketState[socket] \in {"open", "destroyed"}
          /\ \A t \in Sockets : t # socket => socketState[t] # "destroyed"
    /\ \A s \in Sockets :
          /\ Alive(s) => s = socket
          /\ connectPromise[s] = "none" <=> socketState[s] = "none"
          /\ socketState[s] = "connecting" => connectPromise[s] = "pending" /\ ~connected
          /\ socketState[s] = "open" =>
                connected /\ \A t \in Sockets : socketState[t] # "destroyed"

Heads(s) == { i \in DOMAIN toServer[s] : toServer[s][i].is = "first" }

\* Nothing but the credentials is sent before the server has accepted them, and
\* what it says before is no success.
NotYet(s) == /\ toServer[s] = <<>> /\ fromServer[s] = <<>> /\ listening[s] = {}
             /\ \A l \in Listeners : heard[s][l] = <<>>

AuthHears(s) == heard[s][Auth] \o fromServer[s]
IsRefusal(words) == words # <<>> => words[1].is = "first" /\ words[1].status = "authError"

Sessions ==
    /\ authenticated => \E s \in session : socketState[s] \in {"open", "destroyed"}
    /\ \A s \in Sockets :
          /\ connectPromise[s] = "resolved" => s \in session
          /\ socketState[s] \in {"none", "connecting"} => NotYet(s)
          /\ s \notin session => \A i \in Heads(s) : toServer[s][i].of = Auth
          /\ s \notin session /\ Auth \in listening[s] => IsRefusal(AuthHears(s))

SessionInv == TypeInv /\ Connections /\ Sessions

\* What listener l still hears makes the packet p, and rest after it.
Hears(s, l, p, rest) ==
    heard[s][l] \o fromServer[s] = p \o rest /\ Len(heard[s][l]) < Len(p)

\* The server has yet to execute the packet of listener l ...
Unanswered(s, l) ==
    /\ \E i \in Heads(s) : toServer[s][i].of = l
    /\ heard[s][l] = <<>> /\ fromServer[s] = <<>>
    /\ l \in Requests => ran[l] = <<>> /\ taken[l] = <<>>

\* ... or has, and the listener has part of the answer and the rest is on its way.
Did(r) ==
    /\ Len(ran[r]) = 1 /\ ~ran[r][1].refused
    /\ ran[r][1].after = Effect(request[r].op, request[r].value, request[r].delta,
                                ran[r][1].before)

Answered(s, l) ==
    /\ Heads(s) = {}
    /\ \/ /\ l = Auth
          /\ \E status \in {"success", "authError"} :
                /\ status = "success" => s \in session
                /\ Hears(s, Auth, AuthAnswer(status), <<>>)
       \/ /\ l # Auth
          /\ Did(l)
          /\ LET before == ran[l][1].before IN
             \/ /\ request[l].op # "stat" /\ taken[l] = <<>>
                /\ Hears(s, l, Answer(l, request[l].op, before, ran[l][1].after), <<>>)
             \/ /\ request[l].op = "stat" /\ taken[l] = <<>>
                /\ Hears(s, l, Statistics(l, before), EndOfAnswer(l))
             \/ /\ request[l].op = "stat" /\ taken[l] = <<Statistics(l, before)>>
                /\ Hears(s, l, EndOfAnswer(l), <<>>)

HasQuit(s) == \E r \in Requests : via[r] = s /\ request[r].op = "quit"

\* On an open socket one packet at most is under way, that of the one listener.
Exchange(s) ==
    /\ \A i, j \in Heads(s) : i = j
    /\ \A i \in Heads(s) : LET r == toServer[s][i].of IN
          r \in Requests => ran[r] = <<>> /\ (r \in listening[s] \/ HasQuit(s))
    /\ connectPromise[s] = "pending" => Auth \in listening[s]
    /\ listening[s] = {} => HasQuit(s) \/ (Heads(s) = {} /\ fromServer[s] = <<>>)
    /\ \A l \in listening[s] :
          /\ listening[s] = {l}
          /\ Unanswered(s, l) \/ Answered(s, l)
          /\ l # Auth => /\ result[l] = "pending"
                         /\ request[l] \in Asked /\ request[l].op \notin {"quit", "text"}

Exchanges ==
    /\ \A s \in Sockets : socketState[s] = "open" => Exchange(s)
    /\ \A s \in Sockets, l \in Listeners : heard[s][l] # <<>> => l \in listening[s]
    /\ \A r \in Requests :
          result[r] = "none" => request[r].op = "none" /\ taken[r] = <<>> /\ ran[r] = <<>>
    /\ \A s \in Sockets, r \in Requests : r \in listening[s] => connectPromise[s] = "resolved"

AnswerInv == SessionInv /\ Exchanges /\ OwnResponse

-----------------------------------------------------------------------------
\* Words on their way to the server

\* A packet of `packets`, or a text command.
IsUnit(p, packets) ==
    /\ p \in Seq(WordsType) /\ Len(p) > 0 /\ Starts(p[1])
    /\ \A j \in 2 .. Len(p) : ~Starts(p[j])
    /\ p[1].is = "text" => Len(p) = 1
    /\ p[1].is = "first" => p[1].of \in DOMAIN packets /\ packets[p[1].of] = p

LEMMA FramedEmpty == \A packets : Framed(<<>>, packets)
  BY DEF Framed

LEMMA FramedMore ==
    ASSUME NEW words \in Seq(WordsType), NEW P, NEW Q, Framed(words, P),
           \A l \in DOMAIN P : l \in DOMAIN Q /\ Q[l] = P[l]
    PROVE  Framed(words, Q)
  BY DEF Framed

LEMMA FramedJoin ==
    ASSUME NEW words \in Seq(WordsType), NEW p, NEW P, Framed(words, P), IsUnit(p, P),
           \A l \in DOMAIN P : P[l] \in Seq(WordsType) /\ Len(P[l]) > 0
    PROVE  words \o p \in Seq(WordsType) /\ Framed(words \o p, P)
<1>1. p \in Seq(WordsType) /\ Len(p) \in Nat /\ Len(p) > 0 /\ Len(words) \in Nat
  BY DEF IsUnit
<1> DEFINE s == words \o p
<1>2. /\ s \in Seq(WordsType) /\ Len(s) = Len(words) + Len(p)
      /\ \A i \in 1 .. Len(words) : s[i] = words[i]
      /\ \A i \in 1 .. Len(p) : s[Len(words) + i] = p[i]
  BY <1>1, Joined
<1>3. DOMAIN s = 1 .. Len(words) + Len(p) /\ DOMAIN words = 1 .. Len(words)
  BY <1>1, <1>2
<1> HIDE DEF s
<1> DEFINE n == Len(words)
<1>4. Starts(s[n + 1])
  BY <1>1, <1>2 DEF IsUnit
<1>5. s # <<>> => Starts(s[1])
  <2>1. CASE n = 0
    BY <1>4, <2>1
  <2>2. CASE n # 0
    <3>1. words # <<>> /\ s[1] = words[1]
      BY <1>1, <1>2, <2>2
    <3> QED
      BY <3>1 DEF Framed
  <2> QED
    BY <2>1, <2>2
<1>6. ASSUME NEW i \in DOMAIN s, s[i].is = "text" PROVE i = Len(s) \/ Starts(s[i + 1])
  <2>1. CASE i <= n
    <3>1. i \in DOMAIN words /\ words[i].is = "text"
      BY <1>1, <1>2, <1>3, <1>6, <2>1
    <3>2. i = n \/ Starts(words[i + 1])
      BY <3>1 DEF Framed
    <3>3. i < n => s[i + 1] = words[i + 1]
      BY <1>1, <1>2, <1>3, <1>6
    <3> QED
      BY <1>1, <1>4, <2>1, <3>1, <3>2, <3>3
  <2>2. CASE i > n
    <3>1. i - n \in 1 .. Len(p) /\ s[n + (i - n)] = s[i]
      BY <1>1, <1>2, <1>3, <1>6, <2>2
    <3>2. p[i - n].is = "text"
      BY <1>2, <1>6, <3>1
    <3>3. Starts(p[i - n])
      BY <3>2 DEF Starts
    <3>4. i - n = 1 /\ Len(p) = 1
      BY <1>1, <3>1, <3>2, <3>3 DEF IsUnit
    <3> QED
      BY <1>1, <1>2, <3>4
  <2> QED
    BY <1>1, <1>3, <1>6, <2>1, <2>2
<1>7. ASSUME NEW i \in DOMAIN s, s[i].is = "first"
      PROVE  /\ s[i].of \in DOMAIN P
             /\ LET end == i + Len(P[s[i].of]) - 1 IN
                /\ end <= Len(s)
                /\ \A j \in i .. end : s[j] = P[s[i].of][j - i + 1]
                /\ end = Len(s) \/ Starts(s[end + 1])
  <2>1. CASE i <= n
    <3>1. i \in DOMAIN words /\ words[i].is = "first" /\ words[i] = s[i]
      BY <1>1, <1>2, <1>3, <1>6, <1>7, <2>1
    <3> DEFINE end == i + Len(P[s[i].of]) - 1
    <3>2. /\ s[i].of \in DOMAIN P /\ end <= n
          /\ \A j \in i .. end : words[j] = P[s[i].of][j - i + 1]
          /\ end = n \/ Starts(words[end + 1])
      BY <3>1 DEF Framed
    <3>3. Len(P[s[i].of]) \in Nat /\ Len(P[s[i].of]) > 0 /\ i \in Nat /\ i > 0
      BY <1>1, <1>3, <3>1, <3>2
    <3> HIDE DEF end
    <3>4. end \in Nat /\ end >= i
      BY <3>3 DEF end
    <3>5. ASSUME NEW j \in i .. end PROVE s[j] = words[j]
      <4>1. j \in 1 .. Len(words)
        BY <1>1, <3>2, <3>3, <3>4
      <4> QED
        BY <1>2, <4>1
    <3>6. end < n => s[end + 1] = words[end + 1]
      <4>1. end < n => end + 1 \in 1 .. Len(words)
        BY <1>1, <3>4
      <4> QED
        BY <1>2, <4>1
    <3>7. end = Len(s) \/ Starts(s[end + 1])
      BY <1>1, <1>4, <3>2, <3>4, <3>6
    <3>8. end <= Len(s)
      BY <1>1, <1>2, <3>2, <3>4
    <3> QED
      BY <3>2, <3>5, <3>7, <3>8 DEF end
  <2>2. CASE i > n
    <3>1. i - n \in 1 .. Len(p) /\ s[n + (i - n)] = s[i] /\ i \in Nat
      BY <1>1, <1>2, <1>3, <1>7, <2>2
    <3>2. p[i - n] = s[i] /\ Starts(p[i - n])
      BY <1>2, <1>7, <3>1 DEF Starts
    <3>3. i = n + 1
      BY <1>1, <3>1, <3>2 DEF IsUnit
    <3>4. p[1] = s[i]
      BY <3>1, <3>2, <3>3
    <3>5. s[i].of \in DOMAIN P /\ P[s[i].of] = p
      BY <1>7, <3>4 DEF IsUnit
    <3>6. ASSUME NEW j \in i .. i + Len(p) - 1 PROVE s[j] = p[j - i + 1]
      <4>1. j - n \in 1 .. Len(p) /\ n + (j - n) = j /\ j - i + 1 = j - n
        BY <1>1, <3>1, <3>3, <3>6
      <4> QED
        BY <1>2, <4>1
    <3>7. i + Len(p) - 1 = Len(s)
      BY <1>1, <1>2, <3>3
    <3> QED
      BY <1>1, <1>2, <3>5, <3>6, <3>7
  <2> QED
    BY <1>1, <1>3, <1>7, <2>1, <2>2
<1>8. Framed(s, P)
  BY <1>5, <1>6, <1>7 DEF Framed
<1> QED
  BY <1>2, <1>8 DEF s

\* The server reads the packet at the head, and the rest is framed.
LEMMA FramedHead ==
    ASSUME NEW words \in Seq(WordsType), NEW P, Framed(words, P), words # <<>>,
           words[1].is = "first",
           \A l \in DOMAIN P : P[l] \in Seq(WordsType) /\ Len(P[l]) > 0
    PROVE  LET p == P[words[1].of] IN
           /\ words[1].of \in DOMAIN P /\ Len(p) <= Len(words)
           /\ \A j \in 1 .. Len(p) : words[j] = p[j]
           /\ SubSeq(words, Len(p) + 1, Len(words)) \in Seq(WordsType)
           /\ Framed(SubSeq(words, Len(p) + 1, Len(words)), P)
<1> DEFINE p == P[words[1].of]
           n == Len(p)
           m == Len(words)
           s == SubSeq(words, n + 1, m)
<1>1. m \in Nat /\ m > 0 /\ DOMAIN words = 1 .. m /\ 1 \in DOMAIN words
  OBVIOUS
<1>2. /\ words[1].of \in DOMAIN P
      /\ LET end == 1 + n - 1 IN
         /\ end <= m
         /\ \A j \in 1 .. end : words[j] = p[j - 1 + 1]
         /\ end = m \/ Starts(words[end + 1])
  BY <1>1 DEF Framed
<1>3. p \in Seq(WordsType) /\ n \in Nat /\ n > 0
  BY <1>2
<1>4. n <= m /\ (n = m \/ Starts(words[n + 1])) /\ \A j \in 1 .. n : words[j] = p[j]
  <2> HIDE DEF p
  <2>1. 1 + n - 1 = n /\ \A j \in 1 .. n : j - 1 + 1 = j
    BY <1>3
  <2> HIDE DEF n
  <2> QED
    BY <1>2, <2>1
<1> HIDE DEF p, n
<1>5. /\ s \in Seq(WordsType) /\ Len(s) = m - n
      /\ \A i \in 1 .. m - n : s[i] = words[n + i]
  <2> HIDE DEF m
  <2>1. n \in 0 .. m
    <3>1. n <= m /\ m \in Nat /\ n \in Nat
      BY <1>1, <1>3, <1>4
    <3> QED
      BY <3>1
  <2> QED
    BY <2>1, Rest DEF m
<1> HIDE DEF s
<1>6. DOMAIN s = 1 .. m - n
  BY <1>5
<1> HIDE DEF m
<1>7. s # <<>> => Starts(s[1])
  <2>1. s # <<>> => m - n > 0
    BY <1>1, <1>3, <1>4, <1>5
  <2> QED
    BY <1>1, <1>3, <1>4, <1>5, <2>1
<1>8. ASSUME NEW i \in DOMAIN s, s[i].is = "text" PROVE i = Len(s) \/ Starts(s[i + 1])
  <2>1. n + i \in DOMAIN words /\ words[n + i].is = "text"
    BY <1>1, <1>3, <1>4, <1>5, <1>6, <1>8
  <2>2. n + i = m \/ Starts(words[n + i + 1])
    BY <2>1 DEF Framed, m
  <2>3. i < m - n => s[i + 1] = words[n + (i + 1)]
    BY <1>1, <1>3, <1>4, <1>5, <1>6
  <2>4. n + (i + 1) = n + i + 1
    BY <1>3, <1>6
  <2> QED
    BY <1>1, <1>3, <1>4, <1>5, <1>6, <2>2, <2>3, <2>4
<1>9. ASSUME NEW i \in DOMAIN s, s[i].is = "first"
      PROVE  /\ s[i].of \in DOMAIN P
             /\ LET end == i + Len(P[s[i].of]) - 1 IN
                /\ end <= Len(s)
                /\ \A j \in i .. end : s[j] = P[s[i].of][j - i + 1]
                /\ end = Len(s) \/ Starts(s[end + 1])
  <2>1. n + i \in DOMAIN words /\ words[n + i].is = "first" /\ words[n + i] = s[i] /\ i \in Nat /\ i > 0
    BY <1>1, <1>3, <1>4, <1>5, <1>6, <1>9
  <2> DEFINE k == Len(P[s[i].of])
             d == P[s[i].of]
             last == n + i + k - 1
             end == i + k - 1
  <2>2. /\ s[i].of \in DOMAIN P
        /\ last <= m
        /\ \A j \in (n + i) .. last : words[j] = d[j - (n + i) + 1]
        /\ last = m \/ Starts(words[last + 1])
    BY <2>1 DEF Framed, m
  <2>3. k \in Nat /\ k > 0
    BY <2>2
  <2> HIDE DEF d, k
  <2>4. last = n + end /\ end \in Nat /\ end >= i /\ end <= m - n
    <3>1. last <= m
      BY <2>2
    <3>2. m \in Nat /\ n \in Nat /\ i \in Nat /\ i > 0
      BY <1>1, <1>3, <2>1
    <3> QED
      BY <2>3, <3>1, <3>2
  <2>5. ASSUME NEW j \in i .. end PROVE s[j] = d[j - i + 1]
    <3>1. n + j \in (n + i) .. last /\ (n + j) - (n + i) + 1 = j - i + 1 /\ j \in 1 .. m - n
      <4>1. /\ n \in Nat /\ m \in Nat /\ i \in Nat /\ i > 0 /\ j \in i .. end
            /\ last = n + end /\ end \in Nat /\ end <= m - n
        BY <1>1, <1>3, <2>1, <2>4, <2>5
      <4> HIDE DEF end, last
      <4> QED
        BY <4>1
    <3>2. words[n + j] = d[(n + j) - (n + i) + 1]
      BY <2>2, <3>1
    <3> QED
      BY <1>5, <3>1, <3>2
  <2>6. end = Len(s) \/ Starts(s[end + 1])
    <3>1. end < m - n => s[end + 1] = words[n + (end + 1)]
      BY <1>1, <1>3, <1>5, <2>4, SMTT(30)
    <3>2. n + (end + 1) = last + 1
      BY <1>3, <2>4
    <3>3. last = m => end = m - n
      BY <1>1, <1>3, <2>4
    <3>4. end < m - n \/ end = m - n
      BY <1>1, <1>3, <2>4, SMTT(30)
    <3> HIDE DEF last, end
    <3> QED
      BY <1>5, <2>2, <3>1, <3>2, <3>3, <3>4
  <2>7. end <= Len(s)
    BY <1>5, <2>4
  <2> QED
    BY <2>2, <2>5, <2>6, <2>7 DEF d, k
<1>10. Framed(s, P)
  BY <1>7, <1>8, <1>9 DEF Framed
<1> QED
  BY <1>2, <1>4, <1>5, <1>10 DEF s, m, n, p

LEMMA IsPacketIsUnit ==
    ASSUME NEW p, NEW l, NEW opcode, NEW P, IsPacket(p, l, opcode),
           l \in DOMAIN P, P[l] = p
    PROVE  IsUnit(p, P) /\ Len(p) \in Nat /\ Len(p) >= 2
<1>1. p \in Seq(WordsType) /\ Len(p) \in Nat /\ Len(p) >= 2 /\ DOMAIN p = 1 .. Len(p)
  BY DEF IsPacket, HeaderSize
<1>2. p[1].is = "first" /\ p[1].of = l /\ Starts(p[1])
  BY DEF IsPacket, Starts
<1>3. ASSUME NEW j \in 2 .. Len(p) PROVE ~Starts(p[j])
  <2>1. CASE j = 2
    BY <2>1 DEF IsPacket, Starts
  <2>2. CASE j > 2
    <3>1. j \in DOMAIN p /\ j > HeaderSize
      BY <1>1, <1>3, <2>2 DEF HeaderSize
    <3>2. p[j] \in Bodies
      BY <3>1 DEF IsPacket
    <3> QED
      BY <3>2 DEF Bodies, Starts
  <2> QED
    BY <1>1, <2>1, <2>2
<1> QED
  BY <1>1, <1>2, <1>3 DEF IsUnit

\* The packets that may be on their way are well formed.
OpcodeOf(l) == IF l = Auth THEN "auth" ELSE request[l].op

LEMMA PacketsAreUnits ==
    /\ DOMAIN Packets = Sendable /\ Sendable \subseteq Listeners
    /\ \A l \in Sendable : /\ Packets[l] = PacketOf(l)
                           /\ IsPacket(Packets[l], l, OpcodeOf(l))
                           /\ IsUnit(Packets[l], Packets)
                           /\ Packets[l] \in Seq(WordsType)
                           /\ Len(Packets[l]) \in Nat /\ Len(Packets[l]) >= 2
                           /\ Len(Packets[l]) > 0
    /\ \A r \in Sendable \ {Auth} :
          /\ request[r] \in Asked /\ request[r].op # "text" /\ request[r].op \in AllOps
          /\ request[r].op # "auth"
          /\ Payload(Packets[r]) = request[r].value
          /\ request[r].op \in CounterOps =>
                 Extras(Packets[r])[1] * Base + Extras(Packets[r])[2] = request[r].delta
<1>1. DOMAIN Packets = Sendable /\ Sendable \subseteq Listeners
  BY DEF Packets, Sendable, Listeners
<1>2. \A l \in Sendable : Packets[l] = PacketOf(l)
  BY DEF Packets
<1>3. ASSUME NEW r \in Sendable \ {Auth}
      PROVE  /\ request[r] \in Asked /\ request[r].op # "text" /\ request[r].op \in AllOps
             /\ IsPacket(Packets[r], r, request[r].op)
             /\ request[r].op # "auth"
             /\ Payload(Packets[r]) = request[r].value
             /\ request[r].op \in CounterOps =>
                    Extras(Packets[r])[1] * Base + Extras(Packets[r])[2] = request[r].delta
  <2>1. r \in Requests /\ request[r] \in Asked /\ request[r].op # "text" /\ r # Auth
    BY DEF Sendable
  <2>2. request[r].op \in AllOps
    BY <2>1, OpsAssumption DEF Asked
  <2>3. request[r].op # "auth"
    BY <2>2 DEF AllOps, StoreOps, ConcatOps, CounterOps, KeyOps, BareOps
  <2>4. Packets[r] = Packet(r, request[r])
    BY <1>2, <2>1 DEF PacketOf
  <2>5. LET p == Packet(r, request[r]) IN
           /\ IsPacket(p, r, request[r].op) /\ Payload(p) = request[r].value
           /\ request[r].op \in CounterOps =>
                  Extras(p)[1] * Base + Extras(p)[2] = request[r].delta
    BY <2>1, RequestPacket
  <2> QED
    BY <2>1, <2>2, <2>3, <2>4, <2>5
<1>4. ASSUME NEW l \in Sendable PROVE IsPacket(Packets[l], l, OpcodeOf(l))
  <2>1. CASE l = Auth
    BY <1>2, <2>1, AuthPacket DEF PacketOf, OpcodeOf
  <2>2. CASE l # Auth
    BY <1>3, <2>2 DEF OpcodeOf
  <2> QED
    BY <2>1, <2>2
<1>5. ASSUME NEW l \in Sendable
      PROVE  /\ IsUnit(Packets[l], Packets) /\ Packets[l] \in Seq(WordsType)
             /\ Len(Packets[l]) \in Nat /\ Len(Packets[l]) >= 2 /\ Len(Packets[l]) > 0
  <2>1. l \in DOMAIN Packets
    BY <1>1
  <2>2. IsUnit(Packets[l], Packets) /\ Len(Packets[l]) \in Nat /\ Len(Packets[l]) >= 2
    BY <1>4, <2>1, IsPacketIsUnit
  <2>3. Packets[l] \in Seq(WordsType)
    BY <1>4 DEF IsPacket
  <2> QED
    BY <2>2, <2>3
<1> QED
  BY <1>1, <1>2, <1>3, <1>4, <1>5

\* What the server finds at the head of what it was sent.
LEMMA HeadPacket ==
    ASSUME NEW buf \in Seq(WordsType), Framed(buf, Packets), buf # <<>>, buf[1].is = "first"
    PROVE  LET of   == buf[1].of
               p    == Packets[of]
               end  == buf[2].totalBodyLength
               rest == SubSeq(buf, HeaderSize + end + 1, Len(buf))
           IN  /\ of \in Sendable /\ buf[1].opcode = OpcodeOf(of)
               /\ Len(p) <= Len(buf) /\ Len(p) = HeaderSize + end /\ Len(p) \in Nat
               /\ \A j \in 1 .. Len(p) : buf[j] = p[j]
               /\ Numbers(Between(buf, 0, buf[1].extrasLength)) = Extras(p)
               /\ Numbers(Between(buf, buf[1].extrasLength + buf[1].keyLength, end)) = Payload(p)
               /\ rest \in Seq(WordsType) /\ Framed(rest, Packets)
<1> DEFINE of   == buf[1].of
           p    == Packets[of]
           end  == buf[2].totalBodyLength
<1>1. /\ of \in DOMAIN Packets /\ Len(p) <= Len(buf)
      /\ \A j \in 1 .. Len(p) : buf[j] = p[j]
      /\ SubSeq(buf, Len(p) + 1, Len(buf)) \in Seq(WordsType)
      /\ Framed(SubSeq(buf, Len(p) + 1, Len(buf)), Packets)
  <2>1. \A l \in DOMAIN Packets : Packets[l] \in Seq(WordsType) /\ Len(Packets[l]) > 0
    BY PacketsAreUnits
  <2> QED
    BY <2>1, FramedHead
<1>2. /\ of \in Sendable /\ IsPacket(p, of, OpcodeOf(of)) /\ Len(p) \in Nat /\ Len(p) >= 2
      /\ p \in Seq(WordsType)
  BY <1>1, PacketsAreUnits
<1> HIDE DEF p, of
<1>3. buf[1] = p[1] /\ buf[2] = p[2]
  BY <1>1, <1>2
<1>4. Len(p) = HeaderSize + end /\ buf[1].opcode = OpcodeOf(of)
  BY <1>2, <1>3 DEF IsPacket
<1> DEFINE x == buf[1].extrasLength
           k == buf[1].keyLength
<1>5. x \in Nat /\ k \in Nat /\ end \in Nat /\ x + k <= end
  BY <1>2, <1>3 DEF IsPacket
<1>6. ASSUME NEW i \in Nat, NEW j \in Nat, j <= end
      PROVE  Between(buf, i, j) = Between(p, i, j)
  <2> HIDE DEF end
  <2>1. Len(p) = 2 + end
    BY <1>4 DEF HeaderSize
  <2> DEFINE u == SubSeq(buf, 2 + i + 1, 2 + j)
             v == SubSeq(p, 2 + i + 1, 2 + j)
  <2>2. 2 + j <= Len(p) /\ 2 + j <= Len(buf) /\ 2 + i + 1 \in Nat /\ 2 + i + 1 > 0
    <3>1. Len(p) <= Len(buf) /\ Len(buf) \in Nat
      BY <1>1
    <3>2. j \in Nat /\ i \in Nat /\ end \in Nat /\ j <= end
      BY <1>5, <1>6
    <3>3. 2 + j <= Len(p)
      BY <2>1, <3>2
    <3>4. 2 + j <= Len(buf)
      BY <1>2, <3>1, <3>2, <3>3
    <3> QED
      BY <3>2, <3>3, <3>4
  <2> DEFINE a == 2 + i + 1
             b == 2 + j
  <2>3. a \in Nat /\ b \in Nat /\ a > 0 /\ b <= Len(p) /\ b <= Len(buf)
    BY <2>2
  <2> HIDE DEF a, b
  <2>4. SubSeq(buf, a, b) = SubSeq(p, a, b)
    <3>1. \A n \in a .. b : buf[n] = p[n]
      BY <1>1, <1>2, <2>3
    <3>2. /\ SubSeq(buf, a, b) = [n \in 1 .. (1 + b - a) |-> buf[a + n - 1]]
          /\ SubSeq(p, a, b) = [n \in 1 .. (1 + b - a) |-> p[a + n - 1]]
      BY <1>2, <2>3
    <3>3. \A n \in 1 .. (1 + b - a) : buf[a + n - 1] = p[a + n - 1]
      <4>1. \A n \in 1 .. (1 + b - a) : a + n - 1 \in a .. b
        BY <2>3
      <4> QED
        BY <3>1, <4>1
    <3> QED
      BY <3>2, <3>3
  <2> QED
    BY <2>4 DEF a, b, Between, HeaderSize
<1>7. Numbers(Between(buf, 0, x)) = Extras(p)
  <2>1. Between(buf, 0, x) = Between(p, 0, x)
    BY <1>5, <1>6
  <2> QED
    BY <1>3, <2>1 DEF Extras
<1>8. Numbers(Between(buf, x + k, end)) = Payload(p)
  <2>1. x + k \in Nat /\ end <= end
    BY <1>5
  <2>2. Between(buf, x + k, end) = Between(p, x + k, end)
    BY <1>5, <1>6, <2>1
  <2> QED
    BY <1>3, <2>2 DEF Payload
<1> QED
  BY <1>1, <1>2, <1>4, <1>7, <1>8 DEF p, of

-----------------------------------------------------------------------------
\* Types

LEMMA StreamsKept ==
    ASSUME TypeInv, request' = request,
           \A r \in Requests : result[r] # "none" => result'[r] # "none",
           \A s \in Sockets : toServer'[s] \in {toServer[s], <<>>}
    PROVE  \A s \in Sockets : Framed(toServer[s], Packets)'
<1>1. \A l \in DOMAIN Packets : l \in DOMAIN Packets' /\ Packets'[l] = Packets[l]
  BY DEF Packets, Sendable, PacketOf
<1> SUFFICES ASSUME NEW s \in Sockets
             PROVE  Framed(toServer'[s], Packets')
  OBVIOUS
<1>2. toServer[s] \in Seq(WordsType) /\ Framed(toServer[s], Packets)
  BY DEF TypeInv, TypeOK
<1>3. Framed(toServer[s], Packets')
  <2> DEFINE Q == Packets'
  <2>1. \A l \in DOMAIN Packets : l \in DOMAIN Q /\ Q[l] = Packets[l]
    BY <1>1
  <2> HIDE DEF Q
  <2>2. Framed(toServer[s], Q)
    BY <1>2, <2>1, FramedMore
  <2> QED
    BY <2>2 DEF Q
<1>4. CASE toServer'[s] = toServer[s]
  BY <1>3, <1>4
<1>5. CASE toServer'[s] = <<>>
  <2> DEFINE Q == Packets'
  <2>1. Framed(<<>>, Q)
    BY FramedEmpty
  <2> QED
    BY <1>5, <2>1
<1> QED
  BY <1>4, <1>5

LEMMA DropTyped ==
    ASSUME NEW S, NEW streams \in [Sockets -> Seq(S)], NEW s
    PROVE  /\ Drop(streams, s) \in [Sockets -> Seq(S)]
           /\ \A t \in Sockets : Drop(streams, s)[t] = IF t = s THEN <<>> ELSE streams[t]
  BY DEF Drop

LEMMA StreamsDropped ==
    ASSUME TypeOK, NEW s
    PROVE  /\ Drop(toServer, s) \in [Sockets -> Seq(WordsType)]
           /\ Drop(fromServer, s) \in [Sockets -> Seq(WordsType)]
           /\ \A t \in Sockets : Drop(toServer, s)[t] \in {toServer[t], <<>>}
<1>1. toServer \in [Sockets -> Seq(WordsType)] /\ fromServer \in [Sockets -> Seq(WordsType)]
  BY DEF TypeOK
<1>2. Drop(toServer, s) \in [Sockets -> Seq(WordsType)]
      /\ \A t \in Sockets : Drop(toServer, s)[t] = IF t = s THEN <<>> ELSE toServer[t]
  BY <1>1, DropTyped
<1>3. Drop(fromServer, s) \in [Sockets -> Seq(WordsType)]
  BY <1>1, DropTyped
<1> QED
  BY <1>2, <1>3

LEMMA DestroyTyped ==
    ASSUME NEW s,
           socketState \in [Sockets -> {"none", "connecting", "open", "destroyed", "closed"}]
    PROVE  /\ Destroy(s) \in [Sockets -> {"none", "connecting", "open", "destroyed", "closed"}]
           /\ \A t \in Sockets :
                  Destroy(s)[t] = IF t = s /\ Alive(t) THEN "destroyed" ELSE socketState[t]
  BY DEF Destroy

LEMMA RejectTyped ==
    ASSUME TypeOK, RejectPendingCommands
    PROVE  /\ commandQueue' \in Seq(Requests)
           /\ result' \in [Requests -> {"none", "pending", "resolved", "closed"}]
           /\ \A r \in Requests : result[r] # "none" => result'[r] # "none"
           /\ \A r \in Requests : result'[r] \in {result[r], "closed"}
<1>1. \A r \in Requests : result'[r] \in {result[r], "closed"}
  BY DEF RejectPendingCommands
<1> QED
  BY <1>1 DEF RejectPendingCommands, TypeOK

LEMMA TypeInit == Init => TypeInv
<1> SUFFICES ASSUME Init PROVE TypeInv
  OBVIOUS
<1>1. \A s \in Sockets : Framed(toServer[s], Packets)
  BY FramedEmpty DEF Init
<1>2. NoRequest \in [op : AllOps \cup {"none"}, value : Values \cup {<<>>}, delta : Deltas \cup {0}]
  BY DEF NoRequest
<1>3. stored \in StoredType
  BY DEF StoredType, Init
<1>4. commandQueue \in Seq(Requests)
  BY DEF Init
<1>5. taken \in [Requests -> Seq(Seq(WordsType))]
  BY DEF Init
<1>6. heard \in [Sockets -> [Listeners -> Seq(WordsType)]]
  BY DEF Init
<1>7. toServer \in [Sockets -> Seq(WordsType)] /\ fromServer \in [Sockets -> Seq(WordsType)]
  BY DEF Init
<1>8. ran \in [Requests -> Seq([before : StoredType, after : StoredType, refused : BOOLEAN])]
  BY DEF Init
<1>9. /\ request \in [Requests -> [op : AllOps \cup {"none"}, value : Values \cup {<<>>},
                                   delta : Deltas \cup {0}]]
      /\ via \in [Requests -> Sockets \cup {None}]
      /\ result \in [Requests -> {"none", "pending", "resolved", "closed"}]
  BY <1>2 DEF Init
<1>10. /\ connected \in BOOLEAN /\ authenticated \in BOOLEAN /\ socket \in Sockets \cup {None}
       /\ connectPromise \in [Sockets -> {"none", "pending", "resolved", "rejected"}]
       /\ socketState \in [Sockets -> {"none", "connecting", "open", "destroyed", "closed"}]
       /\ listening \in [Sockets -> SUBSET Listeners]
       /\ session \subseteq Sockets
  BY DEF Init
<1>11. TypeOK
  BY <1>3, <1>4, <1>5, <1>6, <1>7, <1>8, <1>9, <1>10 DEF TypeOK
<1> QED
  BY <1>1, <1>11 DEF TypeInv

\* An action that writes nothing.
LEMMA ConnectTyped ==
    ASSUME TypeInv, NEW s \in Sockets, Connect(s)
    PROVE  TypeInv'
<1>1. TypeOK'
  BY DEF Connect, CreateConnection, callVars, serverVars, TypeInv, TypeOK
<1>2. \A t \in Sockets : Framed(toServer[t], Packets)'
  BY StreamsKept DEF Connect, callVars, serverVars
<1> QED
  BY <1>1, <1>2 DEF TypeInv

LEMMA DisconnectTyped ==
    ASSUME TypeInv, Disconnect
    PROVE  TypeInv'
<1>1. TypeOK
  BY DEF TypeInv
<1>2. /\ socketState' \in [Sockets -> {"none", "connecting", "open", "destroyed", "closed"}]
      /\ toServer' \in [Sockets -> Seq(WordsType)] /\ fromServer' \in [Sockets -> Seq(WordsType)]
      /\ \A s \in Sockets : toServer'[s] \in {toServer[s], <<>>}
  <2>1. Destroy(socket) \in [Sockets -> {"none", "connecting", "open", "destroyed", "closed"}]
    BY <1>1, DestroyTyped DEF TypeOK
  <2> QED
    BY <1>1, <2>1, StreamsDropped DEF Disconnect
<1>3. TypeOK'
  BY <1>1, <1>2 DEF Disconnect, callVars, TypeOK
<1>4. \A t \in Sockets : Framed(toServer[t], Packets)'
  BY <1>2, StreamsKept DEF Disconnect, callVars
<1> QED
  BY <1>3, <1>4 DEF TypeInv

LEMMA ReconnectTyped ==
    ASSUME TypeInv, NEW s \in Sockets, Reconnect(s)
    PROVE  TypeInv'
<1>1. TypeOK /\ RejectPendingCommands
  BY DEF TypeInv, Reconnect
<1>2. /\ socketState' \in [Sockets -> {"none", "connecting", "open", "destroyed", "closed"}]
      /\ toServer' \in [Sockets -> Seq(WordsType)] /\ fromServer' \in [Sockets -> Seq(WordsType)]
      /\ \A t \in Sockets : toServer'[t] \in {toServer[t], <<>>}
  <2>1. Destroy(socket) \in [Sockets -> {"none", "connecting", "open", "destroyed", "closed"}]
    BY <1>1, DestroyTyped DEF TypeOK
  <2> QED
    BY <1>1, <2>1, StreamsDropped DEF Reconnect, CreateConnection, TypeOK
<1>3. TypeOK'
  BY <1>1, <1>2, RejectTyped DEF Reconnect, CreateConnection, TypeOK
<1>4. \A t \in Sockets : Framed(toServer[t], Packets)'
  BY <1>1, <1>2, RejectTyped, StreamsKept DEF Reconnect
<1> QED
  BY <1>3, <1>4 DEF TypeInv

LEMMA EndsTyped ==
    ASSUME TypeInv, NEW s \in Sockets, Ends(s),
           connectPromise' \in {connectPromise, RejectConnect(s)}
    PROVE  TypeInv'
<1>1. TypeOK
  BY DEF TypeInv
<1>2. /\ socketState' \in [Sockets -> {"none", "connecting", "open", "destroyed", "closed"}]
      /\ toServer' \in [Sockets -> Seq(WordsType)] /\ fromServer' \in [Sockets -> Seq(WordsType)]
      /\ \A t \in Sockets : toServer'[t] \in {toServer[t], <<>>}
  <2>1. Destroy(s) \in [Sockets -> {"none", "connecting", "open", "destroyed", "closed"}]
    BY <1>1, DestroyTyped DEF TypeOK
  <2> QED
    BY <1>1, <2>1, StreamsDropped DEF Ends
<1>3. connectPromise' \in [Sockets -> {"none", "pending", "resolved", "rejected"}]
  BY <1>1, ZenonT(30) DEF RejectConnect, TypeOK
<1>4. TypeOK'
  BY <1>1, <1>2, <1>3 DEF Ends, callVars, TypeOK
<1>5. \A t \in Sockets : Framed(toServer[t], Packets)'
  BY <1>2, StreamsKept DEF Ends, callVars
<1> QED
  BY <1>4, <1>5 DEF TypeInv

LEMMA ClosedTyped ==
    ASSUME TypeInv, NEW s \in Sockets, Closed(s)
    PROVE  TypeInv'
<1>1. TypeOK /\ RejectPendingCommands
  BY DEF TypeInv, Closed
<1>2. TypeOK'
  BY <1>1, RejectTyped DEF Closed, serverVars, TypeOK
<1>3. \A t \in Sockets : Framed(toServer[t], Packets)'
  BY <1>1, RejectTyped, StreamsKept DEF Closed, serverVars
<1> QED
  BY <1>2, <1>3 DEF TypeInv

\* A request is written as a whole.
LEMMA WriteTyped ==
    ASSUME TypeInv, NEW r \in Requests, NEW q \in Asked, NEW words, Write(r, q, words),
           socket # None, NEW v \in {"pending", "resolved"}, result' = [result EXCEPT ![r] = v],
           \/ q.op # "text" /\ words = Packet(r, q)
           \/ q.op = "text" /\ words = <<[is |-> "text", of |-> r]>>
    PROVE  /\ \A s \in Sockets : Framed(toServer[s], Packets)'
           /\ toServer' \in [Sockets -> Seq(WordsType)]
           /\ request' \in [Requests -> [op : AllOps \cup {"none"}, value : Values \cup {<<>>},
                                         delta : Deltas \cup {0}]]
           /\ via' \in [Requests -> Sockets \cup {None}]
           /\ result' \in [Requests -> {"none", "pending", "resolved", "closed"}]
<1>1. TypeOK /\ socket \in Sockets
  BY DEF TypeInv, TypeOK
<1>2. /\ request' \in [Requests -> [op : AllOps \cup {"none"}, value : Values \cup {<<>>},
                                    delta : Deltas \cup {0}]]
      /\ request'[r] = q /\ \A p \in Requests : p # r => request'[p] = request[p]
  <2>1. q \in [op : AllOps \cup {"none"}, value : Values \cup {<<>>}, delta : Deltas \cup {0}]
    BY OpsAssumption DEF Asked
  <2> QED
    BY <1>1, <2>1 DEF Write, TypeOK
<1>3. via' \in [Requests -> Sockets \cup {None}]
  BY <1>1 DEF Write, TypeOK
<1>4. /\ result' \in [Requests -> {"none", "pending", "resolved", "closed"}]
      /\ result'[r] = v /\ \A p \in Requests : p # r => result'[p] = result[p]
  BY <1>1 DEF TypeOK
<1> DEFINE Q == Packets'
<1>5. \A l \in DOMAIN Packets : l \in DOMAIN Q /\ Q[l] = Packets[l]
  <2>1. r \notin Sendable
    <3>1. result[r] = "none" /\ r # Auth
      BY DEF Write, Auth, Requests
    <3> QED
      BY <3>1 DEF Sendable
  <2>2. ASSUME NEW l \in Sendable
        PROVE  l \in Sendable' /\ PacketOf(l)' = PacketOf(l)
    <3>1. l # r /\ (l # Auth => l \in Requests)
      BY <2>1 DEF Sendable
    <3> QED
      BY <1>2, <1>4, <3>1 DEF Sendable, PacketOf
  <2> QED
    BY <2>2 DEF Packets
<1>6. IsUnit(words, Q)
  <2>1. CASE q.op # "text" /\ words = Packet(r, q)
    <3>1. r \in Sendable' /\ PacketOf(r)' = words
      BY <1>2, <1>4, <2>1 DEF Sendable, PacketOf, Auth, Requests
    <3>2. r \in DOMAIN Q /\ Q[r] = words
      BY <3>1 DEF Packets
    <3>3. IsPacket(words, r, q.op)
      BY <2>1, RequestPacket
    <3> HIDE DEF Q
    <3> QED
      BY <3>2, <3>3, IsPacketIsUnit
  <2>2. CASE q.op = "text" /\ words = <<[is |-> "text", of |-> r]>>
    <3> HIDE DEF Q
    <3> DEFINE w == [is |-> "text", of |-> r]
    <3>1. w \in WordsType /\ w.is = "text" /\ Starts(w)
      BY DEF WordsType, Starts
    <3> HIDE DEF w
    <3>2. words = <<w>>
      BY <2>2 DEF w
    <3> QED
      BY <3>1, <3>2 DEF IsUnit
  <2> QED
    BY <2>1, <2>2
<1>7. \A l \in DOMAIN Q : Q[l] \in Seq(WordsType) /\ Len(Q[l]) > 0
  <2>1. \A l \in DOMAIN Packets : Packets[l] \in Seq(WordsType) /\ Len(Packets[l]) > 0
    BY PacketsAreUnits
  <2>2. ASSUME NEW l \in DOMAIN Q, l # r PROVE l \in DOMAIN Packets
    BY <1>2, <1>4, <2>2 DEF Packets, Sendable
  <2>3. r \in DOMAIN Q => Q[r] \in Seq(WordsType) /\ Len(Q[r]) > 0
    <3>1. CASE q.op # "text" /\ words = Packet(r, q)
      <4>1. r \in DOMAIN Q => Q[r] = words
        BY <1>2, <3>1 DEF Packets, PacketOf, Auth, Requests
      <4> HIDE DEF Q
      <4> QED
        BY <1>6, <4>1 DEF IsUnit
    <3>2. CASE q.op = "text"
      BY <1>2, <3>2 DEF Packets, Sendable, Auth, Requests
    <3> QED
      BY <3>1, <3>2
  <2> HIDE DEF Q
  <2> QED
    BY <1>5, <2>1, <2>2, <2>3
<1> HIDE DEF Q
<1>8. ASSUME NEW s \in Sockets
      PROVE  /\ toServer'[s] \in Seq(WordsType) /\ Framed(toServer'[s], Q)
  <2>1. toServer[s] \in Seq(WordsType) /\ Framed(toServer[s], Packets)
    BY <1>1 DEF TypeInv, TypeOK
  <2>2. Framed(toServer[s], Q)
    BY <1>5, <2>1, FramedMore
  <2>3. toServer'[s] = toServer[s] \/ toServer'[s] = toServer[s] \o words
    BY <1>1 DEF Write, TypeOK
  <2>4. toServer[s] \o words \in Seq(WordsType) /\ Framed(toServer[s] \o words, Q)
    BY <1>6, <1>7, <2>1, <2>2, FramedJoin
  <2> QED
    BY <2>1, <2>2, <2>3, <2>4
<1>9. toServer' \in [Sockets -> Seq(WordsType)]
  <2>1. toServer' = toServer \/ toServer' = [toServer EXCEPT ![socket] = toServer[socket] \o words]
    BY DEF Write
  <2>2. words \in Seq(WordsType)
    BY <1>6 DEF IsUnit
  <2> QED
    <3>1. toServer \in [Sockets -> Seq(WordsType)] /\ toServer[socket] \in Seq(WordsType)
      BY <1>1 DEF TypeOK
    <3>2. toServer[socket] \o words \in Seq(WordsType)
      BY <2>2, <3>1, Joined
    <3> QED
      BY <1>1, <2>1, <3>1, <3>2
<1> QED
  BY <1>2, <1>3, <1>4, <1>8, <1>9 DEF Q

LEMMA BinaryRequestTyped ==
    ASSUME TypeInv, NEW r \in Requests, NEW q \in Asked, BinaryRequest(r, q)
    PROVE  TypeInv'
<1>1. TypeOK /\ socket # None /\ Write(r, q, Packet(r, q)) /\ q.op # "text"
  BY DEF TypeInv, BinaryRequest, MayAsk
<1>2. result' = [result EXCEPT ![r] = "pending"]
  BY DEF BinaryRequest
<1>3. /\ \A s \in Sockets : Framed(toServer[s], Packets)'
      /\ toServer' \in [Sockets -> Seq(WordsType)]
      /\ request' \in [Requests -> [op : AllOps \cup {"none"}, value : Values \cup {<<>>},
                                         delta : Deltas \cup {0}]]
      /\ via' \in [Requests -> Sockets \cup {None}]
      /\ result' \in [Requests -> {"none", "pending", "resolved", "closed"}]
  BY <1>1, <1>2, WriteTyped
<1>4. listening' \in [Sockets -> SUBSET Listeners]
  BY <1>1 DEF BinaryRequest, TypeOK, Listeners
<1>5. TypeOK'
  BY <1>1, <1>3, <1>4 DEF BinaryRequest, Write, TypeOK
<1> QED
  BY <1>3, <1>5 DEF TypeInv

LEMMA BinaryQuitTyped ==
    ASSUME TypeInv, NEW r \in Requests, NEW q \in Asked, BinaryQuit(r, q)
    PROVE  TypeInv'
<1>1. TypeOK /\ socket # None /\ Write(r, q, Packet(r, q)) /\ q.op # "text"
  BY DEF TypeInv, BinaryQuit, MayAsk
<1>2. result' = [result EXCEPT ![r] = "resolved"]
  BY DEF BinaryQuit
<1>3. /\ \A s \in Sockets : Framed(toServer[s], Packets)'
      /\ toServer' \in [Sockets -> Seq(WordsType)]
      /\ request' \in [Requests -> [op : AllOps \cup {"none"}, value : Values \cup {<<>>},
                                         delta : Deltas \cup {0}]]
      /\ via' \in [Requests -> Sockets \cup {None}]
      /\ result' \in [Requests -> {"none", "pending", "resolved", "closed"}]
  BY <1>1, <1>2, WriteTyped
<1>4. TypeOK'
  BY <1>1, <1>3 DEF BinaryQuit, Write, TypeOK
<1> QED
  BY <1>3, <1>4 DEF TypeInv

LEMMA CommandTyped ==
    ASSUME TypeInv, NEW r \in Requests, NEW q \in Asked, Command(r, q)
    PROVE  TypeInv'
<1>1. TypeOK /\ socket # None /\ Write(r, q, <<[is |-> "text", of |-> r]>>) /\ q.op = "text"
  BY DEF TypeInv, Command
<1>2. result' = [result EXCEPT ![r] = "pending"]
  BY DEF Command
<1>3. /\ \A s \in Sockets : Framed(toServer[s], Packets)'
      /\ toServer' \in [Sockets -> Seq(WordsType)]
      /\ request' \in [Requests -> [op : AllOps \cup {"none"}, value : Values \cup {<<>>},
                                         delta : Deltas \cup {0}]]
      /\ via' \in [Requests -> Sockets \cup {None}]
      /\ result' \in [Requests -> {"none", "pending", "resolved", "closed"}]
  BY <1>1, <1>2, WriteTyped
<1>4. commandQueue' \in Seq(Requests)
  BY <1>1 DEF Command, TypeOK
<1>5. TypeOK'
  BY <1>1, <1>3, <1>4 DEF Command, Write, TypeOK
<1> QED
  BY <1>3, <1>5 DEF TypeInv

LEMMA ReadyTyped ==
    ASSUME TypeInv, NEW s \in Sockets, Ready(s), socket \in Sockets
    PROVE  TypeInv'
<1>1. TypeOK /\ request' = request /\ result' = result
  BY DEF TypeInv, Ready, callVars
<1> DEFINE p == BuildSaslPlain(Auth, <<1>>, <<0, 1>>)
<1>2. /\ Auth \in Sendable /\ Packets[Auth] = p /\ IsUnit(p, Packets) /\ p \in Seq(WordsType)
      /\ \A l \in DOMAIN Packets : Packets[l] \in Seq(WordsType) /\ Len(Packets[l]) > 0
  <2>1. Auth \in Sendable
    BY DEF Sendable
  <2>2. Packets[Auth] = p
    BY <2>1 DEF Packets, PacketOf
  <2> QED
    BY <2>1, <2>2, PacketsAreUnits
<1>3. Packets' = Packets
  BY <1>1 DEF Packets, Sendable, PacketOf
<1> HIDE DEF p
<1>4. toServer' = [toServer EXCEPT ![socket] = toServer[socket] \o p]
  BY DEF Ready, p
<1>5. toServer \in [Sockets -> Seq(WordsType)] /\ toServer[socket] \in Seq(WordsType)
  BY <1>1 DEF TypeOK
<1>6. toServer[socket] \o p \in Seq(WordsType) /\ Framed(toServer[socket] \o p, Packets)
  <2>1. Framed(toServer[socket], Packets)
    BY DEF TypeInv
  <2> QED
    BY <1>2, <1>5, <2>1, FramedJoin
<1>7. toServer' \in [Sockets -> Seq(WordsType)]
  BY <1>4, <1>5, <1>6
<1>8. \A t \in Sockets : Framed(toServer[t], Packets)'
  <2>1. \A t \in Sockets : toServer'[t] = toServer[t] \/ toServer'[t] = toServer[socket] \o p
    BY <1>4, <1>5
  <2> QED
    BY <1>3, <1>6, <2>1 DEF TypeInv
<1>9. listening' \in [Sockets -> SUBSET Listeners]
      /\ socketState' \in [Sockets -> {"none", "connecting", "open", "destroyed", "closed"}]
  BY <1>1 DEF Ready, TypeOK, Listeners
<1>10. TypeOK'
  BY <1>1, <1>7, <1>9 DEF Ready, callVars, TypeOK
<1> QED
  BY <1>8, <1>10 DEF TypeInv

\* What a listener takes is made of words.
LEMMA JunkTyped == \A junk \in Junk : junk \in Seq(WordsType)
<1>1. Auth \in Listeners /\ "version" \in OpCodes /\ "success" \in Statuses /\ "invalid" \in Statuses
  BY DEF Listeners, OpCodes, Statuses, AllOps, BareOps
<1>2. /\ SerializeHeader(Auth, "version", "success", 0, 0, 0) \in Seq(WordsType)
      /\ SerializeHeader(Auth, "version", "invalid", 0, 0, 0) \in Seq(WordsType)
  BY <1>1, HeaderWords
<1>3. <<>> \in Seq(WordsType)
  OBVIOUS
<1> QED
  BY <1>2, <1>3 DEF Junk

LEMMA TakesTyped ==
    ASSUME TypeOK, NEW s \in Sockets, NEW l \in Listeners, NEW w \in WordsType, NEW junk \in Junk
    PROVE  /\ Takes(s, l, w, junk) \in Seq(WordsType)
           /\ Append(heard[s][l], w) \in Seq(WordsType)
<1>1. heard[s][l] \in Seq(WordsType)
  BY DEF TypeOK
<1>2. Append(heard[s][l], w) \in Seq(WordsType)
  BY <1>1
<1>3. <<>> \in Seq(WordsType)
  OBVIOUS
<1> QED
  BY <1>2, <1>3, JunkTyped DEF Takes

LEMMA DeliverTyped ==
    ASSUME TypeInv, NEW s \in Sockets, Deliver(s)
    PROVE  TypeInv'
<1>1. TypeOK /\ fromServer[s] # <<>> /\ UNCHANGED <<socket, commandQueue, request, via, session, stored, ran>>
  BY DEF TypeInv, Deliver
<1>2. PICK junk \in Junk :
          LET got == [l \in listening[s] |-> Takes(s, l, Head(fromServer[s]), junk)]
          IN  Data(s, got) \/ Authenticated(s, got) \/ NotAuthenticated(s, got)
  BY DEF Deliver
<1> DEFINE got == [l \in listening[s] |-> Takes(s, l, Head(fromServer[s]), junk)]
<1>3. fromServer[s] \in Seq(WordsType) /\ Head(fromServer[s]) \in WordsType
      /\ Tail(fromServer[s]) \in Seq(WordsType) /\ listening[s] \subseteq Listeners
  BY <1>1 DEF TypeOK
<1>4. \A l \in listening[s] : got[l] \in Seq(WordsType)
  BY <1>1, <1>3, TakesTyped
<1>5. \A l \in Listeners : Append(heard[s][l], Head(fromServer[s])) \in Seq(WordsType)
  BY <1>1, <1>3, TakesTyped
<1> HIDE DEF got
<1>6. RequestsHear(s, got)
  BY <1>2 DEF got, Data, Authenticated, NotAuthenticated
<1>7. fromServer' \in [Sockets -> Seq(WordsType)]
  BY <1>1, <1>3, <1>6 DEF RequestsHear, TypeOK
<1>8. listening' \in [Sockets -> SUBSET Listeners]
  BY <1>1, <1>3, <1>6 DEF RequestsHear, TypeOK
<1>9. heard' \in [Sockets -> [Listeners -> Seq(WordsType)]]
  <2> DEFINE h == [l \in Listeners |-> IF l \notin listening[s] \/ got[l] # <<>> THEN <<>>
                                       ELSE Append(heard[s][l], Head(fromServer[s]))]
  <2>1. h \in [Listeners -> Seq(WordsType)]
    <3>1. <<>> \in Seq(WordsType)
      OBVIOUS
    <3> QED
      BY <1>5, <3>1
  <2>2. heard' = [heard EXCEPT ![s] = h]
    BY <1>6 DEF RequestsHear
  <2> HIDE DEF h
  <2> QED
    BY <1>1, <2>1, <2>2 DEF TypeOK
<1>10. /\ result' \in [Requests -> {"none", "pending", "resolved", "closed"}]
       /\ \A r \in Requests : result[r] # "none" => result'[r] # "none"
  BY <1>1, <1>6 DEF RequestsHear, TypeOK
<1>11. taken' \in [Requests -> Seq(Seq(WordsType))]
  <2>1. ASSUME NEW r \in Requests, r \in listening[s]
        PROVE  Append(taken[r], got[r]) \in Seq(Seq(WordsType))
    <3>1. taken[r] \in Seq(Seq(WordsType)) /\ got[r] \in Seq(WordsType)
      BY <1>1, <1>4, <2>1 DEF TypeOK
    <3> QED
      BY <3>1
  <2> QED
    BY <1>1, <1>6, <2>1 DEF RequestsHear, TypeOK
<1>12. /\ connected' \in BOOLEAN /\ authenticated' \in BOOLEAN
       /\ connectPromise' \in [Sockets -> {"none", "pending", "resolved", "rejected"}]
       /\ socketState' \in [Sockets -> {"none", "connecting", "open", "destroyed", "closed"}]
       /\ toServer' \in [Sockets -> Seq(WordsType)]
       /\ \A t \in Sockets : toServer'[t] \in {toServer[t], <<>>}
  <2>1. CASE Data(s, got)
    BY <1>1, <2>1 DEF Data, TypeOK
  <2>2. CASE Authenticated(s, got)
    BY <1>1, <2>2 DEF Authenticated, TypeOK
  <2>3. CASE NotAuthenticated(s, got)
    <3>1. Destroy(socket) \in [Sockets -> {"none", "connecting", "open", "destroyed", "closed"}]
      BY <1>1, DestroyTyped DEF TypeOK
    <3>2. toServer' \in [Sockets -> Seq(WordsType)]
          /\ \A t \in Sockets : toServer'[t] \in {toServer[t], <<>>}
      BY <1>1, <2>3, StreamsDropped DEF NotAuthenticated
    <3>3. connectPromise' \in [Sockets -> {"none", "pending", "resolved", "rejected"}]
      BY <1>1, <2>3 DEF NotAuthenticated, TypeOK
    <3> QED
      BY <2>3, <3>1, <3>2, <3>3 DEF NotAuthenticated
  <2> QED
    BY <1>2, <2>1, <2>2, <2>3 DEF got
<1>13. TypeOK'
  BY <1>1, <1>7, <1>8, <1>9, <1>10, <1>11, <1>12 DEF TypeOK
<1>14. \A t \in Sockets : Framed(toServer[t], Packets)'
  BY <1>1, <1>10, <1>12, StreamsKept
<1> QED
  BY <1>13, <1>14 DEF TypeInv

\* The execution of the credentials, and of a request.
ExecutesAuth(s, status) ==
    /\ session' = IF status = "success" THEN session \cup {s} ELSE session
    /\ fromServer' = [fromServer EXCEPT ![s] = @ \o AuthAnswer(status)]
    /\ UNCHANGED <<stored, ran>>

Refused(s, r) == s \notin session /\ request[r].op # "version"
Result(s, r)  == IF Refused(s, r) THEN stored
                 ELSE Effect(request[r].op, request[r].value, request[r].delta, stored)

ExecutesRequest(s, r) ==
    /\ stored' = Result(s, r)
    /\ ran' = [ran EXCEPT ![r] = Append(@, [before |-> stored, after |-> Result(s, r),
                                           refused |-> Refused(s, r)])]
    /\ fromServer' = [fromServer EXCEPT ![s] = @ \o
            IF Refused(s, r) THEN Response(r, request[r].op, "authError", <<>>, <<1>>)
            ELSE Answer(r, request[r].op, stored, Result(s, r))]
    /\ UNCHANGED session

LEMMA ExecuteFacts ==
    ASSUME TypeInv, NEW s \in Sockets, Execute(s)
    PROVE  LET of   == toServer[s][1].of
               rest == SubSeq(toServer[s], Len(Packets[of]) + 1, Len(toServer[s]))
           IN  /\ 1 \in Heads(s) /\ of \in Sendable
               /\ Len(Packets[of]) <= Len(toServer[s])
               /\ \A j \in 1 .. Len(Packets[of]) : toServer[s][j] = Packets[of][j]
               /\ rest \in Seq(WordsType) /\ Framed(rest, Packets)
               /\ toServer' = [toServer EXCEPT ![s] = rest]
               /\ of = Auth => \E status \in {"success", "authError"} : ExecutesAuth(s, status)
               /\ of # Auth => ExecutesRequest(s, of)
<1> DEFINE buf  == toServer[s]
           of   == buf[1].of
           rest == SubSeq(buf, Len(Packets[of]) + 1, Len(buf))
<1>1. buf \in Seq(WordsType) /\ Framed(buf, Packets) /\ buf # <<>> /\ Head(buf) = buf[1]
      /\ buf[1].is = "first" /\ 1 \in DOMAIN buf
  <2>1. buf \in Seq(WordsType) /\ Framed(buf, Packets)
    BY DEF TypeInv, TypeOK
  <2>2. buf # <<>> /\ Head(buf).is = "first"
    BY DEF Execute
  <2> HIDE DEF buf
  <2> QED
    BY <2>1, <2>2
<1>2. /\ of \in Sendable /\ buf[1].opcode = OpcodeOf(of)
      /\ Len(Packets[of]) <= Len(buf) /\ Len(Packets[of]) = HeaderSize + buf[2].totalBodyLength
      /\ \A j \in 1 .. Len(Packets[of]) : buf[j] = Packets[of][j]
      /\ Numbers(Between(buf, 0, buf[1].extrasLength)) = Extras(Packets[of])
      /\ Numbers(Between(buf, buf[1].extrasLength + buf[1].keyLength, buf[2].totalBodyLength))
             = Payload(Packets[of])
      /\ SubSeq(buf, HeaderSize + buf[2].totalBodyLength + 1, Len(buf)) \in Seq(WordsType)
      /\ Framed(SubSeq(buf, HeaderSize + buf[2].totalBodyLength + 1, Len(buf)), Packets)
  <2> HIDE DEF buf
  <2> QED
    BY <1>1, HeadPacket
<1>3. SubSeq(buf, HeaderSize + buf[2].totalBodyLength + 1, Len(buf)) = rest
  BY <1>2
<1> DEFINE header  == DeserializeHeader(buf)
           opcode  == buf[1].opcode
           extras  == Extras(Packets[of])
           value   == Payload(Packets[of])
           delta   == IF opcode \in CounterOps THEN extras[1] * Base + extras[2] ELSE 0
           refused == s \notin session /\ opcode # "version"
           new     == IF refused THEN stored ELSE Effect(opcode, value, delta, stored)
<1>4. /\ toServer' = [toServer EXCEPT ![s] = rest]
      /\ \/ /\ opcode = "auth"
            /\ \/ /\ session' = session \cup {s}
                  /\ fromServer' = [fromServer EXCEPT ![s] = @ \o AuthAnswer("success")]
               \/ /\ session' = session
                  /\ fromServer' = [fromServer EXCEPT ![s] = @ \o AuthAnswer("authError")]
            /\ UNCHANGED <<stored, ran>>
         \/ /\ opcode # "auth"
            /\ stored' = new
            /\ ran' = [ran EXCEPT ![of] =
                   Append(@, [before |-> stored, after |-> new, refused |-> refused])]
            /\ fromServer' = [fromServer EXCEPT ![s] = @ \o
                   IF refused THEN Response(of, opcode, "authError", <<>>, <<1>>)
                   ELSE Answer(of, opcode, stored, new)]
            /\ UNCHANGED session
  <2>1. /\ header.totalBodyLength = buf[2].totalBodyLength /\ header.opcode = opcode
        /\ header.extrasLength = buf[1].extrasLength /\ header.keyLength = buf[1].keyLength
        /\ header.of = of
    BY DEF DeserializeHeader
  <2> DEFINE end       == header.totalBodyLength
             keyEnd    == header.extrasLength + header.keyLength
             extras2   == Numbers(Between(buf, 0, header.extrasLength))
             value2    == Numbers(Between(buf, keyEnd, end))
             delta2    == IF header.opcode \in CounterOps THEN extras2[1] * Base + extras2[2] ELSE 0
             refused2  == s \notin session /\ header.opcode # "version"
             new2      == IF refused2 THEN stored
                          ELSE Effect(header.opcode, value2, delta2, stored)
  <2>2. /\ toServer' = [toServer EXCEPT ![s] = SubSeq(@, HeaderSize + end + 1, Len(@))]
        /\ \/ /\ header.opcode = "auth"
              /\ \/ /\ session' = session \cup {s}
                    /\ fromServer' = [fromServer EXCEPT ![s] = @ \o AuthAnswer("success")]
                 \/ /\ session' = session
                    /\ fromServer' = [fromServer EXCEPT ![s] = @ \o AuthAnswer("authError")]
              /\ UNCHANGED <<stored, ran>>
           \/ /\ header.opcode # "auth"
              /\ stored' = new2
              /\ ran' = [ran EXCEPT ![header.of] =
                     Append(@, [before |-> stored, after |-> new2, refused |-> refused2])]
              /\ fromServer' = [fromServer EXCEPT ![s] = @ \o
                     IF refused2 THEN Response(header.of, header.opcode, "authError", <<>>, <<1>>)
                     ELSE Answer(header.of, header.opcode, stored, new2)]
              /\ UNCHANGED session
    BY DEF Execute
  <2>3. extras2 = extras /\ value2 = value
    <3> HIDE DEF header, buf
    <3> QED
      BY <1>2, <2>1
  <2>4. delta2 = delta
    <3> HIDE DEF header, buf, extras, extras2
    <3> QED
      BY <2>1, <2>3
  <2>5. new2 = new /\ refused2 = refused
    <3> HIDE DEF header, buf, value, value2, delta, delta2
    <3> QED
      BY <2>1, <2>3, <2>4
  <2>6. toServer' = [toServer EXCEPT ![s] = rest]
    <3>1. toServer' = [toServer EXCEPT ![s] = SubSeq(buf, HeaderSize + end + 1, Len(buf))]
      BY <2>2
    <3> HIDE DEF rest, header, buf
    <3> QED
      BY <1>3, <2>1, <3>1
  <2> HIDE DEF rest, header, new, new2, refused, refused2, buf
  <2> QED
    BY <2>1, <2>2, <2>5, <2>6
<1>5. CASE of = Auth
  <2>1. opcode = "auth"
    BY <1>2, <1>5 DEF OpcodeOf
  <2>2. \E status \in {"success", "authError"} : ExecutesAuth(s, status)
    BY <1>4, <2>1 DEF ExecutesAuth
  <2> QED
    BY <1>1, <1>2, <1>3, <1>4, <1>5, <2>2 DEF Heads
<1>6. CASE of # Auth
  <2>1. /\ opcode = request[of].op /\ opcode # "auth" /\ value = request[of].value
        /\ request[of] \in Asked
        /\ opcode \in CounterOps => extras[1] * Base + extras[2] = request[of].delta
    BY <1>2, <1>6, PacketsAreUnits DEF OpcodeOf
  <2>2. delta = request[of].delta
    BY <2>1 DEF Asked
  <2>3. refused = Refused(s, of) /\ new = Result(s, of)
    BY <2>1, <2>2 DEF Refused, Result
  <2> HIDE DEF rest, new, refused
  <2>4. ExecutesRequest(s, of)
    BY <1>4, <2>1, <2>3 DEF ExecutesRequest
  <2> QED
    BY <1>1, <1>2, <1>3, <1>4, <1>6, <2>4 DEF Heads, rest
<1> QED
  BY <1>5, <1>6

LEMMA ExecuteTyped ==
    ASSUME TypeInv, NEW s \in Sockets, Execute(s)
    PROVE  TypeInv'
<1> DEFINE of   == toServer[s][1].of
           rest == SubSeq(toServer[s], Len(Packets[of]) + 1, Len(toServer[s]))
<1>1. /\ of \in Sendable /\ rest \in Seq(WordsType) /\ Framed(rest, Packets)
      /\ toServer' = [toServer EXCEPT ![s] = rest]
      /\ of = Auth => \E status \in {"success", "authError"} : ExecutesAuth(s, status)
      /\ of # Auth => ExecutesRequest(s, of)
  BY ExecuteFacts
<1> HIDE DEF rest, of
<1>2. /\ TypeOK
      /\ UNCHANGED <<connected, authenticated, socket, commandQueue, request, via, result, taken,
                     connectPromise, socketState, listening, heard>>
  BY DEF TypeInv, Execute, callVars
<1>3. Packets' = Packets
  BY <1>2 DEF Packets, Sendable, PacketOf
<1>4. toServer' \in [Sockets -> Seq(WordsType)] /\ \A t \in Sockets : Framed(toServer[t], Packets)'
  BY <1>1, <1>2, <1>3 DEF TypeInv, TypeOK
<1>5. fromServer[s] \in Seq(WordsType) /\ stored \in StoredType
  BY <1>2 DEF TypeOK
<1>6. /\ fromServer' \in [Sockets -> Seq(WordsType)] /\ session' \subseteq Sockets
      /\ stored' \in StoredType
      /\ ran' \in [Requests -> Seq([before : StoredType, after : StoredType, refused : BOOLEAN])]
  <2>1. CASE of = Auth
    <3>1. PICK status \in {"success", "authError"} : ExecutesAuth(s, status)
      BY <1>1, <2>1
    <3>2. AuthAnswer(status) \in Seq(WordsType)
      <4>1. Auth \in Listeners /\ "auth" \in OpCodes /\ status \in Statuses
        BY DEF Listeners, OpCodes, Statuses
      <4> QED
        BY <4>1, NoWords, SmallWords, ResponseTyped DEF AuthAnswer
    <3>3. fromServer[s] \o AuthAnswer(status) \in Seq(WordsType)
      BY <1>5, <3>2, Joined
    <3> QED
      BY <1>2, <3>1, <3>3 DEF ExecutesAuth, TypeOK
  <2>2. CASE of # Auth
    <3>1. /\ of \in Requests /\ request[of].op \in AllOps /\ request[of].op \in OpCodes
          /\ of \in Listeners /\ request[of].value \in Seq(Halves)
          /\ request[of].op \in CounterOps => request[of].delta \in Numbers64
      <4>1. request[of] \in Asked /\ request[of].op \in AllOps /\ of \in Listeners /\ of \in Requests
        BY <1>1, <2>2, PacketsAreUnits DEF Sendable
      <4>2. request[of].op \in CounterOps => request[of].delta \in Numbers64
        BY <4>1, WordsAssumption DEF Asked, Numbers64
      <4>3. request[of].value \in Seq(Halves)
        BY <4>1, WordsAssumption, NoWords DEF Asked, Halves
      <4> QED
        BY <4>1, <4>2, <4>3 DEF OpCodes
    <3> DEFINE new == Result(s, of)
               words == IF Refused(s, of) THEN Response(of, request[of].op, "authError", <<>>, <<1>>)
                        ELSE Answer(of, request[of].op, stored, new)
    <3>2. Effect(request[of].op, request[of].value, request[of].delta, stored) \in StoredType
          /\ (request[of].op \in CounterOps /\ Succeeds(request[of].op, stored) =>
                  /\ Len(Effect(request[of].op, request[of].value, request[of].delta, stored)) = 1
                  /\ ToNumber(Effect(request[of].op, request[of].value, request[of].delta, stored)[1])
                        \in Numbers64)
      BY <1>5, <3>1, EffectTyped
    <3>3. new \in StoredType
      BY <1>5, <3>2 DEF Result
    <3>4. words \in Seq(WordsType)
      <4>1. CASE Refused(s, of)
        <5>1. "authError" \in Statuses
          BY DEF Statuses
        <5> QED
          BY <3>1, <4>1, <5>1, NoWords, SmallWords, ResponseTyped
      <4>2. CASE ~Refused(s, of)
        <5>1. new = Effect(request[of].op, request[of].value, request[of].delta, stored)
          BY <4>2 DEF Result
        <5> HIDE DEF new
        <5>2. Answer(of, request[of].op, stored, new) \in Seq(WordsType)
          BY <1>5, <3>1, <3>2, <3>3, <5>1, AnswerTyped
        <5> QED
          BY <4>2, <5>2
      <4> QED
        BY <4>1, <4>2
    <3>5. fromServer[s] \o words \in Seq(WordsType)
      BY <1>5, <3>4, Joined
    <3>6. [before |-> stored, after |-> new, refused |-> Refused(s, of)]
              \in [before : StoredType, after : StoredType, refused : BOOLEAN]
      BY <1>5, <3>3 DEF Refused
    <3> DEFINE did == [before |-> stored, after |-> new, refused |-> Refused(s, of)]
    <3>7. /\ fromServer' = [fromServer EXCEPT ![s] = fromServer[s] \o words]
          /\ ran' = [ran EXCEPT ![of] = Append(ran[of], did)]
          /\ stored' = new /\ session' = session
      BY <1>1, <2>2 DEF ExecutesRequest
    <3> HIDE DEF words, new, did
    <3>8. ran' \in [Requests -> Seq([before : StoredType, after : StoredType, refused : BOOLEAN])]
      <4>1. ran[of] \in Seq([before : StoredType, after : StoredType, refused : BOOLEAN])
        BY <1>2, <3>1 DEF TypeOK
      <4>2. Append(ran[of], did) \in Seq([before : StoredType, after : StoredType, refused : BOOLEAN])
        BY <3>6, <4>1 DEF did
      <4> QED
        BY <1>2, <3>7, <4>2 DEF TypeOK
    <3> QED
      BY <1>2, <3>3, <3>5, <3>7, <3>8 DEF TypeOK
  <2> QED
    BY <2>1, <2>2
<1>7. TypeOK'
  BY <1>2, <1>4, <1>6 DEF TypeOK
<1> QED
  BY <1>4, <1>7 DEF TypeInv

-----------------------------------------------------------------------------
\* Connections

LEMMA ConnectionsInit == Init => Connections
  BY DEF Init, Connections, Alive, Sockets, None

\* A connection that is made when none lives.
LEMMA CreateConnections ==
    ASSUME TypeOK, Connections, NEW s \in Sockets,
           NEW base \in [Sockets -> {"none", "destroyed", "closed"}],
           \A t \in Sockets : base[t] = "none" <=> socketState[t] = "none",
           CreateConnection(s, base), connected' = FALSE
    PROVE  Connections'
<1>1. /\ socketState' = [base EXCEPT ![s] = "connecting"]
      /\ socket' = s /\ connectPromise' = [connectPromise EXCEPT ![s] = "pending"]
      /\ socketState[s] = "none"
      /\ \A t \in Sockets : t < s => socketState[t] # "none"
  BY DEF CreateConnection
<1>2. /\ socketState'[s] = "connecting" /\ connectPromise'[s] = "pending"
      /\ \A t \in Sockets : t # s => socketState'[t] = base[t] /\ connectPromise'[t] = connectPromise[t]
  BY <1>1 DEF TypeOK
<1>3. \A t \in Sockets : t > s => base[t] = "none"
  BY <1>1 DEF Connections, Sockets
<1>4. \A t, u \in Sockets : t < u /\ socketState'[u] # "none" => socketState'[t] # "none"
  BY <1>1, <1>2, <1>3 DEF Connections, Sockets
<1>5. \A t \in Sockets : t # s => socketState'[t] \in {"none", "destroyed", "closed"}
  BY <1>2
<1>6. \A t \in Sockets : connectPromise'[t] = "none" <=> socketState'[t] = "none"
  BY <1>2 DEF Connections
<1> QED
  BY <1>1, <1>2, <1>3, <1>4, <1>5, <1>6 DEF Connections, Alive

LEMMA ConnectConnections ==
    ASSUME TypeOK, Connections, NEW s \in Sockets, Connect(s)
    PROVE  Connections'
<1>1. MayCall /\ ~connected /\ CreateConnection(s, socketState) /\ connected' = FALSE
  BY DEF Connect
<1>2. \A t \in Sockets : socketState[t] \notin {"connecting", "open"}
  BY <1>1 DEF Connections, MayCall
<1>3. socketState \in [Sockets -> {"none", "destroyed", "closed"}]
  BY <1>2 DEF TypeOK
<1> QED
  BY <1>1, <1>3, CreateConnections

LEMMA ReconnectConnections ==
    ASSUME TypeOK, Connections, NEW s \in Sockets, Reconnect(s)
    PROVE  Connections'
<1>1. MayCall /\ CreateConnection(s, Destroy(socket)) /\ connected' = FALSE
  BY DEF Reconnect
<1>2. \A t \in Sockets : socketState[t] # "connecting" /\ (socketState[t] = "open" => t = socket)
  BY <1>1 DEF Connections, MayCall, Alive
<1>3. Destroy(socket) \in [Sockets -> {"none", "destroyed", "closed"}]
  BY <1>2 DEF TypeOK, Destroy, Alive
<1>4. \A t \in Sockets : Destroy(socket)[t] = "none" <=> socketState[t] = "none"
  BY DEF Destroy, Alive
<1> QED
  BY <1>1, <1>3, <1>4, CreateConnections

\* The end of a socket, of which connect() may be told.
LEMMA EndConnections ==
    ASSUME TypeOK, Connections, NEW s \in Sockets,
           socketState' = Destroy(s),
           connectPromise' \in {connectPromise, RejectConnect(s),
                                [connectPromise EXCEPT ![s] = "rejected"]},
           socketState[s] # "none", connected' \in {FALSE, connected}, socket' \in {None, socket}, 
           Alive(s), connected' => socket' = socket
    PROVE  Connections'
<1>1. /\ socketState'[s] = "destroyed" /\ s = socket
      /\ \A t \in Sockets : t # s => socketState'[t] = socketState[t]
  BY DEF Destroy, Connections
<1>2. \A t \in Sockets : connectPromise'[t] = "none" <=> socketState'[t] = "none"
  <2>1. \A t \in Sockets : connectPromise[t] = "none" <=> socketState[t] = "none"
    BY DEF Connections
  <2>2. connectPromise[s] # "none" /\ connectPromise'[s] # "none"
        /\ \A t \in Sockets : t # s => connectPromise'[t] = connectPromise[t]
    BY <2>1 DEF RejectConnect, TypeOK
  <2> QED
    BY <1>1, <2>1, <2>2
<1>3. \A t \in Sockets : ~Alive(t)'
  BY <1>1 DEF Alive, Connections
<1>4. \A t, u \in Sockets : t < u /\ socketState'[u] # "none" => socketState'[t] # "none"
  BY <1>1 DEF Connections
<1>5. socket' # None => /\ socketState'[socket'] # "none"
                        /\ \A u \in Sockets : u > socket' => socketState'[u] = "none"
  BY <1>1 DEF Connections, Sockets, None
<1>6. connected' => /\ socket' # None /\ socketState'[socket'] \in {"open", "destroyed"}
                    /\ \A t \in Sockets : t # socket' => socketState'[t] # "destroyed"
  BY <1>1 DEF Connections
<1> QED
  BY <1>2, <1>3, <1>4, <1>5, <1>6 DEF Connections, Alive

LEMMA DisconnectConnections ==
    ASSUME TypeOK, Connections, Disconnect
    PROVE  Connections'
<1>1. /\ socket \in Sockets /\ socketState' = Destroy(socket) /\ socket' = None /\ connected' = FALSE
      /\ connectPromise' = connectPromise
  BY DEF Disconnect, TypeOK
<1>2. CASE Alive(socket)
  BY <1>1, <1>2, EndConnections DEF Alive
<1>3. CASE ~Alive(socket)
  <2>1. \A t \in Sockets : socketState'[t] = socketState[t]
    BY <1>1, <1>3 DEF Destroy
  <2> QED
    BY <1>1, <1>3, <2>1 DEF Connections, Alive
<1> QED
  BY <1>2, <1>3

LEMMA EndsConnections ==
    ASSUME TypeOK, Connections, NEW s \in Sockets, Ends(s),
           connectPromise' \in {connectPromise, RejectConnect(s)}
    PROVE  Connections'
<1>1. Alive(s) /\ socketState' = Destroy(s) /\ connected' = connected /\ socket' = socket
  BY DEF Ends
<1> QED
  BY <1>1, EndConnections DEF Alive

LEMMA ReadyConnections ==
    ASSUME TypeOK, Connections, NEW s \in Sockets, Ready(s)
    PROVE  Connections'
<1>1. /\ socketState[s] = "connecting" /\ socketState' = [socketState EXCEPT ![s] = "open"]
      /\ \A t \in Sockets : t < s => socketState[t] # "destroyed"
      /\ connected' = TRUE /\ socket' = socket /\ connectPromise' = connectPromise
  BY DEF Ready
<1>2. s = socket /\ s # None
  BY <1>1 DEF Connections, Alive, Sockets, None
<1>3. \A t \in Sockets : t # s => socketState[t] # "destroyed" /\ ~Alive(t)
  BY <1>1, <1>2 DEF Connections, Sockets
<1>4. /\ socketState'[s] = "open"
      /\ \A t \in Sockets : t # s => socketState'[t] = socketState[t]
  BY <1>1 DEF TypeOK
<1> QED
  BY <1>1, <1>2, <1>3, <1>4 DEF Connections, Alive

LEMMA ClosedConnections ==
    ASSUME TypeOK, Connections, NEW s \in Sockets, Closed(s)
    PROVE  Connections'
<1>1. /\ socketState[s] = "destroyed" /\ socketState' = [socketState EXCEPT ![s] = "closed"]
      /\ connected' = FALSE /\ socket' = socket /\ connectPromise' = connectPromise
  BY DEF Closed
<1>2. /\ socketState'[s] = "closed"
      /\ \A t \in Sockets : t # s => socketState'[t] = socketState[t]
  BY <1>1 DEF TypeOK
<1>3. \A t \in Sockets : socketState[t] # "open"
  BY <1>1 DEF Connections
<1> QED
  BY <1>1, <1>2, <1>3 DEF Connections, Alive

\* Only a refusal of the credentials, and no other data, ends a connection.
LEMMA DeliverConnections ==
    ASSUME TypeOK, Connections, NEW s \in Sockets, Deliver(s)
    PROVE  Connections'
<1>1. socketState[s] = "open" /\ socket' = socket /\ s = socket
  BY DEF Deliver, Connections, Alive
<1>2. PICK got : Data(s, got) \/ Authenticated(s, got) \/ NotAuthenticated(s, got)
  BY DEF Deliver
<1>3. CASE Data(s, got)
  BY <1>1, <1>3 DEF Data, Connections, Alive
<1>4. CASE Authenticated(s, got)
  <2>1. /\ connectPromise' = [connectPromise EXCEPT ![s] = "resolved"]
        /\ connected' = connected /\ socketState' = socketState
    BY <1>4 DEF Authenticated
  <2>2. \A t \in Sockets : connectPromise'[t] = "none" <=> socketState'[t] = "none"
    BY <1>1, <2>1 DEF TypeOK, Connections
  <2>3. \A t \in Sockets : socketState[t] # "connecting"
    BY <1>1 DEF Connections, Alive
  <2> QED
    BY <1>1, <2>1, <2>2, <2>3 DEF Connections, Alive
<1>5. CASE NotAuthenticated(s, got)
  <2>1. /\ socketState' = Destroy(s) /\ connected' = FALSE
        /\ connectPromise' = [connectPromise EXCEPT ![s] = "rejected"]
    BY <1>1, <1>5 DEF NotAuthenticated
  <2> QED
    BY <1>1, <2>1, EndConnections DEF Alive
<1> QED
  BY <1>2, <1>3, <1>4, <1>5

LEMMA SameConnections ==
    ASSUME Connections, UNCHANGED <<connected, socket, connectPromise, socketState>>
    PROVE  Connections'
  BY DEF Connections, Alive

-----------------------------------------------------------------------------
\* Every step keeps the types

\* The ends of a connection.
LEMMA EndsOf ==
    ASSUME NEW s, Timeout(s) \/ Error(s) \/ PeerEnds(s) \/ HangUp(s)
    PROVE  Ends(s) /\ connectPromise' \in {connectPromise, RejectConnect(s)}
  BY DEF Timeout, Error, PeerEnds, HangUp

\* The requests that write.
LEMMA RequestOf ==
    ASSUME NEW r, NEW q, BinaryRequest(r, q) \/ BinaryQuit(r, q) \/ Command(r, q)
    PROVE  UNCHANGED <<connected, authenticated, socket, connectPromise, taken, socketState,
                       heard, fromServer, session, stored, ran>>
  BY DEF BinaryRequest, BinaryQuit, Command, Write

LEMMA NextTyped ==
    ASSUME TypeInv, Connections, [Next]_vars
    PROVE  TypeInv' /\ Connections'
<1>0. TypeOK
  BY DEF TypeInv
<1>1. ASSUME Disconnect PROVE TypeInv' /\ Connections'
  BY <1>0, <1>1, DisconnectTyped, DisconnectConnections
<1>2. ASSUME NEW s \in Sockets, Connect(s) PROVE TypeInv' /\ Connections'
  BY <1>0, <1>2, ConnectTyped, ConnectConnections
<1>3. ASSUME NEW s \in Sockets, Reconnect(s) PROVE TypeInv' /\ Connections'
  BY <1>0, <1>3, ReconnectTyped, ReconnectConnections
<1>4. ASSUME NEW s \in Sockets, Ready(s) PROVE TypeInv' /\ Connections'
  <2>1. socket \in Sockets
    BY <1>4 DEF Ready, Connections, Alive
  <2> QED
    BY <1>0, <1>4, <2>1, ReadyTyped, ReadyConnections
<1>5. ASSUME NEW s \in Sockets, Deliver(s) PROVE TypeInv' /\ Connections'
  BY <1>0, <1>5, DeliverTyped, DeliverConnections
<1>6. ASSUME NEW s \in Sockets, Timeout(s) \/ Error(s) \/ PeerEnds(s) \/ HangUp(s)
      PROVE  TypeInv' /\ Connections'
  <2>1. Ends(s) /\ connectPromise' \in {connectPromise, RejectConnect(s)}
    BY <1>6, EndsOf
  <2> QED
    BY <1>0, <2>1, EndsTyped, EndsConnections
<1>7. ASSUME NEW s \in Sockets, Closed(s) PROVE TypeInv' /\ Connections'
  BY <1>0, <1>7, ClosedTyped, ClosedConnections
<1>8. ASSUME NEW s \in Sockets, Execute(s) PROVE TypeInv' /\ Connections'
  <2>1. UNCHANGED <<connected, socket, connectPromise, socketState>>
    BY <1>8 DEF Execute
  <2> QED
    BY <1>8, <2>1, ExecuteTyped, SameConnections
<1>9. ASSUME NEW r \in Requests, NEW q \in Asked, BinaryRequest(r, q) \/ BinaryQuit(r, q) \/ Command(r, q)
      PROVE  TypeInv' /\ Connections'
  <2>1. UNCHANGED <<connected, socket, connectPromise, socketState>>
    BY <1>9, RequestOf
  <2> QED
    BY <1>9, <2>1, BinaryRequestTyped, BinaryQuitTyped, CommandTyped, SameConnections
<1>10. ASSUME UNCHANGED vars PROVE TypeInv' /\ Connections'
  <2>1. TypeOK' /\ UNCHANGED <<connected, socket, connectPromise, socketState>>
    BY <1>0, <1>10 DEF vars, TypeOK, callVars, serverVars
  <2>2. UNCHANGED <<toServer, request, result>>
    BY <1>10 DEF vars, callVars, serverVars
  <2>3. TypeInv'
    <3>1. Packets' = Packets
      BY <2>2 DEF Packets, Sendable, PacketOf
    <3> QED
      BY <2>1, <2>2, <3>1 DEF TypeInv
  <2> QED
    BY <2>1, <2>3, SameConnections
<1> QED
  BY <1>1, <1>2, <1>3, <1>4, <1>5, <1>6, <1>7, <1>8, <1>9, <1>10 DEF Next

\* Every word that is ever on the wire has 32 bits, and what waits for the
\* server are whole packets, each with the length its header states
\* (binary-protocol.ts 230-277, node.ts 264-320, 408-498).
THEOREM TypeCorrect == Spec => []TypeOK
<1>1. Init => TypeInv /\ Connections
  BY TypeInit, ConnectionsInit
<1>2. TypeInv /\ Connections /\ [Next]_vars => (TypeInv /\ Connections)'
  BY NextTyped
<1>3. TypeInv => TypeOK
  BY DEF TypeInv
<1> QED
  BY <1>1, <1>2, <1>3, PTL DEF Spec

-----------------------------------------------------------------------------
\* Sessions

LEMMA SessionsInit == Init => Sessions
  BY DEF Init, Sessions, NotYet, Heads, AuthHears

\* What is cut off at its end begins as before.
LEMMA RefusalKept ==
    ASSUME NEW S, NEW a \in Seq(S), NEW b \in Seq(S), IsRefusal(a \o b)
    PROVE  IsRefusal(a \o <<>>)
<1>1. a # <<>> => a \o b # <<>> /\ (a \o b)[1] = a[1] /\ a \o <<>> = a
  OBVIOUS
<1>2. a = <<>> => a \o <<>> = <<>>
  OBVIOUS
<1> QED
  BY <1>1, <1>2 DEF IsRefusal

LEMMA RefusalMore ==
    ASSUME NEW S, NEW a \in Seq(S), NEW b \in Seq(S), IsRefusal(a), IsRefusal(b)
    PROVE  IsRefusal(a \o b)
<1>1. a # <<>> => (a \o b)[1] = a[1]
  OBVIOUS
<1>2. a = <<>> => a \o b = b
  OBVIOUS
<1> QED
  BY <1>1, <1>2 DEF IsRefusal

\* A step that sends nothing, hears nothing and accepts no credentials.
LEMMA SessionsKept ==
    ASSUME TypeOK, Sessions, UNCHANGED <<session, heard, listening>>,
           \A s \in Sockets : /\ toServer'[s] \in {toServer[s], <<>>}
                              /\ fromServer'[s] \in {fromServer[s], <<>>}
                              /\ connectPromise'[s] = "resolved" => connectPromise[s] = "resolved"
                              /\ socketState'[s] \in {"none", "connecting"} =>
                                    socketState[s] \in {"none", "connecting"},
           authenticated' => authenticated /\
               \A s \in Sockets : socketState[s] \in {"open", "destroyed"} =>
                                     socketState'[s] \in {"open", "destroyed"}
    PROVE  Sessions'
<1>1. authenticated' => \E s \in session' : socketState'[s] \in {"open", "destroyed"}
  <2>1. session \subseteq Sockets
    BY DEF TypeOK
  <2> QED
    BY <2>1 DEF Sessions
<1>2. ASSUME NEW s \in Sockets
      PROVE  /\ connectPromise'[s] = "resolved" => s \in session'
             /\ socketState'[s] \in {"none", "connecting"} => NotYet(s)'
             /\ s \notin session' => \A i \in Heads(s)' : toServer'[s][i].of = Auth
             /\ s \notin session' /\ Auth \in listening'[s] => IsRefusal(AuthHears(s))'
  <2>1. connectPromise'[s] = "resolved" => s \in session'
    BY DEF Sessions
  <2>2. socketState'[s] \in {"none", "connecting"} => NotYet(s)'
    BY DEF Sessions, NotYet
  <2>3. s \notin session' => \A i \in Heads(s)' : toServer'[s][i].of = Auth
    <3>1. CASE toServer'[s] = toServer[s]
      BY <3>1 DEF Sessions, Heads
    <3>2. CASE toServer'[s] = <<>>
      BY <3>2 DEF Heads
    <3> QED
      BY <3>1, <3>2
  <2>4. s \notin session' /\ Auth \in listening'[s] => IsRefusal(AuthHears(s))'
    <3> SUFFICES ASSUME s \notin session, Auth \in listening[s]
                 PROVE  IsRefusal(heard[s][Auth] \o fromServer'[s])
      BY DEF AuthHears
    <3>1. IsRefusal(heard[s][Auth] \o fromServer[s])
      BY DEF Sessions, AuthHears
    <3>2. heard[s][Auth] \in Seq(WordsType) /\ fromServer[s] \in Seq(WordsType)
      BY DEF TypeOK, Auth, Listeners
    <3>3. IsRefusal(heard[s][Auth] \o <<>>)
      BY <3>1, <3>2, RefusalKept
    <3>4. fromServer'[s] \in {fromServer[s], <<>>}
      OBVIOUS
    <3> QED
      BY <3>1, <3>3, <3>4
  <2> QED
    BY <2>1, <2>2, <2>3, <2>4
<1> QED
  BY <1>1, <1>2 DEF Sessions

LEMMA CreateSessions ==
    ASSUME TypeOK, Sessions, NEW s \in Sockets, Connect(s) \/ Reconnect(s)
    PROVE  Sessions'
<1>1. /\ UNCHANGED <<session, heard, listening>>
      /\ \A t \in Sockets : toServer'[t] \in {toServer[t], <<>>} /\ fromServer'[t] \in {fromServer[t], <<>>}
  BY DEF Connect, Reconnect, serverVars, Drop, TypeOK
<1>2. /\ connectPromise' = [connectPromise EXCEPT ![s] = "pending"] /\ socketState[s] = "none"
      /\ authenticated' => authenticated
      /\ \E base \in {socketState, Destroy(socket)} : socketState' = [base EXCEPT ![s] = "connecting"]
  BY DEF Connect, Reconnect, CreateConnection
<1>3. \A t \in Sockets :
        /\ connectPromise'[t] = "resolved" => connectPromise[t] = "resolved"
        /\ socketState'[t] \in {"none", "connecting"} => socketState[t] \in {"none", "connecting"}
        /\ socketState[t] \in {"open", "destroyed"} => socketState'[t] \in {"open", "destroyed"}
  BY <1>2 DEF TypeOK, Destroy, Alive
<1> QED
  BY <1>1, <1>2, <1>3, SessionsKept

LEMMA DisconnectSessions ==
    ASSUME TypeOK, Sessions, Disconnect
    PROVE  Sessions'
<1>1. /\ UNCHANGED <<session, heard, listening, authenticated, connectPromise>>
      /\ \A t \in Sockets : toServer'[t] \in {toServer[t], <<>>} /\ fromServer'[t] \in {fromServer[t], <<>>}
  BY DEF Disconnect, Drop, TypeOK
<1>2. \A t \in Sockets :
        /\ socketState'[t] \in {"none", "connecting"} => socketState[t] \in {"none", "connecting"}
        /\ socketState[t] \in {"open", "destroyed"} => socketState'[t] \in {"open", "destroyed"}
  BY DEF Disconnect, Destroy, Alive
<1> QED
  BY <1>1, <1>2, SessionsKept

LEMMA EndsSessions ==
    ASSUME TypeOK, Sessions, NEW s \in Sockets, Ends(s),
           connectPromise' \in {connectPromise, RejectConnect(s)}
    PROVE  Sessions'
<1>1. /\ UNCHANGED <<session, heard, listening, authenticated>>
      /\ \A t \in Sockets : toServer'[t] \in {toServer[t], <<>>} /\ fromServer'[t] \in {fromServer[t], <<>>}
  BY DEF Ends, Drop, TypeOK
<1>2. \A t \in Sockets :
        /\ connectPromise'[t] = "resolved" => connectPromise[t] = "resolved"
        /\ socketState'[t] \in {"none", "connecting"} => socketState[t] \in {"none", "connecting"}
        /\ socketState[t] \in {"open", "destroyed"} => socketState'[t] \in {"open", "destroyed"}
  BY DEF Ends, Destroy, Alive, RejectConnect, TypeOK
<1> QED
  BY <1>1, <1>2, SessionsKept

LEMMA ClosedSessions ==
    ASSUME TypeOK, Sessions, NEW s \in Sockets, Closed(s)
    PROVE  Sessions'
<1>1. /\ UNCHANGED <<session, heard, listening, connectPromise, toServer, fromServer>>
      /\ authenticated' = FALSE
  BY DEF Closed, serverVars
<1>2. \A t \in Sockets :
        socketState'[t] \in {"none", "connecting"} => socketState[t] \in {"none", "connecting"}
  BY DEF Closed, TypeOK
<1> QED
  BY <1>1, <1>2, SessionsKept

LEMMA SameSessions ==
    ASSUME TypeOK, Sessions, UNCHANGED vars
    PROVE  Sessions'
<1>1. UNCHANGED <<session, heard, listening, connectPromise, toServer, fromServer, authenticated,
                  socketState>>
  BY DEF vars, serverVars
<1> QED
  BY <1>1, SessionsKept

LEMMA ReadySessions ==
    ASSUME TypeOK, Connections, Sessions, NEW s \in Sockets, Ready(s)
    PROVE  Sessions'
<1>1. /\ socketState[s] = "connecting" /\ socketState' = [socketState EXCEPT ![s] = "open"]
      /\ s = socket
      /\ toServer' = [toServer EXCEPT ![s] = @ \o BuildSaslPlain(Auth, <<1>>, <<0, 1>>)]
      /\ listening' = [listening EXCEPT ![s] = @ \cup {Auth}]
      /\ UNCHANGED <<authenticated, connectPromise, heard, fromServer, session>>
  BY DEF Ready, Connections, Alive
<1> DEFINE p == BuildSaslPlain(Auth, <<1>>, <<0, 1>>)
<1>2. /\ p \in Seq(WordsType) /\ p[1].of = Auth /\ Len(p) >= HeaderSize /\ p[2].is = "second"
      /\ \A j \in DOMAIN p : j > HeaderSize => p[j] \in Bodies
  BY AuthPacket DEF IsPacket
<1> HIDE DEF p
<1>3. toServer[s] = <<>> /\ fromServer[s] = <<>> /\ heard[s][Auth] = <<>>
  BY <1>1 DEF Sessions, NotYet, Listeners
<1>4. toServer'[s] = p
  <2>1. toServer'[s] = <<>> \o p
    BY <1>1, <1>3 DEF TypeOK, p
  <2> QED
    BY <1>2, <2>1
<1>5. \A i \in DOMAIN p : p[i].is = "first" => p[i].of = Auth
  BY <1>2 DEF Bodies, HeaderSize
<1>6. \A i \in Heads(s)' : toServer'[s][i].of = Auth
  BY <1>4, <1>5 DEF Heads
<1>7. \A t \in Sockets \ {s} :
         /\ toServer'[t] = toServer[t] /\ listening'[t] = listening[t] /\ socketState'[t] = socketState[t]
  BY <1>1 DEF TypeOK
<1>8. authenticated' => \E t \in session' : socketState'[t] \in {"open", "destroyed"}
  BY <1>1 DEF Sessions, TypeOK
<1>9. IsRefusal(AuthHears(s))'
  BY <1>1, <1>3 DEF IsRefusal, AuthHears
<1>10. socketState'[s] = "open"
  BY <1>1 DEF TypeOK
<1>11. ASSUME NEW t \in Sockets \ {s}
       PROVE  /\ connectPromise'[t] = "resolved" => t \in session'
              /\ socketState'[t] \in {"none", "connecting"} => NotYet(t)'
              /\ t \notin session' => \A i \in Heads(t)' : toServer'[t][i].of = Auth
              /\ t \notin session' /\ Auth \in listening'[t] => IsRefusal(AuthHears(t))'
  BY <1>1, <1>7 DEF Sessions, NotYet, Heads, AuthHears
<1>12. /\ connectPromise'[s] = "resolved" => s \in session'
       /\ socketState'[s] \in {"none", "connecting"} => NotYet(s)'
       /\ s \notin session' => \A i \in Heads(s)' : toServer'[s][i].of = Auth
       /\ s \notin session' /\ Auth \in listening'[s] => IsRefusal(AuthHears(s))'
  <2>1. connectPromise'[s] = "resolved" => s \in session'
    BY <1>1 DEF Sessions
  <2> QED
    BY <2>1, <1>6, <1>9, <1>10
<1> QED
  BY <1>8, <1>11, <1>12 DEF Sessions

\* A request that writes to the socket of a session, and a text command to any.
LEMMA RequestSessions ==
    ASSUME TypeOK, Connections, Sessions, Awaits # "nothing", NEW r \in Requests, NEW q \in Asked,
           BinaryRequest(r, q) \/ BinaryQuit(r, q) \/ Command(r, q)
    PROVE  Sessions'
<1>1. UNCHANGED <<authenticated, connectPromise, socketState, heard, fromServer, session>>
  BY RequestOf
<1>2. /\ socket \in Sockets /\ socketState[socket] \notin {"none", "connecting"}
      /\ \A t \in Sockets \ {socket} : toServer'[t] = toServer[t] /\ listening'[t] = listening[t]
  <2>1. CASE BinaryRequest(r, q) \/ BinaryQuit(r, q)
    <3>1. socket # None /\ connectPromise[socket] = "resolved"
      BY <2>1 DEF BinaryRequest, BinaryQuit, MayAsk
    <3>2. \A t \in Sockets \ {socket} : toServer'[t] = toServer[t] /\ listening'[t] = listening[t]
      BY <2>1 DEF BinaryRequest, BinaryQuit, Write, TypeOK
    <3> QED
      BY <3>1, <3>2 DEF TypeOK, Connections
  <2>2. CASE Command(r, q)
    <3>1. socket # None /\ connected
      BY <2>2 DEF Command
    <3>2. \A t \in Sockets \ {socket} : toServer'[t] = toServer[t] /\ listening'[t] = listening[t]
      BY <2>2 DEF Command, Write, TypeOK
    <3> QED
      BY <3>1, <3>2 DEF TypeOK, Connections
  <2> QED
    BY <2>1, <2>2
<1>3. \/ socket \in session
      \/ listening'[socket] = listening[socket] /\
         toServer'[socket] \in {toServer[socket], toServer[socket] \o <<[is |-> "text", of |-> r]>>}
  <2>1. CASE BinaryRequest(r, q) \/ BinaryQuit(r, q)
    BY <1>2, <2>1 DEF BinaryRequest, BinaryQuit, MayAsk, Sessions
  <2>2. CASE Command(r, q)
    BY <1>2, <2>2 DEF Command, Write, TypeOK
  <2> QED
    BY <2>1, <2>2
<1>4. authenticated' => \E t \in session' : socketState'[t] \in {"open", "destroyed"}
  BY <1>1 DEF Sessions
<1>5. PICK s \in Sockets : s = socket
  BY <1>2
<1>6. ASSUME NEW t \in Sockets \ {s}
      PROVE  /\ connectPromise'[t] = "resolved" => t \in session'
             /\ socketState'[t] \in {"none", "connecting"} => NotYet(t)'
             /\ t \notin session' => \A i \in Heads(t)' : toServer'[t][i].of = Auth
             /\ t \notin session' /\ Auth \in listening'[t] => IsRefusal(AuthHears(t))'
  BY <1>1, <1>2, <1>5 DEF Sessions, NotYet, Heads, AuthHears
<1>7. /\ connectPromise'[s] = "resolved" => s \in session'
      /\ socketState'[s] \in {"none", "connecting"} => NotYet(s)'
  BY <1>1, <1>2, <1>5 DEF Sessions
<1>8. s \notin session' => \A i \in Heads(s)' : toServer'[s][i].of = Auth
  <2> SUFFICES ASSUME s \notin session,
                      NEW i \in DOMAIN toServer'[s], toServer'[s][i].is = "first"
               PROVE  toServer'[s][i].of = Auth
    BY <1>1 DEF Heads
  <2>1. \A k \in DOMAIN toServer[s] : toServer[s][k].is = "first" => toServer[s][k].of = Auth
    BY DEF Sessions, Heads
  <2> DEFINE words == toServer[s]  more == <<[is |-> "text", of |-> r]>>
  <2>2. words \in Seq(WordsType) /\ more \in Seq(WordsType) /\ Len(more) = 1 /\ more[1].is = "text"
    BY DEF TypeOK, WordsType
  <2> DEFINE after == toServer'[s]
  <2>3. after \in {words, words \o more}
    BY <1>3, <1>5
  <2> HIDE DEF words, more, after
  <2>4. i \in DOMAIN after /\ after[i].is = "first"
    BY DEF after
  <2>5. i \in DOMAIN words /\ after[i] = words[i]
    <3>1. CASE after = words
      BY <2>4, <3>1
    <3>2. CASE after = words \o more
      <4>1. /\ Len(words) \in Nat /\ Len(after) = Len(words) + Len(more) /\ after \in Seq(WordsType)
            /\ \A k \in 1 .. Len(words) : after[k] = words[k]
            /\ \A k \in 1 .. Len(more) : after[Len(words) + k] = more[k]
        <5>1. /\ words \o more \in Seq(WordsType) /\ Len(words \o more) = Len(words) + Len(more)
              /\ \A k \in 1 .. Len(words) : (words \o more)[k] = words[k]
              /\ \A k \in 1 .. Len(more) : (words \o more)[Len(words) + k] = more[k]
          <6>1. words \in Seq(WordsType) /\ more \in Seq(WordsType)
            BY <2>2
          <6> QED
            BY <6>1, Joined
        <5>2. Len(words) \in Nat
          BY <2>2
        <5> QED
          BY <3>2, <5>1, <5>2
      <4>2. i \in 1 .. Len(words) + 1
        BY <2>2, <2>4, <4>1
      <4>3. after[Len(words) + 1] = more[1]
        BY <2>2, <4>1
      <4>4. i # Len(words) + 1
        BY <2>2, <2>4, <4>3
      <4> QED
        BY <2>2, <4>1, <4>2, <4>4
    <3> QED
      BY <2>3, <3>1, <3>2
  <2> QED
    BY <2>1, <2>4, <2>5 DEF words, after
<1>9. s \notin session' /\ Auth \in listening'[s] => IsRefusal(AuthHears(s))'
  BY <1>1, <1>3, <1>5 DEF Sessions, AuthHears
<1> QED
  BY <1>4, <1>6, <1>7, <1>8, <1>9 DEF Sessions

\* The server refuses the credentials or opens the session, and answers no
\* request of another.
LEMMA ExecuteSessions ==
    ASSUME TypeInv, Sessions, NEW s \in Sockets, Execute(s)
    PROVE  Sessions'
<1> DEFINE of   == toServer[s][1].of
           rest == SubSeq(toServer[s], Len(Packets[of]) + 1, Len(toServer[s]))
<1>1. /\ 1 \in Heads(s) /\ Len(Packets[of]) <= Len(toServer[s])
      /\ toServer' = [toServer EXCEPT ![s] = rest]
      /\ of = Auth => \E status \in {"success", "authError"} : ExecutesAuth(s, status)
      /\ of # Auth => ExecutesRequest(s, of)
  BY ExecuteFacts
<1>2. Len(Packets[of]) \in Nat
  <2>1. of \in Sendable
    BY ExecuteFacts
  <2> HIDE DEF of
  <2>2. IsPacket(Packets[of], of, OpcodeOf(of))
    BY <2>1, PacketsAreUnits
  <2> QED
    BY <2>2 DEF IsPacket
<1>3. /\ TypeOK /\ socketState[s] = "open"
      /\ UNCHANGED <<authenticated, connectPromise, socketState, listening, heard>>
  BY DEF TypeInv, Execute
<1>4. \A i \in Heads(s)' : toServer'[s][i].of = toServer[s][i + Len(Packets[of])].of
                           /\ i + Len(Packets[of]) \in Heads(s)
  <2> DEFINE words == toServer[s]  k == Len(Packets[of])
  <2>1. words \in Seq(WordsType) /\ k \in 0 .. Len(words) /\ toServer'[s] = SubSeq(words, k + 1, Len(words))
    BY <1>1, <1>2, <1>3 DEF TypeOK
  <2> HIDE DEF words, k
  <2>2. \A i \in DOMAIN toServer'[s] : /\ i + k \in DOMAIN words /\ toServer'[s][i] = words[i + k]
    BY <2>1
  <2> QED
    BY <2>2 DEF Heads, words, k
<1> HIDE DEF of, rest
<1>5. /\ session \subseteq session' /\ session' \subseteq session \cup {s}
      /\ \A t \in Sockets \ {s} : toServer'[t] = toServer[t] /\ fromServer'[t] = fromServer[t]
  BY <1>1, <1>3 DEF ExecutesAuth, ExecutesRequest, TypeOK
<1>6. authenticated' => \E t \in session' : socketState'[t] \in {"open", "destroyed"}
  BY <1>3, <1>5 DEF Sessions
<1>7. ASSUME NEW t \in Sockets \ {s}
      PROVE  /\ connectPromise'[t] = "resolved" => t \in session'
             /\ socketState'[t] \in {"none", "connecting"} => NotYet(t)'
             /\ t \notin session' => \A i \in Heads(t)' : toServer'[t][i].of = Auth
             /\ t \notin session' /\ Auth \in listening'[t] => IsRefusal(AuthHears(t))'
  BY <1>3, <1>5 DEF Sessions, NotYet, Heads, AuthHears
<1>8. /\ connectPromise'[s] = "resolved" => s \in session'
      /\ socketState'[s] \in {"none", "connecting"} => NotYet(s)'
  BY <1>3, <1>5 DEF Sessions
<1>9. s \notin session' => \A i \in Heads(s)' : toServer'[s][i].of = Auth
  BY <1>4, <1>5 DEF Sessions
<1>10. s \notin session' /\ Auth \in listening'[s] => IsRefusal(AuthHears(s))'
  <2> SUFFICES ASSUME s \notin session', Auth \in listening'[s]
               PROVE  IsRefusal(heard[s][Auth] \o fromServer'[s])
    BY <1>3 DEF AuthHears
  <2>1. s \notin session
    BY <1>5
  <2>2. of = Auth
    BY <1>1, <2>1 DEF Sessions, of
  <2>3. ExecutesAuth(s, "authError")
    BY <1>1, <2>2 DEF ExecutesAuth
  <2> DEFINE ans == AuthAnswer("authError")
  <2>4. ans \in Seq(WordsType) /\ IsRefusal(ans)
    <3>1. Auth \in Listeners /\ "auth" \in OpCodes /\ "authError" \in Statuses
      BY DEF Listeners, OpCodes, Statuses
    <3>2. ans = Build(Auth, "auth", "authError", <<>>, <<>>, <<1>>)
      <4>1. <<>> \in Seq(Halves) /\ <<1>> \in Seq(Halves)
        BY NoWords, SmallWords
      <4> QED
        BY <3>1, <4>1, ResponseIsBuilt DEF AuthAnswer
    <3>3. IsPacket(ans, Auth, "auth") /\ ans[1].status = "authError"
      <4>1. <<>> \in Seq(Halves) /\ <<1>> \in Seq(Halves)
        BY NoWords, SmallWords
      <4>2. LET p == Build(Auth, "auth", "authError", <<>>, <<>>, <<1>>)
            IN  IsPacket(p, Auth, "auth") /\ p[1].status = "authError"
        <5>1. IsBuilt(Build(Auth, "auth", "authError", <<>>, <<>>, <<1>>), Auth, "auth", "authError",
                      <<>>, <<>>, <<1>>)
          BY <3>1, <4>1, BuiltPacket, Zenon
        <5> QED
          BY <5>1 DEF IsBuilt
      <4> HIDE DEF ans
      <4> QED
        BY <3>2, <4>2
    <3> QED
      BY <3>3 DEF IsPacket, IsRefusal
  <2>5. fromServer'[s] = fromServer[s] \o ans /\ fromServer[s] \in Seq(WordsType)
        /\ heard[s][Auth] \in Seq(WordsType)
    BY <1>3, <2>3 DEF ExecutesAuth, TypeOK, Listeners
  <2>6. IsRefusal(heard[s][Auth] \o fromServer[s])
    BY <1>3, <2>1 DEF Sessions, AuthHears
  <2> HIDE DEF ans
  <2>7. heard[s][Auth] \o fromServer[s] \in Seq(WordsType)
    BY <2>5, Joined
  <2>8. IsRefusal((heard[s][Auth] \o fromServer[s]) \o ans)
    BY <2>4, <2>6, <2>7, RefusalMore
  <2>9. heard[s][Auth] \o (fromServer[s] \o ans) = (heard[s][Auth] \o fromServer[s]) \o ans
    <3> DEFINE a == heard[s][Auth]  b == fromServer[s]
    <3>1. b \in Seq(WordsType) /\ a \in Seq(WordsType) /\ ans \in Seq(WordsType)
      BY <2>4, <2>5
    <3> HIDE DEF a, b
    <3>2. a \o (b \o ans) = (a \o b) \o ans
      BY <3>1, Associative
    <3> QED
      BY <3>2 DEF a, b
  <2> QED
    BY <2>5, <2>8, <2>9
<1> QED
  BY <1>6, <1>7, <1>8, <1>9, <1>10 DEF Sessions

\* What a listener has heard goes on with what it has yet to hear.
LEMMA WordHeard ==
    ASSUME NEW S, NEW a \in Seq(S), NEW b \in Seq(S), b # <<>>
    PROVE  /\ Append(a, Head(b)) \in Seq(S) /\ Tail(b) \in Seq(S) /\ Len(Append(a, Head(b))) = Len(a) + 1
           /\ Append(a, Head(b)) \o Tail(b) = a \o b
           /\ Append(a, Head(b))[1] = (a \o b)[1] /\ a \o b # <<>>
<1>1. /\ Append(a, Head(b)) \in Seq(S) /\ Tail(b) \in Seq(S) /\ Len(Append(a, Head(b))) = Len(a) + 1
      /\ Len(Tail(b)) = Len(b) - 1 /\ Len(b) > 0
  OBVIOUS
<1>2. Append(a, Head(b))[1] = (a \o b)[1] /\ a \o b # <<>>
  <2>1. a = <<>> => Append(a, Head(b))[1] = b[1] /\ (a \o b)[1] = b[1]
    OBVIOUS
  <2>2. a # <<>> => Append(a, Head(b))[1] = a[1] /\ (a \o b)[1] = a[1]
    OBVIOUS
  <2> QED
    BY <1>1, <2>1, <2>2
<1>3. Append(a, Head(b)) = a \o <<Head(b)>> /\ <<Head(b)>> \in Seq(S) /\ b = <<Head(b)>> \o Tail(b)
  OBVIOUS
<1>4. a \o (<<Head(b)>> \o Tail(b)) = (a \o <<Head(b)>>) \o Tail(b)
  BY <1>1, <1>3, Associative
<1> QED
  BY <1>1, <1>2, <1>3, <1>4

\* Only an accepted session authenticates the node.
LEMMA DeliverSessions ==
    ASSUME TypeInv, Connections, Sessions, NEW s \in Sockets, Deliver(s)
    PROVE  Sessions'
<1>1. /\ TypeOK /\ socketState[s] = "open" /\ s = socket /\ fromServer[s] # <<>>
      /\ UNCHANGED <<socket, session>> /\ session \subseteq Sockets
  BY DEF Deliver, Connections, Alive, TypeInv, TypeOK
<1>2. PICK junk \in Junk :
          LET got == [l \in listening[s] |-> Takes(s, l, Head(fromServer[s]), junk)]
          IN  Data(s, got) \/ Authenticated(s, got) \/ NotAuthenticated(s, got)
  BY DEF Deliver
<1> DEFINE got == [l \in listening[s] |-> Takes(s, l, Head(fromServer[s]), junk)]
           buf == Append(heard[s][Auth], Head(fromServer[s]))
<1>3. /\ heard[s][Auth] \in Seq(WordsType) /\ fromServer[s] \in Seq(WordsType)
      /\ Auth \in Listeners
  BY <1>1 DEF TypeOK, Listeners
<1>4. /\ buf \o Tail(fromServer[s]) = heard[s][Auth] \o fromServer[s]
      /\ buf[1] = (heard[s][Auth] \o fromServer[s])[1] /\ heard[s][Auth] \o fromServer[s] # <<>>
  <2> DEFINE a == heard[s][Auth]  b == fromServer[s]
  <2>1. b \in Seq(WordsType) /\ a \in Seq(WordsType) /\ b # <<>>
    BY <1>1, <1>3
  <2> HIDE DEF a, b
  <2>2. /\ Append(a, Head(b)) \o Tail(b) = a \o b
        /\ Append(a, Head(b))[1] = (a \o b)[1] /\ a \o b # <<>>
    BY <2>1, WordHeard
  <2> QED
    BY <2>2 DEF a, b
<1>5. ASSUME s \notin session, Auth \in listening[s]
      PROVE  /\ got[Auth] # <<>> => got[Auth] = buf /\ buf[1].status = "authError"
             /\ IsRefusal(buf \o Tail(fromServer[s]))
  <2>1. IsRefusal(heard[s][Auth] \o fromServer[s])
    BY <1>5 DEF Sessions, AuthHears
  <2>2. buf[1].is = "first" /\ buf[1].status = "authError"
    BY <1>4, <2>1 DEF IsRefusal
  <2>3. got[Auth] \in {buf, <<>>}
    BY <1>5, <2>2 DEF Takes
  <2> QED
    BY <1>4, <2>1, <2>2, <2>3
<1>6. /\ RequestsHear(s, got)
      /\ Data(s, got) \/ Authenticated(s, got) \/ NotAuthenticated(s, got)
  BY <1>2 DEF Data, Authenticated, NotAuthenticated
<1> HIDE DEF got, buf
<1>7. /\ fromServer' = [fromServer EXCEPT ![s] = Tail(@)]
      /\ \A t \in Sockets \ {s} : /\ listening'[t] = listening[t] /\ heard'[t] = heard[t]
                                  /\ fromServer'[t] = fromServer[t]
      /\ fromServer'[s] = Tail(fromServer[s]) /\ listening'[s] \subseteq listening[s]
      /\ Auth \in listening'[s] => got[Auth] = <<>>
      /\ Auth \in listening'[s] => heard'[s][Auth] = buf
  BY <1>1, <1>3, <1>6 DEF RequestsHear, TypeOK, Final, buf
<1>8. /\ \A t \in Sockets : toServer'[t] \in {toServer[t], <<>>}
      /\ \A t \in Sockets : socketState'[t] \in {"none", "connecting"} => socketState[t] \in {"none", "connecting"}
      /\ \A t \in Sockets \ {s} : connectPromise'[t] = connectPromise[t]
      /\ connectPromise'[s] = "resolved" => s \in session
      /\ authenticated' => \E t \in session : socketState'[t] \in {"open", "destroyed"}
  <2>1. CASE Data(s, got)
    BY <2>1 DEF Data, Sessions
  <2>2. CASE Authenticated(s, got)
    <3>1. Auth \in listening[s] /\ got[Auth] # <<>> /\ got[Auth][1].status = "success"
      BY <2>2 DEF Authenticated, DeserializeHeader
    <3>2. s \in session
      BY <1>5, <3>1
    <3> QED
      BY <1>1, <2>2, <3>2 DEF Authenticated, TypeOK
  <2>3. CASE NotAuthenticated(s, got)
    BY <1>1, <2>3 DEF NotAuthenticated, TypeOK, Drop, Destroy, Alive
  <2> QED
    BY <1>6, <2>1, <2>2, <2>3
<1>9. \A t \in Sockets : Heads(t)' \subseteq Heads(t) /\ \A i \in Heads(t)' : toServer'[t][i] = toServer[t][i]
  <2> SUFFICES ASSUME NEW t \in Sockets
               PROVE  Heads(t)' \subseteq Heads(t) /\ \A i \in Heads(t)' : toServer'[t][i] = toServer[t][i]
    OBVIOUS
  <2>1. CASE toServer'[t] = toServer[t]
    BY <2>1 DEF Heads
  <2>2. CASE toServer'[t] = <<>>
    BY <2>2 DEF Heads
  <2> QED
    BY <1>8, <2>1, <2>2
<1>10. ASSUME NEW t \in Sockets \ {s}
       PROVE  /\ connectPromise'[t] = "resolved" => t \in session'
              /\ socketState'[t] \in {"none", "connecting"} => NotYet(t)'
              /\ t \notin session' => \A i \in Heads(t)' : toServer'[t][i].of = Auth
              /\ t \notin session' /\ Auth \in listening'[t] => IsRefusal(AuthHears(t))'
  <2>1. socketState'[t] \in {"none", "connecting"} => NotYet(t)'
    BY <1>7, <1>8 DEF Sessions, NotYet
  <2> QED
    BY <1>1, <1>7, <1>8, <1>9, <2>1 DEF Sessions, AuthHears
<1>11. /\ connectPromise'[s] = "resolved" => s \in session'
       /\ socketState'[s] \notin {"none", "connecting"}
       /\ s \notin session' => \A i \in Heads(s)' : toServer'[s][i].of = Auth
       /\ s \notin session' /\ Auth \in listening'[s] => IsRefusal(AuthHears(s))'
  <2>1. s \notin session' /\ Auth \in listening'[s] => IsRefusal(AuthHears(s))'
    BY <1>1, <1>5, <1>7 DEF AuthHears
  <2> QED
    BY <1>1, <1>8, <1>9, <2>1 DEF Sessions
<1> QED
  BY <1>1, <1>8, <1>10, <1>11 DEF Sessions

LEMMA NextSession ==
    ASSUME SessionInv, Awaits # "nothing", [Next]_vars
    PROVE  SessionInv'
<1>0. TypeOK /\ TypeInv /\ Connections /\ Sessions
  BY DEF SessionInv, TypeInv
<1>1. ASSUME Disconnect PROVE Sessions'
  BY <1>0, <1>1, DisconnectSessions
<1>2. ASSUME NEW s \in Sockets, Connect(s) \/ Reconnect(s) PROVE Sessions'
  BY <1>0, <1>2, CreateSessions
<1>3. ASSUME NEW s \in Sockets, Ready(s) PROVE Sessions'
  BY <1>0, <1>3, ReadySessions
<1>4. ASSUME NEW s \in Sockets, Deliver(s) PROVE Sessions'
  BY <1>0, <1>4, DeliverSessions
<1>5. ASSUME NEW s \in Sockets, Timeout(s) \/ Error(s) \/ PeerEnds(s) \/ HangUp(s) PROVE Sessions'
  <2>1. Ends(s) /\ connectPromise' \in {connectPromise, RejectConnect(s)}
    BY <1>5, EndsOf
  <2> QED
    BY <1>0, <2>1, EndsSessions
<1>6. ASSUME NEW s \in Sockets, Closed(s) PROVE Sessions'
  BY <1>0, <1>6, ClosedSessions
<1>7. ASSUME NEW s \in Sockets, Execute(s) PROVE Sessions'
  BY <1>0, <1>7, ExecuteSessions
<1>8. ASSUME NEW r \in Requests, NEW q \in Asked, BinaryRequest(r, q) \/ BinaryQuit(r, q) \/ Command(r, q)
      PROVE  Sessions'
  BY <1>0, <1>8, RequestSessions
<1>9. ASSUME UNCHANGED vars PROVE Sessions'
  BY <1>0, <1>9, SameSessions
<1>10. Sessions'
  BY <1>1, <1>2, <1>3, <1>4, <1>5, <1>6, <1>7, <1>8, <1>9 DEF Next
<1> QED
  BY <1>0, <1>10, NextTyped DEF SessionInv

\* When callers await connect(), a node that is connected and takes itself for
\* authenticated has a session with the server on its current socket, whatever
\* becomes of the connections before it: no answer is taken for the one to the
\* credentials, and none of an earlier connection authenticates a later one
\* (node.ts 270-290).
THEOREM SessionsHold ==
    ASSUME Awaits # "nothing"
    PROVE  Spec => []AuthenticatedSession
<1>1. Init => SessionInv
  BY TypeInit, ConnectionsInit, SessionsInit DEF SessionInv
<1>2. SessionInv /\ [Next]_vars => SessionInv'
  BY NextSession
<1>3. SessionInv => AuthenticatedSession
  <2> SUFFICES ASSUME SessionInv, connected, authenticated \/ connectPromise[socket] = "resolved"
               PROVE  socket \in session
    BY DEF AuthenticatedSession
  <2>1. /\ socket \in Sockets /\ socketState[socket] \in {"open", "destroyed"}
        /\ \A t \in Sockets : t # socket => socketState[t] \notin {"open", "destroyed"}
    BY DEF SessionInv, TypeInv, TypeOK, Connections, Alive
  <2>2. session \subseteq Sockets
    BY DEF SessionInv, TypeInv, TypeOK
  <2> QED
    BY <2>1, <2>2 DEF SessionInv, Sessions
<1> QED
  BY <1>1, <1>2, <1>3, PTL DEF Spec

-----------------------------------------------------------------------------
\* What a request makes of its answer

\* What is read of an answer that is not the statistics is what the server did
\* (binary-protocol.ts 451-495, node.ts 500-674).
LEMMA AnswerReturned ==
    ASSUME NEW of \in Listeners, NEW op \in AllOps, NEW old \in StoredType, NEW new \in StoredType,
           NEW p, p = Answer(of, op, old, new), op # "stat",
           op \in CounterOps /\ Succeeds(op, old) =>
               Len(new) = 1 /\ ToNumber(new[1]) \in Numbers64
    PROVE  /\ IsPacket(p, of, op)
           /\ Returned(op, <<p>>) = Told(op, [before |-> old, after |-> new, refused |-> FALSE])
<1> DEFINE status == p[1].status
           told == Told(op, [before |-> old, after |-> new, refused |-> FALSE])
<1>1. /\ "success" \in Statuses /\ op \in OpCodes
      /\ <<>> \in Seq(Halves) /\ <<1>> \in Seq(Halves) /\ <<0>> \in Seq(Halves)
      /\ Len(<<>>) = 0 /\ Len(<<1>>) = 1 /\ Len(<<0>>) = 1
  BY NoWords, SmallWords DEF Statuses, OpCodes
<1>2. ASSUME NEW st \in Statuses, NEW e \in Seq(Halves), NEW v \in Seq(Halves)
      PROVE  IsBuilt(Build(of, op, st, e, <<>>, v), of, op, st, e, <<>>, v)
  BY <1>1, BuiltPacket
<1>3. <<p>>[1] = p /\ DeserializeHeader(p).status = status
  BY DEF DeserializeHeader
<1>4. CASE ~Succeeds(op, old)
  <2>1. Failure(op) \in Statuses \ {"success"} /\ p = Build(of, op, Failure(op), <<>>, <<>>, <<1>>)
    BY <1>4, AnswerIsBuilt
  <2>2. IsBuilt(p, of, op, Failure(op), <<>>, <<>>, <<1>>)
    BY <1>1, <1>2, <2>1
  <2>3. IsPacket(p, of, op) /\ status # "success" /\ status = Failure(op)
    BY <2>1, <2>2 DEF IsBuilt
  <2>4. CASE op = "get"
    <3>1. ParseGetResponse(p) = <<>>
      BY <1>3, <2>3 DEF ParseGetResponse, DeserializeHeader
    <3>2. Returned(op, <<p>>) = [flag |-> TRUE, value |-> ParseGetResponse(p)]
      BY <1>3, <2>4 DEF Returned, CounterOps
    <3>3. told = [flag |-> TRUE, value |-> <<>>]
      BY <1>4, <2>4 DEF Told, CounterOps
    <3> QED
      BY <2>3, <3>1, <3>2, <3>3
  <2>5. CASE op \in CounterOps
    BY <1>3, <1>4, <2>3, <2>5 DEF Returned, Told, ParseIncrDecrResponse, CounterOps
  <2>6. op # "version"
    BY <1>4 DEF Succeeds, CounterOps
  <2>7. CASE op = "delete"
    <3>1. status = "notFound"
      BY <2>3, <2>7 DEF Failure, ConcatOps
    <3>2. Returned(op, <<p>>) = [flag |-> TRUE, value |-> <<>>]
      BY <1>3, <2>7, <3>1 DEF Returned, CounterOps
    <3>3. told = [flag |-> TRUE, value |-> <<>>]
      BY <2>7 DEF Told, CounterOps
    <3> QED
      BY <2>3, <3>2, <3>3
  <2>8. CASE op \notin {"get", "version", "delete"} \cup CounterOps
    BY <1>3, <1>4, <2>3, <2>8 DEF Returned, Told
  <2> QED
    BY <2>3, <2>4, <2>5, <2>6, <2>7, <2>8
<1>5. CASE Succeeds(op, old) /\ op = "get"
  <2>1. old[1] \in Seq(Halves) /\ Len(old[1]) \in Nat /\ Len(old) = 1 /\ old = <<old[1]>>
        /\ p = Build(of, op, "success", <<0>>, <<>>, old[1])
    <3>1. old # <<>>
      BY <1>5 DEF Succeeds, CounterOps
    <3> QED
      BY <1>5, <3>1, NumbersOfValues, AnswerIsBuilt
  <2>2. IsBuilt(p, of, op, "success", <<0>>, <<>>, old[1])
    BY <1>1, <1>2, <2>1
  <2>3. /\ IsPacket(p, of, op) /\ status = "success" /\ Payload(p) = old[1]
        /\ p[1].extrasLength = 1 /\ p[1].keyLength = 0 /\ p[2].totalBodyLength = 1 + Len(old[1])
    BY <1>1, <2>1, <2>2 DEF IsBuilt
  <2>4. ParseGetResponse(p) = IF Len(old[1]) > 0 THEN <<old[1]>> ELSE <<>>
    <3>1. Payload(p) = Numbers(Between(p, 1 + 0, 1 + Len(old[1])))
      BY <2>3 DEF Payload
    <3> HIDE DEF status
    <3>2. ParseGetResponse(p) = IF 1 + Len(old[1]) > 1 + 0
                                THEN <<Numbers(Between(p, 1 + 0, 1 + Len(old[1])))>> ELSE <<>>
      BY <2>3 DEF ParseGetResponse, DeserializeHeader, status
    <3> QED
      BY <2>1, <2>3, <3>1, <3>2
  <2>5. Len(old[1]) > 0 <=> old # << <<>> >>
    <3> DEFINE v == old[1]
    <3>1. v \in Seq(Halves) /\ old = <<v>>
      BY <2>1
    <3> HIDE DEF v
    <3>2. Len(v) > 0 <=> v # <<>>
      BY <3>1
    <3>3. v # <<>> <=> <<v>> # << <<>> >>
      OBVIOUS
    <3> QED
      BY <3>1, <3>2, <3>3 DEF v
  <2>6. ParseGetResponse(p) = IF old # << <<>> >> THEN old ELSE <<>>
    BY <2>1, <2>4, <2>5
  <2>7. Returned(op, <<p>>) = [flag |-> TRUE, value |-> ParseGetResponse(p)]
    BY <1>3, <1>5 DEF Returned, CounterOps
  <2>8. told = [flag |-> TRUE, value |-> IF old # << <<>> >> THEN old ELSE <<>>]
    BY <1>5 DEF Told, CounterOps
  <2> QED
    BY <2>3, <2>6, <2>7, <2>8
<1>6. CASE Succeeds(op, old) /\ op \in CounterOps
  <2> DEFINE n == ToNumber(new[1])
  <2>1. n \in Numbers64 /\ p = Build(of, op, "success", <<>>, <<>>, Split64(n))
    BY <1>6, AnswerIsBuilt
  <2>2. /\ Split64(n) \in Seq(Halves) /\ Len(Split64(n)) = 2
        /\ Split64(n)[1] * Base + Split64(n)[2] = n
    <3> HIDE DEF n
    <3>1. n \in 0 .. Base * Base - 1
      BY <2>1 DEF Numbers64
    <3>2. /\ Split64(n) \in Seq(Halves) /\ (n \div Base) * Base + (n % Base) = n
      BY <3>1, SplitAndJoin
    <3>3. /\ Split64(n)[1] = n \div Base /\ Split64(n)[2] = n % Base /\ Len(Split64(n)) = 2
      BY DEF Split64
    <3> QED
      BY <3>2, <3>3
  <2> HIDE DEF n
  <2>3. Split64(n) \in Seq(Halves)
    BY <2>2
  <2>4. IsBuilt(p, of, op, "success", <<>>, <<>>, Split64(n))
    BY <1>1, <1>2, <2>1, <2>3
  <2>5. /\ IsPacket(p, of, op) /\ status = "success" /\ Payload(p) = Split64(n)
        /\ p[1].extrasLength = 0 /\ p[1].keyLength = 0 /\ p[2].totalBodyLength = 2
    BY <1>1, <2>2, <2>4 DEF IsBuilt
  <2>6. Numbers(Between(p, 0, 2)) = Split64(n)
    BY <2>5 DEF Payload
  <2>7. ParseIncrDecrResponse(p) = <<n>>
    <3>1. ParseIncrDecrResponse(p) =
             <<Numbers(Between(p, 0, 2))[1] * Base + Numbers(Between(p, 0, 2))[2]>>
      BY <2>5 DEF ParseIncrDecrResponse, DeserializeHeader
    <3> QED
      BY <2>2, <2>6, <3>1
  <2>8. Returned(op, <<p>>) = [flag |-> TRUE, value |-> ParseIncrDecrResponse(p)]
    BY <1>3, <1>6 DEF Returned, CounterOps
  <2>9. told = [flag |-> TRUE, value |-> <<n>>]
    BY <1>6 DEF Told, CounterOps, n
  <2> QED
    BY <2>5, <2>7, <2>8, <2>9
<1>7. CASE op = "version"
  <2>1. Succeeds(op, old) /\ p = Build(of, op, "success", <<>>, <<>>, <<1>>)
    BY <1>7, AnswerIsBuilt
  <2>2. IsBuilt(p, of, op, "success", <<>>, <<>>, <<1>>)
    BY <1>1, <1>2, <2>1
  <2>3. /\ IsPacket(p, of, op) /\ status = "success"
        /\ Numbers(SubSeq(p, 3, Len(p))) = <<>> \o <<>> \o <<1>>
    BY <2>2 DEF IsBuilt
  <2>4. <<>> \o <<>> \o <<1>> = <<1>>
    OBVIOUS
  <2>5. Returned(op, <<p>>) = [flag |-> TRUE, value |-> <<Numbers(SubSeq(p, 3, Len(p)))>>]
    <3>1. HeaderSize + 1 = 3
      BY DEF HeaderSize
    <3> HIDE DEF status
    <3> QED
      BY <1>3, <1>7, <2>3, <3>1 DEF Returned, CounterOps
  <2>6. told = [flag |-> TRUE, value |-> << <<1>> >>]
    BY <1>7 DEF Told, CounterOps
  <2> QED
    BY <2>3, <2>4, <2>5, <2>6
<1>8. CASE Succeeds(op, old) /\ op \notin {"get", "version"} \cup CounterOps
  <2>1. p = Build(of, op, "success", <<>>, <<>>, <<>>)
    BY <1>8, AnswerIsBuilt
  <2>2. IsBuilt(p, of, op, "success", <<>>, <<>>, <<>>)
    BY <1>1, <1>2, <2>1
  <2>3. IsPacket(p, of, op) /\ status = "success"
    BY <2>2 DEF IsBuilt
  <2>4. Returned(op, <<p>>) = [flag |-> TRUE, value |-> <<>>]
    BY <1>3, <1>8, <2>3 DEF Returned
  <2>5. told = [flag |-> TRUE, value |-> <<>>]
    BY <1>8 DEF Told
  <2> QED
    BY <2>3, <2>4, <2>5
<1> QED
  BY <1>4, <1>5, <1>6, <1>7, <1>8

\* The packets of the statistics; the last ends them (node.ts 697-748).
LEMMA StatisticsReturned ==
    ASSUME NEW r \in Listeners, NEW old \in StoredType, NEW new
    PROVE  /\ IsPacket(Statistics(r, old), r, "stat") /\ ~EndOfStats(Statistics(r, old))
           /\ IsPacket(EndOfAnswer(r), r, "stat") /\ EndOfStats(EndOfAnswer(r))
           /\ Returned("stat", <<Statistics(r, old), EndOfAnswer(r)>>)
                  = Told("stat", [before |-> old, after |-> new, refused |-> FALSE])
<1> DEFINE a == Statistics(r, old)  b == EndOfAnswer(r)  v == <<Len(old)>>  k == <<1>>  no == <<>>
<1>1. /\ "success" \in Statuses /\ "stat" \in OpCodes
      /\ no \in Seq(Halves) /\ k \in Seq(Halves) /\ v \in Seq(Halves)
  <2>1. Len(old) \in Nat /\ Len(old) <= 1
    BY DEF StoredType
  <2>2. Len(old) \in Halves
    BY <2>1 DEF Halves
  <2>3. v \in Seq(Halves)
    BY <2>2
  <2> QED
    BY <2>3, NoWords, SmallWords DEF Statuses, OpCodes, AllOps, BareOps
<1>2. a = Response(r, "stat", "success", k, v) /\ b = Response(r, "stat", "success", no, no)
  BY DEF Statistics, EndOfAnswer
<1>3. Len(k) = 1 /\ Len(no) = 0 /\ no \o k \o v = <<1, Len(old)>>
  <2>1. no \o k = <<1>>
    OBVIOUS
  <2>2. ASSUME NEW n \in Nat PROVE <<1>> \o <<n>> = <<1, n>>
    <3> DEFINE x == <<1>>  y == <<n>>  w == <<1, n>>
    <3>1. x \in Seq(Nat) /\ y \in Seq(Nat)
      OBVIOUS
    <3>2. w \in Seq(Nat)
      OBVIOUS
    <3>3. Len(x) = 1 /\ Len(y) = 1 /\ x[1] = 1 /\ y[1] = n
      OBVIOUS
    <3>4. Len(w) = 2 /\ w[1] = 1 /\ w[2] = n
      OBVIOUS
    <3> HIDE DEF x, y, w
    <3>5. /\ x \o y \in Seq(Nat) /\ Len(x \o y) = Len(x) + Len(y)
          /\ \A i \in 1 .. Len(x) : (x \o y)[i] = x[i]
          /\ \A i \in 1 .. Len(y) : (x \o y)[Len(x) + i] = y[i]
      BY <3>1, Joined
    <3>6. (x \o y)[1] = 1 /\ (x \o y)[2] = n /\ Len(x \o y) = 2
      BY <3>3, <3>5
    <3>7. \A i \in 1 .. Len(x \o y) : (x \o y)[i] = w[i]
      BY <3>4, <3>6
    <3> QED
      BY <3>2, <3>4, <3>5, <3>6, <3>7, SeqEqual DEF x, y, w
  <2>3. Len(old) \in Nat
    BY DEF StoredType
  <2> QED
    BY <2>1, <2>2, <2>3
<1>5. <<a, b>>[1] = a /\ Len(<<a, b>>) = 2
  OBVIOUS
<1> HIDE DEF a, b, v, k, no
<1>6. IsBuilt(a, r, "stat", "success", no, k, v) /\ IsBuilt(b, r, "stat", "success", no, no, no)
  <2>1. a = Build(r, "stat", "success", no, k, v) /\ b = Build(r, "stat", "success", no, no, no)
    <3>1. no = <<>>
      BY DEF no
    <3> QED
      BY <1>1, <1>2, <3>1, ResponseIsBuilt
  <2> QED
    BY <1>1, <2>1, BuiltPacket
<1>7. /\ IsPacket(a, r, "stat") /\ a[1].keyLength = 1 /\ Numbers(SubSeq(a, 3, Len(a))) = <<1, Len(old)>>
      /\ IsPacket(b, r, "stat") /\ b[1].keyLength = 0 /\ b[2].totalBodyLength = 0
  BY <1>3, <1>6 DEF IsBuilt
<1>8. ~EndOfStats(a) /\ EndOfStats(b)
  BY <1>7 DEF EndOfStats, DeserializeHeader
<1>9. Returned("stat", <<a, b>>) = [flag |-> TRUE, value |->
          [i \in 1 .. Len(<<a, b>>) - 1 |->
              Numbers(SubSeq(<<a, b>>[i], HeaderSize + 1, Len(<<a, b>>[i])))]]
  BY DEF Returned, CounterOps
<1>10. [i \in 1 .. Len(<<a, b>>) - 1 |->
              Numbers(SubSeq(<<a, b>>[i], HeaderSize + 1, Len(<<a, b>>[i])))] = << <<1, Len(old)>> >>
  <2>1. \A i \in 1 .. 1 : Numbers(SubSeq(<<a, b>>[i], HeaderSize + 1, Len(<<a, b>>[i]))) = <<1, Len(old)>>
    BY <1>5, <1>7 DEF HeaderSize
  <2>2. Len(<<a, b>>) - 1 = 1
    BY <1>5
  <2> DEFINE f(i) == Numbers(SubSeq(<<a, b>>[i], HeaderSize + 1, Len(<<a, b>>[i])))
             w == <<1, Len(old)>>
  <2>3. \A i \in 1 .. 1 : f(i) = w
    BY <2>1
  <2> HIDE DEF f, w
  <2>4. [i \in 1 .. 1 |-> f(i)] = <<w>>
    BY <2>3
  <2> QED
    BY <2>2, <2>4 DEF f, w
<1>11. Told("stat", [before |-> old, after |-> new, refused |-> FALSE])
           = [flag |-> TRUE, value |-> << <<1, Len(old)>> >>]
  BY DEF Told, CounterOps
<1> QED
  BY <1>7, <1>8, <1>9, <1>10, <1>11 DEF a, b

-----------------------------------------------------------------------------
\* Words on their way to a listener

\* Streams that begin alike up to a point: the one is the other so far.
SameStream(a, b, c, d) == a \o b = c \o d /\ Len(a) <= Len(c)
SameSoFar(a, b, c, d) ==
    /\ \A i \in 1 .. Len(a) : a[i] = c[i]
    /\ Len(a) = Len(c) => a = c /\ b = d

LEMMA Beginnings ==
    ASSUME NEW a \in Seq(WordsType), NEW b \in Seq(WordsType),
           NEW c \in Seq(WordsType), NEW d \in Seq(WordsType), SameStream(a, b, c, d)
    PROVE  SameSoFar(a, b, c, d)
<1>0. a \o b = c \o d /\ Len(a) <= Len(c)
  BY DEF SameStream
<1>1. /\ Len(a \o b) = Len(a) + Len(b) /\ Len(c \o d) = Len(c) + Len(d)
      /\ \A i \in 1 .. Len(a) : (a \o b)[i] = a[i]
      /\ \A i \in 1 .. Len(c) : (c \o d)[i] = c[i]
      /\ \A i \in 1 .. Len(b) : (a \o b)[Len(a) + i] = b[i]
      /\ \A i \in 1 .. Len(d) : (c \o d)[Len(c) + i] = d[i]
  BY Joined
<1>2. Len(a) \in Nat /\ Len(b) \in Nat /\ Len(c) \in Nat /\ Len(d) \in Nat
  OBVIOUS
<1>3. \A i \in 1 .. Len(a) : a[i] = c[i]
  BY <1>0, <1>1, <1>2
<1>4. ASSUME Len(a) = Len(c) PROVE a = c /\ b = d
  <2>1. a = c
    BY <1>3, <1>4, SeqEqual
  <2>2. Len(b) = Len(d)
    BY <1>0, <1>1, <1>2, <1>4
  <2>3. \A i \in 1 .. Len(b) : b[i] = d[i]
    BY <1>0, <1>1, <1>4, <2>2
  <2>4. b = d
    BY <2>2, <2>3, SeqEqual
  <2> QED
    BY <2>1, <2>4
<1> QED
  BY <1>3, <1>4 DEF SameSoFar

\* A listener takes the packet it is sent, when it has heard all of it.
LEMMA TakesPacket ==
    ASSUME TypeOK, NEW s \in Sockets, NEW l \in Listeners, NEW junk, fromServer[s] # <<>>,
           NEW p, NEW of, NEW opcode, IsPacket(p, of, opcode),
           NEW rest \in Seq(WordsType), Hears(s, l, p, rest)
    PROVE  LET buf == Append(heard[s][l], Head(fromServer[s]))
               got == Takes(s, l, Head(fromServer[s]), junk)
           IN  \/ got = p /\ Tail(fromServer[s]) = rest
               \/ got = <<>> /\ buf \o Tail(fromServer[s]) = p \o rest /\ Len(buf) < Len(p)
<1> DEFINE h == heard[s][l]  f == fromServer[s]  buf == Append(h, Head(f))  t == Tail(f)
<1>1. h \in Seq(WordsType) /\ f \in Seq(WordsType) /\ f # <<>> /\ p \in Seq(WordsType)
  BY DEF TypeOK, IsPacket
<1>2. h \o f = p \o rest /\ Len(h) < Len(p)
  BY DEF Hears
<1>3. Takes(s, l, Head(f), junk) =
          IF buf[1].is = "first" THEN IF Complete(buf) THEN buf ELSE <<>>
          ELSE IF Len(buf) >= HeaderSize THEN junk ELSE <<>>
  BY DEF Takes
<1> HIDE DEF h, f
<1>4. buf \in Seq(WordsType) /\ t \in Seq(WordsType) /\ Len(buf) = Len(h) + 1 /\ buf \o t = h \o f
  BY <1>1, WordHeard, SMTT(30)
<1>5. Len(h) \in Nat /\ Len(p) \in Nat
  BY <1>1
<1> HIDE DEF buf, t
<1>6. Len(buf) <= Len(p) /\ Len(buf) >= 1
  BY <1>2, <1>4, <1>5
<1>7. buf \o t = p \o rest
  BY <1>2, <1>4
<1>8. /\ \A i \in 1 .. Len(buf) : buf[i] = p[i]
      /\ Len(buf) = Len(p) => buf = p /\ t = rest
  <2>1. buf \in Seq(WordsType) /\ t \in Seq(WordsType) /\ p \in Seq(WordsType)
    BY <1>1, <1>4
  <2>2. SameStream(buf, t, p, rest)
    BY <1>6, <1>7 DEF SameStream
  <2>3. SameSoFar(buf, t, p, rest)
    BY <2>1, <2>2, Beginnings
  <2> QED
    BY <2>3 DEF SameSoFar
<1>9. /\ Len(p) >= HeaderSize /\ Len(p) = HeaderSize + p[2].totalBodyLength /\ p[1].is = "first"
      /\ Len(p) \in Nat
  BY <1>5 DEF IsPacket
<1>10. buf[1].is = "first"
  BY <1>4, <1>6, <1>8, <1>9
<1>11. Complete(buf) <=> Len(buf) = Len(p)
  <2>1. Len(buf) >= HeaderSize => DeserializeHeader(buf).totalBodyLength = p[2].totalBodyLength
    BY <1>4, <1>8 DEF DeserializeHeader, HeaderSize
  <2>2. Len(buf) \in Nat
    BY <1>4
  <2>3. CASE Len(buf) >= HeaderSize
    BY <1>6, <1>9, <2>1, <2>2, <2>3 DEF Complete
  <2>4. CASE ~(Len(buf) >= HeaderSize)
    BY <1>9, <2>4 DEF Complete
  <2> QED
    BY <2>3, <2>4
<1>12. CASE Len(buf) = Len(p)
  BY <1>3, <1>8, <1>10, <1>11, <1>12 DEF f, t
<1>13. CASE Len(buf) # Len(p)
  <2>1. Len(buf) < Len(p)
    BY <1>4, <1>5, <1>6, <1>13
  <2> QED
    BY <1>3, <1>7, <1>10, <1>11, <1>13, <2>1 DEF f, t, h, buf
<1> QED
  BY <1>12, <1>13

-----------------------------------------------------------------------------
\* Requests and their answers

LEMMA AnswerInit == Init => Exchanges /\ OwnResponse
<1> SUFFICES ASSUME Init PROVE Exchanges /\ OwnResponse
  OBVIOUS
<1>1. Exchanges
  BY DEF Init, Exchanges, NoRequest, Listeners
<1>2. OwnResponse
  BY DEF Init, OwnResponse
<1> QED
  BY <1>1, <1>2

\* A step after which no socket is open, and that settles no request but by
\* giving it up.
LEMMA ExchangesOver ==
    ASSUME AnswerInv, UNCHANGED <<heard, listening, request, taken, ran>>,
           \A s \in Sockets : socketState'[s] # "open",
           \A r \in Requests : result'[r] \in {result[r], "closed"},
           \A s \in Sockets, r \in Requests : r \in listening[s] => connectPromise'[s] = "resolved"
    PROVE  Exchanges' /\ OwnResponse'
<1>1. Exchanges'
  BY DEF AnswerInv, Exchanges
<1>2. OwnResponse'
  <2> SUFFICES ASSUME NEW r \in Requests, result'[r] = "resolved", taken'[r] # <<>>
               PROVE  /\ Len(ran'[r]) = 1
                      /\ Returned(request'[r].op, taken'[r]) = Told(request'[r].op, ran'[r][1])
                      /\ \/ ran'[r][1].refused
                         \/ ran'[r][1].after = Effect(request'[r].op, request'[r].value,
                                                      request'[r].delta, ran'[r][1].before)
    BY DEF OwnResponse
  <2>1. result[r] = "resolved" /\ taken[r] # <<>>
    OBVIOUS
  <2> QED
    BY <2>1 DEF AnswerInv, OwnResponse
<1> QED
  BY <1>1, <1>2

LEMMA RejectKeeps ==
    ASSUME RejectPendingCommands
    PROVE  \A r \in Requests : result'[r] \in {result[r], "closed"}
  BY DEF RejectPendingCommands

LEMMA CreateAnswers ==
    ASSUME AnswerInv, NEW s \in Sockets, Connect(s) \/ Reconnect(s)
    PROVE  Exchanges' /\ OwnResponse'
<1>1. /\ TypeOK /\ Connections /\ Sessions /\ Exchanges
  BY DEF AnswerInv, SessionInv, TypeInv
<1>2. /\ UNCHANGED <<heard, listening, request, taken, ran>>
      /\ \A r \in Requests : result'[r] \in {result[r], "closed"}
  BY RejectKeeps DEF Connect, Reconnect, callVars, serverVars
<1>3. /\ connectPromise' = [connectPromise EXCEPT ![s] = "pending"] /\ socketState[s] = "none"
      /\ \/ socketState' = [socketState EXCEPT ![s] = "connecting"] /\ ~connected
         \/ socketState' = [Destroy(socket) EXCEPT ![s] = "connecting"]
  BY DEF Connect, Reconnect, CreateConnection
<1>4. \A t \in Sockets : socketState'[t] # "open"
  BY <1>1, <1>3, ZenonT(30) DEF TypeOK, Connections, Destroy, Alive
<1>5. listening[s] = {}
  BY <1>1, <1>3 DEF Sessions, NotYet
<1>6. \A t \in Sockets, r \in Requests : r \in listening[t] => connectPromise'[t] = "resolved"
  BY <1>1, <1>3, <1>5 DEF Exchanges, TypeOK
<1> QED
  BY <1>2, <1>4, <1>6, ExchangesOver

LEMMA DisconnectAnswers ==
    ASSUME AnswerInv, Disconnect
    PROVE  Exchanges' /\ OwnResponse'
<1>1. /\ TypeOK /\ Connections /\ Exchanges
  BY DEF AnswerInv, SessionInv, TypeInv
<1>2. /\ UNCHANGED <<heard, listening, request, taken, ran, result, connectPromise>>
  BY DEF Disconnect, callVars
<1>3. \A t \in Sockets : socketState'[t] # "open"
  BY <1>1 DEF Connections, Destroy, Alive, Disconnect
<1>4. \A t \in Sockets, r \in Requests : r \in listening[t] => connectPromise'[t] = "resolved"
  BY <1>1, <1>2 DEF Exchanges
<1> QED
  BY <1>2, <1>3, <1>4, ExchangesOver

LEMMA EndsAnswers ==
    ASSUME AnswerInv, NEW s \in Sockets, Ends(s),
           connectPromise' \in {connectPromise, RejectConnect(s)}
    PROVE  Exchanges' /\ OwnResponse'
<1>1. /\ TypeOK /\ Connections /\ Exchanges
  BY DEF AnswerInv, SessionInv, TypeInv
<1>2. /\ UNCHANGED <<heard, listening, request, taken, ran, result>>
  BY DEF Ends, callVars
<1>3. \A t \in Sockets : socketState'[t] # "open"
  BY <1>1 DEF Connections, Destroy, Alive, Ends
<1>4. \A t \in Sockets, r \in Requests : r \in listening[t] => connectPromise'[t] = "resolved"
  BY <1>1 DEF Exchanges, RejectConnect, TypeOK
<1> QED
  BY <1>2, <1>3, <1>4, ExchangesOver

LEMMA ClosedAnswers ==
    ASSUME AnswerInv, NEW s \in Sockets, Closed(s)
    PROVE  Exchanges' /\ OwnResponse'
<1>1. /\ TypeOK /\ Connections /\ Exchanges
  BY DEF AnswerInv, SessionInv, TypeInv
<1>2. /\ UNCHANGED <<heard, listening, request, taken, ran, connectPromise>>
      /\ \A r \in Requests : result'[r] \in {result[r], "closed"}
  BY RejectKeeps DEF Closed, serverVars
<1>3. \A t \in Sockets : socketState'[t] # "open"
  BY <1>1 DEF Connections, Closed, TypeOK
<1>4. \A t \in Sockets, r \in Requests : r \in listening[t] => connectPromise'[t] = "resolved"
  BY <1>1, <1>2 DEF Exchanges
<1> QED
  BY <1>2, <1>3, <1>4, ExchangesOver

\* Of the words of a packet only the first starts one.
LEMMA OneHead ==
    ASSUME NEW p, NEW of, NEW opcode, IsPacket(p, of, opcode)
    PROVE  \A i \in DOMAIN p : p[i].is = "first" <=> i = 1
<1>1. p \in Seq(WordsType) /\ Len(p) >= 2 /\ p[1].is = "first" /\ p[2].is = "second"
      /\ \A i \in DOMAIN p : i > 2 => p[i].is = "body"
  BY DEF IsPacket, Bodies, HeaderSize
<1> QED
  BY <1>1

\* The credentials are the first thing that is sent.
LEMMA ReadyAnswers ==
    ASSUME AnswerInv, SessionInv', NEW s \in Sockets, Ready(s)
    PROVE  Exchanges' /\ OwnResponse'
<1>1. /\ TypeOK /\ Connections /\ Sessions /\ Exchanges /\ OwnResponse /\ Connections'
  BY DEF AnswerInv, SessionInv, TypeInv
<1>2. /\ socketState[s] = "connecting" /\ s = socket
      /\ toServer' = [toServer EXCEPT ![s] = @ \o BuildSaslPlain(Auth, <<1>>, <<0, 1>>)]
      /\ listening' = [listening EXCEPT ![s] = @ \cup {Auth}]
      /\ UNCHANGED <<connectPromise, request, via, result, taken, heard, fromServer, session, ran>>
      /\ UNCHANGED socket
  BY <1>1 DEF Ready, Connections, Alive, callVars
<1> DEFINE p == BuildSaslPlain(Auth, <<1>>, <<0, 1>>)
<1>3. IsPacket(p, Auth, "auth")
  BY AuthPacket
<1>4. NotYet(s)
  BY <1>1, <1>2 DEF Sessions
<1>5. toServer'[s] = <<>> \o p /\ listening'[s] = {Auth}
  BY <1>1, <1>2, <1>4 DEF TypeOK, NotYet
<1> HIDE DEF p
<1>6. toServer'[s] = p /\ p[1].of = Auth /\ 1 \in DOMAIN p
  BY <1>3, <1>5 DEF IsPacket, HeaderSize
<1>7. Heads(s)' = {1}
  <2>1. Heads(s)' = {i \in DOMAIN p : p[i].is = "first"}
    BY <1>6 DEF Heads
  <2> QED
    BY <1>3, <1>6, <2>1, OneHead
<1>8. Unanswered(s, Auth)'
  BY <1>2, <1>4, <1>6, <1>7 DEF Unanswered, NotYet, Auth, Requests, Listeners
<1>9. Auth \notin Requests
  BY DEF Auth, Requests
<1>10. Exchange(s)'
  BY <1>5, <1>6, <1>7, <1>8, <1>9 DEF Exchange
<1>11. \A t \in Sockets \ {s} : socketState'[t] # "open" /\ listening'[t] = listening[t]
  BY <1>1, <1>2 DEF Connections, Alive, TypeOK
<1>12. Exchanges'
  BY <1>1, <1>2, <1>4, <1>5, <1>9, <1>10, <1>11 DEF Exchanges, NotYet
<1>13. OwnResponse'
  BY <1>1, <1>2 DEF OwnResponse
<1> QED
  BY <1>12, <1>13

\* The heads of what has grown by more words.
LEMMA HeadsJoined ==
    ASSUME NEW w \in Seq(WordsType), NEW v \in Seq(WordsType)
    PROVE  /\ \A i \in DOMAIN w : i \in DOMAIN (w \o v) /\ (w \o v)[i] = w[i]
           /\ \A i \in DOMAIN v : Len(w) + i \in DOMAIN (w \o v) /\ (w \o v)[Len(w) + i] = v[i]
           /\ \A i \in DOMAIN (w \o v) : i \in DOMAIN w \/ \E j \in DOMAIN v : i = Len(w) + j
<1>1. /\ w \o v \in Seq(WordsType) /\ Len(w \o v) = Len(w) + Len(v)
      /\ \A i \in 1 .. Len(w) : (w \o v)[i] = w[i]
      /\ \A i \in 1 .. Len(v) : (w \o v)[Len(w) + i] = v[i]
  BY Joined
<1>2. Len(w) \in Nat /\ Len(v) \in Nat /\ DOMAIN w = 1 .. Len(w) /\ DOMAIN v = 1 .. Len(v)
      /\ DOMAIN (w \o v) = 1 .. (Len(w) + Len(v))
  BY <1>1
<1>3. \A i \in 1 .. (Len(w) + Len(v)) : i \in 1 .. Len(w) \/ (i - Len(w) \in 1 .. Len(v) /\ i = Len(w) + (i - Len(w)))
  BY <1>2
<1>4. \A i \in DOMAIN w : i \in DOMAIN (w \o v) /\ (w \o v)[i] = w[i]
  BY <1>1, <1>2
<1>5. \A i \in DOMAIN v : Len(w) + i \in DOMAIN (w \o v) /\ (w \o v)[Len(w) + i] = v[i]
  BY <1>1, <1>2
<1>6. ASSUME NEW i \in DOMAIN (w \o v), i \notin DOMAIN w
      PROVE  \E j \in DOMAIN v : i = Len(w) + j
  <2>1. i - Len(w) \in DOMAIN v /\ i = Len(w) + (i - Len(w))
    BY <1>2, <1>3, <1>6
  <2> QED
    BY <2>1
<1> QED
  BY <1>4, <1>5, <1>6

\* A request is sent when nothing is on its way to the server or back.
LEMMA WriteAnswers ==
    ASSUME AnswerInv, SessionInv', Awaits = "answer", NEW r \in Requests, NEW q \in Asked,
           MayAsk, Write(r, q, Packet(r, q)), q.op # "text",
           \/ /\ q.op # "quit" /\ result' = [result EXCEPT ![r] = "pending"]
              /\ listening' = [listening EXCEPT ![socket] = @ \cup {r}]
           \/ /\ q.op = "quit" /\ result' = [result EXCEPT ![r] = "resolved"]
              /\ listening' = listening
    PROVE  Exchanges' /\ OwnResponse'
<1>1. /\ TypeOK /\ Connections /\ Sessions /\ Exchanges /\ OwnResponse /\ Connections'
  BY DEF AnswerInv, SessionInv, TypeInv
<1>2. /\ result[r] = "none" /\ request' = [request EXCEPT ![r] = q] /\ via' = [via EXCEPT ![r] = socket]
      /\ UNCHANGED <<connectPromise, taken, socketState, heard, fromServer, session, ran>>
  BY DEF Write
<1>3. PICK s \in Sockets : s = socket /\ connectPromise[s] = "resolved" /\ listening[s] = {} /\ ~HasQuit(s)
  BY <1>1 DEF MayAsk, HasQuit, TypeOK, None
<1>4. /\ \A p \in Requests \ {r} : request'[p] = request[p] /\ via'[p] = via[p] /\ result'[p] = result[p]
      /\ request'[r] = q /\ via'[r] = s /\ result'[r] # "none"
      /\ taken[r] = <<>> /\ ran[r] = <<>>
  BY <1>1, <1>2, <1>3 DEF TypeOK, Exchanges
<1>5. \A t \in Sockets \ {s} : socketState'[t] # "open" /\ listening'[t] = listening[t]
  <2>1. \A t \in Sockets \ {s} : listening'[t] = listening[t]
    BY <1>1, <1>3 DEF TypeOK
  <2> QED
    BY <1>1, <1>2, <1>3, <2>1 DEF Connections, Alive
<1>6. \/ q.op # "quit" /\ listening'[s] = {r} /\ result'[r] = "pending"
      \/ q.op = "quit" /\ listening'[s] = {}
  BY <1>1, <1>3 DEF TypeOK
<1>7. ASSUME socketState[s] = "open"
      PROVE  Exchange(s)'
  <2>1. Heads(s) = {} /\ fromServer[s] = <<>>
    BY <1>1, <1>3, <1>7 DEF Exchanges, Exchange
  <2> DEFINE w == toServer[s]  v == Packet(r, q)
  <2>2. IsPacket(v, r, q.op) /\ v \in Seq(WordsType) /\ v[1].of = r /\ 1 \in DOMAIN v
    <3>1. IsPacket(v, r, q.op)
      BY RequestPacket
    <3> HIDE DEF v
    <3> QED
      BY <3>1 DEF IsPacket, HeaderSize
  <2>3. w \in Seq(WordsType) /\ toServer'[s] = w \o v
    BY <1>1, <1>3, <1>7 DEF TypeOK, Write, Alive
  <2> HIDE DEF v, w
  <2>4. Len(w) + 1 \in DOMAIN toServer'[s] /\ toServer'[s][Len(w) + 1] = v[1]
    BY <2>2, <2>3, HeadsJoined
  <2>5. \A i \in DOMAIN v : v[i].is = "first" <=> i = 1
    BY <2>2, OneHead
  <2>6. \A i \in DOMAIN w : w[i].is # "first"
    BY <2>1 DEF Heads, w
  <2>7. \A i \in DOMAIN toServer'[s] : toServer'[s][i].is = "first" <=> i = Len(w) + 1
    <3> SUFFICES ASSUME NEW i \in DOMAIN toServer'[s]
                 PROVE  toServer'[s][i].is = "first" <=> i = Len(w) + 1
      OBVIOUS
    <3>1. Len(w) \in Nat /\ DOMAIN w = 1 .. Len(w)
      BY <2>3
    <3>2. CASE i \in DOMAIN w
      <4>1. toServer'[s][i] = w[i]
        BY <2>2, <2>3, <3>2, HeadsJoined
      <4> QED
        BY <2>6, <3>1, <3>2, <4>1
    <3>3. CASE i \notin DOMAIN w
      <4>1. PICK j \in DOMAIN v : i = Len(w) + j
        BY <2>2, <2>3, <3>3, HeadsJoined
      <4>2. toServer'[s][i] = v[j] /\ j \in Nat
        BY <2>2, <2>3, <4>1, HeadsJoined
      <4> QED
        BY <2>5, <3>1, <4>1, <4>2
    <3> QED
      BY <3>2, <3>3
  <2>8. Heads(s)' = {Len(w) + 1}
    BY <2>4, <2>7 DEF Heads
  <2>9. heard[s][r] = <<>>
    BY <1>1, <1>3 DEF Exchanges, Listeners
  <2>10. toServer'[s][Len(w) + 1].of = r
    BY <2>2, <2>4
  <2>11. Unanswered(s, r)'
    BY <1>2, <1>4, <2>1, <2>8, <2>9, <2>10 DEF Unanswered
  <2>12. q.op = "quit" => HasQuit(s)'
    BY <1>4 DEF HasQuit
  <2>13. connectPromise'[s] = "resolved"
    BY <1>2, <1>3
  <2>14. \A i \in Heads(s)' : i = Len(w) + 1 /\ toServer'[s][i].of = r
    BY <2>8, <2>10
  <2>15. /\ \A i, j \in Heads(s)' : i = j
         /\ \A i \in Heads(s)' : LET p == toServer'[s][i].of IN
              p \in Requests => ran'[p] = <<>> /\ (p \in listening'[s] \/ HasQuit(s)')
    BY <1>2, <1>4, <1>6, <2>12, <2>14
  <2>16. /\ connectPromise'[s] = "pending" => Auth \in listening'[s]
         /\ listening'[s] = {} => HasQuit(s)'
    BY <1>6, <2>12, <2>13
  <2>17. \A l \in listening'[s] : /\ l = r /\ listening'[s] = {l} /\ Unanswered(s, l)'
                                  /\ result'[l] = "pending" /\ request'[l] \in Asked
                                  /\ request'[l].op \notin {"quit", "text"}
    BY <1>4, <1>6, <2>11
  <2> HIDE DEF w, v
  <2> QED
    BY <2>15, <2>16, <2>17 DEF Exchange
<1>8. Exchanges'
  <2>1. \A t \in Sockets : socketState'[t] = "open" => Exchange(t)'
    BY <1>2, <1>5, <1>7
  <2>2. \A t \in Sockets, l \in Listeners : heard'[t][l] # <<>> => l \in listening'[t]
    BY <1>1, <1>2, <1>3, <1>5 DEF Exchanges
  <2>3. \A p \in Requests :
          result'[p] = "none" => request'[p].op = "none" /\ taken'[p] = <<>> /\ ran'[p] = <<>>
    BY <1>1, <1>2, <1>4 DEF Exchanges
  <2>4. \A t \in Sockets, p \in Requests : p \in listening'[t] => connectPromise'[t] = "resolved"
    BY <1>1, <1>2, <1>3, <1>5 DEF Exchanges
  <2> QED
    BY <2>1, <2>2, <2>3, <2>4 DEF Exchanges
<1>9. OwnResponse'
  BY <1>1, <1>2, <1>4 DEF OwnResponse
<1> QED
  BY <1>8, <1>9

\* A text command is no packet, and nobody waits for the answer to it.
LEMMA CommandAnswers ==
    ASSUME AnswerInv, SessionInv', NEW r \in Requests, NEW q \in Asked, Command(r, q)
    PROVE  Exchanges' /\ OwnResponse'
<1>1. /\ TypeOK /\ Connections /\ Sessions /\ Exchanges /\ OwnResponse /\ Connections'
  BY DEF AnswerInv, SessionInv, TypeInv
<1> DEFINE v == <<[is |-> "text", of |-> r]>>
<1>2. /\ result[r] = "none" /\ request' = [request EXCEPT ![r] = q] /\ via' = [via EXCEPT ![r] = socket]
      /\ result' = [result EXCEPT ![r] = "pending"]
      /\ q.op = "text" /\ connected /\ socket # None
      /\ toServer' = IF Alive(socket) THEN [toServer EXCEPT ![socket] = @ \o v] ELSE toServer
      /\ UNCHANGED <<connectPromise, taken, socketState, heard, fromServer, session, ran, listening>>
  BY DEF Write, Command
<1>3. PICK s \in Sockets : s = socket
  BY <1>1, <1>2 DEF TypeOK, None
<1>4. /\ \A p \in Requests \ {r} : request'[p] = request[p] /\ via'[p] = via[p] /\ result'[p] = result[p]
      /\ request'[r] = q /\ result'[r] = "pending" /\ request[r].op = "none"
      /\ taken[r] = <<>> /\ ran[r] = <<>>
  BY <1>1, <1>2, <1>3 DEF TypeOK, Exchanges
<1>5. \A t \in Sockets \ {s} : socketState'[t] # "open"
  BY <1>1, <1>2, <1>3 DEF Connections, Alive
<1>6. ASSUME socketState[s] = "open"
      PROVE  Exchange(s)'
  <2>1. Exchange(s)
    BY <1>1, <1>6 DEF Exchanges
  <2> DEFINE w == toServer[s]
  <2>2. w \in Seq(WordsType) /\ v \in Seq(WordsType) /\ toServer'[s] = w \o v
        /\ \A i \in DOMAIN v : v[i].is = "text"
    BY <1>1, <1>2, <1>3, <1>6 DEF TypeOK, Alive, WordsType
  <2> HIDE DEF v, w
  <2>3. /\ \A i \in DOMAIN w : i \in DOMAIN toServer'[s] /\ toServer'[s][i] = w[i]
        /\ \A i \in DOMAIN toServer'[s] : toServer'[s][i].is = "first" => i \in DOMAIN w
    <3>1. \A i \in DOMAIN w : i \in DOMAIN toServer'[s] /\ toServer'[s][i] = w[i]
      BY <2>2, HeadsJoined
    <3>2. ASSUME NEW i \in DOMAIN toServer'[s], i \notin DOMAIN w
          PROVE  toServer'[s][i].is = "text"
      <4>1. PICK j \in DOMAIN v : i = Len(w) + j
        BY <2>2, <3>2, HeadsJoined
      <4>2. toServer'[s][i] = v[j]
        BY <2>2, <4>1, HeadsJoined
      <4> QED
        BY <2>2, <4>1, <4>2
    <3> QED
      BY <3>1, <3>2
  <2>4. /\ Heads(s)' = Heads(s) /\ \A i \in Heads(s) : toServer'[s][i] = toServer[s][i]
    BY <2>3 DEF Heads, w
  <2>5. HasQuit(s) => HasQuit(s)'
    BY <1>4 DEF HasQuit
  <2>6. r \notin listening[s]
    BY <1>2, <2>1 DEF Exchange, Auth, Requests
  <2>7. ASSUME NEW l \in listening[s]
        PROVE  /\ Unanswered(s, l) => Unanswered(s, l)'
               /\ Answered(s, l) => Answered(s, l)'
               /\ l # Auth => /\ result'[l] = "pending" /\ request'[l] \in Asked
                              /\ request'[l].op \notin {"quit", "text"}
    <3>1. l = Auth \/ (l \in Requests \ {r} /\ request'[l] = request[l] /\ result'[l] = result[l])
      BY <1>1, <1>4, <2>6 DEF TypeOK, Listeners
    <3>2. Unanswered(s, l) => Unanswered(s, l)'
      BY <1>2, <2>4 DEF Unanswered
    <3>3. Answered(s, l) => Answered(s, l)'
      BY <1>2, <2>4, <3>1 DEF Answered, Did, Hears
    <3> QED
      BY <2>1, <3>1, <3>2, <3>3 DEF Exchange
  <2>8. /\ \A i, j \in Heads(s)' : i = j
        /\ \A i \in Heads(s)' : LET p == toServer'[s][i].of IN
              p \in Requests => ran'[p] = <<>> /\ (p \in listening'[s] \/ HasQuit(s)')
        /\ connectPromise'[s] = "pending" => Auth \in listening'[s]
        /\ listening'[s] = {} => HasQuit(s)' \/ (Heads(s)' = {} /\ fromServer'[s] = <<>>)
    <3>1. \A i, j \in Heads(s)' : i = j
      BY <2>1, <2>4 DEF Exchange
    <3>2. ASSUME NEW i \in Heads(s)', toServer'[s][i].of \in Requests
          PROVE  /\ ran'[toServer'[s][i].of] = <<>>
                 /\ toServer'[s][i].of \in listening'[s] \/ HasQuit(s)'
      <4>1. i \in Heads(s) /\ toServer'[s][i] = toServer[s][i] /\ toServer[s][i].of \in Requests
        BY <2>4, <3>2
      <4>2. ran[toServer[s][i].of] = <<>> /\ (toServer[s][i].of \in listening[s] \/ HasQuit(s))
        BY <2>1, <4>1 DEF Exchange
      <4> QED
        BY <1>2, <2>5, <4>1, <4>2
    <3>3. /\ connectPromise'[s] = "pending" => Auth \in listening'[s]
          /\ listening'[s] = {} => HasQuit(s)' \/ (Heads(s)' = {} /\ fromServer'[s] = <<>>)
      BY <1>2, <2>1, <2>4, <2>5 DEF Exchange
    <3> QED
      BY <3>1, <3>2, <3>3
  <2>9. \A l \in listening'[s] :
          /\ listening'[s] = {l}
          /\ Unanswered(s, l)' \/ Answered(s, l)'
          /\ l # Auth => /\ result'[l] = "pending"
                         /\ request'[l] \in Asked /\ request'[l].op \notin {"quit", "text"}
    BY <1>2, <2>1, <2>7 DEF Exchange
  <2> QED
    BY <2>8, <2>9 DEF Exchange
<1>7. Exchanges'
  BY <1>1, <1>2, <1>4, <1>5, <1>6 DEF Exchanges
<1>8. OwnResponse'
  BY <1>1, <1>2, <1>4 DEF OwnResponse
<1> QED
  BY <1>7, <1>8

LEMMA RequestAnswers ==
    ASSUME AnswerInv, SessionInv', Awaits = "answer", NEW r \in Requests, NEW q \in Asked,
           BinaryRequest(r, q) \/ BinaryQuit(r, q) \/ Command(r, q)
    PROVE  Exchanges' /\ OwnResponse'
<1>1. CASE BinaryRequest(r, q)
  BY <1>1, WriteAnswers DEF BinaryRequest
<1>2. CASE BinaryQuit(r, q)
  BY <1>2, WriteAnswers DEF BinaryQuit
<1> QED
  BY <1>1, <1>2, CommandAnswers

LEMMA AskedTyped ==
    ASSUME NEW q \in Asked
    PROVE  /\ q.op \in AllOps /\ q.value \in Seq(Halves)
           /\ q.op \in CounterOps => q.delta \in Numbers64
<1>1. q.op \in StoreOps \cup ConcatOps => q.value \in Seq(Halves)
  BY WordsAssumption DEF Asked, Halves
<1>2. q.op \notin StoreOps \cup ConcatOps => q.value \in Seq(Halves)
  BY NoWords DEF Asked
<1>3. q.op \in AllOps /\ (q.op \in CounterOps => q.delta \in Numbers64)
  BY OpsAssumption, WordsAssumption DEF Asked, Numbers64
<1> QED
  BY <1>1, <1>2, <1>3

\* The answer to a request that is not refused, and what is made of it.
LEMMA AnswerOf ==
    ASSUME NEW l \in Listeners, NEW q \in Asked, NEW old \in StoredType,
           NEW new, new = Effect(q.op, q.value, q.delta, old)
    PROVE  /\ q.op # "stat" =>
                  /\ IsPacket(Answer(l, q.op, old, new), l, q.op)
                  /\ Returned(q.op, <<Answer(l, q.op, old, new)>>) =
                         Told(q.op, [before |-> old, after |-> new, refused |-> FALSE])
           /\ q.op = "stat" => Answer(l, q.op, old, new) = Statistics(l, old) \o EndOfAnswer(l)
<1>1. /\ q.op \in AllOps /\ q.value \in Seq(Halves)
      /\ q.op \in CounterOps => q.delta \in Numbers64
  BY AskedTyped
<1>2. /\ new \in StoredType
      /\ q.op \in CounterOps /\ Succeeds(q.op, old) => Len(new) = 1 /\ ToNumber(new[1]) \in Numbers64
  BY <1>1, EffectTyped
<1>3. CASE q.op # "stat"
  <2> DEFINE p == Answer(l, q.op, old, new)
  <2>1. p = Answer(l, q.op, old, new)
    OBVIOUS
  <2> HIDE DEF p
  <2>2. IsPacket(p, l, q.op) /\ Returned(q.op, <<p>>) =
            Told(q.op, [before |-> old, after |-> new, refused |-> FALSE])
    BY <1>1, <1>2, <1>3, <2>1, AnswerReturned
  <2> QED
    BY <1>3, <2>2 DEF p
<1>4. CASE q.op = "stat"
  BY <1>1, <1>2, <1>4, AnswerIsBuilt
<1> QED
  BY <1>3, <1>4

\* The listener of what is executed hears the answer, and nothing else does.
LEMMA ExecuteAnswers ==
    ASSUME AnswerInv, SessionInv', NEW s \in Sockets, Execute(s)
    PROVE  Exchanges' /\ OwnResponse'
<1> DEFINE of   == toServer[s][1].of
           rest == SubSeq(toServer[s], Len(Packets[of]) + 1, Len(toServer[s]))
<1>0. TypeInv /\ TypeOK /\ Connections /\ Sessions /\ Exchanges /\ OwnResponse
  BY DEF AnswerInv, SessionInv, TypeInv
<1>1. /\ 1 \in Heads(s) /\ of \in Sendable /\ Len(Packets[of]) <= Len(toServer[s])
      /\ toServer' = [toServer EXCEPT ![s] = rest]
      /\ of = Auth => \E status \in {"success", "authError"} : ExecutesAuth(s, status)
      /\ of # Auth => ExecutesRequest(s, of)
  BY <1>0, ExecuteFacts
<1>2. Len(Packets[of]) \in Nat \ {0}
  <2>1. of \in Sendable
    BY <1>1
  <2> HIDE DEF of
  <2>2. IsPacket(Packets[of], of, OpcodeOf(of))
    BY <1>0, <2>1, PacketsAreUnits
  <2> QED
    BY <2>2 DEF IsPacket, HeaderSize
<1>3. /\ socketState[s] = "open"
      /\ UNCHANGED <<connected, authenticated, socket, connectPromise, socketState, listening, heard>>
      /\ UNCHANGED <<request, via, result, taken>>
  BY DEF Execute, callVars
<1>4. Exchange(s)
  BY <1>0, <1>3 DEF Exchanges
<1>5. Heads(s)' = {}
  <2> DEFINE words == toServer[s]  k == Len(Packets[of])
  <2>1. words \in Seq(WordsType) /\ k \in 1 .. Len(words) /\ toServer'[s] = SubSeq(words, k + 1, Len(words))
    BY <1>0, <1>1, <1>2 DEF TypeOK
  <2> HIDE DEF words, k
  <2>2. \A i \in DOMAIN toServer'[s] : /\ i + k \in DOMAIN words /\ toServer'[s][i] = words[i + k]
                                       /\ i + k # 1
    BY <2>1
  <2>3. \A i \in Heads(s) : i = 1
    BY <1>1, <1>4 DEF Exchange
  <2> QED
    BY <2>2, <2>3 DEF Heads, words, k
<1> HIDE DEF rest
<1>6. \A t \in Sockets \ {s} : socketState'[t] # "open"
  BY <1>0, <1>3 DEF Connections, Alive
<1>7. /\ of \in Requests => ran[of] = <<>> /\ result[of] # "none"
      /\ of \in Requests \/ of = Auth
  BY <1>1, <1>4 DEF Exchange, Sendable, Auth, Requests
<1>8. \A r \in Requests : r # of => ran'[r] = ran[r]
  BY <1>0, <1>1, <1>7 DEF ExecutesAuth, ExecutesRequest, TypeOK
<1>9. ASSUME NEW l, listening[s] = {l}
      PROVE  Answered(s, l)'
  <2>1. /\ Unanswered(s, l) /\ l \in Listeners
        /\ l # Auth => request[l] \in Asked
    BY <1>0, <1>1, <1>4, <1>9 DEF Exchange, Answered, TypeOK
  <2>2. of = l /\ heard[s][l] = <<>> /\ fromServer[s] = <<>>
        /\ (l \in Requests => ran[l] = <<>> /\ taken[l] = <<>>)
    BY <1>1, <1>4, <2>1 DEF Unanswered, Exchange
  <2>3. CASE l = Auth
    <3>1. PICK status \in {"success", "authError"} : ExecutesAuth(s, status)
      BY <1>1, <2>2, <2>3
    <3> DEFINE ans == AuthAnswer(status)
    <3>2. ans \in Seq(WordsType) /\ Len(ans) > 0
      <4>1. Auth \in Listeners /\ "auth" \in OpCodes /\ status \in Statuses
        BY DEF Listeners, OpCodes, Statuses
      <4>2. <<>> \in Seq(Halves) /\ <<1>> \in Seq(Halves)
        BY NoWords, SmallWords
      <4>3. ans = Build(Auth, "auth", status, <<>>, <<>>, <<1>>)
        BY <4>1, <4>2, ResponseIsBuilt DEF AuthAnswer
      <4>4. IsBuilt(Build(Auth, "auth", status, <<>>, <<>>, <<1>>), Auth, "auth", status,
                    <<>>, <<>>, <<1>>)
        BY <4>1, <4>2, BuiltPacket, Zenon
      <4> HIDE DEF ans
      <4> QED
        BY <4>3, <4>4 DEF IsBuilt, IsPacket, HeaderSize
    <3>3. fromServer'[s] = <<>> \o ans /\ (status = "success" => s \in session')
      BY <1>0, <2>2, <3>1 DEF ExecutesAuth, TypeOK
    <3> HIDE DEF ans
    <3>4. fromServer'[s] = ans
      BY <3>2, <3>3
    <3>5. heard'[s][Auth] \o fromServer'[s] = ans \o <<>> /\ Len(heard'[s][Auth]) < Len(ans)
      <4>1. <<>> \o ans = ans \o <<>> /\ Len(<<>>) < Len(ans)
        BY <3>2
      <4> QED
        BY <1>3, <2>2, <2>3, <3>4, <4>1
    <3>6. Hears(s, Auth, AuthAnswer(status), <<>>)'
      BY <3>5 DEF Hears, ans
    <3> QED
      BY <1>5, <2>3, <3>3, <3>6 DEF Answered
  <2>4. CASE l # Auth
    <3>1. l \in Requests /\ request[l] \in Asked /\ ExecutesRequest(s, l)
      BY <1>1, <2>1, <2>2, <2>4 DEF Listeners
    <3>2. ~Refused(s, l)
      BY <1>0, <1>9, <3>1 DEF Exchanges, Sessions, Refused
    <3> DEFINE new == Effect(request[l].op, request[l].value, request[l].delta, stored)
               ans == Answer(l, request[l].op, stored, new)
               did == [before |-> stored, after |-> new, refused |-> FALSE]
    <3>3. /\ Result(s, l) = new /\ fromServer'[s] = <<>> \o ans
          /\ ran'[l] = Append(<<>>, did)
      <4>1. Refused(s, l) = FALSE
        BY <3>2 DEF Refused
      <4>2. Result(s, l) = new
        BY <4>1 DEF Result
      <4> HIDE DEF new, ans
      <4>3. /\ ran' = [ran EXCEPT ![l] = Append(ran[l], did)]
            /\ fromServer' = [fromServer EXCEPT ![s] = fromServer[s] \o Answer(l, request[l].op, stored, new)]
        BY <3>1, <4>1, <4>2 DEF ExecutesRequest
      <4>4. ran'[l] = Append(ran[l], did)
        <5> HIDE DEF did
        <5> QED
          BY <1>0, <3>1, <4>3 DEF TypeOK
      <4>5. fromServer'[s] = fromServer[s] \o Answer(l, request[l].op, stored, new)
        BY <1>0, <4>3 DEF TypeOK
      <4> QED
        BY <2>2, <3>1, <4>2, <4>4, <4>5 DEF ans
    <3>4. /\ Len(ran'[l]) = 1 /\ ran'[l][1] = did
      BY <3>3
    <3>5. did.before = stored /\ did.after = new /\ did.refused = FALSE
      OBVIOUS
    <3>6. Did(l)'
      BY <1>3, <3>4, <3>5 DEF Did
    <3>7. stored \in StoredType /\ new = Effect(request[l].op, request[l].value, request[l].delta, stored)
      BY <1>0 DEF TypeOK
    <3>8. Answer(l, request[l].op, ran'[l][1].before, ran'[l][1].after) = ans
      BY <3>4, <3>5
    <3> HIDE DEF new, did
    <3>9. CASE request[l].op # "stat"
      <4>1. IsPacket(ans, l, request[l].op)
        BY <2>1, <3>1, <3>7, <3>9, AnswerOf
      <4> HIDE DEF ans
      <4>2. ans \in Seq(WordsType) /\ Len(ans) > 0
        BY <4>1 DEF IsPacket, HeaderSize
      <4>3. fromServer'[s] = ans
        BY <3>3, <4>2
      <4>4. heard'[s][l] \o fromServer'[s] = ans \o <<>> /\ Len(heard'[s][l]) < Len(ans)
        <5>1. <<>> \o ans = ans \o <<>> /\ Len(<<>>) < Len(ans)
          BY <4>2
        <5> QED
          BY <1>3, <2>2, <4>3, <5>1
      <4>5. Hears(s, l, Answer(l, request[l].op, ran[l][1].before, ran[l][1].after), <<>>)'
        BY <1>3, <3>8, <4>4 DEF Hears
      <4>6. request'[l].op # "stat" /\ taken'[l] = <<>>
        BY <1>3, <2>2, <3>1, <3>9
      <4> QED
        BY <1>5, <2>4, <3>6, <4>5, <4>6 DEF Answered
    <3>10. CASE request[l].op = "stat"
      <4> DEFINE a == Statistics(l, stored)  b == EndOfAnswer(l)
      <4>1. ans = a \o b
        BY <2>1, <3>1, <3>7, <3>10, AnswerOf
      <4>2. IsPacket(a, l, "stat") /\ IsPacket(b, l, "stat")
        BY <2>1, <3>7, StatisticsReturned
      <4> HIDE DEF a, b, ans
      <4>3. a \in Seq(WordsType) /\ Len(a) > 0 /\ b \in Seq(WordsType)
        BY <4>2 DEF IsPacket, HeaderSize
      <4>4. fromServer'[s] = <<>> \o (a \o b)
        BY <3>3, <4>1
      <4>5. a \o b \in Seq(WordsType)
        BY <4>3, Joined
      <4>6. <<>> \o (<<>> \o (a \o b)) = a \o b /\ Len(<<>>) < Len(a)
        <5> DEFINE c == a \o b
        <5>1. c \in Seq(WordsType)
          BY <4>5
        <5> HIDE DEF c
        <5>2. <<>> \o (<<>> \o c) = c
          BY <5>1
        <5>3. Len(<<>>) < Len(a)
          BY <4>3
        <5> QED
          BY <5>2, <5>3 DEF c
      <4>7. heard'[s][l] \o fromServer'[s] = a \o b /\ Len(heard'[s][l]) < Len(a)
        BY <1>3, <2>2, <4>4, <4>6
      <4>8. ran'[l][1].before = stored
        BY <3>4, <3>5
      <4>9. Hears(s, l, Statistics(l, ran[l][1].before), EndOfAnswer(l))'
        BY <4>7, <4>8 DEF Hears, a, b
      <4>10. request'[l].op = "stat" /\ taken'[l] = <<>>
        BY <1>3, <2>2, <3>1, <3>10
      <4> QED
        BY <1>5, <2>4, <3>6, <4>9, <4>10 DEF Answered
    <3> QED
      BY <3>9, <3>10
  <2> QED
    BY <2>3, <2>4
<1>10. Exchange(s)'
  <2>1. connectPromise'[s] = "pending" => Auth \in listening'[s]
    BY <1>3, <1>4 DEF Exchange
  <2>2. listening'[s] = {} => HasQuit(s)'
    BY <1>1, <1>3, <1>4 DEF Exchange, HasQuit
  <2>3. ASSUME NEW l \in listening'[s]
        PROVE  /\ listening'[s] = {l} /\ Answered(s, l)'
               /\ l # Auth => /\ result'[l] = "pending"
                              /\ request'[l] \in Asked /\ request'[l].op \notin {"quit", "text"}
    <3>1. l \in listening[s]
      BY <1>3
    <3> QED
      BY <1>3, <1>4, <1>9, <3>1 DEF Exchange
  <2> QED
    BY <1>5, <2>1, <2>2, <2>3 DEF Exchange
<1>11. Exchanges'
  <2>1. \A t \in Sockets : socketState'[t] = "open" => Exchange(t)'
    BY <1>6, <1>10
  <2>2. \A r \in Requests :
          result'[r] = "none" => request'[r].op = "none" /\ taken'[r] = <<>> /\ ran'[r] = <<>>
    BY <1>0, <1>3, <1>7, <1>8 DEF Exchanges
  <2>3. /\ \A t \in Sockets, l \in Listeners : heard'[t][l] # <<>> => l \in listening'[t]
        /\ \A t \in Sockets, r \in Requests : r \in listening'[t] => connectPromise'[t] = "resolved"
    BY <1>0, <1>3 DEF Exchanges
  <2> QED
    BY <2>1, <2>2, <2>3 DEF Exchanges
<1>12. OwnResponse'
  <2> SUFFICES ASSUME NEW r \in Requests, result'[r] = "resolved", taken'[r] # <<>>
               PROVE  /\ Len(ran'[r]) = 1
                      /\ Returned(request'[r].op, taken'[r]) = Told(request'[r].op, ran'[r][1])
                      /\ \/ ran'[r][1].refused
                         \/ ran'[r][1].after = Effect(request'[r].op, request'[r].value,
                                                      request'[r].delta, ran'[r][1].before)
    BY DEF OwnResponse
  <2>1. result[r] = "resolved" /\ taken[r] # <<>>
    BY <1>3
  <2>2. Len(ran[r]) = 1
    BY <1>0, <2>1 DEF OwnResponse
  <2>3. r # of
    BY <1>7, <2>2
  <2>4. ran'[r] = ran[r]
    BY <1>8, <2>3
  <2> QED
    BY <1>0, <1>3, <2>1, <2>4 DEF OwnResponse
<1> QED
  BY <1>11, <1>12

\* What OwnResponse says of one request.
Own(r) ==
    /\ Len(ran[r]) = 1
    /\ Returned(request[r].op, taken[r]) = Told(request[r].op, ran[r][1])
    /\ \/ ran[r][1].refused
       \/ ran[r][1].after = Effect(request[r].op, request[r].value, request[r].delta,
                                   ran[r][1].before)

\* The state after listener l of socket s has heard a word, and nothing else
\* has changed but what it makes of it.
Heard(s, got) ==
    /\ RequestsHear(s, got)
    /\ UNCHANGED <<socket, commandQueue, request, via, session, stored, ran>>

\* What Hears says, of the next state and of words fixed in this one.
StillHears(s, l, p, rest) ==
    heard'[s][l] \o fromServer'[s] = p \o rest /\ Len(heard'[s][l]) < Len(p)

\* A listener that has yet to hear more of its packet.
LEMMA HearsOn ==
    ASSUME TypeOK, NEW s \in Sockets, NEW l \in Listeners, listening[s] = {l},
           NEW got, got[l] = <<>>, Heard(s, got), NEW p, NEW rest,
           Append(heard[s][l], Head(fromServer[s])) \o Tail(fromServer[s]) = p \o rest,
           Len(Append(heard[s][l], Head(fromServer[s]))) < Len(p)
    PROVE  /\ Hears(s, l, p, rest)' /\ listening'[s] = {l}
           /\ \A r \in Requests : result'[r] = result[r] /\ taken'[r] = taken[r]
<1> DEFINE buf == Append(heard[s][l], Head(fromServer[s]))
<1>1. /\ fromServer' = [fromServer EXCEPT ![s] = Tail(@)]
      /\ heard' = [heard EXCEPT ![s] = [k \in Listeners |->
                IF k \notin listening[s] \/ got[k] # <<>> THEN <<>>
                ELSE Append(@[k], Head(fromServer[s]))]]
      /\ listening' = [listening EXCEPT ![s] = @ \
                           {k \in listening[s] : got[k] # <<>> /\ Final(k, got[k])}]
      /\ result' = [r \in Requests |->
             IF r \in {k \in listening[s] : got[k] # <<>> /\ Final(k, got[k])} THEN "resolved"
             ELSE result[r]]
      /\ taken' = [r \in Requests |->
                IF r \in listening[s] /\ got[r] # <<>> THEN Append(taken[r], got[r]) ELSE taken[r]]
  BY DEF Heard, RequestsHear
<1>2. fromServer'[s] = Tail(fromServer[s]) /\ heard'[s][l] = buf
  BY <1>1 DEF TypeOK
<1>3. Hears(s, l, p, rest)'
  BY <1>2 DEF Hears
<1>4. {k \in listening[s] : got[k] # <<>> /\ Final(k, got[k])} = {}
  OBVIOUS
<1>5. listening'[s] = {l} /\ \A r \in Requests : result'[r] = result[r] /\ taken'[r] = taken[r]
  BY <1>1, <1>4 DEF TypeOK
<1> QED
  BY <1>3, <1>5

\* A listener that takes its packet.
LEMMA HearsAll ==
    ASSUME TypeOK, NEW s \in Sockets, NEW l \in Listeners, listening[s] = {l},
           NEW got, got[l] # <<>>, Heard(s, got)
    PROVE  /\ fromServer'[s] = Tail(fromServer[s]) /\ heard'[s][l] = <<>>
           /\ listening'[s] = IF Final(l, got[l]) THEN {} ELSE {l}
           /\ l \in Requests => /\ taken'[l] = Append(taken[l], got[l])
                                /\ result'[l] = IF Final(l, got[l]) THEN "resolved" ELSE result[l]
<1>1. /\ fromServer' = [fromServer EXCEPT ![s] = Tail(@)]
      /\ heard' = [heard EXCEPT ![s] = [k \in Listeners |->
                IF k \notin listening[s] \/ got[k] # <<>> THEN <<>>
                ELSE Append(@[k], Head(fromServer[s]))]]
      /\ listening' = [listening EXCEPT ![s] = @ \
                           {k \in listening[s] : got[k] # <<>> /\ Final(k, got[k])}]
      /\ result' = [r \in Requests |->
             IF r \in {k \in listening[s] : got[k] # <<>> /\ Final(k, got[k])} THEN "resolved"
             ELSE result[r]]
      /\ taken' = [r \in Requests |->
                IF r \in listening[s] /\ got[r] # <<>> THEN Append(taken[r], got[r]) ELSE taken[r]]
  BY DEF Heard, RequestsHear
<1>2. {k \in listening[s] : got[k] # <<>> /\ Final(k, got[k])} = IF Final(l, got[l]) THEN {l} ELSE {}
  OBVIOUS
<1>3. fromServer'[s] = Tail(fromServer[s]) /\ heard'[s][l] = <<>>
  BY <1>1 DEF TypeOK
<1>4. listening'[s] = IF Final(l, got[l]) THEN {} ELSE {l}
  BY <1>1, <1>2 DEF TypeOK
<1>5. l \in Requests => /\ taken'[l] = Append(taken[l], got[l])
                        /\ result'[l] = IF Final(l, got[l]) THEN "resolved" ELSE result[l]
  BY <1>1, <1>2
<1> QED
  BY <1>3, <1>4, <1>5

\* What is left of the invariant, when the listeners of the socket are seen to.
LEMMA DeliverRest ==
    ASSUME TypeOK, Connections, Exchanges, OwnResponse, NEW s \in Sockets, NEW got, Heard(s, got),
           socketState[s] = "open",
           \A t \in Sockets \ {s} : /\ connectPromise'[t] = connectPromise[t]
                                    /\ socketState'[t] = "open" => socketState[t] = "open",
           socketState'[s] = "open" => Exchange(s)',
           \A r \in Requests : r \in listening'[s] => connectPromise'[s] = "resolved",
           \A r \in Requests : r \in listening[s] =>
               result'[r] # "none" /\ (result'[r] = "resolved" => Own(r)')
    PROVE  Exchanges' /\ OwnResponse'
<1>1. /\ heard' = [heard EXCEPT ![s] = [k \in Listeners |->
                IF k \notin listening[s] \/ got[k] # <<>> THEN <<>>
                ELSE Append(@[k], Head(fromServer[s]))]]
      /\ listening' = [listening EXCEPT ![s] = @ \
                           {k \in listening[s] : got[k] # <<>> /\ Final(k, got[k])}]
      /\ result' = [r \in Requests |->
             IF r \in {k \in listening[s] : got[k] # <<>> /\ Final(k, got[k])} THEN "resolved"
             ELSE result[r]]
      /\ taken' = [r \in Requests |->
                IF r \in listening[s] /\ got[r] # <<>> THEN Append(taken[r], got[r]) ELSE taken[r]]
      /\ UNCHANGED <<request, via, ran>>
  BY DEF Heard, RequestsHear
<1>2. \A r \in Requests : r \notin listening[s] => result'[r] = result[r] /\ taken'[r] = taken[r]
  BY <1>1
<1>3. \A t \in Sockets \ {s} : heard'[t] = heard[t] /\ listening'[t] = listening[t]
  BY <1>1 DEF TypeOK
<1>4. \A l \in Listeners : heard'[s][l] # <<>> => l \in listening'[s]
  BY <1>1 DEF TypeOK
<1>5. \A t \in Sockets : socketState'[t] = "open" => Exchange(t)'
  BY DEF Connections, Alive
<1>6. \A t \in Sockets, l \in Listeners : heard'[t][l] # <<>> => l \in listening'[t]
  BY <1>3, <1>4 DEF Exchanges
<1>7. \A r \in Requests :
          result'[r] = "none" => request'[r].op = "none" /\ taken'[r] = <<>> /\ ran'[r] = <<>>
  <2> SUFFICES ASSUME NEW r \in Requests, result'[r] = "none"
               PROVE  request'[r].op = "none" /\ taken'[r] = <<>> /\ ran'[r] = <<>>
    OBVIOUS
  <2>1. r \notin listening[s]
    OBVIOUS
  <2> QED
    BY <1>1, <1>2, <2>1 DEF Exchanges
<1>8. \A t \in Sockets, r \in Requests : r \in listening'[t] => connectPromise'[t] = "resolved"
  BY <1>3 DEF Exchanges
<1>9. Exchanges'
  BY <1>5, <1>6, <1>7, <1>8 DEF Exchanges
<1>10. OwnResponse'
  <2> SUFFICES ASSUME NEW r \in Requests, result'[r] = "resolved", taken'[r] # <<>>
               PROVE  Own(r)'
    BY DEF OwnResponse, Own
  <2>1. CASE r \in listening[s]
    BY <2>1
  <2>2. CASE r \notin listening[s]
    BY <1>1, <1>2, <2>2 DEF OwnResponse, Own
  <2> QED
    BY <2>1, <2>2
<1> QED
  BY <1>9, <1>10

LEMMA FirstOfOne ==
    ASSUME NEW T, NEW q \in Seq(T), Len(q) = 1
    PROVE  q[1] \in T
<1> QED
  OBVIOUS

LEMMA TwoPackets ==
    ASSUME NEW a, NEW b
    PROVE  Append(<<a>>, b) = <<a, b>>
<1>1. <<a>> \in Seq({a, b}) /\ <<a, b>> \in Seq({a, b}) /\ b \in {a, b}
  OBVIOUS
<1>2. /\ Append(<<a>>, b) \in Seq({a, b}) /\ Len(Append(<<a>>, b)) = 2
      /\ Append(<<a>>, b)[1] = a /\ Append(<<a>>, b)[2] = b
  BY <1>1
<1>3. \A i \in 1..2 : i = 1 \/ i = 2
  OBVIOUS
<1>4. \A i \in 1..2 : Append(<<a>>, b)[i] = <<a, b>>[i]
  BY <1>2, <1>3
<1> QED
  BY <1>1, <1>2, <1>4, SeqEqual

\* What the listener of a socket takes is the answer to its own request.
LEMMA DeliverAnswers ==
    ASSUME AnswerInv, SessionInv', NEW s \in Sockets, Deliver(s)
    PROVE  Exchanges' /\ OwnResponse'
<1>1. TypeOK /\ Connections /\ Sessions /\ Exchanges /\ OwnResponse
  BY DEF AnswerInv, SessionInv, TypeInv
<1>2. PICK junk \in Junk :
          LET got == [l \in listening[s] |-> Takes(s, l, Head(fromServer[s]), junk)]
          IN  Data(s, got) \/ Authenticated(s, got) \/ NotAuthenticated(s, got)
  BY DEF Deliver
<1> DEFINE got == [l \in listening[s] |-> Takes(s, l, Head(fromServer[s]), junk)]
<1>3. \A l \in listening[s] : got[l] = Takes(s, l, Head(fromServer[s]), junk)
  OBVIOUS
<1>4. Data(s, got) \/ Authenticated(s, got) \/ NotAuthenticated(s, got)
  BY <1>2
<1> HIDE DEF got
<1>5. /\ Heard(s, got) /\ socketState[s] = "open" /\ fromServer[s] # <<>> /\ s = socket
      /\ UNCHANGED <<request, via, session, stored, ran>>
  BY <1>1, <1>4 DEF Heard, Deliver, Data, Authenticated, NotAuthenticated, Connections, Alive
<1>6. Exchange(s)
  BY <1>1, <1>5 DEF Exchanges
<1>7. /\ \A t \in Sockets \ {s} : /\ connectPromise'[t] = connectPromise[t]
                                  /\ socketState'[t] = "open" => socketState[t] = "open"
      /\ socketState'[s] = "open" => toServer' = toServer
      /\ connectPromise'[s] \in {connectPromise[s], "resolved", "rejected"}
  <2>1. CASE Data(s, got)
    BY <2>1 DEF Data
  <2>2. CASE Authenticated(s, got)
    BY <1>1, <2>2 DEF Authenticated, TypeOK
  <2>3. CASE NotAuthenticated(s, got)
    BY <1>1, <1>5, <2>3 DEF NotAuthenticated, TypeOK, Destroy, Alive
  <2> QED
    BY <1>4, <2>1, <2>2, <2>3
<1>8. /\ toServer' = toServer => Heads(s)' = Heads(s)
      /\ HasQuit(s)' <=> HasQuit(s)
  BY <1>5 DEF Heads, HasQuit
<1>9. <<>> \in Seq(WordsType)
  OBVIOUS
<1>10. CASE listening[s] = {}
  <2>1. listening'[s] = {} /\ \A r \in Requests : result'[r] = result[r] /\ taken'[r] = taken[r]
    BY <1>1, <1>5, <1>10 DEF Heard, RequestsHear, TypeOK
  <2>2. HasQuit(s)
    BY <1>5, <1>6, <1>10 DEF Exchange
  <2>3. UNCHANGED <<connectPromise, socketState, toServer>>
    BY <1>4, <1>10 DEF Data, Authenticated, NotAuthenticated
  <2>4. Exchange(s)'
    <3>1. /\ \A i, j \in Heads(s)' : i = j
          /\ connectPromise'[s] = "pending" => Auth \in listening'[s]
      BY <1>6, <1>8, <1>10, <2>3 DEF Exchange
    <3>2. ASSUME NEW i \in Heads(s)', toServer'[s][i].of \in Requests
          PROVE  ran'[toServer'[s][i].of] = <<>> /\ HasQuit(s)'
      <4>1. i \in Heads(s) /\ toServer[s][i].of \in Requests
        BY <1>8, <2>3, <3>2
      <4>2. ran[toServer[s][i].of] = <<>>
        BY <1>6, <4>1 DEF Exchange
      <4> QED
        BY <1>5, <1>8, <2>2, <2>3, <4>2
    <3> QED
      BY <1>8, <2>1, <2>2, <3>1, <3>2 DEF Exchange
  <2> QED
    BY <1>1, <1>5, <1>7, <1>10, <2>1, <2>4, DeliverRest
<1>11. ASSUME NEW l \in listening[s] PROVE Exchanges' /\ OwnResponse'
  <2>1. /\ listening[s] = {l} /\ l \in Listeners /\ Answered(s, l) /\ Heads(s) = {}
        /\ l # Auth => l \in Requests /\ result[l] = "pending"
                       /\ request[l] \in Asked /\ request[l].op \notin {"quit", "text"}
    <3>1. listening[s] = {l} /\ Answered(s, l)
      BY <1>5, <1>6 DEF Exchange, Unanswered
    <3> QED
      BY <1>1, <1>6, <3>1 DEF Exchange, Answered, TypeOK, Listeners
  <2>2. got[l] = Takes(s, l, Head(fromServer[s]), junk)
    BY <1>3
  <2>3. ASSUME NEW p, NEW of, NEW opcode, IsPacket(p, of, opcode), NEW rest \in Seq(WordsType),
               Hears(s, l, p, rest)
        PROVE  \/ /\ got[l] = p /\ got[l] # <<>> /\ Tail(fromServer[s]) = rest
               \/ /\ got[l] = <<>> /\ StillHears(s, l, p, rest) /\ listening'[s] = {l}
                  /\ \A r \in Requests : result'[r] = result[r] /\ taken'[r] = taken[r]
    <3> DEFINE buf == Append(heard[s][l], Head(fromServer[s]))
    <3>1. \/ got[l] = p /\ Tail(fromServer[s]) = rest
          \/ got[l] = <<>> /\ buf \o Tail(fromServer[s]) = p \o rest /\ Len(buf) < Len(p)
      <4>1. TypeOK /\ l \in Listeners /\ fromServer[s] # <<>>
        BY <1>1, <1>5, <2>1
      <4> HIDE DEF buf
      <4>2. \/ Takes(s, l, Head(fromServer[s]), junk) = p /\ Tail(fromServer[s]) = rest
            \/ /\ Takes(s, l, Head(fromServer[s]), junk) = <<>>
               /\ buf \o Tail(fromServer[s]) = p \o rest /\ Len(buf) < Len(p)
        BY <4>1, <2>3, TakesPacket, ZenonT(30) DEF buf
      <4> QED
        BY <2>2, <4>2
    <3>2. p # <<>>
      BY <2>3 DEF IsPacket, HeaderSize
    <3>3. CASE got[l] = p /\ Tail(fromServer[s]) = rest
      BY <3>2, <3>3
    <3>4. CASE got[l] = <<>> /\ buf \o Tail(fromServer[s]) = p \o rest /\ Len(buf) < Len(p)
      <4>1. /\ Hears(s, l, p, rest)' /\ listening'[s] = {l}
            /\ \A r \in Requests : result'[r] = result[r] /\ taken'[r] = taken[r]
        BY <1>1, <1>5, <2>1, <3>4, HearsOn, ZenonT(30)
      <4>2. Hears(s, l, p, rest)' <=> StillHears(s, l, p, rest)
        BY DEF Hears, StillHears
      <4> QED
        BY <3>4, <4>1, <4>2
    <3> QED
      BY <3>1, <3>3, <3>4
  \* The listener goes on listening.
  <2>4. ASSUME Data(s, got), Answered(s, l)', listening'[s] = {l},
               \A r \in Requests : result'[r] = result[r]
        PROVE  Exchanges' /\ OwnResponse'
    <3>1. UNCHANGED <<connectPromise, socketState, toServer>>
      BY <2>4 DEF Data
    <3>2. Heads(s)' = {}
      BY <1>8, <2>1, <3>1
    <3>3. connectPromise'[s] = "pending" => Auth \in listening'[s]
      BY <1>6, <2>1, <2>4, <3>1 DEF Exchange
    <3>4. l # Auth => /\ result'[l] = "pending" /\ request'[l] \in Asked
                      /\ request'[l].op \notin {"quit", "text"}
      BY <1>5, <2>1, <2>4
    <3>5. Exchange(s)'
      BY <2>4, <3>2, <3>3, <3>4 DEF Exchange
    <3>6. \A r \in Requests : r \in listening'[s] => connectPromise'[s] = "resolved"
      BY <1>1, <2>1, <2>4, <3>1 DEF Exchanges
    <3>7. \A r \in Requests : r \in listening[s] =>
               result'[r] # "none" /\ (result'[r] = "resolved" => Own(r)')
      BY <2>1, <2>4 DEF Auth, Requests
    <3> QED
      BY <1>1, <1>5, <1>7, <3>5, <3>6, <3>7, DeliverRest
  \* The listener has all it waited for.
  <2>5. ASSUME listening'[s] = {}, fromServer'[s] = <<>>, connectPromise'[s] # "pending",
               l \in Requests => result'[l] # "none" /\ Own(l)'
        PROVE  Exchanges' /\ OwnResponse'
    <3>1. ASSUME socketState'[s] = "open" PROVE Exchange(s)'
      <4>1. Heads(s)' = {}
        BY <1>7, <1>8, <2>1, <3>1
      <4> QED
        BY <2>5, <4>1 DEF Exchange
    <3>2. \A r \in Requests : r \in listening'[s] => connectPromise'[s] = "resolved"
      BY <2>5
    <3>3. \A r \in Requests : r \in listening[s] =>
               result'[r] # "none" /\ (result'[r] = "resolved" => Own(r)')
      BY <2>1, <2>5
    <3> QED
      BY <1>1, <1>5, <1>7, <3>1, <3>2, <3>3, DeliverRest
  <2>6. CASE l = Auth
    <3>1. PICK status \in {"success", "authError"} :
             /\ status = "success" => s \in session
             /\ Hears(s, Auth, AuthAnswer(status), <<>>)
      BY <2>1, <2>6 DEF Answered
    <3> DEFINE p == AuthAnswer(status)
    <3>2. IsPacket(p, Auth, "auth")
      <4>1. Auth \in Listeners /\ "auth" \in OpCodes /\ status \in Statuses
        BY DEF Listeners, OpCodes, Statuses
      <4>2. <<>> \in Seq(Halves) /\ <<1>> \in Seq(Halves)
        BY NoWords, SmallWords
      <4>3. p = Build(Auth, "auth", status, <<>>, <<>>, <<1>>)
        BY <4>1, <4>2, ResponseIsBuilt DEF AuthAnswer
      <4>4. IsBuilt(Build(Auth, "auth", status, <<>>, <<>>, <<1>>), Auth, "auth", status,
                    <<>>, <<>>, <<1>>)
        BY <4>1, <4>2, BuiltPacket, Zenon
      <4> HIDE DEF p
      <4> QED
        BY <4>3, <4>4 DEF IsBuilt
    <3> HIDE DEF p
    <3>3. CASE got[l] = p /\ got[l] # <<>> /\ Tail(fromServer[s]) = <<>>
      <4>1. Authenticated(s, got) \/ NotAuthenticated(s, got)
        BY <1>4, <2>6, <3>3 DEF Data
      <4>2. connectPromise'[s] # "pending"
        BY <1>1, <4>1 DEF Authenticated, NotAuthenticated, TypeOK
      <4>3. listening'[s] = {} /\ fromServer'[s] = <<>>
        BY <1>1, <1>5, <2>1, <2>6, <3>3, HearsAll DEF Final
      <4>4. l \notin Requests
        BY <2>6 DEF Auth, Requests
      <4> QED
        BY <2>5, <4>2, <4>3, <4>4
    <3>4. CASE /\ got[l] = <<>> /\ StillHears(s, l, p, <<>>) /\ listening'[s] = {l}
               /\ \A r \in Requests : result'[r] = result[r] /\ taken'[r] = taken[r]
      <4>1. Data(s, got)
        BY <1>4, <2>6, <3>4 DEF Authenticated, NotAuthenticated
      <4>2. toServer' = toServer
        BY <4>1 DEF Data
      <4>3. Hears(s, Auth, AuthAnswer(status), <<>>)'
        BY <2>6, <3>4 DEF p, StillHears, Hears
      <4>4. Heads(s)' = {}
        BY <1>8, <2>1, <4>2
      <4>5. status = "success" => s \in session'
        BY <1>5, <3>1
      <4>6. Answered(s, l)'
        BY <2>6, <4>3, <4>4, <4>5 DEF Answered
      <4> QED
        BY <2>4, <3>4, <4>1, <4>6
    <3>5. Hears(s, l, p, <<>>)
      BY <2>6, <3>1 DEF p
    <3> QED
      BY <1>9, <2>3, <3>2, <3>3, <3>4, <3>5
  <2>7. CASE l # Auth
    <3>1. /\ l \in Requests /\ Did(l) /\ request[l] \in Asked /\ request[l].op \notin {"quit", "text"}
          /\ result[l] = "pending" /\ connectPromise[s] = "resolved"
      BY <1>1, <2>1, <2>7 DEF Answered, Exchanges
    <3>2. Data(s, got)
      BY <1>4, <2>1, <2>7 DEF Authenticated, NotAuthenticated
    <3>3. UNCHANGED <<connectPromise, socketState, toServer>> /\ Heads(s)' = {} /\ Did(l)'
      BY <1>5, <1>8, <2>1, <3>1, <3>2 DEF Data, Did
    <3> DEFINE did == ran[l][1]  before == did.before  op == request[l].op
               new == Effect(request[l].op, request[l].value, request[l].delta, before)
    <3>4. /\ before \in StoredType /\ did.after = new /\ Len(ran[l]) = 1 /\ did.refused = FALSE
          /\ did = [before |-> before, after |-> new, refused |-> FALSE]
      <4>1. did \in [before : StoredType, after : StoredType, refused : BOOLEAN]
        <5>1. ran[l] \in Seq([before : StoredType, after : StoredType, refused : BOOLEAN])
              /\ Len(ran[l]) = 1
          BY <1>1, <3>1 DEF TypeOK, Did
        <5> QED
          BY <5>1, FirstOfOne, Zenon
      <4>2. did.after = new /\ Len(ran[l]) = 1 /\ ~did.refused
        BY <3>1 DEF Did
      <4> HIDE DEF new, did
      <4> QED
        BY <4>1, <4>2
    <3>5. ran' = ran /\ request' = request
      BY <1>5
    <3> HIDE DEF did, new
    <3>6. CASE op # "stat"
      <4> DEFINE p == Answer(l, op, before, did.after)
      <4>1. taken[l] = <<>> /\ Hears(s, l, p, <<>>)
        BY <2>1, <2>7, <3>6 DEF Answered, did
      <4>2. IsPacket(p, l, op) /\ Returned(op, <<p>>) = Told(op, did)
        <5>1. new = Effect(request[l].op, request[l].value, request[l].delta, before)
          BY DEF new
        <5> HIDE DEF p
        <5>2. p = Answer(l, request[l].op, before, new)
          BY <3>4 DEF p
        <5>3. /\ IsPacket(Answer(l, request[l].op, before, new), l, request[l].op)
              /\ Returned(request[l].op, <<Answer(l, request[l].op, before, new)>>) =
                         Told(request[l].op, [before |-> before, after |-> new, refused |-> FALSE])
          BY <2>1, <3>1, <3>4, <3>6, <5>1, AnswerOf
        <5> QED
          BY <3>4, <5>2, <5>3
      <4> HIDE DEF p
      <4>3. CASE got[l] = p /\ got[l] # <<>> /\ Tail(fromServer[s]) = <<>>
        <5>1. Final(l, got[l])
          BY <3>6 DEF Final
        <5>2. /\ listening'[s] = {} /\ fromServer'[s] = <<>> /\ result'[l] = "resolved"
              /\ taken'[l] = Append(taken[l], got[l])
          BY <1>1, <1>5, <2>1, <3>1, <4>3, <5>1, HearsAll
        <5>3. taken'[l] = <<p>>
          BY <4>1, <4>3, <5>2
        <5>4. Own(l)'
          BY <3>4, <3>5, <4>2, <5>3 DEF Own, did, new
        <5> QED
          BY <2>5, <3>1, <3>3, <5>2, <5>4
      <4>4. CASE /\ got[l] = <<>> /\ StillHears(s, l, p, <<>>) /\ listening'[s] = {l}
                 /\ \A r \in Requests : result'[r] = result[r] /\ taken'[r] = taken[r]
        <5>1. Hears(s, l, Answer(l, request[l].op, ran[l][1].before, ran[l][1].after), <<>>)'
          <6>1. p = Answer(l, request'[l].op, ran'[l][1].before, ran'[l][1].after)
            BY <3>5 DEF p, did
          <6> QED
            BY <4>4, <6>1 DEF StillHears, Hears
        <5>2. taken'[l] = <<>> /\ request'[l].op # "stat"
          BY <3>1, <3>5, <3>6, <4>1, <4>4
        <5>3. Answered(s, l)'
          BY <2>7, <3>3, <5>1, <5>2 DEF Answered
        <5> QED
          BY <2>4, <3>2, <4>4, <5>3
      <4>5. \/ /\ got[l] = p /\ got[l] # <<>> /\ Tail(fromServer[s]) = <<>>
            \/ /\ got[l] = <<>> /\ StillHears(s, l, p, <<>>) /\ listening'[s] = {l}
               /\ \A r \in Requests : result'[r] = result[r] /\ taken'[r] = taken[r]
        BY <1>9, <2>3, <4>1, <4>2
      <4> QED
        BY <4>3, <4>4, <4>5
    <3>7. CASE op = "stat"
      <4> DEFINE a == Statistics(l, before)  b == EndOfAnswer(l)
      <4>1. /\ IsPacket(a, l, "stat") /\ ~EndOfStats(a)
            /\ IsPacket(b, l, "stat") /\ EndOfStats(b)
            /\ Returned("stat", <<a, b>>) = Told("stat", did)
        <5>1. /\ IsPacket(a, l, "stat") /\ ~EndOfStats(a)
              /\ IsPacket(b, l, "stat") /\ EndOfStats(b)
              /\ Returned("stat", <<a, b>>) =
                     Told("stat", [before |-> before, after |-> new, refused |-> FALSE])
          BY <2>1, <3>4, StatisticsReturned
        <5> QED
          BY <3>4, <5>1
      <4>2. b \in Seq(WordsType) /\ Len(b) > 0
        BY <4>1 DEF IsPacket, HeaderSize
      <4>3. \/ taken[l] = <<>> /\ Hears(s, l, a, b)
            \/ taken[l] = <<a>> /\ Hears(s, l, b, <<>>)
        BY <2>1, <2>7, <3>7 DEF Answered, did
      <4>4. request'[l].op = "stat" /\ ran'[l][1].before = before
        BY <3>5, <3>7 DEF did
      <4>5. CASE taken[l] = <<>> /\ Hears(s, l, a, b)
        <5> HIDE DEF a, b
        <5>1. CASE got[l] = a /\ got[l] # <<>> /\ Tail(fromServer[s]) = b
          <6>1. ~Final(l, got[l])
            BY <2>7, <3>7, <4>1, <5>1 DEF Final
          <6>2. /\ listening'[s] = {l} /\ fromServer'[s] = b /\ heard'[s][l] = <<>>
                /\ result'[l] = result[l] /\ taken'[l] = Append(taken[l], got[l])
            BY <1>1, <1>5, <2>1, <3>1, <5>1, <6>1, HearsAll
          <6>3. taken'[l] = <<a>>
            BY <4>5, <5>1, <6>2
          <6>4. <<>> \o b = b \o <<>> /\ Len(<<>>) < Len(b)
            BY <4>2
          <6>5. Hears(s, l, EndOfAnswer(l), <<>>)'
            BY <6>2, <6>4 DEF Hears, b
          <6>6. Answered(s, l)'
            BY <2>7, <3>3, <4>4, <6>3, <6>5 DEF Answered, a
          <6>7. \A r \in Requests : result'[r] = result[r]
            <7>1. \A r \in Requests \ {l} : result'[r] = result[r]
              BY <1>5, <2>1 DEF Heard, RequestsHear
            <7> QED
              BY <6>2, <7>1
          <6> QED
            BY <2>4, <3>2, <6>2, <6>6, <6>7
        <5>2. CASE /\ got[l] = <<>> /\ StillHears(s, l, a, b) /\ listening'[s] = {l}
                   /\ \A r \in Requests : result'[r] = result[r] /\ taken'[r] = taken[r]
          <6>1. Hears(s, l, Statistics(l, ran[l][1].before), EndOfAnswer(l))'
            <7>1. a = Statistics(l, ran'[l][1].before) /\ b = EndOfAnswer(l)
              BY <4>4 DEF a, b
            <7> QED
              BY <5>2, <7>1 DEF StillHears, Hears
          <6>2. taken'[l] = <<>>
            BY <3>1, <4>5, <5>2
          <6>3. Answered(s, l)'
            BY <2>7, <3>3, <4>4, <6>1, <6>2 DEF Answered
          <6> QED
            BY <2>4, <3>2, <5>2, <6>3
        <5>3. \/ /\ got[l] = a /\ got[l] # <<>> /\ Tail(fromServer[s]) = b
              \/ /\ got[l] = <<>> /\ StillHears(s, l, a, b) /\ listening'[s] = {l}
                 /\ \A r \in Requests : result'[r] = result[r] /\ taken'[r] = taken[r]
          BY <2>3, <4>1, <4>2, <4>5
        <5> QED
          BY <5>1, <5>2, <5>3
      <4>6. CASE taken[l] = <<a>> /\ Hears(s, l, b, <<>>)
        <5> HIDE DEF a, b
        <5>1. CASE got[l] = b /\ got[l] # <<>> /\ Tail(fromServer[s]) = <<>>
          <6>1. Final(l, got[l])
            BY <4>1, <5>1 DEF Final
          <6>2. /\ listening'[s] = {} /\ fromServer'[s] = <<>> /\ result'[l] = "resolved"
                /\ taken'[l] = Append(taken[l], got[l])
            BY <1>1, <1>5, <2>1, <3>1, <5>1, <6>1, HearsAll
          <6>3. taken'[l] = <<a, b>>
            BY <4>6, <5>1, <6>2, TwoPackets, Zenon
          <6>4. Own(l)'
            BY <3>4, <3>5, <3>7, <4>1, <6>3 DEF Own, did, new
          <6> QED
            BY <2>5, <3>1, <3>3, <6>2, <6>4
        <5>2. CASE /\ got[l] = <<>> /\ StillHears(s, l, b, <<>>) /\ listening'[s] = {l}
                   /\ \A r \in Requests : result'[r] = result[r] /\ taken'[r] = taken[r]
          <6>1. Hears(s, l, EndOfAnswer(l), <<>>)'
            BY <5>2 DEF b, StillHears, Hears
          <6>2. taken'[l] = <<Statistics(l, ran'[l][1].before)>>
            BY <3>1, <4>4, <4>6, <5>2 DEF a
          <6>3. Answered(s, l)'
            BY <2>7, <3>3, <4>4, <6>1, <6>2 DEF Answered
          <6> QED
            BY <2>4, <3>2, <5>2, <6>3
        <5>3. \/ /\ got[l] = b /\ got[l] # <<>> /\ Tail(fromServer[s]) = <<>>
              \/ /\ got[l] = <<>> /\ StillHears(s, l, b, <<>>) /\ listening'[s] = {l}
                 /\ \A r \in Requests : result'[r] = result[r] /\ taken'[r] = taken[r]
          BY <1>9, <2>3, <4>1, <4>6
        <5> QED
          BY <5>1, <5>2, <5>3
      <4> QED
        BY <4>3, <4>5, <4>6
    <3> QED
      BY <3>6, <3>7
  <2> QED
    BY <2>6, <2>7
<1> QED
  BY <1>10, <1>11

LEMMA SameAnswers ==
    ASSUME AnswerInv, UNCHANGED vars
    PROVE  Exchanges' /\ OwnResponse'
<1>1. /\ UNCHANGED <<toServer, request, via, socketState, connectPromise, listening>>
      /\ UNCHANGED <<heard, fromServer, result, taken, ran, session>>
  BY DEF vars, callVars, serverVars
<1>2. Exchanges /\ OwnResponse
  BY DEF AnswerInv
<1>3. OwnResponse'
  BY <1>1, <1>2 DEF OwnResponse
<1>4. ASSUME NEW s \in Sockets, Exchange(s) PROVE Exchange(s)'
  <2>1. Heads(s)' = Heads(s) /\ (HasQuit(s)' <=> HasQuit(s))
    BY <1>1 DEF Heads, HasQuit
  <2>2. \A l : Unanswered(s, l)' <=> Unanswered(s, l)
    BY <1>1, <2>1 DEF Unanswered
  <2>3. /\ \A l, p, rest : Hears(s, l, p, rest)' <=> Hears(s, l, p, rest)
        /\ \A l : Did(l)' <=> Did(l)
    BY <1>1 DEF Hears, Did
  <2>4. \A l : Answered(s, l)' <=> Answered(s, l)
    BY <1>1, <2>1, <2>3 DEF Answered
  <2> QED
    BY <1>1, <1>4, <2>1, <2>2, <2>4 DEF Exchange
<1>5. Exchanges'
  BY <1>1, <1>2, <1>4 DEF Exchanges
<1> QED
  BY <1>3, <1>5

LEMMA NextAnswers ==
    ASSUME AnswerInv, Awaits = "answer", [Next]_vars
    PROVE  AnswerInv'
<1>0. SessionInv'
  BY NextSession DEF AnswerInv
<1>1. ASSUME Disconnect PROVE Exchanges' /\ OwnResponse'
  BY <1>1, DisconnectAnswers
<1>2. ASSUME NEW s \in Sockets, Connect(s) \/ Reconnect(s) PROVE Exchanges' /\ OwnResponse'
  BY <1>2, CreateAnswers
<1>3. ASSUME NEW s \in Sockets, Ready(s) PROVE Exchanges' /\ OwnResponse'
  BY <1>0, <1>3, ReadyAnswers
<1>4. ASSUME NEW s \in Sockets, Deliver(s) PROVE Exchanges' /\ OwnResponse'
  BY <1>0, <1>4, DeliverAnswers
<1>5. ASSUME NEW s \in Sockets, Timeout(s) \/ Error(s) \/ PeerEnds(s) \/ HangUp(s)
      PROVE  Exchanges' /\ OwnResponse'
  <2>1. Ends(s) /\ connectPromise' \in {connectPromise, RejectConnect(s)}
    BY <1>5, EndsOf
  <2> QED
    BY <2>1, EndsAnswers
<1>6. ASSUME NEW s \in Sockets, Closed(s) PROVE Exchanges' /\ OwnResponse'
  BY <1>6, ClosedAnswers
<1>7. ASSUME NEW s \in Sockets, Execute(s) PROVE Exchanges' /\ OwnResponse'
  BY <1>0, <1>7, ExecuteAnswers
<1>8. ASSUME NEW r \in Requests, NEW q \in Asked, BinaryRequest(r, q) \/ BinaryQuit(r, q) \/ Command(r, q)
      PROVE  Exchanges' /\ OwnResponse'
  BY <1>0, <1>8, RequestAnswers
<1>9. ASSUME UNCHANGED vars PROVE Exchanges' /\ OwnResponse'
  BY <1>9, SameAnswers
<1>10. Exchanges' /\ OwnResponse'
  BY <1>1, <1>2, <1>3, <1>4, <1>5, <1>6, <1>7, <1>8, <1>9 DEF Next
<1> QED
  BY <1>0, <1>10 DEF AnswerInv

\* When callers await each answer before the next request, a request resolves
\* with what the server did with this very request, however the words of the
\* answer arrive and whatever connections ended before: no listener takes the
\* answer to another, part of one, or one of an earlier connection, and the
\* server did what the caller asked for (node.ts 457-757,
\* binary-protocol.ts 451-495).
THEOREM AnswersAreOwn ==
    ASSUME Awaits = "answer"
    PROVE  Spec => []OwnResponse
<1>1. Init => AnswerInv
  BY TypeInit, ConnectionsInit, SessionsInit, AnswerInit DEF AnswerInv, SessionInv
<1>2. AnswerInv /\ [Next]_vars => AnswerInv'
  BY NextAnswers
<1>3. AnswerInv => OwnResponse
  BY DEF AnswerInv
<1> QED
  BY <1>1, <1>2, <1>3, PTL DEF Spec

=============================================================================
