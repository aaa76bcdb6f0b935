---------------------------- MODULE StreamProofs ----------------------------
(***************************************************************************)
(* The buffer channel is a byte queue, for every stream, every way to cut  *)
(* it into chunks and every limit of recent_data: BufStream implements     *)
(* ByteQueue.                                                              *)
(***************************************************************************)
EXTENDS BufStream, SequenceTheorems, TLAPS

\* The bytes a + 1 to b of the stream.
Run(a, b) == [j \in 1..(b - a) |-> a + j]

Chunks == Seq(Seq(Nat))

\* The chunks are the bytes a + 1 to b, cut at pos; an empty chunk is at the end.
CutAt(s, a, b, pos) ==
    /\ pos \in [1..(Len(s) + 1) -> Nat]
    /\ pos[1] = a /\ pos[Len(s) + 1] = b
    /\ \A i, j \in 1..(Len(s) + 1) : i <= j => pos[i] <= pos[j]
    /\ \A i \in 1..Len(s) : /\ s[i] = Run(pos[i], pos[i + 1])
                            /\ pos[i] < pos[i + 1] \/ (pos[i] = b /\ pos[i + 1] = b)

Covers(s, a, b) == a \in Nat /\ b \in Nat /\ \E pos : CutAt(s, a, b, pos)

NoEof(s) == \A i \in 1..Len(s) : s[i] # Eof

-----------------------------------------------------------------------------
(* Runs of bytes *)

LEMMA RunFacts ==
    ASSUME NEW a \in Nat, NEW b \in Nat, a <= b
    PROVE  /\ Run(a, b) \in Seq(Nat) /\ Len(Run(a, b)) = b - a
           /\ DOMAIN Run(a, b) = 1..(b - a)
           /\ \A j \in 1..(b - a) : Run(a, b)[j] = a + j
PROOF
  <1>1. b - a \in Nat /\ \A j \in 1..(b - a) : a + j \in Nat
    OBVIOUS
  <1>2. QED
    BY <1>1 DEF Run

LEMMA RunEmpty ==
    ASSUME NEW a \in Nat, NEW b \in Nat, a <= b
    PROVE  Run(a, b) = <<>> <=> a = b
PROOF
  <1>1. CASE a = b
    <2>1. Run(a, b) \in Seq(Nat) /\ Len(Run(a, b)) = 0
      BY <1>1, RunFacts
    <2>2. Run(a, b) = <<>>
      BY <2>1, EmptySeq
    <2>3. QED
      BY <1>1, <2>2
  <1>2. CASE a # b
    <2>1. Len(Run(a, b)) # 0
      BY <1>2, RunFacts
    <2>2. Run(a, b) # <<>>
      BY <2>1, EmptySeq, Zenon
    <2>3. QED
      BY <1>2, <2>2
  <1>3. QED
    BY <1>1, <1>2

LEMMA RunConcat ==
    ASSUME NEW a \in Nat, NEW m \in Nat, NEW b \in Nat, a <= m, m <= b
    PROVE  Run(a, m) \o Run(m, b) = Run(a, b)
PROOF
  <1> DEFINE u == Run(a, m)
             v == Run(m, b)
             w == Run(a, b)
  <1>1. /\ u \in Seq(Nat) /\ Len(u) = m - a /\ \A j \in 1..(m - a) : u[j] = a + j
        /\ v \in Seq(Nat) /\ Len(v) = b - m /\ \A j \in 1..(b - m) : v[j] = m + j
        /\ w \in Seq(Nat) /\ Len(w) = b - a /\ \A j \in 1..(b - a) : w[j] = a + j
    <2>1. a <= b
      OBVIOUS
    <2>2. QED
      BY <2>1, RunFacts, Zenon
  <1> HIDE DEF u, v, w
  <1>2. /\ u \o v \in Seq(Nat) /\ Len(u \o v) = Len(u) + Len(v)
        /\ \A i \in 1..(Len(u) + Len(v)) : (u \o v)[i] = IF i <= Len(u) THEN u[i] ELSE v[i - Len(u)]
    BY <1>1, ConcatProperties, Zenon
  <1> DEFINE x == u \o v
  <1> HIDE DEF x
  <1>3. /\ Len(x) = b - a /\ x \in Seq(Nat)
        /\ \A i \in 1..(b - a) : x[i] = IF i <= m - a THEN u[i] ELSE v[i - (m - a)]
    <2>1. /\ x \in Seq(Nat) /\ Len(x) = Len(u) + Len(v)
          /\ \A i \in 1..(Len(u) + Len(v)) : x[i] = IF i <= Len(u) THEN u[i] ELSE v[i - Len(u)]
      BY <1>2 DEF x
    <2>2. Len(u) = m - a /\ Len(u) + Len(v) = b - a
      BY <1>1
    <2>3. QED
      BY <2>1, <2>2, Zenon
  <1>4. ASSUME NEW i \in 1..(b - a) PROVE x[i] = w[i]
    <2>1. x[i] = IF i <= m - a THEN u[i] ELSE v[i - (m - a)]
      BY <1>3
    <2>2. CASE i <= m - a
      <3>1. i \in 1..(m - a)
        BY <2>2
      <3>2. QED
        BY <1>1, <2>1, <2>2, <3>1
    <2>3. CASE ~(i <= m - a)
      <3>1. i - (m - a) \in 1..(b - m) /\ m + (i - (m - a)) = a + i
        BY <2>3
      <3>2. QED
        BY <1>1, <2>1, <2>3, <3>1
    <2>4. QED
      BY <2>2, <2>3
  <1>5. x = w
    BY <1>1, <1>3, <1>4, SeqEqual
  <1>6. QED
    BY <1>5 DEF x, u, v, w

LEMMA RunSplit ==
    ASSUME NEW a \in Nat, NEW b \in Nat, NEW k \in Nat, a + k <= b
    PROVE  /\ SubSeq(Run(a, b), 1, k) = Run(a, a + k)
           /\ SubSeq(Run(a, b), k + 1, Len(Run(a, b))) = Run(a + k, b)
PROOF
  <1> DEFINE r == Run(a, b)
             u == Run(a, a + k)
             v == Run(a + k, b)
  <1>1. /\ r \in Seq(Nat) /\ Len(r) = b - a /\ \A j \in 1..(b - a) : r[j] = a + j
        /\ u \in Seq(Nat) /\ Len(u) = k /\ \A j \in 1..k : u[j] = a + j
        /\ v \in Seq(Nat) /\ Len(v) = b - (a + k) /\ \A j \in 1..(b - (a + k)) : v[j] = a + k + j
    <2>1. a <= b /\ a + k \in Nat /\ a <= a + k /\ (a + k) - a = k
      OBVIOUS
    <2>2. r \in Seq(Nat) /\ Len(r) = b - a /\ \A j \in 1..(b - a) : r[j] = a + j
      BY <2>1, RunFacts, Zenon
    <2>3. /\ u \in Seq(Nat) /\ Len(u) = (a + k) - a
          /\ \A j \in 1..((a + k) - a) : u[j] = a + j
      BY <2>1, RunFacts, Zenon
    <2>4. /\ v \in Seq(Nat) /\ Len(v) = b - (a + k)
          /\ \A j \in 1..(b - (a + k)) : v[j] = (a + k) + j
      BY <2>1, RunFacts, Zenon
    <2> HIDE DEF r, u, v
    <2>5. QED
      BY <2>1, <2>2, <2>3, <2>4, Zenon
  <1> DEFINE n == b - a
             x == SubSeq(r, 1, k)
             y == SubSeq(r, k + 1, n)
  <1>2. (\A i \in 1..k : r[i] \in Nat) /\ k \in Int /\ 1 \in Int
    <2>1. \A i \in 1..n : r[i] \in Nat
      BY <1>1, SMTT(20)
    <2> HIDE DEF r
    <2>2. QED
      BY <2>1
  <1> HIDE DEF r, u, v
  <1>3. /\ x \in Seq(Nat) /\ Len(x) = IF 1 <= k THEN k - 1 + 1 ELSE 0
        /\ \A i \in 1..(k - 1 + 1) : x[i] = r[1 + i - 1]
    BY <1>2, SubSeqProperties
  <1>4. (\A i \in (k + 1)..n : r[i] \in Nat) /\ k + 1 \in Int /\ n \in Int
    BY <1>1, SMTT(20)
  <1>5. /\ y \in Seq(Nat) /\ Len(y) = IF k + 1 <= n THEN n - (k + 1) + 1 ELSE 0
        /\ \A i \in 1..(n - (k + 1) + 1) : y[i] = r[(k + 1) + i - 1]
    <2> HIDE DEF n
    <2>1. QED
      BY <1>4, SubSeqProperties
  <1> HIDE DEF x, y
  <1>6. x = u
    <2>1. Len(x) = k /\ \A i \in 1..k : x[i] = u[i]
      BY <1>1, <1>3, SMTT(20)
    <2>2. QED
      BY <1>1, <1>3, <2>1, SeqEqual
  <1>7. y = v
    <2>1. Len(y) = b - (a + k)
      BY <1>5
    <2>2. \A i \in 1..(b - (a + k)) : y[i] = v[i]
      BY <1>1, <1>5
    <2>3. QED
      BY <1>1, <1>5, <2>1, <2>2, SeqEqual
  <1>8. QED
    BY <1>1, <1>6, <1>7, Zenon DEF x, y, u, v, r

-----------------------------------------------------------------------------
(* Chunks of the stream *)

LEMMA CoversNone ==
    ASSUME NEW a \in Nat
    PROVE  /\ Covers(<<>>, a, a)
           /\ \A b : Covers(<<>>, a, b) => b = a
PROOF
  <1>1. Len(<<>>) = 0 /\ 1..0 = {} /\ 0 + 1 = 1
    BY EmptySeq
  <1>2. CutAt(<<>>, a, a, [i \in 1..1 |-> a])
    <2> DEFINE at == [i \in 1..1 |-> a]
    <2>1. at \in [1..1 -> Nat] /\ at[1] = a /\ \A i, j \in 1..1 : i <= j => at[i] <= at[j]
      OBVIOUS
    <2> HIDE DEF at
    <2>2. CutAt(<<>>, a, a, at)
      BY <1>1, <2>1, Zenon DEF CutAt
    <2>3. QED
      BY <2>2 DEF at
  <1>3. ASSUME NEW b, NEW pos, CutAt(<<>>, a, b, pos) PROVE b = a
    BY <1>1, <1>3 DEF CutAt
  <1>4. QED
    BY <1>2, <1>3 DEF Covers

LEMMA CoversOrder ==
    ASSUME NEW s \in Chunks, NEW a, NEW b, Covers(s, a, b)
    PROVE  a \in Nat /\ b \in Nat /\ a <= b
PROOF
  <1>1. PICK pos : CutAt(s, a, b, pos)
    BY DEF Covers
  <1>2. Len(s) \in Nat /\ 1 \in 1..(Len(s) + 1) /\ Len(s) + 1 \in 1..(Len(s) + 1) /\ 1 <= Len(s) + 1
    BY DEF Chunks
  <1>3. QED
    BY <1>1, <1>2, Zenon DEF CutAt, Covers

\* A chunk is added at the end: bytes where no EOF was, or an EOF.
LEMMA CoversAppend ==
    ASSUME NEW s \in Chunks, NEW a, NEW b, NEW c \in Nat, Covers(s, a, b), b <= c,
           b < c => NoEof(s)
    PROVE  Append(s, Run(b, c)) \in Chunks /\ Covers(Append(s, Run(b, c)), a, c)
PROOF
  <1> DEFINE r == Run(b, c)
             t == Append(s, r)
             n == Len(s)
  <1>0. a \in Nat /\ b \in Nat /\ a <= b
    BY CoversOrder
  <1>1. PICK pos : CutAt(s, a, b, pos)
    BY DEF Covers
  <1>2. r \in Seq(Nat)
    BY <1>0, RunFacts
  <1> HIDE DEF r
  <1>3. /\ t \in Chunks /\ Len(t) = n + 1 /\ n \in Nat
        /\ \A i \in 1..n : t[i] = s[i]
        /\ t[n + 1] = r
    BY <1>2 DEF Chunks
  <1> DEFINE at == [i \in 1..(n + 2) |-> IF i = n + 2 THEN c ELSE pos[i]]
  <1>4. /\ pos \in [1..(n + 1) -> Nat] /\ pos[1] = a /\ pos[n + 1] = b
        /\ \A i, j \in 1..(n + 1) : i <= j => pos[i] <= pos[j]
        /\ \A i \in 1..n : /\ s[i] = Run(pos[i], pos[i + 1])
                           /\ pos[i] < pos[i + 1] \/ (pos[i] = b /\ pos[i + 1] = b)
    BY <1>1, Zenon DEF CutAt
  <1> HIDE DEF n, t
  <1>5. \A i \in 1..(n + 1) : at[i] = pos[i] /\ pos[i] \in Nat
    BY <1>3, <1>4
  <1>6. at[n + 2] = c
    BY <1>3
  <1>a. \A i \in 1..(n + 2) : i \in 1..(n + 1) \/ i = n + 2
    BY <1>3
  <1>b. \A i \in 1..(n + 1) : pos[i] <= b
    <2>1. n + 1 \in 1..(n + 1) /\ \A i \in 1..(n + 1) : i <= n + 1
      BY <1>3
    <2>2. QED
      BY <1>4, <2>1, Zenon
  <1>c. ASSUME NEW i \in 1..(n + 1) PROVE pos[i] <= c
    <2>1. pos[i] \in Nat /\ pos[i] <= b
      BY <1>5, <1>b, Zenon
    <2>2. QED
      BY <1>0, <2>1
  <1>7. at \in [1..(n + 2) -> Nat]
    <2>1. \A i \in 1..(n + 2) : at[i] \in Nat
      BY <1>5, <1>6, <1>a, Zenon
    <2>2. QED
      BY <2>1, Zenon
  <1> HIDE DEF at
  <1>d. ASSUME NEW i \in 1..(n + 2), NEW j \in 1..(n + 2), i <= j PROVE at[i] <= at[j]
    <2>1. CASE j = n + 2
      <3>1. c <= c
        OBVIOUS
      <3>2. QED
        BY <1>5, <1>6, <1>a, <1>c, <2>1, <3>1, Zenon
    <2>2. CASE j # n + 2
      <3>1. i \in 1..(n + 1) /\ j \in 1..(n + 1)
        BY <1>3, <1>d, <2>2, SMTT(20)
      <3>2. QED
        BY <1>4, <1>5, <1>d, <3>1, Zenon
    <2>3. QED
      BY <2>1, <2>2, SMTT(20)
  <1>8. ASSUME NEW i \in 1..(n + 1)
        PROVE  /\ t[i] = Run(at[i], at[i + 1])
               /\ at[i] < at[i + 1] \/ (at[i] = c /\ at[i + 1] = c)
    <2>1. CASE i \in 1..n
      <3>1. /\ i + 1 \in 1..(n + 1) /\ at[i] = pos[i] /\ at[i + 1] = pos[i + 1] /\ t[i] = s[i]
            /\ pos[i] \in Nat /\ pos[i + 1] \in Nat
        BY <1>0, <1>3, <1>5, <2>1
      <3>2. t[i] = Run(at[i], at[i + 1])
        BY <1>4, <2>1, <3>1, Zenon
      <3>3. CASE pos[i] < pos[i + 1]
        BY <3>1, <3>2, <3>3, Zenon
      <3>4. CASE pos[i] = b /\ pos[i + 1] = b
        <4>1. s[i] = Run(b, b) /\ Run(b, b) = Eof
          BY <1>0, <1>4, <2>1, <3>4, RunEmpty DEF Eof
        <4>2. ~NoEof(s)
          BY <2>1, <4>1, Zenon DEF NoEof, n
        <4>3. b = c
          BY <1>0, <4>2
        <4>4. QED
          BY <3>1, <3>2, <3>4, <4>3, Zenon
      <3>5. QED
        BY <1>4, <2>1, <3>3, <3>4, Zenon
    <2>2. CASE i = n + 1
      <3>1. n + 1 \in 1..(n + 1) /\ (n + 1) + 1 = n + 2
        BY <1>3
      <3>2. at[i] = b /\ at[i + 1] = c /\ t[i] = r
        BY <1>3, <1>4, <1>5, <1>6, <2>2, <3>1, Zenon
      <3>3. b < c \/ b = c
        BY <1>0
      <3>4. QED
        BY <3>2, <3>3, Zenon DEF r
    <2>3. i \in 1..n \/ i = n + 1
      BY <1>3
    <2>4. QED
      BY <2>1, <2>2, <2>3, Zenon
  <1>9. at[1] = a
    <2>1. 1 \in 1..(n + 1)
      BY <1>3, SMTT(20)
    <2>2. QED
      BY <1>4, <1>5, <2>1, Zenon
  <1>10. CutAt(t, a, c, at)
    <2>1. Len(t) = n + 1 /\ Len(t) + 1 = n + 2
      BY <1>3, SMTT(20)
    <2>2. QED
      BY <1>6, <1>7, <1>8, <1>9, <1>d, <2>1, Zenon DEF CutAt
  <1>11. QED
    BY <1>0, <1>3, <1>10, Zenon DEF Covers, t, r

\* The first chunk is taken.
LEMMA CoversHead ==
    ASSUME NEW s \in Chunks, NEW a, NEW b, Covers(s, a, b), s # <<>>
    PROVE  \E m \in Nat : /\ a <= m /\ m <= b /\ Head(s) = Run(a, m)
                          /\ Tail(s) \in Chunks /\ Covers(Tail(s), m, b)
                          /\ a < m \/ (a = b /\ m = b)
                          /\ Head(s) \in Seq(Nat)
                          /\ \A i \in 1..Len(Tail(s)) : \E j \in 1..Len(s) : Tail(s)[i] = s[j]
PROOF
  <1> DEFINE t == Tail(s)
             n == Len(s)
  <1>0. a \in Nat /\ b \in Nat /\ a <= b
    BY CoversOrder
  <1>1. PICK pos : CutAt(s, a, b, pos)
    BY DEF Covers
  <1>2. /\ Head(s) \in Seq(Nat) /\ t \in Chunks /\ Len(t) = n - 1 /\ n \in Nat \ {0}
        /\ (\A i \in 1..Len(t) : t[i] = s[i + 1]) /\ Head(s) = s[1]
    <2>1. n \in Nat \ {0}
      BY EmptySeq, Zenon DEF Chunks
    <2>2. QED
      BY <2>1, HeadTailProperties DEF Chunks
  <1>3. /\ pos \in [1..(n + 1) -> Nat] /\ pos[1] = a /\ pos[n + 1] = b
        /\ \A i, j \in 1..(n + 1) : i <= j => pos[i] <= pos[j]
        /\ \A i \in 1..n : /\ s[i] = Run(pos[i], pos[i + 1])
                           /\ pos[i] < pos[i + 1] \/ (pos[i] = b /\ pos[i + 1] = b)
    BY <1>1, Zenon DEF CutAt
  <1> DEFINE m == pos[2]
             at == [i \in 1..n |-> pos[i + 1]]
  <1> HIDE DEF n, t
  <1>4. /\ 1 \in 1..n /\ 1 + 1 = 2 /\ 2 \in 1..(n + 1) /\ 1 \in 1..(n + 1) /\ n + 1 \in 1..(n + 1)
        /\ 1 <= 2 /\ 2 <= n + 1
    BY <1>2
  <1>5. m \in Nat /\ a <= m /\ m <= b
    BY <1>3, <1>4, Zenon
  <1>6. s[1] = Run(a, m) /\ (a < m \/ (a = b /\ m = b))
    BY <1>3, <1>4, Zenon
  <1>7. /\ at \in [1..n -> Nat] /\ \A i \in 1..n : at[i] = pos[i + 1] /\ i + 1 \in 1..(n + 1)
    BY <1>2, <1>3, SMTT(20)
  <1> HIDE DEF at, m
  <1>8. at[1] = m /\ at[n] = b
    <2>1. n \in 1..n
      BY <1>2
    <2>2. QED
      BY <1>3, <1>4, <1>7, <2>1, Zenon DEF m
  <1>9. \A i, j \in 1..n : i <= j => at[i] <= at[j]
    <2>1. \A i, j \in 1..n : i <= j => i + 1 <= j + 1
      OBVIOUS
    <2>2. QED
      BY <1>3, <1>7, <2>1, Zenon
  <1>10. ASSUME NEW i \in 1..(n - 1)
         PROVE  /\ t[i] = Run(at[i], at[i + 1])
                /\ at[i] < at[i + 1] \/ (at[i] = b /\ at[i + 1] = b)
    <2>1. i \in 1..n /\ i + 1 \in 1..n /\ i \in 1..Len(t)
      BY <1>2
    <2>2. t[i] = s[i + 1] /\ at[i] = pos[i + 1] /\ at[i + 1] = pos[(i + 1) + 1]
      BY <1>2, <1>7, <2>1, Zenon
    <2>3. QED
      BY <1>3, <2>1, <2>2, Zenon
  <1>11. CutAt(t, m, b, at)
    <2>1. Len(t) = n - 1 /\ Len(t) + 1 = n
      BY <1>2
    <2>2. QED
      BY <1>7, <1>8, <1>9, <1>10, <2>1, Zenon DEF CutAt
  <1>12. \A i \in 1..Len(t) : t[i] = s[i + 1] /\ i + 1 \in 1..Len(s)
    BY <1>2 DEF n
  <1>13. Covers(t, m, b)
    BY <1>0, <1>5, <1>11, Zenon DEF Covers
  <1>14. QED
    BY <1>2, <1>5, <1>6, <1>12, <1>13, Zenon DEF t

\* A chunk is put in front.
LEMMA CoversFront ==
    ASSUME NEW s \in Chunks, NEW a \in Nat, NEW m, NEW b, Covers(s, m, b), a <= m,
           a < m \/ (a = b /\ m = b)
    PROVE  /\ <<Run(a, m)>> \o s \in Chunks /\ Covers(<<Run(a, m)>> \o s, a, b)
           /\ Len(<<Run(a, m)>> \o s) = Len(s) + 1 /\ Len(s) \in Nat
           /\ (<<Run(a, m)>> \o s)[1] = Run(a, m)
           /\ \A i \in 1..Len(s) : (<<Run(a, m)>> \o s)[i + 1] = s[i]
PROOF
  <1> DEFINE r == Run(a, m)
             t == <<r>> \o s
             n == Len(s)
  <1>0. m \in Nat /\ b \in Nat /\ m <= b
    BY CoversOrder
  <1>1. PICK pos : CutAt(s, m, b, pos)
    BY DEF Covers
  <1>2. r \in Seq(Nat)
    BY <1>0, RunFacts
  <1> HIDE DEF r
  <1>3. /\ t \in Chunks /\ Len(t) = n + 1 /\ n \in Nat
        /\ \A i \in 1..n : t[i + 1] = s[i]
        /\ t[1] = r
    BY <1>2 DEF Chunks
  <1> DEFINE at == [i \in 1..(n + 2) |-> IF i = 1 THEN a ELSE pos[i - 1]]
  <1>4. /\ pos \in [1..(n + 1) -> Nat] /\ pos[1] = m /\ pos[n + 1] = b
        /\ \A i, j \in 1..(n + 1) : i <= j => pos[i] <= pos[j]
        /\ \A i \in 1..n : /\ s[i] = Run(pos[i], pos[i + 1])
                           /\ pos[i] < pos[i + 1] \/ (pos[i] = b /\ pos[i + 1] = b)
    BY <1>1, Zenon DEF CutAt
  <1> HIDE DEF n, t
  <1>5. /\ at[1] = a /\ at[n + 2] = b
        /\ \A i \in 1..(n + 1) : i + 1 \in 1..(n + 2) /\ at[i + 1] = pos[i] /\ pos[i] \in Nat
    <2>1. 1 \in 1..(n + 2) /\ n + 2 \in 1..(n + 2) /\ n + 2 # 1 /\ (n + 2) - 1 = n + 1
      BY <1>3
    <2>2. ASSUME NEW i \in 1..(n + 1) PROVE i + 1 \in 1..(n + 2) /\ i + 1 # 1 /\ (i + 1) - 1 = i
      BY <1>3
    <2>3. QED
      BY <1>4, <2>1, <2>2, Zenon
  <1>6. \A i \in 1..(n + 2) : i = 1 \/ (i - 1 \in 1..(n + 1) /\ (i - 1) + 1 = i)
    BY <1>3
  <1>7. at \in [1..(n + 2) -> Nat]
    <2>1. \A i \in 1..(n + 2) : at[i] \in Nat
      BY <1>5, <1>6, Zenon
    <2>2. QED
      BY <2>1, Zenon
  <1> HIDE DEF at
  <1>8. ASSUME NEW i \in 1..(n + 2), NEW j \in 1..(n + 2), i <= j PROVE at[i] <= at[j]
    <2>1. CASE i = 1
      <3>1. CASE j = 1
        BY <1>5, <2>1, <3>1, SMTT(20)
      <3>2. CASE j # 1
        <4>1. j - 1 \in 1..(n + 1) /\ (j - 1) + 1 = j /\ 1 \in 1..(n + 1) /\ 1 <= j - 1
          BY <1>3, <3>2, SMTT(20)
        <4>2. at[j] = pos[j - 1] /\ pos[j - 1] \in Nat /\ m <= pos[j - 1]
          BY <1>4, <1>5, <4>1, Zenon
        <4>3. QED
          BY <1>0, <1>5, <2>1, <4>2
      <3>3. QED
        BY <3>1, <3>2
    <2>2. CASE i # 1
      <3>1. /\ i - 1 \in 1..(n + 1) /\ (i - 1) + 1 = i
            /\ j - 1 \in 1..(n + 1) /\ (j - 1) + 1 = j /\ i - 1 <= j - 1
        BY <1>3, <1>8, <2>2
      <3>2. QED
        BY <1>4, <1>5, <3>1, Zenon
    <2>3. QED
      BY <2>1, <2>2
  <1>9. ASSUME NEW i \in 1..(n + 1)
        PROVE  /\ t[i] = Run(at[i], at[i + 1])
               /\ at[i] < at[i + 1] \/ (at[i] = b /\ at[i + 1] = b)
    <2>1. CASE i = 1
      <3>1. 1 \in 1..(n + 1) /\ 1 + 1 = 2
        BY <1>3
      <3>2. at[i] = a /\ at[i + 1] = m /\ t[i] = r
        BY <1>3, <1>4, <1>5, <2>1, <3>1, Zenon
      <3>3. QED
        BY <3>2, Zenon DEF r
    <2>2. CASE i # 1
      <3>1. /\ i - 1 \in 1..n /\ (i - 1) + 1 = i /\ i - 1 \in 1..(n + 1) /\ i \in 1..(n + 1)
        BY <1>3, <2>2
      <3>2. t[i] = s[i - 1] /\ at[i] = pos[i - 1] /\ at[i + 1] = pos[i]
        BY <1>3, <1>5, <3>1, Zenon
      <3>3. QED
        BY <1>4, <3>1, <3>2, Zenon
    <2>3. QED
      BY <2>1, <2>2
  <1>10. CutAt(t, a, b, at)
    <2>1. Len(t) = n + 1 /\ Len(t) + 1 = n + 2
      BY <1>3
    <2>2. QED
      BY <1>5, <1>7, <1>8, <1>9, <2>1, Zenon DEF CutAt
  <1>11. QED
    BY <1>0, <1>3, <1>10, Zenon DEF Covers, t, r, n

-----------------------------------------------------------------------------
(* The channel as a value *)

Channels == [q : Chunks, tx : BOOLEAN, rx : BOOLEAN, eof_sent : BOOLEAN, queued : Chunks,
             recent : Chunks, received : Nat, err : BOOLEAN, max : Nat]

\* The writer said that this is all.
Ended(c) == c.q = <<>> /\ ~c.tx /\ c.eof_sent

\* The bytes p + 1 to m are put back, m + 1 to n are queued; until the reader
\* rewinds, m were counted as received and, if they fit, are kept as recent.
HoldsAt(c, p, m, n, rs) ==
    /\ Covers(c.queued, p, m) /\ Covers(c.q, m, n) /\ NoEof(c.q)
    /\ ~NoEof(c.queued) => Ended(c)
    /\ rs = 0 =>
          /\ m = c.received
          /\ c.received <= c.max =>
                Covers(c.recent, 0, c.received) /\ (~NoEof(c.recent) => Ended(c))

Holds(c, p, n, rs) ==
    /\ c \in Channels
    /\ c.tx => ~c.eof_sent
    /\ c.err => c.queued = <<>> /\ ~c.tx /\ ~c.eof_sent
    /\ c.rx /\ ~c.err => \E m \in Nat : HoldsAt(c, p, m, n, rs)

\* A chunk that was read from p on: bytes up to m, or the EOF.
IsRead(c, chunk, p, m, n) ==
    /\ p \in Nat /\ m \in Nat /\ p <= m /\ m <= n /\ chunk = Run(p, m)
    /\ p < m \/ (p = m /\ m = n /\ Ended(c))

LEMMA NoEofEmpty == NoEof(<<>>)
PROOF
  <1>1. Len(<<>>) = 0 /\ 1..0 = {}
    BY EmptySeq
  <1>2. QED
    BY <1>1, Zenon DEF NoEof

LEMMA PopulateFacts ==
    ASSUME NEW c \in Channels, NEW chunk \in Seq(Nat)
    PROVE  LET d == MaybePopulateRecentData(c, chunk) IN
           /\ d \in Channels /\ d.q = c.q /\ d.tx = c.tx /\ d.rx = c.rx /\ d.eof_sent = c.eof_sent
           /\ d.queued = c.queued /\ d.received = c.received /\ d.err = c.err /\ d.max = c.max
           /\ c.max = 0 => d.recent = c.recent
           /\ c.max # 0 /\ c.received <= c.max => d.recent = Append(c.recent, chunk)
PROOF
  <1> DEFINE d == MaybePopulateRecentData(c, chunk)
  <1>0. c.received \in Nat /\ c.max \in Nat /\ c.recent \in Chunks
    BY DEF Channels
  <1>1. <<>> \in Chunks /\ Append(c.recent, chunk) \in Chunks
    BY <1>0 DEF Chunks
  <1>2. CASE c.max = 0
    BY <1>2 DEF MaybePopulateRecentData
  <1>3. CASE c.max # 0 /\ c.received > c.max
    <2>1. d = [c EXCEPT !.recent = <<>>]
      BY <1>3 DEF MaybePopulateRecentData
    <2> HIDE DEF d
    <2>2. QED
      BY <1>0, <1>1, <1>3, <2>1, SMTT(20) DEF Channels, d
  <1>4. CASE c.max # 0 /\ c.received <= c.max
    <2> DEFINE x == Append(c.recent, chunk)
    <2>1. ~(c.received > c.max)
      BY <1>0, <1>4
    <2>2. d = [c EXCEPT !.recent = x]
      BY <1>4, <2>1 DEF MaybePopulateRecentData
    <2>3. x \in Chunks
      BY <1>1
    <2> HIDE DEF d, x
    <2>4. /\ d \in Channels /\ d.q = c.q /\ d.tx = c.tx /\ d.rx = c.rx /\ d.eof_sent = c.eof_sent
          /\ d.queued = c.queued /\ d.received = c.received /\ d.err = c.err /\ d.max = c.max
          /\ d.recent = x
      BY <2>2, <2>3, SMTT(20) DEF Channels
    <2>5. QED
      BY <1>4, <2>4 DEF d, x
  <1>5. QED
    BY <1>0, <1>2, <1>3, <1>4

\* A chunk is put back in front of what is left.
LEMMA PushFrontFacts ==
    ASSUME NEW c, NEW p, NEW m, NEW n \in Nat, NEW rs, Holds(c, m, n, rs), c.rx, ~c.err,
           IsRead(c, Run(p, m), p, m, n)
    PROVE  LET d == PushFront(c, Run(p, m)) IN
           /\ Holds(d, p, n, rs) /\ d.rx /\ ~d.err /\ d.tx = c.tx /\ d.eof_sent = c.eof_sent
PROOF
  <1> DEFINE x == <<Run(p, m)>> \o c.queued
             d == PushFront(c, Run(p, m))
  <1>0. c \in Channels /\ c.queued \in Chunks /\ c.q \in Chunks
    BY DEF Holds, Channels
  <1>1. PICK k \in Nat : HoldsAt(c, m, k, n, rs)
    BY DEF Holds
  <1>2. Covers(c.queued, m, k) /\ Covers(c.q, k, n)
    BY <1>1 DEF HoldsAt
  <1>3. p \in Nat /\ m \in Nat /\ p <= m /\ m <= k /\ k <= n
    BY <1>0, <1>2, CoversOrder DEF IsRead
  <1>4. p < m \/ (p = k /\ m = k /\ p = m /\ Ended(c))
    BY <1>3, SMTT(20) DEF IsRead
  <1>5. /\ x \in Chunks /\ Covers(x, p, k)
        /\ Len(x) = Len(c.queued) + 1 /\ Len(c.queued) \in Nat
        /\ x[1] = Run(p, m) /\ \A i \in 1..Len(c.queued) : x[i + 1] = c.queued[i]
    BY <1>0, <1>2, <1>3, <1>4, CoversFront
  <1>6. d = [c EXCEPT !.queued = x]
    BY DEF PushFront
  <1> HIDE DEF x, d
  <1>7. /\ d \in Channels /\ d.queued = x /\ d.q = c.q /\ d.tx = c.tx /\ d.rx = c.rx
        /\ d.eof_sent = c.eof_sent /\ d.recent = c.recent /\ d.received = c.received
        /\ d.err = c.err /\ d.max = c.max
    BY <1>0, <1>5, <1>6, Zenon DEF Channels
  <1>8. Ended(d) <=> Ended(c)
    BY <1>7 DEF Ended
  <1>9. ~NoEof(x) => Ended(c)
    <2>1. SUFFICES ASSUME NEW i \in 1..Len(x), x[i] = Eof PROVE Ended(c)
      BY DEF NoEof
    <2>2. CASE i = 1
      <3>1. Run(p, m) = <<>>
        BY <1>5, <2>1, <2>2 DEF Eof
      <3>2. p = m
        BY <1>3, <3>1, RunEmpty
      <3>3. QED
        BY <1>3, <1>4, <3>2
    <2>3. CASE i # 1
      <3>1. i - 1 \in 1..Len(c.queued) /\ (i - 1) + 1 = i
        BY <1>5, <2>3
      <3>2. c.queued[i - 1] = Eof
        BY <1>5, <2>1, <3>1, SMTT(20)
      <3>3. QED
        BY <1>1, <3>1, <3>2, SMTT(20) DEF HoldsAt, NoEof
    <2>4. QED
      BY <2>2, <2>3
  <1>10. HoldsAt(d, p, k, n, rs)
    BY <1>1, <1>5, <1>7, <1>8, <1>9, Zenon DEF HoldsAt
  <1>11. (d.tx => ~d.eof_sent) /\ ~d.err /\ d.rx
    BY <1>7, Zenon DEF Holds
  <1>12. Holds(d, p, n, rs)
    BY <1>7, <1>10, <1>11, Zenon DEF Holds
  <1>13. QED
    BY <1>7, <1>11, <1>12, Zenon DEF d

\* What a read returns: the next bytes or the EOF; or, for good, an error, if the
\* writer went away.
Reads(c, got, p, n, rs) ==
    /\ got.ch.rx /\ got.ch.tx = c.tx /\ got.ch.eof_sent = c.eof_sent
    /\ ~got.ok => /\ got.ch.err /\ got.chunk = Eof /\ ~c.tx /\ ~c.eof_sent
                  /\ \A k : Holds(got.ch, k, n, rs)
    /\ got.ok => /\ ~got.ch.err /\ ~c.err
                 /\ \E m : IsRead(got.ch, got.chunk, p, m, n) /\ Holds(got.ch, m, n, rs)

\* A chunk that was put back is read again.
LEMMA RecvQueued ==
    ASSUME NEW c, NEW p \in Nat, NEW n \in Nat, NEW rs, Holds(c, p, n, rs), c.rx, ~c.err,
           c.queued # <<>>
    PROVE  Reads(c, Recv(c), p, n, rs)
PROOF
  <1> DEFINE got == Recv(c)
             x == Tail(c.queued)
             chunk == Head(c.queued)
             d == [c EXCEPT !.queued = x]
  <1>0. c \in Channels /\ c.queued \in Chunks /\ c.q \in Chunks
    BY DEF Holds, Channels
  <1>1. PICK k \in Nat : HoldsAt(c, p, k, n, rs)
    BY DEF Holds
  <1>2. /\ Covers(c.queued, p, k) /\ Covers(c.q, k, n) /\ (~NoEof(c.queued) => Ended(c))
    BY <1>1 DEF HoldsAt
  <1>3. got = [ch |-> d, ok |-> TRUE, chunk |-> chunk]
    BY DEF Recv
  <1>4. got.ch = d /\ got.ok = TRUE /\ got.chunk = chunk
    BY <1>3
  <1>5. PICK m \in Nat : /\ p <= m /\ m <= k /\ chunk = Run(p, m) /\ x \in Chunks /\ Covers(x, m, k)
                         /\ p < m \/ (p = k /\ m = k)
                         /\ \A i \in 1..Len(x) : \E j \in 1..Len(c.queued) : x[i] = c.queued[j]
    BY <1>0, <1>2, CoversHead, SMTT(20)
  <1>6. k <= n
    BY <1>0, <1>2, CoversOrder
  <1>7. 1 \in 1..Len(c.queued) /\ c.queued[1] = chunk
    BY <1>0 DEF Chunks
  <1> HIDE DEF x, chunk, got
  <1>8. /\ d \in Channels /\ d.queued = x /\ d.q = c.q /\ d.tx = c.tx /\ d.rx = c.rx
        /\ d.eof_sent = c.eof_sent /\ d.recent = c.recent /\ d.received = c.received
        /\ d.err = c.err /\ d.max = c.max
    BY <1>0, <1>5, Zenon DEF Channels
  <1> HIDE DEF d
  <1>9. Ended(d) <=> Ended(c)
    BY <1>8 DEF Ended
  <1>10. ~NoEof(x) => ~NoEof(c.queued)
    BY <1>5, Zenon DEF NoEof
  <1>11. HoldsAt(d, m, k, n, rs)
    BY <1>1, <1>5, <1>8, <1>9, <1>10, Zenon DEF HoldsAt
  <1>12. Holds(d, m, n, rs)
    BY <1>8, <1>11, Zenon DEF Holds
  <1>13. IsRead(d, chunk, p, m, n)
    <2>1. CASE p < m
      BY <1>5, <1>6, <2>1, SMTT(20) DEF IsRead
    <2>2. CASE p = k /\ m = k
      <3>1. chunk = Eof
        BY <1>5, <2>2, RunEmpty, SMTT(20) DEF Eof
      <3>2. Ended(c)
        BY <1>2, <1>7, <3>1, Zenon DEF NoEof
      <3>3. c.q = <<>>
        BY <3>2, SMTT(20) DEF Ended
      <3>4. n = k
        BY <1>2, <3>3, CoversNone
      <3>5. QED
        BY <1>5, <1>9, <2>2, <3>2, <3>4 DEF IsRead
    <2>3. QED
      BY <1>5, <2>1, <2>2
  <1>14. Reads(c, got, p, n, rs)
    BY <1>4, <1>8, <1>12, <1>13, Zenon DEF Reads
  <1>15. QED
    BY <1>14 DEF got

\* A chunk comes out of the channel.
LEMMA RecvChunk ==
    ASSUME NEW c, NEW p \in Nat, NEW n \in Nat, NEW rs, Holds(c, p, n, rs), c.rx, ~c.err,
           c.queued = <<>>, c.q # <<>>
    PROVE  Reads(c, Recv(c), p, n, rs)
PROOF
  <1> DEFINE got == Recv(c)
             x == Tail(c.q)
             chunk == Head(c.q)
             c1 == [c EXCEPT !.q = x]
             c2 == [c1 EXCEPT !.received = @ + Len(chunk)]
             d == MaybePopulateRecentData(c2, chunk)
  <1>0. /\ c \in Channels /\ c.queued \in Chunks /\ c.q \in Chunks /\ c.received \in Nat
        /\ c.recent \in Chunks /\ c.max \in Nat
    BY DEF Holds, Channels
  <1>1. PICK k \in Nat : HoldsAt(c, p, k, n, rs)
    BY DEF Holds
  <1>2. Covers(c.queued, p, k) /\ Covers(c.q, k, n) /\ NoEof(c.q)
    BY <1>1 DEF HoldsAt
  <1>3. k = p
    BY <1>2, CoversNone
  <1>4. Covers(c.q, p, n)
    BY <1>2, <1>3, SMTT(20)
  <1>5. PICK m \in Nat : /\ p <= m /\ m <= n /\ chunk = Run(p, m) /\ x \in Chunks /\ Covers(x, m, n)
                         /\ p < m \/ (p = n /\ m = n)
                         /\ chunk \in Seq(Nat)
                         /\ \A i \in 1..Len(x) : \E j \in 1..Len(c.q) : x[i] = c.q[j]
    BY <1>0, <1>4, CoversHead, Zenon
  <1>6. chunk # Eof
    <2>1. 1 \in 1..Len(c.q) /\ c.q[1] = chunk
      BY <1>0 DEF Chunks
    <2> HIDE DEF chunk
    <2>2. QED
      BY <1>2, <2>1, Zenon DEF NoEof
  <1>7. got = [ch |-> d, ok |-> TRUE, chunk |-> chunk]
    <2>1. got = RecvInner(c1, chunk)
      BY DEF Recv
    <2>2. QED
      BY <1>6, <2>1, Zenon DEF RecvInner
  <1>8. got.ch = d /\ got.ok = TRUE /\ got.chunk = chunk
    BY <1>7
  <1>9. p < m /\ Len(chunk) = m - p /\ NoEof(x)
    <2>1. p # m
      BY <1>5, <1>6, RunEmpty, SMTT(20) DEF Eof
    <2>2. Len(chunk) = m - p
      BY <1>5, RunFacts, Zenon
    <2>3. NoEof(x)
      BY <1>2, <1>5, Zenon DEF NoEof
    <2>4. QED
      BY <1>5, <2>1, <2>2, <2>3
  <1> HIDE DEF x, chunk, got, d
  <1>10. /\ c2 \in Channels /\ c2.queued = <<>> /\ c2.q = x /\ c2.tx = c.tx /\ c2.rx = c.rx
         /\ c2.eof_sent = c.eof_sent /\ c2.recent = c.recent /\ c2.received = c.received + (m - p)
         /\ c2.err = c.err /\ c2.max = c.max
    <2>1. c.received + (m - p) \in Nat
      BY <1>0, <1>5
    <2>2. QED
      BY <1>0, <1>5, <1>9, <2>1, Zenon DEF Channels
  <1> HIDE DEF c2
  <1>11. /\ d \in Channels /\ d.q = c2.q /\ d.tx = c2.tx /\ d.rx = c2.rx /\ d.eof_sent = c2.eof_sent
         /\ d.queued = c2.queued /\ d.received = c2.received /\ d.err = c2.err /\ d.max = c2.max
         /\ c2.max = 0 => d.recent = c2.recent
         /\ c2.max # 0 /\ c2.received <= c2.max => d.recent = Append(c2.recent, chunk)
    BY <1>5, <1>10, PopulateFacts, Zenon DEF d
  <1>12. rs = 0 => /\ m = d.received
                   /\ d.received <= d.max =>
                         Covers(d.recent, 0, d.received) /\ (~NoEof(d.recent) => Ended(d))
    <2>1. SUFFICES ASSUME rs = 0
                   PROVE  /\ m = d.received
                          /\ d.received <= d.max =>
                                Covers(d.recent, 0, d.received) /\ (~NoEof(d.recent) => Ended(d))
      OBVIOUS
    <2>2. c.received = p
      BY <1>1, <1>3, <2>1 DEF HoldsAt
    <2>3. d.received = m
      BY <1>5, <1>10, <1>11, <2>2, SMTT(20)
    <2>4. SUFFICES ASSUME m <= c.max
                   PROVE  Covers(d.recent, 0, m) /\ (~NoEof(d.recent) => Ended(d))
      BY <1>10, <1>11, <2>3, SMTT(20)
    <2>5. c.received <= c.max /\ c.max # 0
      BY <1>0, <1>9, <2>2, <2>4
    <2>6. Covers(c.recent, 0, p) /\ (~NoEof(c.recent) => Ended(c))
      BY <1>1, <2>1, <2>2, <2>5, SMTT(20) DEF HoldsAt
    <2>7. NoEof(c.recent)
      BY <2>6 DEF Ended
    <2>8. d.recent = Append(c.recent, Run(p, m))
      BY <1>5, <1>10, <1>11, <2>2, <2>3, <2>4, <2>5, SMTT(20)
    <2>9. Covers(d.recent, 0, m)
      BY <1>0, <1>5, <2>6, <2>7, <2>8, CoversAppend
    <2>10. NoEof(d.recent)
      <3> DEFINE s == c.recent
                 r == Run(p, m)
      <3>1. s \in Seq(Seq(Nat)) /\ r \in Seq(Nat) /\ r # Eof /\ \A i \in 1..Len(s) : s[i] # Eof
        BY <1>0, <1>5, <1>6, <2>7 DEF Chunks, NoEof
      <3> HIDE DEF s, r
      <3>2. \A i \in 1..Len(Append(s, r)) : Append(s, r)[i] # Eof
        BY <3>1, SMTT(20)
      <3>3. QED
        BY <2>8, <3>2, Zenon DEF NoEof, s, r
    <2>11. QED
      BY <2>9, <2>10
  <1>13. HoldsAt(d, m, m, n, rs)
    <2>1. Covers(d.queued, m, m) /\ NoEof(d.queued)
      BY <1>5, <1>10, <1>11, CoversNone, NoEofEmpty, SMTT(20)
    <2>2. Covers(d.q, m, n) /\ NoEof(d.q)
      BY <1>5, <1>9, <1>10, <1>11
    <2>3. QED
      BY <1>12, <2>1, <2>2, Zenon DEF HoldsAt
  <1>14. (d.tx => ~d.eof_sent) /\ ~d.err /\ d.rx
    BY <1>10, <1>11, Zenon DEF Holds
  <1>15. Holds(d, m, n, rs)
    BY <1>11, <1>13, <1>14, <1>5, Zenon DEF Holds
  <1>16. IsRead(d, chunk, p, m, n)
    BY <1>5, <1>9, SMTT(20) DEF IsRead
  <1>17. Reads(c, got, p, n, rs)
    BY <1>8, <1>10, <1>11, <1>14, <1>15, <1>16, Zenon DEF Reads
  <1>18. QED
    BY <1>17 DEF got

\* Nothing is left and the writer is gone: the EOF if it was sent, else the error.
LEMMA RecvEnd ==
    ASSUME NEW c, NEW p \in Nat, NEW n \in Nat, NEW rs, Holds(c, p, n, rs), c.rx, ~c.err,
           c.queued = <<>>, c.q = <<>>, ~c.tx
    PROVE  Reads(c, Recv(c), p, n, rs)
PROOF
  <1> DEFINE got == Recv(c)
  <1>0. /\ c \in Channels /\ c.received \in Nat /\ c.recent \in Chunks /\ c.max \in Nat
    BY DEF Holds, Channels
  <1>1. PICK k \in Nat : HoldsAt(c, p, k, n, rs)
    BY DEF Holds
  <1>2. k = p /\ n = p
    BY <1>1, CoversNone DEF HoldsAt
  <1>3. got = RecvInner(c, Eof)
    BY DEF Recv
  <1>4. CASE c.eof_sent
    <2> DEFINE d == MaybePopulateRecentData(c, Eof)
    <2>1. got = [ch |-> d, ok |-> TRUE, chunk |-> Eof]
      BY <1>3, <1>4, Zenon DEF RecvInner
    <2>2. got.ch = d /\ got.ok = TRUE /\ got.chunk = Eof
      BY <2>1
    <2>3. Eof \in Seq(Nat) /\ Eof = Run(p, p)
      BY RunEmpty, SMTT(20) DEF Eof
    <2> HIDE DEF d, got
    <2>4. /\ d \in Channels /\ d.q = c.q /\ d.tx = c.tx /\ d.rx = c.rx /\ d.eof_sent = c.eof_sent
          /\ d.queued = c.queued /\ d.received = c.received /\ d.err = c.err /\ d.max = c.max
          /\ c.max = 0 => d.recent = c.recent
          /\ c.max # 0 /\ c.received <= c.max => d.recent = Append(c.recent, Eof)
      BY <1>0, <2>3, PopulateFacts, Zenon DEF d
    <2>5. Ended(d)
      BY <1>4, <2>4 DEF Ended
    <2>6. ASSUME rs = 0, d.received <= d.max
          PROVE  Covers(d.recent, 0, d.received)
      <3>1. c.received = p /\ Covers(c.recent, 0, p)
        BY <1>1, <1>2, <2>4, <2>6 DEF HoldsAt
      <3>2. CASE c.max = 0
        BY <2>4, <3>1, <3>2
      <3>3. CASE c.max # 0
        <4>1. d.recent = Append(c.recent, Run(p, p))
          BY <2>3, <2>4, <2>6, <3>3
        <4>2. p <= p /\ ~(p < p)
          BY SMTT(20)
        <4>3. Covers(d.recent, 0, p)
          BY <1>0, <3>1, <4>1, <4>2, CoversAppend
        <4>4. QED
          BY <2>4, <3>1, <4>3, SMTT(20)
      <3>4. QED
        BY <3>2, <3>3
    <2>7. HoldsAt(d, p, p, n, rs)
      <3>1. Covers(d.queued, p, p) /\ Covers(d.q, p, n) /\ NoEof(d.q)
        BY <1>1, <1>2, <2>4 DEF HoldsAt
      <3>2. rs = 0 => p = d.received
        BY <1>1, <1>2, <2>4, SMTT(20) DEF HoldsAt
      <3>3. QED
        BY <2>5, <2>6, <3>1, <3>2, Zenon DEF HoldsAt
    <2>8. (d.tx => ~d.eof_sent) /\ ~d.err /\ d.rx
      BY <2>4, Zenon DEF Holds
    <2>9. Holds(d, p, n, rs)
      BY <2>4, <2>7, <2>8, Zenon DEF Holds
    <2>10. IsRead(d, Eof, p, p, n)
      BY <1>2, <2>3, <2>5 DEF IsRead
    <2>11. Reads(c, got, p, n, rs)
      BY <2>2, <2>4, <2>8, <2>9, <2>10, Zenon DEF Reads
    <2>12. QED
      BY <2>11 DEF got
  <1>5. CASE ~c.eof_sent
    <2> DEFINE d == [c EXCEPT !.queued = <<>>, !.recent = <<>>, !.received = 0, !.err = TRUE]
    <2>1. got = [ch |-> d, ok |-> FALSE, chunk |-> Eof]
      BY <1>3, <1>5, Zenon DEF RecvInner
    <2>2. got.ch = d /\ got.ok = FALSE /\ got.chunk = Eof
      BY <2>1
    <2>3. /\ d \in Channels /\ d.queued = <<>> /\ d.tx = c.tx /\ d.rx = c.rx
          /\ d.eof_sent = c.eof_sent /\ d.err = TRUE
      BY <1>0, Zenon DEF Channels, Chunks
    <2> HIDE DEF d, got
    <2>4. \A j : Holds(d, j, n, rs)
      BY <1>5, <2>3, Zenon DEF Holds
    <2>5. Reads(c, got, p, n, rs)
      BY <1>5, <2>2, <2>3, <2>4, Zenon DEF Reads
    <2>6. QED
      BY <2>5 DEF got
  <1>6. QED
    BY <1>4, <1>5

\* recv() once it does not wait.
LEMMA RecvFacts ==
    ASSUME NEW c, NEW p \in Nat, NEW n \in Nat, NEW rs, Holds(c, p, n, rs), c.rx, Ready(c)
    PROVE  Reads(c, Recv(c), p, n, rs)
PROOF
  <1>1. CASE c.err
    <2>1. Recv(c) = [ch |-> c, ok |-> FALSE, chunk |-> Eof]
      BY <1>1, Zenon DEF Recv
    <2>2. Recv(c).ch = c /\ Recv(c).ok = FALSE /\ Recv(c).chunk = Eof
      BY <2>1, SMTT(20)
    <2>3. ~c.tx /\ ~c.eof_sent /\ \A k : Holds(c, k, n, rs)
      BY <1>1, Zenon DEF Holds
    <2>4. QED
      BY <1>1, <2>2, <2>3, Zenon DEF Reads
  <1>2. CASE ~c.err
    BY <1>2, RecvQueued, RecvChunk, RecvEnd, SMTT(20) DEF Ready
  <1>3. QED
    BY <1>1, <1>2

\* What a peek returns: the same, and the next read starts where it started.
Peeks(c, got, p, n, rs) ==
    /\ got.ch.rx /\ got.ch.tx = c.tx /\ got.ch.eof_sent = c.eof_sent
    /\ Holds(got.ch, p, n, rs)
    /\ ~got.ok => got.ch.err /\ ~c.tx /\ ~c.eof_sent
    /\ got.ok => /\ ~got.ch.err /\ ~c.err
                 /\ \E m : IsRead(got.ch, got.chunk, p, m, n)

LEMMA PeekFacts ==
    ASSUME NEW c, NEW p \in Nat, NEW n \in Nat, NEW rs, Holds(c, p, n, rs), c.rx, Ready(c)
    PROVE  Peeks(c, Peek1(c), p, n, rs)
PROOF
  <1>1. CASE c.queued # <<>>
    <2>1. Peek1(c) = [ch |-> c, ok |-> TRUE, chunk |-> Head(c.queued)]
      BY <1>1, Zenon DEF Peek1
    <2>2. Peek1(c).ch = c /\ Peek1(c).ok = TRUE /\ Peek1(c).chunk = Head(c.queued)
      BY <2>1
    <2>3. ~c.err
      BY <1>1, Zenon DEF Holds
    <2>4. Recv(c).ok = TRUE /\ Recv(c).chunk = Head(c.queued)
          /\ Recv(c).ch = [c EXCEPT !.queued = Tail(@)]
      BY <1>1, <2>3, SMTT(20) DEF Recv
    <2>5. PICK m : IsRead(Recv(c).ch, Recv(c).chunk, p, m, n)
      BY <2>4, RecvFacts, Zenon DEF Reads
    <2>6. c \in Channels
      BY DEF Holds
    <2>7. Ended(Recv(c).ch) => Ended(c)
      BY <2>4, <2>6 DEF Ended, Channels
    <2>8. IsRead(c, Head(c.queued), p, m, n)
      BY <2>4, <2>5, <2>7, Zenon DEF IsRead
    <2>9. QED
      BY <2>2, <2>3, <2>8, Zenon DEF Peeks
  <1>2. CASE c.queued = <<>>
    <2> DEFINE got == Recv(c)
               top == [got EXCEPT !.ch = PushFront(@, got.chunk)]
    <2>1. Reads(c, got, p, n, rs)
      BY RecvFacts
    <2>2. Peek1(c) = IF got.ok THEN top ELSE got
      BY <1>2, Zenon DEF Peek1
    <2>3. CASE ~got.ok
      BY <2>1, <2>2, <2>3, Zenon DEF Reads, Peeks
    <2>4. CASE got.ok
      <3>1. PICK m : IsRead(got.ch, got.chunk, p, m, n) /\ Holds(got.ch, m, n, rs)
        BY <2>1, <2>4, Zenon DEF Reads
      <3>2. got.ch.rx /\ ~got.ch.err /\ ~c.err /\ got.ch.tx = c.tx /\ got.ch.eof_sent = c.eof_sent
        BY <2>1, <2>4, Zenon DEF Reads
      <3>3. got.chunk = Run(p, m)
        BY <3>1, Zenon DEF IsRead
      <3>4. top.ch = PushFront(got.ch, Run(p, m)) /\ top.ok = got.ok /\ top.chunk = got.chunk
        <4>1. got = [ch |-> got.ch, ok |-> got.ok, chunk |-> got.chunk]
          <5>1. CASE c.err
            BY <5>1 DEF Recv
          <5>2. CASE ~c.err
            BY <1>2, <5>2, Zenon DEF Recv, RecvInner
          <5>3. QED
            BY <5>1, <5>2
        <4> HIDE DEF got
        <4>2. QED
          BY <3>3, <4>1
      <3>5. /\ Holds(top.ch, p, n, rs) /\ top.ch.rx /\ ~top.ch.err
            /\ top.ch.tx = c.tx /\ top.ch.eof_sent = c.eof_sent
        BY <3>1, <3>2, <3>3, <3>4, PushFrontFacts
      <3>6. Ended(got.ch) => Ended(top.ch)
        <4>1. got.ch \in Channels
          BY <3>1 DEF Holds
        <4> HIDE DEF got
        <4>2. PushFront(got.ch, Run(p, m)).q = got.ch.q
          BY <4>1 DEF PushFront, Channels
        <4>3. QED
          BY <3>2, <3>4, <3>5, <4>2, Zenon DEF Ended
      <3>7. IsRead(top.ch, top.chunk, p, m, n)
        BY <3>1, <3>4, <3>6, Zenon DEF IsRead
      <3>8. Peek1(c) = top
        BY <2>2, <2>4, Zenon
      <3>9. top.ok
        BY <2>4, <3>4, Zenon
      <3> HIDE DEF top, got
      <3>10. QED
        BY <3>2, <3>5, <3>7, <3>8, <3>9, Zenon DEF Peeks
    <2>5. QED
      BY <2>3, <2>4
  <1>3. QED
    BY <1>1, <1>2

-----------------------------------------------------------------------------
(* The inductive invariant *)

\* The reader was given the bytes up to o, the consume() that is running holds
\* those up to p, and the channel the rest.
StreamAt(o, p) ==
    /\ o \in Nat /\ p \in Nat /\ o <= p
    /\ out = Run(0, o) /\ eat.bytes = Run(o, p)
    /\ Holds(ch, p, sent, resets)

\* A consume() that is running has a chunk, not more than it wants, and no error.
EatOK ==
    \/ eat = NotConsuming
    \/ /\ eat \in [want : Nat \ {0}, bytes : Seq(Nat), peeked : BOOLEAN]
       /\ 1 <= Len(eat.bytes) /\ Len(eat.bytes) <= eat.want /\ ~ch.err

\* Where the stream is, and that the reader was told of an error exactly if the
\* channel remembers one.
BufInv ==
    /\ sent \in Nat /\ resets \in Nat
    /\ said \in {"open", "eof", "err"} /\ (said = "err" <=> ch.err)
    /\ EatOK
    /\ \E o, p : StreamAt(o, p)

LEMMA RunZero == \A n \in Nat : Run(0, n) = [i \in 1 .. n |-> i] /\ Len(Run(0, n)) = n
PROOF
  <1>1. TAKE n \in Nat
  <1>2. n - 0 = n /\ \A i \in 1..n : 0 + i = i
    OBVIOUS
  <1>3. QED
    BY <1>2 DEF Run

LEMMA IdleFacts ==
    ASSUME NEW o, NEW p, StreamAt(o, p), eat = NotConsuming
    PROVE  o = p
PROOF
  <1>1. Run(o, p) = <<>>
    BY DEF StreamAt, NotConsuming
  <1>2. QED
    BY <1>1, RunEmpty DEF StreamAt

LEMMA BufInitInv == ASSUME BufInit PROVE BufInv
PROOF
  <1>1. PICK max \in MaxRecents : ch = MakeBufChannelPair(max)
    BY DEF BufInit
  <1>2. max \in Nat
    BY StreamAssumption, SMTT(20)
  <1>3. /\ ch \in Channels /\ ch.q = <<>> /\ ch.tx = TRUE /\ ch.rx = TRUE /\ ch.eof_sent = FALSE
        /\ ch.queued = <<>> /\ ch.recent = <<>> /\ ch.received = 0 /\ ch.err = FALSE
    BY <1>1, <1>2 DEF MakeBufChannelPair, Channels, Chunks
  <1>4. Covers(<<>>, 0, 0)
    BY CoversNone, SMTT(20)
  <1>5. HoldsAt(ch, 0, 0, 0, 0)
    BY <1>3, <1>4, NoEofEmpty, Zenon DEF HoldsAt
  <1>6. Holds(ch, 0, 0, 0)
    <2>1. 0 \in Nat
      OBVIOUS
    <2>2. QED
      BY <1>3, <1>5, <2>1, Zenon DEF Holds
  <1>7. Run(0, 0) = <<>>
    BY RunEmpty, SMTT(20)
  <1>8. StreamAt(0, 0)
    BY <1>6, <1>7 DEF StreamAt, BufInit, NotConsuming
  <1>9. sent \in Nat /\ resets \in Nat /\ said \in {"open", "eof", "err"} /\ said # "err" /\ EatOK
    BY DEF BufInit, EatOK
  <1>10. QED
    BY <1>3, <1>8, <1>9, Zenon DEF BufInv

-----------------------------------------------------------------------------
(* The steps of the byte queue *)

LEMMA WriteStep ==
    ASSUME ch.tx, ch'.tx = ch.tx, sent' > sent, UNCHANGED <<out, said>>
    PROVE  Queue!QueueNext
PROOF BY DEF Queue!QueueNext, Queue!Write

LEMMA CloseStep ==
    ASSUME ch.tx, ~ch'.tx, UNCHANGED <<sent, out, said>>
    PROVE  Queue!QueueNext
PROOF BY DEF Queue!QueueNext, Queue!CloseWriter

LEMMA TakeStep ==
    ASSUME NEW o \in Nat, NEW n \in Nat, sent \in Nat, o < n, n <= sent, out = Run(0, o), out' = Run(0, n),
           said # "err", said' = "open", sent' = sent,
           ch'.tx = ch.tx, ch'.eof_sent = ch.eof_sent
    PROVE  Queue!QueueNext
PROOF
  <1>1. Len(out) = o /\ n \in Len(out) + 1 .. sent /\ out' = [i \in 1 .. n |-> i]
    BY RunZero
  <1>2. Queue!Take
    BY <1>1 DEF Queue!Take
  <1>3. QED
    BY <1>2 DEF Queue!QueueNext

LEMMA ReadEofStep ==
    ASSUME sent \in Nat, out = Run(0, sent), said # "err", said' = "eof", ~ch.tx, ch.eof_sent,
           UNCHANGED <<sent, out>>, ch'.tx = ch.tx, ch'.eof_sent = ch.eof_sent
    PROVE  Queue!QueueNext
PROOF
  <1>1. Len(out) = sent
    BY RunZero
  <1>2. QED
    BY <1>1 DEF Queue!QueueNext, Queue!ReadEof

LEMMA ReadErrorStep ==
    ASSUME said' = "err", ~ch.tx, ~ch.eof_sent,
           UNCHANGED <<sent, out>>, ch'.tx = ch.tx, ch'.eof_sent = ch.eof_sent
    PROVE  Queue!QueueNext
PROOF BY DEF Queue!QueueNext, Queue!ReadError

LEMMA RewindStep ==
    ASSUME said # "err", said' = "open", out' = <<>>, sent' = sent,
           ch'.tx = ch.tx, ch'.eof_sent = ch.eof_sent
    PROVE  Queue!QueueNext
PROOF BY DEF Queue!QueueNext, Queue!Rewind

LEMMA QueueStutters ==
    ASSUME UNCHANGED <<sent, out, said>>, ch'.tx = ch.tx, ch'.eof_sent = ch.eof_sent
    PROVE  UNCHANGED Queue!queueVars
PROOF BY SMTT(20) DEF Queue!queueVars

-----------------------------------------------------------------------------
(* The writer's steps *)

\* What a step of the channel has to show.
StreamStep == BufInv' /\ (Queue!QueueNext \/ UNCHANGED Queue!queueVars)

LEMMA SendHolds ==
    ASSUME NEW c, NEW p \in Nat, NEW n \in Nat, NEW rs, NEW k \in Nat \ {0}, Holds(c, p, n, rs), c.tx
    PROVE  LET d == SendTo(c, Run(n, n + k)) IN
           /\ Holds(d, p, IF c.rx THEN n + k ELSE n, rs)
           /\ ~d.err /\ d.eof_sent = c.eof_sent /\ (d.tx <=> c.rx)
PROOF
  <1> DEFINE r == Run(n, n + k)
             d == SendTo(c, r)
  <1>0. /\ c \in Channels /\ c.q \in Chunks /\ c.tx = TRUE /\ c.eof_sent = FALSE /\ c.err = FALSE
        /\ c.rx \in BOOLEAN /\ n + k \in Nat /\ n <= n + k /\ n < n + k
    BY DEF Holds, Channels
  <1>1. r \in Seq(Nat) /\ r # <<>>
    <2>1. r \in Seq(Nat)
      BY <1>0, RunFacts, SMTT(20)
    <2>2. n # n + k
      BY <1>0
    <2>3. r # <<>>
      BY <1>0, <2>2, RunEmpty, SMTT(20)
    <2>4. QED
      BY <2>1, <2>3
  <1>2. CASE ~c.rx
    <2>1. d = [c EXCEPT !.tx = FALSE]
      BY <1>2 DEF SendTo
    <2>2. /\ d \in Channels /\ d.err = c.err /\ d.eof_sent = c.eof_sent /\ d.tx = FALSE /\ d.rx = c.rx
      BY <1>0, <2>1, Zenon DEF Channels
    <2> HIDE DEF d
    <2>3. Holds(d, p, n, rs)
      BY <1>0, <1>2, <2>2, Zenon DEF Holds
    <2>4. QED
      BY <1>0, <1>2, <2>2, <2>3 DEF d
  <1>3. CASE c.rx
    <2> DEFINE x == Append(c.q, r)
    <2>1. PICK m \in Nat : HoldsAt(c, p, m, n, rs)
      BY <1>0, <1>3 DEF Holds
    <2>2. Covers(c.q, m, n) /\ NoEof(c.q) /\ ~Ended(c)
      BY <1>0, <2>1 DEF HoldsAt, Ended
    <2>3. x \in Chunks /\ Covers(x, m, n + k)
      BY <1>0, <2>2, CoversAppend
    <2>4. NoEof(x)
      <3> DEFINE s == c.q
      <3>1. s \in Seq(Seq(Nat)) /\ r # Eof /\ \A i \in 1..Len(s) : s[i] # Eof
        BY <1>0, <1>1, <2>2, SMTT(20) DEF Chunks, NoEof, Eof
      <3> HIDE DEF s, r
      <3>2. \A i \in 1..Len(Append(s, r)) : Append(s, r)[i] # Eof
        BY <1>1, <3>1
      <3>3. QED
        BY <3>2, Zenon DEF NoEof, s
    <2> HIDE DEF x
    <2>5. d = [c EXCEPT !.q = x]
      BY <1>3, SMTT(20) DEF SendTo, x
    <2>6. /\ d \in Channels /\ d.q = x /\ d.tx = c.tx /\ d.rx = c.rx /\ d.eof_sent = c.eof_sent
          /\ d.queued = c.queued /\ d.recent = c.recent /\ d.received = c.received
          /\ d.err = c.err /\ d.max = c.max
      BY <1>0, <2>3, <2>5, Zenon DEF Channels
    <2> HIDE DEF d
    <2>7. HoldsAt(d, p, m, n + k, rs)
      BY <2>1, <2>2, <2>3, <2>4, <2>6, Zenon DEF HoldsAt
    <2>8. Holds(d, p, n + k, rs)
      BY <1>0, <2>6, <2>7, Zenon DEF Holds
    <2>9. QED
      BY <1>0, <1>3, <2>6, <2>8, Zenon DEF d
  <1>4. QED
    BY <1>2, <1>3

LEMMA SendSteps ==
    ASSUME BufInv, NEW n \in ChunkSizes, Send(n)
    PROVE  StreamStep
PROOF
  <1>0. n \in Nat \ {0} /\ sent \in Nat
    BY StreamAssumption DEF BufInv
  <1>1. PICK o, p : StreamAt(o, p)
    BY DEF BufInv
  <1>2. ch.tx /\ UNCHANGED <<eat, out, said, resets>>
    BY DEF Send, CanSend, ReaderKeeps
  <1>3. [i \in 1 .. n |-> sent + i] = Run(sent, sent + n)
    <2>1. (sent + n) - sent = n
      BY <1>0, SMTT(20)
    <2>2. QED
      BY <2>1 DEF Run
  <1>4. /\ Holds(ch', p, sent', resets) /\ ~ch'.err /\ ch'.eof_sent = ch.eof_sent /\ (ch'.tx <=> ch.rx)
    <2>1. ch' = SendTo(ch, Run(sent, sent + n)) /\ sent' = IF ch.rx THEN sent + n ELSE sent
      BY <1>3 DEF Send
    <2>2. Holds(ch, p, sent, resets) /\ p \in Nat
      BY <1>1 DEF StreamAt
    <2>3. LET d == SendTo(ch, Run(sent, sent + n)) IN
          /\ Holds(d, p, IF ch.rx THEN sent + n ELSE sent, resets)
          /\ ~d.err /\ d.eof_sent = ch.eof_sent /\ (d.tx <=> ch.rx)
      BY <1>0, <1>2, <2>2, SendHolds, Zenon
    <2>4. QED
      BY <2>1, <2>3, Zenon
  <1>5. ~ch.err
    BY <1>1, <1>2 DEF StreamAt, Holds
  <1>6. StreamAt(o, p)'
    BY <1>1, <1>2, <1>4 DEF StreamAt
  <1>7. sent' \in Nat
    BY <1>0 DEF Send
  <1>8. EatOK'
    BY <1>2, <1>4, SMTT(20) DEF BufInv, EatOK
  <1>9. BufInv'
    BY <1>2, <1>4, <1>5, <1>6, <1>7, <1>8, SMTT(20) DEF BufInv
  <1>10. CASE ch.rx
    <2>1. sent' > sent
      BY <1>0, <1>10, SMTT(20) DEF Send
    <2>2. ch'.tx = ch.tx
      <3>1. ch'.tx \in BOOLEAN /\ ch.tx \in BOOLEAN
        BY <1>1, <1>4 DEF StreamAt, Holds, Channels
      <3>2. QED
        BY <1>2, <1>4, <1>10, <3>1, Zenon
    <2>3. QED
      BY <1>2, <1>9, <2>1, <2>2, WriteStep DEF StreamStep
  <1>11. CASE ~ch.rx
    <2>1. sent' = sent
      BY <1>11 DEF Send
    <2>2. QED
      BY <1>2, <1>4, <1>9, <1>11, <2>1, CloseStep, SMTT(20) DEF StreamStep
  <1>12. QED
    BY <1>10, <1>11

LEMMA WriterEndsSteps == ASSUME BufInv, WriterEnds PROVE StreamStep
PROOF
  <1>1. PICK o, p : StreamAt(o, p)
    BY DEF BufInv
  <1>2. UNCHANGED <<sent, eat, out, said, resets>>
    BY SMTT(20) DEF WriterEnds, ReaderKeeps
  <1>3. /\ ch \in Channels /\ ch.tx = TRUE /\ ch.eof_sent = FALSE /\ ch.err = FALSE
    BY <1>1, SMTT(20) DEF WriterEnds, StreamAt, Holds, Channels
  <1>4. PICK e \in BOOLEAN : ch' = [ch EXCEPT !.eof_sent = e, !.tx = FALSE]
    <2>1. CASE ch' = SendEof(ch)
      BY <1>3, <2>1, Zenon DEF SendEof
    <2>2. CASE ch' = DropTx(ch)
      <3>1. ch' = [ch EXCEPT !.eof_sent = FALSE, !.tx = FALSE]
        BY <1>3, <2>2, Zenon DEF DropTx, Channels
      <3>2. QED
        BY <3>1, Zenon
    <2>3. QED
      BY <2>1, <2>2, Zenon DEF WriterEnds
  <1>5. /\ ch' \in Channels /\ ch'.q = ch.q /\ ch'.tx = FALSE /\ ch'.rx = ch.rx
        /\ ch'.queued = ch.queued /\ ch'.recent = ch.recent /\ ch'.received = ch.received
        /\ ch'.err = ch.err /\ ch'.max = ch.max
    BY <1>3, <1>4, Zenon DEF Channels
  <1>6. ~Ended(ch)
    BY <1>3 DEF Ended
  <1>7. \A m : HoldsAt(ch, p, m, sent, resets) => HoldsAt(ch', p, m, sent, resets)
    BY <1>5, <1>6, Zenon DEF HoldsAt
  <1>8. Holds(ch', p, sent, resets)
    <2>1. Holds(ch, p, sent, resets)
      BY <1>1 DEF StreamAt
    <2>2. QED
      BY <1>3, <1>5, <1>7, <2>1, Zenon DEF Holds
  <1>9. StreamAt(o, p)'
    BY <1>1, <1>2, <1>8, SMTT(20) DEF StreamAt
  <1>10. EatOK'
    BY <1>2, <1>5 DEF BufInv, EatOK
  <1>11. BufInv'
    BY <1>2, <1>5, <1>9, <1>10, SMTT(20) DEF BufInv
  <1>12. QED
    BY <1>2, <1>3, <1>5, <1>11, CloseStep, SMTT(20) DEF StreamStep

LEMMA ReaderLeavesSteps == ASSUME BufInv, ReaderLeaves PROVE StreamStep
PROOF
  <1>1. PICK o, p : StreamAt(o, p)
    BY DEF BufInv
  <1>2. UNCHANGED <<sent, eat, out, said, resets>>
    BY DEF ReaderLeaves, ReaderKeeps
  <1>3. ch \in Channels
    BY <1>1 DEF StreamAt, Holds
  <1>4. /\ ch' \in Channels /\ ch'.tx = ch.tx /\ ch'.rx = FALSE /\ ch'.eof_sent = ch.eof_sent
        /\ ch'.queued = ch.queued /\ ch'.err = ch.err
    <2>1. <<>> \in Chunks
      BY DEF Chunks
    <2>2. QED
      BY <1>3, <2>1, Zenon DEF ReaderLeaves, DropRx, Channels
  <1>5. Holds(ch', p, sent, resets)
    <2>1. Holds(ch, p, sent, resets)
      BY <1>1 DEF StreamAt
    <2>2. QED
      BY <1>4, <2>1, Zenon DEF Holds
  <1>6. StreamAt(o, p)'
    BY <1>1, <1>2, <1>5 DEF StreamAt
  <1>7. EatOK'
    BY <1>2, <1>4 DEF BufInv, EatOK
  <1>8. BufInv'
    BY <1>2, <1>4, <1>6, <1>7, SMTT(20) DEF BufInv
  <1>9. QED
    BY <1>2, <1>4, <1>8, QueueStutters DEF StreamStep

-----------------------------------------------------------------------------
(* The reader's steps *)

LEMMA ReadingFacts ==
    ASSUME BufInv, Reading
    PROVE  \E p \in Nat : /\ StreamAt(p, p) /\ Reads(ch, Recv(ch), p, sent, resets)
                          /\ Peeks(ch, Peek1(ch), p, sent, resets)
PROOF
  <1>1. PICK o, p : StreamAt(o, p)
    BY DEF BufInv
  <1>2. o = p
    BY <1>1, IdleFacts, SMTT(20) DEF Reading
  <1>3. p \in Nat /\ sent \in Nat /\ Holds(ch, p, sent, resets) /\ ch.rx /\ Ready(ch)
    BY <1>1 DEF StreamAt, Reading, BufInv
  <1>4. Reads(ch, Recv(ch), p, sent, resets) /\ Peeks(ch, Peek1(ch), p, sent, resets)
    BY <1>3, RecvFacts, PeekFacts, SMTT(20)
  <1>5. QED
    BY <1>1, <1>2, <1>3, <1>4

\* A read that fails, and a consume() that does.
LEMMA ErrorSteps ==
    ASSUME BufInv, NEW o, NEW p, StreamAt(o, p), Holds(ch', o, sent, resets), ch'.err, ~ch.tx, ~ch.eof_sent,
           ch'.tx = ch.tx, ch'.eof_sent = ch.eof_sent,
           said' = "err", eat' = NotConsuming, UNCHANGED <<sent, out, resets>>
    PROVE  StreamStep
PROOF
  <1>1. o \in Nat /\ o <= o /\ Run(o, o) = <<>>
    BY RunEmpty, SMTT(20) DEF StreamAt
  <1>2. StreamAt(o, o)'
    BY <1>1 DEF StreamAt, NotConsuming
  <1>3. EatOK'
    BY SMTT(20) DEF EatOK
  <1>4. BufInv'
    BY <1>2, <1>3 DEF BufInv
  <1>5. QED
    BY <1>4, ReadErrorStep DEF StreamStep

\* A read that hands the bytes up to n to the reader.
LEMMA TakeSteps ==
    ASSUME BufInv, NEW o, NEW p, StreamAt(o, p), NEW n \in Nat, o < n, n <= sent,
           Holds(ch', n, sent, resets), ~ch.err, ~ch'.err, ch'.tx = ch.tx, ch'.eof_sent = ch.eof_sent,
           said' = "open", eat' = NotConsuming, out' = out \o Run(o, n), UNCHANGED <<sent, resets>>
    PROVE  StreamStep
PROOF
  <1>1. o \in Nat /\ sent \in Nat /\ n <= n /\ 0 <= o /\ o <= n /\ Run(n, n) = <<>>
    BY RunEmpty DEF StreamAt, BufInv
  <1>2. out = Run(0, o)
    BY SMTT(20) DEF StreamAt
  <1>3. out' = Run(0, n)
    BY <1>1, <1>2, RunConcat, Zenon
  <1>4. StreamAt(n, n)'
    BY <1>1, <1>3 DEF StreamAt, NotConsuming
  <1>5. EatOK'
    BY DEF EatOK
  <1>6. said # "err"
    BY DEF BufInv
  <1>7. BufInv'
    BY <1>4, <1>5 DEF BufInv
  <1>8. QED
    BY <1>1, <1>2, <1>3, <1>6, <1>7, TakeStep, SMTT(20) DEF StreamStep

\* A read that says that the stream ended.
LEMMA EndSteps ==
    ASSUME BufInv, StreamAt(sent, sent), Holds(ch', sent, sent, resets), Ended(ch'), ~ch.err, ~ch'.err,
           ch'.tx = ch.tx, ch'.eof_sent = ch.eof_sent,
           said' = "eof", eat' = NotConsuming, UNCHANGED <<sent, out, resets>>
    PROVE  StreamStep
PROOF
  <1>1. sent \in Nat /\ Run(sent, sent) = <<>> /\ out = Run(0, sent) /\ said # "err"
    BY RunEmpty, SMTT(20) DEF StreamAt, BufInv
  <1>2. StreamAt(sent, sent)'
    BY <1>1 DEF StreamAt, NotConsuming
  <1>3. EatOK'
    BY SMTT(20) DEF EatOK
  <1>4. BufInv'
    BY <1>2, <1>3 DEF BufInv
  <1>5. ~ch.tx /\ ch.eof_sent
    BY SMTT(20) DEF Ended
  <1>6. QED
    BY <1>1, <1>4, <1>5, ReadEofStep, SMTT(20) DEF StreamStep

\* A consume() that goes on with the bytes up to n.
LEMMA EatSteps ==
    ASSUME BufInv, NEW o, NEW p, StreamAt(o, p), NEW n \in Nat, o < n,
           Holds(ch', n, sent, resets), ~ch.err, ~ch'.err, ch'.tx = ch.tx, ch'.eof_sent = ch.eof_sent,
           NEW want \in Nat \ {0}, NEW peeked \in BOOLEAN, n - o <= want,
           eat' = [want |-> want, bytes |-> Run(o, n), peeked |-> peeked],
           UNCHANGED <<sent, out, said, resets>>
    PROVE  StreamStep
PROOF
  <1>1. o \in Nat /\ o <= n
    BY SMTT(20) DEF StreamAt
  <1>2. Run(o, n) \in Seq(Nat) /\ Len(Run(o, n)) = n - o
    BY <1>1, RunFacts, Zenon
  <1>3. StreamAt(o, n)'
    BY <1>1 DEF StreamAt
  <1>4. EatOK'
    <2>1. 1 <= Len(Run(o, n)) /\ Len(Run(o, n)) <= want
      BY <1>1, <1>2
    <2> HIDE DEF Run
    <2>2. /\ eat' \in [want : Nat \ {0}, bytes : Seq(Nat), peeked : BOOLEAN]
          /\ eat'.bytes = Run(o, n) /\ eat'.want = want
      BY <1>2
    <2>3. QED
      BY <2>1, <2>2 DEF EatOK
  <1>5. BufInv'
    BY <1>3, <1>4, SMTT(20) DEF BufInv
  <1>6. QED
    BY <1>5, QueueStutters DEF StreamStep

LEMMA ReceiveChunkSteps == ASSUME BufInv, ReceiveChunk PROVE StreamStep
PROOF
  <1> DEFINE got == Recv(ch)
  <1>1. PICK p \in Nat : StreamAt(p, p) /\ Reads(ch, got, p, sent, resets)
    BY ReadingFacts, SMTT(20) DEF ReceiveChunk
  <1>2. /\ eat = NotConsuming /\ ch' = got.ch /\ out' = out \o got.chunk /\ Told(got)
        /\ UNCHANGED <<sent, eat, resets>>
    BY DEF ReceiveChunk, Reading
  <1> HIDE DEF got
  <1>3. ch'.tx = ch.tx /\ ch'.eof_sent = ch.eof_sent
    BY <1>1, <1>2, SMTT(20) DEF Reads
  <1>4. out \in Seq(Nat) /\ out \o <<>> = out
    <2>1. out = Run(0, p) /\ 0 \in Nat /\ 0 <= p
      BY <1>1, SMTT(20) DEF StreamAt
    <2>2. out \in Seq(Nat)
      BY <2>1, RunFacts
    <2>3. QED
      BY <2>2, ConcatEmptySeq
  <1>5. CASE ~got.ok
    <2>1. /\ got.ch.err /\ got.chunk = Eof /\ ~ch.tx /\ ~ch.eof_sent /\ Holds(got.ch, p, sent, resets)
      BY <1>1, <1>5, Zenon DEF Reads
    <2>2. said' = "err" /\ out' = out
      BY <1>2, <1>4, <1>5, <2>1, SMTT(20) DEF Told, Eof
    <2>3. QED
      BY <1>1, <1>2, <1>3, <2>1, <2>2, ErrorSteps, SMTT(20)
  <1>6. CASE got.ok
    <2>1. PICK m : IsRead(got.ch, got.chunk, p, m, sent) /\ Holds(got.ch, m, sent, resets)
      BY <1>1, <1>6, Zenon DEF Reads
    <2>2. ~got.ch.err /\ ~ch.err
      BY <1>1, <1>6, Zenon DEF Reads
    <2>3. m \in Nat /\ m <= sent /\ got.chunk = Run(p, m) /\ p <= m
      BY <2>1, SMTT(20) DEF IsRead
    <2>4. CASE p < m
      <3>1. got.chunk # Eof
        BY <2>3, <2>4, RunEmpty, SMTT(20) DEF Eof
      <3>2. said' = "open"
        BY <1>2, <1>6, <3>1, SMTT(20) DEF Told
      <3>3. QED
        BY <1>1, <1>2, <1>3, <2>1, <2>2, <2>3, <2>4, <3>2, TakeSteps, SMTT(20)
    <2>5. CASE ~(p < m)
      <3>1. p = m /\ m = sent /\ Ended(got.ch)
        BY <2>1, <2>5, SMTT(20) DEF IsRead
      <3>2. got.chunk = Eof
        BY <2>3, <3>1, RunEmpty DEF Eof
      <3>3. said' = "eof" /\ out' = out
        BY <1>2, <1>4, <1>6, <3>2, SMTT(20) DEF Told, Eof
      <3>4. QED
        BY <1>1, <1>2, <1>3, <2>1, <2>2, <3>1, <3>3, EndSteps, SMTT(20)
    <2>6. QED
      BY <2>4, <2>5
  <1>7. QED
    BY <1>5, <1>6

LEMMA PeekNextSteps == ASSUME BufInv, PeekNext PROVE StreamStep
PROOF
  <1> DEFINE got == Peek1(ch)
  <1>1. PICK p \in Nat : StreamAt(p, p) /\ Peeks(ch, got, p, sent, resets)
    BY ReadingFacts DEF PeekNext
  <1>2. /\ eat = NotConsuming /\ ch' = got.ch /\ said' = (IF got.ok THEN said ELSE "err")
        /\ UNCHANGED <<sent, eat, out, resets>>
    BY SMTT(20) DEF PeekNext, Reading
  <1> HIDE DEF got
  <1>3. ch'.tx = ch.tx /\ ch'.eof_sent = ch.eof_sent /\ Holds(ch', p, sent, resets)
    BY <1>1, <1>2 DEF Peeks
  <1>4. CASE ~got.ok
    <2>1. got.ch.err /\ ~ch.tx /\ ~ch.eof_sent
      BY <1>1, <1>4, Zenon DEF Peeks
    <2>2. QED
      BY <1>1, <1>2, <1>3, <1>4, <2>1, ErrorSteps, SMTT(20)
  <1>5. CASE got.ok
    <2>1. ~got.ch.err /\ ~ch.err
      BY <1>1, <1>5, Zenon DEF Peeks
    <2>2. said' = said
      BY <1>2, <1>5, SMTT(20)
    <2>3. StreamAt(p, p)'
      BY <1>1, <1>2, <1>3 DEF StreamAt
    <2>4. BufInv'
      BY <1>2, <2>1, <2>2, <2>3, SMTT(20) DEF BufInv, EatOK
    <2>5. QED
      BY <1>2, <1>3, <2>2, <2>4, QueueStutters, SMTT(20) DEF StreamStep
  <1>6. QED
    BY <1>4, <1>5

\* A consume() that has more than it wants puts the rest back.
LEMMA PutBackSteps ==
    ASSUME BufInv, NEW o, NEW p, StreamAt(o, p), NEW m \in Nat, m <= sent, NEW want \in Nat \ {0},
           o + want < m, NEW c, Holds(c, m, sent, resets), c.rx, ~c.err,
           c.tx = ch.tx, c.eof_sent = ch.eof_sent, ~ch.err,
           ch' = PushFront(c, SubSeq(Run(o, m), want + 1, Len(Run(o, m)))),
           out' = out \o SubSeq(Run(o, m), 1, want),
           said' = "open", eat' = NotConsuming, UNCHANGED <<sent, resets>>
    PROVE  StreamStep
PROOF
  <1>1. o \in Nat /\ want \in Nat /\ sent \in Nat
    BY DEF StreamAt, BufInv
  <1>2. /\ o + want \in Nat /\ o + want <= m /\ o < o + want /\ o + want <= sent
        /\ want \in Nat /\ o + want < m
    BY <1>1
  <1>3. /\ SubSeq(Run(o, m), 1, want) = Run(o, o + want)
        /\ SubSeq(Run(o, m), want + 1, Len(Run(o, m))) = Run(o + want, m)
    BY <1>1, <1>2, RunSplit, Zenon
  <1> DEFINE n == o + want
  <1>4. ch' = PushFront(c, Run(n, m)) /\ out' = out \o Run(o, n)
    BY <1>3, Zenon
  <1>5. n \in Nat /\ n <= m /\ n < m /\ o < n /\ n <= sent
    BY <1>2
  <1> HIDE DEF n
  <1>6. IsRead(c, Run(n, m), n, m, sent)
    BY <1>5 DEF IsRead
  <1>7. LET d == PushFront(c, Run(n, m)) IN
        Holds(d, n, sent, resets) /\ d.rx /\ ~d.err /\ d.tx = c.tx /\ d.eof_sent = c.eof_sent
    BY <1>1, <1>6, PushFrontFacts
  <1>8. Holds(ch', n, sent, resets) /\ ~ch'.err /\ ch'.tx = ch.tx /\ ch'.eof_sent = ch.eof_sent
    BY <1>4, <1>7, Zenon
  <1>9. QED
    BY <1>4, <1>5, <1>8, TakeSteps, Zenon

LEMMA ConsumeFirstSteps ==
    ASSUME BufInv, NEW size \in ChunkSizes \cup {Everything}, ConsumeFirst(size)
    PROVE  StreamStep
PROOF
  <1> DEFINE got == Recv(ch)
             long == Len(got.chunk) > size
  <1>0. size \in Nat \ {0}
    BY StreamAssumption, SMTT(20) DEF Everything
  <1>1. PICK p \in Nat : StreamAt(p, p) /\ Reads(ch, got, p, sent, resets)
    BY ReadingFacts DEF ConsumeFirst
  <1>2. eat = NotConsuming /\ UNCHANGED <<sent, resets>>
    BY DEF ConsumeFirst, Reading
  <1>3. long => /\ ch' = PushFront(got.ch, SubSeq(got.chunk, size + 1, Len(got.chunk)))
                /\ out' = out \o SubSeq(got.chunk, 1, size) /\ said' = "open" /\ eat' = eat
    BY Zenon DEF ConsumeFirst
  <1>4. ~long => /\ ch' = got.ch /\ out' = out
                 /\ got.chunk = Eof => Told(got) /\ eat' = eat
                 /\ got.chunk # Eof =>
                       eat' = [want |-> size, bytes |-> got.chunk, peeked |-> FALSE] /\ said' = said
    BY DEF ConsumeFirst
  <1> HIDE DEF got
  <1>5. got.ch.tx = ch.tx /\ got.ch.eof_sent = ch.eof_sent /\ got.ch.rx
    BY <1>1, SMTT(20) DEF Reads
  <1>6. CASE ~got.ok
    <2>1. /\ got.ch.err /\ got.chunk = Eof /\ ~ch.tx /\ ~ch.eof_sent /\ Holds(got.ch, p, sent, resets)
      BY <1>1, <1>6, Zenon DEF Reads
    <2>2. ~long
      BY <1>0, <2>1, SMTT(20) DEF Eof
    <2>3. ch' = got.ch /\ out' = out /\ Told(got) /\ eat' = eat
      BY <1>4, <2>1, <2>2, Zenon
    <2>4. said' = "err"
      BY <1>6, <2>3, SMTT(20) DEF Told
    <2>5. QED
      BY <1>1, <1>2, <1>5, <2>1, <2>3, <2>4, ErrorSteps
  <1>7. CASE got.ok
    <2>1. PICK m : IsRead(got.ch, got.chunk, p, m, sent) /\ Holds(got.ch, m, sent, resets)
      BY <1>1, <1>7, Zenon DEF Reads
    <2>2. ~got.ch.err /\ ~ch.err
      BY <1>1, <1>7, Zenon DEF Reads
    <2>3. m \in Nat /\ m <= sent /\ got.chunk = Run(p, m) /\ p <= m
      BY <2>1, SMTT(20) DEF IsRead
    <2>4. Len(got.chunk) = m - p
      BY <2>3, RunFacts, SMTT(20)
    <2>5. CASE long
      <3>1. p + size < m
        BY <1>0, <2>3, <2>4, <2>5
      <3>2. /\ ch' = PushFront(got.ch, SubSeq(Run(p, m), size + 1, Len(Run(p, m))))
            /\ out' = out \o SubSeq(Run(p, m), 1, size) /\ said' = "open" /\ eat' = NotConsuming
        BY <1>2, <1>3, <2>3, <2>5, Zenon
      <3>3. QED
        BY <1>0, <1>1, <1>2, <1>5, <2>1, <2>2, <2>3, <3>1, <3>2, PutBackSteps, Zenon
    <2>6. CASE ~long /\ p < m
      <3>1. got.chunk # Eof
        BY <2>3, <2>6, RunEmpty, SMTT(20) DEF Eof
      <3>2. /\ ch' = got.ch /\ out' = out /\ said' = said
            /\ eat' = [want |-> size, bytes |-> Run(p, m), peeked |-> FALSE]
        BY <1>4, <2>3, <2>6, <3>1, SMTT(20)
      <3>3. m - p <= size
        BY <1>0, <2>3, <2>4, <2>6
      <3>4. QED
        BY <1>0, <1>1, <1>2, <1>5, <2>1, <2>2, <2>3, <2>6, <3>2, <3>3, EatSteps, Zenon
    <2>7. CASE ~long /\ ~(p < m)
      <3>1. p = m /\ m = sent /\ Ended(got.ch)
        BY <2>1, <2>7, SMTT(20) DEF IsRead
      <3>2. got.chunk = Eof
        BY <2>3, <3>1, RunEmpty, SMTT(20) DEF Eof
      <3>3. ch' = got.ch /\ out' = out /\ Told(got) /\ eat' = NotConsuming
        BY <1>2, <1>4, <2>7, <3>2, SMTT(20)
      <3>4. said' = "eof"
        BY <1>7, <3>2, <3>3 DEF Told
      <3>5. QED
        BY <1>1, <1>2, <1>5, <2>1, <2>2, <3>1, <3>3, <3>4, EndSteps, SMTT(20)
    <2>8. QED
      BY <2>5, <2>6, <2>7
  <1>8. QED
    BY <1>6, <1>7

\* A consume() that is running.
LEMMA EatingFacts ==
    ASSUME BufInv, NEW o, NEW p, StreamAt(o, p), eat # NotConsuming
    PROVE  /\ eat.want \in Nat \ {0} /\ eat.peeked \in BOOLEAN /\ o < p /\ p - o <= eat.want
           /\ Len(eat.bytes) = p - o /\ ~ch.err
           /\ eat = [want |-> eat.want, bytes |-> Run(o, p), peeked |-> eat.peeked]
PROOF
  <1>1. /\ eat \in [want : Nat \ {0}, bytes : Seq(Nat), peeked : BOOLEAN]
        /\ 1 <= Len(eat.bytes) /\ Len(eat.bytes) <= eat.want /\ ~ch.err
    BY DEF BufInv, EatOK
  <1>2. o \in Nat /\ p \in Nat /\ o <= p /\ eat.bytes = Run(o, p)
    BY DEF StreamAt
  <1>3. Len(eat.bytes) = p - o
    BY <1>2, RunFacts, SMTT(20)
  <1>4. eat.want \in Nat \ {0} /\ eat.peeked \in BOOLEAN
    BY <1>1
  <1>5. o < p /\ p - o <= eat.want
    BY <1>1, <1>2, <1>3, <1>4, SMTT(20)
  <1>6. eat = [want |-> eat.want, bytes |-> eat.bytes, peeked |-> eat.peeked]
    BY <1>1
  <1>7. QED
    BY <1>1, <1>2, <1>3, <1>4, <1>5, <1>6, SMTT(20)

LEMMA ConsumePeekSteps == ASSUME BufInv, ConsumePeek PROVE StreamStep
PROOF
  <1> DEFINE got == Peek1(ch)
  <1>0. eat # NotConsuming
    BY DEF ConsumePeek, NotConsuming
  <1>1. PICK o, p : StreamAt(o, p)
    BY DEF BufInv
  <1>2. /\ eat.want \in Nat \ {0} /\ o < p /\ p - o <= eat.want /\ ~ch.err
        /\ eat = [want |-> eat.want, bytes |-> Run(o, p), peeked |-> eat.peeked]
    BY <1>0, <1>1, EatingFacts, SMTT(20)
  <1>3. o \in Nat /\ p \in Nat /\ eat.bytes = Run(o, p) /\ Holds(ch, p, sent, resets)
        /\ sent \in Nat /\ ch.rx /\ Ready(ch)
    BY <1>1 DEF StreamAt, BufInv, ConsumePeek
  <1>4. Peeks(ch, got, p, sent, resets)
    BY <1>3, PeekFacts, SMTT(20)
  <1>5. /\ ch' = got.ch /\ UNCHANGED <<sent, resets>>
        /\ ~got.ok => ConsumeFails
        /\ got.ok => \/ ConsumeReturns(eat.bytes)
                     \/ eat' = [eat EXCEPT !.peeked = TRUE] /\ UNCHANGED <<out, said>>
    BY DEF ConsumePeek
  <1> HIDE DEF got
  <1>6. got.ch.tx = ch.tx /\ got.ch.eof_sent = ch.eof_sent /\ Holds(got.ch, p, sent, resets)
    BY <1>4, SMTT(20) DEF Peeks
  <1>7. CASE ~got.ok
    <2>1. got.ch.err /\ ~ch.tx /\ ~ch.eof_sent
      BY <1>4, <1>7, Zenon DEF Peeks
    <2>2. Holds(got.ch, o, sent, resets)
      BY <1>6, <2>1, Zenon DEF Holds
    <2>3. said' = "err" /\ eat' = NotConsuming /\ out' = out
      BY <1>5, <1>7, SMTT(20) DEF ConsumeFails
    <2>4. QED
      BY <1>1, <1>5, <1>6, <2>1, <2>2, <2>3, ErrorSteps, SMTT(20)
  <1>8. CASE got.ok
    <2>1. ~got.ch.err
      BY <1>4, <1>8, Zenon DEF Peeks
    <2>2. p <= sent
      <3>1. PICK m : IsRead(got.ch, got.chunk, p, m, sent)
        BY <1>4, <1>8, Zenon DEF Peeks
      <3>2. QED
        BY <1>3, <3>1 DEF IsRead
    <2>3. CASE ConsumeReturns(eat.bytes)
      BY <1>1, <1>2, <1>3, <1>5, <1>6, <2>1, <2>2, <2>3, TakeSteps, Zenon DEF ConsumeReturns
    <2>4. CASE eat' = [eat EXCEPT !.peeked = TRUE] /\ UNCHANGED <<out, said>>
      <3>1. eat' = [want |-> eat.want, bytes |-> Run(o, p), peeked |-> TRUE]
        <4> DEFINE w == eat.want
                   b == Run(o, p)
                   k == eat.peeked
        <4>1. eat = [want |-> w, bytes |-> b, peeked |-> k]
          BY <1>2
        <4> HIDE DEF w, b, k
        <4>2. eat' = [want |-> w, bytes |-> b, peeked |-> TRUE]
          BY <2>4, <4>1, Zenon
        <4>3. QED
          BY <4>2 DEF w, b
      <3>2. QED
        BY <1>1, <1>2, <1>3, <1>5, <1>6, <2>1, <2>4, <3>1, EatSteps, Zenon
    <2>5. QED
      BY <1>5, <1>8, <2>3, <2>4, SMTT(20)
  <1>9. QED
    BY <1>7, <1>8, SMTT(20)

LEMMA ConsumeMoreSteps == ASSUME BufInv, ConsumeMore PROVE StreamStep
PROOF
  <1> DEFINE got == Recv(ch)
             all == eat.bytes \o got.chunk
             long == Len(all) > eat.want
  <1>0. eat # NotConsuming
    BY DEF ConsumeMore, NotConsuming
  <1>1. PICK o, p : StreamAt(o, p)
    BY DEF BufInv
  <1>2. /\ eat.want \in Nat \ {0} /\ eat.peeked \in BOOLEAN /\ o < p /\ p - o <= eat.want /\ ~ch.err
        /\ Len(eat.bytes) = p - o
        /\ eat = [want |-> eat.want, bytes |-> Run(o, p), peeked |-> eat.peeked]
    BY <1>0, <1>1, EatingFacts
  <1>3. o \in Nat /\ p \in Nat /\ eat.bytes = Run(o, p) /\ Holds(ch, p, sent, resets)
        /\ sent \in Nat /\ ch.rx /\ Ready(ch)
    BY <1>1 DEF StreamAt, BufInv, ConsumeMore
  <1>4. Reads(ch, got, p, sent, resets)
    BY <1>3, RecvFacts
  <1>5. UNCHANGED <<sent, resets>>
    BY DEF ConsumeMore
  <1>6. long => /\ ch' = PushFront(got.ch, SubSeq(all, eat.want + 1, Len(all)))
                /\ ConsumeReturns(SubSeq(all, 1, eat.want))
    BY SMTT(20) DEF ConsumeMore
  <1>7. ~long => /\ ch' = got.ch
                 /\ ~got.ok => ConsumeFails
                 /\ got.ok => \/ ConsumeReturns(all)
                              \/ /\ got.chunk # Eof
                                 /\ eat' = [eat EXCEPT !.bytes = all] /\ UNCHANGED <<out, said>>
    BY Zenon DEF ConsumeMore
  <1> HIDE DEF got, all
  <1>8. got.ch.tx = ch.tx /\ got.ch.eof_sent = ch.eof_sent /\ got.ch.rx
    BY <1>4, SMTT(20) DEF Reads
  <1>9. CASE ~got.ok
    <2>1. /\ got.ch.err /\ got.chunk = Eof /\ ~ch.tx /\ ~ch.eof_sent /\ Holds(got.ch, o, sent, resets)
      BY <1>4, <1>9, Zenon DEF Reads
    <2>2. ~long
      <3>1. eat.bytes \in Seq(Nat)
        BY <1>2, <1>3, RunFacts, SMTT(20)
      <3>2. all = eat.bytes
        BY <2>1, <3>1, ConcatEmptySeq, SMTT(20) DEF all, Eof
      <3>3. QED
        BY <1>2, <1>3, <3>2, SMTT(20)
    <2>3. ch' = got.ch /\ said' = "err" /\ eat' = NotConsuming /\ out' = out
      BY <1>7, <1>9, <2>2 DEF ConsumeFails
    <2>4. QED
      BY <1>1, <1>5, <1>8, <2>1, <2>3, ErrorSteps, SMTT(20)
  <1>10. CASE got.ok
    <2>1. PICK m : IsRead(got.ch, got.chunk, p, m, sent) /\ Holds(got.ch, m, sent, resets)
      BY <1>4, <1>10, Zenon DEF Reads
    <2>2. ~got.ch.err
      BY <1>4, <1>10, Zenon DEF Reads
    <2>3. m \in Nat /\ m <= sent /\ got.chunk = Run(p, m) /\ p <= m
      BY <2>1 DEF IsRead
    <2>4. o <= p /\ o < m /\ o <= m
      BY <1>2, <1>3, <2>3, SMTT(20)
    <2>5. all = Run(o, m)
      <3>1. Run(o, p) \o Run(p, m) = Run(o, m)
        BY <1>3, <2>3, <2>4, RunConcat, Zenon
      <3>2. QED
        BY <1>3, <2>3, <3>1, Zenon DEF all
    <2>6. Len(all) = m - o
      BY <1>3, <2>3, <2>4, <2>5, RunFacts, Zenon
    <2>7. CASE long
      <3>1. o + eat.want < m
        BY <1>2, <1>3, <2>3, <2>6, <2>7, SMTT(20)
      <3>2. /\ ch' = PushFront(got.ch, SubSeq(Run(o, m), eat.want + 1, Len(Run(o, m))))
            /\ out' = out \o SubSeq(Run(o, m), 1, eat.want) /\ said' = "open" /\ eat' = NotConsuming
        BY <1>6, <2>5, <2>7, Zenon DEF ConsumeReturns
      <3>3. QED
        BY <1>1, <1>2, <1>5, <1>8, <2>1, <2>2, <2>3, <3>1, <3>2, PutBackSteps, Zenon
    <2>8. CASE ~long
      <3>1. ch' = got.ch
        BY <1>7, <2>8, SMTT(20)
      <3>2. CASE ConsumeReturns(all)
        <4>1. out' = out \o Run(o, m) /\ said' = "open" /\ eat' = NotConsuming
          BY <2>5, <3>2 DEF ConsumeReturns
        <4>2. QED
          BY <1>1, <1>2, <1>5, <1>8, <2>1, <2>2, <2>3, <2>4, <3>1, <4>1, TakeSteps, Zenon
      <3>3. CASE eat' = [eat EXCEPT !.bytes = all] /\ UNCHANGED <<out, said>>
        <4>1. eat' = [want |-> eat.want, bytes |-> all, peeked |-> eat.peeked]
          <5> DEFINE w == eat.want
                     b == Run(o, p)
                     k == eat.peeked
          <5>1. eat = [want |-> w, bytes |-> b, peeked |-> k]
            BY <1>2
          <5> HIDE DEF w, b, k
          <5>2. eat' = [want |-> w, bytes |-> all, peeked |-> k]
            BY <3>3, <5>1, SMTT(20)
          <5>3. QED
            BY <5>2, SMTT(20) DEF w, k
        <4>2. m - o <= eat.want
          BY <1>2, <1>3, <2>3, <2>6, <2>8
        <4>3. QED
          BY <1>1, <1>2, <1>5, <1>8, <2>1, <2>2, <2>3, <2>4, <2>5, <3>1, <3>3, <4>1, <4>2, EatSteps, SMTT(20)
      <3>4. QED
        BY <1>7, <1>10, <2>8, <3>2, <3>3
    <2>9. QED
      BY <2>7, <2>8, SMTT(20)
  <1>11. QED
    BY <1>9, <1>10

\* A rewind that no other preceded finds in recent_data all that was received.
LEMMA ResetSteps ==
    ASSUME ~ResetsFreely, BufInv, Reset
    PROVE  StreamStep
PROOF
  <1>1. PICK o, p : StreamAt(o, p)
    BY DEF BufInv
  <1>2. /\ ch.rx /\ eat = NotConsuming /\ ~ch.err /\ ch.received <= ch.max
        /\ resets = 0 /\ ch.queued = <<>>
        /\ ch' = TryResetStream(ch)
        /\ out' = <<>> /\ said' = "open" /\ resets' = resets + 1
        /\ UNCHANGED <<sent, eat>>
    BY SMTT(20) DEF Reset, CanReset
  <1>3. ch \in Channels /\ ch.recent \in Chunks /\ ch.q \in Chunks /\ (ch.tx => ~ch.eof_sent)
    BY <1>1 DEF StreamAt, Holds, Channels
  <1>4. PICK m \in Nat : HoldsAt(ch, p, m, sent, resets)
    BY <1>1, <1>2, SMTT(20) DEF StreamAt, Holds
  <1>5. /\ Covers(ch.recent, 0, m) /\ (~NoEof(ch.recent) => Ended(ch))
        /\ Covers(ch.q, m, sent) /\ NoEof(ch.q)
    BY <1>2, <1>4 DEF HoldsAt
  <1>6. ch.recent \o <<>> = ch.recent
    BY <1>3, ConcatEmptySeq, SMTT(20) DEF Chunks
  <1>7. ch' = [ch EXCEPT !.queued = ch.recent, !.recent = <<>>, !.received = 0]
    BY <1>2, <1>3, <1>6 DEF TryResetStream, Channels
  <1>8. /\ ch' \in Channels /\ ch'.q = ch.q /\ ch'.tx = ch.tx /\ ch'.rx = ch.rx
        /\ ch'.eof_sent = ch.eof_sent /\ ch'.queued = ch.recent /\ ch'.err = ch.err
    <2>1. <<>> \in Chunks
      BY DEF Chunks
    <2>2. QED
      BY <1>3, <1>7, <2>1, Zenon DEF Channels
  <1>9. Ended(ch) => Ended(ch')
    BY <1>8 DEF Ended
  <1>10. resets' # 0 /\ resets' \in Nat /\ 0 \in Nat /\ 0 <= 0 /\ Run(0, 0) = <<>>
    BY <1>2, RunEmpty
  <1>11. HoldsAt(ch', 0, m, sent, resets')
    BY <1>5, <1>8, <1>9, <1>10, Zenon DEF HoldsAt
  <1>12. Holds(ch', 0, sent, resets')
    BY <1>2, <1>3, <1>8, <1>11, Zenon DEF Holds
  <1>13. StreamAt(0, 0)'
    BY <1>2, <1>10, <1>12, SMTT(20) DEF StreamAt, NotConsuming
  <1>14. EatOK'
    BY <1>2 DEF EatOK
  <1>15. said # "err"
    BY <1>2, SMTT(20) DEF BufInv
  <1>16. BufInv'
    BY <1>2, <1>8, <1>10, <1>13, <1>14 DEF BufInv
  <1>17. QED
    BY <1>2, <1>8, <1>15, <1>16, RewindStep, SMTT(20) DEF StreamStep

-----------------------------------------------------------------------------
(* The refinement *)

LEMMA BufSteps ==
    ASSUME ~ResetsFreely, BufInv, [BufNext]_bufVars
    PROVE  StreamStep
PROOF
  <1>1. ASSUME NEW n \in ChunkSizes, Send(n) PROVE StreamStep
    BY <1>1, SendSteps, SMTT(20)
  <1>2. CASE WriterEnds
    BY <1>2, WriterEndsSteps
  <1>3. CASE ReaderLeaves
    BY <1>3, ReaderLeavesSteps, SMTT(20)
  <1>4. CASE ReceiveChunk
    BY <1>4, ReceiveChunkSteps
  <1>5. CASE PeekNext
    BY <1>5, PeekNextSteps
  <1>6. ASSUME NEW size \in ChunkSizes \cup {Everything}, ConsumeFirst(size) PROVE StreamStep
    BY <1>6, ConsumeFirstSteps
  <1>7. CASE ConsumePeek
    BY <1>7, ConsumePeekSteps
  <1>8. CASE ConsumeMore
    BY <1>8, ConsumeMoreSteps
  <1>9. CASE Reset
    BY <1>9, ResetSteps, SMTT(20)
  <1>10. CASE UNCHANGED bufVars
    <2>1. UNCHANGED <<ch, sent, eat, out, said, resets>>
      BY <1>10, SMTT(20) DEF bufVars
    <2>2. BufInv'
      BY <2>1 DEF BufInv, EatOK, StreamAt
    <2>3. QED
      BY <2>1, <2>2, QueueStutters, SMTT(20) DEF StreamStep
  <1>11. QED
    BY <1>1, <1>2, <1>3, <1>4, <1>5, <1>6, <1>7, <1>8, <1>9, <1>10, Zenon DEF BufNext

LEMMA BufInitQueue == ASSUME BufInit PROVE Queue!QueueInit
PROOF
  <1>1. PICK max \in MaxRecents : ch = MakeBufChannelPair(max)
    BY DEF BufInit
  <1>2. ch.tx = TRUE
    BY <1>1 DEF MakeBufChannelPair
  <1>3. QED
    BY <1>2, SMTT(20) DEF BufInit, Queue!QueueInit

\* The invariant of the channel: what the reader has, what a consume() holds,
\* what is put back and what is queued are, in this order and without a gap, the
\* bytes that send() accepted (buf_channel.rs, recv, peek, consume, try_reset_stream).
THEOREM ChannelHoldsTheRest == ASSUME ~ResetsFreely PROVE BufSpec => []BufInv
PROOF
  <1>1. BufInit => BufInv
    BY BufInitInv
  <1>2. BufInv /\ [BufNext]_bufVars => BufInv'
    BY BufSteps, SMTT(20) DEF StreamStep
  <1>3. QED
    BY <1>1, <1>2, PTL DEF BufSpec

\* DropCloserReadHalf and DropCloserWriteHalf are a byte queue, for a stream of
\* any length cut into chunks in any way and any limit of recent_data: the reader
\* gets every byte in order, EOF only at the end and an error if the writer went
\* away, also after one rewind with no chunk put back.
THEOREM ChannelIsByteQueue == ASSUME ~ResetsFreely PROVE BufSpec => ImplementsByteQueue
PROOF
  <1>1. BufInit => Queue!QueueInit
    BY BufInitQueue
  <1>2. BufInv /\ [BufNext]_bufVars => [Queue!QueueNext]_(Queue!queueVars)
    BY BufSteps DEF StreamStep
  <1>3. QED
    BY <1>1, <1>2, ChannelHoldsTheRest, PTL DEF BufSpec, ImplementsByteQueue, Queue!QueueSpec
=============================================================================
