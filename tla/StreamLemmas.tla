---------------------------- MODULE StreamLemmas ----------------------------
(***************************************************************************)
(* Facts about the sequences that stand for lines in a stream: what it     *)
(* means for their places that one is taken, added or lost.                *)
(***************************************************************************)
EXTENDS Naturals, Sequences, SequenceTheorems, TLAPS

\* What is left when the first line has been taken.
LEMMA TailFacts ==
    ASSUME NEW S, NEW s \in Seq(S), s # <<>>
    PROVE  /\ Tail(s) \in Seq(S) /\ Head(s) \in S /\ Head(s) = s[1]
           /\ Len(s) \in Nat /\ Len(s) >= 1 /\ DOMAIN s = 1 .. Len(s)
           /\ Len(Tail(s)) = Len(s) - 1 /\ DOMAIN Tail(s) = 1 .. Len(s) - 1
           /\ \A i \in DOMAIN Tail(s) : i + 1 \in DOMAIN s /\ Tail(s)[i] = s[i + 1]
OBVIOUS

\* A sequence without elements is the empty one.
LEMMA EmptyFacts ==
    ASSUME NEW S, NEW s \in Seq(S), \A i \in DOMAIN s : FALSE
    PROVE  s = <<>>
<1>1. ASSUME s # <<>> PROVE FALSE
  <2>1. 1 \in DOMAIN s
    BY <1>1, TailFacts
  <2> QED
    BY <2>1
<1> QED
  BY <1>1

\* A line is added at the end.
LEMMA AppendFacts ==
    ASSUME NEW S, NEW s \in Seq(S), NEW x \in S
    PROVE  /\ Append(s, x) \in Seq(S)
           /\ Len(s) \in Nat /\ DOMAIN s = 1 .. Len(s)
           /\ Len(Append(s, x)) = Len(s) + 1
           /\ DOMAIN Append(s, x) = 1 .. Len(s) + 1
           /\ Append(s, x)[Len(s) + 1] = x
           /\ \A i \in DOMAIN s : Append(s, x)[i] = s[i]
OBVIOUS

\* The second of two sequences that are joined.
LEMMA ConcatFacts ==
    ASSUME NEW S, NEW s \in Seq(S), NEW t \in Seq(S), NEW i \in DOMAIN t
    PROVE  /\ i + Len(s) \in DOMAIN (s \o t)
           /\ (s \o t)[i + Len(s)] = t[i]
<1>1. /\ Len(s) \in Nat /\ Len(t) \in Nat /\ i \in 1 .. Len(t)
      /\ DOMAIN (s \o t) = 1 .. Len(s) + Len(t)
  OBVIOUS
<1>2. /\ i + Len(s) \in 1 .. Len(s) + Len(t)
      /\ i + Len(s) > Len(s) /\ (i + Len(s)) - Len(s) = i
  BY <1>1
<1> QED
  BY <1>1, <1>2, ConcatProperties

\* What a restart leaves of the lines.
LEMMA SuffixFacts ==
    ASSUME NEW S, NEW s \in Seq(S), NEW n \in 0 .. Len(s)
    PROVE  LET t == SubSeq(s, n + 1, Len(s))
           IN  /\ t \in Seq(S)
               /\ DOMAIN t = 1 .. Len(s) - n /\ Len(t) = Len(s) - n
               /\ \A i \in DOMAIN t : i + n \in DOMAIN s /\ t[i] = s[i + n]
<1> DEFINE t == SubSeq(s, n + 1, Len(s))
<1>1. /\ Len(s) \in Nat /\ DOMAIN s = 1 .. Len(s)
      /\ n \in Nat /\ n <= Len(s) /\ Len(s) - n \in Nat
  OBVIOUS
<1>2. \A i \in n + 1 .. Len(s) : s[i] \in S
  BY <1>1
<1>3. /\ t \in Seq(S)
      /\ Len(t) = IF n + 1 <= Len(s) THEN Len(s) - (n + 1) + 1 ELSE 0
      /\ \A i \in 1 .. Len(s) - (n + 1) + 1 : t[i] = s[n + 1 + i - 1]
  BY <1>1, <1>2, SubSeqProperties
<1> HIDE DEF t
<1>4. Len(t) = Len(s) - n
  <2>1. \A l, k \in Nat :
           k <= l => (IF k + 1 <= l THEN l - (k + 1) + 1 ELSE 0) = l - k
    OBVIOUS
  <2>2. (IF n + 1 <= Len(s) THEN Len(s) - (n + 1) + 1 ELSE 0) = Len(s) - n
    BY <1>1, <2>1
  <2> QED
    BY <1>3, <2>2
<1>6. DOMAIN t = 1 .. Len(s) - n
  BY <1>3, <1>4
<1>5. ASSUME NEW i \in 1 .. Len(s) - n PROVE i + n \in DOMAIN s /\ t[i] = s[i + n]
  <2>1. i \in 1 .. Len(s) - (n + 1) + 1 /\ n + 1 + i - 1 = i + n
    BY <1>1
  <2>2. t[i] = s[n + 1 + i - 1]
    BY <1>3, <2>1
  <2> QED
    BY <1>1, <2>1, <2>2
<1> QED
  BY <1>3, <1>4, <1>5, <1>6 DEF t
\* A stretch of the lines.
LEMMA SliceFacts ==
    ASSUME NEW S, NEW s \in Seq(S), NEW n \in Nat, NEW m \in Nat,
           n <= m, m <= Len(s)
    PROVE  LET t == SubSeq(s, n + 1, m)
           IN  /\ t \in Seq(S)
               /\ DOMAIN t = 1 .. m - n /\ Len(t) = m - n
               /\ \A i \in 1 .. m - n : t[i] = s[i + n]
<1> DEFINE t == SubSeq(s, n + 1, m)
<1>1. Len(s) \in Nat /\ DOMAIN s = 1 .. Len(s) /\ m - n \in Nat
  OBVIOUS
<1>2. \A i \in n + 1 .. m : s[i] \in S
  BY <1>1
<1>3. /\ t \in Seq(S)
      /\ Len(t) = IF n + 1 <= m THEN m - (n + 1) + 1 ELSE 0
      /\ \A i \in 1 .. m - (n + 1) + 1 : t[i] = s[n + 1 + i - 1]
  BY <1>1, <1>2, SubSeqProperties
<1> HIDE DEF t
<1>4. (IF n + 1 <= m THEN m - (n + 1) + 1 ELSE 0) = m - n
  BY <1>1
<1>5. Len(t) = m - n
  BY <1>3, <1>4
<1>6. DOMAIN t = 1 .. m - n
  BY <1>3, <1>5
<1>7. ASSUME NEW i \in 1 .. m - n PROVE t[i] = s[i + n]
  <2>1. i \in 1 .. m - (n + 1) + 1 /\ n + 1 + i - 1 = i + n
    BY <1>1
  <2> QED
    BY <1>3, <2>1
<1> QED
  BY <1>3, <1>5, <1>6, <1>7 DEF t

\* Two sequences that are joined, element by element.
LEMMA JoinFacts ==
    ASSUME NEW S, NEW s \in Seq(S), NEW t \in Seq(S)
    PROVE  /\ s \o t \in Seq(S)
           /\ Len(s) \in Nat /\ Len(t) \in Nat
           /\ Len(s \o t) = Len(s) + Len(t)
           /\ DOMAIN (s \o t) = 1 .. Len(s) + Len(t)
           /\ \A i \in 1 .. Len(s) : (s \o t)[i] = s[i]
           /\ \A i \in 1 .. Len(t) : (s \o t)[i + Len(s)] = t[i]
<1>1. /\ s \o t \in Seq(S) /\ Len(s) \in Nat /\ Len(t) \in Nat
      /\ Len(s \o t) = Len(s) + Len(t)
      /\ DOMAIN (s \o t) = 1 .. Len(s) + Len(t)
      /\ DOMAIN t = 1 .. Len(t)
  OBVIOUS
<1>2. \A i \in 1 .. Len(s) : (s \o t)[i] = s[i]
  BY <1>1, ConcatProperties
<1>3. \A i \in 1 .. Len(t) : (s \o t)[i + Len(s)] = t[i]
  BY <1>1, ConcatFacts
<1> QED
  BY <1>1, <1>2, <1>3


\* A line added to the second of two sequences is added to both of them.
LEMMA JoinAppend ==
    ASSUME NEW S, NEW s \in Seq(S), NEW t \in Seq(S), NEW x \in S
    PROVE  s \o Append(t, x) = Append(s \o t, x)
<1> PICK a \in Seq(S) : a = Append(t, x)
  BY AppendFacts
<1> PICK u \in Seq(S) : u = s \o t
  BY JoinFacts
<1>1. /\ Len(s) \in Nat /\ Len(t) \in Nat /\ Len(a) = Len(t) + 1
      /\ a[Len(t) + 1] = x /\ \A i \in 1 .. Len(t) : a[i] = t[i]
  BY AppendFacts
<1>2. /\ s \o a \in Seq(S) /\ Len(s \o a) = Len(s) + Len(a)
      /\ \A i \in 1 .. Len(s) : (s \o a)[i] = s[i]
      /\ \A i \in 1 .. Len(a) : (s \o a)[i + Len(s)] = a[i]
  BY JoinFacts
<1>3. /\ Len(u) = Len(s) + Len(t)
      /\ \A i \in 1 .. Len(s) : u[i] = s[i]
      /\ \A i \in 1 .. Len(t) : u[i + Len(s)] = t[i]
  BY JoinFacts
<1>4. /\ Append(u, x) \in Seq(S) /\ Len(Append(u, x)) = Len(u) + 1
      /\ Append(u, x)[Len(u) + 1] = x
      /\ \A i \in 1 .. Len(u) : Append(u, x)[i] = u[i]
  BY AppendFacts
<1>5. Len(s \o a) = Len(Append(u, x))
  BY <1>1, <1>2, <1>3, <1>4
<1>6. ASSUME NEW i \in 1 .. Len(s \o a) PROVE (s \o a)[i] = Append(u, x)[i]
  <2>1. CASE i \in 1 .. Len(s)
    <3>1. i \in 1 .. Len(u)
      BY <1>1, <1>3, <2>1
    <3> QED
      BY <1>2, <1>3, <1>4, <2>1, <3>1
  <2>2. CASE i \notin 1 .. Len(s)
    <3>1. PICK j \in 1 .. Len(a) : i = j + Len(s)
      <4>1. i - Len(s) \in 1 .. Len(a) /\ i = (i - Len(s)) + Len(s)
        BY <1>1, <1>2, <2>2
      <4> QED
        BY <4>1
    <3>2. (s \o a)[i] = a[j]
      BY <1>2, <3>1
    <3>3. CASE j \in 1 .. Len(t)
      <4>1. i \in 1 .. Len(u) /\ u[i] = t[j]
        BY <1>1, <1>3, <3>1, <3>3
      <4> QED
        BY <1>1, <1>4, <3>2, <3>3, <4>1
    <3>4. CASE j \notin 1 .. Len(t)
      <4>1. j = Len(t) + 1 /\ i = Len(u) + 1
        BY <1>1, <1>3, <3>1, <3>4
      <4> QED
        BY <1>1, <1>4, <3>2, <4>1
    <3> QED
      BY <3>3, <3>4
  <2> QED
    BY <2>1, <2>2
<1> QED
  BY <1>2, <1>4, <1>5, <1>6, SeqEqual
=============================================================================
