-------------------------- MODULE JsonLinesProofs --------------------------
(***************************************************************************)
(* Theorems about JsonLines for every stream and every size of the reads.  *)
(***************************************************************************)
EXTENDS JsonLines, FiniteSetTheorems, StreamLemmas, TLAPS

USE DEF vars, frame

\* A decoded item is an Item and the bookkeeping keeps its types.
LEMMA TypeStep == ASSUME TypeOK, [Next]_vars PROVE TypeOK'
<1> USE DEF TypeOK
<1>1. CASE SwitchCodec
  BY <1>1 DEF SwitchCodec
<1>2. CASE DecodeLine
  <2> PICK i \in DOMAIN buf : /\ buf' = SubSeq(buf, i + 1, Len(buf))
                              /\ Take(SubSeq(buf, 1, i - 1))
    BY <1>2 DEF DecodeLine
  <2>1. i \in 1 .. Len(buf)
    OBVIOUS
  <2>2. SubSeq(buf, 1, i - 1) \in Seq(Byte) /\ buf' \in Seq(Byte)
    BY <2>1
  <2>3. items' \in Seq(Item) /\ errored' \in BOOLEAN
    BY <2>2 DEF Take, Item
  <2>4. next_index' \in Nat
    BY <1>2 DEF DecodeLine
  <2> QED
    BY <2>2, <2>3, <2>4 DEF Take
<1>3. CASE DecodeNone
  <2>1. Len(buf) \in Nat
    OBVIOUS
  <2> QED
    BY <1>3, <2>1 DEF DecodeNone
<1>4. CASE DecodeEof
  <2>1. items' \in Seq(Item) /\ errored' \in BOOLEAN
    BY <1>4 DEF DecodeEof, Take, Item
  <2> QED
    BY <1>4, <2>1 DEF DecodeEof, Take
<1>5. CASE DecodeEofNone
  BY <1>5 DEF DecodeEofNone
<1>6. CASE Read
  <2> PICK n \in 1 .. Len(input) - taken :
             /\ taken' = taken + n
             /\ buf' = buf \o SubSeq(input, taken + 1, taken + n)
    BY <1>6 DEF Read
  <2>1. Len(input) \in Nat /\ taken' \in 0 .. Len(input)
    OBVIOUS
  <2>2. SubSeq(input, taken + 1, taken + n) \in Seq(Byte)
    BY <2>1
  <2>3. buf' \in Seq(Byte)
    BY <2>2
  <2> QED
    BY <1>6, <2>1, <2>3 DEF Read
<1>7. CASE ReadEof
  BY <1>7 DEF ReadEof
<1>8. CASE EndAfterError
  BY <1>8 DEF EndAfterError
<1>9. CASE UNCHANGED vars
  BY <1>9
<1> QED
  BY <1>1, <1>2, <1>3, <1>4, <1>5, <1>6, <1>7, <1>8, <1>9
     DEF Next, Decode, Finished

LEMMA TypeInit == ASSUME Init PROVE TypeOK
<1>1. input \in Seq(Byte) /\ Len(input) \in Nat
  BY InputAssumption DEF Init
<1>2. <<>> \in Seq(Byte) /\ <<>> \in Seq(Item)
  OBVIOUS
<1>3. taken \in 0 .. Len(input)
  BY <1>1 DEF Init
<1>4. phase \in {"greeting", "messages"}
  BY DEF Init
<1> QED
  BY <1>1, <1>2, <1>3, <1>4 DEF Init, TypeOK

IInv == TypeOK /\ ScanInv /\ NoBufferedLine

LEMMA ScanStep ==
    ASSUME IInv, [Next]_vars
    PROVE  ScanInv' /\ NoBufferedLine'
<1> USE DEF IInv, TypeOK, ScanInv, NoBufferedLine
<1>1. CASE SwitchCodec
  BY <1>1 DEF SwitchCodec
<1>2. CASE DecodeLine
  <2>1. next_index' = 0 /\ UNCHANGED <<readable, ended>> /\ readable
    BY <1>2 DEF DecodeLine, Take
  <2>2. buf' \in Seq(Byte)
    BY <1>2, TypeStep
  <2> QED
    BY <2>1, <2>2
<1>3. CASE DecodeNone
  <2>1. \A i \in DOMAIN buf : buf[i] # NL
    BY <1>3 DEF DecodeNone, Searched
  <2> QED
    BY <1>3, <2>1 DEF DecodeNone
<1>4. CASE DecodeEof
  BY <1>4 DEF DecodeEof, Take
<1>5. CASE DecodeEofNone
  BY <1>5 DEF DecodeEofNone
<1>6. CASE Read
  <2> PICK n \in 1 .. Len(input) - taken :
             buf' = buf \o SubSeq(input, taken + 1, taken + n)
    BY <1>6 DEF Read
  <2>1. SubSeq(input, taken + 1, taken + n) \in Seq(Byte)
    OBVIOUS
  <2>2. /\ Len(buf) <= Len(buf')
        /\ \A i \in 1 .. Len(buf) : buf'[i] = buf[i]
    BY <2>1
  <2>3. UNCHANGED next_index /\ readable'
    BY <1>6 DEF Read
  <2>4. \A i \in DOMAIN buf' : i <= next_index => i \in 1 .. Len(buf)
    BY <2>1
  <2> QED
    BY <2>2, <2>3, <2>4
<1>7. CASE ReadEof
  BY <1>7 DEF ReadEof
<1>8. CASE EndAfterError
  BY <1>8 DEF EndAfterError
<1>9. CASE UNCHANGED vars
  BY <1>9
<1> QED
  BY <1>1, <1>2, <1>3, <1>4, <1>5, <1>6, <1>7, <1>8, <1>9
     DEF Next, Decode, Finished

LEMMA Inductive == Spec => []IInv
<1>1. Init => IInv
  <2> SUFFICES ASSUME Init PROVE IInv
    OBVIOUS
  <2>1. buf = <<>> /\ next_index = 0
    BY DEF Init
  <2>2. ScanInv /\ NoBufferedLine
    BY <2>1 DEF ScanInv, NoBufferedLine
  <2> QED
    BY <2>2, TypeInit DEF IInv
<1>2. IInv /\ [Next]_vars => IInv'
  BY TypeStep, ScanStep DEF IInv
<1> QED
  BY <1>1, <1>2, PTL DEF Spec

\* The codec's search index is always inside the buffer, and everything
\* before it has been searched: resuming the search skips no newline.
THEOREM NoNewlineSkipped == Spec => []ScanInv
<1>1. IInv => ScanInv
  BY DEF IInv
<1> QED
  BY <1>1, Inductive, PTL

\* A read of the socket is only asked for when no complete line is buffered:
\* the event loop may rely on the socket to wake it.
THEOREM NoLineWaits == Spec => []NoBufferedLine
<1>1. IInv => NoBufferedLine
  BY DEF IInv
<1> QED
  BY <1>1, Inductive, PTL
-----------------------------------------------------------------------------
\* Where the decoder stands: everything before has been split into lines.
At == taken - Len(buf)

NoLineIn(s) == \A i \in DOMAIN s : s[i] # NL

\* The buffer is the stretch of the stream that ends where the reading does
\* and begins after a newline, as many of them as there are items; after the
\* end of the file it is the rest, and only then may items outnumber lines.
StreamInv ==
    /\ Len(buf) <= taken
    /\ \A i \in DOMAIN buf : buf[i] = input[At + i]
    /\ LineEnd(input, Newlines(input, At), At)
    /\ eof => taken = Len(input) /\ NoLineIn(buf)
    /\ \/ Len(items) = Newlines(input, At)
       \/ Len(items) > Newlines(input, At) /\ taken = Len(input) /\ NoLineIn(buf)
    /\ DeliveredInOrder

\* What the types say about the places.
LEMMA Places ==
    ASSUME TypeOK, Len(buf) <= taken
    PROVE  /\ Len(input) \in Nat /\ Len(buf) \in Nat /\ Len(items) \in Nat
           /\ DOMAIN input = 1 .. Len(input) /\ DOMAIN buf = 1 .. Len(buf)
           /\ DOMAIN items = 1 .. Len(items)
           /\ taken \in Nat /\ taken <= Len(input)
           /\ At \in Nat /\ At <= taken /\ At + Len(buf) = taken
<1> USE DEF TypeOK
<1>1. Len(input) \in Nat /\ Len(buf) \in Nat /\ Len(items) \in Nat
  OBVIOUS
<1>2. taken \in Nat /\ taken <= Len(input)
  BY <1>1
<1>3. /\ DOMAIN input = 1 .. Len(input) /\ DOMAIN buf = 1 .. Len(buf)
      /\ DOMAIN items = 1 .. Len(items)
  OBVIOUS
<1> QED
  BY <1>1, <1>2, <1>3 DEF At

\* Lines are counted: a newline adds one, a stretch without newlines none.
LEMMA NewlinesType ==
    ASSUME NEW p \in Nat
    PROVE  Newlines(input, p) \in Nat /\ IsFiniteSet({i \in 1 .. p : input[i] = NL})
<1>1. IsFiniteSet(1 .. p)
  BY FS_Interval
<1>2. IsFiniteSet({i \in 1 .. p : input[i] = NL})
  BY <1>1, FS_Subset
<1> QED
  BY <1>2, FS_CardinalityType DEF Newlines

LEMMA SameNewlines ==
    ASSUME NEW p \in Nat, NEW q \in Nat, p <= q,
           \A i \in p + 1 .. q : input[i] # NL
    PROVE  Newlines(input, q) = Newlines(input, p)
<1>1. {i \in 1 .. q : input[i] = NL} = {i \in 1 .. p : input[i] = NL}
  OBVIOUS
<1> QED
  BY <1>1 DEF Newlines

LEMMA OneMoreNewline ==
    ASSUME NEW p \in Nat, NEW q \in Nat, p < q, input[q] = NL,
           \A i \in p + 1 .. q - 1 : input[i] # NL
    PROVE  Newlines(input, q) = Newlines(input, p) + 1
<1> DEFINE P == {i \in 1 .. p : input[i] = NL}
<1>1. {i \in 1 .. q : input[i] = NL} = P \cup {q}
  OBVIOUS
<1>2. q \notin P
  OBVIOUS
<1>3. IsFiniteSet(P)
  BY NewlinesType
<1>4. Cardinality(P \cup {q}) = Cardinality(P) + 1
  BY <1>2, <1>3, FS_AddElement
<1> QED
  BY <1>1, <1>4 DEF Newlines

\* A step that leaves the stream, the read position and the items alone
\* leaves the delivered items what they were.
LEMMA DeliveredFrame ==
    ASSUME DeliveredInOrder, UNCHANGED <<input, items>>,
           taken = Len(input) => UNCHANGED taken
    PROVE  DeliveredInOrder'
  BY DEF DeliveredInOrder

LEMMA StreamFrame ==
    ASSUME StreamInv, UNCHANGED <<input, taken, buf, items>>, eof' => eof
    PROVE  StreamInv'
<1>1. DeliveredInOrder'
  BY DeliveredFrame DEF StreamInv
<1> QED
  BY <1>1 DEF StreamInv, At

\* A new item is added: the others stay what they are.
LEMMA DeliveredAppend ==
    ASSUME TypeOK, DeliveredInOrder, NEW s \in Seq(Byte), Take(s),
           LET k == Len(items) + 1
           IN  \/ IsLine(input, k, s)
               \/ k > Newlines(input, Len(input)) /\ taken = Len(input) /\ IsRest(input, s)
    PROVE  DeliveredInOrder' /\ Len(items') = Len(items) + 1
<1> PICK item : item = [line |-> s, ok |-> (s \in Valid[phase])]
  OBVIOUS
<1>1. item \in Item /\ item.line = s /\ items' = Append(items, item)
  BY DEF Take, Item
<1>2. /\ UNCHANGED <<input, taken>>
      /\ Len(items) \in Nat /\ DOMAIN items = 1 .. Len(items)
      /\ Len(items') = Len(items) + 1 /\ DOMAIN items' = 1 .. Len(items) + 1
      /\ items'[Len(items) + 1] = item
      /\ \A k \in DOMAIN items : items'[k] = items[k]
  BY <1>1, AppendFacts DEF Take, TypeOK
<1>3. ASSUME NEW k \in DOMAIN items', NEW t, t = items'[k].line
      PROVE  \/ IsLine(input, k, t)
             \/ k > Newlines(input, Len(input)) /\ taken = Len(input) /\ IsRest(input, t)
  <2>1. CASE k \in DOMAIN items
    BY <1>2, <1>3, <2>1 DEF DeliveredInOrder
  <2>2. CASE k = Len(items) + 1
    BY <1>1, <1>2, <1>3, <2>2
  <2> QED
    BY <1>2, <2>1, <2>2
<1> QED
  BY <1>2, <1>3 DEF DeliveredInOrder
\* A whole line is taken: it is the next one of the stream.
LEMMA LineTaken ==
    ASSUME TypeOK, StreamInv, DecodeLine, ScanInv
    PROVE  StreamInv'
<1> PICK i \in DOMAIN buf : /\ IsFirst(i)
                            /\ buf' = SubSeq(buf, i + 1, Len(buf))
                            /\ Take(SubSeq(buf, 1, i - 1))
  BY DEF DecodeLine
<1> PICK rest : rest = SubSeq(buf, i + 1, Len(buf))
  OBVIOUS
<1> PICK q : q = At + i
  OBVIOUS
<1>1. /\ Len(input) \in Nat /\ Len(buf) \in Nat /\ Len(items) \in Nat
      /\ DOMAIN buf = 1 .. Len(buf)
      /\ taken \in Nat /\ taken <= Len(input)
      /\ At \in Nat /\ At + Len(buf) = taken
  BY Places DEF StreamInv
<1>2. i \in 1 .. Len(buf) /\ q \in 1 .. Len(input) /\ At < q
  BY <1>1
<1>3. buf[i] = NL /\ \A j \in 1 .. i - 1 : buf[j] # NL
  <2>1. i \in Searched /\ \A j \in Searched : i <= j
    BY DEF IsFirst
  <2>2. ASSUME NEW j \in 1 .. i - 1 PROVE buf[j] # NL
    <3>1. j \in DOMAIN buf /\ ~(i <= j)
      BY <1>1, <1>2
    <3>2. j \notin Searched
      BY <2>1, <3>1
    <3>3. next_index \in Nat /\ (j > next_index \/ j <= next_index)
      BY <1>1 DEF TypeOK
    <3> QED
      BY <3>1, <3>2, <3>3 DEF Searched, ScanInv
  <2> QED
    BY <2>1, <2>2 DEF Searched
<1>4. /\ input[q] = NL /\ \A j \in At + 1 .. q - 1 : input[j] # NL
  <2>1. input[q] = NL
    BY <1>2, <1>3 DEF StreamInv
  <2>2. ASSUME NEW j \in At + 1 .. q - 1 PROVE input[j] # NL
    <3>1. j - At \in 1 .. i - 1 /\ At + (j - At) = j
      BY SMTT(30), <1>1, <1>2
    <3>2. j - At \in DOMAIN buf
      BY SMTT(30), <3>1, <1>1, <1>2
    <3> QED
      BY <1>3, <3>1, <3>2 DEF StreamInv
  <2> QED
    BY <2>1, <2>2
<1>5. Newlines(input, q) = Newlines(input, At) + 1
  BY <1>1, <1>2, <1>4, OneMoreNewline
<1>6. SubSeq(buf, 1, i - 1) = SubSeq(input, At + 1, q - 1)
  <2>1. /\ SubSeq(buf, 1, i - 1) \in Seq(Byte)
        /\ Len(SubSeq(buf, 1, i - 1)) = i - 1
        /\ \A j \in 1 .. i - 1 : SubSeq(buf, 1, i - 1)[j] = buf[j]
    BY SMTT(30), <1>1, <1>2 DEF TypeOK
  <2>2. /\ SubSeq(input, At + 1, q - 1) \in Seq(Byte)
        /\ Len(SubSeq(input, At + 1, q - 1)) = i - 1
        /\ \A j \in 1 .. i - 1 : SubSeq(input, At + 1, q - 1)[j] = input[j + At]
    <3>1. PICK l \in Nat : l = q - 1
      BY <1>2
    <3>2. At <= l /\ l <= Len(input) /\ l - At = i - 1
      <4> PICK a \in Nat : a = At
        BY <1>1
      <4>1. i \in Nat /\ i >= 1 /\ q = a + i /\ l = q - 1
        BY <1>1, <1>2, <3>1
      <4>2. a <= l /\ l - a = i - 1
        BY <4>1
      <4>3. l <= Len(input)
        BY <1>1, <1>2, <3>1
      <4> QED
        BY <4>2, <4>3
    <3>3. input \in Seq(Byte)
      BY DEF TypeOK
    <3>4. /\ SubSeq(input, At + 1, l) \in Seq(Byte)
          /\ Len(SubSeq(input, At + 1, l)) = l - At
          /\ \A j \in 1 .. l - At : SubSeq(input, At + 1, l)[j] = input[j + At]
      BY SMTT(30), <1>1, <3>2, <3>3, SliceFacts
    <3> QED
      BY <3>1, <3>2, <3>4
  <2>3. \A j \in 1 .. i - 1 : input[j + At] = buf[j]
    <3> TAKE j \in 1 .. i - 1
    <3>1. j \in DOMAIN buf /\ j + At = At + j
      BY <1>1, <1>2
    <3> QED
      BY <3>1 DEF StreamInv
  <2> QED
    BY <2>1, <2>2, <2>3, SeqEqual
<1>7. Len(items) = Newlines(input, At)
  BY <1>3 DEF StreamInv, NoLineIn
<1>8. IsLine(input, Len(items) + 1, SubSeq(buf, 1, i - 1))
  <2>1. LineEnd(input, (Len(items) + 1) - 1, At)
    BY <1>1, <1>7 DEF StreamInv
  <2>2. LineEnd(input, Len(items) + 1, q)
    BY <1>4, <1>5, <1>7 DEF LineEnd
  <2>3. At \in 0 .. Len(input) /\ q \in 0 .. Len(input)
    BY <1>1, <1>2
  <2> QED
    BY <1>2, <1>6, <2>1, <2>2, <2>3 DEF IsLine
<1>9. SubSeq(buf, 1, i - 1) \in Seq(Byte)
  BY <1>2 DEF TypeOK
<1>10. DeliveredInOrder' /\ Len(items') = Len(items) + 1
  BY <1>8, <1>9, DeliveredAppend DEF StreamInv
<1>11. /\ rest \in Seq(Byte)
       /\ DOMAIN rest = 1 .. Len(buf) - i /\ Len(rest) = Len(buf) - i
       /\ \A j \in DOMAIN rest : j + i \in DOMAIN buf /\ rest[j] = buf[j + i]
  <2>1. i \in 0 .. Len(buf)
    BY <1>2
  <2> QED
    BY <2>1, SuffixFacts DEF TypeOK
<1>12. UNCHANGED <<input, taken, eof>> /\ ~eof /\ buf' = rest
  BY DEF DecodeLine, Take
<1>13. At' = q /\ Len(rest) <= taken
  <2>1. Len(rest) = Len(buf) - i /\ taken' = taken /\ buf' = rest
    BY <1>11, <1>12
  <2>2. taken - (Len(buf) - i) = At + i /\ Len(buf) - i <= taken
    BY <1>1, <1>2
  <2> QED
    BY <2>1, <2>2 DEF At
<1>14. \A j \in DOMAIN rest : rest[j] = input[q + j]
  <2> TAKE j \in DOMAIN rest
  <2>1. rest[j] = buf[j + i] /\ j + i \in DOMAIN buf
    BY <1>11
  <2>2. At + (j + i) = q + j
    BY <1>1, <1>2, <1>11
  <2> QED
    BY <2>1, <2>2 DEF StreamInv
<1>15. LineEnd(input, Newlines(input, q), q)
  BY <1>4 DEF LineEnd
<1>16. Len(items') = Newlines(input, q)
  BY <1>5, <1>7, <1>10
<1> QED
  BY <1>10, <1>12, <1>13, <1>14, <1>15, <1>16 DEF StreamInv

\* What is left at the end of the file is what follows the last newline.
LEMMA RestTaken ==
    ASSUME TypeOK, StreamInv, DecodeEof
    PROVE  StreamInv'
<1>1. /\ Len(input) \in Nat /\ Len(buf) \in Nat /\ Len(items) \in Nat
      /\ DOMAIN buf = 1 .. Len(buf)
      /\ At \in Nat /\ At <= taken /\ At + Len(buf) = taken
  BY Places DEF StreamInv
<1>2. taken = Len(input) /\ NoLineIn(buf)
  BY DEF StreamInv, DecodeEof
<1>3. \A j \in At + 1 .. Len(input) : input[j] # NL
  <2> TAKE j \in At + 1 .. Len(input)
  <2>1. j - At \in DOMAIN buf /\ At + (j - At) = j
    BY <1>1, <1>2
  <2> QED
    BY <1>2, <2>1 DEF StreamInv, NoLineIn
<1>4. Newlines(input, Len(input)) = Newlines(input, At)
  BY <1>1, <1>2, <1>3, SameNewlines
<1>5. buf = SubSeq(input, At + 1, Len(input))
  <2>1. /\ SubSeq(input, At + 1, Len(input)) \in Seq(Byte)
        /\ Len(SubSeq(input, At + 1, Len(input))) = Len(input) - At
        /\ \A j \in DOMAIN SubSeq(input, At + 1, Len(input)) :
              SubSeq(input, At + 1, Len(input))[j] = input[j + At]
    BY SMTT(30), <1>1, <1>2, SuffixFacts DEF TypeOK
  <2>2. \A j \in 1 .. Len(buf) : buf[j] = input[j + At]
    <3> TAKE j \in 1 .. Len(buf)
    <3>1. j \in DOMAIN buf /\ j + At = At + j
      BY <1>1
    <3> QED
      BY <3>1 DEF StreamInv
  <2> QED
    BY <1>1, <1>2, <2>1, <2>2, SeqEqual DEF TypeOK
<1>6. IsRest(input, buf)
  <2>1. At \in 0 .. Len(input)
    BY <1>1, <1>2
  <2>2. LineEnd(input, Newlines(input, Len(input)), At)
    BY <1>4 DEF StreamInv
  <2> QED
    BY <1>5, <2>1, <2>2 DEF IsRest
<1>7. Newlines(input, At) \in Nat /\ Len(items) >= Newlines(input, At)
  <2>1. Newlines(input, At) \in Nat
    BY <1>1, NewlinesType
  <2>2. Len(items) = Newlines(input, At) \/ Len(items) > Newlines(input, At)
    BY DEF StreamInv
  <2> QED
    BY <1>1, <2>1, <2>2
<1>8. Len(items) + 1 > Newlines(input, Len(input))
  BY <1>1, <1>4, <1>7
<1>9. Take(buf) /\ UNCHANGED buf /\ buf \in Seq(Byte)
  BY DEF DecodeEof, TypeOK
<1>10. DeliveredInOrder' /\ Len(items') = Len(items) + 1
  BY <1>2, <1>6, <1>8, <1>9, DeliveredAppend DEF StreamInv
<1>11. UNCHANGED <<input, taken, eof, buf>> /\ UNCHANGED At
  BY <1>9 DEF Take, At
<1>12. Len(items') > Newlines(input, At)
  BY <1>1, <1>7, <1>10
<1> QED
  BY <1>2, <1>10, <1>11, <1>12 DEF StreamInv, NoLineIn

\* A read moves both ends of the stretch the buffer is.
LEMMA BytesRead ==
    ASSUME TypeOK, StreamInv, Read
    PROVE  StreamInv'
<1> PICK n \in 1 .. Len(input) - taken :
           /\ taken' = taken + n
           /\ buf' = buf \o SubSeq(input, taken + 1, taken + n)
  BY DEF Read
<1> PICK more : more = SubSeq(input, taken + 1, taken + n)
  OBVIOUS
<1>1. /\ Len(input) \in Nat /\ Len(buf) \in Nat
      /\ DOMAIN buf = 1 .. Len(buf)
      /\ taken \in Nat /\ taken <= Len(input)
      /\ At \in Nat /\ At + Len(buf) = taken
  BY Places DEF StreamInv
<1>2. n \in 1 .. Len(input) /\ taken + n <= Len(input)
  BY <1>1
<1>3. /\ more \in Seq(Byte) /\ Len(more) = n
      /\ \A j \in 1 .. n : more[j] = input[j + taken]
  <2>1. taken + n \in Nat /\ taken <= taken + n /\ (taken + n) - taken = n
    BY <1>1, <1>2
  <2> QED
    BY SMTT(30), <1>1, <1>2, <2>1, SliceFacts DEF TypeOK
<1>4. /\ Len(buf \o more) = Len(buf) + n
      /\ DOMAIN (buf \o more) = 1 .. Len(buf) + n
      /\ \A j \in 1 .. Len(buf) : (buf \o more)[j] = buf[j]
      /\ \A j \in 1 .. n : (buf \o more)[j + Len(buf)] = more[j]
  <2>1. buf \in Seq(Byte)
    BY DEF TypeOK
  <2> QED
    BY <1>3, <2>1, JoinFacts
<1>5. buf' = buf \o more /\ UNCHANGED <<input, items>> /\ ~eof'
  BY DEF Read
<1>6. At' = At /\ Len(buf') <= taken'
  <2>1. taken' = taken + n /\ Len(buf') = Len(buf) + n
    BY <1>4, <1>5
  <2>2. (taken + n) - (Len(buf) + n) = At /\ Len(buf) + n <= taken + n
    BY <1>1, <1>2
  <2> QED
    BY <2>1, <2>2 DEF At
<1>7. \A j \in DOMAIN buf' : buf'[j] = input[At + j]
  <2> SUFFICES ASSUME NEW j \in 1 .. Len(buf) + n
               PROVE  (buf \o more)[j] = input[At + j]
    BY <1>4, <1>5
  <2>1. CASE j \in 1 .. Len(buf)
    BY <1>1, <1>4, <2>1 DEF StreamInv
  <2>2. CASE j \notin 1 .. Len(buf)
    <3>1. PICK l \in Nat : l = Len(buf)
      BY <1>1
    <3>2. PICK k \in 1 .. n : j = k + l
      <4>1. j - l \in 1 .. n /\ j = (j - l) + l
        BY <1>1, <1>2, <2>2, <3>1
      <4> QED
        BY <4>1
    <3>3. (buf \o more)[j] = input[k + taken]
      BY <1>3, <1>4, <3>1, <3>2
    <3>4. k + taken = At + j
      <4>1. k \in Nat /\ At \in Nat
        BY <1>1, <1>2
      <4>2. At + l = taken
        BY <1>1, <3>1
      <4> QED
        BY <3>2, <4>1, <4>2
    <3> QED
      BY <3>3, <3>4
  <2> QED
    BY <2>1, <2>2
<1>8. taken # Len(input)
  BY <1>1, <1>2
<1>9. DeliveredInOrder'
  BY <1>5, <1>8, DeliveredFrame DEF StreamInv
<1>10. Len(items) = Newlines(input, At)
  BY <1>8 DEF StreamInv
<1> QED
  BY <1>5, <1>6, <1>7, <1>9, <1>10 DEF StreamInv

LEMMA StreamInit == ASSUME Init, TypeOK PROVE StreamInv
<1>1. taken = 0 /\ buf = <<>> /\ items = <<>> /\ ~eof
  BY DEF Init
<1>2. At = 0 /\ Len(buf) = 0 /\ DOMAIN buf = {} /\ DOMAIN items = {} /\ Len(items) = 0
  <2>1. Len(buf) = 0 /\ DOMAIN buf = {}
    BY <1>1
  <2>2. Len(items) = 0 /\ DOMAIN items = {}
    BY <1>1
  <2>3. taken = 0
    BY <1>1
  <2>4. At = 0
    BY <2>1, <2>3 DEF At
  <2> QED
    BY <2>1, <2>2, <2>4
<1>3. {i \in 1 .. 0 : input[i] = NL} = {}
  OBVIOUS
<1>4. Newlines(input, 0) = 0
  BY <1>3, FS_EmptySet DEF Newlines
<1> QED
  BY <1>1, <1>2, <1>4 DEF StreamInv, LineEnd, DeliveredInOrder

LEMMA StreamStep == ASSUME IInv, StreamInv, [Next]_vars PROVE StreamInv'
<1> USE DEF IInv
<1>1. CASE SwitchCodec
  BY <1>1, StreamFrame DEF SwitchCodec
<1>2. CASE DecodeLine
  BY <1>2, LineTaken
<1>3. CASE DecodeNone
  BY <1>3, StreamFrame DEF DecodeNone
<1>4. CASE DecodeEof
  BY <1>4, RestTaken
<1>5. CASE DecodeEofNone
  BY <1>5, StreamFrame DEF DecodeEofNone
<1>6. CASE Read
  BY <1>6, BytesRead
<1>7. CASE ReadEof
  <2>1. taken = Len(input) /\ NoLineIn(buf)
    BY <1>7 DEF ReadEof, Polled, NoBufferedLine, NoLineIn
  <2>2. DeliveredInOrder'
    BY <1>7, DeliveredFrame DEF ReadEof, StreamInv
  <2> QED
    BY <1>7, <2>1, <2>2 DEF ReadEof, StreamInv, At, NoLineIn
<1>8. CASE EndAfterError
  BY <1>8, StreamFrame DEF EndAfterError
<1>9. CASE UNCHANGED vars
  BY <1>9, StreamFrame
<1> QED
  BY <1>1, <1>2, <1>3, <1>4, <1>5, <1>6, <1>7, <1>8, <1>9
     DEF Next, Decode, Finished

\* The consumer gets the lines of the stream, in order and whole, and what
\* follows the last newline only once the server has closed: for every
\* stream, every size of the reads, and across the change of codec.
THEOREM LinesInOrder == Spec => []DeliveredInOrder
<1>1. Init => IInv /\ StreamInv
  <2> SUFFICES ASSUME Init PROVE IInv /\ StreamInv
    OBVIOUS
  <2>1. buf = <<>> /\ next_index = 0
    BY DEF Init
  <2>2. ScanInv /\ NoBufferedLine
    BY <2>1 DEF ScanInv, NoBufferedLine
  <2> QED
    BY <2>2, TypeInit, StreamInit DEF IInv
<1>2. IInv /\ StreamInv /\ [Next]_vars => (IInv /\ StreamInv)'
  BY TypeStep, ScanStep, StreamStep DEF IInv
<1>3. IInv /\ StreamInv => DeliveredInOrder
  BY DEF StreamInv
<1> QED
  BY <1>1, <1>2, <1>3, PTL DEF Spec
=============================================================================
