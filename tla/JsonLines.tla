----------------------------- MODULE JsonLines -----------------------------
(***************************************************************************)
(* The reading side of the wire: JsonLinesCodec (qapi/src/futures/codec.rs) *)
(* under the Framed adapter of tokio-util, and the change of codec after   *)
(* the QMP greeting (qapi/src/futures/tokio.rs, open_split).               *)
(*                                                                         *)
(* A stream of bytes arrives in pieces of any size.  Bytes are abstract;   *)
(* which lines serde_json accepts is given by the constant Valid.          *)
(***************************************************************************)
EXTENDS Naturals, Sequences, FiniteSets

CONSTANTS
    Byte,        \* bytes, the newline among them
    NL,          \* b'\n'
    Inputs,      \* what the server may have written before it closes
    Greeting,    \* whether the stream starts with a QMP greeting
    Valid,       \* Valid[p]: the lines that decode as an item of phase p
    MaxItems     \* bound on the items the consumer takes

ASSUME InputAssumption ==
    /\ NL \in Byte
    /\ Inputs \subseteq Seq(Byte)
    /\ Greeting \in BOOLEAN
    /\ MaxItems \in Nat

VARIABLES
    input,       \* everything the server writes
    taken,       \* how many bytes have been read from the socket
    buf,         \* the read buffer (BytesMut)
    next_index,  \* the codec has seen no newline before this index
    phase,       \* which codec is in place
    readable, eof, errored,  \* Framed's read state
    items,       \* what the consumer got: the lines, and errors
    ended        \* the consumer has seen the end

frame == <<readable, eof, errored>>
vars  == <<input, taken, buf, next_index, phase, frame, items, ended>>

Item == [line : Seq(Byte), ok : BOOLEAN]

TypeOK ==
    /\ input \in Seq(Byte)
    /\ taken \in 0 .. Len(input)
    /\ buf \in Seq(Byte)
    /\ next_index \in Nat
    /\ phase \in {"greeting", "messages"}
    /\ readable \in BOOLEAN /\ eof \in BOOLEAN /\ errored \in BOOLEAN
    /\ items \in Seq(Item)
    /\ ended \in BOOLEAN

Init ==
    /\ input \in Inputs /\ taken = 0
    /\ buf = <<>> /\ next_index = 0
    /\ phase = IF Greeting THEN "greeting" ELSE "messages"
    /\ readable = FALSE /\ eof = FALSE /\ errored = FALSE
    /\ items = <<>> /\ ended = FALSE
-----------------------------------------------------------------------------
\* The positions of buf the codec looks at for a newline.
\* Mutants: it looks again at what it has seen less one, or beyond it.
SearchedSkipping == {i \in DOMAIN buf : i > next_index + 1 /\ buf[i] = NL}
Searched == {i \in DOMAIN buf : i > next_index /\ buf[i] = NL}

\* The first of them: memchr.
IsFirst(i) == i \in Searched /\ \A j \in Searched : i <= j

Take(line) ==
    /\ items' = Append(items, [line |-> line, ok |-> (line \in Valid[phase])])
    /\ errored' = (line \notin Valid[phase])
    /\ UNCHANGED <<input, taken, phase, readable, eof, ended>>

Polled == ~ended /\ ~errored /\ Len(items) < MaxItems

\* Mutant: the index survives the line it belongs to.
DecodeLineKeepsIndex ==
    /\ Polled /\ readable /\ ~eof
    /\ \E i \in DOMAIN buf :
        /\ IsFirst(i)
        /\ buf' = SubSeq(buf, i + 1, Len(buf))
        /\ Take(SubSeq(buf, 1, i - 1))
    /\ UNCHANGED next_index

\* decode: a whole line is buffered; it is split off even if it is not JSON.
DecodeLine ==
    /\ Polled /\ readable /\ ~eof
    /\ \E i \in DOMAIN buf :
        /\ IsFirst(i)
        /\ buf' = SubSeq(buf, i + 1, Len(buf))
        /\ Take(SubSeq(buf, 1, i - 1))
    /\ next_index' = 0

\* decode: no newline; remember how far the search went, and read on.
DecodeNone ==
    /\ Polled /\ readable /\ ~eof
    /\ Searched = {}
    /\ next_index' = Len(buf)
    /\ readable' = FALSE
    /\ UNCHANGED <<input, taken, buf, phase, eof, errored, items, ended>>

\* decode_eof: the unterminated rest is parsed as it is, and stays buffered.
DecodeEof ==
    /\ Polled /\ readable /\ eof
    /\ buf # <<>>
    /\ Take(buf)
    /\ UNCHANGED <<buf, next_index>>

DecodeEofNone ==
    /\ Polled /\ readable /\ eof
    /\ buf = <<>>
    /\ readable' = FALSE /\ ended' = TRUE
    /\ UNCHANGED <<input, taken, buf, next_index, phase, eof, errored, items>>

\* Framed: one read of the socket, of at least one byte, or the end of file.
Read ==
    /\ Polled /\ ~readable
    /\ \E n \in 1 .. Len(input) - taken :
        /\ taken' = taken + n
        /\ buf' = buf \o SubSeq(input, taken + 1, taken + n)
    /\ readable' = TRUE /\ eof' = FALSE
    /\ UNCHANGED <<input, next_index, phase, errored, items, ended>>

ReadEof ==
    /\ Polled /\ ~readable
    /\ taken = Len(input)
    /\ eof' = TRUE /\ readable' = TRUE
    /\ UNCHANGED <<input, taken, buf, next_index, phase, errored, items, ended>>

\* Framed returns None after an error and the consumer stops polling.
EndAfterError ==
    /\ ~ended /\ errored
    /\ ended' = TRUE /\ errored' = FALSE /\ readable' = FALSE
    /\ UNCHANGED <<input, taken, buf, next_index, phase, eof, items>>

\* Mutants: the new Framed starts with an empty buffer, or believes it has
\* nothing to decode before the next read.
SwitchDropsBuffer ==
    /\ phase = "greeting" /\ items # <<>> /\ ~ended /\ ~errored
    /\ phase' = "messages"
    /\ buf' = <<>> /\ next_index' = 0 /\ readable' = FALSE /\ eof' = FALSE
    /\ UNCHANGED <<input, taken, errored, items, ended>>

SwitchUnreadable ==
    /\ phase = "greeting" /\ items # <<>> /\ ~ended /\ ~errored
    /\ phase' = "messages"
    /\ next_index' = 0 /\ readable' = FALSE /\ eof' = FALSE
    /\ UNCHANGED <<input, taken, buf, errored, items, ended>>

\* open_split: after the greeting a new codec takes over what was read.
SwitchCodec ==
    /\ phase = "greeting" /\ items # <<>> /\ ~ended /\ ~errored
    /\ phase' = "messages"
    /\ next_index' = 0 /\ readable' = (buf # <<>>) /\ eof' = FALSE
    /\ UNCHANGED <<input, taken, buf, errored, items, ended>>
-----------------------------------------------------------------------------
Finished ==
    /\ ended \/ Len(items) >= MaxItems
    /\ UNCHANGED vars

Decode == DecodeLine \/ DecodeNone \/ DecodeEof \/ DecodeEofNone

Next ==
    \/ SwitchCodec
    \/ /\ phase = "greeting" => items = <<>>   \* open_split takes one item
       /\ Decode \/ Read \/ ReadEof
    \/ EndAfterError \/ Finished

Spec == Init /\ [][Next]_vars

FairSpec == Spec /\ WF_vars(Next)
-----------------------------------------------------------------------------
\* The codec never skips a newline: everything before next_index has been
\* searched, and next_index stays inside the buffer it slices.
ScanInv ==
    /\ next_index <= Len(buf)
    /\ \A i \in DOMAIN buf : i <= next_index => buf[i] # NL

\* Before Framed asks the socket for more, every complete line it holds has
\* been handed out: what a socket event does not announce is never waited for,
\* also right after the change of codec.
NoBufferedLine ==
    ~readable /\ ~ended => \A i \in DOMAIN buf : buf[i] # NL

\* A stream in itself, without a buffer.  How many lines end in its first p
\* bytes; that the k-th of them ends at p (the first one starts after 0);
\* that s is the k-th line; that s is what follows the last newline.
Newlines(stream, p) == Cardinality({i \in 1 .. p : stream[i] = NL})

LineEnd(stream, k, p) ==
    (p = 0 \/ stream[p] = NL) /\ Newlines(stream, p) = k

IsLine(stream, k, s) ==
    \E q, p \in 0 .. Len(stream) :
      /\ q < p /\ LineEnd(stream, k - 1, q) /\ LineEnd(stream, k, p)
      /\ s = SubSeq(stream, q + 1, p - 1)

IsRest(stream, s) ==
    \E q \in 0 .. Len(stream) :
      /\ LineEnd(stream, Newlines(stream, Len(stream)), q)
      /\ s = SubSeq(stream, q + 1, Len(stream))

\* The k-th item is the k-th line of what the server wrote, whole and
\* unchanged, whatever the sizes of the reads and across the change of codec;
\* only after the last newline, and only once the server has closed, is it
\* what is left over.
DeliveredInOrder ==
    \A k \in DOMAIN items :
      \/ IsLine(input, k, items[k].line)
      \/ /\ k > Newlines(input, Len(input)) /\ taken = Len(input)
         /\ IsRest(input, items[k].line)
=============================================================================
