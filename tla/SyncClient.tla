----------------------------- MODULE SyncClient -----------------------------
(***************************************************************************)
(* The synchronous client of qapi/src/lib.rs: Qapi's line buffer, Qmp with *)
(* its queue of events, Qga with guest_sync, on a blocking stream whose    *)
(* reads and writes may fail or time out half way.  Answers carry no id:   *)
(* the n-th answer is taken for the n-th command, so what can go wrong is  *)
(* that the stream and the caller fall out of step.                        *)
(*                                                                         *)
(* Commands are numbered in the order they are issued and an answer says   *)
(* which one it is to; the program cannot see that number.                 *)
(***************************************************************************)
EXTENDS Naturals, Sequences

CONSTANTS
    Protocols,   \* "qmp" and "qga": what the stream may be
    Values,      \* the values a program passes to guest_sync
    Returned,    \* those of them that other commands return as well
    NoValue,     \* what ordinary commands send, and return but for Returned
    MaxCalls,    \* bound on the commands issued
    MaxEvents,   \* bound on the events the server emits
    MaxFaults,   \* bound on the faults
    Faults       \* what may go wrong, see Fault

Fault == {"write",    \* a write or flush fails, at any point of the line
          "short",    \* write() takes none of the newline and says Ok(0)
          "read",     \* a read fails or times out, at any point of a line
          "unknown",  \* the server sends a line the schema does not know
          "restart",  \* a new client takes over the Guest Agent's channel
          "close"}    \* the server closes the connection

ASSUME SyncAssumption ==
    /\ Protocols \subseteq {"qmp", "qga"}
    /\ NoValue \notin Values /\ Returned \subseteq Values
    /\ MaxCalls \in Nat /\ MaxEvents \in Nat /\ MaxFaults \in Nat
    /\ Faults \subseteq Fault

VARIABLES
    proto,        \* Qmp or Qga
    pc,           \* where the one thread of the program is
    cur,          \* the number of the last command
    val,          \* the value it passes to guest_sync, or NoValue
    outline,      \* what the current line to the server holds so far
    requests,     \* lines the server has received and not answered
    inbox,        \* lines the server has written and nobody has read
    torn,         \* the start of the first of them has been read and lost
    closed,       \* the server closed the connection
    event_queue,  \* Qmp.event_queue
    drained,      \* what events() has handed out
    sent,         \* how many events the server has sent
    result,       \* what the last call returned
    \* Recorded for the properties, unknown to the program:
    used,         \* values passed to guest_sync before
    fresh,        \* val was not among them, and no other command returns it
    trusted,      \* no fault since the start, or since a fresh guest_sync
    lost,         \* events in lines that a failed read has torn
    faults        \* how many faults there were

server == <<requests, closed, sent>>
events == <<event_queue, drained, lost>>
ghosts == <<used, fresh>>
vars   == <<proto, pc, cur, val, outline, server, inbox, torn, events,
            result, ghosts, trusted, faults>>

Answers == {"reply", "error"}
Message == [kind : Answers \cup {"greeting", "event", "unknown"},
            of : Nat, val : Values \cup {NoValue}, seen : Nat]
Request == [of : Nat, val : Values \cup {NoValue}, whole : BOOLEAN]
Result  == [kind : {"none", "ok", "error", "io", "mismatch", "eof"},
            of : Nat, seen : Nat]

TypeOK ==
    /\ proto \in Protocols
    /\ pc \in {"new", "greeting", "idle", "writing", "reading", "panicked"}
    /\ cur \in Nat /\ val \in Values \cup {NoValue}
    /\ outline \in Seq({"whole", "part"})
    /\ requests \in Seq(Request) /\ inbox \in Seq(Message)
    /\ torn \in BOOLEAN /\ closed \in BOOLEAN
    /\ event_queue \in Seq(Nat) /\ drained \in Seq(Nat) /\ sent \in Nat
    /\ result \in Result
    /\ used \subseteq Values /\ fresh \in BOOLEAN /\ trusted \in BOOLEAN
    /\ lost \subseteq Nat /\ faults \in Nat

Msg(k, n, v, s) == [kind |-> k, of |-> n, val |-> v, seen |-> s]
Res(k, n, s)    == [kind |-> k, of |-> n, seen |-> s]

Init ==
    /\ proto \in Protocols
    /\ pc = IF proto = "qmp" THEN "new" ELSE "idle"
    /\ cur = 0 /\ val = NoValue
    /\ outline = <<>> /\ requests = <<>>
    /\ inbox = IF proto = "qmp" THEN <<Msg("greeting", 0, NoValue, 0)>>
                                ELSE <<>>
    /\ torn = FALSE /\ closed = FALSE
    /\ event_queue = <<>> /\ drained = <<>> /\ sent = 0
    /\ result = Res("none", 0, 0)
    /\ used = {} /\ fresh = FALSE /\ trusted = TRUE
    /\ lost = {} /\ faults = 0

Fails(f) == f \in Faults /\ faults < MaxFaults /\ faults' = faults + 1
-----------------------------------------------------------------------------
(* Writing. *)

\* A call starts: the next command, with its value if it is a guest_sync.
Start(v) ==
    /\ cur < MaxCalls
    /\ cur' = cur + 1 /\ val' = v
    /\ fresh' = (v \notin used \cup Returned)
    /\ used' = used \cup ({v} \ {NoValue})

\* Qmp::execute, nop and Qga::execute with NoValue, Qga::guest_sync else.
Execute(v) ==
    /\ pc = "idle"
    /\ proto = "qmp" => v = NoValue
    /\ Start(v)
    /\ pc' = "writing"
    /\ UNCHANGED <<proto, outline, server, inbox, torn, events, result,
                   trusted, faults>>

\* Mutant: no newline is written, the line stays open.
EndOfLineForgotten(parts) ==
    outline' = parts /\ UNCHANGED requests

\* The newline ends the line; the server can parse it if it is one command.
EndOfLine(parts) ==
    /\ outline' = <<>>
    /\ requests' = IF closed THEN requests
                   ELSE Append(requests, [of |-> cur, val |-> val,
                                          whole |-> (parts = <<"whole">>)])

\* encode_line: the command, a newline, a flush.
WriteCommand ==
    /\ pc = "writing"
    /\ EndOfLine(Append(outline, "whole"))
    /\ pc' = "reading"
    /\ UNCHANGED <<proto, cur, val, inbox, torn, closed, events, sent,
                   result, ghosts, trusted, faults>>

\* encode_line fails before the command, in it, at the newline or at the
\* flush; what was written stays in the stream.
WriteFails ==
    /\ pc = "writing" /\ Fails("write")
    /\ \/ UNCHANGED <<outline, requests>>
       \/ \E p \in {"part", "whole"} :
            outline' = Append(outline, p) /\ UNCHANGED requests
       \/ EndOfLine(Append(outline, "whole"))
    /\ pc' = "idle" /\ result' = Res("io", cur, 0) /\ trusted' = FALSE
    /\ UNCHANGED <<proto, cur, val, inbox, torn, closed, events, sent, ghosts>>

\* encode_line calls write, not write_all, for the newline.
WriteShort ==
    /\ pc = "writing" /\ Fails("short")
    /\ outline' = Append(outline, "whole")
    /\ pc' = "reading" /\ trusted' = FALSE
    /\ UNCHANGED <<proto, cur, val, server, inbox, torn, events, result,
                   ghosts>>
-----------------------------------------------------------------------------
(* Reading. *)

\* decode_line took the first line, whatever was left of it.
TakeLine == inbox' = Tail(inbox) /\ torn' = FALSE

Intact(kinds) == inbox # <<>> /\ ~torn /\ Head(inbox).kind \in kinds

\* Both handshake and read_response leave with a value or an error.
Return(where, r) ==
    /\ pc' = where /\ result' = r
    /\ UNCHANGED <<proto, cur, val, outline, server, ghosts>>

\* Mutant: an event met while an answer is awaited is not kept.
ReadEventDropped ==
    /\ pc = "reading" /\ proto = "qmp" /\ Intact({"event"})
    /\ TakeLine
    /\ UNCHANGED <<proto, pc, cur, val, outline, server, drained, lost, result,
                   event_queue, ghosts, trusted, faults>>

\* read_response keeps an event for events() and reads on.
ReadEvent ==
    /\ pc = "reading" /\ proto = "qmp" /\ Intact({"event"})
    /\ TakeLine
    /\ event_queue' = Append(event_queue, Head(inbox).of)
    /\ UNCHANGED <<proto, pc, cur, val, outline, server, drained, lost, result,
                   ghosts, trusted, faults>>

\* An answer to another command may not decode as the type the caller asks
\* for; an integer always does if the caller is guest_sync.
OfOtherType(m) == m.of # cur /\ (val = NoValue \/ m.val = NoValue)

\* Mutant: guest_sync does not compare the values.
ValueMatchesUnchecked(m) == TRUE

\* guest_sync: the value came back.  Other calls compare nothing.
ValueMatches(m) == val = NoValue \/ m.val = val

\* Mutant: an error object is no reason to stop reading.
ReadAnswerSkipsErrors ==
    /\ pc = "reading" /\ Intact(Answers)
    /\ IF Head(inbox).kind = "error"
       THEN UNCHANGED <<proto, pc, cur, val, outline, server, ghosts, result>>
       ELSE Return("idle", Res(IF ValueMatches(Head(inbox)) THEN "ok"
                               ELSE "mismatch",
                               Head(inbox).of, Head(inbox).seen))
    /\ TakeLine
    /\ trusted' = (trusted \/ (result'.kind = "ok" /\ val # NoValue /\ fresh))
    /\ UNCHANGED <<events, faults>>

\* The first answer in the stream is returned, whichever command it is to.
ReadAnswer ==
    /\ pc = "reading" /\ Intact(Answers)
    /\ \/ /\ Head(inbox).kind = "error"
          /\ Return("idle", Res("error", Head(inbox).of, Head(inbox).seen))
       \/ /\ Head(inbox).kind = "reply"
          /\ Return("idle", Res(IF ValueMatches(Head(inbox)) THEN "ok"
                                ELSE "mismatch",
                                Head(inbox).of, Head(inbox).seen))
    /\ TakeLine
    /\ trusted' = (trusted \/ (result'.kind = "ok" /\ val # NoValue /\ fresh))
    /\ UNCHANGED <<events, faults>>

\* A line that is torn, unknown, or of another type does not decode.
ReadGarbled ==
    /\ pc = "reading" /\ inbox # <<>>
    /\ \/ torn
       \/ Head(inbox).kind \in {"greeting", "unknown"}
       \/ Head(inbox).kind = "event" /\ proto = "qga"
       \/ Head(inbox).kind = "reply" /\ OfOtherType(Head(inbox))
    /\ TakeLine
    /\ Return("idle", Res("io", cur, 0)) /\ trusted' = FALSE
    /\ lost' = IF Head(inbox).kind = "event" THEN lost \cup {Head(inbox).of}
                                             ELSE lost
    /\ UNCHANGED <<event_queue, drained, faults>>

ReadEof ==
    /\ pc = "reading" /\ inbox = <<>> /\ closed
    /\ Return("idle", Res("eof", cur, 0))
    /\ UNCHANGED <<inbox, torn, events, trusted, faults>>

\* decode_line clears its buffer when it is called again: the part of a line
\* read before the failure is gone, all but the newline at most.
ReadFails ==
    /\ pc \in {"reading", "greeting"} /\ Fails("read")
    /\ torn' \in {torn, inbox # <<>>}
    /\ Return(IF pc = "reading" THEN "idle" ELSE "new", Res("io", cur, 0))
    /\ trusted' = FALSE
    /\ UNCHANGED <<inbox, events>>
-----------------------------------------------------------------------------
(* The handshake of QMP, and the queue of events. *)

Handshake ==
    /\ pc = "new" /\ pc' = "greeting"
    /\ UNCHANGED <<proto, cur, val, outline, server, inbox, torn, events,
                   result, ghosts, trusted, faults>>

\* read_capabilities, then qmp_capabilities is executed.
ReadGreeting ==
    /\ pc = "greeting" /\ Intact({"greeting"})
    /\ TakeLine
    /\ Start(NoValue)
    /\ pc' = "writing"
    /\ UNCHANGED <<proto, outline, server, events, result, trusted, faults>>

GreetingGarbled ==
    /\ pc = "greeting" /\ inbox # <<>> /\ ~Intact({"greeting"})
    /\ TakeLine
    /\ Return("new", Res("io", cur, 0)) /\ trusted' = FALSE
    /\ lost' = IF Head(inbox).kind = "event" THEN lost \cup {Head(inbox).of}
                                             ELSE lost
    /\ UNCHANGED <<event_queue, drained, faults>>

\* expect("unexpected eof").
GreetingEof ==
    /\ pc = "greeting" /\ inbox = <<>> /\ closed
    /\ Return("panicked", result)
    /\ UNCHANGED <<inbox, torn, events, trusted, faults>>

\* Mutant: the events handed out stay queued.
DrainEventsCopies ==
    /\ pc = "idle" /\ event_queue # <<>>
    /\ drained' = drained \o event_queue
    /\ Len(drained) <= MaxEvents
    /\ UNCHANGED <<proto, pc, cur, val, outline, server, inbox, torn, lost,
                   event_queue, result, ghosts, trusted, faults>>

DrainEvents ==
    /\ pc = "idle" /\ event_queue # <<>>
    /\ drained' = drained \o event_queue /\ event_queue' = <<>>
    /\ UNCHANGED <<proto, pc, cur, val, outline, server, inbox, torn, lost,
                   result, ghosts, trusted, faults>>
-----------------------------------------------------------------------------
(* Outside the library. *)

Send(m) ==
    /\ ~closed
    /\ inbox' = Append(inbox, m)
    /\ UNCHANGED <<proto, pc, cur, val, outline, closed, torn, events, result,
                   ghosts, trusted>>

\* guest-sync returns its value, other commands of the Guest Agent return an
\* integer as well (a handle, a count, a time) or something else.
Returns(r) == IF proto = "qga" /\ r.val = NoValue
              THEN Returned \cup {NoValue} ELSE {r.val}

\* The server answers line by line, a line it cannot parse with an error.
ServerRespond ==
    /\ requests # <<>> /\ requests' = Tail(requests)
    /\ \E k \in Answers, v \in Returns(Head(requests)) :
        /\ k = "reply" => Head(requests).whole
        /\ Send(Msg(k, Head(requests).of, v, sent))
    /\ UNCHANGED <<sent, faults>>

ServerEvent ==
    /\ proto = "qmp" /\ cur > 0 /\ sent < MaxEvents
    /\ sent' = sent + 1
    /\ Send(Msg("event", sent', NoValue, 0))
    /\ UNCHANGED <<requests, faults>>

ServerUnknown ==
    /\ cur > 0 /\ Fails("unknown")
    /\ Send(Msg("unknown", 0, NoValue, 0))
    /\ UNCHANGED <<requests, sent>>

ServerClose ==
    /\ ~closed /\ Fails("close")
    /\ closed' = TRUE /\ requests' = <<>>
    /\ UNCHANGED <<proto, pc, cur, val, outline, sent, inbox, torn,
                   events, result, ghosts, trusted>>

\* The channel of the Guest Agent outlives its client: what the old one had
\* read ahead is gone, the answers to its commands are not.
Restart ==
    /\ proto = "qga" /\ Fails("restart")
    /\ \E n \in 0 .. Len(inbox) :
        /\ inbox' = SubSeq(inbox, n + 1, Len(inbox))
        /\ torn' \in {torn /\ n = 0, n < Len(inbox)}
    /\ pc' = "idle" /\ result' = Res("none", cur, 0) /\ trusted' = FALSE
    /\ UNCHANGED <<proto, cur, val, outline, server, events, ghosts>>

\* The program may stop, and may block for ever on a stream that is silent.
Finished ==
    /\ \/ pc = "panicked"
       \/ pc = "idle" /\ cur >= MaxCalls
       \/ pc \in {"reading", "greeting"} /\ inbox = <<>>
    /\ UNCHANGED vars
-----------------------------------------------------------------------------
Client ==
    \/ \E v \in Values \cup {NoValue} : Execute(v)
    \/ WriteCommand \/ WriteFails \/ WriteShort
    \/ ReadEvent \/ ReadAnswer \/ ReadGarbled \/ ReadEof \/ ReadFails
    \/ Handshake \/ ReadGreeting \/ GreetingGarbled \/ GreetingEof
    \/ DrainEvents \/ Restart

Server == ServerRespond \/ ServerEvent \/ ServerUnknown \/ ServerClose

Next == Client \/ Server \/ Finished

Spec == Init /\ [][Next]_vars

\* The thread of the program runs, and the server answers what it received.
Fairness ==
    /\ WF_vars(WriteCommand)
    /\ WF_vars(ReadEvent \/ ReadAnswer \/ ReadGarbled \/ ReadEof)
    /\ WF_vars(ServerRespond)

FairSpec == Spec /\ Fairness
-----------------------------------------------------------------------------
\* The answers still to come, in the stream or at the server, are in the
\* order of the commands and to commands that were issued.
AnswersOrdered ==
    /\ \A i \in DOMAIN inbox : inbox[i].kind \in Answers =>
        /\ inbox[i].of <= cur
        /\ \A j \in DOMAIN inbox : inbox[j].kind \in Answers /\ i < j =>
               inbox[i].of < inbox[j].of
        /\ \A j \in DOMAIN requests : inbox[i].of < requests[j].of
    /\ \A i \in DOMAIN requests :
        /\ requests[i].of <= cur
        /\ \A j \in DOMAIN requests : i < j => requests[i].of < requests[j].of
    /\ pc = "writing" =>
        /\ \A i \in DOMAIN inbox :
               inbox[i].kind \in Answers => inbox[i].of < cur
        /\ \A i \in DOMAIN requests : requests[i].of < cur

\* In step: nothing is half written or half read, and the one answer that is
\* to come, if any, is to the call that waits for it.
InStep ==
    trusted =>
        /\ outline = <<>> /\ ~torn
        /\ \A i \in DOMAIN requests : pc = "reading" /\ requests[i].of = cur
                                      /\ requests[i].whole
        /\ \A i \in DOMAIN inbox : inbox[i].kind \in Answers =>
                pc = "reading" /\ inbox[i].of = cur

\* As long as nothing failed, and again once a guest_sync has succeeded with
\* a value that was not used before and that no other command returns, a call
\* returns the answer to itself.  Without either half of that condition it
\* may not: guest_sync takes the answer to a guest-file-open that timed out
\* for its own if the handle is the value it sent.
OwnAnswer ==
    trusted /\ result.kind \in {"ok", "error", "mismatch"} =>
        result.of = IF pc \in {"writing", "reading"} THEN cur - 1 ELSE cur

\* Nobody waits for an answer that will not come: while nothing has failed a
\* call that reads has its request at the server or its answer on the way,
\* or will see the end of the stream.
AnswerComes ==
    trusted /\ pc = "reading" =>
        \/ closed \/ requests # <<>>
        \/ \E i \in DOMAIN inbox : inbox[i].kind \in Answers

\* The events read so far, and the lines of events still to be read.
Had == drained \o event_queue
EventLines == {i \in DOMAIN inbox : inbox[i].kind = "event"}

\* No event is handed out twice, out of order, or missing but for a read that
\* failed: what events() returned, then what is queued, then what is unread
\* are in the order the server sent them in, and they are all of the events
\* it sent but the lost ones.
EventsInOrder ==
    /\ \A i, j \in DOMAIN Had : i < j => Had[i] < Had[j]
    /\ \A i, j \in EventLines : i < j => inbox[i].of < inbox[j].of
    /\ \A i \in DOMAIN Had, j \in EventLines : Had[i] < inbox[j].of
    /\ {Had[i] : i \in DOMAIN Had} \cup {inbox[j].of : j \in EventLines}
         = (1 .. sent) \ lost
    /\ lost \subseteq 1 .. sent

\* An event that was handed out, is queued, or was lost with a torn line.
Known(e) == \/ e \in lost
            \/ \E i \in DOMAIN drained : drained[i] = e
            \/ \E i \in DOMAIN event_queue : event_queue[i] = e

\* "Can be used to poll the socket for pending events": when a call returns
\* an answer, every event the server sent before that answer is queued.
NopPollsEvents ==
    result.kind \in {"ok", "error"} => \A e \in 1 .. result.seen : Known(e)

\* A call on a stream that is in step returns, if the server answers.
ExecuteReturns ==
    pc \in {"writing", "reading"} /\ trusted
        ~> pc \notin {"writing", "reading"} \/ ~trusted
-----------------------------------------------------------------------------
(* The inductive invariant.                                                  *)

Waiting == pc \in {"writing", "reading"}

\* A value that comes back was passed before or is one that other commands
\* return, and if it is neither it comes back to this call.
ValueOfCall(m) ==
    /\ m.val \in used \cup Returned \cup {NoValue}
    /\ Waiting /\ fresh /\ val # NoValue /\ m.val = val => m.of = cur

ValuesInv ==
    /\ \A i \in DOMAIN inbox : ValueOfCall(inbox[i])
    /\ \A i \in DOMAIN requests : ValueOfCall(requests[i])
    /\ Waiting => val \in used \cup {NoValue}
    /\ Waiting /\ fresh => val \notin Returned

\* A command whose line is still open when its answer is awaited has not
\* reached the server; a closed connection carries no command.
OutlineInv ==
    /\ closed => requests = <<>>
    /\ pc = "reading" /\ outline # <<>> =>
        /\ \A i \in DOMAIN inbox :
               inbox[i].kind \in Answers => inbox[i].of < cur
        /\ \A i \in DOMAIN requests : requests[i].of < cur

\* One of the first n lines to be read is the event e.
Unread(e, n) ==
    \E i \in DOMAIN inbox : i <= n /\ inbox[i].kind = "event"
                                   /\ inbox[i].of = e

\* The events that were sent before an answer are read before it.
SeenInv ==
    /\ proto = "qga" => sent = 0
    /\ \A e \in 1 .. sent : Known(e) \/ Unread(e, Len(inbox))
    /\ \A i \in DOMAIN inbox : inbox[i].kind \in Answers =>
        /\ inbox[i].seen <= sent
        /\ \A e \in 1 .. inbox[i].seen : Known(e) \/ Unread(e, i - 1)

IInv == /\ TypeOK /\ AnswersOrdered /\ ValuesInv /\ OutlineInv /\ InStep
        /\ OwnAnswer /\ AnswerComes /\ SeenInv /\ NopPollsEvents
        /\ EventsInOrder
=============================================================================
