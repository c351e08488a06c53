---------------------------- MODULE QapiFutures ----------------------------
(***************************************************************************)
(* The asynchronous client of qapi/src/futures/mod.rs: the command side    *)
(* (QapiService, whose `execute` futures run in any number of tasks), the  *)
(* receiving side (QapiEvents, polled by a spawned task or by the user as  *)
(* a stream of events), and the QapiShared record between them.            *)
(*                                                                         *)
(* A step ends where another thread or task can see the difference: at an  *)
(* await, when the std mutex around `commands` is released, and around     *)
(* each access to the atomics, which are read outside that mutex.  The     *)
(* socket, the Framed adapter and the server are external.                 *)
(***************************************************************************)
EXTENDS Naturals, Sequences

CONSTANTS
    Calls,        \* the `execute` futures the program will create
    NoCall,       \* "no future": a free lock, an empty map entry, no reply
    Stray,        \* what a message is about when it answers no call
    NoId,         \* a message without an "id" member
    SupportsOob,  \* the greeting announced out-of-band execution
    IdModulus,    \* ids are truncated to u32: 2^32 in the program
    MaxUnasked,   \* bound on what the server sends unasked
    Faults,       \* what may go wrong, see Fault
    Uses          \* how QapiEvents is driven, see Use

Fault == {"cancel",  \* the program drops an `execute` future (a timeout)
          "send",    \* writing to the socket fails
          "event",   \* the server emits events
          "bad",     \* the server emits a line that does not decode
          "stray",   \* the server emits a response nobody asked for
          "close",   \* the server closes the connection
          "abort"}   \* the event loop's task is aborted

Use == {"spawn",     \* `spawn`/`spawn_tokio`: a task runs into_future
        "stream"}    \* the owner iterates over the events

Ids == 0 .. IdModulus - 1

ASSUME ConstantsAssumption ==
    /\ NoCall \notin Calls
    /\ Stray \notin Calls
    /\ NoCall # Stray
    /\ SupportsOob \in BOOLEAN
    /\ IdModulus \in Nat \ {0}
    /\ NoId \notin Ids
    /\ MaxUnasked \in Nat
    /\ Faults \subseteq Fault
    /\ Uses \subseteq Use

VARIABLES
    svc,        \* QapiService: "held", its Drop ("waking", "marking"), "dropped"
    nextId,     \* id_counter
    writeLock,  \* the call holding the async mutex around the sink
    pc,         \* where each `execute` future is
    id,         \* the key of each call in the command map
    got,        \* the oneshot channel: whose answer was sent to the call
    pending,    \* commands.pending: the call whose sender is stored
    abandoned,  \* commands.abandoned
    poisoned,   \* a thread panicked while it held the commands mutex
    aborted,    \* a panic during unwinding aborted the process
    stop,       \* QapiShared.stop
    released,   \* QapiShared.abandoned: the event loop runs on its own
    stopWaker,  \* stop_waker holds the event loop's waker
    ev,         \* where QapiEvents is
    mode,       \* "future" (into_future) or "stream"
    woken,      \* the task polling QapiEvents is scheduled
    failed,     \* QapiEvents has returned an error
    outbuf,     \* calls whose command is in the write buffer
    requests,   \* calls whose command the server has not answered
    answered,   \* calls the server answered
    inbox,      \* messages written by the server, not yet read
    eof,        \* the server closed the connection
    armed,      \* the socket holds the waker of the last empty read
    errored,    \* Framed returned an error: the next item is None
    unasked     \* messages the server sent unasked

calls    == <<pc, id, got, writeLock>>
commands == <<pending, abandoned, poisoned>>
signal   == <<stop, released, stopWaker>>
loop     == <<ev, mode, failed>>
output   == <<outbuf, requests, answered>>
input    == <<inbox, eof, armed, errored, unasked>>
vars     == <<svc, nextId, calls, commands, aborted, signal, loop, woken,
              output, input>>

Message == [kind : {"reply", "event", "bad"},
            id : Ids \cup {NoId}, call : Calls \cup {Stray}]

Ended    == {"replied", "disconnected", "ioerror", "cancelled", "panicked"}
Inserted == {"sending", "flushing", "waiting"}
Polling  == {"check", "read", "register", "recheck"}

\* The receiver of c's oneshot channel exists.
Live(c) == pc[c] \in Inserted

\* Mutant: stop() and release() do not exclude each other.
CommandsLockedNever == FALSE

\* QapiService::stop runs with the commands mutex held.
CommandsLocked == svc \in {"waking", "marking"}

CallsOK ==
    /\ svc \in {"held", "waking", "marking", "dropped"}
    /\ nextId \in Nat
    /\ writeLock \in Calls \cup {NoCall}
    /\ pc \in [Calls -> {"new", "created"} \cup Inserted \cup Ended]
    /\ id \in [Calls -> Ids]
    /\ got \in [Calls -> Calls \cup {NoCall, Stray}]

CommandsOK ==
    /\ pending \in [Ids -> Calls \cup {NoCall}]
    /\ abandoned \in BOOLEAN /\ poisoned \in BOOLEAN /\ aborted \in BOOLEAN

LoopOK ==
    /\ stop \in BOOLEAN /\ released \in BOOLEAN /\ stopWaker \in BOOLEAN
    /\ ev \in {"held", "spawned", "idle", "dropping", "gone"} \cup Polling
    /\ mode \in {"future", "stream"}
    /\ woken \in BOOLEAN /\ failed \in BOOLEAN

WireOK ==
    /\ outbuf \in Seq(Calls)
    /\ requests \subseteq Calls
    /\ answered \subseteq Calls
    /\ inbox \in Seq(Message)
    /\ eof \in BOOLEAN /\ armed \in BOOLEAN /\ errored \in BOOLEAN
    /\ unasked \in Nat

TypeOK == CallsOK /\ CommandsOK /\ LoopOK /\ WireOK

Init ==
    /\ svc = "held" /\ nextId = 0 /\ writeLock = NoCall
    /\ pc = [c \in Calls |-> "new"]
    /\ id = [c \in Calls |-> 0]
    /\ got = [c \in Calls |-> NoCall]
    /\ pending = [k \in Ids |-> NoCall]
    /\ abandoned = FALSE /\ poisoned = FALSE /\ aborted = FALSE
    /\ stop = FALSE /\ released = FALSE /\ stopWaker = FALSE
    /\ ev = "held" /\ mode = "stream" /\ woken = FALSE /\ failed = FALSE
    /\ outbuf = <<>> /\ requests = {} /\ answered = {}
    /\ inbox = <<>> /\ eof = FALSE /\ armed = FALSE /\ errored = FALSE
    /\ unasked = 0
-----------------------------------------------------------------------------
(* QapiService::execute.  The id is taken when the method is called, the  *)
(* rest happens when the future is polled.                                *)

Become(c, state) == pc' = [pc EXCEPT ![c] = state]

Unlock(c) == writeLock' = IF writeLock = c THEN NoCall ELSE writeLock

\* Mutants: the counter is not advanced; the id keeps the counter's width.
CommandIdRepeated(c) ==
    /\ id' = [id EXCEPT ![c] = IF SupportsOob THEN nextId % IdModulus ELSE 0]
    /\ UNCHANGED nextId

CommandIdUntruncated(c) ==
    /\ id' = [id EXCEPT ![c] = IF SupportsOob THEN nextId ELSE 0]
    /\ nextId' = nextId + 1

CommandId(c) ==
    IF SupportsOob
    THEN /\ id' = [id EXCEPT ![c] = nextId % IdModulus]
         /\ nextId' = nextId + 1
    ELSE UNCHANGED <<id, nextId>>        \* id.unwrap_or_default(): key 0

Execute(c) ==
    /\ svc = "held" /\ pc[c] = "new"
    /\ CommandId(c)
    /\ Become(c, "created")
    /\ UNCHANGED <<svc, got, writeLock, commands, aborted, signal, loop,
                   woken, output, input>>

\* Mutant: the entry is replaced without a word.
DuplicateIdUnchecked(c) == FALSE

DuplicateId(c) == ~abandoned /\ pending[id[c]] # NoCall

CommandInsert(c) ==
    /\ pc[c] = "created" /\ writeLock = NoCall /\ ~CommandsLocked
    /\ ~poisoned /\ ~DuplicateId(c)
    /\ pending' = IF abandoned THEN pending
                  ELSE [pending EXCEPT ![id[c]] = c]
    /\ writeLock' = c
    /\ Become(c, "sending")
    /\ UNCHANGED <<svc, nextId, id, got, abandoned, poisoned, aborted, signal,
                   loop, woken, output, input>>

\* The duplicate has replaced the earlier sender when the code panics.  The
\* unwinding task aborts the process if it also owns the QapiService, whose
\* Drop panics on the poisoned mutex.
CommandInsertPanic(c) ==
    /\ pc[c] = "created" /\ writeLock = NoCall /\ ~CommandsLocked
    /\ poisoned \/ DuplicateId(c)
    /\ pending' = IF poisoned THEN pending
                  ELSE [pending EXCEPT ![id[c]] = c]
    /\ poisoned' = TRUE
    /\ Become(c, "panicked")
    /\ aborted' \in {FALSE, svc = "held"}
    /\ UNCHANGED <<svc, nextId, id, got, writeLock, abandoned, signal, loop,
                   woken, output, input>>

SendFeed(c) ==
    /\ pc[c] = "sending"
    /\ outbuf' = Append(outbuf, c)
    /\ Become(c, "flushing")
    /\ UNCHANGED <<svc, nextId, id, got, writeLock, commands, aborted, signal,
                   loop, woken, requests, answered, input>>

\* A flush writes the buffer in order, the commands of cancelled calls too.
SendWrite ==
    /\ outbuf # <<>>
    /\ \E c \in Calls : writeLock = c /\ pc[c] \in {"sending", "flushing"}
    /\ outbuf' = Tail(outbuf)
    /\ requests' = requests \cup {Head(outbuf)}
    /\ UNCHANGED <<svc, nextId, calls, commands, aborted, signal, loop, woken,
                   answered, input>>

\* Mutant: the sink guard is dropped after every send.
SendDoneUnlocks(c) ==
    /\ pc[c] = "flushing" /\ outbuf = <<>>
    /\ Become(c, "waiting")
    /\ Unlock(c)
    /\ UNCHANGED <<svc, nextId, id, got, commands, aborted, signal, loop,
                   woken, output, input>>

\* Without ids the guard of the sink lives until the answer is received.
SendDone(c) ==
    /\ pc[c] = "flushing" /\ outbuf = <<>>
    /\ Become(c, "waiting")
    /\ IF SupportsOob THEN Unlock(c) ELSE UNCHANGED writeLock
    /\ UNCHANGED <<svc, nextId, id, got, commands, aborted, signal, loop,
                   woken, output, input>>

\* Mutant: a future that ends takes its map entry with it.
FinishForgets(c, outcome) ==
    /\ Become(c, outcome)
    /\ Unlock(c)
    /\ pending' = [k \in Ids |-> IF pending[k] = c THEN NoCall ELSE pending[k]]
    /\ UNCHANGED <<svc, nextId, id, got, abandoned, poisoned, aborted, signal,
                   loop, woken, output, input>>

\* Ends the future with the guard released and the map entry left behind.
Finish(c, outcome) ==
    /\ Become(c, outcome)
    /\ Unlock(c)
    /\ UNCHANGED <<svc, nextId, id, got, commands, aborted, signal, loop,
                   woken, output, input>>

\* `send` waits before it encodes only to flush what earlier calls left.
Backpressure(c) == pc[c] = "sending" /\ outbuf # <<>>

SendFail(c) ==
    /\ "send" \in Faults \/ eof
    /\ pc[c] = "flushing" \/ Backpressure(c)
    /\ Finish(c, "ioerror")

ReceiveReply(c) ==
    /\ pc[c] = "waiting" /\ got[c] # NoCall
    /\ Finish(c, "replied")

\* The sender is gone without a value: it is no longer in the map.
ReceiveCanceled(c) ==
    /\ pc[c] = "waiting" /\ got[c] = NoCall /\ pending[id[c]] # c
    /\ Finish(c, "disconnected")

\* The program drops the future at one of its awaits.
Cancel(c) ==
    /\ "cancel" \in Faults
    /\ pc[c] \in {"created", "flushing", "waiting"} \/ Backpressure(c)
    /\ Finish(c, "cancelled")
-----------------------------------------------------------------------------
(* Drop of QapiService: stop(), under the commands mutex. *)

ServiceStopPoisoned ==
    /\ svc = "held" /\ poisoned
    /\ svc' = "dropped"
    /\ UNCHANGED <<nextId, calls, commands, aborted, signal, loop, woken,
                   output, input>>

\* Mutant: stop() does not ask whether the loop was released.
ServiceStopAlways ==
    /\ svc = "held" /\ ~poisoned
    /\ svc' = "waking" /\ stop' = TRUE
    /\ UNCHANGED <<nextId, calls, commands, aborted, released, stopWaker, loop,
                   woken, output, input>>

ServiceStop ==
    /\ svc = "held" /\ ~poisoned
    /\ IF released THEN svc' = "waking" /\ stop' = TRUE
                   ELSE svc' = "marking" /\ UNCHANGED stop
    /\ UNCHANGED <<nextId, calls, commands, aborted, released, stopWaker, loop,
                   woken, output, input>>

\* Mutant: stop() sets the flag and wakes nobody.
ServiceWakeNobody ==
    /\ svc = "waking"
    /\ svc' = "marking"
    /\ UNCHANGED <<nextId, calls, commands, aborted, signal, loop, woken,
                   output, input>>

ServiceWake ==
    /\ svc = "waking"
    /\ svc' = "marking"
    /\ stopWaker' = FALSE
    /\ woken' = (woken \/ stopWaker)
    /\ UNCHANGED <<nextId, calls, commands, aborted, stop, released, loop,
                   output, input>>

ServiceAbandon ==
    /\ svc = "marking"
    /\ svc' = "dropped"
    /\ abandoned' = TRUE
    /\ UNCHANGED <<nextId, calls, pending, poisoned, aborted, signal, loop,
                   woken, output, input>>
-----------------------------------------------------------------------------
(* QapiEvents: who polls it. *)

EventsGoto(state) ==
    /\ ev' = state
    /\ UNCHANGED <<svc, nextId, calls, commands, aborted, signal, mode, failed,
                   woken, output, input>>

Spawn ==
    /\ "spawn" \in Uses /\ ev = "held"
    /\ ev' = "spawned" /\ mode' = "future"
    /\ UNCHANGED <<svc, nextId, calls, commands, aborted, signal, failed,
                   woken, output, input>>

\* release(), by the owner or at the first poll of into_future, which returns
\* at once when the service is already gone.
Release ==
    /\ \/ ev = "spawned"
       \/ ev = "held" /\ "stream" \in Uses
    /\ ~CommandsLocked /\ ~poisoned
    /\ released' = (released \/ ~abandoned)
    /\ ev' = IF ev = "held" THEN "held"
             ELSE IF abandoned THEN "dropping" ELSE "check"
    /\ UNCHANGED <<svc, nextId, calls, commands, aborted, stop, stopWaker,
                   mode, failed, woken, output, input>>

\* unwrap() on the poisoned mutex; QapiEvents is dropped by the unwinding and
\* its own unwrap() panics again.
EventsPanic ==
    /\ aborted' = TRUE
    /\ UNCHANGED <<svc, nextId, calls, commands, signal, loop, woken, output,
                   input>>

ReleasePanic ==
    /\ \/ ev = "spawned"
       \/ ev = "held" /\ "stream" \in Uses
    /\ ~CommandsLocked /\ poisoned
    /\ EventsPanic

\* The owner polls the stream, and may drop the `next` future when it pends.
StreamPoll ==
    /\ "stream" \in Uses /\ ev = "held" /\ mode = "stream"
    /\ ev' = "check" /\ woken' = FALSE
    /\ UNCHANGED <<svc, nextId, calls, commands, aborted, signal, mode, failed,
                   output, input>>

StreamLeave == ev = "idle" /\ mode = "stream" /\ EventsGoto("held")

\* The executor polls a scheduled task.
TaskPoll ==
    /\ ev = "idle" /\ woken
    /\ ev' = "check" /\ woken' = FALSE
    /\ UNCHANGED <<svc, nextId, calls, commands, aborted, signal, mode, failed,
                   output, input>>

DropHandle == ev = "held" /\ EventsGoto("dropping")

AbortTask ==
    /\ "abort" \in Faults /\ mode = "future" /\ ev \in {"spawned", "idle"}
    /\ EventsGoto("dropping")

\* Mutant: the destructor clears the map without closing it.
EventsDropOnlyClears ==
    /\ ev = "dropping" /\ ~CommandsLocked
    /\ ev' = "gone"
    /\ pending' = IF poisoned THEN pending ELSE [k \in Ids |-> NoCall]
    /\ UNCHANGED <<svc, nextId, calls, abandoned, poisoned, aborted, signal,
                   mode, failed, woken, output, input>>

EventsDrop ==
    /\ ev = "dropping" /\ ~CommandsLocked
    /\ ev' = "gone"
    /\ pending' = IF poisoned THEN pending ELSE [k \in Ids |-> NoCall]
    /\ abandoned' = (abandoned \/ ~poisoned)
    /\ UNCHANGED <<svc, nextId, calls, poisoned, aborted, signal, mode, failed,
                   woken, output, input>>
-----------------------------------------------------------------------------
(* One poll of QapiEvents: QapiShared::poll_next around the two closures. *)

\* Poll::Ready ends the spawned task; an owner gets the item back.
Ready == ev' = IF mode = "future" THEN "dropping" ELSE "held"

\* wake_by_ref before a Pending that follows a consumed message: the next one
\* may be in the read buffer already, where no socket event announces it.
\* Mutant first.
WakeSelfForgotten == UNCHANGED woken
WakeSelf == woken' = TRUE

PollCheck ==
    /\ ev = "check"
    /\ IF stop THEN Ready ELSE ev' = "read"
    /\ UNCHANGED <<svc, nextId, calls, commands, aborted, signal, mode, failed,
                   woken, output, input>>

PollReadPending ==
    /\ ev = "read" /\ inbox = <<>> /\ ~eof /\ ~errored
    /\ armed' = TRUE
    /\ ev' = "register"
    /\ UNCHANGED <<svc, nextId, calls, commands, aborted, signal, mode, failed,
                   woken, output, inbox, eof, errored, unasked>>

PollReadNone ==
    /\ ev = "read"
    /\ errored \/ (inbox = <<>> /\ eof)
    /\ stop' = TRUE
    /\ Ready
    /\ UNCHANGED <<svc, nextId, calls, commands, aborted, released, stopWaker,
                   mode, failed, woken, output, input>>

\* The next decoded item of the stream.
Reads(kind) ==
    /\ ev = "read" /\ ~errored
    /\ inbox # <<>> /\ Head(inbox).kind = kind
    /\ inbox' = Tail(inbox)

PollReadError ==
    /\ Reads("bad")
    /\ errored' = TRUE /\ failed' = TRUE
    /\ Ready
    /\ UNCHANGED <<svc, nextId, calls, commands, aborted, signal, mode, woken,
                   output, eof, armed, unasked>>

\* The future ignores an event and schedules itself; the stream returns it.
PollReadEvent ==
    /\ Reads("event")
    /\ IF mode = "future" THEN ev' = "register" /\ WakeSelf
                          ELSE ev' = "held" /\ UNCHANGED woken
    /\ UNCHANGED <<svc, nextId, calls, commands, aborted, signal, mode, failed,
                   output, eof, armed, errored, unasked>>

\* response_id: the key a response stands for, if it has the right form.
WellFormed(m) == SupportsOob <=> (m.id # NoId)

\* Mutant: every response is filed under the default key.
KeyDefaulted(m) == 0

Key(m) == IF SupportsOob THEN m.id ELSE 0

\* Mutant: only a future that has finished sending can be answered.
DeliverableAfterSend(m) ==
    /\ WellFormed(m)
    /\ pending[Key(m)] # NoCall
    /\ pc[pending[Key(m)]] = "waiting"

\* handle_response: the response reaches a future that still listens.
Deliverable(m) ==
    /\ WellFormed(m)
    /\ pending[Key(m)] # NoCall
    /\ Live(pending[Key(m)])

PollReadReply ==
    /\ Reads("reply") /\ ~CommandsLocked /\ ~poisoned
    /\ LET m == Head(inbox) IN
        /\ Deliverable(m)
        /\ got' = [got EXCEPT ![pending[Key(m)]] = m.call]
        /\ pending' = [pending EXCEPT ![Key(m)] = NoCall]
    /\ WakeSelf
    /\ ev' = "register"
    /\ UNCHANGED <<svc, nextId, pc, id, writeLock, abandoned, poisoned,
                   aborted, signal, mode, failed, output, eof, armed, errored,
                   unasked>>

\* Wrong form, unknown id, or a receiver dropped with its future: the entry
\* is removed all the same and the poll returns the error.
PollReadReplyError ==
    /\ Reads("reply")
    /\ LET m == Head(inbox) IN
        /\ ~WellFormed(m) \/ (~CommandsLocked /\ ~poisoned)
        /\ ~Deliverable(m)
        /\ pending' = IF WellFormed(m)
                      THEN [pending EXCEPT ![Key(m)] = NoCall] ELSE pending
    /\ failed' = TRUE
    /\ Ready
    /\ UNCHANGED <<svc, nextId, calls, abandoned, poisoned, aborted, signal,
                   mode, woken, output, eof, armed, errored, unasked>>

PollReadReplyPanic ==
    /\ ev = "read" /\ ~errored /\ inbox # <<>>
    /\ Head(inbox).kind = "reply" /\ WellFormed(Head(inbox))
    /\ ~CommandsLocked /\ poisoned
    /\ EventsPanic

PollRegister ==
    /\ ev = "register"
    /\ stopWaker' = TRUE
    /\ ev' = "recheck"
    /\ UNCHANGED <<svc, nextId, calls, commands, aborted, stop, released, mode,
                   failed, woken, output, input>>

\* Mutant: the flag is not read again after the waker is registered.
PollRecheckSkipped ==
    /\ ev = "recheck"
    /\ ev' = "idle"
    /\ UNCHANGED <<svc, nextId, calls, commands, aborted, signal, mode, failed,
                   woken, output, input>>

PollRecheck ==
    /\ ev = "recheck"
    /\ IF stop THEN Ready ELSE ev' = "idle"
    /\ UNCHANGED <<svc, nextId, calls, commands, aborted, signal, mode, failed,
                   woken, output, input>>
-----------------------------------------------------------------------------
(* The server and the socket (external). *)

WakeReader ==
    /\ armed' = FALSE
    /\ woken' = (woken \/ armed)

ServerSend(m) ==
    /\ ~eof
    /\ inbox' = Append(inbox, m)
    /\ WakeReader
    /\ UNCHANGED <<svc, nextId, calls, commands, aborted, signal, loop, outbuf,
                   eof, errored>>

\* Replies echo the id; the server may answer in any order.
ServerRespond(c) ==
    /\ c \in requests
    /\ requests' = requests \ {c}
    /\ answered' = answered \cup {c}
    /\ ServerSend([kind |-> "reply", call |-> c,
                   id |-> IF SupportsOob THEN id[c] ELSE NoId])
    /\ UNCHANGED unasked

Unasked ==
    [kind : Faults \cap {"event", "bad"}, id : {NoId}, call : {Stray}]
      \cup [kind : {"reply" : f \in Faults \cap {"stray"}},
            id : Ids \cup {NoId}, call : {Stray}]

ServerSendUnasked ==
    /\ unasked < MaxUnasked
    /\ unasked' = unasked + 1
    /\ \E m \in Unasked : ServerSend(m)
    /\ UNCHANGED <<requests, answered>>

ServerClose ==
    /\ "close" \in Faults /\ ~eof
    /\ eof' = TRUE
    /\ WakeReader
    /\ UNCHANGED <<svc, nextId, calls, commands, aborted, signal, loop, output,
                   inbox, errored, unasked>>
-----------------------------------------------------------------------------
CallStep(c) ==
    \/ Execute(c) \/ CommandInsert(c) \/ CommandInsertPanic(c)
    \/ SendFeed(c) \/ SendDone(c) \/ SendFail(c)
    \/ ReceiveReply(c) \/ ReceiveCanceled(c) \/ Cancel(c)

ServiceStep ==
    ServiceStopPoisoned \/ ServiceStop \/ ServiceWake \/ ServiceAbandon

OwnerStep ==
    \/ Spawn \/ Release \/ ReleasePanic \/ StreamPoll \/ StreamLeave
    \/ TaskPoll \/ DropHandle \/ AbortTask \/ EventsDrop

PollStep ==
    \/ PollCheck \/ PollReadPending \/ PollReadNone \/ PollReadError
    \/ PollReadEvent \/ PollReadReply \/ PollReadReplyError
    \/ PollReadReplyPanic \/ PollRegister \/ PollRecheck

ServerStep ==
    \/ \E c \in Calls : ServerRespond(c)
    \/ ServerSendUnasked
    \/ ServerClose

\* Nothing is left to do: the only states in which the program may stop.
Finished ==
    \/ aborted
    \/ /\ svc = "dropped" /\ ev = "gone"
       /\ \A c \in Calls : pc[c] \in {"new"} \cup Ended

Terminated == Finished /\ UNCHANGED vars

Next ==
    \/ /\ ~aborted
       /\ \/ \E c \in Calls : CallStep(c)
          \/ SendWrite \/ ServiceStep \/ OwnerStep \/ PollStep \/ ServerStep
    \/ Terminated

Spec == Init /\ [][Next]_vars
-----------------------------------------------------------------------------
(* Safety.  A TRUE disjunct of a cause says what the code cannot prevent.  *)

\* A call never receives the answer to another call.  Without ids the sink
\* guard sees to it; with ids, that keys differ until the counter wraps, and
\* after that the duplicate check, which an abandoned map no longer makes.
\* Responses nobody asked for are beyond what the client can tell apart.
OwnReply ==
    /\ SupportsOob => nextId <= IdModulus \/ ~abandoned
    /\ "stray" \notin Faults
    => \A c \in Calls : got[c] \in {NoCall, c}

\* The AtomicWaker protocol of poll_next and the wake_by_ref after a handled
\* response: a pending poll that nobody will schedule has nothing to do.  It
\* has read everything, the socket and stop_waker hold its waker, and if it
\* was told to stop the wake-up is about to follow.
NoLostWakeup ==
    ev = "idle" /\ ~woken =>
      /\ inbox = <<>> /\ ~eof /\ ~errored /\ armed /\ stopWaker
      /\ stop => svc = "waking"

\* Dropping QapiEvents disconnects every registered call, and no call can
\* register behind its back: no future waits on a map nobody will serve.
NoCallStranded ==
    ev = "gone" /\ ~poisoned => \A k \in Ids : pending[k] = NoCall

\* Without ids the sink guard is the only thing that keeps two commands from
\* being outstanding under key 0: at most one future is past its insert.
SerialWithoutIds ==
    ~SupportsOob => \A c \in Calls : Live(c) => writeLock = c

\* "QAPI duplicate command id, this should not happen": it happens only after
\* the id counter has wrapped or, without ids, after a future that had
\* registered ended early and left its entry behind.
DuplicateIdCause ==
    poisoned => IF SupportsOob THEN nextId > IdModulus
                ELSE \E c \in Calls : pc[c] \in {"cancelled", "ioerror"}

\* stop() and release() race for a spawned loop: whichever takes the mutex
\* second sees the other, so a released loop never outlives the service
\* without being told to stop.
ReleaseHandshake ==
    svc = "dropped" /\ released /\ ~poisoned => stop

\* Iterating over events without release() goes on after the service is
\* dropped (examples/src/bin/tokio_qmp_events.rs): only the end of the
\* connection stops it.
EventsOutliveService ==
    stop => (released /\ svc # "held") \/ eof \/ errored

\* The loop fails the connection only for a reason: a message that does not
\* decode, a response nobody asked for, a future that ended early, or a call
\* made on an abandoned map.
FailureHasCause ==
    [][failed' /\ ~failed =>
         \/ errored' \/ "stray" \in Faults \/ abandoned \/ poisoned
         \/ \E c \in Calls : pc[c] \in {"cancelled", "ioerror"}]_vars
-----------------------------------------------------------------------------
(* The inductive invariants behind the safety properties. *)

\* A poll that has found the socket empty is woken by whatever comes next:
\* the socket holds its waker from the read on, stop_waker from register on,
\* and a stop that precedes the register is seen by the second is_stopped.
WakeInv ==
    /\ ev \in {"register", "recheck", "idle"} /\ ~woken
         => inbox = <<>> /\ ~eof /\ ~errored /\ armed
    /\ ev \in {"recheck", "idle"} /\ ~woken => stopWaker
    /\ svc = "waking" => stop
    /\ ev = "idle" /\ ~woken /\ stop => svc = "waking"

\* stop() and release() under the commands mutex.
HandshakeInv ==
    /\ svc = "marking" /\ released => stop
    /\ svc = "dropped" /\ ~poisoned => abandoned /\ (released => stop)
    /\ ev = "gone" /\ ~poisoned
         => abandoned /\ \A k \in Ids : pending[k] = NoCall

\* A stored sender is filed under its call's key, and only from the insert to
\* the answer; keys of distinct calls differ until the counter wraps.
KeyInv ==
    /\ \A k \in Ids : pending[k] # NoCall => id[pending[k]] = k
    /\ \A c \in Calls :
         /\ pc[c] \in {"new", "created"}
              => got[c] = NoCall /\ \A k \in Ids : pending[k] # c
         /\ got[c] # NoCall => \A k \in Ids : pending[k] # c
         /\ ~SupportsOob => id[c] = 0
    /\ SupportsOob /\ nextId <= IdModulus =>
         \A c \in Calls : pc[c] # "new" =>
           /\ id[c] < nextId
           /\ \A d \in Calls \ {c} : pc[d] # "new" => id[c] # id[d]

\* Without ids an entry belongs to the holder of the sink, or was left behind.
SerialInv ==
    /\ SerialWithoutIds
    /\ ~SupportsOob => \A k \in Ids : pending[k] # NoCall =>
         \/ Live(pending[k])
         \/ pc[pending[k]] \in {"cancelled", "ioerror", "panicked"}
    /\ \A c \in Calls : pc[c] = "panicked" => poisoned

\* A command or its answer is under way: written to the buffer, at the server,
\* or not yet read.
InBuffer(c)  == \E i \in DOMAIN outbuf : outbuf[i] = c
InAnswers(c) == \E i \in DOMAIN inbox :
                  inbox[i].kind = "reply" /\ inbox[i].call = c
InTransit(c) == InBuffer(c) \/ c \in requests \/ InAnswers(c)

\* A call is in transit once, from the moment it is fed to the sink.
TransitInv ==
    /\ \A c \in Calls : InTransit(c) =>
         pc[c] \notin {"new", "created", "sending"}
    /\ \A i, j \in DOMAIN outbuf : outbuf[i] = outbuf[j] => i = j
    /\ \A i, j \in DOMAIN inbox :
         /\ inbox[i].kind = "reply" /\ inbox[j].kind = "reply"
         /\ inbox[i].call = inbox[j].call /\ inbox[i].call # Stray
         => i = j
    /\ \A c \in Calls : InBuffer(c) => c \notin requests /\ ~InAnswers(c)
    /\ \A c \in Calls : InAnswers(c) => c \notin requests
    /\ \A i \in DOMAIN inbox : inbox[i].kind = "reply" =>
         IF inbox[i].call = Stray THEN "stray" \in Faults
         ELSE inbox[i].id = IF SupportsOob THEN id[inbox[i].call] ELSE NoId

\* A map that works holds the sender of every call that is in transit or waits
\* for its answer; without ids nobody else is listening, abandoned or not.
MapInv ==
    /\ \A c \in Calls : pc[c] \in {"replied", "disconnected"} =>
         \A k \in Ids : pending[k] # c
    /\ "stray" \notin Faults /\ ~poisoned =>
         /\ ~abandoned => \A c \in Calls :
              /\ InTransit(c) \/ (Live(c) /\ got[c] = NoCall)
                   => pending[id[c]] = c
              /\ pc[c] = "sending" => got[c] = NoCall
         /\ ~SupportsOob => \A c, d \in Calls :
              InTransit(c) /\ pending[0] = d /\ Live(d) => c = d
-----------------------------------------------------------------------------
(* Liveness.  The executor polls every scheduled future, a thread that     *)
(* holds a mutex goes on, the owner spawns the #[must_use] events, and the *)
(* server answers.  Nobody is obliged to drop, cancel, abort or close.     *)

Fairness ==
    /\ \A c \in Calls :
         /\ WF_vars(CommandInsert(c) \/ CommandInsertPanic(c))
         /\ WF_vars(SendFeed(c)) /\ WF_vars(SendDone(c))
         /\ WF_vars(ReceiveReply(c)) /\ WF_vars(ReceiveCanceled(c))
         /\ WF_vars(ServerRespond(c))
    /\ WF_vars(SendWrite)
    /\ WF_vars(ServiceWake) /\ WF_vars(ServiceAbandon)
    /\ WF_vars(Spawn) /\ WF_vars(ev = "spawned" /\ Release)
    /\ WF_vars(TaskPoll) /\ WF_vars(PollStep) /\ WF_vars(EventsDrop)

FairSpec == Spec /\ Fairness

\* With the loop spawned, every command that was issued gets an outcome, also
\* when the service is dropped, the loop is aborted or the connection ends
\* while it is in flight.  A poisoned map is outside the promise.
CallsComplete ==
    \A c \in Calls :
      pc[c] = "created" ~> pc[c] \in Ended \/ poisoned

\* "drop(qmp); relinquish handle on the stream / handle.await; wait for event
\* loop to exit" (examples/src/bin/tokio_qmp_query.rs): it does exit.
ServiceDropEndsLoop ==
    svc = "dropped" /\ mode = "future" ~> ev = "gone" \/ poisoned
=============================================================================
