---------------------------- MODULE QapiSession ----------------------------
(***************************************************************************)
(* A connection before its halves part: QmpStreamTokio::open_split reads   *)
(* the greeting, negotiate_caps and QapiStream::execute (mod.rs) run one   *)
(* command at a time by polling the call and, if it is pending, the events *)
(* in the same task; spawn_tokio or into_parts ends the module and begins  *)
(* QapiFutures.                                                            *)
(*                                                                         *)
(* There is one task.  Its steps are separated because the server may      *)
(* write between them.                                                     *)
(***************************************************************************)
EXTENDS Naturals, Sequences

CONSTANTS
    Greetings,   \* the sets of capabilities a greeting may announce
    Protocols,   \* "qmp" and "qga"
    MaxCalls,    \* bound on the commands executed
    MaxFaults,   \* bound on the faults
    Faults       \* what may go wrong, see Fault

Fault == {"cancel",  \* the program drops the future of execute()
          "send",    \* writing to the socket fails
          "event",   \* the server emits an event
          "bad",     \* the server writes a line that does not decode
          "stray",   \* the server answers a command nobody gave
          "close"}   \* the server closes the connection

ASSUME SessionAssumption ==
    /\ Protocols \subseteq {"qmp", "qga"}
    /\ MaxCalls \in Nat /\ MaxFaults \in Nat
    /\ Faults \subseteq Fault

VARIABLES
    proto,         \* what the connection was opened as
    announced,     \* the capabilities in the greeting
    pc,            \* where the task is
    stage,         \* where the call's future is
    cur,           \* the number of the call, and its id
    supports_oob,  \* QapiShared.supports_oob
    pending,       \* commands.pending: the call filed under each key, or 0
    got,           \* the oneshot channel of the call has its answer: whose
    stop,          \* QapiShared.stop
    unsent,        \* Framed's write buffer: commands encoded, not yet written
    requests,      \* commands the server has not answered
    inbox,         \* lines the server wrote, not yet read
    eof,           \* the server closed the connection
    errored,       \* Framed returned an error: the next item is None
    result,        \* what the last execute() returned
    given_up,      \* calls that ended without their answer
    faults,        \* how many faults there were
    happened       \* which

wire == <<unsent, requests, inbox, eof>>
open == <<proto, announced, supports_oob>>
call == <<stage, cur, got, pending>>
ends == <<result, given_up>>
plan == <<faults, happened>>
vars == <<open, pc, call, stop, wire, errored, ends, plan>>

\* How execute() returns an answer: what the command gives, or the error that
\* the server reports instead.
Answered == {"replied", "refused"}
Outcomes == Answered \cup {"eof", "ioerror", "cancelled"}

Keys == 0 .. MaxCalls
Line == [kind : {"greeting", "reply", "event", "bad"}, of : 0 .. MaxCalls + 1]

TypeOK ==
    /\ proto \in Protocols /\ announced \in Greetings
    /\ pc \in {"opening", "negotiation", "held", "scheduled", "call", "events",
               "asleep", "failed", "parted", "panicked"}
    /\ stage \in {"none", "new", "sending", "waiting"}
    /\ cur \in 0 .. MaxCalls /\ got \in 0 .. MaxCalls + 1
    /\ pending \in [Keys -> 0 .. MaxCalls]
    /\ unsent \in Seq(1 .. MaxCalls) /\ requests \in Seq(1 .. MaxCalls)
    /\ inbox \in Seq(Line)
    /\ supports_oob \in BOOLEAN /\ stop \in BOOLEAN
    /\ eof \in BOOLEAN /\ errored \in BOOLEAN
    /\ result \in Outcomes \cup {"none"}
    /\ given_up \subseteq 1 .. MaxCalls
    /\ faults \in 0 .. MaxFaults /\ happened \subseteq Faults

Init ==
    /\ proto \in Protocols /\ announced \in Greetings
    /\ pc = IF proto = "qmp" THEN "opening" ELSE "held"
    /\ stage = "none" /\ cur = 0 /\ got = 0
    /\ supports_oob = FALSE
    /\ pending = [k \in Keys |-> 0]
    /\ stop = FALSE /\ errored = FALSE
    /\ unsent = <<>> /\ requests = <<>>
    /\ \/ proto = "qmp" /\ eof = FALSE   \* the first line, if there is one
          /\ \E k \in {"greeting", "bad"} : inbox = <<[kind |-> k, of |-> 0]>>
       \/ inbox = <<>> /\ eof = (proto = "qmp")
    /\ result = "none" /\ given_up = {} /\ faults = 0 /\ happened = {}

Fails(f) == f \in Faults /\ faults < MaxFaults /\ faults' = faults + 1
            /\ happened' = happened \cup {f}

Executing == pc \in {"scheduled", "call", "events", "asleep"}
-----------------------------------------------------------------------------
(* Opening. *)

\* QmpCapability is untagged, and serde reads a unit variant of an untagged
\* enum from null only: any string is Unknown, "oob" too.
Capability(c) == IF c = "null" THEN "OutOfBand" ELSE "Unknown"

\* open_split: the greeting decides whether commands carry ids.
Open ==
    /\ pc = "opening" /\ inbox # <<>> /\ Head(inbox).kind = "greeting"
    /\ inbox' = Tail(inbox)
    /\ supports_oob' = (\E c \in announced : Capability(c) = "OutOfBand")
    /\ pc' = "negotiation"
    /\ UNCHANGED <<proto, announced, call, stop, unsent, requests, eof, errored,
                   ends, plan>>

\* No greeting, or one that does not decode: open_split returns an error.
OpenFails ==
    /\ pc = "opening"
    /\ IF inbox = <<>> THEN eof ELSE Head(inbox).kind # "greeting"
    /\ pc' = "failed"
    /\ UNCHANGED <<open, call, stop, wire, errored, ends, plan>>
-----------------------------------------------------------------------------
(* execute(): the call's future first, then the events. *)

\* command_id: without ids the key is the default, 0.
KeyOf(n) == IF supports_oob THEN n ELSE 0
Key      == KeyOf(cur)

\* QapiStream::execute, and the first execute() of negotiate_caps.
Execute ==
    /\ pc \in {"negotiation", "held"} /\ cur < MaxCalls
    /\ cur' = cur + 1 /\ got' = 0 /\ stage' = "new"
    /\ pc' = "scheduled"
    /\ UNCHANGED <<open, pending, stop, wire, errored, ends, plan>>

\* The executor polls the task: the program may have dropped the future before.
Resume ==
    /\ pc = "scheduled" /\ pc' = "call"
    /\ UNCHANGED <<open, call, stop, wire, errored, ends, plan>>

\* The future of execute() ends and drops the future of the call; unless the
\* server accepted the command negotiate_caps drops the stream with it.
Return(how) ==
    /\ result' = how /\ stage' = "none"
    /\ pc' = IF how # "replied" /\ proto = "qmp" /\ cur = 1 THEN "failed"
                                                          ELSE "held"
    /\ given_up' = IF how \in Answered THEN given_up ELSE given_up \cup {cur}
    /\ UNCHANGED <<open, cur>>

\* command_insert, where a key that is taken panics, and the start of
\* sink.send, which encodes the command.
CallInsert ==
    /\ pc = "call" /\ stage = "new"
    /\ pending' = [pending EXCEPT ![Key] = cur]
    /\ IF pending[Key] = 0
       THEN stage' = "sending" /\ pc' = pc /\ unsent' = Append(unsent, cur)
       ELSE stage' = "none" /\ pc' = "panicked" /\ UNCHANGED unsent
    /\ UNCHANGED <<open, cur, got, stop, requests, inbox, eof, errored, ends,
                   plan>>

\* sink.send flushes the buffer, what earlier calls left in it first, as far
\* as the socket takes it; the call waits once its own command is written.
CallSend ==
    /\ pc = "call" /\ stage = "sending" /\ unsent # <<>>
    /\ unsent' = Tail(unsent)
    /\ stage' = IF Tail(unsent) = <<>> THEN "waiting" ELSE stage
    /\ requests' = IF eof THEN requests ELSE Append(requests, Head(unsent))
    /\ UNCHANGED <<open, pc, cur, got, pending, stop, inbox, eof, errored,
                   ends, plan>>

\* Writing fails; the command stays in the buffer.
CallSendFails ==
    /\ pc = "call" /\ stage = "sending" /\ Fails("send")
    /\ Return("ioerror")
    /\ UNCHANGED <<got, pending, stop, wire, errored>>

CallReceive ==
    /\ pc = "call" /\ stage = "waiting" /\ got # 0
    /\ \E how \in Answered : Return(how)
    /\ UNCHANGED <<got, pending, stop, wire, errored, plan>>

\* Mutant: select! instead of select_biased!, the events may be polled first.
CallPendingUnbiased ==
    /\ pc = "call"
    /\ stage \in {"sending", "waiting"}
    /\ pc' = "events"
    /\ UNCHANGED <<open, call, stop, wire, errored, ends, plan>>

\* The call is pending, select_biased! polls the events.
CallPending ==
    /\ pc = "call"
    /\ \/ stage = "sending"
       \/ stage = "waiting" /\ got = 0
    /\ pc' = "events"
    /\ UNCHANGED <<open, call, stop, wire, errored, ends, plan>>

\* Mutant: the end of the events does not end the call.
EventsEndIgnored ==
    /\ pc = "events"
    /\ stop \/ errored \/ (inbox = <<>> /\ eof)
    /\ stop' = TRUE /\ errored' = FALSE
    /\ pc' = "scheduled"
    /\ UNCHANGED <<open, call, wire, ends, plan>>

\* The stream of messages has ended before or ends now.
EventsEnd ==
    /\ pc = "events"
    /\ stop \/ errored \/ (inbox = <<>> /\ eof)
    /\ stop' = TRUE /\ errored' = FALSE
    /\ Return("eof")
    /\ UNCHANGED <<got, pending, wire, plan>>

Reads(kinds) ==
    /\ pc = "events" /\ ~stop /\ ~errored
    /\ inbox # <<>> /\ Head(inbox).kind \in kinds
    /\ inbox' = Tail(inbox)

EventsBad ==
    /\ Reads({"bad"})
    /\ errored' = TRUE /\ Return("ioerror")
    /\ UNCHANGED <<got, pending, stop, unsent, requests, eof, plan>>

\* wake_by_ref: the poll returns Pending, and the task is scheduled again.
WakeSelf == pc' = "scheduled"

\* Mutant: an event is reported as a message of the wrong kind.
EventsIgnoreFails ==
    /\ Reads({"event"}) /\ Return("ioerror")
    /\ UNCHANGED <<got, pending, stop, unsent, requests, eof, errored, plan>>

\* An event is dropped.
EventsIgnore ==
    /\ Reads({"event"}) /\ WakeSelf
    /\ UNCHANGED <<open, call, stop, unsent, requests, eof, errored, ends,
                   plan>>

\* The key under which the answer's sender would be filed.
ReplyKey == KeyOf(Head(inbox).of)

Filed(key) == IF key \in Keys THEN pending[key] ELSE 0

\* Mutant: the sender stays in the map.
RemoveForgotten(key) == UNCHANGED pending

\* command_remove.
Remove(key) ==
    pending' = IF key \in Keys THEN [pending EXCEPT ![key] = 0] ELSE pending

\* handle_response: the sender filed under the id gets the answer, if its
\* receiver still exists.
EventsReply ==
    /\ Reads({"reply"})
    /\ Remove(ReplyKey)
    /\ \/ /\ Filed(ReplyKey) = cur
          /\ got' = Head(inbox).of /\ WakeSelf
          /\ UNCHANGED <<open, cur, stage, ends>>
       \/ Filed(ReplyKey) # cur /\ Return("ioerror") /\ UNCHANGED got
    /\ UNCHANGED <<stop, unsent, requests, eof, errored, plan>>

EventsPending ==
    /\ pc = "events" /\ ~stop /\ ~errored /\ inbox = <<>> /\ ~eof
    /\ pc' = "asleep"
    /\ UNCHANGED <<open, call, stop, wire, errored, ends, plan>>

\* The socket became readable, or takes what is to be sent.
Wake ==
    /\ pc = "asleep" /\ (inbox # <<>> \/ eof \/ stage = "sending")
    /\ pc' = "scheduled"
    /\ UNCHANGED <<open, call, stop, wire, errored, ends, plan>>

\* The program drops the future between two polls, because of a time-out for
\* instance: before the first one, asleep, or after a poll that woke itself,
\* with the answer perhaps in the channel already.
Cancel ==
    /\ pc \in {"scheduled", "asleep"} /\ Fails("cancel")
    /\ Return("cancelled")
    /\ UNCHANGED <<got, pending, stop, wire, errored>>

\* into_parts, spawn_tokio: QapiFutures takes over.
Part ==
    /\ pc = "held" /\ pc' = "parted"
    /\ UNCHANGED <<open, call, stop, wire, errored, ends, plan>>
-----------------------------------------------------------------------------
(* The server. *)

Write(k, n) ==
    /\ ~eof
    /\ inbox' = Append(inbox, [kind |-> k, of |-> n])
    /\ UNCHANGED <<open, pc, call, stop, eof, errored, ends>>

ServerRespond ==
    /\ requests # <<>> /\ requests' = Tail(requests)
    /\ Write("reply", Head(requests))
    /\ UNCHANGED <<unsent, plan>>

ServerUnasked ==
    /\ pc # "parted"
    /\ \/ Fails("event") /\ Write("event", 0)
       \/ Fails("bad") /\ Write("bad", 0)
       \/ Fails("stray") /\ Write("reply", MaxCalls + 1)
    /\ UNCHANGED <<unsent, requests>>

ServerClose ==
    /\ ~eof /\ pc # "parted" /\ Fails("close")
    /\ eof' = TRUE /\ requests' = <<>>
    /\ UNCHANGED <<open, pc, call, stop, unsent, inbox, errored, ends>>

Finished ==
    /\ \/ pc \in {"failed", "parted", "panicked"}
       \/ pc = "held" /\ cur = MaxCalls
    /\ UNCHANGED vars
-----------------------------------------------------------------------------
Poll == \/ Resume \/ CallInsert \/ CallSend \/ CallSendFails \/ CallReceive
        \/ CallPending \/ EventsEnd \/ EventsBad \/ EventsIgnore
        \/ EventsReply \/ EventsPending

Next == \/ Open \/ OpenFails \/ Execute \/ Poll \/ Wake \/ Cancel \/ Part
        \/ ServerRespond \/ ServerUnasked \/ ServerClose \/ Finished

Spec == Init /\ [][Next]_vars

\* The executor polls a task that is scheduled, the socket takes what is to
\* be sent, the server answers.
Fairness == WF_vars(Poll) /\ WF_vars(Wake) /\ WF_vars(ServerRespond)
            /\ SF_vars(CallSend)

FairSpec == Spec /\ Fairness
-----------------------------------------------------------------------------
\* If the server sends no answer that nobody asked for, the answer that reaches
\* a call is the one to it, and is what execute() returns, also when the
\* connection ends or fails right behind it. Only the program itself can lose
\* it, by dropping the future before it is polled again. Either way the call's
\* key is free.
AnswerBeatsEnd ==
    got # 0 /\ "stray" \notin happened =>
        /\ got = cur /\ pending[Key] = 0
        /\ \/ Executing \/ result \in Answered
           \/ result = "cancelled" /\ cur \in given_up

\* execute() panics only on a connection without ids, and only after a call
\* that ended without its answer: a command that is tried again after an
\* error, a time-out, or the end of the connection.
PanicNeedsLostCall ==
    pc = "panicked" => ~supports_oob /\ given_up # {}

\* execute() fails only if the connection does, or if the answer to a call that
\* was given up arrives, and reports the end of the stream only after one.
ErrorHasCause ==
    /\ result = "ioerror" /\ stage = "none" /\ pc # "panicked" =>
           happened \cap {"send", "bad", "stray"} # {} \/ given_up # {cur}
    /\ result = "eof" => happened \cap {"bad", "close"} # {}

\* Commands that are not answered, and answers that are not read.
Outstanding ==
    {unsent[i] : i \in DOMAIN unsent} \cup {requests[i] : i \in DOMAIN requests}
      \cup {inbox[i].of : i \in {j \in DOMAIN inbox : inbox[j].kind = "reply"}}

\* What into_parts and spawn_tokio hand over, whatever happened to the
\* connection, if the server sent no answer that nobody asked for: the map, the
\* buffers and the server hold nothing but what calls that were given up have
\* left, of these every command on its way has its sender in the map, and
\* without such a call the stream of messages is as it was at the start.
HandOverClean ==
    pc = "parted" /\ "stray" \notin happened =>
        /\ \A k \in Keys : pending[k] \in given_up \cup {0}
        /\ \A n \in Outstanding : n \in given_up /\ pending[KeyOf(n)] = n
        /\ given_up = {} => ~stop /\ ~errored

\* Whatever happens to the connection, execute() ends.
ExecuteEnds == Executing ~> ~Executing

\* The serde attribute of QmpCapability::OutOfBand names the capability "oob":
\* a server that announces it is taken to support out-of-band execution.
OobIsRecognised ==
    pc = "negotiation" /\ "oob" \in announced => supports_oob
-----------------------------------------------------------------------------
(* The inductive invariant.                                                  *)

\* Where the task and the call are, and which calls were given up.
StageInv ==
    /\ Executing <=> stage # "none"
    /\ stage = "new" => pc \in {"scheduled", "call"} /\ got = 0
    /\ Executing => cur > 0 /\ cur \notin given_up
    /\ given_up \subseteq 1 .. cur
    /\ pc = "opening" => cur = 0

\* A call is filed under its own key, from its insert to its answer or for
\* ever if it is given up before.
FilingInv ==
    /\ \A k \in Keys : pending[k] # 0 => k = KeyOf(pending[k])
    /\ pc # "panicked" => \A k \in Keys : pending[k] # 0 =>
           \/ pending[k] = cur /\ stage \in {"sending", "waiting"} /\ got = 0
           \/ pending[k] \in given_up
    /\ got # 0 => pending[Key] = 0

\* A command, or its answer, is in one place, and its call is filed.
OnItsWay(n) == n \in 1 .. MaxCalls /\ pending[KeyOf(n)] = n

Reply(i) == inbox[i].kind = "reply"

\* While a call sends, its command is the last of the buffer.
SendingInv ==
    stage = "sending" => unsent # <<>> /\ unsent[Len(unsent)] = cur

TransitInv ==
    "stray" \notin happened /\ pc # "panicked" =>
        /\ \A i \in DOMAIN unsent : OnItsWay(unsent[i])
        /\ \A i \in DOMAIN requests : OnItsWay(requests[i])
        /\ \A i \in DOMAIN inbox : Reply(i) => OnItsWay(inbox[i].of)
        /\ \A i, j \in DOMAIN unsent : i # j => unsent[i] # unsent[j]
        /\ \A i, j \in DOMAIN requests : i # j => requests[i] # requests[j]
        /\ \A i, j \in DOMAIN inbox :
               i # j /\ Reply(i) /\ Reply(j) => inbox[i].of # inbox[j].of
        /\ \A i \in DOMAIN unsent, j \in DOMAIN requests :
               unsent[i] # requests[j]
        /\ \A i \in DOMAIN unsent, j \in DOMAIN inbox :
               Reply(j) => unsent[i] # inbox[j].of
        /\ \A i \in DOMAIN requests, j \in DOMAIN inbox :
               Reply(j) => requests[i] # inbox[j].of

\* A call whose answer has come is polled, or dropped, before anything else
\* happens.
GotInv ==
    got # 0 /\ "stray" \notin happened =>
        /\ got = cur
        /\ \/ stage = "none" /\ result \in Answered
           \/ stage = "none" /\ result = "cancelled" /\ cur \in given_up
           \/ stage = "waiting" /\ pc \in {"scheduled", "call"}

\* What has gone wrong has happened.
Early == pc \in {"opening", "failed"}

CauseInv ==
    /\ happened # {} => faults > 0
    /\ errored => "bad" \in happened
    /\ stop \/ result = "eof" => happened \cap {"bad", "close"} # {}
    /\ stop \/ errored => given_up # {}
    /\ eof => "close" \in happened \/ (inbox = <<>> /\ Early)
    /\ \A i \in DOMAIN inbox :
        /\ inbox[i].kind = "bad" => "bad" \in happened \/ (i = 1 /\ Early)
        /\ inbox[i].kind = "event" => "event" \in happened
        /\ inbox[i].kind = "greeting" => i = 1 /\ Early

IInv == /\ TypeOK /\ StageInv /\ FilingInv /\ SendingInv /\ TransitInv
        /\ GotInv /\ CauseInv /\ PanicNeedsLostCall /\ ErrorHasCause
=============================================================================
