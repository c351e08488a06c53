------------------------- MODULE QapiFuturesProofs -------------------------
(***************************************************************************)
(* Theorems about QapiFutures for every number of calls, every id width    *)
(* and every set of faults.  The first part is about the client: locks,    *)
(* wakers, the command map and the way it ends.  The second part is about  *)
(* answers: no call receives the answer to another, the event loop does    *)
(* not fail without a cause, and each step of the client, of its users and *)
(* of the server is a step of the abstract promise of QapiCalls, or leaves *)
(* it as it is.  All of that rests on following each command from the sink *)
(* to the map entry its answer is for.                                     *)
(***************************************************************************)
EXTENDS MCQapiFutures, TLAPS

USE DEF vars, calls, commands, signal, loop, output, input

\* Every id is a natural number below the modulus, and 0 is one.
LEMMA IdsFact ==
    /\ 0 \in Ids
    /\ \A n \in Nat : n % IdModulus \in Ids
<1>1. 0 \in Ids
  BY ConstantsAssumption DEF Ids
<1>2. \A n \in Nat : n % IdModulus \in Ids
  BY ConstantsAssumption DEF Ids
<1> QED
  BY <1>1, <1>2

\* The actors of a step.
LEMMA StepCases ==
    ASSUME [Next]_vars
    PROVE  \/ \E c \in Calls : CallStep(c)
           \/ SendWrite \/ ServiceStep \/ OwnerStep \/ PollStep
           \/ ServerStep \/ UNCHANGED vars
BY DEF Next, Terminated

-----------------------------------------------------------------------------
(* Type correctness, one group of variables at a time. *)

LEMMA CallsType == ASSUME TypeOK, [Next]_vars PROVE CallsOK'
<1> USE DEF TypeOK, CallsOK
<1>1. CASE \E c \in Calls : CallStep(c)
  <2> PICK c \in Calls : CallStep(c)
    BY <1>1
  <2>1. CASE Execute(c)
    BY <2>1, IdsFact DEF Execute, CommandId, Become
  <2>2. CASE CommandInsert(c) \/ CommandInsertPanic(c) \/ SendFeed(c)
    BY <2>2 DEF CommandInsert, CommandInsertPanic, SendFeed, Become,
                Inserted, Ended
  <2>3. CASE SendDone(c)
    BY <2>3 DEF SendDone, Become, Unlock, Inserted
  <2>4. CASE SendFail(c) \/ ReceiveReply(c) \/ ReceiveCanceled(c) \/ Cancel(c)
    BY <2>4 DEF SendFail, ReceiveReply, ReceiveCanceled, Cancel, Finish,
                Become, Unlock, Ended
  <2> QED
    BY <2>1, <2>2, <2>3, <2>4 DEF CallStep
<1>2. CASE SendWrite
  BY <1>2 DEF SendWrite
<1>3. CASE ServiceStep
  BY <1>3 DEF ServiceStep, ServiceStopPoisoned, ServiceStop, ServiceWake,
              ServiceAbandon
<1>4. CASE OwnerStep
  BY <1>4 DEF OwnerStep, Spawn, Release, ReleasePanic, StreamPoll,
              StreamLeave, TaskPoll, DropHandle, AbortTask, EventsDrop,
              EventsGoto, EventsPanic
<1>5. CASE PollStep
  <2>1. CASE PollReadReply
    <3>1. Head(inbox) \in Message
      BY <2>1 DEF PollReadReply, Reads, WireOK
    <3>2. Head(inbox).call \in Calls \cup {Stray}
      BY <3>1 DEF Message
    <3>3. got' \in [Calls -> Calls \cup {NoCall, Stray}]
      BY <2>1, <3>2 DEF PollReadReply
    <3> QED
      BY <2>1, <3>3 DEF PollReadReply
  <2>2. CASE PollStep /\ ~PollReadReply
    BY <2>2 DEF PollStep, PollCheck, PollReadPending, PollReadNone,
                PollReadError, PollReadEvent, WakeSelf, PollReadReplyError,
                PollReadReplyPanic, EventsPanic, PollRegister, PollRecheck
  <2> QED
    BY <1>5, <2>1, <2>2
<1>6. CASE ServerStep
  BY <1>6 DEF ServerStep, ServerRespond, ServerSendUnasked, ServerSend,
              ServerClose
<1>7. CASE UNCHANGED vars
  BY <1>7
<1> QED
  BY <1>1, <1>2, <1>3, <1>4, <1>5, <1>6, <1>7, StepCases

LEMMA CommandsType == ASSUME TypeOK, [Next]_vars PROVE CommandsOK'
<1> USE DEF TypeOK, CommandsOK
<1>1. CASE \E c \in Calls : CallStep(c)
  <2> PICK c \in Calls : CallStep(c)
    BY <1>1
  <2>1. CASE CommandInsert(c) \/ CommandInsertPanic(c)
    BY <2>1 DEF CommandInsert, CommandInsertPanic
  <2>2. CASE CallStep(c) /\ ~CommandInsert(c) /\ ~CommandInsertPanic(c)
    BY <2>2 DEF CallStep, Execute, SendFeed, SendDone, SendFail,
                ReceiveReply, ReceiveCanceled, Cancel, Finish
  <2> QED
    BY <2>1, <2>2
<1>2. CASE SendWrite
  BY <1>2 DEF SendWrite
<1>3. CASE ServiceStep
  BY <1>3 DEF ServiceStep, ServiceStopPoisoned, ServiceStop, ServiceWake,
              ServiceAbandon
<1>4. CASE OwnerStep
  BY <1>4 DEF OwnerStep, Spawn, Release, ReleasePanic, StreamPoll,
              StreamLeave, TaskPoll, DropHandle, AbortTask, EventsDrop,
              EventsGoto, EventsPanic
<1>5. CASE PollStep
  BY <1>5 DEF PollStep, PollCheck, PollReadPending, PollReadNone,
              PollReadError, PollReadEvent, PollReadReply, WakeSelf,
              PollReadReplyError, PollReadReplyPanic, EventsPanic,
              PollRegister, PollRecheck
<1>6. CASE ServerStep
  BY <1>6 DEF ServerStep, ServerRespond, ServerSendUnasked, ServerSend,
              ServerClose
<1>7. CASE UNCHANGED vars
  BY <1>7
<1> QED
  BY <1>1, <1>2, <1>3, <1>4, <1>5, <1>6, <1>7, StepCases

LEMMA LoopType == ASSUME TypeOK, [Next]_vars PROVE LoopOK'
<1> USE DEF TypeOK, LoopOK
<1>1. CASE \E c \in Calls : CallStep(c)
  BY <1>1 DEF CallStep, Execute, CommandInsert, CommandInsertPanic, SendFeed,
              SendDone, SendFail, ReceiveReply, ReceiveCanceled, Cancel, Finish
<1>2. CASE SendWrite
  BY <1>2 DEF SendWrite
<1>3. CASE ServiceStep
  BY <1>3 DEF ServiceStep, ServiceStopPoisoned, ServiceStop, ServiceWake,
              ServiceAbandon
<1>4. CASE OwnerStep
  BY ZenonT(60), <1>4 DEF OwnerStep, Spawn, Release, ReleasePanic, StreamPoll,
              StreamLeave, TaskPoll, DropHandle, AbortTask, EventsDrop,
              EventsGoto, EventsPanic, Polling
<1>5. CASE PollStep
  BY ZenonT(60), <1>5 DEF PollStep, PollCheck, PollReadPending, PollReadNone,
              PollReadError, PollReadEvent, PollReadReply, WakeSelf,
              PollReadReplyError, PollReadReplyPanic, EventsPanic,
              PollRegister, PollRecheck, Ready, Polling
<1>6. CASE ServerStep
  BY <1>6 DEF ServerStep, ServerRespond, ServerSendUnasked,
              ServerSend, ServerClose, WakeReader, WireOK
<1>7. CASE UNCHANGED vars
  BY <1>7
<1> QED
  BY <1>1, <1>2, <1>3, <1>4, <1>5, <1>6, <1>7, StepCases

\* What the server writes is a message.
LEMMA MessageFact ==
    ASSUME TypeOK
    PROVE  /\ Unasked \subseteq Message
           /\ \A c \in Calls :
                [kind |-> "reply", call |-> c,
                 id |-> IF SupportsOob THEN id[c] ELSE NoId] \in Message
<1>1. Unasked \subseteq Message
  BY DEF Unasked, Message
<1>2. ASSUME NEW c \in Calls
      PROVE  [kind |-> "reply", call |-> c,
              id |-> IF SupportsOob THEN id[c] ELSE NoId] \in Message
  BY ConstantsAssumption DEF Message, TypeOK, CallsOK
<1> QED
  BY <1>1, <1>2

LEMMA WireType == ASSUME TypeOK, [Next]_vars PROVE WireOK'
<1> USE DEF TypeOK, WireOK
<1>1. CASE \E c \in Calls : CallStep(c)
  <2> PICK c \in Calls : CallStep(c)
    BY <1>1
  <2>1. CASE SendFeed(c)
    BY <2>1 DEF SendFeed
  <2>2. CASE CallStep(c) /\ ~SendFeed(c)
    BY <2>2 DEF CallStep, Execute, CommandInsert, CommandInsertPanic,
                SendDone, SendFail, ReceiveReply, ReceiveCanceled, Cancel,
                Finish
  <2> QED
    BY <2>1, <2>2
<1>2. CASE SendWrite
  BY <1>2 DEF SendWrite
<1>3. CASE ServiceStep
  BY <1>3 DEF ServiceStep, ServiceStopPoisoned, ServiceStop, ServiceWake,
              ServiceAbandon
<1>4. CASE OwnerStep
  BY <1>4 DEF OwnerStep, Spawn, Release, ReleasePanic, StreamPoll,
              StreamLeave, TaskPoll, DropHandle, AbortTask, EventsDrop,
              EventsGoto, EventsPanic
<1>5. CASE PollStep
  <2>1. CASE \E kind \in {"bad", "event", "reply"} : Reads(kind)
    <3>1. inbox' \in Seq(Message)
      BY <2>1 DEF Reads
    <3> QED
      BY <1>5, <3>1 DEF PollStep, PollCheck, PollReadPending, PollReadNone,
              PollReadError, PollReadEvent, PollReadReply, WakeSelf,
              PollReadReplyError, PollReadReplyPanic, EventsPanic,
              PollRegister, PollRecheck
  <2>2. CASE \A kind \in {"bad", "event", "reply"} : ~Reads(kind)
    BY <1>5, <2>2 DEF PollStep, PollCheck, PollReadPending, PollReadNone,
              PollReadError, PollReadEvent, PollReadReply, WakeSelf,
              PollReadReplyError, PollReadReplyPanic, EventsPanic,
              PollRegister, PollRecheck
  <2> QED
    BY <2>1, <2>2
<1>6. CASE ServerStep
  <2>1. CASE \E c \in Calls : ServerRespond(c)
    <3> PICK c \in Calls : ServerRespond(c)
      BY <2>1
    <3>1. inbox' \in Seq(Message)
      BY MessageFact DEF ServerRespond, ServerSend
    <3> QED
      BY <3>1 DEF ServerRespond, ServerSend, WakeReader
  <2>2. CASE ServerSendUnasked
    <3> PICK m \in Message : ServerSend(m)
      BY <2>2, MessageFact DEF ServerSendUnasked
    <3>1. inbox' \in Seq(Message)
      BY DEF ServerSend
    <3>2. unasked' \in Nat /\ UNCHANGED <<requests, answered>>
      BY <2>2 DEF ServerSendUnasked
    <3> QED
      BY <3>1, <3>2 DEF ServerSend, WakeReader
  <2>3. CASE ServerClose
    BY <2>3 DEF ServerClose, WakeReader
  <2> QED
    BY <1>6, <2>1, <2>2, <2>3 DEF ServerStep
<1>7. CASE UNCHANGED vars
  BY <1>7
<1> QED
  BY <1>1, <1>2, <1>3, <1>4, <1>5, <1>6, <1>7, StepCases

LEMMA TypeInit == ASSUME Init PROVE TypeOK
<1>1. CallsOK
  BY IdsFact DEF Init, CallsOK
<1>2. CommandsOK
  BY DEF Init, CommandsOK
<1>3. LoopOK
  BY DEF Init, LoopOK
<1>4. WireOK
  <2>1. <<>> \in Seq(Calls) /\ <<>> \in Seq(Message)
    OBVIOUS
  <2> QED
    BY <2>1 DEF Init, WireOK
<1> QED
  BY <1>1, <1>2, <1>3, <1>4 DEF TypeOK

\* Every variable keeps its type, whatever the constants: the state records
\* of QapiService, QapiShared, QapiEvents and the wire stay well formed.
THEOREM TypeCorrect == Spec => []TypeOK
<1>1. Init => TypeOK
  BY TypeInit
<1>2. TypeOK /\ [Next]_vars => TypeOK'
  BY CallsType, CommandsType, LoopType, WireType DEF TypeOK
<1> QED
  BY <1>1, <1>2, PTL DEF Spec

-----------------------------------------------------------------------------
(* The wake-up protocol. *)

LEMMA WakeStep == ASSUME TypeOK, WakeInv, [Next]_vars PROVE WakeInv'
<1> USE DEF TypeOK, WakeInv
<1>1. CASE \E c \in Calls : CallStep(c)
  <2>1. UNCHANGED <<svc, ev, woken, stop, stopWaker, input>>
    BY <1>1 DEF CallStep, Execute, CommandInsert, CommandInsertPanic, SendFeed,
                SendDone, SendFail, ReceiveReply, ReceiveCanceled, Cancel,
                Finish
  <2> QED
    BY <2>1
<1>2. CASE SendWrite
  BY <1>2 DEF SendWrite
<1>3. CASE ServiceStep
  BY <1>3 DEF ServiceStep, ServiceStopPoisoned, ServiceStop, ServiceWake,
              ServiceAbandon, LoopOK
<1>4. CASE OwnerStep
  BY <1>4 DEF OwnerStep, Spawn, Release, ReleasePanic, StreamPoll,
              StreamLeave, TaskPoll, DropHandle, AbortTask, EventsDrop,
              EventsGoto, EventsPanic
<1>5. CASE PollStep
  BY <1>5 DEF PollStep, PollCheck, PollReadPending, PollReadNone,
              PollReadError, PollReadEvent, PollReadReply, WakeSelf,
              PollReadReplyError, PollReadReplyPanic, EventsPanic,
              PollRegister, PollRecheck, Ready, Reads
<1>6. CASE ServerStep
  BY <1>6 DEF ServerStep, ServerRespond, ServerSendUnasked, ServerSend,
              ServerClose, WakeReader, LoopOK, WireOK
<1>7. CASE UNCHANGED vars
  BY <1>7
<1> QED
  BY <1>1, <1>2, <1>3, <1>4, <1>5, <1>6, <1>7, StepCases

-----------------------------------------------------------------------------
(* The handshake of stop(), release() and the two destructors. *)

LEMMA HandshakeStep ==
    ASSUME TypeOK, HandshakeInv, WakeInv, [Next]_vars
    PROVE  HandshakeInv'
<1> USE DEF TypeOK, HandshakeInv
<1>1. CASE \E c \in Calls : CallStep(c)
  <2>1. UNCHANGED <<svc, ev, abandoned, stop, released>>
    BY <1>1 DEF CallStep, Execute, CommandInsert, CommandInsertPanic, SendFeed,
                SendDone, SendFail, ReceiveReply, ReceiveCanceled, Cancel,
                Finish
  <2>2. ~poisoned' => ~poisoned /\ (abandoned => UNCHANGED pending)
    BY <1>1 DEF CallStep, Execute, CommandInsert, CommandInsertPanic, SendFeed,
                SendDone, SendFail, ReceiveReply, ReceiveCanceled, Cancel,
                Finish
  <2> QED
    BY <2>1, <2>2
<1>2. CASE SendWrite
  BY <1>2 DEF SendWrite
<1>3. CASE ServiceStep
  BY <1>3 DEF ServiceStep, ServiceStopPoisoned, ServiceStop, ServiceWake,
              ServiceAbandon, WakeInv
<1>4. CASE OwnerStep
  <2>1. CASE Release
    BY <2>1 DEF Release, CommandsLocked, CommandsOK, LoopOK
  <2>2. CASE EventsDrop
    BY <2>2 DEF EventsDrop, CommandsOK
  <2>3. CASE ev' # "gone" \/ UNCHANGED ev
    <3>1. CASE Release \/ EventsDrop
      BY <3>1, <2>1, <2>2
    <3>2. CASE UNCHANGED <<svc, commands, stop, released>>
      BY <3>2, <2>3
    <3> QED
      BY <1>4, <3>1, <3>2 DEF OwnerStep, Spawn, ReleasePanic, StreamPoll,
                  StreamLeave, TaskPoll, DropHandle, AbortTask, EventsGoto,
                  EventsPanic
  <2> QED
    BY <1>4, <2>2, <2>3 DEF OwnerStep, Spawn, Release, ReleasePanic,
                StreamPoll, StreamLeave, TaskPoll, DropHandle, AbortTask,
                EventsGoto, EventsPanic
<1>5. CASE PollStep
  BY <1>5 DEF PollStep, PollCheck, PollReadPending, PollReadNone,
              PollReadError, PollReadEvent, PollReadReply, WakeSelf,
              PollReadReplyError, PollReadReplyPanic, EventsPanic,
              PollRegister, PollRecheck, Ready, Reads
<1>6. CASE ServerStep
  <2>1. UNCHANGED <<svc, ev, commands, stop, released>>
    BY <1>6 DEF ServerStep, ServerRespond, ServerSendUnasked, ServerSend,
              ServerClose
  <2> QED
    BY <2>1
<1>7. CASE UNCHANGED vars
  BY <1>7
<1> QED
  BY <1>1, <1>2, <1>3, <1>4, <1>5, <1>6, <1>7, StepCases

LEMMA OutliveStep ==
    ASSUME TypeOK, EventsOutliveService, [Next]_vars
    PROVE  EventsOutliveService'
<1> USE DEF TypeOK, EventsOutliveService
<1>1. CASE \E c \in Calls : CallStep(c)
  <2>1. UNCHANGED <<svc, stop, released, input>>
    BY <1>1 DEF CallStep, Execute, CommandInsert, CommandInsertPanic, SendFeed,
                SendDone, SendFail, ReceiveReply, ReceiveCanceled, Cancel,
                Finish
  <2> QED
    BY <2>1
<1>2. CASE SendWrite
  BY <1>2 DEF SendWrite
<1>3. CASE ServiceStep
  BY <1>3 DEF ServiceStep, ServiceStopPoisoned, ServiceStop, ServiceWake,
              ServiceAbandon, LoopOK, CallsOK
<1>4. CASE OwnerStep
  BY <1>4 DEF OwnerStep, Spawn, Release, ReleasePanic, StreamPoll,
              StreamLeave, TaskPoll, DropHandle, AbortTask, EventsDrop,
              EventsGoto, EventsPanic
<1>5. CASE PollStep
  BY <1>5 DEF PollStep, PollCheck, PollReadPending, PollReadNone,
              PollReadError, PollReadEvent, PollReadReply, WakeSelf,
              PollReadReplyError, PollReadReplyPanic, EventsPanic,
              PollRegister, PollRecheck
<1>6. CASE ServerStep
  BY <1>6 DEF ServerStep, ServerRespond, ServerSendUnasked, ServerSend,
              ServerClose
<1>7. CASE UNCHANGED vars
  BY <1>7
<1> QED
  BY <1>1, <1>2, <1>3, <1>4, <1>5, <1>6, <1>7, StepCases

-----------------------------------------------------------------------------
(* The command map: keys, and who an entry belongs to. *)

\* Only these steps change what KeyInv speaks of.
LEMMA KeyFrame ==
    ASSUME TypeOK, [Next]_vars
    PROVE  \/ \E c \in Calls : \/ Execute(c) \/ CommandInsert(c)
                             \/ CommandInsertPanic(c)
           \/ EventsDrop \/ PollReadReply \/ PollReadReplyError
           \/ /\ UNCHANGED <<nextId, id, got, pending>>
              /\ \A c \in Calls :
                   /\ pc'[c] \in {"new", "created"} => pc'[c] = pc[c]
                   /\ pc[c] = "new" => pc'[c] = "new"
<1>1. CASE \E c \in Calls : CallStep(c)
  <2> PICK c \in Calls : CallStep(c)
    BY <1>1
  <2>1. CASE SendFeed(c) \/ SendDone(c)
    BY <2>1 DEF SendFeed, SendDone, Become, TypeOK, CallsOK
  <2>2. CASE SendFail(c) \/ ReceiveReply(c) \/ ReceiveCanceled(c) \/ Cancel(c)
    BY <2>2 DEF SendFail, Backpressure, ReceiveReply, ReceiveCanceled, Cancel,
                Finish, Become, TypeOK, CallsOK, Inserted
  <2> QED
    BY <2>1, <2>2 DEF CallStep
<1>2. CASE SendWrite
  BY <1>2 DEF SendWrite
<1>3. CASE ServiceStep
  BY <1>3 DEF ServiceStep, ServiceStopPoisoned, ServiceStop, ServiceWake,
              ServiceAbandon
<1>4. CASE OwnerStep
  BY <1>4 DEF OwnerStep, Spawn, Release, ReleasePanic, StreamPoll,
              StreamLeave, TaskPoll, DropHandle, AbortTask, EventsGoto,
              EventsPanic
<1>5. CASE PollStep
  BY <1>5 DEF PollStep, PollCheck, PollReadPending, PollReadNone,
              PollReadError, PollReadEvent, PollReadReplyPanic, EventsPanic,
              PollRegister, PollRecheck
<1>6. CASE ServerStep
  BY <1>6 DEF ServerStep, ServerRespond, ServerSendUnasked, ServerSend,
              ServerClose
<1>7. CASE UNCHANGED vars
  BY <1>7
<1> QED
  BY <1>1, <1>2, <1>3, <1>4, <1>5, <1>6, <1>7, StepCases

LEMMA KeyStep == ASSUME TypeOK, KeyInv, [Next]_vars PROVE KeyInv'
<1> USE ConstantsAssumption DEF TypeOK, CallsOK, CommandsOK, KeyInv
<1>1. CASE \E c \in Calls : Execute(c)
  <2> PICK c \in Calls : Execute(c)
    BY <1>1
  <2>1. UNCHANGED <<got, pending>> /\ pc' = [pc EXCEPT ![c] = "created"]
    BY DEF Execute, Become
  <2>2. pc[c] = "new" /\ \A k \in Ids : pending[k] # c
    BY DEF Execute
  <2>3. CASE SupportsOob
    <3>1. nextId' = nextId + 1 /\ id' = [id EXCEPT ![c] = nextId % IdModulus]
      BY <2>3 DEF Execute, CommandId
    <3>2. nextId' <= IdModulus => id'[c] = nextId
      BY <3>1
    <3>3. \A k \in Ids : pending'[k] # NoCall => id'[pending'[k]] = k
      BY <2>1, <2>2, <3>1
    <3>4. SupportsOob /\ nextId' <= IdModulus =>
            \A d \in Calls : pc'[d] # "new" =>
              /\ id'[d] < nextId'
              /\ \A e \in Calls \ {d} : pc'[e] # "new" => id'[d] # id'[e]
      <4> SUFFICES ASSUME nextId' <= IdModulus, NEW d \in Calls, pc'[d] # "new"
                   PROVE  /\ id'[d] < nextId'
                          /\ \A e \in Calls \ {d} :
                               pc'[e] # "new" => id'[d] # id'[e]
        OBVIOUS
      <4>1. \A e \in Calls \ {c} : pc'[e] # "new" =>
              pc[e] # "new" /\ id'[e] = id[e] /\ id[e] < nextId
        BY <2>1, <2>3, <3>1
      <4>2. CASE d = c
        BY <2>1, <2>3, <3>1, <3>2, <4>1, <4>2
      <4>3. CASE d # c
        <5>1. id'[d] = id[d] /\ id[d] < nextId /\ id[d] \in Nat
          BY <4>1, <4>3 DEF Ids
        <5>2. id'[d] < nextId'
          BY <3>1, <5>1
        <5>3. ASSUME NEW e \in Calls \ {d}, pc'[e] # "new"
              PROVE  id'[d] # id'[e]
          <6>1. CASE e = c
            BY <3>1, <3>2, <5>1, <6>1
          <6>2. CASE e # c
            <7>1. pc[d] # "new" /\ pc[e] # "new" /\ nextId <= IdModulus
              BY <3>1, <4>1, <4>3, <5>3, <6>2
            <7> QED
              BY <2>3, <4>1, <5>1, <5>3, <6>2, <7>1
          <6> QED
            BY <6>1, <6>2
        <5> QED
          BY <5>2, <5>3
      <4> QED
        BY <4>2, <4>3
    <3> QED
      BY <2>1, <2>2, <2>3, <3>3, <3>4
  <2>4. CASE ~SupportsOob
    <3>1. UNCHANGED <<nextId, id>>
      BY <2>4 DEF Execute, CommandId
    <3> QED
      BY <2>1, <2>2, <2>4, <3>1
  <2> QED
    BY <2>3, <2>4
<1>2. CASE \E c \in Calls : CommandInsert(c) \/ CommandInsertPanic(c)
  <2> PICK c \in Calls : CommandInsert(c) \/ CommandInsertPanic(c)
    BY <1>2
  <2>1. UNCHANGED <<nextId, id, got>> /\ pc[c] = "created"
    BY DEF CommandInsert, CommandInsertPanic
  <2>2. \E s \in {"sending", "panicked"} : pc' = [pc EXCEPT ![c] = s]
    BY DEF CommandInsert, CommandInsertPanic, Become
  <2>3. pending' \in {pending, [pending EXCEPT ![id[c]] = c]}
    BY DEF CommandInsert, CommandInsertPanic
  <2> QED
    BY <2>1, <2>2, <2>3
<1>3. CASE EventsDrop
  BY <1>3 DEF EventsDrop
<1>4. CASE PollReadReplyError
  BY <1>4 DEF PollReadReplyError
<1>5. CASE PollReadReply
  <2> DEFINE k == Key(Head(inbox))
             d == pending[k]
  <2>1. /\ pending' = [pending EXCEPT ![k] = NoCall]
        /\ got' = [got EXCEPT ![d] = Head(inbox).call]
        /\ UNCHANGED <<nextId, pc, id>>
        /\ d # NoCall /\ Live(d)
    BY <1>5 DEF PollReadReply, Deliverable
  <2>2. Head(inbox) \in Message
    BY <1>5 DEF PollReadReply, Reads, WireOK
  <2>3. k \in Ids
    BY <1>5, <2>2, IdsFact DEF PollReadReply, Deliverable, WellFormed, Key, Message
  <2> QED
    BY <2>1, <2>3 DEF Live, Inserted
<1>6. CASE /\ UNCHANGED <<nextId, id, got, pending>>
           /\ \A c \in Calls :
                /\ pc'[c] \in {"new", "created"} => pc'[c] = pc[c]
                /\ pc[c] = "new" => pc'[c] = "new"
  BY <1>6
<1> QED
  BY <1>1, <1>2, <1>3, <1>4, <1>5, <1>6, KeyFrame

\* Outside the calls' own steps, only entries of the map disappear.
LEMMA SerialFrame ==
    ASSUME TypeOK, [Next]_vars
    PROVE  \/ \E c \in Calls : CallStep(c)
           \/ /\ UNCHANGED <<pc, writeLock, poisoned, nextId>>
              /\ \A k \in Ids : pending'[k] \in {pending[k], NoCall}
<1> USE DEF TypeOK, CommandsOK
<1>1. CASE SendWrite
  BY <1>1 DEF SendWrite
<1>2. CASE ServiceStep
  BY <1>2 DEF ServiceStep, ServiceStopPoisoned, ServiceStop, ServiceWake,
              ServiceAbandon
<1>3. CASE OwnerStep
  BY <1>3 DEF OwnerStep, Spawn, Release, ReleasePanic, StreamPoll,
              StreamLeave, TaskPoll, DropHandle, AbortTask, EventsDrop,
              EventsGoto, EventsPanic
<1>4. CASE PollStep
  BY <1>4 DEF PollStep, PollCheck, PollReadPending, PollReadNone,
              PollReadError, PollReadEvent, PollReadReply, WakeSelf,
              PollReadReplyError, PollReadReplyPanic, EventsPanic,
              PollRegister, PollRecheck
<1>5. CASE ServerStep
  BY <1>5 DEF ServerStep, ServerRespond, ServerSendUnasked, ServerSend,
              ServerClose
<1>6. CASE UNCHANGED vars
  BY <1>6
<1> QED
  BY <1>1, <1>2, <1>3, <1>4, <1>5, <1>6, StepCases

\* Finding a sender under the key of a call about to register has a cause.
LEMMA DuplicateHasCause ==
    ASSUME TypeOK, KeyInv, SerialInv, NEW c \in Calls,
           pc[c] = "created", writeLock = NoCall, ~poisoned, DuplicateId(c)
    PROVE  IF SupportsOob THEN nextId > IdModulus
           ELSE \E d \in Calls : pc[d] \in {"cancelled", "ioerror"}
<1> DEFINE d == pending[id[c]]
<1>1. id[c] \in Ids /\ d \in Calls /\ id[d] = id[c] /\ d # c
  BY DEF TypeOK, CallsOK, CommandsOK, DuplicateId, KeyInv
<1>2. pc[d] \notin {"new", "created"}
  BY <1>1 DEF KeyInv
<1>3. CASE SupportsOob
  <2>1. ~(nextId <= IdModulus)
    BY <1>1, <1>2, <1>3 DEF KeyInv
  <2> QED
    BY <1>3, <2>1, ConstantsAssumption DEF TypeOK, CallsOK
<1>4. CASE ~SupportsOob
  <2>1. ~Live(d)
    BY <1>1, <1>4, ConstantsAssumption DEF SerialInv, SerialWithoutIds
  <2>2. pc[d] \in {"cancelled", "ioerror"}
    BY <1>1, <1>4, <2>1, ConstantsAssumption DEF SerialInv
  <2> QED
    BY <1>1, <1>4, <2>2
<1> QED
  BY <1>3, <1>4

LEMMA SerialStep ==
    ASSUME TypeOK, KeyInv, SerialInv, DuplicateIdCause, [Next]_vars
    PROVE  SerialInv' /\ DuplicateIdCause'
<1> USE ConstantsAssumption
        DEF TypeOK, CallsOK, CommandsOK, SerialInv, SerialWithoutIds,
            DuplicateIdCause, Live, Inserted
<1>1. CASE \E c \in Calls : CallStep(c)
  <2> PICK c \in Calls : CallStep(c)
    BY <1>1
  <2>1. CASE Execute(c)
    BY <2>1 DEF Execute, CommandId, Become
  <2>2. CASE CommandInsert(c)
    BY <2>2 DEF CommandInsert, Become
  <2>3. CASE CommandInsertPanic(c)
    <3>1. IF SupportsOob THEN nextId > IdModulus
          ELSE \E d \in Calls : pc[d] \in {"cancelled", "ioerror"}
      BY <2>3, DuplicateHasCause DEF CommandInsertPanic
    <3>2. /\ pc' = [pc EXCEPT ![c] = "panicked"] /\ poisoned' = TRUE
          /\ UNCHANGED <<nextId, writeLock>>
          /\ pc[c] = "created" /\ writeLock = NoCall
          /\ pending' \in {pending, [pending EXCEPT ![id[c]] = c]}
      BY <2>3 DEF CommandInsertPanic, Become
    <3>3. DuplicateIdCause'
      BY <3>1, <3>2
    <3>4. SerialInv'
      BY <3>2
    <3> QED
      BY <3>3, <3>4
  <2>4. CASE SendFeed(c)
    BY <2>4 DEF SendFeed, Become
  <2>5. CASE SendDone(c)
    BY <2>5 DEF SendDone, Become, Unlock
  <2>6. CASE SendFail(c) \/ Cancel(c)
    BY <2>6 DEF SendFail, Backpressure, Cancel, Finish, Become, Unlock
  <2>7. CASE ReceiveReply(c) \/ ReceiveCanceled(c)
    <3>1. \A k \in Ids : pending[k] # c
      BY <2>7 DEF ReceiveReply, ReceiveCanceled, KeyInv
    <3> QED
      BY <2>7, <3>1 DEF ReceiveReply, ReceiveCanceled, Finish, Become, Unlock
  <2> QED
    BY <2>1, <2>2, <2>3, <2>4, <2>5, <2>6, <2>7 DEF CallStep
<1>2. CASE /\ UNCHANGED <<pc, writeLock, poisoned, nextId>>
           /\ \A k \in Ids : pending'[k] \in {pending[k], NoCall}
  BY <1>2
<1> QED
  BY <1>1, <1>2, SerialFrame

-----------------------------------------------------------------------------
(* The theorems. *)

IInv == /\ TypeOK /\ WakeInv /\ HandshakeInv /\ EventsOutliveService
        /\ KeyInv /\ SerialInv /\ DuplicateIdCause

LEMMA InitIInv == ASSUME Init PROVE IInv
<1>1. TypeOK
  BY TypeInit
<1>2. WakeInv /\ HandshakeInv /\ EventsOutliveService /\ DuplicateIdCause
  BY DEF Init, WakeInv, HandshakeInv, EventsOutliveService, DuplicateIdCause
<1>3. KeyInv
  BY ConstantsAssumption DEF Init, KeyInv
<1>4. SerialInv
  BY DEF Init, SerialInv, SerialWithoutIds, Live, Inserted
<1> QED
  BY <1>1, <1>2, <1>3, <1>4 DEF IInv

LEMMA StepIInv == ASSUME IInv, [Next]_vars PROVE IInv'
<1>1. TypeOK'
  BY CallsType, CommandsType, LoopType, WireType DEF IInv, TypeOK
<1>2. WakeInv' /\ HandshakeInv' /\ EventsOutliveService'
  BY WakeStep, HandshakeStep, OutliveStep DEF IInv
<1>3. KeyInv' /\ SerialInv' /\ DuplicateIdCause'
  BY KeyStep, SerialStep DEF IInv
<1> QED
  BY <1>1, <1>2, <1>3 DEF IInv

\* IInv holds initially and is kept by every step.
LEMMA Inductive == Spec => []IInv
<1>1. Init => IInv
  BY InitIInv
<1>2. IInv /\ [Next]_vars => IInv'
  BY StepIInv
<1> QED
  BY <1>1, <1>2, PTL DEF Spec

\* No wake-up of the event loop is ever lost.
THEOREM NoWakeupIsLost == Spec => []NoLostWakeup
<1>1. IInv => NoLostWakeup
  BY DEF IInv, WakeInv, NoLostWakeup
<1> QED
  BY <1>1, Inductive, PTL

\* No future waits on a map that nobody serves any more.
THEOREM NobodyStranded == Spec => []NoCallStranded
<1>1. IInv => NoCallStranded
  BY DEF IInv, HandshakeInv, NoCallStranded
<1> QED
  BY <1>1, Inductive, PTL

\* Dropping the service stops a released event loop, whichever came first:
\* stop() and release() meet under the mutex.
THEOREM StopIsSeen == Spec => []ReleaseHandshake
<1>1. IInv => ReleaseHandshake
  BY DEF IInv, HandshakeInv, ReleaseHandshake
<1> QED
  BY <1>1, Inductive, PTL

\* Dropping the service spares an owner who iterates over the events and has
\* not released them.
THEOREM ServiceDropSpares == Spec => []EventsOutliveService
<1>1. IInv => EventsOutliveService
  BY DEF IInv
<1> QED
  BY <1>1, Inductive, PTL

\* Without ids, the sink guard serialises the calls.
THEOREM CallsAreSerial == Spec => []SerialWithoutIds
<1>1. IInv => SerialWithoutIds
  BY DEF IInv, SerialInv
<1> QED
  BY <1>1, Inductive, PTL

\* The duplicate id panic needs a wrapped counter or, without ids, a future
\* that ended early.
THEOREM PanicHasCause == Spec => []DuplicateIdCause
<1>1. IInv => DuplicateIdCause
  BY DEF IInv
<1> QED
  BY <1>1, Inductive, PTL

-----------------------------------------------------------------------------
(* Answers: facts about queues, and what a step does to a command.           *)

LEMMA AppendFact ==
    ASSUME NEW S, NEW s \in Seq(S), NEW e \in S
    PROVE  /\ Append(s, e) \in Seq(S)
           /\ DOMAIN Append(s, e) = DOMAIN s \cup {Len(s) + 1}
           /\ Len(s) + 1 \notin DOMAIN s
           /\ \A i \in DOMAIN s : Append(s, e)[i] = s[i]
           /\ Append(s, e)[Len(s) + 1] = e
OBVIOUS

LEMMA TailFact ==
    ASSUME NEW S, NEW s \in Seq(S), s # <<>>
    PROVE  /\ Tail(s) \in Seq(S)
           /\ 1 \in DOMAIN s /\ s[1] = Head(s)
           /\ \A i \in DOMAIN Tail(s) :
                /\ i \in Nat /\ i + 1 \in DOMAIN s /\ i + 1 # 1
                /\ Tail(s)[i] = s[i + 1]
OBVIOUS

LEMMA ElementFact ==
    ASSUME NEW S, NEW s \in Seq(S), NEW i \in DOMAIN s
    PROVE  s[i] \in S
OBVIOUS

\* A future that has fed its command never goes back, and keeps its id.
LEMMA CallFrame ==
    ASSUME TypeOK, [Next]_vars, NEW c \in Calls
    PROVE  /\ pc[c] \notin {"new", "created", "sending"}
                => pc'[c] \notin {"new", "created", "sending"}
           /\ pc[c] # "new" => id'[c] = id[c]
<1> USE DEF TypeOK, CallsOK
<1>1. CASE \E d \in Calls : CallStep(d)
  <2> PICK d \in Calls : CallStep(d)
    BY <1>1
  <2>1. CASE Execute(d)
    BY <2>1 DEF Execute, CommandId, Become
  <2>2. CASE CommandInsert(d) \/ CommandInsertPanic(d) \/ SendFeed(d) \/ SendDone(d)
    BY <2>2 DEF CommandInsert, CommandInsertPanic, SendFeed, SendDone, Become
  <2>3. CASE SendFail(d) \/ ReceiveReply(d) \/ ReceiveCanceled(d) \/ Cancel(d)
    BY <2>3 DEF SendFail, ReceiveReply, ReceiveCanceled, Cancel, Finish, Become
  <2> QED
    BY <2>1, <2>2, <2>3 DEF CallStep
<1>2. CASE UNCHANGED <<pc, id>>
  BY <1>2
<1> QED
  BY <1>1, <1>2, StepCases, SerialFrame, KeyFrame
     DEF EventsDrop, PollReadReply, PollReadReplyError, Execute,
         CommandInsert, CommandInsertPanic, CallStep

\* The steps that move a command or an answer.
LEMMA WireFrame ==
    ASSUME TypeOK, [Next]_vars
    PROVE  \/ \E c \in Calls : SendFeed(c) \/ ServerRespond(c)
           \/ SendWrite \/ ServerSendUnasked
           \/ \E kind \in {"reply", "event", "bad"} :
                Reads(kind) /\ UNCHANGED <<outbuf, requests, pc, id>>
           \/ UNCHANGED <<outbuf, requests, inbox>>
<1>1. CASE \E c \in Calls : CallStep(c)
  BY <1>1 DEF CallStep, Execute, CommandInsert, CommandInsertPanic, SendDone,
              SendFail, ReceiveReply, ReceiveCanceled, Cancel, Finish
<1>2. CASE ServiceStep
  BY <1>2 DEF ServiceStep, ServiceStopPoisoned, ServiceStop, ServiceWake,
              ServiceAbandon
<1>3. CASE OwnerStep
  BY <1>3 DEF OwnerStep, Spawn, Release, ReleasePanic, StreamPoll,
              StreamLeave, TaskPoll, DropHandle, AbortTask, EventsDrop,
              EventsGoto, EventsPanic
<1>4. CASE PollStep
  BY <1>4 DEF PollStep, PollCheck, PollReadPending, PollReadNone,
              PollReadError, PollReadEvent, PollReadReply, PollReadReplyError,
              PollReadReplyPanic, EventsPanic, PollRegister, PollRecheck
<1>5. CASE ServerStep
  BY <1>5 DEF ServerStep, ServerClose
<1>6. CASE UNCHANGED vars
  BY <1>6
<1> QED
  BY <1>1, <1>2, <1>3, <1>4, <1>5, <1>6, StepCases

-----------------------------------------------------------------------------
(* Every command is in one place at a time, and so is its answer. *)

LEMMA TransitStep ==
    ASSUME TypeOK, TransitInv, [Next]_vars
    PROVE  /\ TransitInv'
           /\ \A c \in Calls : InTransit(c)' => InTransit(c) \/ SendFeed(c)
           /\ \A c \in Calls :
                Reads("reply") /\ Head(inbox).call = c => ~InTransit(c)'
<1> USE DEF TypeOK, WireOK, InTransit, InBuffer, InAnswers
<1>1. CASE \E c \in Calls : SendFeed(c)
  <2> PICK c \in Calls : SendFeed(c)
    BY <1>1
  <2>1. /\ pc[c] = "sending" /\ pc'[c] = "flushing"
        /\ outbuf' = Append(outbuf, c) /\ UNCHANGED <<requests, inbox, id>>
    BY DEF SendFeed, Become, CallsOK
  <2>2. ~InTransit(c)
    BY <2>1 DEF TransitInv
  <2>3. \A d \in Calls : InBuffer(d)' => InBuffer(d) \/ d = c
    BY <2>1, AppendFact
  <2>4. \A i, j \in DOMAIN outbuf' : outbuf'[i] = outbuf'[j] => i = j
    BY <2>1, <2>2, AppendFact DEF TransitInv
  <2>5. \A d \in Calls : InTransit(d)' =>
          pc'[d] \notin {"new", "created", "sending"}
    BY <2>1, <2>3, CallFrame DEF TransitInv
  <2>6. ~Reads("reply")
    BY DEF SendFeed, Reads
  <2> QED
    BY <2>1, <2>2, <2>3, <2>4, <2>5, <2>6 DEF TransitInv
<1>2. CASE SendWrite
  <2>1. /\ outbuf # <<>> /\ outbuf' = Tail(outbuf)
        /\ requests' = requests \cup {Head(outbuf)}
        /\ UNCHANGED <<inbox, id, pc>>
    BY <1>2 DEF SendWrite
  <2>2. /\ InBuffer(Head(outbuf)) /\ Head(outbuf) \in Calls
        /\ \A c \in Calls : c = Head(outbuf) => ~InBuffer(c)'
    <3>1. outbuf \in Seq(Calls) /\ outbuf # <<>>
      BY <2>1
    <3>2. /\ 1 \in DOMAIN outbuf /\ outbuf[1] = Head(outbuf)
          /\ \A i \in DOMAIN Tail(outbuf) :
               /\ i + 1 \in DOMAIN outbuf /\ i + 1 # 1
               /\ Tail(outbuf)[i] = outbuf[i + 1]
      BY <3>1, TailFact
    <3>3. \A i \in DOMAIN outbuf : i # 1 => outbuf[i] # outbuf[1]
      BY <3>2 DEF TransitInv
    <3>4. Head(outbuf) \in Calls
      BY <3>1, <3>2, ElementFact
    <3>5. \A i \in DOMAIN outbuf' : outbuf'[i] # Head(outbuf)
      BY <2>1, <3>2, <3>3
    <3> QED
      BY <3>2, <3>4, <3>5
  <2>3. \A d \in Calls : InBuffer(d)' => InBuffer(d)
    BY <2>1, TailFact
  <2>4. \A i, j \in DOMAIN outbuf' : outbuf'[i] = outbuf'[j] => i = j
    BY <2>1, TailFact DEF TransitInv
  <2>5. ~Reads("reply")
    BY <1>2 DEF SendWrite, Reads
  <2> QED
    BY SMTT(30), <2>1, <2>2, <2>3, <2>4, <2>5 DEF TransitInv
<1>3. CASE \E c \in Calls : ServerRespond(c)
  <2> PICK c \in Calls : ServerRespond(c)
    BY <1>3
  <2> DEFINE m == [kind |-> "reply", call |-> c,
                   id |-> IF SupportsOob THEN id[c] ELSE NoId]
  <2>1. /\ c \in requests /\ requests' = requests \ {c}
        /\ inbox' = Append(inbox, m)
        /\ UNCHANGED <<outbuf, id, pc>>
    BY DEF ServerRespond, ServerSend
  <2>2. m \in Message /\ m.kind = "reply" /\ m.call = c
        /\ m.id = (IF SupportsOob THEN id[c] ELSE NoId)
    BY MessageFact
  <2>3. ~InBuffer(c) /\ ~InAnswers(c) /\ c # Stray
    BY <2>1, ConstantsAssumption DEF TransitInv
  <2> HIDE DEF m
  <2>4. \A d \in Calls : InAnswers(d)' => InAnswers(d) \/ d = c
    BY <2>1, <2>2, AppendFact
  <2>5. \A i, j \in DOMAIN inbox' :
          /\ inbox'[i].kind = "reply" /\ inbox'[j].kind = "reply"
          /\ inbox'[i].call = inbox'[j].call /\ inbox'[i].call # Stray
          => i = j
    BY <2>1, <2>2, <2>3, AppendFact DEF TransitInv
  <2>6. \A i \in DOMAIN inbox' : inbox'[i].kind = "reply" =>
          IF inbox'[i].call = Stray THEN "stray" \in Faults
          ELSE inbox'[i].id = IF SupportsOob THEN id[inbox'[i].call] ELSE NoId
    BY <2>1, <2>2, <2>3, AppendFact DEF TransitInv
  <2>7. ~Reads("reply")
    <3>1. Len(inbox') = Len(inbox) + 1
      BY <2>1, <2>2
    <3>2. Reads("reply") => Len(inbox') = Len(inbox) - 1
      BY DEF Reads
    <3> QED
      BY <3>1, <3>2
  <2> QED
    BY <2>1, <2>3, <2>4, <2>5, <2>6, <2>7 DEF TransitInv
<1>4. CASE ServerSendUnasked
  <2> PICK m \in Unasked : ServerSend(m)
    BY <1>4 DEF ServerSendUnasked
  <2>1. inbox' = Append(inbox, m) /\ UNCHANGED <<outbuf, id, pc, requests>>
    BY <1>4 DEF ServerSendUnasked, ServerSend
  <2>2. /\ m \in Message /\ m.call = Stray
        /\ m.kind = "reply" => "stray" \in Faults
    BY MessageFact DEF Unasked
  <2>3. \A d \in Calls : InAnswers(d)' => InAnswers(d)
    BY <2>1, <2>2, AppendFact, ConstantsAssumption
  <2>4. \A i, j \in DOMAIN inbox' :
          /\ inbox'[i].kind = "reply" /\ inbox'[j].kind = "reply"
          /\ inbox'[i].call = inbox'[j].call /\ inbox'[i].call # Stray
          => i = j
    BY <2>1, <2>2, AppendFact DEF TransitInv
  <2>5. \A i \in DOMAIN inbox' : inbox'[i].kind = "reply" =>
          IF inbox'[i].call = Stray THEN "stray" \in Faults
          ELSE inbox'[i].id = IF SupportsOob THEN id[inbox'[i].call] ELSE NoId
    BY <2>1, <2>2, AppendFact DEF TransitInv
  <2>6. ~Reads("reply")
    <3>1. Len(inbox') = Len(inbox) + 1
      BY <2>1, <2>2
    <3>2. Reads("reply") => Len(inbox') = Len(inbox) - 1
      BY DEF Reads
    <3> QED
      BY <3>1, <3>2
  <2> QED
    BY <2>1, <2>3, <2>4, <2>5, <2>6 DEF TransitInv
<1>5. CASE \E kind \in {"reply", "event", "bad"} :
             Reads(kind) /\ UNCHANGED <<outbuf, requests, pc, id>>
  <2>1. /\ inbox # <<>> /\ inbox' = Tail(inbox)
        /\ UNCHANGED <<outbuf, requests, pc, id>>
    BY <1>5 DEF Reads
  <2>2. \A d \in Calls : InAnswers(d)' => InAnswers(d)
    BY <2>1, TailFact
  <2>3. \A c \in Calls : Head(inbox).kind = "reply" /\ Head(inbox).call = c =>
          InAnswers(c) /\ ~InAnswers(c)'
    <3> SUFFICES ASSUME NEW c \in Calls, Head(inbox).kind = "reply",
                        Head(inbox).call = c
                 PROVE  InAnswers(c) /\ ~InAnswers(c)'
      OBVIOUS
    <3>1. inbox \in Seq(Message) /\ inbox # <<>>
      BY <2>1
    <3>2. /\ 1 \in DOMAIN inbox /\ inbox[1] = Head(inbox)
          /\ \A i \in DOMAIN Tail(inbox) :
               /\ i + 1 \in DOMAIN inbox /\ i + 1 # 1
               /\ Tail(inbox)[i] = inbox[i + 1]
      BY <3>1, TailFact
    <3>3. inbox[1].call # Stray
      BY <3>2, ConstantsAssumption
    <3>4. \A i \in DOMAIN inbox :
            i # 1 /\ inbox[i].kind = "reply" => inbox[i].call # inbox[1].call
      BY <3>2, <3>3 DEF TransitInv
    <3>5. \A i \in DOMAIN inbox' :
            ~(inbox'[i].kind = "reply" /\ inbox'[i].call = c)
      BY <2>1, <3>2, <3>4
    <3> QED
      BY <3>2, <3>5
  <2>4. Reads("reply") => Head(inbox).kind = "reply"
    BY DEF Reads
  <2>5. \A i, j \in DOMAIN inbox' :
          /\ inbox'[i].kind = "reply" /\ inbox'[j].kind = "reply"
          /\ inbox'[i].call = inbox'[j].call /\ inbox'[i].call # Stray
          => i = j
    BY SMTT(30), <2>1, TailFact DEF TransitInv
  <2>6. \A i \in DOMAIN inbox' : inbox'[i].kind = "reply" =>
          IF inbox'[i].call = Stray THEN "stray" \in Faults
          ELSE inbox'[i].id = IF SupportsOob THEN id[inbox'[i].call] ELSE NoId
    BY <2>1, TailFact DEF TransitInv
  <2>7. \A c \in Calls : InTransit(c)' => InTransit(c)
    BY <2>1, <2>2
  <2>8. TransitInv'
    BY <2>1, <2>2, <2>5, <2>6, <2>7 DEF TransitInv
  <2>9. \A c \in Calls :
          Reads("reply") /\ Head(inbox).call = c => ~InTransit(c)'
    BY <2>1, <2>3, <2>4 DEF TransitInv
  <2> QED
    BY <2>7, <2>8, <2>9
<1>6. CASE UNCHANGED <<outbuf, requests, inbox>>
  <2>1. \A c \in Calls : InTransit(c)' <=> InTransit(c)
    BY <1>6
  <2>2. \A i \in DOMAIN inbox : inbox[i].kind = "reply" =>
          inbox[i].call \in Calls \cup {Stray}
    <3>1. \A i \in DOMAIN inbox : inbox[i] \in Message
      BY ElementFact
    <3> QED
      BY <3>1 DEF Message
  <2>3. \A i \in DOMAIN inbox :
          inbox[i].kind = "reply" /\ inbox[i].call # Stray =>
            id'[inbox[i].call] = id[inbox[i].call]
    BY <2>2, CallFrame DEF TransitInv
  <2>4. ~Reads("reply")
    <3>1. Reads("reply") => Len(inbox') = Len(inbox) - 1 /\ Len(inbox) \in Nat
      BY DEF Reads
    <3> QED
      BY <1>6, <3>1
  <2>5. \A c \in Calls : InTransit(c)' =>
          pc'[c] \notin {"new", "created", "sending"}
    BY <2>1, CallFrame DEF TransitInv
  <2> QED
    BY <1>6, <2>1, <2>3, <2>4, <2>5 DEF TransitInv
<1> QED
  BY <1>1, <1>2, <1>3, <1>4, <1>5, <1>6, WireFrame

-----------------------------------------------------------------------------
(* The map holds the sender every answer under way is for. *)

\* The steps that change what MapInv says of the map and the calls.
LEMMA MapFrame ==
    ASSUME TypeOK, [Next]_vars
    PROVE  \/ \E c \in Calls : CallStep(c)
           \/ EventsDrop \/ PollReadReply \/ PollReadReplyError
           \/ /\ UNCHANGED <<pc, id, got, pending, poisoned>>
              /\ abandoned => abandoned'
<1>1. CASE SendWrite
  BY <1>1 DEF SendWrite
<1>2. CASE ServiceStep
  BY <1>2 DEF ServiceStep, ServiceStopPoisoned, ServiceStop, ServiceWake,
              ServiceAbandon
<1>3. CASE OwnerStep
  BY <1>3 DEF OwnerStep, Spawn, Release, ReleasePanic, StreamPoll,
              StreamLeave, TaskPoll, DropHandle, AbortTask, EventsGoto,
              EventsPanic
<1>4. CASE PollStep
  BY <1>4 DEF PollStep, PollCheck, PollReadPending, PollReadNone,
              PollReadError, PollReadEvent, PollReadReplyPanic, EventsPanic,
              PollRegister, PollRecheck
<1>5. CASE ServerStep
  BY <1>5 DEF ServerStep, ServerRespond, ServerSendUnasked, ServerSend,
              ServerClose
<1>6. CASE UNCHANGED vars
  BY <1>6
<1> QED
  BY <1>1, <1>2, <1>3, <1>4, <1>5, <1>6, StepCases

\* What is in transit grows by a step that feeds the sink only.
LEMMA FeedFact ==
    ASSUME TypeOK, NEW d \in Calls, SendFeed(d)
    PROVE  outbuf' # outbuf /\ \A c \in Calls : SendFeed(c) => c = d
<1>1. outbuf' = Append(outbuf, d) /\ outbuf \in Seq(Calls)
  BY DEF SendFeed, TypeOK, WireOK
<1>2. Len(outbuf') = Len(outbuf) + 1 /\ Len(outbuf) \in Nat
  BY <1>1
<1>3. outbuf'[Len(outbuf) + 1] = d
  BY <1>1, AppendFact
<1>4. \A c \in Calls : SendFeed(c) => outbuf'[Len(outbuf) + 1] = c
  <2>1. \A c \in Calls : SendFeed(c) => outbuf' = Append(outbuf, c)
    BY DEF SendFeed
  <2> QED
    BY <1>1, <2>1, AppendFact
<1> QED
  BY <1>2, <1>3, <1>4

LEMMA NothingFed ==
    ASSUME TypeOK, TransitInv, [Next]_vars, UNCHANGED outbuf
    PROVE  \A c \in Calls : InTransit(c)' => InTransit(c)
BY TransitStep, FeedFact

\* The message a poll takes is the answer to a call, filed under its key.
LEMMA AnswerFact ==
    ASSUME TypeOK, KeyInv, TransitInv, Reads("reply"), "stray" \notin Faults
    PROVE  LET m == Head(inbox) IN
             /\ m.call \in Calls /\ InTransit(m.call)
             /\ WellFormed(m)
             /\ Key(m) = id[m.call] /\ Key(m) \in Ids
<1> DEFINE m == Head(inbox)
<1>1. /\ inbox \in Seq(Message) /\ inbox # <<>> /\ m.kind = "reply"
  BY DEF Reads, TypeOK, WireOK
<1>2. 1 \in DOMAIN inbox /\ inbox[1] = m
  BY <1>1, TailFact
<1>3. m \in Message
  BY <1>1, <1>2, ElementFact
<1>4. m.call \in Calls /\ m.id = IF SupportsOob THEN id[m.call] ELSE NoId
  BY <1>1, <1>2, <1>3 DEF TransitInv, Message
<1>5. InTransit(m.call)
  BY <1>1, <1>2 DEF InTransit, InAnswers
<1>6. id[m.call] \in Ids /\ (~SupportsOob => id[m.call] = 0)
  BY <1>4 DEF TypeOK, CallsOK, KeyInv
<1> QED
  BY <1>4, <1>5, <1>6, ConstantsAssumption DEF WellFormed, Key

LEMMA MapStep ==
    ASSUME TypeOK, KeyInv, SerialInv, TransitInv, MapInv, [Next]_vars
    PROVE  MapInv'
<1> USE ConstantsAssumption DEF TypeOK, CallsOK, CommandsOK, MapInv, Live, Inserted
<1>1. CASE \E c \in Calls : CallStep(c)
  <2> PICK c \in Calls : CallStep(c)
    BY <1>1
  <2>2. CASE Execute(c)
    <3>1. ~InTransit(c)
      BY <2>2 DEF Execute, TransitInv
    <3> QED
      BY <2>2, <3>1, NothingFed DEF Execute, CommandId, Become
  <2>3. CASE CommandInsert(c)
    <3>1. /\ pc[c] = "created" /\ pc' = [pc EXCEPT ![c] = "sending"]
          /\ ~DuplicateId(c) /\ UNCHANGED <<id, got, abandoned, poisoned>>
          /\ pending' = IF abandoned THEN pending
                        ELSE [pending EXCEPT ![id[c]] = c]
      BY <2>3 DEF CommandInsert, Become
    <3>2. ~InTransit(c) /\ got[c] = NoCall /\ \A k \in Ids : pending[k] # c
      BY <3>1 DEF TransitInv, KeyInv
    <3>3. \A d \in Calls : InTransit(d)' => InTransit(d)
      BY <2>3, NothingFed DEF CommandInsert
    <3>4. ~abandoned => pending[id[c]] = NoCall
      BY <3>1 DEF DuplicateId
    <3>5. CASE abandoned
      BY <3>1, <3>2, <3>3, <3>5, IdsFact
    <3>6. CASE ~abandoned
      <4>1. \A d \in Calls \ {c} : pending[id[d]] = d => pending'[id[d]] = d
        BY <3>1, <3>4, <3>6
      <4>2. ~SupportsOob => \A d \in Calls : id[d] = 0
        BY DEF KeyInv
      <4>3. "stray" \notin Faults /\ ~poisoned /\ ~SupportsOob
              => \A d \in Calls : ~InTransit(d)
        BY <3>4, <3>6, <4>2
      <4> QED
        BY <3>1, <3>2, <3>3, <3>6, <4>1, <4>3
    <3> QED
      BY <3>5, <3>6
  <2>4. CASE CommandInsertPanic(c)
    BY <2>4 DEF CommandInsertPanic, Become
  <2>5. CASE SendFeed(c)
    <3>1. /\ pc[c] = "sending" /\ pc' = [pc EXCEPT ![c] = "flushing"]
          /\ UNCHANGED <<id, got, pending, abandoned, poisoned>>
      BY <2>5 DEF SendFeed, Become
    <3>2. \A d \in Calls : InTransit(d)' => InTransit(d) \/ d = c
      BY <2>5, TransitStep, FeedFact
    <3>3. ~SupportsOob => \A d \in Calls : Live(d) => d = c
      BY <3>1 DEF SerialInv, SerialWithoutIds
    <3> QED
      BY <3>1, <3>2, <3>3
  <2>6. CASE SendDone(c)
    BY <2>6, NothingFed DEF SendDone, Become
  <2>7. CASE SendFail(c) \/ Cancel(c)
    <3>1. /\ \E s \in {"ioerror", "cancelled"} : pc' = [pc EXCEPT ![c] = s]
          /\ UNCHANGED <<id, got, pending, abandoned, poisoned, outbuf>>
      BY <2>7 DEF SendFail, Cancel, Finish, Become
    <3> QED
      BY <3>1, NothingFed
  <2>8. CASE ReceiveReply(c) \/ ReceiveCanceled(c)
    <3>1. /\ \E s \in {"replied", "disconnected"} : pc' = [pc EXCEPT ![c] = s]
          /\ UNCHANGED <<id, got, pending, abandoned, poisoned, outbuf>>
      BY <2>8 DEF ReceiveReply, ReceiveCanceled, Finish, Become
    <3>2. \A k \in Ids : pending[k] # c
      BY <2>8 DEF ReceiveReply, ReceiveCanceled, KeyInv
    <3> QED
      BY <3>1, <3>2, NothingFed
  <2> QED
    BY <2>2, <2>3, <2>4, <2>5, <2>6, <2>7, <2>8 DEF CallStep
<1>2. CASE EventsDrop
  <2>1. \A c \in Calls : InTransit(c)' => InTransit(c)
    BY <1>2, NothingFed DEF EventsDrop
  <2> QED
    BY ZenonT(60), <1>2, <2>1, IdsFact DEF EventsDrop
<1>3. CASE PollReadReply
  <2> DEFINE m == Head(inbox)
             k == Key(m)
             d == pending[k]
  <2>1. /\ Reads("reply") /\ d # NoCall /\ Live(d)
        /\ got' = [got EXCEPT ![d] = m.call]
        /\ pending' = [pending EXCEPT ![k] = NoCall]
        /\ ~poisoned /\ UNCHANGED <<pc, id, abandoned, poisoned, outbuf>>
    BY <1>3 DEF PollReadReply, Deliverable
  <2>2. \A c \in Calls : InTransit(c)' => InTransit(c) /\ m.call # c
    BY <2>1, NothingFed, TransitStep
  <2>3. \A c \in Calls : pc'[c] \in {"replied", "disconnected"} =>
          \A i \in Ids : pending'[i] # c
    BY <2>1
  <2>4. CASE "stray" \notin Faults
    <3>1. m.call \in Calls /\ InTransit(m.call) /\ k = id[m.call] /\ k \in Ids
      BY <2>1, <2>4, AnswerFact
    <3>2. CASE ~abandoned
      <4>1. d = m.call
        BY <2>1, <2>4, <3>1, <3>2
      <4>2. got'[d] # NoCall /\ pc[d] # "sending"
        BY <2>1, <3>1, <4>1 DEF TransitInv
      <4>3. \A c \in Calls \ {d} : pending[id[c]] = c => pending'[id[c]] = c
        BY <2>1, <3>1, <4>1
      <4>4. \A c \in Calls \ {d} : got'[c] = got[c]
        BY <2>1
      <4>5. \A c \in Calls :
              /\ InTransit(c)' \/ (Live(c) /\ got'[c] = NoCall)
                   => pending'[id[c]] = c
              /\ pc[c] = "sending" => got'[c] = NoCall
        BY <2>1, <2>2, <2>4, <3>2, <4>1, <4>2, <4>3, <4>4
      <4>6. ~SupportsOob => pending'[0] = NoCall
        BY <2>1, <3>1 DEF KeyInv
      <4> QED
        BY <2>1, <2>3, <4>5, <4>6
    <3>3. CASE abandoned
      <4>1. ~SupportsOob => pending'[0] = NoCall
        BY <2>1, <3>1 DEF KeyInv
      <4> QED
        BY <2>1, <2>3, <3>3, <4>1
    <3> QED
      BY <3>2, <3>3
  <2> QED
    BY <2>3, <2>4
<1>4. CASE PollReadReplyError
  <2> DEFINE m == Head(inbox)
             k == Key(m)
  <2>1. /\ Reads("reply") /\ ~Deliverable(m)
        /\ pending' = IF WellFormed(m) THEN [pending EXCEPT ![k] = NoCall]
                      ELSE pending
        /\ UNCHANGED <<pc, id, got, abandoned, poisoned, outbuf>>
    BY <1>4 DEF PollReadReplyError
  <2>2. \A c \in Calls : InTransit(c)' => InTransit(c) /\ m.call # c
    BY <2>1, NothingFed, TransitStep
  <2>3. \A c \in Calls : pc'[c] \in {"replied", "disconnected"} =>
          \A i \in Ids : pending'[i] # c
    BY <2>1
  <2>4. CASE "stray" \notin Faults
    <3>1. /\ m.call \in Calls /\ InTransit(m.call) /\ WellFormed(m)
          /\ k = id[m.call] /\ k \in Ids
      BY <2>1, <2>4, AnswerFact
    <3>2. ~SupportsOob => pending'[0] = NoCall
      BY <2>1, <3>1 DEF KeyInv
    <3>3. CASE ~abandoned /\ ~poisoned
      <4>1. pending[k] = m.call /\ ~Live(m.call)
        BY <2>1, <2>4, <3>1, <3>3 DEF Deliverable
      <4>2. \A c \in Calls : c # m.call /\ pending[id[c]] = c
              => pending'[id[c]] = c
        BY <2>1, <3>1, <4>1
      <4> QED
        BY <2>1, <2>2, <2>3, <2>4, <3>2, <3>3, <4>1, <4>2
    <3> QED
      BY <2>1, <2>3, <3>2, <3>3
  <2> QED
    BY <2>3, <2>4
<1>5. CASE /\ UNCHANGED <<pc, id, got, pending, poisoned>>
           /\ abandoned => abandoned'
  <2>1. \A c \in Calls : SendFeed(c) => pc'[c] # pc[c]
    BY DEF SendFeed, Become
  <2>2. \A c \in Calls : InTransit(c)' => InTransit(c)
    BY <1>5, <2>1, TransitStep
  <2> QED
    BY <1>5, <2>2
<1> QED
  BY <1>1, <1>2, <1>3, <1>4, <1>5, MapFrame

-----------------------------------------------------------------------------
(* Whose answer a call receives. *)

\* Answers reach calls in one action; counting and closing are not undone.
LEMMA GotFrame ==
    ASSUME TypeOK, [Next]_vars
    PROVE  /\ PollReadReply \/ UNCHANGED got
           /\ abandoned => abandoned'
           /\ nextId' \in {nextId, nextId + 1}
<1> USE DEF TypeOK, CallsOK, CommandsOK
<1>1. CASE \E c \in Calls : CallStep(c)
  <2> PICK c \in Calls : CallStep(c)
    BY <1>1
  <2>1. CASE Execute(c)
    BY <2>1 DEF Execute, CommandId
  <2>2. CASE CallStep(c) /\ ~Execute(c)
    <3>1. UNCHANGED <<got, abandoned, nextId>>
      BY <2>2 DEF CallStep, CommandInsert, CommandInsertPanic,
              SendFeed, SendDone, SendFail, ReceiveReply, ReceiveCanceled,
              Cancel, Finish
    <3> QED
      BY <3>1
  <2> QED
    BY <2>1, <2>2
<1>2. CASE SendWrite
  BY <1>2 DEF SendWrite
<1>3. CASE ServiceStep
  BY <1>3 DEF ServiceStep, ServiceStopPoisoned, ServiceStop, ServiceWake,
              ServiceAbandon
<1>4. CASE OwnerStep
  BY <1>4 DEF OwnerStep, Spawn, Release, ReleasePanic, StreamPoll,
              StreamLeave, TaskPoll, DropHandle, AbortTask, EventsDrop,
              EventsGoto, EventsPanic
<1>5. CASE PollStep
  <2>1. CASE PollReadReply
    BY <2>1 DEF PollReadReply
  <2>2. CASE PollStep /\ ~PollReadReply
    BY <2>2 DEF PollStep, PollCheck, PollReadPending, PollReadNone,
              PollReadError, PollReadEvent, PollReadReplyError,
              PollReadReplyPanic, EventsPanic, PollRegister, PollRecheck
  <2> QED
    BY <1>5, <2>1, <2>2
<1>6. CASE ServerStep
  BY <1>6 DEF ServerStep, ServerRespond, ServerSendUnasked, ServerSend,
              ServerClose
<1>7. CASE UNCHANGED vars
  BY <1>7
<1> QED
  BY <1>1, <1>2, <1>3, <1>4, <1>5, <1>6, <1>7, StepCases

LEMMA OwnReplyStep ==
    ASSUME TypeOK, KeyInv, TransitInv, MapInv, OwnReply, [Next]_vars
    PROVE  OwnReply'
<1> USE DEF OwnReply
<1>1. SUFFICES ASSUME (SupportsOob => nextId <= IdModulus \/ ~abandoned)',
                      "stray" \notin Faults
               PROVE  \A c \in Calls : got'[c] \in {NoCall, c}
  OBVIOUS
<1>2. SupportsOob => nextId <= IdModulus \/ ~abandoned
  <2>1. nextId \in Nat /\ IdModulus \in Nat
    BY ConstantsAssumption DEF TypeOK, CallsOK
  <2> QED
    BY <1>1, <2>1, GotFrame
<1>3. CASE UNCHANGED got
  BY <1>1, <1>2, <1>3
<1>4. CASE PollReadReply
  <2> DEFINE m == Head(inbox)
             d == pending[Key(m)]
  <2>1. /\ Reads("reply") /\ ~poisoned
        /\ d # NoCall /\ Live(d)
        /\ got' = [got EXCEPT ![d] = m.call]
    BY <1>4 DEF PollReadReply, Deliverable
  <2>2. /\ m.call \in Calls /\ InTransit(m.call)
        /\ Key(m) = id[m.call] /\ Key(m) \in Ids
    BY <1>1, <2>1, AnswerFact
  <2>3. d \in Calls /\ id[d] = Key(m)
    BY <2>1, <2>2 DEF TypeOK, CommandsOK, KeyInv
  <2>4. d = m.call
    <3>1. CASE ~SupportsOob
      BY <1>1, <2>1, <2>2, <2>3, <3>1 DEF MapInv, KeyInv
    <3>2. CASE ~abandoned
      BY <1>1, <2>1, <2>2, <3>2 DEF MapInv
    <3>3. CASE SupportsOob /\ nextId <= IdModulus
      <4>1. pc[m.call] # "new" /\ pc[d] # "new"
        BY <2>1, <2>2 DEF TransitInv, Live, Inserted
      <4> QED
        BY <2>2, <2>3, <3>3, <4>1 DEF KeyInv
    <3> QED
      BY <1>2, <3>1, <3>2, <3>3
  <2> QED
    BY <1>1, <1>2, <2>1, <2>3, <2>4 DEF TypeOK, CallsOK
<1> QED
  BY <1>3, <1>4, GotFrame

-----------------------------------------------------------------------------
(* Why the event loop fails. *)

LEMMA FailFrame ==
    ASSUME TypeOK, [Next]_vars, failed', ~failed
    PROVE  PollReadError \/ PollReadReplyError
<1>1. CASE \E c \in Calls : CallStep(c)
  BY <1>1 DEF CallStep, Execute, CommandInsert, CommandInsertPanic, SendFeed,
              SendDone, SendFail, ReceiveReply, ReceiveCanceled, Cancel, Finish
<1>2. CASE SendWrite
  BY <1>2 DEF SendWrite
<1>3. CASE ServiceStep
  BY <1>3 DEF ServiceStep, ServiceStopPoisoned, ServiceStop, ServiceWake,
              ServiceAbandon
<1>4. CASE OwnerStep
  BY <1>4 DEF OwnerStep, Spawn, Release, ReleasePanic, StreamPoll,
              StreamLeave, TaskPoll, DropHandle, AbortTask, EventsDrop,
              EventsGoto, EventsPanic
<1>5. CASE PollStep
  BY <1>5 DEF PollStep, PollCheck, PollReadPending, PollReadNone,
              PollReadEvent, PollReadReply, PollReadReplyPanic, EventsPanic,
              PollRegister, PollRecheck
<1>6. CASE ServerStep
  BY <1>6 DEF ServerStep, ServerRespond, ServerSendUnasked, ServerSend,
              ServerClose
<1>7. CASE UNCHANGED vars
  BY <1>7
<1> QED
  BY <1>1, <1>2, <1>3, <1>4, <1>5, <1>6, <1>7, StepCases

LEMMA FailureStep ==
    ASSUME TypeOK, KeyInv, SerialInv, TransitInv, MapInv, [Next]_vars,
           failed', ~failed
    PROVE  \/ errored' \/ "stray" \in Faults \/ abandoned \/ poisoned
           \/ \E c \in Calls : pc[c] \in {"cancelled", "ioerror"}
<1>1. CASE PollReadError
  BY <1>1 DEF PollReadError
<1>2. CASE PollReadReplyError
  <2> SUFFICES ASSUME "stray" \notin Faults, ~abandoned, ~poisoned
               PROVE  \E c \in Calls : pc[c] \in {"cancelled", "ioerror"}
    OBVIOUS
  <2> DEFINE m == Head(inbox)
             c == m.call
  <2>1. Reads("reply") /\ ~Deliverable(m)
    BY <1>2 DEF PollReadReplyError
  <2>2. /\ c \in Calls /\ InTransit(c) /\ WellFormed(m)
        /\ Key(m) = id[c] /\ id[c] \in Ids
    BY <2>1, AnswerFact
  <2>3. pending[id[c]] = c
    BY <2>2 DEF MapInv
  <2>4. ~Live(c)
    BY <2>1, <2>2, <2>3, ConstantsAssumption DEF Deliverable
  <2>5. pc[c] \notin {"new", "created", "replied", "disconnected", "panicked"}
    BY <2>2, <2>3 DEF TransitInv, MapInv, SerialInv
  <2>6. pc[c] \in {"cancelled", "ioerror"}
    BY <2>2, <2>4, <2>5 DEF TypeOK, CallsOK, Live, Inserted, Ended
  <2> QED
    BY <2>2, <2>6
<1> QED
  BY <1>1, <1>2, FailFrame

-----------------------------------------------------------------------------
(* The theorems. *)

RepliesInv == IInv /\ TransitInv /\ MapInv /\ OwnReply

\* IInv with the whereabouts of commands and answers is inductive.
LEMMA RepliesInductive == Spec => []RepliesInv
<1>1. Init => RepliesInv
  <2> SUFFICES ASSUME Init PROVE RepliesInv
    OBVIOUS
  <2>1. IInv
    BY InitIInv
  <2>2. \A c \in Calls : ~InTransit(c)
    <3>1. DOMAIN outbuf = {} /\ requests = {} /\ DOMAIN inbox = {}
      BY DEF Init
    <3> QED
      BY <3>1 DEF InTransit, InBuffer, InAnswers
  <2>3. TransitInv
    BY <2>2 DEF Init, TransitInv, InBuffer, InAnswers
  <2>4. MapInv
    BY <2>2 DEF Init, MapInv, Live, Inserted
  <2>5. OwnReply
    BY DEF Init, OwnReply
  <2> QED
    BY <2>1, <2>3, <2>4, <2>5 DEF RepliesInv
<1>2. RepliesInv /\ [Next]_vars => RepliesInv'
  <2> SUFFICES ASSUME RepliesInv, [Next]_vars PROVE RepliesInv'
    OBVIOUS
  <2>1. IInv'
    BY StepIInv DEF RepliesInv
  <2>2. TransitInv' /\ MapInv' /\ OwnReply'
    BY TransitStep, MapStep, OwnReplyStep DEF RepliesInv, IInv
  <2> QED
    BY <2>1, <2>2 DEF RepliesInv
<1> QED
  BY <1>1, <1>2, PTL DEF Spec

\* No call receives the answer to another, without ids for ever, with ids
\* until the counter has wrapped on an abandoned map.
THEOREM RepliesAreOwn == Spec => []OwnReply
<1>1. RepliesInv => OwnReply
  BY DEF RepliesInv
<1> QED
  BY <1>1, RepliesInductive, PTL

\* handle_response and the codec fail the event loop only for a line that does
\* not decode, a response nobody asked for, a call that ended early, or a map
\* that no longer accepts calls.
THEOREM FailuresHaveCauses == Spec => FailureHasCause
<1>1. RepliesInv /\ [Next]_vars =>
        [failed' /\ ~failed =>
           \/ errored' \/ "stray" \in Faults \/ abandoned \/ poisoned
           \/ \E c \in Calls : pc[c] \in {"cancelled", "ioerror"}]_vars
  BY FailureStep DEF RepliesInv, IInv
<1> QED
  BY <1>1, RepliesInductive, PTL DEF Spec, FailureHasCause
-----------------------------------------------------------------------------
(* The refinement QapiFutures => QapiCalls.                                  *)

\* A call is answered once: the answer is behind its command, and every
\* answer in the inbox or in a channel was given by the server.
AnsweredInv ==
    \A c \in Calls :
        /\ c \in answered =>
             /\ ~InBuffer(c) /\ c \notin requests
             /\ pc[c] \notin {"new", "created", "sending"}
        /\ InAnswers(c) \/ got[c] = c => c \in answered

\* The id counter has not wrapped; without ids it does not matter.
Unwrapped == SupportsOob => nextId <= IdModulus

\* What the promise sees of the client.
seen == <<pc, id, got, pending, answered, abandoned, poisoned>>

\* The steps that change it.
LEMMA SeenFrame ==
    ASSUME TypeOK, [Next]_vars
    PROVE  \/ \E c \in Calls : CallStep(c) \/ ServerRespond(c)
           \/ ServiceAbandon \/ EventsDrop
           \/ PollReadReply \/ PollReadReplyError
           \/ UNCHANGED seen
<1> USE DEF seen
<1>1. CASE SendWrite
  BY <1>1 DEF SendWrite
<1>2. CASE ServiceStep
  BY <1>2 DEF ServiceStep, ServiceStopPoisoned, ServiceStop, ServiceWake
<1>3. CASE OwnerStep
  BY <1>3 DEF OwnerStep, Spawn, Release, ReleasePanic, StreamPoll,
              StreamLeave, TaskPoll, DropHandle, AbortTask, EventsGoto,
              EventsPanic
<1>4. CASE PollStep
  BY <1>4 DEF PollStep, PollCheck, PollReadPending, PollReadNone,
              PollReadError, PollReadEvent, PollReadReplyPanic, EventsPanic,
              PollRegister, PollRecheck
<1>5. CASE ServerStep
  BY <1>5 DEF ServerStep, ServerSendUnasked, ServerSend, ServerClose
<1>6. CASE UNCHANGED vars
  BY <1>6
<1> QED
  BY <1>1, <1>2, <1>3, <1>4, <1>5, <1>6, StepCases

LEMMA Stutter ==
    ASSUME UNCHANGED seen
    PROVE  UNCHANGED Promise!callVars
BY DEF seen, Promise!callVars, Outcome

-----------------------------------------------------------------------------
(* The calls. *)

\* Conditions of the promise in terms of the client.
Registered(c) == pending[id[c]] = c \/ got[c] = c
Open == ~abandoned /\ ~poisoned
GivenUp(c) == pc[c] \in {"ioerror", "cancelled"}

\* Taking a free id and a new future, a call is issued.
LEMMA ExecuteKeeps ==
    ASSUME TypeOK, TypeOK', KeyInv, NEW c \in Calls, Execute(c)
    PROVE  Promise!Issue(c)
<1> USE DEF TypeOK, CallsOK, CommandsOK
<1>1. /\ pc[c] = "new" /\ pc' = [pc EXCEPT ![c] = "created"]
      /\ UNCHANGED <<got, pending, answered, abandoned, poisoned>>
  BY DEF Execute, Become
<1>2. \A d \in Calls \ {c} : id'[d] = id[d]
  BY DEF Execute, CommandId
<1>3. \A d \in Calls : Registered(d)' <=> Registered(d)
  <2>1. got[c] = NoCall /\ \A k \in Ids : pending[k] # c
    BY <1>1 DEF KeyInv
  <2>2. id[c] \in Ids /\ id'[c] \in Ids
    OBVIOUS
  <2> QED
    BY <1>1, <1>2, <2>1, <2>2, ConstantsAssumption DEF Registered
<1> QED
  BY <1>1, <1>3 DEF Promise!Issue, Outcome, Inserted, Registered

\* An insert registers the call, unless the map takes no calls any more.
LEMMA InsertKeeps ==
    ASSUME TypeOK, KeyInv, NEW c \in Calls, CommandInsert(c)
    PROVE  Promise!Register(c) \/ UNCHANGED Promise!callVars
<1> USE DEF TypeOK, CallsOK, CommandsOK
<1>1. /\ pc[c] = "created" /\ pc' = [pc EXCEPT ![c] = "sending"]
      /\ ~poisoned /\ ~DuplicateId(c)
      /\ pending' = IF abandoned THEN pending ELSE [pending EXCEPT ![id[c]] = c]
      /\ UNCHANGED <<id, got, answered, abandoned, poisoned>>
  BY DEF CommandInsert, Become
<1>2. Outcome(c) = "pending" /\ \A d \in Calls : Outcome(d)' = Outcome(d)
  BY <1>1 DEF Outcome, Inserted
<1>3. CASE abandoned
  BY <1>1, <1>2, <1>3 DEF Promise!callVars
<1>4. CASE ~abandoned
  <2>1. pending[id[c]] = NoCall /\ ~Registered(c)
    BY <1>1, <1>4, ConstantsAssumption DEF DuplicateId, KeyInv, Registered
  <2>2. \A d \in Calls : Registered(d)' <=> Registered(d) \/ d = c
    BY <1>1, <1>4, <2>1, ConstantsAssumption DEF Registered
  <2> QED
    BY <1>1, <1>2, <1>4, <2>1, <2>2 DEF Promise!Register, Registered
<1> QED
  BY <1>3, <1>4

\* The panic on a taken key needs a call that was given up.
LEMMA PanicKeeps ==
    ASSUME TypeOK, KeyInv, SerialInv, Unwrapped,
           NEW c \in Calls, CommandInsertPanic(c)
    PROVE  Promise!Break(c)
<1> USE DEF TypeOK, CallsOK, CommandsOK
<1>1. /\ pc[c] = "created" /\ pc' = [pc EXCEPT ![c] = "panicked"]
      /\ writeLock = NoCall /\ (poisoned \/ DuplicateId(c))
      /\ pending' = IF poisoned THEN pending ELSE [pending EXCEPT ![id[c]] = c]
      /\ poisoned'
      /\ UNCHANGED <<id, got, answered>>
  BY DEF CommandInsertPanic, Become
<1>2. Outcome(c) = "pending" /\ ~Registered(c)
  BY <1>1, ConstantsAssumption DEF Outcome, KeyInv, Registered
<1>3. \A d \in Calls : Registered(d)' => Registered(d) \/ d = c
  BY <1>1 DEF Registered
<1>4. ~Open \/ \E d \in Calls : Registered(d) /\ GivenUp(d)
  <2> SUFFICES ASSUME Open PROVE \E d \in Calls : Registered(d) /\ GivenUp(d)
    OBVIOUS
  <2>1. PICK d \in Calls : d = pending[id[c]]
    BY <1>1 DEF Open, DuplicateId
  <2>2. id[c] \in Ids /\ d # c /\ id[d] = id[c] /\ pc[d] \notin {"new", "created"}
    BY <1>1, <2>1, ConstantsAssumption DEF KeyInv
  <2>3. ~SupportsOob
    BY <1>1, <2>2 DEF Unwrapped, KeyInv
  <2>4. ~Live(d) /\ pc[d] # "panicked"
    BY <1>1, <2>3, ConstantsAssumption DEF SerialInv, SerialWithoutIds, Open
  <2>5. GivenUp(d)
    BY <2>1, <2>2, <2>3, <2>4, ConstantsAssumption DEF SerialInv, GivenUp
  <2> QED
    BY <2>1, <2>2, <2>5 DEF Registered
<1>5. /\ [d \in Calls |-> Outcome(d)]' =
           [[d \in Calls |-> Outcome(d)] EXCEPT ![c] = "panicked"]
      /\ \A d \in Calls : GivenUp(d) => Outcome(d) = pc[d]
  BY <1>1 DEF Outcome, GivenUp, Inserted
<1> QED
  BY <1>1, <1>2, <1>3, <1>4, <1>5 DEF Promise!Break, Registered, Open, GivenUp

\* A call ends with its own answer, with an error, or because nobody will answer.
LEMMA EndKeeps ==
    ASSUME TypeOK, MapInv, OwnReply, AnsweredInv, Unwrapped,
           "stray" \notin Faults, NEW c \in Calls,
           SendFail(c) \/ Cancel(c) \/ ReceiveReply(c) \/ ReceiveCanceled(c)
    PROVE  \/ Promise!Fail(c) \/ Promise!Reply(c) \/ Promise!Disconnect(c)
<1> USE DEF TypeOK, CallsOK, CommandsOK
<1>1. /\ Outcome(c) = "pending"
      /\ UNCHANGED <<id, got, pending, answered, abandoned, poisoned>>
  BY DEF SendFail, Backpressure, Cancel, ReceiveReply, ReceiveCanceled, Finish,
         Outcome, Inserted
<1>2. ASSUME NEW how \in Ended, pc' = [pc EXCEPT ![c] = how]
      PROVE  Promise!End(c, how)
  BY <1>1, <1>2 DEF Promise!End, Outcome, Inserted, Ended
<1>3. CASE SendFail(c) \/ Cancel(c)
  <2>1. \E how \in {"ioerror", "cancelled"} : pc' = [pc EXCEPT ![c] = how]
    BY <1>3 DEF SendFail, Cancel, Finish, Become
  <2> QED
    BY <1>2, <2>1 DEF Promise!Fail, Ended
<1>4. CASE ReceiveReply(c)
  <2>1. pc' = [pc EXCEPT ![c] = "replied"] /\ got[c] # NoCall
    BY <1>4 DEF ReceiveReply, Finish, Become
  <2>2. got[c] = c /\ c \in answered
    BY <2>1 DEF OwnReply, Unwrapped, AnsweredInv
  <2> QED
    BY <1>2, <2>1, <2>2 DEF Promise!Reply, Ended
<1>5. CASE ReceiveCanceled(c)
  <2>1. /\ pc[c] = "waiting" /\ pc' = [pc EXCEPT ![c] = "disconnected"]
        /\ got[c] = NoCall /\ pending[id[c]] # c
    BY <1>5 DEF ReceiveCanceled, Finish, Become
  <2>2. ~Open /\ ~Registered(c)
    BY <2>1, ConstantsAssumption DEF MapInv, Live, Inserted, Open, Registered
  <2> QED
    BY <1>2, <2>1, <2>2 DEF Promise!Disconnect, Ended, Open, Registered
<1> QED
  BY <1>3, <1>4, <1>5

\* What the destructor of the events takes from the map was not answered.
LEMMA DropKeeps ==
    ASSUME TypeOK, MapInv, EventsDrop
    PROVE  Promise!Disband \/ UNCHANGED Promise!callVars
<1> USE DEF TypeOK, CallsOK, CommandsOK
<1>1. /\ UNCHANGED <<pc, id, got, answered, poisoned>>
      /\ pending' = IF poisoned THEN pending ELSE [k \in Ids |-> NoCall]
      /\ abandoned' = (abandoned \/ ~poisoned)
  BY DEF EventsDrop
<1>2. CASE poisoned
  BY <1>1, <1>2, Stutter DEF seen
<1>3. CASE ~poisoned
  <2>1. \A c \in Calls : Registered(c)' <=> got[c] = c
    BY <1>1, <1>3, ConstantsAssumption DEF Registered
  <2>2. \A c \in Calls : Registered(c) /\ ~Registered(c)' => Outcome(c) # "replied"
    BY <2>1 DEF MapInv, Registered, Outcome
  <2>3. [c \in Calls |-> Outcome(c)]' = [c \in Calls |-> Outcome(c)]
    BY <1>1 DEF Outcome
  <2> QED
    BY <1>1, <1>3, <2>1, <2>2, <2>3 DEF Promise!Disband, Registered
<1> QED
  BY <1>2, <1>3

\* An answer that is delivered moves from the map to its channel.
LEMMA DeliverKeeps ==
    ASSUME TypeOK, TypeOK', KeyInv, TransitInv, OwnReply', Unwrapped,
           "stray" \notin Faults, PollReadReply
    PROVE  UNCHANGED Promise!callVars
<1> USE DEF TypeOK, CallsOK, CommandsOK
<1> DEFINE m == Head(inbox)
<1>1. PICK k, d : k = Key(m) /\ d = pending[k]
  OBVIOUS
<1>2. /\ Reads("reply") /\ d # NoCall
      /\ got' = [got EXCEPT ![d] = m.call]
      /\ pending' = [pending EXCEPT ![k] = NoCall]
      /\ UNCHANGED <<pc, id, answered, abandoned, poisoned, nextId>>
  BY <1>1 DEF PollReadReply, Deliverable
<1>3. m.call \in Calls /\ k \in Ids
  BY <1>1, <1>2, AnswerFact
<1>4. d \in Calls /\ id[d] = k
  BY <1>1, <1>2, <1>3 DEF KeyInv
<1>5. got'[d] = m.call
  BY <1>2, <1>4
<1>6. got'[d] = d
  BY <1>2, <1>3, <1>4, <1>5, ConstantsAssumption DEF OwnReply, Unwrapped
<1>7. \A c \in Calls : Registered(c)' <=> Registered(c)
  <2>1. Registered(d) /\ Registered(d)'
    BY <1>1, <1>4, <1>6 DEF Registered
  <2>2. \A c \in Calls \ {d} : Registered(c)' <=> Registered(c)
    BY <1>1, <1>2, <1>3, <1>4, ConstantsAssumption DEF Registered
  <2> QED
    BY <2>1, <2>2
<1> QED
  BY <1>2, <1>7 DEF Promise!callVars, Registered, Outcome

\* An answer that fails the loop is one of a call that was given up, or finds
\* the client closed.
LEMMA ErrorKeeps ==
    ASSUME TypeOK, KeyInv, SerialInv, TransitInv, MapInv, AnsweredInv,
           "stray" \notin Faults, PollReadReplyError
    PROVE  \/ \E c \in Calls : Promise!Discard(c)
           \/ Promise!Disband \/ UNCHANGED Promise!callVars
<1> USE DEF TypeOK, CallsOK, CommandsOK
<1> DEFINE m == Head(inbox)
<1>1. PICK k, d, e : k = Key(m) /\ d = pending[k] /\ e = m.call
  OBVIOUS
<1>2. Reads("reply") /\ ~Deliverable(m)
  BY DEF PollReadReplyError
<1>3. /\ e \in Calls /\ InTransit(e) /\ WellFormed(m)
      /\ k = id[e] /\ k \in Ids
  BY <1>1, <1>2, AnswerFact
<1>4. /\ pending' = [pending EXCEPT ![k] = NoCall]
      /\ UNCHANGED <<pc, id, got, answered, abandoned, poisoned>>
  BY <1>1, <1>3 DEF PollReadReplyError
<1>5. [c \in Calls |-> Outcome(c)]' = [c \in Calls |-> Outcome(c)]
  BY <1>4 DEF Outcome
<1>6. CASE d = NoCall
  <2>1. pending' = pending
    BY <1>1, <1>3, <1>4, <1>6
  <2> QED
    BY <1>4, <2>1, Stutter DEF seen
<1>7. CASE d # NoCall
  <2>1. d \in Calls /\ id[d] = k /\ got[d] # d /\ ~Live(d)
    BY <1>1, <1>2, <1>3, <1>7, ConstantsAssumption DEF KeyInv, Deliverable
  <2>2. \A c \in Calls : Registered(c)' <=> Registered(c) /\ c # d
    BY <1>1, <1>3, <1>4, <2>1, ConstantsAssumption DEF Registered
  <2>3. Registered(d) /\ pc[d] \notin {"new", "created", "replied", "disconnected"}
    BY <1>1, <1>3, <2>1 DEF Registered, KeyInv, MapInv
  <2>4. CASE Open
    <3>1. d = e
      BY <1>1, <1>3, <2>4 DEF MapInv, Open
    <3>2. InAnswers(e)
      <4>1. 1 \in DOMAIN inbox /\ inbox[1] = m /\ m.kind = "reply"
        BY <1>2, TailFact DEF Reads, WireOK
      <4> QED
        BY <1>1, <4>1 DEF InAnswers
    <3>3. d \in answered /\ GivenUp(d)
      BY <2>1, <2>3, <2>4, <3>1, <3>2
         DEF AnsweredInv, GivenUp, Live, Inserted, Ended, SerialInv, Open
    <3>4. Outcome(d) = pc[d]
      BY <3>3 DEF GivenUp, Outcome, Inserted
    <3>5. Promise!Discard(d)
      BY <1>4, <1>5, <2>1, <2>2, <2>3, <3>3, <3>4
         DEF Promise!Discard, Registered, GivenUp
    <3> QED
      BY <2>1, <3>5
  <2>5. CASE ~Open
    <3>1. Outcome(d) # "replied"
      BY <2>3 DEF Outcome
    <3> QED
      BY <1>4, <1>5, <2>2, <2>5, <3>1 DEF Promise!Disband, Registered, Open
  <2> QED
    BY <2>4, <2>5
<1> QED
  BY <1>6, <1>7

LEMMA AnswerKeeps ==
    ASSUME TypeOK, TransitInv, AnsweredInv, NEW c \in Calls, ServerRespond(c)
    PROVE  Promise!Answer(c)
<1>1. /\ c \in requests /\ answered' = answered \cup {c}
      /\ UNCHANGED <<pc, id, got, pending, abandoned, poisoned>>
  BY DEF ServerRespond, ServerSend
<1>2. c \notin answered /\ pc[c] # "new"
  BY <1>1 DEF TransitInv, InTransit, AnsweredInv
<1> QED
  BY <1>1, <1>2 DEF Promise!Answer, Outcome, Inserted

-----------------------------------------------------------------------------
(* Answers are given once. *)

LEMMA AnsweredFrame ==
    ASSUME [Next]_vars
    PROVE  (\E c \in Calls : ServerRespond(c)) \/ UNCHANGED answered
<1>1. CASE \E c \in Calls : CallStep(c)
  BY <1>1 DEF CallStep, Execute, CommandInsert, CommandInsertPanic, SendFeed,
              SendDone, SendFail, ReceiveReply, ReceiveCanceled, Cancel, Finish
<1>2. CASE SendWrite
  BY <1>2 DEF SendWrite
<1>3. CASE ServiceStep
  BY <1>3 DEF ServiceStep, ServiceStopPoisoned, ServiceStop, ServiceWake,
              ServiceAbandon
<1>4. CASE OwnerStep
  BY <1>4 DEF OwnerStep, Spawn, Release, ReleasePanic, StreamPoll,
              StreamLeave, TaskPoll, DropHandle, AbortTask, EventsDrop,
              EventsGoto, EventsPanic
<1>5. CASE PollStep
  BY <1>5 DEF PollStep, PollCheck, PollReadPending, PollReadNone,
              PollReadError, PollReadEvent, PollReadReply, PollReadReplyError,
              PollReadReplyPanic, EventsPanic, PollRegister, PollRecheck
<1>6. CASE ServerStep
  BY <1>6 DEF ServerStep, ServerSendUnasked, ServerClose
<1>7. CASE UNCHANGED vars
  BY <1>7
<1> QED
  BY <1>1, <1>2, <1>3, <1>4, <1>5, <1>6, <1>7, StepCases

\* A call gets its own answer from the inbox.
LEMMA GotStep ==
    ASSUME TypeOK, [Next]_vars, NEW c \in Calls, got'[c] = c
    PROVE  got[c] = c \/ InAnswers(c)
<1> USE DEF TypeOK, CallsOK, WireOK
<1> SUFFICES ASSUME PollReadReply, got[c] # c PROVE InAnswers(c)
  BY GotFrame
<1>1. PICK m, d : m = Head(inbox) /\ d = pending[Key(m)]
  OBVIOUS
<1>2. Reads("reply") /\ got' = [got EXCEPT ![d] = m.call]
  BY <1>1 DEF PollReadReply
<1>3. 1 \in DOMAIN inbox /\ inbox[1] = m /\ m.kind = "reply"
  BY <1>1, <1>2, TailFact DEF Reads
<1>4. m.call = c
  BY <1>2
<1> QED
  BY <1>3, <1>4 DEF InAnswers

LEMMA AnsweredStep ==
    ASSUME TypeOK, TransitInv, AnsweredInv, [Next]_vars
    PROVE  AnsweredInv'
<1> USE DEF TypeOK, WireOK, InBuffer, InAnswers
<1>1. \A c \in Calls : got'[c] = c => c \in answered
  BY GotStep DEF AnsweredInv
<1>2. \A c \in Calls : pc[c] \notin {"new", "created", "sending"}
                         => pc'[c] \notin {"new", "created", "sending"}
  BY CallFrame
<1>3. SUFFICES
        /\ answered \subseteq answered'
        /\ \A c \in Calls :
            /\ c \in answered' =>
                 /\ ~InBuffer(c)' /\ c \notin requests'
                 /\ pc[c] \notin {"new", "created", "sending"}
            /\ InAnswers(c)' => c \in answered'
  BY <1>1, <1>2 DEF AnsweredInv
<1>4. CASE \E c \in Calls : ServerRespond(c)
  <2> PICK c \in Calls : ServerRespond(c)
    BY <1>4
  <2>1. PICK m : /\ m = [kind |-> "reply", call |-> c,
                         id |-> IF SupportsOob THEN id[c] ELSE NoId]
                 /\ c \in requests /\ requests' = requests \ {c}
                 /\ answered' = answered \cup {c}
                 /\ inbox' = Append(inbox, m) /\ outbuf' = outbuf
    BY DEF ServerRespond, ServerSend
  <2>2. m \in Message /\ m.call = c
    BY <2>1, MessageFact
  <2>3. \A d \in Calls : InAnswers(d)' => InAnswers(d) \/ d = c
    BY <2>1, <2>2, AppendFact
  <2>4. ~InBuffer(c) /\ pc[c] \notin {"new", "created", "sending"}
    BY <2>1 DEF TransitInv, InTransit
  <2> QED
    BY <2>1, <2>3, <2>4 DEF AnsweredInv
<1>5. CASE answered' = answered
  <2>1. CASE \E c \in Calls : SendFeed(c)
    <3> PICK c \in Calls : SendFeed(c)
      BY <2>1
    <3>1. /\ pc[c] = "sending" /\ outbuf' = Append(outbuf, c)
          /\ UNCHANGED <<requests, inbox>>
      BY DEF SendFeed
    <3>2. \A d \in Calls : InBuffer(d)' => InBuffer(d) \/ d = c
      BY <3>1, AppendFact
    <3> QED
      BY <1>5, <3>1, <3>2 DEF AnsweredInv
  <2>2. CASE SendWrite
    <3>1. /\ outbuf # <<>> /\ outbuf' = Tail(outbuf) /\ inbox' = inbox
          /\ requests' = requests \cup {Head(outbuf)}
      BY <2>2 DEF SendWrite
    <3>2. \A c \in Calls : InBuffer(c)' => InBuffer(c)
      BY <3>1, TailFact
    <3>3. \A c \in Calls : c \in requests' => c \in requests \/ InBuffer(c)
      <4>1. 1 \in DOMAIN outbuf /\ outbuf[1] = Head(outbuf)
        BY <3>1, TailFact
      <4> QED
        BY <3>1, <4>1
    <3> QED
      BY <1>5, <3>1, <3>2, <3>3 DEF AnsweredInv
  <2>3. CASE ServerSendUnasked
    <3> PICK m \in Unasked : ServerSend(m)
      BY <2>3 DEF ServerSendUnasked
    <3>1. inbox' = Append(inbox, m) /\ UNCHANGED <<outbuf, requests>>
      BY <2>3 DEF ServerSendUnasked, ServerSend
    <3>2. m \in Message /\ m.call = Stray
      BY MessageFact DEF Unasked
    <3>3. \A c \in Calls : InAnswers(c)' => InAnswers(c)
      BY <3>1, <3>2, AppendFact, ConstantsAssumption
    <3> QED
      BY <1>5, <3>1, <3>3 DEF AnsweredInv
  <2>4. CASE \E kind \in {"reply", "event", "bad"} :
               Reads(kind) /\ UNCHANGED <<outbuf, requests, pc, id>>
    <3>1. /\ inbox # <<>> /\ inbox' = Tail(inbox)
          /\ UNCHANGED <<outbuf, requests>>
      BY <2>4 DEF Reads
    <3>2. \A c \in Calls : InAnswers(c)' => InAnswers(c)
      BY <3>1, TailFact
    <3> QED
      BY <1>5, <3>1, <3>2 DEF AnsweredInv
  <2>5. CASE UNCHANGED <<outbuf, requests, inbox>>
    BY <1>5, <2>5 DEF AnsweredInv
  <2>6. CASE \E c \in Calls : ServerRespond(c)
    BY <1>4, <2>6
  <2> QED
    BY <2>1, <2>2, <2>3, <2>4, <2>5, <2>6, WireFrame
<1> QED
  BY <1>4, <1>5, AnsweredFrame

-----------------------------------------------------------------------------
(* The theorem. *)

LEMMA PromiseStep ==
    ASSUME RepliesInv, RepliesInv', AnsweredInv, Unwrapped,
           "stray" \notin Faults, [Next]_vars
    PROVE  [Promise!CallsNext]_(Promise!callVars)
<1> USE DEF RepliesInv, IInv
<1>1. CASE \E c \in Calls : CallStep(c)
  <2> PICK c \in Calls : CallStep(c)
    BY <1>1
  <2>1. \/ Promise!Issue(c) \/ Promise!Register(c) \/ Promise!Break(c)
        \/ Promise!Fail(c) \/ Promise!Reply(c) \/ Promise!Disconnect(c)
        \/ UNCHANGED Promise!callVars \/ SendFeed(c) \/ SendDone(c)
    BY ExecuteKeeps, InsertKeeps, PanicKeeps, EndKeeps DEF CallStep
  <2>2. CASE SendFeed(c) \/ SendDone(c)
    <3>1. /\ pc[c] \in Inserted
          /\ \E state \in Inserted : pc' = [pc EXCEPT ![c] = state]
          /\ UNCHANGED <<id, got, pending, answered, abandoned, poisoned>>
      BY <2>2 DEF SendFeed, SendDone, Become, Inserted
    <3>2. \A d \in Calls : Outcome(d)' = Outcome(d)
      BY <3>1 DEF Outcome, TypeOK, CallsOK
    <3> QED
      BY <3>1, <3>2 DEF Promise!callVars
  <2> QED
    BY <2>1, <2>2 DEF Promise!CallsNext
<1>2. CASE \E c \in Calls : ServerRespond(c)
  BY <1>2, AnswerKeeps DEF Promise!CallsNext
<1>3. CASE ServiceAbandon
  <2>1. Promise!Close
    BY <1>3 DEF ServiceAbandon, Promise!Close, Outcome
  <2> QED
    BY <2>1 DEF Promise!CallsNext
<1>4. CASE EventsDrop
  BY <1>4, DropKeeps DEF Promise!CallsNext
<1>5. CASE PollReadReply
  BY <1>5, DeliverKeeps
<1>6. CASE PollReadReplyError
  BY <1>6, ErrorKeeps DEF Promise!CallsNext
<1>7. CASE UNCHANGED seen
  BY <1>7, Stutter
<1> QED
  BY <1>1, <1>2, <1>3, <1>4, <1>5, <1>6, <1>7, SeenFrame

\* QapiFutures implements QapiCalls: as long as no id was used twice and the
\* server sends no response unasked, every call has one outcome, its own
\* answer or an error, and a closed client stays closed.
THEOREM PromiseIsKept ==
    ASSUME "stray" \notin Faults
    PROVE  Spec /\ []Unwrapped => KeepsPromise
<1>1. Init => Promise!CallsInit /\ AnsweredInv
  <2> SUFFICES ASSUME Init PROVE Promise!CallsInit /\ AnsweredInv
    OBVIOUS
  <2>1. \A c \in Calls : ~Registered(c)
    BY ConstantsAssumption, IdsFact DEF Init, Registered
  <2>2. Promise!CallsInit
    BY <2>1 DEF Init, Promise!CallsInit, Outcome, Inserted, Registered
  <2>3. DOMAIN inbox = {} /\ answered = {}
    BY DEF Init
  <2>4. AnsweredInv
    BY <2>3, ConstantsAssumption DEF Init, AnsweredInv, InAnswers
  <2> QED
    BY <2>2, <2>4
<1>2. RepliesInv /\ AnsweredInv /\ [Next]_vars => AnsweredInv'
  BY AnsweredStep DEF RepliesInv, IInv
<1>3. /\ RepliesInv /\ RepliesInv' /\ AnsweredInv /\ Unwrapped /\ [Next]_vars
      => [Promise!CallsNext]_(Promise!callVars)
  BY PromiseStep
<1> QED
  BY <1>1, <1>2, <1>3, RepliesInductive, PTL
     DEF Spec, KeepsPromise, Promise!CallsSpec
=============================================================================
