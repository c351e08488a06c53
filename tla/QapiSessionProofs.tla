------------------------- MODULE QapiSessionProofs -------------------------
(***************************************************************************)
(* Theorems about QapiSession, for any number of calls and faults: what    *)
(* QapiStream::execute returns, when it fails or panics, and what is left  *)
(* for QapiFutures.                                                        *)
(***************************************************************************)
EXTENDS QapiSession, StreamLemmas, TLAPS

USE DEF vars, wire, open, call, ends, plan

-----------------------------------------------------------------------------
(* Types.                                                                    *)

LEMMA TypeInit == ASSUME Init PROVE TypeOK
<1>1. \A k \in {"greeting", "bad"} : <<[kind |-> k, of |-> 0]>> \in Seq(Line)
  <2> TAKE k \in {"greeting", "bad"}
  <2>1. [kind |-> k, of |-> 0] \in Line
    BY SessionAssumption DEF Line
  <2> QED
    BY <2>1
<1>2. /\ inbox \in Seq(Line) /\ requests \in Seq(1 .. MaxCalls)
      /\ unsent \in Seq(1 .. MaxCalls)
  <2>1. \/ inbox = <<>>
        \/ \E k \in {"greeting", "bad"} : inbox = <<[kind |-> k, of |-> 0]>>
    BY DEF Init
  <2>2. inbox \in Seq(Line)
    <3>1. CASE inbox = <<>>
      BY <3>1
    <3>2. ASSUME NEW k \in {"greeting", "bad"}, inbox = <<[kind |-> k, of |-> 0]>>
          PROVE  inbox \in Seq(Line)
      BY <1>1, <3>2, Zenon
    <3> QED
      BY <2>1, <3>1, <3>2
  <2>3. requests = <<>> /\ unsent = <<>>
    BY DEF Init
  <2> QED
    BY <2>2, <2>3
<1>3. pc \in {"opening", "held"} /\ stage = "none"
  BY DEF Init
<1>4. cur \in 0 .. MaxCalls /\ got \in 0 .. MaxCalls + 1 /\ faults \in 0 .. MaxFaults
  BY SessionAssumption DEF Init
<1>5. pending \in [Keys -> 0 .. MaxCalls]
  BY SessionAssumption DEF Init
<1>6. supports_oob \in BOOLEAN /\ stop \in BOOLEAN /\ errored \in BOOLEAN
  BY DEF Init
<1>7. eof \in BOOLEAN
  BY Zenon DEF Init
<1>8. /\ proto \in Protocols /\ announced \in Greetings /\ result = "none"
      /\ given_up \subseteq 1 .. MaxCalls /\ happened \subseteq Faults
  BY DEF Init
<1> QED
  BY <1>2, <1>3, <1>4, <1>5, <1>6, <1>7, <1>8 DEF TypeOK

\* How execute() returns.
LEMMA ReturnTypes ==
    ASSUME TypeOK, NEW how \in Outcomes,
           Return(how), cur > 0
    PROVE  /\ result' = how /\ stage' = "none" /\ pc' \in {"held", "failed"}
           /\ given_up' \subseteq 1 .. MaxCalls
           /\ given_up' = IF how \in Answered THEN given_up ELSE given_up \cup {cur}
           /\ UNCHANGED <<open, cur>>
BY SessionAssumption DEF TypeOK, Return

\* What the words of the outcomes are.
LEMMA OutcomeFacts ==
    /\ \A how \in Answered : how \in Outcomes /\ how \notin {"eof", "ioerror", "cancelled"}
    /\ \A how \in {"eof", "ioerror", "cancelled"} : how \in Outcomes /\ how \notin Answered
BY DEF Answered, Outcomes

\* A fault is counted and remembered.
LEMMA FaultTypes ==
    ASSUME TypeOK, NEW f, Fails(f)
    PROVE  /\ faults' \in 0 .. MaxFaults /\ faults' > 0
           /\ happened' \subseteq Faults /\ happened' = happened \cup {f}
BY SessionAssumption DEF TypeOK, Fails

\* The server writes a line.
LEMMA WriteTypes ==
    ASSUME TypeOK, NEW k \in {"reply", "event", "bad"}, NEW n \in 0 .. MaxCalls + 1,
           Write(k, n)
    PROVE  inbox' \in Seq(Line)
<1>1. [kind |-> k, of |-> n] \in Line
  BY DEF Line
<1> QED
  BY <1>1, AppendFacts DEF Write, TypeOK

\* A command is filed under a key.
LEMMA KeyTypes == ASSUME TypeOK PROVE Key \in Keys
BY SessionAssumption DEF TypeOK, Key, KeyOf, Keys

\* While execute() runs there is a call.
LEMMA CurTypes == ASSUME TypeOK, StageInv, Executing PROVE cur > 0 /\ cur \in 1 .. MaxCalls
BY SessionAssumption DEF TypeOK, StageInv

LEMMA TypeStep == ASSUME TypeOK, StageInv, [Next]_vars PROVE TypeOK'
<1> USE DEF TypeOK
<1>a. ASSUME pc \in {"scheduled", "call", "events", "asleep"} PROVE cur > 0 /\ cur \in 1 .. MaxCalls
  BY <1>a, CurTypes DEF Executing
<1>b. ASSUME inbox # <<>> PROVE Tail(inbox) \in Seq(Line) /\ Head(inbox) \in Line
  BY <1>b, TailFacts
<1>1. CASE Open
  BY <1>1, <1>b DEF Open
<1>2. CASE OpenFails
  BY <1>2 DEF OpenFails
<1>3. CASE Execute
  BY <1>3, SessionAssumption DEF Execute
<1>30. CASE Resume
  BY <1>30 DEF Resume
<1>4. CASE CallInsert
  <2>1. pending' \in [Keys -> 0 .. MaxCalls]
    BY <1>4, KeyTypes DEF CallInsert
  <2>2. stage' \in {"sending", "none"} /\ pc' \in {"call", "panicked"}
    BY <1>4 DEF CallInsert
  <2>3. cur \in 1 .. MaxCalls
    BY <1>4, <1>a DEF CallInsert
  <2>4. Append(unsent, cur) \in Seq(1 .. MaxCalls)
    BY <2>3, AppendFacts
  <2>5. unsent' \in Seq(1 .. MaxCalls)
    BY <1>4, <2>4 DEF CallInsert
  <2> QED
    BY <1>4, <2>1, <2>2, <2>5 DEF CallInsert
<1>5. CASE CallSend
  <2>1. Head(unsent) \in 1 .. MaxCalls /\ unsent' \in Seq(1 .. MaxCalls)
    BY <1>5, TailFacts DEF CallSend
  <2>2. requests' \in Seq(1 .. MaxCalls)
    BY <1>5, <2>1, AppendFacts DEF CallSend
  <2>3. stage' \in {"waiting", "sending"}
    BY <1>5 DEF CallSend
  <2> QED
    BY <1>5, <2>1, <2>2, <2>3 DEF CallSend
<1>6. CASE CallSendFails
  BY <1>6, <1>a, OutcomeFacts, ReturnTypes, FaultTypes DEF CallSendFails
<1>7. CASE CallReceive
  BY <1>7, <1>a, OutcomeFacts, ReturnTypes DEF CallReceive
<1>8. CASE CallPending
  BY <1>8 DEF CallPending
<1>9. CASE EventsEnd
  BY <1>9, <1>a, OutcomeFacts, ReturnTypes DEF EventsEnd
<1>10. CASE EventsBad
  BY <1>10, <1>a, OutcomeFacts, <1>b, ReturnTypes DEF EventsBad, Reads
<1>11. CASE EventsIgnore
  BY <1>11, <1>b DEF EventsIgnore, Reads, WakeSelf
<1>12. CASE EventsReply
  <2>1. inbox' \in Seq(Line) /\ Head(inbox) \in Line /\ pc = "events"
    BY <1>12, <1>b DEF EventsReply, Reads
  <2>2. pending' \in [Keys -> 0 .. MaxCalls]
    <3>1. CASE pending' = pending
      BY <3>1
    <3>2. CASE pending' = [pending EXCEPT ![ReplyKey] = 0]
      <4>1. 0 \in 0 .. MaxCalls
        BY SessionAssumption
      <4> QED
        BY <3>2, <4>1
    <3> QED
      BY <1>12, <3>1, <3>2 DEF EventsReply, Remove
  <2>3. CASE got' = Head(inbox).of /\ WakeSelf /\ UNCHANGED <<open, cur, stage, ends>>
    BY <1>12, <2>1, <2>2, <2>3 DEF EventsReply, WakeSelf, Line
  <2>4. CASE Return("ioerror") /\ UNCHANGED got
    BY <1>12, <1>a, <2>1, <2>2, <2>4, OutcomeFacts, ReturnTypes DEF EventsReply
  <2> QED
    BY <1>12, <2>3, <2>4 DEF EventsReply
<1>13. CASE EventsPending
  BY <1>13 DEF EventsPending
<1>14. CASE Wake
  BY <1>14 DEF Wake
<1>15. CASE Cancel
  BY <1>15, <1>a, OutcomeFacts, ReturnTypes, FaultTypes DEF Cancel
<1>16. CASE Part
  BY <1>16 DEF Part
<1>17. CASE ServerRespond
  <2>1. Head(requests) \in 1 .. MaxCalls /\ requests' \in Seq(1 .. MaxCalls)
    BY <1>17, TailFacts DEF ServerRespond
  <2>2. Head(requests) \in 0 .. MaxCalls + 1
    BY <2>1, SessionAssumption
  <2> QED
    BY ZenonT(60), <1>17, <2>1, <2>2, WriteTypes DEF ServerRespond, Write
<1>18. CASE ServerUnasked
  <2>1. 0 \in 0 .. MaxCalls + 1 /\ MaxCalls + 1 \in 0 .. MaxCalls + 1
    BY SessionAssumption
  <2>2. inbox' \in Seq(Line)
    BY <1>18, <2>1, WriteTypes DEF ServerUnasked
  <2> QED
    BY ZenonT(60), <1>18, <2>2, FaultTypes DEF ServerUnasked, Write
<1>19. CASE ServerClose
  BY <1>19, FaultTypes DEF ServerClose
<1>20. CASE UNCHANGED vars
  BY <1>20
<1> QED
  BY <1>1, <1>2, <1>3, <1>4, <1>5, <1>6, <1>7, <1>8, <1>9, <1>10, <1>11, <1>12,
     <1>13, <1>14, <1>15, <1>16, <1>17, <1>18, <1>19, <1>20, <1>30
     DEF Next, Poll, Finished

-----------------------------------------------------------------------------
(* Stages and keys.                                                          *)

LEMMA StageStep ==
    ASSUME TypeOK, StageInv, [Next]_vars
    PROVE  StageInv'
<1>0. cur \in Nat
  BY SessionAssumption DEF TypeOK
<1>a. ASSUME UNCHANGED <<pc, stage, cur, got, given_up>> PROVE StageInv'
  BY <1>a DEF StageInv, Executing
<1>b. ASSUME UNCHANGED <<stage, cur, got, given_up>>,
             Executing, stage # "new" \/ pc' = "call",
             pc' \in {"scheduled", "call", "events", "asleep"}
      PROVE  StageInv'
  BY <1>b DEF StageInv, Executing
<1>c. ASSUME UNCHANGED <<stage, cur, got, given_up>>, ~Executing,
             pc' \in {"negotiation", "failed", "parted"}
      PROVE  StageInv'
  BY <1>c DEF StageInv, Executing
<1>d. ASSUME Executing, NEW how \in Outcomes, Return(how)
      PROVE  StageInv'
  <2>1. cur > 0
    BY <1>d, CurTypes
  <2>2. /\ stage' = "none" /\ pc' \in {"held", "failed"} /\ cur' = cur
        /\ given_up' = IF how \in Answered THEN given_up ELSE given_up \cup {cur}
    BY <1>d, <2>1, ReturnTypes
  <2>3. given_up' \subseteq 1 .. cur
    BY <1>0, <2>1, <2>2 DEF StageInv
  <2> QED
    BY <2>2, <2>3 DEF StageInv, Executing
<1>1. CASE Open \/ OpenFails \/ Part
  BY <1>1, <1>c DEF Open, OpenFails, Part, Executing
<1>3. CASE Execute
  <2>1. given_up \subseteq 1 .. cur /\ cur + 1 \notin 1 .. cur /\ cur + 1 > 0
        /\ 1 .. cur \subseteq 1 .. cur + 1
    BY <1>0 DEF StageInv
  <2>2. /\ cur' = cur + 1 /\ got' = 0 /\ stage' = "new" /\ pc' = "scheduled"
        /\ given_up' = given_up
    BY <1>3 DEF Execute
  <2>3. given_up' \subseteq 1 .. cur'
    BY <2>1, <2>2, Zenon
  <2> QED
    BY <2>1, <2>2, <2>3 DEF StageInv, Executing
<1>30. CASE Resume
  BY <1>30, <1>b DEF Resume, StageInv, Executing
<1>4. CASE CallInsert
  BY <1>4 DEF CallInsert, StageInv, Executing
<1>5. CASE CallSend
  BY <1>5 DEF CallSend, StageInv, Executing
<1>6. CASE CallSendFails
  BY <1>6, <1>d, OutcomeFacts DEF CallSendFails, Executing
<1>7. CASE CallReceive
  BY <1>7, <1>d, OutcomeFacts DEF CallReceive, Executing
<1>8. CASE CallPending \/ EventsPending \/ EventsIgnore \/ Wake
  BY <1>8, <1>b DEF CallPending, EventsPending, EventsIgnore, Reads, WakeSelf, Wake,
                    StageInv, Executing
<1>9. CASE EventsEnd
  BY <1>9, <1>d, OutcomeFacts DEF EventsEnd, Executing
<1>10. CASE EventsBad
  BY <1>10, <1>d, OutcomeFacts DEF EventsBad, Reads, Executing
<1>12. CASE EventsReply
  <2>1. pc = "events" /\ Executing
    BY <1>12 DEF EventsReply, Reads, Executing
  <2>2. CASE WakeSelf /\ UNCHANGED <<cur, stage, ends>>
    BY <2>1, <2>2 DEF WakeSelf, StageInv, Executing
  <2>3. CASE Return("ioerror")
    BY <1>d, <2>1, <2>3, OutcomeFacts
  <2> QED
    BY <1>12, <2>2, <2>3 DEF EventsReply
<1>15. CASE Cancel
  BY <1>15, <1>d, OutcomeFacts DEF Cancel, Executing
<1>17. CASE ServerRespond \/ ServerUnasked \/ ServerClose
  BY <1>17, <1>a DEF ServerRespond, ServerUnasked, ServerClose, Write
<1>20. CASE UNCHANGED vars
  BY <1>20, <1>a
<1> QED
  BY <1>1, <1>3, <1>4, <1>5, <1>6, <1>7, <1>8, <1>9, <1>10, <1>12, <1>15, <1>17,
     <1>20, <1>30 DEF Next, Poll, Finished

\* Before the connection is open nothing is filed.
LEMMA OpeningFacts ==
    ASSUME TypeOK, StageInv, FilingInv, pc = "opening"
    PROVE  \A k \in Keys : pending[k] = 0
<1>1. given_up = {}
  BY DEF StageInv
<1>2. stage = "none"
  BY DEF StageInv, Executing
<1> QED
  BY <1>1, <1>2 DEF FilingInv

LEMMA FilingStep ==
    ASSUME TypeOK, StageInv, FilingInv, [Next]_vars
    PROVE  FilingInv'
<1>0. /\ cur \in Nat /\ pending \in [Keys -> 0 .. MaxCalls]
  BY SessionAssumption DEF TypeOK
<1>a. ASSUME UNCHANGED <<pending, supports_oob, cur, got, given_up>>,
             pc' # "panicked" => pc # "panicked",
             stage \in {"sending", "waiting"} => stage' \in {"sending", "waiting"}
      PROVE  FilingInv'
  BY <1>a DEF FilingInv, Key, KeyOf
\* The call is over: it stays filed only if it is given up.
<1>b. ASSUME UNCHANGED <<supports_oob, cur>>, pc # "panicked",
             got' = got \/ pending'[Key] = 0,
             \/ given_up' = given_up \cup {cur}
             \/ given_up' = given_up /\ got # 0,
             \A k \in Keys : pending'[k] \in {0, pending[k]}
      PROVE  FilingInv'
  <2>1. got' # 0 => pending'[Key'] = 0
    BY <1>b, KeyTypes DEF FilingInv, Key, KeyOf
  <2> QED
    BY <1>b, <2>1 DEF FilingInv, KeyOf
<1>c. ASSUME Executing, NEW how \in {"eof", "ioerror", "cancelled"}, Return(how),
             UNCHANGED got,
             \A k \in Keys : pending'[k] \in {0, pending[k]}
      PROVE  FilingInv'
  <2>1. cur > 0 /\ pc # "panicked"
    BY <1>c, CurTypes DEF Executing
  <2>2. given_up' = given_up \cup {cur} /\ UNCHANGED <<supports_oob, cur>>
    BY <1>c, <2>1, OutcomeFacts, ReturnTypes
  <2> QED
    BY <1>b, <1>c, <2>1, <2>2
<1>1. CASE Open
  <2>1. /\ \A k \in Keys : pending[k] = 0
        /\ pending' = pending
    BY <1>1, OpeningFacts DEF Open
  <2>2. Key' \in Keys
    BY <1>1, SessionAssumption DEF Open, StageInv, Key, KeyOf, Keys
  <2> QED
    BY <2>1, <2>2 DEF FilingInv
<1>2. CASE OpenFails \/ Part
  BY <1>2, <1>a DEF OpenFails, Part
<1>3. CASE Execute
  <2>1. stage = "none" /\ pc # "panicked"
    BY <1>3 DEF Execute, StageInv, Executing
  <2>2. UNCHANGED <<pending, supports_oob, given_up>> /\ got' = 0
    BY <1>3 DEF Execute
  <2> QED
    BY <2>1, <2>2 DEF FilingInv, KeyOf
<1>4. CASE CallInsert
  <2>1. Key \in Keys /\ cur > 0
    BY <1>4, KeyTypes, CurTypes DEF CallInsert, Executing
  <2>2. /\ pending' = [pending EXCEPT ![Key] = cur] /\ stage = "new" /\ pc = "call"
        /\ UNCHANGED <<supports_oob, cur, got, given_up>>
        /\ pc' # "panicked" => stage' = "sending"
    BY <1>4 DEF CallInsert
  <2>3. pending'[Key] = cur /\ \A k \in Keys \ {Key} : pending'[k] = pending[k]
    BY <1>0, <2>1, <2>2
  <2>4. got = 0
    BY <2>2 DEF StageInv
  <2>5. \A k \in Keys : pending'[k] # 0 => k = KeyOf(pending'[k])
    BY <2>3 DEF FilingInv, Key
  <2>6. \A k \in Keys : pending[k] # 0 => pending[k] \in given_up
    BY <2>2 DEF FilingInv
  <2> QED
    BY <2>2, <2>3, <2>4, <2>5, <2>6 DEF FilingInv, KeyOf
<1>5. CASE CallSend
  BY <1>5, <1>a DEF CallSend
<1>6. CASE CallSendFails
  BY <1>6, <1>c DEF CallSendFails, Executing
<1>7. CASE CallReceive
  <2>1. cur > 0
    BY <1>7, CurTypes DEF CallReceive, Executing
  <2> QED
    BY <1>7, <1>b, <2>1, OutcomeFacts, ReturnTypes DEF CallReceive, Executing
<1>8. CASE Resume \/ CallPending \/ EventsPending \/ EventsIgnore \/ Wake
  BY <1>8, <1>a DEF Resume, CallPending, EventsPending, EventsIgnore, Reads, WakeSelf, Wake
<1>9. CASE EventsEnd
  BY <1>9, <1>c DEF EventsEnd, Executing
<1>10. CASE EventsBad
  BY <1>10, <1>c DEF EventsBad, Reads, Executing
<1>12. CASE EventsReply
  <2>1. pc = "events" /\ Executing
    BY <1>12 DEF EventsReply, Reads, Executing
  <2>2. /\ \A k \in Keys : pending'[k] \in {0, pending[k]}
        /\ ReplyKey \in Keys => pending'[ReplyKey] = 0
    BY <1>0, <1>12 DEF EventsReply, Remove
  <2>3. CASE Filed(ReplyKey) = cur /\ UNCHANGED <<supports_oob, cur, given_up>>
    <3>1. cur # 0
      BY <1>0, <2>1, CurTypes
    <3>2. ReplyKey \in Keys /\ pending[ReplyKey] = cur
      BY <2>3, <3>1 DEF Filed
    <3>3. \A k \in Keys : pending'[k] # 0 => pending[k] # cur
      BY <2>2, <3>1, <3>2 DEF FilingInv
    <3>4. pc # "panicked"
      BY <2>1
    <3>5. ReplyKey = Key /\ Key' = Key
      BY <2>3, <3>1, <3>2 DEF FilingInv, Key, KeyOf
    <3>6. got' # 0 => pending'[Key'] = 0
      BY <2>2, <3>2, <3>5
    <3> QED
      BY <2>2, <2>3, <3>3, <3>4, <3>6 DEF FilingInv, KeyOf
  <2>4. CASE Return("ioerror") /\ UNCHANGED got
    BY <1>c, <2>1, <2>2, <2>4
  <2> QED
    BY <1>12, <2>3, <2>4 DEF EventsReply
<1>15. CASE Cancel
  BY <1>15, <1>c DEF Cancel, Executing
<1>17. CASE ServerRespond \/ ServerUnasked \/ ServerClose
  BY <1>17, <1>a DEF ServerRespond, ServerUnasked, ServerClose, Write
<1>20. CASE UNCHANGED vars
  BY <1>20, <1>a
<1> QED
  BY <1>1, <1>2, <1>3, <1>4, <1>5, <1>6, <1>7, <1>8, <1>9, <1>10, <1>12, <1>15,
     <1>17, <1>20 DEF Next, Poll, Finished

-----------------------------------------------------------------------------
(* Commands and answers on their way.                                        *)

\* What TransitInv says while it says anything.
Quiet == "stray" \notin happened /\ pc # "panicked"

\* While a call sends, its command stays the last of the buffer.
LEMMA SendingStep ==
    ASSUME TypeOK, StageInv, SendingInv, [Next]_vars
    PROVE  SendingInv'
<1>0. cur \in Nat /\ unsent \in Seq(1 .. MaxCalls)
  BY SessionAssumption DEF TypeOK
<1>a. ASSUME UNCHANGED <<unsent, cur>>, stage' = "sending" => stage = "sending"
      PROVE  SendingInv'
  BY <1>a DEF SendingInv
<1>b. ASSUME Executing, NEW how \in Outcomes, Return(how)
      PROVE  SendingInv'
  BY <1>b, CurTypes, ReturnTypes DEF SendingInv
<1>1. CASE \/ Open \/ OpenFails \/ Part \/ Resume \/ Wake \/ CallPending
           \/ EventsPending \/ EventsIgnore
  BY <1>1, <1>a DEF Open, OpenFails, Part, Resume, Wake, CallPending, EventsPending,
                    EventsIgnore
<1>3. CASE Execute
  BY <1>3 DEF Execute, SendingInv
<1>4. CASE CallInsert
  <2>1. CASE unsent' = Append(unsent, cur) /\ cur' = cur
    <3>1. cur \in 1 .. MaxCalls
      BY <1>4, CurTypes DEF CallInsert, Executing
    <3>2. /\ Len(unsent') = Len(unsent) + 1 /\ DOMAIN unsent' = 1 .. Len(unsent) + 1
          /\ unsent'[Len(unsent) + 1] = cur /\ Len(unsent) \in Nat
      BY <1>0, <2>1, <3>1, AppendFacts
    <3>3. unsent' # <<>>
      BY <3>2
    <3> QED
      BY <2>1, <3>2, <3>3 DEF SendingInv
  <2>2. CASE stage' = "none"
    BY <2>2 DEF SendingInv
  <2> QED
    BY <1>4, <2>1, <2>2 DEF CallInsert
<1>5. CASE CallSend
  <2>1. CASE Tail(unsent) = <<>>
    BY <1>5, <2>1 DEF CallSend, SendingInv
  <2>2. CASE Tail(unsent) # <<>>
    <3>1. /\ unsent # <<>> /\ unsent' = Tail(unsent) /\ stage = "sending" /\ cur' = cur
      BY <1>5 DEF CallSend
    <3>2. /\ Tail(unsent) \in Seq(1 .. MaxCalls)
          /\ Len(Tail(unsent)) = Len(unsent) - 1 /\ Len(unsent) \in Nat
          /\ \A i \in DOMAIN Tail(unsent) : Tail(unsent)[i] = unsent[i + 1]
      BY <1>0, <3>1, TailFacts
    <3>3. Len(Tail(unsent)) \in DOMAIN Tail(unsent)
      BY <2>2, <3>2, TailFacts
    <3>4. (Len(unsent) - 1) + 1 = Len(unsent)
      BY <3>2
    <3>5. Tail(unsent)[Len(Tail(unsent))] = unsent[Len(unsent)]
      BY <3>2, <3>3, <3>4
    <3> QED
      BY <2>2, <3>1, <3>5 DEF SendingInv
  <2> QED
    BY <2>1, <2>2
<1>6. CASE CallSendFails
  BY <1>6, <1>b, OutcomeFacts DEF CallSendFails, Executing
<1>7. CASE CallReceive
  BY <1>7, <1>b, OutcomeFacts DEF CallReceive, Executing
<1>9. CASE EventsEnd
  BY <1>9, <1>b, OutcomeFacts DEF EventsEnd, Executing
<1>10. CASE EventsBad
  BY <1>10, <1>b, OutcomeFacts DEF EventsBad, Reads, Executing
<1>12. CASE EventsReply
  <2>1. Executing /\ unsent' = unsent
    BY <1>12 DEF EventsReply, Reads, Executing
  <2>2. UNCHANGED <<open, cur, stage, ends>> \/ Return("ioerror")
    BY <1>12 DEF EventsReply
  <2> QED
    BY <1>a, <1>b, <2>1, <2>2, OutcomeFacts
<1>15. CASE Cancel
  BY <1>15, <1>b, OutcomeFacts DEF Cancel, Executing
<1>17. CASE ServerRespond \/ ServerUnasked \/ ServerClose
  BY <1>17, <1>a DEF ServerRespond, ServerUnasked, ServerClose, Write
<1>20. CASE UNCHANGED vars
  BY <1>20, <1>a
<1> QED
  BY <1>1, <1>3, <1>4, <1>5, <1>6, <1>7, <1>9, <1>10, <1>12, <1>15, <1>17, <1>20
     DEF Next, Poll, Finished

\* No answer is new, and nothing is filed or removed.
LEMMA TransitKept ==
    ASSUME TypeOK, TransitInv, Quiet' => Quiet, UNCHANGED <<pending, supports_oob, unsent>>,
           requests' \in {requests, <<>>},
           NEW d \in Nat,
           \A i \in DOMAIN inbox' : inbox'[i].kind = "reply" =>
               i \in Nat /\ i + d \in DOMAIN inbox /\ inbox'[i] = inbox[i + d]
    PROVE  TransitInv'
<1> SUFFICES ASSUME Quiet' PROVE TransitInv'
  BY DEF TransitInv, Quiet
<1>1. \A n : OnItsWay(n) => OnItsWay(n)'
  BY DEF OnItsWay, KeyOf
<1>2. \A i, j \in Nat : i # j => i + d # j + d
  OBVIOUS
<1>3. \A i \in DOMAIN requests' : i \in DOMAIN requests /\ requests'[i] = requests[i]
  OBVIOUS
<1>4. /\ \A i \in DOMAIN unsent : OnItsWay(unsent[i])
      /\ \A i, j \in DOMAIN unsent : i # j => unsent[i] # unsent[j]
      /\ \A i \in DOMAIN unsent, j \in DOMAIN requests' : unsent[i] # requests'[j]
      /\ \A i \in DOMAIN unsent, j \in DOMAIN inbox' :
             Reply(j)' => unsent[i] # inbox'[j].of
  BY <1>3 DEF TransitInv, Quiet, Reply
<1>5. /\ \A i \in DOMAIN requests' : OnItsWay(requests'[i])
      /\ \A i \in DOMAIN inbox' : Reply(i)' => OnItsWay(inbox'[i].of)
      /\ \A i, j \in DOMAIN requests' : i # j => requests'[i] # requests'[j]
      /\ \A i, j \in DOMAIN inbox' :
             i # j /\ Reply(i)' /\ Reply(j)' => inbox'[i].of # inbox'[j].of
      /\ \A i \in DOMAIN requests', j \in DOMAIN inbox' :
             Reply(j)' => requests'[i] # inbox'[j].of
  BY <1>2, <1>3 DEF TransitInv, Quiet, Reply
<1> QED
  BY <1>1, <1>4, <1>5 DEF TransitInv

\* What the task takes from the inbox.
LEMMA ReadFacts ==
    ASSUME TypeOK, NEW kinds, Reads(kinds)
    PROVE  /\ pc = "events" /\ Head(inbox) = inbox[1] /\ 1 \in DOMAIN inbox
           /\ Head(inbox) \in Line /\ Head(inbox).kind \in kinds
           /\ \A i \in DOMAIN inbox' :
                 i \in Nat /\ 1 < i + 1 /\ i + 1 \in DOMAIN inbox
                 /\ inbox'[i] = inbox[i + 1]
BY TailFacts DEF TypeOK, Reads

\* What is taken from the front of a sequence of commands.
LEMMA FrontFacts ==
    ASSUME NEW s \in Seq(1 .. MaxCalls), s # <<>>
    PROVE  /\ Head(s) = s[1] /\ 1 \in DOMAIN s /\ Head(s) \in 1 .. MaxCalls
           /\ \A i \in DOMAIN Tail(s) :
                 /\ i + 1 # 1 /\ i + 1 \in DOMAIN s /\ Tail(s)[i] = s[i + 1]
                 /\ \A j \in DOMAIN Tail(s) : i # j => i + 1 # j + 1
<1>1. Head(s) = s[1] /\ Head(s) \in 1 .. MaxCalls
  BY TailFacts
<1>2. 1 \in DOMAIN s
  OBVIOUS
<1>3. DOMAIN Tail(s) = 1 .. Len(s) - 1 /\ Len(s) \in Nat
  BY TailFacts
<1>4. \A i \in DOMAIN Tail(s) : i + 1 \in DOMAIN s /\ Tail(s)[i] = s[i + 1]
  BY TailFacts
<1>5. \A i, j \in DOMAIN Tail(s) : i + 1 # 1 /\ (i # j => i + 1 # j + 1)
  BY <1>3
<1> QED
  BY <1>1, <1>2, <1>4, <1>5

\* An answer is handled: its call is not filed any more, the others are.
LEMMA TransitReply ==
    ASSUME TypeOK, StageInv, FilingInv, TransitInv, EventsReply, Quiet
    PROVE  TransitInv'
<1>1. /\ pc = "events" /\ Head(inbox) = inbox[1] /\ 1 \in DOMAIN inbox
      /\ Reply(1)
      /\ \A i \in DOMAIN inbox' :
            /\ i + 1 # 1 /\ i + 1 \in DOMAIN inbox /\ inbox'[i] = inbox[i + 1]
            /\ \A j \in DOMAIN inbox' : i # j => i + 1 # j + 1
  BY ReadFacts DEF EventsReply, Reply
<1> DEFINE n == Head(inbox).of
<1>2. OnItsWay(n) /\ n \in 1 .. MaxCalls /\ pending[KeyOf(n)] = n
  BY <1>1 DEF TransitInv, Quiet, OnItsWay
<1>3. KeyOf(n) \in Keys /\ ReplyKey = KeyOf(n)
  BY <1>2, SessionAssumption DEF Keys, KeyOf, ReplyKey
<1>4. pending' = [pending EXCEPT ![KeyOf(n)] = 0]
  BY <1>3 DEF EventsReply, Remove
<1>5. supports_oob' = supports_oob /\ requests' = requests /\ unsent' = unsent
  BY DEF EventsReply, Return
<1>6. ASSUME NEW m, OnItsWay(m), m # n PROVE OnItsWay(m)'
  <2>1. KeyOf(m) # KeyOf(n)
    BY <1>2, <1>6 DEF OnItsWay
  <2>2. pending'[KeyOf(m)] = pending[KeyOf(m)]
    BY <1>4, <2>1 DEF TypeOK
  <2> QED
    BY <1>5, <1>6, <2>2 DEF OnItsWay, KeyOf
<1> HIDE DEF n
<1>7. /\ \A i \in DOMAIN unsent : OnItsWay(unsent[i]) /\ unsent[i] # n
      /\ \A i, j \in DOMAIN unsent : i # j => unsent[i] # unsent[j]
      /\ \A i \in DOMAIN unsent, j \in DOMAIN requests : unsent[i] # requests[j]
      /\ \A i \in DOMAIN unsent, j \in DOMAIN inbox' :
             Reply(j)' => unsent[i] # inbox'[j].of
  BY <1>1 DEF TransitInv, Quiet, Reply, n
<1>8. /\ \A i \in DOMAIN requests' : OnItsWay(requests'[i]) /\ requests'[i] # n
      /\ \A i \in DOMAIN inbox' :
            Reply(i)' => OnItsWay(inbox'[i].of) /\ inbox'[i].of # n
      /\ \A i, j \in DOMAIN requests' : i # j => requests'[i] # requests'[j]
      /\ \A i, j \in DOMAIN inbox' :
             i # j /\ Reply(i)' /\ Reply(j)' => inbox'[i].of # inbox'[j].of
      /\ \A i \in DOMAIN requests', j \in DOMAIN inbox' :
             Reply(j)' => requests'[i] # inbox'[j].of
  BY <1>1, <1>5 DEF TransitInv, Quiet, Reply, n
<1> QED
  BY <1>5, <1>6, <1>7, <1>8 DEF TransitInv

\* The server answers: the number moves from its requests to the inbox.
LEMMA TransitRespond ==
    ASSUME TypeOK, TransitInv, ServerRespond
    PROVE  TransitInv'
<1> DEFINE n == Head(requests)
           m == [kind |-> "reply", of |-> n]
<1>0. inbox \in Seq(Line) /\ requests \in Seq(1 .. MaxCalls)
  BY DEF TypeOK
<1>1. /\ requests # <<>> /\ requests' = Tail(requests) /\ inbox' = Append(inbox, m)
      /\ UNCHANGED <<pc, pending, supports_oob, unsent, happened>>
  BY DEF ServerRespond, Write
<1>2. /\ n = requests[1] /\ 1 \in DOMAIN requests /\ n \in 1 .. MaxCalls
      /\ \A i \in DOMAIN requests' :
            /\ i + 1 # 1 /\ i + 1 \in DOMAIN requests /\ requests'[i] = requests[i + 1]
            /\ \A j \in DOMAIN requests' : i # j => i + 1 # j + 1
  BY <1>0, <1>1, FrontFacts
<1>3. m \in Line /\ m.of = n /\ m.kind = "reply"
  BY <1>2, SessionAssumption DEF Line
<1> HIDE DEF n, m
<1>4. /\ inbox'[Len(inbox) + 1] = m
      /\ \A i \in DOMAIN inbox' :
            i = Len(inbox) + 1 \/ (i \in DOMAIN inbox /\ inbox'[i] = inbox[i])
  BY <1>0, <1>1, <1>3, AppendFacts
<1> SUFFICES ASSUME Quiet PROVE TransitInv'
  BY <1>1 DEF TransitInv, Quiet
<1>5. \A k : OnItsWay(k) => OnItsWay(k)'
  BY <1>1 DEF OnItsWay, KeyOf
<1>6. /\ \A i \in DOMAIN requests' : OnItsWay(requests'[i]) /\ requests'[i] # n
      /\ \A i, j \in DOMAIN requests' : i # j => requests'[i] # requests'[j]
  BY <1>2 DEF TransitInv, Quiet
<1>7. OnItsWay(n)
  BY <1>2 DEF TransitInv, Quiet
<1>8. \A i \in DOMAIN inbox' : Reply(i)' =>
         \/ i = Len(inbox) + 1 /\ inbox'[i].of = n
         \/ i \in DOMAIN inbox /\ Reply(i) /\ inbox'[i].of = inbox[i].of /\ inbox[i].of # n
  BY <1>2, <1>3, <1>4 DEF TransitInv, Quiet, Reply
<1>9. \A i \in DOMAIN inbox' : Reply(i)' => OnItsWay(inbox'[i].of)
  BY <1>7, <1>8 DEF TransitInv, Quiet
<1>10. \A i, j \in DOMAIN inbox' :
          i # j /\ Reply(i)' /\ Reply(j)' => inbox'[i].of # inbox'[j].of
  BY <1>8 DEF TransitInv, Quiet
<1>11. \A i \in DOMAIN requests', j \in DOMAIN inbox' :
          Reply(j)' => requests'[i] # inbox'[j].of
  BY <1>2, <1>6, <1>8 DEF TransitInv, Quiet
<1>12. /\ \A i \in DOMAIN unsent : OnItsWay(unsent[i]) /\ unsent[i] # n
       /\ \A i, j \in DOMAIN unsent : i # j => unsent[i] # unsent[j]
       /\ \A i \in DOMAIN unsent, j \in DOMAIN requests' : unsent[i] # requests'[j]
  BY <1>2 DEF TransitInv, Quiet
<1>13. \A i \in DOMAIN unsent, j \in DOMAIN inbox' : Reply(j)' => unsent[i] # inbox'[j].of
  BY <1>8, <1>12 DEF TransitInv, Quiet
<1> QED
  BY <1>1, <1>5, <1>6, <1>9, <1>10, <1>11, <1>12, <1>13 DEF TransitInv

\* A command is filed and encoded.
LEMMA TransitInsert ==
    ASSUME TypeOK, StageInv, FilingInv, TransitInv, CallInsert
    PROVE  TransitInv'
<1>0. unsent \in Seq(1 .. MaxCalls) /\ cur \in 1 .. MaxCalls
  BY CurTypes DEF TypeOK, CallInsert, Executing
<1>1. /\ pending' = [pending EXCEPT ![Key] = cur] /\ stage = "new" /\ pc = "call"
      /\ UNCHANGED <<supports_oob, cur, requests, inbox, happened>>
      /\ pc' # "panicked" => pending[Key] = 0 /\ unsent' = Append(unsent, cur)
  BY DEF CallInsert
<1> SUFFICES ASSUME Quiet' PROVE TransitInv'
  BY DEF TransitInv, Quiet
<1>2. Quiet /\ pending[Key] = 0 /\ unsent' = Append(unsent, cur)
  BY <1>1 DEF Quiet
<1>3. ASSUME NEW n, OnItsWay(n) PROVE OnItsWay(n)' /\ n # cur
  <2>1. KeyOf(n) # Key /\ n # cur
    BY <1>0, <1>2, <1>3 DEF OnItsWay, Key
  <2>2. pending'[KeyOf(n)] = n
    BY <1>1, <1>3, <2>1 DEF OnItsWay, TypeOK
  <2> QED
    BY <1>1, <1>3, <2>1, <2>2 DEF OnItsWay, KeyOf
<1>4. OnItsWay(cur)'
  BY <1>0, <1>1, KeyTypes DEF OnItsWay, TypeOK, Key, KeyOf
<1>5. \A i \in DOMAIN unsent' :
         \/ i \in DOMAIN unsent /\ unsent'[i] = unsent[i]
         \/ i = Len(unsent) + 1 /\ unsent'[i] = cur
  BY <1>0, <1>2, AppendFacts
<1>6. /\ \A i \in DOMAIN unsent : OnItsWay(unsent[i])
      /\ \A i \in DOMAIN requests : OnItsWay(requests[i])
      /\ \A i \in DOMAIN inbox : Reply(i) => OnItsWay(inbox[i].of)
  BY <1>2 DEF TransitInv, Quiet
<1>7. \A i \in DOMAIN unsent' : OnItsWay(unsent'[i]) \/ unsent'[i] = cur
  BY <1>5, <1>6
<1>8. /\ \A i, j \in DOMAIN unsent' : i # j => unsent'[i] # unsent'[j]
      /\ \A i \in DOMAIN unsent', j \in DOMAIN requests : unsent'[i] # requests[j]
      /\ \A i \in DOMAIN unsent', j \in DOMAIN inbox : Reply(j) => unsent'[i] # inbox[j].of
  BY <1>2, <1>3, <1>5, <1>6 DEF TransitInv, Quiet
<1> QED
  BY <1>1, <1>2, <1>3, <1>4, <1>6, <1>7, <1>8 DEF TransitInv, Quiet, Reply

\* The first command of the buffer is written, to a server that may be gone.
LEMMA TransitSend ==
    ASSUME TypeOK, TransitInv, CallSend
    PROVE  TransitInv'
<1> DEFINE n == Head(unsent)
<1>0. unsent \in Seq(1 .. MaxCalls) /\ requests \in Seq(1 .. MaxCalls)
  BY DEF TypeOK
<1>1. /\ unsent # <<>> /\ unsent' = Tail(unsent)
      /\ requests' = requests \/ requests' = Append(requests, n)
      /\ UNCHANGED <<pc, supports_oob, pending, inbox, happened>>
  BY DEF CallSend
<1>2. /\ n = unsent[1] /\ 1 \in DOMAIN unsent /\ n \in 1 .. MaxCalls
      /\ \A i \in DOMAIN unsent' :
            /\ i + 1 # 1 /\ i + 1 \in DOMAIN unsent /\ unsent'[i] = unsent[i + 1]
            /\ \A j \in DOMAIN unsent' : i # j => i + 1 # j + 1
  BY <1>0, <1>1, FrontFacts
<1> HIDE DEF n
<1>3. \A i \in DOMAIN requests' :
         \/ i \in DOMAIN requests /\ requests'[i] = requests[i]
         \/ i = Len(requests) + 1 /\ requests'[i] = n
  BY <1>0, <1>1, <1>2, AppendFacts
<1> SUFFICES ASSUME Quiet PROVE TransitInv'
  BY <1>1 DEF TransitInv, Quiet
<1>4. \A k : OnItsWay(k) => OnItsWay(k)'
  BY <1>1 DEF OnItsWay, KeyOf
<1>5. /\ \A i \in DOMAIN unsent' : OnItsWay(unsent'[i]) /\ unsent'[i] # n
      /\ \A i, j \in DOMAIN unsent' : i # j => unsent'[i] # unsent'[j]
      /\ \A i \in DOMAIN unsent', j \in DOMAIN requests : unsent'[i] # requests[j]
      /\ \A i \in DOMAIN unsent', j \in DOMAIN inbox : Reply(j) => unsent'[i] # inbox[j].of
  BY <1>2 DEF TransitInv, Quiet
<1>6. /\ OnItsWay(n)
      /\ \A i \in DOMAIN requests : OnItsWay(requests[i]) /\ requests[i] # n
      /\ \A i \in DOMAIN inbox : Reply(i) => OnItsWay(inbox[i].of) /\ inbox[i].of # n
      /\ \A i, j \in DOMAIN requests : i # j => requests[i] # requests[j]
      /\ \A i, j \in DOMAIN inbox : i # j /\ Reply(i) /\ Reply(j) => inbox[i].of # inbox[j].of
      /\ \A i \in DOMAIN requests, j \in DOMAIN inbox : Reply(j) => requests[i] # inbox[j].of
  BY <1>2 DEF TransitInv, Quiet
<1>7. /\ \A i \in DOMAIN requests' : OnItsWay(requests'[i])
      /\ \A i, j \in DOMAIN requests' : i # j => requests'[i] # requests'[j]
      /\ \A i \in DOMAIN requests', j \in DOMAIN inbox : Reply(j) => requests'[i] # inbox[j].of
  BY <1>3, <1>6
<1>8. \A i \in DOMAIN unsent', j \in DOMAIN requests' : unsent'[i] # requests'[j]
  BY <1>3, <1>5
<1> QED
  BY <1>1, <1>4, <1>5, <1>6, <1>7, <1>8 DEF TransitInv, Reply

LEMMA TransitStep ==
    ASSUME TypeOK, StageInv, FilingInv, TransitInv, [Next]_vars
    PROVE  TransitInv'
<1>0. inbox \in Seq(Line) /\ requests \in Seq(1 .. MaxCalls) /\ cur \in Nat
  BY SessionAssumption DEF TypeOK
<1>a. ASSUME Quiet' => Quiet, UNCHANGED <<pending, supports_oob, inbox, unsent>>,
             requests' \in {requests, <<>>}
      PROVE  TransitInv'
  <2>1. \A i \in DOMAIN inbox' : i \in Nat /\ i + 0 \in DOMAIN inbox /\ inbox'[i] = inbox[i + 0]
    BY <1>0, <1>a
  <2> QED
    BY <1>a, <2>1, TransitKept
<1>b. ASSUME Executing, NEW how \in Outcomes, Return(how)
      PROVE  supports_oob' = supports_oob /\ pc # "panicked"
  BY <1>b DEF Executing, Return
<1>c. ASSUME NEW kinds, Reads(kinds),
             UNCHANGED <<pending, supports_oob, unsent, requests, happened>>
      PROVE  TransitInv'
  <2>1. \A i \in DOMAIN inbox' : i \in Nat /\ i + 1 \in DOMAIN inbox /\ inbox'[i] = inbox[i + 1]
    BY <1>c, ReadFacts
  <2>2. Quiet' => Quiet
    BY <1>c, ReadFacts DEF Quiet
  <2> QED
    BY <1>c, <2>1, <2>2, TransitKept
<1>1. CASE Open
  <2>1. \A k \in Keys : pending[k] = 0
    BY <1>1, OpeningFacts DEF Open
  <2>2. \A n : ~OnItsWay(n)
    BY <2>1, SessionAssumption DEF OnItsWay, Keys, KeyOf
  <2>3. /\ inbox # <<>> /\ inbox' = Tail(inbox) /\ pc = "opening" /\ requests' = requests
        /\ unsent' = unsent /\ happened' = happened
    BY <1>1 DEF Open
  <2>4. \A i \in DOMAIN inbox' : i + 1 \in DOMAIN inbox /\ inbox'[i] = inbox[i + 1]
    BY <1>0, <2>3, TailFacts
  <2>5. Quiet => /\ \A i \in DOMAIN requests' : FALSE
                 /\ \A i \in DOMAIN unsent' : FALSE
                 /\ \A i \in DOMAIN inbox' : ~Reply(i)'
    BY <2>2, <2>3, <2>4 DEF TransitInv, Quiet, Reply
  <2> QED
    BY <2>3, <2>5 DEF TransitInv, Quiet
<1>2. CASE OpenFails \/ Part \/ Resume
  BY <1>2, <1>a DEF OpenFails, Part, Resume, Quiet
<1>3. CASE Execute
  BY <1>3, <1>a DEF Execute, Quiet
<1>4. CASE CallInsert
  BY <1>4, TransitInsert
<1>5. CASE CallSend
  BY <1>5, TransitSend
<1>6. CASE CallSendFails
  BY <1>6, <1>a, <1>b, OutcomeFacts DEF CallSendFails, Executing, Quiet, Fails
<1>7. CASE CallReceive
  BY <1>7, <1>a, <1>b, OutcomeFacts DEF CallReceive, Executing, Quiet
<1>8. CASE CallPending \/ EventsPending \/ Wake
  BY <1>8, <1>a DEF CallPending, EventsPending, Wake, Quiet
<1>9. CASE EventsEnd
  BY <1>9, <1>a, <1>b, OutcomeFacts DEF EventsEnd, Executing, Quiet
<1>10. CASE EventsBad
  BY <1>10, <1>b, <1>c, ReadFacts, OutcomeFacts DEF EventsBad, Executing
<1>11. CASE EventsIgnore
  BY <1>11, <1>c DEF EventsIgnore
<1>12. CASE EventsReply
  <2>1. pc = "events" /\ happened' = happened
    BY <1>12 DEF EventsReply, Reads
  <2>2. CASE Quiet
    BY <1>12, <2>2, TransitReply
  <2>3. CASE ~Quiet
    BY <2>1, <2>3 DEF TransitInv, Quiet
  <2> QED
    BY <2>2, <2>3
<1>15. CASE Cancel
  BY <1>15, <1>a, <1>b, OutcomeFacts DEF Cancel, Executing, Quiet, Fails
<1>17. CASE ServerRespond
  BY <1>17, TransitRespond
<1>18. CASE ServerUnasked
  <2>1. UNCHANGED <<pc, pending, supports_oob, unsent, requests>>
    BY <1>18 DEF ServerUnasked, Write
  <2>2. CASE Fails("stray")
    BY <2>2 DEF Fails, TransitInv
  <2>3. ASSUME NEW k \in {"event", "bad"}, Fails(k), Write(k, 0) PROVE TransitInv'
    <3>1. [kind |-> k, of |-> 0] \in Line /\ inbox' = Append(inbox, [kind |-> k, of |-> 0])
      BY <2>3, SessionAssumption DEF Line, Write
    <3>2. \A i \in DOMAIN inbox' : inbox'[i].kind = "reply" =>
             i \in Nat /\ i + 0 \in DOMAIN inbox /\ inbox'[i] = inbox[i + 0]
      <4>1. \A i \in DOMAIN inbox' : inbox'[i].kind = "reply" =>
               i \in DOMAIN inbox /\ inbox'[i] = inbox[i]
        BY <1>0, <3>1, AppendFacts
      <4>2. \A i \in DOMAIN inbox : i \in Nat /\ i + 0 = i
        BY <1>0
      <4> QED
        BY <4>1, <4>2
    <3>3. Quiet' => Quiet
      BY <2>1, <2>3 DEF Quiet, Fails
    <3> QED
      BY <2>1, <3>2, <3>3, TransitKept
  <2> QED
    BY <1>18, <2>2, <2>3 DEF ServerUnasked
<1>19. CASE ServerClose
  BY <1>19, <1>a DEF ServerClose, Quiet, Fails
<1>20. CASE UNCHANGED vars
  BY <1>20, <1>a DEF Quiet
<1> QED
  BY <1>1, <1>2, <1>3, <1>4, <1>5, <1>6, <1>7, <1>8, <1>9, <1>10, <1>11, <1>12, <1>15,
     <1>17, <1>18, <1>19, <1>20 DEF Next, Poll, Finished

-----------------------------------------------------------------------------
(* What execute() returns, and why.                                          *)

LEMMA GotStep ==
    ASSUME TypeOK, StageInv, FilingInv, SendingInv, TransitInv, GotInv, [Next]_vars
    PROVE  GotInv'
<1>0. Executing => stage # "none"
  BY DEF StageInv
<1>a. ASSUME UNCHANGED <<got, cur, stage, ends>>, happened \subseteq happened',
             pc \in {"scheduled", "call"} =>
                 pc' \in {"scheduled", "call"} \/ stage # "waiting" \/ got = 0
      PROVE  GotInv'
  BY <1>a DEF GotInv
\* Other returns happen before the answer has come, or at its place.
<1>b. ASSUME UNCHANGED got, Executing, happened \subseteq happened',
             pc \notin {"scheduled", "call"} \/ stage # "waiting"
      PROVE  GotInv'
  BY <1>0, <1>b DEF GotInv
\* The call ends with its answer in the channel.
<1>c. ASSUME UNCHANGED got, Executing, happened \subseteq happened',
             NEW how \in Outcomes, Return(how), how \in Answered \/ how = "cancelled"
      PROVE  GotInv'
  <2>1. cur > 0
    BY <1>c, CurTypes
  <2>2. /\ stage' = "none" /\ result' = how /\ cur' = cur
        /\ given_up' = IF how \in Answered THEN given_up ELSE given_up \cup {cur}
    BY <1>c, <2>1, ReturnTypes
  <2> QED
    BY <1>c, <2>2 DEF GotInv
<1>1. CASE Open \/ OpenFails \/ Part \/ Resume \/ Wake \/ ServerClose
  BY <1>1, <1>a DEF Open, OpenFails, Part, Resume, Wake, ServerClose, Fails
<1>3. CASE Execute
  BY <1>3 DEF Execute, GotInv
<1>4. CASE CallInsert
  BY <1>4, <1>b DEF CallInsert, Executing
<1>5. CASE CallSend
  BY <1>5, <1>b DEF CallSend, Executing
<1>6. CASE CallSendFails
  BY <1>6, <1>b DEF CallSendFails, Executing, Fails
<1>7. CASE CallReceive
  BY <1>7, <1>c, OutcomeFacts DEF CallReceive, Executing
<1>8. CASE CallPending
  BY <1>8, <1>a DEF CallPending
<1>9. CASE EventsEnd \/ EventsPending
  BY <1>9, <1>b DEF EventsEnd, EventsPending, Executing
<1>10. CASE EventsBad \/ EventsIgnore
  BY <1>10, <1>b DEF EventsBad, EventsIgnore, Reads, Executing
<1>12. CASE EventsReply
  <2>1. pc = "events" /\ Executing /\ happened' = happened
    BY <1>12 DEF EventsReply, Reads, Executing
  <2>2. CASE UNCHANGED got
    BY <1>b, <2>1, <2>2
  <2>3. ASSUME Filed(ReplyKey) = cur, got' = Head(inbox).of, WakeSelf,
               UNCHANGED <<open, cur, stage, ends>>, "stray" \notin happened
        PROVE  got' = cur /\ stage' = "waiting" /\ pc' = "scheduled"
    <3>1. Head(inbox) = inbox[1] /\ 1 \in DOMAIN inbox /\ Reply(1)
      BY <1>12, ReadFacts DEF EventsReply, Reply
    <3> DEFINE n == Head(inbox).of
    <3>2. n \in 1 .. MaxCalls /\ pending[KeyOf(n)] = n /\ OnItsWay(n)
      BY <2>1, <2>3, <3>1 DEF TransitInv, OnItsWay
    <3>3. KeyOf(n) \in Keys /\ ReplyKey = KeyOf(n)
      BY <3>2, SessionAssumption DEF Keys, KeyOf, ReplyKey
    <3>4. n = cur
      BY <2>3, <3>2, <3>3 DEF Filed
    <3>5. cur # 0 /\ cur \notin given_up
      BY <2>1, <3>2, <3>4 DEF StageInv
    <3>6. stage \in {"sending", "waiting"}
      BY <2>1, <3>2, <3>3, <3>4, <3>5 DEF FilingInv
    <3>7. stage = "waiting"
      <4> SUFFICES ASSUME stage = "sending" PROVE FALSE
        BY <3>6
      <4>1. unsent # <<>> /\ unsent[Len(unsent)] = cur /\ unsent \in Seq(1 .. MaxCalls)
        BY DEF SendingInv, TypeOK
      <4>2. Len(unsent) \in DOMAIN unsent
        BY <4>1, TailFacts
      <4> QED
        BY <2>1, <2>3, <3>1, <3>4, <4>1, <4>2 DEF TransitInv
    <3> QED
      BY <2>3, <3>4, <3>7 DEF WakeSelf
  <2>4. got' = got \/ (/\ Filed(ReplyKey) = cur /\ got' = Head(inbox).of /\ WakeSelf
                      /\ UNCHANGED <<open, cur, stage, ends>>)
    BY <1>12 DEF EventsReply
  <2> QED
    BY <2>1, <2>2, <2>3, <2>4 DEF GotInv
<1>15. CASE Cancel
  BY <1>15, <1>c, OutcomeFacts DEF Cancel, Executing, Fails
<1>17. CASE ServerRespond
  BY <1>17, <1>a DEF ServerRespond, Write
<1>18. CASE ServerUnasked
  BY <1>18, <1>a DEF ServerUnasked, Write, Fails
<1>20. CASE UNCHANGED vars
  BY <1>20, <1>a
<1> QED
  BY <1>1, <1>3, <1>4, <1>5, <1>6, <1>7, <1>8, <1>9, <1>10, <1>12, <1>15, <1>17,
     <1>18, <1>20 DEF Next, Poll, Finished

\* execute() panics only on a key that a call given up has kept.
LEMMA PanicStep ==
    ASSUME TypeOK, StageInv, FilingInv, PanicNeedsLostCall, [Next]_vars
    PROVE  PanicNeedsLostCall'
<1> USE DEF PanicNeedsLostCall
<1>a. ASSUME pc' # "panicked" PROVE PanicNeedsLostCall'
  BY <1>a
<1>b. ASSUME UNCHANGED <<pc, supports_oob, given_up>> PROVE PanicNeedsLostCall'
  BY <1>b
<1>c. ASSUME Executing, NEW how \in Outcomes, Return(how)
      PROVE  PanicNeedsLostCall'
  <2>1. cur > 0
    BY <1>c, CurTypes
  <2> QED
    BY <1>a, <1>c, <2>1, ReturnTypes
<1>4. CASE CallInsert
  <2>1. Key \in Keys /\ cur > 0 /\ cur \notin given_up
    BY <1>4, KeyTypes, CurTypes DEF CallInsert, Executing, StageInv
  <2>2. CASE pending[Key] = 0
    BY <1>4, <2>2 DEF CallInsert
  <2>3. CASE pending[Key] # 0
    <3>1. pending[Key] \in given_up /\ Key = KeyOf(pending[Key])
      BY <1>4, <2>1, <2>3 DEF FilingInv, CallInsert
    <3>2. ~supports_oob
      BY <2>1, <3>1 DEF Key, KeyOf
    <3> QED
      BY <1>4, <3>1, <3>2 DEF CallInsert
  <2> QED
    BY <2>2, <2>3
<1>5. CASE \/ Open \/ OpenFails \/ Part \/ Resume \/ Wake \/ Execute \/ CallSend \/ CallPending
           \/ EventsPending \/ EventsIgnore
  BY <1>5, <1>a DEF Open, OpenFails, Part, Resume, Wake, Execute, CallSend, CallPending,
                    EventsPending, EventsIgnore, WakeSelf
<1>6. CASE CallSendFails \/ CallReceive \/ EventsEnd \/ Cancel
  BY <1>6, <1>c, OutcomeFacts DEF CallSendFails, CallReceive, EventsEnd, Cancel, Executing
<1>10. CASE EventsBad
  BY <1>10, <1>c, OutcomeFacts DEF EventsBad, Reads, Executing
<1>12. CASE EventsReply
  <2>1. pc = "events" /\ Executing
    BY <1>12 DEF EventsReply, Reads, Executing
  <2>2. WakeSelf \/ Return("ioerror")
    BY <1>12 DEF EventsReply
  <2> QED
    BY <1>a, <1>c, <2>1, <2>2, OutcomeFacts DEF WakeSelf
<1>17. CASE ServerRespond \/ ServerUnasked \/ ServerClose
  BY <1>17, <1>b DEF ServerRespond, ServerUnasked, ServerClose, Write
<1>20. CASE UNCHANGED vars
  BY <1>20, <1>b
<1> QED
  BY <1>4, <1>5, <1>6, <1>10, <1>12, <1>17, <1>20 DEF Next, Poll, Finished

\* What has gone wrong has happened, and is counted.
LEMMA CauseStep ==
    ASSUME TypeOK, StageInv, CauseInv, [Next]_vars
    PROVE  CauseInv'
<1>0. inbox \in Seq(Line)
  BY DEF TypeOK
<1>a. ASSUME UNCHANGED <<inbox, eof>>, Early => Early',
             happened \subseteq happened', UNCHANGED plan \/ faults' > 0,
             errored' => errored, stop' => stop, given_up \subseteq given_up',
             result' = "eof" => result = "eof"
      PROVE  CauseInv'
  BY <1>a DEF CauseInv
\* The first line is taken.
<1>b. ASSUME inbox # <<>>, inbox' = Tail(inbox), UNCHANGED <<eof, plan>>,
             errored' => "bad" \in happened, stop' => stop,
             stop' \/ errored' => given_up' # {}, result' = "eof" => result = "eof"
      PROVE  CauseInv'
  <2>1. \A i \in DOMAIN inbox' :
           i + 1 # 1 /\ i + 1 \in DOMAIN inbox /\ inbox'[i] = inbox[i + 1]
    BY <1>0, <1>b, TailFacts
  <2>2. \A i \in DOMAIN inbox' :
           /\ inbox'[i].kind = "bad" => "bad" \in happened
           /\ inbox'[i].kind = "event" => "event" \in happened
           /\ inbox'[i].kind # "greeting"
    BY <2>1 DEF CauseInv
  <2>3. eof => "close" \in happened
    BY <1>b DEF CauseInv
  <2> QED
    BY <1>b, <2>2, <2>3 DEF CauseInv
\* A line is added.
<1>c. ASSUME NEW k \in {"reply", "event", "bad"}, NEW n, Write(k, n),
             [kind |-> k, of |-> n] \in Line,
             happened \subseteq happened', UNCHANGED plan \/ faults' > 0,
             k # "reply" => k \in happened'
      PROVE  CauseInv'
  <2>1. /\ ~eof /\ inbox' = Append(inbox, [kind |-> k, of |-> n])
        /\ UNCHANGED <<pc, eof, errored, stop, result, given_up>>
    BY <1>c DEF Write
  <2>2. \A i \in DOMAIN inbox' :
           \/ i \in DOMAIN inbox /\ inbox'[i] = inbox[i]
           \/ inbox'[i].kind = k
    BY <1>0, <1>c, <2>1, AppendFacts
  <2>3. Early' <=> Early
    BY <2>1 DEF Early
  <2>4. \A i \in DOMAIN inbox' :
           /\ inbox'[i].kind = "bad" => "bad" \in happened' \/ (i = 1 /\ Early')
           /\ inbox'[i].kind = "event" => "event" \in happened'
           /\ inbox'[i].kind = "greeting" => i = 1 /\ Early'
    BY <1>c, <2>2, <2>3 DEF CauseInv
  <2> QED
    BY <1>c, <2>1, <2>4 DEF CauseInv
<1>d. ASSUME Executing, NEW how \in Outcomes, Return(how)
      PROVE  /\ result' = how /\ given_up \subseteq given_up'
             /\ how \notin Answered => given_up' # {}
  BY <1>d, CurTypes, ReturnTypes
<1>e. ASSUME NEW f, Fails(f)
      PROVE  faults' > 0 /\ happened \subseteq happened' /\ f \in happened'
  BY <1>e, FaultTypes
<1>1. CASE Open
  BY <1>1, <1>b DEF Open, CauseInv
<1>2. CASE \/ OpenFails \/ Part \/ Resume \/ Wake \/ Execute \/ CallInsert \/ CallSend \/ CallPending
           \/ EventsPending
  BY <1>2, <1>a DEF OpenFails, Part, Resume, Wake, Execute, CallInsert, CallSend, CallPending,
                    EventsPending, Early
<1>6. CASE CallSendFails
  BY <1>6, <1>a, <1>d, <1>e, OutcomeFacts DEF CallSendFails, Executing, Early
<1>7. CASE CallReceive
  BY <1>7, <1>a, <1>d, OutcomeFacts DEF CallReceive, Executing, Early
<1>9. CASE EventsEnd
  <2>1. ~Early /\ happened \cap {"bad", "close"} # {}
    BY <1>9 DEF EventsEnd, CauseInv, Early
  <2>2. UNCHANGED <<inbox, eof, plan>> /\ ~errored' /\ given_up' # {}
    BY <1>9, <1>d, OutcomeFacts DEF EventsEnd, Executing
  <2>3. eof => "close" \in happened
    BY <2>1 DEF CauseInv
  <2>4. \A i \in DOMAIN inbox : /\ inbox[i].kind = "bad" => "bad" \in happened
                               /\ inbox[i].kind = "event" => "event" \in happened
                               /\ inbox[i].kind # "greeting"
    BY <2>1 DEF CauseInv
  <2> QED
    BY <2>1, <2>2, <2>3, <2>4 DEF CauseInv
<1>10. CASE EventsBad
  <2>1. /\ inbox # <<>> /\ inbox' = Tail(inbox) /\ pc = "events"
        /\ UNCHANGED <<eof, plan, stop>>
    BY <1>10 DEF EventsBad, Reads
  <2>2. Head(inbox) = inbox[1] /\ 1 \in DOMAIN inbox /\ Head(inbox).kind \in {"bad"}
    BY <1>10, ReadFacts DEF EventsBad
  <2>3. "bad" \in happened
    BY <2>1, <2>2 DEF CauseInv, Early
  <2>4. result' = "ioerror" /\ given_up' # {}
    BY <1>10, <1>d, <2>1, OutcomeFacts DEF EventsBad, Executing
  <2> QED
    BY <1>b, <2>1, <2>3, <2>4
<1>11. CASE EventsIgnore
  BY <1>11, <1>b DEF EventsIgnore, Reads, CauseInv
<1>12. CASE EventsReply
  <2>1. /\ inbox # <<>> /\ inbox' = Tail(inbox) /\ pc = "events"
        /\ UNCHANGED <<eof, plan, stop, errored>>
    BY <1>12 DEF EventsReply, Reads
  <2>2. (result' = "eof" => result = "eof") /\ given_up \subseteq given_up'
    <3>1. CASE UNCHANGED <<open, cur, stage, ends>>
      BY <3>1
    <3>2. CASE Return("ioerror")
      BY <1>d, <2>1, <3>2, OutcomeFacts DEF Executing
    <3> QED
      BY <1>12, <3>1, <3>2 DEF EventsReply
  <2> QED
    BY <1>b, <2>1, <2>2 DEF CauseInv
<1>15. CASE Cancel
  BY <1>15, <1>a, <1>d, <1>e, OutcomeFacts DEF Cancel, Executing, Early
<1>17. CASE ServerRespond
  <2>1. Head(requests) \in 1 .. MaxCalls
    BY <1>17, TailFacts DEF ServerRespond, TypeOK
  <2>2. [kind |-> "reply", of |-> Head(requests)] \in Line
    BY <2>1, SessionAssumption DEF Line
  <2> QED
    BY <1>17, <1>c, <2>2 DEF ServerRespond
<1>18. CASE ServerUnasked
  <2>1. \A k \in {"reply", "event", "bad"}, n \in {0, MaxCalls + 1} :
           [kind |-> k, of |-> n] \in Line
    BY SessionAssumption DEF Line
  <2>2. ASSUME Fails("stray"), Write("reply", MaxCalls + 1) PROVE CauseInv'
    BY <1>c, <1>e, <2>1, <2>2
  <2>3. ASSUME NEW k \in {"event", "bad"}, Fails(k), Write(k, 0) PROVE CauseInv'
    BY <1>c, <1>e, <2>1, <2>3
  <2> QED
    BY <1>18, <2>2, <2>3 DEF ServerUnasked
<1>19. CASE ServerClose
  BY <1>19, <1>e DEF ServerClose, CauseInv, Early
<1>20. CASE UNCHANGED vars
  BY <1>20, <1>a DEF Early
<1> QED
  BY <1>1, <1>2, <1>6, <1>7, <1>9, <1>10, <1>11, <1>12, <1>15, <1>17, <1>18, <1>19,
     <1>20 DEF Next, Poll, Finished

\* execute() fails because the connection did, or on the answer to another call.
LEMMA ErrorStep ==
    ASSUME TypeOK, StageInv, FilingInv, TransitInv, CauseInv, ErrorHasCause,
           [Next]_vars
    PROVE  ErrorHasCause'
<1> DEFINE Broken == happened \cap {"send", "bad", "stray"} # {}
<1>a. ASSUME UNCHANGED <<ends, cur>>, happened \subseteq happened',
             stage' # "none" \/ (stage = "none" /\ pc # "panicked") \/ pc' = "panicked"
      PROVE  ErrorHasCause'
  BY <1>a DEF ErrorHasCause
<1>b. ASSUME Executing, NEW how \in Outcomes, Return(how)
      PROVE  /\ result' = how /\ cur' = cur /\ cur > 0
             /\ how \notin Answered => given_up' = given_up \cup {cur}
  BY <1>b, CurTypes, ReturnTypes
<1>e. ASSUME NEW f, Fails(f) PROVE f \in happened'
  BY <1>e, FaultTypes
<1>1. CASE Open \/ OpenFails \/ Part
  <2>1. stage = "none" /\ pc # "panicked"
    BY <1>1 DEF Open, OpenFails, Part, StageInv, Executing
  <2> QED
    BY <1>1, <1>a, <2>1 DEF Open, OpenFails, Part
<1>3. CASE Execute
  BY <1>3 DEF Execute, ErrorHasCause
<1>4. CASE CallInsert
  BY <1>4, <1>a DEF CallInsert
<1>5. CASE CallSend
  BY <1>5, <1>a DEF CallSend, StageInv, Executing
<1>6. CASE CallSendFails
  BY <1>6, <1>b, <1>e, OutcomeFacts DEF CallSendFails, Executing, ErrorHasCause
<1>7. CASE CallReceive
  BY <1>7, <1>b, OutcomeFacts DEF CallReceive, Executing, ErrorHasCause
<1>8. CASE Resume \/ CallPending \/ EventsPending \/ Wake \/ EventsIgnore
  <2>1. Executing /\ stage # "none"
    BY <1>8 DEF Resume, CallPending, EventsPending, Wake, EventsIgnore, Reads, StageInv, Executing
  <2> QED
    BY <1>8, <1>a, <2>1 DEF Resume, CallPending, EventsPending, Wake, EventsIgnore
<1>9. CASE EventsEnd
  <2>1. result' = "eof" /\ happened' = happened
    BY <1>9, <1>b, OutcomeFacts DEF EventsEnd, Executing
  <2>2. happened \cap {"bad", "close"} # {}
    BY <1>9 DEF EventsEnd, CauseInv, Early
  <2> QED
    BY <2>1, <2>2 DEF ErrorHasCause
<1>10. CASE EventsBad
  <2>1. pc = "events" /\ inbox[1].kind = "bad" /\ 1 \in DOMAIN inbox
    BY <1>10, ReadFacts DEF EventsBad
  <2>2. "bad" \in happened
    BY <2>1 DEF CauseInv, Early
  <2>3. result' = "ioerror" /\ happened' = happened
    BY <1>10, <1>b, <2>1, OutcomeFacts DEF EventsBad, Executing
  <2> QED
    BY <2>2, <2>3 DEF ErrorHasCause
<1>12. CASE EventsReply
  <2>1. pc = "events" /\ Executing /\ happened' = happened /\ stage # "none"
    BY <1>12 DEF EventsReply, Reads, Executing, StageInv
  <2>2. CASE UNCHANGED <<open, cur, stage, ends>>
    BY <1>a, <2>1, <2>2
  <2>3. CASE Filed(ReplyKey) # cur /\ Return("ioerror")
    <3>1. result' = "ioerror" /\ cur' = cur /\ given_up' = given_up \cup {cur}
      BY <1>b, <2>1, <2>3, OutcomeFacts
    <3>2. ASSUME "stray" \notin happened PROVE given_up' # {cur}
      <4>1. Head(inbox) = inbox[1] /\ 1 \in DOMAIN inbox /\ Reply(1)
        BY <1>12, ReadFacts DEF EventsReply, Reply
      <4> DEFINE n == Head(inbox).of
      <4>2. n \in 1 .. MaxCalls /\ pending[KeyOf(n)] = n
        BY <2>1, <3>2, <4>1 DEF TransitInv, OnItsWay
      <4>3. KeyOf(n) \in Keys /\ ReplyKey = KeyOf(n)
        BY <4>2, SessionAssumption DEF Keys, KeyOf, ReplyKey
      <4>4. n # cur /\ n # 0
        BY <2>3, <4>2, <4>3 DEF Filed
      <4>5. n \in given_up
        BY <2>1, <4>2, <4>3, <4>4 DEF FilingInv
      <4> QED
        BY <3>1, <4>4, <4>5
    <3> QED
      BY <2>1, <3>1, <3>2 DEF ErrorHasCause
  <2> QED
    BY <1>12, <2>2, <2>3 DEF EventsReply
<1>15. CASE Cancel
  BY <1>15, <1>b, OutcomeFacts DEF Cancel, Executing, ErrorHasCause
<1>17. CASE ServerRespond \/ ServerUnasked \/ ServerClose
  <2>1. UNCHANGED <<ends, cur, stage, pc>>
    BY <1>17 DEF ServerRespond, ServerUnasked, ServerClose, Write
  <2>2. happened \subseteq happened'
    BY <1>17 DEF ServerRespond, ServerUnasked, ServerClose, Fails
  <2> QED
    BY <2>1, <2>2 DEF ErrorHasCause
<1>20. CASE UNCHANGED vars
  BY <1>20 DEF ErrorHasCause
<1> QED
  BY <1>1, <1>3, <1>4, <1>5, <1>6, <1>7, <1>8, <1>9, <1>10, <1>12, <1>15, <1>17,
     <1>20 DEF Next, Poll, Finished

-----------------------------------------------------------------------------
(* The theorems.                                                             *)

LEMMA InitInv == Init => IInv
<1> SUFFICES ASSUME Init PROVE IInv
  OBVIOUS
<1>1. TypeOK
  BY TypeInit
<1>2. StageInv /\ FilingInv /\ SendingInv /\ GotInv
  BY SessionAssumption DEF Init, StageInv, FilingInv, SendingInv, GotInv, Executing, Keys
<1>3. /\ unsent = <<>> /\ requests = <<>> /\ stage = "none" /\ happened = {}
      /\ pc = IF proto = "qmp" THEN "opening" ELSE "held"
  BY DEF Init
<1>4. \/ /\ proto = "qmp" /\ eof = FALSE
         /\ \E k \in {"greeting", "bad"} : inbox = <<[kind |-> k, of |-> 0]>>
      \/ inbox = <<>> /\ eof = (proto = "qmp")
  BY DEF Init
<1>5. \A i \in DOMAIN inbox : i = 1 /\ proto = "qmp" /\ inbox[i].kind \in {"greeting", "bad"}
  BY <1>4
<1>6. eof => inbox = <<>> /\ proto = "qmp"
  BY <1>4, Zenon
<1>7. TransitInv
  BY <1>3, <1>5 DEF TransitInv, Reply
<1>8. CauseInv
  <2>1. ~errored /\ ~stop /\ result = "none"
    BY DEF Init
  <2>2. proto = "qmp" => Early
    BY <1>3 DEF Early
  <2> QED
    BY <1>3, <1>5, <1>6, <2>1, <2>2 DEF CauseInv
<1>9. PanicNeedsLostCall /\ ErrorHasCause
  BY DEF Init, PanicNeedsLostCall, ErrorHasCause
<1> QED
  BY <1>1, <1>2, <1>7, <1>8, <1>9 DEF IInv

\* The invariant holds in every state a connection reaches.
THEOREM Inductive == Spec => []IInv
<1>1. IInv /\ [Next]_vars => IInv'
  BY TypeStep, StageStep, FilingStep, SendingStep, TransitStep, GotStep, CauseStep, PanicStep,
     ErrorStep DEF IInv
<1> QED
  BY <1>1, InitInv, PTL DEF Spec

\* The values of the variables stay what TypeOK says.
THEOREM TypeCorrect == Spec => []TypeOK
<1>1. IInv => TypeOK
  BY DEF IInv
<1> QED
  BY <1>1, Inductive, PTL

\* An answer that has reached the call is its own and is what execute()
\* returns, whatever happens to the connection behind it: select_biased! polls
\* the call first, and between the answer and that poll only the program's own
\* drop of the future can end the call.
THEOREM AnswersWin == Spec => []AnswerBeatsEnd
<1>1. IInv => AnswerBeatsEnd
  BY DEF IInv, AnswerBeatsEnd, GotInv, FilingInv, Executing
<1> QED
  BY <1>1, Inductive, PTL

\* command_insert finds its key taken only without ids, and only after a call
\* that was given up.
THEOREM PanicsExplained == Spec => []PanicNeedsLostCall
<1>1. IInv => PanicNeedsLostCall
  BY DEF IInv
<1> QED
  BY <1>1, Inductive, PTL

\* execute() returns an error only when the connection has failed or the
\* answer to a call that was given up arrives.
THEOREM ErrorsExplained == Spec => []ErrorHasCause
<1>1. IInv => ErrorHasCause
  BY DEF IInv
<1> QED
  BY <1>1, Inductive, PTL

\* What spawn_tokio and into_parts hand over is what QapiFutures starts from, but
\* for what calls that were given up have left: that is still filed.
THEOREM HandsOverClean == Spec => []HandOverClean
<1>1. ASSUME IInv PROVE HandOverClean
  <2> SUFFICES ASSUME pc = "parted", "stray" \notin happened
               PROVE  /\ \A k \in Keys : pending[k] \in given_up \cup {0}
                      /\ \A n \in Outstanding : n \in given_up /\ pending[KeyOf(n)] = n
                      /\ given_up = {} => ~stop /\ ~errored
    BY DEF HandOverClean
  <2> USE <1>1 DEF IInv
  <2>1. stage = "none"
    BY DEF StageInv, Executing
  <2>2. \A k \in Keys : pending[k] \in given_up \cup {0}
    BY <2>1 DEF FilingInv
  <2>3. ASSUME NEW n, OnItsWay(n) PROVE n \in given_up /\ pending[KeyOf(n)] = n
    <3>1. n # 0 /\ KeyOf(n) \in Keys /\ pending[KeyOf(n)] = n
      BY <2>3, SessionAssumption DEF OnItsWay, Keys, KeyOf
    <3> QED
      BY <2>2, <3>1
  <2>4. /\ \A i \in DOMAIN unsent : OnItsWay(unsent[i])
        /\ \A i \in DOMAIN requests : OnItsWay(requests[i])
        /\ \A i \in DOMAIN inbox : inbox[i].kind = "reply" => OnItsWay(inbox[i].of)
    BY DEF TransitInv, Reply
  <2>5. \A n \in Outstanding : OnItsWay(n)
    BY <2>4 DEF Outstanding
  <2>6. given_up = {} => ~stop /\ ~errored
    BY DEF CauseInv
  <2> QED
    BY <2>2, <2>3, <2>5, <2>6
<1> QED
  BY <1>1, Inductive, PTL
=============================================================================
