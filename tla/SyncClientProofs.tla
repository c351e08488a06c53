------------------------- MODULE SyncClientProofs -------------------------
(***************************************************************************)
(* Theorems about SyncClient, for any number of calls, events and faults:  *)
(* whose answer a blocking call returns, that it does not wait for one     *)
(* that cannot come, and that the events sent before an answer are known   *)
(* when it returns.                                                        *)
(***************************************************************************)
EXTENDS SyncClient, StreamLemmas, TLAPS

USE DEF vars, server, events, ghosts

-----------------------------------------------------------------------------
(* Types.                                                                    *)

LEMMA TypeInit == ASSUME Init PROVE TypeOK
<1>1. Msg("greeting", 0, NoValue, 0) \in Message
  BY DEF Msg, Message
<1>2. <<Msg("greeting", 0, NoValue, 0)>> \in Seq(Message)
  BY <1>1
<1>3. inbox \in Seq(Message)
  BY <1>2 DEF Init
<1>4. result \in Result
  BY DEF Init, Res, Result
<1>5. pc \in {"new", "idle"} /\ val \in Values \cup {NoValue}
  BY DEF Init
<1>6. /\ outline \in Seq({"whole", "part"}) /\ requests \in Seq(Request)
      /\ event_queue \in Seq(Nat) /\ drained \in Seq(Nat)
  BY DEF Init
<1>7. /\ torn \in BOOLEAN /\ closed \in BOOLEAN /\ fresh \in BOOLEAN
      /\ trusted \in BOOLEAN /\ used \subseteq Values /\ lost \subseteq Nat
  BY DEF Init
<1>8. cur \in Nat /\ sent \in Nat /\ faults \in Nat /\ proto \in Protocols
  BY DEF Init
<1> QED
  BY <1>3, <1>4, <1>5, <1>6, <1>7, <1>8 DEF TypeOK

\* The server writes one of these lines.
LEMMA SendTypes ==
    ASSUME TypeOK, NEW m \in Message, Send(m)
    PROVE  inbox' \in Seq(Message)
BY AppendFacts DEF TypeOK, Send

\* Ending a line hands the command to the server.
LEMMA EndOfLineTypes ==
    ASSUME TypeOK, NEW parts, EndOfLine(parts)
    PROVE  outline' = <<>> /\ outline' \in Seq({"whole", "part"})
           /\ requests' \in Seq(Request)
<1>1. [of |-> cur, val |-> val, whole |-> (parts = <<"whole">>)] \in Request
  BY DEF TypeOK, Request
<1> QED
  BY <1>1 DEF TypeOK, EndOfLine

\* What an answer carries.
LEMMA ReturnsTypes ==
    ASSUME NEW r \in Request, NEW v \in Returns(r)
    PROVE  v \in Values \cup {NoValue}
<1>1. r.val \in Values \cup {NoValue}
  BY DEF Request
<1> QED
  BY <1>1, SyncAssumption DEF Returns

\* A fault is counted.
LEMMA FaultTypes ==
    ASSUME TypeOK, NEW f, Fails(f)
    PROVE  faults' \in Nat
BY DEF TypeOK, Fails

\* Every variable keeps its type.
LEMMA TypeStep == ASSUME TypeOK, [Next]_vars PROVE TypeOK'
<1> USE DEF TypeOK
<1>1. CASE \E v \in Values \cup {NoValue} : Execute(v)
  BY <1>1 DEF Execute, Start
<1>2. CASE WriteCommand
  BY <1>2, EndOfLineTypes DEF WriteCommand
<1>3. CASE WriteFails
  <2>1. result' \in Result
    BY <1>3 DEF WriteFails, Res, Result
  <2>2. outline' \in Seq({"whole", "part"}) /\ requests' \in Seq(Request)
    <3>1. CASE UNCHANGED <<outline, requests>>
      BY <3>1
    <3>2. ASSUME NEW p \in {"part", "whole"}, UNCHANGED requests,
                 outline' = Append(outline, p)
          PROVE  outline' \in Seq({"whole", "part"}) /\ requests' \in Seq(Request)
      BY <3>2, AppendFacts
    <3>3. CASE EndOfLine(Append(outline, "whole"))
      BY <3>3, EndOfLineTypes
    <3> QED
      BY <1>3, <3>1, <3>2, <3>3 DEF WriteFails
  <2> QED
    BY <1>3, <2>1, <2>2, FaultTypes DEF WriteFails
<1>4. CASE WriteShort
  <2>1. outline' \in Seq({"whole", "part"})
    BY <1>4, AppendFacts DEF WriteShort
  <2> QED
    BY <1>4, <2>1, FaultTypes DEF WriteShort
<1>5. CASE ReadEvent
  <2>1. Head(inbox) \in Message /\ Tail(inbox) \in Seq(Message)
    BY <1>5 DEF ReadEvent, Intact
  <2>2. Append(event_queue, Head(inbox).of) \in Seq(Nat)
    BY <2>1 DEF Message
  <2> QED
    BY <1>5, <2>1, <2>2 DEF ReadEvent, TakeLine
<1>6. CASE ReadAnswer
  <2>1. Head(inbox) \in Message /\ Tail(inbox) \in Seq(Message)
    BY <1>6 DEF ReadAnswer, Intact
  <2>2. result' \in Result
    BY SMTT(30), <1>6, <2>1 DEF ReadAnswer, Return, Res, Result, Message
  <2>3. trusted' \in BOOLEAN
    BY <1>6 DEF ReadAnswer
  <2> QED
    BY <1>6, <2>1, <2>2, <2>3 DEF ReadAnswer, Return, TakeLine
<1>7. CASE ReadGarbled
  <2>1. Head(inbox) \in Message /\ Tail(inbox) \in Seq(Message)
    BY <1>7 DEF ReadGarbled
  <2>2. result' \in Result /\ lost' \subseteq Nat
    BY <1>7, <2>1 DEF ReadGarbled, Return, Res, Result, Message
  <2> QED
    BY <1>7, <2>1, <2>2 DEF ReadGarbled, Return, TakeLine
<1>8. CASE ReadEof
  BY <1>8 DEF ReadEof, Return, Res, Result
<1>9. CASE ReadFails
  <2>1. result' \in Result
    BY <1>9 DEF ReadFails, Return, Res, Result
  <2>2. torn' \in BOOLEAN
    BY <1>9, Zenon DEF ReadFails
  <2> QED
    BY <1>9, <2>1, <2>2, FaultTypes DEF ReadFails, Return
<1>10. CASE Handshake
  BY <1>10 DEF Handshake
<1>11. CASE ReadGreeting
  <2>1. inbox' \in Seq(Message)
    BY <1>11 DEF ReadGreeting, Intact, TakeLine
  <2>2. used' \subseteq Values /\ val' \in Values \cup {NoValue} /\ cur' \in Nat
    BY <1>11 DEF ReadGreeting, Start
  <2>3. fresh' \in BOOLEAN
    BY <1>11 DEF ReadGreeting, Start
  <2> QED
    BY <1>11, <2>1, <2>2, <2>3 DEF ReadGreeting, TakeLine
<1>12. CASE GreetingGarbled
  <2>1. Head(inbox) \in Message /\ Tail(inbox) \in Seq(Message)
    BY <1>12 DEF GreetingGarbled
  <2>2. result' \in Result /\ lost' \subseteq Nat
    BY <1>12, <2>1 DEF GreetingGarbled, Return, Res, Result, Message
  <2> QED
    BY <1>12, <2>1, <2>2 DEF GreetingGarbled, Return, TakeLine
<1>13. CASE GreetingEof
  BY <1>13 DEF GreetingEof, Return
<1>14. CASE DrainEvents
  BY <1>14 DEF DrainEvents
<1>15. CASE Restart
  <2>1. inbox' \in Seq(Message)
    BY <1>15, SuffixFacts DEF Restart
  <2>2. result' \in Result
    BY <1>15 DEF Restart, Res, Result
  <2>3. torn' \in BOOLEAN
    <3> PICK n \in 0 .. Len(inbox) : torn' \in {torn /\ n = 0, n < Len(inbox)}
      BY <1>15 DEF Restart
    <3>1. (torn /\ n = 0) \in BOOLEAN /\ (n < Len(inbox)) \in BOOLEAN
      OBVIOUS
    <3> QED
      BY <3>1, Zenon
  <2> QED
    BY <1>15, <2>1, <2>2, <2>3, FaultTypes DEF Restart
<1>16. CASE ServerRespond
  <2> PICK k \in Answers, v \in Returns(Head(requests)) :
             Send(Msg(k, Head(requests).of, v, sent))
    BY <1>16 DEF ServerRespond
  <2>1. Head(requests) \in Request /\ Tail(requests) \in Seq(Request)
    BY <1>16 DEF ServerRespond
  <2>2. Msg(k, Head(requests).of, v, sent) \in Message
    BY <2>1, ReturnsTypes DEF Request, Msg, Message
  <2> QED
    BY <1>16, <2>1, <2>2, SendTypes DEF ServerRespond, Send
<1>17. CASE ServerEvent
  <2>1. sent' \in Nat /\ Msg("event", sent', NoValue, 0) \in Message
    BY <1>17 DEF ServerEvent, Msg, Message
  <2> QED
    BY <1>17, <2>1, SendTypes DEF ServerEvent, Send
<1>18. CASE ServerUnknown
  <2>1. Msg("unknown", 0, NoValue, 0) \in Message
    BY DEF Msg, Message
  <2> QED
    BY <1>18, <2>1, SendTypes DEF ServerUnknown, Send, Fails
<1>19. CASE ServerClose
  BY <1>19 DEF ServerClose, Fails
<1>20. CASE UNCHANGED vars
  BY <1>20
<1> QED
  BY <1>1, <1>2, <1>3, <1>4, <1>5, <1>6, <1>7, <1>8, <1>9, <1>10, <1>11, <1>12,
     <1>13, <1>14, <1>15, <1>16, <1>17, <1>18, <1>19, <1>20
     DEF Next, Client, Server, Finished

\* What the lines in the two streams are.
LEMMA LineTypes ==
    ASSUME TypeOK
    PROVE  /\ \A i \in DOMAIN inbox :
                 /\ inbox[i] \in Message /\ inbox[i].of \in Nat /\ i \in Nat
                 /\ inbox[i].seen \in Nat /\ inbox[i].val \in Values \cup {NoValue}
           /\ \A i \in DOMAIN requests :
                 /\ requests[i] \in Request /\ requests[i].of \in Nat /\ i \in Nat
                 /\ requests[i].val \in Values \cup {NoValue}
<1>1. \A i \in DOMAIN inbox : inbox[i] \in Message /\ i \in Nat
  BY DEF TypeOK
<1>2. \A i \in DOMAIN requests : requests[i] \in Request /\ i \in Nat
  BY DEF TypeOK
<1> QED
  BY <1>1, <1>2 DEF Message, Request

-----------------------------------------------------------------------------
(* What the steps do to the two streams.                                     *)

\* A line is taken from the inbox.
TakenLine == /\ inbox # <<>> /\ inbox' = Tail(inbox) /\ torn' = FALSE
             /\ requests' = requests /\ cur' = cur /\ pc' # "writing"

\* The server has the command of the call, complete or glued to others.
SentLine ==
    \E w \in BOOLEAN :
        /\ requests' = Append(requests, [of |-> cur, val |-> val, whole |-> w])
        /\ inbox' = inbox /\ pc = "writing" /\ pc' # "writing"

\* The server writes a line that is no answer.
NewsLine ==
    \E m \in Message : /\ m.kind \notin Answers /\ m.val = NoValue
                       /\ inbox' = Append(inbox, m) /\ requests' = requests

\* A client of the Guest Agent's channel has gone.
CutLines ==
    /\ requests' = requests /\ pc' = "idle"
    /\ \E n \in 0 .. Len(inbox) : inbox' = SubSeq(inbox, n + 1, Len(inbox))

LEMMA EndOfLineSends ==
    ASSUME NEW parts, EndOfLine(parts), pc = "writing", pc' # "writing",
           inbox' = inbox
    PROVE  (requests' = requests) \/ SentLine
BY DEF EndOfLine, SentLine

LEMMA UnaskedIsNews ==
    ASSUME TypeOK, ServerEvent \/ ServerUnknown
    PROVE  NewsLine
<1>1. CASE ServerEvent
  <2>1. Msg("event", sent', NoValue, 0) \in Message
    BY <1>1 DEF TypeOK, ServerEvent, Msg, Message
  <2> QED
    BY <1>1, <2>1 DEF ServerEvent, Send, NewsLine, Msg, Answers
<1>2. CASE ServerUnknown
  <2>1. Msg("unknown", 0, NoValue, 0) \in Message
    BY DEF Msg, Message
  <2> QED
    BY <1>2, <2>1 DEF ServerUnknown, Send, NewsLine, Msg, Answers
<1> QED
  BY <1>1, <1>2

-----------------------------------------------------------------------------
(* The order of the answers.                                                 *)

LEMMA OrderStep ==
    ASSUME TypeOK, AnswersOrdered, [Next]_vars
    PROVE  AnswersOrdered'
<1>0. inbox \in Seq(Message) /\ requests \in Seq(Request) /\ cur \in Nat
  BY DEF TypeOK
<1>a. ASSUME TakenLine PROVE AnswersOrdered'
  BY SMTT(30), <1>0, <1>a, TailFacts DEF TakenLine, AnswersOrdered, Message
<1>b. ASSUME SentLine, cur' = cur PROVE AnswersOrdered'
  <2> PICK w \in BOOLEAN :
           requests' = Append(requests, [of |-> cur, val |-> val, whole |-> w])
    BY <1>b DEF SentLine
  <2> DEFINE r == [of |-> cur, val |-> val, whole |-> w]
  <2>1. r \in Request /\ r.of = cur
    BY DEF TypeOK, Request
  <2>2. inbox' = inbox /\ pc = "writing" /\ pc' # "writing"
    BY <1>b DEF SentLine
  <2> HIDE DEF r
  <2>3. \A i \in DOMAIN requests' :
           /\ i \in Nat
           /\ \/ i \in DOMAIN requests /\ requests'[i] = requests[i] /\ i <= Len(requests)
              \/ i = Len(requests) + 1 /\ requests'[i] = r
    BY <1>0, <2>1, AppendFacts DEF r
  <2>4. Len(requests) \in Nat
    BY <1>0
  <2>5. \A i \in DOMAIN inbox : inbox[i].kind \in Answers =>
           inbox[i].of < cur /\ \A j \in DOMAIN requests : inbox[i].of < requests[j].of
    BY <2>2 DEF AnswersOrdered
  <2>6. \A i \in DOMAIN requests : requests[i].of < cur
    BY <2>2 DEF AnswersOrdered
  <2>7. \A i \in DOMAIN inbox : inbox[i].kind \in Answers =>
           \A j \in DOMAIN requests' : inbox[i].of < requests'[j].of
    BY <2>1, <2>3, <2>5
  <2>8. \A i \in DOMAIN requests' :
           /\ requests'[i].of <= cur
           /\ \A j \in DOMAIN requests' : i < j => requests'[i].of < requests'[j].of
    BY <1>0, <2>1, <2>3, <2>4, <2>6 DEF AnswersOrdered
  <2> QED
    BY <1>b, <2>2, <2>7, <2>8 DEF AnswersOrdered
<1>c. ASSUME NewsLine, cur' = cur, pc' = pc PROVE AnswersOrdered'
  <2> PICK m \in Message : m.kind \notin Answers /\ inbox' = Append(inbox, m)
    BY <1>c DEF NewsLine
  <2>1. \A i \in DOMAIN inbox' : inbox'[i].kind \in Answers =>
           i \in DOMAIN inbox /\ inbox'[i] = inbox[i]
    BY <1>0, AppendFacts
  <2>2. requests' = requests
    BY <1>c DEF NewsLine
  <2> QED
    BY <1>c, <2>1, <2>2 DEF AnswersOrdered
<1>d. ASSUME CutLines, cur' = cur PROVE AnswersOrdered'
  <2> PICK n \in 0 .. Len(inbox) : inbox' = SubSeq(inbox, n + 1, Len(inbox))
    BY <1>d DEF CutLines
  <2>1. \A i \in DOMAIN inbox' :
           i \in Nat /\ i + n \in DOMAIN inbox /\ inbox'[i] = inbox[i + n]
    BY <1>0, SuffixFacts
  <2>2. requests' = requests /\ pc' # "writing" /\ n \in Nat
    BY <1>0, <1>d DEF CutLines
  <2>3. \A i, j \in Nat : i < j => i + n < j + n
    BY <2>2
  <2>4. \A i \in DOMAIN inbox' : inbox'[i].kind \in Answers =>
        /\ inbox'[i].of <= cur
        /\ \A j \in DOMAIN inbox' : inbox'[j].kind \in Answers /\ i < j =>
               inbox'[i].of < inbox'[j].of
        /\ \A j \in DOMAIN requests : inbox'[i].of < requests[j].of
    BY <2>1, <2>3 DEF AnswersOrdered
  <2> QED
    BY <1>d, <2>2, <2>4 DEF AnswersOrdered
<1>e. ASSUME UNCHANGED <<inbox, requests, cur>>, pc' # "writing" PROVE AnswersOrdered'
  BY <1>e DEF AnswersOrdered
<1>1. CASE \E v \in Values \cup {NoValue} : Execute(v)
  <2>1. \A n \in Nat : n <= cur => n < cur + 1 /\ n <= cur + 1
    BY <1>0
  <2> QED
    BY <1>1, <2>1, LineTypes DEF Execute, Start, AnswersOrdered
<1>2. CASE WriteCommand
  BY <1>2, <1>b, <1>e, EndOfLineSends DEF WriteCommand
<1>3. CASE WriteFails
  BY <1>3, <1>b, <1>e, EndOfLineSends DEF WriteFails
<1>4. CASE WriteShort
  BY <1>4, <1>e DEF WriteShort
<1>5. CASE ReadEvent
  BY <1>5, <1>a DEF ReadEvent, TakeLine, TakenLine, Intact
<1>6. CASE ReadAnswer
  BY <1>6, <1>a DEF ReadAnswer, Return, TakeLine, TakenLine, Intact
<1>7. CASE ReadGarbled
  BY <1>7, <1>a DEF ReadGarbled, Return, TakeLine, TakenLine
<1>8. CASE ReadEof
  BY <1>8, <1>e DEF ReadEof, Return
<1>9. CASE ReadFails
  BY <1>9, <1>e DEF ReadFails, Return
<1>10. CASE Handshake
  BY <1>10, <1>e DEF Handshake
<1>11. CASE ReadGreeting
  <2>1. inbox # <<>> /\ inbox' = Tail(inbox) /\ requests' = requests /\ cur' = cur + 1
    BY <1>11 DEF ReadGreeting, Intact, TakeLine, Start
  <2>2. \A i \in DOMAIN inbox' :
           i \in Nat /\ i + 1 \in DOMAIN inbox /\ inbox'[i] = inbox[i + 1]
    BY <1>0, <2>1, TailFacts
  <2>3. \A n \in Nat : n <= cur => n < cur + 1 /\ n <= cur + 1
    BY <1>0
  <2>4. /\ \A i \in DOMAIN inbox' : inbox'[i].of \in Nat
        /\ \A i \in DOMAIN requests : requests[i].of \in Nat
    BY <2>2, LineTypes
  <2>5. \A i, j \in Nat : i < j => i + 1 < j + 1
    OBVIOUS
  <2>6. \A i \in DOMAIN inbox' : inbox'[i].kind \in Answers =>
        /\ inbox'[i].of <= cur
        /\ \A j \in DOMAIN inbox' : inbox'[j].kind \in Answers /\ i < j =>
               inbox'[i].of < inbox'[j].of
        /\ \A j \in DOMAIN requests : inbox'[i].of < requests[j].of
    BY <2>2, <2>5 DEF AnswersOrdered
  <2> QED
    BY <2>1, <2>3, <2>4, <2>6 DEF AnswersOrdered
<1>12. CASE GreetingGarbled
  BY <1>12, <1>a DEF GreetingGarbled, Return, TakeLine, TakenLine
<1>13. CASE GreetingEof
  BY <1>13, <1>e DEF GreetingEof, Return
<1>14. CASE DrainEvents
  BY <1>14, <1>e DEF DrainEvents
<1>15. CASE Restart
  BY <1>15, <1>d DEF Restart, CutLines
<1>16. CASE ServerRespond
  <2> PICK k \in Answers, v \in Returns(Head(requests)) :
             Send(Msg(k, Head(requests).of, v, sent))
    BY <1>16 DEF ServerRespond
  <2> DEFINE m == Msg(k, Head(requests).of, v, sent)
  <2>1. Head(requests) \in Request /\ Head(requests) = requests[1]
    BY <1>0, <1>16 DEF ServerRespond
  <2>2. m \in Message /\ m.of = requests[1].of /\ m.kind \in Answers
    BY <2>1, ReturnsTypes DEF Request, Msg, Message, TypeOK
  <2>3. inbox' = Append(inbox, m) /\ requests' = Tail(requests)
    BY <1>16 DEF ServerRespond, Send
  <2>4. cur' = cur /\ pc' = pc /\ requests # <<>>
    BY <1>16 DEF ServerRespond, Send
  <2> HIDE DEF m
  <2>5. \A i \in DOMAIN requests' :
           /\ i \in Nat /\ 1 < i + 1
           /\ requests'[i] = requests[i + 1] /\ i + 1 \in DOMAIN requests
    BY <1>0, <2>3, <2>4, TailFacts
  <2>6. /\ DOMAIN inbox' = 1 .. Len(inbox) + 1 /\ inbox'[Len(inbox) + 1] = m
        /\ \A i \in DOMAIN inbox : inbox'[i] = inbox[i]
        /\ DOMAIN inbox = 1 .. Len(inbox) /\ Len(inbox) \in Nat
    BY <1>0, <2>2, <2>3, AppendFacts
  <2>7. 1 \in DOMAIN requests /\ \A i \in DOMAIN requests : i \in Nat /\ i >= 1
    BY <1>0, <2>4
  <2>8. \A i \in DOMAIN inbox' : inbox'[i].kind \in Answers =>
        /\ inbox'[i].of <= cur
        /\ \A j \in DOMAIN inbox' : inbox'[j].kind \in Answers /\ i < j =>
               inbox'[i].of < inbox'[j].of
    BY <2>2, <2>6, <2>7 DEF AnswersOrdered
  <2>9. \A i \in DOMAIN inbox' : inbox'[i].kind \in Answers =>
        \A j \in DOMAIN requests' : inbox'[i].of < requests'[j].of
    BY <2>2, <2>5, <2>6, <2>7, SMTT(30) DEF AnswersOrdered
  <2>10. \A i \in DOMAIN requests' :
        /\ requests'[i].of <= cur
        /\ \A j \in DOMAIN requests' : i < j => requests'[i].of < requests'[j].of
    <3>1. \A i, j \in Nat : i < j => i + 1 < j + 1
      OBVIOUS
    <3> QED
      BY <2>5, <2>7, <3>1 DEF AnswersOrdered
  <2>11. pc = "writing" =>
        /\ \A i \in DOMAIN inbox' :
               inbox'[i].kind \in Answers => inbox'[i].of < cur
        /\ \A i \in DOMAIN requests' : requests'[i].of < cur
    BY <2>2, <2>5, <2>6, <2>7 DEF AnswersOrdered
  <2> QED
    BY <2>4, <2>8, <2>9, <2>10, <2>11 DEF AnswersOrdered
<1>17. CASE ServerEvent \/ ServerUnknown
  BY <1>17, <1>c, UnaskedIsNews DEF ServerEvent, ServerUnknown, Send
<1>18. CASE ServerClose
  BY <1>18 DEF ServerClose, AnswersOrdered
<1>19. CASE UNCHANGED vars
  BY <1>19 DEF AnswersOrdered
<1> QED
  BY <1>1, <1>2, <1>3, <1>4, <1>5, <1>6, <1>7, <1>8, <1>9, <1>10, <1>11, <1>12,
     <1>13, <1>14, <1>15, <1>16, <1>17, <1>18, <1>19
     DEF Next, Client, Server, Finished

-----------------------------------------------------------------------------
(* The values that come back.                                                *)

\* Lines that were there before, and new ones whose value is right.
LEMMA ValuesKept ==
    ASSUME ValuesInv, UNCHANGED <<used, fresh, val, cur>>, Waiting' => Waiting,
           \A i \in DOMAIN inbox' : \/ ValueOfCall(inbox'[i])
                                    \/ \E j \in DOMAIN inbox : inbox'[i] = inbox[j],
           \A i \in DOMAIN requests' : \/ ValueOfCall(requests'[i])
                                       \/ \E j \in DOMAIN requests : requests'[i] = requests[j]
    PROVE  ValuesInv'
<1>1. /\ \A i \in DOMAIN inbox' : ValueOfCall(inbox'[i])
      /\ \A i \in DOMAIN requests' : ValueOfCall(requests'[i])
  BY DEF ValuesInv
<1> QED
  BY <1>1 DEF ValuesInv, ValueOfCall

\* A call starts, with a value that nobody has seen if it is fresh.
LEMMA ValuesOfStart ==
    ASSUME TypeOK, ValuesInv, NEW v \in Values \cup {NoValue}, Start(v),
           \A i \in DOMAIN inbox' : \E j \in DOMAIN inbox : inbox'[i] = inbox[j],
           requests' = requests
    PROVE  ValuesInv'
<1>1. /\ val' = v /\ fresh' = (v \notin used \cup Returned)
      /\ used' = used \cup ({v} \ {NoValue})
  BY DEF Start
<1>2. ASSUME NEW m, m.val \in used \cup Returned \cup {NoValue}
      PROVE  ValueOfCall(m)'
  BY <1>1, <1>2 DEF ValueOfCall
<1>3. /\ \A i \in DOMAIN inbox' :
            inbox'[i].val \in used \cup Returned \cup {NoValue}
      /\ \A i \in DOMAIN requests :
            requests[i].val \in used \cup Returned \cup {NoValue}
  BY DEF ValuesInv, ValueOfCall
<1> QED
  BY <1>1, <1>2, <1>3 DEF ValuesInv, ValueOfCall

LEMMA ValuesStep ==
    ASSUME TypeOK, ValuesInv, [Next]_vars
    PROVE  ValuesInv'
<1>0. inbox \in Seq(Message) /\ requests \in Seq(Request) /\ cur \in Nat
  BY DEF TypeOK
<1>a. ASSUME inbox # <<>>, inbox' = Tail(inbox)
      PROVE  \A i \in DOMAIN inbox' : \E j \in DOMAIN inbox : inbox'[i] = inbox[j]
  BY <1>0, <1>a, TailFacts
<1>b. ASSUME SentLine, UNCHANGED <<used, fresh, val, cur>>, Waiting' => Waiting
      PROVE  ValuesInv'
  <2> PICK w \in BOOLEAN :
           requests' = Append(requests, [of |-> cur, val |-> val, whole |-> w])
    BY <1>b DEF SentLine
  <2> DEFINE r == [of |-> cur, val |-> val, whole |-> w]
  <2>1. r \in Request /\ r.of = cur /\ r.val = val
    BY DEF TypeOK, Request
  <2>2. ValueOfCall(r)
    BY <1>b, <2>1 DEF SentLine, ValuesInv, ValueOfCall, Waiting
  <2> HIDE DEF r
  <2>3. \A i \in DOMAIN requests' : requests'[i] = r
           \/ \E j \in DOMAIN requests : requests'[i] = requests[j]
    BY <1>0, <2>1, AppendFacts DEF r
  <2>4. \A i \in DOMAIN inbox' : inbox'[i] = inbox[i] /\ i \in DOMAIN inbox
    BY <1>b DEF SentLine
  <2> QED
    BY <1>b, <2>2, <2>3, <2>4, ValuesKept
<1>c. ASSUME UNCHANGED <<used, fresh, val, cur, inbox, requests>>, Waiting' => Waiting
      PROVE  ValuesInv'
  BY <1>c, ValuesKept
<1>d. ASSUME inbox # <<>>, inbox' = Tail(inbox), Waiting' => Waiting,
             UNCHANGED <<used, fresh, val, cur, requests>>
      PROVE  ValuesInv'
  BY <1>a, <1>d, ValuesKept
<1>e. ASSUME NewsLine, UNCHANGED <<used, fresh, val, cur>>, Waiting' => Waiting
      PROVE  ValuesInv'
  <2> PICK m \in Message : m.val = NoValue /\ inbox' = Append(inbox, m)
    BY <1>e DEF NewsLine
  <2>1. ValueOfCall(m)
    BY DEF ValueOfCall
  <2>2. \A i \in DOMAIN inbox' : inbox'[i] = m
           \/ \E j \in DOMAIN inbox : inbox'[i] = inbox[j]
    BY <1>0, AppendFacts
  <2>3. requests' = requests
    BY <1>e DEF NewsLine
  <2> QED
    BY <1>e, <2>1, <2>2, <2>3, ValuesKept
<1>1. ASSUME NEW v \in Values \cup {NoValue}, Execute(v) PROVE ValuesInv'
  BY <1>1, ValuesOfStart DEF Execute
<1>2. CASE WriteCommand
  BY <1>2, <1>b, <1>c, EndOfLineSends DEF WriteCommand, Waiting
<1>3. CASE WriteFails
  BY <1>3, <1>b, <1>c, EndOfLineSends DEF WriteFails, Waiting
<1>4. CASE WriteShort
  BY <1>4, <1>c DEF WriteShort, Waiting
<1>5. CASE ReadEvent
  BY <1>5, <1>d DEF ReadEvent, TakeLine, Intact, Waiting
<1>6. CASE ReadAnswer
  BY <1>6, <1>d DEF ReadAnswer, Return, TakeLine, Intact, Waiting
<1>7. CASE ReadGarbled
  BY <1>7, <1>d DEF ReadGarbled, Return, TakeLine, Waiting
<1>8. CASE ReadEof
  BY <1>8, <1>c DEF ReadEof, Return, Waiting
<1>9. CASE ReadFails
  BY <1>9, <1>c DEF ReadFails, Return, Waiting
<1>10. CASE Handshake
  BY <1>10, <1>c DEF Handshake, Waiting
<1>11. CASE ReadGreeting
  BY <1>11, <1>a, ValuesOfStart DEF ReadGreeting, Intact, TakeLine
<1>12. CASE GreetingGarbled
  BY <1>12, <1>d DEF GreetingGarbled, Return, TakeLine, Waiting
<1>13. CASE GreetingEof
  BY <1>13, <1>c DEF GreetingEof, Return, Waiting
<1>14. CASE DrainEvents
  BY <1>14, <1>c DEF DrainEvents, Waiting
<1>15. CASE Restart
  <2> PICK n \in 0 .. Len(inbox) : inbox' = SubSeq(inbox, n + 1, Len(inbox))
    BY <1>15 DEF Restart
  <2>1. \A i \in DOMAIN inbox' : \E j \in DOMAIN inbox : inbox'[i] = inbox[j]
    BY <1>0, SuffixFacts
  <2> QED
    BY <1>15, <2>1, ValuesKept DEF Restart, Waiting
<1>16. CASE ServerRespond
  <2> PICK k \in Answers, v \in Returns(Head(requests)) :
             Send(Msg(k, Head(requests).of, v, sent))
    BY <1>16 DEF ServerRespond
  <2> DEFINE m == Msg(k, Head(requests).of, v, sent)
  <2>1. Head(requests) \in Request /\ Head(requests) = requests[1] /\ 1 \in DOMAIN requests
    BY <1>0, <1>16 DEF ServerRespond
  <2>2. m \in Message /\ m.of = requests[1].of /\ m.val = v
    BY <2>1, ReturnsTypes DEF Request, Msg, Message, TypeOK
  <2>3. inbox' = Append(inbox, m) /\ requests' = Tail(requests) /\ requests # <<>>
    BY <1>16 DEF ServerRespond, Send
  <2>4. UNCHANGED <<used, fresh, val, cur, pc>>
    BY <1>16 DEF ServerRespond, Send
  <2> HIDE DEF m
  <2>5. ValueOfCall(m)
    <3>1. CASE v = requests[1].val
      BY <2>1, <2>2, <3>1 DEF ValuesInv, ValueOfCall
    <3>2. CASE v \in Returned \cup {NoValue}
      BY <2>2, <3>2 DEF ValuesInv, ValueOfCall
    <3> QED
      BY <2>1, <3>1, <3>2 DEF Returns
  <2>6. \A i \in DOMAIN inbox' : inbox'[i] = m
           \/ \E j \in DOMAIN inbox : inbox'[i] = inbox[j]
    BY <1>0, <2>2, <2>3, AppendFacts
  <2>7. \A i \in DOMAIN requests' : \E j \in DOMAIN requests : requests'[i] = requests[j]
    BY <1>0, <2>3, TailFacts
  <2>8. Waiting' => Waiting
    BY <2>4 DEF Waiting
  <2> QED
    BY <2>4, <2>5, <2>6, <2>7, <2>8, ValuesKept
<1>17. CASE ServerEvent \/ ServerUnknown
  BY <1>17, <1>e, UnaskedIsNews DEF ServerEvent, ServerUnknown, Send, Waiting
<1>18. CASE ServerClose
  <2>1. DOMAIN requests' = {}
    BY <1>18 DEF ServerClose
  <2> QED
    BY <1>18, <2>1, ValuesKept DEF ServerClose, Waiting
<1>19. CASE UNCHANGED vars
  BY <1>19, <1>c DEF Waiting
<1> QED
  BY <1>1, <1>2, <1>3, <1>4, <1>5, <1>6, <1>7, <1>8, <1>9, <1>10, <1>11, <1>12,
     <1>13, <1>14, <1>15, <1>16, <1>17, <1>18, <1>19
     DEF Next, Client, Server, Finished

-----------------------------------------------------------------------------
(* Lines that the server has not seen the end of.                            *)

\* Answers that were there before, and none new.
LEMMA OutlineKept ==
    ASSUME OutlineInv, closed' = closed, cur' = cur, requests' = requests,
           \A i \in DOMAIN inbox' : inbox'[i].kind \in Answers =>
               \E j \in DOMAIN inbox : inbox'[i] = inbox[j],
           pc' = "reading" /\ outline' # <<>> => pc = "reading" /\ outline # <<>>
    PROVE  OutlineInv'
BY DEF OutlineInv

LEMMA OutlineStep ==
    ASSUME TypeOK, AnswersOrdered, OutlineInv, [Next]_vars
    PROVE  OutlineInv'
<1>0. inbox \in Seq(Message) /\ requests \in Seq(Request) /\ cur \in Nat
  BY DEF TypeOK
<1>a. ASSUME pc' # "reading", requests' = requests, closed' = closed
      PROVE  OutlineInv'
  BY <1>a DEF OutlineInv
<1>b. ASSUME EndOfLine(Append(outline, "whole")), closed' = closed
      PROVE  OutlineInv'
  BY <1>b DEF EndOfLine, OutlineInv
<1>c. ASSUME UNCHANGED <<closed, requests, cur, inbox, pc, outline>>
      PROVE  OutlineInv'
  BY <1>c DEF OutlineInv
<1>1. CASE \E v \in Values \cup {NoValue} : Execute(v)
  BY <1>1, <1>a DEF Execute
<1>2. CASE WriteCommand
  BY <1>2, <1>b DEF WriteCommand
<1>3. CASE WriteFails
  BY <1>3, <1>a, <1>b DEF WriteFails
<1>4. CASE WriteShort
  BY <1>4 DEF WriteShort, OutlineInv, AnswersOrdered
<1>5. CASE ReadEvent
  <2>1. \A i \in DOMAIN inbox' : \E j \in DOMAIN inbox : inbox'[i] = inbox[j]
    BY <1>0, <1>5, TailFacts DEF ReadEvent, TakeLine, Intact
  <2> QED
    BY <1>5, <2>1, OutlineKept DEF ReadEvent
<1>6. CASE ReadAnswer
  BY <1>6, <1>a DEF ReadAnswer, Return
<1>7. CASE ReadGarbled
  BY <1>7, <1>a DEF ReadGarbled, Return
<1>8. CASE ReadEof
  BY <1>8, <1>a DEF ReadEof, Return
<1>9. CASE ReadFails
  BY <1>9, <1>a DEF ReadFails, Return
<1>10. CASE Handshake
  BY <1>10, <1>a DEF Handshake
<1>11. CASE ReadGreeting
  BY <1>11, <1>a DEF ReadGreeting
<1>12. CASE GreetingGarbled
  BY <1>12, <1>a DEF GreetingGarbled, Return
<1>13. CASE GreetingEof
  BY <1>13, <1>a DEF GreetingEof, Return
<1>14. CASE DrainEvents
  BY <1>14, <1>c DEF DrainEvents
<1>15. CASE Restart
  BY <1>15, <1>a DEF Restart
<1>16. CASE ServerRespond
  <2> PICK k \in Answers, v \in Returns(Head(requests)) :
             Send(Msg(k, Head(requests).of, v, sent))
    BY <1>16 DEF ServerRespond
  <2> DEFINE m == Msg(k, Head(requests).of, v, sent)
  <2>1. Head(requests) \in Request /\ Head(requests) = requests[1] /\ 1 \in DOMAIN requests
    BY <1>0, <1>16 DEF ServerRespond
  <2>2. m \in Message /\ m.of = requests[1].of
    BY <2>1, ReturnsTypes DEF Request, Msg, Message, TypeOK
  <2>3. inbox' = Append(inbox, m) /\ requests' = Tail(requests) /\ requests # <<>>
    BY <1>16 DEF ServerRespond, Send
  <2>4. UNCHANGED <<closed, cur, pc, outline>> /\ ~closed
    BY <1>16 DEF ServerRespond, Send
  <2> HIDE DEF m
  <2>5. \A i \in DOMAIN inbox' : inbox'[i] = m
           \/ \E j \in DOMAIN inbox : inbox'[i] = inbox[j]
    BY <1>0, <2>2, <2>3, AppendFacts
  <2>6. \A i \in DOMAIN requests' : \E j \in DOMAIN requests : requests'[i] = requests[j]
    BY <1>0, <2>3, TailFacts
  <2> QED
    BY <2>1, <2>2, <2>4, <2>5, <2>6 DEF OutlineInv
<1>17. CASE ServerEvent \/ ServerUnknown
  <2> PICK m \in Message : /\ m.kind \notin Answers
                           /\ inbox' = Append(inbox, m) /\ requests' = requests
    BY <1>17, UnaskedIsNews DEF NewsLine
  <2>1. \A i \in DOMAIN inbox' : inbox'[i].kind \in Answers =>
           \E j \in DOMAIN inbox : inbox'[i] = inbox[j]
    BY <1>0, AppendFacts
  <2> QED
    BY <1>17, <2>1, OutlineKept DEF ServerEvent, ServerUnknown, Send
<1>18. CASE ServerClose
  BY <1>18 DEF ServerClose, OutlineInv
<1>19. CASE UNCHANGED vars
  BY <1>19, <1>c
<1> QED
  BY <1>1, <1>2, <1>3, <1>4, <1>5, <1>6, <1>7, <1>8, <1>9, <1>10, <1>11, <1>12,
     <1>13, <1>14, <1>15, <1>16, <1>17, <1>18, <1>19
     DEF Next, Client, Server, Finished

-----------------------------------------------------------------------------
(* Being in step.                                                            *)

\* An answer that is returned while the stream is in step, or to a guest_sync
\* with a fresh value, is the call's own, and no other is to come.
LEMMA AnswerIsLast ==
    ASSUME TypeOK, AnswersOrdered, ValuesInv, OutlineInv, InStep,
           ReadAnswer, trusted'
    PROVE  /\ Head(inbox).of = cur /\ outline = <<>> /\ requests = <<>>
           /\ \A i \in DOMAIN inbox' : inbox'[i].kind \notin Answers
<1>0. inbox \in Seq(Message) /\ requests \in Seq(Request) /\ cur \in Nat
  BY DEF TypeOK
<1>1. /\ pc = "reading" /\ inbox # <<>> /\ inbox' = Tail(inbox)
      /\ Head(inbox).kind \in Answers
      /\ trusted \/ (result'.kind = "ok" /\ val # NoValue /\ fresh)
  BY DEF ReadAnswer, Intact, TakeLine
<1>2. /\ Head(inbox) = inbox[1] /\ 1 \in DOMAIN inbox
      /\ \A i \in DOMAIN inbox' :
            1 < i + 1 /\ i + 1 \in DOMAIN inbox /\ inbox'[i] = inbox[i + 1]
  BY <1>0, <1>1, TailFacts
<1>3. Head(inbox).of = cur /\ outline = <<>>
  <2>1. CASE trusted
    BY <1>1, <1>2, <2>1 DEF InStep
  <2>2. CASE result'.kind = "ok" /\ val # NoValue /\ fresh
    <3>1. Head(inbox).val = val
      <4>1. ASSUME result' = Res("error", Head(inbox).of, Head(inbox).seen) PROVE FALSE
        BY <2>2, <4>1 DEF Res
      <4>2. ASSUME result' = Res("mismatch", Head(inbox).of, Head(inbox).seen) PROVE FALSE
        BY <2>2, <4>2 DEF Res
      <4>3. \/ result' = Res("error", Head(inbox).of, Head(inbox).seen)
            \/ result' = Res("mismatch", Head(inbox).of, Head(inbox).seen)
            \/ ValueMatches(Head(inbox))
        BY DEF ReadAnswer, Return
      <4> QED
        BY <2>2, <4>1, <4>2, <4>3 DEF ValueMatches
    <3>2. Head(inbox).of = cur
      BY <1>1, <1>2, <2>2, <3>1 DEF ValuesInv, ValueOfCall, Waiting
    <3>3. ~(cur < cur)
      BY <1>0
    <3> QED
      BY <1>1, <1>2, <3>2, <3>3 DEF OutlineInv
  <2> QED
    BY <1>1, <2>1, <2>2
<1>4. \A n \in Nat : ~(cur < n /\ n <= cur)
  BY <1>0
<1>5. ASSUME NEW j \in DOMAIN requests PROVE FALSE
  BY <1>1, <1>2, <1>3, <1>4, <1>5, LineTypes DEF AnswersOrdered
<1>6. ASSUME NEW i \in DOMAIN inbox', inbox'[i].kind \in Answers PROVE FALSE
  BY <1>1, <1>2, <1>3, <1>4, <1>6, LineTypes DEF AnswersOrdered
<1>7. requests = <<>>
  BY <1>0, <1>5, EmptyFacts
<1> QED
  BY <1>3, <1>6, <1>7

\* A step that leaves nothing new in the streams.
LEMMA InStepKept ==
    ASSUME InStep, trusted' => trusted, pc' = pc, cur' = cur, outline' = outline,
           torn' => torn,
           \A i \in DOMAIN requests' : \E j \in DOMAIN requests : requests'[i] = requests[j],
           \A i \in DOMAIN inbox' : inbox'[i].kind \in Answers =>
               \E j \in DOMAIN inbox : inbox'[i] = inbox[j]
    PROVE  InStep'
BY DEF InStep

\* Outside the wait for an answer there is nothing in the streams.
LEMMA InStepIdle ==
    ASSUME TypeOK, InStep, pc # "reading", trusted' => trusted, outline' = outline,
           requests' = requests, torn' => torn,
           \A i \in DOMAIN inbox' : \E j \in DOMAIN inbox : inbox'[i] = inbox[j]
    PROVE  InStep'
BY DEF InStep

LEMMA InStepStep ==
    ASSUME TypeOK, AnswersOrdered, ValuesInv, OutlineInv, InStep, [Next]_vars
    PROVE  InStep'
<1>0. inbox \in Seq(Message) /\ requests \in Seq(Request) /\ cur \in Nat
  BY DEF TypeOK
<1>a. ASSUME ~trusted' PROVE InStep'
  BY <1>a DEF InStep
<1>b. ASSUME inbox # <<>>, inbox' = Tail(inbox)
      PROVE  \A i \in DOMAIN inbox' : \E j \in DOMAIN inbox : inbox'[i] = inbox[j]
  BY <1>0, <1>b, TailFacts
<1>1. CASE \E v \in Values \cup {NoValue} : Execute(v)
  BY <1>1, InStepIdle DEF Execute
<1>2. CASE WriteCommand
  <2>1. SUFFICES ASSUME trusted PROVE InStep'
    BY <1>2 DEF WriteCommand, InStep
  <2>2. pc = "writing" /\ pc' = "reading" /\ inbox' = inbox /\ cur' = cur /\ torn' = torn
    BY <1>2 DEF WriteCommand
  <2>3. outline = <<>> /\ requests = <<>> /\ ~torn
        /\ \A i \in DOMAIN inbox : inbox[i].kind \notin Answers
    <3>1. \A i \in DOMAIN requests : FALSE
      BY <2>1, <2>2 DEF InStep
    <3>2. requests = <<>>
      BY <1>0, <3>1, EmptyFacts
    <3> QED
      BY <2>1, <2>2, <3>2 DEF InStep
  <2>4. Append(outline, "whole") = <<"whole">>
    BY <2>3
  <2>5. outline' = <<>> /\ (requests' = requests
            \/ requests' = <<[of |-> cur, val |-> val, whole |-> TRUE]>>)
    <3> DEFINE r(w) == [of |-> cur, val |-> val, whole |-> w]
    <3>1. /\ outline' = <<>>
          /\ requests' = requests
             \/ requests' = Append(requests, r(Append(outline, "whole") = <<"whole">>))
      BY <1>2 DEF WriteCommand, EndOfLine
    <3>2. Append(<<>>, r(TRUE)) = <<r(TRUE)>>
      OBVIOUS
    <3> HIDE DEF r
    <3>3. requests' = requests \/ requests' = Append(<<>>, r(TRUE))
      BY <2>3, <2>4, <3>1
    <3> QED
      BY <3>1, <3>2, <3>3 DEF r
  <2>6. \A i \in DOMAIN requests' : requests'[i].of = cur /\ requests'[i].whole
    BY <2>3, <2>5
  <2> QED
    BY <2>2, <2>3, <2>5, <2>6 DEF InStep
<1>3. CASE WriteFails \/ WriteShort \/ ReadGarbled \/ ReadFails \/ GreetingGarbled \/ Restart
  BY <1>3, <1>a DEF WriteFails, WriteShort, ReadGarbled, ReadFails, GreetingGarbled, Restart
<1>5. CASE ReadEvent
  BY <1>5, <1>b, InStepKept DEF ReadEvent, TakeLine, Intact
<1>6. CASE ReadAnswer
  <2>1. SUFFICES ASSUME trusted' PROVE InStep'
    BY DEF InStep
  <2>2. torn' = FALSE /\ outline' = outline /\ requests' = requests
    BY <1>6 DEF ReadAnswer, Return, TakeLine
  <2>3. DOMAIN requests' = {}
    BY <1>6, <2>1, <2>2, AnswerIsLast
  <2> QED
    BY <1>6, <2>1, <2>2, <2>3, AnswerIsLast DEF InStep
<1>8. CASE ReadEof
  <2>1. DOMAIN requests' = {} /\ DOMAIN inbox' = {}
    BY <1>8 DEF ReadEof, Return, OutlineInv
  <2> QED
    BY <1>8, <2>1 DEF ReadEof, Return, InStep
<1>10. CASE Handshake
  BY <1>10, InStepIdle DEF Handshake
<1>11. CASE ReadGreeting
  BY <1>11, <1>b, InStepIdle DEF ReadGreeting, Intact, TakeLine
<1>13. CASE GreetingEof
  BY <1>13, InStepIdle DEF GreetingEof, Return
<1>14. CASE DrainEvents
  BY <1>14, InStepKept DEF DrainEvents
<1>16. CASE ServerRespond
  <2> PICK k \in Answers, v \in Returns(Head(requests)) :
             Send(Msg(k, Head(requests).of, v, sent))
    BY <1>16 DEF ServerRespond
  <2> DEFINE m == Msg(k, Head(requests).of, v, sent)
  <2>1. Head(requests) \in Request /\ Head(requests) = requests[1] /\ 1 \in DOMAIN requests
    BY <1>0, <1>16 DEF ServerRespond
  <2>2. m \in Message /\ m.of = requests[1].of
    BY <2>1, ReturnsTypes DEF Request, Msg, Message, TypeOK
  <2>3. inbox' = Append(inbox, m) /\ requests' = Tail(requests) /\ requests # <<>>
    BY <1>16 DEF ServerRespond, Send
  <2>4. UNCHANGED <<cur, pc, outline, torn, trusted>>
    BY <1>16 DEF ServerRespond, Send
  <2> HIDE DEF m
  <2>5. \A i \in DOMAIN inbox' : inbox'[i] = m
           \/ \E j \in DOMAIN inbox : inbox'[i] = inbox[j]
    BY <1>0, <2>2, <2>3, AppendFacts
  <2>6. \A i \in DOMAIN requests' : \E j \in DOMAIN requests : requests'[i] = requests[j]
    BY <1>0, <2>3, TailFacts
  <2> QED
    BY <2>1, <2>2, <2>4, <2>5, <2>6 DEF InStep
<1>17. CASE ServerEvent \/ ServerUnknown
  <2> PICK m \in Message : /\ m.kind \notin Answers
                           /\ inbox' = Append(inbox, m) /\ requests' = requests
    BY <1>17, UnaskedIsNews DEF NewsLine
  <2>1. \A i \in DOMAIN inbox' : inbox'[i].kind \in Answers =>
           \E j \in DOMAIN inbox : inbox'[i] = inbox[j]
    BY <1>0, AppendFacts
  <2>2. UNCHANGED <<cur, pc, outline, torn, trusted>>
    BY <1>17 DEF ServerEvent, ServerUnknown, Send
  <2> QED
    BY <2>1, <2>2, InStepKept
<1>18. CASE ServerClose
  <2>1. DOMAIN requests' = {}
    BY <1>18 DEF ServerClose
  <2> QED
    BY <1>18, <2>1, InStepKept DEF ServerClose
<1>19. CASE UNCHANGED vars
  BY <1>19, InStepKept
<1> QED
  BY <1>1, <1>2, <1>3, <1>5, <1>6, <1>8, <1>10, <1>11, <1>13, <1>14, <1>16,
     <1>17, <1>18, <1>19 DEF Next, Client, Server, Finished

-----------------------------------------------------------------------------
(* Whose answer a call returns, and that there is one.                       *)

LEMMA OwnAnswerStep ==
    ASSUME TypeOK, AnswersOrdered, ValuesInv, OutlineInv, InStep, OwnAnswer, [Next]_vars
    PROVE  OwnAnswer'
<1>0. cur \in Nat
  BY DEF TypeOK
<1>a. ASSUME ~trusted' PROVE OwnAnswer'
  BY <1>a DEF OwnAnswer
<1>b. ASSUME UNCHANGED <<result, cur, trusted>>,
             Waiting' <=> Waiting
      PROVE  OwnAnswer'
  BY <1>b DEF OwnAnswer, Waiting
<1>c. ASSUME UNCHANGED <<result, trusted>>, cur' = cur + 1, ~Waiting, Waiting'
      PROVE  OwnAnswer'
  BY <1>0, <1>c DEF OwnAnswer, Waiting
<1>1. CASE \E v \in Values \cup {NoValue} : Execute(v)
  BY <1>1, <1>c DEF Execute, Start, Waiting
<1>2. CASE WriteCommand
  BY <1>2, <1>b DEF WriteCommand, Waiting
<1>3. CASE WriteFails \/ WriteShort \/ ReadGarbled \/ ReadFails \/ GreetingGarbled \/ Restart
  BY <1>3, <1>a DEF WriteFails, WriteShort, ReadGarbled, ReadFails, GreetingGarbled, Restart
<1>5. CASE ReadEvent
  BY <1>5, <1>b DEF ReadEvent, Waiting
<1>6. CASE ReadAnswer
  <2>1. SUFFICES ASSUME trusted' PROVE OwnAnswer'
    BY DEF OwnAnswer
  <2>2. Head(inbox).of = cur
    BY <1>6, <2>1, AnswerIsLast
  <2>3. pc' = "idle" /\ cur' = cur /\ result'.of = Head(inbox).of
    BY <1>6 DEF ReadAnswer, Return, Res
  <2> QED
    BY <2>2, <2>3 DEF OwnAnswer
<1>8. CASE ReadEof
  <2>1. result'.kind = "eof"
    BY <1>8 DEF ReadEof, Return, Res
  <2> QED
    BY <2>1 DEF OwnAnswer
<1>10. CASE Handshake
  BY <1>10, <1>b DEF Handshake, Waiting
<1>11. CASE ReadGreeting
  BY <1>11, <1>c DEF ReadGreeting, Start, Waiting
<1>13. CASE GreetingEof
  BY <1>13, <1>b DEF GreetingEof, Return, Waiting
<1>14. CASE DrainEvents
  BY <1>14, <1>b DEF DrainEvents, Waiting
<1>16. CASE ServerRespond
  BY <1>16, <1>b DEF ServerRespond, Send, Waiting
<1>17. CASE ServerEvent \/ ServerUnknown
  BY <1>17, <1>b DEF ServerEvent, ServerUnknown, Send, Waiting
<1>18. CASE ServerClose
  BY <1>18, <1>b DEF ServerClose, Waiting
<1>19. CASE UNCHANGED vars
  BY <1>19, <1>b DEF Waiting
<1> QED
  BY <1>1, <1>2, <1>3, <1>5, <1>6, <1>8, <1>10, <1>11, <1>13, <1>14, <1>16,
     <1>17, <1>18, <1>19 DEF Next, Client, Server, Finished

LEMMA AnswerComesStep ==
    ASSUME TypeOK, AnswerComes, [Next]_vars
    PROVE  AnswerComes'
<1>0. inbox \in Seq(Message) /\ requests \in Seq(Request)
  BY DEF TypeOK
<1>a. ASSUME pc' # "reading" \/ ~trusted' PROVE AnswerComes'
  BY <1>a DEF AnswerComes
<1>b. ASSUME UNCHANGED <<pc, trusted, closed, requests>>, NEW m \in Message,
             inbox' = Append(inbox, m)
      PROVE  AnswerComes'
  <2>1. \A i \in DOMAIN inbox : i \in DOMAIN inbox' /\ inbox'[i] = inbox[i]
    BY <1>0, <1>b, AppendFacts
  <2> QED
    BY <1>b, <2>1 DEF AnswerComes
<1>c. ASSUME UNCHANGED <<pc, trusted, closed, requests, inbox>> PROVE AnswerComes'
  BY <1>c DEF AnswerComes
<1>1. CASE \E v \in Values \cup {NoValue} : Execute(v)
  BY <1>1, <1>a DEF Execute
<1>2. CASE WriteCommand
  <2> DEFINE r == [of |-> cur, val |-> val,
                   whole |-> (Append(outline, "whole") = <<"whole">>)]
  <2>1. closed' \/ requests' = Append(requests, r)
    BY <1>2 DEF WriteCommand, EndOfLine
  <2>2. r \in Request
    BY DEF TypeOK, Request
  <2> HIDE DEF r
  <2>3. Append(requests, r) # <<>>
    BY <1>0, <2>2
  <2> QED
    BY <2>1, <2>3 DEF AnswerComes
<1>3. CASE WriteFails \/ WriteShort \/ ReadGarbled \/ ReadFails \/ GreetingGarbled \/ Restart
  BY <1>3, <1>a DEF WriteFails, WriteShort, ReadGarbled, ReadFails, GreetingGarbled, Restart
<1>5. CASE ReadEvent
  <2>1. /\ inbox # <<>> /\ inbox' = Tail(inbox) /\ Head(inbox).kind = "event"
        /\ UNCHANGED <<pc, trusted, closed, requests>>
    BY <1>5 DEF ReadEvent, Intact, TakeLine
  <2>2. ASSUME NEW i \in DOMAIN inbox, inbox[i].kind \in Answers
        PROVE  i - 1 \in DOMAIN inbox' /\ inbox'[i - 1] = inbox[i]
    <3>1. i # 1
      BY <1>0, <2>1, <2>2, TailFacts DEF Answers
    <3>2. i \in 1 .. Len(inbox) /\ Len(inbox) \in Nat /\ DOMAIN inbox' = 1 .. Len(inbox) - 1
      BY <1>0, <2>1, TailFacts
    <3>3. i - 1 \in 1 .. Len(inbox) - 1 /\ (i - 1) + 1 = i
      BY <3>1, <3>2
    <3> QED
      BY <1>0, <2>1, <3>2, <3>3, TailFacts
  <2> QED
    BY <2>1, <2>2 DEF AnswerComes
<1>6. CASE ReadAnswer
  BY <1>6, <1>a DEF ReadAnswer, Return
<1>8. CASE ReadEof
  BY <1>8, <1>a DEF ReadEof, Return
<1>10. CASE Handshake
  BY <1>10, <1>a DEF Handshake
<1>11. CASE ReadGreeting
  BY <1>11, <1>a DEF ReadGreeting
<1>13. CASE GreetingEof
  BY <1>13, <1>a DEF GreetingEof, Return
<1>14. CASE DrainEvents
  BY <1>14, <1>c DEF DrainEvents
<1>16. CASE ServerRespond
  <2> PICK k \in Answers, v \in Returns(Head(requests)) :
             Send(Msg(k, Head(requests).of, v, sent))
    BY <1>16 DEF ServerRespond
  <2> DEFINE m == Msg(k, Head(requests).of, v, sent)
  <2>1. Head(requests) \in Request
    BY <1>0, <1>16 DEF ServerRespond
  <2>2. m \in Message /\ m.kind \in Answers
    BY <2>1, ReturnsTypes DEF Request, Msg, Message, TypeOK
  <2>3. inbox' = Append(inbox, m)
    BY <1>16 DEF Send
  <2> HIDE DEF m
  <2>4. Len(inbox) + 1 \in DOMAIN inbox' /\ inbox'[Len(inbox) + 1].kind \in Answers
    BY <1>0, <2>2, <2>3, AppendFacts
  <2> QED
    BY <2>4 DEF AnswerComes
<1>17. CASE ServerEvent \/ ServerUnknown
  <2>1. PICK m \in Message : inbox' = Append(inbox, m) /\ requests' = requests
    BY <1>17, UnaskedIsNews DEF NewsLine
  <2> QED
    BY <1>17, <1>b, <2>1 DEF ServerEvent, ServerUnknown, Send
<1>18. CASE ServerClose
  BY <1>18 DEF ServerClose, AnswerComes
<1>19. CASE UNCHANGED vars
  BY <1>19, <1>c
<1> QED
  BY <1>1, <1>2, <1>3, <1>5, <1>6, <1>8, <1>10, <1>11, <1>13, <1>14, <1>16,
     <1>17, <1>18, <1>19 DEF Next, Client, Server, Finished

-----------------------------------------------------------------------------
(* The events before an answer.                                              *)

\* What is known of the events is not forgotten.
LEMMA KnownGrows ==
    ASSUME TypeOK, [Next]_vars
    PROVE  \A e : Known(e) => Known(e)'
<1>0. event_queue \in Seq(Nat) /\ drained \in Seq(Nat) /\ inbox \in Seq(Message)
  BY DEF TypeOK
<1>a. ASSUME lost \subseteq lost', UNCHANGED <<drained, event_queue>>
      PROVE  \A e : Known(e) => Known(e)'
  BY <1>a DEF Known
<1>5. CASE ReadEvent
  <2>1. Head(inbox).of \in Nat /\ UNCHANGED <<drained, lost>>
        /\ event_queue' = Append(event_queue, Head(inbox).of)
    <3>1. inbox # <<>>
      BY <1>5 DEF ReadEvent, Intact
    <3>2. Head(inbox) \in Message
      BY <1>0, <3>1, TailFacts
    <3> QED
      BY <1>5, <3>2 DEF ReadEvent, Message
  <2>2. \A i \in DOMAIN event_queue :
           i \in DOMAIN event_queue' /\ event_queue'[i] = event_queue[i]
    BY <1>0, <2>1, AppendFacts
  <2> QED
    BY <2>1, <2>2 DEF Known
<1>14. CASE DrainEvents
  <2>1. drained' = drained \o event_queue /\ lost' = lost
    BY <1>14 DEF DrainEvents
  <2>2. /\ Len(drained) \in Nat /\ Len(event_queue) \in Nat
        /\ DOMAIN drained = 1 .. Len(drained)
        /\ DOMAIN event_queue = 1 .. Len(event_queue)
        /\ DOMAIN drained' = 1 .. Len(drained) + Len(event_queue)
        /\ \A i \in DOMAIN drained : drained'[i] = drained[i]
    BY <1>0, <2>1
  <2>3. \A i \in DOMAIN event_queue :
           /\ i + Len(drained) \in DOMAIN drained'
           /\ drained'[i + Len(drained)] = event_queue[i]
    BY ZenonT(60), <1>0, <2>1, <2>2, ConcatFacts
  <2>4. \A i \in DOMAIN drained : i \in DOMAIN drained'
    BY <2>2
  <2> QED
    BY <2>1, <2>2, <2>3, <2>4 DEF Known
<1>2. CASE WriteCommand \/ WriteFails \/ WriteShort
  BY <1>2, <1>a DEF WriteCommand, WriteFails, WriteShort
<1>6. CASE ReadAnswer \/ ReadGarbled \/ ReadEof \/ ReadFails
  BY <1>6, <1>a DEF ReadAnswer, ReadGarbled, ReadEof, ReadFails
<1>10. CASE Handshake \/ ReadGreeting \/ GreetingGarbled \/ GreetingEof
  BY <1>10, <1>a DEF Handshake, ReadGreeting, GreetingGarbled, GreetingEof
<1>15. CASE Restart \/ \E v \in Values \cup {NoValue} : Execute(v)
  BY <1>15, <1>a DEF Restart, Execute
<1>16. CASE Server
  BY <1>16, <1>a DEF Server, ServerRespond, ServerEvent, ServerUnknown,
                     ServerClose, Send
<1>19. CASE UNCHANGED vars
  BY <1>19, <1>a
<1> QED
  BY <1>2, <1>5, <1>6, <1>10, <1>14, <1>15, <1>16, <1>19
     DEF Next, Client, Finished

\* The first line is taken, and its event is known then.
LEMMA SeenTaken ==
    ASSUME TypeOK, SeenInv, inbox # <<>>, inbox' = Tail(inbox),
           UNCHANGED <<proto, sent>>, \A e : Known(e) => Known(e)',
           \A e : Head(inbox).kind = "event" /\ Head(inbox).of = e => Known(e)'
    PROVE  SeenInv'
<1>0. inbox \in Seq(Message)
  BY DEF TypeOK
<1>1. /\ Head(inbox) = inbox[1] /\ Len(inbox) \in Nat /\ Len(inbox) >= 1
      /\ DOMAIN inbox = 1 .. Len(inbox) /\ DOMAIN inbox' = 1 .. Len(inbox) - 1
      /\ Len(inbox') = Len(inbox) - 1
      /\ \A i \in DOMAIN inbox' : i + 1 \in DOMAIN inbox /\ inbox'[i] = inbox[i + 1]
  BY <1>0, TailFacts
<1>2. ASSUME NEW e, NEW n \in Nat, Unread(e, n) PROVE Known(e)' \/ Unread(e, n - 1)'
  <2> PICK i \in DOMAIN inbox : i <= n /\ inbox[i].kind = "event" /\ inbox[i].of = e
    BY <1>2 DEF Unread
  <2>1. CASE i = 1
    BY <1>1, <2>1
  <2>2. CASE i # 1
    <3>1. i - 1 \in DOMAIN inbox' /\ i - 1 <= n - 1 /\ (i - 1) + 1 = i
      BY <1>1, <2>2
    <3>2. inbox'[i - 1] = inbox[i]
      BY <1>1, <3>1
    <3> QED
      BY <3>1, <3>2 DEF Unread
  <2> QED
    BY <2>1, <2>2
<1>3. \A e \in 1 .. sent : Known(e)' \/ Unread(e, Len(inbox))'
  BY <1>1, <1>2 DEF SeenInv
<1>4. ASSUME NEW i \in DOMAIN inbox', inbox'[i].kind \in Answers
      PROVE  /\ inbox'[i].seen <= sent
             /\ \A e \in 1 .. inbox'[i].seen : Known(e)' \/ Unread(e, i - 1)'
  <2>1. /\ i + 1 \in DOMAIN inbox /\ inbox'[i] = inbox[i + 1]
        /\ i \in Nat /\ (i + 1) - 1 = i
    BY <1>1
  <2>2. /\ inbox[i + 1].seen <= sent
        /\ \A e \in 1 .. inbox[i + 1].seen : Known(e) \/ Unread(e, i)
    BY <1>4, <2>1 DEF SeenInv
  <2> QED
    BY <1>2, <2>1, <2>2
<1> QED
  BY <1>3, <1>4 DEF SeenInv

\* A line is added that is either the next event, or an answer that has seen
\* them all, or none of both.
LEMMA SeenAdded ==
    ASSUME TypeOK, SeenInv, NEW m \in Message, inbox' = Append(inbox, m), proto' = proto,
           \/ m.kind = "event" /\ sent' = sent + 1 /\ m.of = sent' /\ proto # "qga"
           \/ m.kind # "event" /\ sent' = sent,
           m.kind \in Answers => m.seen = sent,
           \A e : Known(e) => Known(e)'
    PROVE  SeenInv'
<1>0. inbox \in Seq(Message) /\ sent \in Nat
  BY DEF TypeOK
<1>1. /\ Len(inbox) \in Nat /\ DOMAIN inbox = 1 .. Len(inbox)
      /\ DOMAIN inbox' = 1 .. Len(inbox) + 1 /\ Len(inbox') = Len(inbox) + 1
      /\ inbox'[Len(inbox) + 1] = m
      /\ \A i \in DOMAIN inbox : inbox'[i] = inbox[i]
  BY <1>0, AppendFacts
<1>2. ASSUME NEW e, NEW n, Unread(e, n) PROVE Unread(e, n)'
  BY <1>1, <1>2 DEF Unread
<1>3. ASSUME NEW e PROVE Unread(e, Len(inbox)) => Unread(e, Len(inbox))'
  BY <1>1 DEF Unread
<1>4. ASSUME NEW e \in 1 .. sent' PROVE Known(e)' \/ Unread(e, Len(inbox))'
  <2>1. CASE e \in 1 .. sent
    BY <1>3, <2>1 DEF SeenInv
  <2>2. CASE e \notin 1 .. sent
    <3>1. e = sent' /\ m.kind = "event" /\ m.of = e
      BY <1>0, <2>2
    <3>2. Len(inbox) + 1 \in DOMAIN inbox' /\ Len(inbox) + 1 <= Len(inbox')
      BY <1>1
    <3> QED
      BY <1>1, <3>1, <3>2 DEF Unread
  <2> QED
    BY <2>1, <2>2
<1>5. ASSUME NEW i \in DOMAIN inbox', inbox'[i].kind \in Answers
      PROVE  /\ inbox'[i].seen <= sent'
             /\ \A e \in 1 .. inbox'[i].seen : Known(e)' \/ Unread(e, i - 1)'
  <2>1. CASE i \in DOMAIN inbox
    <3>1. inbox'[i] = inbox[i] /\ inbox[i].seen \in Nat
      BY <1>1, <2>1, LineTypes
    <3>2. /\ inbox[i].seen <= sent
          /\ \A e \in 1 .. inbox[i].seen : Known(e) \/ Unread(e, i - 1)
      BY <1>5, <2>1, <3>1 DEF SeenInv
    <3>3. inbox[i].seen <= sent'
      BY <1>0, <3>1, <3>2
    <3> QED
      BY <1>2, <3>1, <3>2, <3>3
  <2>2. CASE i \notin DOMAIN inbox
    <3>1. i = Len(inbox) + 1 /\ i - 1 = Len(inbox) /\ inbox'[i] = m
      BY <1>1, <2>2
    <3>2. m.seen = sent /\ sent' = sent
      BY <1>5, <3>1 DEF Answers
    <3>3. \A e \in 1 .. sent : Known(e) \/ Unread(e, Len(inbox))
      BY DEF SeenInv
    <3> QED
      BY <1>0, <1>2, <3>1, <3>2, <3>3
  <2> QED
    BY <2>1, <2>2
<1> QED
  BY <1>4, <1>5 DEF SeenInv

LEMMA SeenStep ==
    ASSUME TypeOK, SeenInv, [Next]_vars
    PROVE  SeenInv'
<1>0. inbox \in Seq(Message) /\ requests \in Seq(Request)
  BY DEF TypeOK
<1>k. \A e : Known(e) => Known(e)'
  BY KnownGrows
<1>a. ASSUME UNCHANGED <<proto, sent, inbox>> PROVE SeenInv'
  <2>1. \A e, n : Unread(e, n) => Unread(e, n)'
    BY <1>a DEF Unread
  <2>2. \A e : Unread(e, Len(inbox)) => Unread(e, Len(inbox))'
    BY <1>a DEF Unread
  <2> QED
    BY <1>a, <1>k, <2>1, <2>2 DEF SeenInv
<1>2. CASE WriteCommand \/ WriteFails \/ WriteShort
  BY <1>2, <1>a DEF WriteCommand, WriteFails, WriteShort
<1>3. CASE \E v \in Values \cup {NoValue} : Execute(v)
  BY <1>3, <1>a DEF Execute
<1>5. CASE ReadEvent
  <2>1. /\ inbox # <<>> /\ inbox' = Tail(inbox)
        /\ event_queue' = Append(event_queue, Head(inbox).of)
        /\ UNCHANGED <<proto, sent>>
    BY <1>5 DEF ReadEvent, Intact, TakeLine
  <2>2. Head(inbox).of \in Nat /\ event_queue \in Seq(Nat)
    <3>1. Head(inbox) \in Message
      BY <1>0, <2>1, TailFacts
    <3> QED
      BY <3>1 DEF Message, TypeOK
  <2>3. \E i \in DOMAIN event_queue' : event_queue'[i] = Head(inbox).of
    <3>1. Len(event_queue) + 1 \in DOMAIN event_queue'
          /\ event_queue'[Len(event_queue) + 1] = Head(inbox).of
      BY <2>1, <2>2, AppendFacts
    <3> QED
      BY <3>1
  <2>4. ASSUME NEW e, Head(inbox).of = e PROVE Known(e)'
    BY <2>3, <2>4 DEF Known
  <2> QED
    BY <1>k, <2>1, <2>4, SeenTaken
<1>6. CASE ReadAnswer
  <2>1. /\ inbox # <<>> /\ inbox' = Tail(inbox) /\ Head(inbox).kind # "event"
        /\ UNCHANGED <<proto, sent>>
    BY <1>6 DEF ReadAnswer, Return, Intact, TakeLine, Answers
  <2> QED
    BY <1>k, <2>1, SeenTaken
<1>7. CASE ReadGarbled \/ GreetingGarbled
  <2>1. /\ inbox # <<>> /\ inbox' = Tail(inbox) /\ UNCHANGED <<proto, sent>>
        /\ Head(inbox).kind = "event" => lost' = lost \cup {Head(inbox).of}
    BY <1>7 DEF ReadGarbled, GreetingGarbled, Return, TakeLine
  <2>2. ASSUME NEW e, Head(inbox).kind = "event" /\ Head(inbox).of = e PROVE Known(e)'
    BY <2>1, <2>2 DEF Known
  <2> QED
    BY <1>k, <2>1, <2>2, SeenTaken
<1>8. CASE ReadEof \/ ReadFails \/ GreetingEof
  BY <1>8, <1>a DEF ReadEof, ReadFails, GreetingEof, Return
<1>10. CASE Handshake \/ DrainEvents
  BY <1>10, <1>a DEF Handshake, DrainEvents
<1>11. CASE ReadGreeting
  <2>1. /\ inbox # <<>> /\ inbox' = Tail(inbox) /\ Head(inbox).kind # "event"
        /\ UNCHANGED <<proto, sent>>
    BY <1>11 DEF ReadGreeting, Intact, TakeLine
  <2> QED
    BY <1>k, <2>1, SeenTaken
<1>15. CASE Restart
  <2>1. sent = 0 /\ sent' = 0
    BY <1>15 DEF Restart, SeenInv
  <2> PICK n \in 0 .. Len(inbox) : inbox' = SubSeq(inbox, n + 1, Len(inbox))
    BY <1>15 DEF Restart
  <2>2. \A i \in DOMAIN inbox' : i + n \in DOMAIN inbox /\ inbox'[i] = inbox[i + n]
    BY <1>0, SuffixFacts
  <2>3. \A i \in DOMAIN inbox' : inbox'[i].kind \in Answers =>
           inbox'[i].seen \in Nat /\ inbox'[i].seen <= 0
    BY <2>1, <2>2, LineTypes DEF SeenInv
  <2>4. \A s \in Nat : s <= 0 => 1 .. s = {}
    OBVIOUS
  <2>5. 1 .. 0 = {}
    OBVIOUS
  <2> QED
    BY <2>1, <2>3, <2>4, <2>5 DEF SeenInv
<1>16. CASE ServerRespond
  <2> PICK k \in Answers, v \in Returns(Head(requests)) :
             Send(Msg(k, Head(requests).of, v, sent))
    BY <1>16 DEF ServerRespond
  <2> DEFINE m == Msg(k, Head(requests).of, v, sent)
  <2>1. Head(requests) \in Request
    BY <1>0, <1>16 DEF ServerRespond
  <2>2. m \in Message /\ m.kind # "event" /\ m.seen = sent
    BY <2>1, ReturnsTypes DEF Request, Msg, Message, TypeOK, Answers
  <2>3. inbox' = Append(inbox, m) /\ proto' = proto /\ sent' = sent
    BY <1>16 DEF ServerRespond, Send
  <2> HIDE DEF m
  <2> QED
    BY <1>k, <2>2, <2>3, SeenAdded
<1>17. CASE ServerEvent
  <2> DEFINE m == Msg("event", sent + 1, NoValue, 0)
  <2>1. sent' = sent + 1 /\ proto' = proto /\ proto # "qga" /\ inbox' = Append(inbox, m)
    BY <1>17 DEF ServerEvent, Send
  <2>2. m \in Message /\ m.kind = "event" /\ m.kind \notin Answers /\ m.of = sent + 1
    BY DEF Msg, Message, TypeOK, Answers
  <2> HIDE DEF m
  <2> QED
    BY <1>k, <2>1, <2>2, SeenAdded
<1>18. CASE ServerUnknown
  <2> DEFINE m == Msg("unknown", 0, NoValue, 0)
  <2>1. sent' = sent /\ proto' = proto /\ inbox' = Append(inbox, m)
    BY <1>18 DEF ServerUnknown, Send
  <2>2. m \in Message /\ m.kind # "event" /\ m.kind \notin Answers
    BY DEF Msg, Message, Answers
  <2> HIDE DEF m
  <2> QED
    BY <1>k, <2>1, <2>2, SeenAdded
<1>19. CASE ServerClose \/ UNCHANGED vars
  BY <1>19, <1>a DEF ServerClose
<1> QED
  BY <1>2, <1>3, <1>5, <1>6, <1>7, <1>8, <1>10, <1>11, <1>15, <1>16, <1>17,
     <1>18, <1>19 DEF Next, Client, Server, Finished

LEMMA NopStep ==
    ASSUME TypeOK, SeenInv, NopPollsEvents, [Next]_vars
    PROVE  NopPollsEvents'
<1>0. inbox \in Seq(Message)
  BY DEF TypeOK
<1>k. \A e : Known(e) => Known(e)'
  BY KnownGrows
<1>a. ASSUME result' = result PROVE NopPollsEvents'
  BY <1>a, <1>k DEF NopPollsEvents
<1>b. ASSUME result'.kind \notin {"ok", "error"} PROVE NopPollsEvents'
  BY <1>b DEF NopPollsEvents
<1>6. CASE ReadAnswer
  <2>1. /\ inbox # <<>> /\ Head(inbox).kind \in Answers
        /\ result'.seen = Head(inbox).seen
    BY <1>6 DEF ReadAnswer, Return, Res, Intact
  <2>2. Head(inbox) = inbox[1] /\ 1 \in DOMAIN inbox /\ DOMAIN inbox = 1 .. Len(inbox)
    BY <1>0, <2>1, TailFacts
  <2>3. \A e : ~Unread(e, 1 - 1)
    BY <2>2 DEF Unread
  <2>4. \A e \in 1 .. Head(inbox).seen : Known(e)
    BY <2>1, <2>2, <2>3 DEF SeenInv
  <2> QED
    BY <1>k, <2>1, <2>4 DEF NopPollsEvents
<1>2. CASE WriteFails \/ ReadGarbled \/ ReadFails \/ GreetingGarbled \/ ReadEof \/ Restart
  <2>1. result'.kind \in {"io", "eof", "none"}
    BY <1>2 DEF WriteFails, ReadGarbled, ReadFails, GreetingGarbled, ReadEof,
                Restart, Return, Res
  <2> QED
    BY <1>b, <2>1
<1>3. CASE \/ \E v \in Values \cup {NoValue} : Execute(v)
           \/ WriteCommand \/ WriteShort \/ ReadEvent \/ Handshake \/ ReadGreeting
           \/ GreetingEof \/ DrainEvents
  BY <1>3, <1>a DEF Execute, WriteCommand, WriteShort, ReadEvent, Handshake,
                    ReadGreeting, GreetingEof, DrainEvents, Return
<1>4. CASE Server
  BY <1>4, <1>a DEF Server, ServerRespond, ServerEvent, ServerUnknown,
                    ServerClose, Send
<1>5. CASE UNCHANGED vars
  BY <1>5, <1>a
<1> QED
  BY <1>2, <1>3, <1>4, <1>5, <1>6 DEF Next, Client, Finished

-----------------------------------------------------------------------------
(* The order of the events.                                                  *)

EventsKept == UNCHANGED <<inbox, Had, lost, sent>>

\* Set equality, said for each number.
LEMMA EventsPlace ==
    ASSUME EventsInOrder
    PROVE  \A e : e \in (1 .. sent) \ lost <=>
                    \/ \E i \in DOMAIN Had : Had[i] = e
                    \/ \E j \in EventLines : inbox[j].of = e
BY DEF EventsInOrder

LEMMA EventsFrame ==
    ASSUME EventsInOrder, EventsKept
    PROVE  EventsInOrder'
BY DEF EventsInOrder, EventsKept, EventLines

LEMMA HadTypes ==
    ASSUME TypeOK
    PROVE  /\ Had \in Seq(Nat) /\ Len(Had) \in Nat /\ DOMAIN Had = 1 .. Len(Had)
           /\ \A i \in DOMAIN Had : Had[i] \in Nat
<1>1. drained \in Seq(Nat) /\ event_queue \in Seq(Nat)
  BY DEF TypeOK
<1>2. Had \in Seq(Nat)
  BY <1>1, JoinFacts DEF Had
<1> QED
  BY <1>2

\* The lines of events after the first line is taken.
LEMMA LinesTaken ==
    ASSUME TypeOK, inbox # <<>>, inbox' = Tail(inbox)
    PROVE  /\ Head(inbox) = inbox[1] /\ 1 \in DOMAIN inbox
           /\ Head(inbox).of \in Nat
           /\ \A j \in EventLines' : /\ j \in Nat /\ j + 1 \in EventLines
                                     /\ inbox'[j] = inbox[j + 1]
           /\ \A j \in EventLines : j \in Nat /\ j >= 1
           /\ \A j \in EventLines \ {1} :
                 \E k \in EventLines' : inbox'[k] = inbox[j]
<1>0. inbox \in Seq(Message)
  BY DEF TypeOK
<1>1. /\ Head(inbox) = inbox[1] /\ Len(inbox) \in Nat /\ Len(inbox) >= 1
      /\ DOMAIN inbox = 1 .. Len(inbox) /\ DOMAIN inbox' = 1 .. Len(inbox) - 1
      /\ \A i \in DOMAIN inbox' : i + 1 \in DOMAIN inbox /\ inbox'[i] = inbox[i + 1]
  BY <1>0, TailFacts
<1>2. 1 \in DOMAIN inbox
  BY <1>1
<1>3. Head(inbox).of \in Nat
  BY <1>1, <1>2, LineTypes
<1>4. ASSUME NEW j \in EventLines \ {1}
      PROVE  \E k \in EventLines' : inbox'[k] = inbox[j]
  <2>1. j - 1 \in DOMAIN inbox' /\ (j - 1) + 1 = j
    BY <1>1 DEF EventLines
  <2>2. inbox'[j - 1] = inbox[j]
    BY <1>1, <2>1
  <2> QED
    BY <2>1, <2>2 DEF EventLines
<1>5. \A j \in EventLines' : j \in Nat /\ j + 1 \in EventLines /\ inbox'[j] = inbox[j + 1]
  BY <1>1 DEF EventLines
<1>6. \A j \in EventLines : j \in Nat /\ j >= 1
  BY <1>1 DEF EventLines
<1> QED
  BY <1>1, <1>2, <1>3, <1>4, <1>5, <1>6

\* The unread events stay in order.
LEMMA OrderTaken ==
    ASSUME TypeOK, EventsInOrder, inbox # <<>>, inbox' = Tail(inbox)
    PROVE  \A i, j \in EventLines' : i < j => inbox'[i].of < inbox'[j].of
<1> TAKE i, j \in EventLines'
<1> HAVE i < j
<1>1. /\ i + 1 \in EventLines /\ j + 1 \in EventLines
      /\ inbox'[i] = inbox[i + 1] /\ inbox'[j] = inbox[j + 1]
      /\ i \in Nat /\ j \in Nat
  BY LinesTaken
<1>2. i + 1 < j + 1
  BY <1>1
<1> QED
  BY <1>1, <1>2 DEF EventsInOrder

\* A line is taken that is no event.
LEMMA OtherTaken ==
    ASSUME TypeOK, EventsInOrder, inbox # <<>>, inbox' = Tail(inbox),
           Head(inbox).kind # "event", UNCHANGED <<Had, lost, sent>>
    PROVE  EventsInOrder'
<1>1. 1 \notin EventLines
  BY LinesTaken DEF EventLines
<1>2. \A i \in DOMAIN Had, j \in EventLines' : Had[i] < inbox'[j].of
  BY LinesTaken DEF EventsInOrder
<1>3. {inbox'[j].of : j \in EventLines'} = {inbox[j].of : j \in EventLines}
  <2>1. \A j \in EventLines : \E k \in EventLines' : inbox'[k] = inbox[j]
    BY <1>1, LinesTaken
  <2>2. \A k \in EventLines' : \E j \in EventLines : inbox'[k] = inbox[j]
    BY LinesTaken
  <2>3. ASSUME NEW e \in {inbox[j].of : j \in EventLines}
        PROVE  e \in {inbox'[j].of : j \in EventLines'}
    BY <2>1
  <2>4. ASSUME NEW e \in {inbox'[j].of : j \in EventLines'}
        PROVE  e \in {inbox[j].of : j \in EventLines}
    BY <2>2
  <2> QED
    BY <2>3, <2>4
<1> QED
  BY <1>2, <1>3, OrderTaken DEF EventsInOrder

\* The first line is the next event: what is known of its number.
LEMMA FirstEvent ==
    ASSUME TypeOK, EventsInOrder, inbox # <<>>, inbox' = Tail(inbox),
           Head(inbox).kind = "event", NEW e, e = Head(inbox).of
    PROVE  /\ e \in (1 .. sent) \ lost /\ e \in Nat
           /\ \A i \in DOMAIN Had : Had[i] < e
           /\ \A j \in EventLines' : e < inbox'[j].of
           /\ {inbox[j].of : j \in EventLines}
                = {inbox'[j].of : j \in EventLines'} \cup {e}
<1>1. 1 \in EventLines /\ inbox[1].of = e /\ e \in Nat
  BY LinesTaken DEF EventLines
<1>2. e \in (1 .. sent) \ lost
  BY <1>1, EventsPlace
<1>3. \A i \in DOMAIN Had : Had[i] < e
  BY <1>1 DEF EventsInOrder
<1>4. ASSUME NEW j \in EventLines' PROVE e < inbox'[j].of
  <2>1. j + 1 \in EventLines /\ inbox'[j] = inbox[j + 1] /\ j \in Nat /\ j >= 1
    <3>1. j \in DOMAIN inbox' /\ inbox' \in Seq(Message)
      BY TailFacts DEF EventLines, TypeOK
    <3> QED
      BY <3>1, LinesTaken
  <2>2. 1 < j + 1
    BY <2>1
  <2> QED
    BY <1>1, <2>1, <2>2 DEF EventsInOrder
<1>5. {inbox[j].of : j \in EventLines} = {inbox'[j].of : j \in EventLines'} \cup {e}
  <2>1. \A j \in EventLines \ {1} : \E k \in EventLines' : inbox'[k] = inbox[j]
    BY LinesTaken
  <2>2. \A k \in EventLines' : \E j \in EventLines : inbox'[k] = inbox[j]
    BY LinesTaken
  <2>3. ASSUME NEW f \in {inbox[j].of : j \in EventLines}
        PROVE  f \in {inbox'[j].of : j \in EventLines'} \cup {e}
    <3> PICK j \in EventLines : f = inbox[j].of
      BY <2>3
    <3>1. CASE j = 1
      BY <1>1, <3>1
    <3>2. CASE j # 1
      BY <2>1, <3>2
    <3> QED
      BY <3>1, <3>2
  <2>4. ASSUME NEW f \in {inbox'[j].of : j \in EventLines'}
        PROVE  f \in {inbox[j].of : j \in EventLines}
    BY <2>2
  <2>5. e \in {inbox[j].of : j \in EventLines}
    BY <1>1
  <2> QED
    BY <2>3, <2>4, <2>5
<1> QED
  BY <1>1, <1>2, <1>3, <1>4, <1>5

\* It is queued: the last of those read so far.
LEMMA EventQueued ==
    ASSUME TypeOK, EventsInOrder, inbox # <<>>, inbox' = Tail(inbox),
           Head(inbox).kind = "event", Had' = Append(Had, Head(inbox).of),
           UNCHANGED <<lost, sent>>
    PROVE  EventsInOrder'
<1> PICK e : e = Head(inbox).of
  OBVIOUS
<1>1. /\ e \in (1 .. sent) \ lost /\ e \in Nat
      /\ \A i \in DOMAIN Had : Had[i] < e
      /\ \A j \in EventLines' : e < inbox'[j].of
      /\ {inbox[j].of : j \in EventLines} = {inbox'[j].of : j \in EventLines'} \cup {e}
  BY FirstEvent
<1>2. /\ Had \in Seq(Nat) /\ Len(Had) \in Nat /\ DOMAIN Had = 1 .. Len(Had)
      /\ \A i \in DOMAIN Had : Had[i] \in Nat
  BY HadTypes
<1>3. /\ DOMAIN Had' = 1 .. Len(Had) + 1 /\ Had'[Len(Had) + 1] = e
      /\ \A i \in DOMAIN Had : Had'[i] = Had[i]
  BY <1>1, <1>2, AppendFacts
<1>4. ASSUME NEW i \in DOMAIN Had', NEW j \in DOMAIN Had', i < j
      PROVE  Had'[i] < Had'[j]
  <2>1. i \in DOMAIN Had
    BY <1>2, <1>3, <1>4
  <2>2. j \in DOMAIN Had \/ Had'[j] = e
    BY <1>2, <1>3
  <2> QED
    BY <1>1, <1>3, <1>4, <2>1, <2>2 DEF EventsInOrder
<1>5. ASSUME NEW i \in DOMAIN Had', NEW j \in EventLines'
      PROVE  Had'[i] < inbox'[j].of
  <2>1. CASE i \in DOMAIN Had
    BY <1>3, <2>1, LinesTaken DEF EventsInOrder
  <2>2. CASE i \notin DOMAIN Had
    <3>1. i = Len(Had) + 1
      BY <1>2, <1>3, <2>2
    <3> QED
      BY <1>1, <1>3, <3>1
  <2> QED
    BY <2>1, <2>2
<1>6. {Had'[i] : i \in DOMAIN Had'} = {Had[i] : i \in DOMAIN Had} \cup {e}
  <2>1. Len(Had) + 1 \in DOMAIN Had' /\ \A i \in DOMAIN Had : i \in DOMAIN Had'
    BY <1>2, <1>3
  <2>2. \A i \in DOMAIN Had' : i \in DOMAIN Had \/ i = Len(Had) + 1
    BY <1>2, <1>3
  <2> QED
    BY <1>3, <2>1, <2>2
<1>7. {Had'[i] : i \in DOMAIN Had'} \cup {inbox'[j].of : j \in EventLines'}
        = (1 .. sent) \ lost
  BY <1>1, <1>6 DEF EventsInOrder
<1> QED
  BY <1>4, <1>5, <1>7, OrderTaken DEF EventsInOrder

\* It is lost with its line.
LEMMA EventTorn ==
    ASSUME TypeOK, EventsInOrder, inbox # <<>>, inbox' = Tail(inbox),
           Head(inbox).kind = "event", lost' = lost \cup {Head(inbox).of},
           UNCHANGED <<Had, sent>>
    PROVE  EventsInOrder'
<1> PICK e : e = Head(inbox).of
  OBVIOUS
<1>1. /\ e \in (1 .. sent) \ lost /\ e \in Nat
      /\ \A i \in DOMAIN Had : Had[i] < e
      /\ \A j \in EventLines' : e < inbox'[j].of
      /\ {inbox[j].of : j \in EventLines} = {inbox'[j].of : j \in EventLines'} \cup {e}
  BY FirstEvent
<1>2. e \notin {Had[i] : i \in DOMAIN Had}
  <2>1. ~(e < e)
    BY <1>1
  <2> QED
    BY <1>1, <2>1
<1>3. e \notin {inbox'[j].of : j \in EventLines'}
  <2>1. ~(e < e)
    BY <1>1
  <2> QED
    BY <1>1, <2>1
<1>4. {Had[i] : i \in DOMAIN Had} \cup {inbox'[j].of : j \in EventLines'}
        = (1 .. sent) \ (lost \cup {e})
  BY <1>1, <1>2, <1>3 DEF EventsInOrder
<1>5. \A i \in DOMAIN Had, j \in EventLines' : Had[i] < inbox'[j].of
  BY LinesTaken DEF EventsInOrder
<1>6. lost' \subseteq 1 .. sent
  BY <1>1 DEF EventsInOrder
<1> QED
  BY <1>4, <1>5, <1>6, OrderTaken DEF EventsInOrder

\* A line is sent: no event, or the next one.
LEMMA LineSent ==
    ASSUME TypeOK, EventsInOrder, NEW m \in Message, inbox' = Append(inbox, m),
           UNCHANGED <<Had, lost>>,
           \/ m.kind # "event" /\ sent' = sent
           \/ m.kind = "event" /\ sent' = sent + 1 /\ m.of = sent + 1
    PROVE  EventsInOrder'
<1>0. inbox \in Seq(Message) /\ sent \in Nat
  BY DEF TypeOK
<1>1. /\ Len(inbox) \in Nat /\ DOMAIN inbox = 1 .. Len(inbox)
      /\ DOMAIN inbox' = 1 .. Len(inbox) + 1
      /\ inbox'[Len(inbox) + 1] = m
      /\ \A i \in DOMAIN inbox : inbox'[i] = inbox[i]
  BY <1>0, AppendFacts
<1>2. \A j \in EventLines : j \in EventLines' /\ inbox'[j] = inbox[j] /\ j < Len(inbox) + 1
  BY <1>1 DEF EventLines
<1>3. CASE m.kind # "event" /\ sent' = sent
  <2>1. EventLines' = EventLines
    BY <1>1, <1>3 DEF EventLines
  <2>2. {inbox'[j].of : j \in EventLines'} = {inbox[j].of : j \in EventLines}
    BY <1>2, <2>1
  <2> QED
    BY <1>2, <1>3, <2>1, <2>2 DEF EventsInOrder
<1>4. CASE m.kind = "event" /\ sent' = sent + 1 /\ m.of = sent + 1
  <2>1. EventLines' = EventLines \cup {Len(inbox) + 1}
    BY <1>1, <1>4 DEF EventLines
  <2>2. \A e : e \in (1 .. sent) \ lost => e \in Nat /\ e < sent + 1
    BY <1>0
  <2>3. \A j \in EventLines : inbox[j].of < sent + 1
    BY <2>2, EventsPlace
  <2>4. \A i \in DOMAIN Had : Had[i] < sent + 1
    BY <2>2, EventsPlace
  <2>5. ASSUME NEW i \in EventLines', NEW j \in EventLines', i < j
        PROVE  inbox'[i].of < inbox'[j].of
    <3>1. i \in EventLines
      <4>1. j = Len(inbox) + 1 \/ j \in 1 .. Len(inbox)
        BY <1>1, <2>1 DEF EventLines
      <4>2. ~(Len(inbox) + 1 < j)
        BY <1>1, <4>1
      <4>3. i # Len(inbox) + 1
        BY <2>5, <4>2
      <4> QED
        BY <2>1, <4>3
    <3> QED
      BY <1>1, <1>2, <1>4, <2>1, <2>3, <2>5, <3>1 DEF EventsInOrder
  <2>6. \A i \in DOMAIN Had, j \in EventLines' : Had[i] < inbox'[j].of
    BY <1>1, <1>2, <1>4, <2>1, <2>4 DEF EventsInOrder
  <2>7. {inbox'[j].of : j \in EventLines'} = {inbox[j].of : j \in EventLines} \cup {sent + 1}
    <3>1. inbox'[Len(inbox) + 1].of = sent + 1
      BY <1>1, <1>4
    <3>2. ASSUME NEW f \in {inbox'[j].of : j \in EventLines'}
          PROVE  f \in {inbox[j].of : j \in EventLines} \cup {sent + 1}
      <4> PICK j \in EventLines' : f = inbox'[j].of
        BY <3>2
      <4>1. CASE j \in EventLines
        BY <1>2, <4>1
      <4>2. CASE j \notin EventLines
        BY <2>1, <3>1, <4>2
      <4> QED
        BY <4>1, <4>2
    <3>3. ASSUME NEW f \in {inbox[j].of : j \in EventLines}
          PROVE  f \in {inbox'[j].of : j \in EventLines'}
      BY <1>2
    <3>4. sent + 1 \in {inbox'[j].of : j \in EventLines'}
      BY <2>1, <3>1
    <3> QED
      BY <3>2, <3>3, <3>4
  <2>8. 1 .. sent + 1 = (1 .. sent) \cup {sent + 1} /\ sent + 1 \notin 1 .. sent
    BY <1>0
  <2>9. {Had[i] : i \in DOMAIN Had} \cup {inbox'[j].of : j \in EventLines'}
          = (1 .. sent + 1) \ lost
    BY <2>7, <2>8 DEF EventsInOrder
  <2>10. lost \subseteq 1 .. sent + 1
    BY <2>8 DEF EventsInOrder
  <2> QED
    BY <1>4, <2>5, <2>6, <2>9, <2>10 DEF EventsInOrder
<1> QED
  BY <1>3, <1>4

\* A step that leaves the two queues alone leaves what was read alone.
LEMMA HadKept == ASSUME UNCHANGED <<drained, event_queue>> PROVE UNCHANGED Had
BY DEF Had

LEMMA EventsStep ==
    ASSUME TypeOK, SeenInv, EventsInOrder, [Next]_vars
    PROVE  EventsInOrder'
<1>0. /\ inbox \in Seq(Message) /\ requests \in Seq(Request)
      /\ drained \in Seq(Nat) /\ event_queue \in Seq(Nat)
  BY DEF TypeOK
<1>a. ASSUME UNCHANGED <<inbox, events, sent>> PROVE EventsInOrder'
  <2>1. UNCHANGED <<inbox, Had, lost, sent>>
    BY <1>a, HadKept DEF events
  <2> QED
    BY <2>1, EventsFrame DEF EventsKept
<1>2. CASE WriteCommand \/ WriteFails \/ WriteShort
  BY <1>2, <1>a DEF WriteCommand, WriteFails, WriteShort
<1>3. CASE \E v \in Values \cup {NoValue} : Execute(v)
  BY <1>3, <1>a DEF Execute
<1>5. CASE ReadEvent
  <2>1. /\ inbox # <<>> /\ inbox' = Tail(inbox) /\ Head(inbox).kind = "event"
        /\ event_queue' = Append(event_queue, Head(inbox).of)
        /\ UNCHANGED <<drained, lost, sent>>
    BY <1>5 DEF ReadEvent, Intact, TakeLine
  <2>2. Head(inbox).of \in Nat
    BY <2>1, LinesTaken
  <2>3. drained \o Append(event_queue, Head(inbox).of)
          = Append(drained \o event_queue, Head(inbox).of)
    BY <1>0, <2>2, JoinAppend, SMTT(30)
  <2>4. Had' = Append(Had, Head(inbox).of)
    BY <2>1, <2>3 DEF Had
  <2> QED
    BY <2>1, <2>4, EventQueued
<1>6. CASE ReadAnswer \/ ReadGreeting
  <2>1. /\ inbox # <<>> /\ inbox' = Tail(inbox) /\ Head(inbox).kind # "event"
        /\ UNCHANGED <<events, sent>>
    BY <1>6 DEF ReadAnswer, ReadGreeting, Return, Intact, TakeLine, Answers
  <2>2. UNCHANGED <<Had, lost, sent>>
    BY <2>1, HadKept DEF events
  <2> QED
    BY <2>1, <2>2, OtherTaken
<1>7. CASE ReadGarbled \/ GreetingGarbled
  <2>1. /\ inbox # <<>> /\ inbox' = Tail(inbox)
        /\ UNCHANGED <<event_queue, drained, sent>>
        /\ lost' = IF Head(inbox).kind = "event" THEN lost \cup {Head(inbox).of}
                                                 ELSE lost
    BY <1>7 DEF ReadGarbled, GreetingGarbled, Return, TakeLine
  <2>2. UNCHANGED Had
    BY <2>1, HadKept
  <2>3. CASE Head(inbox).kind = "event"
    BY <2>1, <2>2, <2>3, EventTorn
  <2>4. CASE Head(inbox).kind # "event"
    BY <2>1, <2>2, <2>4, OtherTaken
  <2> QED
    BY <2>3, <2>4
<1>8. CASE ReadEof \/ ReadFails \/ GreetingEof \/ Handshake
  BY <1>8, <1>a DEF ReadEof, ReadFails, GreetingEof, Return, Handshake
<1>10. CASE DrainEvents
  <2>1. /\ drained' = drained \o event_queue /\ event_queue' = <<>>
        /\ UNCHANGED <<inbox, lost, sent>>
    BY <1>10 DEF DrainEvents
  <2>2. (drained \o event_queue) \o <<>> = drained \o event_queue
    BY <1>0, JoinFacts
  <2>3. UNCHANGED Had
    BY <2>1, <2>2 DEF Had
  <2> QED
    BY <2>1, <2>3, EventsFrame DEF EventsKept
<1>15. CASE Restart
  <2>1. sent = 0 /\ sent' = 0 /\ UNCHANGED events
    BY <1>15 DEF Restart, SeenInv
  <2> PICK n \in 0 .. Len(inbox) : inbox' = SubSeq(inbox, n + 1, Len(inbox))
    BY <1>15 DEF Restart
  <2>2. \A i \in DOMAIN inbox' : i + n \in DOMAIN inbox /\ inbox'[i] = inbox[i + n]
    BY <1>0, SuffixFacts
  <2>3. (1 .. 0) \ lost = {}
    OBVIOUS
  <2>4. EventLines = {} /\ DOMAIN Had = {}
    BY <2>1, <2>3, EventsPlace
  <2>5. EventLines' = {}
    BY <2>2, <2>4 DEF EventLines
  <2>6. UNCHANGED <<Had, lost, sent>>
    BY <2>1, HadKept DEF events
  <2>7. {inbox'[j].of : j \in EventLines'} = {inbox[j].of : j \in EventLines}
    BY <2>4, <2>5
  <2> QED
    BY <2>4, <2>5, <2>6, <2>7 DEF EventsInOrder
<1>16. CASE ServerRespond
  <2> PICK k \in Answers, v \in Returns(Head(requests)) :
             Send(Msg(k, Head(requests).of, v, sent))
    BY <1>16 DEF ServerRespond
  <2> PICK m : m = Msg(k, Head(requests).of, v, sent)
    OBVIOUS
  <2>1. Head(requests) \in Request
    BY <1>0, <1>16 DEF ServerRespond
  <2>2. m \in Message /\ m.kind # "event"
    BY <2>1, ReturnsTypes DEF Request, Msg, Message, TypeOK, Answers
  <2>3. inbox' = Append(inbox, m) /\ UNCHANGED <<sent, events>>
    BY <1>16 DEF ServerRespond, Send
  <2>4. UNCHANGED <<Had, lost>>
    BY <2>3, HadKept DEF events
  <2> QED
    BY <2>2, <2>3, <2>4, LineSent
<1>17. CASE ServerEvent
  <2> PICK m : m = Msg("event", sent + 1, NoValue, 0)
    OBVIOUS
  <2>1. sent' = sent + 1 /\ inbox' = Append(inbox, m) /\ UNCHANGED events
    BY <1>17 DEF ServerEvent, Send
  <2>2. m \in Message /\ m.kind = "event" /\ m.of = sent + 1
    BY DEF Msg, Message, TypeOK, Answers
  <2>4. UNCHANGED <<Had, lost>>
    BY <2>1, HadKept DEF events
  <2> QED
    BY <2>1, <2>2, <2>4, LineSent
<1>18. CASE ServerUnknown
  <2> PICK m : m = Msg("unknown", 0, NoValue, 0)
    OBVIOUS
  <2>1. sent' = sent /\ inbox' = Append(inbox, m) /\ UNCHANGED events
    BY <1>18 DEF ServerUnknown, Send
  <2>2. m \in Message /\ m.kind # "event"
    BY DEF Msg, Message, Answers
  <2>4. UNCHANGED <<Had, lost>>
    BY <2>1, HadKept DEF events
  <2> QED
    BY <2>1, <2>2, <2>4, LineSent
<1>19. CASE ServerClose \/ UNCHANGED vars
  BY <1>19, <1>a DEF ServerClose
<1> QED
  BY <1>2, <1>3, <1>5, <1>6, <1>7, <1>8, <1>10, <1>15, <1>16, <1>17,
     <1>18, <1>19 DEF Next, Client, Server, Finished

-----------------------------------------------------------------------------
(* The theorems.                                                             *)

LEMMA InitInv == ASSUME Init PROVE IInv
<1>1. TypeOK
  BY TypeInit
<1>2. DOMAIN requests = {} /\ outline = <<>> /\ ~torn /\ ~closed /\ requests = <<>>
      /\ pc \in {"new", "idle"} /\ sent = 0 /\ result.kind = "none"
  BY DEF Init, Res
<1>3. ASSUME NEW i \in DOMAIN inbox
      PROVE  inbox[i].kind \notin Answers /\ inbox[i].val = NoValue
  <2>1. CASE inbox = <<>>
    BY <2>1
  <2>2. CASE inbox = <<Msg("greeting", 0, NoValue, 0)>>
    <3>1. i = 1 /\ inbox[1] = Msg("greeting", 0, NoValue, 0)
      BY <2>2
    <3> QED
      BY <3>1 DEF Msg, Answers
  <2> QED
    BY <2>1, <2>2 DEF Init
<1>4. AnswersOrdered /\ InStep
  BY <1>2, <1>3 DEF AnswersOrdered, InStep
<1>5. ValuesInv /\ OutlineInv
  BY <1>2, <1>3 DEF ValuesInv, ValueOfCall, OutlineInv, Waiting
<1>6. OwnAnswer /\ AnswerComes /\ NopPollsEvents
  BY <1>2 DEF OwnAnswer, AnswerComes, NopPollsEvents
<1>7. SeenInv
  <2>1. 1 .. 0 = {}
    OBVIOUS
  <2> QED
    BY <1>2, <1>3, <2>1 DEF SeenInv
<1>8. EventsInOrder
  <2>1. drained \o event_queue = <<>> /\ lost = {} /\ sent = 0
    BY DEF Init
  <2>2. DOMAIN Had = {}
    BY <2>1 DEF Had
  <2>3. EventLines = {}
    <3>1. \A i \in DOMAIN inbox : inbox[i].kind # "event"
      <4>1. CASE inbox = <<>>
        BY <4>1
      <4>2. CASE inbox = <<Msg("greeting", 0, NoValue, 0)>>
        BY <4>2 DEF Msg
      <4> QED
        BY <4>1, <4>2 DEF Init
    <3> QED
      BY <3>1 DEF EventLines
  <2>4. 1 .. 0 = {}
    OBVIOUS
  <2> QED
    BY <2>1, <2>2, <2>3, <2>4 DEF EventsInOrder
<1> QED
  BY <1>1, <1>4, <1>5, <1>6, <1>7, <1>8 DEF IInv

\* The invariant behind the theorems: the answers to come are in order, a value
\* comes back to the call that passed it, a half written line has no answer.
THEOREM Inductive == Spec => []IInv
<1>1. Init => IInv
  BY InitInv
<1>2. ASSUME IInv, [Next]_vars PROVE IInv'
  <2> USE <1>2 DEF IInv
  <2>1. TypeOK'
    BY TypeStep
  <2>2. AnswersOrdered'
    BY OrderStep
  <2>3. ValuesInv' /\ OutlineInv'
    BY ValuesStep, OutlineStep
  <2>4. InStep'
    BY InStepStep
  <2>5. OwnAnswer' /\ AnswerComes'
    BY OwnAnswerStep, AnswerComesStep
  <2>6. SeenInv' /\ NopPollsEvents'
    BY SeenStep, NopStep
  <2>7. EventsInOrder'
    BY EventsStep
  <2> QED
    BY <2>1, <2>2, <2>3, <2>4, <2>5, <2>6, <2>7
<1> QED
  BY <1>1, <1>2, PTL DEF Spec

\* The type of every variable, for lines and events of any number.
THEOREM TypeCorrect == Spec => []TypeOK
<1>1. IInv => TypeOK
  BY DEF IInv
<1> QED
  BY <1>1, Inductive, PTL

\* As long as nothing failed, and again from a guest_sync that succeeds with a
\* value that was not used before and that no other command returns, whatever
\* integers other commands do return, Qmp::execute and Qga::execute return the
\* answer to the command they wrote.
THEOREM AnswersAreOwn == Spec => []OwnAnswer
<1>1. IInv => OwnAnswer
  BY DEF IInv
<1> QED
  BY <1>1, Inductive, PTL

\* A call of the blocking client that waits on a stream in step waits for an
\* answer that is on its way, or for the end of the stream.
THEOREM AnswersCome == Spec => []AnswerComes
<1>1. IInv => AnswerComes
  BY DEF IInv
<1> QED
  BY <1>1, Inductive, PTL

\* What the comment of Qmp::nop promises: when a call has returned an answer,
\* the events that were sent before it can be taken with events(), but for
\* those in lines that a failed read has torn.
THEOREM EventsAreQueued == Spec => []NopPollsEvents
<1>1. IInv => NopPollsEvents
  BY DEF IInv
<1> QED
  BY <1>1, Inductive, PTL

\* Qmp.event_queue and events(): the program gets every event once and in the
\* order the server sent them, but for those in lines a failed read has torn,
\* however calls, errors and events are interleaved.
THEOREM EventsKeepOrder == Spec => []EventsInOrder
<1>1. IInv => EventsInOrder
  BY DEF IInv
<1> QED
  BY <1>1, Inductive, PTL
=============================================================================
