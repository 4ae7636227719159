------------------------- MODULE HttpConnectionProofs -------------------------
(***************************************************************************)
(* The safety of HttpConnection, for every set of requests, every limit,   *)
(* every size of the receive buffer and every segmentation of the stream;  *)
(* and, behind it, that of HttpMessage, for every head a client may send   *)
(* and every response a handler may build.                                 *)
(***************************************************************************)
EXTENDS HttpConnection, HttpMessage, SelectionProofs, FiniteSetTheorems, SequenceTheorems,
        NaturalsInduction, WellFoundedInduction, TLAPS

\* A length that does not parse counts as 0, so the announced length is a number.
LEMMA ContentLengthType ==
    ASSUME req \in Requests
    PROVE  ContentLength \in Nat
BY ConstantsType DEF ContentLength, RequestType

\* The fields of a request the invariant computes with.
LEMMA RequestFields ==
    ASSUME req \in Requests
    PROVE  req.head \in Nat /\ req.body \in Nat
BY ConstantsType DEF RequestType

LEMMA InitInvariant == Init => IInv
<1> SUFFICES ASSUME Init
             PROVE  IInv
  OBVIOUS
<1>1. TypeOK
  BY ConstantsType DEF Init, TypeOK
<1>2. Stream /\ HeadRead /\ BodyRead /\ Failure /\ Progress
  BY <1>1, ConstantsType, RequestFields
     DEF Init, Stream, HeadRead, BodyRead, Failure, Progress, Accepted, Total, Marker,
         Larger
<1> QED
  BY <1>1, <1>2 DEF IInv

\* Every step keeps the invariant: one step of the proof per action, and under it
\* one per conjunct.
LEMMA NextInvariant == IInv /\ [Next]_vars => IInv'
<1> SUFFICES ASSUME IInv, [Next]_vars
             PROVE  IInv'
  OBVIOUS
<1>1. /\ req \in Requests /\ req.head \in Nat /\ req.body \in Nat /\ ContentLength \in Nat
      /\ MaxHeaderBytes \in Nat /\ MaxBodyBytes \in Nat /\ ReadChunk \in Nat \ {0}
      /\ Responses \subseteq Nat /\ Window \in Nat
  BY ContentLengthType, RequestFields, ConstantsType DEF IInv, TypeOK
<1>2. TypeOK /\ Stream /\ HeadRead /\ BodyRead /\ Failure /\ Progress
  BY DEF IInv
<1>3. req' = req => ContentLength' = ContentLength /\ Parses' = Parses /\ Total' = Total
  BY DEF ContentLength, Parses, Total
<1>4. CASE Arrive
  <2>1. TypeOK'
    BY <1>1, <1>2, <1>4 DEF Arrive, clientVars, TypeOK
  <2>2. Stream' /\ HeadRead'
    BY <1>1, <1>2, <1>3, <1>4
       DEF Arrive, clientVars, TypeOK, Stream, HeadRead, BodyRead, Progress, Accepted,
           Marker, Total
  <2>3. BodyRead'
    BY <1>1, <1>2, <1>3, <1>4
       DEF Arrive, clientVars, TypeOK, Stream, HeadRead, BodyRead, Progress, Accepted,
           Marker, Larger
  <2>4. Failure' /\ Progress'
    BY <1>1, <1>2, <1>3, <1>4
       DEF Arrive, clientVars, TypeOK, Stream, Failure, Progress, Marker
  <2> QED
    BY <2>1, <2>2, <2>3, <2>4 DEF IInv
<1>5. CASE Finish
  <2>1. TypeOK'
    BY <1>1, <1>2, <1>5 DEF Finish, clientVars, TypeOK
  <2>2. Stream' /\ HeadRead'
    BY <1>1, <1>2, <1>3, <1>5
       DEF Finish, clientVars, TypeOK, Stream, HeadRead, BodyRead, Progress, Accepted,
           Marker, Total
  <2>3. BodyRead'
    BY <1>1, <1>2, <1>3, <1>5
       DEF Finish, clientVars, TypeOK, Stream, HeadRead, BodyRead, Progress, Accepted,
           Marker, Larger
  <2>4. Failure' /\ Progress'
    BY <1>1, <1>2, <1>3, <1>5
       DEF Finish, clientVars, TypeOK, Stream, Failure, Progress, Marker
  <2> QED
    BY <2>1, <2>2, <2>3, <2>4 DEF IInv
<1>6. CASE Reset
  <2>1. TypeOK'
    BY <1>1, <1>2, <1>6 DEF Reset, clientVars, TypeOK
  <2>2. Stream' /\ HeadRead'
    BY <1>1, <1>2, <1>3, <1>6
       DEF Reset, clientVars, TypeOK, Stream, HeadRead, BodyRead, Progress, Accepted,
           Marker, Total
  <2>3. BodyRead'
    BY <1>1, <1>2, <1>3, <1>6
       DEF Reset, clientVars, TypeOK, Stream, HeadRead, BodyRead, Progress, Accepted,
           Marker, Larger
  <2>4. Failure' /\ Progress'
    BY <1>1, <1>2, <1>3, <1>6
       DEF Reset, clientVars, TypeOK, Stream, Failure, Progress, Marker
  <2> QED
    BY <2>1, <2>2, <2>3, <2>4 DEF IInv
<1>7. CASE ClientRead
  <2>1. TypeOK'
    BY <1>1, <1>2, <1>7 DEF ClientRead, clientVars, TypeOK
  <2>2. Stream' /\ HeadRead'
    BY <1>1, <1>2, <1>3, <1>7
       DEF ClientRead, clientVars, TypeOK, Stream, HeadRead, BodyRead, Progress, Accepted,
           Marker, Total
  <2>3. BodyRead'
    BY <1>1, <1>2, <1>3, <1>7
       DEF ClientRead, clientVars, TypeOK, Stream, HeadRead, BodyRead, Progress, Accepted,
           Marker, Larger
  <2>4. Failure' /\ Progress'
    BY <1>1, <1>2, <1>3, <1>7
       DEF ClientRead, clientVars, TypeOK, Stream, Failure, Progress, Marker
  <2> QED
    BY <2>1, <2>2, <2>3, <2>4 DEF IInv
<1>8. CASE HeadTooLong
  <2>1. TypeOK'
    BY <1>1, <1>2, <1>8
       DEF HeadTooLong, HeadOverLimit, MarkerFound, Reject, clientVars, TypeOK
  <2>2. Stream' /\ HeadRead'
    BY <1>1, <1>2, <1>3, <1>8
       DEF HeadTooLong, HeadOverLimit, MarkerFound, Reject, clientVars, TypeOK, Stream,
           HeadRead, BodyRead, Progress, Accepted, Marker, Total
  <2>3. BodyRead'
    BY <1>1, <1>2, <1>3, <1>8
       DEF HeadTooLong, HeadOverLimit, MarkerFound, Reject, clientVars, TypeOK, Stream,
           HeadRead, BodyRead, Progress, Accepted, Marker, Larger
  <2>4. Failure' /\ Progress'
    BY <1>1, <1>2, <1>3, <1>8
       DEF HeadTooLong, HeadOverLimit, MarkerFound, Reject, clientVars, TypeOK, Stream,
           Failure, Progress, Marker
  <2> QED
    BY <2>1, <2>2, <2>3, <2>4 DEF IInv
<1>9. CASE HeadReceive
  <2>1. TypeOK'
    BY <1>1, <1>2, <1>9
       DEF HeadReceive, Receiving, HeadOverLimit, MarkerFound, Received, clientVars, TypeOK
  <2>2. Stream' /\ HeadRead'
    BY <1>1, <1>2, <1>3, <1>9
       DEF HeadReceive, Receiving, HeadOverLimit, MarkerFound, Received, clientVars, TypeOK,
           Stream, HeadRead, BodyRead, Progress, Accepted, Marker, Total
  <2>3. BodyRead'
    BY <1>1, <1>2, <1>3, <1>9
       DEF HeadReceive, Receiving, HeadOverLimit, MarkerFound, Received, clientVars, TypeOK,
           Stream, HeadRead, BodyRead, Progress, Accepted, Marker, Larger
  <2>4. Failure' /\ Progress'
    BY <1>1, <1>2, <1>3, <1>9
       DEF HeadReceive, Receiving, HeadOverLimit, MarkerFound, Received, clientVars, TypeOK,
           Stream, Failure, Progress, Marker
  <2> QED
    BY <2>1, <2>2, <2>3, <2>4 DEF IInv
<1>10. CASE HeadEnd
  <2>1. TypeOK'
    BY <1>1, <1>2, <1>10
       DEF HeadEnd, Receiving, EndOfStream, Reject, HeadOverLimit, MarkerFound, clientVars,
           TypeOK
  <2>2. Stream' /\ HeadRead'
    BY <1>1, <1>2, <1>3, <1>10
       DEF HeadEnd, Receiving, EndOfStream, Reject, HeadOverLimit, MarkerFound, clientVars,
           TypeOK, Stream, HeadRead, BodyRead, Progress, Accepted, Marker, Total
  <2>3. BodyRead'
    BY <1>1, <1>2, <1>3, <1>10
       DEF HeadEnd, Receiving, EndOfStream, Reject, HeadOverLimit, MarkerFound, clientVars,
           TypeOK, Stream, HeadRead, BodyRead, Progress, Accepted, Marker, Larger
  <2>4. Failure' /\ Progress'
    BY <1>1, <1>2, <1>3, <1>10
       DEF HeadEnd, Receiving, EndOfStream, Reject, HeadOverLimit, MarkerFound, clientVars,
           TypeOK, Stream, Failure, Progress, Marker
  <2> QED
    BY <2>1, <2>2, <2>3, <2>4 DEF IInv
<1>11. CASE HeadFails
  <2>1. TypeOK'
    BY <1>1, <1>2, <1>11 DEF HeadFails, Receiving, ReceiveFails, Interrupted, Reject, clientVars, TypeOK
  <2>2. Stream' /\ HeadRead'
    BY <1>1, <1>2, <1>3, <1>11
       DEF HeadFails, Receiving, ReceiveFails, Interrupted, Reject, clientVars, TypeOK, Stream, HeadRead,
           BodyRead, Progress, Accepted, Marker, Total
  <2>3. BodyRead'
    BY <1>1, <1>2, <1>3, <1>11
       DEF HeadFails, Receiving, ReceiveFails, Interrupted, Reject, clientVars, TypeOK, Stream, HeadRead,
           BodyRead, Progress, Accepted, Marker, Larger
  <2>4. Failure' /\ Progress'
    BY <1>1, <1>2, <1>3, <1>11
       DEF HeadFails, Receiving, ReceiveFails, Interrupted, Reject, clientVars, TypeOK, Stream, Failure,
           Progress, Marker
  <2> QED
    BY <2>1, <2>2, <2>3, <2>4 DEF IInv
<1>12. CASE ParseHead
  <2>1. TypeOK'
    <3>1. body' \in Nat
      BY <1>1, <1>2, <1>12
         DEF ParseHead, LengthOverLimit, MarkerFound, PastHead, Marker, TypeOK
    <3>2. pc' \in {"body", "write"} /\ reason' \in {"none", "syntax", "length"}
      BY <1>2, <1>12 DEF ParseHead, LengthOverLimit, Reject, Progress
    <3>3. answer' \in {"none", "400"} /\ left' \in Nat
      BY <1>1, <1>2, <1>12 DEF ParseHead, LengthOverLimit, Reject, TypeOK, Progress
    <3>4. UNCHANGED <<req, sent, peer, got, unread>>
      BY <1>12 DEF ParseHead, LengthOverLimit, clientVars
    <3> QED
      BY <1>2, <3>1, <3>2, <3>3, <3>4 DEF TypeOK
  <2>2. Stream' /\ HeadRead'
    BY <1>1, <1>2, <1>3, <1>12
       DEF ParseHead, LengthOverLimit, MarkerFound, PastHead, Reject, clientVars, TypeOK,
           Stream, HeadRead, BodyRead, Progress, Accepted, Marker, Total
  <2>3. BodyRead'
    BY <1>1, <1>2, <1>3, <1>12
       DEF ParseHead, LengthOverLimit, MarkerFound, PastHead, Reject, clientVars, TypeOK,
           Stream, HeadRead, BodyRead, Progress, Accepted, Marker, Larger
  <2>4. Failure' /\ Progress'
    BY <1>1, <1>2, <1>3, <1>12
       DEF ParseHead, LengthOverLimit, MarkerFound, PastHead, Reject, clientVars, TypeOK,
           Stream, Failure, Progress, Marker
  <2> QED
    BY <2>1, <2>2, <2>3, <2>4 DEF IInv
<1>13. CASE BodyReceive
  <2>1. TypeOK'
    BY <1>1, <1>2, <1>13 DEF BodyReceive, Received, clientVars, TypeOK
  <2>2. Stream' /\ HeadRead'
    BY <1>1, <1>2, <1>3, <1>13
       DEF BodyReceive, Received, clientVars, TypeOK, Stream, HeadRead, BodyRead, Progress,
           Accepted, Marker, Total
  <2>3. BodyRead'
    BY <1>1, <1>2, <1>3, <1>13
       DEF BodyReceive, Received, clientVars, TypeOK, Stream, HeadRead, BodyRead, Progress,
           Accepted, Marker, Larger
  <2>4. Failure' /\ Progress'
    BY <1>1, <1>2, <1>3, <1>13
       DEF BodyReceive, Received, clientVars, TypeOK, Stream, Failure, Progress, Marker
  <2> QED
    BY <2>1, <2>2, <2>3, <2>4 DEF IInv
<1>14. CASE BodyEnd
  <2>1. TypeOK'
    BY <1>1, <1>2, <1>14 DEF BodyEnd, ShortBody, EndOfStream, Truncate, clientVars, TypeOK
  <2>2. Stream' /\ HeadRead'
    BY <1>1, <1>2, <1>3, <1>14
       DEF BodyEnd, ShortBody, EndOfStream, Truncate, clientVars, TypeOK, Stream, HeadRead,
           BodyRead, Progress, Accepted, Marker, Total
  <2>3. BodyRead'
    BY <1>1, <1>2, <1>3, <1>14
       DEF BodyEnd, ShortBody, EndOfStream, Truncate, clientVars, TypeOK, Stream, HeadRead,
           BodyRead, Progress, Accepted, Marker, Larger
  <2>4. Failure' /\ Progress'
    BY <1>1, <1>2, <1>3, <1>14
       DEF BodyEnd, ShortBody, EndOfStream, Truncate, clientVars, TypeOK, Stream, Failure,
           Progress, Marker
  <2> QED
    BY <2>1, <2>2, <2>3, <2>4 DEF IInv
<1>15. CASE BodyFails
  <2>1. TypeOK'
    BY <1>1, <1>2, <1>15 DEF BodyFails, ReceiveFails, Interrupted, Reject, clientVars, TypeOK
  <2>2. Stream' /\ HeadRead'
    BY <1>1, <1>2, <1>3, <1>15
       DEF BodyFails, ReceiveFails, Interrupted, Reject, clientVars, TypeOK, Stream, HeadRead, BodyRead,
           Progress, Accepted, Marker, Total
  <2>3. BodyRead'
    BY <1>1, <1>2, <1>3, <1>15
       DEF BodyFails, ReceiveFails, Interrupted, Reject, clientVars, TypeOK, Stream, HeadRead, BodyRead,
           Progress, Accepted, Marker, Larger
  <2>4. Failure' /\ Progress'
    BY <1>1, <1>2, <1>3, <1>15
       DEF BodyFails, ReceiveFails, Interrupted, Reject, clientVars, TypeOK, Stream, Failure, Progress,
           Marker
  <2> QED
    BY <2>1, <2>2, <2>3, <2>4 DEF IInv
<1>16. CASE Handle
  <2>1. TypeOK'
    BY <1>1, <1>2, <1>16 DEF Handle, clientVars, TypeOK
  <2>2. Stream' /\ HeadRead'
    BY <1>1, <1>2, <1>3, <1>16
       DEF Handle, clientVars, TypeOK, Stream, HeadRead, BodyRead, Progress, Accepted,
           Marker, Total
  <2>3. BodyRead'
    BY <1>1, <1>2, <1>3, <1>16
       DEF Handle, clientVars, TypeOK, Stream, HeadRead, BodyRead, Progress, Accepted,
           Marker, Larger
  <2>4. Failure' /\ Progress'
    BY <1>1, <1>2, <1>3, <1>16
       DEF Handle, clientVars, TypeOK, Stream, Failure, Progress, Marker
  <2> QED
    BY <2>1, <2>2, <2>3, <2>4 DEF IInv
<1>17. CASE Write
  <2>1. TypeOK'
    BY <1>1, <1>2, <1>17 DEF Write, clientVars, TypeOK
  <2>2. Stream' /\ HeadRead'
    BY <1>1, <1>2, <1>3, <1>17
       DEF Write, clientVars, TypeOK, Stream, HeadRead, BodyRead, Progress, Accepted,
           Marker, Total
  <2>3. BodyRead'
    BY <1>1, <1>2, <1>3, <1>17
       DEF Write, clientVars, TypeOK, Stream, HeadRead, BodyRead, Progress, Accepted,
           Marker, Larger
  <2>4. Failure' /\ Progress'
    BY <1>1, <1>2, <1>3, <1>17
       DEF Write, clientVars, TypeOK, Stream, Failure, Progress, Marker
  <2> QED
    BY <2>1, <2>2, <2>3, <2>4 DEF IInv
<1>18. CASE WriteEnd
  <2>1. TypeOK'
    BY <1>1, <1>2, <1>18 DEF WriteEnd, AfterWrite, clientVars, TypeOK
  <2>2. Stream' /\ HeadRead'
    BY <1>1, <1>2, <1>3, <1>18
       DEF WriteEnd, AfterWrite, clientVars, TypeOK, Stream, HeadRead, BodyRead, Progress,
           Accepted, Marker, Total
  <2>3. BodyRead'
    BY <1>1, <1>2, <1>3, <1>18
       DEF WriteEnd, AfterWrite, clientVars, TypeOK, Stream, HeadRead, BodyRead, Progress,
           Accepted, Marker, Larger
  <2>4. Failure' /\ Progress'
    BY <1>1, <1>2, <1>3, <1>18
       DEF WriteEnd, AfterWrite, clientVars, TypeOK, Stream, Failure, Progress, Marker
  <2> QED
    BY <2>1, <2>2, <2>3, <2>4 DEF IInv
<1>19. CASE ShutdownBoth
  <2>1. TypeOK'
    BY <1>1, <1>2, <1>19 DEF ShutdownBoth, clientVars, TypeOK
  <2>2. Stream' /\ HeadRead'
    BY <1>1, <1>2, <1>3, <1>19
       DEF ShutdownBoth, clientVars, TypeOK, Stream, HeadRead, BodyRead, Progress, Accepted,
           Marker, Total
  <2>3. BodyRead'
    BY <1>1, <1>2, <1>3, <1>19
       DEF ShutdownBoth, clientVars, TypeOK, Stream, HeadRead, BodyRead, Progress, Accepted,
           Marker, Larger
  <2>4. Failure' /\ Progress'
    BY <1>1, <1>2, <1>3, <1>19
       DEF ShutdownBoth, clientVars, TypeOK, Stream, Failure, Progress, Marker
  <2> QED
    BY <2>1, <2>2, <2>3, <2>4 DEF IInv
<1>20. CASE WriteFails
  <2>1. TypeOK'
    BY <1>1, <1>2, <1>20 DEF WriteFails, AfterWrite, clientVars, TypeOK
  <2>2. Stream' /\ HeadRead'
    BY <1>1, <1>2, <1>3, <1>20
       DEF WriteFails, AfterWrite, clientVars, TypeOK, Stream, HeadRead, BodyRead, Progress,
           Accepted, Marker, Total
  <2>3. BodyRead'
    BY <1>1, <1>2, <1>3, <1>20
       DEF WriteFails, AfterWrite, clientVars, TypeOK, Stream, HeadRead, BodyRead, Progress,
           Accepted, Marker, Larger
  <2>4. Failure' /\ Progress'
    BY <1>1, <1>2, <1>3, <1>20
       DEF WriteFails, AfterWrite, clientVars, TypeOK, Stream, Failure, Progress, Marker
  <2> QED
    BY <2>1, <2>2, <2>3, <2>4 DEF IInv
<1>21. CASE UNCHANGED vars
  BY <1>2, <1>21
     DEF vars, IInv, TypeOK, Stream, HeadRead, BodyRead, Failure, Progress, Accepted, Total,
         Parses, ContentLength
<1> QED
  BY <1>4, <1>5, <1>6, <1>7, <1>8, <1>9, <1>10, <1>11, <1>12, <1>13, <1>14, <1>15, <1>16,
     <1>17, <1>18, <1>19, <1>20, <1>21
     DEF Next, Client, Server, Proceeds, Fails

\* The invariant holds throughout every connection.
THEOREM Invariant == Spec => []IInv
BY InitInvariant, NextInvariant, PTL DEF Spec

\* Every variable keeps its type; no byte count becomes negative.
THEOREM TypeCorrect == Spec => []TypeOK
<1>1. IInv => TypeOK
  BY DEF IInv
<1> QED
  BY <1>1, Invariant, PTL

\* The memory a client can make its thread allocate is bounded by the limits and
\* one receive buffer (http.rs:337-355, 390-409).
THEOREM BoundedMemoryHolds == Spec => []BoundedMemory
<1>1. IInv => BoundedMemory
  BY DEF IInv, HeadRead, BodyRead, BoundedMemory
<1> QED
  BY <1>1, Invariant, PTL

\* The handler sees exactly the announced body, or all that was sent of it
\* (http.rs:400-410).
THEOREM BodyExactHolds == Spec => []BodyExact
<1>1. IInv => BodyExact
  BY DEF IInv, BodyRead, BodyExact
<1> QED
  BY <1>1, Invariant, PTL

\* An answered request without excess bytes was read to its end
\* (http.rs:400-409, 319-320).
THEOREM RequestConsumedHolds == Spec => []RequestConsumed
<1>1. ASSUME IInv
      PROVE  RequestConsumed
  <2>1. req.head \in Nat /\ req.body \in Nat /\ ContentLength \in Nat
    BY <1>1, RequestFields, ContentLengthType DEF IInv, TypeOK
  <2> QED
    BY <1>1, <2>1 DEF IInv, TypeOK, Stream, BodyRead, Total, Marker, RequestConsumed
<1> QED
  BY <1>1, Invariant, PTL

\* A 400 is never sent to a client whose request fits and that is still there,
\* unless a recv was interrupted (http.rs:308-317).
THEOREM RejectsJustifiedHolds == Spec => []RejectsJustified
<1>1. ASSUME IInv
      PROVE  RejectsJustified
  <2>1. req.head \in Nat /\ ContentLength \in Nat /\ MaxHeaderBytes \in Nat /\ MaxBodyBytes \in Nat
    BY <1>1, RequestFields, ContentLengthType, ConstantsType DEF IInv, TypeOK
  <2> QED
    BY <1>1, <2>1 DEF IInv, TypeOK, Failure, Progress, Servable, Marker, RejectsJustified
<1> QED
  BY <1>1, Invariant, PTL

-------------------------------------------------------------------------------
\* HttpConnection implements Exchange.

LEMMA InitExchange == Init => Exchanged!Init
BY DEF Init, Exchanged!Init, Phase

\* A step of the connection is a step of Exchange, or leaves phase and answer as
\* they are.
LEMMA StepExchange == IInv /\ [Next]_vars => [Exchanged!Next]_(Exchanged!vars)
<1> SUFFICES ASSUME IInv, [Next]_vars
             PROVE  [Exchanged!Next]_(Exchanged!vars)
  OBVIOUS
<1>1. Progress /\ TypeOK
  BY DEF IInv
<1>2. CASE Arrive
  BY <1>1, <1>2 DEF Arrive, clientVars, TypeOK, Progress, Phase, Exchanged!vars
<1>3. CASE Finish
  BY <1>1, <1>3 DEF Finish, clientVars, TypeOK, Progress, Phase, Exchanged!vars
<1>4. CASE Reset
  BY <1>1, <1>4 DEF Reset, clientVars, TypeOK, Progress, Phase, Exchanged!vars
<1>5. CASE ClientRead
  BY <1>1, <1>5 DEF ClientRead, clientVars, TypeOK, Progress, Phase, Exchanged!vars
<1>6. CASE HeadTooLong
  BY <1>1, <1>6
     DEF HeadTooLong, Reject, clientVars, TypeOK, Progress, Phase, Exchanged!Next,
         Exchanged!Reject
<1>7. CASE HeadReceive
  BY <1>1, <1>7
     DEF HeadReceive, Receiving, clientVars, TypeOK, Progress, Phase, Exchanged!vars
<1>8. CASE HeadEnd
  BY <1>1, <1>8
     DEF HeadEnd, Receiving, Reject, clientVars, TypeOK, Progress, Phase, Exchanged!Next,
         Exchanged!Reject, Exchanged!vars
<1>9. CASE HeadFails
  BY <1>1, <1>9
     DEF HeadFails, Receiving, Reject, clientVars, TypeOK, Progress, Phase, Exchanged!Next,
         Exchanged!Reject
<1>10. CASE ParseHead
  BY <1>1, <1>10
     DEF ParseHead, LengthOverLimit, Reject, clientVars, TypeOK, Progress, Phase,
         Exchanged!Next, Exchanged!Reject, Exchanged!vars
<1>11. CASE BodyReceive
  BY <1>1, <1>11 DEF BodyReceive, clientVars, TypeOK, Progress, Phase, Exchanged!vars
<1>12. CASE BodyEnd
  BY <1>1, <1>12
     DEF BodyEnd, clientVars, TypeOK, Progress, Phase, Exchanged!Next, Exchanged!Handle
<1>13. CASE BodyFails
  BY <1>1, <1>13
     DEF BodyFails, Reject, clientVars, TypeOK, Progress, Phase, Exchanged!Next,
         Exchanged!Reject
<1>14. CASE Handle
  BY <1>1, <1>14
     DEF Handle, clientVars, TypeOK, Progress, Phase, Exchanged!Next, Exchanged!Respond
<1>15. CASE Write
  BY <1>1, <1>15 DEF Write, clientVars, TypeOK, Progress, Phase, Exchanged!vars
<1>16. CASE WriteEnd
  BY <1>1, <1>16
     DEF WriteEnd, AfterWrite, clientVars, TypeOK, Progress, Phase, Exchanged!vars
<1>17. CASE WriteFails
  BY <1>1, <1>17
     DEF WriteFails, AfterWrite, clientVars, TypeOK, Progress, Phase, Exchanged!vars
<1>18. CASE ShutdownBoth
  BY <1>1, <1>18
     DEF ShutdownBoth, clientVars, TypeOK, Progress, Phase, Exchanged!Next, Exchanged!Leave,
         Exchanged!Finish
<1>19. CASE UNCHANGED vars
  BY <1>19 DEF vars, Phase, Exchanged!vars
<1> QED
  BY <1>2, <1>3, <1>4, <1>5, <1>6, <1>7, <1>8, <1>9, <1>10, <1>11, <1>12, <1>13, <1>14,
     <1>15, <1>16, <1>17, <1>18, <1>19
     DEF Next, Client, Server, Proceeds, Fails

\* Every connection ends in one of the three ways of Exchange: the handler's
\* response, a 400 without the handler, or silence (http.rs:302-321).
THEOREM Refinement == Spec => ImplementsExchange
BY InitExchange, StepExchange, Invariant, PTL DEF Spec, Exchanged!Spec, ImplementsExchange

-------------------------------------------------------------------------------
\* HttpMessage: places in a text.

\* Every nonempty set of numbers has a least element: a descent in Nat ends.
LEMMA NatWellFounded == IsWellFoundedOn({p \in Nat \X Nat : p[1] < p[2]}, Nat)
<1>1. IsWellFoundedOn(OpToRel(<, Nat), Nat)
  BY NatLessThanWellFounded
<1>2. \A x, y \in Nat : <<x, y>> \in OpToRel(<, Nat) <=> x < y
  BY DEF OpToRel
<1> DEFINE R == {p \in Nat \X Nat : p[1] < p[2]}
           Q == OpToRel(<, Nat)
<1>3. \A x, y \in Nat : <<x, y>> \in R => <<x, y>> \in Q
  BY <1>2
<1>4. IsWellFoundedOn(Q, Nat)
  BY <1>1
<1> HIDE DEF R, Q
<1>5. IsWellFoundedOn(R, Nat)
  BY <1>3, <1>4 DEF IsWellFoundedOn
<1> QED
  BY <1>5 DEF R

\* So Min and Max below return what they are meant to.
LEMMA LeastElement ==
    ASSUME NEW S \in SUBSET Nat, S # {}
    PROVE  \E x \in S : \A y \in S : x <= y
<1> DEFINE R == {p \in Nat \X Nat : p[1] < p[2]}
<1>1. IsWellFoundedOn(R, Nat)
  BY NatWellFounded
<1>2. \A x, y \in Nat : <<x, y>> \in R <=> x < y
  OBVIOUS
<1> HIDE DEF R
<1>3. \E x \in S : \A y \in S : <<y, x>> \notin R
  BY <1>1, WFMin
<1>4. PICK x \in S : \A y \in S : <<y, x>> \notin R
  BY <1>3
<1>5. ASSUME NEW y \in S PROVE x <= y
  <2>1. x \in Nat /\ y \in Nat /\ ~(y < x)
    BY <1>2, <1>4
  <2> QED
    BY <2>1
<1> QED
  BY <1>5

\* What Min and Max are on sets of positions.
LEMMA MinPlace ==
    ASSUME NEW n \in Nat, NEW S \in SUBSET (1..n), S # {}
    PROVE  Min(S) \in S /\ \A y \in S : Min(S) <= y
<1>1. \E x \in S : \A y \in S : x =< y
  BY LeastElement
<1> QED
  BY <1>1 DEF Min

LEMMA MaxPlace ==
    ASSUME NEW n \in Nat, NEW S \in SUBSET (1..n), S # {}
    PROVE  Max(S) \in S /\ \A y \in S : y <= Max(S)
<1> DEFINE T == {n - x : x \in S}
<1>1. T \in SUBSET Nat /\ T # {}
  <2>1. \A x \in S : x \in 1..n /\ n - x \in Nat
    OBVIOUS
  <2>2. PICK x \in S : TRUE
    OBVIOUS
  <2>3. n - x \in T
    OBVIOUS
  <2> QED
    BY <2>1, <2>3
<1>2. PICK t \in T : \A u \in T : t <= u
  BY <1>1, LeastElement
<1>3. PICK x \in S : t = n - x
  OBVIOUS
<1>4. \A y \in S : x >= y
  <2> SUFFICES ASSUME NEW y \in S PROVE x >= y
    OBVIOUS
  <2>1. t <= n - y
    BY <1>2
  <2>2. x \in 1..n /\ y \in 1..n
    OBVIOUS
  <2> QED
    BY <1>3, <2>1, <2>2
<1>5. Max(S) \in S /\ \A y \in S : Max(S) >= y
  BY <1>4 DEF Max
<1>6. \A y \in S : y \in 1..n
  OBVIOUS
<1> QED
  BY <1>5, <1>6

\* Where split_once cuts a text.
LEMMA CutPlace ==
    ASSUME NEW S, NEW text \in Seq(S), NEW c
    PROVE  /\ Cut(text, c) \in 0..Len(text)
           /\ Splits(text, c) => /\ Cut(text, c) \in 1..Len(text) /\ text[Cut(text, c)] = c
                                 /\ \A p \in 1..Len(text) : p < Cut(text, c) => text[p] # c
           /\ ~Splits(text, c) => \A p \in 1..Len(text) : text[p] # c
<1> DEFINE places == {i \in 1..Len(text) : text[i] = c}
           cut == Cut(text, c)
           n == Len(text)
<1>1. cut = IF places # {} THEN Min(places) ELSE 0
  BY DEF Cut, SelectInSeq
<1>2. n \in Nat
  OBVIOUS
<1>3. places \in SUBSET (1..n)
  OBVIOUS
<1>4. \A p \in 1..n : p \in places <=> text[p] = c
  OBVIOUS
<1>5. Splits(text, c) <=> cut > 0
  BY DEF Splits
<1> SUFFICES /\ cut \in 0..n
             /\ cut > 0 => /\ cut \in 1..n /\ text[cut] = c
                           /\ \A p \in 1..n : p < cut => text[p] # c
             /\ ~(cut > 0) => \A p \in 1..n : text[p] # c
  BY <1>5
<1> HIDE DEF places, cut, n
<1>6. CASE places = {}
  <2>1. cut = 0
    BY <1>1, <1>6
  <2> QED
    BY <1>2, <1>4, <1>6, <2>1
<1>7. CASE places # {}
  <2>1. Min(places) \in places /\ \A y \in places : Min(places) <= y
    BY <1>2, <1>3, <1>7, MinPlace
  <2>2. cut \in places /\ \A y \in places : cut <= y
    BY <1>1, <1>7, <2>1
  <2>3. cut \in 1..n /\ text[cut] = c
    BY <1>3, <1>4, <2>2
  <2>4. ASSUME NEW p \in 1..n, p < cut PROVE text[p] # c
    <3>1. p \notin places
      BY ONLY <1>2, <2>2, <2>3, <2>4
    <3> QED
      BY <1>4, <3>1
  <2> QED
    BY ONLY <1>2, <2>3, <2>4
<1> QED
  BY <1>6, <1>7

\* trim leaves the text between the first and the last word that is no blank.
LEMMA TrimSurrounds ==
    ASSUME NEW S, NEW text \in Seq(S)
    PROVE  Trim(text) \in Seq(S) /\ Surrounds(text, Trim(text))
<1> DEFINE words == {i \in 1..Len(text) : text[i] # Blank}
           n == Len(text)
<1>1. SelectInSeq(text, LAMBDA w : w # Blank) = IF words # {} THEN Min(words) ELSE 0
  BY DEF SelectInSeq
<1>2. SelectLastInSeq(text, LAMBDA w : w # Blank) = IF words # {} THEN Max(words) ELSE 0
  BY DEF SelectLastInSeq
<1>3. n \in Nat
  OBVIOUS
<1>4. words \in SUBSET (1..n)
  OBVIOUS
<1>5. \A p \in 1..n : p \in words <=> text[p] # Blank
  OBVIOUS
<1>6. Surrounds(text, Trim(text)) <=>
        /\ Clean(Trim(text))
        /\ \E first \in 1..(n + 1), last \in 0..n :
              /\ Trim(text) = SubSeq(text, first, last)
              /\ \A p \in 1..n : p \notin first..last => text[p] = Blank
  BY DEF Surrounds
<1> HIDE DEF words
<1>7. CASE words = {}
  <2>1. Trim(text) = <<>>
    BY <1>1, <1>7 DEF Trim
  <2>2. <<>> = SubSeq(text, 1, 0) /\ <<>> \in Seq(S)
    OBVIOUS
  <2>3. 1 \in 1..(n + 1) /\ 0 \in 0..n
    BY <1>3
  <2>4. \A p \in 1..n : text[p] = Blank
    BY <1>5, <1>7
  <2> QED
    BY ONLY <1>6, <2>1, <2>2, <2>3, <2>4 DEF Clean
<1>8. CASE words # {}
  <2> DEFINE first == Min(words)
             last == Max(words)
  <2>1. first \in words /\ \A y \in words : first <= y
    BY <1>3, <1>4, <1>8, MinPlace
  <2>2. last \in words /\ \A y \in words : y <= last
    BY <1>3, <1>4, <1>8, MaxPlace
  <2> HIDE DEF first, last
  <2>3. first \in 1..n /\ last \in 1..n /\ text[first] # Blank /\ text[last] # Blank
    BY <1>4, <1>5, <2>1, <2>2
  <2>4. first <= last
    BY ONLY <2>1, <2>2
  <2>5. first # 0
    BY ONLY <1>3, <2>3
  <2>6. Trim(text) = SubSeq(text, first, last)
    BY <1>1, <1>2, <1>8, <2>5 DEF Trim, first, last
  <2>7. ASSUME NEW p \in 1..n, p \notin first..last
        PROVE  text[p] = Blank
    <3>1. p \notin words
      BY ONLY <1>3, <2>1, <2>2, <2>3, <2>7
    <3> QED
      BY <1>5, <3>1
  <2> HIDE DEF n
  <2>8. /\ SubSeq(text, first, last) \in Seq(S)
        /\ Len(SubSeq(text, first, last)) = last - first + 1
        /\ \A i \in 1..(last - first + 1) : SubSeq(text, first, last)[i] = text[first + i - 1]
    BY <2>3, <2>4 DEF n
  <2>9. 1 \in 1..(last - first + 1) /\ first + 1 - 1 = first
        /\ last - first + 1 \in 1..(last - first + 1) /\ first + (last - first + 1) - 1 = last
    BY ONLY <1>3, <2>3, <2>4
  <2>10. Clean(SubSeq(text, first, last))
    BY ONLY <2>3, <2>8, <2>9 DEF Clean
  <2>11. first \in 1..(n + 1) /\ last \in 0..n
    BY ONLY <1>3, <2>3
  <2> QED
    BY ONLY <1>6, <2>6, <2>7, <2>8, <2>10, <2>11
<1> QED
  BY <1>7, <1>8

-------------------------------------------------------------------------------
\* Parts of texts, and what a line means.

\* The elements of a sequence are those at its positions.
LEMMA ElementsAt ==
    ASSUME NEW S, NEW text \in Seq(S), NEW c
    PROVE  c \in ToSet(text) <=> \E p \in 1..Len(text) : text[p] = c
BY DEF ToSet

\* What a part of a sequence is made of.
LEMMA PartProperties ==
    ASSUME NEW S, NEW text \in Seq(S), NEW first \in 1..(Len(text) + 1), NEW last \in 0..Len(text),
           first <= last + 1
    PROVE  /\ SubSeq(text, first, last) \in Seq(S)
           /\ Len(SubSeq(text, first, last)) = last - first + 1
           /\ \A i \in 1..(last - first + 1) : SubSeq(text, first, last)[i] = text[first + i - 1]
<1> DEFINE n == Len(text)
<1>1. n \in Nat
  OBVIOUS
<1>2. CASE first <= last
  <2>1. first \in 1..n /\ last \in 1..n
    BY ONLY <1>1, <1>2, first \in 1..(n + 1), last \in 0..n
  <2> QED
    BY <1>2, <2>1
<1>3. CASE first = last + 1
  BY <1>3
<1> QED
  BY ONLY <1>1, <1>2, <1>3, first \in 1..(n + 1), last \in 0..n, first <= last + 1

\* A part of a text has only its words.
LEMMA PartHasNoMore ==
    ASSUME NEW S, NEW text \in Seq(S), NEW part, NEW c, Surrounds(text, part),
           \A p \in 1..Len(text) : text[p] # c
    PROVE  part \in Seq(S) /\ c \notin ToSet(part)
<1>1. PICK first \in 1..(Len(text) + 1), last \in 0..Len(text) : part = SubSeq(text, first, last)
  BY DEF Surrounds
<1> DEFINE n == Len(text)
<1>2. n \in Nat /\ first \in Nat /\ last \in Nat /\ 1 <= first /\ last <= n
  OBVIOUS
<1>3. part \in Seq(S)
  BY <1>1, <1>2
<1>4. \A i \in 1..Len(part) : part[i] = text[first + i - 1] /\ first + i - 1 \in 1..n
  <2>1. CASE first <= last
    <3>1. Len(part) = last - first + 1
          /\ \A i \in 1..(last - first + 1) : part[i] = text[first + i - 1]
      BY <1>1, <1>2, <2>1
    <3>2. \A i \in 1..(last - first + 1) : first + i - 1 \in 1..n
      BY ONLY <1>2, <2>1
    <3> QED
      BY <3>1, <3>2
  <2>2. CASE last < first
    <3>1. Len(part) = 0
      BY <1>1, <1>2, <2>2
    <3> QED
      BY <3>1
  <2> QED
    BY ONLY <1>2, <2>1, <2>2
<1>5. \A i \in 1..Len(part) : part[i] # c
  BY <1>4
<1>6. c \notin ToSet(part)
  BY ONLY <1>3, <1>5, ElementsAt
<1> QED
  BY <1>3, <1>6

\* A text without blanks at its ends surrounds itself.
LEMMA SurroundsItself ==
    ASSUME NEW S, NEW text \in Seq(S), Clean(text)
    PROVE  Surrounds(text, text)
<1> DEFINE n == Len(text)
<1>1. n \in Nat /\ text = SubSeq(text, 1, n)
  OBVIOUS
<1>2. 1 \in 1..(n + 1) /\ n \in 0..n
  BY <1>1
<1> QED
  BY <1>1, <1>2 DEF Surrounds

\* A blank before a text belongs to no part of it.
LEMMA BlankBefore ==
    ASSUME NEW S, NEW text \in Seq(S), NEW part, Surrounds(text, part), Blank \in S
    PROVE  Surrounds(<<Blank>> \o text, part)
<1> DEFINE longer == <<Blank>> \o text
           n == Len(text)
<1>1. PICK first \in 1..(n + 1), last \in 0..n :
         /\ part = SubSeq(text, first, last)
         /\ \A p \in 1..n : p \notin first..last => text[p] = Blank
  BY DEF Surrounds
<1>2. n \in Nat /\ first \in Nat /\ last \in Nat /\ 1 <= first /\ first <= n + 1 /\ last <= n
  OBVIOUS
<1>3. longer \in Seq(S) /\ Len(longer) = n + 1 /\ longer[1] = Blank
  BY DEF longer
<1>4. \A p \in 2..(n + 1) : longer[p] = text[p - 1]
  BY <1>2 DEF longer
<1> HIDE DEF longer, n
<1>5. part = SubSeq(longer, first + 1, last + 1)
  <2> DEFINE whole == SubSeq(longer, first + 1, last + 1)
  <2>1. CASE first <= last
    <3>1. /\ part \in Seq(S) /\ Len(part) = last - first + 1
          /\ \A i \in 1..(last - first + 1) : part[i] = text[first + i - 1]
      BY <1>1, <1>2, <2>1 DEF n
    <3>2. /\ whole \in Seq(S) /\ Len(whole) = last - first + 1
          /\ \A i \in 1..(last - first + 1) : whole[i] = longer[first + i]
      <4>1. first + 1 \in 1..Len(longer) /\ last + 1 \in 1..Len(longer) /\ first + 1 <= last + 1
        BY ONLY <1>2, <1>3, <2>1
      <4>2. /\ whole \in Seq(S) /\ Len(whole) = (last + 1) - (first + 1) + 1
            /\ \A i \in 1..((last + 1) - (first + 1) + 1) : whole[i] = longer[(first + 1) + i - 1]
        <5>1. first + 1 \in 1..(Len(longer) + 1) /\ last + 1 \in 0..Len(longer)
              /\ first + 1 <= (last + 1) + 1
          BY ONLY <1>2, <1>3, <4>1
        <5>2. longer \in Seq(S)
          BY <1>3
        <5> QED
          BY ONLY <5>1, <5>2, PartProperties
      <4> HIDE DEF whole
      <4>3. (last + 1) - (first + 1) + 1 = last - first + 1
            /\ \A i \in 1..(last - first + 1) : (first + 1) + i - 1 = first + i
        BY ONLY <1>2
      <4> QED
        BY ONLY <4>2, <4>3
    <3>3. \A i \in 1..(last - first + 1) : first + i \in 2..(n + 1)
          /\ first + i - 1 = (first + i) - 1
      BY ONLY <1>2, <2>1
    <3>4. \A i \in 1..(last - first + 1) : part[i] = whole[i]
      BY ONLY <3>1, <3>2, <3>3, <1>4
    <3> QED
      BY ONLY <3>1, <3>2, <3>4, SeqEqual
  <2>2. CASE last < first
    <3>1. part = <<>> /\ whole = <<>>
      BY <1>1, <1>2, <1>3, <2>2 DEF n
    <3> QED
      BY <3>1
  <2> QED
    BY ONLY <1>2, <2>1, <2>2
<1>6. ASSUME NEW p \in 1..(n + 1), p \notin (first + 1)..(last + 1)
      PROVE  longer[p] = Blank
  <2>1. CASE p = 1
    BY <2>1, <1>3
  <2>2. CASE p # 1
    <3>1. p \in 2..(n + 1) /\ p - 1 \in 1..n /\ p - 1 \notin first..last
      BY ONLY <1>2, <1>6, <2>2
    <3> QED
      BY <1>1, <1>4, <3>1
  <2> QED
    BY <2>1, <2>2
<1>7. first + 1 \in 1..((n + 1) + 1) /\ last + 1 \in 0..(n + 1)
  BY ONLY <1>2
<1>8. Clean(part)
  BY DEF Surrounds
<1>9. Surrounds(longer, part)
  BY ONLY <1>3, <1>5, <1>6, <1>7, <1>8 DEF Surrounds
<1> QED
  BY <1>9 DEF longer

LEMMA ColonIsNoBlank == ":" # Blank
BY Zenon DEF Blank

LEMMA BreakIsNeither == ":" # CRLF /\ Blank # CRLF
BY Zenon DEF Blank, CRLF

\* A line of a field's name and value means what the client trims the value to.
LEMMA LineMeans ==
    ASSUME NEW S, NEW name \in Seq(S), NEW value \in Seq(S), NEW trimmed,
           ":" \in S, Blank \in S,
           Clean(name), ":" \notin ToSet(name), CRLF \notin ToSet(name), CRLF \notin ToSet(value),
           Surrounds(value, trimmed)
    PROVE  Line(name, value) \in Seq(S) /\ Means(Line(name, value), Field(name, trimmed))
<1> DEFINE middle == <<":", Blank>>
           k == Len(name)
           m == Len(value)
           line == (name \o middle) \o value
           rest == SubSeq(line, k + 2, k + 2 + m)
           blanked == <<Blank>> \o value
<1>1. Line(name, value) = line
  BY DEF Line
<1>2. k \in Nat /\ m \in Nat /\ middle \in Seq(S) /\ Len(middle) = 2 /\ middle[1] = ":"
      /\ middle[2] = Blank
  OBVIOUS
<1> HIDE DEF middle
<1>3. /\ name \o middle \in Seq(S) /\ Len(name \o middle) = k + 2
      /\ \A i \in 1..k : (name \o middle)[i] = name[i]
      /\ (name \o middle)[k + 1] = ":" /\ (name \o middle)[k + 2] = Blank
  <2>1. /\ name \o middle \in Seq(S) /\ Len(name \o middle) = k + 2
        /\ \A i \in 1..(k + 2) : (name \o middle)[i] = IF i <= k THEN name[i] ELSE middle[i - k]
    <3>1. middle \in Seq(S) /\ Len(middle) = 2
      BY <1>2
    <3>2. /\ name \o middle \in Seq(S) /\ Len(name \o middle) = Len(name) + Len(middle)
          /\ \A i \in 1..(Len(name) + Len(middle)) :
                (name \o middle)[i] = IF i <= Len(name) THEN name[i] ELSE middle[i - Len(name)]
      BY ONLY <3>1, name \in Seq(S), ConcatProperties
    <3> QED
      BY ONLY <3>1, <3>2
  <2>2. k + 1 \in 1..(k + 2) /\ k + 2 \in 1..(k + 2) /\ ~(k + 1 <= k) /\ ~(k + 2 <= k)
        /\ (k + 1) - k = 1 /\ (k + 2) - k = 2
    BY ONLY <1>2
  <2>3. \A i \in 1..k : i \in 1..(k + 2) /\ i <= k
    BY ONLY <1>2
  <2> QED
    BY ONLY <1>2, <2>1, <2>2, <2>3
<1>4. /\ line \in Seq(S) /\ Len(line) = k + 2 + m
      /\ \A i \in 1..(k + 2) : line[i] = (name \o middle)[i]
      /\ \A i \in 1..m : line[k + 2 + i] = value[i]
  <2> DEFINE start == name \o middle
  <2> HIDE DEF start
  <2>1. start \in Seq(S) /\ Len(start) = k + 2
    BY <1>3 DEF start
  <2>2. /\ start \o value \in Seq(S) /\ Len(start \o value) = k + 2 + m
        /\ \A i \in 1..(k + 2 + m) :
              (start \o value)[i] = IF i <= k + 2 THEN start[i] ELSE value[i - (k + 2)]
    <3>1. /\ start \o value \in Seq(S) /\ Len(start \o value) = Len(start) + Len(value)
          /\ \A i \in 1..(Len(start) + Len(value)) :
                (start \o value)[i] = IF i <= Len(start) THEN start[i] ELSE value[i - Len(start)]
      BY ONLY <2>1, value \in Seq(S), ConcatProperties
    <3> QED
      BY ONLY <2>1, <3>1
  <2>3. \A i \in 1..m : k + 2 + i \in 1..(k + 2 + m) /\ ~(k + 2 + i <= k + 2)
        /\ (k + 2 + i) - (k + 2) = i
    BY ONLY <1>2
  <2>4. \A i \in 1..(k + 2) : i \in 1..(k + 2 + m) /\ i <= k + 2
    BY ONLY <1>2
  <2>5. line = start \o value
    BY DEF start
  <2> HIDE DEF line
  <2>6. /\ \A i \in 1..(k + 2) : line[i] = start[i]
        /\ \A i \in 1..m : line[k + 2 + i] = value[i]
    BY ONLY <2>2, <2>3, <2>4, <2>5
  <2> QED
    BY ONLY <2>2, <2>5, <2>6 DEF start
<1> HIDE DEF line
<1>5. line[k + 1] = ":" /\ k + 1 \in 1..Len(line)
  <2>1. k + 1 \in 1..(k + 2)
    BY ONLY <1>2
  <2>2. k + 1 \in 1..(k + 2 + m)
    BY ONLY <1>2
  <2> QED
    BY ONLY <1>3, <1>4, <2>1, <2>2
<1>6. SubSeq(line, 1, (k + 1) - 1) = name
  <2> DEFINE start == SubSeq(line, 1, k)
  <2>1. start \in Seq(S) /\ Len(start) = k /\ \A i \in 1..k : start[i] = line[i]
    <3>1. CASE k = 0
      BY <1>4, <3>1
    <3>2. CASE k # 0
      <4>1. 1 \in 1..Len(line) /\ k \in 1..Len(line) /\ 1 <= k
        BY ONLY <1>2, <1>4, <3>2
      <4> QED
        BY <1>4, <4>1
    <3> QED
      BY <3>1, <3>2
  <2> HIDE DEF start
  <2>2. \A i \in 1..k : i \in 1..(k + 2)
    BY ONLY <1>2
  <2>3. \A i \in 1..k : start[i] = name[i]
    BY ONLY <1>3, <1>4, <2>1, <2>2
  <2>4. start = name
    BY ONLY <2>1, <2>3, SeqEqual, name \in Seq(S)
  <2>5. (k + 1) - 1 = k
    BY ONLY <1>2
  <2> QED
    BY ONLY <2>4, <2>5 DEF start
<1>7. SubSeq(line, (k + 1) + 1, Len(line)) = blanked
  <2>1. blanked \in Seq(S) /\ Len(blanked) = m + 1 /\ blanked[1] = Blank
        /\ \A i \in 1..m : blanked[i + 1] = value[i]
    <3>1. blanked \in Seq(S) /\ Len(blanked) = m + 1 /\ blanked[1] = Blank
      OBVIOUS
    <3>2. \A i \in 1..m : blanked[i + 1] = value[i]
      BY <1>2
    <3> QED
      BY <3>1, <3>2
  <2>2. rest \in Seq(S) /\ Len(rest) = m + 1
        /\ \A i \in 1..(m + 1) : rest[i] = line[(k + 2) + i - 1]
    <3>1. k + 2 \in 1..Len(line) /\ k + 2 + m \in 1..Len(line) /\ k + 2 <= k + 2 + m
      BY ONLY <1>2, <1>4
    <3>2. rest \in Seq(S) /\ Len(rest) = (k + 2 + m) - (k + 2) + 1
          /\ \A i \in 1..((k + 2 + m) - (k + 2) + 1) : rest[i] = line[(k + 2) + i - 1]
      BY <1>4, <3>1
    <3>3. (k + 2 + m) - (k + 2) + 1 = m + 1
      BY ONLY <1>2
    <3> HIDE DEF rest
    <3> QED
      BY ONLY <3>2, <3>3
  <2> HIDE DEF rest, blanked
  <2>3. \A i \in 1..(m + 1) : rest[i] = blanked[i]
    <3> SUFFICES ASSUME NEW i \in 1..(m + 1) PROVE rest[i] = blanked[i]
      OBVIOUS
    <3>1. CASE i = 1
      <4>1. (k + 2) + 1 - 1 = k + 2 /\ k + 2 \in 1..(k + 2)
        BY ONLY <1>2
      <4> QED
        BY ONLY <1>3, <1>4, <2>1, <2>2, <3>1, <4>1
    <3>2. CASE i # 1
      <4>1. i - 1 \in 1..m /\ (i - 1) + 1 = i /\ (k + 2) + i - 1 = k + 2 + (i - 1)
        BY ONLY <1>2, <3>2
      <4> QED
        BY ONLY <1>4, <2>1, <2>2, <4>1
    <3> QED
      BY <3>1, <3>2
  <2>4. rest = blanked
    BY ONLY <2>1, <2>2, <2>3, SeqEqual
  <2>5. (k + 1) + 1 = k + 2
    BY ONLY <1>2
  <2> QED
    BY ONLY <1>4, <2>4, <2>5 DEF rest
<1>8. Surrounds(blanked, trimmed)
  BY BlankBefore
<1>9. CRLF \notin ToSet(line)
  <2>1. \A p \in 1..k : name[p] # CRLF
    BY ElementsAt
  <2>2. \A p \in 1..m : value[p] # CRLF
    BY ElementsAt
  <2>3. ASSUME NEW p \in 1..Len(line) PROVE line[p] # CRLF
    <3>1. CASE p \in 1..k
      <4>1. p \in 1..(k + 2)
        BY ONLY <1>2, <3>1
      <4> QED
        BY ONLY <1>3, <1>4, <2>1, <3>1, <4>1
    <3>2. CASE p \in (k + 1)..(k + 2)
      <4>1. p \in 1..(k + 2) /\ (p = k + 1 \/ p = k + 2)
        BY ONLY <1>2, <3>2
      <4> QED
        BY ONLY <1>3, <1>4, <4>1, BreakIsNeither
    <3>3. CASE p \in (k + 3)..(k + 2 + m)
      <4>1. p - (k + 2) \in 1..m /\ k + 2 + (p - (k + 2)) = p
        BY ONLY <1>2, <3>3
      <4> QED
        BY ONLY <1>4, <2>2, <4>1
    <3> QED
      BY ONLY <1>2, <1>4, <2>3, <3>1, <3>2, <3>3
  <2> QED
    BY ONLY <1>4, <2>3, ElementsAt
<1>10. Surrounds(name, name) /\ ":" \notin ToSet(name)
  BY SurroundsItself
<1>11. Field(name, trimmed).name = name /\ Field(name, trimmed).value = trimmed
  BY DEF Field
<1> HIDE DEF k, blanked
<1>12. Means(line, Field(name, trimmed))
  BY ONLY <1>5, <1>6, <1>7, <1>8, <1>9, <1>10, <1>11 DEF Means
<1> QED
  BY <1>1, <1>4, <1>12

\* A line with a colon means the field that it is parsed into.
LEMMA FieldLineMeans ==
    ASSUME NEW S, NEW line \in Seq(S), Splits(line, ":"), CRLF \notin ToSet(line)
    PROVE  LET name == Trim(Before(line, ":"))
               value == Trim(After(line, ":"))
           IN  /\ name \in Seq(S) /\ value \in Seq(S) /\ Means(line, Field(name, value))
               /\ CRLF \notin ToSet(value)
<1> DEFINE cut == Cut(line, ":")
           n == Len(line)
           before == SubSeq(line, 1, cut - 1)
           after == SubSeq(line, cut + 1, n)
<1>1. cut \in 1..n /\ line[cut] = ":" /\ \A p \in 1..n : p < cut => line[p] # ":"
  BY CutPlace
<1>2. Before(line, ":") = before /\ After(line, ":") = after
  BY DEF Before, After
<1>3. n \in Nat
  OBVIOUS
<1> HIDE DEF cut, n, before, after
<1>4. before \in Seq(S) /\ Len(before) = cut - 1 /\ \A i \in 1..(cut - 1) : before[i] = line[i]
  <2>1. 1 \in 1..(n + 1) /\ cut - 1 \in 0..n /\ 1 <= (cut - 1) + 1 /\ (cut - 1) - 1 + 1 = cut - 1
        /\ \A i \in 1..(cut - 1) : 1 + i - 1 = i
    BY ONLY <1>1, <1>3
  <2>2. /\ before \in Seq(S) /\ Len(before) = (cut - 1) - 1 + 1
        /\ \A i \in 1..((cut - 1) - 1 + 1) : before[i] = line[1 + i - 1]
    BY <2>1, PartProperties DEF before, n
  <2> QED
    BY ONLY <2>1, <2>2
<1>5. after \in Seq(S) /\ \A i \in 1..Len(after) : after[i] # CRLF
  <2>1. cut + 1 \in 1..(n + 1) /\ n \in 0..n /\ cut + 1 <= n + 1
    BY ONLY <1>1, <1>3
  <2>2. /\ after \in Seq(S) /\ Len(after) = n - (cut + 1) + 1
        /\ \A i \in 1..(n - (cut + 1) + 1) : after[i] = line[(cut + 1) + i - 1]
    BY <2>1, PartProperties DEF after, n
  <2>3. \A p \in 1..n : line[p] # CRLF
    BY ElementsAt DEF n
  <2>4. \A i \in 1..(n - (cut + 1) + 1) : (cut + 1) + i - 1 \in 1..n
    BY ONLY <1>1, <1>3
  <2> QED
    BY ONLY <2>2, <2>3, <2>4
<1>6. \A i \in 1..Len(before) : before[i] # ":"
  <2>1. \A i \in 1..(cut - 1) : i \in 1..n /\ i < cut
    BY ONLY <1>1, <1>3
  <2> QED
    BY ONLY <1>1, <1>4, <2>1
<1> DEFINE name == Trim(before)
           value == Trim(after)
<1>7. name \in Seq(S) /\ Surrounds(before, name)
  BY <1>4, TrimSurrounds
<1>8. value \in Seq(S) /\ Surrounds(after, value) /\ CRLF \notin ToSet(value)
  <2>1. value \in Seq(S) /\ Surrounds(after, value)
    BY <1>5, TrimSurrounds
  <2> HIDE DEF value
  <2> QED
    BY <1>5, <2>1, PartHasNoMore
<1>9. ":" \notin ToSet(name)
  BY <1>4, <1>6, <1>7, PartHasNoMore
<1>10. Field(name, value).name = name /\ Field(name, value).value = value
  BY DEF Field
<1> HIDE DEF name, value
<1>11. Means(line, Field(name, value))
  BY ONLY <1>1, <1>7, <1>8, <1>9, <1>10, CRLF \notin ToSet(line) DEF Means, before, after, n
<1> QED
  BY <1>2, <1>7, <1>8, <1>11 DEF name, value

\* Between the first blank of a line and the second there is none.
LEMMA NoBlankBetween ==
    ASSUME NEW S, NEW line \in Seq(S), NEW blanks, blanks = {i \in 1..Len(line) : line[i] = Blank},
           Cardinality(blanks) >= 2
    PROVE  LET first == Min(blanks)
               second == Min(blanks \ {first})
               part == SubSeq(line, first + 1, second - 1)
           IN  part \in Seq(S) /\ Blank \notin ToSet(part)
<1> DEFINE n == Len(line)
           first == Min(blanks)
           second == Min(blanks \ {first})
           part == SubSeq(line, first + 1, second - 1)
<1>1. n \in Nat
  OBVIOUS
<1>2. blanks \in SUBSET (1..n) /\ \A p \in 1..n : p \in blanks <=> line[p] = Blank
  OBVIOUS
<1>3. blanks # {} /\ \A x : blanks # {x}
  <2>1. Cardinality({}) = 0 /\ \A x : Cardinality({x}) = 1
    BY FS_EmptySet, FS_Singleton
  <2>2. ~(0 >= 2) /\ ~(1 >= 2)
    OBVIOUS
  <2> QED
    BY ONLY <2>1, <2>2, Cardinality(blanks) >= 2
<1>4. first \in blanks /\ \A y \in blanks : first <= y
  BY <1>1, <1>2, <1>3, MinPlace
<1>5. blanks \ {first} # {}
  BY <1>3, <1>4
<1>6. second \in blanks \ {first} /\ \A y \in blanks \ {first} : second <= y
  <2>1. blanks \ {first} \in SUBSET (1..n)
    BY <1>2
  <2> QED
    BY <1>1, <1>5, <2>1, MinPlace
<1> HIDE DEF first, second, n
<1>7. first \in 1..n /\ second \in 1..n /\ first < second
  <2>1. first \in 1..n /\ second \in 1..n /\ first <= second /\ first # second
    BY <1>2, <1>4, <1>6
  <2> QED
    BY ONLY <1>1, <2>1
<1>8. /\ part \in Seq(S) /\ Len(part) = second - first - 1
      /\ \A i \in 1..(second - first - 1) : part[i] = line[first + i]
  <2>1. first + 1 \in 1..(n + 1) /\ second - 1 \in 0..n /\ first + 1 <= (second - 1) + 1
        /\ (second - 1) - (first + 1) + 1 = second - first - 1
        /\ \A i \in 1..(second - first - 1) : (first + 1) + i - 1 = first + i
    BY ONLY <1>1, <1>7
  <2>2. /\ part \in Seq(S) /\ Len(part) = (second - 1) - (first + 1) + 1
        /\ \A i \in 1..((second - 1) - (first + 1) + 1) : part[i] = line[(first + 1) + i - 1]
    BY <2>1, PartProperties DEF n
  <2> HIDE DEF part
  <2> QED
    BY ONLY <2>1, <2>2
<1> HIDE DEF part
<1>9. ASSUME NEW i \in 1..(second - first - 1) PROVE part[i] # Blank
  <2>1. first + i \in 1..n /\ first + i # first /\ ~(second <= first + i)
    BY ONLY <1>1, <1>7, <1>9
  <2>2. first + i \notin blanks
    BY ONLY <1>6, <2>1
  <2> QED
    BY ONLY <1>2, <1>8, <1>9, <2>1, <2>2
<1>10. Blank \notin ToSet(part)
  BY ONLY <1>8, <1>9, ElementsAt
<1> QED
  BY <1>8, <1>10 DEF part, first, second

\* Path and query are what the target is before and after its first "?".
LEMMA TargetParts ==
    ASSUME NEW S, target \in Seq(S)
    PROVE  /\ target = IF Query = <<>> THEN Path ELSE Path \o <<"?">> \o Query[1]
           /\ "?" \notin ToSet(Path)
<1> DEFINE cut == Cut(target, "?")
           n == Len(target)
<1>1. n \in Nat
  OBVIOUS
<1>2. CASE ~Splits(target, "?")
  <2>1. Query = <<>> /\ Path = target
    BY <1>2 DEF Query, Path, Before
  <2>2. \A p \in 1..n : target[p] # "?"
    BY <1>2, CutPlace
  <2>3. "?" \notin ToSet(target)
    BY <2>2, ElementsAt
  <2> QED
    BY <2>1, <2>3
<1>3. CASE Splits(target, "?")
  <2> DEFINE before == SubSeq(target, 1, cut - 1)
             after == SubSeq(target, cut + 1, n)
             start == Append(before, "?")
             whole == start \o after
  <2>1. Query = <<after>> /\ Path = before
    BY <1>3 DEF Query, Path, Before, After
  <2>2. cut \in 1..n /\ target[cut] = "?" /\ \A p \in 1..n : p < cut => target[p] # "?"
    BY <1>3, CutPlace
  <2> HIDE DEF cut, n, before, after
  <2>3. before \in Seq(S) /\ Len(before) = cut - 1 /\ \A i \in 1..(cut - 1) : before[i] = target[i]
    <3>1. 1 \in 1..(n + 1) /\ cut - 1 \in 0..n /\ 1 <= (cut - 1) + 1 /\ (cut - 1) - 1 + 1 = cut - 1
          /\ \A i \in 1..(cut - 1) : 1 + i - 1 = i
      BY ONLY <1>1, <2>2
    <3>2. /\ before \in Seq(S) /\ Len(before) = (cut - 1) - 1 + 1
          /\ \A i \in 1..((cut - 1) - 1 + 1) : before[i] = target[1 + i - 1]
      BY <3>1, PartProperties DEF before, n
    <3> QED
      BY ONLY <3>1, <3>2
  <2>4. after \in Seq(S) /\ Len(after) = n - cut
        /\ \A i \in 1..(n - cut) : after[i] = target[cut + i]
    <3>1. cut + 1 \in 1..(n + 1) /\ n \in 0..n /\ cut + 1 <= n + 1 /\ n - (cut + 1) + 1 = n - cut
          /\ \A i \in 1..(n - cut) : (cut + 1) + i - 1 = cut + i
      BY ONLY <1>1, <2>2
    <3>2. /\ after \in Seq(S) /\ Len(after) = n - (cut + 1) + 1
          /\ \A i \in 1..(n - (cut + 1) + 1) : after[i] = target[(cut + 1) + i - 1]
      BY <3>1, PartProperties DEF after, n
    <3> QED
      BY ONLY <3>1, <3>2
  <2>5. "?" \notin ToSet(before)
    <3>1. \A i \in 1..(cut - 1) : i \in 1..n /\ i < cut
      BY ONLY <1>1, <2>2
    <3>2. \A i \in 1..Len(before) : before[i] # "?"
      BY ONLY <2>2, <2>3, <3>1
    <3> QED
      BY <2>3, <3>2, ElementsAt
  <2>6. "?" \in S
    <3>1. target[cut] \in S
      BY <2>2 DEF n
    <3> QED
      BY <2>2, <3>1
  <2>7. before \o <<"?">> = start
    BY <2>3, <2>6
  <2>8. /\ start \in Seq(S) /\ Len(start) = cut /\ start[cut] = "?"
        /\ \A i \in 1..(cut - 1) : start[i] = before[i]
    <3>1. /\ start \in Seq(S) /\ Len(start) = Len(before) + 1 /\ start[Len(before) + 1] = "?"
          /\ \A i \in 1..Len(before) : start[i] = before[i]
      BY ONLY <2>3, <2>6, AppendProperties
    <3>2. Len(before) = cut - 1 /\ (cut - 1) + 1 = cut
      BY ONLY <2>2, <2>3, <1>1
    <3> QED
      BY ONLY <3>1, <3>2
  <2> HIDE DEF start
  <2>9. /\ whole \in Seq(S) /\ Len(whole) = n
        /\ \A i \in 1..n : whole[i] = IF i <= cut THEN start[i] ELSE after[i - cut]
    <3>1. /\ whole \in Seq(S) /\ Len(whole) = Len(start) + Len(after)
          /\ \A i \in 1..(Len(start) + Len(after)) :
                whole[i] = IF i <= Len(start) THEN start[i] ELSE after[i - Len(start)]
      BY ONLY <2>4, <2>8, ConcatProperties
    <3>2. Len(start) = cut /\ Len(after) = n - cut /\ cut + (n - cut) = n
      BY ONLY <1>1, <2>2, <2>4, <2>8
    <3> HIDE DEF whole
    <3> QED
      BY ONLY <3>1, <3>2
  <2> HIDE DEF whole
  <2>10. \A i \in 1..n : whole[i] = target[i]
    <3> SUFFICES ASSUME NEW i \in 1..n PROVE whole[i] = target[i]
      OBVIOUS
    <3>1. CASE i < cut
      <4>1. i \in 1..(cut - 1) /\ i <= cut
        BY ONLY <1>1, <2>2, <3>1
      <4> QED
        BY ONLY <2>3, <2>8, <2>9, <4>1
    <3>2. CASE i = cut
      <4>1. i <= cut
        BY ONLY <1>1, <3>2
      <4> QED
        BY ONLY <2>2, <2>8, <2>9, <3>2, <4>1
    <3>3. CASE i > cut
      <4>1. ~(i <= cut) /\ i - cut \in 1..(n - cut) /\ cut + (i - cut) = i
        BY ONLY <1>1, <2>2, <3>3
      <4> QED
        BY ONLY <2>4, <2>9, <4>1
    <3> QED
      BY ONLY <1>1, <2>2, <3>1, <3>2, <3>3
  <2>11. whole = target
    BY <2>9, <2>10, SeqEqual DEF n
  <2>12. Query # <<>> /\ Query[1] = after
    BY <2>1
  <2> QED
    BY ONLY <2>1, <2>5, <2>7, <2>11, <2>12 DEF whole
<1> QED
  BY <1>2, <1>3

-------------------------------------------------------------------------------
\* Fields and their names.

\* Request::header finds the first field of the name, if there is one.
LEMMA HeaderPlace ==
    ASSUME headers \in Seq(Fields), NEW name
    PROVE  /\ Header(name) \in 0..Len(headers)
           /\ Header(name) > 0 => /\ Header(name) \in 1..Len(headers)
                                  /\ SameName(headers[Header(name)].name, name)
           /\ ~(Header(name) > 0) => \A i \in 1..Len(headers) : ~SameName(headers[i].name, name)
<1> DEFINE places == {i \in 1..Len(headers) : SameName(headers[i].name, name)}
           k == Header(name)
           n == Len(headers)
<1>1. k = IF places # {} THEN Min(places) ELSE 0
  BY DEF Header, SelectInSeq
<1>2. n \in Nat
  OBVIOUS
<1>3. places \in SUBSET (1..n)
  OBVIOUS
<1>4. \A i \in 1..n : i \in places <=> SameName(headers[i].name, name)
  OBVIOUS
<1> HIDE DEF places, k, n
<1>5. CASE places = {}
  <2>1. k = 0
    BY <1>1, <1>5
  <2>2. k \in 0..n /\ ~(k > 0)
    BY ONLY <1>2, <2>1
  <2>3. \A i \in 1..n : ~SameName(headers[i].name, name)
    BY <1>4, <1>5
  <2> QED
    BY <2>2, <2>3 DEF k, n
<1>6. CASE places # {}
  <2>1. k \in places
    BY <1>1, <1>2, <1>3, <1>6, MinPlace
  <2>2. k \in 1..n /\ SameName(headers[k].name, name)
    BY <1>3, <1>4, <2>1
  <2>3. k \in 0..n /\ k > 0
    BY ONLY <1>2, <2>2
  <2> QED
    BY <2>2, <2>3 DEF k, n
<1> QED
  BY <1>5, <1>6

\* The spellings that the program compares fold to the names it means.
LEMMA FoldedNames ==
    /\ Fold["content-length"] = "content-length" /\ Fold["Content-Length"] = "content-length"
    /\ Fold["connection"] = "connection"
BY MessageConstants

LEMMA SameWord ==
    ASSUME NEW S, NEW name \in Seq(S), NEW w
    PROVE  SameName(name, <<w>>) <=> Len(name) = 1 /\ Fold[name[1]] = Fold[w]
<1>1. Len(<<w>>) = 1 /\ <<w>>[1] = w /\ 1..1 = {1}
  OBVIOUS
<1> QED
  BY <1>1 DEF SameName

LEMMA FramingIsOurs ==
    ASSUME NEW f \in Fields
    PROVE  Framing(f.name) <=> Ours(f)
<1>1. f.name \in Text
  BY DEF Fields
<1>2. f.name \in Seq(DOMAIN Fold)
  BY <1>1 DEF Text
<1>3. SameName(f.name, <<"content-length">>) <=> Len(f.name) = 1
      /\ Fold[f.name[1]] = "content-length"
  BY <1>2, SameWord, FoldedNames
<1>4. SameName(f.name, <<"connection">>) <=> Len(f.name) = 1 /\ Fold[f.name[1]] = "connection"
  BY <1>2, SameWord, FoldedNames
<1> QED
  BY <1>3, <1>4 DEF Framing, Ours

\* The length that a request announces has a numeral, and so has every length.
LEMMA AnnouncedCounts == 0 \in Counts /\ Announced \in Counts /\ Bodies \subseteq Counts
<1>1. \A n \in Bodies \cup {0} : \E w \in DOMAIN Numbers : Numbers[w] = n
  BY MessageConstants
<1>2. 0 \in Counts /\ Bodies \subseteq Counts
  BY <1>1 DEF Counts
<1>3. Announced = 0 \/ \E w \in DOMAIN Numbers : Announced = Numbers[w]
  BY DEF Announced
<1> QED
  BY <1>2, <1>3 DEF Counts

\* A Request is announced the length that all its Content-Length fields agree on.
LEMMA AnnouncedAgrees ==
    ASSUME headers \in Seq(Fields)
    PROVE  LET lengths == {f.value : f \in {g \in ToSet(headers) : SameName(g.name,
         <<"Content-Length">>)}}
           IN  /\ lengths = {} => Announced = 0
               /\ \A w \in DOMAIN Numbers : lengths = {<<w>>} => Announced = Numbers[w]
<1> DEFINE lengths == {f.value : f \in {g \in ToSet(headers) : SameName(g.name,
     <<"Content-Length">>)}}
           k == Header(<<"content-length">>)
           n == Len(headers)
<1>1. \A i \in 1..n : headers[i] \in ToSet(headers) /\ headers[i].name \in Seq(DOMAIN Fold)
  <2>1. \A i \in 1..n : headers[i] \in Fields
    OBVIOUS
  <2>2. \A i \in 1..n : headers[i] \in ToSet(headers)
    BY DEF ToSet
  <2> QED
    BY <2>1, <2>2 DEF Fields, Text
<1>2. \A i \in 1..n : SameName(headers[i].name, <<"Content-Length">>)
                         <=> SameName(headers[i].name, <<"content-length">>)
  BY <1>1, SameWord, FoldedNames
<1>3. /\ k > 0 => k \in 1..n /\ SameName(headers[k].name, <<"content-length">>)
      /\ Announced = IF k > 0 /\ Len(headers[k].value) = 1 /\ headers[k].value[1] \in DOMAIN Numbers
                     THEN Numbers[headers[k].value[1]] ELSE 0
  BY HeaderPlace DEF Announced
<1>4. k > 0 => headers[k].value \in lengths
  BY <1>1, <1>2, <1>3
<1>5. ~(k > 0) => \A i \in 1..n : ~SameName(headers[i].name, <<"content-length">>)
  BY HeaderPlace
<1>6. \A g \in ToSet(headers) : \E i \in 1..n : g = headers[i]
  BY DEF ToSet
<1>7. ~(k > 0) => lengths = {}
  BY <1>2, <1>5, <1>6
<1> HIDE DEF lengths, k
<1>8. lengths = {} => Announced = 0
  BY <1>3, <1>4
<1>9. ASSUME NEW w \in DOMAIN Numbers, lengths = {<<w>>}
      PROVE  Announced = Numbers[w]
  <2>1. k > 0
    BY <1>7, <1>9
  <2>2. headers[k].value = <<w>>
    BY <1>4, <1>9, <2>1
  <2>3. Len(<<w>>) = 1 /\ <<w>>[1] = w
    OBVIOUS
  <2> QED
    BY <1>3, <1>9, <2>1, <2>2, <2>3
<1> QED
  BY <1>8, <1>9 DEF lengths

-------------------------------------------------------------------------------
\* What encode has written.

\* Before encode writes a line it has written no field.
LEMMA NothingWritten == ASSUME NEW fields PROVE Written(fields, 0, <<>>)
<1> DEFINE kept == [i \in 1..0 |-> fields[i]]
           P == {p \in 1..0 : ~Ours(fields[p])}
<1>1. Len(<<>>) = 0 /\ 1..0 = {} /\ P = {} /\ kept = <<>>
  OBVIOUS
<1>2. Selects(<<>>, fields, {})
  BY SelectsNone
<1>3. kept \in [1..Len(<<>>) -> ToSet(fields)]
  BY <1>1
<1>4. Selects(kept, fields, P)
  BY <1>1, <1>2
<1> HIDE DEF kept, P
<1> QED
  BY <1>1, <1>3, <1>4 DEF Written, P

\* A field that encode sets itself adds no line, any other its own.
LEMMA SkippedField ==
    ASSUME NEW fields, NEW m \in Nat, NEW lines, Written(fields, m, lines), Ours(fields[m + 1])
    PROVE  Written(fields, m + 1, lines)
<1>1. {p \in 1..(m + 1) : ~Ours(fields[p])} = {p \in 1..m : ~Ours(fields[p])}
  <2>1. \A p : p \in 1..(m + 1) <=> p \in 1..m \/ p = m + 1
    OBVIOUS
  <2> QED
    BY <2>1
<1> QED
  BY <1>1 DEF Written

LEMMA WrittenField ==
    ASSUME NEW fields \in Seq(Fields), NEW m \in Nat, m < Len(fields), NEW lines \in Seq(Text),
           Written(fields, m, lines), ~Ours(fields[m + 1]), Fits(fields[m + 1]),
           CRLF \notin ToSet(fields[m + 1].value)
    PROVE  Written(fields, m + 1, Append(lines, Line(fields[m + 1].name, fields[m + 1].value)))
<1> DEFINE f == fields[m + 1]
           n == Len(lines)
           line == Line(f.name, f.value)
           longer == Append(lines, line)
           P == {p \in 1..m : ~Ours(fields[p])}
           Q == {p \in 1..(m + 1) : ~Ours(fields[p])}
<1>1. m + 1 \in 1..Len(fields) /\ n \in Nat
  OBVIOUS
<1>2. f \in Fields /\ f \in ToSet(fields)
  BY <1>1 DEF ToSet
<1>3. f.name \in Text /\ f.value \in Text /\ ":" \in DOMAIN Fold /\ Blank \in DOMAIN Fold
  BY <1>2, MessageConstants DEF Fields
<1>4. Surrounds(f.value, Trim(f.value))
  BY <1>3, TrimSurrounds DEF Text
<1>5. line \in Text /\ Means(line, Field(f.name, Trim(f.value)))
  <2>1. Clean(f.name) /\ ":" \notin ToSet(f.name) /\ CRLF \notin ToSet(f.name)
    BY DEF Fits
  <2> QED
    BY <1>3, <1>4, <2>1, LineMeans DEF Text
<1>6. PICK kept \in [1..n -> ToSet(fields)] :
         /\ Selects(kept, fields, P)
         /\ \A i \in 1..n : Means(lines[i], Field(kept[i].name, Trim(kept[i].value)))
  BY DEF Written
<1> DEFINE more == kept \o <<f>>
<1>7. kept \in Seq(ToSet(fields)) /\ Len(kept) = n /\ <<f>> \in Seq(ToSet(fields)) /\ Len(<<f>>) = 1
      /\ <<f>>[1] = f
  BY <1>1, <1>2, <1>6
<1>8. Q = P \cup (m + 1)..(m + 1)
  <2>1. \A p : p \in 1..(m + 1) <=> p \in 1..m \/ p = m + 1
    OBVIOUS
  <2>2. \A p : p \in (m + 1)..(m + 1) <=> p = m + 1
    OBVIOUS
  <2> QED
    BY <2>1, <2>2
<1> HIDE DEF f, n, line
<1>9. Selects(more, fields, Q)
  <2>1. P \in SUBSET (1..m)
    OBVIOUS
  <2>2. \A i \in 1..Len(<<f>>) : fields[m + i] = <<f>>[i]
    BY <1>7 DEF f
  <2> HIDE DEF P, Q
  <2>3. Selects(more, fields, P \cup (m + 1)..(m + Len(<<f>>)))
    BY <1>6, <1>7, <2>1, <2>2, SelectsMore
  <2> QED
    BY <1>7, <1>8, <2>3
<1>10. /\ longer \in Seq(Text) /\ Len(longer) = n + 1 /\ longer[n + 1] = line
       /\ \A i \in 1..n : longer[i] = lines[i]
  BY ONLY <1>5, lines \in Seq(Text), AppendProperties DEF n
<1>11. /\ more \in Seq(ToSet(fields)) /\ Len(more) = n + 1 /\ more[n + 1] = f
       /\ \A i \in 1..n : more[i] = kept[i]
  <2>1. /\ more \in Seq(ToSet(fields)) /\ Len(more) = Len(kept) + Len(<<f>>)
        /\ \A i \in 1..(Len(kept) + Len(<<f>>)) :
              more[i] = IF i <= Len(kept) THEN kept[i] ELSE <<f>>[i - Len(kept)]
    BY ONLY <1>7, ConcatProperties
  <2>2. n + 1 \in 1..(n + 1) /\ ~(n + 1 <= n) /\ (n + 1) - n = 1
        /\ \A i \in 1..n : i \in 1..(n + 1) /\ i <= n
    BY ONLY <1>1
  <2> HIDE DEF more
  <2> QED
    BY ONLY <1>7, <2>1, <2>2
<1>12. more \in [1..Len(longer) -> ToSet(fields)]
  <2> HIDE DEF more, longer
  <2> QED
    BY ONLY <1>10, <1>11
<1> HIDE DEF more, longer, Q
<1>13. \A i \in 1..Len(longer) : Means(longer[i], Field(more[i].name, Trim(more[i].value)))
  <2> SUFFICES ASSUME NEW i \in 1..(n + 1)
               PROVE  Means(longer[i], Field(more[i].name, Trim(more[i].value)))
    BY <1>10
  <2>1. CASE i = n + 1
    BY ONLY <1>5, <1>10, <1>11, <2>1
  <2>2. CASE i # n + 1
    <3>1. i \in 1..n
      BY ONLY <1>1, <2>2
    <3> QED
      BY ONLY <1>6, <1>10, <1>11, <3>1
  <2> QED
    BY <2>1, <2>2
<1>14. Written(fields, m + 1, longer)
  BY ONLY <1>9, <1>12, <1>13 DEF Written, Q
<1> QED
  BY <1>14 DEF longer, line, f

\* A part of a text that has the words of another text, one by one.
LEMMA PartIs ==
    ASSUME NEW S, NEW text \in Seq(S), NEW part \in Seq(S), NEW at \in Nat,
           at + Len(part) <= Len(text), \A i \in 1..Len(part) : text[at + i] = part[i]
    PROVE  SubSeq(text, at + 1, at + Len(part)) = part
<1> DEFINE n == Len(part)
           whole == SubSeq(text, at + 1, at + n)
<1>1. n \in Nat /\ Len(text) \in Nat
  OBVIOUS
<1>2. at + 1 \in 1..(Len(text) + 1) /\ at + n \in 0..Len(text) /\ at + 1 <= (at + n) + 1
  BY ONLY <1>1, at \in Nat, at + n <= Len(text)
<1>3. whole \in Seq(S) /\ Len(whole) = (at + n) - (at + 1) + 1
      /\ \A i \in 1..((at + n) - (at + 1) + 1) : whole[i] = text[(at + 1) + i - 1]
  BY <1>2, PartProperties
<1> HIDE DEF whole
<1>4. (at + n) - (at + 1) + 1 = n /\ \A i \in 1..n : (at + 1) + i - 1 = at + i
  BY ONLY <1>1, at \in Nat
<1> HIDE DEF n
<1>5. Len(whole) = n /\ \A i \in 1..n : whole[i] = part[i]
  BY <1>3, <1>4 DEF n
<1>6. whole = part
  BY ONLY <1>3, <1>5, part \in Seq(S), SeqEqual DEF n
<1> QED
  BY <1>6 DEF whole, n

\* The lines of a head are texts.
LEMMA LinesType ==
    ASSUME NEW w, WireOK(w)
    PROVE  /\ Lines(w) \in Seq(Text) /\ Len(Lines(w)) = Len(w.ends) - 1
           /\ Len(w.ends) \in Nat \ {0}
<1>1. w.text \in Text /\ w.ends \in Seq(Nat) /\ w.ends # <<>>
  BY DEF WireOK
<1>2. Len(w.ends) \in Nat \ {0} /\ \A i \in 1..Len(w.ends) : w.ends[i] \in Nat
  BY <1>1
<1>3. \A i \in 1..(Len(w.ends) - 1) :
         /\ i + 1 \in 1..Len(w.ends) /\ i \in 1..Len(w.ends)
         /\ w.ends[i] + 1 \in Nat /\ w.ends[i + 1] - 1 \in Nat
         /\ w.ends[i] + 1 >= 1 /\ w.ends[i + 1] - 1 <= Len(w.text)
  BY <1>1, <1>2 DEF WireOK, Text
<1>4. \A i \in 1..(Len(w.ends) - 1) : SubSeq(w.text, w.ends[i] + 1, w.ends[i + 1] - 1) \in Text
  BY <1>1, <1>3 DEF Text
<1> QED
  BY <1>2, <1>4 DEF Lines

\* push_str of a line adds it to the lines, and changes no line before it.
LEMMA PushedLine ==
    ASSUME NEW w, WireOK(w), NEW line \in Text
    PROVE  /\ WireOK(PushLine(w, line))
           /\ Lines(PushLine(w, line)) = Append(Lines(w), line)
<1> DEFINE t == w.text
           e == w.ends
           n == Len(t)
           k == Len(line)
           m == Len(e)
           text == (t \o line) \o <<CRLF>>
           ends == Append(e, n + k + 1)
           S == DOMAIN Fold
           more == PushLine(w, line)
<1>1. /\ t \in Seq(S) /\ e \in Seq(Nat) /\ line \in Seq(S) /\ CRLF \in S
      /\ n \in Nat /\ k \in Nat /\ m \in Nat /\ m # 0
  <2>1. CRLF \in S
    BY MessageConstants
  <2> QED
    BY <2>1 DEF WireOK, Text
<1>2. /\ e[1] = 0 /\ e[m] = n
      /\ \A i \in 1..m : e[i] \in Nat /\ e[i] <= n
      /\ \A i \in 1..(m - 1) : e[i] < e[i + 1]
      /\ \A i \in 2..m : t[e[i]] = CRLF
  BY <1>1 DEF WireOK, Ended
<1>3. more.text = text /\ more.ends = ends /\ more = [text |-> text, ends |-> ends]
  BY DEF PushLine
<1> HIDE DEF t, e, n, k, m, more, S
<1>4. /\ text \in Seq(S) /\ Len(text) = n + k + 1 /\ text[n + k + 1] = CRLF
      /\ \A i \in 1..n : text[i] = t[i]
      /\ \A i \in 1..k : text[n + i] = line[i]
  <2> DEFINE start == t \o line
  <2>1. /\ start \in Seq(S) /\ Len(start) = n + k
        /\ \A i \in 1..(n + k) : start[i] = IF i <= n THEN t[i] ELSE line[i - n]
    BY ONLY <1>1, ConcatProperties DEF n, k
  <2> HIDE DEF start
  <2>2. /\ start \o <<CRLF>> \in Seq(S) /\ Len(start \o <<CRLF>>) = (n + k) + 1
        /\ \A i \in 1..((n + k) + 1) :
              (start \o <<CRLF>>)[i] = IF i <= n + k THEN start[i] ELSE <<CRLF>>[i - (n + k)]
    <3>1. <<CRLF>> \in Seq(S) /\ Len(<<CRLF>>) = 1
      BY <1>1
    <3> QED
      BY ONLY <2>1, <3>1, ConcatProperties
  <2>3. text = start \o <<CRLF>>
    BY DEF start
  <2> HIDE DEF text
  <2>4. /\ n + k + 1 \in 1..((n + k) + 1) /\ ~(n + k + 1 <= n + k) /\ (n + k + 1) - (n + k) = 1
        /\ \A i \in 1..n : i \in 1..((n + k) + 1) /\ i <= n + k /\ i \in 1..(n + k) /\ i <= n
        /\ \A i \in 1..k : /\ n + i \in 1..((n + k) + 1) /\ n + i <= n + k /\ n + i \in 1..(n + k)
                           /\ ~(n + i <= n) /\ (n + i) - n = i
    BY ONLY <1>1
  <2>5. <<CRLF>>[1] = CRLF
    OBVIOUS
  <2> QED
    BY ONLY <2>1, <2>2, <2>3, <2>4, <2>5
<1>5. /\ ends \in Seq(Nat) /\ Len(ends) = m + 1 /\ ends[m + 1] = n + k + 1
      /\ \A i \in 1..m : ends[i] = e[i]
  <2>1. n + k + 1 \in Nat
    BY ONLY <1>1
  <2> QED
    BY ONLY <1>1, <2>1, AppendProperties DEF m
<1> HIDE DEF text, ends
<1>6. WireOK(more)
  <2>1. more \in [text : Text, ends : Seq(Nat)]
    BY <1>3, <1>4, <1>5 DEF Text, S
  <2>2. ends # <<>>
    BY <1>1, <1>5
  <2>3. ASSUME NEW i \in 1..m PROVE ends[i] < ends[i + 1]
    <3>1. CASE i = m
      BY ONLY <1>1, <1>2, <1>5, <2>3, <3>1
    <3>2. CASE i # m
      <4>1. i \in 1..(m - 1) /\ i + 1 \in 1..m
        BY ONLY <1>1, <2>3, <3>2
      <4> QED
        BY ONLY <1>2, <1>5, <2>3, <4>1
    <3> QED
      BY <3>1, <3>2
  <2>4. ASSUME NEW i \in 1..(m + 1) PROVE ends[i] <= Len(text)
    <3>1. CASE i = m + 1
      BY ONLY <1>1, <1>4, <1>5, <3>1
    <3>2. CASE i # m + 1
      <4>1. i \in 1..m
        BY ONLY <1>1, <2>4, <3>2
      <4>2. ends[i] \in Nat /\ ends[i] <= n
        BY ONLY <1>2, <1>5, <4>1
      <4> QED
        BY ONLY <1>1, <1>4, <4>2
    <3> QED
      BY <3>1, <3>2
  <2>5. ASSUME NEW i \in 2..(m + 1) PROVE text[ends[i]] = CRLF
    <3>1. CASE i = m + 1
      BY ONLY <1>4, <1>5, <3>1
    <3>2. CASE i # m + 1
      <4>1. i \in 2..m /\ i \in 1..m /\ i - 1 \in 1..(m - 1) /\ i - 1 \in 1..m /\ (i - 1) + 1 = i
        BY ONLY <1>1, <2>5, <3>2
      <4>2. e[i - 1] < e[i] /\ e[i - 1] \in Nat /\ e[i] \in Nat /\ e[i] <= n
        BY ONLY <1>2, <4>1
      <4>3. e[i] \in 1..n
        BY ONLY <1>1, <4>2
      <4> QED
        BY ONLY <1>2, <1>4, <1>5, <4>1, <4>3
    <3> QED
      BY <3>1, <3>2
  <2>6. ends[1] = 0 /\ ends[Len(ends)] = Len(text) /\ (m + 1) - 1 = m
    <3>1. 1 \in 1..m /\ (m + 1) - 1 = m
      BY ONLY <1>1
    <3> QED
      BY ONLY <1>2, <1>4, <1>5, <3>1
  <2> QED
    BY ONLY <1>3, <1>5, <2>1, <2>2, <2>3, <2>4, <2>5, <2>6 DEF WireOK, Ended
<1>7. Lines(more) = Append(Lines(w), line)
  <2> DEFINE old == Lines(w)
             new == Lines(more)
             longer == Append(old, line)
  <2>1. old \in Seq(Text) /\ Len(old) = m - 1
    BY LinesType DEF m, e
  <2>2. new \in Seq(Text) /\ Len(new) = m
    <3>1. new \in Seq(Text) /\ Len(new) = Len(ends) - 1
      BY <1>3, <1>6, LinesType
    <3> HIDE DEF new
    <3> QED
      BY ONLY <1>1, <1>5, <3>1
  <2>3. /\ longer \in Seq(Text) /\ Len(longer) = (m - 1) + 1 /\ longer[(m - 1) + 1] = line
        /\ \A i \in 1..(m - 1) : longer[i] = old[i]
    <3> HIDE DEF old
    <3> QED
      BY ONLY <2>1, line \in Text, AppendProperties
  <2>4. ASSUME NEW i \in 1..(m - 1) PROVE new[i] = old[i]
    <3>1. i \in 1..m /\ i + 1 \in 1..m
      BY ONLY <1>1, <2>4
    <3>2. e[i] \in Nat /\ e[i + 1] \in Nat /\ e[i] < e[i + 1] /\ e[i + 1] <= n
          /\ ends[i] = e[i] /\ ends[i + 1] = e[i + 1]
      BY ONLY <1>2, <1>5, <2>4, <3>1
    <3> DEFINE part == SubSeq(t, e[i] + 1, e[i + 1] - 1)
    <3>3. old[i] = part
      BY <2>4 DEF Lines, m, e, t
    <3>4. new[i] = SubSeq(text, e[i] + 1, e[i + 1] - 1)
      <4>1. i \in 1..(Len(more.ends) - 1)
        BY ONLY <1>1, <1>3, <1>5, <3>1
      <4>2. new[i] = SubSeq(more.text, more.ends[i] + 1, more.ends[i + 1] - 1)
        BY <4>1 DEF Lines
      <4> QED
        BY <1>3, <3>2, <4>2
    <3>5. /\ e[i] + 1 \in 1..(n + 1) /\ e[i + 1] - 1 \in 0..n /\ e[i] + 1 <= (e[i + 1] - 1) + 1
          /\ (e[i + 1] - 1) - (e[i] + 1) + 1 = e[i + 1] - 1 - e[i]
          /\ \A j \in 1..(e[i + 1] - 1 - e[i]) : (e[i] + 1) + j - 1 = e[i] + j /\ e[i] + j \in 1..n
          /\ e[i] + (e[i + 1] - 1 - e[i]) = e[i + 1] - 1
          /\ e[i + 1] - 1 <= n + k + 1
      <4> DEFINE a == e[i]
                 b == e[i + 1]
      <4>1. a \in Nat /\ b \in Nat /\ a < b /\ b <= n /\ n \in Nat /\ k \in Nat
        BY ONLY <1>1, <3>2
      <4> HIDE DEF a, b
      <4>2. /\ a + 1 \in 1..(n + 1) /\ b - 1 \in 0..n /\ a + 1 <= (b - 1) + 1
            /\ (b - 1) - (a + 1) + 1 = b - 1 - a /\ a + (b - 1 - a) = b - 1
            /\ b - 1 <= n + k + 1
        BY ONLY <4>1
      <4>3. \A j \in 1..(b - 1 - a) : (a + 1) + j - 1 = a + j /\ a + j \in 1..n
        BY ONLY <4>1
      <4> QED
        BY ONLY <4>2, <4>3 DEF a, b
    <3>6. /\ part \in Seq(S) /\ Len(part) = (e[i + 1] - 1) - (e[i] + 1) + 1
          /\ \A j \in 1..((e[i + 1] - 1) - (e[i] + 1) + 1) : part[j] = t[(e[i] + 1) + j - 1]
      <4> DEFINE first == e[i] + 1
                 last == e[i + 1] - 1
      <4>1. first \in 1..(Len(t) + 1) /\ last \in 0..Len(t) /\ first <= last + 1
        BY ONLY <3>5 DEF n
      <4>2. part = SubSeq(t, first, last)
        OBVIOUS
      <4> HIDE DEF first, last, part
      <4>3. /\ part \in Seq(S) /\ Len(part) = last - first + 1
            /\ \A j \in 1..(last - first + 1) : part[j] = t[first + j - 1]
        BY ONLY <1>1, <4>1, <4>2, PartProperties
      <4> QED
        BY ONLY <4>3 DEF first, last
    <3> HIDE DEF part
    <3>7. /\ Len(part) = e[i + 1] - 1 - e[i]
          /\ \A j \in 1..Len(part) : text[e[i] + j] = part[j]
          /\ e[i] + Len(part) = e[i + 1] - 1 /\ e[i] + Len(part) <= Len(text)
      BY ONLY <1>4, <3>5, <3>6
    <3>8. SubSeq(text, e[i] + 1, e[i] + Len(part)) = part
      BY ONLY <1>4, <3>2, <3>6, <3>7, PartIs
    <3> QED
      BY ONLY <3>3, <3>4, <3>7, <3>8
  <2>5. new[m] = line
    <3>1. m \in 1..m /\ (n + k + 1) - 1 = n + k
      BY ONLY <1>1
    <3>2. ends[m] = n /\ ends[m + 1] = n + k + 1
      BY ONLY <1>2, <1>5, <3>1
    <3>3. m \in 1..(Len(more.ends) - 1)
      BY ONLY <1>1, <1>3, <1>5
    <3>4. new[m] = SubSeq(more.text, more.ends[m] + 1, more.ends[m + 1] - 1)
      BY <3>3 DEF Lines
    <3>5. new[m] = SubSeq(text, n + 1, n + k)
      BY <1>3, <3>1, <3>2, <3>4
    <3>6. n + Len(line) <= Len(text)
      BY ONLY <1>1, <1>4 DEF k
    <3>7. \A i \in 1..Len(line) : text[n + i] = line[i]
      BY <1>4 DEF k
    <3>8. SubSeq(text, n + 1, n + Len(line)) = line
      BY ONLY <1>1, <1>4, <3>6, <3>7, PartIs
    <3> QED
      BY ONLY <3>5, <3>8 DEF k
  <2> HIDE DEF old, new, longer
  <2>6. (m - 1) + 1 = m /\ \A i \in 1..m : i \in 1..(m - 1) \/ i = m
    BY ONLY <1>1
  <2>7. \A i \in 1..m : new[i] = longer[i]
    BY ONLY <2>3, <2>4, <2>5, <2>6
  <2>8. new = longer
    BY ONLY <2>2, <2>3, <2>6, <2>7, SeqEqual
  <2> QED
    BY <2>8 DEF new, longer, old
<1> QED
  BY <1>6, <1>7 DEF more

LEMMA NoLineYet == WireOK(NoLine) /\ Lines(NoLine) = <<>>
<1>1. NoLine.text = <<>> /\ NoLine.ends = <<0>> /\ NoLine = [text |-> <<>>, ends |-> <<0>>]
  BY DEF NoLine
<1>2. Len(<<0>>) = 1 /\ <<0>>[1] = 0 /\ Len(<<>>) = 0 /\ <<0>> \in Seq(Nat) /\ <<>> \in Text
  BY DEF Text
<1>3. WireOK(NoLine)
  BY <1>1, <1>2 DEF WireOK, Ended
<1>4. Lines(NoLine) = <<>>
  BY <1>1, <1>2 DEF Lines
<1> QED
  BY <1>3, <1>4

-------------------------------------------------------------------------------
\* Types.

\* The lines of a head are texts, and only the first may be empty.
LEMMA HeadType ==
    ASSUME head \in Heads
    PROVE  /\ head \in Seq(Text) /\ Len(head) \in Nat \ {0}
           /\ \A i \in 1..Len(head) : head[i] \in Text /\ CRLF \notin ToSet(head[i])
           /\ \A i \in 2..Len(head) : head[i] # <<>>
<1>1. head # <<>> /\ head \in Seq(Text) /\ <<>> \notin ToSet(Tail(head))
  BY MessageConstants
<1> DEFINE tail == Tail(head)
           n == Len(head)
<1>2. n \in Nat /\ n # 0
  BY <1>1
<1>3. tail \in Seq(Text) /\ Len(tail) = n - 1 /\ \A i \in 1..(n - 1) : tail[i] = head[i + 1]
  BY <1>1
<1>4. \A i \in 1..Len(tail) : tail[i] # <<>>
  BY <1>1, <1>3, ElementsAt
<1> HIDE DEF tail, n
<1>5. \A i \in 2..n : i - 1 \in 1..(n - 1) /\ (i - 1) + 1 = i
  BY ONLY <1>2
<1>6. \A i \in 2..n : head[i] # <<>>
  BY ONLY <1>3, <1>4, <1>5
<1>7. \A i \in 1..Len(head) : CRLF \notin ToSet(head[i])
  <2>1. \A line \in ToSet(head) : CRLF \notin ToSet(line)
    BY MessageConstants
  <2>2. \A i \in 1..Len(head) : head[i] \in ToSet(head)
    BY DEF ToSet
  <2> QED
    BY ONLY <2>1, <2>2
<1> QED
  BY <1>1, <1>2, <1>6, <1>7 DEF n

LEMMA NewResponse ==
    ASSUME NEW status \in Statuses \cup {200, 400}
    PROVE  ResponseOK(New(status)) /\ New(status).fields = <<>>
<1>1. New(status) \in ResponseType
  BY AnnouncedCounts DEF New, ResponseType
<1>2. New(status).fields = <<>>
  BY DEF New
<1>3. \A i \in 1..Len(<<>>) : FALSE
  OBVIOUS
<1> QED
  BY <1>1, <1>2, <1>3 DEF ResponseOK

LEMMA AddedField ==
    ASSUME NEW r, ResponseOK(r), NEW name \in Text, NEW value \in Text,
           value \in Values \/ CRLF \notin ToSet(value)
    PROVE  ResponseOK(AddField(r, name, value))
<1> DEFINE added == Append(r.fields, Field(name, value))
           n == Len(r.fields)
           Kept(f) == f.value \in Values \/ CRLF \notin ToSet(f.value)
<1>1. r \in ResponseType /\ \A i \in 1..n : Kept(r.fields[i])
  BY DEF ResponseOK
<1>2. Field(name, value) \in Fields /\ Kept(Field(name, value))
  BY DEF Field, Fields
<1>3. r.fields \in Seq(Fields) /\ n \in Nat
  BY <1>1 DEF ResponseType
<1>4. /\ added \in Seq(Fields) /\ Len(added) = n + 1
      /\ \A i \in 1..n : added[i] = r.fields[i]
      /\ added[n + 1] = Field(name, value)
  BY ONLY <1>2, <1>3, AppendProperties
<1> HIDE DEF added, n, Kept
<1>5. AddField(r, name, value) = [r EXCEPT !.fields = added]
  BY DEF AddField, added
<1>6. /\ [r EXCEPT !.fields = added] \in ResponseType
      /\ [r EXCEPT !.fields = added].fields = added
  BY ONLY <1>1, <1>4 DEF ResponseType
<1>7. \A i \in 1..(n + 1) : Kept(added[i])
  <2> SUFFICES ASSUME NEW i \in 1..(n + 1) PROVE Kept(added[i])
    OBVIOUS
  <2>1. CASE i = n + 1
    BY <2>1, <1>2, <1>4
  <2>2. CASE i # n + 1
    <3>1. i \in 1..n
      BY ONLY <1>3, <2>2
    <3> QED
      BY ONLY <1>1, <1>4, <3>1
  <2> QED
    BY <2>1, <2>2
<1> QED
  BY ONLY <1>4, <1>5, <1>6, <1>7 DEF ResponseOK, Kept

LEMMA TypedResponse ==
    ASSUME NEW r, ResponseOK(r), NEW type \in Text, CRLF \notin ToSet(type), NEW size \in Counts
    PROVE  ResponseOK(WithType(r, type, size))
<1> DEFINE added == AddField(r, <<"Content-Type">>, type)
<1>1. <<"Content-Type">> \in Text
  BY MessageConstants DEF Text
<1>2. ResponseOK(added)
  BY <1>1, AddedField
<1>3. WithType(r, type, size) = [added EXCEPT !.body = size]
  BY DEF WithType
<1> HIDE DEF added
<1>4. /\ [added EXCEPT !.body = size].fields = added.fields
      /\ [added EXCEPT !.body = size] \in ResponseType
  BY <1>2 DEF ResponseOK, ResponseType
<1> QED
  BY ONLY <1>2, <1>3, <1>4 DEF ResponseOK

\* The types that the program gives are one word each.
LEMMA OneWord ==
    ASSUME NEW w \in {"text/plain", "text/html", "application/json"}
    PROVE  <<w>> \in Text /\ CRLF \notin ToSet(<<w>>)
<1>1. w \in DOMAIN Fold
  BY MessageConstants
<1>2. w # CRLF
  BY DEF CRLF
<1>3. ToSet(<<w>>) = {w}
  BY DEF ToSet
<1> QED
  BY <1>1, <1>2, <1>3 DEF Text

LEMMA MessageTypeInit == MessageInit => MessageTypeOK
<1> SUFFICES ASSUME MessageInit PROVE MessageTypeOK
  OBVIOUS
<1>1. head \in Heads /\ stage = "parse" /\ next = 1 /\ target = <<>> /\ headers = <<>>
      /\ length = 0 /\ response = New(200) /\ wire = NoLine
  BY DEF MessageInit
<1>2. ResponseOK(New(200))
  BY NewResponse
<1>3. <<>> \in Text /\ <<>> \in Seq(Fields) /\ Len(<<>>) = 0 /\ 1 \in Nat \ {0}
  BY DEF Text
<1> QED
  BY <1>1, <1>2, <1>3, AnnouncedCounts, NoLineYet DEF MessageTypeOK

\* A line that is answered with a 400.
LEMMA MalformedType == MessageTypeOK /\ Malformed => MessageTypeOK'
<1> SUFFICES ASSUME MessageTypeOK, Malformed PROVE MessageTypeOK'
  OBVIOUS
<1>1. ResponseOK(New(400))
  BY NewResponse
<1>2. <<"text/plain">> \in Text /\ CRLF \notin ToSet(<<"text/plain">>) /\ BadRequest \in Counts
  BY MessageConstants, AnnouncedCounts, OneWord
<1>3. ResponseOK(WithType(New(400), <<"text/plain">>, BadRequest))
  BY <1>1, <1>2, TypedResponse
<1>4. /\ stage' = "encode" /\ next' = 1
      /\ response' = WithType(New(400), <<"text/plain">>, BadRequest)
      /\ head' = head /\ target' = target /\ headers' = headers /\ length' = length /\ wire' = wire
  BY DEF Malformed, request
<1>5. 1 \in Nat \ {0}
  OBVIOUS
<1> QED
  BY <1>3, <1>4, <1>5 DEF MessageTypeOK

\* A handler's call of a method of Response.
LEMMA BuildsType ==
    ASSUME MessageTypeOK, NEW r, Builds(r), ResponseOK(r)
    PROVE  MessageTypeOK'
<1>1. response' = r /\ head' = head /\ stage' = stage /\ next' = next /\ target' = target
      /\ headers' = headers /\ length' = length /\ wire' = wire
  BY DEF Builds, request
<1>2. ResponseOK(response')
  BY <1>1
<1> QED
  BY <1>1, <1>2 DEF MessageTypeOK

LEMMA MessageTypeStep == MessageTypeOK /\ [MessageNext]_messageVars => MessageTypeOK'
<1> SUFFICES ASSUME MessageTypeOK, [MessageNext]_messageVars PROVE MessageTypeOK'
  OBVIOUS
<1>1. /\ head \in Heads /\ next \in Nat \ {0} /\ target \in Text /\ headers \in Seq(Fields)
      /\ length \in Counts /\ ResponseOK(response) /\ WireOK(wire)
      /\ stage \in {"parse", "handle", "encode", "sent"}
      /\ \A i \in 1..Len(headers) : CRLF \notin ToSet(headers[i].value)
  BY DEF MessageTypeOK
<1>2. \A i \in 1..Len(head) : head[i] \in Text /\ CRLF \notin ToSet(head[i])
  BY <1>1, HeadType
<1>3. next + 1 \in Nat \ {0} /\ 1 \in Nat \ {0} /\ 2 \in Nat \ {0}
  BY <1>1
<1>4. CASE RequestLine
  <2>1. CASE Malformed
    BY <2>1, MalformedType
  <2>2. CASE ~Malformed
    <3> DEFINE line == head[1]
               blanks == {i \in 1..Len(line) : line[i] = Blank}
               first == Min(blanks)
               second == Min(blanks \ {first})
    <3>1. /\ Cardinality(blanks) >= 2
          /\ target' = SubSeq(line, first + 1, second - 1)
          /\ next' = 2 /\ head' = head /\ stage' = stage /\ headers' = headers /\ length' = length
          /\ response' = response /\ wire' = wire
      BY <1>4, <2>2 DEF RequestLine
    <3>2. line \in Seq(DOMAIN Fold)
      <4>1. 1 \in 1..Len(head)
        BY <1>1, HeadType
      <4> QED
        BY <1>2, <4>1 DEF Text
    <3>3. SubSeq(line, first + 1, second - 1) \in Seq(DOMAIN Fold)
      BY <3>1, <3>2, NoBlankBetween
    <3> HIDE DEF line, blanks, first, second
    <3>4. target' \in Text
      BY <3>1, <3>3 DEF Text
    <3> QED
      BY <1>1, <1>3, <3>1, <3>4 DEF MessageTypeOK
  <2> QED
    BY <2>1, <2>2
<1>5. CASE FieldLine
  <2>1. CASE Malformed
    BY <2>1, MalformedType
  <2>2. CASE ~Malformed
    <3> DEFINE line == head[next]
               f == Field(Trim(Before(line, ":")), Trim(After(line, ":")))
    <3>1. /\ next \in 2..Len(head) /\ (line = <<>> \/ Splits(line, ":"))
          /\ headers' = IF line = <<>> THEN headers ELSE Append(headers, f)
          /\ next' = next + 1 /\ head' = head /\ stage' = stage /\ target' = target
          /\ length' = length
          /\ response' = response /\ wire' = wire
      BY <1>5, <2>2 DEF FieldLine
    <3>2. line \in Seq(DOMAIN Fold) /\ CRLF \notin ToSet(line)
      <4>1. next \in 1..Len(head)
        BY <1>1, <3>1, HeadType
      <4> QED
        BY <1>2, <4>1 DEF Text
    <3>3. Splits(line, ":") => f \in Fields /\ CRLF \notin ToSet(f.value)
      BY <3>2, FieldLineMeans DEF Fields, Field, Text
    <3> HIDE DEF line, f
    <3>4. headers' \in Seq(Fields) /\ \A i \in 1..Len(headers') : CRLF \notin ToSet(headers'[i].value)
      BY <1>1, <3>1, <3>3
    <3> QED
      BY <1>1, <1>3, <3>1, <3>4 DEF MessageTypeOK
  <2> QED
    BY <2>1, <2>2
<1>6. CASE HeadParsed
  <2>1. /\ length' = Announced /\ stage' = "handle" /\ next' = 1 /\ head' = head /\ target' = target
        /\ headers' = headers /\ response' = response /\ wire' = wire
    BY <1>6 DEF HeadParsed
  <2>2. length' \in Counts
    BY <2>1, AnnouncedCounts
  <2> QED
    BY <1>1, <1>3, <2>1, <2>2 DEF MessageTypeOK
<1>7. CASE Status
  <2>1. PICK status \in Statuses : Builds([response EXCEPT !.status = status])
    BY <1>7 DEF Status
  <2>2. ResponseOK([response EXCEPT !.status = status])
    BY <1>1 DEF ResponseOK, ResponseType
  <2> QED
    BY <2>1, <2>2, BuildsType
<1>8. CASE AddHeader
  <2>1. PICK name \in Names, value \in Values : Builds(AddField(response, name, value))
    BY <1>8 DEF AddHeader
  <2>2. name \in Text /\ value \in Text
    BY MessageConstants
  <2> QED
    BY <1>1, <2>1, <2>2, AddedField, BuildsType
<1>9. CASE CopyHeader
  <2>1. PICK name \in Names : /\ Header(name) > 0
                              /\ Builds(AddField(response, name, headers[Header(name)].value))
    BY <1>9 DEF CopyHeader
  <2>2. name \in Text
    BY MessageConstants
  <2>3. Header(name) \in 1..Len(headers)
    BY <1>1, <2>1, HeaderPlace
  <2> DEFINE k == Header(name)
  <2> HIDE DEF k
  <2>4. headers[k] \in Fields
    BY <1>1, <2>3 DEF k
  <2>5. headers[k].value \in Text /\ CRLF \notin ToSet(headers[k].value)
    BY <1>1, <2>3, <2>4 DEF Fields, k
  <2> QED
    BY <1>1, <2>1, <2>2, <2>5, AddedField, BuildsType DEF k
<1>10. CASE CopyBody
  <2>1. Builds([response EXCEPT !.body = length])
    BY <1>10 DEF CopyBody
  <2>2. ResponseOK([response EXCEPT !.body = length])
    BY <1>1 DEF ResponseOK, ResponseType
  <2> QED
    BY <2>1, <2>2, BuildsType
<1>11. CASE Body
  <2>1. PICK size \in Bodies : Builds([response EXCEPT !.body = size])
    BY <1>11 DEF Body
  <2>2. ResponseOK([response EXCEPT !.body = size])
    BY <1>1, AnnouncedCounts DEF ResponseOK, ResponseType
  <2> QED
    BY <2>1, <2>2, BuildsType
<1>12. CASE Typed
  <2>1. PICK type \in {"text/plain", "text/html", "application/json"}, size \in Bodies :
           Builds(WithType(response, <<type>>, size))
    BY <1>12 DEF Typed
  <2>2. <<type>> \in Text /\ CRLF \notin ToSet(<<type>>)
    BY OneWord
  <2>3. size \in Counts
    BY AnnouncedCounts
  <2> QED
    BY <1>1, <2>1, <2>2, <2>3, TypedResponse, BuildsType
<1>13. CASE Return
  BY <1>1, <1>13 DEF Return, request, MessageTypeOK
<1>14. CASE EncodeField
  <2> DEFINE f == response.fields[next]
  <2>1. /\ next <= Len(response.fields)
        /\ wire' = IF Framing(f.name) THEN wire ELSE PushLine(wire, Line(f.name, f.value))
        /\ next' = next + 1 /\ head' = head /\ stage' = stage /\ target' = target
        /\ headers' = headers
        /\ length' = length /\ response' = response
    BY <1>14 DEF EncodeField, request
  <2>2. f \in Fields
    <3>1. response.fields \in Seq(Fields) /\ next \in 1..Len(response.fields)
      BY <1>1, <2>1 DEF ResponseOK, ResponseType
    <3> QED
      BY <3>1
  <2> HIDE DEF f
  <2>3. Line(f.name, f.value) \in Text
    BY <2>2, MessageConstants DEF Line, Fields, Text
  <2>4. WireOK(wire')
    BY <1>1, <2>1, <2>3, PushedLine
  <2> QED
    BY <1>1, <1>3, <2>1, <2>4 DEF MessageTypeOK
<1>15. CASE EncodeEnd
  <2> DEFINE first == Line(<<"Content-Length">>, <<Numeral(response.body)>>)
             second == Line(<<"Connection">>, <<"close">>)
             announced == PushLine(wire, first)
             closing == PushLine(announced, second)
  <2>1. /\ wire' = PushLine(closing, <<>>) /\ stage' = "sent" /\ next' = next /\ head' = head
        /\ target' = target
        /\ headers' = headers /\ length' = length /\ response' = response
    BY <1>15 DEF EncodeEnd, request
  <2>2. Numeral(response.body) \in DOMAIN Numbers
    BY <1>1 DEF ResponseOK, ResponseType, Counts, Numeral
  <2>3. <<Numeral(response.body)>> \in Text /\ <<"Content-Length">> \in Text
        /\ <<"Connection">> \in Text /\ <<"close">> \in Text /\ <<>> \in Text
    BY <2>2, MessageConstants DEF Text
  <2>4. \A name, value \in Text : Line(name, value) \in Text
    BY MessageConstants DEF Line, Text
  <2>5. first \in Text /\ second \in Text
    BY <2>3, <2>4
  <2> HIDE DEF first, second
  <2>6. WireOK(announced)
    BY <1>1, <2>5, PushedLine
  <2> HIDE DEF announced
  <2>7. WireOK(closing)
    BY <2>5, <2>6, PushedLine
  <2> HIDE DEF closing
  <2>8. WireOK(wire')
    BY <2>1, <2>3, <2>7, PushedLine
  <2> QED
    BY <1>1, <2>1, <2>8 DEF MessageTypeOK
<1>16. CASE UNCHANGED messageVars
  BY <1>16 DEF messageVars, request, MessageTypeOK
<1> QED
  BY <1>4, <1>5, <1>6, <1>7, <1>8, <1>9, <1>10, <1>11, <1>12, <1>13, <1>14, <1>15, <1>16
     DEF MessageNext

-------------------------------------------------------------------------------
\* Every step keeps what the request and the written lines are.

\* The announced length is read off the fields alone.
LEMMA AnnouncedKept == headers' = headers => Announced' = Announced
<1> SUFFICES ASSUME headers' = headers PROVE Announced' = Announced
  OBVIOUS
<1> DEFINE k == Header(<<"content-length">>)
<1>1. k' = k
  BY DEF Header, SelectInSeq
<1> HIDE DEF k
<1>2. Announced = IF k > 0 /\ Len(headers[k].value) = 1 /\ headers[k].value[1] \in DOMAIN Numbers
                  THEN Numbers[headers[k].value[1]] ELSE 0
  BY DEF Announced, k
<1>3. Announced' = IF k' > 0 /\ Len(headers'[k'].value) = 1
      /\ headers'[k'].value[1] \in DOMAIN Numbers
                   THEN Numbers[headers'[k'].value[1]] ELSE 0
  BY DEF Announced, k
<1> QED
  BY <1>1, <1>2, <1>3

\* The steps that leave the request alone, and those that leave the response alone.
LEMMA ParsingKept ==
    ASSUME MessageTypeOK, Parsing, head' = head, target' = target, headers' = headers,
           length' = length,
           stage' # "parse", stage' = "handle" => stage = "handle"
    PROVE  Parsing'
<1>1. Blank \notin ToSet(target')
  BY DEF Parsing
<1>2. stage' = "handle" => (HeadersMean(Len(head) - 1))' /\ length' = Announced'
  BY AnnouncedKept DEF Parsing, HeadersMean
<1> QED
  BY <1>1, <1>2 DEF Parsing

LEMMA ParsingStep == MessageTypeOK /\ Parsing /\ [MessageNext]_messageVars => Parsing'
<1> SUFFICES ASSUME MessageTypeOK, Parsing, [MessageNext]_messageVars PROVE Parsing'
  OBVIOUS
<1>1. /\ head \in Heads /\ next \in Nat \ {0} /\ target \in Text /\ headers \in Seq(Fields)
  BY DEF MessageTypeOK
<1>2. /\ Len(head) \in Nat \ {0}
      /\ \A i \in 1..Len(head) : head[i] \in Text /\ CRLF \notin ToSet(head[i])
      /\ \A i \in 2..Len(head) : head[i] # <<>>
  BY <1>1, HeadType
<1>3. Malformed => Parsing'
  <2> SUFFICES ASSUME Malformed PROVE Parsing'
    OBVIOUS
  <2>1. stage' = "encode" /\ head' = head /\ target' = target /\ headers' = headers
        /\ length' = length
    BY DEF Malformed, request
  <2> QED
    BY <2>1, ParsingKept
<1>4. CASE RequestLine
  <2>1. CASE Malformed
    BY <2>1, <1>3
  <2>2. CASE ~Malformed
    <3> DEFINE line == head[1]
               blanks == {i \in 1..Len(line) : line[i] = Blank}
               first == Min(blanks)
               second == Min(blanks \ {first})
    <3>1. /\ stage = "parse" /\ next = 1
          /\ Cardinality(blanks) >= 2
          /\ target' = SubSeq(line, first + 1, second - 1)
          /\ next' = 2 /\ head' = head /\ stage' = stage /\ headers' = headers
      BY <1>4, <2>2 DEF RequestLine
    <3>2. line \in Seq(DOMAIN Fold)
      <4>1. 1 \in 1..Len(head)
        BY ONLY <1>2
      <4> QED
        BY <1>2, <4>1 DEF Text
    <3>3. Blank \notin ToSet(SubSeq(line, first + 1, second - 1))
      BY <3>1, <3>2, NoBlankBetween
    <3> HIDE DEF line, blanks, first, second
    <3>4. Blank \notin ToSet(target')
      BY <3>1, <3>3
    <3>5. HeadersMean(0)
      BY <3>1 DEF Parsing
    <3>6. (HeadersMean(0))' /\ next' \in 1..(Len(head') + 1)
      <4>1. (HeadersMean(0))'
        BY <3>1, <3>5 DEF HeadersMean
      <4>2. 2 \in 1..(Len(head) + 1)
        BY ONLY <1>2
      <4> QED
        BY <3>1, <4>1, <4>2
    <3>7. (IF next = 1 THEN 0 ELSE next - 2)' = 0
      BY <3>1
    <3>8. (HeadersMean(IF next = 1 THEN 0 ELSE next - 2))'
      BY <3>6, <3>7 DEF HeadersMean
    <3> QED
      BY ONLY <3>1, <3>4, <3>6, <3>8 DEF Parsing
  <2> QED
    BY <2>1, <2>2
<1>5. CASE FieldLine
  <2>1. CASE Malformed
    BY <2>1, <1>3
  <2>2. CASE ~Malformed
    <3> DEFINE line == head[next]
               f == Field(Trim(Before(line, ":")), Trim(After(line, ":")))
    <3>1. /\ stage = "parse" /\ next \in 2..Len(head) /\ (line = <<>> \/ Splits(line, ":"))
          /\ headers' = IF line = <<>> THEN headers ELSE Append(headers, f)
          /\ next' = next + 1 /\ head' = head /\ stage' = stage /\ target' = target
      BY <1>5, <2>2 DEF FieldLine
    <3>2. line \in Seq(DOMAIN Fold) /\ line # <<>> /\ CRLF \notin ToSet(line)
      <4>1. next \in 1..Len(head)
        BY ONLY <1>2, <3>1
      <4> QED
        BY <1>2, <3>1, <4>1 DEF Text
    <3>3. Means(line, f) /\ f \in Fields
      BY <3>1, <3>2, FieldLineMeans DEF Fields, Field, Text
    <3> HIDE DEF f
    <3>4. next # 1 /\ next - 2 \in Nat /\ (next - 2) + 1 = next - 1 /\ (next - 1) + 1 = next
      BY ONLY <1>2, <3>1
    <3>5. HeadersMean(next - 2)
      BY <3>1, <3>4 DEF Parsing
    <3> DEFINE k == next - 2
    <3>6. Len(headers) = k /\ \A i \in 1..k : Means(head[i + 1], headers[i])
      BY <3>5 DEF HeadersMean
    <3>7. /\ Len(headers') = k + 1 /\ headers'[k + 1] = f
          /\ \A i \in 1..k : headers'[i] = headers[i]
      <4>1. headers' = Append(headers, f)
        BY <3>1, <3>2
      <4> QED
        BY ONLY <1>1, <3>3, <3>6, <4>1, AppendProperties
    <3>8. \A i \in 1..(k + 1) : Means(head'[i + 1], headers'[i])
      <4> SUFFICES ASSUME NEW i \in 1..(k + 1) PROVE Means(head'[i + 1], headers'[i])
        OBVIOUS
      <4>1. CASE i = k + 1
        <5>1. i + 1 = next
          BY ONLY <3>4, <4>1
        <5> QED
          BY ONLY <3>1, <3>3, <3>7, <4>1, <5>1
      <4>2. CASE i # k + 1
        <5>1. i \in 1..k
          BY ONLY <3>4, <4>2
        <5> QED
          BY ONLY <3>1, <3>6, <3>7, <5>1
      <4> QED
        BY <4>1, <4>2
    <3>9. (IF next = 1 THEN 0 ELSE next - 2)' = k + 1
      <4>1. next + 1 # 1 /\ (next + 1) - 2 = k + 1
        BY ONLY <1>2, <3>1
      <4> HIDE DEF k
      <4> QED
        BY ONLY <3>1, <4>1
    <3>10. (HeadersMean(IF next = 1 THEN 0 ELSE next - 2))'
      <4> HIDE DEF k
      <4> QED
        BY ONLY <3>7, <3>8, <3>9 DEF HeadersMean
    <3>11. next' \in 1..(Len(head') + 1)
      <4>1. next + 1 \in 1..(Len(head) + 1)
        BY ONLY <1>2, <3>1
      <4> QED
        BY ONLY <3>1, <4>1
    <3>12. Blank \notin ToSet(target')
      BY <3>1 DEF Parsing
    <3> QED
      BY ONLY <3>1, <3>10, <3>11, <3>12 DEF Parsing
  <2> QED
    BY <2>1, <2>2
<1>6. CASE HeadParsed
  <2>1. /\ stage = "parse" /\ next > Len(head)
        /\ length' = Announced /\ stage' = "handle" /\ head' = head /\ target' = target
        /\ headers' = headers
    BY <1>6 DEF HeadParsed
  <2>2. /\ next \in 1..(Len(head) + 1) /\ HeadersMean(IF next = 1 THEN 0 ELSE next - 2)
        /\ Blank \notin ToSet(target)
    BY <2>1 DEF Parsing
  <2>3. next # 1 /\ next - 2 = Len(head) - 1
    BY ONLY <1>2, <2>1, <2>2
  <2>4. HeadersMean(Len(head) - 1)
    BY <2>2, <2>3
  <2>5. (HeadersMean(Len(head) - 1))'
    BY <2>1, <2>4 DEF HeadersMean
  <2>6. length' = Announced'
    BY <2>1, AnnouncedKept
  <2>7. Blank \notin ToSet(target')
    BY <2>1, <2>2
  <2> QED
    BY ONLY <2>1, <2>5, <2>6, <2>7 DEF Parsing
<1>7. ASSUME NEW r, Builds(r) PROVE Parsing'
  <2>1. stage' = "handle" /\ stage = "handle"
        /\ head' = head /\ target' = target /\ headers' = headers /\ length' = length
    BY <1>7 DEF Builds, request
  <2> QED
    BY <2>1, ParsingKept
<1>8. CASE Status
  BY <1>7, <1>8 DEF Status
<1>9. CASE AddHeader
  BY <1>7, <1>9 DEF AddHeader
<1>10. CASE CopyHeader
  BY <1>7, <1>10 DEF CopyHeader
<1>11. CASE CopyBody
  BY <1>7, <1>11 DEF CopyBody
<1>12. CASE Body
  BY <1>7, <1>12 DEF Body
<1>13. CASE Typed
  BY <1>7, <1>13 DEF Typed
<1>14. CASE Return
  <2>1. stage' = "encode" /\ head' = head /\ target' = target /\ headers' = headers
        /\ length' = length
    BY <1>14 DEF Return, request
  <2> QED
    BY <2>1, ParsingKept
<1>15. CASE EncodeField
  <2>1. stage' = "encode" /\ head' = head /\ target' = target /\ headers' = headers
        /\ length' = length
    BY <1>15 DEF EncodeField, request
  <2> QED
    BY <2>1, ParsingKept
<1>16. CASE EncodeEnd
  <2>1. stage' = "sent" /\ head' = head /\ target' = target /\ headers' = headers
        /\ length' = length
    BY <1>16 DEF EncodeEnd, request
  <2> QED
    BY <2>1, ParsingKept
<1>17. CASE UNCHANGED messageVars
  <2>1. UNCHANGED <<head, stage, next, target, headers, length>>
    BY <1>17 DEF messageVars, request
  <2> QED
    BY <2>1, AnnouncedKept DEF Parsing, HeadersMean
<1> QED
  BY <1>4, <1>5, <1>6, <1>8, <1>9, <1>10, <1>11, <1>12, <1>13, <1>14, <1>15, <1>16, <1>17
     DEF MessageNext

LEMMA EncodingStep == MessageTypeOK /\ Encoding /\ [MessageNext]_messageVars => Encoding'
<1> SUFFICES ASSUME MessageTypeOK, Encoding, [MessageNext]_messageVars PROVE Encoding'
  OBVIOUS
<1>1. /\ next \in Nat \ {0} /\ ResponseOK(response) /\ WireOK(wire)
  BY DEF MessageTypeOK
<1>2. response.fields \in Seq(Fields) /\ Len(response.fields) \in Nat
  BY <1>1 DEF ResponseOK, ResponseType
<1>3. ASSUME stage' = "encode", next' = 1, wire' = NoLine, response'.fields \in Seq(Fields)
      PROVE  Encoding'
  <2>1. Written(response'.fields, 0, <<>>)
    BY NothingWritten
  <2>2. 1 <= Len(response'.fields) + 1 /\ 1 - 1 = 0
    BY <1>3
  <2>3. Written(response'.fields, next' - 1, Lines(wire'))
    BY <1>3, <2>1, <2>2, NoLineYet
  <2> QED
    BY ONLY <1>3, <2>2, <2>3 DEF Encoding
<1>4. ASSUME Malformed, stage = "parse" PROVE Encoding'
  <2>1. stage' = "encode" /\ next' = 1 /\ wire' = wire
        /\ response' = WithType(New(400), <<"text/plain">>, BadRequest)
    BY <1>4 DEF Malformed
  <2>2. wire = NoLine
    BY <1>4 DEF Encoding
  <2>3. (MessageTypeOK)'
    BY <1>4, MalformedType
  <2>4. response'.fields \in Seq(Fields)
    BY <2>3 DEF MessageTypeOK, ResponseOK, ResponseType
  <2> QED
    BY <1>3, <2>1, <2>2, <2>4
<1>5. CASE RequestLine
  <2>1. CASE Malformed
    BY <1>4, <1>5, <2>1 DEF RequestLine
  <2>2. CASE ~Malformed
    <3>1. stage = "parse" /\ stage' = stage /\ wire' = wire
      BY <1>5, <2>2 DEF RequestLine
    <3> QED
      BY <3>1 DEF Encoding
  <2> QED
    BY <2>1, <2>2
<1>6. CASE FieldLine
  <2>1. CASE Malformed
    BY <1>4, <1>6, <2>1 DEF FieldLine
  <2>2. CASE ~Malformed
    <3>1. stage = "parse" /\ stage' = stage /\ wire' = wire
      BY <1>6, <2>2 DEF FieldLine
    <3> QED
      BY <3>1 DEF Encoding
  <2> QED
    BY <2>1, <2>2
<1>7. CASE HeadParsed
  <2>1. stage = "parse" /\ stage' = "handle" /\ next' = 1 /\ wire' = wire
    BY <1>7 DEF HeadParsed
  <2> QED
    BY <2>1 DEF Encoding
<1>8. ASSUME NEW r, Builds(r) PROVE Encoding'
  <2>1. stage = "handle" /\ stage' = stage /\ next' = next /\ wire' = wire
    BY <1>8 DEF Builds
  <2> QED
    BY <2>1 DEF Encoding
<1>9. CASE Status
  BY <1>8, <1>9 DEF Status
<1>10. CASE AddHeader
  BY <1>8, <1>10 DEF AddHeader
<1>11. CASE CopyHeader
  BY <1>8, <1>11 DEF CopyHeader
<1>12. CASE CopyBody
  BY <1>8, <1>12 DEF CopyBody
<1>13. CASE Body
  BY <1>8, <1>13 DEF Body
<1>14. CASE Typed
  BY <1>8, <1>14 DEF Typed
<1>15. CASE Return
  <2>1. stage = "handle" /\ stage' = "encode" /\ next' = next /\ wire' = wire
        /\ response' = response
    BY <1>15 DEF Return
  <2>2. next = 1 /\ wire = NoLine
    BY <2>1 DEF Encoding
  <2> QED
    BY <1>2, <1>3, <2>1, <2>2
<1>16. CASE EncodeField
  <2> DEFINE fields == response.fields
             f == fields[next]
             m == next - 1
  <2>1. /\ stage = "encode" /\ stage' = stage /\ next <= Len(fields)
        /\ wire' = IF Framing(f.name) THEN wire ELSE PushLine(wire, Line(f.name, f.value))
        /\ next' = next + 1 /\ response' = response
    BY <1>16 DEF EncodeField
  <2>2. m \in Nat /\ m + 1 = next /\ m < Len(fields) /\ next \in 1..Len(fields)
        /\ next + 1 <= Len(fields) + 1 /\ (next + 1) - 1 = m + 1
    BY ONLY <1>1, <1>2, <2>1
  <2>3. f \in Fields /\ (f.value \in Values \/ CRLF \notin ToSet(f.value))
    BY <1>1, <1>2, <2>2 DEF ResponseOK
  <2>4. Framing(f.name) <=> Ours(f)
    BY <2>3, FramingIsOurs
  <2>5. AllFit(response) => Written(fields, m, Lines(wire)) /\ Fits(f)
    BY <2>1, <2>2 DEF Encoding, AllFit
  <2>6. Lines(wire) \in Seq(Text) /\ (~Framing(f.name) => Lines(wire') = Append(Lines(wire), Line(f.name, f.value)))
    <3>1. Line(f.name, f.value) \in Text
      BY <2>3, MessageConstants DEF Line, Fields, Text
    <3> QED
      BY <1>1, <2>1, <3>1, LinesType, PushedLine
  <2>7. f = fields[m + 1]
    BY <2>2
  <2> HIDE DEF fields, f, m
  <2>8. ASSUME AllFit(response) PROVE Written(fields, m + 1, Lines(wire'))
    <3>1. Written(fields, m, Lines(wire)) /\ Fits(f)
      BY <2>5, <2>8
    <3>2. CASE Framing(f.name)
      <4>1. Ours(fields[m + 1])
        BY <2>4, <2>7, <3>2
      <4>2. Written(fields, m + 1, Lines(wire))
        BY <2>2, <3>1, <4>1, SkippedField
      <4> QED
        BY <2>1, <3>2, <4>2
    <3>3. CASE ~Framing(f.name)
      <4>1. ~Ours(fields[m + 1]) /\ Fits(fields[m + 1]) /\ CRLF \notin ToSet(fields[m + 1].value)
        BY <2>3, <2>4, <2>7, <3>1, <3>3 DEF Fits
      <4>2. fields \in Seq(Fields)
        BY <1>2 DEF fields
      <4>3. Written(fields, m + 1, Append(Lines(wire), Line(fields[m + 1].name, fields[m + 1].value)))
        BY <2>2, <2>6, <3>1, <4>1, <4>2, WrittenField
      <4> QED
        BY <2>6, <2>7, <3>3, <4>3
    <3> QED
      BY <3>2, <3>3
  <2>9. response'.fields = fields /\ response' = response
    BY <2>1 DEF fields
  <2>10. next' <= Len(response'.fields) + 1
         /\ (AllFit(response') => Written(response'.fields, next' - 1, Lines(wire')))
    BY ONLY <2>1, <2>2, <2>8, <2>9
  <2>11. stage' = "encode"
    BY <2>1
  <2> QED
    BY ONLY <2>10, <2>11 DEF Encoding
<1>17. CASE EncodeEnd
  <2>1. stage' = "sent"
    BY <1>17 DEF EncodeEnd
  <2> QED
    BY ONLY <2>1 DEF Encoding
<1>18. CASE UNCHANGED messageVars
  <2>1. UNCHANGED <<stage, next, response, wire>>
    BY <1>18 DEF messageVars
  <2> QED
    BY <2>1 DEF Encoding
<1> QED
  BY <1>5, <1>6, <1>7, <1>9, <1>10, <1>11, <1>12, <1>13, <1>14, <1>15, <1>16, <1>17, <1>18
     DEF MessageNext

\* The two lines that encode ends with.
LEMMA LastLines ==
    ASSUME NEW n \in Counts
    PROVE  /\ Numeral(n) \in DOMAIN Numbers /\ Numbers[Numeral(n)] = n
           /\ Line(<<"Content-Length">>, <<Numeral(n)>>) \in Text
           /\ Line(<<"Connection">>, <<"close">>) \in Text
           /\ Means(Line(<<"Content-Length">>, <<Numeral(n)>>),
                    Field(<<"Content-Length">>, <<Numeral(n)>>))
           /\ Means(Line(<<"Connection">>, <<"close">>), Field(<<"Connection">>, <<"close">>))
<1>1. Numeral(n) \in DOMAIN Numbers /\ Numbers[Numeral(n)] = n
  BY DEF Counts, Numeral
<1>2. DOMAIN Numbers \subseteq DOMAIN Fold \ {":", "?", Blank, CRLF}
  BY MessageConstants
<1>3. Numeral(n) \in DOMAIN Fold /\ Numeral(n) \notin {":", Blank, CRLF}
  BY <1>1, <1>2
<1>4. {":", Blank, "Content-Length", "Connection", "close"} \subseteq DOMAIN Fold
  BY MessageConstants
<1>5. \A w \in {"Content-Length", "Connection", "close"} : w \notin {":", Blank, CRLF}
  BY Zenon DEF Blank, CRLF
<1>6. ASSUME NEW w \in DOMAIN Fold, w \notin {":", Blank, CRLF}
      PROVE  /\ <<w>> \in Seq(DOMAIN Fold) /\ Clean(<<w>>) /\ Surrounds(<<w>>, <<w>>)
             /\ ":" \notin ToSet(<<w>>) /\ CRLF \notin ToSet(<<w>>)
  <2>1. <<w>> \in Seq(DOMAIN Fold) /\ Len(<<w>>) = 1 /\ <<w>>[1] = w /\ ToSet(<<w>>) = {w}
    BY <1>6 DEF ToSet
  <2>2. Clean(<<w>>)
    BY ONLY <1>6, <2>1 DEF Clean
  <2> QED
    BY <1>6, <2>1, <2>2, SurroundsItself
<1>7. ASSUME NEW v \in DOMAIN Fold, NEW w \in DOMAIN Fold,
             v \notin {":", Blank, CRLF}, w \notin {":", Blank, CRLF}
      PROVE  Line(<<v>>, <<w>>) \in Text /\ Means(Line(<<v>>, <<w>>), Field(<<v>>, <<w>>))
  BY <1>4, <1>6, <1>7, LineMeans DEF Text
<1>8. "Content-Length" \in DOMAIN Fold /\ "Connection" \in DOMAIN Fold /\ "close" \in DOMAIN Fold
  BY ONLY <1>4
<1> QED
  BY ONLY <1>1, <1>3, <1>5, <1>7, <1>8

\* What is in front of three more elements.
LEMMA ThreeMore ==
    ASSUME NEW S, NEW s \in Seq(S), NEW a \in S, NEW b \in S, NEW c \in S, NEW t,
           t = Append(Append(Append(s, a), b), c)
    PROVE  LET n == Len(t) - 3
           IN  n = Len(s) /\ SubSeq(t, 1, n) = s /\ t[n + 1] = a /\ t[n + 2] = b /\ t[n + 3] = c
<1> DEFINE m == Len(s)
           one == Append(s, a)
           two == Append(one, b)
<1>1. m \in Nat
  OBVIOUS
<1>2. /\ one \in Seq(S) /\ Len(one) = m + 1 /\ one[m + 1] = a
      /\ \A i \in 1..m : one[i] = s[i]
  BY ONLY s \in Seq(S), a \in S, AppendProperties DEF m
<1> HIDE DEF one
<1>3. /\ two \in Seq(S) /\ Len(two) = (m + 1) + 1 /\ two[(m + 1) + 1] = b
      /\ \A i \in 1..(m + 1) : two[i] = one[i]
  BY ONLY <1>2, b \in S, AppendProperties
<1>4. t = Append(two, c)
  BY DEF one
<1> HIDE DEF two
<1>5. /\ t \in Seq(S) /\ Len(t) = ((m + 1) + 1) + 1 /\ t[((m + 1) + 1) + 1] = c
      /\ \A i \in 1..((m + 1) + 1) : t[i] = two[i]
  BY ONLY <1>3, <1>4, c \in S, AppendProperties
<1>6. /\ Len(t) - 3 = m /\ (m + 1) + 1 = m + 2 /\ ((m + 1) + 1) + 1 = m + 3
      /\ m + 1 \in 1..(m + 1) /\ m + 1 \in 1..(m + 2) /\ m + 2 \in 1..(m + 2)
      /\ 0 + m = m /\ 0 + 1 = 1 /\ m <= Len(t)
      /\ \A i \in 1..m : i \in 1..(m + 1) /\ i \in 1..(m + 2) /\ 0 + i = i
  BY ONLY <1>1, <1>5
<1>7. t[m + 1] = a /\ t[m + 2] = b /\ t[m + 3] = c /\ \A i \in 1..m : t[i] = s[i]
  BY ONLY <1>2, <1>3, <1>5, <1>6
<1>8. SubSeq(t, 0 + 1, 0 + Len(s)) = s
  <2>1. 0 + Len(s) <= Len(t) /\ 0 \in Nat /\ \A i \in 1..Len(s) : t[0 + i] = s[i]
    BY ONLY <1>6, <1>7 DEF m
  <2> QED
    BY ONLY <1>5, <2>1, s \in Seq(S), PartIs
<1>9. SubSeq(t, 1, m) = s
  BY ONLY <1>6, <1>8 DEF m
<1> QED
  BY ONLY <1>6, <1>7, <1>9 DEF m

LEMMA FramedStep ==
    MessageTypeOK /\ Encoding /\ ResponseFramed /\ [MessageNext]_messageVars => ResponseFramed'
<1> SUFFICES ASSUME MessageTypeOK, Encoding, ResponseFramed, [MessageNext]_messageVars,
       stage' = "sent"
             PROVE  ResponseFramed'
  BY DEF ResponseFramed
<1>1. CASE EncodeEnd
  <2> DEFINE fields == response.fields
             first == Line(<<"Content-Length">>, <<Numeral(response.body)>>)
             second == Line(<<"Connection">>, <<"close">>)
             announced == PushLine(wire, first)
             closing == PushLine(announced, second)
  <2>1. /\ stage = "encode" /\ next > Len(fields) /\ response' = response
        /\ wire' = PushLine(closing, <<>>)
    BY <1>1 DEF EncodeEnd
  <2>2. /\ next \in Nat \ {0} /\ WireOK(wire) /\ fields \in Seq(Fields)
        /\ response.body \in Counts
    BY DEF MessageTypeOK, ResponseOK, ResponseType
  <2>3. next <= Len(fields) + 1 /\ (AllFit(response) => Written(fields, next - 1, Lines(wire)))
    BY <2>1 DEF Encoding
  <2>4. next - 1 = Len(fields)
    <3> HIDE DEF fields
    <3>1. next \in Nat /\ next > Len(fields) /\ next <= Len(fields) + 1 /\ Len(fields) \in Nat
      BY <2>1, <2>2, <2>3
    <3> QED
      BY ONLY <3>1
  <2>5. AllFit(response) => Written(fields, Len(fields), Lines(wire))
    BY ONLY <2>3, <2>4
  <2>6. first \in Text /\ second \in Text /\ <<>> \in Text
    BY <2>2, LastLines DEF Text
  <2>7. PICK w \in DOMAIN Numbers : /\ Numbers[w] = response.body
                                    /\ Means(first, Field(<<"Content-Length">>, <<w>>))
    BY <2>2, LastLines
  <2>8. Means(second, Field(<<"Connection">>, <<"close">>))
    BY <2>2, LastLines
  <2> HIDE DEF first, second
  <2>9. WireOK(announced) /\ Lines(announced) = Append(Lines(wire), first)
    BY <2>2, <2>6, PushedLine
  <2> HIDE DEF announced
  <2>10. WireOK(closing) /\ Lines(closing) = Append(Lines(announced), second)
    BY <2>6, <2>9, PushedLine
  <2> HIDE DEF closing
  <2>11. WireOK(wire') /\ Lines(wire') = Append(Lines(closing), <<>>)
    BY <2>1, <2>6, <2>10, PushedLine
  <2>12. Lines(wire') = Append(Append(Append(Lines(wire), first), second), <<>>)
    BY ONLY <2>9, <2>10, <2>11
  <2>13. Lines(wire) \in Seq(Text)
    BY <2>2, LinesType
  <2>14. LET k == Len(Lines(wire')) - 3
         IN  /\ SubSeq(Lines(wire'), 1, k) = Lines(wire)
             /\ Lines(wire')[k + 1] = first /\ Lines(wire')[k + 2] = second /\ Lines(wire')[k + 3] = <<>>
    BY ONLY <2>6, <2>12, <2>13, ThreeMore
  <2>15. Ended(wire')
    BY <2>11 DEF WireOK
  <2>16. response' = response
    BY <2>1
  <2> QED
    BY ONLY <2>5, <2>7, <2>8, <2>14, <2>15, <2>16 DEF ResponseFramed, fields
<1>2. CASE UNCHANGED messageVars
  <2>1. UNCHANGED <<stage, response, wire>>
    BY <1>2 DEF messageVars
  <2> QED
    BY <2>1 DEF ResponseFramed
<1>3. ASSUME ~EncodeEnd, MessageNext PROVE FALSE
  <2>1. stage' \in {stage, "encode", "handle"} /\ stage \in {"parse", "handle", "encode"}
    BY <1>3 DEF MessageNext, RequestLine, FieldLine, Malformed, HeadParsed, Status, AddHeader,
         CopyHeader,
                CopyBody, Body, Typed, Builds, Return, EncodeField
  <2> QED
    BY <2>1
<1> QED
  BY <1>1, <1>2, <1>3

LEMMA MessageInitInvariant == MessageInit => MessageIInv
<1> SUFFICES ASSUME MessageInit PROVE MessageIInv
  OBVIOUS
<1>1. MessageTypeOK
  BY MessageTypeInit
<1>2. stage = "parse" /\ next = 1 /\ headers = <<>> /\ target = <<>> /\ wire = NoLine
  BY DEF MessageInit
<1>3. Len(head) \in Nat
  BY <1>1, HeadType DEF MessageTypeOK
<1>4. Parsing
  <2>1. HeadersMean(0)
    BY <1>2 DEF HeadersMean
  <2>2. 1 \in 1..(Len(head) + 1)
    BY ONLY <1>3
  <2>3. Blank \notin ToSet(<<>>)
    BY DEF ToSet
  <2> QED
    BY <1>2, <2>1, <2>2, <2>3 DEF Parsing
<1>5. Encoding /\ ResponseFramed
  BY <1>2 DEF Encoding, ResponseFramed
<1> QED
  BY <1>1, <1>4, <1>5 DEF MessageIInv

LEMMA MessageNextInvariant == MessageIInv /\ [MessageNext]_messageVars => MessageIInv'
BY MessageTypeStep, ParsingStep, EncodingStep, FramedStep DEF MessageIInv

-------------------------------------------------------------------------------

\* The invariant behind the theorems below, for any heads of a client and any names,
\* values and bodies of a handler, also those that no line can hold (http.rs:131-186, 357-398).
THEOREM MessageInvariant == MessageSpec => []MessageIInv
BY MessageInitInvariant, MessageNextInvariant, PTL DEF MessageSpec

\* Every line on the wire is a text, and every length has a numeral, so Content-Length can
\* always be written (http.rs:178).
THEOREM MessageTypeCorrect == MessageSpec => []MessageTypeOK
<1>1. MessageIInv => MessageTypeOK
  BY DEF MessageIInv
<1> QED
  BY <1>1, MessageInvariant, PTL

\* The handler is given what the client's head means, whatever the client sends
\* (http.rs:74-91, 357-398).
THEOREM RequestReadHolds == MessageSpec => []RequestRead
<1>1. MessageIInv => RequestRead
  <2> SUFFICES ASSUME MessageTypeOK, Parsing, stage = "handle" PROVE RequestRead
    BY DEF MessageIInv, RequestRead
  <2>1. HeadersMean(Len(head) - 1) /\ length = Announced /\ Blank \notin ToSet(target)
    BY DEF Parsing
  <2>2. Len(headers) = Len(head) - 1 /\ \A i \in 1..Len(headers) : Means(head[i + 1], headers[i])
    BY <2>1 DEF HeadersMean
  <2>3. headers \in Seq(Fields) /\ target \in Seq(DOMAIN Fold)
    BY DEF MessageTypeOK, Text
  <2>4. /\ target = IF Query = <<>> THEN Path ELSE Path \o <<"?">> \o Query[1]
        /\ "?" \notin ToSet(Path)
    BY <2>3, TargetParts
  <2>5. LET lengths == {f.value : f \in {g \in ToSet(headers) : SameName(g.name,
       <<"Content-Length">>)}}
        IN  /\ lengths = {} => length = 0
            /\ \A w \in DOMAIN Numbers : lengths = {<<w>>} => length = Numbers[w]
    BY <2>1, <2>3, AnnouncedAgrees
  <2> QED
    BY ONLY <2>1, <2>2, <2>4, <2>5 DEF RequestRead
<1> QED
  BY <1>1, MessageInvariant, PTL

\* Whatever a handler builds, the head ends in the Content-Length of the body, a
\* Connection: close and an empty line; and if a line can hold each of its fields, the
\* client reads these before, in order, with no other field of the two names
\* (http.rs:100-101, 131-134, 165-186).
THEOREM ResponseFramedHolds == MessageSpec => []ResponseFramed
<1>1. MessageIInv => ResponseFramed
  BY DEF MessageIInv
<1> QED
  BY <1>1, MessageInvariant, PTL
===============================================================================
