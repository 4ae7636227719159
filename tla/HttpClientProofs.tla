---------------------------- MODULE HttpClientProofs ----------------------------
(***************************************************************************)
(* The safety of HttpClient for any clients, calls and bodies.             *)
(***************************************************************************)
EXTENDS HttpClient, TLAPS

\* What the tables say, and what a handle of the chain stands on.
LEMMA Tables ==
    /\ \A s \in Steps : /\ Following[s] \in Steps \cup {"ready"}
                        /\ Unwinds[s] \in Handles \cup {"none"}
                        /\ Following[s] = "ready" => s = "template"
                        /\ Following[s] # "ready" => Unwinds[Following[s]] = IF s = "net" THEN "none" ELSE s
                        /\ s # "net" => UpTo[s] = UpTo[Unwinds[s]] \cup {s}
    /\ \A h \in Handles : /\ NextTerm[h] \in Handles \cup {"none"}
                          /\ UpTo[NextTerm[h]] = UpTo[h] \ {h}
                          /\ h \in UpTo[h]
                          /\ UpTo[h] \subseteq Handles
    /\ \A h \in Handles \cup {"none"} : \A g \in UpTo[h] : Uses[g] \subseteq UpTo[h]
    /\ UpTo["none"] = {} /\ UpTo["template"] = Handles
    /\ Unwinds["net"] = "none"
<1>1. \A s \in Steps : /\ Following[s] \in Steps \cup {"ready"}
                       /\ Unwinds[s] \in Handles \cup {"none"}
                       /\ Following[s] = "ready" => s = "template"
                       /\ Following[s] # "ready" => Unwinds[Following[s]] = IF s = "net" THEN "none" ELSE s
  BY DEF Steps, Handles, Following, Unwinds
<1>2. \A s \in Steps : s # "net" => UpTo[s] = UpTo[Unwinds[s]] \cup {s}
  BY DEF Steps, Handles, Unwinds, UpTo
<1>3. \A h \in Handles : /\ NextTerm[h] \in Handles \cup {"none"}
                         /\ h \in UpTo[h]
                         /\ UpTo[h] \subseteq Handles
  BY DEF Handles, NextTerm, UpTo
<1>4. \A h \in Handles : UpTo[NextTerm[h]] = UpTo[h] \ {h}
  BY DEF Handles, NextTerm, UpTo
<1>5. \A h \in Handles \cup {"none"} : \A g \in UpTo[h] : Uses[g] \subseteq UpTo[h]
  BY DEF Handles, Uses, UpTo
<1>6. UpTo["none"] = {} /\ UpTo["template"] = Handles /\ Unwinds["net"] = "none"
  BY DEF UpTo, Unwinds
<1> QED
  BY <1>1, <1>2, <1>3, <1>4, <1>5, <1>6

\* The stages that are a step of new are no other stage.
LEMMA Stages ==
    /\ \A s \in Steps : s \notin {"none", "ready", "unwinding", "err", "dropping", "gone"}
    /\ "net" \in Steps /\ "template" \in Handles
BY DEF Steps, Handles

\* A buffer that has the first m bytes has the first m + n after the next n.
LEMMA BytesExtend ==
    ASSUME NEW m \in Nat, NEW n \in Nat
    PROVE  [i \in 1..m |-> i] \o [i \in 1..n |-> m + i] = [i \in 1..(m + n) |-> i]
<1> DEFINE first == [i \in 1..m |-> i]
           rest == [i \in 1..n |-> m + i]
<1>1. first \in Seq(Nat) /\ rest \in Seq(Nat) /\ Len(first) = m /\ Len(rest) = n
  OBVIOUS
<1>2. DOMAIN (first \o rest) = 1..(m + n)
  BY <1>1
<1>3. \A i \in 1..(m + n) : (first \o rest)[i] = i
  BY <1>1
<1>4. first \o rest = [i \in 1..(m + n) |-> (first \o rest)[i]]
  BY <1>1, <1>2
<1> QED
  BY <1>3, <1>4

\* And every byte of it is in the body.
LEMMA BytesSeq ==
    ASSUME NEW m \in 0..MaxBody
    PROVE  [i \in 1..m |-> i] \in Seq(0..MaxBody)
BY ConstantsType

LEMMA InitInvariant == Init => IInv
<1> SUFFICES ASSUME Init PROVE IInv
  OBVIOUS
<1>1. <<>> = [i \in 1..0 |-> i]
  OBVIOUS
<1>2. \A r \in Calls : BodySoFar(r)
  BY <1>1 DEF Init, BodySoFar
<1> QED
  BY <1>2, ConstantsType DEF Init, IInv, TypeOK, Chain, Progress, Steps, Handles, Outcome

\* A step of new or of a teardown leaves the other clients alone, and the client
\* it is about is borrowed by nobody.
LEMMA ClientKeeps ==
    ASSUME IInv, NEW c \in Clients, ClientStep(c)
    PROVE  IInv'
<1>1. TypeOK /\ (\A d \in Clients : Chain(d)) /\ (\A r \in Calls : Progress(r) /\ BodySoFar(r))
  BY DEF IInv
<1>2. /\ \A d \in Clients \ {c} : /\ stage'[d] = stage[d]
                                  /\ todo'[d] = todo[d]
                                  /\ live'[d] = live[d]
      /\ UNCHANGED callVars
  BY <1>1 DEF ClientStep, New, CreateNext, CreateFails, DropClient, Term, TornDown, TypeOK
<1>3. TypeOK' /\ Chain(c)'
  <2> USE DEF callVars
  <2>1. CASE New(c)
    <3>1. stage'[c] \in {"net", "err"} /\ UNCHANGED <<todo, live>>
      BY <1>1, <2>1 DEF New, TypeOK
    <3>2. live[c] = {} /\ todo[c] = "none"
      BY <1>1, <2>1 DEF New, Chain
    <3>3. TypeOK'
      BY <1>1, <2>1, Stages DEF New, TypeOK
    <3> QED
      BY <3>1, <3>2, <3>3, Tables, Stages DEF Chain
  <2>2. CASE CreateNext(c)
    <3>1. /\ stage' = [stage EXCEPT ![c] = Following[stage[c]]]
          /\ live' = [live EXCEPT ![c] = live[c] \cup ({stage[c]} \ {"net"})]
          /\ UNCHANGED <<todo, callVars>>
          /\ stage[c] \in Steps
          /\ live[c] = UpTo[Unwinds[stage[c]]] /\ todo[c] = "none"
      BY <1>1, <2>2 DEF CreateNext, Chain
    <3>2. live'[c] \subseteq Handles
      BY <1>1, <3>1 DEF TypeOK, Steps
    <3>3. TypeOK'
      BY <1>1, <3>1, <3>2, Tables DEF TypeOK
    <3>4. live'[c] = IF stage[c] = "net" THEN {} ELSE UpTo[stage[c]]
      BY <1>1, <3>1, Tables DEF TypeOK
    <3>5. stage'[c] = Following[stage[c]] /\ todo'[c] = "none"
      BY <1>1, <3>1 DEF TypeOK
    <3>6. CASE Following[stage[c]] = "ready"
      <4>1. stage[c] = "template" /\ stage'[c] = "ready"
        BY <3>1, <3>5, <3>6, Tables
      <4>2. live'[c] = Handles
        BY <3>4, <4>1, Tables
      <4> QED
        BY <3>3, <3>5, <4>1, <4>2, Stages DEF Chain
    <3>7. CASE Following[stage[c]] # "ready"
      <4>1. stage'[c] \in Steps /\ Unwinds[stage'[c]] = IF stage[c] = "net" THEN "none" ELSE stage[c]
        BY <3>1, <3>5, <3>7, Tables
      <4>2. live'[c] = UpTo[Unwinds[stage'[c]]]
        BY <3>4, <4>1, Tables
      <4> QED
        BY <3>3, <3>5, <4>1, <4>2, Stages DEF Chain
    <3> QED
      BY <3>6, <3>7
  <2>3. CASE CreateFails(c)
    <3>1. /\ stage[c] \in Steps
          /\ stage'[c] = "unwinding"
          /\ todo'[c] = Unwinds[stage[c]]
          /\ UNCHANGED live
      BY <1>1, <2>3 DEF CreateFails, TypeOK
    <3>2. live[c] = UpTo[Unwinds[stage[c]]]
      BY <1>1, <3>1 DEF Chain
    <3>3. TypeOK'
      BY <1>1, <2>3, <3>1, Tables DEF CreateFails, TypeOK
    <3> QED
      BY <3>1, <3>2, <3>3, Stages DEF Chain
  <2>4. CASE DropClient(c)
    <3>1. /\ stage[c] = "ready"
          /\ stage'[c] = "dropping"
          /\ todo'[c] = "template"
          /\ UNCHANGED live
      BY <1>1, <2>4 DEF DropClient, TypeOK
    <3>2. live[c] = UpTo["template"]
      BY <1>1, <3>1, Tables DEF Chain
    <3>3. TypeOK'
      BY <1>1, <2>4, Stages DEF DropClient, TypeOK
    <3> QED
      BY <3>1, <3>2, <3>3, Stages DEF Chain
  <2>5. CASE Term(c)
    <3>1. /\ stage[c] \in {"unwinding", "dropping"}
          /\ todo[c] \in Handles
          /\ UNCHANGED stage
          /\ live'[c] = live[c] \ {todo[c]}
          /\ todo'[c] = NextTerm[todo[c]]
      BY <1>1, <2>5 DEF Term, TypeOK
    <3>2. live'[c] = UpTo[todo'[c]]
      BY <1>1, <3>1, Tables DEF Chain
    <3>3. TypeOK'
      BY <1>1, <2>5, <3>1, Tables DEF Term, TypeOK
    <3> QED
      BY <3>1, <3>2, <3>3, Stages DEF Chain
  <2>6. CASE TornDown(c)
    <3>1. /\ stage[c] \in {"unwinding", "dropping"}
          /\ todo[c] = "none"
          /\ stage'[c] \in {"err", "gone"}
          /\ UNCHANGED <<todo, live>>
      BY <1>1, <2>6 DEF TornDown, TypeOK
    <3>2. live[c] = {}
      BY <1>1, <3>1, Tables DEF Chain
    <3>3. TypeOK'
      BY <1>1, <2>6 DEF TornDown, TypeOK
    <3> QED
      BY <3>1, <3>2, <3>3, Stages DEF Chain
  <2> QED
    BY <2>1, <2>2, <2>3, <2>4, <2>5, <2>6 DEF ClientStep
<1>4. \A d \in Clients : Chain(d)'
  BY <1>1, <1>2, <1>3 DEF Chain
<1>5. \A r \in Calls : Progress(r)' /\ BodySoFar(r)'
  <2> SUFFICES ASSUME NEW r \in Calls
               PROVE  Progress(r)' /\ BodySoFar(r)'
    OBVIOUS
  <2>1. call[r] \notin {"none", "done"} => stage'[client[r]] = "ready"
    <3>1. call[r] \notin {"none", "done"} => stage[client[r]] = "ready" /\ client[r] \in Clients
      BY <1>1 DEF Progress
    <3>2. call[r] \notin {"none", "done"} => client[r] # c
      BY <1>1, <3>1
         DEF ClientStep, New, CreateNext, CreateFails, DropClient, Borrowed, Term, TornDown, Steps, Handles
    <3> QED
      BY <1>2, <3>1, <3>2
  <2> QED
    BY <1>1, <1>2, <2>1 DEF Progress, BodySoFar, callVars
<1> QED
  BY <1>3, <1>4, <1>5 DEF IInv

\* A step of a request leaves the chains and the other requests alone.
LEMMA CallKeeps ==
    ASSUME IInv, NEW r \in Calls, CallStep(r)
    PROVE  IInv'
<1> USE ConstantsType DEF callVars, clientVars
<1>1. TypeOK /\ (\A d \in Clients : Chain(d)) /\ (\A s \in Calls : Progress(s) /\ BodySoFar(s))
  BY DEF IInv
<1>2. /\ \A s \in Calls \ {r} : /\ call'[s] = call[s]
                                /\ client'[s] = client[s]
                                /\ handle'[s] = handle[s]
                                /\ sent'[s] = sent[s]
                                /\ got'[s] = got[s]
                                /\ body'[s] = body[s]
                                /\ result'[s] = result[s]
      /\ UNCHANGED clientVars
  BY <1>1
     DEF CallStep, Request, CreateRequest, RunFails, SendRequest, GetStatusCode, ReadData,
         DeleteRequest, TypeOK
<1>3. TypeOK' /\ Progress(r)' /\ BodySoFar(r)'
  <2>1. ASSUME NEW c \in Clients, Request(r, c)
        PROVE  TypeOK' /\ Progress(r)' /\ BodySoFar(r)'
    BY <1>1, <2>1 DEF Request, TypeOK, Progress, BodySoFar
  <2>2. CASE CreateRequest(r)
    <3>1. UNCHANGED <<clientVars, client, sent, got, body>>
      BY <2>2 DEF CreateRequest
    <3>2. CASE call' = [call EXCEPT ![r] = "send"] /\ handle' = [handle EXCEPT ![r] = "live"]
               /\ UNCHANGED result
      <4>1. TypeOK'
        BY <1>1, <3>1, <3>2 DEF TypeOK
      <4>2. Progress(r)'
        BY <1>1, <2>2, <3>1, <3>2 DEF CreateRequest, TypeOK, Progress
      <4>3. BodySoFar(r)'
        BY <1>1, <2>2, <3>1, <3>2 DEF CreateRequest, TypeOK, BodySoFar
      <4> QED
        BY <4>1, <4>2, <4>3
    <3>3. CASE call' = [call EXCEPT ![r] = "done"] /\ result' = [result EXCEPT ![r] = "create"]
               /\ UNCHANGED handle
      BY <1>1, <2>2, <3>1, <3>3 DEF CreateRequest, TypeOK, Progress, BodySoFar, Outcome
    <3> QED
      BY <2>2, <3>2, <3>3 DEF CreateRequest
  <2>3. CASE RunFails(r)
    BY <1>1, <2>3 DEF RunFails, AfterError, TypeOK, Progress, BodySoFar, Outcome
  <2>4. CASE SendRequest(r)
    BY <1>1, <2>4 DEF SendRequest, TypeOK, Progress, BodySoFar
  <2>5. CASE GetStatusCode(r)
    <3>1. PICK n \in 0..MaxBody : sent' = [sent EXCEPT ![r] = n]
      BY <2>5 DEF GetStatusCode
    <3>2. /\ call[r] = "status" /\ call' = [call EXCEPT ![r] = "read"]
          /\ UNCHANGED <<clientVars, client, handle, got, body, result>>
      BY <2>5 DEF GetStatusCode
    <3>3. sent' \in [Calls -> 0..MaxBody] /\ sent'[r] = n
      BY <1>1, <3>1 DEF TypeOK
    <3>4. TypeOK' /\ Progress(r)'
      BY <1>1, <3>2, <3>3 DEF TypeOK, Progress
    <3>5. got[r] = 0 /\ result[r] = "none" /\ 0 <= n
      <4>1. result[r] = "none"
        BY <1>1, <3>2 DEF Progress
      <4>2. got[r] = 0
        BY <1>1, <3>2 DEF BodySoFar
      <4>3. 0 <= n
        BY ConstantsType
      <4> QED
        BY <4>1, <4>2, <4>3
    <3>6. BodySoFar(r)'
      <4>1. /\ got' = got /\ body' = body /\ result' = result /\ got[r] <= sent'[r]
            /\ body[r] = [i \in 1..got[r] |-> i]
        BY <1>1, <3>2, <3>3, <3>5 DEF BodySoFar
      <4> QED
        BY <3>5, <4>1 DEF BodySoFar
    <3> QED
      BY <3>4, <3>6
  <2>6. CASE ReadData(r)
    <3>1. PICK n \in 0..ReadChunk :
             /\ got[r] + n <= sent[r]
             /\ n = 0 => got[r] = sent[r]
             /\ got'  = [got EXCEPT ![r] = @ + n]
             /\ body' = [body EXCEPT ![r] = @ \o [i \in 1..n |-> got[r] + i]]
             /\ \/ n > 0 /\ UNCHANGED <<call, result>>
                \/ /\ ~(n > 0)
                   /\ call'   = [call EXCEPT ![r] = "delete"]
                   /\ result' = [result EXCEPT ![r] = "ok"]
      BY <2>6 DEF ReadData, ReadsOn, Filled
    <3>2. /\ got[r] \in 0..MaxBody /\ sent[r] \in 0..MaxBody /\ MaxBody \in Nat
          /\ body[r] = [i \in 1..got[r] |-> i]
          /\ call[r] = "read" /\ result[r] = "none"
      BY <1>1, <2>6, ConstantsType DEF ReadData, TypeOK, Progress, BodySoFar
    <3>3. got[r] + n \in 0..MaxBody /\ n \in Nat
      BY <3>1, <3>2, ConstantsType
    <3>4. got'[r] = got[r] + n /\ body'[r] = body[r] \o [i \in 1..n |-> got[r] + i]
      BY <1>1, <3>1 DEF TypeOK
    <3>5. body'[r] = [i \in 1..got'[r] |-> i]
      BY <3>2, <3>3, <3>4, BytesExtend
    <3>6. got' \in [Calls -> 0..MaxBody] /\ body' \in [Calls -> Seq(0..MaxBody)]
      <4>1. body'[r] \in Seq(0..MaxBody)
        BY <3>3, <3>4, <3>5, BytesSeq
      <4>2. body' = [body EXCEPT ![r] = body'[r]]
        BY <3>1, <3>4
      <4> QED
        BY <1>1, <3>1, <3>3, <4>1, <4>2 DEF TypeOK
    <3>7. UNCHANGED <<clientVars, client, handle, sent>>
      BY <2>6 DEF ReadData
    <3>8. BodySoFar(r)'
      BY <3>1, <3>2, <3>3, <3>4, <3>5, <3>7, <1>1 DEF BodySoFar, TypeOK
    <3>9. CASE n > 0 /\ UNCHANGED <<call, result>>
      BY <1>1, <3>2, <3>6, <3>7, <3>8, <3>9 DEF TypeOK, Progress
    <3>10. CASE /\ n = 0
                /\ call'   = [call EXCEPT ![r] = "delete"]
                /\ result' = [result EXCEPT ![r] = "ok"]
      BY <1>1, <3>2, <3>6, <3>7, <3>8, <3>10 DEF TypeOK, Progress, Outcome
    <3> QED
      BY <3>1, <3>9, <3>10
  <2>7. CASE DeleteRequest(r)
    <3>1. call[r] = "delete" /\ call' = [call EXCEPT ![r] = "done"]
      BY <2>7 DEF DeleteRequest
    <3>2. UNCHANGED <<clientVars, client, sent, got, body>>
      BY <2>7 DEF DeleteRequest
    <3>3. CASE handle' = [handle EXCEPT ![r] = "deleted"] /\ UNCHANGED result
      BY <1>1, <3>1, <3>2, <3>3 DEF TypeOK, Progress, BodySoFar
    <3>4. CASE /\ handle' = [handle EXCEPT ![r] = "undeleted"]
               /\ result' = [result EXCEPT ![r] = OrDeleteError(r)]
      <4>1. OrDeleteError(r) \in Outcome \ {"ok"}
        BY <1>1 DEF OrDeleteError, TypeOK, Outcome
      <4> QED
        BY <1>1, <3>1, <3>2, <3>4, <4>1 DEF TypeOK, Progress, BodySoFar
    <3> QED
      BY <2>7, <3>3, <3>4 DEF DeleteRequest
  <2> QED
    BY <2>1, <2>2, <2>3, <2>4, <2>5, <2>6, <2>7 DEF CallStep
<1>4. \A d \in Clients : Chain(d)'
  BY <1>1, <1>2 DEF Chain
<1>5. \A s \in Calls : Progress(s)' /\ BodySoFar(s)'
  <2>1. \A s \in Calls : Progress(s)'
    BY <1>1, <1>2, <1>3 DEF Progress
  <2>2. ASSUME NEW s \in Calls \ {r} PROVE BodySoFar(s)'
    <3>1. /\ BodySoFar(s)
          /\ call'[s] = call[s] /\ result'[s] = result[s]
          /\ got'[s] = got[s] /\ sent'[s] = sent[s] /\ body'[s] = body[s]
      BY <1>1, <1>2
    <3> QED
      BY <3>1 DEF BodySoFar
  <2> QED
    BY <1>3, <2>1, <2>2
<1> QED
  BY <1>3, <1>4, <1>5 DEF IInv

LEMMA NextInvariant == IInv /\ [Next]_vars => IInv'
<1> SUFFICES ASSUME IInv, [Next]_vars
             PROVE  IInv'
  OBVIOUS
<1>1. ASSUME NEW c \in Clients, ClientStep(c)
      PROVE  IInv'
  BY <1>1, ClientKeeps
<1>2. ASSUME NEW r \in Calls, CallStep(r)
      PROVE  IInv'
  BY <1>2, CallKeeps
<1>3. CASE UNCHANGED vars
  BY <1>3 DEF vars, clientVars, callVars, IInv, TypeOK, Chain, Progress, BodySoFar
<1> QED
  BY <1>1, <1>2, <1>3 DEF Next

\* The inductive invariant holds for ever.
THEOREM Invariant == Spec => []IInv
BY InitInvariant, NextInvariant, PTL DEF Spec

\* TypeOK: stages, handles and results stay in their ranges.
THEOREM TypeCorrect == Spec => []TypeOK
<1>1. IInv => TypeOK
  BY DEF IInv
<1> QED
  BY Invariant, <1>1, PTL

\* NothingLeaks: a failed new and a dropped Client leave no SCE handle, at
\* whichever step new failed.
THEOREM NothingLeaksHolds == Spec => []NothingLeaks
<1>1. IInv => NothingLeaks
  BY DEF IInv, Chain, NothingLeaks
<1> QED
  BY Invariant, <1>1, PTL

\* HandlesLive: only live handles are used and torn down, with any number of
\* threads sharing a Client.
THEOREM HandlesLiveHolds == Spec => []HandlesLive
<1>1. ASSUME IInv
      PROVE  HandlesLive
  <2>1. TypeOK /\ (\A d \in Clients : Chain(d)) /\ (\A r \in Calls : Progress(r))
    BY <1>1 DEF IInv
  <2>2. ASSUME NEW c \in Clients
        PROVE  /\ todo[c] # "none" => todo[c] \in live[c]
               /\ \A h \in live[c] : Uses[h] \subseteq live[c]
    <3>1. \E h \in Handles \cup {"none"} : live[c] = UpTo[h] /\ (todo[c] # "none" => h = todo[c])
      <4>1. CASE stage[c] \in Steps
        BY <2>1, <4>1, Tables DEF Chain
      <4>2. CASE stage[c] = "ready"
        <5>1. live[c] = Handles /\ todo[c] = "none"
          BY <2>1, <4>2 DEF Chain
        <5>2. "template" \in Handles
          BY DEF Handles
        <5>3. live[c] = UpTo["template"]
          BY <5>1, Tables
        <5> QED
          BY <5>1, <5>2, <5>3
      <4>3. CASE stage[c] \in {"unwinding", "dropping"}
        <5>1. live[c] = UpTo[todo[c]]
          BY <2>1, <4>3 DEF Chain
        <5>2. todo[c] \in Handles \cup {"none"}
          BY <2>1 DEF TypeOK
        <5> QED
          BY ONLY <5>1, <5>2
      <4>4. CASE stage[c] \in {"none", "err", "gone"}
        <5>1. live[c] = {} /\ todo[c] = "none"
          BY <2>1, <4>4 DEF Chain
        <5>2. UpTo["none"] = {}
          BY Tables
        <5> QED
          BY ONLY <5>1, <5>2
      <4> QED
        BY <2>1, <4>1, <4>2, <4>3, <4>4 DEF TypeOK
    <3> QED
      BY <3>1, Tables
  <2>3. ASSUME NEW r \in Calls
        PROVE  /\ call[r] = "create" \/ handle[r] = "live" => "template" \in live[client[r]]
               /\ call[r] \in {"send", "status", "read", "delete"} => handle[r] = "live"
    BY <2>1 DEF TypeOK, Chain, Progress, Handles
  <2> QED
    BY <2>2, <2>3 DEF HandlesLive
<1> QED
  BY Invariant, <1>1, PTL

\* RequestDeleted: request never returns with a request it has not deleted.
THEOREM RequestDeletedHolds == Spec => []RequestDeleted
<1>1. IInv => RequestDeleted
  BY DEF IInv, Progress, RequestDeleted
<1> QED
  BY Invariant, <1>1, PTL

\* WholeBody: an Ok response has exactly the bytes the server sent, in order, however
\* they were cut into reads.
THEOREM WholeBodyHolds == Spec => []WholeBody
<1>1. IInv => WholeBody
  BY DEF IInv, BodySoFar, WholeBody
<1> QED
  BY Invariant, <1>1, PTL

\* FirstErrorKept: no later step of request replaces an error.
THEOREM FirstErrorKeptHolds == Spec => FirstErrorKept
<1>1. ASSUME IInv, [Next]_vars
      PROVE  [\A r \in Calls : result[r] \notin {"none", "ok"} => result'[r] = result[r]]_vars
  <2> SUFFICES ASSUME NEW r \in Calls, result[r] \notin {"none", "ok"}, Next
               PROVE  result'[r] = result[r]
    BY <1>1
  <2>1. TypeOK /\ Progress(r)
    BY <1>1 DEF IInv
  <2>2. ASSUME NEW c \in Clients, ClientStep(c)
        PROVE  result'[r] = result[r]
    BY <2>2
       DEF ClientStep, New, CreateNext, CreateFails, DropClient, Term, TornDown, callVars
  <2>3. ASSUME NEW s \in Calls, CallStep(s)
        PROVE  result'[r] = result[r]
    BY <2>1, <2>3
       DEF CallStep, Request, CreateRequest, RunFails, SendRequest, GetStatusCode, ReadData,
           DeleteRequest, OrDeleteError, TypeOK, Progress
  <2> QED
    BY <2>2, <2>3 DEF Next
<1> QED
  BY Invariant, <1>1, PTL DEF Spec, FirstErrorKept
===============================================================================
