------------------------------- MODULE Exchange -------------------------------
(***************************************************************************)
(* What serving one HTTP connection amounts to: one request is read, and   *)
(* the connection ends in exactly one of three ways.  The handler is       *)
(* called once and its response is sent; or a 400 is sent and the handler  *)
(* is never called; or nothing is sent because the client said nothing.    *)
(* HttpConnection.tla is shown to implement it, HttpServer.tla uses it for *)
(* each of its connections.                                                *)
(***************************************************************************)
VARIABLES phase,    \* what the connection's thread is doing
          answer    \* the response that was decided on

vars == <<phase, answer>>

TypeOK == /\ phase  \in {"reading", "handling", "answering", "closed"}
          /\ answer \in {"none", "handler", "400"}

Init == phase = "reading" /\ answer = "none"

\* A request was read: the handler is called with it.
Handle == /\ phase = "reading"
          /\ phase' = "handling"
          /\ UNCHANGED answer

\* The handler returns its response.
Respond == /\ phase = "handling"
           /\ phase' = "answering"
           /\ answer' = "handler"

\* The request cannot be read.
Reject == /\ phase = "reading"
          /\ phase' = "answering"
          /\ answer' = "400"

\* The client left without a request.
Leave == /\ phase = "reading"
         /\ phase' = "closed"
         /\ UNCHANGED answer

\* The response was written, or writing it failed.
Finish == /\ phase = "answering"
          /\ phase' = "closed"
          /\ UNCHANGED answer

Next == Handle \/ Respond \/ Reject \/ Leave \/ Finish

Spec == Init /\ [][Next]_vars
===============================================================================
