-------------------------------- MODULE MCHttp --------------------------------
(* The two halves of serving a request side by side: the bytes of a connection  *)
(* (MCHttpConnection) and the lines of a head (MCHttpMessage).  A behaviour is  *)
(* one of either half, while the other stays as it began, so the states are the *)
(* sum of theirs and not the product.                                           *)
EXTENDS MCHttpConnection, MCHttpMessage

VARIABLE half

allVars == <<vars, messageVars, half>>

MCInit ==
    /\ half \in {"connection", "message"}
    /\ Init
    /\ MessageInit
    /\ half = "message" => req = CHOOSE r \in Requests : TRUE
    /\ half = "connection" => head = CHOOSE lines \in Heads : TRUE

ConnectionStep == half = "connection" /\ Next /\ UNCHANGED <<messageVars, half>>
MessageStep    == half = "message" /\ MessageNext /\ UNCHANGED <<vars, half>>

MCNext == ConnectionStep \/ MessageStep

\* The fairness of HttpConnection; a handler need not build anything.
MCSpec ==
    /\ MCInit
    /\ [][MCNext]_allVars
    /\ WF_allVars(half = "connection" /\ Proceeds /\ UNCHANGED <<messageVars, half>>)
    /\ WF_allVars(half = "connection" /\ ClientRead /\ UNCHANGED <<messageVars, half>>)
===============================================================================
