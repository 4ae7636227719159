----------------------------- MODULE MCHttpServer -----------------------------
(* Model values for HttpServer: three connections, of which two fit in the    *)
(* backlog and at most two can be open next to the listener.                  *)
EXTENDS HttpServer

CONSTANTS c1, c2, c3

MCConns2 == {c1, c2}
MCConns3 == {c1, c2, c3}
===============================================================================
