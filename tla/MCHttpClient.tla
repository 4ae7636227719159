------------------------------ MODULE MCHttpClient ------------------------------
(* Model values for HttpClient: two clients and two calls of request.         *)
EXTENDS HttpClient, TLC

CONSTANTS c1, c2, r1, r2

MCClients == {c1, c2}
MCCalls   == {r1, r2}

Symmetry == Permutations(Clients) \cup Permutations(Calls)
===============================================================================
