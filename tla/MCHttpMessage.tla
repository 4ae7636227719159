---------------------------- MODULE MCHttpMessage ----------------------------
(* Heads of a request line and up to two fields: well-formed ones in two       *)
(* spellings, with a colon or no blanks in the value, and malformed ones.  The  *)
(* handler sets fields of which one has a blank behind its name, and one a     *)
(* value of two lines.                                                         *)
EXTENDS HttpMessage, TLC

MCFold == [w \in {":", "?", " ", "CRLF", "content-length", "connection", "x", "Content-Type", "close", "GET",
                  "/", "0", "1", "3", "text/plain", "text/html",
                  "application/json", "HTTP/1.1"} |-> w]
          @@ "Content-Length" :> "content-length" @@ "Connection" :> "connection" @@ "X" :> "x"

MCNumbers == "0" :> 0 @@ "1" :> 1 @@ "3" :> 3

MCRequestLines == { <<"GET", " ", "/", "?", "x", "?", " ", "HTTP/1.1">>, <<"GET", " ", "/", " ", "HTTP/1.1">>,
                    <<"GET", " ", " ", "HTTP/1.1">>, <<"GET", " ", "/">> }

MCFieldLines == { <<"x">>, <<"X", ":", " ", "/", ":", "1">>, <<" ", "x", ":">>,
                  <<"x", " ", ":", "1", " ", "3", " ">>,
                  <<"content-length", ":", "3">>, <<"Content-Length", ":", " ", "1">>,
                  <<"Content-Length", ":", "x">>, <<"connection", ":", "close">> }

MCHeads == {<<r>> \o fs : r \in MCRequestLines, fs \in UNION {[1..n -> MCFieldLines] : n \in 0..2}}

MCNames == {<<"x">>, <<"content-length">>, <<"Content-Length", " ">>, <<"Connection">>}
MCValues == {<<"1", ":", "3">>, <<" ", "x">>, <<"x", "CRLF", "x">>}
===============================================================================
