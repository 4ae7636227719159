--------------------------- MODULE MCHttpConnection ---------------------------
(* Requests for HttpConnection.  MaxHeaderBytes is 41, ReadChunk 6, MaxBodyBytes *)
(* 4 and UsizeMax 99: a Content-Length of one digit is within the body limit or  *)
(* above it, and one of three digits does not parse as a usize.                  *)
EXTENDS HttpConnection

Request(head, tokens, lengths, sentBody) ==
    [head |-> head, utf8 |-> TRUE, tokens |-> tokens, colons |-> TRUE,
     lengths |-> lengths, body |-> sentBody]

MCRequests == {
    Request(5, 3, <<>>, 0),           \* G / 1
    Request(5, 3, <<>>, 2),           \* the same, and bytes nobody asked for
    Request(3, 1, <<>>, 0),           \* GET
    Request(23, 3, <<2>>, 2),         \* G / 1, content-length:2
    Request(23, 3, <<4>>, 4),
    Request(23, 3, <<4>>, 7),
    Request(23, 3, <<4>>, 1),         \* fewer than announced
    Request(23, 3, <<5>>, 5),         \* above MaxBodyBytes
    Request(25, 3, <<100>>, 2),       \* above UsizeMax
    Request(24, 3, <<-1>>, 0),
    Request(41, 3, <<2, 3>>, 3),      \* twice content-length
    Request(38, 3, <<2>>, 2),         \* never refused for its head: G /xx...x 1, ...
    Request(39, 3, <<2>>, 2),         \* refused or not, as its marker is cut; so are
    Request(43, 3, <<2>>, 2),         \* those above the limit, up to this one
    Request(44, 3, <<2>>, 2),         \* always refused
    Request(60, 3, <<>>, 0),
    [Request(8, 3, <<>>, 0) EXCEPT !.colons = FALSE],   \* G / 1, x
    [Request(5, 3, <<>>, 0) EXCEPT !.utf8 = FALSE] }

MCResponses == {1, 3}
===============================================================================
