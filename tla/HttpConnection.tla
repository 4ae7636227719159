---------------------------- MODULE HttpConnection ----------------------------
(***************************************************************************)
(* One connection of the HTTP server: serve_connection, read_request and   *)
(* write_response of crates/core/src/http.rs over TcpStream::read and      *)
(* write_all of crates/ps5/src/net.rs.                                     *)
(*                                                                         *)
(* TCP keeps no message boundaries: the client's bytes arrive one by one   *)
(* and a recv returns any non-empty prefix of what has arrived.  Bytes are *)
(* counted, not spelled out: a request is the length of its head, what     *)
(* parsing the head makes of it, and the number of bytes sent after it.    *)
(*                                                                         *)
(* HeadUnlimited, LengthAtLimit, MarkerInBody, NoTruncate, ShortBodyWaits  *)
(* and HandleAgain are used by no action: each is a plausible mistake in   *)
(* the definition after it, and put in its place makes a property below    *)
(* fail.                                                                   *)
(***************************************************************************)
EXTENDS Integers, Sequences

CONSTANTS
    Requests,         \* what a client may send, see RequestType
    ReadChunk,        \* READ_CHUNK, the size of the buffer given to recv
    MaxHeaderBytes,   \* Limits.max_header_bytes
    MaxBodyBytes,     \* Limits.max_body_bytes
    UsizeMax,         \* usize::MAX
    Responses,        \* lengths of encoded responses
    Window            \* bytes the kernel holds for a client that does not read

\* head: bytes before the first CR LF CR LF; utf8: they are UTF-8; tokens: parts
\* of the request line between single spaces; colons: every header line has one;
\* lengths: the numbers after Content-Length, in order (what does not parse as a
\* usize is a number outside 0..UsizeMax); body: bytes sent after the marker.
RequestType == [head : Nat, utf8 : BOOLEAN, tokens : Nat, colons : BOOLEAN,
                lengths : Seq(Int), body : Nat]

ASSUME ConstantsType ==
    /\ Requests \subseteq RequestType
    /\ ReadChunk \in Nat \ {0}
    /\ UsizeMax \in Nat
    /\ MaxHeaderBytes \in 0..UsizeMax
    /\ MaxBodyBytes \in 0..UsizeMax
    /\ Responses \subseteq Nat \ {0}
    /\ Window \in Nat \ {0}

VARIABLES
    req,      \* what the client wants to send
    sent,     \* how many bytes of it have arrived at the server's socket
    peer,     \* "open", "finished" (sent FIN), or "reset"
    pc,       \* where serve_connection is
    got,      \* bytes returned by recv so far
    body,     \* length of the Vec `body`
    reason,   \* why read_request failed
    answer,   \* the response decided on
    left,     \* bytes of it write_all has not yet handed to send
    unread    \* bytes of it the client has not yet read

clientVars == <<req, sent, peer>>
vars == <<req, sent, peer, pc, got, body, reason, answer, left, unread>>

TypeOK ==
    /\ req    \in Requests
    /\ sent   \in Nat
    /\ peer   \in {"open", "finished", "reset"}
    /\ pc     \in {"head", "body", "handle", "write", "shutdown", "closed"}
    /\ got    \in Nat
    /\ body   \in Nat
    /\ reason \in {"none", "eof", "recv", "size", "syntax", "length"}
    /\ answer \in {"none", "handler", "400"}
    /\ left   \in Nat
    /\ unread \in 0..Window

Init ==
    /\ req \in Requests
    /\ sent = 0
    /\ peer = "open"
    /\ pc = "head"
    /\ got = 0
    /\ body = 0
    /\ reason = "none"
    /\ answer = "none"
    /\ left = 0
    /\ unread = 0

-------------------------------------------------------------------------------
\* The client and the network

Marker == 4   \* length of CR LF CR LF

Total == req.head + Marker + req.body

Arrive ==
    /\ peer = "open"
    /\ sent < Total
    /\ sent' = sent + 1
    /\ UNCHANGED <<req, peer, pc, got, body, reason, answer, left, unread>>

\* The client closes its sending side, which it may do early.
Finish ==
    /\ peer = "open"
    /\ peer' = "finished"
    /\ UNCHANGED <<req, sent, pc, got, body, reason, answer, left, unread>>

Reset ==
    /\ peer # "reset"
    /\ peer' = "reset"
    /\ UNCHANGED <<req, sent, pc, got, body, reason, answer, left, unread>>

ClientRead ==
    /\ unread > 0
    /\ unread' = unread - 1
    /\ UNCHANGED <<clientVars, pc, got, body, reason, answer, left>>

Client == Arrive \/ Finish \/ Reset \/ ClientRead

-------------------------------------------------------------------------------
\* recv(fd, chunk, ReadChunk): what it may return

Received(n) == n \in 1..ReadChunk /\ got + n <= sent
EndOfStream == got = sent /\ peer = "finished"

\* ECONNRESET, or EINTR while waiting, which read_request does not retry.
Interrupted  == peer = "open" /\ got = sent
ReceiveFails == peer = "reset" \/ Interrupted

-------------------------------------------------------------------------------
\* read_request

\* find_double_crlf(&buf)
MarkerFound(n) == n >= req.head + Marker

\* The check of the head limit, made before another recv and only while the
\* marker is missing.
HeadUnlimited(n) == FALSE
HeadOverLimit(n) == n > MaxHeaderBytes

\* read_request returned Err: the answer is a 400 of some length.
Reject(why) ==
    /\ pc' = "write"
    /\ reason' = why
    /\ answer' = "400"
    /\ left' \in Responses

\* The head is complete, or too long, or grows by one recv.
HeadTooLong ==
    /\ pc = "head"
    /\ ~MarkerFound(got)
    /\ HeadOverLimit(got)
    /\ Reject("size")
    /\ UNCHANGED <<clientVars, got, body, unread>>

Receiving == pc = "head" /\ ~MarkerFound(got) /\ ~HeadOverLimit(got)

HeadReceive ==
    /\ Receiving
    /\ \E n \in 1..ReadChunk : Received(n) /\ got' = got + n
    /\ UNCHANGED <<clientVars, pc, body, reason, answer, left, unread>>

\* recv returned 0: the client left silently, or in the middle of its request.
HeadEnd ==
    /\ Receiving
    /\ EndOfStream
    /\ \/ /\ got = 0
          /\ pc' = "shutdown"
          /\ UNCHANGED <<reason, answer, left>>
       \/ /\ got > 0
          /\ Reject("eof")
    /\ UNCHANGED <<clientVars, got, body, unread>>

HeadFails ==
    /\ Receiving
    /\ ReceiveFails
    /\ Reject("recv")
    /\ UNCHANGED <<clientVars, got, body, unread>>

Parses == req.utf8 /\ req.tokens >= 3 /\ req.colons

\* The first Content-Length counts; one that is no usize counts as none.
ContentLength ==
    IF req.lengths # <<>> /\ Head(req.lengths) \in 0..UsizeMax THEN Head(req.lengths) ELSE 0

LengthAtLimit   == ContentLength >= MaxBodyBytes
LengthOverLimit == ContentLength > MaxBodyBytes

\* buf[head_end + 4..]: the bytes received past the head.
MarkerInBody(n) == n - req.head
PastHead(n)     == n - (req.head + Marker)

ParseHead ==
    /\ pc = "head"
    /\ MarkerFound(got)
    /\ \/ /\ ~Parses
          /\ Reject("syntax")
          /\ UNCHANGED body
       \/ /\ Parses
          /\ LengthOverLimit
          /\ Reject("length")
          /\ UNCHANGED body
       \/ /\ Parses
          /\ ~LengthOverLimit
          /\ pc' = "body"
          /\ body' = PastHead(got)
          /\ UNCHANGED <<reason, answer, left>>
    /\ UNCHANGED <<clientVars, got, unread>>

BodyReceive ==
    /\ pc = "body"
    /\ body < ContentLength
    /\ \E n \in 1..ReadChunk : /\ Received(n)
                               /\ got' = got + n
                               /\ body' = body + n
    /\ UNCHANGED <<clientVars, pc, reason, answer, left, unread>>

\* body.truncate(content_length)
NoTruncate(n) == n
Truncate(n)   == IF n > ContentLength THEN ContentLength ELSE n

\* recv returned 0: a short body is handed over as it is.
ShortBodyWaits == FALSE
ShortBody      == body < ContentLength /\ EndOfStream

BodyEnd ==
    /\ pc = "body"
    /\ body >= ContentLength \/ ShortBody
    /\ body' = Truncate(body)
    /\ pc' = "handle"
    /\ UNCHANGED <<clientVars, got, reason, answer, left, unread>>

BodyFails ==
    /\ pc = "body"
    /\ body < ContentLength
    /\ ReceiveFails
    /\ Reject("recv")
    /\ UNCHANGED <<clientVars, got, body, unread>>

-------------------------------------------------------------------------------
\* The rest of serve_connection

\* handler(&req) returns a response.
Handle ==
    /\ pc = "handle"
    /\ pc' = "write"
    /\ answer' = "handler"
    /\ left' \in Responses
    /\ UNCHANGED <<clientVars, got, body, reason, unread>>

\* send accepts part of what is left.  An EINTR changes nothing and is retried.
Write ==
    /\ pc = "write"
    /\ \E n \in 1..left : /\ unread + n <= Window
                          /\ left' = left - n
                          /\ unread' = unread + n
    /\ UNCHANGED <<clientVars, pc, got, body, reason, answer>>

\* write_all has sent everything, or the connection is reset; or it gives up on any
\* other error and on a send of no bytes.  Its result is ignored.
HandleAgain == IF left > 0 THEN "handle" ELSE "shutdown"
AfterWrite  == "shutdown"

WriteEnd ==
    /\ pc = "write"
    /\ left = 0 \/ peer = "reset"
    /\ pc' = AfterWrite
    /\ UNCHANGED <<clientVars, got, body, reason, answer, left, unread>>

WriteFails ==
    /\ pc = "write"
    /\ left > 0
    /\ pc' = AfterWrite
    /\ UNCHANGED <<clientVars, got, body, reason, answer, left, unread>>

\* shutdown(Both), and the stream is closed when serve_connection's caller drops it.
ShutdownBoth ==
    /\ pc = "shutdown"
    /\ pc' = "closed"
    /\ UNCHANGED <<clientVars, got, body, reason, answer, left, unread>>

\* What the thread does as long as it runs, and what the system may do to it but
\* need not: interrupt a recv, or fail a send.
Proceeds == \/ HeadTooLong
            \/ HeadReceive
            \/ HeadEnd
            \/ ParseHead
            \/ BodyReceive
            \/ BodyEnd
            \/ Handle
            \/ Write
            \/ WriteEnd
            \/ ShutdownBoth
            \/ peer = "reset" /\ (HeadFails \/ BodyFails)

Fails == HeadFails \/ BodyFails \/ WriteFails

Server == Proceeds \/ Fails

Next == Client \/ Server

Spec == Init /\ [][Next]_vars
\* The thread of a connection runs whenever it can, the handler returns, and a
\* client that sent a request reads the answer.  Nothing makes a client send, and
\* no call has to fail but those on a connection that was reset.
FairSpec == Spec /\ WF_vars(Proceeds) /\ WF_vars(ClientRead)

-------------------------------------------------------------------------------
\* Safety

Larger(m, n) == IF m > n THEN m ELSE n

Accepted == pc \in {"body", "handle"} \/ answer = "handler"

\* A client decides neither how much memory its head takes nor its body: at most
\* one recv more than the limit of each (http.rs:337-355, 390-409).
BoundedMemory ==
    /\ pc = "head" => got <= MaxHeaderBytes + ReadChunk
    /\ body < Larger(MaxBodyBytes, MaxHeaderBytes) + ReadChunk

\* The handler is given exactly the body Content-Length announces; less only if
\* the client ended the stream, and then all it sent; never the start of what
\* follows the request (http.rs:400-410).
BodyExact == pc = "handle" \/ answer = "handler" =>
    \/ body = ContentLength
    \/ body < ContentLength /\ peer # "open" /\ req.head + Marker + body = sent

\* A request without excess bytes was read to its end when the socket is closed,
\* so closing it does not reset the connection and destroy the response in
\* flight (http.rs:400-409, 319-320).
RequestConsumed ==
    pc = "closed" /\ answer = "handler" /\ req.body <= ContentLength => got = sent

\* What a client may expect to be served, in terms of the request alone.
Servable == /\ req.head + Marker <= MaxHeaderBytes
            /\ Parses
            /\ ContentLength <= MaxBodyBytes

\* A 400 has a cause in the request, in its client, or in an interrupted recv
\* (http.rs:308-317).
RejectsJustified == answer = "400" /\ Servable => peer # "open" \/ reason = "recv"

\* serve_connection ends in one of the three ways of Exchange.
Phase == IF pc = "closed" THEN "closed"
         ELSE IF pc = "handle" THEN "handling"
         ELSE IF answer # "none" THEN "answering"
         ELSE "reading"

Exchanged == INSTANCE Exchange WITH phase <- Phase

\* The handler is called at most once, never together with a 400, and only a
\* client that sent nothing gets no answer (http.rs:302-321).
ImplementsExchange == Exchanged!Spec

-------------------------------------------------------------------------------
\* The inductive invariant behind the safety properties

\* Bytes are received after they arrived, and arrive after they were sent.
Stream == got <= sent /\ sent <= Total

\* What reading the head has established.
HeadRead ==
    /\ pc = "head" => got <= MaxHeaderBytes + ReadChunk /\ body = 0
    /\ Accepted => /\ Parses
                   /\ ContentLength <= MaxBodyBytes
                   /\ req.head + Marker <= got

\* While it is read, the body is what was received past the head; then it is cut
\* to its length.
BodyRead ==
    /\ pc = "body" => req.head + Marker + body = got
    /\ pc = "handle" \/ answer = "handler" =>
          \/ body = ContentLength /\ req.head + Marker + body <= got
          \/ /\ body < ContentLength
             /\ peer # "open"
             /\ req.head + Marker + body = got
             /\ got = sent
    /\ body < Larger(MaxBodyBytes, MaxHeaderBytes) + ReadChunk

\* A failure has its reason in the request or in the stream.
Failure ==
    /\ reason = "eof" => peer # "open"
    /\ reason = "size" => req.head + Marker > MaxHeaderBytes + 1
    /\ reason = "syntax" => ~Parses
    /\ reason = "length" => ContentLength > MaxBodyBytes

Progress ==
    /\ pc \in {"head", "body", "handle"} => answer = "none" /\ reason = "none"
    /\ pc = "write" => answer # "none"
    /\ answer = "400" <=> reason # "none"

IInv == TypeOK /\ Stream /\ HeadRead /\ BodyRead /\ Failure /\ Progress

-------------------------------------------------------------------------------
\* Liveness, under FairSpec

RequestSent == sent >= req.head + Marker + ContentLength

\* Once the whole request has arrived, or the client has ended or reset the
\* stream, the connection is closed: no request leaves its thread waiting.
ConnectionEnds == (RequestSent \/ peer # "open") ~> pc = "closed"

-------------------------------------------------------------------------------
\* What comments of http.rs say, and the code does not do

\* A 400 answers a malformed or oversized request (http.rs:315), so it is never
\* sent to a client that sent neither and is still there.
OnlyBadRequestsRejected == answer = "400" => peer # "open" \/ ~Servable

\* max_header_bytes is the maximum accepted request-head size (http.rs:255), a cap
\* on the request line and headers (http.rs:38): no longer head is served.
HeadCap == Accepted => req.head <= MaxHeaderBytes
===============================================================================
