----------------------------- MODULE HttpMessage -----------------------------
(***************************************************************************)
(* The two messages of a connection of crates/core/src/http.rs: the head   *)
(* that read_request parses into a Request, and the Response that the      *)
(* handler builds and encode turns into a head again.                      *)
(*                                                                         *)
(* HttpConnection counts bytes; here a text is a sequence of words, of     *)
(* which ":", "?", the blank and the line break mean something.  The body  *)
(* is its length.                                                          *)
(*                                                                         *)
(* CutAtLast and SameSpelling are used by no action: each is a plausible   *)
(* mistake in the definition after it, and put in its place makes a        *)
(* property below fail.                                                    *)
(***************************************************************************)
EXTENDS Naturals, SequencesExt, Selection

CONSTANTS
    Heads,      \* what a client may send, split at CR LF: the request line and the fields
    Fold,       \* maps each word to its lower-case spelling
    Numbers,    \* maps each numeral to its number
    Names,      \* of the fields a handler sets
    Values,     \* that it gives them
    Statuses,   \* that it answers with
    Bodies,     \* lengths of the bodies it sends
    BadRequest, \* the length of the body of a 400
    MaxCalls    \* bound: calls of Response's methods in one handler

Blank == " "
CRLF  == "CRLF"

Text == Seq(DOMAIN Fold)

\* An empty line would end the head, so no field is empty, and its lines have no
\* line break.  The handler's names and values are any texts; lengths have numerals.
ASSUME MessageConstants ==
    /\ \A lines \in Heads :
          /\ lines # <<>> /\ lines \in Seq(Text) /\ <<>> \notin ToSet(Tail(lines))
          /\ \A line \in ToSet(lines) : CRLF \notin ToSet(line)
    /\ {":", "?", Blank, CRLF, "close", "text/plain", "text/html", "application/json",
        "content-length", "Content-Length", "connection", "Connection", "Content-Type"}
       \subseteq DOMAIN Fold
    /\ \A w \in {"content-length", "Content-Length"} : Fold[w] = "content-length"
    /\ \A w \in {"connection", "Connection"} : Fold[w] = "connection"
    /\ Names \subseteq Text /\ Values \subseteq Text
    /\ DOMAIN Numbers \subseteq DOMAIN Fold \ {":", "?", Blank, CRLF}
    /\ \A w \in DOMAIN Numbers : Numbers[w] \in Nat
    /\ Bodies \subseteq Nat /\ BadRequest \in Bodies
    /\ \A n \in Bodies \cup {0} : \E w \in DOMAIN Numbers : Numbers[w] = n

VARIABLES
    head,     \* what the client sent
    stage,    \* "parse", "handle", "encode" or "sent"
    next,     \* the line or the field it is at
    target,   \* Request.target
    headers,  \* Request.headers
    length,   \* of Request.body
    response, \* the Response: status, fields and length of the body
    calls,    \* of its methods that the handler made
    wire      \* its head behind the status line, see Written

request == <<target, headers, length>>
messageVars == <<head, stage, next, request, response, calls, wire>>

New(status) == [status |-> status, fields |-> <<>>, body |-> 0]

\* The String that encode builds, and, as a history, where it has written lines to.
NoLine == [text |-> <<>>, ends |-> <<0>>]

MessageInit ==
    /\ head \in Heads
    /\ stage = "parse"
    /\ next = 1
    /\ target = <<>>
    /\ headers = <<>>
    /\ length = 0
    /\ response = New(200)
    /\ calls = 0
    /\ wire = NoLine

-------------------------------------------------------------------------------
\* Texts

\* split_once: the place of the separator, and what is around it.
CutAtLast(text, c) == SelectLastInSeq(text, LAMBDA w : w = c)
Cut(text, c)       == SelectInSeq(text, LAMBDA w : w = c)

Splits(text, c) == Cut(text, c) > 0
Before(text, c) == IF Splits(text, c) THEN SubSeq(text, 1, Cut(text, c) - 1) ELSE text
After(text, c)  == SubSeq(text, Cut(text, c) + 1, Len(text))

Trim(text) ==
    LET word(w) == w # Blank
        first == SelectInSeq(text, word)
    IN  IF first = 0 THEN <<>> ELSE SubSeq(text, first, SelectLastInSeq(text, word))

\* eq_ignore_ascii_case
SameSpelling(m, n) == m = n
SameName(m, n)     == Len(m) = Len(n) /\ \A i \in 1..Len(m) : Fold[m[i]] = Fold[n[i]]

-------------------------------------------------------------------------------
\* read_request: the head

Field(name, value) == [name |-> name, value |-> value]

AddField(r, name, value) == [r EXCEPT !.fields = Append(@, Field(name, value))]
WithType(r, type, body) == [AddField(r, <<"Content-Type">>, type) EXCEPT !.body = body]

\* A malformed head is answered with a 400 that says Bad Request.
Malformed ==
    /\ stage' = "encode"
    /\ next' = 1
    /\ response' = WithType(New(400), <<"text/plain">>, BadRequest)
    /\ UNCHANGED <<head, request, calls, wire>>

\* split(' '): the method, the target and the version are between single blanks.
RequestLine ==
    /\ stage = "parse"
    /\ next = 1
    /\ LET line == head[1]
           blanks == {i \in 1..Len(line) : line[i] = Blank}
           first == Min(blanks)
           second == Min(blanks \ {first})
       IN  IF Cardinality(blanks) >= 2
           THEN /\ target' = SubSeq(line, first + 1, second - 1)
                /\ next' = 2
                /\ UNCHANGED <<head, stage, headers, length, response, calls, wire>>
           ELSE Malformed

FieldLine ==
    /\ stage = "parse"
    /\ next \in 2..Len(head)
    /\ LET line == head[next]
       IN  IF line = <<>> \/ Splits(line, ":")
           THEN /\ headers' = IF line = <<>> THEN headers
                              ELSE Append(headers, Field(Trim(Before(line, ":")), Trim(After(line, ":"))))
                /\ next' = next + 1
                /\ UNCHANGED <<head, stage, target, length, response, calls, wire>>
           ELSE Malformed

\* Request::header: the place of the first field of that name.
Header(name) == SelectInSeq(headers, LAMBDA f : SameName(f.name, name))

\* One word that is a numeral parses; anything else counts as no length.
Announced ==
    LET k == Header(<<"content-length">>)
    IN  IF k > 0 /\ Len(headers[k].value) = 1 /\ headers[k].value[1] \in DOMAIN Numbers
        THEN Numbers[headers[k].value[1]] ELSE 0

HeadParsed ==
    /\ stage = "parse"
    /\ next > Len(head)
    /\ length' = Announced
    /\ stage' = "handle"
    /\ next' = 1
    /\ UNCHANGED <<head, target, headers, response, calls, wire>>

\* Request::path and Request::query
Path  == Before(target, "?")
Query == IF Splits(target, "?") THEN <<After(target, "?")>> ELSE <<>>

-------------------------------------------------------------------------------
\* The handler and its Response

Builds(r) ==
    /\ stage = "handle"
    /\ calls < MaxCalls
    /\ response' = r
    /\ calls' = calls + 1
    /\ UNCHANGED <<head, stage, next, request, wire>>

Status == \E status \in Statuses : Builds([response EXCEPT !.status = status])

AddHeader == \E name \in Names, value \in Values : Builds(AddField(response, name, value))

\* A handler that answers with what it was asked, as an echo or a proxy does.
CopyHeader == \E name \in Names : /\ Header(name) > 0
                                  /\ Builds(AddField(response, name, headers[Header(name)].value))

CopyBody == Builds([response EXCEPT !.body = length])

Body == \E body \in Bodies : Builds([response EXCEPT !.body = body])

\* text, html and json: each adds a Content-Type to those there are.
Typed == \E type \in {"text/plain", "text/html", "application/json"}, body \in Bodies :
             Builds(WithType(response, <<type>>, body))

Return ==
    /\ stage = "handle"
    /\ stage' = "encode"
    /\ UNCHANGED <<head, next, request, response, calls, wire>>

-------------------------------------------------------------------------------
\* encode

Framing(name) == SameName(name, <<"content-length">>) \/ SameName(name, <<"connection">>)

\* push_str of a name and a value, as they are, and of a line break.
Line(name, value) == name \o <<":", Blank>> \o value
PushLine(w, line) == [text |-> w.text \o line \o <<CRLF>>,
                      ends |-> Append(w.ends, Len(w.text) + Len(line) + 1)]

EncodeField ==
    /\ stage = "encode"
    /\ next <= Len(response.fields)
    /\ LET f == response.fields[next]
       IN  wire' = IF Framing(f.name) THEN wire ELSE PushLine(wire, Line(f.name, f.value))
    /\ next' = next + 1
    /\ UNCHANGED <<head, stage, request, response, calls>>

Numeral(n) == CHOOSE w \in DOMAIN Numbers : Numbers[w] = n

EncodeEnd ==
    /\ stage = "encode"
    /\ next > Len(response.fields)
    /\ LET announced == PushLine(wire, Line(<<"Content-Length">>, <<Numeral(response.body)>>))
           closing == PushLine(announced, Line(<<"Connection">>, <<"close">>))
       IN  wire' = PushLine(closing, <<>>)
    /\ stage' = "sent"
    /\ UNCHANGED <<head, next, request, response, calls>>

MessageNext == \/ RequestLine
        \/ FieldLine
        \/ HeadParsed
        \/ Status
        \/ AddHeader
        \/ CopyHeader
        \/ CopyBody
        \/ Body
        \/ Typed
        \/ Return
        \/ EncodeField
        \/ EncodeEnd

MessageSpec == MessageInit /\ [][MessageNext]_messageVars

-------------------------------------------------------------------------------
\* Safety

Clean(text) == text = <<>> \/ (text[1] # Blank /\ text[Len(text)] # Blank)

\* The text is this part of it, and blanks around it that do not belong to it.
Surrounds(text, part) ==
    /\ Clean(part)
    /\ \E first \in 1..(Len(text) + 1), last \in 0..Len(text) :
          /\ part = SubSeq(text, first, last)
          /\ \A p \in 1..Len(text) : p \notin first..last => text[p] = Blank

\* What HTTP means by a line: a name without a colon, a colon and a value, with
\* blanks around them that belong to neither, and no line break.
Means(line, f) ==
    /\ CRLF \notin ToSet(line)
    /\ ":" \notin ToSet(f.name)
    /\ \E colon \in 1..Len(line) :
          /\ line[colon] = ":"
          /\ Surrounds(SubSeq(line, 1, colon - 1), f.name)
          /\ Surrounds(SubSeq(line, colon + 1, Len(line)), f.value)

\* The handler is given the fields the client's lines mean, all of them and in
\* order, a target without blanks that path and query take apart at its first "?",
\* and the length that all Content-Length fields agree on (http.rs:74-91, 357-398).
RequestRead == stage = "handle" =>
    /\ Len(headers) = Len(head) - 1
    /\ \A i \in 1..Len(headers) : Means(head[i + 1], headers[i])
    /\ Blank \notin ToSet(target)
    /\ target = IF Query = <<>> THEN Path ELSE Path \o <<"?">> \o Query[1]
    /\ "?" \notin ToSet(Path)
    /\ LET lengths == {f.value : f \in {g \in ToSet(headers) : SameName(g.name, <<"Content-Length">>)}}
       IN  /\ lengths = {} => length = 0
           /\ \A w \in DOMAIN Numbers : lengths = {<<w>>} => length = Numbers[w]

\* The lines are the first m of these fields but those that encode sets itself, in
\* order.
Ours(f) == Len(f.name) = 1 /\ Fold[f.name[1]] \in {"content-length", "connection"}

Written(fields, m, lines) ==
    \E kept \in [1..Len(lines) -> ToSet(fields)] :
       /\ Selects(kept, fields, {p \in 1..m : ~Ours(fields[p])})
       /\ \A i \in 1..Len(lines) : Means(lines[i], Field(kept[i].name, Trim(kept[i].value)))

\* What is between the ends of two lines, and that a line break is at each of them.
Lines(w) == [i \in 1..(Len(w.ends) - 1) |-> SubSeq(w.text, w.ends[i] + 1, w.ends[i + 1] - 1)]

Ended(w) == /\ w.ends[1] = 0 /\ w.ends[Len(w.ends)] = Len(w.text)
            /\ \A i \in 2..Len(w.ends) : w.text[w.ends[i]] = CRLF

\* A field that a line can hold.  header takes any name and value; a value copied
\* from the request never has a line break.
Fits(f) == /\ Clean(f.name) /\ {":", CRLF} \cap ToSet(f.name) = {}
           /\ f.value \in Values => CRLF \notin ToSet(f.value)

AllFit(r) == \A i \in 1..Len(r.fields) : Fits(r.fields[i])

\* Whatever a handler builds, the head ends in one line Content-Length, that of the
\* body, one line Connection: close, and an empty line.  If it sets fields that a
\* line can hold, or copies values of the request, then the client reads them before,
\* in order, and no other field of these two names in any spelling (http.rs:100-101, 165-186).
ResponseFramed == stage = "sent" =>
    LET n == Len(Lines(wire)) - 3
    IN  /\ Ended(wire)
        /\ \E w \in DOMAIN Numbers : /\ Numbers[w] = response.body
                                     /\ Means(Lines(wire)[n + 1], Field(<<"Content-Length">>, <<w>>))
        /\ Means(Lines(wire)[n + 2], Field(<<"Connection">>, <<"close">>))
        /\ Lines(wire)[n + 3] = <<>>
        /\ AllFit(response) =>
              Written(response.fields, Len(response.fields), SubSeq(Lines(wire), 1, n))

-------------------------------------------------------------------------------
\* The inductive invariant

Fields == [name : Text, value : Text]
Counts == {Numbers[w] : w \in DOMAIN Numbers}
ResponseType == [status : Statuses \cup {200, 400}, fields : Seq(Fields), body : Counts]

\* A value with a line break is one that the handler made up.
ResponseOK(r) ==
    /\ r \in ResponseType
    /\ \A i \in 1..Len(r.fields) :
          r.fields[i].value \in Values \/ CRLF \notin ToSet(r.fields[i].value)

\* The lines of the head follow each other, and the last ends where the text does.
WireOK(w) ==
    /\ w \in [text : Text, ends : Seq(Nat)]
    /\ w.ends # <<>>
    /\ \A i \in 1..(Len(w.ends) - 1) : w.ends[i] < w.ends[i + 1]
    /\ \A i \in 1..Len(w.ends) : w.ends[i] <= Len(w.text)
    /\ Ended(w)

MessageTypeOK ==
    /\ head \in Heads
    /\ stage \in {"parse", "handle", "encode", "sent"}
    /\ next \in Nat \ {0}
    /\ target \in Text
    /\ headers \in Seq(Fields)
    /\ \A i \in 1..Len(headers) : CRLF \notin ToSet(headers[i].value)
    /\ length \in Counts
    /\ ResponseOK(response)
    /\ WireOK(wire)

\* The first k fields are what the lines of the head mean.
HeadersMean(k) == Len(headers) = k /\ \A i \in 1..k : Means(head[i + 1], headers[i])

Parsing ==
    /\ stage = "parse" => /\ next \in 1..(Len(head) + 1)
                          /\ HeadersMean(IF next = 1 THEN 0 ELSE next - 2)
    /\ stage = "handle" => HeadersMean(Len(head) - 1) /\ length = Announced
    /\ Blank \notin ToSet(target)

Encoding ==
    /\ stage \in {"parse", "handle"} => wire = NoLine
    /\ stage = "handle" => next = 1
    /\ stage = "encode" =>
          /\ next <= Len(response.fields) + 1
          /\ AllFit(response) => Written(response.fields, next - 1, Lines(wire))

MessageIInv == MessageTypeOK /\ Parsing /\ Encoding /\ ResponseFramed

-------------------------------------------------------------------------------
\* What the documentation of Response says, and the code does not do

\* Of Content-Length and Connection a response has one field each, the one encode
\* adds: "any header you set with those names is ignored" (http.rs:100-101).  A field's
\* name is what read_request itself reads in its line, trimmed (http.rs:384-387).
Called(name) ==
    LET breaks == {0} \cup {p \in 1..Len(wire.text) : wire.text[p] = CRLF}
        lines == {l \in breaks \X breaks : l[1] < l[2] /\ breaks \cap (l[1] + 1)..(l[2] - 1) = {}}
        Read(l) == SubSeq(wire.text, l[1] + 1, l[2] - 1)
    IN  {l \in lines : Splits(Read(l), ":") /\ SameName(Trim(Before(Read(l), ":")), name)}

OneOfEach == stage = "sent" =>
    \A name \in {<<"Content-Length">>, <<"Connection">>} : Cardinality(Called(name)) = 1
===============================================================================
