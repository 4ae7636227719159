------------------------------- MODULE HttpClient -------------------------------
(***************************************************************************)
(* Client of crates/ps5/src/http.rs: the chain of SCE handles a Client     *)
(* owns (net pool, SSL context, HTTP/2 library context, request template), *)
(* built by Client::new, unwound when a step of it fails and torn down by  *)
(* Drop; and the requests made with it.                                    *)
(*                                                                         *)
(* A Client is shared by the threads that call `request`: each call        *)
(* borrows it, and it cannot be dropped while borrowed.                    *)
(*                                                                         *)
(* The bytes of a response body are numbered.                              *)
(*                                                                         *)
(* UnwindsItself, NextTermSkips, ReturnUnsent, FullChunk, WholeChunk and   *)
(* DeleteErrorWins are used by no action: each is a plausible mistake in   *)
(* the definition after it, and put in its place makes a property below    *)
(* fail.                                                                   *)
(***************************************************************************)
EXTENDS Naturals, Sequences

CONSTANTS Clients,     \* the calls of Client::new
          Calls,       \* the calls of Client::request
          None,        \* no client
          ReadChunk,   \* READ_CHUNK
          MaxBody      \* the longest body a server sends

ASSUME ConstantsType == /\ None \notin Clients
                        /\ ReadChunk \in Nat \ {0}
                        /\ MaxBody \in Nat

VARIABLES
    stage,     \* the next SCE call of Client::new, or what became of the Client
    todo,      \* the next handle to tear down
    live,      \* the SCE handles that exist
    call,      \* the next SCE call of a request
    client,    \* the Client a request borrows
    handle,    \* the request's own SCE handle
    sent,      \* length of the response body the server sends
    got,       \* how much of it sceHttp2ReadData has returned
    body,      \* `body_buf`
    result     \* what request is about to return, or returned

clientVars == <<stage, todo, live>>
callVars   == <<call, client, handle, sent, got, body, result>>
vars == <<clientVars, callVars>>

Handles == {"pool", "ssl", "lib", "template"}
Steps   == {"net"} \cup Handles
Outcome == {"none", "ok", "create", "send", "status", "read", "delete"}

TypeOK ==
    /\ stage  \in [Clients -> {"none", "ready", "unwinding", "err", "dropping", "gone"} \cup Steps]
    /\ todo   \in [Clients -> Handles \cup {"none"}]
    /\ live   \in [Clients -> SUBSET Handles]
    /\ call   \in [Calls -> {"none", "create", "send", "status", "read", "delete", "done"}]
    /\ client \in [Calls -> Clients \cup {None}]
    /\ handle \in [Calls -> {"none", "live", "deleted", "undeleted"}]
    /\ sent   \in [Calls -> 0..MaxBody]
    /\ got    \in [Calls -> 0..MaxBody]
    /\ body   \in [Calls -> Seq(0..MaxBody)]
    /\ result \in [Calls -> Outcome]

Init ==
    /\ stage  = [c \in Clients |-> "none"]
    /\ todo   = [c \in Clients |-> "none"]
    /\ live   = [c \in Clients |-> {}]
    /\ call   = [r \in Calls |-> "none"]
    /\ client = [r \in Calls |-> None]
    /\ handle = [r \in Calls |-> "none"]
    /\ sent   = [r \in Calls |-> 0]
    /\ got    = [r \in Calls |-> 0]
    /\ body   = [r \in Calls |-> <<>>]
    /\ result = [r \in Calls |-> "none"]

-------------------------------------------------------------------------------
\* Client::new

\* The call after a successful one, and the first handle torn down after a failed
\* one.  sceNetInit has no teardown.
Following == [net |-> "pool", pool |-> "ssl", ssl |-> "lib", lib |-> "template",
              template |-> "ready"]
UnwindsItself == [h \in Steps |-> h]
Unwinds       == [net |-> "none", pool |-> "none", ssl |-> "pool", lib |-> "ssl",
                  template |-> "lib"]

\* A user agent with a NUL byte is refused before anything is created.
New(c) ==
    /\ stage[c] = "none"
    /\ \E s \in {"net", "err"} : stage' = [stage EXCEPT ![c] = s]
    /\ UNCHANGED <<todo, live, callVars>>

CreateNext(c) ==
    /\ stage[c] \in Steps
    /\ stage' = [stage EXCEPT ![c] = Following[@]]
    /\ live'  = [live EXCEPT ![c] = @ \cup ({stage[c]} \ {"net"})]
    /\ UNCHANGED <<todo, callVars>>

CreateFails(c) ==
    /\ stage[c] \in Steps
    /\ stage' = [stage EXCEPT ![c] = "unwinding"]
    /\ todo'  = [todo EXCEPT ![c] = Unwinds[stage[c]]]
    /\ UNCHANGED <<live, callVars>>

-------------------------------------------------------------------------------
\* Tearing down, after a failed step of new and in Drop

NextTermSkips == [template |-> "lib", lib |-> "pool", ssl |-> "pool", pool |-> "none"]
NextTerm      == [template |-> "lib", lib |-> "ssl",  ssl |-> "pool", pool |-> "none"]

Borrowed(c) == \E r \in Calls : client[r] = c /\ call[r] # "done"

\* The owner drops the Client.
DropClient(c) ==
    /\ stage[c] = "ready"
    /\ ~Borrowed(c)
    /\ stage' = [stage EXCEPT ![c] = "dropping"]
    /\ todo'  = [todo EXCEPT ![c] = "template"]
    /\ UNCHANGED <<live, callVars>>

Term(c) ==
    /\ stage[c] \in {"unwinding", "dropping"}
    /\ todo[c] # "none"
    /\ live' = [live EXCEPT ![c] = @ \ {todo[c]}]
    /\ todo' = [todo EXCEPT ![c] = NextTerm[@]]
    /\ UNCHANGED <<stage, callVars>>

TornDown(c) ==
    /\ stage[c] \in {"unwinding", "dropping"}
    /\ todo[c] = "none"
    /\ stage' = [stage EXCEPT ![c] = IF @ = "unwinding" THEN "err" ELSE "gone"]
    /\ UNCHANGED <<todo, live, callVars>>

-------------------------------------------------------------------------------
\* Client::request

Request(r, c) ==
    /\ call[r] = "none"
    /\ stage[c] = "ready"
    /\ call'   = [call EXCEPT ![r] = "create"]
    /\ client' = [client EXCEPT ![r] = c]
    /\ UNCHANGED <<clientVars, handle, sent, got, body, result>>

\* A method or URL with a NUL byte, or sceHttp2CreateRequestWithURL fails: there
\* is no request to delete.
CreateRequest(r) ==
    /\ call[r] = "create"
    /\ \/ /\ call'   = [call EXCEPT ![r] = "send"]
          /\ handle' = [handle EXCEPT ![r] = "live"]
          /\ UNCHANGED result
       \/ /\ call'   = [call EXCEPT ![r] = "done"]
          /\ result' = [result EXCEPT ![r] = "create"]
          /\ UNCHANGED handle
    /\ UNCHANGED <<clientVars, client, sent, got, body>>

\* A step of run_request fails: whatever it was, the request is deleted next.
ReturnUnsent(r) == IF call[r] = "send" THEN "done" ELSE "delete"
AfterError(r)   == "delete"

RunFails(r) ==
    /\ call[r] \in {"send", "status", "read"}
    /\ result' = [result EXCEPT ![r] = call[r]]
    /\ call'   = [call EXCEPT ![r] = AfterError(r)]
    /\ UNCHANGED <<clientVars, client, handle, sent, got, body>>

SendRequest(r) ==
    /\ call[r] = "send"
    /\ call' = [call EXCEPT ![r] = "status"]
    /\ UNCHANGED <<clientVars, client, handle, sent, got, body, result>>

\* The status is known; the server sends a body of some length.
GetStatusCode(r) ==
    /\ call[r] = "status"
    /\ call' = [call EXCEPT ![r] = "read"]
    /\ \E n \in 0..MaxBody : sent' = [sent EXCEPT ![r] = n]
    /\ UNCHANGED <<clientVars, client, handle, got, body, result>>

\* sceHttp2ReadData returns some of what is still to come; nothing only at the end.
FullChunk(n) == n = ReadChunk
ReadsOn(n)   == n > 0

\* What the loop appends: the part of the chunk that was filled.
WholeChunk(r, n) == [i \in 1..ReadChunk |-> IF i <= n THEN got[r] + i ELSE 0]
Filled(r, n)     == [i \in 1..n |-> got[r] + i]

ReadData(r) ==
    /\ call[r] = "read"
    /\ \E n \in 0..ReadChunk :
          /\ got[r] + n <= sent[r]
          /\ n = 0 => got[r] = sent[r]
          /\ got'  = [got EXCEPT ![r] = @ + n]
          /\ body' = [body EXCEPT ![r] = @ \o Filled(r, n)]
          /\ \/ ReadsOn(n) /\ UNCHANGED <<call, result>>
             \/ /\ ~ReadsOn(n)
                /\ call'   = [call EXCEPT ![r] = "delete"]
                /\ result' = [result EXCEPT ![r] = "ok"]
    /\ UNCHANGED <<clientVars, client, handle, sent>>

\* What request returns after a failed delete: an earlier error is kept.
DeleteErrorWins(r) == "delete"
OrDeleteError(r)   == IF result[r] = "ok" THEN "delete" ELSE result[r]

\* sceHttp2DeleteRequest, and request returns.
DeleteRequest(r) ==
    /\ call[r] = "delete"
    /\ \/ /\ handle' = [handle EXCEPT ![r] = "deleted"]
          /\ UNCHANGED result
       \/ /\ handle' = [handle EXCEPT ![r] = "undeleted"]
          /\ result' = [result EXCEPT ![r] = OrDeleteError(r)]
    /\ call' = [call EXCEPT ![r] = "done"]
    /\ UNCHANGED <<clientVars, client, sent, got, body>>

-------------------------------------------------------------------------------
ClientStep(c) == \/ New(c)
                 \/ CreateNext(c)
                 \/ CreateFails(c)
                 \/ DropClient(c)
                 \/ Term(c)
                 \/ TornDown(c)

CallStep(r) == \/ \E c \in Clients : Request(r, c)
               \/ CreateRequest(r)
               \/ RunFails(r)
               \/ SendRequest(r)
               \/ GetStatusCode(r)
               \/ ReadData(r)
               \/ DeleteRequest(r)

Next == \/ \E c \in Clients : ClientStep(c)
        \/ \E r \in Calls : CallStep(r)

Spec == Init /\ [][Next]_vars

-------------------------------------------------------------------------------
\* Safety

\* A handle uses the ones below it.
Uses == [pool |-> {}, ssl |-> {}, lib |-> {"pool", "ssl"}, template |-> {"lib"}]

\* "No SCE handle leaks": a new that failed at any of its steps, and a dropped
\* Client, leave nothing behind (http.rs:69-70, 246-257).
NothingLeaks == \A c \in Clients : stage[c] \in {"none", "err", "gone"} => live[c] = {}

\* "Each call below operates on a live handle": what is torn down exists, what
\* exists has what it uses, and so has a request in the middle of its sequence,
\* whatever the other threads do with the Client (http.rs:248-250).
HandlesLive ==
    /\ \A c \in Clients : /\ todo[c] # "none" => todo[c] \in live[c]
                          /\ \A h \in live[c] : Uses[h] \subseteq live[c]
    /\ \A r \in Calls :
          /\ call[r] = "create" \/ handle[r] = "live" => "template" \in live[client[r]]
          /\ call[r] \in {"send", "status", "read", "delete"} => handle[r] = "live"

\* "The underlying SCE request is always deleted before returning, even on error"
\* (http.rs:154-155); an Ok response was deleted successfully (http.rs:182-187).
RequestDeleted == \A r \in Calls : call[r] = "done" =>
    /\ handle[r] # "live"
    /\ result[r] = "ok" => handle[r] = "deleted"

\* An Ok response has the entire body, each byte once and in order, and nothing else,
\* however the body was cut into reads (http.rs:153-154, 220-237).
WholeBody == \A r \in Calls : result[r] = "ok" => body[r] = [i \in 1..sent[r] |-> i]

\* The first error is the one reported: a failed delete only replaces a success
\* (http.rs:190-191).
FirstErrorKept == [][\A r \in Calls :
    result[r] \notin {"none", "ok"} => result'[r] = result[r]]_vars

-------------------------------------------------------------------------------
\* The inductive invariant behind the safety properties

\* The handles that exist when h is the next one to tear down.
UpTo == [none |-> {}, pool |-> {"pool"}, ssl |-> {"pool", "ssl"},
         lib |-> {"pool", "ssl", "lib"}, template |-> Handles]

\* The chain is known from the stage: it grows and shrinks at its top only.
Chain(c) ==
    /\ stage[c] \in Steps => live[c] = UpTo[Unwinds[stage[c]]] /\ todo[c] = "none"
    /\ stage[c] = "ready" => live[c] = Handles /\ todo[c] = "none"
    /\ stage[c] \in {"unwinding", "dropping"} => live[c] = UpTo[todo[c]]
    /\ stage[c] \in {"none", "err", "gone"} => live[c] = {} /\ todo[c] = "none"

\* A request in progress borrows a Client that is ready.
Progress(r) ==
    /\ call[r] = "none" => client[r] = None
    /\ call[r] \notin {"none", "done"} => client[r] \in Clients /\ stage[client[r]] = "ready"
    /\ handle[r] = "live" <=> call[r] \in {"send", "status", "read", "delete"}
    /\ call[r] \in {"none", "create", "send", "status", "read"} => result[r] = "none"
    /\ call[r] = "done" /\ result[r] = "ok" => handle[r] = "deleted"

\* What was read of the body is in the buffer.
BodySoFar(r) ==
    /\ got[r] <= sent[r]
    /\ body[r] = [i \in 1..got[r] |-> i]
    /\ call[r] \in {"none", "create", "send", "status"} => got[r] = 0
    /\ result[r] = "ok" => got[r] = sent[r]

IInv == /\ TypeOK
        /\ \A c \in Clients : Chain(c)
        /\ \A r \in Calls : Progress(r) /\ BodySoFar(r)
===============================================================================
