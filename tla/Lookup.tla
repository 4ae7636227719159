------------------------------- MODULE Lookup -------------------------------
(***************************************************************************)
(* lookup_host of crates/ps5/src/net.rs: one call of getaddrinfo and a walk *)
(* over the linked list it allocates.                                      *)
(*                                                                         *)
(* The list is a sequence of addrinfo nodes and `cur` an index into it,    *)
(* Len(list) + 1 being the null pointer at its end.                        *)
(***************************************************************************)
EXTENDS Naturals, Sequences

CONSTANTS
    Lists,   \* the lists getaddrinfo may allocate
    Null     \* the null ai_addr

VARIABLES
    lookup,  \* "call", "walk", "free", "ok" or "err"
    list,    \* what `res` points to, empty when nothing is allocated
    cur,     \* the walk's node
    out      \* the Vec of addresses

lookupVars == <<lookup, list, cur, out>>

Init ==
    /\ lookup = "call"
    /\ list = <<>>
    /\ cur = 1
    /\ out = <<>>

\* The host name holds a NUL, or getaddrinfo returns rc # 0 and allocates nothing.
Fail ==
    /\ lookup = "call"
    /\ lookup' = "err"
    /\ UNCHANGED <<list, cur, out>>

Resolve ==
    /\ lookup = "call"
    /\ list' \in Lists
    /\ lookup' = "walk"
    /\ UNCHANGED <<cur, out>>

\* The nodes whose address is copied.
AnyFamily(ai) == ai.ai_addr # Null
Usable(ai)    == ai.ai_family = "AF_INET" /\ ai.ai_addr # Null

Visit ==
    /\ lookup = "walk"
    /\ cur <= Len(list)
    /\ out' = IF Usable(list[cur]) THEN Append(out, list[cur].ai_addr) ELSE out
    /\ cur' = cur + 1
    /\ UNCHANGED <<lookup, list>>

EndWalk ==
    /\ lookup = "walk"
    /\ cur > Len(list)
    /\ lookup' = "free"
    /\ UNCHANGED <<list, cur, out>>

\* freeaddrinfo(res): from here on no node may be read.
Free ==
    /\ lookup = "free"
    /\ lookup' = "ok"
    /\ list' = <<>>
    /\ UNCHANGED <<cur, out>>

Next == Fail \/ Resolve \/ Visit \/ EndWalk \/ Free
===============================================================================
