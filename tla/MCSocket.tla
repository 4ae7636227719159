------------------------------ MODULE MCSocket ------------------------------
(* Two threads share each kind of socket, and call what one of six programs    *)
(* lets them: two writers of 2 bytes of which one shuts down, two readers, two *)
(* that change the flags, two on a listener and two on a datagram socket, once *)
(* with recv_from and once with recv by the one that connects it.              *)
EXTENDS Socket, TLC

CONSTANTS t1, t2, h1, h2, six

MCProgram(m1, m2) == t1 :> m1 @@ t2 :> m2

MCPrograms == {
    MCProgram({"write_all", "set_nonblocking"}, {"write_all", "shutdown"}),
    MCProgram({"read", "set_nonblocking"}, {"read", "shutdown"}),
    MCProgram({"set_nonblocking"}, {"set_nonblocking", "as_raw_fd"}),
    MCProgram({"accept"}, {"accept", "set_nonblocking"}),
    MCProgram({"recv", "send"}, {"recv_from", "connect"}),
    MCProgram({"recv_from", "send_to"}, {"recv", "connect"}) }

MCBuffer == t1 :> 2 @@ t2 :> 2

Node(family, a) == [ai_family |-> family, ai_addr |-> a]
MCNodes == {Node("AF_INET", h1), Node("AF_INET", h2), Node("AF_INET", Null), Node("AF_INET6", h2)}
MCLists == UNION {[1..n -> MCNodes] : n \in 0..2}
===============================================================================
