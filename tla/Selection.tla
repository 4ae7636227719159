------------------------------- MODULE Selection -------------------------------
(***************************************************************************)
(* The elements of a sequence at some of its positions, in their order:    *)
(* what SelectSeq returns, said by positions so that it can be proved      *)
(* about.                                                                  *)
(***************************************************************************)
EXTENDS Naturals, Sequences

\* t has the elements of s at the positions in P, all of them and in order.
Selects(t, s, P) ==
    \E at \in [1..Len(t) -> P] :
       /\ \A p \in P : \E i \in 1..Len(t) : at[i] = p
       /\ \A i, j \in 1..Len(t) : i < j => at[i] < at[j]
       /\ \A i \in 1..Len(t) : t[i] = s[at[i]]
===============================================================================
