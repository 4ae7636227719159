---------------------------- MODULE SelectionProofs ----------------------------
(***************************************************************************)
(* Facts about Selects, for the modules that build a sequence piece by     *)
(* piece from another one.                                                 *)
(***************************************************************************)
EXTENDS Selection, TLAPS

\* Nothing is selected from no position.
LEMMA SelectsNone == ASSUME NEW s PROVE Selects(<<>>, s, {})
<1> DEFINE at == [i \in 1..0 |-> 0]
<1>1. at \in [1..Len(<<>>) -> {}]
  OBVIOUS
<1> QED
  BY <1>1 DEF Selects

\* Only the selected elements matter.
LEMMA SelectsSame ==
    ASSUME NEW t, NEW s, NEW r, NEW P, Selects(t, s, P), \A p \in P : r[p] = s[p]
    PROVE  Selects(t, r, P)
<1>1. PICK at \in [1..Len(t) -> P] :
         /\ \A p \in P : \E i \in 1..Len(t) : at[i] = p
         /\ \A i, j \in 1..Len(t) : i < j => at[i] < at[j]
         /\ \A i \in 1..Len(t) : t[i] = s[at[i]]
  BY DEF Selects
<1>2. \A i \in 1..Len(t) : t[i] = r[at[i]]
  BY <1>1
<1> QED
  BY <1>1, <1>2 DEF Selects

\* What follows the selected positions is selected behind what they selected.
LEMMA SelectsMore ==
    ASSUME NEW X, NEW t \in Seq(X), NEW u \in Seq(X), NEW s, NEW m \in Nat,
           NEW P \in SUBSET (1..m), Selects(t, s, P),
           \A i \in 1..Len(u) : s[m + i] = u[i]
    PROVE  Selects(t \o u, s, P \cup (m + 1)..(m + Len(u)))
<1> DEFINE n == Len(t)
           k == Len(u)
           Q == P \cup (m + 1)..(m + k)
<1>1. PICK at \in [1..n -> P] :
         /\ \A p \in P : \E i \in 1..n : at[i] = p
         /\ \A i, j \in 1..n : i < j => at[i] < at[j]
         /\ \A i \in 1..n : t[i] = s[at[i]]
  BY DEF Selects
<1>2. n \in Nat /\ k \in Nat /\ Len(t \o u) = n + k
  OBVIOUS
<1>3. \A i \in 1..n : at[i] \in 1..m /\ (t \o u)[i] = t[i]
  <2>1. \A i \in 1..n : at[i] \in P
    OBVIOUS
  <2>2. \A i \in 1..n : (t \o u)[i] = t[i]
    OBVIOUS
  <2> QED
    BY <2>1, <2>2
<1>4. \A i \in 1..(n + k) : i > n => i - n \in 1..k /\ (t \o u)[i] = u[i - n]
  BY <1>2
<1> DEFINE to == [i \in 1..(n + k) |-> IF i <= n THEN at[i] ELSE m + (i - n)]
<1>5. to \in [1..(n + k) -> Q]
  BY <1>1, <1>2
<1>6. \A p \in Q : \E i \in 1..(n + k) : to[i] = p
  <2>1. ASSUME NEW p \in P PROVE \E i \in 1..(n + k) : to[i] = p
    BY <1>1, <1>2
  <2>2. ASSUME NEW p \in (m + 1)..(m + k) PROVE \E i \in 1..(n + k) : to[i] = p
    <3>1. p - m \in 1..k /\ n + (p - m) \in 1..(n + k) /\ ~(n + (p - m) <= n)
      BY <1>2
    <3>2. to[n + (p - m)] = p
      BY <1>2, <3>1
    <3> QED
      BY <3>1, <3>2
  <2> QED
    BY <2>1, <2>2
<1>7. \A i, j \in 1..(n + k) : i < j => to[i] < to[j]
  <2> SUFFICES ASSUME NEW i \in 1..(n + k), NEW j \in 1..(n + k), i < j
               PROVE  to[i] < to[j]
    OBVIOUS
  <2>1. CASE j <= n
    BY <2>1, <1>1, <1>2
  <2>2. CASE i <= n /\ j > n
    BY <2>2, <1>2, <1>3
  <2>3. CASE i > n
    BY <2>3, <1>2
  <2> QED
    BY <2>1, <2>2, <2>3, <1>2
<1>8. \A i \in 1..(n + k) : (t \o u)[i] = s[to[i]]
  <2> SUFFICES ASSUME NEW i \in 1..(n + k) PROVE (t \o u)[i] = s[to[i]]
    OBVIOUS
  <2>1. CASE i <= n
    BY <2>1, <1>1, <1>2, <1>3
  <2>2. CASE i > n
    BY <2>2, <1>2, <1>4
  <2> QED
    BY <2>1, <2>2, <1>2
<1> HIDE DEF to
<1>9. Selects(t \o u, s, Q)
  <2> HIDE DEF Q, n, k
  <2>1. \E f \in [1..(n + k) -> Q] :
           /\ \A p \in Q : \E i \in 1..(n + k) : f[i] = p
           /\ \A i, j \in 1..(n + k) : i < j => f[i] < f[j]
           /\ \A i \in 1..(n + k) : (t \o u)[i] = s[f[i]]
    BY <1>5, <1>6, <1>7, <1>8
  <2>2. ASSUME NEW w, Len(w) = n + k,
               \E f \in [1..(n + k) -> Q] :
                  /\ \A p \in Q : \E i \in 1..(n + k) : f[i] = p
                  /\ \A i, j \in 1..(n + k) : i < j => f[i] < f[j]
                  /\ \A i \in 1..(n + k) : w[i] = s[f[i]]
        PROVE  Selects(w, s, Q)
    BY ONLY <2>2, <1>2 DEF Selects
  <2> QED
    BY <1>2, <2>1, <2>2
<1> QED
  BY <1>9
===============================================================================
