-------------------------- MODULE ListrItems_proofs --------------------------
(***************************************************************************)
(* Proofs about the order of items, for any number of devices, lists,      *)
(* items and operations: what resolveChain makes of any links; that what   *)
(* an operation pushes is all that it changed; that it makes of a chain    *)
(* the chain its user wants; and that the operator's scripts undo each     *)
(* other.                                                                  *)
(***************************************************************************)
EXTENDS ListrItems, FiniteSetTheorems, NaturalsInduction, WellFoundedInduction, TLAPS

-----------------------------------------------------------------------------
(* Sequences.                                                              *)

\* SetToSeq lists a finite set, each element once.
LEMMA SetListed ==
    ASSUME NEW S, IsFiniteSet(S)
    PROVE  /\ SetToSeq(S) \in Seq(S)
           /\ IsInjective(SetToSeq(S))
           /\ ToSet(SetToSeq(S)) = S
  <1> DEFINE n == Cardinality(S)
             q == SetToSeq(S)
  <1>1. n \in Nat /\ \E f \in Bijection(1 .. n, S) : TRUE
    BY FS_CardinalityType, Zenon DEF ExistsBijection
  <1>2. \E f \in [1 .. n -> S] : IsInjective(f)
    BY <1>1, Zenon DEF Bijection, Injection
  <1>3. q \in [1 .. n -> S] /\ IsInjective(q)
    BY <1>2, Zenon DEF SetToSeq
  <1>4. q \in Injection(1 .. n, S)
    BY <1>3, Zenon DEF Injection
  <1>5. IsFiniteSet(1 .. n) /\ Cardinality(1 .. n) = n
    BY <1>1, FS_Interval
  <1>6. q \in Surjection(1 .. n, S)
    BY <1>4, <1>5, FS_Injection, Zenon
  <1> HIDE DEF n, q
  <1>7. q \in Seq(S) /\ DOMAIN q = 1 .. n
    BY <1>1, <1>3
  <1>8. ToSet(q) = S
    BY <1>3, <1>6, <1>7 DEF Surjection, ToSet
  <1>9. QED
    BY <1>3, <1>7, <1>8 DEF q

\* Two sequences with nothing in common, one behind the other.
LEMMA SeqsJoined ==
    ASSUME NEW S, NEW s \in Seq(S), NEW t \in Seq(S), IsInjective(s), IsInjective(t),
           ToSet(s) \intersect ToSet(t) = {}
    PROVE  /\ s \o t \in Seq(S)
           /\ IsInjective(s \o t)
           /\ ToSet(s \o t) = ToSet(s) \union ToSet(t)
  <1>1. /\ s \o t \in Seq(S)
        /\ DOMAIN (s \o t) = 1 .. Len(s) + Len(t)
        /\ DOMAIN s = 1 .. Len(s) /\ Len(s) \in Nat
        /\ DOMAIN t = 1 .. Len(t) /\ Len(t) \in Nat
        /\ \A i \in 1 .. Len(s) : (s \o t)[i] = s[i]
        /\ \A i \in 1 .. Len(t) : (s \o t)[Len(s) + i] = t[i]
    OBVIOUS
  <1>2. \A i \in 1 .. Len(s) + Len(t) :
           \/ i \in 1 .. Len(s)
           \/ i - Len(s) \in 1 .. Len(t) /\ i = Len(s) + (i - Len(s))
    BY <1>1
  <1>3. \A i \in 1 .. Len(s) + Len(t) :
           \/ i \in 1 .. Len(s) /\ (s \o t)[i] = s[i]
           \/ i - Len(s) \in 1 .. Len(t) /\ (s \o t)[i] = t[i - Len(s)]
    BY <1>1, <1>2
  <1>4. \A i \in 1 .. Len(s), j \in 1 .. Len(t) : s[i] # t[j]
    <2>1. SUFFICES ASSUME NEW i \in 1 .. Len(s), NEW j \in 1 .. Len(t), s[i] = t[j] PROVE FALSE
      OBVIOUS
    <2>2. s[i] \in ToSet(s) /\ t[j] \in ToSet(t)
      BY <1>1, Zenon DEF ToSet
    <2>3. QED
      BY <2>1, <2>2
  <1>5. IsInjective(s \o t)
    <2>1. SUFFICES ASSUME NEW i \in 1 .. Len(s) + Len(t), NEW j \in 1 .. Len(s) + Len(t),
                          (s \o t)[i] = (s \o t)[j]
                   PROVE  i = j
      BY <1>1 DEF IsInjective
    <2>2. CASE i \in 1 .. Len(s) /\ j \in 1 .. Len(s)
      BY <1>1, <2>1, <2>2 DEF IsInjective
    <2>3. CASE i \notin 1 .. Len(s) /\ j \notin 1 .. Len(s)
      <3>3. /\ i - Len(s) \in 1 .. Len(t) /\ (s \o t)[i] = t[i - Len(s)]
            /\ j - Len(s) \in 1 .. Len(t) /\ (s \o t)[j] = t[j - Len(s)]
        BY <1>3, <2>3
      <3>4. t[i - Len(s)] = t[j - Len(s)]
        BY <2>1, <3>3
      <3>5. \A k, l \in 1 .. Len(t) : t[k] = t[l] => k = l
        BY <1>1 DEF IsInjective
      <3>1. i - Len(s) = j - Len(s)
        BY <3>3, <3>4, <3>5
      <3>2. QED
        BY <1>1, <3>1
    <2>4. CASE ~(i \in 1 .. Len(s) <=> j \in 1 .. Len(s))
      BY <1>3, <1>4, <2>1, <2>4
    <2>5. QED
      BY <2>2, <2>3, <2>4
  <1>6. ToSet(s \o t) \subseteq ToSet(s) \union ToSet(t)
    BY <1>1, <1>3 DEF ToSet
  <1>7. ToSet(s) \union ToSet(t) \subseteq ToSet(s \o t)
    <2>1. \A i \in 1 .. Len(s) : i \in 1 .. Len(s) + Len(t)
      BY <1>1
    <2>2. \A i \in 1 .. Len(t) : Len(s) + i \in 1 .. Len(s) + Len(t)
      BY <1>1
    <2>3. QED
      BY <1>1, <2>1, <2>2 DEF ToSet
  <1>8. QED
    BY <1>1, <1>5, <1>6, <1>7

\* The first of a sequence and the rest.
LEMMA SeqHead ==
    ASSUME NEW S, NEW s \in Seq(S), s # <<>>, IsInjective(s)
    PROVE  /\ Head(s) \in ToSet(s) /\ Head(s) \in S
           /\ Tail(s) \in Seq(S)
           /\ IsInjective(Tail(s))
           /\ ToSet(Tail(s)) = ToSet(s) \ {Head(s)}
  <1>1. /\ Tail(s) \in Seq(S)
        /\ DOMAIN s = 1 .. Len(s) /\ Len(s) \in Nat \ {0}
        /\ DOMAIN Tail(s) = 1 .. Len(s) - 1 /\ Len(Tail(s)) = Len(s) - 1
        /\ \A i \in 1 .. Len(s) - 1 : Tail(s)[i] = s[i + 1]
        /\ Head(s) = s[1] /\ Head(s) \in S
    OBVIOUS
  <1>2. \A i \in 1 .. Len(s) - 1 : i + 1 \in 1 .. Len(s) /\ i + 1 # 1
    BY <1>1
  <1>3. 1 \in 1 .. Len(s) /\ \A i \in 1 .. Len(s) : i # 1 => i - 1 \in 1 .. Len(s) - 1 /\ (i - 1) + 1 = i
    BY <1>1
  <1>4. \A i, j \in 1 .. Len(s) : s[i] = s[j] => i = j
    BY <1>1 DEF IsInjective
  <1>5. IsInjective(Tail(s))
    <2>1. SUFFICES ASSUME NEW i \in 1 .. Len(s) - 1, NEW j \in 1 .. Len(s) - 1, Tail(s)[i] = Tail(s)[j]
                   PROVE  i = j
      BY <1>1 DEF IsInjective
    <2>2. i + 1 = j + 1
      BY <1>1, <1>2, <1>4, <2>1
    <2>3. QED
      BY <1>1, <2>2
  <1>6. ASSUME NEW x \in ToSet(Tail(s)) PROVE x \in ToSet(s) \ {Head(s)}
    <2>1. PICK i \in 1 .. Len(s) - 1 : x = Tail(s)[i]
      BY <1>1, Zenon DEF ToSet
    <2>2. x = s[i + 1] /\ i + 1 \in DOMAIN s /\ x # s[1]
      BY <1>1, <1>2, <1>3, <1>4, <2>1
    <2>3. QED
      BY <1>1, <2>2 DEF ToSet
  <1>7. ASSUME NEW x \in ToSet(s) \ {Head(s)} PROVE x \in ToSet(Tail(s))
    <2>1. PICK i \in 1 .. Len(s) : x = s[i]
      BY <1>1, Zenon DEF ToSet
    <2>2. i - 1 \in DOMAIN Tail(s) /\ x = Tail(s)[i - 1]
      BY <1>1, <1>3, <1>7, <2>1
    <2>3. QED
      BY <2>2, Zenon DEF ToSet
  <1>8. Head(s) \in ToSet(s)
    BY <1>1, <1>3 DEF ToSet
  <1>9. QED
    BY <1>1, <1>5, <1>6, <1>7, <1>8

\* One more at the end.
LEMMA SeqLonger ==
    ASSUME NEW S, NEW s \in Seq(S), NEW x \in S
    PROVE  /\ Append(s, x) \in Seq(S)
           /\ ToSet(Append(s, x)) = ToSet(s) \union {x}
           /\ IsInjective(s) /\ x \notin ToSet(s) => IsInjective(Append(s, x))
  <1>1. /\ Append(s, x) \in Seq(S)
        /\ DOMAIN s = 1 .. Len(s) /\ Len(s) \in Nat
        /\ DOMAIN Append(s, x) = 1 .. Len(s) + 1
        /\ \A i \in 1 .. Len(s) : Append(s, x)[i] = s[i]
        /\ Append(s, x)[Len(s) + 1] = x
    OBVIOUS
  <1>2. \A i \in 1 .. Len(s) + 1 : i \in 1 .. Len(s) \/ i = Len(s) + 1
    BY <1>1
  <1>3. \A i \in 1 .. Len(s) : i \in 1 .. Len(s) + 1 /\ i # Len(s) + 1
    BY <1>1
  <1>4. Len(s) + 1 \in 1 .. Len(s) + 1
    BY <1>1
  <1>5. ToSet(Append(s, x)) = ToSet(s) \union {x}
    BY <1>1, <1>2, <1>3, <1>4 DEF ToSet
  <1>6. ASSUME IsInjective(s), x \notin ToSet(s) PROVE IsInjective(Append(s, x))
    <2>1. \A i \in 1 .. Len(s) : s[i] # x
      BY <1>1, <1>6 DEF ToSet
    <2>2. \A i, j \in 1 .. Len(s) : s[i] = s[j] => i = j
      BY <1>1, <1>6 DEF IsInjective
    <2> QED
      BY <1>1, <1>2, <1>3, <2>1, <2>2 DEF IsInjective
  <1> QED
    BY <1>1, <1>5, <1>6

LEMMA SeqNone ==
    ASSUME NEW S
    PROVE  <<>> \in Seq(S) /\ IsInjective(<<>>) /\ ToSet(<<>>) = {} /\ Len(<<>>) = 0
  BY DEF IsInjective, ToSet

-----------------------------------------------------------------------------
(* Sets in order (Ranked of ListrChain).                                   *)

\* B holds the pairs of a strict total order on S.
Orders(B, S) ==
    /\ \A i \in S : <<i, i>> \notin B
    /\ \A i, j, k \in S : <<i, j>> \in B /\ <<j, k>> \in B => <<i, k>> \in B
    /\ \A i, j \in S : i # j => <<i, j>> \in B \/ <<j, i>> \in B

\* Ranked lists a finite set, each member once, in order.
LEMMA RankedListed ==
    ASSUME NEW S, IsFiniteSet(S), NEW B, Orders(B, S)
    PROVE  /\ Ranked(S, B) \in Seq(S)
           /\ Len(Ranked(S, B)) = Cardinality(S)
           /\ IsInjective(Ranked(S, B))
           /\ ToSet(Ranked(S, B)) = S
           /\ \A m, n \in 1 .. Cardinality(S) : m < n => <<Ranked(S, B)[m], Ranked(S, B)[n]>> \in B
  <1> DEFINE N == Cardinality(S)
             front(k) == {j \in S : <<j, k>> \in B}
             at == [k \in S |-> 1 + Cardinality(front(k))]
             R == Ranked(S, B)
  <1>1. N \in Nat
    BY FS_CardinalityType
  <1>2. IsFiniteSet(1 .. N) /\ Cardinality(1 .. N) = N
    BY <1>1, FS_Interval
  <1>3. ASSUME NEW k \in S PROVE /\ IsFiniteSet(front(k)) /\ Cardinality(front(k)) \in Nat
                                 /\ at[k] = 1 + Cardinality(front(k)) /\ at[k] \in 1 .. N
    <2>1. front(k) \subseteq S \ {k}
      BY DEF Orders
    <2>2. IsFiniteSet(S \ {k}) /\ Cardinality(S \ {k}) = N - 1
      BY FS_RemoveElement
    <2>3. IsFiniteSet(front(k)) /\ Cardinality(front(k)) <= N - 1
      <3>1. PICK F, T : F = front(k) /\ T = S \ {k}
        OBVIOUS
      <3>2. IsFiniteSet(T) /\ F \in SUBSET T /\ Cardinality(T) = N - 1
        BY <2>1, <2>2, <3>1
      <3>3. IsFiniteSet(F) /\ Cardinality(F) <= Cardinality(T)
        BY <3>2, FS_Subset
      <3> QED
        BY <3>1, <3>2, <3>3
    <2>4. Cardinality(front(k)) \in Nat
      BY <2>3, FS_CardinalityType
    <2>5. at[k] = 1 + Cardinality(front(k))
      OBVIOUS
    <2> HIDE DEF at, front
    <2> QED
      BY <1>1, <2>3, <2>4, <2>5
  <1>4. ASSUME NEW j \in S, NEW k \in S, <<j, k>> \in B PROVE at[j] < at[k]
    <2>1. front(j) \union {j} \subseteq front(k) /\ j \notin front(j)
      BY <1>4 DEF Orders
    <2>2. /\ IsFiniteSet(front(j) \union {j})
          /\ Cardinality(front(j) \union {j}) = Cardinality(front(j)) + 1
      BY <1>3, <2>1, FS_AddElement
    <2>3. Cardinality(front(j) \union {j}) <= Cardinality(front(k))
      BY <1>3, <2>1, FS_Subset
    <2>4. at[j] = 1 + Cardinality(front(j)) /\ at[k] = 1 + Cardinality(front(k))
      BY <1>3
    <2>5. Cardinality(front(j)) \in Nat /\ Cardinality(front(k)) \in Nat
      BY <1>3
    <2> HIDE DEF at, front
    <2> QED
      BY <2>2, <2>3, <2>4, <2>5
  <1> DEFINE place(i) == Cardinality({j \in S : <<j, i>> \in B})
  <1>5. \A k \in S : place(k) = at[k] - 1 /\ at[k] \in 1 .. N
    BY <1>3
  <1>6. DOMAIN at = S /\ at \in [S -> 1 .. N]
    BY <1>3
  <1> HIDE DEF at
  <1>7. ASSUME NEW j \in S, NEW k \in S, at[j] = at[k] PROVE j = k
    <2>1. at[j] \in 1 .. N /\ at[k] \in 1 .. N
      BY <1>6
    <2> HIDE DEF N
    <2>2. at[j] \in Int /\ at[k] \in Int
      BY <1>1, <2>1
    <2>3. ~ (<<j, k>> \in B) /\ ~ (<<k, j>> \in B)
      BY <1>4, <1>7, <2>2
    <2> QED
      BY <2>3 DEF Orders
  <1>8. at \in Injection(S, 1 .. N)
    BY <1>6, <1>7 DEF Injection, IsInjective
  <1>9. at \in Surjection(S, 1 .. N)
    BY <1>2, <1>8, FS_Injection
  <1>10. R = [n \in 1 .. N |-> CHOOSE i \in S : place(i) = n - 1]
    BY DEF Ranked
  <1>11. ASSUME NEW n \in 1 .. N PROVE R[n] \in S /\ at[R[n]] = n
    <2>1. PICK k \in S : at[k] = n
      BY <1>9 DEF Surjection
    <2>2. k \in S /\ place(k) = n - 1
      BY <1>5, <2>1
    <2>3. R[n] = CHOOSE i \in S : place(i) = n - 1
      BY <1>10
    <2> HIDE DEF place, R
    <2>4. R[n] \in S /\ place(R[n]) = n - 1
      BY <2>2, <2>3
    <2> QED
      BY <1>5, <2>4
  <1>12. DOMAIN R = 1 .. N /\ R = [n \in 1 .. N |-> R[n]]
    BY <1>10
  <1> HIDE DEF R
  <1>13. R \in Seq(S) /\ Len(R) = N
    BY <1>1, <1>11, <1>12
  <1>14. IsInjective(R)
    BY <1>11, <1>12 DEF IsInjective
  <1>15. ToSet(R) = S
    <2>1. ASSUME NEW k \in S PROVE \E n \in 1 .. N : R[n] = k
      <3>1. at[k] \in 1 .. N
        BY <1>5
      <3>2. R[at[k]] \in S /\ at[R[at[k]]] = at[k]
        BY <1>11, <3>1
      <3> QED
        BY <1>7, <3>1, <3>2
    <2> QED
      BY <1>11, <1>12, <2>1 DEF ToSet
  <1>16. ASSUME NEW m \in 1 .. N, NEW n \in 1 .. N, m < n PROVE <<R[m], R[n]>> \in B
    <2>1. R[m] \in S /\ R[n] \in S /\ at[R[m]] = m /\ at[R[n]] = n
      BY <1>11
    <2>2. R[m] # R[n]
      BY <1>16, <2>1
    <2>3. ~ (<<R[n], R[m]>> \in B)
      BY <1>1, <1>4, <1>16, <2>1
    <2> QED
      BY <2>1, <2>2, <2>3 DEF Orders
  <1> QED
    BY <1>13, <1>14, <1>15, <1>16 DEF R

LEMMA AscendingOrders == ASSUME NEW S, S \subseteq Int PROVE Orders(Ascending, S)
  <1>1. \A i, j \in Int : <<i, j>> \in Ascending <=> i < j
    BY DEF Ascending
  <1> QED
    BY <1>1 DEF Orders

\* A sequence without some items.
LEMMA LeftOut ==
    ASSUME NEW X, NEW s \in Seq(X), NEW S
    PROVE  /\ LeavingOut(s, S) \in Seq(X)
           /\ ToSet(LeavingOut(s, S)) = ToSet(s) \ S
           /\ IsInjective(s) => IsInjective(LeavingOut(s, S))
  <1> DEFINE P == {n \in DOMAIN s : s[n] \notin S}
             R == Ranked(P, Ascending)
             r == LeavingOut(s, S)
  <1>1. DOMAIN s = 1 .. Len(s) /\ Len(s) \in Nat /\ \A n \in 1 .. Len(s) : s[n] \in X
    OBVIOUS
  <1>2. IsFiniteSet(P) /\ P \subseteq Int
    <2>1. IsFiniteSet(1 .. Len(s)) /\ P \subseteq 1 .. Len(s)
      BY <1>1, FS_Interval
    <2> QED
      BY <1>1, <2>1, FS_Subset
  <1>3. R \in Seq(P) /\ IsInjective(R) /\ ToSet(R) = P
    BY <1>2, AscendingOrders, RankedListed
  <1>4. r = [n \in DOMAIN R |-> s[R[n]]]
    BY DEF LeavingOut
  <1>5. \A n \in P : n \in DOMAIN s /\ s[n] \in X /\ s[n] \notin S
    BY <1>1
  <1>6. \A n \in DOMAIN s : s[n] \notin S => n \in P
    OBVIOUS
  <1> HIDE DEF R, P, r
  <1>7. DOMAIN R = 1 .. Len(R) /\ Len(R) \in Nat /\ \A n \in DOMAIN R : R[n] \in P
    BY <1>3
  <1>8. r \in Seq(X) /\ DOMAIN r = DOMAIN R /\ \A n \in DOMAIN R : r[n] = s[R[n]]
    BY <1>4, <1>5, <1>7
  <1>9. ToSet(r) = ToSet(s) \ S
    <2>1. ASSUME NEW x \in ToSet(r) PROVE x \in ToSet(s) \ S
      <3>1. PICK n \in DOMAIN R : x = s[R[n]]
        BY <1>8 DEF ToSet
      <3> QED
        BY <1>5, <1>7, <3>1 DEF ToSet
    <2>2. ASSUME NEW x \in ToSet(s) \ S PROVE x \in ToSet(r)
      <3>1. PICK n \in DOMAIN s : x = s[n]
        BY DEF ToSet
      <3>2. n \in P
        BY <1>6, <2>2, <3>1
      <3>3. PICK m \in DOMAIN R : R[m] = n
        BY <1>3, <3>2 DEF ToSet
      <3> QED
        BY <1>8, <3>1, <3>3 DEF ToSet
    <2> QED
      BY <2>1, <2>2
  <1>10. ASSUME IsInjective(s) PROVE IsInjective(r)
    <2>1. SUFFICES ASSUME NEW m \in DOMAIN R, NEW n \in DOMAIN R, r[m] = r[n] PROVE m = n
      BY <1>8 DEF IsInjective
    <2>2. s[R[m]] = s[R[n]] /\ R[m] \in DOMAIN s /\ R[n] \in DOMAIN s
      BY <1>5, <1>7, <1>8, <2>1
    <2>3. R[m] = R[n]
      BY <1>10, <2>2 DEF IsInjective
    <2> QED
      BY <1>3, <2>3 DEF IsInjective
  <1> QED
    BY <1>8, <1>9, <1>10 DEF r

-----------------------------------------------------------------------------
(* The walk of a list (resolveChain).                                      *)

\* A table whose rows can be put in order.
Sortable(t) ==
    /\ IsFiniteSet(DOMAIN t) /\ DOMAIN t \subseteq Int /\ Top \notin DOMAIN t
    /\ \A i \in DOMAIN t : t[i].created \in Int /\ t[i].position \in Int \union {NoPosition}

LEMMA SubsetOrders == ASSUME NEW B, NEW S, Orders(B, S), NEW T, T \subseteq S PROVE Orders(B, T)
  BY DEF Orders

LEMMA SequenceOrders == ASSUME NEW t, Sortable(t) PROVE Orders(BySequence(t), DOMAIN t)
  <1> DEFINE S == DOMAIN t
             B == BySequence(t)
             legacy(i) == t[i].position # NoPosition
             before(i, j) == \/ legacy(i) /\ ~ legacy(j)
                             \/ legacy(i) /\ legacy(j)
                                /\ (t[i].position < t[j].position
                                    \/ (t[i].position = t[j].position /\ i < j))
                             \/ ~ legacy(i) /\ ~ legacy(j)
                                /\ (t[i].created < t[j].created
                                    \/ (t[i].created = t[j].created /\ i < j))
  <1>1. \A i, j \in S : <<i, j>> \in B <=> before(i, j)
    BY DEF BySequence, Pairs
  <1> HIDE DEF B
  <1>2. \A i \in S : i \in Int /\ t[i].created \in Int /\ (legacy(i) => t[i].position \in Int)
    BY DEF Sortable
  <1>3. ASSUME NEW i \in S PROVE ~ before(i, i)
    BY <1>2
  <1>4. ASSUME NEW i \in S, NEW j \in S, NEW k \in S, before(i, j), before(j, k) PROVE before(i, k)
    <2>1. /\ i \in Int /\ j \in Int /\ k \in Int
          /\ t[i].created \in Int /\ t[j].created \in Int /\ t[k].created \in Int
      BY <1>2
    <2>2. CASE legacy(k)
      <3>1. legacy(i) /\ legacy(j)
        BY <1>4, <2>2
      <3>2. t[i].position \in Int /\ t[j].position \in Int /\ t[k].position \in Int
        BY <1>2, <2>2, <3>1
      <3> QED
        BY <1>4, <2>1, <2>2, <3>1, <3>2
    <2>3. CASE ~ legacy(k) /\ legacy(i)
      BY <2>3
    <2>4. CASE ~ legacy(k) /\ ~ legacy(i)
      <3>1. ~ legacy(j)
        BY <1>4, <2>4
      <3> QED
        BY <1>4, <2>1, <2>4, <3>1
    <2> QED
      BY <2>2, <2>3, <2>4
  <1>5. ASSUME NEW i \in S, NEW j \in S, i # j PROVE before(i, j) \/ before(j, i)
    <2>1. i \in Int /\ j \in Int /\ t[i].created \in Int /\ t[j].created \in Int
      BY <1>2
    <2>2. CASE legacy(i) /\ legacy(j)
      <3>1. t[i].position \in Int /\ t[j].position \in Int
        BY <1>2, <2>2
      <3> QED
        BY <1>5, <2>1, <2>2, <3>1
    <2>3. CASE legacy(i) /\ ~ legacy(j)
      BY <2>3
    <2>4. CASE ~ legacy(i) /\ legacy(j)
      BY <2>4
    <2>5. CASE ~ legacy(i) /\ ~ legacy(j)
      BY <1>5, <2>1, <2>5
    <2> QED
      BY <2>2, <2>3, <2>4, <2>5
  <1> HIDE DEF before
  <1> QED
    BY <1>1, <1>3, <1>4, <1>5 DEF Orders, B

LEMMA LeastNatural ==
    ASSUME NEW T, T \subseteq Nat, T # {}
    PROVE  \E x \in T : \A y \in T : x <= y
  <1>1. IsWellFoundedOn(OpToRel(<, Nat), Nat)
    BY NatLessThanWellFounded
  <1>2. PICK x \in T : \A y \in T : ~ (<<y, x>> \in OpToRel(<, Nat))
    BY <1>1, WFMin
  <1>3. \A y \in Nat : <<y, x>> \in OpToRel(<, Nat) <=> y < x
    BY DEF OpToRel
  <1>4. ASSUME NEW y \in T PROVE x <= y
    <2>1. ~ (y < x) /\ x \in Nat /\ y \in Nat
      BY <1>2, <1>3
    <2> QED
      BY <2>1
  <1> QED
    BY <1>4

LEMMA AllNaturals ==
    ASSUME NEW T, 0 \in T, \A n \in Nat : n \in T => n + 1 \in T
    PROVE  \A n \in Nat : n \in T
  <1> DEFINE B == Nat \ T
  <1>1. SUFFICES ASSUME B # {} PROVE FALSE
    OBVIOUS
  <1>2. PICK x \in B : \A y \in B : x <= y
    BY <1>1, LeastNatural
  <1>3. x # 0 /\ x - 1 \in Nat /\ x - 1 \notin B
    BY <1>2
  <1> QED
    BY <1>2, <1>3

\* One step of the walk, and the walk to its nth step.
Onward(s, nexts) ==
    IF s.todo = <<>> THEN s
    ELSE [met |-> Append(s.met, Head(s.todo)), todo |-> nexts[Head(s.todo)] \o Tail(s.todo)]

Visits(f, N, nexts) ==
    f = [n \in 0 .. N |-> IF n = 0 THEN [met |-> <<>>, todo |-> nexts[Top]] ELSE Onward(f[n - 1], nexts)]

LEMMA VisitsLonger ==
    ASSUME NEW nexts, NEW n \in Nat, NEW f, Visits(f, n, nexts)
    PROVE  \E g : Visits(g, n + 1, nexts)
  <1> DEFINE g == [k \in 0 .. n + 1 |-> IF k = n + 1 THEN Onward(f[n], nexts) ELSE f[k]]
             first == [met |-> <<>>, todo |-> nexts[Top]]
  <1> HIDE DEF first
  <1>1. \A k \in 0 .. n : g[k] = f[k]
    OBVIOUS
  <1>2. g[n + 1] = Onward(f[n], nexts)
    OBVIOUS
  <1>3. \A k \in 0 .. n : f[k] = IF k = 0 THEN first ELSE Onward(f[k - 1], nexts)
    BY DEF Visits, first
  <1>4. g = [k \in 0 .. n + 1 |-> g[k]]
    OBVIOUS
  <1> HIDE DEF g
  <1>5. ASSUME NEW k \in 0 .. n + 1
        PROVE  g[k] = IF k = 0 THEN first ELSE Onward(g[k - 1], nexts)
    <2>1. CASE k = n + 1
      <3>1. k # 0 /\ k - 1 = n /\ n \in 0 .. n
        BY <2>1
      <3> QED
        BY <1>1, <1>2, <2>1, <3>1
    <2>2. CASE k = 0
      <3>1. k \in 0 .. n
        BY <2>2
      <3> QED
        BY <1>1, <1>3, <2>2, <3>1
    <2>3. CASE k # 0 /\ k # n + 1
      <3>1. k \in 0 .. n /\ k - 1 \in 0 .. n
        BY <2>3
      <3> QED
        BY <1>1, <1>3, <2>3, <3>1
    <2> QED
      BY <2>1, <2>2, <2>3
  <1>6. g = [k \in 0 .. n + 1 |-> IF k = 0 THEN first ELSE Onward(g[k - 1], nexts)]
    BY <1>4, <1>5
  <1> QED
    BY <1>6 DEF Visits, first

LEMMA VisitsExist == ASSUME NEW nexts PROVE \A n \in Nat : \E f : Visits(f, n, nexts)
  <1> DEFINE T == {n \in Nat : \E f : Visits(f, n, nexts)}
  <1>1. 0 \in T
    <2> DEFINE f == [k \in 0 .. 0 |-> [met |-> <<>>, todo |-> nexts[Top]]]
    <2>1. Visits(f, 0, nexts)
      BY DEF Visits
    <2> QED
      BY <2>1
  <1>2. \A n \in Nat : n \in T => n + 1 \in T
    BY VisitsLonger
  <1> HIDE DEF T
  <1>3. \A n \in Nat : n \in T
    BY <1>1, <1>2, AllNaturals
  <1> QED
    BY <1>3 DEF T

\* The walk is where its N steps lead.
LEMMA WalkLeads ==
    ASSUME NEW nexts, NEW N \in Nat
    PROVE  \E f : /\ Walk(N, nexts) = f[N].met
                  /\ f[0] = [met |-> <<>>, todo |-> nexts[Top]]
                  /\ \A n \in Nat : n < N => f[n + 1] = Onward(f[n], nexts)
  <1> DEFINE f == CHOOSE g : Visits(g, N, nexts)
  <1>1. Visits(f, N, nexts)
    BY VisitsExist
  <1>2. Walk(N, nexts) = f[N].met
    BY DEF Walk, Visits, Onward
  <1> HIDE DEF f
  <1>3. f[0] = [met |-> <<>>, todo |-> nexts[Top]]
    BY <1>1 DEF Visits
  <1>4. ASSUME NEW n \in Nat, n < N PROVE f[n + 1] = Onward(f[n], nexts)
    <2>1. n + 1 \in 0 .. N /\ n + 1 # 0 /\ (n + 1) - 1 = n
      BY <1>4
    <2>2. \A k \in 0 .. N : k # 0 => f[k] = Onward(f[k - 1], nexts)
      BY <1>1 DEF Visits
    <2> QED
      BY <2>1, <2>2
  <1> QED
    BY <1>2, <1>3, <1>4

\* Those that follow a, in order (nexts of ResolveChain).
Heirs(t, a) == {i \in DOMAIN t : Follows(t[i]) = a}
NextsOf(t) == [a \in DOMAIN t \union {Top} |-> Ranked(Heirs(t, a), BySequence(t))]

LEMMA NextsListed ==
    ASSUME NEW t, Sortable(t), NEW a \in DOMAIN t \union {Top}
    PROVE  /\ NextsOf(t)[a] \in Seq(DOMAIN t)
           /\ IsInjective(NextsOf(t)[a])
           /\ ToSet(NextsOf(t)[a]) = Heirs(t, a)
  <1> DEFINE S == Heirs(t, a)
             r == Ranked(S, BySequence(t))
  <1>1. S \subseteq DOMAIN t /\ IsFiniteSet(S)
    <2>1. S \subseteq DOMAIN t
      BY DEF Heirs
    <2> QED
      BY <2>1, FS_Subset DEF Sortable
  <1>2. Orders(BySequence(t), S)
    BY <1>1, SequenceOrders, SubsetOrders
  <1>3. NextsOf(t)[a] = r
    BY DEF NextsOf
  <1>4. r \in Seq(S) /\ IsInjective(r) /\ ToSet(r) = S
    BY <1>1, <1>2, RankedListed
  <1> HIDE DEF r, S
  <1>5. r \in Seq(DOMAIN t)
    BY <1>1, <1>4
  <1> QED
    BY <1>3, <1>4, <1>5 DEF S

\* On the way: nothing is met or waits twice, and what is met or waits follows
\* the top or something met before.
Journey(t, s) ==
    /\ DOMAIN s = {"met", "todo"}
    /\ s.met \in Seq(DOMAIN t) /\ IsInjective(s.met)
    /\ s.todo \in Seq(DOMAIN t) /\ IsInjective(s.todo)
    /\ ToSet(s.met) \intersect ToSet(s.todo) = {}
    /\ \A x \in ToSet(s.met) \union ToSet(s.todo) :
          Follows(t[x]) = Top \/ Follows(t[x]) \in ToSet(s.met)

LEMMA JourneyStarts ==
    ASSUME NEW t, Sortable(t) PROVE Journey(t, [met |-> <<>>, todo |-> NextsOf(t)[Top]])
  <1> DEFINE r == NextsOf(t)[Top]
             s == [met |-> <<>>, todo |-> r]
  <1>1. r \in Seq(DOMAIN t) /\ IsInjective(r) /\ ToSet(r) = Heirs(t, Top)
    BY NextsListed
  <1> HIDE DEF r
  <1>2. s.met = <<>> /\ s.todo = r /\ DOMAIN s = {"met", "todo"}
    OBVIOUS
  <1> HIDE DEF s
  <1>3. \A x \in ToSet(r) : Follows(t[x]) = Top
    BY <1>1 DEF Heirs
  <1>4. <<>> \in Seq(DOMAIN t) /\ IsInjective(<<>>) /\ ToSet(<<>>) = {}
    BY SeqNone
  <1>5. Journey(t, s)
    BY <1>1, <1>2, <1>3, <1>4 DEF Journey
  <1> QED
    BY <1>5 DEF s, r

LEMMA JourneyOnward ==
    ASSUME NEW t, Sortable(t), NEW s, Journey(t, s)
    PROVE  Journey(t, Onward(s, NextsOf(t)))
  <1> DEFINE D == DOMAIN t
             met == s.met
             todo == s.todo
             h == Head(todo)
             rest == Tail(todo)
             new == NextsOf(t)[h]
             o == Onward(s, NextsOf(t))
  <1>1. CASE todo = <<>>
    BY <1>1 DEF Onward
  <1>2. CASE todo # <<>>
    <2>1. /\ met \in Seq(D) /\ IsInjective(met) /\ todo \in Seq(D) /\ IsInjective(todo)
          /\ ToSet(met) \intersect ToSet(todo) = {}
          /\ \A x \in ToSet(met) \union ToSet(todo) : Follows(t[x]) = Top \/ Follows(t[x]) \in ToSet(met)
      BY DEF Journey
    <2>2. o = [met |-> Append(met, h), todo |-> new \o rest]
      BY <1>2 DEF Onward
    <2>3. o.met = Append(met, h) /\ o.todo = new \o rest /\ DOMAIN o = {"met", "todo"}
      <3>1. PICK a, b : a = Append(met, h) /\ b = new \o rest
        OBVIOUS
      <3>2. o = [met |-> a, todo |-> b]
        BY <2>2, <3>1
      <3> HIDE DEF o
      <3>3. o.met = a /\ o.todo = b /\ DOMAIN o = {"met", "todo"}
        BY <3>2
      <3> QED
        BY <3>1, <3>3
    <2>4. Top \notin D
      BY DEF Sortable
    <2> HIDE DEF met, todo, o
    <2>5. /\ h \in ToSet(todo) /\ h \in D /\ rest \in Seq(D) /\ IsInjective(rest)
          /\ ToSet(rest) = ToSet(todo) \ {h}
      BY <1>2, <2>1, SeqHead
    <2>6. new \in Seq(D) /\ IsInjective(new) /\ ToSet(new) = Heirs(t, h)
      BY <2>5, NextsListed
    <2> HIDE DEF h, rest, new, D
    <2>7. \A x \in ToSet(new) : Follows(t[x]) = h /\ h # Top
      BY <2>4, <2>5, <2>6 DEF Heirs
    <2>8. h \notin ToSet(met)
      BY <2>1, <2>5
    <2>9. \A x \in ToSet(new) : x \notin ToSet(met) /\ x \notin ToSet(todo)
      BY <2>1, <2>7, <2>8
    <2>10. ToSet(new) \intersect ToSet(rest) = {}
      BY <2>5, <2>9
    <2>11. /\ new \o rest \in Seq(D) /\ IsInjective(new \o rest)
           /\ ToSet(new \o rest) = ToSet(new) \union ToSet(rest)
      BY <2>5, <2>6, <2>10, SeqsJoined
    <2>12. /\ Append(met, h) \in Seq(D) /\ IsInjective(Append(met, h))
           /\ ToSet(Append(met, h)) = ToSet(met) \union {h}
      BY <2>1, <2>5, <2>8, SeqLonger
    <2>13. ToSet(o.met) = ToSet(met) \union {h} /\ ToSet(o.todo) = ToSet(new) \union ToSet(rest)
      BY <2>3, <2>11, <2>12
    <2>14. ToSet(o.met) \intersect ToSet(o.todo) = {}
      BY <2>1, <2>5, <2>9, <2>13
    <2>15. ASSUME NEW x \in ToSet(o.met) \union ToSet(o.todo)
           PROVE  Follows(t[x]) = Top \/ Follows(t[x]) \in ToSet(o.met)
      <3>1. CASE x \in ToSet(new)
        BY <2>7, <2>13, <3>1
      <3>2. CASE x \notin ToSet(new)
        <4>1. x \in ToSet(met) \union ToSet(todo)
          BY <2>5, <2>13, <2>15, <3>2
        <4> QED
          BY <2>1, <2>13, <4>1
      <3> QED
        BY <3>1, <3>2
    <2>16. Journey(t, o)
      BY <2>3, <2>11, <2>12, <2>14, <2>15 DEF Journey, D
    <2> QED
      BY <2>16 DEF o
  <1> QED
    BY <1>1, <1>2

\* Whatever the links are, each item is met once at most.
LEMMA WalkMeetsOnce ==
    ASSUME NEW t, Sortable(t), NEW N \in Nat
    PROVE  Walk(N, NextsOf(t)) \in Seq(DOMAIN t) /\ IsInjective(Walk(N, NextsOf(t)))
  <1>1. PICK f : /\ Walk(N, NextsOf(t)) = f[N].met
                 /\ f[0] = [met |-> <<>>, todo |-> NextsOf(t)[Top]]
                 /\ \A n \in Nat : n < N => f[n + 1] = Onward(f[n], NextsOf(t))
    BY WalkLeads
  <1> DEFINE T == {n \in Nat : n <= N => Journey(t, f[n])}
  <1>2. 0 \in T
    BY <1>1, JourneyStarts
  <1>3. ASSUME NEW n \in Nat, n \in T PROVE n + 1 \in T
    <2>1. CASE n + 1 <= N
      <3>1. n < N /\ Journey(t, f[n])
        BY <1>3, <2>1
      <3>2. f[n + 1] = Onward(f[n], NextsOf(t))
        BY <1>1, <3>1
      <3> QED
        BY <3>1, <3>2, JourneyOnward
    <2>2. CASE ~ (n + 1 <= N)
      BY <2>2
    <2> QED
      BY <2>1, <2>2
  <1> HIDE DEF T
  <1>4. \A n \in Nat : n \in T
    BY <1>2, <1>3, AllNaturals
  <1>5. Journey(t, f[N])
    BY <1>4 DEF T
  <1> QED
    BY <1>1, <1>5 DEF Journey

\* A list shows each of its items once, whatever the links are.
LEMMA Resolved ==
    ASSUME NEW t, Sortable(t)
    PROVE  /\ ResolveChain(t) \in Seq(DOMAIN t)
           /\ IsInjective(ResolveChain(t))
           /\ ToSet(ResolveChain(t)) = DOMAIN t
           /\ Len(ResolveChain(t)) = Cardinality(DOMAIN t)
  <1> DEFINE N == Cardinality(DOMAIN t)
             met == Walk(N, NextsOf(t))
             rest == DOMAIN t \ ToSet(met)
             last == Ranked(rest, Ascending)
  <1>1. N \in Nat
    BY FS_CardinalityType DEF Sortable
  <1>2. met \in Seq(DOMAIN t) /\ IsInjective(met)
    BY <1>1, WalkMeetsOnce
  <1>3. ResolveChain(t) = met \o last
    BY DEF ResolveChain, WithOrphans, NextsOf, Heirs
  <1> HIDE DEF met
  <1>4. IsFiniteSet(rest) /\ rest \subseteq Int
    BY FS_Subset DEF Sortable
  <1>5. last \in Seq(rest) /\ IsInjective(last) /\ ToSet(last) = rest
    BY <1>4, AscendingOrders, RankedListed
  <1> HIDE DEF last
  <1>6. last \in Seq(DOMAIN t)
    BY <1>5
  <1>7. ToSet(met) \subseteq DOMAIN t
    <2>1. \A n \in DOMAIN met : met[n] \in DOMAIN t
      BY <1>2
    <2> QED
      BY <2>1 DEF ToSet
  <1>8. ToSet(met) \intersect ToSet(last) = {}
    BY <1>5
  <1>9. /\ met \o last \in Seq(DOMAIN t) /\ IsInjective(met \o last)
        /\ ToSet(met \o last) = DOMAIN t
    <2>1. /\ met \o last \in Seq(DOMAIN t) /\ IsInjective(met \o last)
          /\ ToSet(met \o last) = ToSet(met) \union ToSet(last)
      BY <1>2, <1>5, <1>6, <1>8, SeqsJoined
    <2>2. ToSet(met) \union rest = DOMAIN t
      BY <1>7
    <2> QED
      BY <1>5, <2>1, <2>2
  <1> DEFINE s == met \o last
  <1> HIDE DEF s
  <1>10. s \in Seq(DOMAIN t) /\ IsInjective(s) /\ ToSet(s) = DOMAIN t
    BY <1>9 DEF s
  <1>11. Len(s) = N
    <2>1. DOMAIN s = 1 .. Len(s) /\ Len(s) \in Nat /\ s \in [1 .. Len(s) -> DOMAIN t]
      BY <1>10
    <2>2. s \in Bijection(1 .. Len(s), DOMAIN t)
      <3>1. \A x \in DOMAIN t : \E n \in 1 .. Len(s) : s[n] = x
        BY <1>10, <2>1 DEF ToSet
      <3> QED
        BY <1>10, <2>1, <3>1 DEF Bijection, Injection, Surjection
    <2>3. ExistsBijection(1 .. Len(s), DOMAIN t)
      BY <2>2 DEF ExistsBijection
    <2> QED
      BY <2>1, <2>3, FS_CountingElements
  <1> QED
    BY <1>3, <1>10, <1>11 DEF s

-----------------------------------------------------------------------------
(* Tables and messages.                                                    *)

RowFields == {"list", "after", "created", "position", "current", "updated_at"}

\* A row stamped no later than at.
RowOK(r, at) ==
    /\ DOMAIN r = RowFields
    /\ r.list \in Lists /\ r.created \in Int /\ r.position \in Int \union {NoPosition}
    /\ r.updated_at \in 0 .. at

\* A table of items of B, stamped no later than at.
TableOK(t, at, B) ==
    /\ IsFiniteSet(DOMAIN t) /\ DOMAIN t \subseteq B
    /\ t = [i \in DOMAIN t |-> t[i]]
    /\ \A i \in DOMAIN t : RowOK(t[i], at)

MsgOK(m, at, B) ==
    /\ m.id \in B
    /\ \/ DOMAIN m = {"id", "row"} /\ RowOK(m.row, at)
       \/ DOMAIN m = {"id", "gone"} /\ m.gone \in 0 .. at

At(m) == IF "gone" \in DOMAIN m THEN m.gone ELSE m.row.updated_at

IsList(s) == s \in Seq(ToSet(s))

MsgsOK(s, at, B) == IsList(s) /\ \A n \in DOMAIN s : MsgOK(s[n], at, B)

\* Both tables hold the same of i.
Same(t, u, i) == (i \in DOMAIN t <=> i \in DOMAIN u) /\ (i \in DOMAIN t => t[i] = u[i])

\* The message says what the table holds.
Says(m, t) ==
    IF "gone" \in DOMAIN m THEN m.id \notin DOMAIN t ELSE m.id \in DOMAIN t /\ t[m.id] = m.row

\* The table t becomes u once the messages s are merged: of messages about an
\* item each is newer than the one before, and than what t holds, and the last
\* one says what u holds.
Pending(t, s, u) ==
    /\ \A n \in DOMAIN s : s[n].id \in DOMAIN t => t[s[n].id].updated_at < At(s[n])
    /\ \A m, n \in DOMAIN s : m < n /\ s[m].id = s[n].id => At(s[m]) < At(s[n])
    /\ \A i : (\A n \in DOMAIN s : s[n].id # i) => Same(t, u, i)
    /\ \A n \in DOMAIN s : (\A k \in DOMAIN s : n < k => s[k].id # s[n].id) => Says(s[n], u)

LEMMA OverIs ==
    ASSUME NEW f, NEW g
    PROVE  /\ DOMAIN Over(f, g) = DOMAIN f \union DOMAIN g
           /\ \A x \in DOMAIN f : Over(f, g)[x] = f[x]
           /\ \A x \in DOMAIN g : x \notin DOMAIN f => Over(f, g)[x] = g[x]
           /\ Over(f, g) = [x \in DOMAIN Over(f, g) |-> Over(f, g)[x]]
  BY DEF Over

LEMMA RowLater ==
    ASSUME NEW at \in Nat, NEW au \in Nat, at <= au, NEW r, RowOK(r, at)
    PROVE  RowOK(r, au)
  BY DEF RowOK

LEMMA TableLater ==
    ASSUME NEW at \in Nat, NEW au \in Nat, at <= au, NEW B, NEW C, B \subseteq C,
           NEW t, TableOK(t, at, B)
    PROVE  TableOK(t, au, C)
  BY RowLater DEF TableOK

LEMMA MsgsLater ==
    ASSUME NEW at \in Nat, NEW au \in Nat, at <= au, NEW B, NEW C, B \subseteq C,
           NEW s, MsgsOK(s, at, B)
    PROVE  MsgsOK(s, au, C)
  <1>1. ASSUME NEW n \in DOMAIN s PROVE MsgOK(s[n], au, C)
    <2>1. MsgOK(s[n], at, B)
      BY DEF MsgsOK
    <2>2. CASE DOMAIN s[n] = {"id", "row"} /\ RowOK(s[n].row, at)
      BY <2>1, <2>2, RowLater DEF MsgOK
    <2>3. CASE DOMAIN s[n] = {"id", "gone"} /\ s[n].gone \in 0 .. at
      BY <2>1, <2>3 DEF MsgOK
    <2> QED
      BY <2>1, <2>2, <2>3 DEF MsgOK
  <1> QED
    BY <1>1 DEF MsgsOK

LEMMA ListJoined ==
    ASSUME NEW s, NEW u, IsList(s), IsList(u)
    PROVE  /\ IsList(s \o u)
           /\ DOMAIN s = 1 .. Len(s) /\ DOMAIN u = 1 .. Len(u) /\ Len(s) \in Nat /\ Len(u) \in Nat
           /\ DOMAIN (s \o u) = 1 .. Len(s) + Len(u)
           /\ \A n \in 1 .. Len(s) : (s \o u)[n] = s[n]
           /\ \A n \in 1 .. Len(u) : (s \o u)[Len(s) + n] = u[n]
           /\ \A n \in 1 .. Len(s) + Len(u) :
                 \/ n \in 1 .. Len(s) /\ (s \o u)[n] = s[n]
                 \/ n - Len(s) \in 1 .. Len(u) /\ (s \o u)[n] = u[n - Len(s)]
  <1> DEFINE X == ToSet(s) \union ToSet(u)
  <1>1. s \in Seq(ToSet(s)) /\ u \in Seq(ToSet(u))
    BY DEF IsList
  <1> HIDE DEF X
  <1>2. s \in Seq(X) /\ u \in Seq(X)
    BY <1>1 DEF X
  <1>3. /\ DOMAIN s = 1 .. Len(s) /\ DOMAIN u = 1 .. Len(u) /\ Len(s) \in Nat /\ Len(u) \in Nat
        /\ DOMAIN (s \o u) = 1 .. Len(s) + Len(u)
        /\ \A n \in 1 .. Len(s) : (s \o u)[n] = s[n]
        /\ \A n \in 1 .. Len(u) : (s \o u)[Len(s) + n] = u[n]
        /\ s \o u \in Seq(X)
    BY <1>2
  <1>4. ASSUME NEW n \in 1 .. Len(s) + Len(u)
        PROVE  \/ n \in 1 .. Len(s) /\ (s \o u)[n] = s[n]
               \/ n - Len(s) \in 1 .. Len(u) /\ (s \o u)[n] = u[n - Len(s)]
    <2>1. CASE n \in 1 .. Len(s)
      BY <1>3, <2>1
    <2>2. CASE n \notin 1 .. Len(s)
      <3>1. n - Len(s) \in 1 .. Len(u) /\ Len(s) + (n - Len(s)) = n
        BY <1>3, <2>2
      <3> QED
        BY <1>3, <3>1
    <2> QED
      BY <2>1, <2>2
  <1>5. IsList(s \o u)
    <2> DEFINE w == s \o u
    <2>1. w \in Seq(X)
      BY <1>3
    <2> HIDE DEF w
    <2>2. w \in Seq(ToSet(w))
      <3>1. Len(w) \in Nat /\ w = [n \in 1 .. Len(w) |-> w[n]] /\ DOMAIN w = 1 .. Len(w)
        BY <2>1
      <3>2. \A n \in 1 .. Len(w) : w[n] \in ToSet(w)
        BY <3>1 DEF ToSet
      <3> QED
        BY <3>1, <3>2
    <2> QED
      BY <2>2 DEF IsList, w
  <1> QED
    BY <1>3, <1>4, <1>5

LEMMA MsgsJoined ==
    ASSUME NEW at, NEW B, NEW s, NEW u, MsgsOK(s, at, B), MsgsOK(u, at, B)
    PROVE  MsgsOK(s \o u, at, B)
  <1>1. IsList(s) /\ IsList(u)
    BY DEF MsgsOK
  <1>2. ASSUME NEW n \in DOMAIN (s \o u) PROVE MsgOK((s \o u)[n], at, B)
    <2>1. n \in 1 .. Len(s) + Len(u) /\ DOMAIN s = 1 .. Len(s) /\ DOMAIN u = 1 .. Len(u)
      BY <1>1, ListJoined
    <2>2. \/ n \in 1 .. Len(s) /\ (s \o u)[n] = s[n]
          \/ n - Len(s) \in 1 .. Len(u) /\ (s \o u)[n] = u[n - Len(s)]
      BY <1>1, <2>1, ListJoined
    <2> QED
      BY <2>1, <2>2 DEF MsgsOK
  <1>3. IsList(s \o u)
    BY <1>1, ListJoined
  <1> QED
    BY <1>2, <1>3 DEF MsgsOK

LEMMA ListHead ==
    ASSUME NEW s, IsList(s), s # <<>>
    PROVE  /\ DOMAIN s = 1 .. Len(s) /\ Len(s) \in Nat /\ Len(s) >= 1 /\ Head(s) = s[1]
           /\ DOMAIN Tail(s) = 1 .. Len(s) - 1
           /\ \A n \in 1 .. Len(s) - 1 : Tail(s)[n] = s[n + 1]
           /\ IsList(Tail(s))
  <1>1. s \in Seq(ToSet(s))
    BY DEF IsList
  <1>2. /\ DOMAIN s = 1 .. Len(s) /\ Len(s) \in Nat /\ Len(s) >= 1 /\ Head(s) = s[1]
        /\ DOMAIN Tail(s) = 1 .. Len(s) - 1 /\ Len(Tail(s)) = Len(s) - 1
        /\ \A n \in 1 .. Len(s) - 1 : Tail(s)[n] = s[n + 1]
        /\ Tail(s) \in Seq(ToSet(s))
    BY <1>1
  <1> DEFINE w == Tail(s)
  <1>3. w \in Seq(ToSet(s))
    BY <1>2
  <1> HIDE DEF w
  <1>4. Len(w) \in Nat /\ w = [n \in 1 .. Len(w) |-> w[n]] /\ DOMAIN w = 1 .. Len(w)
    BY <1>3
  <1>5. \A n \in 1 .. Len(w) : w[n] \in ToSet(w)
    BY <1>4 DEF ToSet
  <1>6. w \in Seq(ToSet(w))
    BY <1>4, <1>5
  <1> QED
    BY <1>2, <1>6 DEF IsList, w

\* What a merge makes of a table.
LEMMA Merged ==
    ASSUME NEW at \in Nat, NEW B, NEW t, TableOK(t, at, B), NEW m, MsgOK(m, at, B)
    PROVE  /\ TableOK(Merge(t, m), at, B)
           /\ \A i : i # m.id => Same(t, Merge(t, m), i)
           /\ (m.id \in DOMAIN t => t[m.id].updated_at < At(m)) => Says(m, Merge(t, m))
  <1> DEFINE v == Merge(t, m)
  <1> HIDE DEF v
  <1>1. CASE v = t /\ m.id \in DOMAIN t /\ At(m) <= t[m.id].updated_at
    <2>1. t[m.id].updated_at \in Int /\ At(m) \in Int
      BY <1>1 DEF TableOK, RowOK, MsgOK, At
    <2> QED
      BY <1>1, <2>1 DEF Same, v
  <1>2. CASE "gone" \in DOMAIN m /\ v = t /\ (m.id \notin DOMAIN t \/ At(m) < t[m.id].updated_at)
    <2>1. m.id \in DOMAIN t => t[m.id].updated_at \in Int /\ At(m) \in Int
      BY DEF TableOK, RowOK, MsgOK, At
    <2> QED
      BY <1>2, <2>1 DEF Same, Says, v
  <1>3. CASE "gone" \in DOMAIN m /\ m.id \in DOMAIN t /\ v = Restrict(t, DOMAIN t \ {m.id})
    <2>1. DOMAIN v = DOMAIN t \ {m.id} /\ v = [i \in DOMAIN v |-> v[i]] /\ \A i \in DOMAIN v : v[i] = t[i]
      BY <1>3 DEF Restrict
    <2>2. IsFiniteSet(DOMAIN v)
      BY <2>1, FS_Subset DEF TableOK
    <2>3. TableOK(v, at, B)
      BY <2>1, <2>2 DEF TableOK
    <2> QED
      BY <1>3, <2>1, <2>3 DEF Same, Says, v
  <1>4. CASE "gone" \notin DOMAIN m /\ v = Over(Only(m.id, m.row), t)
    <2>6. PICK f : f = Only(m.id, m.row)
      OBVIOUS
    <2>1. DOMAIN f = {m.id} /\ f[m.id] = m.row /\ v = Over(f, t)
      BY <1>4, <2>6 DEF Only
    <2>2. /\ DOMAIN v = DOMAIN t \union {m.id} /\ v[m.id] = m.row
          /\ v = [i \in DOMAIN v |-> v[i]]
          /\ \A i \in DOMAIN t : i # m.id => v[i] = t[i]
      <3>1. /\ DOMAIN Over(f, t) = DOMAIN f \union DOMAIN t
            /\ \A x \in DOMAIN f : Over(f, t)[x] = f[x]
            /\ \A x \in DOMAIN t : x \notin DOMAIN f => Over(f, t)[x] = t[x]
            /\ Over(f, t) = [x \in DOMAIN Over(f, t) |-> Over(f, t)[x]]
        BY OverIs
      <3>2. /\ DOMAIN v = DOMAIN f \union DOMAIN t
            /\ \A x \in DOMAIN f : v[x] = f[x]
            /\ \A x \in DOMAIN t : x \notin DOMAIN f => v[x] = t[x]
        BY <2>1, <3>1
      <3>3. v = [x \in DOMAIN v |-> v[x]]
        BY <2>1, <3>1
      <3> QED
        BY <2>1, <3>2, <3>3
    <2>3. IsFiniteSet(DOMAIN v)
      BY <2>2, FS_AddElement DEF TableOK
    <2>4. m.id \in B /\ RowOK(m.row, at) /\ "row" \in DOMAIN m
      BY <1>4 DEF MsgOK
    <2>5. TableOK(v, at, B)
      BY <2>2, <2>3, <2>4 DEF TableOK
    <2> QED
      BY <1>4, <2>2, <2>4, <2>5 DEF Same, Says, v
  <1> QED
    <2>1. CASE "gone" \in DOMAIN m
      <3>1. At(m) = m.gone /\ m.gone \in Int /\ (m.id \in DOMAIN t => t[m.id].updated_at \in Int)
        BY <2>1 DEF At, MsgOK, TableOK, RowOK
      <3>2. CASE m.id \in DOMAIN t /\ t[m.id].updated_at <= m.gone
        BY <1>3, <2>1, <3>2 DEF Merge, v
      <3>3. CASE ~ (m.id \in DOMAIN t /\ t[m.id].updated_at <= m.gone)
        BY <1>2, <2>1, <3>1, <3>3 DEF Merge, v
      <3> QED
        BY <3>2, <3>3
    <2>2. CASE "gone" \notin DOMAIN m
      <3>1. At(m) = m.row.updated_at
        BY <2>2 DEF At
      <3>2. CASE m.id \in DOMAIN t /\ m.row.updated_at <= t[m.id].updated_at
        BY <1>1, <2>2, <3>1, <3>2 DEF Merge, v
      <3>3. CASE ~ (m.id \in DOMAIN t /\ m.row.updated_at <= t[m.id].updated_at)
        BY <1>4, <2>2, <3>3 DEF Merge, v
      <3> QED
        BY <3>2, <3>3
    <2> QED
      BY <2>1, <2>2

LEMMA SameTwice ==
    ASSUME NEW t, NEW u, NEW v, NEW i, Same(t, u, i)
    PROVE  (Same(t, v, i) => Same(u, v, i)) /\ (Same(u, v, i) => Same(t, v, i))
  BY DEF Same

LEMMA SaysSame ==
    ASSUME NEW t, NEW u, NEW m, Same(t, u, m.id), Says(m, t) PROVE Says(m, u)
  BY DEF Same, Says

LEMMA StampIs ==
    ASSUME NEW at \in Nat, NEW B, NEW m, MsgOK(m, at, B) PROVE At(m) \in 0 .. at
  BY DEF MsgOK, At, RowOK

LEMMA TableStamp ==
    ASSUME NEW at \in Nat, NEW B, NEW t, TableOK(t, at, B), NEW i \in DOMAIN t
    PROVE  t[i].updated_at \in 0 .. at
  BY DEF TableOK, RowOK

LEMMA NothingPending ==
    ASSUME NEW t, NEW u PROVE Pending(t, <<>>, u) <=> \A i : Same(t, u, i)
  <1>1. DOMAIN <<>> = {}
    OBVIOUS
  <1> QED
    BY <1>1 DEF Pending

\* The first message is merged.
LEMMA PendingHead ==
    ASSUME NEW at \in Nat, NEW B, NEW t, TableOK(t, at, B), NEW s, MsgsOK(s, at, B), s # <<>>,
           NEW u, Pending(t, s, u)
    PROVE  Pending(Merge(t, Head(s)), Tail(s), u)
  <1>1. /\ DOMAIN s = 1 .. Len(s) /\ Len(s) \in Nat /\ Len(s) >= 1 /\ Head(s) = s[1]
        /\ DOMAIN Tail(s) = 1 .. Len(s) - 1
        /\ \A n \in 1 .. Len(s) - 1 : Tail(s)[n] = s[n + 1]
    BY ListHead DEF MsgsOK
  <1>2. PICK h, v, r : h = Head(s) /\ v = Merge(t, Head(s)) /\ r = Tail(s)
    OBVIOUS
  <1>3. 1 \in DOMAIN s /\ h = s[1] /\ MsgOK(h, at, B)
    BY <1>1, <1>2 DEF MsgsOK
  <1>4. h.id \in DOMAIN t => t[h.id].updated_at < At(h)
    BY <1>3 DEF Pending
  <1>5. (\A i : i # h.id => Same(t, v, i)) /\ Says(h, v)
    BY <1>2, <1>3, <1>4, Merged
  <1>6. ASSUME NEW n \in DOMAIN r
        PROVE  n \in Int /\ n + 1 \in DOMAIN s /\ r[n] = s[n + 1] /\ 1 < n + 1
    BY <1>1, <1>2
  <1>7. \A n \in DOMAIN s : n = 1 \/ (n - 1 \in DOMAIN r /\ n \in Int /\ r[n - 1] = s[n])
    BY <1>1, <1>2
  <1>8. ASSUME NEW n \in DOMAIN r, r[n].id \in DOMAIN v
        PROVE  v[r[n].id].updated_at < At(r[n])
    <2>1. CASE r[n].id = h.id
      <3>1. v[h.id] = h.row /\ "gone" \notin DOMAIN h
        BY <1>5, <1>8, <2>1 DEF Says
      <3>2. At(h) < At(s[n + 1])
        BY <1>3, <1>6, <2>1 DEF Pending
      <3> QED
        BY <1>6, <2>1, <3>1, <3>2 DEF At
    <2>2. CASE r[n].id # h.id
      <3>1. Same(t, v, r[n].id)
        BY <1>5, <2>2
      <3>2. r[n].id \in DOMAIN t /\ v[r[n].id] = t[r[n].id]
        BY <1>8, <3>1 DEF Same
      <3> QED
        BY <1>6, <3>2 DEF Pending
    <2> QED
      BY <2>1, <2>2
  <1>9. ASSUME NEW m \in DOMAIN r, NEW n \in DOMAIN r, m < n, r[m].id = r[n].id
        PROVE  At(r[m]) < At(r[n])
    <2>1. m + 1 \in DOMAIN s /\ n + 1 \in DOMAIN s /\ m + 1 < n + 1
      BY <1>6, <1>9
    <2> QED
      BY <1>6, <1>9, <2>1 DEF Pending
  <1>10. ASSUME NEW i, \A n \in DOMAIN r : r[n].id # i
         PROVE  Same(v, u, i)
    <2>1. CASE i = h.id
      <3>1. \A k \in DOMAIN s : 1 < k => s[k].id # s[1].id
        BY <1>3, <1>7, <1>10, <2>1
      <3>2. Says(h, u)
        BY <1>3, <3>1 DEF Pending
      <3> QED
        BY <1>5, <2>1, <3>2 DEF Says, Same
    <2>2. CASE i # h.id
      <3>1. \A n \in DOMAIN s : s[n].id # i
        BY <1>3, <1>7, <1>10, <2>2
      <3>2. Same(t, u, i) /\ Same(t, v, i)
        BY <1>5, <2>2, <3>1 DEF Pending
      <3> QED
        BY <3>2, SameTwice
    <2> QED
      BY <2>1, <2>2
  <1>11. ASSUME NEW n \in DOMAIN r, \A k \in DOMAIN r : n < k => r[k].id # r[n].id
         PROVE  Says(r[n], u)
    <2>1. ASSUME NEW k \in DOMAIN s, n + 1 < k PROVE s[k].id # s[n + 1].id
      <3>1. k - 1 \in DOMAIN r /\ k \in Int /\ r[k - 1] = s[k] /\ n < k - 1
        BY <1>6, <1>7, <2>1
      <3> QED
        BY <1>6, <1>11, <3>1
    <2> QED
      BY <1>6, <2>1 DEF Pending
  <1>12. Pending(v, r, u)
    BY <1>8, <1>9, <1>10, <1>11 DEF Pending
  <1> QED
    BY <1>2, <1>12

\* The messages of an operation at at + 1 that made `new` of `old`: one for
\* each item it changed, saying what became of it.
Sound(s, old, new, at) ==
    /\ IsList(s)
    /\ \A n \in DOMAIN s : At(s[n]) = at + 1 /\ Says(s[n], new)
    /\ \A m, n \in DOMAIN s : s[m].id = s[n].id => m = n
    /\ \A i : (\A n \in DOMAIN s : s[n].id # i) => Same(old, new, i)

\* They join what is under way.
LEMMA PendingMore ==
    ASSUME NEW at \in Nat, NEW B, NEW t, TableOK(t, at, B), NEW s, MsgsOK(s, at, B),
           NEW u, Pending(t, s, u), NEW w, NEW new, Sound(w, u, new, at)
    PROVE  Pending(t, s \o w, new)
  <1>1. IsList(s) /\ IsList(w)
    BY DEF MsgsOK, Sound
  <1>2. PICK j, l : j = s \o w /\ l = Len(s)
    OBVIOUS
  <1>3. /\ DOMAIN s = 1 .. l /\ DOMAIN w = 1 .. Len(w) /\ l \in Nat /\ Len(w) \in Nat
        /\ DOMAIN j = 1 .. l + Len(w)
        /\ \A n \in 1 .. l : j[n] = s[n]
        /\ \A n \in 1 .. Len(w) : j[l + n] = w[n]
        /\ \A n \in 1 .. l + Len(w) : \/ n \in 1 .. l /\ j[n] = s[n]
                                      \/ n - l \in 1 .. Len(w) /\ j[n] = w[n - l]
    BY <1>1, <1>2, ListJoined
  <1>4. \A n \in DOMAIN s : n \in DOMAIN j /\ j[n] = s[n]
    BY <1>3
  <1>5. \A n \in DOMAIN w : l + n \in DOMAIN j /\ j[l + n] = w[n] /\ \A m \in DOMAIN s : m < l + n
    BY <1>3
  <1>6. \A n \in DOMAIN j : \/ n \in DOMAIN s /\ j[n] = s[n]
                            \/ n - l \in DOMAIN w /\ j[n] = w[n - l]
    BY <1>3
  <1>7. \A n \in DOMAIN j : n \in Int
    BY <1>3
  <1>8. \A n \in DOMAIN s : At(s[n]) \in 0 .. at
    BY StampIs DEF MsgsOK
  <1>9. \A i \in DOMAIN t : t[i].updated_at \in 0 .. at
    BY TableStamp
  <1>10. ASSUME NEW n \in DOMAIN j, j[n].id \in DOMAIN t
         PROVE  t[j[n].id].updated_at < At(j[n])
    <2>1. CASE n \in DOMAIN s /\ j[n] = s[n]
      BY <1>10, <2>1 DEF Pending
    <2>2. CASE n - l \in DOMAIN w /\ j[n] = w[n - l]
      <3>1. At(j[n]) = at + 1
        BY <2>2 DEF Sound
      <3> QED
        BY <1>9, <1>10, <3>1
    <2> QED
      BY <1>6, <2>1, <2>2
  <1>11. ASSUME NEW m \in DOMAIN j, NEW n \in DOMAIN j, m < n, j[m].id = j[n].id
         PROVE  At(j[m]) < At(j[n])
    <2>1. CASE n \in DOMAIN s /\ j[n] = s[n]
      <3>1. m \in DOMAIN s
        BY <1>3, <1>11, <2>1
      <3> QED
        BY <1>4, <1>11, <2>1, <3>1 DEF Pending
    <2>2. CASE n - l \in DOMAIN w /\ j[n] = w[n - l]
      <3>1. At(j[n]) = at + 1
        BY <2>2 DEF Sound
      <3>2. CASE m \in DOMAIN s /\ j[m] = s[m]
        <4>1. At(j[m]) \in 0 .. at
          BY <1>8, <3>2
        <4> QED
          BY <3>1, <4>1
      <3>3. CASE m - l \in DOMAIN w /\ j[m] = w[m - l]
        <4>1. m - l = n - l
          BY <1>11, <2>2, <3>3 DEF Sound
        <4> QED
          BY <1>3, <1>7, <1>11, <4>1
      <3> QED
        BY <1>6, <3>2, <3>3
    <2> QED
      BY <1>6, <2>1, <2>2
  <1>12. ASSUME NEW i, \A n \in DOMAIN j : j[n].id # i PROVE Same(t, new, i)
    <2>1. \A n \in DOMAIN s : s[n].id # i
      BY <1>4, <1>12
    <2>2. \A n \in DOMAIN w : w[n].id # i
      BY <1>5, <1>12
    <2>3. Same(t, u, i)
      BY <2>1 DEF Pending
    <2>4. Same(u, new, i)
      BY <2>2 DEF Sound
    <2> QED
      BY <2>3, <2>4, SameTwice
  <1>13. ASSUME NEW n \in DOMAIN j, \A k \in DOMAIN j : n < k => j[k].id # j[n].id
         PROVE  Says(j[n], new)
    <2>1. CASE n \in DOMAIN s /\ j[n] = s[n]
      <3>1. \A k \in DOMAIN s : n < k => s[k].id # s[n].id
        BY <1>4, <1>13, <2>1
      <3>2. Says(s[n], u)
        BY <2>1, <3>1 DEF Pending
      <3>3. \A k \in DOMAIN w : w[k].id # s[n].id
        BY <1>5, <1>13, <2>1
      <3>4. Same(u, new, s[n].id)
        BY <3>3 DEF Sound
      <3> QED
        BY <2>1, <3>2, <3>4, SaysSame
    <2>2. CASE n - l \in DOMAIN w /\ j[n] = w[n - l]
      BY <2>2 DEF Sound
    <2> QED
      BY <1>6, <2>1, <2>2
  <1>14. Pending(t, j, new)
    BY <1>10, <1>11, <1>12, <1>13 DEF Pending
  <1> QED
    BY <1>2, <1>14

-----------------------------------------------------------------------------
(* What is pushed.                                                         *)

\* The messages s say of each item of S, once, what t holds of it.
Announces(s, t, S) ==
    /\ IsList(s)
    /\ \A n \in DOMAIN s : \E i \in S : s[n] = RowMsg(i, t[i])
    /\ \A i \in S : \E n \in DOMAIN s : s[n].id = i
    /\ \A m, n \in DOMAIN s : s[m].id = s[n].id => m = n

LEMMA RowMsgIs ==
    ASSUME NEW i, NEW r
    PROVE  RowMsg(i, r).id = i /\ RowMsg(i, r).row = r /\ DOMAIN RowMsg(i, r) = {"id", "row"}
  BY DEF RowMsg

LEMMA ListBy ==
    ASSUME NEW N \in Nat, NEW s, DOMAIN s = 1 .. N, s = [n \in 1 .. N |-> s[n]]
    PROVE  IsList(s)
  <1>1. \A n \in 1 .. N : s[n] \in ToSet(s)
    BY DEF ToSet
  <1> QED
    BY <1>1 DEF IsList

LEMMA AnnouncesRows ==
    ASSUME NEW t, IsFiniteSet(DOMAIN t), NEW S
    PROVE  Announces(RowMsgs(t, S), t, S \intersect DOMAIN t)
  <1> DEFINE D == S \intersect DOMAIN t
             q == SetToSeq(D)
             s == RowMsgs(t, S)
  <1>1. IsFiniteSet(D)
    BY FS_Subset
  <1>2. q \in Seq(D) /\ IsInjective(q) /\ ToSet(q) = D
    BY <1>1, SetListed
  <1>3. s = [n \in DOMAIN q |-> RowMsg(q[n], t[q[n]])]
    BY DEF RowMsgs
  <1> HIDE DEF q, s, D
  <1>4. Len(q) \in Nat /\ DOMAIN q = 1 .. Len(q) /\ \A n \in DOMAIN q : q[n] \in D
    BY <1>2
  <1>5. DOMAIN s = 1 .. Len(q) /\ s = [n \in 1 .. Len(q) |-> s[n]]
    BY <1>3, <1>4
  <1>6. \A n \in DOMAIN s : n \in DOMAIN q /\ s[n] = RowMsg(q[n], t[q[n]]) /\ s[n].id = q[n]
    BY <1>3, <1>4, <1>5, RowMsgIs
  <1>7. IsList(s)
    BY <1>4, <1>5, ListBy
  <1>8. ASSUME NEW i \in D PROVE \E n \in DOMAIN s : s[n].id = i
    <2>1. PICK n \in DOMAIN q : q[n] = i
      BY <1>2 DEF ToSet
    <2> QED
      BY <1>4, <1>5, <1>6, <2>1
  <1>9. \A m, n \in DOMAIN s : s[m].id = s[n].id => m = n
    BY <1>2, <1>6 DEF IsInjective
  <1>10. \A n \in DOMAIN s : \E i \in D : s[n] = RowMsg(i, t[i])
    BY <1>4, <1>6
  <1>11. Announces(s, t, D)
    BY <1>7, <1>8, <1>9, <1>10 DEF Announces
  <1> QED
    BY <1>11 DEF s, D

LEMMA AnnouncesOne == ASSUME NEW i, NEW t, NEW r, t[i] = r PROVE Announces(<<RowMsg(i, r)>>, t, {i})
  <1> DEFINE s == <<RowMsg(i, r)>>
  <1>1. DOMAIN s = 1 .. 1 /\ s = [n \in 1 .. 1 |-> s[n]] /\ s[1] = RowMsg(i, r)
    OBVIOUS
  <1> HIDE DEF s
  <1>2. IsList(s)
    BY <1>1, ListBy
  <1>3. s[1].id = i
    BY <1>1, RowMsgIs
  <1>4. \A n \in DOMAIN s : n = 1
    BY <1>1
  <1>5. Announces(s, t, {i})
    BY <1>1, <1>2, <1>3, <1>4 DEF Announces
  <1> QED
    BY <1>5 DEF s

LEMMA AnnouncedIds ==
    ASSUME NEW s, NEW t, NEW S, Announces(s, t, S)
    PROVE  \A n \in DOMAIN s : s[n].id \in S /\ s[n].row = t[s[n].id] /\ DOMAIN s[n] = {"id", "row"}
  BY RowMsgIs DEF Announces

LEMMA AnnouncesJoined ==
    ASSUME NEW t, NEW s, NEW S, Announces(s, t, S), NEW u, NEW R, Announces(u, t, R),
           S \intersect R = {}
    PROVE  Announces(s \o u, t, S \union R)
  <1>1. IsList(s) /\ IsList(u)
    BY DEF Announces
  <1>2. PICK j, l : j = s \o u /\ l = Len(s)
    OBVIOUS
  <1>3. /\ DOMAIN s = 1 .. l /\ DOMAIN u = 1 .. Len(u) /\ l \in Nat /\ Len(u) \in Nat
        /\ DOMAIN j = 1 .. l + Len(u)
        /\ \A n \in 1 .. l : j[n] = s[n]
        /\ \A n \in 1 .. Len(u) : j[l + n] = u[n]
        /\ \A n \in 1 .. l + Len(u) : \/ n \in 1 .. l /\ j[n] = s[n]
                                      \/ n - l \in 1 .. Len(u) /\ j[n] = u[n - l]
        /\ IsList(j)
    BY <1>1, <1>2, ListJoined
  <1>4. \A n \in DOMAIN s : n \in DOMAIN j /\ j[n] = s[n]
    BY <1>3
  <1>5. \A n \in DOMAIN u : l + n \in DOMAIN j /\ j[l + n] = u[n]
    BY <1>3
  <1>6. \A n \in DOMAIN j : \/ n \in DOMAIN s /\ j[n] = s[n]
                            \/ n - l \in DOMAIN u /\ j[n] = u[n - l]
    BY <1>3
  <1>7. ASSUME NEW n \in DOMAIN j PROVE \E i \in S \union R : j[n] = RowMsg(i, t[i])
    BY <1>6 DEF Announces
  <1>8. ASSUME NEW i \in S \union R PROVE \E n \in DOMAIN j : j[n].id = i
    <2>1. CASE i \in S
      BY <1>4, <2>1 DEF Announces
    <2>2. CASE i \in R
      <3>1. PICK n \in DOMAIN u : u[n].id = i
        BY <2>2 DEF Announces
      <3> QED
        BY <1>5, <3>1
    <2> QED
      BY <2>1, <2>2
  <1>9. ASSUME NEW m \in DOMAIN j, NEW n \in DOMAIN j, j[m].id = j[n].id PROVE m = n
    <2>1. CASE m \in DOMAIN s /\ j[m] = s[m] /\ n \in DOMAIN s /\ j[n] = s[n]
      BY <1>9, <2>1 DEF Announces
    <2>2. CASE m - l \in DOMAIN u /\ j[m] = u[m - l] /\ n - l \in DOMAIN u /\ j[n] = u[n - l]
      <3>1. m - l = n - l
        BY <1>9, <2>2 DEF Announces
      <3> QED
        BY <1>3, <3>1
    <2>3. CASE m \in DOMAIN s /\ j[m] = s[m] /\ n - l \in DOMAIN u /\ j[n] = u[n - l]
      BY <1>9, <2>3, AnnouncedIds
    <2>4. CASE m - l \in DOMAIN u /\ j[m] = u[m - l] /\ n \in DOMAIN s /\ j[n] = s[n]
      BY <1>9, <2>4, AnnouncedIds
    <2> QED
      BY <1>6, <2>1, <2>2, <2>3, <2>4
  <1>10. Announces(j, t, S \union R)
    BY <1>3, <1>7, <1>8, <1>9 DEF Announces
  <1> QED
    BY <1>2, <1>10

LEMMA AnnouncesElse ==
    ASSUME NEW s, NEW t, NEW S, Announces(s, t, S), NEW u, \A i \in S : t[i] = u[i]
    PROVE  Announces(s, u, S)
  BY DEF Announces

LEMMA AnnouncesTyped ==
    ASSUME NEW s, NEW t, NEW S, Announces(s, t, S), NEW at, NEW B,
           \A i \in S : i \in B /\ RowOK(t[i], at)
    PROVE  MsgsOK(s, at, B)
  <1>1. ASSUME NEW n \in DOMAIN s PROVE MsgOK(s[n], at, B)
    <2>1. s[n].id \in S /\ s[n].row = t[s[n].id] /\ DOMAIN s[n] = {"id", "row"}
      BY AnnouncedIds
    <2> QED
      BY <2>1 DEF MsgOK
  <1> QED
    BY <1>1 DEF MsgsOK, Announces

LEMMA AnnouncesSound ==
    ASSUME NEW s, NEW new, NEW S, Announces(s, new, S), NEW at, NEW old,
           \A i \in S : i \in DOMAIN new /\ new[i].updated_at = at + 1,
           \A i : i \notin S => Same(old, new, i)
    PROVE  Sound(s, old, new, at)
  <1>1. ASSUME NEW n \in DOMAIN s PROVE At(s[n]) = at + 1 /\ Says(s[n], new)
    <2>1. s[n].id \in S /\ s[n].row = new[s[n].id] /\ DOMAIN s[n] = {"id", "row"}
      BY AnnouncedIds
    <2>2. "gone" \notin DOMAIN s[n]
      BY <2>1
    <2> QED
      BY <2>1, <2>2 DEF At, Says
  <1>2. ASSUME NEW i, \A n \in DOMAIN s : s[n].id # i PROVE Same(old, new, i)
    <2>1. i \notin S
      BY <1>2 DEF Announces
    <2> QED
      BY <2>1
  <1> QED
    BY <1>1, <1>2 DEF Sound, Announces

\* The table v is t but for the items of S, which are stamped at + 1.
Rewritten(t, v, S, at, B) ==
    /\ TableOK(v, at + 1, B) /\ DOMAIN v = DOMAIN t
    /\ \A i \in DOMAIN t : /\ i \in S => v[i].updated_at = at + 1
                           /\ i \notin S => v[i] = t[i]

LEMMA PatchedLate ==
    ASSUME NEW at \in Nat, NEW B, NEW t, TableOK(t, at + 1, B), NEW p
    PROVE  Rewritten(t, Patched(t, p, at + 1), DOMAIN p, at, B)
  <1> DEFINE v == Patched(t, p, at + 1)
  <1>1. DOMAIN v = DOMAIN t /\ v = [i \in DOMAIN t |-> v[i]]
    BY DEF Patched
  <1>2. \A i \in DOMAIN t :
           v[i] = IF i \in DOMAIN p THEN [t[i] EXCEPT !.after = p[i], !.updated_at = at + 1] ELSE t[i]
    BY DEF Patched
  <1> HIDE DEF v
  <1>3. ASSUME NEW i \in DOMAIN t
        PROVE  /\ RowOK(v[i], at + 1)
               /\ i \in DOMAIN p => v[i].updated_at = at + 1
               /\ i \notin DOMAIN p => v[i] = t[i]
    <2>1. RowOK(t[i], at + 1)
      BY DEF TableOK
    <2>2. CASE i \in DOMAIN p
      <3>1. v[i] = [t[i] EXCEPT !.after = p[i], !.updated_at = at + 1]
        BY <1>2, <2>2
      <3>2. /\ DOMAIN v[i] = RowFields /\ v[i].list = t[i].list /\ v[i].created = t[i].created
            /\ v[i].position = t[i].position /\ v[i].updated_at = at + 1
        BY <2>1, <3>1 DEF RowOK, RowFields
      <3> QED
        BY <2>1, <2>2, <3>2 DEF RowOK
    <2>3. CASE i \notin DOMAIN p
      <3>1. v[i] = t[i]
        BY <1>2, <2>3
      <3> QED
        BY <2>1, <2>3, <3>1
    <2> QED
      BY <2>2, <2>3
  <1>4. TableOK(v, at + 1, B)
    BY <1>1, <1>3 DEF TableOK
  <1> QED
    BY <1>1, <1>3, <1>4 DEF v, Rewritten

LEMMA PatchedIs ==
    ASSUME NEW at \in Nat, NEW B, NEW t, TableOK(t, at, B), NEW p
    PROVE  Rewritten(t, Patched(t, p, at + 1), DOMAIN p, at, B)
  <1>1. at + 1 \in Nat /\ at <= at + 1
    OBVIOUS
  <1>2. TableOK(t, at + 1, B)
    BY <1>1, TableLater
  <1> QED
    BY <1>2, PatchedLate

LEMMA MovedIs ==
    ASSUME now \in Nat, NEW B, NEW t, TableOK(t, now, B), NEW S, NEW l \in Lists, NEW p
    PROVE  Rewritten(t, Moved(t, S, l, p), S, now, B)
  <1> DEFINE v == Moved(t, S, l, p)
  <1>1. DOMAIN v = DOMAIN t /\ v = [i \in DOMAIN t |-> v[i]]
    BY DEF Moved
  <1>2. \A i \in DOMAIN t :
           v[i] = IF i \in S THEN [t[i] EXCEPT !.list = l, !.after = p[i], !.updated_at = now + 1] ELSE t[i]
    BY DEF Moved
  <1> HIDE DEF v
  <1>3. ASSUME NEW i \in DOMAIN t
        PROVE  /\ RowOK(v[i], now + 1)
               /\ i \in S => v[i].updated_at = now + 1
               /\ i \notin S => v[i] = t[i]
    <2>1. RowOK(t[i], now)
      BY DEF TableOK
    <2>2. CASE i \in S
      <3>1. v[i] = [t[i] EXCEPT !.list = l, !.after = p[i], !.updated_at = now + 1]
        BY <1>2, <2>2
      <3>2. /\ DOMAIN v[i] = RowFields /\ v[i].list = l /\ v[i].created = t[i].created
            /\ v[i].position = t[i].position /\ v[i].updated_at = now + 1
        BY <2>1, <3>1 DEF RowOK, RowFields
      <3> QED
        BY <2>1, <2>2, <3>2 DEF RowOK
    <2>3. CASE i \notin S
      <3>1. v[i] = t[i]
        BY <1>2, <2>3
      <3>2. now + 1 \in Nat /\ now <= now + 1
        BY SMT
      <3>3. RowOK(t[i], now + 1)
        BY <2>1, <3>2, RowLater
      <3> QED
        BY <2>3, <3>1, <3>3
    <2> QED
      BY <2>2, <2>3
  <1>4. TableOK(v, now + 1, B)
    BY <1>1, <1>3 DEF TableOK
  <1> QED
    BY <1>1, <1>3, <1>4 DEF v, Rewritten

\* The least of some numbers, and the first item of a sequence that is in S.
LEMMA LeastIs ==
    ASSUME NEW S, IsFiniteSet(S), S \subseteq Int
    PROVE  Least(S) \subseteq S
  <1>1. CASE S = {}
    BY <1>1 DEF Least
  <1>2. CASE S # {}
    <2> DEFINE R == Ranked(S, Ascending)
    <2>1. /\ R \in Seq(S) /\ ToSet(R) = S
          /\ Len(R) = Cardinality(S) /\ Cardinality(S) \in Nat
          /\ \A m, n \in 1 .. Cardinality(S) : m < n => <<R[m], R[n]>> \in Ascending
      BY AscendingOrders, RankedListed, FS_CardinalityType
    <2> HIDE DEF R
    <2>2. DOMAIN R = 1 .. Cardinality(S) /\ \A n \in 1 .. Cardinality(S) : R[n] \in S
      BY <2>1
    <2>3. ASSUME NEW x \in S PROVE 1 \in DOMAIN R /\ R[1] <= x
      <3>1. PICK n \in DOMAIN R : R[n] = x
        BY <2>1 DEF ToSet
      <3>2. n \in 1 .. Cardinality(S) /\ 1 \in 1 .. Cardinality(S) /\ (n = 1 \/ 1 < n)
        BY <2>1, <2>2, <3>1
      <3>3. CASE n = 1
        BY <2>2, <3>1, <3>2, <3>3
      <3>4. CASE 1 < n
        <4>1. <<R[1], R[n]>> \in Ascending
          BY <2>1, <3>2, <3>4
        <4>2. R[1] < R[n]
          BY <4>1 DEF Ascending
        <4>3. R[1] \in Int /\ R[n] \in Int /\ 1 \in DOMAIN R
          BY <2>2, <3>2
        <4> QED
          BY <3>1, <4>2, <4>3
      <3> QED
        BY <3>2, <3>3, <3>4
    <2>4. \E x \in S : \A y \in S : x <= y
      BY <1>2, <2>2, <2>3
    <2>5. Min(S) \in S
      BY <2>4 DEF Min
    <2> QED
      BY <1>2, <2>5 DEF Least
  <1> QED
    BY <1>1, <1>2

LEMMA FirstIs ==
    ASSUME NEW X, NEW s \in Seq(X), NEW S PROVE First(s, S) \subseteq S
  <1> DEFINE P == {n \in DOMAIN s : s[n] \in S}
  <1>1. P \subseteq Nat
    <2>1. DOMAIN s \subseteq Nat
      OBVIOUS
    <2> QED
      BY <2>1
  <1>2. CASE P = {}
    BY <1>2 DEF First
  <1>3. CASE P # {}
    <2>1. \E x \in P : \A y \in P : x <= y
      BY <1>1, <1>3, LeastNatural
    <2>2. Min(P) \in P
      BY <2>1 DEF Min
    <2>3. First(s, S) = {s[Min(P)]}
      BY <1>3 DEF First
    <2> HIDE DEF P
    <2>4. s[Min(P)] \in S
      BY <2>2 DEF P
    <2> QED
      BY <2>3, <2>4
  <1> QED
    BY <1>2, <1>3

\* The rows of a list.
LEMMA ListOfIs ==
    ASSUME NEW t, NEW l
    PROVE  /\ DOMAIN ListOf(t, l) = InList(t, l)
           /\ InList(t, l) \subseteq DOMAIN t
           /\ \A i \in InList(t, l) : ListOf(t, l)[i] = t[i] /\ t[i].list = l
           /\ \A i \in DOMAIN t : t[i].list = l => i \in InList(t, l)
  BY DEF ListOf, InList, Restrict

LEMMA ListOfTyped ==
    ASSUME NEW at, NEW B, NEW t, TableOK(t, at, B), NEW l
    PROVE  TableOK(ListOf(t, l), at, B)
  <1> DEFINE v == ListOf(t, l)
  <1>1. DOMAIN v = InList(t, l) /\ InList(t, l) \subseteq DOMAIN t /\ v = [i \in InList(t, l) |-> t[i]]
    BY DEF ListOf, InList, Restrict
  <1> HIDE DEF v
  <1>2. IsFiniteSet(DOMAIN v)
    BY <1>1, FS_Subset DEF TableOK
  <1>3. v = [i \in DOMAIN v |-> v[i]]
    BY <1>1
  <1>4. \A i \in DOMAIN v : i \in DOMAIN t /\ v[i] = t[i]
    BY <1>1
  <1>5. TableOK(v, at, B)
    BY <1>2, <1>3, <1>4 DEF TableOK
  <1> QED
    BY <1>5 DEF v

LEMMA ListOfSorts ==
    ASSUME NEW at, NEW B, NEW t, TableOK(t, at, B), B \subseteq Ids, NEW l
    PROVE  Sortable(ListOf(t, l))
  <1>1. TableOK(ListOf(t, l), at, B)
    BY ListOfTyped
  <1>2. Ids \subseteq Int /\ Top \notin Ids
    BY ItemsAssumption
  <1> QED
    BY <1>1, <1>2 DEF TableOK, Sortable, RowOK

-----------------------------------------------------------------------------
(* The invariant.                                                          *)

ItemsTyped ==
    /\ now \in Nat /\ regular \in BOOLEAN /\ born \subseteq Ids
    /\ rows = [d \in Devices |-> rows[d]]
    /\ seen = [d \in Devices |-> seen[d]]
    /\ inbox = [d \in Devices |-> inbox[d]]
    /\ \A d \in Devices : /\ TableOK(rows[d], now, born)
                          /\ TableOK(seen[d], now, born)
                          /\ MsgsOK(inbox[d], now, born)

\* There is one table that every device comes to hold.
Whole == regular => \E T : \A d \in Devices : Pending(rows[d], inbox[d], T)

ItemsInv == ItemsTyped /\ Whole

LEMMA ItemsStart == Init => ItemsInv
  <1> SUFFICES ASSUME Init PROVE ItemsInv
    OBVIOUS
  <1>1. PICK t \in Starts :
           /\ rows = [d \in Devices |-> t] /\ seen = rows /\ inbox = [d \in Devices |-> <<>>]
           /\ now = 0 /\ born = DOMAIN t /\ regular = TRUE
    BY DEF Init
  <1>2. TableOK(t, 0, born) /\ born \subseteq Ids
    BY <1>1, ItemsAssumption DEF TableOK, RowOK, RowFields
  <1>3. MsgsOK(<<>>, 0, born)
    <2>1. DOMAIN <<>> = {} /\ IsList(<<>>)
      BY DEF IsList
    <2> QED
      BY <2>1 DEF MsgsOK
  <1>4. ItemsTyped
    BY <1>1, <1>2, <1>3 DEF ItemsTyped
  <1>5. \A d \in Devices : Pending(rows[d], inbox[d], t)
    <2>1. Pending(t, <<>>, t)
      BY NothingPending DEF Same
    <2> QED
      BY <1>1, <2>1
  <1> QED
    BY <1>4, <1>5 DEF ItemsInv, Whole

\* A device made `new` of its table and pushed s.  If it was up to date, the
\* messages say what it changed.
LEMMA Operated ==
    ASSUME ItemsInv, NEW d \in Devices, NEW new, NEW s, NEW quiet \in BOOLEAN,
           now' = now + 1, born \subseteq born', born' \subseteq Ids,
           rows' = [rows EXCEPT ![d] = new], seen' = [seen EXCEPT ![d] = new],
           inbox' = [e \in Devices |-> IF e = d THEN inbox[e] ELSE inbox[e] \o s],
           regular, regular' = (regular /\ quiet), quiet => inbox[d] = <<>>,
           TableOK(new, now + 1, born'), MsgsOK(s, now + 1, born'),
           quiet => Sound(s, rows[d], new, now)
    PROVE  ItemsInv'
  <1>1. now \in Nat /\ now + 1 \in Nat /\ now <= now + 1
    BY DEF ItemsInv, ItemsTyped
  <1>2. /\ rows = [e \in Devices |-> rows[e]] /\ seen = [e \in Devices |-> seen[e]]
        /\ rows' = [e \in Devices |-> rows'[e]] /\ seen' = [e \in Devices |-> seen'[e]]
        /\ inbox' = [e \in Devices |-> inbox'[e]]
    BY DEF ItemsInv, ItemsTyped
  <1>3. rows'[d] = new /\ seen'[d] = new /\ inbox'[d] = inbox[d]
    BY <1>2
  <1>4. ASSUME NEW e \in Devices, e # d
        PROVE  rows'[e] = rows[e] /\ seen'[e] = seen[e] /\ inbox'[e] = inbox[e] \o s
    BY <1>2, <1>4
  <1>5. ASSUME NEW e \in Devices
        PROVE  /\ TableOK(rows[e], now + 1, born') /\ TableOK(seen[e], now + 1, born')
               /\ MsgsOK(inbox[e], now + 1, born')
    <2>1. TableOK(rows[e], now, born) /\ TableOK(seen[e], now, born) /\ MsgsOK(inbox[e], now, born)
      BY DEF ItemsInv, ItemsTyped
    <2> QED
      BY <1>1, <2>1, TableLater, MsgsLater
  <1>6. ASSUME NEW e \in Devices
        PROVE  /\ TableOK(rows'[e], now', born') /\ TableOK(seen'[e], now', born')
               /\ MsgsOK(inbox'[e], now', born')
    <2>1. CASE e = d
      BY <1>3, <1>5, <2>1
    <2>2. CASE e # d
      BY <1>4, <1>5, <2>2, MsgsJoined
    <2> QED
      BY <2>1, <2>2
  <1>7. ItemsTyped'
    <2>1. regular' \in BOOLEAN /\ now' \in Nat
      BY <1>1
    <2> QED
      BY <1>2, <1>6, <2>1 DEF ItemsTyped
  <1>8. ASSUME regular'
        PROVE  \E T : \A e \in Devices : Pending(rows'[e], inbox'[e], T)
    <2>1. PICK T : \A e \in Devices : Pending(rows[e], inbox[e], T)
      BY <1>8 DEF ItemsInv, Whole
    <2>2. inbox[d] = <<>> /\ Sound(s, rows[d], new, now)
      BY <1>8
    <2>3. \A i : Same(rows[d], T, i)
      <3>1. Pending(rows[d], <<>>, T)
        BY <2>1, <2>2
      <3> QED
        BY <3>1, NothingPending
    <2>4. Sound(s, T, new, now)
      BY <2>2, <2>3, SameTwice DEF Sound
    <2>5. ASSUME NEW e \in Devices PROVE Pending(rows'[e], inbox'[e], new)
      <3>1. CASE e = d
        <4>1. Pending(new, <<>>, new)
          BY NothingPending DEF Same
        <4> QED
          BY <1>3, <2>2, <3>1, <4>1
      <3>2. CASE e # d
        <4>1. TableOK(rows[e], now, born) /\ MsgsOK(inbox[e], now, born)
          BY DEF ItemsInv, ItemsTyped
        <4>2. Pending(rows[e], inbox[e] \o s, new)
          BY <1>1, <2>1, <2>4, <4>1, PendingMore
        <4> QED
          BY <1>4, <3>2, <4>2
      <3> QED
        BY <3>1, <3>2
    <2> QED
      BY <2>5
  <1> QED
    BY <1>7, <1>8 DEF ItemsInv, Whole

\* The same of an operation of the user.
LEMMA UserOperated ==
    ASSUME ItemsInv, NEW d \in Devices, NEW new, NEW s, NEW wanted,
           Operation(d, new, s, wanted), born \subseteq born', born' \subseteq Ids,
           TableOK(new, now + 1, born'), MsgsOK(s, now + 1, born'),
           seen[d] = rows[d] => Sound(s, rows[d], new, now)
    PROVE  ItemsInv'
  <1>1. PICK quiet \in BOOLEAN : quiet = Settled(d)
    BY DEF Settled
  <1>2. quiet => inbox[d] = <<>> /\ seen[d] = rows[d]
    BY <1>1 DEF Settled
  <1>3. /\ now' = now + 1 /\ rows' = [rows EXCEPT ![d] = new] /\ seen' = [seen EXCEPT ![d] = new]
        /\ inbox' = [e \in Devices |-> IF e = d THEN inbox[e] ELSE inbox[e] \o s]
        /\ regular /\ regular' = (regular /\ quiet)
    BY <1>1 DEF Operation
  <1> QED
    BY <1>2, <1>3, Operated

\* A merge.
LEMMA ItemsReceive ==
    ASSUME ItemsInv, NEW d \in Devices, Receive(d) PROVE ItemsInv'
  <1>1. PICK h, r, v : h = Head(inbox[d]) /\ r = Tail(inbox[d]) /\ v = Merge(rows[d], Head(inbox[d]))
    OBVIOUS
  <1>2. /\ inbox[d] # <<>> /\ rows' = [rows EXCEPT ![d] = v] /\ inbox' = [inbox EXCEPT ![d] = r]
        /\ now' = now /\ seen' = seen /\ born' = born /\ regular' = regular
    BY <1>1 DEF Receive
  <1>3. /\ rows = [e \in Devices |-> rows[e]] /\ inbox = [e \in Devices |-> inbox[e]]
        /\ now \in Nat /\ TableOK(rows[d], now, born) /\ MsgsOK(inbox[d], now, born)
    BY DEF ItemsInv, ItemsTyped
  <1>4. rows'[d] = v /\ inbox'[d] = r
    BY <1>2, <1>3
  <1>5. \A e \in Devices : e # d => rows'[e] = rows[e] /\ inbox'[e] = inbox[e]
    BY <1>2, <1>3
  <1>6. rows' = [e \in Devices |-> rows'[e]] /\ inbox' = [e \in Devices |-> inbox'[e]]
    BY <1>2, <1>3
  <1>7. MsgOK(h, now, born) /\ MsgsOK(r, now, born)
    <2>1. /\ DOMAIN inbox[d] = 1 .. Len(inbox[d]) /\ Len(inbox[d]) \in Nat /\ Len(inbox[d]) >= 1
          /\ h = inbox[d][1] /\ DOMAIN r = 1 .. Len(inbox[d]) - 1 /\ IsList(r)
          /\ \A n \in 1 .. Len(inbox[d]) - 1 : r[n] = inbox[d][n + 1]
      BY <1>1, <1>2, <1>3, ListHead DEF MsgsOK
    <2>2. 1 \in DOMAIN inbox[d] /\ \A n \in DOMAIN r : n + 1 \in DOMAIN inbox[d] /\ r[n] = inbox[d][n + 1]
      BY <2>1
    <2> QED
      BY <1>3, <2>1, <2>2 DEF MsgsOK
  <1>8. TableOK(v, now, born)
    BY <1>1, <1>3, <1>7, Merged
  <1>9. ItemsTyped'
    <2>1. ASSUME NEW e \in Devices
          PROVE  TableOK(rows'[e], now, born) /\ MsgsOK(inbox'[e], now, born)
      <3>1. CASE e = d
        BY <1>4, <1>7, <1>8, <3>1
      <3>2. CASE e # d
        BY <1>5, <3>2 DEF ItemsInv, ItemsTyped
      <3> QED
        BY <3>1, <3>2
    <2> QED
      BY <1>2, <1>6, <2>1 DEF ItemsInv, ItemsTyped
  <1>10. ASSUME regular', NEW T, \A e \in Devices : Pending(rows[e], inbox[e], T)
         PROVE  \A e \in Devices : Pending(rows'[e], inbox'[e], T)
    <2>1. Pending(v, r, T)
      BY <1>1, <1>2, <1>3, <1>10, PendingHead
    <2> QED
      BY <1>4, <1>5, <1>10, <2>1
  <1> QED
    BY <1>2, <1>9, <1>10 DEF ItemsInv, Whole

LEMMA ItemsRefresh ==
    ASSUME ItemsInv, NEW d \in Devices, Refresh(d) PROVE ItemsInv'
  <1>1. /\ seen' = [seen EXCEPT ![d] = rows[d]] /\ now' = now /\ rows' = rows /\ inbox' = inbox
        /\ born' = born /\ regular' = regular
    BY DEF Refresh
  <1>2. seen = [e \in Devices |-> seen[e]]
    BY DEF ItemsInv, ItemsTyped
  <1>3. /\ seen' = [e \in Devices |-> seen'[e]]
        /\ \A e \in Devices : seen'[e] = IF e = d THEN rows[e] ELSE seen[e]
    BY <1>1, <1>2
  <1>4. ItemsTyped'
    BY <1>1, <1>3 DEF ItemsInv, ItemsTyped
  <1>5. Whole'
    BY <1>1 DEF ItemsInv, Whole
  <1> QED
    BY <1>4, <1>5 DEF ItemsInv

\* Nothing of the invariant changes.
LEMMA ItemsSame ==
    ASSUME ItemsInv, UNCHANGED <<rows, seen, inbox, now, born, regular>> PROVE ItemsInv'
  BY DEF ItemsInv, ItemsTyped, Whole

-----------------------------------------------------------------------------
(* One lemma per action.                                                   *)

\* Two parts that say of different items what became of them.
LEMMA TwoParts ==
    ASSUME NEW at \in Nat, NEW B, NEW old, NEW new, TableOK(new, at + 1, B),
           NEW s, NEW S, Announces(s, new, S), NEW u, NEW R, Announces(u, new, R),
           S \intersect R = {}, S \subseteq DOMAIN new, R \subseteq DOMAIN new,
           \A i \in S \union R : new[i].updated_at = at + 1,
           \A i : i \notin S \union R => Same(old, new, i)
    PROVE  Sound(s \o u, old, new, at)
  <1>1. PICK w : w = s \o u
    OBVIOUS
  <1>2. Announces(w, new, S \union R)
    BY <1>1, AnnouncesJoined
  <1>3. Sound(w, old, new, at)
    BY <1>2, AnnouncesSound
  <1> QED
    BY <1>1, <1>3

LEMMA AddTyped ==
    ASSUME ItemsInv, NEW d \in Devices, NEW l \in Lists, NEW i \in Ids \ born, AddItem(d, l, i)
    PROVE  ItemsInv'
  <1>1. PICK after : after = InlineAfter(d, l)
    OBVIOUS
  <1>2. PICK patch : patch = ChainInsert(ListOf(rows[d], l), after, i)
    OBVIOUS
  <1>3. PICK t, v, r, f :
           /\ t = rows[d] /\ v = Patched(t, patch, now + 1) /\ r = NewRow(l, after)
           /\ f = Only(i, r)
    OBVIOUS
  <1>4. PICK new, s, u : /\ new = Over(f, v) /\ s = <<RowMsg(i, new[i])>>
                         /\ u = RowMsgs(new, DOMAIN patch)
    OBVIOUS
  <1>5. born' = born \union {i} /\ \E w : Operation(d, new, s \o u, w)
    BY <1>1, <1>2, <1>3, <1>4 DEF AddItem
  <1>6. /\ now \in Nat /\ TableOK(t, now, born) /\ born \subseteq Ids /\ i \notin born
        /\ now <= now + 1 /\ now + 1 \in Nat
    BY <1>3 DEF ItemsInv, ItemsTyped
  <1>7. /\ TableOK(v, now + 1, born) /\ DOMAIN v = DOMAIN t
        /\ \A k \in DOMAIN t : /\ k \in DOMAIN patch => v[k].updated_at = now + 1
                               /\ k \notin DOMAIN patch => v[k] = t[k]
    <2>1. Rewritten(t, Patched(t, patch, now + 1), DOMAIN patch, now, born)
      BY <1>6, PatchedIs
    <2>2. Rewritten(t, v, DOMAIN patch, now, born)
      BY <1>3, <2>1
    <2> QED
      BY <2>2 DEF Rewritten
  <1>8. RowOK(r, now + 1) /\ r.updated_at = now + 1
    BY <1>3, <1>6 DEF NewRow, Row, RowOK, RowFields
  <1>9. DOMAIN f = {i} /\ f[i] = r
    BY <1>3 DEF Only
  <1>10. /\ DOMAIN new = {i} \union DOMAIN t /\ new[i] = r
         /\ new = [k \in DOMAIN new |-> new[k]]
         /\ \A k \in DOMAIN t : k # i => new[k] = v[k]
    <2>1. /\ DOMAIN Over(f, v) = DOMAIN f \union DOMAIN v
          /\ \A k \in DOMAIN f : Over(f, v)[k] = f[k]
          /\ \A k \in DOMAIN v : k \notin DOMAIN f => Over(f, v)[k] = v[k]
          /\ Over(f, v) = [k \in DOMAIN Over(f, v) |-> Over(f, v)[k]]
      BY OverIs
    <2>2. new = Over(f, v)
      BY <1>4
    <2>3. /\ DOMAIN new = DOMAIN f \union DOMAIN v
          /\ \A k \in DOMAIN f : new[k] = f[k]
          /\ \A k \in DOMAIN v : k \notin DOMAIN f => new[k] = v[k]
          /\ new = [k \in DOMAIN new |-> new[k]]
      BY <2>1, <2>2
    <2> QED
      BY <1>7, <1>9, <2>3
  <1>11. i \notin DOMAIN t /\ \A k \in DOMAIN t : new[k] = v[k]
    BY <1>6, <1>10 DEF TableOK
  <1>12. TableOK(new, now + 1, born')
    <2>1. IsFiniteSet(DOMAIN new)
      BY <1>6, <1>10, FS_AddElement DEF TableOK
    <2>2. \A k \in DOMAIN t : RowOK(new[k], now + 1) /\ k \in born
      BY <1>7, <1>11 DEF TableOK
    <2> QED
      BY <1>5, <1>8, <1>10, <2>1, <2>2 DEF TableOK
  <1>13. i \notin DOMAIN patch
    <2>1. PICK S : S = {k \in DOMAIN ListOf(rows[d], l) : Follows(ListOf(rows[d], l)[k]) = after}
      OBVIOUS
    <2>2. S \subseteq DOMAIN t /\ IsFiniteSet(S) /\ S \subseteq Int
      BY <1>3, <1>6, <2>1, ListOfIs, ItemsAssumption, FS_Subset DEF TableOK
    <2>3. DOMAIN patch = Least(S)
      BY <1>2, <2>1 DEF ChainInsert, PatchOne
    <2> QED
      BY <1>11, <2>2, <2>3, LeastIs
  <1>14. Announces(s, new, {i})
    BY <1>4, AnnouncesOne
  <1>15. Announces(u, new, DOMAIN patch \intersect DOMAIN new)
    BY <1>4, <1>12, AnnouncesRows DEF TableOK
  <1>16. MsgsOK(s, now + 1, born') /\ MsgsOK(u, now + 1, born')
    <2>1. \A k \in DOMAIN new : k \in born' /\ RowOK(new[k], now + 1)
      BY <1>12 DEF TableOK
    <2>2. i \in DOMAIN new
      BY <1>10
    <2> QED
      BY <1>14, <1>15, <2>1, <2>2, AnnouncesTyped
  <1>17. MsgsOK(s \o u, now + 1, born')
    BY <1>16, MsgsJoined
  <1>18. Sound(s \o u, t, new, now)
    <2>1. \A k \in {i} \union (DOMAIN patch \intersect DOMAIN new) : new[k].updated_at = now + 1
      BY <1>7, <1>8, <1>10, <1>11
    <2>2. ASSUME NEW k, k \notin {i} \union (DOMAIN patch \intersect DOMAIN new)
          PROVE  Same(t, new, k)
      BY <1>7, <1>10, <1>11, <2>2 DEF Same
    <2>3. {i} \intersect (DOMAIN patch \intersect DOMAIN new) = {} /\ {i} \subseteq DOMAIN new
      BY <1>10, <1>13
    <2> QED
      BY <1>6, <1>12, <1>14, <1>15, <2>1, <2>2, <2>3, TwoParts
  <1>19. born \subseteq born' /\ born' \subseteq Ids
    BY <1>5, <1>6
  <1>20. PICK w, m : m = s \o u /\ Operation(d, new, m, w)
    BY <1>5
  <1> QED
    BY <1>3, <1>12, <1>17, <1>18, <1>19, <1>20, UserOperated

LEMMA BulkTyped ==
    ASSUME ItemsInv, NEW d \in Devices, NEW l \in Lists, NEW i \in Ids \ born, NEW j \in Ids \ born,
           i # j, BulkCreateItems(d, l, <<i, j>>)
    PROVE  ItemsInv'
  <1>1. PICK q, t, links :
           q = <<i, j>> /\ t = rows[d] /\ links = Linked(q, Tail_(ResolveChain(ListOf(t, l))))
    OBVIOUS
  <1>2. PICK f : f = [k \in ToSet(q) |-> NewRow(l, links[k])]
    OBVIOUS
  <1>3. PICK new, s : new = Over(f, t) /\ s = [n \in DOMAIN q |-> RowMsg(q[n], f[q[n]])]
    OBVIOUS
  <1>4. born' = born \union ToSet(q) /\ \E w : Operation(d, new, s, w)
    BY <1>1, <1>2, <1>3 DEF BulkCreateItems
  <1>5. /\ now \in Nat /\ TableOK(t, now, born) /\ born \subseteq Ids
        /\ now <= now + 1 /\ now + 1 \in Nat
    BY <1>1 DEF ItemsInv, ItemsTyped
  <1>6. DOMAIN q = 1 .. 2 /\ q[1] = i /\ q[2] = j
    BY <1>1
  <1>7. ToSet(q) = {i, j}
    <2>1. 1 \in 1 .. 2 /\ 2 \in 1 .. 2 /\ \A n \in 1 .. 2 : n = 1 \/ n = 2
      OBVIOUS
    <2> QED
      BY <1>6, <2>1 DEF ToSet
  <1>8. DOMAIN f = {i, j} /\ \A k \in {i, j} : RowOK(f[k], now + 1) /\ f[k].updated_at = now + 1
    BY <1>2, <1>5, <1>7 DEF NewRow, Row, RowOK, RowFields
  <1>9. /\ DOMAIN new = {i, j} \union DOMAIN t /\ new = [k \in DOMAIN new |-> new[k]]
        /\ \A k \in {i, j} : new[k] = f[k]
        /\ \A k \in DOMAIN t : k \notin {i, j} => new[k] = t[k]
    <2>1. /\ DOMAIN Over(f, t) = DOMAIN f \union DOMAIN t
          /\ \A k \in DOMAIN f : Over(f, t)[k] = f[k]
          /\ \A k \in DOMAIN t : k \notin DOMAIN f => Over(f, t)[k] = t[k]
          /\ Over(f, t) = [k \in DOMAIN Over(f, t) |-> Over(f, t)[k]]
      BY OverIs
    <2>2. new = Over(f, t)
      BY <1>3
    <2>3. /\ DOMAIN new = DOMAIN f \union DOMAIN t
          /\ \A k \in DOMAIN f : new[k] = f[k]
          /\ \A k \in DOMAIN t : k \notin DOMAIN f => new[k] = t[k]
          /\ new = [k \in DOMAIN new |-> new[k]]
      BY <2>1, <2>2
    <2> QED
      BY <1>8, <2>3
  <1>10. i \notin DOMAIN t /\ j \notin DOMAIN t
    BY <1>5 DEF TableOK
  <1>11. TableOK(t, now + 1, born)
    BY <1>5, TableLater
  <1>12. TableOK(new, now + 1, born')
    <2>1. IsFiniteSet({j} \union DOMAIN t)
      BY <1>5, FS_AddElement DEF TableOK
    <2>2. IsFiniteSet({i} \union ({j} \union DOMAIN t))
      BY <2>1, FS_AddElement
    <2>3. {i} \union ({j} \union DOMAIN t) = DOMAIN new
      BY <1>9
    <2>4. \A k \in DOMAIN new : RowOK(new[k], now + 1) /\ k \in born'
      BY <1>4, <1>7, <1>8, <1>9, <1>11 DEF TableOK
    <2> QED
      BY <1>9, <2>2, <2>3, <2>4 DEF TableOK
  <1>13. /\ DOMAIN s = 1 .. 2 /\ s = [n \in 1 .. 2 |-> s[n]]
         /\ s[1] = RowMsg(i, new[i]) /\ s[2] = RowMsg(j, new[j])
    BY <1>3, <1>6, <1>9
  <1>14. Announces(s, new, {i, j})
    <2>1. IsList(s)
      BY <1>13, ListBy
    <2>2. s[1].id = i /\ s[2].id = j
      BY <1>13, RowMsgIs
    <2>3. 1 \in 1 .. 2 /\ 2 \in 1 .. 2 /\ \A n \in 1 .. 2 : n = 1 \/ n = 2
      OBVIOUS
    <2>4. \A n \in DOMAIN s : n = 1 \/ n = 2
      BY <1>13, <2>3
    <2>5. 1 \in DOMAIN s /\ 2 \in DOMAIN s
      BY <1>13, <2>3
    <2>6. \A n \in DOMAIN s : \E k \in {i, j} : s[n] = RowMsg(k, new[k])
      BY <1>13, <2>4
    <2>7. \A k \in {i, j} : \E n \in DOMAIN s : s[n].id = k
      BY <2>2, <2>5
    <2>8. \A m, n \in DOMAIN s : s[m].id = s[n].id => m = n
      BY <2>2, <2>4
    <2> QED
      BY <2>1, <2>6, <2>7, <2>8 DEF Announces
  <1>15. MsgsOK(s, now + 1, born')
    <2>1. \A k \in {i, j} : k \in born' /\ RowOK(new[k], now + 1)
      BY <1>9, <1>12 DEF TableOK
    <2> QED
      BY <1>14, <2>1, AnnouncesTyped
  <1>16. Sound(s, t, new, now)
    <2>1. \A k \in {i, j} : k \in DOMAIN new /\ new[k].updated_at = now + 1
      BY <1>8, <1>9
    <2>2. ASSUME NEW k, k \notin {i, j} PROVE Same(t, new, k)
      BY <1>9, <2>2 DEF Same
    <2> QED
      BY <1>14, <2>1, <2>2, AnnouncesSound
  <1>17. born \subseteq born' /\ born' \subseteq Ids
    BY <1>4, <1>5, <1>7
  <1>18. PICK w : Operation(d, new, s, w)
    BY <1>4
  <1> QED
    BY <1>1, <1>12, <1>15, <1>16, <1>17, <1>18, UserOperated

\* What became of the items of S, and that i is gone.
LEMMA GoneSound ==
    ASSUME NEW at \in Nat, NEW B, NEW s, NEW new, NEW S, Announces(s, new, S), MsgsOK(s, at + 1, B),
           NEW i \in B, i \notin DOMAIN new, i \notin S
    PROVE  /\ MsgsOK(Append(s, GoneMsg(i, at + 1)), at + 1, B)
           /\ \A old : (/\ \A k \in S : k \in DOMAIN new /\ new[k].updated_at = at + 1
                        /\ \A k : k \notin S \union {i} => Same(old, new, k))
                       => Sound(Append(s, GoneMsg(i, at + 1)), old, new, at)
  <1>1. PICK m, w, l : m = GoneMsg(i, at + 1) /\ w = Append(s, m) /\ l = Len(s)
    OBVIOUS
  <1>2. DOMAIN m = {"id", "gone"} /\ m.id = i /\ m.gone = at + 1 /\ MsgOK(m, at + 1, B) /\ At(m) = at + 1
    BY <1>1 DEF GoneMsg, MsgOK, At
  <1>3. s \in Seq(ToSet(s) \union {m})
    <2>1. s \in Seq(ToSet(s))
      BY DEF Announces, IsList
    <2> QED
      BY <2>1
  <1>4. /\ DOMAIN s = 1 .. l /\ l \in Nat /\ DOMAIN w = 1 .. l + 1 /\ w[l + 1] = m
        /\ \A n \in 1 .. l : w[n] = s[n]
        /\ w = [n \in 1 .. l + 1 |-> w[n]]
    BY <1>1, <1>3
  <1>5. IsList(w)
    <2>1. l + 1 \in Nat
      BY <1>4
    <2> QED
      BY <1>4, <2>1, ListBy
  <1>6. \A n \in DOMAIN w : (n \in DOMAIN s /\ w[n] = s[n]) \/ (n = l + 1 /\ w[n] = m)
    BY <1>4
  <1>7. \A n \in DOMAIN s : n \in DOMAIN w /\ w[n] = s[n]
    BY <1>4
  <1>8. l + 1 \in DOMAIN w /\ w[l + 1] = m
    BY <1>4
  <1>9. MsgsOK(w, at + 1, B)
    BY <1>2, <1>5, <1>6 DEF MsgsOK
  <1>10. ASSUME NEW old, \A k \in S : k \in DOMAIN new /\ new[k].updated_at = at + 1,
                \A k : k \notin S \union {i} => Same(old, new, k)
         PROVE  Sound(w, old, new, at)
    <2>1. \A n \in DOMAIN s : s[n].id \in S /\ s[n].row = new[s[n].id] /\ DOMAIN s[n] = {"id", "row"}
      BY AnnouncedIds
    <2>2. ASSUME NEW n \in DOMAIN s PROVE At(s[n]) = at + 1 /\ Says(s[n], new)
      <3>1. "gone" \notin DOMAIN s[n]
        BY <2>1
      <3> QED
        BY <1>10, <2>1, <3>1 DEF At, Says
    <2>3. Says(m, new)
      BY <1>2 DEF Says
    <2>4. \A n \in DOMAIN w : At(w[n]) = at + 1 /\ Says(w[n], new)
      BY <1>2, <1>6, <2>2, <2>3
    <2>5. ASSUME NEW a \in DOMAIN w, NEW b \in DOMAIN w, w[a].id = w[b].id PROVE a = b
      BY <1>2, <1>6, <2>1, <2>5 DEF Announces
    <2>6. ASSUME NEW k, \A n \in DOMAIN w : w[n].id # k PROVE Same(old, new, k)
      <3>1. k # i
        BY <1>2, <1>8, <2>6
      <3>2. k \notin S
        BY <1>7, <2>6 DEF Announces
      <3> QED
        BY <1>10, <3>1, <3>2
    <2> QED
      BY <1>5, <2>4, <2>5, <2>6 DEF Sound
  <1> QED
    BY <1>1, <1>9, <1>10

LEMMA DeleteTyped ==
    ASSUME ItemsInv, NEW d \in Devices, NEW i \in DOMAIN rows[d], DeleteItem(d, i)
    PROVE  ItemsInv'
  <1>1. PICK t, patch : t = rows[d] /\ patch = ChainDelete(rows[d], i, Follows(rows[d][i]))
    OBVIOUS
  <1>2. PICK v : v = Patched(t, patch, now + 1)
    OBVIOUS
  <1>3. PICK new : new = Restrict(v, DOMAIN t \ {i})
    OBVIOUS
  <1>4. PICK u, m : u = RowMsgs(new, DOMAIN patch) /\ m = Append(u, GoneMsg(i, now + 1))
    OBVIOUS
  <1>5. born' = born /\ \E w : Operation(d, new, m, w)
    BY <1>1, <1>2, <1>3, <1>4 DEF DeleteItem
  <1>6. now \in Nat /\ TableOK(t, now, born) /\ born \subseteq Ids /\ i \in DOMAIN t /\ i \in born
    BY <1>1 DEF ItemsInv, ItemsTyped, TableOK
  <1>7. /\ TableOK(v, now + 1, born) /\ DOMAIN v = DOMAIN t
        /\ \A k \in DOMAIN t : /\ k \in DOMAIN patch => v[k].updated_at = now + 1
                               /\ k \notin DOMAIN patch => v[k] = t[k]
    <2>1. Rewritten(t, Patched(t, patch, now + 1), DOMAIN patch, now, born)
      BY <1>6, PatchedIs
    <2>2. Rewritten(t, v, DOMAIN patch, now, born)
      BY <1>2, <2>1
    <2> QED
      BY <2>2 DEF Rewritten
  <1>8. /\ DOMAIN new = DOMAIN t \ {i} /\ new = [k \in DOMAIN new |-> new[k]]
        /\ \A k \in DOMAIN new : new[k] = v[k]
    BY <1>3, <1>7 DEF Restrict
  <1>9. TableOK(new, now + 1, born)
    <2>1. IsFiniteSet(DOMAIN new)
      BY <1>6, <1>8, FS_Subset DEF TableOK
    <2> QED
      BY <1>7, <1>8, <2>1 DEF TableOK
  <1>10. PICK S : S = DOMAIN patch \intersect DOMAIN new
    OBVIOUS
  <1>11. Announces(u, new, S)
    BY <1>4, <1>9, <1>10, AnnouncesRows DEF TableOK
  <1>12. MsgsOK(u, now + 1, born)
    <2>1. \A k \in S : k \in born /\ RowOK(new[k], now + 1)
      BY <1>9, <1>10 DEF TableOK
    <2> QED
      BY <1>11, <2>1, AnnouncesTyped
  <1>13. i \notin DOMAIN new /\ i \notin S
    BY <1>8, <1>10
  <1>14. \A k \in S : k \in DOMAIN new /\ new[k].updated_at = now + 1
    BY <1>7, <1>8, <1>10
  <1>15. ASSUME NEW k, k \notin S \union {i} PROVE Same(t, new, k)
    BY <1>7, <1>8, <1>10, <1>15 DEF Same
  <1>16. MsgsOK(m, now + 1, born) /\ Sound(m, t, new, now)
    BY <1>4, <1>6, <1>11, <1>12, <1>13, <1>14, <1>15, GoneSound
  <1>17. PICK w : Operation(d, new, m, w)
    BY <1>5
  <1> QED
    BY <1>1, <1>5, <1>6, <1>9, <1>16, <1>17, UserOperated

LEMMA ReorderedIs ==
    ASSUME NEW t, NEW X, NEW s \in Seq(X), NEW moved \in DOMAIN t, NEW newAfter
    PROVE  DOMAIN ReorderByAfterId(t, s, moved, newAfter) \subseteq DOMAIN t
  <1>1. PICK A : A = {i \in DOMAIN t : t[i].after = moved} \ {moved}
    OBVIOUS
  <1>2. PICK B : B = {i \in DOMAIN t : t[i].after = newAfter} \ {moved}
    OBVIOUS
  <1>3. First(s, A) \subseteq DOMAIN t /\ First(s, B) \subseteq DOMAIN t
    BY <1>1, <1>2, FirstIs
  <1>4. PICK p : p = ReorderByAfterId(t, s, moved, newAfter)
    OBVIOUS
  <1>5. CASE t[moved].after = newAfter
    <2>1. p = NoPatch
      BY <1>4, <1>5 DEF ReorderByAfterId
    <2> QED
      BY <1>4, <2>1 DEF NoPatch
  <1>6. CASE t[moved].after # newAfter
    <2>1. p = Over(Over(PatchOne({moved}, newAfter), PatchOne(First(s, A), t[moved].after)),
                   PatchOne(First(s, B) \ First(s, A), moved))
      BY <1>1, <1>2, <1>4, <1>6 DEF ReorderByAfterId
    <2>2. DOMAIN p = ({moved} \union First(s, A)) \union (First(s, B) \ First(s, A))
      BY <2>1 DEF Over, PatchOne
    <2> QED
      BY <1>3, <1>4, <2>2
  <1> QED
    BY <1>5, <1>6

LEMMA ReorderTyped ==
    ASSUME ItemsInv, NEW d \in Devices, NEW l \in Lists, NEW x \in InList(seen[d], l), NEW n,
           Reorder(d, l, x, n)
    PROVE  ItemsInv'
  <1>1. PICK after : after = DropAfter(d, l, Dropped(DisplayItems(d, l), x, n), n)
    OBVIOUS
  <1>2. PICK t, o, c : t = rows[d] /\ o = seen[d] /\ c = ListOf(o, l)
    OBVIOUS
  <1>3. PICK patch : patch = ReorderByAfterId(c, Shown(d, l), x, after)
    OBVIOUS
  <1>4. PICK new, pushed : new = Patched(t, patch, now + 1) /\ pushed = Patched(c, patch, now + 1)
    OBVIOUS
  <1>5. PICK u : u = RowMsgs(pushed, DOMAIN patch)
    OBVIOUS
  <1>6. born' = born /\ \E w : Operation(d, new, u, w)
    BY <1>1, <1>2, <1>3, <1>4, <1>5 DEF Reorder
  <1>7. now \in Nat /\ TableOK(t, now, born) /\ TableOK(o, now, born) /\ born \subseteq Ids
    BY <1>2 DEF ItemsInv, ItemsTyped
  <1>8. /\ TableOK(c, now, born) /\ Sortable(c) /\ DOMAIN c = InList(o, l)
        /\ \A i \in DOMAIN c : i \in DOMAIN o /\ c[i] = o[i]
    BY <1>2, <1>7, ListOfTyped, ListOfSorts, ListOfIs
  <1>9. Rewritten(t, new, DOMAIN patch, now, born)
    <2>1. Rewritten(t, Patched(t, patch, now + 1), DOMAIN patch, now, born)
      BY <1>7, PatchedIs
    <2> QED
      BY <1>4, <2>1
  <1>10. Rewritten(c, pushed, DOMAIN patch, now, born)
    <2>1. Rewritten(c, Patched(c, patch, now + 1), DOMAIN patch, now, born)
      BY <1>7, <1>8, PatchedIs
    <2> QED
      BY <1>4, <2>1
  <1>11. TableOK(new, now + 1, born) /\ TableOK(pushed, now + 1, born)
    BY <1>9, <1>10 DEF Rewritten
  <1>12. PICK S : S = DOMAIN patch \intersect DOMAIN pushed
    OBVIOUS
  <1>13. Announces(u, pushed, S)
    BY <1>5, <1>11, <1>12, AnnouncesRows DEF TableOK
  <1>14. MsgsOK(u, now + 1, born)
    <2>1. \A k \in S : k \in born /\ RowOK(pushed[k], now + 1)
      BY <1>11, <1>12 DEF TableOK
    <2> QED
      BY <1>13, <2>1, AnnouncesTyped
  <1>15. DOMAIN patch \subseteq DOMAIN c
    <2>1. Shown(d, l) \in Seq(DOMAIN c)
      BY <1>2, <1>8, Resolved DEF Shown
    <2>2. x \in DOMAIN c
      BY <1>2, <1>8
    <2> QED
      BY <1>3, <2>1, <2>2, ReorderedIs
  <1>16. ASSUME o = t PROVE Sound(u, t, new, now)
    <2>1. DOMAIN pushed = DOMAIN c /\ DOMAIN new = DOMAIN t
      BY <1>9, <1>10 DEF Rewritten
    <2>2. S = DOMAIN patch
      BY <1>12, <1>15, <2>1
    <2>3. ASSUME NEW k \in S PROVE pushed[k] = new[k] /\ k \in DOMAIN t /\ k \in DOMAIN patch
      <3>1. k \in DOMAIN patch /\ k \in DOMAIN c /\ k \in DOMAIN t /\ c[k] = t[k]
        BY <1>8, <1>15, <1>16, <2>2
      <3> QED
        BY <1>4, <3>1 DEF Patched
    <2>4. Announces(u, new, S)
      BY <1>13, <2>3, AnnouncesElse
    <2>5. \A k \in S : k \in DOMAIN new /\ new[k].updated_at = now + 1
      BY <1>9, <2>1, <2>3 DEF Rewritten
    <2>6. ASSUME NEW k, k \notin S PROVE Same(t, new, k)
      BY <1>9, <2>2, <2>6 DEF Rewritten, Same
    <2> QED
      BY <2>4, <2>5, <2>6, AnnouncesSound
  <1>17. PICK w : Operation(d, new, u, w)
    BY <1>6
  <1> QED
    BY <1>2, <1>6, <1>7, <1>11, <1>14, <1>16, <1>17, UserOperated

\* Items of S go to the list l, which patches items that are not in S; of
\* those in S what is pushed is the copy on the screen.
LEMMA MovedAndPatched ==
    ASSUME ItemsInv, NEW d \in Devices, NEW l \in Lists, NEW S, S \subseteq DOMAIN seen[d],
           NEW links, NEW patch, S \intersect DOMAIN patch = {}, NEW s,
           Announces(s, Moved(seen[d], S, l, links), S),
           NEW new, new = Patched(Moved(rows[d], S, l, links), patch, now + 1),
           NEW m, m = s \o RowMsgs(new, DOMAIN patch), NEW wanted,
           Operation(d, new, m, wanted), born' = born
    PROVE  ItemsInv'
  <1>1. PICK t, o, u : t = rows[d] /\ o = seen[d] /\ u = RowMsgs(new, DOMAIN patch)
    OBVIOUS
  <1>2. PICK v, c : v = Moved(t, S, l, links) /\ c = Moved(o, S, l, links)
    OBVIOUS
  <1>3. /\ now \in Nat /\ TableOK(t, now, born) /\ TableOK(o, now, born) /\ born \subseteq Ids
    BY <1>1 DEF ItemsInv, ItemsTyped
  <1>4. Rewritten(t, v, S, now, born)
    <2>1. Rewritten(t, Moved(t, S, l, links), S, now, born)
      BY <1>3, MovedIs
    <2> QED
      BY <1>2, <2>1
  <1>5. Rewritten(o, c, S, now, born)
    <2>1. Rewritten(o, Moved(o, S, l, links), S, now, born)
      BY <1>3, MovedIs
    <2> QED
      BY <1>2, <2>1
  <1>6. Rewritten(v, new, DOMAIN patch, now, born)
    <2>1. TableOK(v, now + 1, born)
      BY <1>4 DEF Rewritten
    <2>2. Rewritten(v, Patched(v, patch, now + 1), DOMAIN patch, now, born)
      BY <1>3, <2>1, PatchedLate
    <2> QED
      BY <1>1, <1>2, <2>2
  <1>7. TableOK(new, now + 1, born) /\ TableOK(c, now + 1, born)
    BY <1>5, <1>6 DEF Rewritten
  <1>8. PICK R : R = DOMAIN patch \intersect DOMAIN new
    OBVIOUS
  <1>9. Announces(u, new, R)
    BY <1>1, <1>7, <1>8, AnnouncesRows DEF TableOK
  <1>10. Announces(s, c, S)
    BY <1>1, <1>2
  <1>11. MsgsOK(s, now + 1, born)
    <2>1. \A k \in S : k \in born /\ RowOK(c[k], now + 1)
      BY <1>1, <1>5, <1>7 DEF TableOK, Rewritten
    <2> QED
      BY <1>10, <2>1, AnnouncesTyped
  <1>12. MsgsOK(u, now + 1, born)
    <2>1. \A k \in R : k \in born /\ RowOK(new[k], now + 1)
      BY <1>7, <1>8 DEF TableOK
    <2> QED
      BY <1>9, <2>1, AnnouncesTyped
  <1>13. MsgsOK(m, now + 1, born)
    <2>1. MsgsOK(s \o u, now + 1, born)
      BY <1>11, <1>12, MsgsJoined
    <2> QED
      BY <1>1, <2>1
  <1>14. ASSUME o = t PROVE Sound(m, t, new, now)
    <2>1. c = v /\ DOMAIN new = DOMAIN t /\ DOMAIN v = DOMAIN t /\ S \subseteq DOMAIN t
      BY <1>1, <1>2, <1>4, <1>6, <1>14 DEF Rewritten
    <2>2. \A k \in S : new[k] = c[k]
      BY <1>6, <2>1 DEF Rewritten
    <2>3. Announces(s, new, S)
      BY <1>10, <2>2, AnnouncesElse
    <2>4. \A k \in S \union R : new[k].updated_at = now + 1
      <3>1. \A k \in S : v[k].updated_at = now + 1
        BY <1>4, <2>1 DEF Rewritten
      <3>2. \A k \in R : new[k].updated_at = now + 1
        BY <1>6, <1>8, <2>1 DEF Rewritten
      <3> QED
        BY <2>1, <2>2, <3>1, <3>2
    <2>5. ASSUME NEW k, k \notin S \union R PROVE Same(t, new, k)
      <3>1. ASSUME k \in DOMAIN t PROVE new[k] = t[k]
        <4>1. k \notin S /\ k \notin DOMAIN patch /\ k \in DOMAIN v
          BY <1>8, <2>1, <2>5, <3>1
        <4> QED
          BY <1>4, <1>6, <3>1, <4>1 DEF Rewritten
      <3> QED
        BY <2>1, <3>1 DEF Same
    <2>6. S \intersect R = {} /\ S \subseteq DOMAIN new /\ R \subseteq DOMAIN new
      BY <1>8, <2>1
    <2>7. Sound(s \o u, t, new, now)
      BY <1>3, <1>7, <1>9, <2>3, <2>4, <2>5, <2>6, TwoParts
    <2> QED
      BY <1>1, <2>7
  <1> QED
    BY <1>1, <1>3, <1>7, <1>13, <1>14, UserOperated

LEMMA CrossMoveTyped ==
    ASSUME ItemsInv, NEW d \in Devices, NEW x \in DOMAIN seen[d], NEW l \in Lists, NEW n,
           CrossMove(d, x, l, n)
    PROVE  ItemsInv'
  <1>1. PICK item, after : /\ item = seen[d][x]
                           /\ after = DropAfter(d, l, InsertAt(DisplayItems(d, l), n, x), n)
    OBVIOUS
  <1>2. PICK link : link = PatchOne({x}, after)
    OBVIOUS
  <1>3. PICK c, e : c = ListOf(seen[d], l) /\ e = ListOf(rows[d], item.list)
    OBVIOUS
  <1>4. PICK patch : patch = CrossListMove(e, c, Shown(d, l), x, Follows(item), after)
    OBVIOUS
  <1>5. PICK new : new = Patched(Moved(rows[d], {x}, l, link), patch, now + 1)
    OBVIOUS
  <1>6. PICK s : s = <<RowMsg(x, Moved(seen[d], {x}, l, link)[x])>>
    OBVIOUS
  <1>7. PICK m : m = s \o RowMsgs(new, DOMAIN patch)
    OBVIOUS
  <1>8. item.list # l /\ born' = born /\ \E w : Operation(d, new, m, w)
    BY <1>1, <1>2, <1>3, <1>4, <1>5, <1>6, <1>7 DEF CrossMove
  <1>9. /\ now \in Nat /\ TableOK(rows[d], now, born) /\ TableOK(seen[d], now, born)
        /\ born \subseteq Ids
    BY DEF ItemsInv, ItemsTyped
  <1>10. Sortable(c) /\ Sortable(e)
    BY <1>3, <1>9, ListOfSorts
  <1>11. x \notin DOMAIN c
    BY <1>1, <1>3, <1>8, ListOfIs
  <1>12. x \notin DOMAIN patch
    <2>1. PICK A : A = {i \in DOMAIN c : Follows(c[i]) = after}
      OBVIOUS
    <2>2. PICK B : B = {i \in DOMAIN e : Follows(e[i]) = x} \ {x}
      OBVIOUS
    <2>3. patch = Over(PatchOne(First(Shown(d, l), A), x), PatchOne(Least(B), Follows(item)))
      BY <1>4, <2>1, <2>2 DEF CrossListMove
    <2>4. DOMAIN patch = First(Shown(d, l), A) \union Least(B)
      BY <2>3 DEF Over, PatchOne
    <2>5. Shown(d, l) \in Seq(DOMAIN c)
      BY <1>3, <1>10, Resolved DEF Shown
    <2>6. First(Shown(d, l), A) \subseteq DOMAIN c
      BY <2>1, <2>5, FirstIs
    <2>7. Least(B) \subseteq B
      <3>1. IsFiniteSet(B) /\ B \subseteq Int
        BY <1>10, <2>2, FS_Subset DEF Sortable
      <3> QED
        BY <3>1, LeastIs
    <2> QED
      BY <1>11, <2>2, <2>4, <2>6, <2>7
  <1>13. Announces(s, Moved(seen[d], {x}, l, link), {x})
    BY <1>6, AnnouncesOne
  <1>14. PICK w : Operation(d, new, m, w)
    BY <1>8
  <1>15. {x} \subseteq DOMAIN seen[d] /\ {x} \intersect DOMAIN patch = {}
    BY <1>12
  <1> QED
    BY <1>5, <1>7, <1>8, <1>13, <1>14, <1>15, MovedAndPatched

LEMMA MoveSelectedTyped ==
    ASSUME ItemsInv, NEW d \in Devices, NEW selected \in SUBSET DOMAIN seen[d], NEW l \in Lists,
           MoveSelected(d, selected, l)
    PROVE  ItemsInv'
  <1> DEFINE S == selected \ InList(seen[d], l)
             toMove == FlattenSeq([k \in Lists |-> LeavingOut(Shown(d, k), DOMAIN seen[d] \ S)])
             links == Linked(toMove, Tail_(ResolveChain(ListOf(rows[d], l))))
             sources == {seen[d][x].list : x \in S}
             repairs == UNION {LET t == ListOf(rows[d], k)
                                   fix == Changes(t, Linked(LeavingOut(ResolveChain(t), S), Top))
                               IN {<<i, fix[i]>> : i \in DOMAIN fix} : k \in sources}
             patch == [i \in {r[1] : r \in repairs} |-> (CHOOSE r \in repairs : r[1] = i)[2]]
             new == Patched(Moved(rows[d], S, l, links), patch, now + 1)
             s == RowMsgs(Moved(seen[d], S, l, links), S)
             m == s \o RowMsgs(new, DOMAIN patch)
             wanted == [k \in sources \union {l} |->
                          IF k = l THEN Shown(d, l) \o toMove ELSE LeavingOut(Shown(d, k), S)]
  <1>1. Operation(d, new, m, wanted) /\ born' = born
    BY Zenon DEF MoveSelected
  <1>2. S \subseteq DOMAIN seen[d]
    OBVIOUS
  <1>3. \A r \in repairs : \E k \in sources :
           r[1] \in DOMAIN Changes(ListOf(rows[d], k),
                                   Linked(LeavingOut(ResolveChain(ListOf(rows[d], k)), S), Top))
    OBVIOUS
  <1>4. DOMAIN patch = {r[1] : r \in repairs}
    OBVIOUS
  <1>5. new = Patched(Moved(rows[d], S, l, links), patch, now + 1)
    OBVIOUS
  <1>6. s = RowMsgs(Moved(seen[d], S, l, links), S)
    OBVIOUS
  <1>7. m = s \o RowMsgs(new, DOMAIN patch)
    OBVIOUS
  <1> HIDE DEF wanted, m, s, new, patch, repairs, sources, links, toMove, S
  <1>8. /\ now \in Nat /\ TableOK(rows[d], now, born) /\ TableOK(seen[d], now, born)
        /\ born \subseteq Ids
    BY DEF ItemsInv, ItemsTyped
  <1>9. S \intersect DOMAIN patch = {}
    <2>1. ASSUME NEW k PROVE S \intersect ToSet(LeavingOut(ResolveChain(ListOf(rows[d], k)), S)) = {}
      <3>1. Sortable(ListOf(rows[d], k))
        BY <1>8, ListOfSorts
      <3>2. PICK q : q = ResolveChain(ListOf(rows[d], k))
        OBVIOUS
      <3>3. q \in Seq(DOMAIN ListOf(rows[d], k))
        BY <3>1, <3>2, Resolved
      <3>4. ToSet(LeavingOut(q, S)) = ToSet(q) \ S
        BY <3>3, LeftOut
      <3> QED
        BY <3>2, <3>4
    <2>2. ASSUME NEW r \in repairs PROVE r[1] \notin S
      <3>1. PICK k \in sources :
               r[1] \in DOMAIN Changes(ListOf(rows[d], k),
                                       Linked(LeavingOut(ResolveChain(ListOf(rows[d], k)), S), Top))
        BY <1>3, <2>2
      <3>2. PICK q : q = LeavingOut(ResolveChain(ListOf(rows[d], k)), S)
        OBVIOUS
      <3>3. r[1] \in DOMAIN Changes(ListOf(rows[d], k), Linked(q, Top))
        BY <3>1, <3>2
      <3>4. DOMAIN Changes(ListOf(rows[d], k), Linked(q, Top)) \subseteq DOMAIN Linked(q, Top)
        BY DEF Changes, Restrict
      <3>5. DOMAIN Linked(q, Top) = ToSet(q)
        BY DEF Linked
      <3> QED
        BY <2>1, <3>2, <3>3, <3>4, <3>5
    <2> QED
      BY <1>4, <2>2
  <1>10. Announces(s, Moved(seen[d], S, l, links), S)
    <2>1. Rewritten(seen[d], Moved(seen[d], S, l, links), S, now, born)
      BY <1>8, MovedIs
    <2>2. PICK c : c = Moved(seen[d], S, l, links)
      OBVIOUS
    <2>3. IsFiniteSet(DOMAIN c) /\ S \intersect DOMAIN c = S
      BY <1>8, <1>2, <2>1, <2>2 DEF Rewritten, TableOK
    <2>4. Announces(RowMsgs(c, S), c, S)
      BY <2>3, AnnouncesRows
    <2> QED
      BY <1>6, <2>2, <2>4
  <1> QED
    BY <1>1, <1>2, <1>5, <1>7, <1>9, <1>10, MovedAndPatched

LEMMA HealedIs ==
    ASSUME NEW at \in Nat, NEW B, NEW c, TableOK(c, at, B), NEW i \in DOMAIN c
    PROVE  /\ RowOK(ChainHeal(c, at + 1)[i], at + 1)
           /\ ChainHeal(c, at + 1)[i] = c[i] \/ ChainHeal(c, at + 1)[i].updated_at = at + 1
  <1>1. PICK v, links : v = ChainHeal(c, at + 1) /\ links = Linked(ResolveChain(c), Top)
    OBVIOUS
  <1>2. at + 1 \in Nat /\ at <= at + 1 /\ RowOK(c[i], at)
    BY DEF TableOK
  <1>3. RowOK(c[i], at + 1)
    BY <1>2, RowLater
  <1>4. \/ v[i] = c[i]
        \/ v[i] = [c[i] EXCEPT !.after = links[i], !.current = TRUE,
                               !.position = NoPosition, !.updated_at = at + 1]
    BY <1>1 DEF ChainHeal
  <1>5. CASE v[i] = c[i]
    BY <1>1, <1>3, <1>5
  <1>6. CASE v[i] = [c[i] EXCEPT !.after = links[i], !.current = TRUE,
                                 !.position = NoPosition, !.updated_at = at + 1]
    <2>1. /\ DOMAIN v[i] = RowFields /\ v[i].list = c[i].list /\ v[i].created = c[i].created
          /\ v[i].position = NoPosition /\ v[i].updated_at = at + 1
      BY <1>2, <1>6 DEF RowOK, RowFields
    <2> QED
      BY <1>1, <1>2, <2>1 DEF RowOK
  <1> QED
    BY <1>4, <1>5, <1>6

LEMMA HealTyped ==
    ASSUME ItemsInv, NEW d \in Devices, Heal(d) PROVE ItemsInv'
  <1> DEFINE t == rows[d]
             healed == [l \in Lists |-> ChainHeal(ListOf(rows[d], l), now + 1)]
             new == [i \in DOMAIN rows[d] |-> healed[rows[d][i].list][i]]
             C == {i \in DOMAIN new : new[i] # rows[d][i]}
             u == RowMsgs(new, C)
  <1>1. healed = [l \in Lists |-> ChainHeal(ListOf(t, l), now + 1)]
    OBVIOUS
  <1>2. new = [i \in DOMAIN t |-> healed[t[i].list][i]]
    OBVIOUS
  <1>3. C = {i \in DOMAIN new : new[i] # t[i]} /\ u = RowMsgs(new, C)
    OBVIOUS
  <1>4. PICK quiet \in BOOLEAN : quiet = (inbox[d] = <<>>)
    OBVIOUS
  <1>5. /\ regular /\ now' = now + 1 /\ born' = born
        /\ rows' = [rows EXCEPT ![d] = new] /\ seen' = [seen EXCEPT ![d] = new]
        /\ inbox' = [e \in Devices |-> IF e = d THEN inbox[e] ELSE inbox[e] \o u]
        /\ regular' = (regular /\ inbox[d] = <<>>)
    BY Zenon DEF Heal
  <1> HIDE DEF u, C, new, healed
  <1>6. now \in Nat /\ TableOK(t, now, born) /\ born \subseteq Ids
    BY DEF ItemsInv, ItemsTyped
  <1> HIDE DEF t
  <1>7. DOMAIN new = DOMAIN t /\ new = [i \in DOMAIN new |-> new[i]]
    BY <1>2
  <1>8. ASSUME NEW i \in DOMAIN t
        PROVE  RowOK(new[i], now + 1) /\ (new[i] = t[i] \/ new[i].updated_at = now + 1)
    <2>1. PICK l, c : l = t[i].list /\ c = ListOf(t, l)
      OBVIOUS
    <2>2. l \in Lists /\ i \in DOMAIN c /\ c[i] = t[i] /\ TableOK(c, now, born)
      <3>1. l \in Lists
        BY <1>6, <2>1 DEF TableOK, RowOK
      <3>2. i \in InList(t, l)
        BY <2>1 DEF InList
      <3>3. DOMAIN c = InList(t, l) /\ c[i] = t[i]
        BY <2>1, <3>2, ListOfIs
      <3> QED
        BY <1>6, <2>1, <3>1, <3>2, <3>3, ListOfTyped
    <2>3. new[i] = ChainHeal(c, now + 1)[i]
      BY <1>1, <1>2, <2>1, <2>2
    <2>4. /\ RowOK(ChainHeal(c, now + 1)[i], now + 1)
          /\ ChainHeal(c, now + 1)[i] = c[i] \/ ChainHeal(c, now + 1)[i].updated_at = now + 1
      BY <1>6, <2>2, HealedIs
    <2> QED
      BY <2>2, <2>3, <2>4
  <1>9. TableOK(new, now + 1, born)
    BY <1>6, <1>7, <1>8 DEF TableOK
  <1>10. C \subseteq DOMAIN new /\ C \intersect DOMAIN new = C
    BY <1>3
  <1>11. Announces(u, new, C)
    <2>1. Announces(u, new, C \intersect DOMAIN new)
      BY <1>3, <1>9, AnnouncesRows DEF TableOK
    <2> QED
      BY <1>10, <2>1
  <1>12. MsgsOK(u, now + 1, born)
    <2>1. \A k \in C : k \in born /\ RowOK(new[k], now + 1)
      BY <1>9, <1>10 DEF TableOK
    <2> QED
      BY <1>11, <2>1, AnnouncesTyped
  <1>13. Sound(u, t, new, now)
    <2>1. \A k \in C : k \in DOMAIN new /\ new[k].updated_at = now + 1
      BY <1>3, <1>7, <1>8
    <2>2. ASSUME NEW k, k \notin C PROVE Same(t, new, k)
      BY <1>3, <1>7, <2>2 DEF Same
    <2> QED
      BY <1>11, <2>1, <2>2, AnnouncesSound
  <1> QED
    BY <1>4, <1>5, <1>6, <1>9, <1>12, <1>13, Operated DEF t

LEMMA ItemsStep == ItemsInv /\ [Next]_vars => ItemsInv'
  <1> SUFFICES ASSUME ItemsInv, [Next]_vars PROVE ItemsInv'
    OBVIOUS
  <1>1. CASE UNCHANGED vars
    BY <1>1, ItemsSame DEF vars
  <1>2. ASSUME NEW d \in Devices, UserNext(d) PROVE ItemsInv'
    <2>1. ASSUME NEW l \in Lists, NEW i \in Ids \ born, AddItem(d, l, i) PROVE ItemsInv'
      BY <2>1, AddTyped
    <2>2. ASSUME NEW l \in Lists, NEW i \in Ids \ born, NEW j \in Ids \ born, i # j,
                 BulkCreateItems(d, l, <<i, j>>)
          PROVE  ItemsInv'
      BY <2>2, BulkTyped
    <2>3. ASSUME NEW i \in DOMAIN seen[d] \intersect DOMAIN rows[d], DeleteItem(d, i) PROVE ItemsInv'
      BY <2>3, DeleteTyped
    <2>4. ASSUME NEW l \in Lists, NEW after, DragInline(d, l, after) PROVE ItemsInv'
      BY <2>4, ItemsSame DEF DragInline
    <2>5. ASSUME NEW l \in Lists, NEW x \in InList(seen[d], l), NEW n, Reorder(d, l, x, n)
          PROVE  ItemsInv'
      BY <2>5, ReorderTyped
    <2>6. ASSUME NEW x \in DOMAIN seen[d], NEW l \in Lists, NEW n, CrossMove(d, x, l, n)
          PROVE  ItemsInv'
      BY <2>6, CrossMoveTyped
    <2>7. ASSUME NEW S \in SUBSET DOMAIN seen[d], NEW l \in Lists, MoveSelected(d, S, l)
          PROVE  ItemsInv'
      BY <2>7, MoveSelectedTyped
    <2> QED
      BY <1>2, <2>1, <2>2, <2>3, <2>4, <2>5, <2>6, <2>7, Zenon DEF UserNext
  <1>3. ASSUME NEW d \in Devices, Heal(d) PROVE ItemsInv'
    BY <1>3, HealTyped
  <1>4. ASSUME NEW d \in Devices, Receive(d) PROVE ItemsInv'
    BY <1>4, ItemsReceive
  <1>5. ASSUME NEW d \in Devices, Refresh(d) PROVE ItemsInv'
    BY <1>5, ItemsRefresh
  <1> QED
    BY <1>1, <1>2, <1>3, <1>4, <1>5 DEF Next

\* Devices that came to hold the common table hold the same rows.
LEMMA WholeAgrees == ItemsInv => PushedWhole
  <1> SUFFICES ASSUME ItemsInv, regular, \A d \in Devices : inbox[d] = <<>>,
                      NEW d \in Devices, NEW e \in Devices
               PROVE  rows[d] = rows[e]
    BY DEF PushedWhole
  <1>1. PICK T : \A k \in Devices : Pending(rows[k], inbox[k], T)
    BY DEF ItemsInv, Whole
  <1>2. Pending(rows[d], <<>>, T) /\ Pending(rows[e], <<>>, T)
    BY <1>1
  <1>3. \A i : Same(rows[d], T, i) /\ Same(rows[e], T, i)
    BY <1>2, NothingPending
  <1>4. PICK t, u : t = rows[d] /\ u = rows[e]
    OBVIOUS
  <1>5. t = [i \in DOMAIN t |-> t[i]] /\ u = [i \in DOMAIN u |-> u[i]]
    BY <1>4 DEF ItemsInv, ItemsTyped, TableOK
  <1>6. DOMAIN t = DOMAIN u /\ \A i \in DOMAIN t : t[i] = u[i]
    BY <1>3, <1>4 DEF Same
  <1> QED
    BY <1>4, <1>5, <1>6

-----------------------------------------------------------------------------
(* Theorems.                                                               *)

\* For any number of devices, lists, items and operations: as long as each
\* operation was made by a user who saw what there was, what the operations
\* pushed is all that they changed, and once it is delivered the devices hold
\* the same rows.  On the way a device differs from the others by no more than
\* the messages it has still to merge, whatever the operation rewrote: the
\* neighbours it relinked, several lists, what a deletion left behind.
THEOREM ItemsPushedWhole == Spec => []PushedWhole
  <1>1. Init => ItemsInv
    BY ItemsStart
  <1>2. ItemsInv /\ [Next]_vars => ItemsInv'
    BY ItemsStep
  <1>3. ItemsInv => PushedWhole
    BY WholeAgrees
  <1> QED
    BY <1>1, <1>2, <1>3, PTL DEF Spec

\* Each list shows each of its items once (resolveChain).
EachOnce ==
    \A d \in Devices, l \in Lists :
        /\ IsInjective(Shown(d, l))
        /\ ToSet(Shown(d, l)) = InList(seen[d], l)
        /\ Len(Shown(d, l)) = Cardinality(InList(seen[d], l))

\* Whatever operations and merges do to the links, forks, orphans and cycles
\* included, and whoever saw what: no item of a list is missing from what the
\* list shows, and none is shown twice (the first half of OneChain).
THEOREM ItemsEachOnce == Spec => []EachOnce
  <1>1. Init => ItemsInv
    BY ItemsStart
  <1>2. ItemsInv /\ [Next]_vars => ItemsInv'
    BY ItemsStep
  <1>3. ItemsInv => EachOnce
    <2> SUFFICES ASSUME ItemsInv, NEW d \in Devices, NEW l \in Lists
                 PROVE  /\ IsInjective(Shown(d, l))
                        /\ ToSet(Shown(d, l)) = InList(seen[d], l)
                        /\ Len(Shown(d, l)) = Cardinality(InList(seen[d], l))
      BY DEF EachOnce
    <2>1. PICK t : t = ListOf(seen[d], l)
      OBVIOUS
    <2>2. TableOK(seen[d], now, born) /\ born \subseteq Ids
      BY DEF ItemsInv, ItemsTyped
    <2>3. Sortable(t) /\ DOMAIN t = InList(seen[d], l)
      BY <2>1, <2>2, ListOfSorts, ListOfIs
    <2> QED
      BY <2>1, <2>3, Resolved DEF Shown
  <1> QED
    BY <1>1, <1>2, <1>3, PTL DEF Spec

-----------------------------------------------------------------------------
(* Sequences of rows, item by item.                                        *)

\* f runs through the numbers of P, upwards.
Enumerates(f, N, P) ==
    /\ DOMAIN f = 1 .. N
    /\ \A n \in 1 .. N : f[n] \in P
    /\ \A m, n \in 1 .. N : m < n => f[m] < f[n]
    /\ \A p \in P : \E n \in 1 .. N : f[n] = p

Agreeing(f, N, g, M) == N = M /\ \A n \in 1 .. N : f[n] = g[n]

\* There is one way to do so.
LEMMA EnumeratedFirst ==
    ASSUME NEW P, P \subseteq Int, NEW N \in Nat, NEW f, Enumerates(f, N, P),
           NEW M \in Nat, NEW g, Enumerates(g, M, P)
    PROVE  \A n \in 1 .. N : n \in 1 .. M /\ f[n] = g[n]
  <1> DEFINE B == {n \in 1 .. N : ~ (n \in 1 .. M /\ f[n] = g[n])}
  <1>1. SUFFICES ASSUME B # {} PROVE FALSE
    OBVIOUS
  <1>2. B \subseteq Nat
    OBVIOUS
  <1>3. PICK n \in B : \A m \in B : n <= m
    BY <1>1, <1>2, LeastNatural
  <1>4. n \in 1 .. N /\ n \in Nat /\ f[n] \in P /\ f[n] \in Int
    <2>1. n \in 1 .. N
      BY <1>3
    <2>2. f[n] \in P
      BY <2>1 DEF Enumerates
    <2>3. f[n] \in Int
      BY <2>2
    <2>4. n \in Nat
      BY <1>2, <1>3
    <2> QED
      BY <2>1, <2>2, <2>3, <2>4
  <1>5. ASSUME NEW m \in 1 .. N, m < n PROVE m \in 1 .. M /\ f[m] = g[m]
    <2>1. m \notin B
      BY <1>3, <1>4, <1>5
    <2> QED
      BY <2>1
  <1>6. PICK k \in 1 .. M : g[k] = f[n]
    BY <1>4 DEF Enumerates
  <1>7. k # n
    BY <1>3, <1>6
  <1>8. k \in Int /\ n \in Int
    BY <1>4
  <1>9. CASE k < n
    <2>1. k \in 1 .. N /\ f[k] = g[k]
      BY <1>4, <1>5, <1>9
    <2>2. f[k] < f[n]
      BY <1>4, <1>9, <2>1 DEF Enumerates
    <2> QED
      BY <1>4, <1>6, <2>1, <2>2
  <1>10. CASE n < k
    <2>1. n \in 1 .. M
      BY <1>4, <1>10
    <2>2. g[n] < g[k] /\ g[n] \in P /\ g[n] \in Int
      BY <1>10, <2>1 DEF Enumerates
    <2>3. PICK m \in 1 .. N : f[m] = g[n]
      BY <2>2 DEF Enumerates
    <2>4. m \in Int /\ m < n
      <3>1. f[m] < f[n]
        BY <1>6, <2>2, <2>3
      <3>2. ~ (n < m) /\ m # n
        BY <1>4, <2>2, <2>3, <3>1 DEF Enumerates
      <3> QED
        BY <1>4, <3>2
    <2>5. m \in 1 .. M /\ f[m] = g[m]
      BY <1>5, <2>4
    <2>6. g[m] < g[n]
      BY <2>1, <2>4, <2>5 DEF Enumerates
    <2> QED
      BY <2>2, <2>3, <2>5, <2>6
  <1> QED
    BY <1>7, <1>8, <1>9, <1>10

LEMMA EnumeratedOnce ==
    ASSUME NEW P, P \subseteq Int, NEW N \in Nat, NEW f, Enumerates(f, N, P),
           NEW M \in Nat, NEW g, Enumerates(g, M, P)
    PROVE  Agreeing(f, N, g, M)
  <1>1. \A n \in 1 .. N : n \in 1 .. M /\ f[n] = g[n]
    BY EnumeratedFirst
  <1>2. \A n \in 1 .. M : n \in 1 .. N
    BY EnumeratedFirst
  <1>3. N <= M
    <2>1. CASE N = 0
      BY <2>1
    <2>2. CASE N # 0
      <3>1. N \in 1 .. N
        BY <2>2
      <3> QED
        BY <1>1, <3>1
    <2> QED
      BY <2>1, <2>2
  <1>4. M <= N
    <2>1. CASE M = 0
      BY <2>1
    <2>2. CASE M # 0
      <3>1. M \in 1 .. M
        BY <2>2
      <3> QED
        BY <1>2, <3>1
    <2> QED
      BY <2>1, <2>2
  <1> QED
    BY <1>1, <1>3, <1>4 DEF Agreeing

\* What is left of a sequence, if f runs through the places that stay.
LEMMA LeavesThese ==
    ASSUME NEW X, NEW s \in Seq(X), NEW S, NEW N \in Nat, NEW f,
           Enumerates(f, N, {n \in DOMAIN s : s[n] \notin S})
    PROVE  LeavingOut(s, S) = [n \in 1 .. N |-> s[f[n]]]
  <1> DEFINE P == {n \in DOMAIN s : s[n] \notin S}
             R == Ranked(P, Ascending)
             C == Cardinality(P)
  <1>1. IsFiniteSet(P) /\ P \subseteq Int
    <2>1. DOMAIN s = 1 .. Len(s) /\ Len(s) \in Nat
      OBVIOUS
    <2>2. IsFiniteSet(DOMAIN s)
      BY <2>1, FS_Interval
    <2>3. P \subseteq DOMAIN s /\ DOMAIN s \subseteq Int
      BY <2>1
    <2> QED
      BY <2>2, <2>3, FS_Subset
  <1>2. C \in Nat
    BY <1>1, FS_CardinalityType
  <1>3. LeavingOut(s, S) = [n \in DOMAIN R |-> s[R[n]]]
    BY DEF LeavingOut
  <1> HIDE DEF C, R, P
  <1>4. /\ R \in Seq(P) /\ Len(R) = C /\ ToSet(R) = P
        /\ \A m, n \in 1 .. C : m < n => <<R[m], R[n]>> \in Ascending
    BY <1>1, AscendingOrders, RankedListed DEF R, C
  <1>5. DOMAIN R = 1 .. C /\ \A n \in 1 .. C : R[n] \in P
    BY <1>2, <1>4
  <1>6. Enumerates(R, C, P)
    <2>1. \A m, n \in 1 .. C : m < n => R[m] < R[n]
      BY <1>4 DEF Ascending
    <2>2. \A p \in P : \E n \in 1 .. C : R[n] = p
      BY <1>4, <1>5 DEF ToSet
    <2> QED
      BY <1>5, <2>1, <2>2 DEF Enumerates
  <1>7. Enumerates(f, N, P)
    BY DEF P
  <1>8. N = C /\ \A n \in 1 .. N : f[n] = R[n]
    <2>1. PICK c, r, q : c = C /\ r = R /\ q = P
      OBVIOUS
    <2>2. q \subseteq Int /\ c \in Nat /\ Enumerates(r, c, q) /\ Enumerates(f, N, q)
      BY <1>1, <1>2, <1>6, <1>7, <2>1
    <2>3. Agreeing(f, N, r, c)
      BY <2>2, EnumeratedOnce
    <2> QED
      BY <2>1, <2>3 DEF Agreeing
  <1> QED
    BY <1>3, <1>5, <1>8

\* Nothing is left out.
LEMMA NoneLeftOut ==
    ASSUME NEW X, NEW s \in Seq(X), NEW S, \A n \in DOMAIN s : s[n] \notin S
    PROVE  LeavingOut(s, S) = s
  <1> DEFINE f == [n \in 1 .. Len(s) |-> n]
             P == {n \in DOMAIN s : s[n] \notin S}
  <1>1. Len(s) \in Nat /\ DOMAIN s = 1 .. Len(s) /\ s = [n \in 1 .. Len(s) |-> s[n]]
    OBVIOUS
  <1>2. P = 1 .. Len(s)
    BY <1>1
  <1>3. Enumerates(f, Len(s), P)
    <2>1. DOMAIN f = 1 .. Len(s) /\ \A n \in 1 .. Len(s) : f[n] = n
      OBVIOUS
    <2> HIDE DEF f, P
    <2> QED
      BY <1>2, <2>1 DEF Enumerates
  <1>4. \A n \in 1 .. Len(s) : f[n] = n
    OBVIOUS
  <1> HIDE DEF f
  <1>5. LeavingOut(s, S) = [n \in 1 .. Len(s) |-> s[f[n]]]
    <2>1. PICK N : N = Len(s) /\ N \in Nat
      BY <1>1
    <2>2. Enumerates(f, N, {n \in DOMAIN s : s[n] \notin S})
      BY <1>3, <2>1
    <2>3. LeavingOut(s, S) = [n \in 1 .. N |-> s[f[n]]]
      BY <2>1, <2>2, LeavesThese
    <2> QED
      BY <2>1, <2>3
  <1> QED
    BY <1>1, <1>4, <1>5

\* q is a, then b.
Then(q, a, b, S) ==
    /\ q \in Seq(S) /\ Len(q) = Len(a) + Len(b)
    /\ \A n \in 1 .. Len(a) : q[n] = a[n]
    /\ \A n \in 1 .. Len(b) : q[Len(a) + n] = b[n]

LEMMA SeqsConcat ==
    ASSUME NEW S, NEW a \in Seq(S), NEW b \in Seq(S)
    PROVE  Then(a \o b, a, b, S)
  BY DEF Then

\* One more, behind the kth, keeps the others apart.
Apart(s, N) == \A m, n \in 1 .. N : s[m] = s[n] => m = n

LEMMA ApartWithOneMore ==
    ASSUME NEW N \in Nat, NEW k \in Nat, k <= N, NEW s, NEW p, NEW x,
           Apart(s, N), \A n \in 1 .. N : s[n] # x,
           \A n \in 1 .. N + 1 : p[n] = IF n <= k THEN s[n] ELSE IF n = k + 1 THEN x ELSE s[n - 1]
    PROVE  Apart(p, N + 1)
  <1> DEFINE at(n) == IF n <= k THEN n ELSE n - 1
  <1>1. \A n \in 1 .. N + 1 : n # k + 1 => at(n) \in 1 .. N /\ p[n] = s[at(n)]
    OBVIOUS
  <1>2. k + 1 \in 1 .. N + 1 /\ p[k + 1] = x
    OBVIOUS
  <1>3. \A m, n \in 1 .. N + 1 : m # k + 1 /\ n # k + 1 /\ at(m) = at(n) => m = n
    OBVIOUS
  <1> HIDE DEF at
  <1>4. ASSUME NEW m \in 1 .. N + 1, NEW n \in 1 .. N + 1, p[m] = p[n] PROVE m = n
    <2>1. CASE m # k + 1 /\ n # k + 1
      <3>1. at(m) \in 1 .. N /\ at(n) \in 1 .. N /\ s[at(m)] = s[at(n)]
        BY <1>1, <1>4, <2>1
      <3>2. at(m) = at(n)
        BY <3>1 DEF Apart
      <3> QED
        BY <1>3, <2>1, <3>2
    <2>2. CASE m = k + 1 \/ n = k + 1
      BY <1>1, <1>2, <1>4, <2>2
    <2> QED
      BY <2>1, <2>2
  <1> QED
    BY <1>4 DEF Apart

\* s with x as the one behind the kth, and s without the kth.
Put(s, k, x) ==
    [n \in 1 .. Len(s) + 1 |-> IF n <= k THEN s[n] ELSE IF n = k + 1 THEN x ELSE s[n - 1]]
Cut(s, k) == [n \in 1 .. Len(s) - 1 |-> IF n < k THEN s[n] ELSE s[n + 1]]

LEMMA CutIs ==
    ASSUME NEW X, NEW s \in Seq(X), IsInjective(s), NEW k \in 1 .. Len(s)
    PROVE  LeavingOut(s, {s[k]}) = Cut(s, k)
  <1> DEFINE N == Len(s) - 1
             f == [n \in 1 .. N |-> IF n < k THEN n ELSE n + 1]
             P == {n \in DOMAIN s : s[n] \notin {s[k]}}
  <1>1. Len(s) \in Nat /\ DOMAIN s = 1 .. Len(s) /\ N \in Nat /\ k \in Int
    OBVIOUS
  <1>2. P = (1 .. Len(s)) \ {k}
    BY <1>1 DEF IsInjective
  <1>3. \A n \in 1 .. N : f[n] = (IF n < k THEN n ELSE n + 1)
    OBVIOUS
  <1>4. DOMAIN f = 1 .. N
    OBVIOUS
  <1>5. N = Len(s) - 1
    OBVIOUS
  <1> HIDE DEF f, P, N
  <1>6. Enumerates(f, N, P)
    <2>1. \A n \in 1 .. N : f[n] \in P
      BY <1>1, <1>2, <1>3, <1>5
    <2>2. \A m, n \in 1 .. N : m < n => f[m] < f[n]
      BY <1>1, <1>3
    <2>3. ASSUME NEW p \in P PROVE \E n \in 1 .. N : f[n] = p
      <3>1. p \in 1 .. Len(s) /\ p # k /\ p \in Int
        BY <1>2, <2>3
      <3>2. CASE p < k
        <4>1. p \in 1 .. N /\ f[p] = p
          BY <1>1, <1>3, <1>5, <3>1, <3>2
        <4> QED
          BY <4>1
      <3>3. CASE k < p
        <4>1. p - 1 \in 1 .. N /\ ~ (p - 1 < k)
          BY <1>1, <1>5, <3>1, <3>3
        <4>2. f[p - 1] = (p - 1) + 1
          BY <1>3, <4>1
        <4> QED
          BY <3>1, <4>1, <4>2
      <3> QED
        BY <1>1, <3>1, <3>2, <3>3
    <2> QED
      BY <1>4, <2>1, <2>2, <2>3 DEF Enumerates
  <1>7. LeavingOut(s, {s[k]}) = [n \in 1 .. N |-> s[f[n]]]
    BY <1>1, <1>6, LeavesThese DEF P
  <1>8. \A n \in 1 .. N : s[f[n]] = (IF n < k THEN s[n] ELSE s[n + 1])
    BY <1>3
  <1> QED
    BY <1>5, <1>7, <1>8 DEF Cut

Grown(p, s, k, x, X) ==
    /\ p \in Seq(X \union {x}) /\ Len(p) = Len(s) + 1
    /\ p[k + 1] = x
    /\ \A n \in 1 .. k : p[n] = s[n]
    /\ \A n \in k + 1 .. Len(s) : p[n + 1] = s[n]
    /\ ToSet(p) = ToSet(s) \union {x}
    /\ IsInjective(s) /\ x \notin ToSet(s) => IsInjective(p)

LEMMA PutIs ==
    ASSUME NEW X, NEW s \in Seq(X), NEW k \in 0 .. Len(s), NEW x
    PROVE  InsertAt(s, k + 1, x) = Put(s, k, x) /\ Grown(Put(s, k, x), s, k, x, X)
  <1> DEFINE N == Len(s)
             Y == X \union {x}
             p == Put(s, k, x)
  <1>1. N \in Nat /\ k \in Nat /\ k <= N /\ DOMAIN s = 1 .. N /\ \A n \in 1 .. N : s[n] \in Y
    OBVIOUS
  <1>2. DOMAIN p = 1 .. N + 1 /\ p = [n \in 1 .. N + 1 |-> p[n]]
    BY DEF Put
  <1>3. \A n \in 1 .. N + 1 : p[n] = IF n <= k THEN s[n] ELSE IF n = k + 1 THEN x ELSE s[n - 1]
    BY DEF Put
  <1>4. InsertAt(s, k + 1, x) = p
    <2>1. (k + 1) - 1 = k
      BY <1>1
    <2>2. InsertAt(s, k + 1, x) = SubSeq(s, 1, k) \o <<x>> \o SubSeq(s, k + 1, N)
      BY <2>1 DEF InsertAt
    <2>3. s \in Seq(Y) /\ x \in Y
      OBVIOUS
    <2> HIDE DEF Y
    <2>4. PICK a, b, c : a = SubSeq(s, 1, k) /\ b = <<x>> /\ c = SubSeq(s, k + 1, N)
      OBVIOUS
    <2>5. /\ a \in Seq(Y) /\ Len(a) = k /\ \A n \in 1 .. k : a[n] = s[n]
      <3>1. a = [n \in 1 .. k |-> s[n]]
        BY <1>1, <2>4
      <3>2. \A n \in 1 .. k : s[n] \in Y
        BY <1>1
      <3> QED
        BY <1>1, <3>1, <3>2
    <2>6. b \in Seq(Y) /\ Len(b) = 1 /\ b[1] = x
      BY <2>3, <2>4
    <2>7. /\ c \in Seq(Y) /\ Len(c) = N - k /\ \A n \in 1 .. N - k : c[n] = s[k + n]
      <3>1. c = [n \in 1 .. N - k |-> s[k + n]]
        <4>1. (N - (k + 1)) + 1 = N - k /\ \A n \in 1 .. N - k : ((k + 1) + n) - 1 = k + n
          BY <1>1
        <4>2. c = [n \in 1 .. (N - (k + 1)) + 1 |-> s[((k + 1) + n) - 1]]
          BY <1>1, <2>3, <2>4
        <4> QED
          BY <4>1, <4>2
      <3>2. \A n \in 1 .. N - k : s[k + n] \in Y
        BY <1>1
      <3> QED
        BY <1>1, <3>1, <3>2
    <2>8. PICK q : q = a \o b
      OBVIOUS
    <2>9. q \in Seq(Y) /\ Len(q) = k + 1 /\ (\A n \in 1 .. k : q[n] = s[n]) /\ q[k + 1] = x
      <3>1. a \in Seq(Y) /\ b \in Seq(Y)
        BY <2>5, <2>6
      <3>2. /\ q \in Seq(Y) /\ Len(q) = Len(a) + Len(b)
            /\ \A n \in 1 .. Len(a) : q[n] = a[n]
            /\ \A n \in 1 .. Len(b) : q[Len(a) + n] = b[n]
        <4>1. Then(a \o b, a, b, Y)
          BY <3>1, SeqsConcat
        <4> QED
          BY <2>8, <4>1 DEF Then
      <3> QED
        BY <1>1, <2>5, <2>6, <3>2
    <2>10. PICK w : w = q \o c
      OBVIOUS
    <2>11. /\ w \in Seq(Y) /\ Len(w) = N + 1
           /\ \A n \in 1 .. k + 1 : w[n] = q[n]
           /\ \A n \in 1 .. N - k : w[(k + 1) + n] = c[n]
      <3>1. /\ w \in Seq(Y) /\ Len(w) = Len(q) + Len(c)
            /\ \A n \in 1 .. Len(q) : w[n] = q[n]
            /\ \A n \in 1 .. Len(c) : w[Len(q) + n] = c[n]
        <4>1. Then(q \o c, q, c, Y)
          BY <2>7, <2>9, SeqsConcat
        <4> QED
          BY <2>10, <4>1 DEF Then
      <3> QED
        BY <1>1, <2>7, <2>9, <3>1
    <2>12. DOMAIN w = 1 .. N + 1 /\ w = [n \in 1 .. N + 1 |-> w[n]]
      BY <1>1, <2>11
    <2> HIDE DEF p
    <2>13. ASSUME NEW n \in 1 .. N + 1 PROVE w[n] = p[n]
      <3>1. CASE n <= k
        BY <1>1, <1>3, <2>9, <2>11, <3>1
      <3>2. CASE n = k + 1
        BY <1>1, <1>3, <2>9, <2>11, <3>2
      <3>3. CASE n > k + 1
        <4>1. n - (k + 1) \in 1 .. N - k /\ (k + 1) + (n - (k + 1)) = n /\ k + (n - (k + 1)) = n - 1
          BY <1>1, <3>3
        <4>2. w[n] = s[n - 1]
          <5>1. PICK m : m = n - (k + 1)
            OBVIOUS
          <5>2. m \in 1 .. N - k /\ (k + 1) + m = n /\ k + m = n - 1
            BY <4>1, <5>1
          <5>3. \A i \in 1 .. N - k : w[(k + 1) + i] = c[i] /\ c[i] = s[k + i]
            BY <2>7, <2>11
          <5>4. w[(k + 1) + m] = c[m] /\ c[m] = s[k + m]
            BY <5>2, <5>3
          <5> QED
            BY <5>2, <5>4
        <4>3. ~ (n <= k) /\ n # k + 1
          BY <1>1, <3>3
        <4> QED
          BY <1>3, <4>2, <4>3
      <3> QED
        BY <1>1, <3>1, <3>2, <3>3
    <2>14. w = p
      BY <1>2, <2>12, <2>13
    <2> QED
      BY <2>2, <2>4, <2>8, <2>10, <2>14
  <1> HIDE DEF p, N
  <1>5. p[k + 1] = x /\ k + 1 \in 1 .. N + 1
    BY <1>1, <1>3
  <1>6. \A n \in 1 .. k : p[n] = s[n] /\ n \in 1 .. N /\ n \in 1 .. N + 1
    BY <1>1, <1>3
  <1>7. \A n \in k + 1 .. N : p[n + 1] = s[n] /\ n \in 1 .. N /\ n + 1 \in 1 .. N + 1
    BY <1>1, <1>3
  <1>8. \A n \in 1 .. N + 1 : \/ n \in 1 .. k /\ p[n] = s[n]
                              \/ n = k + 1 /\ p[n] = x
                              \/ n - 1 \in k + 1 .. N /\ p[n] = s[n - 1]
    BY <1>1, <1>3
  <1>9. \A n \in 1 .. N + 1 : p[n] \in Y
    BY <1>1, <1>6, <1>7, <1>8
  <1>10. p \in Seq(Y) /\ Len(p) = N + 1
    BY <1>1, <1>2, <1>9
  <1>11. ToSet(p) = ToSet(s) \union {x}
    <2>1. ASSUME NEW n \in DOMAIN s PROVE \E m \in DOMAIN p : p[m] = s[n]
      <3>1. n \in 1 .. k \/ n \in k + 1 .. N
        BY <1>1
      <3> QED
        BY <1>2, <1>6, <1>7, <3>1
    <2>2. \A n \in DOMAIN p : p[n] = x \/ \E m \in DOMAIN s : s[m] = p[n]
      BY <1>1, <1>2, <1>6, <1>7, <1>8
    <2> QED
      BY <1>2, <1>5, <2>1, <2>2 DEF ToSet
  <1>12. ASSUME IsInjective(s), x \notin ToSet(s) PROVE IsInjective(p)
    <2>1. \A m, n \in 1 .. N : s[m] = s[n] => m = n
      BY <1>1, <1>12 DEF IsInjective
    <2>2. \A n \in 1 .. N : s[n] # x
      BY <1>1, <1>12 DEF ToSet
    <2>3. Apart(p, N + 1)
      <3>1. PICK M, q : M = N /\ q = p
        OBVIOUS
      <3>2. \A n \in 1 .. M + 1 : q[n] = IF n <= k THEN s[n] ELSE IF n = k + 1 THEN x ELSE s[n - 1]
        BY <1>3, <3>1
      <3>3. M \in Nat /\ k \in Nat /\ k <= M /\ Apart(s, M) /\ \A n \in 1 .. M : s[n] # x
        BY <1>1, <2>1, <2>2, <3>1 DEF Apart
      <3>4. Apart(q, M + 1)
        BY <3>2, <3>3, ApartWithOneMore
      <3> QED
        BY <3>1, <3>4
    <2> QED
      BY <1>2, <2>3 DEF IsInjective, Apart
  <1> QED
    <2>1. Grown(p, s, k, x, X)
      BY <1>5, <1>6, <1>7, <1>10, <1>11, <1>12 DEF Grown, N, Y
    <2> QED
      BY <1>4, <2>1 DEF p

Shrunk(c, s, k, X) ==
    /\ c \in Seq(X) /\ Len(c) = Len(s) - 1
    /\ \A n \in 1 .. k - 1 : c[n] = s[n]
    /\ \A n \in k .. Len(s) - 1 : c[n] = s[n + 1]
    /\ ToSet(c) = ToSet(s) \ {s[k]}
    /\ IsInjective(c)

LEMMA CutHas ==
    ASSUME NEW X, NEW s \in Seq(X), IsInjective(s), NEW k \in 1 .. Len(s)
    PROVE  Shrunk(Cut(s, k), s, k, X)
  <1>1. /\ LeavingOut(s, {s[k]}) \in Seq(X)
        /\ ToSet(LeavingOut(s, {s[k]})) = ToSet(s) \ {s[k]}
        /\ IsInjective(LeavingOut(s, {s[k]}))
    BY LeftOut
  <1>2. LeavingOut(s, {s[k]}) = Cut(s, k)
    BY CutIs
  <1> DEFINE c == Cut(s, k)
             N == Len(s)
  <1>3. N \in Nat /\ k \in Int /\ 1 <= k /\ k <= N
    OBVIOUS
  <1>4. DOMAIN c = 1 .. N - 1 /\ \A n \in 1 .. N - 1 : c[n] = IF n < k THEN s[n] ELSE s[n + 1]
    BY DEF Cut
  <1> HIDE DEF c, N
  <1>5. c \in Seq(X)
    BY <1>1, <1>2 DEF c
  <1>6. Len(c) = N - 1
    <2>1. DOMAIN c = 1 .. Len(c) /\ Len(c) \in Nat
      BY <1>5
    <2> QED
      BY <1>3, <1>4, <2>1
  <1>7. \A n \in 1 .. k - 1 : c[n] = s[n]
    BY <1>3, <1>4
  <1>8. \A n \in k .. N - 1 : c[n] = s[n + 1]
    BY <1>3, <1>4
  <1> QED
    BY <1>1, <1>2, <1>6, <1>7, <1>8 DEF c, N, Shrunk

\* Where an item stands.
LEMMA IndexIs ==
    ASSUME NEW X, NEW s \in Seq(X), IsInjective(s), NEW k \in 1 .. Len(s)
    PROVE  IndexIn(s, s[k]) = k
  <1> DEFINE I == {n \in 1 .. Len(s) : s[n] = s[k]}
  <1>1. I = {k}
    <2>1. DOMAIN s = 1 .. Len(s)
      OBVIOUS
    <2> QED
      BY <2>1 DEF IsInjective
  <1>2. IndexIn(s, s[k]) = IF I # {} THEN Min(I) ELSE 0
    BY DEF IndexIn, SelectInSeq
  <1>3. Min({k}) = k
    BY DEF Min
  <1> QED
    BY <1>1, <1>2, <1>3

-----------------------------------------------------------------------------
(* Links, which say of each item the one it follows.                       *)

\* What the nth of s follows.
Before(s, n) == IF n = 1 THEN Top ELSE s[n - 1]

\* By the links f the items are one chain, in the order of s.
Chained(f, s) ==
    /\ s \in Seq(DOMAIN f) /\ IsInjective(s) /\ ToSet(s) = DOMAIN f /\ Top \notin DOMAIN f
    /\ \A n \in 1 .. Len(s) : f[s[n]] = Before(s, n)

\* x is put behind a; x is taken out.
PutLinks(f, a, x) ==
    [i \in DOMAIN f \union {x} |-> IF i = x THEN a ELSE IF f[i] = a THEN x ELSE f[i]]
CutLinks(f, x) == [i \in DOMAIN f \ {x} |-> IF f[i] = x THEN f[x] ELSE f[i]]

LEMMA BeforeOnce ==
    ASSUME NEW X, NEW s \in Seq(X), IsInjective(s), Top \notin ToSet(s),
           NEW m \in 1 .. Len(s) + 1, NEW n \in 1 .. Len(s) + 1, Before(s, m) = Before(s, n)
    PROVE  m = n
  <1>1. Len(s) \in Nat /\ DOMAIN s = 1 .. Len(s)
    OBVIOUS
  <1>2. \A i, j \in 1 .. Len(s) : s[i] = s[j] => i = j
    BY <1>1 DEF IsInjective
  <1>3. \A i \in 1 .. Len(s) : s[i] # Top
    BY <1>1 DEF ToSet
  <1>4. CASE m = 1 \/ n = 1
    <2>1. \A i \in 1 .. Len(s) + 1 : i # 1 => i - 1 \in 1 .. Len(s)
      BY <1>1
    <2> QED
      BY <1>3, <1>4, <2>1 DEF Before
  <1>5. CASE m # 1 /\ n # 1
    <2>1. m - 1 \in 1 .. Len(s) /\ n - 1 \in 1 .. Len(s)
      BY <1>1, <1>5
    <2>2. s[m - 1] = s[n - 1]
      BY <1>5 DEF Before
    <2>3. m - 1 = n - 1
      BY <1>2, <2>1, <2>2
    <2> QED
      BY <1>1, <2>3
  <1> QED
    BY <1>4, <1>5

LEMMA ChainedIs ==
    ASSUME NEW f, NEW s, Chained(f, s)
    PROVE  /\ Len(s) \in Nat /\ DOMAIN s = 1 .. Len(s)
           /\ \A n \in 1 .. Len(s) : s[n] \in DOMAIN f
           /\ \A i \in DOMAIN f : \E n \in 1 .. Len(s) : s[n] = i
           /\ \A m, n \in 1 .. Len(s) : s[m] = s[n] => m = n
           /\ \A m, n \in 1 .. Len(s) + 1 : Before(s, m) = Before(s, n) => m = n
           /\ \A i, j \in DOMAIN f : f[i] = f[j] => i = j
           /\ \A i \in DOMAIN f : f[i] # i /\ f[i] \in DOMAIN f \union {Top}
  <1>1. s \in Seq(DOMAIN f) /\ IsInjective(s) /\ ToSet(s) = DOMAIN f /\ Top \notin ToSet(s)
    BY DEF Chained
  <1>2. Len(s) \in Nat /\ DOMAIN s = 1 .. Len(s) /\ \A n \in 1 .. Len(s) : s[n] \in DOMAIN f
    BY <1>1
  <1>3. \A i \in DOMAIN f : \E n \in 1 .. Len(s) : s[n] = i
    BY <1>1, <1>2 DEF ToSet
  <1>4. \A m, n \in 1 .. Len(s) : s[m] = s[n] => m = n
    BY <1>1, <1>2 DEF IsInjective
  <1>5. \A m, n \in 1 .. Len(s) + 1 : Before(s, m) = Before(s, n) => m = n
    BY <1>1, BeforeOnce
  <1>6. ASSUME NEW i \in DOMAIN f, NEW j \in DOMAIN f, f[i] = f[j] PROVE i = j
    <2>1. PICK m, n \in 1 .. Len(s) : s[m] = i /\ s[n] = j
      BY <1>3
    <2>2. Before(s, m) = Before(s, n)
      BY <1>6, <2>1 DEF Chained
    <2>3. m \in 1 .. Len(s) + 1 /\ n \in 1 .. Len(s) + 1
      BY <1>2
    <2>4. m = n
      BY <1>5, <2>2, <2>3
    <2> QED
      BY <2>1, <2>4
  <1>7. ASSUME NEW i \in DOMAIN f PROVE f[i] # i /\ f[i] \in DOMAIN f \union {Top}
    <2>1. PICK n \in 1 .. Len(s) : s[n] = i
      BY <1>3
    <2>2. f[i] = Before(s, n)
      BY <2>1 DEF Chained
    <2>3. CASE n = 1
      BY <1>1, <2>2, <2>3 DEF Before
    <2>4. CASE n # 1
      <3>1. n - 1 \in 1 .. Len(s) /\ n - 1 # n
        BY <1>2, <2>4
      <3>2. f[i] = s[n - 1]
        BY <2>2, <2>4 DEF Before
      <3> QED
        BY <1>2, <1>4, <2>1, <3>1, <3>2
    <2> QED
      BY <2>3, <2>4
  <1> QED
    BY <1>2, <1>3, <1>4, <1>5, <1>6, <1>7

LEMMA PutChained ==
    ASSUME NEW f, NEW s, Chained(f, s), NEW k \in 0 .. Len(s), NEW x, x \notin DOMAIN f, x # Top
    PROVE  Chained(PutLinks(f, Before(s, k + 1), x), Put(s, k, x))
  <1> DEFINE N == Len(s)
             p == Put(s, k, x)
             a == Before(s, k + 1)
             g == PutLinks(f, a, x)
  <1>1. /\ N \in Nat /\ k \in Nat /\ k <= N /\ DOMAIN s = 1 .. N
        /\ \A n \in 1 .. N : s[n] \in DOMAIN f /\ f[s[n]] = Before(s, n)
        /\ \A m, n \in 1 .. N + 1 : Before(s, m) = Before(s, n) => m = n
    BY ChainedIs DEF Chained
  <1>2. s \in Seq(DOMAIN f) /\ IsInjective(s) /\ ToSet(s) = DOMAIN f /\ Top \notin DOMAIN f
    BY DEF Chained
  <1>3. /\ p \in Seq(DOMAIN f \union {x}) /\ Len(p) = N + 1
        /\ p[k + 1] = x
        /\ \A n \in 1 .. k : p[n] = s[n]
        /\ \A n \in k + 1 .. N : p[n + 1] = s[n]
        /\ ToSet(p) = DOMAIN f \union {x}
        /\ IsInjective(p)
    <2>1. Grown(p, s, k, x, DOMAIN f)
      BY <1>2, PutIs
    <2> QED
      BY <1>2, <2>1 DEF Grown
  <1>4. /\ DOMAIN g = DOMAIN f \union {x} /\ g[x] = a
        /\ \A i \in DOMAIN f : g[i] = IF f[i] = a THEN x ELSE f[i]
    BY DEF PutLinks
  <1> HIDE DEF N, p, g
  <1>5. ASSUME NEW n \in 1 .. k PROVE g[p[n]] = Before(p, n)
    <2>1. n \in 1 .. N /\ n \in 1 .. N + 1 /\ k + 1 \in 1 .. N + 1 /\ n # k + 1
      BY <1>1
    <2>2. g[p[n]] = Before(s, n)
      BY <1>1, <1>3, <1>4, <2>1
    <2>3. n # 1 => n - 1 \in 1 .. k
      BY <1>1
    <2> QED
      BY <1>3, <2>2, <2>3 DEF Before
  <1>6. g[p[k + 1]] = Before(p, k + 1)
    <2>1. k + 1 # 1 => k \in 1 .. k
      BY <1>1
    <2>2. Before(p, k + 1) = IF k + 1 = 1 THEN Top ELSE p[k]
      BY <1>1 DEF Before
    <2>3. a = IF k + 1 = 1 THEN Top ELSE s[k]
      BY <1>1 DEF Before
    <2> QED
      BY <1>3, <1>4, <2>1, <2>2, <2>3
  <1> HIDE DEF a
  <1>7. ASSUME NEW n \in k + 1 .. N PROVE g[p[n + 1]] = Before(p, n + 1)
    <2>1. n \in 1 .. N /\ n \in Nat /\ n + 1 # 1
      BY <1>1
    <2>2. Before(p, n + 1) = p[n]
      BY <2>1 DEF Before
    <2>3. f[s[n]] = Before(s, n) /\ s[n] \in DOMAIN f /\ p[n + 1] = s[n]
      BY <1>1, <1>3, <2>1
    <2>4. CASE n = k + 1
      BY <1>3, <1>4, <2>2, <2>3, <2>4 DEF a
    <2>5. CASE n # k + 1
      <3>1. n - 1 \in k + 1 .. N /\ n # 1 /\ (n - 1) + 1 = n /\ k + 1 \in 1 .. N + 1 /\ n \in 1 .. N + 1
        BY <1>1, <2>1, <2>5
      <3>2. Before(s, n) # a
        BY <1>1, <2>5, <3>1 DEF a
      <3>3. Before(s, n) = s[n - 1]
        BY <3>1 DEF Before
      <3>4. p[n] = s[n - 1]
        BY <1>3, <3>1
      <3> QED
        BY <1>4, <2>2, <2>3, <3>2, <3>3, <3>4
    <2> QED
      BY <2>4, <2>5
  <1>8. ASSUME NEW n \in 1 .. N + 1 PROVE g[p[n]] = Before(p, n)
    <2>1. n \in 1 .. k \/ n = k + 1 \/ (n - 1 \in k + 1 .. N /\ (n - 1) + 1 = n)
      BY <1>1
    <2> QED
      BY <1>5, <1>6, <1>7, <2>1
  <1>9. Chained(g, p)
    BY <1>2, <1>3, <1>4, <1>8 DEF Chained
  <1> QED
    BY <1>9 DEF g, p, a

LEMMA CutChained ==
    ASSUME NEW f, NEW s, Chained(f, s), NEW k \in 1 .. Len(s)
    PROVE  Chained(CutLinks(f, s[k]), Cut(s, k))
  <1> DEFINE N == Len(s)
             c == Cut(s, k)
             x == s[k]
             g == CutLinks(f, x)
  <1>1. /\ N \in Nat /\ k \in Nat /\ k <= N /\ 1 <= k /\ DOMAIN s = 1 .. N
        /\ \A n \in 1 .. N : s[n] \in DOMAIN f /\ f[s[n]] = Before(s, n)
        /\ \A m, n \in 1 .. N + 1 : Before(s, m) = Before(s, n) => m = n
        /\ \A m, n \in 1 .. N : s[m] = s[n] => m = n
    <2>1. N \in Nat /\ DOMAIN s = 1 .. N
      BY ChainedIs
    <2>2. \A n \in 1 .. N : s[n] \in DOMAIN f /\ f[s[n]] = Before(s, n)
      BY ChainedIs DEF Chained
    <2>3. \A m, n \in 1 .. N + 1 : Before(s, m) = Before(s, n) => m = n
      BY ChainedIs
    <2>4. \A m, n \in 1 .. N : s[m] = s[n] => m = n
      BY ChainedIs
    <2> QED
      BY <2>1, <2>2, <2>3, <2>4
  <1>2. s \in Seq(DOMAIN f) /\ IsInjective(s) /\ ToSet(s) = DOMAIN f /\ Top \notin DOMAIN f
    BY DEF Chained
  <1>3. /\ Len(c) = N - 1 /\ c \in Seq(DOMAIN f)
        /\ \A n \in 1 .. k - 1 : c[n] = s[n]
        /\ \A n \in k .. N - 1 : c[n] = s[n + 1]
        /\ ToSet(c) = DOMAIN f \ {x}
        /\ IsInjective(c)
    <2>1. Shrunk(c, s, k, DOMAIN f)
      BY <1>2, CutHas
    <2> QED
      BY <1>2, <2>1 DEF Shrunk
  <1>4. /\ DOMAIN g = DOMAIN f \ {x}
        /\ \A i \in DOMAIN f \ {x} : g[i] = IF f[i] = x THEN f[x] ELSE f[i]
    BY DEF CutLinks
  <1> HIDE DEF N, c, g
  <1>5. ASSUME NEW n \in 1 .. k - 1 PROVE g[c[n]] = Before(c, n)
    <2>1. n \in 1 .. N /\ n \in 1 .. N + 1 /\ k + 1 \in 1 .. N + 1 /\ n # k + 1 /\ n # k /\ k \in 1 .. N
      BY <1>1
    <2>2. Before(s, k + 1) = x
      BY <1>1 DEF Before
    <2>3. Before(s, n) # x /\ s[n] # x
      BY <1>1, <2>1, <2>2
    <2>4. g[c[n]] = Before(s, n)
      BY <1>1, <1>3, <1>4, <2>1, <2>3
    <2>5. n # 1 => n - 1 \in 1 .. k - 1
      BY <1>1
    <2> QED
      BY <1>3, <2>4, <2>5 DEF Before
  <1>6. ASSUME NEW n \in k .. N - 1 PROVE g[c[n]] = Before(c, n)
    <2>1. n + 1 \in 1 .. N /\ n \in 1 .. N /\ n + 1 # 1 /\ n + 1 # k /\ k \in 1 .. N /\ (n + 1) - 1 = n
      BY <1>1
    <2>2. f[s[n + 1]] = s[n]
      BY <1>1, <2>1 DEF Before
    <2>3. c[n] = s[n + 1] /\ s[n + 1] # x /\ s[n + 1] \in DOMAIN f
      BY <1>1, <1>3, <2>1
    <2>4. g[c[n]] = IF s[n] = x THEN f[x] ELSE s[n]
      BY <1>4, <2>2, <2>3
    <2>5. CASE n = k
      <3>1. g[c[n]] = Before(s, k)
        BY <1>1, <2>1, <2>4, <2>5
      <3>2. k # 1 => k - 1 \in 1 .. k - 1
        BY <1>1
      <3> QED
        BY <1>3, <2>5, <3>1, <3>2 DEF Before
    <2>6. CASE n # k
      <3>1. s[n] # x
        BY <1>1, <2>1, <2>6
      <3>2. n - 1 \in k .. N - 1 /\ n # 1 /\ (n - 1) + 1 = n
        BY <1>1, <2>6
      <3>3. c[n - 1] = s[n]
        BY <1>3, <3>2
      <3> QED
        BY <2>4, <3>1, <3>2, <3>3 DEF Before
    <2> QED
      BY <2>5, <2>6
  <1>7. ASSUME NEW n \in 1 .. N - 1 PROVE g[c[n]] = Before(c, n)
    <2>1. n \in 1 .. k - 1 \/ n \in k .. N - 1
      BY <1>1
    <2> QED
      BY <1>5, <1>6, <2>1
  <1>8. c \in Seq(DOMAIN f \ {x})
    <2>1. c = [n \in 1 .. N - 1 |-> c[n]] /\ N - 1 \in Nat /\ DOMAIN c = 1 .. N - 1
      BY <1>1, <1>3
    <2>2. \A n \in 1 .. N - 1 : c[n] \in DOMAIN f \ {x}
      BY <1>3, <2>1 DEF ToSet
    <2> QED
      BY <2>1, <2>2
  <1>9. Chained(g, c)
    BY <1>2, <1>3, <1>4, <1>7, <1>8 DEF Chained
  <1> QED
    BY <1>9 DEF g, c

\* A chain, dropped into at the nth place.
LEMMA InsertedChain ==
    ASSUME NEW f, NEW s, Chained(f, s), NEW n \in 1 .. Len(s) + 1, NEW x, x \notin DOMAIN f, x # Top
    PROVE  Chained(PutLinks(f, Before(s, n), x), InsertAt(s, n, x))
  <1>1. Len(s) \in Nat /\ s \in Seq(DOMAIN f)
    BY ChainedIs DEF Chained
  <1>2. PICK k : k = n - 1
    OBVIOUS
  <1>3. k \in 0 .. Len(s) /\ n = k + 1
    BY <1>1, <1>2
  <1>4. Chained(PutLinks(f, Before(s, k + 1), x), Put(s, k, x))
    BY <1>3, PutChained
  <1>5. InsertAt(s, k + 1, x) = Put(s, k, x)
    BY <1>1, <1>3, PutIs
  <1> QED
    BY <1>3, <1>4, <1>5

\* ... and without one of its items.
LEMMA LeftOutChain ==
    ASSUME NEW f, NEW s, Chained(f, s), NEW x \in DOMAIN f
    PROVE  Chained(CutLinks(f, x), LeavingOut(s, {x}))
  <1>1. PICK k \in 1 .. Len(s) : s[k] = x
    BY ChainedIs
  <1>2. s \in Seq(DOMAIN f) /\ IsInjective(s)
    BY DEF Chained
  <1>3. LeavingOut(s, {s[k]}) = Cut(s, k)
    BY <1>2, CutIs
  <1>4. Chained(CutLinks(f, s[k]), Cut(s, k))
    BY CutChained
  <1> QED
    BY <1>1, <1>3, <1>4

LEMMA OtherLeftOut ==
    ASSUME NEW f, NEW s, Chained(f, s), NEW x, x \notin DOMAIN f
    PROVE  LeavingOut(s, {x}) = s
  <1>1. s \in Seq(DOMAIN f) /\ \A n \in DOMAIN s : s[n] \notin {x}
    BY ChainedIs DEF Chained
  <1> QED
    BY <1>1, NoneLeftOut

\* Links as Linked makes them.
LEMMA LinkedIs ==
    ASSUME NEW X, NEW s \in Seq(X), IsInjective(s), NEW a
    PROVE  /\ DOMAIN Linked(s, a) = ToSet(s)
           /\ \A n \in 1 .. Len(s) : Linked(s, a)[s[n]] = IF n = 1 THEN a ELSE s[n - 1]
  <1>1. DOMAIN s = 1 .. Len(s) /\ Len(s) \in Nat
    OBVIOUS
  <1>2. DOMAIN Linked(s, a) = ToSet(s)
    BY DEF Linked
  <1>3. ASSUME NEW n \in 1 .. Len(s) PROVE Linked(s, a)[s[n]] = IF n = 1 THEN a ELSE s[n - 1]
    <2>1. s[n] \in ToSet(s)
      BY <1>1 DEF ToSet
    <2>2. (CHOOSE m \in DOMAIN s : s[m] = s[n]) = n
      BY <1>1 DEF IsInjective
    <2> DEFINE place == CHOOSE m \in DOMAIN s : s[m] = s[n]
    <2>3. Linked(s, a)[s[n]] = IF place = 1 THEN a ELSE s[place - 1]
      BY <2>1 DEF Linked
    <2> HIDE DEF place
    <2>4. place = n
      BY <2>2 DEF place
    <2> QED
      BY <2>3, <2>4
  <1> QED
    BY <1>2, <1>3

LEMMA LinkedChain ==
    ASSUME NEW X, NEW s \in Seq(X), IsInjective(s), Top \notin X
    PROVE  Chained(Linked(s, Top), s)
  <1>1. /\ DOMAIN Linked(s, Top) = ToSet(s)
        /\ \A n \in 1 .. Len(s) : Linked(s, Top)[s[n]] = IF n = 1 THEN Top ELSE s[n - 1]
    BY LinkedIs
  <1>2. /\ Len(s) \in Nat /\ DOMAIN s = 1 .. Len(s) /\ s = [n \in 1 .. Len(s) |-> s[n]]
        /\ \A n \in 1 .. Len(s) : s[n] \in X
    OBVIOUS
  <1>3. \A n \in 1 .. Len(s) : s[n] \in ToSet(s)
    BY <1>2 DEF ToSet
  <1>4. s \in Seq(ToSet(s)) /\ Top \notin ToSet(s)
    <2>1. s \in Seq(ToSet(s))
      BY <1>2, <1>3
    <2>2. Top \notin ToSet(s)
      BY <1>2 DEF ToSet
    <2> QED
      BY <2>1, <2>2
  <1> QED
    BY <1>1, <1>4 DEF Chained, Before

\* One chain after the other.
ThenLinks(f, s, g) ==
    [i \in DOMAIN f \union DOMAIN g |->
        IF i \in DOMAIN f THEN f[i] ELSE IF g[i] = Top THEN Tail_(s) ELSE g[i]]

LEMMA JoinedChain ==
    ASSUME NEW f, NEW s, Chained(f, s), NEW g, NEW u, Chained(g, u), DOMAIN f \intersect DOMAIN g = {}
    PROVE  Chained(ThenLinks(f, s, g), s \o u)
  <1> DEFINE h == ThenLinks(f, s, g)
             D == DOMAIN f \union DOMAIN g
  <1>1. /\ s \in Seq(D) /\ IsInjective(s) /\ ToSet(s) = DOMAIN f
        /\ u \in Seq(D) /\ IsInjective(u) /\ ToSet(u) = DOMAIN g
        /\ Top \notin D
    BY DEF Chained
  <1>2. PICK w : w = s \o u
    OBVIOUS
  <1>3. w \in Seq(D) /\ IsInjective(w) /\ ToSet(w) = D
    BY <1>1, <1>2, SeqsJoined
  <1>4. /\ Len(w) = Len(s) + Len(u)
        /\ \A n \in 1 .. Len(s) : w[n] = s[n]
        /\ \A n \in 1 .. Len(u) : w[Len(s) + n] = u[n]
    <2>1. Then(s \o u, s, u, D)
      BY <1>1, SeqsConcat
    <2> QED
      BY <1>2, <2>1 DEF Then
  <1>5. /\ Len(s) \in Nat /\ Len(u) \in Nat
        /\ \A n \in 1 .. Len(s) : s[n] \in DOMAIN f /\ f[s[n]] = Before(s, n)
        /\ \A n \in 1 .. Len(u) : u[n] \in DOMAIN g /\ u[n] \notin DOMAIN f /\ u[n] # Top /\ g[u[n]] = Before(u, n)
    <2>1. Len(s) \in Nat /\ \A n \in 1 .. Len(s) : s[n] \in DOMAIN f
      BY ChainedIs
    <2>2. Len(u) \in Nat /\ \A n \in 1 .. Len(u) : u[n] \in DOMAIN g
      BY ChainedIs
    <2>3. /\ \A n \in 1 .. Len(s) : f[s[n]] = Before(s, n)
          /\ \A n \in 1 .. Len(u) : g[u[n]] = Before(u, n)
          /\ Top \notin DOMAIN g
      BY DEF Chained
    <2> QED
      BY <2>1, <2>2, <2>3
  <1>6. /\ DOMAIN h = D
        /\ \A i \in DOMAIN f : h[i] = f[i]
        /\ \A i \in DOMAIN g : i \notin DOMAIN f => h[i] = IF g[i] = Top THEN Tail_(s) ELSE g[i]
    BY DEF ThenLinks
  <1> HIDE DEF h, D
  <1>7. ASSUME NEW n \in 1 .. Len(s) PROVE h[w[n]] = Before(w, n)
    <2>1. h[w[n]] = Before(s, n)
      BY <1>4, <1>5, <1>6
    <2>2. n # 1 => n - 1 \in 1 .. Len(s)
      BY <1>5
    <2> QED
      BY <1>4, <2>1, <2>2 DEF Before
  <1>8. ASSUME NEW n \in 1 .. Len(u) PROVE h[w[Len(s) + n]] = Before(w, Len(s) + n)
    <2>1. h[u[n]] = IF g[u[n]] = Top THEN Tail_(s) ELSE g[u[n]]
      BY <1>5, <1>6
    <2>2. CASE n = 1
      <3>1. h[u[n]] = Tail_(s)
        BY <1>5, <2>1, <2>2 DEF Before
      <3>2. Tail_(s) = Before(w, Len(s) + 1)
        <4>1. CASE s = <<>>
          <5>1. Len(s) = 0
            BY <4>1
          <5> QED
            BY <4>1, <5>1 DEF Tail_, Before
        <4>2. CASE s # <<>>
          <5>1. Len(s) # 0 /\ Last(s) = s[Len(s)]
            BY <1>1, <4>2 DEF Last
          <5>2. Len(s) \in 1 .. Len(s) /\ Len(s) + 1 # 1 /\ (Len(s) + 1) - 1 = Len(s)
            BY <1>5, <5>1
          <5> QED
            BY <1>4, <4>2, <5>1, <5>2 DEF Tail_, Before
        <4> QED
          BY <4>1, <4>2
      <3> QED
        BY <1>4, <2>2, <3>1, <3>2
    <2>3. CASE n # 1
      <3>1. n - 1 \in 1 .. Len(u) /\ Len(s) + n # 1 /\ (Len(s) + n) - 1 = Len(s) + (n - 1)
        BY <1>5, <2>3
      <3>2. g[u[n]] = u[n - 1] /\ u[n - 1] # Top
        BY <1>5, <2>3, <3>1 DEF Before
      <3>3. Before(w, Len(s) + n) = u[n - 1]
        BY <1>4, <3>1 DEF Before
      <3> QED
        BY <1>4, <2>1, <3>2, <3>3
    <2> QED
      BY <2>2, <2>3
  <1>9. ASSUME NEW n \in 1 .. Len(w) PROVE h[w[n]] = Before(w, n)
    <2>1. n \in 1 .. Len(s) \/ (n - Len(s) \in 1 .. Len(u) /\ Len(s) + (n - Len(s)) = n)
      BY <1>4, <1>5
    <2> QED
      BY <1>7, <1>8, <2>1
  <1>10. Chained(h, w)
    BY <1>1, <1>3, <1>6, <1>9 DEF Chained
  <1> QED
    BY <1>2, <1>10 DEF h

-----------------------------------------------------------------------------
(* What a chain shows.                                                     *)

LEMMA OneListed ==
    ASSUME NEW S, NEW s \in Seq(S), IsInjective(s)
    PROVE  /\ ToSet(s) = {} => s = <<>>
           /\ \A x : ToSet(s) = {x} => s = <<x>>
  <1>1. Len(s) \in Nat /\ DOMAIN s = 1 .. Len(s) /\ s = [n \in 1 .. Len(s) |-> s[n]]
    OBVIOUS
  <1>2. ASSUME ToSet(s) = {} PROVE s = <<>>
    <2>1. 1 \notin DOMAIN s
      BY <1>2 DEF ToSet
    <2>2. Len(s) = 0
      BY <1>1, <2>1
    <2> QED
      BY <2>2
  <1>3. ASSUME NEW x, ToSet(s) = {x} PROVE s = <<x>>
    <2>1. PICK n \in DOMAIN s : s[n] = x
      BY <1>3 DEF ToSet
    <2>2. \A m \in DOMAIN s : s[m] = x
      BY <1>3 DEF ToSet
    <2>3. \A m \in DOMAIN s : m = n
      BY <2>1, <2>2 DEF IsInjective
    <2>4. 1 \in DOMAIN s /\ Len(s) \in DOMAIN s
      BY <1>1, <2>1
    <2>5. Len(s) = 1 /\ s[1] = x
      BY <1>1, <2>2, <2>3, <2>4
    <2> QED
      BY <2>5
  <1> QED
    BY <1>2, <1>3

FollowLinks(t) == [i \in DOMAIN t |-> Follows(t[i])]

\* What waits once the first n items of the chain are met.
Ahead(s, n) == IF n < Len(s) THEN <<s[n + 1]>> ELSE <<>>

LEMMA NextInChain ==
    ASSUME NEW t, Sortable(t), NEW s, Chained(FollowLinks(t), s), NEW n \in 0 .. Len(s)
    PROVE  NextsOf(t)[Before(s, n + 1)] = Ahead(s, n)
  <1> DEFINE f == FollowLinks(t)
             a == Before(s, n + 1)
  <1>1. DOMAIN f = DOMAIN t /\ \A i \in DOMAIN t : f[i] = Follows(t[i])
    BY DEF FollowLinks
  <1> HIDE DEF f
  <1>2. Chained(f, s)
    BY DEF f
  <1>3. Len(s) \in Nat /\ \A m \in 1 .. Len(s) : s[m] \in DOMAIN t /\ Follows(t[s[m]]) = Before(s, m)
    BY <1>1, <1>2, ChainedIs DEF Chained
  <1>4. \A i \in DOMAIN t : \E m \in 1 .. Len(s) : s[m] = i
    BY <1>1, <1>2, ChainedIs
  <1>5. \A m \in 1 .. Len(s) : Before(s, m) = a => m = n + 1
    <2>1. \A m, k \in 1 .. Len(s) + 1 : Before(s, m) = Before(s, k) => m = k
      BY <1>2, ChainedIs
    <2>2. n + 1 \in 1 .. Len(s) + 1 /\ \A m \in 1 .. Len(s) : m \in 1 .. Len(s) + 1
      BY <1>3
    <2> QED
      BY <2>1, <2>2
  <1>6. a \in DOMAIN t \union {Top}
    <2>1. CASE n + 1 = 1
      BY <2>1 DEF Before
    <2>2. CASE n + 1 # 1
      <3>1. n \in 1 .. Len(s) /\ (n + 1) - 1 = n
        BY <1>3, <2>2
      <3> QED
        BY <1>3, <2>2, <3>1 DEF Before
    <2> QED
      BY <2>1, <2>2
  <1>7. n < Len(s) => n + 1 \in 1 .. Len(s)
    BY <1>3
  <1>8. ~ (n < Len(s)) => n + 1 \notin 1 .. Len(s)
    BY <1>3
  <1>9. PICK r : /\ r = NextsOf(t)[a]
                 /\ r \in Seq(DOMAIN t) /\ IsInjective(r) /\ ToSet(r) = Heirs(t, a)
    BY <1>6, NextsListed
  <1>10. CASE n < Len(s)
    <2>1. Heirs(t, a) = {s[n + 1]}
      <3>1. ASSUME NEW i \in DOMAIN t, Follows(t[i]) = a PROVE i = s[n + 1]
        <4>1. PICK m \in 1 .. Len(s) : s[m] = i
          BY <1>4
        <4>2. Before(s, m) = a
          BY <1>3, <3>1, <4>1
        <4> QED
          BY <1>5, <4>1, <4>2
      <3>2. s[n + 1] \in DOMAIN t /\ Follows(t[s[n + 1]]) = a
        BY <1>3, <1>7, <1>10
      <3> QED
        BY <3>1, <3>2 DEF Heirs
    <2>2. r = <<s[n + 1]>>
      BY <1>9, <2>1, OneListed
    <2> QED
      BY <1>9, <1>10, <2>2 DEF Ahead
  <1>11. CASE ~ (n < Len(s))
    <2>1. Heirs(t, a) = {}
      <3>1. ASSUME NEW i \in DOMAIN t, Follows(t[i]) = a PROVE FALSE
        <4>1. PICK m \in 1 .. Len(s) : s[m] = i
          BY <1>4
        <4>2. Before(s, m) = a
          BY <1>3, <3>1, <4>1
        <4> QED
          BY <1>5, <1>8, <1>11, <4>2
      <3> QED
        BY <3>1 DEF Heirs
    <2>2. r = <<>>
      BY <1>9, <2>1, OneListed
    <2> QED
      BY <1>9, <1>11, <2>2 DEF Ahead
  <1> QED
    BY <1>10, <1>11

Prefix(s, n) == [m \in 1 .. n |-> s[m]]

\* The walk along a chain meets its items in order.
LEMMA WalkAlong ==
    ASSUME NEW t, Sortable(t), NEW s, Chained(FollowLinks(t), s)
    PROVE  Walk(Len(s), NextsOf(t)) = s
  <1> DEFINE L == Len(s)
             D == DOMAIN FollowLinks(t)
             state(n) == [met |-> Prefix(s, n), todo |-> Ahead(s, n)]
  <1>1. L \in Nat /\ s \in Seq(D) /\ s = [m \in 1 .. L |-> s[m]] /\ \A m \in 1 .. L : s[m] \in D
    <2>1. s \in Seq(D)
      BY DEF Chained
    <2> QED
      BY <2>1
  <1> HIDE DEF L, D
  <1>2. PICK f : /\ Walk(L, NextsOf(t)) = f[L].met
                 /\ f[0] = [met |-> <<>>, todo |-> NextsOf(t)[Top]]
                 /\ \A n \in Nat : n < L => f[n + 1] = Onward(f[n], NextsOf(t))
    BY <1>1, WalkLeads
  <1> DEFINE T == {n \in Nat : n <= L => f[n] = state(n)}
  <1>3. 0 \in T
    <2>1. Prefix(s, 0) = <<>>
      BY DEF Prefix
    <2>2. NextsOf(t)[Top] = Ahead(s, 0)
      <3>1. 0 \in 0 .. Len(s) /\ Before(s, 0 + 1) = Top
        BY <1>1 DEF Before, L
      <3> QED
        BY <3>1, NextInChain
    <2> QED
      BY <1>2, <2>1, <2>2
  <1>4. ASSUME NEW n \in Nat, n \in T PROVE n + 1 \in T
    <2>1. CASE n + 1 <= L
      <3>1. n < L /\ f[n] = state(n) /\ n + 1 \in 1 .. L
        BY <1>1, <1>4, <2>1
      <3>2. PICK x : x = s[n + 1]
        OBVIOUS
      <3>3. f[n].met = Prefix(s, n) /\ f[n].todo = <<x>>
        BY <3>1, <3>2 DEF Ahead, L
      <3>4. f[n + 1] = [met |-> Append(Prefix(s, n), x), todo |-> NextsOf(t)[x] \o <<>>]
        <4>1. f[n + 1] = Onward(f[n], NextsOf(t))
          BY <1>2, <3>1
        <4>2. <<x>> # <<>> /\ Head(<<x>>) = x /\ Tail(<<x>>) = <<>>
          OBVIOUS
        <4> QED
          BY <3>3, <4>1, <4>2 DEF Onward
      <3>5. Append(Prefix(s, n), x) = Prefix(s, n + 1)
        <4>1. Prefix(s, n) \in Seq(D) /\ Len(Prefix(s, n)) = n /\ \A m \in 1 .. n : Prefix(s, n)[m] = s[m]
          <5>1. \A m \in 1 .. n : s[m] \in D
            BY <1>1, <3>1
          <5> QED
            BY <5>1 DEF Prefix
        <4>2. PICK p : p = Prefix(s, n)
          OBVIOUS
        <4>3. x \in D
          BY <1>1, <3>1, <3>2
        <4>4. /\ Append(p, x) \in Seq(D) /\ Len(Append(p, x)) = n + 1
              /\ \A m \in 1 .. n : Append(p, x)[m] = s[m]
              /\ Append(p, x)[n + 1] = x
          BY <4>1, <4>2, <4>3
        <4>5. Append(p, x) = [m \in 1 .. n + 1 |-> Append(p, x)[m]]
          <5>1. PICK q : q = Append(p, x)
            OBVIOUS
          <5>2. q \in Seq(D) /\ Len(q) = n + 1
            BY <4>4, <5>1
          <5>3. q = [m \in 1 .. n + 1 |-> q[m]]
            BY <5>2
          <5> QED
            BY <5>1, <5>3
        <4>6. \A m \in 1 .. n + 1 : Append(p, x)[m] = s[m]
          BY <3>2, <4>4
        <4> QED
          BY <4>2, <4>5, <4>6 DEF Prefix
      <3>6. NextsOf(t)[x] = Ahead(s, n + 1)
        <4>1. n + 1 \in 0 .. Len(s) /\ Before(s, (n + 1) + 1) = x
          <5>1. (n + 1) + 1 # 1 /\ ((n + 1) + 1) - 1 = n + 1
            OBVIOUS
          <5> QED
            BY <1>1, <2>1, <3>2, <5>1 DEF Before, L
        <4> QED
          BY <4>1, NextInChain
      <3>7. Ahead(s, n + 1) \o <<>> = Ahead(s, n + 1)
        <4>1. \A y : <<y>> \o <<>> = <<y>>
          OBVIOUS
        <4>2. <<>> \o <<>> = <<>>
          OBVIOUS
        <4> QED
          BY <4>1, <4>2 DEF Ahead
      <3>8. f[n + 1] = state(n + 1)
        BY <3>4, <3>5, <3>6, <3>7
      <3> QED
        BY <3>8
    <2>2. CASE ~ (n + 1 <= L)
      BY <2>2
    <2> QED
      BY <2>1, <2>2
  <1> HIDE DEF T
  <1>5. \A n \in Nat : n \in T
    BY <1>3, <1>4, AllNaturals
  <1>6. f[L] = state(L)
    BY <1>1, <1>5 DEF T
  <1>7. f[L].met = s
    BY <1>1, <1>6 DEF Prefix
  <1> QED
    BY <1>2, <1>7 DEF L

\* A sequence that repeats nothing has as many items as places.
LEMMA InjectiveSize ==
    ASSUME NEW X, NEW s \in Seq(X), IsInjective(s) PROVE Cardinality(ToSet(s)) = Len(s)
  <1>1. Len(s) \in Nat /\ DOMAIN s = 1 .. Len(s) /\ s = [n \in 1 .. Len(s) |-> s[n]]
    OBVIOUS
  <1>2. /\ \A n \in 1 .. Len(s) : s[n] \in ToSet(s)
        /\ \A x \in ToSet(s) : \E n \in 1 .. Len(s) : s[n] = x
    BY <1>1 DEF ToSet
  <1>3. \A m, n \in 1 .. Len(s) : s[m] = s[n] => m = n
    BY <1>1 DEF IsInjective
  <1>4. s \in [1 .. Len(s) -> ToSet(s)]
    BY <1>1, <1>2
  <1>5. s \in Bijection(1 .. Len(s), ToSet(s))
    BY <1>2, <1>3, <1>4 DEF Bijection, Injection, Surjection
  <1>6. ExistsBijection(1 .. Len(s), ToSet(s))
    BY <1>5 DEF ExistsBijection
  <1> QED
    BY <1>1, <1>6, FS_CountingElements

\* A chain shows its items in order (resolveChain).
LEMMA ChainResolves ==
    ASSUME NEW t, Sortable(t), NEW s, Chained(FollowLinks(t), s)
    PROVE  ResolveChain(t) = s
  <1>1. /\ s \in Seq(DOMAIN t) /\ IsInjective(s) /\ ToSet(s) = DOMAIN t
    BY DEF Chained, FollowLinks
  <1>2. Len(s) \in Nat /\ DOMAIN s = 1 .. Len(s) /\ s \in [1 .. Len(s) -> DOMAIN t]
    BY <1>1
  <1>3. Cardinality(DOMAIN t) = Len(s)
    BY <1>1, InjectiveSize
  <1>4. ResolveChain(t) = s \o Ranked(DOMAIN t \ ToSet(s), Ascending)
    <2>1. Walk(Cardinality(DOMAIN t), NextsOf(t)) = s
      BY <1>3, WalkAlong
    <2>2. ResolveChain(t) = WithOrphans(t, Walk(Cardinality(DOMAIN t), NextsOf(t)))
      BY DEF ResolveChain, NextsOf, Heirs
    <2> QED
      BY <2>1, <2>2 DEF WithOrphans
  <1>5. Ranked(DOMAIN t \ ToSet(s), Ascending) = <<>>
    <2>1. DOMAIN t \ ToSet(s) = {} /\ IsFiniteSet({})
      BY <1>1, FS_EmptySet
    <2>2. Orders(Ascending, {})
      BY AscendingOrders
    <2>3. PICK r : r = Ranked({}, Ascending)
      OBVIOUS
    <2>4. r \in Seq({}) /\ IsInjective(r) /\ ToSet(r) = {}
      BY <2>1, <2>2, <2>3, RankedListed
    <2>5. r = <<>>
      BY <2>4, OneListed
    <2> QED
      BY <2>1, <2>3, <2>5
  <1>6. s \o <<>> = s
    BY <1>1
  <1> QED
    BY <1>4, <1>5, <1>6

-----------------------------------------------------------------------------
(* The order the users want.                                               *)

ListLinks(t, l) == [i \in InList(t, l) |-> t[i].after]

\* List l of the table t is the chain s, or has rows of the old format, the
\* others being linked, and shows s.
ListPlanned(t, l, s) ==
    \/ Chained(ListLinks(t, l), s)
    \/ /\ \E i \in InList(t, l) : ~t[i].current
       /\ \A i \in InList(t, l) : t[i].current => t[i].after # Absent
       /\ s = ResolveChain(ListOf(t, l))

\* The table that every device comes to hold is as planned.
PlanKept ==
    regular => /\ Lists \subseteq DOMAIN plan
               /\ \E T : /\ \A d \in Devices : Pending(rows[d], inbox[d], T)
                         /\ \A l \in Lists : ListPlanned(T, l, plan[l])

PlanInv == ItemsInv /\ PlanKept

LEMMA ChainShown ==
    ASSUME NEW at, NEW B, NEW t, TableOK(t, at, B), B \subseteq Ids, NEW l, NEW s,
           Chained(ListLinks(t, l), s)
    PROVE  ResolveChain(ListOf(t, l)) = s
  <1> DEFINE f == ListLinks(t, l)
             u == ListOf(t, l)
  <1>1. DOMAIN f = InList(t, l) /\ \A i \in InList(t, l) : f[i] = t[i].after
    BY DEF ListLinks
  <1> HIDE DEF f
  <1>2. \A i \in DOMAIN f : f[i] \in DOMAIN f \union {Top}
    BY ChainedIs DEF f
  <1>3. DOMAIN u = InList(t, l) /\ InList(t, l) \subseteq DOMAIN t /\ \A i \in InList(t, l) : u[i] = t[i]
    BY ListOfIs
  <1>4. Absent \notin DOMAIN f \union {Top}
    BY <1>1, <1>3, ItemsAssumption DEF TableOK
  <1>5. FollowLinks(u) = f
    <2>1. \A i \in InList(t, l) : Follows(u[i]) = f[i]
      BY <1>1, <1>2, <1>3, <1>4 DEF Follows
    <2>2. f = [i \in InList(t, l) |-> f[i]]
      BY DEF f, ListLinks
    <2> QED
      BY <1>3, <2>1, <2>2 DEF FollowLinks
  <1>6. Sortable(u)
    BY ListOfSorts
  <1> HIDE DEF u
  <1>7. Chained(FollowLinks(u), s)
    BY <1>5 DEF f
  <1>8. ResolveChain(u) = s
    BY <1>6, <1>7, ChainResolves
  <1> QED
    BY <1>8 DEF u

LEMMA PlannedShown ==
    ASSUME NEW at, NEW B, NEW t, TableOK(t, at, B), B \subseteq Ids, NEW l, NEW s, ListPlanned(t, l, s)
    PROVE  ResolveChain(ListOf(t, l)) = s
  BY ChainShown DEF ListPlanned

\* Only what is in the list matters.
LEMMA ListsAlike ==
    ASSUME NEW t, NEW u, NEW l, InList(t, l) = InList(u, l), \A i \in InList(t, l) : t[i] = u[i]
    PROVE  ListLinks(t, l) = ListLinks(u, l) /\ ListOf(t, l) = ListOf(u, l)
  BY DEF ListLinks, ListOf, Restrict

LEMMA SamePlanned ==
    ASSUME NEW t, NEW u, \A i : Same(t, u, i), NEW l
    PROVE  /\ InList(t, l) = InList(u, l) /\ \A i \in InList(t, l) : t[i] = u[i]
           /\ \A s : ListPlanned(t, l, s) <=> ListPlanned(u, l, s)
  <1>1. DOMAIN t = DOMAIN u /\ \A i \in DOMAIN t : t[i] = u[i]
    BY DEF Same
  <1>2. InList(t, l) = InList(u, l) /\ \A i \in InList(t, l) : t[i] = u[i]
    BY <1>1 DEF InList
  <1>3. ListLinks(t, l) = ListLinks(u, l) /\ ListOf(t, l) = ListOf(u, l)
    BY <1>2, ListsAlike
  <1> QED
    BY <1>2, <1>3 DEF ListPlanned

\* A list that is linked in the order in which it shows is a chain.
LEMMA UnchangedChain ==
    ASSUME NEW at, NEW B, NEW t, TableOK(t, at, B), B \subseteq Ids, NEW l,
           NEW s, s = ResolveChain(ListOf(t, l)), NEW g, g = Linked(s, Top)
    PROVE  /\ Chained(g, s) /\ DOMAIN g = InList(t, l) /\ g = [i \in DOMAIN g |-> g[i]]
           /\ Changes(ListOf(t, l), g) = NoPatch => \A i \in InList(t, l) : Follows(t[i]) = g[i]
  <1>1. PICK c : c = ListOf(t, l)
    OBVIOUS
  <1>2. DOMAIN c = InList(t, l) /\ InList(t, l) \subseteq DOMAIN t /\ \A i \in InList(t, l) : c[i] = t[i]
    BY <1>1, ListOfIs
  <1>3. Sortable(c)
    BY <1>1, ListOfSorts
  <1>4. s \in Seq(DOMAIN c) /\ IsInjective(s) /\ ToSet(s) = DOMAIN c
    BY <1>1, <1>3, Resolved
  <1>5. Top \notin DOMAIN c
    BY <1>2, ItemsAssumption DEF TableOK
  <1>6. Chained(g, s)
    BY <1>4, <1>5, LinkedChain
  <1>7. DOMAIN g = InList(t, l) /\ g = [i \in DOMAIN g |-> g[i]]
    BY <1>2, <1>4 DEF Linked
  <1>8. ASSUME Changes(c, g) = NoPatch, NEW i \in InList(t, l) PROVE Follows(t[i]) = g[i]
    <2>1. DOMAIN Changes(c, g) = {}
      BY <1>8 DEF NoPatch
    <2>2. DOMAIN Changes(c, g) = {k \in DOMAIN g : Follows(c[k]) # g[k]}
      BY DEF Changes, Restrict
    <2> QED
      BY <1>2, <1>7, <1>8, <2>1, <2>2
  <1> QED
    BY <1>1, <1>6, <1>7, <1>8

LEMMA PlanStart == Init => PlanInv
  <1> SUFFICES ASSUME Init PROVE PlanInv
    OBVIOUS
  <1>1. ItemsInv
    BY ItemsStart
  <1>2. PICK t \in Starts :
           /\ rows = [d \in Devices |-> t] /\ inbox = [d \in Devices |-> <<>>]
           /\ now = 0 /\ born = DOMAIN t
           /\ plan = [l \in Lists |-> ResolveChain(ListOf(t, l))]
    BY DEF Init
  <1>3. TableOK(t, 0, born) /\ born \subseteq Ids
    BY <1>2, ItemsAssumption DEF TableOK, RowOK, RowFields
  <1>4. \A d \in Devices : Pending(rows[d], inbox[d], t)
    <2>1. Pending(t, <<>>, t)
      BY NothingPending DEF Same
    <2> QED
      BY <1>2, <2>1
  <1>5. ASSUME NEW l \in Lists PROVE ListPlanned(t, l, plan[l])
    <2>1. plan[l] = ResolveChain(ListOf(t, l))
      BY <1>2
    <2>2. CASE \A i \in InList(t, l) : t[i].current
      <3>1. PICK s, g : s = ResolveChain(ListOf(t, l)) /\ g = Linked(s, Top)
        OBVIOUS
      <3>2. /\ Chained(g, s) /\ DOMAIN g = InList(t, l) /\ g = [i \in DOMAIN g |-> g[i]]
            /\ Changes(ListOf(t, l), g) = NoPatch => \A i \in InList(t, l) : Follows(t[i]) = g[i]
        BY <1>3, <3>1, UnchangedChain
      <3>3. \A i \in InList(t, l) : t[i].after # Absent
        BY <2>2, StartsAssumption DEF InList
      <3>4. Changes(ListOf(t, l), g) = NoPatch
        <4>1. PICK c : c = ListOf(t, l)
          OBVIOUS
        <4>2. DOMAIN c = InList(t, l) /\ \A i \in InList(t, l) : c[i] = t[i]
          BY <4>1, ListOfIs
        <4>3. c = Restrict(t, InList(t, l))
          BY <4>1 DEF ListOf
        <4>4. (\A i \in DOMAIN c : c[i].current) => Changes(c, Linked(ResolveChain(c), Top)) = NoPatch
          BY <4>3, StartsAssumption
        <4> QED
          BY <2>2, <3>1, <4>1, <4>2, <4>4
      <3>5. ListLinks(t, l) = g
        BY <3>2, <3>3, <3>4 DEF ListLinks, Follows
      <3> QED
        BY <2>1, <3>1, <3>2, <3>5 DEF ListPlanned
    <2>3. CASE \E i \in InList(t, l) : ~t[i].current
      <3>1. \A i \in InList(t, l) : t[i].current => t[i].after # Absent
        BY StartsAssumption DEF InList
      <3> QED
        BY <2>1, <2>3, <3>1 DEF ListPlanned
    <2> QED
      BY <2>2, <2>3
  <1>6. DOMAIN plan = Lists
    BY <1>2
  <1> QED
    BY <1>1, <1>4, <1>5, <1>6 DEF PlanInv, PlanKept

\* What a device holds that is up to date.
LEMMA PlannedThere ==
    ASSUME PlanInv, regular, NEW d \in Devices, inbox[d] = <<>>
    PROVE  Lists \subseteq DOMAIN plan /\ \A l \in Lists : ListPlanned(rows[d], l, plan[l])
  <1>1. PICK T : /\ \A e \in Devices : Pending(rows[e], inbox[e], T)
                 /\ \A l \in Lists : ListPlanned(T, l, plan[l])
    BY DEF PlanInv, PlanKept
  <1>2. Pending(rows[d], <<>>, T)
    BY <1>1
  <1>3. \A i : Same(rows[d], T, i)
    BY <1>2, NothingPending
  <1>4. \A l \in Lists : ListPlanned(rows[d], l, plan[l])
    BY <1>1, <1>3, SamePlanned
  <1> QED
    BY <1>4 DEF PlanInv, PlanKept

LEMMA PlanShows == PlanInv => ShownAsPlanned
  <1> SUFFICES ASSUME PlanInv, regular, NEW d \in Devices, NEW l \in Lists, Current(d)
               PROVE  Shown(d, l) = plan[l]
    BY DEF ShownAsPlanned
  <1>1. inbox[d] = <<>> /\ seen[d] = rows[d]
    BY DEF Current
  <1>2. ListPlanned(rows[d], l, plan[l])
    BY <1>1, PlannedThere
  <1>3. TableOK(rows[d], now, born) /\ born \subseteq Ids
    BY DEF PlanInv, ItemsInv, ItemsTyped
  <1>4. ResolveChain(ListOf(rows[d], l)) = plan[l]
    BY <1>2, <1>3, PlannedShown
  <1> QED
    BY <1>1, <1>4 DEF Shown

\* Once device d has nothing to merge, the table that all come to hold is its own.
LEMMA PlanFrom ==
    ASSUME ItemsInv', NEW d \in Devices, inbox'[d] = <<>>, (Lists \subseteq DOMAIN plan)',
           \A l \in Lists : ListPlanned(rows'[d], l, plan'[l])
    PROVE  PlanInv'
  <1>1. SUFFICES ASSUME regular'
                 PROVE  \E T : /\ \A e \in Devices : Pending(rows'[e], inbox'[e], T)
                               /\ \A l \in Lists : ListPlanned(T, l, plan'[l])
    BY DEF PlanInv, PlanKept
  <1>2. PICK T : \A e \in Devices : Pending(rows'[e], inbox'[e], T)
    BY <1>1 DEF ItemsInv, Whole
  <1>3. PICK v, p : v = rows'[d] /\ p = plan'
    OBVIOUS
  <1>4. \A i : Same(v, T, i)
    <2>1. Pending(v, <<>>, T)
      BY <1>2, <1>3
    <2> QED
      BY <2>1, NothingPending
  <1>5. \A l \in Lists : ListPlanned(T, l, p[l])
    <2>1. \A l \in Lists : ListPlanned(v, l, p[l])
      BY <1>3
    <2> QED
      BY <1>4, <2>1, SamePlanned
  <1> QED
    BY <1>2, <1>3, <1>5

\* An operation of a user whose device is settled leaves the chains he wants.
LEMMA PlanOperated ==
    ASSUME PlanInv, ItemsInv', NEW d \in Devices, NEW new, NEW s, NEW wanted, Operation(d, new, s, wanted),
           Settled(d) => \A l \in Lists : Chained(ListLinks(new, l), Over(wanted, plan)[l])
    PROVE  PlanInv'
  <1>1. regular /\ regular' = (regular /\ Settled(d))
    BY DEF Operation
  <1>2. CASE ~ Settled(d)
    BY <1>1, <1>2 DEF PlanInv, PlanKept
  <1>3. CASE Settled(d)
    <2>1. inbox[d] = <<>>
      BY <1>3 DEF Settled
    <2>2. Lists \subseteq DOMAIN plan
      BY <1>1, <2>1, PlannedThere
    <2>3. plan' = Over(wanted, plan)
      BY <1>1, <1>3 DEF Operation
    <2>4. inbox'[d] = <<>>
      BY <2>1 DEF Operation
    <2>5. rows'[d] = new
      BY DEF Operation, PlanInv, ItemsInv, ItemsTyped
    <2>6. Lists \subseteq DOMAIN plan'
      BY <2>2, <2>3 DEF Over
    <2>7. \A l \in Lists : ListPlanned(rows'[d], l, plan'[l])
      BY <1>3, <2>3, <2>5 DEF ListPlanned
    <2> QED
      BY <2>4, <2>6, <2>7, PlanFrom
  <1> QED
    BY <1>2, <1>3

LEMMA PlanReceive ==
    ASSUME PlanInv, NEW d \in Devices, Receive(d) PROVE PlanInv'
  <1>1. ItemsInv'
    BY ItemsReceive DEF PlanInv
  <1>2. SUFFICES ASSUME regular PROVE PlanKept'
    BY <1>1 DEF PlanInv, PlanKept, Receive
  <1>3. PICK T : /\ \A e \in Devices : Pending(rows[e], inbox[e], T)
                 /\ \A l \in Lists : ListPlanned(T, l, plan[l])
    BY <1>2 DEF PlanInv, PlanKept
  <1>4. \A e \in Devices : Pending(rows'[e], inbox'[e], T)
    <2>1. PICK r, v : r = Tail(inbox[d]) /\ v = Merge(rows[d], Head(inbox[d]))
      OBVIOUS
    <2>2. inbox[d] # <<>> /\ rows' = [rows EXCEPT ![d] = v] /\ inbox' = [inbox EXCEPT ![d] = r]
      BY <2>1 DEF Receive
    <2>3. /\ rows = [e \in Devices |-> rows[e]] /\ inbox = [e \in Devices |-> inbox[e]]
          /\ now \in Nat /\ TableOK(rows[d], now, born) /\ MsgsOK(inbox[d], now, born)
      BY DEF PlanInv, ItemsInv, ItemsTyped
    <2>4. Pending(v, r, T)
      BY <1>3, <2>1, <2>2, <2>3, PendingHead
    <2>5. rows'[d] = v /\ inbox'[d] = r
      BY <2>2, <2>3
    <2>6. \A e \in Devices : e # d => rows'[e] = rows[e] /\ inbox'[e] = inbox[e]
      BY <2>2, <2>3
    <2> QED
      BY <1>3, <2>4, <2>5, <2>6
  <1> QED
    BY <1>2, <1>3, <1>4 DEF PlanInv, PlanKept, Receive

LEMMA PlanRefresh ==
    ASSUME PlanInv, NEW d \in Devices, Refresh(d) PROVE PlanInv'
  <1>1. ItemsInv'
    BY ItemsRefresh DEF PlanInv
  <1>2. PlanKept'
    BY DEF PlanInv, PlanKept, Refresh
  <1> QED
    BY <1>1, <1>2 DEF PlanInv

LEMMA PlanSame ==
    ASSUME PlanInv, UNCHANGED <<rows, seen, inbox, now, born, regular, plan>> PROVE PlanInv'
  BY ItemsSame DEF PlanInv, PlanKept

-----------------------------------------------------------------------------
(* What the user of a settled device sees.                                 *)

\* What s follows if it comes last.
LEMMA TailIs ==
    ASSUME NEW f, NEW s, Chained(f, s)
    PROVE  Tail_(s) \in DOMAIN f \union {Top}
  <1>1. Len(s) \in Nat /\ s \in Seq(DOMAIN f) /\ \A n \in 1 .. Len(s) : s[n] \in DOMAIN f
    BY ChainedIs DEF Chained
  <1>2. CASE s = <<>>
    BY <1>2 DEF Tail_
  <1>3. CASE s # <<>>
    <2>1. Last(s) = s[Len(s)] /\ Len(s) \in 1 .. Len(s)
      BY <1>1, <1>3 DEF Last
    <2> QED
      BY <1>1, <1>3, <2>1 DEF Tail_
  <1> QED
    BY <1>2, <1>3

LEMMA SettledSees ==
    ASSUME PlanInv, regular, Careful, NEW d \in Devices, Settled(d)
    PROVE  /\ seen[d] = rows[d] /\ inbox[d] = <<>> /\ Lists \subseteq DOMAIN plan
           /\ now \in Nat /\ TableOK(rows[d], now, born) /\ born \subseteq Ids
           /\ \A i \in DOMAIN rows[d] : rows[d][i].current
           /\ \A l \in Lists :
                 /\ Chained(ListLinks(rows[d], l), plan[l])
                 /\ Shown(d, l) = plan[l]
                 /\ ResolveChain(ListOf(rows[d], l)) = plan[l]
                 /\ InlineAfter(d, l) \in InList(rows[d], l) \union {Top}
  <1>1. /\ seen[d] = rows[d] /\ inbox[d] = <<>> /\ \A i \in DOMAIN rows[d] : rows[d][i].current
        /\ \A l \in DOMAIN inline[d] : inline[d][l] \in InList(rows[d], l) \union {Top}
    BY DEF Settled
  <1>2. now \in Nat /\ TableOK(rows[d], now, born) /\ born \subseteq Ids
    BY DEF PlanInv, ItemsInv, ItemsTyped
  <1>3. Lists \subseteq DOMAIN plan
    BY <1>1, PlannedThere
  <1>4. ASSUME NEW l \in Lists
        PROVE  /\ Chained(ListLinks(rows[d], l), plan[l])
               /\ Shown(d, l) = plan[l]
               /\ ResolveChain(ListOf(rows[d], l)) = plan[l]
               /\ InlineAfter(d, l) \in InList(rows[d], l) \union {Top}
    <2>1. ListPlanned(rows[d], l, plan[l])
      BY <1>1, PlannedThere
    <2>2. \A i \in InList(rows[d], l) : rows[d][i].current
      BY <1>1 DEF InList
    <2>3. Chained(ListLinks(rows[d], l), plan[l])
      BY <2>1, <2>2 DEF ListPlanned
    <2>4. ResolveChain(ListOf(rows[d], l)) = plan[l]
      BY <1>2, <2>1, PlannedShown
    <2>5. Shown(d, l) = plan[l]
      BY <1>1, <2>4 DEF Shown
    <2>6. Tail_(plan[l]) \in InList(rows[d], l) \union {Top}
      <3>1. DOMAIN ListLinks(rows[d], l) = InList(rows[d], l)
        BY DEF ListLinks
      <3> QED
        BY <2>3, <3>1, TailIs
    <2> QED
      BY <1>1, <2>3, <2>4, <2>5, <2>6 DEF InlineAfter
  <1> QED
    BY <1>1, <1>2, <1>3, <1>4

\* s with x behind a.
LEMMA Displayed ==
    ASSUME NEW f, NEW s, Chained(f, s), NEW a \in DOMAIN f \union {Top}, NEW x, x \notin DOMAIN f, x # Top
    PROVE  /\ a = Top => Chained(PutLinks(f, a, x), <<x>> \o s)
           /\ a # Top => Contains(s, a) /\ Chained(PutLinks(f, a, x), InsertAt(s, IndexIn(s, a) + 1, x))
  <1>1. /\ Len(s) \in Nat /\ s \in Seq(DOMAIN f) /\ IsInjective(s) /\ DOMAIN s = 1 .. Len(s)
        /\ \A i \in DOMAIN f : \E n \in 1 .. Len(s) : s[n] = i
    BY ChainedIs DEF Chained
  <1>2. ASSUME a = Top PROVE Chained(PutLinks(f, a, x), <<x>> \o s)
    <2>1. 1 \in 1 .. Len(s) + 1 /\ Before(s, 1) = a
      BY <1>1, <1>2 DEF Before
    <2>2. Chained(PutLinks(f, a, x), InsertAt(s, 1, x))
      BY <2>1, InsertedChain
    <2>3. InsertAt(s, 1, x) = SubSeq(s, 1, 1 - 1) \o <<x>> \o SubSeq(s, 1, Len(s))
      BY DEF InsertAt
    <2>4. SubSeq(s, 1, 1 - 1) = <<>> /\ SubSeq(s, 1, Len(s)) = s
      BY <1>1
    <2>5. <<>> \o <<x>> = <<x>>
      OBVIOUS
    <2> QED
      BY <2>2, <2>3, <2>4, <2>5
  <1>3. ASSUME a # Top
        PROVE  Contains(s, a) /\ Chained(PutLinks(f, a, x), InsertAt(s, IndexIn(s, a) + 1, x))
    <2>1. PICK k \in 1 .. Len(s) : s[k] = a
      BY <1>1, <1>3
    <2>2. IndexIn(s, s[k]) = k
      BY <1>1, IndexIs
    <2>3. k + 1 \in 1 .. Len(s) + 1 /\ Before(s, k + 1) = a
      BY <1>1, <2>1 DEF Before
    <2>4. Chained(PutLinks(f, a, x), InsertAt(s, k + 1, x))
      BY <2>3, InsertedChain
    <2>5. Contains(s, a)
      BY <1>1, <2>1 DEF Contains
    <2> QED
      BY <2>1, <2>2, <2>4, <2>5
  <1> QED
    BY <1>2, <1>3

\* The rows on the screen, the inline row among them, are a chain.
LEMMA DisplayChain ==
    ASSUME PlanInv, regular, Careful, NEW d \in Devices, Settled(d), NEW l \in Lists
    PROVE  /\ Chained(PutLinks(ListLinks(rows[d], l), InlineAfter(d, l), Inline), DisplayItems(d, l))
           /\ InlineAfter(d, l) \in InList(rows[d], l) \union {Top}
           /\ Inline \notin InList(rows[d], l) /\ Inline # Top
  <1>1. /\ Chained(ListLinks(rows[d], l), plan[l]) /\ Shown(d, l) = plan[l]
        /\ InlineAfter(d, l) \in InList(rows[d], l) \union {Top}
        /\ TableOK(rows[d], now, born) /\ born \subseteq Ids
    BY SettledSees
  <1>2. Inline \notin InList(rows[d], l) /\ Inline # Top
    BY <1>1, ItemsAssumption DEF TableOK, InList
  <1>3. DOMAIN ListLinks(rows[d], l) = InList(rows[d], l)
    BY DEF ListLinks
  <1>4. PICK a, s, f : a = InlineAfter(d, l) /\ s = Shown(d, l) /\ f = ListLinks(rows[d], l)
    OBVIOUS
  <1>5. /\ a = Top => Chained(PutLinks(f, a, Inline), <<Inline>> \o s)
        /\ a # Top => Contains(s, a) /\ Chained(PutLinks(f, a, Inline), InsertAt(s, IndexIn(s, a) + 1, Inline))
    BY <1>1, <1>2, <1>3, <1>4, Displayed
  <1>6. Chained(PutLinks(f, a, Inline), DisplayItems(d, l))
    BY <1>4, <1>5 DEF DisplayItems
  <1> QED
    BY <1>1, <1>2, <1>4, <1>6

\* x is dropped as the nth row of r, which has the inline row.
LEMMA DroppedChain ==
    ASSUME NEW g, NEW r, Chained(g, r), Inline \in DOMAIN g, NEW x, x \notin DOMAIN g, x # Top,
           NEW n \in 1 .. Len(r) + 1, NEW d, NEW l
    PROVE  \E b \in DOMAIN g \union {Top} :
              /\ Chained(CutLinks(PutLinks(g, b, x), Inline), Items(InsertAt(r, n, x)))
              /\ DropAfter(d, l, InsertAt(r, n, x), n) = IF b = Inline THEN InlineAfter(d, l) ELSE b
  <1> DEFINE b == Before(r, n)
             h == PutLinks(g, b, x)
  <1>1. PICK p : p = InsertAt(r, n, x)
    OBVIOUS
  <1>2. /\ Len(r) \in Nat /\ r \in Seq(DOMAIN g) /\ IsInjective(r)
        /\ \A m \in 1 .. Len(r) : r[m] \in DOMAIN g
    BY ChainedIs DEF Chained
  <1>3. Chained(h, p)
    BY <1>1, InsertedChain
  <1>4. Inline \in DOMAIN h
    BY DEF PutLinks
  <1>5. Chained(CutLinks(h, Inline), Items(p))
    BY <1>3, <1>4, LeftOutChain DEF Items
  <1>6. n # 1 => n - 1 \in 1 .. Len(r)
    BY <1>2
  <1>7. b \in DOMAIN g \union {Top}
    BY <1>2, <1>6 DEF Before
  <1>8. n # 1 => p[n - 1] = r[n - 1]
    <2>1. PICK k : k = n - 1
      OBVIOUS
    <2>2. k \in 0 .. Len(r) /\ n = k + 1
      BY <1>2, <2>1
    <2>3. Grown(Put(r, k, x), r, k, x, DOMAIN g) /\ InsertAt(r, k + 1, x) = Put(r, k, x)
      BY <1>2, <2>2, PutIs
    <2>4. \A m \in 1 .. k : p[m] = r[m]
      BY <1>1, <2>2, <2>3 DEF Grown
    <2> QED
      BY <2>1, <2>2, <2>4
  <1>9. Top # Inline
    BY ItemsAssumption
  <1>10. DropAfter(d, l, p, n) = IF b = Inline THEN InlineAfter(d, l) ELSE b
    BY <1>8, <1>9 DEF DropAfter, Before
  <1> QED
    BY <1>1, <1>5, <1>7, <1>10

-----------------------------------------------------------------------------
(* Links, worked out.                                                      *)

\* x is taken from among the rows and put behind b; the inline row, which stood
\* behind a, is not an item.
LEMMA ReorderLinks ==
    ASSUME NEW f, \A i, j \in DOMAIN f : f[i] = f[j] => i = j,
           \A i \in DOMAIN f : f[i] # i /\ f[i] \in DOMAIN f \union {Top},
           Top \notin DOMAIN f, Inline \notin DOMAIN f, Inline # Top,
           NEW a \in DOMAIN f \union {Top}, NEW x \in DOMAIN f,
           NEW b \in (DOMAIN f \ {x}) \union {Inline, Top},
           NEW after, after = (IF b = Inline THEN a ELSE b), after # x
    PROVE  CutLinks(PutLinks(CutLinks(PutLinks(f, a, Inline), x), b, x), Inline)
              = PutLinks(CutLinks(f, x), after, x)
  <1> DEFINE D == DOMAIN f
  <1>1. PICK f1 : f1 = PutLinks(f, a, Inline)
    OBVIOUS
  <1>2. PICK f2 : f2 = CutLinks(f1, x)
    OBVIOUS
  <1>3. PICK f3 : f3 = PutLinks(f2, b, x)
    OBVIOUS
  <1>4. PICK f4 : f4 = CutLinks(f3, Inline)
    OBVIOUS
  <1>5. PICK c : c = CutLinks(f, x)
    OBVIOUS
  <1>6. PICK g : g = PutLinks(c, after, x)
    OBVIOUS
  <1>7. /\ DOMAIN f1 = D \union {Inline} /\ f1[Inline] = a
        /\ \A i \in D : f1[i] = IF f[i] = a THEN Inline ELSE f[i]
    BY <1>1 DEF PutLinks
  <1>8. /\ DOMAIN f2 = (D \ {x}) \union {Inline}
        /\ \A i \in (D \ {x}) \union {Inline} : f2[i] = IF f1[i] = x THEN f1[x] ELSE f1[i]
    BY <1>2, <1>7 DEF CutLinks
  <1>9. /\ DOMAIN f3 = D \union {Inline} /\ f3[x] = b
        /\ \A i \in (D \ {x}) \union {Inline} : f3[i] = IF f2[i] = b THEN x ELSE f2[i]
    BY <1>3, <1>8 DEF PutLinks
  <1>10. /\ DOMAIN f4 = D /\ \A i \in D : f4[i] = IF f3[i] = Inline THEN f3[Inline] ELSE f3[i]
         /\ f4 = [i \in D |-> f4[i]]
    BY <1>4, <1>9 DEF CutLinks
  <1>11. /\ DOMAIN c = D \ {x} /\ \A i \in D \ {x} : c[i] = IF f[i] = x THEN f[x] ELSE f[i]
    BY <1>5 DEF CutLinks
  <1>12. /\ DOMAIN g = D /\ g[x] = after /\ \A i \in D \ {x} : g[i] = IF c[i] = after THEN x ELSE c[i]
         /\ g = [i \in D |-> g[i]]
    BY <1>6, <1>11 DEF PutLinks
  <1> HIDE DEF D
  <1>13. ASSUME NEW i \in D PROVE f4[i] = g[i]
    <2>1. CASE i = x
      BY <1>7, <1>8, <1>9, <1>10, <1>12, <2>1 DEF D
    <2>2. CASE i # x /\ b = Inline
      BY <1>7, <1>8, <1>9, <1>10, <1>11, <1>12, <2>2 DEF D
    <2>3. CASE i # x /\ b # Inline
      BY <1>7, <1>8, <1>9, <1>10, <1>11, <1>12, <2>3 DEF D
    <2> QED
      BY <2>1, <2>2, <2>3
  <1>14. f4 = g
    BY <1>10, <1>12, <1>13
  <1> QED
    BY <1>1, <1>2, <1>3, <1>4, <1>5, <1>6, <1>14

\* The same of an item of another list.
LEMMA CrossLinks ==
    ASSUME NEW f, \A i \in DOMAIN f : f[i] \in DOMAIN f \union {Top},
           Top \notin DOMAIN f, Inline \notin DOMAIN f, Inline # Top,
           NEW a \in DOMAIN f \union {Top}, NEW x, x \notin DOMAIN f, x # Inline, x # Top,
           NEW b \in DOMAIN f \union {Inline, Top},
           NEW after, after = IF b = Inline THEN a ELSE b
    PROVE  CutLinks(PutLinks(PutLinks(f, a, Inline), b, x), Inline) = PutLinks(f, after, x)
  <1> DEFINE D == DOMAIN f
  <1>1. PICK f1 : f1 = PutLinks(f, a, Inline)
    OBVIOUS
  <1>2. PICK f2 : f2 = PutLinks(f1, b, x)
    OBVIOUS
  <1>3. PICK f3 : f3 = CutLinks(f2, Inline)
    OBVIOUS
  <1>4. PICK g : g = PutLinks(f, after, x)
    OBVIOUS
  <1>5. /\ DOMAIN f1 = D \union {Inline} /\ f1[Inline] = a
        /\ \A i \in D : f1[i] = IF f[i] = a THEN Inline ELSE f[i]
    BY <1>1 DEF PutLinks
  <1>6. /\ DOMAIN f2 = D \union {Inline, x} /\ f2[x] = b
        /\ \A i \in D \union {Inline} : f2[i] = IF f1[i] = b THEN x ELSE f1[i]
    BY <1>2, <1>5 DEF PutLinks
  <1>7. /\ DOMAIN f3 = D \union {x}
        /\ \A i \in D \union {x} : f3[i] = IF f2[i] = Inline THEN f2[Inline] ELSE f2[i]
        /\ f3 = [i \in D \union {x} |-> f3[i]]
    BY <1>3, <1>6 DEF CutLinks
  <1>8. /\ DOMAIN g = D \union {x} /\ g[x] = after
        /\ \A i \in D : g[i] = IF f[i] = after THEN x ELSE f[i]
        /\ g = [i \in D \union {x} |-> g[i]]
    BY <1>4 DEF PutLinks
  <1> HIDE DEF D
  <1>9. ASSUME NEW i \in D \union {x} PROVE f3[i] = g[i]
    <2>1. CASE i = x
      BY <1>5, <1>6, <1>7, <1>8, <2>1 DEF D
    <2>2. CASE i # x /\ b = Inline
      BY <1>5, <1>6, <1>7, <1>8, <2>2 DEF D
    <2>3. CASE i # x /\ b # Inline
      BY <1>5, <1>6, <1>7, <1>8, <2>3 DEF D
    <2> QED
      BY <2>1, <2>2, <2>3
  <1>10. f3 = g
    BY <1>7, <1>8, <1>9
  <1> QED
    BY <1>1, <1>2, <1>3, <1>4, <1>10

-----------------------------------------------------------------------------
(* Rows and patches of a table whose lists are chains.                     *)

LEMMA LeastOne ==
    ASSUME NEW S, S \subseteq Int, \A x, y \in S : x = y PROVE Least(S) = S
  <1>1. CASE S = {}
    BY <1>1 DEF Least
  <1>2. CASE S # {}
    <2>1. PICK x \in S : S = {x}
      BY <1>2
    <2>2. \E y \in S : \A z \in S : y <= z
      BY <2>1
    <2>3. Min(S) \in S
      BY <2>2 DEF Min
    <2> QED
      BY <1>2, <2>1, <2>3 DEF Least
  <1> QED
    BY <1>1, <1>2

LEMMA FirstOne ==
    ASSUME NEW X, NEW s \in Seq(X), NEW S, S \subseteq ToSet(s), \A x, y \in S : x = y
    PROVE  First(s, S) = S
  <1>1. CASE S = {}
    <2>1. {n \in DOMAIN s : s[n] \in S} = {}
      BY <1>1
    <2> QED
      BY <1>1, <2>1 DEF First
  <1>2. CASE S # {}
    <2>1. First(s, S) \subseteq S
      BY FirstIs
    <2>2. {n \in DOMAIN s : s[n] \in S} # {}
      BY <1>2 DEF ToSet
    <2>3. First(s, S) # {}
      BY <2>2 DEF First
    <2> QED
      BY <1>2, <2>1, <2>3
  <1> QED
    BY <1>1, <1>2

LEMMA ChainRows ==
    ASSUME NEW at, NEW B, NEW t, TableOK(t, at, B), B \subseteq Ids, NEW l, NEW s, Chained(ListLinks(t, l), s)
    PROVE  /\ DOMAIN ListLinks(t, l) = InList(t, l) /\ InList(t, l) \subseteq DOMAIN t
           /\ \A i \in InList(t, l) : /\ ListLinks(t, l)[i] = t[i].after /\ Follows(t[i]) = t[i].after
                                      /\ t[i].after \in InList(t, l) \union {Top} /\ t[i].after # i
                                      /\ t[i].list = l
           /\ \A i, j \in InList(t, l) : t[i].after = t[j].after => i = j
  <1>1. /\ DOMAIN ListLinks(t, l) = InList(t, l) /\ InList(t, l) \subseteq DOMAIN t
        /\ \A i \in InList(t, l) : ListLinks(t, l)[i] = t[i].after /\ t[i].list = l
    BY DEF ListLinks, InList
  <1>2. PICK f : f = ListLinks(t, l)
    OBVIOUS
  <1>3. /\ \A i \in DOMAIN f : f[i] # i /\ f[i] \in DOMAIN f \union {Top}
        /\ \A i, j \in DOMAIN f : f[i] = f[j] => i = j
    BY <1>2, ChainedIs
  <1>4. Absent \notin InList(t, l) \union {Top}
    BY <1>1, ItemsAssumption DEF TableOK
  <1> QED
    BY <1>1, <1>2, <1>3, <1>4 DEF Follows

LEMMA LinksAre ==
    ASSUME NEW t, NEW l, NEW g, g = [i \in DOMAIN g |-> g[i]], InList(t, l) = DOMAIN g,
           \A i \in DOMAIN g : t[i].after = g[i]
    PROVE  ListLinks(t, l) = g
  BY DEF ListLinks

LEMMA LinksStay ==
    ASSUME NEW t, NEW u, NEW l, InList(u, l) = InList(t, l), \A i \in InList(t, l) : u[i].after = t[i].after
    PROVE  ListLinks(u, l) = ListLinks(t, l)
  BY DEF ListLinks

LEMMA PatchedRows ==
    ASSUME NEW at, NEW B, NEW t, TableOK(t, at, B), NEW p, NEW au
    PROVE  /\ DOMAIN Patched(t, p, au) = DOMAIN t
           /\ \A i \in DOMAIN t : /\ Patched(t, p, au)[i].list = t[i].list
                                  /\ Patched(t, p, au)[i].after = IF i \in DOMAIN p THEN p[i] ELSE t[i].after
           /\ \A l : InList(Patched(t, p, au), l) = InList(t, l)
  <1>1. PICK v : v = Patched(t, p, au)
    OBVIOUS
  <1>2. DOMAIN v = DOMAIN t
    BY <1>1 DEF Patched
  <1>3. \A i \in DOMAIN t :
           v[i] = IF i \in DOMAIN p THEN [t[i] EXCEPT !.after = p[i], !.updated_at = au] ELSE t[i]
    BY <1>1 DEF Patched
  <1>4. ASSUME NEW i \in DOMAIN t
        PROVE  v[i].list = t[i].list /\ v[i].after = IF i \in DOMAIN p THEN p[i] ELSE t[i].after
    <2>1. DOMAIN t[i] = RowFields
      BY DEF TableOK, RowOK
    <2> QED
      BY <1>3, <2>1 DEF RowFields
  <1>5. \A l : InList(v, l) = InList(t, l)
    BY <1>2, <1>4 DEF InList
  <1> QED
    BY <1>1, <1>2, <1>4, <1>5

-----------------------------------------------------------------------------
(* A new item takes the place of the inline row.                           *)

RenameLinks(f, y, x) ==
    [i \in (DOMAIN f \ {y}) \union {x} |->
        IF i = x THEN f[y] ELSE IF f[i] = y THEN x ELSE f[i]]

LEMMA ReplacedChain ==
    ASSUME NEW f, NEW s, Chained(f, s), NEW y \in DOMAIN f, NEW x, x \notin DOMAIN f, x # Top
    PROVE  Chained(RenameLinks(f, y, x), ReplaceAt(s, IndexIn(s, y), x))
  <1> DEFINE N == Len(s)
             g == RenameLinks(f, y, x)
             D == (DOMAIN f \ {y}) \union {x}
  <1>1. /\ N \in Nat /\ DOMAIN s = 1 .. N /\ s \in Seq(DOMAIN f) /\ IsInjective(s) /\ Top \notin DOMAIN f
        /\ s = [n \in 1 .. N |-> s[n]]
    BY ChainedIs DEF Chained
  <1>2. PICK k \in 1 .. N : s[k] = y
    BY ChainedIs
  <1>3. IndexIn(s, y) = k
    BY <1>1, <1>2, IndexIs
  <1>4. /\ \A n \in 1 .. N : s[n] \in DOMAIN f /\ f[s[n]] = Before(s, n)
        /\ \A m, n \in 1 .. N : s[m] = s[n] => m = n
    <2>1. \A n \in 1 .. N : f[s[n]] = Before(s, n)
      BY DEF Chained
    <2> QED
      BY <2>1, ChainedIs
  <1>5. \A i \in DOMAIN f : \E n \in 1 .. N : s[n] = i
    BY ChainedIs
  <1>6. \A i \in DOMAIN f : f[i] # i
    BY ChainedIs
  <1>7. PICK p : p = ReplaceAt(s, IndexIn(s, y), x)
    OBVIOUS
  <1> HIDE DEF N
  <1>8. p = [n \in 1 .. N |-> IF n = k THEN x ELSE s[n]]
    BY <1>1, <1>3, <1>7 DEF ReplaceAt
  <1>9. DOMAIN p = 1 .. N /\ \A n \in 1 .. N : p[n] = IF n = k THEN x ELSE s[n]
    BY <1>8
  <1>10. /\ DOMAIN g = D /\ g[x] = f[y]
         /\ \A i \in DOMAIN f \ {y} : g[i] = IF f[i] = y THEN x ELSE f[i]
    BY DEF RenameLinks
  <1> HIDE DEF g
  <1>11. \A n \in 1 .. N : p[n] \in D
    BY <1>2, <1>4, <1>9
  <1>12. p \in Seq(D) /\ Len(p) = N
    <2>1. p = [n \in 1 .. N |-> p[n]]
      BY <1>8, <1>9
    <2> QED
      BY <1>1, <1>11, <2>1
  <1>13. ToSet(p) = D
    <2>1. ASSUME NEW i \in D PROVE \E n \in 1 .. N : p[n] = i
      <3>1. CASE i = x
        BY <1>2, <1>9, <3>1
      <3>2. CASE i # x
        <4>1. PICK n \in 1 .. N : s[n] = i
          BY <1>5, <3>2
        <4>2. n # k
          BY <1>2, <3>2, <4>1
        <4> QED
          BY <1>9, <4>1, <4>2
      <3> QED
        BY <3>1, <3>2
    <2> QED
      BY <1>9, <1>11, <2>1 DEF ToSet
  <1>14. IsInjective(p)
    <2>1. ASSUME NEW m \in 1 .. N, NEW n \in 1 .. N, p[m] = p[n] PROVE m = n
      BY <1>2, <1>4, <1>9, <2>1
    <2> QED
      BY <1>9, <2>1 DEF IsInjective
  <1>15. ASSUME NEW n \in 1 .. N PROVE g[p[n]] = Before(p, n)
    <2>1. n # 1 => n - 1 \in 1 .. N /\ n - 1 # n
      BY <1>1
    <2>2. CASE n = k
      BY <1>2, <1>4, <1>9, <1>10, <2>1, <2>2 DEF Before
    <2>3. CASE n # k
      <3>1. p[n] = s[n] /\ s[n] \in DOMAIN f \ {y}
        BY <1>2, <1>4, <1>9, <2>3
      <3>2. g[p[n]] = IF Before(s, n) = y THEN x ELSE Before(s, n)
        BY <1>4, <1>10, <3>1
      <3>3. CASE n = 1
        BY <1>1, <3>2, <3>3 DEF Before
      <3>4. CASE n # 1
        <4>1. s[n - 1] = y <=> n - 1 = k
          BY <1>2, <1>4, <2>1, <3>4
        <4> QED
          BY <1>9, <2>1, <3>2, <3>4, <4>1 DEF Before
      <3> QED
        BY <3>3, <3>4
    <2> QED
      BY <2>2, <2>3
  <1>16. Top \notin D
    BY <1>1
  <1>17. Chained(g, p)
    BY <1>10, <1>12, <1>13, <1>14, <1>15, <1>16 DEF Chained
  <1> QED
    BY <1>7, <1>17 DEF g

LEMMA RenamedPut ==
    ASSUME NEW f, \A i \in DOMAIN f : f[i] \in DOMAIN f \union {Top}, NEW y, y \notin DOMAIN f, y # Top,
           NEW a \in DOMAIN f \union {Top}, NEW x, x \notin DOMAIN f, x # y
    PROVE  RenameLinks(PutLinks(f, a, y), y, x) = PutLinks(f, a, x)
  <1>1. PICK g : g = PutLinks(f, a, y)
    OBVIOUS
  <1>2. PICK h, k : h = RenameLinks(g, y, x) /\ k = PutLinks(f, a, x)
    OBVIOUS
  <1>3. /\ DOMAIN g = DOMAIN f \union {y} /\ g[y] = a
        /\ \A i \in DOMAIN f : g[i] = IF f[i] = a THEN y ELSE f[i]
    BY <1>1 DEF PutLinks
  <1>4. /\ DOMAIN h = DOMAIN f \union {x} /\ h[x] = a
        /\ \A i \in DOMAIN f : h[i] = IF g[i] = y THEN x ELSE g[i]
        /\ h = [i \in DOMAIN f \union {x} |-> h[i]]
    BY <1>2, <1>3 DEF RenameLinks
  <1>5. /\ DOMAIN k = DOMAIN f \union {x} /\ k[x] = a
        /\ \A i \in DOMAIN f : k[i] = IF f[i] = a THEN x ELSE f[i]
        /\ k = [i \in DOMAIN f \union {x} |-> k[i]]
    BY <1>2 DEF PutLinks
  <1>6. \A i \in DOMAIN f \union {x} : h[i] = k[i]
    BY <1>3, <1>4, <1>5
  <1> QED
    BY <1>1, <1>2, <1>4, <1>5, <1>6

-----------------------------------------------------------------------------
(* One lemma per operation: it leaves the chains its user wants.           *)

\* A plan that speaks of list l.
LEMMA WantedIs ==
    ASSUME NEW l, NEW s, NEW p
    PROVE  Over(Only(l, s), p)[l] = s /\ \A m \in DOMAIN p : m # l => Over(Only(l, s), p)[m] = p[m]
  BY DEF Over, Only

LEMMA AddPlanned ==
    ASSUME PlanInv, Careful, NEW d \in Devices, NEW l \in Lists, NEW i \in Ids \ born, AddItem(d, l, i)
    PROVE  PlanInv'
  <1>1. PICK a : a = InlineAfter(d, l)
    OBVIOUS
  <1>2. PICK patch : patch = ChainInsert(ListOf(rows[d], l), a, i)
    OBVIOUS
  <1>3. PICK t, v, new : /\ t = rows[d] /\ v = Patched(t, patch, now + 1)
                         /\ new = Over(Only(i, NewRow(l, a)), v)
    OBVIOUS
  <1>4. PICK msgs : msgs = <<RowMsg(i, new[i])>> \o RowMsgs(new, DOMAIN patch)
    OBVIOUS
  <1>5. PICK q : q = ReplaceAt(DisplayItems(d, l), IndexIn(DisplayItems(d, l), Inline), i)
    OBVIOUS
  <1>6. Operation(d, new, msgs, Only(l, Items(q)))
    BY <1>1, <1>2, <1>3, <1>4, <1>5 DEF AddItem
  <1>7. ItemsInv' /\ regular
    BY <1>6, AddTyped DEF PlanInv, Operation
  <1>8. ASSUME Settled(d), NEW m \in Lists
        PROVE  Chained(ListLinks(new, m), Over(Only(l, Items(q)), plan)[m])
    <2>1. /\ TableOK(t, now, born) /\ born \subseteq Ids /\ Lists \subseteq DOMAIN plan
          /\ \A k \in Lists : Chained(ListLinks(t, k), plan[k])
      BY <1>3, <1>7, <1>8, SettledSees
    <2>2. i \notin DOMAIN t /\ i \in Ids /\ i # Top /\ i # Inline
      BY <2>1, ItemsAssumption DEF TableOK
    <2>3. /\ DOMAIN v = DOMAIN t
          /\ \A k \in DOMAIN t : v[k].list = t[k].list /\ v[k].after = IF k \in DOMAIN patch THEN patch[k] ELSE t[k].after
      BY <1>3, <2>1, PatchedRows
    <2>4. /\ DOMAIN new = {i} \union DOMAIN t /\ new[i].list = l /\ new[i].after = a
          /\ \A k \in DOMAIN t : new[k].list = t[k].list
                                 /\ new[k].after = IF k \in DOMAIN patch THEN patch[k] ELSE t[k].after
      <3>1. PICK r : r = NewRow(l, a)
        OBVIOUS
      <3>2. r.list = l /\ r.after = a
        BY <3>1 DEF NewRow, Row
      <3>3. DOMAIN new = {i} \union DOMAIN t /\ new[i] = r /\ \A k \in DOMAIN t : new[k] = v[k]
        BY <1>3, <2>2, <2>3, <3>1 DEF Over, Only
      <3> QED
        BY <2>3, <3>2, <3>3
    <2>5. PICK f : f = ListLinks(t, l)
      OBVIOUS
    <2>6. /\ DOMAIN f = InList(t, l) /\ InList(t, l) \subseteq DOMAIN t
          /\ \A k \in InList(t, l) : /\ f[k] = t[k].after /\ Follows(t[k]) = t[k].after
                                     /\ t[k].after \in InList(t, l) \union {Top}
          /\ \A k, j \in InList(t, l) : t[k].after = t[j].after => k = j
      BY <2>1, <2>5, ChainRows
    <2>7. DOMAIN patch = {k \in InList(t, l) : f[k] = a} /\ \A k \in DOMAIN patch : patch[k] = i
      <3>1. PICK S : S = {k \in DOMAIN ListOf(t, l) : Follows(ListOf(t, l)[k]) = a}
        OBVIOUS
      <3>2. S = {k \in InList(t, l) : f[k] = a}
        BY <2>6, <3>1, ListOfIs
      <3>3. Least(S) = S
        <4>1. S \subseteq Int
          BY <2>1, <2>6, <3>2, ItemsAssumption DEF TableOK
        <4> QED
          BY <2>6, <3>2, <4>1, LeastOne
      <3>4. patch = PatchOne(Least(S), i)
        BY <1>2, <1>3, <3>1 DEF ChainInsert
      <3> QED
        BY <3>2, <3>3, <3>4 DEF PatchOne
    <2>8. CASE m = l
      <3>1. PICK h : h = PutLinks(f, a, i)
        OBVIOUS
      <3>2. /\ DOMAIN h = DOMAIN f \union {i} /\ h[i] = a /\ h = [k \in DOMAIN h |-> h[k]]
            /\ \A k \in DOMAIN f : k # i => h[k] = IF f[k] = a THEN i ELSE f[k]
        BY <3>1 DEF PutLinks
      <3>3. ListLinks(new, l) = h
        <4>1. InList(new, l) = DOMAIN h
          BY <2>4, <2>6, <3>2 DEF InList
        <4>2. \A k \in DOMAIN h : new[k].after = h[k]
          BY <2>2, <2>4, <2>6, <2>7, <3>2
        <4> QED
          BY <3>2, <4>1, <4>2 DEF ListLinks
      <3>4. /\ Chained(PutLinks(f, a, Inline), DisplayItems(d, l))
            /\ a \in InList(t, l) \union {Top} /\ Inline \notin InList(t, l) /\ Inline # Top
        BY <1>1, <1>3, <1>7, <1>8, <2>5, DisplayChain
      <3>5. PICK g : g = PutLinks(f, a, Inline)
        OBVIOUS
      <3>6. DOMAIN g = DOMAIN f \union {Inline}
        BY <3>5 DEF PutLinks
      <3>7. Chained(RenameLinks(g, Inline, i), q)
        BY <1>5, <2>2, <2>6, <3>4, <3>5, <3>6, ReplacedChain
      <3>8. RenameLinks(g, Inline, i) = h
        BY <2>2, <2>6, <3>1, <3>4, <3>5, RenamedPut
      <3>9. Items(q) = q
        <4>1. Inline \notin DOMAIN h
          BY <2>2, <2>6, <3>2, <3>4
        <4> QED
          BY <3>7, <3>8, <4>1, OtherLeftOut DEF Items
      <3>10. Over(Only(l, Items(q)), plan)[m] = q
        BY <2>8, <3>9, WantedIs
      <3> QED
        BY <2>8, <3>3, <3>7, <3>8, <3>10
    <2>9. CASE m # l
      <3>1. ListLinks(new, m) = ListLinks(t, m)
        <4>1. InList(new, m) = InList(t, m)
          BY <2>2, <2>4, <2>9 DEF InList
        <4>2. \A k \in InList(t, m) : k \in DOMAIN t /\ k \notin InList(t, l)
          BY <2>9 DEF InList
        <4>3. \A k \in InList(t, m) : new[k].after = t[k].after
          BY <2>4, <2>7, <4>2
        <4> QED
          BY <4>1, <4>3, LinksStay
      <3>2. Over(Only(l, Items(q)), plan)[m] = plan[m]
        BY <2>1, <2>9, WantedIs
      <3> QED
        BY <2>1, <3>1, <3>2
    <2> QED
      BY <2>8, <2>9
  <1> QED
    BY <1>6, <1>7, <1>8, PlanOperated

\* h are the links f, and those of the items of u, linked from the end of s on.
Continues(h, f, s, u) ==
    /\ DOMAIN h = DOMAIN f \union ToSet(u) /\ h = [i \in DOMAIN f \union ToSet(u) |-> h[i]]
    /\ \A i \in DOMAIN f : h[i] = f[i]
    /\ \A i \in ToSet(u) : i \notin DOMAIN f => h[i] = Linked(u, Tail_(s))[i]

LEMMA ThenLinked ==
    ASSUME NEW f, NEW s, Top \notin DOMAIN f, NEW X, NEW u \in Seq(X), IsInjective(u), Top \notin X
    PROVE  Continues(ThenLinks(f, s, Linked(u, Top)), f, s, u)
  <1>1. PICK g, k, h : g = Linked(u, Top) /\ k = Linked(u, Tail_(s)) /\ h = ThenLinks(f, s, g)
    OBVIOUS
  <1>2. /\ DOMAIN g = ToSet(u) /\ \A n \in 1 .. Len(u) : g[u[n]] = IF n = 1 THEN Top ELSE u[n - 1]
    BY <1>1, LinkedIs
  <1>3. \A n \in 1 .. Len(u) : k[u[n]] = IF n = 1 THEN Tail_(s) ELSE u[n - 1]
    BY <1>1, LinkedIs
  <1>4. /\ DOMAIN h = DOMAIN f \union ToSet(u) /\ h = [i \in DOMAIN f \union ToSet(u) |-> h[i]]
        /\ \A i \in DOMAIN f : h[i] = f[i]
        /\ \A i \in ToSet(u) : i \notin DOMAIN f => h[i] = IF g[i] = Top THEN Tail_(s) ELSE g[i]
    BY <1>1, <1>2 DEF ThenLinks
  <1>5. ASSUME NEW i \in ToSet(u), i \notin DOMAIN f PROVE h[i] = k[i]
    <2>1. DOMAIN u = 1 .. Len(u) /\ Len(u) \in Nat
      OBVIOUS
    <2>2. PICK n \in 1 .. Len(u) : u[n] = i
      BY <2>1, <1>5 DEF ToSet
    <2>3. CASE n = 1
      BY <1>2, <1>3, <1>4, <1>5, <2>2, <2>3
    <2>4. CASE n # 1
      <3>1. u[n - 1] # Top
        <4>1. n - 1 \in 1 .. Len(u)
          BY <2>1, <2>4
        <4> QED
          BY <4>1
      <3>2. g[i] = u[n - 1] /\ k[i] = u[n - 1]
        BY <1>2, <1>3, <2>2, <2>4
      <3> QED
        BY <1>4, <1>5, <3>1, <3>2
    <2> QED
      BY <2>3, <2>4
  <1> QED
    BY <1>1, <1>4, <1>5 DEF Continues

\* u, linked from the end of s on, makes the chain longer.
LEMMA AppendedChain ==
    ASSUME NEW f, NEW s, Chained(f, s), NEW X, NEW u \in Seq(X), IsInjective(u), Top \notin X,
           DOMAIN f \intersect ToSet(u) = {},
           NEW h, h = [i \in DOMAIN f \union ToSet(u) |-> h[i]], \A i \in DOMAIN f : h[i] = f[i],
           \A i \in ToSet(u) : h[i] = Linked(u, Tail_(s))[i]
    PROVE  Chained(h, s \o u)
  <1>1. PICK g : g = Linked(u, Top)
    OBVIOUS
  <1>2. PICK k : k = ThenLinks(f, s, g)
    OBVIOUS
  <1>3. Chained(g, u) /\ DOMAIN g = ToSet(u)
    BY <1>1, LinkedChain, LinkedIs
  <1>4. Chained(k, s \o u)
    BY <1>2, <1>3, JoinedChain
  <1>5. Top \notin DOMAIN f
    BY DEF Chained
  <1>6. /\ DOMAIN k = DOMAIN f \union ToSet(u) /\ k = [i \in DOMAIN f \union ToSet(u) |-> k[i]]
        /\ \A i \in DOMAIN f : k[i] = f[i]
        /\ \A i \in ToSet(u) : i \notin DOMAIN f => k[i] = Linked(u, Tail_(s))[i]
    <2>1. Continues(k, f, s, u)
      BY <1>1, <1>2, <1>5, ThenLinked
    <2> QED
      BY <2>1 DEF Continues
  <1>7. \A i \in DOMAIN f \union ToSet(u) : h[i] = k[i]
    BY <1>6
  <1>8. h = k
    BY <1>6, <1>7
  <1> QED
    BY <1>4, <1>8

LEMMA BulkPlanned ==
    ASSUME PlanInv, Careful, NEW d \in Devices, NEW l \in Lists, NEW i \in Ids \ born, NEW j \in Ids \ born,
           i # j, BulkCreateItems(d, l, <<i, j>>)
    PROVE  PlanInv'
  <1>1. PICK q, t, links :
           q = <<i, j>> /\ t = rows[d] /\ links = Linked(q, Tail_(ResolveChain(ListOf(t, l))))
    OBVIOUS
  <1>2. PICK g : g = [k \in ToSet(q) |-> NewRow(l, links[k])]
    OBVIOUS
  <1>3. PICK new, msgs : new = Over(g, t) /\ msgs = [n \in DOMAIN q |-> RowMsg(q[n], g[q[n]])]
    OBVIOUS
  <1>4. PICK w : w = Shown(d, l) \o q
    OBVIOUS
  <1>5. Operation(d, new, msgs, Only(l, w))
    <2>1. BulkCreateItems(d, l, q)
      BY <1>1
    <2> DEFINE L == Linked(q, Tail_(ResolveChain(ListOf(rows[d], l))))
               G == [k \in ToSet(q) |-> NewRow(l, L[k])]
    <2>2. Operation(d, Over(G, rows[d]), [n \in DOMAIN q |-> RowMsg(q[n], G[q[n]])], Only(l, Shown(d, l) \o q))
      BY <2>1, Zenon DEF BulkCreateItems
    <2>3. G = g
      BY <1>1, <1>2
    <2> HIDE DEF G
    <2>4. new = Over(G, rows[d]) /\ msgs = [n \in DOMAIN q |-> RowMsg(q[n], G[q[n]])] /\ w = Shown(d, l) \o q
      BY <1>1, <1>3, <1>4, <2>3
    <2> QED
      BY <2>2, <2>4, Zenon
  <1>6. ItemsInv' /\ regular
    BY <1>5, BulkTyped DEF PlanInv, Operation
  <1>7. ASSUME Settled(d), NEW m \in Lists
        PROVE  Chained(ListLinks(new, m), Over(Only(l, w), plan)[m])
    <2>1. /\ TableOK(t, now, born) /\ born \subseteq Ids /\ Lists \subseteq DOMAIN plan
          /\ \A k \in Lists : Chained(ListLinks(t, k), plan[k])
          /\ Shown(d, l) = plan[l] /\ ResolveChain(ListOf(t, l)) = plan[l]
      BY <1>1, <1>6, <1>7, SettledSees
    <2>2. i \notin DOMAIN t /\ j \notin DOMAIN t /\ {i, j} \subseteq Ids /\ Top \notin Ids
      BY <2>1, ItemsAssumption DEF TableOK
    <2>3. q \in Seq(Ids) /\ IsInjective(q) /\ ToSet(q) = {i, j}
      <3>1. q \in Seq(Ids) /\ DOMAIN q = 1 .. 2 /\ q[1] = i /\ q[2] = j
        BY <1>1, <2>2
      <3>2. 1 \in 1 .. 2 /\ 2 \in 1 .. 2 /\ \A n \in 1 .. 2 : n = 1 \/ n = 2
        OBVIOUS
      <3>3. ToSet(q) = {i, j}
        BY <3>1, <3>2 DEF ToSet
      <3>4. IsInjective(q)
        BY <3>1, <3>2 DEF IsInjective
      <3> QED
        BY <3>1, <3>3, <3>4
    <2>4. /\ DOMAIN new = {i, j} \union DOMAIN t
          /\ \A k \in {i, j} : new[k].list = l /\ new[k].after = links[k]
          /\ \A k \in DOMAIN t : new[k] = t[k]
      <3>1. \A k \in {i, j} : g[k].list = l /\ g[k].after = links[k]
        BY <1>2, <2>3 DEF NewRow, Row
      <3>2. DOMAIN g = {i, j}
        BY <1>2, <2>3
      <3>3. DOMAIN new = {i, j} \union DOMAIN t /\ (\A k \in {i, j} : new[k] = g[k]) /\ \A k \in DOMAIN t : new[k] = t[k]
        BY <1>3, <2>2, <3>2 DEF Over
      <3> QED
        BY <3>1, <3>3
    <2>5. CASE m = l
      <3>1. PICK f, s : f = ListLinks(t, l) /\ s = plan[l]
        OBVIOUS
      <3>2. Chained(f, s) /\ DOMAIN f = InList(t, l) /\ \A k \in InList(t, l) : f[k] = t[k].after
        BY <2>1, <3>1 DEF ListLinks
      <3>3. PICK h : h = ListLinks(new, l)
        OBVIOUS
      <3>4. InList(new, l) = InList(t, l) \union {i, j} /\ i \notin InList(t, l) /\ j \notin InList(t, l)
        BY <2>2, <2>4 DEF InList
      <3>5. h = [k \in DOMAIN f \union ToSet(q) |-> h[k]]
        BY <2>3, <3>2, <3>3, <3>4 DEF ListLinks
      <3>6. \A k \in DOMAIN f : h[k] = f[k]
        BY <2>4, <3>2, <3>3, <3>4 DEF ListLinks, InList
      <3>7. \A k \in ToSet(q) : h[k] = Linked(q, Tail_(s))[k]
        BY <1>1, <2>1, <2>3, <2>4, <3>1, <3>3, <3>4 DEF ListLinks
      <3>8. DOMAIN f \intersect ToSet(q) = {}
        BY <2>3, <3>2, <3>4
      <3>9. Chained(h, s \o q)
        BY <2>2, <2>3, <3>2, <3>5, <3>6, <3>7, <3>8, AppendedChain
      <3>10. Over(Only(l, w), plan)[m] = w
        BY <2>5, WantedIs
      <3> QED
        BY <1>4, <2>1, <2>5, <3>1, <3>3, <3>9, <3>10
    <2>6. CASE m # l
      <3>1. InList(new, m) = InList(t, m) /\ InList(t, m) \subseteq DOMAIN t
        BY <2>2, <2>4, <2>6 DEF InList
      <3>2. ListLinks(new, m) = ListLinks(t, m)
        BY <2>4, <3>1, LinksStay
      <3>3. Over(Only(l, w), plan)[m] = plan[m]
        BY <2>1, <2>6, WantedIs
      <3> QED
        BY <2>1, <3>2, <3>3
    <2> QED
      BY <2>5, <2>6
  <1> QED
    BY <1>5, <1>6, <1>7, PlanOperated

\* Where each list is a chain, an item follows one of its own list, or the top,
\* and no two items of a list follow the same.
InChains(t) ==
    /\ \A k \in DOMAIN t : /\ t[k].list \in Lists /\ k \in InList(t, t[k].list)
                           /\ Follows(t[k]) = t[k].after /\ t[k].after # k /\ k # Top
                           /\ t[k].after \in InList(t, t[k].list) \union {Top}
    /\ \A j, k \in DOMAIN t : t[j].list = t[k].list /\ t[j].after = t[k].after => j = k

LEMMA RowsInChains ==
    ASSUME NEW at, NEW B, NEW t, TableOK(t, at, B), B \subseteq Ids, NEW p,
           \A l \in Lists : Chained(ListLinks(t, l), p[l])
    PROVE  InChains(t)
  <1>1. ASSUME NEW k \in DOMAIN t
        PROVE  /\ t[k].list \in Lists /\ k \in InList(t, t[k].list)
               /\ Follows(t[k]) = t[k].after /\ t[k].after # k /\ k # Top
               /\ t[k].after \in InList(t, t[k].list) \union {Top}
               /\ \A j \in DOMAIN t : t[j].list = t[k].list /\ t[j].after = t[k].after => j = k
    <2>1. PICK l : l = t[k].list
      OBVIOUS
    <2>2. l \in Lists /\ k \in Ids
      BY <2>1 DEF TableOK, RowOK
    <2>3. PICK s : s = p[l]
      OBVIOUS
    <2>4. Chained(ListLinks(t, l), s)
      BY <2>2, <2>3
    <2>5. /\ \A i \in InList(t, l) : /\ Follows(t[i]) = t[i].after
                                     /\ t[i].after \in InList(t, l) \union {Top} /\ t[i].after # i
          /\ \A i, j \in InList(t, l) : t[i].after = t[j].after => i = j
      BY <2>4, ChainRows
    <2>6. \A j \in DOMAIN t : t[j].list = l => j \in InList(t, l)
      BY DEF InList
    <2> QED
      BY <2>1, <2>2, <2>5, <2>6, ItemsAssumption
  <1> QED
    BY <1>1 DEF InChains

LEMMA DeletePlanned ==
    ASSUME PlanInv, Careful, NEW d \in Devices, NEW i \in DOMAIN rows[d], DeleteItem(d, i)
    PROVE  PlanInv'
  <1>1. PICK t, patch, l : t = rows[d] /\ patch = ChainDelete(rows[d], i, Follows(rows[d][i])) /\ l = t[i].list
    OBVIOUS
  <1>2. PICK v : v = Patched(t, patch, now + 1)
    OBVIOUS
  <1>3. PICK new : new = Restrict(v, DOMAIN t \ {i})
    OBVIOUS
  <1>4. PICK msgs, w : /\ msgs = Append(RowMsgs(new, DOMAIN patch), GoneMsg(i, now + 1))
                       /\ w = LeavingOut(Shown(d, l), {i})
    OBVIOUS
  <1>5. Operation(d, new, msgs, Only(l, w))
    BY <1>1, <1>2, <1>3, <1>4 DEF DeleteItem
  <1>6. ItemsInv' /\ regular
    BY <1>5, DeleteTyped DEF PlanInv, Operation
  <1>7. ASSUME Settled(d), NEW m \in Lists
        PROVE  Chained(ListLinks(new, m), Over(Only(l, w), plan)[m])
    <2>1. /\ TableOK(t, now, born) /\ born \subseteq Ids /\ Lists \subseteq DOMAIN plan
          /\ \A k \in Lists : Chained(ListLinks(t, k), plan[k]) /\ Shown(d, k) = plan[k]
      BY <1>1, <1>6, <1>7, SettledSees
    <2>2. InChains(t) /\ i \in DOMAIN t
      BY <1>1, <2>1, RowsInChains
    <2>3. DOMAIN patch = {k \in DOMAIN t : t[k].after = i} /\ \A k \in DOMAIN patch : patch[k] = t[i].after
      <3>1. patch = PatchOne({k \in DOMAIN t : Follows(t[k]) = i} \ {i}, Follows(t[i]))
        BY <1>1 DEF ChainDelete
      <3> QED
        BY <2>2, <3>1 DEF PatchOne, InChains
    <2>4. /\ DOMAIN v = DOMAIN t
          /\ \A k \in DOMAIN t : v[k].list = t[k].list /\ v[k].after = IF k \in DOMAIN patch THEN patch[k] ELSE t[k].after
      BY <1>2, <2>1, PatchedRows
    <2>5. /\ DOMAIN new = DOMAIN t \ {i}
          /\ \A k \in DOMAIN t \ {i} : new[k].list = t[k].list
                                       /\ new[k].after = IF t[k].after = i THEN t[i].after ELSE t[k].after
      <3>1. DOMAIN new = DOMAIN t \ {i} /\ \A k \in DOMAIN t \ {i} : new[k] = v[k]
        BY <1>3, <2>4 DEF Restrict
      <3> QED
        BY <2>3, <2>4, <3>1
    <2>6. CASE m = l
      <3>1. PICK f : f = ListLinks(t, l)
        OBVIOUS
      <3>2. DOMAIN f = InList(t, l) /\ \A k \in InList(t, l) : f[k] = t[k].after
        BY <3>1 DEF ListLinks
      <3>3. i \in DOMAIN f
        BY <1>1, <2>2, <3>2 DEF InChains
      <3>4. Chained(CutLinks(f, i), LeavingOut(plan[l], {i}))
        BY <2>1, <2>6, <3>1, <3>3, LeftOutChain
      <3>5. ListLinks(new, l) = CutLinks(f, i)
        <4>1. InList(new, l) = DOMAIN f \ {i}
          BY <2>5, <3>2 DEF InList
        <4>2. \A k \in DOMAIN f \ {i} : new[k].after = IF f[k] = i THEN f[i] ELSE f[k]
          BY <2>5, <3>2, <3>3 DEF InList
        <4> QED
          BY <4>1, <4>2 DEF ListLinks, CutLinks
      <3>6. Over(Only(l, w), plan)[m] = w
        BY <2>6, WantedIs
      <3> QED
        BY <1>4, <2>1, <2>6, <3>4, <3>5, <3>6
    <2>7. CASE m # l
      <3>1. InList(new, m) = InList(t, m) /\ InList(t, m) \subseteq DOMAIN t \ {i}
        BY <1>1, <2>5, <2>7 DEF InList
      <3>2. \A k \in InList(t, m) : t[k].after # i
        <4>1. \A k \in InList(t, m) : t[k].after \in InList(t, m) \union {Top}
          BY <2>2 DEF InChains, InList
        <4> QED
          BY <2>2, <3>1, <4>1 DEF InChains
      <3>3. ListLinks(new, m) = ListLinks(t, m)
        BY <2>5, <3>1, <3>2, LinksStay
      <3>4. Over(Only(l, w), plan)[m] = plan[m]
        BY <2>1, <2>7, WantedIs
      <3> QED
        BY <2>1, <3>3, <3>4
    <2> QED
      BY <2>6, <2>7
  <1> QED
    BY <1>5, <1>6, <1>7, PlanOperated

LEMMA LeftOutLength ==
    ASSUME NEW f, NEW s, Chained(f, s), NEW x \in DOMAIN f
    PROVE  Len(LeavingOut(s, {x})) + 1 = Len(s)
  <1>1. PICK k \in 1 .. Len(s) : s[k] = x
    BY ChainedIs
  <1>2. s \in Seq(DOMAIN f) /\ IsInjective(s) /\ Len(s) \in Nat
    BY ChainedIs DEF Chained
  <1>3. LeavingOut(s, {s[k]}) = Cut(s, k) /\ Shrunk(Cut(s, k), s, k, DOMAIN f)
    BY <1>2, CutIs, CutHas
  <1>4. Len(Cut(s, k)) = Len(s) - 1
    BY <1>3 DEF Shrunk
  <1> QED
    BY <1>1, <1>2, <1>3, <1>4

\* What the patch of a move within the list makes of the links
\* (reorderByAfterId).
LEMMA ReorderPatchIs ==
    ASSUME NEW f, NEW s, Chained(f, s), NEW c, DOMAIN c = DOMAIN f, \A k \in DOMAIN f : c[k].after = f[k],
           NEW x \in DOMAIN f, NEW after, after # f[x],
           NEW p, p = ReorderByAfterId(c, s, x, after)
    PROVE  \A k \in DOMAIN f : (IF k \in DOMAIN p THEN p[k] ELSE f[k]) = PutLinks(CutLinks(f, x), after, x)[k]
  <1>1. /\ \A i, j \in DOMAIN f : f[i] = f[j] => i = j
        /\ \A i \in DOMAIN f : f[i] # i
    BY ChainedIs
  <1>2. s \in Seq(DOMAIN f) /\ ToSet(s) = DOMAIN f
    BY DEF Chained
  <1>3. PICK A, B : A = {i \in DOMAIN c : c[i].after = x} \ {x} /\ B = {i \in DOMAIN c : c[i].after = after} \ {x}
    OBVIOUS
  <1>4. A = {i \in DOMAIN f : f[i] = x} /\ B = {i \in DOMAIN f : f[i] = after}
    BY <1>1, <1>3
  <1>5. First(s, A) = A /\ First(s, B) = B
    BY <1>1, <1>2, <1>4, FirstOne
  <1>6. p = Over(Over(PatchOne({x}, after), PatchOne(A, c[x].after)), PatchOne(B \ A, x))
    BY <1>3, <1>5 DEF ReorderByAfterId
  <1>7. /\ DOMAIN p = {x} \union A \union B
        /\ p[x] = after
        /\ \A k \in A : p[k] = f[x]
        /\ \A k \in B \ A : p[k] = x
    BY <1>1, <1>4, <1>6 DEF Over, PatchOne
  <1>8. PICK h, g : h = PutLinks(g, after, x) /\ g = CutLinks(f, x)
    OBVIOUS
  <1>9. /\ h[x] = after
        /\ \A k \in DOMAIN f \ {x} : h[k] = IF g[k] = after THEN x ELSE g[k]
        /\ \A k \in DOMAIN f \ {x} : g[k] = IF f[k] = x THEN f[x] ELSE f[k]
    BY <1>8 DEF PutLinks, CutLinks
  <1>10. ASSUME NEW k \in DOMAIN f PROVE (IF k \in DOMAIN p THEN p[k] ELSE f[k]) = h[k]
    BY <1>4, <1>7, <1>9
  <1> QED
    BY <1>8, <1>10

LEMMA ReorderPlanned ==
    ASSUME PlanInv, Careful, NEW d \in Devices, NEW l \in Lists, NEW x \in InList(seen[d], l),
           NEW n \in 1 .. Len(DisplayItems(d, l)), Reorder(d, l, x, n)
    PROVE  PlanInv'
  <1>1. PICK p : p = DisplayItems(d, l)
    OBVIOUS
  <1>2. PICK r, u : r = LeavingOut(p, {x}) /\ u = InsertAt(r, n, x)
    OBVIOUS
  <1>3. PICK after : after = DropAfter(d, l, u, n)
    OBVIOUS
  <1>4. PICK t, c : t = rows[d] /\ c = ListOf(seen[d], l)
    OBVIOUS
  <1>5. PICK patch : patch = ReorderByAfterId(c, Shown(d, l), x, after)
    OBVIOUS
  <1>6. PICK new, msgs : /\ new = Patched(t, patch, now + 1)
                         /\ msgs = RowMsgs(Patched(c, patch, now + 1), DOMAIN patch)
    OBVIOUS
  <1>7. PICK w : w = Items(u)
    OBVIOUS
  <1>8. Operation(d, new, msgs, Only(l, w)) /\ after # x /\ patch # NoPatch
    BY <1>1, <1>2, <1>3, <1>4, <1>5, <1>6, <1>7 DEF Reorder, Dropped
  <1>9. ItemsInv' /\ regular
    BY <1>8, ReorderTyped DEF PlanInv, Operation
  <1>10. ASSUME Settled(d), NEW m \in Lists
         PROVE  Chained(ListLinks(new, m), Over(Only(l, w), plan)[m])
    <2>1. /\ TableOK(t, now, born) /\ born \subseteq Ids /\ Lists \subseteq DOMAIN plan /\ seen[d] = t
          /\ \A k \in Lists : Chained(ListLinks(t, k), plan[k]) /\ Shown(d, k) = plan[k]
      BY <1>4, <1>9, <1>10, SettledSees
    <2>2. PICK f, s, a : f = ListLinks(t, l) /\ s = plan[l] /\ a = InlineAfter(d, l)
      OBVIOUS
    <2>3. DOMAIN f = InList(t, l) /\ x \in DOMAIN f /\ \A k \in InList(t, l) : f[k] = t[k].after
      BY <2>1, <2>2 DEF ListLinks
    <2>4. Chained(f, s)
      BY <2>1, <2>2
    <2>5. DOMAIN c = DOMAIN f /\ \A k \in DOMAIN f : c[k] = t[k] /\ c[k].after = f[k]
      BY <1>4, <2>1, <2>3, ListOfIs
    <2>6. patch = ReorderByAfterId(c, s, x, after)
      BY <1>5, <2>1, <2>2
    <2>7. after # f[x]
      <3>1. c[x].after # after
        BY <1>8, <2>3, <2>5, <2>6 DEF ReorderByAfterId
      <3> QED
        BY <2>3, <2>5, <3>1
    <2>8. DOMAIN patch \subseteq DOMAIN f
      <3>1. s \in Seq(DOMAIN f)
        BY <2>4 DEF Chained
      <3> QED
        BY <2>3, <2>5, <2>6, <3>1, ReorderedIs
    <2>9. PICK h : h = PutLinks(CutLinks(f, x), after, x)
      OBVIOUS
    <2>10. \A k \in DOMAIN f : h[k] = IF k \in DOMAIN patch THEN patch[k] ELSE f[k]
      BY <2>3, <2>4, <2>5, <2>6, <2>7, <2>9, ReorderPatchIs
    <2>11. /\ DOMAIN new = DOMAIN t /\ \A k : InList(new, k) = InList(t, k)
           /\ \A k \in DOMAIN t : new[k].after = IF k \in DOMAIN patch THEN patch[k] ELSE t[k].after
      BY <1>6, <2>1, PatchedRows
    <2>12. CASE m = l
      <3>1. ListLinks(new, l) = h
        <4>1. DOMAIN h = DOMAIN f /\ h = [k \in DOMAIN h |-> h[k]]
          BY <2>3, <2>9 DEF PutLinks, CutLinks
        <4>2. \A k \in InList(t, l) : new[k].after = h[k]
          BY <2>3, <2>10, <2>11 DEF InList
        <4> QED
          BY <2>3, <2>11, <4>1, <4>2 DEF ListLinks
      <3>2. Chained(h, w)
        <4>1. /\ Chained(PutLinks(f, a, Inline), p) /\ a \in DOMAIN f \union {Top}
              /\ Inline \notin DOMAIN f /\ Inline # Top
          BY <1>1, <1>4, <1>9, <1>10, <2>2, <2>3, DisplayChain
        <4>2. PICK g1, g2 : g1 = PutLinks(f, a, Inline) /\ g2 = CutLinks(g1, x)
          OBVIOUS
        <4>3. DOMAIN g1 = DOMAIN f \union {Inline}
          BY <4>2 DEF PutLinks
        <4>4. DOMAIN g2 = (DOMAIN f \ {x}) \union {Inline}
          BY <2>3, <4>1, <4>2, <4>3 DEF CutLinks
        <4>5. Chained(g2, r) /\ Len(r) + 1 = Len(p)
          BY <1>2, <2>3, <4>1, <4>2, <4>3, LeftOutChain, LeftOutLength
        <4>6. n \in 1 .. Len(r) + 1
          BY <1>1, <4>5
        <4>7. /\ Top \notin DOMAIN f /\ x # Top
              /\ \A i, j \in DOMAIN f : f[i] = f[j] => i = j
              /\ \A i \in DOMAIN f : f[i] # i /\ f[i] \in DOMAIN f \union {Top}
          <5>1. Top \notin DOMAIN f
            BY <2>4 DEF Chained
          <5> QED
            BY <2>3, <2>4, <5>1, ChainedIs
        <4>8. PICK b \in DOMAIN g2 \union {Top} :
                 /\ Chained(CutLinks(PutLinks(g2, b, x), Inline), w)
                 /\ after = IF b = Inline THEN a ELSE b
          <5>1. Inline \in DOMAIN g2 /\ x \notin DOMAIN g2
            BY <2>3, <4>1, <4>4
          <5>2. \E b \in DOMAIN g2 \union {Top} :
                  /\ Chained(CutLinks(PutLinks(g2, b, x), Inline), Items(InsertAt(r, n, x)))
                  /\ DropAfter(d, l, InsertAt(r, n, x), n) = IF b = Inline THEN InlineAfter(d, l) ELSE b
            BY <4>5, <4>6, <4>7, <5>1, DroppedChain
          <5> QED
            BY <1>2, <1>3, <1>7, <2>2, <5>2
        <4>9. CutLinks(PutLinks(g2, b, x), Inline) = h
          BY <1>8, <2>3, <2>9, <4>1, <4>2, <4>4, <4>7, <4>8, ReorderLinks
        <4> QED
          BY <4>8, <4>9
      <3>3. Over(Only(l, w), plan)[m] = w
        BY <2>12, WantedIs
      <3> QED
        BY <2>12, <3>1, <3>2, <3>3
    <2>13. CASE m # l
      <3>1. \A k \in InList(t, m) : k \in DOMAIN t /\ k \notin DOMAIN patch
        BY <2>3, <2>8, <2>13 DEF InList
      <3>2. ListLinks(new, m) = ListLinks(t, m)
        BY <2>11, <3>1, LinksStay
      <3>3. Over(Only(l, w), plan)[m] = plan[m]
        BY <2>1, <2>13, WantedIs
      <3> QED
        BY <2>1, <3>2, <3>3
    <2> QED
      BY <2>12, <2>13
  <1> QED
    BY <1>8, <1>9, <1>10, PlanOperated

\* The rows v are those of t once the ones of S were moved to list l, linked by
\* links, and the patch p applied.
MovedTo(v, t, S, l, links, p) ==
    /\ DOMAIN v = DOMAIN t
    /\ \A i \in S : v[i].list = l /\ v[i].after = links[i]
    /\ \A i \in DOMAIN t \ S : /\ v[i].list = t[i].list
                               /\ v[i].after = IF i \in DOMAIN p THEN p[i] ELSE t[i].after
    /\ InList(v, l) = InList(t, l) \union S
    /\ \A m : m # l => InList(v, m) = InList(t, m) \ S

LEMMA MovedRows ==
    ASSUME NEW at, NEW B, NEW t, TableOK(t, at, B), NEW S, S \subseteq DOMAIN t, NEW l, NEW links,
           NEW p, S \intersect DOMAIN p = {}, NEW au,
           NEW v, v = Patched(Moved(t, S, l, links), p, au)
    PROVE  MovedTo(v, t, S, l, links, p)
  <1>1. PICK w : w = Moved(t, S, l, links)
    OBVIOUS
  <1>2. /\ DOMAIN w = DOMAIN t
        /\ \A i \in S : w[i] = [t[i] EXCEPT !.list = l, !.after = links[i], !.updated_at = now + 1]
        /\ \A i \in DOMAIN t \ S : w[i] = t[i]
    BY <1>1 DEF Moved
  <1>3. /\ DOMAIN v = DOMAIN t
        /\ \A i \in DOMAIN t : v[i] = IF i \in DOMAIN p THEN [w[i] EXCEPT !.after = p[i], !.updated_at = au]
                                      ELSE w[i]
    BY <1>1, <1>2 DEF Patched
  <1>4. \A i \in DOMAIN t : DOMAIN t[i] = RowFields
    BY DEF TableOK, RowOK
  <1>5. ASSUME NEW i \in S PROVE v[i].list = l /\ v[i].after = links[i]
    <2>1. v[i] = [t[i] EXCEPT !.list = l, !.after = links[i], !.updated_at = now + 1]
      BY <1>2, <1>3
    <2>2. DOMAIN t[i] = RowFields
      BY <1>4
    <2> QED
      BY <2>1, <2>2 DEF RowFields
  <1>6. ASSUME NEW i \in DOMAIN t \ S
        PROVE  v[i].list = t[i].list /\ v[i].after = IF i \in DOMAIN p THEN p[i] ELSE t[i].after
    <2>1. v[i] = IF i \in DOMAIN p THEN [t[i] EXCEPT !.after = p[i], !.updated_at = au] ELSE t[i]
      BY <1>2, <1>3
    <2>2. DOMAIN t[i] = RowFields
      BY <1>4
    <2> QED
      BY <2>1, <2>2 DEF RowFields
  <1>7. InList(v, l) = InList(t, l) \union S
    BY <1>3, <1>5, <1>6 DEF InList
  <1>8. \A m : m # l => InList(v, m) = InList(t, m) \ S
    BY <1>3, <1>5, <1>6 DEF InList
  <1> QED
    BY <1>3, <1>5, <1>6, <1>7, <1>8 DEF MovedTo

\* What the patch of a move between lists makes of the links
\* (computeCrossListMove): f and s are those of the target, e those of the source.
LEMMA CrossPatchIs ==
    ASSUME NEW f, NEW s, Chained(f, s), NEW e, NEW q, Chained(e, q), DOMAIN f \intersect DOMAIN e = {},
           NEW c, DOMAIN c = DOMAIN f, \A k \in DOMAIN f : Follows(c[k]) = f[k],
           NEW b, DOMAIN b = DOMAIN e, \A k \in DOMAIN e : Follows(b[k]) = e[k], DOMAIN e \subseteq Int,
           NEW x \in DOMAIN e, NEW after,
           NEW p, p = CrossListMove(b, c, s, x, e[x], after)
    PROVE  /\ x \notin DOMAIN p /\ DOMAIN p \subseteq DOMAIN f \union DOMAIN e
           /\ \A k \in DOMAIN f : (IF k \in DOMAIN p THEN p[k] ELSE f[k]) = PutLinks(f, after, x)[k]
           /\ \A k \in DOMAIN e \ {x} : (IF k \in DOMAIN p THEN p[k] ELSE e[k]) = CutLinks(e, x)[k]
  <1>1. /\ \A i, j \in DOMAIN f : f[i] = f[j] => i = j
        /\ \A i, j \in DOMAIN e : e[i] = e[j] => i = j
        /\ \A i \in DOMAIN e : e[i] # i
    BY ChainedIs
  <1>2. s \in Seq(DOMAIN f) /\ ToSet(s) = DOMAIN f
    BY DEF Chained
  <1>3. PICK A, B : A = {i \in DOMAIN c : Follows(c[i]) = after} /\ B = {i \in DOMAIN b : Follows(b[i]) = x} \ {x}
    OBVIOUS
  <1>4. A = {i \in DOMAIN f : f[i] = after} /\ B = {i \in DOMAIN e : e[i] = x} /\ x \notin A /\ x \notin B
    BY <1>1, <1>3
  <1>5. First(s, A) = A
    BY <1>1, <1>2, <1>4, FirstOne
  <1>6. Least(B) = B
    BY <1>1, <1>4, LeastOne
  <1>7. p = Over(PatchOne(A, x), PatchOne(B, e[x]))
    BY <1>3, <1>5, <1>6 DEF CrossListMove
  <1>8. DOMAIN p = A \union B /\ (\A k \in A : p[k] = x) /\ \A k \in B : k \notin A => p[k] = e[x]
    BY <1>7 DEF Over, PatchOne
  <1>9. PICK h, g : h = PutLinks(f, after, x) /\ g = CutLinks(e, x)
    OBVIOUS
  <1>10. /\ \A k \in DOMAIN f : h[k] = IF f[k] = after THEN x ELSE f[k]
         /\ \A k \in DOMAIN e \ {x} : g[k] = IF e[k] = x THEN e[x] ELSE e[k]
    BY <1>9 DEF PutLinks, CutLinks
  <1>11. \A k \in DOMAIN f : (IF k \in DOMAIN p THEN p[k] ELSE f[k]) = h[k]
    BY <1>4, <1>8, <1>10
  <1>12. \A k \in DOMAIN e \ {x} : (IF k \in DOMAIN p THEN p[k] ELSE e[k]) = g[k]
    BY <1>4, <1>8, <1>10
  <1> QED
    BY <1>4, <1>8, <1>9, <1>11, <1>12

\* A plan that speaks of two lists.
LEMMA WantedTwo ==
    ASSUME NEW k, NEW l, k # l, NEW u, NEW w, NEW p
    PROVE  /\ Over(Over(Only(k, u), Only(l, w)), p)[k] = u
           /\ Over(Over(Only(k, u), Only(l, w)), p)[l] = w
           /\ \A m \in DOMAIN p : m # k /\ m # l => Over(Over(Only(k, u), Only(l, w)), p)[m] = p[m]
  BY DEF Over, Only

LEMMA CrossMovePlanned ==
    ASSUME PlanInv, Careful, NEW d \in Devices, NEW x \in DOMAIN seen[d], NEW l \in Lists,
           NEW n \in 1 .. Len(DisplayItems(d, l)) + 1, CrossMove(d, x, l, n)
    PROVE  PlanInv'
  <1>1. PICK item, r : item = seen[d][x] /\ r = DisplayItems(d, l)
    OBVIOUS
  <1>2. PICK src, u : src = item.list /\ u = InsertAt(r, n, x)
    OBVIOUS
  <1>3. PICK after : after = DropAfter(d, l, u, n)
    OBVIOUS
  <1>4. PICK link : link = PatchOne({x}, after)
    OBVIOUS
  <1>5. PICK t, c, e : t = rows[d] /\ c = ListOf(seen[d], l) /\ e = ListOf(rows[d], src)
    OBVIOUS
  <1>6. PICK patch : patch = CrossListMove(e, c, Shown(d, l), x, Follows(item), after)
    OBVIOUS
  <1>7. PICK new : new = Patched(Moved(t, {x}, l, link), patch, now + 1)
    OBVIOUS
  <1>8. PICK msgs : msgs = <<RowMsg(x, Moved(seen[d], {x}, l, link)[x])>> \o RowMsgs(new, DOMAIN patch)
    OBVIOUS
  <1>9. PICK w1, w : w1 = LeavingOut(Shown(d, src), {x}) /\ w = Items(u)
    OBVIOUS
  <1>10. Operation(d, new, msgs, Over(Only(src, w1), Only(l, w))) /\ src # l
    BY <1>1, <1>2, <1>3, <1>4, <1>5, <1>6, <1>7, <1>8, <1>9 DEF CrossMove
  <1>11. ItemsInv' /\ regular
    BY <1>10, CrossMoveTyped DEF PlanInv, Operation
  <1>12. ASSUME Settled(d), NEW m \in Lists
         PROVE  Chained(ListLinks(new, m), Over(Over(Only(src, w1), Only(l, w)), plan)[m])
    <2>1. /\ TableOK(t, now, born) /\ born \subseteq Ids /\ Lists \subseteq DOMAIN plan /\ seen[d] = t
          /\ \A k \in Lists : Chained(ListLinks(t, k), plan[k]) /\ Shown(d, k) = plan[k]
      BY <1>5, <1>11, <1>12, SettledSees
    <2>2. InChains(t) /\ x \in DOMAIN t /\ src = t[x].list /\ item = t[x]
      BY <1>1, <1>2, <2>1, RowsInChains
    <2>3. src \in Lists /\ x \in InList(t, src) /\ Follows(t[x]) = t[x].after
      BY <2>2 DEF InChains
    <2>4. PICK f, s, g, q, a : /\ f = ListLinks(t, l) /\ s = plan[l] /\ g = ListLinks(t, src) /\ q = plan[src]
                               /\ a = InlineAfter(d, l)
      OBVIOUS
    <2>5. /\ DOMAIN f = InList(t, l) /\ \A k \in InList(t, l) : f[k] = t[k].after
          /\ DOMAIN g = InList(t, src) /\ \A k \in InList(t, src) : g[k] = t[k].after
      BY <2>4 DEF ListLinks
    <2>6. Chained(f, s) /\ Chained(g, q)
      BY <2>1, <2>3, <2>4
    <2>7. DOMAIN f \intersect DOMAIN g = {}
      BY <1>10, <2>5 DEF InList
    <2>8. DOMAIN c = DOMAIN f /\ \A k \in DOMAIN f : Follows(c[k]) = f[k]
      <3>1. DOMAIN c = InList(t, l) /\ \A k \in InList(t, l) : c[k] = t[k]
        BY <1>5, <2>1, ListOfIs
      <3> QED
        BY <2>2, <2>5, <3>1 DEF InChains, InList
    <2>9. DOMAIN e = DOMAIN g /\ \A k \in DOMAIN g : Follows(e[k]) = g[k]
      <3>1. DOMAIN e = InList(t, src) /\ \A k \in InList(t, src) : e[k] = t[k]
        BY <1>5, <2>1, ListOfIs
      <3> QED
        BY <2>2, <2>5, <3>1 DEF InChains, InList
    <2>10. DOMAIN g \subseteq Int
      BY <2>1, <2>5, ItemsAssumption DEF TableOK, InList
    <2>11. patch = CrossListMove(e, c, s, x, g[x], after)
      BY <1>6, <2>1, <2>2, <2>3, <2>4, <2>5
    <2>12. PICK h, k1 : h = PutLinks(f, after, x) /\ k1 = CutLinks(g, x)
      OBVIOUS
    <2>13. /\ x \notin DOMAIN patch /\ DOMAIN patch \subseteq DOMAIN f \union DOMAIN g
           /\ \A k \in DOMAIN f : (IF k \in DOMAIN patch THEN patch[k] ELSE f[k]) = h[k]
           /\ \A k \in DOMAIN g \ {x} : (IF k \in DOMAIN patch THEN patch[k] ELSE g[k]) = k1[k]
      BY <2>3, <2>5, <2>6, <2>7, <2>8, <2>9, <2>10, <2>11, <2>12, CrossPatchIs
    <2>14. /\ DOMAIN new = DOMAIN t
           /\ \A i \in {x} : new[i].list = l /\ new[i].after = link[i]
           /\ \A i \in DOMAIN t \ {x} : /\ new[i].list = t[i].list
                                        /\ new[i].after = IF i \in DOMAIN patch THEN patch[i] ELSE t[i].after
           /\ InList(new, l) = InList(t, l) \union {x}
           /\ \A k : k # l => InList(new, k) = InList(t, k) \ {x}
      <3>1. {x} \subseteq DOMAIN t /\ {x} \intersect DOMAIN patch = {}
        BY <2>2, <2>13
      <3>2. MovedTo(new, t, {x}, l, link, patch)
        BY <1>7, <2>1, <3>1, MovedRows
      <3> QED
        BY <3>2 DEF MovedTo
    <2>15. x \notin DOMAIN f
      BY <2>3, <2>5, <2>7
    <2>16. CASE m = l
      <3>1. ListLinks(new, l) = h
        <4>1. DOMAIN h = DOMAIN f \union {x} /\ h[x] = after /\ h = [k \in DOMAIN h |-> h[k]]
          BY <2>12 DEF PutLinks
        <4>2. \A k \in DOMAIN h : new[k].after = h[k]
          <5>1. new[x].after = after
            BY <1>4, <2>14 DEF PatchOne
          <5>2. ASSUME NEW k \in DOMAIN f PROVE new[k].after = h[k]
            <6>1. k \in DOMAIN t \ {x}
              BY <2>5, <2>15 DEF InList
            <6> QED
              BY <2>5, <2>13, <2>14, <6>1
          <5> QED
            BY <4>1, <5>1, <5>2
        <4> QED
          BY <2>5, <2>14, <4>1, <4>2 DEF ListLinks
      <3>2. Chained(h, w)
        <4>1. /\ Chained(PutLinks(f, a, Inline), r) /\ a \in DOMAIN f \union {Top}
              /\ Inline \notin DOMAIN f /\ Inline # Top
          BY <1>1, <1>5, <1>11, <1>12, <2>4, <2>5, DisplayChain
        <4>2. PICK g1 : g1 = PutLinks(f, a, Inline)
          OBVIOUS
        <4>3. DOMAIN g1 = DOMAIN f \union {Inline}
          BY <4>2 DEF PutLinks
        <4>4. x # Inline /\ x # Top /\ n \in 1 .. Len(r) + 1
          BY <1>1, <2>1, <2>2, ItemsAssumption DEF TableOK
        <4>5. Top \notin DOMAIN f /\ \A i \in DOMAIN f : f[i] \in DOMAIN f \union {Top}
          <5>1. Top \notin DOMAIN f
            BY <2>6 DEF Chained
          <5> QED
            BY <2>6, <5>1, ChainedIs
        <4>6. PICK b \in DOMAIN g1 \union {Top} :
                 /\ Chained(CutLinks(PutLinks(g1, b, x), Inline), w)
                 /\ after = IF b = Inline THEN a ELSE b
          <5>1. Inline \in DOMAIN g1 /\ x \notin DOMAIN g1 /\ Chained(g1, r)
            BY <2>15, <4>1, <4>2, <4>3, <4>4
          <5>2. \E b \in DOMAIN g1 \union {Top} :
                  /\ Chained(CutLinks(PutLinks(g1, b, x), Inline), Items(InsertAt(r, n, x)))
                  /\ DropAfter(d, l, InsertAt(r, n, x), n) = IF b = Inline THEN InlineAfter(d, l) ELSE b
            BY <4>4, <5>1, DroppedChain
          <5> QED
            BY <1>2, <1>3, <1>9, <2>4, <5>2
        <4>7. b \in DOMAIN f \union {Inline, Top}
          BY <4>3, <4>6
        <4>8. CutLinks(PutLinks(g1, b, x), Inline) = h
          BY <2>12, <2>15, <4>1, <4>2, <4>4, <4>5, <4>6, <4>7, CrossLinks
        <4> QED
          BY <4>6, <4>8
      <3>3. Over(Over(Only(src, w1), Only(l, w)), plan)[m] = w
        BY <1>10, <2>16, WantedTwo
      <3> QED
        BY <2>16, <3>1, <3>2, <3>3
    <2>17. CASE m = src
      <3>1. ListLinks(new, src) = k1
        <4>1. DOMAIN k1 = DOMAIN g \ {x} /\ k1 = [k \in DOMAIN k1 |-> k1[k]]
          BY <2>12 DEF CutLinks
        <4>2. \A k \in DOMAIN g \ {x} : new[k].after = k1[k]
          BY <2>5, <2>13, <2>14 DEF InList
        <4> QED
          BY <1>10, <2>5, <2>14, <4>1, <4>2 DEF ListLinks
      <3>2. Chained(k1, LeavingOut(q, {x}))
        BY <2>3, <2>5, <2>6, <2>12, LeftOutChain
      <3>3. w1 = LeavingOut(q, {x})
        BY <1>9, <2>1, <2>3, <2>4
      <3>4. Over(Over(Only(src, w1), Only(l, w)), plan)[m] = w1
        BY <1>10, <2>17, WantedTwo
      <3> QED
        BY <2>17, <3>1, <3>2, <3>3, <3>4
    <2>18. CASE m # l /\ m # src
      <3>1. \A k \in InList(t, m) : k \in DOMAIN t /\ k # x /\ k \notin DOMAIN patch
        BY <2>2, <2>5, <2>13, <2>18 DEF InList
      <3>2. InList(new, m) = InList(t, m)
        BY <2>14, <2>18, <3>1
      <3>3. ListLinks(new, m) = ListLinks(t, m)
        BY <2>14, <3>1, <3>2, LinksStay
      <3>4. Over(Over(Only(src, w1), Only(l, w)), plan)[m] = plan[m]
        BY <1>10, <2>1, <2>18, WantedTwo
      <3> QED
        BY <2>1, <3>3, <3>4
    <2> QED
      BY <2>16, <2>17, <2>18
  <1> QED
    BY <1>10, <1>11, <1>12, PlanOperated

-----------------------------------------------------------------------------
(* Several sequences, one behind the other.                                *)

Flat(f, N, q) == f = [i \in 1 .. N |-> IF i = 1 THEN q[i] ELSE f[i - 1] \o q[i]]

LEMMA FlatLonger ==
    ASSUME NEW q, NEW n \in Nat, NEW f, Flat(f, n, q)
    PROVE  \E g : Flat(g, n + 1, q)
  <1> DEFINE g == [k \in 1 .. n + 1 |-> IF k = n + 1 THEN (IF k = 1 THEN q[k] ELSE f[n] \o q[k]) ELSE f[k]]
  <1>1. \A k \in 1 .. n : g[k] = f[k]
    OBVIOUS
  <1>2. g[n + 1] = IF n + 1 = 1 THEN q[n + 1] ELSE f[n] \o q[n + 1]
    OBVIOUS
  <1>3. \A k \in 1 .. n : f[k] = IF k = 1 THEN q[k] ELSE f[k - 1] \o q[k]
    BY DEF Flat
  <1>4. g = [k \in 1 .. n + 1 |-> g[k]]
    OBVIOUS
  <1> HIDE DEF g
  <1>5. ASSUME NEW k \in 1 .. n + 1 PROVE g[k] = IF k = 1 THEN q[k] ELSE g[k - 1] \o q[k]
    <2>1. CASE k = n + 1 /\ k # 1
      <3>1. k - 1 = n /\ n \in 1 .. n
        BY <2>1
      <3> QED
        BY <1>1, <1>2, <2>1, <3>1
    <2>2. CASE k = n + 1 /\ k = 1
      BY <1>2, <2>2
    <2>3. CASE k # n + 1
      <3>1. k \in 1 .. n /\ (k # 1 => k - 1 \in 1 .. n)
        BY <2>3
      <3> QED
        BY <1>1, <1>3, <3>1
    <2> QED
      BY <2>1, <2>2, <2>3
  <1>6. g = [k \in 1 .. n + 1 |-> IF k = 1 THEN q[k] ELSE g[k - 1] \o q[k]]
    BY <1>4, <1>5
  <1> QED
    BY <1>6 DEF Flat

LEMMA FlatExist == ASSUME NEW q PROVE \A n \in Nat : \E f : Flat(f, n, q)
  <1> DEFINE T == {n \in Nat : \E f : Flat(f, n, q)}
  <1>1. 0 \in T
    <2> DEFINE f == [k \in 1 .. 0 |-> q[k]]
    <2>1. f = [k \in 1 .. 0 |-> IF k = 1 THEN q[k] ELSE f[k - 1] \o q[k]]
      OBVIOUS
    <2>2. Flat(f, 0, q)
      BY <2>1 DEF Flat
    <2> QED
      BY <2>2
  <1>2. \A n \in Nat : n \in T => n + 1 \in T
    BY FlatLonger
  <1> HIDE DEF T
  <1>3. \A n \in Nat : n \in T
    BY <1>1, <1>2, AllNaturals
  <1> QED
    BY <1>3 DEF T

LEMMA FlattenLeads ==
    ASSUME NEW q, NEW N \in Nat, N # 0, Len(q) = N
    PROVE  \E f : /\ FlattenSeq(q) = f[N] /\ f[1] = q[1]
                  /\ \A n \in 1 .. N - 1 : f[n + 1] = f[n] \o q[n + 1]
  <1> DEFINE f == CHOOSE g : Flat(g, N, q)
  <1>1. Flat(f, N, q)
    BY FlatExist
  <1>2. FlattenSeq(q) = f[N]
    <2>1. FlattenSeq(q) = (CHOOSE g : g = [i \in 1 .. Len(q) |-> IF i = 1 THEN q[i] ELSE g[i - 1] \o q[i]])[Len(q)]
      BY DEF FlattenSeq
    <2> QED
      BY <2>1 DEF Flat
  <1> HIDE DEF f
  <1>3. \A k \in 1 .. N : f[k] = IF k = 1 THEN q[k] ELSE f[k - 1] \o q[k]
    BY <1>1 DEF Flat
  <1>4. f[1] = q[1]
    <2>1. 1 \in 1 .. N
      OBVIOUS
    <2> QED
      BY <1>3, <2>1
  <1>5. ASSUME NEW n \in 1 .. N - 1 PROVE f[n + 1] = f[n] \o q[n + 1]
    <2>1. n + 1 \in 1 .. N /\ n + 1 # 1 /\ (n + 1) - 1 = n
      OBVIOUS
    <2>2. f[n + 1] = f[(n + 1) - 1] \o q[n + 1]
      BY <1>3, <2>1
    <2> QED
      BY <2>1, <2>2
  <1> QED
    BY <1>2, <1>4, <1>5

\* Those of the first n.
UpTo(q, n, X) == {x \in X : \E m \in 1 .. n : x \in ToSet(q[m])}

LEMMA Flattened ==
    ASSUME NEW X, NEW q, NEW N \in Nat, N # 0, Len(q) = N,
           \A n \in 1 .. N : q[n] \in Seq(X) /\ IsInjective(q[n]),
           \A m, n \in 1 .. N : m # n => ToSet(q[m]) \intersect ToSet(q[n]) = {}
    PROVE  /\ FlattenSeq(q) \in Seq(X) /\ IsInjective(FlattenSeq(q))
           /\ ToSet(FlattenSeq(q)) = UpTo(q, N, X)
  <1>1. PICK f : /\ FlattenSeq(q) = f[N] /\ f[1] = q[1]
                 /\ \A n \in 1 .. N - 1 : f[n + 1] = f[n] \o q[n + 1]
    BY FlattenLeads
  <1> DEFINE T == {n \in Nat : n + 1 <= N => /\ f[n + 1] \in Seq(X) /\ IsInjective(f[n + 1])
                                             /\ ToSet(f[n + 1]) = UpTo(q, n + 1, X)}
  <1>2. \A n \in 1 .. N : ToSet(q[n]) \subseteq X
    <2> SUFFICES ASSUME NEW n \in 1 .. N PROVE ToSet(q[n]) \subseteq X
      OBVIOUS
    <2>1. q[n] \in Seq(X)
      OBVIOUS
    <2> QED
      BY <2>1 DEF ToSet
  <1>3. 0 \in T
    <2>1. 1 \in 1 .. N /\ \A m \in 1 .. 1 : m = 1
      OBVIOUS
    <2>2. ToSet(q[1]) = UpTo(q, 1, X)
      BY <1>2, <2>1 DEF UpTo
    <2> QED
      BY <1>1, <2>1, <2>2
  <1>4. ASSUME NEW n \in Nat, n \in T PROVE n + 1 \in T
    <2>1. SUFFICES ASSUME (n + 1) + 1 <= N
                   PROVE  /\ f[(n + 1) + 1] \in Seq(X) /\ IsInjective(f[(n + 1) + 1])
                          /\ ToSet(f[(n + 1) + 1]) = UpTo(q, (n + 1) + 1, X)
      OBVIOUS
    <2>2. PICK k : k = n + 1
      OBVIOUS
    <2>3. k \in 1 .. N - 1 /\ k + 1 \in 1 .. N /\ k + 1 = (n + 1) + 1
      BY <2>1, <2>2
    <2>4. f[k] \in Seq(X) /\ IsInjective(f[k]) /\ ToSet(f[k]) = UpTo(q, k, X)
      BY <1>4, <2>1, <2>2
    <2>5. f[k + 1] = f[k] \o q[k + 1]
      BY <1>1, <2>3
    <2>6. ToSet(f[k]) \intersect ToSet(q[k + 1]) = {}
      <3>1. \A m \in 1 .. k : m \in 1 .. N /\ m # k + 1
        BY <2>3
      <3> QED
        BY <2>3, <2>4, <3>1 DEF UpTo
    <2>7. q[k + 1] \in Seq(X) /\ IsInjective(q[k + 1])
      BY <2>3
    <2>8. PICK a, b, c : a = f[k] /\ b = q[k + 1] /\ c = f[k + 1]
      OBVIOUS
    <2>9. c \in Seq(X) /\ IsInjective(c) /\ ToSet(c) = ToSet(a) \union ToSet(b)
      BY <2>4, <2>5, <2>6, <2>7, <2>8, SeqsJoined
    <2>10. UpTo(q, k + 1, X) = UpTo(q, k, X) \union ToSet(q[k + 1])
      <3>1. \A m : m \in 1 .. k + 1 <=> m \in 1 .. k \/ m = k + 1
        BY <2>3
      <3> QED
        BY <1>2, <2>3, <3>1 DEF UpTo
    <2> QED
      BY <2>3, <2>4, <2>8, <2>9, <2>10
  <1> HIDE DEF T
  <1>5. \A n \in Nat : n \in T
    BY <1>3, <1>4, AllNaturals
  <1>6. N - 1 \in Nat /\ (N - 1) + 1 = N /\ N <= N
    OBVIOUS
  <1>7. f[N] \in Seq(X) /\ IsInjective(f[N]) /\ ToSet(f[N]) = UpTo(q, N, X)
    <2>1. N - 1 \in T
      BY <1>5, <1>6
    <2>2. (N - 1) + 1 <= N => /\ f[(N - 1) + 1] \in Seq(X) /\ IsInjective(f[(N - 1) + 1])
                              /\ ToSet(f[(N - 1) + 1]) = UpTo(q, (N - 1) + 1, X)
      BY <2>1 DEF T
    <2> QED
      BY <1>6, <2>2
  <1> QED
    BY <1>1, <1>7

-----------------------------------------------------------------------------
(* The selected items go to the end of a list.                             *)

\* The repairs of the lists of K, one patch.
PairsOf(f) == {<<i, f[i]>> : i \in DOMAIN f}
PatchOf(R) == [i \in {r[1] : r \in R} |-> (CHOOSE r \in R : r[1] = i)[2]]

Disjoint(F, K) == \A j, k \in K : j # k => DOMAIN F[j] \intersect DOMAIN F[k] = {}
PairsOfAll(F, K) == UNION {PairsOf(F[k]) : k \in K}
PatchesAll(p, F, K) ==
    /\ \A i \in DOMAIN p : \E k \in K : i \in DOMAIN F[k]
    /\ \A k \in K : \A i \in DOMAIN F[k] : i \in DOMAIN p /\ p[i] = F[k][i]

LEMMA RepairsPatch ==
    ASSUME NEW K, NEW F, Disjoint(F, K), NEW R, R = PairsOfAll(F, K), NEW p, p = PatchOf(R)
    PROVE  PatchesAll(p, F, K)
  <1>1. \A r \in R : \E k \in K : \E i \in DOMAIN F[k] : r = <<i, F[k][i]>>
    BY DEF PairsOf, PairsOfAll
  <1>2. \A r \in R : \E k \in K : r[1] \in DOMAIN F[k] /\ r[2] = F[k][r[1]]
    <2> SUFFICES ASSUME NEW r \in R PROVE \E k \in K : r[1] \in DOMAIN F[k] /\ r[2] = F[k][r[1]]
      OBVIOUS
    <2>1. PICK k \in K : \E i \in DOMAIN F[k] : r = <<i, F[k][i]>>
      BY <1>1
    <2>2. PICK i \in DOMAIN F[k] : r = <<i, F[k][i]>>
      BY <2>1
    <2>3. r[1] = i /\ r[2] = F[k][i]
      BY <2>2
    <2> QED
      BY <2>3
  <1>3. \A i \in DOMAIN p : \E r \in R : r[1] = i
    BY DEF PatchOf
  <1>4. \A i \in DOMAIN p : \E k \in K : i \in DOMAIN F[k]
    BY <1>2, <1>3
  <1>5. ASSUME NEW k \in K, NEW i \in DOMAIN F[k] PROVE i \in DOMAIN p /\ p[i] = F[k][i]
    <2>1. <<i, F[k][i]>> \in R /\ <<i, F[k][i]>>[1] = i
      BY DEF PairsOf, PairsOfAll
    <2>2. i \in DOMAIN p
      BY <2>1 DEF PatchOf
    <2> DEFINE r == CHOOSE r \in R : r[1] = i
    <2>3. p[i] = r[2]
      BY <2>2 DEF PatchOf
    <2>4. r \in R /\ r[1] = i
      BY <2>1
    <2> HIDE DEF r
    <2>5. PICK j \in K : r[1] \in DOMAIN F[j] /\ r[2] = F[j][r[1]]
      BY <1>2, <2>4
    <2>6. i \in DOMAIN F[j] /\ r[2] = F[j][i]
      BY <2>4, <2>5
    <2>7. j = k
      BY <2>6 DEF Disjoint
    <2> QED
      BY <2>2, <2>3, <2>6, <2>7
  <1> QED
    BY <1>4, <1>5 DEF PatchesAll

\* Those of list k in s, of which S stay.
PartOf(r, f, X, S) == r \in Seq(X) /\ IsInjective(r) /\ ToSet(r) = DOMAIN f \intersect S

LEMMA SomeLeft ==
    ASSUME NEW f, NEW s, Chained(f, s), NEW X, DOMAIN f \subseteq X, NEW S,
           NEW Y, Y = X \ S, NEW r, r = LeavingOut(s, Y)
    PROVE  PartOf(r, f, X, S)
  <1>1. s \in Seq(DOMAIN f) /\ IsInjective(s) /\ ToSet(s) = DOMAIN f
    BY DEF Chained
  <1>2. s \in Seq(X)
    BY <1>1
  <1>3. r \in Seq(X) /\ ToSet(r) = ToSet(s) \ Y /\ IsInjective(r)
    BY <1>1, <1>2, LeftOut
  <1> QED
    BY <1>1, <1>3 DEF PartOf

\* What is left of a list, linked anew by g, of which p is what changes.
RelinkedBy(g, u, f, S, p) ==
    /\ Chained(g, u) /\ DOMAIN g = DOMAIN f \ S
    /\ DOMAIN p \subseteq DOMAIN g
    /\ \A k \in DOMAIN g : g[k] = IF k \in DOMAIN p THEN p[k] ELSE f[k]

LEMMA Relinked ==
    ASSUME NEW f, NEW s, Chained(f, s), NEW S, NEW c, DOMAIN c = DOMAIN f, \A k \in DOMAIN f : Follows(c[k]) = f[k],
           NEW u, u = LeavingOut(s, S), NEW g, g = Linked(u, Top), NEW p, p = Changes(c, g)
    PROVE  RelinkedBy(g, u, f, S, p)
  <1>1. s \in Seq(DOMAIN f) /\ IsInjective(s) /\ ToSet(s) = DOMAIN f /\ Top \notin DOMAIN f
    BY DEF Chained
  <1>2. u \in Seq(DOMAIN f) /\ IsInjective(u) /\ ToSet(u) = DOMAIN f \ S
    BY <1>1, LeftOut
  <1>3. Chained(g, u) /\ DOMAIN g = DOMAIN f \ S
    BY <1>1, <1>2, LinkedChain, LinkedIs
  <1>4. DOMAIN p = {k \in DOMAIN g : Follows(c[k]) # g[k]} /\ \A k \in DOMAIN p : p[k] = g[k]
    BY DEF Changes, Restrict
  <1> QED
    BY <1>3, <1>4 DEF RelinkedBy

LEMMA MoveSelectedPlanned ==
    ASSUME PlanInv, Careful, NEW d \in Devices, NEW selected \in SUBSET DOMAIN seen[d], NEW l \in Lists,
           MoveSelected(d, selected, l)
    PROVE  PlanInv'
  <1> DEFINE S == selected \ InList(seen[d], l)
             q == [k \in Lists |-> LeavingOut(Shown(d, k), DOMAIN seen[d] \ S)]
             toMove == FlattenSeq(q)
             links == Linked(toMove, Tail_(ResolveChain(ListOf(rows[d], l))))
             sources == {seen[d][x].list : x \in S}
             F == [k \in sources |-> Changes(ListOf(rows[d], k),
                                             Linked(LeavingOut(ResolveChain(ListOf(rows[d], k)), S), Top))]
             pairs(k) == LET t == ListOf(rows[d], k)
                             fix == Changes(t, Linked(LeavingOut(ResolveChain(t), S), Top))
                         IN {<<i, fix[i]>> : i \in DOMAIN fix}
             repairs == UNION {pairs(k) : k \in sources}
             patch == [i \in {r[1] : r \in repairs} |-> (CHOOSE r \in repairs : r[1] = i)[2]]
             new == Patched(Moved(rows[d], S, l, links), patch, now + 1)
             m1 == RowMsgs(Moved(seen[d], S, l, links), S) \o RowMsgs(new, DOMAIN patch)
             wanted == [k \in sources \union {l} |->
                          IF k = l THEN Shown(d, l) \o toMove ELSE LeavingOut(Shown(d, k), S)]
  <1>1. Operation(d, new, m1, wanted)
    BY Zenon DEF MoveSelected
  <1>2. S \subseteq DOMAIN seen[d] /\ S \intersect InList(seen[d], l) = {}
    OBVIOUS
  <1>3. repairs = UNION {PairsOf(F[k]) : k \in sources}
    <2>1. ASSUME NEW k \in sources PROVE pairs(k) = PairsOf(F[k])
      <3>1. F[k] = Changes(ListOf(rows[d], k), Linked(LeavingOut(ResolveChain(ListOf(rows[d], k)), S), Top))
        OBVIOUS
      <3> HIDE DEF F, S
      <3> QED
        BY <3>1 DEF PairsOf
    <2> HIDE DEF pairs, F, sources
    <2> QED
      BY <2>1
  <1>4. patch = PatchOf(repairs)
    BY DEF PatchOf
  <1>5. new = Patched(Moved(rows[d], S, l, links), patch, now + 1)
    OBVIOUS
  <1>6. links = Linked(toMove, Tail_(ResolveChain(ListOf(rows[d], l)))) /\ toMove = FlattenSeq(q)
    OBVIOUS
  <1>7. q = [k \in Lists |-> LeavingOut(Shown(d, k), DOMAIN seen[d] \ S)]
    OBVIOUS
  <1>8. sources = {seen[d][x].list : x \in S}
    OBVIOUS
  <1>9. \A k \in sources : F[k] = Changes(ListOf(rows[d], k),
                                          Linked(LeavingOut(ResolveChain(ListOf(rows[d], k)), S), Top))
    OBVIOUS
  <1>10. wanted = [k \in sources \union {l} |->
                      IF k = l THEN Shown(d, l) \o toMove ELSE LeavingOut(Shown(d, k), S)]
    OBVIOUS
  <1> HIDE DEF wanted, m1, new, patch, repairs, pairs, F, sources, links, toMove, q, S
  <1>11. ItemsInv' /\ regular
    BY <1>1, MoveSelectedTyped DEF PlanInv, Operation
  <1>12. ASSUME Settled(d), NEW m \in Lists
         PROVE  Chained(ListLinks(new, m), Over(wanted, plan)[m])
    <2>1. PICK t : t = rows[d]
      OBVIOUS
    <2>2. /\ TableOK(t, now, born) /\ born \subseteq Ids /\ Lists \subseteq DOMAIN plan /\ seen[d] = t
          /\ \A k \in Lists : /\ Chained(ListLinks(t, k), plan[k]) /\ Shown(d, k) = plan[k]
                              /\ ResolveChain(ListOf(t, k)) = plan[k]
      BY <1>11, <1>12, <2>1, SettledSees
    <2>3. InChains(t)
      BY <2>2, RowsInChains
    <2>4. S \subseteq DOMAIN t /\ S \intersect InList(t, l) = {}
      BY <1>2, <2>2
    <2>5. \A k : DOMAIN ListLinks(t, k) = InList(t, k) /\ \A i \in InList(t, k) : ListLinks(t, k)[i] = t[i].after
      BY DEF ListLinks
    <2>6. /\ sources \subseteq Lists /\ l \notin sources
          /\ \A k : k \notin sources => S \intersect InList(t, k) = {}
      <3>1. \A i \in S : t[i].list \in Lists
        BY <2>3, <2>4 DEF InChains
      <3>2. l \notin sources
        BY <1>8, <2>2, <2>4 DEF InList
      <3>3. sources \subseteq Lists
        BY <1>8, <2>2, <3>1
      <3>4. ASSUME NEW k, k \notin sources PROVE S \intersect InList(t, k) = {}
        BY <1>8, <2>2, <3>4 DEF InList
      <3> QED
        BY <3>2, <3>3, <3>4
    <2>7. ASSUME NEW k \in sources
          PROVE  \E g : /\ Chained(g, LeavingOut(plan[k], S)) /\ DOMAIN g = InList(t, k) \ S
                        /\ g = [i \in DOMAIN g |-> g[i]]
                        /\ DOMAIN F[k] \subseteq DOMAIN g
                        /\ \A i \in DOMAIN g : g[i] = IF i \in DOMAIN F[k] THEN F[k][i] ELSE t[i].after
      <3>1. PICK f, s, c : f = ListLinks(t, k) /\ s = plan[k] /\ c = ListOf(t, k)
        OBVIOUS
      <3>2. PICK u : u = LeavingOut(s, S)
        OBVIOUS
      <3>3. PICK g : g = Linked(u, Top)
        OBVIOUS
      <3>4. k \in Lists
        BY <2>6
      <3>5. F[k] = Changes(c, g)
        BY <1>9, <2>1, <2>2, <3>1, <3>2, <3>3, <3>4
      <3>6. DOMAIN c = DOMAIN f /\ DOMAIN f = InList(t, k) /\ \A i \in DOMAIN f : Follows(c[i]) = f[i] /\ f[i] = t[i].after
        <4>1. DOMAIN c = InList(t, k) /\ \A i \in InList(t, k) : c[i] = t[i]
          BY <3>1, ListOfIs
        <4> QED
          BY <2>3, <2>5, <3>1, <4>1 DEF InChains, InList
      <3>7. Chained(f, s)
        BY <2>2, <3>1, <3>4
      <3>8. PICK p : p = Changes(c, g)
        OBVIOUS
      <3>9. /\ Chained(g, u) /\ DOMAIN g = DOMAIN f \ S
            /\ DOMAIN p \subseteq DOMAIN g
            /\ \A i \in DOMAIN g : g[i] = IF i \in DOMAIN p THEN p[i] ELSE f[i]
        <4>1. PICK S1 : S1 = S
          OBVIOUS
        <4>2. RelinkedBy(g, u, f, S1, p)
          BY <3>2, <3>3, <3>6, <3>7, <3>8, <4>1, Relinked
        <4> QED
          BY <4>1, <4>2 DEF RelinkedBy
      <3>10. g = [i \in DOMAIN g |-> g[i]]
        BY <3>3 DEF Linked
      <3> QED
        BY <3>1, <3>2, <3>5, <3>6, <3>8, <3>9, <3>10
    <2>8. \A k \in sources : DOMAIN F[k] \subseteq InList(t, k) \ S
      BY <2>7
    <2>9. /\ \A i \in DOMAIN patch : \E k \in sources : i \in DOMAIN F[k]
          /\ \A k \in sources : \A i \in DOMAIN F[k] : i \in DOMAIN patch /\ patch[i] = F[k][i]
      <3>1. \A j, k \in sources : j # k => DOMAIN F[j] \intersect DOMAIN F[k] = {}
        <4>1. \A j, k : j # k => InList(t, j) \intersect InList(t, k) = {}
          BY DEF InList
        <4> QED
          BY <2>8, <4>1
      <3>2. PICK K, G, R, p : K = sources /\ G = F /\ R = repairs /\ p = patch
        OBVIOUS
      <3>3. R = PairsOfAll(G, K)
        BY <1>3, <3>2 DEF PairsOfAll
      <3>4. p = PatchOf(R)
        BY <1>4, <3>2
      <3>5. Disjoint(G, K)
        BY <3>1, <3>2 DEF Disjoint
      <3>6. PatchesAll(p, G, K)
        BY <3>3, <3>4, <3>5, RepairsPatch
      <3> QED
        BY <3>2, <3>6 DEF PatchesAll
    <2>10. S \intersect DOMAIN patch = {} /\ \A k : k \notin sources => InList(t, k) \intersect DOMAIN patch = {}
      <3>1. \A i \in DOMAIN patch : t[i].list \in sources /\ i \notin S
        BY <2>8, <2>9 DEF InList
      <3> QED
        BY <3>1 DEF InList
    <2>11. /\ DOMAIN new = DOMAIN t
           /\ \A i \in S : new[i].list = l /\ new[i].after = links[i]
           /\ \A i \in DOMAIN t \ S : /\ new[i].list = t[i].list
                                      /\ new[i].after = IF i \in DOMAIN patch THEN patch[i] ELSE t[i].after
           /\ InList(new, l) = InList(t, l) \union S
           /\ \A k : k # l => InList(new, k) = InList(t, k) \ S
      <3>1. PICK S1, links1, p, v : S1 = S /\ links1 = links /\ p = patch /\ v = new
        OBVIOUS
      <3>2. v = Patched(Moved(t, S1, l, links1), p, now + 1)
        BY <1>5, <2>1, <3>1
      <3>3. MovedTo(v, t, S1, l, links1, p)
        BY <2>2, <2>4, <2>10, <3>1, <3>2, MovedRows
      <3> QED
        BY <3>1, <3>3 DEF MovedTo
    <2>12. toMove \in Seq(DOMAIN t) /\ IsInjective(toMove) /\ ToSet(toMove) = S
      <3>1. PICK N, X : N = NLists /\ X = DOMAIN t
        OBVIOUS
      <3>2. N \in Nat /\ N # 0 /\ Lists = 1 .. N
        BY <3>1, ItemsAssumption DEF Lists
      <3>3. PICK S1, q1 : S1 = S /\ q1 = q
        OBVIOUS
      <3>4. ASSUME NEW k \in 1 .. N
            PROVE  q1[k] \in Seq(X) /\ IsInjective(q1[k]) /\ ToSet(q1[k]) = InList(t, k) \intersect S
        <4>1. PICK f, s : f = ListLinks(t, k) /\ s = plan[k]
          OBVIOUS
        <4>2. q1[k] = LeavingOut(s, X \ S1)
          BY <1>7, <2>2, <3>1, <3>2, <3>3, <4>1
        <4>3. Chained(f, s) /\ DOMAIN f \subseteq X /\ DOMAIN f = InList(t, k)
          BY <2>2, <2>5, <3>1, <3>2, <4>1 DEF InList
        <4>4. PICK r, Y : r = q1[k] /\ Y = X \ S1
          OBVIOUS
        <4>5. r \in Seq(X) /\ IsInjective(r) /\ ToSet(r) = DOMAIN f \intersect S1
          <5>1. r = LeavingOut(s, Y)
            BY <4>2, <4>4
          <5>2. PICK T : T = S1
            OBVIOUS
          <5>3. Y = X \ T /\ Chained(f, s) /\ DOMAIN f \subseteq X
            BY <4>3, <4>4, <5>2
          <5>4. PartOf(r, f, X, T)
            BY <5>1, <5>3, SomeLeft
          <5> QED
            BY <5>2, <5>4 DEF PartOf
        <4> QED
          BY <3>3, <4>3, <4>4, <4>5
      <3>5. Len(q1) = N
        <4>1. q1 = [k \in 1 .. N |-> LeavingOut(Shown(d, k), DOMAIN seen[d] \ S)]
          BY <1>7, <3>2, <3>3
        <4> QED
          BY <3>2, <4>1
      <3>6. \A j, k \in 1 .. N : j # k => ToSet(q1[j]) \intersect ToSet(q1[k]) = {}
        <4>1. \A j, k : j # k => InList(t, j) \intersect InList(t, k) = {}
          BY DEF InList
        <4> QED
          BY <3>4, <4>1
      <3>7. /\ FlattenSeq(q1) \in Seq(X) /\ IsInjective(FlattenSeq(q1))
            /\ ToSet(FlattenSeq(q1)) = UpTo(q1, N, X)
        BY <3>2, <3>4, <3>5, <3>6, Flattened
      <3>8. UpTo(q1, N, X) = S
        <4>1. \A i \in S : t[i].list \in 1 .. N /\ i \in InList(t, t[i].list) /\ i \in X
          BY <2>3, <2>4, <3>1, <3>2 DEF InChains
        <4> QED
          BY <2>4, <3>4, <4>1 DEF UpTo
      <3> QED
        BY <1>6, <3>1, <3>3, <3>7, <3>8
    <2>13. CASE m = l
      <3>1. PICK f, s, u : f = ListLinks(t, l) /\ s = plan[l] /\ u = toMove
        OBVIOUS
      <3>2. PICK h : h = ListLinks(new, l)
        OBVIOUS
      <3>3. Chained(f, s) /\ DOMAIN f = InList(t, l) /\ \A i \in InList(t, l) : f[i] = t[i].after
        BY <2>2, <2>5, <3>1
      <3>4. DOMAIN h = DOMAIN f \union ToSet(u) /\ h = [i \in DOMAIN f \union ToSet(u) |-> h[i]]
        BY <2>11, <2>12, <3>1, <3>2, <3>3 DEF ListLinks
      <3>5. \A i \in DOMAIN h : h[i] = new[i].after
        BY <3>2 DEF ListLinks
      <3>6. \A i \in DOMAIN f : h[i] = f[i]
        <4>1. \A i \in InList(t, l) : i \in DOMAIN t \ S /\ i \notin DOMAIN patch
          BY <2>4, <2>6, <2>10 DEF InList
        <4>2. \A i \in InList(t, l) : new[i].after = t[i].after
          BY <2>11, <4>1
        <4> QED
          BY <3>3, <3>4, <3>5, <4>2
      <3>7. \A i \in ToSet(u) : h[i] = Linked(u, Tail_(s))[i]
        <4>1. links = Linked(u, Tail_(s))
          BY <1>6, <2>1, <2>2, <3>1
        <4> QED
          BY <2>11, <2>12, <3>1, <3>4, <3>5, <4>1
      <3>8. Chained(h, s \o u)
        <4>1. u \in Seq(DOMAIN t) /\ IsInjective(u) /\ Top \notin DOMAIN t /\ DOMAIN f \intersect ToSet(u) = {}
          BY <2>3, <2>4, <2>12, <3>1, <3>3 DEF InChains
        <4> QED
          BY <3>3, <3>4, <3>6, <3>7, <4>1, AppendedChain
      <3>9. Over(wanted, plan)[m] = s \o u
        <4>1. l \in DOMAIN wanted /\ wanted[l] = Shown(d, l) \o toMove
          BY <1>10
        <4>2. Over(wanted, plan)[l] = wanted[l]
          BY <4>1 DEF Over
        <4> QED
          BY <2>2, <2>13, <3>1, <4>1, <4>2
      <3> QED
        BY <2>13, <3>2, <3>8, <3>9
    <2>14. CASE m \in sources
      <3>1. PICK g : /\ Chained(g, LeavingOut(plan[m], S)) /\ DOMAIN g = InList(t, m) \ S
                     /\ g = [i \in DOMAIN g |-> g[i]]
                     /\ DOMAIN F[m] \subseteq DOMAIN g
                     /\ \A i \in DOMAIN g : g[i] = IF i \in DOMAIN F[m] THEN F[m][i] ELSE t[i].after
        BY <2>7, <2>14
      <3>2. m # l
        BY <2>6, <2>14
      <3>3. ASSUME NEW i \in DOMAIN g PROVE new[i].after = g[i]
        <4>1. i \in DOMAIN t \ S /\ t[i].list = m
          BY <3>1 DEF InList
        <4>2. i \in DOMAIN patch => i \in DOMAIN F[m]
          <5>1. ASSUME NEW k \in sources, i \in DOMAIN F[k] PROVE k = m
            BY <2>8, <4>1, <5>1 DEF InList
          <5> QED
            BY <2>9, <5>1
        <4>3. i \in DOMAIN F[m] => i \in DOMAIN patch /\ patch[i] = F[m][i]
          BY <2>9, <2>14
        <4> QED
          BY <2>11, <3>1, <4>1, <4>2, <4>3
      <3>4. ListLinks(new, m) = g
        <4>1. InList(new, m) = DOMAIN g
          BY <2>11, <3>1, <3>2
        <4> QED
          BY <3>1, <3>3, <4>1 DEF ListLinks
      <3>5. Over(wanted, plan)[m] = LeavingOut(plan[m], S)
        <4>1. m \in DOMAIN wanted /\ wanted[m] = LeavingOut(Shown(d, m), S)
          BY <1>10, <2>14, <3>2
        <4>2. Over(wanted, plan)[m] = wanted[m]
          BY <4>1 DEF Over
        <4> QED
          BY <2>2, <4>1, <4>2
      <3> QED
        BY <3>1, <3>4, <3>5
    <2>15. CASE m # l /\ m \notin sources
      <3>1. \A k \in InList(t, m) : k \in DOMAIN t \ S /\ k \notin DOMAIN patch
        BY <2>6, <2>10, <2>15 DEF InList
      <3>2. InList(new, m) = InList(t, m)
        BY <2>11, <2>15, <3>1
      <3>3. ListLinks(new, m) = ListLinks(t, m)
        BY <2>11, <3>1, <3>2, LinksStay
      <3>4. Over(wanted, plan)[m] = plan[m]
        <4>1. m \notin DOMAIN wanted /\ m \in DOMAIN plan
          BY <1>10, <2>2, <2>15
        <4> QED
          BY <4>1 DEF Over
      <3> QED
        BY <2>2, <3>3, <3>4
    <2> QED
      BY <2>13, <2>14, <2>15
  <1> QED
    BY <1>1, <1>11, <1>12, PlanOperated

-----------------------------------------------------------------------------
(* Healing.                                                                *)

\* A list with a row of the old format becomes the chain of what it shows; any
\* other is left alone.
LEMMA HealedChain ==
    ASSUME NEW at, NEW B, NEW t, TableOK(t, at, B), B \subseteq Ids, NEW l, NEW s, ListPlanned(t, l, s),
           NEW at2, NEW c, c = ListOf(t, l), NEW h, h = ChainHeal(c, at2),
           NEW v, InList(v, l) = InList(t, l), \A i \in InList(t, l) : v[i] = h[i]
    PROVE  Chained(ListLinks(v, l), s)
  <1>1. DOMAIN c = InList(t, l) /\ \A i \in InList(t, l) : c[i] = t[i]
    BY ListOfIs
  <1>2. s = ResolveChain(c)
    BY PlannedShown
  <1>3. PICK g : g = Linked(s, Top)
    OBVIOUS
  <1>4. Chained(g, s) /\ DOMAIN g = InList(t, l) /\ g = [i \in DOMAIN g |-> g[i]]
    BY <1>2, <1>3, UnchangedChain
  <1>5. CASE \A i \in InList(t, l) : t[i].current
    <2>1. Chained(ListLinks(t, l), s)
      BY <1>5 DEF ListPlanned
    <2>2. \A i \in DOMAIN c : c[i].current
      BY <1>1, <1>5
    <2>3. h = c
      BY <2>2 DEF ChainHeal
    <2>4. \A i \in InList(t, l) : v[i].after = t[i].after
      BY <1>1, <2>3
    <2>5. ListLinks(v, l) = ListLinks(t, l)
      BY <2>4, LinksStay
    <2> QED
      BY <2>1, <2>5
  <1>6. CASE \E i \in InList(t, l) : ~t[i].current
    <2>1. \A i \in InList(t, l) : t[i].current => Follows(t[i]) = t[i].after
      <3>1. CASE Chained(ListLinks(t, l), s)
        BY <3>1, ChainRows
      <3>2. CASE ~Chained(ListLinks(t, l), s)
        BY <3>2 DEF ListPlanned, Follows
      <3> QED
        BY <3>1, <3>2
    <2>2. ASSUME NEW i \in InList(t, l) PROVE v[i].after = g[i]
      <3> DEFINE stale == {k \in DOMAIN c : Follows(c[k]) # g[k] \/ ~c[k].current}
      <3>1. ~ \A k \in DOMAIN c : c[k].current
        BY <1>1, <1>6
      <3>2. h = [k \in DOMAIN c |->
                   IF k \in stale
                   THEN [c[k] EXCEPT !.after = g[k], !.current = TRUE,
                                     !.position = NoPosition, !.updated_at = at2]
                   ELSE c[k]]
        BY <1>2, <1>3, <3>1 DEF ChainHeal
      <3>3. i \in DOMAIN c /\ c[i] = t[i] /\ "after" \in DOMAIN t[i] /\ v[i] = h[i]
        BY <1>1 DEF TableOK, RowOK, RowFields, InList
      <3>4. CASE i \in stale
        <4>1. h[i] = [c[i] EXCEPT !.after = g[i], !.current = TRUE,
                                  !.position = NoPosition, !.updated_at = at2]
          BY <3>2, <3>3, <3>4
        <4>2. PICK r, a : r = c[i] /\ a = g[i]
          OBVIOUS
        <4>3. h[i] = [r EXCEPT !.after = a, !.current = TRUE, !.position = NoPosition, !.updated_at = at2]
          BY <4>1, <4>2
        <4>4. "after" \in DOMAIN r
          BY <3>3, <4>2
        <4>5. h[i].after = a
          BY <4>3, <4>4
        <4> QED
          BY <3>3, <4>2, <4>5
      <3>5. CASE i \notin stale
        <4>1. h[i] = c[i]
          BY <3>2, <3>3, <3>5
        <4>2. Follows(t[i]) = g[i] /\ t[i].current
          BY <3>3, <3>5
        <4> QED
          BY <2>1, <3>3, <4>1, <4>2
      <3> QED
        BY <3>4, <3>5
    <2>3. ListLinks(v, l) = g
      BY <1>4, <2>2, LinksAre
    <2> QED
      BY <1>4, <2>3
  <1> QED
    BY <1>5, <1>6

LEMMA HealPlanned ==
    ASSUME PlanInv, NEW d \in Devices, Heal(d) PROVE PlanInv'
  <1> DEFINE t == rows[d]
             healed == [l \in Lists |-> ChainHeal(ListOf(rows[d], l), now + 1)]
             new == [i \in DOMAIN rows[d] |-> healed[rows[d][i].list][i]]
             u == RowMsgs(new, {i \in DOMAIN new : new[i] # rows[d][i]})
  <1>1. healed = [l \in Lists |-> ChainHeal(ListOf(t, l), now + 1)]
    OBVIOUS
  <1>2. new = [i \in DOMAIN t |-> healed[t[i].list][i]]
    OBVIOUS
  <1>3. /\ regular /\ plan' = plan
        /\ rows' = [rows EXCEPT ![d] = new]
        /\ inbox' = [e \in Devices |-> IF e = d THEN inbox[e] ELSE inbox[e] \o u]
        /\ regular' = (regular /\ inbox[d] = <<>>)
    BY Zenon DEF Heal
  <1>4. ItemsInv'
    BY HealTyped DEF PlanInv
  <1> HIDE DEF u, new, healed
  <1>5. CASE inbox[d] # <<>>
    BY <1>3, <1>4, <1>5 DEF PlanInv, PlanKept
  <1>6. CASE inbox[d] = <<>>
    <2>1. Lists \subseteq DOMAIN plan /\ \A l \in Lists : ListPlanned(t, l, plan[l])
      BY <1>3, <1>6, PlannedThere
    <2>2. now \in Nat /\ TableOK(t, now, born) /\ born \subseteq Ids /\ rows = [e \in Devices |-> rows[e]]
      BY DEF PlanInv, ItemsInv, ItemsTyped
    <2> HIDE DEF t
    <2>3. inbox'[d] = <<>> /\ rows'[d] = new
      BY <1>3, <1>6, <2>2
    <2>4. ASSUME NEW l \in Lists PROVE ListPlanned(new, l, plan[l])
      <3>1. PICK s, c, h : s = plan[l] /\ c = ListOf(t, l) /\ h = ChainHeal(c, now + 1)
        OBVIOUS
      <3>2. h = healed[l]
        BY <1>1, <3>1
      <3>3. DOMAIN new = DOMAIN t
        BY <1>2
      <3>4. \A i \in InList(t, l) : new[i] = h[i]
        BY <1>2, <3>2 DEF InList
      <3>5. \A i \in DOMAIN t : new[i].list = t[i].list
        <4> SUFFICES ASSUME NEW i \in DOMAIN t PROVE new[i].list = t[i].list
          OBVIOUS
        <4>1. PICK k, e, g : k = t[i].list /\ e = ListOf(t, k) /\ g = ChainHeal(e, now + 1)
          OBVIOUS
        <4>2. k \in Lists /\ RowOK(t[i], now)
          BY <2>2, <4>1 DEF TableOK, RowOK
        <4>3. new[i] = g[i]
          BY <1>1, <1>2, <4>1, <4>2
        <4>4. i \in InList(t, k)
          BY <4>1 DEF InList
        <4>5. i \in DOMAIN e /\ e[i] = t[i]
          BY <4>1, <4>4, ListOfIs
        <4>6. PICK r, links : r = e[i] /\ links = Linked(ResolveChain(e), Top)
          OBVIOUS
        <4>7. \/ g[i] = r
              \/ g[i] = [r EXCEPT !.after = links[i], !.current = TRUE,
                                  !.position = NoPosition, !.updated_at = now + 1]
          BY <4>1, <4>5, <4>6 DEF ChainHeal
        <4>8. "list" \in DOMAIN r
          BY <4>2, <4>5, <4>6 DEF RowOK, RowFields
        <4>9. g[i].list = r.list
          BY <4>7, <4>8
        <4> QED
          BY <4>3, <4>5, <4>6, <4>9
      <3>6. InList(new, l) = InList(t, l)
        BY <3>3, <3>5 DEF InList
      <3>7. ListPlanned(t, l, s)
        BY <2>1, <3>1
      <3>8. PICK v, at2 : v = new /\ at2 = now + 1
        OBVIOUS
      <3>9. Chained(ListLinks(v, l), s)
        <4>1. h = ChainHeal(c, at2) /\ InList(v, l) = InList(t, l) /\ \A i \in InList(t, l) : v[i] = h[i]
          BY <3>1, <3>4, <3>6, <3>8
        <4>2. PICK w : w = t
          OBVIOUS
        <4>3. /\ TableOK(w, now, born) /\ ListPlanned(w, l, s) /\ c = ListOf(w, l)
              /\ InList(v, l) = InList(w, l) /\ \A i \in InList(w, l) : v[i] = h[i]
          BY <2>2, <3>1, <3>7, <4>1, <4>2
        <4> QED
          BY <2>2, <4>1, <4>3, HealedChain
      <3> QED
        BY <3>1, <3>8, <3>9 DEF ListPlanned
    <2>5. \A l \in Lists : ListPlanned(rows'[d], l, plan'[l])
      BY <1>3, <2>3, <2>4
    <2> QED
      BY <1>3, <1>4, <2>1, <2>3, <2>5, PlanFrom
  <1> QED
    BY <1>5, <1>6

-----------------------------------------------------------------------------
(* What is shown is what was planned.                                      *)

LEMMA PlanStep == ASSUME Careful, PlanInv, [Next]_vars PROVE PlanInv'
  <1>1. CASE UNCHANGED vars
    BY <1>1, PlanSame DEF vars
  <1>2. ASSUME NEW d \in Devices, UserNext(d) PROVE PlanInv'
    <2>1. ASSUME NEW l \in Lists, NEW i \in Ids \ born, AddItem(d, l, i) PROVE PlanInv'
      BY <2>1, AddPlanned
    <2>2. ASSUME NEW l \in Lists, NEW i \in Ids \ born, NEW j \in Ids \ born, i # j,
                 BulkCreateItems(d, l, <<i, j>>)
          PROVE  PlanInv'
      BY <2>2, BulkPlanned
    <2>3. ASSUME NEW i \in DOMAIN seen[d] \intersect DOMAIN rows[d], DeleteItem(d, i) PROVE PlanInv'
      BY <2>3, DeletePlanned
    <2>4. ASSUME NEW l \in Lists, NEW after, DragInline(d, l, after) PROVE PlanInv'
      BY <2>4, PlanSame DEF DragInline
    <2>5. ASSUME NEW l \in Lists, NEW x \in InList(seen[d], l), NEW n \in 1 .. Len(DisplayItems(d, l)),
                 Reorder(d, l, x, n)
          PROVE  PlanInv'
      BY <2>5, ReorderPlanned
    <2>6. ASSUME NEW x \in DOMAIN seen[d], NEW l \in Lists, NEW n \in 1 .. Len(DisplayItems(d, l)) + 1,
                 CrossMove(d, x, l, n)
          PROVE  PlanInv'
      BY <2>6, CrossMovePlanned
    <2>7. ASSUME NEW S \in SUBSET DOMAIN seen[d], NEW l \in Lists, MoveSelected(d, S, l)
          PROVE  PlanInv'
      BY <2>7, MoveSelectedPlanned
    <2> QED
      BY <1>2, <2>1, <2>2, <2>3, <2>4, <2>5, <2>6, <2>7, Zenon DEF UserNext
  <1>3. ASSUME NEW d \in Devices, Heal(d) PROVE PlanInv'
    BY <1>3, HealPlanned
  <1>4. ASSUME NEW d \in Devices, Receive(d) PROVE PlanInv'
    BY <1>4, PlanReceive
  <1>5. ASSUME NEW d \in Devices, Refresh(d) PROVE PlanInv'
    BY <1>5, PlanRefresh
  <1> QED
    BY <1>1, <1>2, <1>3, <1>4, <1>5 DEF Next

\* For any number of devices, lists, items and operations: as long as each
\* operation was made on what its user saw, every device that is up to date
\* shows the items in the order their users made.
THEOREM ItemsShownAsPlanned == ASSUME Careful PROVE Spec => []ShownAsPlanned
  <1>1. Init => PlanInv
    BY PlanStart
  <1>2. PlanInv /\ [Next]_vars => PlanInv'
    BY PlanStep
  <1>3. PlanInv => ShownAsPlanned
    BY PlanShows
  <1> QED
    BY <1>1, <1>2, <1>3, PTL DEF Spec

-----------------------------------------------------------------------------
(* The operator's scripts on a list that is one chain.                     *)

AfterLinks(t) == [i \in DOMAIN t |-> t[i].after]

\* Of a chain whose first m items are placed, the next one is placed behind
\* them, and no other.
LEMMA PlacedNext ==
    ASSUME NEW t, NEW s, Chained(AfterLinks(t), s), NEW m \in 0 .. Len(s), NEW j \in 1 .. Len(s)
    PROVE  PlaceLinked(t, Prefix(s, m), s[j]) = Prefix(s, IF j = m + 1 THEN m + 1 ELSE m)
  <1> DEFINE D == DOMAIN t
             L == Len(s)
  <1>1. /\ L \in Nat /\ DOMAIN s = 1 .. L
        /\ \A n \in 1 .. L : s[n] \in D
        /\ \A n, k \in 1 .. L : s[n] = s[k] => n = k
        /\ Top \notin D
        /\ \A n \in 1 .. L : t[s[n]].after = Before(s, n)
    <2>1. PICK f : f = AfterLinks(t)
      OBVIOUS
    <2>2. DOMAIN f = D /\ \A i \in D : f[i] = t[i].after
      BY <2>1 DEF AfterLinks
    <2>3. Chained(f, s)
      BY <2>1
    <2>4. /\ L \in Nat /\ DOMAIN s = 1 .. L /\ \A n \in 1 .. L : s[n] \in DOMAIN f
          /\ \A n, k \in 1 .. L : s[n] = s[k] => n = k
      BY <2>3, ChainedIs
    <2>5. Top \notin DOMAIN f /\ \A n \in 1 .. L : f[s[n]] = Before(s, n)
      BY <2>3 DEF Chained
    <2> QED
      BY <2>2, <2>4, <2>5
  <1>2. PICK p : p = Prefix(s, m)
    OBVIOUS
  <1>3. /\ p = [n \in 1 .. m |-> s[n]] /\ DOMAIN p = 1 .. m /\ m \in Nat /\ m <= L
        /\ \A n \in 1 .. m : p[n] = s[n]
    BY <1>1, <1>2 DEF Prefix
  <1>4. p \in Seq(D) /\ Len(p) = m
    <2>1. \A n \in 1 .. m : n \in 1 .. L
      BY <1>1, <1>3
    <2> QED
      BY <1>1, <1>3, <2>1
  <1>5. IsInjective(p)
    <2>1. \A n, k \in 1 .. m : n \in 1 .. L /\ k \in 1 .. L
      BY <1>1, <1>3
    <2> QED
      BY <1>1, <1>3, <2>1 DEF IsInjective
  <1>6. \A k \in 1 .. L : Contains(p, s[k]) <=> k <= m
    <2> SUFFICES ASSUME NEW k \in 1 .. L PROVE Contains(p, s[k]) <=> k <= m
      OBVIOUS
    <2>1. Contains(p, s[k]) <=> \E n \in 1 .. m : s[n] = s[k]
      BY <1>3, <1>4 DEF Contains
    <2>2. \A n \in 1 .. m : n \in 1 .. L /\ n <= m
      BY <1>1, <1>3
    <2>3. k <= m => k \in 1 .. m
      BY <1>1, <1>3
    <2> QED
      BY <1>1, <2>1, <2>2, <2>3
  <1> HIDE DEF L, D
  <1>7. PICK x : x = s[j]
    OBVIOUS
  <1>8. j \in 1 .. L /\ j \in Nat /\ t[x].after = Before(s, j)
    BY <1>1, <1>7 DEF L
  <1>9. CASE j <= m
    <2>1. Contains(p, x)
      BY <1>6, <1>7, <1>8, <1>9
    <2>2. PlaceLinked(t, p, x) = p
      BY <2>1 DEF PlaceLinked
    <2>3. j # m + 1
      BY <1>3, <1>8, <1>9
    <2> QED
      BY <1>2, <1>7, <2>2, <2>3
  <1>10. CASE j > m /\ j = 1
    <2>1. m = 0 /\ ~ Contains(p, x)
      BY <1>3, <1>6, <1>7, <1>8, <1>10
    <2>2. t[x].after = Top /\ x # Top
      BY <1>1, <1>7, <1>8, <1>10 DEF Before
    <2>3. PlaceLinked(t, p, x) = <<x>> \o p
      BY <2>1, <2>2 DEF PlaceLinked
    <2>4. p = <<>>
      BY <1>4, <2>1
    <2>5. Prefix(s, 1) = <<x>>
      BY <1>7, <1>10 DEF Prefix
    <2>6. <<x>> \o <<>> = <<x>>
      OBVIOUS
    <2> QED
      BY <1>2, <1>7, <1>10, <2>1, <2>3, <2>4, <2>5, <2>6
  <1>11. CASE j > m /\ j # 1
    <2>1. j - 1 \in 1 .. L /\ t[x].after = s[j - 1]
      BY <1>1, <1>8, <1>11 DEF Before
    <2>2. ~ Contains(p, x) /\ t[x].after # x /\ t[x].after # Top
      <3>1. ~ Contains(p, x)
        BY <1>3, <1>6, <1>7, <1>8, <1>11
      <3>2. s[j - 1] # s[j]
        BY <1>1, <1>8, <2>1
      <3>3. s[j - 1] # Top
        BY <1>1, <2>1
      <3> QED
        BY <1>7, <2>1, <3>1, <3>2, <3>3
    <2>3. Contains(p, t[x].after) <=> j = m + 1
      <3>1. Contains(p, s[j - 1]) <=> j - 1 <= m
        BY <1>6, <2>1
      <3> QED
        BY <1>3, <1>8, <1>11, <2>1, <3>1
    <2>4. CASE j # m + 1
      <3>1. PlaceLinked(t, p, x) = p
        BY <2>2, <2>3, <2>4 DEF PlaceLinked
      <3> QED
        BY <1>2, <1>7, <2>4, <3>1
    <2>5. CASE j = m + 1
      <3>1. PICK a : a = t[x].after
        OBVIOUS
      <3>2. m \in 1 .. m /\ a = p[m]
        BY <1>3, <1>8, <1>11, <2>1, <2>5, <3>1
      <3>3. IndexIn(p, a) = m
        BY <1>4, <1>5, <3>2, IndexIs
      <3>4. SelectInSeq(p, LAMBDA y : y = t[x].after) = m
        BY <3>1, <3>3 DEF IndexIn, SelectInSeq
      <3>5. PlaceLinked(t, p, x) = InsertAt(p, SelectInSeq(p, LAMBDA y : y = t[x].after) + 1, x)
        BY <2>2, <2>3, <2>5 DEF PlaceLinked, SelectInSeq
      <3>6. PlaceLinked(t, p, x) = InsertAt(p, m + 1, x)
        BY <3>4, <3>5
      <3>7. InsertAt(p, m + 1, x) = Put(p, m, x)
        <4>1. m \in 0 .. Len(p)
          BY <1>3, <1>4
        <4> QED
          BY <1>4, <4>1, PutIs
      <3>8. Put(p, m, x) = Prefix(s, m + 1)
        <4>1. \A n \in 1 .. m + 1 : IF n <= m THEN n \in 1 .. m ELSE n = m + 1
          BY <1>3
        <4>2. Put(p, m, x) = [n \in 1 .. m + 1 |-> IF n <= m THEN p[n] ELSE IF n = m + 1 THEN x ELSE p[n - 1]]
          BY <1>4 DEF Put
        <4>3. \A n \in 1 .. m + 1 : (IF n <= m THEN p[n] ELSE IF n = m + 1 THEN x ELSE p[n - 1]) = s[n]
          BY <1>3, <1>7, <2>5, <4>1
        <4> QED
          BY <4>2, <4>3 DEF Prefix
      <3> QED
        BY <1>2, <1>7, <2>5, <3>6, <3>7, <3>8
    <2> QED
      BY <2>4, <2>5
  <1> QED
    BY <1>3, <1>8, <1>9, <1>10, <1>11

\* A round goes through the items one by one.
Iterates(h, n, t, q, base) ==
    h = [S \in SUBSET (1 .. n) |->
            IF S = {} THEN base ELSE PlaceLinked(t, h[S \ {Max(S)}], q[Max(S)])]

LEMMA GreatestIs == ASSUME NEW n \in Nat, NEW S, S \subseteq 1 .. n, n \in S PROVE Max(S) = n
  <1>1. \A x \in S : x \in Nat /\ x <= n
    OBVIOUS
  <1>2. \A x \in S : (\A y \in S : x >= y) => x = n
    BY <1>1
  <1>3. n \in S /\ \A y \in S : n >= y
    BY <1>1
  <1> QED
    BY <1>2, <1>3 DEF Max

LEMMA IteratesLonger ==
    ASSUME NEW t, NEW q, NEW base, NEW n \in Nat, NEW h, Iterates(h, n, t, q, base)
    PROVE  \E g : Iterates(g, n + 1, t, q, base)
  <1> DEFINE R == SUBSET (1 .. n)
             R1 == SUBSET (1 .. n + 1)
             next(f, S) == IF S = {} THEN base ELSE PlaceLinked(t, f[S \ {Max(S)}], q[Max(S)])
             g == [S \in R1 |-> IF n + 1 \in S THEN PlaceLinked(t, h[S \ {n + 1}], q[n + 1]) ELSE h[S]]
  <1>1. R \subseteq R1 /\ \A S \in R1 : n + 1 \notin S => S \in R
    <2>1. \A k : k \in 1 .. n + 1 <=> k \in 1 .. n \/ k = n + 1
      OBVIOUS
    <2> QED
      BY <2>1
  <1>2. \A S \in R : h[S] = next(h, S)
    BY DEF Iterates
  <1>3. \A S \in R : n + 1 \notin S
    OBVIOUS
  <1>4. \A S \in R : g[S] = h[S]
    BY <1>1, <1>3
  <1>5. \A S \in R1 : n + 1 \in S => g[S] = PlaceLinked(t, h[S \ {n + 1}], q[n + 1])
    OBVIOUS
  <1>6. g = [S \in R1 |-> g[S]]
    OBVIOUS
  <1> HIDE DEF g
  <1>7. ASSUME NEW S \in R1 PROVE g[S] = next(g, S)
    <2>1. CASE n + 1 \in S
      <3>1. Max(S) = n + 1
        <4>1. PICK k : k = n + 1
          OBVIOUS
        <4>2. k \in Nat /\ S \subseteq 1 .. k /\ k \in S
          BY <2>1, <4>1
        <4>3. Max(S) = k
          BY <4>2, GreatestIs
        <4> QED
          BY <4>1, <4>3
      <3>2. S \ {n + 1} \in R /\ S # {}
        BY <1>1, <2>1
      <3>3. g[S \ {n + 1}] = h[S \ {n + 1}]
        BY <1>4, <3>2
      <3> QED
        BY <1>5, <2>1, <3>1, <3>2, <3>3
    <2>2. CASE n + 1 \notin S
      <3>1. S \in R /\ S \ {Max(S)} \in R
        BY <1>1, <2>2
      <3>2. g[S] = h[S] /\ g[S \ {Max(S)}] = h[S \ {Max(S)}]
        BY <1>4, <3>1
      <3>3. h[S] = next(h, S)
        BY <1>2, <3>1
      <3> QED
        BY <3>2, <3>3
    <2> QED
      BY <2>1, <2>2
  <1>8. g = [S \in R1 |-> next(g, S)]
    BY <1>6, <1>7
  <1> QED
    BY <1>8 DEF Iterates

LEMMA IteratesExist ==
    ASSUME NEW t, NEW q, NEW base PROVE \A n \in Nat : \E h : Iterates(h, n, t, q, base)
  <1> DEFINE T == {n \in Nat : \E h : Iterates(h, n, t, q, base)}
  <1>1. 0 \in T
    <2> DEFINE h == [S \in SUBSET (1 .. 0) |-> base]
    <2>1. \A S \in SUBSET (1 .. 0) : S = {}
      OBVIOUS
    <2>2. \A S \in SUBSET (1 .. 0) : base = IF S = {} THEN base ELSE PlaceLinked(t, h[S \ {Max(S)}], q[Max(S)])
      BY <2>1
    <2>3. h = [S \in SUBSET (1 .. 0) |-> IF S = {} THEN base ELSE PlaceLinked(t, h[S \ {Max(S)}], q[Max(S)])]
      BY <2>2
    <2>4. Iterates(h, 0, t, q, base)
      BY <2>3 DEF Iterates
    <2> QED
      BY <2>4
  <1>2. \A n \in Nat : n \in T => n + 1 \in T
    BY IteratesLonger
  <1> HIDE DEF T
  <1>3. \A n \in Nat : n \in T
    BY <1>1, <1>2, AllNaturals
  <1> QED
    BY <1>3 DEF T

RoundsBy(h, N, t, q, base) ==
    /\ PlaceRound(t, q, base) = h[N] /\ h[0] = base
    /\ \A n \in 1 .. N : h[n] = PlaceLinked(t, h[n - 1], q[n])

LEMMA RoundLeads ==
    ASSUME NEW t, NEW q, NEW N \in Nat, DOMAIN q = 1 .. N, NEW base
    PROVE  \E h : RoundsBy(h, N, t, q, base)
  <1> DEFINE f == CHOOSE g : Iterates(g, N, t, q, base)
             h == [n \in 0 .. N |-> f[1 .. n]]
  <1>1. Iterates(f, N, t, q, base)
    BY IteratesExist
  <1>2. PlaceRound(t, q, base) = f[1 .. N]
    <2>1. PlaceRound(t, q, base) =
             (CHOOSE g : g = [S \in SUBSET (DOMAIN q) |->
                 IF S = {} THEN base ELSE PlaceLinked(t, g[S \ {Max(S)}], q[Max(S)])])[DOMAIN q]
      BY DEF PlaceRound, FoldLeft, MapThenFoldSet
    <2> QED
      BY <2>1 DEF Iterates
  <1> HIDE DEF f
  <1>3. \A S \in SUBSET (1 .. N) :
           f[S] = IF S = {} THEN base ELSE PlaceLinked(t, f[S \ {Max(S)}], q[Max(S)])
    BY <1>1 DEF Iterates
  <1>4. \A n \in 0 .. N : h[n] = f[1 .. n]
    OBVIOUS
  <1> HIDE DEF h
  <1>5. h[0] = base
    <2>1. 1 .. 0 = {} /\ 1 .. 0 \in SUBSET (1 .. N) /\ 0 \in 0 .. N
      OBVIOUS
    <2> QED
      BY <1>3, <1>4, <2>1
  <1>6. ASSUME NEW n \in 1 .. N PROVE h[n] = PlaceLinked(t, h[n - 1], q[n])
    <2>1. n \in 0 .. N /\ n - 1 \in 0 .. N /\ n \in Nat /\ n \in 1 .. n
      OBVIOUS
    <2>2. 1 .. n \in SUBSET (1 .. N) /\ 1 .. n # {}
      BY <2>1
    <2>3. Max(1 .. n) = n
      BY <2>1, GreatestIs
    <2>4. (1 .. n) \ {n} = 1 .. n - 1
      BY <2>1
    <2>5. f[1 .. n] = PlaceLinked(t, f[(1 .. n) \ {Max(1 .. n)}], q[Max(1 .. n)])
      BY <1>3, <2>2
    <2>6. f[1 .. n] = PlaceLinked(t, f[1 .. n - 1], q[n])
      BY <2>3, <2>4, <2>5
    <2> QED
      BY <1>4, <2>1, <2>6
  <1>7. h[N] = f[1 .. N]
    BY <1>4
  <1> QED
    BY <1>2, <1>5, <1>6, <1>7 DEF RoundsBy

\* A round places one more item at least.
LEMMA RoundPlaces ==
    ASSUME NEW t, NEW s, Chained(AfterLinks(t), s), NEW N \in Nat, NEW q, DOMAIN q = 1 .. N,
           \A n \in 1 .. N : q[n] \in DOMAIN t, \A i \in DOMAIN t : \E n \in 1 .. N : q[n] = i,
           NEW k \in 0 .. Len(s)
    PROVE  \E m \in 0 .. Len(s) : /\ PlaceRound(t, q, Prefix(s, k)) = Prefix(s, m)
                                  /\ k <= m /\ (k < Len(s) => k < m)
  <1> DEFINE L == Len(s)
             further(m, n) == \A i \in 1 .. n : k < L /\ q[i] = s[k + 1] => k < m
  <1>1. /\ L \in Nat /\ \A n, j \in 1 .. L : s[n] = s[j] => n = j
        /\ \A i \in DOMAIN t : \E j \in 1 .. L : s[j] = i
        /\ \A n \in 1 .. L : s[n] \in DOMAIN t
    <2>1. PICK f : f = AfterLinks(t)
      OBVIOUS
    <2>2. DOMAIN f = DOMAIN t
      BY <2>1 DEF AfterLinks
    <2>3. Chained(f, s)
      BY <2>1
    <2> QED
      BY <2>2, <2>3, ChainedIs
  <1>2. PICK h : RoundsBy(h, N, t, q, Prefix(s, k))
    BY RoundLeads
  <1> HIDE DEF L
  <1>3. k \in Nat /\ k <= L /\ k \in 0 .. L
    BY <1>1 DEF L
  <1> DEFINE T == {n \in Nat : n <= N => \E m \in 0 .. L : h[n] = Prefix(s, m) /\ k <= m /\ further(m, n)}
  <1>4. 0 \in T
    <2>1. h[0] = Prefix(s, k)
      BY <1>2 DEF RoundsBy
    <2>2. further(k, 0) /\ k <= k
      BY <1>3
    <2> QED
      BY <1>3, <2>1, <2>2
  <1>5. ASSUME NEW n \in Nat, n \in T PROVE n + 1 \in T
    <2> SUFFICES ASSUME n + 1 <= N
                 PROVE  \E m \in 0 .. L : h[n + 1] = Prefix(s, m) /\ k <= m /\ further(m, n + 1)
      OBVIOUS
    <2>1. PICK m \in 0 .. L : h[n] = Prefix(s, m) /\ k <= m /\ further(m, n)
      BY <1>5
    <2>2. n + 1 \in 1 .. N /\ (n + 1) - 1 = n
      OBVIOUS
    <2>3. PICK j \in 1 .. L : s[j] = q[n + 1]
      BY <1>1, <2>2
    <2>4. h[n + 1] = PlaceLinked(t, h[n], s[j])
      <3>1. h[n + 1] = PlaceLinked(t, h[(n + 1) - 1], q[n + 1])
        BY <1>2, <2>2 DEF RoundsBy
      <3> QED
        BY <2>2, <2>3, <3>1
    <2>5. PICK e : e = IF j = m + 1 THEN m + 1 ELSE m
      OBVIOUS
    <2>6. h[n + 1] = Prefix(s, e)
      <3>1. m \in 0 .. Len(s) /\ j \in 1 .. Len(s)
        BY <2>1, <2>3 DEF L
      <3>2. PlaceLinked(t, Prefix(s, m), s[j]) = Prefix(s, IF j = m + 1 THEN m + 1 ELSE m)
        BY <3>1, PlacedNext
      <3> QED
        BY <2>1, <2>4, <2>5, <3>2
    <2> HIDE DEF T
    <2>7. e \in 0 .. L /\ k <= e /\ m <= e
      BY <1>1, <1>3, <2>1, <2>3, <2>5
    <2>8. further(e, n + 1)
      <3> SUFFICES ASSUME NEW i \in 1 .. n + 1, k < L, q[i] = s[k + 1] PROVE k < e
        OBVIOUS
      <3>1. CASE i = n + 1
        <4>1. k + 1 \in 1 .. L /\ s[j] = s[k + 1]
          BY <1>1, <1>3, <2>3, <3>1
        <4>2. j = k + 1
          BY <1>1, <2>3, <4>1
        <4> QED
          BY <1>1, <1>3, <2>1, <2>5, <4>2
      <3>2. CASE i # n + 1
        <4>1. i \in 1 .. n
          BY <3>2
        <4>2. k < m
          BY <2>1, <4>1
        <4> QED
          BY <1>3, <2>1, <2>7, <4>2
      <3> QED
        BY <3>1, <3>2
    <2> QED
      BY <2>6, <2>7, <2>8
  <1>6. N \in T
    <2> HIDE DEF T
    <2>1. \A n \in Nat : n \in T
      BY <1>4, <1>5, AllNaturals
    <2> QED
      BY <2>1
  <1>7. PICK m \in 0 .. L : h[N] = Prefix(s, m) /\ k <= m /\ further(m, N)
    BY <1>6
  <1>8. ASSUME k < L PROVE k < m
    <2>1. k + 1 \in 1 .. L
      BY <1>1, <1>3, <1>8
    <2>2. PICK n \in 1 .. N : q[n] = s[k + 1]
      BY <1>1, <2>1
    <2> QED
      BY <1>7, <1>8, <2>2
  <1>9. PlaceRound(t, q, Prefix(s, k)) = Prefix(s, m)
    BY <1>2, <1>7 DEF RoundsBy
  <1> QED
    BY <1>7, <1>8, <1>9 DEF L

\* Round after round.
Rounds(f, N, t, q, base) ==
    f = [n \in 0 .. N |-> IF n = 0 THEN base ELSE PlaceRound(t, q, f[n - 1])]

LEMMA RoundsLonger ==
    ASSUME NEW t, NEW q, NEW base, NEW n \in Nat, NEW f, Rounds(f, n, t, q, base)
    PROVE  \E g : Rounds(g, n + 1, t, q, base)
  <1> DEFINE g == [k \in 0 .. n + 1 |-> IF k = n + 1 THEN PlaceRound(t, q, f[n]) ELSE f[k]]
  <1>1. \A k \in 0 .. n : g[k] = f[k]
    OBVIOUS
  <1>2. g[n + 1] = PlaceRound(t, q, f[n])
    OBVIOUS
  <1>3. \A k \in 0 .. n : f[k] = IF k = 0 THEN base ELSE PlaceRound(t, q, f[k - 1])
    BY DEF Rounds
  <1>4. g = [k \in 0 .. n + 1 |-> g[k]]
    OBVIOUS
  <1> HIDE DEF g
  <1>5. ASSUME NEW k \in 0 .. n + 1
        PROVE  g[k] = IF k = 0 THEN base ELSE PlaceRound(t, q, g[k - 1])
    <2>1. CASE k = n + 1
      <3>1. k # 0 /\ k - 1 = n /\ n \in 0 .. n
        BY <2>1
      <3> QED
        BY <1>1, <1>2, <2>1, <3>1
    <2>2. CASE k # n + 1
      <3>1. k \in 0 .. n /\ (k # 0 => k - 1 \in 0 .. n)
        BY <2>2
      <3> QED
        BY <1>1, <1>3, <3>1
    <2> QED
      BY <2>1, <2>2
  <1>6. g = [k \in 0 .. n + 1 |-> IF k = 0 THEN base ELSE PlaceRound(t, q, g[k - 1])]
    BY <1>4, <1>5
  <1> QED
    BY <1>6 DEF Rounds

LEMMA RoundsExist ==
    ASSUME NEW t, NEW q, NEW base PROVE \A n \in Nat : \E f : Rounds(f, n, t, q, base)
  <1> DEFINE T == {n \in Nat : \E f : Rounds(f, n, t, q, base)}
  <1>1. 0 \in T
    <2> DEFINE f == [k \in 0 .. 0 |-> base]
    <2>1. Rounds(f, 0, t, q, base)
      BY DEF Rounds
    <2> QED
      BY <2>1
  <1>2. \A n \in Nat : n \in T => n + 1 \in T
    BY RoundsLonger
  <1> HIDE DEF T
  <1>3. \A n \in Nat : n \in T
    BY <1>1, <1>2, AllNaturals
  <1> QED
    BY <1>3 DEF T

LEMMA RankedNone == ASSUME NEW B PROVE Ranked({}, B) = <<>>
  <1>1. IsFiniteSet({}) /\ Orders(B, {})
    BY FS_EmptySet DEF Orders
  <1>2. PICK r : r = Ranked({}, B)
    OBVIOUS
  <1>3. r \in Seq({}) /\ IsInjective(r) /\ ToSet(r) = {}
    BY <1>1, <1>2, RankedListed
  <1>4. r = <<>>
    BY <1>3, OneListed
  <1> QED
    BY <1>2, <1>4

LEMMA CreationOrders == ASSUME NEW t, Sortable(t) PROVE Orders(ByCreation(t), DOMAIN t)
  <1> DEFINE S == DOMAIN t
             B == ByCreation(t)
  <1>1. \A i, j \in S : <<i, j>> \in B <=>
           t[i].created < t[j].created \/ (t[i].created = t[j].created /\ i < j)
    BY DEF ByCreation, Pairs
  <1> HIDE DEF B
  <1>2. \A i \in S : i \in Int /\ t[i].created \in Int
    BY DEF Sortable
  <1>3. \A i \in S : <<i, i>> \notin B
    BY <1>1, <1>2
  <1>4. ASSUME NEW i \in S, NEW j \in S, NEW k \in S, <<i, j>> \in B, <<j, k>> \in B PROVE <<i, k>> \in B
    BY <1>1, <1>2, <1>4
  <1>5. \A i, j \in S : i # j => <<i, j>> \in B \/ <<j, i>> \in B
    BY <1>1, <1>2
  <1> QED
    BY <1>3, <1>4, <1>5 DEF Orders, B

\* buildOrder of a chain is the chain.
LEMMA RevertedChain ==
    ASSUME NEW t, Sortable(t), NEW s, Chained(AfterLinks(t), s), \A i \in DOMAIN t : t[i].after # Absent
    PROVE  RevertOrder(t) = s
  <1> DEFINE L == Len(s)
             none == {i \in DOMAIN t : t[i].after = Absent}
             all == {i \in DOMAIN t : t[i].after # Absent}
  <1>1. PICK q : q = Ranked(DOMAIN t, ByCreation(t))
    OBVIOUS
  <1>2. Orders(ByCreation(t), DOMAIN t) /\ IsFiniteSet(DOMAIN t)
    BY CreationOrders DEF Sortable
  <1>3. q \in Seq(DOMAIN t) /\ IsInjective(q) /\ ToSet(q) = DOMAIN t /\ Len(q) = Cardinality(DOMAIN t)
    BY <1>1, <1>2, RankedListed
  <1>4. PICK N : N = Len(q)
    OBVIOUS
  <1>5. /\ N \in Nat /\ DOMAIN q = 1 .. N
        /\ \A n \in 1 .. N : q[n] \in DOMAIN t
        /\ \A i \in DOMAIN t : \E n \in 1 .. N : q[n] = i
    <2>1. N \in Nat /\ DOMAIN q = 1 .. N /\ \A n \in 1 .. N : q[n] \in DOMAIN t
      BY <1>3, <1>4
    <2> QED
      BY <1>3, <2>1 DEF ToSet
  <1>6. DOMAIN AfterLinks(t) = DOMAIN t
    BY DEF AfterLinks
  <1>7. s \in Seq(DOMAIN t) /\ IsInjective(s) /\ ToSet(s) = DOMAIN t /\ L \in Nat /\ s = [n \in 1 .. L |-> s[n]]
    BY <1>6 DEF Chained
  <1>8. L = N
    <2>1. Cardinality(ToSet(s)) = Len(s) /\ Cardinality(ToSet(q)) = Len(q)
      BY <1>3, <1>7, InjectiveSize
    <2> QED
      BY <1>3, <1>4, <1>7, <2>1
  <1>9. none = {} /\ all = DOMAIN t
    OBVIOUS
  <1> DEFINE f == CHOOSE g : Rounds(g, N, t, q, <<>>)
  <1>10. Rounds(f, N, t, q, <<>>)
    BY <1>5, RoundsExist
  <1>11. RevertOrder(t) = f[N] \o LeavingOut(q, ToSet(f[N]))
    <2>1. Ranked(none, ByPosition(t)) = <<>> /\ Ranked(all, ByCreation(t)) = q
      BY <1>1, <1>9, RankedNone
    <2> DEFINE P == Ranked(none, ByPosition(t))
               Q == Ranked(all, ByCreation(t))
               F == CHOOSE g : g = [n \in 0 .. Len(Q) |-> IF n = 0 THEN P ELSE PlaceRound(t, Q, g[n - 1])]
    <2>2. RevertOrder(t) = F[Len(Q)] \o LeavingOut(Q, ToSet(F[Len(Q)]))
      BY DEF RevertOrder
    <2>3. P = <<>> /\ Q = q
      BY <2>1
    <2> HIDE DEF P, Q
    <2>4. F = CHOOSE g : g = [n \in 0 .. N |-> IF n = 0 THEN <<>> ELSE PlaceRound(t, q, g[n - 1])]
      BY <1>4, <2>3
    <2>5. F = f
      BY <2>4 DEF Rounds
    <2> HIDE DEF F, f
    <2> QED
      BY <1>4, <2>2, <2>3, <2>5
  <1> HIDE DEF f
  <1>12. \A n \in 0 .. N : f[n] = IF n = 0 THEN <<>> ELSE PlaceRound(t, q, f[n - 1])
    BY <1>10 DEF Rounds
  <1> DEFINE T == {n \in Nat : n <= N => \E m \in 0 .. L : f[n] = Prefix(s, m) /\ n <= m}
  <1>13. 0 \in T
    <2>1. f[0] = <<>> /\ Prefix(s, 0) = <<>>
      BY <1>5, <1>12 DEF Prefix
    <2> QED
      BY <1>7, <2>1
  <1>14. ASSUME NEW n \in Nat, n \in T PROVE n + 1 \in T
    <2> SUFFICES ASSUME n + 1 <= N PROVE \E m \in 0 .. L : f[n + 1] = Prefix(s, m) /\ n + 1 <= m
      OBVIOUS
    <2>1. PICK m \in 0 .. L : f[n] = Prefix(s, m) /\ n <= m
      BY <1>5, <1>14
    <2>2. f[n + 1] = PlaceRound(t, q, f[n])
      <3>1. n + 1 \in 0 .. N /\ n + 1 # 0 /\ (n + 1) - 1 = n
        BY <1>5
      <3> QED
        BY <1>12, <3>1
    <2> HIDE DEF T
    <2>3. PICK e \in 0 .. Len(s) : /\ PlaceRound(t, q, Prefix(s, m)) = Prefix(s, e)
                                   /\ m <= e /\ (m < Len(s) => m < e)
      BY <1>5, <2>1, RoundPlaces
    <2>4. n + 1 <= e
      BY <1>5, <1>7, <1>8, <2>1, <2>3
    <2> QED
      BY <2>1, <2>2, <2>3, <2>4
  <1>15. N \in T
    <2> HIDE DEF T
    <2>1. \A n \in Nat : n \in T
      BY <1>13, <1>14, AllNaturals
    <2> QED
      BY <1>5, <2>1
  <1>16. f[N] = s
    <2>1. PICK m \in 0 .. L : f[N] = Prefix(s, m) /\ N <= m
      BY <1>5, <1>15
    <2>2. m = L
      BY <1>7, <1>8, <2>1
    <2> QED
      BY <1>7, <2>1, <2>2 DEF Prefix
  <1>17. LeavingOut(q, DOMAIN t) = <<>>
    <2>1. PICK r : r = LeavingOut(q, DOMAIN t)
      OBVIOUS
    <2>2. r \in Seq(DOMAIN t) /\ IsInjective(r) /\ ToSet(r) = {}
      BY <1>3, <2>1, LeftOut
    <2>3. r = <<>>
      BY <2>2, OneListed
    <2> QED
      BY <2>1, <2>3
  <1>18. s \o <<>> = s
    BY <1>7
  <1> QED
    BY <1>7, <1>11, <1>16, <1>17, <1>18

\* The only order by numbers from 0 on.
LEMMA RankedByNumber ==
    ASSUME NEW X, IsFiniteSet(X), NEW s \in Seq(X), IsInjective(s), ToSet(s) = X, NEW c,
           \A n \in 1 .. Len(s) : c[s[n]] = n - 1,
           NEW B, \A i, j \in X : <<i, j>> \in B => c[i] <= c[j],
           \A i, j \in X : c[i] < c[j] => <<i, j>> \in B, \A i \in X : <<i, i>> \notin B
    PROVE  Ranked(X, B) = s
  <1> DEFINE L == Len(s)
  <1>1. L \in Nat /\ DOMAIN s = 1 .. L /\ s = [n \in 1 .. L |-> s[n]] /\ \A n \in 1 .. L : s[n] \in X
    OBVIOUS
  <1>2. \A i \in X : \E n \in 1 .. L : s[n] = i
    BY <1>1 DEF ToSet
  <1> HIDE DEF L
  <1>3. ASSUME NEW i \in X, NEW j \in X PROVE c[i] \in Int /\ (c[i] = c[j] => i = j)
    <2>1. PICK m \in 1 .. L : s[m] = i
      BY <1>2
    <2>2. PICK n \in 1 .. L : s[n] = j
      BY <1>2
    <2>3. c[i] = m - 1 /\ c[j] = n - 1
      BY <2>1, <2>2 DEF L
    <2> QED
      BY <1>1, <2>1, <2>2, <2>3
  <1>4. \A i, j \in X : <<i, j>> \in B <=> c[i] < c[j]
    <2> SUFFICES ASSUME NEW i \in X, NEW j \in X PROVE <<i, j>> \in B <=> c[i] < c[j]
      OBVIOUS
    <2>1. c[i] \in Int /\ c[j] \in Int
      BY <1>3
    <2>2. ASSUME <<i, j>> \in B PROVE c[i] < c[j]
      <3>1. i # j /\ c[i] <= c[j]
        BY <2>2
      <3>2. c[i] # c[j]
        BY <1>3, <3>1
      <3> QED
        BY <2>1, <3>1, <3>2
    <2> QED
      BY <2>2
  <1>5. Orders(B, X)
    <2>1. \A i \in X : c[i] \in Int
      BY <1>3
    <2>2. \A i \in X : <<i, i>> \notin B
      OBVIOUS
    <2>3. \A i, j, k \in X : <<i, j>> \in B /\ <<j, k>> \in B => <<i, k>> \in B
      BY <1>4, <2>1
    <2>4. \A i, j \in X : i # j => <<i, j>> \in B \/ <<j, i>> \in B
      <3> SUFFICES ASSUME NEW i \in X, NEW j \in X, i # j PROVE c[i] < c[j] \/ c[j] < c[i]
        BY <1>4
      <3>1. c[i] # c[j]
        BY <1>3
      <3> QED
        BY <2>1, <3>1
    <2> QED
      BY <2>2, <2>3, <2>4 DEF Orders
  <1>6. PICK r : r = Ranked(X, B)
    OBVIOUS
  <1>7. PICK N : N = Cardinality(X)
    OBVIOUS
  <1>8. /\ r \in Seq(X) /\ Len(r) = N /\ ToSet(r) = X
        /\ \A m, n \in 1 .. N : m < n => <<r[m], r[n]>> \in B
    BY <1>5, <1>6, <1>7, RankedListed
  <1>9. /\ N \in Nat /\ DOMAIN r = 1 .. N /\ r = [n \in 1 .. N |-> r[n]] /\ \A n \in 1 .. N : r[n] \in X
    BY <1>8
  <1>10. \A i \in X : \E n \in 1 .. N : r[n] = i
    BY <1>8, <1>9 DEF ToSet
  <1> DEFINE P == {n - 1 : n \in 1 .. L}
             f == [n \in 1 .. N |-> c[r[n]]]
             g == [n \in 1 .. L |-> n - 1]
  <1>11. P \subseteq Int /\ \A i \in X : c[i] \in P
    <2>1. P \subseteq Int
      BY <1>1
    <2>2. ASSUME NEW i \in X PROVE c[i] \in P
      <3>1. PICK m \in 1 .. L : s[m] = i
        BY <1>2
      <3>2. c[i] = m - 1
        BY <3>1 DEF L
      <3> QED
        BY <3>2
    <2> QED
      BY <2>1, <2>2
  <1>12. Enumerates(f, N, P)
    <2>1. DOMAIN f = 1 .. N /\ \A n \in 1 .. N : f[n] = c[r[n]]
      OBVIOUS
    <2>2. ASSUME NEW p \in P PROVE \E n \in 1 .. N : f[n] = p
      <3>1. PICK m \in 1 .. L : p = m - 1
        OBVIOUS
      <3>2. c[s[m]] = p /\ s[m] \in X
        BY <1>1, <3>1 DEF L
      <3>3. PICK n \in 1 .. N : r[n] = s[m]
        BY <1>10, <3>2
      <3> QED
        BY <2>1, <3>2, <3>3
    <2> HIDE DEF f, P
    <2>3. \A n \in 1 .. N : f[n] \in P
      BY <1>9, <1>11, <2>1
    <2>4. \A m, n \in 1 .. N : m < n => f[m] < f[n]
      BY <1>4, <1>8, <1>9, <2>1
    <2> QED
      BY <2>1, <2>2, <2>3, <2>4 DEF Enumerates
  <1>13. Enumerates(g, L, P)
    <2>1. DOMAIN g = 1 .. L /\ \A n \in 1 .. L : g[n] = n - 1
      OBVIOUS
    <2>2. \A m, n \in 1 .. L : m < n => m - 1 < n - 1
      BY <1>1
    <2>3. \A n \in 1 .. L : n - 1 \in P
      OBVIOUS
    <2>4. \A p \in P : \E n \in 1 .. L : p = n - 1
      OBVIOUS
    <2> HIDE DEF g, P
    <2> QED
      BY <2>1, <2>2, <2>3, <2>4 DEF Enumerates
  <1>14. (\A n \in 1 .. N : f[n] = c[r[n]]) /\ \A n \in 1 .. L : g[n] = n - 1
    OBVIOUS
  <1> HIDE DEF f, g, P
  <1>15. Agreeing(f, N, g, L)
    BY <1>1, <1>9, <1>11, <1>12, <1>13, EnumeratedOnce
  <1>16. N = L /\ \A n \in 1 .. L : c[r[n]] = n - 1
    BY <1>14, <1>15 DEF Agreeing
  <1>17. \A n \in 1 .. L : r[n] = s[n]
    <2> SUFFICES ASSUME NEW n \in 1 .. L PROVE r[n] = s[n]
      OBVIOUS
    <2>1. c[r[n]] = n - 1 /\ c[s[n]] = n - 1
      BY <1>16 DEF L
    <2> QED
      BY <1>1, <1>3, <1>9, <1>16, <2>1
  <1> QED
    BY <1>1, <1>6, <1>9, <1>16, <1>17

\* migrateList of rows without links, numbered along s, links them along s.
LEMMA MigratedAlong ==
    ASSUME NEW v, IsFiniteSet(DOMAIN v), NEW s \in Seq(DOMAIN v), IsInjective(s), ToSet(s) = DOMAIN v,
           \A i \in DOMAIN v : v[i].after = Absent /\ v[i].created \in Int /\ i \in Int,
           \A n \in 1 .. Len(s) : Position(v[s[n]]) = n - 1
    PROVE  MigrationOrder(v) = s
  <1> DEFINE D == DOMAIN v
             linked == {i \in DOMAIN v : v[i].after # Absent}
             l == Restrict(v, linked)
             nexts == [a \in linked \union {Top} |-> Ranked({i \in linked : l[i].after = a}, ByCreation(l))]
             B == Pairs(DOMAIN v, LAMBDA i, j :
                      \/ Position(v[i]) < Position(v[j])
                      \/ Position(v[i]) = Position(v[j]) /\ <<i, j>> \in ByCreation(v))
  <1>1. MigrationOrder(v) = WithOrphans(l, Walk(Cardinality(linked), nexts)) \o Ranked(DOMAIN v \ linked, B)
    BY DEF MigrationOrder
  <1>2. linked = {} /\ Cardinality(linked) = 0 /\ DOMAIN v \ linked = DOMAIN v
    <2>1. linked = {}
      OBVIOUS
    <2> QED
      BY <2>1, FS_EmptySet
  <1>3. DOMAIN l = {}
    BY <1>2 DEF Restrict
  <1>4. \A i, j \in D : <<i, j>> \in B <=>
            \/ Position(v[i]) < Position(v[j])
            \/ Position(v[i]) = Position(v[j]) /\ <<i, j>> \in ByCreation(v)
    BY DEF Pairs
  <1> HIDE DEF B, nexts, l, linked
  <1>5. Walk(0, nexts) = <<>>
    <2>1. PICK f : /\ Walk(0, nexts) = f[0].met
                   /\ f[0] = [met |-> <<>>, todo |-> nexts[Top]]
      BY WalkLeads
    <2> QED
      BY <2>1
  <1>6. WithOrphans(l, <<>>) = <<>>
    <2>1. DOMAIN l \ ToSet(<<>>) = {}
      BY <1>3
    <2>2. WithOrphans(l, <<>>) = <<>> \o Ranked(DOMAIN l \ ToSet(<<>>), Ascending)
      BY DEF WithOrphans
    <2>3. WithOrphans(l, <<>>) = <<>> \o <<>>
      BY <2>1, <2>2, RankedNone
    <2>4. <<>> \o <<>> = <<>>
      OBVIOUS
    <2> QED
      BY <2>3, <2>4
  <1>7. Ranked(D, B) = s
    <2> DEFINE c == [i \in D |-> Position(v[i])]
    <2>1. \A i \in D : c[i] = Position(v[i])
      OBVIOUS
    <2>2. \A n \in 1 .. Len(s) : s[n] \in D
      OBVIOUS
    <2>3. \A n \in 1 .. Len(s) : c[s[n]] = n - 1
      BY <2>1, <2>2
    <2>4. \A i \in D : c[i] \in Int
      <3> SUFFICES ASSUME NEW i \in D PROVE c[i] \in Int
        OBVIOUS
      <3>1. PICK n \in DOMAIN s : s[n] = i
        BY DEF ToSet
      <3>2. n \in 1 .. Len(s) /\ n \in Int
        OBVIOUS
      <3> HIDE DEF c
      <3> QED
        BY <2>3, <3>1, <3>2
    <2> HIDE DEF c
    <2>5. \A i \in D : <<i, i>> \notin B
      <3>1. \A i \in D : <<i, i>> \notin ByCreation(v)
        BY DEF ByCreation, Pairs
      <3>2. \A i \in D : ~ (Position(v[i]) < Position(v[i]))
        BY <2>1, <2>4
      <3> QED
        BY <1>4, <3>1, <3>2
    <2>6. (\A i, j \in D : <<i, j>> \in B => c[i] <= c[j]) /\ \A i, j \in D : c[i] < c[j] => <<i, j>> \in B
      BY <1>4, <2>1, <2>4
    <2> QED
      BY <2>3, <2>5, <2>6, RankedByNumber
  <1>8. <<>> \o s = s
    OBVIOUS
  <1> QED
    BY <1>1, <1>2, <1>5, <1>6, <1>7, <1>8

\* One script after the other gives a chain its links again.
LEMMA LinkedAgain ==
    ASSUME NEW t, Sortable(t), NEW s, Chained(AfterLinks(t), s),
           \A i \in DOMAIN t : t[i].after # Absent /\ DOMAIN t[i] = RowFields, NEW at,
           NEW again, again = MigrateOnServer(RevertToPosition(t, 1, at))
    PROVE  \A i \in DOMAIN t : again[i].after = t[i].after
  <1> SUFFICES ASSUME NEW k \in DOMAIN t PROVE again[k].after = t[k].after
    OBVIOUS
  <1> DEFINE D == DOMAIN t
             L == Len(s)
  <1>1. DOMAIN AfterLinks(t) = D /\ \A i \in D : AfterLinks(t)[i] = t[i].after
    BY DEF AfterLinks
  <1>2. /\ s \in Seq(D) /\ IsInjective(s) /\ ToSet(s) = D /\ L \in Nat /\ DOMAIN s = 1 .. L
        /\ \A n \in 1 .. L : s[n] \in D
        /\ \A i \in D : \E n \in 1 .. L : s[n] = i
        /\ \A n \in 1 .. L : t[s[n]].after = Before(s, n)
    <2>1. PICK f : f = AfterLinks(t)
      OBVIOUS
    <2>2. Chained(f, s) /\ DOMAIN f = D /\ \A i \in D : f[i] = t[i].after
      BY <1>1, <2>1
    <2>3. s \in Seq(D) /\ IsInjective(s) /\ ToSet(s) = D /\ \A n \in 1 .. L : f[s[n]] = Before(s, n)
      BY <2>2 DEF Chained
    <2>4. /\ L \in Nat /\ DOMAIN s = 1 .. L /\ \A n \in 1 .. L : s[n] \in D
          /\ \A i \in D : \E n \in 1 .. L : s[n] = i
      BY <2>2, ChainedIs
    <2> QED
      BY <2>2, <2>3, <2>4
  <1>3. RevertOrder(t) = s
    BY RevertedChain
  <1>4. PICK v : v = RevertToPosition(t, 1, at)
    OBVIOUS
  <1> DEFINE place(i) == (SelectInSeq(s, LAMBDA x : x = i) - 1) * 1
  <1>5. v = [i \in D |-> [t[i] EXCEPT !.after = Absent, !.updated_at = at, !.position = place(i)]]
    <2>1. ~ \A i \in D : t[i].after = Absent
      OBVIOUS
    <2> QED
      BY <1>3, <1>4, <2>1 DEF RevertToPosition
  <1>6. ASSUME NEW n \in 1 .. L PROVE place(s[n]) = n - 1
    <2>1. IndexIn(s, s[n]) = n
      BY <1>2, <1>6, IndexIs
    <2>2. SelectInSeq(s, LAMBDA x : x = s[n]) = n
      BY <2>1 DEF IndexIn
    <2>3. (n - 1) * 1 = n - 1
      BY <1>2
    <2> QED
      BY <2>2, <2>3
  <1> HIDE DEF place, L
  <1>7. /\ DOMAIN v = D
        /\ \A i \in D : /\ v[i].after = Absent /\ v[i].position = place(i) /\ v[i].created = t[i].created
    <2>1. DOMAIN v = D
      BY <1>5
    <2>2. ASSUME NEW i \in D
          PROVE  v[i].after = Absent /\ v[i].position = place(i) /\ v[i].created = t[i].created
      <3>1. PICK r, p : r = t[i] /\ p = place(i)
        OBVIOUS
      <3>2. v[i] = [r EXCEPT !.after = Absent, !.updated_at = at, !.position = p]
        BY <1>5, <3>1
      <3>3. DOMAIN r = RowFields
        BY <3>1
      <3>4. v[i].after = Absent /\ v[i].position = p /\ v[i].created = r.created
        BY <3>2, <3>3 DEF RowFields
      <3> QED
        BY <3>1, <3>4
    <2> QED
      BY <2>1, <2>2
  <1>8. \A n \in 1 .. L : Position(v[s[n]]) = n - 1
    <2> SUFFICES ASSUME NEW n \in 1 .. L PROVE Position(v[s[n]]) = n - 1
      OBVIOUS
    <2>1. v[s[n]].position = n - 1
      BY <1>2, <1>6, <1>7
    <2>2. n - 1 \in Int
      BY <1>2
    <2> QED
      BY <2>1, <2>2, ItemsAssumption DEF Position
  <1>9. MigrationOrder(v) = s
    <2>1. IsFiniteSet(D) /\ D \subseteq Int /\ \A i \in D : t[i].created \in Int
      BY DEF Sortable
    <2>2. IsFiniteSet(DOMAIN v) /\ \A i \in DOMAIN v : v[i].after = Absent /\ v[i].created \in Int /\ i \in Int
      BY <1>7, <2>1
    <2>3. s \in Seq(DOMAIN v) /\ IsInjective(s) /\ ToSet(s) = DOMAIN v
      BY <1>2, <1>7
    <2>4. \A n \in 1 .. Len(s) : Position(v[s[n]]) = n - 1
      BY <1>8 DEF L
    <2> QED
      BY <2>2, <2>3, <2>4, MigratedAlong
  <1>10. again = MigrateList(v)
    <2>1. \E i \in DOMAIN v : v[i].position # NoPosition \/ v[i].after = Absent
      BY <1>7
    <2> QED
      BY <1>4, <2>1 DEF MigrateOnServer
  <1>11. PICK g : g = Linked(s, Top)
    OBVIOUS
  <1>12. \A n \in 1 .. L : g[s[n]] = Before(s, n)
    <2>1. \A n \in 1 .. Len(s) : Linked(s, Top)[s[n]] = IF n = 1 THEN Top ELSE s[n - 1]
      BY <1>2, LinkedIs
    <2> QED
      BY <1>11, <2>1 DEF L, Before
  <1>13. again[k].after = g[k]
    <2>1. again = [i \in DOMAIN v |-> [v[i] EXCEPT !.after = g[i], !.position = NoPosition, !.current = TRUE]]
      BY <1>9, <1>10, <1>11 DEF MigrateList
    <2>2. PICK r, a : r = v[k] /\ a = g[k]
      OBVIOUS
    <2>3. again[k] = [r EXCEPT !.after = a, !.position = NoPosition, !.current = TRUE]
      BY <1>7, <2>1, <2>2
    <2>4. "after" \in DOMAIN r
      <3>1. v[k] = [t[k] EXCEPT !.after = Absent, !.updated_at = at, !.position = place(k)]
        BY <1>5
      <3> QED
        BY <2>2, <3>1 DEF RowFields
    <2>5. again[k].after = a
      BY <2>3, <2>4
    <2> QED
      BY <2>2, <2>5
  <1>14. PICK n \in 1 .. L : s[n] = k
    BY <1>2
  <1> QED
    BY <1>2, <1>12, <1>13, <1>14

LEMMA PlanIsChain == PlanInv => OneChain
  <1> SUFFICES ASSUME PlanInv, NEW d \in Devices, NEW l \in Lists
               PROVE  /\ ToSet(Shown(d, l)) = InList(seen[d], l)
                      /\ Len(Shown(d, l)) = Cardinality(InList(seen[d], l))
                      /\ regular /\ Current(d) /\ (\A i \in DOMAIN rows[d] : rows[d][i].current) =>
                             LET t == ListOf(rows[d], l)
                                 again == MigrateOnServer(RevertToPosition(t, 1, now))
                             IN /\ Changes(t, Linked(Shown(d, l), Top)) = NoPatch
                                /\ \A i \in DOMAIN t : again[i].after = t[i].after
    BY DEF OneChain
  <1>1. /\ TableOK(seen[d], now, born) /\ TableOK(rows[d], now, born) /\ born \subseteq Ids
    BY DEF PlanInv, ItemsInv, ItemsTyped
  <1>2. ToSet(Shown(d, l)) = InList(seen[d], l) /\ Len(Shown(d, l)) = Cardinality(InList(seen[d], l))
    <2>1. PICK t : t = ListOf(seen[d], l)
      OBVIOUS
    <2>2. Sortable(t) /\ DOMAIN t = InList(seen[d], l)
      BY <1>1, <2>1, ListOfSorts, ListOfIs
    <2> QED
      BY <2>1, <2>2, Resolved DEF Shown
  <1>3. ASSUME regular, Current(d), \A i \in DOMAIN rows[d] : rows[d][i].current,
               NEW t, t = ListOf(rows[d], l), NEW again, again = MigrateOnServer(RevertToPosition(t, 1, now))
        PROVE  /\ Changes(t, Linked(Shown(d, l), Top)) = NoPatch
               /\ \A i \in DOMAIN t : again[i].after = t[i].after
    <2>1. PICK s : s = plan[l]
      OBVIOUS
    <2>2. inbox[d] = <<>> /\ Shown(d, l) = s
      BY <1>3, <2>1, PlanShows DEF Current, ShownAsPlanned
    <2>3. ListPlanned(rows[d], l, s)
      BY <1>3, <2>1, <2>2, PlannedThere
    <2>4. Chained(ListLinks(rows[d], l), s)
      BY <1>3, <2>3 DEF ListPlanned, InList
    <2>5. /\ DOMAIN t = InList(rows[d], l) /\ InList(rows[d], l) \subseteq DOMAIN rows[d]
          /\ \A i \in DOMAIN t : t[i] = rows[d][i]
      BY <1>3, ListOfIs
    <2>6. AfterLinks(t) = ListLinks(rows[d], l)
      BY <2>5 DEF AfterLinks, ListLinks
    <2>7. Chained(AfterLinks(t), s)
      BY <2>4, <2>6
    <2>8. Sortable(t)
      BY <1>1, <1>3, ListOfSorts
    <2>9. \A i \in DOMAIN t : /\ Follows(t[i]) = t[i].after /\ t[i].after \in DOMAIN t \union {Top}
                              /\ DOMAIN t[i] = RowFields
      <3>1. PICK w : w = rows[d]
        OBVIOUS
      <3>2. TableOK(w, now, born) /\ Chained(ListLinks(w, l), s)
        BY <1>1, <2>4, <3>1
      <3>3. \A i \in InList(w, l) : Follows(w[i]) = w[i].after /\ w[i].after \in InList(w, l) \union {Top}
        BY <1>1, <3>2, ChainRows
      <3>4. \A i \in DOMAIN w : DOMAIN w[i] = RowFields
        BY <3>2 DEF TableOK, RowOK
      <3> QED
        BY <2>5, <3>1, <3>3, <3>4
    <2>10. \A i \in DOMAIN t : t[i].after # Absent /\ DOMAIN t[i] = RowFields
      BY <1>1, <2>5, <2>9, ItemsAssumption DEF TableOK
    <2>11. \A i \in DOMAIN t : again[i].after = t[i].after
      BY <1>3, <2>7, <2>8, <2>10, LinkedAgain
    <2>12. Changes(t, Linked(s, Top)) = NoPatch
      <3>1. PICK f, g : f = AfterLinks(t) /\ g = Linked(s, Top)
        OBVIOUS
      <3>2. DOMAIN f = DOMAIN t /\ \A i \in DOMAIN t : f[i] = t[i].after
        BY <3>1 DEF AfterLinks
      <3>3. /\ s \in Seq(DOMAIN t) /\ IsInjective(s) /\ ToSet(s) = DOMAIN t
            /\ \A n \in 1 .. Len(s) : f[s[n]] = Before(s, n)
        BY <2>7, <3>1, <3>2 DEF Chained
      <3>4. DOMAIN g = DOMAIN t /\ \A n \in 1 .. Len(s) : g[s[n]] = Before(s, n)
        <4>1. /\ DOMAIN Linked(s, Top) = ToSet(s)
              /\ \A n \in 1 .. Len(s) : Linked(s, Top)[s[n]] = IF n = 1 THEN Top ELSE s[n - 1]
          BY <3>3, LinkedIs
        <4> QED
          BY <3>1, <3>3, <4>1 DEF Before
      <3>5. ASSUME NEW i \in DOMAIN t PROVE Follows(t[i]) = g[i]
        <4>1. PICK n \in DOMAIN s : s[n] = i
          BY <3>3 DEF ToSet
        <4>2. n \in 1 .. Len(s)
          BY <3>3
        <4> QED
          BY <2>9, <3>2, <3>3, <3>4, <4>1, <4>2
      <3>6. Changes(t, g) = [i \in {} |-> g[i]]
        <4>1. {i \in DOMAIN g : Follows(t[i]) # g[i]} = {}
          BY <3>4, <3>5
        <4> QED
          BY <4>1 DEF Changes, Restrict
      <3> QED
        BY <3>1, <3>6 DEF NoPatch
    <2> QED
      BY <2>2, <2>11, <2>12
  <1> QED
    BY <1>2, <1>3

\* As long as each operation was made on what its user saw, each list of a
\* device that is up to date is one chain, without fork, orphan or cycle, and
\* the operator's two scripts, run one after the other on whatever number of
\* items, give every item its link again.
THEOREM ItemsOneChain == ASSUME Careful PROVE Spec => []OneChain
  <1>1. Init => PlanInv
    BY PlanStart
  <1>2. PlanInv /\ [Next]_vars => PlanInv'
    BY PlanStep
  <1>3. PlanInv => OneChain
    BY PlanIsChain
  <1> QED
    BY <1>1, <1>2, <1>3, PTL DEF Spec
=============================================================================
