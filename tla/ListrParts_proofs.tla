--------------------------- MODULE ListrParts_proofs ---------------------------
(***************************************************************************)
(* What holds of three of the smaller parts, the operator console, the     *)
(* overlay of integrations and the device database, for any number of      *)
(* runs, bodies, films, options, edits and requests.                       *)
(***************************************************************************)
EXTENDS ListrConsole, ListrOverlay, ListrDeviceDb, NaturalsInduction, WellFoundedInduction, TLAPS

-----------------------------------------------------------------------------
(* Sums of sequences of naturals (Sums and Total of ListrConsole).         *)

LEMMA LeastNatural ==
    ASSUME NEW T, T \subseteq Nat, T # {}
    PROVE  \E x \in T : \A y \in T : x <= y
  <1>1. IsWellFoundedOn(OpToRel(<, Nat), Nat)
    BY NatLessThanWellFounded
  <1>2. PICK x \in T : \A y \in T : ~ (<<y, x>> \in OpToRel(<, Nat))
    BY <1>1, WFMin
  <1>3. \A y \in Nat : <<y, x>> \in OpToRel(<, Nat) <=> y < x
    BY DEF OpToRel
  <1>4. ASSUME NEW y \in T PROVE x <= y
    <2>1. ~ (y < x) /\ x \in Nat /\ y \in Nat
      BY <1>2, <1>3
    <2> QED
      BY <2>1
  <1> QED
    BY <1>4

LEMMA AllNaturals ==
    ASSUME NEW T, 0 \in T, \A n \in Nat : n \in T => n + 1 \in T
    PROVE  \A n \in Nat : n \in T
  <1> DEFINE B == Nat \ T
  <1>1. SUFFICES ASSUME B # {} PROVE FALSE
    OBVIOUS
  <1>2. PICK x \in B : \A y \in B : x <= y
    BY <1>1, LeastNatural
  <1>3. x # 0 /\ x - 1 \in Nat /\ x - 1 \notin B
    BY <1>2
  <1> QED
    BY <1>2, <1>3

\* f adds up the first n entries of s.
Adds(f, n, s) == f = [k \in 0 .. n |-> IF k = 0 THEN 0 ELSE f[k - 1] + s[k]]

LEMMA AddsLonger ==
    ASSUME NEW s, NEW n \in Nat, NEW f, Adds(f, n, s)
    PROVE  \E g : Adds(g, n + 1, s)
  <1> DEFINE g == [k \in 0 .. n + 1 |-> IF k = n + 1 THEN f[n] + s[n + 1] ELSE f[k]]
  <1>1. \A k \in 0 .. n : g[k] = f[k]
    OBVIOUS
  <1>2. g[n + 1] = f[n] + s[n + 1]
    OBVIOUS
  <1>3. \A k \in 0 .. n : f[k] = IF k = 0 THEN 0 ELSE f[k - 1] + s[k]
    BY DEF Adds
  <1>4. g = [k \in 0 .. n + 1 |-> g[k]]
    OBVIOUS
  <1> HIDE DEF g
  <1>5. ASSUME NEW k \in 0 .. n + 1
        PROVE  g[k] = IF k = 0 THEN 0 ELSE g[k - 1] + s[k]
    <2>1. CASE k = n + 1
      <3>1. k # 0 /\ k - 1 = n /\ n \in 0 .. n
        BY <2>1
      <3> QED
        BY <1>1, <1>2, <2>1, <3>1
    <2>2. CASE k = 0
      <3>1. k \in 0 .. n
        BY <2>2
      <3> QED
        BY <1>1, <1>3, <2>2, <3>1
    <2>3. CASE k # 0 /\ k # n + 1
      <3>1. k \in 0 .. n /\ k - 1 \in 0 .. n
        BY <2>3
      <3> QED
        BY <1>1, <1>3, <2>3, <3>1
    <2> QED
      BY <2>1, <2>2, <2>3
  <1>6. g = [k \in 0 .. n + 1 |-> IF k = 0 THEN 0 ELSE g[k - 1] + s[k]]
    BY <1>4, <1>5
  <1> QED
    BY <1>6 DEF Adds

LEMMA AddsExist == ASSUME NEW s PROVE \A n \in Nat : \E f : Adds(f, n, s)
  <1> DEFINE T == {n \in Nat : \E f : Adds(f, n, s)}
  <1>1. 0 \in T
    <2>1. Adds([k \in 0 .. 0 |-> 0], 0, s)
      BY DEF Adds
    <2> QED
      BY <2>1
  <1>2. \A n \in Nat : n \in T => n + 1 \in T
    BY AddsLonger
  <1> HIDE DEF T
  <1>3. \A n \in Nat : n \in T
    BY <1>1, <1>2, AllNaturals
  <1> QED
    BY <1>3 DEF T

\* What Sums is.
LEMMA SumsAdd ==
    ASSUME NEW s \in Seq(Nat)
    PROVE  /\ Sums(s)[0] = 0
           /\ \A n \in 1 .. Len(s) : Sums(s)[n] = Sums(s)[n - 1] + s[n]
           /\ \A n \in 0 .. Len(s) : Sums(s)[n] \in Nat
  <1> DEFINE IsSum(x) == x = [k \in 0 .. Len(s) |-> IF k = 0 THEN 0 ELSE x[k - 1] + s[k]]
             f == CHOOSE x : IsSum(x)
  <1>1. Len(s) \in Nat /\ \A n \in 1 .. Len(s) : s[n] \in Nat
    OBVIOUS
  <1>2. \A x : IsSum(x) <=> Adds(x, Len(s), s)
    BY DEF Adds
  <1>3. \E x : IsSum(x)
    BY <1>1, <1>2, AddsExist
  <1>4. Sums(s) = f
    BY DEF Sums
  <1> HIDE DEF IsSum
  <1>5. IsSum(f)
    BY <1>3
  <1> HIDE DEF f
  <1>6. \A k \in 0 .. Len(s) : f[k] = IF k = 0 THEN 0 ELSE f[k - 1] + s[k]
    BY <1>5 DEF IsSum
  <1>7. f[0] = 0
    BY <1>1, <1>6
  <1>8. \A n \in 1 .. Len(s) : f[n] = f[n - 1] + s[n]
    BY <1>1, <1>6
  <1> DEFINE T == {n \in Nat : n <= Len(s) => f[n] \in Nat}
  <1>9. 0 \in T
    BY <1>7
  <1>10. ASSUME NEW n \in Nat, n \in T PROVE n + 1 \in T
    <2>1. CASE n + 1 <= Len(s)
      <3>1. n + 1 \in 1 .. Len(s) /\ (n + 1) - 1 = n /\ f[n] \in Nat
        BY <1>1, <1>10, <2>1
      <3> QED
        BY <1>1, <1>8, <3>1
    <2>2. CASE ~ (n + 1 <= Len(s))
      BY <2>2
    <2> QED
      BY <2>1, <2>2
  <1> HIDE DEF T
  <1>11. \A n \in Nat : n \in T
    BY <1>9, <1>10, AllNaturals
  <1>12. \A n \in 0 .. Len(s) : f[n] \in Nat
    BY <1>1, <1>11 DEF T
  <1> QED
    BY <1>4, <1>7, <1>8, <1>12

\* What adds up s is its sums.
LEMMA SumsOnly ==
    ASSUME NEW s \in Seq(Nat), NEW f, f[0] = 0,
           \A n \in 1 .. Len(s) : f[n] = f[n - 1] + s[n]
    PROVE  \A n \in 0 .. Len(s) : Sums(s)[n] = f[n]
  <1> DEFINE T == {n \in Nat : n <= Len(s) => Sums(s)[n] = f[n]}
  <1>1. 0 \in T
    BY SumsAdd
  <1>2. ASSUME NEW n \in Nat, n \in T PROVE n + 1 \in T
    <2>1. CASE n + 1 <= Len(s)
      <3>1. n + 1 \in 1 .. Len(s) /\ (n + 1) - 1 = n /\ Sums(s)[n] = f[n]
        BY <1>2, <2>1
      <3>2. Sums(s)[n + 1] = Sums(s)[n] + s[n + 1]
        BY <3>1, SumsAdd
      <3> QED
        BY <3>1, <3>2
    <2>2. CASE ~ (n + 1 <= Len(s))
      BY <2>2
    <2> QED
      BY <2>1, <2>2
  <1> HIDE DEF T
  <1>3. \A n \in Nat : n \in T
    BY <1>1, <1>2, AllNaturals
  <1> QED
    BY <1>3 DEF T

LEMMA TotalIsNat == ASSUME NEW s \in Seq(Nat) PROVE Total(s) \in Nat
  <1>1. Len(s) \in 0 .. Len(s)
    OBVIOUS
  <1>2. \A n \in 0 .. Len(s) : Sums(s)[n] \in Nat
    BY SumsAdd
  <1> QED
    BY <1>1, <1>2 DEF Total

LEMMA TotalOfNone == Total(<<>>) = 0
  <1>1. <<>> \in Seq(Nat) /\ Len(<<>>) = 0
    OBVIOUS
  <1>2. Sums(<<>>)[0] = 0
    BY <1>1, SumsAdd
  <1> QED
    BY <1>1, <1>2 DEF Total

LEMMA TotalAppend ==
    ASSUME NEW s \in Seq(Nat), NEW x \in Nat
    PROVE  Total(Append(s, x)) = Total(s) + x
  <1> DEFINE t == Append(s, x)
             f == [k \in 0 .. Len(s) + 1 |-> IF k = Len(s) + 1 THEN Sums(s)[Len(s)] + x ELSE Sums(s)[k]]
  <1>1. t \in Seq(Nat) /\ Len(t) = Len(s) + 1 /\ t[Len(s) + 1] = x /\ \A n \in 1 .. Len(s) : t[n] = s[n]
    OBVIOUS
  <1>2. Len(s) \in Nat
    OBVIOUS
  <1>3. f[0] = 0
    BY <1>2, SumsAdd
  <1>4. ASSUME NEW n \in 1 .. Len(s) + 1 PROVE f[n] = f[n - 1] + t[n]
    <2>1. CASE n = Len(s) + 1
      <3>1. n - 1 = Len(s) /\ f[n] = Sums(s)[Len(s)] + x /\ f[n - 1] = Sums(s)[Len(s)]
        BY <1>2, <2>1
      <3> QED
        BY <1>1, <2>1, <3>1
    <2>2. CASE n # Len(s) + 1
      <3>1. n \in 1 .. Len(s) /\ f[n] = Sums(s)[n] /\ f[n - 1] = Sums(s)[n - 1]
        BY <1>2, <2>2
      <3> QED
        BY <1>1, <3>1, SumsAdd
    <2> QED
      BY <2>1, <2>2
  <1>5. f[Len(s) + 1] = Total(s) + x
    BY <1>2 DEF Total
  <1> HIDE DEF f, t
  <1>6. Sums(t)[Len(s) + 1] = f[Len(s) + 1]
    <2>1. \A n \in 1 .. Len(t) : f[n] = f[n - 1] + t[n]
      BY <1>1, <1>4
    <2>2. Len(s) + 1 \in 0 .. Len(t)
      BY <1>1, <1>2
    <2>3. \A n \in 0 .. Len(t) : Sums(t)[n] = f[n]
      BY <1>1, <1>3, <2>1, SumsOnly
    <2> QED
      BY <2>2, <2>3
  <1> QED
    BY <1>1, <1>5, <1>6 DEF Total, t

LEMMA TotalTail ==
    ASSUME NEW s \in Seq(Nat), s # <<>>
    PROVE  Total(Tail(s)) = Total(s) - s[1]
  <1> DEFINE t == Tail(s)
             f == [k \in 0 .. Len(s) - 1 |-> Sums(s)[k + 1] - s[1]]
  <1>1. t \in Seq(Nat) /\ Len(t) = Len(s) - 1 /\ \A n \in 1 .. Len(s) - 1 : t[n] = s[n + 1]
    OBVIOUS
  <1>2. Len(s) \in Nat /\ Len(s) >= 1 /\ s[1] \in Nat
    OBVIOUS
  <1>3. Sums(s)[0] = 0 /\ Sums(s)[1] = Sums(s)[1 - 1] + s[1]
    BY <1>2, SumsAdd
  <1>4. f[0] = 0
    BY <1>2, <1>3
  <1>5. ASSUME NEW n \in 1 .. Len(s) - 1 PROVE f[n] = f[n - 1] + t[n]
    <2>1. f[n] = Sums(s)[n + 1] - s[1] /\ f[n - 1] = Sums(s)[n] - s[1]
      BY <1>2
    <2>2. n + 1 \in 1 .. Len(s) /\ (n + 1) - 1 = n /\ n \in 0 .. Len(s)
      BY <1>2
    <2>3. Sums(s)[n + 1] = Sums(s)[n] + s[n + 1] /\ Sums(s)[n] \in Nat /\ s[n + 1] \in Nat
      BY <2>2, SumsAdd
    <2>4. t[n] = s[n + 1]
      BY <1>1
    <2> QED
      BY <1>2, <2>1, <2>3, <2>4
  <1>6. f[Len(s) - 1] = Total(s) - s[1]
    BY <1>2 DEF Total
  <1> HIDE DEF f, t
  <1>7. Sums(t)[Len(s) - 1] = f[Len(s) - 1]
    BY <1>1, <1>2, <1>4, <1>5, SumsOnly
  <1> QED
    BY <1>1, <1>6, <1>7 DEF Total, t

\* One entry is n greater.
LEMMA TotalRaised ==
    ASSUME NEW s \in Seq(Nat), NEW t \in Seq(Nat), Len(t) = Len(s), NEW i \in 1 .. Len(s), NEW n \in Nat,
           \A k \in 1 .. Len(s) : t[k] = IF k = i THEN s[k] + n ELSE s[k]
    PROVE  Total(t) = Total(s) + n
  <1> DEFINE f == [k \in 0 .. Len(s) |-> IF k < i THEN Sums(s)[k] ELSE Sums(s)[k] + n]
  <1>1. Len(s) \in Nat
    OBVIOUS
  <1>2. f[0] = 0
    BY <1>1, SumsAdd
  <1>3. ASSUME NEW k \in 1 .. Len(s) PROVE f[k] = f[k - 1] + t[k]
    <2>1. /\ f[k] = IF k < i THEN Sums(s)[k] ELSE Sums(s)[k] + n
          /\ f[k - 1] = IF k - 1 < i THEN Sums(s)[k - 1] ELSE Sums(s)[k - 1] + n
      BY <1>1
    <2>2. k \in 0 .. Len(s) /\ k - 1 \in 0 .. Len(s) /\ s[k] \in Nat
      BY <1>1
    <2>6. Sums(s)[k] = Sums(s)[k - 1] + s[k] /\ Sums(s)[k - 1] \in Nat
      BY <2>2, SumsAdd
    <2>3. t[k] = IF k = i THEN s[k] + n ELSE s[k]
      OBVIOUS
    <2> QED
      BY <2>1, <2>2, <2>3, <2>6
  <1>4. f[Len(s)] = Total(s) + n
    BY <1>1 DEF Total
  <1> HIDE DEF f
  <1>5. Sums(t)[Len(s)] = f[Len(s)]
    <2>1. \A k \in 1 .. Len(t) : f[k] = f[k - 1] + t[k]
      BY <1>3
    <2>2. \A k \in 0 .. Len(t) : Sums(t)[k] = f[k]
      BY <1>2, <2>1, SumsOnly
    <2> QED
      BY <1>1, <2>2
  <1> QED
    BY <1>4, <1>5 DEF Total

\* The first m entries are zero.
LEMMA TotalCut ==
    ASSUME NEW s \in Seq(Nat), NEW t \in Seq(Nat), Len(t) = Len(s), NEW m \in 0 .. Len(s),
           \A k \in 1 .. Len(s) : t[k] = IF k <= m THEN 0 ELSE s[k]
    PROVE  Total(t) = Total(s) - Sums(s)[m]
  <1> DEFINE f == [k \in 0 .. Len(s) |-> IF k <= m THEN 0 ELSE Sums(s)[k] - Sums(s)[m]]
  <1>1. Len(s) \in Nat /\ Sums(s)[m] \in Nat
    BY SumsAdd
  <1>2. f[0] = 0
    BY <1>1
  <1>3. ASSUME NEW k \in 1 .. Len(s) PROVE f[k] = f[k - 1] + t[k]
    <2>1. /\ f[k] = IF k <= m THEN 0 ELSE Sums(s)[k] - Sums(s)[m]
          /\ f[k - 1] = IF k - 1 <= m THEN 0 ELSE Sums(s)[k - 1] - Sums(s)[m]
      BY <1>1
    <2>2. k \in 0 .. Len(s) /\ k - 1 \in 0 .. Len(s) /\ s[k] \in Nat
      BY <1>1
    <2>6. Sums(s)[k] = Sums(s)[k - 1] + s[k] /\ Sums(s)[k - 1] \in Nat
      BY <2>2, SumsAdd
    <2>3. t[k] = IF k <= m THEN 0 ELSE s[k]
      OBVIOUS
    <2>4. CASE k - 1 = m
      BY <1>1, <2>1, <2>2, <2>3, <2>4, <2>6
    <2>5. CASE k - 1 # m
      BY <1>1, <2>1, <2>2, <2>3, <2>5, <2>6
    <2> QED
      BY <2>4, <2>5
  <1>4. f[Len(s)] = Total(s) - Sums(s)[m]
    <2>1. CASE m = Len(s)
      BY <1>1, <2>1 DEF Total
    <2>2. CASE m # Len(s)
      BY <1>1, <2>2 DEF Total
    <2> QED
      BY <2>1, <2>2
  <1> HIDE DEF f
  <1>5. Sums(t)[Len(s)] = f[Len(s)]
    <2>1. \A k \in 1 .. Len(t) : f[k] = f[k - 1] + t[k]
      BY <1>3
    <2>2. \A k \in 0 .. Len(t) : Sums(t)[k] = f[k]
      BY <1>2, <2>1, SumsOnly
    <2> QED
      BY <1>1, <2>2
  <1> QED
    BY <1>4, <1>5 DEF Total

-----------------------------------------------------------------------------
(* The budget of bodies (ListrConsole).                                    *)

RunRecord ==
    [id : Nat, module : Module, outcome : {"running", "complete", "error"}, bodies : Seq(Nat)]

RunsTypeOK ==
    /\ runs \in Seq(RunRecord) /\ Len(runs) <= MaxRuns
    /\ started \in Nat

BodiesInv == RunsTypeOK /\ BodiesAccounted

LEMMA EachHeld ==
    ASSUME NEW rs \in Seq(RunRecord)
    PROVE  /\ HeldByEach(rs) \in Seq(Nat) /\ Len(HeldByEach(rs)) = Len(rs)
           /\ \A i \in 1 .. Len(rs) : HeldByEach(rs)[i] = HeldChars(rs[i]) /\ HeldChars(rs[i]) \in Nat
  <1>1. DOMAIN rs = 1 .. Len(rs) /\ Len(rs) \in Nat
    OBVIOUS
  <1>2. ASSUME NEW i \in 1 .. Len(rs) PROVE rs[i].bodies \in Seq(Nat)
    <2>1. rs[i] \in RunRecord
      OBVIOUS
    <2> QED
      BY <2>1 DEF RunRecord
  <1>3. \A i \in 1 .. Len(rs) : HeldChars(rs[i]) \in Nat
    BY <1>2, TotalIsNat DEF HeldChars
  <1>4. HeldByEach(rs) = [i \in 1 .. Len(rs) |-> HeldChars(rs[i])]
    BY <1>1 DEF HeldByEach
  <1> QED
    BY <1>1, <1>3, <1>4

\* Sequences of runs that hold the same.
LEMMA HeldSame ==
    ASSUME NEW s \in Seq(RunRecord), NEW t \in Seq(RunRecord), Len(s) = Len(t),
           \A i \in 1 .. Len(s) : s[i].bodies = t[i].bodies
    PROVE  HeldByEach(s) = HeldByEach(t)
  <1>1. DOMAIN s = 1 .. Len(s) /\ DOMAIN t = 1 .. Len(s)
    OBVIOUS
  <1>2. \A i \in 1 .. Len(s) : HeldChars(s[i]) = HeldChars(t[i])
    BY DEF HeldChars
  <1> QED
    BY <1>1, <1>2 DEF HeldByEach

LEMMA NewRunHeld ==
    ASSUME NEW rs \in Seq(RunRecord), NEW r \in RunRecord, r.bodies = <<>>
    PROVE  Total(HeldByEach(Append(rs, r))) = Total(HeldByEach(rs))
  <1> DEFINE h == HeldByEach(rs)
             g == HeldByEach(Append(rs, r))
  <1>1. Append(rs, r) \in Seq(RunRecord) /\ Len(Append(rs, r)) = Len(rs) + 1
        /\ Append(rs, r)[Len(rs) + 1] = r /\ \A i \in 1 .. Len(rs) : Append(rs, r)[i] = rs[i]
    OBVIOUS
  <1>2. HeldChars(r) = 0
    BY TotalOfNone DEF HeldChars
  <1>3. h \in Seq(Nat) /\ Len(h) = Len(rs) /\ \A i \in 1 .. Len(rs) : h[i] = HeldChars(rs[i])
    BY EachHeld
  <1>4. g \in Seq(Nat) /\ Len(g) = Len(rs) + 1
        /\ \A i \in 1 .. Len(rs) + 1 : g[i] = HeldChars(Append(rs, r)[i])
    BY <1>1, EachHeld
  <1>5. \A i \in 1 .. Len(rs) : g[i] = h[i]
    BY <1>1, <1>3, <1>4
  <1>6. g[Len(rs) + 1] = 0
    BY <1>1, <1>2, <1>4
  <1> HIDE DEF g, h
  <1>7. g = Append(h, 0)
    BY <1>3, <1>4, <1>5, <1>6
  <1>8. Total(g) = Total(h) + 0 /\ Total(h) \in Nat
    BY <1>3, <1>7, TotalAppend, TotalIsNat
  <1>9. Total(g) = Total(h)
    BY <1>8
  <1> QED
    BY <1>9 DEF g, h

\* Two sequences of numbers of one length and with the same elements are one.
LEMMA SameSequence ==
    ASSUME NEW k \in Seq(Nat), NEW g \in Seq(Nat), Len(k) = Len(g),
           \A i \in 1 .. Len(g) : k[i] = g[i]
    PROVE  k = g
  <1>1. DOMAIN k = 1 .. Len(g) /\ DOMAIN g = 1 .. Len(g)
    OBVIOUS
  <1>2. k = [i \in 1 .. Len(g) |-> k[i]] /\ g = [i \in 1 .. Len(g) |-> g[i]]
    BY <1>1
  <1> QED
    BY <1>2

LEMMA EvictionHeld ==
    ASSUME NEW rs \in Seq(RunRecord), rs # <<>>
    PROVE  /\ Tail(rs) \in Seq(RunRecord) /\ Len(Tail(rs)) = Len(rs) - 1
           /\ Total(HeldByEach(Tail(rs))) = Total(HeldByEach(rs)) - HeldChars(Head(rs))
  <1> DEFINE h == HeldByEach(rs)
             g == HeldByEach(Tail(rs))
  <1>1. Tail(rs) \in Seq(RunRecord) /\ Len(Tail(rs)) = Len(rs) - 1 /\ Len(rs) >= 1 /\ Len(rs) \in Nat
        /\ Head(rs) = rs[1] /\ \A i \in 1 .. Len(rs) - 1 : Tail(rs)[i] = rs[i + 1]
    OBVIOUS
  <1>2. h \in Seq(Nat) /\ Len(h) = Len(rs) /\ \A i \in 1 .. Len(rs) : h[i] = HeldChars(rs[i])
    BY EachHeld
  <1>3. g \in Seq(Nat) /\ Len(g) = Len(rs) - 1
        /\ \A i \in 1 .. Len(rs) - 1 : g[i] = HeldChars(Tail(rs)[i])
    BY <1>1, EachHeld
  <1>4. \A i \in 1 .. Len(rs) - 1 : g[i] = h[i + 1]
    BY <1>1, <1>2, <1>3
  <1>5. h[1] = HeldChars(Head(rs))
    BY <1>1, <1>2
  <1> HIDE DEF g, h
  <1>6. h # <<>> /\ g = Tail(h)
    <2>1. h # <<>> /\ Len(h) >= 1
      BY <1>1, <1>2
    <2>2. Tail(h) \in Seq(Nat) /\ Len(Tail(h)) = Len(g)
          /\ \A i \in 1 .. Len(h) - 1 : Tail(h)[i] = h[i + 1]
      BY <1>2, <1>3, <2>1
    <2>3. \A i \in 1 .. Len(g) : Tail(h)[i] = g[i]
      BY <1>2, <1>3, <1>4, <2>2
    <2>4. PICK k \in Seq(Nat) : k = Tail(h)
      BY <2>2
    <2>5. Len(k) = Len(g) /\ \A i \in 1 .. Len(g) : k[i] = g[i]
      BY ONLY <2>2, <2>3, <2>4
    <2>6. g \in Seq(Nat)
      BY ONLY <1>3
    <2>7. k = g
      BY ONLY <2>4, <2>5, <2>6, SameSequence
    <2> QED
      BY ONLY <2>1, <2>4, <2>7
  <1>7. Total(g) = Total(h) - h[1]
    BY <1>2, <1>6, TotalTail
  <1> QED
    BY <1>1, <1>5, <1>7 DEF g, h

LEMMA DroppedHeld ==
    ASSUME NEW r \in RunRecord
    PROVE  Dropped(r) \in RunRecord /\ HeldChars(Dropped(r)) = 0
  <1> DEFINE z == [j \in DOMAIN r.bodies |-> 0]
  <1>1. r.bodies \in Seq(Nat)
    BY DEF RunRecord
  <1>2. z \in Seq(Nat) /\ Len(z) = Len(r.bodies) /\ Len(z) \in Nat
        /\ \A k \in 1 .. Len(z) : z[k] = 0
    BY <1>1
  <1>3. Dropped(r) = [id |-> r.id, module |-> r.module, outcome |-> r.outcome, bodies |-> z]
    BY DEF Dropped, RunRecord
  <1> HIDE DEF z
  <1>4. Dropped(r) \in RunRecord /\ Dropped(r).bodies = z
    BY <1>2, <1>3 DEF RunRecord
  <1>5. Total(z) = Total(z) - Sums(z)[Len(z)]
    BY <1>2, TotalCut
  <1>6. Total(z) \in Nat
    BY <1>2, TotalIsNat
  <1>7. Total(z) = 0
    BY <1>5, <1>6 DEF Total
  <1> QED
    BY <1>4, <1>7 DEF HeldChars

\* enforceBodyBudget counts what it drops and ends within the budget.
LEMMA BudgetKept ==
    ASSUME NEW rs \in Seq(RunRecord), NEW n, n = Total(HeldByEach(rs)), MaxChars \in Nat
    PROVE  LET b == Budgeted(rs, n)
           IN /\ b.rs \in Seq(RunRecord) /\ Len(b.rs) = Len(rs)
              /\ b.n = Total(HeldByEach(b.rs)) /\ b.n <= MaxChars
  <1> DEFINE h == HeldByEach(rs)
             left == [i \in 0 .. Len(rs) |-> n - Sums(h)[i]]
             Ends(i) == /\ left[i] <= MaxChars \/ i = Len(rs)
                        /\ \A j \in 0 .. i - 1 : left[j] > MaxChars
             last == CHOOSE i \in 0 .. Len(rs) : Ends(i)
             kept == [i \in DOMAIN rs |-> IF i <= last THEN Dropped(rs[i]) ELSE rs[i]]
  <1>1. h \in Seq(Nat) /\ Len(h) = Len(rs) /\ Len(rs) \in Nat /\ DOMAIN rs = 1 .. Len(rs)
        /\ \A i \in 1 .. Len(rs) : h[i] = HeldChars(rs[i])
    BY EachHeld
  <1>2. n \in Nat /\ \A i \in 0 .. Len(rs) : Sums(h)[i] \in Nat
    BY <1>1, SumsAdd, TotalIsNat
  <1> HIDE DEF h
  <1>3. \A i \in 0 .. Len(rs) : left[i] = n - Sums(h)[i] /\ left[i] \in Int
    BY <1>1, <1>2
  <1>4. Budgeted(rs, n) = [rs |-> kept, n |-> left[last]]
    BY DEF Budgeted, h
  <1> HIDE DEF left
  <1>5. \E i \in 0 .. Len(rs) : Ends(i)
    <2> DEFINE T == {i \in 0 .. Len(rs) : left[i] <= MaxChars \/ i = Len(rs)}
    <2>1. T \subseteq Nat /\ Len(rs) \in T
      BY <1>1
    <2>2. PICK i \in T : \A y \in T : i <= y
      BY <2>1, LeastNatural
    <2>3. ASSUME NEW j \in 0 .. i - 1 PROVE left[j] > MaxChars
      <3>1. j \in 0 .. Len(rs) /\ j < i /\ j \notin T
        BY <1>1, <2>2
      <3> QED
        BY <1>3, <3>1
    <2> QED
      BY <2>2, <2>3
  <1> HIDE DEF Ends
  <1>6. last \in 0 .. Len(rs) /\ Ends(last)
    BY <1>5
  <1> HIDE DEF last
  <1>7. kept \in Seq(RunRecord) /\ Len(kept) = Len(rs)
        /\ \A i \in 1 .. Len(rs) : kept[i] = IF i <= last THEN Dropped(rs[i]) ELSE rs[i]
    <2>1. \A i \in 1 .. Len(rs) : rs[i] \in RunRecord
      OBVIOUS
    <2>2. kept \in [1 .. Len(rs) -> RunRecord]
      BY <1>1, <2>1, DroppedHeld
    <2> QED
      BY <1>1, <2>2
  <1> HIDE DEF kept
  <1>8. HeldByEach(kept) \in Seq(Nat) /\ Len(HeldByEach(kept)) = Len(rs)
        /\ \A i \in 1 .. Len(rs) : HeldByEach(kept)[i] = HeldChars(kept[i])
    BY <1>7, EachHeld
  <1>9. \A i \in 1 .. Len(rs) : HeldByEach(kept)[i] = IF i <= last THEN 0 ELSE h[i]
    <2>1. \A i \in 1 .. Len(rs) : rs[i] \in RunRecord
      OBVIOUS
    <2>2. \A i \in 1 .. Len(rs) : HeldChars(kept[i]) = IF i <= last THEN 0 ELSE HeldChars(rs[i])
      BY <1>7, <2>1, DroppedHeld
    <2> QED
      BY <1>1, <1>8, <2>2
  <1>10. Total(HeldByEach(kept)) = Total(h) - Sums(h)[last]
    BY <1>1, <1>6, <1>8, <1>9, TotalCut
  <1>11. Total(HeldByEach(kept)) = left[last]
    BY <1>3, <1>6, <1>10 DEF h
  <1>12. left[last] <= MaxChars
    <2>1. CASE last = Len(rs)
      <3>1. left[last] = n - n
        BY <1>1, <1>3, <1>6, <2>1 DEF h, Total
      <3> QED
        BY <1>2, <3>1
    <2>2. CASE last # Len(rs)
      BY <1>6, <2>2 DEF Ends
    <2> QED
      BY <2>1, <2>2
  <1> QED
    BY <1>4, <1>7, <1>11, <1>12

LEMMA BodiesUntouched ==
    ASSUME BodiesInv, UNCHANGED <<runs, chars, started>>
    PROVE  BodiesInv'
  BY DEF BodiesInv, RunsTypeOK, BodiesAccounted

LEMMA RunStartedBodies ==
    ASSUME BodiesInv, NEW m \in Module, RunStarted(m)
    PROVE  BodiesInv'
  <1> DEFINE r == [id |-> started + 1, module |-> m, outcome |-> "running", bodies |-> <<>>]
             full == Len(runs) = MaxRuns
  <1>1. runs \in Seq(RunRecord) /\ Len(runs) <= MaxRuns /\ Len(runs) \in Nat /\ started \in Nat
        /\ MaxRuns \in Nat /\ MaxRuns >= 1 /\ MaxChars \in Nat
        /\ chars = Total(HeldByEach(runs)) /\ chars <= MaxChars
    BY ConsoleAssumption DEF BodiesInv, RunsTypeOK, BodiesAccounted
  <1>2. r \in RunRecord /\ r.bodies = <<>>
    BY <1>1 DEF RunRecord
  <1>3. /\ runs' = PushBounded(runs, r, MaxRuns)
        /\ chars' = IF full THEN chars - HeldChars(Head(runs)) ELSE chars
        /\ started' = started + 1
    BY DEF RunStarted, Evicted
  <1> HIDE DEF r
  <1>4. /\ runs' \in Seq(RunRecord) /\ Len(runs') <= MaxRuns
        /\ chars' = Total(HeldByEach(runs')) /\ chars' <= MaxChars
    <2>1. CASE full
      <3>1. runs # <<>>
        BY <1>1, <2>1
      <3>2. /\ Tail(runs) \in Seq(RunRecord) /\ Len(Tail(runs)) = Len(runs) - 1
            /\ Total(HeldByEach(Tail(runs))) = chars - HeldChars(Head(runs))
        BY <1>1, <3>1, EvictionHeld
      <3>3. SubSeq(runs, Len(runs) - MaxRuns + 2, Len(runs)) = Tail(runs)
        <4>1. Len(runs) - MaxRuns + 2 = 2
          BY <1>1, <2>1
        <4>2. SubSeq(runs, 2, Len(runs)) = Tail(runs)
          BY <1>1, <3>1
        <4> QED
          BY <4>1, <4>2
      <3>4. runs' = Append(Tail(runs), r)
        BY <1>1, <1>3, <2>1, <3>3 DEF PushBounded
      <3>5. runs' \in Seq(RunRecord) /\ Len(runs') = Len(runs)
        BY <1>1, <1>2, <3>2, <3>4
      <3>6. Total(HeldByEach(runs')) = Total(HeldByEach(Tail(runs)))
        BY <1>2, <3>2, <3>4, NewRunHeld
      <3>7. HeldChars(Head(runs)) \in Nat
        BY <1>1, <3>1, EachHeld
      <3>8. chars \in Nat
        BY <1>1, EachHeld, TotalIsNat
      <3> QED
        BY <1>1, <1>3, <2>1, <3>2, <3>5, <3>6, <3>7, <3>8
    <2>2. CASE ~ full
      <3>1. runs' = Append(runs, r) /\ chars' = chars
        BY <1>1, <1>3, <2>2 DEF PushBounded
      <3>2. runs' \in Seq(RunRecord) /\ Len(runs') = Len(runs) + 1
        BY <1>1, <1>2, <3>1
      <3>3. Total(HeldByEach(runs')) = Total(HeldByEach(runs))
        BY <1>1, <1>2, <3>1, NewRunHeld
      <3> QED
        BY <1>1, <2>2, <3>1, <3>2, <3>3
    <2> QED
      BY <2>1, <2>2
  <1>5. started' \in Nat
    BY <1>1, <1>3
  <1> QED
    BY <1>4, <1>5 DEF BodiesInv, RunsTypeOK, BodiesAccounted

LEMMA RequestFinishedBodies ==
    ASSUME BodiesInv, NEW i \in DOMAIN runs, NEW n \in BodyChars, RequestFinished(i, n)
    PROVE  BodiesInv'
  <1> DEFINE held == [runs EXCEPT ![i].bodies = Append(@, n)]
             b == Budgeted(held, chars + n)
  <1>1. runs \in Seq(RunRecord) /\ Len(runs) <= MaxRuns /\ Len(runs) \in Nat /\ started \in Nat
        /\ MaxChars \in Nat /\ chars = Total(HeldByEach(runs)) /\ n \in Nat /\ i \in 1 .. Len(runs)
        /\ DOMAIN runs = 1 .. Len(runs)
    BY ConsoleAssumption DEF BodiesInv, RunsTypeOK, BodiesAccounted
  <1>2. runs' = b.rs /\ chars' = b.n /\ started' = started
    BY DEF RequestFinished
  <1>3. runs[i] \in RunRecord /\ runs[i].bodies \in Seq(Nat)
    <2>1. runs[i] \in RunRecord
      BY <1>1
    <2> QED
      BY <2>1 DEF RunRecord
  <1> DEFINE r == [runs[i] EXCEPT !.bodies = Append(@, n)]
  <1>4. r \in RunRecord /\ r.bodies = Append(runs[i].bodies, n)
    <2>1. PICK w : w = Append(runs[i].bodies, n)
      OBVIOUS
    <2>2. w \in Seq(Nat)
      BY <1>1, <1>3, <2>1
    <2>3. r = [runs[i] EXCEPT !.bodies = w]
      BY <2>1
    <2> QED
      BY <1>3, <2>1, <2>2, <2>3 DEF RunRecord
  <1>5. held = [runs EXCEPT ![i] = r]
    OBVIOUS
  <1> HIDE DEF r
  <1>6. /\ held \in Seq(RunRecord) /\ Len(held) = Len(runs)
        /\ \A k \in 1 .. Len(runs) : held[k] = IF k = i THEN r ELSE runs[k]
    <2>1. r \in RunRecord
      BY <1>4
    <2>2. runs \in Seq(RunRecord) /\ i \in 1 .. Len(runs) /\ Len(runs) \in Nat
      BY <1>1
    <2>3. held \in Seq(RunRecord) /\ Len(held) = Len(runs)
      BY <1>5, <2>1, <2>2
    <2>4. DOMAIN runs = 1 .. Len(runs)
      BY <1>1
    <2>5. \A k \in 1 .. Len(runs) : held[k] = IF k = i THEN r ELSE runs[k]
      BY <1>5, <2>4
    <2> QED
      BY <2>3, <2>5
  <1> HIDE DEF held
  <1>7. HeldChars(r) = HeldChars(runs[i]) + n
    BY <1>1, <1>3, <1>4, TotalAppend DEF HeldChars
  <1>8. /\ HeldByEach(runs) \in Seq(Nat) /\ Len(HeldByEach(runs)) = Len(runs)
        /\ \A k \in 1 .. Len(runs) : HeldByEach(runs)[k] = HeldChars(runs[k])
    BY <1>1, EachHeld
  <1>9. /\ HeldByEach(held) \in Seq(Nat) /\ Len(HeldByEach(held)) = Len(runs)
        /\ \A k \in 1 .. Len(runs) : HeldByEach(held)[k] = HeldChars(held[k])
    BY <1>6, EachHeld
  <1>10. \A k \in 1 .. Len(runs) :
            HeldByEach(held)[k] = IF k = i THEN HeldByEach(runs)[k] + n ELSE HeldByEach(runs)[k]
    BY <1>6, <1>7, <1>8, <1>9
  <1>11. Total(HeldByEach(held)) = Total(HeldByEach(runs)) + n
    BY <1>1, <1>8, <1>9, <1>10, TotalRaised
  <1>12. chars + n = Total(HeldByEach(held))
    BY <1>1, <1>11
  <1>13. /\ b.rs \in Seq(RunRecord) /\ Len(b.rs) = Len(held)
         /\ b.n = Total(HeldByEach(b.rs)) /\ b.n <= MaxChars
    BY <1>1, <1>6, <1>12, BudgetKept
  <1> HIDE DEF b
  <1> QED
    BY <1>1, <1>2, <1>6, <1>13 DEF BodiesInv, RunsTypeOK, BodiesAccounted

LEMMA RunFinishedBodies ==
    ASSUME BodiesInv, NEW i \in DOMAIN runs, RunFinished(i)
    PROVE  BodiesInv'
  <1>1. runs \in Seq(RunRecord) /\ Len(runs) <= MaxRuns /\ Len(runs) \in Nat
        /\ i \in 1 .. Len(runs) /\ DOMAIN runs = 1 .. Len(runs)
    BY DEF BodiesInv, RunsTypeOK
  <1>2. PICK outcome \in {"complete", "error"} : runs' = [runs EXCEPT ![i].outcome = outcome]
    BY DEF RunFinished
  <1>3. chars' = chars /\ started' = started
    BY DEF RunFinished
  <1> DEFINE r == [runs[i] EXCEPT !.outcome = outcome]
  <1>4. r \in RunRecord /\ r.bodies = runs[i].bodies
    <2>1. runs[i] \in RunRecord
      BY <1>1
    <2> QED
      BY <1>2, <2>1 DEF RunRecord
  <1>5. runs' = [runs EXCEPT ![i] = r]
    BY <1>2
  <1> HIDE DEF r
  <1>6. /\ runs' \in Seq(RunRecord) /\ Len(runs') = Len(runs)
        /\ \A k \in 1 .. Len(runs) : runs'[k].bodies = runs[k].bodies
    BY <1>1, <1>4, <1>5
  <1>7. HeldByEach(runs') = HeldByEach(runs)
    BY <1>1, <1>6, HeldSame
  <1> QED
    BY <1>1, <1>3, <1>6, <1>7 DEF BodiesInv, RunsTypeOK, BodiesAccounted

LEMMA NoRunsBodies == ASSUME runs = <<>>, chars = 0, started = 0 PROVE BodiesInv
  <1>1. HeldByEach(<<>>) = <<>>
    BY DEF HeldByEach
  <1>2. Total(HeldByEach(runs)) = 0
    BY <1>1, TotalOfNone
  <1> QED
    BY <1>2, ConsoleAssumption DEF BodiesInv, RunsTypeOK, BodiesAccounted

LEMMA RestartBodies == ASSUME Restart PROVE BodiesInv'
  <1>1. runs' = <<>> /\ chars' = 0 /\ started' = 0
    BY DEF Restart
  <1>2. HeldByEach(<<>>) = <<>>
    BY DEF HeldByEach
  <1>3. Total(HeldByEach(runs')) = 0
    BY <1>1, <1>2, TotalOfNone
  <1> QED
    BY <1>1, <1>3, ConsoleAssumption DEF BodiesInv, RunsTypeOK, BodiesAccounted

LEMMA ConsoleStepBodies == ASSUME BodiesInv, [ConsoleNext]_consoleVars PROVE BodiesInv'
  <1>1. CASE UNCHANGED consoleVars
    BY <1>1, BodiesUntouched DEF consoleVars
  <1>2. ASSUME NEW m \in Module, RunStarted(m) PROVE BodiesInv'
    BY <1>2, RunStartedBodies
  <1>3. ASSUME NEW i \in DOMAIN runs, RunFinished(i) PROVE BodiesInv'
    BY <1>3, RunFinishedBodies
  <1>4. ASSUME NEW i \in DOMAIN runs, NEW n \in BodyChars, RequestFinished(i, n) PROVE BodiesInv'
    BY <1>4, RequestFinishedBodies
  <1>5. CASE Restart
    BY <1>5, RestartBodies
  <1>6. CASE \E s \in Socket : \/ ConnOpened(s) \/ Auth(s) \/ Verified(s) \/ Redeemed(s) \/ ConnClosed(s)
                               \/ \E c \in Client : Hello(s, c)
    <2>1. UNCHANGED <<runs, chars, started>>
      BY <1>6 DEF ConnOpened, Auth, Verified, Redeemed, ConnClosed, Hello
    <2> QED
      BY <2>1, BodiesUntouched
  <1>7. CASE UpgradeRejected \/ \E failed \in BOOLEAN : ImportFinished(failed)
    <2>1. UNCHANGED <<runs, chars, started>>
      BY <1>7 DEF UpgradeRejected, ImportFinished
    <2> QED
      BY <2>1, BodiesUntouched
  <1>8. CASE \/ \E open \in around.pages : OpenPage(open[1], open[2])
             \/ Answer \/ Answered \/ Receive \/ TimerFires \/ Pause \/ Resume
             \/ FlushStats \/ Login \/ SessionEnds \/ Subscribe \/ StreamLost
    <2>1. UNCHANGED <<runs, chars, started>>
      BY <1>8 DEF OpenPage, Answer, Answered, Receive, TimerFires, Pause, Resume, FlushStats, Login,
                  SessionEnds, Subscribe, StreamLost
    <2> QED
      BY <2>1, BodiesUntouched
  <1> QED
    BY <1>1, <1>2, <1>3, <1>4, <1>5, <1>6, <1>7, <1>8 DEF ConsoleNext

\* The console counts the bodies it holds, and never more than the budget, for
\* any number of runs, requests, evictions and restarts (enforceBodyBudget,
\* evictRun).
THEOREM ConsoleBodiesAccounted == ConsoleSpec => []BodiesAccounted
  <1>1. ConsoleInit => BodiesInv
    BY NoRunsBodies DEF ConsoleInit
  <1>2. BodiesInv /\ [ConsoleNext]_consoleVars => BodiesInv'
    BY ConsoleStepBodies
  <1>3. BodiesInv => BodiesAccounted
    BY DEF BodiesInv
  <1> QED
    BY <1>1, <1>2, <1>3, PTL DEF ConsoleSpec

-----------------------------------------------------------------------------
(* Picks and results (ListrOverlay).                                       *)

OptionLists == {OptionsOf(films) : films \in Searches}

\* Among options with a pick, the film is the one picked.
PickedFilm(inputs, choice, film) ==
    /\ Given(choice) /\ ~ById(inputs)
    /\ Given(inputs.picked) /\ inputs.picked.options = choice /\ inputs.picked.value \in Range(choice)
    => film = inputs.picked.value

PickTypeOK ==
    Given(pick) =>
        /\ DOMAIN pick = {"value", "options", "query"}
        /\ pick.value \in Film /\ pick.options \in OptionLists
        /\ pick.value \in Range(pick.options)

BoardTypeOK ==
    /\ DOMAIN onBoard = {"integrations", "config", "schema"}
    /\ onBoard.integrations \in Seq({"omdb", "other"})
    /\ \A key \in DOMAIN onBoard.schema : onBoard.schema[key] \in DOMAIN Convertible

FoundOK ==
    Given(found) =>
        /\ DOMAIN found = {"status", "inputs", "film", "choice"}
        /\ found.choice \in OptionLists \union {Unfilled}
        /\ found.status = "complete" => Given(found.inputs) /\ PickedFilm(found.inputs, found.choice, found.film)

LookupOK ==
    Given(lookup) =>
        /\ DOMAIN lookup = {"inputs", "config", "stage", "choice", "film"}
        /\ lookup.choice \in OptionLists \union {Unfilled}
        /\ Given(lookup.inputs)
        /\ lookup.stage = "detail" => PickedFilm(lookup.inputs, lookup.choice, lookup.film)

OverlayInv == PickTypeOK /\ BoardTypeOK /\ FoundOK /\ LookupOK

LEMMA OfferedOK == \A films \in Searches : Offered(films) \in OptionLists \union {Unfilled}
  BY DEF Offered, OptionLists

LEMMA BoardsOK == ASSUME onBoard \in Boards PROVE BoardTypeOK
  BY OverlayAssumption DEF BoardTypeOK

LEMMA NewBoardOK == ASSUME NEW b \in Boards, onBoard' = b PROVE BoardTypeOK'
  BY OverlayAssumption DEF BoardTypeOK

LEMMA OverlayInitInv == OverlayInit => OverlayInv
  BY BoardsOK DEF OverlayInit, OverlayInv, PickTypeOK, FoundOK, LookupOK, Given

\* A result that is told replaces the one there was, or is dropped.
LEMMA AnswerKeeps ==
    ASSUME OverlayInv, NEW status, NEW film, NEW choice \in OptionLists \union {Unfilled},
           Given(lookup), AnswerLookup(Result(status, film, choice)),
           status = "complete" => PickedFilm(lookup.inputs, choice, film)
    PROVE  OverlayInv'
  <1>1. /\ lookup' = Unfilled /\ UNCHANGED <<own, pick, onBoard>>
        /\ found' \in {found, Result(status, film, choice)}
    BY DEF AnswerLookup
  <1>2. PickTypeOK' /\ BoardTypeOK' /\ LookupOK'
    BY <1>1 DEF OverlayInv, PickTypeOK, BoardTypeOK, LookupOK, Given
  <1>3. Given(lookup.inputs)
    BY DEF OverlayInv, LookupOK
  <1>4. FoundOK'
    <2>1. CASE found' = found
      BY <2>1 DEF OverlayInv, FoundOK, Given, PickedFilm, ById
    <2>2. CASE found' = Result(status, film, choice)
      <3>1. /\ DOMAIN found' = {"status", "inputs", "film", "choice"}
            /\ found'.choice = choice /\ found'.status = status /\ found'.film = film /\ found'.inputs = lookup.inputs
        BY <2>2 DEF Result
      <3> QED
        BY <1>3, <3>1 DEF FoundOK, Given, PickedFilm, ById
    <2> QED
      BY <1>1, <2>1, <2>2
  <1> QED
    BY <1>2, <1>4 DEF OverlayInv

\* The user's steps: the result stays or goes.
LEMMA ReconsideredKeeps ==
    ASSUME OverlayInv, PickTypeOK', BoardTypeOK', UNCHANGED lookup, Reconsidered
    PROVE  OverlayInv'
  <1>1. found' \in {found, Unfilled}
    BY DEF Reconsidered
  <1>2. FoundOK'
    BY <1>1 DEF OverlayInv, FoundOK, Given, PickedFilm, ById
  <1>3. LookupOK'
    BY DEF OverlayInv, LookupOK, Given, PickedFilm, ById
  <1> QED
    BY <1>2, <1>3 DEF OverlayInv

LEMMA StartLookupKeeps == ASSUME OverlayInv, StartLookup PROVE OverlayInv'
  <1> DEFINE inputs == InputsOf(onBoard.config)
  <1>1. PickTypeOK' /\ BoardTypeOK'
    BY DEF StartLookup, OverlayInv, PickTypeOK, BoardTypeOK, Given
  <1>2. Given(inputs)
    BY DEF StartLookup
  <1>3. lookup' = [inputs |-> inputs, config |-> onBoard.config, stage |-> IF ById(inputs) THEN "detail" ELSE "search",
                   choice |-> Unfilled, film |-> IF ById(inputs) THEN inputs.imdb_id ELSE Unfilled]
    BY DEF StartLookup
  <1>4. \/ found' = found
        \/ Given(found) /\ found' = [found EXCEPT !.status = "unprocessed"]
        \/ found' = [status |-> "unprocessed", inputs |-> Unfilled, film |-> Unfilled, choice |-> Unfilled]
    BY DEF StartLookup
  <1> HIDE DEF inputs
  <1>5. LookupOK'
    BY <1>2, <1>3 DEF LookupOK, Given, PickedFilm
  <1>6. FoundOK'
    <2>1. CASE found' = found
      BY <2>1 DEF OverlayInv, FoundOK, Given, PickedFilm, ById
    <2>2. CASE Given(found) /\ found' = [found EXCEPT !.status = "unprocessed"]
      <3>1. DOMAIN found = {"status", "inputs", "film", "choice"} /\ found.choice \in OptionLists \union {Unfilled}
        BY <2>2 DEF OverlayInv, FoundOK
      <3>2. DOMAIN found' = {"status", "inputs", "film", "choice"} /\ found'.choice = found.choice
            /\ found'.status = "unprocessed"
        BY <2>2, <3>1
      <3> QED
        BY <3>1, <3>2 DEF FoundOK
    <2>3. CASE found' = [status |-> "unprocessed", inputs |-> Unfilled, film |-> Unfilled, choice |-> Unfilled]
      BY <2>3 DEF FoundOK
    <2> QED
      BY <1>4, <2>1, <2>2, <2>3
  <1> QED
    BY <1>1, <1>5, <1>6 DEF OverlayInv

\* The film looked up is the one picked among these options.
LEMMA ChosenIsPicked ==
    ASSUME NEW films \in Searches, NEW inputs
    PROVE  PickedFilm(inputs, Offered(films), Chosen(inputs, films))
  BY DEF PickedFilm, Offered, Chosen, Given

LEMMA SearchKeeps == ASSUME OverlayInv, NEW films \in Searches, SearchAnswered(films) PROVE OverlayInv'
  <1> DEFINE film == Chosen(lookup.inputs, films)
  <1>1. Given(lookup) /\ Offered(films) \in OptionLists \union {Unfilled}
    BY OfferedOK DEF SearchAnswered
  <1>2. PickedFilm(lookup.inputs, Offered(films), film)
    BY ChosenIsPicked
  <1>3. CASE AnswerLookup(Result("not_found", Unfilled, Unfilled))
    BY <1>1, <1>3, AnswerKeeps
  <1>4. CASE AnswerLookup(Result("ambiguous", Unfilled, Offered(films)))
    BY <1>1, <1>4, AnswerKeeps
  <1>5. CASE /\ lookup' = [lookup EXCEPT !.stage = "detail", !.choice = Offered(films), !.film = film]
             /\ UNCHANGED <<own, pick, onBoard, found, spent>>
    <2> HIDE DEF film
    <2>1. DOMAIN lookup = {"inputs", "config", "stage", "choice", "film"} /\ Given(lookup.inputs)
      BY <1>1 DEF OverlayInv, LookupOK
    <2>2. PICK c : c = Offered(films)
      OBVIOUS
    <2>3. /\ DOMAIN lookup' = {"inputs", "config", "stage", "choice", "film"}
          /\ lookup'.inputs = lookup.inputs /\ lookup'.choice = c /\ lookup'.film = film
      BY <1>5, <2>1, <2>2
    <2>4. LookupOK'
      BY <1>1, <1>2, <2>1, <2>2, <2>3 DEF LookupOK, Given, PickedFilm, ById
    <2>5. PickTypeOK' /\ BoardTypeOK' /\ FoundOK'
      BY <1>5 DEF OverlayInv, PickTypeOK, BoardTypeOK, FoundOK, Given, PickedFilm, ById
    <2> QED
      BY <2>4, <2>5 DEF OverlayInv
  <1> QED
    BY <1>3, <1>4, <1>5 DEF SearchAnswered

LEMMA DetailKeeps == ASSUME OverlayInv, NEW ok \in BOOLEAN, DetailAnswered(ok) PROVE OverlayInv'
  <1>1. /\ Given(lookup) /\ lookup.choice \in OptionLists \union {Unfilled}
        /\ PickedFilm(lookup.inputs, lookup.choice, lookup.film)
    BY DEF DetailAnswered, OverlayInv, LookupOK
  <1>2. CASE AnswerLookup(Result("complete", lookup.film, lookup.choice))
    BY <1>1, <1>2, AnswerKeeps
  <1>3. CASE AnswerLookup(Result("not_found", Unfilled, lookup.choice))
    BY <1>1, <1>3, AnswerKeeps
  <1> QED
    BY <1>2, <1>3 DEF DetailAnswered

LEMMA FailureKeeps == ASSUME OverlayInv, LookupFails PROVE OverlayInv'
  <1>1. lookup' = Unfilled /\ UNCHANGED <<own, pick, onBoard>>
    BY DEF LookupFails
  <1>2. PickTypeOK' /\ BoardTypeOK' /\ LookupOK'
    BY <1>1 DEF OverlayInv, PickTypeOK, BoardTypeOK, LookupOK, Given
  <1>3. CASE Given(found) /\ found' = [found EXCEPT !.status = "error", !.inputs = lookup.inputs]
    <2>1. DOMAIN found = {"status", "inputs", "film", "choice"} /\ found.choice \in OptionLists \union {Unfilled}
      BY <1>3 DEF OverlayInv, FoundOK
    <2>2. PICK i : i = lookup.inputs
      OBVIOUS
    <2>3. DOMAIN found' = {"status", "inputs", "film", "choice"} /\ found'.choice = found.choice
          /\ found'.status = "error"
      BY <1>3, <2>1, <2>2
    <2> QED
      BY <1>2, <2>1, <2>3 DEF OverlayInv, FoundOK
  <1>4. CASE found' = [status |-> "error", inputs |-> lookup.inputs, film |-> Unfilled, choice |-> Unfilled]
    BY <1>2, <1>4 DEF OverlayInv, FoundOK
  <1> QED
    BY <1>3, <1>4 DEF LookupFails

LEMMA PickKeeps == ASSUME OverlayInv, NEW film \in Film, Pick(film) PROVE OverlayInv'
  <1>1. /\ Given(found) /\ Given(found.choice) /\ film \in Range(found.choice)
        /\ UNCHANGED <<onBoard, lookup>> /\ Reconsidered
        /\ pick' = [value |-> film, options |-> found.choice, query |-> LookupTitle]
    BY DEF Pick, ApplyPick
  <1>2. found.choice \in OptionLists
    BY <1>1 DEF OverlayInv, FoundOK, Given
  <1>3. PickTypeOK'
    BY <1>1, <1>2 DEF PickTypeOK
  <1>4. BoardTypeOK'
    BY <1>1 DEF OverlayInv, BoardTypeOK
  <1> QED
    BY <1>1, <1>3, <1>4, ReconsideredKeeps

LEMMA OwnKeeps == ASSUME OverlayInv, NEW key, NEW v, SetOwn(key, v) PROVE OverlayInv'
  <1>1. UNCHANGED <<pick, onBoard, lookup>> /\ Reconsidered
    BY DEF SetOwn
  <1>2. PickTypeOK' /\ BoardTypeOK'
    BY <1>1 DEF OverlayInv, PickTypeOK, BoardTypeOK, Given
  <1> QED
    BY <1>1, <1>2, ReconsideredKeeps

LEMMA BoardKeeps ==
    ASSUME OverlayInv, AddSettings \/ \E b \in Boards : EditBoard(b)
    PROVE  OverlayInv'
  <1>1. UNCHANGED <<pick, lookup>> /\ Reconsidered
    BY DEF AddSettings, EditBoard
  <1>2. PickTypeOK'
    BY <1>1 DEF OverlayInv, PickTypeOK, Given
  <1>3. BoardTypeOK'
    <2>1. CASE \E b \in Boards : EditBoard(b)
      BY <2>1, NewBoardOK DEF EditBoard
    <2>2. CASE AddSettings
      <3>1. PICK c : onBoard' = [onBoard EXCEPT !.config = c]
        BY <2>2 DEF AddSettings
      <3>2. BoardTypeOK
        BY DEF OverlayInv
      <3>3. DOMAIN onBoard' = DOMAIN onBoard /\ onBoard'.integrations = onBoard.integrations
            /\ onBoard'.schema = onBoard.schema
        BY <3>1, <3>2 DEF BoardTypeOK
      <3> QED
        BY <3>2, <3>3 DEF BoardTypeOK
    <2> QED
      BY <2>1, <2>2
  <1> QED
    BY <1>1, <1>2, <1>3, ReconsideredKeeps

LEMMA OverlayStepInv == ASSUME OverlayInv, [OverlayNext]_overlayVars PROVE OverlayInv'
  <1>1. CASE UNCHANGED overlayVars
    BY <1>1 DEF overlayVars, OverlayInv, PickTypeOK, BoardTypeOK, FoundOK, LookupOK, Given, PickedFilm, ById
  <1>2. CASE OverlayNext
    BY <1>2, StartLookupKeeps, SearchKeeps, DetailKeeps, FailureKeeps, OwnKeeps, PickKeeps, BoardKeeps
       DEF OverlayNext
  <1> QED
    BY <1>1, <1>2

LEMMA OverlayInvariant == OverlaySpec => []OverlayInv
  BY OverlayInitInv, OverlayStepInv, PTL DEF OverlaySpec

\* The inputs a lookup would have now, with the pick there is.
LEMMA PickedInputs ==
    ASSUME PickTypeOK, NEW config, Given(pick), ~ Given(own.imdb_id), Given(InputsOf(config))
    PROVE  /\ ~ ById(InputsOf(config))
           /\ Given(InputsOf(config).picked)
           /\ InputsOf(config).picked.options = pick.options /\ InputsOf(config).picked.value = pick.value
  <1> DEFINE type == {m \in Meaning(config) : m[1] = <<"type">>}
             picked == [value |-> pick.value, options |-> pick.options]
  <1>1. InputsOf(config) = [title |-> LookupTitle, type |-> type, picked |-> picked]
    BY DEF InputsOf, Given
  <1>2. picked \in [value : Film, options : OptionLists]
    BY DEF PickTypeOK
  <1>3. Given(picked)
    BY <1>2, OverlayAssumption DEF Given, OptionLists
  <1>4. picked.options = pick.options /\ picked.value = pick.value
    OBVIOUS
  <1> HIDE DEF type, picked
  <1>5. InputsOf(config).picked = picked /\ DOMAIN InputsOf(config) = {"title", "type", "picked"}
    BY <1>1
  <1> QED
    BY <1>3, <1>4, <1>5 DEF ById

\* What omdb offers at the head of the board, of a film that is the one picked.
HeadOffers(board) ==
    /\ board.integrations \in Seq({"omdb", "other"})
    /\ board.integrations # <<>> /\ Head(board.integrations) = "omdb"
    /\ \A k \in Range(Keys) : AttributeOf(board, k) = k
    /\ Given(found) /\ found.film \in Film
    /\ Given(found.choice) => Given(pick) /\ pick.options = found.choice

LEMMA KeysAre ==
    /\ DOMAIN Keys = 1 .. 3 /\ Range(Keys) = {"imdb_id", "title", "year"}
    /\ Keys[1] = "imdb_id" /\ Keys[2] = "title" /\ Keys[3] = "year"
  BY DEF Keys, Range

LEMMA ValuesAre ==
    ASSUME NEW film
    PROVE  /\ ValuesOf(film)["imdb_id"] = [kind |-> "word", of |-> film]
           /\ ValuesOf(film)["title"] = [kind |-> "word", of |-> film]
  BY KeysAre DEF ValuesOf

LEMMA FirstOffers ==
    ASSUME NEW board, HeadOffers(board), NEW n \in {1, 2}
    PROVE  /\ <<1, n>> \in OrderResults(board)
           /\ Offer(board, <<1, n>>) = [from |-> "omdb", key |-> Keys[n], target |-> Keys[n],
                                        raw |-> [kind |-> "word", of |-> found.film]]
           /\ ~ PickIsStale(Offer(board, <<1, n>>))
  <1>1. board.integrations[1] = "omdb" /\ 1 \in DOMAIN board.integrations
    BY DEF HeadOffers
  <1>2. n \in DOMAIN Keys /\ Keys[n] \in {"imdb_id", "title"} /\ Keys[n] \in Range(Keys)
    BY KeysAre
  <1>3. Given(found.film)
    BY OverlayAssumption DEF HeadOffers, Given
  <1>4. <<1, n>> \in OrderResults(board)
    BY <1>1, <1>2, <1>3 DEF OrderResults, HeadOffers
  <1>5. ValuesOf(found.film)[Keys[n]] = [kind |-> "word", of |-> found.film]
    BY <1>2, ValuesAre
  <1>6. AttributeOf(board, Keys[n]) = Keys[n]
    BY <1>2 DEF HeadOffers
  <1>7. Offer(board, <<1, n>>) = [from |-> "omdb", key |-> Keys[n], target |-> Keys[n],
                                  raw |-> [kind |-> "word", of |-> found.film]]
    BY <1>1, <1>5, <1>6 DEF Offer
  <1>8. ~ PickIsStale(Offer(board, <<1, n>>))
    BY DEF PickIsStale, HeadOffers
  <1> QED
    BY <1>4, <1>7, <1>8

\* The offer at a place before all others for its attribute wins it.
LEMMA FirstWins ==
    ASSUME NEW board, NEW p \in OrderResults(board), Shown(board, p), NEW key, Offer(board, p).target = key,
           \A w \in OrderResults(board) : Shown(board, w) /\ Offer(board, w).target = key => w = p \/ Before(p, w),
           \A w \in OrderResults(board) : ~ (Before(p, w) /\ Before(w, p))
    PROVE  key \in DOMAIN ResolveOverlay(board) /\ ResolveOverlay(board)[key] = Filling(board, Offer(board, p))
  <1> DEFINE shown == {w \in OrderResults(board) : Shown(board, w)}
             filling(k) == {w \in shown : Offer(board, w).target = k}
             IsFirst(w) == \A r \in filling(key) : r = w \/ Before(w, r)
  <1>1. ResolveOverlay(board)
          = [k \in {Offer(board, w).target : w \in shown} |->
                Filling(board, Offer(board, CHOOSE w \in filling(k) : \A r \in filling(k) : r = w \/ Before(w, r)))]
    BY DEF ResolveOverlay
  <1>2. p \in shown /\ p \in filling(key) /\ IsFirst(p)
    OBVIOUS
  <1>3. ASSUME NEW w \in filling(key), IsFirst(w) PROVE w = p
    <2>1. p = w \/ Before(w, p)
      BY <1>2, <1>3
    <2>2. w = p \/ Before(p, w)
      BY <1>2, <1>3
    <2> QED
      BY <1>3, <2>1, <2>2
  <1>4. (CHOOSE w \in filling(key) : \A r \in filling(key) : r = w \/ Before(w, r)) = p
    BY <1>2, <1>3
  <1>5. key \in {Offer(board, w).target : w \in shown}
    BY <1>2
  <1> QED
    BY <1>1, <1>4, <1>5

LEMMA NoTwoFirsts ==
    ASSUME NEW board, HeadOffers(board)
    PROVE  /\ \A w \in OrderResults(board) : w = <<1, 1>> \/ Before(<<1, 1>>, w)
           /\ \A w \in OrderResults(board) : w \in {<<1, 1>>, <<1, 2>>} \/ Before(<<1, 2>>, w)
           /\ \A p, w \in OrderResults(board) : ~ (Before(p, w) /\ Before(w, p))
  <1>1. \A w \in OrderResults(board) : \E a \in Nat, b \in 1 .. 3 : a >= 1 /\ w = <<a, b>>
    <2>1. DOMAIN board.integrations \subseteq {a \in Nat : a >= 1}
      BY DEF HeadOffers
    <2> QED
      BY <2>1, KeysAre DEF OrderResults
  <1>2. \A w \in OrderResults(board) : w = <<1, 1>> \/ Before(<<1, 1>>, w)
    BY <1>1 DEF Before
  <1>3. \A w \in OrderResults(board) : w \in {<<1, 1>>, <<1, 2>>} \/ Before(<<1, 2>>, w)
    BY <1>1 DEF Before
  <1>4. \A p, w \in OrderResults(board) : ~ (Before(p, w) /\ Before(w, p))
    BY <1>1 DEF Before
  <1> QED
    BY <1>2, <1>3, <1>4

LEMMA IdShown ==
    ASSUME NEW board, HeadOffers(board), ~ Given(own["imdb_id"]),
           "imdb_id" \in DOMAIN board.schema, board.schema["imdb_id"] \in DOMAIN Convertible,
           "word" \in Convertible[board.schema["imdb_id"]]
    PROVE  EffectiveValue(board, "imdb_id") = found.film
  <1> DEFINE p == <<1, 1>>
             v == [kind |-> board.schema["imdb_id"], of |-> found.film]
  <1>1. /\ p \in OrderResults(board) /\ ~ PickIsStale(Offer(board, p))
        /\ Offer(board, p) = [from |-> "omdb", key |-> "imdb_id", target |-> "imdb_id",
                              raw |-> [kind |-> "word", of |-> found.film]]
    BY FirstOffers, KeysAre
  <1>2. Filling(board, Offer(board, p)) = v
    BY <1>1 DEF Filling, CoerceValue
  <1>3. Given(v)
    <2>1. v \in [kind : DOMAIN Convertible \union {"word"}, of : Film]
      BY DEF HeadOffers
    <2> HIDE DEF v
    <2> QED
      BY <2>1, OverlayAssumption DEF Given
  <1>4. Shown(board, p) /\ Offer(board, p).target = "imdb_id"
    <2>1. Offer(board, p).target = "imdb_id"
      BY <1>1
    <2>2. Given(Filling(board, Offer(board, p)))
      BY <1>2, <1>3
    <2>3. Offer(board, p).target # "" /\ ~ PickIsStale(Offer(board, p))
      BY <1>1, <2>1
    <2> QED
      BY <2>1, <2>2, <2>3 DEF Shown
  <1>5. v.of = found.film
    OBVIOUS
  <1> HIDE DEF v, p
  <1>6. "imdb_id" \in DOMAIN ResolveOverlay(board) /\ ResolveOverlay(board)["imdb_id"] = v
    BY <1>1, <1>2, <1>4, NoTwoFirsts, FirstWins DEF p
  <1> QED
    BY <1>5, <1>6 DEF EffectiveValue

LEMMA TitleShown ==
    ASSUME NEW board, HeadOffers(board), ~ Given(own["title"])
    PROVE  EffectiveValue(board, "title") = found.film
  <1> DEFINE p == <<1, 2>>
             v == [kind |-> "word", of |-> found.film]
  <1>1. /\ p \in OrderResults(board) /\ ~ PickIsStale(Offer(board, p))
        /\ Offer(board, p) = [from |-> "omdb", key |-> "title", target |-> "title", raw |-> v]
    BY FirstOffers, KeysAre
  <1>2. Filling(board, Offer(board, p)) = v
    BY <1>1 DEF Filling
  <1>3. Given(v)
    <2>1. v \in [kind : DOMAIN Convertible \union {"word"}, of : Film]
      BY DEF HeadOffers
    <2> HIDE DEF v
    <2> QED
      BY <2>1, OverlayAssumption DEF Given
  <1>4. Shown(board, p) /\ Offer(board, p).target = "title"
    <2>1. Offer(board, p).target = "title"
      BY <1>1
    <2>2. Given(Filling(board, Offer(board, p)))
      BY <1>2, <1>3
    <2>3. Offer(board, p).target # "" /\ ~ PickIsStale(Offer(board, p))
      BY <1>1, <2>1
    <2> QED
      BY <2>1, <2>2, <2>3 DEF Shown
  <1>5. v.of = found.film
    OBVIOUS
  <1>6. Offer(board, <<1, 1>>).target = "imdb_id"
    BY FirstOffers, KeysAre
  <1> HIDE DEF v, p
  <1>7. \A w \in OrderResults(board) : Shown(board, w) /\ Offer(board, w).target = "title" => w = p \/ Before(p, w)
    BY <1>6, NoTwoFirsts DEF p
  <1>8. "title" \in DOMAIN ResolveOverlay(board) /\ ResolveOverlay(board)["title"] = v
    BY <1>1, <1>2, <1>4, <1>7, NoTwoFirsts, FirstWins
  <1> QED
    BY <1>5, <1>8 DEF EffectiveValue

LEMMA PickIsShown == ASSUME OverlayInv PROVE PickShown
  <1> SUFFICES ASSUME Given(found), found.status = "complete", Given(found.choice),
                      found.inputs = InputsOf(onBoard.config),
                      Given(pick), pick.options = found.choice, ~ Given(own.imdb_id)
               PROVE  /\ found.film = pick.value
                      /\ (/\ onBoard.integrations # <<>> /\ Head(onBoard.integrations) = "omdb"
                          /\ \A k \in Range(Keys) : AttributeOf(onBoard, k) = k)
                         => /\ ("imdb_id" \in DOMAIN onBoard.schema /\ "word" \in Convertible[onBoard.schema.imdb_id])
                                 => EffectiveValue(onBoard, "imdb_id") = pick.value
                            /\ EffectiveValue(onBoard, "title") \in {own.title, pick.value}
                            /\ ~ Given(own.title) => EffectiveValue(onBoard, "title") = pick.value
    BY DEF PickShown
  <1>1. Given(found.inputs) /\ PickedFilm(found.inputs, found.choice, found.film)
    BY DEF OverlayInv, FoundOK
  <1>2. PickTypeOK /\ pick.value \in Film /\ pick.value \in Range(pick.options)
    BY DEF OverlayInv, PickTypeOK
  <1>3. found.film = pick.value
    BY <1>1, <1>2, PickedInputs DEF PickedFilm
  <1>4. ASSUME onBoard.integrations # <<>>, Head(onBoard.integrations) = "omdb",
               \A k \in Range(Keys) : AttributeOf(onBoard, k) = k
        PROVE  HeadOffers(onBoard)
    BY <1>2, <1>3, <1>4 DEF HeadOffers, OverlayInv, BoardTypeOK
  <1>5. ASSUME HeadOffers(onBoard), "imdb_id" \in DOMAIN onBoard.schema, "word" \in Convertible[onBoard.schema.imdb_id]
        PROVE  EffectiveValue(onBoard, "imdb_id") = pick.value
    <2>1. onBoard.schema["imdb_id"] \in DOMAIN Convertible
      BY <1>5 DEF OverlayInv, BoardTypeOK
    <2> QED
      BY <1>3, <1>5, <2>1, IdShown
  <1>6. ASSUME HeadOffers(onBoard), ~ Given(own.title) PROVE EffectiveValue(onBoard, "title") = pick.value
    BY <1>3, <1>6, TitleShown
  <1>7. Given(own.title) => EffectiveValue(onBoard, "title") = own.title
    BY DEF EffectiveValue
  <1> QED
    BY <1>3, <1>4, <1>5, <1>6, <1>7

\* Whatever was picked, edited, looked up or answered late, for any films,
\* options and boards: a complete result that is up to date is the picked
\* film's, and that is what the reader sees (run, runJob, applyPick,
\* resolveOverlay).
THEOREM OverlayPickShown == OverlaySpec => []PickShown
  BY OverlayInvariant, PickIsShown, PTL

-----------------------------------------------------------------------------
(***************************************************************************)
(* The device database (ListrDeviceDb).                                    *)
(*                                                                         *)
(* What the requests on the entity's store still do depends on the order   *)
(* in which they wait.  Ordered says how versions pass each other there:   *)
(* a version that has been compared (merge-put) is older than every one    *)
(* that has not, and within each kind they wait by age.  The rest is about *)
(* the requests one by one, as members of Queued(q).                       *)
(***************************************************************************)

USE DbAssumption

-----------------------------------------------------------------------------
(* Sequences and what is in them.                                          *)

Queued(s) == {s[i] : i \in 1 .. Len(s)}

LEMMA QueuedMembers ==
    ASSUME NEW S, NEW s \in Seq(S)
    PROVE  Queued(s) \subseteq S
  BY DEF Queued

LEMMA QueuedHead ==
    ASSUME NEW S, NEW s \in Seq(S), s # <<>>
    PROVE  /\ Head(s) = s[1]
           /\ Head(s) \in S
           /\ Head(s) \in Queued(s)
           /\ Len(s) \in Nat /\ Len(s) >= 1
  <1>1. Len(s) \in Nat /\ Len(s) >= 1 /\ Head(s) = s[1]
    OBVIOUS
  <1> QED
    BY <1>1 DEF Queued

LEMMA QueuedTail ==
    ASSUME NEW S, NEW s \in Seq(S), s # <<>>
    PROVE  /\ Tail(s) \in Seq(S)
           /\ Len(Tail(s)) = Len(s) - 1
           /\ Queued(Tail(s)) \subseteq Queued(s)
  <1>1. /\ Tail(s) \in Seq(S)
        /\ Len(Tail(s)) = Len(s) - 1
        /\ Len(s) \in Nat
        /\ \A i \in 1 .. Len(s) - 1 : Tail(s)[i] = s[i + 1]
    OBVIOUS
  <1> QED
    BY <1>1 DEF Queued

LEMMA QueuedSplit ==
    ASSUME NEW S, NEW s \in Seq(S), s # <<>>
    PROVE  Queued(s) \subseteq Queued(Tail(s)) \union {Head(s)}
  <1> DEFINE n == Len(s)
             t == Tail(s)
  <1>1. /\ n \in Nat /\ n >= 1 /\ Len(t) = n - 1
        /\ \A i \in 1 .. n - 1 : t[i] = s[i + 1]
        /\ Head(s) = s[1]
    OBVIOUS
  <1>2. Queued(t) = {t[i] : i \in 1 .. Len(t)} /\ Queued(s) = {s[i] : i \in 1 .. n}
    BY DEF Queued
  <1> HIDE DEF n, t
  <1>3. \A i \in 1 .. n : s[i] = Head(s) \/ s[i] \in Queued(t)
    <2> SUFFICES ASSUME NEW i \in 1 .. n, i # 1
                 PROVE  s[i] \in Queued(t)
      BY <1>1
    <2>1. i - 1 \in 1 .. Len(t) /\ t[i - 1] = s[i]
      BY <1>1
    <2> QED
      BY <1>2, <2>1
  <1> QED
    BY <1>2, <1>3 DEF t

LEMMA QueuedAppend ==
    ASSUME NEW S, NEW s \in Seq(S), NEW x \in S
    PROVE  /\ Append(s, x) \in Seq(S)
           /\ Len(Append(s, x)) = Len(s) + 1
           /\ Queued(Append(s, x)) = Queued(s) \union {x}
  <1>1. /\ Append(s, x) \in Seq(S)
        /\ Len(Append(s, x)) = Len(s) + 1
        /\ Len(s) \in Nat
        /\ \A i \in 1 .. Len(s) : Append(s, x)[i] = s[i]
        /\ Append(s, x)[Len(s) + 1] = x
    OBVIOUS
  <1> QED
    BY <1>1 DEF Queued

LEMMA Continued ==
    ASSUME NEW S, NEW s \in Seq(S), NEW x \in S
    PROVE  s \o <<>> = s /\ s \o <<x>> = Append(s, x)
  OBVIOUS

LEMMA QueuedEmpty ==
    ASSUME NEW S, NEW s \in Seq(S)
    PROVE  /\ Len(s) \in Nat
           /\ s = <<>> <=> Len(s) = 0
           /\ s = <<>> => Queued(s) = {}
  BY DEF Queued

LEMMA QueuedOne ==
    ASSUME NEW S, NEW s \in Seq(S), Len(s) <= 1, s # <<>>
    PROVE  Tail(s) = <<>> /\ Queued(s) = {Head(s)}
  <1>1. Len(s) = 1 /\ Head(s) = s[1]
    <2>1. Len(s) \in Nat /\ Len(s) >= 1 /\ Head(s) = s[1]
      BY QueuedHead
    <2>2. \A n \in Nat : n >= 1 /\ n <= 1 => n = 1
      OBVIOUS
    <2> QED
      BY <2>1, <2>2
  <1>2. Tail(s) \in Seq(S) /\ Len(Tail(s)) = 0
    BY <1>1, QueuedTail
  <1>3. Tail(s) = <<>>
    BY <1>2, QueuedEmpty
  <1>4. 1 .. Len(s) = {1}
    BY <1>1
  <1> QED
    BY <1>1, <1>3, <1>4 DEF Queued

-----------------------------------------------------------------------------
(* Types.                                                                  *)

LEMMA RequestTypes ==
    ASSUME NEW r \in Request
    PROVE  /\ r.op \in {"merge-get", "merge-put"} =>
                /\ r.ts \in Stamp /\ r.thenDelete \in 0 .. MaxClock
                /\ [r EXCEPT !.op = "merge-put"] \in Request
                /\ [r EXCEPT !.op = "merge-put"].op = "merge-put"
                /\ [r EXCEPT !.op = "merge-put"].ts = r.ts
                /\ [r EXCEPT !.op = "merge-put"].thenDelete = r.thenDelete
           /\ r.op \in {"tomb-get", "tomb-delete"} =>
                /\ r.at \in Stamp
                /\ [r EXCEPT !.op = "tomb-delete"] \in Request
                /\ [r EXCEPT !.op = "tomb-delete"].op = "tomb-delete"
                /\ [r EXCEPT !.op = "tomb-delete"].at = r.at
           /\ r.op = "edit" => r.ts \in Stamp
           /\ r.op \in {"merge-get", "merge-put", "tomb-get", "tomb-delete",
                        "edit", "edit-get", "delete-get", "delete"}
  BY DEF Request, Stamp

LEMMA RequestFields ==
    ASSUME NEW r \in Request
    PROVE  /\ r.op \in {"merge-get", "merge-put", "edit"} => r.ts \in Stamp
           /\ r.op \in {"merge-get", "merge-put"} => r.thenDelete \in 0 .. MaxClock
           /\ r.op \in {"tomb-get", "tomb-delete"} => r.at \in Stamp
  BY DEF Request, Stamp

LEMMA RequestGoesOn ==
    ASSUME NEW r \in Request
    PROVE  /\ r.op = "merge-get" =>
                \E x \in Request :
                    /\ x = [r EXCEPT !.op = "merge-put"] /\ x.op = "merge-put"
                    /\ x.ts = r.ts /\ x.thenDelete = r.thenDelete
           /\ r.op = "tomb-get" =>
                \E x \in Request :
                    /\ x = [r EXCEPT !.op = "tomb-delete"] /\ x.op = "tomb-delete"
                    /\ x.at = r.at
  BY RequestTypes

LEMMA RequestsMade ==
    /\ \A ts \in Stamp, at \in 0 .. MaxClock :
          [op |-> "merge-get", ts |-> ts, thenDelete |-> at] \in Request
    /\ \A at \in Stamp : [op |-> "tomb-get", at |-> at] \in Request
    /\ \A ts \in Stamp : [op |-> "edit", ts |-> ts] \in Request
    /\ [op |-> "edit-get"] \in Request
    /\ [op |-> "delete-get"] \in Request
    /\ [op |-> "delete"] \in Request
    /\ \A at \in Stamp : [at |-> at, local |-> FALSE] \in TombRequest
    /\ \A at \in Stamp : [at |-> at, local |-> TRUE] \in TombRequest
  BY DEF Request, TombRequest

\* The typing of a state, with what the steps need of it at once.
LEMMA DbInitTyped == DbInit => DbTypeOK
  BY DEF DbInit, DbTypeOK, Stamp

\* The lengths the queues of a serial device can have.
LEMMA DbQueues ==
    ASSUME DbTypeOK
    PROVE  /\ q \in Seq(Request) /\ tq \in Seq(TombRequest)
           /\ Len(q) \in Nat /\ Len(tq) \in Nat
           /\ q # <<>> => Len(q) >= 1
           /\ tq # <<>> => Len(tq) >= 1
           /\ q = <<>> => Len(q) = 0
           /\ tq = <<>> => Len(tq) = 0
  BY QueuedEmpty DEF DbTypeOK

LEMMA TombstoneNextTyped ==
    ASSUME DbTypeOK, NEW at \in 0 .. MaxClock, TombstoneNext(at)
    PROVE  tq' \in Seq(TombRequest) /\ Len(tq') <= Len(tq) + 1
  <1>1. CASE at = 0
    BY <1>1, DbQueues DEF TombstoneNext
  <1>2. CASE at # 0
    <2> DEFINE t == [at |-> at, local |-> FALSE]
    <2>1. t \in TombRequest /\ tq' = Append(tq, t)
      <3>1. at \in Stamp
        BY <1>2 DEF Stamp
      <3> QED
        BY <1>2, <3>1, RequestsMade DEF TombstoneNext
    <2> HIDE DEF t
    <2> QED
      BY <2>1, DbQueues, QueuedAppend
  <1> QED
    BY <1>1, <1>2

\* What is left of the entity's queue when its first request has run.
LEMMA ContinueTyped ==
    ASSUME DbTypeOK, q # <<>>, NEW x \in Request,
           q' = Tail(q) \o <<x>> \/ q' = Tail(q) \o <<>>
    PROVE  q' \in Seq(Request) /\ Len(q') \in Nat /\ Len(q') <= Len(q)
  <1>1. q' = Append(Tail(q), x) \/ q' = Tail(q)
    BY DbQueues, QueuedTail, Continued
  <1>2. /\ Tail(q) \in Seq(Request) /\ Len(Tail(q)) = Len(q) - 1
        /\ Len(q) \in Nat /\ Len(q) >= 1
    BY DbQueues, QueuedTail
  <1>3. CASE q' = Tail(q)
    BY <1>2, <1>3
  <1>4. CASE q' = Append(Tail(q), x)
    <2>1. q' \in Seq(Request) /\ Len(q') = Len(Tail(q)) + 1
      BY <1>2, <1>4, QueuedAppend
    <2> DEFINE n == Len(q)
               t == Len(Tail(q))
               m == Len(q')
    <2>2. n \in Nat /\ t = n - 1 /\ m = t + 1
      BY <1>2, <2>1
    <2> HIDE DEF n, t, m
    <2>3. m \in Nat /\ m <= n
      BY <2>2
    <2> QED
      BY <2>1, <2>3 DEF m, n
  <1> QED
    BY <1>1, <1>3, <1>4

LEMMA DbStepTyped ==
    ASSUME DbTypeOK, [DbNext]_dbVars
    PROVE  DbTypeOK'
  <1> USE DbQueues
  <1>t. /\ timing \in Timings
        /\ item \in Stamp \union {NoRow}
        /\ tombAt \in 0 .. MaxClock
        /\ clock \in Stamp
        /\ heard \in 0 .. clock
        /\ userOps \in 0 .. MaxUserOps
        /\ pushed \subseteq Stamp
        /\ timing = "serial" => Len(q) + Len(tq) <= 1
    BY DEF DbTypeOK
  <1>h. q # <<>> => /\ Head(q) \in Request
                    /\ Tail(q) \in Seq(Request) /\ Len(Tail(q)) = Len(q) - 1
                    /\ Tail(q) \o <<>> = Tail(q)
                    /\ \A x \in Request : /\ Tail(q) \o <<x>> \in Seq(Request)
                                          /\ Len(Tail(q) \o <<x>>) = Len(q)
    BY QueuedHead, QueuedTail, QueuedAppend, Continued
  <1>a. \A x \in Request : Append(q, x) \in Seq(Request) /\ Len(Append(q, x)) = Len(q) + 1
    BY QueuedAppend
  <1>b. \A x \in TombRequest :
           Append(tq, x) \in Seq(TombRequest) /\ Len(Append(tq, x)) = Len(tq) + 1
    BY QueuedAppend
  <1>1. CASE DbTick
    BY <1>1, <1>t DEF DbTick, DbTypeOK, Stamp
  <1>2. ASSUME NEW ts \in 0 .. MaxClock, NEW at \in 0 .. MaxClock, Arrive(ts, at)
        PROVE  DbTypeOK'
    <2> DEFINE x == [op |-> "merge-get", ts |-> ts, thenDelete |-> at]
               y == [at |-> at, local |-> FALSE]
    <2>1. IF ts # 0 THEN q' = Append(q, x) /\ tq' = tq ELSE tq' = Append(tq, y) /\ q' = q
      BY <1>2 DEF Arrive
    <2>2. /\ (IF ts = 0 THEN at ELSE ts) \in (heard + 1) .. clock
          /\ heard' = IF ts = 0 THEN at ELSE ts
          /\ UNCHANGED <<timing, item, tombAt, clock, userOps, pushed>>
          /\ timing = "serial" => q = <<>> /\ tq = <<>>
      BY <1>2 DEF Arrive, MayStart, Quiet
    <2>3. (ts # 0 => x \in Request) /\ (ts = 0 => y \in TombRequest)
      <3>1. (ts # 0 => ts \in Stamp) /\ (ts = 0 => at \in Stamp)
        BY <2>2, <1>t DEF Stamp
      <3> QED
        BY <3>1, RequestsMade
    <2> HIDE DEF x, y
    <2>4. heard' \in 0 .. clock
      BY <2>2, <1>t DEF Stamp
    <2>5. /\ q' \in Seq(Request) /\ tq' \in Seq(TombRequest)
          /\ timing = "serial" => Len(q') + Len(tq') <= 1
      <3>1. CASE ts # 0
        BY <3>1, <2>1, <2>2, <2>3, <1>a
      <3>2. CASE ts = 0
        BY <3>2, <2>1, <2>2, <2>3, <1>b
      <3> QED
        BY <3>1, <3>2
    <2> QED
      BY <2>2, <2>4, <2>5, <1>t DEF DbTypeOK
  <1>3. ASSUME NEW r \in Request, UserStarts(r)
        PROVE  DbTypeOK'
    BY <1>3, <1>a, <1>t DEF UserStarts, MayStart, Quiet, DbTypeOK, Stamp
  <1>4. CASE MergeGet
    <2> DEFINE r == Head(q)
               x == [r EXCEPT !.op = "merge-put"]
    <2>1. r \in Request /\ x \in Request /\ r.thenDelete \in 0 .. MaxClock
      BY <1>4, <1>h, RequestTypes DEF MergeGet, Run
    <2>2. /\ q # <<>>
          /\ \/ q' = Tail(q) \o <<x>> /\ tq' = tq
             \/ q' = Tail(q) \o <<>> /\ TombstoneNext(r.thenDelete)
          /\ UNCHANGED <<timing, item, tombAt, clock, heard, userOps, pushed>>
      BY <1>4 DEF MergeGet, Run, Continue
    <2> HIDE DEF r, x
    <2>3. CASE q' = Tail(q) \o <<x>> /\ tq' = tq
      BY <2>1, <2>2, <2>3, <1>h, <1>t DEF DbTypeOK
    <2>4. CASE q' = Tail(q) \o <<>> /\ TombstoneNext(r.thenDelete)
      <3>1. tq' \in Seq(TombRequest) /\ Len(tq') <= Len(tq) + 1 /\ Len(tq') \in Nat
        BY <2>1, <2>4, TombstoneNextTyped, QueuedEmpty
      <3> QED
        BY <2>2, <2>4, <3>1, <1>h, <1>t DEF DbTypeOK
    <2> QED
      BY <2>2, <2>3, <2>4
  <1>5. CASE MergePut
    <2> DEFINE r == Head(q)
    <2>1. r \in Request /\ r.ts \in Stamp /\ r.thenDelete \in 0 .. MaxClock
      BY <1>5, <1>h, RequestTypes DEF MergePut, Run
    <2>2. /\ q # <<>> /\ item' = r.ts
          /\ q' = Tail(q) \o <<>> /\ TombstoneNext(r.thenDelete)
          /\ UNCHANGED <<timing, tombAt, clock, heard, userOps, pushed>>
      BY <1>5 DEF MergePut, Run, Continue
    <2> HIDE DEF r
    <2>3. tq' \in Seq(TombRequest) /\ Len(tq') <= Len(tq) + 1 /\ Len(tq') \in Nat
      BY <2>1, <2>2, TombstoneNextTyped, QueuedEmpty
    <2> QED
      BY <2>1, <2>2, <2>3, <1>h, <1>t DEF DbTypeOK
  <1>6. CASE TombPut
    <2> DEFINE r == Head(tq)
               x == [op |-> "tomb-get", at |-> r.at]
    <2>1. /\ tq # <<>> /\ tombAt' = r.at /\ tq' = Tail(tq)
          /\ q' = IF r.local THEN q ELSE Append(q, x)
          /\ UNCHANGED <<timing, item, clock, heard, userOps, pushed>>
      BY <1>6 DEF TombPut
    <2>2. /\ r \in TombRequest
          /\ Tail(tq) \in Seq(TombRequest) /\ Len(Tail(tq)) = Len(tq) - 1
      BY <2>1, QueuedHead, QueuedTail
    <2>3. r.at \in Stamp /\ x \in Request
      BY <2>2, RequestsMade DEF TombRequest
    <2> HIDE DEF r, x
    <2> QED
      BY <2>1, <2>2, <2>3, <1>a, <1>t DEF DbTypeOK, Stamp
  <1>7. CASE TombGet
    <2> DEFINE x == [Head(q) EXCEPT !.op = "tomb-delete"]
    <2>1. x \in Request
      BY <1>7, <1>h, RequestTypes DEF TombGet, Run
    <2>2. /\ q # <<>>
          /\ q' = Tail(q) \o <<x>> \/ q' = Tail(q) \o <<>>
          /\ UNCHANGED <<timing, item, tombAt, tq, clock, heard, userOps, pushed>>
      BY <1>7 DEF TombGet, Run, Continue
    <2> HIDE DEF x
    <2>3. q' \in Seq(Request) /\ Len(q') <= Len(q) /\ Len(q') \in Nat
      BY <2>1, <2>2, ContinueTyped
    <2> QED
      BY <2>2, <2>3, <1>t DEF DbTypeOK
  <1>8. CASE TombDelete
    BY <1>8, <1>h, <1>t DEF TombDelete, Run, Continue, DbTypeOK
  <1>9. CASE Edit
    <2> DEFINE x == [op |-> "edit-get"]
               r == Head(q)
    <2>1. r \in Request /\ r.ts \in Stamp /\ x \in Request
      BY <1>9, <1>h, RequestTypes, RequestsMade DEF Edit, Run
    <2>2. /\ q # <<>> /\ q' = Tail(q) \o <<x>>
          /\ item' = IF item = NoRow THEN NoRow ELSE r.ts
          /\ UNCHANGED <<timing, tombAt, tq, clock, heard, userOps, pushed>>
      BY <1>9 DEF Edit, Run, Continue
    <2> HIDE DEF x, r
    <2> QED
      BY <2>1, <2>2, <1>h, <1>t DEF DbTypeOK
  <1>10. CASE EditGet
    BY <1>10, <1>h, <1>t DEF EditGet, Run, Continue, DbTypeOK
  <1>11. CASE DeleteGet
    <2> DEFINE x == [op |-> "delete"]
    <2>1. x \in Request
      BY RequestsMade
    <2>2. /\ q # <<>>
          /\ q' = Tail(q) \o <<x>> \/ q' = Tail(q) \o <<>>
          /\ UNCHANGED <<timing, item, tombAt, tq, clock, heard, userOps, pushed>>
      BY <1>11 DEF DeleteGet, Run, Continue
    <2> HIDE DEF x
    <2>3. q' \in Seq(Request) /\ Len(q') <= Len(q) /\ Len(q') \in Nat
      BY <2>1, <2>2, ContinueTyped
    <2> QED
      BY <2>2, <2>3, <1>t DEF DbTypeOK
  <1>12. CASE DeleteRow
    <2> DEFINE t == [at |-> clock, local |-> TRUE]
    <2>1. t \in TombRequest
      BY <1>t, RequestsMade
    <2>2. /\ q # <<>> /\ q' = Tail(q) \o <<>> /\ tq' = Append(tq, t) /\ item' = NoRow
          /\ UNCHANGED <<timing, tombAt, clock, heard, userOps, pushed>>
      BY <1>12 DEF DeleteRow, Run, Continue
    <2> HIDE DEF t
    <2> QED
      BY <2>1, <2>2, <1>b, <1>h, <1>t DEF DbTypeOK
  <1>13. CASE UNCHANGED dbVars
    BY <1>13, <1>t DEF dbVars, DbTypeOK
  <1>14. CASE StartEdit \/ StartDelete
    <2>1. [op |-> "edit", ts |-> clock] \in Request /\ [op |-> "delete-get"] \in Request
      BY <1>t, RequestsMade
    <2> QED
      BY <2>1, <1>3, <1>14 DEF StartEdit, StartDelete
  <1>15. ASSUME \/ \E ts \in Stamp, at \in 0 .. MaxClock : Arrive(ts, at)
                \/ \E at \in Stamp : Arrive(0, at)
         PROVE  DbTypeOK'
    BY <1>15, <1>2 DEF Stamp
  <1> QED
    BY <1>1, <1>4, <1>5, <1>6, <1>7, <1>8, <1>9, <1>10, <1>11, <1>12, <1>13, <1>14, <1>15
    DEF DbNext

\* The types of ListrDeviceDb, and that a device whose handlers do not overlap has one
\* request under way at most (SyncClient.ts, db/operations.ts).
THEOREM DbTypeCorrect == DbSpec => []DbTypeOK
  BY DbInitTyped, DbStepTyped, PTL DEF DbSpec

-----------------------------------------------------------------------------
(* The order in which versions wait.                                       *)

Merge(r) == r.op \in {"merge-get", "merge-put"}

\* r waits before s: compared versions are older than those not compared, and among
\* themselves each kind waits by age.
InOrder(r, s) ==
    Merge(r) /\ Merge(s) =>
        IF r.op = "merge-get" /\ s.op = "merge-put" THEN s.ts < r.ts ELSE r.ts < s.ts

Ordered(s) == \A i, j \in 1 .. Len(s) : i < j => InOrder(s[i], s[j])

LEMMA OrderedTail ==
    ASSUME NEW S, NEW s \in Seq(S), s # <<>>, Ordered(s)
    PROVE  Ordered(Tail(s)) /\ \A r \in Queued(Tail(s)) : InOrder(Head(s), r)
  <1> DEFINE n == Len(s)
             t == Tail(s)
  <1>1. /\ n \in Nat /\ n >= 1 /\ Len(t) = n - 1
        /\ \A i \in 1 .. n - 1 : t[i] = s[i + 1]
        /\ Head(s) = s[1]
    OBVIOUS
  <1>2. \A i, j \in 1 .. n : i < j => InOrder(s[i], s[j])
    BY DEF Ordered
  <1>3. Queued(t) = {t[i] : i \in 1 .. Len(t)}
    BY DEF Queued
  <1>4. Ordered(t) <=> \A i, j \in 1 .. Len(t) : i < j => InOrder(t[i], t[j])
    BY DEF Ordered
  <1> HIDE DEF n, t
  <1>5. \A i, j \in 1 .. Len(t) : i < j => InOrder(t[i], t[j])
    <2> SUFFICES ASSUME NEW i \in 1 .. Len(t), NEW j \in 1 .. Len(t), i < j
                 PROVE  InOrder(t[i], t[j])
      OBVIOUS
    <2>1. i + 1 \in 1 .. n /\ j + 1 \in 1 .. n /\ i + 1 < j + 1
      BY <1>1
    <2>2. t[i] = s[i + 1] /\ t[j] = s[j + 1]
      BY <1>1
    <2> QED
      BY <1>2, <2>1, <2>2
  <1>6. \A i \in 1 .. Len(t) : InOrder(Head(s), t[i])
    <2> SUFFICES ASSUME NEW i \in 1 .. Len(t)
                 PROVE  InOrder(Head(s), t[i])
      OBVIOUS
    <2>1. 1 \in 1 .. n /\ i + 1 \in 1 .. n /\ 1 < i + 1 /\ t[i] = s[i + 1]
      BY <1>1
    <2> QED
      BY <1>1, <1>2, <2>1
  <1> QED
    BY <1>3, <1>4, <1>5, <1>6 DEF t

LEMMA OrderedAppend ==
    ASSUME NEW S, NEW s \in Seq(S), NEW x \in S, Ordered(s),
           \A r \in Queued(s) : InOrder(r, x)
    PROVE  Ordered(Append(s, x))
  <1> DEFINE n == Len(s)
             t == Append(s, x)
  <1>1. /\ n \in Nat /\ Len(t) = n + 1
        /\ \A i \in 1 .. n : t[i] = s[i]
        /\ t[n + 1] = x
    OBVIOUS
  <1>2. \A i, j \in 1 .. n : i < j => InOrder(s[i], s[j])
    BY DEF Ordered
  <1>3. \A i \in 1 .. n : InOrder(s[i], x)
    BY DEF Queued
  <1>4. Ordered(t) <=> \A i, j \in 1 .. Len(t) : i < j => InOrder(t[i], t[j])
    BY DEF Ordered
  <1> HIDE DEF n, t
  <1>5. \A i, j \in 1 .. Len(t) : i < j => InOrder(t[i], t[j])
    <2> SUFFICES ASSUME NEW i \in 1 .. Len(t), NEW j \in 1 .. Len(t), i < j
                 PROVE  InOrder(t[i], t[j])
      OBVIOUS
    <2>1. i \in 1 .. n /\ t[i] = s[i]
      BY <1>1
    <2>2. CASE j \in 1 .. n
      BY <1>1, <1>2, <2>1, <2>2
    <2>3. CASE j = n + 1
      BY <1>1, <1>3, <2>1, <2>3
    <2> QED
      BY <1>1, <2>2, <2>3
  <1> QED
    BY <1>4, <1>5 DEF t

\* The three ways in which the entity's queue changes.
LEMMA QueueMoves ==
    ASSUME DbTypeOK, q # <<>>, NEW x \in Request
    PROVE  /\ Head(q) \in Request /\ Head(q) \in Queued(q)
           /\ Queued(Tail(q)) \subseteq Queued(q)
           /\ Tail(q) \o <<>> = Tail(q)
           /\ Queued(Tail(q) \o <<x>>) = Queued(Tail(q)) \union {x}
           /\ Ordered(q) /\ (\A r \in Queued(Tail(q)) : InOrder(r, x)) =>
                 Ordered(Tail(q) \o <<x>>)
           /\ timing = "serial" => Queued(Tail(q)) = {}
  <1>1. q \in Seq(Request)
    BY DbQueues
  <1>2. Tail(q) \in Seq(Request)
    BY <1>1, QueuedTail
  <1>3. Tail(q) \o <<>> = Tail(q) /\ Tail(q) \o <<x>> = Append(Tail(q), x)
    BY <1>2, Continued
  <1>4. Ordered(q) /\ (\A r \in Queued(Tail(q)) : InOrder(r, x)) =>
           Ordered(Append(Tail(q), x))
    BY <1>1, <1>2, OrderedTail, OrderedAppend
  <1>5. timing = "serial" => Queued(Tail(q)) = {}
    <2>1. timing = "serial" => Len(q) <= 1
      BY DbQueues DEF DbTypeOK
    <2>2. timing = "serial" => Tail(q) = <<>>
      BY <1>1, <2>1, QueuedOne
    <2> QED
      BY <1>2, <2>2, QueuedEmpty
  <1>6. Queued(Append(Tail(q), x)) = Queued(Tail(q)) \union {x}
    BY <1>2, QueuedAppend
  <1>7. Head(q) \in Request /\ Head(q) \in Queued(q) /\ Queued(Tail(q)) \subseteq Queued(q)
    BY <1>1, QueuedHead, QueuedTail
  <1> QED
    BY <1>3, <1>4, <1>5, <1>6, <1>7

\* What a request that waits may rely on, if the user does not edit while versions arrive.
Waits(r) ==
    /\ Merge(r) => r.ts <= heard
    /\ r.op = "merge-put" => item = NoRow \/ item < r.ts
    /\ r.op = "edit" => r.ts <= clock /\ (item = NoRow \/ item <= r.ts)
    /\ r.op \in {"edit", "edit-get", "delete-get", "delete"} => timing = "serial"

OrderInv ==
    /\ timing \notin {"pairs", "edits"}
    /\ item # NoRow => item <= clock
    /\ Ordered(q)
    /\ \A r \in Queued(q) : Waits(r)

LEMMA OrderInitially == ASSUME DbInit, timing \notin {"pairs", "edits"} PROVE OrderInv
  BY QueuedEmpty DEF DbInit, OrderInv, Ordered, Queued

LEMMA OrderStep ==
    ASSUME DbTypeOK, OrderInv, [DbNext]_dbVars
    PROVE  OrderInv'
  <1>t. /\ item \in Stamp \union {NoRow}
        /\ tombAt \in 0 .. MaxClock
        /\ clock \in Stamp
        /\ heard \in 0 .. clock
        /\ q \in Seq(Request) /\ tq \in Seq(TombRequest)
    BY DEF DbTypeOK
  <1>i. /\ timing \notin {"pairs", "edits"}
        /\ item # NoRow => item <= clock
        /\ Ordered(q)
        /\ \A r \in Queued(q) : Waits(r)
    BY DEF OrderInv
  <1>x. Stamp \subseteq Nat
    BY DEF Stamp
  <1>r. \A r \in Queued(q) :
           /\ r \in Request
           /\ Merge(r) \/ r.op = "edit" => r.ts \in Nat
    <2> SUFFICES ASSUME NEW r \in Queued(q)
                 PROVE  r \in Request /\ (Merge(r) \/ r.op = "edit" => r.ts \in Nat)
      OBVIOUS
    <2>1. r \in Request
      BY <1>t, QueuedMembers
    <2> QED
      BY <2>1, <1>x, RequestFields DEF Merge
  <1>n. Stamp \subseteq Nat /\ NoRow \notin Stamp
    BY DEF Stamp
  <1>m. heard \in Nat /\ clock \in Nat /\ heard <= clock /\ (item # NoRow => item \in Nat)
    BY <1>t, <1>n
  <1>a. ASSUME NEW x \in Request, \A r \in Queued(q) : InOrder(r, x)
        PROVE  Ordered(Append(q, x)) /\ Queued(Append(q, x)) = Queued(q) \union {x}
    BY <1>a, <1>t, <1>i, OrderedAppend, QueuedAppend
  <1>1. CASE DbTick
    <2>0. /\ clock' = clock + 1
          /\ UNCHANGED <<timing, item, tombAt, q, tq, heard, userOps, pushed>>
      BY <1>1 DEF DbTick
    <2>1. \A r \in Queued(q) : Waits(r)'
      <3> SUFFICES ASSUME NEW r \in Queued(q)
                   PROVE  Waits(r)'
        OBVIOUS
      <3>1. Waits(r) /\ (r.op = "edit" => r.ts \in Nat)
        BY <1>i, <1>r
      <3> QED
        BY <2>0, <3>1, <1>m DEF Waits
    <2> QED
      BY <2>0, <2>1, <1>i, <1>m DEF OrderInv
  <1>2. ASSUME NEW ts \in 0 .. MaxClock, NEW at \in 0 .. MaxClock, Arrive(ts, at)
        PROVE  OrderInv'
    <2> DEFINE x == [op |-> "merge-get", ts |-> ts, thenDelete |-> at]
    <2>1. /\ heard' = IF ts = 0 THEN at ELSE ts
          /\ heard' \in (heard + 1) .. clock
          /\ UNCHANGED <<timing, item, tombAt, clock, userOps, pushed>>
          /\ IF ts # 0 THEN q' = Append(q, x) ELSE q' = q
      BY <1>2 DEF Arrive
    <2>2. \A r \in Queued(q) : Waits(r)' /\ (Merge(r) => r.ts <= heard)
      <3> SUFFICES ASSUME NEW r \in Queued(q)
                   PROVE  Waits(r)' /\ (Merge(r) => r.ts <= heard)
        OBVIOUS
      <3>1. Waits(r) /\ (Merge(r) => r.ts \in Nat)
        BY <1>i, <1>r
      <3>2. heard' \in Nat /\ heard < heard'
        BY <2>1, <1>m
      <3> HIDE DEF x
      <3>3. Merge(r) => r.ts <= heard'
        BY <3>1, <3>2, <1>m DEF Waits
      <3> QED
        BY <2>1, <3>1, <3>3 DEF Waits
    <2>3. CASE ts = 0
      BY <2>1, <2>2, <2>3, <1>i DEF OrderInv
    <2>4. CASE ts # 0
      <3>1. x \in Request /\ x.ts = ts /\ x.op = "merge-get"
        BY <2>4, RequestsMade DEF Stamp
      <3> HIDE DEF x
      <3>2. \A r \in Queued(q) : InOrder(r, x)
        <4> SUFFICES ASSUME NEW r \in Queued(q), Merge(r)
                     PROVE  r.ts < x.ts
          BY <3>1 DEF InOrder
        <4> QED
          BY <2>1, <2>2, <2>4, <3>1, <1>m, <1>r
      <3>3. Waits(x)'
        BY <2>1, <2>4, <3>1, <1>t, <1>n DEF Waits, Merge
      <3>4. Ordered(q') /\ Queued(q') = Queued(q) \union {x}
        BY <2>1, <2>4, <3>1, <3>2, <1>a
      <3> QED
        BY <2>1, <2>2, <3>3, <3>4, <1>i DEF OrderInv
    <2> QED
      BY <2>3, <2>4
  <1>3. ASSUME NEW x \in Request, UserStarts(x), ~ Merge(x),
               x.op = "edit" => x.ts = clock, x.op \in {"edit", "delete-get"}
        PROVE  OrderInv'
    <2>1. /\ q' = Append(q, x)
          /\ UNCHANGED <<timing, item, tombAt, tq, clock, heard, pushed>>
          /\ timing = "serial"
      BY <1>3, <1>i DEF UserStarts
    <2>2. Ordered(q') /\ Queued(q') = Queued(q) \union {x}
      BY <2>1, <1>3, <1>a DEF InOrder
    <2>3. Waits(x)' /\ \A r \in Queued(q) : Waits(r)'
      BY <2>1, <1>3, <1>i, <1>t, <1>n DEF Waits, Merge
    <2> QED
      BY <2>1, <2>2, <2>3, <1>i DEF OrderInv
  \* A request runs, and with it its handler ends.
  <1>d. ASSUME q # <<>>, q' = Tail(q) \o <<>>,
               \A r \in Queued(Tail(q)) : Waits(r)',
               timing' = timing, (item # NoRow => item <= clock)'
        PROVE  OrderInv'
    <2>1. Ordered(Tail(q)) /\ q' = Tail(q)
      BY <1>d, <1>i, <1>t, OrderedTail, QueuedTail, Continued, RequestsMade
    <2> QED
      BY <1>d, <2>1, <1>i DEF OrderInv
  \* A request runs, and the next one of its handler is x.
  <1>c. ASSUME NEW x \in Request, q # <<>>, q' = Tail(q) \o <<x>>,
               \A r \in Queued(Tail(q)) : InOrder(r, x) /\ Waits(r)',
               Waits(x)',
               timing' = timing, (item # NoRow => item <= clock)'
        PROVE  OrderInv'
    <2>1. Ordered(q') /\ Queued(q') = Queued(Tail(q)) \union {x}
      BY <1>c, <1>i, QueueMoves
    <2> QED
      BY <1>c, <2>1, <1>i DEF OrderInv
  <1>h. q # <<>> =>
          /\ Head(q) \in Request /\ Waits(Head(q))
          /\ \A r \in Queued(Tail(q)) : r \in Request /\ Waits(r) /\ InOrder(Head(q), r)
          /\ timing = "serial" => Queued(Tail(q)) = {}
    BY <1>i, <1>r, <1>t, QueueMoves, OrderedTail, RequestsMade
  <1>5. CASE MergeGet
    <2>0. PICK r \in Request : r = Head(q) /\ q # <<>> /\ r.op = "merge-get"
      BY <1>5, <1>h DEF MergeGet, Run
    <2>3. PICK x \in Request : x = [r EXCEPT !.op = "merge-put"]
      BY <2>0, RequestTypes
    <2>1. /\ q # <<>> /\ r.op = "merge-get" /\ r \in Request
          /\ r.ts \in Stamp /\ x \in Request /\ x.op = "merge-put" /\ x.ts = r.ts
      BY <2>0, <2>3, RequestTypes
    <2>2. /\ \/ q' = Tail(q) \o <<x>> /\ (item = NoRow \/ r.ts > item)
             \/ q' = Tail(q) \o <<>>
          /\ UNCHANGED <<timing, item, tombAt, clock, heard, userOps, pushed>>
      BY <1>5, <2>0, <2>3 DEF MergeGet, Run, Continue, Accepts
    <2>9. \A s \in Queued(Tail(q)) : InOrder(s, x)
      BY <1>h, <1>n, <2>0, <2>1, RequestTypes DEF InOrder, Merge
    <2>4. r.ts <= heard /\ r.ts \in Nat
      BY <1>h, <1>n, <2>0, <2>1 DEF Waits, Merge
    <2>5. \A s \in Queued(Tail(q)) : InOrder(s, x) /\ Waits(s)'
      BY <1>h, <2>1, <2>2, <2>9 DEF Waits
    <2>8. (item # NoRow => item <= clock)'
      BY <2>2, <1>i
    <2>6. CASE q' = Tail(q) \o <<x>> /\ (item = NoRow \/ r.ts > item)
      <3>1. Waits(x)'
        <4>1. x.ts <= heard' /\ (item' = NoRow \/ item' < x.ts)
          BY <2>1, <2>2, <2>4, <2>6, <1>m
        <4> QED
          BY <2>1, <4>1 DEF Waits, Merge
      <3> QED
        BY <2>1, <2>2, <2>5, <2>6, <2>8, <3>1, <1>c
    <2>7. CASE q' = Tail(q) \o <<>>
      BY <2>1, <2>2, <2>5, <2>7, <2>8, <1>d
    <2> QED
      BY <2>2, <2>6, <2>7
  <1>6. CASE MergePut
    <2> DEFINE r == Head(q)
    <2>1. /\ q # <<>> /\ r.op = "merge-put" /\ r \in Request /\ r.ts \in Stamp
          /\ r.ts <= heard
      BY <1>6, <1>h, RequestTypes DEF MergePut, Run, Waits, Merge
    <2>2. /\ q' = Tail(q) \o <<>> /\ item' = r.ts
          /\ UNCHANGED <<timing, tombAt, clock, heard, userOps, pushed>>
      BY <1>6 DEF MergePut, Run, Continue
    <2>3. \A s \in Queued(Tail(q)) : Waits(s)'
      <3> SUFFICES ASSUME NEW s \in Queued(Tail(q))
                   PROVE  Waits(s)'
        OBVIOUS
      <3>1. s \in Request /\ Waits(s) /\ InOrder(r, s) /\ timing # "serial"
        BY <1>h, <2>1
      <3>2. s.op # "edit"
        BY <3>1 DEF Waits
      <3>3. s.op = "merge-put" => r.ts < s.ts
        BY <2>1, <3>1 DEF InOrder, Merge
      <3> QED
        BY <2>2, <3>1, <3>2, <3>3 DEF Waits
    <2>4. (item # NoRow => item <= clock)'
      <3>1. r.ts \in Nat /\ r.ts <= heard /\ item' = r.ts /\ clock' = clock
        BY <2>1, <2>2, <1>n
      <3> HIDE DEF r
      <3> QED
        BY <3>1, <1>m
    <2> QED
      BY <2>1, <2>2, <2>3, <2>4, <1>d
  <1>7. CASE TombPut
    <2>0. PICK r \in TombRequest : r = Head(tq) /\ tq # <<>>
      BY <1>7, <1>t, QueuedHead DEF TombPut
    <2>3. PICK x \in Request : x = [op |-> "tomb-get", at |-> r.at] /\ x.op = "tomb-get"
      BY RequestsMade DEF TombRequest
    <2>1. /\ q' = IF r.local THEN q ELSE Append(q, x)
          /\ UNCHANGED <<timing, item, clock, heard, userOps, pushed>>
      BY <1>7, <2>0, <2>3 DEF TombPut
    <2>4. \A s \in Queued(q) : InOrder(s, x) /\ Waits(s)'
      BY <1>i, <2>1, <2>3 DEF InOrder, Merge, Waits
    <2>5. Waits(x)'
      BY <2>3 DEF Waits, Merge
    <2>6. CASE r.local
      BY <2>1, <2>4, <2>6, <1>i DEF OrderInv
    <2>7. CASE ~ r.local
      <3>1. Ordered(q') /\ Queued(q') = Queued(q) \union {x}
        BY <2>1, <2>3, <2>4, <2>7, <1>a
      <3>2. \A s \in Queued(q') : Waits(s)'
        BY <2>4, <2>5, <3>1
      <3> QED
        BY <2>1, <3>1, <3>2, <1>i DEF OrderInv
    <2> QED
      BY <2>6, <2>7
  <1>8. CASE TombGet
    <2>0. PICK r \in Request : r = Head(q) /\ q # <<>> /\ r.op = "tomb-get"
      BY <1>8, <1>h DEF TombGet, Run
    <2>1. PICK x \in Request : x = [r EXCEPT !.op = "tomb-delete"] /\ x.op = "tomb-delete"
      BY <2>0, RequestGoesOn
    <2>2. /\ q' = Tail(q) \o <<x>> \/ q' = Tail(q) \o <<>>
          /\ UNCHANGED <<timing, item, tombAt, tq, clock, heard, userOps, pushed>>
      BY <1>8, <2>0, <2>1 DEF TombGet, Run, Continue
    <2>3. \A s \in Queued(Tail(q)) : InOrder(s, x) /\ Waits(s)'
      BY <1>h, <2>0, <2>1, <2>2 DEF InOrder, Merge, Waits
    <2>4. Waits(x)'
      BY <2>1 DEF Waits, Merge
    <2>7. timing' = timing /\ (item # NoRow => item <= clock)'
      BY <2>2, <1>i
    <2>5. CASE q' = Tail(q) \o <<x>>
      BY <2>0, <2>1, <2>3, <2>4, <2>5, <2>7, <1>c
    <2>6. CASE q' = Tail(q) \o <<>>
      BY <2>0, <2>1, <2>3, <2>6, <2>7, <1>d
    <2> QED
      BY <2>2, <2>5, <2>6
  <1>9. CASE TombDelete
    <2>1. /\ q # <<>> /\ q' = Tail(q) \o <<>> /\ item' = NoRow
          /\ UNCHANGED <<timing, tombAt, tq, clock, heard, userOps, pushed>>
      BY <1>9 DEF TombDelete, Run, Continue
    <2>2. \A s \in Queued(Tail(q)) : Waits(s)'
      BY <1>h, <2>1 DEF Waits
    <2> QED
      BY <2>1, <2>2, <1>d
  <1>10. CASE Edit
    <2> DEFINE r == Head(q)
               x == [op |-> "edit-get"]
    <2>1. /\ q # <<>> /\ r.op = "edit" /\ r.ts \in Stamp /\ r.ts <= clock
          /\ timing = "serial" /\ Queued(Tail(q)) = {}
      BY <1>10, <1>h, RequestTypes DEF Edit, Run, Waits
    <2>2. /\ q' = Tail(q) \o <<x>>
          /\ item' = IF item = NoRow THEN NoRow ELSE r.ts
          /\ UNCHANGED <<timing, tombAt, tq, clock, heard, userOps, pushed>>
      BY <1>10 DEF Edit, Run, Continue
    <2>3. x \in Request /\ Waits(x)'
      BY <2>1, <2>2, RequestsMade DEF Waits, Merge
    <2>4. (item # NoRow => item <= clock)'
      BY <2>1, <2>2
    <2> HIDE DEF r, x
    <2> QED
      BY <2>1, <2>2, <2>3, <2>4, <1>c
  <1>11. CASE EditGet
    <2>1. /\ q # <<>> /\ q' = Tail(q) \o <<>>
          /\ UNCHANGED <<timing, item, tombAt, tq, clock, heard, userOps>>
      BY <1>11 DEF EditGet, Run, Continue
    <2>2. \A s \in Queued(Tail(q)) : Waits(s)'
      BY <1>h, <2>1 DEF Waits
    <2> QED
      BY <2>1, <2>2, <1>d, <1>i
  <1>12. CASE DeleteGet
    <2> DEFINE x == [op |-> "delete"]
    <2>1. q # <<>> /\ timing = "serial" /\ Queued(Tail(q)) = {}
      BY <1>12, <1>h DEF DeleteGet, Run, Waits
    <2>2. /\ q' = Tail(q) \o <<x>> \/ q' = Tail(q) \o <<>>
          /\ UNCHANGED <<timing, item, tombAt, tq, clock, heard, userOps, pushed>>
      BY <1>12 DEF DeleteGet, Run, Continue
    <2>3. x \in Request /\ Waits(x)'
      BY <2>1, <2>2, RequestsMade DEF Waits, Merge
    <2> HIDE DEF x
    <2>5. CASE q' = Tail(q) \o <<x>>
      BY <2>1, <2>2, <2>3, <2>5, <1>c, <1>i
    <2>6. CASE q' = Tail(q) \o <<>>
      BY <2>1, <2>2, <2>6, <1>d, <1>i
    <2> QED
      BY <2>2, <2>5, <2>6
  <1>13. CASE DeleteRow
    <2>1. /\ q # <<>> /\ q' = Tail(q) \o <<>> /\ item' = NoRow
          /\ UNCHANGED <<timing, tombAt, clock, heard, userOps, pushed>>
      BY <1>13 DEF DeleteRow, Run, Continue
    <2>2. \A s \in Queued(Tail(q)) : Waits(s)'
      BY <1>h, <2>1 DEF Waits
    <2> QED
      BY <2>1, <2>2, <1>d
  <1>14. CASE UNCHANGED dbVars
    BY <1>14, <1>i DEF dbVars, OrderInv, Waits
  <1>15. CASE StartEdit \/ StartDelete
    <2>1. /\ [op |-> "edit", ts |-> clock] \in Request /\ [op |-> "delete-get"] \in Request
          /\ ~ Merge([op |-> "edit", ts |-> clock]) /\ ~ Merge([op |-> "delete-get"])
      BY <1>t, RequestsMade DEF Merge
    <2> QED
      BY <2>1, <1>3, <1>15 DEF StartEdit, StartDelete
  <1>16. ASSUME \/ \E ts \in Stamp, at \in 0 .. MaxClock : Arrive(ts, at)
                \/ \E at \in Stamp : Arrive(0, at)
         PROVE  OrderInv'
    BY <1>16, <1>2 DEF Stamp
  <1> QED
    BY <1>1, <1>5, <1>6, <1>7, <1>8, <1>9, <1>10, <1>11, <1>12, <1>13, <1>14, <1>15, <1>16
    DEF DbNext

LEMMA TimingStays == ASSUME [DbNext]_dbVars PROVE timing' = timing
  BY DEF DbNext, DbTick, Arrive, UserStarts, StartEdit, StartDelete, MergeGet, MergePut,
         TombPut, TombGet, TombDelete, Edit, EditGet, DeleteGet, DeleteRow, dbVars

LEMMA OrderAlways == DbSpec /\ timing \notin {"pairs", "edits"} => [](DbTypeOK /\ OrderInv)
  <1>1. DbInit /\ timing \notin {"pairs", "edits"} => DbTypeOK /\ OrderInv
    BY DbInitTyped, OrderInitially
  <1>2. DbTypeOK /\ OrderInv /\ [DbNext]_dbVars => (DbTypeOK /\ OrderInv)'
    BY DbStepTyped, OrderStep
  <1> QED
    BY <1>1, <1>2, PTL DEF DbSpec

\* What the first request may rely on when it runs.
LEMMA FirstWaits ==
    ASSUME DbTypeOK, OrderInv, q # <<>>
    PROVE  /\ Head(q) \in Request /\ Head(q) \in Queued(q) /\ Waits(Head(q))
           /\ timing = "serial" => Queued(q) = {Head(q)} /\ Tail(q) = <<>> /\ tq = <<>>
  <1>1. q \in Seq(Request)
    BY DbQueues
  <1>2. Head(q) \in Request /\ Head(q) \in Queued(q)
    BY <1>1, QueuedHead
  <1>3. Waits(Head(q))
    BY <1>2 DEF OrderInv
  <1>4. ASSUME timing = "serial"
        PROVE  Len(q) <= 1 /\ tq = <<>>
    BY <1>4, DbQueues DEF DbTypeOK
  <1> QED
    BY <1>1, <1>2, <1>3, <1>4, QueuedOne

\* Last writer wins on the device (applyIncomingEntity between the two transactions of
\* mergeEntity, updateItem): unless the user edits while versions arrive, a row is never
\* replaced by an older version, however many handlers overlap.
THEOREM DbNeverOlder == DbSpec => NeverOlderApart
  <1> DEFINE A == timing \notin {"pairs", "edits"} => (item # NoRow /\ item' # NoRow => item' >= item)
  <1>1. ASSUME DbTypeOK, OrderInv, [DbNext]_dbVars
        PROVE  [A]_dbVars
    <2> SUFFICES ASSUME DbNext, item # NoRow, item' # NoRow
                 PROVE  item' >= item
      BY <1>1
    <2>1. item \in Nat
      BY <1>1 DEF DbTypeOK, Stamp
    <2>2. CASE item' = item
      BY <2>1, <2>2
    <2>3. CASE MergePut
      <3>1. q # <<>> /\ Head(q).op = "merge-put" /\ item' = Head(q).ts
        BY <2>3 DEF MergePut, Run
      <3>2. item < Head(q).ts /\ Head(q).ts \in Nat
        BY <3>1, <1>1, FirstWaits, RequestFields DEF Waits, Stamp
      <3> QED
        BY <2>1, <3>1, <3>2
    <2>4. CASE Edit
      <3>1. q # <<>> /\ Head(q).op = "edit" /\ item' = Head(q).ts
        BY <2>4 DEF Edit, Run
      <3>2. item <= Head(q).ts /\ Head(q).ts \in Nat
        BY <3>1, <1>1, FirstWaits, RequestFields DEF Waits, Stamp
      <3> QED
        BY <2>1, <3>1, <3>2
    <2> QED
      BY <2>2, <2>3, <2>4
      DEF DbNext, DbTick, Arrive, UserStarts, StartEdit, StartDelete, MergeGet, TombPut,
          TombGet, TombDelete, EditGet, DeleteGet, DeleteRow
  <1>2. timing \in {"pairs", "edits"} /\ [DbNext]_dbVars => (timing \in {"pairs", "edits"})' /\ [A]_dbVars
    BY TimingStays
  <1> HIDE DEF A
  <1>3. DbSpec /\ timing \in {"pairs", "edits"} => [][A]_dbVars
    BY <1>2, PTL DEF DbSpec
  <1>4. DbSpec /\ timing \notin {"pairs", "edits"} => [][A]_dbVars
    BY <1>1, OrderAlways, PTL DEF DbSpec
  <1>5. timing \in {"pairs", "edits"} \/ timing \notin {"pairs", "edits"}
    OBVIOUS
  <1>6. DbSpec => [][A]_dbVars
    BY <1>3, <1>4, <1>5, PTL
  <1> QED
    BY <1>6 DEF A, NeverOlderApart

-----------------------------------------------------------------------------
(* An edit beside a merge.                                                 *)

Below(ts) == \A t \in pushed : t <= ts

\* What the row is while a message waits to be compared with it, and when nothing waits.
Unread == Below(item) /\ (item \in pushed \/ item <= heard)
Settled == heard <= item /\ Unread

\* One handler is under way.
Alone(a) ==
    /\ a.op = "merge-get" => a.ts = heard /\ Unread
    /\ a.op = "merge-put" => a.ts = heard /\ item < heard /\ Below(item)
    /\ a.op = "edit" => Settled /\ item <= a.ts
    /\ a.op = "edit-get" => heard <= item /\ Below(item)

\* Two are: a runs before b.  An edit that a merge is about to overwrite has not been
\* read back, and will be after it.
Beside(a, b) ==
    /\ a.op = "merge-get" /\ b.op = "edit" =>
          a.ts = heard /\ Unread /\ item <= b.ts /\ heard <= b.ts
    /\ a.op = "edit" /\ b.op = "merge-get" => b.ts = heard /\ Unread /\ item <= a.ts
    /\ a.op = "merge-put" /\ b.op = "edit" =>
          a.ts = heard /\ item < heard /\ Below(item) /\ heard <= b.ts
    /\ a.op = "edit" /\ b.op = "merge-put" =>
          b.ts = heard /\ item < heard /\ Below(item) /\ heard <= a.ts
    /\ a.op = "merge-get" /\ b.op = "edit-get" => a.ts = heard /\ Below(item)
    /\ a.op = "edit-get" /\ b.op = "merge-get" => b.ts = heard /\ Below(item)
    /\ a.op = "merge-put" /\ b.op = "edit-get" => a.ts = heard /\ Below(heard)
    /\ a.op = "edit-get" /\ b.op = "merge-put" => b.ts = heard /\ item < heard /\ Below(item)

Paired(r) ==
    /\ Merge(r) \/ r.op \in {"edit", "edit-get"}
    /\ Merge(r) => r.thenDelete = 0
    /\ r.op = "edit" => r.ts <= clock

PairsInv ==
    timing = "pairs" =>
        /\ tq = <<>>
        /\ item \in Stamp /\ item <= clock
        /\ Len(q) <= 2
        /\ Len(q) = 0 => Settled
        /\ Len(q) = 1 => Paired(q[1]) /\ Alone(q[1])
        /\ Len(q) = 2 => /\ Paired(q[1]) /\ Paired(q[2]) /\ Beside(q[1], q[2])
                         /\ Merge(q[1]) <=> ~ Merge(q[2])

\* The places of the requests when the first goes on, or another is added.
LEMMA Places ==
    ASSUME NEW s \in Seq(Request), NEW x \in Request
    PROVE  /\ Len(s) \in Nat /\ (s = <<>> <=> Len(s) = 0)
           /\ s # <<>> => /\ Head(s) = s[1]
                          /\ Len(Tail(s) \o <<>>) = Len(s) - 1
                          /\ Len(Tail(s) \o <<x>>) = Len(s)
                          /\ (Tail(s) \o <<x>>)[Len(s)] = x
           /\ Len(s) = 2 => (Tail(s) \o <<>>)[1] = s[2] /\ (Tail(s) \o <<x>>)[1] = s[2]
           /\ Len(Append(s, x)) = Len(s) + 1
           /\ Append(s, x)[Len(s) + 1] = x
           /\ Len(s) = 1 => Append(s, x)[1] = s[1]
  <1>1. /\ Len(s) \in Nat /\ (s = <<>> <=> Len(s) = 0)
        /\ Len(Append(s, x)) = Len(s) + 1
        /\ Append(s, x)[Len(s) + 1] = x
        /\ Len(s) = 1 => Append(s, x)[1] = s[1]
    OBVIOUS
  <1>2. ASSUME s # <<>>
        PROVE  /\ Head(s) = s[1]
               /\ Len(Tail(s) \o <<>>) = Len(s) - 1
               /\ Len(Tail(s) \o <<x>>) = Len(s)
               /\ (Tail(s) \o <<x>>)[Len(s)] = x
               /\ Len(s) = 2 => (Tail(s) \o <<>>)[1] = s[2] /\ (Tail(s) \o <<x>>)[1] = s[2]
    <2> DEFINE t == Tail(s)
    <2>1. /\ t \in Seq(Request) /\ Len(t) = Len(s) - 1 /\ Head(s) = s[1]
          /\ Len(s) = 2 => t[1] = s[2]
      BY <1>2
    <2> HIDE DEF t
    <2>2. t \o <<>> = t /\ t \o <<x>> = Append(t, x)
      BY <2>1, Continued
    <2>3. Len(Append(t, x)) = Len(t) + 1 /\ Append(t, x)[Len(t) + 1] = x
      BY <2>1
    <2>4. Len(t) = 1 => Append(t, x)[1] = t[1]
      BY <2>1
    <2>5. Len(t) + 1 = Len(s) /\ (Len(s) = 2 => Len(t) = 1)
      BY <1>1, <2>1
    <2> QED
      BY <2>1, <2>2, <2>3, <2>4, <2>5 DEF t
  <1> QED
    BY <1>1, <1>2

LEMMA PairsStep ==
    ASSUME DbTypeOK, PairsInv, [DbNext]_dbVars, timing = "pairs"
    PROVE  PairsInv'
  <1>t. /\ q \in Seq(Request) /\ heard \in Nat /\ clock \in Nat /\ heard <= clock
        /\ clock \in Stamp /\ Stamp \subseteq Nat /\ pushed \subseteq Stamp /\ NoRow \notin Stamp
    BY DEF DbTypeOK, Stamp
  <1>i. /\ tq = <<>>
        /\ item \in Stamp /\ item <= clock
        /\ Len(q) <= 2
        /\ Len(q) = 0 => Settled
        /\ Len(q) = 1 => Paired(q[1]) /\ Alone(q[1])
        /\ Len(q) = 2 => /\ Paired(q[1]) /\ Paired(q[2]) /\ Beside(q[1], q[2])
                         /\ Merge(q[1]) <=> ~ Merge(q[2])
    BY DEF PairsInv
  \* The shapes of the state after the step.
  <1>a. ASSUME Len(q') = 0, tq' = <<>>, (item \in Stamp /\ item <= clock)', Settled'
        PROVE  PairsInv'
    BY <1>a DEF PairsInv
  <1>b. ASSUME Len(q') = 1, tq' = <<>>, (item \in Stamp /\ item <= clock)',
               NEW x, q'[1] = x, Paired(x)', Alone(x)'
        PROVE  PairsInv'
    BY <1>b DEF PairsInv
  <1>c. ASSUME Len(q') = 2, tq' = <<>>, (item \in Stamp /\ item <= clock)',
               NEW x, NEW y, q'[1] = x, q'[2] = y, Paired(x)', Paired(y)', Beside(x, y)',
               Merge(x) <=> ~ Merge(y)
        PROVE  PairsInv'
    <2>1. (Merge(x) <=> ~ Merge(y))'
      BY <1>c DEF Merge
    <2> QED
      BY <1>c, <2>1 DEF PairsInv
  \* The queue before it.
  <1>n. Len(q) \in {0, 1, 2} /\ (q = <<>> <=> Len(q) = 0)
    <2>1. Len(q) \in Nat /\ (q = <<>> <=> Len(q) = 0)
      BY <1>t, QueuedEmpty
    <2>2. \A n \in Nat : n <= 2 => n \in {0, 1, 2}
      OBVIOUS
    <2> QED
      BY <2>1, <2>2, <1>i
  <1>q. /\ Len(q) \in {1, 2} => q[1] \in Request /\ Paired(q[1])
        /\ Len(q) = 2 => q[2] \in Request /\ Paired(q[2])
    BY <1>i, <1>t
  \* A request is added.
  <1>p. ASSUME NEW x \in Request, q' = Append(q, x)
        PROVE  /\ Len(q) = 0 => Len(q') = 1 /\ q'[1] = x
               /\ Len(q) = 1 => Len(q') = 2 /\ q'[1] = q[1] /\ q'[2] = x
    BY <1>p, <1>t, Places
  \* The first goes on, or is done.
  <1>g. ASSUME q # <<>>, NEW x \in Request
        PROVE  /\ Head(q) = q[1]
               /\ q' = Tail(q) \o <<x>> =>
                     /\ Len(q) = 1 => Len(q') = 1 /\ q'[1] = x
                     /\ Len(q) = 2 => Len(q') = 2 /\ q'[1] = q[2] /\ q'[2] = x
               /\ q' = Tail(q) \o <<>> =>
                     /\ Len(q) = 1 => Len(q') = 0
                     /\ Len(q) = 2 => Len(q') = 1 /\ q'[1] = q[2]
    BY <1>g, <1>t, Places
  <1>1. CASE DbTick
    <2>1. clock' = clock + 1 /\ UNCHANGED <<timing, item, tombAt, q, tq, heard, userOps, pushed>>
      BY <1>1 DEF DbTick
    <2>2. \A r \in Request : (Paired(r) => Paired(r)') /\ (Alone(r) => Alone(r)')
      <3> SUFFICES ASSUME NEW r \in Request
                   PROVE  (Paired(r) => Paired(r)') /\ (Alone(r) => Alone(r)')
        OBVIOUS
      <3>1. Alone(r) => Alone(r)'
        BY <2>1 DEF Alone, Settled, Unread, Below
      <3>2. r.op = "edit" => r.ts \in Nat
        BY RequestFields, <1>t
      <3>3. Paired(r) => Paired(r)'
        BY <2>1, <3>2, <1>t DEF Paired, Merge
      <3> QED
        BY <3>1, <3>3
    <2>3. \A r, s \in Request : Beside(r, s) => Beside(r, s)'
      BY <2>1 DEF Beside, Unread, Below
    <2>4. Settled => Settled'
      BY <2>1 DEF Settled, Unread, Below
    <2>5. (item \in Stamp /\ item <= clock)' /\ tq' = <<>>
      BY <2>1, <1>i, <1>t
    <2>6. CASE Len(q) = 0
      BY <2>1, <2>4, <2>5, <2>6, <1>a, <1>i
    <2>7. CASE Len(q) = 1
      BY <2>1, <2>2, <2>5, <2>7, <1>b, <1>i, <1>q
    <2>8. CASE Len(q) = 2
      BY <2>1, <2>2, <2>3, <2>5, <2>8, <1>c, <1>i, <1>q
    <2> QED
      BY <2>6, <2>7, <2>8, <1>n
  <1>2. ASSUME NEW ts \in 0 .. MaxClock, NEW at \in 0 .. MaxClock, Arrive(ts, at)
        PROVE  PairsInv'
    <2>1. /\ at = 0 /\ ts # 0 /\ heard < ts /\ ts <= clock /\ heard' = ts
          /\ UNCHANGED <<timing, item, tq, clock, pushed>>
          /\ q' = Append(q, [op |-> "merge-get", ts |-> ts, thenDelete |-> 0])
      BY <1>2, <1>t DEF Arrive
    <2>2. PICK x \in Request : /\ x = [op |-> "merge-get", ts |-> ts, thenDelete |-> 0]
                               /\ x.op = "merge-get" /\ x.ts = ts /\ x.thenDelete = 0
      BY <2>1, RequestsMade DEF Stamp
    <2>3. ~ UnderWay({"merge-get", "merge-put"})
      BY <1>2 DEF Arrive, MayStart
    <2>4. \A i \in 1 .. Len(q) : ~ Merge(q[i])
      BY <2>3, <1>t DEF UnderWay, Merge
    <2>5. Paired(x)' /\ Merge(x)
      BY <2>2 DEF Paired, Merge
    <2>6. CASE Len(q) = 0
      <3>1. Settled
        BY <2>6, <1>i
      <3>2. Alone(x)'
        BY <3>1, <2>1, <2>2, <1>i, <1>t DEF Alone, Settled, Unread, Below
      <3>3. Len(q') = 1 /\ q'[1] = x
        BY <1>p, <2>1, <2>2, <2>6
      <3> QED
        BY <2>1, <2>5, <3>2, <3>3, <1>b, <1>i
    <2>7. CASE Len(q) = 1
      <3>1. Paired(q[1]) /\ Alone(q[1]) /\ q[1] \in Request /\ ~ Merge(q[1])
        BY <2>7, <2>4, <1>i, <1>q
      <3>2. PICK a \in Request : a = q[1]
        BY <3>1
      <3>3. a.op \in {"edit", "edit-get"} /\ (a.op = "edit" => a.ts \in Nat)
        BY <3>1, <3>2, RequestFields, <1>t DEF Paired
      <3>4. Beside(a, x)'
        BY <2>1, <2>2, <3>1, <3>2, <3>3, <1>i, <1>t DEF Alone, Beside, Settled, Unread, Below
      <3>5. Paired(a)' /\ (Merge(a) <=> ~ Merge(x))
        BY <2>1, <2>5, <3>1, <3>2 DEF Paired
      <3>6. Len(q') = 2 /\ q'[1] = a /\ q'[2] = x
        BY <1>p, <2>1, <2>2, <2>7, <3>2
      <3> QED
        BY <2>1, <2>5, <3>4, <3>5, <3>6, <1>c, <1>i
    <2>8. CASE Len(q) = 2
      BY <2>8, <2>4, <1>i
    <2> QED
      BY <2>6, <2>7, <2>8, <1>n
  <1>3. CASE StartEdit
    <2>1. /\ UNCHANGED <<timing, item, tq, clock, heard, pushed>>
          /\ q' = Append(q, [op |-> "edit", ts |-> clock])
          /\ ~ UnderWay({"edit", "edit-get"})
      BY <1>3 DEF StartEdit, UserStarts, MayStart
    <2>2. PICK x \in Request : /\ x = [op |-> "edit", ts |-> clock]
                               /\ x.op = "edit" /\ x.ts = clock
      BY <1>t, RequestsMade
    <2>4. \A i \in 1 .. Len(q) : q[i].op \notin {"edit", "edit-get"}
      BY <2>1, <1>t DEF UnderWay
    <2>5. Paired(x)' /\ ~ Merge(x)
      BY <2>1, <2>2, <1>t DEF Paired, Merge
    <2>6. CASE Len(q) = 0
      <3>1. Alone(x)'
        BY <2>1, <2>2, <2>6, <1>i DEF Alone, Settled, Unread, Below
      <3>2. Len(q') = 1 /\ q'[1] = x
        BY <1>p, <2>1, <2>2, <2>6
      <3> QED
        BY <2>1, <2>5, <3>1, <3>2, <1>b, <1>i
    <2>7. CASE Len(q) = 1
      <3>1. Paired(q[1]) /\ Alone(q[1]) /\ q[1] \in Request /\ q[1].op \notin {"edit", "edit-get"}
        BY <2>7, <2>4, <1>i, <1>q
      <3>2. PICK a \in Request : a = q[1]
        BY <3>1
      <3>3. a.op \in {"merge-get", "merge-put"}
        BY <3>1, <3>2 DEF Paired, Merge
      <3>4. Beside(a, x)'
        BY <2>1, <2>2, <3>1, <3>2, <3>3, <1>i, <1>t DEF Alone, Beside, Unread, Below
      <3>5. Paired(a)' /\ (Merge(a) <=> ~ Merge(x))
        BY <2>1, <2>5, <3>1, <3>2, <3>3 DEF Paired, Merge
      <3>6. Len(q') = 2 /\ q'[1] = a /\ q'[2] = x
        BY <1>p, <2>1, <2>2, <2>7, <3>2
      <3> QED
        BY <2>1, <2>5, <3>4, <3>5, <3>6, <1>c, <1>i
    <2>8. CASE Len(q) = 2
      BY <2>8, <2>4, <1>i DEF Paired, Merge
    <2> QED
      BY <2>6, <2>7, <2>8, <1>n
  <1>4. CASE MergeGet
    <2>1. PICK r \in Request : r = q[1] /\ q # <<>> /\ r.op = "merge-get" /\ Head(q) = r
      BY <1>4, <1>g, <1>n, <1>q DEF MergeGet, Run
    <2>2. UNCHANGED <<timing, item, tombAt, clock, heard, pushed>>
      BY <1>4 DEF MergeGet
    <2>3. r.thenDelete = 0 /\ r.ts = heard /\ Merge(r)
      <3>1. Merge(r)
        BY <2>1 DEF Merge
      <3>2. r.thenDelete = 0
        BY <2>1, <3>1, <1>n, <1>q DEF Paired
      <3>3. Len(q) = 1 => r.ts = heard
        BY <2>1, <1>i DEF Alone
      <3>4. Len(q) = 2 => r.ts = heard
        BY <2>1, <3>1, <1>i DEF Beside, Paired
      <3> QED
        BY <2>1, <3>1, <3>2, <3>3, <3>4, <1>n
    <2>4. CASE Accepts(r.ts)
      <3>1. PICK x \in Request : /\ x = [r EXCEPT !.op = "merge-put"] /\ x.op = "merge-put"
                                 /\ x.ts = r.ts /\ x.thenDelete = r.thenDelete
        BY <2>1, RequestGoesOn
      <3>2. q' = Tail(q) \o <<x>> /\ tq' = <<>>
        BY <1>4, <2>1, <2>4, <3>1, <1>i DEF MergeGet, Continue
      <3>3. item < heard
        BY <2>3, <2>4, <1>i, <1>t DEF Accepts
      <3>4. Paired(x)' /\ Merge(x)
        BY <3>1, <2>3 DEF Paired, Merge
      <3>5. CASE Len(q) = 1
        <4>1. Len(q') = 1 /\ q'[1] = x
          BY <3>2, <3>5, <2>1, <1>g
        <4>2. Alone(x)'
          BY <3>1, <3>3, <3>5, <2>1, <2>2, <2>3, <1>i DEF Alone, Unread, Below
        <4> QED
          BY <4>1, <4>2, <3>2, <3>4, <2>2, <1>b, <1>i
      <3>6. CASE Len(q) = 2
        <4>1. PICK b \in Request : b = q[2] /\ Paired(b) /\ ~ Merge(b) /\ Beside(r, b)
          BY <3>6, <2>1, <2>3, <1>i, <1>q
        <4>2. Len(q') = 2 /\ q'[1] = b /\ q'[2] = x
          BY <3>2, <3>6, <4>1, <2>1, <1>g
        <4>3. Beside(b, x)'
          BY <4>1, <3>1, <3>3, <2>1, <2>2, <2>3 DEF Beside, Paired, Unread, Below
        <4>4. Paired(b)'
          BY <4>1, <2>2 DEF Paired
        <4> QED
          BY <4>1, <4>2, <4>3, <4>4, <3>2, <3>4, <2>2, <1>c, <1>i
      <3> QED
        BY <3>5, <3>6, <2>1, <1>n
    <2>5. CASE ~ Accepts(r.ts)
      <3>1. heard <= item
        BY <2>3, <2>5, <1>i, <1>t DEF Accepts
      <3>2. q' = Tail(q) \o <<>> /\ tq' = <<>>
        BY <1>4, <2>1, <2>3, <2>5, <1>i DEF MergeGet, Continue, TombstoneNext
      <3>3. CASE Len(q) = 1
        <4>1. Len(q') = 0
          BY <3>2, <3>3, <2>1, <1>g
        <4>2. Settled'
          BY <3>1, <3>3, <2>1, <2>2, <1>i DEF Alone, Settled, Unread, Below
        <4> QED
          BY <4>1, <4>2, <3>2, <2>2, <1>a, <1>i
      <3>4. CASE Len(q) = 2
        <4>1. PICK b \in Request : b = q[2] /\ Paired(b) /\ ~ Merge(b) /\ Beside(r, b)
          BY <3>4, <2>1, <2>3, <1>i, <1>q
        <4>2. Len(q') = 1 /\ q'[1] = b
          BY <3>2, <3>4, <4>1, <2>1, <1>g
        <4>3. Alone(b)'
          BY <4>1, <3>1, <2>1, <2>2 DEF Alone, Beside, Merge, Settled, Unread, Below
        <4>4. Paired(b)'
          BY <4>1, <2>2 DEF Paired
        <4> QED
          BY <4>2, <4>3, <4>4, <3>2, <2>2, <1>b, <1>i
      <3> QED
        BY <3>3, <3>4, <2>1, <1>n
    <2> QED
      BY <2>4, <2>5
  <1>5. CASE MergePut
    <2>1. PICK r \in Request : r = q[1] /\ q # <<>> /\ r.op = "merge-put" /\ Head(q) = r
      BY <1>5, <1>g, <1>n, <1>q DEF MergePut, Run
    <2>2. Merge(r) /\ r.thenDelete = 0
      BY <2>1, <1>n, <1>q DEF Merge, Paired
    <2>3. /\ UNCHANGED <<timing, tombAt, clock, heard, pushed>>
          /\ item' = r.ts /\ q' = Tail(q) \o <<>> /\ tq' = <<>>
      BY <1>5, <2>1, <2>2, <1>i DEF MergePut, Continue, TombstoneNext
    <2>4. r.ts \in Stamp
      BY <2>1, RequestFields
    <2>5. CASE Len(q) = 1
      <3>1. Len(q') = 0
        BY <2>1, <2>3, <2>5, <1>g
      <3>2. r.ts = heard /\ item < heard /\ Below(item)
        BY <2>1, <2>5, <1>i DEF Alone
      <3>3. Settled'
        BY <2>3, <3>2, <1>i, <1>t DEF Settled, Unread, Below
      <3> QED
        BY <2>3, <2>4, <3>1, <3>2, <3>3, <1>a, <1>t
    <2>6. CASE Len(q) = 2
      <3>1. PICK b \in Request : b = q[2] /\ Paired(b) /\ ~ Merge(b) /\ Beside(r, b)
        BY <2>1, <2>2, <2>6, <1>i, <1>q
      <3>2. Len(q') = 1 /\ q'[1] = b
        BY <2>1, <2>3, <2>6, <3>1, <1>g
      <3>3. b.op \in {"edit", "edit-get"} /\ r.ts = heard
        BY <2>1, <3>1 DEF Paired, Beside
      <3>4. Below(heard)
        BY <2>1, <3>1, <3>3, <1>i, <1>t DEF Beside, Below
      <3>5. b.op = "edit" => heard <= b.ts
        BY <2>1, <3>1 DEF Beside
      <3>6. Alone(b)'
        BY <2>3, <3>3, <3>4, <3>5, <1>t DEF Alone, Settled, Unread, Below
      <3>7. Paired(b)'
        BY <2>3, <3>1 DEF Paired
      <3> QED
        BY <2>3, <2>4, <3>2, <3>3, <3>6, <3>7, <1>b, <1>t
    <2> QED
      BY <2>1, <2>5, <2>6, <1>n
  <1>6. CASE Edit
    <2>1. PICK r \in Request : r = q[1] /\ q # <<>> /\ r.op = "edit" /\ Head(q) = r
      BY <1>6, <1>g, <1>n, <1>q DEF Edit, Run
    <2>2. PICK x \in Request : x = [op |-> "edit-get"] /\ x.op = "edit-get"
      BY RequestsMade
    <2>3. /\ UNCHANGED <<timing, tombAt, clock, heard, pushed>>
          /\ item' = r.ts /\ q' = Tail(q) \o <<x>> /\ tq' = <<>>
      BY <1>6, <2>1, <2>2, <1>i, <1>t DEF Edit, Continue
    <2>4. r.ts \in Stamp /\ r.ts <= clock
      BY <2>1, RequestFields, <1>n, <1>q DEF Paired
    <2>5. Paired(x)' /\ ~ Merge(x) /\ ~ Merge(r)
      BY <2>1, <2>2 DEF Paired, Merge
    <2>6. CASE Len(q) = 1
      <3>1. Len(q') = 1 /\ q'[1] = x
        BY <2>1, <2>3, <2>6, <1>g
      <3>2. Settled /\ item <= r.ts
        BY <2>1, <2>6, <1>i DEF Alone
      <3>3. Alone(x)'
        BY <2>2, <2>3, <2>4, <3>2, <1>i, <1>t DEF Alone, Settled, Unread, Below
      <3> QED
        BY <2>3, <2>4, <2>5, <3>1, <3>3, <1>b
    <2>7. CASE Len(q) = 2
      <3>1. PICK b \in Request : b = q[2] /\ Paired(b) /\ Merge(b) /\ Beside(r, b)
        BY <2>1, <2>5, <2>7, <1>i, <1>q
      <3>2. Len(q') = 2 /\ q'[1] = b /\ q'[2] = x
        BY <2>1, <2>3, <2>7, <3>1, <1>g
      <3>3. b.ts = heard /\ Below(item)
        BY <2>1, <3>1 DEF Beside, Merge, Unread
      <3>4. b.op = "merge-get" => Below(r.ts)
        <4>1. b.op = "merge-get" => item <= r.ts
          BY <2>1, <3>1 DEF Beside
        <4>2. ASSUME item <= r.ts, NEW t \in pushed
              PROVE  t <= r.ts
          <5>1. t \in Nat /\ item \in Nat /\ r.ts \in Nat /\ t <= item
            BY <3>3, <2>4, <1>i, <1>t DEF Below
          <5> QED
            BY <4>2, <5>1
        <4> QED
          BY <4>1, <4>2 DEF Below
      <3>5. Beside(b, x)'
        <4>1. b.op = "merge-put" => Below(heard)
          BY <2>1, <3>1, <3>3, <1>i, <1>t DEF Beside, Below
        <4>2. b.op = "merge-get" => Below(r.ts)
          BY <3>4
        <4> QED
          BY <2>2, <2>3, <3>1, <3>3, <4>1, <4>2 DEF Beside, Merge, Below
      <3>6. Paired(b)'
        BY <2>3, <3>1 DEF Paired
      <3> QED
        BY <2>3, <2>4, <2>5, <3>1, <3>2, <3>5, <3>6, <1>c
    <2> QED
      BY <2>1, <2>6, <2>7, <1>n
  <1>7. CASE EditGet
    <2>1. PICK r \in Request : r = q[1] /\ q # <<>> /\ r.op = "edit-get" /\ Head(q) = r
      BY <1>7, <1>g, <1>n, <1>q DEF EditGet, Run
    <2>2. /\ UNCHANGED <<timing, item, tombAt, clock, heard>>
          /\ pushed' = pushed \union {item} /\ q' = Tail(q) \o <<>> /\ tq' = <<>>
      BY <1>7, <2>1, <1>i, <1>t DEF EditGet, Continue
    <2>3. ~ Merge(r)
      BY <2>1 DEF Merge
    <2>4. CASE Len(q) = 1
      <3>1. Len(q') = 0
        BY <2>1, <2>2, <2>4, <1>g
      <3>2. Settled'
        BY <2>1, <2>2, <2>4, <1>i, <1>t DEF Alone, Settled, Unread, Below
      <3> QED
        BY <2>2, <3>1, <3>2, <1>a, <1>i
    <2>5. CASE Len(q) = 2
      <3>1. PICK b \in Request : b = q[2] /\ Paired(b) /\ Merge(b) /\ Beside(r, b)
        BY <2>1, <2>3, <2>5, <1>i, <1>q
      <3>2. Len(q') = 1 /\ q'[1] = b
        BY <2>1, <2>2, <2>5, <3>1, <1>g
      <3>3. Alone(b)'
        BY <2>1, <2>2, <3>1, <1>i, <1>t DEF Alone, Beside, Merge, Unread, Below
      <3>4. Paired(b)'
        BY <2>2, <3>1 DEF Paired
      <3> QED
        BY <2>2, <3>2, <3>3, <3>4, <1>b, <1>i
    <2> QED
      BY <2>1, <2>4, <2>5, <1>n
  \* Nothing else happens.
  <1>8. ~ TombPut /\ ~ StartDelete
    BY <1>i DEF TombPut, StartDelete
  <1>9. ~ TombGet /\ ~ TombDelete /\ ~ DeleteGet /\ ~ DeleteRow
    <2>1. q # <<>> => Head(q).op \in {"merge-get", "merge-put", "edit", "edit-get"}
      BY <1>g, <1>n, <1>q, RequestsMade DEF Paired, Merge
    <2> QED
      BY <2>1 DEF TombGet, TombDelete, DeleteGet, DeleteRow, Run
  <1>10. CASE UNCHANGED dbVars
    BY <1>10 DEF dbVars, PairsInv, Settled, Unread, Below, Alone, Beside, Paired, Merge
  <1>11. ASSUME \/ \E ts \in Stamp, at \in 0 .. MaxClock : Arrive(ts, at)
                \/ \E at \in Stamp : Arrive(0, at)
         PROVE  PairsInv'
    BY <1>11, <1>2 DEF Stamp
  <1> QED
    BY <1>1, <1>3, <1>4, <1>5, <1>6, <1>7, <1>8, <1>9, <1>10, <1>11 DEF DbNext

\* Device and server agree although edits overlap merges (mergeEntity, updateItem): once
\* all is quiet the row is the latest of what the server sent and what the device pushed,
\* so an edit that a merge overwrote has not reached the server either.
THEOREM DbQuietAgrees == DbSpec => []QuietAgrees
  <1>1. DbInit => PairsInv
    BY DEF DbInit, PairsInv, Settled, Unread, Below, Stamp
  <1>2. DbTypeOK /\ PairsInv /\ [DbNext]_dbVars => PairsInv'
    <2> SUFFICES ASSUME DbTypeOK, PairsInv, [DbNext]_dbVars
                 PROVE  PairsInv'
      OBVIOUS
    <2>1. CASE timing = "pairs"
      BY <2>1, PairsStep
    <2>2. CASE timing # "pairs"
      BY <2>2, TimingStays DEF PairsInv
    <2> QED
      BY <2>1, <2>2
  <1>3. DbTypeOK /\ PairsInv => QuietAgrees
    <2> SUFFICES ASSUME DbTypeOK, PairsInv, timing = "pairs", Quiet
                 PROVE  /\ item \in {heard} \union pushed
                        /\ \A ts \in {heard} \union pushed : ts <= item
      BY DEF QuietAgrees
    <2>1. Settled /\ item \in Nat /\ heard \in Nat
      BY DbQueues DEF PairsInv, Quiet, Stamp, DbTypeOK
    <2> QED
      BY <2>1 DEF Settled, Unread, Below
  <1> QED
    BY <1>1, <1>2, <1>3, DbTypeCorrect, PTL DEF DbSpec

-----------------------------------------------------------------------------
(* What the server sent, when handlers do not overlap.                     *)

\* The row, or else the tombstone, is as recent as the latest message.
Latest == IF item = NoRow THEN tombAt >= heard ELSE item >= heard

\* The row is as recent as the latest message, and survives a deletion stamped at.
Newer(at) == item # NoRow /\ item >= heard /\ item > at

\* The one request that is under way is about the latest message, or what the message
\* asked for is there already.
Carries(r) ==
    /\ Merge(r) => r.ts = heard /\ r.thenDelete < r.ts
    /\ r.op = "tomb-get" => (r.at = heard /\ tombAt = heard) \/ Newer(r.at)
    /\ r.op = "tomb-delete" => tombAt = heard
    /\ r.op \in {"edit", "edit-get", "delete-get", "delete"} => Latest

TombCarries(t) ==
    IF t.local THEN item = NoRow /\ t.at >= heard ELSE t.at = heard \/ Newer(t.at)

SerialInv ==
    timing = "serial" =>
        /\ Quiet => Latest
        /\ \A r \in Queued(q) : Carries(r)
        /\ \A t \in Queued(tq) : TombCarries(t)

LEMMA OneQueued ==
    /\ Queued(<<>>) = {}
    /\ \A x : Queued(<<x>>) = {x} /\ <<x>> # <<>>
    /\ \A x : <<>> \o <<x>> = <<x>> /\ Append(<<>>, x) = <<x>>
    /\ <<>> \o <<>> = <<>>
  <1>1. \A x : Queued(<<x>>) = {x}
    BY DEF Queued
  <1>2. Queued(<<>>) = {}
    BY DEF Queued
  <1>3. \A x : <<>> \o <<x>> = <<x>> /\ Append(<<>>, x) = <<x>> /\ <<x>> # <<>>
    OBVIOUS
  <1> QED
    BY <1>1, <1>2, <1>3

LEMMA SerialStep ==
    ASSUME DbTypeOK, OrderInv, SerialInv, [DbNext]_dbVars, timing = "serial"
    PROVE  SerialInv'
  <1>t. /\ q \in Seq(Request) /\ tq \in Seq(TombRequest)
        /\ heard \in Nat /\ clock \in Nat /\ heard <= clock /\ tombAt \in Nat
        /\ item # NoRow => item \in Nat
        /\ NoRow \notin Nat
    BY DEF DbTypeOK, Stamp
  \* The shapes of the state after the step.
  <1>a. ASSUME q' = <<>>, tq' = <<>>, Latest'
        PROVE  SerialInv'
    BY <1>a, OneQueued DEF SerialInv
  <1>b. ASSUME NEW x, q' = <<x>>, tq' = <<>>, Carries(x)'
        PROVE  SerialInv'
    BY <1>b, OneQueued DEF SerialInv, Quiet
  <1>c. ASSUME NEW t, q' = <<>>, tq' = <<t>>, TombCarries(t)'
        PROVE  SerialInv'
    BY <1>c, OneQueued DEF SerialInv, Quiet
  <1>d. ASSUME UNCHANGED <<timing, item, tombAt, q, tq, heard>>
        PROVE  SerialInv'
    BY <1>d DEF SerialInv, Quiet, Latest, Carries, TombCarries, Newer
  \* The request that runs, and what is left without it.
  <1>h. ASSUME q # <<>>
        PROVE  /\ Head(q) \in Request /\ Carries(Head(q)) /\ Waits(Head(q))
               /\ Tail(q) = <<>> /\ tq = <<>>
    BY <1>h, FirstWaits DEF SerialInv
  <1>n. ASSUME NEW at \in 0 .. MaxClock, TombstoneNext(at), tq = <<>>, q' = <<>>, Latest',
               at # 0 => (at = heard)' \/ Newer(at)'
        PROVE  SerialInv'
    <2>1. CASE at = 0
      BY <1>n, <2>1, <1>a DEF TombstoneNext
    <2>2. CASE at # 0
      <3>1. PICK t \in TombRequest : t = [at |-> at, local |-> FALSE] /\ t.at = at /\ ~ t.local
        <4>1. at \in Stamp
          BY <2>2 DEF Stamp
        <4> QED
          BY <4>1, RequestsMade
      <3>2. tq' = <<t>>
        BY <1>n, <2>2, <3>1, OneQueued DEF TombstoneNext
      <3>3. TombCarries(t)'
        BY <1>n, <2>2, <3>1 DEF TombCarries
      <3> QED
        BY <1>n, <3>2, <3>3, <1>c
    <2> QED
      BY <2>1, <2>2
  <1>1. CASE DbTick
    BY <1>1, <1>d DEF DbTick
  <1>2. ASSUME NEW ts \in 0 .. MaxClock, NEW at \in 0 .. MaxClock, Arrive(ts, at)
        PROVE  SerialInv'
    <2>1. /\ q = <<>> /\ tq = <<>>
          /\ heard' = IF ts = 0 THEN at ELSE ts
          /\ ts # 0 => at < ts
          /\ UNCHANGED <<timing, item, tombAt>>
          /\ heard' # 0
      BY <1>2, <1>t DEF Arrive, MayStart, Quiet
    <2>2. CASE ts = 0
      <3>1. PICK t \in TombRequest : t = [at |-> at, local |-> FALSE] /\ t.at = at /\ ~ t.local
        <4>1. at \in Stamp
          BY <2>1, <2>2 DEF Stamp
        <4> QED
          BY <4>1, RequestsMade
      <3>2. tq' = <<t>> /\ q' = <<>>
        BY <1>2, <2>1, <2>2, <3>1, OneQueued DEF Arrive
      <3> QED
        BY <2>1, <2>2, <3>1, <3>2, <1>c DEF TombCarries
    <2>3. CASE ts # 0
      <3>1. PICK x \in Request : /\ x = [op |-> "merge-get", ts |-> ts, thenDelete |-> at]
                                 /\ x.op = "merge-get" /\ x.ts = ts /\ x.thenDelete = at
        <4>1. ts \in Stamp
          BY <2>3 DEF Stamp
        <4> QED
          BY <4>1, RequestsMade
      <3>2. tq' = <<>> /\ q' = <<x>>
        BY <1>2, <2>1, <2>3, <3>1, OneQueued DEF Arrive
      <3>3. Carries(x)'
        BY <2>1, <2>3, <3>1 DEF Carries, Merge
      <3> QED
        BY <3>2, <3>3, <1>b
    <2> QED
      BY <2>2, <2>3
  <1>3. ASSUME NEW x \in Request, UserStarts(x), x.op \in {"edit", "delete-get"}
        PROVE  SerialInv'
    <2>1. /\ q = <<>> /\ tq' = <<>> /\ q' = Append(q, x) /\ Latest
          /\ UNCHANGED <<item, tombAt, heard>>
      BY <1>3 DEF UserStarts, MayStart, SerialInv, Quiet
    <2>2. q' = <<x>> /\ Carries(x)'
      BY <1>3, <2>1, OneQueued DEF Carries, Latest, Merge
    <2> QED
      BY <2>1, <2>2, <1>b
  <1>4. CASE MergeGet
    <2>1. PICK r \in Request : r = Head(q) /\ q # <<>> /\ r.op = "merge-get"
      BY <1>4, <1>h DEF MergeGet, Run
    <2>2. /\ r.ts = heard /\ r.thenDelete < r.ts
          /\ r.thenDelete \in 0 .. MaxClock
      BY <2>1, <1>h, RequestFields DEF Carries, Merge
    <2>3. UNCHANGED <<timing, item, tombAt, clock, heard>>
      BY <1>4 DEF MergeGet
    <2>4. CASE Accepts(r.ts)
      <3>1. PICK x \in Request : /\ x = [r EXCEPT !.op = "merge-put"] /\ x.op = "merge-put"
                                 /\ x.ts = r.ts /\ x.thenDelete = r.thenDelete
        BY <2>1, RequestGoesOn
      <3>2. q' = <<x>> /\ tq' = <<>>
        BY <1>4, <1>h, <2>1, <2>4, <3>1, OneQueued DEF MergeGet, Continue
      <3>3. Carries(x)'
        BY <2>2, <2>3, <3>1 DEF Carries, Merge
      <3> QED
        BY <3>2, <3>3, <1>b
    <2>5. CASE ~ Accepts(r.ts)
      <3>1. item # NoRow /\ item >= heard /\ item > r.thenDelete
        BY <2>2, <2>5, <1>t DEF Accepts
      <3>2. q' = <<>> /\ TombstoneNext(r.thenDelete) /\ tq = <<>>
        BY <1>4, <1>h, <2>1, <2>5, OneQueued DEF MergeGet, Continue
      <3>3. Latest' /\ Newer(r.thenDelete)'
        BY <2>3, <3>1 DEF Latest, Newer
      <3> QED
        BY <2>2, <3>2, <3>3, <1>n
    <2> QED
      BY <2>4, <2>5
  <1>5. CASE MergePut
    <2>1. PICK r \in Request : r = Head(q) /\ q # <<>> /\ r.op = "merge-put"
      BY <1>5, <1>h DEF MergePut, Run
    <2>2. /\ r.ts = heard /\ r.thenDelete < r.ts
          /\ r.thenDelete \in 0 .. MaxClock
      BY <2>1, <1>h, RequestFields DEF Carries, Merge
    <2>3. /\ UNCHANGED <<timing, tombAt, clock, heard>>
          /\ item' = r.ts /\ q' = <<>> /\ TombstoneNext(r.thenDelete) /\ tq = <<>>
      BY <1>5, <2>1, <1>h, OneQueued DEF MergePut, Continue
    <2>4. Latest' /\ Newer(r.thenDelete)'
      BY <2>2, <2>3, <1>t DEF Latest, Newer
    <2> QED
      BY <2>2, <2>3, <2>4, <1>n
  <1>6. CASE TombPut
    <2>0. tq \in Seq(TombRequest) /\ Len(tq) <= 1 /\ tq # <<>> /\ q = <<>>
      BY <1>6, DbQueues DEF TombPut, DbTypeOK
    <2>1. PICK r \in TombRequest : r = Head(tq) /\ TombCarries(r) /\ tq' = <<>>
      BY <1>6, <2>0, QueuedHead, QueuedOne DEF TombPut, SerialInv
    <2>2. tombAt' = r.at /\ UNCHANGED <<item, heard>>
      BY <1>6, <2>1 DEF TombPut
    <2>3. CASE r.local
      <3>1. q' = <<>>
        BY <1>6, <2>0, <2>1, <2>3 DEF TombPut
      <3>2. Latest'
        BY <2>1, <2>2, <2>3 DEF TombCarries, Latest
      <3> QED
        BY <2>1, <3>1, <3>2, <1>a
    <2>4. CASE ~ r.local
      <3>1. PICK x \in Request : /\ x = [op |-> "tomb-get", at |-> r.at]
                                 /\ x.op = "tomb-get" /\ x.at = r.at
        BY RequestsMade DEF TombRequest
      <3>2. q' = <<x>>
        BY <1>6, <2>0, <2>1, <2>4, <3>1, OneQueued DEF TombPut
      <3>3. Carries(x)'
        BY <2>1, <2>2, <2>4, <3>1 DEF TombCarries, Carries, Newer, Merge
      <3> QED
        BY <2>1, <3>2, <3>3, <1>b
    <2> QED
      BY <2>3, <2>4
  <1>7. CASE TombGet
    <2>1. PICK r \in Request : r = Head(q) /\ q # <<>> /\ r.op = "tomb-get"
      BY <1>7, <1>h DEF TombGet, Run
    <2>2. (r.at = heard /\ tombAt = heard) \/ Newer(r.at)
      BY <2>1, <1>h DEF Carries
    <2>3. UNCHANGED <<item, tombAt, heard>> /\ tq' = <<>>
      BY <1>7, <2>1, <1>h DEF TombGet
    <2>4. r.at \in Nat
      BY <2>1, RequestFields DEF Stamp
    <2>5. CASE ShouldDelete(r.at)
      <3>1. PICK x \in Request : x = [r EXCEPT !.op = "tomb-delete"] /\ x.op = "tomb-delete"
        BY <2>1, RequestGoesOn
      <3>2. q' = <<x>>
        BY <1>7, <1>h, <2>1, <2>5, <3>1, OneQueued DEF TombGet, Continue
      <3>3. tombAt = heard
        BY <2>2, <2>4, <2>5, <1>t DEF ShouldDelete, Newer
      <3>4. Carries(x)'
        BY <2>3, <3>1, <3>3 DEF Carries, Merge
      <3> QED
        BY <2>3, <3>2, <3>4, <1>b
    <2>6. CASE ~ ShouldDelete(r.at)
      <3>1. q' = <<>>
        BY <1>7, <1>h, <2>1, <2>6, OneQueued DEF TombGet, Continue
      <3>2. item # NoRow /\ item >= heard
        BY <2>2, <2>4, <2>6, <1>t DEF ShouldDelete, Newer
      <3>3. Latest'
        BY <2>3, <3>2 DEF Latest
      <3> QED
        BY <2>3, <3>1, <3>3, <1>a
    <2> QED
      BY <2>5, <2>6
  <1>8. CASE TombDelete
    <2>1. /\ q # <<>> /\ Head(q).op = "tomb-delete" /\ item' = NoRow
          /\ UNCHANGED <<tombAt, tq, heard>> /\ q' = Tail(q) \o <<>>
      BY <1>8 DEF TombDelete, Run, Continue
    <2>2. tombAt = heard /\ q' = <<>> /\ tq' = <<>>
      BY <2>1, <1>h, OneQueued DEF Carries
    <2>3. Latest'
      BY <2>1, <2>2, <1>t DEF Latest
    <2> QED
      BY <2>2, <2>3, <1>a
  <1>9. CASE Edit
    <2>1. PICK r \in Request : r = Head(q) /\ q # <<>> /\ r.op = "edit"
      BY <1>9, <1>h DEF Edit, Run
    <2>2. PICK x \in Request : x = [op |-> "edit-get"] /\ x.op = "edit-get"
      BY RequestsMade
    <2>3. /\ item' = IF item = NoRow THEN NoRow ELSE r.ts
          /\ UNCHANGED <<tombAt, heard>> /\ q' = <<x>> /\ tq' = <<>>
      BY <1>9, <2>1, <2>2, <1>h, OneQueued DEF Edit, Continue
    <2>4. Latest /\ (item = NoRow \/ item <= r.ts) /\ r.ts \in Nat
      BY <2>1, <1>h, RequestFields DEF Carries, Waits, Stamp
    <2>5. Latest'
      BY <2>3, <2>4, <1>t DEF Latest
    <2>6. Carries(x)'
      BY <2>2, <2>5 DEF Carries, Merge
    <2> QED
      BY <2>3, <2>6, <1>b
  <1>10. CASE EditGet
    <2>1. /\ q # <<>> /\ Head(q).op = "edit-get"
          /\ UNCHANGED <<item, tombAt, tq, heard>> /\ q' = Tail(q) \o <<>>
      BY <1>10 DEF EditGet, Run, Continue
    <2>2. Latest /\ q' = <<>> /\ tq' = <<>>
      BY <2>1, <1>h, OneQueued DEF Carries
    <2>3. Latest'
      BY <2>1, <2>2 DEF Latest
    <2> QED
      BY <2>2, <2>3, <1>a
  <1>11. CASE DeleteGet
    <2>1. /\ q # <<>> /\ Head(q).op = "delete-get"
          /\ UNCHANGED <<item, tombAt, tq, heard>>
      BY <1>11 DEF DeleteGet, Run
    <2>2. Latest /\ Latest' /\ tq' = <<>>
      BY <2>1, <1>h DEF Carries, Latest
    <2>3. CASE item = NoRow
      <3>1. q' = <<>>
        BY <1>11, <2>1, <2>3, <1>h, OneQueued DEF DeleteGet, Continue
      <3> QED
        BY <2>2, <3>1, <1>a
    <2>4. CASE item # NoRow
      <3>1. PICK x \in Request : x = [op |-> "delete"] /\ x.op = "delete"
        BY RequestsMade
      <3>2. q' = <<x>>
        BY <1>11, <2>1, <2>4, <3>1, <1>h, OneQueued DEF DeleteGet, Continue
      <3>3. Carries(x)'
        BY <2>2, <3>1 DEF Carries, Merge
      <3> QED
        BY <2>2, <3>2, <3>3, <1>b
    <2> QED
      BY <2>3, <2>4
  <1>12. CASE DeleteRow
    <2>1. PICK t \in TombRequest : t = [at |-> clock, local |-> TRUE] /\ t.at = clock /\ t.local
      BY RequestsMade DEF DbTypeOK
    <2>2. /\ q # <<>> /\ item' = NoRow /\ heard' = heard
          /\ q' = Tail(q) \o <<>> /\ tq' = Append(tq, t)
      BY <1>12, <2>1 DEF DeleteRow, Run, Continue
    <2>3. q' = <<>> /\ tq' = <<t>>
      BY <2>2, <1>h, OneQueued
    <2>4. TombCarries(t)'
      BY <2>1, <2>2, <1>t DEF TombCarries
    <2> QED
      BY <2>3, <2>4, <1>c
  <1>13. CASE UNCHANGED dbVars
    BY <1>13, <1>d DEF dbVars
  <1>14. CASE StartEdit \/ StartDelete
    <2>1. [op |-> "edit", ts |-> clock] \in Request /\ [op |-> "delete-get"] \in Request
      BY RequestsMade DEF DbTypeOK
    <2> QED
      BY <2>1, <1>3, <1>14 DEF StartEdit, StartDelete
  <1>15. ASSUME \/ \E ts \in Stamp, at \in 0 .. MaxClock : Arrive(ts, at)
                \/ \E at \in Stamp : Arrive(0, at)
         PROVE  SerialInv'
    BY <1>15, <1>2 DEF Stamp
  <1> QED
    BY <1>1, <1>4, <1>5, <1>6, <1>7, <1>8, <1>9, <1>10, <1>11, <1>12, <1>13, <1>14, <1>15
    DEF DbNext

-----------------------------------------------------------------------------
(* What the server sent, when versions arrive back to back.                *)

\* Only versions wait, the entity stays, and the latest version is there or waits.
StreamInv ==
    timing = "stream" =>
        /\ tq = <<>> /\ item # NoRow
        /\ \A r \in Queued(q) : Merge(r) /\ r.thenDelete = 0
        /\ item >= heard \/ \E r \in Queued(q) : r.ts = heard

LEMMA StreamStep ==
    ASSUME DbTypeOK, OrderInv, StreamInv, [DbNext]_dbVars, timing = "stream"
    PROVE  StreamInv'
  <1>t. /\ q \in Seq(Request)
        /\ heard \in Nat /\ item \in Nat
        /\ NoRow \notin Nat
    BY DEF DbTypeOK, Stamp, StreamInv
  <1>i. /\ tq = <<>> /\ item # NoRow
        /\ \A r \in Queued(q) : Merge(r) /\ r.thenDelete = 0
        /\ item >= heard \/ \E r \in Queued(q) : r.ts = heard
    BY DEF StreamInv
  <1>d. ASSUME UNCHANGED <<timing, item, q, tq, heard>>
        PROVE  StreamInv'
    BY <1>d, <1>i DEF StreamInv
  \* Of the requests that wait, the first is done with; another one may wait for it.
  <1>h. ASSUME q # <<>>
        PROVE  /\ Head(q) \in Request /\ Merge(Head(q)) /\ Head(q).thenDelete = 0
               /\ Head(q).ts \in Nat /\ Head(q).ts <= heard
               /\ Tail(q) \o <<>> = Tail(q)
               /\ Queued(Tail(q)) \subseteq Queued(q)
               /\ Queued(q) \subseteq Queued(Tail(q)) \union {Head(q)}
               /\ \A x \in Request : Queued(Tail(q) \o <<x>>) = Queued(Tail(q)) \union {x}
    <2>1. Head(q) \in Request /\ Head(q) \in Queued(q) /\ Waits(Head(q))
      BY <1>h, FirstWaits
    <2>2. Merge(Head(q)) /\ Head(q).thenDelete = 0 /\ Head(q).ts <= heard
      BY <2>1, <1>i DEF Waits
    <2>3. Head(q).ts \in Nat
      BY <2>1, <2>2, RequestFields DEF Merge, Stamp
    <2>4. Queued(q) \subseteq Queued(Tail(q)) \union {Head(q)}
      BY <1>h, <1>t, QueuedSplit
    <2> QED
      BY <1>h, <2>1, <2>2, <2>3, <2>4, QueueMoves
  <1>1. CASE DbTick
    BY <1>1, <1>d DEF DbTick
  <1>2. ASSUME NEW ts \in 0 .. MaxClock, NEW at \in 0 .. MaxClock, Arrive(ts, at)
        PROVE  StreamInv'
    <2>1. at = 0
      BY <1>2 DEF Arrive
    <2>2. ts # 0
      BY <1>2, <1>t, <2>1 DEF Arrive
    <2>3. ts \in Stamp
      BY <2>2 DEF Stamp
    <2>4. PICK x \in Request : /\ x = [op |-> "merge-get", ts |-> ts, thenDelete |-> at]
                               /\ x.op = "merge-get" /\ x.ts = ts /\ x.thenDelete = at
      BY <2>3, RequestsMade
    <2>5. /\ q' = Append(q, x) /\ heard' = ts
          /\ UNCHANGED <<timing, item, tq>>
      BY <1>2, <2>2, <2>4 DEF Arrive
    <2>6. Queued(q') = Queued(q) \union {x}
      BY <2>5, <1>t, QueuedAppend
    <2> QED
      BY <2>1, <2>4, <2>5, <2>6, <1>i DEF StreamInv, Merge
  <1>4. CASE MergeGet
    <2>1. PICK r \in Request : r = Head(q) /\ q # <<>> /\ r.op = "merge-get"
      BY <1>4, <1>h DEF MergeGet, Run
    <2>2. UNCHANGED <<timing, item, tombAt, clock, heard>>
      BY <1>4 DEF MergeGet
    <2>4. CASE Accepts(r.ts)
      <3>1. PICK x \in Request : /\ x = [r EXCEPT !.op = "merge-put"] /\ x.op = "merge-put"
                                 /\ x.ts = r.ts /\ x.thenDelete = r.thenDelete
        BY <2>1, RequestGoesOn
      <3>2. q' = Tail(q) \o <<x>> /\ tq' = tq
        BY <1>4, <2>1, <2>4, <3>1 DEF MergeGet, Continue
      <3>3. Queued(q') = Queued(Tail(q)) \union {x}
        BY <3>2, <2>1, <1>h
      <3>4. x.thenDelete = 0 /\ Merge(x)
        BY <3>1, <2>1, <1>h DEF Merge
      <3>5. \A s \in Queued(q') : Merge(s) /\ s.thenDelete = 0
        BY <3>3, <3>4, <2>1, <1>h, <1>i
      <3>6. (\E s \in Queued(q) : s.ts = heard) => \E s \in Queued(q') : s.ts = heard
        BY <3>1, <3>3, <2>1, <1>h
      <3> QED
        BY <2>2, <3>2, <3>5, <3>6, <1>i DEF StreamInv
    <2>5. CASE ~ Accepts(r.ts)
      <3>1. item >= r.ts
        BY <2>1, <2>5, <1>h, <1>t DEF Accepts
      <3>2. q' = Tail(q) /\ tq' = tq
        BY <1>4, <1>h, <2>1, <2>5 DEF MergeGet, Continue, TombstoneNext
      <3>3. (\E s \in Queued(q) : s.ts = heard) =>
               item >= heard \/ \E s \in Queued(q') : s.ts = heard
        BY <3>1, <3>2, <2>1, <1>h
      <3> QED
        BY <2>1, <2>2, <3>2, <3>3, <1>h, <1>i DEF StreamInv
    <2> QED
      BY <2>4, <2>5
  <1>5. CASE MergePut
    <2>1. PICK r \in Request : r = Head(q) /\ q # <<>> /\ r.op = "merge-put"
      BY <1>5, <1>h DEF MergePut, Run
    <2>2. r.thenDelete = 0 /\ r.ts \in Nat /\ (item # NoRow => item < r.ts)
      BY <2>1, <1>h, FirstWaits DEF Waits
    <2>3. /\ UNCHANGED <<timing, tombAt, clock, heard>>
          /\ item' = r.ts /\ q' = Tail(q) /\ tq' = tq
      BY <1>5, <2>1, <2>2, <1>h DEF MergePut, Continue, TombstoneNext
    <2>4. CASE item >= heard
      <3>1. item' >= heard' /\ item' # NoRow
        BY <2>2, <2>3, <2>4, <1>t, <1>i
      <3> QED
        BY <2>1, <2>3, <3>1, <1>h, <1>i DEF StreamInv
    <2>5. CASE \E s \in Queued(q) : s.ts = heard
      <3>1. item' >= heard' \/ \E s \in Queued(q') : s.ts = heard'
        BY <2>1, <2>2, <2>3, <2>5, <1>t, <1>h
      <3>2. item' # NoRow
        BY <2>2, <2>3, <1>t
      <3> QED
        BY <2>1, <2>3, <3>1, <3>2, <1>h, <1>i DEF StreamInv
    <2> QED
      BY <2>4, <2>5, <1>i
  \* Nothing else happens.
  <1>6. ~ TombPut
    BY <1>i DEF TombPut
  <1>7. ~ TombGet /\ ~ TombDelete /\ ~ Edit /\ ~ EditGet /\ ~ DeleteGet /\ ~ DeleteRow
    BY <1>h DEF TombGet, TombDelete, Edit, EditGet, DeleteGet, DeleteRow, Run, Merge
  <1>8. ~ StartEdit /\ ~ StartDelete
    BY DEF StartEdit, StartDelete, UserStarts
  <1>9. CASE UNCHANGED dbVars
    BY <1>9, <1>d DEF dbVars
  <1>10. ASSUME \/ \E ts \in Stamp, at \in 0 .. MaxClock : Arrive(ts, at)
                \/ \E at \in Stamp : Arrive(0, at)
         PROVE  StreamInv'
    BY <1>10, <1>2 DEF Stamp
  <1> QED
    BY <1>1, <1>4, <1>5, <1>6, <1>7, <1>8, <1>9, <1>10 DEF DbNext

\* What the server sent is on the device once all is quiet, if handlers do not overlap
\* (mergeEntity, applyTombstone, with edits and deletions of the user between them), and
\* also if versions arrive back to back and their handlers do overlap.
THEOREM DbQuietShowsLatest == DbSpec => []QuietShowsLatest
  <1>1. DbInit => SerialInv /\ StreamInv
    <2> SUFFICES ASSUME DbInit
                 PROVE  SerialInv /\ StreamInv
      OBVIOUS
    <2>1. 1 # NoRow
      OBVIOUS
    <2> QED
      BY <2>1, OneQueued DEF DbInit, SerialInv, StreamInv, Latest
  <1>2. /\ DbTypeOK /\ OrderInv /\ SerialInv /\ StreamInv /\ [DbNext]_dbVars
        => (SerialInv /\ StreamInv)'
    <2> SUFFICES ASSUME DbTypeOK, OrderInv, SerialInv, StreamInv, [DbNext]_dbVars
                 PROVE  SerialInv' /\ StreamInv'
      OBVIOUS
    <2>1. timing' = timing
      BY TimingStays
    <2>2. timing = "serial" => SerialInv'
      BY SerialStep
    <2>3. timing = "stream" => StreamInv'
      BY StreamStep
    <2> QED
      BY <2>1, <2>2, <2>3 DEF SerialInv, StreamInv
  <1>3. DbTypeOK /\ SerialInv /\ StreamInv => QuietShowsLatest
    BY OneQueued DEF SerialInv, StreamInv, QuietShowsLatest, ShowsLatest, Latest, Quiet
  <1>4. DbInit /\ timing \in {"pairs", "edits"} => (timing \in {"pairs", "edits"} /\ QuietShowsLatest)
    BY DEF QuietShowsLatest
  <1>5. timing \in {"pairs", "edits"} /\ [DbNext]_dbVars => (timing \in {"pairs", "edits"} /\ QuietShowsLatest)'
    BY TimingStays DEF QuietShowsLatest
  <1>6. DbSpec /\ timing \in {"pairs", "edits"} => []QuietShowsLatest
    BY <1>4, <1>5, PTL DEF DbSpec
  <1>7. DbSpec /\ timing \notin {"pairs", "edits"} => []QuietShowsLatest
    BY <1>1, <1>2, <1>3, OrderAlways, PTL DEF DbSpec
  <1>8. timing \in {"pairs", "edits"} \/ timing \notin {"pairs", "edits"}
    OBVIOUS
  <1> QED
    BY <1>6, <1>7, <1>8, PTL
=============================================================================
