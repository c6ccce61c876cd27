-------------------------- MODULE ListrRunner_proofs --------------------------
(***************************************************************************)
(* Proofs about the integration runner, for any number of items, modules,  *)
(* edits, midnights and restarts, and any limits.                          *)
(*                                                                         *)
(* Queues and jobs agree (Accounted); results of items that are gone are   *)
(* retried (Orphans); and every result is attended to (Idle): it is up to  *)
(* date, or its job waits, or runs on the inputs of now.                   *)
(***************************************************************************)
EXTENDS ListrRunner, FiniteSetTheorems, TLAPS

-----------------------------------------------------------------------------
(* Queues as sets of items.                                                *)

\* Sorting a queue is a permutation of its places.
LEMMA SortedIsPermutation ==
    ASSUME NEW S, NEW q \in Seq(S), NEW urgent
    PROVE  \E f : /\ f \in Injection(1 .. Len(q), 1 .. Len(q))
                  /\ f \in Surjection(1 .. Len(q), 1 .. Len(q))
                  /\ Sorted(q, urgent) \in Seq(S)
                  /\ DOMAIN Sorted(q, urgent) = 1 .. Len(q)
                  /\ \A n \in 1 .. Len(q) : Sorted(q, urgent)[n] = q[f[n]]
  <1> DEFINE N == 1 .. Len(q)
             before(j, k) == \/ q[j] \in urgent /\ q[k] \notin urgent
                             \/ (q[j] \in urgent <=> q[k] \in urgent) /\ j < k
             front(k) == {j \in N : before(j, k)}
             place(k) == 1 + Cardinality({j \in DOMAIN q : before(j, k)})
             at == [k \in N |-> 1 + Cardinality(front(k))]
  <1>1. DOMAIN q = N /\ Len(q) \in Nat
    OBVIOUS
  <1>2. IsFiniteSet(N) /\ Cardinality(N) = Len(q)
    BY <1>1, FS_Interval
  <1>3. ASSUME NEW k \in N PROVE /\ IsFiniteSet(front(k)) /\ Cardinality(front(k)) \in Nat
                                 /\ at[k] \in N
    <2>1. front(k) \subseteq N \ {k}
      BY <1>1
    <2>2. IsFiniteSet(N \ {k}) /\ Cardinality(N \ {k}) = Len(q) - 1
      BY <1>2, FS_RemoveElement
    <2>3. IsFiniteSet(front(k)) /\ Cardinality(front(k)) <= Len(q) - 1
      BY <2>1, <2>2, FS_Subset
    <2>4. Cardinality(front(k)) \in Nat
      BY <2>3, FS_CardinalityType
    <2>5. QED
      BY <1>1, <2>3, <2>4
  <1>4. ASSUME NEW j \in N, NEW k \in N, before(j, k) PROVE at[j] # at[k]
    <2>1. front(j) \union {j} \subseteq front(k) /\ j \notin front(j)
      BY <1>1, <1>4
    <2>2. /\ IsFiniteSet(front(j) \union {j})
          /\ Cardinality(front(j) \union {j}) = Cardinality(front(j)) + 1
      BY <1>3, <2>1, FS_AddElement
    <2>3. Cardinality(front(j) \union {j}) <= Cardinality(front(k))
      BY <1>3, <2>1, FS_Subset
    <2>4. at[j] = 1 + Cardinality(front(j)) /\ at[k] = 1 + Cardinality(front(k))
      OBVIOUS
    <2>5. Cardinality(front(j)) \in Nat /\ Cardinality(front(k)) \in Nat
      BY <1>3
    <2> HIDE DEF at, front
    <2>6. QED
      BY <2>2, <2>3, <2>4, <2>5
  <1>5. \A j, k \in N : j # k => before(j, k) \/ before(k, j)
    BY <1>1
  <1>6. at \in [N -> N]
    BY <1>3
  <1>7. \A j, k \in N : at[j] = at[k] => j = k
    BY <1>4, <1>5
  <1>8. at \in Injection(N, N)
    BY <1>6, <1>7 DEF Injection, IsInjective
  <1>9. at \in Surjection(N, N)
    BY <1>2, <1>8, FS_Injection
  <1> DEFINE f == [n \in N |-> CHOOSE k \in DOMAIN q : place(k) = n]
  <1>10. \A k \in N : place(k) = at[k]
    BY <1>1
  <1>11. ASSUME NEW n \in N PROVE f[n] \in N /\ at[f[n]] = n
    <2>1. PICK k \in N : at[k] = n
      BY <1>9 DEF Surjection
    <2>2. k \in DOMAIN q /\ place(k) = n
      BY <1>1, <1>10, <2>1
    <2>3. f[n] = CHOOSE x \in DOMAIN q : place(x) = n
      BY Zenon
    <2> HIDE DEF f, place
    <2>4. f[n] \in DOMAIN q /\ place(f[n]) = n
      BY <2>2, <2>3
    <2>5. QED
      BY <1>1, <1>10, <2>4
  <1>12. Sorted(q, urgent) = [n \in N |-> q[f[n]]]
    BY <1>1 DEF Sorted
  <1>13. f \in [N -> N]
    <2>1. \A n \in N : (CHOOSE k \in DOMAIN q : place(k) = n) \in N
      BY <1>11, Zenon
    <2> HIDE DEF place
    <2>2. QED
      BY <2>1, Zenon
  <1> HIDE DEF f, at
  <1>15. \A m, n \in N : f[m] = f[n] => m = n
    BY <1>11
  <1>16. f \in Injection(N, N)
    BY <1>13, <1>15 DEF Injection, IsInjective
  <1>17. f \in Surjection(N, N)
    BY <1>2, <1>16, FS_Injection
  <1>18. \A n \in N : f[n] \in N /\ q[f[n]] \in S
    BY <1>1, <1>13
  <1>19. [n \in N |-> q[f[n]]] \in Seq(S)
    BY <1>1, <1>18
  <1>20. /\ Sorted(q, urgent) \in Seq(S)
         /\ DOMAIN Sorted(q, urgent) = N
         /\ \A n \in N : Sorted(q, urgent)[n] = q[f[n]]
    BY <1>12, <1>19
  <1>21. QED
    BY <1>16, <1>17, <1>20

\* A sorted queue holds the same items, as often as before.
LEMMA SortedQueue ==
    ASSUME NEW S, NEW q \in Seq(S), NEW urgent, IsInjective(q)
    PROVE  /\ Sorted(q, urgent) \in Seq(S)
           /\ IsInjective(Sorted(q, urgent))
           /\ ToSet(Sorted(q, urgent)) = ToSet(q)
  <1> DEFINE N == 1 .. Len(q)
             s == Sorted(q, urgent)
  <1> HIDE DEF s
  <1>1. PICK f : /\ f \in Injection(N, N)
                 /\ f \in Surjection(N, N)
                 /\ s \in Seq(S)
                 /\ DOMAIN s = N
                 /\ \A n \in N : s[n] = q[f[n]]
    BY SortedIsPermutation DEF s
  <1>2. DOMAIN q = N /\ Len(q) \in Nat /\ \A k \in N : q[k] \in S
    OBVIOUS
  <1>3. \A m, n \in N : f[m] = f[n] => m = n
    BY <1>1 DEF Injection, IsInjective
  <1>4. \A k \in N : \E n \in N : f[n] = k
    BY <1>1 DEF Surjection
  <1>5. DOMAIN s = N /\ \A n \in N : s[n] = q[f[n]] /\ f[n] \in N
    BY <1>1, <1>2 DEF Injection
  <1>7. IsInjective(s)
    BY <1>1, <1>2, <1>3, <1>5 DEF IsInjective
  <1>8. ToSet(s) = ToSet(q)
    <2>1. ASSUME NEW x \in ToSet(s) PROVE x \in ToSet(q)
      BY <1>1, <1>2, <1>5 DEF ToSet
    <2>2. ASSUME NEW x \in ToSet(q) PROVE x \in ToSet(s)
      <3>1. PICK k \in N : x = q[k]
        BY <1>2 DEF ToSet
      <3>2. PICK n \in N : f[n] = k
        BY <1>4
      <3>3. x = s[n] /\ n \in DOMAIN s
        BY <1>5, <3>1, <3>2
      <3>4. QED
        BY <3>3 DEF ToSet
    <2>3. QED
      BY <2>1, <2>2
  <1>9. QED
    BY <1>1, <1>7, <1>8 DEF s

\* SetToSeq lists a finite set, each element once.
LEMMA SetListed ==
    ASSUME NEW S, IsFiniteSet(S)
    PROVE  /\ SetToSeq(S) \in Seq(S)
           /\ IsInjective(SetToSeq(S))
           /\ ToSet(SetToSeq(S)) = S
  <1> DEFINE n == Cardinality(S)
             q == SetToSeq(S)
  <1>1. n \in Nat /\ \E f \in Bijection(1 .. n, S) : TRUE
    BY FS_CardinalityType, Zenon DEF ExistsBijection
  <1>2. \E f \in [1 .. n -> S] : IsInjective(f)
    BY <1>1, Zenon DEF Bijection, Injection
  <1>3. q \in [1 .. n -> S] /\ IsInjective(q)
    BY <1>2, Zenon DEF SetToSeq
  <1>4. q \in Injection(1 .. n, S)
    BY <1>3, Zenon DEF Injection
  <1>5. IsFiniteSet(1 .. n) /\ Cardinality(1 .. n) = n
    BY <1>1, FS_Interval
  <1>6. q \in Surjection(1 .. n, S)
    BY <1>4, <1>5, FS_Injection, Zenon
  <1> HIDE DEF n, q
  <1>7. q \in Seq(S) /\ DOMAIN q = 1 .. n
    BY <1>1, <1>3
  <1>8. ToSet(q) = S
    BY <1>3, <1>6, <1>7 DEF Surjection, ToSet
  <1>9. QED
    BY <1>3, <1>7, <1>8 DEF q

\* Two queues with nothing in common, one behind the other.
LEMMA QueuesJoined ==
    ASSUME NEW S, NEW s \in Seq(S), NEW t \in Seq(S), IsInjective(s), IsInjective(t),
           ToSet(s) \intersect ToSet(t) = {}
    PROVE  /\ s \o t \in Seq(S)
           /\ IsInjective(s \o t)
           /\ ToSet(s \o t) = ToSet(s) \union ToSet(t)
  <1>1. /\ s \o t \in Seq(S)
        /\ DOMAIN (s \o t) = 1 .. Len(s) + Len(t)
        /\ DOMAIN s = 1 .. Len(s) /\ Len(s) \in Nat
        /\ DOMAIN t = 1 .. Len(t) /\ Len(t) \in Nat
        /\ \A i \in 1 .. Len(s) : (s \o t)[i] = s[i]
        /\ \A i \in 1 .. Len(t) : (s \o t)[Len(s) + i] = t[i]
    OBVIOUS
  <1>2. \A i \in 1 .. Len(s) + Len(t) :
           \/ i \in 1 .. Len(s)
           \/ i - Len(s) \in 1 .. Len(t) /\ i = Len(s) + (i - Len(s))
    BY <1>1
  <1>3. \A i \in 1 .. Len(s) + Len(t) :
           \/ i \in 1 .. Len(s) /\ (s \o t)[i] = s[i]
           \/ i - Len(s) \in 1 .. Len(t) /\ (s \o t)[i] = t[i - Len(s)]
    BY <1>1, <1>2
  <1>4. \A i \in 1 .. Len(s), j \in 1 .. Len(t) : s[i] # t[j]
    <2>1. SUFFICES ASSUME NEW i \in 1 .. Len(s), NEW j \in 1 .. Len(t), s[i] = t[j] PROVE FALSE
      OBVIOUS
    <2>2. s[i] \in ToSet(s) /\ t[j] \in ToSet(t)
      BY <1>1, Zenon DEF ToSet
    <2>3. QED
      BY <2>1, <2>2
  <1>5. IsInjective(s \o t)
    <2>1. SUFFICES ASSUME NEW i \in 1 .. Len(s) + Len(t), NEW j \in 1 .. Len(s) + Len(t),
                          (s \o t)[i] = (s \o t)[j]
                   PROVE  i = j
      BY <1>1 DEF IsInjective
    <2>2. CASE i \in 1 .. Len(s) /\ j \in 1 .. Len(s)
      BY <1>1, <2>1, <2>2 DEF IsInjective
    <2>3. CASE i \notin 1 .. Len(s) /\ j \notin 1 .. Len(s)
      <3>3. /\ i - Len(s) \in 1 .. Len(t) /\ (s \o t)[i] = t[i - Len(s)]
            /\ j - Len(s) \in 1 .. Len(t) /\ (s \o t)[j] = t[j - Len(s)]
        BY <1>3, <2>3
      <3>4. t[i - Len(s)] = t[j - Len(s)]
        BY <2>1, <3>3
      <3>5. \A k, l \in 1 .. Len(t) : t[k] = t[l] => k = l
        BY <1>1 DEF IsInjective
      <3>1. i - Len(s) = j - Len(s)
        BY <3>3, <3>4, <3>5
      <3>2. QED
        BY <1>1, <3>1
    <2>4. CASE ~(i \in 1 .. Len(s) <=> j \in 1 .. Len(s))
      BY <1>3, <1>4, <2>1, <2>4
    <2>5. QED
      BY <2>2, <2>3, <2>4
  <1>6. ToSet(s \o t) \subseteq ToSet(s) \union ToSet(t)
    BY <1>1, <1>3 DEF ToSet
  <1>7. ToSet(s) \union ToSet(t) \subseteq ToSet(s \o t)
    <2>1. \A i \in 1 .. Len(s) : i \in 1 .. Len(s) + Len(t)
      BY <1>1
    <2>2. \A i \in 1 .. Len(t) : Len(s) + i \in 1 .. Len(s) + Len(t)
      BY <1>1
    <2>3. QED
      BY <1>1, <2>1, <2>2 DEF ToSet
  <1>8. QED
    BY <1>1, <1>5, <1>6, <1>7

\* The first of a queue and the rest.
LEMMA QueueHead ==
    ASSUME NEW S, NEW s \in Seq(S), s # <<>>, IsInjective(s)
    PROVE  /\ Head(s) \in ToSet(s) /\ Head(s) \in S
           /\ Tail(s) \in Seq(S)
           /\ IsInjective(Tail(s))
           /\ ToSet(Tail(s)) = ToSet(s) \ {Head(s)}
  <1>1. /\ Tail(s) \in Seq(S)
        /\ DOMAIN s = 1 .. Len(s) /\ Len(s) \in Nat \ {0}
        /\ DOMAIN Tail(s) = 1 .. Len(s) - 1 /\ Len(Tail(s)) = Len(s) - 1
        /\ \A i \in 1 .. Len(s) - 1 : Tail(s)[i] = s[i + 1]
        /\ Head(s) = s[1] /\ Head(s) \in S
    OBVIOUS
  <1>2. \A i \in 1 .. Len(s) - 1 : i + 1 \in 1 .. Len(s) /\ i + 1 # 1
    BY <1>1
  <1>3. 1 \in 1 .. Len(s) /\ \A i \in 1 .. Len(s) : i # 1 => i - 1 \in 1 .. Len(s) - 1 /\ (i - 1) + 1 = i
    BY <1>1
  <1>4. \A i, j \in 1 .. Len(s) : s[i] = s[j] => i = j
    BY <1>1 DEF IsInjective
  <1>5. IsInjective(Tail(s))
    <2>1. SUFFICES ASSUME NEW i \in 1 .. Len(s) - 1, NEW j \in 1 .. Len(s) - 1, Tail(s)[i] = Tail(s)[j]
                   PROVE  i = j
      BY <1>1 DEF IsInjective
    <2>2. i + 1 = j + 1
      BY <1>1, <1>2, <1>4, <2>1
    <2>3. QED
      BY <1>1, <2>2
  <1>6. ASSUME NEW x \in ToSet(Tail(s)) PROVE x \in ToSet(s) \ {Head(s)}
    <2>1. PICK i \in 1 .. Len(s) - 1 : x = Tail(s)[i]
      BY <1>1, Zenon DEF ToSet
    <2>2. x = s[i + 1] /\ i + 1 \in DOMAIN s /\ x # s[1]
      BY <1>1, <1>2, <1>3, <1>4, <2>1
    <2>3. QED
      BY <1>1, <2>2 DEF ToSet
  <1>7. ASSUME NEW x \in ToSet(s) \ {Head(s)} PROVE x \in ToSet(Tail(s))
    <2>1. PICK i \in 1 .. Len(s) : x = s[i]
      BY <1>1, Zenon DEF ToSet
    <2>2. i - 1 \in DOMAIN Tail(s) /\ x = Tail(s)[i - 1]
      BY <1>1, <1>3, <1>7, <2>1
    <2>3. QED
      BY <2>2, Zenon DEF ToSet
  <1>8. Head(s) \in ToSet(s)
    BY <1>1, <1>3 DEF ToSet
  <1>9. QED
    BY <1>1, <1>5, <1>6, <1>7, <1>8

\* A queue with new items in it, sorted.
LEMMA QueueLonger ==
    ASSUME NEW q \in Seq(Item), IsInjective(q), NEW new \in SUBSET Item,
           ToSet(q) \intersect new = {}, NEW jobs, NEW m
    PROVE  /\ QueueAfter(q, new, jobs, m) \in Seq(Item)
           /\ IsInjective(QueueAfter(q, new, jobs, m))
           /\ ToSet(QueueAfter(q, new, jobs, m)) = ToSet(q) \union new
  <1>1. IsFiniteSet(new)
    BY RunnerAssumption, FS_Subset
  <1> DEFINE t == SetToSeq(new)
             urgent == {i \in Item : jobs[i][m] # NoJob /\ jobs[i][m].prio = "edit"}
  <1>2. t \in Seq(new) /\ IsInjective(t) /\ ToSet(t) = new
    BY <1>1, SetListed
  <1>3. QueueAfter(q, new, jobs, m) = Sorted(q \o t, urgent)
    BY DEF QueueAfter
  <1> HIDE DEF t, urgent
  <1>4. t \in Seq(Item)
    BY <1>2
  <1>5. /\ q \o t \in Seq(Item)
        /\ IsInjective(q \o t)
        /\ ToSet(q \o t) = ToSet(q) \union new
    BY <1>2, <1>4, QueuesJoined
  <1> DEFINE qt == q \o t
  <1> HIDE DEF qt
  <1>6. /\ Sorted(qt, urgent) \in Seq(Item)
        /\ IsInjective(Sorted(qt, urgent))
        /\ ToSet(Sorted(qt, urgent)) = ToSet(qt)
    BY <1>5, SortedQueue DEF qt
  <1>7. QED
    BY <1>3, <1>5, <1>6 DEF qt

-----------------------------------------------------------------------------
(* Jobs and rows.                                                          *)

Prio == {"edit", "refresh"}
MaybeRow == Row \union {NoRes}
MaybeJob == JobEntry \union {NoJob}
Rows == [Item -> [Module -> MaybeRow]]
Jobs == [Item -> [Module -> MaybeJob]]

Runs(j) == j # NoJob /\ j.running

\* A job after a trigger: it waits, or it runs and is dirty.
LEMMA EnqueuedJob ==
    ASSUME NEW j \in MaybeJob, NEW p \in Prio, NEW ch \in SUBSET Module
    PROVE  /\ Enqueued(j, p, ch) \in JobEntry
           /\ Enqueued(j, p, ch) # NoJob
           /\ Enqueued(j, p, ch).chain = ch
           /\ Enqueued(j, p, ch).running <=> Runs(j)
           /\ p = "edit" => Enqueued(j, p, ch).prio = "edit"
           /\ j = NoJob => Enqueued(j, p, ch).prio = p
           /\ j # NoJob /\ p # "edit" => Enqueued(j, p, ch).prio = j.prio
           /\ Runs(j) => /\ Enqueued(j, p, ch).dirty
                         /\ Enqueued(j, p, ch).inputs = j.inputs
                         /\ Enqueued(j, p, ch).cfg = j.cfg
  <1> USE DEF Prio, MaybeJob, Enqueued, Runs
  <1>1. CASE j = NoJob
    <2>1. NewJob(p, ch) \in JobEntry
      BY DEF NewJob, JobEntry
    <2>2. NewJob(p, ch).chain = ch /\ ~NewJob(p, ch).running /\ NewJob(p, ch).prio = p
      BY DEF NewJob
    <2>3. QED
      BY <1>1, <2>1, <2>2, RunnerValues
  <1>2. CASE j # NoJob
    <2> DEFINE c == Coalesce(j, p, ch)
    <2>1. j \in JobEntry
      BY <1>2
    <2>2. /\ c \in JobEntry
          /\ c.chain = ch /\ c.running = j.running /\ c.inputs = j.inputs /\ c.cfg = j.cfg
          /\ c.dirty = (j.dirty \/ j.running)
          /\ c.prio = IF p = "edit" THEN p ELSE j.prio
      BY <2>1 DEF Coalesce, JobEntry
    <2>3. Enqueued(j, p, ch) = c
      BY <1>2
    <2> HIDE DEF c, Enqueued
    <2>4. QED
      BY <1>2, <2>1, <2>2, <2>3, RunnerValues
  <1>3. QED
    BY <1>1, <1>2

\* after is jobs with the pairs in D triggered.
Triggered(D, trigger, jobs, after) ==
    \A i \in Item, m \in Module :
        after[i][m] = IF <<i, m>> \in D
                      THEN Enqueued(jobs[i][m], trigger[<<i, m>>].prio, trigger[<<i, m>>].chain)
                      ELSE jobs[i][m]

\* The jobs map after some pairs were enqueued, pair by pair.
LEMMA JobsEnqueued ==
    ASSUME NEW D \in SUBSET (Item \X Module), NEW trigger,
           \A p \in D : trigger[p].prio \in Prio /\ trigger[p].chain \in SUBSET Module,
           NEW jobs \in Jobs
    PROVE  /\ JobsAfter(D, trigger, jobs) \in Jobs
           /\ Triggered(D, trigger, jobs, JobsAfter(D, trigger, jobs))
  <1> DEFINE e(i, m) == IF <<i, m>> \in D
                        THEN Enqueued(jobs[i][m], trigger[<<i, m>>].prio, trigger[<<i, m>>].chain)
                        ELSE jobs[i][m]
  <1>1. ASSUME NEW i \in Item, NEW m \in Module PROVE e(i, m) \in MaybeJob
    <2>1. jobs[i][m] \in MaybeJob
      BY DEF Jobs
    <2>2. CASE <<i, m>> \in D
      <3>1. Enqueued(jobs[i][m], trigger[<<i, m>>].prio, trigger[<<i, m>>].chain) \in JobEntry
        BY <2>1, <2>2, EnqueuedJob
      <3>2. QED
        BY <2>2, <3>1 DEF MaybeJob
    <2>3. QED
      BY <2>1, <2>2
  <1>2. JobsAfter(D, trigger, jobs) = [i \in Item |-> [m \in Module |-> e(i, m)]]
    BY DEF JobsAfter
  <1> HIDE DEF e
  <1>3. /\ JobsAfter(D, trigger, jobs) \in Jobs
        /\ \A i \in Item, m \in Module : JobsAfter(D, trigger, jobs)[i][m] = e(i, m)
    BY <1>1, <1>2 DEF Jobs
  <1>4. QED
    BY <1>3 DEF e, Triggered

\* The queues name the jobs that wait, each once.
WaitingIn(jobs, m) == {i \in Item : jobs[i][m] # NoJob /\ ~jobs[i][m].running}

Queued(jobs, qs) ==
    /\ qs \in [Module -> Seq(Item)]
    /\ \A m \in Module : IsInjective(qs[m]) /\ ToSet(qs[m]) = WaitingIn(jobs, m)

\* The same jobs run, with the same inputs.
SameRuns(jobs, after) ==
    \A i \in Item, m \in Module :
        /\ Runs(after[i][m]) <=> Runs(jobs[i][m])
        /\ Runs(jobs[i][m]) => /\ after[i][m].inputs = jobs[i][m].inputs
                               /\ after[i][m].cfg = jobs[i][m].cfg

\* f and g differ at i and m only.
SameElsewhere(f, g, i, m) ==
    \A x \in Item, n \in Module : (x # i \/ n # m) => f[x][n] = g[x][n]

\* What Enqueue does to the queues and to the jobs that run.
LEMMA EnqueueStep ==
    ASSUME NEW D \in SUBSET (Item \X Module), NEW trigger,
           \A p \in D : trigger[p].prio \in Prio /\ trigger[p].chain \in SUBSET Module,
           NEW jobs \in Jobs, Queued(jobs, queue), Enqueue(D, trigger, jobs)
    PROVE  /\ job' \in Jobs
           /\ Triggered(D, trigger, jobs, job')
           /\ SameRuns(jobs, job')
           /\ Queued(job', queue')
  <1>1. job' = JobsAfter(D, trigger, jobs)
    BY DEF Enqueue
  <1>2. /\ job' \in Jobs
        /\ \A i \in Item, m \in Module :
             job'[i][m] = IF <<i, m>> \in D
                          THEN Enqueued(jobs[i][m], trigger[<<i, m>>].prio, trigger[<<i, m>>].chain)
                          ELSE jobs[i][m]
    BY <1>1, JobsEnqueued DEF Triggered
  <1>3. ASSUME NEW i \in Item, NEW m \in Module
        PROVE  /\ Runs(job'[i][m]) <=> Runs(jobs[i][m])
               /\ Runs(jobs[i][m]) => /\ job'[i][m].inputs = jobs[i][m].inputs
                                      /\ job'[i][m].cfg = jobs[i][m].cfg
               /\ <<i, m>> \in D => job'[i][m] # NoJob
               /\ <<i, m>> \notin D => job'[i][m] = jobs[i][m]
    <2>1. jobs[i][m] \in MaybeJob
      BY DEF Jobs
    <2>2. CASE <<i, m>> \in D
      <3> DEFINE p == trigger[<<i, m>>].prio
                 ch == trigger[<<i, m>>].chain
                 e == Enqueued(jobs[i][m], p, ch)
      <3>1. p \in Prio /\ ch \in SUBSET Module
        BY <2>2
      <3>2. job'[i][m] = e
        BY <1>2, <2>2
      <3> HIDE DEF p, ch
      <3>3. /\ e # NoJob
            /\ e.running <=> Runs(jobs[i][m])
            /\ Runs(jobs[i][m]) => e.inputs = jobs[i][m].inputs /\ e.cfg = jobs[i][m].cfg
        BY <2>1, <3>1, EnqueuedJob
      <3> HIDE DEF e
      <3>4. QED
        BY <2>2, <3>2, <3>3 DEF Runs
    <2>3. CASE <<i, m>> \notin D
      BY <1>2, <2>3
    <2>4. QED
      BY <2>2, <2>3
  <1>4. ASSUME NEW m \in Module
        PROVE  /\ queue'[m] \in Seq(Item)
               /\ IsInjective(queue'[m])
               /\ ToSet(queue'[m]) = WaitingIn(job', m)
    <2> DEFINE new == {i \in Item : <<i, m>> \in D /\ jobs[i][m] = NoJob}
    <2>1. queue'[m] = QueueAfter(queue[m], new, job', m)
      BY DEF Enqueue
    <2>2. queue[m] \in Seq(Item) /\ IsInjective(queue[m]) /\ ToSet(queue[m]) = WaitingIn(jobs, m)
      BY DEF Queued
    <2>3. WaitingIn(jobs, m) \intersect new = {}
      BY DEF WaitingIn
    <2>4. WaitingIn(job', m) = WaitingIn(jobs, m) \union new
      BY <1>3 DEF WaitingIn, Runs
    <2>5. new \in SUBSET Item
      OBVIOUS
    <2> HIDE DEF new
    <2>6. /\ QueueAfter(queue[m], new, job', m) \in Seq(Item)
          /\ IsInjective(QueueAfter(queue[m], new, job', m))
          /\ ToSet(QueueAfter(queue[m], new, job', m)) = ToSet(queue[m]) \union new
      BY <2>2, <2>3, <2>5, QueueLonger
    <2>7. QED
      BY <2>1, <2>2, <2>4, <2>6
  <1>5. DOMAIN queue' = Module /\ queue' = [m \in Module |-> queue'[m]]
    BY DEF Enqueue
  <1>6. Queued(job', queue')
    BY <1>4, <1>5 DEF Queued
  <1>7. QED
    BY <1>2, <1>3, <1>6 DEF Triggered, SameRuns

\* The history variables only say more, but for a trigger by an edit.
LEMMA EnqueueHistory ==
    ASSUME NEW D \in SUBSET (Item \X Module), NEW trigger, NEW jobs,
           missed \subseteq Item \X Module, crossed \subseteq Item, Enqueue(D, trigger, jobs)
    PROVE  /\ missed' \subseteq Item \X Module
           /\ \A p \in missed : p \in missed' \/ (p \in D /\ trigger[p].prio = "edit")
           /\ crossed' \subseteq Item /\ crossed \subseteq crossed'
           /\ \A p \in D : p[1] \notin crossed' => \A n \in trigger[p].chain : p[2] \notin link.reads[n]
  BY DEF Enqueue

-----------------------------------------------------------------------------
(* Rows.                                                                   *)

\* The rows the runner writes are rows.
LEMMA WrittenRows ==
    ASSUME NEW r \in MaybeRow
    PROVE  /\ BlankRow \in Row /\ OrBlank(r) \in Row
           /\ OrBlank(r).vals = ValOf(r)
           /\ ConfigErrorRow(r) \in Row
           /\ ConfigErrorRow(r).vals = ValOf(r)
           /\ ConfigErrorRow(r).inputs = NoInputs
           /\ [OrBlank(r) EXCEPT !.status = "unprocessed"] \in Row
           /\ \A in \in ItemInputs : QuotaRow(r, in) \in Row
  <1>1. BlankRow \in Row
    BY RunnerAssumption DEF BlankRow, Row
  <1>2. OrBlank(r) \in Row
    BY <1>1 DEF OrBlank, MaybeRow
  <1>3. OrBlank(r).vals = ValOf(r)
    BY <1>1 DEF OrBlank, ValOf, BlankRow
  <1> DEFINE b == OrBlank(r)
  <1>4. ConfigErrorRow(r) = [b EXCEPT !.status = "error", !.inputs = NoInputs, !.attempt = "none"]
    BY DEF ConfigErrorRow
  <1> HIDE DEF b
  <1>5. b \in Row
    BY <1>2 DEF b
  <1>6. /\ [b EXCEPT !.status = "error", !.inputs = NoInputs, !.attempt = "none"] \in Row
        /\ [b EXCEPT !.status = "error", !.inputs = NoInputs, !.attempt = "none"].vals = b.vals
        /\ [b EXCEPT !.status = "error", !.inputs = NoInputs, !.attempt = "none"].inputs = NoInputs
    BY <1>5 DEF Row
  <1>7. [b EXCEPT !.status = "unprocessed"] \in Row
    BY <1>5 DEF Row
  <1>8. ConfigErrorRow(r) \in Row /\ ConfigErrorRow(r).vals = b.vals /\ ConfigErrorRow(r).inputs = NoInputs
    BY <1>4, <1>6
  <1>9. ASSUME NEW in \in ItemInputs PROVE QuotaRow(r, in) \in Row
    <2>1. QuotaRow(r, in) = [b EXCEPT !.status = "unprocessed", !.inputs = in, !.attempt = "midnight"]
      BY DEF QuotaRow, b
    <2>2. QED
      BY <1>5, <2>1 DEF Row
  <1>10. b = OrBlank(r)
    BY DEF b
  <1>11. [OrBlank(r) EXCEPT !.status = "unprocessed"] \in Row
    BY <1>7, <1>10
  <1>12. b.vals = ValOf(r)
    BY <1>3, <1>10
  <1>13. QED
    BY <1>1, <1>2, <1>3, <1>8, <1>9, <1>11, <1>12

\* One row changes.
LEMMA RowChanged ==
    ASSUME res \in Rows, NEW i \in Item, NEW m \in Module, NEW r \in MaybeRow, WithRow(i, m, r)
    PROVE  /\ res' \in Rows
           /\ res'[i][m] = r
           /\ \A x \in Item, n \in Module : (x # i \/ n # m) => res'[x][n] = res[x][n]
  BY DEF WithRow, Rows

\* The values of the rows, and the inputs made of them.
LEMMA InputsTyped ==
    ASSUME NEW m \in Module, NEW it \in Text \union {Gone, Blank}, NEW c \in Config,
           NEW rs \in [Module -> MaybeRow]
    PROVE  /\ Inputs(m, it, c, rs) \in ItemInputs \union {NoInputs}
           /\ Inputs(m, it, c, rs) = NoInputs
                <=> it \in {Gone, Blank} \/ \E n \in link.needs[m] : ValOf(rs[n]) = NoVal
  <1>1. \A n \in Module : ValOf(rs[n]) \in Val \union {NoVal}
    BY DEF MaybeRow, Row, ValOf
  <1> DEFINE vs == [n \in Module |-> IF n \in link.reads[m] THEN ValOf(rs[n]) ELSE NoVal]
  <1>2. vs \in [Module -> Val \union {NoVal}]
    BY <1>1
  <1>3. Inputs(m, it, c, rs) =
          IF it \in {Gone, Blank} \/ \E n \in link.needs[m] : ValOf(rs[n]) = NoVal THEN NoInputs
          ELSE <<it, c, vs>>
    BY DEF Inputs
  <1> HIDE DEF vs
  <1>4. it \notin {Gone, Blank} => <<it, c, vs>> \in ItemInputs
    BY <1>2 DEF ItemInputs
  <1>5. QED
    BY <1>3, <1>4, RunnerValues

\* Inputs depend on the values that are read.
LEMMA InputsSame ==
    ASSUME RunnerTypeOK, NEW m \in Module, NEW it, NEW c, NEW rs, NEW rt,
           \A n \in link.reads[m] : ValOf(rs[n]) = ValOf(rt[n])
    PROVE  Inputs(m, it, c, rs) = Inputs(m, it, c, rt)
  <1>1. link.needs[m] \subseteq link.reads[m]
    BY RunnerAssumption DEF RunnerTypeOK
  <1>2. \A n \in link.needs[m] : ValOf(rs[n]) = ValOf(rt[n])
    BY <1>1
  <1>3. [n \in Module |-> IF n \in link.reads[m] THEN ValOf(rs[n]) ELSE NoVal]
          = [n \in Module |-> IF n \in link.reads[m] THEN ValOf(rt[n]) ELSE NoVal]
    OBVIOUS
  <1>4. QED
    BY <1>2, <1>3 DEF Inputs

\* What onItemChanged decides, and the row that leaves.
LookOutcome(m, it, c, rs, chain, d, r) ==
    /\ r \in MaybeRow
    /\ d \in {"skip", "config error", "remove", "enqueue"}
    /\ d \in {"skip", "enqueue"} => r = rs[m]
    /\ d = "config error" => /\ c = Bad
                             /\ r # NoRes /\ r.inputs = NoInputs /\ ValOf(r) = ValOf(rs[m])
    /\ d = "remove" => r = NoRes /\ c \in Config /\ Inputs(m, it, c, rs) = NoInputs
    /\ d = "enqueue" => m \notin chain /\ c \in Config /\ it # Gone
    /\ d = "skip" /\ m \notin chain =>
         \/ c = Off \/ it = Gone
         \/ /\ rs[m] # NoRes /\ rs[m].status # "unprocessed"
            /\ rs[m].inputs = Inputs(m, it, c, rs) /\ rs[m].inputs # NoInputs

LEMMA LookedRow ==
    ASSUME NEW m \in Module, NEW it \in Text \union {Gone, Blank}, NEW c \in Config \union {Off, Bad},
           NEW rs \in [Module -> MaybeRow], NEW chain
    PROVE  LookOutcome(m, it, c, rs, chain, Decide(m, it, c, rs, chain),
                       Decided(Decide(m, it, c, rs, chain), rs[m]))
  <1> DEFINE d == Decide(m, it, c, rs, chain)
             r == Decided(d, rs[m])
  <1>1. rs[m] \in MaybeRow
    OBVIOUS
  <1>2. /\ ConfigErrorRow(rs[m]) \in Row
        /\ ConfigErrorRow(rs[m]).vals = ValOf(rs[m])
        /\ ConfigErrorRow(rs[m]).inputs = NoInputs
    BY <1>1, WrittenRows
  <1>3. ConfigErrorRow(rs[m]) # NoRes
    BY <1>2, RunnerValues
  <1>4. /\ d \in {"skip", "config error", "remove", "enqueue"}
        /\ d = "config error" => c = Bad
        /\ d = "remove" => c \in Config /\ Inputs(m, it, c, rs) = NoInputs
        /\ d = "enqueue" => m \notin chain /\ c \in Config /\ it # Gone
        /\ d = "skip" /\ m \notin chain =>
             \/ c = Off \/ it = Gone
             \/ /\ rs[m] # NoRes /\ rs[m].status # "unprocessed"
                /\ rs[m].inputs = Inputs(m, it, c, rs) /\ rs[m].inputs # NoInputs
    BY DEF Decide
  <1>5. /\ d = "config error" => r = ConfigErrorRow(rs[m])
        /\ d = "remove" => r = NoRes
        /\ d \in {"skip", "enqueue"} => r = rs[m]
    BY DEF Decided
  <1> HIDE DEF d, r
  <1>6. LookOutcome(m, it, c, rs, chain, d, r)
    BY <1>1, <1>2, <1>3, <1>4, <1>5 DEF ValOf, MaybeRow, LookOutcome
  <1>7. QED
    BY <1>6 DEF d, r

\* The rows after the items in S were looked at.
Looked(S, it, c, rs, chain) ==
    [i \in Item |-> [m \in Module |-> Decided(Decision(S, i, m, it, c, rs, chain), rs[i][m])]]

RowsLooked(S, it, c, rs, chain, after) ==
    \A i \in Item, m \in Module :
        after[i][m] = Decided(Decision(S, i, m, it, c, rs, chain), rs[i][m])

LEMMA LookedRows ==
    ASSUME NEW S, NEW it \in [Item -> Text \union {Gone, Blank}],
           NEW c \in [Module -> Config \union {Off, Bad}], NEW rs \in Rows, NEW chain
    PROVE  /\ Looked(S, it, c, rs, chain) \in Rows
           /\ RowsLooked(S, it, c, rs, chain, Looked(S, it, c, rs, chain))
  <1> DEFINE e(i, m) == Decided(Decision(S, i, m, it, c, rs, chain), rs[i][m])
             after == Looked(S, it, c, rs, chain)
  <1>1. ASSUME NEW i \in Item, NEW m \in Module PROVE e(i, m) \in MaybeRow
    <2>1. rs[i] \in [Module -> MaybeRow] /\ rs[i][m] \in MaybeRow
      BY DEF Rows
    <2>2. CASE i \in S
      <3> DEFINE d == Decide(m, it[i], c[m], rs[i], chain)
                 r == Decided(d, rs[i][m])
      <3>1. LookOutcome(m, it[i], c[m], rs[i], chain, d, r)
        BY <2>1, LookedRow
      <3>2. e(i, m) = r
        BY <2>2 DEF Decision
      <3> HIDE DEF d, r
      <3>3. QED
        BY <3>1, <3>2 DEF LookOutcome
    <2>3. CASE i \notin S
      BY <2>1, <2>3 DEF Decision, Decided
    <2>4. QED
      BY <2>2, <2>3
  <1>2. after = [i \in Item |-> [m \in Module |-> e(i, m)]]
    BY DEF Looked
  <1> HIDE DEF e, after
  <1>3. after \in Rows /\ \A i \in Item, m \in Module : after[i][m] = e(i, m)
    BY <1>1, <1>2 DEF Rows
  <1>4. RowsLooked(S, it, c, rs, chain, after)
    BY <1>3, Zenon DEF RowsLooked, e
  <1>5. QED
    BY <1>3, <1>4 DEF after

-----------------------------------------------------------------------------
(* Accounted: the queues, the jobs, the places.                            *)

\* Queues and jobs agree, not too many jobs run, and those that run have inputs.
JobsOK(jobs, qs) ==
    /\ jobs \in Jobs
    /\ Queued(jobs, qs)
    /\ \A m \in Module : Cardinality({i \in Item : Runs(jobs[i][m])}) <= MaxConcurrent
    /\ \A i \in Item, m \in Module :
         Runs(jobs[i][m]) => jobs[i][m].inputs \in ItemInputs /\ jobs[i][m].cfg \in Config

Accounted == RunnerTypeOK /\ JobsOK(job, queue)

LEMMA TypedRows == RunnerTypeOK => /\ res \in Rows /\ job \in Jobs
                                   /\ link \in Links
                                   /\ \A i \in Item : res[i] \in [Module -> MaybeRow]
  BY DEF RunnerTypeOK, Rows, Jobs, MaybeRow, MaybeJob

LEMMA EnqueueAccounted ==
    ASSUME NEW D \in SUBSET (Item \X Module), NEW trigger,
           \A p \in D : trigger[p].prio \in Prio /\ trigger[p].chain \in SUBSET Module,
           NEW jobs, JobsOK(jobs, queue), Enqueue(D, trigger, jobs)
    PROVE  JobsOK(job', queue')
  <1>1. jobs \in Jobs /\ Queued(jobs, queue)
    BY DEF JobsOK
  <1>2. /\ job' \in Jobs
        /\ SameRuns(jobs, job')
        /\ Queued(job', queue')
    <2>1. \A p \in D : trigger[p].prio \in Prio /\ trigger[p].chain \in SUBSET Module
      OBVIOUS
    <2>2. Enqueue(D, trigger, jobs)
      OBVIOUS
    <2>3. QED
      BY <1>1, <2>1, <2>2, EnqueueStep, Zenon
  <1>3. \A m \in Module : {i \in Item : Runs(job'[i][m])} = {i \in Item : Runs(jobs[i][m])}
    BY <1>2 DEF SameRuns
  <1>4. QED
    BY <1>2, <1>3 DEF JobsOK, SameRuns

\* A job that ran is over.
LEMMA EndedAccounted ==
    ASSUME JobsOK(job, queue), NEW i \in Item, NEW m \in Module, Runs(job[i][m]),
           NEW jobs, jobs = [job EXCEPT ![i][m] = NoJob]
    PROVE  /\ JobsOK(jobs, queue)
           /\ jobs[i][m] = NoJob
           /\ SameElsewhere(jobs, job, i, m)
  <1>1. job \in Jobs /\ Queued(job, queue)
    BY DEF JobsOK
  <1>2. /\ jobs \in Jobs
        /\ jobs[i][m] = NoJob
        /\ \A x \in Item, n \in Module : (x # i \/ n # m) => jobs[x][n] = job[x][n]
    BY <1>1 DEF Jobs, MaybeJob
  <1>3. \A n \in Module : WaitingIn(jobs, n) = WaitingIn(job, n)
    BY <1>2 DEF WaitingIn, Runs
  <1>4. Queued(jobs, queue)
    BY <1>1, <1>3 DEF Queued
  <1>5. ASSUME NEW n \in Module
        PROVE  Cardinality({x \in Item : Runs(jobs[x][n])}) <= MaxConcurrent
    <2> DEFINE was == {x \in Item : Runs(job[x][n])}
               is == {x \in Item : Runs(jobs[x][n])}
    <2>1. is \in SUBSET was
      BY <1>2 DEF Runs
    <2>2. was \in SUBSET Item
      OBVIOUS
    <2>3. Cardinality(was) <= MaxConcurrent
      BY DEF JobsOK
    <2> HIDE DEF was, is
    <2>4. IsFiniteSet(was) /\ IsFiniteSet(is) /\ Cardinality(is) <= Cardinality(was)
      BY <2>1, <2>2, FS_Subset, RunnerAssumption
    <2>5. Cardinality(was) \in Nat /\ Cardinality(is) \in Nat
      BY <2>4, FS_CardinalityType
    <2>6. Cardinality(is) <= MaxConcurrent
      BY <2>3, <2>4, <2>5, RunnerAssumption
    <2>7. QED
      BY <2>6 DEF is
  <1>6. \A x \in Item, n \in Module :
           Runs(jobs[x][n]) => jobs[x][n].inputs \in ItemInputs /\ jobs[x][n].cfg \in Config
    BY <1>2 DEF JobsOK, Runs
  <1>7. QED
    BY <1>2, <1>4, <1>5, <1>6 DEF JobsOK, SameElsewhere

\* A handler that looks at items: what it does to each row and each job.
LookedAt(S, it, c, rs) ==
    \A i \in Item, m \in Module :
        /\ res'[i][m] = Decided(Decision(S, i, m, it, c, rs, {}), rs[i][m])
        /\ job'[i][m] = IF Decision(S, i, m, it, c, rs, {}) = "enqueue"
                        THEN Enqueued(job[i][m], "edit", {}) ELSE job[i][m]
        /\ <<i, m>> \in missed => \/ <<i, m>> \in missed'
                                  \/ Decision(S, i, m, it, c, rs, {}) = "enqueue"

LEMMA LookStep ==
    ASSUME Accounted, NEW S, NEW it \in [Item -> Text \union {Gone, Blank}],
           NEW c \in [Module -> Config \union {Off, Bad}], NEW rs \in Rows,
           ItemsChanged(S, it, c, rs)
    PROVE  /\ res' \in Rows
           /\ JobsOK(job', queue')
           /\ missed' \subseteq Item \X Module /\ crossed' \subseteq Item
           /\ crossed \subseteq crossed'
           /\ LookedAt(S, it, c, rs)
  <1> DEFINE decision(i, m) == Decision(S, i, m, it, c, rs, {})
             D == {p \in Item \X Module : decision(p[1], p[2]) = "enqueue"}
             trigger == [p \in D |-> Trigger("edit", {})]
  <1>1. /\ res' = [i \in Item |-> [m \in Module |-> Decided(decision(i, m), rs[i][m])]]
        /\ Enqueue(D, trigger, job)
    BY DEF ItemsChanged
  <1>2. \A p \in D : trigger[p].prio = "edit" /\ trigger[p].chain = {}
    BY DEF Trigger
  <1>3. \A p \in D : trigger[p].prio \in Prio /\ trigger[p].chain \in SUBSET Module
    BY <1>2 DEF Prio
  <1>4. D \in SUBSET (Item \X Module)
    OBVIOUS
  <1>5. \A i \in Item, m \in Module : <<i, m>> \in D <=> decision(i, m) = "enqueue"
    OBVIOUS
  <1>6. /\ res' \in Rows
        /\ \A i \in Item, m \in Module : res'[i][m] = Decided(decision(i, m), rs[i][m])
    <2>1. res' = Looked(S, it, c, rs, {})
      BY <1>1, Zenon DEF Looked
    <2>2. {} \in SUBSET Module
      OBVIOUS
    <2>3. res' \in Rows /\ RowsLooked(S, it, c, rs, {}, res')
      BY <2>1, <2>2, LookedRows, Zenon
    <2>4. QED
      BY <2>3, Zenon DEF RowsLooked
  <1> HIDE DEF D, decision, trigger
  <1>7. JobsOK(job, queue)
    BY DEF Accounted
  <1>8. JobsOK(job', queue')
    BY <1>1, <1>3, <1>4, <1>7, EnqueueAccounted, Zenon
  <1>9. \A i \in Item, m \in Module :
           job'[i][m] = IF <<i, m>> \in D
                        THEN Enqueued(job[i][m], trigger[<<i, m>>].prio, trigger[<<i, m>>].chain)
                        ELSE job[i][m]
    <2>1. job \in Jobs /\ Queued(job, queue)
      BY <1>7 DEF JobsOK
    <2>2. QED
      <3>1. Triggered(D, trigger, job, job')
        BY <1>1, <1>3, <1>4, <2>1, EnqueueStep, Zenon
      <3>2. QED
        BY <3>1, Zenon DEF Triggered
  <1>10. missed \subseteq Item \X Module /\ crossed \subseteq Item
    BY DEF Accounted, RunnerTypeOK
  <1>11. /\ missed' \subseteq Item \X Module
         /\ \A p \in missed : p \in missed' \/ (p \in D /\ trigger[p].prio = "edit")
         /\ crossed' \subseteq Item /\ crossed \subseteq crossed'
    BY <1>1, <1>4, <1>10, EnqueueHistory, Zenon
  <1>12. ASSUME NEW i \in Item, NEW m \in Module
         PROVE  /\ job'[i][m] = IF decision(i, m) = "enqueue"
                                THEN Enqueued(job[i][m], "edit", {}) ELSE job[i][m]
                /\ <<i, m>> \in missed => <<i, m>> \in missed' \/ decision(i, m) = "enqueue"
    <2>1. <<i, m>> \in D <=> decision(i, m) = "enqueue"
      BY <1>5
    <2>2. <<i, m>> \in D => trigger[<<i, m>>].prio = "edit" /\ trigger[<<i, m>>].chain = {}
      BY <1>2
    <2>3. job'[i][m] = IF <<i, m>> \in D
                       THEN Enqueued(job[i][m], trigger[<<i, m>>].prio, trigger[<<i, m>>].chain)
                       ELSE job[i][m]
      BY <1>9
    <2>4. <<i, m>> \in missed => <<i, m>> \in missed' \/ <<i, m>> \in D
      BY <1>11
    <2>5. QED
      BY <2>1, <2>2, <2>3, <2>4
  <1>13. QED
    BY <1>6, <1>8, <1>11, <1>12 DEF decision, LookedAt

\* A job that ran is over: what becomes of it, and of those it triggers.
Ended(i, m, dirty, D, chain) ==
    /\ crossed \subseteq crossed'
    /\ job'[i][m] = IF dirty THEN NewJob(job[i][m].prio, job[i][m].chain) ELSE NoJob
    /\ \A x \in Item, n \in Module :
         (x # i \/ n # m) =>
             job'[x][n] = IF <<x, n>> \in D THEN Enqueued(job[x][n], "edit", chain) ELSE job[x][n]
    /\ \A p \in missed : \/ p \in missed' \/ p \in D
                         \/ p = <<i, m>> /\ dirty /\ job[i][m].prio = "edit"
    /\ \A x \in Item, n \in Module :
         <<x, n>> \in D /\ x \notin crossed' => \A k \in chain : n \notin link.reads[k]

LEMMA EndStep ==
    ASSUME Accounted, NEW i \in Item, NEW m \in Module, Runs(job[i][m]),
           NEW dirty \in BOOLEAN, NEW D \in SUBSET (Item \X Module), <<i, m>> \notin D,
           NEW chain \in SUBSET Module, EndJob(i, m, dirty, D, chain)
    PROVE  /\ JobsOK(job', queue')
           /\ missed' \subseteq Item \X Module /\ crossed' \subseteq Item
           /\ Ended(i, m, dirty, D, chain)
  <1> DEFINE j == job[i][m]
             all == D \union (IF dirty THEN {<<i, m>>} ELSE {})
             trigger == [p \in all |->
                 IF p = <<i, m>> THEN Trigger(j.prio, j.chain) ELSE Trigger("edit", chain)]
             jobs == [job EXCEPT ![i][m] = NoJob]
  <1>1. Enqueue(all, trigger, jobs)
    BY DEF EndJob, Job
  <1>2. JobsOK(job, queue) /\ job \in Jobs /\ j \in JobEntry
    BY DEF Accounted, JobsOK, Jobs, MaybeJob, Runs
  <1>3. j.prio \in Prio /\ j.chain \in SUBSET Module
    BY <1>2 DEF JobEntry, Prio
  <1>4. all \in SUBSET (Item \X Module)
    OBVIOUS
  <1>5. \A p \in all : /\ p = <<i, m>> => trigger[p].prio = j.prio /\ trigger[p].chain = j.chain
                       /\ p # <<i, m>> => trigger[p].prio = "edit" /\ trigger[p].chain = chain
    BY DEF Trigger
  <1>6. \A p \in all : trigger[p].prio \in Prio /\ trigger[p].chain \in SUBSET Module
    BY <1>3, <1>5 DEF Prio
  <1>7. /\ JobsOK(jobs, queue)
        /\ jobs[i][m] = NoJob
        /\ SameElsewhere(jobs, job, i, m)
    <2>1. jobs = [job EXCEPT ![i][m] = NoJob]
      OBVIOUS
    <2> HIDE DEF jobs
    <2>2. QED
      BY <1>2, <2>1, EndedAccounted, Zenon
  <1>8. \A p : p \in all <=> p \in D \/ (p = <<i, m>> /\ dirty)
    OBVIOUS
  <1> HIDE DEF all, trigger, jobs
  <1>9. JobsOK(job', queue')
    BY <1>1, <1>4, <1>6, <1>7, EnqueueAccounted, Zenon
  <1>10. \A x \in Item, n \in Module :
            job'[x][n] = IF <<x, n>> \in all
                         THEN Enqueued(jobs[x][n], trigger[<<x, n>>].prio, trigger[<<x, n>>].chain)
                         ELSE jobs[x][n]
    <2>1. jobs \in Jobs /\ Queued(jobs, queue)
      BY <1>7 DEF JobsOK
    <2>2. QED
      <3>1. Triggered(all, trigger, jobs, job')
        BY <1>1, <1>4, <1>6, <2>1, EnqueueStep, Zenon
      <3>2. QED
        BY <3>1, Zenon DEF Triggered
  <1>11. missed \subseteq Item \X Module /\ crossed \subseteq Item
    BY DEF Accounted, RunnerTypeOK
  <1>12. /\ missed' \subseteq Item \X Module
         /\ \A p \in missed : p \in missed' \/ (p \in all /\ trigger[p].prio = "edit")
         /\ crossed' \subseteq Item /\ crossed \subseteq crossed'
         /\ \A p \in all : p[1] \notin crossed' => \A n \in trigger[p].chain : p[2] \notin link.reads[n]
    BY <1>1, <1>4, <1>11, EnqueueHistory, Zenon
  <1>13. job'[i][m] = IF dirty THEN NewJob(j.prio, j.chain) ELSE NoJob
    <2>1. CASE dirty
      <3>1. <<i, m>> \in all
        BY <1>8, <2>1
      <3>2. job'[i][m] = Enqueued(jobs[i][m], trigger[<<i, m>>].prio, trigger[<<i, m>>].chain)
        BY <1>10, <3>1
      <3>3. trigger[<<i, m>>].prio = j.prio /\ trigger[<<i, m>>].chain = j.chain
        BY <1>5, <3>1
      <3>4. QED
        BY <1>7, <2>1, <3>2, <3>3 DEF Enqueued
    <2>2. CASE ~dirty
      BY <1>7, <1>8, <1>10, <2>2
    <2>3. QED
      BY <2>1, <2>2
  <1>14. ASSUME NEW x \in Item, NEW n \in Module, x # i \/ n # m
         PROVE  job'[x][n] = IF <<x, n>> \in D THEN Enqueued(job[x][n], "edit", chain)
                             ELSE job[x][n]
    <2>1. <<x, n>> # <<i, m>>
      BY <1>14
    <2>2. <<x, n>> \in all <=> <<x, n>> \in D
      BY <1>8, <2>1
    <2>3. <<x, n>> \in all => trigger[<<x, n>>].prio = "edit" /\ trigger[<<x, n>>].chain = chain
      BY <1>5, <2>1
    <2>4. jobs[x][n] = job[x][n]
      BY <1>7, <1>14 DEF SameElsewhere
    <2>5. job'[x][n] = IF <<x, n>> \in all
                       THEN Enqueued(jobs[x][n], trigger[<<x, n>>].prio, trigger[<<x, n>>].chain)
                       ELSE jobs[x][n]
      BY <1>10
    <2>6. QED
      BY <2>2, <2>3, <2>4, <2>5
  <1>15. ASSUME NEW x \in Item, NEW n \in Module, <<x, n>> \in D, x \notin crossed'
         PROVE  \A k \in chain : n \notin link.reads[k]
    <2>1. <<x, n>> \in all /\ <<x, n>> # <<i, m>>
      BY <1>8, <1>15
    <2>2. trigger[<<x, n>>].chain = chain
      BY <1>5, <2>1
    <2>3. QED
      BY <1>12, <1>15, <2>1, <2>2
  <1>16. \A p \in missed : \/ p \in missed' \/ p \in D
                           \/ p = <<i, m>> /\ dirty /\ j.prio = "edit"
    BY <1>5, <1>8, <1>12
  <1>17. QED
    BY <1>9, <1>12, <1>13, <1>14, <1>15, <1>16 DEF Ended

\* What becomes of a job of m for i that waited: nothing is to be done, or it runs now.
StartOutcome(i, m) ==
    LET r == res[i][m]
        in == Inputs(m, item[i], cfg[m], res[i])
        ready == cfg[m] \in Config /\ in \in ItemInputs
    IN
    \/ /\ item[i] = Gone /\ job'[i][m] = NoJob
       /\ \A n \in Module : res'[i][n] = NoRes
       /\ \A x \in Item \ {i}, n \in Module : res'[x][n] = res[x][n]
    \/ /\ item[i] # Gone
       /\ SameElsewhere(res', res, i, m)
       /\ \/ /\ cfg[m] = Off \/ (cfg[m] \in Config /\ in = NoInputs)
             /\ job'[i][m] = NoJob /\ res'[i][m] = NoRes
          \/ /\ cfg[m] = Bad
             /\ job'[i][m] = NoJob /\ res'[i][m] = ConfigErrorRow(r)
          \/ /\ ready
             /\ job'[i][m] = NoJob /\ res'[i][m] = QuotaRow(r, in)
          \/ /\ ready
             /\ job'[i][m] = [job[i][m] EXCEPT !.running = TRUE, !.inputs = in, !.cfg = cfg[m]]
             /\ res'[i][m] = IF job[i][m].prio = "edit"
                             THEN [OrBlank(r) EXCEPT !.status = "unprocessed"] ELSE r

\* The first waiting job of m is taken, and j is what becomes of it.
Takes(i, m, j) ==
    /\ queue[m] # <<>> /\ Cardinality(Running(m)) < MaxConcurrent
    /\ queue' = [queue EXCEPT ![m] = Tail(@)]
    /\ i = Head(queue[m])
    /\ job' = [job EXCEPT ![i][m] = j]

Runnable(j) == j = NoJob \/ (Runs(j) /\ j.inputs \in ItemInputs /\ j.cfg \in Config)

\* A job that waited is settled, or runs.
LEMMA StartedAccounted ==
    ASSUME Accounted, NEW m \in Module, NEW i \in Item, NEW j \in MaybeJob, Runnable(j),
           Takes(i, m, j)
    PROVE  /\ JobsOK(job', queue')
           /\ job[i][m] \in JobEntry /\ job[i][m] # NoJob /\ ~job[i][m].running
           /\ job'[i][m] = j
           /\ SameElsewhere(job', job, i, m)
  <1>0. /\ queue[m] # <<>> /\ Cardinality(Running(m)) < MaxConcurrent
        /\ queue' = [queue EXCEPT ![m] = Tail(@)]
        /\ i = Head(queue[m])
        /\ job' = [job EXCEPT ![i][m] = j]
        /\ j = NoJob \/ (Runs(j) /\ j.inputs \in ItemInputs /\ j.cfg \in Config)
    BY DEF Takes, Runnable
  <1>1. job \in Jobs /\ Queued(job, queue)
    BY DEF Accounted, JobsOK
  <1>2. /\ queue[m] \in Seq(Item) /\ IsInjective(queue[m])
        /\ ToSet(queue[m]) = WaitingIn(job, m)
    BY <1>1 DEF Queued
  <1>3. /\ i \in ToSet(queue[m])
        /\ Tail(queue[m]) \in Seq(Item)
        /\ IsInjective(Tail(queue[m]))
        /\ ToSet(Tail(queue[m])) = ToSet(queue[m]) \ {i}
    BY <1>0, <1>2, QueueHead
  <1>4. job[i][m] \in JobEntry /\ job[i][m] # NoJob /\ ~job[i][m].running
    BY <1>1, <1>2, <1>3 DEF WaitingIn, Jobs, MaybeJob
  <1>5. /\ job' \in Jobs
        /\ job'[i][m] = j
        /\ SameElsewhere(job', job, i, m)
    BY <1>0, <1>1, <1>3 DEF Jobs, SameElsewhere
  <1>6. /\ queue' \in [Module -> Seq(Item)]
        /\ queue'[m] = Tail(queue[m])
        /\ \A n \in Module \ {m} : queue'[n] = queue[n]
    BY <1>0, <1>1, <1>3 DEF Queued
  <1>7. WaitingIn(job', m) = WaitingIn(job, m) \ {i}
    <2>1. ASSUME NEW x \in Item PROVE x \in WaitingIn(job', m) <=> x \in WaitingIn(job, m) /\ x # i
      BY <1>0, <1>5 DEF WaitingIn, SameElsewhere, Runs
    <2>2. QED
      BY <2>1 DEF WaitingIn
  <1>8. \A n \in Module \ {m} : WaitingIn(job', n) = WaitingIn(job, n)
    BY <1>5 DEF WaitingIn, SameElsewhere
  <1>9. Queued(job', queue')
    <2>1. ASSUME NEW n \in Module
          PROVE  IsInjective(queue'[n]) /\ ToSet(queue'[n]) = WaitingIn(job', n)
      <3>1. CASE n = m
        BY <1>2, <1>3, <1>6, <1>7, <3>1
      <3>2. CASE n # m
        BY <1>1, <1>6, <1>8, <3>2 DEF Queued
      <3>3. QED
        BY <3>1, <3>2
    <2>2. QED
      BY <1>6, <2>1 DEF Queued
  <1>10. ASSUME NEW n \in Module
         PROVE  Cardinality({x \in Item : Runs(job'[x][n])}) <= MaxConcurrent
    <2> DEFINE was == {x \in Item : Runs(job[x][n])}
               is == {x \in Item : Runs(job'[x][n])}
    <2>1. was \in SUBSET Item /\ IsFiniteSet(was)
      BY FS_Subset, RunnerAssumption
    <2>2. Cardinality(was) <= MaxConcurrent
      BY DEF Accounted, JobsOK
    <2>3. n = m => Cardinality(was) < MaxConcurrent
      <3>1. n = m => was = Running(m)
        BY DEF Running, Job, Runs
      <3>2. QED
        BY <1>0, <3>1
    <2>4. n # m => is = was
      BY <1>5 DEF SameElsewhere
    <2>5. n = m => is \in SUBSET (was \union {i})
      BY <1>5 DEF SameElsewhere
    <2> HIDE DEF was, is
    <2>6. /\ IsFiniteSet(was \union {i}) /\ Cardinality(was) \in Nat
          /\ Cardinality(was \union {i}) \in {Cardinality(was), Cardinality(was) + 1}
      BY <2>1, FS_AddElement, FS_CardinalityType
    <2>7. n = m => /\ IsFiniteSet(is) /\ Cardinality(is) \in Nat
                   /\ Cardinality(is) <= Cardinality(was \union {i})
      BY <2>5, <2>6, FS_Subset, FS_CardinalityType
    <2>8. Cardinality(is) <= MaxConcurrent
      BY <2>2, <2>3, <2>4, <2>6, <2>7, RunnerAssumption
    <2>9. QED
      BY <2>8 DEF is
  <1>11. \A x \in Item, n \in Module :
            Runs(job'[x][n]) => job'[x][n].inputs \in ItemInputs /\ job'[x][n].cfg \in Config
    <2>1. ASSUME NEW x \in Item, NEW n \in Module, Runs(job'[x][n])
          PROVE  job'[x][n].inputs \in ItemInputs /\ job'[x][n].cfg \in Config
      <3>1. CASE x = i /\ n = m
        BY <1>0, <1>5, <2>1, <3>1 DEF Runs
      <3>2. CASE x # i \/ n # m
        BY <1>5, <2>1, <3>2 DEF SameElsewhere, Accounted, JobsOK
      <3>3. QED
        BY <3>1, <3>2
    <2>2. QED
      BY <2>1
  <1>12. JobsOK(job', queue')
    BY <1>5, <1>9, <1>10, <1>11 DEF JobsOK
  <1>13. QED
    BY <1>4, <1>5, <1>12

\* A counted call: the counters stay within the limit.
LEMMA SpendTyped ==
    ASSUME RunnerTypeOK, NEW m \in Module,
           (~OverLimit(m) /\ Spend(m)) \/ UNCHANGED <<used, calls>>
    PROVE  used' \in [Module -> 0 .. DailyLimit] /\ calls' \in [Module -> Nat]
  <1>1. used \in [Module -> 0 .. DailyLimit] /\ calls \in [Module -> Nat] /\ DailyLimit \in Nat
    BY RunnerAssumption DEF RunnerTypeOK
  <1>2. CASE UNCHANGED <<used, calls>>
    BY <1>1, <1>2
  <1>3. CASE ~OverLimit(m) /\ Spend(m) /\ HasLimit
    <2>1. /\ used[m] \in 0 .. DailyLimit /\ used[m] < DailyLimit
          /\ used' = [used EXCEPT ![m] = @ + 1]
          /\ calls' = [calls EXCEPT ![m] = @ + 1]
      BY <1>1, <1>3 DEF OverLimit, Spend
    <2>2. used[m] + 1 \in 0 .. DailyLimit /\ calls[m] + 1 \in Nat
      BY <1>1, <2>1
    <2>3. QED
      BY <1>1, <2>1, <2>2
  <1>4. CASE Spend(m) /\ ~HasLimit
    BY <1>1, <1>4 DEF Spend
  <1>5. QED
    BY <1>2, <1>3, <1>4

LEMMA StartStep ==
    ASSUME Accounted, NEW m \in Module, StartJob(m)
    PROVE  /\ res' \in Rows
           /\ JobsOK(job', queue')
           /\ used' \in [Module -> 0 .. DailyLimit] /\ calls' \in [Module -> Nat]
           /\ \E i \in Item : /\ job[i][m] \in JobEntry /\ job[i][m] # NoJob /\ ~job[i][m].running
                              /\ SameElsewhere(job', job, i, m)
                              /\ StartOutcome(i, m)
  <1>a. queue[m] # <<>> /\ queue[m] \in Seq(Item)
    BY DEF StartJob, CanStart, Accounted, RunnerTypeOK
  <1>b. PICK i \in Item : i = Head(queue[m])
    BY <1>a
  <1> DEFINE r == res[i][m]
             in == Inputs(m, item[i], cfg[m], res[i])
             started == [job[i][m] EXCEPT !.running = TRUE, !.inputs = in, !.cfg = cfg[m]]
             marked == IF job[i][m].prio = "edit"
                       THEN [OrBlank(r) EXCEPT !.status = "unprocessed"] ELSE r
  <1>1. /\ RunnerTypeOK /\ JobsOK(job, queue) /\ res \in Rows /\ job \in Jobs
        /\ cfg[m] \in Config \union {Off, Bad}
    BY TypedRows DEF Accounted, RunnerTypeOK
  <1>2. /\ queue[m] # <<>> /\ Cardinality(Running(m)) < MaxConcurrent
        /\ queue' = [queue EXCEPT ![m] = Tail(@)]
    BY DEF StartJob, CanStart
  <1>3. queue[m] \in Seq(Item) /\ IsInjective(queue[m]) /\ ToSet(queue[m]) = WaitingIn(job, m)
    BY <1>1 DEF JobsOK, Queued
  <1>4. i \in WaitingIn(job, m)
    BY <1>2, <1>3, <1>b, QueueHead
  <1>5. job[i][m] \in JobEntry /\ job[i][m] # NoJob /\ ~job[i][m].running
    BY <1>1, <1>4 DEF WaitingIn, Jobs, MaybeJob
  <1>6. r \in MaybeRow /\ res[i] \in [Module -> MaybeRow] /\ item[i] \in Text \union {Gone, Blank}
    BY <1>1, <1>4 DEF Rows, RunnerTypeOK
  <1>7. cfg[m] \in Config =>
          /\ in \in ItemInputs \union {NoInputs}
          /\ item[i] = Gone => in = NoInputs
    BY <1>6, InputsTyped
  <1>8. /\ ConfigErrorRow(r) \in MaybeRow
        /\ [OrBlank(r) EXCEPT !.status = "unprocessed"] \in MaybeRow
        /\ \A x \in ItemInputs : QuotaRow(r, x) \in MaybeRow
    BY <1>6, WrittenRows DEF MaybeRow
  <1>9. \/ /\ item[i] = Gone
           /\ res' = [res EXCEPT ![i] = [n \in Module |-> NoRes]]
           /\ job' = [job EXCEPT ![i][m] = NoJob]
           /\ UNCHANGED <<used, calls>>
        \/ /\ item[i] # Gone
           /\ cfg[m] = Off \/ (cfg[m] # Bad /\ in = NoInputs)
           /\ WithRow(i, m, NoRes)
           /\ job' = [job EXCEPT ![i][m] = NoJob]
           /\ UNCHANGED <<used, calls>>
        \/ /\ item[i] # Gone
           /\ cfg[m] = Bad
           /\ WithRow(i, m, ConfigErrorRow(r))
           /\ job' = [job EXCEPT ![i][m] = NoJob]
           /\ UNCHANGED <<used, calls>>
        \/ /\ cfg[m] \notin {Off, Bad} /\ in # NoInputs
           /\ WithRow(i, m, QuotaRow(r, in))
           /\ job' = [job EXCEPT ![i][m] = NoJob]
           /\ UNCHANGED <<used, calls>>
        \/ /\ cfg[m] \notin {Off, Bad} /\ in # NoInputs
           /\ ~OverLimit(m) /\ Spend(m)
           /\ WithRow(i, m, marked)
           /\ job' = [job EXCEPT ![i][m].running = TRUE, ![i][m].inputs = in, ![i][m].cfg = cfg[m]]
    BY <1>b, Zenon DEF StartJob, Job
  <1>10. [job EXCEPT ![i][m].running = TRUE, ![i][m].inputs = in, ![i][m].cfg = cfg[m]]
           = [job EXCEPT ![i][m] = started]
    BY <1>1, <1>4, <1>5 DEF Jobs, JobEntry
  <1>11. used' \in [Module -> 0 .. DailyLimit] /\ calls' \in [Module -> Nat]
    <2>1. (~OverLimit(m) /\ Spend(m)) \/ UNCHANGED <<used, calls>>
      BY <1>9
    <2>2. QED
      BY <1>1, <2>1, SpendTyped
  <1>12. /\ started.running = TRUE /\ started.inputs = in /\ started.cfg = cfg[m]
         /\ in \in ItemInputs /\ cfg[m] \in Config => started \in JobEntry
    BY <1>5 DEF JobEntry
  <1> HIDE DEF r, in, started
  <1>13. ASSUME job' = [job EXCEPT ![i][m] = NoJob]
         PROVE  JobsOK(job', queue') /\ job'[i][m] = NoJob /\ SameElsewhere(job', job, i, m)
    <2>1. NoJob \in MaybeJob /\ Runnable(NoJob) /\ Takes(i, m, NoJob)
      BY <1>2, <1>13, <1>b DEF MaybeJob, Runnable, Takes
    <2>2. QED
      BY <2>1, StartedAccounted
  <1>14. ASSUME job' = [job EXCEPT ![i][m] = started], cfg[m] \in Config, in \in ItemInputs
         PROVE  JobsOK(job', queue') /\ job'[i][m] = started /\ SameElsewhere(job', job, i, m)
    <2>1. started \in MaybeJob
      BY <1>12, <1>14 DEF MaybeJob
    <2>2. Runnable(started)
      BY <1>12, <1>14, RunnerValues DEF Runs, Runnable
    <2>3. Takes(i, m, started)
      BY <1>2, <1>14, <1>b DEF Takes
    <2>4. QED
      BY <2>1, <2>2, <2>3, StartedAccounted
  <1>15. ASSUME NEW x \in MaybeRow, WithRow(i, m, x)
         PROVE  res' \in Rows /\ res'[i][m] = x /\ SameElsewhere(res', res, i, m)
    BY <1>1, <1>4, <1>15, RowChanged DEF SameElsewhere
  <1> DEFINE Goal == /\ res' \in Rows
                     /\ JobsOK(job', queue')
                     /\ SameElsewhere(job', job, i, m)
                     /\ StartOutcome(i, m)
  <1>16. ASSUME item[i] = Gone,
                res' = [res EXCEPT ![i] = [n \in Module |-> NoRes]],
                job' = [job EXCEPT ![i][m] = NoJob]
         PROVE  Goal
    <2>1. /\ res' \in Rows /\ \A n \in Module : res'[i][n] = NoRes
          /\ \A x \in Item \ {i}, n \in Module : res'[x][n] = res[x][n]
      BY <1>1, <1>4, <1>16 DEF Rows, MaybeRow
    <2>2. QED
      BY <1>13, <1>16, <2>1 DEF StartOutcome
  <1>17. ASSUME item[i] # Gone,
                cfg[m] = Off \/ (cfg[m] # Bad /\ in = NoInputs),
                WithRow(i, m, NoRes),
                job' = [job EXCEPT ![i][m] = NoJob]
         PROVE  Goal
    <2>1. res' \in Rows /\ res'[i][m] = NoRes /\ SameElsewhere(res', res, i, m)
      BY <1>15, <1>17 DEF MaybeRow
    <2>2. cfg[m] = Off \/ (cfg[m] \in Config /\ in = NoInputs)
      BY <1>1, <1>17
    <2>3. QED
      BY <1>13, <1>17, <2>1, <2>2 DEF StartOutcome, in
  <1>18. ASSUME item[i] # Gone,
                cfg[m] = Bad,
                WithRow(i, m, ConfigErrorRow(r)),
                job' = [job EXCEPT ![i][m] = NoJob]
         PROVE  Goal
    <2>1. res' \in Rows /\ res'[i][m] = ConfigErrorRow(r) /\ SameElsewhere(res', res, i, m)
      BY <1>8, <1>15, <1>18
    <2>2. QED
      BY <1>13, <1>18, <2>1 DEF StartOutcome, r
  <1>19. ASSUME cfg[m] \notin {Off, Bad} /\ in # NoInputs,
                WithRow(i, m, QuotaRow(r, in)),
                job' = [job EXCEPT ![i][m] = NoJob]
         PROVE  Goal
    <2>1. cfg[m] \in Config /\ in \in ItemInputs /\ item[i] # Gone
      BY <1>1, <1>7, <1>19
    <2>2. res' \in Rows /\ res'[i][m] = QuotaRow(r, in) /\ SameElsewhere(res', res, i, m)
      BY <1>8, <1>15, <1>19, <2>1
    <2>3. QED
      BY <1>13, <1>19, <2>1, <2>2 DEF StartOutcome, r, in
  <1>20. ASSUME cfg[m] \notin {Off, Bad} /\ in # NoInputs,
                WithRow(i, m, marked),
                job' = [job EXCEPT ![i][m].running = TRUE, ![i][m].inputs = in, ![i][m].cfg = cfg[m]]
         PROVE  Goal
    <2>1. cfg[m] \in Config /\ in \in ItemInputs /\ item[i] # Gone
      BY <1>1, <1>7, <1>20
    <2>2. marked \in MaybeRow
      BY <1>6, <1>8
    <2>3. res' \in Rows /\ res'[i][m] = marked /\ SameElsewhere(res', res, i, m)
      BY <1>15, <1>20, <2>2
    <2>4. JobsOK(job', queue') /\ job'[i][m] = started /\ SameElsewhere(job', job, i, m)
      BY <1>10, <1>14, <1>20, <2>1
    <2>5. QED
      BY <2>1, <2>3, <2>4 DEF StartOutcome, r, in, started
  <1>21. Goal
    BY <1>9, <1>16, <1>17, <1>18, <1>19, <1>20
  <1>22. QED
    BY <1>4, <1>5, <1>11, <1>21

\* A restart queues what stalled and what is due, and nothing else.
RestartedJob(r) == IF Stalled(r) THEN NewJob("edit", {})
                   ELSE IF Due(r) THEN NewJob("refresh", {}) ELSE NoJob

LEMMA RestartStep ==
    ASSUME Accounted, Restart
    PROVE  /\ JobsOK(job', queue')
           /\ used' \in [Module -> 0 .. DailyLimit]
           /\ missed' \subseteq Item \X Module
           /\ \A i \in Item, m \in Module :
                /\ job'[i][m] = RestartedJob(res[i][m])
                /\ Waits(i, m) \/ <<i, m>> \in missed => <<i, m>> \in missed' \/ Stalled(res[i][m])
  <1> DEFINE stalled == {p \in Item \X Module : Stalled(res[p[1]][p[2]])}
             D == stalled \union DuePairs
             trigger == [p \in D |-> Trigger(IF p \in stalled THEN "edit" ELSE "refresh", {})]
             none == [i \in Item |-> [m \in Module |-> NoJob]]
  <1>1. /\ job' = JobsAfter(D, trigger, none)
        /\ queue' = [m \in Module |-> QueueAfter(<<>>, {i \in Item : <<i, m>> \in D}, job', m)]
        /\ used' = [m \in Module |-> 0]
        /\ missed' = (missed \union {p \in Item \X Module : Waits(p[1], p[2])}) \ stalled
    BY Zenon DEF Restart
  <1>2. D \in SUBSET (Item \X Module)
    BY DEF DuePairs
  <1>3. \A p \in D : /\ trigger[p].prio = IF p \in stalled THEN "edit" ELSE "refresh"
                     /\ trigger[p].chain = {}
    BY DEF Trigger
  <1>4. \A p \in D : trigger[p].prio \in Prio /\ trigger[p].chain \in SUBSET Module
    BY <1>3 DEF Prio
  <1>5. none \in Jobs /\ \A i \in Item, m \in Module : none[i][m] = NoJob
    BY DEF Jobs, MaybeJob
  <1>6. \A i \in Item, m \in Module : /\ <<i, m>> \in stalled <=> Stalled(res[i][m])
                                      /\ <<i, m>> \in D <=> Stalled(res[i][m]) \/ Due(res[i][m])
    BY DEF DuePairs
  <1>7. missed \subseteq Item \X Module
    BY DEF Accounted, RunnerTypeOK
  <1>8. /\ used' \in [Module -> 0 .. DailyLimit]
        /\ missed' \subseteq Item \X Module
        /\ \A i \in Item, m \in Module :
             Waits(i, m) \/ <<i, m>> \in missed => <<i, m>> \in missed' \/ Stalled(res[i][m])
    BY <1>1, <1>7, RunnerAssumption
  <1> HIDE DEF stalled, D, trigger, none
  <1>9. job' \in Jobs /\ Triggered(D, trigger, none, job')
    BY <1>1, <1>2, <1>4, <1>5, JobsEnqueued, Zenon
  <1>10. ASSUME NEW i \in Item, NEW m \in Module
         PROVE  /\ job'[i][m] = RestartedJob(res[i][m])
                /\ ~Runs(job'[i][m])
                /\ job'[i][m] # NoJob <=> <<i, m>> \in D
    <2>1. job'[i][m] = IF <<i, m>> \in D
                       THEN Enqueued(none[i][m], trigger[<<i, m>>].prio, trigger[<<i, m>>].chain)
                       ELSE none[i][m]
      BY <1>9 DEF Triggered
    <2>2. none[i][m] = NoJob
      BY <1>5
    <2>3. CASE <<i, m>> \in D
      <3> DEFINE pr == IF Stalled(res[i][m]) THEN "edit" ELSE "refresh"
      <3>1. trigger[<<i, m>>].prio = pr /\ trigger[<<i, m>>].chain = {}
        BY <1>3, <1>6, <2>3
      <3>2. job'[i][m] = NewJob(pr, {})
        BY <2>1, <2>2, <2>3, <3>1 DEF Enqueued
      <3>3. ~NewJob(pr, {}).running /\ NewJob(pr, {}) \in JobEntry
        BY DEF NewJob, JobEntry
      <3>4. NewJob(pr, {}) # NoJob
        BY <3>3, RunnerValues
      <3>5. RestartedJob(res[i][m]) = NewJob(pr, {})
        BY <1>6, <2>3 DEF RestartedJob
      <3>6. QED
        BY <2>3, <3>2, <3>3, <3>4, <3>5 DEF Runs
    <2>4. CASE <<i, m>> \notin D
      BY <1>6, <2>1, <2>2, <2>4 DEF RestartedJob, Runs
    <2>5. QED
      BY <2>3, <2>4
  <1>11. ASSUME NEW m \in Module
         PROVE  /\ queue'[m] \in Seq(Item)
                /\ IsInjective(queue'[m])
                /\ ToSet(queue'[m]) = WaitingIn(job', m)
    <2> DEFINE new == {i \in Item : <<i, m>> \in D}
    <2>1. queue'[m] = QueueAfter(<<>>, new, job', m)
      BY <1>1
    <2>2. <<>> \in Seq(Item) /\ IsInjective(<<>>) /\ ToSet(<<>>) = {}
      BY DEF IsInjective, ToSet
    <2>3. WaitingIn(job', m) = new
      BY <1>10 DEF WaitingIn, Runs
    <2>4. new \in SUBSET Item
      OBVIOUS
    <2> HIDE DEF new
    <2> DEFINE q == <<>>
    <2>5. q \in Seq(Item) /\ IsInjective(q) /\ ToSet(q) = {} /\ queue'[m] = QueueAfter(q, new, job', m)
      BY <2>1, <2>2
    <2> HIDE DEF q
    <2>6. /\ QueueAfter(q, new, job', m) \in Seq(Item)
          /\ IsInjective(QueueAfter(q, new, job', m))
          /\ ToSet(QueueAfter(q, new, job', m)) = ToSet(q) \union new
      BY <2>4, <2>5, QueueLonger
    <2>7. QED
      BY <2>3, <2>5, <2>6
  <1>12. DOMAIN queue' = Module /\ queue' = [m \in Module |-> queue'[m]]
    BY <1>1
  <1>13. Queued(job', queue')
    BY <1>11, <1>12 DEF Queued
  <1>14. \A m \in Module : Cardinality({i \in Item : Runs(job'[i][m])}) <= MaxConcurrent
    <2>1. ASSUME NEW m \in Module PROVE {i \in Item : Runs(job'[i][m])} = {}
      BY <1>10
    <2>2. Cardinality({}) = 0 /\ 0 <= MaxConcurrent
      BY FS_EmptySet, RunnerAssumption
    <2>3. QED
      BY <2>1, <2>2
  <1>15. QED
    BY <1>8, <1>9, <1>10, <1>13, <1>14 DEF JobsOK

\* The rows that an answer writes.
StoredRow(v, in, refresh) ==
    [status |-> "complete", vals |-> v, inputs |-> in,
     attempts |-> 0, attempt |-> "none", refresh |-> refresh]

FailedRow(r, in) ==
    LET n == OrBlank(r).attempts + 1
    IN  [OrBlank(r) EXCEPT !.status = "error", !.inputs = in,
            !.attempts = IF n < MaxAttempts THEN n ELSE MaxAttempts,
            !.attempt = IF n < MaxAttempts THEN "later" ELSE "none"]

LEMMA AnswerRows ==
    ASSUME NEW r \in MaybeRow, NEW in \in ItemInputs
    PROVE  /\ \A v \in Val, t \in {"none", "later"} :
                StoredRow(v, in, t) \in Row
           /\ FailedRow(r, in) \in Row
           /\ FailedRow(r, in).status = "error" /\ FailedRow(r, in).inputs = in
           /\ FailedRow(r, in).vals = ValOf(r)
           /\ r = NoRes => FailedRow(r, in).attempt = "later"
           /\ QuotaRow(r, in) \in Row
           /\ QuotaRow(r, in).status = "unprocessed" /\ QuotaRow(r, in).attempt = "midnight"
           /\ QuotaRow(r, in).vals = ValOf(r)
  <1> DEFINE b == OrBlank(r)
  <1>1. b \in Row /\ b.vals = ValOf(r) /\ (r = NoRes => b.attempts = 0)
    BY WrittenRows DEF OrBlank, BlankRow
  <1>2. MaxAttempts \in Nat /\ MaxAttempts > 1
    BY RunnerAssumption
  <1>3. \A v \in Val, t \in {"none", "later"} : StoredRow(v, in, t) \in Row
    BY <1>2 DEF StoredRow, Row
  <1>4. /\ FailedRow(r, in) = [b EXCEPT !.status = "error", !.inputs = in,
                !.attempts = IF b.attempts + 1 < MaxAttempts THEN b.attempts + 1 ELSE MaxAttempts,
                !.attempt = IF b.attempts + 1 < MaxAttempts THEN "later" ELSE "none"]
        /\ QuotaRow(r, in) = [b EXCEPT !.status = "unprocessed", !.inputs = in, !.attempt = "midnight"]
    BY DEF FailedRow, QuotaRow
  <1> HIDE DEF b
  <1>5. b.attempts \in 0 .. MaxAttempts
    BY <1>1 DEF Row
  <1> DEFINE n == IF b.attempts + 1 < MaxAttempts THEN b.attempts + 1 ELSE MaxAttempts
             a == IF b.attempts + 1 < MaxAttempts THEN "later" ELSE "none"
  <1>6. /\ n \in 0 .. MaxAttempts /\ a \in {"none", "later", "midnight", "due"}
        /\ r = NoRes => a = "later"
    BY <1>1, <1>2, <1>5
  <1>7. FailedRow(r, in) = [b EXCEPT !.status = "error", !.inputs = in, !.attempts = n, !.attempt = a]
    BY <1>4
  <1> HIDE DEF n, a
  <1>8. /\ FailedRow(r, in) \in Row
        /\ FailedRow(r, in).status = "error" /\ FailedRow(r, in).inputs = in
        /\ FailedRow(r, in).vals = ValOf(r)
        /\ FailedRow(r, in).attempt = a
    BY <1>1, <1>6, <1>7 DEF Row
  <1>9. /\ QuotaRow(r, in) \in Row
        /\ QuotaRow(r, in).status = "unprocessed" /\ QuotaRow(r, in).attempt = "midnight"
        /\ QuotaRow(r, in).vals = ValOf(r)
    BY <1>1, <1>4 DEF Row
  <1>10. QED
    BY <1>3, <1>6, <1>8, <1>9

\* What an answer does: it is for other inputs than those of now, or it is stored and
\* the others look, or it failed.
AnswerOutcome(i, m) ==
    LET j == job[i][m]
        in == Inputs(m, item[i], j.cfg, res[i])
    IN
    \/ /\ in # j.inputs
       /\ res' = res
       /\ Ended(i, m, j.dirty \/ in # NoInputs, {}, {})
    \/ /\ in = j.inputs
       /\ \E v \in Val, t \in {"none", "later"}, rs \in Rows :
            LET chain == j.chain \union {m}
                looking == IF ValOf(res[i][m]) = v THEN {} ELSE {i}
            IN
            /\ rs[i][m] = StoredRow(v, in, t)
            /\ SameElsewhere(rs, res, i, m)
            /\ RowsLooked(looking, item, cfg, rs, chain, res')
            /\ Ended(i, m, j.dirty,
                     {p \in Item \X Module : Decision(looking, p[1], p[2], item, cfg, rs, chain) = "enqueue"},
                     chain)
    \/ /\ SameElsewhere(res', res, i, m)
       /\ res'[i][m] \in {FailedRow(res[i][m], j.inputs), QuotaRow(res[i][m], j.inputs)}
       /\ Ended(i, m, j.dirty, {}, {})

LEMMA AnswerStep ==
    ASSUME Accounted, NEW i \in Item, NEW m \in Module, Answer(i, m)
    PROVE  /\ UNCHANGED <<link, item, cfg, used, calls, edits, days, restarts>>
           /\ Runs(job[i][m])
           /\ res' \in Rows
           /\ JobsOK(job', queue')
           /\ missed' \subseteq Item \X Module /\ crossed' \subseteq Item
           /\ AnswerOutcome(i, m)
  <1> DEFINE j == job[i][m]
             in == Inputs(m, item[i], j.cfg, res[i])
  <1>1. /\ RunnerTypeOK /\ res \in Rows /\ job \in Jobs /\ JobsOK(job, queue)
        /\ item \in [Item -> Text \union {Gone, Blank}] /\ cfg \in [Module -> Config \union {Off, Bad}]
    BY TypedRows DEF Accounted, RunnerTypeOK
  <1>2. /\ Runs(j)
        /\ UNCHANGED <<link, item, cfg, used, calls, edits, days, restarts>>
    BY DEF Answer, AnswerStale, AnswerStored, AnswerFailed, AnswerOverQuota, Answered, Running, Job, Runs
  <1>3. j \in JobEntry /\ j.inputs \in ItemInputs /\ j.cfg \in Config
    BY <1>1, <1>2 DEF JobsOK, Jobs, MaybeJob, Runs
  <1>4. j.dirty \in BOOLEAN /\ j.chain \in SUBSET Module
    BY <1>3 DEF JobEntry
  <1>5. res[i][m] \in MaybeRow /\ res[i] \in [Module -> MaybeRow]
    BY <1>1 DEF Rows
  <1>6. CASE AnswerStale(i, m)
    <2>1. /\ in # j.inputs /\ res' = res
          /\ EndJob(i, m, j.dirty \/ in # NoInputs, {}, {})
      BY <1>6 DEF AnswerStale, LatestInputs, Job
    <2>2. /\ (j.dirty \/ in # NoInputs) \in BOOLEAN
          /\ {} \in SUBSET (Item \X Module) /\ {} \in SUBSET Module /\ <<i, m>> \notin {}
      BY <1>4
    <2> HIDE DEF in
    <2>3. /\ JobsOK(job', queue')
          /\ missed' \subseteq Item \X Module /\ crossed' \subseteq Item
          /\ Ended(i, m, j.dirty \/ in # NoInputs, {}, {})
      BY <1>2, <2>1, <2>2, EndStep, Zenon
    <2>4. QED
      BY <1>1, <1>2, <2>1, <2>3 DEF AnswerOutcome, in
  <1>7. ASSUME NEW v \in Val, NEW t \in {"none", "later"}, AnswerStored(i, m, v, t)
        PROVE  /\ res' \in Rows
               /\ JobsOK(job', queue')
               /\ missed' \subseteq Item \X Module /\ crossed' \subseteq Item
               /\ AnswerOutcome(i, m)
    <2> DEFINE chain == j.chain \union {m}
               looking == IF ValOf(res[i][m]) = v THEN {} ELSE {i}
               rs == [res EXCEPT ![i][m] = StoredRow(v, j.inputs, t)]
               D == {p \in Item \X Module : Decision(looking, p[1], p[2], item, cfg, rs, chain) = "enqueue"}
    <2>1. /\ in = j.inputs
          /\ res' = Looked(looking, item, cfg, rs, chain)
          /\ EndJob(i, m, j.dirty, D, chain)
      BY <1>7, Zenon DEF AnswerStored, LatestInputs, Job, Looked, StoredRow
    <2>2. StoredRow(v, j.inputs, t) \in Row
      BY <1>3, <1>5, AnswerRows
    <2>3. /\ rs \in Rows
          /\ rs[i][m] = StoredRow(v, j.inputs, t)
          /\ SameElsewhere(rs, res, i, m)
      BY <1>1, <2>2 DEF Rows, MaybeRow, SameElsewhere
    <2>4. D \in SUBSET (Item \X Module) /\ chain \in SUBSET Module /\ m \in chain
      BY <1>4
    <2> HIDE DEF rs, chain, looking
    <2>5. <<i, m>> \notin D
      BY <2>4 DEF Decision, Decide
    <2>6. res' \in Rows /\ RowsLooked(looking, item, cfg, rs, chain, res')
      BY <1>1, <2>1, <2>3, LookedRows
    <2> HIDE DEF D
    <2>7. /\ JobsOK(job', queue')
          /\ missed' \subseteq Item \X Module /\ crossed' \subseteq Item
          /\ Ended(i, m, j.dirty, D, chain)
      BY <1>2, <1>4, <2>1, <2>4, <2>5, EndStep, Zenon
    <2>8. \E v1 \in Val, t1 \in {"none", "later"}, rs1 \in Rows :
            /\ rs1[i][m] = StoredRow(v1, in, t1)
            /\ SameElsewhere(rs1, res, i, m)
            /\ RowsLooked(IF ValOf(res[i][m]) = v1 THEN {} ELSE {i}, item, cfg, rs1, j.chain \union {m}, res')
            /\ Ended(i, m, j.dirty,
                     {p \in Item \X Module : Decision(IF ValOf(res[i][m]) = v1 THEN {} ELSE {i}, p[1], p[2],
                                                      item, cfg, rs1, j.chain \union {m}) = "enqueue"},
                     j.chain \union {m})
      BY <2>1, <2>3, <2>6, <2>7, Zenon DEF D, looking, chain
    <2>9. AnswerOutcome(i, m)
      BY <2>1, <2>8, Zenon DEF AnswerOutcome
    <2>10. QED
      BY <2>6, <2>7, <2>9
  <1>8. ASSUME NEW r, r \in {FailedRow(res[i][m], j.inputs), QuotaRow(res[i][m], j.inputs)},
               WithRow(i, m, r), EndJob(i, m, j.dirty, {}, {})
        PROVE  /\ res' \in Rows
               /\ JobsOK(job', queue')
               /\ missed' \subseteq Item \X Module /\ crossed' \subseteq Item
               /\ AnswerOutcome(i, m)
    <2>1. r \in MaybeRow
      BY <1>3, <1>5, <1>8, AnswerRows DEF MaybeRow
    <2>2. res' \in Rows /\ res'[i][m] = r /\ SameElsewhere(res', res, i, m)
      BY <1>1, <1>8, <2>1, RowChanged DEF SameElsewhere
    <2>3. /\ {} \in SUBSET (Item \X Module) /\ {} \in SUBSET Module /\ <<i, m>> \notin {}
      OBVIOUS
    <2>4. /\ JobsOK(job', queue')
          /\ missed' \subseteq Item \X Module /\ crossed' \subseteq Item
          /\ Ended(i, m, j.dirty, {}, {})
      BY <1>2, <1>4, <1>8, <2>3, EndStep, Zenon
    <2>5. AnswerOutcome(i, m)
      BY <1>8, <2>2, <2>4, Zenon DEF AnswerOutcome
    <2>6. QED
      BY <2>2, <2>4, <2>5
  <1>9. CASE AnswerFailed(i, m)
    <2>1. WithRow(i, m, FailedRow(res[i][m], j.inputs)) /\ EndJob(i, m, j.dirty, {}, {})
      BY <1>9, Zenon DEF AnswerFailed, FailedRow, Job
    <2>2. QED
      BY <1>2, <1>8, <2>1
  <1>10. CASE AnswerOverQuota(i, m)
    <2>1. WithRow(i, m, QuotaRow(res[i][m], j.inputs)) /\ EndJob(i, m, j.dirty, {}, {})
      BY <1>10, Zenon DEF AnswerOverQuota, Job
    <2>2. QED
      BY <1>2, <1>8, <2>1
  <1>11. QED
    BY <1>2, <1>6, <1>7, <1>9, <1>10 DEF Answer

\* Rows as time goes by: only what is pending changes.
LaterRow(r) == [r EXCEPT !.attempt = IF @ = "later" THEN "due" ELSE @,
                         !.refresh = IF @ = "later" THEN "due" ELSE @]

MidnightRow(r) ==
    IF r = NoRes THEN NoRes ELSE [r EXCEPT !.attempt = IF @ = "midnight" THEN "due" ELSE @]

\* a and b differ in what is pending only, and both or neither of them wait.
SamePending(a, b) ==
    /\ a = NoRes <=> b = NoRes
    /\ a # NoRes => /\ a.status = b.status /\ a.vals = b.vals /\ a.inputs = b.inputs
                    /\ a.attempt = "none" <=> b.attempt = "none"

LEMMA PendingRows ==
    ASSUME NEW r \in MaybeRow
    PROVE  /\ r # NoRes => LaterRow(r) \in Row /\ SamePending(LaterRow(r), r)
           /\ MidnightRow(r) \in MaybeRow /\ SamePending(MidnightRow(r), r)
  <1>1. ASSUME r # NoRes PROVE LaterRow(r) \in Row /\ SamePending(LaterRow(r), r)
    <2> DEFINE a == IF r.attempt = "later" THEN "due" ELSE r.attempt
               f == IF r.refresh = "later" THEN "due" ELSE r.refresh
    <2>1. r \in Row
      BY <1>1 DEF MaybeRow
    <2>2. /\ a \in {"none", "later", "midnight", "due"} /\ f \in {"none", "later", "due"}
          /\ a = "none" <=> r.attempt = "none"
      BY <2>1 DEF Row
    <2>3. LaterRow(r) = [r EXCEPT !.attempt = a, !.refresh = f]
      BY DEF LaterRow
    <2> HIDE DEF a, f
    <2>4. /\ LaterRow(r) \in Row
          /\ LaterRow(r).status = r.status /\ LaterRow(r).vals = r.vals
          /\ LaterRow(r).inputs = r.inputs /\ LaterRow(r).attempt = a
      BY <2>1, <2>2, <2>3 DEF Row
    <2>5. LaterRow(r) # NoRes
      BY <2>4, RunnerValues
    <2>6. QED
      BY <1>1, <2>2, <2>4, <2>5 DEF SamePending
  <1>2. MidnightRow(r) \in MaybeRow /\ SamePending(MidnightRow(r), r)
    <2>1. CASE r = NoRes
      BY <2>1 DEF MidnightRow, SamePending, MaybeRow
    <2>2. CASE r # NoRes
      <3> DEFINE a == IF r.attempt = "midnight" THEN "due" ELSE r.attempt
      <3>1. r \in Row
        BY <2>2 DEF MaybeRow
      <3>2. a \in {"none", "later", "midnight", "due"} /\ (a = "none" <=> r.attempt = "none")
        BY <3>1 DEF Row
      <3>3. MidnightRow(r) = [r EXCEPT !.attempt = a]
        BY <2>2 DEF MidnightRow
      <3> HIDE DEF a
      <3>4. /\ MidnightRow(r) \in Row
            /\ MidnightRow(r).status = r.status /\ MidnightRow(r).vals = r.vals
            /\ MidnightRow(r).inputs = r.inputs /\ MidnightRow(r).attempt = a
        BY <3>1, <3>2, <3>3 DEF Row
      <3>5. MidnightRow(r) # NoRes
        BY <3>4, RunnerValues
      <3>6. QED
        BY <2>2, <3>2, <3>4, <3>5 DEF SamePending, MaybeRow
    <2>3. QED
      BY <2>1, <2>2
  <1>3. QED
    BY <1>1, <1>2

\* TimePasses and Midnight, row by row.
LEMMA TimeStep ==
    ASSUME Accounted, NEW i \in Item, NEW m \in Module, TimePasses(i, m)
    PROVE  /\ res' \in Rows /\ SamePending(res'[i][m], res[i][m]) /\ SameElsewhere(res', res, i, m)
           /\ UNCHANGED <<link, item, cfg, job, queue, used, calls, missed, crossed, edits, days, restarts>>
  <1>1. res \in Rows
    BY TypedRows DEF Accounted
  <1>2. /\ WithRow(i, m, LaterRow(res[i][m])) /\ res[i][m] # NoRes
        /\ UNCHANGED <<link, item, cfg, job, queue, used, calls, missed, crossed, edits, days, restarts>>
    BY Zenon DEF TimePasses, LaterRow
  <1>3. LaterRow(res[i][m]) \in MaybeRow /\ SamePending(LaterRow(res[i][m]), res[i][m])
    BY <1>1, <1>2, PendingRows DEF Rows, MaybeRow
  <1>4. QED
    BY <1>1, <1>2, <1>3, RowChanged DEF SameElsewhere

LEMMA MidnightStep ==
    ASSUME Accounted, Midnight
    PROVE  /\ res' \in Rows /\ used' \in [Module -> 0 .. DailyLimit] /\ calls' \in [Module -> Nat]
           /\ \A i \in Item, m \in Module : SamePending(res'[i][m], res[i][m])
           /\ UNCHANGED <<link, item, cfg, job, queue, missed, crossed, edits, restarts>>
  <1>1. res \in Rows
    BY TypedRows DEF Accounted
  <1>2. /\ res' = [i \in Item |-> [m \in Module |-> MidnightRow(res[i][m])]]
        /\ UNCHANGED <<link, item, cfg, job, queue, missed, crossed, edits, restarts>>
        /\ used' = [m \in Module |-> 0] /\ calls' = [m \in Module |-> 0]
    BY Zenon DEF Midnight, MidnightRow
  <1>3. \A i \in Item, m \in Module : /\ MidnightRow(res[i][m]) \in MaybeRow
                                      /\ SamePending(MidnightRow(res[i][m]), res[i][m])
    BY <1>1, PendingRows DEF Rows
  <1>4. QED
    BY <1>2, <1>3, RunnerAssumption DEF Rows

\* RunnerTick queues refreshes.
LEMMA TickStep ==
    ASSUME Accounted, RunnerTick
    PROVE  /\ JobsOK(job', queue')
           /\ missed' \subseteq Item \X Module /\ crossed' \subseteq Item
           /\ missed \subseteq missed' /\ crossed \subseteq crossed'
           /\ \A i \in Item, m \in Module :
                job'[i][m] = IF Due(res[i][m]) THEN Enqueued(job[i][m], "refresh", {}) ELSE job[i][m]
           /\ UNCHANGED <<link, item, cfg, res, used, calls, edits, days, restarts>>
  <1> DEFINE trigger == [p \in DuePairs |-> Trigger("refresh", {})]
  <1>1. /\ Enqueue(DuePairs, trigger, job)
        /\ UNCHANGED <<link, item, cfg, res, used, calls, edits, days, restarts>>
    BY Zenon DEF RunnerTick
  <1>2. /\ DuePairs \in SUBSET (Item \X Module)
        /\ \A i \in Item, m \in Module : <<i, m>> \in DuePairs <=> Due(res[i][m])
    BY DEF DuePairs
  <1>3. \A p \in DuePairs : trigger[p].prio = "refresh" /\ trigger[p].chain = {}
    BY DEF Trigger
  <1>4. \A p \in DuePairs : trigger[p].prio \in Prio /\ trigger[p].chain \in SUBSET Module
    BY <1>3 DEF Prio
  <1>5. /\ JobsOK(job, queue) /\ job \in Jobs /\ Queued(job, queue)
        /\ missed \subseteq Item \X Module /\ crossed \subseteq Item
    BY DEF Accounted, JobsOK, RunnerTypeOK
  <1> HIDE DEF trigger
  <1>6. JobsOK(job', queue')
    BY <1>1, <1>2, <1>4, <1>5, EnqueueAccounted, Zenon
  <1>7. Triggered(DuePairs, trigger, job, job')
    BY <1>1, <1>2, <1>4, <1>5, EnqueueStep, Zenon
  <1>8. /\ missed' \subseteq Item \X Module
        /\ \A p \in missed : p \in missed' \/ (p \in DuePairs /\ trigger[p].prio = "edit")
        /\ crossed' \subseteq Item /\ crossed \subseteq crossed'
    BY <1>1, <1>2, <1>5, EnqueueHistory, Zenon
  <1>9. ASSUME NEW i \in Item, NEW m \in Module
        PROVE  job'[i][m] = IF Due(res[i][m]) THEN Enqueued(job[i][m], "refresh", {}) ELSE job[i][m]
    <2>1. job'[i][m] = IF <<i, m>> \in DuePairs
                       THEN Enqueued(job[i][m], trigger[<<i, m>>].prio, trigger[<<i, m>>].chain)
                       ELSE job[i][m]
      BY <1>7 DEF Triggered
    <2>2. <<i, m>> \in DuePairs => trigger[<<i, m>>].prio = "refresh" /\ trigger[<<i, m>>].chain = {}
      BY <1>3
    <2>3. QED
      BY <1>2, <2>1, <2>2
  <1>10. missed \subseteq missed'
    BY <1>3, <1>8
  <1>11. QED
    BY <1>1, <1>6, <1>8, <1>9, <1>10

-----------------------------------------------------------------------------
(* Every step keeps Accounted.                                             *)

LEMMA RunnerInitAccounted == RunnerInit => Accounted
  <1> SUFFICES ASSUME RunnerInit PROVE Accounted
    OBVIOUS
  <1>1. RunnerTypeOK
    <2>1. queue \in [Module -> Seq(Item)]
      BY DEF RunnerInit
    <2>2. QED
      BY <2>1, RunnerAssumption DEF RunnerInit, RunnerTypeOK
  <1>2. \A i \in Item, m \in Module : job[i][m] = NoJob
    BY DEF RunnerInit
  <1>3. Queued(job, queue)
    <2>1. ASSUME NEW m \in Module PROVE IsInjective(queue[m]) /\ ToSet(queue[m]) = WaitingIn(job, m)
      <3>1. queue[m] = <<>>
        BY DEF RunnerInit
      <3>2. IsInjective(queue[m]) /\ ToSet(queue[m]) = {}
        BY <3>1 DEF IsInjective, ToSet
      <3>3. WaitingIn(job, m) = {}
        BY <1>2 DEF WaitingIn
      <3>4. QED
        BY <3>2, <3>3
    <2>2. QED
      BY <1>1, <2>1 DEF Queued, RunnerTypeOK
  <1>4. \A m \in Module : Cardinality({i \in Item : Runs(job[i][m])}) <= MaxConcurrent
    <2>1. \A m \in Module : {i \in Item : Runs(job[i][m])} = {}
      BY <1>2 DEF Runs
    <2>2. Cardinality({}) = 0 /\ 0 <= MaxConcurrent
      BY FS_EmptySet, RunnerAssumption
    <2>3. QED
      BY <2>1, <2>2
  <1>5. job \in Jobs
    BY <1>1, TypedRows
  <1>6. QED
    BY <1>1, <1>2, <1>3, <1>4, <1>5 DEF Accounted, JobsOK, Runs

\* The types that are left when rows and jobs are as they should be.
LEMMA AccountedFrom ==
    ASSUME Accounted, res' \in Rows, JobsOK(job', queue'), link' = link,
           item' \in [Item -> Text \union {Gone, Blank}],
           cfg' \in [Module -> Config \union {Off, Bad}],
           used' \in [Module -> 0 .. DailyLimit], calls' \in [Module -> Nat],
           missed' \subseteq Item \X Module, crossed' \subseteq Item
    PROVE  Accounted'
  <1>1. job' \in Jobs /\ queue' \in [Module -> Seq(Item)]
    BY DEF JobsOK, Queued
  <1>2. link \in Links
    BY DEF Accounted, RunnerTypeOK
  <1>3. RunnerTypeOK'
    BY <1>1, <1>2 DEF RunnerTypeOK, Rows, Jobs, MaybeRow, MaybeJob
  <1>4. QED
    BY <1>3 DEF Accounted

LEMMA RunnerStepAccounted == Accounted /\ [RunnerNext]_runnerVars => Accounted'
  <1> SUFFICES ASSUME Accounted, [RunnerNext]_runnerVars PROVE Accounted'
    OBVIOUS
  <1>1. /\ RunnerTypeOK /\ JobsOK(job, queue) /\ res \in Rows
        /\ item \in [Item -> Text \union {Gone, Blank}]
        /\ cfg \in [Module -> Config \union {Off, Bad}]
        /\ used \in [Module -> 0 .. DailyLimit] /\ calls \in [Module -> Nat]
        /\ missed \subseteq Item \X Module /\ crossed \subseteq Item
    BY TypedRows DEF Accounted, RunnerTypeOK
  <1>2. ASSUME NEW i \in Item, NEW t \in Text \union {Blank}, EditItem(i, t) PROVE Accounted'
    <2>1. /\ item' \in [Item -> Text \union {Gone, Blank}] /\ cfg' = cfg
          /\ ItemsChanged({i}, item', cfg, res)
          /\ UNCHANGED <<link, cfg, used, calls>>
      BY <1>1, <1>2 DEF EditItem
    <2> DEFINE it == item'
    <2>2. it \in [Item -> Text \union {Gone, Blank}] /\ ItemsChanged({i}, it, cfg, res)
      BY <2>1
    <2> HIDE DEF it
    <2>3. /\ res' \in Rows /\ JobsOK(job', queue')
          /\ missed' \subseteq Item \X Module /\ crossed' \subseteq Item
      BY <1>1, <2>2, LookStep, Zenon
    <2>4. QED
      BY <1>1, <2>1, <2>3, AccountedFrom
  <1>3. ASSUME NEW i \in Item, DeleteItem(i) PROVE Accounted'
    <2>1. /\ item' \in [Item -> Text \union {Gone, Blank}]
          /\ res' \in Rows
          /\ UNCHANGED <<link, cfg, job, queue, missed, crossed, used, calls>>
      BY <1>1, <1>3 DEF DeleteItem, Rows, MaybeRow
    <2>2. JobsOK(job', queue')
      BY <1>1, <2>1
    <2>3. QED
      BY <1>1, <2>1, <2>2, AccountedFrom
  <1>4. ASSUME NEW m \in Module, NEW c \in Config \union {Off, Bad}, EditBoard(m, c) PROVE Accounted'
    <2> DEFINE left == [i \in Item |->
                  IF c = Off /\ item[i] # Gone THEN [res[i] EXCEPT ![m] = NoRes] ELSE res[i]]
               S == IF c = Off THEN {} ELSE Item
    <2>1. /\ cfg' \in [Module -> Config \union {Off, Bad}]
          /\ ItemsChanged(S, item, cfg', left)
          /\ UNCHANGED <<link, item, used, calls>>
      BY <1>1, <1>4 DEF EditBoard
    <2>2. left \in Rows
      BY <1>1 DEF Rows, MaybeRow
    <2> DEFINE d == cfg'
    <2>3. d \in [Module -> Config \union {Off, Bad}] /\ ItemsChanged(S, item, d, left)
      BY <2>1
    <2> HIDE DEF d, S, left
    <2>4. /\ res' \in Rows /\ JobsOK(job', queue')
          /\ missed' \subseteq Item \X Module /\ crossed' \subseteq Item
      BY <1>1, <2>2, <2>3, LookStep, Zenon
    <2>5. QED
      BY <1>1, <2>1, <2>4, AccountedFrom
  <1>5. CASE RunnerTick
    BY <1>1, <1>5, TickStep, AccountedFrom
  <1>6. ASSUME NEW m \in Module, StartJob(m) PROVE Accounted'
    <2>1. UNCHANGED <<link, item, cfg, missed, crossed>>
      BY <1>6 DEF StartJob
    <2>2. QED
      BY <1>1, <1>6, <2>1, StartStep, AccountedFrom
  <1>7. ASSUME NEW i \in Item, NEW m \in Module, CallAgain(i, m) PROVE Accounted'
    <2>1. /\ ~OverLimit(m) /\ Spend(m)
          /\ UNCHANGED <<link, item, cfg, res, job, queue, missed, crossed>>
      BY <1>7 DEF CallAgain
    <2>2. used' \in [Module -> 0 .. DailyLimit] /\ calls' \in [Module -> Nat]
      BY <1>1, <2>1, SpendTyped
    <2>3. QED
      BY <1>1, <2>1, <2>2, AccountedFrom
  <1>8. ASSUME NEW i \in Item, NEW m \in Module, Answer(i, m) PROVE Accounted'
    BY <1>1, <1>8, AnswerStep, AccountedFrom
  <1>9. ASSUME NEW i \in Item, NEW m \in Module, TimePasses(i, m) PROVE Accounted'
    BY <1>1, <1>9, TimeStep, AccountedFrom
  <1>10. CASE Midnight
    BY <1>1, <1>10, MidnightStep, AccountedFrom
  <1>11. CASE Restart
    <2>1. UNCHANGED <<link, item, cfg, res, calls, crossed>>
      BY <1>11 DEF Restart
    <2>2. QED
      BY <1>1, <1>11, <2>1, RestartStep, AccountedFrom
  <1>12. CASE UNCHANGED runnerVars
    <2>1. UNCHANGED <<link, item, cfg, res, job, queue, used, calls, missed, crossed>>
      BY <1>12 DEF runnerVars
    <2>2. QED
      BY <1>1, <2>1, AccountedFrom
  <1>13. QED
    BY <1>2, <1>3, <1>4, <1>5, <1>6, <1>7, <1>8, <1>9, <1>10, <1>11, <1>12 DEF RunnerNext

\* Rows, jobs, queues and counters have the types the code gives them.
THEOREM RunnerTypeCorrect == RunnerSpec => []RunnerTypeOK
  <1>1. RunnerSpec => []Accounted
    BY RunnerInitAccounted, RunnerStepAccounted, PTL DEF RunnerSpec
  <1>2. Accounted => RunnerTypeOK
    BY DEF Accounted
  <1>3. QED
    BY <1>1, <1>2, PTL

\* A job that waits is in its module's queue, once, and a job that runs is not; not more
\* than max_concurrent run (enqueue, pump, runJob).
THEOREM RunnerJobsAccounted == RunnerSpec => []JobsAccounted
  <1>1. RunnerSpec => []Accounted
    BY RunnerInitAccounted, RunnerStepAccounted, PTL DEF RunnerSpec
  <1>2. ASSUME Accounted PROVE JobsAccounted
    <2> SUFFICES ASSUME NEW m \in Module
                 PROVE  /\ Cardinality(Running(m)) <= MaxConcurrent
                        /\ \A i \in Item :
                             Cardinality({k \in DOMAIN queue[m] : queue[m][k] = i})
                                 = IF Job(i, m) # NoJob /\ ~Job(i, m).running THEN 1 ELSE 0
      BY DEF JobsAccounted
    <2>1. /\ Cardinality({i \in Item : Runs(job[i][m])}) <= MaxConcurrent
          /\ queue[m] \in Seq(Item) /\ IsInjective(queue[m]) /\ ToSet(queue[m]) = WaitingIn(job, m)
      BY <1>2 DEF Accounted, JobsOK, Queued
    <2>2. Running(m) = {i \in Item : Runs(job[i][m])}
      BY DEF Running, Job, Runs
    <2>3. ASSUME NEW i \in Item
          PROVE  Cardinality({k \in DOMAIN queue[m] : queue[m][k] = i})
                     = IF Job(i, m) # NoJob /\ ~Job(i, m).running THEN 1 ELSE 0
      <3> DEFINE places == {k \in DOMAIN queue[m] : queue[m][k] = i}
      <3>1. i \in WaitingIn(job, m) <=> Job(i, m) # NoJob /\ ~Job(i, m).running
        BY DEF WaitingIn, Job
      <3>2. CASE i \in ToSet(queue[m])
        <4>1. PICK k \in DOMAIN queue[m] : queue[m][k] = i
          BY <3>2, Zenon DEF ToSet
        <4>2. places = {k}
          BY <2>1, <4>1 DEF IsInjective
        <4>3. Cardinality(places) = 1
          BY <4>2, FS_Singleton
        <4>4. QED
          BY <2>1, <3>1, <3>2, <4>3
      <3>3. CASE i \notin ToSet(queue[m])
        <4>1. places = {}
          BY <3>3 DEF ToSet
        <4>2. Cardinality(places) = 0
          BY <4>1, FS_EmptySet
        <4>3. QED
          BY <2>1, <3>1, <3>3, <4>2
      <3>4. QED
        BY <3>2, <3>3
    <2>4. QED
      BY <2>1, <2>2, <2>3
  <1>3. QED
    BY <1>1, <1>2, PTL

-----------------------------------------------------------------------------
(* Orphans: results of items that are gone.                                *)

\* No attempt on an item that is gone finds a row before it starts, and a row that it
\* leaves is the first failure of its module, or a quota wait: tried again in any case.
OrphanOK(it, r, j) == it = Gone /\ r # NoRes => r.attempt # "none" /\ ~Runs(j)

Orphans == \A i \in Item, m \in Module : OrphanOK(item[i], res[i][m], job[i][m])

\* A job that is over, and one that was triggered, run only if they did before.
LEMMA RunsAfter ==
    ASSUME NEW j \in MaybeJob
    PROVE  /\ \A p \in Prio, ch \in SUBSET Module : Runs(Enqueued(j, p, ch)) <=> Runs(j)
           /\ \A p, ch : ~Runs(NewJob(p, ch))
           /\ ~Runs(NoJob)
           /\ \A r : ~Runs(RestartedJob(r))
  <1>1. \A p, ch : ~Runs(NewJob(p, ch))
    BY DEF Runs, NewJob
  <1>2. ~Runs(NoJob)
    BY DEF Runs
  <1>3. \A r : ~Runs(RestartedJob(r))
    BY <1>1, <1>2 DEF RestartedJob
  <1>4. ASSUME NEW p \in Prio, NEW ch \in SUBSET Module PROVE Runs(Enqueued(j, p, ch)) <=> Runs(j)
    <2>1. Enqueued(j, p, ch) # NoJob /\ (Enqueued(j, p, ch).running <=> Runs(j))
      BY EnqueuedJob
    <2>2. QED
      BY <2>1 DEF Runs
  <1>5. QED
    BY <1>1, <1>2, <1>3, <1>4

\* An item that is gone, or was not looked at, is left alone.
LEMMA GoneSkipped ==
    ASSUME NEW S, NEW i, NEW m, NEW it, NEW c, NEW rs, NEW chain, it[i] = Gone \/ i \notin S
    PROVE  /\ Decision(S, i, m, it, c, rs, chain) = "skip"
           /\ Decided(Decision(S, i, m, it, c, rs, chain), rs[i][m]) = rs[i][m]
  BY DEF Decision, Decide, Decided

LEMMA RunnerStepOrphans == Accounted /\ Orphans /\ [RunnerNext]_runnerVars => Orphans'
  <1> SUFFICES ASSUME Accounted, Orphans, [RunnerNext]_runnerVars,
                      NEW i \in Item, NEW m \in Module
               PROVE  OrphanOK(item'[i], res'[i][m], job'[i][m])
    BY DEF Orphans
  <1>1. /\ RunnerTypeOK /\ res \in Rows /\ job \in Jobs
        /\ item \in [Item -> Text \union {Gone, Blank}]
        /\ cfg \in [Module -> Config \union {Off, Bad}]
        /\ res[i][m] \in MaybeRow /\ job[i][m] \in MaybeJob
    BY TypedRows DEF Accounted, RunnerTypeOK, Rows, Jobs
  <1>2. OrphanOK(item[i], res[i][m], job[i][m])
    BY DEF Orphans
  <1>3. ASSUME NEW x \in Item, NEW t \in Text \union {Blank}, EditItem(x, t)
        PROVE  OrphanOK(item'[i], res'[i][m], job'[i][m])
    <2> DEFINE it == item'
    <2>1. /\ it \in [Item -> Text \union {Gone, Blank}]
          /\ it[i] = IF i = x THEN t ELSE item[i]
          /\ t # Gone
          /\ ItemsChanged({x}, it, cfg, res)
      BY <1>1, <1>3, RunnerAssumption DEF EditItem
    <2> HIDE DEF it
    <2>2. /\ res'[i][m] = Decided(Decision({x}, i, m, it, cfg, res, {}), res[i][m])
          /\ job'[i][m] = IF Decision({x}, i, m, it, cfg, res, {}) = "enqueue"
                          THEN Enqueued(job[i][m], "edit", {}) ELSE job[i][m]
      <3>1. LookedAt({x}, it, cfg, res)
        BY <1>1, <2>1, LookStep
      <3>2. QED
        BY <3>1 DEF LookedAt
    <2>3. CASE i = x
      BY <2>1, <2>3 DEF OrphanOK, it
    <2>4. CASE i # x
      BY <1>2, <2>1, <2>2, <2>4, GoneSkipped DEF OrphanOK, it
    <2>5. QED
      BY <2>3, <2>4
  <1>4. ASSUME NEW x \in Item, DeleteItem(x)
        PROVE  OrphanOK(item'[i], res'[i][m], job'[i][m])
    BY <1>1, <1>2, <1>4 DEF DeleteItem, Rows, OrphanOK
  <1>5. ASSUME NEW n \in Module, NEW c \in Config \union {Off, Bad}, EditBoard(n, c)
        PROVE  OrphanOK(item'[i], res'[i][m], job'[i][m])
    <2> DEFINE left == [x \in Item |->
                  IF c = Off /\ item[x] # Gone THEN [res[x] EXCEPT ![n] = NoRes] ELSE res[x]]
               S == IF c = Off THEN {} ELSE Item
               d == cfg'
    <2>1. /\ d \in [Module -> Config \union {Off, Bad}]
          /\ ItemsChanged(S, item, d, left) /\ item' = item
      BY <1>1, <1>5 DEF EditBoard
    <2>2. left \in Rows /\ (item[i] = Gone => left[i][m] = res[i][m])
      BY <1>1 DEF Rows, MaybeRow
    <2> HIDE DEF d, S, left
    <2>3. /\ res'[i][m] = Decided(Decision(S, i, m, item, d, left, {}), left[i][m])
          /\ job'[i][m] = IF Decision(S, i, m, item, d, left, {}) = "enqueue"
                          THEN Enqueued(job[i][m], "edit", {}) ELSE job[i][m]
      <3>1. LookedAt(S, item, d, left)
        BY <1>1, <2>1, <2>2, LookStep
      <3>2. QED
        BY <3>1 DEF LookedAt
    <2>4. QED
      BY <1>2, <2>1, <2>2, <2>3, GoneSkipped DEF OrphanOK
  <1>6. CASE RunnerTick
    <2>1. /\ res' = res /\ item' = item
          /\ job'[i][m] = IF Due(res[i][m]) THEN Enqueued(job[i][m], "refresh", {}) ELSE job[i][m]
      BY <1>6, TickStep
    <2>2. Runs(job'[i][m]) <=> Runs(job[i][m])
      BY <1>1, <2>1, RunsAfter DEF Prio
    <2>3. QED
      BY <1>2, <2>1, <2>2 DEF OrphanOK
  <1>7. ASSUME NEW n \in Module, StartJob(n)
        PROVE  OrphanOK(item'[i], res'[i][m], job'[i][m])
    <2>1. PICK x \in Item : SameElsewhere(job', job, x, n) /\ StartOutcome(x, n)
      BY <1>7, StartStep
    <2>2. item' = item
      BY <1>7 DEF StartJob
    <2>3. CASE item[x] = Gone
      <3>1. /\ i = x => res'[i][m] = NoRes
            /\ i # x => res'[i][m] = res[i][m] /\ job'[i][m] = job[i][m]
        BY <2>1, <2>3 DEF StartOutcome, SameElsewhere
      <3>2. QED
        BY <1>2, <2>2, <3>1 DEF OrphanOK
    <2>4. CASE item[x] # Gone
      <3>1. i # x => res'[i][m] = res[i][m] /\ job'[i][m] = job[i][m]
        BY <2>1, <2>4 DEF StartOutcome, SameElsewhere
      <3>2. QED
        BY <1>2, <2>2, <2>4, <3>1 DEF OrphanOK
    <2>5. QED
      BY <2>3, <2>4
  <1>8. ASSUME NEW x \in Item, NEW n \in Module, CallAgain(x, n)
        PROVE  OrphanOK(item'[i], res'[i][m], job'[i][m])
    BY <1>2, <1>8 DEF CallAgain
  <1>9. ASSUME NEW x \in Item, NEW n \in Module, Answer(x, n)
        PROVE  OrphanOK(item'[i], res'[i][m], job'[i][m])
    <2> DEFINE j == job[x][n]
               in == Inputs(n, item[x], j.cfg, res[x])
    <2>1. item' = item /\ Runs(j) /\ AnswerOutcome(x, n)
      BY <1>9, AnswerStep
    <2>2. j.inputs \in ItemInputs /\ j.cfg \in Config
      BY <2>1 DEF Accounted, JobsOK
    <2>3. item[x] = Gone => in = NoInputs /\ res[x][n] = NoRes
      BY <2>1 DEF Inputs, Orphans, OrphanOK
    <2>4. \A p, ch : ~Runs(NewJob(p, ch)) /\ ~Runs(NoJob)
      BY <1>1, RunsAfter
    <2> SUFFICES ASSUME item[i] = Gone PROVE OrphanOK(item[i], res'[i][m], job'[i][m])
      BY <2>1 DEF OrphanOK
    <2>5. ASSUME res' = res, NEW dirty, Ended(x, n, dirty, {}, {})
          PROVE  OrphanOK(item[i], res'[i][m], job'[i][m])
      <3>1. job'[i][m] = job[i][m] \/ ~Runs(job'[i][m])
        BY <2>4, <2>5 DEF Ended
      <3>2. QED
        BY <1>2, <2>5, <3>1 DEF OrphanOK
    <2>6. ASSUME in = j.inputs,
                 NEW rs \in Rows, SameElsewhere(rs, res, x, n),
                 NEW S, S \subseteq {x}, NEW chain,
                 RowsLooked(S, item, cfg, rs, chain, res'),
                 NEW D, \A p \in D : Decision(S, p[1], p[2], item, cfg, rs, chain) = "enqueue",
                 NEW dirty, Ended(x, n, dirty, D, chain)
          PROVE  OrphanOK(item[i], res'[i][m], job'[i][m])
      <3>1. item[x] # Gone
        BY <2>2, <2>3, <2>6, RunnerValues
      <3>2. i # x /\ i \notin S
        BY <2>6, <3>1
      <3>3. Decision(S, i, m, item, cfg, rs, chain) = "skip" /\ res'[i][m] = rs[i][m]
        BY <2>6, <3>2, GoneSkipped DEF RowsLooked
      <3>4. <<i, m>> \notin D
        BY <2>6, <3>3
      <3>5. job'[i][m] = job[i][m] /\ rs[i][m] = res[i][m]
        BY <2>6, <3>2, <3>4 DEF Ended, SameElsewhere
      <3>6. QED
        BY <1>2, <3>3, <3>5
    <2>7. ASSUME SameElsewhere(res', res, x, n),
                 res'[x][n] \in {FailedRow(res[x][n], j.inputs), QuotaRow(res[x][n], j.inputs)},
                 Ended(x, n, j.dirty, {}, {})
          PROVE  OrphanOK(item[i], res'[i][m], job'[i][m])
      <3>1. CASE i = x /\ m = n
        <4>1. res[i][m] = NoRes
          BY <2>3, <3>1
        <4>2. res'[i][m].attempt # "none"
          BY <1>1, <2>2, <2>7, <3>1, <4>1, AnswerRows
        <4>3. ~Runs(job'[i][m])
          BY <2>4, <2>7, <3>1 DEF Ended
        <4>4. QED
          BY <4>2, <4>3 DEF OrphanOK
      <3>2. CASE i # x \/ m # n
        <4>1. res'[i][m] = res[i][m] /\ job'[i][m] = job[i][m]
          BY <2>7, <3>2 DEF Ended, SameElsewhere
        <4>2. QED
          BY <1>2, <4>1
      <3>3. QED
        BY <3>1, <3>2
    <2>8. CASE res' = res /\ Ended(x, n, j.dirty \/ in # NoInputs, {}, {})
      BY <2>5, <2>8
    <2>9. CASE /\ in = j.inputs
               /\ \E v \in Val, t \in {"none", "later"}, rs \in Rows :
                    LET chain == j.chain \union {n}
                        looking == IF ValOf(res[x][n]) = v THEN {} ELSE {x}
                    IN
                    /\ rs[x][n] = StoredRow(v, in, t)
                    /\ SameElsewhere(rs, res, x, n)
                    /\ RowsLooked(looking, item, cfg, rs, chain, res')
                    /\ Ended(x, n, j.dirty,
                             {p \in Item \X Module :
                                 Decision(looking, p[1], p[2], item, cfg, rs, chain) = "enqueue"},
                             chain)
      <3>1. PICK v \in Val, rs \in Rows :
              LET chain == j.chain \union {n}
                  looking == IF ValOf(res[x][n]) = v THEN {} ELSE {x}
              IN
              /\ SameElsewhere(rs, res, x, n)
              /\ RowsLooked(looking, item, cfg, rs, chain, res')
              /\ Ended(x, n, j.dirty,
                       {p \in Item \X Module :
                           Decision(looking, p[1], p[2], item, cfg, rs, chain) = "enqueue"},
                       chain)
        BY <2>9, Zenon
      <3> DEFINE chain == j.chain \union {n}
                 looking == IF ValOf(res[x][n]) = v THEN {} ELSE {x}
                 D == {p \in Item \X Module : Decision(looking, p[1], p[2], item, cfg, rs, chain) = "enqueue"}
      <3>2. looking \subseteq {x}
        OBVIOUS
      <3>3. \A p \in D : Decision(looking, p[1], p[2], item, cfg, rs, chain) = "enqueue"
        OBVIOUS
      <3>4. /\ SameElsewhere(rs, res, x, n)
            /\ RowsLooked(looking, item, cfg, rs, chain, res')
            /\ Ended(x, n, j.dirty, D, chain)
        BY <3>1, Zenon
      <3> HIDE DEF D, looking, chain
      <3>5. QED
        BY <2>6, <2>9, <3>2, <3>3, <3>4, Zenon
    <2>10. CASE /\ SameElsewhere(res', res, x, n)
                /\ res'[x][n] \in {FailedRow(res[x][n], j.inputs), QuotaRow(res[x][n], j.inputs)}
                /\ Ended(x, n, j.dirty, {}, {})
      BY <2>7, <2>10
    <2>11. QED
      BY <2>1, <2>8, <2>9, <2>10, Zenon DEF AnswerOutcome
  <1>10. ASSUME NEW x \in Item, NEW n \in Module, TimePasses(x, n)
         PROVE  OrphanOK(item'[i], res'[i][m], job'[i][m])
    BY <1>2, <1>10, TimeStep DEF SamePending, SameElsewhere, OrphanOK
  <1>11. CASE Midnight
    BY <1>2, <1>11, MidnightStep DEF SamePending, OrphanOK
  <1>12. CASE Restart
    <2>1. res' = res /\ item' = item
      BY <1>12 DEF Restart
    <2>2. job'[i][m] = RestartedJob(res[i][m])
      BY <1>12, RestartStep
    <2>3. QED
      BY <1>1, <1>2, <2>1, <2>2, RunsAfter DEF OrphanOK
  <1>13. CASE UNCHANGED runnerVars
    BY <1>2, <1>13 DEF runnerVars
  <1>14. QED
    BY <1>3, <1>4, <1>5, <1>6, <1>7, <1>8, <1>9, <1>10, <1>11, <1>12, <1>13 DEF RunnerNext

\* A result written for an item that is gone is one that a scheduled attempt finds and
\* removes: none is left for good (runJob, writeFailure).
THEOREM RunnerOrphansRetried == RunnerSpec => []OrphansRetried
  <1>1. RunnerInit => Orphans
    <2>1. ASSUME RunnerInit PROVE Orphans
      BY <2>1 DEF RunnerInit, Orphans, OrphanOK
    <2>2. QED
      BY <2>1
  <1>2. RunnerSpec => []Accounted
    BY RunnerInitAccounted, RunnerStepAccounted, PTL DEF RunnerSpec
  <1>3. RunnerSpec => []Orphans
    BY <1>1, <1>2, RunnerStepOrphans, PTL DEF RunnerSpec
  <1>4. Orphans => OrphansRetried
    BY DEF Orphans, OrphanOK, OrphansRetried
  <1>5. QED
    BY <1>3, <1>4, PTL

-----------------------------------------------------------------------------
(* Attended: what is known of a result at any time, idle or not.  r is the *)
(* row and j the job, in the inputs of now, and live says that the module  *)
(* is on, its config good and the item there with inputs for it.           *)

Live(m, it, c, rs) == it # Gone /\ c \in Config /\ Inputs(m, it, c, rs) # NoInputs

UpTo(r, in, live) ==
    live => r # NoRes /\ IF r.status = "unprocessed" THEN r.attempt # "none" ELSE r.inputs = in

Waiting(j) == j # NoJob /\ (~j.running \/ j.dirty)

Unprocessed(r) == r # NoRes /\ r.status = "unprocessed"

\* The job runs and, when it is over, no trigger by an edit has it run again.
Fresh(j) == Runs(j) /\ (~j.dirty \/ j.prio = "refresh")

\* The result is up to date, or its job waits or is to run again, or runs and leaves the
\* row unprocessed until then.  A refresh is for a result that is up to date.  A job that
\* will not run again runs on the inputs of now.
Att(j, r, in, live) ==
    /\ UpTo(r, in, live) \/ Waiting(j) \/ (Runs(j) /\ Unprocessed(r))
    /\ j # NoJob /\ j.prio = "refresh" => UpTo(r, in, live)
    /\ Fresh(j) => /\ live => in = j.inputs
                   /\ r # NoRes => Unprocessed(r) \/ r.inputs \in {NoInputs, j.inputs}

\* A trigger by an edit attends to everything.
LEMMA EditAttended ==
    ASSUME NEW j \in MaybeJob, NEW ch \in SUBSET Module, NEW r, NEW in, NEW live
    PROVE  /\ Att(Enqueued(j, "edit", ch), r, in, live)
           /\ Att(NewJob("edit", ch), r, in, live)
  <1> DEFINE e == Enqueued(j, "edit", ch)
             n == NewJob("edit", ch)
  <1>1. /\ e # NoJob /\ e.prio = "edit" /\ (e.running <=> Runs(j)) /\ (Runs(j) => e.dirty)
        /\ n # NoJob /\ n.prio = "edit" /\ ~n.running
    <2>1. "edit" \in Prio
      BY DEF Prio
    <2>2. e # NoJob /\ (e.running <=> Runs(j)) /\ (Runs(j) => e.dirty) /\ e.prio = "edit"
      BY <2>1, EnqueuedJob
    <2>3. n \in JobEntry /\ n.prio = "edit" /\ ~n.running
      BY DEF NewJob, JobEntry
    <2>4. n # NoJob
      BY <2>3, RunnerValues
    <2>5. QED
      BY <2>2, <2>3, <2>4
  <1> HIDE DEF e, n
  <1>2. Att(e, r, in, live) /\ Att(n, r, in, live)
    BY <1>1 DEF Att, Waiting, Fresh, Runs
  <1>3. QED
    BY <1>2 DEF e, n

\* A refresh changes nothing about that.
LEMMA RefreshAttended ==
    ASSUME NEW j \in MaybeJob, NEW ch \in SUBSET Module, NEW r, NEW in, NEW live, Att(j, r, in, live)
    PROVE  /\ Att(Enqueued(j, "refresh", ch), r, in, live)
           /\ UpTo(r, in, live) => Att(NewJob("refresh", ch), r, in, live) /\ Att(NoJob, r, in, live)
  <1> DEFINE e == Enqueued(j, "refresh", ch)
             n == NewJob("refresh", ch)
  <1>1. /\ e # NoJob /\ (e.running <=> Runs(j))
        /\ Runs(j) => e.dirty /\ e.inputs = j.inputs
        /\ j = NoJob => e.prio = "refresh"
        /\ j # NoJob => e.prio = j.prio
    <2>1. "refresh" \in Prio /\ "refresh" # "edit"
      BY DEF Prio
    <2>2. QED
      BY <2>1, EnqueuedJob
  <1>2. n # NoJob /\ n.prio = "refresh" /\ ~n.running
    <2>1. n \in JobEntry /\ n.prio = "refresh" /\ ~n.running
      BY DEF NewJob, JobEntry
    <2>2. QED
      BY <2>1, RunnerValues
  <1> HIDE DEF e, n
  <1>3. Waiting(e)
    BY <1>1 DEF Waiting
  <1>4. e.prio = "refresh" => UpTo(r, in, live)
    BY <1>1 DEF Att, Waiting, Runs
  <1>5. Fresh(e) => Fresh(j) /\ e.inputs = j.inputs
    BY <1>1 DEF Fresh, Runs
  <1>6. Att(e, r, in, live)
    BY <1>3, <1>4, <1>5 DEF Att
  <1>7. UpTo(r, in, live) => Att(n, r, in, live) /\ Att(NoJob, r, in, live)
    BY <1>2 DEF Att, Waiting, Fresh, Runs
  <1>8. QED
    BY <1>6, <1>7 DEF e, n

\* Nothing has to be up to date while the module has nothing to do.
LEMMA DeadAttended ==
    ASSUME NEW j, NEW r, NEW in0, NEW live0, Att(j, r, in0, live0), NEW in, NEW s,
           s = r \/ s = NoRes \/ s.inputs = NoInputs
    PROVE  Att(j, s, in, FALSE)
  BY DEF Att, UpTo, Unprocessed

\* Where onItemChanged looked and queued nothing, nothing was to be done.
LEMMA LookAttended ==
    ASSUME NEW m \in Module, NEW it \in Text \union {Gone, Blank}, NEW c \in Config \union {Off, Bad},
           NEW rs \in [Module -> MaybeRow], NEW chain, m \notin chain,
           NEW j \in MaybeJob, NEW in0, NEW live0, Att(j, rs[m], in0, live0),
           Decide(m, it, c, rs, chain) # "enqueue"
    PROVE  Att(j, Decided(Decide(m, it, c, rs, chain), rs[m]), Inputs(m, it, c, rs), Live(m, it, c, rs))
  <1> DEFINE d == Decide(m, it, c, rs, chain)
             s == Decided(d, rs[m])
             r == rs[m]
             in == Inputs(m, it, c, rs)
             live == Live(m, it, c, rs)
  <1>1. LookOutcome(m, it, c, rs, chain, d, s)
    BY LookedRow
  <1>2. live <=> it # Gone /\ c \in Config /\ in # NoInputs
    BY DEF Live
  <1>3. /\ d \in {"skip", "config error", "remove"}
        /\ d = "skip" => s = r
        /\ d = "config error" => c = Bad /\ s.inputs = NoInputs
        /\ d = "remove" => s = NoRes /\ in = NoInputs
        /\ d = "skip" => \/ c = Off \/ it = Gone
                         \/ /\ r # NoRes /\ r.status # "unprocessed"
                            /\ r.inputs = in /\ in # NoInputs
    BY <1>1 DEF LookOutcome
  <1>4. Att(j, r, in0, live0)
    OBVIOUS
  <1> HIDE DEF d, s, r, in, live
  <1>5. CASE ~live
    <2>1. s = r \/ s = NoRes \/ s.inputs = NoInputs
      BY <1>3
    <2>2. Att(j, s, in, FALSE)
      BY <1>4, <2>1, DeadAttended
    <2>3. Att(j, s, in, live)
      BY <1>5, <2>2 DEF Att, UpTo
    <2>4. QED
      BY <2>3 DEF d, s, r, in, live
  <1>6. CASE live
    <2>1. s = r /\ r # NoRes /\ r.status # "unprocessed" /\ r.inputs = in /\ in # NoInputs
      BY <1>2, <1>3, <1>6, RunnerAssumption
    <2>2. UpTo(s, in, live)
      BY <2>1 DEF UpTo
    <2>3. Fresh(j) => in = j.inputs
      BY <1>4, <2>1 DEF Att, Unprocessed
    <2>4. Att(j, s, in, live)
      BY <1>4, <2>1, <2>2, <2>3 DEF Att
    <2>5. QED
      BY <2>4 DEF d, s, r, in, live
  <1>7. QED
    BY <1>5, <1>6

\* A job that ran is over, and its row is s.
LEMMA EndAttended ==
    ASSUME NEW j \in JobEntry, NEW s, NEW in, NEW live, NEW dirty \in BOOLEAN,
           dirty /\ j.prio = "refresh" => UpTo(s, in, live),
           ~dirty => UpTo(s, in, live)
    PROVE  Att(IF dirty THEN NewJob(j.prio, j.chain) ELSE NoJob, s, in, live)
  <1>1. j.prio \in {"edit", "refresh"} /\ j.chain \in SUBSET Module
    BY DEF JobEntry
  <1> DEFINE n == NewJob(j.prio, j.chain)
  <1>2. n \in JobEntry /\ n.prio = j.prio /\ ~n.running
    BY <1>1 DEF NewJob, JobEntry
  <1>3. n # NoJob
    BY <1>2, RunnerValues
  <1> HIDE DEF n
  <1>4. dirty => Att(n, s, in, live)
    BY <1>1, <1>2, <1>3 DEF Att, Waiting, Fresh, Runs
  <1>5. ~dirty => Att(NoJob, s, in, live)
    BY DEF Att, Waiting, Fresh, Runs
  <1>6. QED
    BY <1>4, <1>5 DEF n

\* The pair of i and m, with the items, entries, rows and jobs given.
AttAt(i, m, it, c, rows, jobs) ==
    Att(jobs[i][m], rows[i][m], Inputs(m, it[i], c[m], rows[i]), Live(m, it[i], c[m], rows[i]))

OffUntouched(c, rows, jobs) ==
    ~MayDisable => \A i \in Item, m \in Module :
                       c[m] = Off => rows[i][m] = NoRes /\ jobs[i][m] = NoJob

\* No module that ran in the cascade a job belongs to reads what the job's module makes.
Chained(j, m) == j # NoJob => \A n \in j.chain : m \notin link.reads[n]

Chains == \A i \in Item \ crossed, m \in Module : Chained(job[i][m], m)

Attended ==
    \A i \in Item \ crossed, m \in Module :
        <<i, m>> \in missed \/ AttAt(i, m, item, cfg, res, job)

Idle == ValuesStay => OffUntouched(cfg, res, job) /\ Chains /\ Attended

\* Inputs stay when the values that are read do.
SameInputs(m, it, c, rs, rt) ==
    /\ Inputs(m, it, c, rs) = Inputs(m, it, c, rt)
    /\ Live(m, it, c, rs) = Live(m, it, c, rt)

LEMMA KeptInputs ==
    ASSUME RunnerTypeOK, NEW m \in Module, NEW it, NEW c, NEW rs, NEW rt,
           it \in {Gone, Blank} \/ \A n \in link.reads[m] : ValOf(rs[n]) = ValOf(rt[n])
    PROVE  SameInputs(m, it, c, rs, rt)
  <1>1. Inputs(m, it, c, rs) = Inputs(m, it, c, rt)
    <2>1. CASE it \in {Gone, Blank}
      BY <2>1 DEF Inputs
    <2>2. CASE \A n \in link.reads[m] : ValOf(rs[n]) = ValOf(rt[n])
      BY <2>2, InputsSame
    <2>3. QED
      BY <2>1, <2>2
  <1>2. QED
    BY <1>1 DEF Live, SameInputs

\* A module whose values are read has inputs unless the item has none for any.
LEMMA ReadHasInputs ==
    ASSUME RunnerTypeOK, ValuesStay, NEW m \in Module, NEW n \in Module, n \in link.reads[m],
           NEW it \in Text \union {Gone, Blank}, NEW c \in Config, NEW rs \in [Module -> MaybeRow],
           Inputs(n, it, c, rs) = NoInputs
    PROVE  it \in {Gone, Blank}
  <1>1. link.needs[n] = {}
    BY DEF ValuesStay
  <1>2. it \in {Gone, Blank} \/ \E k \in link.needs[n] : ValOf(rs[k]) = NoVal
    BY InputsTyped
  <1>3. QED
    BY <1>1, <1>2

\* Looking takes no value away that is read.
LEMMA LookingKeeps ==
    ASSUME RunnerTypeOK, ValuesStay, NEW S, NEW it \in [Item -> Text \union {Gone, Blank}],
           NEW c \in [Module -> Config \union {Off, Bad}], NEW rs \in Rows, NEW chain,
           NEW after, RowsLooked(S, it, c, rs, chain, after),
           NEW i \in Item, NEW m \in Module, NEW d
    PROVE  SameInputs(m, it[i], d, after[i], rs[i])
  <1>1. link.reads[m] \subseteq Module
    BY RunnerAssumption DEF RunnerTypeOK, Link
  <1>2. ASSUME it[i] \notin {Gone, Blank}, NEW n \in link.reads[m]
        PROVE  ValOf(after[i][n]) = ValOf(rs[i][n])
    <2> DEFINE t == it[i]
               cn == c[n]
               rsi == rs[i]
               e == Decide(n, t, cn, rsi, chain)
               s == Decided(e, rsi[n])
    <2>1. n \in Module /\ t \in Text \union {Gone, Blank} /\ cn \in Config \union {Off, Bad}
          /\ rsi \in [Module -> MaybeRow]
      BY <1>1 DEF Rows
    <2>2. after[i][n] = IF i \in S THEN s ELSE rsi[n]
      <3>1. after[i][n] = Decided(Decision(S, i, n, it, c, rs, chain), rs[i][n])
        BY <2>1 DEF RowsLooked
      <3>2. QED
        BY <3>1 DEF Decision, Decided
    <2> HIDE DEF s, e, t, cn, rsi
    <2>3. LookOutcome(n, t, cn, rsi, chain, e, s)
      BY <2>1, LookedRow DEF s, e
    <2>4. e # "remove"
      <3>1. e = "remove" => cn \in Config /\ Inputs(n, t, cn, rsi) = NoInputs
        BY <2>3 DEF LookOutcome
      <3>2. t \notin {Gone, Blank}
        BY <1>2 DEF t
      <3>3. QED
        BY <2>1, <3>1, <3>2, ReadHasInputs
    <2>5. ValOf(s) = ValOf(rsi[n])
      BY <2>3, <2>4 DEF LookOutcome
    <2>6. QED
      BY <2>2, <2>5 DEF rsi
  <1>3. it[i] \in {Gone, Blank} \/ \A n \in link.reads[m] : ValOf(after[i][n]) = ValOf(rs[i][n])
    BY <1>2
  <1> DEFINE t == it[i]
             a == after[i]
             b == rs[i]
  <1>4. t \in {Gone, Blank} \/ \A n \in link.reads[m] : ValOf(a[n]) = ValOf(b[n])
    BY <1>3
  <1> HIDE DEF t, a, b
  <1>5. SameInputs(m, t, d, a, b)
    BY <1>4, KeptInputs
  <1>6. QED
    BY <1>5 DEF t, a, b

\* An item that was looked at is attended to.
LEMMA LookIdle ==
    ASSUME Accounted, ValuesStay, NEW S, NEW it \in [Item -> Text \union {Gone, Blank}],
           NEW c \in [Module -> Config \union {Off, Bad}], NEW rs \in Rows, LookedAt(S, it, c, rs),
           NEW i \in Item, i \in S, NEW m \in Module, <<i, m>> \notin missed',
           NEW in0, NEW live0, <<i, m>> \in missed \/ Att(job[i][m], rs[i][m], in0, live0)
    PROVE  AttAt(i, m, it, c, res', job')
  <1> DEFINE t == it[i]
             cm == c[m]
             rsi == rs[i]
             j == job[i][m]
             d == Decide(m, t, cm, rsi, {})
             in == Inputs(m, t, cm, rsi)
             live == Live(m, t, cm, rsi)
  <1>1. /\ t \in Text \union {Gone, Blank} /\ cm \in Config \union {Off, Bad}
        /\ rsi \in [Module -> MaybeRow] /\ j \in MaybeJob /\ RunnerTypeOK
    BY TypedRows DEF Rows, Jobs, Accounted
  <1>2. /\ res'[i][m] = Decided(d, rsi[m])
        /\ job'[i][m] = IF d = "enqueue" THEN Enqueued(j, "edit", {}) ELSE j
        /\ <<i, m>> \in missed => d = "enqueue"
    BY DEF LookedAt, Decision
  <1>3. /\ Inputs(m, t, cm, res'[i]) = in
        /\ Live(m, t, cm, res'[i]) = live
    <2>1. RowsLooked(S, it, c, rs, {}, res')
      BY DEF LookedAt, RowsLooked
    <2>2. SameInputs(m, it[i], c[m], res'[i], rs[i])
      BY <1>1, <2>1, LookingKeeps
    <2>3. QED
      BY <2>2 DEF SameInputs
  <1>4. AttAt(i, m, it, c, res', job') <=> Att(job'[i][m], res'[i][m], in, live)
    BY <1>3 DEF AttAt
  <1>5. <<i, m>> \in missed \/ Att(j, rsi[m], in0, live0)
    OBVIOUS
  <1> HIDE DEF t, cm, rsi, j, d, in, live
  <1>6. CASE d = "enqueue"
    <2>1. {} \in SUBSET Module
      OBVIOUS
    <2>2. Att(Enqueued(j, "edit", {}), res'[i][m], in, live)
      BY <1>1, <2>1, EditAttended
    <2>3. QED
      BY <1>2, <1>4, <1>6, <2>2
  <1>7. CASE d # "enqueue"
    <2>1. Att(j, rsi[m], in0, live0)
      BY <1>2, <1>5, <1>7
    <2>2. m \notin {} /\ Decide(m, t, cm, rsi, {}) # "enqueue"
      BY <1>7 DEF d
    <2>3. Att(j, Decided(d, rsi[m]), in, live)
      BY <1>1, <2>1, <2>2, LookAttended DEF d, in, live
    <2>4. QED
      BY <1>2, <1>4, <1>7, <2>3
  <1>8. QED
    BY <1>6, <1>7

-----------------------------------------------------------------------------
(* Every step keeps Idle: first, who is attended to after it.              *)

Ready == Accounted /\ ValuesStay /\ OffUntouched(cfg, res, job) /\ Chains /\ Attended

LEMMA ReadyTypes ==
    ASSUME Ready
    PROVE  /\ Accounted /\ ValuesStay /\ RunnerTypeOK /\ JobsOK(job, queue)
           /\ res \in Rows /\ job \in Jobs
           /\ item \in [Item -> Text \union {Gone, Blank}]
           /\ cfg \in [Module -> Config \union {Off, Bad}]
           /\ \A i \in Item : res[i] \in [Module -> MaybeRow]
           /\ \A i \in Item, m \in Module : res[i][m] \in MaybeRow /\ job[i][m] \in MaybeJob
           /\ \A m \in Module : link.reads[m] \subseteq Module /\ m \notin link.reads[m]
  <1>1. Accounted /\ ValuesStay /\ RunnerTypeOK /\ JobsOK(job, queue)
    BY DEF Ready, Accounted
  <1>2. res \in Rows /\ job \in Jobs
    BY <1>1, TypedRows
  <1>3. \A i \in Item : res[i] \in [Module -> MaybeRow] /\ job[i] \in [Module -> MaybeJob]
    BY <1>2 DEF Rows, Jobs
  <1>4. \A m \in Module : link.reads[m] \subseteq Module /\ m \notin link.reads[m]
    BY <1>1, RunnerAssumption DEF RunnerTypeOK, Link
  <1>5. QED
    BY <1>1, <1>2, <1>3, <1>4 DEF RunnerTypeOK

LEMMA EditItemIdle ==
    ASSUME Ready, NEW x \in Item, NEW t \in Text \union {Blank}, EditItem(x, t),
           NEW i \in Item, i \notin crossed', NEW m \in Module, <<i, m>> \notin missed'
    PROVE  AttAt(i, m, item', cfg', res', job')
  <1> DEFINE it == item'
  <1>1. /\ it \in [Item -> Text \union {Gone, Blank}]
        /\ \A y \in Item : y # x => it[y] = item[y]
        /\ ItemsChanged({x}, it, cfg, res) /\ cfg' = cfg
    BY ReadyTypes DEF EditItem
  <1> HIDE DEF it
  <1>2. Accounted /\ res \in Rows /\ cfg \in [Module -> Config \union {Off, Bad}] /\ RunnerTypeOK
    BY ReadyTypes
  <1>3. LookedAt({x}, it, cfg, res) /\ crossed \subseteq crossed'
    BY <1>1, <1>2, LookStep
  <1> DEFINE in0 == Inputs(m, item[i], cfg[m], res[i])
             live0 == Live(m, item[i], cfg[m], res[i])
  <1>4. <<i, m>> \in missed \/ Att(job[i][m], res[i][m], in0, live0)
    BY <1>3 DEF Ready, Attended, AttAt
  <1> HIDE DEF in0, live0
  <1>5. CASE i = x
    <2>1. AttAt(i, m, it, cfg, res', job')
      BY <1>1, <1>2, <1>3, <1>4, <1>5, LookIdle DEF Ready
    <2>2. QED
      BY <1>1, <2>1 DEF it
  <1>6. CASE i # x
    <2>1. \A n \in Module : res'[i][n] = res[i][n]
      <3>1. \A n \in Module : Decided(Decision({x}, i, n, it, cfg, res, {}), res[i][n]) = res[i][n]
        BY <1>6, GoneSkipped
      <3>2. QED
        BY <1>3, <3>1 DEF LookedAt
    <2>2. /\ job'[i][m] = job[i][m]
          /\ <<i, m>> \notin missed
      <3>1. Decision({x}, i, m, it, cfg, res, {}) = "skip"
        BY <1>6 DEF Decision
      <3>2. QED
        BY <1>3, <3>1 DEF LookedAt
    <2> DEFINE y == item[i]
               d == cfg[m]
               a == res'[i]
               b == res[i]
    <2>3. \A n \in link.reads[m] : ValOf(a[n]) = ValOf(b[n])
      BY <2>1, ReadyTypes
    <2> HIDE DEF y, d, a, b
    <2>4. SameInputs(m, y, d, a, b)
      BY <1>2, <2>3, KeptInputs
    <2>5. AttAt(i, m, it, cfg, res', job')
      BY <1>1, <1>4, <1>6, <2>1, <2>2, <2>4 DEF SameInputs, AttAt, in0, live0, y, d, a, b
    <2>6. QED
      BY <1>1, <2>5 DEF it
  <1>7. QED
    BY <1>5, <1>6

LEMMA DeleteIdle ==
    ASSUME Ready, NEW x \in Item, DeleteItem(x),
           NEW i \in Item, i \notin crossed', NEW m \in Module, <<i, m>> \notin missed'
    PROVE  AttAt(i, m, item', cfg', res', job')
  <1>1. /\ item' = [item EXCEPT ![x] = Gone]
        /\ res' = [res EXCEPT ![x] = [n \in Module |-> NoRes]]
        /\ UNCHANGED <<cfg, job, missed, crossed>>
    BY DEF DeleteItem
  <1>2. AttAt(i, m, item, cfg, res, job)
    BY <1>1 DEF Ready, Attended
  <1>3. item \in [Item -> Text \union {Gone, Blank}] /\ res \in Rows
    BY ReadyTypes
  <1>4. CASE i = x
    <2>1. item'[i] = Gone /\ res'[i][m] = NoRes /\ job'[i][m] = job[i][m]
      BY <1>1, <1>3, <1>4 DEF Rows
    <2>2. Live(m, item'[i], cfg'[m], res'[i]) = FALSE
      BY <2>1 DEF Live
    <2>3. Att(job[i][m], NoRes, Inputs(m, item'[i], cfg'[m], res'[i]), FALSE)
      BY <1>2, DeadAttended DEF AttAt
    <2>4. QED
      BY <2>1, <2>2, <2>3 DEF AttAt
  <1>5. CASE i # x
    <2>1. item'[i] = item[i] /\ res'[i] = res[i] /\ cfg' = cfg /\ job' = job
      BY <1>1, <1>3, <1>5 DEF Rows
    <2>2. QED
      BY <1>2, <2>1 DEF AttAt
  <1>6. QED
    BY <1>4, <1>5

LEMMA EditBoardIdle ==
    ASSUME Ready, NEW n \in Module, NEW c \in Config \union {Off, Bad}, EditBoard(n, c),
           NEW i \in Item, i \notin crossed', NEW m \in Module, <<i, m>> \notin missed'
    PROVE  AttAt(i, m, item', cfg', res', job')
  <1> DEFINE left == [x \in Item |->
                IF c = Off /\ item[x] # Gone THEN [res[x] EXCEPT ![n] = NoRes] ELSE res[x]]
             S == IF c = Off THEN {} ELSE Item
             d == cfg'
             in0 == Inputs(m, item[i], cfg[m], res[i])
             live0 == Live(m, item[i], cfg[m], res[i])
  <1>1. /\ Accounted /\ RunnerTypeOK /\ ValuesStay /\ res \in Rows
        /\ item \in [Item -> Text \union {Gone, Blank}]
        /\ link.reads[m] \subseteq Module
    BY ReadyTypes
  <1>2. /\ d \in [Module -> Config \union {Off, Bad}]
        /\ d = [cfg EXCEPT ![n] = c]
        /\ ItemsChanged(S, item, d, left) /\ item' = item
        /\ c = Off => MayDisable
    BY ReadyTypes DEF EditBoard
  <1>3. /\ left \in Rows
        /\ left[i][m] = res[i][m] \/ (left[i][m] = NoRes /\ m = n)
        /\ c # Off => left[i][m] = res[i][m]
        /\ \A k \in Module : k # n => left[i][k] = res[i][k]
    BY <1>1 DEF Rows, MaybeRow
  <1> HIDE DEF left, d
  <1>4. LookedAt(S, item, d, left) /\ crossed \subseteq crossed'
    <2> HIDE DEF S
    <2>1. QED
      BY <1>1, <1>2, <1>3, LookStep
  <1>5. <<i, m>> \in missed \/ Att(job[i][m], res[i][m], in0, live0)
    BY <1>4 DEF Ready, Attended, AttAt
  <1> HIDE DEF in0, live0
  <1>6. CASE c # Off
    <2>1. i \in S /\ (<<i, m>> \in missed \/ Att(job[i][m], left[i][m], in0, live0))
      BY <1>3, <1>5, <1>6
    <2> HIDE DEF S
    <2>2. AttAt(i, m, item, d, res', job')
      BY <1>1, <1>2, <1>3, <1>4, <2>1, LookIdle
    <2>3. QED
      BY <1>2, <2>2 DEF d
  <1>7. CASE c = Off
    <2>1. S = {} /\ i \notin S
      BY <1>7
    <2> HIDE DEF S
    <2>2. /\ res'[i][m] = left[i][m] /\ job'[i][m] = job[i][m]
          /\ <<i, m>> \notin missed
          /\ \A k \in Module : res'[i][k] = left[i][k]
      <3>1. ASSUME NEW k \in Module
            PROVE  /\ Decision(S, i, k, item, d, left, {}) = "skip"
                   /\ Decided(Decision(S, i, k, item, d, left, {}), left[i][k]) = left[i][k]
        BY <2>1, GoneSkipped
      <3>2. \A k \in Module : res'[i][k] = left[i][k]
        BY <1>4, <3>1 DEF LookedAt
      <3>3. job'[i][m] = job[i][m] /\ <<i, m>> \notin missed
        BY <1>4, <3>1 DEF LookedAt
      <3>4. QED
        BY <3>2, <3>3
    <2>3. Att(job[i][m], res[i][m], in0, live0)
      BY <1>5, <2>2
    <2>4. CASE m = n
      <3>1. d[m] = Off
        BY <1>1, <1>2, <1>7, <2>4, ReadyTypes
      <3>2. Live(m, item[i], d[m], res'[i]) = FALSE
        BY <3>1, RunnerAssumption DEF Live
      <3>3. res'[i][m] = res[i][m] \/ res'[i][m] = NoRes
        BY <1>3, <2>2
      <3>4. Att(job[i][m], res'[i][m], Inputs(m, item[i], d[m], res'[i]), FALSE)
        BY <2>3, <3>3, DeadAttended
      <3>5. AttAt(i, m, item, d, res', job')
        BY <2>2, <3>2, <3>4 DEF AttAt
      <3>6. QED
        BY <1>2, <3>5 DEF d
    <2>5. CASE m # n
      <3>1. n \notin link.reads[m]
        BY <1>1, <1>2, <1>7 DEF ValuesStay
      <3> DEFINE y == item[i]
                 e == cfg[m]
                 a == res'[i]
                 b == res[i]
      <3>2. \A k \in link.reads[m] : ValOf(a[k]) = ValOf(b[k])
        <4>1. ASSUME NEW k \in link.reads[m] PROVE ValOf(a[k]) = ValOf(b[k])
          <5>1. k \in Module /\ k # n
            BY <1>1, <3>1
          <5>2. res'[i][k] = res[i][k]
            BY <1>3, <2>2, <5>1
          <5>3. QED
            BY <5>2
        <4>2. QED
          BY <4>1
      <3>3. d[m] = e
        BY <1>2, <2>5, ReadyTypes
      <3> HIDE DEF y, e, a, b
      <3>4. SameInputs(m, y, e, a, b)
        BY <1>1, <3>2, KeptInputs
      <3>5. res'[i][m] = res[i][m]
        BY <1>3, <2>2, <2>5
      <3>6. AttAt(i, m, item, d, res', job')
        BY <2>2, <2>3, <3>3, <3>4, <3>5 DEF SameInputs, AttAt, in0, live0, y, e, a, b
      <3>7. QED
        BY <1>2, <3>6 DEF d
    <2>6. QED
      BY <2>4, <2>5
  <1>8. QED
    BY <1>6, <1>7

LEMMA TickIdle ==
    ASSUME Ready, RunnerTick, NEW i \in Item, i \notin crossed', NEW m \in Module, <<i, m>> \notin missed'
    PROVE  AttAt(i, m, item', cfg', res', job')
  <1> DEFINE in == Inputs(m, item[i], cfg[m], res[i])
             live == Live(m, item[i], cfg[m], res[i])
  <1>1. /\ item' = item /\ cfg' = cfg /\ res' = res
        /\ missed \subseteq missed' /\ crossed \subseteq crossed'
        /\ job'[i][m] = IF Due(res[i][m]) THEN Enqueued(job[i][m], "refresh", {}) ELSE job[i][m]
    BY ReadyTypes, TickStep
  <1>2. Att(job[i][m], res[i][m], in, live)
    BY <1>1 DEF Ready, Attended, AttAt
  <1>3. job[i][m] \in MaybeJob /\ {} \in SUBSET Module
    BY ReadyTypes
  <1> HIDE DEF in, live
  <1>4. Att(Enqueued(job[i][m], "refresh", {}), res[i][m], in, live)
    BY <1>2, <1>3, RefreshAttended
  <1>5. Att(job'[i][m], res[i][m], in, live)
    BY <1>1, <1>2, <1>4
  <1>6. QED
    BY <1>1, <1>5 DEF AttAt, in, live

\* Rows that are pending or not do not change what is attended to.
LEMMA PendingAttended ==
    ASSUME NEW j, NEW r, NEW s, SamePending(s, r), NEW in, NEW live, Att(j, r, in, live)
    PROVE  Att(j, s, in, live)
  <1>1. CASE r = NoRes
    BY <1>1 DEF SamePending
  <1>2. CASE r # NoRes
    <2>1. /\ s # NoRes /\ s.status = r.status /\ s.inputs = r.inputs
          /\ s.attempt = "none" <=> r.attempt = "none"
      BY <1>2 DEF SamePending
    <2>2. UpTo(s, in, live) <=> UpTo(r, in, live)
      BY <1>2, <2>1 DEF UpTo
    <2>3. Unprocessed(s) <=> Unprocessed(r)
      BY <1>2, <2>1 DEF Unprocessed
    <2>4. QED
      BY <1>2, <2>1, <2>2, <2>3 DEF Att
  <1>3. QED
    BY <1>1, <1>2

LEMMA TimeIdle ==
    ASSUME Ready, \A x \in Item, n \in Module : SamePending(res'[x][n], res[x][n]),
           UNCHANGED <<item, cfg, job, missed, crossed>>,
           NEW i \in Item, i \notin crossed', NEW m \in Module, <<i, m>> \notin missed'
    PROVE  AttAt(i, m, item', cfg', res', job')
  <1> DEFINE y == item[i]
             d == cfg[m]
             a == res'[i]
             b == res[i]
  <1>1. RunnerTypeOK /\ link.reads[m] \subseteq Module
    BY ReadyTypes
  <1>2. \A n \in Module : ValOf(a[n]) = ValOf(b[n])
    BY DEF SamePending, ValOf
  <1>3. AttAt(i, m, item, cfg, res, job)
    BY DEF Ready, Attended
  <1> HIDE DEF y, d, a, b
  <1>4. SameInputs(m, y, d, a, b)
    BY <1>1, <1>2, KeptInputs
  <1> DEFINE in == Inputs(m, y, d, b)
             live == Live(m, y, d, b)
  <1>5. Att(job[i][m], b[m], in, live)
    BY <1>3 DEF AttAt, y, d, b
  <1>6. SamePending(a[m], b[m])
    BY DEF a, b
  <1> HIDE DEF in, live
  <1>7. Att(job[i][m], a[m], in, live)
    BY <1>5, <1>6, PendingAttended
  <1>8. QED
    BY <1>4, <1>7 DEF AttAt, SameInputs, in, live, y, d, a

LEMMA RestartIdle ==
    ASSUME Ready, Restart, NEW i \in Item, i \notin crossed', NEW m \in Module, <<i, m>> \notin missed'
    PROVE  AttAt(i, m, item', cfg', res', job')
  <1> DEFINE in == Inputs(m, item[i], cfg[m], res[i])
             live == Live(m, item[i], cfg[m], res[i])
             r == res[i][m]
             j == job[i][m]
  <1>1. UNCHANGED <<item, cfg, res, crossed>>
    BY DEF Restart
  <1>2. /\ job'[i][m] = RestartedJob(r)
        /\ Waits(i, m) \/ <<i, m>> \in missed => Stalled(r)
    BY ReadyTypes, RestartStep
  <1>3. Att(job'[i][m], r, in, live)
    <2>1. j \in MaybeJob /\ r \in MaybeRow /\ {} \in SUBSET Module
      BY ReadyTypes
    <2> HIDE DEF in, live
    <2>2. CASE Stalled(r)
      <3>1. job'[i][m] = NewJob("edit", {})
        BY <1>2, <2>2 DEF RestartedJob
      <3> HIDE DEF r, j
      <3>2. QED
        BY <2>1, <3>1, EditAttended
    <2>3. CASE ~Stalled(r)
      <3>1. Att(j, r, in, live)
        BY <1>1, <1>2, <2>3 DEF Ready, Attended, AttAt, in, live
      <3>2. ~Waiting(j)
        BY <1>2, <2>3 DEF Waits, Waiting, Job
      <3>3. job'[i][m] = NewJob("refresh", {}) \/ job'[i][m] = NoJob
        BY <1>2, <2>3 DEF RestartedJob
      <3> HIDE DEF r, j
      <3>4. UpTo(r, in, live)
        BY <2>3, <3>1, <3>2 DEF Att, Stalled, UpTo, Unprocessed
      <3>5. QED
        BY <2>1, <3>1, <3>3, <3>4, RefreshAttended
    <2>4. QED
      BY <2>2, <2>3
  <1>4. QED
    BY <1>1, <1>3 DEF AttAt, in, live, r

\* What a job that starts leaves behind for its own module.
LEMMA StartAttended ==
    ASSUME NEW j \in JobEntry, j # NoJob, ~j.running, NEW r \in MaybeRow, NEW in \in ItemInputs, NEW c \in Config,
           Att(j, r, in, TRUE),
           NEW k, k = [j EXCEPT !.running = TRUE, !.inputs = in, !.cfg = c],
           NEW s, s = IF j.prio = "edit" THEN [OrBlank(r) EXCEPT !.status = "unprocessed"] ELSE r
    PROVE  Att(k, s, in, TRUE)
  <1>1. /\ k \in JobEntry /\ k.running = TRUE /\ k.inputs = in /\ k.prio = j.prio
        /\ j.prio \in {"edit", "refresh"}
    BY DEF JobEntry
  <1>2. k # NoJob /\ Runs(k)
    BY <1>1, RunnerValues DEF Runs
  <1>3. CASE j.prio = "edit"
    <2> DEFINE b == OrBlank(r)
    <2>1. s = [b EXCEPT !.status = "unprocessed"] /\ b \in Row
      BY <1>3, WrittenRows
    <2> HIDE DEF b
    <2>2. s \in Row /\ s.status = "unprocessed"
      BY <2>1 DEF Row
    <2>3. Unprocessed(s)
      BY <2>2, RunnerValues DEF Unprocessed
    <2>4. QED
      BY <1>1, <1>2, <1>3, <2>3 DEF Att
  <1>4. CASE j.prio = "refresh"
    <2>1. s = r /\ UpTo(r, in, TRUE)
      BY <1>4 DEF Att
    <2>2. r # NoRes => Unprocessed(r) \/ r.inputs = in
      BY <2>1 DEF UpTo, Unprocessed
    <2>3. QED
      BY <1>1, <1>2, <2>1, <2>2 DEF Att
  <1>5. QED
    BY <1>1, <1>3, <1>4

LEMMA StartIdle ==
    ASSUME Ready, NEW n \in Module, StartJob(n),
           NEW i \in Item, i \notin crossed', NEW m \in Module, <<i, m>> \notin missed'
    PROVE  AttAt(i, m, item', cfg', res', job')
  <1>1. UNCHANGED <<item, cfg, missed, crossed>>
    BY DEF StartJob
  <1>2. AttAt(i, m, item, cfg, res, job)
    BY <1>1 DEF Ready, Attended
  <1>3. PICK x \in Item : /\ job[x][n] \in JobEntry /\ job[x][n] # NoJob /\ ~job[x][n].running
                          /\ SameElsewhere(job', job, x, n)
                          /\ StartOutcome(x, n)
    BY ReadyTypes, StartStep
  <1> DEFINE in == Inputs(m, item[i], cfg[m], res[i])
             live == Live(m, item[i], cfg[m], res[i])
             r == res[i][m]
             j == job[i][m]
  <1>4. Att(j, r, in, live)
    BY <1>2 DEF AttAt
  <1>5. /\ RunnerTypeOK /\ ValuesStay /\ res[x] \in [Module -> MaybeRow]
        /\ item[x] \in Text \union {Gone, Blank} /\ cfg[n] \in Config \union {Off, Bad}
        /\ res[x][n] \in MaybeRow /\ r \in MaybeRow
        /\ link.reads[m] \subseteq Module /\ m \notin link.reads[m]
    BY ReadyTypes
  <1>6. CASE item[x] = Gone
    <2>1. /\ job'[x][n] = NoJob
          /\ \A k \in Module : res'[x][k] = NoRes
          /\ \A y \in Item \ {x}, k \in Module : res'[y][k] = res[y][k]
      BY <1>3, <1>6 DEF StartOutcome
    <2>2. CASE i = x
      <3>1. Live(m, item[i], cfg[m], res'[i]) = FALSE
        BY <1>6, <2>2 DEF Live
      <3>2. Att(j, res'[i][m], Inputs(m, item[i], cfg[m], res'[i]), FALSE)
        <4> DEFINE s == res'[i][m]
                   now == Inputs(m, item[i], cfg[m], res'[i])
        <4>1. s = NoRes
          BY <2>1, <2>2
        <4> HIDE DEF s, now, j, r, in, live
        <4>2. Att(j, s, now, FALSE)
          BY <1>4, <4>1, DeadAttended
        <4>3. QED
          BY <4>2 DEF s, now
      <3>3. CASE m = n
        BY <1>1, <2>1, <2>2, <3>1, <3>3 DEF AttAt, Att, UpTo, Fresh, Runs
      <3>4. CASE m # n
        BY <1>1, <1>3, <2>2, <3>1, <3>2, <3>4 DEF AttAt, SameElsewhere
      <3>5. QED
        BY <3>3, <3>4
    <2>3. CASE i # x
      <3> DEFINE y == item[i]
                 e == cfg[m]
                 a == res'[i]
                 b == res[i]
      <3>1. \A k \in link.reads[m] : ValOf(a[k]) = ValOf(b[k])
        BY <1>5, <2>1, <2>3
      <3>2. res'[i][m] = r /\ job'[i][m] = j
        BY <1>3, <2>1, <2>3 DEF SameElsewhere
      <3> HIDE DEF y, e, a, b, r, j
      <3>3. SameInputs(m, y, e, a, b)
        BY <1>5, <3>1, KeptInputs
      <3>4. QED
        BY <1>1, <1>4, <3>2, <3>3 DEF SameInputs, AttAt, y, e, a, b
    <2>4. QED
      BY <2>2, <2>3
  <1>7. CASE item[x] # Gone
    <2> DEFINE in1 == Inputs(n, item[x], cfg[n], res[x])
    <2>1. /\ SameElsewhere(res', res, x, n)
          /\ \/ /\ cfg[n] = Off \/ (cfg[n] \in Config /\ in1 = NoInputs)
                /\ job'[x][n] = NoJob /\ res'[x][n] = NoRes
             \/ /\ cfg[n] = Bad
                /\ job'[x][n] = NoJob /\ res'[x][n] = ConfigErrorRow(res[x][n])
             \/ /\ cfg[n] \in Config /\ in1 \in ItemInputs
                /\ job'[x][n] = NoJob /\ res'[x][n] = QuotaRow(res[x][n], in1)
             \/ /\ cfg[n] \in Config /\ in1 \in ItemInputs
                /\ job'[x][n] = [job[x][n] EXCEPT !.running = TRUE, !.inputs = in1, !.cfg = cfg[n]]
                /\ res'[x][n] = IF job[x][n].prio = "edit"
                                THEN [OrBlank(res[x][n]) EXCEPT !.status = "unprocessed"] ELSE res[x][n]
      BY <1>3, <1>7, Zenon DEF StartOutcome
    <2>2. (n \in link.reads[m] /\ item[x] \notin {Gone, Blank}) => ValOf(res'[x][n]) = ValOf(res[x][n])
      <3> SUFFICES ASSUME n \in link.reads[m], item[x] \notin {Gone, Blank}
                   PROVE  ValOf(res'[x][n]) = ValOf(res[x][n])
        OBVIOUS
      <3>1. cfg[n] # Off
        BY <1>3 DEF Ready, ValuesStay, OffUntouched
      <3>2. cfg[n] \in Config => in1 # NoInputs
        BY <1>5, ReadHasInputs
      <3>3. /\ ConfigErrorRow(res[x][n]) \in Row /\ ConfigErrorRow(res[x][n]).vals = ValOf(res[x][n])
            /\ OrBlank(res[x][n]) \in Row /\ OrBlank(res[x][n]).vals = ValOf(res[x][n])
        BY <1>5, WrittenRows
      <3>4. in1 \in ItemInputs => QuotaRow(res[x][n], in1) \in Row /\ QuotaRow(res[x][n], in1).vals = ValOf(res[x][n])
        BY <1>5, AnswerRows
      <3> DEFINE b == OrBlank(res[x][n])
                 s == [b EXCEPT !.status = "unprocessed"]
      <3>5. s \in Row /\ s.vals = ValOf(res[x][n])
        <4>1. b \in Row /\ b.vals = ValOf(res[x][n])
          BY <3>3
        <4> HIDE DEF b
        <4>2. QED
          BY <4>1 DEF Row
      <3>6. \/ res'[x][n] = ConfigErrorRow(res[x][n])
            \/ in1 \in ItemInputs /\ res'[x][n] = QuotaRow(res[x][n], in1)
            \/ res'[x][n] = s
            \/ res'[x][n] = res[x][n]
        BY <2>1, <3>1, <3>2
      <3> HIDE DEF in1, s
      <3>7. QED
        BY <3>3, <3>4, <3>5, <3>6, RunnerValues DEF ValOf
    <2>3. SameInputs(m, item[i], cfg[m], res'[i], res[i])
      <3> DEFINE y == item[i]
                 e == cfg[m]
                 a == res'[i]
                 b == res[i]
      <3>1. y \in {Gone, Blank} \/ \A k \in link.reads[m] : ValOf(a[k]) = ValOf(b[k])
        <4> SUFFICES ASSUME y \notin {Gone, Blank}, NEW k \in link.reads[m] PROVE ValOf(a[k]) = ValOf(b[k])
          OBVIOUS
        <4>1. k \in Module
          BY <1>5
        <4>2. CASE i = x /\ k = n
          BY <2>2, <4>2
        <4>3. CASE i # x \/ k # n
          BY <2>1, <4>1, <4>3 DEF SameElsewhere
        <4>4. QED
          BY <4>2, <4>3
      <3> HIDE DEF y, e, a, b
      <3>2. SameInputs(m, y, e, a, b)
        BY <1>5, <3>1, KeptInputs
      <3>3. QED
        BY <3>2 DEF y, e, a, b
    <2>4. AttAt(i, m, item', cfg', res', job') <=> Att(job'[i][m], res'[i][m], in, live)
      BY <1>1, <2>3 DEF AttAt, SameInputs
    <2>5. CASE i # x \/ m # n
      <3>1. res'[i][m] = r /\ job'[i][m] = j
        BY <1>3, <2>1, <2>5 DEF SameElsewhere
      <3>2. QED
        BY <1>4, <2>4, <3>1
    <2>6. CASE i = x /\ m = n
      <3>1. in1 = in /\ (live <=> item[i] # Gone /\ cfg[m] \in Config /\ in # NoInputs)
        BY <2>6 DEF Live
      <3>2. \A s : Att(NoJob, s, in, live) <=> UpTo(s, in, live)
        BY DEF Att, Fresh, Runs, Waiting
      <3>3. live = TRUE \/ live = FALSE
        BY DEF Live
      <3> HIDE DEF in, live, in1
      <3>4. CASE ~live /\ job'[i][m] = NoJob
        BY <2>4, <3>2, <3>4 DEF UpTo
      <3>5. CASE /\ in \in ItemInputs
                 /\ job'[x][n] = NoJob /\ res'[x][n] = QuotaRow(res[x][n], in1)
        <4> DEFINE s == res'[i][m]
        <4>1. s \in Row /\ s.status = "unprocessed" /\ s.attempt = "midnight"
          BY <1>5, <2>6, <3>1, <3>5, AnswerRows
        <4> HIDE DEF s
        <4>2. UpTo(s, in, live)
          BY <4>1, RunnerValues DEF UpTo
        <4>3. QED
          BY <2>4, <2>6, <3>2, <3>5, <4>2 DEF s
      <3>6. CASE /\ cfg[n] \in Config /\ in1 \in ItemInputs
                 /\ job'[x][n] = [job[x][n] EXCEPT !.running = TRUE, !.inputs = in1, !.cfg = cfg[n]]
                 /\ res'[x][n] = IF job[x][n].prio = "edit"
                                 THEN [OrBlank(res[x][n]) EXCEPT !.status = "unprocessed"] ELSE res[x][n]
        <4> DEFINE k == job'[i][m]
                   s == res'[i][m]
                   cm == cfg[m]
        <4>1. /\ live = TRUE /\ in \in ItemInputs /\ cm \in Config
              /\ k = [j EXCEPT !.running = TRUE, !.inputs = in, !.cfg = cm]
              /\ s = IF j.prio = "edit" THEN [OrBlank(r) EXCEPT !.status = "unprocessed"] ELSE r
              /\ j \in JobEntry /\ j # NoJob /\ ~j.running
          BY <1>3, <1>7, <2>6, <3>1, <3>3, <3>6, RunnerValues
        <4> HIDE DEF k, s, cm, j, r
        <4>2. Att(k, s, in, TRUE)
          BY <1>4, <1>5, <4>1, StartAttended
        <4>3. QED
          BY <2>4, <4>1, <4>2 DEF k, s
      <3>7. QED
        BY <2>1, <2>6, <3>1, <3>4, <3>5, <3>6, RunnerAssumption
    <2>7. QED
      BY <2>5, <2>6
  <1>8. QED
    BY <1>6, <1>7

\* The job of n for x is over, and its row is s.
LEMMA EndIdle ==
    ASSUME Ready, NEW x \in Item, NEW n \in Module, Runs(job[x][n]), x \notin crossed',
           NEW dirty \in BOOLEAN, NEW D, <<x, n>> \notin D, NEW chain, Ended(x, n, dirty, D, chain),
           <<x, n>> \notin missed', NEW s, NEW in, NEW live,
           /\ dirty /\ job[x][n].prio = "edit"
           \/ /\ <<x, n>> \notin missed
              /\ dirty /\ job[x][n].prio = "refresh" => UpTo(s, in, live)
              /\ ~dirty => UpTo(s, in, live)
           \/ <<x, n>> \in missed
    PROVE  Att(job'[x][n], s, in, live)
  <1> DEFINE j == job[x][n]
             k == job'[x][n]
  <1>1. /\ k = IF dirty THEN NewJob(j.prio, j.chain) ELSE NoJob
        /\ <<x, n>> \in missed => dirty /\ j.prio = "edit"
    BY DEF Ended
  <1>2. j \in JobEntry /\ j # NoJob /\ j \in MaybeJob
    BY ReadyTypes DEF Runs, MaybeJob
  <1>3. j.prio \in {"edit", "refresh"} /\ j.chain \in SUBSET Module
    BY <1>2 DEF JobEntry
  <1> HIDE DEF k
  <1>4. CASE dirty /\ j.prio = "edit"
    <2>1. k = NewJob("edit", j.chain)
      BY <1>1, <1>4
    <2>2. QED
      BY <1>2, <1>3, <2>1, EditAttended DEF k
  <1>5. CASE ~(dirty /\ j.prio = "edit")
    <2>1. /\ dirty /\ j.prio = "refresh" => UpTo(s, in, live)
          /\ ~dirty => UpTo(s, in, live)
      BY <1>1, <1>5
    <2> HIDE DEF j
    <2>2. Att(IF dirty THEN NewJob(j.prio, j.chain) ELSE NoJob, s, in, live)
      BY <1>2, <2>1, EndAttended
    <2>3. QED
      BY <1>1, <2>2 DEF k
  <1>6. QED
    BY <1>4, <1>5

\* The inputs a job that will not run again runs on are those of now.
LEMMA FreshInputs ==
    ASSUME Ready, NEW x \in Item, x \notin crossed, NEW n \in Module, <<x, n>> \notin missed,
           Fresh(job[x][n])
    PROVE  /\ Live(n, item[x], cfg[n], res[x]) => Inputs(n, item[x], cfg[n], res[x]) = job[x][n].inputs
           /\ Inputs(n, item[x], job[x][n].cfg, res[x]) = NoInputs => ~Live(n, item[x], cfg[n], res[x])
           /\ job[x][n].prio = "refresh" =>
                UpTo(res[x][n], Inputs(n, item[x], cfg[n], res[x]), Live(n, item[x], cfg[n], res[x]))
  <1>1. AttAt(x, n, item, cfg, res, job)
    BY DEF Ready, Attended
  <1>2. job[x][n] # NoJob /\ job[x][n].cfg \in Config
    BY ReadyTypes DEF JobsOK, Fresh, Runs
  <1> DEFINE t == item[x]
             rs == res[x]
             d == job[x][n].cfg
             e == cfg[n]
  <1>3. t \in Text \union {Gone, Blank} /\ rs \in [Module -> MaybeRow] /\ d \in Config
    BY <1>2, ReadyTypes
  <1>4. Live(n, t, e, rs) => e \in Config /\ Inputs(n, t, e, rs) # NoInputs
    BY DEF Live
  <1>5. Inputs(n, t, d, rs) = NoInputs => ~Live(n, t, e, rs)
    <2> HIDE DEF t, rs, d, e
    <2> SUFFICES ASSUME Inputs(n, t, d, rs) = NoInputs, e \in Config PROVE Inputs(n, t, e, rs) = NoInputs
      BY <1>4
    <2>1. t \in {Gone, Blank} \/ \E k \in link.needs[n] : ValOf(rs[k]) = NoVal
      BY <1>3, InputsTyped
    <2>2. QED
      BY <2>1 DEF Inputs
  <1>6. QED
    BY <1>1, <1>2, <1>5 DEF AttAt, Att

LEMMA StaleIdle ==
    ASSUME Ready, NEW x \in Item, NEW n \in Module, Runs(job[x][n]),
           res' = res, UNCHANGED <<item, cfg>>,
           NEW in, in = Inputs(n, item[x], job[x][n].cfg, res[x]),
           NEW dirty \in BOOLEAN, dirty <=> job[x][n].dirty \/ in # NoInputs,
           Ended(x, n, dirty, {}, {}),
           NEW i \in Item, i \notin crossed', NEW m \in Module, <<i, m>> \notin missed'
    PROVE  AttAt(i, m, item', cfg', res', job')
  <1>1. i \notin crossed
    BY DEF Ended
  <1>2. CASE i # x \/ m # n
    <2>1. job'[i][m] = job[i][m] /\ <<i, m>> \notin missed
      BY <1>2 DEF Ended
    <2>2. AttAt(i, m, item, cfg, res, job)
      BY <1>1, <2>1 DEF Ready, Attended
    <2>3. QED
      BY <2>1, <2>2 DEF AttAt
  <1>3. CASE i = x /\ m = n
    <2> DEFINE now == Inputs(n, item[x], cfg[n], res[x])
               live == Live(n, item[x], cfg[n], res[x])
               j == job[x][n]
    <2>1. j \in JobEntry /\ j.prio \in {"edit", "refresh"}
      BY ReadyTypes DEF Runs, MaybeJob, JobEntry
    <2>2. ASSUME <<x, n>> \notin missed, ~(dirty /\ j.prio = "edit")
          PROVE  UpTo(res[x][n], now, live)
      <3>1. Fresh(j)
        BY <2>1, <2>2 DEF Fresh
      <3>2. /\ in = NoInputs => ~live
            /\ j.prio = "refresh" => UpTo(res[x][n], now, live)
        BY <1>1, <1>3, <2>2, <3>1, FreshInputs
      <3>3. CASE j.prio = "refresh"
        BY <3>2, <3>3
      <3>4. CASE j.prio = "edit"
        BY <2>2, <3>2, <3>4 DEF UpTo
      <3>5. QED
        BY <2>1, <3>3, <3>4
    <2>3. <<x, n>> \notin {} /\ x \notin crossed' /\ <<x, n>> \notin missed'
      BY <1>3
    <2> DEFINE s == res[x][n]
               D == {}
    <2>4. /\ dirty /\ j.prio = "edit"
          \/ /\ <<x, n>> \notin missed
             /\ dirty /\ j.prio = "refresh" => UpTo(s, now, live)
             /\ ~dirty => UpTo(s, now, live)
          \/ <<x, n>> \in missed
      BY <2>1, <2>2
    <2>5. Ended(x, n, dirty, D, {}) /\ <<x, n>> \notin D
      OBVIOUS
    <2> HIDE DEF now, live, s, D
    <2>6. Att(job'[x][n], s, now, live)
      BY <2>3, <2>4, <2>5, EndIdle
    <2>7. QED
      BY <1>3, <2>6 DEF AttAt, now, live, s
  <1>4. QED
    BY <1>2, <1>3

LEMMA FailedIdle ==
    ASSUME Ready, NEW x \in Item, NEW n \in Module, Runs(job[x][n]), UNCHANGED <<item, cfg>>,
           SameElsewhere(res', res, x, n),
           res'[x][n] \in {FailedRow(res[x][n], job[x][n].inputs), QuotaRow(res[x][n], job[x][n].inputs)},
           Ended(x, n, job[x][n].dirty, {}, {}),
           NEW i \in Item, i \notin crossed', NEW m \in Module, <<i, m>> \notin missed'
    PROVE  AttAt(i, m, item', cfg', res', job')
  <1> DEFINE j == job[x][n]
             s == res'[x][n]
             r == res[x][n]
             q == j.inputs
  <1>1. i \notin crossed
    BY DEF Ended
  <1>2. /\ RunnerTypeOK /\ link.reads[m] \subseteq Module
        /\ j \in JobEntry /\ j.prio \in {"edit", "refresh"} /\ j.dirty \in BOOLEAN
        /\ q \in ItemInputs /\ r \in MaybeRow
    BY ReadyTypes DEF Runs, MaybeJob, JobEntry, JobsOK
  <1>3. /\ s \in Row /\ s.vals = ValOf(r)
        /\ \/ s.status = "unprocessed" /\ s.attempt = "midnight"
           \/ s.status = "error" /\ s.inputs = q
    <2>1. s \in {FailedRow(r, q), QuotaRow(r, q)}
      OBVIOUS
    <2> HIDE DEF s, r, q
    <2>2. QED
      BY <1>2, <2>1, AnswerRows
  <1> HIDE DEF s
  <1>4. s # NoRes /\ ValOf(s) = ValOf(r)
    BY <1>3, RunnerValues DEF ValOf
  <1>5. SameInputs(m, item[i], cfg[m], res'[i], res[i])
    <2> DEFINE y == item[i]
               e == cfg[m]
               a == res'[i]
               b == res[i]
    <2>1. ASSUME NEW k \in link.reads[m] PROVE ValOf(a[k]) = ValOf(b[k])
      <3>1. k \in Module
        BY <1>2
      <3>2. CASE i = x /\ k = n
        BY <1>4, <3>2 DEF s
      <3>3. CASE i # x \/ k # n
        BY <3>1, <3>3 DEF SameElsewhere
      <3>4. QED
        BY <3>2, <3>3
    <2> HIDE DEF y, e, a, b
    <2>2. SameInputs(m, y, e, a, b)
      BY <1>2, <2>1, KeptInputs
    <2>3. QED
      BY <2>2 DEF y, e, a, b
  <1> DEFINE now == Inputs(m, item[i], cfg[m], res[i])
             live == Live(m, item[i], cfg[m], res[i])
  <1>6. AttAt(i, m, item', cfg', res', job') <=> Att(job'[i][m], res'[i][m], now, live)
    BY <1>5 DEF AttAt, SameInputs
  <1>7. CASE i # x \/ m # n
    <2>1. job'[i][m] = job[i][m] /\ <<i, m>> \notin missed /\ res'[i][m] = res[i][m]
      BY <1>7 DEF Ended, SameElsewhere
    <2>2. AttAt(i, m, item, cfg, res, job)
      BY <1>1, <2>1 DEF Ready, Attended
    <2>3. QED
      BY <1>6, <2>1, <2>2 DEF AttAt
  <1>8. CASE i = x /\ m = n
    <2> DEFINE dirty == j.dirty
               D == {}
    <2>1. ASSUME <<x, n>> \notin missed, ~(dirty /\ j.prio = "edit")
          PROVE  UpTo(s, now, live)
      <3>1. Fresh(j)
        BY <1>2, <2>1 DEF Fresh
      <3>2. live => now = q
        BY <1>1, <1>8, <2>1, <3>1, FreshInputs
      <3>3. QED
        BY <1>3, <1>4, <3>2 DEF UpTo
    <2>2. x \notin crossed' /\ <<x, n>> \notin missed'
      BY <1>8
    <2>3. /\ dirty /\ j.prio = "edit"
          \/ /\ <<x, n>> \notin missed
             /\ dirty /\ j.prio = "refresh" => UpTo(s, now, live)
             /\ ~dirty => UpTo(s, now, live)
          \/ <<x, n>> \in missed
      BY <1>2, <2>1
    <2>4. Ended(x, n, dirty, D, {}) /\ <<x, n>> \notin D /\ dirty \in BOOLEAN
      BY <1>2
    <2> HIDE DEF now, live, D, dirty
    <2>5. Att(job'[x][n], s, now, live)
      BY <2>2, <2>3, <2>4, EndIdle
    <2>6. QED
      BY <1>6, <1>8, <2>5 DEF s
  <1>9. QED
    BY <1>7, <1>8

Stores(x, n, v, t, rs, chain, looking, D) ==
    /\ rs[x][n] = StoredRow(v, job[x][n].inputs, t)
    /\ SameElsewhere(rs, res, x, n)
    /\ chain = job[x][n].chain \union {n}
    /\ looking = IF ValOf(res[x][n]) = v THEN {} ELSE {x}
    /\ RowsLooked(looking, item, cfg, rs, chain, res')
    /\ D = {p \in Item \X Module : Decision(looking, p[1], p[2], item, cfg, rs, chain) = "enqueue"}
    /\ Ended(x, n, job[x][n].dirty, D, chain)

LEMMA StoredIdle ==
    ASSUME Ready, NEW x \in Item, NEW n \in Module, Runs(job[x][n]), UNCHANGED <<item, cfg>>,
           NEW v \in Val, NEW t \in {"none", "later"}, NEW rs \in Rows,
           NEW chain, NEW looking, NEW D, Stores(x, n, v, t, rs, chain, looking, D),
           NEW i \in Item, i \notin crossed', NEW m \in Module, <<i, m>> \notin missed'
    PROVE  AttAt(i, m, item', cfg', res', job')
  <1> /\ rs[x][n] = StoredRow(v, job[x][n].inputs, t)
      /\ SameElsewhere(rs, res, x, n)
      /\ chain = job[x][n].chain \union {n}
      /\ looking = IF ValOf(res[x][n]) = v THEN {} ELSE {x}
      /\ RowsLooked(looking, item, cfg, rs, chain, res')
      /\ D = {p \in Item \X Module : Decision(looking, p[1], p[2], item, cfg, rs, chain) = "enqueue"}
      /\ Ended(x, n, job[x][n].dirty, D, chain)
    BY DEF Stores
  <1> DEFINE j == job[x][n]
             s == rs[x][n]
             q == j.inputs
             now == Inputs(m, item[i], cfg[m], res[i])
             live == Live(m, item[i], cfg[m], res[i])
  <1>1. i \notin crossed
    BY DEF Ended
  <1>2. /\ RunnerTypeOK /\ ValuesStay /\ link.reads[m] \subseteq Module /\ m \notin link.reads[m]
        /\ item \in [Item -> Text \union {Gone, Blank}] /\ cfg \in [Module -> Config \union {Off, Bad}]
        /\ item[i] \in Text \union {Gone, Blank} /\ cfg[m] \in Config \union {Off, Bad}
        /\ rs[i] \in [Module -> MaybeRow] /\ job[i][m] \in MaybeJob
        /\ j \in JobEntry /\ j.prio \in {"edit", "refresh"} /\ j.dirty \in BOOLEAN
        /\ chain \in SUBSET Module
        /\ q \in ItemInputs
    BY ReadyTypes DEF Runs, MaybeJob, JobEntry, JobsOK, Rows
  <1>3. s \in Row /\ s.status = "complete" /\ s.inputs = q /\ s # NoRes /\ ValOf(s) = v
    <2>1. StoredRow(v, q, t) \in Row
      BY <1>2, AnswerRows DEF MaybeRow
    <2>2. /\ StoredRow(v, q, t).status = "complete" /\ StoredRow(v, q, t).inputs = q
          /\ StoredRow(v, q, t).vals = v
      BY DEF StoredRow
    <2> HIDE DEF q
    <2>3. QED
      BY <2>1, <2>2, RunnerValues DEF ValOf, q
  <1>4. <<x, n>> \notin D
    BY DEF Decision, Decide
  <1>5. \A y \in Item, k \in Module :
           <<y, k>> \in D <=> Decision(looking, y, k, item, cfg, rs, chain) = "enqueue"
    OBVIOUS
  <1>6. SameInputs(m, item[i], cfg[m], res'[i], rs[i])
    BY <1>2, LookingKeeps
  <1>7. ASSUME ~(i = x /\ ValOf(s) # ValOf(res[x][n]) /\ n \in link.reads[m])
        PROVE  SameInputs(m, item[i], cfg[m], rs[i], res[i])
    <2> DEFINE y == item[i]
               e == cfg[m]
               a == rs[i]
               b == res[i]
    <2>1. ASSUME NEW k \in link.reads[m] PROVE ValOf(a[k]) = ValOf(b[k])
      <3>1. k \in Module
        BY <1>2
      <3>2. CASE i = x /\ k = n
        BY <1>7, <3>2 DEF s
      <3>3. CASE i # x \/ k # n
        BY <3>1, <3>3 DEF SameElsewhere
      <3>4. QED
        BY <3>2, <3>3
    <2> HIDE DEF y, e, a, b
    <2>2. SameInputs(m, y, e, a, b)
      BY <1>2, <2>1, KeptInputs
    <2>3. QED
      BY <2>2 DEF y, e, a, b
  <1>8. ASSUME i = x, m = n PROVE Att(job'[x][n], s, now, live)
    <2> DEFINE dirty == j.dirty
    <2>1. ASSUME <<x, n>> \notin missed, ~(dirty /\ j.prio = "edit")
          PROVE  UpTo(s, now, live)
      <3>1. Fresh(j)
        BY <1>2, <2>1 DEF Fresh
      <3>2. live => now = q
        BY <1>1, <1>8, <2>1, <3>1, FreshInputs
      <3> HIDE DEF s
      <3>3. QED
        BY <1>3, <3>2 DEF UpTo
    <2>2. x \notin crossed' /\ <<x, n>> \notin missed'
      BY <1>8
    <2>3. /\ dirty /\ j.prio = "edit"
          \/ /\ <<x, n>> \notin missed
             /\ dirty /\ j.prio = "refresh" => UpTo(s, now, live)
             /\ ~dirty => UpTo(s, now, live)
          \/ <<x, n>> \in missed
      BY <1>2, <2>1
    <2>4. Ended(x, n, dirty, D, chain) /\ dirty \in BOOLEAN
      BY <1>2
    <2> HIDE DEF now, live, dirty, s
    <2>5. QED
      BY <1>4, <2>2, <2>3, <2>4, EndIdle
  <1>9. SameInputs(m, item[i], cfg[m], rs[i], res[i])
          => (AttAt(i, m, item', cfg', res', job') <=> Att(job'[i][m], res'[i][m], now, live))
    BY <1>6 DEF AttAt, SameInputs
  \* The row and the job of m are left alone, and so are the values it reads.
  <1>10. ASSUME Decision(looking, i, m, item, cfg, rs, chain) = "skip",
                ~(i = x /\ ValOf(s) # ValOf(res[x][n]) /\ n \in link.reads[m])
         PROVE  AttAt(i, m, item', cfg', res', job')
    <2>1. res'[i][m] = rs[i][m]
      BY <1>10 DEF RowsLooked, Decided
    <2>2. AttAt(i, m, item', cfg', res', job') <=> Att(job'[i][m], res'[i][m], now, live)
      BY <1>7, <1>9, <1>10
    <2>3. CASE i = x /\ m = n
      BY <1>8, <2>1, <2>2, <2>3
    <2>4. CASE i # x \/ m # n
      <3>1. <<i, m>> \notin D
        BY <1>5, <1>10
      <3>2. job'[i][m] = job[i][m] /\ <<i, m>> \notin missed
        BY <2>4, <3>1 DEF Ended
      <3>3. res'[i][m] = res[i][m]
        BY <2>1, <2>4 DEF SameElsewhere
      <3>4. AttAt(i, m, item, cfg, res, job)
        BY <1>1, <3>2 DEF Ready, Attended
      <3>5. QED
        BY <2>2, <3>2, <3>3, <3>4 DEF AttAt
    <2>5. QED
      BY <2>3, <2>4
  <1>11. CASE i \notin looking
    <2>1. Decision(looking, i, m, item, cfg, rs, chain) = "skip"
      BY <1>11 DEF Decision
    <2>2. ~(i = x /\ ValOf(s) # ValOf(res[x][n]))
      BY <1>3, <1>11
    <2>3. QED
      BY <1>10, <2>1, <2>2
  <1>12. CASE i \in looking /\ m \in chain
    <2>1. Decision(looking, i, m, item, cfg, rs, chain) = "skip"
      BY <1>12 DEF Decision, Decide
    <2>2. i = x
      BY <1>12
    <2>3. Chained(j, n)
      BY <1>1, <2>2 DEF Ready, Chains
    <2>4. n \notin link.reads[m]
      BY <1>2, <1>12, <2>3 DEF Chained, Runs
    <2>5. QED
      BY <1>10, <2>1, <2>4
  <1>13. CASE i \in looking /\ m \notin chain
    <2>1. i = x /\ m # n
      BY <1>13
    <2> DEFINE y == item[i]
               e == cfg[m]
               rsi == rs[i]
               jm == job[i][m]
               d == Decide(m, y, e, rsi, chain)
               in2 == Inputs(m, y, e, rsi)
               live2 == Live(m, y, e, rsi)
    <2>2. Decision(looking, i, m, item, cfg, rs, chain) = d
      BY <1>13 DEF Decision
    <2>3. res'[i][m] = Decided(d, rsi[m])
      BY <2>2 DEF RowsLooked
    <2>4. AttAt(i, m, item', cfg', res', job') <=> Att(job'[i][m], res'[i][m], in2, live2)
      BY <1>6 DEF AttAt, SameInputs
    <2>5. CASE d = "enqueue"
      <3>1. job'[i][m] = Enqueued(jm, "edit", chain)
        <4>1. Decision(looking, i, m, item, cfg, rs, chain) = "enqueue"
          BY <2>2, <2>5
        <4>2. <<i, m>> \in D
          BY <1>5, <4>1
        <4>3. job'[i][m] = IF <<i, m>> \in D THEN Enqueued(job[i][m], "edit", chain) ELSE job[i][m]
          BY <2>1 DEF Ended
        <4>4. QED
          BY <4>2, <4>3
      <3> HIDE DEF jm, in2, live2
      <3>2. jm \in MaybeJob
        BY <1>2 DEF jm
      <3>3. Att(Enqueued(jm, "edit", chain), res'[i][m], in2, live2)
        BY <1>2, <3>2, EditAttended
      <3>4. QED
        BY <2>4, <3>1, <3>3
    <2>6. CASE d # "enqueue"
      <3>1. <<i, m>> \notin D
        BY <1>5, <2>2, <2>6
      <3>2. job'[i][m] = jm /\ <<i, m>> \notin missed
        BY <2>1, <3>1 DEF Ended
      <3>3. rsi[m] = res[i][m]
        BY <2>1 DEF SameElsewhere
      <3>4. AttAt(i, m, item, cfg, res, job)
        BY <1>1, <3>2 DEF Ready, Attended
      <3>5. Att(jm, rsi[m], now, live)
        BY <3>3, <3>4 DEF AttAt
      <3>6. /\ y \in Text \union {Gone, Blank} /\ e \in Config \union {Off, Bad}
            /\ rsi \in [Module -> MaybeRow] /\ jm \in MaybeJob /\ m \notin chain
            /\ Decide(m, y, e, rsi, chain) # "enqueue"
        BY <1>2, <1>13, <2>6
      <3> HIDE DEF y, e, rsi, jm, now, live
      <3>7. Att(jm, Decided(Decide(m, y, e, rsi, chain), rsi[m]), Inputs(m, y, e, rsi), Live(m, y, e, rsi))
        BY <3>5, <3>6, LookAttended
      <3>8. QED
        BY <2>3, <2>4, <3>2, <3>7
    <2>7. QED
      BY <2>5, <2>6
  <1>14. QED
    BY <1>11, <1>12, <1>13

LEMMA AnswerIdle ==
    ASSUME Ready, NEW x \in Item, NEW n \in Module, Answer(x, n),
           NEW i \in Item, i \notin crossed', NEW m \in Module, <<i, m>> \notin missed'
    PROVE  AttAt(i, m, item', cfg', res', job')
  <1> DEFINE j == job[x][n]
             in == Inputs(n, item[x], j.cfg, res[x])
  <1>1. Runs(j) /\ UNCHANGED <<item, cfg>> /\ AnswerOutcome(x, n)
    BY ReadyTypes, AnswerStep
  <1>2. CASE /\ res' = res
             /\ Ended(x, n, j.dirty \/ in # NoInputs, {}, {})
    <2> DEFINE dirty == j.dirty \/ in # NoInputs
    <2>1. /\ res' = res /\ Ended(x, n, dirty, {}, {})
          /\ dirty \in BOOLEAN
          /\ dirty <=> j.dirty \/ in # NoInputs
          /\ in = Inputs(n, item[x], job[x][n].cfg, res[x])
      BY <1>2
    <2> HIDE DEF dirty, in
    <2>2. QED
      BY <1>1, <2>1, StaleIdle
  <1>3. CASE /\ in = j.inputs
             /\ \E v \in Val, t \in {"none", "later"}, rs \in Rows :
                  LET chain == j.chain \union {n}
                      looking == IF ValOf(res[x][n]) = v THEN {} ELSE {x}
                  IN
                  /\ rs[x][n] = StoredRow(v, in, t)
                  /\ SameElsewhere(rs, res, x, n)
                  /\ RowsLooked(looking, item, cfg, rs, chain, res')
                  /\ Ended(x, n, j.dirty,
                           {p \in Item \X Module :
                               Decision(looking, p[1], p[2], item, cfg, rs, chain) = "enqueue"},
                           chain)
    <2>1. PICK v \in Val, t \in {"none", "later"}, rs \in Rows :
            LET chain == j.chain \union {n}
                looking == IF ValOf(res[x][n]) = v THEN {} ELSE {x}
            IN
            /\ rs[x][n] = StoredRow(v, in, t)
            /\ SameElsewhere(rs, res, x, n)
            /\ RowsLooked(looking, item, cfg, rs, chain, res')
            /\ Ended(x, n, j.dirty,
                     {p \in Item \X Module :
                         Decision(looking, p[1], p[2], item, cfg, rs, chain) = "enqueue"},
                     chain)
      BY <1>3, Zenon
    <2> DEFINE chain == j.chain \union {n}
               looking == IF ValOf(res[x][n]) = v THEN {} ELSE {x}
               D == {p \in Item \X Module : Decision(looking, p[1], p[2], item, cfg, rs, chain) = "enqueue"}
    <2>2. /\ chain = job[x][n].chain \union {n}
          /\ looking = IF ValOf(res[x][n]) = v THEN {} ELSE {x}
          /\ D = {p \in Item \X Module : Decision(looking, p[1], p[2], item, cfg, rs, chain) = "enqueue"}
      OBVIOUS
    <2>3. /\ rs[x][n] = StoredRow(v, j.inputs, t)
          /\ SameElsewhere(rs, res, x, n)
          /\ RowsLooked(looking, item, cfg, rs, chain, res')
          /\ Ended(x, n, j.dirty, D, chain)
      BY <1>3, <2>1, Zenon
    <2> HIDE DEF D, looking, chain
    <2>4. Stores(x, n, v, t, rs, chain, looking, D)
      BY <2>2, <2>3, Zenon DEF Stores
    <2>5. QED
      BY <1>1, <2>4, StoredIdle
  <1>4. CASE /\ SameElsewhere(res', res, x, n)
             /\ res'[x][n] \in {FailedRow(res[x][n], j.inputs), QuotaRow(res[x][n], j.inputs)}
             /\ Ended(x, n, j.dirty, {}, {})
    BY <1>1, <1>4, FailedIdle
  <1>5. QED
    BY <1>1, <1>2, <1>3, <1>4, Zenon DEF AnswerOutcome

LEMMA StepAttended ==
    ASSUME Ready, [RunnerNext]_runnerVars,
           NEW i \in Item, i \notin crossed', NEW m \in Module, <<i, m>> \notin missed'
    PROVE  AttAt(i, m, item', cfg', res', job')
  <1> DEFINE Goal == AttAt(i, m, item', cfg', res', job')
  <1> HIDE DEF Goal
  <1>1. ASSUME NEW x \in Item, NEW t \in Text \union {Blank}, EditItem(x, t) PROVE Goal
    BY <1>1, EditItemIdle DEF Goal
  <1>2. ASSUME NEW x \in Item, DeleteItem(x) PROVE Goal
    BY <1>2, DeleteIdle DEF Goal
  <1>3. ASSUME NEW n \in Module, NEW c \in Config \union {Off, Bad}, EditBoard(n, c) PROVE Goal
    BY <1>3, EditBoardIdle DEF Goal
  <1>4. ASSUME RunnerTick PROVE Goal
    BY <1>4, TickIdle DEF Goal
  <1>5. ASSUME NEW n \in Module, StartJob(n) PROVE Goal
    BY <1>5, StartIdle DEF Goal
  <1>6. ASSUME UNCHANGED <<item, cfg, res, job, missed, crossed>> PROVE Goal
    BY <1>6 DEF Goal, AttAt, Ready, Attended
  <1>7. ASSUME NEW x \in Item, NEW n \in Module, CallAgain(x, n) PROVE Goal
    BY <1>6, <1>7 DEF CallAgain
  <1>8. ASSUME NEW x \in Item, NEW n \in Module, Answer(x, n) PROVE Goal
    BY <1>8, AnswerIdle DEF Goal
  <1>9. ASSUME NEW x \in Item, NEW n \in Module, TimePasses(x, n) PROVE Goal
    <2>1. /\ UNCHANGED <<item, cfg, job, missed, crossed>>
          /\ SamePending(res'[x][n], res[x][n]) /\ SameElsewhere(res', res, x, n)
      BY <1>9, ReadyTypes, TimeStep
    <2>2. \A y \in Item, k \in Module : SamePending(res'[y][k], res[y][k])
      BY <2>1 DEF SameElsewhere, SamePending
    <2>3. QED
      BY <2>1, <2>2, TimeIdle DEF Goal
  <1>10. ASSUME Midnight PROVE Goal
    BY <1>10, ReadyTypes, MidnightStep, TimeIdle DEF Goal
  <1>11. ASSUME Restart PROVE Goal
    BY <1>11, RestartIdle DEF Goal
  <1>12. ASSUME UNCHANGED runnerVars PROVE Goal
    BY <1>6, <1>12 DEF runnerVars
  <1>13. Goal
    BY <1>1, <1>2, <1>3, <1>4, <1>5, <1>7, <1>8, <1>9, <1>10, <1>11, <1>12 DEF RunnerNext
  <1>14. QED
    BY <1>13 DEF Goal

-----------------------------------------------------------------------------
(* Every step keeps the chains, and leaves what is off alone for good.     *)

LEMMA ChainAfter ==
    ASSUME NEW j \in MaybeJob, NEW m \in Module, NEW ch \in SUBSET Module,
           \A n \in ch : m \notin link.reads[n]
    PROVE  /\ \A p \in Prio : Chained(Enqueued(j, p, ch), m) /\ Chained(NewJob(p, ch), m)
           /\ Chained(NoJob, m)
           /\ \A r : Chained(RestartedJob(r), m)
  <1>1. ASSUME NEW p \in Prio PROVE Chained(Enqueued(j, p, ch), m) /\ Chained(NewJob(p, ch), m)
    <2>1. Enqueued(j, p, ch).chain = ch
      BY EnqueuedJob
    <2>2. NewJob(p, ch).chain = ch
      BY DEF NewJob
    <2>3. QED
      BY <2>1, <2>2 DEF Chained
  <1>2. Chained(NoJob, m) /\ \A p : Chained(NewJob(p, {}), m)
    BY DEF Chained, NewJob
  <1>3. \A r : Chained(RestartedJob(r), m)
    BY <1>2 DEF RestartedJob
  <1>4. QED
    BY <1>1, <1>2, <1>3

LEMMA StepChained ==
    ASSUME Accounted, Chains, [RunnerNext]_runnerVars, NEW i \in Item, i \notin crossed', NEW m \in Module
    PROVE  Chained(job'[i][m], m)
  <1> DEFINE Goal == Chained(job'[i][m], m)
  <1> HIDE DEF Goal
  <1>1. job[i][m] \in MaybeJob /\ {} \in SUBSET Module
    BY TypedRows DEF Accounted, Jobs
  <1>2. i \notin crossed => Chained(job[i][m], m)
    BY DEF Chains
  <1>3. \A p \in Prio : Chained(Enqueued(job[i][m], p, {}), m)
    BY <1>1, ChainAfter
  <1>4. Chained(NoJob, m) /\ \A r : Chained(RestartedJob(r), m)
    BY <1>1, ChainAfter
  <1>5. ASSUME UNCHANGED <<job, crossed>> PROVE Goal
    BY <1>2, <1>5 DEF Goal
  <1>6. ASSUME NEW S, NEW it \in [Item -> Text \union {Gone, Blank}],
               NEW c \in [Module -> Config \union {Off, Bad}], NEW rs \in Rows, ItemsChanged(S, it, c, rs)
        PROVE  Goal
    <2>1. LookedAt(S, it, c, rs) /\ crossed \subseteq crossed'
      BY <1>6, LookStep
    <2>2. job'[i][m] = Enqueued(job[i][m], "edit", {}) \/ job'[i][m] = job[i][m]
      BY <2>1 DEF LookedAt
    <2>3. QED
      BY <1>2, <1>3, <2>1, <2>2 DEF Goal, Prio
  <1>7. ASSUME NEW x \in Item, NEW t \in Text \union {Blank}, EditItem(x, t) PROVE Goal
    <2> DEFINE it == item'
    <2>1. /\ it \in [Item -> Text \union {Gone, Blank}] /\ ItemsChanged({x}, it, cfg, res)
          /\ cfg \in [Module -> Config \union {Off, Bad}] /\ res \in Rows
      BY <1>7, TypedRows DEF EditItem, Accounted, RunnerTypeOK
    <2> HIDE DEF it
    <2>2. QED
      BY <1>6, <2>1
  <1>8. ASSUME NEW x \in Item, DeleteItem(x) PROVE Goal
    BY <1>5, <1>8 DEF DeleteItem
  <1>9. ASSUME NEW n \in Module, NEW c \in Config \union {Off, Bad}, EditBoard(n, c) PROVE Goal
    <2> DEFINE left == [x \in Item |->
                  IF c = Off /\ item[x] # Gone THEN [res[x] EXCEPT ![n] = NoRes] ELSE res[x]]
               S == IF c = Off THEN {} ELSE Item
               d == cfg'
    <2>1. /\ d \in [Module -> Config \union {Off, Bad}] /\ ItemsChanged(S, item, d, left)
          /\ item \in [Item -> Text \union {Gone, Blank}] /\ res \in Rows
      BY <1>9, TypedRows DEF EditBoard, Accounted, RunnerTypeOK
    <2>2. left \in Rows
      BY <2>1 DEF Rows, MaybeRow
    <2> HIDE DEF left, S, d
    <2>3. QED
      BY <1>6, <2>1, <2>2
  <1>10. ASSUME RunnerTick PROVE Goal
    <2>1. /\ crossed \subseteq crossed'
          /\ job'[i][m] = IF Due(res[i][m]) THEN Enqueued(job[i][m], "refresh", {}) ELSE job[i][m]
      BY <1>10, TickStep
    <2>2. QED
      BY <1>2, <1>3, <2>1 DEF Goal, Prio
  <1>11. ASSUME NEW n \in Module, StartJob(n) PROVE Goal
    <2>1. PICK x \in Item : /\ job[x][n] \in JobEntry /\ job[x][n] # NoJob
                            /\ SameElsewhere(job', job, x, n)
                            /\ StartOutcome(x, n)
      BY <1>11, StartStep
    <2>2. crossed' = crossed
      BY <1>11 DEF StartJob
    <2>3. CASE i # x \/ m # n
      BY <1>2, <2>1, <2>2, <2>3 DEF Goal, SameElsewhere
    <2>4. CASE i = x /\ m = n
      <3>1. job'[i][m] = NoJob \/ job'[i][m].chain = job[i][m].chain
        <4> DEFINE in == Inputs(n, item[x], cfg[n], res[x])
        <4>1. \/ job'[x][n] = NoJob
              \/ job'[x][n] = [job[x][n] EXCEPT !.running = TRUE, !.inputs = in, !.cfg = cfg[n]]
          BY <2>1, Zenon DEF StartOutcome
        <4> HIDE DEF in
        <4>2. QED
          BY <2>1, <2>4, <4>1 DEF JobEntry
      <3>2. QED
        BY <1>2, <1>4, <2>1, <2>2, <2>4, <3>1 DEF Goal, Chained
    <2>5. QED
      BY <2>3, <2>4
  <1>12. ASSUME NEW x \in Item, NEW n \in Module, CallAgain(x, n) PROVE Goal
    BY <1>5, <1>12 DEF CallAgain
  <1>13. ASSUME NEW x \in Item, NEW n \in Module, Answer(x, n) PROVE Goal
    <2> DEFINE j == job[x][n]
    <2>1. Runs(j) /\ AnswerOutcome(x, n)
      BY <1>13, AnswerStep
    <2>2. PICK dirty, D, chain : chain \in SUBSET Module /\ Ended(x, n, dirty, D, chain)
      <3>1. {} \in SUBSET Module /\ j.chain \union {n} \in SUBSET Module
        BY <2>1, TypedRows DEF Accounted, Jobs, MaybeJob, Runs, JobEntry
      <3>2. QED
        BY <2>1, <3>1, Zenon DEF AnswerOutcome
    <2>3. i \notin crossed
      BY <2>2 DEF Ended
    <2>4. CASE i # x \/ m # n
      <3>1. job'[i][m] = IF <<i, m>> \in D THEN Enqueued(job[i][m], "edit", chain) ELSE job[i][m]
        BY <2>2, <2>4 DEF Ended
      <3>2. CASE <<i, m>> \in D
        <4>1. \A k \in chain : m \notin link.reads[k]
          BY <2>2, <3>2 DEF Ended
        <4>2. \A p \in Prio : Chained(Enqueued(job[i][m], p, chain), m)
          BY <1>1, <2>2, <4>1, ChainAfter
        <4>3. QED
          BY <3>1, <3>2, <4>2 DEF Goal, Prio
      <3>3. CASE <<i, m>> \notin D
        BY <1>2, <2>3, <3>1, <3>3 DEF Goal
      <3>4. QED
        BY <3>2, <3>3
    <2>5. CASE i = x /\ m = n
      <3>1. job'[i][m] = NoJob \/ job'[i][m] = NewJob(j.prio, j.chain)
        BY <2>2, <2>5 DEF Ended
      <3>2. Chained(j, m) /\ j # NoJob
        BY <1>2, <2>1, <2>3, <2>5 DEF Runs
      <3>3. Chained(NewJob(j.prio, j.chain), m)
        BY <3>2 DEF Chained, NewJob
      <3>4. QED
        BY <1>4, <3>1, <3>3 DEF Goal
    <2>6. QED
      BY <2>4, <2>5
  <1>14. ASSUME NEW x \in Item, NEW n \in Module, TimePasses(x, n) PROVE Goal
    BY <1>5, <1>14 DEF TimePasses
  <1>15. ASSUME Midnight PROVE Goal
    BY <1>5, <1>15 DEF Midnight
  <1>16. ASSUME Restart PROVE Goal
    <2>1. job'[i][m] = RestartedJob(res[i][m])
      BY <1>16, RestartStep
    <2>2. QED
      BY <1>4, <2>1 DEF Goal
  <1>17. ASSUME UNCHANGED runnerVars PROVE Goal
    BY <1>5, <1>17 DEF runnerVars
  <1>18. Goal
    BY <1>7, <1>8, <1>9, <1>10, <1>11, <1>12, <1>13, <1>14, <1>15, <1>16, <1>17 DEF RunnerNext
  <1>19. QED
    BY <1>18 DEF Goal

\* A module that is off is not looked at.
LEMMA OffSkipped ==
    ASSUME NEW S, NEW i, NEW m, NEW it, NEW c, NEW rs, NEW chain, c[m] = Off
    PROVE  /\ Decision(S, i, m, it, c, rs, chain) = "skip"
           /\ Decided(Decision(S, i, m, it, c, rs, chain), rs[i][m]) = rs[i][m]
  BY DEF Decision, Decide, Decided

LEMMA StepOff ==
    ASSUME Accounted, OffUntouched(cfg, res, job), [RunnerNext]_runnerVars
    PROVE  OffUntouched(cfg', res', job')
  <1> SUFFICES ASSUME ~MayDisable, NEW i \in Item, NEW m \in Module, cfg'[m] = Off
               PROVE  res'[i][m] = NoRes /\ job'[i][m] = NoJob
    BY DEF OffUntouched
  <1> DEFINE Goal == res'[i][m] = NoRes /\ job'[i][m] = NoJob
  <1> HIDE DEF Goal
  <1>1. /\ res \in Rows /\ job \in Jobs
        /\ item \in [Item -> Text \union {Gone, Blank}]
        /\ cfg \in [Module -> Config \union {Off, Bad}]
    BY TypedRows DEF Accounted, RunnerTypeOK
  <1>2. cfg[m] = Off => res[i][m] = NoRes /\ job[i][m] = NoJob
    BY DEF OffUntouched
  <1>3. ASSUME UNCHANGED <<cfg, res, job>> PROVE Goal
    BY <1>2, <1>3 DEF Goal
  <1>4. ASSUME NEW S, NEW it \in [Item -> Text \union {Gone, Blank}],
               NEW c \in [Module -> Config \union {Off, Bad}], c[m] = Off,
               NEW rs \in Rows, rs[i][m] = NoRes, job[i][m] = NoJob, ItemsChanged(S, it, c, rs)
        PROVE  Goal
    <2>1. LookedAt(S, it, c, rs)
      BY <1>4, LookStep
    <2>2. Decision(S, i, m, it, c, rs, {}) = "skip"
          /\ Decided(Decision(S, i, m, it, c, rs, {}), rs[i][m]) = rs[i][m]
      BY <1>4, OffSkipped
    <2>3. QED
      BY <1>4, <2>1, <2>2 DEF LookedAt, Goal
  <1>5. ASSUME NEW x \in Item, NEW t \in Text \union {Blank}, EditItem(x, t) PROVE Goal
    <2> DEFINE it == item'
    <2>1. /\ it \in [Item -> Text \union {Gone, Blank}] /\ ItemsChanged({x}, it, cfg, res)
          /\ cfg' = cfg
      BY <1>1, <1>5 DEF EditItem
    <2> HIDE DEF it
    <2>2. QED
      BY <1>1, <1>2, <1>4, <2>1
  <1>6. ASSUME NEW x \in Item, DeleteItem(x) PROVE Goal
    BY <1>1, <1>2, <1>6 DEF DeleteItem, Rows, Goal
  <1>7. ASSUME NEW n \in Module, NEW c \in Config \union {Off, Bad}, EditBoard(n, c) PROVE Goal
    <2> DEFINE left == [x \in Item |->
                  IF c = Off /\ item[x] # Gone THEN [res[x] EXCEPT ![n] = NoRes] ELSE res[x]]
               S == IF c = Off THEN {} ELSE Item
               d == cfg'
    <2>1. c # Off
      BY <1>7 DEF EditBoard
    <2>2. /\ d \in [Module -> Config \union {Off, Bad}] /\ ItemsChanged(S, item, d, left)
          /\ d[m] = Off /\ cfg[m] = Off
      BY <1>1, <1>7, <2>1 DEF EditBoard
    <2>3. left \in Rows /\ left[i][m] = NoRes
      BY <1>1, <1>2, <2>1, <2>2 DEF Rows, MaybeRow
    <2> HIDE DEF left, S, d
    <2>4. QED
      BY <1>1, <1>2, <1>4, <2>2, <2>3
  <1>8. ASSUME RunnerTick PROVE Goal
    <2>1. /\ res' = res /\ cfg' = cfg
          /\ job'[i][m] = IF Due(res[i][m]) THEN Enqueued(job[i][m], "refresh", {}) ELSE job[i][m]
      BY <1>8, TickStep
    <2>2. QED
      BY <1>2, <2>1 DEF Goal, Due
  <1>9. ASSUME NEW n \in Module, StartJob(n) PROVE Goal
    <2>1. PICK x \in Item : /\ job[x][n] # NoJob
                            /\ SameElsewhere(job', job, x, n)
                            /\ StartOutcome(x, n)
      BY <1>9, StartStep
    <2>2. cfg' = cfg
      BY <1>9 DEF StartJob
    <2>3. i # x \/ m # n
      BY <1>2, <2>1, <2>2
    <2>4. job'[i][m] = job[i][m]
      BY <2>1, <2>3 DEF SameElsewhere
    <2>5. res'[i][m] = res[i][m] \/ res'[i][m] = NoRes
      <3>1. CASE item[x] = Gone
        BY <2>1, <3>1, Zenon DEF StartOutcome
      <3>2. CASE item[x] # Gone
        <4>1. SameElsewhere(res', res, x, n)
          BY <2>1, <3>2, Zenon DEF StartOutcome
        <4>2. QED
          BY <2>3, <4>1 DEF SameElsewhere
      <3>3. QED
        BY <3>1, <3>2
    <2>6. QED
      BY <1>2, <2>2, <2>4, <2>5 DEF Goal
  <1>10. ASSUME NEW x \in Item, NEW n \in Module, CallAgain(x, n) PROVE Goal
    BY <1>3, <1>10 DEF CallAgain
  <1>11. ASSUME NEW x \in Item, NEW n \in Module, Answer(x, n) PROVE Goal
    <2> DEFINE j == job[x][n]
               in == Inputs(n, item[x], j.cfg, res[x])
    <2>1. cfg' = cfg /\ Runs(j) /\ AnswerOutcome(x, n)
      BY <1>11, AnswerStep
    <2>2. i # x \/ m # n
      BY <1>2, <2>1 DEF Runs
    <2>3. job[i][m] = NoJob /\ res[i][m] = NoRes /\ cfg[m] = Off
      BY <1>2, <2>1
    <2>4. ASSUME res'[i][m] = res[i][m], NEW dirty, NEW chain, NEW D, Ended(x, n, dirty, D, chain),
                 <<i, m>> \notin D
          PROVE  Goal
      BY <2>2, <2>3, <2>4 DEF Goal, Ended
    <2>5. CASE /\ res' = res
               /\ Ended(x, n, j.dirty \/ in # NoInputs, {}, {})
      BY <2>4, <2>5
    <2>6. CASE /\ in = j.inputs
               /\ \E v \in Val, t \in {"none", "later"}, rs \in Rows :
                    LET chain == j.chain \union {n}
                        looking == IF ValOf(res[x][n]) = v THEN {} ELSE {x}
                    IN
                    /\ rs[x][n] = StoredRow(v, in, t)
                    /\ SameElsewhere(rs, res, x, n)
                    /\ RowsLooked(looking, item, cfg, rs, chain, res')
                    /\ Ended(x, n, j.dirty,
                             {p \in Item \X Module :
                                 Decision(looking, p[1], p[2], item, cfg, rs, chain) = "enqueue"},
                             chain)
      <3>1. PICK v \in Val, rs \in Rows :
              LET chain == j.chain \union {n}
                  looking == IF ValOf(res[x][n]) = v THEN {} ELSE {x}
              IN
              /\ SameElsewhere(rs, res, x, n)
              /\ RowsLooked(looking, item, cfg, rs, chain, res')
              /\ Ended(x, n, j.dirty,
                       {p \in Item \X Module :
                           Decision(looking, p[1], p[2], item, cfg, rs, chain) = "enqueue"},
                       chain)
        BY <2>6, Zenon
      <3> DEFINE chain == j.chain \union {n}
                 looking == IF ValOf(res[x][n]) = v THEN {} ELSE {x}
                 D == {p \in Item \X Module : Decision(looking, p[1], p[2], item, cfg, rs, chain) = "enqueue"}
      <3>2. /\ SameElsewhere(rs, res, x, n)
            /\ RowsLooked(looking, item, cfg, rs, chain, res')
            /\ Ended(x, n, j.dirty, D, chain)
        BY <3>1, Zenon
      <3> HIDE DEF looking, chain
      <3>3. Decision(looking, i, m, item, cfg, rs, chain) = "skip" /\ res'[i][m] = rs[i][m]
        BY <2>3, <3>2, OffSkipped DEF RowsLooked
      <3>4. <<i, m>> \notin D
        BY <3>3
      <3>5. rs[i][m] = res[i][m]
        BY <2>2, <3>2 DEF SameElsewhere
      <3> HIDE DEF D
      <3>6. QED
        BY <2>4, <3>2, <3>3, <3>4, <3>5
    <2>7. CASE /\ SameElsewhere(res', res, x, n)
               /\ res'[x][n] \in {FailedRow(res[x][n], j.inputs), QuotaRow(res[x][n], j.inputs)}
               /\ Ended(x, n, j.dirty, {}, {})
      <3>1. res'[i][m] = res[i][m]
        BY <2>2, <2>7 DEF SameElsewhere
      <3>2. QED
        BY <2>4, <2>7, <3>1
    <2>8. QED
      BY <2>1, <2>5, <2>6, <2>7, Zenon DEF AnswerOutcome
  <1>12. ASSUME NEW x \in Item, NEW n \in Module, TimePasses(x, n) PROVE Goal
    BY <1>2, <1>12, TimeStep DEF Goal, SamePending, SameElsewhere
  <1>13. ASSUME Midnight PROVE Goal
    BY <1>2, <1>13, MidnightStep DEF Goal, SamePending
  <1>14. ASSUME Restart PROVE Goal
    <2>1. res' = res /\ cfg' = cfg
      BY <1>14 DEF Restart
    <2>2. job'[i][m] = RestartedJob(res[i][m])
      BY <1>14, RestartStep
    <2>3. QED
      BY <1>2, <2>1, <2>2 DEF Goal, RestartedJob, Stalled, Due
  <1>15. ASSUME UNCHANGED runnerVars PROVE Goal
    BY <1>3, <1>15 DEF runnerVars
  <1>16. Goal
    BY <1>5, <1>6, <1>7, <1>8, <1>9, <1>10, <1>11, <1>12, <1>13, <1>14, <1>15 DEF RunnerNext
  <1>17. QED
    BY <1>16 DEF Goal

-----------------------------------------------------------------------------
(* The theorem.                                                            *)

LEMMA LinkKept ==
    ASSUME Accounted, [RunnerNext]_runnerVars
    PROVE  link' = link
  <1>1. ASSUME NEW x \in Item, NEW n \in Module, Answer(x, n) PROVE link' = link
    BY <1>1, AnswerStep
  <1>2. QED
    BY <1>1, Zenon DEF RunnerNext, EditItem, DeleteItem, EditBoard, RunnerTick, StartJob,
                CallAgain, TimePasses, Midnight, Restart, runnerVars

LEMMA RunnerStepIdle == Accounted /\ Idle /\ [RunnerNext]_runnerVars => Idle'
  <1> SUFFICES ASSUME Accounted, Idle, [RunnerNext]_runnerVars PROVE Idle'
    OBVIOUS
  <1>1. link' = link
    BY LinkKept
  <1> SUFFICES ASSUME ValuesStay PROVE (OffUntouched(cfg, res, job) /\ Chains /\ Attended)'
    BY <1>1 DEF Idle, ValuesStay
  <1>2. Ready
    BY DEF Ready, Idle
  <1>3. OffUntouched(cfg', res', job')
    BY <1>2, StepOff DEF Ready
  <1>4. Chains'
    <2>1. ASSUME NEW i \in Item, i \notin crossed', NEW m \in Module PROVE Chained(job'[i][m], m)
      BY <1>2, <2>1, StepChained DEF Ready
    <2>2. QED
      BY <1>1, <2>1 DEF Chains, Chained
  <1>5. Attended'
    <2>1. ASSUME NEW i \in Item, i \notin crossed', NEW m \in Module, <<i, m>> \notin missed'
          PROVE  AttAt(i, m, item, cfg, res, job)'
      <3>1. AttAt(i, m, item', cfg', res', job')
        BY <1>2, <2>1, StepAttended
      <3>2. QED
        BY <1>1, <3>1 DEF AttAt, Inputs, Live
    <2>2. QED
      BY <2>1 DEF Attended
  <1>6. QED
    BY <1>3, <1>4, <1>5 DEF OffUntouched

\* No trigger is lost: where no value that is read is taken away, the results are up to
\* date whenever no job is left, but for those whose waiting job a restart took and those
\* of items on which a cascade came back to what a module that ran in it reads.
THEOREM RunnerIdleUpToDate == RunnerSpec => []IdleUpToDate
  <1>1. RunnerInit => Idle
    <2> SUFFICES ASSUME RunnerInit PROVE Idle
      OBVIOUS
    <2>1. \A i \in Item, m \in Module : item[i] = Blank /\ res[i][m] = NoRes /\ job[i][m] = NoJob
      BY DEF RunnerInit
    <2>2. OffUntouched(cfg, res, job) /\ Chains
      BY <2>1 DEF OffUntouched, Chains, Chained
    <2>3. ASSUME NEW i \in Item, NEW m \in Module PROVE AttAt(i, m, item, cfg, res, job)
      <3>1. Inputs(m, item[i], cfg[m], res[i]) = NoInputs
        BY <2>1 DEF Inputs
      <3>2. QED
        BY <2>1, <3>1 DEF AttAt, Att, Live, UpTo, Fresh, Runs, Waiting, Unprocessed
    <2>4. QED
      BY <2>2, <2>3 DEF Idle, Attended
  <1>2. Accounted /\ Idle => IdleUpToDate
    <2> SUFFICES ASSUME Accounted, Idle, ValuesStay, NoJobs, NEW i \in Item \ crossed, NEW m \in Module,
                        <<i, m>> \notin missed
                 PROVE  UpToDate(i, m)
      BY DEF IdleUpToDate
    <2>1. job[i][m] = NoJob
      BY DEF NoJobs, Job
    <2>2. AttAt(i, m, item, cfg, res, job)
      BY DEF Idle, Attended
    <2>3. cfg[m] \in Config \union {Off, Bad}
      BY DEF Accounted, RunnerTypeOK
    <2>4. QED
      BY <2>1, <2>2, <2>3 DEF UpToDate, AttAt, Att, Live, UpTo, Runs, Waiting
  <1>3. RunnerSpec => []Accounted
    BY RunnerInitAccounted, RunnerStepAccounted, PTL DEF RunnerSpec
  <1>4. RunnerSpec => []Idle
    BY <1>1, <1>3, RunnerStepIdle, PTL DEF RunnerSpec
  <1>5. QED
    BY <1>2, <1>3, <1>4, PTL
=============================================================================
