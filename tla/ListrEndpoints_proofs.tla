------------------------ MODULE ListrEndpoints_proofs ------------------------
(***************************************************************************)
(* Proofs about the connections of a client, for any endpoints and servers *)
(* and any number of failures, forced resyncs and changes.                 *)
(*                                                                         *)
(* Sound(c, X) is what keeps one primary per server: who is ready can take *)
(* over, on a socket that is open.  The endpoints of X are spared, those   *)
(* about to be forgotten (Forget) or to claim their server (ClaimOrDefer). *)
(* Each operator that makes up a callback has a lemma; a callback puts     *)
(* them together.                                                          *)
(***************************************************************************)
EXTENDS ListrEndpoints, FiniteSetTheorems, TLAPS

Entries(c) == {c.ready[k] : k \in DOMAIN c.ready}

Once(c) == \A j, k \in DOMAIN c.ready : c.ready[j].ep = c.ready[k].ep => j = k

\* Only a socket that closes is owned by nobody, and a current socket is its own
\* connection's.
SocketsSound(c) ==
    /\ \A n \in DOMAIN c.sock :
          IF c.sock[n].owned
          THEN /\ c.sock[n].ep \in DOMAIN c.conn
               /\ c.sock[n].server = c.conn[c.sock[n].ep].server
          ELSE c.sock[n].state = "closing"
    /\ \A e \in DOMAIN c.conn : c.conn[e].ws # None =>
          /\ c.conn[e].ws \in DOMAIN c.sock
          /\ c.sock[c.conn[e].ws].ep = e /\ c.sock[c.conn[e].ws].owned

\* Socket n carries what endpoint e sends.
Carries(c, n, e) ==
    /\ n \in DOMAIN c.sock
    /\ c.sock[n].ep = e /\ c.sock[n].owned /\ c.sock[n].state = "open"
    /\ c.sock[n].stage \in {"auth", "grant", "ready"}

SendersSound(c, X) == \A e \in DOMAIN c.senders \ X : Carries(c, c.senders[e], e)

\* Whoever is ready can take over.
ReadySound(c, X) ==
    \A r \in Entries(c) : r.ep \notin X =>
        /\ r.ep \in DOMAIN c.conn /\ r.server = c.conn[r.ep].server
        /\ r.ep \in DOMAIN c.senders /\ c.sock[c.senders[r.ep]].stage = "ready"

\* Every server that somebody is ready on has a primary that is ready on it.
PrimariesSound(c, X) ==
    /\ \A e \in DOMAIN c.primaries \ X :
          /\ c.primaries[e] = c.senders[e]
          /\ \E s \in DOMAIN c.primaryFor :
                c.primaryFor[s] = e /\ [ep |-> e, server |-> s] \in Entries(c)
    /\ \A s \in DOMAIN c.primaryFor :
          /\ [ep |-> c.primaryFor[s], server |-> s] \in Entries(c)
          /\ c.primaryFor[s] \in DOMAIN c.primaries \union X
    /\ \A r \in Entries(c) : r.server \in DOMAIN c.primaryFor

Sound(c, X) ==
    /\ Once(c) /\ SocketsSound(c)
    /\ SendersSound(c, X) /\ ReadySound(c, X) /\ PrimariesSound(c, X)

\* What holds at the end of every callback.
Well(c) == IsClient(c) /\ (c.stray \/ Sound(c, {}))

EndpointsInv == EndpointsTypeOK /\ Well(client)

-----------------------------------------------------------------------------
(* Maps.                                                                   *)

LEMMA MapPut ==
    ASSUME NEW K, NEW V, NEW f, IsMap(f, K, V), NEW k \in K, NEW v \in V
    PROVE  IsMap(Put(f, k, v), K, V)
  BY DEF IsMap, Put

LEMMA PutAt ==
    ASSUME NEW f, NEW k, NEW v
    PROVE  /\ DOMAIN Put(f, k, v) = DOMAIN f \union {k} /\ Put(f, k, v)[k] = v
           /\ \A x \in DOMAIN f : Put(f, k, v)[x] = IF x = k THEN v ELSE f[x]
  BY DEF Put

LEMMA MapWithout ==
    ASSUME NEW K, NEW V, NEW f, IsMap(f, K, V), NEW k
    PROVE  IsMap(Without(f, k), K, V)
  BY DEF IsMap, Without, Restrict

LEMMA WithoutAt ==
    ASSUME NEW f, NEW k
    PROVE  /\ DOMAIN Without(f, k) = DOMAIN f \ {k}
           /\ \A x \in DOMAIN f \ {k} : Without(f, k)[x] = f[x]
  BY DEF Without, Restrict

LEMMA MapUpdate ==
    ASSUME NEW K, NEW V, NEW f, IsMap(f, K, V), NEW k, NEW v, k \in DOMAIN f => v \in V
    PROVE  /\ IsMap([f EXCEPT ![k] = v], K, V)
           /\ DOMAIN [f EXCEPT ![k] = v] = DOMAIN f
           /\ \A x \in DOMAIN f : [f EXCEPT ![k] = v][x] = IF x = k THEN v ELSE f[x]
  BY DEF IsMap

LEMMA MapSame ==
    ASSUME NEW K, NEW V, NEW f, NEW g, IsMap(f, K, V), DOMAIN g = DOMAIN f,
           g = [x \in DOMAIN f |-> g[x]], \A x \in DOMAIN f : g[x] \in V
    PROVE  IsMap(g, K, V)
  BY DEF IsMap

-----------------------------------------------------------------------------
(* What keeps a client sound.                                              *)

\* But for the endpoints of X, client d has what c has.
Like(c, d, X) ==
    /\ d.senders = c.senders /\ d.primaries = c.primaries
    /\ d.ready = c.ready /\ d.primaryFor = c.primaryFor
    /\ \A e \in DOMAIN c.conn \ X : e \in DOMAIN d.conn /\ d.conn[e].server = c.conn[e].server
    /\ \A n \in DOMAIN c.sock : c.sock[n].owned /\ c.sock[n].ep \notin X =>
          /\ n \in DOMAIN d.sock
          /\ d.sock[n].ep = c.sock[n].ep /\ d.sock[n].owned = c.sock[n].owned
          /\ d.sock[n].state = c.sock[n].state /\ d.sock[n].stage = c.sock[n].stage

LEMMA LikeSound ==
    ASSUME NEW c, NEW d, NEW X, Sound(c, X), Like(c, d, X), SocketsSound(d)
    PROVE  Sound(d, X)
  <1>1. Once(d) /\ Entries(d) = Entries(c)
    BY DEF Sound, Like, Once, Entries
  <1>2. SendersSound(d, X)
    BY DEF Sound, Like, SendersSound, Carries
  <1>3. ReadySound(d, X)
    <2> SUFFICES ASSUME NEW r \in Entries(c), r.ep \notin X
                 PROVE  /\ r.ep \in DOMAIN d.conn /\ r.server = d.conn[r.ep].server
                        /\ r.ep \in DOMAIN d.senders /\ d.sock[d.senders[r.ep]].stage = "ready"
      BY <1>1 DEF ReadySound
    <2>1. /\ r.ep \in DOMAIN c.conn /\ r.server = c.conn[r.ep].server
          /\ r.ep \in DOMAIN c.senders /\ c.sock[c.senders[r.ep]].stage = "ready"
      BY DEF Sound, ReadySound
    <2>2. Carries(c, c.senders[r.ep], r.ep)
      BY <2>1 DEF Sound, SendersSound
    <2> QED
      BY <2>1, <2>2 DEF Like, Carries
  <1>4. PrimariesSound(d, X)
    BY <1>1 DEF Sound, Like, PrimariesSound
  <1> QED
    BY <1>1, <1>2, <1>3, <1>4 DEF Sound

LEMMA SoundMore ==
    ASSUME NEW c, NEW X, NEW Y, X \subseteq Y, Sound(c, X)
    PROVE  Sound(c, Y)
  BY DEF Sound, SendersSound, ReadySound, PrimariesSound

\* Changes to connections and sockets alone
LEMMA ClientWith ==
    ASSUME NEW c, IsClient(c), NEW conn, NEW sock, NEW stray \in BOOLEAN,
           IsMap(conn, Endpoints, Connection), IsMap(sock, Nat, Socket),
           IsFiniteSet(DOMAIN sock),
           \A n \in DOMAIN sock : sock[n].owned => sock[n].ep \in DOMAIN conn
    PROVE  IsClient([c EXCEPT !.conn = conn, !.sock = sock, !.stray = stray])
  <1> DEFINE d == [c EXCEPT !.conn = conn, !.sock = sock, !.stray = stray]
  <1>1. /\ HasFields(d)
        /\ d.conn = conn /\ d.sock = sock /\ d.stray = stray
        /\ d.senders = c.senders /\ d.primaries = c.primaries /\ d.ready = c.ready
        /\ d.primaryFor = c.primaryFor /\ d.phases = c.phases
    BY DEF IsClient, HasFields
  <1> HIDE DEF d
  <1>2. IsClient(d)
    BY <1>1 DEF IsClient
  <1> QED
    BY <1>2 DEF d

-----------------------------------------------------------------------------
(* Connections and sockets.                                                *)

\* From c to d timers and phases may change, nothing else.
Untimed(c, d) ==
    /\ d.senders = c.senders /\ d.primaries = c.primaries
    /\ d.ready = c.ready /\ d.primaryFor = c.primaryFor /\ d.stray = c.stray
    /\ DOMAIN d.conn = DOMAIN c.conn /\ DOMAIN d.sock = DOMAIN c.sock
    /\ \A x \in DOMAIN c.conn : /\ d.conn[x].ws = c.conn[x].ws
                                /\ d.conn[x].server = c.conn[x].server
    /\ \A n \in DOMAIN c.sock :
          /\ d.sock[n].ep = c.sock[n].ep /\ d.sock[n].owned = c.sock[n].owned
          /\ d.sock[n].state = c.sock[n].state
          /\ d.sock[n].stage = c.sock[n].stage /\ d.sock[n].server = c.sock[n].server

LEMMA UntimedSound ==
    ASSUME NEW c, NEW d, NEW X, Untimed(c, d), Sound(c, X)
    PROVE  Sound(d, X)
  <1>1. SocketsSound(d)
    BY DEF Sound, SocketsSound, Untimed
  <1>2. Like(c, d, X)
    BY DEF Like, Untimed
  <1> QED
    BY <1>1, <1>2, LikeSound

LEMMA ClearConnectTimerKeeps ==
    ASSUME NEW c, IsClient(c), NEW e \in DOMAIN c.conn
    PROVE  IsClient(ClearConnectTimer(c, e)) /\ Untimed(c, ClearConnectTimer(c, e))
  <1> DEFINE n == c.conn[e].timer
             row == [c.conn[e] EXCEPT !.timer = None]
             conn == [c.conn EXCEPT ![e] = row]
             held == [c.sock[n] EXCEPT !.timed = FALSE]
             sock == IF n \in DOMAIN c.sock THEN [c.sock EXCEPT ![n] = held] ELSE c.sock
             d == ClearConnectTimer(c, e)
  <1>1. IsMap(c.conn, Endpoints, Connection) /\ IsMap(c.sock, Nat, Socket)
    BY DEF IsClient
  <1>2. row \in Connection /\ row.ws = c.conn[e].ws /\ row.server = c.conn[e].server
    BY <1>1 DEF IsMap, Connection
  <1>3. n \in DOMAIN c.sock => /\ held \in Socket
                               /\ held.ep = c.sock[n].ep /\ held.owned = c.sock[n].owned
                               /\ held.state = c.sock[n].state /\ held.stage = c.sock[n].stage
                               /\ held.server = c.sock[n].server
    BY <1>1 DEF IsMap, Socket
  <1>4. /\ IsMap(conn, Endpoints, Connection) /\ DOMAIN conn = DOMAIN c.conn
        /\ \A x \in DOMAIN c.conn : conn[x] = IF x = e THEN row ELSE c.conn[x]
    <2> HIDE DEF row
    <2> QED
      BY <1>1, <1>2, MapUpdate
  <1>5. /\ IsMap(sock, Nat, Socket) /\ DOMAIN sock = DOMAIN c.sock
        /\ \A x \in DOMAIN c.sock : sock[x] = IF x = n THEN held ELSE c.sock[x]
    <2> HIDE DEF held
    <2> QED
      BY <1>1, <1>3, MapUpdate
  <1>6. d = [c EXCEPT !.conn = conn, !.sock = sock, !.stray = c.stray]
    BY DEF ClearConnectTimer, IsClient
  <1> HIDE DEF conn, sock, row, held, n, d
  <1>7. IsClient(d)
    <2>1. \A x \in DOMAIN sock : sock[x].owned => sock[x].ep \in DOMAIN conn
      BY <1>3, <1>4, <1>5 DEF IsClient
    <2> QED
      BY <1>4, <1>5, <1>6, <2>1, ClientWith DEF IsClient
  <1>8. /\ d.conn = conn /\ d.sock = sock /\ d.senders = c.senders /\ d.primaries = c.primaries
        /\ d.ready = c.ready /\ d.primaryFor = c.primaryFor /\ d.stray = c.stray
    BY <1>6 DEF IsClient
  <1> QED
    BY <1>2, <1>3, <1>4, <1>5, <1>7, <1>8 DEF Untimed, d

\* From c to d the current socket of e is closed, nothing else.
Shut(c, d, e) ==
    /\ d.senders = c.senders /\ d.primaries = c.primaries
    /\ d.ready = c.ready /\ d.primaryFor = c.primaryFor /\ d.stray = c.stray
    /\ DOMAIN d.conn = DOMAIN c.conn /\ DOMAIN d.sock = DOMAIN c.sock
    /\ \A x \in DOMAIN c.conn : /\ d.conn[x].ws = IF x = e THEN None ELSE c.conn[x].ws
                                /\ d.conn[x].server = c.conn[x].server
    /\ \A n \in DOMAIN c.sock :
          /\ d.sock[n].ep = c.sock[n].ep /\ d.sock[n].owned = c.sock[n].owned
          /\ d.sock[n].state = IF n = c.conn[e].ws THEN "closing" ELSE c.sock[n].state
          /\ d.sock[n].stage = c.sock[n].stage /\ d.sock[n].server = c.sock[n].server

LEMMA CloseSocketKeeps ==
    ASSUME NEW c, IsClient(c), NEW e \in DOMAIN c.conn
    PROVE  IsClient(CloseSocket(c, e)) /\ Shut(c, CloseSocket(c, e), e)
  <1> DEFINE n == c.conn[e].ws
             row == [c.conn[e] EXCEPT !.ws = None]
             conn == [c.conn EXCEPT ![e] = row]
             shut == [c.sock[n] EXCEPT !.state = "closing"]
             sock == IF n \in DOMAIN c.sock THEN [c.sock EXCEPT ![n] = shut] ELSE c.sock
             d == CloseSocket(c, e)
  <1>1. IsMap(c.conn, Endpoints, Connection) /\ IsMap(c.sock, Nat, Socket)
    BY DEF IsClient
  <1>2. row \in Connection /\ row.ws = None /\ row.server = c.conn[e].server
    BY <1>1 DEF IsMap, Connection
  <1>3. n \in DOMAIN c.sock => /\ shut \in Socket
                               /\ shut.ep = c.sock[n].ep /\ shut.owned = c.sock[n].owned
                               /\ shut.state = "closing" /\ shut.stage = c.sock[n].stage
                               /\ shut.server = c.sock[n].server
    BY <1>1 DEF IsMap, Socket
  <1>4. /\ IsMap(conn, Endpoints, Connection) /\ DOMAIN conn = DOMAIN c.conn
        /\ \A x \in DOMAIN c.conn : conn[x] = IF x = e THEN row ELSE c.conn[x]
    <2> HIDE DEF row
    <2> QED
      BY <1>1, <1>2, MapUpdate
  <1>5. /\ IsMap(sock, Nat, Socket) /\ DOMAIN sock = DOMAIN c.sock
        /\ \A x \in DOMAIN c.sock : sock[x] = IF x = n THEN shut ELSE c.sock[x]
    <2> HIDE DEF shut
    <2> QED
      BY <1>1, <1>3, MapUpdate
  <1>6. d = [c EXCEPT !.conn = conn, !.sock = sock, !.stray = c.stray]
    BY DEF CloseSocket, IsClient
  <1> HIDE DEF conn, sock, row, shut, n, d
  <1>7. IsClient(d)
    <2>1. \A x \in DOMAIN sock : sock[x].owned => sock[x].ep \in DOMAIN conn
      BY <1>3, <1>4, <1>5 DEF IsClient
    <2> QED
      BY <1>4, <1>5, <1>6, <2>1, ClientWith DEF IsClient
  <1>8. /\ d.conn = conn /\ d.sock = sock /\ d.senders = c.senders /\ d.primaries = c.primaries
        /\ d.ready = c.ready /\ d.primaryFor = c.primaryFor /\ d.stray = c.stray
    BY <1>6 DEF IsClient
  <1>9. \A x \in DOMAIN c.sock : d.sock[x].state = IF x = c.conn[e].ws THEN "closing"
                                                   ELSE c.sock[x].state
    BY <1>3, <1>5, <1>8 DEF n
  <1> QED
    BY <1>2, <1>3, <1>4, <1>5, <1>7, <1>8, <1>9 DEF Shut, d

LEMMA ShutSound ==
    ASSUME NEW c, IsClient(c), NEW d, NEW e \in DOMAIN c.conn, NEW X, Shut(c, d, e), Sound(c, X)
    PROVE  Sound(d, X \union {e})
  <1>1. Sound(c, X \union {e})
    BY SoundMore
  <1>2. SocketsSound(d)
    BY DEF Sound, SocketsSound, Shut
  <1>3. \A n \in DOMAIN c.sock : n = c.conn[e].ws => c.sock[n].ep = e
    BY EndpointsAssumption DEF Sound, SocketsSound, IsClient, IsMap
  <1>4. Like(c, d, X \union {e})
    BY <1>3 DEF Like, Shut
  <1> QED
    BY <1>1, <1>2, <1>4, LikeSound

-----------------------------------------------------------------------------
(* The election.                                                           *)

LEMMA LeastNatural ==
    ASSUME NEW T, T \subseteq Nat, T # {}
    PROVE  \E x \in T : \A y \in T : x <= y
  <1>1. IsWellFoundedOn(OpToRel(<, Nat), Nat)
    BY NatLessThanWellFounded
  <1>2. PICK x \in T : \A y \in T : ~ (<<y, x>> \in OpToRel(<, Nat))
    BY <1>1, WFMin
  <1>3. \A y \in Nat : <<y, x>> \in OpToRel(<, Nat) <=> y < x
    BY DEF OpToRel
  <1>4. ASSUME NEW y \in T PROVE x <= y
    <2>1. ~ (y < x) /\ x \in Nat /\ y \in Nat
      BY <1>2, <1>3
    <2> QED
      BY <2>1
  <1> QED
    BY <1>4

\* The list without its entry at place i.
LEMMA EntryRemoved ==
    ASSUME NEW S, NEW q \in Seq(S), NEW i \in DOMAIN q
    PROVE  /\ RemoveAt(q, i) \in Seq(S)
           /\ DOMAIN RemoveAt(q, i) = 1 .. Len(q) - 1
           /\ \A k \in 1 .. Len(q) - 1 : RemoveAt(q, i)[k] = IF k < i THEN q[k] ELSE q[k + 1]
  <1> DEFINE a == SubSeq(q, 1, i - 1)
             b == SubSeq(q, i + 1, Len(q))
  <1>1. i \in 1 .. Len(q) /\ Len(q) \in Nat
    OBVIOUS
  <1>2. a \in Seq(S) /\ Len(a) = i - 1 /\ \A k \in 1 .. i - 1 : a[k] = q[k]
    BY <1>1
  <1>3. b \in Seq(S) /\ Len(b) = Len(q) - i /\ \A k \in 1 .. Len(q) - i : b[k] = q[k + i]
    BY <1>1
  <1> HIDE DEF a, b
  <1>4. a \o b \in Seq(S) /\ Len(a \o b) = Len(q) - 1 /\ DOMAIN (a \o b) = 1 .. Len(q) - 1
    BY <1>1, <1>2, <1>3
  <1>5. ASSUME NEW k \in 1 .. Len(q) - 1
        PROVE  (a \o b)[k] = IF k < i THEN q[k] ELSE q[k + 1]
    <2>1. CASE k < i
      <3>1. k \in 1 .. i - 1
        BY <1>1, <2>1
      <3> QED
        BY <1>2, <1>3, <2>1, <3>1
    <2>2. CASE ~ (k < i)
      <3>1. k - (i - 1) \in 1 .. Len(q) - i /\ (k - (i - 1)) + i = k + 1
        BY <1>1, <2>2
      <3>2. (a \o b)[k] = b[k - (i - 1)]
        BY <1>1, <1>2, <1>3, <2>2, <3>1
      <3> QED
        BY <1>3, <2>2, <3>1, <3>2
    <2> QED
      BY <2>1, <2>2
  <1>6. RemoveAt(q, i) = a \o b
    BY DEF RemoveAt, a, b
  <1> QED
    BY <1>4, <1>5, <1>6

LEMMA EntryGone ==
    ASSUME NEW q \in Seq(ReadyEntry), NEW i \in DOMAIN q,
           \A j, k \in DOMAIN q : q[j].ep = q[k].ep => j = k,
           NEW r, r = RemoveAt(q, i)
    PROVE  /\ {r[k] : k \in DOMAIN r} = {x \in {q[k] : k \in DOMAIN q} : x.ep # q[i].ep}
           /\ \A j, k \in DOMAIN r : r[j].ep = r[k].ep => j = k
  <1>1. /\ r \in Seq(ReadyEntry) /\ DOMAIN r = 1 .. Len(q) - 1
        /\ \A k \in 1 .. Len(q) - 1 : r[k] = IF k < i THEN q[k] ELSE q[k + 1]
    BY EntryRemoved
  <1>2. i \in 1 .. Len(q) /\ DOMAIN q = 1 .. Len(q) /\ Len(q) \in Nat
    OBVIOUS
  <1>3. ASSUME NEW k \in 1 .. Len(q) - 1
        PROVE  \E m \in DOMAIN q : m # i /\ r[k] = q[m] /\ m = IF k < i THEN k ELSE k + 1
    BY <1>1, <1>2
  <1>4. ASSUME NEW k \in DOMAIN r PROVE r[k] \in {x \in {q[m] : m \in DOMAIN q} : x.ep # q[i].ep}
    <2>1. PICK m \in DOMAIN q : m # i /\ r[k] = q[m]
      BY <1>1, <1>3
    <2> QED
      BY <2>1
  <1>5. ASSUME NEW m \in DOMAIN q, q[m].ep # q[i].ep PROVE \E k \in DOMAIN r : r[k] = q[m]
    <2>1. CASE m < i
      <3>1. m \in 1 .. Len(q) - 1
        BY <1>2, <2>1
      <3> QED
        BY <1>1, <2>1, <3>1
    <2>2. CASE ~ (m < i)
      <3>1. m # i
        BY <1>5
      <3>2. m - 1 \in 1 .. Len(q) - 1 /\ ~ (m - 1 < i) /\ (m - 1) + 1 = m
        BY <1>2, <2>2, <3>1
      <3> QED
        BY <1>1, <3>2
    <2> QED
      BY <2>1, <2>2
  <1>6. {r[k] : k \in DOMAIN r} = {x \in {q[k] : k \in DOMAIN q} : x.ep # q[i].ep}
    BY <1>4, <1>5
  <1>7. ASSUME NEW j \in DOMAIN r, NEW k \in DOMAIN r, r[j].ep = r[k].ep PROVE j = k
    <2>1. PICK m \in DOMAIN q : r[j] = q[m] /\ m = IF j < i THEN j ELSE j + 1
      BY <1>1, <1>3
    <2>2. PICK o \in DOMAIN q : r[k] = q[o] /\ o = IF k < i THEN k ELSE k + 1
      BY <1>1, <1>3
    <2>3. m = o
      BY <1>7, <2>1, <2>2
    <2> QED
      BY <1>1, <1>2, <2>1, <2>2, <2>3
  <1> QED
    BY <1>6, <1>7

\* From c to d the endpoint e leaves the election; in its place may come one that sends.
Released(c, d, e) ==
    /\ d.conn = c.conn /\ d.sock = c.sock /\ d.senders = c.senders /\ d.stray = c.stray
    /\ d.ready = c.ready \/ \E i \in DOMAIN c.ready : d.ready = RemoveAt(c.ready, i)
    /\ \A x \in DOMAIN d.primaries : x \in DOMAIN c.primaries \union DOMAIN c.senders

LEMMA ReleaseKeeps ==
    ASSUME NEW c, IsClient(c), NEW e \in Endpoints
    PROVE  IsClient(ReleasePrimary(c, e)) /\ Released(c, ReleasePrimary(c, e), e)
  <1> DEFINE i == Place(c, e)
             s == c.ready[i].server
             others == RemoveAt(c.ready, i)
             standbys == {k \in DOMAIN others :
                             /\ others[k].server = s
                             /\ others[k].ep \in DOMAIN c.senders \intersect DOMAIN c.conn}
             next == others[Min(standbys)].ep
             held == s \in DOMAIN c.primaryFor /\ c.primaryFor[s] = e
             d == ReleasePrimary(c, e)
  <1>1. CASE ~ IsReady(c, e)
    BY <1>1 DEF ReleasePrimary, Released, IsClient, IsMap
  <1>2. CASE IsReady(c, e)
    <2>1. i \in DOMAIN c.ready /\ c.ready[i].ep = e
      BY <1>2 DEF IsReady, Place
    <2>2. c.ready \in Seq(ReadyEntry)
      BY DEF IsClient
    <2>3. others \in Seq(ReadyEntry) /\ s \in Servers
      <3>1. c.ready[i] \in ReadyEntry
        BY <2>1, <2>2
      <3>2. s \in Servers
        BY <3>1 DEF ReadyEntry
      <3> HIDE DEF i
      <3> QED
        BY <2>1, <2>2, <3>2, EntryRemoved
    <2>4. standbys # {} => next \in DOMAIN c.senders
      <3> SUFFICES ASSUME standbys # {} PROVE next \in DOMAIN c.senders
        OBVIOUS
      <3>1. standbys \subseteq Nat
        BY <2>3
      <3>2. Min(standbys) \in standbys
        <4> HIDE DEF standbys
        <4>1. \E x \in standbys : \A y \in standbys : x <= y
          BY <3>1, LeastNatural
        <4> QED
          BY <4>1 DEF Min
      <3> QED
        BY <3>2
    <2>5. d = IF ~ held THEN [c EXCEPT !.ready = others]
              ELSE IF standbys = {}
              THEN [c EXCEPT !.ready = others, !.primaryFor = Without(c.primaryFor, s)]
              ELSE [c EXCEPT !.ready = others, !.primaryFor = [c.primaryFor EXCEPT ![s] = next],
                             !.primaries = Put(c.primaries, next, c.senders[next])]
      BY <1>2 DEF ReleasePrimary
    <2>6. DOMAIN c.senders \subseteq Endpoints
      BY DEF IsClient, IsMap
    <2>7. i \in DOMAIN c.ready /\ others = RemoveAt(c.ready, i)
      BY <2>1
    <2> HIDE DEF i, s, others, standbys, next, held, d
    <2>8. CASE ~ held
      <3>1. /\ HasFields(d)
            /\ d.ready = others /\ d.conn = c.conn /\ d.sock = c.sock /\ d.senders = c.senders
            /\ d.primaries = c.primaries /\ d.primaryFor = c.primaryFor
            /\ d.phases = c.phases /\ d.stray = c.stray
        BY <2>5, <2>8 DEF IsClient, HasFields
      <3> QED
        BY <2>3, <2>7, <3>1 DEF IsClient, Released, d
    <2>9. CASE held /\ standbys = {}
      <3>1. /\ HasFields(d)
            /\ d.ready = others /\ d.conn = c.conn /\ d.sock = c.sock /\ d.senders = c.senders
            /\ d.primaries = c.primaries /\ d.primaryFor = Without(c.primaryFor, s)
            /\ d.phases = c.phases /\ d.stray = c.stray
        BY <2>5, <2>9 DEF IsClient, HasFields
      <3>2. IsMap(d.primaryFor, Servers, Endpoints)
        <4>1. IsMap(c.primaryFor, Servers, Endpoints)
          BY DEF IsClient
        <4>2. IsMap(Without(c.primaryFor, s), Servers, Endpoints)
          BY <4>1, MapWithout
        <4> QED
          BY <3>1, <4>2
      <3> QED
        BY <2>3, <2>7, <3>1, <3>2 DEF IsClient, Released, d
    <2>10. CASE held /\ standbys # {}
      <3>1. /\ HasFields(d)
            /\ d.ready = others /\ d.conn = c.conn /\ d.sock = c.sock /\ d.senders = c.senders
            /\ d.primaries = Put(c.primaries, next, c.senders[next])
            /\ d.primaryFor = [c.primaryFor EXCEPT ![s] = next]
            /\ d.phases = c.phases /\ d.stray = c.stray
        BY <2>5, <2>10 DEF IsClient, HasFields
      <3>2. next \in DOMAIN c.senders /\ next \in Endpoints /\ c.senders[next] \in Nat
        BY <2>4, <2>6, <2>10 DEF IsClient, IsMap
      <3>3. IsMap(d.primaryFor, Servers, Endpoints)
        <4>1. IsMap(c.primaryFor, Servers, Endpoints)
          BY DEF IsClient
        <4>2. IsMap([c.primaryFor EXCEPT ![s] = next], Servers, Endpoints)
          BY <3>2, <4>1, MapUpdate
        <4> QED
          BY <3>1, <4>2
      <3>4. /\ IsMap(d.primaries, DOMAIN c.senders, Nat)
            /\ DOMAIN d.primaries = DOMAIN c.primaries \union {next}
        <4>1. IsMap(c.primaries, DOMAIN c.senders, Nat)
          BY DEF IsClient
        <4>2. IsMap(Put(c.primaries, next, c.senders[next]), DOMAIN c.senders, Nat)
          BY <3>2, <4>1, MapPut
        <4>3. DOMAIN Put(c.primaries, next, c.senders[next]) = DOMAIN c.primaries \union {next}
          BY PutAt
        <4> QED
          BY <3>1, <4>2, <4>3
      <3> QED
        BY <2>3, <2>7, <3>1, <3>2, <3>3, <3>4 DEF IsClient, Released, d
    <2> QED
      BY <2>8, <2>9, <2>10
  <1> QED
    BY <1>1, <1>2

\* What comes of the server s of e, who was ready.
Succeeded(c, d, e, s) ==
    LET held == s \in DOMAIN c.primaryFor /\ c.primaryFor[s] = e IN
    \/ /\ ~held
       /\ d.primaryFor = c.primaryFor /\ d.primaries = c.primaries
    \/ /\ held
       /\ \A r \in Entries(d) : r.server = s => r.ep \notin DOMAIN c.senders \intersect DOMAIN c.conn
       /\ d.primaryFor = Without(c.primaryFor, s) /\ d.primaries = c.primaries
    \/ /\ held
       /\ \E next \in DOMAIN c.senders :
             /\ [ep |-> next, server |-> s] \in Entries(d)
             /\ d.primaryFor = [c.primaryFor EXCEPT ![s] = next]
             /\ d.primaries = Put(c.primaries, next, c.senders[next])

LEMMA ReleaseSucceeds ==
    ASSUME NEW c, IsClient(c), NEW e \in Endpoints, Once(c), IsReady(c, e),
           NEW d, d = ReleasePrimary(c, e)
    PROVE  /\ Once(d) /\ Entries(d) = {r \in Entries(c) : r.ep # e}
           /\ \E s \in Servers : [ep |-> e, server |-> s] \in Entries(c) /\ Succeeded(c, d, e, s)
  <1> DEFINE i == Place(c, e)
             s == c.ready[i].server
             others == RemoveAt(c.ready, i)
             standbys == {k \in DOMAIN others :
                             /\ others[k].server = s
                             /\ others[k].ep \in DOMAIN c.senders \intersect DOMAIN c.conn}
             next == others[Min(standbys)].ep
             held == s \in DOMAIN c.primaryFor /\ c.primaryFor[s] = e
  <1>1. i \in DOMAIN c.ready /\ c.ready[i].ep = e
    BY DEF IsReady, Place
  <1>2. c.ready \in Seq(ReadyEntry)
    BY DEF IsClient
  <1>3. c.ready[i] \in ReadyEntry
    BY <1>1, <1>2
  <1>4. s \in Servers /\ c.ready[i] = [ep |-> e, server |-> s] /\ c.ready[i] \in Entries(c)
    BY <1>1, <1>3 DEF ReadyEntry, Entries
  <1>5. others \in Seq(ReadyEntry)
    <2> HIDE DEF i
    <2> QED
      BY <1>1, <1>2, EntryRemoved
  <1>6. d = IF ~ held THEN [c EXCEPT !.ready = others]
            ELSE IF standbys = {}
            THEN [c EXCEPT !.ready = others, !.primaryFor = Without(c.primaryFor, s)]
            ELSE [c EXCEPT !.ready = others, !.primaryFor = [c.primaryFor EXCEPT ![s] = next],
                           !.primaries = Put(c.primaries, next, c.senders[next])]
    BY DEF ReleasePrimary
  <1>7. standbys # {} => next \in DOMAIN c.senders /\ [ep |-> next, server |-> s] \in
                                                        {others[k] : k \in DOMAIN others}
    <2> SUFFICES ASSUME standbys # {}
                 PROVE  next \in DOMAIN c.senders /\ [ep |-> next, server |-> s] \in
                                                       {others[k] : k \in DOMAIN others}
      OBVIOUS
    <2> DEFINE m == Min(standbys)
    <2>1. standbys \subseteq Nat
      BY <1>5
    <2>2. m \in standbys
      <3> HIDE DEF standbys
      <3>1. \E x \in standbys : \A y \in standbys : x <= y
        BY <2>1, LeastNatural
      <3> QED
        BY <3>1 DEF Min
    <2> HIDE DEF m
    <2>3. m \in DOMAIN others /\ others[m].server = s /\ others[m].ep \in DOMAIN c.senders
      BY <2>2
    <2>4. others[m] \in ReadyEntry
      BY <1>5, <2>3
    <2>5. others[m] = [ep |-> others[m].ep, server |-> s]
      BY <2>3, <2>4 DEF ReadyEntry
    <2> QED
      BY <2>3, <2>5 DEF m
  <1>8. d.ready = others
    BY <1>6 DEF IsClient, HasFields
  <1>9. Once(d) /\ Entries(d) = {r \in Entries(c) : r.ep # e}
    <2> HIDE DEF i
    <2>1. others = RemoveAt(c.ready, i)
      OBVIOUS
    <2> HIDE DEF others
    <2>2. \A j, k \in DOMAIN c.ready : c.ready[j].ep = c.ready[k].ep => j = k
      BY DEF Once
    <2>3. /\ {others[k] : k \in DOMAIN others} =
               {x \in {c.ready[k] : k \in DOMAIN c.ready} : x.ep # c.ready[i].ep}
          /\ \A j, k \in DOMAIN others : others[j].ep = others[k].ep => j = k
      BY <1>1, <1>2, <2>1, <2>2, EntryGone
    <2> QED
      BY <1>1, <1>8, <2>3 DEF Once, Entries
  <1>10. standbys = {} => \A r \in Entries(d) : r.server = s =>
                             r.ep \notin DOMAIN c.senders \intersect DOMAIN c.conn
    BY <1>8 DEF Entries
  <1>11. standbys # {} => next \in DOMAIN c.senders /\ [ep |-> next, server |-> s] \in Entries(d)
    BY <1>7, <1>8 DEF Entries
  <1> HIDE DEF standbys, next, others, i
  <1>12. Succeeded(c, d, e, s)
    <2>1. CASE ~ held
      <3>1. d.primaryFor = c.primaryFor /\ d.primaries = c.primaries
        BY <1>6, <2>1 DEF IsClient
      <3> QED
        BY <2>1, <3>1 DEF Succeeded
    <2>2. CASE held /\ standbys = {}
      <3>1. d.primaryFor = Without(c.primaryFor, s) /\ d.primaries = c.primaries
        BY <1>6, <2>2 DEF IsClient
      <3> QED
        BY <1>10, <2>2, <3>1 DEF Succeeded
    <2>3. CASE held /\ standbys # {}
      <3>1. /\ d.primaryFor = [c.primaryFor EXCEPT ![s] = next]
            /\ d.primaries = Put(c.primaries, next, c.senders[next])
        BY <1>6, <2>3 DEF IsClient
      <3> QED
        BY <1>11, <2>3, <3>1 DEF Succeeded
    <2> QED
      BY <2>1, <2>2, <2>3
  <1> HIDE DEF s
  <1> QED
    BY <1>4, <1>9, <1>12

LEMMA ReleaseSound ==
    ASSUME NEW c, IsClient(c), NEW e \in Endpoints, Sound(c, {e}),
           e \notin DOMAIN c.senders, e \notin DOMAIN c.primaries,
           NEW d, d = ReleasePrimary(c, e)
    PROVE  Sound(d, {}) /\ ~ IsReady(d, e)
  <1>1. d.conn = c.conn /\ d.sock = c.sock /\ d.senders = c.senders
    BY ReleaseKeeps DEF Released
  <1>2. SocketsSound(d)
    BY <1>1 DEF Sound, SocketsSound
  <1>3. SendersSound(d, {})
    BY <1>1 DEF Sound, SendersSound, Carries
  <1>4. CASE ~ IsReady(c, e)
    <2>1. d = c
      BY <1>4 DEF ReleasePrimary
    <2>2. \A r \in Entries(c) : r.ep # e
      BY <1>4 DEF IsReady, Entries
    <2>3. ReadySound(d, {})
      BY <2>1, <2>2 DEF Sound, ReadySound
    <2>4. PrimariesSound(d, {})
      <3>1. \A s \in DOMAIN c.primaryFor : c.primaryFor[s] # e
        <4> SUFFICES ASSUME NEW s \in DOMAIN c.primaryFor, c.primaryFor[s] = e PROVE FALSE
          OBVIOUS
        <4>1. [ep |-> c.primaryFor[s], server |-> s] \in Entries(c)
          BY DEF Sound, PrimariesSound
        <4> QED
          BY <2>2, <4>1
      <3> QED
        BY <2>1, <3>1 DEF Sound, PrimariesSound
    <2> QED
      BY <1>2, <1>3, <1>4, <2>1, <2>3, <2>4 DEF Sound
  <1>5. CASE IsReady(c, e)
    <2>1. Once(d) /\ Entries(d) = {r \in Entries(c) : r.ep # e}
      BY <1>5, ReleaseSucceeds DEF Sound
    <2>2. PICK s \in Servers : [ep |-> e, server |-> s] \in Entries(c) /\ Succeeded(c, d, e, s)
      BY <1>5, ReleaseSucceeds DEF Sound
    <2>3. ReadySound(d, {})
      BY <1>1, <2>1 DEF Sound, ReadySound
    <2>4. \A r \in Entries(c) : r.ep = e => r.server = s
      BY <2>2 DEF Sound, Once, Entries
    <2>5. PrimariesSound(d, {})
      <3> DEFINE held == s \in DOMAIN c.primaryFor /\ c.primaryFor[s] = e
      <3>1. PrimariesSound(c, {e})
        BY DEF Sound
      <3>2. ASSUME NEW t \in DOMAIN c.primaryFor, c.primaryFor[t] = e PROVE t = s
        <4>1. [ep |-> e, server |-> t] \in Entries(c)
          BY <3>1, <3>2 DEF PrimariesSound
        <4> QED
          BY <2>4, <4>1
      <3>3. CASE ~ held
        <4>1. d.primaryFor = c.primaryFor /\ d.primaries = c.primaries
          BY <2>2, <3>3 DEF Succeeded
        <4>2. \A t \in DOMAIN c.primaryFor : c.primaryFor[t] # e
          BY <3>2, <3>3
        <4> QED
          BY <1>1, <2>1, <3>1, <4>1, <4>2 DEF PrimariesSound
      <3>4. CASE /\ held /\ d.primaryFor = Without(c.primaryFor, s) /\ d.primaries = c.primaries
                 /\ \A r \in Entries(d) : r.server = s =>
                       r.ep \notin DOMAIN c.senders \intersect DOMAIN c.conn
        <4>1. /\ DOMAIN d.primaryFor = DOMAIN c.primaryFor \ {s}
              /\ \A t \in DOMAIN d.primaryFor : d.primaryFor[t] = c.primaryFor[t]
          <5>1. /\ DOMAIN Without(c.primaryFor, s) = DOMAIN c.primaryFor \ {s}
                /\ \A t \in DOMAIN c.primaryFor \ {s} :
                      Without(c.primaryFor, s)[t] = c.primaryFor[t]
            BY WithoutAt
          <5> QED
            BY <3>4, <5>1
        <4>2. \A r \in Entries(d) : r.server # s
          BY <1>1, <2>3, <3>4 DEF ReadySound
        <4>3. \A t \in DOMAIN d.primaryFor : c.primaryFor[t] # e
          BY <3>2, <4>1
        <4> QED
          BY <1>1, <2>1, <3>1, <3>4, <4>1, <4>2, <4>3 DEF PrimariesSound
      <3>5. ASSUME held, NEW next \in DOMAIN c.senders, [ep |-> next, server |-> s] \in Entries(d),
                   d.primaryFor = [c.primaryFor EXCEPT ![s] = next],
                   d.primaries = Put(c.primaries, next, c.senders[next])
            PROVE  PrimariesSound(d, {})
        <4>1. /\ DOMAIN d.primaryFor = DOMAIN c.primaryFor
              /\ \A t \in DOMAIN c.primaryFor :
                    d.primaryFor[t] = IF t = s THEN next ELSE c.primaryFor[t]
          BY <3>5 DEF IsClient, IsMap
        <4>2. /\ DOMAIN d.primaries = DOMAIN c.primaries \union {next}
              /\ d.primaries[next] = c.senders[next]
              /\ \A x \in DOMAIN c.primaries : x # next => d.primaries[x] = c.primaries[x]
          <5> DEFINE f == c.primaries
                     v == c.senders[next]
          <5>1. /\ DOMAIN Put(f, next, v) = DOMAIN f \union {next} /\ Put(f, next, v)[next] = v
                /\ \A x \in DOMAIN f : Put(f, next, v)[x] = IF x = next THEN v ELSE f[x]
            <6> HIDE DEF f, v
            <6> QED
              BY DEF Put
          <5> QED
            BY <3>5, <5>1
        <4>3. ASSUME NEW x \in DOMAIN d.primaries
              PROVE  /\ d.primaries[x] = d.senders[x]
                     /\ \E t \in DOMAIN d.primaryFor :
                           d.primaryFor[t] = x /\ [ep |-> x, server |-> t] \in Entries(d)
          <5>1. CASE x = next
            BY <1>1, <3>5, <4>1, <4>2, <5>1
          <5>2. CASE x # next
            <6>1. x \in DOMAIN c.primaries /\ x # e
              BY <4>2, <5>2
            <6>2. PICK t \in DOMAIN c.primaryFor :
                     c.primaryFor[t] = x /\ [ep |-> x, server |-> t] \in Entries(c)
              BY <3>1, <6>1 DEF PrimariesSound
            <6>3. t # s /\ [ep |-> x, server |-> t] \in Entries(d)
              BY <2>1, <3>5, <6>1, <6>2
            <6> QED
              BY <1>1, <3>1, <4>1, <4>2, <5>2, <6>1, <6>2, <6>3 DEF PrimariesSound
          <5> QED
            BY <5>1, <5>2
        <4>4. ASSUME NEW t \in DOMAIN d.primaryFor
              PROVE  /\ [ep |-> d.primaryFor[t], server |-> t] \in Entries(d)
                     /\ d.primaryFor[t] \in DOMAIN d.primaries
          <5>1. CASE t = s
            BY <3>5, <4>1, <4>2, <5>1
          <5>2. CASE t # s
            <6>1. c.primaryFor[t] # e
              BY <3>2, <4>1, <5>2
            <6> QED
              BY <2>1, <3>1, <4>1, <4>2, <5>2, <6>1 DEF PrimariesSound
          <5> QED
            BY <5>1, <5>2
        <4>5. \A r \in Entries(d) : r.server \in DOMAIN d.primaryFor
          BY <2>1, <3>1, <4>1 DEF PrimariesSound
        <4> QED
          BY <4>3, <4>4, <4>5 DEF PrimariesSound
      <3> QED
        BY <2>2, <3>3, <3>4, <3>5 DEF Succeeded
    <2>6. ~ IsReady(d, e)
      BY <2>1 DEF IsReady, Entries
    <2> QED
      BY <1>2, <1>3, <2>1, <2>3, <2>5, <2>6 DEF Sound
  <1> QED
    BY <1>4, <1>5

LEMMA ForgetKeeps ==
    ASSUME NEW c, IsClient(c), NEW e \in Endpoints, NEW d, d = Forget(c, e)
    PROVE  /\ IsClient(d) /\ d.conn = c.conn /\ d.sock = c.sock /\ d.stray = c.stray
           /\ e \notin DOMAIN d.senders /\ e \notin DOMAIN d.primaries
           /\ Sound(c, {e}) => Sound(d, {}) /\ ~ IsReady(d, e)
  <1> DEFINE b == [c EXCEPT !.primaries = Without(@, e), !.senders = Without(@, e)]
  <1>1. /\ HasFields(b)
        /\ b.conn = c.conn /\ b.sock = c.sock /\ b.ready = c.ready
        /\ b.primaryFor = c.primaryFor /\ b.phases = c.phases /\ b.stray = c.stray
        /\ b.senders = Without(c.senders, e) /\ b.primaries = Without(c.primaries, e)
    BY DEF IsClient, HasFields
  <1>2. d = ReleasePrimary(b, e)
    BY DEF Forget
  <1> HIDE DEF b
  <1>3. /\ DOMAIN b.senders = DOMAIN c.senders \ {e}
        /\ \A x \in DOMAIN b.senders : b.senders[x] = c.senders[x]
        /\ DOMAIN b.primaries = DOMAIN c.primaries \ {e}
        /\ \A x \in DOMAIN b.primaries : b.primaries[x] = c.primaries[x]
    BY <1>1 DEF Without, Restrict
  <1>4. IsMap(b.senders, Endpoints, Nat) /\ IsMap(b.primaries, DOMAIN b.senders, Nat)
    <2>1. IsMap(c.senders, Endpoints, Nat) /\ IsMap(c.primaries, DOMAIN c.senders, Nat)
      BY DEF IsClient
    <2> QED
      BY <1>1, <2>1 DEF IsMap, Without, Restrict
  <1>5. IsClient(b)
    BY <1>1, <1>4 DEF IsClient
  <1>6. IsClient(d) /\ Released(b, d, e)
    BY <1>2, <1>5, ReleaseKeeps
  <1>7. e \notin DOMAIN d.senders /\ e \notin DOMAIN d.primaries
    BY <1>3, <1>6 DEF Released
  <1>8. ASSUME Sound(c, {e}) PROVE Sound(d, {}) /\ ~ IsReady(d, e)
    <2>1. Once(b) /\ SocketsSound(b) /\ Entries(b) = Entries(c)
      BY <1>1, <1>8 DEF Sound, Once, SocketsSound, Entries
    <2>2. SendersSound(b, {e})
      BY <1>1, <1>3, <1>8 DEF Sound, SendersSound, Carries
    <2>3. ReadySound(b, {e})
      BY <1>1, <1>3, <1>8, <2>1 DEF Sound, ReadySound
    <2>4. PrimariesSound(b, {e})
      <3>1. PrimariesSound(c, {e}) /\ DOMAIN c.primaries \subseteq DOMAIN c.senders
        BY <1>8 DEF Sound, IsClient, IsMap
      <3> QED
        BY <1>1, <1>3, <2>1, <3>1 DEF PrimariesSound
    <2>5. Sound(b, {e})
      BY <2>1, <2>2, <2>3, <2>4 DEF Sound
    <2> QED
      BY <1>2, <1>3, <1>5, <2>5, ReleaseSound
  <1> QED
    BY <1>1, <1>6, <1>7, <1>8 DEF Released

-----------------------------------------------------------------------------
(* Phases and retries.                                                     *)

LEMMA RetimedKeeps ==
    ASSUME NEW c, IsClient(c), NEW d, HasFields(d),
           DOMAIN d.conn = DOMAIN c.conn, d.conn = [x \in DOMAIN d.conn |-> d.conn[x]],
           \A x \in DOMAIN c.conn : /\ d.conn[x] \in Connection
                                    /\ d.conn[x].ws = c.conn[x].ws
                                    /\ d.conn[x].server = c.conn[x].server,
           IsMap(d.phases, Endpoints, Phase \union {"disabled"}),
           d.sock = c.sock, d.senders = c.senders, d.primaries = c.primaries,
           d.ready = c.ready, d.primaryFor = c.primaryFor, d.stray = c.stray
    PROVE  IsClient(d) /\ Untimed(c, d)
  <1>1. IsMap(d.conn, Endpoints, Connection)
    <2>1. DOMAIN c.conn \subseteq Endpoints
      BY DEF IsClient, IsMap
    <2> QED
      BY <2>1 DEF IsMap
  <1>2. IsClient(d)
    BY <1>1 DEF IsClient
  <1> QED
    BY <1>2 DEF Untimed

\* The connections with their retries set or cancelled
LEMMA RetryRow ==
    ASSUME NEW r \in Connection, NEW b \in BOOLEAN
    PROVE  LET q == [r EXCEPT !.retry = b] IN
           q \in Connection /\ q.ws = r.ws /\ q.server = r.server /\ q.phase = r.phase
  BY DEF Connection

LEMMA OnStatusKeeps ==
    ASSUME NEW c, IsClient(c), NEW e \in Endpoints, NEW phase \in Phase,
           NEW d, d = OnStatus(c, e, phase)
    PROVE  /\ IsClient(d)
           /\ Untimed(IF phase = "ready" THEN c ELSE Forget(c, e), d)
           /\ d.sock = c.sock /\ d.stray = c.stray
  <1> DEFINE gone == IF phase = "ready" THEN c ELSE Forget(c, e)
             phases == Put(gone.phases, e, phase)
             noted == [gone EXCEPT !.phases = phases]
             calm == [x \in DOMAIN noted.conn |->
                        IF x = e THEN noted.conn[x] ELSE [noted.conn[x] EXCEPT !.retry = FALSE]]
             keen == [x \in DOMAIN noted.conn |->
                        IF noted.conn[x].phase = "error" THEN [noted.conn[x] EXCEPT !.retry = TRUE]
                        ELSE noted.conn[x]]
  <1>1. IsClient(gone) /\ gone.sock = c.sock /\ gone.stray = c.stray
    BY ForgetKeeps
  <1>2. \/ d = noted
        \/ d = [noted EXCEPT !.conn = calm]
        \/ d = [noted EXCEPT !.conn = keen]
    BY DEF OnStatus
  <1>3. IsMap(phases, Endpoints, Phase \union {"disabled"})
    <2>1. IsMap(gone.phases, Endpoints, Phase \union {"disabled"})
      BY <1>1 DEF IsClient
    <2> QED
      BY <2>1, MapPut
  <1>4. /\ HasFields(noted) /\ noted.conn = gone.conn /\ noted.phases = phases
        /\ noted.sock = gone.sock /\ noted.senders = gone.senders
        /\ noted.primaries = gone.primaries /\ noted.ready = gone.ready
        /\ noted.primaryFor = gone.primaryFor /\ noted.stray = gone.stray
    <2> HIDE DEF gone, phases
    <2> QED
      BY <1>1 DEF IsClient, HasFields
  <1>5. /\ gone.conn = [x \in DOMAIN gone.conn |-> gone.conn[x]]
        /\ \A x \in DOMAIN gone.conn : gone.conn[x] \in Connection
    BY <1>1 DEF IsClient, IsMap
  <1> HIDE DEF noted, phases, gone
  <1>6. /\ DOMAIN calm = DOMAIN gone.conn /\ calm = [x \in DOMAIN calm |-> calm[x]]
        /\ \A x \in DOMAIN gone.conn : /\ calm[x] \in Connection
                                       /\ calm[x].ws = gone.conn[x].ws
                                       /\ calm[x].server = gone.conn[x].server
    BY <1>4, <1>5, RetryRow
  <1>7. /\ DOMAIN keen = DOMAIN gone.conn /\ keen = [x \in DOMAIN keen |-> keen[x]]
        /\ \A x \in DOMAIN gone.conn : /\ keen[x] \in Connection
                                       /\ keen[x].ws = gone.conn[x].ws
                                       /\ keen[x].server = gone.conn[x].server
    BY <1>4, <1>5, RetryRow
  <1> HIDE DEF calm, keen
  <1>8. /\ HasFields(d) /\ d.conn \in {gone.conn, calm, keen} /\ d.phases = phases
        /\ d.sock = gone.sock /\ d.senders = gone.senders
        /\ d.primaries = gone.primaries /\ d.ready = gone.ready
        /\ d.primaryFor = gone.primaryFor /\ d.stray = gone.stray
    BY <1>2, <1>4 DEF HasFields
  <1>9. IsClient(d) /\ Untimed(gone, d)
    <2>1. /\ DOMAIN d.conn = DOMAIN gone.conn /\ d.conn = [x \in DOMAIN d.conn |-> d.conn[x]]
          /\ \A x \in DOMAIN gone.conn : /\ d.conn[x] \in Connection
                                         /\ d.conn[x].ws = gone.conn[x].ws
                                         /\ d.conn[x].server = gone.conn[x].server
      BY <1>5, <1>6, <1>7, <1>8
    <2> QED
      BY <1>1, <1>3, <1>8, <2>1, RetimedKeeps
  <1> QED
    BY <1>1, <1>8, <1>9 DEF gone

\* From c to d sockets stay, and connections but for timers and phases.
Framed(c, d) ==
    /\ d.sock = c.sock /\ d.stray = c.stray /\ DOMAIN d.conn = DOMAIN c.conn
    /\ \A x \in DOMAIN c.conn : /\ d.conn[x].ws = c.conn[x].ws
                                /\ d.conn[x].server = c.conn[x].server

\* Endpoint e neither sends nor is ready.
Silent(d, e) == e \notin DOMAIN d.senders /\ ~ IsReady(d, e)

\* An endpoint that does not send need not be spared.
LEMMA SilentSound ==
    ASSUME NEW c, IsClient(c), NEW e, Silent(c, e), Sound(c, {e})
    PROVE  Sound(c, {})
  <1>1. e \notin DOMAIN c.senders /\ e \notin DOMAIN c.primaries
    BY DEF Silent, IsClient, IsMap
  <1>2. \A r \in Entries(c) : r.ep # e
    BY DEF Silent, IsReady, Entries
  <1>3. \A s \in DOMAIN c.primaryFor : c.primaryFor[s] # e
    <2> SUFFICES ASSUME NEW s \in DOMAIN c.primaryFor, c.primaryFor[s] = e PROVE FALSE
      OBVIOUS
    <2>1. [ep |-> c.primaryFor[s], server |-> s] \in Entries(c)
      BY DEF Sound, PrimariesSound
    <2> QED
      BY <1>2, <2>1
  <1>4. SendersSound(c, {}) /\ ReadySound(c, {})
    BY <1>1, <1>2 DEF Sound, SendersSound, ReadySound
  <1>5. PrimariesSound(c, {})
    BY <1>1, <1>3 DEF Sound, PrimariesSound
  <1> QED
    BY <1>4, <1>5 DEF Sound

LEMMA OnStatusSilences ==
    ASSUME NEW c, IsClient(c), NEW e \in Endpoints, NEW phase \in Phase, phase # "ready",
           NEW d, d = OnStatus(c, e, phase)
    PROVE  /\ IsClient(d) /\ Framed(c, d) /\ e \notin DOMAIN d.senders
           /\ Sound(c, {e}) => Sound(d, {}) /\ Silent(d, e)
  <1>1. PICK g : g = Forget(c, e)
    OBVIOUS
  <1>2. /\ IsClient(g) /\ g.conn = c.conn /\ g.sock = c.sock /\ g.stray = c.stray
        /\ e \notin DOMAIN g.senders
        /\ Sound(c, {e}) => Sound(g, {}) /\ ~ IsReady(g, e)
    BY <1>1, ForgetKeeps
  <1>3. IsClient(d) /\ Untimed(g, d)
    BY <1>1, OnStatusKeeps
  <1>4. Framed(c, d) /\ e \notin DOMAIN d.senders
    <2>1. d.sock = c.sock /\ d.stray = c.stray
      BY OnStatusKeeps
    <2> QED
      BY <1>2, <1>3, <2>1 DEF Untimed, Framed
  <1>5. ASSUME Sound(c, {e}) PROVE Sound(d, {}) /\ Silent(d, e)
    <2>1. Sound(d, {})
      BY <1>2, <1>3, <1>5, UntimedSound
    <2>2. ~ IsReady(d, e)
      BY <1>2, <1>3, <1>5 DEF Untimed, IsReady
    <2> QED
      BY <1>4, <2>1, <2>2 DEF Silent
  <1> QED
    BY <1>3, <1>4, <1>5

LEMMA SetPhaseKeeps ==
    ASSUME NEW c, IsClient(c), NEW n \in DOMAIN c.sock, NEW e, e = c.sock[n].ep,
           NEW phase \in Phase, NEW d, d = SetPhase(c, n, phase)
    PROVE  /\ IsClient(d) /\ Framed(c, d)
           /\ phase = "ready" => Untimed(c, d)
           /\ phase # "ready" =>
                 /\ e \notin DOMAIN d.senders
                 /\ Sound(c, {e}) => Sound(d, {}) /\ Silent(d, e)
  <1>1. PICK b : b = IF c.sock[n].owned THEN [c EXCEPT !.conn[e].phase = phase] ELSE c
    OBVIOUS
  <1>2. e \in Endpoints /\ (c.sock[n].owned => e \in DOMAIN c.conn)
    BY DEF IsClient, IsMap, Socket
  <1>3. IsClient(b) /\ Untimed(c, b) /\ b.sock = c.sock
    <2>1. CASE ~ c.sock[n].owned
      BY <1>1, <2>1 DEF Untimed
    <2>2. CASE c.sock[n].owned
      <3> DEFINE row == [c.conn[e] EXCEPT !.phase = phase]
      <3>1. IsMap(c.conn, Endpoints, Connection)
        BY DEF IsClient
      <3>2. row \in Connection /\ row.ws = c.conn[e].ws /\ row.server = c.conn[e].server
        BY <1>2, <2>2, <3>1 DEF IsMap, Connection
      <3>3. /\ HasFields(b) /\ b.conn = [c.conn EXCEPT ![e] = row]
            /\ b.sock = c.sock /\ b.senders = c.senders /\ b.primaries = c.primaries
            /\ b.ready = c.ready /\ b.primaryFor = c.primaryFor /\ b.stray = c.stray
            /\ b.phases = c.phases
        BY <1>1, <2>2 DEF IsClient, HasFields
      <3> HIDE DEF row
      <3>4. /\ DOMAIN b.conn = DOMAIN c.conn /\ b.conn = [x \in DOMAIN b.conn |-> b.conn[x]]
            /\ \A x \in DOMAIN c.conn : /\ b.conn[x] \in Connection
                                        /\ b.conn[x].ws = c.conn[x].ws
                                        /\ b.conn[x].server = c.conn[x].server
        BY <1>2, <3>1, <3>2, <3>3 DEF IsMap
      <3>5. IsMap(b.phases, Endpoints, Phase \union {"disabled"})
        BY <3>3 DEF IsClient
      <3> QED
        BY <3>3, <3>4, <3>5, RetimedKeeps
    <2> QED
      BY <2>1, <2>2
  <1>4. d = OnStatus(b, e, phase)
    BY <1>1 DEF SetPhase
  <1>5. IsClient(d) /\ d.sock = c.sock /\ d.stray = c.stray
    BY <1>2, <1>3, <1>4, OnStatusKeeps DEF Untimed
  <1>6. CASE phase = "ready"
    <2>1. Untimed(b, d)
      BY <1>2, <1>3, <1>4, <1>6, OnStatusKeeps
    <2>2. Untimed(c, d)
      BY <1>3, <2>1 DEF Untimed
    <2> QED
      BY <1>5, <1>6, <2>2 DEF Untimed, Framed
  <1>7. CASE phase # "ready"
    <2>1. /\ Framed(b, d) /\ e \notin DOMAIN d.senders
          /\ Sound(b, {e}) => Sound(d, {}) /\ Silent(d, e)
      BY <1>2, <1>3, <1>4, <1>7, OnStatusSilences
    <2>2. Framed(c, d)
      BY <1>3, <2>1 DEF Framed, Untimed
    <2>3. Sound(c, {e}) => Sound(b, {e})
      BY <1>3, UntimedSound
    <2> QED
      BY <1>5, <1>7, <2>1, <2>2, <2>3
  <1> QED
    BY <1>6, <1>7

LEMMA NeedsRetryKeeps ==
    ASSUME NEW c, IsClient(c), NEW e \in DOMAIN c.conn, NEW d, d = NeedsRetry(c, e)
    PROVE  IsClient(d) /\ Untimed(c, d)
  <1> DEFINE row == [c.conn[e] EXCEPT !.retry = TRUE]
  <1>1. IsMap(c.conn, Endpoints, Connection)
    BY DEF IsClient
  <1>2. row \in Connection /\ row.ws = c.conn[e].ws /\ row.server = c.conn[e].server
    BY <1>1 DEF IsMap, Connection
  <1>3. CASE d = c
    BY <1>3 DEF Untimed
  <1>4. CASE d = [c EXCEPT !.conn[e].retry = TRUE]
    <2>1. /\ HasFields(d) /\ d.conn = [c.conn EXCEPT ![e] = row]
          /\ d.sock = c.sock /\ d.senders = c.senders /\ d.primaries = c.primaries
          /\ d.ready = c.ready /\ d.primaryFor = c.primaryFor /\ d.stray = c.stray
          /\ d.phases = c.phases
      BY <1>4 DEF IsClient, HasFields
    <2> HIDE DEF row
    <2>2. /\ DOMAIN d.conn = DOMAIN c.conn /\ d.conn = [x \in DOMAIN d.conn |-> d.conn[x]]
          /\ \A x \in DOMAIN c.conn : /\ d.conn[x] \in Connection
                                      /\ d.conn[x].ws = c.conn[x].ws
                                      /\ d.conn[x].server = c.conn[x].server
      BY <1>1, <1>2, <2>1 DEF IsMap
    <2>3. IsMap(d.phases, Endpoints, Phase \union {"disabled"})
      BY <2>1 DEF IsClient
    <2> QED
      BY <2>1, <2>2, <2>3, RetimedKeeps
  <1> QED
    BY <1>3, <1>4 DEF NeedsRetry

-----------------------------------------------------------------------------
(* Connecting and stopping.                                                *)

LEMMA NewSocketIsNew ==
    ASSUME NEW c, IsClient(c)
    PROVE  NewSocket(c) \in Nat /\ NewSocket(c) \notin DOMAIN c.sock
  <1> DEFINE D == DOMAIN c.sock
             T == 1 .. Cardinality(D) + 1
  <1>1. IsFiniteSet(D) /\ Cardinality(D) \in Nat
    BY FS_CardinalityType DEF IsClient
  <1>2. IsFiniteSet(T) /\ Cardinality(T) = Cardinality(D) + 1
    BY <1>1, FS_Interval
  <1>3. ASSUME T \subseteq D PROVE FALSE
    <2>1. Cardinality(T) <= Cardinality(D)
      BY <1>1, <1>3, FS_Subset
    <2> QED
      BY <1>1, <1>2, <2>1
  <1>4. PICK n \in T : n \notin D
    BY <1>3
  <1>5. NewSocket(c) \in T /\ NewSocket(c) \notin D
    BY <1>4 DEF NewSocket
  <1>6. T \subseteq Nat
    BY <1>1
  <1> QED
    BY <1>5, <1>6

LEMMA ConnectKeeps ==
    ASSUME NEW c, IsClient(c), NEW e \in DOMAIN c.conn, NEW d, d = Connect(c, e)
    PROVE  /\ IsClient(d) /\ d.stray = c.stray /\ DOMAIN d.conn = DOMAIN c.conn
           /\ Sound(c, {e}) => Sound(d, {})
  <1> DEFINE n == NewSocket(c)
             socket == [ep |-> e, owned |-> TRUE, state |-> "connecting", timed |-> TRUE,
                        stage |-> "none", server |-> c.conn[e].server]
             row == [c.conn[e] EXCEPT !.phase = "connecting", !.ws = n, !.timer = n]
             conn == [c.conn EXCEPT ![e] = row]
             sock == Put(c.sock, n, socket)
  <1>1. PICK b : b = [c EXCEPT !.conn = conn, !.sock = sock, !.stray = c.stray]
    OBVIOUS
  <1>2. d = OnStatus(b, e, "connecting")
    <2>1. b = [c EXCEPT !.conn[e] = [@ EXCEPT !.phase = "connecting", !.ws = n, !.timer = n],
                        !.sock = Put(@, n, socket)]
      BY <1>1 DEF IsClient, HasFields
    <2> QED
      BY <2>1 DEF Connect
  <1>3. n \in Nat /\ n \notin DOMAIN c.sock
    BY NewSocketIsNew
  <1>4. IsMap(c.conn, Endpoints, Connection) /\ IsMap(c.sock, Nat, Socket)
    BY DEF IsClient
  <1>5. e \in Endpoints /\ c.conn[e] \in Connection
    BY <1>4 DEF IsMap
  <1> HIDE DEF n
  <1>6. /\ row \in Connection /\ row.ws = n /\ row.server = c.conn[e].server
    BY <1>3, <1>5 DEF Connection, Phase
  <1>7. socket \in Socket
    BY <1>5 DEF Connection, Socket
  <1>8. socket.ep = e /\ socket.owned /\ socket.server = c.conn[e].server
    OBVIOUS
  <1> HIDE DEF row, socket
  <1>9. /\ IsMap(conn, Endpoints, Connection) /\ DOMAIN conn = DOMAIN c.conn
        /\ \A x \in DOMAIN c.conn : conn[x] = IF x = e THEN row ELSE c.conn[x]
    BY <1>4, <1>6, MapUpdate
  <1>10. IsMap(sock, Nat, Socket)
    BY <1>3, <1>4, <1>7, MapPut
  <1>11. /\ DOMAIN sock = DOMAIN c.sock \union {n} /\ sock[n] = socket
         /\ \A x \in DOMAIN c.sock : sock[x] = c.sock[x]
    BY <1>3 DEF Put
  <1>12. IsFiniteSet(DOMAIN sock)
    <2>1. IsFiniteSet(DOMAIN c.sock)
      BY DEF IsClient
    <2> QED
      BY <1>11, <2>1, FS_AddElement
  <1> HIDE DEF conn, sock
  <1>13. IsClient(b)
    <2>1. \A x \in DOMAIN sock : sock[x].owned => sock[x].ep \in DOMAIN conn
      BY <1>8, <1>9, <1>11 DEF IsClient
    <2> QED
      BY <1>1, <1>9, <1>10, <1>12, <2>1, ClientWith DEF IsClient
  <1>14. /\ b.conn = conn /\ b.sock = sock /\ b.senders = c.senders /\ b.primaries = c.primaries
         /\ b.ready = c.ready /\ b.primaryFor = c.primaryFor /\ b.stray = c.stray
    BY <1>1 DEF IsClient, HasFields
  <1>15. ASSUME Sound(c, {e}) PROVE Sound(b, {e})
    <2>1. SocketsSound(c)
      BY <1>15 DEF Sound
    <2>2. SocketsSound(b)
      <3>1. ASSUME NEW m \in DOMAIN b.sock
            PROVE  IF b.sock[m].owned
                   THEN /\ b.sock[m].ep \in DOMAIN b.conn
                        /\ b.sock[m].server = b.conn[b.sock[m].ep].server
                   ELSE b.sock[m].state = "closing"
        <4>1. CASE m = n
          BY <1>6, <1>8, <1>9, <1>11, <1>14, <4>1
        <4>2. CASE m # n
          <5>1. m \in DOMAIN c.sock /\ b.sock[m] = c.sock[m]
            BY <1>11, <1>14, <3>1, <4>2
          <5> QED
            BY <1>6, <1>9, <1>14, <2>1, <5>1 DEF SocketsSound
        <4> QED
          BY <4>1, <4>2
      <3>2. ASSUME NEW x \in DOMAIN b.conn, b.conn[x].ws # None
            PROVE  /\ b.conn[x].ws \in DOMAIN b.sock
                   /\ b.sock[b.conn[x].ws].ep = x /\ b.sock[b.conn[x].ws].owned
        <4>1. CASE x = e
          BY <1>6, <1>8, <1>9, <1>11, <1>14, <4>1
        <4>2. CASE x # e
          <5>1. x \in DOMAIN c.conn /\ b.conn[x] = c.conn[x]
            BY <1>9, <1>14, <3>2, <4>2
          <5> QED
            BY <1>11, <1>14, <2>1, <3>2, <5>1 DEF SocketsSound
        <4> QED
          BY <4>1, <4>2
      <3> QED
        BY <3>1, <3>2 DEF SocketsSound
    <2>3. Like(c, b, {e})
      BY <1>9, <1>11, <1>14 DEF Like
    <2> QED
      BY <1>15, <2>2, <2>3, LikeSound
  <1>16. "connecting" \in Phase /\ "connecting" # "ready"
    BY DEF Phase
  <1>17. /\ IsClient(d) /\ Framed(b, d)
         /\ Sound(b, {e}) => Sound(d, {})
    BY <1>2, <1>5, <1>13, <1>16, OnStatusSilences
  <1> QED
    BY <1>9, <1>14, <1>15, <1>17 DEF Framed

\* A connection's retry set or cancelled
LEMMA RetryKeeps ==
    ASSUME NEW c, IsClient(c), NEW e \in DOMAIN c.conn, NEW b \in BOOLEAN
    PROVE  LET d == [c EXCEPT !.conn[e].retry = b] IN IsClient(d) /\ Untimed(c, d)
  <1>0. PICK d : d = [c EXCEPT !.conn[e].retry = b]
    OBVIOUS
  <1> DEFINE row == [c.conn[e] EXCEPT !.retry = b]
  <1>1. IsMap(c.conn, Endpoints, Connection)
    BY DEF IsClient
  <1>2. row \in Connection /\ row.ws = c.conn[e].ws /\ row.server = c.conn[e].server
    BY <1>1 DEF IsMap, Connection
  <1>3. /\ HasFields(d) /\ d.conn = [c.conn EXCEPT ![e] = row]
        /\ d.sock = c.sock /\ d.senders = c.senders /\ d.primaries = c.primaries
        /\ d.ready = c.ready /\ d.primaryFor = c.primaryFor /\ d.stray = c.stray
        /\ d.phases = c.phases
    BY <1>0 DEF IsClient, HasFields
  <1> HIDE DEF row
  <1>4. /\ DOMAIN d.conn = DOMAIN c.conn /\ d.conn = [x \in DOMAIN d.conn |-> d.conn[x]]
        /\ \A x \in DOMAIN c.conn : /\ d.conn[x] \in Connection
                                    /\ d.conn[x].ws = c.conn[x].ws
                                    /\ d.conn[x].server = c.conn[x].server
    BY <1>1, <1>2, <1>3 DEF IsMap
  <1>5. IsMap(d.phases, Endpoints, Phase \union {"disabled"})
    BY <1>3 DEF IsClient
  <1>6. IsClient(d) /\ Untimed(c, d)
    BY <1>3, <1>4, <1>5, RetimedKeeps
  <1> QED
    BY <1>0, <1>6

\* What a step of the client keeps
Kept(c, d) ==
    /\ IsClient(d) /\ (c.stray => d.stray)
    /\ Sound(c, {}) /\ ~ d.stray => Sound(d, {})

LEMMA KeptWell ==
    ASSUME NEW c, Well(c), NEW d, Kept(c, d)
    PROVE  Well(d)
  BY DEF Well, Kept

LEMMA ResetAndReconnectKeeps ==
    ASSUME NEW c, IsClient(c), NEW e \in DOMAIN c.conn, NEW d, d = ResetAndReconnect(c, e)
    PROVE  Kept(c, d)
  <1>1. PICK t : t = ClearConnectTimer(c, e)
    OBVIOUS
  <1>2. IsClient(t) /\ Untimed(c, t)
    BY <1>1, ClearConnectTimerKeeps
  <1>3. PICK r : r = [t EXCEPT !.conn[e].retry = FALSE]
    OBVIOUS
  <1>4. e \in DOMAIN t.conn
    BY <1>2 DEF Untimed
  <1>5. IsClient(r) /\ Untimed(t, r)
    BY <1>2, <1>3, <1>4, RetryKeeps
  <1>6. PICK s : s = CloseSocket(r, e)
    OBVIOUS
  <1>7. e \in DOMAIN r.conn
    BY <1>4, <1>5 DEF Untimed
  <1>8. IsClient(s) /\ Shut(r, s, e)
    BY <1>5, <1>6, <1>7, CloseSocketKeeps
  <1>9. d = Connect(s, e)
    BY <1>1, <1>3, <1>6 DEF ResetAndReconnect
  <1>10. e \in DOMAIN s.conn
    BY <1>7, <1>8 DEF Shut
  <1>11. /\ IsClient(d) /\ d.stray = s.stray
         /\ Sound(s, {e}) => Sound(d, {})
    BY <1>8, <1>9, <1>10, ConnectKeeps
  <1>12. s.stray = c.stray
    BY <1>2, <1>5, <1>8 DEF Untimed, Shut
  <1>13. ASSUME Sound(c, {}) PROVE Sound(s, {e})
    <2>1. Sound(r, {})
      BY <1>2, <1>5, <1>13, UntimedSound
    <2>2. Sound(s, {} \union {e})
      BY <1>5, <1>7, <1>8, <2>1, ShutSound
    <2> QED
      BY <2>2
  <1> QED
    BY <1>11, <1>12, <1>13 DEF Kept

LEMMA StopKeeps ==
    ASSUME NEW c, IsClient(c), NEW e \in DOMAIN c.conn, NEW d, d = Stop(c, e)
    PROVE  /\ IsClient(d) /\ (c.stray => d.stray) /\ e \notin DOMAIN d.conn
           /\ Sound(c, {}) /\ ~ d.stray => Sound(d, {e})
  <1>1. PICK t : t = ClearConnectTimer(c, e)
    OBVIOUS
  <1>2. IsClient(t) /\ Untimed(c, t) /\ e \in DOMAIN t.conn
    BY <1>1, ClearConnectTimerKeeps DEF Untimed
  <1>3. PICK s : s = CloseSocket(t, e)
    OBVIOUS
  <1>4. IsClient(s) /\ Shut(t, s, e)
    BY <1>2, <1>3, CloseSocketKeeps
  <1> DEFINE mine == {n \in DOMAIN s.sock : s.sock[n].ep = e}
             conn == Without(s.conn, e)
             gone(n) == [s.sock[n] EXCEPT !.owned = FALSE]
             sock == [n \in DOMAIN s.sock |-> IF n \in mine THEN gone(n) ELSE s.sock[n]]
             left == s.stray \/ \E n \in mine : s.sock[n].state # "closing"
  <1>5. d = [s EXCEPT !.conn = conn, !.sock = sock, !.stray = left]
    <2>1. d = [s EXCEPT !.conn = Without(@, e),
                        !.sock = [n \in DOMAIN @ |->
                                    IF n \in mine THEN [@[n] EXCEPT !.owned = FALSE] ELSE @[n]],
                        !.stray = @ \/ \E n \in mine : s.sock[n].state # "closing"]
      BY <1>1, <1>3 DEF Stop
    <2> QED
      BY <2>1 DEF IsClient, HasFields
  <1>6. IsMap(s.conn, Endpoints, Connection) /\ IsMap(s.sock, Nat, Socket)
    BY <1>4 DEF IsClient
  <1>7. \A n \in DOMAIN s.sock : /\ gone(n) \in Socket /\ ~ gone(n).owned
                                 /\ gone(n).ep = s.sock[n].ep
                                 /\ gone(n).state = s.sock[n].state
                                 /\ gone(n).stage = s.sock[n].stage
    BY <1>6 DEF IsMap, Socket
  <1> HIDE DEF gone
  <1>8. IsMap(conn, Endpoints, Connection) /\ DOMAIN conn = DOMAIN s.conn \ {e}
    <2>1. IsMap(conn, Endpoints, Connection)
      BY <1>6, MapWithout
    <2> QED
      BY <2>1 DEF Without, Restrict
  <1>9. \A x \in DOMAIN conn : conn[x] = s.conn[x]
    BY DEF Without, Restrict
  <1>10. /\ IsMap(sock, Nat, Socket) /\ DOMAIN sock = DOMAIN s.sock
         /\ \A n \in DOMAIN s.sock : sock[n] = IF s.sock[n].ep = e THEN gone(n) ELSE s.sock[n]
    BY <1>6, <1>7 DEF IsMap
  <1>11. left \in BOOLEAN
    BY <1>4 DEF IsClient
  <1>12. left <=> (s.stray \/ \E n \in DOMAIN s.sock : s.sock[n].ep = e /\ s.sock[n].state # "closing")
    OBVIOUS
  <1> HIDE DEF conn, sock, mine, left
  <1>13. IsClient(d)
    <2>1. \A n \in DOMAIN sock : sock[n].owned => sock[n].ep \in DOMAIN conn
      BY <1>4, <1>7, <1>8, <1>10 DEF IsClient
    <2>2. IsFiniteSet(DOMAIN sock)
      BY <1>4, <1>10 DEF IsClient
    <2>3. /\ IsMap(conn, Endpoints, Connection) /\ IsMap(sock, Nat, Socket) /\ IsClient(s)
          /\ left \in BOOLEAN
      BY <1>4, <1>8, <1>10, <1>11
    <2>4. IsClient([s EXCEPT !.conn = conn, !.sock = sock, !.stray = left])
      BY <2>1, <2>2, <2>3, ClientWith
    <2> QED
      BY <1>5, <2>4
  <1>14. /\ d.conn = conn /\ d.sock = sock /\ d.senders = s.senders /\ d.primaries = s.primaries
         /\ d.ready = s.ready /\ d.primaryFor = s.primaryFor /\ d.stray = left
    BY <1>4, <1>5 DEF IsClient, HasFields
  <1>15. s.stray = c.stray
    BY <1>2, <1>4 DEF Untimed, Shut
  <1>16. ASSUME Sound(c, {}), ~ d.stray PROVE Sound(d, {e})
    <2>1. Sound(t, {})
      BY <1>2, <1>16, UntimedSound
    <2>2. Sound(s, {} \union {e})
      BY <1>2, <1>4, <2>1, ShutSound
    <2>3. Sound(s, {e})
      BY <2>2
    <2>4. \A n \in DOMAIN s.sock : s.sock[n].ep = e => s.sock[n].state = "closing"
      BY <1>12, <1>14, <1>16
    <2>5. SocketsSound(s)
      BY <2>3 DEF Sound
    <2>6. SocketsSound(d)
      <3>1. ASSUME NEW n \in DOMAIN d.sock
            PROVE  IF d.sock[n].owned
                   THEN /\ d.sock[n].ep \in DOMAIN d.conn
                        /\ d.sock[n].server = d.conn[d.sock[n].ep].server
                   ELSE d.sock[n].state = "closing"
        <4>1. n \in DOMAIN s.sock
          BY <1>10, <1>14
        <4>2. CASE s.sock[n].ep = e
          BY <1>7, <1>10, <1>14, <2>4, <4>1, <4>2
        <4>3. CASE s.sock[n].ep # e
          BY <1>8, <1>9, <1>10, <1>14, <2>5, <4>1, <4>3 DEF SocketsSound
        <4> QED
          BY <4>2, <4>3
      <3>2. ASSUME NEW x \in DOMAIN d.conn, d.conn[x].ws # None
            PROVE  /\ d.conn[x].ws \in DOMAIN d.sock
                   /\ d.sock[d.conn[x].ws].ep = x /\ d.sock[d.conn[x].ws].owned
        <4>1. x \in DOMAIN s.conn /\ x # e /\ d.conn[x] = s.conn[x]
          BY <1>8, <1>9, <1>14
        <4>2. /\ s.conn[x].ws \in DOMAIN s.sock
              /\ s.sock[s.conn[x].ws].ep = x /\ s.sock[s.conn[x].ws].owned
          BY <2>5, <3>2, <4>1 DEF SocketsSound
        <4> QED
          BY <1>10, <1>14, <4>1, <4>2
      <3> QED
        BY <3>1, <3>2 DEF SocketsSound
    <2>7. Like(s, d, {e})
      BY <1>8, <1>9, <1>10, <1>14 DEF Like
    <2> QED
      BY <2>3, <2>6, <2>7, LikeSound
  <1>17. e \notin DOMAIN d.conn
    BY <1>8, <1>14
  <1>18. c.stray => d.stray
    BY <1>12, <1>14, <1>15
  <1> QED
    BY <1>13, <1>16, <1>17, <1>18

\* A connection stopped and forgotten
LEMMA StoppedForgotten ==
    ASSUME NEW c, IsClient(c), NEW e \in DOMAIN c.conn, NEW d, d = Forget(Stop(c, e), e)
    PROVE  Kept(c, d) /\ e \notin DOMAIN d.conn
  <1>1. PICK b : b = Stop(c, e)
    OBVIOUS
  <1>2. /\ IsClient(b) /\ (c.stray => b.stray) /\ e \notin DOMAIN b.conn
        /\ Sound(c, {}) /\ ~ b.stray => Sound(b, {e})
    BY <1>1, StopKeeps
  <1>3. e \in Endpoints
    BY DEF IsClient, IsMap
  <1>4. /\ IsClient(d) /\ d.conn = b.conn /\ d.stray = b.stray
        /\ Sound(b, {e}) => Sound(d, {})
    BY <1>1, <1>2, <1>3, ForgetKeeps
  <1> QED
    BY <1>2, <1>4 DEF Kept

LEMMA StartKeeps ==
    ASSUME NEW c, IsClient(c), NEW e \in Endpoints, e \notin DOMAIN c.conn, NEW s \in Servers,
           NEW d, d = Start(c, e, s)
    PROVE  Kept(c, d)
  <1> DEFINE row == [phase |-> "connecting", ws |-> None, timer |-> None,
                     retry |-> FALSE, server |-> s]
             conn == Put(c.conn, e, row)
  <1>1. PICK b : b = [c EXCEPT !.conn = conn, !.sock = c.sock, !.stray = c.stray]
    OBVIOUS
  <1>2. d = Connect(b, e)
    <2>1. b = [c EXCEPT !.conn = Put(@, e, row)]
      BY <1>1 DEF IsClient, HasFields
    <2> QED
      BY <2>1 DEF Start
  <1>3. IsMap(c.conn, Endpoints, Connection) /\ IsMap(c.sock, Nat, Socket)
    BY DEF IsClient
  <1>4. row \in Connection /\ row.ws = None
    BY DEF Connection, Phase
  <1> HIDE DEF row
  <1>5. IsMap(conn, Endpoints, Connection)
    BY <1>3, <1>4, MapPut
  <1>6. /\ DOMAIN conn = DOMAIN c.conn \union {e} /\ conn[e] = row
        /\ \A x \in DOMAIN c.conn : conn[x] = c.conn[x]
    BY DEF Put
  <1> HIDE DEF conn
  <1>7. IsClient(b)
    <2>1. \A n \in DOMAIN c.sock : c.sock[n].owned => c.sock[n].ep \in DOMAIN conn
      BY <1>6 DEF IsClient
    <2> QED
      BY <1>1, <1>3, <1>5, <2>1, ClientWith DEF IsClient
  <1>8. /\ b.conn = conn /\ b.sock = c.sock /\ b.senders = c.senders /\ b.primaries = c.primaries
        /\ b.ready = c.ready /\ b.primaryFor = c.primaryFor /\ b.stray = c.stray
    BY <1>1 DEF IsClient, HasFields
  <1>9. ASSUME Sound(c, {}) PROVE Sound(b, {e})
    <2>1. SocketsSound(c)
      BY <1>9 DEF Sound
    <2>2. SocketsSound(b)
      <3>1. \A n \in DOMAIN c.sock :
               IF c.sock[n].owned
               THEN /\ c.sock[n].ep \in DOMAIN conn
                    /\ c.sock[n].server = conn[c.sock[n].ep].server
               ELSE c.sock[n].state = "closing"
        BY <1>6, <2>1 DEF SocketsSound
      <3>2. ASSUME NEW x \in DOMAIN conn, conn[x].ws # None
            PROVE  /\ conn[x].ws \in DOMAIN c.sock
                   /\ c.sock[conn[x].ws].ep = x /\ c.sock[conn[x].ws].owned
        <4>1. x \in DOMAIN c.conn /\ conn[x] = c.conn[x]
          BY <1>4, <1>6, <3>2
        <4> QED
          BY <2>1, <3>2, <4>1 DEF SocketsSound
      <3> QED
        BY <1>8, <3>1, <3>2 DEF SocketsSound
    <2>3. Like(c, b, {})
      BY <1>6, <1>8 DEF Like
    <2>4. Sound(b, {})
      BY <1>9, <2>2, <2>3, LikeSound
    <2> QED
      BY <2>4, SoundMore
  <1>10. e \in DOMAIN b.conn
    BY <1>6, <1>8
  <1>11. IsClient(d) /\ d.stray = b.stray /\ (Sound(b, {e}) => Sound(d, {}))
    BY <1>2, <1>7, <1>10, ConnectKeeps
  <1> QED
    BY <1>8, <1>9, <1>11 DEF Kept

-----------------------------------------------------------------------------
(* One socket.                                                             *)

\* Socket n becomes the socket k of the same connection.  Either nobody sends on
\* it, or it still carries what it carried.
LEMMA SocketChanged ==
    ASSUME NEW c, IsClient(c), NEW n \in DOMAIN c.sock, NEW k \in Socket,
           k.ep = c.sock[n].ep, k.owned = c.sock[n].owned, k.server = c.sock[n].server,
           NEW X, NEW d, d = [c EXCEPT !.sock[n] = k]
    PROVE  /\ IsClient(d) /\ d.stray = c.stray /\ d.conn = c.conn
           /\ d.senders = c.senders /\ d.primaries = c.primaries /\ d.ready = c.ready
           /\ d.primaryFor = c.primaryFor
           /\ DOMAIN d.sock = DOMAIN c.sock /\ d.sock[n] = k
           /\ \A m \in DOMAIN c.sock : m # n => d.sock[m] = c.sock[m]
           /\ /\ Sound(c, X)
              /\ k.owned \/ k.state = "closing"
              /\ \A e \in DOMAIN c.senders \ X : c.senders[e] = n =>
                    /\ k.state = "open" /\ k.stage \in {"auth", "grant", "ready"}
                    /\ c.sock[n].stage = "ready" => k.stage = "ready"
              => Sound(d, X)
  <1>1. PICK b : b = [c EXCEPT !.conn = c.conn, !.sock = [c.sock EXCEPT ![n] = k],
                               !.stray = c.stray]
    OBVIOUS
  <1>2. d = b
    BY <1>1 DEF IsClient, HasFields
  <1>3. IsMap(c.conn, Endpoints, Connection) /\ IsMap(c.sock, Nat, Socket)
    BY DEF IsClient
  <1> DEFINE sock == [c.sock EXCEPT ![n] = k]
  <1>4. /\ IsMap(sock, Nat, Socket) /\ DOMAIN sock = DOMAIN c.sock
        /\ \A x \in DOMAIN c.sock : sock[x] = IF x = n THEN k ELSE c.sock[x]
    BY <1>3, MapUpdate
  <1>5. b = [c EXCEPT !.conn = c.conn, !.sock = sock, !.stray = c.stray]
    BY <1>1
  <1> HIDE DEF sock
  <1>6. IsClient(b)
    <2>1. \A m \in DOMAIN sock : sock[m].owned => sock[m].ep \in DOMAIN c.conn
      BY <1>4 DEF IsClient
    <2>2. IsFiniteSet(DOMAIN sock) /\ c.stray \in BOOLEAN
      BY <1>4 DEF IsClient
    <2>3. IsClient([c EXCEPT !.conn = c.conn, !.sock = sock, !.stray = c.stray])
      BY <1>3, <1>4, <2>1, <2>2, ClientWith
    <2> QED
      BY <1>5, <2>3
  <1>7. /\ b.conn = c.conn /\ b.sock = sock /\ b.senders = c.senders /\ b.primaries = c.primaries
        /\ b.ready = c.ready /\ b.primaryFor = c.primaryFor /\ b.stray = c.stray
    BY <1>5 DEF IsClient, HasFields
  <1>8. ASSUME Sound(c, X),
               k.owned \/ k.state = "closing",
               \A e \in DOMAIN c.senders \ X : c.senders[e] = n =>
                    /\ k.state = "open" /\ k.stage \in {"auth", "grant", "ready"}
                    /\ c.sock[n].stage = "ready" => k.stage = "ready"
        PROVE  Sound(b, X)
    <2>1. Once(b) /\ Entries(b) = Entries(c)
      BY <1>7, <1>8 DEF Sound, Once, Entries
    <2>2. SocketsSound(b)
      <3>1. SocketsSound(c)
        BY <1>8 DEF Sound
      <3>2. \A m \in DOMAIN c.sock : /\ sock[m].ep = c.sock[m].ep /\ sock[m].owned = c.sock[m].owned
                                     /\ sock[m].server = c.sock[m].server
                                     /\ sock[m].owned \/ sock[m].state = "closing"
                                        \/ sock[m].state = c.sock[m].state
        BY <1>4, <1>8
      <3> QED
        BY <1>4, <1>7, <1>8, <3>1, <3>2 DEF SocketsSound
    <2>3. ASSUME NEW e \in DOMAIN c.senders \ X
          PROVE  /\ Carries(b, c.senders[e], e)
                 /\ c.sock[c.senders[e]].stage = "ready" => b.sock[c.senders[e]].stage = "ready"
      <3>1. Carries(c, c.senders[e], e)
        BY <1>8 DEF Sound, SendersSound
      <3>2. CASE c.senders[e] = n
        BY <1>4, <1>7, <1>8, <3>1, <3>2 DEF Carries
      <3>3. CASE c.senders[e] # n
        BY <1>4, <1>7, <3>1, <3>3 DEF Carries
      <3> QED
        BY <3>2, <3>3
    <2>4. SendersSound(b, X)
      BY <1>7, <2>3 DEF SendersSound
    <2>5. ReadySound(b, X)
      BY <1>7, <1>8, <2>1, <2>3 DEF Sound, ReadySound
    <2>6. PrimariesSound(b, X)
      BY <1>7, <1>8, <2>1 DEF Sound, PrimariesSound
    <2> QED
      BY <2>1, <2>2, <2>4, <2>5, <2>6 DEF Sound
  <1> QED
    BY <1>2, <1>4, <1>6, <1>7, <1>8

\* Socket n is gone; if it was its connection's own, that one sends nothing.
LEMMA SocketGone ==
    ASSUME NEW c, IsClient(c), NEW n \in DOMAIN c.sock, NEW d, d = [c EXCEPT !.sock = Without(@, n)]
    PROVE  /\ IsClient(d) /\ d.stray = c.stray /\ d.conn = c.conn
           /\ Sound(c, {})
              /\ (c.sock[n].owned => /\ Silent(c, c.sock[n].ep)
                                     /\ c.sock[n].ep \in DOMAIN c.conn
                                     /\ c.conn[c.sock[n].ep].ws = None)
              => Sound(d, {})
  <1>1. PICK b : b = [c EXCEPT !.conn = c.conn, !.sock = Without(c.sock, n), !.stray = c.stray]
    OBVIOUS
  <1>2. d = b
    BY <1>1 DEF IsClient, HasFields
  <1> DEFINE sock == Without(c.sock, n)
  <1>3. IsMap(c.conn, Endpoints, Connection) /\ IsMap(c.sock, Nat, Socket)
    BY DEF IsClient
  <1>4. IsMap(sock, Nat, Socket)
    BY <1>3, MapWithout
  <1>5. DOMAIN sock = DOMAIN c.sock \ {n} /\ \A m \in DOMAIN sock : sock[m] = c.sock[m]
    BY DEF Without, Restrict
  <1>6. b = [c EXCEPT !.conn = c.conn, !.sock = sock, !.stray = c.stray]
    BY <1>1
  <1> HIDE DEF sock
  <1>7. IsClient(b)
    <2>1. \A m \in DOMAIN sock : sock[m].owned => sock[m].ep \in DOMAIN c.conn
      BY <1>5 DEF IsClient
    <2>2. IsFiniteSet(DOMAIN sock) /\ c.stray \in BOOLEAN
      <3>1. IsFiniteSet(DOMAIN c.sock) /\ c.stray \in BOOLEAN
        BY DEF IsClient
      <3> QED
        BY <1>5, <3>1, FS_RemoveElement
    <2>3. IsClient([c EXCEPT !.conn = c.conn, !.sock = sock, !.stray = c.stray])
      BY <1>3, <1>4, <2>1, <2>2, ClientWith
    <2> QED
      BY <1>6, <2>3
  <1>8. /\ b.conn = c.conn /\ b.sock = sock /\ b.senders = c.senders /\ b.primaries = c.primaries
        /\ b.ready = c.ready /\ b.primaryFor = c.primaryFor /\ b.stray = c.stray
    BY <1>6 DEF IsClient, HasFields
  <1>9. ASSUME Sound(c, {}),
               c.sock[n].owned => /\ Silent(c, c.sock[n].ep)
                                  /\ c.sock[n].ep \in DOMAIN c.conn
                                  /\ c.conn[c.sock[n].ep].ws = None
        PROVE  Sound(b, {})
    <2> DEFINE e == c.sock[n].ep
    <2>1. SocketsSound(c)
      BY <1>9 DEF Sound
    <2>2. \A x \in DOMAIN c.conn : c.conn[x].ws # None => c.conn[x].ws # n
      BY <1>9, <2>1 DEF SocketsSound
    <2>3. SocketsSound(b)
      BY <1>5, <1>8, <2>1, <2>2 DEF SocketsSound
    <2>4. CASE ~ c.sock[n].owned
      <3>1. Like(c, b, {})
        BY <1>5, <1>8, <2>4 DEF Like
      <3> QED
        BY <1>9, <2>3, <3>1, LikeSound
    <2>5. CASE c.sock[n].owned
      <3>1. Like(c, b, {e})
        BY <1>5, <1>8 DEF Like
      <3>2. Sound(c, {e})
        BY <1>9, SoundMore
      <3>3. Sound(b, {e})
        BY <2>3, <3>1, <3>2, LikeSound
      <3>4. Silent(b, e)
        BY <1>8, <1>9, <2>5 DEF Silent, IsReady
      <3> QED
        BY <1>7, <3>3, <3>4, SilentSound
    <2> QED
      BY <2>4, <2>5
  <1> QED
    BY <1>2, <1>7, <1>8, <1>9

LEMMA ClosedKeeps ==
    ASSUME NEW c, IsClient(c), NEW n \in DOMAIN c.sock, NEW d, d = Closed(c, n)
    PROVE  Kept(c, d)
  <1>1. CASE ~ c.sock[n].owned
    <2>1. d = [c EXCEPT !.sock = Without(@, n)]
      BY <1>1 DEF Closed
    <2> QED
      BY <1>1, <2>1, SocketGone DEF Kept
  <1>2. CASE c.sock[n].owned
    <2>1. PICK e : e = c.sock[n].ep
      OBVIOUS
    <2>2. e \in DOMAIN c.conn
      BY <1>2, <2>1 DEF IsClient
    <2>3. PICK t : t = ClearConnectTimer(c, e)
      OBVIOUS
    <2>4. IsClient(t) /\ Untimed(c, t)
      BY <2>2, <2>3, ClearConnectTimerKeeps
    <2>5. PICK w : w = [t EXCEPT !.conn[e].ws = None]
      OBVIOUS
    <2>6. /\ e \in DOMAIN t.conn /\ n \in DOMAIN t.sock
          /\ t.sock[n].ep = e /\ t.sock[n].owned
      BY <1>2, <2>1, <2>2, <2>4 DEF Untimed
    <2>7. /\ IsClient(w) /\ w.stray = t.stray /\ w.sock = t.sock
          /\ e \in DOMAIN w.conn /\ w.conn[e].ws = None
          /\ Sound(t, {}) => Sound(w, {})
      <3> DEFINE row == [t.conn[e] EXCEPT !.ws = None]
      <3>1. IsMap(t.conn, Endpoints, Connection) /\ IsMap(t.sock, Nat, Socket)
        BY <2>4 DEF IsClient
      <3>2. row \in Connection /\ row.ws = None /\ row.server = t.conn[e].server
        BY <2>6, <3>1 DEF IsMap, Connection
      <3> HIDE DEF row
      <3> DEFINE conn == [t.conn EXCEPT ![e] = row]
      <3>3. /\ IsMap(conn, Endpoints, Connection) /\ DOMAIN conn = DOMAIN t.conn
            /\ \A x \in DOMAIN t.conn : conn[x] = IF x = e THEN row ELSE t.conn[x]
        BY <3>1, <3>2, MapUpdate
      <3>4. w = [t EXCEPT !.conn = conn, !.sock = t.sock, !.stray = t.stray]
        BY <2>4, <2>5 DEF row, IsClient, HasFields
      <3> HIDE DEF conn
      <3>5. IsClient(w)
        <4>1. \A m \in DOMAIN t.sock : t.sock[m].owned => t.sock[m].ep \in DOMAIN conn
          BY <2>4, <3>3 DEF IsClient
        <4>2. IsFiniteSet(DOMAIN t.sock) /\ t.stray \in BOOLEAN
          BY <2>4 DEF IsClient
        <4>3. IsClient([t EXCEPT !.conn = conn, !.sock = t.sock, !.stray = t.stray])
          BY <2>4, <3>1, <3>3, <4>1, <4>2, ClientWith
        <4> QED
          BY <3>4, <4>3
      <3>6. /\ w.conn = conn /\ w.sock = t.sock /\ w.senders = t.senders
            /\ w.primaries = t.primaries /\ w.ready = t.ready
            /\ w.primaryFor = t.primaryFor /\ w.stray = t.stray
        BY <2>4, <3>4 DEF IsClient, HasFields
      <3>7. ASSUME Sound(t, {}) PROVE Sound(w, {})
        <4>1. SocketsSound(w)
          BY <3>2, <3>3, <3>6, <3>7 DEF Sound, SocketsSound
        <4>2. Like(t, w, {})
          BY <3>2, <3>3, <3>6 DEF Like
        <4> QED
          BY <3>7, <4>1, <4>2, LikeSound
      <3> QED
        BY <2>6, <3>2, <3>3, <3>5, <3>6, <3>7
    <2>8. PICK p : p = SetPhase(w, n, "error")
      OBVIOUS
    <2>9. "error" \in Phase /\ "error" # "ready"
      BY DEF Phase
    <2>10. n \in DOMAIN w.sock /\ e = w.sock[n].ep
      BY <2>6, <2>7
    <2>11. /\ IsClient(p) /\ Framed(w, p)
           /\ Sound(w, {e}) => Sound(p, {}) /\ Silent(p, e)
      BY <2>7, <2>8, <2>9, <2>10, SetPhaseKeeps
    <2>12. PICK g : g = [p EXCEPT !.sock = Without(@, n)]
      OBVIOUS
    <2>13. /\ n \in DOMAIN p.sock /\ p.sock[n].ep = e
           /\ e \in DOMAIN p.conn /\ p.conn[e].ws = None /\ p.stray = w.stray
      BY <2>7, <2>10, <2>11 DEF Framed
    <2>14. /\ IsClient(g) /\ g.stray = p.stray /\ g.conn = p.conn
           /\ Sound(p, {}) /\ Silent(p, e) => Sound(g, {})
      BY <2>11, <2>12, <2>13, SocketGone
    <2>15. d = NeedsRetry(g, e)
      BY <1>2, <2>1, <2>3, <2>5, <2>8, <2>12 DEF Closed
    <2>16. e \in DOMAIN g.conn
      BY <2>13, <2>14
    <2>17. IsClient(d) /\ Untimed(g, d)
      BY <2>14, <2>15, <2>16, NeedsRetryKeeps
    <2>18. d.stray = c.stray
      BY <2>4, <2>7, <2>13, <2>14, <2>17 DEF Untimed
    <2>19. ASSUME Sound(c, {}) PROVE Sound(d, {})
      <3>1. Sound(w, {})
        BY <2>4, <2>7, <2>19, UntimedSound
      <3>2. Sound(w, {e})
        BY <3>1, SoundMore
      <3> QED
        BY <2>11, <2>14, <2>17, <3>2, UntimedSound
    <2> QED
      BY <2>17, <2>18, <2>19 DEF Kept
  <1> QED
    BY <1>1, <1>2

-----------------------------------------------------------------------------
(* Claiming a server.                                                      *)

LEMMA EntryAdded ==
    ASSUME NEW S, NEW p \in Seq(S), NEW v \in S
    PROVE  LET q == Append(p, v) IN
           /\ q \in Seq(S)
           /\ DOMAIN q = DOMAIN p \union {Len(p) + 1} /\ Len(p) + 1 \notin DOMAIN p
           /\ q[Len(p) + 1] = v /\ \A k \in DOMAIN p : q[k] = p[k]
  <1> DEFINE q == Append(p, v)
  <1>1. q \in Seq(S) /\ Len(q) = Len(p) + 1 /\ Len(p) \in Nat /\ DOMAIN p = 1 .. Len(p)
    OBVIOUS
  <1>2. DOMAIN q = 1 .. Len(p) + 1
    BY <1>1
  <1>3. q[Len(p) + 1] = v /\ \A k \in 1 .. Len(p) : q[k] = p[k]
    BY <1>1
  <1>4. DOMAIN q = DOMAIN p \union {Len(p) + 1} /\ Len(p) + 1 \notin DOMAIN p
    BY <1>1, <1>2
  <1> QED
    BY <1>1, <1>3, <1>4

LEMMA EntryNoted ==
    ASSUME NEW c, c.ready \in Seq(ReadyEntry), NEW e \in Endpoints, NEW s \in Servers
    PROVE  LET q == IF IsReady(c, e) THEN [c.ready EXCEPT ![Place(c, e)].server = s]
                    ELSE Append(c.ready, [ep |-> e, server |-> s])
           IN /\ q \in Seq(ReadyEntry)
              /\ Once(c) /\ (\A r \in Entries(c) : r.ep = e => r.server = s) =>
                    /\ \A j, k \in DOMAIN q : q[j].ep = q[k].ep => j = k
                    /\ {q[k] : k \in DOMAIN q} = Entries(c) \union {[ep |-> e, server |-> s]}
  <1>1. PICK v : v = [ep |-> e, server |-> s]
    OBVIOUS
  <1>2. v \in ReadyEntry /\ v.ep = e
    BY <1>1 DEF ReadyEntry
  <1>3. PICK p \in Seq(ReadyEntry) : p = c.ready
    OBVIOUS
  <1>4. PICK q : q = IF IsReady(c, e) THEN [p EXCEPT ![Place(c, e)].server = s] ELSE Append(p, v)
    OBVIOUS
  <1> SUFFICES /\ q \in Seq(ReadyEntry)
               /\ Once(c) /\ (\A r \in Entries(c) : r.ep = e => r.server = s) =>
                     /\ \A j, k \in DOMAIN q : q[j].ep = q[k].ep => j = k
                     /\ {q[k] : k \in DOMAIN q} = Entries(c) \union {v}
    BY <1>1, <1>3, <1>4
  <1>5. CASE ~ IsReady(c, e)
    <2>1. q = Append(p, v)
      BY <1>4, <1>5
    <2>2. \A k \in DOMAIN p : p[k].ep # e
      BY <1>3, <1>5 DEF IsReady
    <2>3. /\ q \in Seq(ReadyEntry)
          /\ DOMAIN q = DOMAIN p \union {Len(p) + 1} /\ Len(p) + 1 \notin DOMAIN p
          /\ q[Len(p) + 1] = v /\ \A k \in DOMAIN p : q[k] = p[k]
      BY <1>2, <2>1, EntryAdded
    <2>4. {q[k] : k \in DOMAIN q} = {p[k] : k \in DOMAIN p} \union {v}
      BY <2>3
    <2>5. ASSUME \A j, k \in DOMAIN p : p[j].ep = p[k].ep => j = k,
                 NEW j \in DOMAIN q, NEW k \in DOMAIN q, q[j].ep = q[k].ep
          PROVE  j = k
      BY <1>2, <2>2, <2>3, <2>5
    <2> QED
      BY <1>3, <2>3, <2>4, <2>5 DEF Once, Entries
  <1>6. CASE IsReady(c, e)
    <2>1. PICK i : i = Place(c, e)
      OBVIOUS
    <2>2. i \in DOMAIN p /\ p[i].ep = e
      BY <1>3, <1>6, <2>1 DEF IsReady, Place
    <2>3. p[i] \in ReadyEntry
      BY <2>2
    <2>4. [p[i] EXCEPT !.server = s] = v
      BY <1>1, <2>2, <2>3 DEF ReadyEntry
    <2>5. q = [p EXCEPT ![i] = v]
      BY <1>4, <1>6, <2>1, <2>4
    <2>6. q \in Seq(ReadyEntry)
      BY <1>2, <2>2, <2>5
    <2>7. ASSUME \A r \in Entries(c) : r.ep = e => r.server = s
          PROVE  q = p /\ v \in Entries(c)
      <3>1. p[i] \in Entries(c)
        BY <1>3, <2>2 DEF Entries
      <3>2. p[i] = v
        BY <1>1, <2>2, <2>3, <2>7, <3>1 DEF ReadyEntry
      <3>3. q = p
        BY <2>2, <2>5, <3>2
      <3> QED
        BY <3>1, <3>2, <3>3
    <2>8. {p[k] : k \in DOMAIN p} = Entries(c)
      BY <1>3 DEF Entries
    <2>9. Once(c) => \A j, k \in DOMAIN p : p[j].ep = p[k].ep => j = k
      BY <1>3 DEF Once
    <2> QED
      BY <2>6, <2>7, <2>8, <2>9
  <1> QED
    BY <1>5, <1>6

LEMMA ClaimOrDeferKeeps ==
    ASSUME NEW c, IsClient(c), NEW e \in DOMAIN c.senders, NEW s \in Servers,
           NEW d, d = ClaimOrDefer(c, e, s, c.senders[e])
    PROVE  /\ IsClient(d) /\ d.stray = c.stray
           /\ /\ Sound(c, {e}) /\ Carries(c, c.senders[e], e)
              /\ c.sock[c.senders[e]].stage = "ready"
              /\ e \in DOMAIN c.conn /\ c.conn[e].server = s
              /\ \A r \in Entries(c) : r.ep = e => r.server = s
              => Sound(d, {})
  <1> DEFINE n == c.senders[e]
             new == [ep |-> e, server |-> s]
             current == IF s \in DOMAIN c.primaryFor THEN c.primaryFor[s] ELSE None
             claims == current \in {None, e} \/ current \notin DOMAIN c.conn
  <1>1. PICK q : q = IF IsReady(c, e) THEN [c.ready EXCEPT ![Place(c, e)].server = s]
                     ELSE Append(c.ready, [ep |-> e, server |-> s])
    OBVIOUS
  <1>2. /\ c.ready \in Seq(ReadyEntry)
        /\ IsMap(c.senders, Endpoints, Nat) /\ IsMap(c.primaries, DOMAIN c.senders, Nat)
        /\ IsMap(c.primaryFor, Servers, Endpoints)
    BY DEF IsClient
  <1>3. e \in Endpoints /\ n \in Nat
    BY <1>2 DEF IsMap
  <1>4. /\ q \in Seq(ReadyEntry)
        /\ Once(c) /\ (\A r \in Entries(c) : r.ep = e => r.server = s) =>
              /\ \A j, k \in DOMAIN q : q[j].ep = q[k].ep => j = k
              /\ {q[k] : k \in DOMAIN q} = Entries(c) \union {new}
    BY <1>1, <1>2, <1>3, EntryNoted
  <1>5. d = IF claims
            THEN [c EXCEPT !.ready = q, !.primaryFor = Put(@, s, e), !.primaries = Put(@, e, n)]
            ELSE [c EXCEPT !.ready = q, !.primaries = Without(@, e)]
    BY <1>1 DEF ClaimOrDefer
  <1> HIDE DEF claims, n
  <1>6. /\ HasFields(d) /\ d.conn = c.conn /\ d.sock = c.sock /\ d.senders = c.senders
        /\ d.ready = q /\ d.phases = c.phases /\ d.stray = c.stray
        /\ d.primaryFor = IF claims THEN Put(c.primaryFor, s, e) ELSE c.primaryFor
        /\ d.primaries = IF claims THEN Put(c.primaries, e, n) ELSE Without(c.primaries, e)
    BY <1>5 DEF IsClient, HasFields
  <1>7. IsMap(Put(c.primaryFor, s, e), Servers, Endpoints)
    BY <1>2, <1>3, MapPut
  <1>8. IsMap(Put(c.primaries, e, n), DOMAIN c.senders, Nat)
    BY <1>2, <1>3, MapPut
  <1>9. IsMap(Without(c.primaries, e), DOMAIN c.senders, Nat)
    BY <1>2, MapWithout
  <1>10. IsClient(d)
    BY <1>2, <1>4, <1>6, <1>7, <1>8, <1>9 DEF IsClient
  <1>11. ASSUME Sound(c, {e}), Carries(c, n, e), c.sock[n].stage = "ready",
                e \in DOMAIN c.conn, c.conn[e].server = s,
                \A r \in Entries(c) : r.ep = e => r.server = s
         PROVE  Sound(d, {})
    <2>1. Once(d) /\ Entries(d) = Entries(c) \union {new}
      <3>1. Once(c)
        BY <1>11 DEF Sound
      <3>2. /\ \A j, k \in DOMAIN q : q[j].ep = q[k].ep => j = k
            /\ {q[k] : k \in DOMAIN q} = Entries(c) \union {new}
        BY <1>4, <1>11, <3>1
      <3>3. {d.ready[k] : k \in DOMAIN d.ready} = {q[k] : k \in DOMAIN q}
        BY <1>6
      <3>4. Once(d)
        BY <1>6, <3>2 DEF Once
      <3> QED
        BY <3>2, <3>3, <3>4 DEF Entries
    <2>2. SocketsSound(d)
      BY <1>6, <1>11 DEF Sound, SocketsSound
    <2>3. SendersSound(d, {})
      BY <1>6, <1>11 DEF Sound, SendersSound, Carries, n
    <2>4. ReadySound(d, {})
      <3>1. new.ep = e /\ new.server = s
        OBVIOUS
      <3>2. ReadySound(c, {e})
        BY <1>11 DEF Sound
      <3> QED
        BY <1>6, <1>11, <2>1, <3>1, <3>2 DEF ReadySound, n
    <2>5. PrimariesSound(c, {e}) /\ ReadySound(c, {e})
      BY <1>11 DEF Sound
    <2>6. \A t \in DOMAIN c.primaryFor : c.primaryFor[t] = e => t = s
      <3> SUFFICES ASSUME NEW t \in DOMAIN c.primaryFor, c.primaryFor[t] = e PROVE t = s
        OBVIOUS
      <3>1. [ep |-> e, server |-> t] \in Entries(c)
        BY <2>5 DEF PrimariesSound
      <3> QED
        BY <1>11, <3>1
    <2>7. CASE claims
      <3>1. /\ DOMAIN d.primaryFor = DOMAIN c.primaryFor \union {s} /\ d.primaryFor[s] = e
            /\ \A t \in DOMAIN c.primaryFor : t # s => d.primaryFor[t] = c.primaryFor[t]
        BY <1>6, <2>7 DEF Put
      <3>2. /\ DOMAIN d.primaries = DOMAIN c.primaries \union {e} /\ d.primaries[e] = n
            /\ \A x \in DOMAIN c.primaries : x # e => d.primaries[x] = c.primaries[x]
        BY <1>6, <2>7 DEF Put
      <3>3. ASSUME NEW x \in DOMAIN d.primaries
            PROVE  /\ d.primaries[x] = d.senders[x]
                   /\ \E t \in DOMAIN d.primaryFor :
                         d.primaryFor[t] = x /\ [ep |-> x, server |-> t] \in Entries(d)
        <4>1. CASE x = e
          BY <1>6, <2>1, <3>1, <3>2, <4>1 DEF n
        <4>2. CASE x # e
          <5>1. x \in DOMAIN c.primaries
            BY <3>2, <3>3, <4>2
          <5>2. PICK t \in DOMAIN c.primaryFor :
                   c.primaryFor[t] = x /\ [ep |-> x, server |-> t] \in Entries(c)
            BY <2>5, <4>2, <5>1 DEF PrimariesSound
          <5>3. t # s
            <6> SUFFICES ASSUME t = s PROVE FALSE
              OBVIOUS
            <6>1. x \in DOMAIN c.conn
              <7>1. [ep |-> x, server |-> t].ep \notin {e}
                BY <4>2
              <7>2. [ep |-> x, server |-> t].ep \in DOMAIN c.conn
                BY <2>5, <5>2, <7>1 DEF ReadySound
              <7> QED
                BY <7>2
            <6>2. x # None
              BY <1>2, <5>2, EndpointsAssumption DEF IsMap
            <6> QED
              BY <2>7, <4>2, <5>2, <6>1, <6>2 DEF claims
          <5>4. d.primaries[x] = d.senders[x]
            BY <1>6, <2>5, <3>2, <4>2, <5>1 DEF PrimariesSound
          <5> QED
            BY <2>1, <3>1, <5>2, <5>3, <5>4
        <4> QED
          BY <4>1, <4>2
      <3>4. ASSUME NEW t \in DOMAIN d.primaryFor
            PROVE  /\ [ep |-> d.primaryFor[t], server |-> t] \in Entries(d)
                   /\ d.primaryFor[t] \in DOMAIN d.primaries
        <4>1. CASE t = s
          BY <2>1, <3>1, <3>2, <4>1
        <4>2. CASE t # s
          BY <2>1, <2>5, <3>1, <3>2, <4>2 DEF PrimariesSound
        <4> QED
          BY <4>1, <4>2
      <3>5. \A r \in Entries(d) : r.server \in DOMAIN d.primaryFor
        BY <2>1, <2>5, <3>1 DEF PrimariesSound
      <3>6. PrimariesSound(d, {})
        BY <3>3, <3>4, <3>5 DEF PrimariesSound
      <3> QED
        BY <2>1, <2>2, <2>3, <2>4, <3>6 DEF Sound
    <2>8. CASE ~ claims
      <3>1. d.primaryFor = c.primaryFor
        BY <1>6, <2>8
      <3>2. /\ DOMAIN d.primaries = DOMAIN c.primaries \ {e}
            /\ \A x \in DOMAIN d.primaries : d.primaries[x] = c.primaries[x]
        BY <1>6, <2>8 DEF Without, Restrict
      <3>3. s \in DOMAIN c.primaryFor /\ c.primaryFor[s] # e
        BY <2>8 DEF claims
      <3>4. \A t \in DOMAIN c.primaryFor : c.primaryFor[t] # e
        BY <2>6, <3>3
      <3>5. \A r \in Entries(d) : r.server \in DOMAIN d.primaryFor
        BY <2>1, <2>5, <3>1, <3>3 DEF PrimariesSound
      <3>6. PrimariesSound(d, {})
        BY <1>6, <2>1, <2>5, <3>1, <3>2, <3>4, <3>5 DEF PrimariesSound
      <3> QED
        BY <2>1, <2>2, <2>3, <2>4, <3>6 DEF Sound
    <2> QED
      BY <2>7, <2>8
  <1> QED
    BY <1>6, <1>10, <1>11 DEF n

-----------------------------------------------------------------------------
(* The configuration applied, and the connections reset.                   *)

LEMMA KeptTwice ==
    ASSUME NEW b, NEW c, NEW d, Kept(b, c), Kept(c, d)
    PROVE  Kept(b, d)
  BY DEF Kept

LEMMA UntimedKept ==
    ASSUME NEW c, NEW d, IsClient(d), Untimed(c, d)
    PROVE  Kept(c, d)
  <1>1. d.stray = c.stray
    BY DEF Untimed
  <1>2. Sound(c, {}) => Sound(d, {})
    BY UntimedSound
  <1> QED
    BY <1>1, <1>2 DEF Kept

\* Only the phases shown change.
LEMMA PhasesKeep ==
    ASSUME NEW c, IsClient(c), NEW phases, IsMap(phases, Endpoints, Phase \union {"disabled"})
    PROVE  Kept(c, [c EXCEPT !.phases = phases])
  <1>1. PICK d : d = [c EXCEPT !.phases = phases]
    OBVIOUS
  <1>2. /\ HasFields(d) /\ d.conn = c.conn /\ d.sock = c.sock /\ d.senders = c.senders
        /\ d.primaries = c.primaries /\ d.ready = c.ready /\ d.primaryFor = c.primaryFor
        /\ d.phases = phases /\ d.stray = c.stray
    BY <1>1 DEF IsClient, HasFields
  <1>3. IsClient(d)
    BY <1>2 DEF IsClient
  <1>4. Untimed(c, d)
    BY <1>2 DEF Untimed
  <1> QED
    BY <1>1, <1>3, <1>4, UntimedKept

LEMMA ApplyEndpointKeeps ==
    ASSUME NEW c, IsClient(c), NEW e \in Endpoints, NEW on \in BOOLEAN, NEW moved \in BOOLEAN,
           NEW s \in Servers
    PROVE  Kept(c, ApplyEndpoint(c, e, on, moved, s))
  <1>1. Kept(c, c)
    BY DEF Kept
  <1>2. PICK d : d = ApplyEndpoint(c, e, on, moved, s)
    OBVIOUS
  <1>3. PICK g : g = Forget(Stop(c, e), e)
    OBVIOUS
  <1>4. e \in DOMAIN c.conn => Kept(c, g) /\ e \notin DOMAIN g.conn
    BY <1>3, StoppedForgotten
  <1>5. CASE ~ on
    <2>1. PICK b : b = IF e \in DOMAIN c.conn THEN g ELSE c
      OBVIOUS
    <2>2. Kept(c, b) /\ IsClient(b)
      BY <1>1, <1>4, <2>1 DEF Kept
    <2>3. PICK phases : phases = Put(b.phases, e, "disabled")
      OBVIOUS
    <2>4. d = [b EXCEPT !.phases = phases]
      BY <1>2, <1>3, <1>5, <2>1, <2>3 DEF ApplyEndpoint
    <2>5. IsMap(b.phases, Endpoints, Phase \union {"disabled"})
      BY <2>2 DEF IsClient
    <2>6. IsMap(phases, Endpoints, Phase \union {"disabled"})
      BY <2>3, <2>5, MapPut
    <2>7. Kept(b, d)
      BY <2>2, <2>4, <2>6, PhasesKeep
    <2> QED
      BY <1>2, <2>2, <2>7, KeptTwice
  <1>6. CASE on /\ e \notin DOMAIN c.conn
    <2>1. d = Start(c, e, s)
      BY <1>2, <1>6 DEF ApplyEndpoint
    <2> QED
      BY <1>2, <1>6, <2>1, StartKeeps
  <1>7. CASE on /\ e \in DOMAIN c.conn /\ moved
    <2>1. d = Start(g, e, s)
      BY <1>2, <1>3, <1>7 DEF ApplyEndpoint
    <2>2. IsClient(g)
      BY <1>4, <1>7 DEF Kept
    <2>3. Kept(g, d)
      BY <1>4, <1>7, <2>1, <2>2, StartKeeps
    <2> QED
      BY <1>2, <1>4, <1>7, <2>3, KeptTwice
  <1>8. CASE on /\ e \in DOMAIN c.conn /\ ~ moved
    <2>1. d = ResetAndReconnect(c, e) \/ d = c
      BY <1>2, <1>8 DEF ApplyEndpoint
    <2> QED
      BY <1>1, <1>2, <1>8, <2>1, ResetAndReconnectKeeps
  <1> QED
    BY <1>5, <1>6, <1>7, <1>8

\* One step of ResetAll (reset) or of ApplyEndpoints.
Visit(x, k, reset, on, moved, to) ==
    IF reset
    THEN IF Listed[k] \in DOMAIN x.conn THEN ResetAndReconnect(x, Listed[k]) ELSE x
    ELSE ApplyEndpoint(x, Listed[k], Listed[k] \in on, Listed[k] \in moved, to[Listed[k]])

\* f visits the first n endpoints of the configuration, from c on.
Visits(f, n, c, reset, on, moved, to) ==
    f = [k \in 0 .. n |-> IF k = 0 THEN c ELSE Visit(f[k - 1], k, reset, on, moved, to)]

LEMMA AllNaturals ==
    ASSUME NEW T, 0 \in T, \A n \in Nat : n \in T => n + 1 \in T
    PROVE  \A n \in Nat : n \in T
  <1> DEFINE B == Nat \ T
  <1>1. SUFFICES ASSUME B # {} PROVE FALSE
    OBVIOUS
  <1>2. PICK x \in B : \A y \in B : x <= y
    BY <1>1, LeastNatural
  <1>3. x # 0 /\ x - 1 \in Nat /\ x - 1 \notin B
    BY <1>2
  <1> QED
    BY <1>2, <1>3

LEMMA OneMoreVisit ==
    ASSUME NEW c, NEW reset, NEW on, NEW moved, NEW to, NEW n \in Nat, NEW f,
           Visits(f, n, c, reset, on, moved, to)
    PROVE  \E h : Visits(h, n + 1, c, reset, on, moved, to)
  <1> DEFINE V(x, k) == Visit(x, k, reset, on, moved, to)
             h == [k \in 0 .. n + 1 |-> IF k = n + 1 THEN V(f[n], n + 1) ELSE f[k]]
  <1>1. \A k \in 0 .. n : h[k] = f[k]
    OBVIOUS
  <1>2. h[n + 1] = V(f[n], n + 1)
    OBVIOUS
  <1>3. \A k \in 0 .. n : f[k] = IF k = 0 THEN c ELSE V(f[k - 1], k)
    BY DEF Visits
  <1>4. DOMAIN h = 0 .. n + 1 /\ h = [k \in 0 .. n + 1 |-> h[k]]
    OBVIOUS
  <1> HIDE DEF h, V
  <1>5. ASSUME NEW k \in 0 .. n + 1
        PROVE  h[k] = IF k = 0 THEN c ELSE V(h[k - 1], k)
    <2>1. CASE k = n + 1
      <3>1. k # 0 /\ k - 1 = n /\ n \in 0 .. n
        BY <2>1
      <3> QED
        BY <1>1, <1>2, <2>1, <3>1
    <2>2. CASE k = 0
      <3>1. k \in 0 .. n
        BY <2>2
      <3> QED
        BY <1>1, <1>3, <2>2, <3>1
    <2>3. CASE k # 0 /\ k # n + 1
      <3>1. k \in 0 .. n /\ k - 1 \in 0 .. n
        BY <2>3
      <3> QED
        BY <1>1, <1>3, <2>3, <3>1
    <2> QED
      BY <2>1, <2>2, <2>3
  <1>6. h = [k \in 0 .. n + 1 |-> IF k = 0 THEN c ELSE V(h[k - 1], k)]
    BY <1>4, <1>5
  <1> QED
    BY <1>6 DEF Visits, V

LEMMA VisitsExist ==
    ASSUME NEW c, NEW reset, NEW on, NEW moved, NEW to
    PROVE  \A n \in Nat : \E f : Visits(f, n, c, reset, on, moved, to)
  <1> DEFINE T == {n \in Nat : \E f : Visits(f, n, c, reset, on, moved, to)}
  <1>1. 0 \in T
    <2>1. Visits([k \in 0 .. 0 |-> c], 0, c, reset, on, moved, to)
      BY DEF Visits
    <2> QED
      BY <2>1
  <1>2. \A n \in Nat : n \in T => n + 1 \in T
    BY OneMoreVisit
  <1> HIDE DEF T
  <1>3. \A n \in Nat : n \in T
    BY <1>1, <1>2, AllNaturals
  <1> QED
    BY <1>3 DEF T

LEMMA VisitKeeps ==
    ASSUME NEW x, IsClient(x), NEW k \in DOMAIN Listed, NEW reset, NEW on, NEW moved,
           NEW to \in [Endpoints -> Servers]
    PROVE  Kept(x, Visit(x, k, reset, on, moved, to))
  <1>1. Listed[k] \in Endpoints /\ to[Listed[k]] \in Servers
    BY EndpointsAssumption
  <1>2. Kept(x, x)
    BY DEF Kept
  <1>3. CASE reset
    BY <1>2, <1>3, ResetAndReconnectKeeps DEF Visit
  <1>4. CASE ~ reset
    <2>1. (Listed[k] \in on) \in BOOLEAN /\ (Listed[k] \in moved) \in BOOLEAN
      OBVIOUS
    <2> QED
      BY <1>1, <1>4, <2>1, ApplyEndpointKeeps DEF Visit
  <1> QED
    BY <1>3, <1>4

\* A run of visits keeps what each of them keeps.
LEMMA VisitsKeep ==
    ASSUME NEW c, IsClient(c), NEW reset, NEW on, NEW moved, NEW to \in [Endpoints -> Servers],
           NEW f, Visits(f, Len(Listed), c, reset, on, moved, to)
    PROVE  Kept(c, f[Len(Listed)])
  <1> DEFINE N == Len(Listed)
             T == {k \in Nat : k <= N => Kept(c, f[k])}
  <1>1. N \in Nat /\ DOMAIN Listed = 1 .. N
    BY EndpointsAssumption
  <1>2. \A k \in 0 .. N : f[k] = IF k = 0 THEN c ELSE Visit(f[k - 1], k, reset, on, moved, to)
    BY DEF Visits
  <1> HIDE DEF N
  <1>3. 0 \in T
    <2>1. 0 \in 0 .. N
      BY <1>1
    <2>2. f[0] = c
      BY <1>2, <2>1
    <2> QED
      BY <2>2 DEF Kept
  <1>4. ASSUME NEW k \in Nat, k \in T PROVE k + 1 \in T
    <2> SUFFICES ASSUME k + 1 <= N PROVE Kept(c, f[k + 1])
      OBVIOUS
    <2>1. k + 1 \in 0 .. N /\ k + 1 # 0 /\ (k + 1) - 1 = k /\ k + 1 \in DOMAIN Listed /\ k <= N
      BY <1>1
    <2>2. f[k + 1] = Visit(f[k], k + 1, reset, on, moved, to)
      BY <1>2, <2>1
    <2>3. Kept(c, f[k]) /\ IsClient(f[k])
      BY <1>4, <2>1 DEF Kept
    <2>4. Kept(f[k], f[k + 1])
      BY <2>1, <2>2, <2>3, VisitKeeps
    <2> QED
      BY <2>3, <2>4, KeptTwice
  <1> HIDE DEF T
  <1>5. \A k \in Nat : k \in T
    BY <1>3, <1>4, AllNaturals
  <1> QED
    BY <1>1, <1>5 DEF T, N

LEMMA ApplyEndpointsKeeps ==
    ASSUME NEW c, IsClient(c), NEW on, NEW moved, NEW to \in [Endpoints -> Servers]
    PROVE  Kept(c, ApplyEndpoints(c, on, moved, to))
  <1> DEFINE Run(f) == f = [k \in 0 .. Len(Listed) |->
                             IF k = 0 THEN c
                             ELSE ApplyEndpoint(f[k - 1], Listed[k], Listed[k] \in on,
                                                Listed[k] \in moved, to[Listed[k]])]
             f == CHOOSE x : Run(x)
  <1>1. \A x : Run(x) <=> Visits(x, Len(Listed), c, FALSE, on, moved, to)
    BY DEF Visits, Visit
  <1>2. Len(Listed) \in Nat
    BY EndpointsAssumption
  <1>3. \E x : Run(x)
    BY <1>1, <1>2, VisitsExist
  <1>4. ApplyEndpoints(c, on, moved, to) = f[Len(Listed)]
    BY DEF ApplyEndpoints
  <1> HIDE DEF Run
  <1>5. Run(f)
    BY <1>3
  <1> HIDE DEF f
  <1> QED
    BY <1>1, <1>4, <1>5, VisitsKeep

LEMMA ResetAllKeeps ==
    ASSUME NEW c, IsClient(c), NEW to \in [Endpoints -> Servers]
    PROVE  Kept(c, ResetAll(c))
  <1> DEFINE Run(f) == f = [k \in 0 .. Len(Listed) |->
                             IF k = 0 THEN c
                             ELSE IF Listed[k] \in DOMAIN f[k - 1].conn
                                  THEN ResetAndReconnect(f[k - 1], Listed[k])
                                  ELSE f[k - 1]]
             f == CHOOSE x : Run(x)
  <1>1. \A x : Run(x) <=> Visits(x, Len(Listed), c, TRUE, {}, {}, to)
    BY DEF Visits, Visit
  <1>2. Len(Listed) \in Nat
    BY EndpointsAssumption
  <1>3. \E x : Run(x)
    BY <1>1, <1>2, VisitsExist
  <1>4. ResetAll(c) = f[Len(Listed)]
    BY DEF ResetAll
  <1> HIDE DEF Run
  <1>5. Run(f)
    BY <1>3
  <1> HIDE DEF f
  <1> QED
    BY <1>1, <1>4, <1>5, VisitsKeep

-----------------------------------------------------------------------------
(* The events of a socket.                                                 *)

OthersTyped ==
    /\ enabled \subseteq Endpoints /\ members \subseteq Servers
    /\ reach \in [Endpoints -> Servers] /\ known \in [Endpoints -> Servers \union {None}]
    /\ drops \in 0 .. MaxDrops /\ resyncs \in 0 .. MaxResyncs /\ changes \in 0 .. MaxChanges

LEMMA InvParts ==
    /\ EndpointsInv <=> Well(client) /\ OthersTyped
    /\ EndpointsInv' <=> Well(client') /\ OthersTyped'
  BY DEF EndpointsInv, EndpointsTypeOK, OthersTyped, Well

LEMMA KeptInv ==
    ASSUME EndpointsInv, Kept(client, client'), OthersTyped'
    PROVE  EndpointsInv'
  BY InvParts, KeptWell

\* Who owns an open socket, and where it leads
LEMMA OpenOwned ==
    ASSUME NEW c, Sound(c, {}), NEW n \in DOMAIN c.sock, c.sock[n].state # "closing"
    PROVE  /\ c.sock[n].owned /\ c.sock[n].ep \in DOMAIN c.conn
           /\ c.sock[n].server = c.conn[c.sock[n].ep].server
  BY DEF Sound, SocketsSound

LEMMA SocketTyped ==
    ASSUME NEW c, IsClient(c), NEW n \in DOMAIN c.sock
    PROVE  n \in Nat /\ c.sock[n] \in Socket /\ c.sock[n].ep \in Endpoints
  BY DEF IsClient, IsMap, Socket

With(c, n, k) == [c EXCEPT !.sock[n] = k]

\* Socket n becomes k, and the phase of its endpoint, no longer ready, is shown.
LEMMA ChangedAndShown ==
    ASSUME NEW c, IsClient(c), NEW n \in DOMAIN c.sock, NEW k \in Socket,
           k.ep = c.sock[n].ep, k.owned = c.sock[n].owned, k.server = c.sock[n].server,
           NEW phase \in Phase, phase # "ready",
           NEW d, d = SetPhase(With(c, n, k), n, phase)
    PROVE  /\ IsClient(d) /\ d.stray = c.stray /\ n \in DOMAIN d.sock /\ d.sock[n] = k
           /\ Sound(c, {}) /\ (k.owned \/ k.state = "closing") =>
                 Sound(d, {}) /\ Silent(d, k.ep)
  <1>0. PICK b : b = With(c, n, k)
    OBVIOUS
  <1>1. PICK e : e = k.ep
    OBVIOUS
  <1>2. /\ IsClient(b) /\ b.stray = c.stray
        /\ DOMAIN b.sock = DOMAIN c.sock /\ b.sock[n] = k
        /\ /\ Sound(c, {e})
           /\ k.owned \/ k.state = "closing"
           /\ \A x \in DOMAIN c.senders \ {e} : c.senders[x] = n =>
                 /\ k.state = "open" /\ k.stage \in {"auth", "grant", "ready"}
                 /\ c.sock[n].stage = "ready" => k.stage = "ready"
           => Sound(b, {e})
    BY <1>0, SocketChanged DEF With
  <1>3. /\ IsClient(d) /\ Framed(b, d)
        /\ Sound(b, {e}) => Sound(d, {}) /\ Silent(d, e)
    <2>1. n \in DOMAIN b.sock /\ e = b.sock[n].ep
      BY <1>1, <1>2
    <2> QED
      BY <1>0, <1>2, <2>1, SetPhaseKeeps
  <1>4. ASSUME Sound(c, {}) PROVE Sound(c, {e})
    BY <1>4, SoundMore
  <1>5. ASSUME Sound(c, {}), NEW x \in DOMAIN c.senders \ {e} PROVE c.senders[x] # n
    BY <1>1, <1>5 DEF Sound, SendersSound, Carries
  <1> QED
    BY <1>1, <1>2, <1>3, <1>4, <1>5 DEF Framed

\* Endpoint e sends on socket n.
LEMMA SendsKeeps ==
    ASSUME NEW c, IsClient(c), NEW e \in Endpoints, NEW n \in Nat,
           NEW d, d = [c EXCEPT !.senders = Put(@, e, n)]
    PROVE  /\ IsClient(d) /\ d.stray = c.stray /\ d.sock = c.sock /\ d.conn = c.conn
           /\ d.ready = c.ready /\ e \in DOMAIN d.senders /\ d.senders[e] = n
           /\ Sound(c, {e}) => Sound(d, {e})
           /\ Sound(c, {}) /\ Silent(c, e) /\ Carries(c, n, e) => Sound(d, {})
  <1>1. PICK senders : senders = Put(c.senders, e, n)
    OBVIOUS
  <1>2. /\ HasFields(d) /\ d.conn = c.conn /\ d.sock = c.sock /\ d.senders = senders
        /\ d.primaries = c.primaries /\ d.ready = c.ready /\ d.primaryFor = c.primaryFor
        /\ d.phases = c.phases /\ d.stray = c.stray
    BY <1>1 DEF IsClient, HasFields
  <1>3. IsMap(c.senders, Endpoints, Nat) /\ IsMap(c.primaries, DOMAIN c.senders, Nat)
    BY DEF IsClient
  <1>4. IsMap(senders, Endpoints, Nat)
    BY <1>1, <1>3, MapPut
  <1>5. /\ DOMAIN senders = DOMAIN c.senders \union {e} /\ senders[e] = n
        /\ \A x \in DOMAIN c.senders : x # e => senders[x] = c.senders[x]
    BY <1>1 DEF Put
  <1>6. IsMap(c.primaries, DOMAIN senders, Nat)
    BY <1>3, <1>5 DEF IsMap
  <1>7. IsClient(d)
    BY <1>2, <1>4, <1>6 DEF IsClient
  <1>8. ASSUME Sound(c, {e}) PROVE Sound(d, {e})
    <2>1. Once(d) /\ SocketsSound(d) /\ Entries(d) = Entries(c)
      BY <1>2, <1>8 DEF Sound, Once, SocketsSound, Entries
    <2>2. SendersSound(d, {e})
      BY <1>2, <1>5, <1>8 DEF Sound, SendersSound, Carries
    <2>3. ReadySound(d, {e})
      BY <1>2, <1>5, <1>8, <2>1 DEF Sound, ReadySound
    <2>4. PrimariesSound(d, {e})
      <3>1. DOMAIN c.primaries \subseteq DOMAIN c.senders
        BY <1>3 DEF IsMap
      <3> QED
        BY <1>2, <1>5, <1>8, <2>1, <3>1 DEF Sound, PrimariesSound
    <2> QED
      BY <2>1, <2>2, <2>3, <2>4 DEF Sound
  <1>9. ASSUME Sound(c, {}), Silent(c, e), Carries(c, n, e) PROVE Sound(d, {})
    <2>1. Sound(d, {e})
      BY <1>8, <1>9, SoundMore
    <2>2. \A r \in Entries(d) : r.ep # e
      BY <1>2, <1>9 DEF Silent, IsReady, Entries
    <2>3. SendersSound(d, {})
      BY <1>2, <1>5, <1>9, <2>1 DEF Sound, SendersSound, Carries
    <2>4. ReadySound(d, {})
      BY <2>1, <2>2 DEF Sound, ReadySound
    <2>5. \A s \in DOMAIN d.primaryFor : d.primaryFor[s] # e
      <3> SUFFICES ASSUME NEW s \in DOMAIN d.primaryFor, d.primaryFor[s] = e PROVE FALSE
        OBVIOUS
      <3>1. [ep |-> d.primaryFor[s], server |-> s] \in Entries(d)
        BY <2>1 DEF Sound, PrimariesSound
      <3> QED
        BY <2>2, <3>1
    <2>6. e \notin DOMAIN d.primaries
      BY <1>2, <1>3, <1>9 DEF Silent, IsMap
    <2>7. PrimariesSound(d, {})
      BY <2>1, <2>5, <2>6 DEF Sound, PrimariesSound
    <2> QED
      BY <2>1, <2>3, <2>4, <2>7 DEF Sound
  <1> QED
    BY <1>2, <1>5, <1>7, <1>8, <1>9

LEMMA OpenInv ==
    ASSUME EndpointsInv, NEW n, Open(n)
    PROVE  EndpointsInv'
  <1>1. PICK c : c = client
    OBVIOUS
  <1>2. IsClient(c) /\ n \in DOMAIN c.sock /\ c.sock[n].state = "connecting"
    BY <1>1 DEF Open, Is, EndpointsInv, Well
  <1>3. PICK t : t = OwnTimerCleared(c, n)
    OBVIOUS
  <1>4. IsClient(t) /\ Untimed(c, t)
    <2>1. c.sock[n].owned => c.sock[n].ep \in DOMAIN c.conn
      BY <1>2 DEF IsClient
    <2>2. Untimed(c, c)
      BY DEF Untimed
    <2> QED
      BY <1>2, <1>3, <2>1, <2>2, ClearConnectTimerKeeps DEF OwnTimerCleared
  <1>5. n \in DOMAIN t.sock /\ t.sock[n].state = "connecting"
    BY <1>2, <1>4 DEF Untimed
  <1>6. PICK k : k = [t.sock[n] EXCEPT !.state = "open", !.stage = "hello"]
    OBVIOUS
  <1>7. /\ k \in Socket /\ k.ep = t.sock[n].ep /\ k.owned = t.sock[n].owned
        /\ k.server = t.sock[n].server
    BY <1>4, <1>5, <1>6, SocketTyped DEF Socket
  <1>8. PICK b : b = With(t, n, k)
    OBVIOUS
  <1>9. b = [t EXCEPT !.sock[n].state = "open", !.sock[n].stage = "hello"]
    BY <1>4, <1>5, <1>6, <1>8 DEF IsClient, IsMap, HasFields, With
  <1>10. client' = SetPhase(b, n, "handshaking")
    BY <1>1, <1>3, <1>9 DEF Open, Only
  <1>11. PICK d : d = client'
    OBVIOUS
  <1>12. "handshaking" \in Phase
    BY DEF Phase
  <1>13. /\ IsClient(d) /\ d.stray = t.stray
         /\ Sound(t, {}) /\ (k.owned \/ k.state = "closing") => Sound(d, {})
    BY <1>4, <1>5, <1>7, <1>8, <1>10, <1>11, <1>12, ChangedAndShown
  <1>14. ASSUME Sound(c, {}) PROVE Sound(d, {})
    <2>1. Sound(t, {})
      BY <1>4, <1>14, UntimedSound
    <2>2. k.owned
      BY <1>5, <1>7, <2>1, OpenOwned
    <2> QED
      BY <1>13, <2>1, <2>2
  <1>15. d.stray = c.stray
    BY <1>4, <1>13 DEF Untimed
  <1>16. Kept(c, d)
    BY <1>13, <1>14, <1>15 DEF Kept
  <1>17. OthersTyped'
    BY InvParts DEF Open, Only, Quiet, OthersTyped
  <1> QED
    BY <1>1, <1>11, <1>16, <1>17, KeptInv

LEMMA ConnectTimeoutInv ==
    ASSUME EndpointsInv, NEW n, ConnectTimeout(n)
    PROVE  EndpointsInv'
  <1>1. PICK c : c = client
    OBVIOUS
  <1>2. IsClient(c) /\ n \in DOMAIN c.sock
    BY <1>1 DEF ConnectTimeout, EndpointsInv, Well
  <1>3. PICK k : k = [c.sock[n] EXCEPT !.timed = FALSE,
                                       !.state = IF @ = "connecting" THEN "closing" ELSE @]
    OBVIOUS
  <1>4. /\ k \in Socket /\ k.ep = c.sock[n].ep /\ k.owned = c.sock[n].owned
        /\ k.server = c.sock[n].server /\ k.stage = c.sock[n].stage
        /\ k.state = IF c.sock[n].state = "connecting" THEN "closing" ELSE c.sock[n].state
    BY <1>2, <1>3, SocketTyped DEF Socket
  <1>5. PICK b : b = [c EXCEPT !.sock[n] = k]
    OBVIOUS
  <1>6. /\ IsClient(b) /\ b.stray = c.stray /\ b.conn = c.conn
        /\ /\ Sound(c, {})
           /\ k.owned \/ k.state = "closing"
           /\ \A e \in DOMAIN c.senders \ {} : c.senders[e] = n =>
                 /\ k.state = "open" /\ k.stage \in {"auth", "grant", "ready"}
                 /\ c.sock[n].stage = "ready" => k.stage = "ready"
           => Sound(b, {})
    BY <1>2, <1>4, <1>5, SocketChanged
  <1>7. ASSUME Sound(c, {}) PROVE Sound(b, {})
    <2>1. k.owned \/ k.state = "closing"
      BY <1>2, <1>4, <1>7, OpenOwned
    <2>2. \A e \in DOMAIN c.senders : c.senders[e] = n =>
             c.sock[n].state = "open" /\ c.sock[n].stage \in {"auth", "grant", "ready"}
      BY <1>7 DEF Sound, SendersSound, Carries
    <2> QED
      BY <1>4, <1>6, <1>7, <2>1, <2>2
  <1>8. Kept(c, b)
    BY <1>6, <1>7 DEF Kept
  <1>9. PICK e : e = c.sock[n].ep
    OBVIOUS
  <1>10. PICK conn : conn = IF c.sock[n].owned THEN [b.conn EXCEPT ![e].timer = None] ELSE b.conn
    OBVIOUS
  <1>11. PICK d : d = [b EXCEPT !.conn = conn]
    OBVIOUS
  <1>12. client' = d
    <2>1. client' = [c EXCEPT !.sock[n].timed = FALSE,
                              !.sock[n].state = IF @ = "connecting" THEN "closing" ELSE @,
                              !.conn = IF c.sock[n].owned
                                       THEN [@ EXCEPT ![c.sock[n].ep].timer = None] ELSE @]
      BY <1>1 DEF ConnectTimeout, Only
    <2>2. [c EXCEPT !.sock[n].timed = FALSE,
                    !.sock[n].state = IF @ = "connecting" THEN "closing" ELSE @] = b
      <3>1. c.sock = [m \in DOMAIN c.sock |-> c.sock[m]] /\ c.sock[n] \in Socket
        BY <1>2 DEF IsClient, IsMap
      <3>2. [c.sock EXCEPT ![n].timed = FALSE,
                           ![n].state = IF @ = "connecting" THEN "closing" ELSE @]
              = [c.sock EXCEPT ![n] = k]
        BY <1>2, <1>3, <3>1 DEF Socket
      <3> QED
        BY <1>2, <1>5, <3>2 DEF IsClient, HasFields
    <2>3. client' = [b EXCEPT !.conn = IF c.sock[n].owned
                                       THEN [@ EXCEPT ![e].timer = None] ELSE @]
      BY <1>2, <1>9, <2>1, <2>2 DEF IsClient, HasFields
    <2> QED
      BY <1>6, <1>10, <1>11, <2>3 DEF IsClient, HasFields
  <1>13. IsClient(d) /\ Untimed(b, d)
    <2>1. /\ HasFields(d) /\ d.conn = conn
          /\ d.sock = b.sock /\ d.senders = b.senders /\ d.primaries = b.primaries
          /\ d.ready = b.ready /\ d.primaryFor = b.primaryFor /\ d.stray = b.stray
          /\ d.phases = b.phases
      BY <1>6, <1>11 DEF IsClient, HasFields
    <2>2. IsMap(b.conn, Endpoints, Connection)
      BY <1>6 DEF IsClient
    <2>3. e \in DOMAIN b.conn =>
             LET row == [b.conn[e] EXCEPT !.timer = None] IN
             row \in Connection /\ row.ws = b.conn[e].ws /\ row.server = b.conn[e].server
      BY <2>2 DEF IsMap, Connection
    <2>4. /\ DOMAIN conn = DOMAIN b.conn /\ conn = [x \in DOMAIN conn |-> conn[x]]
          /\ \A x \in DOMAIN b.conn : /\ conn[x] \in Connection
                                      /\ conn[x].ws = b.conn[x].ws
                                      /\ conn[x].server = b.conn[x].server
      BY <1>10, <2>2, <2>3 DEF IsMap
    <2>5. IsMap(d.phases, Endpoints, Phase \union {"disabled"})
      BY <1>6, <2>1 DEF IsClient
    <2> QED
      BY <1>6, <2>1, <2>4, <2>5, RetimedKeeps
  <1>14. Kept(c, d)
    BY <1>8, <1>13, KeptTwice, UntimedKept
  <1>15. OthersTyped'
    BY InvParts, EndpointsAssumption DEF ConnectTimeout, Failure, Only, OthersTyped
  <1> QED
    BY <1>1, <1>12, <1>14, <1>15, KeptInv

\* Socket n reaches another stage.
LEMMA StagedAt ==
    ASSUME NEW c, IsClient(c), NEW n \in DOMAIN c.sock,
           NEW stage \in {"none", "hello", "parked", "auth", "grant", "ready"}
    PROVE  \E k \in Socket :
              /\ k.ep = c.sock[n].ep /\ k.owned = c.sock[n].owned /\ k.server = c.sock[n].server
              /\ k.state = c.sock[n].state /\ k.stage = stage
              /\ Staged(c, n, stage) = With(c, n, k)
  <1>1. PICK k : k = [c.sock[n] EXCEPT !.stage = stage]
    OBVIOUS
  <1>2. /\ k \in Socket /\ k.ep = c.sock[n].ep /\ k.owned = c.sock[n].owned
        /\ k.server = c.sock[n].server /\ k.state = c.sock[n].state /\ k.stage = stage
    BY <1>1, SocketTyped DEF Socket
  <1>3. Staged(c, n, stage) = With(c, n, k)
    BY <1>1 DEF Staged, With, IsClient, IsMap, HasFields
  <1> QED
    BY <1>2, <1>3

LEMMA StagedKeeps ==
    ASSUME NEW c, IsClient(c), NEW n \in DOMAIN c.sock, c.sock[n].state = "open",
           c.sock[n].stage \in {"hello", "auth", "grant"},
           NEW stage \in {"auth", "grant", "ready"},
           NEW d, d = Staged(c, n, stage)
    PROVE  /\ IsClient(d) /\ d.stray = c.stray
           /\ Sound(c, {}) => Sound(d, {})
           /\ d.conn = c.conn /\ d.senders = c.senders /\ d.ready = c.ready
           /\ n \in DOMAIN d.sock /\ d.sock[n].stage = stage /\ d.sock[n].state = "open"
           /\ d.sock[n].ep = c.sock[n].ep /\ d.sock[n].owned = c.sock[n].owned
           /\ d.sock[n].server = c.sock[n].server
  <1>1. PICK k \in Socket :
              /\ k.ep = c.sock[n].ep /\ k.owned = c.sock[n].owned /\ k.server = c.sock[n].server
              /\ k.state = c.sock[n].state /\ k.stage = stage
              /\ Staged(c, n, stage) = With(c, n, k)
    BY StagedAt
  <1>2. PICK b : b = With(c, n, k)
    OBVIOUS
  <1>3. /\ IsClient(b) /\ b.stray = c.stray /\ b.conn = c.conn /\ b.senders = c.senders
        /\ b.ready = c.ready /\ DOMAIN b.sock = DOMAIN c.sock /\ b.sock[n] = k
        /\ /\ Sound(c, {})
           /\ k.owned \/ k.state = "closing"
           /\ \A e \in DOMAIN c.senders \ {} : c.senders[e] = n =>
                 /\ k.state = "open" /\ k.stage \in {"auth", "grant", "ready"}
                 /\ c.sock[n].stage = "ready" => k.stage = "ready"
           => Sound(b, {})
    BY <1>1, <1>2, SocketChanged DEF With
  <1>4. ASSUME Sound(c, {}) PROVE Sound(b, {})
    <2>1. k.owned
      BY <1>1, <1>4, OpenOwned
    <2> QED
      BY <1>1, <1>3, <1>4, <2>1
  <1>5. d = b
    BY <1>1, <1>2
  <1> QED
    BY <1>1, <1>3, <1>4, <1>5

LEMMA ChallengeInv ==
    ASSUME EndpointsInv, NEW n, Challenge(n)
    PROVE  EndpointsInv'
  <1>1. PICK c : c = client
    OBVIOUS
  <1>2. /\ IsClient(c) /\ n \in DOMAIN c.sock
        /\ c.sock[n].state = "open" /\ c.sock[n].stage = "hello"
    BY <1>1 DEF Challenge, Is, EndpointsInv, Well
  <1>3. PICK d : d = client'
    OBVIOUS
  <1>4. \/ \E p \in {"variant_mismatch", "conflict"} : d = SetPhase(Staged(c, n, "parked"), n, p)
        \/ d = Staged(c, n, "auth")
    BY <1>1, <1>3 DEF Challenge, Only
  <1>5. ASSUME NEW p \in {"variant_mismatch", "conflict"}, d = SetPhase(Staged(c, n, "parked"), n, p)
        PROVE  Kept(c, d)
    <2>1. PICK k \in Socket :
              /\ k.ep = c.sock[n].ep /\ k.owned = c.sock[n].owned /\ k.server = c.sock[n].server
              /\ k.state = c.sock[n].state /\ k.stage = "parked"
              /\ Staged(c, n, "parked") = With(c, n, k)
      BY <1>2, StagedAt
    <2>2. d = SetPhase(With(c, n, k), n, p)
      BY <1>5, <2>1
    <2>3. p \in Phase
      BY DEF Phase
    <2>4. /\ IsClient(d) /\ d.stray = c.stray
          /\ Sound(c, {}) /\ (k.owned \/ k.state = "closing") => Sound(d, {})
      BY <1>2, <2>1, <2>2, <2>3, ChangedAndShown
    <2>5. Sound(c, {}) => k.owned
      BY <1>2, <2>1, OpenOwned
    <2> QED
      BY <2>4, <2>5 DEF Kept
  <1>6. ASSUME d = Staged(c, n, "auth") PROVE Kept(c, d)
    BY <1>2, <1>6, StagedKeeps DEF Kept
  <1>7. Kept(c, d)
    BY <1>4, <1>5, <1>6
  <1>8. OthersTyped'
    BY InvParts DEF Challenge, Only, Quiet, OthersTyped
  <1> QED
    BY <1>1, <1>3, <1>7, <1>8, KeptInv

LEMMA OkInv ==
    ASSUME EndpointsInv, NEW n, Ok(n)
    PROVE  EndpointsInv'
  <1>1. PICK c : c = client
    OBVIOUS
  <1>2. /\ IsClient(c) /\ n \in DOMAIN c.sock
        /\ c.sock[n].state = "open" /\ c.sock[n].stage = "auth"
    BY <1>1 DEF Ok, Is, EndpointsInv, Well
  <1>3. PICK d : d = client'
    OBVIOUS
  <1>4. PICK e : e = c.sock[n].ep
    OBVIOUS
  <1>5. PICK s : s = c.sock[n].server
    OBVIOUS
  <1>6. e \in Endpoints /\ s \in Servers /\ n \in Nat
    BY <1>2, <1>4, <1>5, SocketTyped DEF Socket
  <1>7. PICK a : a = Staged(c, n, "ready")
    OBVIOUS
  <1>8. /\ IsClient(a) /\ (Sound(c, {}) => Sound(a, {})) /\ a.stray = c.stray
        /\ a.conn = c.conn /\ a.ready = c.ready
        /\ n \in DOMAIN a.sock /\ a.sock[n].stage = "ready" /\ a.sock[n].state = "open"
        /\ a.sock[n].ep = e /\ a.sock[n].owned = c.sock[n].owned
    BY <1>2, <1>4, <1>7, StagedKeeps
  <1>9. PICK b : b = SetPhase(a, n, "ready")
    OBVIOUS
  <1>10. "ready" \in Phase
    BY DEF Phase
  <1>11. IsClient(b) /\ Untimed(a, b)
    BY <1>8, <1>9, <1>10, SetPhaseKeeps
  <1>12. PICK g : g = [b EXCEPT !.senders = Put(@, e, n)]
    OBVIOUS
  <1>13. /\ IsClient(g) /\ g.stray = b.stray /\ g.sock = b.sock /\ g.conn = b.conn
         /\ g.ready = b.ready /\ e \in DOMAIN g.senders /\ g.senders[e] = n
         /\ Sound(b, {e}) => Sound(g, {e})
    BY <1>6, <1>11, <1>12, SendsKeeps
  <1>14. d = ClaimOrDefer(g, e, s, g.senders[e])
    <2>1. client' = ClaimOrDefer([SetPhase(Staged(c, n, "ready"), n, "ready")
                                    EXCEPT !.senders = Put(@, c.sock[n].ep, n)],
                                 c.sock[n].ep, c.sock[n].server, n)
      BY <1>1 DEF Ok, Only
    <2> QED
      BY <1>3, <1>4, <1>5, <1>7, <1>9, <1>12, <1>13, <2>1
  <1>15. /\ IsClient(d) /\ d.stray = g.stray
         /\ /\ Sound(g, {e}) /\ Carries(g, g.senders[e], e)
            /\ g.sock[g.senders[e]].stage = "ready"
            /\ e \in DOMAIN g.conn /\ g.conn[e].server = s
            /\ \A r \in Entries(g) : r.ep = e => r.server = s
            => Sound(d, {})
    BY <1>6, <1>13, <1>14, ClaimOrDeferKeeps
  <1>16. d.stray = c.stray
    BY <1>8, <1>11, <1>13, <1>15 DEF Untimed
  <1>17. ASSUME Sound(c, {}) PROVE Sound(d, {})
    <2>1. Sound(b, {}) /\ Sound(b, {e})
      BY <1>8, <1>11, <1>17, UntimedSound, SoundMore
    <2>2. n \in DOMAIN b.sock /\ b.sock[n].stage = "ready" /\ b.sock[n].state = "open"
          /\ b.sock[n].ep = e /\ b.sock[n].owned = c.sock[n].owned
      BY <1>8, <1>11 DEF Untimed
    <2>3. c.sock[n].owned /\ e \in DOMAIN c.conn /\ s = c.conn[e].server
      BY <1>2, <1>4, <1>5, <1>17, OpenOwned
    <2>4. Carries(g, g.senders[e], e) /\ g.sock[g.senders[e]].stage = "ready"
      BY <1>13, <2>2, <2>3 DEF Carries
    <2>5. e \in DOMAIN g.conn /\ g.conn[e].server = s
      BY <1>8, <1>11, <1>13, <2>3 DEF Untimed
    <2>6. \A r \in Entries(g) : r.ep = e => r.server = s
      <3>1. Entries(g) = Entries(c)
        BY <1>8, <1>11, <1>13 DEF Untimed, Entries
      <3> QED
        BY <1>17, <2>3, <3>1 DEF Sound, ReadySound
    <2> QED
      BY <1>13, <1>15, <2>1, <2>4, <2>5, <2>6
  <1>18. Kept(c, d)
    BY <1>15, <1>16, <1>17 DEF Kept
  <1>19. OthersTyped'
    <2>1. known' = [known EXCEPT ![e] = s]
      BY <1>1, <1>4, <1>5 DEF Ok
    <2>2. known' \in [Endpoints -> Servers \union {None}]
      BY <1>6, <2>1, InvParts DEF OthersTyped
    <2> QED
      BY <2>2, InvParts DEF Ok, Only, OthersTyped
  <1> QED
    BY <1>1, <1>3, <1>18, <1>19, KeptInv

LEMMA NeedsGrantInv ==
    ASSUME EndpointsInv, NEW n, NeedsGrant(n)
    PROVE  EndpointsInv'
  <1>1. PICK c : c = client
    OBVIOUS
  <1>2. /\ IsClient(c) /\ n \in DOMAIN c.sock
        /\ c.sock[n].state = "open" /\ c.sock[n].stage = "auth"
    BY <1>1 DEF NeedsGrant, Is, EndpointsInv, Well
  <1>3. PICK d : d = client'
    OBVIOUS
  <1>4. PICK e : e = c.sock[n].ep
    OBVIOUS
  <1>5. e \in Endpoints /\ c.sock[n].server \in Servers /\ n \in Nat
    BY <1>2, <1>4, SocketTyped DEF Socket
  <1>6. PICK k \in Socket :
            /\ k.ep = c.sock[n].ep /\ k.owned = c.sock[n].owned /\ k.server = c.sock[n].server
            /\ k.state = c.sock[n].state /\ k.stage = "grant"
            /\ Staged(c, n, "grant") = With(c, n, k)
    BY <1>2, StagedAt
  <1>7. PICK b : b = SetPhase(With(c, n, k), n, "needs_grant")
    OBVIOUS
  <1>8. "needs_grant" \in Phase
    BY DEF Phase
  <1>9. /\ IsClient(b) /\ b.stray = c.stray /\ n \in DOMAIN b.sock /\ b.sock[n] = k
        /\ Sound(c, {}) /\ (k.owned \/ k.state = "closing") => Sound(b, {}) /\ Silent(b, k.ep)
    BY <1>2, <1>6, <1>7, <1>8, ChangedAndShown
  <1>10. PICK g : g = [b EXCEPT !.senders = Put(@, e, n)]
    OBVIOUS
  <1>11. /\ IsClient(d) /\ d.stray = b.stray
         /\ Sound(b, {}) /\ Silent(b, e) /\ Carries(b, n, e) => Sound(d, {})
    <2>1. d = g
      BY <1>1, <1>3, <1>4, <1>6, <1>7, <1>10 DEF NeedsGrant, Only
    <2>2. /\ IsClient(g) /\ g.stray = b.stray
          /\ Sound(b, {}) /\ Silent(b, e) /\ Carries(b, n, e) => Sound(g, {})
      <3>1. IsClient(b) /\ e \in Endpoints /\ n \in Nat
        BY <1>5, <1>9
      <3>2. IsClient(g) /\ g.stray = b.stray
        <4>1. IsClient(g)
          BY <1>10, <3>1, SendsKeeps
        <4>2. g.stray = b.stray
          BY <1>10, <3>1 DEF IsClient, HasFields
        <4> QED
          BY <4>1, <4>2
      <3>3. ASSUME Sound(b, {}), Silent(b, e), Carries(b, n, e) PROVE Sound(g, {})
        BY <1>10, <3>1, <3>3, SendsKeeps
      <3> QED
        BY <3>2, <3>3
    <2> QED
      BY <2>1, <2>2
  <1>12. ASSUME Sound(c, {}) PROVE Sound(d, {})
    <2>1. k.owned
      BY <1>2, <1>6, <1>12, OpenOwned
    <2>2. Carries(b, n, e)
      BY <1>2, <1>4, <1>6, <1>9, <2>1 DEF Carries
    <2> QED
      BY <1>4, <1>6, <1>9, <1>11, <1>12, <2>1, <2>2
  <1>13. Kept(c, d)
    BY <1>9, <1>11, <1>12 DEF Kept
  <1>14. OthersTyped'
    <2>1. known' = [known EXCEPT ![e] = c.sock[n].server]
      BY <1>1, <1>4 DEF NeedsGrant
    <2>2. known' \in [Endpoints -> Servers \union {None}]
      BY <1>5, <2>1, InvParts DEF OthersTyped
    <2> QED
      BY <2>2, InvParts DEF NeedsGrant, Only, OthersTyped
  <1> QED
    BY <1>1, <1>3, <1>13, <1>14, KeptInv

LEMMA RedeemGrantInv ==
    ASSUME EndpointsInv, NEW e, RedeemGrant(e)
    PROVE  EndpointsInv'
  <1>1. PICK c : c = client
    OBVIOUS
  <1>2. PICK n : n = c.senders[e]
    OBVIOUS
  <1>3. /\ IsClient(c) /\ n \in DOMAIN c.sock
        /\ c.sock[n].state = "open" /\ c.sock[n].stage = "grant"
    BY <1>1, <1>2 DEF RedeemGrant, Is, EndpointsInv, Well
  <1>4. PICK d : d = client'
    OBVIOUS
  <1>5. d = Staged(c, n, "auth")
    BY <1>1, <1>2, <1>4 DEF RedeemGrant
  <1>6. Kept(c, d)
    BY <1>3, <1>5, StagedKeeps DEF Kept
  <1>7. c.sock[n].server \in Servers
    BY <1>3, SocketTyped DEF Socket
  <1>8. OthersTyped'
    BY <1>1, <1>2, <1>7, InvParts DEF RedeemGrant, OthersTyped
  <1> QED
    BY <1>1, <1>4, <1>6, <1>8, KeptInv

LEMMA RejectedInv ==
    ASSUME EndpointsInv, NEW n, Rejected(n)
    PROVE  EndpointsInv'
  <1>1. PICK c : c = client
    OBVIOUS
  <1>2. IsClient(c) /\ n \in DOMAIN c.sock /\ c.sock[n].state = "open"
    BY <1>1 DEF Rejected, Is, EndpointsInv, Well
  <1>3. PICK d : d = client'
    OBVIOUS
  <1>4. PICK e : e = c.sock[n].ep
    OBVIOUS
  <1>5. PICK b : b = SetPhase(c, n, "error")
    OBVIOUS
  <1>6. "error" \in Phase /\ "error" # "ready"
    BY DEF Phase
  <1>7. /\ IsClient(b) /\ Framed(c, b) /\ e \notin DOMAIN b.senders
        /\ Sound(c, {e}) => Sound(b, {}) /\ Silent(b, e)
    BY <1>2, <1>4, <1>5, <1>6, SetPhaseKeeps
  <1>8. n \in DOMAIN b.sock /\ b.sock[n] = c.sock[n]
    BY <1>2, <1>7 DEF Framed
  <1>9. PICK k : k = [b.sock[n] EXCEPT !.state = "closing"]
    OBVIOUS
  <1>10. /\ k \in Socket /\ k.ep = b.sock[n].ep /\ k.owned = b.sock[n].owned
         /\ k.server = b.sock[n].server /\ k.state = "closing"
    BY <1>7, <1>8, <1>9, SocketTyped DEF Socket
  <1>11. d = With(b, n, k)
    <2>1. d = [b EXCEPT !.sock[n].state = "closing"]
      BY <1>1, <1>3, <1>5 DEF Rejected, Only
    <2> QED
      BY <1>7, <1>8, <1>9, <2>1 DEF With, IsClient, IsMap, HasFields
  <1>12. /\ IsClient(d) /\ d.stray = b.stray
         /\ /\ Sound(b, {})
            /\ k.owned \/ k.state = "closing"
            /\ \A x \in DOMAIN b.senders \ {} : b.senders[x] = n =>
                  /\ k.state = "open" /\ k.stage \in {"auth", "grant", "ready"}
                  /\ b.sock[n].stage = "ready" => k.stage = "ready"
            => Sound(d, {})
    BY <1>7, <1>8, <1>10, <1>11, SocketChanged DEF With
  <1>13. ASSUME Sound(c, {}) PROVE Sound(d, {})
    <2>1. Sound(b, {})
      BY <1>7, <1>13, SoundMore
    <2>2. ASSUME NEW x \in DOMAIN b.senders PROVE b.senders[x] # n
      BY <1>4, <1>7, <1>8, <2>1 DEF Sound, SendersSound, Carries
    <2> QED
      BY <1>10, <1>12, <2>1, <2>2
  <1>14. Kept(c, d)
    BY <1>7, <1>12, <1>13 DEF Kept, Framed
  <1>15. OthersTyped'
    BY InvParts, EndpointsAssumption DEF Rejected, Failure, Only, OthersTyped
  <1> QED
    BY <1>1, <1>3, <1>14, <1>15, KeptInv

LEMMA CloseEventInv ==
    ASSUME EndpointsInv, NEW n, CloseEvent(n)
    PROVE  EndpointsInv'
  <1>1. IsClient(client) /\ n \in DOMAIN client.sock /\ client' = Closed(client, n)
    BY DEF CloseEvent, Only, EndpointsInv, Well
  <1>2. Kept(client, client')
    BY <1>1, ClosedKeeps
  <1>3. OthersTyped'
    BY InvParts DEF CloseEvent, Only, Quiet, OthersTyped
  <1> QED
    BY <1>2, <1>3, KeptInv

LEMMA LostInv ==
    ASSUME EndpointsInv, NEW n, Lost(n)
    PROVE  EndpointsInv'
  <1>1. IsClient(client) /\ n \in DOMAIN client.sock /\ client' = Closed(client, n)
    BY DEF Lost, Only, EndpointsInv, Well
  <1>2. Kept(client, client')
    BY <1>1, ClosedKeeps
  <1>3. OthersTyped'
    BY InvParts, EndpointsAssumption DEF Lost, Failure, Only, OthersTyped
  <1> QED
    BY <1>2, <1>3, KeptInv

-----------------------------------------------------------------------------
(* Timers, the user, and the theorems.                                     *)

LEMMA RetryTimerInv ==
    ASSUME EndpointsInv, NEW e, RetryTimer(e)
    PROVE  EndpointsInv'
  <1>1. PICK c : c = client
    OBVIOUS
  <1>2. IsClient(c) /\ e \in DOMAIN c.conn
    BY <1>1 DEF RetryTimer, EndpointsInv, Well
  <1>3. PICK d : d = client'
    OBVIOUS
  <1>4. PICK b : b = [c EXCEPT !.conn[e].retry = FALSE]
    OBVIOUS
  <1>5. IsClient(b) /\ Untimed(c, b)
    BY <1>2, <1>4, RetryKeeps
  <1>6. e \in DOMAIN b.conn
    BY <1>2, <1>5 DEF Untimed
  <1>7. d = Connect(b, e)
    BY <1>1, <1>3, <1>4 DEF RetryTimer, Only
  <1>8. IsClient(d) /\ d.stray = b.stray /\ (Sound(b, {e}) => Sound(d, {}))
    BY <1>5, <1>6, <1>7, ConnectKeeps
  <1>9. Kept(b, d)
    <2>1. Sound(b, {}) => Sound(b, {e})
      BY SoundMore
    <2> QED
      BY <1>8, <2>1 DEF Kept
  <1>10. Kept(c, d)
    BY <1>5, <1>9, KeptTwice, UntimedKept
  <1>11. OthersTyped'
    BY InvParts DEF RetryTimer, Only, Quiet, OthersTyped
  <1> QED
    BY <1>1, <1>3, <1>10, <1>11, KeptInv

LEMMA ForceResyncInv ==
    ASSUME EndpointsInv, ForceResync
    PROVE  EndpointsInv'
  <1>1. IsClient(client) /\ reach \in [Endpoints -> Servers] /\ client' = ResetAll(client)
    BY DEF ForceResync, EndpointsInv, EndpointsTypeOK, Well
  <1>2. Kept(client, client')
    BY <1>1, ResetAllKeeps
  <1>3. OthersTyped'
    BY InvParts, EndpointsAssumption DEF ForceResync, OthersTyped
  <1> QED
    BY <1>2, <1>3, KeptInv

LEMMA RekeyInv ==
    ASSUME EndpointsInv, NEW e, Rekey(e)
    PROVE  EndpointsInv'
  <1>1. PICK c : c = client
    OBVIOUS
  <1>2. IsClient(c) /\ e \in DOMAIN c.conn /\ reach \in [Endpoints -> Servers]
    BY <1>1 DEF Rekey, EndpointsInv, EndpointsTypeOK, Well
  <1>3. PICK g : g = Forget(Stop(c, e), e)
    OBVIOUS
  <1>4. Kept(c, g) /\ IsClient(g)
    BY <1>2, <1>3, StoppedForgotten DEF Kept
  <1>5. PICK phases : phases = Without(g.phases, e)
    OBVIOUS
  <1>6. IsMap(g.phases, Endpoints, Phase \union {"disabled"})
    BY <1>4 DEF IsClient
  <1>7. IsMap(phases, Endpoints, Phase \union {"disabled"})
    BY <1>5, <1>6, MapWithout
  <1>8. PICK b : b = [g EXCEPT !.phases = phases]
    OBVIOUS
  <1>9. Kept(g, b) /\ IsClient(b)
    BY <1>4, <1>7, <1>8, PhasesKeep DEF Kept
  <1>10. client' = ApplyEndpoints(b, enabled, {}, reach)
    BY <1>1, <1>3, <1>5, <1>8 DEF Rekey
  <1>11. Kept(b, client')
    BY <1>2, <1>9, <1>10, ApplyEndpointsKeeps
  <1>12. Kept(c, client')
    BY <1>4, <1>9, <1>11, KeptTwice
  <1>13. OthersTyped'
    BY InvParts, EndpointsAssumption DEF Rekey, Change, OthersTyped
  <1> QED
    BY <1>1, <1>12, <1>13, KeptInv

LEMMA ToggleInv ==
    ASSUME EndpointsInv, NEW e \in Endpoints, Toggle(e)
    PROVE  EndpointsInv'
  <1>1. IsClient(client) /\ reach \in [Endpoints -> Servers]
    BY DEF EndpointsInv, EndpointsTypeOK, Well
  <1>2. client' = ApplyEndpoints(client, enabled', {}, reach)
    BY DEF Toggle
  <1>3. Kept(client, client')
    BY <1>1, <1>2, ApplyEndpointsKeeps
  <1>4. OthersTyped'
    BY InvParts, EndpointsAssumption DEF Toggle, Change, OthersTyped
  <1> QED
    BY <1>3, <1>4, KeptInv

LEMMA MoveInv ==
    ASSUME EndpointsInv, NEW e \in Endpoints, NEW s \in Servers, Move(e, s)
    PROVE  EndpointsInv'
  <1>1. IsClient(client) /\ reach \in [Endpoints -> Servers]
    BY DEF EndpointsInv, EndpointsTypeOK, Well
  <1>2. reach' \in [Endpoints -> Servers] /\ client' = ApplyEndpoints(client, enabled, {e}, reach')
    BY <1>1 DEF Move
  <1>3. Kept(client, client')
    BY <1>1, <1>2, ApplyEndpointsKeeps
  <1>4. OthersTyped'
    BY <1>2, InvParts, EndpointsAssumption DEF Move, Change, OthersTyped
  <1> QED
    BY <1>3, <1>4, KeptInv

LEMMA AcceptServerInv ==
    ASSUME EndpointsInv, NEW e \in Endpoints, AcceptServer(e)
    PROVE  EndpointsInv'
  <1>1. IsClient(client) /\ reach \in [Endpoints -> Servers]
    BY DEF EndpointsInv, EndpointsTypeOK, Well
  <1>2. client' = ApplyEndpoints(client, enabled, {}, reach)
    BY DEF AcceptServer
  <1>3. Kept(client, client')
    BY <1>1, <1>2, ApplyEndpointsKeeps
  <1>4. OthersTyped'
    BY InvParts DEF AcceptServer, OthersTyped
  <1> QED
    BY <1>3, <1>4, KeptInv

LEMMA EmptySound == IsClient(Empty) /\ Sound(Empty, {})
  <1>1. PICK c : c = Empty
    OBVIOUS
  <1>2. /\ HasFields(c) /\ c.conn = NoEntry /\ c.sock = NoEntry /\ c.senders = NoEntry
        /\ c.primaries = NoEntry /\ c.ready = << >> /\ c.primaryFor = NoEntry
        /\ c.phases = NoEntry /\ c.stray = FALSE
    BY <1>1 DEF Empty, HasFields
  <1>3. DOMAIN NoEntry = {} /\ NoEntry = [x \in {} |-> NoEntry[x]]
    BY DEF NoEntry
  <1>4. \A K, V : IsMap(NoEntry, K, V)
    BY <1>3 DEF IsMap
  <1>5. IsClient(c)
    <2>1. IsFiniteSet({}) /\ << >> \in Seq(ReadyEntry)
      BY FS_EmptySet
    <2> QED
      BY <1>2, <1>3, <1>4, <2>1 DEF IsClient
  <1>6. DOMAIN c.ready = {} /\ Entries(c) = {}
    BY <1>2 DEF Entries
  <1>7. Sound(c, {})
    BY <1>2, <1>3, <1>6 DEF Sound, Once, SocketsSound, SendersSound, ReadySound, PrimariesSound
  <1> QED
    BY <1>1, <1>5, <1>7

LEMMA InitInv == Init => EndpointsInv
  <1> SUFFICES ASSUME Init PROVE EndpointsInv
    OBVIOUS
  <1>1. Routes \in [Endpoints -> Servers] /\ client = ApplyEndpoints(Empty, enabled, {}, Routes)
    BY EndpointsAssumption DEF Init
  <1>2. Kept(Empty, client)
    BY <1>1, EmptySound, ApplyEndpointsKeeps
  <1>3. Well(client)
    BY <1>2, EmptySound DEF Kept, Well, IsClient
  <1>4. OthersTyped
    BY EndpointsAssumption DEF Init, OthersTyped
  <1> QED
    BY <1>3, <1>4, InvParts

LEMMA NextInv == EndpointsInv /\ [Next]_vars => EndpointsInv'
  <1> SUFFICES ASSUME EndpointsInv, [Next]_vars PROVE EndpointsInv'
    OBVIOUS
  <1>1. ASSUME NEW n, Progress(n) \/ ConnectTimeout(n) \/ Rejected(n) \/ Lost(n)
        PROVE  EndpointsInv'
    BY <1>1, OpenInv, ChallengeInv, OkInv, NeedsGrantInv, CloseEventInv, ConnectTimeoutInv,
       RejectedInv, LostInv DEF Progress
  <1>2. ASSUME NEW e \in Endpoints,
               RetryTimer(e) \/ RedeemGrant(e) \/ Rekey(e) \/ Toggle(e) \/ AcceptServer(e)
        PROVE  EndpointsInv'
    BY <1>2, RetryTimerInv, RedeemGrantInv, RekeyInv, ToggleInv, AcceptServerInv
  <1>3. ASSUME NEW e \in Endpoints, NEW s \in Servers, Move(e, s)
        PROVE  EndpointsInv'
    BY <1>3, MoveInv
  <1>4. CASE ForceResync
    BY <1>4, ForceResyncInv
  <1>5. CASE UNCHANGED vars
    <2>1. OthersTyped' /\ Well(client')
      BY <1>5, InvParts DEF vars, OthersTyped
    <2> QED
      BY <2>1, InvParts
  <1> QED
    BY <1>1, <1>2, <1>3, <1>4, <1>5 DEF Next

\* The maps of the client and its configuration keep their types; whatever is
\* primary can send.
THEOREM EndpointsTypeCorrect == Spec => []EndpointsTypeOK
  <1>1. EndpointsInv => EndpointsTypeOK
    BY DEF EndpointsInv
  <1> QED
    BY <1>1, InitInv, NextInv, PTL DEF Spec

\* Whoever is ready on a server, exactly one of them is its primary; what is
\* sent goes out on open sockets that are past their handshake.
LEMMA SoundOnePrimary ==
    ASSUME EndpointsInv
    PROVE  OnePrimaryPerServer
  <1> SUFFICES ASSUME ~ client.stray PROVE OnePrimaryPerServer
    BY DEF OnePrimaryPerServer
  <1>1. IsClient(client) /\ Sound(client, {})
    BY DEF EndpointsInv, Well
  <1>2. SendersSound(client, {}) /\ ReadySound(client, {}) /\ PrimariesSound(client, {})
    BY <1>1 DEF Sound
  <1>3. \A e \in Endpoints, s \in Servers :
           e \in ReadyOn(s) <=> [ep |-> e, server |-> s] \in Entries(client)
    BY DEF ReadyOn, Entries
  <1>4. \A r \in Entries(client) : r \in ReadyEntry
    BY <1>1 DEF Entries, IsClient
  <1>5. /\ IsMap(client.primaryFor, Servers, Endpoints)
        /\ IsMap(client.primaries, DOMAIN client.senders, Nat)
        /\ IsMap(client.senders, Endpoints, Nat)
    BY <1>1 DEF IsClient
  <1>6. ASSUME NEW s \in Servers
        PROVE  LET primary == ReadyOn(s) \intersect DOMAIN client.primaries
               IN IF ReadyOn(s) = {} THEN s \notin DOMAIN client.primaryFor
                  ELSE /\ s \in DOMAIN client.primaryFor
                       /\ primary = {client.primaryFor[s]}
    <2>1. ReadyOn(s) \subseteq Endpoints
      BY DEF ReadyOn
    <2>2. ASSUME s \in DOMAIN client.primaryFor
          PROVE  /\ client.primaryFor[s] \in ReadyOn(s)
                 /\ client.primaryFor[s] \in DOMAIN client.primaries
      BY <1>2, <1>3, <1>5, <2>2 DEF PrimariesSound, IsMap
    <2>3. ASSUME NEW e \in ReadyOn(s) PROVE s \in DOMAIN client.primaryFor
      <3>1. [ep |-> e, server |-> s] \in Entries(client)
        BY <1>3, <2>1
      <3>2. [ep |-> e, server |-> s].server \in DOMAIN client.primaryFor
        BY <1>2, <3>1 DEF PrimariesSound
      <3> QED
        BY <3>2
    <2>4. ASSUME NEW e \in ReadyOn(s) \intersect DOMAIN client.primaries
          PROVE  e = client.primaryFor[s]
      <3>1. PICK t \in DOMAIN client.primaryFor :
               client.primaryFor[t] = e /\ [ep |-> e, server |-> t] \in Entries(client)
        BY <1>2 DEF PrimariesSound
      <3>2. [ep |-> e, server |-> s] \in Entries(client)
        BY <1>3, <2>1
      <3>3. [ep |-> e, server |-> t].server = client.conn[e].server
        BY <1>2, <3>1 DEF ReadySound
      <3>4. [ep |-> e, server |-> s].server = client.conn[e].server
        BY <1>2, <3>2 DEF ReadySound
      <3> QED
        BY <3>1, <3>3, <3>4
    <2> QED
      BY <2>2, <2>3, <2>4
  <1>7. ASSUME NEW e \in DOMAIN client.senders
        PROVE  \E stage \in {"auth", "grant", "ready"} : Is(client.senders[e], "open", stage)
    BY <1>2 DEF SendersSound, Carries, Is
  <1>8. ASSUME NEW e \in DOMAIN client.primaries
        PROVE  /\ client.primaries[e] = client.senders[e]
               /\ Is(client.primaries[e], "open", "ready")
    <2>1. client.primaries[e] = client.senders[e] /\ e \in DOMAIN client.senders
      BY <1>2, <1>5 DEF PrimariesSound, IsMap
    <2>2. Carries(client, client.senders[e], e)
      BY <1>2, <2>1 DEF SendersSound
    <2>3. PICK s \in DOMAIN client.primaryFor : [ep |-> e, server |-> s] \in Entries(client)
      BY <1>2 DEF PrimariesSound
    <2>4. [ep |-> e, server |-> s].ep = e
      OBVIOUS
    <2>5. client.sock[client.senders[e]].stage = "ready"
      BY <1>2, <2>3, <2>4 DEF ReadySound
    <2> QED
      BY <2>1, <2>2, <2>5 DEF Carries, Is
  <1> QED
    BY <1>6, <1>7, <1>8 DEF OnePrimaryPerServer

\* However sockets fail, time out and answer late, and whatever the user changes,
\* resets or moves: of the endpoints ready on a server exactly one is its primary,
\* and every sender is an open socket past its handshake, until a connection is
\* stopped that has an open socket besides its current one.
THEOREM EndpointsOnePrimary == Spec => []OnePrimaryPerServer
  <1>1. EndpointsInv => OnePrimaryPerServer
    BY SoundOnePrimary
  <1> QED
    BY <1>1, InitInv, NextInv, PTL DEF Spec
=============================================================================
