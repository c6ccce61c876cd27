--------------------------- MODULE ListrEndpoints ---------------------------
(***************************************************************************)
(* The connections of a client to the endpoints its user configured        *)
(* (sync/SyncClient.ts).  An EndpointConnection opens one WebSocket after  *)
(* the other; the SyncClient elects, among the endpoints that reach the    *)
(* same server, the primary one, which pushes and pulls, and keeps the     *)
(* others as standbys.                                                     *)
(*                                                                         *)
(* All of the client's maps are fields of one record, `client`, which each *)
(* callback transforms: an event of a socket runs to its end before the    *)
(* next one.  A socket that was closed or replaced still delivers its      *)
(* close event, a little later.                                            *)
(***************************************************************************)
EXTENDS Integers, SequencesExt

CONSTANTS
    Endpoints,
    Listed,       \* the endpoints in the order of the configuration
    Servers,
    Foreign,      \* servers built for another variant
    Routes,       \* endpoint -> the server it reaches, to start from
    Starts,       \* what to start from: [enabled, members], the endpoints that are
                  \* enabled and the servers the client is registered with
    None,
    MaxSockets,   \* the sockets 1 .. MaxSockets are sure to make progress
    MaxDrops,     \* bound: sockets lost, refused or rejected
    MaxResyncs,   \* bound: forced resyncs
    MaxChanges,   \* bound: changes of the endpoints' configuration or of their keys
    Tangled       \* a forced resync and a change may come in one run

ASSUME EndpointsAssumption ==
    /\ Listed \in Seq(Endpoints) /\ Endpoints = ToSet(Listed)
    /\ None \notin Endpoints \union Servers \union Nat
    /\ Routes \in [Endpoints -> Servers] /\ Foreign \subseteq Servers
    /\ Starts \subseteq [enabled : SUBSET Endpoints, members : SUBSET Servers]
    /\ MaxDrops \in Nat /\ MaxResyncs \in Nat /\ MaxChanges \in Nat

VARIABLES
    client,    \* the SyncClient and its connections
    enabled,   \* endpoints enabled in the configuration
    reach,     \* endpoint -> the server its address leads to
    known,     \* endpoint -> last_server_id
    members,   \* servers this client is registered with
    drops, resyncs, changes

vars == <<client, enabled, reach, known, members, drops, resyncs, changes>>

\* The fields of the client record:
\*   conn        connections: endpoint -> [phase, ws, timer, retry, server], ws the
\*               current socket, timer the socket whose connect timer is held,
\*               retry whether a retry is scheduled, server where the address of
\*               its configuration leads
\*   sock        sockets: number -> [ep, owned, state, timed, stage, server], owned
\*               while their connection is the endpoint's
\*   senders     allSenders: endpoint -> socket
\*   primaries   primaries: endpoint -> socket
\*   ready       readyServerId, in the order of insertion
\*   primaryFor  primaryForServerId
\*   phases      statusPhases
\*   stray       whether a connection was ever stopped that left a socket behind
Phase == {"connecting", "handshaking", "variant_mismatch", "conflict", "needs_grant", "ready", "error"}

Connection == [phase : Phase, ws : Nat \union {None}, timer : Nat \union {None},
               retry : BOOLEAN, server : Servers]
Socket == [ep : Endpoints, owned : BOOLEAN, state : {"connecting", "open", "closing"},
           timed : BOOLEAN, stage : {"none", "hello", "parked", "auth", "grant", "ready"},
           server : Servers]
ReadyEntry == [ep : Endpoints, server : Servers]

\* f is a Map whose keys are in K and whose values are in V.
IsMap(f, K, V) ==
    /\ DOMAIN f \subseteq K
    /\ f = [k \in DOMAIN f |-> f[k]]
    /\ \A k \in DOMAIN f : f[k] \in V

HasFields(c) ==
    c \in [conn : {c.conn}, sock : {c.sock}, senders : {c.senders}, primaries : {c.primaries},
          ready : {c.ready}, primaryFor : {c.primaryFor}, phases : {c.phases}, stray : {c.stray}]

IsClient(c) ==
    /\ HasFields(c)
    /\ IsMap(c.conn, Endpoints, Connection)
    /\ IsMap(c.sock, Nat, Socket) /\ IsFiniteSet(DOMAIN c.sock)
    /\ \A n \in DOMAIN c.sock : c.sock[n].owned => c.sock[n].ep \in DOMAIN c.conn
    /\ IsMap(c.senders, Endpoints, Nat)
    /\ IsMap(c.primaries, DOMAIN c.senders, Nat)
    /\ c.ready \in Seq(ReadyEntry)
    /\ IsMap(c.primaryFor, Servers, Endpoints)
    /\ IsMap(c.phases, Endpoints, Phase \union {"disabled"})
    /\ c.stray \in BOOLEAN

NoEntry == [e \in {} |-> None]

\* Map.set and Map.delete
Put(f, k, v) == [x \in DOMAIN f \union {k} |-> IF x = k THEN v ELSE f[x]]
Without(f, k) == Restrict(f, DOMAIN f \ {k})

----------------------------------------------------------------------------
(* Election of the primary                                                 *)

IsReady(c, e) == \E k \in DOMAIN c.ready : c.ready[k].ep = e

Place(c, e) == CHOOSE k \in DOMAIN c.ready : c.ready[k].ep = e

\* Mutation of ReleasePrimary: no standby is promoted.
ReleaseOnly(c, e) ==
    IF ~IsReady(c, e) THEN c
    ELSE [c EXCEPT !.ready = RemoveAt(@, Place(c, e)),
                   !.primaryFor = [s \in {x \in DOMAIN @ : @[x] # e} |-> @[s]]]

\* releasePrimaryIfHeld: the first standby that can send takes over.
ReleasePrimary(c, e) ==
    LET s == c.ready[Place(c, e)].server
        others == RemoveAt(c.ready, Place(c, e))
        standbys == {k \in DOMAIN others :
                        /\ others[k].server = s
                        /\ others[k].ep \in DOMAIN c.senders \intersect DOMAIN c.conn}
        next == others[Min(standbys)].ep
        held == s \in DOMAIN c.primaryFor /\ c.primaryFor[s] = e
    IN IF ~IsReady(c, e) THEN c
       ELSE IF ~held THEN [c EXCEPT !.ready = others]
       ELSE IF standbys = {} THEN [c EXCEPT !.ready = others, !.primaryFor = Without(@, s)]
       ELSE [c EXCEPT !.ready = others, !.primaryFor[s] = next,
                      !.primaries = Put(@, next, c.senders[next])]

\* Endpoint e no longer sends.
Forget(c, e) ==
    ReleasePrimary([c EXCEPT !.primaries = Without(@, e), !.senders = Without(@, e)], e)

\* claimOrDefer, on the socket n of endpoint e.
ClaimOrDefer(c, e, s, n) ==
    LET current == IF s \in DOMAIN c.primaryFor THEN c.primaryFor[s] ELSE None
        noted == IF IsReady(c, e) THEN [c.ready EXCEPT ![Place(c, e)].server = s]
                 ELSE Append(c.ready, [ep |-> e, server |-> s])
    IN IF current \in {None, e} \/ current \notin DOMAIN c.conn
       THEN [c EXCEPT !.ready = noted, !.primaryFor = Put(@, s, e), !.primaries = Put(@, e, n)]
       ELSE [c EXCEPT !.ready = noted, !.primaries = Without(@, e)]

----------------------------------------------------------------------------
(* Phases and retries                                                      *)

\* onStatus: once an endpoint is ready the others stop retrying; when the last
\* primary is gone, those in error are retried.
OnStatus(c, e, phase) ==
    LET wasReady == e \in DOMAIN c.phases /\ c.phases[e] = "ready"
        gone == IF phase = "ready" THEN c ELSE Forget(c, e)
        noted == [gone EXCEPT !.phases = Put(@, e, phase)]
    IN IF phase = "ready"
       THEN [noted EXCEPT !.conn = [x \in DOMAIN @ |->
               IF x = e THEN @[x] ELSE [@[x] EXCEPT !.retry = FALSE]]]
       ELSE IF wasReady /\ DOMAIN noted.primaries = {}
       THEN [noted EXCEPT !.conn = [x \in DOMAIN @ |->
               IF @[x].phase = "error" THEN [@[x] EXCEPT !.retry = TRUE] ELSE @[x]]]
       ELSE noted

\* setPhase, of the connection that owns socket n: of a stopped connection only
\* the callback has an effect.
SetPhase(c, n, phase) ==
    LET e == c.sock[n].ep
    IN OnStatus(IF c.sock[n].owned THEN [c EXCEPT !.conn[e].phase = phase] ELSE c, e, phase)

\* Mutation of NeedsRetry: retried only while another endpoint is primary.
NeedsRetryInverted(c, e) ==
    IF DOMAIN c.primaries # {} THEN [c EXCEPT !.conn[e].retry = TRUE] ELSE c

\* onNeedsRetry
NeedsRetry(c, e) ==
    IF DOMAIN c.primaries = {} THEN [c EXCEPT !.conn[e].retry = TRUE] ELSE c

----------------------------------------------------------------------------
(* Sockets                                                                 *)

NewSocket(c) == CHOOSE n \in 1 .. Cardinality(DOMAIN c.sock) + 1 : n \notin DOMAIN c.sock

\* doConnect
Connect(c, e) ==
    LET n == NewSocket(c)
        socket == [ep |-> e, owned |-> TRUE, state |-> "connecting", timed |-> TRUE,
                   stage |-> "none", server |-> c.conn[e].server]
    IN OnStatus([c EXCEPT !.conn[e] = [@ EXCEPT !.phase = "connecting", !.ws = n, !.timer = n],
                          !.sock = Put(@, n, socket)],
                e, "connecting")

ClearConnectTimer(c, e) ==
    LET n == c.conn[e].timer
    IN [c EXCEPT !.conn[e].timer = None,
                 !.sock = IF n \in DOMAIN @ THEN [@ EXCEPT ![n].timed = FALSE] ELSE @]

\* ws?.close()
CloseSocket(c, e) ==
    LET n == c.conn[e].ws
    IN [c EXCEPT !.conn[e].ws = None,
                 !.sock = IF n \in DOMAIN @ THEN [@ EXCEPT ![n].state = "closing"] ELSE @]

ResetAndReconnect(c, e) ==
    Connect(CloseSocket([ClearConnectTimer(c, e) EXCEPT !.conn[e].retry = FALSE], e), e)

\* stop, and the connection is dropped from the map.  It closes its current
\* socket; any other is left behind.
Stop(c, e) ==
    LET closed == CloseSocket(ClearConnectTimer(c, e), e)
        mine == {n \in DOMAIN closed.sock : closed.sock[n].ep = e}
    IN [closed EXCEPT !.conn = Without(@, e),
                      !.sock = [n \in DOMAIN @ |->
                                  IF n \in mine THEN [@[n] EXCEPT !.owned = FALSE] ELSE @[n]],
                      !.stray = @ \/ \E n \in mine : closed.sock[n].state # "closing"]

\* A new connection, to the server s
Start(c, e, s) ==
    Connect([c EXCEPT !.conn = Put(@, e, [phase |-> "connecting", ws |-> None, timer |-> None,
                                      retry |-> FALSE, server |-> s])], e)

\* The close event of socket n, which may not be the current one.
Closed(c, n) ==
    LET e == c.sock[n].ep
        failed == [SetPhase([ClearConnectTimer(c, e) EXCEPT !.conn[e].ws = None], n, "error")
                     EXCEPT !.sock = Without(@, n)]
    IN IF c.sock[n].owned THEN NeedsRetry(failed, e) ELSE [c EXCEPT !.sock = Without(@, n)]

----------------------------------------------------------------------------
(* Configuration                                                           *)

\* applyEndpoints, for one endpoint of the configuration, whose address leads to s
ApplyEndpoint(c, e, on, moved, s) ==
    IF ~on THEN [(IF e \in DOMAIN c.conn THEN Forget(Stop(c, e), e) ELSE c)
                    EXCEPT !.phases = Put(@, e, "disabled")]
    ELSE IF e \notin DOMAIN c.conn THEN Start(c, e, s)
    ELSE IF moved THEN Start(Forget(Stop(c, e), e), e, s)
    ELSE IF c.conn[e].phase = "conflict" THEN ResetAndReconnect(c, e)
    ELSE c

\* applyEndpoints, one endpoint of the configuration after the other; the address
\* of those in moved has changed, and leads where the function to says.
ApplyEndpoints(c, on, moved, to) ==
    LET upto[k \in 0 .. Len(Listed)] ==
            IF k = 0 THEN c
            ELSE ApplyEndpoint(upto[k - 1], Listed[k], Listed[k] \in on, Listed[k] \in moved,
                               to[Listed[k]])
    IN upto[Len(Listed)]

\* The connections reset, one after the other
ResetAll(c) ==
    LET upto[k \in 0 .. Len(Listed)] ==
            IF k = 0 THEN c
            ELSE IF Listed[k] \in DOMAIN upto[k - 1].conn
                 THEN ResetAndReconnect(upto[k - 1], Listed[k])
                 ELSE upto[k - 1]
    IN upto[Len(Listed)]

----------------------------------------------------------------------------
(* Events of a socket                                                      *)

Is(n, state, stage) ==
    n \in DOMAIN client.sock /\ client.sock[n].state = state /\ client.sock[n].stage = stage

Staged(c, n, stage) == [c EXCEPT !.sock[n].stage = stage]

Only(new) == client' = new /\ UNCHANGED <<enabled, reach, members, resyncs, changes>>

Quiet == UNCHANGED <<known, drops>>

Failure == drops < MaxDrops /\ drops' = drops + 1

OwnTimerCleared(c, n) == IF c.sock[n].owned THEN ClearConnectTimer(c, c.sock[n].ep) ELSE c

Open(n) ==
    /\ Is(n, "connecting", "none")
    /\ Only(SetPhase([OwnTimerCleared(client, n) EXCEPT !.sock[n].state = "open",
                                                        !.sock[n].stage = "hello"], n, "handshaking"))
    /\ Quiet

\* The 10 s of the connect timer are over; it may be of a socket that is open
\* or replaced by now.
ConnectTimeout(n) ==
    /\ n \in DOMAIN client.sock
    /\ client.sock[n].timed
    /\ Failure
    /\ Only([client EXCEPT
               !.sock[n].timed = FALSE,
               !.sock[n].state = IF @ = "connecting" THEN "closing" ELSE @,
               !.conn = IF client.sock[n].owned
                        THEN [@ EXCEPT ![client.sock[n].ep].timer = None] ELSE @])
    /\ UNCHANGED known

\* handleChallenge: a server of another variant, or other than the one known
\* here, is not answered.
Challenge(n) ==
    LET e == client.sock[n].ep
        s == client.sock[n].server
        parked == Staged(client, n, "parked")
    IN /\ Is(n, "open", "hello")
       /\ Only(IF s \in Foreign THEN SetPhase(parked, n, "variant_mismatch")
               ELSE IF known[e] \notin {None, s} THEN SetPhase(parked, n, "conflict")
               ELSE Staged(client, n, "auth"))
       /\ Quiet

\* handleOk and onReady
Ok(n) ==
    LET e == client.sock[n].ep
        s == client.sock[n].server
        shown == SetPhase(Staged(client, n, "ready"), n, "ready")
    IN /\ Is(n, "open", "auth")
       /\ s \in members
       /\ Only(ClaimOrDefer([shown EXCEPT !.senders = Put(@, e, n)], e, s, n))
       /\ known' = [known EXCEPT ![e] = s]
       /\ UNCHANGED drops

NeedsGrant(n) ==
    LET e == client.sock[n].ep
        shown == SetPhase(Staged(client, n, "grant"), n, "needs_grant")
    IN /\ Is(n, "open", "auth")
       /\ client.sock[n].server \notin members
       /\ Only([shown EXCEPT !.senders = Put(@, e, n)])
       /\ known' = [known EXCEPT ![e] = client.sock[n].server]
       /\ UNCHANGED drops

\* redeemGrant, answered with ok
RedeemGrant(e) ==
    /\ e \in DOMAIN client.senders
    /\ Is(client.senders[e], "open", "grant")
    /\ members' = members \union {client.sock[client.senders[e]].server}
    /\ client' = Staged(client, client.senders[e], "auth")
    /\ UNCHANGED <<enabled, reach, known, drops, resyncs, changes>>

\* A fatal error during the handshake
Rejected(n) ==
    LET e == client.sock[n].ep
        refused == SetPhase(client, n, "error")
    IN /\ \E stage \in {"hello", "auth"} : Is(n, "open", stage)
       /\ client.sock[n].owned => client.conn[e].phase # "ready"
       /\ Failure
       /\ Only([refused EXCEPT !.sock[n].state = "closing"])
       /\ UNCHANGED known

CloseEvent(n) ==
    /\ n \in DOMAIN client.sock /\ client.sock[n].state = "closing"
    /\ Only(Closed(client, n))
    /\ Quiet

\* The connection is lost or refused.
Lost(n) ==
    /\ n \in DOMAIN client.sock /\ client.sock[n].state # "closing"
    /\ Failure
    /\ Only(Closed(client, n))
    /\ UNCHANGED known

RetryTimer(e) ==
    /\ e \in DOMAIN client.conn /\ client.conn[e].retry
    /\ Only(Connect([client EXCEPT !.conn[e].retry = FALSE], e))
    /\ Quiet

----------------------------------------------------------------------------
(* The user and the reactive configuration                                 *)

\* forceFullSync, forcePushAll
ForceResync ==
    /\ resyncs < MaxResyncs
    /\ Tangled \/ changes = 0
    /\ resyncs' = resyncs + 1
    /\ client' = ResetAll(client)
    /\ UNCHANGED <<enabled, reach, known, members, drops, changes>>

Change ==
    /\ changes < MaxChanges
    /\ Tangled \/ resyncs = 0
    /\ changes' = changes + 1

\* recomputeAllKeys, when the keys of endpoint e are not those of its hello
Rekey(e) ==
    /\ e \in DOMAIN client.conn
    /\ Change
    /\ client' = ApplyEndpoints([Forget(Stop(client, e), e) EXCEPT !.phases = Without(@, e)],
                                enabled, {}, reach)
    /\ UNCHANGED <<enabled, reach, known, members, drops, resyncs>>

\* The user enables or disables endpoint e.
Toggle(e) ==
    LET on == IF e \in enabled THEN enabled \ {e} ELSE enabled \union {e}
    IN /\ Change
       /\ enabled' = on
       /\ client' = ApplyEndpoints(client, on, {}, reach)
       /\ UNCHANGED <<reach, known, members, drops, resyncs>>

\* The user gives endpoint e another address.
Move(e, s) ==
    /\ reach[e] # s
    /\ Change
    /\ reach' = [reach EXCEPT ![e] = s]
    /\ client' = ApplyEndpoints(client, enabled, {e}, reach')
    /\ UNCHANGED <<enabled, known, members, drops, resyncs>>

\* The user accepts the server found behind endpoint e.
AcceptServer(e) ==
    /\ e \in DOMAIN client.conn /\ client.conn[e].phase = "conflict"
    /\ known' = [known EXCEPT ![e] = None]
    /\ client' = ApplyEndpoints(client, enabled, {}, reach)
    /\ UNCHANGED <<enabled, reach, members, drops, resyncs, changes>>

----------------------------------------------------------------------------
Empty == [conn |-> NoEntry, sock |-> NoEntry, senders |-> NoEntry, primaries |-> NoEntry,
          ready |-> <<>>, primaryFor |-> NoEntry, phases |-> NoEntry,
          stray |-> FALSE]

Init ==
    /\ \E start \in Starts : enabled = start.enabled /\ members = start.members
    /\ client = ApplyEndpoints(Empty, enabled, {}, Routes)
    /\ reach = Routes
    /\ known = [e \in Endpoints |-> None]
    /\ drops = 0 /\ resyncs = 0 /\ changes = 0

Progress(n) == Open(n) \/ Challenge(n) \/ Ok(n) \/ NeedsGrant(n) \/ CloseEvent(n)

Next ==
    \/ \E n \in DOMAIN client.sock : Progress(n) \/ ConnectTimeout(n) \/ Rejected(n) \/ Lost(n)
    \/ \E e \in Endpoints :
          \/ RetryTimer(e) \/ RedeemGrant(e) \/ Rekey(e) \/ Toggle(e) \/ AcceptServer(e)
          \/ \E s \in Servers : Move(e, s)
    \/ ForceResync

\* A socket's events come, and timers fire; users and failures may stay away.
Fairness ==
    /\ \A n \in 1 .. MaxSockets : WF_vars(Progress(n))
    /\ \A e \in Endpoints : WF_vars(RetryTimer(e))

Spec == Init /\ [][Next]_vars /\ Fairness

----------------------------------------------------------------------------
(* Properties                                                              *)

\* The types; whatever pushes can send.
EndpointsTypeOK ==
    /\ IsClient(client)
    /\ enabled \subseteq Endpoints /\ members \subseteq Servers
    /\ reach \in [Endpoints -> Servers] /\ known \in [Endpoints -> Servers \union {None}]
    /\ drops \in 0 .. MaxDrops /\ resyncs \in 0 .. MaxResyncs /\ changes \in 0 .. MaxChanges

ReadyOn(s) == {e \in Endpoints : \E k \in DOMAIN client.ready : client.ready[k] = [ep |-> e, server |-> s]}

\* Of the endpoints that are ready on a server exactly one is its primary,
\* however connections come, go and take over (claimOrDefer,
\* releasePrimaryIfHeld): one pushes, none is forgotten.  And whatever is
\* pushed or asked goes out on a socket that is open and past its handshake: no
\* close, takeover or reset leaves a dead one behind (makeSend drops what is
\* sent on a socket that is not open).  All this until a connection is stopped
\* that has sockets besides its current one, which it leaves open.
OnePrimaryPerServer ==
    ~client.stray =>
    /\ \A s \in Servers :
          LET primary == ReadyOn(s) \intersect DOMAIN client.primaries
          IN IF ReadyOn(s) = {} THEN s \notin DOMAIN client.primaryFor
             ELSE /\ s \in DOMAIN client.primaryFor
                  /\ primary = {client.primaryFor[s]}
    /\ \A e \in DOMAIN client.senders : \E stage \in {"auth", "grant", "ready"} :
          Is(client.senders[e], "open", stage)
    /\ \A e \in DOMAIN client.primaries :
          /\ client.primaries[e] = client.senders[e]
          /\ Is(client.primaries[e], "open", "ready")

\* As long as the configuration stays what it is, and the client is registered
\* everywhere and was built for the servers it reaches: once sockets are lost no more, some endpoint becomes primary and
\* stays so, though a ready endpoint stops the retries of the others and a
\* forced resync replaces sockets under way (onNeedsRetry, onStatus).
Reconnects ==
    (members = Servers /\ Range(Routes) \intersect Foreign = {} /\ [](changes = 0)) => <>[](DOMAIN client.primaries # {})

\* "A change that leaves nothing enabled just tears connections down"
\* (setEndpoints).
TornDown ==
    enabled = {} => \A n \in DOMAIN client.sock : client.sock[n].state = "closing"
=============================================================================
