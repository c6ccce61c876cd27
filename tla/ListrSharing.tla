---------------------------- MODULE ListrSharing ----------------------------
(***************************************************************************)
(* The boards of a device under sync keys, on one or two servers           *)
(* (db/operations.ts, db/keyCleanup.ts, sync/keyScoping.ts,                *)
(* sync/pushRouting.ts and the routing of sync/SyncClient.ts).             *)
(*                                                                         *)
(* The client routes by copies of its tables: the caches are brought up to *)
(* date by liveQuery, some time after the tables (Refresh).  A connection  *)
(* declares its keys when it is opened and is opened anew when they        *)
(* change.  Pushes, the pull and its snapshot are one step here            *)
(* (ListrSync takes them apart).  For every server and key there is one    *)
(* member who is always connected and shows what it was sent.              *)
(***************************************************************************)
EXTENDS Integers, FiniteSets, Functions

CONSTANTS
    Boards, List, Item,  \* one list and one item, on any of the boards
    Servers,             \* a server also stands for the user's home key there
    ShareKeys,
    None,
    NoKey,               \* the empty string
    Worlds               \* what users and network may do, see below

ASSUME SharingAssumption ==
    /\ List # Item /\ {List, Item} \intersect Boards = {}
    /\ Servers \intersect ShareKeys = {}
    /\ NoKey \notin Servers \union ShareKeys
    /\ None \notin Servers \union Boards
    /\ None \notin [op : {"delete", "leave"}, what : SUBSET (Boards \union {List, Item} \union ShareKeys)]
    /\ \A w \in Worlds : w.servers \subseteq Servers

VARIABLES
    dev,      \* the tables of the device
    mem,      \* the caches of its SyncClient
    conn,     \* server -> [hello, keys] of its primary connection
    srv,      \* server -> its tables, what it ever stored, and what members show
    pending,  \* what an operation has still to do after an await
    now,
    world,
    was,      \* history: <<entity, key>>, the namespaces an entity belonged to
    hosts,    \* history: the boards the list was on
    gone,     \* history: entity -> key it had when the user deleted it
    left      \* history: keys the user left and did not join again

vars == <<dev, mem, conn, srv, pending, now, world, was, hosts, gone, left>>

\* The fields of world:
\*   servers   servers there are
\*   ops       bound: operations of the user and the other members
\*   does      names of the operations that occur
\*   anyKey    boards move to keys that were synced before, lists to boards
\*             under other keys, and keys are used again
\*   anyTime   deletions and leaving occur offline and for what the caches do not know
\*   prompt    an operation ends before the caches are refreshed
\*   apart     boards are created while no second server is connected
\* The fields of dev: row (entity -> [ts, key, board], key for boards and board
\* for the list), tomb (entity -> [at, key]), cursor, roster (shared_keys: key
\* -> server or None), bind (board -> server), known (servers that were reached).
\* The fields of mem: boards, boardKey, bind, roster, known, listBoard (of the
\* list, or None), item (whether itemListMap has the item).
Entities == Boards \union {List, Item}
Keys == Servers \union ShareKeys
Nothing == [x \in {} |-> None]

Only(x, v) == [y \in {x} |-> v]

\* f, and g where f says nothing.
Over(f, g) == [x \in DOMAIN f \union DOMAIN g |-> IF x \in DOMAIN f THEN f[x] ELSE g[x]]

Without(f, S) == Restrict(f, DOMAIN f \ S)
At(f, x) == IF x \in DOMAIN f THEN f[x] ELSE None

\* There is at most one.
Single(S) == \A x, y \in S : x = y

Held(e) == e \in DOMAIN dev.row
Tree(rows, b) == (IF b \in DOMAIN rows THEN {b} ELSE {})
    \union (IF List \in DOMAIN rows /\ rows[List].board = b
            THEN {List} \union ({Item} \intersect DOMAIN rows) ELSE {})

\* The key of board b on server s.
KeyOf(rows, b, s) == IF b \in DOMAIN rows /\ rows[b].key # NoKey THEN rows[b].key ELSE s

----------------------------------------------------------------------------
(* Keys and routes                                                         *)

\* Mutation of Reaches: the board's server does not count.
ReachesByKey(binding, s, keys, key) == key \in keys

\* connectionsForPush, for one connection
Reaches(binding, s, keys, key) == binding \in {None, s} /\ key \in keys

\* boardKeyRows: a key is scoped to a server if all its boards are.
BoardKeyRows(m) ==
    [k \in Range(m.boardKey) |->
        LET servers == {At(m.bind, b) : b \in {x \in DOMAIN m.boardKey : m.boardKey[x] = k}}
        IN IF Single(servers) THEN CHOOSE s \in servers : TRUE ELSE None]

Scoped(rows, s) == {k \in DOMAIN rows : rows[k] \in {None, s}}

\* keysForEndpoint, resolveConnectionKeys: a server not known yet is offered
\* what has no server.
HelloKeys(m, s) ==
    LET server == IF s \in m.known THEN s ELSE None
    IN ({s} \intersect m.known)
         \union Scoped(BoardKeyRows(m), server) \union Scoped(m.roster, server)

\* Mutation of KeyOfBoard: a board that is shared counts as the user's own.
KeyOfBoardHome(m, b, home) == home

\* effectiveKeyForEntity, effectiveKeyForEntityId: what the caches say of
\* board b (None: not known), with the home key as fallback.
KeyOfBoard(m, b, home) == IF b \in DOMAIN m.boardKey THEN m.boardKey[b] ELSE home

BoardIdOf(m, e) == CASE e \in Boards -> e
                     [] e = List -> m.listBoard
                     [] e = Item -> IF m.item THEN m.listBoard ELSE None

----------------------------------------------------------------------------
(* A server                                                                *)

\* Mutation of Upsert: a row that is known keeps its namespace.
UpsertUnmoved(S, rows, ns) ==
    LET taken == {e \in DOMAIN rows \ DOMAIN S.row : e \notin DOMAIN S.tomb \/ S.tomb[e].at < rows[e].ts}
    IN [S EXCEPT !.row = Over([e \in taken |->
                                  [ts |-> rows[e].ts, key |-> rows[e].key, board |-> rows[e].board, ns |-> ns[e]]], @),
                 !.had = @ \union taken,
                 !.shown = [k \in Keys |-> S.shown[k] \union {e \in taken : ns[e] = k}]]

\* upsertEntity of each of some rows in its namespace, and the broadcasts.
Upsert(S, rows, ns) ==
    LET stale == {e \in DOMAIN rows \intersect DOMAIN S.row : S.row[e].ts >= rows[e].ts}
        dead == {e \in DOMAIN rows \intersect DOMAIN S.tomb : S.tomb[e].at >= rows[e].ts}
        taken == {e \in stale : S.row[e].ns # ns[e]} \union (DOMAIN rows \ (stale \union dead))
        stored(e) == IF e \in stale THEN [S.row[e] EXCEPT !.ns = ns[e]]
                     ELSE [ts |-> rows[e].ts, key |-> rows[e].key, board |-> rows[e].board, ns |-> ns[e]]
    IN [S EXCEPT !.row = Over([e \in taken |-> stored(e)], @), !.had = @ \union taken,
                 !.shown = [k \in Keys |-> S.shown[k] \union {e \in taken : ns[e] = k}]]

\* applyTombstone of each of some tombstones, and the broadcasts: the key of
\* the first tombstone stays.
Bury(S, tombs) ==
    LET heard == {e \in DOMAIN tombs : e \notin DOMAIN S.tomb \/ S.tomb[e].at < tombs[e].at}
    IN [S EXCEPT
            !.tomb = Over([e \in heard |->
                              [at |-> tombs[e].at,
                               key |-> IF e \in DOMAIN S.tomb THEN S.tomb[e].key ELSE tombs[e].key]], @),
            !.row = Without(@, {e \in heard \intersect DOMAIN S.row : S.row[e].ts <= tombs[e].at}),
            !.shown = [k \in Keys |-> S.shown[k] \ {e \in heard : tombs[e].key = k}]]

\* The caches learn from what is pushed or merged.
Noted(m, e, r) == [m EXCEPT !.listBoard = IF e = List THEN r.board ELSE @,
                            !.item = @ \/ e = Item]

\* pushEntity: one row to every primary that reaches it; m has noted it.
PushTo(c, servers, m, e, r) ==
    LET board == BoardIdOf(m, e)
        key(s) == IF e \in Boards THEN (IF r.key = NoKey THEN s ELSE r.key)
                  ELSE KeyOfBoard(m, board, s)
    IN [s \in Servers |->
          IF s \in DOMAIN c /\ Reaches(At(m.bind, board), s, c[s].keys, key(s))
          THEN Upsert(servers[s], Only(e, r), Only(e, key(s))) ELSE servers[s]]

\* pushDelete: the tombstone and the message.
DeletedRow(c, m, e, at) ==
    LET primary == IF DOMAIN c = {} THEN NoKey ELSE CHOOSE s \in DOMAIN c : TRUE
    IN [at |-> at, key |-> KeyOfBoard(m, BoardIdOf(m, e), primary)]

DeleteAt(c, servers, m, S, at) ==
    LET key(e, s) == KeyOfBoard(m, BoardIdOf(m, e), s)
        heard(s) == {e \in S : Reaches(At(m.bind, BoardIdOf(m, e)), s, c[s].keys, key(e, s))}
    IN [s \in Servers |->
          IF s \in DOMAIN c
          THEN Bury(servers[s], [e \in heard(s) |-> [at |-> at, key |-> key(e, s)]])
          ELSE servers[s]]

\* associateKey
Associated(c, servers, k) ==
    [s \in Servers |-> IF s \in DOMAIN c /\ k \in c[s].keys \ {s}
                       THEN [servers[s] EXCEPT !.userKeys = @ \union {k}] ELSE servers[s]]

----------------------------------------------------------------------------
(* The device                                                              *)

\* The caches as liveQuery would set them.
Fresh(d, m) ==
    [m EXCEPT !.boards = DOMAIN d.row \intersect Boards,
              !.boardKey = [b \in {x \in DOMAIN d.row \intersect Boards : d.row[x].key # NoKey} |->
                               d.row[b].key],
              !.bind = d.bind, !.roster = d.roster, !.known = d.known,
              !.listBoard = IF List \in DOMAIN d.row THEN d.row[List].board ELSE None]

\* applyIncomingEntity of each of some rows
MergeRow(d, rows) ==
    LET newer == {e \in DOMAIN rows : e \notin DOMAIN d.row \/ d.row[e].ts < rows[e].ts}
    IN [d EXCEPT !.row = Over([e \in newer |-> [ts |-> rows[e].ts, key |-> rows[e].key, board |-> rows[e].board]], @)]

\* applyTombstone of each of some tombstones: that of a message has no key.
MergeTomb(d, tombs) ==
    [d EXCEPT !.tomb = Over([e \in DOMAIN tombs |-> [at |-> tombs[e].at, key |-> None]], @),
              !.row = Without(@, {e \in DOMAIN tombs \intersect DOMAIN d.row : d.row[e].ts <= tombs[e].at})]

\* adoptUserKeys: a key is tagged with the first server that reports it.
Adopt(roster, keys, s) ==
    [k \in DOMAIN roster \union keys |-> IF k \in keys /\ At(roster, k) = None THEN s ELSE roster[k]]

\* bindUnboundBoards, by the caches.
BindUnbound(m, s) == [b \in {x \in m.boards : At(m.bind, x) = None} |-> s]

BoardOf(rows, e) == CASE e \in Boards -> e
                      [] e = List -> rows[List].board
                      [] e = Item -> IF List \in DOMAIN rows THEN rows[List].board ELSE None

\* What doInitialSync pushes to s: rows and tombstones above the cursor of
\* their key, if this connection is to have them.
RowsFor(d, m, s, keys) ==
    {e \in DOMAIN d.row :
        LET b == BoardOf(d.row, e)
            k == KeyOf(d.row, b, s)
        IN Reaches(At(m.bind, b), s, keys, k) /\ d.row[e].ts > d.cursor[k]}

TombKey(t, s) == IF t.key = None THEN s ELSE t.key

TombsFor(d, s, keys) ==
    {e \in DOMAIN d.tomb : /\ Reaches(None, s, keys, TombKey(d.tomb[e], s))
                           /\ d.tomb[e].at > d.cursor[TombKey(d.tomb[e], s)]}

Uploaded(S, d, m, s, keys) ==
    LET rows == Restrict(d.row, RowsFor(d, m, s, keys))
        ns == [e \in DOMAIN rows |-> KeyOf(d.row, BoardOf(d.row, e), s)]
        tombs == [e \in TombsFor(d, s, keys) |-> [at |-> d.tomb[e].at, key |-> TombKey(d.tomb[e], s)]]
    IN Bury(Upsert(S, rows, ns), tombs)

\* The snapshot: what was edited or deleted since the cursor of its key.
Pulled(S, d, keys) == {e \in DOMAIN S.row : S.row[e].ns \in keys /\ S.row[e].ts > d.cursor[S.row[e].ns]}
PulledTombs(S, d, keys) == {e \in DOMAIN S.tomb : S.tomb[e].key \in keys /\ S.tomb[e].at > d.cursor[S.tomb[e].key]}

Downloaded(S, d, keys) ==
    [MergeTomb(MergeRow(d, Restrict(S.row, Pulled(S, d, keys))), Restrict(S.tomb, PulledTombs(S, d, keys)))
        EXCEPT !.cursor = [k \in DOMAIN @ |-> IF k \in keys THEN now ELSE @[k]]]

----------------------------------------------------------------------------
(* Actions                                                                 *)

\* Every entity with the namespaces its board is in now.
Namespaces(rows) == {<<e, KeyOf(rows, BoardOf(rows, e), s)>> : e \in DOMAIN rows, s \in world.servers}

\* The board of the list.
Hosts(rows) == {rows[e].board : e \in {List} \intersect DOMAIN rows}

Recorded ==
    /\ was' = was \union Namespaces(dev'.row)
    /\ hosts' = hosts \union Hosts(dev'.row)

UpToDate == Fresh(dev, mem) = mem

\* Nothing comes between the steps of an operation or overtakes the caches.
Settled == pending = None /\ (world.prompt => UpToDate)

User(op) ==
    /\ op \in world.does
    /\ pending = None /\ (world.prompt => UpToDate)
    /\ now < world.ops
    /\ now' = now + 1

\* A row is written and pushed.
Written(d, e, r) ==
    LET m == Noted(mem, e, r)
    IN /\ dev' = [d EXCEPT !.row = Over(Only(e, r), @)]
       /\ mem' = m
       /\ srv' = PushTo(conn, srv, m, e, r)

Restamped(e) == [dev.row[e] EXCEPT !.ts = now + 1]

Unused(k) == dev.cursor[k] = 0 /\ \A x \in DOMAIN dev.row : dev.row[x].key # k

\* createBoard: a board is bound to a server that is connected, if there is
\* one; a key is associated on the connections that know it.
CreateBoard(b, k) ==
    LET r == [ts |-> now + 1, key |-> k, board |-> None]
    IN /\ User("createBoard")
       /\ \A x \in was : x[1] # b
       /\ world.apart => Single(DOMAIN conn)
       /\ \/ k = NoKey \/ world.anyKey \/ Unused(k)
          \/ Single(world.servers) /\ (dev.cursor[k] = 0 \/ k \in DOMAIN dev.roster)
       /\ \/ /\ conn = Nothing
             /\ dev' = [dev EXCEPT !.row = Over(Only(b, r), @)]
          \/ \E s \in DOMAIN conn :
                dev' = [dev EXCEPT !.row = Over(Only(b, r), @), !.bind = Over(Only(b, s), @)]
       /\ srv' = Associated(conn, PushTo(conn, srv, mem, b, r), k)
       /\ left' = left \ {k}
       /\ Recorded
       /\ UNCHANGED <<mem, conn, pending, world, gone>>

\* createList, createItem
CreateChild(e, b) ==
    /\ User("createChild")
    /\ Held(b)
    /\ \A x \in was : x[1] # e
    /\ e = Item => Held(List) /\ dev.row[List].board = b
    /\ Written(dev, e, [ts |-> now + 1, key |-> NoKey, board |-> IF e = List THEN b ELSE None])
    /\ Recorded
    /\ UNCHANGED <<conn, pending, world, gone, left>>

\* updateBoard, updateList, updateItem, keeping the key and the board.
Edit(e) ==
    /\ User("edit")
    /\ Held(e)
    /\ Written(dev, e, Restamped(e))
    /\ Recorded
    /\ UNCHANGED <<conn, pending, world, gone, left>>

\* updateBoard with a sync_key: one that was never used, or any.
Share(b, k) ==
    LET r == [Restamped(b) EXCEPT !.key = k]
    IN /\ User("share")
       /\ Held(b) /\ dev.row[b].key # k
       /\ world.anyKey \/ Unused(k)
       /\ dev' = [dev EXCEPT !.row = Over(Only(b, r), @)]
       /\ srv' = Associated(conn, PushTo(conn, srv, mem, b, r), k)
       /\ left' = left \ {k}
       /\ Recorded
       /\ UNCHANGED <<mem, conn, pending, world, gone>>

\* updateList with a board_id
MoveList(b) ==
    LET from == dev.row[List].board
    IN /\ User("moveList")
       /\ Held(List) /\ Held(b) /\ Held(from) /\ b # from
       /\ \/ world.anyKey
          \/ dev.row[b].key = dev.row[from].key /\ At(dev.bind, b) = At(dev.bind, from)
       /\ Written(dev, List, [Restamped(List) EXCEPT !.board = b])
       /\ Recorded
       /\ UNCHANGED <<conn, pending, world, gone, left>>

\* The caches know where e belongs, and the deletion has a key that some
\* connection will declare.
Routable(e) ==
    LET b == BoardOf(dev.row, e)
    IN /\ BoardIdOf(mem, e) = b
       /\ IF dev.row[b].key = NoKey THEN conn # Nothing ELSE dev.row[b].key \in DOMAIN dev.roster

\* deleteItem, deleteList, deleteBoard: the rows first, the messages after an
\* await.
DeletedBy(e) ==
    CASE e \in Boards -> Tree(dev.row, e)
      [] e = List -> {List, Item} \intersect DOMAIN dev.row
      [] e = Item -> {Item}

Delete(e) ==
    /\ User("delete")
    /\ Held(e)
    /\ ~world.anyTime => \A x \in DeletedBy(e) : Routable(x)
    /\ dev' = [dev EXCEPT !.row = Without(@, DeletedBy(e))]
    /\ gone' = Over([x \in DeletedBy(e) |-> {KeyOf(dev.row, BoardOf(dev.row, e), s) : s \in world.servers}], gone)
    /\ pending' = [op |-> "delete", what |-> DeletedBy(e)]
    /\ UNCHANGED <<mem, conn, srv, world, was, hosts, left>>

\* Mutation of DeletePushed: the tombstone of the device is left out.
DeletePushedLiveOnly ==
    /\ pending # None /\ pending.op = "delete"
    /\ pending' = None
    /\ srv' = DeleteAt(conn, srv, mem, pending.what, now)
    /\ dev' = [dev EXCEPT !.bind = Without(@, pending.what)]
    /\ UNCHANGED <<mem, conn, now, world, was, hosts, gone, left>>

\* The rest of the operation: pushDelete for each, then the binding.
DeletePushed ==
    /\ pending # None /\ pending.op = "delete"
    /\ pending' = None
    /\ srv' = DeleteAt(conn, srv, mem, pending.what, now)
    /\ dev' = [dev EXCEPT !.tomb = Over([e \in pending.what |-> DeletedRow(conn, mem, e, now)], @),
                          !.bind = Without(@, pending.what)]
    /\ UNCHANGED <<mem, conn, now, world, was, hosts, gone, left>>

\* removeKeyLocal
KeyRemoved(k) ==
    LET boards == {b \in Boards \intersect DOMAIN dev.row : dev.row[b].key = k}
    IN [dev EXCEPT !.row = Without(@, UNION {Tree(@, b) : b \in boards}),
                   !.roster = Without(@, {k}),
                   !.bind = Without(@, boards)]

\* discardUnboundLocalBoards: no tombstones, nothing is sent.
Discard ==
    LET boards == {b \in Boards \intersect DOMAIN dev.row : dev.row[b].key = NoKey /\ At(dev.bind, b) = None}
    IN /\ User("discard")
       /\ boards # {}
       /\ dev' = [dev EXCEPT !.row = Without(@, UNION {Tree(@, b) : b \in boards})]
       /\ UNCHANGED <<mem, conn, srv, pending, world, was, hosts, gone, left>>

\* removeByKey: removeKeyLocal, then leaveKey.
LeaveKey(k) ==
    /\ User("leave")
    /\ \E b \in DOMAIN dev.row : dev.row[b].key = k
    /\ \/ world.anyTime
       \/ /\ dev.cursor[k] > 0
          /\ \A s \in world.servers : k \in srv[s].userKeys => s \in DOMAIN conn /\ k \in conn[s].keys
    /\ dev' = KeyRemoved(k)
    /\ pending' = [op |-> "leave", what |-> {k}]
    /\ left' = left \union {k}
    /\ UNCHANGED <<mem, conn, srv, world, was, hosts, gone>>

\* Mutation of LeaveSent: the server is not told.
LeaveUntold ==
    /\ pending # None /\ pending.op = "leave"
    /\ pending' = None
    /\ UNCHANGED <<dev, mem, conn, srv, now, world, was, hosts, gone, left>>

LeaveSent ==
    /\ pending # None /\ pending.op = "leave"
    /\ pending' = None
    /\ srv' = [s \in Servers |->
                 IF s \in DOMAIN conn
                 THEN [srv[s] EXCEPT !.userKeys = @ \ ((pending.what \intersect conn[s].keys) \ {s})]
                 ELSE srv[s]]
    /\ UNCHANGED <<dev, mem, conn, now, world, was, hosts, gone, left>>

----------------------------------------------------------------------------
(* Connections                                                             *)

\* ok arrives at the device, which declared hello: onReady and doInitialSync.
Ready(s, hello, userKeys) ==
    LET keys == hello \union {s}
        bound == BindUnbound(mem, s)
        d == [dev EXCEPT !.known = @ \union {s}, !.roster = Adopt(@, userKeys, s), !.bind = Over(bound, @)]
        m == [mem EXCEPT !.bind = Over(bound, @)]
        S == Uploaded([srv[s] EXCEPT !.userKeys = userKeys], d, m, s, keys)
        pulled == Pulled(S, d, keys)
    IN /\ conn' = Over(Only(s, [hello |-> hello, keys |-> keys]), conn)
       /\ srv' = [srv EXCEPT ![s] = S]
       /\ dev' = Downloaded(S, d, keys)
       /\ mem' = [m EXCEPT !.listBoard = IF List \in pulled THEN S.row[List].board ELSE @,
                           !.item = @ \/ Item \in pulled \union (RowsFor(d, m, s, keys))]

\* The server associates what was declared with the user.
Connect(s) ==
    LET hello == HelloKeys(mem, s)
    IN /\ s \in world.servers \ DOMAIN conn
       /\ pending = None \/ ~world.prompt
       /\ world.prompt => UpToDate
       /\ Ready(s, hello, srv[s].userKeys \union (hello \ {s}))
       /\ Recorded
       /\ UNCHANGED <<pending, now, world, gone, left>>

\* A grant for key k is redeemed on the connection, which gets a second ok.
Join(s, k) ==
    /\ "join" \in world.does
    /\ Settled
    /\ s \in DOMAIN conn /\ k \notin DOMAIN dev.roster
    /\ world.anyKey \/ dev.cursor[k] = 0
    /\ Ready(s, conn[s].hello, srv[s].userKeys \union {k})
    /\ left' = left \ {k}
    /\ Recorded
    /\ UNCHANGED <<pending, now, world, gone>>

\* Another device of the user leaves k: user_key_removed.
SiblingLeaves(s, k) ==
    /\ User("siblingLeaves")
    /\ k \in srv[s].userKeys
    /\ s \in DOMAIN conn \/ world.anyTime
    /\ srv' = [srv EXCEPT ![s].userKeys = @ \ {k}]
    /\ dev' = IF s \in DOMAIN conn THEN KeyRemoved(k) ELSE dev
    /\ left' = left \union {k}
    /\ UNCHANGED <<mem, conn, pending, world, was, hosts, gone>>

Disconnect(s) ==
    /\ "disconnect" \in world.does
    /\ pending = None \/ ~world.prompt
    /\ s \in DOMAIN conn
    /\ conn' = Without(conn, {s})
    /\ UNCHANGED <<dev, mem, srv, pending, now, world, was, hosts, gone, left>>

\* liveQuery: updateBoardKeys, updateSharedKeys, updateBoardBindings,
\* updateServerIdentities, updateListBoards; recomputeAllKeys restarts the
\* connections whose keys are others now.
Refresh ==
    LET m == Fresh(dev, mem)
    IN /\ pending = None \/ ~world.prompt
       /\ mem' = m
       /\ conn' = Restrict(conn, {s \in DOMAIN conn : conn[s].hello = HelloKeys(m, s)})
       /\ <<mem', conn'>> # <<mem, conn>>
       /\ UNCHANGED <<dev, srv, pending, now, world, was, hosts, gone, left>>

\* The page is loaded again: no cache knows the lists of items.
Reload ==
    /\ "reload" \in world.does
    /\ Settled
    /\ conn' = Nothing
    /\ mem' = [Fresh(dev, mem) EXCEPT !.item = FALSE]
    /\ <<mem', conn'>> # <<mem, conn>>
    /\ UNCHANGED <<dev, srv, pending, now, world, was, hosts, gone, left>>

----------------------------------------------------------------------------
(* Other members and their devices                                         *)

Hears(s, k) == s \in DOMAIN conn /\ k \in {s} \union srv[s].userKeys

\* Entity e under key k, new or edited by another member, and the broadcast.
Remote(s, e, r, k) ==
    /\ User("remote")
    /\ srv' = [srv EXCEPT ![s] = Upsert(@, Only(e, r), Only(e, k))]
    /\ IF Hears(s, k)
       THEN dev' = MergeRow(dev, Only(e, r)) /\ mem' = Noted(mem, e, r)
       ELSE UNCHANGED <<dev, mem>>
    /\ was' = was \union Namespaces(dev'.row) \union {<<e, k>>}
    /\ hosts' = hosts \union Hosts(dev'.row)
    /\ UNCHANGED <<conn, pending, world, gone, left>>

RemoteCreate(s, b, k) ==
    /\ \A x \in was : x[1] # b
    /\ Remote(s, b, [ts |-> now + 1, key |-> IF k = s THEN NoKey ELSE k, board |-> None], k)

RemoteEdit(s, e) ==
    /\ e \in DOMAIN srv[s].row
    /\ Remote(s, e, [srv[s].row[e] EXCEPT !.ts = now + 1], srv[s].row[e].ns)

RemoteDelete(s) ==
    /\ User("remote")
    /\ Item \in DOMAIN srv[s].row
    /\ LET k == srv[s].row[Item].ns
           tomb == Only(Item, [at |-> now + 1, key |-> k])
       IN /\ srv' = [srv EXCEPT ![s] = Bury(@, tomb)]
          /\ dev' = IF Hears(s, k) THEN MergeTomb(dev, tomb) ELSE dev
    /\ UNCHANGED <<mem, conn, pending, world, was, hosts, gone, left>>

----------------------------------------------------------------------------
EmptyServer == [row |-> Nothing, tomb |-> Nothing, userKeys |-> {}, had |-> {},
                shown |-> [k \in Keys |-> {}]]

Init ==
    /\ world \in Worlds
    /\ dev = [row |-> Nothing, tomb |-> Nothing, cursor |-> [k \in Keys \union {NoKey} |-> 0],
              roster |-> Nothing, bind |-> Nothing, known |-> {}]
    /\ mem = [boards |-> {}, boardKey |-> Nothing, bind |-> Nothing, roster |-> Nothing,
              known |-> {}, listBoard |-> None, item |-> FALSE]
    /\ conn = Nothing
    /\ srv = [s \in Servers |-> EmptyServer]
    /\ pending = None /\ now = 0 /\ was = {} /\ hosts = {} /\ gone = Nothing /\ left = {}

Next ==
    \/ \E b \in Boards, k \in ShareKeys : CreateBoard(b, k) \/ Share(b, k)
    \/ \E b \in Boards : CreateBoard(b, NoKey) \/ MoveList(b)
    \/ \E e \in {List, Item}, b \in Boards : CreateChild(e, b)
    \/ \E e \in Entities : Edit(e) \/ Delete(e)
    \/ \E k \in ShareKeys : LeaveKey(k)
    \/ Discard \/ DeletePushed \/ LeaveSent \/ Refresh \/ Reload
    \/ \E s \in world.servers :
          \/ Connect(s) \/ Disconnect(s) \/ RemoteDelete(s)
          \/ \E k \in ShareKeys : Join(s, k) \/ SiblingLeaves(s, k)
          \/ \E e \in Entities : RemoteEdit(s, e)
          \/ \E b \in Boards, k \in ShareKeys \union {s} : RemoteCreate(s, b, k)

Spec == Init /\ [][Next]_vars

----------------------------------------------------------------------------
(* Properties                                                              *)

\* The user rests, and every connection was opened with the keys of today.
Quiet ==
    /\ pending = None
    /\ UpToDate
    /\ DOMAIN conn = world.servers
    /\ \A s \in DOMAIN conn : conn[s].hello = HelloKeys(mem, s)

SharingTypeOK ==
    /\ DOMAIN dev.row \subseteq Entities /\ DOMAIN dev.bind \subseteq Boards
    /\ Item \in DOMAIN dev.row => List \in DOMAIN dev.row
    /\ \A s \in DOMAIN conn : conn[s].keys \subseteq Keys
    /\ \A s \in Servers, e \in Entities : e \in DOMAIN srv[s].row => srv[s].row[e].ns \in Keys

\* Where operations end before the caches are refreshed: at rest a namespace holds
\* on the server just what the device has under its key, and its members show that,
\* wherever boards were moved, shared, left or
\* joined, by live pushes or by initial syncs (connectionsForPush).
NamespacesAgree ==
    world.prompt /\ Quiet => \A s \in world.servers : \A k \in conn[s].keys :
        LET here == UNION {Tree(dev.row, b) :
                        b \in {x \in Boards : At(dev.bind, x) \in {None, s} /\ KeyOf(dev.row, x, s) = k}}
        IN /\ {e \in DOMAIN srv[s].row : srv[s].row[e].ns = k} = here
           /\ here \subseteq srv[s].shown[k]

\* Likewise: at rest what the user deleted is gone from the servers and from those who
\* were in its namespace (pushDelete).
DeletionsHeard ==
    world.prompt /\ Quiet => \A e \in DOMAIN gone, s \in world.servers :
        /\ e \notin DOMAIN srv[s].row
        /\ \A k \in gone[e] \intersect conn[s].keys : e \notin srv[s].shown[k]

\* At rest a key the user left is neither declared, nor listed by a server, nor
\* on the device (removeByKey, adoptUserKeys).
LeftStaysLeft ==
    Quiet => \A k \in left :
        /\ k \notin DOMAIN dev.roster
        /\ \A e \in DOMAIN dev.row : dev.row[e].key # k
        /\ \A s \in world.servers : k \notin srv[s].userKeys \union conn[s].hello

\* Neither an entity of a board nor a key that is this board's alone ever reaches
\* another server than the one the board is bound to (keysForEndpoint).
BoundStaysHome ==
    \A b \in DOMAIN dev.bind, t \in world.servers :
        t # dev.bind[b] /\ Held(b) =>
            /\ Tree(dev.row, b) \intersect srv[t].had = {}
            /\ {x \in was : x[1] \in Boards \ {b} /\ x[2] = dev.row[b].key} = {}
                  => dev.row[b].key \notin srv[t].userKeys

\* Nobody is ever sent an entity whose board was never in a namespace of his.  Where the
\* caches are overtaken an entity may go where a board of it was before, or to the user's
\* own devices (effectiveKeyForEntityId, connectionsForPush).
MayReach(e, k, s) ==
    \/ <<e, k>> \in was
    \/ /\ ~world.prompt /\ e \notin Boards
       /\ k = s \/ \E b \in hosts : <<b, k>> \in was

OnlyMembersSee ==
    \A s \in world.servers, k \in Keys : \A e \in srv[s].shown[k] : MayReach(e, k, s)
=============================================================================
