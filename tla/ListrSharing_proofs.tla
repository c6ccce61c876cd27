------------------------ MODULE ListrSharing_proofs ------------------------
(***************************************************************************)
(* Who is ever sent what, and where it goes, for any number of boards,     *)
(* servers and keys and any number of operations.                          *)
(*                                                                         *)
(* Part 1 assumes nothing of the world.  Where operations end before the   *)
(* caches are refreshed (prompt), what a row is pushed under, by the       *)
(* caches, is the namespace its board has in the tables, which the history *)
(* has recorded.  Elsewhere the caches may be behind: what they say was    *)
(* the case once (CachesKnown), also of what a server sends back.          *)
(*                                                                         *)
(* Part 2 is about worlds of several servers.  What a server has of a      *)
(* board says nothing about the next push; the invariant (HomeInv) says    *)
(* what the device knows of keys and servers as well: a key that a server  *)
(* was told of is that server's alone, nothing that a server has is news   *)
(* to the device, and a key that was left is forgotten.                    *)
(*                                                                         *)
(* Part 3 is about keys that were left, on one server.  What brings a key  *)
(* back is a row that names it, so the invariant (LeavesInv) follows the   *)
(* keys in the rows: a server files a board under the key its row names,   *)
(* and the device names the same or has a later version that nobody        *)
(* overtakes; without that a row with the old key would be filed under the *)
(* new one, pulled there, and bring the key it names.                      *)
(***************************************************************************)
EXTENDS ListrSharing, TLAPS

-----------------------------------------------------------------------------
(* Rows, tables and servers                                                *)

\* Only boards have a key of their own.
KeysOfBoardsOnly(rows) == \A e \in DOMAIN rows : e \notin Boards => rows[e].key = NoKey

RowsOK(rows) ==
    /\ KeysOfBoardsOnly(rows)
    /\ \A e \in DOMAIN rows : DOMAIN rows[e] = {"ts", "key", "board"} /\ rows[e].ts \in Nat

ServerOK(S) ==
    /\ DOMAIN S = {"row", "tomb", "userKeys", "had", "shown"}
    /\ DOMAIN S.shown = Keys
    /\ DOMAIN S.row \subseteq S.had /\ S.had \subseteq Entities
    /\ KeysOfBoardsOnly(S.row)
    /\ \A e \in DOMAIN S.row : DOMAIN S.row[e] = {"ts", "key", "board", "ns"} /\ S.row[e].ts \in Nat

SharingShape ==
    /\ world \in Worlds
    /\ now \in Nat
    /\ DOMAIN dev = {"row", "tomb", "cursor", "roster", "bind", "known"}
    /\ RowsOK(dev.row) /\ DOMAIN dev.row \subseteq Entities
    /\ DOMAIN mem = {"boards", "boardKey", "bind", "roster", "known", "listBoard", "item"}
    /\ DOMAIN conn \subseteq world.servers
    /\ DOMAIN srv = Servers
    /\ \A s \in Servers : ServerOK(srv[s])

\* What a member with key k of server s may have seen of e, when the history is
\* h and the list was on the boards g.
Lets(h, g, e, k, s) ==
    \/ <<e, k>> \in h
    \/ /\ ~world.prompt /\ e \notin Boards
       /\ k = s \/ \E b \in g : <<b, k>> \in h

\* Servers that are well formed, sent only what they may, and have the list on
\* a board that it was on.
ServersSent(servers, h, g) ==
    /\ DOMAIN servers = Servers
    /\ \A s \in Servers : ServerOK(servers[s])
    /\ \A s \in world.servers : List \in DOMAIN servers[s].row => servers[s].row[List].board \in g
    /\ \A s \in world.servers, k \in Keys : \A e \in servers[s].shown[k] : Lets(h, g, e, k, s)

\* What the caches say of boards and of the list was the case once.
CachesKnown(m, h, g) ==
    /\ m.listBoard \in g \union {None}
    /\ DOMAIN m.boardKey \subseteq Boards
    /\ \A s \in world.servers, b \in DOMAIN m.boardKey : <<b, m.boardKey[b]>> \in h

\* What members were sent, and what the boards are in now, is in the history.
SentInHistory == ServersSent(srv, was, hosts)
HistoryUpToDate == Namespaces(dev.row) \subseteq was /\ Hosts(dev.row) \subseteq hosts

MembersInv == SharingShape /\ SentInHistory /\ HistoryUpToDate /\ CachesKnown(mem, was, hosts)

LEMMA OverAt ==
    ASSUME NEW f, NEW g
    PROVE  /\ DOMAIN Over(f, g) = DOMAIN f \union DOMAIN g
           /\ \A x \in DOMAIN f : Over(f, g)[x] = f[x]
           /\ \A x \in DOMAIN g \ DOMAIN f : Over(f, g)[x] = g[x]
  BY DEF Over

LEMMA OnlyAt ==
    ASSUME NEW x, NEW v
    PROVE  DOMAIN Only(x, v) = {x} /\ Only(x, v)[x] = v
  BY DEF Only

LEMMA RowAdded ==
    ASSUME NEW rows, NEW e, NEW r
    PROVE  /\ DOMAIN Over(Only(e, r), rows) = {e} \union DOMAIN rows
           /\ Over(Only(e, r), rows)[e] = r
           /\ \A x \in DOMAIN rows \ {e} : Over(Only(e, r), rows)[x] = rows[x]
  <1>1. DOMAIN Only(e, r) = {e} /\ Only(e, r)[e] = r
    BY OnlyAt
  <1>2. LET R == Over(Only(e, r), rows) IN
        /\ DOMAIN R = DOMAIN Only(e, r) \union DOMAIN rows
        /\ \A x \in DOMAIN Only(e, r) : R[x] = Only(e, r)[x]
        /\ \A x \in DOMAIN rows \ DOMAIN Only(e, r) : R[x] = rows[x]
    BY OverAt
  <1> QED
    BY <1>1, <1>2

LEMMA WithoutAt ==
    ASSUME NEW f, NEW S
    PROVE  DOMAIN Without(f, S) = DOMAIN f \ S /\ \A x \in DOMAIN f \ S : Without(f, S)[x] = f[x]
  BY DEF Without, Restrict

\* What Upsert does, whatever it finds.
LEMMA UpsertIs ==
    ASSUME NEW S, ServerOK(S), NEW rows, NEW ns
    PROVE  LET U == Upsert(S, rows, ns) IN
           /\ DOMAIN U = DOMAIN S
           /\ U.tomb = S.tomb /\ U.userKeys = S.userKeys
           /\ DOMAIN U.row \subseteq DOMAIN S.row \union DOMAIN rows
           /\ U.had = S.had \union (U.had \intersect DOMAIN rows)
           /\ DOMAIN U.row \subseteq U.had
           /\ DOMAIN U.shown = Keys
           /\ \A k \in Keys : U.shown[k] \subseteq S.shown[k] \union {e \in DOMAIN rows : ns[e] = k}
           /\ \A e \in DOMAIN U.row :
                 \/ e \in DOMAIN S.row /\ U.row[e] = S.row[e]
                 \/ e \in DOMAIN S.row \intersect DOMAIN rows /\ S.row[e].ts >= rows[e].ts
                    /\ U.row[e] = [S.row[e] EXCEPT !.ns = ns[e]]
                 \/ e \in DOMAIN rows
                    /\ U.row[e] = [ts |-> rows[e].ts, key |-> rows[e].key, board |-> rows[e].board, ns |-> ns[e]]
  <1> DEFINE stale == {e \in DOMAIN rows \intersect DOMAIN S.row : S.row[e].ts >= rows[e].ts}
             dead == {e \in DOMAIN rows \intersect DOMAIN S.tomb : S.tomb[e].at >= rows[e].ts}
             taken == {e \in stale : S.row[e].ns # ns[e]} \union (DOMAIN rows \ (stale \union dead))
             stored(e) == IF e \in stale THEN [S.row[e] EXCEPT !.ns = ns[e]]
                          ELSE [ts |-> rows[e].ts, key |-> rows[e].key, board |-> rows[e].board, ns |-> ns[e]]
             new == [e \in taken |-> stored(e)]
             shown == [k \in Keys |-> S.shown[k] \union {e \in taken : ns[e] = k}]
             U == Upsert(S, rows, ns)
  <1>1. U = [S EXCEPT !.row = Over(new, S.row), !.had = S.had \union taken, !.shown = shown]
    BY Zenon DEF Upsert
  <1>2. DOMAIN S = {"row", "tomb", "userKeys", "had", "shown"} /\ DOMAIN S.row \subseteq S.had
    BY DEF ServerOK
  <1>3. /\ DOMAIN U = DOMAIN S /\ U.tomb = S.tomb /\ U.userKeys = S.userKeys
        /\ U.row = Over(new, S.row) /\ U.had = S.had \union taken /\ U.shown = shown
    <2> HIDE DEF new, taken, shown, U
    <2> QED
      BY <1>1, <1>2
  <1>4. taken \subseteq DOMAIN rows
    OBVIOUS
  <1>5. DOMAIN new = taken /\ \A e \in taken : new[e] = stored(e)
    BY Zenon
  <1>6. ASSUME NEW e \in taken
        PROVE  \/ e \in DOMAIN S.row \intersect DOMAIN rows /\ S.row[e].ts >= rows[e].ts
                  /\ stored(e) = [S.row[e] EXCEPT !.ns = ns[e]]
               \/ e \in DOMAIN rows
                  /\ stored(e) = [ts |-> rows[e].ts, key |-> rows[e].key, board |-> rows[e].board, ns |-> ns[e]]
    BY Zenon
  <1>7. DOMAIN shown = Keys /\ \A k \in Keys : shown[k] \subseteq S.shown[k] \union {e \in DOMAIN rows : ns[e] = k}
    BY <1>4
  <1> HIDE DEF new, taken, shown, U, stale, dead, stored
  <1>8. /\ DOMAIN U.row = taken \union DOMAIN S.row
        /\ \A e \in taken : U.row[e] = stored(e)
        /\ \A e \in DOMAIN S.row \ taken : U.row[e] = S.row[e]
    <2>1. /\ DOMAIN Over(new, S.row) = DOMAIN new \union DOMAIN S.row
          /\ \A x \in DOMAIN new : Over(new, S.row)[x] = new[x]
          /\ \A x \in DOMAIN S.row \ DOMAIN new : Over(new, S.row)[x] = S.row[x]
      BY OverAt
    <2> QED
      BY <1>3, <1>5, <2>1
  <1>9. ASSUME NEW e \in DOMAIN U.row
        PROVE  \/ e \in DOMAIN S.row /\ U.row[e] = S.row[e]
               \/ e \in DOMAIN S.row \intersect DOMAIN rows /\ S.row[e].ts >= rows[e].ts
                  /\ U.row[e] = [S.row[e] EXCEPT !.ns = ns[e]]
               \/ e \in DOMAIN rows
                  /\ U.row[e] = [ts |-> rows[e].ts, key |-> rows[e].key, board |-> rows[e].board, ns |-> ns[e]]
    <2>1. CASE e \in taken
      <3>1. U.row[e] = stored(e)
        BY <1>8, <2>1
      <3> QED
        BY Zenon, <3>1, <1>6, <2>1
    <2>2. CASE e \notin taken
      BY <1>8, <2>2
    <2> QED
      BY <2>1, <2>2
  <1>10. DOMAIN U.row \subseteq U.had /\ U.had = S.had \union (U.had \intersect DOMAIN rows)
         /\ DOMAIN U.row \subseteq DOMAIN S.row \union DOMAIN rows
    BY <1>2, <1>3, <1>4, <1>8
  <1> QED
    BY <1>3, <1>7, <1>9, <1>10 DEF U

LEMMA UpsertOK ==
    ASSUME NEW S, ServerOK(S), NEW rows, NEW ns, DOMAIN rows \subseteq Entities,
           KeysOfBoardsOnly(rows), \A e \in DOMAIN rows : rows[e].ts \in Nat
    PROVE  ServerOK(Upsert(S, rows, ns))
  <1> DEFINE U == Upsert(S, rows, ns)
  <1>1. /\ DOMAIN U = DOMAIN S /\ DOMAIN U.row \subseteq U.had /\ DOMAIN U.shown = Keys
        /\ U.had = S.had \union (U.had \intersect DOMAIN rows)
        /\ \A e \in DOMAIN U.row :
                 \/ e \in DOMAIN S.row /\ U.row[e] = S.row[e]
                 \/ e \in DOMAIN S.row \intersect DOMAIN rows /\ S.row[e].ts >= rows[e].ts
                    /\ U.row[e] = [S.row[e] EXCEPT !.ns = ns[e]]
                 \/ e \in DOMAIN rows
                    /\ U.row[e] = [ts |-> rows[e].ts, key |-> rows[e].key, board |-> rows[e].board, ns |-> ns[e]]
    BY UpsertIs
  <1> HIDE DEF U
  <1>2. ASSUME NEW e \in DOMAIN U.row
        PROVE  /\ DOMAIN U.row[e] = {"ts", "key", "board", "ns"} /\ U.row[e].ts \in Nat
               /\ e \notin Boards => U.row[e].key = NoKey
    <2>1. CASE e \in DOMAIN S.row /\ U.row[e] = S.row[e]
      BY <2>1 DEF ServerOK, KeysOfBoardsOnly
    <2>2. CASE e \in DOMAIN S.row /\ U.row[e] = [S.row[e] EXCEPT !.ns = ns[e]]
      BY <2>2 DEF ServerOK, KeysOfBoardsOnly
    <2>3. CASE e \in DOMAIN rows
               /\ U.row[e] = [ts |-> rows[e].ts, key |-> rows[e].key, board |-> rows[e].board, ns |-> ns[e]]
      BY <2>3 DEF KeysOfBoardsOnly
    <2> QED
      BY <1>1, <2>1, <2>2, <2>3
  <1>3. DOMAIN U = {"row", "tomb", "userKeys", "had", "shown"} /\ U.had \subseteq Entities
    BY <1>1 DEF ServerOK
  <1> QED
    BY <1>1, <1>2, <1>3 DEF U, ServerOK, KeysOfBoardsOnly

\* A list is on the board it was on, or on that of the row.
LEMMA UpsertBoards ==
    ASSUME NEW S, ServerOK(S), NEW rows, NEW ns
    PROVE  LET U == Upsert(S, rows, ns) IN
           \A x \in DOMAIN U.row : \/ x \in DOMAIN S.row /\ U.row[x].board = S.row[x].board
                                   \/ x \in DOMAIN rows /\ U.row[x].board = rows[x].board
  <1> DEFINE U == Upsert(S, rows, ns)
  <1>1. \A e \in DOMAIN U.row :
                 \/ e \in DOMAIN S.row /\ U.row[e] = S.row[e]
                 \/ e \in DOMAIN S.row \intersect DOMAIN rows /\ S.row[e].ts >= rows[e].ts
                    /\ U.row[e] = [S.row[e] EXCEPT !.ns = ns[e]]
                 \/ e \in DOMAIN rows
                    /\ U.row[e] = [ts |-> rows[e].ts, key |-> rows[e].key, board |-> rows[e].board, ns |-> ns[e]]
    BY UpsertIs
  <1> HIDE DEF U
  <1>2. ASSUME NEW e \in DOMAIN U.row
        PROVE  \/ e \in DOMAIN S.row /\ U.row[e].board = S.row[e].board
               \/ e \in DOMAIN rows /\ U.row[e].board = rows[e].board
    <2>1. e \in DOMAIN S.row => DOMAIN S.row[e] = {"ts", "key", "board", "ns"}
      BY DEF ServerOK
    <2>2. CASE e \in DOMAIN S.row /\ U.row[e] = [S.row[e] EXCEPT !.ns = ns[e]]
      BY <2>1, <2>2
    <2>3. CASE e \in DOMAIN rows
               /\ U.row[e] = [ts |-> rows[e].ts, key |-> rows[e].key, board |-> rows[e].board, ns |-> ns[e]]
      BY <2>3
    <2> QED
      BY <1>1, <2>2, <2>3
  <1> QED
    BY <1>2 DEF U

\* What Bury does, whatever it finds.
LEMMA BuryIs ==
    ASSUME NEW S, ServerOK(S), NEW tombs
    PROVE  LET U == Bury(S, tombs) IN
           /\ DOMAIN U = DOMAIN S
           /\ U.userKeys = S.userKeys /\ U.had = S.had
           /\ DOMAIN U.row \subseteq DOMAIN S.row /\ \A e \in DOMAIN U.row : U.row[e] = S.row[e]
           /\ DOMAIN U.shown = Keys /\ \A k \in Keys : U.shown[k] \subseteq S.shown[k]
           /\ DOMAIN tombs = {} => DOMAIN U.row = DOMAIN S.row /\ DOMAIN U.tomb = DOMAIN S.tomb
  <1> DEFINE heard == {e \in DOMAIN tombs : e \notin DOMAIN S.tomb \/ S.tomb[e].at < tombs[e].at}
             new == [e \in heard |->
                              [at |-> tombs[e].at,
                               key |-> IF e \in DOMAIN S.tomb THEN S.tomb[e].key ELSE tombs[e].key]]
             away == {e \in heard \intersect DOMAIN S.row : S.row[e].ts <= tombs[e].at}
             shown == [k \in Keys |-> S.shown[k] \ {e \in heard : tombs[e].key = k}]
             U == Bury(S, tombs)
  <1>1. U = [S EXCEPT !.tomb = Over(new, S.tomb), !.row = Without(S.row, away), !.shown = shown]
    BY Zenon DEF Bury
  <1>2. DOMAIN S = {"row", "tomb", "userKeys", "had", "shown"}
    BY DEF ServerOK
  <1>3. DOMAIN shown = Keys /\ \A k \in Keys : shown[k] \subseteq S.shown[k]
    OBVIOUS
  <1>4. DOMAIN new = heard
    BY Zenon
  <1>7. DOMAIN tombs = {} => heard = {} /\ away = {}
    OBVIOUS
  <1> HIDE DEF new, away, shown, U, heard
  <1>5. /\ DOMAIN U = DOMAIN S /\ U.had = S.had /\ U.userKeys = S.userKeys
        /\ U.row = Without(S.row, away) /\ U.tomb = Over(new, S.tomb) /\ U.shown = shown
    BY <1>1, <1>2
  <1>6. /\ DOMAIN Without(S.row, away) = DOMAIN S.row \ away
        /\ \A e \in DOMAIN S.row \ away : Without(S.row, away)[e] = S.row[e]
    BY WithoutAt
  <1>8. DOMAIN U.row \subseteq DOMAIN S.row /\ \A e \in DOMAIN U.row : U.row[e] = S.row[e]
    BY <1>5, <1>6
  <1>9. DOMAIN Over(new, S.tomb) = DOMAIN new \union DOMAIN S.tomb
    BY OverAt
  <1>10. DOMAIN tombs = {} => DOMAIN U.row = DOMAIN S.row /\ DOMAIN U.tomb = DOMAIN S.tomb
    BY <1>4, <1>5, <1>6, <1>7, <1>9
  <1>11. /\ DOMAIN U = DOMAIN S /\ U.had = S.had /\ U.userKeys = S.userKeys
         /\ DOMAIN U.shown = Keys /\ \A k \in Keys : U.shown[k] \subseteq S.shown[k]
    BY <1>3, <1>5
  <1> QED
    BY <1>8, <1>10, <1>11 DEF U

LEMMA BuryOK ==
    ASSUME NEW S, ServerOK(S), NEW tombs
    PROVE  ServerOK(Bury(S, tombs))
  <1> DEFINE U == Bury(S, tombs)
  <1>1. /\ DOMAIN U = DOMAIN S /\ U.had = S.had /\ DOMAIN U.shown = Keys
        /\ DOMAIN U.row \subseteq DOMAIN S.row /\ \A e \in DOMAIN U.row : U.row[e] = S.row[e]
    BY BuryIs
  <1> HIDE DEF U
  <1> QED
    BY <1>1 DEF U, ServerOK, KeysOfBoardsOnly

LEMMA MergeRowOK ==
    ASSUME NEW d, DOMAIN d = {"row", "tomb", "cursor", "roster", "bind", "known"}, RowsOK(d.row),
           NEW rows, KeysOfBoardsOnly(rows), \A e \in DOMAIN rows : rows[e].ts \in Nat
    PROVE  LET D == MergeRow(d, rows) IN
           /\ DOMAIN D = DOMAIN d /\ RowsOK(D.row) /\ DOMAIN D.row = DOMAIN d.row \union DOMAIN rows
           /\ D.tomb = d.tomb /\ D.cursor = d.cursor /\ D.roster = d.roster
           /\ D.bind = d.bind /\ D.known = d.known
  <1> DEFINE newer == {e \in DOMAIN rows : e \notin DOMAIN d.row \/ d.row[e].ts < rows[e].ts}
             new == [e \in newer |-> [ts |-> rows[e].ts, key |-> rows[e].key, board |-> rows[e].board]]
             D == MergeRow(d, rows)
  <1>1. D = [d EXCEPT !.row = Over(new, d.row)]
    BY Zenon DEF MergeRow
  <1>2. DOMAIN new = newer /\ \A e \in newer : new[e] = [ts |-> rows[e].ts, key |-> rows[e].key, board |-> rows[e].board]
    BY Zenon
  <1>3. newer \subseteq DOMAIN rows /\ DOMAIN rows \ newer \subseteq DOMAIN d.row
    OBVIOUS
  <1> HIDE DEF newer, new, D
  <1>4. /\ DOMAIN D = DOMAIN d /\ D.row = Over(new, d.row)
        /\ D.tomb = d.tomb /\ D.cursor = d.cursor /\ D.roster = d.roster
        /\ D.bind = d.bind /\ D.known = d.known
    BY <1>1
  <1>5. /\ DOMAIN Over(new, d.row) = DOMAIN new \union DOMAIN d.row
        /\ \A e \in DOMAIN new : Over(new, d.row)[e] = new[e]
        /\ \A e \in DOMAIN d.row \ DOMAIN new : Over(new, d.row)[e] = d.row[e]
    BY OverAt
  <1>6. DOMAIN D.row = DOMAIN d.row \union DOMAIN rows
    BY <1>2, <1>3, <1>4, <1>5
  <1>7. ASSUME NEW e \in DOMAIN D.row
        PROVE  /\ DOMAIN D.row[e] = {"ts", "key", "board"} /\ D.row[e].ts \in Nat
               /\ e \notin Boards => D.row[e].key = NoKey
    <2>1. CASE e \in newer
      <3>1. D.row[e] = [ts |-> rows[e].ts, key |-> rows[e].key, board |-> rows[e].board] /\ e \in DOMAIN rows
        BY <1>2, <1>3, <1>4, <1>5, <2>1
      <3> QED
        BY <3>1 DEF KeysOfBoardsOnly
    <2>2. CASE e \notin newer
      <3>1. D.row[e] = d.row[e] /\ e \in DOMAIN d.row
        BY <1>2, <1>3, <1>4, <1>5, <2>2
      <3> QED
        BY <3>1 DEF RowsOK, KeysOfBoardsOnly
    <2> QED
      BY <2>1, <2>2
  <1> QED
    BY <1>4, <1>6, <1>7 DEF D, RowsOK, KeysOfBoardsOnly

\* Rows that are taken away leave rows.
LEMMA FewerRowsOK ==
    ASSUME NEW rows, RowsOK(rows), NEW X
    PROVE  RowsOK(Without(rows, X)) /\ DOMAIN Without(rows, X) \subseteq DOMAIN rows
  <1> DEFINE R == Without(rows, X)
  <1>1. DOMAIN R = DOMAIN rows \ X /\ \A e \in DOMAIN rows \ X : R[e] = rows[e]
    BY WithoutAt
  <1> HIDE DEF R
  <1> QED
    BY <1>1 DEF R, RowsOK, KeysOfBoardsOnly

LEMMA MergeTombOK ==
    ASSUME NEW d, DOMAIN d = {"row", "tomb", "cursor", "roster", "bind", "known"}, RowsOK(d.row), NEW tombs
    PROVE  LET D == MergeTomb(d, tombs) IN
           /\ DOMAIN D = DOMAIN d /\ RowsOK(D.row) /\ DOMAIN D.row \subseteq DOMAIN d.row
           /\ D.cursor = d.cursor /\ D.roster = d.roster /\ D.bind = d.bind /\ D.known = d.known
           /\ \E X : X \subseteq DOMAIN tombs /\ D.row = Without(d.row, X)
           /\ DOMAIN tombs = {} => D.row = Without(d.row, {})
  <1> DEFINE new == Over([e \in DOMAIN tombs |-> [at |-> tombs[e].at, key |-> None]], d.tomb)
             away == {e \in DOMAIN tombs \intersect DOMAIN d.row : d.row[e].ts <= tombs[e].at}
             D == MergeTomb(d, tombs)
  <1>1. D = [d EXCEPT !.tomb = new, !.row = Without(d.row, away)]
    BY Zenon DEF MergeTomb
  <1>2. away \subseteq DOMAIN tombs
    OBVIOUS
  <1> HIDE DEF new, away, D
  <1>3. /\ DOMAIN D = DOMAIN d /\ D.row = Without(d.row, away)
        /\ D.cursor = d.cursor /\ D.roster = d.roster /\ D.bind = d.bind /\ D.known = d.known
    BY <1>1
  <1>4. RowsOK(Without(d.row, away)) /\ DOMAIN Without(d.row, away) \subseteq DOMAIN d.row
    BY FewerRowsOK
  <1>5. DOMAIN tombs = {} => away = {}
    BY <1>2
  <1> QED
    BY <1>2, <1>3, <1>4, <1>5 DEF D

-----------------------------------------------------------------------------
(* Keys and namespaces                                                     *)

\* Caches that are up to date say what the tables say.
LEMMA FreshIs ==
    ASSUME SharingShape, UpToDate
    PROVE  /\ mem.boards = DOMAIN dev.row \intersect Boards
           /\ mem.boardKey = [b \in {x \in DOMAIN dev.row \intersect Boards : dev.row[x].key # NoKey} |-> dev.row[b].key]
           /\ mem.bind = dev.bind /\ mem.roster = dev.roster /\ mem.known = dev.known
           /\ mem.listBoard = IF List \in DOMAIN dev.row THEN dev.row[List].board ELSE None
  <1> DEFINE keys == [b \in {x \in DOMAIN dev.row \intersect Boards : dev.row[x].key # NoKey} |-> dev.row[b].key]
             board == IF List \in DOMAIN dev.row THEN dev.row[List].board ELSE None
  <1>1. mem = [mem EXCEPT !.boards = DOMAIN dev.row \intersect Boards, !.boardKey = keys,
                          !.bind = dev.bind, !.roster = dev.roster, !.known = dev.known, !.listBoard = board]
    BY Zenon DEF UpToDate, Fresh
  <1>2. DOMAIN mem = {"boards", "boardKey", "bind", "roster", "known", "listBoard", "item"}
    BY DEF SharingShape
  <1> HIDE DEF keys, board
  <1>3. /\ mem.boards = DOMAIN dev.row \intersect Boards /\ mem.boardKey = keys
        /\ mem.bind = dev.bind /\ mem.roster = dev.roster /\ mem.known = dev.known
        /\ mem.listBoard = board
    BY <1>1, <1>2
  <1> QED
    BY <1>3 DEF keys, board

LEMMA KeysAgree ==
    ASSUME SharingShape, UpToDate, NEW b, NEW s
    PROVE  KeyOfBoard(mem, b, s) = KeyOf(dev.row, b, s)
  <1>1. mem.boardKey = [x \in {y \in DOMAIN dev.row \intersect Boards : dev.row[y].key # NoKey} |-> dev.row[x].key]
    BY FreshIs
  <1>2. b \in DOMAIN dev.row /\ b \notin Boards => dev.row[b].key = NoKey
    BY DEF SharingShape, RowsOK, KeysOfBoardsOnly
  <1> QED
    BY <1>1, <1>2 DEF KeyOfBoard, KeyOf

\* The key a row is pushed under.
PushKey(m, e, r, s) ==
    IF e \in Boards THEN (IF r.key = NoKey THEN s ELSE r.key) ELSE KeyOfBoard(m, BoardIdOf(m, e), s)

\* It is that of its board, in the tables with the row.
LEMMA PushKeyIs ==
    ASSUME SharingShape, UpToDate, NEW e \in Entities, NEW r, e \notin Boards => r.key = NoKey, NEW s,
           NEW rows, rows = Over(Only(e, r), dev.row), NEW m, m = Noted(mem, e, r)
    PROVE  PushKey(m, e, r, s) = KeyOf(rows, BoardOf(rows, e), s)
  <1>1. /\ DOMAIN rows = {e} \union DOMAIN dev.row /\ rows[e] = r
        /\ \A x \in DOMAIN dev.row \ {e} : rows[x] = dev.row[x]
    <2>0. PICK t : t = dev.row
      OBVIOUS
    <2>1. /\ DOMAIN Over(Only(e, r), t) = {e} \union DOMAIN t
          /\ Over(Only(e, r), t)[e] = r
          /\ \A x \in DOMAIN t \ {e} : Over(Only(e, r), t)[x] = t[x]
      BY DEF Over, Only
    <2> QED
      BY <2>0, <2>1
  <1>2. List # Item /\ List \notin Boards /\ Item \notin Boards /\ None \notin Boards
    BY SharingAssumption
  <1>3. /\ m.listBoard = IF e = List THEN r.board ELSE mem.listBoard
        /\ m.item = (mem.item \/ e = Item) /\ m.boardKey = mem.boardKey
    BY DEF Noted, SharingShape
  <1>4. CASE e \in Boards
    BY <1>1, <1>2, <1>4 DEF PushKey, KeyOf, BoardOf
  <1>5. ASSUME e \notin Boards, NEW b
        PROVE  KeyOfBoard(m, b, s) = KeyOf(rows, b, s)
    <2>1. KeyOfBoard(m, b, s) = KeyOf(dev.row, b, s)
      BY <1>3, KeysAgree DEF KeyOfBoard
    <2>2. e \in DOMAIN dev.row => dev.row[e].key = NoKey
      BY <1>5 DEF SharingShape, RowsOK, KeysOfBoardsOnly
    <2>3. KeyOf(dev.row, b, s) = KeyOf(rows, b, s)
      <3>1. CASE b = e
        BY <1>1, <1>5, <2>2, <3>1 DEF KeyOf
      <3>2. CASE b # e
        BY <1>1, <3>2 DEF KeyOf
      <3> QED
        BY <3>1, <3>2
    <2> QED
      BY <2>1, <2>3
  <1>6. CASE e = List
    <2>1. BoardIdOf(m, e) = r.board /\ BoardOf(rows, e) = r.board
      BY <1>1, <1>2, <1>3, <1>6 DEF BoardIdOf, BoardOf
    <2> QED
      BY <1>2, <1>5, <1>6, <2>1 DEF PushKey
  <1>7. CASE e = Item
    <2>1. mem.listBoard = IF List \in DOMAIN dev.row THEN dev.row[List].board ELSE None
      BY FreshIs
    <2>2. BoardIdOf(m, e) = mem.listBoard
      BY <1>2, <1>3, <1>7 DEF BoardIdOf
    <2>3. BoardOf(rows, e) = mem.listBoard
      BY <1>1, <1>2, <1>7, <2>1 DEF BoardOf
    <2> QED
      BY <1>2, <1>5, <1>7, <2>2, <2>3 DEF PushKey
  <1> QED
    BY <1>4, <1>6, <1>7 DEF Entities

\* What pushEntity does to the servers: nothing, or one row under its key.
LEMMA PushToIs ==
    ASSUME NEW m, NEW e, NEW r
    PROVE  LET P == PushTo(conn, srv, m, e, r) IN
           /\ DOMAIN P = Servers
           /\ \A s \in Servers :
                 \/ P[s] = srv[s]
                 \/ /\ s \in DOMAIN conn
                    /\ Reaches(At(m.bind, BoardIdOf(m, e)), s, conn[s].keys, PushKey(m, e, r, s))
                    /\ P[s] = Upsert(srv[s], Only(e, r), Only(e, PushKey(m, e, r, s)))
  <1> DEFINE key(s) == IF e \in Boards THEN (IF r.key = NoKey THEN s ELSE r.key)
                       ELSE KeyOfBoard(m, BoardIdOf(m, e), s)
             P == PushTo(conn, srv, m, e, r)
  <1>1. P = [s \in Servers |->
               IF s \in DOMAIN conn /\ Reaches(At(m.bind, BoardIdOf(m, e)), s, conn[s].keys, key(s))
               THEN Upsert(srv[s], Only(e, r), Only(e, key(s))) ELSE srv[s]]
    BY Zenon DEF PushTo
  <1>2. ASSUME NEW s PROVE key(s) = PushKey(m, e, r, s)
    BY DEF PushKey
  <1> HIDE DEF key, P
  <1>3. DOMAIN P = Servers
    BY <1>1
  <1>4. ASSUME NEW s \in Servers
        PROVE  \/ P[s] = srv[s]
               \/ /\ s \in DOMAIN conn
                  /\ Reaches(At(m.bind, BoardIdOf(m, e)), s, conn[s].keys, PushKey(m, e, r, s))
                  /\ P[s] = Upsert(srv[s], Only(e, r), Only(e, PushKey(m, e, r, s)))
    <2>1. P[s] = IF s \in DOMAIN conn /\ Reaches(At(m.bind, BoardIdOf(m, e)), s, conn[s].keys, key(s))
                 THEN Upsert(srv[s], Only(e, r), Only(e, key(s))) ELSE srv[s]
      BY <1>1
    <2>2. key(s) = PushKey(m, e, r, s)
      BY <1>2
    <2> QED
      BY <2>1, <2>2
  <1> QED
    BY <1>3, <1>4 DEF P

\* One row that is put on a server.
LEMMA OneUpserted ==
    ASSUME NEW S, ServerOK(S), NEW e \in Entities, NEW r, r.ts \in Nat, e \notin Boards => r.key = NoKey, NEW n
    PROVE  LET U == Upsert(S, Only(e, r), Only(e, n)) IN
           /\ ServerOK(U) /\ U.userKeys = S.userKeys
           /\ S.had \subseteq U.had /\ U.had \subseteq S.had \union {e}
           /\ \A k \in Keys : \A x \in U.shown[k] : x \in S.shown[k] \/ (x = e /\ k = n)
           /\ \A x \in DOMAIN U.row : \/ x \in DOMAIN S.row /\ U.row[x].board = S.row[x].board
                                      \/ x = e /\ U.row[x].board = r.board
  <1> DEFINE rows == Only(e, r)
             ns == Only(e, n)
             U == Upsert(S, rows, ns)
  <1>1. DOMAIN rows = {e} /\ rows[e] = r /\ ns[e] = n
    BY OnlyAt
  <1> HIDE DEF rows, ns
  <1>2. KeysOfBoardsOnly(rows) /\ DOMAIN rows \subseteq Entities /\ \A x \in DOMAIN rows : rows[x].ts \in Nat
    BY <1>1 DEF KeysOfBoardsOnly
  <1>3. ServerOK(U)
    BY <1>2, UpsertOK
  <1>4. /\ U.userKeys = S.userKeys /\ U.had = S.had \union (U.had \intersect DOMAIN rows)
        /\ \A k \in Keys : U.shown[k] \subseteq S.shown[k] \union {x \in DOMAIN rows : ns[x] = k}
    BY UpsertIs
  <1>5. \A x \in DOMAIN U.row : \/ x \in DOMAIN S.row /\ U.row[x].board = S.row[x].board
                                \/ x \in DOMAIN rows /\ U.row[x].board = rows[x].board
    BY UpsertBoards
  <1> HIDE DEF U
  <1> QED
    BY <1>1, <1>3, <1>4, <1>5 DEF U, rows, ns

-----------------------------------------------------------------------------
(* The history                                                             *)

LEMMA LetsMore ==
    ASSUME NEW h, NEW g, NEW h1, NEW g1, h \subseteq h1, g \subseteq g1, NEW e, NEW k, NEW s, Lets(h, g, e, k, s)
    PROVE  Lets(h1, g1, e, k, s)
  BY DEF Lets

LEMMA MoreSent ==
    ASSUME NEW servers, NEW h, NEW g, ServersSent(servers, h, g), NEW h1, NEW g1, h \subseteq h1, g \subseteq g1
    PROVE  ServersSent(servers, h1, g1)
  BY LetsMore DEF ServersSent

LEMMA NowSent ==
    ASSUME MembersInv
    PROVE  ServersSent(srv, was, hosts)
  BY DEF MembersInv, SentInHistory

LEMMA NamespaceOf ==
    ASSUME NEW rows, NEW e \in DOMAIN rows, NEW s \in world.servers
    PROVE  <<e, KeyOf(rows, BoardOf(rows, e), s)>> \in Namespaces(rows)
  BY DEF Namespaces

\* The key a row is pushed under is that of its board, or what the caches say
\* of a board that the list was on.
LEMMA PushLets ==
    ASSUME MembersInv, world.prompt => UpToDate, NEW e \in Entities, NEW r, e \notin Boards => r.key = NoKey,
           NEW rows, rows = Over(Only(e, r), dev.row), NEW m, m = Noted(mem, e, r) \/ (e \in Boards /\ m = mem),
           NEW s \in world.servers
    PROVE  Lets(was \union Namespaces(rows), hosts \union Hosts(rows), e, PushKey(m, e, r, s), s)
  <1> DEFINE key == PushKey(m, e, r, s)
  <1>0. List # Item /\ List \notin Boards /\ Item \notin Boards /\ None \notin Boards
    BY SharingAssumption
  <1>1. e \in DOMAIN rows /\ rows[e] = r
    <2>2. PICK t : t = dev.row
      OBVIOUS
    <2>3. e \in DOMAIN Over(Only(e, r), t) /\ Over(Only(e, r), t)[e] = r
      BY DEF Over, Only
    <2>1. e \in DOMAIN Over(Only(e, r), dev.row) /\ Over(Only(e, r), dev.row)[e] = r
      BY <2>2, <2>3
    <2> QED
      BY <2>1
  <1>2. <<e, KeyOf(rows, BoardOf(rows, e), s)>> \in Namespaces(rows)
    BY <1>1, NamespaceOf
  <1>3. CASE e \in Boards
    <2>1. key = KeyOf(rows, BoardOf(rows, e), s)
      BY <1>0, <1>1, <1>3 DEF PushKey, KeyOf, BoardOf
    <2> QED
      BY <1>2, <2>1 DEF Lets
  <1>4. CASE UpToDate /\ e \notin Boards
    <2>1. m = Noted(mem, e, r) /\ SharingShape
      BY <1>4 DEF MembersInv
    <2>2. key = KeyOf(rows, BoardOf(rows, e), s)
      BY <1>4, <2>1, PushKeyIs
    <2> QED
      BY <1>2, <2>2 DEF Lets
  <1>5. CASE ~world.prompt /\ e \notin Boards
    <2>2. /\ m.listBoard = IF e = List THEN r.board ELSE mem.listBoard
          /\ m.item = (mem.item \/ e = Item) /\ m.boardKey = mem.boardKey
      BY <1>5 DEF Noted, MembersInv, SharingShape
    <2>3. BoardIdOf(m, e) = m.listBoard
      BY <1>0, <1>5, <2>2 DEF BoardIdOf, Entities
    <2>4. e = List => r.board \in Hosts(rows)
      BY <1>1 DEF Hosts
    <2>5. m.listBoard \in hosts \union Hosts(rows) \union {None}
      BY <2>2, <2>4 DEF MembersInv, CachesKnown
    <2>6. \A b \in DOMAIN m.boardKey : b # None /\ <<b, m.boardKey[b]>> \in was
      BY <1>0, <2>2 DEF MembersInv, CachesKnown
    <2>7. key = IF m.listBoard \in DOMAIN m.boardKey THEN m.boardKey[m.listBoard] ELSE s
      BY <1>5, <2>3 DEF PushKey, KeyOfBoard
    <2> HIDE DEF key
    <2>8. CASE m.listBoard \in DOMAIN m.boardKey
      <3>1. m.listBoard \in hosts \union Hosts(rows) /\ <<m.listBoard, key>> \in was
        BY <2>5, <2>6, <2>7, <2>8
      <3>2. \E b \in hosts \union Hosts(rows) : <<b, key>> \in was \union Namespaces(rows)
        BY <3>1
      <3> QED
        BY <1>5, <3>2 DEF Lets, key
    <2>9. CASE m.listBoard \notin DOMAIN m.boardKey
      BY <1>5, <2>7, <2>9 DEF Lets, key
    <2> QED
      BY <2>8, <2>9
  <1> QED
    BY <1>3, <1>4, <1>5

\* A push keeps to the history, if the row it pushes is recorded.
LEMMA PushSent ==
    ASSUME MembersInv, world.prompt => UpToDate,
           NEW e \in Entities, NEW r, r.ts \in Nat, e \notin Boards => r.key = NoKey,
           NEW rows, rows = Over(Only(e, r), dev.row), NEW m, m = Noted(mem, e, r) \/ (e \in Boards /\ m = mem)
    PROVE  ServersSent(PushTo(conn, srv, m, e, r), was \union Namespaces(rows), hosts \union Hosts(rows))
  <1> DEFINE P == PushTo(conn, srv, m, e, r)
             h == was \union Namespaces(rows)
             g == hosts \union Hosts(rows)
  <1>1. /\ DOMAIN P = Servers
        /\ \A s \in Servers :
              \/ P[s] = srv[s]
              \/ /\ s \in DOMAIN conn
                 /\ Reaches(At(m.bind, BoardIdOf(m, e)), s, conn[s].keys, PushKey(m, e, r, s))
                 /\ P[s] = Upsert(srv[s], Only(e, r), Only(e, PushKey(m, e, r, s)))
    BY PushToIs
  <1> HIDE DEF P
  <1>2. e = List => r.board \in g
    <2>2. PICK t : t = dev.row
      OBVIOUS
    <2>3. e \in DOMAIN Over(Only(e, r), t) /\ Over(Only(e, r), t)[e] = r
      BY DEF Over, Only
    <2>1. e \in DOMAIN Over(Only(e, r), dev.row) /\ Over(Only(e, r), dev.row)[e] = r
      BY <2>2, <2>3
    <2> QED
      BY <2>1 DEF Hosts
  <1>3. world.servers \subseteq Servers
    BY SharingAssumption DEF MembersInv, SharingShape
  <1>4. ServersSent(srv, h, g)
    BY NowSent, MoreSent
  <1>5. \A s \in world.servers : Lets(h, g, e, PushKey(m, e, r, s), s)
    BY PushLets
  <1> HIDE DEF h, g
  <1>6. ASSUME NEW s \in Servers
        PROVE  /\ ServerOK(P[s])
               /\ s \in world.servers =>
                     /\ List \in DOMAIN P[s].row => P[s].row[List].board \in g
                     /\ \A k \in Keys : \A x \in P[s].shown[k] : Lets(h, g, x, k, s)
    <2>0. ServerOK(srv[s])
      BY <1>4 DEF ServersSent
    <2>1. CASE P[s] = srv[s]
      BY <1>4, <2>0, <2>1 DEF ServersSent
    <2>2. CASE P[s] = Upsert(srv[s], Only(e, r), Only(e, PushKey(m, e, r, s)))
      <3>1. /\ ServerOK(P[s])
            /\ \A k \in Keys : \A x \in P[s].shown[k] :
                  x \in srv[s].shown[k] \/ (x = e /\ k = PushKey(m, e, r, s))
            /\ \A x \in DOMAIN P[s].row : \/ x \in DOMAIN srv[s].row /\ P[s].row[x].board = srv[s].row[x].board
                                          \/ x = e /\ P[s].row[x].board = r.board
        BY <2>0, <2>2, OneUpserted
      <3> QED
        BY <1>2, <1>4, <1>5, <3>1 DEF ServersSent
    <2> QED
      BY <1>1, <2>1, <2>2
  <1> QED
    BY <1>1, <1>3, <1>6 DEF P, h, g, ServersSent

LEMMA AssociatedSent ==
    ASSUME NEW servers, NEW h, NEW g, ServersSent(servers, h, g), NEW k, world.servers \subseteq Servers
    PROVE  ServersSent(Associated(conn, servers, k), h, g)
  <1> DEFINE A == Associated(conn, servers, k)
  <1>1. DOMAIN A = Servers
        /\ \A s \in Servers : A[s] = servers[s] \/ A[s] = [servers[s] EXCEPT !.userKeys = servers[s].userKeys \union {k}]
    BY DEF Associated
  <1> HIDE DEF A
  <1>2. ASSUME NEW s \in Servers
        PROVE  ServerOK(A[s]) /\ A[s].shown = servers[s].shown /\ A[s].row = servers[s].row
    <2>1. ServerOK(servers[s])
      BY DEF ServersSent
    <2>2. CASE A[s] = servers[s]
      BY <2>1, <2>2
    <2>3. CASE A[s] = [servers[s] EXCEPT !.userKeys = servers[s].userKeys \union {k}]
      <3>1. /\ DOMAIN A[s] = DOMAIN servers[s] /\ A[s].row = servers[s].row /\ A[s].had = servers[s].had
            /\ A[s].shown = servers[s].shown
        BY <2>1, <2>3 DEF ServerOK
      <3> QED
        BY <2>1, <3>1 DEF ServerOK
    <2> QED
      BY <1>1, <2>2, <2>3
  <1>3. ASSUME NEW s \in world.servers
        PROVE  /\ List \in DOMAIN A[s].row => A[s].row[List].board \in g
               /\ \A k1 \in Keys : \A e \in A[s].shown[k1] : Lets(h, g, e, k1, s)
    BY <1>2 DEF ServersSent
  <1> QED
    BY <1>1, <1>2, <1>3 DEF A, ServersSent

\* Boards that go with their lists and items leave the others where they are.
LEMMA NamespacesShrink ==
    ASSUME NEW rows, RowsOK(rows), DOMAIN rows \subseteq Entities, NEW X,
           \A e \in DOMAIN rows \ X : BoardOf(rows, e) \notin X \intersect Boards,
           Item \in DOMAIN rows \ X => List \notin X
    PROVE  Namespaces(Without(rows, X)) \subseteq Namespaces(rows) /\ Hosts(Without(rows, X)) \subseteq Hosts(rows)
  <1> DEFINE R == Without(rows, X)
  <1>1. DOMAIN R = DOMAIN rows \ X /\ \A e \in DOMAIN rows \ X : R[e] = rows[e]
    BY WithoutAt
  <1> HIDE DEF R
  <1>2. List # Item /\ List \notin Boards /\ Item \notin Boards
    BY SharingAssumption
  <1>3. ASSUME NEW e \in DOMAIN R
        PROVE  BoardOf(R, e) = BoardOf(rows, e)
    <2>1. CASE e \in Boards
      BY <1>2, <2>1 DEF BoardOf
    <2>2. CASE e = List
      BY <1>1, <1>2, <2>2 DEF BoardOf
    <2>3. CASE e = Item
      <3>1. List \in DOMAIN R <=> List \in DOMAIN rows
        BY <1>1, <2>3
      <3> QED
        BY <1>1, <1>2, <2>3, <3>1 DEF BoardOf
    <2> QED
      BY <1>1, <2>1, <2>2, <2>3 DEF Entities
  <1>4. ASSUME NEW e \in DOMAIN R, NEW s
        PROVE  KeyOf(R, BoardOf(R, e), s) = KeyOf(rows, BoardOf(rows, e), s)
    <2> DEFINE b == BoardOf(rows, e)
    <2>1. b \in DOMAIN rows /\ b \notin Boards => rows[b].key = NoKey
      BY DEF RowsOK, KeysOfBoardsOnly
    <2>2. b \notin X \intersect Boards
      BY <1>1
    <2>3. BoardOf(R, e) = b
      BY <1>3
    <2> HIDE DEF b
    <2>4. KeyOf(R, b, s) = KeyOf(rows, b, s)
      BY <1>1, <2>1, <2>2 DEF KeyOf
    <2> QED
      BY <2>3, <2>4 DEF b
  <1>5. ASSUME NEW x \in Namespaces(R)
        PROVE  x \in Namespaces(rows)
    <2>1. PICK e \in DOMAIN R, s \in world.servers : x = <<e, KeyOf(R, BoardOf(R, e), s)>>
      BY DEF Namespaces
    <2>2. x = <<e, KeyOf(rows, BoardOf(rows, e), s)>> /\ e \in DOMAIN rows
      BY <1>1, <1>4, <2>1
    <2> QED
      BY <2>2, NamespaceOf
  <1>6. Hosts(R) \subseteq Hosts(rows)
    BY <1>1 DEF Hosts
  <1> QED
    BY <1>5, <1>6 DEF R

\* The parts of the invariant, from what an action leaves.
LEMMA MembersKept ==
    ASSUME MembersInv, world' = world, now' \in Nat,
           DOMAIN dev' = DOMAIN dev, RowsOK(dev'.row), DOMAIN dev'.row \subseteq Entities,
           DOMAIN mem' = DOMAIN mem, DOMAIN conn' \subseteq world.servers,
           ServersSent(srv', was', hosts'), Namespaces(dev'.row) \subseteq was', Hosts(dev'.row) \subseteq hosts',
           CachesKnown(mem', was', hosts')
    PROVE  MembersInv'
  <1>1. SharingShape'
    BY DEF MembersInv, SharingShape, ServersSent
  <1>2. SentInHistory'
    BY DEF SentInHistory, ServersSent, Lets
  <1>3. Namespaces(dev.row)' = Namespaces(dev'.row) /\ Hosts(dev.row)' = Hosts(dev'.row)
    BY DEF Namespaces, KeyOf, BoardOf, Hosts
  <1>4. CachesKnown(mem, was, hosts)'
    BY DEF CachesKnown
  <1> QED
    BY <1>1, <1>2, <1>3, <1>4 DEF MembersInv, HistoryUpToDate

\* Caches that stay as they are, or learn of the list.
LEMMA CachesStay ==
    ASSUME MembersInv, NEW h, NEW g, was \subseteq h, hosts \subseteq g, NEW m,
           m.boardKey = mem.boardKey, m.listBoard = mem.listBoard \/ m.listBoard \in g
    PROVE  CachesKnown(m, h, g)
  BY DEF MembersInv, CachesKnown

\* A device table with one more row.
LEMMA OneMoreRow ==
    ASSUME SharingShape, NEW e \in Entities, NEW r, DOMAIN r = {"ts", "key", "board"}, r.ts \in Nat,
           e \notin Boards => r.key = NoKey
    PROVE  /\ RowsOK(Over(Only(e, r), dev.row)) /\ DOMAIN Over(Only(e, r), dev.row) = {e} \union DOMAIN dev.row
           /\ DOMAIN Over(Only(e, r), dev.row) \subseteq Entities
  <1> DEFINE R == Over(Only(e, r), dev.row)
  <1>1. DOMAIN R = {e} \union DOMAIN dev.row /\ R[e] = r /\ \A x \in DOMAIN dev.row \ {e} : R[x] = dev.row[x]
    BY DEF Over, Only
  <1>2. RowsOK(dev.row) /\ DOMAIN dev.row \subseteq Entities
    BY DEF SharingShape
  <1> HIDE DEF R
  <1>3. ASSUME NEW x \in DOMAIN R
        PROVE  DOMAIN R[x] = {"ts", "key", "board"} /\ R[x].ts \in Nat /\ (x \notin Boards => R[x].key = NoKey)
    <2>1. CASE x = e
      BY <1>1, <2>1
    <2>2. CASE x # e
      BY <1>1, <1>2, <2>2 DEF RowsOK, KeysOfBoardsOnly
    <2> QED
      BY <2>1, <2>2
  <1> QED
    BY <1>1, <1>2, <1>3 DEF R, RowsOK, KeysOfBoardsOnly

-----------------------------------------------------------------------------
(* The invariant, action by action                                         *)

LEMMA UserDoes ==
    ASSUME MembersInv, world.prompt, NEW op, User(op)
    PROVE  UpToDate /\ pending = None /\ now' = now + 1 /\ now' \in Nat
  BY DEF MembersInv, SharingShape, User

LEMMA UserActs ==
    ASSUME MembersInv, NEW op, User(op)
    PROVE  (world.prompt => UpToDate) /\ pending = None /\ now' = now + 1 /\ now' \in Nat
  BY DEF MembersInv, SharingShape, User

LEMMA ServersKnown ==
    ASSUME SharingShape
    PROVE  world.servers \subseteq Servers
  BY SharingAssumption DEF SharingShape

\* A row is written, whatever becomes of the rest.
LEMMA RowWritten ==
    ASSUME MembersInv, world' = world, now' = now + 1, world.prompt => UpToDate,
           NEW e \in Entities, NEW r, DOMAIN r = {"ts", "key", "board"}, r.ts \in Nat, e \notin Boards => r.key = NoKey,
           NEW m, m = Noted(mem, e, r) \/ (e \in Boards /\ m = mem), mem' = m, conn' = conn,
           DOMAIN dev' = DOMAIN dev, dev'.row = Over(Only(e, r), dev.row), Recorded,
           \/ srv' = PushTo(conn, srv, m, e, r)
           \/ \E k : srv' = Associated(conn, PushTo(conn, srv, m, e, r), k)
    PROVE  MembersInv'
  <1> DEFINE P == PushTo(conn, srv, m, e, r)
  <1>1. was' = was \union Namespaces(dev'.row) /\ hosts' = hosts \union Hosts(dev'.row)
    BY DEF Recorded
  <1>2. ServersSent(P, was', hosts')
    <2>1. PICK R : R = Over(Only(e, r), dev.row)
      OBVIOUS
    <2>2. ServersSent(P, was \union Namespaces(R), hosts \union Hosts(R))
      BY <2>1, PushSent
    <2> QED
      BY <1>1, <2>1, <2>2
  <1> HIDE DEF P
  <1>3. ServersSent(srv', was', hosts')
    <2>1. PICK h, g : h = was' /\ g = hosts'
      OBVIOUS
    <2>2. ServersSent(P, h, g) /\ world.servers \subseteq Servers
      BY <1>2, <2>1, ServersKnown DEF MembersInv
    <2>3. \A k : ServersSent(Associated(conn, P, k), h, g)
      BY <2>2, AssociatedSent
    <2> QED
      BY <2>1, <2>2, <2>3 DEF P
  <1>4. RowsOK(dev'.row) /\ DOMAIN dev'.row \subseteq Entities
    BY OneMoreRow DEF MembersInv
  <1>5. DOMAIN mem' = DOMAIN mem
    BY DEF Noted
  <1>6. now' \in Nat /\ DOMAIN conn' \subseteq world.servers
    BY DEF MembersInv, SharingShape
  <1>7. CachesKnown(mem', was', hosts')
    <2>1. e = List => r.board \in Hosts(dev'.row)
      <3>1. PICK R : R = Over(Only(e, r), dev.row)
        OBVIOUS
      <3>2. e \in DOMAIN R /\ R[e] = r
        <4>2. PICK t : t = dev.row
          OBVIOUS
        <4>3. e \in DOMAIN Over(Only(e, r), t) /\ Over(Only(e, r), t)[e] = r
          BY DEF Over, Only
        <4>1. e \in DOMAIN Over(Only(e, r), dev.row) /\ Over(Only(e, r), dev.row)[e] = r
          BY <4>2, <4>3
        <4> QED
          BY <3>1, <4>1
      <3>3. e = List => r.board \in Hosts(R)
        BY <3>2 DEF Hosts
      <3> QED
        BY <3>1, <3>3
    <2>2. m.boardKey = mem.boardKey /\ (m.listBoard = mem.listBoard \/ m.listBoard \in hosts')
      BY <1>1, <2>1 DEF Noted, MembersInv, SharingShape
    <2>3. PICK h, g : h = was' /\ g = hosts'
      OBVIOUS
    <2>4. CachesKnown(m, h, g)
      BY <1>1, <2>2, <2>3, CachesStay
    <2> QED
      BY <2>3, <2>4
  <1> QED
    BY <1>1, <1>3, <1>4, <1>5, <1>6, <1>7, MembersKept

LEMMA MembersCreateBoard ==
    ASSUME MembersInv, NEW b \in Boards, NEW k, CreateBoard(b, k)
    PROVE  MembersInv'
  <1> DEFINE r == [ts |-> now + 1, key |-> k, board |-> None]
  <1>1. (world.prompt => UpToDate) /\ now' = now + 1
    BY UserActs DEF CreateBoard
  <1>2. DOMAIN r = {"ts", "key", "board"} /\ r.ts \in Nat
    BY DEF MembersInv, SharingShape
  <1>3. /\ world' = world /\ mem' = mem /\ conn' = conn /\ Recorded
        /\ srv' = Associated(conn, PushTo(conn, srv, mem, b, r), k)
    BY DEF CreateBoard
  <1>4. DOMAIN dev' = DOMAIN dev /\ dev'.row = Over(Only(b, r), dev.row)
    <2>1. \/ dev' = [dev EXCEPT !.row = Over(Only(b, r), dev.row)]
          \/ \E s \in DOMAIN conn :
                dev' = [dev EXCEPT !.row = Over(Only(b, r), dev.row), !.bind = Over(Only(b, s), dev.bind)]
      BY DEF CreateBoard
    <2> HIDE DEF r
    <2> QED
      BY <2>1 DEF MembersInv, SharingShape
  <1> HIDE DEF r
  <1>5. b \in Entities
    BY DEF Entities
  <1> QED
    BY <1>1, <1>2, <1>3, <1>4, <1>5, RowWritten

LEMMA MembersShare ==
    ASSUME MembersInv, NEW b \in Boards, NEW k, Share(b, k)
    PROVE  MembersInv'
  <1> DEFINE r == [Restamped(b) EXCEPT !.key = k]
  <1>1. (world.prompt => UpToDate) /\ now' = now + 1
    BY UserActs DEF Share
  <1>2. DOMAIN r = {"ts", "key", "board"} /\ r.ts \in Nat
    BY DEF MembersInv, SharingShape, RowsOK, Share, Held, Restamped
  <1>3. /\ world' = world /\ mem' = mem /\ conn' = conn /\ Recorded
        /\ srv' = Associated(conn, PushTo(conn, srv, mem, b, r), k)
        /\ dev' = [dev EXCEPT !.row = Over(Only(b, r), dev.row)]
    BY DEF Share
  <1> HIDE DEF r
  <1>4. DOMAIN dev' = DOMAIN dev /\ dev'.row = Over(Only(b, r), dev.row)
    BY <1>3 DEF MembersInv, SharingShape
  <1>5. b \in Entities
    BY DEF Entities
  <1> QED
    BY <1>1, <1>2, <1>3, <1>4, <1>5, RowWritten

LEMMA MembersWritten ==
    ASSUME MembersInv, world.prompt => UpToDate, world' = world, now' = now + 1, conn' = conn, Recorded,
           NEW e \in Entities, NEW r, DOMAIN r = {"ts", "key", "board"}, r.ts \in Nat, e \notin Boards => r.key = NoKey,
           Written(dev, e, r)
    PROVE  MembersInv'
  <1> DEFINE m == Noted(mem, e, r)
  <1>1. dev' = [dev EXCEPT !.row = Over(Only(e, r), dev.row)] /\ mem' = m /\ srv' = PushTo(conn, srv, m, e, r)
    BY DEF Written
  <1>2. DOMAIN dev' = DOMAIN dev /\ dev'.row = Over(Only(e, r), dev.row)
    BY <1>1 DEF MembersInv, SharingShape
  <1>3. m = Noted(mem, e, r)
    OBVIOUS
  <1> HIDE DEF m
  <1> QED
    BY <1>1, <1>2, <1>3, RowWritten

LEMMA MembersCreateChild ==
    ASSUME MembersInv, NEW e \in {List, Item}, NEW b \in Boards, CreateChild(e, b)
    PROVE  MembersInv'
  <1> DEFINE r == [ts |-> now + 1, key |-> NoKey, board |-> IF e = List THEN b ELSE None]
  <1>1. (world.prompt => UpToDate) /\ now' = now + 1
    BY UserActs DEF CreateChild
  <1>2. DOMAIN r = {"ts", "key", "board"} /\ r.ts \in Nat /\ r.key = NoKey
    BY DEF MembersInv, SharingShape
  <1>3. world' = world /\ conn' = conn /\ Recorded /\ Written(dev, e, r)
    BY DEF CreateChild
  <1> HIDE DEF r
  <1>4. e \in Entities
    BY DEF Entities
  <1> QED
    BY <1>1, <1>2, <1>3, <1>4, MembersWritten

LEMMA MembersEdit ==
    ASSUME MembersInv, NEW e \in Entities, Edit(e)
    PROVE  MembersInv'
  <1> DEFINE r == Restamped(e)
  <1>1. (world.prompt => UpToDate) /\ now' = now + 1
    BY UserActs DEF Edit
  <1>2. DOMAIN r = {"ts", "key", "board"} /\ r.ts \in Nat /\ (e \notin Boards => r.key = NoKey)
    BY DEF MembersInv, SharingShape, RowsOK, KeysOfBoardsOnly, Edit, Held, Restamped
  <1>3. world' = world /\ conn' = conn /\ Recorded /\ Written(dev, e, r)
    BY DEF Edit
  <1> HIDE DEF r
  <1> QED
    BY <1>1, <1>2, <1>3, MembersWritten

LEMMA MembersMoveList ==
    ASSUME MembersInv, NEW b \in Boards, MoveList(b)
    PROVE  MembersInv'
  <1> DEFINE r == [Restamped(List) EXCEPT !.board = b]
  <1>1. (world.prompt => UpToDate) /\ now' = now + 1
    BY UserActs DEF MoveList
  <1>2. DOMAIN r = {"ts", "key", "board"} /\ r.ts \in Nat /\ (List \notin Boards => r.key = NoKey)
    BY DEF MembersInv, SharingShape, RowsOK, KeysOfBoardsOnly, MoveList, Held, Restamped
  <1>3. world' = world /\ conn' = conn /\ Recorded /\ Written(dev, List, r)
    BY DEF MoveList
  <1> HIDE DEF r
  <1>4. List \in Entities
    BY DEF Entities
  <1> QED
    BY <1>1, <1>2, <1>3, <1>4, MembersWritten

\* Boards that go with all that is on them.
LEMMA TreesClosed ==
    ASSUME NEW rows, RowsOK(rows), DOMAIN rows \subseteq Entities, NEW B, B \subseteq Boards
    PROVE  LET R == Without(rows, UNION {Tree(rows, b) : b \in B}) IN
           RowsOK(R) /\ DOMAIN R \subseteq DOMAIN rows /\ Namespaces(R) \subseteq Namespaces(rows)
           /\ Hosts(R) \subseteq Hosts(rows)
  <1> DEFINE X == UNION {Tree(rows, b) : b \in B}
  <1>1. List # Item /\ List \notin Boards /\ Item \notin Boards /\ None \notin Boards
    BY SharingAssumption
  <1>2. ASSUME NEW b \in B, b \in DOMAIN rows PROVE b \in X
    BY <1>2 DEF Tree
  <1>3. ASSUME NEW b \in B, List \in DOMAIN rows, rows[List].board = b
        PROVE  List \in X /\ {Item} \intersect DOMAIN rows \subseteq X
    BY <1>3 DEF Tree
  <1>4. ASSUME NEW x \in X
        PROVE  \E b \in B : x = b \/ (List \in DOMAIN rows /\ rows[List].board = b /\ x \in {List, Item})
    BY <1>4 DEF Tree
  <1> HIDE DEF X
  <1>5. ASSUME NEW e \in DOMAIN rows \ X
        PROVE  BoardOf(rows, e) \notin X \intersect Boards
    <2>1. SUFFICES ASSUME BoardOf(rows, e) \in X, BoardOf(rows, e) \in Boards PROVE FALSE
      OBVIOUS
    <2>2. BoardOf(rows, e) \in B
      BY <1>1, <1>4, <2>1
    <2>3. CASE e \in Boards
      BY <1>1, <2>1, <2>3 DEF BoardOf
    <2>4. CASE e = List
      BY <1>1, <1>3, <2>2, <2>4 DEF BoardOf
    <2>5. CASE e = Item
      BY <1>1, <1>3, <2>1, <2>2, <2>5 DEF BoardOf
    <2> QED
      BY <2>3, <2>4, <2>5 DEF Entities
  <1>6. ASSUME Item \in DOMAIN rows \ X PROVE List \notin X
    BY <1>1, <1>3, <1>4, <1>6
  <1>7. Namespaces(Without(rows, X)) \subseteq Namespaces(rows) /\ Hosts(Without(rows, X)) \subseteq Hosts(rows)
    BY <1>5, <1>6, NamespacesShrink
  <1>8. RowsOK(Without(rows, X)) /\ DOMAIN Without(rows, X) \subseteq DOMAIN rows
    BY FewerRowsOK
  <1> QED
    BY <1>7, <1>8 DEF X

\* Rows are removed, and nothing is sent.
LEMMA MembersRemoved ==
    ASSUME MembersInv, world' = world, now' \in Nat, mem' = mem, conn' = conn, was' = was, hosts' = hosts,
           DOMAIN dev' = DOMAIN dev, RowsOK(dev'.row), DOMAIN dev'.row \subseteq DOMAIN dev.row,
           Namespaces(dev'.row) \subseteq Namespaces(dev.row), Hosts(dev'.row) \subseteq Hosts(dev.row),
           ServersSent(srv', was, hosts)
    PROVE  MembersInv'
  <1>1. DOMAIN dev'.row \subseteq Entities /\ DOMAIN mem' = DOMAIN mem /\ DOMAIN conn' \subseteq world.servers
    BY DEF MembersInv, SharingShape
  <1>2. Namespaces(dev'.row) \subseteq was' /\ Hosts(dev'.row) \subseteq hosts'
    BY DEF MembersInv, HistoryUpToDate
  <1>3. ServersSent(srv', was', hosts') /\ CachesKnown(mem', was', hosts')
    <2>1. PICK h, g, m : h = was' /\ g = hosts' /\ m = mem'
      OBVIOUS
    <2>2. ServersSent(srv', h, g) /\ CachesKnown(m, h, g)
      BY <2>1 DEF MembersInv
    <2> QED
      BY <2>1, <2>2
  <1> QED
    BY <1>1, <1>2, <1>3, MembersKept

LEMMA MembersDelete ==
    ASSUME MembersInv, NEW e \in Entities, Delete(e)
    PROVE  MembersInv'
  <1>1. now' \in Nat
    BY UserActs DEF Delete
  <1>2. dev' = [dev EXCEPT !.row = Without(dev.row, DeletedBy(e))]
        /\ world' = world /\ mem' = mem /\ conn' = conn /\ was' = was /\ hosts' = hosts /\ srv' = srv
    BY DEF Delete
  <1>3. DOMAIN dev' = DOMAIN dev /\ dev'.row = Without(dev.row, DeletedBy(e))
    BY <1>2 DEF MembersInv, SharingShape
  <1>4. RowsOK(dev.row) /\ DOMAIN dev.row \subseteq Entities
    BY DEF MembersInv, SharingShape
  <1>5. RowsOK(dev'.row) /\ DOMAIN dev'.row \subseteq DOMAIN dev.row
    BY <1>3, <1>4, FewerRowsOK
  <1>6. List # Item /\ List \notin Boards /\ Item \notin Boards /\ None \notin Boards
    BY SharingAssumption
  <1>7. Namespaces(dev'.row) \subseteq Namespaces(dev.row) /\ Hosts(dev'.row) \subseteq Hosts(dev.row)
    <2>1. CASE e \in Boards
      <3>1. Tree(dev.row, e) = UNION {Tree(dev.row, b) : b \in {e}}
        OBVIOUS
      <3>2. DeletedBy(e) = UNION {Tree(dev.row, b) : b \in {e}}
        BY <1>6, <2>1, <3>1 DEF DeletedBy
      <3>3. {e} \subseteq Boards
        BY <2>1
      <3>4. /\ Namespaces(Without(dev.row, UNION {Tree(dev.row, b) : b \in {e}})) \subseteq Namespaces(dev.row)
            /\ Hosts(Without(dev.row, UNION {Tree(dev.row, b) : b \in {e}})) \subseteq Hosts(dev.row)
        BY <1>4, <3>3, TreesClosed
      <3> QED
        BY <1>3, <3>2, <3>4
    <2>2. CASE e \notin Boards
      <3>1. DeletedBy(e) \in {{List, Item} \intersect DOMAIN dev.row, {Item}}
        BY <1>6, <2>2 DEF DeletedBy, Entities
      <3>2. \A x \in DOMAIN dev.row \ DeletedBy(e) : BoardOf(dev.row, x) \notin DeletedBy(e) \intersect Boards
        BY <1>6, <3>1
      <3>3. Item \in DOMAIN dev.row \ DeletedBy(e) => List \notin DeletedBy(e)
        BY <1>6, <3>1
      <3>4. /\ Namespaces(Without(dev.row, DeletedBy(e))) \subseteq Namespaces(dev.row)
            /\ Hosts(Without(dev.row, DeletedBy(e))) \subseteq Hosts(dev.row)
        BY <1>4, <3>2, <3>3, NamespacesShrink
      <3> QED
        BY <1>3, <3>4
    <2> QED
      BY <2>1, <2>2
  <1>8. ServersSent(srv', was, hosts)
    BY <1>2, NowSent
  <1> QED
    BY <1>1, <1>2, <1>3, <1>5, <1>7, <1>8, MembersRemoved

LEMMA MembersDiscard ==
    ASSUME MembersInv, Discard
    PROVE  MembersInv'
  <1> DEFINE boards == {b \in Boards \intersect DOMAIN dev.row : dev.row[b].key = NoKey /\ At(dev.bind, b) = None}
             R == Without(dev.row, UNION {Tree(dev.row, b) : b \in boards})
  <1>1. now' \in Nat
    BY UserActs DEF Discard
  <1>2. dev' = [dev EXCEPT !.row = R]
        /\ world' = world /\ mem' = mem /\ conn' = conn /\ was' = was /\ hosts' = hosts /\ srv' = srv
    BY DEF Discard
  <1>3. RowsOK(dev.row) /\ DOMAIN dev.row \subseteq Entities /\ boards \subseteq Boards
    BY DEF MembersInv, SharingShape
  <1> HIDE DEF boards
  <1>4. RowsOK(R) /\ DOMAIN R \subseteq DOMAIN dev.row /\ Namespaces(R) \subseteq Namespaces(dev.row)
        /\ Hosts(R) \subseteq Hosts(dev.row)
    BY <1>3, TreesClosed
  <1> HIDE DEF R
  <1>5. DOMAIN dev' = DOMAIN dev /\ dev'.row = R
    BY <1>2 DEF MembersInv, SharingShape
  <1>6. ServersSent(srv', was, hosts)
    BY <1>2, NowSent
  <1> QED
    BY <1>1, <1>2, <1>4, <1>5, <1>6, MembersRemoved

LEMMA KeyRemovedIs ==
    ASSUME MembersInv, NEW k
    PROVE  LET D == KeyRemoved(k) IN
           /\ DOMAIN D = DOMAIN dev /\ RowsOK(D.row) /\ DOMAIN D.row \subseteq DOMAIN dev.row
           /\ Namespaces(D.row) \subseteq Namespaces(dev.row) /\ Hosts(D.row) \subseteq Hosts(dev.row)
  <1> DEFINE boards == {b \in Boards \intersect DOMAIN dev.row : dev.row[b].key = k}
             R == Without(dev.row, UNION {Tree(dev.row, b) : b \in boards})
             D == KeyRemoved(k)
  <1>1. D = [dev EXCEPT !.row = R, !.roster = Without(dev.roster, {k}), !.bind = Without(dev.bind, boards)]
    BY Zenon DEF KeyRemoved
  <1>2. RowsOK(dev.row) /\ DOMAIN dev.row \subseteq Entities /\ boards \subseteq Boards
    BY DEF MembersInv, SharingShape
  <1> HIDE DEF boards
  <1>3. RowsOK(R) /\ DOMAIN R \subseteq DOMAIN dev.row /\ Namespaces(R) \subseteq Namespaces(dev.row)
        /\ Hosts(R) \subseteq Hosts(dev.row)
    BY <1>2, TreesClosed
  <1> HIDE DEF R, D
  <1>4. DOMAIN D = DOMAIN dev /\ D.row = R
    BY <1>1 DEF MembersInv, SharingShape
  <1> QED
    BY <1>3, <1>4 DEF D

LEMMA MembersLeaveKey ==
    ASSUME MembersInv, NEW k, LeaveKey(k)
    PROVE  MembersInv'
  <1>1. now' \in Nat
    BY UserActs DEF LeaveKey
  <1>2. dev' = KeyRemoved(k) /\ world' = world /\ mem' = mem /\ conn' = conn /\ was' = was /\ hosts' = hosts /\ srv' = srv
    BY DEF LeaveKey
  <1>3. ServersSent(srv', was, hosts)
    BY <1>2, NowSent
  <1> QED
    BY <1>1, <1>2, <1>3, KeyRemovedIs, MembersRemoved

\* Servers that forget keys of the user.
LEMMA KeysForgotten ==
    ASSUME MembersInv, NEW servers, DOMAIN servers = Servers,
           \A s \in Servers : \/ servers[s] = srv[s]
                              \/ \E K : servers[s] = [srv[s] EXCEPT !.userKeys = K]
    PROVE  ServersSent(servers, was, hosts)
  <1>1. ASSUME NEW s \in Servers
        PROVE  ServerOK(servers[s]) /\ servers[s].shown = srv[s].shown /\ servers[s].row = srv[s].row
    <2>1. ServerOK(srv[s])
      BY DEF MembersInv, SharingShape
    <2>2. CASE servers[s] = srv[s]
      BY <2>1, <2>2
    <2>3. CASE \E K : servers[s] = [srv[s] EXCEPT !.userKeys = K]
      <3>1. /\ DOMAIN servers[s] = DOMAIN srv[s] /\ servers[s].row = srv[s].row /\ servers[s].had = srv[s].had
            /\ servers[s].shown = srv[s].shown
        BY <2>1, <2>3 DEF ServerOK
      <3> QED
        BY <2>1, <3>1 DEF ServerOK
    <2> QED
      BY <2>2, <2>3
  <1>2. world.servers \subseteq Servers
    BY ServersKnown DEF MembersInv
  <1> QED
    BY <1>1, <1>2 DEF ServersSent, MembersInv, SentInHistory

LEMMA MembersSiblingLeaves ==
    ASSUME MembersInv, NEW s \in world.servers, NEW k, SiblingLeaves(s, k)
    PROVE  MembersInv'
  <1>1. now' \in Nat
    BY UserActs DEF SiblingLeaves
  <1>2. /\ dev' \in {KeyRemoved(k), dev} /\ world' = world /\ mem' = mem /\ conn' = conn /\ was' = was /\ hosts' = hosts
        /\ srv' = [srv EXCEPT ![s].userKeys = srv[s].userKeys \ {k}]
    BY DEF SiblingLeaves
  <1>3. ServersSent(srv', was, hosts)
    <2>1. PICK T : T = [srv EXCEPT ![s].userKeys = srv[s].userKeys \ {k}]
      OBVIOUS
    <2>2. DOMAIN T = Servers /\ \A x \in Servers : T[x] = srv[x] \/ T[x] = [srv[x] EXCEPT !.userKeys = srv[s].userKeys \ {k}]
      BY <2>1 DEF MembersInv, SharingShape
    <2>3. ServersSent(T, was, hosts)
      BY <2>2, KeysForgotten
    <2> QED
      BY <1>2, <2>1, <2>3
  <1>4. /\ DOMAIN dev' = DOMAIN dev /\ RowsOK(dev'.row) /\ DOMAIN dev'.row \subseteq DOMAIN dev.row
        /\ Namespaces(dev'.row) \subseteq Namespaces(dev.row) /\ Hosts(dev'.row) \subseteq Hosts(dev.row)
    <2>1. CASE dev' = KeyRemoved(k)
      BY <2>1, KeyRemovedIs
    <2>2. CASE dev' = dev
      BY <2>2 DEF MembersInv, SharingShape
    <2> QED
      BY <1>2, <2>1, <2>2
  <1> QED
    BY <1>1, <1>2, <1>3, <1>4, MembersRemoved

LEMMA MembersLeaveSent ==
    ASSUME MembersInv, LeaveSent
    PROVE  MembersInv'
  <1> DEFINE T == [s \in Servers |->
                 IF s \in DOMAIN conn
                 THEN [srv[s] EXCEPT !.userKeys = srv[s].userKeys \ ((pending.what \intersect conn[s].keys) \ {s})]
                 ELSE srv[s]]
  <1>1. srv' = T /\ now' = now /\ dev' = dev /\ world' = world /\ mem' = mem /\ conn' = conn /\ was' = was
        /\ hosts' = hosts
    BY Zenon DEF LeaveSent
  <1>2. DOMAIN T = Servers
        /\ \A s \in Servers : \/ T[s] = srv[s]
                              \/ \E K : T[s] = [srv[s] EXCEPT !.userKeys = K]
    OBVIOUS
  <1> HIDE DEF T
  <1>3. ServersSent(T, was, hosts)
    BY <1>2, KeysForgotten
  <1>4. now' \in Nat /\ RowsOK(dev'.row)
    BY <1>1 DEF MembersInv, SharingShape
  <1> QED
    BY <1>1, <1>3, <1>4, MembersRemoved

LEMMA MembersDeletePushed ==
    ASSUME MembersInv, DeletePushed
    PROVE  MembersInv'
  <1> DEFINE key(e, s) == KeyOfBoard(mem, BoardIdOf(mem, e), s)
             heard(s) == {e \in pending.what : Reaches(At(mem.bind, BoardIdOf(mem, e)), s, conn[s].keys, key(e, s))}
             tombs(s) == [e \in heard(s) |-> [at |-> now, key |-> key(e, s)]]
             T == DeleteAt(conn, srv, mem, pending.what, now)
  <1>1. T = [s \in Servers |-> IF s \in DOMAIN conn THEN Bury(srv[s], tombs(s)) ELSE srv[s]]
    BY Zenon DEF DeleteAt
  <1> HIDE DEF T, tombs, heard, key
  <1>2. ASSUME NEW s \in Servers
        PROVE  /\ ServerOK(T[s]) /\ \A k \in Keys : T[s].shown[k] \subseteq srv[s].shown[k]
               /\ DOMAIN T[s].row \subseteq DOMAIN srv[s].row /\ \A e \in DOMAIN T[s].row : T[s].row[e] = srv[s].row[e]
    <2>1. ServerOK(srv[s])
      BY DEF MembersInv, SharingShape
    <2>2. CASE T[s] = srv[s]
      BY <2>1, <2>2
    <2>3. CASE T[s] = Bury(srv[s], tombs(s))
      <3>1. PICK B : B = Bury(srv[s], tombs(s))
        OBVIOUS
      <3>2. /\ ServerOK(B) /\ \A k \in Keys : B.shown[k] \subseteq srv[s].shown[k]
            /\ DOMAIN B.row \subseteq DOMAIN srv[s].row /\ \A e \in DOMAIN B.row : B.row[e] = srv[s].row[e]
        BY <2>1, <3>1, BuryIs, BuryOK
      <3> QED
        BY <2>3, <3>1, <3>2
    <2> QED
      BY <1>1, <2>2, <2>3
  <1>3. ServersSent(T, was, hosts)
    <2>1. world.servers \subseteq Servers
      BY ServersKnown DEF MembersInv
    <2>2. DOMAIN T = Servers
      BY <1>1
    <2> QED
      BY <1>2, <2>1, <2>2 DEF ServersSent, MembersInv, SentInHistory
  <1>4. srv' = T /\ now' = now /\ world' = world /\ mem' = mem /\ conn' = conn /\ was' = was /\ hosts' = hosts
        /\ DOMAIN dev' = DOMAIN dev /\ dev'.row = dev.row
    BY DEF DeletePushed, T, MembersInv, SharingShape
  <1>5. now' \in Nat /\ RowsOK(dev'.row)
    BY <1>4 DEF MembersInv, SharingShape
  <1> QED
    BY <1>3, <1>4, <1>5, MembersRemoved

-----------------------------------------------------------------------------
(* The initial sync, other members, and the caches                         *)

DeviceOK(d) ==
    /\ DOMAIN d = {"row", "tomb", "cursor", "roster", "bind", "known"}
    /\ RowsOK(d.row) /\ DOMAIN d.row \subseteq Entities

LEMMA UploadedOK ==
    ASSUME NEW S, ServerOK(S), NEW d, DeviceOK(d), NEW m, NEW s, NEW keys
    PROVE  LET U == Uploaded(S, d, m, s, keys) IN
           /\ ServerOK(U) /\ U.userKeys = S.userKeys
           /\ \A k \in Keys : \A x \in U.shown[k] :
                 x \in S.shown[k] \/ (x \in DOMAIN d.row /\ k = KeyOf(d.row, BoardOf(d.row, x), s))
           /\ \A x \in DOMAIN U.row : \/ x \in DOMAIN S.row /\ U.row[x].board = S.row[x].board
                                      \/ x \in DOMAIN d.row /\ U.row[x].board = d.row[x].board
  <1> DEFINE rows == Restrict(d.row, RowsFor(d, m, s, keys))
             ns == [e \in DOMAIN rows |-> KeyOf(d.row, BoardOf(d.row, e), s)]
             tombs == [e \in TombsFor(d, s, keys) |-> [at |-> d.tomb[e].at, key |-> TombKey(d.tomb[e], s)]]
             P == Upsert(S, rows, ns)
             U == Uploaded(S, d, m, s, keys)
  <1>1. U = Bury(P, tombs)
    BY Zenon DEF Uploaded
  <1>2. RowsFor(d, m, s, keys) \subseteq DOMAIN d.row
    BY DEF RowsFor
  <1>3. DOMAIN rows \subseteq DOMAIN d.row /\ \A e \in DOMAIN rows : rows[e] = d.row[e]
    BY <1>2 DEF Restrict
  <1>4. \A e \in DOMAIN rows : ns[e] = KeyOf(d.row, BoardOf(d.row, e), s)
    OBVIOUS
  <1> HIDE DEF rows, ns, tombs, U
  <1>5. DOMAIN rows \subseteq Entities /\ KeysOfBoardsOnly(rows) /\ \A e \in DOMAIN rows : rows[e].ts \in Nat
    BY <1>3 DEF DeviceOK, RowsOK, KeysOfBoardsOnly
  <1>6. ServerOK(P)
    BY <1>5, UpsertOK
  <1>7. P.userKeys = S.userKeys
        /\ \A k \in Keys : P.shown[k] \subseteq S.shown[k] \union {e \in DOMAIN rows : ns[e] = k}
    BY UpsertIs
  <1>10. \A x \in DOMAIN P.row : \/ x \in DOMAIN S.row /\ P.row[x].board = S.row[x].board
                                 \/ x \in DOMAIN rows /\ P.row[x].board = rows[x].board
    BY UpsertBoards
  <1> HIDE DEF P
  <1>8. ServerOK(Bury(P, tombs))
    BY <1>6, BuryOK
  <1>9. Bury(P, tombs).userKeys = P.userKeys /\ \A k \in Keys : Bury(P, tombs).shown[k] \subseteq P.shown[k]
    BY <1>6, BuryIs
  <1>11. DOMAIN Bury(P, tombs).row \subseteq DOMAIN P.row
         /\ \A x \in DOMAIN Bury(P, tombs).row : Bury(P, tombs).row[x] = P.row[x]
    BY <1>6, BuryIs
  <1>12. \A x \in DOMAIN U.row : \/ x \in DOMAIN S.row /\ U.row[x].board = S.row[x].board
                                 \/ x \in DOMAIN d.row /\ U.row[x].board = d.row[x].board
    BY <1>1, <1>3, <1>10, <1>11
  <1> QED
    BY <1>1, <1>3, <1>4, <1>7, <1>8, <1>9, <1>12 DEF U

LEMMA DownloadedOK ==
    ASSUME NEW S, ServerOK(S), NEW d, DeviceOK(d), NEW keys
    PROVE  DeviceOK(Downloaded(S, d, keys))
  <1> DEFINE rows == Restrict(S.row, Pulled(S, d, keys))
             tombs == Restrict(S.tomb, PulledTombs(S, d, keys))
             M == MergeRow(d, rows)
             T == MergeTomb(M, tombs)
             D == Downloaded(S, d, keys)
  <1>1. DOMAIN rows \subseteq DOMAIN S.row /\ \A e \in DOMAIN rows : rows[e] = S.row[e]
    BY DEF Restrict, Pulled
  <1>2. D = [T EXCEPT !.cursor = [k \in DOMAIN T.cursor |-> IF k \in keys THEN now ELSE T.cursor[k]]]
    BY Zenon DEF Downloaded
  <1> HIDE DEF rows, tombs, D
  <1>3. KeysOfBoardsOnly(rows) /\ DOMAIN rows \subseteq Entities /\ \A e \in DOMAIN rows : rows[e].ts \in Nat
    BY <1>1 DEF ServerOK, KeysOfBoardsOnly
  <1>4. DeviceOK(M)
    <2>1. DOMAIN M = DOMAIN d /\ RowsOK(M.row) /\ DOMAIN M.row = DOMAIN d.row \union DOMAIN rows
      BY <1>3, MergeRowOK DEF DeviceOK
    <2> HIDE DEF M
    <2> QED
      BY <1>3, <2>1 DEF DeviceOK
  <1> HIDE DEF M
  <1>5. DeviceOK(T)
    <2>1. DOMAIN T = DOMAIN M /\ RowsOK(T.row) /\ DOMAIN T.row \subseteq DOMAIN M.row
      BY <1>4, MergeTombOK DEF DeviceOK
    <2> HIDE DEF T
    <2> QED
      BY <1>4, <2>1 DEF DeviceOK
  <1> HIDE DEF T
  <1>6. DOMAIN D = DOMAIN T /\ D.row = T.row
    <2>1. PICK c : c = [k \in DOMAIN T.cursor |-> IF k \in keys THEN now ELSE T.cursor[k]]
      OBVIOUS
    <2>2. D = [T EXCEPT !.cursor = c]
      BY <1>2, <2>1
    <2> QED
      BY <1>5, <2>2 DEF DeviceOK
  <1> QED
    BY <1>5, <1>6 DEF D, DeviceOK

\* One server has another state.
LEMMA ServerChanged ==
    ASSUME MembersInv, NEW s \in world.servers, NEW S, ServerOK(S),
           NEW h, was \subseteq h, NEW g, hosts \subseteq g,
           List \in DOMAIN S.row => S.row[List].board \in g,
           \A k \in Keys : \A x \in S.shown[k] : x \in srv[s].shown[k] \/ <<x, k>> \in h
    PROVE  ServersSent([srv EXCEPT ![s] = S], h, g)
  <1> DEFINE T == [srv EXCEPT ![s] = S]
  <1>1. s \in Servers /\ world.servers \subseteq Servers
    BY ServersKnown DEF MembersInv
  <1>2. DOMAIN T = Servers /\ T[s] = S /\ \A x \in Servers \ {s} : T[x] = srv[x]
    BY <1>1 DEF MembersInv, SharingShape
  <1> HIDE DEF T
  <1>3. \A x \in Servers : ServerOK(T[x])
    BY <1>2 DEF MembersInv, SharingShape
  <1>4. ASSUME NEW x \in world.servers
        PROVE  /\ List \in DOMAIN T[x].row => T[x].row[List].board \in g
               /\ \A k \in Keys : \A e \in T[x].shown[k] : Lets(h, g, e, k, x)
    <2>0. ServersSent(srv, h, g)
      BY NowSent, MoreSent
    <2>1. CASE x = s
      <3>1. ASSUME NEW k \in Keys, NEW e \in T[x].shown[k] PROVE Lets(h, g, e, k, x)
        <4>1. CASE e \in srv[s].shown[k]
          BY <2>0, <2>1, <4>1 DEF ServersSent
        <4>2. CASE <<e, k>> \in h
          BY <4>2 DEF Lets
        <4> QED
          BY <1>2, <2>1, <3>1, <4>1, <4>2
      <3> QED
        BY <1>2, <2>1, <3>1
    <2>2. CASE x # s
      BY <1>1, <1>2, <2>0, <2>2 DEF ServersSent
    <2> QED
      BY <2>1, <2>2
  <1> QED
    BY <1>2, <1>3, <1>4 DEF T, ServersSent

LEMMA MembersReady ==
    ASSUME MembersInv, NEW s \in world.servers, NEW hello, NEW userKeys, Ready(s, hello, userKeys),
           Recorded, world' = world, now' = now
    PROVE  MembersInv'
  <1> DEFINE keys == hello \union {s}
             bound == BindUnbound(mem, s)
             d == [dev EXCEPT !.known = dev.known \union {s}, !.roster = Adopt(dev.roster, userKeys, s),
                              !.bind = Over(bound, dev.bind)]
             m == [mem EXCEPT !.bind = Over(bound, mem.bind)]
             S0 == [srv[s] EXCEPT !.userKeys = userKeys]
             S == Uploaded(S0, d, m, s, keys)
             pulled == Pulled(S, d, keys)
  <1>1. /\ conn' = Over(Only(s, [hello |-> hello, keys |-> keys]), conn)
        /\ srv' = [srv EXCEPT ![s] = S]
        /\ dev' = Downloaded(S, d, keys)
        /\ mem' = [m EXCEPT !.listBoard = IF List \in pulled THEN S.row[List].board ELSE m.listBoard,
                            !.item = m.item \/ Item \in pulled \union (RowsFor(d, m, s, keys))]
    BY Zenon DEF Ready
  <1>2. DeviceOK(dev) /\ d.row = dev.row /\ DOMAIN d = DOMAIN dev
    BY DEF MembersInv, SharingShape, DeviceOK
  <1> HIDE DEF d
  <1>3. DeviceOK(d)
    BY <1>2 DEF DeviceOK
  <1>4. DOMAIN mem' = DOMAIN mem
    <2>1. DOMAIN m = DOMAIN mem
      OBVIOUS
    <2> HIDE DEF m, S, pulled
    <2> QED
      BY <1>1, <2>1
  <1> HIDE DEF m, keys, pulled
  <1>5. DOMAIN conn' \subseteq world.servers
    <2>1. PICK v : v = [hello |-> hello, keys |-> keys]
      OBVIOUS
    <2>2. DOMAIN Over(Only(s, v), conn) = {s} \union DOMAIN conn
      BY RowAdded
    <2> QED
      BY <1>1, <2>1, <2>2 DEF MembersInv, SharingShape
  <1>6. ServerOK(srv[s])
    BY ServersKnown DEF MembersInv, SharingShape
  <1>7. ServerOK(S0) /\ S0.shown = srv[s].shown /\ S0.row = srv[s].row
    <2>1. DOMAIN S0 = DOMAIN srv[s] /\ S0.row = srv[s].row /\ S0.had = srv[s].had /\ S0.shown = srv[s].shown
      BY <1>6 DEF ServerOK
    <2> QED
      BY <1>6, <2>1 DEF ServerOK
  <1> HIDE DEF S0
  <1>8. /\ ServerOK(S)
        /\ \A k \in Keys : \A x \in S.shown[k] :
              x \in S0.shown[k] \/ (x \in DOMAIN d.row /\ k = KeyOf(d.row, BoardOf(d.row, x), s))
        /\ \A x \in DOMAIN S.row : \/ x \in DOMAIN S0.row /\ S.row[x].board = S0.row[x].board
                                   \/ x \in DOMAIN d.row /\ S.row[x].board = d.row[x].board
    BY <1>3, <1>7, UploadedOK
  <1> HIDE DEF S
  <1>9. DeviceOK(dev')
    BY <1>1, <1>3, <1>8, DownloadedOK
  <1>10. /\ was \subseteq was' /\ Namespaces(dev'.row) \subseteq was'
         /\ hosts \subseteq hosts' /\ Hosts(dev'.row) \subseteq hosts'
    BY DEF Recorded
  <1>11. ASSUME NEW k \in Keys, NEW x \in S.shown[k] PROVE x \in srv[s].shown[k] \/ <<x, k>> \in was'
    <2>1. CASE x \in S0.shown[k]
      BY <1>7, <2>1
    <2>2. CASE x \in DOMAIN d.row /\ k = KeyOf(d.row, BoardOf(d.row, x), s)
      <3>1. <<x, KeyOf(dev.row, BoardOf(dev.row, x), s)>> \in Namespaces(dev.row)
        BY <1>2, <2>2, NamespaceOf
      <3> QED
        BY <1>2, <1>10, <2>2, <3>1 DEF MembersInv, HistoryUpToDate
    <2> QED
      BY <1>8, <2>1, <2>2
  <1>15. List \in DOMAIN S.row => S.row[List].board \in hosts'
    <2>1. List \in DOMAIN srv[s].row => srv[s].row[List].board \in hosts
      BY DEF MembersInv, SentInHistory, ServersSent
    <2>2. List \in DOMAIN d.row => d.row[List].board \in hosts
      BY <1>2 DEF MembersInv, HistoryUpToDate, Hosts
    <2> QED
      BY <1>7, <1>8, <1>10, <2>1, <2>2
  <1>12. ServersSent(srv', was', hosts')
    <2>1. PICK h, g : h = was' /\ g = hosts'
      OBVIOUS
    <2>2. ServersSent([srv EXCEPT ![s] = S], h, g)
      BY <1>8, <1>10, <1>11, <1>15, <2>1, ServerChanged
    <2> QED
      BY <1>1, <2>1, <2>2
  <1>13. DOMAIN dev' = DOMAIN dev /\ RowsOK(dev'.row) /\ DOMAIN dev'.row \subseteq Entities
    BY <1>2, <1>9 DEF DeviceOK
  <1>14. now' \in Nat
    BY DEF MembersInv, SharingShape
  <1>16. CachesKnown(mem', was', hosts')
    <2>1. mem'.boardKey = mem.boardKey /\ (mem'.listBoard = mem.listBoard \/ mem'.listBoard \in hosts')
      <3>1. m.boardKey = mem.boardKey /\ m.listBoard = mem.listBoard
            /\ DOMAIN m = {"boards", "boardKey", "bind", "roster", "known", "listBoard", "item"}
        BY DEF m, MembersInv, SharingShape
      <3>2. pulled \subseteq DOMAIN S.row
        BY DEF pulled, Pulled
      <3> QED
        BY <1>1, <1>15, <3>1, <3>2
    <2>2. PICK h, g, n : h = was' /\ g = hosts' /\ n = mem'
      OBVIOUS
    <2>3. CachesKnown(n, h, g)
      BY <1>10, <2>1, <2>2, CachesStay
    <2> QED
      BY <2>2, <2>3
  <1> QED
    BY <1>4, <1>5, <1>10, <1>12, <1>13, <1>14, <1>16, MembersKept

LEMMA MembersRemote ==
    ASSUME MembersInv, NEW s \in world.servers, NEW e \in Entities, NEW r, NEW k, Remote(s, e, r, k),
           r.ts \in Nat, e \notin Boards => r.key = NoKey, e = List => r.board \in hosts
    PROVE  MembersInv'
  <1> DEFINE U == Upsert(srv[s], Only(e, r), Only(e, k))
  <1>1. now' \in Nat
    BY UserActs DEF Remote
  <1>2. /\ world' = world /\ conn' = conn /\ srv' = [srv EXCEPT ![s] = U]
        /\ was' = was \union Namespaces(dev'.row) \union {<<e, k>>} /\ hosts' = hosts \union Hosts(dev'.row)
        /\ (dev' = MergeRow(dev, Only(e, r)) /\ mem' = Noted(mem, e, r)) \/ (dev' = dev /\ mem' = mem)
    BY DEF Remote
  <1>3. ServerOK(srv[s])
    BY ServersKnown DEF MembersInv, SharingShape
  <1>4. /\ ServerOK(U) /\ \A n \in Keys : \A x \in U.shown[n] : x \in srv[s].shown[n] \/ (x = e /\ n = k)
        /\ \A x \in DOMAIN U.row : \/ x \in DOMAIN srv[s].row /\ U.row[x].board = srv[s].row[x].board
                                   \/ x = e /\ U.row[x].board = r.board
    BY <1>3, OneUpserted
  <1> HIDE DEF U
  <1>5. /\ was \subseteq was' /\ Namespaces(dev'.row) \subseteq was' /\ <<e, k>> \in was'
        /\ hosts \subseteq hosts' /\ Hosts(dev'.row) \subseteq hosts'
    BY <1>2
  <1>6. ServersSent(srv', was', hosts')
    <2>1. PICK h, g : h = was' /\ g = hosts'
      OBVIOUS
    <2>2. List \in DOMAIN U.row => U.row[List].board \in hosts
      BY <1>4 DEF MembersInv, SentInHistory, ServersSent
    <2>3. ServersSent([srv EXCEPT ![s] = U], h, g)
      BY <1>4, <1>5, <2>1, <2>2, ServerChanged
    <2> QED
      BY <1>2, <2>1, <2>3
  <1>7. DOMAIN dev' = DOMAIN dev /\ RowsOK(dev'.row) /\ DOMAIN dev'.row \subseteq Entities
    <2>1. CASE dev' = dev
      BY <2>1 DEF MembersInv, SharingShape
    <2>2. CASE dev' = MergeRow(dev, Only(e, r))
      <3>1. PICK rows : rows = Only(e, r)
        OBVIOUS
      <3>2. DOMAIN rows = {e} /\ rows[e] = r
        BY <3>1, OnlyAt
      <3>3. KeysOfBoardsOnly(rows) /\ \A x \in DOMAIN rows : rows[x].ts \in Nat
        BY <3>2 DEF KeysOfBoardsOnly
      <3>4. DOMAIN dev = {"row", "tomb", "cursor", "roster", "bind", "known"} /\ RowsOK(dev.row)
            /\ DOMAIN dev.row \subseteq Entities
        BY DEF MembersInv, SharingShape
      <3>5. DOMAIN MergeRow(dev, rows) = DOMAIN dev /\ RowsOK(MergeRow(dev, rows).row)
            /\ DOMAIN MergeRow(dev, rows).row = DOMAIN dev.row \union DOMAIN rows
        BY <3>3, <3>4, MergeRowOK
      <3> QED
        BY <2>2, <3>1, <3>2, <3>4, <3>5
    <2> QED
      BY <1>2, <2>1, <2>2
  <1>8. DOMAIN mem' = DOMAIN mem /\ DOMAIN conn' \subseteq world.servers
    BY <1>2 DEF Noted, MembersInv, SharingShape
  <1>9. CachesKnown(mem', was', hosts')
    <2>1. mem'.boardKey = mem.boardKey /\ (mem'.listBoard = mem.listBoard \/ mem'.listBoard \in hosts')
      BY <1>2, <1>5 DEF Noted, MembersInv, SharingShape
    <2>2. PICK h, g, n : h = was' /\ g = hosts' /\ n = mem'
      OBVIOUS
    <2>3. CachesKnown(n, h, g)
      BY <1>5, <2>1, <2>2, CachesStay
    <2> QED
      BY <2>2, <2>3
  <1> QED
    BY <1>1, <1>2, <1>5, <1>6, <1>7, <1>8, <1>9, MembersKept

LEMMA MembersRemoteCreate ==
    ASSUME MembersInv, NEW s \in world.servers, NEW b \in Boards, NEW k, RemoteCreate(s, b, k)
    PROVE  MembersInv'
  <1> DEFINE r == [ts |-> now + 1, key |-> IF k = s THEN NoKey ELSE k, board |-> None]
  <1>1. Remote(s, b, r, k) /\ r.ts \in Nat /\ b \in Entities /\ b # List
    BY SharingAssumption DEF RemoteCreate, MembersInv, SharingShape, Entities
  <1> HIDE DEF r
  <1> QED
    BY <1>1, MembersRemote

LEMMA MembersRemoteEdit ==
    ASSUME MembersInv, NEW s \in world.servers, NEW e \in Entities, RemoteEdit(s, e)
    PROVE  MembersInv'
  <1> DEFINE r == [srv[s].row[e] EXCEPT !.ts = now + 1]
  <1>1. Remote(s, e, r, srv[s].row[e].ns) /\ e \in DOMAIN srv[s].row
    BY DEF RemoteEdit
  <1>2. ServerOK(srv[s])
    BY ServersKnown DEF MembersInv, SharingShape
  <1>3. r.ts \in Nat /\ (e \notin Boards => r.key = NoKey)
    BY <1>1, <1>2 DEF MembersInv, SharingShape, ServerOK, KeysOfBoardsOnly
  <1>4. e = List => r.board \in hosts
    <2>1. DOMAIN srv[s].row[e] = {"ts", "key", "board", "ns"}
      BY <1>1, <1>2 DEF ServerOK
    <2> QED
      BY <1>1, <2>1 DEF MembersInv, SentInHistory, ServersSent
  <1> HIDE DEF r
  <1> QED
    BY <1>1, <1>3, <1>4, MembersRemote

LEMMA MembersRemoteDelete ==
    ASSUME MembersInv, NEW s \in world.servers, RemoteDelete(s)
    PROVE  MembersInv'
  <1>1. now' \in Nat
    BY UserActs DEF RemoteDelete
  <1>2. PICK tomb : /\ DOMAIN tomb = {Item} /\ srv' = [srv EXCEPT ![s] = Bury(srv[s], tomb)]
                    /\ dev' \in {MergeTomb(dev, tomb), dev}
    <2>1. PICK t : t = Only(Item, [at |-> now + 1, key |-> srv[s].row[Item].ns])
      OBVIOUS
    <2>2. srv' = [srv EXCEPT ![s] = Bury(srv[s], t)] /\ dev' \in {MergeTomb(dev, t), dev}
      BY <2>1 DEF RemoteDelete
    <2> QED
      BY <2>1, <2>2, OnlyAt
  <1>3. world' = world /\ conn' = conn /\ mem' = mem /\ was' = was /\ hosts' = hosts
    BY DEF RemoteDelete
  <1>4. ServerOK(srv[s])
    BY ServersKnown DEF MembersInv, SharingShape
  <1>5. PICK B : /\ B = Bury(srv[s], tomb) /\ ServerOK(B) /\ \A k \in Keys : B.shown[k] \subseteq srv[s].shown[k]
                 /\ DOMAIN B.row \subseteq DOMAIN srv[s].row /\ \A x \in DOMAIN B.row : B.row[x] = srv[s].row[x]
    BY <1>4, BuryIs, BuryOK
  <1>6. ServersSent(srv', was, hosts)
    <2>1. List \in DOMAIN B.row => B.row[List].board \in hosts
      BY <1>5 DEF MembersInv, SentInHistory, ServersSent
    <2>2. ServersSent([srv EXCEPT ![s] = B], was, hosts)
      BY <1>5, <2>1, ServerChanged
    <2> QED
      BY <1>2, <1>5, <2>2
  <1>7. RowsOK(dev.row) /\ DOMAIN dev.row \subseteq Entities
        /\ DOMAIN dev = {"row", "tomb", "cursor", "roster", "bind", "known"}
    BY DEF MembersInv, SharingShape
  <1>8. /\ DOMAIN dev' = DOMAIN dev /\ RowsOK(dev'.row) /\ DOMAIN dev'.row \subseteq DOMAIN dev.row
        /\ Namespaces(dev'.row) \subseteq Namespaces(dev.row) /\ Hosts(dev'.row) \subseteq Hosts(dev.row)
    <2>1. CASE dev' = dev
      BY <1>7, <2>1
    <2>2. CASE dev' = MergeTomb(dev, tomb)
      <3>1. /\ DOMAIN dev' = DOMAIN dev /\ RowsOK(dev'.row) /\ DOMAIN dev'.row \subseteq DOMAIN dev.row
            /\ \E X : X \subseteq DOMAIN tomb /\ dev'.row = Without(dev.row, X)
        BY <1>7, <2>2, MergeTombOK
      <3>2. PICK X : X \subseteq {Item} /\ dev'.row = Without(dev.row, X)
        BY <1>2, <3>1
      <3>3. X \intersect Boards = {} /\ List \notin X
        BY <3>2, SharingAssumption
      <3>4. /\ Namespaces(Without(dev.row, X)) \subseteq Namespaces(dev.row)
            /\ Hosts(Without(dev.row, X)) \subseteq Hosts(dev.row)
        BY <1>7, <3>3, NamespacesShrink
      <3> QED
        BY <3>1, <3>2, <3>4
    <2> QED
      BY <1>2, <2>1, <2>2
  <1> QED
    BY <1>1, <1>3, <1>6, <1>8, MembersRemoved

\* The caches and the connections change, and nothing else.
LEMMA MembersCaches ==
    ASSUME MembersInv, DOMAIN mem' = DOMAIN mem, DOMAIN conn' \subseteq DOMAIN conn,
           UNCHANGED <<dev, srv, now, world, was, hosts>>, CachesKnown(mem', was, hosts)
    PROVE  MembersInv'
  <1>1. ServersSent(srv', was', hosts') /\ CachesKnown(mem', was', hosts')
    <2>1. ServersSent(srv, was, hosts)
      BY NowSent
    <2> QED
      BY <2>1
  <1>2. now' \in Nat /\ RowsOK(dev'.row) /\ DOMAIN dev'.row \subseteq Entities /\ DOMAIN conn' \subseteq world.servers
    BY DEF MembersInv, SharingShape
  <1>3. Namespaces(dev'.row) \subseteq was' /\ Hosts(dev'.row) \subseteq hosts'
    BY DEF MembersInv, HistoryUpToDate
  <1> QED
    BY <1>1, <1>2, <1>3, MembersKept

\* What the tables say now was the case.
LEMMA FreshKnown ==
    ASSUME MembersInv
    PROVE  /\ DOMAIN Fresh(dev, mem) = DOMAIN mem
           /\ CachesKnown(Fresh(dev, mem), was, hosts)
  <1> DEFINE keys == [b \in {x \in DOMAIN dev.row \intersect Boards : dev.row[x].key # NoKey} |-> dev.row[b].key]
             board == IF List \in DOMAIN dev.row THEN dev.row[List].board ELSE None
             F == Fresh(dev, mem)
  <1>1. F = [mem EXCEPT !.boards = DOMAIN dev.row \intersect Boards, !.boardKey = keys,
                        !.bind = dev.bind, !.roster = dev.roster, !.known = dev.known, !.listBoard = board]
    BY Zenon DEF Fresh
  <1>2. DOMAIN keys \subseteq Boards \intersect DOMAIN dev.row
        /\ \A b \in DOMAIN keys : keys[b] = dev.row[b].key /\ keys[b] # NoKey
    OBVIOUS
  <1>3. board \in hosts \union {None}
    BY DEF MembersInv, HistoryUpToDate, Hosts
  <1> HIDE DEF keys, board, F
  <1>4. DOMAIN F = DOMAIN mem /\ F.boardKey = keys /\ F.listBoard = board
    BY <1>1 DEF MembersInv, SharingShape
  <1>5. ASSUME NEW s \in world.servers, NEW b \in DOMAIN keys
        PROVE  <<b, keys[b]>> \in was
    <2>1. b \in DOMAIN dev.row /\ b \in Boards /\ keys[b] = dev.row[b].key /\ dev.row[b].key # NoKey
      BY <1>2
    <2>2. BoardOf(dev.row, b) = b /\ KeyOf(dev.row, b, s) = keys[b]
      BY <2>1, SharingAssumption DEF BoardOf, KeyOf
    <2>3. <<b, KeyOf(dev.row, BoardOf(dev.row, b), s)>> \in Namespaces(dev.row)
      BY <2>1, NamespaceOf
    <2> QED
      BY <2>2, <2>3 DEF MembersInv, HistoryUpToDate
  <1> QED
    BY <1>2, <1>3, <1>4, <1>5 DEF F, CachesKnown

LEMMA MembersRefresh ==
    ASSUME MembersInv, Refresh \/ Reload \/ \E s : Disconnect(s)
    PROVE  MembersInv'
  <1>1. UNCHANGED <<dev, srv, now, world, was, hosts>>
    BY DEF Refresh, Reload, Disconnect
  <1>2. DOMAIN mem' = DOMAIN mem /\ CachesKnown(mem', was, hosts)
    <2>1. CASE Refresh
      BY <2>1, FreshKnown DEF Refresh
    <2>2. CASE Reload
      <3>1. PICK m, n : m = Fresh(dev, mem) /\ n = mem' /\ n = [m EXCEPT !.item = FALSE]
        BY <2>2 DEF Reload
      <3>2. DOMAIN m = DOMAIN mem /\ CachesKnown(m, was, hosts)
        BY <3>1, FreshKnown
      <3>3. DOMAIN n = DOMAIN m /\ n.boardKey = m.boardKey /\ n.listBoard = m.listBoard
        BY <3>1, <3>2 DEF MembersInv, SharingShape
      <3>4. CachesKnown(n, was, hosts)
        BY <3>2, <3>3 DEF CachesKnown
      <3> QED
        BY <3>1, <3>2, <3>3, <3>4
    <2>3. CASE \E s : Disconnect(s)
      BY <2>3 DEF Disconnect, MembersInv
    <2> QED
      BY <2>1, <2>2, <2>3
  <1>3. DOMAIN conn' \subseteq DOMAIN conn
    BY DEF Refresh, Reload, Disconnect, Nothing, Without, Restrict
  <1> QED
    BY <1>1, <1>2, <1>3, MembersCaches

LEMMA MembersInit ==
    ASSUME Init
    PROVE  MembersInv
  <1>1. ServerOK(EmptyServer)
    BY DEF EmptyServer, ServerOK, Nothing, KeysOfBoardsOnly
  <1>2. DOMAIN srv = Servers /\ \A s \in Servers : srv[s] = EmptyServer
    BY DEF Init
  <1>3. world.servers \subseteq Servers
    BY SharingAssumption DEF Init
  <1>4. \A k \in Keys : EmptyServer.shown[k] = {}
    BY DEF EmptyServer
  <1>5. DOMAIN dev.row = {} /\ DOMAIN conn = {} /\ DOMAIN mem.boardKey = {} /\ mem.listBoard = None
    BY DEF Init, Nothing
  <1>6. RowsOK(dev.row) /\ Namespaces(dev.row) = {} /\ Hosts(dev.row) = {}
    BY <1>5 DEF RowsOK, KeysOfBoardsOnly, Namespaces, Hosts
  <1>7. /\ world \in Worlds /\ now \in Nat
        /\ DOMAIN dev = {"row", "tomb", "cursor", "roster", "bind", "known"}
        /\ DOMAIN mem = {"boards", "boardKey", "bind", "roster", "known", "listBoard", "item"}
    BY DEF Init
  <1>8. SharingShape
    BY <1>1, <1>2, <1>5, <1>6, <1>7 DEF SharingShape
  <1>9. SentInHistory
    <2>1. DOMAIN EmptyServer.row = {}
      BY DEF EmptyServer, Nothing
    <2> QED
      BY <1>1, <1>2, <1>3, <1>4, <2>1 DEF SentInHistory, ServersSent
  <1>10. CachesKnown(mem, was, hosts)
    BY <1>5 DEF CachesKnown
  <1> QED
    BY <1>6, <1>8, <1>9, <1>10 DEF MembersInv, HistoryUpToDate

LEMMA MembersNext ==
    ASSUME MembersInv, [Next]_vars
    PROVE  MembersInv'
  <1>1. CASE UNCHANGED vars
    <2>1. DOMAIN mem' = DOMAIN mem /\ DOMAIN conn' \subseteq DOMAIN conn
          /\ UNCHANGED <<dev, srv, now, world, was, hosts>> /\ CachesKnown(mem', was, hosts)
      BY <1>1 DEF vars, MembersInv
    <2> QED
      BY <2>1, MembersCaches
  <1>2. ASSUME NEW b \in Boards, NEW k \in ShareKeys, CreateBoard(b, k) \/ Share(b, k)
        PROVE  MembersInv'
    BY <1>2, MembersCreateBoard, MembersShare
  <1>3. ASSUME NEW b \in Boards, CreateBoard(b, NoKey) \/ MoveList(b)
        PROVE  MembersInv'
    BY <1>3, MembersCreateBoard, MembersMoveList
  <1>4. ASSUME NEW e \in {List, Item}, NEW b \in Boards, CreateChild(e, b)
        PROVE  MembersInv'
    BY <1>4, MembersCreateChild
  <1>5. ASSUME NEW e \in Entities, Edit(e) \/ Delete(e)
        PROVE  MembersInv'
    BY <1>5, MembersEdit, MembersDelete
  <1>6. ASSUME NEW k \in ShareKeys, LeaveKey(k)
        PROVE  MembersInv'
    BY <1>6, MembersLeaveKey
  <1>7. ASSUME Discard \/ DeletePushed \/ LeaveSent \/ Refresh \/ Reload
        PROVE  MembersInv'
    BY <1>7, MembersDiscard, MembersDeletePushed, MembersLeaveSent, MembersRefresh
  <1>8. ASSUME NEW s \in world.servers, Connect(s)
        PROVE  MembersInv'
    <2> DEFINE hello == HelloKeys(mem, s)
    <2>1. Ready(s, hello, srv[s].userKeys \union (hello \ {s})) /\ Recorded /\ world' = world /\ now' = now
      BY <1>8 DEF Connect
    <2> HIDE DEF hello
    <2> QED
      BY <2>1, MembersReady
  <1>9. ASSUME NEW s \in world.servers, NEW k \in ShareKeys, Join(s, k)
        PROVE  MembersInv'
    <2>1. Ready(s, conn[s].hello, srv[s].userKeys \union {k}) /\ Recorded /\ world' = world /\ now' = now
      BY <1>9 DEF Join
    <2> QED
      BY <2>1, MembersReady
  <1>10. ASSUME NEW s \in world.servers, Disconnect(s) \/ RemoteDelete(s)
         PROVE  MembersInv'
    BY <1>10, MembersRefresh, MembersRemoteDelete
  <1>11. ASSUME NEW s \in world.servers, NEW k \in ShareKeys, SiblingLeaves(s, k)
         PROVE  MembersInv'
    BY <1>11, MembersSiblingLeaves
  <1>12. ASSUME NEW s \in world.servers, NEW e \in Entities, RemoteEdit(s, e)
         PROVE  MembersInv'
    BY <1>12, MembersRemoteEdit
  <1>13. ASSUME NEW s \in world.servers, NEW b \in Boards, NEW k \in ShareKeys \union {s}, RemoteCreate(s, b, k)
         PROVE  MembersInv'
    BY <1>13, MembersRemoteCreate
  <1> QED
    BY <1>1, <1>2, <1>3, <1>4, <1>5, <1>6, <1>7, <1>8, <1>9, <1>10, <1>11, <1>12, <1>13 DEF Next

\* Nobody is ever sent an entity whose board was never in a namespace of his: for
\* any boards, servers, keys and operations, online and offline, with keys used
\* again, boards moved between them, and other members who edit and delete.  A
\* list or an item that is pushed by caches which are behind goes where a board of
\* it was before, or to the user's own devices, and to nobody else
\* (effectiveKeyForEntityId, connectionsForPush, doInitialSync).
THEOREM SentToMembersOnly == Spec => []OnlyMembersSee
  <1>1. Init => MembersInv
    BY MembersInit
  <1>2. MembersInv /\ [Next]_vars => MembersInv'
    BY MembersNext
  <1>3. MembersInv => OnlyMembersSee
    BY DEF MembersInv, SentInHistory, ServersSent, Lets, OnlyMembersSee, MayReach
  <1> QED
    BY <1>1, <1>2, <1>3, PTL DEF Spec

-----------------------------------------------------------------------------
(* Part 2: what belongs to a server stays there.                           *)

\* Where there are several servers, what must not occur: with a deletion, a grant
\* or another writer the property fails.
Spared(w) ==
    /\ w.prompt /\ w.apart /\ ~w.anyKey /\ ~w.anyTime
    /\ w.does \intersect {"remote", "join", "delete"} = {}

Home(e) == BoardOf(dev.row, e)
KeyOn(b) == dev.row[b].key
HomeKey(e) == KeyOn(Home(e))

\* Server t has key k as one of the user's, or did.
Tracked(k, t) ==
    \/ k \in srv[t].userKeys
    \/ k \in DOMAIN dev.roster /\ dev.roster[k] = t
    \/ t \in DOMAIN conn /\ k \in conn[t].keys \ {t}

HomeShape ==
    /\ \A e \in DOMAIN dev.row : dev.row[e].ts \in 1..now /\ dev.row[e].key \in ShareKeys \union {NoKey}
    /\ DOMAIN dev.cursor = Keys \union {NoKey} /\ \A k \in DOMAIN dev.cursor : dev.cursor[k] \in 0..now
    /\ \A b \in DOMAIN dev.bind : b \in Boards \intersect DOMAIN dev.row /\ dev.bind[b] \in world.servers
    /\ \A k \in DOMAIN dev.roster : k \in ShareKeys /\ dev.roster[k] \in world.servers
    /\ \A s \in DOMAIN conn : conn[s].keys \subseteq {s} \union ShareKeys
    /\ DOMAIN dev.tomb = {}
    /\ \A s \in world.servers :
          /\ srv[s].userKeys \subseteq ShareKeys /\ DOMAIN srv[s].tomb = {}
          /\ \A e \in srv[s].had : \E x \in was : x[1] = e
    /\ pending # None => pending.op = "leave" /\ \E k \in ShareKeys : pending.what = {k}

\* Every list has a board that is there, and every item a list.
NoOrphans == \A e \in DOMAIN dev.row : Home(e) \in Boards \intersect DOMAIN dev.row

\* While a server is connected every board has its server, and what a server
\* ever had of a board is on that one.
Bound == DOMAIN conn # {} => Boards \intersect DOMAIN dev.row \subseteq DOMAIN dev.bind
AtHome == \A t \in world.servers : \A e \in DOMAIN dev.row \intersect srv[t].had : At(dev.bind, Home(e)) = t

\* A key belongs to one board and, once a server knows it, to one server.
OwnKeys == \A b, c \in DOMAIN dev.row : KeyOn(b) = KeyOn(c) /\ KeyOn(b) # NoKey => b = c
KeysAtHome ==
    \A t \in world.servers, k \in ShareKeys : Tracked(k, t) =>
        /\ dev.cursor[k] > 0
        /\ \A b \in DOMAIN dev.row : KeyOn(b) = k => At(dev.bind, b) = t
        /\ \A u \in world.servers : Tracked(k, u) => u = t

\* What a server has is no news to the device, unless its key was left; once a
\* key was synced all of its board is stored under it.
Behind ==
    \A t \in world.servers : \A e \in DOMAIN srv[t].row :
        IF e \in DOMAIN dev.row THEN srv[t].row[e].ts <= dev.row[e].ts ELSE srv[t].row[e].ns \in left
UnderKey ==
    \A t \in world.servers : \A e \in DOMAIN dev.row \intersect DOMAIN srv[t].row :
        HomeKey(e) # NoKey /\ dev.cursor[HomeKey(e)] > 0 => srv[t].row[e].ns = HomeKey(e)

\* A key that was left is forgotten, but for servers that are about to be told.
LeftKeys ==
    \A k \in left :
        /\ k \in ShareKeys /\ dev.cursor[k] > 0
        /\ k \notin DOMAIN dev.roster /\ \A e \in DOMAIN dev.row : KeyOn(e) # k
        /\ \A s \in world.servers : k \in srv[s].userKeys =>
              pending # None /\ pending.what = {k} /\ s \in DOMAIN conn /\ k \in conn[s].keys

HomeInv ==
    /\ MembersInv
    /\ Spared(world) /\ ~Single(world.servers)
    /\ HomeShape /\ NoOrphans /\ Bound /\ AtHome /\ OwnKeys /\ KeysAtHome /\ Behind /\ UnderKey /\ LeftKeys

\* Every server of the world is one, and none is called None.
LEMMA HomeNames ==
    ASSUME HomeInv
    PROVE  /\ world.servers \subseteq Servers /\ None \notin world.servers
           /\ world.servers \intersect ShareKeys = {} /\ NoKey \notin ShareKeys
           /\ List # Item /\ List \notin Boards /\ Item \notin Boards /\ None \notin Boards
           /\ now \in Nat /\ DOMAIN conn \subseteq world.servers
           /\ DOMAIN dev.row \subseteq Entities
           /\ \A t \in world.servers : ServerOK(srv[t]) /\ DOMAIN srv[t].row \subseteq srv[t].had
  <1>1. world.servers \subseteq Servers
    BY ServersKnown DEF HomeInv, MembersInv
  <1>2. \A t \in world.servers : ServerOK(srv[t])
    BY <1>1 DEF HomeInv, MembersInv, SharingShape
  <1>3. \A t \in world.servers : DOMAIN srv[t].row \subseteq srv[t].had
    BY <1>2 DEF ServerOK
  <1>4. now \in Nat /\ DOMAIN conn \subseteq world.servers /\ DOMAIN dev.row \subseteq Entities
    BY DEF HomeInv, MembersInv, SharingShape
  <1> QED
    BY <1>1, <1>2, <1>3, <1>4, SharingAssumption

LEMMA TrackedOnServer ==
    ASSUME HomeInv, NEW t, NEW k, Tracked(k, t), t \in world.servers
    PROVE  k \in ShareKeys
  BY DEF Tracked, HomeInv, HomeShape

\* Nothing but the caches and the connections changes.
LEMMA HomeCaches ==
    ASSUME HomeInv, MembersInv', pending = None, UNCHANGED <<dev, srv, now, world, was, left, pending>>,
           \A s \in DOMAIN conn' : s \in DOMAIN conn /\ conn'[s] = conn[s]
    PROVE  HomeInv'
  <1>1. \A e : Home(e)' = Home(e) /\ KeyOn(e)' = KeyOn(e) /\ HomeKey(e)' = HomeKey(e)
    BY DEF Home, KeyOn, HomeKey
  <1>2. \A k, t : Tracked(k, t)' => Tracked(k, t)
    BY DEF Tracked
  <1>3. HomeShape'
    BY DEF HomeInv, HomeShape
  <1>4. NoOrphans' /\ OwnKeys' /\ AtHome' /\ UnderKey' /\ Behind'
    BY <1>1 DEF HomeInv, NoOrphans, OwnKeys, AtHome, UnderKey, Behind
  <1>5. Bound'
    BY DEF HomeInv, Bound
  <1>6. KeysAtHome'
    BY <1>1, <1>2 DEF HomeInv, KeysAtHome
  <1>7. LeftKeys'
    BY <1>1 DEF HomeInv, LeftKeys
  <1>8. Spared(world)' /\ ~Single(world.servers)'
    BY DEF HomeInv, Spared, Single
  <1> QED
    BY <1>3, <1>4, <1>5, <1>6, <1>7, <1>8 DEF HomeInv

LEMMA HomeRefresh ==
    ASSUME HomeInv, MembersInv', Refresh \/ Reload \/ \E s : Disconnect(s)
    PROVE  HomeInv'
  <1>1. pending = None /\ UNCHANGED <<dev, srv, now, world, was, left, pending>>
    BY DEF Refresh, Reload, Disconnect, Settled, HomeInv, Spared
  <1>2. \A s \in DOMAIN conn' : s \in DOMAIN conn /\ conn'[s] = conn[s]
    <2>1. CASE Refresh
      BY <2>1 DEF Refresh, Restrict
    <2>2. CASE Reload
      BY <2>2 DEF Reload, Nothing
    <2>3. CASE \E s : Disconnect(s)
      BY <2>3 DEF Disconnect, Without, Restrict
    <2> QED
      BY <2>1, <2>2, <2>3
  <1> QED
    BY <1>1, <1>2, HomeCaches

\* The servers that know a key that was left are told.
LEMMA HomeLeaveSent ==
    ASSUME HomeInv, MembersInv', LeaveSent
    PROVE  HomeInv'
  <1> DEFINE T == [s \in Servers |->
                 IF s \in DOMAIN conn
                 THEN [srv[s] EXCEPT !.userKeys = srv[s].userKeys \ ((pending.what \intersect conn[s].keys) \ {s})]
                 ELSE srv[s]]
  <1>1. srv' = T /\ pending' = None /\ pending # None /\ UNCHANGED <<dev, mem, conn, now, world, was, left>>
    BY Zenon DEF LeaveSent
  <1>2. PICK k0 \in ShareKeys : pending.what = {k0}
    BY <1>1 DEF HomeInv, HomeShape
  <1>3. ASSUME NEW t \in world.servers
        PROVE  /\ T[t].row = srv[t].row /\ T[t].had = srv[t].had /\ T[t].tomb = srv[t].tomb
               /\ T[t].userKeys \subseteq srv[t].userKeys
               /\ t \in DOMAIN conn /\ k0 \in conn[t].keys => k0 \notin T[t].userKeys
    <2>1. T[t] = IF t \in DOMAIN conn
                 THEN [srv[t] EXCEPT !.userKeys = srv[t].userKeys \ ((pending.what \intersect conn[t].keys) \ {t})]
                 ELSE srv[t]
      BY HomeNames
    <2>2. DOMAIN srv[t] = {"row", "tomb", "userKeys", "had", "shown"}
      BY HomeNames DEF ServerOK
    <2>3. k0 # t
      BY HomeNames, <1>2
    <2> HIDE DEF T
    <2> QED
      BY <1>2, <2>1, <2>2, <2>3
  <1> HIDE DEF T
  <1>4. \A t \in world.servers : /\ srv'[t].row = srv[t].row /\ srv'[t].had = srv[t].had /\ srv'[t].tomb = srv[t].tomb
                                 /\ srv'[t].userKeys \subseteq srv[t].userKeys
                                 /\ t \in DOMAIN conn /\ k0 \in conn[t].keys => k0 \notin srv'[t].userKeys
    BY <1>1, <1>3
  <1>5. \A e : Home(e)' = Home(e) /\ KeyOn(e)' = KeyOn(e) /\ HomeKey(e)' = HomeKey(e)
    BY <1>1 DEF Home, KeyOn, HomeKey
  <1>6. \A k : \A t \in world.servers : Tracked(k, t)' => Tracked(k, t)
    BY <1>1, <1>4 DEF Tracked
  <1>7. HomeShape'
    BY <1>1, <1>4 DEF HomeInv, HomeShape
  <1>8. NoOrphans' /\ OwnKeys' /\ Bound' /\ Spared(world)' /\ ~Single(world.servers)'
    BY <1>1, <1>5 DEF HomeInv, NoOrphans, OwnKeys, Bound, Spared, Single
  <1>9. AtHome' /\ UnderKey' /\ Behind'
    BY <1>1, <1>4, <1>5 DEF HomeInv, AtHome, UnderKey, Behind
  <1>10. KeysAtHome'
    BY <1>1, <1>5, <1>6 DEF HomeInv, KeysAtHome
  <1>11. LeftKeys'
    BY <1>1, <1>2, <1>4, <1>5 DEF HomeInv, LeftKeys
  <1> QED
    BY <1>7, <1>8, <1>9, <1>10, <1>11 DEF HomeInv

\* Boards that go with all that is on them, told by where each entity is.
LEMMA TreesGone ==
    ASSUME NEW rows, DOMAIN rows \subseteq Entities,
           \A e \in DOMAIN rows : BoardOf(rows, e) \in Boards \intersect DOMAIN rows,
           NEW C, C \subseteq Boards
    PROVE  LET R == Without(rows, UNION {Tree(rows, b) : b \in C}) IN
           /\ DOMAIN R = {e \in DOMAIN rows : BoardOf(rows, e) \notin C}
           /\ \A e \in DOMAIN R : R[e] = rows[e] /\ BoardOf(R, e) = BoardOf(rows, e)
  <1> DEFINE X == UNION {Tree(rows, b) : b \in C}
             R == Without(rows, X)
  <1>1. List # Item /\ List \notin Boards /\ Item \notin Boards /\ None \notin Boards
    BY SharingAssumption
  <1>2. DOMAIN R = DOMAIN rows \ X /\ \A e \in DOMAIN rows \ X : R[e] = rows[e]
    BY WithoutAt
  <1>3. ASSUME NEW e \in DOMAIN rows, BoardOf(rows, e) \in C PROVE e \in X
    <2>1. PICK b : b = BoardOf(rows, e)
      OBVIOUS
    <2>2. e \in Tree(rows, b)
      <3>1. CASE e \in Boards
        BY <1>1, <2>1, <3>1 DEF BoardOf, Tree
      <3>2. CASE e = List
        BY <1>1, <2>1, <3>2 DEF BoardOf, Tree
      <3>3. CASE e = Item
        <4>1. List \in DOMAIN rows /\ rows[List].board = b
          BY <1>1, <2>1, <3>3 DEF BoardOf
        <4> QED
          BY <4>1, <3>3 DEF Tree
      <3> QED
        BY <3>1, <3>2, <3>3 DEF Entities
    <2> QED
      BY <1>3, <2>1, <2>2
  <1>4. ASSUME NEW e \in X PROVE e \in DOMAIN rows => BoardOf(rows, e) \in C
    <2>1. PICK b \in C : e \in Tree(rows, b)
      BY <1>4
    <2>2. e = b \/ (List \in DOMAIN rows /\ rows[List].board = b /\ e \in {List, Item})
      BY <2>1 DEF Tree
    <2>3. CASE e = b
      BY <1>1, <2>3 DEF BoardOf
    <2>4. CASE List \in DOMAIN rows /\ rows[List].board = b /\ e \in {List, Item}
      BY <1>1, <2>4 DEF BoardOf
    <2> QED
      BY <2>2, <2>3, <2>4
  <1> HIDE DEF X, R
  <1>5. DOMAIN R = {e \in DOMAIN rows : BoardOf(rows, e) \notin C}
    BY <1>2, <1>3, <1>4
  <1>6. ASSUME NEW e \in DOMAIN R PROVE BoardOf(R, e) = BoardOf(rows, e)
    <2>1. CASE e \in Boards
      BY <1>1, <2>1 DEF BoardOf
    <2>2. CASE e = List
      BY <1>1, <1>2, <2>2 DEF BoardOf
    <2>3. CASE e = Item
      <3>1. List \in DOMAIN rows /\ BoardOf(rows, List) = BoardOf(rows, e)
        BY <1>1, <1>2, <2>3 DEF BoardOf
      <3>2. List \in DOMAIN R
        BY <1>5, <2>3, <3>1
      <3> QED
        BY <1>1, <1>2, <2>3, <3>1, <3>2 DEF BoardOf
    <2> QED
      BY <1>2, <2>1, <2>2, <2>3 DEF Entities
  <1> QED
    BY <1>2, <1>5, <1>6 DEF R, X

\* The boards of C go, and the keys of those that servers have are left.
LEMMA HomeRemoved ==
    ASSUME HomeInv, MembersInv', world' = world, now' = now + 1, conn' = conn, was' = was,
           NEW C, C \subseteq Boards,
           DOMAIN dev'.row = {e \in DOMAIN dev.row : Home(e) \notin C},
           \A e \in DOMAIN dev'.row : dev'.row[e] = dev.row[e] /\ BoardOf(dev'.row, e) = Home(e),
           DOMAIN dev'.bind = DOMAIN dev.bind \ C, \A b \in DOMAIN dev'.bind : dev'.bind[b] = dev.bind[b],
           dev'.cursor = dev.cursor, dev'.tomb = dev.tomb,
           DOMAIN dev'.roster \subseteq DOMAIN dev.roster, \A k \in DOMAIN dev'.roster : dev'.roster[k] = dev.roster[k],
           \A t \in world.servers : /\ srv'[t].row = srv[t].row /\ srv'[t].had = srv[t].had
                                    /\ srv'[t].tomb = srv[t].tomb /\ srv'[t].userKeys \subseteq srv[t].userKeys,
           left \subseteq left',
           \A t \in world.servers : \A e \in DOMAIN dev.row \intersect DOMAIN srv[t].row :
              Home(e) \in C => srv[t].row[e].ns \in left',
           pending' # None => pending'.op = "leave" /\ \E k \in ShareKeys : pending'.what = {k},
           LeftKeys'
    PROVE  HomeInv'
  <1>1. \A e \in DOMAIN dev'.row : e \in DOMAIN dev.row /\ Home(e)' = Home(e) /\ KeyOn(e)' = KeyOn(e)
    BY DEF Home, KeyOn
  <1>2. \A k : \A t \in world.servers : Tracked(k, t)' => Tracked(k, t)
    BY DEF Tracked
  <1>3. \A b \in Boards : Home(b) = b
    BY HomeNames DEF Home, BoardOf
  <1>4. \A b \in DOMAIN dev'.row : At(dev'.bind, Home(b)) = At(dev.bind, Home(b))
    BY DEF At
  <1>5. NoOrphans'
    <2>1. ASSUME NEW e \in DOMAIN dev'.row PROVE Home(e) \in Boards \intersect DOMAIN dev'.row
      BY <1>1, <1>3, <2>1 DEF HomeInv, NoOrphans
    <2> QED
      BY <1>1, <2>1 DEF NoOrphans
  <1>6. HomeShape'
    <2>1. \A e \in DOMAIN dev'.row : dev'.row[e].ts \in 1..now' /\ dev'.row[e].key \in ShareKeys \union {NoKey}
      BY HomeNames DEF HomeInv, HomeShape
    <2>2. DOMAIN dev'.cursor = Keys \union {NoKey} /\ \A k \in DOMAIN dev'.cursor : dev'.cursor[k] \in 0..now'
      BY HomeNames DEF HomeInv, HomeShape
    <2>3. \A b \in DOMAIN dev'.bind : b \in Boards \intersect DOMAIN dev'.row /\ dev'.bind[b] \in world.servers
      BY <1>3 DEF HomeInv, HomeShape
    <2>4. \A k \in DOMAIN dev'.roster : k \in ShareKeys /\ dev'.roster[k] \in world.servers
      BY DEF HomeInv, HomeShape
    <2>5. \A s \in world.servers :
          /\ srv'[s].userKeys \subseteq ShareKeys /\ DOMAIN srv'[s].tomb = {}
          /\ \A e \in srv'[s].had : \E x \in was : x[1] = e
      BY DEF HomeInv, HomeShape
    <2>6. \A s \in DOMAIN conn : conn[s].keys \subseteq {s} \union ShareKeys
      BY DEF HomeInv, HomeShape
    <2>7. DOMAIN dev'.tomb = {}
      BY DEF HomeInv, HomeShape
    <2> QED
      BY <2>1, <2>2, <2>3, <2>4, <2>5, <2>6, <2>7 DEF HomeShape
  <1>7. Bound'
    <2>1. ASSUME DOMAIN conn # {}, NEW b \in Boards \intersect DOMAIN dev'.row PROVE b \in DOMAIN dev'.bind
      BY <1>3, <2>1 DEF HomeInv, Bound
    <2> QED
      BY <2>1 DEF Bound
  <1>8. AtHome'
    <2>1. ASSUME NEW t \in world.servers, NEW e \in DOMAIN dev'.row \intersect srv'[t].had
          PROVE  At(dev'.bind, Home(e)) = t
      BY <1>1, <1>4 DEF HomeInv, AtHome
    <2> QED
      BY <1>1, <2>1 DEF AtHome
  <1>9. OwnKeys'
    BY <1>1 DEF HomeInv, OwnKeys
  <1>10. KeysAtHome'
    <2>1. ASSUME NEW t \in world.servers, NEW k \in ShareKeys, Tracked(k, t)'
          PROVE  /\ dev'.cursor[k] > 0
                 /\ \A b \in DOMAIN dev'.row : KeyOn(b)' = k => At(dev'.bind, b) = t
                 /\ \A u \in world.servers : Tracked(k, u)' => u = t
      <3>1. Tracked(k, t)
        BY <1>2, <2>1
      <3>2. /\ dev.cursor[k] > 0
            /\ \A b \in DOMAIN dev.row : KeyOn(b) = k => At(dev.bind, b) = t
            /\ \A u \in world.servers : Tracked(k, u) => u = t
        BY <3>1 DEF HomeInv, KeysAtHome
      <3>3. ASSUME NEW b \in DOMAIN dev'.row, KeyOn(b)' = k PROVE At(dev'.bind, b) = t
        <4>1. KeyOn(b) = k /\ b \in DOMAIN dev.row
          BY <1>1, <3>3
        <4>2. b \in Boards
          <5>1. k # NoKey
            BY HomeNames
          <5>2. RowsOK(dev.row)
            BY DEF HomeInv, MembersInv, SharingShape
          <5> QED
            BY <4>1, <5>1, <5>2 DEF RowsOK, KeysOfBoardsOnly, KeyOn
        <4> QED
          BY <1>3, <1>4, <3>2, <4>1, <4>2
      <3> QED
        BY <1>2, <3>2, <3>3
    <2> QED
      BY <2>1 DEF KeysAtHome
  <1>11. Behind'
    <2>1. ASSUME NEW t \in world.servers, NEW e \in DOMAIN srv'[t].row
          PROVE  IF e \in DOMAIN dev'.row THEN srv'[t].row[e].ts <= dev'.row[e].ts ELSE srv'[t].row[e].ns \in left'
      <3>1. srv'[t].row = srv[t].row
        OBVIOUS
      <3>2. IF e \in DOMAIN dev.row THEN srv[t].row[e].ts <= dev.row[e].ts ELSE srv[t].row[e].ns \in left
        BY <3>1 DEF HomeInv, Behind
      <3>3. CASE e \in DOMAIN dev'.row
        BY <3>1, <3>2, <3>3
      <3>4. CASE e \notin DOMAIN dev'.row
        BY <3>1, <3>2, <3>4
      <3> QED
        BY <3>3, <3>4
    <2> QED
      BY <2>1 DEF Behind
  <1>12. UnderKey'
    <2>1. ASSUME NEW t \in world.servers, NEW e \in DOMAIN dev'.row \intersect DOMAIN srv'[t].row,
                 HomeKey(e)' # NoKey, dev'.cursor[HomeKey(e)'] > 0
          PROVE  srv'[t].row[e].ns = HomeKey(e)'
      <3>1. Home(e)' = Home(e) /\ Home(e) \in DOMAIN dev'.row
        BY <1>1, <1>5 DEF NoOrphans
      <3>2. HomeKey(e)' = HomeKey(e)
        BY <3>1 DEF HomeKey, KeyOn
      <3> QED
        BY <2>1, <3>2 DEF HomeInv, UnderKey
    <2> QED
      BY <2>1 DEF UnderKey
  <1>13. Spared(world)' /\ ~Single(world.servers)'
    BY DEF HomeInv, Spared, Single
  <1> QED
    BY <1>5, <1>6, <1>7, <1>8, <1>9, <1>10, <1>11, <1>12, <1>13 DEF HomeInv

BoardsOf(k) == {b \in Boards \intersect DOMAIN dev.row : dev.row[b].key = k}

LEMMA KeyRemovedHome ==
    ASSUME HomeInv, NEW k \in ShareKeys
    PROVE  LET D == KeyRemoved(k) IN
           /\ DOMAIN D.row = {e \in DOMAIN dev.row : Home(e) \notin BoardsOf(k)}
           /\ \A e \in DOMAIN D.row : D.row[e] = dev.row[e] /\ BoardOf(D.row, e) = Home(e)
           /\ DOMAIN D.bind = DOMAIN dev.bind \ BoardsOf(k) /\ \A b \in DOMAIN D.bind : D.bind[b] = dev.bind[b]
           /\ D.cursor = dev.cursor /\ D.tomb = dev.tomb
           /\ DOMAIN D.roster = DOMAIN dev.roster \ {k} /\ \A j \in DOMAIN D.roster : D.roster[j] = dev.roster[j]
           /\ \A e \in DOMAIN D.row : D.row[e].key # k
  <1> DEFINE R == Without(dev.row, UNION {Tree(dev.row, b) : b \in BoardsOf(k)})
             D == KeyRemoved(k)
  <1>1. D = [dev EXCEPT !.row = R, !.roster = Without(dev.roster, {k}), !.bind = Without(dev.bind, BoardsOf(k))]
    BY Zenon DEF KeyRemoved, BoardsOf
  <1>2. BoardsOf(k) \subseteq Boards
    BY DEF BoardsOf
  <1>3. \A e \in DOMAIN dev.row : BoardOf(dev.row, e) \in Boards \intersect DOMAIN dev.row
    BY DEF HomeInv, NoOrphans, Home
  <1>4. /\ DOMAIN R = {e \in DOMAIN dev.row : BoardOf(dev.row, e) \notin BoardsOf(k)}
        /\ \A e \in DOMAIN R : R[e] = dev.row[e] /\ BoardOf(R, e) = BoardOf(dev.row, e)
    BY <1>2, <1>3, HomeNames, TreesGone
  <1> HIDE DEF R, D
  <1>5. /\ D.row = R /\ D.roster = Without(dev.roster, {k}) /\ D.bind = Without(dev.bind, BoardsOf(k))
        /\ D.cursor = dev.cursor /\ D.tomb = dev.tomb
    BY <1>1 DEF HomeInv, MembersInv, SharingShape
  <1>6. DOMAIN D.bind = DOMAIN dev.bind \ BoardsOf(k) /\ \A b \in DOMAIN D.bind : D.bind[b] = dev.bind[b]
    <2>1. PICK B : B = dev.bind
      OBVIOUS
    <2>2. /\ DOMAIN Without(B, BoardsOf(k)) = DOMAIN B \ BoardsOf(k)
          /\ \A b \in DOMAIN B \ BoardsOf(k) : Without(B, BoardsOf(k))[b] = B[b]
      BY WithoutAt
    <2> QED
      BY <1>5, <2>1, <2>2
  <1>7. DOMAIN D.roster = DOMAIN dev.roster \ {k} /\ \A j \in DOMAIN D.roster : D.roster[j] = dev.roster[j]
    <2>1. PICK B : B = dev.roster
      OBVIOUS
    <2>2. DOMAIN Without(B, {k}) = DOMAIN B \ {k} /\ \A j \in DOMAIN B \ {k} : Without(B, {k})[j] = B[j]
      BY WithoutAt
    <2> QED
      BY <1>5, <2>1, <2>2
  <1>8. ASSUME NEW e \in DOMAIN D.row PROVE D.row[e].key # k
    <2>1. D.row[e] = dev.row[e] /\ BoardOf(dev.row, e) \notin BoardsOf(k) /\ e \in DOMAIN dev.row
      BY <1>4, <1>5
    <2>2. CASE e \in Boards
      <3>1. BoardOf(dev.row, e) = e
        BY <2>2, HomeNames DEF BoardOf
      <3> QED
        BY <2>1, <2>2, <3>1 DEF BoardsOf
    <2>3. CASE e \notin Boards
      <3>1. dev.row[e].key = NoKey
        BY <2>1, <2>3 DEF HomeInv, MembersInv, SharingShape, RowsOK, KeysOfBoardsOnly
      <3> QED
        BY <2>1, <3>1, HomeNames
    <2> QED
      BY <2>2, <2>3
  <1> QED
    BY <1>4, <1>5, <1>6, <1>7, <1>8 DEF D, Home

LEMMA HomeLeaveKey ==
    ASSUME HomeInv, MembersInv', NEW k \in ShareKeys, LeaveKey(k)
    PROVE  HomeInv'
  <1>1. /\ world' = world /\ now' = now + 1 /\ conn' = conn /\ was' = was /\ srv' = srv
        /\ pending = None /\ pending' = [op |-> "leave", what |-> {k}] /\ left' = left \union {k}
        /\ dev' = KeyRemoved(k)
    BY DEF LeaveKey, User
  <1>2. /\ dev.cursor[k] > 0
        /\ \A s \in world.servers : k \in srv[s].userKeys => s \in DOMAIN conn /\ k \in conn[s].keys
    BY DEF LeaveKey, HomeInv, Spared
  <1>3. /\ DOMAIN dev'.row = {e \in DOMAIN dev.row : Home(e) \notin BoardsOf(k)}
        /\ \A e \in DOMAIN dev'.row : dev'.row[e] = dev.row[e] /\ BoardOf(dev'.row, e) = Home(e)
        /\ DOMAIN dev'.bind = DOMAIN dev.bind \ BoardsOf(k) /\ \A b \in DOMAIN dev'.bind : dev'.bind[b] = dev.bind[b]
        /\ dev'.cursor = dev.cursor /\ dev'.tomb = dev.tomb
        /\ DOMAIN dev'.roster = DOMAIN dev.roster \ {k} /\ \A j \in DOMAIN dev'.roster : dev'.roster[j] = dev.roster[j]
        /\ \A e \in DOMAIN dev'.row : dev'.row[e].key # k
    BY <1>1, KeyRemovedHome
  <1>4. ASSUME NEW t \in world.servers, NEW e \in DOMAIN dev.row \intersect DOMAIN srv[t].row, Home(e) \in BoardsOf(k)
        PROVE  srv[t].row[e].ns \in left'
    <2>1. HomeKey(e) = k
      BY <1>4 DEF BoardsOf, HomeKey, KeyOn
    <2>2. k # NoKey
      BY HomeNames
    <2> QED
      BY <1>1, <1>2, <2>1, <2>2 DEF HomeInv, UnderKey
  <1>5. LeftKeys'
    <2>1. ASSUME NEW j \in left'
          PROVE  /\ j \in ShareKeys /\ dev'.cursor[j] > 0
                 /\ j \notin DOMAIN dev'.roster /\ \A e \in DOMAIN dev'.row : dev'.row[e].key # j
                 /\ \A s \in world.servers : j \in srv[s].userKeys =>
                       pending' # None /\ pending'.what = {j} /\ s \in DOMAIN conn /\ j \in conn[s].keys
      <3>1. CASE j = k
        <4>1. pending'.what = {j} /\ pending' # None
          <5>1. pending'.op = "leave" /\ pending'.what = {j}
            BY <1>1, <3>1
          <5>2. pending' # None
            BY <1>1, SharingAssumption
          <5> QED
            BY <5>1, <5>2
        <4> QED
          BY <1>2, <1>3, <3>1, <4>1
      <3>2. CASE j \in left /\ j # k
        BY <1>1, <1>3, <3>2 DEF HomeInv, LeftKeys, KeyOn
      <3> QED
        BY <1>1, <3>1, <3>2
    <2> QED
      BY <1>1, <2>1 DEF LeftKeys, KeyOn
  <1>6. BoardsOf(k) \subseteq Boards
    BY DEF BoardsOf
  <1>7. \A t \in world.servers : /\ srv'[t].row = srv[t].row /\ srv'[t].had = srv[t].had
                                    /\ srv'[t].tomb = srv[t].tomb /\ srv'[t].userKeys \subseteq srv[t].userKeys
    BY <1>1
  <1>8. pending' # None => pending'.op = "leave" /\ \E j \in ShareKeys : pending'.what = {j}
    BY <1>1
  <1>9. left \subseteq left' /\ DOMAIN dev'.roster \subseteq DOMAIN dev.roster
    BY <1>1, <1>3
  <1> QED
    BY <1>1, <1>3, <1>4, <1>5, <1>6, <1>7, <1>8, <1>9, HomeRemoved

LEMMA HomeSiblingLeaves ==
    ASSUME HomeInv, MembersInv', NEW s \in world.servers, NEW k \in ShareKeys, SiblingLeaves(s, k)
    PROVE  HomeInv'
  <1>1. /\ world' = world /\ now' = now + 1 /\ conn' = conn /\ was' = was
        /\ pending = None /\ pending' = pending /\ left' = left \union {k} /\ k \in srv[s].userKeys
        /\ srv' = [srv EXCEPT ![s].userKeys = srv[s].userKeys \ {k}]
        /\ dev' = KeyRemoved(k)
    BY DEF SiblingLeaves, User, HomeInv, Spared
  <1>2. /\ DOMAIN dev'.row = {e \in DOMAIN dev.row : Home(e) \notin BoardsOf(k)}
        /\ \A e \in DOMAIN dev'.row : dev'.row[e] = dev.row[e] /\ BoardOf(dev'.row, e) = Home(e)
        /\ DOMAIN dev'.bind = DOMAIN dev.bind \ BoardsOf(k) /\ \A b \in DOMAIN dev'.bind : dev'.bind[b] = dev.bind[b]
        /\ dev'.cursor = dev.cursor /\ dev'.tomb = dev.tomb
        /\ DOMAIN dev'.roster = DOMAIN dev.roster \ {k} /\ \A j \in DOMAIN dev'.roster : dev'.roster[j] = dev.roster[j]
        /\ \A e \in DOMAIN dev'.row : dev'.row[e].key # k
    BY <1>1, KeyRemovedHome
  <1>3. Tracked(k, s)
    BY <1>1 DEF Tracked
  <1>4. dev.cursor[k] > 0 /\ \A u \in world.servers : k \in srv[u].userKeys => u = s
    BY <1>3 DEF HomeInv, KeysAtHome, Tracked
  <1>5. ASSUME NEW t \in world.servers
        PROVE  /\ srv'[t].row = srv[t].row /\ srv'[t].had = srv[t].had
               /\ srv'[t].tomb = srv[t].tomb /\ srv'[t].userKeys = srv[t].userKeys \ (IF t = s THEN {k} ELSE {})
    <2>1. DOMAIN srv[t] = {"row", "tomb", "userKeys", "had", "shown"}
      BY HomeNames DEF ServerOK
    <2>2. t \in DOMAIN srv
      BY HomeNames DEF HomeInv, MembersInv, SharingShape
    <2>3. CASE t = s
      BY <1>1, <2>1, <2>2, <2>3
    <2>4. CASE t # s
      BY <1>1, <2>2, <2>4
    <2> QED
      BY <2>3, <2>4
  <1>6. ASSUME NEW t \in world.servers, NEW e \in DOMAIN dev.row \intersect DOMAIN srv[t].row, Home(e) \in BoardsOf(k)
        PROVE  srv[t].row[e].ns \in left'
    <2>1. HomeKey(e) = k
      BY <1>6 DEF BoardsOf, HomeKey, KeyOn
    <2>2. k # NoKey
      BY HomeNames
    <2> QED
      BY <1>1, <1>4, <2>1, <2>2 DEF HomeInv, UnderKey
  <1>7. LeftKeys'
    <2>1. ASSUME NEW j \in left'
          PROVE  /\ j \in ShareKeys /\ dev'.cursor[j] > 0
                 /\ j \notin DOMAIN dev'.roster /\ \A e \in DOMAIN dev'.row : dev'.row[e].key # j
                 /\ \A t \in world.servers : j \notin srv'[t].userKeys
      <3>1. CASE j = k
        BY <1>2, <1>4, <1>5, <3>1
      <3>2. CASE j \in left /\ j # k
        BY <1>1, <1>2, <1>5, <3>2 DEF HomeInv, LeftKeys, KeyOn
      <3> QED
        BY <1>1, <3>1, <3>2
    <2> QED
      BY <1>1, <2>1 DEF LeftKeys, KeyOn
  <1>8. BoardsOf(k) \subseteq Boards
    BY DEF BoardsOf
  <1>9. left \subseteq left' /\ DOMAIN dev'.roster \subseteq DOMAIN dev.roster /\ pending' = None
    BY <1>1, <1>2
  <1>10. \A t \in world.servers : /\ srv'[t].row = srv[t].row /\ srv'[t].had = srv[t].had
                                    /\ srv'[t].tomb = srv[t].tomb /\ srv'[t].userKeys \subseteq srv[t].userKeys
    BY <1>5
  <1> QED
    BY <1>1, <1>2, <1>6, <1>7, <1>8, <1>9, <1>10, HomeRemoved

LEMMA HomeDiscard ==
    ASSUME HomeInv, MembersInv', Discard
    PROVE  HomeInv'
  <1> DEFINE C == {b \in Boards \intersect DOMAIN dev.row : dev.row[b].key = NoKey /\ At(dev.bind, b) = None}
             R == Without(dev.row, UNION {Tree(dev.row, b) : b \in C})
  <1>1. /\ world' = world /\ now' = now + 1 /\ conn' = conn /\ was' = was /\ srv' = srv
        /\ pending = None /\ pending' = pending /\ left' = left
        /\ dev' = [dev EXCEPT !.row = R]
    BY DEF Discard, User
  <1>2. C \subseteq Boards /\ \A b \in C : At(dev.bind, b) = None
    OBVIOUS
  <1> HIDE DEF C
  <1>3. \A e \in DOMAIN dev.row : BoardOf(dev.row, e) \in Boards \intersect DOMAIN dev.row
    BY DEF HomeInv, NoOrphans, Home
  <1>4. /\ DOMAIN R = {e \in DOMAIN dev.row : BoardOf(dev.row, e) \notin C}
        /\ \A e \in DOMAIN R : R[e] = dev.row[e] /\ BoardOf(R, e) = BoardOf(dev.row, e)
    BY <1>2, <1>3, HomeNames, TreesGone
  <1> HIDE DEF R
  <1>5. /\ dev'.row = R /\ dev'.roster = dev.roster /\ dev'.bind = dev.bind
        /\ dev'.cursor = dev.cursor /\ dev'.tomb = dev.tomb
    BY <1>1 DEF HomeInv, MembersInv, SharingShape
  <1>6. DOMAIN dev.bind = DOMAIN dev.bind \ C
    BY <1>2, HomeNames DEF At, HomeInv, HomeShape
  <1>7. ASSUME NEW t \in world.servers, NEW e \in DOMAIN dev.row \intersect DOMAIN srv[t].row, Home(e) \in C
        PROVE  srv[t].row[e].ns \in left'
    <2>1. At(dev.bind, Home(e)) = t
      BY HomeNames DEF HomeInv, AtHome
    <2> QED
      BY <1>2, <1>7, <2>1, HomeNames
  <1>8. LeftKeys'
    BY <1>1, <1>4, <1>5 DEF HomeInv, LeftKeys, KeyOn
  <1>9. DOMAIN dev'.row = {e \in DOMAIN dev.row : Home(e) \notin C}
        /\ \A e \in DOMAIN dev'.row : dev'.row[e] = dev.row[e] /\ BoardOf(dev'.row, e) = Home(e)
    BY <1>4, <1>5 DEF Home
  <1>10. \A t \in world.servers : /\ srv'[t].row = srv[t].row /\ srv'[t].had = srv[t].had
                                    /\ srv'[t].tomb = srv[t].tomb /\ srv'[t].userKeys \subseteq srv[t].userKeys
    BY <1>1
  <1>11. /\ DOMAIN dev'.bind = DOMAIN dev.bind \ C /\ \A b \in DOMAIN dev'.bind : dev'.bind[b] = dev.bind[b]
         /\ DOMAIN dev'.roster \subseteq DOMAIN dev.roster /\ \A k \in DOMAIN dev'.roster : dev'.roster[k] = dev.roster[k]
         /\ left \subseteq left' /\ pending' = None
    BY <1>1, <1>5, <1>6
  <1> QED
    BY <1>1, <1>2, <1>5, <1>7, <1>8, <1>9, <1>10, <1>11, HomeRemoved

\* Where there are no tombstones every row is stored under its key.
LEMMA UpsertLands ==
    ASSUME NEW S, ServerOK(S), DOMAIN S.tomb = {}, NEW rows, NEW ns
    PROVE  LET U == Upsert(S, rows, ns) IN
           /\ U.tomb = S.tomb /\ U.userKeys = S.userKeys
           /\ DOMAIN U.row = DOMAIN S.row \union DOMAIN rows /\ U.had \subseteq S.had \union DOMAIN rows
           /\ \A e \in DOMAIN S.row \ DOMAIN rows : U.row[e] = S.row[e]
           /\ \A e \in DOMAIN rows : /\ U.row[e].ns = ns[e]
                                     /\ \/ U.row[e].ts = rows[e].ts
                                        \/ e \in DOMAIN S.row /\ U.row[e].ts = S.row[e].ts
  <1> DEFINE stale == {e \in DOMAIN rows \intersect DOMAIN S.row : S.row[e].ts >= rows[e].ts}
             dead == {e \in DOMAIN rows \intersect DOMAIN S.tomb : S.tomb[e].at >= rows[e].ts}
             taken == {e \in stale : S.row[e].ns # ns[e]} \union (DOMAIN rows \ (stale \union dead))
             stored(e) == IF e \in stale THEN [S.row[e] EXCEPT !.ns = ns[e]]
                          ELSE [ts |-> rows[e].ts, key |-> rows[e].key, board |-> rows[e].board, ns |-> ns[e]]
             new == [e \in taken |-> stored(e)]
             shown == [k \in Keys |-> S.shown[k] \union {e \in taken : ns[e] = k}]
             U == Upsert(S, rows, ns)
  <1>1. U = [S EXCEPT !.row = Over(new, S.row), !.had = S.had \union taken, !.shown = shown]
    BY Zenon DEF Upsert
  <1>2. DOMAIN S = {"row", "tomb", "userKeys", "had", "shown"} /\ DOMAIN S.row \subseteq S.had
    BY DEF ServerOK
  <1>3. taken \subseteq DOMAIN rows
    OBVIOUS
  <1>4. \A e \in DOMAIN rows \ taken : e \in DOMAIN S.row /\ S.row[e].ns = ns[e]
    OBVIOUS
  <1>5. DOMAIN new = taken /\ \A e \in taken : new[e] = stored(e)
    BY Zenon
  <1>6. ASSUME NEW e \in taken
        PROVE  /\ stored(e).ns = ns[e]
               /\ stored(e).ts = rows[e].ts \/ (e \in DOMAIN S.row /\ stored(e).ts = S.row[e].ts)
    <2>1. CASE e \in stale
      <3>1. stored(e) = [S.row[e] EXCEPT !.ns = ns[e]] /\ e \in DOMAIN S.row
        BY <2>1
      <3>2. DOMAIN S.row[e] = {"ts", "key", "board", "ns"}
        BY <3>1 DEF ServerOK
      <3> HIDE DEF stored, taken
      <3> QED
        BY <3>1, <3>2
    <2>2. CASE e \notin stale
      <3>1. stored(e) = [ts |-> rows[e].ts, key |-> rows[e].key, board |-> rows[e].board, ns |-> ns[e]]
        BY <2>2
      <3> HIDE DEF stored, taken
      <3> QED
        BY <3>1
    <2> QED
      BY <2>1, <2>2
  <1> HIDE DEF new, taken, shown, U, stale, dead, stored
  <1>7. /\ U.tomb = S.tomb /\ U.userKeys = S.userKeys
        /\ U.row = Over(new, S.row) /\ U.had = S.had \union taken
    BY <1>1, <1>2
  <1>8. /\ DOMAIN Over(new, S.row) = DOMAIN new \union DOMAIN S.row
        /\ \A x \in DOMAIN new : Over(new, S.row)[x] = new[x]
        /\ \A x \in DOMAIN S.row \ DOMAIN new : Over(new, S.row)[x] = S.row[x]
    BY OverAt
  <1>9. /\ DOMAIN U.row = taken \union DOMAIN S.row
        /\ \A e \in taken : U.row[e] = stored(e)
        /\ \A e \in DOMAIN S.row \ taken : U.row[e] = S.row[e]
    BY <1>5, <1>7, <1>8
  <1>10. DOMAIN U.row = DOMAIN S.row \union DOMAIN rows /\ U.had \subseteq S.had \union DOMAIN rows
    BY <1>3, <1>4, <1>7, <1>9
  <1>11. \A e \in DOMAIN S.row \ DOMAIN rows : U.row[e] = S.row[e]
    BY <1>3, <1>9
  <1>12. ASSUME NEW e \in DOMAIN rows
         PROVE  /\ U.row[e].ns = ns[e]
                /\ U.row[e].ts = rows[e].ts \/ (e \in DOMAIN S.row /\ U.row[e].ts = S.row[e].ts)
    <2>1. CASE e \in taken
      BY <1>6, <1>9, <2>1
    <2>2. CASE e \notin taken
      BY <1>4, <1>9, <2>2
    <2> QED
      BY <2>1, <2>2
  <1> QED
    BY <1>7, <1>10, <1>11, <1>12 DEF U

\* What a push does in the world of HomeInv, with caches that are up to date.
LEMMA PushedHome ==
    ASSUME HomeInv, UpToDate, NEW e \in Entities, NEW r, e \notin Boards => r.key = NoKey,
           NEW rows, rows = Over(Only(e, r), dev.row), NEW m, m = Noted(mem, e, r) \/ (e \in Boards /\ m = mem),
           NEW P, P = PushTo(conn, srv, m, e, r), NEW t \in world.servers
    PROVE  \/ P[t] = srv[t]
           \/ /\ t \in DOMAIN conn /\ At(dev.bind, BoardOf(rows, e)) \in {None, t}
              /\ P[t] = Upsert(srv[t], Only(e, r), Only(e, KeyOf(rows, BoardOf(rows, e), t)))
  <1>1. \/ P[t] = srv[t]
        \/ /\ t \in DOMAIN conn
           /\ Reaches(At(m.bind, BoardIdOf(m, e)), t, conn[t].keys, PushKey(m, e, r, t))
           /\ P[t] = Upsert(srv[t], Only(e, r), Only(e, PushKey(m, e, r, t)))
    <2>1. \A s \in Servers :
              \/ PushTo(conn, srv, m, e, r)[s] = srv[s]
              \/ /\ s \in DOMAIN conn
                 /\ Reaches(At(m.bind, BoardIdOf(m, e)), s, conn[s].keys, PushKey(m, e, r, s))
                 /\ PushTo(conn, srv, m, e, r)[s] = Upsert(srv[s], Only(e, r), Only(e, PushKey(m, e, r, s)))
      BY PushToIs
    <2> QED
      BY <2>1, HomeNames
  <1>2. SharingShape
    BY DEF HomeInv, MembersInv
  <1>3. PushKey(m, e, r, t) = KeyOf(rows, BoardOf(rows, e), t)
    <2>1. PushKey(Noted(mem, e, r), e, r, t) = KeyOf(rows, BoardOf(rows, e), t)
      BY <1>2, PushKeyIs
    <2>2. e \in Boards => PushKey(mem, e, r, t) = PushKey(Noted(mem, e, r), e, r, t)
      BY DEF PushKey
    <2> QED
      BY <2>1, <2>2
  <1>4. m.bind = dev.bind
    <2>1. mem.bind = dev.bind
      BY <1>2, FreshIs
    <2> QED
      BY <1>2, <2>1 DEF Noted, SharingShape
  <1>5. BoardIdOf(m, e) = BoardOf(rows, e)
    <2>1. DOMAIN rows = {e} \union DOMAIN dev.row /\ rows[e] = r /\ \A x \in DOMAIN dev.row \ {e} : rows[x] = dev.row[x]
      <3>1. PICK w : w = dev.row
        OBVIOUS
      <3>2. /\ DOMAIN Over(Only(e, r), w) = {e} \union DOMAIN w
            /\ Over(Only(e, r), w)[e] = r
            /\ \A x \in DOMAIN w \ {e} : Over(Only(e, r), w)[x] = w[x]
        BY DEF Over, Only
      <3> QED
        BY <3>1, <3>2
    <2>2. CASE e \in Boards
      BY <2>2, HomeNames DEF BoardIdOf, BoardOf
    <2>3. CASE e \notin Boards
      <3>1. m.listBoard = (IF e = List THEN r.board ELSE mem.listBoard) /\ m.item = (mem.item \/ e = Item)
        BY <1>2, <2>3 DEF Noted, SharingShape
      <3>2. mem.listBoard = IF List \in DOMAIN dev.row THEN dev.row[List].board ELSE None
        BY <1>2, FreshIs
      <3>3. CASE e = List
        BY <2>1, <3>1, <3>3, HomeNames DEF BoardIdOf, BoardOf
      <3>4. CASE e = Item
        <4>1. BoardIdOf(m, e) = mem.listBoard
          BY <3>1, <3>4, HomeNames DEF BoardIdOf
        <4>2. BoardOf(rows, e) = mem.listBoard
          BY <2>1, <3>2, <3>4, HomeNames DEF BoardOf
        <4> QED
          BY <4>1, <4>2
      <3> QED
        BY <2>3, <3>3, <3>4 DEF Entities
    <2> QED
      BY <2>2, <2>3
  <1> QED
    BY <1>1, <1>3, <1>4, <1>5 DEF Reaches

\* The servers after row r of entity e was pushed under its key to that of its
\* board.
PushedTo(e, r, t) ==
    \/ srv'[t] = srv[t]
    \/ /\ At(dev'.bind, BoardOf(dev'.row, e)) = t
       /\ srv'[t] = Upsert(srv[t], Only(e, r), Only(e, KeyOf(dev'.row, BoardOf(dev'.row, e), t)))

\* A key that a board may take: none, its own, or one that was never used.
MayHave(e, k) ==
    \/ k = NoKey
    \/ e \in DOMAIN dev.row /\ k = KeyOn(e)
    \/ k \in ShareKeys /\ Unused(k)

\* Row r of entity e is written, and pushed.  The others stay on their boards,
\* or go to one of the same server without a key.
LEMMA HomeWritten ==
    ASSUME HomeInv, MembersInv', world' = world, now' = now + 1, conn' = conn, pending = None, pending' = None,
           left' = left, was \subseteq was',
           NEW e \in Entities, NEW r, r.ts = now + 1, MayHave(e, r.key),
           DOMAIN dev'.row = {e} \union DOMAIN dev.row, dev'.row[e] = r,
           \A x \in DOMAIN dev.row \ {e} : dev'.row[x] = dev.row[x],
           e \notin DOMAIN dev.row => \A x \in was : x[1] # e,
           \A x \in DOMAIN dev'.row : BoardOf(dev'.row, x) \in Boards \intersect DOMAIN dev'.row,
           \A x \in DOMAIN dev.row :
              \/ BoardOf(dev'.row, x) = Home(x)
              \/ /\ At(dev.bind, BoardOf(dev'.row, x)) = At(dev.bind, Home(x))
                 /\ BoardOf(dev'.row, x) \in DOMAIN dev.row
                 /\ dev'.row[BoardOf(dev'.row, x)].key = NoKey,
           dev'.cursor = dev.cursor, dev'.tomb = dev.tomb, dev'.roster = dev.roster,
           \A b \in DOMAIN dev.bind : b \in DOMAIN dev'.bind /\ dev'.bind[b] = dev.bind[b],
           \A b \in DOMAIN dev'.bind \ DOMAIN dev.bind :
              b = e /\ e \in Boards /\ e \notin DOMAIN dev.row /\ dev'.bind[b] \in world.servers,
           DOMAIN conn # {} /\ e \in Boards /\ e \notin DOMAIN dev.row => e \in DOMAIN dev'.bind,
           \A t \in world.servers : PushedTo(e, r, t)
    PROVE  HomeInv'
  <1> DEFINE B(x) == BoardOf(dev'.row, x)
             K(x) == dev'.row[B(x)].key
  <1>1. ASSUME NEW t \in world.servers
        PROVE  /\ srv'[t].userKeys = srv[t].userKeys /\ srv'[t].tomb = srv[t].tomb
               /\ \A x \in DOMAIN srv'[t].row \ {e} : x \in DOMAIN srv[t].row /\ srv'[t].row[x] = srv[t].row[x]
               /\ srv'[t].had \subseteq srv[t].had \union {e}
               /\ e \in srv'[t].had => e \in srv[t].had \/ At(dev'.bind, B(e)) = t
               /\ e \in DOMAIN srv'[t].row =>
                     \/ e \in DOMAIN srv[t].row /\ srv'[t].row[e] = srv[t].row[e]
                     \/ /\ srv'[t].row[e].ns = KeyOf(dev'.row, B(e), t)
                        /\ \/ srv'[t].row[e].ts = now + 1
                           \/ e \in DOMAIN srv[t].row /\ srv'[t].row[e].ts = srv[t].row[e].ts
    <2>1. CASE srv'[t] = srv[t]
      BY <2>1
    <2>2. CASE /\ At(dev'.bind, BoardOf(dev'.row, e)) = t
               /\ srv'[t] = Upsert(srv[t], Only(e, r), Only(e, KeyOf(dev'.row, BoardOf(dev'.row, e), t)))
      <3>1. PICK rows, ns : rows = Only(e, r) /\ ns = Only(e, KeyOf(dev'.row, B(e), t))
        OBVIOUS
      <3>2. DOMAIN rows = {e} /\ rows[e] = r /\ ns[e] = KeyOf(dev'.row, B(e), t)
        BY <3>1 DEF Only
      <3>3. PICK S, U : S = srv[t] /\ U = Upsert(S, rows, ns)
        OBVIOUS
      <3>4. ServerOK(S) /\ DOMAIN S.tomb = {}
        BY <3>3, HomeNames DEF HomeInv, HomeShape
      <3>5. /\ U.tomb = S.tomb /\ U.userKeys = S.userKeys
            /\ DOMAIN U.row = DOMAIN S.row \union DOMAIN rows /\ U.had \subseteq S.had \union DOMAIN rows
            /\ \A x \in DOMAIN S.row \ DOMAIN rows : U.row[x] = S.row[x]
            /\ \A x \in DOMAIN rows : /\ U.row[x].ns = ns[x]
                                      /\ \/ U.row[x].ts = rows[x].ts
                                         \/ x \in DOMAIN S.row /\ U.row[x].ts = S.row[x].ts
        BY <3>3, <3>4, UpsertLands
      <3>6. srv'[t] = U
        BY <2>2, <3>1, <3>3
      <3> HIDE DEF B
      <3> QED
        BY <2>2, <3>2, <3>3, <3>5, <3>6 DEF B
    <2> QED
      BY <2>1, <2>2 DEF PushedTo
  <1>2. \A x \in DOMAIN dev'.row : B(x) \in Boards \intersect DOMAIN dev'.row
    OBVIOUS
  <1>3. \A x \in DOMAIN dev.row : B(x) = Home(x)
              \/ (At(dev.bind, B(x)) = At(dev.bind, Home(x)) /\ B(x) \in DOMAIN dev.row /\ K(x) = NoKey)
    OBVIOUS
  <1>4. \A x : Home(x)' = B(x) /\ HomeKey(x)' = K(x) /\ KeyOn(x)' = dev'.row[x].key
    BY DEF Home, HomeKey, KeyOn
  <1> HIDE DEF B, K
  <1>5. \A x \in DOMAIN dev.row : Home(x) \in Boards \intersect DOMAIN dev.row
    BY DEF HomeInv, NoOrphans
  <1>6. \A x : K(x) = dev'.row[B(x)].key /\ HomeKey(x) = dev.row[Home(x)].key
    BY DEF K, HomeKey, KeyOn
  <1>7. \A t \in world.servers : e \in srv[t].had => e \in DOMAIN dev.row
    BY DEF HomeInv, HomeShape
  <1>8. \A x \in DOMAIN dev.row : At(dev'.bind, x) = At(dev.bind, x)
    BY DEF At
  <1>9. \A x \in DOMAIN dev.row : B(x) \in DOMAIN dev.row /\ At(dev'.bind, B(x)) = At(dev.bind, Home(x))
    BY <1>3, <1>5, <1>8
  <1>10. NoOrphans'
    BY <1>2, <1>4 DEF NoOrphans
  <1>11. r.key \in ShareKeys \union {NoKey}
    BY DEF MayHave, KeyOn, HomeInv, HomeShape
  <1>12. r.key # NoKey /\ (e \in DOMAIN dev.row => r.key # KeyOn(e)) => r.key \in ShareKeys /\ Unused(r.key)
    BY DEF MayHave
  <1>13. \E s : s \in world.servers
    BY DEF HomeInv, Single
  <1>14. HomeShape'
    <2>1. \A x \in DOMAIN dev'.row : dev'.row[x].ts \in 1..now' /\ dev'.row[x].key \in ShareKeys \union {NoKey}
      BY <1>11, HomeNames DEF HomeInv, HomeShape
    <2>2. DOMAIN dev'.cursor = Keys \union {NoKey} /\ \A k \in DOMAIN dev'.cursor : dev'.cursor[k] \in 0..now'
      BY HomeNames DEF HomeInv, HomeShape
    <2>3. \A b \in DOMAIN dev'.bind : b \in Boards \intersect DOMAIN dev'.row /\ dev'.bind[b] \in world.servers
      BY DEF HomeInv, HomeShape
    <2>4. (\A k \in DOMAIN dev'.roster : k \in ShareKeys /\ dev'.roster[k] \in world.servers) /\ DOMAIN dev'.tomb = {}
      BY DEF HomeInv, HomeShape
    <2>5. \E x \in was' : x[1] = e
      <3>1. PICK s \in world.servers : TRUE
        BY <1>13
      <3>2. <<e, KeyOf(dev'.row, BoardOf(dev'.row, e), s)>> \in Namespaces(dev'.row)
        BY NamespaceOf
      <3>3. Namespaces(dev.row)' = Namespaces(dev'.row)
        BY DEF Namespaces, KeyOf, BoardOf
      <3>4. PICK k : <<e, k>> \in was'
        BY <3>2, <3>3 DEF MembersInv, HistoryUpToDate
      <3>5. <<e, k>>[1] = e
        OBVIOUS
      <3> QED
        BY <3>4, <3>5
    <2>6. ASSUME NEW s \in world.servers
          PROVE  srv'[s].userKeys \subseteq ShareKeys /\ DOMAIN srv'[s].tomb = {} /\ \A x \in srv'[s].had : \E y \in was' : y[1] = x
      <3>1. srv[s].userKeys \subseteq ShareKeys /\ DOMAIN srv[s].tomb = {} /\ \A x \in srv[s].had : \E y \in was : y[1] = x
        BY DEF HomeInv, HomeShape
      <3> QED
        BY <1>1, <2>5, <3>1
    <2>7. \A s \in DOMAIN conn : conn[s].keys \subseteq {s} \union ShareKeys
      BY DEF HomeInv, HomeShape
    <2> QED
      BY <2>1, <2>2, <2>3, <2>4, <2>6, <2>7 DEF HomeShape
  <1>15. Bound'
    <2>1. DOMAIN conn # {} => \A b \in Boards \intersect DOMAIN dev'.row : b \in DOMAIN dev'.bind
      BY DEF HomeInv, Bound
    <2> QED
      BY <2>1 DEF Bound
  <1>16. AtHome'
    <2>1. ASSUME NEW t \in world.servers, NEW x \in DOMAIN dev'.row \intersect srv'[t].had
          PROVE  At(dev'.bind, B(x)) = t
      <3>1. x \in srv[t].had \/ (x = e /\ At(dev'.bind, B(e)) = t)
        BY <1>1
      <3>2. CASE x \in srv[t].had
        <4>1. x \in DOMAIN dev.row
          BY <1>7, <3>2
        <4> QED
          BY <1>9, <3>2, <4>1 DEF HomeInv, AtHome
      <3> QED
        BY <3>1, <3>2
    <2> QED
      BY <1>4, <2>1 DEF AtHome
  <1>17. \A b \in DOMAIN dev.row : KeyOn(b) = dev.row[b].key
    BY DEF KeyOn
  <1>18. OwnKeys'
    <2>1. ASSUME NEW b \in DOMAIN dev'.row, NEW c \in DOMAIN dev'.row, dev'.row[b].key = dev'.row[c].key, dev'.row[b].key # NoKey
          PROVE  b = c
      <3>1. ASSUME NEW x \in DOMAIN dev.row \ {e}, dev.row[x].key = r.key, r.key # NoKey PROVE FALSE
        <4>1. CASE e \in DOMAIN dev.row /\ r.key = KeyOn(e)
          BY <1>17, <3>1, <4>1 DEF HomeInv, OwnKeys
        <4>2. CASE ~(e \in DOMAIN dev.row /\ r.key = KeyOn(e))
          BY <1>12, <3>1, <4>2 DEF Unused
        <4> QED
          BY <4>1, <4>2
      <3>2. CASE b # e /\ c # e
        BY <1>17, <2>1, <3>2 DEF HomeInv, OwnKeys
      <3>3. CASE b = e \/ c = e
        BY <2>1, <3>1, <3>3
      <3> QED
        BY <3>2, <3>3
    <2> QED
      BY <1>4, <2>1 DEF OwnKeys
  <1>19. \A k : \A t \in world.servers : Tracked(k, t)' <=> Tracked(k, t)
    BY <1>1 DEF Tracked
  <1>20. KeysAtHome'
    <2>1. ASSUME NEW t \in world.servers, NEW k \in ShareKeys, Tracked(k, t)
          PROVE  /\ dev'.cursor[k] > 0
                 /\ \A b \in DOMAIN dev'.row : dev'.row[b].key = k => At(dev'.bind, b) = t
                 /\ \A u \in world.servers : Tracked(k, u) => u = t
      <3>1. /\ dev.cursor[k] > 0
            /\ \A b \in DOMAIN dev.row : KeyOn(b) = k => At(dev.bind, b) = t
            /\ \A u \in world.servers : Tracked(k, u) => u = t
        BY <2>1 DEF HomeInv, KeysAtHome
      <3>2. k # NoKey /\ ~Unused(k)
        BY <3>1, HomeNames DEF Unused
      <3>3. ASSUME NEW b \in DOMAIN dev'.row, dev'.row[b].key = k PROVE At(dev'.bind, b) = t
        <4>1. b \in DOMAIN dev.row /\ KeyOn(b) = k
          BY <1>12, <1>17, <3>2, <3>3
        <4> QED
          BY <1>8, <3>1, <4>1
      <3> QED
        BY <3>1, <3>3
    <2> QED
      BY <1>4, <1>19, <2>1 DEF KeysAtHome
  <1>21. Behind'
    <2>1. ASSUME NEW t \in world.servers, NEW x \in DOMAIN srv'[t].row
          PROVE  IF x \in DOMAIN dev'.row THEN srv'[t].row[x].ts <= dev'.row[x].ts ELSE srv'[t].row[x].ns \in left
      <3>1. \A y \in DOMAIN srv[t].row :
               IF y \in DOMAIN dev.row THEN srv[t].row[y].ts <= dev.row[y].ts ELSE srv[t].row[y].ns \in left
        BY DEF HomeInv, Behind
      <3>2. CASE x # e
        <4>1. x \in DOMAIN srv[t].row /\ srv'[t].row[x] = srv[t].row[x]
          BY <1>1, <3>2
        <4> QED
          BY <3>1, <3>2, <4>1
      <3>3. CASE x = e
        <4>1. e \in DOMAIN srv[t].row => srv[t].row[e].ts <= now + 1 /\ srv[t].row[e].ts \in Nat
          <5>1. ASSUME e \in DOMAIN srv[t].row PROVE srv[t].row[e].ts <= now + 1 /\ srv[t].row[e].ts \in Nat
            <6>1. e \in DOMAIN dev.row
              BY <1>7, <5>1, HomeNames
            <6>2. dev.row[e].ts \in 1..now
              BY <6>1 DEF HomeInv, HomeShape
            <6>3. srv[t].row[e].ts <= dev.row[e].ts
              BY <3>1, <5>1, <6>1
            <6>4. srv[t].row[e].ts \in Nat
              BY <5>1, HomeNames DEF ServerOK
            <6> QED
              BY <6>2, <6>3, <6>4, HomeNames
          <5> QED
            BY <5>1
        <4>2. srv'[t].row[e].ts <= now + 1
          BY <1>1, <3>3, <4>1, HomeNames
        <4> QED
          BY <3>3, <4>2
      <3> QED
        BY <3>2, <3>3
    <2> QED
      BY <2>1 DEF Behind
  <1>22. UnderKey'
    <2>1. ASSUME NEW t \in world.servers, NEW x \in DOMAIN dev'.row \intersect DOMAIN srv'[t].row,
                 K(x) # NoKey, dev.cursor[K(x)] > 0
          PROVE  srv'[t].row[x].ns = K(x)
      <3>1. ASSUME x \in DOMAIN srv[t].row, x \in DOMAIN dev.row PROVE srv[t].row[x].ns = K(x)
        <4>1. B(x) = Home(x)
          BY <1>3, <2>1, <3>1
        <4>2. K(x) = HomeKey(x)
          <5>1. CASE B(x) = e
            <6>1. e \in DOMAIN dev.row /\ K(x) = r.key
              BY <1>5, <1>6, <3>1, <4>1, <5>1
            <6>2. r.key = KeyOn(e)
              BY <1>12, <2>1, <6>1 DEF Unused
            <6> QED
              BY <1>6, <1>17, <4>1, <5>1, <6>1, <6>2
          <5>2. CASE B(x) # e
            BY <1>5, <1>6, <3>1, <4>1, <5>2
          <5> QED
            BY <5>1, <5>2
        <4> QED
          BY <2>1, <3>1, <4>2 DEF HomeInv, UnderKey
      <3>2. CASE x # e
        BY <1>1, <3>1, <3>2
      <3>3. CASE x = e
        <4>1. CASE e \in DOMAIN srv[t].row /\ srv'[t].row[e] = srv[t].row[e]
          <5>1. e \in DOMAIN dev.row
            BY <1>7, <4>1, HomeNames
          <5> QED
            BY <3>1, <3>3, <4>1, <5>1
        <4>2. CASE srv'[t].row[e].ns = KeyOf(dev'.row, B(e), t)
          BY <1>2, <1>6, <2>1, <3>3, <4>2 DEF KeyOf
        <4> QED
          BY <1>1, <3>3, <4>1, <4>2
      <3> QED
        BY <3>2, <3>3
    <2> QED
      BY <1>4, <2>1 DEF UnderKey
  <1>23. LeftKeys'
    <2>1. ASSUME NEW k \in left
          PROVE  /\ k \in ShareKeys /\ dev'.cursor[k] > 0
                 /\ k \notin DOMAIN dev'.roster /\ \A x \in DOMAIN dev'.row : dev'.row[x].key # k
                 /\ \A s \in world.servers : k \notin srv'[s].userKeys
      <3>1. /\ k \in ShareKeys /\ dev.cursor[k] > 0
            /\ k \notin DOMAIN dev.roster /\ \A x \in DOMAIN dev.row : KeyOn(x) # k
            /\ \A s \in world.servers : k \notin srv[s].userKeys
        BY DEF HomeInv, LeftKeys
      <3>2. r.key # k
        BY <1>12, <3>1, HomeNames DEF Unused
      <3> QED
        BY <1>1, <1>17, <3>1, <3>2
    <2> QED
      BY <1>4, <2>1 DEF LeftKeys
  <1>24. Spared(world)' /\ ~Single(world.servers)'
    BY DEF HomeInv, Spared, Single
  <1> QED
    BY <1>10, <1>14, <1>15, <1>16, <1>18, <1>20, <1>21, <1>22, <1>23, <1>24 DEF HomeInv

LEMMA HeldInHistory ==
    ASSUME HomeInv, NEW e \in DOMAIN dev.row
    PROVE  \E x \in was : x[1] = e
  <1>1. PICK s \in world.servers : TRUE
    BY DEF HomeInv, Single
  <1>2. <<e, KeyOf(dev.row, BoardOf(dev.row, e), s)>> \in Namespaces(dev.row)
    BY NamespaceOf
  <1>3. PICK k : <<e, k>> \in was
    BY <1>2 DEF HomeInv, MembersInv, HistoryUpToDate
  <1>4. <<e, k>>[1] = e
    OBVIOUS
  <1> QED
    BY <1>3, <1>4

\* A row that is added leaves the others on their boards.
LEMMA SameHomes ==
    ASSUME NEW rows, DOMAIN rows \subseteq Entities, NEW R, NEW e, DOMAIN R = {e} \union DOMAIN rows,
           \A x \in DOMAIN rows \ {e} : R[x] = rows[x],
           \/ e # List
           \/ List \in DOMAIN rows /\ R[List].board = rows[List].board
           \/ List \notin DOMAIN rows /\ Item \notin DOMAIN rows
    PROVE  \A x \in DOMAIN rows : BoardOf(R, x) = BoardOf(rows, x)
  <1>1. List # Item /\ List \notin Boards /\ Item \notin Boards /\ None \notin Boards
    BY SharingAssumption
  <1>2. ASSUME NEW x \in DOMAIN rows PROVE BoardOf(R, x) = BoardOf(rows, x)
    <2>1. CASE x \in Boards
      BY <1>1, <2>1 DEF BoardOf
    <2>2. CASE x = List
      BY <1>1, <2>2 DEF BoardOf
    <2>3. CASE x = Item
      <3>1. List \in DOMAIN R <=> List \in DOMAIN rows
        BY <2>3
      <3>2. List \in DOMAIN rows => R[List].board = rows[List].board
        OBVIOUS
      <3> QED
        BY <1>1, <2>3, <3>1, <3>2 DEF BoardOf
    <2> QED
      BY <2>1, <2>2, <2>3 DEF Entities
  <1> QED
    BY <1>2

\* A key that was never used is not associated anywhere, and was not left.
LEMMA UnusedUnknown ==
    ASSUME HomeInv, NEW k, k = NoKey \/ (k \in ShareKeys /\ Unused(k))
    PROVE  /\ k \notin left /\ \A t \in DOMAIN conn : k \notin conn[t].keys \ {t}
           /\ \A servers : \A t \in world.servers : Associated(conn, servers, k)[t] = servers[t]
  <1>1. k \notin left
    BY HomeNames DEF Unused, HomeInv, LeftKeys
  <1>2. ASSUME NEW t \in DOMAIN conn PROVE k \notin conn[t].keys \ {t}
    <2>1. CASE k = NoKey
      <3>1. conn[t].keys \subseteq {t} \union ShareKeys
        BY DEF HomeInv, HomeShape
      <3> QED
        BY <2>1, <3>1, HomeNames
    <2>2. CASE k \in ShareKeys /\ Unused(k)
      <3>1. SUFFICES ASSUME k \in conn[t].keys \ {t} PROVE FALSE
        OBVIOUS
      <3>2. Tracked(k, t) /\ t \in world.servers
        BY <3>1, HomeNames DEF Tracked
      <3>3. dev.cursor[k] > 0
        BY <2>2, <3>2 DEF HomeInv, KeysAtHome
      <3> QED
        BY <2>2, <3>3 DEF Unused
    <2> QED
      BY <2>1, <2>2
  <1>3. ASSUME NEW servers, NEW t \in world.servers PROVE Associated(conn, servers, k)[t] = servers[t]
    BY <1>2, HomeNames DEF Associated
  <1> QED
    BY <1>1, <1>2, <1>3

LEMMA HomeCreateBoard ==
    ASSUME HomeInv, MembersInv', NEW b \in Boards, NEW k \in ShareKeys \union {NoKey}, CreateBoard(b, k)
    PROVE  HomeInv'
  <1> DEFINE r == [ts |-> now + 1, key |-> k, board |-> None]
             P == PushTo(conn, srv, mem, b, r)
  <1>1. UpToDate /\ now' = now + 1 /\ pending = None
    BY UserDoes DEF CreateBoard, HomeInv, Spared
  <1>2. /\ world' = world /\ conn' = conn /\ pending' = None /\ was \subseteq was'
        /\ left' = left \ {k} /\ srv' = Associated(conn, P, k)
        /\ (\A x \in was : x[1] # b) /\ Single(DOMAIN conn)
    BY <1>1 DEF CreateBoard, Recorded, HomeInv, Spared
  <1>3. k = NoKey \/ (k \in ShareKeys /\ Unused(k))
    BY DEF CreateBoard, HomeInv, Spared
  <1>4. left' = left
    BY <1>2, <1>3, UnusedUnknown
  <1>5. b \notin DOMAIN dev.row
    BY <1>2, HeldInHistory
  <1>6. b \notin DOMAIN dev.bind
    BY <1>5 DEF HomeInv, HomeShape
  <1>7. r.ts = now + 1 /\ r.key = k
    OBVIOUS
  <1>8. /\ dev'.row = Over(Only(b, r), dev.row) /\ dev'.cursor = dev.cursor /\ dev'.tomb = dev.tomb /\ dev'.roster = dev.roster
        /\ \/ conn = Nothing /\ dev'.bind = dev.bind
           \/ \E s \in DOMAIN conn : dev'.bind = Over(Only(b, s), dev.bind)
    <2>1. \/ conn = Nothing /\ dev' = [dev EXCEPT !.row = Over(Only(b, r), dev.row)]
          \/ \E s \in DOMAIN conn :
                dev' = [dev EXCEPT !.row = Over(Only(b, r), dev.row), !.bind = Over(Only(b, s), dev.bind)]
      BY DEF CreateBoard
    <2> HIDE DEF r
    <2> QED
      BY <2>1 DEF HomeInv, MembersInv, SharingShape
  <1> HIDE DEF r, P
  <1>9. /\ DOMAIN dev'.row = {b} \union DOMAIN dev.row /\ dev'.row[b] = r
        /\ \A x \in DOMAIN dev.row \ {b} : dev'.row[x] = dev.row[x]
    <2>1. PICK w : w = dev.row
      OBVIOUS
    <2>2. /\ DOMAIN Over(Only(b, r), w) = {b} \union DOMAIN w
          /\ Over(Only(b, r), w)[b] = r
          /\ \A x \in DOMAIN w \ {b} : Over(Only(b, r), w)[x] = w[x]
      BY DEF Over, Only
    <2> QED
      BY <1>8, <2>1, <2>2
  <1>10. \A x \in DOMAIN dev.row : BoardOf(dev'.row, x) = Home(x)
    <2>1. b # List
      BY HomeNames
    <2>2. \A x \in DOMAIN dev.row : BoardOf(dev'.row, x) = BoardOf(dev.row, x)
      BY <1>9, <2>1, HomeNames, SameHomes
    <2> QED
      BY <2>2 DEF Home
  <1>11. BoardOf(dev'.row, b) = b
    BY HomeNames DEF BoardOf
  <1>12. \A x \in DOMAIN dev'.row : BoardOf(dev'.row, x) \in Boards \intersect DOMAIN dev'.row
    BY <1>9, <1>10, <1>11 DEF HomeInv, NoOrphans
  <1>13. /\ \A x \in DOMAIN dev.bind : x \in DOMAIN dev'.bind /\ dev'.bind[x] = dev.bind[x]
         /\ \A x \in DOMAIN dev'.bind \ DOMAIN dev.bind : x = b /\ dev'.bind[x] \in world.servers
         /\ DOMAIN conn # {} => b \in DOMAIN dev'.bind
         /\ \A t \in DOMAIN conn : At(dev'.bind, b) = t
    <2>1. CASE conn = Nothing /\ dev'.bind = dev.bind
      BY <2>1 DEF Nothing
    <2>2. CASE \E s \in DOMAIN conn : dev'.bind = Over(Only(b, s), dev.bind)
      <3>1. PICK s \in DOMAIN conn : dev'.bind = Over(Only(b, s), dev.bind)
        BY <2>2
      <3>2. /\ DOMAIN dev'.bind = {b} \union DOMAIN dev.bind /\ dev'.bind[b] = s
            /\ \A x \in DOMAIN dev.bind \ {b} : dev'.bind[x] = dev.bind[x]
        <4>1. PICK w : w = dev.bind
          OBVIOUS
        <4>2. /\ DOMAIN Over(Only(b, s), w) = {b} \union DOMAIN w
              /\ Over(Only(b, s), w)[b] = s
              /\ \A x \in DOMAIN w \ {b} : Over(Only(b, s), w)[x] = w[x]
          BY DEF Over, Only
        <4> QED
          BY <3>1, <4>1, <4>2
      <3>3. \A t \in DOMAIN conn : t = s
        BY <1>2 DEF Single
      <3> QED
        BY <1>6, <3>2, <3>3, HomeNames DEF At
    <2> QED
      BY <1>8, <2>1, <2>2
  <1>14. ASSUME NEW t \in world.servers PROVE PushedTo(b, r, t)
    <2>1. srv'[t] = P[t]
      BY <1>2, <1>3, UnusedUnknown
    <2>2. \/ P[t] = srv[t]
          \/ t \in DOMAIN conn /\ P[t] = Upsert(srv[t], Only(b, r), Only(b, KeyOf(dev'.row, BoardOf(dev'.row, b), t)))
      <3>1. PICK R : R = Over(Only(b, r), dev.row)
        OBVIOUS
      <3>2. \/ P[t] = srv[t]
            \/ /\ t \in DOMAIN conn /\ At(dev.bind, BoardOf(R, b)) \in {None, t}
               /\ P[t] = Upsert(srv[t], Only(b, r), Only(b, KeyOf(R, BoardOf(R, b), t)))
        BY <1>1, <3>1, PushedHome DEF P, Entities
      <3> QED
        BY <1>8, <3>1, <3>2
    <2> QED
      BY <1>11, <1>13, <2>1, <2>2 DEF PushedTo
  <1>15. MayHave(b, r.key)
    BY <1>3, <1>7 DEF MayHave
  <1>16. b \in Entities
    BY DEF Entities
  <1> QED
    BY <1>1, <1>2, <1>4, <1>5, <1>7, <1>8, <1>9, <1>10, <1>12, <1>13, <1>14, <1>15, <1>16, HomeWritten

\* A row is written of an entity that is on a board that is held.
LEMMA HomeRowWritten ==
    ASSUME HomeInv, MembersInv', UpToDate, world' = world, now' = now + 1, conn' = conn, pending = None, pending' = None,
           left' = left, was \subseteq was',
           NEW e \in Entities, NEW r, r.ts = now + 1, MayHave(e, r.key), e \notin Boards => r.key = NoKey,
           dev' = [dev EXCEPT !.row = Over(Only(e, r), dev.row)],
           e \notin DOMAIN dev.row => e \notin Boards /\ \A x \in was : x[1] # e,
           \A x \in {e} \union DOMAIN dev.row : BoardOf(dev'.row, x) \in Boards \intersect DOMAIN dev.row,
           \A x \in DOMAIN dev.row :
              \/ BoardOf(dev'.row, x) = Home(x)
              \/ /\ At(dev.bind, BoardOf(dev'.row, x)) = At(dev.bind, Home(x))
                 /\ dev'.row[BoardOf(dev'.row, x)].key = NoKey,
           NEW m, m = Noted(mem, e, r) \/ (e \in Boards /\ m = mem),
           \A t \in world.servers : srv'[t] = PushTo(conn, srv, m, e, r)[t]
    PROVE  HomeInv'
  <1>1. /\ dev'.row = Over(Only(e, r), dev.row) /\ dev'.cursor = dev.cursor /\ dev'.tomb = dev.tomb /\ dev'.roster = dev.roster
        /\ dev'.bind = dev.bind
    BY DEF HomeInv, MembersInv, SharingShape
  <1>2. /\ DOMAIN dev'.row = {e} \union DOMAIN dev.row /\ dev'.row[e] = r
        /\ \A x \in DOMAIN dev.row \ {e} : dev'.row[x] = dev.row[x]
    <2>1. PICK w : w = dev.row
      OBVIOUS
    <2>2. /\ DOMAIN Over(Only(e, r), w) = {e} \union DOMAIN w
          /\ Over(Only(e, r), w)[e] = r
          /\ \A x \in DOMAIN w \ {e} : Over(Only(e, r), w)[x] = w[x]
      BY DEF Over, Only
    <2> QED
      BY <1>1, <2>1, <2>2
  <1>3. ASSUME NEW t \in world.servers PROVE PushedTo(e, r, t)
    <2>1. PICK R : R = Over(Only(e, r), dev.row)
      OBVIOUS
    <2>2. PICK P : P = PushTo(conn, srv, m, e, r)
      OBVIOUS
    <2>3. \/ P[t] = srv[t]
          \/ /\ t \in DOMAIN conn /\ At(dev.bind, BoardOf(R, e)) \in {None, t}
             /\ P[t] = Upsert(srv[t], Only(e, r), Only(e, KeyOf(R, BoardOf(R, e), t)))
      BY <2>1, <2>2, PushedHome
    <2>4. R = dev'.row /\ srv'[t] = P[t]
      BY <1>1, <2>1, <2>2
    <2>5. ASSUME t \in DOMAIN conn, At(dev.bind, BoardOf(R, e)) \in {None, t} PROVE At(dev'.bind, BoardOf(R, e)) = t
      <3>1. BoardOf(R, e) \in DOMAIN dev.bind
        BY <2>4, <2>5 DEF HomeInv, Bound
      <3>2. dev.bind[BoardOf(R, e)] \in world.servers
        BY <3>1 DEF HomeInv, HomeShape
      <3> QED
        BY <1>1, <2>5, <3>1, <3>2, HomeNames DEF At
    <2> QED
      BY <2>3, <2>4, <2>5 DEF PushedTo
  <1>4. \A x \in DOMAIN dev'.row : BoardOf(dev'.row, x) \in Boards \intersect DOMAIN dev'.row
    BY <1>2
  <1>5. \A x \in DOMAIN dev.row :
              \/ BoardOf(dev'.row, x) = Home(x)
              \/ /\ At(dev.bind, BoardOf(dev'.row, x)) = At(dev.bind, Home(x))
                 /\ BoardOf(dev'.row, x) \in DOMAIN dev.row
                 /\ dev'.row[BoardOf(dev'.row, x)].key = NoKey
    OBVIOUS
  <1>6. /\ \A b \in DOMAIN dev.bind : b \in DOMAIN dev'.bind /\ dev'.bind[b] = dev.bind[b]
        /\ DOMAIN dev'.bind \ DOMAIN dev.bind = {}
    BY <1>1
  <1> QED
    BY <1>1, <1>2, <1>3, <1>4, <1>5, <1>6, HomeWritten

LEMMA HomeShare ==
    ASSUME HomeInv, MembersInv', NEW b \in Boards, NEW k \in ShareKeys, Share(b, k)
    PROVE  HomeInv'
  <1> DEFINE r == [Restamped(b) EXCEPT !.key = k]
             P == PushTo(conn, srv, mem, b, r)
  <1>1. UpToDate /\ now' = now + 1 /\ pending = None
    BY UserDoes DEF Share, HomeInv, Spared
  <1>2. /\ world' = world /\ conn' = conn /\ pending' = None /\ was \subseteq was'
        /\ left' = left \ {k} /\ srv' = Associated(conn, P, k)
        /\ dev' = [dev EXCEPT !.row = Over(Only(b, r), dev.row)] /\ b \in DOMAIN dev.row
    BY <1>1 DEF Share, Recorded, Held
  <1>3. Unused(k)
    BY DEF Share, HomeInv, Spared
  <1>4. left' = left
    BY <1>2, <1>3, UnusedUnknown
  <1>5. r.ts = now + 1 /\ r.key = k
    BY <1>2 DEF Restamped, HomeInv, MembersInv, SharingShape, RowsOK
  <1> HIDE DEF r, P
  <1>6. b \in Entities
    BY DEF Entities
  <1>7. MayHave(b, r.key)
    BY <1>3, <1>5 DEF MayHave
  <1>8. \A x \in DOMAIN dev.row : BoardOf(dev'.row, x) = Home(x)
    <2>1. dev'.row = Over(Only(b, r), dev.row)
      BY <1>2 DEF HomeInv, MembersInv, SharingShape
    <2>2. PICK w : w = dev.row
      OBVIOUS
    <2>3. PICK R : R = Over(Only(b, r), w)
      OBVIOUS
    <2>4. DOMAIN R = {b} \union DOMAIN w /\ \A x \in DOMAIN w \ {b} : R[x] = w[x]
      BY <2>3 DEF Over, Only
    <2>5. \A x \in DOMAIN w : BoardOf(R, x) = BoardOf(w, x)
      <3>1. DOMAIN w \subseteq Entities /\ b # List
        BY <2>2, HomeNames
      <3> QED
        BY <2>4, <3>1, SameHomes
    <2> QED
      BY <2>1, <2>2, <2>3, <2>5 DEF Home
  <1>9. \A x \in {b} \union DOMAIN dev.row : BoardOf(dev'.row, x) \in Boards \intersect DOMAIN dev.row
    BY <1>2, <1>8 DEF HomeInv, NoOrphans
  <1>10. \A t \in world.servers : srv'[t] = PushTo(conn, srv, mem, b, r)[t]
    BY <1>2, <1>3, UnusedUnknown DEF P
  <1> QED
    BY <1>1, <1>2, <1>4, <1>5, <1>6, <1>7, <1>8, <1>9, <1>10, HomeRowWritten

\* Where the entities are after row r of entity e was added.
LEMMA HomeAfter ==
    ASSUME HomeInv, NEW e \in Entities, NEW r, NEW R, DOMAIN R = {e} \union DOMAIN dev.row, R[e] = r,
           \A x \in DOMAIN dev.row \ {e} : R[x] = dev.row[x]
    PROVE  /\ e # List => \A x \in DOMAIN dev.row : BoardOf(R, x) = Home(x)
           /\ e = List => /\ BoardOf(R, List) = r.board /\ BoardOf(R, Item) = r.board
                          /\ \A x \in DOMAIN dev.row \intersect Boards : BoardOf(R, x) = Home(x)
  <1>1. ASSUME e # List PROVE \A x \in DOMAIN dev.row : BoardOf(R, x) = Home(x)
    <2>1. DOMAIN dev.row \subseteq Entities
      BY HomeNames
    <2>2. \A x \in DOMAIN dev.row : BoardOf(R, x) = BoardOf(dev.row, x)
      BY <1>1, <2>1, SameHomes
    <2> QED
      BY <2>2 DEF Home
  <1>2. ASSUME e = List
        PROVE  /\ BoardOf(R, List) = r.board /\ BoardOf(R, Item) = r.board
               /\ \A x \in DOMAIN dev.row \intersect Boards : BoardOf(R, x) = Home(x)
    BY <1>2, HomeNames DEF BoardOf, Home
  <1> QED
    BY <1>1, <1>2

LEMMA HomeEdit ==
    ASSUME HomeInv, MembersInv', NEW e \in Entities, Edit(e)
    PROVE  HomeInv'
  <1> DEFINE r == Restamped(e)
             m == Noted(mem, e, r)
  <1>1. UpToDate /\ now' = now + 1 /\ pending = None
    BY UserDoes DEF Edit, HomeInv, Spared
  <1>2. /\ world' = world /\ conn' = conn /\ pending' = None /\ was \subseteq was' /\ left' = left
        /\ e \in DOMAIN dev.row
        /\ dev' = [dev EXCEPT !.row = Over(Only(e, r), dev.row)] /\ srv' = PushTo(conn, srv, m, e, r)
    BY <1>1 DEF Edit, Recorded, Held, Written
  <1>3. r.ts = now + 1 /\ r.key = dev.row[e].key /\ r.board = dev.row[e].board
    BY <1>2 DEF Restamped, HomeInv, MembersInv, SharingShape, RowsOK
  <1>4. m = Noted(mem, e, r)
    OBVIOUS
  <1> HIDE DEF r, m
  <1>5. MayHave(e, r.key)
    BY <1>2, <1>3 DEF MayHave, KeyOn
  <1>6. e \notin Boards => r.key = NoKey
    BY <1>2, <1>3 DEF HomeInv, MembersInv, SharingShape, RowsOK, KeysOfBoardsOnly
  <1>7. \A x \in DOMAIN dev.row : BoardOf(dev'.row, x) = Home(x)
    <2>1. dev'.row = Over(Only(e, r), dev.row)
      BY <1>2 DEF HomeInv, MembersInv, SharingShape
    <2>2. PICK R : R = Over(Only(e, r), dev.row)
      OBVIOUS
    <2>3. DOMAIN R = {e} \union DOMAIN dev.row /\ R[e] = r /\ \A x \in DOMAIN dev.row \ {e} : R[x] = dev.row[x]
      <3>1. PICK q : q = r
        OBVIOUS
      <3>2. PICK w : w = dev.row
        OBVIOUS
      <3>3. R = Over(Only(e, q), w)
        BY <2>2, <3>1, <3>2
      <3>4. DOMAIN R = {e} \union DOMAIN w /\ R[e] = q /\ \A x \in DOMAIN w \ {e} : R[x] = w[x]
        BY <3>3 DEF Over, Only
      <3> QED
        BY <3>1, <3>2, <3>4
    <2>4. /\ e # List => \A x \in DOMAIN dev.row : BoardOf(R, x) = Home(x)
          /\ e = List => /\ BoardOf(R, List) = r.board /\ BoardOf(R, Item) = r.board
                         /\ \A x \in DOMAIN dev.row \intersect Boards : BoardOf(R, x) = Home(x)
      BY <2>3, HomeAfter
    <2>5. e = List => Home(List) = r.board /\ Home(Item) = r.board
      BY <1>2, <1>3, HomeNames DEF Home, BoardOf
    <2> QED
      BY <2>1, <2>2, <2>4, <2>5, HomeNames DEF Entities
  <1>8. \A x \in {e} \union DOMAIN dev.row : BoardOf(dev'.row, x) \in Boards \intersect DOMAIN dev.row
    BY <1>2, <1>7 DEF HomeInv, NoOrphans
  <1> QED
    BY <1>1, <1>2, <1>3, <1>4, <1>5, <1>6, <1>7, <1>8, HomeRowWritten

LEMMA HomeCreateChild ==
    ASSUME HomeInv, MembersInv', NEW e \in {List, Item}, NEW b \in Boards, CreateChild(e, b)
    PROVE  HomeInv'
  <1> DEFINE r == [ts |-> now + 1, key |-> NoKey, board |-> IF e = List THEN b ELSE None]
             m == Noted(mem, e, r)
  <1>1. UpToDate /\ now' = now + 1 /\ pending = None
    BY UserDoes DEF CreateChild, HomeInv, Spared
  <1>2. /\ world' = world /\ conn' = conn /\ pending' = None /\ was \subseteq was' /\ left' = left
        /\ b \in DOMAIN dev.row /\ (\A x \in was : x[1] # e)
        /\ (e = Item => List \in DOMAIN dev.row /\ dev.row[List].board = b)
        /\ dev' = [dev EXCEPT !.row = Over(Only(e, r), dev.row)] /\ srv' = PushTo(conn, srv, m, e, r)
    BY <1>1 DEF CreateChild, Recorded, Held, Written
  <1>3. r.ts = now + 1 /\ r.key = NoKey /\ (e = List => r.board = b)
    OBVIOUS
  <1>4. m = Noted(mem, e, r)
    OBVIOUS
  <1> HIDE DEF r, m
  <1>5. e \notin DOMAIN dev.row
    BY <1>2, HeldInHistory
  <1>6. e \in Entities /\ e \notin Boards /\ MayHave(e, r.key)
    BY <1>3, HomeNames DEF Entities, MayHave
  <1>7. /\ \A x \in DOMAIN dev.row : BoardOf(dev'.row, x) = Home(x)
        /\ BoardOf(dev'.row, e) = b
    <2>1. dev'.row = Over(Only(e, r), dev.row)
      BY <1>2 DEF HomeInv, MembersInv, SharingShape
    <2>2. PICK R : R = Over(Only(e, r), dev.row)
      OBVIOUS
    <2>3. DOMAIN R = {e} \union DOMAIN dev.row /\ R[e] = r /\ \A x \in DOMAIN dev.row \ {e} : R[x] = dev.row[x]
      <3>1. PICK q : q = r
        OBVIOUS
      <3>2. PICK w : w = dev.row
        OBVIOUS
      <3>3. R = Over(Only(e, q), w)
        BY <2>2, <3>1, <3>2
      <3>4. DOMAIN R = {e} \union DOMAIN w /\ R[e] = q /\ \A x \in DOMAIN w \ {e} : R[x] = w[x]
        BY <3>3 DEF Over, Only
      <3> QED
        BY <3>1, <3>2, <3>4
    <2>7. /\ e # List => \A x \in DOMAIN dev.row : BoardOf(R, x) = Home(x)
          /\ e = List => /\ BoardOf(R, List) = r.board /\ BoardOf(R, Item) = r.board
                         /\ \A x \in DOMAIN dev.row \intersect Boards : BoardOf(R, x) = Home(x)
      BY <1>6, <2>3, HomeAfter
    <2>4. e = List => Item \notin DOMAIN dev.row
      <3>1. e = List /\ Item \in DOMAIN dev.row => Home(Item) = None
        BY <1>5, HomeNames DEF Home, BoardOf
      <3> QED
        BY <3>1, HomeNames DEF HomeInv, NoOrphans
    <2>5. CASE e = List
      BY <1>3, <1>5, <2>1, <2>2, <2>4, <2>5, <2>7, HomeNames DEF Entities
    <2>6. CASE e = Item
      <3>1. BoardOf(R, Item) = dev.row[List].board
        BY <1>2, <2>3, <2>6, HomeNames DEF BoardOf
      <3> QED
        BY <1>2, <2>1, <2>2, <2>6, <2>7, <3>1, HomeNames
    <2> QED
      BY <2>5, <2>6
  <1>8. \A x \in {e} \union DOMAIN dev.row : BoardOf(dev'.row, x) \in Boards \intersect DOMAIN dev.row
    BY <1>2, <1>7 DEF HomeInv, NoOrphans
  <1> QED
    BY <1>1, <1>2, <1>3, <1>4, <1>6, <1>7, <1>8, HomeRowWritten

LEMMA HomeMoveList ==
    ASSUME HomeInv, MembersInv', NEW b \in Boards, MoveList(b)
    PROVE  HomeInv'
  <1> DEFINE r == [Restamped(List) EXCEPT !.board = b]
             m == Noted(mem, List, r)
  <1>1. UpToDate /\ now' = now + 1 /\ pending = None
    BY UserDoes DEF MoveList, HomeInv, Spared
  <1>2. /\ world' = world /\ conn' = conn /\ pending' = None /\ was \subseteq was' /\ left' = left
        /\ List \in DOMAIN dev.row /\ b \in DOMAIN dev.row /\ dev.row[List].board \in DOMAIN dev.row
        /\ b # dev.row[List].board
        /\ dev.row[b].key = dev.row[dev.row[List].board].key /\ At(dev.bind, b) = At(dev.bind, dev.row[List].board)
        /\ dev' = [dev EXCEPT !.row = Over(Only(List, r), dev.row)] /\ srv' = PushTo(conn, srv, m, List, r)
    BY <1>1 DEF MoveList, Recorded, Held, Written, HomeInv, Spared
  <1>3. r.ts = now + 1 /\ r.key = dev.row[List].key /\ r.board = b
    BY <1>2 DEF Restamped, HomeInv, MembersInv, SharingShape, RowsOK
  <1>4. m = Noted(mem, List, r)
    OBVIOUS
  <1> HIDE DEF r, m
  <1>5. List \in Entities /\ List \notin Boards /\ MayHave(List, r.key)
    BY <1>2, <1>3, HomeNames DEF Entities, MayHave, KeyOn
  <1>6. r.key = NoKey
    BY <1>2, <1>3, <1>5 DEF HomeInv, MembersInv, SharingShape, RowsOK, KeysOfBoardsOnly
  <1>7. dev.row[b].key = NoKey
    BY <1>2 DEF HomeInv, OwnKeys, KeyOn
  <1>8. Home(List) = dev.row[List].board /\ Home(Item) = dev.row[List].board
    BY <1>2, HomeNames DEF Home, BoardOf
  <1>9. /\ \A x \in DOMAIN dev.row \intersect Boards : BoardOf(dev'.row, x) = Home(x)
        /\ BoardOf(dev'.row, List) = b /\ BoardOf(dev'.row, Item) = b
        /\ dev'.row[b].key = NoKey
    <2>1. dev'.row = Over(Only(List, r), dev.row)
      BY <1>2 DEF HomeInv, MembersInv, SharingShape
    <2>2. PICK R : R = Over(Only(List, r), dev.row)
      OBVIOUS
    <2>3. DOMAIN R = {List} \union DOMAIN dev.row /\ R[List] = r /\ \A x \in DOMAIN dev.row \ {List} : R[x] = dev.row[x]
      <3>1. PICK q : q = r
        OBVIOUS
      <3>2. PICK w : w = dev.row
        OBVIOUS
      <3>3. R = Over(Only(List, q), w)
        BY <2>2, <3>1, <3>2
      <3>4. DOMAIN R = {List} \union DOMAIN w /\ R[List] = q /\ \A x \in DOMAIN w \ {List} : R[x] = w[x]
        BY <3>3 DEF Over, Only
      <3> QED
        BY <3>1, <3>2, <3>4
    <2>4. /\ BoardOf(R, List) = r.board /\ BoardOf(R, Item) = r.board
          /\ \A x \in DOMAIN dev.row \intersect Boards : BoardOf(R, x) = Home(x)
      BY <1>5, <2>3, HomeAfter
    <2> QED
      BY <1>2, <1>3, <1>5, <1>7, <2>1, <2>2, <2>3, <2>4
  <1>10. \A x \in {List} \union DOMAIN dev.row : BoardOf(dev'.row, x) \in Boards \intersect DOMAIN dev.row
    BY <1>2, <1>9, HomeNames DEF HomeInv, NoOrphans, Entities
  <1>11. \A x \in DOMAIN dev.row :
              \/ BoardOf(dev'.row, x) = Home(x)
              \/ /\ At(dev.bind, BoardOf(dev'.row, x)) = At(dev.bind, Home(x))
                 /\ dev'.row[BoardOf(dev'.row, x)].key = NoKey
    BY <1>2, <1>8, <1>9, HomeNames DEF Entities
  <1> QED
    BY <1>1, <1>2, <1>3, <1>4, <1>5, <1>6, <1>10, <1>11, HomeRowWritten

-----------------------------------------------------------------------------
(* A server is connected                                                   *)

\* What a connection declares, besides the user's home key: keys of boards that
\* are this server's or no server's yet, and keys that this server reported.
LEMMA HelloIs ==
    ASSUME HomeInv, UpToDate, NEW s \in world.servers, NEW k \in HelloKeys(mem, s), k # s
    PROVE  /\ k \in ShareKeys
           /\ \/ \E b \in Boards \intersect DOMAIN dev.row : KeyOn(b) = k /\ At(dev.bind, b) \in {None, s}
              \/ k \in DOMAIN dev.roster /\ dev.roster[k] = s
  <1> DEFINE server == IF s \in mem.known THEN s ELSE None
             servers(x) == {At(mem.bind, b) : b \in {y \in DOMAIN mem.boardKey : mem.boardKey[y] = x}}
             rows == [x \in Range(mem.boardKey) |->
                        IF Single(servers(x)) THEN CHOOSE t \in servers(x) : TRUE ELSE None]
  <1>1. /\ mem.boardKey = [b \in {x \in DOMAIN dev.row \intersect Boards : dev.row[x].key # NoKey} |-> dev.row[b].key]
        /\ mem.bind = dev.bind /\ mem.roster = dev.roster
    BY FreshIs DEF HomeInv, MembersInv
  <1>2. BoardKeyRows(mem) = rows
    BY Zenon DEF BoardKeyRows
  <1>3. /\ k \in Scoped(rows, server) \union Scoped(mem.roster, server)
    BY <1>2 DEF HelloKeys
  <1>4. server \in {None, s}
    OBVIOUS
  <1>5. CASE k \in Scoped(mem.roster, server)
    <2>1. k \in DOMAIN dev.roster /\ dev.roster[k] \in {None, server}
      BY <1>1, <1>5 DEF Scoped
    <2>2. k \in ShareKeys /\ dev.roster[k] \in world.servers
      BY <2>1 DEF HomeInv, HomeShape
    <2> QED
      BY <1>4, <2>1, <2>2, HomeNames
  <1>6. CASE k \in Scoped(rows, server)
    <2>1. k \in Range(mem.boardKey) /\ rows[k] \in {None, server}
      BY <1>6 DEF Scoped
    <2>2. PICK b \in DOMAIN mem.boardKey : mem.boardKey[b] = k
      BY <2>1 DEF Range
    <2>3. b \in Boards \intersect DOMAIN dev.row /\ KeyOn(b) = k /\ k # NoKey
      BY <1>1, <2>2 DEF KeyOn
    <2>4. ASSUME NEW y \in DOMAIN mem.boardKey, mem.boardKey[y] = k PROVE y = b
      BY <1>1, <2>3, <2>4 DEF KeyOn, HomeInv, OwnKeys
    <2>5. servers(k) = {At(dev.bind, b)}
      BY <1>1, <2>2, <2>4
    <2>6. Single(servers(k)) /\ (CHOOSE t \in servers(k) : TRUE) = At(dev.bind, b)
      BY <2>5 DEF Single
    <2>7. rows[k] = At(dev.bind, b)
      BY <2>1, <2>6
    <2>8. k \in ShareKeys
      BY <2>3 DEF KeyOn, HomeInv, HomeShape
    <2> QED
      BY <1>4, <2>1, <2>3, <2>7, <2>8
  <1> QED
    BY <1>3, <1>5, <1>6

\* A key a connection declares is no other server's.
LEMMA HelloAtHome ==
    ASSUME HomeInv, UpToDate, NEW s \in world.servers, NEW k \in HelloKeys(mem, s), k # s
    PROVE  /\ k \in ShareKeys /\ k \notin left /\ now >= 1
           /\ \A t \in world.servers : Tracked(k, t) => t = s
           /\ \A b \in DOMAIN dev.row : KeyOn(b) = k => At(dev.bind, b) \in {None, s}
  <1>1. /\ k \in ShareKeys
        /\ \/ \E b \in Boards \intersect DOMAIN dev.row : KeyOn(b) = k /\ At(dev.bind, b) \in {None, s}
           \/ k \in DOMAIN dev.roster /\ dev.roster[k] = s
    BY HelloIs
  <1>2. CASE \E b \in Boards \intersect DOMAIN dev.row : KeyOn(b) = k /\ At(dev.bind, b) \in {None, s}
    <2>1. PICK b \in Boards \intersect DOMAIN dev.row : KeyOn(b) = k /\ At(dev.bind, b) \in {None, s}
      BY <1>2
    <2>2. k \notin left
      BY <2>1 DEF HomeInv, LeftKeys
    <2>3. now >= 1
      BY <2>1, HomeNames DEF HomeInv, HomeShape
    <2>4. \A t \in world.servers : Tracked(k, t) => t = s
      BY <1>1, <2>1, HomeNames DEF HomeInv, KeysAtHome
    <2>5. \A c \in DOMAIN dev.row : KeyOn(c) = k => c = b
      BY <1>1, <2>1, HomeNames DEF HomeInv, OwnKeys
    <2> QED
      BY <1>1, <2>1, <2>2, <2>3, <2>4, <2>5
  <1>3. CASE k \in DOMAIN dev.roster /\ dev.roster[k] = s
    <2>1. Tracked(k, s)
      BY <1>3 DEF Tracked
    <2>2. k \notin left
      BY <1>3 DEF HomeInv, LeftKeys
    <2>3. /\ dev.cursor[k] > 0
          /\ \A b \in DOMAIN dev.row : KeyOn(b) = k => At(dev.bind, b) = s
          /\ \A t \in world.servers : Tracked(k, t) => t = s
      BY <1>1, <2>1 DEF HomeInv, KeysAtHome
    <2>4. dev.cursor[k] \in 0..now
      BY <1>1 DEF HomeInv, HomeShape, Keys
    <2> QED
      BY <1>1, <2>2, <2>3, <2>4, HomeNames
  <1> QED
    BY <1>1, <1>2, <1>3

\* bindUnboundBoards: every board that is held has a server now.
LEMMA BindsAll ==
    ASSUME HomeInv, UpToDate, NEW s \in world.servers, NEW B, B = Over(BindUnbound(mem, s), dev.bind)
    PROVE  /\ DOMAIN B = Boards \intersect DOMAIN dev.row
           /\ \A b \in DOMAIN dev.bind : B[b] = dev.bind[b]
           /\ \A b \in DOMAIN B \ DOMAIN dev.bind : B[b] = s
  <1>1. mem.boards = DOMAIN dev.row \intersect Boards /\ mem.bind = dev.bind
    BY FreshIs DEF HomeInv, MembersInv
  <1>2. \A b \in DOMAIN dev.bind : b \in Boards \intersect DOMAIN dev.row /\ dev.bind[b] \in world.servers
    BY DEF HomeInv, HomeShape
  <1>3. PICK U : U = BindUnbound(mem, s)
    OBVIOUS
  <1>4. \A b : At(mem.bind, b) = None <=> b \notin DOMAIN dev.bind
    BY <1>1, <1>2, HomeNames DEF At
  <1>5. DOMAIN U = (Boards \intersect DOMAIN dev.row) \ DOMAIN dev.bind /\ \A b \in DOMAIN U : U[b] = s
    BY <1>1, <1>3, <1>4 DEF BindUnbound
  <1>6. PICK w : w = dev.bind
    OBVIOUS
  <1>7. /\ DOMAIN Over(U, w) = DOMAIN U \union DOMAIN w
        /\ \A x \in DOMAIN U : Over(U, w)[x] = U[x]
        /\ \A x \in DOMAIN w \ DOMAIN U : Over(U, w)[x] = w[x]
    BY OverAt
  <1>8. B = Over(U, w)
    BY <1>3, <1>6
  <1> QED
    BY <1>2, <1>5, <1>6, <1>7, <1>8

\* The upload, where nothing was deleted.
LEMMA UploadedHome ==
    ASSUME NEW S, ServerOK(S), DOMAIN S.tomb = {}, NEW d, DeviceOK(d), DOMAIN d.tomb = {}, NEW m, NEW s, NEW keys,
           NEW R, R = RowsFor(d, m, s, keys)
    PROVE  LET U == Uploaded(S, d, m, s, keys) IN
           /\ DOMAIN U.tomb = {} /\ U.userKeys = S.userKeys
           /\ DOMAIN U.row = DOMAIN S.row \union R /\ U.had \subseteq S.had \union R
           /\ \A e \in DOMAIN S.row \ R : U.row[e] = S.row[e]
           /\ \A e \in R : /\ U.row[e].ns = KeyOf(d.row, BoardOf(d.row, e), s)
                           /\ \/ U.row[e].ts = d.row[e].ts
                              \/ e \in DOMAIN S.row /\ U.row[e].ts = S.row[e].ts
  <1> DEFINE rows == Restrict(d.row, RowsFor(d, m, s, keys))
             ns == [e \in DOMAIN rows |-> KeyOf(d.row, BoardOf(d.row, e), s)]
             tombs == [e \in TombsFor(d, s, keys) |-> [at |-> d.tomb[e].at, key |-> TombKey(d.tomb[e], s)]]
             P == Upsert(S, rows, ns)
             U == Uploaded(S, d, m, s, keys)
  <1>1. U = Bury(P, tombs)
    BY Zenon DEF Uploaded
  <1>2. RowsFor(d, m, s, keys) \subseteq DOMAIN d.row
    BY DEF RowsFor
  <1>3. DOMAIN rows = R /\ \A e \in R : rows[e] = d.row[e]
    BY <1>2 DEF Restrict
  <1>4. \A e \in DOMAIN rows : ns[e] = KeyOf(d.row, BoardOf(d.row, e), s)
    OBVIOUS
  <1>5. DOMAIN tombs = {}
    BY DEF TombsFor
  <1> HIDE DEF rows, ns, tombs, U
  <1>6. DOMAIN rows \subseteq Entities /\ KeysOfBoardsOnly(rows) /\ \A e \in DOMAIN rows : rows[e].ts \in Nat
    BY <1>2, <1>3 DEF DeviceOK, RowsOK, KeysOfBoardsOnly
  <1>7. ServerOK(P)
    BY <1>6, UpsertOK
  <1>8. /\ P.tomb = S.tomb /\ P.userKeys = S.userKeys
        /\ DOMAIN P.row = DOMAIN S.row \union DOMAIN rows /\ P.had \subseteq S.had \union DOMAIN rows
        /\ \A e \in DOMAIN S.row \ DOMAIN rows : P.row[e] = S.row[e]
        /\ \A e \in DOMAIN rows : /\ P.row[e].ns = ns[e]
                                  /\ \/ P.row[e].ts = rows[e].ts
                                     \/ e \in DOMAIN S.row /\ P.row[e].ts = S.row[e].ts
    BY UpsertLands
  <1> HIDE DEF P
  <1>9. /\ Bury(P, tombs).userKeys = P.userKeys /\ Bury(P, tombs).had = P.had
        /\ \A e \in DOMAIN Bury(P, tombs).row : Bury(P, tombs).row[e] = P.row[e]
        /\ DOMAIN Bury(P, tombs).row = DOMAIN P.row /\ DOMAIN Bury(P, tombs).tomb = DOMAIN P.tomb
    BY <1>5, <1>7, BuryIs
  <1>10. /\ DOMAIN U.tomb = {} /\ U.userKeys = S.userKeys
         /\ DOMAIN U.row = DOMAIN S.row \union R /\ U.had \subseteq S.had \union R
         /\ \A e \in DOMAIN S.row \union R : U.row[e] = P.row[e]
    BY <1>1, <1>3, <1>8, <1>9
  <1>11. \A e \in DOMAIN S.row \ R : U.row[e] = S.row[e]
    BY <1>3, <1>8, <1>10
  <1>12. \A e \in R : /\ U.row[e].ns = KeyOf(d.row, BoardOf(d.row, e), s)
                      /\ \/ U.row[e].ts = d.row[e].ts
                         \/ e \in DOMAIN S.row /\ U.row[e].ts = S.row[e].ts
    BY <1>3, <1>4, <1>8, <1>10
  <1> QED
    BY <1>10, <1>11, <1>12 DEF U

\* A pull that brings nothing new.
LEMMA DownloadedSame ==
    ASSUME NEW S, ServerOK(S), DOMAIN S.tomb = {}, NEW d, DeviceOK(d), DOMAIN d.tomb = {}, NEW keys,
           \A e \in Pulled(S, d, keys) : e \in DOMAIN d.row /\ S.row[e].ts <= d.row[e].ts
    PROVE  LET D == Downloaded(S, d, keys) IN
           /\ DOMAIN D.row = DOMAIN d.row /\ \A e \in DOMAIN d.row : D.row[e] = d.row[e]
           /\ DOMAIN D.tomb = {} /\ D.roster = d.roster /\ D.bind = d.bind
           /\ DOMAIN D.cursor = DOMAIN d.cursor
           /\ \A k \in DOMAIN d.cursor : D.cursor[k] = IF k \in keys THEN now ELSE d.cursor[k]
  <1> DEFINE rows == Restrict(S.row, Pulled(S, d, keys))
             newer == {e \in DOMAIN rows : e \notin DOMAIN d.row \/ d.row[e].ts < rows[e].ts}
             new == [e \in newer |-> [ts |-> rows[e].ts, key |-> rows[e].key, board |-> rows[e].board]]
             M == MergeRow(d, rows)
             tombs == Restrict(S.tomb, PulledTombs(S, d, keys))
             dead == Over([e \in DOMAIN tombs |-> [at |-> tombs[e].at, key |-> None]], M.tomb)
             away == {e \in DOMAIN tombs \intersect DOMAIN M.row : M.row[e].ts <= tombs[e].at}
             T == MergeTomb(M, tombs)
             c == [k \in DOMAIN T.cursor |-> IF k \in keys THEN now ELSE T.cursor[k]]
             D == Downloaded(S, d, keys)
  <1>1. M = [d EXCEPT !.row = Over(new, d.row)]
    BY Zenon DEF MergeRow
  <1>2. T = [M EXCEPT !.tomb = dead, !.row = Without(M.row, away)]
    BY Zenon DEF MergeTomb
  <1>3. D = [T EXCEPT !.cursor = c]
    BY Zenon DEF Downloaded
  <1>4. DOMAIN rows = Pulled(S, d, keys) /\ \A e \in DOMAIN rows : rows[e] = S.row[e]
    BY DEF Restrict, Pulled
  <1>5. DOMAIN tombs = {}
    BY DEF Restrict, PulledTombs
  <1>6. DOMAIN dead = DOMAIN M.tomb
    <2>1. PICK f : f = [e \in DOMAIN tombs |-> [at |-> tombs[e].at, key |-> None]]
      OBVIOUS
    <2> HIDE DEF tombs, M
    <2>2. DOMAIN f = {} /\ dead = Over(f, M.tomb)
      BY <1>5, <2>1
    <2>3. DOMAIN Over(f, M.tomb) = DOMAIN f \union DOMAIN M.tomb
      BY OverAt
    <2> HIDE DEF dead
    <2> QED
      BY <2>2, <2>3
  <1>7. away = {}
    BY <1>5
  <1>8. DOMAIN c = DOMAIN T.cursor /\ \A k \in DOMAIN T.cursor : c[k] = IF k \in keys THEN now ELSE T.cursor[k]
    OBVIOUS
  <1>9. newer = {}
    <2> HIDE DEF rows
    <2>1. ASSUME NEW e \in newer PROVE FALSE
      <3>1. e \in DOMAIN rows /\ (e \notin DOMAIN d.row \/ d.row[e].ts < rows[e].ts)
        BY <2>1
      <3>2. e \in DOMAIN d.row /\ S.row[e].ts <= d.row[e].ts /\ rows[e] = S.row[e] /\ e \in DOMAIN S.row
        BY <1>4, <3>1 DEF Pulled
      <3>3. S.row[e].ts \in Nat /\ d.row[e].ts \in Nat
        BY <3>2 DEF ServerOK, DeviceOK, RowsOK
      <3> QED
        BY <3>1, <3>2, <3>3
    <2> QED
      BY <2>1
  <1>10. DOMAIN new = {}
    BY <1>9
  <1> HIDE DEF newer, new, rows, tombs, dead, away, c, M, T, D
  <1>11. /\ DOMAIN M = {"row", "tomb", "cursor", "roster", "bind", "known"} /\ M.row = Over(new, d.row)
         /\ M.tomb = d.tomb /\ M.cursor = d.cursor /\ M.roster = d.roster /\ M.bind = d.bind
    BY <1>1 DEF DeviceOK
  <1>12. /\ DOMAIN T = DOMAIN M /\ T.row = Without(M.row, away)
         /\ T.tomb = dead /\ T.cursor = d.cursor /\ T.roster = d.roster /\ T.bind = d.bind
    BY <1>2, <1>11
  <1>13. /\ D.row = T.row /\ D.tomb = dead /\ D.cursor = c /\ D.roster = d.roster /\ D.bind = d.bind
    BY <1>3, <1>11, <1>12
  <1>14. /\ DOMAIN Over(new, d.row) = DOMAIN new \union DOMAIN d.row
         /\ \A x \in DOMAIN d.row \ DOMAIN new : Over(new, d.row)[x] = d.row[x]
    BY OverAt
  <1>15. /\ DOMAIN Without(M.row, away) = DOMAIN M.row \ away
         /\ \A x \in DOMAIN M.row \ away : Without(M.row, away)[x] = M.row[x]
    BY WithoutAt
  <1>16. DOMAIN D.row = DOMAIN d.row /\ \A e \in DOMAIN d.row : D.row[e] = d.row[e]
    BY <1>7, <1>10, <1>11, <1>12, <1>13, <1>14, <1>15
  <1>17. DOMAIN D.tomb = {} /\ D.roster = d.roster /\ D.bind = d.bind
    BY <1>6, <1>11, <1>13
  <1>18. /\ DOMAIN D.cursor = DOMAIN d.cursor
         /\ \A k \in DOMAIN d.cursor : D.cursor[k] = IF k \in keys THEN now ELSE d.cursor[k]
    BY <1>8, <1>12, <1>13
  <1> QED
    BY <1>16, <1>17, <1>18 DEF D

\* Server s is connected with the keys hello,
Opened(s, hello) ==
    /\ DOMAIN conn' = {s} \union DOMAIN conn /\ conn'[s].keys = hello \union {s}
    /\ \A t \in DOMAIN conn \ {s} : conn'[t] = conn[t]

\* the device has adopted its keys, bound its boards, and pulled nothing,
Adopted(s, hello) ==
    /\ DOMAIN dev'.row = DOMAIN dev.row /\ \A e \in DOMAIN dev.row : dev'.row[e] = dev.row[e]
    /\ DOMAIN dev'.tomb = {}
    /\ DOMAIN dev'.cursor = DOMAIN dev.cursor
    /\ \A k \in DOMAIN dev.cursor : dev'.cursor[k] = IF k \in hello \union {s} THEN now ELSE dev.cursor[k]
    /\ DOMAIN dev'.roster = DOMAIN dev.roster \union srv'[s].userKeys
    /\ \A k \in DOMAIN dev.roster : dev'.roster[k] = dev.roster[k]
    /\ \A k \in srv'[s].userKeys \ DOMAIN dev.roster : dev'.roster[k] = s
    /\ DOMAIN dev'.bind = Boards \intersect DOMAIN dev.row
    /\ \A b \in DOMAIN dev.bind : dev'.bind[b] = dev.bind[b]
    /\ \A b \in DOMAIN dev'.bind \ DOMAIN dev.bind : dev'.bind[b] = s

\* and R, all that is above the cursor of its key, is on the server.
Received(s, hello, R) ==
    /\ R \subseteq DOMAIN dev.row /\ \A e \in R : dev'.bind[Home(e)] = s
    /\ \A e \in DOMAIN dev.row :
          dev'.bind[Home(e)] = s /\ HomeKey(e) # NoKey /\ HomeKey(e) \in hello /\ dev.row[e].ts > dev.cursor[HomeKey(e)]
             => e \in R
    /\ \A t \in world.servers \ {s} : srv'[t] = srv[t]
    /\ DOMAIN srv'[s].tomb = {} /\ srv'[s].userKeys = srv[s].userKeys \union (hello \ {s})
    /\ DOMAIN srv'[s].row = DOMAIN srv[s].row \union R /\ srv'[s].had \subseteq srv[s].had \union R
    /\ \A e \in DOMAIN srv[s].row \ R : srv'[s].row[e] = srv[s].row[e]
    /\ \A e \in R : /\ srv'[s].row[e].ns = KeyOf(dev.row, Home(e), s)
                    /\ \/ srv'[s].row[e].ts = dev.row[e].ts
                       \/ e \in DOMAIN srv[s].row /\ srv'[s].row[e].ts = srv[s].row[e].ts

LEMMA HomeConnected ==
    ASSUME HomeInv, MembersInv', UpToDate, NEW s \in world.servers,
           world' = world, now' = now, pending = None, pending' = None, left' = left, was \subseteq was',
           NEW hello, hello = HelloKeys(mem, s), NEW R,
           Opened(s, hello), Adopted(s, hello), Received(s, hello, R)
    PROVE  HomeInv'
  <1> USE DEF Opened, Adopted, Received
  <1>1. \A e \in DOMAIN dev.row : BoardOf(dev'.row, e) = Home(e) /\ Home(e) \in Boards \intersect DOMAIN dev.row
    <2>1. \A e \in DOMAIN dev.row : BoardOf(dev'.row, e) = Home(e)
      BY HomeNames DEF Home, BoardOf, Entities
    <2> QED
      BY <2>1 DEF HomeInv, NoOrphans
  <1>2. \A e \in DOMAIN dev.row : Home(e)' = Home(e) /\ KeyOn(e)' = KeyOn(e) /\ HomeKey(e)' = HomeKey(e)
    BY <1>1 DEF Home, KeyOn, HomeKey
  <1>3. \A b \in Boards \intersect DOMAIN dev.row :
            /\ At(dev'.bind, b) = dev'.bind[b]
            /\ At(dev.bind, b) = dev'.bind[b] \/ (At(dev.bind, b) = None /\ dev'.bind[b] = s)
            /\ dev'.bind[b] \in world.servers
    BY DEF At, HomeInv, HomeShape
  <1>4. \A k \in hello \ {s} :
            /\ k \in ShareKeys /\ k \notin left /\ now >= 1
            /\ \A t \in world.servers : Tracked(k, t) => t = s
            /\ \A b \in DOMAIN dev.row : KeyOn(b) = k => At(dev.bind, b) \in {None, s}
    BY HelloAtHome
  <1>5. \A t \in world.servers : \A k \in ShareKeys : Tracked(k, t)' => Tracked(k, t) \/ (t = s /\ k \in hello \ {s})
    <2>1. ASSUME NEW t \in world.servers, NEW k \in ShareKeys, Tracked(k, t)'
          PROVE  Tracked(k, t) \/ (t = s /\ k \in hello \ {s})
      <3>1. \/ k \in srv'[t].userKeys
            \/ k \in DOMAIN dev'.roster /\ dev'.roster[k] = t
            \/ t \in DOMAIN conn' /\ k \in conn'[t].keys \ {t}
        BY <2>1 DEF Tracked
      <3>2. \A x \in srv'[s].userKeys : Tracked(x, s) \/ x \in hello \ {s}
        BY DEF Tracked
      <3>3. CASE k \in srv'[t].userKeys
        BY <3>2, <3>3 DEF Tracked
      <3>4. CASE k \in DOMAIN dev'.roster /\ dev'.roster[k] = t
        BY <3>2, <3>4 DEF Tracked
      <3>5. CASE t \in DOMAIN conn' /\ k \in conn'[t].keys \ {t}
        BY <3>5 DEF Tracked
      <3> QED
        BY <3>1, <3>3, <3>4, <3>5
    <2> QED
      BY <2>1
  <1>6. \A k \in ShareKeys : k \in DOMAIN dev.cursor
    BY DEF HomeInv, HomeShape, Keys
  <1>7. \A k \in ShareKeys : dev'.cursor[k] = IF k \in hello THEN now ELSE dev.cursor[k]
    BY <1>6, HomeNames
  <1>8. \A k \in ShareKeys : dev.cursor[k] \in 0..now
    BY <1>6 DEF HomeInv, HomeShape
  <1>9. HomeShape'
    <2>1. \A e \in DOMAIN dev'.row : dev'.row[e].ts \in 1..now' /\ dev'.row[e].key \in ShareKeys \union {NoKey}
      BY DEF HomeInv, HomeShape
    <2>2. DOMAIN dev'.cursor = Keys \union {NoKey} /\ \A k \in DOMAIN dev'.cursor : dev'.cursor[k] \in 0..now'
      BY HomeNames DEF HomeInv, HomeShape
    <2>3. \A b \in DOMAIN dev'.bind : b \in Boards \intersect DOMAIN dev'.row /\ dev'.bind[b] \in world.servers
      BY <1>3
    <2>4. \A k \in srv'[s].userKeys : k \in ShareKeys
      BY <1>4 DEF HomeInv, HomeShape
    <2>5. \A k \in DOMAIN dev'.roster : k \in ShareKeys /\ dev'.roster[k] \in world.servers
      BY <2>4 DEF HomeInv, HomeShape
    <2>6. \A t \in DOMAIN conn' : conn'[t].keys \subseteq {t} \union ShareKeys
      BY <1>4 DEF HomeInv, HomeShape
    <2>7. ASSUME NEW t \in world.servers
          PROVE  srv'[t].userKeys \subseteq ShareKeys /\ DOMAIN srv'[t].tomb = {} /\ \A e \in srv'[t].had : \E x \in was' : x[1] = e
      <3>1. srv[t].userKeys \subseteq ShareKeys /\ DOMAIN srv[t].tomb = {} /\ \A e \in srv[t].had : \E x \in was : x[1] = e
        BY DEF HomeInv, HomeShape
      <3>2. \A e \in R : \E x \in was : x[1] = e
        BY HeldInHistory
      <3>3. CASE t = s
        BY <2>4, <3>1, <3>2, <3>3
      <3>4. CASE t # s
        BY <3>1, <3>4
      <3> QED
        BY <3>3, <3>4
    <2> QED
      BY <2>1, <2>2, <2>3, <2>5, <2>6, <2>7 DEF HomeShape
  <1>10. NoOrphans'
    BY <1>1, <1>2 DEF NoOrphans
  <1>11. OwnKeys'
    BY <1>2 DEF OwnKeys, HomeInv
  <1>12. Bound'
    BY DEF Bound
  <1>13. \A e \in DOMAIN dev.row : At(dev.bind, Home(e)) # None => dev'.bind[Home(e)] = At(dev.bind, Home(e))
    BY <1>1, <1>3
  <1>14. AtHome'
    <2>1. ASSUME NEW t \in world.servers, NEW e \in DOMAIN dev.row \intersect srv'[t].had PROVE At(dev'.bind, Home(e)) = t
      <3>1. CASE e \in srv[t].had
        BY <1>1, <1>3, <1>13, <3>1, HomeNames DEF HomeInv, AtHome
      <3>2. CASE e \notin srv[t].had
        <4>1. t = s /\ e \in R
          BY <2>1, <3>2
        <4> QED
          BY <1>1, <1>3, <4>1
      <3> QED
        BY <3>1, <3>2
    <2>2. \A t \in world.servers : \A e \in DOMAIN dev'.row \intersect srv'[t].had : At(dev.bind, Home(e))' = At(dev'.bind, Home(e))
      BY <1>2
    <2> QED
      BY <2>1, <2>2 DEF AtHome
  <1>15. KeysAtHome'
    <2>1. ASSUME NEW t \in world.servers, NEW k \in ShareKeys, Tracked(k, t)'
          PROVE  /\ dev'.cursor[k] > 0
                 /\ \A b \in DOMAIN dev.row : KeyOn(b) = k => At(dev'.bind, b) = t
                 /\ \A u \in world.servers : Tracked(k, u)' => u = t
      <3>1. \A b \in DOMAIN dev.row : KeyOn(b) = k => b \in Boards
        BY HomeNames DEF KeyOn, HomeInv, MembersInv, SharingShape, RowsOK, KeysOfBoardsOnly
      <3>2. CASE Tracked(k, t)
        <4>1. /\ dev.cursor[k] > 0
              /\ \A b \in DOMAIN dev.row : KeyOn(b) = k => At(dev.bind, b) = t
              /\ \A u \in world.servers : Tracked(k, u) => u = t
          BY <3>2 DEF HomeInv, KeysAtHome
        <4>2. dev'.cursor[k] > 0
          BY <1>7, <1>8, <4>1, HomeNames
        <4>3. \A b \in DOMAIN dev.row : KeyOn(b) = k => At(dev'.bind, b) = t
          BY <1>3, <3>1, <4>1, HomeNames
        <4>4. \A u \in world.servers : Tracked(k, u)' => u = t
          BY <1>4, <1>5, <3>2, <4>1
        <4> QED
          BY <4>2, <4>3, <4>4
      <3>3. CASE t = s /\ k \in hello \ {s}
        <4>1. dev'.cursor[k] > 0
          BY <1>4, <1>7, <3>3, HomeNames
        <4>2. \A b \in DOMAIN dev.row : KeyOn(b) = k => At(dev'.bind, b) = t
          BY <1>3, <1>4, <3>1, <3>3, HomeNames
        <4>3. \A u \in world.servers : Tracked(k, u)' => u = t
          BY <1>4, <1>5, <3>3
        <4> QED
          BY <4>1, <4>2, <4>3
      <3> QED
        BY <1>5, <2>1, <3>2, <3>3
    <2> QED
      BY <1>2, <2>1 DEF KeysAtHome
  <1>16. Behind'
    <2>1. ASSUME NEW t \in world.servers, NEW e \in DOMAIN srv'[t].row
          PROVE  IF e \in DOMAIN dev.row THEN srv'[t].row[e].ts <= dev.row[e].ts ELSE srv'[t].row[e].ns \in left
      <3>1. e \in DOMAIN srv[t].row =>
                IF e \in DOMAIN dev.row THEN srv[t].row[e].ts <= dev.row[e].ts ELSE srv[t].row[e].ns \in left
        BY DEF HomeInv, Behind
      <3>2. e \in DOMAIN dev.row => dev.row[e].ts \in Nat
        BY DEF HomeInv, HomeShape
      <3>3. CASE t # s
        BY <3>1, <3>3
      <3>4. CASE t = s
        BY <2>1, <3>1, <3>2, <3>4
      <3> QED
        BY <3>3, <3>4
    <2> QED
      BY <2>1 DEF Behind
  <1>17. UnderKey'
    <2>1. ASSUME NEW t \in world.servers, NEW e \in DOMAIN dev.row \intersect DOMAIN srv'[t].row,
                 NEW k, k = HomeKey(e), k # NoKey, dev'.cursor[k] > 0
          PROVE  srv'[t].row[e].ns = k
      <3>1. KeyOn(Home(e)) = k /\ k \in ShareKeys /\ Home(e) \in Boards \intersect DOMAIN dev.row
        BY <1>1, <2>1 DEF HomeKey, KeyOn, HomeInv, HomeShape
      <3>2. e \in DOMAIN srv[t].row => At(dev.bind, Home(e)) = t /\ (dev.cursor[k] > 0 => srv[t].row[e].ns = k)
        BY <2>1, HomeNames DEF HomeInv, AtHome, UnderKey
      <3>3. CASE t = s /\ e \in R
        BY <2>1, <3>1, <3>3 DEF KeyOf, KeyOn
      <3>4. CASE ~(t = s /\ e \in R)
        <4>1. e \in DOMAIN srv[t].row /\ srv'[t].row[e] = srv[t].row[e]
          BY <2>1, <3>4
        <4>2. CASE dev.cursor[k] > 0
          BY <3>2, <4>1, <4>2
        <4>3. CASE ~(dev.cursor[k] > 0)
          <5>1. k \in hello /\ k # s
            BY <1>7, <2>1, <3>1, <4>3, HomeNames
          <5>2. t = s
            BY <1>4, <3>1, <3>2, <4>1, <5>1, HomeNames
          <5>3. dev'.bind[Home(e)] = s
            BY <1>13, <3>2, <4>1, <5>2, HomeNames
          <5>4. dev.row[e].ts > dev.cursor[k]
            BY <1>8, <3>1, <4>3 DEF HomeInv, HomeShape
          <5> QED
            BY <2>1, <3>4, <5>1, <5>2, <5>3, <5>4
        <4> QED
          BY <4>2, <4>3
      <3> QED
        BY <3>3, <3>4
    <2> QED
      BY <1>2, <2>1 DEF UnderKey
  <1>18. LeftKeys'
    <2>1. ASSUME NEW k \in left
          PROVE  /\ k \in ShareKeys /\ dev'.cursor[k] > 0
                 /\ k \notin DOMAIN dev'.roster /\ \A e \in DOMAIN dev'.row : KeyOn(e)' # k
                 /\ \A t \in world.servers : k \notin srv'[t].userKeys
      <3>1. /\ k \in ShareKeys /\ dev.cursor[k] > 0
            /\ k \notin DOMAIN dev.roster /\ \A e \in DOMAIN dev.row : KeyOn(e) # k
            /\ \A t \in world.servers : k \notin srv[t].userKeys
        BY DEF HomeInv, LeftKeys
      <3>2. k \notin hello
        BY <1>4, <3>1, HomeNames
      <3>3. dev'.cursor[k] > 0
        BY <1>7, <3>1, <3>2
      <3>4. \A t \in world.servers : k \notin srv'[t].userKeys
        BY <3>1, <3>2
      <3> QED
        BY <1>2, <3>1, <3>3, <3>4
    <2> QED
      BY <2>1 DEF LeftKeys
  <1>19. Spared(world)' /\ ~Single(world.servers)'
    BY DEF HomeInv, Spared, Single
  <1> QED
    BY <1>9, <1>10, <1>11, <1>12, <1>14, <1>15, <1>16, <1>17, <1>18, <1>19 DEF HomeInv

LEMMA HomeReady ==
    ASSUME HomeInv, MembersInv', UpToDate, NEW s \in world.servers,
           world' = world, now' = now, pending = None, pending' = None, left' = left, was \subseteq was',
           NEW hello, hello = HelloKeys(mem, s), NEW userKeys, userKeys = srv[s].userKeys \union (hello \ {s}),
           Ready(s, hello, userKeys)
    PROVE  HomeInv'
  <1> DEFINE keys == hello \union {s}
             bound == BindUnbound(mem, s)
             d0 == [dev EXCEPT !.known = dev.known \union {s}, !.roster = Adopt(dev.roster, userKeys, s),
                               !.bind = Over(bound, dev.bind)]
             m0 == [mem EXCEPT !.bind = Over(bound, mem.bind)]
             S0 == [srv[s] EXCEPT !.userKeys = userKeys]
             U0 == Uploaded(S0, d0, m0, s, keys)
             pulled == Pulled(U0, d0, keys)
  <1>1. /\ conn' = Over(Only(s, [hello |-> hello, keys |-> keys]), conn)
        /\ srv' = [srv EXCEPT ![s] = U0]
        /\ dev' = Downloaded(U0, d0, keys)
    BY Zenon DEF Ready
  <1>2. PICK d : d = d0
    OBVIOUS
  <1>3. PICK m : m = m0
    OBVIOUS
  <1>4. PICK S : S = S0
    OBVIOUS
  <1>5. PICK B : B = Over(bound, dev.bind)
    OBVIOUS
  <1>6. PICK A : A = Adopt(dev.roster, userKeys, s)
    OBVIOUS
  <1>7. mem.bind = dev.bind
    BY FreshIs DEF HomeInv, MembersInv
  <1>8. /\ DOMAIN d = DOMAIN dev /\ d.row = dev.row /\ d.tomb = dev.tomb /\ d.cursor = dev.cursor
        /\ d.roster = A /\ d.bind = B
    BY <1>2, <1>5, <1>6 DEF HomeInv, MembersInv, SharingShape
  <1>9. m.bind = B
    BY <1>3, <1>5, <1>7 DEF HomeInv, MembersInv, SharingShape
  <1>10. ServerOK(srv[s]) /\ DOMAIN srv[s].tomb = {}
    BY HomeNames DEF HomeInv, HomeShape
  <1>11. /\ DOMAIN S = DOMAIN srv[s] /\ S.row = srv[s].row /\ S.tomb = srv[s].tomb /\ S.had = srv[s].had
         /\ S.shown = srv[s].shown /\ S.userKeys = userKeys
    BY <1>4, <1>10 DEF ServerOK
  <1>12. PICK U : U = Uploaded(S, d, m, s, keys)
    OBVIOUS
  <1>13. srv' = [srv EXCEPT ![s] = U] /\ dev' = Downloaded(U, d, keys)
    BY <1>1, <1>2, <1>3, <1>4, <1>12
  <1>14. PICK v : v = [hello |-> hello, keys |-> keys]
    OBVIOUS
  <1>15. conn' = Over(Only(s, v), conn) /\ v.keys = keys
    BY <1>1, <1>14
  <1> HIDE DEF keys, bound, d0, m0, S0, U0, pulled
  <1>16. /\ DOMAIN conn' = {s} \union DOMAIN conn /\ conn'[s] = v /\ \A t \in DOMAIN conn \ {s} : conn'[t] = conn[t]
    <2>1. PICK w : w = conn
      OBVIOUS
    <2>2. /\ DOMAIN Over(Only(s, v), w) = {s} \union DOMAIN w
          /\ Over(Only(s, v), w)[s] = v
          /\ \A x \in DOMAIN w \ {s} : Over(Only(s, v), w)[x] = w[x]
      BY DEF Over, Only
    <2> QED
      BY <1>15, <2>1, <2>2
  <1>17. /\ DOMAIN B = Boards \intersect DOMAIN dev.row
         /\ \A b \in DOMAIN dev.bind : B[b] = dev.bind[b]
         /\ \A b \in DOMAIN B \ DOMAIN dev.bind : B[b] = s
    BY <1>5, BindsAll DEF bound
  <1>18. /\ DOMAIN A = DOMAIN dev.roster \union userKeys
         /\ \A k \in DOMAIN dev.roster : A[k] = dev.roster[k]
         /\ \A k \in userKeys \ DOMAIN dev.roster : A[k] = s
    <2>1. PICK roster : roster = dev.roster
      OBVIOUS
    <2>2. \A k \in DOMAIN roster : roster[k] # None
      BY <2>1, HomeNames DEF HomeInv, HomeShape
    <2>3. A = Adopt(roster, userKeys, s)
      BY <1>6, <2>1
    <2>4. /\ DOMAIN A = DOMAIN roster \union userKeys
          /\ \A k \in DOMAIN roster : A[k] = roster[k]
          /\ \A k \in userKeys \ DOMAIN roster : A[k] = s
      BY <2>2, <2>3 DEF Adopt, At
    <2> QED
      BY <2>1, <2>4
  <1>19. DeviceOK(d) /\ DOMAIN d.tomb = {}
    BY <1>8 DEF DeviceOK, HomeInv, HomeShape, MembersInv, SharingShape
  <1>20. ServerOK(S) /\ DOMAIN S.tomb = {}
    BY <1>10, <1>11 DEF ServerOK
  <1>21. PICK R : R = RowsFor(d, m, s, keys)
    OBVIOUS
  <1>22. /\ DOMAIN U.tomb = {} /\ U.userKeys = S.userKeys
         /\ DOMAIN U.row = DOMAIN S.row \union R /\ U.had \subseteq S.had \union R
         /\ \A e \in DOMAIN S.row \ R : U.row[e] = S.row[e]
         /\ \A e \in R : /\ U.row[e].ns = KeyOf(d.row, BoardOf(d.row, e), s)
                         /\ \/ U.row[e].ts = d.row[e].ts
                            \/ e \in DOMAIN S.row /\ U.row[e].ts = S.row[e].ts
    BY <1>12, <1>19, <1>20, <1>21, UploadedHome
  <1>23. ServerOK(U)
    BY <1>12, <1>19, <1>20, UploadedOK
  <1>24. \A e \in DOMAIN dev.row :
             /\ Home(e) \in Boards \intersect DOMAIN dev.row /\ HomeKey(e) = dev.row[Home(e)].key
             /\ HomeKey(e) \in ShareKeys \union {NoKey} /\ HomeKey(e) # s
    <2>1. \A e \in DOMAIN dev.row : Home(e) \in Boards \intersect DOMAIN dev.row
      BY DEF HomeInv, NoOrphans
    <2>2. \A e \in DOMAIN dev.row : HomeKey(e) = dev.row[Home(e)].key
      BY DEF HomeKey, KeyOn
    <2>3. \A b \in DOMAIN dev.row : dev.row[b].key \in ShareKeys \union {NoKey}
      BY DEF HomeInv, HomeShape
    <2>4. s \notin ShareKeys \union {NoKey}
      BY HomeNames, SharingAssumption
    <2> QED
      BY <2>1, <2>2, <2>3, <2>4
  <1>25. \A e \in DOMAIN dev.row : At(B, Home(e)) = B[Home(e)] /\ B[Home(e)] \in world.servers
    BY <1>17, <1>24 DEF At, HomeInv, HomeShape
  <1>26. R = {e \in DOMAIN dev.row :
                /\ At(B, Home(e)) \in {None, s}
                /\ KeyOf(dev.row, Home(e), s) \in keys
                /\ dev.row[e].ts > dev.cursor[KeyOf(dev.row, Home(e), s)]}
    BY <1>8, <1>9, <1>21 DEF RowsFor, Reaches, Home
  <1>27. R \subseteq DOMAIN dev.row /\ \A e \in R : B[Home(e)] = s
    BY <1>25, <1>26, HomeNames
  <1>28. ASSUME NEW e \in DOMAIN dev.row, B[Home(e)] = s, HomeKey(e) # NoKey, HomeKey(e) \in hello,
                dev.row[e].ts > dev.cursor[HomeKey(e)]
         PROVE  e \in R
    <2>1. KeyOf(dev.row, Home(e), s) = HomeKey(e)
      BY <1>24, <1>28 DEF KeyOf
    <2> QED
      BY <1>25, <1>26, <1>28, <2>1 DEF keys
  <1>29. ASSUME NEW e \in Pulled(U, d, keys)
         PROVE  e \in DOMAIN d.row /\ U.row[e].ts <= d.row[e].ts
    <2>1. e \in DOMAIN U.row /\ U.row[e].ns \in keys
      BY DEF Pulled
    <2>2. CASE e \in R
      <3>1. e \in DOMAIN dev.row /\ dev.row[e].ts \in Nat
        BY <1>27, <2>2 DEF HomeInv, HomeShape
      <3>2. e \in DOMAIN srv[s].row => srv[s].row[e].ts <= dev.row[e].ts
        BY <3>1 DEF HomeInv, Behind
      <3> QED
        BY <1>8, <1>11, <1>22, <2>2, <3>1, <3>2
    <2>3. CASE e \notin R
      <3>1. e \in DOMAIN srv[s].row /\ U.row[e] = srv[s].row[e]
        BY <1>11, <1>22, <2>1, <2>3
      <3>2. IF e \in DOMAIN dev.row THEN srv[s].row[e].ts <= dev.row[e].ts ELSE srv[s].row[e].ns \in left
        BY <3>1 DEF HomeInv, Behind
      <3>3. \A k \in left : k \in ShareKeys
        BY DEF HomeInv, LeftKeys
      <3>4. \A k \in hello \ {s} : k \notin left
        BY HelloAtHome
      <3>5. srv[s].row[e].ns \notin left
        BY <2>1, <3>1, <3>3, <3>4, HomeNames DEF keys
      <3> QED
        BY <1>8, <3>1, <3>2, <3>5
    <2> QED
      BY <2>2, <2>3
  <1>30. PICK D : D = Downloaded(U, d, keys)
    OBVIOUS
  <1>31. /\ DOMAIN D.row = DOMAIN d.row /\ \A e \in DOMAIN d.row : D.row[e] = d.row[e]
         /\ DOMAIN D.tomb = {} /\ D.roster = d.roster /\ D.bind = d.bind
         /\ DOMAIN D.cursor = DOMAIN d.cursor
         /\ \A k \in DOMAIN d.cursor : D.cursor[k] = IF k \in keys THEN now ELSE d.cursor[k]
    BY <1>19, <1>22, <1>20, <1>23, <1>29, <1>30, DownloadedSame
  <1>32. srv'[s] = U /\ \A t \in world.servers \ {s} : srv'[t] = srv[t]
    BY <1>13, HomeNames DEF HomeInv, MembersInv, SharingShape
  <1>33. /\ DOMAIN dev'.row = DOMAIN dev.row /\ \A e \in DOMAIN dev.row : dev'.row[e] = dev.row[e]
         /\ DOMAIN dev'.tomb = {} /\ dev'.roster = A /\ dev'.bind = B
         /\ DOMAIN dev'.cursor = DOMAIN dev.cursor
         /\ \A k \in DOMAIN dev.cursor : dev'.cursor[k] = IF k \in keys THEN now ELSE dev.cursor[k]
    BY <1>8, <1>13, <1>30, <1>31
  <1>34. /\ srv'[s].userKeys = userKeys /\ DOMAIN srv'[s].tomb = {}
         /\ DOMAIN srv'[s].row = DOMAIN srv[s].row \union R /\ srv'[s].had \subseteq srv[s].had \union R
         /\ \A e \in DOMAIN srv[s].row \ R : srv'[s].row[e] = srv[s].row[e]
         /\ \A e \in R : /\ srv'[s].row[e].ns = KeyOf(dev.row, Home(e), s)
                         /\ \/ srv'[s].row[e].ts = dev.row[e].ts
                            \/ e \in DOMAIN srv[s].row /\ srv'[s].row[e].ts = srv[s].row[e].ts
    BY <1>8, <1>11, <1>22, <1>32 DEF Home
  <1>35. /\ DOMAIN dev'.roster = DOMAIN dev.roster \union srv'[s].userKeys
         /\ \A k \in DOMAIN dev.roster : dev'.roster[k] = dev.roster[k]
         /\ \A k \in srv'[s].userKeys \ DOMAIN dev.roster : dev'.roster[k] = s
    BY <1>18, <1>33, <1>34
  <1>36. /\ DOMAIN dev'.bind = Boards \intersect DOMAIN dev.row
         /\ \A b \in DOMAIN dev.bind : dev'.bind[b] = dev.bind[b]
         /\ \A b \in DOMAIN dev'.bind \ DOMAIN dev.bind : dev'.bind[b] = s
    BY <1>17, <1>33
  <1>37. /\ \A e \in R : dev'.bind[Home(e)] = s
         /\ \A e \in DOMAIN dev.row :
              dev'.bind[Home(e)] = s /\ HomeKey(e) # NoKey /\ HomeKey(e) \in hello /\ dev.row[e].ts > dev.cursor[HomeKey(e)]
                 => e \in R
    <2>1. \A e \in R : dev'.bind[Home(e)] = s
      BY <1>27, <1>33
    <2>2. \A e \in DOMAIN dev.row :
              B[Home(e)] = s /\ HomeKey(e) # NoKey /\ HomeKey(e) \in hello /\ dev.row[e].ts > dev.cursor[HomeKey(e)]
                 => e \in R
      BY <1>28
    <2> QED
      BY <1>33, <2>1, <2>2
  <1>38. conn'[s].keys = hello \union {s}
    BY <1>15, <1>16 DEF keys
  <1>39. \A k \in DOMAIN dev.cursor : dev'.cursor[k] = IF k \in hello \union {s} THEN now ELSE dev.cursor[k]
    BY <1>33 DEF keys
  <1> QED
    <2>1. Opened(s, hello)
      BY <1>16, <1>38 DEF Opened
    <2>2. Adopted(s, hello)
      BY <1>33, <1>35, <1>36, <1>39 DEF Adopted
    <2>3. Received(s, hello, R)
      BY <1>27, <1>32, <1>34, <1>37 DEF Received
    <2> QED
      BY <2>1, <2>2, <2>3, HomeConnected

LEMMA HomeConnect ==
    ASSUME HomeInv, MembersInv', NEW s \in world.servers, Connect(s)
    PROVE  HomeInv'
  <1>1. UpToDate /\ pending = None
    BY DEF Connect, HomeInv, Spared
  <1>2. /\ Ready(s, HelloKeys(mem, s), srv[s].userKeys \union (HelloKeys(mem, s) \ {s}))
        /\ world' = world /\ now' = now /\ pending' = None /\ left' = left /\ was \subseteq was'
    BY <1>1 DEF Connect, Recorded
  <1>3. PICK hello : hello = HelloKeys(mem, s)
    OBVIOUS
  <1>4. PICK userKeys : userKeys = srv[s].userKeys \union (hello \ {s})
    OBVIOUS
  <1>5. Ready(s, hello, userKeys)
    BY <1>2, <1>3, <1>4
  <1> QED
    BY <1>1, <1>2, <1>3, <1>4, <1>5, HomeReady

-----------------------------------------------------------------------------
(* Every step                                                              *)

\* What does not occur in a world that is spared.
LEMMA SparedSteps ==
    ASSUME HomeInv
    PROVE  /\ ~DeletePushed /\ \A e : ~Delete(e)
           /\ \A s, k : ~Join(s, k)
           /\ \A s, e, r, k : ~Remote(s, e, r, k)
           /\ \A s : ~RemoteDelete(s)
  <1>1. \A op \in {"remote", "join", "delete"} : op \notin world.does
    BY DEF HomeInv, Spared
  <1>2. ~DeletePushed
    BY DEF DeletePushed, HomeInv, HomeShape
  <1>3. \A e : ~Delete(e)
    BY <1>1 DEF Delete, User
  <1>4. \A s, k : ~Join(s, k)
    BY <1>1 DEF Join
  <1>5. \A s, e, r, k : ~Remote(s, e, r, k)
    BY <1>1 DEF Remote, User
  <1>6. \A s : ~RemoteDelete(s)
    BY <1>1 DEF RemoteDelete, User
  <1> QED
    BY <1>2, <1>3, <1>4, <1>5, <1>6

LEMMA HomeNext ==
    ASSUME HomeInv, [Next]_vars
    PROVE  HomeInv'
  <1>0. MembersInv'
    BY MembersNext DEF HomeInv, Spared
  <1>1. CASE UNCHANGED vars
    <2>1. \A e : Home(e)' = Home(e) /\ KeyOn(e)' = KeyOn(e) /\ HomeKey(e)' = HomeKey(e)
      BY <1>1 DEF vars, Home, KeyOn, HomeKey
    <2>2. \A k, t : Tracked(k, t)' <=> Tracked(k, t)
      BY <1>1 DEF vars, Tracked
    <2>3. HomeShape' /\ NoOrphans' /\ Bound' /\ OwnKeys'
      BY <1>1, <2>1 DEF vars, HomeInv, HomeShape, NoOrphans, Bound, OwnKeys
    <2>4. AtHome' /\ UnderKey' /\ Behind'
      BY <1>1, <2>1 DEF vars, HomeInv, AtHome, UnderKey, Behind
    <2>5. KeysAtHome'
      BY <1>1, <2>1, <2>2 DEF vars, HomeInv, KeysAtHome
    <2>6. LeftKeys'
      BY <1>1, <2>1 DEF vars, HomeInv, LeftKeys
    <2>7. Spared(world)' /\ ~Single(world.servers)'
      BY <1>1 DEF vars, HomeInv, Spared, Single
    <2> QED
      BY <1>0, <2>3, <2>4, <2>5, <2>6, <2>7 DEF HomeInv
  <1>2. ASSUME NEW b \in Boards, NEW k \in ShareKeys, CreateBoard(b, k) \/ Share(b, k)
        PROVE  HomeInv'
    BY <1>0, <1>2, HomeCreateBoard, HomeShare
  <1>3. ASSUME NEW b \in Boards, CreateBoard(b, NoKey) \/ MoveList(b)
        PROVE  HomeInv'
    BY <1>0, <1>3, HomeCreateBoard, HomeMoveList
  <1>4. ASSUME NEW e \in {List, Item}, NEW b \in Boards, CreateChild(e, b)
        PROVE  HomeInv'
    BY <1>0, <1>4, HomeCreateChild
  <1>5. ASSUME NEW e \in Entities, Edit(e) \/ Delete(e)
        PROVE  HomeInv'
    BY <1>0, <1>5, HomeEdit, SparedSteps
  <1>6. ASSUME NEW k \in ShareKeys, LeaveKey(k)
        PROVE  HomeInv'
    BY <1>0, <1>6, HomeLeaveKey
  <1>7. ASSUME Discard \/ DeletePushed \/ LeaveSent \/ Refresh \/ Reload
        PROVE  HomeInv'
    BY <1>0, <1>7, HomeDiscard, HomeLeaveSent, HomeRefresh, SparedSteps
  <1>8. ASSUME NEW s \in world.servers, Connect(s) \/ Disconnect(s)
        PROVE  HomeInv'
    BY <1>0, <1>8, HomeConnect, HomeRefresh
  <1>9. ASSUME NEW s \in world.servers, NEW k \in ShareKeys, SiblingLeaves(s, k)
        PROVE  HomeInv'
    BY <1>0, <1>9, HomeSiblingLeaves
  <1>10. ASSUME NEW s \in world.servers, NEW k \in ShareKeys
         PROVE  ~Join(s, k)
    BY SparedSteps
  <1>11. ASSUME NEW s \in world.servers
         PROVE  ~RemoteDelete(s) /\ (\A e : ~RemoteEdit(s, e)) /\ (\A b, k : ~RemoteCreate(s, b, k))
    BY SparedSteps DEF RemoteEdit, RemoteCreate
  <1> QED
    BY <1>1, <1>2, <1>3, <1>4, <1>5, <1>6, <1>7, <1>8, <1>9, <1>10, <1>11 DEF Next

LEMMA HomeInit ==
    ASSUME Init, Spared(world), ~Single(world.servers)
    PROVE  HomeInv
  <1>1. MembersInv
    BY MembersInit
  <1>2. DOMAIN dev.row = {} /\ DOMAIN dev.tomb = {} /\ DOMAIN dev.roster = {} /\ DOMAIN dev.bind = {} /\ DOMAIN conn = {}
    BY DEF Init, Nothing
  <1>3. /\ DOMAIN dev.cursor = Keys \union {NoKey} /\ \A k \in DOMAIN dev.cursor : dev.cursor[k] = 0
        /\ now = 0 /\ pending = None /\ left = {}
    BY DEF Init
  <1>4. \A s \in world.servers : /\ DOMAIN srv[s].row = {} /\ DOMAIN srv[s].tomb = {}
                                 /\ srv[s].userKeys = {} /\ srv[s].had = {}
    BY SharingAssumption DEF Init, EmptyServer, Nothing
  <1>5. \A t \in world.servers : \A k : ~Tracked(k, t)
    BY <1>2, <1>4 DEF Tracked
  <1>6. HomeShape
    BY <1>2, <1>3, <1>4 DEF HomeShape
  <1>7. NoOrphans /\ Bound /\ OwnKeys /\ AtHome /\ UnderKey
    BY <1>2 DEF NoOrphans, Bound, OwnKeys, AtHome, UnderKey
  <1>8. KeysAtHome /\ Behind /\ LeftKeys
    BY <1>3, <1>4, <1>5 DEF KeysAtHome, Behind, LeftKeys
  <1> QED
    BY <1>1, <1>6, <1>7, <1>8 DEF HomeInv

\* What the property says, with both its halves.
LEMMA HomeKept ==
    ASSUME HomeInv
    PROVE  BoundStaysHome
  <1>1. ASSUME NEW b \in DOMAIN dev.bind, NEW t \in world.servers, t # dev.bind[b], Held(b)
        PROVE  /\ Tree(dev.row, b) \intersect srv[t].had = {}
               /\ dev.row[b].key \notin srv[t].userKeys
    <2>1. b \in Boards \intersect DOMAIN dev.row /\ At(dev.bind, b) = dev.bind[b]
      BY DEF HomeInv, HomeShape, At
    <2>2. ASSUME NEW e \in Tree(dev.row, b), e \in srv[t].had
          PROVE  FALSE
      <3>1. e \in DOMAIN dev.row /\ Home(e) = b
        <4>1. CASE e = b
          BY <2>1, <4>1, HomeNames DEF Home, BoardOf
        <4>2. CASE e # b
          <5>1. List \in DOMAIN dev.row /\ dev.row[List].board = b /\ e \in {List} \union ({Item} \intersect DOMAIN dev.row)
            BY <2>1, <2>2, <4>2 DEF Tree
          <5> QED
            BY <5>1, HomeNames DEF Home, BoardOf
        <4> QED
          BY <4>1, <4>2
      <3>2. At(dev.bind, Home(e)) = t
        BY <2>2, <3>1 DEF HomeInv, AtHome
      <3> QED
        BY <1>1, <2>1, <3>1, <3>2
    <2>3. ASSUME dev.row[b].key \in srv[t].userKeys
          PROVE  FALSE
      <3>1. PICK k : k = dev.row[b].key
        OBVIOUS
      <3>2. k \in ShareKeys /\ Tracked(k, t) /\ KeyOn(b) = k
        BY <2>3, <3>1 DEF HomeInv, HomeShape, Tracked, KeyOn
      <3>3. At(dev.bind, b) = t
        BY <2>1, <3>2 DEF HomeInv, KeysAtHome
      <3> QED
        BY <1>1, <2>1, <3>3
    <2> QED
      BY <2>2, <2>3
  <1> QED
    BY <1>1 DEF BoundStaysHome

-----------------------------------------------------------------------------
(* A world of one server                                                   *)

LoneInv ==
    /\ world \in Worlds /\ Single(world.servers)
    /\ DOMAIN dev = {"row", "tomb", "cursor", "roster", "bind", "known"}
    /\ DOMAIN conn \subseteq world.servers
    /\ \A b \in DOMAIN dev.bind : dev.bind[b] \in world.servers

LEMMA DownloadedBind ==
    ASSUME NEW S, NEW d, DOMAIN d = {"row", "tomb", "cursor", "roster", "bind", "known"}, NEW keys
    PROVE  DOMAIN Downloaded(S, d, keys) = DOMAIN d /\ Downloaded(S, d, keys).bind = d.bind
  <1> DEFINE M == MergeRow(d, Restrict(S.row, Pulled(S, d, keys)))
             T == MergeTomb(M, Restrict(S.tomb, PulledTombs(S, d, keys)))
             c == [k \in DOMAIN T.cursor |-> IF k \in keys THEN now ELSE T.cursor[k]]
  <1>1. PICK r : M = [d EXCEPT !.row = r]
    BY Zenon DEF MergeRow
  <1>2. PICK t, w : T = [M EXCEPT !.tomb = t, !.row = w]
    BY Zenon DEF MergeTomb
  <1>3. PICK x : x = c
    OBVIOUS
  <1>4. Downloaded(S, d, keys) = [T EXCEPT !.cursor = x]
    BY <1>3, Zenon DEF Downloaded
  <1> HIDE DEF M, T, c
  <1>5. DOMAIN M = DOMAIN d /\ M.bind = d.bind
    BY <1>1
  <1>6. DOMAIN T = DOMAIN d /\ T.bind = d.bind
    BY <1>2, <1>5
  <1> QED
    BY <1>4, <1>6

LEMMA LoneReady ==
    ASSUME LoneInv, world' = world, NEW s \in world.servers, NEW hello, NEW userKeys, Ready(s, hello, userKeys)
    PROVE  LoneInv'
  <1> DEFINE keys == hello \union {s}
             bound == BindUnbound(mem, s)
             d0 == [dev EXCEPT !.known = dev.known \union {s}, !.roster = Adopt(dev.roster, userKeys, s),
                               !.bind = Over(bound, dev.bind)]
             m0 == [mem EXCEPT !.bind = Over(bound, mem.bind)]
             U0 == Uploaded([srv[s] EXCEPT !.userKeys = userKeys], d0, m0, s, keys)
  <1>1. conn' = Over(Only(s, [hello |-> hello, keys |-> keys]), conn) /\ dev' = Downloaded(U0, d0, keys)
    BY Zenon DEF Ready
  <1>2. PICK B : B = Over(bound, dev.bind)
    OBVIOUS
  <1>3. PICK d : d = d0
    OBVIOUS
  <1>4. DOMAIN d = DOMAIN dev /\ d.bind = B
    BY <1>2, <1>3 DEF LoneInv
  <1>5. PICK U : U = U0
    OBVIOUS
  <1>6. PICK v : v = [hello |-> hello, keys |-> keys]
    OBVIOUS
  <1>7. conn' = Over(Only(s, v), conn) /\ dev' = Downloaded(U, d, keys)
    BY <1>1, <1>3, <1>5, <1>6
  <1>8. \A b \in DOMAIN B : B[b] \in world.servers
    <2>1. \A b \in DOMAIN bound : bound[b] = s
      BY DEF BindUnbound
    <2>2. PICK f, g : f = bound /\ g = dev.bind
      OBVIOUS
    <2> HIDE DEF bound
    <2>3. /\ DOMAIN Over(f, g) = DOMAIN f \union DOMAIN g
          /\ \A x \in DOMAIN f : Over(f, g)[x] = f[x]
          /\ \A x \in DOMAIN g \ DOMAIN f : Over(f, g)[x] = g[x]
      BY OverAt
    <2>4. B = Over(f, g)
      BY <1>2, <2>2
    <2> QED
      BY <2>1, <2>2, <2>3, <2>4 DEF LoneInv
  <1> HIDE DEF keys, bound, d0, m0, U0
  <1>9. DOMAIN dev' = DOMAIN dev /\ dev'.bind = B
    <2>1. DOMAIN d = {"row", "tomb", "cursor", "roster", "bind", "known"}
      BY <1>4 DEF LoneInv
    <2>2. PICK k : k = keys
      OBVIOUS
    <2>3. DOMAIN Downloaded(U, d, k) = DOMAIN d /\ Downloaded(U, d, k).bind = d.bind
      BY <2>1, DownloadedBind
    <2> QED
      BY <1>4, <1>7, <2>2, <2>3
  <1>10. DOMAIN conn' \subseteq world.servers
    <2>1. DOMAIN conn' = {s} \union DOMAIN conn
      BY <1>7 DEF Over, Only
    <2> QED
      BY <2>1 DEF LoneInv
  <1> QED
    BY <1>8, <1>9, <1>10 DEF LoneInv

\* What else happens to the device leaves its bindings, takes some away, or
\* adds one to a server that is connected.
LEMMA LoneKept ==
    ASSUME LoneInv, world' = world, DOMAIN conn' \subseteq DOMAIN conn, DOMAIN dev' = DOMAIN dev,
           \/ dev'.bind = dev.bind
           \/ \E X : dev'.bind = Without(dev.bind, X)
           \/ \E b : \E s \in DOMAIN conn : dev'.bind = Over(Only(b, s), dev.bind)
    PROVE  LoneInv'
  <1>1. \A b \in DOMAIN dev'.bind : dev'.bind[b] \in world.servers
    <2>1. CASE dev'.bind = dev.bind
      BY <2>1 DEF LoneInv
    <2>2. CASE \E X : dev'.bind = Without(dev.bind, X)
      BY <2>2 DEF LoneInv, Without, Restrict
    <2>3. CASE \E b : \E s \in DOMAIN conn : dev'.bind = Over(Only(b, s), dev.bind)
      BY <2>3 DEF LoneInv, Over, Only
    <2> QED
      BY <2>1, <2>2, <2>3
  <1> QED
    BY <1>1 DEF LoneInv

LEMMA LoneNext ==
    ASSUME LoneInv, [Next]_vars
    PROVE  LoneInv'
  <1>0. DOMAIN dev = {"row", "tomb", "cursor", "roster", "bind", "known"}
    BY DEF LoneInv
  <1>1. CASE UNCHANGED vars
    BY <1>1, LoneKept DEF vars
  <1>2. ASSUME NEW b, NEW k, CreateBoard(b, k)
        PROVE  LoneInv'
    <2> DEFINE r == [ts |-> now + 1, key |-> k, board |-> None]
    <2>1. \/ dev' = [dev EXCEPT !.row = Over(Only(b, r), dev.row)]
          \/ \E s \in DOMAIN conn :
                dev' = [dev EXCEPT !.row = Over(Only(b, r), dev.row), !.bind = Over(Only(b, s), dev.bind)]
      BY <1>2 DEF CreateBoard
    <2>2. world' = world /\ conn' = conn
      BY <1>2 DEF CreateBoard
    <2> HIDE DEF r
    <2>3. DOMAIN dev' = DOMAIN dev
          /\ (dev'.bind = dev.bind \/ \E s \in DOMAIN conn : dev'.bind = Over(Only(b, s), dev.bind))
      BY <1>0, <2>1
    <2> QED
      BY <2>2, <2>3, LoneKept
  <1>3. ASSUME NEW b, NEW k, Share(b, k)
        PROVE  LoneInv'
    <2>1. \E w : dev' = [dev EXCEPT !.row = w]
      BY <1>3 DEF Share
    <2>2. world' = world /\ conn' = conn
      BY <1>3 DEF Share
    <2> QED
      BY <1>0, <2>1, <2>2, LoneKept
  <1>4. ASSUME \/ \E e, b : CreateChild(e, b)
               \/ \E b : MoveList(b)
               \/ \E e : Edit(e)
        PROVE  LoneInv'
    <2>1. \E w : dev' = [dev EXCEPT !.row = w]
      BY <1>4, Zenon DEF CreateChild, MoveList, Edit, Written
    <2>2. world' = world /\ conn' = conn
      BY <1>4 DEF CreateChild, MoveList, Edit
    <2> QED
      BY <1>0, <2>1, <2>2, LoneKept
  <1>5. ASSUME (\E e : Delete(e)) \/ Discard
        PROVE  LoneInv'
    <2>1. \E w : dev' = [dev EXCEPT !.row = w]
      BY <1>5 DEF Delete, Discard
    <2>2. world' = world /\ conn' = conn
      BY <1>5 DEF Delete, Discard
    <2> QED
      BY <1>0, <2>1, <2>2, LoneKept
  <1>6. ASSUME DeletePushed
        PROVE  LoneInv'
    <2>1. \E t, X : dev' = [dev EXCEPT !.tomb = t, !.bind = Without(dev.bind, X)]
      BY <1>6, Zenon DEF DeletePushed
    <2>2. world' = world /\ conn' = conn
      BY <1>6 DEF DeletePushed
    <2>3. DOMAIN dev' = DOMAIN dev /\ \E X : dev'.bind = Without(dev.bind, X)
      BY <1>0, <2>1
    <2> QED
      BY <2>2, <2>3, LoneKept
  <1>7. ASSUME (\E k : LeaveKey(k)) \/ (\E s, k : SiblingLeaves(s, k))
        PROVE  LoneInv'
    <2>1. \A k : \E w, r, X : KeyRemoved(k) = [dev EXCEPT !.row = w, !.roster = r, !.bind = Without(dev.bind, X)]
      BY Zenon DEF KeyRemoved
    <2>2. \A k : DOMAIN KeyRemoved(k) = DOMAIN dev /\ \E X : KeyRemoved(k).bind = Without(dev.bind, X)
      BY <1>0, <2>1
    <2>3. dev' = dev \/ \E k : dev' = KeyRemoved(k)
      BY <1>7 DEF LeaveKey, SiblingLeaves
    <2>4. world' = world /\ conn' = conn
      BY <1>7 DEF LeaveKey, SiblingLeaves
    <2>5. CASE dev' = dev
      BY <2>4, <2>5, LoneKept
    <2>6. CASE \E k : dev' = KeyRemoved(k)
      BY <2>2, <2>4, <2>6, LoneKept
    <2> QED
      BY <2>3, <2>5, <2>6
  <1>8. ASSUME LeaveSent \/ Refresh \/ Reload \/ \E s : Disconnect(s)
        PROVE  LoneInv'
    <2>1. dev' = dev /\ world' = world
      BY <1>8 DEF LeaveSent, Refresh, Reload, Disconnect
    <2>2. DOMAIN conn' \subseteq DOMAIN conn
      BY <1>8 DEF LeaveSent, Refresh, Reload, Disconnect, Nothing, Without, Restrict
    <2> QED
      BY <2>1, <2>2, LoneKept
  <1>9. ASSUME NEW s \in world.servers, Connect(s)
        PROVE  LoneInv'
    <2> DEFINE hello == HelloKeys(mem, s)
    <2>1. Ready(s, hello, srv[s].userKeys \union (hello \ {s})) /\ world' = world
      BY <1>9 DEF Connect
    <2> HIDE DEF hello
    <2> QED
      BY <2>1, LoneReady
  <1>10. ASSUME NEW s \in world.servers, NEW k, Join(s, k)
         PROVE  LoneInv'
    <2>1. Ready(s, conn[s].hello, srv[s].userKeys \union {k}) /\ world' = world
      BY <1>10 DEF Join
    <2> QED
      BY <2>1, LoneReady
  <1>11. ASSUME NEW s, NEW e, NEW r, NEW k, Remote(s, e, r, k)
         PROVE  LoneInv'
    <2>1. dev' = dev \/ \E w : dev' = [dev EXCEPT !.row = w]
      BY <1>11, Zenon DEF Remote, MergeRow
    <2>2. world' = world /\ conn' = conn
      BY <1>11 DEF Remote
    <2> QED
      BY <1>0, <2>1, <2>2, LoneKept
  <1>12. ASSUME NEW s, RemoteDelete(s)
         PROVE  LoneInv'
    <2>1. dev' = dev \/ \E t, w : dev' = [dev EXCEPT !.tomb = t, !.row = w]
      BY <1>12, Zenon DEF RemoteDelete, MergeTomb
    <2>2. world' = world /\ conn' = conn
      BY <1>12 DEF RemoteDelete
    <2> QED
      BY <1>0, <2>1, <2>2, LoneKept
  <1> QED
    BY <1>1, <1>2, <1>3, <1>4, <1>5, <1>6, <1>7, <1>8, <1>9, <1>10, <1>11, <1>12 DEF Next, RemoteEdit, RemoteCreate

-----------------------------------------------------------------------------
(* The theorem                                                             *)

StaysHomeInv == LoneInv \/ HomeInv

\* Neither an entity of a board nor a key that is this board's alone ever
\* reaches another server than the one the board is bound to (keysForEndpoint,
\* resolveConnectionKeys, bindUnboundBoards, connectionsForPush, doInitialSync):
\* for any boards, servers and keys and any number of operations, online and
\* offline, where there is one server; and where there are several, if boards
\* are created while no second one is connected and go to keys that were never
\* used, lists move between boards of one key and server, keys are left once
\* the servers that know them are connected, and nobody deletes, redeems a
\* grant or writes on another device.
THEOREM BoardsStayHome ==
    ASSUME \A w \in Worlds : Single(w.servers) \/ Spared(w)
    PROVE  Spec => []BoundStaysHome
  <1>1. Init => StaysHomeInv
    <2>1. ASSUME Init, Single(world.servers) PROVE LoneInv
      BY <2>1 DEF Init, LoneInv, Nothing
    <2>2. ASSUME Init, ~Single(world.servers) PROVE HomeInv
      BY <2>2, HomeInit DEF Init
    <2> QED
      BY <2>1, <2>2 DEF StaysHomeInv
  <1>2. StaysHomeInv /\ [Next]_vars => StaysHomeInv'
    BY LoneNext, HomeNext DEF StaysHomeInv
  <1>3. StaysHomeInv => BoundStaysHome
    <2>1. ASSUME LoneInv PROVE BoundStaysHome
      BY <2>1 DEF LoneInv, Single, BoundStaysHome
    <2> QED
      BY <2>1, HomeKept DEF StaysHomeInv
  <1> QED
    BY <1>1, <1>2, <1>3, PTL DEF Spec

-----------------------------------------------------------------------------
(* Part 3: a key that was left stays left, on one server.                  *)

\* What must not occur: a key is left while the server cannot be told, or
\* boards change their keys under other writers.
TellsOnLeaving(w) ==
    /\ w.prompt /\ ~w.anyTime /\ \E s : w.servers = {s}
    /\ ~({"share", "remote"} \subseteq w.does)

\* A server stores a board under the key the row names, ...
Filed(S, s) ==
    \A b \in Boards \intersect DOMAIN S.row : S.row[b].ns = IF S.row[b].key = NoKey THEN s ELSE S.row[b].key

\* ... and the device names the same one, or has a later version that no
\* other writer overtakes.
Agrees(rows, S) ==
    \A b \in Boards \intersect DOMAIN rows \intersect DOMAIN S.row :
        \/ rows[b].key = S.row[b].key
        \/ "remote" \notin world.does /\ S.row[b].ts < rows[b].ts

\* The boards of rows have stamps up to t and are in the history h.
BoardsUpTo(rows, t, h) ==
    /\ \A b \in Boards \intersect DOMAIN rows : rows[b].ts \in Nat /\ rows[b].ts <= t
    /\ \A b \in Boards \intersect DOMAIN rows : \E x \in h : x[1] = b

\* What a connection declared is in the caches still.
Declared ==
    \A s \in DOMAIN conn :
        /\ conn[s].keys = conn[s].hello \union {s}
        /\ conn[s].hello \subseteq {s} \union Range(mem.boardKey) \union DOMAIN mem.roster

\* A key that was left is forgotten, but for a server that is about to be told.
Forgotten(k) ==
    /\ k \in ShareKeys /\ k \notin DOMAIN dev.roster
    /\ \A e \in DOMAIN dev.row : dev.row[e].key # k
    /\ \A s \in world.servers : k \in srv[s].userKeys =>
          /\ pending # None /\ pending.op = "leave" /\ pending.what = {k}
          /\ s \in DOMAIN conn /\ k \in conn[s].keys

StoresInv ==
    \A s \in world.servers :
        BoardsUpTo(srv[s].row, now, was) /\ Filed(srv[s], s) /\ Agrees(dev.row, srv[s])

LeavesInv ==
    /\ MembersInv /\ TellsOnLeaving(world)
    /\ BoardsUpTo(dev.row, now, was)
    /\ StoresInv /\ Declared
    /\ \A k \in left : Forgotten(k)

LEMMA LeavesNames ==
    ASSUME LeavesInv
    PROVE  /\ world.servers \subseteq Servers /\ world.servers \intersect ShareKeys = {} /\ NoKey \notin ShareKeys
           /\ \A s \in world.servers : NoKey # s
           /\ List # Item /\ List \notin Boards /\ Item \notin Boards
           /\ now \in Nat /\ DOMAIN conn \subseteq world.servers
           /\ RowsOK(dev.row) /\ DOMAIN dev.row \subseteq Entities
           /\ \A s \in world.servers : ServerOK(srv[s])
  <1>1. world.servers \subseteq Servers
    BY ServersKnown DEF LeavesInv, MembersInv
  <1>2. \A s \in world.servers : ServerOK(srv[s])
    BY <1>1 DEF LeavesInv, MembersInv, SharingShape
  <1>3. now \in Nat /\ DOMAIN conn \subseteq world.servers /\ RowsOK(dev.row) /\ DOMAIN dev.row \subseteq Entities
    BY DEF LeavesInv, MembersInv, SharingShape
  <1> QED
    BY <1>1, <1>2, <1>3, SharingAssumption

\* Fewer rows, and as much time or more.
LEMMA FewerBoards ==
    ASSUME NEW rows, NEW t, NEW h, BoardsUpTo(rows, t, h), NEW R, NEW u, NEW g, h \subseteq g, t \in Nat, u \in Nat, t <= u,
           \A e \in DOMAIN R : e \in DOMAIN rows /\ R[e] = rows[e]
    PROVE  BoardsUpTo(R, u, g)
  BY DEF BoardsUpTo

\* What Upsert leaves of boards: their key and stamp are those of one side.
LEMMA UpsertFiles ==
    ASSUME NEW S, ServerOK(S), NEW s, Filed(S, s), NEW rows, NEW ns,
           \A b \in Boards \intersect DOMAIN rows : ns[b] = IF rows[b].key = NoKey THEN s ELSE rows[b].key,
           \A b \in Boards \intersect DOMAIN rows \intersect DOMAIN S.row :
              S.row[b].ts >= rows[b].ts => S.row[b].key = rows[b].key
    PROVE  LET U == Upsert(S, rows, ns) IN
           /\ Filed(U, s)
           /\ \A b \in Boards \intersect DOMAIN U.row :
                 \/ b \in DOMAIN S.row /\ U.row[b].key = S.row[b].key /\ U.row[b].ts = S.row[b].ts
                 \/ b \in DOMAIN rows /\ U.row[b].key = rows[b].key /\ U.row[b].ts = rows[b].ts
  <1> DEFINE U == Upsert(S, rows, ns)
  <1>1. \A e \in DOMAIN U.row :
           \/ e \in DOMAIN S.row /\ U.row[e] = S.row[e]
           \/ e \in DOMAIN S.row \intersect DOMAIN rows /\ S.row[e].ts >= rows[e].ts
              /\ U.row[e] = [S.row[e] EXCEPT !.ns = ns[e]]
           \/ e \in DOMAIN rows
              /\ U.row[e] = [ts |-> rows[e].ts, key |-> rows[e].key, board |-> rows[e].board, ns |-> ns[e]]
    BY UpsertIs
  <1> HIDE DEF U
  <1>2. ASSUME NEW b \in Boards \intersect DOMAIN U.row
        PROVE  /\ U.row[b].ns = IF U.row[b].key = NoKey THEN s ELSE U.row[b].key
               /\ \/ b \in DOMAIN S.row /\ U.row[b].key = S.row[b].key /\ U.row[b].ts = S.row[b].ts
                  \/ b \in DOMAIN rows /\ U.row[b].key = rows[b].key /\ U.row[b].ts = rows[b].ts
    <2>1. CASE b \in DOMAIN S.row /\ U.row[b] = S.row[b]
      BY <2>1 DEF Filed
    <2>2. CASE b \in DOMAIN S.row \intersect DOMAIN rows /\ S.row[b].ts >= rows[b].ts
               /\ U.row[b] = [S.row[b] EXCEPT !.ns = ns[b]]
      <3>1. DOMAIN S.row[b] = {"ts", "key", "board", "ns"}
        BY <2>2 DEF ServerOK
      <3>2. U.row[b].ns = ns[b] /\ U.row[b].key = S.row[b].key /\ U.row[b].ts = S.row[b].ts
        BY <2>2, <3>1
      <3>3. S.row[b].key = rows[b].key
        BY <2>2
      <3> QED
        BY <2>2, <3>2, <3>3
    <2>3. CASE b \in DOMAIN rows
               /\ U.row[b] = [ts |-> rows[b].ts, key |-> rows[b].key, board |-> rows[b].board, ns |-> ns[b]]
      <3>1. U.row[b].ns = ns[b] /\ U.row[b].key = rows[b].key /\ U.row[b].ts = rows[b].ts
        BY <2>3
      <3> QED
        BY <2>3, <3>1
    <2> QED
      BY <1>1, <2>1, <2>2, <2>3
  <1> QED
    BY <1>2 DEF U, Filed

\* The stamps, keys and names of what stores and device have, when both have
\* fewer rows or the same.
LEMMA StoresShrink ==
    ASSUME LeavesInv, world' = world, now' \in Nat, now <= now', was \subseteq was',
           \A e \in DOMAIN dev'.row : e \in DOMAIN dev.row /\ dev'.row[e] = dev.row[e],
           \A s \in world.servers : \A e \in DOMAIN srv'[s].row :
              e \in DOMAIN srv[s].row /\ srv'[s].row[e] = srv[s].row[e]
    PROVE  BoardsUpTo(dev.row, now, was)' /\ StoresInv'
  <1>1. BoardsUpTo(dev.row, now, was) /\ now \in Nat
    BY LeavesNames DEF LeavesInv
  <1>2. BoardsUpTo(dev.row, now, was)'
    BY <1>1 DEF BoardsUpTo
  <1>3. ASSUME NEW s \in world.servers
        PROVE  /\ BoardsUpTo(srv'[s].row, now', was') /\ Filed(srv'[s], s)
               /\ \A b \in Boards \intersect DOMAIN dev'.row \intersect DOMAIN srv'[s].row :
                     \/ dev'.row[b].key = srv'[s].row[b].key
                     \/ "remote" \notin world'.does /\ srv'[s].row[b].ts < dev'.row[b].ts
    <2>1. BoardsUpTo(srv[s].row, now, was) /\ Filed(srv[s], s) /\ Agrees(dev.row, srv[s])
      BY DEF LeavesInv, StoresInv
    <2>2. BoardsUpTo(srv'[s].row, now', was')
      BY <1>1, <2>1 DEF BoardsUpTo
    <2>3. Filed(srv'[s], s)
      BY <2>1 DEF Filed
    <2> QED
      BY <2>1, <2>2, <2>3 DEF Agrees
  <1>4. StoresInv'
    BY <1>3 DEF StoresInv, Filed, Agrees, BoardsUpTo
  <1> QED
    BY <1>2, <1>4

LEMMA LeavesKept ==
    ASSUME LeavesInv, MembersInv', world' = world, now' \in Nat, now <= now', was \subseteq was',
           \A e \in DOMAIN dev'.row : e \in DOMAIN dev.row /\ dev'.row[e] = dev.row[e],
           \A s \in world.servers : \A e \in DOMAIN srv'[s].row :
              e \in DOMAIN srv[s].row /\ srv'[s].row[e] = srv[s].row[e],
           Declared', \A k \in left' : Forgotten(k)'
    PROVE  LeavesInv'
  <1>1. BoardsUpTo(dev.row, now, was)' /\ StoresInv'
    BY StoresShrink
  <1>2. TellsOnLeaving(world)'
    BY DEF LeavesInv, TellsOnLeaving, Single
  <1> QED
    BY <1>1, <1>2 DEF LeavesInv

\* The connections and the keys in the caches stay.
LEMMA DeclaredKept ==
    ASSUME LeavesInv, conn' = conn, mem'.boardKey = mem.boardKey, mem'.roster = mem.roster
    PROVE  Declared'
  BY DEF LeavesInv, Declared

\* No key that was left is with a server, as long as the user rests.
LEMMA RestForgotten ==
    ASSUME LeavesInv, pending = None, NEW k \in left
    PROVE  /\ k \in ShareKeys /\ k \notin DOMAIN dev.roster
           /\ \A e \in DOMAIN dev.row : dev.row[e].key # k
           /\ \A s \in world.servers : k \notin srv[s].userKeys
  BY DEF LeavesInv, Forgotten

\* With nothing pending: fewer keys and rows keep what was left forgotten.
LEMMA FewerForgotten ==
    ASSUME LeavesInv, pending = None, world' = world, left' \subseteq left,
           \A e \in DOMAIN dev'.row : e \in DOMAIN dev.row /\ dev'.row[e] = dev.row[e],
           DOMAIN dev'.roster \subseteq DOMAIN dev.roster,
           \A s \in world.servers : srv'[s].userKeys \subseteq srv[s].userKeys
    PROVE  \A k \in left' : Forgotten(k)'
  BY RestForgotten DEF Forgotten

LEMMA LeavesDelete ==
    ASSUME LeavesInv, MembersInv', NEW e, Delete(e)
    PROVE  LeavesInv'
  <1>1. /\ dev' = [dev EXCEPT !.row = Without(dev.row, DeletedBy(e))]
        /\ UNCHANGED <<mem, conn, srv, world, was, left>> /\ pending = None /\ now' = now + 1
    BY DEF Delete, User
  <1>2. dev'.row = Without(dev.row, DeletedBy(e)) /\ dev'.roster = dev.roster
    BY <1>1 DEF LeavesInv, MembersInv, SharingShape
  <1>3. \A x \in DOMAIN dev'.row : x \in DOMAIN dev.row /\ dev'.row[x] = dev.row[x]
    BY <1>2 DEF Without, Restrict
  <1>4. Declared'
    BY <1>1, DeclaredKept
  <1>5. \A k \in left' : Forgotten(k)'
    BY <1>1, <1>2, <1>3, FewerForgotten
  <1> QED
    BY <1>1, <1>3, <1>4, <1>5, LeavesNames, LeavesKept

LEMMA LeavesDiscard ==
    ASSUME LeavesInv, MembersInv', Discard
    PROVE  LeavesInv'
  <1>1. PICK X : dev' = [dev EXCEPT !.row = Without(dev.row, X)]
    BY Zenon DEF Discard
  <1>2. UNCHANGED <<mem, conn, srv, world, was, left>> /\ pending = None /\ now' = now + 1
    BY DEF Discard, User
  <1>3. dev'.row = Without(dev.row, X) /\ dev'.roster = dev.roster
    BY <1>1 DEF LeavesInv, MembersInv, SharingShape
  <1>4. \A x \in DOMAIN dev'.row : x \in DOMAIN dev.row /\ dev'.row[x] = dev.row[x]
    BY <1>3 DEF Without, Restrict
  <1>5. Declared'
    BY <1>2, DeclaredKept
  <1>6. \A k \in left' : Forgotten(k)'
    BY <1>2, <1>3, <1>4, FewerForgotten
  <1> QED
    BY <1>2, <1>4, <1>5, <1>6, LeavesNames, LeavesKept

LEMMA LeavesDeletePushed ==
    ASSUME LeavesInv, MembersInv', DeletePushed
    PROVE  LeavesInv'
  <1> DEFINE key(e, s) == KeyOfBoard(mem, BoardIdOf(mem, e), s)
             heard(s) == {e \in pending.what : Reaches(At(mem.bind, BoardIdOf(mem, e)), s, conn[s].keys, key(e, s))}
             tombs(s) == [e \in heard(s) |-> [at |-> now, key |-> key(e, s)]]
             T == DeleteAt(conn, srv, mem, pending.what, now)
  <1>1. T = [s \in Servers |-> IF s \in DOMAIN conn THEN Bury(srv[s], tombs(s)) ELSE srv[s]]
    BY Zenon DEF DeleteAt
  <1>2. /\ srv' = T /\ pending # None /\ pending.op = "delete" /\ pending' = None
        /\ UNCHANGED <<mem, conn, now, world, was, left>>
        /\ \E t, b : dev' = [dev EXCEPT !.tomb = t, !.bind = b]
    BY Zenon DEF DeletePushed
  <1> HIDE DEF T, tombs, heard, key
  <1>3. ASSUME NEW s \in world.servers
        PROVE  /\ srv'[s].userKeys = srv[s].userKeys
               /\ \A e \in DOMAIN srv'[s].row : e \in DOMAIN srv[s].row /\ srv'[s].row[e] = srv[s].row[e]
    <2>1. ServerOK(srv[s]) /\ s \in Servers
      BY LeavesNames
    <2>2. PICK t : t = tombs(s)
      OBVIOUS
    <2>3. srv'[s] = srv[s] \/ srv'[s] = Bury(srv[s], t)
      BY <1>1, <1>2, <2>1, <2>2
    <2>4. /\ Bury(srv[s], t).userKeys = srv[s].userKeys
          /\ \A e \in DOMAIN Bury(srv[s], t).row : e \in DOMAIN srv[s].row /\ Bury(srv[s], t).row[e] = srv[s].row[e]
      BY <2>1, BuryIs
    <2> QED
      BY <2>3, <2>4
  <1>4. dev'.row = dev.row /\ dev'.roster = dev.roster
    BY <1>2 DEF LeavesInv, MembersInv, SharingShape
  <1>5. Declared'
    BY <1>2, DeclaredKept
  <1>6. \A k \in left' : Forgotten(k)'
    BY <1>2, <1>3, <1>4 DEF LeavesInv, Forgotten
  <1> QED
    BY <1>2, <1>3, <1>4, <1>5, <1>6, LeavesNames, LeavesKept

\* What is left when the boards of a key and the key are removed.
LEMMA KeyRemovedForgets ==
    ASSUME LeavesInv, NEW k, k # NoKey
    PROVE  LET D == KeyRemoved(k) IN
           /\ DOMAIN D.roster = DOMAIN dev.roster \ {k}
           /\ \A e \in DOMAIN D.row : e \in DOMAIN dev.row /\ D.row[e] = dev.row[e] /\ D.row[e].key # k
  <1> DEFINE boards == {b \in Boards \intersect DOMAIN dev.row : dev.row[b].key = k}
             X == UNION {Tree(dev.row, b) : b \in boards}
             D == KeyRemoved(k)
  <1>1. D = [dev EXCEPT !.row = Without(dev.row, X), !.roster = Without(dev.roster, {k}),
                        !.bind = Without(dev.bind, boards)]
    BY Zenon DEF KeyRemoved
  <1>2. boards \subseteq X
    BY DEF Tree
  <1>3. \A b \in Boards \intersect DOMAIN dev.row : dev.row[b].key = k => b \in boards
    OBVIOUS
  <1>4. \A e \in DOMAIN dev.row : e \notin Boards => dev.row[e].key # k
    BY LeavesNames DEF RowsOK, KeysOfBoardsOnly
  <1> HIDE DEF boards, X, D
  <1>5. D.row = Without(dev.row, X) /\ D.roster = Without(dev.roster, {k})
    BY <1>1 DEF LeavesInv, MembersInv, SharingShape
  <1>6. /\ DOMAIN D.row = DOMAIN dev.row \ X /\ \A e \in DOMAIN D.row : D.row[e] = dev.row[e]
        /\ DOMAIN D.roster = DOMAIN dev.roster \ {k}
    BY <1>5 DEF Without, Restrict
  <1> QED
    BY <1>2, <1>3, <1>4, <1>6 DEF D

LEMMA LeavesLeaveKey ==
    ASSUME LeavesInv, MembersInv', NEW k \in ShareKeys, LeaveKey(k)
    PROVE  LeavesInv'
  <1>1. /\ dev' = KeyRemoved(k) /\ pending' = [op |-> "leave", what |-> {k}] /\ left' = left \union {k}
        /\ UNCHANGED <<mem, conn, srv, world, was>> /\ pending = None /\ now' = now + 1
    BY DEF LeaveKey, User
  <1>2. \A s \in world.servers : k \in srv[s].userKeys => s \in DOMAIN conn /\ k \in conn[s].keys
    BY DEF LeaveKey, LeavesInv, TellsOnLeaving
  <1>3. /\ DOMAIN dev'.roster = DOMAIN dev.roster \ {k}
        /\ \A e \in DOMAIN dev'.row : e \in DOMAIN dev.row /\ dev'.row[e] = dev.row[e] /\ dev'.row[e].key # k
    BY <1>1, LeavesNames, KeyRemovedForgets
  <1>4. Declared'
    BY <1>1, DeclaredKept
  <1>5. pending' # None
    <2>1. {k} \in SUBSET (Boards \union {List, Item} \union ShareKeys)
      OBVIOUS
    <2>2. [op |-> "leave", what |-> {k}] \in [op : {"delete", "leave"}, what : SUBSET (Boards \union {List, Item} \union ShareKeys)]
      BY <2>1
    <2> QED
      BY <1>1, <2>2, SharingAssumption
  <1>6. ASSUME NEW j \in left' PROVE Forgotten(j)'
    <2>1. CASE j = k
      BY <1>1, <1>2, <1>3, <1>5, <2>1 DEF Forgotten
    <2>2. CASE j # k
      BY <1>1, <1>3, <2>2, RestForgotten DEF Forgotten
    <2> QED
      BY <2>1, <2>2
  <1> QED
    BY <1>1, <1>3, <1>4, <1>6, LeavesNames, LeavesKept

LEMMA LeavesSiblingLeaves ==
    ASSUME LeavesInv, MembersInv', NEW s \in world.servers, NEW k \in ShareKeys, SiblingLeaves(s, k)
    PROVE  LeavesInv'
  <1>1. /\ left' = left \union {k} /\ UNCHANGED <<mem, conn, pending, world, was>>
        /\ srv' = [srv EXCEPT ![s].userKeys = srv[s].userKeys \ {k}]
        /\ pending = None /\ now' = now + 1
    BY DEF SiblingLeaves, User
  <1>2. dev' = KeyRemoved(k)
    BY DEF SiblingLeaves, LeavesInv, TellsOnLeaving
  <1>3. /\ DOMAIN dev'.roster = DOMAIN dev.roster \ {k}
        /\ \A e \in DOMAIN dev'.row : e \in DOMAIN dev.row /\ dev'.row[e] = dev.row[e] /\ dev'.row[e].key # k
    BY <1>2, LeavesNames, KeyRemovedForgets
  <1>4. Declared'
    BY <1>1, DeclaredKept
  <1>5. ASSUME NEW t \in world.servers
        PROVE  srv'[t].row = srv[t].row /\ srv'[t].userKeys = srv[t].userKeys \ {k}
    <2>1. t = s
      BY DEF LeavesInv, TellsOnLeaving, Single
    <2>2. s \in DOMAIN srv /\ DOMAIN srv[s] = {"row", "tomb", "userKeys", "had", "shown"}
      BY LeavesNames DEF LeavesInv, MembersInv, SharingShape, ServerOK
    <2> QED
      BY <1>1, <2>1, <2>2
  <1>6. ASSUME NEW j \in left' PROVE Forgotten(j)'
    <2>1. CASE j = k
      BY <1>1, <1>3, <1>5, <2>1 DEF Forgotten
    <2>2. CASE j # k
      BY <1>1, <1>3, <1>5, <2>2, RestForgotten DEF Forgotten
    <2> QED
      BY <2>1, <2>2
  <1> QED
    BY <1>1, <1>3, <1>4, <1>5, <1>6, LeavesNames, LeavesKept

LEMMA LeavesLeaveSent ==
    ASSUME LeavesInv, MembersInv', LeaveSent
    PROVE  LeavesInv'
  <1> DEFINE T == [s \in Servers |->
                 IF s \in DOMAIN conn
                 THEN [srv[s] EXCEPT !.userKeys = srv[s].userKeys \ ((pending.what \intersect conn[s].keys) \ {s})]
                 ELSE srv[s]]
  <1>1. /\ srv' = T /\ pending # None /\ pending.op = "leave" /\ pending' = None
        /\ UNCHANGED <<dev, mem, conn, now, world, was, left>>
    BY Zenon DEF LeaveSent
  <1>2. ASSUME NEW s \in world.servers
        PROVE  /\ T[s].row = srv[s].row /\ T[s].userKeys \subseteq srv[s].userKeys
               /\ s \in DOMAIN conn =>
                     T[s].userKeys = srv[s].userKeys \ ((pending.what \intersect conn[s].keys) \ {s})
    <2>1. s \in Servers /\ DOMAIN srv[s] = {"row", "tomb", "userKeys", "had", "shown"}
      BY LeavesNames DEF ServerOK
    <2> QED
      BY <2>1
  <1> HIDE DEF T
  <1>3. Declared'
    BY <1>1, DeclaredKept
  <1>4. ASSUME NEW k \in left, NEW s \in world.servers PROVE k \notin T[s].userKeys
    <2>1. CASE k \notin srv[s].userKeys
      BY <1>2, <2>1
    <2>2. CASE k \in srv[s].userKeys
      <3>1. k \in ShareKeys /\ pending.what = {k} /\ s \in DOMAIN conn /\ k \in conn[s].keys
        BY <2>2 DEF LeavesInv, Forgotten
      <3>2. k # s
        BY <3>1, LeavesNames
      <3> QED
        BY <1>2, <3>1, <3>2
    <2> QED
      BY <2>1, <2>2
  <1>5. \A k \in left' : Forgotten(k)'
    BY <1>1, <1>4 DEF LeavesInv, Forgotten
  <1>6. \A s \in world.servers : \A e \in DOMAIN srv'[s].row : e \in DOMAIN srv[s].row /\ srv'[s].row[e] = srv[s].row[e]
    BY <1>1, <1>2
  <1> QED
    BY <1>1, <1>3, <1>5, <1>6, LeavesNames, LeavesKept

\* What the caches say of an endpoint's keys: those of boards and of the roster.
LEMMA HelloFromCaches ==
    ASSUME NEW m, NEW s
    PROVE  HelloKeys(m, s) \subseteq {s} \union Range(m.boardKey) \union DOMAIN m.roster
  <1>1. DOMAIN BoardKeyRows(m) = Range(m.boardKey)
    BY DEF BoardKeyRows
  <1>2. \A rows, t : Scoped(rows, t) \subseteq DOMAIN rows
    BY DEF Scoped
  <1> QED
    BY <1>1, <1>2 DEF HelloKeys

LEMMA LeavesRefresh ==
    ASSUME LeavesInv, MembersInv', Refresh \/ Reload \/ \E s : Disconnect(s)
    PROVE  LeavesInv'
  <1>1. pending = None /\ UNCHANGED <<dev, srv, now, world, was, left, pending>>
    BY DEF Refresh, Reload, Disconnect, Settled, LeavesInv, TellsOnLeaving
  <1>2. Declared'
    <2>1. CASE Refresh
      <3>1. conn' = Restrict(conn, {s \in DOMAIN conn : conn[s].hello = HelloKeys(mem', s)})
        BY <2>1 DEF Refresh
      <3>2. \A s \in DOMAIN conn' : s \in DOMAIN conn /\ conn'[s] = conn[s] /\ conn[s].hello = HelloKeys(mem', s)
        BY <3>1 DEF Restrict
      <3>3. PICK m : m = mem'
        OBVIOUS
      <3>4. \A s : HelloKeys(m, s) \subseteq {s} \union Range(m.boardKey) \union DOMAIN m.roster
        BY HelloFromCaches
      <3>5. \A s \in DOMAIN conn' : /\ conn'[s].keys = conn'[s].hello \union {s}
                                   /\ conn'[s].hello \subseteq {s} \union Range(m.boardKey) \union DOMAIN m.roster
        BY <3>2, <3>3, <3>4 DEF LeavesInv, Declared
      <3> QED
        BY <3>3, <3>5 DEF Declared
    <2>2. CASE Reload
      BY <2>2 DEF Reload, Nothing, Declared
    <2>3. CASE \E s : Disconnect(s)
      BY <2>3 DEF Disconnect, Without, Restrict, LeavesInv, Declared
    <2> QED
      BY <2>1, <2>2, <2>3
  <1>3. \A k \in left' : Forgotten(k)'
    BY <1>1, FewerForgotten
  <1>4. now' \in Nat /\ now <= now'
    BY <1>1, LeavesNames
  <1> QED
    BY <1>1, <1>2, <1>3, <1>4, LeavesKept

LEMMA LeavesRemoteDelete ==
    ASSUME LeavesInv, MembersInv', NEW s \in world.servers, RemoteDelete(s)
    PROVE  LeavesInv'
  <1>1. PICK tomb : /\ srv' = [srv EXCEPT ![s] = Bury(srv[s], tomb)] /\ dev' \in {MergeTomb(dev, tomb), dev}
    <2>1. PICK t : t = Only(Item, [at |-> now + 1, key |-> srv[s].row[Item].ns])
      OBVIOUS
    <2>2. srv' = [srv EXCEPT ![s] = Bury(srv[s], t)] /\ dev' \in {MergeTomb(dev, t), dev}
      BY <2>1 DEF RemoteDelete
    <2> QED
      BY <2>2
  <1>2. UNCHANGED <<mem, conn, pending, world, was, left>> /\ pending = None /\ now' = now + 1
    BY DEF RemoteDelete, User
  <1>3. ASSUME NEW t \in world.servers
        PROVE  /\ srv'[t].userKeys = srv[t].userKeys
               /\ \A e \in DOMAIN srv'[t].row : e \in DOMAIN srv[t].row /\ srv'[t].row[e] = srv[t].row[e]
    <2>1. t = s /\ ServerOK(srv[s]) /\ s \in DOMAIN srv
      BY LeavesNames DEF LeavesInv, TellsOnLeaving, Single, MembersInv, SharingShape
    <2>2. srv'[t] = Bury(srv[s], tomb)
      BY <1>1, <2>1
    <2>3. /\ Bury(srv[s], tomb).userKeys = srv[s].userKeys
          /\ \A e \in DOMAIN Bury(srv[s], tomb).row : e \in DOMAIN srv[s].row /\ Bury(srv[s], tomb).row[e] = srv[s].row[e]
      BY <2>1, BuryIs
    <2> QED
      BY <2>1, <2>2, <2>3
  <1>4. dev'.roster = dev.roster /\ \A e \in DOMAIN dev'.row : e \in DOMAIN dev.row /\ dev'.row[e] = dev.row[e]
    <2>1. CASE dev' = dev
      BY <2>1
    <2>2. CASE dev' = MergeTomb(dev, tomb)
      <3>1. DOMAIN dev = {"row", "tomb", "cursor", "roster", "bind", "known"} /\ RowsOK(dev.row)
        BY DEF LeavesInv, MembersInv, SharingShape
      <3>2. dev'.roster = dev.roster /\ \E X : dev'.row = Without(dev.row, X)
        BY <2>2, <3>1, MergeTombOK
      <3> QED
        BY <3>2 DEF Without, Restrict
    <2> QED
      BY <1>1, <2>1, <2>2
  <1>5. Declared'
    BY <1>2, DeclaredKept
  <1>6. \A k \in left' : Forgotten(k)'
    BY <1>2, <1>3, <1>4, FewerForgotten
  <1> QED
    BY <1>2, <1>3, <1>4, <1>5, <1>6, LeavesNames, LeavesKept

\* T is server s, in state S before, after row r of entity e was put there, or
\* nothing was.
PutOn(S, T, s, e, r) ==
    /\ Filed(T, s) /\ T.userKeys = S.userKeys /\ DOMAIN T = DOMAIN S
    /\ \A b \in Boards \intersect DOMAIN T.row :
          \/ b \in DOMAIN S.row /\ T.row[b].key = S.row[b].key /\ T.row[b].ts = S.row[b].ts
          \/ b = e /\ T.row[b].key = r.key /\ T.row[b].ts = r.ts

\* A row that is put on a server and, if it is a board's, is newer than any there.
LEMMA OneFiled ==
    ASSUME NEW S, ServerOK(S), NEW s, Filed(S, s), NEW t \in Nat, NEW h, BoardsUpTo(S.row, t, h), NEW e, NEW r,
           NEW n, e \in Boards => r.ts = t + 1 /\ n = IF r.key = NoKey THEN s ELSE r.key
    PROVE  PutOn(S, Upsert(S, Only(e, r), Only(e, n)), s, e, r)
  <1>1. PICK rows, ns : rows = Only(e, r) /\ ns = Only(e, n)
    OBVIOUS
  <1>2. DOMAIN rows = {e} /\ rows[e] = r /\ ns[e] = n
    BY <1>1 DEF Only
  <1>3. \A b \in Boards \intersect DOMAIN rows : ns[b] = IF rows[b].key = NoKey THEN s ELSE rows[b].key
    BY <1>2
  <1>4. \A b \in Boards \intersect DOMAIN rows \intersect DOMAIN S.row :
              S.row[b].ts >= rows[b].ts => S.row[b].key = rows[b].key
    BY <1>2 DEF BoardsUpTo
  <1>5. LET U == Upsert(S, rows, ns) IN
        /\ Filed(U, s)
        /\ \A b \in Boards \intersect DOMAIN U.row :
              \/ b \in DOMAIN S.row /\ U.row[b].key = S.row[b].key /\ U.row[b].ts = S.row[b].ts
              \/ b \in DOMAIN rows /\ U.row[b].key = rows[b].key /\ U.row[b].ts = rows[b].ts
    BY <1>3, <1>4, UpsertFiles
  <1>6. Upsert(S, rows, ns).userKeys = S.userKeys /\ DOMAIN Upsert(S, rows, ns) = DOMAIN S
    BY UpsertIs
  <1> QED
    BY <1>1, <1>2, <1>5, <1>6 DEF PutOn

LEMMA PushedOn ==
    ASSUME LeavesInv, NEW e, NEW r, r.ts = now + 1, NEW m, NEW s \in world.servers
    PROVE  PutOn(srv[s], PushTo(conn, srv, m, e, r)[s], s, e, r)
  <1>1. PICK P : P = PushTo(conn, srv, m, e, r)
    OBVIOUS
  <1>2. PICK n : n = PushKey(m, e, r, s)
    OBVIOUS
  <1>3. s \in Servers /\ ServerOK(srv[s]) /\ now \in Nat
    BY LeavesNames
  <1>4. P[s] = srv[s] \/ P[s] = Upsert(srv[s], Only(e, r), Only(e, n))
    <2>1. \A t \in Servers :
              \/ PushTo(conn, srv, m, e, r)[t] = srv[t]
              \/ PushTo(conn, srv, m, e, r)[t] = Upsert(srv[t], Only(e, r), Only(e, PushKey(m, e, r, t)))
      BY PushToIs
    <2> QED
      BY <1>1, <1>2, <1>3, <2>1
  <1>5. Filed(srv[s], s) /\ BoardsUpTo(srv[s].row, now, was)
    BY DEF LeavesInv, StoresInv
  <1>6. CASE P[s] = srv[s]
    BY <1>1, <1>5, <1>6 DEF PutOn
  <1>7. CASE P[s] = Upsert(srv[s], Only(e, r), Only(e, n))
    <2>1. e \in Boards => r.ts = now + 1 /\ n = IF r.key = NoKey THEN s ELSE r.key
      BY <1>2 DEF PushKey
    <2>2. PutOn(srv[s], Upsert(srv[s], Only(e, r), Only(e, n)), s, e, r)
      BY <1>3, <1>5, <2>1, OneFiled
    <2> QED
      BY <1>1, <1>7, <2>2
  <1> QED
    BY <1>4, <1>6, <1>7

\* A board keeps its key, unless nobody else writes, and an entity is new only
\* once.
MayName(e, k) ==
    IF e \in DOMAIN dev.row THEN k = dev.row[e].key \/ "remote" \notin world.does
    ELSE \A x \in was : x[1] # e

\* Row r of entity e is on the device, and perhaps on servers.
LEMMA StoresWritten ==
    ASSUME LeavesInv, world' = world, now' = now + 1, was \subseteq was', Namespaces(dev'.row) \subseteq was',
           NEW e, NEW r, r.ts = now + 1, e \in Boards => MayName(e, r.key),
           DOMAIN dev'.row = {e} \union DOMAIN dev.row, dev'.row[e] = r,
           \A x \in DOMAIN dev.row \ {e} : dev'.row[x] = dev.row[x],
           \A s \in world.servers : \E T : PutOn(srv[s], T, s, e, r) /\ srv'[s].row = T.row
    PROVE  StoresInv'
  <1>1. ASSUME NEW s \in world.servers, NEW b \in Boards \intersect DOMAIN srv'[s].row
        PROVE  /\ srv'[s].row[b].ts \in Nat /\ srv'[s].row[b].ts <= now + 1 /\ \E x \in was' : x[1] = b
               /\ srv'[s].row[b].ns = IF srv'[s].row[b].key = NoKey THEN s ELSE srv'[s].row[b].key
               /\ b \in DOMAIN dev'.row =>
                     \/ dev'.row[b].key = srv'[s].row[b].key
                     \/ "remote" \notin world.does /\ srv'[s].row[b].ts < dev'.row[b].ts
    <2>1. PICK T : PutOn(srv[s], T, s, e, r) /\ srv'[s].row = T.row
      OBVIOUS
    <2>2. BoardsUpTo(srv[s].row, now, was) /\ Agrees(dev.row, srv[s]) /\ now \in Nat
      BY LeavesNames DEF LeavesInv, StoresInv
    <2>3. srv'[s].row[b].ns = IF srv'[s].row[b].key = NoKey THEN s ELSE srv'[s].row[b].key
      BY <2>1 DEF PutOn, Filed
    <2>4. CASE b \in DOMAIN srv[s].row /\ T.row[b].key = srv[s].row[b].key /\ T.row[b].ts = srv[s].row[b].ts
      <3>1. srv[s].row[b].ts \in Nat /\ srv[s].row[b].ts <= now /\ \E x \in was : x[1] = b
        BY <2>2, <2>4 DEF BoardsUpTo
      <3>2. CASE b # e
        <4>1. b \in DOMAIN dev'.row => b \in DOMAIN dev.row /\ dev'.row[b] = dev.row[b]
          BY <3>2
        <4> QED
          BY <2>1, <2>2, <2>3, <2>4, <3>1, <4>1 DEF Agrees
      <3>3. CASE b = e
        <4>1. e \in DOMAIN dev.row /\ (r.key = dev.row[e].key \/ "remote" \notin world.does)
          BY <3>1, <3>3 DEF MayName
        <4>2. "remote" \in world.does => dev.row[e].key = srv[s].row[e].key
          BY <2>2, <2>4, <3>3, <4>1 DEF Agrees
        <4>3. dev'.row[b].key = srv'[s].row[b].key \/ ("remote" \notin world.does /\ srv'[s].row[b].ts < dev'.row[b].ts)
          BY <2>1, <2>2, <2>4, <3>1, <3>3, <4>1, <4>2
        <4> QED
          BY <2>1, <2>2, <2>3, <2>4, <3>1, <4>3
      <3> QED
        BY <3>2, <3>3
    <2>5. CASE b = e /\ T.row[b].key = r.key /\ T.row[b].ts = r.ts
      <3>1. \E x \in was' : x[1] = e
        <4>1. PICK w : w = dev'.row
          OBVIOUS
        <4>2. <<e, KeyOf(w, BoardOf(w, e), s)>> \in Namespaces(w)
          BY <4>1, NamespaceOf
        <4>3. <<e, KeyOf(w, BoardOf(w, e), s)>> \in Namespaces(dev'.row)
          BY <4>1, <4>2
        <4>4. <<e, KeyOf(w, BoardOf(w, e), s)>>[1] = e
          OBVIOUS
        <4> QED
          BY <4>3, <4>4
      <3> QED
        BY <2>1, <2>2, <2>3, <2>5, <3>1
    <2> QED
      BY <2>1, <2>4, <2>5 DEF PutOn
  <1> QED
    BY <1>1 DEF StoresInv, BoardsUpTo, Filed, Agrees

\* The boards of a device whose rows are in the history.
LEMMA BoardsRecorded ==
    ASSUME NEW rows, NEW s \in world.servers, NEW h, Namespaces(rows) \subseteq h, NEW t,
           \A b \in Boards \intersect DOMAIN rows : rows[b].ts \in Nat /\ rows[b].ts <= t
    PROVE  BoardsUpTo(rows, t, h)
  <1>1. ASSUME NEW b \in DOMAIN rows PROVE \E x \in h : x[1] = b
    <2>1. <<b, KeyOf(rows, BoardOf(rows, b), s)>> \in h
      BY NamespaceOf
    <2>2. <<b, KeyOf(rows, BoardOf(rows, b), s)>>[1] = b
      OBVIOUS
    <2> QED
      BY <2>1, <2>2
  <1> QED
    BY <1>1 DEF BoardsUpTo

\* A row is written by the user.
LEMMA LeavesWritten ==
    ASSUME LeavesInv, MembersInv', world' = world, now' = now + 1, pending = None, conn' = conn, Recorded,
           mem'.boardKey = mem.boardKey, mem'.roster = mem.roster, left' \subseteq left,
           NEW e, NEW r, r.ts = now + 1, r.key = NoKey \/ r.key \notin left', e \in Boards => MayName(e, r.key),
           dev'.row = Over(Only(e, r), dev.row), dev'.roster = dev.roster,
           NEW m, \/ srv' = PushTo(conn, srv, m, e, r)
                  \/ \E k : k \notin left' /\ srv' = Associated(conn, PushTo(conn, srv, m, e, r), k)
    PROVE  LeavesInv'
  <1>1. PICK P : P = PushTo(conn, srv, m, e, r)
    OBVIOUS
  <1>2. ASSUME NEW s \in world.servers PROVE PutOn(srv[s], P[s], s, e, r)
    BY <1>1, <1>2, PushedOn
  <1>3. ASSUME NEW s \in world.servers
        PROVE  srv'[s].row = P[s].row /\ \A k \in srv'[s].userKeys : k \in srv[s].userKeys \/ k \notin left'
    <2>1. s \in Servers /\ DOMAIN P[s] = {"row", "tomb", "userKeys", "had", "shown"} /\ P[s].userKeys = srv[s].userKeys
      BY <1>2, LeavesNames DEF PutOn, ServerOK
    <2>2. CASE srv' = P
      BY <2>1, <2>2
    <2>3. ASSUME NEW k, k \notin left', srv' = Associated(conn, P, k)
          PROVE  srv'[s].row = P[s].row /\ \A j \in srv'[s].userKeys : j \in srv[s].userKeys \/ j \notin left'
      <3>1. srv'[s] = P[s] \/ srv'[s] = [P[s] EXCEPT !.userKeys = P[s].userKeys \union {k}]
        BY <2>1, <2>3 DEF Associated
      <3> QED
        BY <2>1, <2>3, <3>1
    <2> QED
      BY <1>1, <2>2, <2>3
  <1>4. /\ DOMAIN dev'.row = {e} \union DOMAIN dev.row /\ dev'.row[e] = r
        /\ \A x \in DOMAIN dev.row \ {e} : dev'.row[x] = dev.row[x]
    BY DEF Over, Only
  <1>5. was \subseteq was' /\ Namespaces(dev'.row) \subseteq was'
    BY DEF Recorded
  <1>6. \A s \in world.servers : \E T : PutOn(srv[s], T, s, e, r) /\ srv'[s].row = T.row
    BY <1>2, <1>3
  <1>7. StoresInv'
    BY <1>4, <1>5, <1>6, StoresWritten
  <1>8. BoardsUpTo(dev.row, now, was)'
    <2>1. PICK s \in world.servers : TRUE
      BY DEF LeavesInv, TellsOnLeaving
    <2>2. PICK w : w = dev'.row
      OBVIOUS
    <2>3. PICK h, t : h = was' /\ t = now'
      OBVIOUS
    <2>4. BoardsUpTo(dev.row, now, was) /\ now \in Nat
      BY LeavesNames DEF LeavesInv
    <2>5. \A b \in Boards \intersect DOMAIN w : w[b].ts \in Nat /\ w[b].ts <= t
      BY <1>4, <2>2, <2>3, <2>4 DEF BoardsUpTo
    <2>6. BoardsUpTo(w, t, h)
      BY <1>5, <2>2, <2>3, <2>5, BoardsRecorded
    <2> QED
      BY <2>2, <2>3, <2>6
  <1>9. Declared'
    BY DeclaredKept
  <1>10. ASSUME NEW k \in left' PROVE Forgotten(k)'
    <2>1. /\ k \in ShareKeys /\ k \notin DOMAIN dev.roster
          /\ \A x \in DOMAIN dev.row : dev.row[x].key # k
          /\ \A s \in world.servers : k \notin srv[s].userKeys
      BY <1>10, RestForgotten
    <2>2. r.key # k
      BY <1>10, <2>1, LeavesNames
    <2> QED
      BY <1>3, <1>4, <1>10, <2>1, <2>2 DEF Forgotten
  <1>11. TellsOnLeaving(world)'
    BY DEF LeavesInv, TellsOnLeaving
  <1> QED
    BY <1>7, <1>8, <1>9, <1>10, <1>11 DEF LeavesInv

LEMMA LeavesCreateBoard ==
    ASSUME LeavesInv, MembersInv', NEW b \in Boards, NEW k, CreateBoard(b, k)
    PROVE  LeavesInv'
  <1> DEFINE r == [ts |-> now + 1, key |-> k, board |-> None]
  <1>1. /\ world' = world /\ mem' = mem /\ conn' = conn /\ Recorded /\ pending = None /\ now' = now + 1
        /\ srv' = Associated(conn, PushTo(conn, srv, mem, b, r), k) /\ left' = left \ {k}
        /\ \A x \in was : x[1] # b
    BY DEF CreateBoard, User
  <1>2. dev'.row = Over(Only(b, r), dev.row) /\ dev'.roster = dev.roster
    <2>1. \/ dev' = [dev EXCEPT !.row = Over(Only(b, r), dev.row)]
          \/ \E s \in DOMAIN conn :
                dev' = [dev EXCEPT !.row = Over(Only(b, r), dev.row), !.bind = Over(Only(b, s), dev.bind)]
      BY DEF CreateBoard
    <2> HIDE DEF r
    <2> QED
      BY <2>1 DEF LeavesInv, MembersInv, SharingShape
  <1>3. r.ts = now + 1 /\ r.key \notin left'
    BY <1>1
  <1>4. MayName(b, r.key)
    BY <1>1 DEF MayName, LeavesInv, BoardsUpTo
  <1> HIDE DEF r
  <1> QED
    BY <1>1, <1>2, <1>3, <1>4, LeavesWritten

LEMMA LeavesShare ==
    ASSUME LeavesInv, MembersInv', NEW b \in Boards, NEW k, Share(b, k)
    PROVE  LeavesInv'
  <1> DEFINE r == [Restamped(b) EXCEPT !.key = k]
  <1>1. /\ world' = world /\ mem' = mem /\ conn' = conn /\ Recorded /\ pending = None /\ now' = now + 1
        /\ srv' = Associated(conn, PushTo(conn, srv, mem, b, r), k) /\ left' = left \ {k}
        /\ dev' = [dev EXCEPT !.row = Over(Only(b, r), dev.row)]
        /\ "share" \in world.does /\ b \in DOMAIN dev.row
    BY DEF Share, User, Held
  <1>2. DOMAIN dev.row[b] = {"ts", "key", "board"}
    BY <1>1, LeavesNames DEF RowsOK
  <1>3. r.ts = now + 1 /\ r.key = k
    BY <1>2 DEF Restamped
  <1> HIDE DEF r
  <1>4. dev'.row = Over(Only(b, r), dev.row) /\ dev'.roster = dev.roster
    BY <1>1 DEF LeavesInv, MembersInv, SharingShape
  <1>5. MayName(b, r.key)
    BY <1>1 DEF MayName, LeavesInv, TellsOnLeaving
  <1> QED
    BY <1>1, <1>3, <1>4, <1>5, LeavesWritten

LEMMA LeavesWrites ==
    ASSUME LeavesInv, MembersInv', world' = world, now' = now + 1, pending = None, conn' = conn, Recorded,
           left' = left, NEW e \in Entities, NEW r, r.ts = now + 1, Written(dev, e, r),
           \/ e \notin Boards /\ r.key = NoKey
           \/ e \in DOMAIN dev.row /\ r.key = dev.row[e].key
    PROVE  LeavesInv'
  <1>1. PICK m : m = Noted(mem, e, r)
    OBVIOUS
  <1>2. dev' = [dev EXCEPT !.row = Over(Only(e, r), dev.row)] /\ mem' = m /\ srv' = PushTo(conn, srv, m, e, r)
    BY <1>1 DEF Written
  <1>3. m.boardKey = mem.boardKey /\ m.roster = mem.roster
    BY <1>1 DEF Noted, LeavesInv, MembersInv, SharingShape
  <1>4. dev'.row = Over(Only(e, r), dev.row) /\ dev'.roster = dev.roster
    BY <1>2 DEF LeavesInv, MembersInv, SharingShape
  <1>5. r.key = NoKey \/ r.key \notin left'
    BY RestForgotten
  <1>6. e \in Boards => MayName(e, r.key)
    BY DEF MayName
  <1> QED
    BY <1>2, <1>3, <1>4, <1>5, <1>6, LeavesWritten

LEMMA LeavesUserWrites ==
    ASSUME LeavesInv, MembersInv',
           \/ \E e \in {List, Item}, b \in Boards : CreateChild(e, b)
           \/ \E e \in Entities : Edit(e)
           \/ \E b \in Boards : MoveList(b)
    PROVE  LeavesInv'
  <1>0. List \in Entities /\ Item \in Entities /\ List \notin Boards /\ Item \notin Boards
    BY SharingAssumption DEF Entities
  <1>1. ASSUME NEW e \in {List, Item}, NEW b \in Boards, CreateChild(e, b)
        PROVE  LeavesInv'
    <2> DEFINE r == [ts |-> now + 1, key |-> NoKey, board |-> IF e = List THEN b ELSE None]
    <2>1. /\ world' = world /\ now' = now + 1 /\ pending = None /\ conn' = conn /\ Recorded /\ left' = left
          /\ Written(dev, e, r)
      BY <1>1 DEF CreateChild, User
    <2>2. r.ts = now + 1 /\ r.key = NoKey
      OBVIOUS
    <2> HIDE DEF r
    <2> QED
      BY <1>0, <2>1, <2>2, LeavesWrites
  <1>2. ASSUME NEW e \in Entities, Edit(e)
        PROVE  LeavesInv'
    <2> DEFINE r == Restamped(e)
    <2>1. /\ world' = world /\ now' = now + 1 /\ pending = None /\ conn' = conn /\ Recorded /\ left' = left
          /\ Written(dev, e, r) /\ e \in DOMAIN dev.row
      BY <1>2 DEF Edit, User, Held
    <2>2. DOMAIN dev.row[e] = {"ts", "key", "board"}
      BY <2>1, LeavesNames DEF RowsOK
    <2>3. r.ts = now + 1 /\ r.key = dev.row[e].key
      BY <2>2 DEF Restamped
    <2> HIDE DEF r
    <2> QED
      BY <2>1, <2>3, LeavesWrites
  <1>3. ASSUME NEW b \in Boards, MoveList(b)
        PROVE  LeavesInv'
    <2> DEFINE r == [Restamped(List) EXCEPT !.board = b]
    <2>1. /\ world' = world /\ now' = now + 1 /\ pending = None /\ conn' = conn /\ Recorded /\ left' = left
          /\ Written(dev, List, r) /\ List \in DOMAIN dev.row
      BY <1>3 DEF MoveList, User, Held
    <2>2. DOMAIN dev.row[List] = {"ts", "key", "board"}
      BY <2>1, LeavesNames DEF RowsOK
    <2>3. r.ts = now + 1 /\ r.key = dev.row[List].key
      BY <2>2 DEF Restamped
    <2> HIDE DEF r
    <2> QED
      BY <1>0, <2>1, <2>3, LeavesWrites
  <1> QED
    BY <1>1, <1>2, <1>3

\* A row after a merge is what was there or what came.
LEMMA MergeRowIs ==
    ASSUME NEW d, DOMAIN d = {"row", "tomb", "cursor", "roster", "bind", "known"}, NEW rows
    PROVE  LET D == MergeRow(d, rows) IN
           /\ DOMAIN D = DOMAIN d /\ D.roster = d.roster
           /\ \A e \in DOMAIN D.row :
                 \/ e \in DOMAIN d.row /\ D.row[e] = d.row[e]
                 \/ e \in DOMAIN rows /\ D.row[e].key = rows[e].key /\ D.row[e].ts = rows[e].ts
  <1> DEFINE newer == {e \in DOMAIN rows : e \notin DOMAIN d.row \/ d.row[e].ts < rows[e].ts}
             new == [e \in newer |-> [ts |-> rows[e].ts, key |-> rows[e].key, board |-> rows[e].board]]
             D == MergeRow(d, rows)
  <1>1. D = [d EXCEPT !.row = Over(new, d.row)]
    BY Zenon DEF MergeRow
  <1>2. DOMAIN new \subseteq DOMAIN rows /\ \A e \in DOMAIN new : new[e].key = rows[e].key /\ new[e].ts = rows[e].ts
    OBVIOUS
  <1> HIDE DEF new, newer, D
  <1>3. DOMAIN D = DOMAIN d /\ D.roster = d.roster /\ D.row = Over(new, d.row)
    BY <1>1
  <1>4. /\ DOMAIN D.row = DOMAIN new \union DOMAIN d.row
        /\ \A e \in DOMAIN new : D.row[e] = new[e]
        /\ \A e \in DOMAIN d.row \ DOMAIN new : D.row[e] = d.row[e]
    BY <1>3 DEF Over
  <1> QED
    BY <1>2, <1>3, <1>4 DEF D

LEMMA LeavesRemote ==
    ASSUME LeavesInv, MembersInv', NEW s \in world.servers, NEW e, NEW r, NEW k, Remote(s, e, r, k), r.ts = now + 1,
           e \in Boards => k = IF r.key = NoKey THEN s ELSE r.key,
           e \notin Boards => r.key = NoKey,
           e \in Boards => (\A x \in was : x[1] # e) \/ (e \in DOMAIN srv[s].row /\ r.key = srv[s].row[e].key)
    PROVE  LeavesInv'
  <1> DEFINE U == Upsert(srv[s], Only(e, r), Only(e, k))
  <1>1. /\ UNCHANGED <<conn, pending, world, left>> /\ srv' = [srv EXCEPT ![s] = U] /\ pending = None /\ now' = now + 1
        /\ "remote" \in world.does /\ was' = was \union Namespaces(dev'.row) \union {<<e, k>>}
        /\ \/ Hears(s, k) /\ dev' = MergeRow(dev, Only(e, r)) /\ mem' = Noted(mem, e, r)
           \/ dev' = dev /\ mem' = mem
    BY DEF Remote, User
  <1>2. ServerOK(srv[s]) /\ now \in Nat /\ s \in DOMAIN srv
    BY LeavesNames DEF LeavesInv, MembersInv, SharingShape
  <1>3. Filed(srv[s], s) /\ BoardsUpTo(srv[s].row, now, was) /\ Agrees(dev.row, srv[s]) /\ BoardsUpTo(dev.row, now, was)
    BY DEF LeavesInv, StoresInv
  <1>4. PutOn(srv[s], U, s, e, r)
    <2>1. e \in Boards => r.ts = now + 1 /\ k = IF r.key = NoKey THEN s ELSE r.key
      OBVIOUS
    <2>2. ServerOK(srv[s]) /\ Filed(srv[s], s) /\ now \in Nat /\ BoardsUpTo(srv[s].row, now, was)
      BY <1>2, <1>3
    <2>3. PutOn(srv[s], Upsert(srv[s], Only(e, r), Only(e, k)), s, e, r)
      BY <2>1, <2>2, OneFiled
    <2> QED
      BY <2>3
  <1> HIDE DEF U
  <1>5. srv'[s] = U /\ \A t \in world.servers : t = s
    BY <1>1, <1>2 DEF LeavesInv, TellsOnLeaving
  <1>6. /\ dev'.roster = dev.roster
        /\ \A x \in DOMAIN dev'.row :
              \/ x \in DOMAIN dev.row /\ dev'.row[x] = dev.row[x]
              \/ x = e /\ dev'.row[x].key = r.key /\ dev'.row[x].ts = r.ts /\ Hears(s, k)
    <2>1. CASE dev' = dev
      BY <2>1
    <2>2. CASE Hears(s, k) /\ dev' = MergeRow(dev, Only(e, r))
      <3>1. PICK rows : rows = Only(e, r)
        OBVIOUS
      <3>2. DOMAIN rows = {e} /\ rows[e] = r
        BY <3>1 DEF Only
      <3>3. DOMAIN dev = {"row", "tomb", "cursor", "roster", "bind", "known"}
        BY DEF LeavesInv, MembersInv, SharingShape
      <3>4. /\ MergeRow(dev, rows).roster = dev.roster
            /\ \A x \in DOMAIN MergeRow(dev, rows).row :
                  \/ x \in DOMAIN dev.row /\ MergeRow(dev, rows).row[x] = dev.row[x]
                  \/ x \in DOMAIN rows /\ MergeRow(dev, rows).row[x].key = rows[x].key
                     /\ MergeRow(dev, rows).row[x].ts = rows[x].ts
        BY <3>3, MergeRowIs
      <3> QED
        BY <2>2, <3>1, <3>2, <3>4
    <2> QED
      BY <1>1, <2>1, <2>2
  <1>7. \A x \in was : x \in was'
    BY <1>1
  <1>8. \E x \in was' : x[1] = e
    <2>1. <<e, k>> \in was' /\ <<e, k>>[1] = e
      BY <1>1
    <2> QED
      BY <2>1
  <1>9. BoardsUpTo(dev'.row, now', was')
    BY <1>1, <1>2, <1>3, <1>6, <1>7, <1>8 DEF BoardsUpTo
  <1>10. BoardsUpTo(U.row, now', was')
    BY <1>1, <1>2, <1>3, <1>4, <1>7, <1>8 DEF BoardsUpTo, PutOn
  <1>11. ASSUME NEW b \in Boards \intersect DOMAIN dev'.row \intersect DOMAIN U.row
         PROVE  dev'.row[b].key = U.row[b].key
    <2>1. \A c \in Boards \intersect DOMAIN dev.row \intersect DOMAIN srv[s].row : dev.row[c].key = srv[s].row[c].key
      BY <1>1, <1>3 DEF Agrees
    <2>2. \/ b \in DOMAIN srv[s].row /\ U.row[b].key = srv[s].row[b].key
          \/ b = e /\ U.row[b].key = r.key
      BY <1>4 DEF PutOn
    <2>3. CASE b # e
      BY <1>6, <2>1, <2>2, <2>3
    <2>4. CASE b = e /\ e \in DOMAIN srv[s].row /\ r.key = srv[s].row[e].key
      BY <1>6, <2>1, <2>2, <2>4
    <2>5. CASE b = e /\ \A x \in was : x[1] # e
      BY <1>3, <1>6, <2>2, <2>5 DEF BoardsUpTo
    <2> QED
      BY <2>3, <2>4, <2>5
  <1>12. Filed(U, s)
    BY <1>4 DEF PutOn
  <1>13. StoresInv'
    BY <1>5, <1>1, <1>10, <1>11, <1>12 DEF StoresInv, Agrees, Filed, BoardsUpTo
  <1>14. BoardsUpTo(dev.row, now, was)'
    BY <1>9 DEF BoardsUpTo
  <1>15. mem'.boardKey = mem.boardKey /\ mem'.roster = mem.roster
    BY <1>1 DEF Noted, LeavesInv, MembersInv, SharingShape
  <1>16. Declared'
    BY <1>1, <1>15, DeclaredKept
  <1>17. ASSUME NEW j \in left' PROVE Forgotten(j)'
    <2>1. /\ j \in ShareKeys /\ j \notin DOMAIN dev.roster
          /\ \A x \in DOMAIN dev.row : dev.row[x].key # j
          /\ \A t \in world.servers : j \notin srv[t].userKeys
      BY <1>1, <1>17, RestForgotten
    <2>2. j # s /\ j # NoKey
      BY <2>1, LeavesNames
    <2>3. Hears(s, k) => j # r.key
      BY <2>1, <2>2 DEF Hears
    <2>4. \A x \in DOMAIN dev'.row : dev'.row[x].key # j
      BY <1>6, <2>1, <2>3
    <2>5. \A t \in world.servers : j \notin srv'[t].userKeys
      BY <1>4, <1>5, <2>1 DEF PutOn
    <2> QED
      BY <1>1, <1>6, <2>1, <2>4, <2>5 DEF Forgotten
  <1>18. TellsOnLeaving(world)'
    BY <1>1 DEF LeavesInv, TellsOnLeaving
  <1> QED
    BY <1>13, <1>14, <1>16, <1>17, <1>18 DEF LeavesInv

LEMMA LeavesRemotes ==
    ASSUME LeavesInv, MembersInv', NEW s \in world.servers,
           \/ \E b \in Boards, k \in ShareKeys \union {s} : RemoteCreate(s, b, k)
           \/ \E e \in Entities : RemoteEdit(s, e)
    PROVE  LeavesInv'
  <1>1. ASSUME NEW b \in Boards, NEW k \in ShareKeys \union {s}, RemoteCreate(s, b, k)
        PROVE  LeavesInv'
    <2> DEFINE r == [ts |-> now + 1, key |-> IF k = s THEN NoKey ELSE k, board |-> None]
    <2>1. Remote(s, b, r, k) /\ \A x \in was : x[1] # b
      BY <1>1 DEF RemoteCreate
    <2>2. r.ts = now + 1 /\ k = IF r.key = NoKey THEN s ELSE r.key
      BY LeavesNames
    <2> HIDE DEF r
    <2> QED
      BY <2>1, <2>2, LeavesRemote
  <1>2. ASSUME NEW e \in Entities, RemoteEdit(s, e)
        PROVE  LeavesInv'
    <2> DEFINE r == [srv[s].row[e] EXCEPT !.ts = now + 1]
               k == srv[s].row[e].ns
    <2>1. Remote(s, e, r, k) /\ e \in DOMAIN srv[s].row
      BY <1>2 DEF RemoteEdit
    <2>2. ServerOK(srv[s])
      BY LeavesNames
    <2>3. DOMAIN srv[s].row[e] = {"ts", "key", "board", "ns"} /\ (e \notin Boards => srv[s].row[e].key = NoKey)
      BY <2>1, <2>2 DEF ServerOK, KeysOfBoardsOnly
    <2>4. r.ts = now + 1 /\ r.key = srv[s].row[e].key
      BY <2>3
    <2>5. e \in Boards => k = IF r.key = NoKey THEN s ELSE r.key
      BY <2>1, <2>4 DEF LeavesInv, StoresInv, Filed
    <2> HIDE DEF r, k
    <2> QED
      BY <2>1, <2>3, <2>4, <2>5, LeavesRemote
  <1> QED
    BY <1>1, <1>2

\* What an initial sync leaves of boards on the server ...
LEMMA UploadedFiles ==
    ASSUME NEW S, ServerOK(S), NEW d, DeviceOK(d), NEW m, NEW s, NEW keys, Filed(S, s),
           \A b \in Boards \intersect DOMAIN d.row \intersect DOMAIN S.row :
              S.row[b].ts >= d.row[b].ts => S.row[b].key = d.row[b].key
    PROVE  LET U == Uploaded(S, d, m, s, keys) IN
           /\ ServerOK(U) /\ U.userKeys = S.userKeys /\ Filed(U, s)
           /\ \A b \in Boards \intersect DOMAIN U.row :
                 \/ b \in DOMAIN S.row /\ U.row[b].key = S.row[b].key /\ U.row[b].ts = S.row[b].ts
                 \/ b \in DOMAIN d.row /\ U.row[b].key = d.row[b].key /\ U.row[b].ts = d.row[b].ts
  <1> DEFINE rows == Restrict(d.row, RowsFor(d, m, s, keys))
             ns == [e \in DOMAIN rows |-> KeyOf(d.row, BoardOf(d.row, e), s)]
             tombs == [e \in TombsFor(d, s, keys) |-> [at |-> d.tomb[e].at, key |-> TombKey(d.tomb[e], s)]]
             P == Upsert(S, rows, ns)
             U == Uploaded(S, d, m, s, keys)
  <1>1. U = Bury(P, tombs)
    BY Zenon DEF Uploaded
  <1>2. RowsFor(d, m, s, keys) \subseteq DOMAIN d.row
    BY DEF RowsFor
  <1>3. DOMAIN rows \subseteq DOMAIN d.row /\ \A e \in DOMAIN rows : rows[e] = d.row[e]
    BY <1>2 DEF Restrict
  <1>4. \A e \in DOMAIN rows : ns[e] = KeyOf(d.row, BoardOf(d.row, e), s)
    OBVIOUS
  <1> HIDE DEF rows, ns, tombs, U
  <1>5. DOMAIN rows \subseteq Entities /\ KeysOfBoardsOnly(rows) /\ \A e \in DOMAIN rows : rows[e].ts \in Nat
    BY <1>3 DEF DeviceOK, RowsOK, KeysOfBoardsOnly
  <1>6. ServerOK(P) /\ P.userKeys = S.userKeys
    BY <1>5, UpsertOK, UpsertIs
  <1>7. \A b \in Boards \intersect DOMAIN rows : ns[b] = IF rows[b].key = NoKey THEN s ELSE rows[b].key
    <2>1. \A b \in Boards : BoardOf(d.row, b) = b
      BY SharingAssumption DEF BoardOf
    <2> QED
      BY <1>3, <1>4, <2>1 DEF KeyOf
  <1>8. \A b \in Boards \intersect DOMAIN rows \intersect DOMAIN S.row :
              S.row[b].ts >= rows[b].ts => S.row[b].key = rows[b].key
    BY <1>3
  <1>9. /\ Filed(P, s)
        /\ \A b \in Boards \intersect DOMAIN P.row :
              \/ b \in DOMAIN S.row /\ P.row[b].key = S.row[b].key /\ P.row[b].ts = S.row[b].ts
              \/ b \in DOMAIN rows /\ P.row[b].key = rows[b].key /\ P.row[b].ts = rows[b].ts
    BY <1>7, <1>8, UpsertFiles
  <1> HIDE DEF P
  <1>10. /\ ServerOK(Bury(P, tombs)) /\ Bury(P, tombs).userKeys = P.userKeys
         /\ \A e \in DOMAIN Bury(P, tombs).row : e \in DOMAIN P.row /\ Bury(P, tombs).row[e] = P.row[e]
    BY <1>6, BuryIs, BuryOK
  <1>11. ServerOK(U) /\ U.userKeys = S.userKeys /\ \A e \in DOMAIN U.row : e \in DOMAIN P.row /\ U.row[e] = P.row[e]
    BY <1>1, <1>6, <1>10
  <1>12. Filed(U, s)
    BY <1>9, <1>11 DEF Filed
  <1>13. \A b \in Boards \intersect DOMAIN U.row :
              \/ b \in DOMAIN S.row /\ U.row[b].key = S.row[b].key /\ U.row[b].ts = S.row[b].ts
              \/ b \in DOMAIN d.row /\ U.row[b].key = d.row[b].key /\ U.row[b].ts = d.row[b].ts
    BY <1>3, <1>9, <1>11
  <1> QED
    BY <1>11, <1>12, <1>13 DEF U

\* ... and on the device.
PulledInto(D, S, d, keys) ==
    /\ D.roster = d.roster
    /\ \A e \in DOMAIN D.row :
          \/ e \in DOMAIN d.row /\ D.row[e] = d.row[e]
          \/ e \in DOMAIN S.row /\ S.row[e].ns \in keys /\ D.row[e].key = S.row[e].key /\ D.row[e].ts = S.row[e].ts

LEMMA DownloadedIs ==
    ASSUME NEW S, NEW d, DeviceOK(d), NEW keys
    PROVE  PulledInto(Downloaded(S, d, keys), S, d, keys)
  <1> DEFINE rows == Restrict(S.row, Pulled(S, d, keys))
             tombs == Restrict(S.tomb, PulledTombs(S, d, keys))
             M == MergeRow(d, rows)
             T == MergeTomb(M, tombs)
             D == Downloaded(S, d, keys)
  <1>1. \A e \in DOMAIN rows : e \in DOMAIN S.row /\ S.row[e].ns \in keys /\ rows[e] = S.row[e]
    BY DEF Restrict, Pulled
  <1>2. PICK c : D = [T EXCEPT !.cursor = c]
    BY Zenon DEF Downloaded
  <1>3. PICK t, X : T = [M EXCEPT !.tomb = t, !.row = Without(M.row, X)]
    BY Zenon DEF MergeTomb
  <1> HIDE DEF rows, tombs, D, T
  <1>4. /\ DOMAIN M = DOMAIN d /\ M.roster = d.roster
        /\ \A e \in DOMAIN M.row :
              \/ e \in DOMAIN d.row /\ M.row[e] = d.row[e]
              \/ e \in DOMAIN rows /\ M.row[e].key = rows[e].key /\ M.row[e].ts = rows[e].ts
    BY MergeRowIs DEF DeviceOK
  <1> HIDE DEF M
  <1>5. DOMAIN T = DOMAIN d /\ T.roster = d.roster /\ T.row = Without(M.row, X)
    BY <1>3, <1>4 DEF DeviceOK
  <1>6. D.roster = d.roster /\ D.row = Without(M.row, X)
    BY <1>2, <1>5 DEF DeviceOK
  <1>7. \A e \in DOMAIN D.row : e \in DOMAIN M.row /\ D.row[e] = M.row[e]
    BY <1>6 DEF Without, Restrict
  <1> QED
    BY <1>1, <1>4, <1>6, <1>7 DEF D, PulledInto

\* adoptUserKeys adds what the server reports.
LEMMA AdoptIs ==
    ASSUME NEW roster, NEW K, NEW s
    PROVE  DOMAIN Adopt(roster, K, s) = DOMAIN roster \union K
  BY DEF Adopt

\* What ok brings: server s is in state S, and the rows of both are those of
\* either side.
Synced(S, s, hello, userKeys) ==
    /\ srv' = [srv EXCEPT ![s] = S] /\ S.userKeys = userKeys /\ Filed(S, s)
    /\ \A b \in Boards \intersect DOMAIN S.row :
          \/ b \in DOMAIN srv[s].row /\ S.row[b].key = srv[s].row[b].key /\ S.row[b].ts = srv[s].row[b].ts
          \/ b \in DOMAIN dev.row /\ S.row[b].key = dev.row[b].key /\ S.row[b].ts = dev.row[b].ts
    /\ DOMAIN dev'.roster = DOMAIN dev.roster \union userKeys
    /\ \A e \in DOMAIN dev'.row :
          \/ e \in DOMAIN dev.row /\ dev'.row[e] = dev.row[e]
          \/ /\ e \in DOMAIN S.row /\ S.row[e].ns \in hello \union {s}
             /\ dev'.row[e].key = S.row[e].key /\ dev'.row[e].ts = S.row[e].ts
    /\ \A e \in DOMAIN S.row : e \notin Boards => S.row[e].key = NoKey

LEMMA ReadyIs ==
    ASSUME LeavesInv, NEW s \in world.servers, NEW hello, NEW userKeys, Ready(s, hello, userKeys)
    PROVE  /\ conn' = Over(Only(s, [hello |-> hello, keys |-> hello \union {s}]), conn)
           /\ mem'.boardKey = mem.boardKey /\ mem'.roster = mem.roster
           /\ \E S : Synced(S, s, hello, userKeys)
  <1> DEFINE keys == hello \union {s}
             bound == BindUnbound(mem, s)
             d == [dev EXCEPT !.known = dev.known \union {s}, !.roster = Adopt(dev.roster, userKeys, s),
                              !.bind = Over(bound, dev.bind)]
             m == [mem EXCEPT !.bind = Over(bound, mem.bind)]
             S0 == [srv[s] EXCEPT !.userKeys = userKeys]
             S == Uploaded(S0, d, m, s, keys)
             pulled == Pulled(S, d, keys)
  <1>1. /\ conn' = Over(Only(s, [hello |-> hello, keys |-> keys]), conn)
        /\ srv' = [srv EXCEPT ![s] = S]
        /\ dev' = Downloaded(S, d, keys)
        /\ mem' = [m EXCEPT !.listBoard = IF List \in pulled THEN S.row[List].board ELSE m.listBoard,
                            !.item = m.item \/ Item \in pulled \union (RowsFor(d, m, s, keys))]
    BY Zenon DEF Ready
  <1>2. DeviceOK(dev) /\ d.row = dev.row /\ DOMAIN d = DOMAIN dev /\ d.roster = Adopt(dev.roster, userKeys, s)
    BY DEF LeavesInv, MembersInv, SharingShape, DeviceOK
  <1> HIDE DEF d
  <1>3. DeviceOK(d)
    BY <1>2 DEF DeviceOK
  <1>4. mem'.boardKey = mem.boardKey /\ mem'.roster = mem.roster
    <2>1. /\ DOMAIN m = {"boards", "boardKey", "bind", "roster", "known", "listBoard", "item"}
          /\ m.boardKey = mem.boardKey /\ m.roster = mem.roster
      BY DEF LeavesInv, MembersInv, SharingShape
    <2> HIDE DEF m, S, pulled
    <2> QED
      BY <1>1, <2>1
  <1> HIDE DEF m, keys, pulled
  <1>6. ServerOK(srv[s])
    BY LeavesNames
  <1>7. ServerOK(S0) /\ S0.row = srv[s].row /\ S0.userKeys = userKeys
    <2>1. DOMAIN S0 = DOMAIN srv[s] /\ S0.row = srv[s].row /\ S0.had = srv[s].had /\ S0.shown = srv[s].shown
          /\ S0.userKeys = userKeys
      BY <1>6 DEF ServerOK
    <2> HIDE DEF S0
    <2> QED
      BY <1>6, <2>1 DEF ServerOK
  <1> HIDE DEF S0
  <1>8. Filed(srv[s], s) /\ BoardsUpTo(srv[s].row, now, was) /\ Agrees(dev.row, srv[s]) /\ BoardsUpTo(dev.row, now, was)
    BY DEF LeavesInv, StoresInv
  <1>9. Filed(S0, s)
    BY <1>7, <1>8 DEF Filed
  <1>10. \A b \in Boards \intersect DOMAIN d.row \intersect DOMAIN S0.row :
              S0.row[b].ts >= d.row[b].ts => S0.row[b].key = d.row[b].key
    BY <1>2, <1>7, <1>8 DEF Agrees, BoardsUpTo
  <1>11. /\ ServerOK(S) /\ S.userKeys = S0.userKeys /\ Filed(S, s)
         /\ \A b \in Boards \intersect DOMAIN S.row :
               \/ b \in DOMAIN S0.row /\ S.row[b].key = S0.row[b].key /\ S.row[b].ts = S0.row[b].ts
               \/ b \in DOMAIN d.row /\ S.row[b].key = d.row[b].key /\ S.row[b].ts = d.row[b].ts
    BY <1>3, <1>7, <1>9, <1>10, UploadedFiles
  <1> HIDE DEF S
  <1>12. PulledInto(dev', S, d, keys)
    <2>1. PulledInto(Downloaded(S, d, keys), S, d, keys)
      BY <1>3, DownloadedIs
    <2> QED
      BY <1>1, <2>1
  <1>13. DOMAIN dev'.roster = DOMAIN dev.roster \union userKeys
    <2>1. PICK t : t = dev.roster
      OBVIOUS
    <2>2. DOMAIN Adopt(t, userKeys, s) = DOMAIN t \union userKeys
      BY AdoptIs
    <2> QED
      BY <1>2, <1>12, <2>1, <2>2 DEF PulledInto
  <1>14. \A e \in DOMAIN dev'.row :
            \/ e \in DOMAIN dev.row /\ dev'.row[e] = dev.row[e]
            \/ /\ e \in DOMAIN S.row /\ S.row[e].ns \in keys
               /\ dev'.row[e].key = S.row[e].key /\ dev'.row[e].ts = S.row[e].ts
    BY <1>2, <1>12 DEF PulledInto
  <1>15. \A e \in DOMAIN S.row : e \notin Boards => S.row[e].key = NoKey
    BY <1>11 DEF ServerOK, KeysOfBoardsOnly
  <1>16. \A b \in Boards \intersect DOMAIN S.row :
            \/ b \in DOMAIN srv[s].row /\ S.row[b].key = srv[s].row[b].key /\ S.row[b].ts = srv[s].row[b].ts
            \/ b \in DOMAIN dev.row /\ S.row[b].key = dev.row[b].key /\ S.row[b].ts = dev.row[b].ts
    BY <1>2, <1>7, <1>11
  <1> QED
    <2>1. Synced(S, s, hello, userKeys)
      BY <1>1, <1>7, <1>11, <1>13, <1>14, <1>15, <1>16 DEF keys, Synced
    <2> QED
      BY <1>1, <1>4, <2>1 DEF keys

LEMMA LeavesReady ==
    ASSUME LeavesInv, MembersInv', NEW s \in world.servers, NEW hello, NEW userKeys, Ready(s, hello, userKeys),
           UpToDate, pending = None, UNCHANGED <<pending, now, world>>, Recorded, left' \subseteq left,
           hello \subseteq {s} \union Range(mem.boardKey) \union DOMAIN mem.roster,
           userKeys \intersect left' = {}
    PROVE  LeavesInv'
  <1>1. /\ conn' = Over(Only(s, [hello |-> hello, keys |-> hello \union {s}]), conn)
        /\ mem'.boardKey = mem.boardKey /\ mem'.roster = mem.roster
    BY ReadyIs
  <1>0. PICK S : Synced(S, s, hello, userKeys)
    BY ReadyIs
  <1>2. /\ srv' = [srv EXCEPT ![s] = S] /\ S.userKeys = userKeys /\ Filed(S, s)
        /\ \A b \in Boards \intersect DOMAIN S.row :
              \/ b \in DOMAIN srv[s].row /\ S.row[b].key = srv[s].row[b].key /\ S.row[b].ts = srv[s].row[b].ts
              \/ b \in DOMAIN dev.row /\ S.row[b].key = dev.row[b].key /\ S.row[b].ts = dev.row[b].ts
        /\ DOMAIN dev'.roster = DOMAIN dev.roster \union userKeys
        /\ \A e \in DOMAIN dev'.row :
              \/ e \in DOMAIN dev.row /\ dev'.row[e] = dev.row[e]
              \/ /\ e \in DOMAIN S.row /\ S.row[e].ns \in hello \union {s}
                 /\ dev'.row[e].key = S.row[e].key /\ dev'.row[e].ts = S.row[e].ts
        /\ \A e \in DOMAIN S.row : e \notin Boards => S.row[e].key = NoKey
    BY <1>0 DEF Synced
  <1>3. srv'[s] = S /\ \A t \in world.servers : t = s
    BY <1>2, LeavesNames DEF LeavesInv, TellsOnLeaving, MembersInv, SharingShape
  <1>4. BoardsUpTo(srv[s].row, now, was) /\ Agrees(dev.row, srv[s]) /\ BoardsUpTo(dev.row, now, was) /\ now \in Nat
    BY LeavesNames DEF LeavesInv, StoresInv
  <1>5. was \subseteq was'
    BY DEF Recorded
  <1>6. BoardsUpTo(S.row, now, was)
    BY <1>2, <1>4 DEF BoardsUpTo
  <1>7. BoardsUpTo(dev'.row, now, was)
    BY <1>2, <1>4, <1>6 DEF BoardsUpTo
  <1>8. \A b \in Boards \intersect DOMAIN dev'.row \intersect DOMAIN S.row :
           \/ dev'.row[b].key = S.row[b].key
           \/ "remote" \notin world.does /\ S.row[b].ts < dev'.row[b].ts
    BY <1>2, <1>4 DEF Agrees
  <1>9. StoresInv'
    <2>1. BoardsUpTo(S.row, now, was')
      BY <1>5, <1>6 DEF BoardsUpTo
    <2> QED
      BY <1>2, <1>3, <1>8, <2>1 DEF StoresInv, Agrees, Filed, BoardsUpTo
  <1>10. BoardsUpTo(dev.row, now, was)'
    BY <1>5, <1>7 DEF BoardsUpTo
  <1>11. Declared'
    <2>1. PICK v : v = [hello |-> hello, keys |-> hello \union {s}]
      OBVIOUS
    <2>2. v.hello = hello /\ v.keys = hello \union {s}
      BY <2>1
    <2>3. conn' = Over(Only(s, v), conn)
      BY <1>1, <2>1
    <2>4. \A t \in DOMAIN conn' : (t = s /\ conn'[t] = v) \/ (t \in DOMAIN conn /\ conn'[t] = conn[t])
      BY <2>3 DEF Over, Only
    <2> QED
      BY <1>1, <2>2, <2>4 DEF LeavesInv, Declared
  <1>12. ASSUME NEW k \in left' PROVE Forgotten(k)'
    <2>1. /\ k \in ShareKeys /\ k \notin DOMAIN dev.roster
          /\ \A x \in DOMAIN dev.row : dev.row[x].key # k
          /\ k \notin userKeys
      BY <1>12, RestForgotten
    <2>2. k # s /\ k # NoKey
      BY <2>1, LeavesNames
    <2>3. k \notin hello
      <3>1. mem.boardKey = [b \in {x \in DOMAIN dev.row \intersect Boards : dev.row[x].key # NoKey} |-> dev.row[b].key]
            /\ mem.roster = dev.roster
        BY FreshIs DEF LeavesInv, MembersInv
      <3>2. k \notin Range(mem.boardKey)
        BY <2>1, <3>1 DEF Range
      <3> QED
        BY <2>1, <2>2, <3>1, <3>2
    <2>4. \A x \in DOMAIN dev'.row : dev'.row[x].key # k
      <3>1. ASSUME NEW x \in DOMAIN S.row, S.row[x].ns \in hello \union {s}, S.row[x].key = k
            PROVE  FALSE
        <4>1. x \in Boards
          BY <1>2, <2>2, <3>1
        <4>2. S.row[x].ns = k
          BY <1>2, <2>2, <3>1, <4>1 DEF Filed
        <4> QED
          BY <2>2, <2>3, <3>1, <4>2
      <3> QED
        BY <1>2, <2>1, <3>1
    <2>5. \A t \in world.servers : k \notin srv'[t].userKeys
      BY <1>2, <1>3, <2>1
    <2> QED
      BY <1>2, <2>1, <2>4, <2>5 DEF Forgotten
  <1>13. TellsOnLeaving(world)'
    BY DEF LeavesInv, TellsOnLeaving
  <1> QED
    BY <1>9, <1>10, <1>11, <1>12, <1>13 DEF LeavesInv

LEMMA LeavesConnect ==
    ASSUME LeavesInv, MembersInv', NEW s \in world.servers, Connect(s)
    PROVE  LeavesInv'
  <1> DEFINE hello == HelloKeys(mem, s)
  <1>1. Ready(s, hello, srv[s].userKeys \union (hello \ {s})) /\ Recorded
        /\ UNCHANGED <<pending, now, world>> /\ left' = left
    BY DEF Connect
  <1>2. UpToDate /\ pending = None
    BY DEF Connect, LeavesInv, TellsOnLeaving
  <1>3. hello \subseteq {s} \union Range(mem.boardKey) \union DOMAIN mem.roster
    <2>1. PICK m : m = mem
      OBVIOUS
    <2>2. HelloKeys(m, s) \subseteq {s} \union Range(m.boardKey) \union DOMAIN m.roster
      BY HelloFromCaches
    <2> QED
      BY <2>1, <2>2
  <1> HIDE DEF hello
  <1>4. ASSUME NEW k \in left' PROVE k \notin srv[s].userKeys \union (hello \ {s})
    <2>1. /\ k \in ShareKeys /\ k \notin DOMAIN dev.roster
          /\ \A x \in DOMAIN dev.row : dev.row[x].key # k
          /\ k \notin srv[s].userKeys
      BY <1>1, <1>2, <1>4, RestForgotten
    <2>2. mem.boardKey = [b \in {x \in DOMAIN dev.row \intersect Boards : dev.row[x].key # NoKey} |-> dev.row[b].key]
          /\ mem.roster = dev.roster
      BY <1>2, FreshIs DEF LeavesInv, MembersInv
    <2>3. k \notin Range(mem.boardKey)
      BY <2>1, <2>2 DEF Range
    <2> QED
      BY <1>3, <2>1, <2>2, <2>3
  <1> QED
    BY <1>1, <1>2, <1>3, <1>4, LeavesReady

LEMMA LeavesJoin ==
    ASSUME LeavesInv, MembersInv', NEW s \in world.servers, NEW k, Join(s, k)
    PROVE  LeavesInv'
  <1>1. Ready(s, conn[s].hello, srv[s].userKeys \union {k}) /\ Recorded
        /\ UNCHANGED <<pending, now, world>> /\ left' = left \ {k} /\ s \in DOMAIN conn
    BY DEF Join
  <1>2. UpToDate /\ pending = None
    BY DEF Join, Settled, LeavesInv, TellsOnLeaving
  <1>3. conn[s].hello \subseteq {s} \union Range(mem.boardKey) \union DOMAIN mem.roster
    BY <1>1 DEF LeavesInv, Declared
  <1>4. (srv[s].userKeys \union {k}) \intersect left' = {}
    BY <1>1, <1>2, RestForgotten
  <1> QED
    BY <1>1, <1>2, <1>3, <1>4, LeavesReady

LEMMA LeavesNext ==
    ASSUME LeavesInv, [Next]_vars
    PROVE  LeavesInv'
  <1>0. MembersInv'
    BY MembersNext DEF LeavesInv, TellsOnLeaving
  <1>1. CASE UNCHANGED vars
    <2>1. UNCHANGED <<dev, mem, conn, srv, pending, now, world, was, left>>
      BY <1>1 DEF vars
    <2>2. Declared' /\ \A k \in left' : Forgotten(k)'
      BY <2>1 DEF LeavesInv, Declared, Forgotten
    <2>3. now' \in Nat /\ now <= now'
      BY <2>1, LeavesNames
    <2> QED
      BY <1>0, <2>1, <2>2, <2>3, LeavesKept
  <1>2. ASSUME NEW b \in Boards, NEW k \in ShareKeys, CreateBoard(b, k) \/ Share(b, k)
        PROVE  LeavesInv'
    BY <1>0, <1>2, LeavesCreateBoard, LeavesShare
  <1>3. ASSUME NEW b \in Boards, CreateBoard(b, NoKey) \/ MoveList(b)
        PROVE  LeavesInv'
    BY <1>0, <1>3, LeavesCreateBoard, LeavesUserWrites
  <1>4. ASSUME NEW e \in {List, Item}, NEW b \in Boards, CreateChild(e, b)
        PROVE  LeavesInv'
    BY <1>0, <1>4, LeavesUserWrites
  <1>5. ASSUME NEW e \in Entities, Edit(e) \/ Delete(e)
        PROVE  LeavesInv'
    BY <1>0, <1>5, LeavesUserWrites, LeavesDelete
  <1>6. ASSUME NEW k \in ShareKeys, LeaveKey(k)
        PROVE  LeavesInv'
    BY <1>0, <1>6, LeavesLeaveKey
  <1>7. ASSUME Discard \/ DeletePushed \/ LeaveSent \/ Refresh \/ Reload
        PROVE  LeavesInv'
    BY <1>0, <1>7, LeavesDiscard, LeavesDeletePushed, LeavesLeaveSent, LeavesRefresh
  <1>8. ASSUME NEW s \in world.servers, Connect(s) \/ Disconnect(s) \/ RemoteDelete(s)
        PROVE  LeavesInv'
    BY <1>0, <1>8, LeavesConnect, LeavesRefresh, LeavesRemoteDelete
  <1>9. ASSUME NEW s \in world.servers, NEW k \in ShareKeys, Join(s, k) \/ SiblingLeaves(s, k)
        PROVE  LeavesInv'
    BY <1>0, <1>9, LeavesJoin, LeavesSiblingLeaves
  <1>10. ASSUME NEW s \in world.servers,
                \/ \E e \in Entities : RemoteEdit(s, e)
                \/ \E b \in Boards, k \in ShareKeys \union {s} : RemoteCreate(s, b, k)
         PROVE  LeavesInv'
    BY <1>0, <1>10, LeavesRemotes
  <1> QED
    BY <1>1, <1>2, <1>3, <1>4, <1>5, <1>6, <1>7, <1>8, <1>9, <1>10 DEF Next

LEMMA LeavesInit ==
    ASSUME Init, TellsOnLeaving(world)
    PROVE  LeavesInv
  <1>1. MembersInv
    BY MembersInit
  <1>2. DOMAIN dev.row = {} /\ DOMAIN conn = {} /\ left = {}
    BY DEF Init, Nothing
  <1>3. \A s \in world.servers : DOMAIN srv[s].row = {}
    BY SharingAssumption DEF Init, EmptyServer, Nothing
  <1>4. BoardsUpTo(dev.row, now, was)
    BY <1>2 DEF BoardsUpTo
  <1>5. StoresInv
    BY <1>3 DEF StoresInv, BoardsUpTo, Filed, Agrees
  <1>6. Declared
    BY <1>2 DEF Declared
  <1> QED
    BY <1>1, <1>2, <1>4, <1>5, <1>6 DEF LeavesInv

\* What the property says: what a connection declared, the caches still have.
LEMMA LeavesTold ==
    ASSUME LeavesInv
    PROVE  LeftStaysLeft
  <1>1. ASSUME Quiet, NEW k \in left
        PROVE  /\ k \notin DOMAIN dev.roster
               /\ \A e \in DOMAIN dev.row : dev.row[e].key # k
               /\ \A s \in world.servers : k \notin srv[s].userKeys \union conn[s].hello
    <2>1. pending = None /\ UpToDate /\ DOMAIN conn = world.servers
      BY <1>1 DEF Quiet
    <2>2. /\ k \in ShareKeys /\ k \notin DOMAIN dev.roster
          /\ \A e \in DOMAIN dev.row : dev.row[e].key # k
          /\ \A s \in world.servers : k \notin srv[s].userKeys
      BY <1>1, <2>1, RestForgotten
    <2>3. mem.boardKey = [b \in {x \in DOMAIN dev.row \intersect Boards : dev.row[x].key # NoKey} |-> dev.row[b].key]
          /\ mem.roster = dev.roster
      BY <2>1, FreshIs DEF LeavesInv, MembersInv
    <2>4. k \notin Range(mem.boardKey)
      BY <2>2, <2>3 DEF Range
    <2>5. ASSUME NEW s \in world.servers PROVE k \notin conn[s].hello
      BY <2>1, <2>2, <2>3, <2>4, LeavesNames DEF LeavesInv, Declared
    <2> QED
      BY <2>2, <2>5
  <1> QED
    BY <1>1 DEF LeftStaysLeft

\* The same of several servers, from the invariant of Part 2.
LEMMA HomeTold ==
    ASSUME HomeInv
    PROVE  LeftStaysLeft
  <1>1. ASSUME Quiet, NEW k \in left
        PROVE  /\ k \notin DOMAIN dev.roster
               /\ \A e \in DOMAIN dev.row : dev.row[e].key # k
               /\ \A s \in world.servers : k \notin srv[s].userKeys \union conn[s].hello
    <2>1. pending = None /\ UpToDate /\ DOMAIN conn = world.servers
          /\ \A s \in DOMAIN conn : conn[s].hello = HelloKeys(mem, s)
      BY <1>1 DEF Quiet
    <2>2. /\ k \in ShareKeys /\ k \notin DOMAIN dev.roster
          /\ \A e \in DOMAIN dev.row : dev.row[e].key # k
          /\ \A s \in world.servers : k \notin srv[s].userKeys
      BY <1>1, <2>1 DEF HomeInv, LeftKeys, KeyOn
    <2>3. ASSUME NEW s \in world.servers PROVE k \notin HelloKeys(mem, s)
      <3>1. k # s
        BY <2>2, HomeNames
      <3> QED
        BY <1>1, <2>1, <3>1, HelloAtHome
    <2> QED
      BY <2>1, <2>2, <2>3
  <1> QED
    BY <1>1 DEF LeftStaysLeft

LeftInv == LeavesInv \/ HomeInv

\* At rest a key the user left is neither declared, nor listed by a server, nor
\* on the device (removeByKey, adoptUserKeys, recomputeAllKeys,
\* doInitialSync): for any boards, keys and operations, online and offline,
\* with keys used and joined again, boards moved between them, and siblings
\* that leave; where there is one server, if boards change their keys or others
\* write, but not both; where there are several, in the worlds of
\* BoardsStayHome.
THEOREM LeftKeysStayLeft ==
    ASSUME \A w \in Worlds : TellsOnLeaving(w) \/ (Spared(w) /\ ~Single(w.servers))
    PROVE  Spec => []LeftStaysLeft
  <1>1. Init => LeftInv
    BY LeavesInit, HomeInit DEF Init, LeftInv
  <1>2. LeftInv /\ [Next]_vars => LeftInv'
    BY LeavesNext, HomeNext DEF LeftInv
  <1>3. LeftInv => LeftStaysLeft
    BY LeavesTold, HomeTold DEF LeftInv
  <1> QED
    BY <1>1, <1>2, <1>3, PTL DEF Spec
=============================================================================
