---------------------------- MODULE ListrDeviceDb ----------------------------
(***************************************************************************)
(* One entity in the IndexedDB of one device, between the awaits.          *)
(*                                                                         *)
(* A message from the server starts its handler (SyncClient.ts) at once,   *)
(* whether or not the handler of the message before is done; a user's edit *)
(* or deletion (db/operations.ts) starts one too.  Each database call of a *)
(* handler is a transaction of its own.  IndexedDB runs the transactions   *)
(* on a store in the order they were requested, so the state is a queue of *)
(* requests per store, and running the first request may add the next one  *)
(* of the same handler at the end: whatever another handler requested in   *)
(* between runs first.                                                     *)
(***************************************************************************)
EXTENDS Naturals, Sequences

CONSTANTS
    NoRow,
    MaxClock,       \* bound: the last tick of the device's clock
    MaxUserOps,     \* bound: edits and deletions of the user
    Timings         \* how the user and the server may time what they do:
                    \*   "serial": a handler starts only when no other is under way
                    \*   "stream": versions arrive back to back, nothing else happens
                    \*   "pairs":  versions arrive, and the user edits, at any time, but
                    \*             one merge and one edit are under way at most
                    \*   "edits":  versions arrive, and the user edits, at any time
                    \*   "deletions": versions and deletions arrive at any time

ASSUME DbAssumption ==
    /\ MaxClock \in Nat \ {0} /\ MaxUserOps \in Nat
    /\ NoRow \notin Nat
    /\ Timings \subseteq {"serial", "stream", "pairs", "edits", "deletions"}

VARIABLES
    timing,     \* one of Timings, for good
    item,       \* the updated_at of the entity's row, or NoRow
    tombAt,     \* the deleted_at of its tombstone, 0 for none
    q, tq,      \* the requests on the entity's store and on the tombstones
    clock,      \* Date.now()
    heard,      \* the largest stamp the server has sent on this connection
    userOps,
    pushed      \* history: stamps pushed for the user's edits

dbVars == <<timing, item, tombAt, q, tq, clock, heard, userOps, pushed>>

Stamp == 1 .. MaxClock

\* A message is a version, a deletion, or both (a snapshot): 0 for none.
Request ==
    [op : {"merge-get", "merge-put"}, ts : Stamp, thenDelete : 0 .. MaxClock]
        \union [op : {"tomb-get", "tomb-delete"}, at : Stamp]
        \union [op : {"edit"}, ts : Stamp]
        \union [op : {"edit-get", "delete-get", "delete"}]

TombRequest == [at : Stamp, local : BOOLEAN]

DbTypeOK ==
    /\ timing \in Timings
    /\ item \in Stamp \union {NoRow}
    /\ tombAt \in 0 .. MaxClock
    /\ q \in Seq(Request) /\ tq \in Seq(TombRequest)
    /\ clock \in Stamp
    /\ heard \in 0 .. clock
    /\ userOps \in 0 .. MaxUserOps
    /\ pushed \subseteq Stamp
    /\ timing = "serial" => Len(q) + Len(tq) <= 1

-----------------------------------------------------------------------------
(* Handlers start.                                                         *)

Quiet == q = <<>> /\ tq = <<>>

UnderWay(ops) == \E i \in DOMAIN q : q[i].op \in ops

MayStart(ops) ==
    /\ timing = "serial" => Quiet
    /\ timing = "pairs" => ~ UnderWay(ops)

\* entity, deleted or snapshot arrives.  On one connection the stamps the server
\* sends for an entity grow.  A version goes through the entity's store first;
\* a deletion first writes its tombstone.
Arrive(ts, at) ==
    /\ MayStart({"merge-get", "merge-put"})
    /\ (IF ts = 0 THEN at ELSE ts) \in (heard + 1) .. clock
    /\ at \in 0 .. clock /\ (ts # 0 => at < ts)
    /\ at # 0 => timing \in {"serial", "deletions"}
    /\ heard' = IF ts = 0 THEN at ELSE ts
    /\ IF ts # 0
       THEN /\ q' = Append(q, [op |-> "merge-get", ts |-> ts, thenDelete |-> at])
            /\ UNCHANGED tq
       ELSE /\ tq' = Append(tq, [at |-> at, local |-> FALSE])
            /\ UNCHANGED q
    /\ UNCHANGED <<timing, item, tombAt, clock, userOps, pushed>>

\* The row is on the screen when the user edits or deletes it.
UserStarts(r) ==
    /\ MayStart({"edit", "edit-get"})
    /\ timing \in {"serial", "pairs", "edits"}
    /\ item # NoRow
    /\ userOps < MaxUserOps
    /\ userOps' = userOps + 1
    /\ q' = Append(q, r)
    /\ UNCHANGED <<timing, item, tombAt, tq, clock, heard, pushed>>

\* updateItem takes its stamp before the update is queued.
StartEdit   == UserStarts([op |-> "edit", ts |-> clock])
StartDelete == timing # "pairs" /\ UserStarts([op |-> "delete-get"])

-----------------------------------------------------------------------------
(* Requests run.                                                           *)

Run(op) == q # <<>> /\ Head(q).op = op

\* The request is done, and its handler goes on with the requests in s.
Continue(s) == q' = Tail(q) \o s

\* Mutations of Accepts: no comparison at all; a row that is there is never
\* replaced.
AcceptsAnything(ts) == TRUE
AcceptsInsertOnly(ts) == item = NoRow

\* applyIncomingEntity and shouldDeleteOnTombstone.
Accepts(ts) == item = NoRow \/ ts > item
ShouldDelete(at) == item = NoRow \/ item <= at

\* After the rows of a snapshot, its tombstones.
TombstoneNext(at) ==
    tq' = IF at = 0 THEN tq ELSE Append(tq, [at |-> at, local |-> FALSE])

MergeGet ==
    LET r == Head(q) IN
    /\ Run("merge-get")
    /\ IF Accepts(r.ts)
       THEN /\ Continue(<<[r EXCEPT !.op = "merge-put"]>>)
            /\ UNCHANGED tq
       ELSE /\ Continue(<<>>)
            /\ TombstoneNext(r.thenDelete)
    /\ UNCHANGED <<timing, item, tombAt, clock, heard, userOps, pushed>>

MergePut ==
    LET r == Head(q) IN
    /\ Run("merge-put")
    /\ item' = r.ts
    /\ Continue(<<>>)
    /\ TombstoneNext(r.thenDelete)
    /\ UNCHANGED <<timing, tombAt, clock, heard, userOps, pushed>>

\* The tombstone's row is written without a look at the one it replaces.  The
\* handler of a message goes on to the entity, a local deletion is done.
TombPut ==
    LET r == Head(tq) IN
    /\ tq # <<>>
    /\ tombAt' = r.at
    /\ tq' = Tail(tq)
    /\ q' = IF r.local THEN q ELSE Append(q, [op |-> "tomb-get", at |-> r.at])
    /\ UNCHANGED <<timing, item, clock, heard, userOps, pushed>>

TombGet ==
    LET r == Head(q) IN
    /\ Run("tomb-get")
    /\ Continue(IF ShouldDelete(r.at) THEN <<[r EXCEPT !.op = "tomb-delete"]>> ELSE <<>>)
    /\ UNCHANGED <<timing, item, tombAt, tq, clock, heard, userOps, pushed>>

TombDelete ==
    /\ Run("tomb-delete")
    /\ item' = NoRow
    /\ Continue(<<>>)
    /\ UNCHANGED <<timing, tombAt, tq, clock, heard, userOps, pushed>>

\* Mutation of Edit: what is pushed is what was written, not what is read back.
EditPushesItsOwn ==
    /\ Run("edit")
    /\ item' = IF item = NoRow THEN NoRow ELSE Head(q).ts
    /\ pushed' = IF item = NoRow THEN pushed ELSE pushed \union {Head(q).ts}
    /\ Continue(<<>>)
    /\ UNCHANGED <<timing, tombAt, tq, clock, heard, userOps>>

\* db.items.update: read and write in one transaction, no effect without a row.
Edit ==
    /\ Run("edit")
    /\ item' = IF item = NoRow THEN NoRow ELSE Head(q).ts
    /\ Continue(<<[op |-> "edit-get"]>>)
    /\ UNCHANGED <<timing, tombAt, tq, clock, heard, userOps, pushed>>

\* What is pushed is what is read back, if anything is.
EditGet ==
    /\ Run("edit-get")
    /\ pushed' = IF item = NoRow THEN pushed ELSE pushed \union {item}
    /\ Continue(<<>>)
    /\ UNCHANGED <<timing, item, tombAt, tq, clock, heard, userOps>>

DeleteGet ==
    /\ Run("delete-get")
    /\ Continue(IF item = NoRow THEN <<>> ELSE <<[op |-> "delete"]>>)
    /\ UNCHANGED <<timing, item, tombAt, tq, clock, heard, userOps, pushed>>

\* The deletion is stamped and pushed after its transaction.
DeleteRow ==
    /\ Run("delete")
    /\ item' = NoRow
    /\ Continue(<<>>)
    /\ tq' = Append(tq, [at |-> clock, local |-> TRUE])
    /\ UNCHANGED <<timing, tombAt, clock, heard, userOps, pushed>>

-----------------------------------------------------------------------------
\* The entity came in an earlier session.
DbInit ==
    /\ timing \in Timings
    /\ item = 1
    /\ tombAt = 0
    /\ q = <<>> /\ tq = <<>>
    /\ clock = 1 /\ heard = 1
    /\ userOps = 0
    /\ pushed = {}

DbTick ==
    /\ clock < MaxClock
    /\ clock' = clock + 1
    /\ UNCHANGED <<timing, item, tombAt, q, tq, heard, userOps, pushed>>

DbNext ==
    \/ DbTick
    \/ \E ts \in Stamp, at \in 0 .. MaxClock : Arrive(ts, at)
    \/ \E at \in Stamp : Arrive(0, at)
    \/ StartEdit \/ StartDelete
    \/ MergeGet \/ MergePut
    \/ TombPut \/ TombGet \/ TombDelete
    \/ Edit \/ EditGet
    \/ DeleteGet \/ DeleteRow

DbSpec == DbInit /\ [][DbNext]_dbVars

-----------------------------------------------------------------------------
(* Properties.                                                             *)

\* Last writer wins: a version is never replaced by an older one.
NeverOlder ==
    [][item # NoRow /\ item' # NoRow => item' >= item]_dbVars

\* That holds as long as no edit overlaps a merge (mergeEntity, applyTombstone), however
\* many handlers of messages overlap.
NeverOlderApart ==
    [][timing \notin {"pairs", "edits"} => (item # NoRow /\ item' # NoRow => item' >= item)]_dbVars

\* An edit that overlaps a merge is lost on both sides or on none: once all is quiet, the row
\* is the latest of what the server sent and what the device pushed, which is what the
\* server has too (updateItem pushes the row it reads back, never the one it wrote).
QuietAgrees ==
    timing = "pairs" /\ Quiet =>
        LET sent == {heard} \union pushed IN item \in sent /\ \A ts \in sent : ts <= item

\* What the server sent is on the device, or something newer: once all is quiet, the
\* row, or else the tombstone, is at least as recent as the latest message.
ShowsLatest ==
    Quiet => IF item = NoRow THEN tombAt >= heard ELSE item >= heard

\* That holds if handlers do not overlap, and also for versions that arrive back to back,
\* whose handlers do (mergeEntity, applyTombstone).
QuietShowsLatest == timing \in {"serial", "stream"} => ShowsLatest
=============================================================================
