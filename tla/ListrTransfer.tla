---------------------------- MODULE ListrTransfer ----------------------------
(***************************************************************************)
(* Export files and their import (client/src/db/exportImport.ts): a device *)
(* writes a board with its lists and items to a file, goes on, and reads a *)
(* file back, or reads one of another device.  The import is a sequence of *)
(* transactions that a reload of the page can cut short anywhere.          *)
(*                                                                         *)
(* The fields of a row are its name or title; a title that is not set      *)
(* shows what an integration found, or what the user typed before a pick   *)
(* released it.  An image is an asset that the item's title refers to.     *)
(***************************************************************************)
EXTENDS ListrChain

CONSTANTS
    TheBoard,       \* id of the board
    Unset,          \* the empty title, no picked title, no image
    NoDoc,
    Shelves,        \* what there may be at first, see below
    Renamed,        \* the title and the name a user gives
    NewItems,       \* ids of items the user makes
    MaxActs         \* bound: what the user does before a file is read

VARIABLES
    shelf,          \* the device's database
    doc,            \* the file
    job,            \* the import
    uploads,        \* what was pushed last of an id: a row or a deletion
    acts

transferVars == <<shelf, doc, job, uploads, acts>>

\* Fields of shelf:
\*   board     NoDoc, or [name, integration: "none", "off" or "on", at]
\*   lists     id -> [name, position, at]
\*   items     id -> Row of ListrChain, with title, typed and image
\*   tombs     id -> deleted_at
\*   images    assets
\*   found     item -> the title the integration found, for some items
NowAt == acts + 1

TypedRow(row, title, typed, image) == row @@ [title |-> title, typed |-> typed, image |-> image]

ItemsOf(s, l) == Restrict(s.items, InList(s.items, l))
Order(s, l) == ResolveChain(ItemsOf(s, l))
IdsOf(s) == DOMAIN s.lists \union DOMAIN s.items \union (IF s.board = NoDoc THEN {} ELSE {TheBoard})

StampOf(s, id) ==
    CASE id = TheBoard -> s.board.at
      [] id \in DOMAIN s.lists -> s.lists[id].at
      [] OTHER -> s.items[id].updated_at

RowOf(s, id) ==
    CASE id = TheBoard -> s.board
      [] id \in DOMAIN s.lists -> s.lists[id]
      [] OTHER -> s.items[id]

Blob == [asset |-> TRUE]
Deletion(at) == [deleted_at |-> at]

Minus(f, S) == Restrict(f, DOMAIN f \ S)

\* Rows of ids are gone, without more.
Without(s, ids) ==
    [s EXCEPT !.board = IF TheBoard \in ids THEN NoDoc ELSE @,
              !.lists = Minus(@, ids), !.items = Minus(@, ids)]

\* pushDelete of ids, with a stamp of each
Buried(s, stamps) == [s EXCEPT !.tombs = stamps @@ @]
Told(u, stamps) == [id \in DOMAIN stamps |-> Deletion(stamps[id])] @@ u
Alike(ids, at) == [id \in ids |-> at]

Pushed(u, s, ids) == [id \in ids \intersect IdsOf(s) |-> RowOf(s, id)] @@ u

\* deleteItem, deleteList and deleteBoard on a database and what was pushed
ItemDeleted(r, i) ==
    LET after == r.s.items[i].after
        heirs == {j \in DOMAIN r.s.items : r.s.items[j].after = i}
        s == Without([r.s EXCEPT !.items = Patched(@, PatchOne(heirs, after), NowAt)], {i})
    IN IF i \notin DOMAIN r.s.items THEN r
       ELSE [s |-> Buried(s, Alike({i}, NowAt)), u |-> Told(Pushed(r.u, s, heirs), Alike({i}, NowAt))]

Deleted(r, ids) ==
    [s |-> Buried(Without(r.s, ids), Alike(ids, NowAt)), u |-> Told(r.u, Alike(ids, NowAt))]

ListDeleted(r, l) == Deleted(r, {l} \union InList(r.s.items, l))
BoardDeleted(r) == Deleted(r, IdsOf(r.s))

----------------------------------------------------------------------------
(* The user                                                                *)

\* Bound: nothing but imports after the first of them.
Idle == job.stage = "idle"

Act(r) ==
    /\ Idle /\ acts < MaxActs
    /\ acts' = acts + 1
    /\ shelf' = r.s /\ uploads' = r.u
    /\ UNCHANGED <<doc, job>>

Here == [s |-> shelf, u |-> uploads]

Retitle(i) ==
    /\ i \in DOMAIN shelf.items
    /\ LET s == [shelf EXCEPT !.items[i].title = Renamed, !.items[i].updated_at = NowAt]
       IN Act([s |-> s, u |-> Pushed(uploads, s, {i})])

Append_(l, i) ==
    /\ l \in DOMAIN shelf.lists /\ i \notin DOMAIN shelf.items
    /\ LET row == TypedRow(Row(l, Tail_(Order(shelf, l)), NowAt, NoPosition, TRUE, NowAt), Renamed, Unset, Unset)
           s == [shelf EXCEPT !.items = (i :> row) @@ @]
       IN Act([s |-> s, u |-> Pushed(uploads, s, {i})])

ToTop(i) ==
    /\ i \in DOMAIN shelf.items
    /\ LET l == shelf.items[i].list
           patch == ReorderByAfterId(ItemsOf(shelf, l), Order(shelf, l), i, Top)
           s == [shelf EXCEPT !.items = Patched(@, patch, NowAt)]
       IN /\ patch # NoPatch
          /\ Act([s |-> s, u |-> Pushed(uploads, s, DOMAIN patch)])

RemoveItem(i) == i \in DOMAIN shelf.items /\ Act(ItemDeleted(Here, i))
RemoveList(l) == l \in DOMAIN shelf.lists /\ Act(ListDeleted(Here, l))
RemoveBoard == shelf.board # NoDoc /\ Act(BoardDeleted(Here))

----------------------------------------------------------------------------
(* Export                                                                  *)

\* itemsForExport: with the values of integrations if they are asked for
TitleIn(s, i, values) ==
    IF values /\ s.items[i].title = Unset /\ s.board.integration = "on" /\ i \in DOMAIN s.found
    THEN s.found[i] ELSE s.items[i].title

ListEntry(s, l, values) ==
    LET order == Order(s, l)
    IN [id |-> l, name |-> s.lists[l].name, position |-> s.lists[l].position, deleted |-> FALSE,
        items |-> [n \in DOMAIN order |->
                     [id |-> order[n], title |-> TitleIn(s, order[n], values), typed |-> s.items[order[n]].typed,
                      image |-> s.items[order[n]].image, deleted |-> FALSE]]]

\* Lists by position, as the database sorts them
Positioned(lists) ==
    Ranked(DOMAIN lists,
           Pairs(DOMAIN lists, LAMBDA l, m :
               lists[l].position < lists[m].position
               \/ (lists[l].position = lists[m].position /\ l < m)))

Exported(s, lists, tombs, images, options) ==
    [board |-> [name |-> s.board.name, deleted |-> FALSE,
                integration |-> IF options.integrations THEN s.board.integration ELSE "none"],
     lists |-> [n \in DOMAIN lists |-> ListEntry(s, lists[n], options.values)],
     tombs |-> tombs, images |-> images]

\* extractReferencedAssetIds, of assets the device has
ImagesOf(s, lists) == {s.items[i].image : i \in UNION {InList(s.items, l) : l \in lists}} \intersect s.images

Options == [integrations : BOOLEAN, values : BOOLEAN] \ {[integrations |-> FALSE, values |-> FALSE]}

Save(d) ==
    /\ Idle /\ doc = NoDoc
    /\ doc' = d
    /\ UNCHANGED <<shelf, job, uploads, acts>>

ExportAll(options) ==
    /\ shelf.board # NoDoc
    /\ Save(Exported(shelf, Positioned(shelf.lists), shelf.tombs, shelf.images, options))

ExportBoard(options) ==
    /\ shelf.board # NoDoc
    /\ Save(Exported(shelf, Positioned(shelf.lists), <<>>, ImagesOf(shelf, DOMAIN shelf.lists), options))

ExportList(l, options) ==
    /\ l \in DOMAIN shelf.lists
    /\ Save(Exported(shelf, <<l>>, <<>>, ImagesOf(shelf, {l}), options))

\* A file may mark what its reader is to delete.
Mark(n, k) ==
    /\ Idle /\ doc # NoDoc
    /\ IF n = 0 THEN doc' = [doc EXCEPT !.board.deleted = TRUE]
       ELSE /\ n \in DOMAIN doc.lists
            /\ IF k = 0 THEN doc' = [doc EXCEPT !.lists[n].deleted = TRUE]
               ELSE k \in DOMAIN doc.lists[n].items /\ doc' = [doc EXCEPT !.lists[n].items[k].deleted = TRUE]
    /\ acts < MaxActs /\ acts' = acts + 1
    /\ UNCHANGED <<shelf, job, uploads>>

\* The file is taken to a device that has another database.
Carry(s) ==
    /\ Idle /\ doc # NoDoc
    /\ shelf' = s /\ uploads' = <<>>
    /\ acts < MaxActs /\ acts' = acts + 1
    /\ UNCHANGED <<doc, job>>

----------------------------------------------------------------------------
(* Import                                                                  *)

\* mergeLogic.ts
TombWins(s, id, at) == id \notin IdsOf(s) \/ StampOf(s, id) <= at

\* resolveTombstoneActions and applyTombstoneActions: the row alone goes.
TombsApplied(r, tombs) ==
    LET won == Restrict(tombs, {id \in DOMAIN tombs : TombWins(r.s, id, tombs[id])})
    IN [s |-> Buried(Without(r.s, DOMAIN won), won), u |-> Told(r.u, won)]

Counted(verb, ids) == {<<verb, id>> : id \in ids}
TombsCounted(s, tombs) == Counted("deleted", {id \in DOMAIN tombs \intersect IdsOf(s) : TombWins(s, id, tombs[id])})

\* What one entry of the file is counted as, given the ids there are.
Verb(known, deleted, id) ==
    IF deleted THEN Counted("deleted", {id} \intersect known)
    ELSE Counted(IF id \in known THEN "updated" ELSE "created", {id})

ItemsCounted(known, entry) == UNION {Verb(known, entry.items[k].deleted, entry.items[k].id) : k \in DOMAIN entry.items}
ListCounted(known, entry) ==
    Verb(known, entry.deleted, entry.id) \union IF entry.deleted THEN {} ELSE ItemsCounted(known, entry)

\* previewNativeImport
Preview(s, d) ==
    LET known == IdsOf(s)
    IN TombsCounted(s, d.tombs) \union Verb(known, d.board.deleted, TheBoard)
           \union IF d.board.deleted THEN {} ELSE UNION {ListCounted(known, d.lists[n]) : n \in DOMAIN d.lists}

Importing == job.stage \in {"board", "rows", "chain", "finish"}

Confirm(option) ==
    /\ ~Importing /\ doc # NoDoc
    /\ LET r == TombsApplied(Here, doc.tombs)
       IN /\ shelf' = r.s /\ uploads' = r.u
          /\ job' = [stage |-> "board", n |-> 1, option |-> option, known |-> IdsOf(r.s), start |-> r.s,
                     fresh |-> FALSE, touched |-> {}, moved |-> {},
                     stats |-> TombsCounted(shelf, doc.tombs), preview |-> Preview(shelf, doc)]
    /\ UNCHANGED <<doc, acts>>

\* importedIntegrations: "none" leaves the board's own alone.
Taken(option) ==
    IF option = "none" \/ doc.board.integration = "none" THEN "none"
    ELSE IF option = "copy" THEN doc.board.integration ELSE "off"

NextList(n) == IF n > Len(doc.lists) THEN "finish" ELSE "rows"

TakeBoard ==
    LET known == TheBoard \in job.known
        taken == Taken(job.option)
        row == [name |-> doc.board.name, at |-> NowAt,
                integration |-> IF known /\ taken = "none" THEN shelf.board.integration ELSE taken]
        gone == BoardDeleted(Here)
    IN /\ job.stage = "board"
       /\ IF doc.board.deleted
          THEN /\ shelf' = IF known THEN gone.s ELSE shelf
               /\ uploads' = IF known THEN gone.u ELSE uploads
               /\ job' = [job EXCEPT !.stage = "finish", !.stats = @ \union Verb(job.known, TRUE, TheBoard)]
          ELSE /\ shelf' = [shelf EXCEPT !.board = row]
               /\ job' = [job EXCEPT !.stage = NextList(1), !.touched = {TheBoard},
                                     !.stats = @ \union Verb(job.known, FALSE, TheBoard)]
               /\ UNCHANGED uploads
       /\ UNCHANGED <<doc, acts>>

\* The title of an imported item: what the user typed, if nothing will show
\* in its place.
TitleFor(entry) ==
    IF entry.title = Unset /\ shelf.board.integration # "on" /\ entry.typed # Unset THEN entry.typed ELSE entry.title

\* One item of a list: deleted, updated if it is there still, or added at the
\* top, to be put in its place later.
ItemTaken(l, r, entry) ==
    LET i == entry.id
        set == [title |-> TitleFor(entry), image |-> entry.image,
                typed |-> IF entry.typed = Unset /\ i \in DOMAIN r.s.items THEN r.s.items[i].typed ELSE entry.typed]
    IN IF entry.deleted THEN (IF i \in job.known THEN ItemDeleted(r, i) ELSE r)
       ELSE IF i \notin job.known
       THEN [r EXCEPT !.s.items = (i :> TypedRow(Row(l, Top, NowAt, NoPosition, TRUE, NowAt), set.title, set.typed, set.image)) @@ @]
       ELSE IF i \notin DOMAIN r.s.items THEN r
       ELSE [r EXCEPT !.s.items[i] = [set EXCEPT !.title = @] @@ [@ EXCEPT !.updated_at = NowAt]]

ImportedIds(entry) == LET kept == SelectSeq(entry.items, LAMBDA e : ~e.deleted) IN [n \in DOMAIN kept |-> kept[n].id]

ListTaken(s, entry) ==
    LET l == entry.id
    IN IF l \notin job.known
       THEN [s EXCEPT !.lists = (l :> [name |-> entry.name, position |-> entry.position, at |-> NowAt]) @@ @]
       ELSE IF l \notin DOMAIN s.lists THEN s
       ELSE [s EXCEPT !.lists[l].name = entry.name, !.lists[l].at = NowAt]

TakeRows ==
    LET entry == doc.lists[job.n]
        gone == ListDeleted(Here, entry.id)
        r == FoldLeft(LAMBDA acc, e : ItemTaken(entry.id, acc, e), [s |-> ListTaken(shelf, entry), u |-> uploads], entry.items)
        known == entry.id \in job.known
    IN /\ job.stage = "rows"
       /\ IF entry.deleted
          THEN /\ shelf' = IF known THEN gone.s ELSE shelf
               /\ uploads' = IF known THEN gone.u ELSE uploads
               /\ job' = [job EXCEPT !.n = @ + 1, !.stage = NextList(job.n + 1), !.stats = @ \union ListCounted(job.known, entry)]
          ELSE /\ shelf' = r.s /\ uploads' = r.u
               /\ job' = [job EXCEPT !.stage = "chain", !.fresh = @ \/ ~known,
                                     !.touched = @ \union {entry.id} \union ToSet(ImportedIds(entry)),
                                     !.stats = @ \union ListCounted(job.known, entry)]
       /\ UNCHANGED <<doc, acts>>

\* The links of a list after an import: imported items first, in the order of
\* the file, then the others in theirs; mutation: others come first.
OthersFirst(raw, imported) ==
    Linked(LeavingOut(ResolveChain(raw), ToSet(imported)) \o imported, Top)

ImportOrder(raw, imported) ==
    Linked(imported \o LeavingOut(ResolveChain(raw), ToSet(imported)), Top)

TakeChain ==
    LET entry == doc.lists[job.n]
        imported == ImportedIds(entry)
        raw == ItemsOf(shelf, entry.id)
        links == ImportOrder(raw, imported)
        patch == Restrict(links, {i \in DOMAIN links \intersect DOMAIN shelf.items :
                                     i \notin DOMAIN raw \/ raw[i].after # links[i]})
    IN /\ job.stage = "chain"
       /\ shelf' = [shelf EXCEPT !.items = Patched(@, patch, NowAt)]
       /\ job' = [job EXCEPT !.n = @ + 1, !.stage = NextList(job.n + 1), !.moved = @ \union (DOMAIN patch \ ToSet(imported))]
       /\ UNCHANGED <<doc, uploads, acts>>

\* Lists whose position changes when a new list has the position of another
Repositioned(s) ==
    LET order == Positioned(s.lists)
        place == [l \in DOMAIN s.lists |-> SelectInSeq(order, LAMBDA m : m = l) - 1]
        clash == \E l, m \in DOMAIN s.lists : l # m /\ s.lists[l].position = s.lists[m].position
    IN IF job.fresh /\ clash THEN Restrict(place, {l \in DOMAIN place : place[l] # s.lists[l].position}) ELSE <<>>

\* What is pushed in the end; mutation: rows of the file only.
TouchedOnly(places) == job.touched

ToPush(places) == job.touched \union job.moved \union DOMAIN places

Finish ==
    LET places == Repositioned(shelf)
        s == [shelf EXCEPT !.lists = [l \in DOMAIN @ |-> IF l \in DOMAIN places
                                                         THEN [@[l] EXCEPT !.position = places[l], !.at = NowAt] ELSE @[l]],
                           !.images = @ \union doc.images]
    IN /\ job.stage = "finish"
       /\ shelf' = s
       /\ uploads' = Alike(doc.images, Blob) @@ Pushed(uploads, s, ToPush(places))
       /\ job' = [job EXCEPT !.stage = "done"]
       /\ UNCHANGED <<doc, acts>>

\* The page is reloaded; the file can be opened again.
PageReloads ==
    /\ Importing
    /\ job' = [stage |-> "cut"]
    /\ UNCHANGED <<shelf, doc, uploads, acts>>

----------------------------------------------------------------------------
TransferInit ==
    /\ shelf \in Shelves
    /\ doc = NoDoc /\ job = [stage |-> "idle"] /\ uploads = <<>> /\ acts = 0

ListIds == UNION {DOMAIN s.lists : s \in Shelves}
ItemIds == UNION {DOMAIN s.items : s \in Shelves} \union NewItems

UserActs ==
    \/ \E i \in ItemIds : Retitle(i) \/ ToTop(i) \/ RemoveItem(i)
    \/ \E l \in ListIds : RemoveList(l) \/ \E i \in NewItems : Append_(l, i)
    \/ RemoveBoard

UsesFile ==
    \/ \E o \in Options : ExportAll(o) \/ ExportBoard(o) \/ \E l \in ListIds : ExportList(l, o)
    \/ \E n \in 0 .. 2, k \in 0 .. 3 : Mark(n, k)
    \/ \E s \in Shelves : Carry(s)

Imports ==
    \/ \E option \in {"none", "copy", "disabled"} : Confirm(option)
    \/ TakeBoard \/ TakeRows \/ TakeChain \/ Finish
    \/ PageReloads

TransferNext == UserActs \/ UsesFile \/ Imports

TransferSpec == TransferInit /\ [][TransferNext]_transferVars

----------------------------------------------------------------------------
(* Properties                                                              *)

Entries == {doc.lists[n] : n \in DOMAIN doc.lists}
KeptItems(entry) == {e \in ToSet(entry.items) : ~e.deleted}

\* Every item of the file that the device has is in the list the file has it in.
InPlace == \A entry \in Entries : \A e \in ToSet(entry.items) :
               e.id \in DOMAIN job.start.items => job.start.items[e.id].list = entry.id

ListRestored(entry) ==
    LET l == entry.id
        named == {e.id : e \in ToSet(entry.items)}
    IN IF entry.deleted THEN l \notin DOMAIN shelf.lists /\ InList(shelf.items, l) = {}
       ELSE /\ l \in DOMAIN shelf.lists /\ shelf.lists[l].name = entry.name
            /\ Order(shelf, l) = ImportedIds(entry) \o LeavingOut(Order(job.start, l), named)
            /\ \A e \in KeptItems(entry) :
                   shelf.items[e.id].title = IF e.title = Unset /\ shelf.board.integration # "on" THEN e.typed ELSE e.title

\* However often an import was cut short before, and whatever the user did
\* since the export, one that ends leaves what the file says: names, titles,
\* and the items of each list in the file's order before those it does not
\* name, with positions that do not clash.
ImportRestores ==
    job.stage = "done" /\ InPlace =>
        IF doc.board.deleted THEN IdsOf(shelf) = {}
        ELSE /\ shelf.board.name = doc.board.name
             /\ (job.option = "disabled" /\ doc.board.integration # "none") => shelf.board.integration = "off"
             /\ \A entry \in Entries : ListRestored(entry)
             /\ doc.images \subseteq shelf.images

\* No entry of the file is also among its deletions.
Unburied ==
    DOMAIN doc.tombs \intersect ({TheBoard} \union UNION {{entry.id} \union {e.id : e \in ToSet(entry.items)} : entry \in Entries}) = {}

\* A row that an import changed, added or deleted is pushed as it is in the
\* end, and the numbers shown before are those of what was done.
ImportTells ==
    job.stage = "done" =>
        /\ \A id \in IdsOf(shelf) :
               (id \notin IdsOf(job.start) \/ RowOf(shelf, id) # RowOf(job.start, id))
                   => id \in DOMAIN uploads /\ uploads[id] = RowOf(shelf, id)
        /\ \A id \in IdsOf(job.start) \ IdsOf(shelf) : id \in DOMAIN uploads /\ uploads[id] = Deletion(shelf.tombs[id])
        /\ Unburied => job.stats = job.preview
=============================================================================
