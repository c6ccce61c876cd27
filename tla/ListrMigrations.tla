--------------------------- MODULE ListrMigrations ---------------------------
(***************************************************************************)
(* What opening an old database does: the server's SQLite file             *)
(* (db.ts: SCHEMA_SQL and migrations 1 to 9, statement by statement, each  *)
(* committed on its own unless the migration says otherwise) and a         *)
(* device's IndexedDB (db/database.ts: the upgrades of one versionchange   *)
(* transaction, and the bridge from the database of an earlier name).      *)
(*                                                                         *)
(* A table is the set of its columns that migrations ask for or change,    *)
(* with "id" for the others.  Rows are kept for assets, user_keys, boards  *)
(* and lists; a converted format is the text, the names of the macros the  *)
(* converter knew and the prefix of the names it made up.                  *)
(***************************************************************************)
EXTENDS Integers, Sequences, SequencesExt, FiniteSets, TLC

CONSTANTS
    Undefined,     \* undefined
    Null,        \* null
    Upgrades     \* what is opened, see below

VARIABLES
    file,        \* the server's database
    step,        \* the next statement of Script; 0: not running, -1: does not start
    copy,        \* the device's database
    bridge,      \* how far the bridge is: "start", "config", "endpoints", "delete", "done"
    upgrade      \* which of Upgrades, with the data there was

migrationVars == <<file, step, copy, bridge, upgrade>>

\* The fields of upgrade:
\*   era       "new": no file, "old": version 0, "identity": version 4
\*   anytime   the server and the page may stop between any two statements,
\*             otherwise only between two migrations
\*   keys, users, assets, boards, lists   what the server's file held
\*   copied, copyBoards, copyLists, servers   the version of the device's copy,
\*             what it held before the conversions, the servers it knows
\*   bridged   what the database of the earlier name holds
Tables == {"boards", "lists", "items", "assets", "user_keys", "users", "grants", "asset_keys",
           "integration_results", "grant_redemptions"}

Cols(t, cs) == {<<t, c>> : c \in cs \union {"id"}}

Latest ==
    Cols("boards", {"created_at"}) \union Cols("lists", {"board_id", "created_at"})
    \union Cols("items", {"list_id", "created_at"}) \union Cols("assets", {"created_at"})
    \union Cols("user_keys", {"user_id", "access", "source"}) \union Cols("users", {})
    \union Cols("grants", {"payload_name"}) \union Cols("asset_keys", {})
    \union Cols("integration_results", {"inputs"}) \union Cols("grant_redemptions", {})

Exists(f, t) == <<t, "id">> \in f.cols

\* CREATE TABLE IF NOT EXISTS of some tables
Created(f, tables) ==
    LET new == {t \in tables : ~Exists(f, t)}
    IN [f EXCEPT !.cols = @ \union {x \in Latest : x[1] \in new},
                 !.assets = IF "assets" \in new THEN {} ELSE @,
                 !.keys = IF "user_keys" \in new THEN {} ELSE @]

SchemaSql(f) == Created(f, Tables)

----------------------------------------------------------------------------
(* The conversions that server and device share (format/legacy.ts)         *)

Converted(prefix, text, macros) == <<prefix, text, macros>>

UpgradeBoardRecord(b) ==
    IF b.format # Undefined THEN b
    ELSE [b EXCEPT !.format = Converted("legacy_", b.text, b.macros), !.text = Undefined, !.macros = Undefined]

\* macros: of the list's board
UpgradeListRecord(l, macros) ==
    IF l.format # Undefined THEN l
    ELSE [l EXCEPT !.format = IF l.text = Undefined THEN Null ELSE Converted("legacy_list_", l.text, macros),
                   !.text = Undefined]

MacrosOf(boards, b) == IF b \in DOMAIN boards THEN boards[b].macros ELSE Undefined

\* Integrations whose config is not text are dropped.
TextConfigs(b) == [b EXCEPT !.integrations = {c \in @ : c # "object"}]
WithoutIntegrations(l) == [l EXCEPT !.integrations = {}]

----------------------------------------------------------------------------
(* The server                                                              *)

Op(version, op, table, column) == [version |-> version, op |-> op, table |-> table, column |-> column]

\* add: ALTER TABLE ADD COLUMN unless the column exists, which the statements
\* after it for the same column depend on.  rebuild: what follows is for a
\* table that has the column.
AddFilled(table, column) == <<Op(1, "add", table, column), Op(1, "fill", table, column)>>

MigrateV1LegacyColumnBaseline ==
    AddFilled("boards", "created_at") \o AddFilled("lists", "board_id") \o <<Op(1, "purge", "lists", "board_id")>>
    \o AddFilled("lists", "created_at") \o AddFilled("items", "list_id") \o AddFilled("items", "created_at")
    \o AddFilled("assets", "created_at")
    \o [n \in 1 .. 5 |-> Op(1, <<"rebuild", "create", "copy", "drop", "rename">>[n], "assets", "sync_key")]

MigrateV2AssetKeys == <<Op(2, "backfill", "asset_keys", "")>>
MigrateV3RenameHomeKey == <<Op(3, "homeKey", "user_keys", "")>>
MigrateV4Identity == <<Op(4, "add", "user_keys", "access")>>
MigrateV5RekeyUserKeysToUserId ==
    [n \in 1 .. 6 |-> Op(5, <<"rebuild", "mint", "create", "copy", "drop", "rename">>[n], "user_keys", "home_key")]
MigrateV6GrantPayloadName == <<Op(6, "add", "grants", "payload_name")>>
MigrateV7FormatSpec == <<Op(7, "formats", "", "")>>
MigrateV8IntegrationOverlay == <<Op(8, "overlay", "", "")>>
MigrateV9Provenance == <<Op(9, "add", "user_keys", "source"), Op(9, "redemptions", "", "")>>

\* applyMigrations, with user_version set after each
Migrations ==
    <<MigrateV1LegacyColumnBaseline, MigrateV2AssetKeys, MigrateV3RenameHomeKey, MigrateV4Identity,
      MigrateV5RekeyUserKeysToUserId, MigrateV6GrantPayloadName, MigrateV7FormatSpec, MigrateV8IntegrationOverlay,
      MigrateV9Provenance>>

Script == FlattenSeq([v \in DOMAIN Migrations |-> Append(Migrations[v], Op(v, "version", "", ""))])

FirstOf(version) == CHOOSE i \in DOMAIN Script :
    Script[i].version = version /\ \A j \in 1 .. i - 1 : Script[j].version < version
Stops == {0} \union {FirstOf(v) : v \in 1 .. 9}

\* The statement after those that depend on statement i.
After(i) ==
    LET depends(j) == Script[j].table = Script[i].table /\ Script[j].column = Script[i].column
    IN CHOOSE j \in i + 1 .. Len(Script) : ~depends(j) /\ \A k \in i + 1 .. j - 1 : depends(k)

\* The columns that are copied out of data.
Filled == {<<"boards", "created_at">>, <<"lists", "board_id">>, <<"lists", "created_at">>, <<"items", "list_id">>,
           <<"items", "created_at">>, <<"assets", "created_at">>}

UserOf(home) == <<"user", home>>

\* migrateV2AssetKeys: the keys of the entities that show an asset which is there
Backfill(f) ==
    UNION {{<<a, f.boards[b].key>> : a \in f.boards[b].shows \intersect f.assets} : b \in DOMAIN f.boards}

\* migrateV7FormatSpec; mutation: lists are converted after their boards have
\* lost the macros.
ConvertFormatsLate(f) ==
    LET boards == [b \in DOMAIN f.boards |-> UpgradeBoardRecord(f.boards[b])]
    IN [f EXCEPT !.boards = boards,
                 !.lists = [l \in DOMAIN @ |-> UpgradeListRecord(@[l], MacrosOf(boards, @[l].board))]]

ConvertFormats(f) ==
    [f EXCEPT !.boards = [b \in DOMAIN @ |-> UpgradeBoardRecord(@[b])],
              !.lists = [l \in DOMAIN @ |-> UpgradeListRecord(@[l], MacrosOf(f.boards, @[l].board))]]

\* migrateV8IntegrationOverlay
ToOverlay(f) ==
    [f EXCEPT !.cols = {x \in @ : x[1] # "integration_results"} \union {x \in Latest : x[1] = "integration_results"},
              !.lists = [l \in DOMAIN @ |-> WithoutIntegrations(@[l])],
              !.boards = [b \in DOMAIN @ |-> TextConfigs(@[b])]]

\* The rows of user_keys under the users of their home keys; mutation: users
\* that were there before the rebuild are left out.
RekeyedMinted(f) == {<<UserOf(r[1]), r[2]>> : r \in {x \in f.keys : x[1] \notin upgrade.users}}

Rekeyed(f) == {<<UserOf(r[1]), r[2]>> : r \in f.keys}

\* A statement: the file after it, and the next one.
Executed(f, i) ==
    LET s == Script[i]
        has == <<s.table, s.column>> \in f.cols
        to(g, j) == [file |-> g, step |-> j]
    IN CASE s.op = "add" -> IF has THEN to(f, After(i)) ELSE to([f EXCEPT !.cols = @ \union {<<s.table, s.column>>}], i + 1)
         [] s.op = "fill" -> to([f EXCEPT !.filled = @ \union {<<s.table, s.column>>}], i + 1)
         [] s.op = "purge" -> to([f EXCEPT !.lists = [l \in {x \in DOMAIN @ : @[x].board # Undefined} |-> @[l]]], i + 1)
         [] s.op = "rebuild" -> IF has THEN to(f, i + 1) ELSE to(f, After(i))
         [] s.op = "create" -> IF s.table \in DOMAIN f.spare THEN to(f, -1)
                               ELSE to([f EXCEPT !.spare = (s.table :> {}) @@ @], i + 1)
         [] s.op = "copy" -> to([f EXCEPT !.spare = (s.table :> IF s.table = "assets" THEN f.assets ELSE Rekeyed(f)) @@ @], i + 1)
         [] s.op = "drop" -> to([f EXCEPT !.cols = {x \in @ : x[1] # s.table}], i + 1)
         [] s.op = "rename" ->
              to([f EXCEPT !.cols = @ \union IF s.table = "assets" THEN Cols("assets", {"created_at"})
                                             ELSE Cols("user_keys", {"user_id", "access"}),
                           !.assets = IF s.table = "assets" THEN f.spare["assets"] ELSE @,
                           !.keys = IF s.table = "user_keys" THEN f.spare["user_keys"] ELSE @,
                           !.spare = [t \in DOMAIN @ \ {s.table} |-> @[t]]], i + 1)
         [] s.op = "backfill" -> to([f EXCEPT !.assetKeys = @ \union Backfill(f)], i + 1)
         [] s.op = "homeKey" ->
              to([f EXCEPT !.cols = {IF x = <<"user_keys", "user_key">> THEN <<"user_keys", "home_key">> ELSE x : x \in @}], i + 1)
         [] s.op = "mint" -> to([f EXCEPT !.users = @ \union {UserOf(r[1]) : r \in f.keys}], i + 1)
         [] s.op = "formats" -> to(ConvertFormats(f), i + 1)
         [] s.op = "overlay" -> to(ToOverlay(f), i + 1)
         [] s.op = "redemptions" -> to(Created(f, {"grant_redemptions"}), i + 1)
         [] OTHER -> to([f EXCEPT !.version = s.version], i + 1)

Serving == step = Len(Script) + 1

\* openDb
OpenDb ==
    /\ step = 0
    /\ file' = SchemaSql(file)
    /\ step' = IF file.version = 9 THEN Len(Script) + 1 ELSE FirstOf(file.version + 1)
    /\ UNCHANGED <<copy, bridge, upgrade>>

Migrate ==
    /\ step \in DOMAIN Script
    /\ LET r == Executed(file, step) IN file' = r.file /\ step' = r.step
    /\ UNCHANGED <<copy, bridge, upgrade>>

ServerStops ==
    /\ step # 0
    /\ upgrade.anytime \/ step \notin DOMAIN Script \/ step \in Stops
    /\ step' = 0
    /\ UNCHANGED <<file, copy, bridge, upgrade>>

----------------------------------------------------------------------------
(* The device                                                              *)

\* Version 3: boards belong to the one server the device knows.
Bound(c) == [c EXCEPT !.bound = IF Cardinality(c.servers) = 1 THEN DOMAIN c.boards ELSE {}]

\* Version 6
CopyConverted(c) ==
    LET boards == [b \in DOMAIN c.boards |-> UpgradeBoardRecord(c.boards[b])]
    IN [c EXCEPT !.boards = boards,
                 !.lists = [l \in DOMAIN @ |-> UpgradeListRecord(@[l], MacrosOf(c.boards, @[l].board))]]

CopyToOverlay(c) ==
    [c EXCEPT !.results = FALSE,
              !.lists = [l \in DOMAIN @ |-> WithoutIntegrations(@[l])],
              !.boards = [b \in DOMAIN @ |-> TextConfigs(@[b])]]

\* The upgrades above the copy's version, in one transaction.
Upgraded(c) ==
    LET scoped == IF c.version < 2 /\ c.scope = Undefined THEN [c EXCEPT !.scope = Null] ELSE c
        bound == IF c.version < 3 THEN Bound(scoped) ELSE scoped
        converted == IF c.version < 6 THEN CopyConverted(bound) ELSE bound
    IN [CopyToOverlay(converted) EXCEPT !.version = 7]

ClientOpens ==
    /\ copy.version < 7
    /\ copy' = Upgraded(copy)
    /\ UNCHANGED <<file, step, bridge, upgrade>>

\* migrateFromLegacyDatabase
BridgeStarts ==
    /\ bridge = "start"
    /\ bridge' = IF copy.config THEN "done" ELSE IF copy.old.config THEN "config" ELSE "delete"
    /\ UNCHANGED <<file, step, copy, upgrade>>

BridgeConfig ==
    /\ bridge = "config"
    /\ copy' = [copy EXCEPT !.config = TRUE]
    /\ bridge' = "endpoints"
    /\ UNCHANGED <<file, step, upgrade>>

BridgeEndpoints ==
    /\ bridge = "endpoints"
    /\ copy' = [copy EXCEPT !.endpoints = @ \/ copy.old.endpoints]
    /\ bridge' = "delete"
    /\ UNCHANGED <<file, step, upgrade>>

BridgeDeletes ==
    /\ bridge = "delete"
    /\ copy' = [copy EXCEPT !.old = [config |-> FALSE, endpoints |-> FALSE]]
    /\ bridge' = "done"
    /\ UNCHANGED <<file, step, upgrade>>

PageStops ==
    /\ bridge # "start"
    /\ upgrade.anytime \/ bridge = "done"
    /\ bridge' = "start"
    /\ UNCHANGED <<file, step, copy, upgrade>>

----------------------------------------------------------------------------
\* Where an old file starts: the tables of its version.
OldCols(era) ==
    CASE era = "new" -> {}
      [] era = "old" ->
            Cols("boards", {}) \union Cols("lists", {}) \union Cols("items", {}) \union Cols("assets", {"sync_key"})
                \union Cols("user_keys", {"user_key"}) \union Cols("integration_results", {"sync_key"})
      [] era = "identity" ->
            {x \in Latest : x[1] \notin {"user_keys", "grant_redemptions", "integration_results"} /\ x[2] # "payload_name"}
                \union Cols("user_keys", {"home_key", "access"}) \union Cols("integration_results", {"sync_key"})

\* What the file holds when it is opened; a file of migration 4 has had its
\* backfill, and its operator has made users.
OldFile(u) ==
    LET f == [version |-> IF u.era = "identity" THEN 4 ELSE 0, cols |-> OldCols(u.era), spare |-> <<>>,
              filled |-> IF u.era = "identity" THEN Filled ELSE {},
              keys |-> u.keys, users |-> {UserOf(h) : h \in u.users}, assets |-> u.assets, assetKeys |-> {},
              boards |-> u.boards, lists |-> u.lists]
    IN IF u.era = "identity" THEN [f EXCEPT !.assetKeys = Backfill(f)] ELSE f

OldCopy(u) ==
    LET c == [version |-> u.copied, boards |-> u.copyBoards, lists |-> u.copyLists, servers |-> u.servers, bound |-> {},
              scope |-> IF u.copied < 2 THEN Undefined ELSE Null, results |-> TRUE,
              config |-> FALSE, endpoints |-> FALSE, old |-> u.bridged]
        bound == IF u.copied >= 3 THEN Bound(c) ELSE c
    IN IF u.copied >= 6 THEN CopyConverted(bound) ELSE bound

MigrationsInit ==
    /\ upgrade \in Upgrades
    /\ file = OldFile(upgrade)
    /\ copy = OldCopy(upgrade)
    /\ step = 0 /\ bridge = "start"

MigrationsNext ==
    \/ OpenDb \/ Migrate \/ ServerStops
    \/ ClientOpens
    \/ BridgeStarts \/ BridgeConfig \/ BridgeEndpoints \/ BridgeDeletes \/ PageStops

MigrationsSpec == MigrationsInit /\ [][MigrationsNext]_migrationVars

----------------------------------------------------------------------------
(* Properties                                                              *)

\* The tables have the shape the statements of db.ts are written for.
LatestShape == file.cols = Latest /\ file.spare = <<>>

\* What the old file said: who holds which key, which asset is shown under
\* which key, the columns copied out of data, the rows with a board.
NothingDropped ==
    /\ \A r \in upgrade.keys : <<UserOf(r[1]), r[2]>> \in file.keys /\ UserOf(r[1]) \in file.users
    /\ upgrade.assets \subseteq file.assets
    /\ \A b \in DOMAIN upgrade.boards :
           \A a \in upgrade.boards[b].shows \intersect upgrade.assets : <<a, upgrade.boards[b].key>> \in file.assetKeys
    /\ upgrade.era = "new" \/ Filled \subseteq file.filled
    /\ \A l \in DOMAIN upgrade.lists : upgrade.lists[l].board # Undefined => l \in DOMAIN file.lists

\* However often the server stops and starts between two migrations (at any
\* statement, if it may, see the README), a server that serves has the
\* current tables and has dropped nothing ("an upgrade cannot silently drop
\* associations"), and a page whose bridge is done has what the old database had.
UpgradeKeeps ==
    /\ Serving => LatestShape /\ NothingDropped
    /\ bridge = "done" /\ upgrade.bridged.config => copy.config /\ (upgrade.bridged.endpoints => copy.endpoints)

Same(r, s) == r.format = s.format /\ r.text = s.text /\ r.macros = s.macros /\ r.integrations = s.integrations

\* Server and device convert their copies without touching updated_at: a row
\* both hold in one version is the same afterwards ("so both sides agree"),
\* a list's if they also hold one version of its board.
CopiesAgree ==
    Serving /\ copy.version = 7 =>
        LET both == {b \in DOMAIN file.boards \intersect DOMAIN copy.boards : file.boards[b].stamp = copy.boards[b].stamp}
        IN /\ \A b \in both : Same(file.boards[b], copy.boards[b])
           /\ \A l \in DOMAIN file.lists \intersect DOMAIN copy.lists :
                  file.lists[l].stamp = copy.lists[l].stamp /\ file.lists[l].board \in both
                      => Same(file.lists[l], copy.lists[l])

\* What db.ts says of an interrupted upgrade (not an invariant when the server
\* may stop between two statements, see the README).
AssociationsSurvive == Serving => \A r \in upgrade.keys : <<UserOf(r[1]), r[2]>> \in file.keys

\* Without the precondition on the board (not an invariant, see the README).
ListsAgree ==
    Serving /\ copy.version = 7 =>
        \A l \in DOMAIN file.lists \intersect DOMAIN copy.lists :
            file.lists[l].stamp = copy.lists[l].stamp => Same(file.lists[l], copy.lists[l])
=============================================================================
