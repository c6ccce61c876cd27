----------------------------- MODULE MCListrParts -----------------------------
(***************************************************************************)
(* The parts whose state spaces are small, checked side by side: a         *)
(* behaviour is one of one part, and the variables of the others stand     *)
(* still.  Every part is checked as if it were alone.                      *)
(***************************************************************************)
EXTENDS ListrDeviceDb, ListrConsole, ListrMigrations, ListrTransfer, ListrFormat, ListrFormatParser, ListrOverlay

CONSTANTS c1, m1, m2, h1, h2, k1, a1, a2, b1, l1, l2, picture, f1, f2, f3

VARIABLE part

----------------------------------------------------------------------------
(* The console: what happens around a page                                 *)

MCAround(does, pages, events, watched, registered) ==
    [does |-> does, pages |-> pages, events |-> events, watched |-> watched,
     registered |-> registered, prompt |-> TRUE]
MCRunPages == {<<"runs", Nobody>>, <<"runs", m1>>}
MCConsole == {MCAround({"sockets", "breaks"}, {<<"clients", Nobody>>}, 3, TRUE, {c1}),
              MCAround({"sockets", "breaks"}, {<<"clients", Nobody>>}, 2, TRUE, {}),
              MCAround({"sockets", "restarts"}, {<<"overview", Nobody>>}, 3, FALSE, {}),
              MCAround({"sockets"}, {<<"client", c1>>}, 2, FALSE, {c1}),
              MCAround({"sockets", "sessions"}, {<<"trust", Nobody>>}, 2, FALSE, {}),
              MCAround({"sockets", "counts"}, {<<"ports", Nobody>>}, 1, TRUE, {}),
              MCAround({"runs", "counts", "breaks"}, {<<"integrations", Nobody>>}, 3, TRUE, {}),
              MCAround({"runs", "pause", "breaks"}, MCRunPages, 4, FALSE, {}),
              MCAround({"runs", "bodies"}, {<<"run", 1>>}, 3, FALSE, {}),
              MCAround({"runs", "bodies"}, {}, 6, FALSE, {}),
              [MCAround({"sockets"}, {}, 3, FALSE, {c1}) EXCEPT !.prompt = FALSE]}

----------------------------------------------------------------------------
(* The upgrades of the server's file and of a device's copy                *)

MCOldBoard(stamp, macros) ==
    [key |-> k1, stamp |-> stamp, format |-> Undefined, text |-> "text", macros |-> macros, shows |-> {a1, a2}, integrations |-> {"object", "toml"}]

MCOldList(board, stamp, text) ==
    [stamp |-> stamp, board |-> board, format |-> Undefined, text |-> text, macros |-> Undefined, integrations |-> {"object"}]

MCWorld(era, anytime) ==
    [era : {era}, anytime : {anytime},
     keys : IF era = "new" THEN {{}} ELSE {{<<h1, k1>>, <<h2, k1>>}},
     users : IF era = "identity" THEN {{}, {h1}} ELSE {{}},
     assets : IF era = "new" THEN {{}} ELSE {{a1}},
     boards : IF era = "new" THEN {<<>>} ELSE {b1 :> MCOldBoard(2, {"m"})},
     lists : IF era = "new" THEN {<<>>} ELSE {l1 :> MCOldList(b1, 1, "text") @@ l2 :> MCOldList(IF era = "old" THEN Undefined ELSE b1, 1, Undefined)},
     copied : {1, 3, 6}, servers : {{}, {"s1", "s2"}},
     copyBoards : {<<>>, b1 :> MCOldBoard(2, {"m"}), b1 :> MCOldBoard(1, {})},
     copyLists : {l1 :> MCOldList(b1, 1, "text"), l1 :> MCOldList(b1, 2, Undefined)},
     bridged : [config : BOOLEAN, endpoints : BOOLEAN]]

MCUpgrades == UNION {MCWorld(era, FALSE) : era \in {"new", "old", "identity"}}

----------------------------------------------------------------------------
(* What a device holds when the file is written or read                    *)

MCItem(l, after, title, typed, im) == TypedRow(Row(l, after, 0, NoPosition, TRUE, 0), title, typed, im)

MCShelf(integration, lists, items, ims) ==
    [board |-> [name |-> "board", integration |-> integration, at |-> 0], lists |-> lists, items |-> items,
     tombs |-> <<>>, images |-> ims, found |-> 3 :> "found"]

MCEmpty == [board |-> NoDoc, lists |-> <<>>, items |-> <<>>, tombs |-> <<>>, images |-> {}, found |-> <<>>]

MCShelves ==
    {MCEmpty,
     MCShelf("on", 1 :> [name |-> "one", position |-> 0, at |-> 0] @@ 2 :> [name |-> "two", position |-> 1, at |-> 0],
             3 :> MCItem(1, 4, Unset, "typed", Unset) @@ 4 :> MCItem(1, Top, "four", Unset, picture),
             {picture}),
     MCShelf("none", 2 :> [name |-> "two", position |-> 0, at |-> 0], 5 :> MCItem(2, Top, "five", Unset, Unset), {})}

----------------------------------------------------------------------------
(* Programs of the format language                                         *)

MCLit(x) == [k |-> "lit", text |-> <<<<"lit", x>>>>]
MCRef(name, args, variant, fallback, optSpace) ==
    [k |-> "ref", name |-> name, args |-> args, variant |-> variant, fallback |-> fallback, optSpace |-> optSpace]
MCName(name) == MCRef(name, <<>>, Missing, Missing, FALSE)
MCCall(name, args) == MCRef(name, args, Missing, Missing, FALSE)
MCText(piece) == Text(<<piece>>)
MCAttr(name) == [k |-> "attr", name |-> name]
MCNum(n) == [k |-> "lit", value |-> [t |-> "num", v |-> <<"num", n>>]]
MCStr(x) == [t |-> "str", v |-> <<"str", <<<<"lit", x>>>>>>]
MCIf(cond, then, else) == [k |-> "if", cond |-> cond, then |-> then, else |-> else]
MCSet(name) == [k |-> "set", names |-> <<name>>]
MCPattern(value, globEnd) == [value |-> value, globStart |-> FALSE, globEnd |-> globEnd]

MCToplevels ==
    {<<MCRef("n", <<>>, "stars", Missing, FALSE), MCRef("s", <<>>, "upper", <<MCLit("-")>>, TRUE),
       [k |-> "link", text |-> <<MCName("s")>>, url |-> <<MCRef("b", <<>>, "url", Missing, FALSE)>>]>>,
     <<MCCall("b", <<MCText(MCName("a"))>>)>>}

MCWraps ==
    {Missing,
     [name |-> "top", base |-> FALSE,
      body |-> MCIf([k |-> "and", items |-> <<[k |-> "cmp", op |-> "<", left |-> MCAttr("n"), right |-> MCNum(2)],
                                             [k |-> "not", c |-> [k |-> "truthy", name |-> "s"]]>>],
                    [k |-> "style", body |-> MCText(MCName("top"))], MCText(MCCall("b", <<MCText(MCName("top"))>>)))],
     [name |-> "a", base |-> FALSE,
      body |-> [k |-> "match", subject |-> [k |-> "text", expr |-> MCText(MCName("a"))],
                arms |-> <<[patterns |-> <<MCPattern(MCStr("x"), TRUE)>>, body |-> MCText(MCName("a"))]>>, elseArm |-> Missing]]}

MCTooltips ==
    {Missing,
     [base |-> FALSE, body |-> [k |-> "join", sep |-> MCText(MCLit(",")), items |-> <<MCText(MCName("a")), MCText(MCName("s"))>>]]}

MCDef(params, expr) == [params |-> params, expr |-> expr, base |-> FALSE]

MCBodies ==
    [a |-> {MCDef(<<>>, MCText(MCName("s"))),
            MCDef(<<>>, MCIf(MCSet("b"), MCText(MCName("b")), Missing)),
            MCDef(<<>>, [k |-> "match", subject |-> MCAttr("n"),
                         arms |-> <<[patterns |-> <<MCPattern(MCNum(1).value, FALSE)>>, body |-> MCText(MCLit("x"))]>>,
                         elseArm |-> MCText(MCCall("b", <<MCText(MCName("s"))>>))])},
     b |-> {MCDef(<<>>, MCText(MCRef("a", <<>>, "str", Missing, FALSE))),
            MCDef(<<"x">>, [k |-> "ifdef", body |-> MCText(MCName("x")), else |-> MCText(MCLit("y"))]),
            MCDef(<<>>, MCIf([k |-> "in", needle |-> [k |-> "lit", value |-> MCStr("x")], hay |-> MCAttr("s")],
                             [k |-> "verbatim", text |-> <<<<"tag", "b">>>>], Missing))}]

MCTypes == [n |-> {"number"}, s |-> {"text", "boolean"}]

MCItems ==
    [title : {<<"str", <<<<"lit", "t">>>>>>}, n : {<<"undefined">>, <<"num", 0>>, <<"num", 3>>},
     s : {<<"undefined">>, <<"str", <<<<"lit", "x">>>>>>, <<"bool", TRUE>>}]

----------------------------------------------------------------------------
(* Texts of the format language, as tokens                                 *)

MCQuoted(ts) == <<"\"">> \o ts \o <<"\"">>
MCRefTo(name) == <<"[", name, "]">>
MCDefinition(name, params, body) == [name |-> name, tokens |-> <<name>> \o params \o <<"=">> \o body]

MCToplines == {<<"t", " ", "?", "[", "a", ":", "str", "/", "u", "]">>, 
     <<"[", "b", "(", "t", " ", ",", "[", "a", "]", ")", "]", " ", "[", "t", "]", "(", "u", ")", "!", "[", "t", "]", "(", "u", ")">>}

MCDirectives ==
    {<<"wrap", " ", "as", " ", "w", ":", "\n", " ", "if", " ", "@", "y", " ", "<", "1", ":">> \o MCQuoted(MCRefTo("w"))
         \o <<"else", ":", "#", "\n", "\n", "style", "(", "+", "s", ")", ":">> \o MCQuoted(<<"b", "=">>) \o <<"end", "end", "\n", "end">>,
     <<"tooltip", ":", "join", "(">> \o MCQuoted(<<"t">>) \o <<",", "[", "a", "]", ")", "end", "#">>,
     <<"tooltip", ":", "if", "@", "y", ":">>}

MCDefinitions ==
    {\* well formed, on one line and on several
     MCDefinition("a", <<>>, MCQuoted(<<"[", "t", "]">>)),
     MCDefinition("b", <<"(", "x", ",", "z", ")">>,
                  <<"ifdef", ":">> \o MCQuoted(MCRefTo("x")) \o <<"\n", "end", " ", "cond", "(", "[", "?", "z", "]", "and", "not", "@", "y", ",">>
                      \o MCQuoted(<<"t">>) \o <<")">>),
     MCDefinition("c", <<>>, <<"\n", " ", " ", "match", " ", "@", "y", ":", "\n", " ", " ", "1", ",", "\"", "t", "\"", "*", "=>">>
                      \o MCQuoted(<<"u">>) \o <<".", "\n", " ", " ", "else", "=>", "[", "a", "]", ".", "end", "\n", "\n", " ", " ", "style", "(", "-", "s", ")", "b", "(", ")">>),
     MCDefinition("c", <<>>, <<"\n">>),
     \* malformed: an open block, a lone quote, an open bracket, a name without
     \* a call, an open call, an open match, a wrong block
     MCDefinition("e", <<>>, <<"if", "@", "y", "in", "\"", "t", "\"", ":">> \o MCQuoted(<<"t">>)),
     MCDefinition("e", <<>>, <<"\"", "t">>),
     MCDefinition("e", <<>>, <<"[", "t">>),
     MCDefinition("a", <<>>, <<"u">>),
     MCDefinition("e", <<>>, <<"join", "(">> \o MCQuoted(<<"t">>)),
     MCDefinition("e", <<"(", "x">>, <<"match", "@", "y", ":">>),
     MCDefinition("e", <<>>, <<"\n", " ", "if", "true", "or", "(", "@", "y", "==", "1", ")", ":", "\n", " ", "\"", "t", "\"", "\n", " ", "end", "end">>)}

----------------------------------------------------------------------------
(* Boards, the config of omdb and what OMDb finds                          *)

MCWord(w) == [kind |-> "word", of |-> w]

MCSchema == [imdb_id |-> "text", year |-> "integer"]
MCBoard(order, config, attributes) == [integrations |-> order, config |-> config, schema |-> attributes]

MCTemplate ==
    <<Comment("days"), Setting(<<"refresh_days">>, FALSE, "30"), Comment("kind"), Setting(<<"type">>, FALSE, ""),
      Comment("map"), Setting(<<"attributes", "imdb_id">>, FALSE, "imdb_id"), Setting(<<"attributes", "year">>, FALSE, "year")>>

MCTyped == <<Setting(<<"type">>, TRUE, "movie")>>
MCTable == <<Setting(<<"refresh_days">>, TRUE, "2"), Table("attributes"), Setting(<<"year">>, TRUE, "imdb_id")>>

MCBoards ==
    {MCBoard(<<"omdb">>, <<>>, MCSchema), MCBoard(<<"omdb", "other">>, MCTyped, MCSchema),
     MCBoard(<<"other", "omdb">>, MCTable, MCSchema), MCBoard(<<"other">>, <<>>, [year |-> "todo"])}

MCOther == [imdb_id |-> Unfilled, title |-> MCWord("other"), year |-> MCWord("other")]
MCExact == [matrix |-> {f1}, reloaded |-> {f2, f3}]
MCSearches == {<<>>, <<f1>>, <<f1, f2>>, <<f2, f3, f1>>}

----------------------------------------------------------------------------

Part == {"device", "console", "migrations", "transfer", "format", "parser", "overlay"}

\* What the parts that stand still are given: as little as possible.
ATiming == "serial"
AWorld == CHOOSE w \in ConsoleWorlds : w.pages = {}
AnUpgrade == CHOOSE u \in Upgrades : u.era = "new" /\ u.servers = {}
AShelf == MCEmpty
ABoard == CHOOSE b \in Boards : b.integrations = <<"other">>

PartsInit ==
    /\ part \in Part
    /\ DbInit
    /\ (part # "device" => timing = ATiming)
    /\ ConsoleInit
    /\ (part # "console" => around = AWorld)
    /\ MigrationsInit
    /\ (part # "migrations" => upgrade = AnUpgrade)
    /\ TransferInit
    /\ (part # "transfer" => shelf = AShelf)
    /\ FormatInit
    /\ IF part = "parser" THEN ParserInit
       ELSE topline = <<>> /\ directives = <<>> /\ spaced = TRUE /\ definitions = <<>>
    /\ OverlayInit
    /\ (part # "overlay" => onBoard = ABoard)

Still(p, vars) == IF part = p THEN TRUE ELSE UNCHANGED vars

Acts(p) ==
    /\ part = p
    /\ UNCHANGED part
    /\ Still("device", dbVars) /\ Still("console", consoleVars) /\ Still("migrations", migrationVars)
    /\ Still("transfer", transferVars) /\ Still("format", formatVars) /\ Still("parser", parserVars)
    /\ Still("overlay", overlayVars)

PartsNext ==
    \/ Acts("device") /\ DbNext
    \/ Acts("console") /\ ConsoleNext
    \/ Acts("migrations") /\ MigrationsNext
    \/ Acts("transfer") /\ TransferNext
    \/ Acts("format") /\ FormatNext
    \/ Acts("parser") /\ ParserNext
    \/ Acts("overlay") /\ OverlayNext

partsVars == <<part, dbVars, consoleVars, migrationVars, transferVars, formatVars, parserVars, overlayVars>>

PartsSpec == PartsInit /\ [][PartsNext]_partsVars
=============================================================================
