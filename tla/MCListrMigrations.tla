-------------------------- MODULE MCListrMigrations --------------------------
(* Upgrades of a server that may stop between any two statements.            *)
EXTENDS ListrMigrations

CONSTANTS h1, h2, k1, a1, a2, b1, l1, l2

MCBoard(stamp, macros) ==
    [key |-> k1, stamp |-> stamp, format |-> Undefined, text |-> "text", macros |-> macros, shows |-> {a1, a2}, integrations |-> {"object", "toml"}]

MCList(board, stamp, text) ==
    [stamp |-> stamp, board |-> board, format |-> Undefined, text |-> text, macros |-> Undefined, integrations |-> {"object"}]

MCWorld(era) ==
    [era : {era}, anytime : {TRUE},
     keys : IF era = "new" THEN {{}} ELSE {{<<h1, k1>>, <<h2, k1>>}},
     users : IF era = "identity" THEN {{}, {h1}} ELSE {{}},
     assets : IF era = "new" THEN {{}} ELSE {{a1}},
     boards : IF era = "new" THEN {<<>>} ELSE {b1 :> MCBoard(2, {"m"})},
     lists : IF era = "new" THEN {<<>>} ELSE {l1 :> MCList(b1, 1, "text") @@ l2 :> MCList(IF era = "old" THEN Undefined ELSE b1, 1, Undefined)},
     copied : {6}, servers : {{}},
     copyBoards : {<<>>},
     copyLists : {<<>>},
     bridged : {[config |-> FALSE, endpoints |-> FALSE]}]

MCUpgradesAnytime == UNION {MCWorld(era) : era \in {"new", "old", "identity"}}
=============================================================================
