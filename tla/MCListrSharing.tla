--------------------------- MODULE MCListrSharing ---------------------------
(* Worlds of one or two servers; in the first four the user and the        *)
(* caches keep clear of what is known to go wrong.                         *)
EXTENDS ListrSharing

CONSTANTS b1, b2, s1, s2, k1, k2

MCWorld(servers, ops, does, anyKey, anyTime, prompt, apart) ==
    [servers |-> servers, ops |-> ops, does |-> does, anyKey |-> anyKey, anyTime |-> anyTime,
     prompt |-> prompt, apart |-> apart]

\* One device's boards that are edited, shared, moved and deleted; a namespace
\* with other members; keys that are joined and left; two servers.
Own   == MCWorld({s1}, 4, {"createBoard", "createChild", "edit", "share", "delete", "disconnect", "reload", "discard"},
                 FALSE, FALSE, TRUE, TRUE)
Moved == MCWorld({s1}, 5, {"createBoard", "createChild", "share", "moveList", "delete"}, FALSE, FALSE, TRUE, TRUE)
Group == MCWorld({s1}, 4, {"createBoard", "createChild", "remote", "join", "leave", "siblingLeaves", "disconnect"},
                 FALSE, FALSE, TRUE, TRUE)
Both  == MCWorld({s1, s2}, 4, {"createBoard", "createChild", "edit", "share", "leave", "disconnect"},
                 FALSE, FALSE, TRUE, TRUE)

\* The caches may be behind when a row is written, pushed or merged.
Stale     == MCWorld({s1}, 4, {"createBoard", "createChild", "share", "moveList", "edit"}, TRUE, TRUE, FALSE, TRUE)
Strangers == MCWorld({s1}, 3, {"createBoard", "createChild", "share", "moveList", "remote", "join", "disconnect"},
                     TRUE, TRUE, FALSE, TRUE)

MCCareful == {Own, Moved, Group, Both, Stale, Strangers}
=============================================================================
