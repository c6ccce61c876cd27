--------------------------- MODULE MCListrSessions ---------------------------
(* Connections of two clients to a server with two users.                    *)
EXTENDS ListrSessions, TLC

CONSTANTS u1, u2, c1, c2, g1, g2, k1, x1, x2

MCTwoUsers   == {u1, u2}
MCClients    == {c1, c2}
MCOneGrant   == {g1}
MCGrants     == {g1, g2}
MCKeys       == {k1}
MCConns      == {x1, x2}
MCAllKinds   == {"invite", "guest", "device", "share"}
MCNoInvite   == {"guest", "device", "share"}
MCInvites    == {"invite"}
MCInviteDevice == {"invite", "device"}

MCSessionsSymmetry ==
    Permutations(User) \union Permutations(Client) \union Permutations(Grant) \union Permutations(Conn)
=============================================================================
