---------------------------- MODULE MCListrGrants ----------------------------
(* Identity with three users, two clients and two grants.                   *)
EXTENDS ListrGrants, TLC

CONSTANTS u1, u2, u3, c1, c2, g1, g2

MCUsers      == {u1, u2, u3}
MCClients    == {c1, c2}
MCGrants     == {g1, g2}
MCNoKeys     == {}
MCAllKinds   == {"invite", "guest", "device", "share"}
MCInvites    == {"invite"}

MCGrantsSymmetry == Permutations(User) \union Permutations(Client) \union Permutations(Grant)
=============================================================================
