-------------------------- MODULE MCListrEndpoints --------------------------
(* Two endpoints that lead to one server; a change may lead one to another *)
(* server or to one of another variant.                                    *)
EXTENDS ListrEndpoints

CONSTANTS e1, e2, s1, s2, s3

MCListed == <<e1, e2>>
MCRoutes == [e \in Endpoints |-> s1]
MCStarts == {[enabled |-> {e1, e2}, members |-> Servers],
             [enabled |-> {e1}, members |-> Servers],
             [enabled |-> {e1}, members |-> {s2}]}
=============================================================================
