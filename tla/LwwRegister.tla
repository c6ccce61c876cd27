----------------------------- MODULE LwwRegister -----------------------------
(***************************************************************************)
(* What the entity store promises, without tables, handlers or an order of *)
(* arrival: a last-writer-wins register per entity.  The register remembers *)
(* every operation it was ever sent and shows a winner among them.  The    *)
(* value is a function of the SET of operations, up to a tie between two   *)
(* writes with one stamp, where the register keeps what it shows.          *)
(***************************************************************************)
EXTENDS Naturals

CONSTANTS
    Entity,
    Stamp,      \* the stamps an operation can carry: a set of numbers
    Content,    \* what can be written
    Gone        \* what a deletion writes: not a content

Op == [ts : Stamp, what : Content \union {Gone}]

VARIABLES
    received,   \* received[e] is the set of operations on e so far
    value       \* value[e] is what e reads as: a content, or Gone

registerVars == <<received, value>>

TypeOK ==
    /\ received \in [Entity -> SUBSET Op]
    /\ value \in [Entity -> Content \union {Gone}]

\* The larger stamp wins; at the same stamp a deletion beats a write.
Beats(o, p) ==
    \/ o.ts > p.ts
    \/ o.ts = p.ts /\ (o.what = Gone \/ p.what # Gone)

\* What a register that received S may show.
Winners(S) ==
    IF S = {} THEN {Gone}
    ELSE {o.what : o \in {x \in S : \A p \in S : Beats(x, p)}}

Init ==
    /\ received = [e \in Entity |-> {}]
    /\ value = [e \in Entity |-> Gone]

Receive(e, o) ==
    LET S == received[e] \union {o} IN
    /\ received' = [received EXCEPT ![e] = S]
    /\ \E v \in Winners(S) :
          /\ value' = [value EXCEPT ![e] = v]
          /\ value[e] \in Winners(S) => v = value[e]

Next == \E e \in Entity, o \in Op : Receive(e, o)

Spec == Init /\ [][Next]_registerVars

\* Order of arrival does not matter: what an entity reads as is decided by the
\* set of operations received.
WinnerShown == \A e \in Entity : value[e] \in Winners(received[e])
=============================================================================
