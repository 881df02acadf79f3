----------------------------- MODULE Dictionary -----------------------------
(***************************************************************************)
(* What tablahash.h promises its users (known_nodes, owned_jobs and        *)
(* active_jobs): a set of elements with at most one for each key.          *)
(***************************************************************************)
CONSTANTS
    Key,        \* what the comparison function looks at
    Val         \* the rest of an element

VARIABLES
    contents,   \* the elements stored
    op,         \* the operation called last
    ret         \* the elements it returned

Dato == [key : Key, val : Val]

Init == contents = {} /\ op = <<"crear">> /\ ret = {}

insertar(d) ==
    /\ op' = <<"insertar", d>>
    /\ contents' = {x \in contents : x.key # d.key} \cup {d}
    /\ ret' = {}

eliminar(k) ==
    /\ op' = <<"eliminar", k>>
    /\ contents' = {x \in contents : x.key # k}
    /\ ret' = {}

buscar(k) ==
    /\ op' = <<"buscar", k>>
    /\ ret' = {x \in contents : x.key = k}
    /\ UNCHANGED contents

visitar ==
    /\ op' = <<"visitar">>
    /\ ret' = contents
    /\ UNCHANGED contents

Next ==
    \/ \E d \in Dato : insertar(d)
    \/ \E k \in Key : eliminar(k) \/ buscar(k)
    \/ visitar

Spec == Init /\ [][Next]_<<contents, op, ret>>
=============================================================================
