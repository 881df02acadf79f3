----------------------------- MODULE KnownNodes -----------------------------
(***************************************************************************)
(* The directory of nodes an agent keeps: known_nodes.c.  A directory is a *)
(* function whose domain is the set of known nodes; it gives the age of    *)
(* the last ANNOUNCE of each, in announcement intervals (5 s).  The free   *)
(* units a node advertises are not kept.                                   *)
(*                                                                         *)
(* Ages are coarser than the code's clock, and the code's clock, time(),   *)
(* is coarser than time: an ANNOUNCE of age a was handled more than a - 1  *)
(* and less than a + 1 intervals ago, and the difference of two time       *)
(* stamps is up to a second more or less than what has passed.  So an age  *)
(* near the limit may or may not be found too old.                         *)
(***************************************************************************)
EXTENDS Integers, FiniteSets

CONSTANTS
    Node,               \* agents of the cluster, each an ip:port
    ANNOUNCE_TIMEOUT,   \* age an ANNOUNCE may have (15 s: 3 intervals)
    MAX_DEAD,           \* nodes one pass of the collector removes (10)
    PayloadRoom         \* nodes that fit in one NODES message

ASSUME KnownNodesAssumption ==
    /\ ANNOUNCE_TIMEOUT \in Nat /\ MAX_DEAD \in Nat /\ PayloadRoom \in Nat

(* update_known_node: the entry is made or replaced, with its time stamp. *)
update_known_node(K, n) ==
    [x \in DOMAIN K \cup {n} |-> IF x = n THEN 0 ELSE K[x]]

(* An interval passes.  Ages well beyond the limit are all alike. *)
OldestAge == ANNOUNCE_TIMEOUT + 2

Older(K) ==
    [x \in DOMAIN K |-> IF K[x] < OldestAge THEN K[x] + 1 ELSE K[x]]

Aged(K, a) == {n \in DOMAIN K : K[n] >= a}

(* Mutation: a node is found inactive one interval too early. *)
Inactive_TooEarly(K) ==
    {I \in SUBSET Aged(K, ANNOUNCE_TIMEOUT - 1) :
        Aged(K, OldestAge - 1) \subseteq I}

(* check_inactive_node: the sets of nodes a pass may find inactive.  An    *)
(* age below ANNOUNCE_TIMEOUT is less than 15 s and OldestAge is more than *)
(* 20 s.  In between it depends on where in their intervals ANNOUNCE and   *)
(* collector came, and on the fractions of a second time() cuts off: 16 is *)
(* found greater than 15 when little more than 15 s have passed.           *)
Inactive(K) ==
    {I \in SUBSET Aged(K, ANNOUNCE_TIMEOUT) : Aged(K, OldestAge) \subseteq I}

(* The sets of nodes one pass may remove: MAX_DEAD of the inactive ones,   *)
(* in the order of the hash table.                                         *)
Removed(K) ==
    {X \in SUBSET DOMAIN K :
        \E I \in Inactive(K) :
            /\ X \subseteq I
            /\ Cardinality(X) = IF Cardinality(I) <= MAX_DEAD
                                THEN Cardinality(I) ELSE MAX_DEAD}

(* Mutation: the dead nodes are reported and stay in the table. *)
remove_inactive_nodes_Keeps(K, X) == K

(* remove_inactive_nodes *)
remove_inactive_nodes(K, X) == [x \in DOMAIN K \ X |-> K[x]]

(* get_known_nodes_payload: the nodes of a NODES message.  A node that     *)
(* does not fit any more is left out.                                      *)
get_known_nodes_payload(K) ==
    {X \in SUBSET DOMAIN K :
        Cardinality(X) = IF Cardinality(DOMAIN K) <= PayloadRoom
                         THEN Cardinality(DOMAIN K) ELSE PayloadRoom}
=============================================================================
