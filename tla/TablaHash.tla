----------------------------- MODULE TablaHash -----------------------------
(***************************************************************************)
(* tablahash.c: a hash table with open addressing and linear probing.  A   *)
(* deleted slot stays in its cluster (fdelete = 1) until an insertion uses *)
(* it again; a table more than 70% full is copied, slot by slot, into one  *)
(* of twice the capacity.                                                  *)
(*                                                                         *)
(* The loops that walk a cluster are the position of their first stop.     *)
(* The copy is one step for each old slot, so that the state between two   *)
(* insertions of th_redimensionar is a state of the model; the caller's    *)
(* mutex keeps every other operation out until it ends.                    *)
(***************************************************************************)
EXTENDS Integers, FiniteSets, FiniteSetsExt

CONSTANTS
    Key,        \* the part of an element comp and hash look at
    Val,        \* the rest of it
    NULL,       \* no element
    hash,       \* FuncionHash
    Capacidad   \* capacity given to tablahash_crear (11)

ASSUME TablaHashAssumption ==
    /\ hash \in [Key -> Nat]
    /\ Capacidad \in Nat \ {0}
    /\ NULL \notin [key : Key, val : Val]

VARIABLES
    elems,      \* the slots, 0 .. capacidad - 1
    numElems,
    capacidad,
    arr,        \* the old slots while they are copied, else << >>
    idx,        \* the next of them
    op,         \* the operation called last
    ret         \* the elements it returned or visited

tabla == <<elems, numElems, capacidad, arr, idx>>
vars  == <<tabla, op, ret>>

Dato == [key : Key, val : Val]
CasillaHash == [dato : Dato \cup {NULL}, fdelete : {0, 1}]

Vacia == [dato |-> NULL, fdelete |-> 0]
Borrada == [dato |-> NULL, fdelete |-> 1]

Vacias(n) == [i \in 0 .. (n - 1) |-> Vacia]

Ocupada(s) == s.dato # NULL

(* The elements at the positions P of the slots e. *)
Datos(e, P) == {e[i].dato : i \in {j \in P : Ocupada(e[j])}}

----------------------------------------------------------------------------
(* The loop shared by th_insertar, tablahash_buscar and th_eliminar: i     *)
(* slots past hash(dato), until the end of the cluster or the element.     *)

At(cap, k, i) == (hash[k] + i) % cap

FinalDeCluster(s) == s.dato = NULL /\ s.fdelete = 0

Coincide(s, k) == s.fdelete = 0 /\ s.dato # NULL /\ s.dato.key = k

Para(s, k) == FinalDeCluster(s) \/ Coincide(s, k)

(* The number of slots passed over: cap when the loop runs out. *)
Salto(e, cap, k) ==
    LET S == {i \in 0 .. (cap - 1) : Para(e[At(cap, k, i)], k)}
    IN  IF S = {} THEN cap ELSE Min(S)

Encontrado(e, cap, k) ==
    /\ Salto(e, cap, k) < cap
    /\ Coincide(e[At(cap, k, Salto(e, cap, k))], k)

Lugar(e, cap, k) == At(cap, k, Salto(e, cap, k))

(* idxprev: the deleted slots met before the loop stops. *)
Previstas(e, cap, k) ==
    {i \in 0 .. (Salto(e, cap, k) - 1) : e[At(cap, k, i)].fdelete = 1}

(* th_insertar: where the element goes.  An element with the same key is   *)
(* overwritten in place; otherwise the first deleted slot is used, else    *)
(* the end of the cluster, and without either nothing is stored.           *)
Cabe(e, cap, k) == Previstas(e, cap, k) # {} \/ Salto(e, cap, k) < cap

Destino(e, cap, k) ==
    IF Encontrado(e, cap, k) \/ Previstas(e, cap, k) = {}
    THEN Lugar(e, cap, k)
    ELSE At(cap, k, Min(Previstas(e, cap, k)))

th_insertar(e, cap, d) ==
    IF Cabe(e, cap, d.key)
    THEN [e EXCEPT ![Destino(e, cap, d.key)] = [dato |-> d, fdelete |-> 0]]
    ELSE e

(* Mutation: numElems is incremented for an overwritten element too. *)
Nuevos_Siempre(e, cap, k) == 1

(* What th_insertar adds to numElems. *)
Nuevos(e, cap, k) ==
    IF Cabe(e, cap, k) /\ ~Encontrado(e, cap, k) THEN 1 ELSE 0

(* Mutation: the load that makes the table grow is 90%. *)
Excedida_90(n, cap) == 10 * n > 9 * cap

(* numElems * 1.0 / capacidad > 0.7 *)
Excedida(n, cap) == 10 * n > 7 * cap

----------------------------------------------------------------------------
Copiando == arr # << >>

(* tablahash_crear *)
Init ==
    /\ elems = Vacias(Capacidad)
    /\ numElems = 0
    /\ capacidad = Capacidad
    /\ arr = << >> /\ idx = 0
    /\ op = <<"crear">> /\ ret = {}

(* tablahash_insertar, up to the first slot of th_redimensionar. *)
tablahash_insertar(d) ==
    LET e == th_insertar(elems, capacidad, d)
        n == numElems + Nuevos(elems, capacidad, d.key)
        crece == n # numElems /\ Excedida(n, capacidad)
    IN  /\ ~Copiando
        /\ op' = <<"insertar", d>> /\ ret' = {}
        /\ \/ /\ ~crece
              /\ elems' = e /\ numElems' = n
              /\ UNCHANGED <<capacidad, arr, idx>>
           \/ /\ crece
              /\ capacidad' = 2 * capacidad
              /\ elems' = Vacias(2 * capacidad)
              /\ numElems' = 0
              /\ arr' = e /\ idx' = 0

(* Mutation: the copy stops one slot short. *)
UltimaCasilla_Menos(a) == Cardinality(DOMAIN a) - 1

(* The bound of the loop of th_redimensionar: the old capacity. *)
UltimaCasilla(a) == Cardinality(DOMAIN a)

(* One turn of th_redimensionar; free(arr) after the last one.  The load   *)
(* after a copy never calls for another one (CargaAcotada).                *)
th_redimensionar ==
    /\ Copiando
    /\ \/ /\ idx < UltimaCasilla(arr)
          /\ \/ /\ Ocupada(arr[idx])
                /\ elems' = th_insertar(elems, capacidad, arr[idx].dato)
                /\ numElems' = numElems
                               + Nuevos(elems, capacidad, arr[idx].dato.key)
             \/ /\ ~Ocupada(arr[idx])
                /\ UNCHANGED <<elems, numElems>>
          /\ idx' = idx + 1
          /\ UNCHANGED arr
       \/ /\ idx = UltimaCasilla(arr)
          /\ arr' = << >> /\ idx' = 0
          /\ UNCHANGED <<elems, numElems>>
    /\ UNCHANGED <<capacidad, op, ret>>

tablahash_buscar(k) ==
    /\ ~Copiando
    /\ op' = <<"buscar", k>>
    /\ ret' = IF Encontrado(elems, capacidad, k)
              THEN {elems[Lugar(elems, capacidad, k)].dato} ELSE {}
    /\ UNCHANGED tabla

(* Mutation: the slot is emptied and its cluster is cut in two. *)
CasillaLiberada_Vacia == Vacia

(* What th_eliminar leaves in the slot. *)
CasillaLiberada == Borrada

(* Mutation: numElems is decremented when nothing was found. *)
Quitados_Siempre(e, cap, k) == 1

(* What th_eliminar takes from numElems. *)
Quitados(e, cap, k) == IF Encontrado(e, cap, k) THEN 1 ELSE 0

tablahash_eliminar(k) ==
    /\ ~Copiando
    /\ elems' = IF Encontrado(elems, capacidad, k)
                THEN [elems EXCEPT ![Lugar(elems, capacidad, k)] =
                         CasillaLiberada]
                ELSE elems
    /\ numElems' = numElems - Quitados(elems, capacidad, k)
    /\ op' = <<"eliminar", k>> /\ ret' = {}
    /\ UNCHANGED <<capacidad, arr, idx>>

(* tablahash_visitar and tablahash_visitar_extra *)
tablahash_visitar ==
    /\ ~Copiando
    /\ op' = <<"visitar">>
    /\ ret' = Datos(elems, DOMAIN elems)
    /\ UNCHANGED tabla

Next ==
    \/ \E d \in Dato : tablahash_insertar(d)
    \/ th_redimensionar
    \/ \E k \in Key : tablahash_buscar(k) \/ tablahash_eliminar(k)
    \/ tablahash_visitar

Spec == Init /\ [][Next]_vars

----------------------------------------------------------------------------
(* Type correctness: the array has exactly capacidad slots, and a deleted  *)
(* slot holds no element.                                                  *)
TypeOK ==
    /\ capacidad \in Nat \ {0}
    /\ elems \in [0 .. (capacidad - 1) -> CasillaHash]
    /\ \A i \in DOMAIN elems : elems[i].fdelete = 1 => elems[i].dato = NULL
    /\ numElems \in 0 .. capacidad
    /\ idx \in Nat
    /\ Copiando => /\ arr \in [0 .. (capacidad \div 2 - 1) -> CasillaHash]
                   /\ idx <= capacidad \div 2
    /\ ret \subseteq Dato

(* numElems is the number of occupied slots, whatever mixture of           *)
(* overwriting, reuse of deleted slots and copying led here.               *)
(* remove_inactive_nodes allocates an array of that many pointers and then *)
(* visits the slots.                                                       *)
CuentaExacta ==
    numElems = Cardinality({i \in DOMAIN elems : Ocupada(elems[i])})

(* The table is never more than 70% full when an operation or a turn of    *)
(* the copy ends: every cluster has an end, th_insertar always finds a     *)
(* place, and a copy never starts another copy inside itself.              *)
CargaAcotada == 10 * numElems <= 7 * capacidad

(* Every stored element is where its own search ends: deletions in the     *)
(* middle of a cluster, reused slots and copies hide none, and no key is   *)
(* stored twice.                                                           *)
TodoAlcanzable ==
    \A i \in DOMAIN elems :
        Ocupada(elems[i]) => i = Lugar(elems, capacidad, elems[i].dato.key)

(* The elements stored: those in the array and, during a copy, those of    *)
(* the old array whose turn has not come.                                  *)
Contenido ==
    Datos(elems, DOMAIN elems)
        \cup (IF Copiando THEN Datos(arr, {i \in DOMAIN arr : i >= idx})
              ELSE {})

Abstracta == INSTANCE Dictionary WITH contents <- Contenido

(* The table implements the dictionary its users rely on: a search finds   *)
(* the last element inserted with its key and not deleted since, a visit   *)
(* reaches every element once, and a copy changes nothing.                 *)
EsDiccionario == Abstracta!Spec
=============================================================================
