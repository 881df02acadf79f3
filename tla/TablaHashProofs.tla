-------------------------- MODULE TablaHashProofs --------------------------
(***************************************************************************)
(* Proofs about TablaHash, for every hash function, every set of keys and  *)
(* every initial capacity.                                                 *)
(***************************************************************************)
EXTENDS TablaHash, FiniteSetTheorems, WellFoundedInduction, TLAPS

----------------------------------------------------------------------------
(* Arithmetic of the probe sequence. *)

(* A set of numbers that is not empty has a least one.  The numbers below  *)
(* x are a finite set that grows with x.                                   *)
LEMMA LeastNumber ==
    ASSUME NEW T \in SUBSET Nat, T # {}
    PROVE  \E x \in T : \A y \in T : x <= y
<1> DEFINE Below(x) == 0 .. (x - 1)
           R == StrictSubsetOrdering(Nat)
           F == FiniteSubsetsOf(Nat)
           B == {Below(x) : x \in T}
<1>1. IsWellFoundedOn(R, F)
  BY FS_StrictSubsetOrderingWellFounded
<1>2. \A x \in Nat : IsFiniteSet(Below(x)) /\ Below(x) \in SUBSET Nat
  BY FS_Interval
<1>3. B \subseteq F /\ B # {}
  BY <1>2 DEF FiniteSubsetsOf
<1>4. ASSUME NEW x \in Nat, NEW y \in Nat, y < x
      PROVE  <<Below(y), Below(x)>> \in R
  <2>1. Below(y) \subseteq Below(x)
    BY <1>4
  <2>2. y \in Below(x) /\ y \notin Below(y)
    BY <1>4
  <2> QED
    BY <1>2, <2>1, <2>2 DEF StrictSubsetOrdering
<1>5. PICK b \in B : \A c \in B : ~(<<c, b>> \in R)
  <2> HIDE DEF B, R, F
  <2> QED
    BY <1>1, <1>3, WFMin
<1>6. PICK x \in T : b = Below(x)
  OBVIOUS
<1>7. ASSUME NEW y \in T
      PROVE  x <= y
  <2>1. ~(<<Below(y), Below(x)>> \in R)
    BY <1>5, <1>6
  <2>2. ~(y < x)
    BY <1>4, <2>1
  <2> QED
    BY <2>2
<1> QED
  BY <1>7

LEMMA MinFacts ==
    ASSUME NEW T \in SUBSET Nat, T # {}
    PROVE  Min(T) \in T /\ \A y \in T : Min(T) <= y
BY LeastNumber DEF Min

LEMMA UniqueRest ==
    ASSUME NEW c \in Nat \ {0}, NEW q \in Int, NEW p \in Int,
           NEW s \in 0 .. (c - 1), NEW r \in 0 .. (c - 1),
           c * q + s = c * p + r
    PROVE  s = r
OBVIOUS

(* i slots past a, around the end of the array. *)
LEMMA ModAdd ==
    ASSUME NEW a \in Nat, NEW c \in Nat \ {0}, NEW i \in 0 .. (c - 1)
    PROVE  /\ a % c \in 0 .. (c - 1)
           /\ (a + i) % c \in 0 .. (c - 1)
           /\ (a % c) + i < c => (a + i) % c = (a % c) + i
           /\ (a % c) + i >= c => (a + i) % c = (a % c) + i - c
<1> DEFINE r == a % c
           s == (a + i) % c
           p == a \div c
           q == (a + i) \div c
<1>1. r \in 0 .. (c - 1) /\ s \in 0 .. (c - 1) /\ p \in Int /\ q \in Int
  OBVIOUS
<1>2. a = c * p + r
  OBVIOUS
<1>3. a + i = c * q + s
  OBVIOUS
<1> HIDE DEF r, s, p, q
<1>4. c * q + s = c * p + (r + i)
  BY <1>1, <1>2, <1>3
<1>5. ASSUME r + i < c PROVE s = r + i
  <2>1. r + i \in 0 .. (c - 1)
    BY <1>1, <1>5
  <2> QED
    BY <1>1, <1>4, <2>1, UniqueRest
<1>6. ASSUME r + i >= c PROVE s = r + i - c
  <2>1. r + i - c \in 0 .. (c - 1)
    BY <1>1, <1>6
  <2>2. c * q + s = c * (p + 1) + (r + i - c)
    BY <1>1, <1>4
  <2> DEFINE x == p + 1
             y == r + i - c
  <2>3. x \in Int /\ y \in 0 .. (c - 1) /\ c * q + s = c * x + y
    BY <1>1, <2>1, <2>2
  <2> HIDE DEF x, y
  <2>4. s = y
    BY <1>1, <2>3, UniqueRest
  <2> QED
    BY <2>4 DEF y
<1> QED
  BY <1>1, <1>5, <1>6 DEF r, s

(* The loop visits every slot once. *)
Recorre(cap, k) ==
    /\ \A i \in 0 .. (cap - 1) : At(cap, k, i) \in 0 .. (cap - 1)
    /\ \A i, h \in 0 .. (cap - 1) : At(cap, k, i) = At(cap, k, h) => i = h
    /\ \A p \in 0 .. (cap - 1) : \E i \in 0 .. (cap - 1) : At(cap, k, i) = p

LEMMA AtFacts ==
    ASSUME NEW cap \in Nat \ {0}, NEW k \in Key
    PROVE  Recorre(cap, k)
<1> DEFINE a == hash[k]
           r == a % cap
<1>1. a \in Nat
  BY TablaHashAssumption
<1>2. \A i \in 0 .. (cap - 1) :
         /\ r \in 0 .. (cap - 1)
         /\ At(cap, k, i) \in 0 .. (cap - 1)
         /\ r + i < cap => At(cap, k, i) = r + i
         /\ r + i >= cap => At(cap, k, i) = r + i - cap
  BY <1>1, ModAdd DEF At
<1> HIDE DEF r, a
<1>3. r \in 0 .. (cap - 1)
  BY <1>2
<1>4. ASSUME NEW p \in 0 .. (cap - 1)
      PROVE  \E i \in 0 .. (cap - 1) : At(cap, k, i) = p
  <2>1. CASE p >= r
    <3>1. p - r \in 0 .. (cap - 1) /\ r + (p - r) = p
      BY <1>3, <2>1
    <3> QED
      BY <1>2, <3>1
  <2>2. CASE p < r
    <3>1. p - r + cap \in 0 .. (cap - 1) /\ r + (p - r + cap) - cap = p
          /\ r + (p - r + cap) >= cap
      BY <1>3, <2>2
    <3> QED
      BY <1>2, <3>1
  <2> QED
    BY <1>3, <2>1, <2>2
<1>5. ASSUME NEW i \in 0 .. (cap - 1), NEW h \in 0 .. (cap - 1),
             At(cap, k, i) = At(cap, k, h)
      PROVE  i = h
  BY <1>2, <1>3, <1>5
<1> QED
  BY <1>2, <1>4, <1>5 DEF Recorre

----------------------------------------------------------------------------
(* The slots, and what makes every element reachable: no search that would *)
(* meet it stops before.                                                   *)

Casillas(e, cap) ==
    /\ e \in [0 .. (cap - 1) -> CasillaHash]
    /\ \A p \in 0 .. (cap - 1) : e[p].fdelete = 1 => e[p].dato = NULL

Alcanza(e, cap) ==
    \A k \in Key, i \in 0 .. (cap - 1) :
        Coincide(e[At(cap, k, i)], k) =>
            \A h \in 0 .. (i - 1) : ~Para(e[At(cap, k, h)], k)

(* The loop passes over Salto slots that do not stop it. *)
LEMMA SaltoFacts ==
    ASSUME NEW cap \in Nat \ {0}, NEW k \in Key, NEW e
    PROVE  /\ Salto(e, cap, k) \in 0 .. cap
           /\ Salto(e, cap, k) < cap => Para(e[At(cap, k, Salto(e, cap, k))], k)
           /\ \A h \in 0 .. (Salto(e, cap, k) - 1) : ~Para(e[At(cap, k, h)], k)
<1> DEFINE S == {i \in 0 .. (cap - 1) : Para(e[At(cap, k, i)], k)}
<1>1. Salto(e, cap, k) = IF S = {} THEN cap ELSE Min(S)
  BY DEF Salto
<1>2. CASE S = {}
  <2>1. Salto(e, cap, k) = cap
    BY <1>1, <1>2
  <2> QED
    BY <1>2, <2>1
<1>3. CASE S # {}
  <2>1. S \in SUBSET Nat
    OBVIOUS
  <2>2. Min(S) \in S /\ \A y \in S : Min(S) <= y
    BY <1>3, <2>1, MinFacts
  <2>3. Salto(e, cap, k) = Min(S)
    BY <1>1, <1>3
  <2> DEFINE m == Min(S)
  <2>4. m \in 0 .. (cap - 1) /\ Para(e[At(cap, k, m)], k)
    BY <2>2
  <2>5. ASSUME NEW h \in 0 .. (m - 1) PROVE ~Para(e[At(cap, k, h)], k)
    <3>1. h \in 0 .. (cap - 1) /\ ~(m <= h)
      BY <2>4
    <3>2. h \notin S
      BY <2>2, <3>1
    <3> QED
      BY <3>1, <3>2
  <2> HIDE DEF m, S
  <2> QED
    BY <2>3, <2>4, <2>5 DEF m
<1> QED
  BY <1>2, <1>3

(* The search for a stored key ends at its slot. *)
LEMMA HalladoFacts ==
    ASSUME NEW cap \in Nat \ {0}, NEW k \in Key, NEW e, Alcanza(e, cap),
           NEW p \in 0 .. (cap - 1), Coincide(e[p], k)
    PROVE  Encontrado(e, cap, k) /\ p = Lugar(e, cap, k)
<1>1. PICK i \in 0 .. (cap - 1) : At(cap, k, i) = p
  BY AtFacts DEF Recorre
<1>2. \A h \in 0 .. (i - 1) : ~Para(e[At(cap, k, h)], k)
  BY <1>1 DEF Alcanza
<1>3. Para(e[At(cap, k, i)], k)
  BY <1>1 DEF Para
<1> DEFINE s == Salto(e, cap, k)
<1>4. /\ s \in 0 .. cap
      /\ s < cap => Para(e[At(cap, k, s)], k)
      /\ \A h \in 0 .. (s - 1) : ~Para(e[At(cap, k, h)], k)
  BY SaltoFacts
<1>5. s = i
  <2> HIDE DEF s
  <2>1. ~(s < i)
    BY <1>2, <1>4
  <2>2. ~(i < s)
    BY <1>3, <1>4
  <2> QED
    BY <1>4, <2>1, <2>2
<1>6. s < cap
  BY <1>5
<1> QED
  BY <1>1, <1>5, <1>6 DEF Encontrado, Lugar

(* A search that succeeds ends at a slot with the key. *)
LEMMA EncontradoFacts ==
    ASSUME NEW cap \in Nat \ {0}, NEW k \in Key, NEW e, Encontrado(e, cap, k)
    PROVE  /\ Lugar(e, cap, k) \in 0 .. (cap - 1)
           /\ Coincide(e[Lugar(e, cap, k)], k)
<1>1. Salto(e, cap, k) \in 0 .. (cap - 1)
  BY SaltoFacts DEF Encontrado
<1> QED
  BY <1>1, AtFacts DEF Encontrado, Lugar, Recorre

(* Where th_insertar puts a new key: a slot without element that the       *)
(* search for the key does not pass a stop to reach.                       *)
Libre(e, cap, k, p) ==
    /\ p \in 0 .. (cap - 1) /\ e[p].dato = NULL
    /\ \A x \in 0 .. (cap - 1) : ~Coincide(e[x], k)
    /\ \E i \in 0 .. (cap - 1) :
          /\ p = At(cap, k, i)
          /\ \A h \in 0 .. (i - 1) : ~Para(e[At(cap, k, h)], k)

LEMMA DestinoFacts ==
    ASSUME NEW cap \in Nat \ {0}, NEW k \in Key, NEW e, Casillas(e, cap),
           Alcanza(e, cap), ~Encontrado(e, cap, k), Cabe(e, cap, k)
    PROVE  Libre(e, cap, k, Destino(e, cap, k))
<1> DEFINE s == Salto(e, cap, k)
           P == Previstas(e, cap, k)
<1>1. /\ s \in 0 .. cap
      /\ s < cap => Para(e[At(cap, k, s)], k)
      /\ \A h \in 0 .. (s - 1) : ~Para(e[At(cap, k, h)], k)
  BY SaltoFacts
<1>2. \A x \in 0 .. (cap - 1) : ~Coincide(e[x], k)
  BY HalladoFacts
<1>3. CASE P = {}
  <2>1. s < cap /\ Destino(e, cap, k) = At(cap, k, s)
    BY <1>3 DEF Cabe, Destino, Lugar
  <2>2. At(cap, k, s) \in 0 .. (cap - 1)
    BY <1>1, <2>1, AtFacts DEF Recorre
  <2>3. e[At(cap, k, s)].dato = NULL
    BY <1>1, <1>2, <2>1, <2>2 DEF Para, FinalDeCluster
  <2>4. s \in 0 .. (cap - 1)
    BY <1>1, <2>1
  <2> HIDE DEF s
  <2> QED
    BY <1>1, <1>2, <2>1, <2>2, <2>3, <2>4 DEF Libre
<1>4. CASE P # {}
  <2> DEFINE m == Min(P)
  <2>1. P = {i \in 0 .. (s - 1) : e[At(cap, k, i)].fdelete = 1}
    BY DEF Previstas
  <2>2. P \in SUBSET Nat
    BY <1>1, <2>1
  <2>3. m \in P
    BY <1>4, <2>2, MinFacts
  <2>4. Destino(e, cap, k) = At(cap, k, m)
    BY <1>4 DEF Destino
  <2>5. m \in 0 .. (s - 1) /\ e[At(cap, k, m)].fdelete = 1
    BY <2>1, <2>3
  <2> HIDE DEF m, s, P
  <2>6. m \in 0 .. (cap - 1) /\ \A h \in 0 .. (m - 1) : h \in 0 .. (s - 1)
    BY <1>1, <2>5
  <2>7. At(cap, k, m) \in 0 .. (cap - 1)
    BY <2>6, AtFacts DEF Recorre
  <2>8. e[At(cap, k, m)].dato = NULL
    BY <2>5, <2>7 DEF Casillas
  <2>9. \A h \in 0 .. (m - 1) : ~Para(e[At(cap, k, h)], k)
    BY <1>1, <2>6
  <2> QED
    BY <1>2, <2>4, <2>6, <2>7, <2>8, <2>9 DEF Libre
<1> QED
  BY <1>3, <1>4

----------------------------------------------------------------------------
(* What writing a slot does. *)

Llenas(e, cap) == {p \in 0 .. (cap - 1) : Ocupada(e[p])}

(* e2 is e with c at position p. *)
Pone(e, e2, cap, p, c) ==
    /\ e2 \in [0 .. (cap - 1) -> CasillaHash]
    /\ e2[p] = c
    /\ \A x \in 0 .. (cap - 1) : x # p => e2[x] = e[x]

LEMMA PoneFacts ==
    ASSUME NEW cap \in Nat \ {0}, NEW e, Casillas(e, cap),
           NEW p \in 0 .. (cap - 1), NEW c \in CasillaHash
    PROVE  Pone(e, [e EXCEPT ![p] = c], cap, p, c)
BY DEF Casillas, Pone

Casilla(d) == [dato |-> d, fdelete |-> 0]

LEMMA CasillaFacts ==
    ASSUME NEW d \in Dato
    PROVE  /\ Casilla(d) \in CasillaHash /\ Casilla(d).dato = d
           /\ Casilla(d).fdelete = 0 /\ Ocupada(Casilla(d)) /\ d.key \in Key
           /\ \A k \in Key : Para(Casilla(d), k) <=> k = d.key
           /\ \A k \in Key : Coincide(Casilla(d), k) <=> k = d.key
<1>1. d # NULL /\ d.key \in Key
  BY TablaHashAssumption DEF Dato
<1> QED
  BY <1>1 DEF Casilla, CasillaHash, Ocupada, Para, Coincide, FinalDeCluster

(* An element with the key is overwritten: the searches notice nothing. *)
LEMMA Sobrescribe ==
    ASSUME NEW cap \in Nat \ {0}, NEW e, Casillas(e, cap), Alcanza(e, cap),
           NEW d \in Dato, NEW p \in 0 .. (cap - 1), Coincide(e[p], d.key),
           NEW e2, Pone(e, e2, cap, p, Casilla(d))
    PROVE  /\ Casillas(e2, cap) /\ Alcanza(e2, cap)
           /\ Llenas(e2, cap) = Llenas(e, cap)
<1>1. /\ Casilla(d).dato = d /\ Casilla(d).fdelete = 0
      /\ Ocupada(Casilla(d)) /\ d.key \in Key
      /\ \A k \in Key : Para(Casilla(d), k) <=> k = d.key
      /\ \A k \in Key : Coincide(Casilla(d), k) <=> k = d.key
  BY CasillaFacts
<1>2. /\ \A k \in Key : Para(e[p], k) <=> k = d.key
      /\ \A k \in Key : Coincide(e[p], k) <=> k = d.key
      /\ Ocupada(e[p])
  BY <1>1 DEF Para, Coincide, FinalDeCluster, Ocupada
<1>3. ASSUME NEW x \in 0 .. (cap - 1)
      PROVE  /\ \A k \in Key : Para(e2[x], k) <=> Para(e[x], k)
             /\ \A k \in Key : Coincide(e2[x], k) <=> Coincide(e[x], k)
             /\ Ocupada(e2[x]) <=> Ocupada(e[x])
  BY <1>1, <1>2 DEF Pone
<1>4. Casillas(e2, cap)
  BY <1>1 DEF Casillas, Pone
<1>5. Alcanza(e2, cap)
  <2> SUFFICES ASSUME NEW k \in Key, NEW i \in 0 .. (cap - 1),
                      Coincide(e2[At(cap, k, i)], k),
                      NEW h \in 0 .. (i - 1)
               PROVE  ~Para(e2[At(cap, k, h)], k)
    BY DEF Alcanza
  <2>1. h \in 0 .. (cap - 1)
    OBVIOUS
  <2>2. At(cap, k, i) \in 0 .. (cap - 1) /\ At(cap, k, h) \in 0 .. (cap - 1)
    BY <2>1, AtFacts DEF Recorre
  <2> QED
    BY <1>3, <2>2 DEF Alcanza
<1> QED
  BY <1>3, <1>4, <1>5 DEF Llenas

(* A new element in a free slot. *)
LEMMA Estrena ==
    ASSUME NEW cap \in Nat \ {0}, NEW e, Casillas(e, cap), Alcanza(e, cap),
           NEW d \in Dato, NEW p, Libre(e, cap, d.key, p),
           NEW e2, Pone(e, e2, cap, p, Casilla(d))
    PROVE  /\ Casillas(e2, cap) /\ Alcanza(e2, cap)
           /\ p \notin Llenas(e, cap)
           /\ Llenas(e2, cap) = Llenas(e, cap) \cup {p}
<1>0. p \in 0 .. (cap - 1) /\ e[p].dato = NULL
      /\ \A x \in 0 .. (cap - 1) : ~Coincide(e[x], d.key)
  BY DEF Libre
<1>1. /\ Casilla(d).dato = d /\ Casilla(d).fdelete = 0
      /\ Ocupada(Casilla(d)) /\ d.key \in Key
      /\ \A k \in Key : Para(Casilla(d), k) <=> k = d.key
      /\ \A k \in Key : Coincide(Casilla(d), k) <=> k = d.key
  BY CasillaFacts
<1>2. Casillas(e2, cap)
  BY <1>1 DEF Casillas, Pone
<1>3. Alcanza(e2, cap)
  <2> SUFFICES ASSUME NEW k \in Key, NEW i \in 0 .. (cap - 1),
                      Coincide(e2[At(cap, k, i)], k),
                      NEW h \in 0 .. (i - 1)
               PROVE  ~Para(e2[At(cap, k, h)], k)
    BY DEF Alcanza
  <2>1. h \in 0 .. (cap - 1) /\ h # i
    OBVIOUS
  <2> DEFINE x == At(cap, k, i)
             y == At(cap, k, h)
  <2>2. x \in 0 .. (cap - 1) /\ y \in 0 .. (cap - 1) /\ x # y
    BY <2>1, AtFacts DEF Recorre
  <2>3. CASE k # d.key
    <3>1. x # p
      BY <1>1, <2>3 DEF Pone
    <3>2. Coincide(e[x], k)
      BY <2>2, <3>1 DEF Pone
    <3>3. ~Para(e[y], k)
      BY <3>2 DEF Alcanza
    <3> QED
      BY <1>1, <2>2, <2>3, <3>3 DEF Pone
  <2>4. CASE k = d.key
    <3>1. x = p
      BY <1>0, <2>2, <2>4 DEF Pone
    <3>2. PICK i0 \in 0 .. (cap - 1) :
              /\ p = At(cap, k, i0)
              /\ \A g \in 0 .. (i0 - 1) : ~Para(e[At(cap, k, g)], k)
      BY <2>4 DEF Libre
    <3>3. i0 = i
      BY <3>1, <3>2, AtFacts DEF Recorre
    <3>4. ~Para(e[y], k)
      BY <3>2, <3>3
    <3> QED
      BY <2>2, <3>1, <3>4 DEF Pone
  <2> QED
    BY <2>3, <2>4
<1>4. p \notin Llenas(e, cap)
  BY <1>0 DEF Llenas, Ocupada
<1>5. Llenas(e2, cap) = Llenas(e, cap) \cup {p}
  BY <1>0, <1>1 DEF Llenas, Pone
<1> QED
  BY <1>2, <1>3, <1>4, <1>5

(* th_eliminar leaves the slot in its cluster. *)
LEMMA Borra ==
    ASSUME NEW cap \in Nat \ {0}, NEW e, Casillas(e, cap), Alcanza(e, cap),
           NEW p \in 0 .. (cap - 1), Ocupada(e[p]),
           NEW e2, Pone(e, e2, cap, p, Borrada)
    PROVE  /\ Casillas(e2, cap) /\ Alcanza(e2, cap)
           /\ p \in Llenas(e, cap)
           /\ Llenas(e2, cap) = Llenas(e, cap) \ {p}
<1>1. /\ Borrada.dato = NULL /\ ~Ocupada(Borrada)
      /\ \A k \in Key : ~Para(Borrada, k) /\ ~Coincide(Borrada, k)
  BY DEF Borrada, Ocupada, Para, Coincide, FinalDeCluster
<1>2. ASSUME NEW x \in 0 .. (cap - 1)
      PROVE  /\ \A k \in Key : Para(e2[x], k) => Para(e[x], k)
             /\ \A k \in Key : Coincide(e2[x], k) => Coincide(e[x], k)
             /\ Ocupada(e2[x]) <=> Ocupada(e[x]) /\ x # p
  BY <1>1 DEF Pone
<1>3. Casillas(e2, cap)
  BY <1>1 DEF Casillas, Pone
<1>4. Alcanza(e2, cap)
  <2> SUFFICES ASSUME NEW k \in Key, NEW i \in 0 .. (cap - 1),
                      Coincide(e2[At(cap, k, i)], k),
                      NEW h \in 0 .. (i - 1)
               PROVE  ~Para(e2[At(cap, k, h)], k)
    BY DEF Alcanza
  <2>1. h \in 0 .. (cap - 1)
    OBVIOUS
  <2>2. At(cap, k, i) \in 0 .. (cap - 1) /\ At(cap, k, h) \in 0 .. (cap - 1)
    BY <2>1, AtFacts DEF Recorre
  <2> QED
    BY <1>2, <2>2 DEF Alcanza
<1> QED
  BY <1>2, <1>3, <1>4 DEF Llenas

(* No key is stored twice, and an element is found where it is. *)
LEMMA Unicas ==
    ASSUME NEW cap \in Nat \ {0}, NEW e, Casillas(e, cap), Alcanza(e, cap),
           NEW p \in Llenas(e, cap)
    PROVE  /\ p \in 0 .. (cap - 1) /\ e[p].dato \in Dato /\ e[p].dato.key \in Key
           /\ Coincide(e[p], e[p].dato.key)
           /\ p = Lugar(e, cap, e[p].dato.key)
           /\ \A q \in Llenas(e, cap) : e[q].dato.key = e[p].dato.key => q = p
<1>1. ASSUME NEW q \in Llenas(e, cap)
      PROVE  /\ q \in 0 .. (cap - 1) /\ e[q].dato \in Dato /\ e[q].dato.key \in Key
             /\ Coincide(e[q], e[q].dato.key)
  <2>1. q \in 0 .. (cap - 1) /\ Ocupada(e[q])
    BY DEF Llenas
  <2>2. e[q] \in CasillaHash /\ e[q].dato # NULL /\ e[q].fdelete = 0
    BY <2>1 DEF Casillas, CasillaHash, Ocupada
  <2>3. e[q].dato \in Dato
    BY <2>2 DEF CasillaHash
  <2> QED
    BY <2>1, <2>2, <2>3 DEF Coincide, Dato
<1>2. \A q \in Llenas(e, cap) : q = Lugar(e, cap, e[q].dato.key)
  BY <1>1, HalladoFacts
<1> QED
  BY <1>1, <1>2

(* The elements stored. *)
Elementos(e, cap) == {e[p].dato : p \in Llenas(e, cap)}

LEMMA LlenasFinito ==
    ASSUME NEW cap \in Nat \ {0}, NEW e
    PROVE  /\ IsFiniteSet(Llenas(e, cap))
           /\ Cardinality(Llenas(e, cap)) \in 0 .. cap
           /\ Cardinality(Llenas(e, cap)) = cap => Llenas(e, cap) = 0 .. (cap - 1)
<1>1. IsFiniteSet(0 .. (cap - 1)) /\ Cardinality(0 .. (cap - 1)) = cap
  BY FS_Interval
<1>2. Llenas(e, cap) \in SUBSET (0 .. (cap - 1))
  BY DEF Llenas
<1>3. /\ IsFiniteSet(Llenas(e, cap)) /\ Cardinality(Llenas(e, cap)) <= cap
      /\ Cardinality(Llenas(e, cap)) = cap => Llenas(e, cap) = 0 .. (cap - 1)
  BY <1>1, <1>2, FS_Subset
<1>4. Cardinality(Llenas(e, cap)) \in Nat
  BY <1>3, FS_CardinalityType
<1> QED
  BY <1>3, <1>4

(* A table that is not full has room for any key. *)
LEMMA HayLugar ==
    ASSUME NEW cap \in Nat \ {0}, NEW e, Casillas(e, cap), NEW k \in Key,
           Cardinality(Llenas(e, cap)) < cap
    PROVE  Cabe(e, cap, k)
<1>1. Llenas(e, cap) # 0 .. (cap - 1)
  <2>1. Cardinality(0 .. (cap - 1)) = cap
    BY FS_Interval
  <2> QED
    BY <2>1
<1>2. PICK p \in 0 .. (cap - 1) : ~Ocupada(e[p])
  BY <1>1 DEF Llenas
<1>3. PICK i \in 0 .. (cap - 1) : At(cap, k, i) = p
  BY AtFacts DEF Recorre
<1> SUFFICES ASSUME ~Cabe(e, cap, k) PROVE FALSE
  OBVIOUS
<1>4. Salto(e, cap, k) = cap /\ Previstas(e, cap, k) = {}
  BY SaltoFacts DEF Cabe
<1>5. ~Para(e[p], k)
  BY <1>3, <1>4, SaltoFacts
<1>6. e[p] \in CasillaHash /\ e[p].dato = NULL
  BY <1>2 DEF Casillas, Ocupada
<1>7. e[p].fdelete = 1
  BY <1>5, <1>6 DEF Para, FinalDeCluster, CasillaHash
<1>8. i \in Previstas(e, cap, k)
  BY <1>3, <1>4, <1>7 DEF Previstas
<1> QED
  BY <1>4, <1>8

(* th_insertar stores the element under its key. *)
Insertada(e, e2, cap, d) ==
    /\ Casillas(e2, cap) /\ Alcanza(e2, cap)
    /\ Cardinality(Llenas(e2, cap))
         = Cardinality(Llenas(e, cap)) + Nuevos(e, cap, d.key)
    /\ Nuevos(e, cap, d.key) \in {0, 1}
    /\ Elementos(e2, cap) = {x \in Elementos(e, cap) : x.key # d.key} \cup {d}

LEMMA InsertaFacts ==
    ASSUME NEW cap \in Nat \ {0}, NEW e, Casillas(e, cap), Alcanza(e, cap),
           NEW d \in Dato, Cabe(e, cap, d.key)
    PROVE  Insertada(e, th_insertar(e, cap, d), cap, d)
<1> DEFINE k == d.key
           p == Destino(e, cap, k)
           e2 == th_insertar(e, cap, d)
<1>1. k \in Key /\ Casilla(d) \in CasillaHash /\ Ocupada(Casilla(d))
      /\ Casilla(d).dato = d
  BY CasillaFacts
<1>2. e2 = [e EXCEPT ![p] = Casilla(d)]
  BY DEF th_insertar, Casilla
<1>3. IsFiniteSet(Llenas(e, cap)) /\ Cardinality(Llenas(e, cap)) \in Nat
  BY LlenasFinito
<1> HIDE DEF e2
<1>4. CASE Encontrado(e, cap, k)
  <2>1. p = Lugar(e, cap, k)
    BY <1>4 DEF Destino
  <2>2. p \in 0 .. (cap - 1) /\ Coincide(e[p], k)
    BY <1>1, <1>4, <2>1, EncontradoFacts
  <2> HIDE DEF p
  <2>3. Pone(e, e2, cap, p, Casilla(d))
    BY <1>1, <1>2, <2>2, PoneFacts
  <2>4. Casillas(e2, cap) /\ Alcanza(e2, cap) /\ Llenas(e2, cap) = Llenas(e, cap)
    BY <2>2, <2>3, Sobrescribe
  <2>5. Nuevos(e, cap, k) = 0
    BY <1>4 DEF Nuevos
  <2>6. p \in Llenas(e, cap) /\ e[p].dato.key = k
    BY <2>2 DEF Llenas, Coincide, Ocupada
  <2>7. ASSUME NEW q \in Llenas(e, cap), q # p
        PROVE  e2[q].dato = e[q].dato /\ e[q].dato.key # k
    <3>1. e2[q] = e[q]
      BY <2>3, <2>7 DEF Pone, Llenas
    <3> QED
      BY <2>6, <2>7, <3>1, Unicas
  <2>8. e2[p].dato = d
    BY <1>1, <2>3 DEF Pone
  <2>9. Elementos(e2, cap) = {x \in Elementos(e, cap) : x.key # k} \cup {d}
    BY <2>4, <2>6, <2>7, <2>8 DEF Elementos
  <2>10. Cardinality(Llenas(e2, cap)) = Cardinality(Llenas(e, cap)) + Nuevos(e, cap, k)
    BY <1>3, <2>4, <2>5
  <2>11. Insertada(e, e2, cap, d)
    BY <2>4, <2>5, <2>9, <2>10 DEF Insertada
  <2> QED
    BY <2>11 DEF e2
<1>5. CASE ~Encontrado(e, cap, k)
  <2>1. Libre(e, cap, k, p)
    BY <1>1, <1>5, DestinoFacts
  <2> HIDE DEF p
  <2>2. p \in 0 .. (cap - 1) /\ \A x \in 0 .. (cap - 1) : ~Coincide(e[x], k)
    BY <2>1 DEF Libre
  <2>3. Pone(e, e2, cap, p, Casilla(d))
    BY <1>1, <1>2, <2>2, PoneFacts
  <2>4. /\ Casillas(e2, cap) /\ Alcanza(e2, cap) /\ p \notin Llenas(e, cap)
        /\ Llenas(e2, cap) = Llenas(e, cap) \cup {p}
    BY <2>1, <2>3, Estrena
  <2>5. Nuevos(e, cap, k) = 1
    BY <1>5 DEF Nuevos
  <2>6. Cardinality(Llenas(e2, cap)) = Cardinality(Llenas(e, cap)) + 1
    BY <1>3, <2>4, FS_AddElement
  <2>7. ASSUME NEW q \in Llenas(e, cap)
        PROVE  e2[q].dato = e[q].dato /\ e[q].dato.key # k
    <3>1. e2[q] = e[q]
      BY <2>3, <2>4, <2>7 DEF Pone, Llenas
    <3>2. Coincide(e[q], e[q].dato.key) /\ q \in 0 .. (cap - 1)
      BY Unicas
    <3> QED
      BY <2>2, <3>1, <3>2
  <2>8. e2[p].dato = d
    BY <1>1, <2>3 DEF Pone
  <2>9. Elementos(e2, cap) = {x \in Elementos(e, cap) : x.key # k} \cup {d}
    BY <2>4, <2>7, <2>8 DEF Elementos
  <2>10. Insertada(e, e2, cap, d)
    BY <2>4, <2>5, <2>6, <2>9 DEF Insertada
  <2> QED
    BY <2>10 DEF e2
<1> QED
  BY <1>4, <1>5

(* th_eliminar takes the element with the key away. *)
Quitada(e, e2, cap, k) ==
    /\ Casillas(e2, cap) /\ Alcanza(e2, cap)
    /\ Cardinality(Llenas(e2, cap))
         = Cardinality(Llenas(e, cap)) - Quitados(e, cap, k)
    /\ Quitados(e, cap, k) \in {0, 1}
    /\ Elementos(e2, cap) = {x \in Elementos(e, cap) : x.key # k}

LEMMA EliminaFacts ==
    ASSUME NEW cap \in Nat \ {0}, NEW e, Casillas(e, cap), Alcanza(e, cap),
           NEW k \in Key
    PROVE  Quitada(e, IF Encontrado(e, cap, k)
                      THEN [e EXCEPT ![Lugar(e, cap, k)] = CasillaLiberada]
                      ELSE e, cap, k)
<1>1. CASE Encontrado(e, cap, k)
  <2> DEFINE p == Lugar(e, cap, k)
             e2 == [e EXCEPT ![p] = CasillaLiberada]
  <2>1. p \in 0 .. (cap - 1) /\ Coincide(e[p], k)
    BY <1>1, EncontradoFacts
  <2> HIDE DEF p
  <2>2. CasillaLiberada \in CasillaHash /\ CasillaLiberada = Borrada
    BY DEF CasillaLiberada, Borrada, CasillaHash
  <2>3. Pone(e, e2, cap, p, Borrada)
    BY <2>1, <2>2, PoneFacts
  <2> HIDE DEF e2
  <2>4. Ocupada(e[p]) /\ e[p].dato.key = k
    BY <2>1 DEF Coincide, Ocupada
  <2>5. /\ Casillas(e2, cap) /\ Alcanza(e2, cap) /\ p \in Llenas(e, cap)
        /\ Llenas(e2, cap) = Llenas(e, cap) \ {p}
    BY <2>1, <2>3, <2>4, Borra
  <2>6. Quitados(e, cap, k) = 1
    BY <1>1 DEF Quitados
  <2>7. Cardinality(Llenas(e2, cap)) = Cardinality(Llenas(e, cap)) - 1
    BY <2>5, LlenasFinito, FS_RemoveElement
  <2>8. ASSUME NEW q \in Llenas(e, cap), q # p
        PROVE  e2[q].dato = e[q].dato /\ e[q].dato.key # k
    <3>1. e2[q] = e[q]
      BY <2>3, <2>8 DEF Pone, Llenas
    <3> QED
      BY <2>4, <2>5, <2>8, <3>1, Unicas
  <2>9. Elementos(e2, cap) = {x \in Elementos(e, cap) : x.key # k}
    BY <2>4, <2>5, <2>8 DEF Elementos
  <2>10. Quitada(e, e2, cap, k)
    BY <2>5, <2>6, <2>7, <2>9 DEF Quitada
  <2> QED
    BY <1>1, <2>10 DEF e2, p
<1>2. CASE ~Encontrado(e, cap, k)
  <2>1. \A q \in Llenas(e, cap) : e[q].dato.key # k
    BY <1>2, Unicas, HalladoFacts
  <2>2. Elementos(e, cap) = {x \in Elementos(e, cap) : x.key # k}
    BY <2>1 DEF Elementos
  <2>3. Quitados(e, cap, k) = 0 /\ Cardinality(Llenas(e, cap)) \in Nat
    BY <1>2, LlenasFinito DEF Quitados
  <2>4. Quitada(e, e, cap, k)
    BY <2>2, <2>3 DEF Quitada
  <2> QED
    BY <1>2, <2>4
<1> QED
  BY <1>1, <1>2

(* tablahash_buscar returns the element with the key, if there is one. *)
LEMMA BuscaFacts ==
    ASSUME NEW cap \in Nat \ {0}, NEW e, Casillas(e, cap), Alcanza(e, cap),
           NEW k \in Key
    PROVE  (IF Encontrado(e, cap, k) THEN {e[Lugar(e, cap, k)].dato} ELSE {})
              = {x \in Elementos(e, cap) : x.key = k}
<1>1. CASE Encontrado(e, cap, k)
  <2> DEFINE p == Lugar(e, cap, k)
  <2>1. p \in 0 .. (cap - 1) /\ Coincide(e[p], k)
    BY <1>1, EncontradoFacts
  <2>2. p \in Llenas(e, cap) /\ e[p].dato.key = k
    BY <2>1 DEF Coincide, Ocupada, Llenas
  <2>3. \A q \in Llenas(e, cap) : e[q].dato.key = k => q = p
    BY <2>2, Unicas
  <2> HIDE DEF p
  <2>4. {e[p].dato} = {x \in Elementos(e, cap) : x.key = k}
    BY <2>2, <2>3 DEF Elementos
  <2> QED
    BY <1>1, <2>4 DEF p
<1>2. CASE ~Encontrado(e, cap, k)
  <2>1. \A q \in Llenas(e, cap) : e[q].dato.key # k
    BY <1>2, Unicas, HalladoFacts
  <2>2. {x \in Elementos(e, cap) : x.key = k} = {}
    BY <2>1 DEF Elementos
  <2> QED
    BY <1>2, <2>2
<1> QED
  BY <1>1, <1>2

----------------------------------------------------------------------------
(* The inductive invariant: the array is well formed and every element in  *)
(* it reachable; while it is copied the same holds of the old array, no    *)
(* more elements than turns have been copied, and the elements that wait   *)
(* for their turn have keys the new array does not have.                   *)

Distintas(e, cap, a, n, i) ==
    \A p \in Llenas(a, n) : p >= i =>
        \A x \in Llenas(e, cap) : e[x].dato.key # a[p].dato.key

CopiaOK(e, cap, num, a, i) ==
    LET n == cap \div 2
    IN  /\ n \in Nat \ {0} /\ cap = 2 * n
        /\ Casillas(a, n) /\ Alcanza(a, n)
        /\ i \in 0 .. n /\ num <= i
        /\ Distintas(e, cap, a, n, i)

TablaOK(e, cap, num) ==
    /\ cap \in Nat \ {0}
    /\ Casillas(e, cap) /\ Alcanza(e, cap)
    /\ num = Cardinality(Llenas(e, cap))
    /\ 10 * num <= 7 * cap

IInv ==
    /\ TablaOK(elems, capacidad, numElems)
    /\ Copiando => CopiaOK(elems, capacidad, numElems, arr, idx)
    /\ idx \in Nat
    /\ ret \subseteq Dato

LEMMA VaciasFacts ==
    ASSUME NEW cap \in Nat \ {0}
    PROVE  /\ TablaOK(Vacias(cap), cap, 0)
           /\ Llenas(Vacias(cap), cap) = {}
<1> DEFINE e == Vacias(cap)
<1>1. e \in [0 .. (cap - 1) -> CasillaHash] /\ \A p \in 0 .. (cap - 1) : e[p] = Vacia
  BY DEF Vacias, Vacia, CasillaHash
<1>2. Vacia.dato = NULL /\ Vacia.fdelete = 0
  BY DEF Vacia
<1> HIDE DEF e
<1>3. Llenas(e, cap) = {} /\ Casillas(e, cap)
  BY <1>1, <1>2 DEF Llenas, Ocupada, Casillas
<1>4. Alcanza(e, cap)
  <2> SUFFICES ASSUME NEW k \in Key, NEW i \in 0 .. (cap - 1)
               PROVE  ~Coincide(e[At(cap, k, i)], k)
    BY DEF Alcanza
  <2>1. At(cap, k, i) \in 0 .. (cap - 1)
    BY AtFacts DEF Recorre
  <2> QED
    BY <1>1, <1>2, <2>1 DEF Coincide
<1>5. Cardinality(Llenas(e, cap)) = 0
  BY <1>3, FS_EmptySet
<1> QED
  BY <1>3, <1>4, <1>5 DEF TablaOK, e

LEMMA InitIInv == Init => IInv
<1> SUFFICES ASSUME Init PROVE IInv
  OBVIOUS
<1>1. Capacidad \in Nat \ {0}
  BY TablaHashAssumption
<1> QED
  BY <1>1, VaciasFacts DEF Init, IInv, Copiando

(* A table no more than 70% full has room. *)
LEMMA TieneLugar ==
    ASSUME NEW e, NEW cap, NEW num, TablaOK(e, cap, num), NEW k \in Key
    PROVE  /\ Cabe(e, cap, k)
           /\ num \in Nat /\ num < cap
<1>1. cap \in Nat \ {0} /\ num \in Nat
  BY LlenasFinito DEF TablaOK
<1>2. num < cap
  BY <1>1 DEF TablaOK
<1> QED
  BY <1>1, <1>2, HayLugar DEF TablaOK

(* What a call to tablahash_insertar does to the elements. *)
LEMMA InsertarStep ==
    ASSUME IInv, NEW d \in Dato, tablahash_insertar(d)
    PROVE  /\ IInv'
           /\ ~Copiando
           /\ LET E == {x \in Elementos(elems, capacidad) : x.key # d.key} \cup {d}
              IN  \/ ~Copiando' /\ Elementos(elems', capacidad') = E
                  \/ /\ Copiando' /\ idx' = 0 /\ capacidad' \div 2 = capacidad
                     /\ Elementos(elems', capacidad') = {}
                     /\ Elementos(arr', capacidad) = E
<1> DEFINE e == th_insertar(elems, capacidad, d)
           u == Nuevos(elems, capacidad, d.key)
           n == numElems + u
           crece == n # numElems /\ Excedida(n, capacidad)
           E == {x \in Elementos(elems, capacidad) : x.key # d.key} \cup {d}
<1>1. /\ TablaOK(elems, capacidad, numElems) /\ capacidad \in Nat \ {0}
      /\ Casillas(elems, capacidad) /\ Alcanza(elems, capacidad)
      /\ numElems = Cardinality(Llenas(elems, capacidad))
      /\ 10 * numElems <= 7 * capacidad
  BY DEF IInv, TablaOK
<1>2. d.key \in Key
  BY CasillaFacts
<1>3. Cabe(elems, capacidad, d.key) /\ numElems \in Nat
  BY <1>1, <1>2, TieneLugar
<1>4. Insertada(elems, e, capacidad, d)
  BY <1>1, <1>3, InsertaFacts
<1>5. /\ Casillas(e, capacidad) /\ Alcanza(e, capacidad)
      /\ Cardinality(Llenas(e, capacidad)) = n
      /\ u \in {0, 1} /\ Elementos(e, capacidad) = E
  BY <1>1, <1>4 DEF Insertada
<1>6. /\ ~Copiando /\ ret' = {}
      /\ \/ /\ ~crece /\ elems' = e /\ numElems' = n
            /\ UNCHANGED <<capacidad, arr, idx>>
         \/ /\ crece /\ capacidad' = 2 * capacidad
            /\ elems' = Vacias(2 * capacidad)
            /\ numElems' = 0 /\ arr' = e /\ idx' = 0
  BY DEF tablahash_insertar
<1> HIDE DEF e, u
<1>7. CASE ~crece
  <2>1. /\ elems' = e /\ numElems' = n /\ UNCHANGED <<capacidad, arr, idx>>
    BY <1>6, <1>7
  <2>2. 10 * n <= 7 * capacidad
    BY <1>1, <1>3, <1>5, <1>7 DEF Excedida
  <2>3. TablaOK(e, capacidad, n)
    BY <1>1, <1>5, <2>2 DEF TablaOK
  <2>4. ~Copiando'
    BY <1>6, <2>1 DEF Copiando
  <2>5. IInv'
    BY <1>6, <2>1, <2>3, <2>4 DEF IInv
  <2> QED
    BY <1>5, <1>6, <2>1, <2>4, <2>5
<1>8. CASE crece
  <2> DEFINE c == 2 * capacidad
  <2>1. /\ capacidad' = c /\ elems' = Vacias(c)
        /\ numElems' = 0 /\ arr' = e /\ idx' = 0
    BY <1>6, <1>8
  <2>2. c \in Nat \ {0} /\ c \div 2 = capacidad
    BY <1>1
  <2> HIDE DEF c
  <2>3. TablaOK(Vacias(c), c, 0) /\ Llenas(Vacias(c), c) = {}
    BY <2>2, VaciasFacts
  <2>4. Copiando'
    <3>1. DOMAIN e = 0 .. (capacidad - 1) /\ 0 \in 0 .. (capacidad - 1)
      BY <1>1, <1>5 DEF Casillas
    <3>2. DOMAIN << >> = {}
      OBVIOUS
    <3> QED
      BY <2>1, <3>1, <3>2 DEF Copiando
  <2>5. CopiaOK(Vacias(c), c, 0, e, 0)
    BY <1>1, <1>5, <2>2, <2>3 DEF CopiaOK, Distintas, c
  <2>6. IInv'
    BY <1>6, <2>1, <2>3, <2>5 DEF IInv
  <2>7. Elementos(elems', capacidad') = {}
    BY <2>1, <2>3 DEF Elementos
  <2> QED
    BY <1>5, <1>6, <2>1, <2>2, <2>4, <2>6, <2>7
<1> QED
  BY <1>7, <1>8

(* The elements of the old array whose turn has not come. *)
Restantes(a, n, i) == {a[p].dato : p \in {q \in Llenas(a, n) : q >= i}}

(* One turn of th_redimensionar moves one element, or ends the copy. *)
LEMMA CopiarStep ==
    ASSUME IInv, th_redimensionar
    PROVE  /\ IInv'
           /\ Copiando
           /\ capacidad' = capacidad
           /\ LET n == capacidad \div 2
                  R == IF Copiando' THEN Restantes(arr', n, idx') ELSE {}
              IN  Elementos(elems', capacidad') \cup R
                    = Elementos(elems, capacidad) \cup Restantes(arr, n, idx)
<1> DEFINE n == capacidad \div 2
<1>1. /\ TablaOK(elems, capacidad, numElems) /\ capacidad \in Nat \ {0}
      /\ Casillas(elems, capacidad) /\ Alcanza(elems, capacidad)
      /\ numElems = Cardinality(Llenas(elems, capacidad))
      /\ 10 * numElems <= 7 * capacidad /\ ret \subseteq Dato
  BY DEF IInv, TablaOK
<1>2. Copiando /\ capacidad' = capacidad /\ ret' = ret
  BY DEF th_redimensionar
<1>3. /\ n \in Nat \ {0} /\ capacidad = 2 * n /\ Casillas(arr, n) /\ Alcanza(arr, n)
      /\ idx \in 0 .. n /\ numElems <= idx
      /\ Distintas(elems, capacidad, arr, n, idx)
  BY <1>2 DEF IInv, CopiaOK
<1> HIDE DEF n
<1>4. UltimaCasilla(arr) = n
  <2>1. DOMAIN arr = 0 .. (n - 1)
    BY <1>3 DEF Casillas
  <2> QED
    BY <1>3, <2>1, FS_Interval DEF UltimaCasilla
<1>5. numElems \in Nat
  BY <1>1, LlenasFinito
<1>6. CASE idx = n
  <2>1. arr' = << >> /\ idx' = 0 /\ UNCHANGED <<elems, numElems>>
    BY <1>3, <1>4, <1>6 DEF th_redimensionar
  <2>2. ~Copiando'
    BY <2>1 DEF Copiando
  <2>3. IInv'
    BY <1>1, <1>2, <2>1, <2>2 DEF IInv
  <2>4. Restantes(arr, n, idx) = {}
    BY <1>3, <1>6 DEF Restantes, Llenas
  <2> QED
    BY <1>2, <2>1, <2>2, <2>3, <2>4 DEF n
<1>7. CASE idx < n /\ ~Ocupada(arr[idx])
  <2>1. arr' = arr /\ idx' = idx + 1 /\ UNCHANGED <<elems, numElems>>
    BY <1>3, <1>4, <1>7 DEF th_redimensionar
  <2>2. Copiando' /\ idx' \in 0 .. n /\ idx' \in Nat
    BY <1>2, <1>3, <1>7, <2>1 DEF Copiando
  <2>3. \A p \in Llenas(arr, n) : p >= idx <=> p >= idx + 1
    BY <1>3, <1>7 DEF Llenas
  <2>4. Restantes(arr, n, idx + 1) = Restantes(arr, n, idx)
    BY <2>3 DEF Restantes
  <2>5. Distintas(elems, capacidad, arr, n, idx + 1)
    BY <1>3, <2>3 DEF Distintas
  <2>6. CopiaOK(elems, capacidad, numElems, arr, idx + 1)
    BY <1>3, <1>5, <2>1, <2>2, <2>5 DEF CopiaOK, n
  <2>7. IInv'
    BY <1>1, <1>2, <2>1, <2>2, <2>6 DEF IInv
  <2> QED
    BY <1>2, <2>1, <2>2, <2>4, <2>7 DEF n
<1>8. CASE idx < n /\ Ocupada(arr[idx])
  <2> DEFINE d == arr[idx].dato
             k == d.key
             e == th_insertar(elems, capacidad, d)
             u == Nuevos(elems, capacidad, k)
  <2>1. /\ arr' = arr /\ idx' = idx + 1
        /\ elems' = e /\ numElems' = numElems + u
    BY <1>3, <1>4, <1>8 DEF th_redimensionar
  <2>2. Copiando' /\ idx' \in 0 .. n /\ idx' \in Nat
    BY <1>2, <1>3, <1>8, <2>1 DEF Copiando
  <2>3. idx \in Llenas(arr, n)
    BY <1>3, <1>8 DEF Llenas
  <2>4. /\ d \in Dato /\ k \in Key
        /\ \A q \in Llenas(arr, n) : arr[q].dato.key = k => q = idx
    BY <1>3, <2>3, Unicas
  <2>5. Cabe(elems, capacidad, k)
    BY <1>1, <2>4, TieneLugar
  <2>6. Insertada(elems, e, capacidad, d)
    BY <1>1, <2>4, <2>5, InsertaFacts
  <2> HIDE DEF e
  <2>7. /\ Casillas(e, capacidad) /\ Alcanza(e, capacidad)
        /\ Cardinality(Llenas(e, capacidad)) = numElems + u
        /\ u \in {0, 1}
        /\ Elementos(e, capacidad)
             = {x \in Elementos(elems, capacidad) : x.key # k} \cup {d}
    BY <1>1, <2>6 DEF Insertada
  <2> HIDE DEF u
  <2>8. \A x \in Elementos(elems, capacidad) : x.key # k
    BY <1>3, <2>3 DEF Distintas, Elementos
  <2>9. Elementos(e, capacidad) = Elementos(elems, capacidad) \cup {d}
    BY <2>7, <2>8
  <2>10. TablaOK(e, capacidad, numElems + u)
    <3>1. 10 * (numElems + u) <= 7 * capacidad
      BY <1>3, <1>5, <1>8, <2>7
    <3> QED
      BY <1>1, <2>7, <3>1 DEF TablaOK
  <2>11. Distintas(e, capacidad, arr, n, idx + 1)
    <3> SUFFICES ASSUME NEW p \in Llenas(arr, n), p >= idx + 1,
                        NEW x \in Llenas(e, capacidad)
                 PROVE  e[x].dato.key # arr[p].dato.key
      BY DEF Distintas
    <3>1. p # idx /\ p >= idx
      BY <1>3 DEF Llenas
    <3>2. arr[p].dato.key # k
      BY <2>4, <3>1
    <3>3. e[x].dato \in Elementos(elems, capacidad) \cup {d}
      BY <2>9 DEF Elementos
    <3>4. \A y \in Elementos(elems, capacidad) : y.key # arr[p].dato.key
      BY <1>3, <3>1 DEF Distintas, Elementos
    <3> QED
      BY <3>2, <3>3, <3>4
  <2>12. CopiaOK(e, capacidad, numElems + u, arr, idx + 1)
    BY <1>3, <1>5, <2>1, <2>2, <2>7, <2>11 DEF CopiaOK, n
  <2>13. IInv'
    BY <1>1, <1>2, <2>1, <2>2, <2>10, <2>12 DEF IInv
  <2>14. Restantes(arr, n, idx) = Restantes(arr, n, idx + 1) \cup {d}
    <3>1. \A q \in Llenas(arr, n) : q >= idx <=> q >= idx + 1 \/ q = idx
      BY <1>3 DEF Llenas
    <3>2. idx >= idx
      BY <1>3
    <3> QED
      BY <2>3, <3>1, <3>2 DEF Restantes
  <2>15. Elementos(e, capacidad) \cup Restantes(arr, n, idx + 1)
           = Elementos(elems, capacidad) \cup Restantes(arr, n, idx)
    BY <2>9, <2>14
  <2> HIDE DEF d, k
  <2> QED
    BY <1>2, <2>1, <2>2, <2>13, <2>15 DEF n
<1> QED
  BY <1>3, <1>6, <1>7, <1>8

LEMMA EliminarStep ==
    ASSUME IInv, NEW k \in Key, tablahash_eliminar(k)
    PROVE  /\ IInv'
           /\ ~Copiando /\ ~Copiando'
           /\ Elementos(elems', capacidad')
                = {x \in Elementos(elems, capacidad) : x.key # k}
<1>1. /\ TablaOK(elems, capacidad, numElems) /\ capacidad \in Nat \ {0}
      /\ Casillas(elems, capacidad) /\ Alcanza(elems, capacidad)
      /\ numElems = Cardinality(Llenas(elems, capacidad))
      /\ 10 * numElems <= 7 * capacidad
  BY DEF IInv, TablaOK
<1>2. /\ ~Copiando /\ ret' = {} /\ UNCHANGED <<capacidad, arr, idx>>
      /\ numElems' = numElems - Quitados(elems, capacidad, k)
      /\ elems' = IF Encontrado(elems, capacidad, k)
                  THEN [elems EXCEPT ![Lugar(elems, capacidad, k)] = CasillaLiberada]
                  ELSE elems
  BY DEF tablahash_eliminar
<1>3. Quitada(elems, elems', capacidad, k)
  BY <1>1, <1>2, EliminaFacts
<1>4. /\ Casillas(elems', capacidad) /\ Alcanza(elems', capacidad)
      /\ Cardinality(Llenas(elems', capacidad)) = numElems'
      /\ Quitados(elems, capacidad, k) \in {0, 1}
      /\ Elementos(elems', capacidad)
           = {x \in Elementos(elems, capacidad) : x.key # k}
  BY <1>1, <1>2, <1>3 DEF Quitada
<1>5. numElems \in Nat
  BY <1>1, LlenasFinito
<1>6. 10 * numElems' <= 7 * capacidad
  BY <1>1, <1>2, <1>4, <1>5
<1>7. TablaOK(elems', capacidad', numElems')
  BY <1>1, <1>2, <1>4, <1>6 DEF TablaOK
<1>8. ~Copiando'
  BY <1>2 DEF Copiando
<1> QED
  BY <1>2, <1>4, <1>7, <1>8 DEF IInv

LEMMA LeerStep ==
    ASSUME IInv, \/ \E k \in Key : tablahash_buscar(k)
                 \/ tablahash_visitar
    PROVE  IInv' /\ ~Copiando
<1>1. ~Copiando /\ UNCHANGED tabla
  BY DEF tablahash_buscar, tablahash_visitar
<1>2. /\ capacidad \in Nat \ {0} /\ Casillas(elems, capacidad)
      /\ Alcanza(elems, capacidad)
  BY DEF IInv, TablaOK
<1>3. Elementos(elems, capacidad) \subseteq Dato
  BY <1>2, Unicas DEF Elementos
<1>4. ret' \subseteq Dato
  <2>1. ASSUME NEW k \in Key, tablahash_buscar(k) PROVE ret' \subseteq Dato
    BY <1>2, <1>3, <2>1, BuscaFacts DEF tablahash_buscar
  <2>2. CASE tablahash_visitar
    <3>1. DOMAIN elems = 0 .. (capacidad - 1)
      BY <1>2 DEF Casillas
    <3>2. ret' = Elementos(elems, capacidad)
      BY <2>2, <3>1 DEF tablahash_visitar, Datos, Elementos, Llenas
    <3> QED
      BY <1>3, <3>2
  <2> QED
    BY <2>1, <2>2
<1> QED
  BY <1>1, <1>4 DEF IInv, tabla, Copiando

LEMMA NextIInv == IInv /\ [Next]_vars => IInv'
<1> SUFFICES ASSUME IInv, [Next]_vars PROVE IInv'
  OBVIOUS
<1>1. ASSUME NEW d \in Dato, tablahash_insertar(d) PROVE IInv'
  BY <1>1, InsertarStep
<1>2. CASE th_redimensionar
  BY <1>2, CopiarStep
<1>3. ASSUME NEW k \in Key, tablahash_eliminar(k) PROVE IInv'
  BY <1>3, EliminarStep
<1>4. CASE (\E k \in Key : tablahash_buscar(k)) \/ tablahash_visitar
  BY <1>4, LeerStep
<1>5. CASE UNCHANGED vars
  BY <1>5 DEF vars, tabla, IInv, Copiando
<1> QED
  BY <1>1, <1>2, <1>3, <1>4, <1>5 DEF Next

LEMMA AlwaysIInv == Spec => []IInv
BY InitIInv, NextIInv, PTL DEF Spec

(* The array always has capacidad slots, none of them both deleted and     *)
(* occupied, and the index of th_redimensionar stays inside the old array. *)
THEOREM TypeCorrect == Spec => []TypeOK
<1>1. IInv => TypeOK
  <2> SUFFICES ASSUME IInv PROVE TypeOK
    OBVIOUS
  <2>1. /\ capacidad \in Nat \ {0} /\ Casillas(elems, capacidad)
        /\ numElems = Cardinality(Llenas(elems, capacidad))
    BY DEF IInv, TablaOK
  <2>2. numElems \in 0 .. capacidad
    BY <2>1, LlenasFinito
  <2>3. DOMAIN elems = 0 .. (capacidad - 1)
    BY <2>1 DEF Casillas
  <2> QED
    BY <2>1, <2>2, <2>3 DEF TypeOK, IInv, Casillas, CopiaOK
<1> QED
  BY <1>1, AlwaysIInv, PTL

(* numElems counts the occupied slots exactly, for every hash function:    *)
(* overwriting, the reuse of deleted slots and the copies never let it     *)
(* drift.                                                                  *)
THEOREM CountIsExact == Spec => []CuentaExacta
<1>1. IInv => CuentaExacta
  <2> SUFFICES ASSUME IInv PROVE CuentaExacta
    OBVIOUS
  <2>1. DOMAIN elems = 0 .. (capacidad - 1)
        /\ numElems = Cardinality(Llenas(elems, capacidad))
    BY DEF IInv, TablaOK, Casillas
  <2> QED
    BY <2>1 DEF CuentaExacta, Llenas
<1> QED
  BY <1>1, AlwaysIInv, PTL

(* The load stays within 70%, in the middle of a copy too: every cluster   *)
(* has an end and th_redimensionar never calls itself.                     *)
THEOREM LoadIsBounded == Spec => []CargaAcotada
<1>1. IInv => CargaAcotada
  BY DEF IInv, TablaOK, CargaAcotada
<1> QED
  BY <1>1, AlwaysIInv, PTL

(* Linear probing loses nothing: whatever the hash function, every stored  *)
(* element is where the search for its key ends.                           *)
THEOREM EveryElementIsReachable == Spec => []TodoAlcanzable
<1>1. IInv => TodoAlcanzable
  <2> SUFFICES ASSUME IInv, NEW i \in DOMAIN elems, Ocupada(elems[i])
               PROVE  i = Lugar(elems, capacidad, elems[i].dato.key)
    BY DEF TodoAlcanzable
  <2>1. /\ capacidad \in Nat \ {0} /\ Casillas(elems, capacidad)
        /\ Alcanza(elems, capacidad)
    BY DEF IInv, TablaOK
  <2>2. i \in Llenas(elems, capacidad)
    BY <2>1 DEF Casillas, Llenas
  <2> QED
    BY <2>1, <2>2, Unicas
<1> QED
  BY <1>1, AlwaysIInv, PTL

----------------------------------------------------------------------------
(* The contents of the abstract dictionary, from the arrays. *)
ContenidoEs ==
    /\ ~Copiando => Contenido = Elementos(elems, capacidad)
    /\ Copiando => Contenido = Elementos(elems, capacidad)
                     \cup Restantes(arr, capacidad \div 2, idx)

LEMMA ContenidoFacts == IInv => ContenidoEs
<1> SUFFICES ASSUME IInv PROVE ContenidoEs
  OBVIOUS
<1>1. DOMAIN elems = 0 .. (capacidad - 1)
  BY DEF IInv, TablaOK, Casillas
<1>2. Datos(elems, DOMAIN elems) = Elementos(elems, capacidad)
  BY <1>1 DEF Datos, Elementos, Llenas
<1>3. ASSUME Copiando
      PROVE  Datos(arr, {i \in DOMAIN arr : i >= idx})
               = Restantes(arr, capacidad \div 2, idx)
  <2>1. DOMAIN arr = 0 .. (capacidad \div 2 - 1)
    BY <1>3 DEF IInv, CopiaOK, Casillas
  <2> QED
    BY <2>1 DEF Datos, Restantes, Llenas
<1> QED
  BY <1>2, <1>3 DEF Contenido, ContenidoEs

(* The table implements the dictionary of tablahash.h for every hash       *)
(* function and capacity: a search finds the last element inserted under   *)
(* its key and not deleted since, a visit reaches exactly the elements     *)
(* stored, and a copy changes nothing its user can see.                    *)
THEOREM Refinement == Spec => EsDiccionario
<1> DEFINE avars == <<Contenido, op, ret>>
<1>1. Init => Abstracta!Init
  <2> SUFFICES ASSUME Init PROVE Contenido = {}
    BY DEF Abstracta!Init, Init
  <2>1. IInv /\ ~Copiando /\ elems = Vacias(Capacidad) /\ capacidad = Capacidad
    BY InitIInv DEF Init, Copiando
  <2>2. Llenas(elems, capacidad) = {}
    BY <2>1, VaciasFacts, TablaHashAssumption
  <2> QED
    BY <2>1, <2>2, ContenidoFacts DEF Elementos, ContenidoEs
<1>2. IInv' => ContenidoEs'
  BY ContenidoFacts, PTL
<1>3. ASSUME IInv, IInv', [Next]_vars
      PROVE  [Abstracta!Next]_avars
  <2>1. ASSUME NEW d \in Dato, tablahash_insertar(d)
        PROVE  Abstracta!Next
    <3> DEFINE E == {x \in Elementos(elems, capacidad) : x.key # d.key} \cup {d}
    <3>1. /\ ~Copiando
          /\ \/ ~Copiando' /\ Elementos(elems', capacidad') = E
             \/ /\ Copiando' /\ idx' = 0 /\ capacidad' \div 2 = capacidad
                /\ Elementos(elems', capacidad') = {}
                /\ Elementos(arr', capacidad) = E
      BY <1>3, <2>1, InsertarStep
    <3>2. Restantes(arr', capacidad, 0) = Elementos(arr', capacidad)
      BY DEF Restantes, Elementos, Llenas
    <3>3. Contenido' = E
      BY <1>2, <1>3, <3>1, <3>2 DEF ContenidoEs
    <3>4. Contenido = Elementos(elems, capacidad)
      BY <1>3, <3>1, ContenidoFacts DEF ContenidoEs
    <3>5. op' = <<"insertar", d>> /\ ret' = {}
      BY <2>1 DEF tablahash_insertar
    <3>6. Abstracta!insertar(d)
      BY <3>3, <3>4, <3>5 DEF Abstracta!insertar
    <3> QED
      BY <3>6 DEF Abstracta!Next, Abstracta!Dato, Dato
  <2>2. ASSUME th_redimensionar
        PROVE  UNCHANGED avars
    <3>1. Contenido' = Contenido
      BY <1>2, <1>3, <2>2, CopiarStep, ContenidoFacts DEF ContenidoEs
    <3> QED
      BY <2>2, <3>1 DEF th_redimensionar
  <2>3. ASSUME NEW k \in Key, tablahash_eliminar(k)
        PROVE  Abstracta!Next
    <3>1. /\ ~Copiando /\ ~Copiando'
          /\ Elementos(elems', capacidad')
               = {x \in Elementos(elems, capacidad) : x.key # k}
      BY <1>3, <2>3, EliminarStep
    <3>2. Contenido' = {x \in Contenido : x.key # k}
      BY <1>2, <1>3, <3>1, ContenidoFacts DEF ContenidoEs
    <3>3. Abstracta!eliminar(k)
      BY <2>3, <3>2 DEF tablahash_eliminar, Abstracta!eliminar
    <3> QED
      BY <3>3 DEF Abstracta!Next
  <2>4. ASSUME NEW k \in Key, tablahash_buscar(k)
        PROVE  Abstracta!Next
    <3>1. ~Copiando /\ UNCHANGED tabla
      BY <2>4 DEF tablahash_buscar
    <3>2. Contenido = Elementos(elems, capacidad) /\ Contenido' = Contenido
      BY <1>3, <3>1, ContenidoFacts
         DEF ContenidoEs, Contenido, Datos, Copiando, tabla
    <3>3. ret' = {x \in Contenido : x.key = k}
      BY <1>3, <2>4, <3>2, BuscaFacts DEF tablahash_buscar, IInv, TablaOK
    <3>4. Abstracta!buscar(k)
      BY <2>4, <3>2, <3>3 DEF tablahash_buscar, Abstracta!buscar
    <3> QED
      BY <3>4 DEF Abstracta!Next
  <2>5. ASSUME tablahash_visitar
        PROVE  Abstracta!Next
    <3>1. ~Copiando /\ UNCHANGED tabla
      BY <2>5 DEF tablahash_visitar
    <3>2. Contenido' = Contenido /\ Contenido = Datos(elems, DOMAIN elems)
      BY <3>1 DEF Contenido, Datos, Copiando, tabla
    <3>3. Abstracta!visitar
      BY <2>5, <3>2 DEF tablahash_visitar, Abstracta!visitar
    <3> QED
      BY <3>3 DEF Abstracta!Next
  <2>6. ASSUME UNCHANGED vars
        PROVE  UNCHANGED avars
    BY <2>6 DEF vars, tabla, Contenido, Datos, Copiando
  <2> QED
    BY <1>3, <2>1, <2>2, <2>3, <2>4, <2>5, <2>6 DEF Next
<1> QED
  BY <1>1, <1>3, AlwaysIInv, PTL DEF Spec, EsDiccionario, Abstracta!Spec
=============================================================================
