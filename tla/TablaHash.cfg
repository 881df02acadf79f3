CONSTANTS
    k1 = k1
    k2 = k2
    k3 = k3
    k4 = k4
    k5 = k5
    Key = {k1, k2, k3, k4, k5}
    Val = {1, 2}
    NULL = NULL
    hash <- MCHash
    Capacidad = 3
SPECIFICATION Spec
INVARIANTS
    TypeOK
    CuentaExacta
    CargaAcotada
    TodoAlcanzable
PROPERTIES
    EsDiccionario
