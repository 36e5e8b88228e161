SPECIFICATION Spec
CONSTANTS
    Units = {u1, u2}
    Estados = {disponible, vendido}
    Ops = {o1, o2}
    SinPrecio = SinPrecio
    Invalido = Invalido
    MaxPrecio = 1
    Ajustes <- MCAjustes
SYMMETRY Symmetry
CHECK_DEADLOCK FALSE
INVARIANTS TypeOK
PROPERTIES AuditEveryChange ConfirmedIsApplied ImportLeavesFile AllOrNothing
