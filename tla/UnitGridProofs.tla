--------------------------- MODULE UnitGridProofs ---------------------------
(***************************************************************************)
(* Proofs about UnitGrid: types and price bounds; an audit row for every   *)
(* change; what was confirmed is what is written; an import leaves the     *)
(* grid as the file says; an invalid row stops everything.                 *)
(***************************************************************************)
EXTENDS UnitGrid, FiniteSetTheorems, SequenceTheorems, TLAPS

-----------------------------------------------------------------------------
(* Changes, and the two pure modules that compute them.                    *)

\* What a cell of a column may hold.
Valor(campo) == IF campo = "estado" THEN Estados ELSE Precio

LEMMA Columns ==
    /\ Campos = {"financiado", "contado", "estado"}
    /\ \A f \in Fila, campo \in Campos : f[campo] \in Valor(campo)
    /\ \A campo \in Campos : Invalido \notin Valor(campo)
    /\ \A lista \in Listas : lista \in Campos /\ Valor(lista) = Precio
    /\ \A campo \in Campos : Orden[campo] \in Int
  BY GridAssumption DEF Campos, Listas, Fila, Valor, Precio, Orden, GridAssumption

LEMMA CellPair ==
    /\ \A x \in Cells : x[1] \in Units /\ x[2] \in Campos /\ x = <<x[1], x[2]>>
    /\ \A u \in Units, campo \in Campos : <<u, campo>> \in Cells
  BY DEF Cells

LEMMA FilaOf ==
    ASSUME NEW f \in [Campos -> Precio \cup Estados],
           \A campo \in Campos : f[campo] \in Valor(campo)
    PROVE  f \in Fila
  BY DEF Campos, Listas, Fila, Valor

LEMMA ChangeType ==
    ASSUME NEW turno \in Int, NEW u \in Units, NEW campo \in Campos,
           NEW valor \in Valor(campo)
    PROVE  /\ Change(turno, u, campo, valor) \in Cambio
           /\ Change(turno, u, campo, valor).cell = <<u, campo>>
           /\ Change(turno, u, campo, valor).valor = valor
  <1>1. valor \in Precio \cup Estados
    BY DEF Valor
  <1>2. <<u, campo>>[2] = campo
    OBVIOUS
  <1>3. QED
    BY <1>1, <1>2, CellPair DEF Change, Cambio, Valor

LEMMA CambioCell ==
    ASSUME NEW c \in Cambio
    PROVE  c.cell \in Cells /\ c.valor \in Valor(c.cell[2])
  BY DEF Cambio, Valor

LEMMA ValidRow ==
    ASSUME NEW row \in Row, Valida(row)
    PROVE  row.unit \in Units /\ \A campo \in Campos : row[campo] \in Valor(campo)
  BY DEF Row, Valida, Campos, Listas, Valor

\* A change of a dry run is one of a valid row, to a cell that differs.
LEMMA DryRunChanges ==
    ASSUME NEW file, NEW leido, NEW c
    PROVE  c \in buildDryRun(file, leido).cambios <=>
             \E i \in DOMAIN file, campo \in Campos :
               /\ Valida(file[i]) /\ leido[file[i].unit][campo] # file[i][campo]
               /\ c = Change(3 * i + Orden[campo], file[i].unit, campo, file[i][campo])
  BY DEF buildDryRun, RowChanges

LEMMA DryRunType ==
    ASSUME NEW file \in Seq(Row), NEW leido
    PROVE  buildDryRun(file, leido).cambios \subseteq Cambio
  <1> SUFFICES ASSUME NEW i \in DOMAIN file, NEW campo \in Campos, Valida(file[i])
               PROVE  Change(3 * i + Orden[campo], file[i].unit, campo, file[i][campo])
                        \in Cambio
    BY DryRunChanges
  <1>1. i \in Int /\ file[i] \in Row
    BY LenProperties, ElementOfSeq
  <1>2. 3 * i + Orden[campo] \in Int
    BY <1>1, Columns
  <1>3. QED
    BY <1>1, <1>2, ValidRow, ChangeType

\* A change of a bulk preview is of a selected unit, to a price.
LEMMA BulkChanges ==
    ASSUME NEW sel, NEW lista, NEW a, NEW leido, NEW c
    PROVE  c \in computeBulkPreview(sel, lista, a, leido).cambios <=>
             \E u \in sel :
               /\ BulkOK(leido[u][lista], a)
               /\ c = Change(0, u, lista, Ajustado(leido[u][lista], a))
  BY DEF computeBulkPreview

LEMMA BulkType ==
    ASSUME NEW sel \in SUBSET Units, NEW lista \in Listas, NEW a, NEW leido
    PROVE  \A c \in computeBulkPreview(sel, lista, a, leido).cambios :
             c \in Cambio /\ c.valor # SinPrecio
  <1> SUFFICES ASSUME NEW u \in sel, BulkOK(leido[u][lista], a)
               PROVE  LET c == Change(0, u, lista, Ajustado(leido[u][lista], a))
                      IN c \in Cambio /\ c.valor # SinPrecio
    BY BulkChanges
  <1> DEFINE p == Ajustado(leido[u][lista], a)
  <1>1. p \in 0..MaxPrecio
    BY DEF BulkOK
  <1> HIDE DEF p
  <1>2. p \in Precio /\ p # SinPrecio
    BY <1>1, GridAssumption DEF Precio, GridAssumption
  <1>3. Change(0, u, lista, p) \in Cambio /\ Change(0, u, lista, p).valor = p
    BY <1>2, Columns, ChangeType
  <1>4. QED
    BY <1>2, <1>3 DEF p

LEMMA PropuestaType ==
    ASSUME NEW op \in Op, NEW g
    PROVE  Propuesta(op, g) \subseteq Cambio
  <1>1. /\ op.file \in Seq(Row) /\ op.sel \in SUBSET Units /\ op.lista \in Listas
    BY DEF Op
  <1>2. CASE op.tipo = "import"
    BY <1>1, <1>2, DryRunType DEF Propuesta
  <1>3. CASE op.tipo # "import"
    BY <1>1, <1>3, BulkType DEF Propuesta
  <1>4. QED
    BY <1>2, <1>3

\* A preview is cell by cell: what it says of one cell depends on no other.
LEMMA PropuestaLocal ==
    ASSUME NEW op \in Op, NEW g, NEW h, NEW x \in Cells,
           g[x[1]][x[2]] = h[x[1]][x[2]]
    PROVE  At(Propuesta(op, g), x) = At(Propuesta(op, h), x)
  <1> DEFINE Local(a, b) == \A c \in Propuesta(op, a) : c.cell = x => c \in Propuesta(op, b)
  <1>1. ASSUME NEW a, NEW b, a[x[1]][x[2]] = b[x[1]][x[2]] PROVE Local(a, b)
    <2> SUFFICES ASSUME NEW c \in Propuesta(op, a), c.cell = x
                 PROVE  c \in Propuesta(op, b)
      OBVIOUS
    <2>1. CASE op.tipo = "import"
      <3>1. PICK i \in DOMAIN op.file, campo \in Campos :
              /\ Valida(op.file[i]) /\ a[op.file[i].unit][campo] # op.file[i][campo]
              /\ c = Change(3 * i + Orden[campo], op.file[i].unit, campo, op.file[i][campo])
        BY <2>1, DryRunChanges DEF Propuesta
      <3>2. x = <<op.file[i].unit, campo>>
        BY <3>1 DEF Change
      <3>3. b[op.file[i].unit][campo] # op.file[i][campo]
        BY <1>1, <3>1, <3>2
      <3>4. QED
        BY <2>1, <3>1, <3>3, DryRunChanges DEF Propuesta
    <2>2. CASE op.tipo # "import"
      <3>1. PICK u \in op.sel :
              /\ BulkOK(a[u][op.lista], op.ajuste)
              /\ c = Change(0, u, op.lista, Ajustado(a[u][op.lista], op.ajuste))
        BY <2>2, BulkChanges DEF Propuesta
      <3>2. x = <<u, op.lista>>
        BY <3>1 DEF Change
      <3>3. a[u][op.lista] = b[u][op.lista]
        BY <1>1, <3>2
      <3>4. QED
        BY <2>2, <3>1, <3>3, BulkChanges DEF Propuesta
    <2>3. QED
      BY <2>1, <2>2
  <1>2. Local(g, h) /\ Local(h, g)
    BY <1>1
  <1>3. QED
    BY <1>2 DEF At

\* readGrid: the prices of now, the estados read before.
LEMMA GridRead ==
    ASSUME TypeOK, NEW leido \in [Units -> Estados]
    PROVE  /\ WithPrices(leido) \in [Units -> Fila]
           /\ \A u \in Units, campo \in Campos : WithPrices(leido)[u][campo] =
                IF campo = "estado" THEN leido[u] ELSE grid[u][campo]
  <1>1. ASSUME NEW u \in Units
        PROVE  /\ [grid[u] EXCEPT !.estado = leido[u]] \in Fila
               /\ \A campo \in Campos : [grid[u] EXCEPT !.estado = leido[u]][campo] =
                    IF campo = "estado" THEN leido[u] ELSE grid[u][campo]
    BY <1>1 DEF TypeOK, Fila, Campos, Listas
  <1>2. QED
    BY <1>1 DEF WithPrices

-----------------------------------------------------------------------------
(* Steps that only move one operator.                                      *)

LEMMA OneOp ==
    ASSUME GridInv, NEW o \in Ops, NEW op \in Op,
           ops' = [ops EXCEPT ![o] = op], UNCHANGED <<grid, events>>,
           movidas' \in [Ops -> SUBSET Cells],
           \A p \in Ops : p # o => movidas'[p] = movidas[p],
           PhaseInv(op), ReadInv(op, grid, movidas'[o]), WriteInv(op, movidas'[o]),
           EventInv(op)
    PROVE  GridInv'
  <1>1. ops' \in [Ops -> Op] /\ ops'[o] = op
        /\ \A p \in Ops : p # o => ops'[p] = ops[p]
    BY DEF GridInv, TypeOK
  <1>2. TypeOK'
    BY <1>1 DEF GridInv, TypeOK
  <1>3. ASSUME NEW p \in Ops
        PROVE  /\ PhaseInv(ops'[p]) /\ ReadInv(ops'[p], grid', movidas'[p])
               /\ WriteInv(ops'[p], movidas'[p]) /\ EventInv(ops'[p])
    <2>1. CASE p = o
      BY <1>1, <2>1
    <2>2. CASE p # o
      BY <1>1, <2>2 DEF GridInv
    <2>3. QED
      BY <2>1, <2>2
  <1>4. QED
    BY <1>2, <1>3 DEF GridInv

LEMMA NothingWritten ==
    ASSUME NEW op \in Op, op.escritas = {}
    PROVE  EventInv(op)
  <1>1. \A u \in Units : Escritos(op, u) = {}
    BY DEF At, Escritos
  <1>2. \A u \in Units : op.audit[u] \in Nat
    BY DEF Op
  <1>3. QED
    BY <1>1, <1>2, FS_EmptySet DEF EventInv

LEMMA IdleType == IdleOp \in Op
  <1>1. <<>> \in Seq(Row)
    BY EmptySeq
  <1>2. QED
    BY <1>1, SMT DEF IdleOp, Op, Listas

\* An operator that stopped holds nothing.
LEMMA EndedInv ==
    ASSUME GridInv, NEW o \in Ops, NEW pc \in {"done", "error"}, Ended(o, pc),
           UNCHANGED <<grid, events>>, movidas' \in [Ops -> SUBSET Cells],
           \A p \in Ops : p # o => movidas'[p] = movidas[p]
    PROVE  GridInv'
  <1> DEFINE op == [IdleOp EXCEPT !.pc = pc]
  <1>1. op \in Op
    BY IdleType DEF Op
  <1>2. /\ op.pc = pc /\ op.tipo = "none" /\ op.file = <<>>
        /\ op.pendientes = {} /\ op.escritas = {}
    BY DEF IdleOp
  <1>3. ops' = [ops EXCEPT ![o] = op]
    BY DEF Ended
  <1> HIDE DEF op
  <1>4. PhaseInv(op) /\ ReadInv(op, grid, movidas'[o]) /\ WriteInv(op, movidas'[o])
    BY <1>2 DEF PhaseInv, ReadInv, WriteInv
  <1>5. QED
    BY <1>1, <1>2, <1>3, <1>4, NothingWritten, OneOp

-----------------------------------------------------------------------------
(* The Excel round trip.                                                   *)

LEMMA OpOf ==
    ASSUME GridInv, NEW o \in Ops
    PROVE  /\ ops[o] \in Op /\ movidas[o] \in SUBSET Cells
           /\ PhaseInv(ops[o]) /\ ReadInv(ops[o], grid, movidas[o])
           /\ WriteInv(ops[o], movidas[o]) /\ EventInv(ops[o])
           /\ grid \in [Units -> Fila] /\ events \in [Units -> Nat]
           /\ movidas \in [Ops -> SUBSET Cells]
           /\ ops[o].pc = "idle" => ops[o] = IdleOp
  BY DEF GridInv, TypeOK, PhaseInv

LEMMA EstadosType ==
    ASSUME NEW g \in [Units -> Fila]
    PROVE  /\ EstadosOf(g) \in [Units -> Estados]
           /\ \A u \in Units : EstadosOf(g)[u] = g[u].estado
  BY DEF EstadosOf, Fila

LEMMA ExportUnitsInv ==
    ASSUME GridInv, NEW o \in Ops, ExportUnits(o)
    PROVE  GridInv'
  <1> DEFINE e == EstadosOf(grid)
             op == [ops[o] EXCEPT !.pc = "export", !.tipo = "import", !.leido = e]
  <1>1. ops[o] = IdleOp /\ ops[o] \in Op
    BY OpOf DEF ExportUnits
  <1>2. e \in [Units -> Estados]
    BY OpOf, EstadosType
  <1>3. ops' = [ops EXCEPT ![o] = op] /\ UNCHANGED <<grid, events, movidas>>
    BY DEF ExportUnits
  <1> HIDE DEF e
  <1>4. /\ ops[o].pendientes = {} /\ ops[o].escritas = {}
    BY <1>1 DEF IdleOp
  <1>5. /\ op \in Op /\ op.pc = "export" /\ op.tipo = "import" /\ op.leido = e
        /\ op.pendientes = {} /\ op.escritas = {} /\ op.ajuste = ops[o].ajuste
    BY <1>1, <1>2, <1>4 DEF Op
  <1> HIDE DEF op
  <1>6. PhaseInv(op) /\ ReadInv(op, grid, movidas[o]) /\ WriteInv(op, movidas[o])
    BY <1>2, <1>5 DEF PhaseInv, ReadInv, WriteInv
  <1>7. QED
    BY <1>3, <1>5, <1>6, OpOf, NothingWritten, OneOp

LEMMA ExportPricesInv ==
    ASSUME GridInv, NEW o \in Ops, ExportPrices(o)
    PROVE  GridInv'
  <1> DEFINE g == WithPrices(ops[o].leido)
  <1>1. /\ ops[o] \in Op /\ ops[o].pc = "export" /\ ops[o].tipo = "import"
        /\ ops[o].leido \in [Units -> Estados]
        /\ ops[o].pendientes = {} /\ ops[o].escritas = {}
    BY OpOf DEF ExportPrices, PhaseInv
  <1>2. g \in [Units -> Fila]
    BY <1>1, GridRead DEF GridInv
  <1>3. PICK orden \in SetToSeqs(Units) :
         ops' = [ops EXCEPT ![o].pc = "file", ![o].leido = <<>>,
           ![o].file = [i \in DOMAIN orden |->
             [unit |-> orden[i], financiado |-> g[orden[i]].financiado,
              contado |-> g[orden[i]].contado, estado |-> g[orden[i]].estado]]]
    BY DEF ExportPrices
  <1> DEFINE row(i) == [unit |-> orden[i], financiado |-> g[orden[i]].financiado,
                        contado |-> g[orden[i]].contado, estado |-> g[orden[i]].estado]
             file == [i \in DOMAIN orden |-> row(i)]
             op == [ops[o] EXCEPT !.pc = "file", !.leido = <<>>, !.file = file]
  <1>4. orden \in [1..Cardinality(Units) -> Units] /\ Cardinality(Units) \in Nat
    BY GridAssumption, FS_CardinalityType DEF SetToSeqs, GridAssumption
  <1>5. \A i \in DOMAIN orden : row(i) \in Row
    <2> HIDE DEF g
    <2>1. \A u \in Units : /\ g[u].financiado \in Precio /\ g[u].contado \in Precio
                           /\ g[u].estado \in Estados
      BY <1>2 DEF Fila
    <2>2. QED
      BY <1>4, <2>1 DEF Row
  <1>6. file \in Seq(Row)
    <2> HIDE DEF row
    <2>1. file \in [1..Cardinality(Units) -> Row]
      BY <1>4, <1>5
    <2> HIDE DEF file
    <2>2. QED
      BY <1>4, <2>1, IsASeq
  <1>7. ops' = [ops EXCEPT ![o] = op] /\ UNCHANGED <<grid, events, movidas>>
    BY <1>3 DEF ExportPrices
  <1> HIDE DEF file
  <1>8. /\ op \in Op /\ op.pc = "file" /\ op.tipo = "import"
        /\ op.pendientes = {} /\ op.escritas = {} /\ op.ajuste = ops[o].ajuste
    BY <1>1, <1>6 DEF Op
  <1> HIDE DEF op
  <1>9. PhaseInv(op) /\ ReadInv(op, grid, movidas[o]) /\ WriteInv(op, movidas[o])
    BY <1>8 DEF PhaseInv, ReadInv, WriteInv
  <1>10. QED
    BY <1>7, <1>8, <1>9, OpOf, NothingWritten, OneOp

LEMMA EditFileInv ==
    ASSUME GridInv, NEW o \in Ops, NEW i, NEW campo \in {"unit"} \cup Campos,
           NEW valor, EditFile(o, i, campo, valor),
           campo = "unit" => valor \in Units \cup {Invalido},
           campo # "unit" => valor \in Valor(campo) \cup {Invalido}
    PROVE  GridInv'
  <1> DEFINE row == [ops[o].file[i] EXCEPT ![campo] = valor]
             file == [ops[o].file EXCEPT ![i] = row]
             op == [ops[o] EXCEPT !.pc = "edited", !.file = file]
  <1>1. /\ ops[o] \in Op /\ ops[o].pc = "file" /\ ops[o].tipo = "import"
        /\ ops[o].pendientes = {} /\ ops[o].escritas = {}
        /\ ops[o].file \in Seq(Row) /\ i \in DOMAIN ops[o].file
    BY OpOf DEF EditFile, PhaseInv, Op
  <1>2. ops[o].file[i] \in Row /\ i \in 1..Len(ops[o].file)
    BY <1>1, LenProperties, ElementOfSeq
  <1>3. row \in Row
    BY <1>2 DEF Row, Valor, Campos, Listas
  <1>4. file \in Seq(Row)
    BY <1>1, <1>2, <1>3, ExceptSeq
  <1>5. ops' = [ops EXCEPT ![o] = op] /\ UNCHANGED <<grid, events, movidas>>
    BY DEF EditFile
  <1> HIDE DEF file
  <1>6. /\ op \in Op /\ op.pc = "edited" /\ op.tipo = "import"
        /\ op.pendientes = {} /\ op.escritas = {} /\ op.ajuste = ops[o].ajuste
    BY <1>1, <1>4 DEF Op
  <1> HIDE DEF op
  <1>7. PhaseInv(op) /\ ReadInv(op, grid, movidas[o]) /\ WriteInv(op, movidas[o])
    BY <1>6 DEF PhaseInv, ReadInv, WriteInv
  <1>8. QED
    BY <1>5, <1>6, <1>7, OpOf, NothingWritten, OneOp

\* The estados are read first, by the dry run and again by the import.
LEMMA ReadUnitsInv ==
    ASSUME GridInv, NEW o \in Ops, DryRunUnits(o) \/ ImportUnits(o)
    PROVE  GridInv'
  <1> DEFINE e == EstadosOf(grid)
  <1> PICK pc \in {"dry", "apply"} :
         /\ ops' = [ops EXCEPT ![o].pc = pc, ![o].leido = e]
         /\ pc = "dry" => ops[o].pc \in {"file", "edited"} /\ movidas'[o] = {}
         /\ pc = "apply" => /\ ops[o].pc = "shown" /\ ops[o].tipo = "import"
                            /\ movidas' = movidas
    BY OpOf DEF DryRunUnits, ImportUnits
  <1> DEFINE op == [ops[o] EXCEPT !.pc = pc, !.leido = e]
  <1>1. /\ ops[o] \in Op /\ ops[o].tipo = "import"
        /\ ops[o].pendientes = {} /\ ops[o].escritas = {}
    BY OpOf DEF PhaseInv
  <1>2. e \in [Units -> Estados] /\ \A u \in Units : e[u] = grid[u].estado
    BY OpOf, EstadosType
  <1>3. /\ UNCHANGED <<grid, events>> /\ movidas' \in [Ops -> SUBSET Cells]
        /\ \A p \in Ops : p # o => movidas'[p] = movidas[p]
    BY OpOf DEF DryRunUnits, ImportUnits
  <1>4. ops' = [ops EXCEPT ![o] = op]
    OBVIOUS
  <1> HIDE DEF e
  <1>5. /\ op \in Op /\ op.pc = pc /\ op.tipo = "import" /\ op.leido = e
        /\ op.pendientes = {} /\ op.escritas = {}
    BY <1>1, <1>2 DEF Op
  <1> HIDE DEF op
  <1>6. PhaseInv(op) /\ WriteInv(op, movidas'[o])
    BY <1>2, <1>5 DEF PhaseInv, WriteInv
  <1>7. ReadInv(op, grid, movidas'[o])
    <2>1. CASE pc = "dry"
      BY <1>2, <1>5, <2>1 DEF ReadInv
    <2>2. CASE pc = "apply"
      <3>1. \A x \in Cells \ movidas[o] : At(ops[o].informe, x) = At(Propuesta(ops[o], grid), x)
        BY <1>1, <2>2, OpOf DEF ReadInv
      <3>2. op.informe = ops[o].informe /\ op.file = ops[o].file
        BY <1>1 DEF op, Op
      <3>3. Propuesta(op, grid) = Propuesta(ops[o], grid)
        BY <1>1, <1>5, <3>2 DEF Propuesta
      <3>4. QED
        BY <1>2, <1>5, <2>2, <3>1, <3>2, <3>3 DEF ReadInv
    <2>3. QED
      BY <2>1, <2>2
  <1>8. QED
    BY <1>3, <1>4, <1>5, <1>6, <1>7, NothingWritten, OneOp

\* Where no one wrote between its two SELECTs, a dry run sees the grid.
LEMMA ReadPrices ==
    ASSUME GridInv, NEW o \in Ops, ops[o].pc \in {"dry", "apply"}
    PROVE  /\ WithPrices(ops[o].leido) \in [Units -> Fila]
           /\ Propuesta(ops[o], WithPrices(ops[o].leido)) =
                buildDryRun(ops[o].file, WithPrices(ops[o].leido)).cambios
           /\ \A x \in Cells \ movidas[o] :
                At(Propuesta(ops[o], WithPrices(ops[o].leido)), x) =
                  At(Propuesta(ops[o], grid), x)
  <1> DEFINE g == WithPrices(ops[o].leido)
  <1>1. /\ ops[o] \in Op /\ ops[o].tipo = "import"
        /\ ops[o].leido \in [Units -> Estados]
    BY OpOf DEF PhaseInv
  <1>2. /\ g \in [Units -> Fila]
        /\ \A u \in Units, campo \in Campos : g[u][campo] =
             IF campo = "estado" THEN ops[o].leido[u] ELSE grid[u][campo]
    BY <1>1, GridRead DEF GridInv
  <1> HIDE DEF g
  <1>3. ASSUME NEW x \in Cells \ movidas[o] PROVE g[x[1]][x[2]] = grid[x[1]][x[2]]
    <2>1. x[1] \in Units /\ x[2] \in Campos /\ x = <<x[1], x[2]>>
      BY CellPair
    <2>2. CASE x[2] = "estado"
      <3>1. ops[o].leido[x[1]] = grid[x[1]].estado
        BY <2>1, <2>2, OpOf DEF ReadInv
      <3>2. QED
        BY <1>2, <2>1, <2>2, <3>1
    <2>3. QED
      BY <1>2, <2>1, <2>2
  <1>4. \A x \in Cells \ movidas[o] :
          At(Propuesta(ops[o], g), x) = At(Propuesta(ops[o], grid), x)
    BY <1>1, <1>3, PropuestaLocal
  <1>5. QED
    BY <1>1, <1>2, <1>4 DEF g, Propuesta

LEMMA DryRunPricesInv ==
    ASSUME GridInv, NEW o \in Ops, DryRunPrices(o)
    PROVE  GridInv'
  <1> DEFINE informe == buildDryRun(ops[o].file, WithPrices(ops[o].leido)).cambios
             op == [ops[o] EXCEPT !.pc = "shown", !.leido = <<>>, !.informe = informe]
  <1>1. /\ ops[o] \in Op /\ ops[o].pc = "dry" /\ ops[o].tipo = "import"
        /\ ops[o].pendientes = {} /\ ops[o].escritas = {}
    BY OpOf DEF DryRunPrices, PhaseInv
  <1>2. informe \subseteq Cambio
    BY <1>1, DryRunType DEF Op
  <1>3. ops' = [ops EXCEPT ![o] = op] /\ UNCHANGED <<grid, events, movidas>>
    BY DEF DryRunPrices
  <1>4. \A x \in Cells \ movidas[o] : At(informe, x) = At(Propuesta(ops[o], grid), x)
    BY <1>1, ReadPrices
  <1> HIDE DEF informe
  <1>5. /\ op \in Op /\ op.pc = "shown" /\ op.tipo = "import" /\ op.informe = informe
        /\ op.pendientes = {} /\ op.escritas = {} /\ op.file = ops[o].file
    BY <1>1, <1>2 DEF Op
  <1> HIDE DEF op
  <1>6. Propuesta(op, grid) = Propuesta(ops[o], grid)
    BY <1>1, <1>5 DEF Propuesta
  <1>7. PhaseInv(op) /\ ReadInv(op, grid, movidas[o]) /\ WriteInv(op, movidas[o])
    BY <1>4, <1>5, <1>6 DEF PhaseInv, ReadInv, WriteInv
  <1>8. QED
    BY <1>3, <1>5, <1>7, OpOf, NothingWritten, OneOp

\* What was just computed from a fresh look at the grid is what was shown,
\* wherever no one else wrote since.
LEMMA StartWriting ==
    ASSUME GridInv, NEW o \in Ops, ops[o].pc \in {"shown", "apply"},
           ops[o].tipo # "edit", NEW cambios \in SUBSET Cambio,
           \A x \in Cells \ movidas[o] :
             At(cambios, x) = At(Propuesta(ops[o], grid), x),
           \A i \in DOMAIN ops[o].file : Valida(ops[o].file[i]),
           ops[o].tipo = "bulk" =>
             /\ \A c \in cambios : c.valor # SinPrecio
             /\ \A u \in ops[o].sel : At(cambios, <<u, ops[o].lista>>) # {},
           NEW op \in Op, op.pc = "write", op.pendientes = cambios,
           op.escritas = {}, op.tipo = ops[o].tipo, op.file = ops[o].file,
           op.sel = ops[o].sel, op.lista = ops[o].lista,
           op.ajuste = ops[o].ajuste, op.informe = ops[o].informe,
           ops' = [ops EXCEPT ![o] = op], UNCHANGED <<grid, events, movidas>>
    PROVE  GridInv'
  <1>1. \A x \in Cells \ movidas[o] :
          At(ops[o].informe, x) = At(Propuesta(ops[o], grid), x)
    BY OpOf DEF ReadInv
  <1>2. Propuesta(op, grid) = Propuesta(ops[o], grid)
    BY DEF Propuesta
  <1>3. PhaseInv(op)
    BY OpOf DEF PhaseInv
  <1>4. ReadInv(op, grid, movidas[o])
    BY <1>1, <1>2 DEF ReadInv
  <1>5. WriteInv(op, movidas[o])
    <2>1. op.pendientes \cup op.escritas = cambios
      OBVIOUS
    <2>2. \A x \in Cells \ movidas[o] : At(cambios, x) = At(op.informe, x)
      BY <1>1
    <2>3. QED
      BY <2>1, <2>2 DEF WriteInv
  <1>6. QED
    BY <1>3, <1>4, <1>5, OpOf, NothingWritten, OneOp

LEMMA ImportPricesInv ==
    ASSUME GridInv, NEW o \in Ops, ImportPrices(o)
    PROVE  GridInv'
  <1> DEFINE report == buildDryRun(ops[o].file, WithPrices(ops[o].leido))
             cambios == report.cambios
             op == [ops[o] EXCEPT !.pc = "write", !.leido = <<>>, !.pendientes = cambios]
  <1>1. /\ ops[o] \in Op /\ ops[o].pc = "apply" /\ ops[o].tipo = "import"
        /\ ops[o].escritas = {} /\ UNCHANGED <<grid, events, movidas>>
    BY OpOf DEF ImportPrices, PhaseInv
  <1>2. CASE report.errores
    <2>1. Ended(o, "error")
      BY <1>2 DEF ImportPrices
    <2>2. QED
      BY <1>1, <2>1, OpOf, EndedInv
  <1>3. CASE ~report.errores
    <2>1. ops' = [ops EXCEPT ![o] = op]
      BY <1>3 DEF ImportPrices
    <2>2. \A i \in DOMAIN ops[o].file : Valida(ops[o].file[i])
      BY <1>3 DEF buildDryRun
    <2>3. cambios \in SUBSET Cambio
      BY <1>1, DryRunType DEF Op
    <2>4. \A x \in Cells \ movidas[o] : At(cambios, x) = At(Propuesta(ops[o], grid), x)
      BY <1>1, ReadPrices
    <2> HIDE DEF cambios
    <2>5. /\ op \in Op /\ op.pc = "write" /\ op.pendientes = cambios
          /\ op.escritas = {} /\ op.tipo = ops[o].tipo /\ op.file = ops[o].file
          /\ op.sel = ops[o].sel /\ op.lista = ops[o].lista
          /\ op.ajuste = ops[o].ajuste /\ op.informe = ops[o].informe
      BY <1>1, <2>3 DEF Op
    <2> HIDE DEF op
    <2>6. QED
      BY <1>1, <2>1, <2>2, <2>3, <2>4, <2>5, StartWriting
  <1>4. QED
    BY <1>2, <1>3

-----------------------------------------------------------------------------
(* The bulk update and the inline edits.                                   *)

LEMMA BulkPreviewInv ==
    ASSUME GridInv, NEW o \in Ops, NEW sel \in SUBSET Units, NEW lista \in Listas,
           NEW a \in Ajustes, BulkPreview(o, sel, lista, a)
    PROVE  GridInv'
  <1> DEFINE informe == computeBulkPreview(sel, lista, a, grid).cambios
             op == [IdleOp EXCEPT !.pc = "shown", !.tipo = "bulk", !.sel = sel,
                      !.lista = lista, !.ajuste = a, !.informe = informe]
  <1>1. informe \subseteq Cambio
    BY BulkType
  <1>2. /\ ops' = [ops EXCEPT ![o] = op] /\ UNCHANGED <<grid, events>>
        /\ movidas' = [movidas EXCEPT ![o] = {}]
    BY DEF BulkPreview
  <1>3. op.informe = informe
    BY DEF IdleOp
  <1> HIDE DEF informe
  <1>4. /\ op \in Op /\ op.pc = "shown" /\ op.tipo = "bulk" /\ op.file = <<>>
        /\ op.pendientes = {} /\ op.escritas = {}
        /\ op.sel = sel /\ op.lista = lista /\ op.ajuste = a
    BY <1>1, IdleType DEF Op, IdleOp
  <1> HIDE DEF op
  <1>5. Propuesta(op, grid) = informe
    BY <1>4 DEF Propuesta, informe
  <1>6. /\ PhaseInv(op) /\ ReadInv(op, grid, movidas'[o]) /\ WriteInv(op, movidas'[o])
    BY <1>3, <1>4, <1>5 DEF PhaseInv, ReadInv, WriteInv
  <1>7. /\ movidas' \in [Ops -> SUBSET Cells]
        /\ \A p \in Ops : p # o => movidas'[p] = movidas[p]
    BY <1>2, OpOf
  <1>8. QED
    BY <1>2, <1>4, <1>6, <1>7, NothingWritten, OneOp

LEMMA BulkApplyInv ==
    ASSUME GridInv, NEW o \in Ops, BulkApply(o)
    PROVE  GridInv'
  <1> DEFINE preview == computeBulkPreview(ops[o].sel, ops[o].lista, ops[o].ajuste, grid)
             cambios == preview.cambios
             op == [ops[o] EXCEPT !.pc = "write", !.pendientes = cambios]
  <1>1. /\ ops[o] \in Op /\ ops[o].pc = "shown" /\ ops[o].tipo = "bulk"
        /\ ops[o].escritas = {} /\ ops[o].file = <<>>
        /\ UNCHANGED <<grid, events, movidas>>
    BY OpOf DEF BulkApply, PhaseInv
  <1>2. CASE preview.errores
    <2>1. Ended(o, "error")
      BY <1>2 DEF BulkApply
    <2>2. QED
      BY <1>1, <2>1, OpOf, EndedInv
  <1>3. CASE ~preview.errores
    <2>1. ops' = [ops EXCEPT ![o] = op]
      BY <1>3 DEF BulkApply
    <2>2. /\ cambios \in SUBSET Cambio /\ \A c \in cambios : c.valor # SinPrecio
      BY <1>1, BulkType DEF Op
    <2>3. ASSUME NEW u \in ops[o].sel PROVE At(cambios, <<u, ops[o].lista>>) # {}
      <3> DEFINE c == Change(0, u, ops[o].lista,
                             Ajustado(grid[u][ops[o].lista], ops[o].ajuste))
      <3>1. BulkOK(grid[u][ops[o].lista], ops[o].ajuste)
        BY <1>3, <2>3 DEF computeBulkPreview
      <3>2. c \in cambios
        BY <2>3, <3>1, BulkChanges
      <3>3. c.cell = <<u, ops[o].lista>>
        BY DEF Change
      <3> HIDE DEF c, cambios
      <3>4. QED
        BY <3>2, <3>3 DEF At
    <2>4. Propuesta(ops[o], grid) = cambios
      BY <1>1 DEF Propuesta
    <2> HIDE DEF cambios
    <2>5. /\ op \in Op /\ op.pc = "write" /\ op.pendientes = cambios
          /\ op.escritas = {} /\ op.tipo = ops[o].tipo /\ op.file = ops[o].file
          /\ op.sel = ops[o].sel /\ op.lista = ops[o].lista
          /\ op.ajuste = ops[o].ajuste /\ op.informe = ops[o].informe
      BY <1>1, <2>2 DEF Op
    <2> HIDE DEF op
    <2>6. \A i \in DOMAIN ops[o].file : Valida(ops[o].file[i])
      BY <1>1
    <2>7. QED
      BY <1>1, <2>1, <2>2, <2>3, <2>4, <2>5, <2>6, StartWriting
  <1>4. QED
    BY <1>2, <1>3

LEMMA EditInv ==
    ASSUME GridInv, NEW o \in Ops, NEW u \in Units, NEW campo \in Campos,
           NEW valor \in Valor(campo), ops[o].pc = "idle",
           ops' = [ops EXCEPT ![o].pc = "write", ![o].tipo = "edit",
                              ![o].pendientes = {Change(0, u, campo, valor)}],
           UNCHANGED <<grid, events, movidas>>
    PROVE  GridInv'
  <1> DEFINE pend == {Change(0, u, campo, valor)}
             op == [ops[o] EXCEPT !.pc = "write", !.tipo = "edit", !.pendientes = pend]
  <1>1. ops[o] \in Op /\ ops[o] = IdleOp
    BY OpOf
  <1>2. ops[o].escritas = {} /\ ops[o].file = <<>>
    BY <1>1 DEF IdleOp
  <1>3. pend \in SUBSET Cambio
    <2>1. 0 \in Int
      OBVIOUS
    <2>2. Change(0, u, campo, valor) \in Cambio
      BY <2>1, ChangeType, Zenon
    <2>3. QED
      BY <2>2
  <1>4. ops' = [ops EXCEPT ![o] = op]
    OBVIOUS
  <1> HIDE DEF pend
  <1>5. /\ op \in Op /\ op.pc = "write" /\ op.tipo = "edit" /\ op.file = <<>>
        /\ op.escritas = {}
    BY <1>1, <1>2, <1>3 DEF Op
  <1> HIDE DEF op
  <1>6. PhaseInv(op) /\ ReadInv(op, grid, movidas[o]) /\ WriteInv(op, movidas[o])
    BY <1>5 DEF PhaseInv, ReadInv, WriteInv
  <1>7. QED
    BY <1>4, <1>5, <1>6, OpOf, NothingWritten, OneOp

-----------------------------------------------------------------------------
(* Writing.                                                                *)

LEMMA EscritosFinite ==
    ASSUME NEW op, NEW u
    PROVE  /\ Escritos(op, u) \in SUBSET Campos
           /\ IsFiniteSet(Escritos(op, u)) /\ Cardinality(Escritos(op, u)) \in Nat
  <1>1. IsFiniteSet({"financiado"}) /\ Campos = ({"financiado"} \cup {"contado"}) \cup {"estado"}
    BY FS_Singleton DEF Campos, Listas
  <1>2. IsFiniteSet({"financiado"} \cup {"contado"})
    BY <1>1, FS_AddElement
  <1>3. IsFiniteSet(Campos)
    BY <1>1, <1>2, FS_AddElement
  <1>4. Escritos(op, u) \in SUBSET Campos
    BY DEF Escritos
  <1>5. IsFiniteSet(Escritos(op, u))
    BY <1>3, <1>4, FS_Subset
  <1>6. QED
    BY <1>4, <1>5, FS_CardinalityType

\* An event more lets one cell more be written.
LEMMA WriteEvent ==
    ASSUME NEW old \in Op, NEW new \in Op, NEW c \in Cambio, EventInv(old),
           new.escritas \subseteq old.escritas \cup {c},
           new.audit = [old.audit EXCEPT ![c.cell[1]] = @ + 1]
    PROVE  EventInv(new)
  <1> SUFFICES ASSUME NEW u \in Units
               PROVE  Cardinality(Escritos(new, u)) <= new.audit[u]
    BY DEF EventInv
  <1>1. /\ Cardinality(Escritos(old, u)) <= old.audit[u]
        /\ Cardinality(Escritos(old, u)) \in Nat /\ old.audit[u] \in Nat
        /\ IsFiniteSet(Escritos(old, u))
    BY EscritosFinite DEF EventInv, Op
  <1>2. c.cell[1] \in Units /\ c.cell = <<c.cell[1], c.cell[2]>>
    BY CambioCell, CellPair
  <1>3. CASE u = c.cell[1]
    <2>1. new.audit[u] = old.audit[u] + 1
      BY <1>2, <1>3 DEF Op
    <2>2. Escritos(new, u) \in SUBSET (Escritos(old, u) \cup {c.cell[2]})
      BY <1>2 DEF Escritos, At
    <2>3. /\ IsFiniteSet(Escritos(old, u) \cup {c.cell[2]})
          /\ Cardinality(Escritos(old, u) \cup {c.cell[2]}) =
               IF c.cell[2] \in Escritos(old, u) THEN Cardinality(Escritos(old, u))
               ELSE Cardinality(Escritos(old, u)) + 1
      BY <1>1, FS_AddElement
    <2>4. Cardinality(Escritos(new, u)) <= Cardinality(Escritos(old, u) \cup {c.cell[2]})
      BY <2>2, <2>3, FS_Subset
    <2>5. Cardinality(Escritos(new, u)) \in Nat
      BY EscritosFinite
    <2>6. QED
      BY <1>1, <2>1, <2>3, <2>4, <2>5
  <1>4. CASE u # c.cell[1]
    <2>1. new.audit[u] = old.audit[u]
      BY <1>2, <1>4 DEF Op
    <2>2. Escritos(new, u) \in SUBSET Escritos(old, u)
      BY <1>2, <1>4 DEF Escritos, At
    <2>3. Cardinality(Escritos(new, u)) <= Cardinality(Escritos(old, u))
      BY <1>1, <2>2, FS_Subset
    <2>4. Cardinality(Escritos(new, u)) \in Nat
      BY EscritosFinite
    <2>5. QED
      BY <1>1, <2>1, <2>3, <2>4
  <1>5. QED
    BY <1>3, <1>4

\* A DELETE that finds no row is never of a cell others left alone: what it
\* would change was shown as a change of the grid as it is.
LEMMA NoRowMoved ==
    ASSUME GridInv, NEW o \in Ops, Writing(o), NEW c \in ops[o].pendientes, NoRow(o, c)
    PROVE  ops[o].tipo # "bulk" /\ (ops[o].tipo = "import" => c.cell \in movidas[o])
  <1>1. /\ ops[o] \in Op /\ c \in Cambio /\ ops[o].pc = "write"
        /\ WriteInv(ops[o], movidas[o]) /\ ReadInv(ops[o], grid, movidas[o])
    BY OpOf DEF Op, Writing
  <1>2. ops[o].tipo # "bulk"
    BY <1>1 DEF NoRow, WriteInv
  <1>3. ASSUME ops[o].tipo = "import", c.cell \notin movidas[o] PROVE FALSE
    <2>1. c.cell \in Cells \ movidas[o]
      BY <1>1, <1>3, CambioCell
    <2>2. c \in At(ops[o].pendientes \cup ops[o].escritas, c.cell)
      BY DEF At
    <2>3. c \in At(ops[o].informe, c.cell)
      BY <1>1, <1>3, <2>1, <2>2 DEF WriteInv
    <2>4. c \in Propuesta(ops[o], grid)
      BY <1>1, <1>3, <2>1, <2>3 DEF ReadInv, At
    <2>5. PICK i \in DOMAIN ops[o].file, campo \in Campos :
            /\ grid[ops[o].file[i].unit][campo] # ops[o].file[i][campo]
            /\ c = Change(3 * i + Orden[campo], ops[o].file[i].unit, campo,
                          ops[o].file[i][campo])
      BY <1>3, <2>4, DryRunChanges DEF Propuesta
    <2>6. grid[c.cell[1]][c.cell[2]] # c.valor
      BY <2>5 DEF Change
    <2>7. QED
      BY <2>6 DEF NoRow
  <1>4. QED
    BY <1>2, <1>3

LEMMA WriteStepInv ==
    ASSUME GridInv, NEW o \in Ops, NEW c \in ops[o].pendientes, Write(o, c)
    PROVE  GridInv'
  <1> DEFINE old == ops[o]
             pend == old.pendientes \ {c}
             esc == IF NoRow(o, c) THEN old.escritas
                    ELSE (old.escritas \ Escrita(o, c.cell)) \cup {c}
             audit == [old.audit EXCEPT ![c.cell[1]] = @ + 1]
             op == [old EXCEPT !.pendientes = pend, !.escritas = esc, !.audit = audit]
             antes == old.pendientes \cup old.escritas
             todas == pend \cup esc
  <1>1. old \in Op /\ c \in Cambio /\ old.pc = "write" /\ Writing(o)
    BY OpOf DEF Op, Write, Writing
  <1>2. c.cell[1] \in Units /\ c.cell \in Cells
    BY <1>1, CambioCell, CellPair
  <1>3. UNCHANGED <<grid, events, movidas>>
    BY DEF Write
  <1>4. ops' = [ops EXCEPT ![o] = op]
    BY DEF Write
  <1>5. pend \in SUBSET Cambio /\ esc \in SUBSET Cambio /\ audit \in [Units -> Nat]
    BY <1>1, <1>2 DEF Op
  <1>6. esc \subseteq old.escritas \cup {c}
    OBVIOUS
  <1>7. todas \subseteq antes
    OBVIOUS
  <1>8. ~NoRow(o, c) => c \in todas /\ \A d \in antes : d.cell # c.cell => d \in todas
    BY DEF Escrita
  <1>9. NoRow(o, c) => \A d \in antes : d # c => d \in todas
    OBVIOUS
  <1> HIDE DEF pend, esc, audit
  <1>10. /\ op \in Op /\ op.pc = "write" /\ op.pendientes = pend /\ op.escritas = esc
         /\ op.audit = audit /\ op.tipo = old.tipo /\ op.file = old.file
         /\ op.sel = old.sel /\ op.lista = old.lista /\ op.ajuste = old.ajuste
         /\ op.informe = old.informe
    BY <1>1, <1>5 DEF Op
  <1> HIDE DEF op
  <1>11. EventInv(op)
    BY <1>1, <1>6, <1>10, OpOf, WriteEvent DEF audit
  <1>12. PhaseInv(op)
    BY <1>10, OpOf DEF PhaseInv
  <1>13. ReadInv(op, grid, movidas[o])
    <2>1. Propuesta(op, grid) = Propuesta(old, grid)
      BY <1>10 DEF Propuesta
    <2>2. QED
      BY <1>1, <1>10, <2>1, OpOf DEF ReadInv
  <1>14. \A x \in Cells : At(todas, x) \subseteq At(antes, x)
    BY <1>7 DEF At
  <1>15. ASSUME NEW x, x # c.cell \/ ~NoRow(o, c), At(antes, x) # {}
         PROVE  At(todas, x) # {}
    <2>1. CASE x # c.cell
      <3>1. PICK d \in antes : d.cell = x
        BY <1>15 DEF At
      <3>2. d \in todas
        BY <1>8, <1>9, <2>1, <3>1
      <3>3. QED
        BY <3>1, <3>2 DEF At
    <2>2. CASE x = c.cell
      BY <1>8, <1>15, <2>2 DEF At
    <2>3. QED
      BY <2>1, <2>2
  <1> HIDE DEF todas
  <1>16. WriteInv(op, movidas[o])
    <2>0. op.pendientes \cup op.escritas = todas
      BY <1>10 DEF todas
    <2>1. \A i \in DOMAIN op.file : Valida(op.file[i])
      BY <1>1, <1>10, OpOf DEF WriteInv
    <2>2. ASSUME op.tipo = "bulk"
          PROVE  /\ \A d \in todas : d.valor # SinPrecio
                 /\ \A u \in op.sel : At(todas, <<u, op.lista>>) # {}
      <3>1. /\ \A d \in antes : d.valor # SinPrecio
            /\ \A u \in op.sel : At(antes, <<u, op.lista>>) # {}
        BY <1>1, <1>10, <2>2, OpOf DEF WriteInv
      <3>2. ~NoRow(o, c)
        BY <1>1, <1>10, <2>2, NoRowMoved
      <3>3. QED
        BY <1>7, <1>15, <3>1, <3>2
    <2>3. ASSUME op.tipo # "edit", NEW x \in Cells \ movidas[o]
          PROVE  /\ At(todas, x) \subseteq At(op.informe, x)
                 /\ At(todas, x) = {} => At(op.informe, x) = {}
      <3>1. /\ At(antes, x) \subseteq At(op.informe, x)
            /\ At(antes, x) = {} => At(op.informe, x) = {}
        BY <1>1, <1>10, <2>3, OpOf DEF WriteInv
      <3>2. x # c.cell \/ ~NoRow(o, c)
        <4>1. ASSUME NoRow(o, c) PROVE old.tipo = "import"
          <5>1. old.tipo # "bulk"
            BY <1>1, <4>1, NoRowMoved
          <5>2. old.tipo # "none"
            BY <1>1, OpOf DEF PhaseInv
          <5>3. QED
            BY <1>1, <1>10, <2>3, <5>1, <5>2 DEF Op
        <4>2. QED
          BY <1>1, <2>3, <4>1, NoRowMoved
      <3>3. QED
        BY <1>14, <1>15, <3>1, <3>2
    <2>4. QED
      BY <2>0, <2>1, <2>2, <2>3 DEF WriteInv
  <1>17. QED
    BY <1>3, <1>4, <1>10, <1>11, <1>12, <1>13, <1>16, OpOf, OneOp

\* The cells of a commit are outdated for every other preview.
LEMMA OthersMoved ==
    ASSUME NEW op \in Op, NEW g, NEW h, NEW m, NEW n, m \subseteq n,
           \A x \in Cells \ n : g[x[1]][x[2]] = h[x[1]][x[2]]
    PROVE  /\ ReadInv(op, g, m) => ReadInv(op, h, n)
           /\ WriteInv(op, m) => WriteInv(op, n)
  <1>1. ASSUME ReadInv(op, g, m) PROVE ReadInv(op, h, n)
    <2>1. ASSUME op.pc \in {"dry", "apply"}, NEW u \in Units, <<u, "estado">> \notin n
          PROVE  op.leido[u] = h[u].estado
      <3>1. <<u, "estado">> \in Cells \ n
        BY <2>1, CellPair, Columns
      <3>2. g[u].estado = h[u].estado
        BY <3>1
      <3>3. <<u, "estado">> \notin m
        BY <2>1
      <3>4. QED
        BY <1>1, <2>1, <3>2, <3>3 DEF ReadInv
    <2>2. \A x \in Cells \ n : At(Propuesta(op, g), x) = At(Propuesta(op, h), x)
      BY PropuestaLocal
    <2>3. \A x \in Cells \ n : x \in Cells \ m
      OBVIOUS
    <2>4. QED
      BY <1>1, <2>1, <2>2, <2>3 DEF ReadInv
  <1>2. WriteInv(op, m) => WriteInv(op, n)
    BY DEF WriteInv
  <1>3. QED
    BY <1>1, <1>2

\* What a commit does to the grid, cell by cell.
LEMMA CommitGrid ==
    ASSUME GridInv, NEW o \in Ops, Commit(o)
    PROVE  /\ Writing(o) /\ ops[o].pendientes = {}
           /\ \A u \in Units, campo \in Campos :
                /\ At(ops[o].escritas, <<u, campo>>) = {} =>
                     grid'[u][campo] = grid[u][campo]
                /\ At(ops[o].escritas, <<u, campo>>) # {} =>
                     \E c \in At(ops[o].escritas, <<u, campo>>) :
                       grid'[u][campo] = c.valor
           /\ grid' \in [Units -> Fila]
           /\ \A u \in Units : events'[u] = events[u] + ops[o].audit[u]
           /\ events' \in [Units -> Nat]
  <1>1. \A u, campo : Escrita(o, <<u, campo>>) = At(ops[o].escritas, <<u, campo>>)
    BY DEF Escrita, At
  <1>2. \A u \in Units, campo \in Campos : grid'[u][campo] =
          IF Escrita(o, <<u, campo>>) = {} THEN grid[u][campo]
          ELSE (CHOOSE c \in Escrita(o, <<u, campo>>) : TRUE).valor
    BY DEF Commit
  <1>3. ASSUME NEW u \in Units, NEW campo \in Campos,
               At(ops[o].escritas, <<u, campo>>) # {}
        PROVE  \E c \in At(ops[o].escritas, <<u, campo>>) : grid'[u][campo] = c.valor
    <2>1. (CHOOSE c \in Escrita(o, <<u, campo>>) : TRUE) \in Escrita(o, <<u, campo>>)
      BY <1>1, <1>3
    <2>2. QED
      BY <1>1, <1>2, <1>3, <2>1
  <1>4. ASSUME NEW u \in Units, NEW campo \in Campos
        PROVE  grid'[u][campo] \in Valor(campo)
    <2>1. grid[u][campo] \in Valor(campo)
      BY OpOf, Columns
    <2>2. ASSUME NEW c \in At(ops[o].escritas, <<u, campo>>)
          PROVE  c.valor \in Valor(campo)
      <3>1. c \in Cambio /\ c.cell = <<u, campo>>
        BY OpOf DEF Op, At
      <3>2. QED
        BY <3>1, CambioCell
    <2>3. QED
      BY <1>1, <1>2, <1>3, <2>1, <2>2
  <1>5. grid' \in [Units -> Fila]
    <2>1. /\ grid' = [u \in Units |-> grid'[u]]
          /\ \A u \in Units : grid'[u] = [campo \in Campos |-> grid'[u][campo]]
      BY DEF Commit
    <2>2. \A u \in Units : grid'[u] \in [Campos -> Precio \cup Estados]
      BY <1>4, <2>1 DEF Valor
    <2>3. \A u \in Units : grid'[u] \in Fila
      BY <1>4, <2>2, FilaOf
    <2>4. QED
      BY <2>1, <2>3
  <1>6. /\ \A u \in Units : events'[u] = events[u] + ops[o].audit[u]
        /\ events' = [u \in Units |-> events'[u]]
    BY DEF Commit
  <1>7. \A u \in Units : events[u] + ops[o].audit[u] \in Nat
    <2>1. \A u \in Units : events[u] \in Nat /\ ops[o].audit[u] \in Nat
      BY OpOf DEF Op
    <2>2. QED
      BY <2>1
  <1>8. Writing(o) /\ ops[o].pendientes = {}
    BY DEF Commit
  <1>9. \A u \in Units, campo \in Campos :
          At(ops[o].escritas, <<u, campo>>) = {} => grid'[u][campo] = grid[u][campo]
    BY <1>1, <1>2
  <1>10. events' \in [Units -> Nat]
    BY <1>6, <1>7
  <1>11. QED
    BY <1>3, <1>5, <1>6, <1>8, <1>9, <1>10

LEMMA CommitInv ==
    ASSUME GridInv, NEW o \in Ops, Commit(o)
    PROVE  GridInv'
  <1> DEFINE new == [IdleOp EXCEPT !.pc = "done"]
  <1>1. /\ new \in Op /\ new.pc = "done" /\ new.tipo = "none" /\ new.file = <<>>
        /\ new.pendientes = {} /\ new.escritas = {}
    BY IdleType DEF Op, IdleOp
  <1>2. ops' = [ops EXCEPT ![o] = new]
    BY DEF Commit, Ended
  <1>3. ops'[o] = new /\ \A p \in Ops : p # o => ops'[p] = ops[p]
    BY <1>2 DEF GridInv, TypeOK
  <1>4. ops[o] \in Op /\ \A c \in ops[o].escritas : c.cell \in Cells
    BY OpOf, CambioCell DEF Op
  <1>5. /\ movidas' \in [Ops -> SUBSET Cells]
        /\ \A p \in Ops : p # o /\ ops[p].pc \in {"dry", "shown", "apply", "write"} =>
             movidas'[p] = movidas[p] \cup {c.cell : c \in ops[o].escritas}
    BY <1>4, OpOf DEF Commit
  <1> HIDE DEF new
  <1>6. TypeOK'
    <2>1. ops' \in [Ops -> Op]
      BY <1>1, <1>2 DEF GridInv, TypeOK
    <2>2. QED
      BY <1>5, <2>1, CommitGrid DEF TypeOK
  <1>7. ASSUME NEW p \in Ops, p # o
        PROVE  ReadInv(ops[p], grid', movidas'[p]) /\ WriteInv(ops[p], movidas'[p])
    <2>1. CASE ops[p].pc \in {"dry", "shown", "apply", "write"}
      <3>1. movidas[p] \subseteq movidas'[p]
        BY <1>5, <1>7, <2>1
      <3>2. ASSUME NEW x \in Cells \ movidas'[p]
            PROVE  grid[x[1]][x[2]] = grid'[x[1]][x[2]]
        <4>1. x[1] \in Units /\ x[2] \in Campos /\ x = <<x[1], x[2]>>
          BY CellPair
        <4>2. At(ops[o].escritas, <<x[1], x[2]>>) = {}
          BY <1>5, <1>7, <2>1, <4>1 DEF At
        <4>3. QED
          BY <4>1, <4>2, CommitGrid
      <3>3. QED
        BY <3>1, <3>2, OpOf, OthersMoved
    <2>2. CASE ops[p].pc \notin {"dry", "shown", "apply", "write"}
      BY <2>2 DEF ReadInv, WriteInv
    <2>3. QED
      BY <2>1, <2>2
  <1>8. /\ PhaseInv(new) /\ ReadInv(new, grid', movidas'[o])
        /\ WriteInv(new, movidas'[o]) /\ EventInv(new)
    BY <1>1, NothingWritten DEF PhaseInv, ReadInv, WriteInv
  <1>9. ASSUME NEW p \in Ops
        PROVE  /\ PhaseInv(ops'[p]) /\ ReadInv(ops'[p], grid', movidas'[p])
               /\ WriteInv(ops'[p], movidas'[p]) /\ EventInv(ops'[p])
    <2>1. CASE p = o
      BY <1>3, <1>8, <2>1
    <2>2. CASE p # o
      BY <1>3, <1>7, <2>2 DEF GridInv
    <2>3. QED
      BY <2>1, <2>2
  <1>10. QED
    BY <1>6, <1>9 DEF GridInv

-----------------------------------------------------------------------------
(* The invariant and the theorems.                                         *)

LEMMA GridInit == Init => GridInv
  <1> SUFFICES ASSUME Init PROVE GridInv
    OBVIOUS
  <1>1. IdleOp \in Op /\ IdleOp.escritas = {} /\ IdleOp.pc = "idle"
        /\ IdleOp.pendientes = {} /\ IdleOp.file = <<>> /\ IdleOp.tipo = "none"
    BY IdleType DEF IdleOp
  <1>2. TypeOK
    BY <1>1 DEF Init, TypeOK
  <1>3. \A o \in Ops : ops[o] = IdleOp
    BY DEF Init
  <1>4. EventInv(IdleOp)
    BY <1>1, NothingWritten
  <1>5. PhaseInv(IdleOp) /\ \A o \in Ops : /\ ReadInv(IdleOp, grid, movidas[o])
                                           /\ WriteInv(IdleOp, movidas[o])
    BY <1>1 DEF PhaseInv, ReadInv, WriteInv
  <1>6. QED
    BY <1>2, <1>3, <1>4, <1>5 DEF GridInv

LEMMA GridStep == GridInv /\ [Next]_vars => GridInv'
  <1> SUFFICES ASSUME GridInv, [Next]_vars PROVE GridInv'
    OBVIOUS
  <1>1. ASSUME NEW o \in Ops, Edit(o) PROVE GridInv'
    <2>1. ASSUME NEW u \in Units, NEW l \in Listas, NEW p \in 0..MaxPrecio,
                 EditPrice(o, u, l, p)
          PROVE  GridInv'
      <3>1. l \in Campos /\ p \in Valor(l)
        BY Columns DEF Precio
      <3>2. QED
        BY <2>1, <3>1, EditInv DEF EditPrice
    <2>2. ASSUME NEW u \in Units, NEW e \in Estados, EditEstado(o, u, e)
          PROVE  GridInv'
      <3>1. "estado" \in Campos /\ e \in Valor("estado")
        BY DEF Campos, Valor
      <3>2. QED
        BY <2>2, <3>1, EditInv DEF EditEstado
    <2>3. QED
      BY <1>1, <2>1, <2>2 DEF Edit
  <1>2. ASSUME NEW o \in Ops, RoundTrip(o) PROVE GridInv'
    <2>1. ASSUME NEW i, NEW u \in Units \cup {Invalido}, EditFile(o, i, "unit", u)
          PROVE  GridInv'
      BY <2>1, EditFileInv
    <2>2. ASSUME NEW i, NEW l \in Listas, NEW p \in Precio \cup {Invalido},
                 EditFile(o, i, l, p)
          PROVE  GridInv'
      <3>1. l \in Campos /\ Valor(l) = Precio /\ l # "unit"
        BY Columns DEF Listas
      <3>2. QED
        BY <2>2, <3>1, EditFileInv
    <2>3. ASSUME NEW i, NEW e \in Estados \cup {Invalido}, EditFile(o, i, "estado", e)
          PROVE  GridInv'
      <3>1. "estado" \in Campos /\ Valor("estado") = Estados
        BY DEF Campos, Valor
      <3>2. QED
        BY <2>3, <3>1, EditFileInv
    <2>4. QED
      BY <1>2, <2>1, <2>2, <2>3, ExportUnitsInv, ExportPricesInv, ReadUnitsInv,
         DryRunPricesInv, ImportPricesInv DEF RoundTrip
  <1>3. ASSUME NEW o \in Ops, Bulk(o) PROVE GridInv'
    BY <1>3, BulkPreviewInv, BulkApplyInv DEF Bulk
  <1>4. ASSUME NEW o \in Ops, Rollback(o) PROVE GridInv'
    <2>1. /\ Ended(o, "error") /\ UNCHANGED <<grid, events>>
          /\ movidas' \in [Ops -> SUBSET Cells]
          /\ \A p \in Ops : p # o => movidas'[p] = movidas[p]
      BY <1>4, OpOf DEF Rollback
    <2>2. QED
      BY <2>1, EndedInv
  <1>5. CASE UNCHANGED vars
    BY <1>5 DEF vars, GridInv, TypeOK
  <1>6. QED
    BY <1>1, <1>2, <1>3, <1>4, <1>5, WriteStepInv, CommitInv DEF Next

LEMMA GridInvariant == Spec => []GridInv
  BY GridInit, GridStep, PTL DEF Spec

\* Prices stay whole dollars between 0 and the cap and every field keeps its
\* type, for every overlap of edits, imports and bulk updates.
THEOREM TypeCorrect == Spec => []TypeOK
  <1>1. GridInv => TypeOK
    BY DEF GridInv
  <1>2. QED
    BY <1>1, GridInvariant, PTL

\* Only Commit changes the grid or the audit trail, or ends a transaction.
LEMMA OnlyCommit ==
    ASSUME GridInv, [Next]_vars
    PROVE  \/ UNCHANGED <<grid, events>> /\ \A p \in Ops : ~Commits(p)
           \/ \E o \in Ops : Commit(o) /\ \A p \in Ops : Commits(p) => p = o
  <1> DEFINE Quiet == UNCHANGED <<grid, events>> /\ \A p \in Ops : ~Commits(p)
  <1>0. ops \in [Ops -> Op]
    BY DEF GridInv, TypeOK
  <1>1. ASSUME NEW o \in Ops, ops'[o].pc # "done", UNCHANGED <<grid, events>>,
               \A p \in Ops : p # o => ops'[p] = ops[p]
        PROVE  Quiet
    BY <1>1 DEF Commits, Writing
  <1> HIDE DEF Quiet
  <1>2. ASSUME NEW o \in Ops, Edit(o) PROVE Quiet
    <2>1. ASSUME NEW pend, UNCHANGED <<grid, events>>,
                 ops' = [ops EXCEPT ![o].pc = "write", ![o].tipo = "edit",
                                    ![o].pendientes = pend]
          PROVE  Quiet
      <3>1. ops'[o].pc = "write" /\ \A p \in Ops : p # o => ops'[p] = ops[p]
        BY <1>0, <2>1 DEF Op
      <3>2. QED
        BY <1>1, <2>1, <3>1
    <2>2. QED
      BY <1>2, <2>1 DEF Edit, EditPrice, EditEstado
  <1>3. ASSUME NEW o \in Ops, NEW i, NEW campo, NEW valor, EditFile(o, i, campo, valor)
        PROVE  Quiet
    <2>1. ops'[o].pc = "edited" /\ \A p \in Ops : p # o => ops'[p] = ops[p]
      BY <1>0, <1>3 DEF EditFile, Op
    <2>2. QED
      BY <1>1, <1>3, <2>1 DEF EditFile
  <1>4. ASSUME NEW o \in Ops, ExportUnits(o) \/ ExportPrices(o) PROVE Quiet
    <2>1. ops'[o].pc \in {"export", "file"} /\ \A p \in Ops : p # o => ops'[p] = ops[p]
      BY <1>0, <1>4 DEF ExportUnits, ExportPrices, Op
    <2>2. QED
      BY <1>1, <1>4, <2>1 DEF ExportUnits, ExportPrices
  <1>5. ASSUME NEW o \in Ops, DryRunUnits(o) \/ DryRunPrices(o) \/ ImportUnits(o)
        PROVE  Quiet
    <2>1. /\ ops'[o].pc \in {"dry", "shown", "apply"}
          /\ \A p \in Ops : p # o => ops'[p] = ops[p]
      BY <1>0, <1>5 DEF DryRunUnits, DryRunPrices, ImportUnits, Op
    <2>2. QED
      BY <1>1, <1>5, <2>1 DEF DryRunUnits, DryRunPrices, ImportUnits
  <1>6. ASSUME NEW o \in Ops, Ended(o, "error"), UNCHANGED <<grid, events>> PROVE Quiet
    BY <1>0, <1>1, <1>6 DEF Ended, IdleOp
  <1>7. ASSUME NEW o \in Ops, ImportPrices(o) \/ BulkApply(o) PROVE Quiet
    <2>1. UNCHANGED <<grid, events>>
      BY <1>7 DEF ImportPrices, BulkApply
    <2>2. \/ Ended(o, "error")
          \/ ops'[o].pc = "write" /\ \A p \in Ops : p # o => ops'[p] = ops[p]
      BY <1>0, <1>7 DEF ImportPrices, BulkApply, Op
    <2>3. QED
      BY <1>1, <1>6, <2>1, <2>2
  <1>8. ASSUME NEW o \in Ops, Rollback(o) PROVE Quiet
    BY <1>6, <1>8 DEF Rollback
  <1>9. ASSUME NEW o \in Ops, NEW sel, NEW lista, NEW a, BulkPreview(o, sel, lista, a)
        PROVE  Quiet
    BY <1>0, <1>1, <1>9 DEF BulkPreview, IdleOp
  <1>10. ASSUME NEW o \in Ops, NEW c, Write(o, c) PROVE Quiet
    <2>1. ops'[o].pc = ops[o].pc /\ ops[o].pc = "write"
      BY <1>0, <1>10 DEF Write, Writing, Op
    <2>2. UNCHANGED <<grid, events>> /\ \A p \in Ops : p # o => ops'[p] = ops[p]
      BY <1>0, <1>10 DEF Write
    <2>3. QED
      BY <1>1, <2>1, <2>2
  <1>11. ASSUME NEW o \in Ops, Commit(o) PROVE \A p \in Ops : Commits(p) => p = o
    <2>1. \A p \in Ops : p # o => ops'[p] = ops[p]
      BY <1>0, <1>11 DEF Commit, Ended
    <2>2. QED
      BY <2>1 DEF Commits, Writing
  <1>12. ASSUME UNCHANGED vars PROVE Quiet
    BY <1>12 DEF vars, Commits, Writing, Quiet
  <1>13. Quiet \/ \E o \in Ops : Commit(o)
    BY <1>2, <1>3, <1>4, <1>5, <1>7, <1>8, <1>9, <1>10, <1>12
    DEF Next, RoundTrip, Bulk
  <1>14. QED
    BY <1>11, <1>13 DEF Quiet

\* No cell of a unit changes without an audit row of its own in the same
\* transaction, however edits, imports and bulk updates overlap.
THEOREM EveryChangeAudited == Spec => AuditEveryChange
  <1> DEFINE A == \A u \in Units : Cardinality(Changed(u)) <= events'[u] - events[u]
  <1>1. GridInv /\ [Next]_vars => A
    <2> SUFFICES ASSUME GridInv, [Next]_vars, NEW u \in Units
                 PROVE  Cardinality(Changed(u)) <= events'[u] - events[u]
      OBVIOUS
    <2>0. events[u] \in Nat
      BY DEF GridInv, TypeOK
    <2>1. CASE UNCHANGED <<grid, events>>
      <3>1. Changed(u) = {}
        BY <2>1 DEF Changed
      <3>2. Cardinality(Changed(u)) = 0
        BY <3>1, FS_EmptySet
      <3>3. QED
        BY <2>0, <2>1, <3>2
    <2>2. ASSUME NEW o \in Ops, Commit(o)
          PROVE  Cardinality(Changed(u)) <= events'[u] - events[u]
      <3>1. Changed(u) \in SUBSET Escritos(ops[o], u)
        BY <2>2, CommitGrid DEF Changed, Escritos
      <3>2. Cardinality(Changed(u)) <= Cardinality(Escritos(ops[o], u))
        BY <3>1, EscritosFinite, FS_Subset
      <3>3. IsFiniteSet(Changed(u)) /\ Cardinality(Changed(u)) \in Nat
        BY <3>1, EscritosFinite, FS_Subset, FS_CardinalityType
      <3>4. Cardinality(Escritos(ops[o], u)) <= ops[o].audit[u] /\ ops[o].audit[u] \in Nat
        BY OpOf DEF EventInv, Op
      <3>5. events'[u] = events[u] + ops[o].audit[u]
        BY <2>2, CommitGrid
      <3>6. Cardinality(Escritos(ops[o], u)) \in Nat
        BY EscritosFinite
      <3>7. QED
        BY <2>0, <3>2, <3>3, <3>4, <3>5, <3>6
    <2>3. QED
      BY <2>1, <2>2, OnlyCommit
  <1>2. QED
    BY <1>1, GridInvariant, PTL DEF Spec, AuditEveryChange

\* An import or a bulk update writes, of the cells no one else wrote since its
\* preview, exactly those it showed, with the values it showed.
THEOREM ShownIsWritten == Spec => ConfirmedIsApplied
  <1> DEFINE Applied(o) ==
        \A u \in Units, campo \in Campos : <<u, campo>> \notin movidas[o] =>
          LET here == {c \in ops[o].informe : c.cell = <<u, campo>>}
          IN IF here = {} THEN grid'[u][campo] = grid[u][campo]
             ELSE \E c \in here : grid'[u][campo] = c.valor
  <1>1. ASSUME GridInv, NEW o \in Ops, Commit(o), ops[o].tipo # "edit" PROVE Applied(o)
    <2> SUFFICES ASSUME NEW u \in Units, NEW campo \in Campos,
                        <<u, campo>> \notin movidas[o]
                 PROVE  LET here == At(ops[o].informe, <<u, campo>>)
                        IN IF here = {} THEN grid'[u][campo] = grid[u][campo]
                           ELSE \E c \in here : grid'[u][campo] = c.valor
      BY DEF At
    <2>1. <<u, campo>> \in Cells \ movidas[o]
      BY CellPair
    <2>2. ops[o].pendientes \cup ops[o].escritas = ops[o].escritas
      BY <1>1, CommitGrid
    <2>3. /\ At(ops[o].escritas, <<u, campo>>) \subseteq At(ops[o].informe, <<u, campo>>)
          /\ At(ops[o].escritas, <<u, campo>>) = {} => At(ops[o].informe, <<u, campo>>) = {}
      <3>1. ops[o].pc = "write" /\ WriteInv(ops[o], movidas[o])
        BY <1>1, CommitGrid, OpOf DEF Writing
      <3>2. QED
        BY <1>1, <2>1, <2>2, <3>1 DEF WriteInv
    <2>4. QED
      BY <1>1, <2>3, CommitGrid
  <1>2. GridInv /\ [Next]_vars =>
          \A o \in Ops : Commits(o) /\ ops[o].tipo # "edit" => Applied(o)
    <2> HIDE DEF Applied
    <2>1. QED
      BY <1>1, OnlyCommit
  <1>3. QED
    BY <1>2, GridInvariant, PTL DEF Spec, ConfirmedIsApplied

\* An import of a file with each unit once leaves every cell of it as the file
\* says, blank prices included, unless others wrote since its preview.
THEOREM FileIsLeft == Spec => ImportLeavesFile
  <1> DEFINE Left(o) == \A i \in DOMAIN ops[o].file, campo \in Campos :
        LET row == ops[o].file[i] IN grid'[row.unit][campo] = row[campo]
  <1>1. ASSUME GridInv, NEW o \in Ops, Commit(o), ops[o].tipo = "import",
               movidas[o] = {}, OneRowEach(ops[o].file)
        PROVE  Left(o)
    <2> DEFINE file == ops[o].file
    <2> SUFFICES ASSUME NEW i \in DOMAIN file, NEW campo \in Campos
                 PROVE  grid'[file[i].unit][campo] = file[i][campo]
      OBVIOUS
    <2> DEFINE u == file[i].unit  x == <<u, campo>>
    <2>1. /\ ops[o] \in Op /\ ops[o].pc = "write" /\ WriteInv(ops[o], movidas[o])
          /\ ops[o].pendientes \cup ops[o].escritas = ops[o].escritas
      BY <1>1, CommitGrid, OpOf DEF Writing
    <2>2. /\ file[i] \in Row /\ Valida(file[i]) /\ u \in Units
      <3>1. file \in Seq(Row)
        BY <2>1 DEF Op
      <3>2. file[i] \in Row
        BY <3>1, LenProperties, ElementOfSeq
      <3>3. Valida(file[i])
        BY <2>1 DEF WriteInv
      <3>4. QED
        BY <3>2, <3>3, ValidRow
    <2>3. x \in Cells \ movidas[o]
      BY <1>1, <2>2, CellPair
    <2>4. /\ At(ops[o].escritas, x) \subseteq At(ops[o].informe, x)
          /\ At(ops[o].escritas, x) = {} => At(ops[o].informe, x) = {}
      BY <1>1, <2>1, <2>3 DEF WriteInv
    <2>5. At(ops[o].informe, x) = At(buildDryRun(file, grid).cambios, x)
      BY <1>1, <2>1, <2>3, OpOf DEF ReadInv, Propuesta
    <2>6. CASE At(ops[o].escritas, x) = {}
      <3>1. grid'[u][campo] = grid[u][campo]
        BY <1>1, <2>2, <2>6, CommitGrid
      <3>2. ASSUME grid[u][campo] # file[i][campo] PROVE FALSE
        <4> DEFINE c == Change(3 * i + Orden[campo], u, campo, file[i][campo])
        <4>1. c \in buildDryRun(file, grid).cambios
          BY <2>2, <3>2, DryRunChanges
        <4>2. c.cell = x
          BY DEF Change
        <4> HIDE DEF c, x
        <4>3. QED
          BY <2>4, <2>5, <2>6, <4>1, <4>2 DEF At
      <3>3. QED
        BY <3>1, <3>2
    <2>7. CASE At(ops[o].escritas, x) # {}
      <3>1. PICK c \in At(ops[o].escritas, x) : grid'[u][campo] = c.valor
        BY <1>1, <2>2, <2>7, CommitGrid
      <3>2. c \in buildDryRun(file, grid).cambios /\ c.cell = x
        BY <2>4, <2>5, <3>1 DEF At
      <3>3. PICK j \in DOMAIN file, otro \in Campos :
              c = Change(3 * j + Orden[otro], file[j].unit, otro, file[j][otro])
        BY <3>2, DryRunChanges
      <3>4. file[j].unit = u /\ otro = campo /\ c.valor = file[j][otro]
        BY <3>2, <3>3 DEF Change
      <3>5. j = i
        BY <1>1, <3>4 DEF OneRowEach
      <3>6. QED
        BY <3>1, <3>4, <3>5
    <2>8. QED
      BY <2>6, <2>7
  <1>2. GridInv /\ [Next]_vars =>
          \A o \in Ops : Commits(o) /\ ops[o].tipo = "import" /\ movidas[o] = {}
                           /\ OneRowEach(ops[o].file) => Left(o)
    <2> HIDE DEF Left
    <2>1. QED
      BY <1>1, OnlyCommit
  <1>3. QED
    BY <1>2, GridInvariant, PTL DEF Spec, ImportLeavesFile

\* No transaction commits with an invalid row in its file, nor a bulk update
\* that leaves a selected unit without its new price.
THEOREM InvalidStopsAll == Spec => AllOrNothing
  <1> DEFINE Whole(o) ==
        /\ \A i \in DOMAIN ops[o].file : Valida(ops[o].file[i])
        /\ ops[o].tipo = "bulk" =>
             \A u \in ops[o].sel : Escrita(o, <<u, ops[o].lista>>) # {}
  <1>1. ASSUME GridInv, NEW o \in Ops, Commit(o) PROVE Whole(o)
    <2>1. /\ ops[o].pc = "write" /\ WriteInv(ops[o], movidas[o])
          /\ ops[o].pendientes \cup ops[o].escritas = ops[o].escritas
      BY <1>1, CommitGrid, OpOf DEF Writing
    <2>2. QED
      BY <2>1 DEF WriteInv, Escrita, At
  <1>2. GridInv /\ [Next]_vars => \A o \in Ops : Commits(o) => Whole(o)
    <2> HIDE DEF Whole
    <2>1. QED
      BY <1>1, OnlyCommit
  <1>3. QED
    BY <1>2, GridInvariant, PTL DEF Spec, AllOrNothing

=============================================================================
