------------------------------ MODULE UnitGrid ------------------------------
(***************************************************************************)
(* The units router as its transactions: inline edits, the Excel round     *)
(* trip (export, dry run, import) and the bulk update of prices (preview,  *)
(* apply).  All are READ COMMITTED: every SELECT sees what is committed at *)
(* that moment, a write locks its row until the transaction ends.          *)
(*                                                                         *)
(* Data: a cell is a price of one of the two USD lists, or the estado, of  *)
(* one unit.  A file is the sequence of its rows, each with the values its *)
(* cells parse to, Invalido standing for all that is refused.              *)
(***************************************************************************)
EXTENDS Integers, FiniteSets, SequencesExt

CONSTANTS
    Units,       \* the units of a project, by identificador
    Estados,     \* of a unit (disponible, reservado, vendido)
    Ops,         \* what operators do: one dialog or one inline edit each
    SinPrecio,   \* no row in unit_prices: a blank cell of a file
    Invalido,    \* a cell or an identificador that buildDryRun refuses
    MaxPrecio,   \* MAX_PRECIO_USD
    Ajustes      \* bulk changes on offer: [mode, value]

ASSUME GridAssumption ==
    /\ IsFiniteSet(Units) /\ MaxPrecio \in Nat /\ SinPrecio \notin Int
    /\ Invalido \notin Units \cup Estados \cup Int \cup {SinPrecio}
    /\ Ajustes \subseteq [mode: {"percent", "fixed"}, value: Int]

VARIABLES
    grid,      \* the committed units and unit_prices
    events,    \* committed audit rows, by unit
    ops,       \* the operators
    movidas    \* by op: cells others committed since its last preview began

vars == <<grid, events, ops, movidas>>

Listas == {"financiado", "contado"}
Campos == Listas \cup {"estado"}
Precio == (0..MaxPrecio) \cup {SinPrecio}
Fila == [financiado: Precio, contado: Precio, estado: Estados]
Cells == Units \X Campos

\* What is to be written to a cell, and its turn among the changes of its
\* list: changes of one turn are written in an order no one chooses.
Change(turno, u, campo, valor) ==
    [turno |-> turno, cell |-> <<u, campo>>, valor |-> valor]

\* file: the rows uploaded; leido: the estados that the transaction in flight
\* has read, before it reads the prices; informe: the changes the operator
\* was shown and confirmed; pendientes: changes still to write; escritas:
\* changes written, hence rows locked; audit: the events inserted.
IdleOp == [pc |-> "idle", tipo |-> "none", file |-> <<>>, leido |-> <<>>,
           sel |-> {}, lista |-> "financiado", ajuste |-> Invalido,
           informe |-> {}, pendientes |-> {}, escritas |-> {},
           audit |-> [u \in Units |-> 0]]

\* A row of a file, and what the fields of an operator may hold.
Row == [unit: Units \cup {Invalido}, financiado: Precio \cup {Invalido},
        contado: Precio \cup {Invalido}, estado: Estados \cup {Invalido}]
Cambio == {c \in [turno: Int, cell: Cells, valor: Precio \cup Estados] :
             c.valor \in IF c.cell[2] = "estado" THEN Estados ELSE Precio}
Op == [pc: {"idle", "export", "file", "edited", "dry", "shown", "apply",
            "write", "done", "error"},
       tipo: {"none", "import", "bulk", "edit"}, file: Seq(Row),
       leido: [Units -> Estados] \cup {<<>>}, sel: SUBSET Units, lista: Listas,
       ajuste: Ajustes \cup {Invalido}, informe: SUBSET Cambio,
       pendientes: SUBSET Cambio, escritas: SUBSET Cambio, audit: [Units -> Nat]]

Writing(o) == ops[o].pc = "write"

Init ==
    /\ \E f \in Fila : grid = [u \in Units |-> f]
    /\ events = [u \in Units |-> 0]
    /\ ops = [o \in Ops |-> IdleOp]
    /\ movidas = [o \in Ops |-> {}]

Ended(o, pc) == ops' = [ops EXCEPT ![o] = [IdleOp EXCEPT !.pc = pc]]

-----------------------------------------------------------------------------
(* The pure modules: excel/dry-run.ts and excel/bulk.ts.                   *)

Valida(row) == /\ row.unit # Invalido
               /\ \A l \in Listas : row[l] # Invalido
               /\ row.estado # Invalido

\* The order of pushDiff.
Orden == [financiado |-> 0, contado |-> 1, estado |-> 2]

\* Mutant of RowChanges: a blank cell leaves the price as it is.
RowChanges_KeepBlank(i, row, leido) ==
    {Change(3 * i + Orden[c], row.unit, c, row[c]) :
       c \in {c \in Campos : row[c] \notin {leido[row.unit][c], SinPrecio}}}

\* The changes of row i of a file against what was read.
RowChanges(i, row, leido) ==
    {Change(3 * i + Orden[c], row.unit, c, row[c]) :
       c \in {c \in Campos : leido[row.unit][c] # row[c]}}

buildDryRun(file, leido) ==
    [errores |-> \E i \in DOMAIN file : ~Valida(file[i]),
     cambios |-> UNION {RowChanges(i, file[i], leido) :
                          i \in {j \in DOMAIN file : Valida(file[j])}}]

\* Math.round is floor(x + 1/2).
Ajustado(precio, a) ==
    IF a.mode = "percent" THEN (precio * (100 + a.value) + 50) \div 100
    ELSE precio + a.value

\* Mutant of BulkOK: the result is not checked again.
BulkOK_Unbounded(precio, a) == precio # SinPrecio

\* Each selected unit must have a price, and the result must be one.
BulkOK(precio, a) == precio # SinPrecio /\ Ajustado(precio, a) \in 0..MaxPrecio

\* Without ORDER BY the units come in any order.
computeBulkPreview(sel, lista, a, leido) ==
    LET buenas == {u \in sel : BulkOK(leido[u][lista], a)}
    IN [errores |-> buenas # sel,
        cambios |-> {Change(0, u, lista, Ajustado(leido[u][lista], a)) : u \in buenas}]

-----------------------------------------------------------------------------
(* Reads of the grid.  readGrid selects the units and then the prices, so  *)
(* the estados may be older than the prices.                               *)

EstadosOf(g) == [u \in Units |-> g[u].estado]
WithPrices(estados) ==
    [u \in Units |-> [grid[u] EXCEPT !.estado = estados[u]]]

\* exportExcel, one row for each unit.
ExportUnits(o) ==
    /\ ops[o].pc = "idle"
    /\ ops' = [ops EXCEPT ![o].pc = "export", ![o].tipo = "import",
                          ![o].leido = EstadosOf(grid)]
    /\ UNCHANGED <<grid, events, movidas>>

ExportPrices(o) == LET g == WithPrices(ops[o].leido) IN
    /\ ops[o].pc = "export"
    /\ \E orden \in SetToSeqs(Units) :
         ops' = [ops EXCEPT ![o].pc = "file", ![o].leido = <<>>,
           ![o].file = [i \in DOMAIN orden |->
             [unit |-> orden[i], financiado |-> g[orden[i]].financiado,
              contado |-> g[orden[i]].contado, estado |-> g[orden[i]].estado]]]
    /\ UNCHANGED <<grid, events, movidas>>

\* The operator edits one cell of the file: another value, one that is
\* refused, the identificador of another unit, which is then there twice.
EditFile(o, i, campo, valor) ==
    /\ ops[o].pc = "file" /\ i \in DOMAIN ops[o].file
    /\ ops[o].file[i][campo] # valor
    /\ ops' = [ops EXCEPT ![o].pc = "edited", ![o].file[i][campo] = valor]
    /\ UNCHANGED <<grid, events, movidas>>

\* dryRunImport: its two SELECTs, the report.
DryRunUnits(o) ==
    /\ ops[o].pc \in {"file", "edited"}
    /\ ops' = [ops EXCEPT ![o].pc = "dry", ![o].leido = EstadosOf(grid)]
    /\ movidas' = [movidas EXCEPT ![o] = {}]
    /\ UNCHANGED <<grid, events>>

DryRunPrices(o) ==
    LET report == buildDryRun(ops[o].file, WithPrices(ops[o].leido)) IN
    /\ ops[o].pc = "dry"
    /\ ops' = [ops EXCEPT ![o].pc = "shown", ![o].leido = <<>>,
                          ![o].informe = report.cambios]
    /\ UNCHANGED <<grid, events, movidas>>

\* bulkPreview: one SELECT of prices; identificadores never change.
BulkPreview(o, sel, lista, a) ==
    LET preview == computeBulkPreview(sel, lista, a, grid) IN
    /\ ops[o].pc = "idle" /\ sel # {}
    /\ ops' = [ops EXCEPT ![o] = [IdleOp EXCEPT
         !.pc = "shown", !.tipo = "bulk", !.sel = sel, !.lista = lista,
         !.ajuste = a, !.informe = preview.cambios]]
    /\ movidas' = [movidas EXCEPT ![o] = {}]
    /\ UNCHANGED <<grid, events>>

-----------------------------------------------------------------------------
(* The four mutations, up to their first write.                            *)

EditPrice(o, u, lista, precio) ==
    /\ ops[o].pc = "idle"
    /\ ops' = [ops EXCEPT ![o].pc = "write", ![o].tipo = "edit",
                          ![o].pendientes = {Change(0, u, lista, precio)}]
    /\ UNCHANGED <<grid, events, movidas>>

EditEstado(o, u, estado) ==
    /\ ops[o].pc = "idle"
    /\ ops' = [ops EXCEPT ![o].pc = "write", ![o].tipo = "edit",
                          ![o].pendientes = {Change(0, u, "estado", estado)}]
    /\ UNCHANGED <<grid, events, movidas>>

ImportUnits(o) ==
    /\ ops[o].pc = "shown" /\ ops[o].tipo = "import"
    /\ ops' = [ops EXCEPT ![o].pc = "apply", ![o].leido = EstadosOf(grid)]
    /\ UNCHANGED <<grid, events, movidas>>

\* Mutant of ImportPrices: invalid rows are skipped.
ImportPrices_SkipInvalid(o) ==
    LET report == buildDryRun(ops[o].file, WithPrices(ops[o].leido)) IN
    /\ ops[o].pc = "apply"
    /\ ops' = [ops EXCEPT ![o].pc = "write", ![o].leido = <<>>,
                          ![o].pendientes = report.cambios]
    /\ UNCHANGED <<grid, events, movidas>>

\* The second SELECT; the dry run again, BAD_REQUEST if a row is invalid.
ImportPrices(o) ==
    LET report == buildDryRun(ops[o].file, WithPrices(ops[o].leido)) IN
    /\ ops[o].pc = "apply"
    /\ IF report.errores THEN Ended(o, "error")
       ELSE ops' = [ops EXCEPT ![o].pc = "write", ![o].leido = <<>>,
                               ![o].pendientes = report.cambios]
    /\ UNCHANGED <<grid, events, movidas>>

\* Mutant of BulkApply: the list chosen is not passed on.
BulkApply_OneList(o) ==
    LET preview == computeBulkPreview(ops[o].sel, "financiado", ops[o].ajuste, grid) IN
    /\ ops[o].pc = "shown" /\ ops[o].tipo = "bulk"
    /\ IF preview.errores THEN Ended(o, "error")
       ELSE ops' = [ops EXCEPT ![o].pc = "write", ![o].pendientes = preview.cambios]
    /\ UNCHANGED <<grid, events, movidas>>

\* bulkUpdatePrice: the selection and the preview again.
BulkApply(o) ==
    LET preview == computeBulkPreview(ops[o].sel, ops[o].lista, ops[o].ajuste, grid) IN
    /\ ops[o].pc = "shown" /\ ops[o].tipo = "bulk"
    /\ IF preview.errores THEN Ended(o, "error")
       ELSE ops' = [ops EXCEPT ![o].pc = "write", ![o].pendientes = preview.cambios]
    /\ UNCHANGED <<grid, events, movidas>>

-----------------------------------------------------------------------------
(* Writing: statement by statement, each followed by its event.            *)

Escrita(o, cell) == {c \in ops[o].escritas : c.cell = cell}
LockedBy(cell) == {o \in Ops : Escrita(o, cell) # {}}

\* A DELETE sees committed rows and its own: none there, none locked.
NoRow(o, c) ==
    /\ c.valor = SinPrecio
    /\ Escrita(o, c.cell) = {} /\ grid[c.cell[1]][c.cell[2]] = SinPrecio

\* Mutant of Write: one event for a unit, however many of its cells change.
Write_OneEvent(o, c) ==
    /\ Writing(o) /\ c \in ops[o].pendientes
    /\ \A d \in ops[o].pendientes : c.turno <= d.turno
    /\ NoRow(o, c) \/ LockedBy(c.cell) \subseteq {o}
    /\ ops' = [ops EXCEPT
         ![o].pendientes = @ \ {c},
         ![o].escritas = IF NoRow(o, c) THEN @ ELSE (@ \ Escrita(o, c.cell)) \cup {c},
         ![o].audit[c.cell[1]] = 1]
    /\ UNCHANGED <<grid, events, movidas>>

Write(o, c) ==
    /\ Writing(o) /\ c \in ops[o].pendientes
    /\ \A d \in ops[o].pendientes : c.turno <= d.turno
    /\ NoRow(o, c) \/ LockedBy(c.cell) \subseteq {o}
    /\ ops' = [ops EXCEPT
         ![o].pendientes = @ \ {c},
         ![o].escritas = IF NoRow(o, c) THEN @ ELSE (@ \ Escrita(o, c.cell)) \cup {c},
         ![o].audit[c.cell[1]] = @ + 1]
    /\ UNCHANGED <<grid, events, movidas>>

Commit(o) == LET escritas == ops[o].escritas IN
    /\ Writing(o) /\ ops[o].pendientes = {}
    /\ grid' = [u \in Units |-> [campo \in Campos |->
         IF Escrita(o, <<u, campo>>) = {} THEN grid[u][campo]
         ELSE (CHOOSE c \in Escrita(o, <<u, campo>>) : TRUE).valor]]
    /\ events' = [u \in Units |-> events[u] + ops[o].audit[u]]
    /\ movidas' = [p \in Ops |->
         IF p # o /\ ops[p].pc \in {"dry", "shown", "apply", "write"}
         THEN movidas[p] \cup {c.cell : c \in escritas} ELSE {}]
    /\ Ended(o, "done")

\* A statement fails, the connection drops, or PostgreSQL picks the
\* transaction as the victim of a deadlock.
Rollback(o) ==
    /\ ops[o].pc \in {"apply", "write"}
    /\ Ended(o, "error")
    /\ movidas' = [movidas EXCEPT ![o] = {}]
    /\ UNCHANGED <<grid, events>>

-----------------------------------------------------------------------------
Edit(o) == \E u \in Units :
    \/ \E l \in Listas, p \in 0..MaxPrecio : EditPrice(o, u, l, p)
    \/ \E e \in Estados : EditEstado(o, u, e)

RoundTrip(o) ==
    \/ ExportUnits(o) \/ ExportPrices(o)
    \/ \E i \in 1..Cardinality(Units) :
         \/ \E u \in Units \cup {Invalido} : EditFile(o, i, "unit", u)
         \/ \E l \in Listas, p \in Precio \cup {Invalido} : EditFile(o, i, l, p)
         \/ \E e \in Estados \cup {Invalido} : EditFile(o, i, "estado", e)
    \/ DryRunUnits(o) \/ DryRunPrices(o)
    \/ ImportUnits(o) \/ ImportPrices(o)

Bulk(o) ==
    \/ \E sel \in SUBSET Units, l \in Listas, a \in Ajustes : BulkPreview(o, sel, l, a)
    \/ BulkApply(o)

Next == \E o \in Ops :
    \/ Edit(o) \/ RoundTrip(o) \/ Bulk(o)
    \/ \E c \in ops[o].pendientes : Write(o, c)
    \/ Commit(o) \/ Rollback(o)

Spec == Init /\ [][Next]_vars

-----------------------------------------------------------------------------
(* Properties.                                                             *)

\* Prices stay whole dollars between 0 and the cap, whatever the bulk updates
\* and imports that overlap compute (bulk.ts:39-49, units.ts:200-202).
TypeOK ==
    /\ grid \in [Units -> Fila]
    /\ events \in [Units -> Nat]
    /\ ops \in [Ops -> Op]
    /\ movidas \in [Ops -> SUBSET Cells]

Commits(o) == Writing(o) /\ ops'[o].pc = "done"
Changed(u) == {campo \in Campos : grid'[u][campo] # grid[u][campo]}

\* No cell changes without an audit row of its own in the same transaction
\* (units.ts:25-26).
AuditEveryChange ==
    [][\A u \in Units : Cardinality(Changed(u)) <= events'[u] - events[u]]_vars

\* What the operator confirmed is what is written: wherever no one else wrote
\* since the preview, a cell gets the value shown, and no other cell changes
\* (bulk.ts:5-7, units.ts:309-311).
ConfirmedIsApplied ==
    [][\A o \in Ops : Commits(o) /\ ops[o].tipo # "edit" =>
         \A u \in Units, campo \in Campos : <<u, campo>> \notin movidas[o] =>
           LET here == {c \in ops[o].informe : c.cell = <<u, campo>>}
           IN IF here = {} THEN grid'[u][campo] = grid[u][campo]
              ELSE \E c \in here : grid'[u][campo] = c.valor]_vars

\* No unit is in the file twice.
OneRowEach(file) == \A i, j \in DOMAIN file : file[i].unit = file[j].unit => i = j

\* An import of a file that has each unit once leaves the grid as the file
\* says, blank cells included, so that importing it once more is a no-op,
\* unless others wrote in between (units.ts:23-24, 331-332).
ImportLeavesFile ==
    [][\A o \in Ops : Commits(o) /\ ops[o].tipo = "import" /\ movidas[o] = {}
                        /\ OneRowEach(ops[o].file) =>
         \A i \in DOMAIN ops[o].file, campo \in Campos :
           LET row == ops[o].file[i] IN grid'[row.unit][campo] = row[campo]]_vars

\* An invalid row, or one unit whose new price is none, stops the whole
\* import or bulk update (units.ts:22-23, 345-351, 486-493).
AllOrNothing ==
    [][\A o \in Ops : Commits(o) =>
         /\ \A i \in DOMAIN ops[o].file : Valida(ops[o].file[i])
         /\ ops[o].tipo = "bulk" =>
              \A u \in ops[o].sel : Escrita(o, <<u, ops[o].lista>>) # {}]_vars

-----------------------------------------------------------------------------
(* The inductive invariant, a predicate on one operator, the grid and the  *)
(* cells others have moved since its preview.                              *)

At(cambios, cell) == {c \in cambios : c.cell = cell}

\* What the preview of an operator would show over grid g.
Propuesta(op, g) ==
    IF op.tipo = "import" THEN buildDryRun(op.file, g).cambios
    ELSE computeBulkPreview(op.sel, op.lista, op.ajuste, g).cambios

\* What an operator is doing, by its program counter.
PhaseInv(op) ==
    /\ op.pc = "idle" => op = IdleOp
    /\ op.pc \in {"export", "dry", "apply"} => op.leido \in [Units -> Estados]
    /\ op.pc \in {"export", "file", "edited", "dry", "apply"} => op.tipo = "import"
    /\ op.pc \in {"shown", "write"} => op.tipo # "none"
    /\ op.tipo # "import" => op.file = <<>>
    /\ op.pc # "write" => op.pendientes = {} /\ op.escritas = {}
    /\ op.tipo = "bulk" => op.ajuste \in Ajustes

\* Where no one else wrote, what was read and shown is what a new look at the
\* grid would show.
ReadInv(op, g, movida) ==
    /\ op.pc \in {"dry", "apply"} => \A u \in Units :
         <<u, "estado">> \notin movida => op.leido[u] = g[u].estado
    /\ op.pc \in {"shown", "apply", "write"} /\ op.tipo # "edit" =>
         \A x \in Cells \ movida : At(op.informe, x) = At(Propuesta(op, g), x)

\* A transaction that writes has a valid file; what it wrote and will write
\* is what was shown, and nothing shown is forgotten.
WriteInv(op, movida) == LET todas == op.pendientes \cup op.escritas IN
    op.pc = "write" =>
      /\ \A i \in DOMAIN op.file : Valida(op.file[i])
      /\ op.tipo = "bulk" =>
           /\ \A c \in todas : c.valor # SinPrecio
           /\ \A u \in op.sel : At(todas, <<u, op.lista>>) # {}
      /\ op.tipo # "edit" => \A x \in Cells \ movida :
           /\ At(todas, x) \subseteq At(op.informe, x)
           /\ At(todas, x) = {} => At(op.informe, x) = {}

\* Every cell written has an event.
Escritos(op, u) == {campo \in Campos : At(op.escritas, <<u, campo>>) # {}}
EventInv(op) == \A u \in Units : Cardinality(Escritos(op, u)) <= op.audit[u]

GridInv ==
    /\ TypeOK
    /\ \A o \in Ops : /\ PhaseInv(ops[o]) /\ ReadInv(ops[o], grid, movidas[o])
                      /\ WriteInv(ops[o], movidas[o]) /\ EventInv(ops[o])

=============================================================================
