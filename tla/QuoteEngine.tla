----------------------------- MODULE QuoteEngine -----------------------------
(***************************************************************************)
(* The amounts of a quote: what quotes.compute answers for a request, from *)
(* the rows resolveAndQuote reads (routers/quotes.ts) to the schedule that *)
(* calcQuote makes of them (packages/quoting).  One request, one answer.   *)
(*                                                                         *)
(* Data: whole USD; a percentage in hundredths of a percent, a CAC value   *)
(* in ten-thousandths, an ARS amount in cents, so that the decimals of the *)
(* code are integers here.  What may be missing is a set of at most one.   *)
(***************************************************************************)
EXTENDS Integers, Sequences, FiniteSets, Functions

CONSTANTS Plans, Precios, Cacs      \* what the three tables may hold

EngineAssumption ==
    /\ Precios \subseteq Nat /\ Cacs \subseteq Nat
    /\ \A p \in Plans : /\ p.anticipoPct \in Int /\ p.cuotas \in Int
                        /\ p.ajuste \in {"CAC", "fijo"}
                        /\ p.refuerzos \in Seq([cuota: Int, montoUsd: Int])

VARIABLES request, answer

vars == <<request, answer>>

AtMostOne(S) == {{}} \cup {{x} : x \in S}

Requests == [modalidad: {"contado", "financiado"}, plan: AtMostOne(Plans),
             contado: AtMostOne(Precios), financiado: AtMostOne(Precios), cac: AtMostOne(Cacs)]

Total(amounts) == FoldFunction(+, 0, amounts)

Refusal(code) == [kind |-> "refused", code |-> code]

-----------------------------------------------------------------------------
(* money.ts: half-up to a whole USD or to a cent, and the instalments.     *)

RoundHalfUpUsd(precio, anticipoPct) == (2 * precio * anticipoPct + 10000) \div 20000

AllocateCuotas_NoResto(saldo, n) == [i \in 1..n |-> saldo \div n]

AllocateCuotas(saldo, n) ==
    LET base == saldo \div n
        resto == saldo - base * n
    IN [i \in 1..n |-> IF i = n THEN base + resto ELSE base]

Decimal2(usd, cac) == (2 * usd * cac + 100) \div 200

-----------------------------------------------------------------------------
(* calcQuote.                                                              *)

FueraDePlazo_LastExcluded(plan, i) == plan.refuerzos[i].cuota \notin 1..(plan.cuotas - 1)

FueraDePlazo(plan, i) == plan.refuerzos[i].cuota \notin 1..plan.cuotas
Duplicado(plan, i) == \E j \in 1..(i - 1) : plan.refuerzos[j].cuota = plan.refuerzos[i].cuota

\* The loop over the refuerzos stops at the first one that is at fault.
RefuerzosRefused(plan) ==
    {IF FueraDePlazo(plan, i) THEN "REFUERZO_FUERA_DE_PLAZO" ELSE "REFUERZO_DUPLICADO" :
        i \in {i \in DOMAIN plan.refuerzos :
                 /\ FueraDePlazo(plan, i) \/ Duplicado(plan, i)
                 /\ \A j \in 1..(i - 1) : ~FueraDePlazo(plan, j) /\ ~Duplicado(plan, j)}}

RefuerzosTotal(plan) == Total([i \in DOMAIN plan.refuerzos |-> plan.refuerzos[i].montoUsd])

\* The schedule of a plan that passed every check but the last.
Schedule(precio, plan, cac) ==
    LET anticipo == RoundHalfUpUsd(precio, plan.anticipoPct)
        refuerzos == RefuerzosTotal(plan)
        saldo == precio - anticipo - refuerzos
        cuotas == AllocateCuotas(saldo, plan.cuotas)
        cac1 == IF plan.ajuste = "CAC" THEN cac ELSE {}
    IN IF saldo <= 0 THEN Refusal("SALDO_NO_POSITIVO")
       ELSE [kind |-> "financiado", precioUsd |-> precio, anticipoUsd |-> anticipo,
             saldoUsd |-> saldo, cuotas |-> cuotas, refuerzosUsd |-> refuerzos,
             ars |-> [i \in DOMAIN cuotas |-> {Decimal2(cuotas[i], valor) : valor \in cac1}],
             totalUsd |-> anticipo + Total(cuotas) + refuerzos]

Financiado(precio, plan, cac) ==
    IF plan.anticipoPct < 0 \/ plan.anticipoPct > 10000 THEN Refusal("ANTICIPO_PCT_FUERA_DE_RANGO")
    ELSE IF plan.cuotas < 1 THEN Refusal("CUOTAS_INVALIDAS")
    ELSE IF plan.ajuste = "CAC" /\ cac = {} THEN Refusal("CAC_REQUERIDO")
    ELSE IF RefuerzosRefused(plan) # {} THEN Refusal(CHOOSE c \in RefuerzosRefused(plan) : TRUE)
    ELSE Schedule(precio, plan, cac)

\* One input of calcQuote, PLAN_REQUERIDO included.
CalcQuote(modalidad, contado, financiado, plans, cac) ==
    IF modalidad = "contado" THEN {[kind |-> "contado", precioUsd |-> contado]}
    ELSE IF plans = {} THEN {Refusal("PLAN_REQUERIDO")}
    ELSE {Financiado(financiado, plan, cac) : plan \in plans}

-----------------------------------------------------------------------------
(* resolveAndQuote.                                                        *)

CacMissing_AnyPlan(r) == r.modalidad = "financiado" /\ r.cac = {}

CacMissing(r) == r.modalidad = "financiado" /\ r.cac = {} /\ \E p \in r.plan : p.ajuste = "CAC"

ResolveAndQuote(r) ==
    IF r.plan = {} \/ r.contado = {} \/ r.financiado = {} \/ CacMissing(r)
    THEN {Refusal("PRECONDITION_FAILED")}
    ELSE UNION {CalcQuote(r.modalidad, c, f, r.plan, r.cac) : c \in r.contado, f \in r.financiado}

NoAnswer == [kind |-> "none"]

Init == request \in Requests /\ answer = NoAnswer

Compute ==
    /\ answer = NoAnswer /\ answer' \in ResolveAndQuote(request)
    /\ UNCHANGED request

Next == Compute

Spec == Init /\ [][Next]_vars

-----------------------------------------------------------------------------
(* Properties.                                                             *)

\* The founding invariant of the engine: anticipo, instalments and refuerzos
\* add up to the price to the dollar, whatever the roundings; the instalments
\* are equal but for the last, which takes less than one dollar per
\* instalment more; the anticipo is the nearest dollar; and the pesos printed
\* drift from the financed amount by at most half a cent per instalment.
QuoteReconciles ==
    answer.kind = "financiado" =>
        \A plan \in request.plan :
        LET n == plan.cuotas
        IN /\ answer.totalUsd = answer.precioUsd
           /\ answer.anticipoUsd + answer.saldoUsd + answer.refuerzosUsd = answer.precioUsd
           /\ DOMAIN answer.cuotas = 1..n
           /\ \A i \in 1..(n - 1) : answer.cuotas[i] = answer.cuotas[1]
           /\ answer.cuotas[n] - answer.cuotas[1] \in 0..(n - 1)
           /\ 20000 * answer.anticipoUsd <= 2 * answer.precioUsd * plan.anticipoPct + 10000
           /\ 2 * answer.precioUsd * plan.anticipoPct < 20000 * answer.anticipoUsd + 10000
           /\ plan.ajuste = "CAC" =>
                \A cac \in request.cac :
                    LET pesos == [i \in 1..n |-> CHOOSE a \in answer.ars[i] : TRUE]
                    IN 100 * Total(pesos) - answer.saldoUsd * cac \in (-50 * n)..(50 * n)

\* The conditions errors.ts documents, each on its own.
Degenerate(precio, plan) ==
    LET cuotas == [i \in DOMAIN plan.refuerzos |-> plan.refuerzos[i].cuota]
    IN (IF plan.anticipoPct \notin 0..10000 THEN {"ANTICIPO_PCT_FUERA_DE_RANGO"} ELSE {})
       \cup (IF plan.cuotas < 1 THEN {"CUOTAS_INVALIDAS"} ELSE {})
       \cup (IF Range(cuotas) \subseteq 1..plan.cuotas THEN {} ELSE {"REFUERZO_FUERA_DE_PLAZO"})
       \cup (IF IsInjective(cuotas) THEN {} ELSE {"REFUERZO_DUPLICADO"})
       \cup (IF precio > RoundHalfUpUsd(precio, plan.anticipoPct) + RefuerzosTotal(plan)
             THEN {} ELSE {"SALDO_NO_POSITIVO"})

\* The rows an operator may have left out: the plan, either price, and the
\* CAC index if financed amounts follow it (quotes.ts:64-133).
Incomplete(r) ==
    \/ {} \in {r.plan, r.contado, r.financiado}
    \/ r.cac = {} /\ \E p \in r.plan : r.modalidad = "financiado" /\ p.ajuste = "CAC"

\* The code is the precondition the operator can fix exactly if a row is
\* missing, never the PLAN_REQUERIDO or CAC_REQUERIDO of the engine
\* (quotes.ts:125-127).  With every row there a contado request is answered
\* with its price, and a financed one exactly if none of the conditions
\* errors.ts documents holds: a refusal names one that does.
RefusesExactlyTheDegenerate ==
    answer # NoAnswer =>
        /\ Incomplete(request) <=> answer = Refusal("PRECONDITION_FAILED")
        /\ ~Incomplete(request) /\ request.modalidad = "contado"
             => \E c \in request.contado : answer = [kind |-> "contado", precioUsd |-> c]
        /\ ~Incomplete(request) /\ request.modalidad = "financiado"
             => \E plan \in request.plan, precio \in request.financiado :
                    LET faults == Degenerate(precio, plan)
                    IN IF faults = {} THEN answer.kind = "financiado"
                       ELSE \E code \in faults : answer = Refusal(code)

=============================================================================
