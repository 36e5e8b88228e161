---------------------------- MODULE PdfDelivery ----------------------------
(***************************************************************************)
(* What the quote pipeline promises the buyer, without queue, worker or    *)
(* storage: a quote is offered once with a total, its PDF appears at most  *)
(* once, carries that total, and is the same document on every download.   *)
(***************************************************************************)
CONSTANTS Quotes, Totals, Dias, NoTotal, NoPdf

VARIABLES
    oferta,   \* [Quotes -> Totals or NoTotal]: the total of the persisted quote
    pdf,      \* [Quotes -> document or NoPdf]: the document behind the link
    visto     \* [Quotes -> set of documents]: what buyers downloaded

vars == <<oferta, pdf, visto>>

Init ==
    /\ oferta = [q \in Quotes |-> NoTotal]
    /\ pdf = [q \in Quotes |-> NoPdf]
    /\ visto = [q \in Quotes |-> {}]

Offer(q, t) ==
    /\ oferta[q] = NoTotal
    /\ oferta' = [oferta EXCEPT ![q] = t]
    /\ UNCHANGED <<pdf, visto>>

Publish(q, d) ==
    /\ oferta[q] # NoTotal /\ pdf[q] = NoPdf
    /\ pdf' = [pdf EXCEPT ![q] = [total |-> oferta[q], fecha |-> d]]
    /\ UNCHANGED <<oferta, visto>>

Download(q) ==
    /\ pdf[q] # NoPdf
    /\ visto' = [visto EXCEPT ![q] = @ \cup {pdf[q]}]
    /\ UNCHANGED <<oferta, pdf>>

Next == \E q \in Quotes :
    \/ \E t \in Totals : Offer(q, t)
    \/ \E d \in Dias : Publish(q, d)
    \/ Download(q)

Spec == Init /\ [][Next]_vars

=============================================================================
