----------------------------- MODULE MCInvoiceSync ----------------------------
(* Two invoices, the timer's run and one by hand; either may find the lock    *)
(* taken, or go on without it. Contents: an estimate without money, to which   *)
(* an invoice returns by a refund, and one with its deposit and a date.       *)
EXTENDS InvoiceSync
CONSTANTS i1, i2, timer, hand

MCContents ==
  { [status |-> "UNPAID", paid |-> 0, terms |-> "due", date |-> None],
    [status |-> "PARTIALLY_PAID", paid |-> 1, terms |-> "half due", date |-> "day"] }
MCInvoices == {i1, i2}
MCRunners == {timer, hand}
===============================================================================
