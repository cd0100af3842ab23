------------------------------ MODULE MCPrintPath -----------------------------
(* One invoice; its event lasts one day or two. The sheet of two invoices on   *)
(* one day is the same definition with more members and is not run.            *)
EXTENDS PrintPath
CONSTANTS i1, d1, d2, x1

MCRows == {[days |-> {d1}, rest |-> 1], [days |-> {d1, d2}, rest |-> 1]}
MCInvoices == {i1}
MCDays == {d1, d2}
MCItems == {x1}
===============================================================================
