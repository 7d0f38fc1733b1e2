----------------------------- MODULE MCLedgerStore -----------------------------
(* A small instance of LedgerStore. *)
EXTENDS LedgerStore

CONSTANTS by_operator, by_agent, ill_formed

ThreeResults == {by_operator, by_agent, ill_formed}
Authorities  == {"operator", "agent", "ingested"}
VouchedBy(result) == IF result = by_operator THEN "operator" ELSE "agent"
=============================================================================
