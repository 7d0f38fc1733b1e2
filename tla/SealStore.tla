------------------------------- MODULE SealStore -------------------------------
(***************************************************************************)
(* What a SealStore promises its callers (store.py, class SealStore): a    *)
(* log of check results that only grows, one row per append, each under a  *)
(* positive id.                                                            *)
(***************************************************************************)
EXTENDS Naturals, Sequences

CONSTANT Results        \* what is stored: one check applied to one subject

VARIABLE log

Row == [id : Nat \ {0}, result : Results]

Init == log = <<>>

AppendRow ==
    /\ Len(log') = Len(log) + 1
    /\ SubSeq(log', 1, Len(log)) = log
    /\ log'[Len(log')] \in Row

Spec == Init /\ [][AppendRow]_log
=============================================================================
