----------------------------- MODULE MCIgmpProxy -----------------------------
(* IgmpProxy on two interfaces with two groups, one of them with a loyal host. *)
EXTENDS IgmpProxy

CONSTANTS n1, n2, g1, g2

MCLoyal == {<<n1, g1>>}
MCNobody == {}
=============================================================================
