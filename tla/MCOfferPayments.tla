-------------------------- MODULE MCOfferPayments --------------------------
(***************************************************************************)
(* Instances of OfferPayments.  The derived addresses are ordered, the     *)
(* offers and the runs of checkPayments are not: no property names one.    *)
(***************************************************************************)
EXTENDS OfferPayments, TLC

OfferSymmetry == Permutations(Offer) \cup Permutations(Run)
=============================================================================
