----------------------------- MODULE MCCatalogue -----------------------------
(***************************************************************************)
(* A small instance of Catalogue.                                          *)
(***************************************************************************)
EXTENDS Catalogue, TLC

CONSTANTS t1, q1, q2

\* The two notifications of the batch use the same template.
OneTemplate == [n \in Ids |-> IF n < 3 THEN t1 ELSE NoTemplate]

TwoOfThree == {{1, 2}}

Interchangeable == Permutations(Requests)

=============================================================================
