--------------------------- MODULE MCProductTerms ---------------------------
(* One mutable record, one optional static document, two package directories. *)
EXTENDS ProductTerms, TLC

\* The directories and the wordings of documents are interchangeable.
Interchangeable == Permutations(Packages) \cup Permutations(Labels)
=============================================================================
