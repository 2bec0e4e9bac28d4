----------------------------- MODULE MCImportQueue -----------------------------
(* ImportQueue on small instances. *)
EXTENDS ImportQueue, TLC

\* Worker processes and request slots differ in nothing but their names.
Interchangeable == Permutations(Workers) \cup Permutations(Requests)

===============================================================================
