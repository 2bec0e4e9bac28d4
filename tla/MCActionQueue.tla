------------------------------ MODULE MCActionQueue ------------------------------
EXTENDS ActionQueue, TLC

\* Two types with one recommendation each: a decision writes the list that holds its row and one
\* that does not.
CONSTANTS Pricing, Waste, Price, Batch
MCRows == (Pricing :> {Price}) @@ (Waste :> {Batch})

\* The calls are alike, and so are the two types, each with its row.
MCSwap == (Pricing :> Waste) @@ (Waste :> Pricing) @@ (Price :> Batch) @@ (Batch :> Price)
MCSymmetry == Permutations(Calls) \cup {MCSwap}
=============================================================================
