---------------------------- MODULE MCCopilotChat ----------------------------
(* Two questions; the conversations they create are the past ones to load. *)
EXTENDS CopilotChat, TLC

Symmetry == Permutations(Sends)

===============================================================================
