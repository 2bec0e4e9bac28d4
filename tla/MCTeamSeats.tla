----------------------------- MODULE MCTeamSeats -----------------------------
(* Three people, two invitations and two requests at a time. *)
EXTENDS TeamSeats, TLC

Symmetry == Permutations(People \ {Owner}) \cup Permutations(Invites) \cup Permutations(Requests)

===============================================================================
