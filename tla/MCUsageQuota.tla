------------------------------ MODULE MCUsageQuota ------------------------------
(* UsageQuota on small instances. *)
EXTENDS UsageQuota, TLC

\* Chat requests differ in nothing but their names.
Interchangeable == Permutations(Chats)

===============================================================================
