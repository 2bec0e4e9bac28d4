------------------------------ MODULE MCImportWatch ------------------------------
(* ImportWatch on small instances. *)
EXTENDS ImportWatch

\* Bound: once something is not followed, the properties of the list ask nothing more of it, only the
\* one of the buttons; the jobs then change by what the page itself sends.
OthersLetBe == unfollowed => status' = status \/ request' # request
=============================================================================
