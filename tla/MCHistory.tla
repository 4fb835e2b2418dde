----------------------------- MODULE MCHistory -----------------------------
(* Small instances of History for TLC.                                       *)
EXTENDS History

\* All runs verify the same host.
MCHostOf == [r \in Run |-> CHOOSE h \in Host : TRUE]
=============================================================================
