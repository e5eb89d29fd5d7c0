------------------------------ MODULE MC_Contact ------------------------------
(* Small instances of Contact: the requests of one thread.                  *)
EXTENDS Contact

SameThread == [r \in Requests |-> 1]
=============================================================================
