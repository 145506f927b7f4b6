------------------------------ MODULE StaffMC -------------------------------
(* The instance TLC checks: what organisers grant, and what is interchangeable. *)
EXTENDS Staff, TLC

CONSTANT c1

SomeRoles == {[code |-> "ADMIN", scope |-> c1, level |-> "EDIT"],
              [code |-> "STAFF", scope |-> Global, level |-> "none"]}

Interchangeable == Permutations(SessionIds) \cup Permutations(TokenIds) \cup Permutations(Supers) \cup Permutations(Requests)
=============================================================================
