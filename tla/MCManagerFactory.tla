-------------------------- MODULE MCManagerFactory --------------------------
(* ManagerFactory with three workers and two roles of one account. *)
EXTENDS ManagerFactory

TwoRoles == {[account |-> "a", region |-> "r", role |-> x] : x \in {"admin", "dev"}}
=============================================================================
