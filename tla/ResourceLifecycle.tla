------------------------- MODULE ResourceLifecycle --------------------------
(***************************************************************************)
(* What the controller promises of the resources behind one object, seen   *)
(* from outside: no reconciles, no calls, no views.  ResourceReconciler    *)
(* implements this.                                                        *)
(*                                                                         *)
(* excused counts what makes the controller lose sight of a resource (an   *)
(* answer that never came, a crash, an edit of the names it goes by), and  *)
(* outside what is deleted without it.                                     *)
(***************************************************************************)
EXTENDS Naturals, FiniteSets

CONSTANT Ids

VARIABLES
  object,   \* "there", "deleting" or "gone"
  held,     \* the controller's finalizer is on it
  ever,     \* the resources that were ever made
  live,     \* and those nobody has asked to delete
  excused, outside

vars == <<object, held, ever, live, excused, outside>>

Init ==
  /\ object = "there" /\ ~held
  /\ ever = {} /\ live = {}
  /\ excused = 0 /\ outside = 0

(* All there is left is what the controller could not see. *)
Cleared(resources) == Cardinality(resources) <= excused

Hold ==
  /\ object # "gone" /\ ~held /\ held'
  /\ UNCHANGED <<object, ever, live>>

(* The object is given back when there is nothing behind it. *)
GiveBack ==
  /\ held /\ ~held' /\ Cleared(live)
  /\ object' = IF object = "deleting" THEN "gone" ELSE object
  /\ UNCHANGED <<ever, live>>

Delete ==
  /\ object = "there"
  /\ object' = IF held THEN "deleting" ELSE "gone"
  /\ UNCHANGED <<held, ever, live>>

(* A resource is made for an object that is held, and for no other reason   *)
(* than that there is none.                                                 *)
Make ==
  /\ held /\ Cleared(live)
  /\ \E i \in Ids \ ever : live' = live \cup {i} /\ ever' = ever \cup {i}
  /\ UNCHANGED <<object, held>>

(* The user or somebody else has deleted it; only in the first case may the *)
(* controller do so too.                                                    *)
Unmake ==
  /\ (object = "deleting" /\ held) \/ outside' > outside
  /\ \E i \in live : live' = live \ {i}
  /\ UNCHANGED <<object, held, ever>>

Fault == UNCHANGED <<object, held, ever, live>>

Next ==
  /\ excused' \in {excused, excused + 1} /\ outside' \in {outside, outside + 1}
  /\ Hold \/ GiveBack \/ Delete \/ Make \/ Unmake \/ Fault

Spec == Init /\ [][Next]_vars
=============================================================================
