---------------------------- MODULE ManagerCache ----------------------------
(***************************************************************************)
(* What ManagerFor promises its callers, without the lock and its steps:   *)
(* a call ends with a manager, and there is one instant of the call at     *)
(* which it either takes the manager that is kept for what it asked for,   *)
(* or makes one and keeps it.  ManagerFactory implements this.             *)
(***************************************************************************)
CONSTANTS
  Callers, Owners, Nobody,
  Ids, Id(_),      \* what a manager is kept under
  MadeFor(_, _)    \* whether a manager is one made for an owner

VARIABLES
  kept,    \* identifier -> manager, or Nobody
  busy,    \* the callers in a call
  wants,   \* what each caller asked for last
  holds    \* and the manager it has got for it, or Nobody

vars == <<kept, busy, wants, holds>>

Init ==
  /\ kept = [i \in Ids |-> Nobody]
  /\ busy = {}
  /\ wants \in [Callers -> Owners]
  /\ holds = [c \in Callers |-> Nobody]

Ask(c) ==
  /\ c \notin busy /\ busy' = busy \cup {c}
  /\ \E o \in Owners : wants' = [wants EXCEPT ![c] = o]
  /\ holds' = [holds EXCEPT ![c] = Nobody]
  /\ UNCHANGED kept

Waits(c) == c \in busy /\ holds[c] = Nobody

Take(c) ==
  /\ Waits(c) /\ kept[Id(wants[c])] # Nobody
  /\ holds' = [holds EXCEPT ![c] = kept[Id(wants[c])]]
  /\ UNCHANGED <<kept, busy, wants>>

(* One more manager may be made while another is kept: the old one stays    *)
(* with whoever holds it.                                                   *)
Make(c) ==
  /\ Waits(c)
  /\ LET m == holds'[c] IN
       /\ MadeFor(m, wants[c])
       /\ holds' = [holds EXCEPT ![c] = m]
       /\ kept'  = [kept EXCEPT ![Id(wants[c])] = m]
  /\ UNCHANGED <<busy, wants>>

Return(c) ==
  /\ c \in busy /\ holds[c] # Nobody
  /\ busy' = busy \ {c}
  /\ UNCHANGED <<kept, wants, holds>>

Next == \E c \in Callers : Ask(c) \/ Take(c) \/ Make(c) \/ Return(c)

Spec == Init /\ [][Next]_vars
=============================================================================
