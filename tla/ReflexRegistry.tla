--------------------------- MODULE ReflexRegistry ---------------------------
(***************************************************************************)
(* What the promotion gate promises the operator: a set of active reflexes *)
(* that changes by their orders only, except that housekeeping may forget  *)
(* reflexes approved long ago.  Nothing but an approval activates one.     *)
(***************************************************************************)
CONSTANT Patterns

VARIABLE active

RegistryInit == active = {}

Approve(p) == active' = active \cup {p}

Disable(p) == active' = active \ {p}

Forget == active' \in SUBSET active

RegistryNext ==
  \/ \E p \in Patterns : Approve(p) \/ Disable(p)
  \/ Forget

RegistrySpec == RegistryInit /\ [][RegistryNext]_active
=============================================================================
