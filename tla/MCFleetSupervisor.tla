-------------------------- MODULE MCFleetSupervisor --------------------------
(* Constants for TLC's runs of FleetSupervisor. *)
EXTENDS FleetSupervisor, TLC

CONSTANTS p1, p2

\* p1 is configured with a port; its directory name is a prefix of p2's.
MCSavedPort == (p1 :> 1) @@ (p2 :> 0)
MCDirHits == (p1 :> {p1, p2}) @@ (p2 :> {p2})
=============================================================================
