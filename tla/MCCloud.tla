------------------------------- MODULE MCCloud -------------------------------
(***************************************************************************)
(* Cloud provisioning for TLC: the phases of CloudInit, and the assignment *)
(* of roles, which is one step of theirs. In a behaviour one of them runs: *)
(* part says which.                                                        *)
(***************************************************************************)
EXTENDS CloudInit, TLC

CONSTANTS MaxItems, MaxMappings, MappedRoles, Other, Invalid

VARIABLES part, detected, items, mappings, result

roles == <<detected, items, mappings, result>>
all == <<vars, roles, part>>

R == INSTANCE CloudRoles WITH Devices <- <<"vtnet0", "vtnet1", "vtnet2", "vtnet3">>

InitAll ==
    /\ Init
    /\ \/ part = "roles" /\ R!Init
       \/ /\ part = "phases"
          /\ detected = <<>> /\ items = <<>> /\ mappings = <<>> /\ result = None

SpecAll ==
    /\ InitAll
    /\ [][\/ part = "phases" /\ Next /\ UNCHANGED <<roles, part>>
          \/ part = "roles" /\ R!Next /\ UNCHANGED <<vars, part>>]_all

Symmetry == Permutations(Instances)

-----------------------------------------------------------------------------
\* No default password is left and SSH is open only with keys (CloudInit).
\* Roles are complete and distinct, there is a wan where the mappings allow one
\* and it has the only default route, and explicit roles are kept without gaps
\* in the others (CloudRoles).
CloudRight == AccessSafe /\ R!RolesRight
===============================================================================
