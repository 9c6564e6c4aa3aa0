----------------------------- MODULE CloudRoles -----------------------------
(***************************************************************************)
(* resolve_interfaces of freesense_cloud_init.py: which device is wan, lan *)
(* and opt1, opt2, ... A metadata interface names a device by its name, by *)
(* its MAC address or by both; an address is written here as the device    *)
(* that has it, or Other if no device has it (two Others may differ).      *)
(***************************************************************************)
EXTENDS Naturals, FiniteSets, Sequences, SequencesExt

CONSTANTS
    Devices,        \* the detected devices, in the order of ifconfig -l
    MaxItems,       \* bound on the metadata's interfaces
    MaxMappings,    \* bound on the explicit role mappings
    MappedRoles,    \* roles an explicit mapping may give
    Other, None, Invalid

VARIABLES
    detected, items, mappings,  \* the input
    result                      \* None, Invalid, or the roles of the devices

vars == <<detected, items, mappings, result>>

Names == {Devices[i] : i \in 1..2}
Item == [name : Names \cup {Other, None}, mac : Names \cup {Other, None},
         default : BOOLEAN]
Mapping == [match : ToSet(Devices), role : MappedRoles]

Init ==
    /\ detected \in {SubSeq(Devices, 1, n) : n \in 1..Len(Devices)}
    /\ items \in SeqOf(Item, MaxItems)
    /\ mappings \in SeqOf(Mapping, MaxMappings)
    /\ result = None

-----------------------------------------------------------------------------
Repeats(s, x) == \E i, j \in DOMAIN s : i # j /\ s[i] = x /\ s[j] = x

\* normalize_network refuses two interfaces with one name or one address.
Duplicate ==
    \E n \in Names : \/ Repeats([i \in DOMAIN items |-> items[i].name], n)
                    \/ Repeats([i \in DOMAIN items |-> items[i].mac], n)

Candidates(item) == {item.name, item.mac} \cap ToSet(detected)

\* Every item is exactly one device, and no device is two items.
Resolvable ==
    /\ \A i \in DOMAIN items : Cardinality(Candidates(items[i])) = 1
    /\ \A i, j \in DOMAIN items :
         i # j => Candidates(items[i]) # Candidates(items[j])

\* Without metadata every device is an interface.
Resolved ==
    IF items = <<>>
    THEN [i \in DOMAIN detected |->
            [device |-> detected[i], name |-> detected[i], mac |-> detected[i],
             default |-> FALSE]]
    ELSE [i \in DOMAIN items |->
            [device |-> CHOOSE d \in Candidates(items[i]) : TRUE,
             name |-> items[i].name, mac |-> items[i].mac,
             default |-> items[i].default]]

\* A mapping that names a device by its name, its metadata name or address.
Matches(m) ==
    {i \in DOMAIN Resolved :
       m.match \in {Resolved[i].device, Resolved[i].name, Resolved[i].mac}}

MappingsValid ==
    /\ \A k \in DOMAIN mappings : Cardinality(Matches(mappings[k])) = 1
    /\ \A k, l \in DOMAIN mappings :
         k # l => /\ mappings[k].role # mappings[l].role
                  /\ Matches(mappings[k]) # Matches(mappings[l])

Explicit ==
    [d \in {Resolved[i].device : i \in UNION {Matches(mappings[k]) : k \in DOMAIN mappings}}
       |-> (CHOOSE m \in ToSet(mappings) :
              \E i \in Matches(m) : Resolved[i].device = d).role]

Remaining(roles) == SelectSeq(Resolved, LAMBDA r : r.device \notin DOMAIN roles)

Assign(roles, d, role) ==
    [x \in DOMAIN roles \cup {d} |-> IF x = d THEN role ELSE roles[x]]

Taken(roles) == {roles[d] : d \in DOMAIN roles}

Carriers(roles) == SelectSeq(Remaining(roles), LAMBDA r : r.default)

\* wan is the interface with the default route, else the first one.
Wan(roles) ==
    IF "wan" \in Taken(roles) \/ Remaining(roles) = <<>> THEN roles
    ELSE Assign(roles, IF Carriers(roles) # <<>> THEN Carriers(roles)[1].device
                       ELSE Remaining(roles)[1].device, "wan")

Opt(i) == <<"opt1", "opt2", "opt3", "opt4", "opt5", "opt6">>[i]

NextRole(roles) ==
    IF "lan" \notin Taken(roles) THEN "lan"
    ELSE Opt(CHOOSE i \in 1..6 :
               Opt(i) \notin Taken(roles) /\ \A j \in 1..(i - 1) : Opt(j) \in Taken(roles))

Roles ==
    FoldLeft(LAMBDA roles, r : Assign(roles, r.device, NextRole(roles)),
             Wan(Explicit), Remaining(Wan(Explicit)))

\* Two default routes are refused while wan is not given; a single interface
\* is wan whatever its mapping says.
Resolve ==
    /\ result = None
    /\ result' =
         IF \/ Duplicate
            \/ items # <<>> /\ ~Resolvable
            \/ ~MappingsValid
            \/ "wan" \notin Taken(Explicit) /\ Len(Carriers(Explicit)) > 1
         THEN Invalid
         ELSE IF Cardinality(DOMAIN Roles) = 1 THEN [d \in DOMAIN Roles |-> "wan"]
         ELSE Roles
    /\ UNCHANGED <<detected, items, mappings>>

Next == Resolve

Spec == Init /\ [][Next]_vars

-----------------------------------------------------------------------------
Done == result \notin {None, Invalid}

\* Every interface of the metadata, or every device if there is none, has a
\* role, and no two have the same: the interfaces section that apply writes
\* (620-629) has one element per role (385-450).
RolesDistinct ==
    Done => /\ DOMAIN result = {Resolved[i].device : i \in DOMAIN Resolved}
            /\ Cardinality(Taken(result)) = Cardinality(DOMAIN result)

\* There is a wan, unless the mappings gave every interface another role
\* (422-432, 567-577).
WanExists ==
    Done => \/ "wan" \in Taken(result)
            \/ DOMAIN Explicit = DOMAIN result

\* The interface that carries the only default route is wan when the
\* mappings leave that open (425-429).
DefaultRouteIsWan ==
    Done /\ "wan" \notin Taken(Explicit) =>
        \A i \in DOMAIN Resolved :
           Resolved[i].default /\ Resolved[i].device \notin DOMAIN Explicit
             => result[Resolved[i].device] = "wan"

\* Explicit roles are kept, and the others have no gaps: an automatic opt
\* role is given only when lan and all lower opt roles are (433-447).
NoGaps ==
    Done /\ Cardinality(DOMAIN result) > 1 =>
        /\ \A d \in DOMAIN Explicit : result[d] = Explicit[d]
        /\ \A d \in DOMAIN result \ DOMAIN Explicit, i \in 1..6 :
             result[d] = Opt(i) =>
                {"lan"} \cup {Opt(j) : j \in 1..(i - 1)} \subseteq Taken(result)

\* What the assignment promises, for every input that is not refused.
RolesRight == RolesDistinct /\ WanExists /\ DefaultRouteIsWan /\ NoGaps
=============================================================================
