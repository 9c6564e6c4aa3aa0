----------------------------- MODULE DeviceCalls -----------------------------
(***************************************************************************)
(* The functions of the PHP module that configure network devices, called  *)
(* by the scripts of several PHP workers at once. A function is a sequence *)
(* of ioctls; an ioctl is atomic, and between two of them another worker   *)
(* may run. Most functions read an object, change a field of it and write  *)
(* it back: a port or a LAG group of an Ethernet switch, the flags or the  *)
(* capabilities of an interface, the flags of a bridge member. setmode and *)
(* vlan_create write only, vlan_create in two steps. setvlangroup fills a  *)
(* VLAN group of the switch, the first unused one if it is given none.     *)
(***************************************************************************)
EXTENDS Integers, FiniteSets

CONSTANTS
    Workers,
    Initial,        \* the objects (ports, LAG groups, interfaces, ...) at first
    NPorts, NVlanGroups, NLagGroups,
    MaxPvid,        \* the greatest VLAN id of a port (4094)
    Supported,      \* the capabilities of the interfaces
    Calls,          \* calls scripts make: [fn, obj, and the function's arguments]
    MaxCalls,       \* bound: calls that are made
    MaxFaults,      \* bound: ioctls that fail
    None

VARIABLES
    dev,            \* the state of every object
    vg,             \* VLAN groups: [vid, members, untagged], vid 0 if unused
    pc, call,       \* of each worker: where it is, its call,
    got,            \*   the object as it was read,
    grp,            \*   the VLAN group it looks at,
    stale,          \*   history: others wrote what it has read
    unused,         \*   history: groups that were unused ever since the call began
    ncalls, nfaults

kernel == <<dev, vg>>
vars == <<kernel, pc, call, got, grp, stale, unused, ncalls, nfaults>>

Groups == 0..(NVlanGroups - 1)
Ports == 0..(NPorts - 1)
States == {"forwarding", "blocking", "learning", "disabled"}
Modes == {"isl", "port", "dot1q", "dot1q4k", "qinq"}

\* The ports in a call's array that the switch has; untagged unless tagged.
Members(c) == Ports \cap DOMAIN c.data
Untagged(c) == {p \in Members(c) : c.data[p] # "tagged"}

\* A negative value clears bits of a word, any other sets them.
Flip(c, word) == IF c.clear THEN word \ c.bits ELSE word \cup c.bits

\* What each function writes, given what it has read. A value out of range
\* leaves the port as it is, an unknown mode is mode 0.
etherswitch_setport(c, was) ==
    IF c.pvid \in 0..MaxPvid THEN [was EXCEPT !.pvid = c.pvid] ELSE was
etherswitch_setport_state(c, was) ==
    IF c.state \in States THEN [was EXCEPT !.state = c.state] ELSE was
interface_flags(c, was) == Flip(c, was)
interface_capabilities(c, was) == Flip(c, was) \cap Supported
bridge_member_flags(c, was) == Flip(c, was)
etherswitch_setlaggroup(c) == [members |-> Members(c), untagged |-> Untagged(c)]
etherswitch_setmode(c) == IF c.mode \in Modes THEN c.mode ELSE "none"
vlan_create(c) == [tag |-> c.tag, pcp |-> 0]

Update(c, was) ==
    CASE c.fn = "setport" -> etherswitch_setport(c, was)
      [] c.fn = "setport_state" -> etherswitch_setport_state(c, was)
      [] c.fn = "interface_flags" -> interface_flags(c, was)
      [] c.fn = "interface_capabilities" -> interface_capabilities(c, was)
      [] c.fn = "bridge_member_flags" -> bridge_member_flags(c, was)
      [] c.fn = "setlaggroup" -> etherswitch_setlaggroup(c)
      [] c.fn = "setmode" -> etherswitch_setmode(c)
      [] c.fn = "vlan_create" -> vlan_create(c)

\* setvlangroup: without a VLAN id the group is given up.
Filled(c) ==
    IF c.vid = 0 THEN [vid |-> 0, members |-> {}, untagged |-> {}]
    ELSE [vid |-> c.vid, members |-> Members(c), untagged |-> Untagged(c)]

\* The checks of a call before it touches the device. setlaggroup compares its
\* group with the number of VLAN groups.
Refused(c) ==
    CASE c.fn = "setvlangroup" ->
           (c.group = -1 /\ c.vid = 0) \/ (c.group # -1 /\ c.group >= NVlanGroups)
      [] c.fn = "setlaggroup" -> c.group < 0 \/ c.group >= NVlanGroups
      [] OTHER -> FALSE

\* What the driver has: it knows its groups and refuses others.
Known(c) ==
    CASE c.fn = "setvlangroup" -> c.group \in Groups \cup {-1}
      [] c.fn = "setlaggroup" -> c.group \in 0..(NLagGroups - 1)
      [] OTHER -> TRUE

-----------------------------------------------------------------------------
Init ==
    /\ dev = Initial
    /\ vg = [k \in Groups |-> [vid |-> IF k = 0 THEN 1 ELSE 0, members |-> {}, untagged |-> {}]]
    /\ pc = [w \in Workers |-> "idle"] /\ call = [w \in Workers |-> None]
    /\ got = [w \in Workers |-> None] /\ grp = [w \in Workers |-> -1]
    /\ stale = [w \in Workers |-> FALSE] /\ unused = [w \in Workers |-> {}]
    /\ ncalls = 0 /\ nfaults = 0

Go(w, to) == pc' = [pc EXCEPT ![w] = to] /\ UNCHANGED call
Return(w) ==
    /\ pc' = [pc EXCEPT ![w] = "idle"] /\ call' = [call EXCEPT ![w] = None]

\* A call that is refused at once changes nothing and is not a step.
Start(w, c) ==
    /\ pc[w] = "idle" /\ ncalls < MaxCalls /\ ~Refused(c)
    /\ ncalls' = ncalls + 1
    /\ call' = [call EXCEPT ![w] = c]
    /\ pc' = [pc EXCEPT ![w] = CASE c.fn = "setvlangroup" /\ c.group = -1 -> "scan"
                                 [] c.fn \in {"setmode", "vlan_create"} -> "set"
                                 [] OTHER -> "get"]
    /\ grp' = [grp EXCEPT ![w] = IF c.fn # "setvlangroup" THEN -1
                                 ELSE IF c.group = -1 THEN 0 ELSE c.group]
    /\ stale' = [stale EXCEPT ![w] = FALSE]
    /\ unused' = [unused EXCEPT ![w] = {k \in Groups : vg[k].vid = 0}]
    /\ UNCHANGED <<kernel, got, nfaults>>

\* The device can be opened, but an ioctl of w fails: the function returns its
\* error value. What vlan_create has done before stays.
Fail(w) ==
    /\ pc[w] # "idle"
    /\ IF Known(call[w]) THEN nfaults < MaxFaults /\ nfaults' = nfaults + 1
       ELSE UNCHANGED nfaults
    /\ Return(w)
    /\ UNCHANGED <<kernel, got, grp, stale, unused, ncalls>>

\* setvlangroup looks for the first unused group.
Scan(w) ==
    /\ pc[w] = "scan"
    /\ stale' = [stale EXCEPT ![w] = FALSE]
    /\ IF grp[w] = NVlanGroups THEN Return(w) /\ UNCHANGED grp
       ELSE IF vg[grp[w]].vid = 0 THEN Go(w, "get") /\ UNCHANGED grp
       ELSE grp' = [grp EXCEPT ![w] = @ + 1] /\ UNCHANGED <<pc, call>>
    /\ UNCHANGED <<kernel, got, unused, ncalls, nfaults>>

\* Mutant: the object is taken to be as it was at first.
Get_Skipped(w) ==
    /\ pc[w] = "get" /\ Known(call[w])
    /\ Go(w, "set")
    /\ IF call[w].fn = "setvlangroup" THEN UNCHANGED <<got, stale>>
       ELSE /\ got' = [got EXCEPT ![w] = Initial[call[w].obj]]
            /\ stale' = [stale EXCEPT ![w] = FALSE]
    /\ UNCHANGED <<kernel, grp, unused, ncalls, nfaults>>

\* The object, or the group, is read; of the group nothing is kept.
Get(w) ==
    /\ pc[w] = "get" /\ Known(call[w])
    /\ Go(w, "set")
    /\ IF call[w].fn = "setvlangroup" THEN UNCHANGED <<got, stale>>
       ELSE /\ got' = [got EXCEPT ![w] = dev[call[w].obj]]
            /\ stale' = [stale EXCEPT ![w] = FALSE]
    /\ UNCHANGED <<kernel, grp, unused, ncalls, nfaults>>

\* The other workers' copies of what w writes are out of date.
Outdate(w, hit) ==
    stale' = [v \in Workers |-> stale[v] \/ (v # w /\ pc[v] # "idle" /\ hit[v])]

Set(w) ==
    /\ pc[w] = "set" /\ call[w].fn # "setvlangroup"
    /\ dev' = [dev EXCEPT ![call[w].obj] = Update(call[w], got[w])]
    /\ Outdate(w, [v \in Workers |-> call[v] # None /\ call[v].obj = call[w].obj])
    /\ IF call[w].fn = "vlan_create" THEN Go(w, "pcp") ELSE Return(w)
    /\ UNCHANGED <<vg, got, grp, unused, ncalls, nfaults>>

SetPcp(w) ==
    /\ pc[w] = "pcp"
    /\ dev' = [dev EXCEPT ![call[w].obj].pcp = call[w].pcp]
    /\ Outdate(w, [v \in Workers |-> call[v] # None /\ call[v].obj = call[w].obj])
    /\ Return(w)
    /\ UNCHANGED <<vg, got, grp, unused, ncalls, nfaults>>

SetGroup(w) ==
    /\ pc[w] = "set" /\ call[w].fn = "setvlangroup"
    /\ vg' = [vg EXCEPT ![grp[w]] = Filled(call[w])]
    /\ Outdate(w, [v \in Workers |-> grp[v] = grp[w]])
    /\ unused' = [v \in Workers |-> IF call[w].vid = 0 THEN unused[v] ELSE unused[v] \ {grp[w]}]
    /\ Return(w)
    /\ UNCHANGED <<dev, got, grp, ncalls, nfaults>>

Next ==
    \E w \in Workers :
        \/ \E c \in Calls : Start(w, c)
        \/ Fail(w) \/ Scan(w) \/ Get(w) \/ Set(w) \/ SetPcp(w) \/ SetGroup(w)

-----------------------------------------------------------------------------
(* Properties *)

\* What of an object a call leaves alone.
Rest(c, state) ==
    CASE c.fn = "setport" -> state.state
      [] c.fn = "setport_state" -> state.pvid
      [] c.fn \in {"interface_flags", "bridge_member_flags", "interface_capabilities"} ->
           state \ c.bits
      [] OTHER -> None

\* What a call asks for.
Granted(c, state) ==
    CASE c.fn = "setport" /\ c.pvid \in 0..MaxPvid -> state.pvid = c.pvid
      [] c.fn = "setport_state" /\ c.state \in States -> state.state = c.state
      [] c.fn = "interface_capabilities" ->
           state \cap c.bits = IF c.clear THEN {} ELSE c.bits \cap Supported
      [] c.fn \in {"interface_flags", "bridge_member_flags"} ->
           state \cap c.bits = IF c.clear THEN {} ELSE c.bits
      [] OTHER -> TRUE

\* A call that succeeds does what it was asked for, and undoes what another
\* worker has set only if that was written between its reading and its writing.
SetsOwnField ==
    \A w \in Workers :
        pc[w] = "set" /\ Set(w) =>
            LET c == call[w] IN
            /\ Granted(c, dev'[c.obj])
            /\ ~stale[w] => Rest(c, dev'[c.obj]) = Rest(c, dev[c.obj])

\* setvlangroup without a group overwrites a group in use only if another worker
\* took it after it was found, and leaves no unused group out: it takes the
\* first one, and gives up only if each was in use at some time during the call.
TakesUnused ==
    \A w \in Workers :
        call[w] # None /\ call[w].fn = "setvlangroup" /\ call[w].group = -1 =>
            /\ SetGroup(w) =>
                 /\ vg[grp[w]].vid # 0 => stale[w]
                 /\ \A k \in unused[w] : grp[w] <= k
            /\ Scan(w) /\ pc'[w] = "idle" => unused[w] = {}
=============================================================================
