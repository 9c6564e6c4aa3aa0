---------------------------- MODULE FilterDnsTables ----------------------------
(***************************************************************************)
(* How filterdns carries DNS answers into the firewall tables: the list of *)
(* a host (thr->rnh), its copy in each action (act->rnh), the action's     *)
(* record of the table (act->tbl_rnh) and the kernel table.                *)
(*                                                                         *)
(* Host threads and action threads all hold main_lock for READING while    *)
(* they work, so a host's list can change under an action that copies it:  *)
(* a host cycle has a beginning and an end, and a copy taken in between    *)
(* yields any mixture of the old and the new list.  Rules are added and    *)
(* deleted under the write lock.  The threads' lives are in FilterDns.     *)
(***************************************************************************)
EXTENDS Integers, FiniteSets

CONSTANTS
    Rules,        \* the actions
    Names,        \* the host names
    Tables, Addrs,
    NoTable,      \* the table of a rule that only runs a command
    Configs,      \* configuration files: the host name and the table of each rule,
                  \* the host names that are an address, those written with a mask
    MaxChanges,   \* bound on changes of DNS answers and of the configuration
    MaxFaults     \* bound on failed kernel calls

ASSUME TablesAssumption ==
    /\ NoTable \notin Tables /\ IsFiniteSet(Addrs)
    /\ \A c \in Configs :
          /\ c.host \in [Rules -> Names]
          /\ c.table \in [Rules -> Tables \cup {NoTable}]
          /\ c.masked \subseteq c.static /\ c.static \subseteq Names
    /\ MaxChanges \in Nat /\ MaxFaults \in Nat

VARIABLES
    conf,
    dns,          \* what getaddrinfo would answer; {} also stands for an error
    hrn, target, hbusy,     \* host lists; the list a running cycle will leave
    alive,        \* the configured rules
    arn, tbl,     \* act->rnh and act->tbl_rnh
    tsem, tforce, tpc,      \* sem, ACT_FORCE, and whether table_update runs
    kt,           \* the kernel tables: <<table, address, prefix>>
    badAdd, badDel,         \* history: entries whose addition or deletion failed
    nchg, nfaults

envVars == <<conf, dns, nchg>>
listVars == <<hrn, target, hbusy>>
ruleVars == <<alive, arn, tbl, tsem, tforce, tpc>>
kernVars == <<kt, badAdd, badDel, nfaults>>
tableVars == <<envVars, listVars, ruleVars, kernVars>>

HostNameOf == conf.host
TableOf == conf.table

\* The entry pf_tableentry and ipfw_tableentry address: the host's mask is used
\* only while the action still has a host.
Key(a, x, linked) ==
    <<TableOf[a], x, IF linked /\ HostNameOf[a] \in conf.masked THEN "mask" ELSE "full">>

Keys == Tables \X Addrs \X {"mask", "full"}

Users(h) == {a \in alive : HostNameOf[a] = h}

Idle == (\A a \in Rules : tpc[a] = "idle") /\ (\A h \in Names : ~hbusy[h])

-----------------------------------------------------------------------------
TablesInit ==
    /\ conf \in Configs
    /\ dns \in [Names -> SUBSET Addrs]
    /\ \A h \in conf.static : Cardinality(dns[h]) = 1
    /\ \A h \in Names \ {HostNameOf[a] : a \in Rules} : dns[h] = {}
    /\ hrn = [h \in Names |-> {}] /\ target = [h \in Names |-> {}]
    /\ hbusy = [h \in Names |-> FALSE]
    /\ alive = Rules /\ tforce = [a \in Rules |-> TRUE]
    /\ arn = [a \in Rules |-> {}] /\ tbl = [a \in Rules |-> {}]
    /\ tsem = [a \in Rules |-> FALSE] /\ tpc = [a \in Rules |-> "idle"]
    /\ kt = {} /\ badAdd = {} /\ badDel = {} /\ nchg = 0 /\ nfaults = 0

\* The answer for a name changes, or resolving it starts to fail.
DnsChanges(h, s) ==
    /\ nchg < MaxChanges /\ h \in {HostNameOf[a] : a \in Rules} \ conf.static
    /\ nchg' = nchg + 1
    /\ dns' = [dns EXCEPT ![h] = s]
    /\ UNCHANGED <<conf, listVars, ruleVars, kernVars>>

\* host_dns; an error leaves every entry marked old.
Answer(h) == dns[h]

\* check_hostname with the read lock: every entry is marked old, then resolved.
HostBegin(h) ==
    /\ Users(h) # {} /\ ~hbusy[h]
    /\ hbusy' = [hbusy EXCEPT ![h] = TRUE]
    /\ target' = [target EXCEPT ![h] = Answer(h)]
    /\ UNCHANGED <<envVars, hrn, ruleVars, kernVars>>

\* New entries lose ADDR_NEW, old ones are deleted; on an update, or for a rule
\* that has not run yet, the actions are woken.
HostEnd(h) ==
    /\ hbusy[h]
    /\ hbusy' = [hbusy EXCEPT ![h] = FALSE]
    /\ hrn' = [hrn EXCEPT ![h] = target[h]]
    /\ tsem' = [a \in Rules |-> tsem[a] \/ (a \in Users(h) /\ (target[h] # hrn[h] \/ tforce[a]))]
    /\ UNCHANGED <<envVars, target, alive, arn, tbl, tforce, tpc, kernVars>>

\* The thread of a host without rules exits: addr_cleanup.
HostGone(h) ==
    /\ Users(h) = {} /\ ~hbusy[h]
    /\ hrn' = [hrn EXCEPT ![h] = {}]
    /\ UNCHANGED <<envVars, target, hbusy, ruleVars, kernVars>>

\* What a copy of the host's list can see.
Seen(h) ==
    IF hbusy[h]
    THEN {s \in SUBSET (hrn[h] \cup target[h]) : hrn[h] \cap target[h] \subseteq s}
    ELSE {hrn[h]}

\* Mutant: ent->flags of a removed address is not counted, so the table keeps it.
ActionCopy_AddsOnly(a) ==
    /\ a \in alive /\ tpc[a] = "idle" /\ tsem[a]
    /\ tsem' = [tsem EXCEPT ![a] = FALSE] /\ tforce' = [tforce EXCEPT ![a] = FALSE]
    /\ \E s \in Seen(HostNameOf[a]) :
          /\ arn' = [arn EXCEPT ![a] = s]
          /\ tpc' = IF ~(s \subseteq arn[a]) /\ TableOf[a] # NoTable
                    THEN [tpc EXCEPT ![a] = "table"] ELSE tpc
    /\ UNCHANGED <<envVars, listVars, alive, tbl, kernVars>>

\* check_action: act->rnh becomes the host's list, whatever flags its entries
\* have; on a difference the table is updated.
ActionCopy(a) ==
    /\ a \in alive /\ tpc[a] = "idle" /\ tsem[a]
    /\ tsem' = [tsem EXCEPT ![a] = FALSE] /\ tforce' = [tforce EXCEPT ![a] = FALSE]
    /\ \E s \in Seen(HostNameOf[a]) :
          /\ arn' = [arn EXCEPT ![a] = s]
          /\ tpc' = IF s # arn[a] /\ TableOf[a] # NoTable
                    THEN [tpc EXCEPT ![a] = "table"] ELSE tpc
    /\ UNCHANGED <<envVars, listVars, alive, tbl, kernVars>>

\* table_update, an entry that is new: recorded whether or not the call failed.
TableAdd(a, x) ==
    /\ tpc[a] = "table" /\ x \in arn[a] \ tbl[a]
    /\ tbl' = [tbl EXCEPT ![a] = @ \cup {x}]
    /\ \/ /\ kt' = kt \cup {Key(a, x, TRUE)}
          /\ badAdd' = badAdd \ {Key(a, x, TRUE)} /\ badDel' = badDel \ {Key(a, x, TRUE)}
          /\ UNCHANGED nfaults
       \/ /\ nfaults < MaxFaults /\ nfaults' = nfaults + 1
          /\ badAdd' = badAdd \cup ({Key(a, x, TRUE)} \ kt)
          /\ UNCHANGED <<kt, badDel>>
    /\ UNCHANGED <<envVars, listVars, alive, arn, tsem, tforce, tpc>>

\* Mutant: the entry is dropped from tbl_rnh but not from the kernel.
TableDel_RecordOnly(a, x) ==
    /\ tpc[a] = "table" /\ x \in tbl[a] \ arn[a]
    /\ tbl' = [tbl EXCEPT ![a] = @ \ {x}]
    /\ UNCHANGED <<envVars, listVars, alive, arn, tsem, tforce, tpc, kernVars>>

\* table_update, an entry that is old: dropped whether or not the call failed.
TableDel(a, x) ==
    /\ tpc[a] = "table" /\ x \in tbl[a] \ arn[a]
    /\ tbl' = [tbl EXCEPT ![a] = @ \ {x}]
    /\ \/ /\ kt' = kt \ {Key(a, x, TRUE)}
          /\ badDel' = badDel \ {Key(a, x, TRUE)} /\ badAdd' = badAdd \ {Key(a, x, TRUE)}
          /\ UNCHANGED nfaults
       \/ /\ nfaults < MaxFaults /\ nfaults' = nfaults + 1
          /\ badDel' = badDel \cup ({Key(a, x, TRUE)} \cap kt)
          /\ UNCHANGED <<kt, badAdd>>
    /\ UNCHANGED <<envVars, listVars, alive, arn, tsem, tforce, tpc>>

TableDone(a) ==
    /\ tpc[a] = "table" /\ arn[a] = tbl[a]
    /\ tpc' = [tpc EXCEPT ![a] = "idle"]
    /\ UNCHANGED <<envVars, listVars, alive, arn, tbl, tsem, tforce, kernVars>>

\* A reload adds a rule, under the write lock.
AddAction(a) ==
    /\ Idle /\ a \notin alive /\ nchg < MaxChanges
    /\ nchg' = nchg + 1
    /\ alive' = alive \cup {a} /\ tforce' = [tforce EXCEPT ![a] = TRUE]
    /\ UNCHANGED <<conf, dns, listVars, arn, tbl, tsem, tpc, kernVars>>

\* A reload deletes a rule: action_del clears the host pointer first, and then
\* removes the action's entries from the table, those in fail excepted.
DeleteAction(a, fail) ==
    /\ Idle /\ a \in alive /\ nchg < MaxChanges
    /\ nchg' = nchg + 1
    /\ alive' = alive \ {a}
    /\ arn' = [arn EXCEPT ![a] = {}] /\ tbl' = [tbl EXCEPT ![a] = {}]
    /\ tsem' = [tsem EXCEPT ![a] = FALSE]
    /\ kt' = kt \ {Key(a, x, FALSE) : x \in tbl[a] \ fail}
    /\ badDel' = (badDel \ {Key(a, x, FALSE) : x \in tbl[a] \ fail})
                    \cup (kt \cap {Key(a, x, FALSE) : x \in fail})
    /\ badAdd' = badAdd \ {Key(a, x, FALSE) : x \in tbl[a]}
    /\ nfaults' = nfaults + Cardinality(fail) /\ nfaults' <= MaxFaults
    /\ UNCHANGED <<conf, dns, listVars, tforce, tpc>>

-----------------------------------------------------------------------------
ActionStep(a) ==
    \/ ActionCopy(a) \/ TableDone(a)
    \/ \E x \in Addrs : TableAdd(a, x) \/ TableDel(a, x)

TablesNext ==
    \/ \E h \in Names : \/ HostBegin(h) \/ HostEnd(h) \/ HostGone(h)
                        \/ \E s \in SUBSET Addrs : DnsChanges(h, s)
    \/ \E a \in Rules : \/ ActionStep(a) \/ AddAction(a)
                        \/ \E fail \in SUBSET tbl[a] : DeleteAction(a, fail)

TablesSpec == TablesInit /\ [][TablesNext]_tableVars

HostCycle(h) == HostBegin(h) \/ HostEnd(h)

-----------------------------------------------------------------------------
(* Properties *)

\* The type invariant; a rule that is not configured has no entries left.
TablesTypeOK ==
    /\ conf \in Configs /\ dns \in [Names -> SUBSET Addrs] /\ nchg \in 0..MaxChanges
    /\ hrn \in [Names -> SUBSET Addrs] /\ target \in [Names -> SUBSET Addrs]
    /\ hbusy \in [Names -> BOOLEAN]
    /\ alive \subseteq Rules
    /\ arn \in [Rules -> SUBSET Addrs] /\ tbl \in [Rules -> SUBSET Addrs]
    /\ tsem \in [Rules -> BOOLEAN] /\ tforce \in [Rules -> BOOLEAN]
    /\ tpc \in [Rules -> {"idle", "table"}]
    /\ kt \subseteq Keys /\ badAdd \subseteq Keys /\ badDel \subseteq Keys
    /\ nfaults \in 0..MaxFaults
    /\ \A a \in Rules \ alive : arn[a] = {} /\ tbl[a] = {} /\ ~tsem[a]

\* No change is lost between a host and its actions: whenever a rule's copy
\* differs from its host's list, a wake-up for it is pending or the host owes it
\* one, even if the copy was taken while the host was changing the list.
NoLostUpdate ==
    \A a \in alive :
        (~hbusy[HostNameOf[a]] /\ arn[a] # hrn[HostNameOf[a]]) => tsem[a] \/ tforce[a]

IsWanted(k) == \E a \in alive : \E x \in tbl[a] : k = Key(a, x, TRUE)

\* Nothing stays in a table without a rule that put it there ("Cleaning up
\* previous actions"), except entries the kernel refused to delete and the
\* networks of deleted rules, whose mask action_del has lost.
NoStaleEntry ==
    \A k \in kt \ badDel : k[3] = "full" => IsWanted(k)

\* A table that one rule alone fills holds every entry of that rule, except
\* those the kernel refused.
TableComplete ==
    \A a \in alive :
        (TableOf[a] # NoTable /\ \A b \in Rules \ {a} : TableOf[b] # TableOf[a]) =>
            \A x \in tbl[a] : Key(a, x, TRUE) \in kt \cup badAdd

\* Once answers and configuration stop changing, every rule's table record is
\* the current answer for its host.
Converged == \A a \in alive : TableOf[a] # NoTable => tbl[a] = dns[HostNameOf[a]]
Converges == <>[]Converged

\* No update is lost between a host and its rules, and the kernel's tables are
\* what the rules have recorded, both ways.
TableExact == TablesTypeOK /\ NoLostUpdate /\ NoStaleEntry /\ TableComplete
===============================================================================
