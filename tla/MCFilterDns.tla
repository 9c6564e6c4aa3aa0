------------------------------ MODULE MCFilterDns ------------------------------
(***************************************************************************)
(* filterdns for TLC: its threads, and what they do to the tables. What a  *)
(* thread does with addresses is one step of FilterDns, and who may run    *)
(* when is left open in FilterDnsTables, so they share no state: in a      *)
(* behaviour one of them runs, and part says which.                        *)
(***************************************************************************)
EXTENDS FilterDns, FilterDnsTables, TLC

CONSTANTS a1, a2, h1, h2, t1, t2, x, y

VARIABLE part

all == <<vars, tableVars, part>>

\* Two rules for one host name.
MCHostOf == a1 :> h1 @@ a2 :> h1

\* Two rules on one host with tables apart, or one of them a command rule, or on
\* a name and on an address, or a network, with one table.
Config(hosts, pftables, static, masked) ==
    [host |-> (a1 :> hosts[1] @@ a2 :> hosts[2]), table |-> (a1 :> pftables[1] @@ a2 :> pftables[2]),
     static |-> static, masked |-> masked]
MCConfigs ==
    {Config(<<h1, h1>>, <<t1, t2>>, {}, {}),
     Config(<<h1, h1>>, <<t1, NoTable>>, {}, {}),
     Config(<<h1, h2>>, <<t1, t1>>, {h2}, {}),
     Config(<<h1, h2>>, <<t1, t1>>, {h2}, {h2})}

-----------------------------------------------------------------------------
\* Two rules with tables apart and no answers yet: the tables while the threads run.
NoTables ==
    /\ TablesInit
    /\ conf = Config(<<h1, h1>>, <<t1, t2>>, {}, {}) /\ dns = [h \in Names |-> {}]

\* The two addresses are alike: of two initial states that differ only in which
\* is which, one is enough.
InitAll ==
    \/ part = "threads" /\ Init /\ NoTables
    \/ part = "tables" /\ TablesInit /\ Init /\ cur = {}
       /\ dns[h2] # {y} /\ (dns[h2] = {} => dns[h1] # {y})

One(A, B) ==
    \/ part = "threads" /\ A /\ UNCHANGED <<tableVars, part>>
    \/ part = "tables" /\ B /\ UNCHANGED <<vars, part>>

\* Every thread of the part that runs is scheduled, and a host thread runs a
\* cycle every interval.
FairAll ==
    /\ InitAll /\ [][One(Next, TablesNext)]_all
    /\ WF_all(One(MainThreads \/ MainMerge, HostCycle(h1)))
    /\ WF_all(One(MergeThread, HostCycle(h2)))
    /\ \A a \in Actions : WF_all(One(mpc # "exited" /\ ActionThread(a), ActionStep(a)))
    /\ \A h \in Hosts : WF_all(One(mpc # "exited" /\ HostThread(h), FALSE))

FairThreads == part = "threads" /\ FairAll

-----------------------------------------------------------------------------
\* A new action is run, unused hosts lose their thread and SIGTERM ends the
\* program, unless a reload gets stuck (FilterDns).
ThreadsProgress == ForcedRuns /\ ThreadsEnd
===============================================================================
