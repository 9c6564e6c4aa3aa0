------------------------------ MODULE MCDaemons ------------------------------
(***************************************************************************)
(* dhcpleases, dhcpleases6, minicron and the two processes of              *)
(* check_reload_status for TLC. They share no state, so in a behaviour one *)
(* of them runs and the others do not start: part says which.              *)
(***************************************************************************)
EXTENDS DhcpLeases

CONSTANTS MaxTerms, MaxDeaths, MaxFails, MaxChanges, MaxKills, MaxSignals, MaxFaults

VARIABLES part, mpc, pid, quit, caught, helpers, ended, forks, terms, deaths,
          fails, when, stray,
          inode, ver, opened, linked, armed, event, saw, window6, pidfile6, pc6,
          main, reaped, mon, watches, path, hasty, kills, signals, faults

minicron == <<mpc, pid, quit, caught, helpers, ended, forks, terms, deaths,
              fails, when, stray>>
leases6 == <<inode, ver, opened, linked, armed, event, saw, window6, pidfile6, pc6>>
monitoring == <<main, reaped, mon, watches, path, hasty, kills, signals, faults>>
all == <<vars, minicron, leases6, monitoring, part>>

M == INSTANCE Minicron WITH pc <- mpc
L == INSTANCE DhcpLeases6 WITH pc <- pc6, pidfile <- pidfile6, window <- window6
R == INSTANCE Monitoring

InitAll ==
    /\ Init /\ M!Init /\ L!Init /\ R!Init
    /\ \/ part = "leases"
       \/ part \in {"minicron", "leases6", "monitoring"} /\ Len(config) = 1

One(A, B, C, D) ==
    \/ part = "leases" /\ A /\ UNCHANGED <<minicron, leases6, monitoring, part>>
    \/ part = "minicron" /\ B /\ UNCHANGED <<vars, leases6, monitoring, part>>
    \/ part = "leases6" /\ C /\ UNCHANGED <<vars, minicron, monitoring, part>>
    \/ part = "monitoring" /\ D /\ UNCHANGED <<vars, minicron, leases6, part>>

\* The fairness of the one that runs; none is needed for dhcpleases6.
FairAll ==
    /\ InitAll /\ [][One(Next, M!Next, L!Next, R!Next)]_all
    /\ WF_all(One(Main, M!Parent, FALSE, R!Step))

-----------------------------------------------------------------------------
\* The hosts file follows the leases (DhcpLeases), and after a SIGTERM minicron
\* ends (Minicron). A check_reload_status that exited serves again, unless it
\* was gone before it was watched or nobody is left to watch it (Monitoring).
DaemonsSettle ==
    /\ []<>(part = "leases" => Settled) /\ M!TermStops
    /\ []<>(part = "monitoring" => main = "serves" \/ R!Unwatched \/ R!Missed)

\* There is one helper, and a signal meant for it goes astray, or misses it, only
\* after a fault or while it is started (Minicron).
HelperKnown == M!HelperKnown

\* The hosts file has the leases, and the configuration's part is kept
\* (DhcpLeases). Waiting, dhcpleases6 has run its command on the latest leases
\* (DhcpLeases6).
LeasesSeen == LeasesRight /\ L!CommandSawLeases
===============================================================================
