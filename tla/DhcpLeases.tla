------------------------------ MODULE DhcpLeases ------------------------------
(***************************************************************************)
(* dhcpleases: watches the lease file of dhcpd and keeps its leases at the *)
(* end of the hosts file, after the part that the system's configuration   *)
(* scripts write; then tells the DNS daemon. dhcpd appends to the lease    *)
(* file, or replaces it by a new one; the scripts write the hosts file     *)
(* anew and send SIGHUP; SIGTERM ends the daemon. Neither waits for it.    *)
(*                                                                         *)
(* The hosts file is a sequence of lines: lines of the configuration, each *)
(* the version it belongs to, and one line that holds all leases. Sizes    *)
(* are numbers of lines. The variant that runs a command (-c) and the      *)
(* unbound file (-u), written from the same leases, are left out.          *)
(***************************************************************************)
EXTENDS Integers, SequencesExt, FiniteSetsExt

CONSTANTS
    Names, Addrs,
    Sizes,          \* sizes of the configuration's part
    MaxNow,         \* bound on the clock; leases end before it, or never
    MaxAppends, MaxReplaces, MaxRewrites, MaxLosses  \* bounds

ASSUME LeaseAssumption ==
    /\ Sizes \subseteq Nat \ {0}
    /\ MaxNow \in Nat \ {0}
    /\ {MaxAppends, MaxReplaces, MaxRewrites, MaxLosses} \subseteq Nat

VARIABLES
    file,           \* the records of the lease file
    there,          \* whether the file exists
    now,
    fd,             \* the records behind the daemon's descriptor
    same,           \* the descriptor is of the present lease file
    watched,        \* the descriptor is registered with kevent()
    events,         \* what kevent() has to report: "write", "gone"
    pc, leases, hostssize,
    hosts,
    config,         \* the configuration's part as last written
    hup,            \* a SIGHUP is on its way
    dns,            \* what the DNS daemon has read
    window,         \* history: the file changed after it was read, unwatched
    rewritten,      \* history: the hosts file was written anew since write_status
    grown,          \* history: and was made longer than before
    time,           \* history: the clock at the last load_dhcp
    counts          \* appends, replacements, rewrites, losses

dhcpd == <<file, there, fd, same, events, window>>
daemon == <<pc, leases, hostssize, watched, time>>
scripts == <<config, hup, grown>>
vars == <<dhcpd, now, daemon, hosts, scripts, dns, rewritten, counts>>

\* ends = 0: the lease does not end.
Record == [name : Names, addr : Addrs, ends : 0..(MaxNow - 1)]

Count(i) == counts' = [counts EXCEPT ![i] = @ + 1]

Gone == {"exit6", "term"}

-----------------------------------------------------------------------------
(* load_dhcp: the last record of a name counts, and then whether it has ended *)

Newest(recs) ==
    {recs[Max({i \in DOMAIN recs : recs[i].name = n})] : n \in {recs[i].name : i \in DOMAIN recs}}

Loaded(recs, t) == {r \in Newest(recs) : r.ends = 0 \/ t <= r.ends}

-----------------------------------------------------------------------------
Line(v) == [config |-> v, leases |-> {}]

Init ==
    /\ file = <<>> /\ there = TRUE /\ now = 1
    /\ fd = <<>> /\ same = TRUE /\ watched = FALSE /\ events = {}
    /\ pc = "open" /\ leases = {}
    /\ \E n \in Sizes : config = [k \in 1..n |-> Line(1)]
    /\ hosts = config /\ hostssize = Len(config)
    /\ hup = FALSE /\ dns = hosts
    /\ window = FALSE /\ rewritten = FALSE /\ grown = FALSE /\ time = 0
    /\ counts = [appends |-> 0, replaces |-> 0, rewrites |-> 0, losses |-> 0]

(* Others *)

Tick ==
    /\ now < MaxNow
    /\ now' = now + 1
    /\ UNCHANGED <<dhcpd, daemon, hosts, scripts, dns, rewritten, counts>>

\* What a change of the file, or of its name, does to the descriptor.
Noticed(e) ==
    /\ events' = IF same /\ watched THEN events \cup {e} ELSE events
    /\ window' = (window \/ (same /\ ~watched /\ pc # "open"))

\* dhcpd appends a record.
AppendRecord(r) ==
    /\ there /\ counts.appends < MaxAppends
    /\ Count("appends")
    /\ file' = Append(file, r)
    /\ fd' = IF same THEN file' ELSE fd
    /\ Noticed("write")
    /\ UNCHANGED <<there, same, now, daemon, hosts, scripts, dns, rewritten>>

\* dhcpd writes a new file, without superseded records, and renames it.
Replace ==
    /\ counts.replaces < MaxReplaces
    /\ Count("replaces")
    /\ file' = SetToSeq(Newest(file)) /\ there' = TRUE
    /\ same' = FALSE
    /\ Noticed("gone")
    /\ UNCHANGED <<fd, now, daemon, hosts, scripts, dns, rewritten>>

\* The file is removed (and may be replaced later).
Lose ==
    /\ there /\ counts.losses < MaxLosses
    /\ Count("losses")
    /\ there' = FALSE /\ same' = FALSE
    /\ Noticed("gone")
    /\ UNCHANGED <<file, fd, now, daemon, hosts, scripts, dns, rewritten>>

\* The scripts write the hosts file and send SIGHUP.
Rewrite(n) ==
    /\ counts.rewrites < MaxRewrites
    /\ Count("rewrites")
    /\ config' = [k \in 1..n |-> Line(counts.rewrites + 2)]
    /\ hosts' = config'
    /\ hup' = TRUE /\ rewritten' = TRUE /\ grown' = (grown \/ n > Len(config))
    /\ UNCHANGED <<dhcpd, now, daemon, dns>>

-----------------------------------------------------------------------------
(* main *)

Goto(l) == pc' = l

\* The path is opened; if it is missing, exit(6).
Open ==
    /\ pc = "open"
    /\ watched' = FALSE /\ events' = {} /\ window' = FALSE
    /\ same' = there /\ fd' = IF there THEN file ELSE fd
    /\ Goto(IF there THEN "load" ELSE "exit6")
    /\ UNCHANGED <<file, there, now, leases, hostssize, time, hosts, scripts, dns, rewritten, counts>>

Load ==
    /\ pc = "load"
    /\ leases' = Loaded(fd, now)
    /\ time' = now
    /\ window' = (window /\ ~same)
    /\ Goto("write")
    /\ UNCHANGED <<file, there, fd, same, events, hostssize, watched, now, hosts, scripts, dns,
                   rewritten, counts>>

\* Mutant: off by one.
Keep_Less == Min({hostssize, Len(hosts)}) - 1

\* The size that the hosts file is cut to: a file that has become shorter is
\* taken to have no leases.
Keep == Min({hostssize, Len(hosts)})

\* write_status, cleanup
WriteStatus ==
    /\ pc = "write"
    /\ hostssize' = Keep
    /\ hosts' = Append(SubSeq(hosts, 1, Keep), [config |-> 0, leases |-> leases])
    /\ leases' = {} /\ rewritten' = FALSE
    /\ Goto("signal")
    /\ UNCHANGED <<dhcpd, now, watched, time, scripts, dns, counts>>

\* signal_process: the DNS daemon reads the file again.
SignalDns ==
    /\ pc = "signal"
    /\ dns' = hosts
    /\ Goto("register")
    /\ UNCHANGED <<dhcpd, now, leases, hostssize, watched, time, hosts, scripts, rewritten, counts>>

\* kevent() with the change list; the registration is made once per descriptor.
Register ==
    /\ pc = "register"
    /\ watched' = TRUE
    /\ Goto("wait")
    /\ UNCHANGED <<dhcpd, now, leases, hostssize, time, hosts, scripts, dns, rewritten, counts>>

\* Mutant: the event is not cleared (no EV_CLEAR).
Wait_NoClear ==
    /\ pc = "wait" /\ events # {}
    /\ Goto(IF "gone" \in events THEN "open" ELSE "load")
    /\ UNCHANGED <<dhcpd, now, leases, hostssize, watched, time, hosts, scripts, dns, rewritten,
                   counts>>

Wait ==
    /\ pc = "wait" /\ events # {}
    /\ events' = {}
    /\ Goto(IF "gone" \in events THEN "open" ELSE "load")
    /\ UNCHANGED <<file, there, fd, same, window, now, leases, hostssize, watched, time, hosts, scripts,
                   dns, rewritten, counts>>

(* handle_signal *)

Hup ==
    /\ hup /\ pc \notin Gone
    /\ hup' = FALSE
    /\ hostssize' = IF Len(hosts) > 0 THEN Keep ELSE hostssize
    /\ UNCHANGED <<dhcpd, now, pc, leases, watched, time, hosts, config, grown, dns, rewritten, counts>>

Term ==
    /\ pc \notin Gone
    /\ hostssize' = Keep
    /\ hosts' = SubSeq(hosts, 1, Keep)
    /\ leases' = {}
    /\ Goto("term")
    /\ UNCHANGED <<dhcpd, now, watched, time, scripts, dns, rewritten, counts>>

-----------------------------------------------------------------------------
Main == Open \/ Load \/ WriteStatus \/ SignalDns \/ Register \/ Wait

Others ==
    \/ Tick \/ Replace \/ Lose
    \/ \E r \in Record : AppendRecord(r)
    \/ \E n \in Sizes : Rewrite(n)

Next == Main \/ Others \/ Hup \/ Term

Spec == Init /\ [][Next]_vars

\* The daemon is scheduled; nobody else has to do anything.
Fairness == WF_vars(Main)

FairSpec == Spec /\ Fairness

-----------------------------------------------------------------------------
(* Properties *)

IsLease(line) == line.config = 0

\* The files and the daemon's variables are well formed.
TypeOK ==
    /\ file \in Seq(Record) /\ fd \in Seq(Record)
    /\ events \subseteq {"write", "gone"}
    /\ pc \in {"open", "load", "write", "signal", "register", "wait"} \cup Gone
    /\ leases \subseteq Record
    /\ hostssize \in Nat
    /\ \A k \in DOMAIN hosts : hosts[k].leases \subseteq Record
    /\ \A k, m \in DOMAIN hosts : IsLease(hosts[k]) /\ IsLease(hosts[m]) => k = m

\* When the daemon waits and kevent() has nothing to report, the hosts file and
\* the DNS daemon have exactly the leases that were valid when the file was last
\* read, and no change of the file is missing, unless it fell between reading the
\* file and the registration, or the scripts have written the hosts file since.
UpToDate ==
    pc = "wait" /\ events = {} /\ ~window /\ ~rewritten =>
        /\ hosts # <<>> /\ hosts[Len(hosts)].leases = Loaded(file, time)
        /\ dns = hosts

\* Once SIGHUP has been handled, the configuration's part of the hosts file is as
\* the scripts wrote it ("Catch SIGHUP in order to reread configuration file"),
\* as long as they have not made it longer: the handler only lowers hostssize.
ConfigKept ==
    ~hup /\ ~grown => SelectSeq(hosts, LAMBDA line : ~IsLease(line)) = config

\* SIGTERM leaves no leases in the hosts file, wherever it interrupts the daemon.
TermCleans == pc = "term" => \A k \in DOMAIN hosts : ~IsLease(hosts[k])

Settled == pc \in Gone \/ (pc = "wait" /\ events = {})

\* The daemon always gets back to waiting with every change of the file handled.
Settles == []<>Settled

\* Whatever the daemon does to the hosts file, what the scripts wrote stays, and
\* the leases do not stay when it is stopped.
HostsFileKept == TypeOK /\ ConfigKept /\ TermCleans

\* The leases that are written are the current ones, and nothing else is touched.
LeasesRight == UpToDate /\ HostsFileKept
===============================================================================
