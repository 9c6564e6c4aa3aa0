------------------------------ MODULE Monitoring ------------------------------
(***************************************************************************)
(* The two processes of check_reload_status: the daemon, which makes its   *)
(* socket and serves it, and the monitor it forks, which waits for it to   *)
(* exit and then becomes the next daemon. The daemon has a parent, init,   *)
(* that may have waited for it before the monitor watches it: the kernel   *)
(* then refuses to watch. SIGTERM and SIGHUP have an empty handler: in the *)
(* daemon they do nothing, in the monitor they interrupt kevent().         *)
(***************************************************************************)
EXTENDS Integers

CONSTANTS MaxKills, MaxSignals, MaxFaults   \* bounds: daemons that die, signals, failing calls

VARIABLES
    main,       \* the daemon: the call it comes to, "serves", "exited"
    reaped,     \* it has exited and init has waited for it
    mon,        \* the monitor: "none", "add", "wait"
    watches,    \* the kernel watches the daemon for it
    path,       \* there is a file at PATH
    hasty,      \* history: it exited before the fork, or was reaped before the watch
    kills, signals, faults

counts == <<kills, signals, faults>>
vars == <<main, reaped, mon, watches, path, hasty, counts>>

Init ==
    /\ main = "daemon" /\ reaped = FALSE /\ mon = "none" /\ watches = FALSE /\ path = FALSE
    /\ hasty = FALSE /\ kills = 0 /\ signals = 0 /\ faults = 0

Exit ==
    /\ main' = "exited" /\ reaped' = FALSE
    /\ hasty' = (main \in {"daemon", "fork"})
Works == UNCHANGED counts
Fails == faults < MaxFaults /\ faults' = faults + 1 /\ UNCHANGED <<kills, signals>>
Goes(l) == main' = l /\ Works /\ UNCHANGED <<reaped, hasty>>

-----------------------------------------------------------------------------
(* main()                                                                    *)
Daemonize ==
    /\ main = "daemon" /\ (Goes("fork") \/ (Fails /\ Exit))
    /\ UNCHANGED <<mon, watches, path>>

\* Nobody looks whether fork() has failed.
Fork ==
    /\ main = "fork" /\ main' = "socket"
    /\ \/ Works /\ mon' = "add"
       \/ Fails /\ UNCHANGED mon
    /\ UNCHANGED <<reaped, watches, path, hasty>>

Socket ==
    /\ main = "socket" /\ (Goes("unlink") \/ (Fails /\ Exit))
    /\ UNCHANGED <<mon, watches, path>>

\* The file of the daemon before goes, since bind() refuses a name that is there.
Unlink == main = "unlink" /\ path' = FALSE /\ Goes("bind") /\ UNCHANGED <<mon, watches>>
Bind ==
    /\ main = "bind"
    /\ \/ ~path /\ path' = TRUE /\ Goes("listen")
       \/ (IF path THEN Works ELSE Fails) /\ Exit /\ UNCHANGED path
    /\ UNCHANGED <<mon, watches>>

\* set_blockmode() and listen()
Listen ==
    /\ main = "listen" /\ (Goes("serves") \/ (Fails /\ Exit))
    /\ UNCHANGED <<mon, watches, path>>

\* The daemon is killed or exits on an error (errx).
Die ==
    /\ main # "exited" /\ kills < MaxKills /\ kills' = kills + 1
    /\ Exit /\ UNCHANGED <<mon, watches, path, signals, faults>>

Reap ==
    /\ main = "exited" /\ ~reaped /\ reaped' = TRUE
    /\ hasty' = (hasty \/ mon = "add")
    /\ UNCHANGED <<main, mon, watches, path, counts>>

-----------------------------------------------------------------------------
(* The monitor                                                               *)
\* EV_ADD is refused once init has waited for the process; nobody looks at the
\* result, and the wait that follows is for nothing.
Add ==
    /\ mon = "add" /\ mon' = "wait"
    /\ watches' = ~(main = "exited" /\ reaped)
    /\ UNCHANGED <<main, reaped, path, hasty, counts>>

\* The monitor becomes check_reload_status, or ends.
Reload ==
    /\ mon = "wait" /\ watches /\ main = "exited"
    /\ mon' = "none" /\ watches' = FALSE
    /\ \/ main' = "daemon" /\ reaped' = FALSE /\ Works
       \/ Fails /\ UNCHANGED <<main, reaped>>
    /\ hasty' = FALSE /\ UNCHANGED path

\* A signal ends the wait; the kqueue is closed and made again.
Interrupt ==
    /\ mon = "wait" /\ ~(watches /\ main = "exited")
    /\ signals < MaxSignals /\ signals' = signals + 1
    /\ mon' = "add" /\ watches' = FALSE
    /\ UNCHANGED <<main, reaped, path, hasty, kills, faults>>

KillMonitor ==
    /\ mon # "none" /\ mon' = "none" /\ watches' = FALSE
    /\ Fails /\ UNCHANGED <<main, reaped, path, hasty>>

Step == Daemonize \/ Fork \/ Socket \/ Unlink \/ Bind \/ Listen \/ Add \/ Reload
Next == Step \/ Die \/ Reap \/ Interrupt \/ KillMonitor
Spec == Init /\ [][Next]_vars /\ WF_vars(Step)

-----------------------------------------------------------------------------
\* The daemon serves again and again, unless it exited and was reaped before the
\* monitor watched it, or there is no monitor (a call failed, it was killed).
Unwatched == main = "exited" /\ mon = "none" /\ (faults > 0 \/ hasty)
Missed == main = "exited" /\ mon = "wait" /\ ~watches /\ hasty
ServesAgain == []<>(main = "serves" \/ Unwatched \/ Missed)
===============================================================================
