----------------------------- MODULE DhcpLeases6 -----------------------------
(***************************************************************************)
(* dhcpleases6: runs a command whenever the DHCPv6 lease file changes. It  *)
(* watches the file it has open and opens the path again when that file    *)
(* has been deleted or renamed. The watch is EV_ONESHOT and is made anew   *)
(* by every call of kevent, so nothing is reported while the command runs. *)
(* The name of a hosts file is never set, so without -c nothing is written *)
(* and only runs with -c are modelled. The DHCP server appends to the file *)
(* and replaces it, keeping a backup link to the old one.                  *)
(***************************************************************************)
EXTENDS Naturals

CONSTANTS
    MaxChanges      \* bound: changes of the lease file

VARIABLES
    inode,      \* the file at the path; 0 if there is none
    ver,        \* counts its changes
    opened,     \* the file behind leasefd
    linked,     \* the server has linked the backup and will replace the file
    armed,      \* the watch is in place
    event,      \* what it has to report: "none", "change" or "gone"
    saw,        \* the version the command has read last
    window,     \* history: a change has fallen where nothing is watched
    pidfile,
    pc

vars == <<inode, ver, opened, linked, armed, event, saw, window, pidfile, pc>>
server == <<inode, ver, linked>>

Init ==
    /\ inode = 1 /\ ver = 1 /\ opened = 0 /\ linked = FALSE
    /\ armed = FALSE /\ event = "none" /\ saw = 0 /\ window = FALSE
    /\ pidfile = FALSE /\ pc = "open"

-----------------------------------------------------------------------------
(* main *)

\* From reopen to the event queue. The pid file stays if the open fails.
Open ==
    /\ pc = "open"
    /\ IF inode = 0
       THEN pc' = "exit" /\ UNCHANGED <<opened, pidfile>>
       ELSE opened' = inode /\ pidfile' = TRUE /\ pc' = "run"
    /\ UNCHANGED <<server, armed, event, saw, window>>

\* The command reads the file at the path.
Command ==
    /\ pc = "run"
    /\ saw' = ver /\ pc' = "ran"
    /\ window' = (window /\ opened # inode)
    /\ UNCHANGED <<server, opened, armed, event, pidfile>>

Watch ==
    /\ pc = "ran"
    /\ armed' = TRUE /\ pc' = "wait"
    /\ UNCHANGED <<server, opened, event, saw, window, pidfile>>

After(e) == IF e = "gone" THEN "open" ELSE "run"

Event ==
    /\ pc = "wait" /\ event # "none"
    /\ pc' = After(event) /\ event' = "none" /\ armed' = FALSE
    /\ UNCHANGED <<server, opened, saw, window, pidfile>>

\* handle_signal. A SIGHUP changes only the size of the hosts file.
Term ==
    /\ pc \in {"run", "ran", "wait"}
    /\ pidfile' = FALSE /\ armed' = FALSE /\ event' = "none" /\ pc' = "exit"
    /\ UNCHANGED <<server, opened, saw, window>>

-----------------------------------------------------------------------------
(* The DHCP server *)

\* What the watch, if there is one for the file, makes of a change. A change
\* is missed if nothing watches and the command may have read the file before
\* it, or if a file is replaced between its opening and the watch.
Notice(e) ==
    /\ event' = IF armed /\ opened = inode /\ event # "gone" THEN e ELSE event
    /\ window' = \/ window
                 \/ pc = "ran"
                 \/ pc = "run" /\ e = "gone"
    /\ UNCHANGED <<opened, armed, saw, pidfile, pc>>

Append ==
    /\ inode # 0 /\ ~linked /\ ver < MaxChanges
    /\ ver' = ver + 1 /\ Notice("change")
    /\ UNCHANGED <<inode, linked>>

Backup ==
    /\ inode # 0 /\ ~linked /\ ver < MaxChanges
    /\ linked' = TRUE /\ Notice("change")
    /\ UNCHANGED <<inode, ver>>

Replace ==
    /\ linked
    /\ inode' = inode + 1 /\ ver' = ver + 1 /\ linked' = FALSE
    /\ Notice("gone")

\* The file is removed, and never comes back.
Remove ==
    /\ inode # 0 /\ ~linked /\ ver < MaxChanges
    /\ inode' = 0 /\ ver' = ver + 1
    /\ Notice("gone")
    /\ UNCHANGED linked

Next == Open \/ Command \/ Watch \/ Event \/ Term \/ Append \/ Backup \/ Replace \/ Remove

-----------------------------------------------------------------------------
\* While the daemon waits with nothing to be told, it has the file at the path
\* open and the command has read its latest version, unless a change fell in
\* the gap between the command's reading and the next watch: appends,
\* replacements and a removal in any order.
CommandSawLeases ==
    (pc = "wait" /\ event = "none" /\ ~window) => opened = inode /\ saw = ver
=============================================================================
