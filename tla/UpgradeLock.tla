----------------------------- MODULE UpgradeLock -----------------------------
(***************************************************************************)
(* How FreeSense-upgrade keeps a second instance out: the wrapper runs the *)
(* script under lockf(1), and the script looks for a live process in its   *)
(* pid file before it writes its own.                                      *)
(*                                                                         *)
(* lockf -t (external) creates the lock file if it is missing, locks it,   *)
(* waits up to the timeout if it is locked, and when its command has ended *)
(* unlinks the path and then lets go of the lock. The wrapper removes the  *)
(* path once more afterwards.                                              *)
(***************************************************************************)
EXTENDS Integers, FiniteSets

CONSTANTS
    Callers,        \* invocations of the wrapper
    MaxRestarts,    \* times one invocation may replace itself (code 99)
    MaxKills,       \* bound on scripts killed without their traps
    None

ASSUME LockAssumption ==
    /\ None \notin Int \cup (Callers \X Nat)
    /\ MaxRestarts \in Nat /\ MaxKills \in Nat

VARIABLES
    path,       \* the lock file: an inode or None
    pidfile,    \* the process in the pid file, <<caller, run>>, or None
    pc, lk,     \* of each caller: where it is, the inode its lockf has locked
    run,        \* which run of the script it is at
    rc,         \* the status that the script, then lockf, ended with
    kills,
    collided    \* history: the callers past their check when another passed its own,
                \* before they had written their pid

vars == <<path, pidfile, pc, lk, run, rc, kills, collided>>

Inodes == 1..(Cardinality(Callers) + 1)

Script == {"check", "write", "work"}

Init ==
    /\ path = None /\ pidfile = None
    /\ pc = [c \in Callers |-> "start"]
    /\ lk = [c \in Callers |-> None]
    /\ run = [c \in Callers |-> 1]
    /\ rc = [c \in Callers |-> 0]
    /\ kills = 0 /\ collided = {}

Goto(c, l) == pc' = [pc EXCEPT ![c] = l]

-----------------------------------------------------------------------------
(* lockf *)

Start(c) ==
    /\ pc[c] = "start"
    /\ Goto(c, "lock")
    /\ UNCHANGED <<path, pidfile, lk, run, rc, kills, collided>>

Held == {lk[d] : d \in Callers}

\* A new inode: there is one more than there are callers.
Fresh == CHOOSE f \in Inodes : f \notin Held

Lock(c) ==
    /\ pc[c] = "lock" /\ path \notin Held \ {None}
    /\ path' = IF path = None THEN Fresh ELSE path
    /\ lk' = [lk EXCEPT ![c] = path']
    /\ Goto(c, "check")
    /\ UNCHANGED <<pidfile, run, rc, kills, collided>>

\* EX_TEMPFAIL: the wrapper leaves at once.
Timeout(c) ==
    /\ pc[c] = "lock" /\ path \in Held \ {None}
    /\ rc' = [rc EXCEPT ![c] = 75]
    /\ Goto(c, "end")
    /\ UNCHANGED <<path, pidfile, lk, run, kills, collided>>

Unlink(c) ==
    /\ pc[c] = "unlink"
    /\ path' = None
    /\ Goto(c, "release")
    /\ UNCHANGED <<pidfile, lk, run, rc, kills, collided>>

Release(c) ==
    /\ pc[c] = "release"
    /\ lk' = [lk EXCEPT ![c] = None]
    /\ Goto(c, IF rc[c] = 75 THEN "end" ELSE "rm")
    /\ UNCHANGED <<path, pidfile, run, rc, kills, collided>>

-----------------------------------------------------------------------------
(* The script *)

Alive(p) == p # None /\ pc[p[1]] \in Script /\ run[p[1]] = p[2]

\* Mutant: the pid file is not looked at.
Check_Skipped(c) ==
    /\ pc[c] = "check"
    /\ Goto(c, "write")
    /\ collided' = collided \cup {d \in Callers : pc[d] = "write"}
    /\ UNCHANGED <<path, pidfile, lk, run, rc, kills>>

\* pgrep -F
Check(c) ==
    /\ pc[c] = "check"
    /\ IF Alive(pidfile)
       THEN /\ rc' = [rc EXCEPT ![c] = 75]
            /\ Goto(c, "unlink")
            /\ UNCHANGED collided
       ELSE /\ Goto(c, "write")
            /\ collided' = collided \cup {d \in Callers : pc[d] = "write"}
            /\ UNCHANGED rc
    /\ UNCHANGED <<path, pidfile, lk, run, kills>>

WritePid(c) ==
    /\ pc[c] = "write"
    /\ pidfile' = <<c, run[c]>>
    /\ Goto(c, "work")
    /\ UNCHANGED <<path, lk, run, rc, kills, collided>>

\* _exit, with 99 after the script has upgraded itself (0 stands for any other
\* status). It removes the pid file whatever it holds.
Exit(c) ==
    /\ pc[c] = "work"
    /\ pidfile' = None
    /\ \E r \in IF run[c] <= MaxRestarts THEN {0, 99} ELSE {0} : rc' = [rc EXCEPT ![c] = r]
    /\ Goto(c, "unlink")
    /\ UNCHANGED <<path, lk, run, kills, collided>>

\* SIGKILL, or a signal before the traps are set; lockf reports EX_SOFTWARE.
Kill(c) ==
    /\ pc[c] \in Script /\ kills < MaxKills
    /\ kills' = kills + 1
    /\ rc' = [rc EXCEPT ![c] = 70]
    /\ Goto(c, "unlink")
    /\ UNCHANGED <<path, pidfile, lk, run, collided>>

-----------------------------------------------------------------------------
(* The rest of the wrapper's loop *)

RmFile(c) ==
    /\ pc[c] = "rm"
    /\ path' = None
    /\ Goto(c, "again")
    /\ UNCHANGED <<pidfile, lk, run, rc, kills, collided>>

Again(c) ==
    /\ pc[c] = "again"
    /\ IF rc[c] = 99
       THEN run' = [run EXCEPT ![c] = @ + 1] /\ Goto(c, "lock")
       ELSE UNCHANGED run /\ Goto(c, "end")
    /\ UNCHANGED <<path, pidfile, lk, rc, kills, collided>>

Step(c) ==
    \/ Lock(c) \/ Timeout(c) \/ Unlink(c) \/ Release(c)
    \/ Check(c) \/ WritePid(c) \/ Exit(c)
    \/ RmFile(c) \/ Again(c)

Next == \E c \in Callers : Start(c) \/ Step(c) \/ Kill(c)

Spec == Init /\ [][Next]_vars

\* Processes are scheduled and an upgrade comes to an end; nobody has to call
\* the wrapper.
Fairness == \A c \in Callers : WF_vars(Step(c))

FairSpec == Spec /\ Fairness

-----------------------------------------------------------------------------
(* Properties *)

Working == {c \in Callers : pc[c] = "work"}

\* The files and the processes are well formed.
TypeOK ==
    /\ path \in Inodes \cup {None}
    /\ pidfile \in (Callers \X (1..(MaxRestarts + 1))) \cup {None}
    /\ pc \in [Callers -> {"start", "lock", "unlink", "release", "rm", "again", "end"} \cup Script]
    /\ lk \in [Callers -> Inodes \cup {None}]
    /\ run \in [Callers -> 1..(MaxRestarts + 1)]
    /\ rc \in [Callers -> {0, 70, 75, 99}]

\* A second instance aborts ("Another instance is already running...").
OneInstance == Cardinality(Working) <= 1

\* The lock file is lost to other callers (the wrapper removes it after lockf has
\* let go of it), but the pid file still keeps a second instance out, unless two
\* scripts look at it before either has written its pid.
PidFileGuards ==
    collided = {} => \A c \in Working : Working = {c} /\ pidfile = <<c, run[c]>>

\* Every call ends, refused or done, however the scripts end.
EveryCallEnds == \A c \in Callers : pc[c] = "lock" ~> pc[c] = "end"
=============================================================================
