--------------------------- MODULE UpgradeStages ---------------------------
(***************************************************************************)
(* FreeSense-upgrade on a system without boot environments: the upgrade    *)
(* in place, in three stages with a reboot after the first (and after the  *)
(* second for a new major version). What is left to do is recorded in      *)
(* annotations of the kernel package. A run can fail or be interrupted at  *)
(* any command, and power can be lost.                                     *)
(*                                                                         *)
(* Packages are grouped by the command that upgrades them; only whether a  *)
(* group has the new version is kept.                                      *)
(***************************************************************************)
EXTENDS Naturals

CONSTANTS
    MaxFails,       \* bound on failing commands and signals
    MaxCrashes,     \* bound on power losses
    None

\* "uboot" is the loader in flash, "ubootpkg" the package that holds it, and
\* "ttys" an /etc/ttys that starts the console menu.
Parts == {"pkg", "upgrade", "kernel", "boot", "core", "ubootpkg", "uboot",
          "pkgs", "meta", "addons", "ttys"}

VARIABLES
    major, hasUboot,    \* the kind of upgrade and of hardware
    done,               \* the parts that are up to date
    booted,             \* the running kernel is the new one
    next_stage, new_major,  \* the annotations
    locks,              \* locked packages: "pkg", "addons"
    due,                \* a reboot was ordered
    boot,               \* where the boot scripts are: 2, 3 or None
    p,                  \* the running script
    fails, crashes,
    hasty               \* history: it was run by hand while a reboot was to come

kind == <<major, hasUboot>>
marks == <<next_stage, new_major>>
counts == <<fails, crashes, hasty>>
vars == <<kind, done, booted, marks, locks, due, boot, p, counts>>

\* What the bounds are, and that None is no stage.
ConstantsRight == {MaxFails, MaxCrashes} \subseteq Nat /\ None \notin Nat

Idle == [pc |-> "idle", booting |-> None, newMajor |-> FALSE, isLocked |-> FALSE,
         delAnn |-> FALSE, unlockPkg |-> FALSE, unlockAdd |-> FALSE]

Init ==
    /\ major \in BOOLEAN /\ hasUboot \in BOOLEAN
    /\ done \in {{"ttys"}, {"ttys", "addons"}}
    /\ booted = FALSE
    /\ next_stage = None /\ new_major = FALSE
    /\ locks = {}
    /\ due = FALSE /\ boot = None
    /\ p = Idle
    /\ fails = 0 /\ crashes = 0 /\ hasty = FALSE

Goto(pc) == p' = [p EXCEPT !.pc = pc]

At(pc) == p.pc = pc /\ UNCHANGED <<kind, booted, boot, counts>>

\* A command that brings parts up to date; packages may restore /etc/ttys.
Install(at, to, parts) ==
    /\ At(at)
    /\ done' = (done \cup parts) \ (IF (parts \ done) \cap {"core", "pkgs", "addons"} # {}
                                    THEN {"ttys"} ELSE {})
    /\ Goto(to)
    /\ UNCHANGED <<marks, locks, due>>

-----------------------------------------------------------------------------
\* A run by the boot scripts (-b 2, then -b 3) or by the administrator, after
\* FreeSense-repo-setup has compared the versions.
Start ==
    /\ p.pc = "idle"
    /\ hasty' = (hasty \/ (boot = None /\ (due \/ next_stage = 2)))
    /\ p' = [Idle EXCEPT !.pc = "gate",
                         !.booting = boot,
                         !.newMajor = major /\ ~booted]
    /\ UNCHANGED <<kind, done, booted, marks, locks, due, boot, fails, crashes>>

Gate ==
    /\ At("gate")
    /\ p' = [p EXCEPT !.isLocked = new_major,
                      !.pc = IF p.booting # None /\ next_stage # p.booting THEN "exit"
                             ELSE IF next_stage = None THEN "update"
                             ELSE IF next_stage = 2 THEN "lock2" ELSE "avail3"]
    /\ UNCHANGED <<done, marks, locks, due>>

(* Stage 1 *)

\* pkg_update
Update ==
    /\ At("update")
    /\ IF p.newMajor \/ "pkg" \in done
       THEN UNCHANGED <<done, locks>>
       ELSE done' = done \cup {"pkg"} /\ locks' = locks \ {"pkg"}
    /\ Goto(IF p.newMajor THEN "lock1" ELSE "self")
    /\ UNCHANGED <<marks, due>>

\* pkg_lock pkg, and the flag for _exit, in two commands.
LockPkg(at, to) ==
    /\ At(at)
    /\ locks' = locks \cup {"pkg"}
    /\ Goto(to)
    /\ UNCHANGED <<done, marks, due>>

FlagPkg(at, to) ==
    /\ At(at)
    /\ p' = [p EXCEPT !.unlockPkg = TRUE, !.pc = to]
    /\ UNCHANGED <<done, marks, locks, due>>

\* The script upgrades itself and the wrapper starts it again.
Self ==
    /\ At("self")
    /\ done' = done \cup {"upgrade"}
    /\ Goto(IF "upgrade" \in done THEN "check" ELSE "exit")
    /\ UNCHANGED <<marks, locks, due>>

\* Mutant: a new kernel is taken for a complete upgrade.
Check_Kernel ==
    /\ At("check")
    /\ Goto(IF "kernel" \in done THEN "exit" ELSE IF p.newMajor THEN "unlock1" ELSE "fetch")
    /\ UNCHANGED <<done, marks, locks, due>>

\* check_upgrade. A refusal (WireGuard, the administrator) is a Fail.
Check ==
    /\ At("check")
    /\ Goto(IF {"kernel", "core", "meta"} \subseteq done THEN "exit"
            ELSE IF p.newMajor THEN "unlock1" ELSE "fetch")
    /\ UNCHANGED <<done, marks, locks, due>>

UnlockPkg ==
    /\ At("unlock1")
    /\ locks' = locks \ {"pkg"}
    /\ p' = [p EXCEPT !.unlockPkg = FALSE, !.pc = "fetch"]
    /\ UNCHANGED <<done, marks, due>>

Fetch == Install("fetch", IF p.newMajor THEN "relock" ELSE "kernel", {})

Flash == IF hasUboot /\ "ubootpkg" \notin done THEN {"ubootpkg", "uboot"} ELSE {}

Kernel == Install("kernel", "uboot1", {"kernel"})

Uboot1 ==
    Install("uboot1", IF p.newMajor THEN "major" ELSE "install-boot",
            IF p.newMajor THEN {} ELSE Flash)

\* The new_major annotation, and pkg while the network is up.
Major ==
    /\ At("major")
    /\ new_major' = TRUE
    /\ Goto("pkg")
    /\ UNCHANGED <<done, next_stage, locks, due>>

Pkg ==
    /\ At("pkg")
    /\ done' = done \cup {"pkg"}
    /\ locks' = IF "pkg" \in done THEN locks ELSE locks \ {"pkg"}
    /\ Goto("install-boot")
    /\ UNCHANGED <<marks, due>>

InstallBoot == Install("install-boot", "mark2", {"boot"})

\* next_stage 2 and the reboot; with -R the administrator reboots.
Mark2 ==
    /\ At("mark2")
    /\ next_stage' = 2
    /\ due' \in BOOLEAN
    /\ Goto("exit")
    /\ UNCHANGED <<done, new_major, locks>>

(* Stage 2 *)

LockAddons ==
    /\ At("lock2")
    /\ locks' = locks \cup {"addons"}
    /\ Goto("flag2")
    /\ UNCHANGED <<done, marks, due>>

FlagAddons ==
    /\ At("flag2")
    /\ p' = [p EXCEPT !.unlockAdd = TRUE, !.pc = "avail2"]
    /\ UNCHANGED <<done, marks, locks, due>>

\* upgrade_available, which does not count locked packages
Available ==
    \/ "pkg" \notin done \cup locks
    \/ "addons" \notin done \cup locks
    \/ ~({"kernel", "core", "pkgs", "meta"} \subseteq done)
    \/ hasUboot /\ "ubootpkg" \notin done

Avail2 ==
    /\ At("avail2")
    /\ p' = [p EXCEPT !.delAnn = Available,
                      !.pc = IF ~Available THEN "mark3"
                             ELSE IF p.isLocked THEN "unmajor" ELSE "core"]
    /\ UNCHANGED <<done, marks, locks, due>>

\* pkg is unlocked and the annotation removed before pkg is reinstalled.
Unmajor ==
    /\ At("unmajor")
    /\ locks' = locks \ {"pkg"}
    /\ new_major' = FALSE
    /\ Goto("pkg2")
    /\ UNCHANGED <<done, next_stage, due>>

Pkg2 == Install("pkg2", "core", {"pkg"})
Core == Install("core", "uboot2", {"kernel", "core"})

\* Mutant: u-boot is left to the package upgrade.
Uboot2_Skipped == Install("uboot2", "pkgs", {})

Uboot2 == Install("uboot2", "pkgs", IF p.isLocked THEN Flash ELSE {})

\* The packages of the system repository, the meta package last. The u-boot
\* package is one of them, its update script is not run.
Pkgs == Install("pkgs", "meta", {"pkgs"} \cup (IF hasUboot THEN {"ubootpkg"} ELSE {}))

Meta ==
    /\ At("meta")
    /\ done' = done \cup {"meta"}
    /\ p' = [p EXCEPT !.delAnn = FALSE, !.pc = "console2"]
    /\ UNCHANGED <<marks, locks, due>>

Console2 == Install("console2", "mark3", {"ttys"})

Mark3 ==
    /\ At("mark3")
    /\ next_stage' = 3
    /\ Goto("unlock2")
    /\ UNCHANGED <<done, new_major, locks, due>>

\* A new major version reboots; a boot script stops here.
UnlockAddons ==
    /\ At("unlock2")
    /\ locks' = locks \ {"addons"}
    /\ p' = [p EXCEPT !.unlockAdd = FALSE,
                      !.pc = IF p.isLocked \/ p.booting # None THEN "exit" ELSE "avail3"]
    /\ due' = (due \/ p.isLocked)
    /\ UNCHANGED <<done, marks>>

(* Stage 3 *)

Avail3 ==
    /\ At("avail3")
    /\ p' = [p EXCEPT !.delAnn = Available, !.pc = IF Available THEN "rest" ELSE "unmark"]
    /\ UNCHANGED <<done, marks, locks, due>>

Rest ==
    Install("rest", "unflag",
            ({"pkg", "addons"} \ locks) \cup {"kernel", "core", "pkgs", "meta"}
              \cup (IF hasUboot THEN {"ubootpkg"} ELSE {}))

Unflag ==
    /\ At("unflag")
    /\ p' = [p EXCEPT !.delAnn = FALSE, !.pc = "console3"]
    /\ UNCHANGED <<done, marks, locks, due>>

Console3 == Install("console3", "boot3", {"ttys"})
Boot3 == Install("boot3", "unmark", {"boot"})

Unmark ==
    /\ At("unmark")
    /\ next_stage' = None
    /\ Goto("exit")
    /\ UNCHANGED <<done, new_major, locks, due>>

-----------------------------------------------------------------------------
\* _exit. The boot scripts go on with the next stage.
Exit ==
    /\ p.pc = "exit"
    /\ next_stage' = IF p.delAnn THEN None ELSE next_stage
    /\ locks' = locks \ ((IF p.unlockPkg THEN {"pkg"} ELSE {})
                           \cup (IF p.unlockAdd THEN {"addons"} ELSE {}))
    /\ boot' = IF boot = 2 THEN 3 ELSE None
    /\ p' = Idle
    /\ UNCHANGED <<kind, done, booted, new_major, due, counts>>

\* A command fails (_exec) or HUP, INT or TERM arrives.
Fail ==
    /\ p.pc \notin {"idle", "exit"}
    /\ fails < MaxFails
    /\ fails' = fails + 1
    /\ Goto("exit")
    /\ UNCHANGED <<kind, done, booted, marks, locks, due, boot, crashes, hasty>>

Boots ==
    /\ booted' = ("kernel" \in done)
    /\ boot' = 2
    /\ due' = FALSE
    /\ p' = Idle
    /\ UNCHANGED <<kind, done, marks, locks, fails, hasty>>

\* The ordered reboot, or one by the administrator.
Reboot == p.pc = "idle" /\ (due \/ boot = None) /\ Boots /\ UNCHANGED crashes

Crash == crashes < MaxCrashes /\ crashes' = crashes + 1 /\ Boots

Stage1 ==
    \/ Update \/ LockPkg("lock1", "flag1") \/ FlagPkg("flag1", "self") \/ Self
    \/ Check \/ UnlockPkg \/ Fetch \/ LockPkg("relock", "reflag")
    \/ FlagPkg("reflag", "kernel") \/ Kernel \/ Uboot1 \/ Major \/ Pkg
    \/ InstallBoot \/ Mark2

Stage2 ==
    \/ LockAddons \/ FlagAddons \/ Avail2 \/ Unmajor \/ Pkg2 \/ Core \/ Uboot2
    \/ Pkgs \/ Meta \/ Console2 \/ Mark3 \/ UnlockAddons

Stage3 == Avail3 \/ Rest \/ Unflag \/ Console3 \/ Boot3 \/ Unmark

Script == Gate \/ Stage1 \/ Stage2 \/ Stage3 \/ Exit

Next == Start \/ Script \/ Fail \/ Reboot \/ Crash

Spec == Init /\ [][Next]_vars

System == {"kernel", "core", "pkgs", "meta"}

\* A script that is started goes on; the boot scripts start theirs; an
\* ordered reboot, and one after -R, happens; and however often the
\* administrator reboots, an upgrade that is not complete is run again.
Fairness ==
    /\ WF_vars(Script)
    /\ WF_vars(boot # None /\ Start)
    /\ SF_vars(boot = None /\ (next_stage # None \/ ~(System \subseteq done)) /\ Start)
    /\ WF_vars((due \/ next_stage = 2) /\ Reboot)

FairSpec == Spec /\ Fairness

-----------------------------------------------------------------------------
\* Types.
TypeOK ==
    /\ done \subseteq Parts
    /\ {booted, new_major, due} \subseteq BOOLEAN
    /\ next_stage \in {None, 2, 3}
    /\ locks \subseteq {"pkg", "addons"}
    /\ boot \in {None, 2, 3}
    /\ fails \in 0..MaxFails /\ crashes \in 0..MaxCrashes

\* The userland is upgraded only on the new kernel, and so is the u-boot of a new
\* major version, which "requires new kernel and base to be in place" (1521-1522):
\* the reboot between the first and the second stage is skipped only by a run by
\* hand before it (1256-1268, 1560-1564).
KernelFirst ==
    hasty \/ booted \/ (done \cap {"core", "pkgs", "meta"} = {} /\ ~(major /\ "uboot" \in done))

Complete == p.pc = "idle" /\ boot = None /\ next_stage = None /\ System \subseteq done

\* After a complete upgrade no package is locked, although every stage may
\* have been interrupted between a lock and its flag (157-179, 1285-1288,
\* 1438-1451, 1568-1569, 1606, 1674-1675), unless power was lost or a reboot
\* was skipped.
LocksReleased == Complete /\ crashes = 0 /\ ~hasty => locks = {}

\* "Update the U-boot at stage 2 if it was not updated at the first stage
\* because of a $MAJOR update" (1615-1617): after a complete upgrade without
\* power losses the loader is new.
UbootFlashed == Complete /\ hasUboot /\ crashes = 0 => "uboot" \in done

\* "Package updates may restore FreeBSD's stock /etc/ttys. Regenerate it"
\* (990-991): after a complete upgrade in which nothing failed the console menu
\* starts.
ConsoleReady == Complete /\ fails = 0 /\ crashes = 0 => "ttys" \in done

\* Whatever fails and whenever power is lost, an upgrade that is repeated
\* becomes complete (delete_annotation 1596-1638 and 1696-1699; 1256-1268).
EventuallyComplete == <>[](next_stage = None /\ System \subseteq done)

\* An upgrade that counts as complete has left nothing undone.
CompleteIsDone == TypeOK /\ LocksReleased /\ UbootFlashed /\ ConsoleReady

\* The stages come in their order, and none is left out.
StagesRight == KernelFirst /\ CompleteIsDone
=============================================================================
