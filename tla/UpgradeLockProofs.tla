-------------------------- MODULE UpgradeLockProofs --------------------------
(***************************************************************************)
(* The pid file's part in keeping a second instance out, for any number of *)
(* callers, restarts and kills. The lock file has no part in the argument. *)
(*                                                                         *)
(* The order of the stages of the upgrade and what a complete one has      *)
(* done, for any number of failing commands and power losses. MCUpgrade    *)
(* composes the two.                                                       *)
(***************************************************************************)
EXTENDS MCUpgrade, TLAPS

\* As long as two scripts have not met between their check and their pid, one
\* script at most is past its check, and once it works its pid is in the file.
PastCheck(c) == pc[c] \in {"write", "work"}

Guarded ==
    collided = {} => /\ \A c, d \in Callers : PastCheck(c) /\ PastCheck(d) => c = d
                 /\ \A c \in Callers : pc[c] = "work" => pidfile = <<c, run[c]>>

Elsewhere == {"start", "lock", "check", "unlink", "release", "rm", "again", "end"}

Shape ==
    /\ pc \in [Callers -> Elsewhere \cup {"write", "work"}]
    /\ run \in [Callers -> Nat]

IInv == Shape /\ Guarded

\* No run holds the lock.
LEMMA InitHolds == Init => IInv
<1> SUFFICES ASSUME Init PROVE IInv
  OBVIOUS
<1>1. Shape
  BY DEF Init, Shape, Elsewhere
<1>2. \A c \in Callers : pc[c] = "start"
  BY DEF Init
<1>3. Guarded
  BY <1>2 DEF Guarded, PastCheck
<1> QED
  BY <1>1, <1>3 DEF IInv

\* A step of caller c that changes neither the pid file nor the run counters, and
\* takes c to a place that is not past the check, keeps the invariant.
LEMMA OtherSteps ==
    ASSUME IInv, NEW c \in Callers, NEW l \in Elsewhere,
           pc' = [pc EXCEPT ![c] = l], UNCHANGED <<pidfile, run, collided>>
    PROVE  IInv'
  BY DEF IInv, Shape, Guarded, PastCheck, Elsewhere

\* Every step keeps the invariant.
LEMMA StepHolds == IInv /\ [Next]_vars => IInv'
<1> SUFFICES ASSUME IInv, [Next]_vars PROVE IInv'
  OBVIOUS
<1>1. ASSUME NEW c \in Callers, NEW l \in Elsewhere, Goto(c, l),
             UNCHANGED <<pidfile, run, collided>>
      PROVE  IInv'
  BY <1>1, OtherSteps, Zenon DEF Goto
<1>2. ASSUME NEW c \in Callers,
             Start(c) \/ Lock(c) \/ Timeout(c) \/ Unlink(c) \/ Release(c) \/ RmFile(c) \/ Kill(c)
      PROVE  IInv'
  <2>1. UNCHANGED <<pidfile, run, collided>>
    BY <1>2 DEF Start, Lock, Timeout, Unlink, Release, RmFile, Kill
  <2>2. \E l \in Elsewhere : Goto(c, l)
    <3>1. CASE Start(c)
      BY <3>1 DEF Start, Elsewhere
    <3>2. CASE Lock(c)
      BY <3>2 DEF Lock, Elsewhere
    <3>3. CASE Timeout(c)
      BY <3>3 DEF Timeout, Elsewhere
    <3>4. CASE Unlink(c)
      BY <3>4 DEF Unlink, Elsewhere
    <3>5. CASE Release(c)
      BY <3>5 DEF Release, Elsewhere
    <3>6. CASE RmFile(c) \/ Kill(c)
      BY <3>6 DEF RmFile, Kill, Elsewhere
    <3> QED
      BY <1>2, <3>1, <3>2, <3>3, <3>4, <3>5, <3>6
  <2>3. PICK l \in Elsewhere : Goto(c, l)
    BY <2>2
  <2> QED
    BY <1>1, <2>1, <2>3
<1>3. ASSUME NEW c \in Callers, Check(c) PROVE IInv'
  <2>1. CASE Alive(pidfile)
    <3>1. Goto(c, "unlink") /\ UNCHANGED <<pidfile, run, collided>>
      BY <1>3, <2>1 DEF Check
    <3> QED
      BY <1>1, <3>1 DEF Elsewhere
  <2>2. CASE ~Alive(pidfile)
    <3>1. /\ pc[c] = "check" /\ pc' = [pc EXCEPT ![c] = "write"]
          /\ collided' = collided \cup {d \in Callers : pc[d] = "write"}
          /\ UNCHANGED <<pidfile, run>>
      BY <1>3, <2>2 DEF Check, Goto
    <3>2. Shape'
      BY <3>1 DEF IInv, Shape, Elsewhere
    <3>3. ASSUME collided' = {} PROVE \A d \in Callers : ~PastCheck(d)
      <4>1. collided = {} /\ \A d \in Callers : pc[d] # "write"
        BY <3>1, <3>3
      <4>2. \A d \in Callers : pc[d] = "work" => Alive(pidfile)
        <5>1. SUFFICES ASSUME NEW d \in Callers, pc[d] = "work" PROVE Alive(pidfile)
          OBVIOUS
        <5>2. pidfile = <<d, run[d]>>
          BY <4>1, <5>1 DEF IInv, Guarded
        <5>3. pidfile[1] = d /\ pidfile[2] = run[d]
          BY <5>2
        <5>4. pc[pidfile[1]] \in Script /\ run[pidfile[1]] = pidfile[2]
          BY <5>1, <5>3 DEF Script
        <5>5. pidfile # None
          BY <5>1, <5>2, LockAssumption DEF IInv, Shape
        <5> QED
          BY <5>2, <5>4, <5>5 DEF Alive
      <4> QED
        BY <2>2, <4>1, <4>2 DEF PastCheck
    <3>4. Guarded'
      BY <3>1, <3>2, <3>3 DEF Guarded, PastCheck, IInv, Shape
    <3> QED
      BY <3>2, <3>4 DEF IInv
  <2> QED
    BY <2>1, <2>2
<1>4. ASSUME NEW c \in Callers, WritePid(c) PROVE IInv'
  BY <1>4 DEF WritePid, Goto, IInv, Shape, Guarded, PastCheck, Elsewhere
<1>5. ASSUME NEW c \in Callers, Exit(c) PROVE IInv'
  BY <1>5 DEF Exit, Goto, IInv, Shape, Guarded, PastCheck, Elsewhere
<1>6. ASSUME NEW c \in Callers, Again(c) PROVE IInv'
  BY <1>6 DEF Again, Goto, IInv, Shape, Guarded, PastCheck, Elsewhere
<1>7. CASE UNCHANGED vars
  BY <1>7 DEF vars, IInv, Shape, Guarded, PastCheck, Elsewhere
<1> QED
  BY <1>2, <1>3, <1>4, <1>5, <1>6, <1>7 DEF Next, Step

\* For any number of callers: the pid file keeps a second instance out, unless two
\* scripts look at it before either has written its pid.
THEOREM PidFileIsEnough == Spec => []PidFileGuards
<1>1. IInv => PidFileGuards
  BY DEF IInv, Shape, Guarded, PastCheck, PidFileGuards, Working
<1> QED
  BY <1>1, InitHolds, StepHolds, PTL DEF Spec

-----------------------------------------------------------------------------
(* The stages of the upgrade *)

Stage1 == {"update", "lock1", "flag1", "self", "check", "unlock1", "fetch", "relock",
           "reflag", "kernel", "uboot1", "major", "pkg", "install-boot", "mark2"}
Locked == {"avail2", "unmajor", "pkg2", "core", "uboot2", "pkgs", "meta", "console2", "mark3"}
Stage2 == Locked \cup {"lock2", "flag2"}
Stage3 == {"avail3", "rest", "unflag", "console3", "boot3", "unmark"}

ScriptRecord ==
    [pc : {"idle", "gate", "exit", "unlock2"} \cup Stage1 \cup Stage2 \cup Stage3,
     booting : {None, 2, 3}, newMajor : BOOLEAN, isLocked : BOOLEAN, delAnn : BOOLEAN,
     unlockPkg : BOOLEAN, unlockAdd : BOOLEAN]

Types ==
    /\ major \in BOOLEAN /\ hasUboot \in BOOLEAN
    /\ done \subseteq S!Parts /\ {booted, new_major, due, hasty} \subseteq BOOLEAN
    /\ next_stage \in {None, 2, 3} /\ boot \in {None, 2, 3}
    /\ locks \subseteq {"pkg", "addons"}
    /\ fails \in 0..MaxFails /\ crashes \in 0..MaxCrashes
    /\ p \in ScriptRecord

\* Which annotation a stage runs under. A boot script runs no first stage.
Placed ==
    /\ p.pc = "idle" => p = S!Idle
    /\ p.pc # "idle" => p.booting = boot
    /\ p.pc \in Stage1 => next_stage = None /\ boot = None
    /\ p.pc \in Stage2 => next_stage = 2
    /\ p.pc \in Stage3 \cup {"unlock2"} => next_stage = 3
    /\ p.pc \in {"unmajor", "pkg2", "core", "uboot2", "pkgs", "meta"} => p.delAnn
    /\ p.pc \in Stage1 \cup {"gate", "lock2", "flag2", "avail2", "console2", "mark3", "unlock2",
                          "avail3", "console3", "boot3", "unmark"} => ~p.delAnn

\* The reboot comes between the first stage and the others.
Rebooted ==
    /\ booted \/ next_stage # None \/ p.pc \in {"uboot1", "major", "pkg", "install-boot", "mark2"}
         => "kernel" \in done
    /\ boot # None /\ next_stage # None => booted
    /\ p.pc = "gate" /\ next_stage # None => hasty \/ booted
    /\ next_stage = 3 \/ p.pc \in Stage2 => hasty \/ booted
    /\ p.pc \in Stage1 \cup {"gate"} => p.newMajor = (major /\ ~booted)
    /\ S!KernelFirst

\* pkg is new from the first stage on, and the annotation of a new major version
\* is there from the new kernel until pkg is unlocked.
PkgNew ==
    /\ next_stage # None \/ "core" \in done => "pkg" \in done
    /\ p.pc \in {"self", "check", "fetch", "kernel", "uboot1"} /\ ~p.newMajor => "pkg" \in done
    /\ p.pc \in {"install-boot", "mark2"} => "pkg" \in done /\ (p.newMajor => new_major)
    /\ p.pc \in {"major", "pkg", "lock1", "flag1", "unlock1", "relock", "reflag"} => p.newMajor
    /\ p.pc = "pkg" => new_major
    /\ p.pc \in {"lock2", "flag2", "avail2"} => p.isLocked = new_major
    /\ p.pc = "unmajor" => p.isLocked
    /\ p.pc \in {"pkg2", "core", "uboot2", "pkgs", "meta", "console2"} => ~new_major
    /\ ~hasty /\ (next_stage = 3 \/ "core" \in done \/ p.pc = "mark3") => ~new_major
    /\ ~hasty /\ major /\ ~booted /\ "pkg" \in done => new_major
    /\ p.pc = "pkg2" => "pkg" \notin locks

\* A locked package is unlocked by the exit handler or by a stage still to come.
Unlocking ==
    /\ p.pc \in Locked \cup {"unlock2"} => p.unlockAdd
    /\ p.delAnn => p.unlockAdd \/ next_stage = 3
    /\ crashes = 0 /\ "addons" \in locks => p.unlockAdd \/ next_stage = 2
    /\ crashes = 0 /\ ~hasty /\ "pkg" \in locks => p.unlockPkg \/ "pkg" \notin done \/ new_major

\* The package of the loader is new only if the loader is.
Flashed ==
    hasUboot =>
    /\ "pkgs" \in done => "ubootpkg" \in done
    /\ crashes = 0 =>
         /\ "ubootpkg" \in done \/ next_stage = 3 => "uboot" \in done
         /\ p.pc \in {"install-boot", "mark2"} => "uboot" \in done \/ new_major
         /\ next_stage = 2 => "uboot" \in done \/ new_major \/ p.delAnn
         /\ p.pc \in {"pkg2", "core", "uboot2"} => "uboot" \in done \/ p.isLocked
         /\ p.pc \in {"pkgs", "meta", "console2", "mark3"} => "uboot" \in done

\* The console menu is lost and regenerated.
Console ==
    fails = 0 /\ crashes = 0 /\ "ttys" \notin done =>
        p.pc \in {"uboot2", "pkgs", "meta", "console2", "unflag", "console3"}

\* The inductive invariant.
StagesInv == Types /\ Placed /\ Rebooted /\ PkgNew /\ Unlocking /\ Flashed /\ Console

\* A run begins: by hand, or by a boot script.
LEMMA StartKeeps ==
    ASSUME StagesInv, S!Start
    PROVE  StagesInv'
<1>1. Types'
  <2>1. hasty' \in BOOLEAN /\ (major /\ ~booted) \in BOOLEAN
    BY DEF S!Start
  <2>2. p' = [pc |-> "gate", booting |-> boot, newMajor |-> (major /\ ~booted),
              isLocked |-> FALSE, delAnn |-> FALSE, unlockPkg |-> FALSE, unlockAdd |-> FALSE]
    BY DEF S!Start, S!Idle
  <2>3. p' \in ScriptRecord
    BY <2>1, <2>2 DEF ScriptRecord, StagesInv, Types
  <2>4. QED
    BY <2>1, <2>3 DEF S!Start, S!kind, S!marks, StagesInv, Types
<1>2. Placed'
  BY StagesAssumption DEF StagesInv, Types, ScriptRecord, S!ConstantsRight, S!Start,
     S!kind, S!marks, S!counts, Placed, Stage1, Stage2, Stage3, Locked, S!Idle
<1>3. Rebooted'
  BY StagesAssumption, Zenon DEF StagesInv, Types, ScriptRecord, S!ConstantsRight, S!Start,
     S!kind, S!marks, S!counts, Placed, Rebooted, S!KernelFirst, Stage1, Stage2, Stage3,
     Locked, S!Idle
<1>4. PkgNew'
  BY StagesAssumption DEF StagesInv, Types, ScriptRecord, S!ConstantsRight, S!Start,
     S!kind, S!marks, S!counts, Placed, Rebooted, S!KernelFirst, PkgNew, Stage1, Stage2,
     Stage3, Locked, S!Idle
<1>5. Unlocking'
  BY StagesAssumption DEF StagesInv, Types, ScriptRecord, S!ConstantsRight, S!Start,
     S!kind, S!marks, S!counts, Placed, Rebooted, PkgNew, Unlocking, Stage1, Stage2,
     Stage3, Locked, S!Idle
<1>6. Flashed'
  BY StagesAssumption DEF StagesInv, Types, ScriptRecord, S!ConstantsRight, S!Start,
     S!kind, S!marks, S!counts, Placed, Flashed, PkgNew, Stage1, Stage2, Stage3, Locked,
     S!Idle
<1>7. Console'
  BY StagesAssumption DEF StagesInv, Types, ScriptRecord, S!ConstantsRight, S!Start,
     S!kind, S!marks, S!counts, Placed, Console, S!Idle
<1>8. QED
  BY <1>1, <1>2, <1>3, <1>4, <1>5, <1>6, <1>7, Zenon DEF StagesInv

\* next_stage decides on the stage.
LEMMA GateKeeps ==
    ASSUME StagesInv, S!Gate
    PROVE  StagesInv'
<1>1. Types'
  <2>1. PICK x \in {"exit", "update", "lock2", "avail3"} :
          p' = [p EXCEPT !.isLocked = new_major, !.pc = x]
    BY Zenon DEF S!Gate
  <2>2. p' \in ScriptRecord
    BY <2>1 DEF StagesInv, Types, ScriptRecord, Stage1, Stage2, Stage3
  <2>3. QED
    BY <2>2 DEF S!Gate, S!At, S!kind, S!marks, S!counts, StagesInv, Types
<1>2. Placed'
  BY StagesAssumption DEF StagesInv, Types, ScriptRecord, S!ConstantsRight, S!Gate,
     S!At, S!kind, S!marks, S!counts, Placed, Stage1, Stage2, Stage3, Locked, S!Idle
<1>3. Rebooted'
  BY StagesAssumption DEF StagesInv, Types, ScriptRecord, S!ConstantsRight, S!Gate,
     S!At, S!kind, S!marks, S!counts, Placed, Rebooted, S!KernelFirst, Stage1, Stage2,
     Stage3, Locked, S!Idle
<1>4. PkgNew'
  BY StagesAssumption DEF StagesInv, Types, ScriptRecord, S!ConstantsRight, S!Gate,
     S!At, S!kind, S!marks, S!counts, Placed, Rebooted, S!KernelFirst, PkgNew, Stage1,
     Stage2, Stage3, Locked, S!Idle
<1>5. Unlocking'
  BY StagesAssumption DEF StagesInv, Types, ScriptRecord, S!ConstantsRight, S!Gate,
     S!At, S!kind, S!marks, S!counts, Placed, Rebooted, PkgNew, Unlocking, Stage1,
     Stage2, Stage3, Locked, S!Idle
<1>6. Flashed'
  BY StagesAssumption DEF StagesInv, Types, ScriptRecord, S!ConstantsRight, S!Gate,
     S!At, S!kind, S!marks, S!counts, Placed, Flashed, PkgNew, Stage1, Stage2, Stage3,
     Locked, S!Idle
<1>7. Console'
  BY StagesAssumption DEF StagesInv, Types, ScriptRecord, S!ConstantsRight, S!Gate,
     S!At, S!kind, S!marks, S!counts, Placed, Console, S!Idle
<1>8. QED
  BY <1>1, <1>2, <1>3, <1>4, <1>5, <1>6, <1>7, Zenon DEF StagesInv

\* The exit handler is told to unlock pkg.
LEMMA FlagPkgKeeps ==
    ASSUME StagesInv, S!FlagPkg("flag1", "self") \/ S!FlagPkg("reflag", "kernel")
    PROVE  StagesInv'
<1>1. /\ (p.pc = "flag1" /\ p'.pc = "self") \/ (p.pc = "reflag" /\ p'.pc = "kernel")
      /\ p' = [p EXCEPT !.unlockPkg = TRUE, !.pc = p'.pc]
  BY Zenon DEF S!FlagPkg, S!At, StagesInv, Types, ScriptRecord
<1>2. /\ p' \in ScriptRecord /\ p'.unlockPkg = TRUE
      /\ p'.booting = p.booting /\ p'.newMajor = p.newMajor /\ p'.isLocked = p.isLocked
      /\ p'.delAnn = p.delAnn /\ p'.unlockAdd = p.unlockAdd
  BY <1>1, Zenon DEF StagesInv, Types, ScriptRecord, Stage1
<1>3. UNCHANGED <<major, hasUboot, done, booted, next_stage, new_major, locks, due, boot,
                  fails, crashes, hasty>>
  BY DEF S!FlagPkg, S!At, S!kind, S!marks, S!counts
<1>4. Types'
  BY <1>1, <1>2, <1>3 DEF StagesInv, Types, ScriptRecord
<1>5. Placed'
  BY <1>1, <1>2, <1>3 DEF StagesInv, Types, Placed, ScriptRecord, Stage1, Stage2, Stage3, Locked
<1>6. Rebooted'
  BY <1>1, <1>2, <1>3 DEF StagesInv, Placed, Rebooted, S!KernelFirst, Stage1, Stage2, Stage3, Locked
<1>7. PkgNew'
  BY <1>1, <1>2, <1>3 DEF StagesInv, PkgNew
<1>8. Unlocking'
  BY <1>1, <1>2, <1>3 DEF StagesInv, Unlocking, Locked
<1>9. Flashed'
  BY <1>1, <1>2, <1>3 DEF StagesInv, Flashed
<1>10. Console'
  BY <1>1, <1>2, <1>3 DEF StagesInv, Console
<1>11. QED
  BY <1>4, <1>5, <1>6, <1>7, <1>8, <1>9, <1>10, Zenon DEF StagesInv

\* pkg is unlocked before the downloads.
LEMMA UnlockPkgKeeps ==
    ASSUME StagesInv, S!UnlockPkg
    PROVE  StagesInv'
<1>1. Types'
  BY StagesAssumption, Zenon DEF StagesInv, Types, ScriptRecord, S!ConstantsRight, S!UnlockPkg,
     S!At, S!kind, S!marks, S!counts, Stage1, Stage2, Stage3, Locked, S!Parts, S!Idle
<1>2. Placed'
  BY StagesAssumption DEF StagesInv, Types, ScriptRecord, S!ConstantsRight, S!UnlockPkg,
     S!At, S!kind, S!marks, S!counts, Placed, Stage1, Stage2, Stage3, Locked, S!Idle
<1>3. Rebooted'
  BY StagesAssumption DEF StagesInv, Types, ScriptRecord, S!ConstantsRight, S!UnlockPkg,
     S!At, S!kind, S!marks, S!counts, Placed, Rebooted, S!KernelFirst, Stage1, Stage2,
     Stage3, Locked, S!Idle
<1>4. PkgNew'
  BY StagesAssumption DEF StagesInv, Types, ScriptRecord, S!ConstantsRight, S!UnlockPkg,
     S!At, S!kind, S!marks, S!counts, Placed, Rebooted, S!KernelFirst, PkgNew, Stage1,
     Stage2, Stage3, Locked, S!Idle
<1>5. Unlocking'
  BY StagesAssumption DEF StagesInv, Types, ScriptRecord, S!ConstantsRight, S!UnlockPkg,
     S!At, S!kind, S!marks, S!counts, Placed, Rebooted, PkgNew, Unlocking, Stage1,
     Stage2, Stage3, Locked, S!Idle
<1>6. Flashed'
  BY StagesAssumption DEF StagesInv, Types, ScriptRecord, S!ConstantsRight, S!UnlockPkg,
     S!At, S!kind, S!marks, S!counts, Placed, Flashed, PkgNew, Stage1, Stage2, Stage3,
     Locked, S!Idle
<1>7. Console'
  BY StagesAssumption DEF StagesInv, Types, ScriptRecord, S!ConstantsRight, S!UnlockPkg,
     S!At, S!kind, S!marks, S!counts, Placed, Console, S!Idle
<1>8. QED
  BY <1>1, <1>2, <1>3, <1>4, <1>5, <1>6, <1>7, Zenon DEF StagesInv

\* The exit handler is told to unlock the add-on packages.
LEMMA FlagAddonsKeeps ==
    ASSUME StagesInv, S!FlagAddons
    PROVE  StagesInv'
<1>1. Types'
  BY StagesAssumption, Zenon DEF StagesInv, Types, ScriptRecord, S!ConstantsRight,
     S!FlagAddons, S!At, S!kind, S!marks, S!counts, Stage1, Stage2, Stage3, Locked,
     S!Parts, S!Idle
<1>2. Placed'
  BY StagesAssumption DEF StagesInv, Types, ScriptRecord, S!ConstantsRight,
     S!FlagAddons, S!At, S!kind, S!marks, S!counts, Placed, Stage1, Stage2, Stage3,
     Locked, S!Idle
<1>3. Rebooted'
  BY StagesAssumption DEF StagesInv, Types, ScriptRecord, S!ConstantsRight,
     S!FlagAddons, S!At, S!kind, S!marks, S!counts, Placed, Rebooted, S!KernelFirst,
     Stage1, Stage2, Stage3, Locked, S!Idle
<1>4. PkgNew'
  BY StagesAssumption DEF StagesInv, Types, ScriptRecord, S!ConstantsRight,
     S!FlagAddons, S!At, S!kind, S!marks, S!counts, Placed, Rebooted, S!KernelFirst,
     PkgNew, Stage1, Stage2, Stage3, Locked, S!Idle
<1>5. Unlocking'
  BY StagesAssumption DEF StagesInv, Types, ScriptRecord, S!ConstantsRight,
     S!FlagAddons, S!At, S!kind, S!marks, S!counts, Placed, Rebooted, PkgNew, Unlocking,
     Stage1, Stage2, Stage3, Locked, S!Idle
<1>6. Flashed'
  BY StagesAssumption DEF StagesInv, Types, ScriptRecord, S!ConstantsRight,
     S!FlagAddons, S!At, S!kind, S!marks, S!counts, Placed, Flashed, PkgNew, Stage1,
     Stage2, Stage3, Locked, S!Idle
<1>7. Console'
  BY StagesAssumption DEF StagesInv, Types, ScriptRecord, S!ConstantsRight,
     S!FlagAddons, S!At, S!kind, S!marks, S!counts, Placed, Console, S!Idle
<1>8. QED
  BY <1>1, <1>2, <1>3, <1>4, <1>5, <1>6, <1>7, Zenon DEF StagesInv

\* Is there anything to upgrade in the second stage?
LEMMA Avail2Keeps ==
    ASSUME StagesInv, S!Avail2
    PROVE  StagesInv'
<1>1. Types'
  <2>1. S!Available \in BOOLEAN
    BY DEF S!Available
  <2>2. PICK x \in {"mark3", "unmajor", "core"} : p' = [p EXCEPT !.delAnn = S!Available, !.pc = x]
    BY Zenon DEF S!Avail2
  <2>3. p' \in ScriptRecord
    BY <2>1, <2>2 DEF StagesInv, Types, ScriptRecord, Stage1, Stage2, Stage3, Locked
  <2>4. QED
    BY <2>3 DEF S!Avail2, S!At, S!kind, S!marks, S!counts, StagesInv, Types
<1>2. Placed'
  BY StagesAssumption DEF StagesInv, Types, ScriptRecord, S!ConstantsRight, S!Avail2,
     S!Available, S!At, S!kind, S!marks, S!counts, Placed, Stage1, Stage2, Stage3,
     Locked, S!Idle
<1>3. Rebooted'
  BY StagesAssumption DEF StagesInv, Types, ScriptRecord, S!ConstantsRight, S!Avail2,
     S!Available, S!At, S!kind, S!marks, S!counts, Placed, Rebooted, S!KernelFirst,
     Stage1, Stage2, Stage3, Locked, S!Idle
<1>4. PkgNew'
  BY StagesAssumption DEF StagesInv, Types, ScriptRecord, S!ConstantsRight, S!Avail2,
     S!Available, S!At, S!kind, S!marks, S!counts, Placed, Rebooted, S!KernelFirst,
     PkgNew, Stage1, Stage2, Stage3, Locked, S!Idle
<1>5. Unlocking'
  BY StagesAssumption DEF StagesInv, Types, ScriptRecord, S!ConstantsRight, S!Avail2,
     S!Available, S!At, S!kind, S!marks, S!counts, Placed, Rebooted, PkgNew, Unlocking,
     Stage1, Stage2, Stage3, Locked, S!Idle
<1>6. Flashed'
  BY StagesAssumption DEF StagesInv, Types, ScriptRecord, S!ConstantsRight, S!Avail2,
     S!Available, S!At, S!kind, S!marks, S!counts, Placed, Flashed, PkgNew, Stage1,
     Stage2, Stage3, Locked, S!Idle
<1>7. Console'
  BY StagesAssumption DEF StagesInv, Types, ScriptRecord, S!ConstantsRight, S!Avail2,
     S!Available, S!At, S!kind, S!marks, S!counts, Placed, Console, S!Idle
<1>8. QED
  BY <1>1, <1>2, <1>3, <1>4, <1>5, <1>6, <1>7, Zenon DEF StagesInv

\* pkg is unlocked and the annotation of a new major version removed.
LEMMA UnmajorKeeps ==
    ASSUME StagesInv, S!Unmajor
    PROVE  StagesInv'
<1>1. Types'
  BY StagesAssumption, Zenon DEF StagesInv, Types, ScriptRecord, S!ConstantsRight, S!Unmajor,
     S!Goto, S!At, S!kind, S!marks, S!counts, Stage1, Stage2, Stage3, Locked, S!Parts,
     S!Idle
<1>2. Placed'
  BY StagesAssumption DEF StagesInv, Types, ScriptRecord, S!ConstantsRight, S!Unmajor,
     S!Goto, S!At, S!kind, S!marks, S!counts, Placed, Stage1, Stage2, Stage3, Locked,
     S!Idle
<1>3. Rebooted'
  BY StagesAssumption DEF StagesInv, Types, ScriptRecord, S!ConstantsRight, S!Unmajor,
     S!Goto, S!At, S!kind, S!marks, S!counts, Placed, Rebooted, S!KernelFirst, Stage1,
     Stage2, Stage3, Locked, S!Idle
<1>4. PkgNew'
  BY StagesAssumption DEF StagesInv, Types, ScriptRecord, S!ConstantsRight, S!Unmajor,
     S!Goto, S!At, S!kind, S!marks, S!counts, Placed, Rebooted, S!KernelFirst, PkgNew,
     Stage1, Stage2, Stage3, Locked, S!Idle
<1>5. Unlocking'
  BY StagesAssumption DEF StagesInv, Types, ScriptRecord, S!ConstantsRight, S!Unmajor,
     S!Goto, S!At, S!kind, S!marks, S!counts, Placed, Rebooted, PkgNew, Unlocking,
     Stage1, Stage2, Stage3, Locked, S!Idle
<1>6. Flashed'
  BY StagesAssumption DEF StagesInv, Types, ScriptRecord, S!ConstantsRight, S!Unmajor,
     S!Goto, S!At, S!kind, S!marks, S!counts, Placed, Flashed, PkgNew, Stage1, Stage2,
     Stage3, Locked, S!Idle
<1>7. Console'
  BY StagesAssumption DEF StagesInv, Types, ScriptRecord, S!ConstantsRight, S!Unmajor,
     S!Goto, S!At, S!kind, S!marks, S!counts, Placed, Console, S!Idle
<1>8. QED
  BY <1>1, <1>2, <1>3, <1>4, <1>5, <1>6, <1>7, Zenon DEF StagesInv

\* The meta package ends the upgrade of the userland.
LEMMA MetaKeeps ==
    ASSUME StagesInv, S!Meta
    PROVE  StagesInv'
<1>1. Types'
  BY StagesAssumption, Zenon DEF StagesInv, Types, ScriptRecord, S!ConstantsRight, S!Meta,
     S!At, S!kind, S!marks, S!counts, Stage1, Stage2, Stage3, Locked, S!Parts, S!Idle
<1>2. Placed'
  BY StagesAssumption DEF StagesInv, Types, ScriptRecord, S!ConstantsRight, S!Meta,
     S!At, S!kind, S!marks, S!counts, Placed, Stage1, Stage2, Stage3, Locked, S!Idle
<1>3. Rebooted'
  BY StagesAssumption DEF StagesInv, Types, ScriptRecord, S!ConstantsRight, S!Meta,
     S!At, S!kind, S!marks, S!counts, Placed, Rebooted, S!KernelFirst, Stage1, Stage2,
     Stage3, Locked, S!Idle
<1>4. PkgNew'
  BY StagesAssumption DEF StagesInv, Types, ScriptRecord, S!ConstantsRight, S!Meta,
     S!At, S!kind, S!marks, S!counts, Placed, Rebooted, S!KernelFirst, PkgNew, Stage1,
     Stage2, Stage3, Locked, S!Idle
<1>5. Unlocking'
  BY StagesAssumption DEF StagesInv, Types, ScriptRecord, S!ConstantsRight, S!Meta,
     S!At, S!kind, S!marks, S!counts, Placed, Rebooted, PkgNew, Unlocking, Stage1,
     Stage2, Stage3, Locked, S!Idle
<1>6. Flashed'
  BY StagesAssumption DEF StagesInv, Types, ScriptRecord, S!ConstantsRight, S!Meta,
     S!At, S!kind, S!marks, S!counts, Placed, Flashed, PkgNew, Stage1, Stage2, Stage3,
     Locked, S!Idle
<1>7. Console'
  BY StagesAssumption DEF StagesInv, Types, ScriptRecord, S!ConstantsRight, S!Meta,
     S!At, S!kind, S!marks, S!counts, Placed, Console, S!Idle
<1>8. QED
  BY <1>1, <1>2, <1>3, <1>4, <1>5, <1>6, <1>7, Zenon DEF StagesInv

\* The second stage ends.
LEMMA UnlockAddonsKeeps ==
    ASSUME StagesInv, S!UnlockAddons
    PROVE  StagesInv'
<1>1. Types'
  <2>1. due' \in BOOLEAN
    BY DEF S!UnlockAddons
  <2>2. PICK x \in {"exit", "avail3"} : p' = [p EXCEPT !.unlockAdd = FALSE, !.pc = x]
    BY Zenon DEF S!UnlockAddons
  <2>3. p' \in ScriptRecord
    BY <2>2 DEF StagesInv, Types, ScriptRecord, Stage1, Stage2, Stage3
  <2>4. QED
    BY <2>1, <2>3 DEF S!UnlockAddons, S!At, S!kind, S!marks, S!counts, StagesInv, Types
<1>2. Placed'
  BY StagesAssumption DEF StagesInv, Types, ScriptRecord, S!ConstantsRight,
     S!UnlockAddons, S!At, S!kind, S!marks, S!counts, Placed, Stage1, Stage2, Stage3,
     Locked, S!Idle
<1>3. Rebooted'
  BY StagesAssumption DEF StagesInv, Types, ScriptRecord, S!ConstantsRight,
     S!UnlockAddons, S!At, S!kind, S!marks, S!counts, Placed, Rebooted, S!KernelFirst,
     Stage1, Stage2, Stage3, Locked, S!Idle
<1>4. PkgNew'
  BY StagesAssumption DEF StagesInv, Types, ScriptRecord, S!ConstantsRight,
     S!UnlockAddons, S!At, S!kind, S!marks, S!counts, Placed, Rebooted, S!KernelFirst,
     PkgNew, Stage1, Stage2, Stage3, Locked, S!Idle
<1>5. Unlocking'
  BY StagesAssumption DEF StagesInv, Types, ScriptRecord, S!ConstantsRight,
     S!UnlockAddons, S!At, S!kind, S!marks, S!counts, Placed, Rebooted, PkgNew,
     Unlocking, Stage1, Stage2, Stage3, Locked, S!Idle
<1>6. Flashed'
  BY StagesAssumption DEF StagesInv, Types, ScriptRecord, S!ConstantsRight,
     S!UnlockAddons, S!At, S!kind, S!marks, S!counts, Placed, Flashed, PkgNew, Stage1,
     Stage2, Stage3, Locked, S!Idle
<1>7. Console'
  BY StagesAssumption DEF StagesInv, Types, ScriptRecord, S!ConstantsRight,
     S!UnlockAddons, S!At, S!kind, S!marks, S!counts, Placed, Console, S!Idle
<1>8. QED
  BY <1>1, <1>2, <1>3, <1>4, <1>5, <1>6, <1>7, Zenon DEF StagesInv

\* Is there anything to upgrade in the third stage?
LEMMA Avail3Keeps ==
    ASSUME StagesInv, S!Avail3
    PROVE  StagesInv'
<1>1. Types'
  <2>1. S!Available \in BOOLEAN
    BY DEF S!Available
  <2>2. PICK x \in {"rest", "unmark"} : p' = [p EXCEPT !.delAnn = S!Available, !.pc = x]
    BY Zenon DEF S!Avail3
  <2>3. p' \in ScriptRecord
    BY <2>1, <2>2 DEF StagesInv, Types, ScriptRecord, Stage1, Stage2, Stage3, Locked
  <2>4. QED
    BY <2>3 DEF S!Avail3, S!At, S!kind, S!marks, S!counts, StagesInv, Types
<1>2. Placed'
  BY StagesAssumption DEF StagesInv, Types, ScriptRecord, S!ConstantsRight, S!Avail3,
     S!Available, S!At, S!kind, S!marks, S!counts, Placed, Stage1, Stage2, Stage3,
     Locked, S!Idle
<1>3. Rebooted'
  BY StagesAssumption DEF StagesInv, Types, ScriptRecord, S!ConstantsRight, S!Avail3,
     S!Available, S!At, S!kind, S!marks, S!counts, Placed, Rebooted, S!KernelFirst,
     Stage1, Stage2, Stage3, Locked, S!Idle
<1>4. PkgNew'
  BY StagesAssumption DEF StagesInv, Types, ScriptRecord, S!ConstantsRight, S!Avail3,
     S!Available, S!At, S!kind, S!marks, S!counts, Placed, Rebooted, S!KernelFirst,
     PkgNew, Stage1, Stage2, Stage3, Locked, S!Idle
<1>5. Unlocking'
  BY StagesAssumption DEF StagesInv, Types, ScriptRecord, S!ConstantsRight, S!Avail3,
     S!Available, S!At, S!kind, S!marks, S!counts, Placed, Rebooted, PkgNew, Unlocking,
     Stage1, Stage2, Stage3, Locked, S!Idle
<1>6. Flashed'
  BY StagesAssumption DEF StagesInv, Types, ScriptRecord, S!ConstantsRight, S!Avail3,
     S!Available, S!At, S!kind, S!marks, S!counts, Placed, Flashed, PkgNew, Stage1,
     Stage2, Stage3, Locked, S!Idle
<1>7. Console'
  BY StagesAssumption DEF StagesInv, Types, ScriptRecord, S!ConstantsRight, S!Avail3,
     S!Available, S!At, S!kind, S!marks, S!counts, Placed, Console, S!Idle
<1>8. QED
  BY <1>1, <1>2, <1>3, <1>4, <1>5, <1>6, <1>7, Zenon DEF StagesInv

\* The third stage is not repeated any more.
LEMMA UnflagKeeps ==
    ASSUME StagesInv, S!Unflag
    PROVE  StagesInv'
<1>1. Types'
  BY StagesAssumption, Zenon DEF StagesInv, Types, ScriptRecord, S!ConstantsRight, S!Unflag,
     S!At, S!kind, S!marks, S!counts, Stage1, Stage2, Stage3, Locked, S!Parts, S!Idle
<1>2. Placed'
  BY StagesAssumption DEF StagesInv, Types, ScriptRecord, S!ConstantsRight, S!Unflag,
     S!At, S!kind, S!marks, S!counts, Placed, Stage1, Stage2, Stage3, Locked, S!Idle
<1>3. Rebooted'
  BY StagesAssumption DEF StagesInv, Types, ScriptRecord, S!ConstantsRight, S!Unflag,
     S!At, S!kind, S!marks, S!counts, Placed, Rebooted, S!KernelFirst, Stage1, Stage2,
     Stage3, Locked, S!Idle
<1>4. PkgNew'
  BY StagesAssumption DEF StagesInv, Types, ScriptRecord, S!ConstantsRight, S!Unflag,
     S!At, S!kind, S!marks, S!counts, Placed, Rebooted, S!KernelFirst, PkgNew, Stage1,
     Stage2, Stage3, Locked, S!Idle
<1>5. Unlocking'
  BY StagesAssumption DEF StagesInv, Types, ScriptRecord, S!ConstantsRight, S!Unflag,
     S!At, S!kind, S!marks, S!counts, Placed, Rebooted, PkgNew, Unlocking, Stage1,
     Stage2, Stage3, Locked, S!Idle
<1>6. Flashed'
  BY StagesAssumption DEF StagesInv, Types, ScriptRecord, S!ConstantsRight, S!Unflag,
     S!At, S!kind, S!marks, S!counts, Placed, Flashed, PkgNew, Stage1, Stage2, Stage3,
     Locked, S!Idle
<1>7. Console'
  BY StagesAssumption DEF StagesInv, Types, ScriptRecord, S!ConstantsRight, S!Unflag,
     S!At, S!kind, S!marks, S!counts, Placed, Console, S!Idle
<1>8. QED
  BY <1>1, <1>2, <1>3, <1>4, <1>5, <1>6, <1>7, Zenon DEF StagesInv

\* The upgrade is over.
LEMMA UnmarkKeeps ==
    ASSUME StagesInv, S!Unmark
    PROVE  StagesInv'
<1>1. Types'
  BY StagesAssumption DEF StagesInv, Types, ScriptRecord, S!ConstantsRight, S!Unmark,
     S!Goto, S!At, S!kind, S!marks, S!counts, Stage1, Stage2, Stage3, Locked, S!Parts,
     S!Idle
<1>2. Placed'
  BY StagesAssumption DEF StagesInv, Types, ScriptRecord, S!ConstantsRight, S!Unmark,
     S!Goto, S!At, S!kind, S!marks, S!counts, Placed, Stage1, Stage2, Stage3, Locked,
     S!Idle
<1>3. Rebooted'
  BY StagesAssumption DEF StagesInv, Types, ScriptRecord, S!ConstantsRight, S!Unmark,
     S!Goto, S!At, S!kind, S!marks, S!counts, Placed, Rebooted, S!KernelFirst, Stage1,
     Stage2, Stage3, Locked, S!Idle
<1>4. PkgNew'
  BY StagesAssumption DEF StagesInv, Types, ScriptRecord, S!ConstantsRight, S!Unmark,
     S!Goto, S!At, S!kind, S!marks, S!counts, Placed, Rebooted, S!KernelFirst, PkgNew,
     Stage1, Stage2, Stage3, Locked, S!Idle
<1>5. Unlocking'
  BY StagesAssumption DEF StagesInv, Types, ScriptRecord, S!ConstantsRight, S!Unmark,
     S!Goto, S!At, S!kind, S!marks, S!counts, Placed, Rebooted, PkgNew, Unlocking,
     Stage1, Stage2, Stage3, Locked, S!Idle
<1>6. Flashed'
  BY StagesAssumption DEF StagesInv, Types, ScriptRecord, S!ConstantsRight, S!Unmark,
     S!Goto, S!At, S!kind, S!marks, S!counts, Placed, Flashed, PkgNew, Stage1, Stage2,
     Stage3, Locked, S!Idle
<1>7. Console'
  BY StagesAssumption DEF StagesInv, Types, ScriptRecord, S!ConstantsRight, S!Unmark,
     S!Goto, S!At, S!kind, S!marks, S!counts, Placed, Console, S!Idle
<1>8. QED
  BY <1>1, <1>2, <1>3, <1>4, <1>5, <1>6, <1>7, Zenon DEF StagesInv

\* A reboot.
LEMMA RebootKeeps ==
    ASSUME StagesInv, S!Reboot
    PROVE  StagesInv'
<1>1. Types'
  <2>1. booted' \in BOOLEAN
    BY DEF S!Reboot, S!Boots
  <2>2. p' \in ScriptRecord
    BY DEF S!Reboot, S!Boots, S!Idle, ScriptRecord
  <2>3. fails' \in 0..MaxFails /\ crashes' \in 0..MaxCrashes
    BY StagesAssumption DEF S!Reboot, S!Boots, S!ConstantsRight, StagesInv, Types
  <2>4. QED
    BY <2>1, <2>2, <2>3, Zenon DEF S!Reboot, S!Boots, S!kind, S!marks, StagesInv, Types
<1>2. Placed'
  BY StagesAssumption DEF StagesInv, Types, ScriptRecord, S!ConstantsRight, S!Reboot,
     S!Boots, S!kind, S!marks, S!counts, Placed, Stage1, Stage2, Stage3, Locked, S!Idle
<1>3. Rebooted'
  BY StagesAssumption, Zenon DEF StagesInv, Types, ScriptRecord, S!ConstantsRight, S!Reboot,
     S!Boots, S!kind, S!marks, S!counts, Placed, Rebooted, S!KernelFirst, Stage1,
     Stage2, Stage3, Locked, S!Idle
<1>4. PkgNew'
  BY StagesAssumption DEF StagesInv, Types, ScriptRecord, S!ConstantsRight, S!Reboot,
     S!Boots, S!kind, S!marks, S!counts, Placed, Rebooted, S!KernelFirst, PkgNew,
     Stage1, Stage2, Stage3, Locked, S!Idle
<1>5. Unlocking'
  BY StagesAssumption DEF StagesInv, Types, ScriptRecord, S!ConstantsRight, S!Reboot,
     S!Boots, S!kind, S!marks, S!counts, Placed, Rebooted, PkgNew, Unlocking, Stage1,
     Stage2, Stage3, Locked, S!Idle
<1>6. Flashed'
  BY StagesAssumption DEF StagesInv, Types, ScriptRecord, S!ConstantsRight, S!Reboot,
     S!Boots, S!kind, S!marks, S!counts, Placed, Flashed, PkgNew, Stage1, Stage2,
     Stage3, Locked, S!Idle
<1>7. Console'
  BY StagesAssumption DEF StagesInv, Types, ScriptRecord, S!ConstantsRight, S!Reboot,
     S!Boots, S!kind, S!marks, S!counts, Placed, Console, S!Idle
<1>8. QED
  BY <1>1, <1>2, <1>3, <1>4, <1>5, <1>6, <1>7, Zenon DEF StagesInv

\* Power is lost at any command.
LEMMA CrashKeeps ==
    ASSUME StagesInv, S!Crash
    PROVE  StagesInv'
<1>1. Types'
  <2>1. booted' \in BOOLEAN
    BY DEF S!Crash, S!Boots
  <2>2. p' \in ScriptRecord
    BY DEF S!Crash, S!Boots, S!Idle, ScriptRecord
  <2>3. fails' \in 0..MaxFails /\ crashes' \in 0..MaxCrashes
    BY StagesAssumption DEF S!Crash, S!Boots, S!ConstantsRight, StagesInv, Types
  <2>4. QED
    BY <2>1, <2>2, <2>3, Zenon DEF S!Crash, S!Boots, S!kind, S!marks, StagesInv, Types
<1>2. Placed'
  BY StagesAssumption DEF StagesInv, Types, ScriptRecord, S!ConstantsRight, S!Crash,
     S!Boots, S!kind, S!marks, S!counts, Placed, Stage1, Stage2, Stage3, Locked, S!Idle
<1>3. Rebooted'
  BY StagesAssumption, Zenon DEF StagesInv, Types, ScriptRecord, S!ConstantsRight, S!Crash,
     S!Boots, S!kind, S!marks, S!counts, Placed, Rebooted, S!KernelFirst, Stage1,
     Stage2, Stage3, Locked, S!Idle
<1>4. PkgNew'
  BY StagesAssumption DEF StagesInv, Types, ScriptRecord, S!ConstantsRight, S!Crash,
     S!Boots, S!kind, S!marks, S!counts, Placed, Rebooted, S!KernelFirst, PkgNew,
     Stage1, Stage2, Stage3, Locked, S!Idle
<1>5. crashes' # 0 /\ p'.pc = "idle" /\ p'.delAnn = FALSE
  BY StagesAssumption DEF StagesInv, Types, S!Crash, S!Boots, S!Idle, S!ConstantsRight
<1>6. Unlocking' /\ Console'
  BY <1>5 DEF Unlocking, Console, Locked
<1>7. Flashed'
  BY <1>5 DEF StagesInv, Flashed, S!Crash, S!Boots, S!kind
<1>8. QED
  BY <1>1, <1>2, <1>3, <1>4, <1>6, <1>7, Zenon DEF StagesInv

\* The first stage.
LEMMA Stage1Keeps ==
    ASSUME StagesInv, S!Stage1
    PROVE  StagesInv'
<1>1. CASE S!Update
  BY <1>1, StagesAssumption DEF StagesInv, Types, ScriptRecord, Placed, Rebooted,
     S!KernelFirst, PkgNew, Unlocking, Flashed, Console, Stage1, Stage2, Stage3, Locked,
     S!Parts, S!Idle, S!Update, S!Goto, S!At, S!kind, S!marks, S!counts,
     S!ConstantsRight
<1>2. CASE S!LockPkg("lock1", "flag1") \/ S!LockPkg("relock", "reflag")
  BY <1>2, StagesAssumption DEF StagesInv, Types, ScriptRecord, Placed, Rebooted,
     S!KernelFirst, PkgNew, Unlocking, Flashed, Console, Stage1, Stage2, Stage3, Locked,
     S!Parts, S!Idle, S!LockPkg, S!Goto, S!At, S!kind, S!marks, S!counts,
     S!ConstantsRight
<1>3. CASE S!Self
  BY <1>3, StagesAssumption DEF StagesInv, Types, ScriptRecord, Placed, Rebooted,
     S!KernelFirst, PkgNew, Unlocking, Flashed, Console, Stage1, Stage2, Stage3, Locked,
     S!Parts, S!Idle, S!Self, S!Goto, S!At, S!kind, S!marks, S!counts, S!ConstantsRight
<1>4. CASE S!Check
  BY <1>4, StagesAssumption DEF StagesInv, Types, ScriptRecord, Placed, Rebooted,
     S!KernelFirst, PkgNew, Unlocking, Flashed, Console, Stage1, Stage2, Stage3, Locked,
     S!Parts, S!Idle, S!Check, S!Goto, S!At, S!kind, S!marks, S!counts, S!ConstantsRight
<1>5. CASE S!Fetch
  BY <1>5, StagesAssumption DEF StagesInv, Types, ScriptRecord, Placed, Rebooted,
     S!KernelFirst, PkgNew, Unlocking, Flashed, Console, Stage1, Stage2, Stage3, Locked,
     S!Parts, S!Idle, S!Fetch, S!Install, S!Goto, S!At, S!kind, S!marks, S!counts,
     S!ConstantsRight
<1>6. CASE S!Kernel
  BY <1>6, StagesAssumption DEF StagesInv, Types, ScriptRecord, Placed, Rebooted,
     S!KernelFirst, PkgNew, Unlocking, Flashed, Console, Stage1, Stage2, Stage3, Locked,
     S!Parts, S!Idle, S!Kernel, S!Install, S!Goto, S!At, S!kind, S!marks, S!counts,
     S!ConstantsRight
<1>7. CASE S!Uboot1
  BY <1>7, StagesAssumption DEF StagesInv, Types, ScriptRecord, Placed, Rebooted,
     S!KernelFirst, PkgNew, Unlocking, Flashed, Console, Stage1, Stage2, Stage3, Locked,
     S!Parts, S!Idle, S!Uboot1, S!Flash, S!Install, S!Goto, S!At, S!kind, S!marks,
     S!counts, S!ConstantsRight
<1>8. CASE S!Major
  BY <1>8, StagesAssumption DEF StagesInv, Types, ScriptRecord, Placed, Rebooted,
     S!KernelFirst, PkgNew, Unlocking, Flashed, Console, Stage1, Stage2, Stage3, Locked,
     S!Parts, S!Idle, S!Major, S!Goto, S!At, S!kind, S!marks, S!counts, S!ConstantsRight
<1>9. CASE S!Pkg
  BY <1>9, StagesAssumption DEF StagesInv, Types, ScriptRecord, Placed, Rebooted,
     S!KernelFirst, PkgNew, Unlocking, Flashed, Console, Stage1, Stage2, Stage3, Locked,
     S!Parts, S!Idle, S!Pkg, S!Goto, S!At, S!kind, S!marks, S!counts, S!ConstantsRight
<1>10. CASE S!InstallBoot
  BY <1>10, StagesAssumption DEF StagesInv, Types, ScriptRecord, Placed, Rebooted,
     S!KernelFirst, PkgNew, Unlocking, Flashed, Console, Stage1, Stage2, Stage3, Locked,
     S!Parts, S!Idle, S!InstallBoot, S!Install, S!Goto, S!At, S!kind, S!marks, S!counts,
     S!ConstantsRight
<1>11. CASE S!Mark2
  BY <1>11, StagesAssumption DEF StagesInv, Types, ScriptRecord, Placed, Rebooted,
     S!KernelFirst, PkgNew, Unlocking, Flashed, Console, Stage1, Stage2, Stage3, Locked,
     S!Parts, S!Idle, S!Mark2, S!Goto, S!At, S!kind, S!marks, S!counts, S!ConstantsRight
<1>12. QED
  BY <1>1, <1>2, <1>3, <1>4, <1>5, <1>6, <1>7, <1>8, <1>9, <1>10, <1>11, FlagPkgKeeps,
     UnlockPkgKeeps DEF S!Stage1

\* The second stage.
LEMMA Stage2Keeps ==
    ASSUME StagesInv, S!Stage2
    PROVE  StagesInv'
<1>1. CASE S!LockAddons
  BY <1>1, StagesAssumption DEF StagesInv, Types, ScriptRecord, Placed, Rebooted,
     S!KernelFirst, PkgNew, Unlocking, Flashed, Console, Stage1, Stage2, Stage3, Locked,
     S!Parts, S!Idle, S!LockAddons, S!Goto, S!At, S!kind, S!marks, S!counts,
     S!ConstantsRight
<1>2. CASE S!Pkg2
  BY <1>2, StagesAssumption DEF StagesInv, Types, ScriptRecord, Placed, Rebooted,
     S!KernelFirst, PkgNew, Unlocking, Flashed, Console, Stage1, Stage2, Stage3, Locked,
     S!Parts, S!Idle, S!Pkg2, S!Install, S!Goto, S!At, S!kind, S!marks, S!counts,
     S!ConstantsRight
<1>3. CASE S!Core
  BY <1>3, StagesAssumption DEF StagesInv, Types, ScriptRecord, Placed, Rebooted,
     S!KernelFirst, PkgNew, Unlocking, Flashed, Console, Stage1, Stage2, Stage3, Locked,
     S!Parts, S!Idle, S!Core, S!Install, S!Goto, S!At, S!kind, S!marks, S!counts,
     S!ConstantsRight
<1>4. CASE S!Uboot2
  BY <1>4, StagesAssumption DEF StagesInv, Types, ScriptRecord, Placed, Rebooted,
     S!KernelFirst, PkgNew, Unlocking, Flashed, Console, Stage1, Stage2, Stage3, Locked,
     S!Parts, S!Idle, S!Uboot2, S!Flash, S!Install, S!Goto, S!At, S!kind, S!marks,
     S!counts, S!ConstantsRight
<1>5. CASE S!Pkgs
  BY <1>5, StagesAssumption DEF StagesInv, Types, ScriptRecord, Placed, Rebooted,
     S!KernelFirst, PkgNew, Unlocking, Flashed, Console, Stage1, Stage2, Stage3, Locked,
     S!Parts, S!Idle, S!Pkgs, S!Install, S!Goto, S!At, S!kind, S!marks, S!counts,
     S!ConstantsRight
<1>6. CASE S!Console2
  BY <1>6, StagesAssumption DEF StagesInv, Types, ScriptRecord, Placed, Rebooted,
     S!KernelFirst, PkgNew, Unlocking, Flashed, Console, Stage1, Stage2, Stage3, Locked,
     S!Parts, S!Idle, S!Console2, S!Install, S!Goto, S!At, S!kind, S!marks, S!counts,
     S!ConstantsRight
<1>7. CASE S!Mark3
  BY <1>7, StagesAssumption DEF StagesInv, Types, ScriptRecord, Placed, Rebooted,
     S!KernelFirst, PkgNew, Unlocking, Flashed, Console, Stage1, Stage2, Stage3, Locked,
     S!Parts, S!Idle, S!Mark3, S!Goto, S!At, S!kind, S!marks, S!counts, S!ConstantsRight
<1>8. QED
  BY <1>1, <1>2, <1>3, <1>4, <1>5, <1>6, <1>7, FlagAddonsKeeps, Avail2Keeps,
     UnmajorKeeps, MetaKeeps, UnlockAddonsKeeps DEF S!Stage2

\* The third stage.
LEMMA Stage3Keeps ==
    ASSUME StagesInv, S!Stage3
    PROVE  StagesInv'
<1>1. CASE S!Rest
  BY <1>1, StagesAssumption DEF StagesInv, Types, ScriptRecord, Placed, Rebooted,
     S!KernelFirst, PkgNew, Unlocking, Flashed, Console, Stage1, Stage2, Stage3, Locked,
     S!Parts, S!Idle, S!Rest, S!Install, S!Goto, S!At, S!kind, S!marks, S!counts,
     S!ConstantsRight
<1>2. CASE S!Console3
  BY <1>2, StagesAssumption DEF StagesInv, Types, ScriptRecord, Placed, Rebooted,
     S!KernelFirst, PkgNew, Unlocking, Flashed, Console, Stage1, Stage2, Stage3, Locked,
     S!Parts, S!Idle, S!Console3, S!Install, S!Goto, S!At, S!kind, S!marks, S!counts,
     S!ConstantsRight
<1>3. CASE S!Boot3
  BY <1>3, StagesAssumption DEF StagesInv, Types, ScriptRecord, Placed, Rebooted,
     S!KernelFirst, PkgNew, Unlocking, Flashed, Console, Stage1, Stage2, Stage3, Locked,
     S!Parts, S!Idle, S!Boot3, S!Install, S!Goto, S!At, S!kind, S!marks, S!counts,
     S!ConstantsRight
<1>4. QED
  BY <1>1, <1>2, <1>3, Avail3Keeps, UnflagKeeps, UnmarkKeeps DEF S!Stage3

\* The exit handler.
LEMMA ExitKeeps ==
    ASSUME StagesInv, S!Exit
    PROVE  StagesInv'
<1>1. Types'
  BY StagesAssumption DEF StagesInv, Types, ScriptRecord, S!ConstantsRight, S!Exit,
     S!kind, S!marks, S!counts, Stage1, Stage2, Stage3, Locked, S!Parts, S!Idle
<1>2. Placed'
  BY StagesAssumption DEF StagesInv, Types, ScriptRecord, S!ConstantsRight, S!Exit,
     S!kind, S!marks, S!counts, Placed, Stage1, Stage2, Stage3, Locked, S!Idle
<1>3. Rebooted'
  BY StagesAssumption DEF StagesInv, Types, ScriptRecord, S!ConstantsRight, S!Exit,
     S!kind, S!marks, S!counts, Placed, Rebooted, S!KernelFirst, Stage1, Stage2, Stage3,
     Locked, S!Idle
<1>4. PkgNew'
  BY StagesAssumption DEF StagesInv, Types, ScriptRecord, S!ConstantsRight, S!Exit,
     S!kind, S!marks, S!counts, Placed, Rebooted, S!KernelFirst, PkgNew, Stage1, Stage2,
     Stage3, Locked, S!Idle
<1>5. Unlocking'
  BY StagesAssumption DEF StagesInv, Types, ScriptRecord, S!ConstantsRight, S!Exit,
     S!kind, S!marks, S!counts, Placed, Rebooted, PkgNew, Unlocking, Stage1, Stage2,
     Stage3, Locked, S!Idle
<1>6. Flashed'
  <2>1. /\ p'.pc = "idle" /\ p'.delAnn = FALSE /\ UNCHANGED <<hasUboot, done, new_major, crashes>>
        /\ next_stage' = IF p.delAnn THEN None ELSE next_stage
    BY DEF S!Exit, S!Idle, S!kind, S!counts
  <2>2. QED
    BY <2>1, StagesAssumption DEF StagesInv, Flashed, S!ConstantsRight
<1>7. Console'
  BY StagesAssumption DEF StagesInv, Types, ScriptRecord, S!ConstantsRight, S!Exit,
     S!kind, S!marks, S!counts, Placed, Console, S!Idle
<1>8. QED
  BY <1>1, <1>2, <1>3, <1>4, <1>5, <1>6, <1>7, Zenon DEF StagesInv

\* A command fails.
LEMMA FailKeeps ==
    ASSUME StagesInv, S!Fail
    PROVE  StagesInv'
<1>1. Types'
  BY StagesAssumption DEF StagesInv, Types, ScriptRecord, S!ConstantsRight, S!Fail,
     S!Goto, S!kind, S!marks, S!counts, Stage1, Stage2, Stage3, Locked, S!Parts, S!Idle
<1>2. Placed'
  BY StagesAssumption DEF StagesInv, Types, ScriptRecord, S!ConstantsRight, S!Fail,
     S!Goto, S!kind, S!marks, S!counts, Placed, Stage1, Stage2, Stage3, Locked, S!Idle
<1>3. Rebooted'
  BY StagesAssumption DEF StagesInv, Types, ScriptRecord, S!ConstantsRight, S!Fail,
     S!Goto, S!kind, S!marks, S!counts, Placed, Rebooted, S!KernelFirst, Stage1, Stage2,
     Stage3, Locked, S!Idle
<1>4. PkgNew'
  BY StagesAssumption DEF StagesInv, Types, ScriptRecord, S!ConstantsRight, S!Fail,
     S!Goto, S!kind, S!marks, S!counts, Placed, Rebooted, S!KernelFirst, PkgNew, Stage1,
     Stage2, Stage3, Locked, S!Idle
<1>5. Unlocking'
  BY StagesAssumption DEF StagesInv, Types, ScriptRecord, S!ConstantsRight, S!Fail,
     S!Goto, S!kind, S!marks, S!counts, Placed, Rebooted, PkgNew, Unlocking, Stage1,
     Stage2, Stage3, Locked, S!Idle
<1>6. Flashed'
  BY StagesAssumption DEF StagesInv, Types, ScriptRecord, S!ConstantsRight, S!Fail,
     S!Goto, S!kind, S!marks, S!counts, Placed, Flashed, PkgNew, Stage1, Stage2, Stage3,
     Locked, S!Idle
<1>7. Console'
  BY StagesAssumption DEF StagesInv, Types, ScriptRecord, S!ConstantsRight, S!Fail,
     S!Goto, S!kind, S!marks, S!counts, Placed, Console, S!Idle
<1>8. QED
  BY <1>1, <1>2, <1>3, <1>4, <1>5, <1>6, <1>7, Zenon DEF StagesInv

\* A system before its upgrade.
LEMMA StagesInit == S!Init => StagesInv
<1> SUFFICES ASSUME S!Init PROVE StagesInv
  OBVIOUS
<1>1. Types
  <2>1. p \in ScriptRecord
    BY DEF S!Init, S!Idle, ScriptRecord
  <2>2. fails \in 0..MaxFails /\ crashes \in 0..MaxCrashes
    BY StagesAssumption DEF S!Init, S!ConstantsRight
  <2>3. QED
    BY <2>1, <2>2, Zenon DEF S!Init, S!Parts, Types
<1>2. p.pc = "idle" /\ p.delAnn = FALSE
  BY DEF S!Init, S!Idle
<1>3. Placed /\ Rebooted
  BY <1>2, StagesAssumption
     DEF S!Init, Placed, Rebooted, S!KernelFirst, Stage1, Stage2, Stage3, Locked, S!ConstantsRight
<1>4. PkgNew /\ Unlocking
  BY <1>2, StagesAssumption DEF S!Init, PkgNew, Unlocking, Locked, S!ConstantsRight
<1>5. Flashed /\ Console
  BY <1>2, StagesAssumption DEF S!Init, Flashed, Console, S!ConstantsRight
<1>6. QED
  BY <1>1, <1>3, <1>4, <1>5, Zenon DEF StagesInv

\* Nothing of the upgrade changes.
LEMMA StagesSame ==
    ASSUME StagesInv, UNCHANGED stages
    PROVE  StagesInv'
<1>1. UNCHANGED <<major, hasUboot, done, booted, next_stage, new_major, locks, due, boot, p,
                  fails, crashes, hasty>>
  BY DEF stages
<1>2. Types' /\ Placed'
  <2>1. Types'
    BY <1>1 DEF StagesInv, Types
  <2>2. Placed'
    BY <1>1, Zenon DEF StagesInv, Placed
  <2>3. QED
    BY <2>1, <2>2
<1>3. Rebooted'
  BY <1>1, Zenon DEF StagesInv, Rebooted, S!KernelFirst
<1>4. PkgNew'
  BY <1>1, Zenon DEF StagesInv, PkgNew
<1>5. Unlocking' /\ Console'
  BY <1>1, Zenon DEF StagesInv, Unlocking, Console
<1>6. Flashed'
  BY <1>1, Zenon DEF StagesInv, Flashed
<1>7. QED
  BY <1>2, <1>3, <1>4, <1>5, <1>6, Zenon DEF StagesInv

\* Every step of the upgrade keeps the invariant.
LEMMA StagesKept == StagesInv /\ S!Next => StagesInv'
  BY StartKeeps, GateKeeps, Stage1Keeps, Stage2Keeps, Stage3Keeps, ExitKeeps, FailKeeps,
     RebootKeeps, CrashKeeps DEF S!Next, S!Script

\* The invariant implies the order of the stages and what a complete upgrade has done.
LEMMA StagesInvRight == StagesInv => StagesRight
<1> SUFFICES ASSUME StagesInv PROVE StagesRight
  OBVIOUS
<1>1. S!KernelFirst
  BY DEF StagesInv, Rebooted
<1>2. S!TypeOK
  BY DEF StagesInv, Types, S!TypeOK
<1>3. S!LocksReleased
  <2> SUFFICES ASSUME S!Complete, crashes = 0, ~hasty PROVE locks = {}
    BY DEF S!LocksReleased
  <2>1. p = S!Idle /\ next_stage = None /\ "core" \in done
    BY DEF S!Complete, S!System, StagesInv, Placed
  <2>2. "addons" \notin locks
    BY <2>1, StagesAssumption DEF StagesInv, Unlocking, S!Idle, S!ConstantsRight
  <2>3. "pkg" \notin locks
    BY <2>1 DEF StagesInv, Unlocking, PkgNew, S!Idle
  <2>4. QED
    BY <2>2, <2>3 DEF StagesInv, Types
<1>4. S!UbootFlashed
  BY DEF S!UbootFlashed, S!Complete, S!System, StagesInv, Flashed
<1>5. S!ConsoleReady
  BY DEF S!ConsoleReady, S!Complete, StagesInv, Console
<1>6. QED
  BY <1>1, <1>2, <1>3, <1>4, <1>5 DEF StagesRight, S!StagesRight, S!CompleteIsDone

\* FreeSense-upgrade in place, with any number of failing commands, signals and power
\* losses: the userland comes after the reboot into the new kernel, and a complete
\* upgrade leaves no package locked, has flashed the loader and restored the console.
THEOREM StagesAlwaysRight == FairAll => []StagesRight
<1>1. InitAll => StagesInv
  BY StagesInit DEF InitAll
<1>2. StagesInv /\ [NextAll]_all => StagesInv'
  BY StagesKept, StagesSame DEF NextAll, all
<1>3. QED
  BY <1>1, <1>2, StagesInvRight, PTL DEF FairAll
=============================================================================
