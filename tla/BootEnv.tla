------------------------------ MODULE BootEnv ------------------------------
(***************************************************************************)
(* The boot environments of a firewall: FreeSense-upgrade's be_pkg_upgrade *)
(* with its exit handler, the freesense_be_health service that accepts or  *)
(* rolls back the result, the freesense-be command of the administrator,   *)
(* and power loss between any two commands of the scripts.                 *)
(*                                                                         *)
(* A name is the sequence of suffixes appended to the installation's name  *)
(* (BE_PREV_SUFFIX is the time stamp of the run); names the administrator  *)
(* chooses begin with 0.                                                   *)
(***************************************************************************)
EXTENDS Naturals, Sequences, FiniteSets, SequencesExt

CONSTANTS
    MaxCalls,       \* bound on the runs of FreeSense-upgrade and, counted twice,
                    \* the administrator's freesense-be calls
    MaxCrashes,     \* bound on power losses
    ManualNames,    \* names the administrator gives
    Retention,      \* system/bootenv/retention_auto
    Deadline,       \* freesense:verifydeadline, in probes of 20 seconds
    None            \* a property that is unset or "-"

Commands == {"create", "clone", "rename", "destroy", "activate",
             "activate-once"}

ASSUME BoundsAssumption ==
    {MaxCalls, MaxCrashes, Retention, Deadline} \subseteq Nat

ASSUME NamesAssumption ==
    /\ ManualNames \subseteq Seq({0}) \ {<<>>}
    /\ None \notin Seq(Nat)

VARIABLES
    be,         \* the environments that exist and their freesense: properties
    running,    \* the environment mounted at / (N of bectl list)
    bootfs,     \* the permanent choice (R)
    nextboot,   \* the choice for one boot (T)
    up,         \* the run of FreeSense-upgrade
    hc,         \* the health service
    adm,        \* the freesense-be call in progress
    auto,       \* system/bootenv/automatic_rollback is not "false"
    used,       \* upgrades, crashes, commands and clones so far
    early       \* history: what an upgrade was started before: "health" (the
                \* verdict on the running environment) or "reboot" (a pending one)

poolVars == <<be, running, bootfs, nextboot>>
vars == <<be, running, bootfs, nextboot, up, hc, adm, auto, used, early>>

-----------------------------------------------------------------------------
(* bectl, as the scripts use it                                            *)

Names == DOMAIN be

\* whole: no package operation is half done in it; ran: it was booted once;
\* born: its place in the creation order.
Fresh(w, n) == [whole |-> w, ran |-> FALSE, born |-> n, origin |-> "-",
                health |-> "-", rollback |-> None, attempted |-> FALSE]

\* bectl create -r: a clone of src, without its user properties.
Cloned(n, src) ==
    [b \in Names \cup {n} |->
        IF b = n THEN Fresh(be[src].whole, used.births) ELSE be[b]]

\* The dataset keeps its properties; zpool's bootfs follows it, the one-time
\* choice is a path and does not.
Moved(n, new) == [b \in (Names \ {n}) \cup {new} |->
                    IF b = new THEN be[n] ELSE be[b]]
Follow(v, n, new) == IF v = n THEN new ELSE v

Rename(n, new) ==
    /\ be' = Moved(n, new)
    /\ running' = Follow(running, n, new)
    /\ bootfs' = Follow(bootfs, n, new)
    /\ UNCHANGED nextboot

Destroy(n) ==
    /\ be' = [b \in Names \ {n} |-> be[b]]
    /\ nextboot' = Follow(nextboot, n, None)
    /\ UNCHANGED <<running, bootfs>>

\* zfs set on a dataset that is gone fails and changes nothing.
SetProp(n, key, v) ==
    be' = IF n \in Names THEN [be EXCEPT ![n][key] = v] ELSE be

Marked == {running, bootfs, nextboot}
Pending(n) == be[n].health = "pending"
NewestFirst == SetToSortSeq(Names, LAMBDA a, b : be[a].born > be[b].born)

-----------------------------------------------------------------------------
(* Boot                                                                    *)

\* before and failed are history: the environments when the upgrade got to
\* work, and the number of clean-up commands that failed.
Idle == [pc |-> "idle", name |-> None, prev |-> None, list |-> <<>>,
         marked |-> {}, seen |-> 0, armed |-> FALSE,
         before |-> {}, failed |-> 0]
NoHealth == [pc |-> "start", active |-> None, rollback |-> None,
             ok |-> 0, elapsed |-> 0]
NoCall == [cmd |-> "-", name |-> None, new |-> None]

Init ==
    /\ be = (<<>> :> [Fresh(TRUE, 0) EXCEPT !.ran = TRUE])
    /\ running = <<>> /\ bootfs = <<>> /\ nextboot = None
    /\ up = Idle /\ hc = NoHealth /\ adm = NoCall
    /\ auto \in BOOLEAN /\ early = {}
    /\ used = [upgrades |-> 0, crashes |-> 0, commands |-> 0, births |-> 1]

\* What the loader starts: the one-time choice while it exists.
Chosen == IF nextboot \in Names THEN nextboot ELSE bootfs

Boot ==
    /\ Chosen \in Names
    /\ running' = Chosen
    /\ be' = [be EXCEPT ![Chosen].ran = TRUE]
    /\ nextboot' = None
    /\ up' = Idle /\ hc' = NoHealth /\ adm' = NoCall
    /\ UNCHANGED <<bootfs, auto, early>>

Crash ==
    /\ used.crashes < MaxCrashes
    /\ used' = [used EXCEPT !.crashes = @ + 1]
    /\ Boot

\* The reboot that the upgrade or the health service asked for.
Reboot == "reboot" \in {up.pc, hc.pc} /\ Boot /\ UNCHANGED used

\* The administrator reboots after a deferred upgrade or an activation.
RebootLater ==
    /\ up.pc = "idle" /\ hc.pc = "done" /\ adm.cmd = "-"
    /\ Chosen # running
    /\ Boot /\ UNCHANGED used

-----------------------------------------------------------------------------
(* be_pkg_upgrade                                                          *)

UpTo(pc) == up' = [up EXCEPT !.pc = pc]
OthersUnchanged == UNCHANGED <<hc, adm, auto, used, early>>

\* _exit: the clean-up is only done once BE_UPGRADE_FAILED is set.
Abort == up' = IF up.armed THEN [up EXCEPT !.pc = "x_destroy"] ELSE Idle

Keep == (IF Retention < 1 THEN 1 ELSE Retention) - 1

Calls == used.upgrades + 2 * used.commands

\* Bound: no upgrade follows one that was started early.
UpStart ==
    /\ up.pc = "idle" /\ Calls < MaxCalls /\ early = {}
    /\ early' = early \cup (IF hc.pc = "done" /\ ~Pending(running) THEN {} ELSE {"health"})
                     \cup (IF nextboot = None THEN {} ELSE {"reboot"})
    /\ used' = [used EXCEPT !.upgrades = @ + 1]
    /\ up' = [Idle EXCEPT !.pc = "prune", !.name = running,
                          !.prev = Append(running, used.upgrades + 1),
                          !.list = NewestFirst, !.marked = Marked]
    /\ UNCHANGED <<poolVars, hc, adm, auto>>

\* Mutant: an environment whose verdict is open is not spared.
Prunable_Pending(n) == /\ n \in Names
                       /\ be[n].origin = "automatic"
                       /\ n \notin up.marked

\* The status column is the one bectl list printed before the loop; origin
\* and health are read when the loop reaches the environment.
Prunable(n) == /\ n \in Names
               /\ be[n].origin = "automatic"
               /\ n \notin up.marked
               /\ ~Pending(n)

PruneSkip ==
    /\ up.pc = "prune" /\ up.list # <<>>
    /\ Prunable(Head(up.list)) => up.seen < Keep
    /\ up' = [up EXCEPT !.list = Tail(@),
                        !.seen = IF Prunable(Head(up.list)) THEN @ + 1 ELSE @]
    /\ UNCHANGED poolVars /\ OthersUnchanged

PruneDestroy ==
    /\ up.pc = "prune" /\ up.list # <<>>
    /\ Prunable(Head(up.list)) /\ up.seen >= Keep
    /\ \/ /\ Head(up.list) # running /\ Destroy(Head(up.list))
          /\ up' = [up EXCEPT !.list = Tail(@), !.seen = @ + 1]
       \/ /\ up' = [up EXCEPT !.list = Tail(@), !.seen = @ + 1, !.failed = @ + 1]
          /\ UNCHANGED poolVars
    /\ OthersUnchanged

PruneEnd ==
    /\ up.pc = "prune" /\ up.list = <<>>
    /\ up' = [up EXCEPT !.pc = "space", !.before = Names]
    /\ UNCHANGED poolVars /\ OthersUnchanged

\* be_space_check; a failure leaves through _exit 3.
SpaceCheck ==
    /\ up.pc = "space"
    /\ UpTo("rename") \/ Abort
    /\ UNCHANGED poolVars /\ OthersUnchanged

UpRename ==
    /\ up.pc = "rename"
    /\ \/ /\ up.name \in Names /\ up.prev \notin Names
          /\ Rename(up.name, up.prev)
          /\ UpTo("renamed")
       \/ Abort /\ UNCHANGED poolVars
    /\ OthersUnchanged

Arm ==
    /\ up.pc = "renamed"
    /\ up' = [up EXCEPT !.pc = "create", !.armed = TRUE]
    /\ UNCHANGED poolVars /\ OthersUnchanged

UpCreate ==
    /\ up.pc = "create"
    /\ \/ /\ up.name \notin Names
          /\ be' = Cloned(up.name, running)
          /\ used' = [used EXCEPT !.births = @ + 1]
          /\ UpTo("mount")
       \/ Abort /\ UNCHANGED <<be, used>>
    /\ UNCHANGED <<running, bootfs, nextboot, hc, adm, auto, early>>

\* Mutant: the clone is chosen for the next boot as soon as it is mounted.
UpMount_Activates ==
    /\ up.pc = "mount"
    /\ UpTo("pkg")
    /\ nextboot' = up.name
    /\ UNCHANGED <<be, running, bootfs>> /\ OthersUnchanged

UpMount ==
    /\ up.pc = "mount"
    /\ UpTo("pkg") \/ Abort
    /\ UNCHANGED poolVars /\ OthersUnchanged

\* From here until the package manager is done the clone is not whole.
PkgBegin ==
    /\ up.pc = "pkg"
    /\ SetProp(up.name, "whole", FALSE)
    /\ UpTo("pkgrun")
    /\ UNCHANGED <<running, bootfs, nextboot>> /\ OthersUnchanged

PkgEnd ==
    /\ up.pc = "pkgrun"
    /\ \/ SetProp(up.name, "whole", TRUE) /\ UpTo("origin")
       \/ Abort /\ UNCHANGED be
    /\ UNCHANGED <<running, bootfs, nextboot>> /\ OthersUnchanged

Tag(pc, key, v, next) ==
    /\ up.pc = pc
    /\ SetProp(up.name, key, v)
    /\ UpTo(next)
    /\ UNCHANGED <<running, bootfs, nextboot>> /\ OthersUnchanged

TagAll(target) ==
    \/ Tag("origin", "origin", "automatic", "health")
    \/ Tag("health", "health", "pending", "rollback")
    \/ Tag("rollback", "rollback", target, "attempted")
    \/ Tag("attempted", "attempted", FALSE, "finish")

UpTag == TagAll(up.prev)

\* install-boot, then the unmount that must succeed.
UpFinish ==
    /\ up.pc = "finish"
    /\ UpTo("activate") \/ Abort
    /\ UNCHANGED poolVars /\ OthersUnchanged

\* The result of bectl activate -t is not looked at.
UpActivate ==
    /\ up.pc = "activate"
    /\ UpTo("activated")
    /\ nextboot' \in {nextboot} \cup ({up.name} \cap Names)
    /\ UNCHANGED <<be, running, bootfs>> /\ OthersUnchanged

\* Success: the reboot is deferred or asked for.
UpDone ==
    /\ up.pc = "activated"
    /\ up' \in {Idle, [Idle EXCEPT !.pc = "reboot"]}
    /\ UNCHANGED poolVars /\ OthersUnchanged

\* The clean-up of _exit. Either command may fail, and neither is checked.
ExitDestroy ==
    /\ up.pc = "x_destroy"
    /\ \/ up.name \in Names \ {running} /\ Destroy(up.name) /\ UpTo("x_rename")
       \/ /\ up' = [up EXCEPT !.pc = "x_rename",
                              !.failed = IF up.name \in Names THEN @ + 1 ELSE @]
          /\ UNCHANGED poolVars
    /\ OthersUnchanged

ExitRename ==
    /\ up.pc = "x_rename"
    /\ \/ /\ up.prev \in Names /\ up.name \notin Names
          /\ Rename(up.prev, up.name)
          /\ UpTo("x_end")
       \/ /\ up' = [up EXCEPT !.pc = "x_end", !.failed = @ + 1]
          /\ UNCHANGED poolVars
    /\ OthersUnchanged

ExitEnd ==
    /\ up.pc = "x_end"
    /\ up' = Idle
    /\ UNCHANGED poolVars /\ OthersUnchanged

\* SIGHUP, SIGINT or SIGTERM: sh runs the trap between two commands, and
\* _exit resets it first.
Signal ==
    /\ up.pc \notin {"idle", "reboot"}
    /\ up' = IF up.pc \in {"x_destroy", "x_rename", "x_end"} \/ ~up.armed
             THEN Idle ELSE [up EXCEPT !.pc = "x_destroy"]
    /\ UNCHANGED poolVars /\ OthersUnchanged

UpStep ==
    \/ PruneSkip \/ PruneDestroy \/ PruneEnd \/ SpaceCheck \/ UpRename \/ Arm
    \/ UpCreate \/ UpMount \/ PkgBegin \/ PkgEnd \/ UpTag \/ UpFinish
    \/ UpActivate \/ UpDone \/ ExitDestroy \/ ExitRename \/ ExitEnd

-----------------------------------------------------------------------------
(* freesense_be_health_start                                               *)

HTo(pc) == hc' = [hc EXCEPT !.pc = pc]
HOthersUnchanged == UNCHANGED <<running, nextboot, up, adm, auto, used, early>>

\* active, the dataset and the rollback name are read once.
HStart ==
    /\ hc.pc = "start"
    /\ hc' = IF Pending(running)
             THEN [hc EXCEPT !.pc = IF auto THEN "probe" ELSE "activate",
                             !.active = running,
                             !.rollback = be[running].rollback]
             ELSE [hc EXCEPT !.pc = "done"]
    /\ UNCHANGED <<be, bootfs>> /\ HOthersUnchanged

\* One round of the loop: enough good probes in a row, or the deadline.
Round(enough, tick) ==
    /\ hc.pc = "probe" /\ hc.elapsed < Deadline
    /\ \E ok \in {0, hc.ok + 1} :
         hc' = IF ok >= enough
               THEN [hc EXCEPT !.pc = "activate", !.ok = ok]
               ELSE [hc EXCEPT !.ok = ok, !.elapsed = @ + tick]
    /\ UNCHANGED <<be, bootfs>> /\ HOthersUnchanged

\* Mutant: the time that passes is not counted.
HProbe_NoElapsed == Round(3, 0)

HProbe == Round(3, 1)

HDeadline ==
    /\ hc.pc = "probe" /\ hc.elapsed >= Deadline
    /\ HTo("failed")
    /\ UNCHANGED <<be, bootfs>> /\ HOthersUnchanged

HActivate ==
    /\ hc.pc = "activate"
    /\ \/ hc.active \in Names /\ bootfs' = hc.active /\ HTo("healthy")
       \/ UNCHANGED bootfs /\ HTo("done")
    /\ UNCHANGED be /\ HOthersUnchanged

HHealthy ==
    /\ hc.pc = "healthy"
    /\ SetProp(hc.active, "health", "healthy")
    /\ HTo(IF auto THEN "forget" ELSE "done")
    /\ UNCHANGED bootfs /\ HOthersUnchanged

HForget ==
    /\ hc.pc = "forget"
    /\ SetProp(hc.active, "rollback", None)
    /\ HTo("done")
    /\ UNCHANGED bootfs /\ HOthersUnchanged

Attempted(n) == n \in Names /\ be[n].attempted

HFailed ==
    /\ hc.pc = "failed"
    /\ IF hc.rollback = None \/ Attempted(hc.active)
       THEN HTo("done") /\ UNCHANGED be
       ELSE HTo("mark") /\ SetProp(hc.active, "health", "failed")
    /\ UNCHANGED bootfs /\ HOthersUnchanged

HMark ==
    /\ hc.pc = "mark"
    /\ SetProp(hc.active, "attempted", TRUE)
    /\ HTo("back")
    /\ UNCHANGED bootfs /\ HOthersUnchanged

HBack ==
    /\ hc.pc = "back"
    /\ \/ hc.rollback \in Names /\ bootfs' = hc.rollback /\ HTo("reboot")
       \/ UNCHANGED bootfs /\ HTo("done")
    /\ UNCHANGED be /\ HOthersUnchanged

HStep == \/ HStart \/ HProbe \/ HDeadline \/ HActivate \/ HHealthy
         \/ HForget \/ HFailed \/ HMark \/ HBack

-----------------------------------------------------------------------------
(* freesense-be                                                            *)

\* The list is read and the command checked against it ...
Allowed(cmd, n, new) ==
    CASE cmd = "create" -> n \in ManualNames \ Names /\ new = running
      [] cmd = "clone" -> n \in ManualNames \ Names /\ new \in Names
      [] cmd = "rename" -> /\ n \in Names \ {running} /\ ~Pending(n)
                           /\ new \in ManualNames \ Names
      [] cmd = "destroy" -> /\ n \in Names \ Marked /\ ~Pending(n)
                            /\ new = None
      [] OTHER -> n \in Names /\ new = None

AdmCheck ==
    /\ adm.cmd = "-" /\ Calls + 1 < MaxCalls
    /\ used' = [used EXCEPT !.commands = @ + 1]
    /\ \E cmd \in Commands, n, new \in Names \cup ManualNames \cup {None} :
         /\ Allowed(cmd, n, new)
         /\ adm' = [cmd |-> cmd, name |-> n, new |-> new]
    /\ UNCHANGED <<poolVars, up, hc, auto, early>>

\* ... and bectl is run some time later, and may fail.
AdmAct ==
    /\ adm.cmd # "-"
    /\ adm' = NoCall
    /\ \/ /\ adm.cmd \in {"create", "clone"}
          /\ adm.name \notin Names
          /\ LET src == IF adm.cmd = "create" THEN running ELSE adm.new
             IN  /\ src \in Names
                 /\ be' = [Cloned(adm.name, src) EXCEPT
                             ![adm.name].origin = "manual",
                             ![adm.name].health = "manual"]
          /\ used' = [used EXCEPT !.births = @ + 1]
          /\ UNCHANGED <<running, bootfs, nextboot>>
       \/ /\ adm.cmd = "rename" /\ adm.name \in Names /\ adm.new \notin Names
          /\ Rename(adm.name, adm.new) /\ UNCHANGED used
       \/ /\ adm.cmd = "destroy" /\ adm.name \in Names \ {running}
          /\ Destroy(adm.name) /\ UNCHANGED used
       \/ /\ adm.cmd = "activate" /\ adm.name \in Names
          /\ bootfs' = adm.name /\ UNCHANGED <<be, running, nextboot, used>>
       \/ /\ adm.cmd = "activate-once" /\ adm.name \in Names
          /\ nextboot' = adm.name /\ UNCHANGED <<be, running, bootfs, used>>
       \/ UNCHANGED <<poolVars, used>>
    /\ UNCHANGED <<up, hc, auto, early>>

-----------------------------------------------------------------------------
Next == \/ UpStart \/ UpStep \/ Signal \/ HStep \/ AdmCheck \/ AdmAct
        \/ Crash \/ Reboot \/ RebootLater

Spec == Init /\ [][Next]_vars

\* The scripts run to their end and a requested reboot happens.
Fairness == WF_vars(UpStep) /\ WF_vars(HStep) /\ WF_vars(Reboot)

-----------------------------------------------------------------------------
Properties ==
    [whole : BOOLEAN, ran : BOOLEAN, born : Nat,
     origin : {"-", "automatic", "manual"},
     health : {"-", "pending", "healthy", "failed", "manual"},
     rollback : Seq(Nat) \cup {None}, attempted : BOOLEAN]

\* The state has its types, and the system always runs from an environment
\* that exists: neither prune, _exit nor freesense-be removes it.
TypeOK ==
    /\ \A n \in Names : n \in Seq(Nat) /\ be[n] \in Properties
    /\ running \in Names
    /\ {bootfs, nextboot} \subseteq Seq(Nat) \cup {None}
    /\ up.seen \in Nat /\ up.armed \in BOOLEAN
    /\ hc.ok \in 0..3 /\ hc.elapsed \in 0..Deadline

\* The administrator has left the environments to the scripts, and has let each
\* upgrade be followed by its reboot and health check before the next. The code
\* enforces neither.
Orderly == used.commands = 0 /\ early = {}

\* Whenever power is lost or a reboot is asked for, the loader finds an
\* environment in which no package operation is half done
\* (be_pkg_upgrade:1033-1137, _exit:181-186, freesense_be_health:46-59).
BootWhole == Orderly => Chosen \in Names /\ be[Chosen].whole

\* The permanent choice is an environment the machine has already been booted
\* from: be_pkg_upgrade activates "for the next boot only" (1131-1133) and
\* only the health service makes it permanent (freesense_be_health:47).
PermanentWasRun == Orderly => bootfs \in Names /\ be[bootfs].ran

\* While an upgraded environment is on trial or is being left, the environment its rollback
\* property names exists, is whole and has been run
\* (be_pkg_upgrade:1103, freesense_be_health:58; be_has_valid_rollback_be).
RollbackValid ==
    Orderly => \A n \in {running, nextboot} \cap Names :
        Pending(n) \/ (n = hc.active /\ hc.pc \in {"mark", "back"}) =>
            \/ be[n].rollback = None
            \/ /\ be[n].rollback \in Names
               /\ be[be[n].rollback].whole /\ be[be[n].rollback].ran

\* After be_prune_automatic(retention - 1) at most that many unprotected
\* automatic environments are left, not counting those that could not be
\* destroyed (484-496, 967-973).
Retained ==
    Orderly /\ up.pc = "space" =>
        Cardinality({n \in Names \ Marked :
                        be[n].origin = "automatic" /\ ~Pending(n)})
            <= (IF Retention = 0 THEN 1 ELSE Retention) - 1 + up.failed

\* be_prune_automatic removes no manual, active, next-boot or pending
\* environment (482-483).
PruneSpares ==
    [][\A n \in Names \ DOMAIN be' :
          up.pc = "prune" /\ Orderly =>
              n \notin Marked /\ be[n].origin # "manual" /\ ~Pending(n)]_vars

\* An upgrade that gives up after BE_UPGRADE_FAILED is set, and whose clean-up
\* commands succeed, leaves the environments it found, under their names, and
\* no choice for the next boot (_exit:181-186).
AbortRestores ==
    Orderly /\ up.pc = "x_end" /\ up.failed = 0 =>
        Names = up.before /\ running = up.name /\ nextboot = None

\* Packages are changed in the clone, never in the environment that runs,
\* whatever the administrator renames, activates or removes meanwhile
\* (be_pkg_upgrade:1014-1068).
UpgradeOffline == up.pc \in {"pkg", "pkgrun"} => up.name # running

\* The machine does not go on rebooting or probing for ever: the upgrade, the
\* health service and the rollback come to an end.
Settles == []Orderly => <>[](up.pc = "idle" /\ hc.pc = "done")

\* The loader always finds a whole environment, by default one that was run, and
\* an environment on trial can be left for another such one.
BootSafe == BootWhole /\ PermanentWasRun /\ RollbackValid

\* An upgrade works on its clone only, leaves no more environments than the
\* retention allows, and when it gives up leaves those that it found.
UpgradeTidy == TypeOK /\ Retained /\ AbortRestores /\ UpgradeOffline
=============================================================================
