------------------------------ MODULE MCUpgrade ------------------------------
(***************************************************************************)
(* The wrapper's locking and the stages of the upgrade for TLC. They share *)
(* no state (what the script does under the lock is one step of            *)
(* UpgradeLock), so in a behaviour one of them runs and the other stays as *)
(* it was: part says which.                                                *)
(***************************************************************************)
EXTENDS UpgradeLock

CONSTANTS MaxFails, MaxCrashes

VARIABLES part, major, hasUboot, done, booted, next_stage, new_major, locks, due,
          boot, p, fails, crashes, hasty

stages == <<major, hasUboot, done, booted, next_stage, new_major, locks, due,
            boot, p, fails, crashes, hasty>>
all == <<vars, stages, part>>

S == INSTANCE UpgradeStages

ASSUME StagesAssumption == S!ConstantsRight

InitAll ==
    /\ Init /\ S!Init
    /\ \/ part = "stages"
       \/ part = "lock" /\ ~major /\ ~hasUboot /\ done = {"ttys"}

NextAll ==
    \/ part = "lock" /\ Next /\ UNCHANGED <<stages, part>>
    \/ part = "stages" /\ S!Next /\ UNCHANGED <<vars, part>>

FairAll ==
    /\ InitAll /\ [][NextAll]_all
    /\ Fairness
    /\ part = "stages" => S!Fairness

-----------------------------------------------------------------------------
\* The userland, and the u-boot of a new major version, come after the reboot
\* into the new kernel; a complete upgrade leaves no package locked, has written
\* the new loader and has put the console menu back into /etc/ttys (UpgradeStages).
StagesRight == S!StagesRight

\* Every call of the wrapper ends (UpgradeLock), and whatever fails, the upgrade
\* is completed in the end (UpgradeStages).
UpgradesEnd == EveryCallEnds /\ (part = "stages" => S!EventuallyComplete)
===============================================================================
