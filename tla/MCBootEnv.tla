---------------------------- MODULE MCBootEnv ----------------------------
(***************************************************************************)
(* Boot environments and the update of the boot code for TLC. The upgrade  *)
(* calls install-boot as one command of BootEnv and they share no state,   *)
(* so in a behaviour one of them runs and the other stays as it was: part  *)
(* says which.                                                             *)
(***************************************************************************)
EXTENDS BootEnv

CONSTANTS loadersize, MaxLosses, MaxFaults, MaxRuns

VARIABLES part, sys, code, esp, entry, bootpool, pc, k, writing, kbfree, reimport,
          short, losses, faults, runs

bootcode == <<sys, code, esp, entry, bootpool, pc, k, writing, kbfree, reimport,
              short, losses, faults, runs>>
all == <<vars, bootcode, part>>

MCManual == {<<0>>}

-----------------------------------------------------------------------------
\* Two disks alike. The new loader has size 2, an old one size 1.
MCDisks == <<"ada1", "ada0">>
MCBoth(x) == [d \in {"ada0", "ada1"} |-> x]
MCNone == [ver |-> "none", size |-> 0]
MCEsp(b, l, n) ==
    [fat |-> TRUE, free |-> n,
     file |-> [f \in {"boot", "boot-old", "loader", "loader-old"} |->
                 CASE f = "boot" -> b [] f = "loader" -> l [] OTHER -> MCNone]]

\* Systems started by UEFI, from either file, with free space for no, one, two
\* and more loaders, with -b auto and as on a 1100 or 2100; systems started by a
\* BIOS, with and without a place for an ESP that is not formatted yet.
MCUefi ==
    [method : {"uefi"}, auto : BOOLEAN, fs : {"zfs"}, pool : {FALSE},
     layout : {MCBoth([scheme |-> "gpt", slice |-> b, esp |-> TRUE]) : b \in BOOLEAN},
     esp : {MCBoth(MCEsp(b, l, n)) :
              b \in {MCNone, [ver |-> "old", size |-> 1], [ver |-> "boot1", size |-> 1]},
              l \in {MCNone, [ver |-> "old", size |-> 1]}, n \in {1, 3, 4, 5}},
     entry : {MCBoth("none"), MCBoth("active")}]
MCBios ==
    [method : {"bios"}, auto : {TRUE}, fs : {"ufs", "zfs"}, pool : BOOLEAN,
     layout : {MCBoth([scheme |-> c, slice |-> TRUE, esp |-> b]) :
                 b \in BOOLEAN, c \in {"gpt", "mbr"}},
     esp : {MCBoth([MCEsp(MCNone, MCNone, 6) EXCEPT !.fat = FALSE])},
     entry : {MCBoth("none")}]

I == INSTANCE InstallBoot WITH Disks <- MCDisks, Systems <- MCUefi \cup MCBios

InitAll ==
    /\ Init /\ I!Init
    /\ \/ part = "bootcode" /\ auto
       \/ /\ part = "environments"
          /\ sys = [method |-> "bios", auto |-> TRUE, fs |-> "ufs", pool |-> FALSE,
                    layout |-> MCBoth([scheme |-> "gpt", slice |-> TRUE, esp |-> FALSE]),
                    esp |-> esp, entry |-> entry]

NextAll ==
    \/ part = "environments" /\ Next /\ UNCHANGED <<bootcode, part>>
    \/ part = "bootcode" /\ I!Next /\ UNCHANGED <<vars, part>>

FairAll ==
    /\ InitAll /\ [][NextAll]_all
    /\ part = "environments" => Fairness

-----------------------------------------------------------------------------
\* The machine boots a whole environment with somewhere to go back to (BootEnv);
\* the disks stay able to start the system, and get the new boot code
\* (InstallBoot).
StartsSafely == BootSafe /\ I!BootCodeSafe

\* An upgrade that gives up leaves nothing behind, one that is done has kept what
\* it should, and prune spares what it must (BootEnv).
EnvironmentsKept == []UpgradeTidy /\ PruneSpares

\* Upgrades and the health service come to rest (BootEnv).
UpgradesSettle == part = "environments" => Settles
=============================================================================
