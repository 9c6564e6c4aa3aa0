----------------------------- MODULE InstallBoot -----------------------------
(***************************************************************************)
(* install-boot, which FreeSense-upgrade calls to renew the boot code of   *)
(* every disk the system can start from, one after the other, and          *)
(* install-boot.sh, which does the work on a disk: boot blocks for a BIOS, *)
(* and files and a boot entry for UEFI. Each command is a step; power may  *)
(* be lost before any of them and in the middle of a write, and when some  *)
(* disk still starts the system, install-boot is run again.                *)
(***************************************************************************)
EXTENDS Integers, Sequences, SequencesExt, FiniteSets

CONSTANTS
    Disks,          \* the boot devices, as BOOTDEVSR lists them: a sequence
    Systems,        \* what is found: [method, auto, fs, layout, esp, entry, pool]
    loadersize,     \* size of the new loader.efi; an ESP's free space has the same unit
    MaxLosses,      \* bound: power losses
    MaxFaults,      \* bound: commands that fail
    MaxRuns         \* bound: runs of install-boot

VARIABLES
    sys,            \* the system as it was found; its method, fs and layout do not change
    code,           \* boot blocks of each disk: [block -> "old", "new" or "torn"]
    esp,            \* EFI system partition of each disk: [fat, file, free]
    entry,          \* its UEFI boot entry: "none", "inactive" or "active"
    bootpool,       \* the pool bootpool is imported
    pc, k,          \* the step, and the place in Disks of the disk it is for
    writing,        \* boot blocks still to be written to the disk, and what will be in them
    kbfree,         \* free space of the ESP when it was mounted
    reimport,       \* bootpool was imported before
    short,          \* history: space ran out on an ESP that had this much, or -1
    losses, faults, runs

parts == <<sys, code, esp, entry, bootpool>>
vars == <<parts, pc, k, writing, kbfree, reimport, short, losses, faults, runs>>

disk == Disks[k]
layout == sys.layout[disk]
All == Range(Disks)

\* Files of an ESP. A file is [ver, size]; NoFile if there is none.
Files == {"boot", "boot-old", "loader", "loader-old"}
NoFile == [ver |-> "none", size |-> 0]
Whole(f) == f.ver \notin {"none", "torn"}

Put(e, name, f) == [e EXCEPT !.file[name] = f, !.free = @ + e.file[name].size - f.size]
Renamed(e, from, to) == Put(Put(e, from, NoFile), to, e.file[from])

\* The boot blocks of a disk as the commands write them, one set a command.
Blocks(l) ==
    CASE l.scheme = "gpt" -> IF l.slice THEN <<{"pmbr", "gptboot"}>> ELSE <<>>
      [] l.scheme = "mbr" /\ sys.fs = "ufs" -> IF l.slice THEN <<{"mbr"}, {"boot"}>> ELSE <<{"mbr"}>>
      [] l.scheme = "mbr" /\ sys.fs = "zfs" -> IF l.slice THEN <<{"mbr"}, {"boot1"}, {"boot2"}>> ELSE <<>>

Writes(l) == [i \in DOMAIN Blocks(l) |-> [blocks |-> Blocks(l)[i], ver |-> "new"]]

\* What the firmware can start from: a boot entry's loader or the file for
\* removable media; a chain of boot blocks.
Starts(d) ==
    IF sys.method = "uefi"
    THEN /\ sys.layout[d].esp /\ esp[d].fat
         /\ \/ Whole(esp[d].file["boot"])
            \/ entry[d] = "active" /\ Whole(esp[d].file["loader"])
    ELSE sys.layout[d].slice /\ \A b \in DOMAIN code[d] : code[d][b] # "torn"

Init ==
    /\ sys \in Systems
    /\ code = [d \in All |-> [b \in UNION Range(Blocks(sys.layout[d])) |-> "old"]]
    /\ esp = sys.esp /\ entry = sys.entry /\ bootpool = sys.pool
    /\ \A d \in All : Starts(d)
    /\ pc = "idle" /\ k = 0 /\ writing = <<>> /\ kbfree = 0 /\ reimport = FALSE
    /\ short = -1 /\ losses = 0 /\ faults = 0 /\ runs = 0

Goto(to) == pc' = to /\ UNCHANGED <<k, runs>>

\* A command whose failure is not noticed: it does what it should, or nothing.
Try(done, nothing) ==
    \/ done /\ UNCHANGED faults
    \/ faults < MaxFaults /\ faults' = faults + 1 /\ nothing

-----------------------------------------------------------------------------
(* install-boot *)

Start ==
    /\ pc \in {"idle", "done", "died"} /\ runs < MaxRuns
    /\ runs' = runs + 1 /\ k' = 0 /\ pc' = "next"
    /\ UNCHANGED <<parts, writing, kbfree, reimport, short, losses, faults>>

\* The next disk: boot blocks first if the method is both, then the ESP.
Next_dev ==
    /\ pc = "next"
    /\ IF k = Len(Disks)
       THEN Goto("done") /\ UNCHANGED writing
       ELSE /\ k' = k + 1
            /\ UNCHANGED runs
            /\ IF sys.auto
               THEN /\ writing' = Writes(sys.layout[Disks[k + 1]])
                    /\ pc' = "legacy"
               ELSE writing' = <<>> /\ pc' = "esp"
    /\ UNCHANGED <<parts, kbfree, reimport, short, losses, faults>>

Die == Goto("died")

-----------------------------------------------------------------------------
(* install-boot.sh, boot_nogeli_*_legacy *)

IsZfsMbr == layout.scheme = "mbr" /\ sys.fs = "zfs" /\ layout.slice

\* MBR and ZFS: the blocks are copied from bootpool, imported for that if it
\* has to be, and it is exported. Without a copy, what is written is no code.
Export ==
    /\ pc = "legacy" /\ IsZfsMbr
    /\ reimport' = bootpool
    /\ Try(bootpool' = FALSE /\ UNCHANGED writing,
           \/ bootpool' = TRUE /\ UNCHANGED writing
           \/ bootpool' = FALSE /\ writing' = [i \in DOMAIN writing |-> [writing[i] EXCEPT !.ver = "torn"]])
    /\ Goto("write")
    /\ UNCHANGED <<sys, code, esp, entry, kbfree, short, losses>>

\* The other layouts have the files at hand.
Legacy ==
    /\ pc = "legacy" /\ ~IsZfsMbr
    /\ Goto("write")
    /\ UNCHANGED <<parts, writing, kbfree, reimport, short, losses, faults>>

Mark(ver) ==
    [code EXCEPT ![disk] = [b \in DOMAIN @ |-> IF b \in Head(writing).blocks THEN ver ELSE @[b]]]

\* gpart bootcode or dd: begins to write, or fails and the next command follows.
WriteBlocks ==
    /\ pc = "write" /\ writing # <<>>
    /\ Try(code' = Mark("torn") /\ Goto("written") /\ UNCHANGED writing,
           Goto("write") /\ writing' = Tail(writing) /\ UNCHANGED code)
    /\ UNCHANGED <<sys, esp, entry, bootpool, kbfree, reimport, short, losses>>

Written ==
    /\ pc = "written"
    /\ code' = Mark(Head(writing).ver) /\ writing' = Tail(writing)
    /\ Goto("write")
    /\ UNCHANGED <<sys, esp, entry, bootpool, kbfree, reimport, short, losses, faults>>

\* No more blocks: bootpool is imported again if it was.
Reimport ==
    /\ pc = "write" /\ writing = <<>>
    /\ IF IsZfsMbr /\ reimport
       THEN Try(bootpool' = TRUE, UNCHANGED bootpool)
       ELSE UNCHANGED <<bootpool, faults>>
    /\ Goto("esp")
    /\ UNCHANGED <<sys, code, esp, entry, writing, kbfree, reimport, short, losses>>

-----------------------------------------------------------------------------
(* install-boot.sh, make_esp_device *)

Fat == esp[disk]
SetFat(e) == esp' = [esp EXCEPT ![disk] = e]
NoSpace == short' = IF short = -1 THEN kbfree ELSE short

\* No ESP: with -b auto the disk is done, otherwise the script gives up. An
\* ESP that is no FAT file system yet is made one.
FindEsp ==
    /\ pc = "esp"
    /\ IF ~layout.esp
       THEN (IF sys.auto THEN Goto("next") ELSE Die) /\ UNCHANGED <<esp, faults>>
       ELSE /\ Goto("mount")
            /\ IF Fat.fat
               THEN UNCHANGED <<esp, faults>>
               ELSE Try(SetFat([Fat EXCEPT !.fat = TRUE]), UNCHANGED esp)
    /\ UNCHANGED <<sys, code, entry, bootpool, writing, kbfree, reimport, short, losses>>

Mount ==
    /\ pc = "mount"
    /\ IF Fat.fat
       THEN Try(kbfree' = Fat.free /\ Goto("boot"), UNCHANGED kbfree /\ Die)
       ELSE Die /\ UNCHANGED <<kbfree, faults>>
    /\ UNCHANGED <<parts, writing, reimport, short, losses>>

\* The file for removable media makes room or makes way.
SetAside(e) ==
    LET f == e.file["boot"] IN
    IF f = NoFile THEN e
    ELSE IF f.ver = "boot1" /\ kbfree < loadersize THEN Put(e, "boot", NoFile)
    ELSE Renamed(e, "boot", "boot-old")

RemoveOrRename ==
    /\ pc = "boot"
    /\ Try(SetFat(SetAside(Fat)), UNCHANGED esp)
    /\ Goto("space")
    /\ UNCHANGED <<sys, code, entry, bootpool, writing, kbfree, reimport, short, losses>>

\* Too little space and no loader.efi whose space could be used: give up.
\* Otherwise loader.efi is kept as loader-old.efi if there is ample space.
CheckSpace ==
    /\ pc = "space"
    /\ IF Fat.file["loader"] = NoFile /\ kbfree < loadersize
       THEN Die /\ NoSpace /\ UNCHANGED <<esp, faults>>
       ELSE /\ Goto("loader") /\ UNCHANGED short
            /\ IF Fat.file["loader"] # NoFile /\ kbfree > loadersize * 2
               THEN Try(SetFat(Put(Fat, "loader-old", Fat.file["loader"])), UNCHANGED esp)
               ELSE UNCHANGED <<esp, faults>>
    /\ UNCHANGED <<sys, code, entry, bootpool, writing, kbfree, reimport, losses>>

\* cp of the new loader over a file: it is emptied, then filled; if the space
\* runs out or the device fails, a part of it is there. Nobody looks.
Torn(n) == [ver |-> "torn", size |-> n]

Empty(name, then) ==
    /\ SetFat(Put(Fat, name, Torn(0)))
    /\ Goto(then)
    /\ UNCHANGED <<sys, code, entry, bootpool, writing, kbfree, reimport, short, losses, faults>>

Fill(name, then) ==
    /\ IF Fat.free >= loadersize
       THEN /\ Try(SetFat(Put(Fat, name, [ver |-> "new", size |-> loadersize])), UNCHANGED esp)
            /\ UNCHANGED short
       ELSE SetFat(Put(Fat, name, Torn(Fat.free))) /\ NoSpace /\ UNCHANGED faults
    /\ Goto(then)
    /\ UNCHANGED <<sys, code, entry, bootpool, writing, kbfree, reimport, losses>>

\* efi/freebsd/loader.efi
CopyLoader == pc = "loader" /\ Empty("loader", "loader2")
CopiedLoader == pc = "loader2" /\ Fill("loader", "entry")

\* With -u and access to EFI variables a boot entry is created if none has the
\* label, and made active by a second command.
BootEntry ==
    /\ pc = "entry"
    /\ IF sys.method = "uefi" /\ sys.auto /\ entry[disk] = "none"
       THEN Try(entry' = [entry EXCEPT ![disk] = "inactive"] /\ Goto("activate"),
                UNCHANGED entry /\ Goto("boot2"))
       ELSE UNCHANGED <<entry, faults>> /\ Goto("boot2")
    /\ UNCHANGED <<sys, code, esp, bootpool, writing, kbfree, reimport, short, losses>>

Activate ==
    /\ pc = "activate"
    /\ Try(entry' = [entry EXCEPT ![disk] = "active"], UNCHANGED entry)
    /\ Goto("boot2")
    /\ UNCHANGED <<sys, code, esp, bootpool, writing, kbfree, reimport, short, losses>>

\* efi/boot/bootx64.efi; then the ESP is unmounted.
CopyBoot == pc = "boot2" /\ Empty("boot", "boot3")
CopiedBoot == pc = "boot3" /\ Fill("boot", "next")

-----------------------------------------------------------------------------
(* Power is lost during a run, and the system starts again if a disk can *)

AtRest == pc \in {"idle", "done", "died"}

PowerLoss ==
    /\ ~AtRest /\ losses < MaxLosses
    /\ losses' = losses + 1
    /\ \E d \in All : Starts(d)
    /\ pc' = "idle" /\ k' = 0 /\ writing' = <<>>
    /\ UNCHANGED <<parts, kbfree, reimport, short, faults, runs>>

Next ==
    \/ Start \/ Next_dev \/ Export \/ Legacy \/ WriteBlocks \/ Written \/ Reimport
    \/ FindEsp \/ Mount \/ RemoveOrRename \/ CheckSpace \/ CopyLoader \/ CopiedLoader
    \/ BootEntry \/ Activate \/ CopyBoot \/ CopiedBoot \/ PowerLoss

Spec == Init /\ [][Next]_vars

-----------------------------------------------------------------------------
\* The disks are done one at a time, so at every moment of a run power may be
\* lost and some disk of two or more still starts the system; it also does
\* when a run after that loss has ended. Fewer failing commands than disks
\* leave one that starts when install-boot has ended. (A second loss in that
\* second run is another matter: it begins with the first disk again,
\* whichever disk the first loss has damaged.)
SomeDiskStarts ==
    (/\ Len(Disks) > 1 /\ short = -1
     /\ \/ faults = 0 /\ losses = 0
        \/ faults = 0 /\ losses = 1 /\ AtRest
        \/ faults < Len(Disks) /\ losses = 0 /\ AtRest)
    => \E d \in All : Starts(d)

\* When install-boot says Done and no command has failed, every disk has the
\* new boot code wherever it has a place for it, and bootpool is as it was.
DoneIsUpdated ==
    (pc = "done" /\ faults = 0 /\ short = -1) =>
        /\ \A d \in All :
            /\ sys.layout[d].esp => \A f \in {"boot", "loader"} : esp[d].file[f].ver = "new"
            /\ sys.auto => \A b \in DOMAIN code[d] : code[d][b] = "new"
        /\ losses = 0 => bootpool = sys.pool

\* An ESP with room for two loaders never runs out of space, whatever is kept.
TwoLoadersFit == short < 2 * loadersize

\* The three promises of the boot code update together.
BootCodeSafe == SomeDiskStarts /\ DoneIsUpdated /\ TwoLoadersFit
=============================================================================
