------------------------------- MODULE Repoc -------------------------------
(***************************************************************************)
(* FreeSense-repoc: concurrent runs fetch the signed channel document,     *)
(* validate it against the retained one, retain it, and swap the directory *)
(* of repository files. Runs with -l use the document of the image and take*)
(* no lock. Runs can be signalled, and power can be lost, between any two  *)
(* commands.                                                               *)
(*                                                                         *)
(* Of a channel the model keeps what the checks compare: the generation    *)
(* and fingerprint of its repositories, whether they are complete and      *)
(* verified, and its version. A document that fails a check which depends  *)
(* on itself alone is Malformed.                                           *)
(***************************************************************************)
EXTENDS Naturals, FiniteSets

CONSTANTS
    Syncs, Locals,  \* runs without and with -l
    Channels,       \* names a marker or the configuration may hold
    Published,      \* the channels of every document
    Gens, Prints, Versions,
    Installed,      \* /etc/version
    Baked,          \* the document of the image
    Offered,        \* the documents the server may have published
    MaxFaults,      \* bound on power losses, kills and failed recoveries
    None, Malformed

Runs == Syncs \cup Locals
Component == [gen : Gens, print : Prints, ready : BOOLEAN, version : Versions]
Dirs == [names : SUBSET Published, marker : Published \cup {None}]
Docs == [default : Published, ch : [Published -> Component]]

ASSUME RunAssumption == Syncs \cap Locals = {}
ASSUME ChannelAssumption ==
    /\ Published \subseteq Channels
    /\ Gens \cup Versions \cup {Installed, MaxFaults} \subseteq Nat
    /\ Baked \in Docs /\ Offered \subseteq Docs
    /\ None \notin Docs \cup Dirs \cup Channels \cup Runs \cup {Malformed}
    /\ Malformed \notin Docs

VARIABLES
    cache,      \* MANIFEST_CACHE
    dir,        \* REPOS_DIR: the channels with files, and the .default marker
    lock,       \* the run that holds LOCK_FILE
    run,        \* the runs
    faults

vars == <<cache, dir, lock, run, faults>>

-----------------------------------------------------------------------------
(* validate_payload                                                        *)

Eligible(d, c) == d.ch[c].version >= Installed

\* The document's rows.
Usable(d) == {c \in Published : d.ch[c].ready /\ Eligible(d, c)}

\* The selection, or the default channel when there is none or it is too old.
Selection(d, sel) ==
    IF sel = None \/ (sel \in Published /\ ~Eligible(d, sel))
    THEN d.default ELSE sel

\* reject_generation_rollback: no older generation, and one generation is one
\* fingerprint.
RollsBack(new, old) ==
    \/ new.gen < old.gen
    \/ new.gen = old.gen /\ new.print # old.print
    \/ new.print = old.print /\ new.gen # old.gen

\* Mutant: generations are not compared.
Regresses_VersionsOnly(d, base, c) ==
    \E x \in Published : d.ch[x].version < base.ch[x].version

\* Exit 36 for any channel, 31 to 35 for the selected one.
Regresses(d, base, c) ==
    \/ \E x \in Published : d.ch[x].version < base.ch[x].version
    \/ base.ch[c].ready /\ RollsBack(d.ch[c], base.ch[c])

\* Mutant: a channel older than the installed version is accepted.
Verdict_AnyVersion(d, base, sel) ==
    IF d = Malformed THEN "bad"
    ELSE IF Selection(d, sel) \notin {c \in Published : d.ch[c].ready}
    THEN "pending"
    ELSE IF base # None /\ Regresses(d, base, Selection(d, sel)) THEN "bad"
    ELSE "ok"

Verdict(d, base, sel) ==
    IF d = Malformed THEN "bad"
    ELSE IF Selection(d, sel) \notin Usable(d) THEN "pending"
    ELSE IF base # None /\ Regresses(d, base, Selection(d, sel)) THEN "bad"
    ELSE "ok"

\* The files of the staged directory; the marker is the selection if it has
\* files, else the default channel if that has.
Staged(d, sel) ==
    [names |-> Usable(d),
     marker |-> IF sel \in Usable(d) THEN sel
                ELSE IF d.default \in Usable(d) THEN d.default ELSE None]

-----------------------------------------------------------------------------
(* A run                                                                   *)

Idle == [pc |-> "idle", sel |-> None, live |-> None, staged |-> None,
         backup |-> None]

\* REPOS_DIR is missing, or as a run with -l left it in the image.
Init ==
    /\ cache = None
    /\ \/ dir = None
       \/ Verdict(Baked, None, None) = "ok" /\ dir = Staged(Baked, None)
    /\ lock = None
    /\ run = [r \in Runs |-> Idle]
    /\ faults = 0

Step(r, pc) == run' = [run EXCEPT ![r].pc = pc]

LockFree == lock = None

\* The marker of REPOS_DIR, or the configured channel.
Begin(r) ==
    /\ run[r].pc = "idle"
    /\ r \in Syncs => LockFree
    /\ lock' = IF r \in Syncs THEN r ELSE lock
    /\ \E c \in Channels \cup {None} :
         LET marker == IF dir = None THEN None ELSE dir.marker IN
         run' = [run EXCEPT ![r] =
                   [Idle EXCEPT !.pc = IF r \in Syncs THEN "fetch" ELSE "local",
                                !.sel = IF c = None THEN marker ELSE c]]
    /\ UNCHANGED <<cache, dir, faults>>

\* A signed document arrives, or transport, envelope or signature fails.
Fetch(r) ==
    /\ run[r].pc = "fetch"
    /\ \/ \E d \in Offered \cup {Malformed} :
            run' = [run EXCEPT ![r].pc = "live", ![r].live = d]
       \/ Step(r, "fallback")
    /\ UNCHANGED <<cache, dir, lock, faults>>

Stage(r, d) ==
    run' = [run EXCEPT ![r].pc = "stage", ![r].live = None,
                       ![r].staged = Staged(d, run[r].sel)]

CheckLive(r) ==
    /\ run[r].pc = "live"
    /\ LET v == Verdict(run[r].live, cache, run[r].sel) IN
       \/ v = "ok" /\ Step(r, "persist")
       \/ v = "pending" /\ run' = [run EXCEPT ![r].pc = "fallback", ![r].live = None]
       \/ v = "bad" /\ run' = [run EXCEPT ![r].pc = "exit", ![r].live = None]
    /\ UNCHANGED <<cache, dir, lock, faults>>

\* The retained document is replaced by a rename, or the run gives up.
Persist(r) ==
    /\ run[r].pc = "persist"
    /\ \/ cache' = run[r].live /\ Stage(r, run[r].live)
       \/ /\ run' = [run EXCEPT ![r].pc = "exit", ![r].live = None]
          /\ UNCHANGED cache
    /\ UNCHANGED <<dir, lock, faults>>

\* load_fallback: the retained document, and the image's when the selection
\* is pending there or nothing was retained.
Fallback(r) ==
    /\ run[r].pc = "fallback"
    /\ LET v == IF cache = None THEN "pending" ELSE Verdict(cache, None, run[r].sel)
       IN  \/ v = "ok" /\ Stage(r, cache)
           \/ v = "pending" /\ Step(r, "local")
           \/ v = "bad" /\ Step(r, "exit")
    /\ UNCHANGED <<cache, dir, lock, faults>>

Local(r) ==
    /\ run[r].pc = "local"
    /\ IF Verdict(Baked, None, run[r].sel) = "ok" THEN Stage(r, Baked)
                                                  ELSE Step(r, "exit")
    /\ UNCHANGED <<cache, dir, lock, faults>>

\* The old directory is moved aside. Under set -e a failing mv ends the run.
MoveAside(r) ==
    /\ run[r].pc = "stage"
    /\ \/ /\ run' = [run EXCEPT ![r].pc = "swap", ![r].backup = dir]
          /\ dir' = None
       \/ Step(r, "exit") /\ UNCHANGED dir
    /\ UNCHANGED <<cache, lock, faults>>

\* mv of the staged directory; into REPOS_DIR if another run created it. If
\* it fails the backup is moved back, and if that fails it is left to Cleanup.
MoveIn(r) ==
    /\ run[r].pc = "swap"
    /\ \/ /\ dir' = IF dir = None THEN run[r].staged ELSE dir
          /\ run' = [run EXCEPT ![r].pc = "clear", ![r].staged = None]
       \/ /\ dir' = IF dir = None THEN run[r].backup ELSE dir
          /\ run' = [run EXCEPT ![r].pc = "exit", ![r].staged = None,
                               ![r].backup = None]
       \/ /\ run' = [run EXCEPT ![r].pc = "exit", ![r].staged = None]
          /\ UNCHANGED dir
    /\ UNCHANGED <<cache, lock, faults>>

\* The swap succeeded and the backup is removed.
Clear(r) ==
    /\ run[r].pc = "clear"
    /\ run' = [run EXCEPT ![r].pc = "exit", ![r].backup = None]
    /\ UNCHANGED <<cache, dir, lock, faults>>

Ended(r) ==
    /\ run' = [run EXCEPT ![r] = Idle]
    /\ lock' = IF lock = r THEN None ELSE lock
    /\ UNCHANGED cache

\* The trap on EXIT: a backup goes back if REPOS_DIR is missing.
Cleanup(r) ==
    /\ run[r].pc = "exit"
    /\ dir' = IF dir = None THEN run[r].backup ELSE dir
    /\ Ended(r)
    /\ UNCHANGED faults

\* HUP, INT or TERM between two commands.
Signal(r) ==
    /\ run[r].pc \notin {"idle", "exit"}
    /\ run' = [run EXCEPT ![r].pc = "exit", ![r].live = None, ![r].staged = None]
    /\ UNCHANGED <<cache, dir, lock, faults>>

Fault == faults < MaxFaults /\ faults' = faults + 1

\* A second signal finds the trap reset, or the recovery in it fails.
Kill(r) ==
    /\ run[r].pc = "exit"
    /\ Fault /\ Ended(r)
    /\ UNCHANGED dir

\* Power is lost; a backup stays on disk and nothing looks for it.
Crash ==
    /\ Fault
    /\ run' = [r \in Runs |-> Idle]
    /\ lock' = None
    /\ UNCHANGED <<cache, dir>>

RunStep(r) ==
    \/ Begin(r) \/ Fetch(r) \/ CheckLive(r) \/ Persist(r) \/ Fallback(r)
    \/ Local(r) \/ MoveAside(r) \/ MoveIn(r) \/ Clear(r) \/ Cleanup(r)
    \/ Signal(r) \/ Kill(r)

Next == Crash \/ \E r \in Runs : RunStep(r)

Spec == Init /\ [][Next]_vars

-----------------------------------------------------------------------------
\* Types; what is retained is a well-formed document.
TypeOK ==
    /\ cache \in Docs \cup {None}
    /\ dir \in Dirs \cup {None}
    /\ lock \in Syncs \cup {None}
    /\ \A r \in Runs :
         /\ run[r].sel \in Channels \cup {None}
         /\ run[r].live \in Docs \cup {None, Malformed}
         /\ {run[r].staged, run[r].backup} \subseteq Dirs \cup {None}
    /\ faults \in 0..MaxFaults

\* The directory pkg reads always has exactly one selected channel, and that
\* channel has files: what validate_payload accepts (336-338) is enough for
\* the marker written at the end (534-538).
MarkerUsable == dir # None => dir.marker \in dir.names

Saved == dir # None \/ \E r \in Runs : run[r].backup # None

Retains(r) == run[r].pc = "persist" /\ run'[r].pc = "stage"

\* Without a fault the repository files are never lost: whatever fails or is
\* interrupted, they are in place or in a backup that a run puts back
\* (540-562, cleanup:110-131). And the channel a run selects never goes back to
\* an older generation or to another repository of the same generation, with
\* any number of concurrent runs (304-334, 348-354, the lock at 92-105).
RepositoriesKept ==
    [][/\ Saved /\ faults' = 0 => Saved'
       /\ \A r \in Syncs :
            Retains(r) /\ cache # None =>
                LET c == Selection(cache', run[r].sel) IN
                cache.ch[c].ready => ~RollsBack(cache'.ch[c], cache.ch[c])]_vars

\* What is retained and what is in place is well formed, and pkg finds the
\* selected channel's files.
Usability == TypeOK /\ MarkerUsable
=============================================================================
