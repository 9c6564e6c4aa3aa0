------------------------------ MODULE RepoSetup ------------------------------
(***************************************************************************)
(* FreeSense-repo-setup, run by the upgrade tool and by the web interface, *)
(* possibly at once: points pkg's repository link at the selected          *)
(* channel's file, has FreeSense-repoc renew those files, and writes       *)
(* pkg.conf for the channel's ABI. A run may be killed between any two of  *)
(* its commands. A channel stands for its name, its id and the paths of    *)
(* its files. The machine's architecture is one the script knows.          *)
(***************************************************************************)
EXTENDS Naturals, FiniteSets

CONSTANTS
    Runs,
    Channels,       \* "stable" is one of them
    Bases,          \* contents of pkg_repos_path: [default, file] (see Files)
    MaxBegins,      \* bound: runs begun; no selection is made during the last
    MaxKills,       \* bound: runs killed
    None

\* A channel's files: a generation of its .conf, its .abi if there is one, and
\* its .osversion. "cur" is what the running system has.
Files == [print : Nat, abi : {None, "cur", "next"}, osv : {None, "bad", "cur", "next"}]

\* What is assumed of the constants.
ConstantsRight ==
    /\ Bases \subseteq [default : Channels \cup {None}, file : [Channels -> Files \cup {None}]]
    /\ "plain" \notin Channels
    /\ None \notin Channels \cup Runs \cup ((Channels \cup {"plain"}) \X Nat)
    /\ MaxBegins \in Nat /\ MaxKills \in Nat

VARIABLES
    config,     \* system/pkg_repo_conf_path: a channel or None
    base,       \* pkg_repos_path
    link,       \* PRODUCT_REPO_CONF: a channel, "plain" for a file, or None
    pkgconf,    \* PKG_CONF: None, "empty" or [abi, osv]
    copy,       \* /tmp/FreeSense.conf.copy: a generation of a channel's file, or None
    pkgabi,     \* the ABI of the installed pkg
    run,        \* the runs
    last,       \* history: the latest run, if it has had no other beside it nor a new selection
    begins, kills

vars == <<config, base, link, pkgconf, copy, pkgabi, run, last, begins, kills>>
disk == <<config, base, link, pkgconf, copy, pkgabi>>

Has(c) == c \in Channels /\ base.file[c] # None

\* What cp and cmp read behind the link.
Content(c) ==
    IF Has(c) THEN <<c, base.file[c].print>> ELSE IF c = "plain" THEN <<"plain", 0>> ELSE None

\* was is a history: what was behind the link when the copy was taken.
Idle == [pc |-> "idle", path |-> None, update |-> FALSE, abi |-> "cur", osv |-> "cur",
         was |-> None, code |-> 0]

Init ==
    /\ config \in Channels \cup {None}
    /\ base \in Bases
    /\ link \in Channels \cup {None, "plain"}
    /\ pkgconf = None /\ copy = None
    /\ pkgabi \in {"cur", "next"}
    /\ run = [r \in Runs |-> Idle]
    /\ last = None /\ begins = 0 /\ kills = 0

Active(r) == run[r].pc \notin {"idle", "end", "killed"}
At(r, pc) == run[r].pc = pc
To(r, pc) == run' = [run EXCEPT ![r].pc = pc]
Same == UNCHANGED <<last, begins, kills>>

-----------------------------------------------------------------------------
\* main: the selection, or the default channel if nothing is selected.
Begin(r) ==
    /\ ~Active(r) /\ begins < MaxBegins
    /\ \E u \in BOOLEAN :
        run' = [run EXCEPT ![r] =
            [Idle EXCEPT !.pc = "validate1", !.update = u,
                         !.path = IF config # None THEN config ELSE base.default]]
    /\ last' = IF \E q \in Runs \ {r} : Active(q) THEN None ELSE r
    /\ begins' = begins + 1
    /\ UNCHANGED <<disk, kills>>

\* validate_repo_conf: the selection if it has files, or the default, or stable.
Target(path) ==
    IF Has(path) THEN path ELSE IF base.default # None THEN base.default ELSE "stable"

\* A link to something else, or a file in its place, is removed first.
Validate(r, pc, ln, next) ==
    LET t == Target(run[r].path) IN
    /\ At(r, pc)
    /\ IF ~Has(t) THEN To(r, next) /\ UNCHANGED link
       ELSE IF link = t
       THEN run' = [run EXCEPT ![r].pc = next, ![r].path = t] /\ UNCHANGED link
       ELSE run' = [run EXCEPT ![r].pc = ln, ![r].path = t] /\ link' = None
    /\ UNCHANGED <<config, base, pkgconf, copy, pkgabi>> /\ Same

\* ln does not replace what another run has made meanwhile.
Link(r, pc, next) ==
    /\ At(r, pc)
    /\ link' = IF link = None THEN run[r].path ELSE link
    /\ To(r, next)
    /\ UNCHANGED <<config, base, pkgconf, copy, pkgabi>> /\ Same

Validate1(r) == Validate(r, "validate1", "link1", "copy")
Link1(r) == Link(r, "link1", "copy")

-----------------------------------------------------------------------------
(* product_repo_setup *)

\* cp fails when nothing is behind the link, and then leaves an older copy.
Copy(r) ==
    /\ At(r, "copy")
    /\ copy' = IF Content(link) # None THEN Content(link) ELSE copy
    /\ run' = [run EXCEPT ![r].pc = IF run[r].update THEN "fetch" ELSE "validate2",
                          ![r].was = Content(link)]
    /\ UNCHANGED <<config, base, link, pkgconf, pkgabi>> /\ Same

\* What FreeSense-repoc leaves: the marked channel has files (Repoc!MarkerUsable),
\* or there is no directory because another run is replacing it.
Renewed ==
    {b \in Bases : IF b.default = None THEN \A c \in Channels : b.file[c] = None
                                       ELSE b.file[b.default] # None}

\* FreeSense-repoc replaces the files or fails.
Fetch(r) ==
    /\ At(r, "fetch")
    /\ \/ base' \in Renewed /\ To(r, "validate2") /\ UNCHANGED copy
       \/ run' = [run EXCEPT ![r].pc = "end", ![r].code = 1] /\ copy' = None /\ UNCHANGED base
    /\ UNCHANGED <<config, link, pkgconf, pkgabi>> /\ Same

Validate2(r) == Validate(r, "validate2", "link2", "abi")
Link2(r) == Link(r, "link2", "abi")

LinkedFiles(r) == IF Has(link) THEN base.file[link] ELSE None

\* abi_setup: what the linked channel says, or the running system's.
ReadAbi(r) ==
    LET f == LinkedFiles(r)
        abi == IF f = None \/ f.abi = None THEN "cur" ELSE f.abi
        osv == IF f = None \/ f.osv = None THEN "cur" ELSE f.osv
    IN  /\ At(r, "abi")
        /\ run' = [run EXCEPT ![r] =
                     IF osv = "bad" THEN [@ EXCEPT !.pc = "compare", !.code = 1]
                     ELSE [@ EXCEPT !.pc = "clear", !.abi = abi, !.osv = osv]]
        /\ UNCHANGED disk /\ Same

ClearConf(r) ==
    /\ At(r, "clear")
    /\ pkgconf' = "empty" /\ To(r, "write")
    /\ UNCHANGED <<config, base, link, copy, pkgabi>> /\ Same

WriteConf(r) ==
    /\ At(r, "write")
    /\ pkgconf' = [abi |-> run[r].abi, osv |-> run[r].osv] /\ To(r, "select")
    /\ UNCHANGED <<config, base, link, copy, pkgabi>> /\ Same

\* The link once more, and whether pkg is another ABI's and the ABI is new.
Code(r) ==
    LET pkg == pkgabi # "cur" /\ pkgabi # run[r].abi
        major == run[r].abi # "cur"
    IN  CASE pkg /\ major -> 13 [] pkg /\ ~major -> 11 [] ~pkg /\ major -> 12 [] OTHER -> 0

Select(r) ==
    /\ At(r, "select")
    /\ IF Has(run[r].path) /\ link # run[r].path
       THEN link' = None /\ run' = [run EXCEPT ![r].pc = "link3", ![r].code = Code(r)]
       ELSE run' = [run EXCEPT ![r].pc = "compare", ![r].code = Code(r)] /\ UNCHANGED link
    /\ UNCHANGED <<config, base, pkgconf, copy, pkgabi>> /\ Same

Link3(r) == Link(r, "link3", "compare")

\* A linked file that is not the copy asks for a look at pkg, if nothing else does.
Compare(r) ==
    /\ At(r, "compare")
    /\ run' = [run EXCEPT ![r].pc = "end",
                          ![r].code = IF @ = 0 /\ (copy = None \/ Content(link) # copy) THEN 14 ELSE @]
    /\ copy' = None
    /\ UNCHANGED <<config, base, link, pkgconf, pkgabi>> /\ Same

-----------------------------------------------------------------------------
(* Around the runs: a kill, and another selection in the web interface *)

Kill(r) ==
    /\ Active(r) /\ kills < MaxKills
    /\ kills' = kills + 1
    /\ To(r, "killed")
    /\ UNCHANGED <<disk, last, begins>>

Choose(c) ==
    /\ config # c
    /\ begins < MaxBegins \/ \A r \in Runs : ~Active(r)
    /\ config' = c /\ last' = None
    /\ UNCHANGED <<base, link, pkgconf, copy, pkgabi, run, begins, kills>>

Step(r) ==
    \/ Begin(r) \/ Validate1(r) \/ Link1(r) \/ Copy(r) \/ Fetch(r)
    \/ Validate2(r) \/ Link2(r) \/ ReadAbi(r) \/ ClearConf(r) \/ WriteConf(r)
    \/ Select(r) \/ Link3(r) \/ Compare(r) \/ Kill(r)

Next == (\E r \in Runs : Step(r)) \/ (\E c \in Channels \cup {None} : Choose(c))

Spec == Init /\ [][Next]_vars

-----------------------------------------------------------------------------
AbiOf(c) == IF Has(c) /\ base.file[c].abi # None THEN base.file[c].abi ELSE "cur"

\* A run that had no other beside it, whatever runs before it had left or were
\* killed in the middle of, and that ends without an error: the link leads to
\* files that exist, the selected channel's if the files are the ones it found
\* when it began; pkg.conf has that channel's ABI; and the exit status tells
\* whether the linked file has changed. (If nothing was behind the link, a run
\* may compare with the copy that a killed one has left.)
RepoSettled ==
    (last # None /\ run[last].pc = "end" /\ run[last].code # 1 /\ Has(Target(config))) =>
        /\ Has(link)
        /\ ~run[last].update => link = Target(config)
        /\ pkgconf.abi = AbiOf(link)
        /\ run[last].code = 0 => \/ Content(link) = run[last].was
                                 \/ run[last].was = None /\ kills > 0
        /\ run[last].code = 14 => Content(link) # run[last].was
=============================================================================
