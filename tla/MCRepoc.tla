------------------------------ MODULE MCRepoc ------------------------------
(***************************************************************************)
(* FreeSense-repoc and FreeSense-repo-setup for TLC. What a run of the     *)
(* first does to the files is one step of the second, so they share no     *)
(* state here: in a behaviour one of them runs and the other stays as it   *)
(* was, and part says which. The image's document has its default channel  *)
(* complete; "gone" is a channel no document has.                          *)
(***************************************************************************)
EXTENDS Repoc, TLC

CONSTANTS Bases, MaxBegins, MaxKills

VARIABLES part, config, base, link, pkgconf, copy, pkgabi, setup, last, begins, kills

setups == <<config, base, link, pkgconf, copy, pkgabi, setup, last, begins, kills>>
all == <<vars, setups, part>>

MCBaked ==
    [default |-> "stable",
     ch |-> [c \in Published |->
               [gen |-> 1, print |-> 1, ready |-> c = "stable",
                version |-> Installed]]]

\* Documents that differ in versions, and documents that differ in generations
\* and fingerprints, where the default channel, stable, is complete and has one
\* fingerprint per generation. (Those of a channel that is not complete are
\* compared with nothing.)
MCOffered ==
    {d \in Docs : \A c \in Published : d.ch[c].gen = 1 /\ d.ch[c].print = 1}
    \cup {d \in Docs : /\ d.default = "stable" /\ d.ch["stable"].ready
                       /\ d.ch["stable"].gen = d.ch["stable"].print
                       /\ ~d.ch["devel"].ready => d.ch["devel"].gen = 1 /\ d.ch["devel"].print = 1
                       /\ \A c \in Published : d.ch[c].version = Installed}

\* Files without a marker, with stable and with devel as the default, and none at
\* all; a channel of the next version, one with a bad osversion and one missing.
MCFiles(p, a, o) == [print |-> p, abi |-> a, osv |-> o]
MCBase(d, s, v) == [default |-> d, file |-> [c \in Published |-> IF c = "stable" THEN s ELSE v]]
MCBases ==
    {MCBase(None, MCFiles(1, None, None), MCFiles(1, "next", "next")),
     MCBase("stable", MCFiles(2, "cur", "cur"), None),
     MCBase("devel", MCFiles(1, None, None), MCFiles(1, "next", "bad")),
     MCBase(None, None, None)}

S == INSTANCE RepoSetup WITH Runs <- Syncs, Channels <- Published, run <- setup

ASSUME SetupAssumption == S!ConstantsRight

InitAll ==
    /\ Init /\ S!Init
    /\ \/ part = "repoc" /\ config = None /\ base.default = "stable" /\ link = None /\ pkgabi = "cur"
       \/ part = "setup" /\ dir = None /\ link # "stable"

NextAll ==
    \/ part = "repoc" /\ Next /\ UNCHANGED <<setups, part>>
    \/ part = "setup" /\ S!Next /\ UNCHANGED <<vars, part>>

SpecAll == InitAll /\ [][NextAll]_all

-----------------------------------------------------------------------------
\* The directory selects a channel that has files (Repoc). A run of
\* FreeSense-repo-setup without another one beside it leaves the link, pkg.conf
\* and its exit status right (RepoSetup).
ReposRight == Usability /\ S!RepoSettled

Symmetry == Permutations(Syncs)
=============================================================================
