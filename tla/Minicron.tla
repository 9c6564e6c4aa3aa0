------------------------------- MODULE Minicron -------------------------------
(***************************************************************************)
(* minicron: a parent that keeps one helper process alive, which runs a    *)
(* command at an interval, and that stops with its helper on SIGTERM.      *)
(* SIGTERM may arrive between any two statements; its handler is installed *)
(* only while the parent waits, since the helper must not inherit it.      *)
(***************************************************************************)
EXTENDS Integers, FiniteSets

CONSTANTS
    MaxTerms,       \* bound on the SIGTERMs sent
    MaxDeaths,      \* bound on helpers that end by themselves
    MaxFails        \* bound on failing forks

VARIABLES
    pc, pid, quit,
    caught,         \* SIGTERM is handled by killchild
    helpers,        \* live helpers; they are numbered as they are forked
    ended,          \* helpers that have ended and were not waited for
    forks, terms, deaths, fails,
    when,           \* history: where the parent was at each SIGTERM
    stray           \* history: kill() was called for no live helper of its own

counts == <<terms, deaths, fails>>
vars == <<pc, pid, quit, caught, helpers, ended, forks, counts, when, stray>>

Init ==
    /\ pc = "test" /\ pid = 0 /\ quit = FALSE /\ caught = FALSE
    /\ helpers = {} /\ ended = {} /\ forks = 0
    /\ terms = 0 /\ deaths = 0 /\ fails = 0
    /\ when = {} /\ stray = FALSE

\* kill(p, SIGTERM); -1 is every process there is.
KillPid(p) ==
    /\ helpers' = helpers \ {p}
    /\ ended' = ended \cup (helpers \cap {p})
    /\ stray' = (stray \/ p \notin helpers)

-----------------------------------------------------------------------------
(* The parent's loop *)

Test ==
    /\ pc = "test"
    /\ pc' = IF quit THEN "final" ELSE "default"
    /\ UNCHANGED <<pid, quit, caught, helpers, ended, forks, counts, when, stray>>

Default ==
    /\ pc = "default"
    /\ caught' = FALSE
    /\ pc' = "fork"
    /\ UNCHANGED <<pid, quit, helpers, ended, forks, counts, when, stray>>

Fork ==
    /\ pc = "fork"
    /\ \/ /\ forks' = forks + 1
          /\ pid' = forks + 1
          /\ helpers' = helpers \cup {forks + 1}
          /\ UNCHANGED counts
       \/ /\ fails < MaxFails
          /\ fails' = fails + 1
          /\ pid' = -1
          /\ UNCHANGED <<forks, helpers, terms, deaths>>
    /\ pc' = "catch"
    /\ UNCHANGED <<quit, caught, ended, when, stray>>

\* Mutant: the handler is not installed again.
Catch_Once ==
    /\ pc = "catch"
    /\ caught' = (forks <= 1)
    /\ pc' = "wait"
    /\ UNCHANGED <<pid, quit, helpers, ended, forks, counts, when, stray>>

Catch ==
    /\ pc = "catch"
    /\ caught' = TRUE
    /\ pc' = "wait"
    /\ UNCHANGED <<pid, quit, helpers, ended, forks, counts, when, stray>>

\* wait() returns when a helper has ended, or fails when there is none; signal()
\* has it restarted after a handler.
Wait ==
    /\ pc = "wait" /\ (ended # {} \/ helpers = {})
    /\ ended' = {}
    /\ pc' = "test"
    /\ UNCHANGED <<pid, quit, caught, helpers, forks, counts, when, stray>>

Final ==
    /\ pc = "final"
    /\ IF pid # 0 THEN KillPid(pid) ELSE UNCHANGED <<helpers, ended, stray>>
    /\ pid' = 0
    /\ pc' = "gone"
    /\ UNCHANGED <<quit, caught, forks, counts, when>>

-----------------------------------------------------------------------------
(* Signals and helpers *)

\* killchild
KillChild ==
    /\ quit' = TRUE
    /\ IF pid # 0 THEN KillPid(pid) ELSE UNCHANGED <<helpers, ended, stray>>
    /\ pid' = 0
    /\ UNCHANGED pc

Term ==
    /\ pc # "gone" /\ terms < MaxTerms
    /\ terms' = terms + 1
    /\ when' = when \cup {pc}
    /\ IF caught THEN KillChild
       ELSE pc' = "gone" /\ UNCHANGED <<quit, pid, helpers, ended, stray>>
    /\ UNCHANGED <<caught, forks, deaths, fails>>

HelperEnds(h) ==
    /\ deaths < MaxDeaths
    /\ deaths' = deaths + 1
    /\ helpers' = helpers \ {h}
    /\ ended' = ended \cup {h}
    /\ UNCHANGED <<pc, pid, quit, caught, forks, terms, fails, when, stray>>

Parent == Test \/ Default \/ Fork \/ Catch \/ Wait \/ Final

Next == Parent \/ Term \/ \E h \in helpers : HelperEnds(h)

\* The parent is scheduled; nobody has to send a signal, and helpers run on.
Fairness == WF_vars(Parent)

FairSpec == Init /\ [][Next]_vars /\ Fairness

-----------------------------------------------------------------------------
(* Properties *)

Places == {"test", "default", "fork", "catch", "wait", "final", "gone"}

\* The parent's variables are well formed, and it has one helper at a time.
TypeOK ==
    /\ pc \in Places /\ pid \in -1..forks
    /\ quit \in BOOLEAN /\ caught \in BOOLEAN
    /\ helpers \cup ended \subseteq 1..forks
    /\ Cardinality(helpers) <= 1

\* A helper is left behind only by a SIGTERM that arrives while the parent is
\* starting one, between fork() and signal(SIGTERM, killchild).
OrphanedWhileStarting == pc = "gone" /\ helpers # {} => "catch" \in when

\* kill() is called for a process that is not the parent's own live helper only
\* after a helper has ended by itself or a fork has failed.
StrayAfterFault == stray => deaths + fails > 0

\* SIGTERM stops the parent and its helper, unless it arrives while a helper is
\* being started (see above) or just after the test of quit, when the parent
\* still starts a helper and waits for it.
TermStops ==
    []<>(\/ when = {}
         \/ pc = "gone" /\ helpers = {}
         \/ when \cap {"default", "catch"} # {})

\* There is one helper, and a signal meant for it goes astray, or misses it, only
\* after a fault or while it is started.
HelperKnown == TypeOK /\ OrphanedWhileStarting /\ StrayAfterFault
===============================================================================
