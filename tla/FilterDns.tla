------------------------------- MODULE FilterDns -------------------------------
(***************************************************************************)
(* The threads of filterdns: one per action (rule), one per host name, and *)
(* the merge thread, which reloads the configuration.  main_lock, the      *)
(* semaphores, the lists and reference counts are modelled; what the       *)
(* threads do to the addresses is in FilterDnsTables.                      *)
(*                                                                         *)
(* The merge thread holds main_lock for writing in a set of its control    *)
(* points, and an action or host thread holds it for reading at "work", so *)
(* the lock needs no variable of its own.                                  *)
(*                                                                         *)
(* A rule is identified by what merge_config compares.  A deleted action's *)
(* thread may still have its last statement to run ("last"); it writes to  *)
(* memory already freed, and the model gives that write no effect.         *)
(***************************************************************************)
EXTENDS Integers, FiniteSets

CONSTANTS
    Actions,      \* the rules a configuration can hold
    Hosts,        \* the host names they use
    HostOf,       \* the host name of a rule
    MaxPosts,     \* semaphore values are capped here
    MaxSignals    \* bound on the number of signals

ASSUME HostAssumption == HostOf \in [Actions -> Hosts]
ASSUME BoundAssumption == MaxPosts \in Nat \ {0} /\ MaxSignals \in Nat
ASSUME FiniteAssumption == IsFiniteSet(Actions)

VARIABLES
    mpc, mstate, msem,   \* merge thread: control point, merge_state, merge_sem
    stopping,            \* the merge thread has left its loop
    cur,                 \* action_list
    todel,               \* tmp_action_list, after the matching rules were moved
    victim,              \* the action host_del waits for
    attached,            \* actions whose host pointer is the listed thread_host
    orphans,             \* actions whose host pointer is one that has exited
    apc, asem, exitSem, force,   \* action threads, sem, exit_sem, ACT_FORCE
    listed, refcnt,      \* thread_list and the reference counts
    hpc, hsem,           \* host threads and their semaphores
    nsig

mergeVars == <<mpc, mstate, msem, stopping, cur, todel, victim, nsig>>
linkVars  == <<attached, orphans, listed, refcnt>>
actVars   == <<apc, asem, exitSem, force>>
hostVars  == <<hpc, hsem>>
vars == <<mergeVars, linkVars, actVars, hostVars>>

Post(n) == IF n < MaxPosts THEN n + 1 ELSE n

On(S, h) == {a \in S : HostOf[a] = h}

-----------------------------------------------------------------------------
(* main_lock *)

WriteLocked == mpc \in {"match", "del", "waitexit", "create"}

ReadLocked ==
    \/ \E a \in Actions : apc[a] = "work"
    \/ \E h \in Hosts : hpc[h] = "work"

\* A new reader also waits for a writer that is already waiting (libthr).
ReadersWait == WriteLocked \/ mpc = "queued"

-----------------------------------------------------------------------------
(* main: the configuration is parsed, then the threads are created *)

Init ==
    /\ cur \in SUBSET Actions
    /\ attached = cur /\ orphans = {}
    /\ listed = {HostOf[a] : a \in cur}
    /\ refcnt = [h \in Hosts |-> Cardinality(On(cur, h))]
    /\ apc = [a \in Actions |-> "none"] /\ force = [a \in Actions |-> FALSE]
    /\ asem = [a \in Actions |-> 0] /\ exitSem = [a \in Actions |-> FALSE]
    /\ hpc = [h \in Hosts |-> "none"] /\ hsem = [h \in Hosts |-> 0]
    /\ mpc = "threads" /\ mstate = "stopped" /\ msem = 0 /\ stopping = FALSE
    /\ todel = {} /\ victim = {} /\ nsig = 0

\* action_create and check_hostname_create for every entry without a thread.
CreateThreads(as, hs) ==
    /\ apc' = [a \in Actions |-> IF a \in as THEN "start" ELSE apc[a]]
    /\ force' = [a \in Actions |-> IF a \in as THEN TRUE ELSE force[a]]
    /\ asem' = [a \in Actions |-> IF a \in as THEN 0 ELSE asem[a]]
    /\ exitSem' = [a \in Actions |-> IF a \in as THEN FALSE ELSE exitSem[a]]
    /\ hpc' = [h \in Hosts |-> IF h \in hs THEN "start" ELSE hpc[h]]

MainThreads ==
    /\ mpc = "threads"
    /\ CreateThreads(cur, listed)
    /\ mpc' = "sem"
    /\ UNCHANGED <<mstate, msem, stopping, cur, todel, victim, nsig, linkVars, hsem>>

\* sem_init, merge_state and the merge thread.
MainMerge ==
    /\ mpc = "sem"
    /\ msem' = 0 /\ mstate' = "starting" /\ mpc' = "begin"
    /\ UNCHANGED <<stopping, cur, todel, victim, nsig, linkVars, actVars, hostVars>>

\* handle_signal, on any thread: merge_sem is not initialised before main's
\* sem_init, and a post is lost then.
Signal(term) ==
    /\ nsig < MaxSignals
    /\ nsig' = nsig + 1
    /\ mstate' = IF term THEN "dying" ELSE mstate
    /\ msem' = IF mpc \in {"threads", "sem"} THEN msem ELSE Post(msem)
    /\ UNCHANGED <<mpc, stopping, cur, todel, victim, linkVars, actVars, hostVars>>

-----------------------------------------------------------------------------
(* check_action *)

\* Lines 88 to 92: the first lock.
ActionStart(a) ==
    /\ apc[a] = "start" /\ ~ReadersWait
    /\ apc' = [apc EXCEPT ![a] = "wait"]
    /\ UNCHANGED <<mergeVars, linkVars, asem, exitSem, force, hostVars>>

\* sem_wait, then the test of act->host: read without the lock.
ActionWake(a) ==
    /\ apc[a] = "wait" /\ asem[a] > 0
    /\ asem' = [asem EXCEPT ![a] = @ - 1]
    /\ apc' = [apc EXCEPT ![a] = IF a \in attached \cup orphans THEN "lock" ELSE "exit"]
    /\ UNCHANGED <<mergeVars, linkVars, exitSem, force, hostVars>>

\* The second lock; ACT_FORCE is cleared.
ActionLock(a) ==
    /\ apc[a] = "lock" /\ ~ReadersWait
    /\ apc' = [apc EXCEPT ![a] = "work"]
    /\ force' = [force EXCEPT ![a] = FALSE]
    /\ UNCHANGED <<mergeVars, linkVars, asem, exitSem, hostVars>>

\* The table update and the command, then the unlock at the top of the loop.
ActionWork(a) ==
    /\ apc[a] = "work"
    /\ apc' = [apc EXCEPT ![a] = "wait"]
    /\ UNCHANGED <<mergeVars, linkVars, asem, exitSem, force, hostVars>>

\* After the loop: an unlock of a lock this thread does not hold, which fails
\* while the merge thread holds it for writing; then exit_sem is posted.
ActionExit(a) ==
    /\ apc[a] = "exit"
    /\ apc' = [apc EXCEPT ![a] = "last"]
    /\ exitSem' = [exitSem EXCEPT ![a] = TRUE]
    /\ UNCHANGED <<mergeVars, linkVars, asem, force, hostVars>>

\* act->state = THR_STOPPED, after the merge thread may have freed act.
ActionLast(a) ==
    /\ apc[a] = "last"
    /\ apc' = [apc EXCEPT ![a] = "none"]
    /\ UNCHANGED <<mergeVars, linkVars, asem, exitSem, force, hostVars>>

-----------------------------------------------------------------------------
(* check_hostname *)

\* The static address test and thr->state = THR_RUNNING.
HostStart(h) ==
    /\ hpc[h] = "start"
    /\ hpc' = [hpc EXCEPT ![h] = "check"]
    /\ UNCHANGED <<mergeVars, linkVars, actVars, hsem>>

\* refcnt is read without the lock.
HostCheck(h) ==
    /\ hpc[h] = "check"
    /\ hpc' = [hpc EXCEPT ![h] = IF refcnt[h] = 0 THEN "out" ELSE "try"]
    /\ UNCHANGED <<mergeVars, linkVars, actVars, hsem>>

\* pthread_rwlock_tryrdlock: on failure the thread sleeps again.
HostTry(h) ==
    /\ hpc[h] = "try"
    /\ hpc' = [hpc EXCEPT ![h] = IF ReadersWait THEN "sleep" ELSE "work"]
    /\ UNCHANGED <<mergeVars, linkVars, actVars, hsem>>

\* Mutant: only a change wakes the actions, ACT_FORCE is not looked at.
HostWork_NoForce(h, update) ==
    /\ hpc[h] = "work"
    /\ asem' = [a \in Actions |->
                  IF a \in On(attached, h) /\ update THEN Post(asem[a]) ELSE asem[a]]
    /\ hpc' = [hpc EXCEPT ![h] = "sleep"]
    /\ UNCHANGED <<mergeVars, linkVars, apc, exitSem, force, hsem>>

\* Resolve and wake the host's actions: all of them on a change, otherwise
\* those created since.  Then unlock.
HostWork(h, update) ==
    /\ hpc[h] = "work"
    /\ asem' = [a \in Actions |->
                  IF a \in On(attached, h) /\ (update \/ force[a])
                  THEN Post(asem[a]) ELSE asem[a]]
    /\ hpc' = [hpc EXCEPT ![h] = "sleep"]
    /\ UNCHANGED <<mergeVars, linkVars, apc, exitSem, force, hsem>>

\* sem_clockwait_np returns: a post, or the interval has passed.
HostWake(h) ==
    /\ hpc[h] = "sleep"
    /\ \/ hsem[h] > 0 /\ hsem' = [hsem EXCEPT ![h] = @ - 1]
       \/ hsem[h] = 0 /\ UNCHANGED hsem
    /\ hpc' = [hpc EXCEPT ![h] = "check"]
    /\ UNCHANGED <<mergeVars, linkVars, actVars>>

\* out: without the lock the host leaves thread_list and its name is freed;
\* actions that were attached to it since keep a pointer to it.
HostOut(h) ==
    /\ hpc[h] = "out"
    /\ hpc' = [hpc EXCEPT ![h] = "none"]
    /\ listed' = listed \ {h}
    /\ orphans' = orphans \cup On(attached, h)
    /\ attached' = attached \ On(attached, h)
    /\ refcnt' = [refcnt EXCEPT ![h] = 0] /\ hsem' = [hsem EXCEPT ![h] = 0]
    /\ UNCHANGED <<mergeVars, actVars>>

-----------------------------------------------------------------------------
(* merge_config *)

\* merge_state is set unconditionally, whatever a signal stored there.
MergeBegin ==
    /\ mpc = "begin"
    /\ mpc' = "idle" /\ mstate' = "running"
    /\ UNCHANGED <<msem, stopping, cur, todel, victim, nsig, linkVars, actVars, hostVars>>

\* sem_wait and the test of merge_state.
MergeWake ==
    /\ mpc = "idle" /\ msem > 0
    /\ msem' = msem - 1
    /\ mpc' = "lock"
    /\ stopping' = (mstate = "dying")
    /\ UNCHANGED <<mstate, cur, todel, victim, nsig, linkVars, actVars, hostVars>>

\* pthread_rwlock_wrlock has to wait for the readers.
MergeQueue ==
    /\ mpc = "lock" /\ ReadLocked
    /\ mpc' = "queued"
    /\ UNCHANGED <<mstate, msem, stopping, cur, todel, victim, nsig,
                   linkVars, actVars, hostVars>>

\* pthread_rwlock_wrlock, for a reload or, after the loop, for the last clear.
MergeLock ==
    /\ mpc \in {"lock", "queued"} /\ ~ReadLocked
    /\ \/ ~stopping /\ mpc' = "match" /\ UNCHANGED <<cur, todel>>
       \/ stopping /\ mpc' = "del" /\ todel' = cur /\ cur' = {}
    /\ UNCHANGED <<mstate, msem, stopping, victim, nsig, linkVars, actVars, hostVars>>

\* parse_config on a bad file: exit(10).
MergeParseFails ==
    /\ mpc = "match"
    /\ mpc' = "exited"
    /\ UNCHANGED <<mstate, msem, stopping, cur, todel, victim, nsig, linkVars, actVars, hostVars>>

\* Mutant: the reference the parser's copy of a kept rule took is not dropped.
MergeMatch_KeepsReference(conf) ==
    /\ mpc = "match"
    /\ mpc' = "del"
    /\ cur' = conf
    /\ todel' = cur \ conf
    /\ listed' = listed \cup {HostOf[a] : a \in conf}
    /\ attached' = attached \cup (conf \ cur)
    /\ refcnt' = [h \in Hosts |-> refcnt[h] + Cardinality(On(conf, h))]
    /\ hsem' = [h \in Hosts |-> IF On(conf \cap cur, h) # {} /\ hpc[h] \notin {"none", "out"}
                                THEN Post(hsem[h]) ELSE hsem[h]]
    /\ UNCHANGED <<mstate, msem, stopping, victim, nsig, orphans, actVars, hpc>>

\* The new configuration is parsed into new actions (host_add shares a listed
\* host or lists a new one); the copy of a rule that is kept is deleted again,
\* which posts its host's semaphore.  No thread is waited for here.
MergeMatch(conf) ==
    /\ mpc = "match"
    /\ mpc' = "del"
    /\ cur' = conf
    /\ todel' = cur \ conf
    /\ listed' = listed \cup {HostOf[a] : a \in conf}
    /\ attached' = attached \cup (conf \ cur)
    /\ refcnt' = [h \in Hosts |-> refcnt[h] + Cardinality(On(conf \ cur, h))]
    /\ hsem' = [h \in Hosts |-> IF On(conf \cap cur, h) # {} /\ hpc[h] \notin {"none", "out"}
                                THEN Post(hsem[h]) ELSE hsem[h]]
    /\ UNCHANGED <<mstate, msem, stopping, victim, nsig, orphans, actVars, hpc>>

\* host_del: the reference is dropped, the thread is told to exit and waited for.
MergeDel(a) ==
    /\ mpc = "del" /\ a \in todel
    /\ mpc' = "waitexit"
    /\ victim' = {a}
    /\ refcnt' = IF a \in attached THEN [refcnt EXCEPT ![HostOf[a]] = @ - 1] ELSE refcnt
    /\ attached' = attached \ {a} /\ orphans' = orphans \ {a}
    /\ asem' = [asem EXCEPT ![a] = Post(@)]
    /\ UNCHANGED <<mstate, msem, stopping, cur, todel, nsig, listed,
                   apc, exitSem, force, hostVars>>

\* exit_sem was posted: the host is woken and the rest of action_del runs.
MergeDeleted(a) ==
    /\ mpc = "waitexit" /\ a \in victim /\ exitSem[a]
    /\ mpc' = "del"
    /\ todel' = todel \ {a} /\ victim' = {}
    /\ exitSem' = [exitSem EXCEPT ![a] = FALSE]
    /\ hsem' = [hsem EXCEPT ![HostOf[a]] = IF hpc[HostOf[a]] \in {"none", "out"} THEN @ ELSE Post(@)]
    /\ UNCHANGED <<mstate, msem, stopping, cur, nsig, linkVars, apc, asem, force, hpc>>

\* clear_config is through; after the loop the lock is released.
MergeCleared ==
    /\ mpc = "del" /\ todel = {}
    /\ mpc' = IF stopping THEN "sleep2" ELSE "create"
    /\ UNCHANGED <<mstate, msem, stopping, cur, todel, victim, nsig,
                   linkVars, actVars, hostVars>>

NoThread(a) == apc[a] \in {"none", "last"}

\* Threads for what is new, a post for every host thread, unlock.
MergeCreate ==
    /\ mpc = "create"
    /\ CreateThreads({a \in cur : NoThread(a)}, {h \in listed : hpc[h] = "none"})
    /\ hsem' = [h \in Hosts |-> IF h \in listed /\ hpc[h] # "out" THEN Post(hsem[h]) ELSE hsem[h]]
    /\ mpc' = "idle"
    /\ UNCHANGED <<mstate, msem, stopping, cur, todel, victim, nsig, linkVars>>

\* sleep(2); exit(0).
MergeExit ==
    /\ mpc = "sleep2"
    /\ mpc' = "exited"
    /\ UNCHANGED <<mstate, msem, stopping, cur, todel, victim, nsig,
                   linkVars, actVars, hostVars>>

-----------------------------------------------------------------------------
ActionThread(a) ==
    ActionStart(a) \/ ActionWake(a) \/ ActionLock(a) \/ ActionWork(a)
        \/ ActionExit(a) \/ ActionLast(a)

HostThread(h) ==
    \/ HostStart(h) \/ HostCheck(h) \/ HostTry(h) \/ HostWake(h) \/ HostOut(h)
    \/ \E update \in BOOLEAN : HostWork(h, update)

MergeThread ==
    \/ MergeBegin \/ MergeWake \/ MergeQueue \/ MergeLock \/ MergeParseFails
    \/ \E conf \in SUBSET Actions : MergeMatch(conf)
    \/ \E a \in Actions : MergeDel(a) \/ MergeDeleted(a)
    \/ MergeCleared \/ MergeCreate \/ MergeExit

Next ==
    /\ mpc # "exited"
    /\ \/ MainThreads \/ MainMerge
       \/ \E term \in BOOLEAN : Signal(term)
       \/ \E a \in Actions : ActionThread(a)
       \/ \E h \in Hosts : HostThread(h)
       \/ MergeThread

Spec == Init /\ [][Next]_vars

\* Every thread is scheduled.
Fairness ==
    /\ WF_vars(MainThreads \/ MainMerge)
    /\ \A a \in Actions : WF_vars(mpc # "exited" /\ ActionThread(a))
    /\ \A h \in Hosts : WF_vars(mpc # "exited" /\ HostThread(h))
    /\ WF_vars(MergeThread)

FairSpec == Spec /\ Fairness

-----------------------------------------------------------------------------
(* Properties *)

ActionPoints == {"none", "start", "wait", "lock", "work", "exit", "last"}
HostPoints == {"none", "start", "check", "try", "work", "sleep", "out"}
MergePoints == {"threads", "sem", "begin", "idle", "lock", "queued", "match", "del",
                "waitexit", "create", "sleep2", "exited"}

\* The type invariant of the threads, lists and semaphores.
TypeOK ==
    /\ mpc \in MergePoints /\ mstate \in {"stopped", "starting", "running", "dying"}
    /\ msem \in Nat /\ stopping \in BOOLEAN /\ nsig \in 0..MaxSignals
    /\ cur \subseteq Actions /\ todel \subseteq Actions /\ victim \subseteq todel
    /\ attached \subseteq Actions /\ orphans \subseteq Actions
    /\ apc \in [Actions -> ActionPoints] /\ force \in [Actions -> BOOLEAN]
    /\ asem \in [Actions -> Nat] /\ exitSem \in [Actions -> BOOLEAN]
    /\ listed \subseteq Hosts /\ refcnt \in [Hosts -> Nat]
    /\ hpc \in [Hosts -> HostPoints] /\ hsem \in [Hosts -> Nat]

\* check_action unlocks main_lock once more on its way out, without holding it.
\* That is harmless because the merge thread holds it for writing then; at any
\* other time it would release the read lock of another thread.
UnlockHarmless == \A a \in Actions : apc[a] = "exit" => WriteLocked

\* The merge thread frees an action only when nothing but the last statement of
\* its thread is left to run.
FreedUntouched == \A a \in Actions : a \notin cur \cup todel => NoThread(a)

\* A host's reference count, changed by host_add and host_del in the course of a
\* reload, is the number of actions on its list.
RefcntExact == \A h \in Hosts : refcnt[h] = Cardinality(On(attached, h))

\* A host thread posts only semaphores of actions whose thread was created:
\* actions linked to a host by the parser have no thread until the reload ends.
PostsReachThreads ==
    \A h \in Hosts : hpc[h] = "work" => \A a \in On(attached, h) : ~NoThread(a)

\* host_del waits for a thread that waits for the lock host_del's caller holds.
Stuck == mpc = "waitexit" /\ \E a \in victim : apc[a] \in {"start", "lock"}

\* A new action is run by its host's thread (ACT_FORCE), also when the post that
\* ends the reload is consumed while the lock is still held; given that no
\* reload gets stuck and no host thread exits under its actions.
Forced(a) == a \in cur /\ force[a]
ForcedRuns ==
    \A a \in Actions : []<>(~Forced(a) \/ mpc = "exited" \/ Stuck \/ orphans # {})

\* A host no rule uses any more loses its thread and its place in thread_list,
\* even while a reload is stuck: host threads never block on main_lock.
HostsReaped ==
    \A h \in Hosts : []<>(h \notin listed \/ refcnt[h] > 0 \/ mpc = "exited")

\* SIGTERM, once the merge thread has set merge_state, ends the program, given
\* that no reload gets stuck.
Dying == mstate = "dying" /\ mpc \notin {"threads", "sem", "begin"}
TermStops ==
    /\ [][Dying => Dying']_vars
    /\ []<>(~Dying \/ mpc = "exited" \/ Stuck)

\* "should cause any associated thread to exit": host_del's wait for the thread
\* it told to exit ends.
HostDelReturns == \A a \in Actions : a \in victim ~> a \notin victim

\* The three together: what the lists and counters say of the threads.
Consistent == TypeOK /\ RefcntExact /\ PostsReachThreads

\* The way out of check_action touches neither another thread's lock nor an
\* action that merge_config has freed.
NoStrayAccess == UnlockHarmless /\ FreedUntouched

\* What the lists and counters say of the threads is right, and the way out of
\* check_action touches neither another thread's lock nor an action that
\* merge_config has freed.
ThreadsRight == Consistent /\ NoStrayAccess

\* Threads that are not needed any more end, and so does the program.
ThreadsEnd == HostsReaped /\ TermStops
===============================================================================
