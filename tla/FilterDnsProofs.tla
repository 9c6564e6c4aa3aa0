--------------------------- MODULE FilterDnsProofs ---------------------------
(***************************************************************************)
(* The threads of filterdns for any set of rules and host names and any    *)
(* sequence of reloads and signals: the reference counts are exact, a host *)
(* thread posts only to actions with a thread, the unlock at the end of    *)
(* check_action meets the merge thread's write lock, and merge_config      *)
(* frees no action whose thread still runs.                                *)
(***************************************************************************)
EXTENDS FilterDns, FiniteSetTheorems, TLAPS

\* The two action lists are disjoint, the second exists only while the merge
\* thread clears it, and host_del waits for one action of it at a time.
Lists ==
    /\ cur \cap todel = {}
    /\ todel # {} => mpc \in {"del", "waitexit"}
    /\ IF mpc = "waitexit" THEN \E v \in todel : victim = {v} ELSE victim = {}

\* An action has a host pointer until host_del clears it.
Linked == attached \cup orphans = cur \cup (todel \ victim)

\* A thread leaves its loop only when host_del waits for it, and posts exit_sem
\* as it ends.
Leaving ==
    \A a \in Actions : /\ apc[a] = "exit" => a \in victim
                       /\ exitSem[a] => a \in victim /\ NoThread(a)

\* Outside of a reload every rule has its thread; after the last one there are
\* no rules left.
Threaded ==
    /\ mpc \notin {"threads", "del", "waitexit", "create"} => \A a \in cur : ~NoThread(a)
    /\ mpc = "threads" => /\ \A a \in Actions : apc[a] = "none"
                          /\ \A h \in Hosts : hpc[h] = "none"
    /\ mpc = "match" => ~stopping
    /\ mpc = "sleep2" => stopping
    /\ mpc \in {"del", "waitexit", "sleep2"} /\ stopping => cur = {}

\* main_lock excludes the readers while the merge thread has it.
Exclusion == WriteLocked => ~ReadLocked

\* The inductive invariant.
ThreadInv == ThreadsRight /\ Lists /\ Linked /\ Leaving /\ Threaded /\ Exclusion

-----------------------------------------------------------------------------
(* The reference counts *)

\* The actions of a host are a finite set.
LEMMA OnFinite ==
    ASSUME NEW S, S \subseteq Actions, NEW h
    PROVE  IsFiniteSet(On(S, h)) /\ Cardinality(On(S, h)) \in Nat
<1>1. IsFiniteSet(On(S, h))
  BY FiniteAssumption, FS_Subset DEF On
<1>2. QED
  BY <1>1, FS_CardinalityType

\* A host that gains actions it did not have gains as many references.
LEMMA OnUnion ==
    ASSUME NEW S, S \subseteq Actions, NEW T, T \subseteq Actions, S \cap T = {}, NEW h
    PROVE  Cardinality(On(S \cup T, h)) = Cardinality(On(S, h)) + Cardinality(On(T, h))
<1>1. On(S \cup T, h) = On(S, h) \cup On(T, h) /\ On(S, h) \cap On(T, h) = {}
  BY DEF On
<1>2. /\ IsFiniteSet(On(S, h)) /\ IsFiniteSet(On(T, h))
      /\ Cardinality(On(S, h)) \in Nat /\ Cardinality(On(T, h)) \in Nat
  BY OnFinite
<1>3. Cardinality(On(S, h) \cap On(T, h)) = 0
  BY <1>1, FS_EmptySet
<1>4. Cardinality(On(S, h) \cup On(T, h))
         = Cardinality(On(S, h)) + Cardinality(On(T, h)) - Cardinality(On(S, h) \cap On(T, h))
  BY <1>2, FS_Union
<1>5. Cardinality(On(S, h) \cup On(T, h)) = Cardinality(On(S, h)) + Cardinality(On(T, h))
  BY <1>2, <1>3, <1>4
<1>6. QED
  BY <1>1, <1>5

\* A host that loses one of its actions loses one reference, others none.
LEMMA OnRemove ==
    ASSUME NEW S, S \subseteq Actions, NEW a \in S, NEW h
    PROVE  Cardinality(On(S \ {a}, h)) =
               IF HostOf[a] = h THEN Cardinality(On(S, h)) - 1 ELSE Cardinality(On(S, h))
<1>1. CASE HostOf[a] = h
  <2>1. On(S \ {a}, h) = On(S, h) \ {a} /\ a \in On(S, h)
    BY <1>1 DEF On
  <2>2. QED
    BY <1>1, <2>1, OnFinite, FS_RemoveElement, Zenon
<1>2. CASE HostOf[a] # h
  <2>1. On(S \ {a}, h) = On(S, h)
    BY <1>2 DEF On
  <2>2. QED
    BY <1>2, <2>1
<1>3. QED
  BY <1>1, <1>2

-----------------------------------------------------------------------------
(* One lemma for each kind of step *)

\* A step of check_action changes the control point of its own thread, takes the
\* read lock only when the merge thread neither has nor awaits main_lock, and
\* leaves the loop only without a host pointer.
LEMMA ActionThreadSteps ==
    ASSUME ThreadInv, NEW a \in Actions, ActionThread(a)
    PROVE  /\ UNCHANGED <<mergeVars, linkVars, hostVars>>
           /\ asem' \in [Actions -> Nat] /\ force' \in [Actions -> BOOLEAN]
           /\ \E pc \in ActionPoints :
                 /\ apc' = [apc EXCEPT ![a] = pc]
                 /\ \/ apc[a] \in {"start", "work"} /\ pc = "wait"
                    \/ apc[a] = "wait" /\ pc = "lock"
                    \/ apc[a] = "wait" /\ pc = "exit" /\ a \notin attached \cup orphans
                    \/ apc[a] = "lock" /\ pc = "work" /\ ~ReadersWait
                    \/ apc[a] = "exit" /\ pc = "last"
                    \/ apc[a] = "last" /\ pc = "none"
                 /\ exitSem' = [exitSem EXCEPT ![a] = @ \/ pc = "last"]
<1>0. TypeOK
  BY DEF ThreadInv, ThreadsRight, Consistent
<1>1. CASE ActionStart(a)
  BY <1>0, <1>1 DEF ActionStart, TypeOK, ActionPoints
<1>2. CASE ActionWake(a)
  <2>1. asem' \in [Actions -> Nat] /\ force' = force /\ exitSem' = [exitSem EXCEPT ![a] = @]
    BY <1>0, <1>2 DEF ActionWake, TypeOK
  <2>2. CASE a \in attached \cup orphans
    BY <1>0, <1>2, <2>1, <2>2, Zenon DEF ActionWake, TypeOK, ActionPoints
  <2>3. CASE a \notin attached \cup orphans
    BY <1>0, <1>2, <2>1, <2>3, Zenon DEF ActionWake, TypeOK, ActionPoints
  <2>4. QED
    BY <2>2, <2>3
<1>3. CASE ActionLock(a)
  BY <1>0, <1>3 DEF ActionLock, TypeOK, ActionPoints
<1>4. CASE ActionWork(a)
  BY <1>0, <1>4 DEF ActionWork, TypeOK, ActionPoints
<1>5. CASE ActionExit(a)
  BY <1>0, <1>5, Zenon DEF ActionExit, TypeOK, ActionPoints
<1>6. CASE ActionLast(a)
  BY <1>0, <1>6 DEF ActionLast, TypeOK, ActionPoints
<1>7. QED
  BY <1>1, <1>2, <1>3, <1>4, <1>5, <1>6 DEF ActionThread

\* An action's thread waits, wakes, runs or ends.
LEMMA ActionThreadKeeps ==
    ASSUME ThreadInv, NEW a \in Actions, ActionThread(a)
    PROVE  ThreadInv'
<1>0. /\ TypeOK /\ RefcntExact /\ PostsReachThreads /\ UnlockHarmless /\ FreedUntouched
      /\ Lists /\ Linked /\ Leaving /\ Threaded /\ Exclusion
  BY DEF ThreadInv, ThreadsRight, Consistent, NoStrayAccess
<1>1. /\ UNCHANGED <<mpc, mstate, msem, stopping, cur, todel, victim, nsig>>
      /\ UNCHANGED <<attached, orphans, listed, refcnt, hpc, hsem>>
      /\ asem' \in [Actions -> Nat] /\ force' \in [Actions -> BOOLEAN]
  BY ActionThreadSteps DEF mergeVars, linkVars, hostVars
<1>2. PICK pc \in ActionPoints :
         /\ apc' = [apc EXCEPT ![a] = pc]
         /\ \/ apc[a] \in {"start", "work"} /\ pc = "wait"
            \/ apc[a] = "wait" /\ pc = "lock"
            \/ apc[a] = "wait" /\ pc = "exit" /\ a \notin attached \cup orphans
            \/ apc[a] = "lock" /\ pc = "work" /\ ~ReadersWait
            \/ apc[a] = "exit" /\ pc = "last"
            \/ apc[a] = "last" /\ pc = "none"
         /\ exitSem' = [exitSem EXCEPT ![a] = @ \/ pc = "last"]
  BY ActionThreadSteps
<1>3. TypeOK'
  BY <1>0, <1>1, <1>2 DEF TypeOK
<1>4. apc'[a] = pc /\ \A b \in Actions \ {a} : apc'[b] = apc[b] /\ exitSem'[b] = exitSem[b]
  BY <1>0, <1>2 DEF TypeOK
<1>5. RefcntExact' /\ Lists' /\ Linked'
  BY <1>0, <1>1 DEF RefcntExact, On, Lists, Linked
<1>6. FreedUntouched'
  BY <1>0, <1>1, <1>2, <1>4 DEF FreedUntouched, NoThread
\* A thread that runs belongs to a rule of one of the lists; without a host
\* pointer it is the one host_del waits for.
<1>7. apc[a] = "wait" /\ a \notin attached \cup orphans => a \in victim
  BY <1>0 DEF FreedUntouched, NoThread, Linked
<1>8. Leaving'
  <2> SUFFICES ASSUME NEW b \in Actions
               PROVE  /\ apc'[b] = "exit" => b \in victim
                      /\ exitSem'[b] => b \in victim /\ apc'[b] \in {"none", "last"}
    BY <1>1 DEF Leaving, NoThread
  <2>1. CASE b # a
    BY <1>0, <1>4, <2>1 DEF Leaving, NoThread
  <2>2. CASE b = a
    <3>1. exitSem'[a] <=> exitSem[a] \/ pc = "last"
      BY <1>0, <1>2, Zenon DEF TypeOK
    <3>2. QED
      BY <1>0, <1>2, <1>4, <1>7, <2>2, <3>1 DEF Leaving, NoThread
  <2>3. QED
    BY <2>1, <2>2
<1>9. UnlockHarmless'
  BY <1>1, <1>3, <1>8, <1>5 DEF UnlockHarmless, Leaving, Lists, WriteLocked
<1>10. apc[a] = "exit" => WriteLocked /\ a \notin cur
  BY <1>0 DEF UnlockHarmless, Leaving, Lists, TypeOK
<1>11. PostsReachThreads'
  <2>1. CASE apc[a] = "exit"
    BY <1>0, <1>1, <1>10, <2>1 DEF Exclusion, ReadLocked, PostsReachThreads
  <2>2. CASE apc[a] # "exit"
    BY <1>0, <1>1, <1>2, <1>4, <2>2 DEF PostsReachThreads, NoThread, On, TypeOK
  <2>3. QED
    BY <2>1, <2>2
<1>12. Threaded'
  BY <1>0, <1>1, <1>2, <1>4, <1>10 DEF Threaded, NoThread, TypeOK
<1>13. Exclusion'
  BY <1>0, <1>1, <1>2, <1>4 DEF Exclusion, WriteLocked, ReadLocked, ReadersWait
<1>14. QED
  BY <1>3, <1>5, <1>6, <1>8, <1>9, <1>11, <1>12, <1>13
     DEF ThreadInv, ThreadsRight, Consistent, NoStrayAccess

\* A step of check_hostname other than its way out changes the control point of
\* its own thread, takes the read lock only when the merge thread neither has nor
\* awaits main_lock, and posts semaphores.
LEMMA HostThreadSteps ==
    ASSUME ThreadInv, NEW h \in Hosts, HostThread(h), ~HostOut(h)
    PROVE  /\ UNCHANGED <<mergeVars, linkVars, apc, exitSem, force>>
           /\ asem' \in [Actions -> Nat] /\ hsem' \in [Hosts -> Nat]
           /\ \E pc \in HostPoints :
                 /\ hpc' = [hpc EXCEPT ![h] = pc]
                 /\ pc = "work" => ~ReadersWait
                 /\ hpc[h] # "none"
<1>0. TypeOK
  BY DEF ThreadInv, ThreadsRight, Consistent
<1>1. CASE HostStart(h)
  BY <1>0, <1>1 DEF HostStart, actVars, TypeOK, HostPoints
<1>2. CASE HostCheck(h)
  <2>1. CASE refcnt[h] = 0
    BY <1>0, <1>2, <2>1 DEF HostCheck, actVars, TypeOK, HostPoints
  <2>2. CASE refcnt[h] # 0
    BY <1>0, <1>2, <2>2 DEF HostCheck, actVars, TypeOK, HostPoints
  <2>3. QED
    BY <2>1, <2>2
<1>3. CASE HostTry(h)
  <2>1. CASE ReadersWait
    BY <1>0, <1>3, <2>1 DEF HostTry, actVars, TypeOK, HostPoints
  <2>2. CASE ~ReadersWait
    BY <1>0, <1>3, <2>2 DEF HostTry, actVars, TypeOK, HostPoints
  <2>3. QED
    BY <2>1, <2>2
<1>4. CASE HostWake(h)
  BY <1>0, <1>4 DEF HostWake, actVars, TypeOK, HostPoints
<1>5. ASSUME NEW update \in BOOLEAN, HostWork(h, update)
      PROVE  /\ UNCHANGED <<mergeVars, linkVars, apc, exitSem, force, hsem>>
             /\ asem' \in [Actions -> Nat]
             /\ hpc' = [hpc EXCEPT ![h] = "sleep"] /\ hpc[h] = "work"
  BY <1>0, <1>5, BoundAssumption DEF HostWork, Post, TypeOK
<1>6. QED
  BY <1>0, <1>1, <1>2, <1>3, <1>4, <1>5 DEF HostThread, TypeOK, HostPoints

\* A host's thread waits, wakes, resolves or ends.
LEMMA HostThreadKeeps ==
    ASSUME ThreadInv, NEW h \in Hosts, HostThread(h), ~HostOut(h)
    PROVE  ThreadInv'
<1>0. /\ TypeOK /\ RefcntExact /\ PostsReachThreads /\ UnlockHarmless /\ FreedUntouched
      /\ Lists /\ Linked /\ Leaving /\ Threaded /\ Exclusion
  BY DEF ThreadInv, ThreadsRight, Consistent, NoStrayAccess
<1>1. /\ UNCHANGED <<mpc, mstate, msem, stopping, cur, todel, victim, nsig>>
      /\ UNCHANGED <<attached, orphans, listed, refcnt, apc, exitSem, force>>
      /\ asem' \in [Actions -> Nat] /\ hsem' \in [Hosts -> Nat]
  BY HostThreadSteps DEF mergeVars, linkVars
<1>2. PICK pc \in HostPoints :
         /\ hpc' = [hpc EXCEPT ![h] = pc]
         /\ pc = "work" => ~ReadersWait
         /\ hpc[h] # "none"
  BY HostThreadSteps
<1>3. TypeOK'
  BY <1>0, <1>1, <1>2 DEF TypeOK
<1>4. hpc'[h] = pc /\ \A g \in Hosts \ {h} : hpc'[g] = hpc[g]
  BY <1>0, <1>2 DEF TypeOK
<1>5. RefcntExact' /\ Lists' /\ Linked' /\ FreedUntouched' /\ Leaving' /\ UnlockHarmless'
  BY <1>0, <1>1
     DEF RefcntExact, On, Lists, Linked, FreedUntouched, Leaving, NoThread, UnlockHarmless,
         WriteLocked
<1>6. Threaded'
  BY <1>0, <1>1, <1>2, <1>4 DEF Threaded, NoThread
<1>7. PostsReachThreads'
  \* Outside of a reload the actions attached to a host are rules with a thread.
  <2>1. ~ReadersWait => \A a \in attached : ~NoThread(a)
    BY <1>0, <1>2 DEF ReadersWait, WriteLocked, Lists, Linked, Threaded, TypeOK
  <2>2. QED
    BY <1>0, <1>1, <1>2, <1>4, <2>1 DEF PostsReachThreads, NoThread, On
<1>8. Exclusion'
  BY <1>0, <1>1, <1>2, <1>4 DEF Exclusion, WriteLocked, ReadLocked, ReadersWait
<1>9. QED
  BY <1>3, <1>5, <1>6, <1>7, <1>8 DEF ThreadInv, ThreadsRight, Consistent, NoStrayAccess

\* The way out of check_hostname: the actions of the host become orphans, and the
\* host's next incarnation has none.
LEMMA HostOutKeeps ==
    ASSUME ThreadInv, NEW h \in Hosts, HostOut(h)
    PROVE  ThreadInv'
<1>0. /\ TypeOK /\ RefcntExact /\ PostsReachThreads /\ UnlockHarmless /\ FreedUntouched
      /\ Lists /\ Linked /\ Leaving /\ Threaded /\ Exclusion
  BY DEF ThreadInv, ThreadsRight, Consistent, NoStrayAccess
<1>1. /\ UNCHANGED <<mpc, mstate, msem, stopping, cur, todel, victim, nsig>>
      /\ UNCHANGED <<apc, asem, exitSem, force>>
      /\ hpc[h] = "out" /\ hpc' = [hpc EXCEPT ![h] = "none"]
      /\ attached' = attached \ On(attached, h) /\ orphans' = orphans \cup On(attached, h)
      /\ listed' = listed \ {h}
      /\ refcnt' = [refcnt EXCEPT ![h] = 0] /\ hsem' = [hsem EXCEPT ![h] = 0]
  BY DEF HostOut, mergeVars, actVars
<1>2. On(attached, h) \subseteq attached
  BY DEF On
<1>3. TypeOK'
  BY <1>0, <1>1, <1>2 DEF TypeOK, HostPoints
<1>4. hpc'[h] = "none" /\ \A g \in Hosts \ {h} : hpc'[g] = hpc[g]
  BY <1>0, <1>1 DEF TypeOK
<1>5. RefcntExact'
  <2> SUFFICES ASSUME NEW g \in Hosts PROVE refcnt'[g] = Cardinality(On(attached', g))
    BY DEF RefcntExact
  <2>1. CASE g = h
    <3>1. On(attached', g) = {} /\ refcnt'[g] = 0
      BY <1>0, <1>1, <2>1 DEF On, TypeOK
    <3>2. QED
      BY <3>1, FS_EmptySet
  <2>2. CASE g # h
    <3>1. On(attached', g) = On(attached, g) /\ refcnt'[g] = refcnt[g]
      BY <1>0, <1>1, <2>2 DEF On, TypeOK
    <3>2. QED
      BY <1>0, <3>1 DEF RefcntExact
  <2>3. QED
    BY <2>1, <2>2
<1>6. Lists' /\ FreedUntouched' /\ Leaving' /\ UnlockHarmless'
  BY <1>0, <1>1 DEF Lists, FreedUntouched, Leaving, NoThread, UnlockHarmless, WriteLocked
<1>7. Linked'
  BY <1>0, <1>1, <1>2 DEF Linked
<1>8. Threaded'
  BY <1>0, <1>1, <1>4 DEF Threaded, NoThread
<1>9. PostsReachThreads'
  BY <1>0, <1>1, <1>4 DEF PostsReachThreads, NoThread, On
<1>10. Exclusion'
  BY <1>0, <1>1, <1>4 DEF Exclusion, WriteLocked, ReadLocked
<1>11. QED
  BY <1>3, <1>5, <1>6, <1>7, <1>8, <1>9, <1>10
     DEF ThreadInv, ThreadsRight, Consistent, NoStrayAccess

\* The steps of main, of the signal handler and of merge_config that only move
\* on, with the lists, the threads and the counts as they are.
LEMMA ControlKeeps ==
    ASSUME ThreadInv,
           \/ MainMerge \/ \E term \in BOOLEAN : Signal(term)
           \/ MergeBegin \/ MergeWake \/ MergeQueue \/ MergeParseFails
           \/ MergeCleared \/ MergeExit
    PROVE  ThreadInv'
<1>0. /\ TypeOK /\ RefcntExact /\ PostsReachThreads /\ UnlockHarmless /\ FreedUntouched
      /\ Lists /\ Linked /\ Leaving /\ Threaded /\ Exclusion
  BY DEF ThreadInv, ThreadsRight, Consistent, NoStrayAccess
<1>1. /\ UNCHANGED <<cur, todel, victim, attached, orphans, listed, refcnt>>
      /\ UNCHANGED <<apc, asem, exitSem, force, hpc, hsem>>
  BY DEF MainMerge, Signal, MergeBegin, MergeWake, MergeQueue, MergeParseFails,
         MergeCleared, MergeExit, linkVars, actVars, hostVars
<1>2. \/ mpc' = mpc /\ stopping' = stopping
      \/ /\ mpc \in {"sem", "begin", "idle", "lock"}
         /\ mpc' \in {"begin", "idle", "lock", "queued"}
      \/ mpc \in {"match", "sleep2"} /\ mpc' = "exited"
      \/ /\ mpc = "del" /\ todel = {} /\ stopping' = stopping
         /\ mpc' = IF stopping THEN "sleep2" ELSE "create"
  BY DEF MainMerge, Signal, MergeBegin, MergeWake, MergeQueue, MergeParseFails,
         MergeCleared, MergeExit
<1>3. TypeOK'
  <2>1. /\ mstate' \in {"stopped", "starting", "running", "dying"}
        /\ nsig' \in 0..MaxSignals
        /\ stopping' = stopping \/ stopping' = (mstate = "dying")
    BY <1>0, BoundAssumption
       DEF TypeOK, MainMerge, Signal, MergeBegin, MergeWake, MergeQueue, MergeParseFails,
           MergeCleared, MergeExit
  <2>2. msem' \in Nat
    BY <1>0, BoundAssumption
       DEF TypeOK, Post, MainMerge, Signal, MergeBegin, MergeWake, MergeQueue,
           MergeParseFails, MergeCleared, MergeExit
  <2>3. mpc' \in MergePoints
    BY <1>0, <1>2 DEF TypeOK, MergePoints
  <2>4. QED
    BY <1>0, <1>1, <2>1, <2>2, <2>3, Zenon DEF TypeOK
<1>4. RefcntExact' /\ PostsReachThreads' /\ Linked' /\ FreedUntouched' /\ Leaving'
  BY <1>0, <1>1
     DEF RefcntExact, On, PostsReachThreads, Linked, FreedUntouched, Leaving, NoThread
<1>5. Lists'
  BY <1>0, <1>1, <1>2 DEF Lists
<1>6. UnlockHarmless'
  BY <1>4, <1>5 DEF UnlockHarmless, Leaving, Lists, WriteLocked
<1>7. Threaded'
  BY <1>0, <1>1, <1>2 DEF Threaded, NoThread
<1>8. Exclusion'
  BY <1>0, <1>1, <1>2 DEF Exclusion, WriteLocked, ReadLocked
<1>9. QED
  BY <1>3, <1>4, <1>5, <1>6, <1>7, <1>8
     DEF ThreadInv, ThreadsRight, Consistent, NoStrayAccess

\* pthread_rwlock_wrlock: nobody holds the lock for reading; after the loop all
\* rules become rules to delete.
LEMMA MergeLockKeeps ==
    ASSUME ThreadInv, MergeLock
    PROVE  ThreadInv'
<1>0. /\ TypeOK /\ RefcntExact /\ PostsReachThreads /\ UnlockHarmless /\ FreedUntouched
      /\ Lists /\ Linked /\ Leaving /\ Threaded /\ Exclusion
  BY DEF ThreadInv, ThreadsRight, Consistent, NoStrayAccess
<1>1. /\ UNCHANGED <<mstate, msem, stopping, victim, nsig>>
      /\ UNCHANGED <<attached, orphans, listed, refcnt>>
      /\ UNCHANGED <<apc, asem, exitSem, force, hpc, hsem>>
      /\ mpc \in {"lock", "queued"} /\ ~ReadLocked
  BY DEF MergeLock, linkVars, actVars, hostVars
<1>2. \/ ~stopping /\ mpc' = "match" /\ cur' = cur /\ todel' = todel
      \/ stopping /\ mpc' = "del" /\ todel' = cur /\ cur' = {}
  BY DEF MergeLock
<1>3. todel = {} /\ victim = {}
  BY <1>0, <1>1 DEF Lists
<1>4. TypeOK'
  BY <1>0, <1>1, <1>2, <1>3 DEF TypeOK, MergePoints
<1>5. Lists' /\ Linked'
  BY <1>0, <1>1, <1>2, <1>3 DEF Lists, Linked
<1>6. RefcntExact' /\ PostsReachThreads' /\ FreedUntouched' /\ Leaving'
  BY <1>0, <1>1, <1>2, <1>3
     DEF RefcntExact, On, PostsReachThreads, FreedUntouched, Leaving, NoThread
<1>7. UnlockHarmless' /\ Exclusion'
  BY <1>1, <1>2 DEF UnlockHarmless, Exclusion, WriteLocked, ReadLocked
<1>8. Threaded'
  BY <1>0, <1>1, <1>2 DEF Threaded, NoThread
<1>9. QED
  BY <1>4, <1>5, <1>6, <1>7, <1>8 DEF ThreadInv, ThreadsRight, Consistent, NoStrayAccess

\* main and the end of a reload create the threads that are missing.
LEMMA CreateKeeps ==
    ASSUME ThreadInv, MainThreads \/ MergeCreate
    PROVE  ThreadInv'
<1>0. /\ TypeOK /\ RefcntExact /\ PostsReachThreads /\ UnlockHarmless /\ FreedUntouched
      /\ Lists /\ Linked /\ Leaving /\ Threaded /\ Exclusion
  BY DEF ThreadInv, ThreadsRight, Consistent, NoStrayAccess
<1>1. /\ UNCHANGED <<mstate, msem, stopping, cur, todel, victim, nsig>>
      /\ UNCHANGED <<attached, orphans, listed, refcnt>>
      /\ mpc \in {"threads", "create"} /\ mpc' \in {"sem", "idle"}
      /\ hsem' \in [Hosts -> Nat]
  BY <1>0, BoundAssumption DEF MainThreads, MergeCreate, linkVars, Post, TypeOK
<1>2. PICK as \in SUBSET cur, hs \in SUBSET listed :
         CreateThreads(as, hs) /\ \A a \in cur : a \in as \/ ~NoThread(a)
  BY DEF MainThreads, MergeCreate
<1>3. /\ apc' \in [Actions -> ActionPoints] /\ hpc' \in [Hosts -> HostPoints]
      /\ force' \in [Actions -> BOOLEAN] /\ asem' \in [Actions -> Nat]
      /\ exitSem' \in [Actions -> BOOLEAN]
  BY <1>0, <1>2, Zenon DEF CreateThreads, TypeOK, ActionPoints, HostPoints
<1>4. TypeOK'
  BY <1>0, <1>1, <1>3 DEF TypeOK, MergePoints
<1>5. RefcntExact' /\ Lists' /\ Linked'
  BY <1>0, <1>1 DEF RefcntExact, On, Lists, Linked
<1>6. /\ \A a \in Actions : apc'[a] = IF a \in as THEN "start" ELSE apc[a]
      /\ \A a \in Actions : exitSem'[a] = IF a \in as THEN FALSE ELSE exitSem[a]
      /\ \A h \in Hosts : hpc'[h] = IF h \in hs THEN "start" ELSE hpc[h]
  BY <1>2 DEF CreateThreads
<1>7. FreedUntouched' /\ Leaving'
  BY <1>0, <1>1, <1>6, Zenon DEF FreedUntouched, Leaving, NoThread
<1>8. UnlockHarmless'
  BY <1>5, <1>7 DEF UnlockHarmless, Leaving, Lists, WriteLocked
<1>9. \A a \in cur : ~NoThread(a)'
  BY <1>0, <1>2, <1>6, Zenon DEF NoThread, TypeOK
<1>10. Threaded'
  BY <1>0, <1>1, <1>9, Zenon DEF Threaded
<1>11. PostsReachThreads'
  <2>1. attached' \subseteq cur
    BY <1>0, <1>1 DEF Lists, Linked
  <2>2. QED
    BY <1>9, <2>1, Zenon DEF PostsReachThreads, On
<1>12. Exclusion'
  BY <1>1 DEF Exclusion, WriteLocked
<1>13. QED
  BY <1>4, <1>5, <1>7, <1>8, <1>10, <1>11, <1>12
     DEF ThreadInv, ThreadsRight, Consistent, NoStrayAccess

\* A new configuration is parsed: its new rules are linked to their hosts, and
\* the rules it lacks are the ones to delete.
LEMMA MergeMatchKeeps ==
    ASSUME ThreadInv, NEW conf \in SUBSET Actions, MergeMatch(conf)
    PROVE  ThreadInv'
<1>0. /\ TypeOK /\ RefcntExact /\ PostsReachThreads /\ UnlockHarmless /\ FreedUntouched
      /\ Lists /\ Linked /\ Leaving /\ Threaded /\ Exclusion
  BY DEF ThreadInv, ThreadsRight, Consistent, NoStrayAccess
<1>1. /\ UNCHANGED <<mstate, msem, stopping, victim, nsig, orphans>>
      /\ UNCHANGED <<apc, asem, exitSem, force, hpc>>
      /\ mpc = "match" /\ mpc' = "del" /\ cur' = conf /\ todel' = cur \ conf
      /\ attached' = attached \cup (conf \ cur)
  BY DEF MergeMatch, actVars
<1>2. hsem' \in [Hosts -> Nat] /\ listed' \subseteq Hosts
  <2>1. hsem \in [Hosts -> Nat] /\ listed \subseteq Hosts
    BY <1>0 DEF TypeOK
  <2>2. \A n \in Nat : Post(n) \in Nat
    BY DEF Post
  <2>3. hsem' \in [Hosts -> Nat]
    BY <2>1, <2>2 DEF MergeMatch
  <2>4. listed' \subseteq Hosts
    BY <2>1, HostAssumption DEF MergeMatch
  <2>5. QED
    BY <2>3, <2>4
<1>3. todel = {} /\ victim = {} /\ attached \subseteq cur
  BY <1>0, <1>1 DEF Lists, Linked
<1>4. RefcntExact' /\ refcnt' \in [Hosts -> Nat]
  <2>0. refcnt' = [h \in Hosts |-> refcnt[h] + Cardinality(On(conf \ cur, h))]
    BY DEF MergeMatch
  <2> SUFFICES ASSUME NEW h \in Hosts
               PROVE  refcnt'[h] = Cardinality(On(attached', h)) /\ refcnt'[h] \in Nat
    BY <2>0, Zenon DEF RefcntExact
  <2>1. attached \subseteq Actions /\ conf \ cur \subseteq Actions /\ attached \cap (conf \ cur) = {}
    BY <1>0, <1>3 DEF TypeOK
  <2>2. Cardinality(On(attached', h))
           = Cardinality(On(attached, h)) + Cardinality(On(conf \ cur, h))
    BY <1>1, <2>1, OnUnion
  <2>3. refcnt[h] = Cardinality(On(attached, h)) /\ refcnt[h] \in Nat
    BY <1>0 DEF RefcntExact, TypeOK
  <2>4. Cardinality(On(conf \ cur, h)) \in Nat
    BY <2>1, OnFinite
  <2>5. refcnt'[h] = refcnt[h] + Cardinality(On(conf \ cur, h))
    BY <2>0
  <2>6. QED
    BY <2>2, <2>3, <2>4, <2>5
<1>5. TypeOK'
  BY <1>0, <1>1, <1>2, <1>3, <1>4 DEF TypeOK, MergePoints
<1>6. Lists' /\ Linked' /\ FreedUntouched' /\ Leaving'
  BY <1>0, <1>1, <1>3, Zenon DEF Lists, Linked, FreedUntouched, Leaving, NoThread
<1>7. UnlockHarmless' /\ Exclusion' /\ PostsReachThreads'
  BY <1>0, <1>1 DEF UnlockHarmless, Exclusion, WriteLocked, ReadLocked, PostsReachThreads
<1>8. Threaded'
  BY <1>0, <1>1 DEF Threaded
<1>9. QED
  BY <1>4, <1>5, <1>6, <1>7, <1>8 DEF ThreadInv, ThreadsRight, Consistent, NoStrayAccess

\* host_del takes the action off its host's list.
LEMMA MergeDelKeeps ==
    ASSUME ThreadInv, NEW a \in Actions, MergeDel(a)
    PROVE  ThreadInv'
<1>0. /\ TypeOK /\ RefcntExact /\ PostsReachThreads /\ UnlockHarmless /\ FreedUntouched
      /\ Lists /\ Linked /\ Leaving /\ Threaded /\ Exclusion
  BY DEF ThreadInv, ThreadsRight, Consistent, NoStrayAccess
<1>1. /\ UNCHANGED <<mstate, msem, stopping, cur, todel, nsig, listed>>
      /\ UNCHANGED <<apc, exitSem, force, hpc, hsem>>
      /\ mpc = "del" /\ mpc' = "waitexit" /\ a \in todel /\ victim' = {a}
      /\ attached' = attached \ {a} /\ orphans' = orphans \ {a}
  BY DEF MergeDel, hostVars
<1>2. asem' \in [Actions -> Nat]
  BY <1>0, BoundAssumption DEF MergeDel, Post, TypeOK
<1>3. victim = {} /\ a \notin cur
  BY <1>0, <1>1 DEF Lists
<1>4. RefcntExact' /\ refcnt' \in [Hosts -> Nat]
  <2>0. refcnt' = IF a \in attached THEN [refcnt EXCEPT ![HostOf[a]] = @ - 1] ELSE refcnt
    BY Zenon DEF MergeDel
  <2>1. CASE a \in attached
    <3>0. refcnt' = [h \in Hosts |-> IF h = HostOf[a] THEN refcnt[h] - 1 ELSE refcnt[h]]
      BY <1>0, <2>0, <2>1, Zenon DEF TypeOK
    <3> SUFFICES ASSUME NEW h \in Hosts
                 PROVE  refcnt'[h] = Cardinality(On(attached', h)) /\ refcnt'[h] \in Nat
      BY <3>0, Zenon DEF RefcntExact
    <3>1. attached \subseteq Actions /\ attached' \subseteq Actions
      BY <1>0, <1>1 DEF TypeOK
    <3>2. refcnt'[h] = IF HostOf[a] = h THEN refcnt[h] - 1 ELSE refcnt[h]
      BY <3>0
    <3>3. refcnt[h] = Cardinality(On(attached, h))
      BY <1>0 DEF RefcntExact
    <3>4. Cardinality(On(attached', h)) =
             IF HostOf[a] = h THEN Cardinality(On(attached, h)) - 1
                              ELSE Cardinality(On(attached, h))
      BY <1>1, <2>1, <3>1, OnRemove
    <3>5. Cardinality(On(attached', h)) \in Nat
      BY <3>1, OnFinite
    <3>6. QED
      BY <3>2, <3>3, <3>4, <3>5
  <2>2. CASE a \notin attached
    <3>1. attached' = attached /\ refcnt' = refcnt
      BY <1>1, <2>0, <2>2
    <3>2. QED
      BY <1>0, <3>1 DEF RefcntExact, On, TypeOK
  <2>3. QED
    BY <2>1, <2>2, Zenon
<1>5. TypeOK'
  BY <1>0, <1>1, <1>2, <1>4 DEF TypeOK, MergePoints
<1>6. Lists' /\ Linked' /\ FreedUntouched' /\ Leaving'
  BY <1>0, <1>1, <1>3 DEF Lists, Linked, FreedUntouched, Leaving, NoThread
<1>7. UnlockHarmless' /\ Exclusion' /\ PostsReachThreads'
  BY <1>0, <1>1 DEF UnlockHarmless, Exclusion, WriteLocked, ReadLocked, PostsReachThreads
<1>8. Threaded'
  BY <1>0, <1>1 DEF Threaded
<1>9. QED
  BY <1>4, <1>5, <1>6, <1>7, <1>8 DEF ThreadInv, ThreadsRight, Consistent, NoStrayAccess

\* exit_sem was posted, so the thread of the action that is freed has ended.
LEMMA MergeDeletedKeeps ==
    ASSUME ThreadInv, NEW a \in Actions, MergeDeleted(a)
    PROVE  ThreadInv'
<1>0. /\ TypeOK /\ RefcntExact /\ PostsReachThreads /\ UnlockHarmless /\ FreedUntouched
      /\ Lists /\ Linked /\ Leaving /\ Threaded /\ Exclusion
  BY DEF ThreadInv, ThreadsRight, Consistent, NoStrayAccess
<1>1. /\ UNCHANGED <<mstate, msem, stopping, cur, nsig, attached, orphans, listed, refcnt>>
      /\ UNCHANGED <<apc, asem, force, hpc>>
      /\ mpc = "waitexit" /\ mpc' = "del" /\ todel' = todel \ {a} /\ victim' = {}
      /\ exitSem' = [exitSem EXCEPT ![a] = FALSE]
  BY DEF MergeDeleted, linkVars
<1>2. victim = {a} /\ NoThread(a) /\ apc[a] # "exit"
  BY <1>0 DEF MergeDeleted, Lists, Leaving, NoThread
<1>3. TypeOK'
  <2>1. hsem' \in [Hosts -> Nat]
    BY <1>0, BoundAssumption, HostAssumption DEF MergeDeleted, Post, TypeOK
  <2>2. QED
    BY <1>0, <1>1, <2>1 DEF TypeOK, MergePoints
<1>4. RefcntExact' /\ Lists' /\ Linked'
  BY <1>0, <1>1, <1>2 DEF RefcntExact, On, Lists, Linked
<1>5. FreedUntouched'
  BY <1>0, <1>1, <1>2 DEF FreedUntouched, NoThread
<1>6. Leaving'
  <2>1. \A b \in Actions : exitSem'[b] => exitSem[b] /\ b # a
    BY <1>0, <1>1 DEF TypeOK
  <2>2. QED
    BY <1>0, <1>1, <1>2, <2>1 DEF Leaving, NoThread
<1>7. UnlockHarmless' /\ Exclusion' /\ PostsReachThreads'
  BY <1>0, <1>1 DEF UnlockHarmless, Exclusion, WriteLocked, ReadLocked, PostsReachThreads
<1>8. Threaded'
  BY <1>0, <1>1 DEF Threaded
<1>9. QED
  BY <1>3, <1>4, <1>5, <1>6, <1>7, <1>8 DEF ThreadInv, ThreadsRight, Consistent, NoStrayAccess

-----------------------------------------------------------------------------
\* For any rules and host names, however reloads, signals and the threads
\* interleave: reference counts are exact, posts reach threads, the stray unlock
\* of check_action is harmless and no action is freed under its thread.
THEOREM ThreadsAlwaysRight == Spec => []ThreadsRight
<1>1. Init => ThreadInv
  <2> SUFFICES ASSUME Init PROVE ThreadInv
    OBVIOUS
  <2>1. \A h \in Hosts : Cardinality(On(cur, h)) \in Nat
    BY OnFinite DEF Init
  <2>2. TypeOK
    <3>1. refcnt \in [Hosts -> Nat]
      BY <2>1 DEF Init
    <3>2. listed \subseteq Hosts
      BY HostAssumption DEF Init
    <3>3. /\ apc \in [Actions -> ActionPoints] /\ force \in [Actions -> BOOLEAN]
          /\ asem \in [Actions -> Nat] /\ exitSem \in [Actions -> BOOLEAN]
          /\ hpc \in [Hosts -> HostPoints] /\ hsem \in [Hosts -> Nat]
      BY DEF Init, ActionPoints, HostPoints
    <3>4. nsig \in 0..MaxSignals /\ mpc \in MergePoints
      BY BoundAssumption DEF Init, MergePoints
    <3>5. QED
      BY <3>1, <3>2, <3>3, <3>4, Zenon DEF Init, TypeOK
  <2>3. RefcntExact /\ PostsReachThreads /\ UnlockHarmless /\ FreedUntouched
    BY DEF Init, RefcntExact, PostsReachThreads, UnlockHarmless, FreedUntouched, NoThread
  <2>4. Lists /\ Linked /\ Leaving
    BY DEF Init, Lists, Linked, Leaving
  <2>5. Threaded /\ Exclusion
    BY DEF Init, Threaded, Exclusion, WriteLocked
  <2>6. QED
    BY <2>2, <2>3, <2>4, <2>5 DEF ThreadInv, ThreadsRight, Consistent, NoStrayAccess
<1>2. ThreadInv /\ [Next]_vars => ThreadInv'
  <2> SUFFICES ASSUME ThreadInv, [Next]_vars PROVE ThreadInv'
    OBVIOUS
  <2>1. CASE MainThreads \/ MergeCreate
    BY <2>1, CreateKeeps
  <2>2. CASE \/ MainMerge \/ \E term \in BOOLEAN : Signal(term)
             \/ MergeBegin \/ MergeWake \/ MergeQueue \/ MergeParseFails
             \/ MergeCleared \/ MergeExit
    BY <2>2, ControlKeeps
  <2>3. CASE MergeLock
    BY <2>3, MergeLockKeeps
  <2>4. CASE \E conf \in SUBSET Actions : MergeMatch(conf)
    BY <2>4, MergeMatchKeeps
  <2>5. CASE \E a \in Actions : MergeDel(a) \/ MergeDeleted(a)
    BY <2>5, MergeDelKeeps, MergeDeletedKeeps
  <2>6. CASE \E a \in Actions : ActionThread(a)
    BY <2>6, ActionThreadKeeps
  <2>7. ASSUME NEW h \in Hosts, HostThread(h) PROVE ThreadInv'
    <3>1. CASE HostOut(h)
      BY <3>1, HostOutKeeps
    <3>2. CASE ~HostOut(h)
      BY <2>7, <3>2, HostThreadKeeps
    <3>3. QED
      BY <3>1, <3>2
  <2>8. CASE UNCHANGED vars
    <3>1. UNCHANGED <<mergeVars, linkVars, actVars, hostVars>>
      BY <2>8 DEF vars
    <3>2. TypeOK' = TypeOK /\ RefcntExact' = RefcntExact
      BY <3>1, Zenon DEF mergeVars, linkVars, actVars, hostVars, TypeOK, RefcntExact, On
    <3>3. /\ PostsReachThreads' = PostsReachThreads /\ UnlockHarmless' = UnlockHarmless
          /\ FreedUntouched' = FreedUntouched /\ Leaving' = Leaving
      BY <3>1, Zenon
         DEF mergeVars, linkVars, actVars, hostVars, PostsReachThreads, On, UnlockHarmless,
             FreedUntouched, Leaving, NoThread, WriteLocked
    <3>4. Lists' = Lists /\ Linked' = Linked /\ Threaded' = Threaded /\ Exclusion' = Exclusion
      BY <3>1, Zenon
         DEF mergeVars, linkVars, actVars, hostVars, Lists, Linked, Threaded, NoThread,
             Exclusion, WriteLocked, ReadLocked
    <3>5. QED
      BY <3>2, <3>3, <3>4, Zenon DEF ThreadInv, ThreadsRight, Consistent, NoStrayAccess
  <2>9. QED
    BY <2>1, <2>2, <2>3, <2>4, <2>5, <2>6, <2>7, <2>8 DEF Next, MergeThread
<1>3. ThreadInv => ThreadsRight
  BY DEF ThreadInv
<1>4. QED
  BY <1>1, <1>2, <1>3, PTL DEF Spec
==============================================================================
