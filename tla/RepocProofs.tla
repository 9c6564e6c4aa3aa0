------------------------------ MODULE RepocProofs ------------------------------
(***************************************************************************)
(* FreeSense-repoc for any number of concurrent runs, any channels and     *)
(* documents and any number of faults: what is in place is usable, nothing *)
(* is lost without a fault, and no retained generation is rolled back.     *)
(* FreeSense-repo-setup for any number of runs and kills and any files: a  *)
(* run without another beside it leaves the link, pkg.conf and its exit    *)
(* status right. MCRepoc composes the two.                                 *)
(***************************************************************************)
EXTENDS MCRepoc, TLAPS

Record ==
    [pc : {"idle", "fetch", "live", "persist", "fallback", "local", "stage", "swap",
           "clear", "exit"},
     sel : Channels \cup {None}, live : Docs \cup {None, Malformed},
     staged : Dirs \cup {None}, backup : Dirs \cup {None}]

\* A directory pkg can use, or none.
GoodDir(d) == d \in Dirs \cup {None} /\ (d # None => d.marker \in d.names)

\* What validate_payload accepts for a selection.
Accepted(d, sel) == d \in Docs /\ Selection(d, sel) \in Usable(d)

\* What a run holds at each of its commands.
Right(x) ==
    /\ GoodDir(x.staged) /\ GoodDir(x.backup)
    /\ x.pc \in {"stage", "swap"} => x.staged # None
    /\ x.pc \notin {"swap", "clear", "exit"} => x.backup = None
    /\ x.pc = "live" => x.live # None
    /\ x.pc = "persist" => Accepted(x.live, x.sel)

RunsRight == run \in [Runs -> Record] /\ \A r \in Runs : Right(run[r])

\* The commands that only a run that syncs executes.
Syncing == {"fetch", "live", "persist", "fallback"}

\* Such a run holds the lock from its first command to its last.
Locking ==
    /\ \A r \in Syncs : run[r].pc # "idle" => lock = r
    /\ \A r \in Locals : run[r].pc \notin Syncing

\* A verdict holds until the document is retained: the lock keeps the retained
\* one what it was.
Current(x) ==
    x.pc = "persist" /\ cache # None => ~Regresses(x.live, cache, Selection(x.live, x.sel))

StillAccepted == \A r \in Syncs : Current(run[r])

\* While a run is about to remove its backup, the files are in place, or a run
\* that will put them back has them.
InPlaceOrHeld ==
    (faults = 0 /\ \E r \in Runs : run[r].pc = "clear") =>
        \/ dir # None
        \/ \E q \in Runs : run[q].pc \in {"swap", "exit"} /\ run[q].backup # None

\* The inductive invariant.
RepoInv ==
    /\ cache \in Docs \cup {None} /\ GoodDir(dir)
    /\ lock \in Syncs \cup {None} /\ faults \in 0..MaxFaults
    /\ RunsRight /\ Locking /\ StillAccepted /\ InPlaceOrHeld

-----------------------------------------------------------------------------
(* Facts about documents and directories *)

\* What the verdict on a document says about it.
LEMMA VerdictFacts ==
    ASSUME NEW d \in Docs \cup {Malformed}, NEW b, NEW sel \in Channels \cup {None},
           Verdict(d, b, sel) = "ok"
    PROVE  /\ Accepted(d, sel)
           /\ b # None => ~Regresses(d, b, Selection(d, sel))
BY DEF Verdict, Accepted

\* What is staged for an accepted document can be used.
LEMMA StagedGood ==
    ASSUME NEW d, NEW sel \in Channels \cup {None}, Accepted(d, sel)
    PROVE  GoodDir(Staged(d, sel)) /\ Staged(d, sel) # None
<1>1. Usable(d) \subseteq Published /\ d.default \in Published
  BY DEF Usable, Accepted, Docs
<1>2. sel \in Usable(d) \/ d.default \in Usable(d)
  BY DEF Accepted, Selection
<1>3. /\ Staged(d, sel) \in Dirs
      /\ Staged(d, sel).marker \in Staged(d, sel).names
  BY <1>1, <1>2 DEF Staged, Dirs
<1>4. QED
  BY <1>3, ChannelAssumption DEF GoodDir

-----------------------------------------------------------------------------
(* The steps of one run *)

\* A run goes on to its next command and leaves the retained document and the
\* lock alone.
LEMMA RunMoves ==
    ASSUME RepoInv, NEW r \in Runs, NEW x \in Record, run' = [run EXCEPT ![r] = x], Right(x),
           UNCHANGED <<cache, lock, faults>>, GoodDir(dir'),
           run[r].pc # "idle" \/ x.pc = "idle",
           r \in Locals => x.pc \notin Syncing, r \in Syncs => Current(x),
           InPlaceOrHeld'
    PROVE  RepoInv'
<1>1. run'[r] = x /\ \A q \in Runs \ {r} : run'[q] = run[q]
  BY DEF RepoInv, RunsRight
<1>2. RunsRight'
  <2>1. run' \in [Runs -> Record]
    BY DEF RepoInv, RunsRight
  <2>2. \A q \in Runs : Right(run'[q])
    BY <1>1 DEF RepoInv, RunsRight
  <2>3. QED
    BY <2>1, <2>2 DEF RunsRight
<1>3. Locking'
  BY <1>1 DEF RepoInv, Locking, Runs
<1>4. StillAccepted'
  BY <1>1 DEF RepoInv, StillAccepted, Current, Runs
<1>5. QED
  BY <1>2, <1>3, <1>4 DEF RepoInv, GoodDir

\* The files are where they were, and a run that holds a backup still does.
LEMMA StillHeld ==
    ASSUME RepoInv, NEW r \in Runs, NEW x \in Record, run' = [run EXCEPT ![r] = x],
           UNCHANGED <<dir, faults>>, x.pc # "clear",
           run[r].pc \in {"swap", "exit"} => x.pc = "exit" /\ x.backup = run[r].backup
    PROVE  InPlaceOrHeld'
<1>1. run'[r] = x /\ \A q \in Runs \ {r} : run'[q] = run[q]
  BY DEF RepoInv, RunsRight
<1>2. QED
  BY <1>1 DEF RepoInv, InPlaceOrHeld

\* A run that has no backup and changes nothing but itself.
LEMMA QuietMove ==
    ASSUME RepoInv, NEW r \in Runs, NEW x \in Record, run' = [run EXCEPT ![r] = x], Right(x),
           UNCHANGED <<cache, dir, lock, faults>>, run[r].pc # "idle", x.pc # "clear",
           run[r].pc \in {"swap", "exit"} => x.pc = "exit" /\ x.backup = run[r].backup,
           r \in Locals => x.pc \notin Syncing, r \in Syncs => Current(x)
    PROVE  RepoInv'
<1>1. InPlaceOrHeld'
  BY StillHeld, Zenon
<1>2. GoodDir(dir')
  BY DEF RepoInv
<1>3. QED
  BY <1>1, <1>2, RunMoves, Zenon

\* A document is staged.
LEMMA StageMoves ==
    ASSUME RepoInv, NEW r \in Runs, NEW d, Stage(r, d), Accepted(d, run[r].sel),
           run[r].pc \in {"persist", "fallback", "local"}
    PROVE  \E x \in Record : /\ run' = [run EXCEPT ![r] = x]
                             /\ Right(x) /\ x.pc = "stage"
<1> DEFINE x == [run[r] EXCEPT !.pc = "stage", !.live = None,
                               !.staged = Staged(d, run[r].sel)]
<1>1. run[r] \in Record /\ Right(run[r]) /\ run[r].sel \in Channels \cup {None}
  BY DEF RepoInv, RunsRight, Record
<1>2. GoodDir(Staged(d, run[r].sel)) /\ Staged(d, run[r].sel) # None
  BY <1>1, StagedGood
<1>3. x \in Record
  BY <1>1, <1>2, Zenon DEF Record, GoodDir
<1>4. /\ x.pc = "stage" /\ x.staged = Staged(d, run[r].sel)
      /\ x.backup = run[r].backup
  BY <1>1 DEF Record
<1>5. Right(x)
  BY <1>1, <1>2, <1>4 DEF Right
<1>6. run' = [run EXCEPT ![r] = x]
  BY Zenon DEF Stage, RepoInv, RunsRight
<1>7. QED
  BY <1>3, <1>4, <1>5, <1>6, Zenon

\* The first download of a run.
LEMMA FetchKeeps ==
    ASSUME RepoInv, NEW r \in Runs, Fetch(r)
    PROVE  RepoInv'
<1>1. run[r] \in Record /\ Right(run[r]) /\ run[r].pc = "fetch" /\ run[r].backup = None
  BY DEF RepoInv, RunsRight, Fetch, Right
<1>2. r \notin Locals
  BY <1>1 DEF RepoInv, Locking, Syncing
<1>3. UNCHANGED <<cache, dir, lock, faults>>
  BY DEF Fetch
<1>4. CASE Step(r, "fallback")
  <2> DEFINE x == [run[r] EXCEPT !.pc = "fallback"]
  <2>1. x \in Record /\ x.pc = "fallback" /\ Right(x)
    BY <1>1 DEF Record, Right
  <2>2. run' = [run EXCEPT ![r] = x]
    BY <1>4 DEF Step, RepoInv, RunsRight
  <2>3. Current(x)
    BY <2>1 DEF Current
  <2> HIDE DEF x
  <2>4. QED
    BY <1>1, <1>2, <1>3, <2>1, <2>2, <2>3, QuietMove, Zenon
<1>5. ASSUME NEW d \in Offered \cup {Malformed},
             run' = [run EXCEPT ![r].pc = "live", ![r].live = d]
      PROVE  RepoInv'
  <2> DEFINE x == [run[r] EXCEPT !.pc = "live", !.live = d]
  <2>0. d \in Docs \cup {Malformed} /\ d # None
    BY ChannelAssumption
  <2>1. x \in Record /\ x.pc = "live" /\ Right(x)
    BY <1>1, <2>0, Zenon DEF Record, Right
  <2>2. run' = [run EXCEPT ![r] = x]
    BY <1>5, Zenon DEF RepoInv, RunsRight
  <2>3. Current(x)
    BY <2>1 DEF Current
  <2> HIDE DEF x
  <2>4. QED
    BY <1>1, <1>2, <1>3, <2>1, <2>2, <2>3, QuietMove, Zenon
<1>6. QED
  BY <1>4, <1>5 DEF Fetch

\* The verdict is reached, and holds, under the lock.
LEMMA CheckLiveKeeps ==
    ASSUME RepoInv, NEW r \in Runs, CheckLive(r)
    PROVE  RepoInv'
<1>1. /\ run[r] \in Record /\ Right(run[r]) /\ run[r].pc = "live" /\ run[r].backup = None
      /\ run[r].live \in Docs \cup {Malformed} /\ run[r].sel \in Channels \cup {None}
  BY DEF RepoInv, RunsRight, CheckLive, Right, Record
<1>2. r \notin Locals
  BY <1>1 DEF RepoInv, Locking, Syncing
<1>3. UNCHANGED <<cache, dir, lock, faults>>
  BY DEF CheckLive
<1>4. CASE Verdict(run[r].live, cache, run[r].sel) = "ok" /\ Step(r, "persist")
  <2> DEFINE x == [run[r] EXCEPT !.pc = "persist"]
  <2>1. x \in Record /\ x.pc = "persist" /\ x.live = run[r].live /\ x.sel = run[r].sel
        /\ x.backup = None /\ x.staged = run[r].staged
    BY <1>1 DEF Record
  <2>2. run' = [run EXCEPT ![r] = x]
    BY <1>4 DEF Step, RepoInv, RunsRight
  <2>3. Accepted(run[r].live, run[r].sel)
        /\ (cache # None => ~Regresses(run[r].live, cache, Selection(run[r].live, run[r].sel)))
    BY <1>1, <1>4, VerdictFacts
  <2> HIDE DEF x
  <2>4. Right(x) /\ Current(x)
    BY <1>1, <2>1, <2>3 DEF Right, Current
  <2>5. QED
    BY <1>1, <1>2, <1>3, <2>1, <2>2, <2>4, QuietMove, Zenon
<1>5. ASSUME NEW pc \in {"fallback", "exit"},
             run' = [run EXCEPT ![r].pc = pc, ![r].live = None]
      PROVE  RepoInv'
  <2> DEFINE x == [run[r] EXCEPT !.pc = pc, !.live = None]
  <2>1. x \in Record /\ x.pc = pc /\ Right(x)
    BY <1>1, Zenon DEF Record, Right
  <2>2. run' = [run EXCEPT ![r] = x]
    BY <1>5, Zenon DEF RepoInv, RunsRight
  <2>3. Current(x)
    BY <2>1 DEF Current
  <2> HIDE DEF x
  <2>4. QED
    BY <1>1, <1>2, <1>3, <2>1, <2>2, <2>3, QuietMove, Zenon
<1>6. QED
  BY <1>4, <1>5 DEF CheckLive

\* A run that gives up, or goes on without a document.
LEMMA StepKeeps ==
    ASSUME RepoInv, NEW r \in Runs, NEW pc \in {"local", "exit"}, Step(r, pc),
           UNCHANGED <<cache, dir, lock, faults>>,
           run[r].pc \in {"fallback", "local", "stage"}
    PROVE  RepoInv'
<1> DEFINE x == [run[r] EXCEPT !.pc = pc]
<1>1. run[r] \in Record /\ Right(run[r]) /\ run[r].backup = None
  BY DEF RepoInv, RunsRight, Right
<1>2. x \in Record /\ x.pc = pc /\ x.backup = None /\ x.staged = run[r].staged
  BY <1>1 DEF Record
<1>3. run' = [run EXCEPT ![r] = x]
  BY DEF Step, RepoInv, RunsRight
<1> HIDE DEF x
<1>4. Right(x) /\ Current(x)
  BY <1>1, <1>2 DEF Right, Current
<1>5. QED
  BY <1>1, <1>2, <1>3, <1>4, QuietMove, Zenon DEF Syncing

\* Without a live document, the retained one or the image's is taken.
LEMMA FallbackKeeps ==
    ASSUME RepoInv, NEW r \in Runs, Fallback(r) \/ Local(r)
    PROVE  RepoInv'
<1>1. run[r] \in Record /\ run[r].pc \in {"fallback", "local"}
      /\ run[r].sel \in Channels \cup {None}
  BY DEF RepoInv, RunsRight, Record, Fallback, Local
<1>2. UNCHANGED <<cache, dir, lock, faults>>
  BY DEF Fallback, Local
<1>3. ASSUME NEW pc \in {"local", "exit"}, Step(r, pc) PROVE RepoInv'
  BY <1>1, <1>2, <1>3, StepKeeps
<1>4. ASSUME NEW d \in Docs, Verdict(d, None, run[r].sel) = "ok", Stage(r, d) PROVE RepoInv'
  <2>1. Accepted(d, run[r].sel)
    BY <1>1, <1>4, VerdictFacts
  <2>2. PICK x \in Record : run' = [run EXCEPT ![r] = x] /\ Right(x) /\ x.pc = "stage"
    BY <1>1, <1>4, <2>1, StageMoves
  <2>3. Current(x) /\ x.pc \notin Syncing
    BY <2>2 DEF Current, Syncing
  <2>4. QED
    BY <1>1, <1>2, <2>2, <2>3, QuietMove, Zenon
<1>5. Baked \in Docs /\ (cache # None => cache \in Docs)
  BY ChannelAssumption DEF RepoInv
<1>6. CASE Fallback(r)
  BY <1>3, <1>4, <1>5, <1>6 DEF Fallback
<1>7. CASE Local(r)
  BY <1>3, <1>4, <1>5, <1>7 DEF Local
<1>8. QED
  BY <1>6, <1>7

\* The directory becomes the run's backup.
LEMMA MoveAsideKeeps ==
    ASSUME RepoInv, NEW r \in Runs, MoveAside(r)
    PROVE  RepoInv'
<1>1. /\ run[r] \in Record /\ Right(run[r]) /\ run[r].pc = "stage"
      /\ run[r].backup = None /\ run[r].staged # None
  BY DEF RepoInv, RunsRight, MoveAside, Right
<1>2. UNCHANGED <<cache, lock, faults>>
  BY DEF MoveAside
<1>3. CASE Step(r, "exit") /\ UNCHANGED dir
  BY <1>1, <1>2, <1>3, StepKeeps
<1>4. CASE run' = [run EXCEPT ![r].pc = "swap", ![r].backup = dir] /\ dir' = None
  <2> DEFINE x == [run[r] EXCEPT !.pc = "swap", !.backup = dir]
  <2>0. GoodDir(dir) /\ dir \in Dirs \cup {None}
    BY DEF RepoInv, GoodDir
  <2>1. x \in Record /\ x.pc = "swap" /\ x.backup = dir /\ x.staged = run[r].staged
    BY <1>1, <2>0, Zenon DEF Record
  <2>2. run' = [run EXCEPT ![r] = x]
    BY <1>4, Zenon DEF RepoInv, RunsRight
  <2> HIDE DEF x
  <2>3. Right(x) /\ Current(x) /\ x.pc \notin Syncing
    BY <1>1, <2>0, <2>1 DEF Right, Current, Syncing
  <2>4. run'[r] = x /\ \A q \in Runs \ {r} : run'[q] = run[q]
    BY <2>2 DEF RepoInv, RunsRight
  <2>5. InPlaceOrHeld'
    <3>1. CASE dir = None
      BY <1>1, <1>2, <2>1, <2>4, <3>1 DEF RepoInv, InPlaceOrHeld
    <3>2. CASE dir # None
      BY <2>1, <2>4, <3>2 DEF InPlaceOrHeld
    <3>3. QED
      BY <3>1, <3>2
  <2>6. GoodDir(dir')
    BY <1>4 DEF GoodDir
  <2>7. QED
    BY <1>1, <1>2, <2>1, <2>2, <2>3, <2>5, <2>6, RunMoves, Zenon
<1>5. QED
  BY <1>3, <1>4 DEF MoveAside

\* The staged directory goes in place, or the backup returns, or neither.
LEMMA MoveInKeeps ==
    ASSUME RepoInv, NEW r \in Runs, MoveIn(r)
    PROVE  RepoInv'
<1>1. /\ run[r] \in Record /\ Right(run[r]) /\ run[r].pc = "swap"
      /\ GoodDir(run[r].staged) /\ GoodDir(run[r].backup) /\ run[r].staged # None
      /\ GoodDir(dir)
  BY DEF RepoInv, RunsRight, MoveIn, Right
<1>2. UNCHANGED <<cache, lock, faults>>
  BY DEF MoveIn
<1>3. ASSUME NEW x \in Record, run' = [run EXCEPT ![r] = x], x.pc \in {"clear", "exit"},
             x.staged = None, GoodDir(x.backup),
             GoodDir(dir'), dir # None => dir' # None,
             dir' # None \/ (x.pc = "exit" /\ x.backup = run[r].backup)
      PROVE  RepoInv'
  <2>1. Right(x) /\ Current(x) /\ x.pc \notin Syncing
    BY <1>3 DEF Right, Current, Syncing, GoodDir
  <2>2. run'[r] = x /\ \A q \in Runs \ {r} : run'[q] = run[q]
    BY <1>3 DEF RepoInv, RunsRight
  <2>3. InPlaceOrHeld'
    BY <1>1, <1>2, <1>3, <2>2 DEF RepoInv, InPlaceOrHeld
  <2>4. QED
    BY <1>1, <1>2, <1>3, <2>1, <2>3, RunMoves, Zenon
<1>4. CASE /\ dir' = IF dir = None THEN run[r].staged ELSE dir
           /\ run' = [run EXCEPT ![r].pc = "clear", ![r].staged = None]
  <2> DEFINE x == [run[r] EXCEPT !.pc = "clear", !.staged = None]
  <2>1. x \in Record /\ x.pc = "clear" /\ x.staged = None /\ x.backup = run[r].backup
    BY <1>1, Zenon DEF Record
  <2>2. run' = [run EXCEPT ![r] = x]
    BY <1>4, Zenon DEF RepoInv, RunsRight
  <2> HIDE DEF x
  <2>3. GoodDir(dir') /\ dir' # None
    BY <1>1, <1>4
  <2>4. QED
    BY <1>1, <1>3, <2>1, <2>2, <2>3, Zenon
<1>5. CASE /\ dir' = IF dir = None THEN run[r].backup ELSE dir
           /\ run' = [run EXCEPT ![r].pc = "exit", ![r].staged = None, ![r].backup = None]
  <2> DEFINE x == [run[r] EXCEPT !.pc = "exit", !.staged = None, !.backup = None]
  <2>1. x \in Record /\ x.pc = "exit" /\ x.staged = None /\ x.backup = None
    BY <1>1, Zenon DEF Record
  <2>2. run' = [run EXCEPT ![r] = x]
    BY <1>5, Zenon DEF RepoInv, RunsRight
  <2> HIDE DEF x
  <2>3. GoodDir(dir') /\ (dir' # None \/ run[r].backup = None) /\ (dir # None => dir' # None)
    BY <1>1, <1>5
  <2>4. GoodDir(x.backup)
    BY <2>1 DEF GoodDir
  <2>5. QED
    BY <1>3, <2>1, <2>2, <2>3, <2>4, Zenon
<1>6. CASE /\ run' = [run EXCEPT ![r].pc = "exit", ![r].staged = None]
           /\ UNCHANGED dir
  <2> DEFINE x == [run[r] EXCEPT !.pc = "exit", !.staged = None]
  <2>1. x \in Record /\ x.pc = "exit" /\ x.staged = None /\ x.backup = run[r].backup
    BY <1>1, Zenon DEF Record
  <2>2. run' = [run EXCEPT ![r] = x]
    BY <1>6, Zenon DEF RepoInv, RunsRight
  <2> HIDE DEF x
  <2>3. QED
    BY <1>1, <1>3, <1>6, <2>1, <2>2, Zenon
<1>7. QED
  BY <1>4, <1>5, <1>6 DEF MoveIn

\* The backup is removed: the files are in place, or another run holds them.
LEMMA ClearKeeps ==
    ASSUME RepoInv, NEW r \in Runs, Clear(r)
    PROVE  RepoInv'
<1> DEFINE x == [run[r] EXCEPT !.pc = "exit", !.backup = None]
<1>1. run[r] \in Record /\ Right(run[r]) /\ run[r].pc = "clear"
  BY DEF RepoInv, RunsRight, Clear
<1>2. x \in Record /\ x.pc = "exit" /\ x.staged = run[r].staged /\ x.backup = None
  BY <1>1, Zenon DEF Record
<1>3. run' = [run EXCEPT ![r] = x] /\ UNCHANGED <<cache, dir, lock, faults>>
  BY Zenon DEF Clear, RepoInv, RunsRight
<1> HIDE DEF x
<1>4. Right(x) /\ Current(x) /\ x.pc \notin Syncing
  BY <1>1, <1>2 DEF Right, Current, Syncing, GoodDir
<1>5. QED
  BY <1>1, <1>2, <1>3, <1>4, QuietMove, Zenon

\* A signal ends the run; its backup is left to the trap.
LEMMA SignalKeeps ==
    ASSUME RepoInv, NEW r \in Runs, Signal(r)
    PROVE  RepoInv'
<1> DEFINE x == [run[r] EXCEPT !.pc = "exit", !.live = None, !.staged = None]
<1>1. run[r] \in Record /\ Right(run[r]) /\ run[r].pc # "idle"
  BY DEF RepoInv, RunsRight, Signal
<1>2. x \in Record /\ x.pc = "exit" /\ x.staged = None /\ x.backup = run[r].backup
  BY <1>1, Zenon DEF Record
<1>3. run' = [run EXCEPT ![r] = x] /\ UNCHANGED <<cache, dir, lock, faults>>
  BY Zenon DEF Signal, RepoInv, RunsRight
<1> HIDE DEF x
<1>4. Right(x) /\ Current(x) /\ x.pc \notin Syncing
  BY <1>1, <1>2 DEF Right, Current, Syncing, GoodDir
<1>5. QED
  BY <1>1, <1>2, <1>3, <1>4, QuietMove, Zenon

\* The document is retained: no other run is past its first command.
LEMMA PersistKeeps ==
    ASSUME RepoInv, NEW r \in Runs, Persist(r)
    PROVE  RepoInv'
<1>1. /\ run[r] \in Record /\ Right(run[r]) /\ run[r].pc = "persist" /\ run[r].backup = None
      /\ Accepted(run[r].live, run[r].sel) /\ run[r].live \in Docs
  BY DEF RepoInv, RunsRight, Persist, Right, Accepted
<1>2. r \in Syncs /\ lock = r
  BY <1>1 DEF RepoInv, Locking, Syncing, Runs
<1>3. UNCHANGED <<dir, lock, faults>>
  BY DEF Persist
<1>4. CASE cache' = run[r].live /\ Stage(r, run[r].live)
  <2>1. PICK x \in Record : run' = [run EXCEPT ![r] = x] /\ Right(x) /\ x.pc = "stage"
    BY <1>1, <1>4, StageMoves
  <2>2. run'[r] = x /\ \A q \in Runs \ {r} : run'[q] = run[q]
    BY <2>1 DEF RepoInv, RunsRight
  <2>3. RunsRight'
    <3>1. run' \in [Runs -> Record]
      BY <2>1 DEF RepoInv, RunsRight
    <3>2. \A q \in Runs : Right(run'[q])
      BY <2>1, <2>2 DEF RepoInv, RunsRight
    <3>3. QED
      BY <3>1, <3>2 DEF RunsRight
  <2>4. \A q \in Syncs \ {r} : run'[q].pc = "idle"
    BY <1>2, <2>2 DEF RepoInv, Locking, Runs
  <2>5. Locking'
    BY <1>2, <1>3, <2>1, <2>2, <2>4, RunAssumption DEF RepoInv, Locking, Runs
  <2>6. StillAccepted'
    BY <2>1, <2>2, <2>4 DEF StillAccepted, Current
  <2>7. InPlaceOrHeld'
    BY <1>1, <1>3, <2>1, StillHeld, Zenon
  <2>8. QED
    BY <1>1, <1>3, <1>4, <2>3, <2>5, <2>6, <2>7 DEF RepoInv, GoodDir
<1>5. CASE /\ run' = [run EXCEPT ![r].pc = "exit", ![r].live = None]
           /\ UNCHANGED cache
  <2> DEFINE x == [run[r] EXCEPT !.pc = "exit", !.live = None]
  <2>1. x \in Record /\ x.pc = "exit" /\ x.staged = run[r].staged /\ x.backup = None
    BY <1>1, Zenon DEF Record
  <2>2. run' = [run EXCEPT ![r] = x]
    BY <1>5, Zenon DEF RepoInv, RunsRight
  <2> HIDE DEF x
  <2>3. Right(x) /\ Current(x) /\ x.pc \notin Syncing
    BY <1>1, <2>1 DEF Right, Current, Syncing
  <2>4. QED
    BY <1>1, <1>3, <1>5, <2>1, <2>2, <2>3, QuietMove, Zenon
<1>6. QED
  BY <1>4, <1>5 DEF Persist

\* A run that has not begun.
LEMMA IdleRight == Idle \in Record /\ Right(Idle) /\ Current(Idle) /\ Idle.backup = None
BY DEF Idle, Record, Right, Current, GoodDir

\* A run begins; one that syncs takes the lock, which no other such run holds.
LEMMA BeginKeeps ==
    ASSUME RepoInv, NEW r \in Runs, Begin(r)
    PROVE  RepoInv'
<1>1. PICK c \in Channels \cup {None} :
          run' = [run EXCEPT ![r] =
                    [Idle EXCEPT !.pc = IF r \in Syncs THEN "fetch" ELSE "local",
                                 !.sel = IF c = None
                                         THEN IF dir = None THEN None ELSE dir.marker
                                         ELSE c]]
  BY Zenon DEF Begin
<1> DEFINE sel == IF c = None THEN IF dir = None THEN None ELSE dir.marker ELSE c
           x == [Idle EXCEPT !.pc = IF r \in Syncs THEN "fetch" ELSE "local", !.sel = sel]
<1>2. /\ run[r].pc = "idle" /\ UNCHANGED <<cache, dir, faults>>
      /\ r \in Syncs => lock = None
      /\ lock' = IF r \in Syncs THEN r ELSE lock
  BY DEF Begin, LockFree
<1>3. sel \in Channels \cup {None}
  BY ChannelAssumption DEF RepoInv, GoodDir, Dirs
<1> HIDE DEF sel
<1>4. /\ x \in Record /\ x.pc = (IF r \in Syncs THEN "fetch" ELSE "local")
      /\ x.staged = None /\ x.backup = None
  BY <1>3, Zenon DEF Idle, Record
<1>5. run' = [run EXCEPT ![r] = x]
  BY <1>1 DEF sel
<1> HIDE DEF x
<1>6. Right(x) /\ Current(x)
  BY <1>4 DEF Right, Current, GoodDir
<1>7. run'[r] = x /\ \A q \in Runs \ {r} : run'[q] = run[q]
  BY <1>5 DEF RepoInv, RunsRight
<1>8. RunsRight'
  <2>1. run' \in [Runs -> Record]
    BY <1>4, <1>5 DEF RepoInv, RunsRight
  <2>2. \A q \in Runs : Right(run'[q])
    BY <1>6, <1>7 DEF RepoInv, RunsRight
  <2>3. QED
    BY <2>1, <2>2 DEF RunsRight
<1>9. Locking'
  <2>1. CASE r \in Syncs
    <3>1. \A q \in Syncs \ {r} : run'[q].pc = "idle"
      BY <1>2, <1>7, <2>1, ChannelAssumption DEF RepoInv, Locking, Runs
    <3>2. QED
      BY <1>2, <1>7, <2>1, <3>1, RunAssumption DEF RepoInv, Locking, Runs
  <2>2. CASE r \notin Syncs
    BY <1>2, <1>4, <1>7, <2>2 DEF RepoInv, Locking, Runs, Syncing
  <2>3. QED
    BY <2>1, <2>2
<1>10. StillAccepted'
  BY <1>2, <1>4, <1>7 DEF RepoInv, StillAccepted, Current, Runs
<1>11. InPlaceOrHeld'
  BY <1>2, <1>4, <1>5, StillHeld, Zenon
<1>12. QED
  BY <1>2, <1>8, <1>9, <1>10, <1>11 DEF RepoInv, GoodDir, Runs

\* A run ends: its backup goes back if nothing is in place, or a fault has
\* happened.
LEMMA EndedKeeps ==
    ASSUME RepoInv, NEW r \in Runs, Cleanup(r) \/ Kill(r)
    PROVE  RepoInv'
<1>1. /\ run[r].pc = "exit" /\ run' = [run EXCEPT ![r] = Idle] /\ UNCHANGED cache
      /\ lock' = IF lock = r THEN None ELSE lock
  BY DEF Cleanup, Kill, Ended
<1>2. run'[r] = Idle /\ \A q \in Runs \ {r} : run'[q] = run[q]
  BY <1>1 DEF RepoInv, RunsRight
<1>3. RunsRight'
  <2>1. run' \in [Runs -> Record]
    BY <1>1, IdleRight DEF RepoInv, RunsRight
  <2>2. \A q \in Runs : Right(run'[q])
    BY <1>2, IdleRight DEF RepoInv, RunsRight
  <2>3. QED
    BY <2>1, <2>2 DEF RunsRight
<1>4. Locking'
  BY <1>1, <1>2 DEF RepoInv, Locking, Idle, Runs, Syncing
<1>5. StillAccepted'
  BY <1>1, <1>2 DEF RepoInv, StillAccepted, Current, Idle, Runs
<1>6. Right(run[r]) /\ GoodDir(run[r].backup)
  BY DEF RepoInv, RunsRight, Right
<1>7. GoodDir(dir') /\ faults' \in 0..MaxFaults /\ InPlaceOrHeld'
  <2>1. CASE Cleanup(r)
    <3>1. /\ dir' = (IF dir = None THEN run[r].backup ELSE dir) /\ faults' = faults
      BY <2>1 DEF Cleanup
    <3>2. GoodDir(dir')
      BY <1>6, <3>1 DEF RepoInv
    <3>3. InPlaceOrHeld'
      <4>1. Idle.pc # "clear"
        BY DEF Idle
      <4>2. CASE dir' # None
        BY <4>2 DEF InPlaceOrHeld
      <4>3. CASE dir' = None
        <5>1. dir = None /\ run[r].backup = None
          BY <3>1, <4>3
        <5>2. QED
          BY <1>2, <3>1, <4>1, <5>1 DEF RepoInv, InPlaceOrHeld
      <4>4. QED
        BY <4>2, <4>3
    <3>4. QED
      BY <3>1, <3>2, <3>3 DEF RepoInv
  <2>2. CASE Kill(r)
    <3>1. faults < MaxFaults /\ faults' = faults + 1 /\ dir' = dir
      BY <2>2 DEF Kill, Fault
    <3>2. faults \in 0..MaxFaults /\ MaxFaults \in Nat
      BY ChannelAssumption DEF RepoInv
    <3>3. faults' \in 0..MaxFaults /\ faults' # 0
      BY <3>1, <3>2
    <3>4. QED
      BY <3>1, <3>3 DEF RepoInv, InPlaceOrHeld
  <2>3. QED
    BY <2>1, <2>2
<1>8. QED
  BY <1>1, <1>3, <1>4, <1>5, <1>7 DEF RepoInv, GoodDir

\* Power is lost.
LEMMA CrashKeeps ==
    ASSUME RepoInv, Crash
    PROVE  RepoInv'
<1>1. /\ run' = [r \in Runs |-> Idle] /\ lock' = None /\ UNCHANGED <<cache, dir>>
      /\ faults < MaxFaults /\ faults' = faults + 1
  BY DEF Crash, Fault
<1>2. RunsRight'
  <2>1. run' \in [Runs -> Record] /\ \A q \in Runs : Right(run'[q])
    BY <1>1, IdleRight
  <2>2. QED
    BY <2>1 DEF RunsRight
<1>3. Locking' /\ StillAccepted'
  BY <1>1 DEF Locking, StillAccepted, Current, Idle, Runs, Syncing
<1>4. faults' \in 0..MaxFaults /\ InPlaceOrHeld'
  <2>1. faults \in 0..MaxFaults /\ MaxFaults \in Nat
    BY ChannelAssumption DEF RepoInv
  <2>2. faults' \in 0..MaxFaults /\ faults' # 0
    BY <1>1, <2>1
  <2>3. QED
    BY <2>2 DEF InPlaceOrHeld
<1>5. QED
  BY <1>1, <1>2, <1>3, <1>4 DEF RepoInv, GoodDir

\* A booted firewall.
LEMMA InitRight == Init => RepoInv
<1> SUFFICES ASSUME Init PROVE RepoInv
  OBVIOUS
<1>1. GoodDir(dir)
  <2>1. CASE dir = None
    BY <2>1 DEF GoodDir
  <2>2. CASE Verdict(Baked, None, None) = "ok" /\ dir = Staged(Baked, None)
    BY <2>2, VerdictFacts, StagedGood, ChannelAssumption
  <2>3. QED
    BY <2>1, <2>2 DEF Init
<1>2. RunsRight
  <2>1. run = [r \in Runs |-> Idle]
    BY DEF Init
  <2>2. QED
    BY <2>1, IdleRight DEF RunsRight
<1>3. Locking /\ StillAccepted /\ InPlaceOrHeld
  BY DEF Init, Locking, StillAccepted, Current, InPlaceOrHeld, Idle, Runs, Syncing
<1>4. faults \in 0..MaxFaults
  BY ChannelAssumption DEF Init
<1>5. QED
  BY <1>1, <1>2, <1>3, <1>4 DEF RepoInv, Init

\* Every step of FreeSense-repoc keeps the invariant.
LEMMA InvKept == RepoInv /\ [Next]_vars => RepoInv'
<1> SUFFICES ASSUME RepoInv, [Next]_vars PROVE RepoInv'
  OBVIOUS
<1>1. ASSUME NEW r \in Runs, RunStep(r) PROVE RepoInv'
  BY <1>1, BeginKeeps, FetchKeeps, CheckLiveKeeps, PersistKeeps, FallbackKeeps,
     MoveAsideKeeps, MoveInKeeps, ClearKeeps, EndedKeeps, SignalKeeps DEF RunStep
<1>2. CASE UNCHANGED vars
  BY <1>2 DEF vars, RepoInv, RunsRight, Locking, StillAccepted, Current, InPlaceOrHeld, GoodDir
<1>3. QED
  BY <1>1, <1>2, CrashKeeps DEF Next

-----------------------------------------------------------------------------
\* The invariant implies what pkg relies on.
LEMMA InvUsable == RepoInv => Usability
<1> SUFFICES ASSUME RepoInv PROVE Usability
  OBVIOUS
<1>1. dir \in Dirs \cup {None} /\ MarkerUsable
  BY DEF RepoInv, GoodDir, MarkerUsable
<1>2. \A r \in Runs : run[r] \in Record
  BY DEF RepoInv, RunsRight
<1>3. QED
  BY <1>1, <1>2 DEF RepoInv, Usability, TypeOK, Record

\* validate_payload, the staging loop and the swap: for any number of runs, any
\* documents and any interruptions, the retained document is well formed, and the
\* directory pkg reads selects a channel that has files.
THEOREM RepositoriesUsable == Spec => []Usability
BY InvUsable, InitRight, InvKept, PTL DEF Spec

-----------------------------------------------------------------------------
(* What a step may never do *)

\* Whatever a run takes from the directory or from its backup, it has put into the
\* other.
LEMMA OneRunSaves ==
    ASSUME RepoInv, Saved, NEW r \in Runs, NEW x, run' = [run EXCEPT ![r] = x],
           run[r].backup # None => x.backup # None \/ dir' # None,
           dir # None => x.backup # None \/ dir' # None
    PROVE  Saved'
<1>1. run'[r] = x /\ \A q \in Runs \ {r} : run'[q] = run[q]
  BY DEF RepoInv, RunsRight
<1>2. QED
  BY <1>1 DEF Saved

\* Without a fault a step loses no files.
LEMMA StepSaves ==
    ASSUME RepoInv, Saved, NEW r \in Runs, RunStep(r), faults' = 0
    PROVE  Saved'
<1>1. run[r] \in Record /\ Right(run[r]) /\ faults \in 0..MaxFaults /\ MaxFaults \in Nat
  BY ChannelAssumption DEF RepoInv, RunsRight
<1>2. ASSUME NEW x, run' = [run EXCEPT ![r] = x], x.backup = run[r].backup, UNCHANGED dir
      PROVE  Saved'
  BY <1>2, OneRunSaves, Zenon
<1>3. CASE Begin(r)
  <2>1. PICK x : run' = [run EXCEPT ![r] = x] /\ x.backup = None
    <3>1. PICK p, s : run' = [run EXCEPT ![r] = [Idle EXCEPT !.pc = p, !.sel = s]]
      BY <1>3, Zenon DEF Begin
    <3>2. [Idle EXCEPT !.pc = p, !.sel = s].backup = None
      BY DEF Idle
    <3>3. QED
      BY <3>1, <3>2, Zenon
  <2>2. run[r].backup = None /\ UNCHANGED dir
    BY <1>1, <1>3 DEF Begin, Right
  <2>3. QED
    BY <1>2, <2>1, <2>2, Zenon
<1>4. CASE Fetch(r) \/ CheckLive(r) \/ Persist(r) \/ Fallback(r) \/ Local(r) \/ Signal(r)
  <2>1. PICK x : run' = [run EXCEPT ![r] = x] /\ x.backup = run[r].backup
    <3>1. ASSUME NEW pc, Step(r, pc)
          PROVE  \E x : run' = [run EXCEPT ![r] = x] /\ x.backup = run[r].backup
      <4>1. run' = [run EXCEPT ![r] = [run[r] EXCEPT !.pc = pc]]
        BY <3>1 DEF Step, RepoInv, RunsRight
      <4>2. [run[r] EXCEPT !.pc = pc].backup = run[r].backup
        BY <1>1 DEF Record
      <4>3. QED
        BY <4>1, <4>2, Zenon
    <3>2. ASSUME NEW d, Stage(r, d)
          PROVE  \E x : run' = [run EXCEPT ![r] = x] /\ x.backup = run[r].backup
      <4> DEFINE x == [run[r] EXCEPT !.pc = "stage", !.live = None,
                                     !.staged = Staged(d, run[r].sel)]
      <4>1. run' = [run EXCEPT ![r] = x]
        BY <3>2, Zenon DEF Stage, RepoInv, RunsRight
      <4>2. x.backup = run[r].backup
        BY <1>1 DEF Record
      <4>3. QED
        BY <4>1, <4>2, Zenon
    <3>3. ASSUME NEW pc, NEW d, run' = [run EXCEPT ![r].pc = pc, ![r].live = d]
          PROVE  \E x : run' = [run EXCEPT ![r] = x] /\ x.backup = run[r].backup
      <4> DEFINE x == [run[r] EXCEPT !.pc = pc, !.live = d]
      <4>1. run' = [run EXCEPT ![r] = x]
        BY <3>3, Zenon DEF RepoInv, RunsRight
      <4>2. x.backup = run[r].backup
        BY <1>1 DEF Record
      <4>3. QED
        BY <4>1, <4>2, Zenon
    <3>4. ASSUME Signal(r)
          PROVE  \E x : run' = [run EXCEPT ![r] = x] /\ x.backup = run[r].backup
      <4> DEFINE x == [run[r] EXCEPT !.pc = "exit", !.live = None, !.staged = None]
      <4>1. run' = [run EXCEPT ![r] = x]
        BY <3>4, Zenon DEF Signal, RepoInv, RunsRight
      <4>2. x.backup = run[r].backup
        BY <1>1 DEF Record
      <4>3. QED
        BY <4>1, <4>2, Zenon
    <3>5. QED
      BY <1>4, <3>1, <3>2, <3>3, <3>4, Zenon DEF Fetch, CheckLive, Persist, Fallback, Local
  <2>2. UNCHANGED dir
    BY <1>4 DEF Fetch, CheckLive, Persist, Fallback, Local, Signal
  <2>3. QED
    BY <1>2, <2>1, <2>2, Zenon
<1>5. CASE MoveAside(r)
  <2>1. run[r].backup = None
    BY <1>1, <1>5 DEF MoveAside, Right
  <2>2. CASE run' = [run EXCEPT ![r].pc = "swap", ![r].backup = dir] /\ dir' = None
    <3> DEFINE x == [run[r] EXCEPT !.pc = "swap", !.backup = dir]
    <3>1. run' = [run EXCEPT ![r] = x] /\ x.backup = dir
      BY <1>1, <2>2, Zenon DEF RepoInv, RunsRight, Record
    <3> HIDE DEF x
    <3>2. QED
      BY <2>1, <3>1, OneRunSaves, Zenon
  <2>3. CASE Step(r, "exit") /\ UNCHANGED dir
    <3> DEFINE x == [run[r] EXCEPT !.pc = "exit"]
    <3>1. run' = [run EXCEPT ![r] = x] /\ x.backup = run[r].backup
      BY <1>1, <2>3 DEF Step, RepoInv, RunsRight, Record
    <3> HIDE DEF x
    <3>2. QED
      BY <1>2, <2>3, <3>1, Zenon
  <2>4. QED
    BY <1>5, <2>2, <2>3 DEF MoveAside
<1>6. CASE MoveIn(r)
  <2>1. run[r].staged # None
    BY <1>1, <1>6 DEF MoveIn, Right
  <2>2. CASE /\ dir' = IF dir = None THEN run[r].staged ELSE dir
             /\ run' = [run EXCEPT ![r].pc = "clear", ![r].staged = None]
    BY <2>1, <2>2 DEF Saved
  <2>3. CASE /\ dir' = IF dir = None THEN run[r].backup ELSE dir
             /\ run' = [run EXCEPT ![r].pc = "exit", ![r].staged = None, ![r].backup = None]
    <3> DEFINE x == [run[r] EXCEPT !.pc = "exit", !.staged = None, !.backup = None]
    <3>1. run' = [run EXCEPT ![r] = x]
      BY <2>3, Zenon DEF RepoInv, RunsRight
    <3> HIDE DEF x
    <3>2. QED
      BY <2>3, <3>1, OneRunSaves, Zenon
  <2>4. CASE /\ run' = [run EXCEPT ![r].pc = "exit", ![r].staged = None]
             /\ UNCHANGED dir
    <3> DEFINE x == [run[r] EXCEPT !.pc = "exit", !.staged = None]
    <3>1. run' = [run EXCEPT ![r] = x] /\ x.backup = run[r].backup
      BY <1>1, <2>4, Zenon DEF RepoInv, RunsRight, Record
    <3> HIDE DEF x
    <3>2. QED
      BY <1>2, <2>4, <3>1, Zenon
  <2>5. QED
    BY <1>6, <2>2, <2>3, <2>4 DEF MoveIn
<1>7. CASE Clear(r)
  <2>1. run[r].pc = "clear" /\ UNCHANGED <<dir, faults>>
    BY <1>7 DEF Clear
  <2>2. \A q \in Runs \ {r} : run'[q] = run[q]
    BY <1>7 DEF Clear, RepoInv, RunsRight
  <2>3. dir # None \/ \E q \in Runs \ {r} : run[q].backup # None
    BY <2>1 DEF RepoInv, InPlaceOrHeld
  <2>4. QED
    BY <2>1, <2>2, <2>3 DEF Saved
<1>8. CASE Cleanup(r)
  BY <1>8, OneRunSaves, Zenon DEF Cleanup, Ended
<1>9. CASE Kill(r)
  <2>1. faults' = faults + 1
    BY <1>9 DEF Kill, Fault
  <2>2. QED
    BY <1>1, <2>1
<1>10. QED
  BY <1>3, <1>4, <1>5, <1>6, <1>7, <1>8, <1>9 DEF RunStep

\* A document that a run retains does not roll back the channel it selects.
LEMMA RetainedStands ==
    ASSUME RepoInv, Next, NEW r \in Syncs, Retains(r), cache # None,
           cache.ch[Selection(cache', run[r].sel)].ready
    PROVE  ~RollsBack(cache'.ch[Selection(cache', run[r].sel)],
                      cache.ch[Selection(cache', run[r].sel)])
<1>1. r \in Runs /\ run[r] \in Record /\ run[r].pc = "persist" /\ run'[r].pc = "stage"
  BY DEF RepoInv, RunsRight, Runs, Retains
<1>2. cache' = run[r].live
  <2>1. ~Crash
    BY <1>1 DEF Crash, Idle
  <2>2. ASSUME NEW q \in Runs \ {r}, RunStep(q) PROVE FALSE
    <3>1. \A s \in Runs \ {q} : run'[s] = run[s]
      BY <2>2, Zenon DEF RepoInv, RunsRight, RunStep, Begin, Fetch, CheckLive, Persist, Fallback,
           Local, MoveAside, MoveIn, Clear, Cleanup, Signal, Kill, Step, Stage, Ended
    <3>2. QED
      BY <1>1, <3>1
  <2>3. RunStep(r)
    BY <2>1, <2>2 DEF Next
  <2>4. Persist(r) \/ Signal(r)
    BY <1>1, <2>3 DEF RunStep, Begin, Fetch, CheckLive, Fallback,
           Local, MoveAside, MoveIn, Clear, Cleanup, Kill
  <2>5. ASSUME run' = [run EXCEPT ![r].pc = "exit", ![r].live = None] PROVE FALSE
    BY <1>1, <2>5 DEF RepoInv, RunsRight, Record
  <2>6. ASSUME Signal(r) PROVE FALSE
    BY <1>1, <2>6 DEF Signal, RepoInv, RunsRight, Record
  <2>7. QED
    BY <2>4, <2>5, <2>6 DEF Persist
<1>3. ~Regresses(run[r].live, cache, Selection(run[r].live, run[r].sel))
  BY <1>1 DEF RepoInv, StillAccepted, Current
<1>4. QED
  BY <1>2, <1>3 DEF Regresses

\* cleanup, the swap and the lock: without a fault the repository files are in
\* place or in a backup that goes back, and with any number of concurrent runs
\* the selected channel never returns to an older generation.
THEOREM RepositoriesAlwaysKept == Spec => RepositoriesKept
<1> DEFINE Kept == /\ Saved /\ faults' = 0 => Saved'
                   /\ \A r \in Syncs :
                        Retains(r) /\ cache # None =>
                            LET c == Selection(cache', run[r].sel) IN
                            cache.ch[c].ready => ~RollsBack(cache'.ch[c], cache.ch[c])
<1>1. RepoInv /\ Next => Kept
  <2> SUFFICES ASSUME RepoInv, Next PROVE Kept
    OBVIOUS
  <2>1. ASSUME Saved, faults' = 0 PROVE Saved'
    <3>1. ~Crash
      <4>1. faults \in 0..MaxFaults /\ MaxFaults \in Nat
        BY ChannelAssumption DEF RepoInv
      <4>2. QED
        BY <2>1, <4>1 DEF Crash, Fault
    <3>2. QED
      BY <2>1, <3>1, StepSaves DEF Next
  <2>2. QED
    BY <2>1, RetainedStands
<1>2. RepoInv /\ [Next]_vars => [Kept]_vars
  BY <1>1
<1>3. QED
  BY <1>2, InitRight, InvKept, PTL DEF Spec, RepositoriesKept

-----------------------------------------------------------------------------
(* FreeSense-repo-setup *)

\* The commands between the copy and its removal.
PastCopy ==
    {"fetch", "validate2", "link2", "abi", "clear", "write", "select", "link3", "compare"}

Contents == ((Published \cup {"plain"}) \X Nat) \cup {None}

SetupRecord ==
    [pc : PastCopy \cup {"idle", "validate1", "link1", "copy", "end", "killed"},
     path : Published \cup {None}, update : BOOLEAN, abi : {"cur", "next"},
     osv : {"cur", "next"}, was : Contents, code : {0, 1, 11, 12, 13, 14}]

SetupTypes ==
    /\ config \in Published \cup {None} /\ base \in Bases
    /\ link \in Published \cup {None, "plain"} /\ copy \in Contents
    /\ setup \in [Syncs -> SetupRecord]
    /\ last \in Syncs \cup {None} /\ kills \in Nat

\* A run that counts as the latest has no other beside it.
Alone == last # None => \A q \in Syncs \ {last} : ~S!Active(q)

\* A copy belongs to a run that will remove it, or was left by a killed one.
CopyOwned ==
    copy # None => kills > 0 \/ \E q \in Syncs : setup[q].pc \in PastCopy

\* What the run knows of its selection and of the link at each command, if the
\* selection or its substitute has files.
Linked(x) == S!Has(x.path) /\ link = x.path /\ (~x.update => x.path = S!Target(config))

Selecting(x) ==
    /\ x.pc = "copy" => x.path = S!Target(config) /\ link = x.path
    /\ x.pc = "validate2" => S!Has(S!Target(x.path))
    /\ x.pc \in {"validate2", "link2"} /\ ~x.update => x.path = S!Target(config)
    /\ x.pc \in {"abi", "clear", "write", "select", "compare"} => Linked(x)
    /\ x.pc \in {"clear", "write"} => x.abi = S!AbiOf(link)
    /\ x.pc = "select" => pkgconf.abi = S!AbiOf(link)
    /\ x.pc = "compare" /\ x.code # 1 => pkgconf.abi = S!AbiOf(link)
    /\ x.pc # "link3"

\* What the latest run knows at each command.
Knows(x) ==
    /\ x.pc = "validate1" => x.path = IF config # None THEN config ELSE base.default
    /\ x.pc \in {"link1", "link2"} => link = None /\ S!Has(x.path)
    /\ x.pc = "link1" => x.path = S!Target(config)
    /\ x.pc \in PastCopy => IF x.was = None THEN copy = None \/ kills > 0 ELSE copy = x.was
    /\ x.pc \in {"link3", "compare"} => x.code # 14
    /\ x.pc = "fetch" => x.update
    /\ S!Has(S!Target(config)) => Selecting(x)

\* What the latest run has left at its end.
Settled(x) ==
    (x.pc = "end" /\ x.code # 1 /\ S!Has(S!Target(config))) =>
        /\ Linked(x) /\ pkgconf.abi = S!AbiOf(link)
        /\ x.code = 0 => S!Content(link) = x.was \/ (x.was = None /\ kills > 0)
        /\ x.code = 14 => S!Content(link) # x.was

\* The inductive invariant.
SetupInv ==
    /\ SetupTypes /\ Alone /\ CopyOwned
    /\ last # None => Knows(setup[last]) /\ Settled(setup[last])

\* The parts of a base.
LEMMA BaseFacts ==
    ASSUME SetupTypes
    PROVE  /\ base.default \in Published \cup {None}
           /\ \A c \in Published : base.file[c] # None =>
                /\ base.file[c].print \in Nat
                /\ base.file[c].abi \in {None, "cur", "next"}
                /\ base.file[c].osv \in {None, "bad", "cur", "next"}
<1>1. base \in [default : Published \cup {None}, file : [Published -> S!Files \cup {None}]]
  BY SetupAssumption DEF SetupTypes, S!ConstantsRight
<1>2. \A c \in Published : base.file[c] # None => base.file[c] \in S!Files
  BY <1>1
<1>3. QED
  BY <1>1, <1>2 DEF S!Files

\* What is behind a link, and that nothing is behind none.
LEMMA ContentFacts ==
    ASSUME SetupTypes, NEW c \in Published \cup {None, "plain"}
    PROVE  S!Content(c) \in Contents /\ (S!Has(c) => S!Content(c) # None)
<1>1. CASE S!Has(c)
  <2>1. c \in Published /\ base.file[c] # None
    BY <1>1 DEF S!Has
  <2>2. base.file[c].print \in Nat
    BY <2>1, BaseFacts
  <2>3. S!Content(c) = <<c, base.file[c].print>>
    BY <1>1 DEF S!Content
  <2>4. QED
    BY <2>1, <2>2, <2>3, SetupAssumption DEF S!ConstantsRight, Contents
<1>2. CASE ~S!Has(c)
  BY <1>2 DEF S!Content, Contents
<1>3. QED
  BY <1>1, <1>2

\* The channel that a selection leads to is the one the run's path leads to when
\* it begins.
LEMMA FreshTarget ==
    ASSUME NEW p, p = IF config # None THEN config ELSE base.default
    PROVE  S!Target(p) = S!Target(config)
<1>1. ~S!Has(None)
  BY SetupAssumption DEF S!ConstantsRight, S!Has
<1>2. QED
  BY <1>1 DEF S!Target

\* Files, selection and link as they were.
LEMMA SameFiles ==
    ASSUME UNCHANGED <<config, base>>
    PROVE  /\ \A c : S!Has(c)' = S!Has(c)
           /\ \A c : S!Target(c)' = S!Target(c)
           /\ \A c : S!Content(c)' = S!Content(c)
           /\ \A c : S!AbiOf(c)' = S!AbiOf(c)
           /\ S!Target(config)' = S!Target(config)
BY Zenon DEF S!Has, S!Target, S!Content, S!AbiOf

\* A run executes a command: the others are as they were, and not active if it is
\* the latest.
LEMMA SetupMoves ==
    ASSUME SetupInv, NEW r \in Syncs, S!Active(r), NEW x \in SetupRecord,
           setup' = [setup EXCEPT ![r] = x], last' = last, kills' \in Nat,
           config' \in Published \cup {None}, base' \in Bases,
           link' \in Published \cup {None, "plain"}, copy' \in Contents,
           \/ copy' = None \/ x.pc \in PastCopy \/ kills' > 0
           \/ copy' = copy /\ setup[r].pc \notin PastCopy /\ kills' = kills,
           last = r => Knows(x)' /\ Settled(x)'
    PROVE  SetupInv'
<1>1. setup'[r] = x /\ \A q \in Syncs \ {r} : setup'[q] = setup[q]
  BY DEF SetupInv, SetupTypes
<1>2. last = r \/ last = None
  BY DEF SetupInv, SetupTypes, Alone
<1>3. SetupTypes'
  BY DEF SetupInv, SetupTypes
<1>4. Alone'
  BY <1>1, <1>2 DEF SetupInv, Alone, S!Active
<1>5. CopyOwned'
  BY <1>1 DEF SetupInv, CopyOwned
<1>6. last' # None => Knows(setup[last])' /\ Settled(setup[last])'
  <2>1. CASE last = None
    BY <2>1
  <2>2. CASE last = r
    <3>1. last' = r /\ setup'[last'] = x
      BY <1>1, <2>2
    <3>2. Knows(x)' /\ Settled(x)'
      BY <2>2
    <3>3. Knows(setup[last])'
      <4>1. Selecting(x)' => Selecting(setup[last])'
        BY <3>1, Zenon DEF Selecting, Linked
      <4>2. QED
        BY <3>1, <3>2, <4>1, Zenon DEF Knows
    <3>4. Settled(setup[last])'
      BY <3>1, <3>2, Zenon DEF Settled, Linked
    <3>5. QED
      BY <3>3, <3>4
  <2>3. QED
    BY <1>2, <2>1, <2>2
<1>7. QED
  BY <1>3, <1>4, <1>5, <1>6 DEF SetupInv

\* validate_repo_conf: the link leads to the target or is removed, if the target
\* has files.
LEMMA ValidateMoves ==
    ASSUME SetupInv, NEW r \in Syncs, NEW pc, NEW ln, NEW next, S!Validate(r, pc, ln, next),
           pc \in {"validate1", "validate2"},
           {ln, next} \subseteq {"link1", "copy", "link2", "abi"}
    PROVE  \E x \in SetupRecord :
             /\ setup' = [setup EXCEPT ![r] = x] /\ setup[r].pc = pc
             /\ UNCHANGED <<config, base, copy, pkgconf, last, kills>>
             /\ x.update = setup[r].update /\ x.was = setup[r].was /\ x.code = setup[r].code
             /\ \/ /\ ~S!Has(S!Target(setup[r].path)) /\ x.pc = next /\ link' = link
                   /\ x.path = setup[r].path
                \/ /\ S!Has(x.path) /\ x.path = S!Target(setup[r].path)
                   /\ \/ x.pc = next /\ link = x.path /\ link' = link
                      \/ x.pc = ln /\ link' = None
<1> DEFINE t == S!Target(setup[r].path)
<1>1. setup[r] \in SetupRecord
  BY DEF SetupInv, SetupTypes
<1>2. setup[r].pc = pc /\ UNCHANGED <<config, base, copy, pkgconf, last, kills>>
  BY DEF S!Validate, S!At, S!Same
<1>3. ASSUME NEW p \in {ln, next}
      PROVE  LET x == [setup[r] EXCEPT !.pc = p] IN
             /\ x \in SetupRecord /\ x.update = setup[r].update /\ x.was = setup[r].was
             /\ x.code = setup[r].code /\ x.pc = p /\ x.path = setup[r].path
  BY <1>1 DEF SetupRecord, PastCopy
<1>4. ASSUME NEW p \in {ln, next}, S!Has(t)
      PROVE  LET x == [setup[r] EXCEPT !.pc = p, !.path = t] IN
             /\ x \in SetupRecord /\ x.update = setup[r].update /\ x.was = setup[r].was
             /\ x.code = setup[r].code /\ x.pc = p /\ x.path = t
  <2>1. t \in Published
    BY <1>4 DEF S!Has
  <2> HIDE DEF t
  <2>2. QED
    BY <1>1, <2>1, Zenon DEF SetupRecord, PastCopy
<1>5. CASE ~S!Has(t)
  <2>1. setup' = [setup EXCEPT ![r] = [setup[r] EXCEPT !.pc = next]] /\ link' = link
    BY <1>5 DEF S!Validate, S!To, SetupInv, SetupTypes
  <2>2. QED
    BY <1>2, <1>3, <1>5, <2>1, Zenon
<1>6. CASE S!Has(t) /\ link = t
  <2>1. /\ setup' = [setup EXCEPT ![r] = [setup[r] EXCEPT !.pc = next, !.path = t]]
        /\ link' = link
    BY <1>6, Zenon DEF S!Validate, SetupInv, SetupTypes
  <2>2. QED
    BY <1>2, <1>4, <1>6, <2>1, Zenon
<1>7. CASE S!Has(t) /\ link # t
  <2>1. /\ setup' = [setup EXCEPT ![r] = [setup[r] EXCEPT !.pc = ln, !.path = t]]
        /\ link' = None
    BY <1>7, Zenon DEF S!Validate, SetupInv, SetupTypes
  <2>2. QED
    BY <1>2, <1>4, <1>7, <2>1, Zenon
<1>8. QED
  BY <1>5, <1>6, <1>7

\* validate_selection before FreeSense-repoc has run.
LEMMA Validate1Keeps ==
    ASSUME SetupInv, NEW r \in Syncs, S!Validate1(r)
    PROVE  SetupInv'
<1>1. PICK x \in SetupRecord :
             /\ setup' = [setup EXCEPT ![r] = x] /\ setup[r].pc = "validate1"
             /\ UNCHANGED <<config, base, copy, pkgconf, last, kills>>
             /\ \/ ~S!Has(S!Target(setup[r].path)) /\ x.pc = "copy" /\ link' = link
                \/ /\ S!Has(x.path) /\ x.path = S!Target(setup[r].path)
                   /\ \/ x.pc = "copy" /\ link = x.path /\ link' = link
                      \/ x.pc = "link1" /\ link' = None
  BY ValidateMoves DEF S!Validate1
<1>2. ASSUME last = r PROVE Knows(x)' /\ Settled(x)'
  <2>1. S!Target(setup[r].path) = S!Target(config)
    BY <1>1, <1>2, FreshTarget, SetupAssumption DEF SetupInv, SetupTypes, Knows, S!ConstantsRight
  <2>2. x.pc \in {"copy", "link1"} /\ x.pc # "end"
    BY <1>1
  <2>3. Knows(x)'
    BY <1>1, <2>1, <2>2, SameFiles, Zenon DEF Knows, Selecting, PastCopy
  <2>4. Settled(x)'
    BY <2>2 DEF Settled
  <2>5. QED
    BY <2>3, <2>4
<1>3. S!Active(r) /\ setup[r].pc \notin PastCopy
  BY <1>1 DEF S!Active, PastCopy
<1>4. QED
  BY <1>1, <1>2, <1>3, SetupMoves, Zenon DEF SetupInv, SetupTypes

\* validate_selection once FreeSense-repoc has run.
LEMMA Validate2Keeps ==
    ASSUME SetupInv, NEW r \in Syncs, S!Validate2(r)
    PROVE  SetupInv'
<1>1. PICK x \in SetupRecord :
             /\ setup' = [setup EXCEPT ![r] = x] /\ setup[r].pc = "validate2"
             /\ UNCHANGED <<config, base, copy, pkgconf, last, kills>>
             /\ x.update = setup[r].update /\ x.was = setup[r].was
             /\ \/ ~S!Has(S!Target(setup[r].path)) /\ x.pc = "abi" /\ link' = link
                \/ /\ S!Has(x.path) /\ x.path = S!Target(setup[r].path)
                   /\ \/ x.pc = "abi" /\ link = x.path /\ link' = link
                      \/ x.pc = "link2" /\ link' = None
  BY ValidateMoves DEF S!Validate2
<1>2. ASSUME last = r PROVE Knows(x)' /\ Settled(x)'
  <2>1. Knows(setup[r])
    BY <1>2, SetupAssumption DEF SetupInv, S!ConstantsRight
  <2>2. x.pc \in {"abi", "link2"} /\ x.pc # "end"
    BY <1>1
  <2>3. S!Has(S!Target(config)) =>
          /\ S!Has(x.path) /\ (x.pc = "abi" => link = x.path)
          /\ ~x.update => x.path = S!Target(config)
    <3>1. S!Has(S!Target(config)) => Selecting(setup[r])
      BY <2>1 DEF Knows
    <3>2. S!Has(S!Target(config)) /\ ~x.update =>
            S!Target(setup[r].path) = S!Target(config)
      BY <1>1, <3>1, Zenon DEF Selecting, S!Target
    <3>3. QED
      BY <1>1, <3>1, <3>2 DEF Selecting
  <2>4. IF x.was = None THEN copy = None \/ kills > 0 ELSE copy = x.was
    BY <1>1, <2>1, Zenon DEF Knows, PastCopy
  <2>5. Knows(x)'
    BY <1>1, <2>2, <2>3, <2>4, SameFiles, Zenon DEF Knows, Selecting, Linked, PastCopy
  <2>6. Settled(x)'
    BY <2>2 DEF Settled
  <2>7. QED
    BY <2>5, <2>6
<1>3. S!Active(r) /\ x.pc \in PastCopy
  BY <1>1 DEF S!Active, PastCopy
<1>4. QED
  BY <1>1, <1>2, <1>3, SetupMoves, Zenon DEF SetupInv, SetupTypes

\* ln: the link leads to the run's path unless another run has made it.
LEMMA LinkMoves ==
    ASSUME SetupInv, NEW r \in Syncs, NEW pc, NEW next, S!Link(r, pc, next),
           next \in {"copy", "abi", "compare"}
    PROVE  \E x \in SetupRecord :
             /\ setup' = [setup EXCEPT ![r] = x] /\ setup[r].pc = pc /\ x.pc = next
             /\ UNCHANGED <<config, base, copy, pkgconf, last, kills>>
             /\ x.update = setup[r].update /\ x.was = setup[r].was /\ x.code = setup[r].code
             /\ x.path = setup[r].path
             /\ link' = IF link = None THEN x.path ELSE link
<1> DEFINE x == [setup[r] EXCEPT !.pc = next]
<1>1. setup[r] \in SetupRecord
  BY DEF SetupInv, SetupTypes
<1>2. /\ x \in SetupRecord /\ x.update = setup[r].update /\ x.was = setup[r].was
      /\ x.code = setup[r].code /\ x.pc = next /\ x.path = setup[r].path
  BY <1>1 DEF SetupRecord, PastCopy
<1>3. setup' = [setup EXCEPT ![r] = x]
  BY DEF S!Link, S!To, SetupInv, SetupTypes
<1>4. /\ setup[r].pc = pc /\ UNCHANGED <<config, base, copy, pkgconf, last, kills>>
      /\ link' = IF link = None THEN setup[r].path ELSE link
  BY DEF S!Link, S!At, S!Same
<1> HIDE DEF x
<1>5. QED
  BY <1>2, <1>3, <1>4, Zenon

\* The symbolic link is made when it is missing or when the run may change it.
LEMMA LinkKeeps ==
    ASSUME SetupInv, NEW r \in Syncs, S!Link1(r) \/ S!Link2(r) \/ S!Link3(r)
    PROVE  SetupInv'
<1>1. PICK x \in SetupRecord :
             /\ setup' = [setup EXCEPT ![r] = x]
             /\ \/ setup[r].pc = "link1" /\ x.pc = "copy"
                \/ setup[r].pc = "link2" /\ x.pc = "abi"
                \/ setup[r].pc = "link3" /\ x.pc = "compare"
             /\ UNCHANGED <<config, base, copy, pkgconf, last, kills>>
             /\ x.update = setup[r].update /\ x.was = setup[r].was /\ x.code = setup[r].code
             /\ x.path = setup[r].path
             /\ link' = IF link = None THEN x.path ELSE link
  BY LinkMoves DEF S!Link1, S!Link2, S!Link3
<1>2. ASSUME last = r PROVE Knows(x)' /\ Settled(x)'
  <2>1. Knows(setup[r])
    BY <1>2, SetupAssumption DEF SetupInv, S!ConstantsRight
  <2>2. S!Has(S!Target(config)) =>
          /\ x.pc = "copy" => x.path = S!Target(config) /\ link' = x.path
          /\ x.pc = "abi" => /\ S!Has(x.path) /\ link' = x.path
                             /\ ~x.update => x.path = S!Target(config)
          /\ x.pc # "compare"
    BY <1>1, <2>1, Zenon DEF Knows, Selecting
  <2>3. x.pc \in PastCopy => IF x.was = None THEN copy = None \/ kills > 0 ELSE copy = x.was
    BY <1>1, <2>1, Zenon DEF Knows, PastCopy
  <2>4. x.pc = "compare" => x.code # 14
    BY <1>1, <2>1, Zenon DEF Knows
  <2>5. x.pc \in {"copy", "abi", "compare"}
    BY <1>1
  <2>6. Knows(x)'
    BY <1>1, <2>2, <2>3, <2>4, <2>5, SameFiles, Zenon DEF Knows, Selecting, Linked
  <2>7. Settled(x)'
    BY <2>5 DEF Settled
  <2>8. QED
    BY <2>6, <2>7
<1>3. S!Active(r) /\ (x.pc \in PastCopy \/ setup[r].pc \notin PastCopy)
  BY <1>1 DEF S!Active, PastCopy
<1>4. link' \in Published \cup {None, "plain"}
  BY <1>1 DEF SetupInv, SetupTypes, SetupRecord
<1>5. QED
  BY <1>1, <1>2, <1>3, <1>4, SetupMoves, Zenon DEF SetupInv, SetupTypes

\* What is behind the link is copied; a copy that a killed run left stays only if
\* nothing is.
LEMMA CopyKeeps ==
    ASSUME SetupInv, NEW r \in Syncs, S!Copy(r)
    PROVE  SetupInv'
<1> DEFINE p == IF setup[r].update THEN "fetch" ELSE "validate2"
           y == [setup[r] EXCEPT !.pc = p, !.was = S!Content(link)]
<1>1. setup[r] \in SetupRecord /\ setup[r].pc = "copy"
  BY DEF SetupInv, SetupTypes, S!Copy, S!At
<1>2. S!Content(link) \in Contents
  BY ContentFacts DEF SetupInv, SetupTypes
<1>3. PICK x \in SetupRecord :
         /\ setup' = [setup EXCEPT ![r] = x]
         /\ x.pc \in {"fetch", "validate2"} /\ (x.pc = "fetch" <=> x.update)
         /\ x.was = S!Content(link) /\ x.path = setup[r].path
  <2>1. p \in {"fetch", "validate2"} /\ (p = "fetch" <=> setup[r].update)
    BY <1>1, Zenon DEF SetupRecord
  <2> HIDE DEF p
  <2>2. /\ y \in SetupRecord /\ y.pc = p /\ y.was = S!Content(link)
        /\ y.path = setup[r].path /\ y.update = setup[r].update
    BY <1>1, <1>2, <2>1, Zenon DEF SetupRecord, PastCopy
  <2>3. setup' = [setup EXCEPT ![r] = y]
    BY Zenon DEF S!Copy, SetupInv, SetupTypes, p
  <2>4. QED
    BY <2>1, <2>2, <2>3, Zenon
<1>4. /\ copy' = IF S!Content(link) # None THEN S!Content(link) ELSE copy
      /\ UNCHANGED <<config, base, link, pkgconf, last, kills>>
  BY DEF S!Copy, S!Same
<1>6. ASSUME last = r PROVE Knows(x)' /\ Settled(x)'
  <2>1. Knows(setup[r])
    BY <1>6, SetupAssumption DEF SetupInv, S!ConstantsRight
  <2>2. copy = None \/ kills > 0
    <3>1. \A q \in Syncs : setup[q].pc \notin PastCopy
      BY <1>1, <1>6, SetupAssumption DEF SetupInv, Alone, S!Active, PastCopy, S!ConstantsRight
    <3>2. QED
      BY <3>1 DEF SetupInv, CopyOwned
  <2>3. IF x.was = None THEN copy' = None \/ kills > 0 ELSE copy' = x.was
    BY <1>3, <1>4, <2>2
  <2>4. S!Has(S!Target(config)) => x.path = S!Target(config) /\ S!Has(S!Target(x.path))
    BY <1>1, <1>3, <2>1, Zenon DEF Knows, Selecting, S!Target
  <2>5. Knows(x)'
    BY <1>3, <1>4, <2>3, <2>4, SameFiles, Zenon DEF Knows, Selecting
  <2>6. Settled(x)'
    BY <1>3 DEF Settled
  <2>7. QED
    BY <2>5, <2>6
<1>7. S!Active(r) /\ x.pc \in PastCopy /\ copy' \in Contents
  BY <1>1, <1>2, <1>3, <1>4 DEF S!Active, PastCopy, SetupInv, SetupTypes
<1>8. QED
  BY <1>3, <1>4, <1>6, <1>7, SetupMoves, Zenon DEF SetupInv, SetupTypes

\* In what FreeSense-repoc leaves, every selection leads to files, or none does.
LEMMA RenewedTarget ==
    ASSUME base' \in S!Renewed, NEW c, NEW p, S!Has(c)'
    PROVE  S!Has(S!Target(p))'
<1>1. base'.default # None /\ base'.file[base'.default] # None
  BY DEF S!Renewed, S!Has
<1>2. base'.default \in Published
  BY <1>1, SetupAssumption DEF S!Renewed, S!ConstantsRight
<1>3. QED
  BY <1>1, <1>2, Zenon DEF S!Has, S!Target

\* FreeSense-repoc has renewed the files, or the run ends with an error.
LEMMA SetupFetchKeeps ==
    ASSUME SetupInv, NEW r \in Syncs, S!Fetch(r)
    PROVE  SetupInv'
<1>1. /\ setup[r] \in SetupRecord /\ setup[r].pc = "fetch"
      /\ UNCHANGED <<config, link, pkgconf, last, kills>>
  BY DEF SetupInv, SetupTypes, S!Fetch, S!At, S!Same
<1>2. S!Active(r)
  BY <1>1 DEF S!Active
<1>3. CASE base' \in S!Renewed /\ S!To(r, "validate2") /\ UNCHANGED copy
  <2>1. PICK x \in SetupRecord : /\ setup' = [setup EXCEPT ![r] = x] /\ x.pc = "validate2"
                                  /\ x.update = setup[r].update /\ x.was = setup[r].was
    <3> DEFINE y == [setup[r] EXCEPT !.pc = "validate2"]
    <3>1. /\ y \in SetupRecord /\ y.pc = "validate2" /\ y.update = setup[r].update
          /\ y.was = setup[r].was
      BY <1>1 DEF SetupRecord, PastCopy
    <3>2. setup' = [setup EXCEPT ![r] = y]
      BY <1>3 DEF S!To, SetupInv, SetupTypes
    <3>3. QED
      BY <3>1, <3>2, Zenon
  <2>3. ASSUME last = r PROVE Knows(x)' /\ Settled(x)'
    <3>1. Knows(setup[r])
      BY <2>3, SetupAssumption DEF SetupInv, S!ConstantsRight
    <3>2. x.update /\ IF x.was = None THEN copy = None \/ kills > 0 ELSE copy = x.was
      BY <1>1, <2>1, <3>1, Zenon DEF Knows, PastCopy
    <3>3. S!Has(S!Target(config))' => S!Has(S!Target(x.path))'
      BY <1>3, RenewedTarget, Zenon
    <3>4. S!Has(S!Target(config))' => Selecting(x)'
      BY <2>1, <3>2, <3>3, Zenon DEF Selecting
    <3>5. Knows(x)'
      BY <1>1, <1>3, <2>1, <3>2, <3>4, Zenon DEF Knows
    <3>6. Settled(x)'
      BY <2>1 DEF Settled
    <3>7. QED
      BY <3>5, <3>6
  <2>4. base' \in Bases /\ x.pc \in PastCopy
    BY <1>3, <2>1 DEF S!Renewed, PastCopy
  <2>5. QED
    BY <1>1, <1>2, <1>3, <2>1, <2>3, <2>4, SetupMoves, Zenon DEF SetupInv, SetupTypes
<1>4. CASE /\ setup' = [setup EXCEPT ![r].pc = "end", ![r].code = 1]
           /\ copy' = None /\ UNCHANGED base
  <2>1. PICK x \in SetupRecord : /\ setup' = [setup EXCEPT ![r] = x]
                                  /\ x.pc = "end" /\ x.code = 1
    <3> DEFINE y == [setup[r] EXCEPT !.pc = "end", !.code = 1]
    <3>1. y \in SetupRecord /\ y.pc = "end" /\ y.code = 1
      BY <1>1, Zenon DEF SetupRecord
    <3>2. setup' = [setup EXCEPT ![r] = y]
      BY <1>4, Zenon DEF SetupInv, SetupTypes
    <3>3. QED
      BY <3>1, <3>2, Zenon
  <2>3. Knows(x)' /\ Settled(x)'
    BY <2>1, Zenon DEF Knows, Settled, Selecting, PastCopy
  <2>4. copy' \in Contents
    BY <1>4 DEF Contents
  <2>5. QED
    BY <1>1, <1>2, <1>4, <2>1, <2>3, <2>4, SetupMoves, Zenon DEF SetupInv, SetupTypes
<1>5. QED
  BY <1>3, <1>4 DEF S!Fetch

\* A command of abi_setup that leaves the files, the link and the copy alone.
LEMMA AbiMoves ==
    ASSUME SetupInv, NEW r \in Syncs, NEW x \in SetupRecord, setup' = [setup EXCEPT ![r] = x],
           setup[r].pc \in {"abi", "clear", "write", "select"},
           x.pc \in {"clear", "write", "select", "compare"},
           UNCHANGED <<config, base, link, copy, last, kills>>,
           x.path = setup[r].path, x.update = setup[r].update, x.was = setup[r].was,
           x.pc = "compare" => x.code # 14,
           last = r /\ S!Has(S!Target(config)) =>
              /\ x.pc \in {"clear", "write"} => x.abi = S!AbiOf(link)
              /\ x.pc = "select" \/ (x.pc = "compare" /\ x.code # 1)
                   => pkgconf'.abi = S!AbiOf(link)
    PROVE  SetupInv'
<1>1. ASSUME last = r PROVE Knows(x)' /\ Settled(x)'
  <2>1. Knows(setup[r])
    BY <1>1, SetupAssumption DEF SetupInv, S!ConstantsRight
  <2>2. IF x.was = None THEN copy = None \/ kills > 0 ELSE copy = x.was
    BY <2>1 DEF Knows, PastCopy
  <2>3. S!Has(S!Target(config)) =>
          /\ S!Has(x.path) /\ link = x.path /\ (~x.update => x.path = S!Target(config))
    BY <2>1, Zenon DEF Knows, Selecting, Linked
  <2>4. S!Has(S!Target(config))' => Selecting(x)'
    BY <1>1, <2>3, SameFiles, Zenon DEF Selecting, Linked
  <2>5. Knows(x)'
    BY <2>2, <2>4, Zenon DEF Knows
  <2>6. Settled(x)'
    BY Zenon DEF Settled
  <2>7. QED
    BY <2>5, <2>6, Zenon
<1>2. S!Active(r) /\ x.pc \in PastCopy
  BY Zenon DEF S!Active, PastCopy
<1>3. QED
  BY <1>1, <1>2, SetupMoves, Zenon DEF SetupInv, SetupTypes

\* The ABI of the linked channel is read, unless its osversion is bad.
LEMMA ReadAbiKeeps ==
    ASSUME SetupInv, NEW r \in Syncs, S!ReadAbi(r)
    PROVE  SetupInv'
<1> DEFINE f == S!LinkedFiles(r)
           abi == IF f = None \/ f.abi = None THEN "cur" ELSE f.abi
           osv == IF f = None \/ f.osv = None THEN "cur" ELSE f.osv
<1>1. /\ setup[r] \in SetupRecord /\ setup[r].pc = "abi"
      /\ UNCHANGED <<config, base, link, copy, pkgconf, last, kills>>
  BY DEF SetupInv, SetupTypes, S!ReadAbi, S!At, S!Same, S!disk
<1>2. abi \in {"cur", "next"} /\ osv \in {"cur", "next", "bad"} /\ abi = S!AbiOf(link)
  <2>1. CASE S!Has(link)
    <3>1. link \in Published /\ base.file[link] # None /\ f = base.file[link]
      BY <2>1 DEF S!Has, S!LinkedFiles
    <3>2. /\ base.file[link].abi \in {None, "cur", "next"}
          /\ base.file[link].osv \in {None, "bad", "cur", "next"}
      BY <3>1, BaseFacts DEF SetupInv
    <3> HIDE DEF f
    <3>3. QED
      BY <2>1, <3>1, <3>2 DEF S!AbiOf
  <2>2. CASE ~S!Has(link)
    <3>1. f = None
      BY <2>2 DEF S!LinkedFiles
    <3> HIDE DEF f
    <3>2. QED
      BY <2>2, <3>1 DEF S!AbiOf
  <2>3. QED
    BY <2>1, <2>2, Zenon
<1>3. setup' = [setup EXCEPT ![r] =
                  IF osv = "bad" THEN [setup[r] EXCEPT !.pc = "compare", !.code = 1]
                  ELSE [setup[r] EXCEPT !.pc = "clear", !.abi = abi, !.osv = osv]]
  BY DEF S!ReadAbi, SetupInv, SetupTypes
<1> HIDE DEF f, abi, osv
<1>4. PICK x \in SetupRecord :
        /\ setup' = [setup EXCEPT ![r] = x] /\ x.path = setup[r].path
        /\ x.update = setup[r].update /\ x.was = setup[r].was
        /\ \/ x.pc = "compare" /\ x.code = 1
           \/ x.pc = "clear" /\ x.abi = abi
  <2>1. CASE osv = "bad"
    <3> DEFINE y == [setup[r] EXCEPT !.pc = "compare", !.code = 1]
    <3>1. /\ y \in SetupRecord /\ y.path = setup[r].path /\ y.pc = "compare" /\ y.code = 1
          /\ y.update = setup[r].update /\ y.was = setup[r].was
      BY <1>1, Zenon DEF SetupRecord, PastCopy
    <3>2. QED
      BY <1>3, <2>1, <3>1, Zenon
  <2>2. CASE osv # "bad"
    <3> DEFINE y == [setup[r] EXCEPT !.pc = "clear", !.abi = abi, !.osv = osv]
    <3>1. /\ y \in SetupRecord /\ y.path = setup[r].path /\ y.pc = "clear" /\ y.abi = abi
          /\ y.update = setup[r].update /\ y.was = setup[r].was
      BY <1>1, <1>2, <2>2, Zenon DEF SetupRecord, PastCopy
    <3>2. QED
      BY <1>3, <2>2, <3>1, Zenon
  <2>3. QED
    BY <2>1, <2>2
<1>5. /\ x.pc \in {"clear", "compare"} /\ (x.pc = "compare" => x.code = 1)
      /\ x.pc \in {"clear", "write"} => x.abi = S!AbiOf(link)
  BY <1>2, <1>4
<1>6. x.pc \in {"clear", "write", "select", "compare"} /\ x.pc # "select"
      /\ (x.pc = "compare" => x.code # 14 /\ ~(x.code # 1))
  BY <1>5
<1>7. QED
  BY <1>1, <1>4, <1>5, <1>6, AbiMoves, Zenon

\* pkg.conf is emptied and written.
LEMMA ConfKeeps ==
    ASSUME SetupInv, NEW r \in Syncs, S!ClearConf(r) \/ S!WriteConf(r)
    PROVE  SetupInv'
<1>1. /\ setup[r] \in SetupRecord /\ setup[r].pc \in {"clear", "write"}
      /\ UNCHANGED <<config, base, link, copy, last, kills>>
  BY DEF SetupInv, SetupTypes, S!ClearConf, S!WriteConf, S!At, S!Same
<1>2. ASSUME last = r, S!Has(S!Target(config)) PROVE setup[r].abi = S!AbiOf(link)
  BY <1>1, <1>2, SetupAssumption DEF SetupInv, Knows, Selecting, S!ConstantsRight
<1>3. ASSUME NEW p \in {"write", "select"}, S!To(r, p)
      PROVE  \E x \in SetupRecord :
               /\ setup' = [setup EXCEPT ![r] = x] /\ x.pc = p /\ x.path = setup[r].path
               /\ x.update = setup[r].update /\ x.was = setup[r].was /\ x.abi = setup[r].abi
  <2> DEFINE y == [setup[r] EXCEPT !.pc = p]
  <2>1. /\ y \in SetupRecord /\ y.pc = p /\ y.path = setup[r].path
        /\ y.update = setup[r].update /\ y.was = setup[r].was /\ y.abi = setup[r].abi
    BY <1>1 DEF SetupRecord, PastCopy
  <2>2. setup' = [setup EXCEPT ![r] = y]
    BY <1>3 DEF S!To, SetupInv, SetupTypes
  <2>3. QED
    BY <2>1, <2>2, Zenon
<1>4. CASE S!ClearConf(r)
  <2>1. S!To(r, "write")
    BY <1>4 DEF S!ClearConf
  <2>2. PICK x \in SetupRecord :
          /\ setup' = [setup EXCEPT ![r] = x] /\ x.pc = "write" /\ x.path = setup[r].path
          /\ x.update = setup[r].update /\ x.was = setup[r].was /\ x.abi = setup[r].abi
    BY <1>3, <2>1, Zenon
  <2>3. /\ setup[r].pc \in {"abi", "clear", "write", "select"}
        /\ x.pc \in {"clear", "write", "select", "compare"} /\ x.pc \notin {"select", "compare"}
    BY <1>1, <2>2
  <2>4. QED
    BY <1>1, <1>2, <2>2, <2>3, AbiMoves, Zenon
<1>5. CASE S!WriteConf(r)
  <2>1. S!To(r, "select") /\ pkgconf'.abi = setup[r].abi
    BY <1>5 DEF S!WriteConf
  <2>2. PICK x \in SetupRecord :
          /\ setup' = [setup EXCEPT ![r] = x] /\ x.pc = "select" /\ x.path = setup[r].path
          /\ x.update = setup[r].update /\ x.was = setup[r].was /\ x.abi = setup[r].abi
    BY <1>3, <2>1, Zenon
  <2>3. /\ setup[r].pc \in {"abi", "clear", "write", "select"}
        /\ x.pc \in {"clear", "write", "select", "compare"}
        /\ x.pc \notin {"clear", "write", "compare"}
    BY <1>1, <2>2
  <2>4. QED
    BY <1>1, <1>2, <2>1, <2>2, <2>3, AbiMoves, Zenon
<1>6. QED
  BY <1>4, <1>5

\* The link is looked at once more, and the exit status is determined.
LEMMA SelectKeeps ==
    ASSUME SetupInv, NEW r \in Syncs, S!Select(r)
    PROVE  SetupInv'
<1>1. /\ setup[r] \in SetupRecord /\ setup[r].pc = "select"
      /\ UNCHANGED <<config, base, copy, pkgconf, last, kills>>
  BY DEF SetupInv, SetupTypes, S!Select, S!At, S!Same
<1>2. S!Code(r) \in {0, 11, 12, 13}
  BY DEF S!Code
<1>3. ASSUME NEW p \in {"link3", "compare"},
             setup' = [setup EXCEPT ![r].pc = p, ![r].code = S!Code(r)]
      PROVE  \E x \in SetupRecord :
               /\ setup' = [setup EXCEPT ![r] = x] /\ x.pc = p /\ x.path = setup[r].path
               /\ x.update = setup[r].update /\ x.was = setup[r].was /\ x.code # 14
  <2> DEFINE y == [setup[r] EXCEPT !.pc = p, !.code = S!Code(r)]
  <2>1. /\ y \in SetupRecord /\ y.pc = p /\ y.path = setup[r].path /\ y.code = S!Code(r)
        /\ y.update = setup[r].update /\ y.was = setup[r].was
    BY <1>1, <1>2, Zenon DEF SetupRecord, PastCopy
  <2>2. setup' = [setup EXCEPT ![r] = y]
    BY <1>3, Zenon DEF SetupInv, SetupTypes
  <2>3. S!Code(r) # 14
    BY <1>2
  <2>4. QED
    BY <2>1, <2>2, <2>3, Zenon
<1>4. CASE S!Has(setup[r].path) /\ link # setup[r].path
  <2>1. /\ setup' = [setup EXCEPT ![r].pc = "link3", ![r].code = S!Code(r)]
        /\ link' = None
    BY <1>4 DEF S!Select
  <2>2. PICK x \in SetupRecord :
               /\ setup' = [setup EXCEPT ![r] = x] /\ x.pc = "link3" /\ x.path = setup[r].path
               /\ x.update = setup[r].update /\ x.was = setup[r].was /\ x.code # 14
    BY <1>3, <2>1, Zenon
  <2>3. ASSUME last = r PROVE Knows(x)' /\ Settled(x)'
    <3>1. Knows(setup[r])
      BY <2>3, SetupAssumption DEF SetupInv, S!ConstantsRight
    <3>2. ~S!Has(S!Target(config))
      BY <1>1, <1>4, <3>1, Zenon DEF Knows, Selecting, Linked
    <3>3. IF x.was = None THEN copy = None \/ kills > 0 ELSE copy = x.was
      BY <1>1, <2>2, <3>1, Zenon DEF Knows, PastCopy
    <3>4. QED
      BY <1>1, <2>2, <3>2, <3>3, SameFiles, Zenon DEF Knows, Settled
  <2>4. S!Active(r) /\ x.pc \in PastCopy
    BY <1>1, <2>2, Zenon DEF S!Active, PastCopy
  <2>5. QED
    BY <1>1, <2>1, <2>2, <2>3, <2>4, SetupMoves, Zenon DEF SetupInv, SetupTypes
<1>5. CASE ~(S!Has(setup[r].path) /\ link # setup[r].path)
  <2>1. /\ setup' = [setup EXCEPT ![r].pc = "compare", ![r].code = S!Code(r)]
        /\ link' = link
    BY <1>5 DEF S!Select
  <2>2. ASSUME last = r, S!Has(S!Target(config)) PROVE pkgconf.abi = S!AbiOf(link)
    BY <1>1, <2>2, SetupAssumption DEF SetupInv, Knows, Selecting, S!ConstantsRight
  <2>3. PICK x \in SetupRecord :
               /\ setup' = [setup EXCEPT ![r] = x] /\ x.pc = "compare" /\ x.path = setup[r].path
               /\ x.update = setup[r].update /\ x.was = setup[r].was /\ x.code # 14
    BY <1>3, <2>1, Zenon
  <2>4. QED
    BY <1>1, <2>1, <2>2, <2>3, AbiMoves, Zenon
<1>6. QED
  BY <1>4, <1>5

\* The run ends: what is behind the link is compared with the copy.
LEMMA CompareKeeps ==
    ASSUME SetupInv, NEW r \in Syncs, S!Compare(r)
    PROVE  SetupInv'
<1> DEFINE code == IF setup[r].code = 0 /\ (copy = None \/ S!Content(link) # copy)
                   THEN 14 ELSE setup[r].code
<1>1. /\ setup[r] \in SetupRecord /\ setup[r].pc = "compare" /\ copy' = None
      /\ UNCHANGED <<config, base, link, pkgconf, last, kills>>
  BY DEF SetupInv, SetupTypes, S!Compare, S!At, S!Same
<1>2. code \in {0, 1, 11, 12, 13, 14}
  BY <1>1, Zenon DEF SetupRecord
<1>3. PICK x \in SetupRecord :
        /\ setup' = [setup EXCEPT ![r] = x] /\ x.pc = "end" /\ x.path = setup[r].path
        /\ x.update = setup[r].update /\ x.was = setup[r].was /\ x.code = code
  <2> DEFINE y == [setup[r] EXCEPT !.pc = "end", !.code = code]
  <2>1. setup' = [setup EXCEPT ![r] = y]
    BY Zenon DEF S!Compare, SetupInv, SetupTypes
  <2> HIDE DEF code
  <2>2. /\ y \in SetupRecord /\ y.pc = "end" /\ y.path = setup[r].path
        /\ y.update = setup[r].update /\ y.was = setup[r].was /\ y.code = code
    BY <1>1, <1>2, Zenon DEF SetupRecord
  <2>3. QED
    BY <2>1, <2>2, Zenon
<1>4. ASSUME last = r PROVE Knows(x)' /\ Settled(x)'
  <2>1. Knows(setup[r])
    BY <1>4, SetupAssumption DEF SetupInv, S!ConstantsRight
  <2>2. Knows(x)'
    BY <1>3, Zenon DEF Knows, Selecting, PastCopy
  <2>3. ASSUME x.code # 1, S!Has(S!Target(config))
        PROVE  /\ Linked(x) /\ pkgconf.abi = S!AbiOf(link)
               /\ x.code = 0 => S!Content(link) = x.was \/ (x.was = None /\ kills > 0)
               /\ x.code = 14 => S!Content(link) # x.was
    <3>1. setup[r].code # 1 /\ setup[r].code # 14 /\ Selecting(setup[r])
      BY <1>1, <1>3, <2>1, <2>3, Zenon DEF Knows
    <3>2. Linked(x) /\ pkgconf.abi = S!AbiOf(link)
      BY <1>1, <1>3, <3>1, Zenon DEF Selecting, Linked
    <3>3. S!Content(link) # None
      BY <3>2, ContentFacts DEF Linked, SetupInv, SetupTypes
    <3>4. IF x.was = None THEN copy = None \/ kills > 0 ELSE copy = x.was
      BY <1>1, <1>3, <2>1, Zenon DEF Knows, PastCopy
    <3>5. QED
      BY <1>3, <3>1, <3>2, <3>3, <3>4, Zenon
  <2>4. Settled(x)'
    BY <1>1, <1>3, <2>3, SameFiles, Zenon DEF Settled, Linked
  <2>5. QED
    BY <2>2, <2>4
<1>5. S!Active(r) /\ copy' \in Contents
  BY <1>1, Zenon DEF S!Active, Contents
<1>6. QED
  BY <1>1, <1>3, <1>4, <1>5, SetupMoves, Zenon DEF SetupInv, SetupTypes

\* A run is killed.
LEMMA SetupKillKeeps ==
    ASSUME SetupInv, NEW r \in Syncs, S!Kill(r)
    PROVE  SetupInv'
<1>1. /\ setup[r] \in SetupRecord /\ S!Active(r) /\ kills \in Nat /\ kills' = kills + 1
      /\ UNCHANGED <<config, base, link, copy, pkgconf, last>>
  BY DEF SetupInv, SetupTypes, S!Kill, S!disk
<1>2. PICK x \in SetupRecord : setup' = [setup EXCEPT ![r] = x] /\ x.pc = "killed"
  <2> DEFINE y == [setup[r] EXCEPT !.pc = "killed"]
  <2>1. y \in SetupRecord /\ y.pc = "killed"
    BY <1>1 DEF SetupRecord
  <2>2. setup' = [setup EXCEPT ![r] = y]
    BY DEF S!Kill, S!To, SetupInv, SetupTypes
  <2>3. QED
    BY <2>1, <2>2, Zenon
<1>3. Knows(x)' /\ Settled(x)'
  BY <1>2, Zenon DEF Knows, Settled, Selecting, PastCopy
<1>4. kills' \in Nat /\ kills' > 0
  BY <1>1
<1>5. QED
  BY <1>1, <1>2, <1>3, <1>4, SetupMoves, Zenon DEF SetupInv, SetupTypes

\* A run begins; it is the latest unless another is active.
LEMMA SetupBeginKeeps ==
    ASSUME SetupInv, NEW r \in Syncs, S!Begin(r)
    PROVE  SetupInv'
<1>1. /\ ~S!Active(r) /\ UNCHANGED <<config, base, link, copy, pkgconf, kills>>
      /\ last' = IF \E q \in Syncs \ {r} : S!Active(q) THEN None ELSE r
  BY DEF S!Begin, S!disk
<1>2. PICK x \in SetupRecord :
        /\ setup' = [setup EXCEPT ![r] = x] /\ x.pc = "validate1"
        /\ x.path = IF config # None THEN config ELSE base.default
  <2>1. PICK u \in BOOLEAN :
          setup' = [setup EXCEPT ![r] =
            [S!Idle EXCEPT !.pc = "validate1", !.update = u,
                           !.path = IF config # None THEN config ELSE base.default]]
    BY Zenon DEF S!Begin
  <2> DEFINE p == IF config # None THEN config ELSE base.default
             y == [S!Idle EXCEPT !.pc = "validate1", !.update = u, !.path = p]
  <2>2. p \in Published \cup {None}
    BY BaseFacts DEF SetupInv, SetupTypes
  <2> HIDE DEF p
  <2>3. y \in SetupRecord /\ y.pc = "validate1" /\ y.path = p
    BY <2>2, Zenon DEF S!Idle, SetupRecord, Contents
  <2>4. QED
    BY <2>1, <2>3, Zenon DEF p
<1>3. setup'[r] = x /\ \A q \in Syncs \ {r} : setup'[q] = setup[q]
  BY <1>2 DEF SetupInv, SetupTypes
<1>4. SetupTypes'
  BY <1>1, <1>2 DEF SetupInv, SetupTypes
<1>5. Alone'
  BY <1>1, <1>3 DEF Alone, S!Active
<1>6. CopyOwned'
  BY <1>1, <1>3, Zenon DEF SetupInv, CopyOwned, S!Active, PastCopy
<1>7. ASSUME last' # None PROVE Knows(setup[last])' /\ Settled(setup[last])'
  <2>1. last' = r /\ setup'[last'] = x
    BY <1>1, <1>3, <1>7, Zenon
  <2>2. Knows(x)' /\ Settled(x)'
    BY <1>1, <1>2, Zenon DEF Knows, Settled, Selecting, PastCopy
  <2>3. Knows(setup[last])'
    BY <2>1, <2>2, Zenon DEF Knows, Selecting, Linked
  <2>4. Settled(setup[last])'
    BY <2>1, <2>2, Zenon DEF Settled, Linked
  <2>5. QED
    BY <2>3, <2>4
<1>8. QED
  BY <1>4, <1>5, <1>6, <1>7, Zenon DEF SetupInv

\* Another channel is selected: no run is the latest any more.
LEMMA ChooseKeeps ==
    ASSUME SetupInv, NEW c \in Published \cup {None}, S!Choose(c)
    PROVE  SetupInv'
<1>1. /\ config' = c /\ last' = None
      /\ UNCHANGED <<base, link, pkgconf, copy, setup, kills>>
  BY DEF S!Choose
<1>2. QED
  BY <1>1 DEF SetupInv, SetupTypes, Alone, CopyOwned

\* Nothing of FreeSense-repo-setup changes.
LEMMA SetupSame ==
    ASSUME SetupInv, UNCHANGED setups
    PROVE  SetupInv'
<1>1. UNCHANGED <<config, base, link, pkgconf, copy, setup, last, kills>>
  BY DEF setups
<1>2. SetupTypes' /\ Alone' /\ CopyOwned'
  BY <1>1 DEF SetupInv, SetupTypes, Alone, CopyOwned, S!Active
<1>3. last # None => Knows(setup[last])' /\ Settled(setup[last])'
  BY <1>1, SameFiles, Zenon DEF SetupInv, Knows, Settled, Selecting, Linked
<1>4. QED
  BY <1>1, <1>2, <1>3 DEF SetupInv

\* A firewall on which FreeSense-repo-setup has not run.
LEMMA SetupInit == S!Init => SetupInv
<1> SUFFICES ASSUME S!Init PROVE SetupInv
  OBVIOUS
<1>1. S!Idle \in SetupRecord
  BY DEF S!Idle, SetupRecord, Contents
<1>2. QED
  BY <1>1, Zenon DEF S!Init, SetupInv, SetupTypes, Alone, CopyOwned, Contents

\* Every step of FreeSense-repo-setup keeps its invariant.
LEMMA SetupKept == SetupInv /\ S!Next => SetupInv'
<1> SUFFICES ASSUME SetupInv, S!Next PROVE SetupInv'
  OBVIOUS
<1>1. ASSUME NEW r \in Syncs, S!Step(r) PROVE SetupInv'
  BY <1>1, SetupBeginKeeps, Validate1Keeps, LinkKeeps, CopyKeeps, SetupFetchKeeps,
     Validate2Keeps, ReadAbiKeeps, ConfKeeps, SelectKeeps, CompareKeeps, SetupKillKeeps
     DEF S!Step
<1>2. QED
  BY <1>1, ChooseKeeps DEF S!Next

-----------------------------------------------------------------------------
\* FreeSense-repoc and FreeSense-repo-setup: in every behaviour of either, with any
\* runs, channels, documents and files, pkg finds the files of the selected channel,
\* and a run of FreeSense-repo-setup without another one beside it leaves the link,
\* pkg.conf and its exit status right, whatever killed runs have left behind.
THEOREM ReposAlwaysRight == SpecAll => []ReposRight
<1>1. InitAll => RepoInv /\ SetupInv
  BY InitRight, SetupInit DEF InitAll
<1>2. RepoInv /\ SetupInv /\ [NextAll]_all => RepoInv' /\ SetupInv'
  <2> SUFFICES ASSUME RepoInv, SetupInv, [NextAll]_all PROVE RepoInv' /\ SetupInv'
    OBVIOUS
  <2>1. CASE Next /\ UNCHANGED setups
    BY <2>1, InvKept, SetupSame
  <2>2. CASE S!Next /\ UNCHANGED vars
    BY <2>2, InvKept, SetupKept
  <2>3. CASE UNCHANGED all
    BY <2>3, InvKept, SetupSame DEF all
  <2>4. QED
    BY <2>1, <2>2, <2>3 DEF NextAll
<1>3. RepoInv /\ SetupInv => ReposRight
  <2> SUFFICES ASSUME RepoInv, SetupInv PROVE ReposRight
    OBVIOUS
  <2>1. S!RepoSettled
    <3> SUFFICES ASSUME last # None, setup[last].pc = "end", setup[last].code # 1,
                        S!Has(S!Target(config))
                 PROVE  /\ S!Has(link)
                        /\ ~setup[last].update => link = S!Target(config)
                        /\ pkgconf.abi = S!AbiOf(link)
                        /\ setup[last].code = 0 => \/ S!Content(link) = setup[last].was
                                                   \/ setup[last].was = None /\ kills > 0
                        /\ setup[last].code = 14 => S!Content(link) # setup[last].was
      BY Zenon DEF S!RepoSettled
    <3>1. QED
      BY Zenon DEF SetupInv, Settled, Linked
  <2>2. QED
    BY <2>1, InvUsable DEF ReposRight
<1>4. QED
  BY <1>1, <1>2, <1>3, PTL DEF SpecAll
===============================================================================
