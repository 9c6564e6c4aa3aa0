---------------------------- MODULE RunQueueProofs ----------------------------
(***************************************************************************)
(* RunQueue for any command table, any number of events and any failures:  *)
(* the queue is well typed, holds at most two entries per aggregated       *)
(* command, no entry of an aggregated command loses its timer, and only    *)
(* the completion of a request uncovers an event that is owed.             *)
(***************************************************************************)
EXTENDS RunQueue, SequenceTheorems, TLAPS

\* An entry counts for aggregation exactly when its command is aggregated.
CountsIfAggregate ==
    \A i \in DOMAIN cmds : cmds[i].command \in Aggregate <=> cmds[i].aggregate > 0

\* The inductive invariant.
QueueInv == TypeOK /\ CountsIfAggregate /\ AtMostTwoEntries /\ NoWedgedEntry

-----------------------------------------------------------------------------
\* Removing entry i shifts the later entries down by one and changes none.
LEMMA RemoveFacts ==
    ASSUME NEW S, NEW q \in Seq(S), NEW i \in DOMAIN q
    PROVE  /\ Remove(q, i) \in Seq(S)
           /\ Len(Remove(q, i)) = Len(q) - 1
           /\ \A k \in 1..(Len(q) - 1) :
                 Remove(q, i)[k] = IF k < i THEN q[k] ELSE q[k + 1]
<1> DEFINE a == SubSeq(q, 1, i - 1)
           b == SubSeq(q, i + 1, Len(q))
<1>0. Len(q) \in Nat /\ DOMAIN q = 1..Len(q) /\ \A k \in 1..Len(q) : q[k] \in S
  BY LenProperties, ElementOfSeq
<1>1. /\ a \in Seq(S) /\ Len(a) = i - 1
      /\ \A k \in 1..(i - 1) : a[k] = q[k]
  BY <1>0, SubSeqProperties
<1>2. /\ b \in Seq(S) /\ Len(b) = Len(q) - i
      /\ \A k \in 1..(Len(q) - i) : b[k] = q[k + i]
  <2>1. \A k \in (i + 1)..Len(q) : q[k] \in S
    BY <1>0
  <2>2. /\ b \in Seq(S)
        /\ Len(b) = IF i + 1 <= Len(q) THEN Len(q) - (i + 1) + 1 ELSE 0
        /\ \A k \in 1..(Len(q) - (i + 1) + 1) : b[k] = q[(i + 1) + k - 1]
    BY <1>0, <2>1, SubSeqProperties
  <2> HIDE DEF b
  <2>3. ASSUME NEW k \in 1..(Len(q) - i)
        PROVE  b[k] = q[k + i]
    <3>1. k \in 1..(Len(q) - (i + 1) + 1) /\ (i + 1) + k - 1 = k + i
      BY <1>0
    <3>2. QED
      BY <2>2, <3>1
  <2>4. Len(b) = Len(q) - i
    BY <1>0, <2>2
  <2>5. QED
    BY <2>2, <2>3, <2>4
<1> HIDE DEF a, b
<1>3. /\ a \o b \in Seq(S) /\ Len(a \o b) = Len(a) + Len(b)
      /\ \A k \in 1..(Len(a) + Len(b)) :
            (a \o b)[k] = IF k <= Len(a) THEN a[k] ELSE b[k - Len(a)]
  BY <1>1, <1>2, ConcatProperties
<1>4. Remove(q, i) = a \o b
  BY DEF Remove, a, b
<1>5. ASSUME NEW k \in 1..(Len(q) - 1)
      PROVE  (a \o b)[k] = IF k < i THEN q[k] ELSE q[k + 1]
  <2>1. CASE k < i
    <3>0. k \in 1..(Len(a) + Len(b)) /\ k <= Len(a) /\ k \in 1..(i - 1)
      BY <2>1, <1>0, <1>1, <1>2
    <3>1. (a \o b)[k] = a[k]
      BY <3>0, <1>3
    <3> QED
      BY <2>1, <3>0, <3>1, <1>1
  <2>2. CASE ~(k < i)
    <3>0. k \in 1..(Len(a) + Len(b)) /\ ~(k <= Len(a))
      BY <2>2, <1>0, <1>1, <1>2
    <3>1. (a \o b)[k] = b[k - Len(a)]
      BY <3>0, <1>3
    <3>2. k - Len(a) \in 1..(Len(q) - i) /\ (k - Len(a)) + i = k + 1
      BY <2>2, <1>0, <1>1
    <3>3. QED
      BY <2>2, <3>1, <3>2, <1>2
  <2>3. QED
    BY <2>1, <2>2
<1>6. Len(a \o b) = Len(q) - 1
  BY <1>0, <1>1, <1>2, <1>3
<1>7. QED
  BY <1>3, <1>4, <1>5, <1>6

\* Inserting at the head shifts every entry up by one and changes none.
LEMMA InsertHeadFacts ==
    ASSUME NEW S, NEW q \in Seq(S), NEW e \in S
    PROVE  /\ InsertHead(q, e) \in Seq(S)
           /\ Len(InsertHead(q, e)) = Len(q) + 1
           /\ InsertHead(q, e)[1] = e
           /\ \A k \in 2..(Len(q) + 1) : InsertHead(q, e)[k] = q[k - 1]
<1>1. <<e>> \in Seq(S) /\ Len(<<e>>) = 1 /\ <<e>>[1] = e
  OBVIOUS
<1>2. Len(q) \in Nat
  BY LenProperties
<1>3. QED
  BY <1>1, <1>2, ConcatProperties DEF InsertHead

-----------------------------------------------------------------------------
\* A step that keeps every entry's place, command and aggregate keeps the shape.
LEMMA SameShape ==
    ASSUME QueueInv, Len(cmds') = Len(cmds), cmds' \in Seq(Entry),
           \A k \in 1..Len(cmds) : /\ cmds'[k].command = cmds[k].command
                                   /\ cmds'[k].aggregate = cmds[k].aggregate
    PROVE  CountsIfAggregate' /\ AtMostTwoEntries'
<1>1. DOMAIN cmds = 1..Len(cmds) /\ DOMAIN cmds' = 1..Len(cmds)
  BY LenProperties DEF QueueInv, TypeOK
<1>2. QED
  BY <1>1 DEF QueueInv, CountsIfAggregate, AtMostTwoEntries

\* Removing an entry keeps the shape, and wedges no entry.
LEMMA RemovalKeepsShape ==
    ASSUME QueueInv, NEW i \in DOMAIN cmds, cmds' = Remove(cmds, i)
    PROVE  /\ cmds' \in Seq(Entry)
           /\ CountsIfAggregate' /\ AtMostTwoEntries' /\ NoWedgedEntry'
<1>1. cmds \in Seq(Entry) /\ DOMAIN cmds = 1..Len(cmds) /\ Len(cmds) \in Nat
  BY LenProperties DEF QueueInv, TypeOK
<1>2. /\ cmds' \in Seq(Entry)
      /\ Len(cmds') = Len(cmds) - 1
      /\ \A k \in 1..(Len(cmds) - 1) :
            cmds'[k] = IF k < i THEN cmds[k] ELSE cmds[k + 1]
  BY <1>1, RemoveFacts
<1>3. DOMAIN cmds' = 1..(Len(cmds) - 1)
  BY <1>2, LenProperties
<1>4. CountsIfAggregate'
  <2> SUFFICES ASSUME NEW k \in DOMAIN cmds'
               PROVE  cmds'[k].command \in Aggregate <=> cmds'[k].aggregate > 0
    BY DEF CountsIfAggregate
  <2>1. k \in DOMAIN cmds /\ k + 1 \in DOMAIN cmds
    BY <1>1, <1>3
  <2>2. QED
    BY <2>1, <1>2, <1>3 DEF QueueInv, CountsIfAggregate
<1>5. NoWedgedEntry'
  <2> SUFFICES ASSUME NEW k \in DOMAIN cmds', cmds'[k].aggregate > 0, ~cmds'[k].timer
               PROVE  cmds'[k].command \notin FcgiCmd /\ ~cmds'[k].dontexec
    BY DEF NoWedgedEntry
  <2>1. k \in DOMAIN cmds /\ k + 1 \in DOMAIN cmds
    BY <1>1, <1>3
  <2>2. QED
    BY <2>1, <1>2, <1>3 DEF QueueInv, NoWedgedEntry
<1>6. AtMostTwoEntries'
  <2> SUFFICES ASSUME NEW k \in DOMAIN cmds', NEW l \in DOMAIN cmds', k < l,
                      cmds'[k].command = cmds'[l].command,
                      cmds'[k].command \in Aggregate
               PROVE  cmds'[k].aggregate = 2 /\ cmds'[l].aggregate = 1
    BY DEF AtMostTwoEntries
  <2>1. PICK m \in DOMAIN cmds, n \in DOMAIN cmds :
           m < n /\ cmds'[k] = cmds[m] /\ cmds'[l] = cmds[n]
    <3>1. /\ k \in DOMAIN cmds /\ k + 1 \in DOMAIN cmds
          /\ l \in DOMAIN cmds /\ l + 1 \in DOMAIN cmds
          /\ i \in Int /\ k \in Int /\ l \in Int
      BY <1>1, <1>3
    <3>2. CASE l < i
      <4>1. k < i /\ cmds'[k] = cmds[k] /\ cmds'[l] = cmds[l]
        BY <3>1, <3>2, <1>2, <1>3
      <4>2. QED
        BY <3>1, <4>1
    <3>3. CASE k < i /\ ~(l < i)
      <4>1. k < l + 1 /\ cmds'[k] = cmds[k] /\ cmds'[l] = cmds[l + 1]
        BY <3>1, <3>3, <1>2, <1>3
      <4>2. QED
        BY <3>1, <4>1
    <3>4. CASE ~(k < i)
      <4>1. ~(l < i) /\ k + 1 < l + 1
        BY <3>1, <3>4
      <4>2. cmds'[k] = cmds[k + 1] /\ cmds'[l] = cmds[l + 1]
        BY <3>4, <4>1, <1>2, <1>3
      <4>3. QED
        BY <3>1, <4>1, <4>2
    <3>5. QED
      BY <3>2, <3>3, <3>4
  <2>2. QED
    BY <2>1 DEF QueueInv, AtMostTwoEntries
<1>7. QED
  BY <1>2, <1>4, <1>5, <1>6

\* Rewriting one entry in place, with its command and aggregate kept.
LEMMA UpdateKeepsShape ==
    ASSUME QueueInv, NEW i \in DOMAIN cmds, NEW e \in Entry,
           cmds' = [cmds EXCEPT ![i] = e],
           e.command = cmds[i].command, e.aggregate = cmds[i].aggregate,
           (e.aggregate > 0 /\ ~e.timer) => e.command \notin FcgiCmd /\ ~e.dontexec
    PROVE  /\ cmds' \in Seq(Entry)
           /\ CountsIfAggregate' /\ AtMostTwoEntries' /\ NoWedgedEntry'
<1>1. cmds \in Seq(Entry) /\ DOMAIN cmds = 1..Len(cmds)
  BY LenProperties DEF QueueInv, TypeOK
<1>2. /\ cmds' \in Seq(Entry) /\ Len(cmds') = Len(cmds)
      /\ \A k \in 1..Len(cmds) : cmds'[k] = IF k = i THEN e ELSE cmds[k]
  BY <1>1, ExceptSeq
<1>3. DOMAIN cmds' = 1..Len(cmds)
  BY <1>2, LenProperties
<1>4. CountsIfAggregate' /\ AtMostTwoEntries'
  BY <1>2, SameShape
<1>5. NoWedgedEntry'
  BY <1>1, <1>2, <1>3 DEF QueueInv, NoWedgedEntry
<1>6. QED
  BY <1>2, <1>4, <1>5

\* run_command that queues an entry: an aggregated command has at most one
\* entry then, with aggregate 1, and the new one gets aggregate 2.
LEMMA QueueEventKeepsInv ==
    ASSUME QueueInv, NEW c \in Commands, NEW p \in Params, QueueEvent(c, p)
    PROVE  QueueInv'
<1> PICK e : e = NewEntry(c, p)
  OBVIOUS
<1>1. /\ cmds \in Seq(Entry) /\ DOMAIN cmds = 1..Len(cmds) /\ Len(cmds) \in Nat
      /\ \A k \in 1..Len(cmds) : cmds[k] \in Entry
  BY LenProperties, ElementOfSeq DEF QueueInv, TypeOK
<1>2. SumBefore(c, Len(cmds) + 1) \in {0, 1}
  BY DEF SumBefore
<1>3. e \in Entry /\ e.command = c /\ e.timer
  BY <1>2 DEF NewEntry, Entry
<1>4. c \in Aggregate <=> e.aggregate > 0
  BY <1>2 DEF NewEntry
<1>5. ASSUME NEW k \in 1..Len(cmds), cmds[k].command = c, c \in Aggregate
      PROVE  e.aggregate = 2 /\ cmds[k].aggregate = 1
  <2>1. cmds[k].aggregate \in 1..2
    BY <1>1, <1>5 DEF QueueInv, CountsIfAggregate, Entry
  <2>2. ~(cmds[k].aggregate > 1)
    BY <1>1, <1>5 DEF QueueEvent, Crosses, Matches
  <2>3. SumBefore(c, Len(cmds) + 1) = 1
    <3>1. k \in 1..((Len(cmds) + 1) - 1)
      BY <1>1
    <3>2. QED
      BY <1>5, <2>1, <3>1 DEF SumBefore, Matches
  <2>4. QED
    BY <1>5, <2>1, <2>2, <2>3 DEF NewEntry
<1>6. /\ cmds' \in Seq(Entry) /\ Len(cmds') = Len(cmds) + 1 /\ cmds'[1] = e
      /\ \A k \in 2..(Len(cmds) + 1) : cmds'[k] = cmds[k - 1]
  <2>1. cmds' = InsertHead(cmds, e)
    BY DEF QueueEvent
  <2>2. e \in Entry /\ cmds \in Seq(Entry)
    BY <1>1, <1>3
  <2>3. /\ InsertHead(cmds, e) \in Seq(Entry)
        /\ Len(InsertHead(cmds, e)) = Len(cmds) + 1
        /\ InsertHead(cmds, e)[1] = e
        /\ \A k \in 2..(Len(cmds) + 1) : InsertHead(cmds, e)[k] = cmds[k - 1]
    BY <2>2, InsertHeadFacts DEF InsertHead
  <2>4. QED
    BY <2>1, <2>3
<1>7. DOMAIN cmds' = 1..(Len(cmds) + 1)
  BY <1>6, LenProperties
<1>8. \A k \in DOMAIN cmds' : k # 1 =>
         k \in 2..(Len(cmds) + 1) /\ k - 1 \in DOMAIN cmds /\ cmds'[k] = cmds[k - 1]
  BY <1>1, <1>6, <1>7
<1>9. CountsIfAggregate'
  BY <1>3, <1>4, <1>6, <1>8 DEF QueueInv, CountsIfAggregate
<1>10. NoWedgedEntry'
  BY <1>3, <1>6, <1>8 DEF QueueInv, NoWedgedEntry
<1>11. AtMostTwoEntries'
  <2> SUFFICES ASSUME NEW k \in DOMAIN cmds', NEW l \in DOMAIN cmds', k < l,
                      cmds'[k].command = cmds'[l].command,
                      cmds'[k].command \in Aggregate
               PROVE  cmds'[k].aggregate = 2 /\ cmds'[l].aggregate = 1
    BY DEF AtMostTwoEntries
  <2>0. l # 1 /\ k \in Int /\ l \in Int
    BY <1>1, <1>7
  <2>1. CASE k = 1
    <3>1. l - 1 \in 1..Len(cmds) /\ cmds'[l] = cmds[l - 1]
      BY <2>0, <1>1, <1>8
    <3>2. QED
      BY <2>1, <3>1, <1>3, <1>5, <1>6
  <2>2. CASE k # 1
    <3>1. k - 1 < l - 1
      BY <2>0
    <3>2. QED
      BY <2>0, <2>2, <3>1, <1>8 DEF QueueInv, AtMostTwoEntries
  <2>3. QED
    BY <2>1, <2>2
<1>12. TypeOK'
  BY <1>6, BoundAssumption DEF QueueInv, TypeOK, QueueEvent
<1>13. QED
  BY <1>9, <1>10, <1>11, <1>12 DEF QueueInv

\* run_command that absorbs the event rewrites one entry, or none.
LEMMA AbsorbEventKeepsInv ==
    ASSUME QueueInv, NEW c \in Commands, NEW p \in Params, AbsorbEvent(c, p)
    PROVE  QueueInv'
<1>1. PICK i \in DOMAIN cmds :
         cmds' = IF cmds[i].dontexec /\ SumBefore(c, i) + cmds[i].aggregate < 3
                 THEN [cmds EXCEPT ![i].dontexec = FALSE, ![i].timer = TRUE]
                 ELSE cmds
  BY DEF AbsorbEvent
<1> DEFINE e == [cmds[i] EXCEPT !.dontexec = FALSE, !.timer = TRUE]
<1>2. cmds[i] \in Entry
  BY LenProperties, ElementOfSeq DEF QueueInv, TypeOK
<1>3. /\ e \in Entry /\ e.command = cmds[i].command
      /\ e.aggregate = cmds[i].aggregate /\ e.timer
  BY <1>2 DEF Entry
<1>4. /\ cmds' \in Seq(Entry)
      /\ CountsIfAggregate' /\ AtMostTwoEntries' /\ NoWedgedEntry'
  <2>1. CASE cmds' = cmds
    BY <2>1 DEF QueueInv, TypeOK, CountsIfAggregate, AtMostTwoEntries, NoWedgedEntry
  <2>2. CASE cmds' = [cmds EXCEPT ![i] = e]
    <3> HIDE DEF e
    <3>1. QED
      BY <1>3, <2>2, UpdateKeepsShape
  <2>3. QED
    BY <1>1, <2>1, <2>2
<1>5. QED
  BY <1>4, BoundAssumption DEF QueueInv, TypeOK, AbsorbEvent

\* The type of the variables other than the queue.
LEMMA OtherTypes ==
    ASSUME QueueInv, NEW i \in DOMAIN cmds,
           \/ Expire(i) \/ FcgiSend(i) \/ FcgiSendFails(i)
           \/ RunDetailed(i) \/ VforkFails(i)
           \/ RequestComplete(i) \/ RequestRefused(i) \/ ServerCloses(i)
    PROVE  /\ owed' \subseteq Commands \X Params
           /\ nev' \in 0..MaxEvents /\ nfaults' \in 0..MaxFaults
<1>1. cmds[i] \in Entry
  BY LenProperties, ElementOfSeq DEF QueueInv, TypeOK
<1>2. <<cmds[i].command, cmds[i].params>> \in Commands \X Params
  BY <1>1 DEF Entry
<1>3. QED
  BY <1>2, BoundAssumption
     DEF QueueInv, TypeOK, Expire, FcgiSend, FcgiSendFails, RunDetailed, VforkFails,
         RequestComplete, RequestRefused, ServerCloses, Started

\* A callback on entry i, of the timer or of the socket.
LEMMA CallbackKeepsInv ==
    ASSUME QueueInv, NEW i \in DOMAIN cmds,
           \/ Expire(i) \/ FcgiSend(i) \/ FcgiSendFails(i)
           \/ RunDetailed(i) \/ VforkFails(i)
           \/ RequestComplete(i) \/ RequestRefused(i) \/ ServerCloses(i)
    PROVE  QueueInv'
<1> DEFINE Goal == /\ cmds' \in Seq(Entry)
                   /\ CountsIfAggregate' /\ AtMostTwoEntries' /\ NoWedgedEntry'
<1> SUFFICES Goal
  BY OtherTypes DEF QueueInv, TypeOK
<1>0. cmds[i] \in Entry
  BY LenProperties, ElementOfSeq DEF QueueInv, TypeOK
<1>1. cmds[i] \in Entry /\ cmds[i].aggregate \in 0..2
  BY <1>0 DEF Entry
<1>2. (cmds[i].aggregate > 0 /\ ~cmds[i].timer)
         => cmds[i].command \notin FcgiCmd /\ ~cmds[i].dontexec
  BY DEF QueueInv, NoWedgedEntry
<1>3. ASSUME cmds' = Remove(cmds, i)
      PROVE  Goal
  BY <1>3, RemovalKeepsShape
<1>4. CASE Expire(i) \/ RequestComplete(i)
  BY <1>3, <1>4 DEF Expire, RequestComplete
<1>5. CASE FcgiSend(i)
  <2>0. PICK r \in Nat : r = cmds[i].reqs + 1
    <3>1. cmds[i].reqs \in Nat
      BY <1>0 DEF Entry
    <3>2. QED
      BY <3>1
  <2> DEFINE e == [cmds[i] EXCEPT !.socket = "open", !.reqs = r,
                                  !.dontexec = TRUE, !.timer = TRUE]
             f == [cmds[i] EXCEPT !.socket = "open", !.reqs = r, !.timer = FALSE]
  <2>1. IF cmds[i].aggregate > 0
        THEN cmds' = [cmds EXCEPT ![i] = e] ELSE cmds' = [cmds EXCEPT ![i] = f]
    BY <1>5, <2>0 DEF FcgiSend
  <2>2. /\ e \in Entry /\ e.command = cmds[i].command
        /\ e.aggregate = cmds[i].aggregate /\ e.timer
    BY <1>1 DEF Entry
  <2>3. /\ f \in Entry /\ f.command = cmds[i].command
        /\ f.aggregate = cmds[i].aggregate
    BY <1>1 DEF Entry
  <2> HIDE DEF e, f
  <2>4. QED
    BY <2>1, <2>2, <2>3, UpdateKeepsShape
<1>6. CASE FcgiSendFails(i)
  <2> DEFINE e == [cmds[i] EXCEPT !.socket = "none", !.reqs = 0]
  <2>1. cmds' = [cmds EXCEPT ![i] = e]
    BY <1>6 DEF FcgiSendFails
  <2>2. /\ e \in Entry /\ e.command = cmds[i].command
        /\ e.aggregate = cmds[i].aggregate /\ e.timer
    BY <1>1, <1>6 DEF Entry, FcgiSendFails, Ready
  <2> HIDE DEF e
  <2>3. QED
    BY <2>1, <2>2, UpdateKeepsShape
<1>7. CASE RunDetailed(i)
  <2> DEFINE e == [cmds[i] EXCEPT !.dontexec = TRUE]
  <2>1. cmds' = [cmds EXCEPT ![i] = e] \/ cmds' = Remove(cmds, i)
    BY <1>7 DEF RunDetailed
  <2>2. /\ e \in Entry /\ e.command = cmds[i].command
        /\ e.aggregate = cmds[i].aggregate /\ e.timer
    BY <1>1, <1>7 DEF Entry, RunDetailed, Ready
  <2> HIDE DEF e
  <2>3. QED
    BY <1>3, <2>1, <2>2, UpdateKeepsShape
<1>8. CASE VforkFails(i)
  <2> DEFINE e == [cmds[i] EXCEPT !.timer = FALSE]
  <2>1. cmds' = [cmds EXCEPT ![i] = e]
    BY <1>8 DEF VforkFails
  <2>2. /\ e \in Entry /\ e.command = cmds[i].command
        /\ e.aggregate = cmds[i].aggregate
        /\ e.command \notin FcgiCmd /\ ~e.dontexec
    BY <1>1, <1>8 DEF Entry, VforkFails, Ready
  <2> HIDE DEF e
  <2>3. QED
    BY <2>1, <2>2, UpdateKeepsShape
<1>9. CASE RequestRefused(i)
  <2> DEFINE e == [cmds[i] EXCEPT !.dontexec = FALSE, !.reqs = 0, !.socket = "eof"]
  <2>1. cmds' = [cmds EXCEPT ![i] = e]
    BY <1>9 DEF RequestRefused
  <2>2. /\ e \in Entry /\ e.command = cmds[i].command
        /\ e.aggregate = cmds[i].aggregate /\ e.timer = cmds[i].timer /\ ~e.dontexec
    BY <1>1 DEF Entry
  <2> HIDE DEF e
  <2>3. QED
    BY <1>2, <2>1, <2>2, UpdateKeepsShape
<1>10. CASE ServerCloses(i)
  <2> DEFINE e == [cmds[i] EXCEPT !.socket = "eof", !.reqs = 0]
  <2>1. cmds' = [cmds EXCEPT ![i] = e]
    BY <1>10 DEF ServerCloses
  <2>2. /\ e \in Entry /\ e.command = cmds[i].command
        /\ e.aggregate = cmds[i].aggregate /\ e.timer = cmds[i].timer
        /\ e.dontexec = cmds[i].dontexec
    BY <1>1 DEF Entry
  <2> HIDE DEF e
  <2>3. QED
    BY <1>2, <2>1, <2>2, UpdateKeepsShape
<1>11. QED
  BY <1>4, <1>5, <1>6, <1>7, <1>8, <1>9, <1>10

-----------------------------------------------------------------------------
\* QueueInv holds in every state, whatever the command table, the number of
\* events and the failures.
LEMMA QueueInvariant == Spec => []QueueInv
<1>1. Init => QueueInv
  BY BoundAssumption
     DEF Init, QueueInv, TypeOK, CountsIfAggregate, AtMostTwoEntries, NoWedgedEntry
<1>2. QueueInv /\ [Next]_vars => QueueInv'
  <2> SUFFICES ASSUME QueueInv, [Next]_vars PROVE QueueInv'
    OBVIOUS
  <2>1. CASE \E c \in Commands, p \in Params : AbsorbEvent(c, p) \/ QueueEvent(c, p)
    BY <2>1, AbsorbEventKeepsInv, QueueEventKeepsInv
  <2>2. ASSUME NEW i \in DOMAIN cmds,
               \/ Expire(i) \/ FcgiSend(i) \/ FcgiSendFails(i)
               \/ RunDetailed(i) \/ VforkFails(i)
               \/ RequestComplete(i) \/ RequestRefused(i) \/ ServerCloses(i)
        PROVE  QueueInv'
    BY <2>2, CallbackKeepsInv
  <2>3. CASE UNCHANGED vars
    BY <2>3 DEF vars, QueueInv, TypeOK, CountsIfAggregate, AtMostTwoEntries, NoWedgedEntry
  <2>4. QED
    BY <2>1, <2>2, <2>3 DEF Next
<1>3. QED
  BY <1>1, <1>2, PTL DEF Spec

\* Every entry of the queue is a well-formed struct runq.
THEOREM QueueTyped == Spec => []TypeOK
<1>1. QueueInv => TypeOK
  BY DEF QueueInv
<1>2. QED
  BY <1>1, QueueInvariant, PTL

\* run_command bounds the queue: at most two entries per aggregated command.
THEOREM QueueBounded == Spec => []AtMostTwoEntries
<1>1. QueueInv => AtMostTwoEntries
  BY DEF QueueInv
<1>2. QED
  BY <1>1, QueueInvariant, PTL

\* No callback leaves an aggregated FastCGI command without its timer.
THEOREM NoEntryWedges == Spec => []NoWedgedEntry
<1>1. QueueInv => NoWedgedEntry
  BY DEF QueueInv
<1>2. QED
  BY <1>1, QueueInvariant, PTL

-----------------------------------------------------------------------------
\* The scan of run_command stops at the entry with aggregate 2 and nothing
\* counted before it, so the sum it compares with 3 is 2.
LEMMA ScanStops ==
    ASSUME QueueInv, NEW c, NEW i, StopsAt(c, i)
    PROVE  /\ i \in DOMAIN cmds /\ c \in Aggregate /\ cmds[i].command = c
           /\ cmds[i].aggregate = 2 /\ SumBefore(c, i) = 0
<1>0. /\ DOMAIN cmds = 1..Len(cmds) /\ Len(cmds) \in Nat /\ i \in 1..Len(cmds)
      /\ \A k \in 1..Len(cmds) : cmds[k] \in Entry
  BY LenProperties, ElementOfSeq DEF QueueInv, TypeOK, StopsAt
<1>1. ASSUME NEW j \in 1..(i - 1), Matches(c, j)
      PROVE  ~(cmds[j].aggregate > 1)
  <2>1. ~Crosses(c, j) /\ j \in 1..j
    BY <1>0 DEF StopsAt
  <2>2. QED
    BY <1>1, <2>1 DEF Crosses
<1>2. ASSUME NEW j \in 1..(i - 1), NEW k \in 1..i, j < k, Matches(c, j), Matches(c, k)
      PROVE  FALSE
  <2>1. j \in DOMAIN cmds /\ k \in DOMAIN cmds
    BY <1>0
  <2>2. cmds[j].aggregate = 2
    BY <1>2, <2>1 DEF QueueInv, AtMostTwoEntries, Matches
  <2>3. QED
    BY <1>1, <1>2, <2>2
<1>3. Matches(c, i) /\ cmds[i].aggregate > 1
  <2>1. CASE \E j \in 1..i : Matches(c, j) /\ cmds[j].aggregate > 1
    <3>1. PICK j \in 1..i : Matches(c, j) /\ cmds[j].aggregate > 1
      BY <2>1
    <3>2. j \notin 1..(i - 1)
      BY <1>1, <3>1
    <3>3. j = i
      BY <1>0, <3>2
    <3>4. QED
      BY <3>1, <3>3
  <2>2. CASE \E j, k \in 1..i : j # k /\ Matches(c, j) /\ Matches(c, k)
    <3>1. PICK j \in 1..i, k \in 1..i : j # k /\ Matches(c, j) /\ Matches(c, k)
      BY <2>2
    <3>2. CASE j < k
      <4>1. j \in 1..(i - 1)
        BY <1>0, <3>2
      <4>2. QED
        BY <1>2, <3>1, <3>2, <4>1
    <3>3. CASE ~(j < k)
      <4>1. k \in 1..(i - 1) /\ k < j
        BY <1>0, <3>1, <3>3
      <4>2. QED
        BY <1>2, <3>1, <4>1
    <3>4. QED
      BY <3>2, <3>3
  <2>3. QED
    BY <2>1, <2>2 DEF StopsAt, Crosses
<1>4. cmds[i].aggregate = 2
  <2>1. cmds[i].aggregate \in 0..2
    BY <1>0 DEF Entry
  <2>2. QED
    BY <1>3, <2>1
<1>5. SumBefore(c, i) = 0
  <2> SUFFICES ASSUME NEW j \in 1..(i - 1), Matches(c, j) PROVE FALSE
    BY DEF SumBefore
  <2>1. j < i /\ i \in 1..i
    BY <1>0
  <2>2. QED
    BY <1>2, <1>3, <2>1
<1>6. QED
  BY <1>0, <1>3, <1>4, <1>5 DEF Matches

\* Removing an entry leaves the others to cover their commands.
LEMMA RemovalKeepsCovered ==
    ASSUME QueueInv, NEW i \in DOMAIN cmds, cmds' = Remove(cmds, i),
           NEW c, Covered(c), ~(cmds[i].command = c /\ Ready(i))
    PROVE  Covered(c)'
<1>0. cmds \in Seq(Entry) /\ DOMAIN cmds = 1..Len(cmds) /\ Len(cmds) \in Nat
  BY LenProperties DEF QueueInv, TypeOK
<1>1. /\ cmds' \in Seq(Entry) /\ Len(cmds') = Len(cmds) - 1
      /\ \A k \in 1..(Len(cmds) - 1) :
            cmds'[k] = IF k < i THEN cmds[k] ELSE cmds[k + 1]
  BY <1>0, RemoveFacts
<1>2. DOMAIN cmds' = 1..(Len(cmds) - 1)
  BY <1>1, LenProperties
<1>3. PICK k \in DOMAIN cmds : cmds[k].command = c /\ Ready(k)
  BY DEF Covered
<1>4. PICK m \in DOMAIN cmds' : cmds'[m] = cmds[k]
  <2>1. k # i /\ k \in 1..Len(cmds) /\ i \in 1..Len(cmds)
    BY <1>0, <1>3
  <2>2. CASE k < i
    <3>1. k \in 1..(Len(cmds) - 1)
      BY <1>0, <2>1, <2>2
    <3>2. QED
      BY <1>1, <1>2, <2>2, <3>1
  <2>3. CASE ~(k < i)
    <3>1. k - 1 \in 1..(Len(cmds) - 1) /\ ~(k - 1 < i) /\ (k - 1) + 1 = k
      BY <1>0, <2>1, <2>3
    <3>2. QED
      BY <1>1, <1>2, <3>1
  <2>4. QED
    BY <2>2, <2>3
<1>5. QED
  BY <1>3, <1>4 DEF Covered, Ready

\* Rewriting an entry keeps its command covered if the entry stays ready.
LEMMA UpdateKeepsCovered ==
    ASSUME QueueInv, NEW i \in DOMAIN cmds, NEW e \in Entry,
           cmds' = [cmds EXCEPT ![i] = e], e.command = cmds[i].command,
           NEW c, Covered(c),
           cmds[i].command = c /\ Ready(i) => e.timer /\ ~e.dontexec
    PROVE  Covered(c)'
<1>1. DOMAIN cmds' = DOMAIN cmds
  OBVIOUS
<1>2. PICK k \in DOMAIN cmds : cmds[k].command = c /\ Ready(k)
  BY DEF Covered
<1>3. cmds'[k] = IF k = i THEN e ELSE cmds[k]
  OBVIOUS
<1>4. QED
  BY <1>1, <1>2, <1>3 DEF Covered, Ready

\* An event that arrives is covered when run_command returns: by its own entry,
\* or by the one that absorbed it.
LEMMA EventIsCovered ==
    ASSUME QueueInv, NEW c \in Aggregate \cap FcgiCmd,
           NEW d \in Commands, NEW q \in Params,
           AbsorbEvent(d, q) \/ QueueEvent(d, q), d = c \/ Covered(c)
    PROVE  Covered(c)'
<1>0. /\ cmds \in Seq(Entry) /\ DOMAIN cmds = 1..Len(cmds) /\ Len(cmds) \in Nat
      /\ \A k \in 1..Len(cmds) : cmds[k] \in Entry
  BY LenProperties, ElementOfSeq DEF QueueInv, TypeOK
<1>1. CASE AbsorbEvent(d, q)
  <2>1. PICK i \in DOMAIN cmds :
           /\ StopsAt(d, i)
           /\ cmds' = IF cmds[i].dontexec /\ SumBefore(d, i) + cmds[i].aggregate < 3
                      THEN [cmds EXCEPT ![i].dontexec = FALSE, ![i].timer = TRUE]
                      ELSE cmds
    BY <1>1 DEF AbsorbEvent
  <2>2. /\ cmds[i].command = d /\ cmds[i].aggregate = 2 /\ SumBefore(d, i) = 0
        /\ cmds[i] \in Entry
    BY <1>0, <2>1, ScanStops
  <2>3. CASE cmds[i].dontexec
    <3> DEFINE e == [cmds[i] EXCEPT !.dontexec = FALSE, !.timer = TRUE]
    <3>1. cmds' = [cmds EXCEPT ![i] = e]
      <4>1. SumBefore(d, i) + cmds[i].aggregate < 3
        BY <2>2
      <4>2. cmds' = [cmds EXCEPT ![i].dontexec = FALSE, ![i].timer = TRUE]
        BY <2>1, <2>3, <4>1
      <4>3. QED
        BY <4>2
    <3>2. e \in Entry /\ e.command = d /\ e.timer /\ ~e.dontexec
      BY <2>2 DEF Entry
    <3> HIDE DEF e
    <3>3. cmds'[i] = e /\ i \in DOMAIN cmds'
      BY <3>1
    <3>4. CASE d = c
      BY <3>2, <3>3, <3>4 DEF Covered, Ready
    <3>5. CASE Covered(c)
      BY <2>2, <3>1, <3>2, <3>5, UpdateKeepsCovered
    <3>6. QED
      BY <3>4, <3>5
  <2>4. CASE ~cmds[i].dontexec
    <3>1. cmds' = cmds
      BY <2>1, <2>4
    <3>2. CASE d = c
      <4>1. cmds[i].timer
        BY <2>2, <3>2 DEF QueueInv, NoWedgedEntry
      <4>2. QED
        BY <2>2, <2>4, <3>1, <3>2, <4>1 DEF Covered, Ready
    <3>3. CASE Covered(c)
      BY <3>1, <3>3 DEF Covered, Ready
    <3>4. QED
      BY <3>2, <3>3
  <2>5. QED
    BY <2>3, <2>4
<1>2. CASE QueueEvent(d, q)
  <2>0. PICK e : e = NewEntry(d, q)
    OBVIOUS
  <2>1. e \in Entry /\ e.command = d /\ e.timer /\ ~e.dontexec
    <3>1. SumBefore(d, Len(cmds) + 1) \in {0, 1}
      BY DEF SumBefore
    <3>2. QED
      BY <2>0, <3>1 DEF NewEntry, Entry
  <2>2. /\ cmds' \in Seq(Entry) /\ Len(cmds') = Len(cmds) + 1 /\ cmds'[1] = e
        /\ \A k \in 2..(Len(cmds) + 1) : cmds'[k] = cmds[k - 1]
    <3>1. cmds' = InsertHead(cmds, e)
      BY <1>2, <2>0 DEF QueueEvent
    <3>2. e \in Entry /\ cmds \in Seq(Entry)
      BY <1>0, <2>1
    <3>3. /\ InsertHead(cmds, e) \in Seq(Entry)
          /\ Len(InsertHead(cmds, e)) = Len(cmds) + 1
          /\ InsertHead(cmds, e)[1] = e
          /\ \A k \in 2..(Len(cmds) + 1) : InsertHead(cmds, e)[k] = cmds[k - 1]
      BY <3>2, InsertHeadFacts DEF InsertHead
    <3>4. QED
      BY <3>1, <3>3
  <2>3. DOMAIN cmds' = 1..(Len(cmds) + 1)
    BY <2>2, LenProperties
  <2>4. CASE d = c
    <3>1. 1 \in DOMAIN cmds'
      BY <1>0, <2>3
    <3>2. QED
      BY <2>1, <2>2, <2>4, <3>1 DEF Covered, Ready
  <2>5. CASE Covered(c)
    <3>1. PICK k \in DOMAIN cmds : cmds[k].command = c /\ Ready(k)
      BY <2>5 DEF Covered
    <3>2. k + 1 \in 2..(Len(cmds) + 1) /\ k + 1 \in DOMAIN cmds' /\ (k + 1) - 1 = k
      BY <1>0, <2>3
    <3>3. cmds'[k + 1] = cmds[k]
      BY <2>2, <3>2
    <3>4. QED
      BY <3>1, <3>2, <3>3 DEF Covered, Ready
  <2>6. QED
    BY <2>4, <2>5
<1>3. QED
  BY <1>1, <1>2

\* A callback that starts no request and completes none keeps what is covered,
\* and a refused request covers its own event.
LEMMA CallbackKeepsCovered ==
    ASSUME QueueInv, NEW c \in Aggregate \cap FcgiCmd, NEW i \in DOMAIN cmds,
           \/ /\ Covered(c)
              /\ \/ Expire(i) \/ FcgiSendFails(i) \/ RunDetailed(i) \/ VforkFails(i)
                 \/ ServerCloses(i)
                 \/ cmds[i].command # c /\ (FcgiSend(i) \/ RequestComplete(i))
           \/ RequestRefused(i) /\ (cmds[i].command = c \/ Covered(c))
    PROVE  Covered(c)'
<1>0. cmds[i] \in Entry
  BY LenProperties, ElementOfSeq DEF QueueInv, TypeOK
<1>1. CASE Covered(c) /\ (Expire(i) \/ (cmds[i].command # c /\ RequestComplete(i)))
  BY <1>1, RemovalKeepsCovered DEF Expire, RequestComplete, Ready
<1>2. CASE Covered(c) /\ FcgiSendFails(i)
  <2> DEFINE e == [cmds[i] EXCEPT !.socket = "none", !.reqs = 0]
  <2>1. cmds' = [cmds EXCEPT ![i] = e] /\ cmds[i].timer /\ ~cmds[i].dontexec
    BY <1>2 DEF FcgiSendFails, Ready
  <2>2. e \in Entry /\ e.command = cmds[i].command /\ e.timer /\ ~e.dontexec
    BY <1>0, <2>1 DEF Entry
  <2> HIDE DEF e
  <2>3. QED
    BY <1>2, <2>1, <2>2, UpdateKeepsCovered
<1>3. CASE Covered(c) /\ RunDetailed(i)
  <2> DEFINE e == [cmds[i] EXCEPT !.dontexec = TRUE]
  <2>1. /\ cmds' = [cmds EXCEPT ![i] = e] \/ cmds' = Remove(cmds, i)
        /\ cmds[i].command # c
    BY <1>3 DEF RunDetailed
  <2>2. e \in Entry /\ e.command = cmds[i].command
    BY <1>0 DEF Entry
  <2> HIDE DEF e
  <2>3. QED
    BY <1>3, <2>1, <2>2, UpdateKeepsCovered, RemovalKeepsCovered
<1>4. CASE Covered(c) /\ VforkFails(i)
  <2> DEFINE e == [cmds[i] EXCEPT !.timer = FALSE]
  <2>1. cmds' = [cmds EXCEPT ![i] = e] /\ cmds[i].command # c
    BY <1>4 DEF VforkFails
  <2>2. e \in Entry /\ e.command = cmds[i].command
    BY <1>0 DEF Entry
  <2> HIDE DEF e
  <2>3. QED
    BY <1>4, <2>1, <2>2, UpdateKeepsCovered
<1>5. CASE Covered(c) /\ ServerCloses(i)
  <2> DEFINE e == [cmds[i] EXCEPT !.socket = "eof", !.reqs = 0]
  <2>1. cmds' = [cmds EXCEPT ![i] = e]
    BY <1>5 DEF ServerCloses
  <2>2. /\ e \in Entry /\ e.command = cmds[i].command /\ e.timer = cmds[i].timer
        /\ e.dontexec = cmds[i].dontexec
    BY <1>0 DEF Entry
  <2> HIDE DEF e
  <2>3. QED
    BY <1>5, <2>1, <2>2, UpdateKeepsCovered DEF Ready
<1>6. CASE Covered(c) /\ cmds[i].command # c /\ FcgiSend(i)
  <2>0. PICK r \in Nat : r = cmds[i].reqs + 1
    <3>1. cmds[i].reqs \in Nat
      BY <1>0 DEF Entry
    <3>2. QED
      BY <3>1
  <2> DEFINE e == [cmds[i] EXCEPT !.socket = "open", !.reqs = r,
                                  !.dontexec = TRUE, !.timer = TRUE]
             f == [cmds[i] EXCEPT !.socket = "open", !.reqs = r, !.timer = FALSE]
  <2>1. cmds' = [cmds EXCEPT ![i] = e] \/ cmds' = [cmds EXCEPT ![i] = f]
    BY <1>6, <2>0 DEF FcgiSend
  <2>2. /\ e \in Entry /\ e.command = cmds[i].command
        /\ f \in Entry /\ f.command = cmds[i].command
    BY <1>0 DEF Entry
  <2> HIDE DEF e, f
  <2>3. QED
    BY <1>6, <2>1, <2>2, UpdateKeepsCovered
<1>7. CASE RequestRefused(i) /\ (cmds[i].command = c \/ Covered(c))
  <2> DEFINE e == [cmds[i] EXCEPT !.dontexec = FALSE, !.reqs = 0, !.socket = "eof"]
  <2>1. cmds' = [cmds EXCEPT ![i] = e]
    BY <1>7 DEF RequestRefused
  <2>2. /\ e \in Entry /\ e.command = cmds[i].command /\ e.timer = cmds[i].timer
        /\ ~e.dontexec
    BY <1>0 DEF Entry
  <2> HIDE DEF e
  <2>3. CASE cmds[i].command = c
    <3>1. cmds[i].timer
      BY <2>3 DEF QueueInv, CountsIfAggregate, NoWedgedEntry
    <3>2. cmds'[i] = e /\ i \in DOMAIN cmds'
      BY <2>1
    <3>3. QED
      BY <2>2, <2>3, <3>1, <3>2 DEF Covered, Ready
  <2>4. CASE Covered(c)
    BY <2>1, <2>2, <2>4, UpdateKeepsCovered DEF Ready
  <2>5. QED
    BY <1>7, <2>3, <2>4
<1>8. QED
  BY <1>1, <1>2, <1>3, <1>4, <1>5, <1>6, <1>7

\* An event of an aggregated FastCGI command stays covered by a waiting entry
\* until an earlier request of the command completes or an entry with other
\* parameters is started for it.
THEOREM CoveredUntilCompletion == Spec => OnlyCompletionUncovers
<1> DEFINE A == \A c \in Aggregate \cap FcgiCmd :
                   \/ OwedIsCovered(c) => OwedIsCovered(c)'
                   \/ \E i \in DOMAIN cmds : cmds[i].command = c /\ RequestComplete(i)
                   \/ StartsForOther(c)
<1>1. ASSUME QueueInv, [Next]_vars, NEW c \in Aggregate \cap FcgiCmd,
             OwedIsCovered(c), ~StartsForOther(c),
             ~\E i \in DOMAIN cmds : cmds[i].command = c /\ RequestComplete(i)
      PROVE  OwedIsCovered(c)'
  <2> SUFFICES ASSUME NEW p \in Params, <<c, p>> \in owed' PROVE Covered(c)'
    BY DEF OwedIsCovered
  <2>0. <<c, p>> \in owed => Covered(c)
    BY <1>1 DEF OwedIsCovered
  <2>1. ASSUME NEW d \in Commands, NEW q \in Params, AbsorbEvent(d, q) \/ QueueEvent(d, q)
        PROVE  Covered(c)'
    <3>1. owed' = owed \cup {<<d, q>>}
      BY <2>1 DEF AbsorbEvent, QueueEvent
    <3>2. d = c \/ Covered(c)
      BY <2>0, <3>1
    <3>3. QED
      BY <1>1, <2>1, <3>2, EventIsCovered
  <2>2. ASSUME NEW i \in DOMAIN cmds,
               \/ Expire(i) \/ FcgiSendFails(i) \/ VforkFails(i)
               \/ RequestComplete(i) \/ ServerCloses(i)
        PROVE  Covered(c)'
    <3>1. owed' = owed
      BY <2>2 DEF Expire, FcgiSendFails, VforkFails, RequestComplete, ServerCloses
    <3>2. QED
      BY <1>1, <2>0, <2>2, <3>1, CallbackKeepsCovered
  <2>3. ASSUME NEW i \in DOMAIN cmds, RunDetailed(i)
        PROVE  Covered(c)'
    <3>1. owed' \subseteq owed
      BY <2>3 DEF RunDetailed, Started
    <3>2. QED
      BY <1>1, <2>0, <2>3, <3>1, CallbackKeepsCovered
  <2>4. ASSUME NEW i \in DOMAIN cmds, FcgiSend(i)
        PROVE  Covered(c)'
    <3>1. owed' = owed \ {<<cmds[i].command, cmds[i].params>>}
      BY <2>4 DEF FcgiSend, Started
    <3>2. cmds[i].command # c
      <4> SUFFICES ASSUME cmds[i].command = c PROVE FALSE
        OBVIOUS
      <4>1. p \in Params \ {cmds[i].params} /\ <<c, p>> \in owed
        BY <3>1
      <4>2. QED
        BY <1>1, <2>4, <4>1 DEF StartsForOther
    <3>3. QED
      BY <1>1, <2>0, <2>4, <3>1, <3>2, CallbackKeepsCovered
  <2>5. ASSUME NEW i \in DOMAIN cmds, RequestRefused(i)
        PROVE  Covered(c)'
    <3>1. owed' = owed \cup {<<cmds[i].command, cmds[i].params>>}
      BY <2>5 DEF RequestRefused
    <3>2. cmds[i].command = c \/ Covered(c)
      BY <2>0, <3>1
    <3>3. QED
      BY <1>1, <2>5, <3>2, CallbackKeepsCovered
  <2>6. CASE UNCHANGED vars
    BY <2>0, <2>6 DEF vars, Covered, Ready
  <2>7. QED
    BY <1>1, <2>1, <2>2, <2>3, <2>4, <2>5, <2>6 DEF Next
<1>2. QueueInv /\ [Next]_vars => [A]_vars
  BY <1>1
<1>3. QED
  BY <1>2, QueueInvariant, PTL DEF Spec, OnlyCompletionUncovers
===============================================================================
