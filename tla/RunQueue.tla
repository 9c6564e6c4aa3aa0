------------------------------- MODULE RunQueue -------------------------------
(***************************************************************************)
(* The run queue of check_reload_status: events received on the command    *)
(* socket become entries of cmds, each entry is started by a libevent      *)
(* timer, either as a FastCGI request or through vfork(), and entries of   *)
(* AGGREGATE commands absorb later events of the same command.             *)
(*                                                                         *)
(* The daemon is single threaded, so one action is one libevent callback.  *)
(* A timer is a flag: when it fires, relative to the FastCGI server's      *)
(* answers and to new events, is left open.  nev and nfaults only bound    *)
(* the number of events and of failed calls; owed is a history variable,   *)
(* the events that have arrived since their command was last started.      *)
(***************************************************************************)
EXTENDS Integers, Sequences

CONSTANTS
    Commands,     \* the leaves of the command table of server.h
    Aggregate,    \* those flagged AGGREGATE
    FcgiCmd,      \* those flagged FCGICMD
    Params,       \* what cmd.params expands to
    MaxEvents,    \* bound on the number of events
    MaxFaults     \* bound on the number of failed calls and requests

\* Every entry of server.h that is not aggregated is a FastCGI command.
ASSUME CommandAssumption ==
    /\ Aggregate \subseteq Commands
    /\ FcgiCmd \subseteq Commands
    /\ Commands \ Aggregate \subseteq FcgiCmd

ASSUME BoundAssumption == MaxEvents \in Nat /\ MaxFaults \in Nat

VARIABLES
    cmds,         \* the TAILQ, head first
    owed,         \* history: events whose command has not started since
    nev, nfaults

vars == <<cmds, owed, nev, nfaults>>

\* struct runq. timer: the entry's ev is pending; socket: none (0 or -1), open,
\* or closed by the server; reqs: requests written on it and not answered.
Entry == [command : Commands, params : Params, aggregate : 0..2,
          dontexec : BOOLEAN, timer : BOOLEAN,
          socket : {"none", "open", "eof"}, reqs : Nat]

-----------------------------------------------------------------------------
(* Queue primitives *)

InsertHead(q, e) == <<e>> \o q

Remove(q, i) == SubSeq(q, 1, i - 1) \o SubSeq(q, i + 1, Len(q))

-----------------------------------------------------------------------------
(* The scan at the top of run_command                                      *)

Matches(c, i) == c \in Aggregate /\ cmds[i].command = c

\* Mutant: an entry whose own aggregate exceeds 1 does not stop the scan.
Crosses_PairsOnly(c, i) ==
    \E j, k \in 1..i : /\ j # k /\ Matches(c, j) /\ Matches(c, k)
                       /\ cmds[j].aggregate > 0 /\ cmds[k].aggregate > 0

\* The sum of aggregate over the entries of c up to i exceeds 1.
Crosses(c, i) ==
    \/ \E j \in 1..i : Matches(c, j) /\ cmds[j].aggregate > 1
    \/ \E j, k \in 1..i : /\ j # k /\ Matches(c, j) /\ Matches(c, k)
                          /\ cmds[j].aggregate > 0 /\ cmds[k].aggregate > 0

\* The entry at which the scan stops.
StopsAt(c, i) ==
    /\ i \in DOMAIN cmds
    /\ Crosses(c, i)
    /\ \A j \in 1..(i - 1) : ~Crosses(c, j)

\* The sum before entry i, for a scan that has not stopped before i.
SumBefore(c, i) ==
    IF \E j \in 1..(i - 1) : Matches(c, j) /\ cmds[j].aggregate > 0 THEN 1 ELSE 0

-----------------------------------------------------------------------------
Init ==
    /\ cmds = <<>>
    /\ owed = {}
    /\ nev = 0
    /\ nfaults = 0

NewEntry(c, p) ==
    [command |-> c, params |-> p,
     aggregate |-> IF c \in Aggregate THEN SumBefore(c, Len(cmds) + 1) + 1 ELSE 0,
     dontexec |-> FALSE, timer |-> TRUE, socket |-> "none", reqs |-> 0]

\* Mutant: the timer is moved but dontexec stays set.
AbsorbEvent_KeepsDontexec(c, p) ==
    /\ nev < MaxEvents
    /\ \E i \in DOMAIN cmds :
          /\ StopsAt(c, i)
          /\ cmds' = [cmds EXCEPT ![i].timer = TRUE]
    /\ owed' = owed \cup {<<c, p>>}
    /\ nev' = nev + 1
    /\ UNCHANGED nfaults

\* run_command, the scan stops at an entry that absorbs the event.
AbsorbEvent(c, p) ==
    /\ nev < MaxEvents
    /\ \E i \in DOMAIN cmds :
          /\ StopsAt(c, i)
          /\ cmds' = IF cmds[i].dontexec /\ SumBefore(c, i) + cmds[i].aggregate < 3
                     THEN [cmds EXCEPT ![i].dontexec = FALSE, ![i].timer = TRUE]
                     ELSE cmds
    /\ owed' = owed \cup {<<c, p>>}
    /\ nev' = nev + 1
    /\ UNCHANGED nfaults

\* Mutant: the scan's early return is missing.
QueueEvent_NoReturn(c, p) ==
    /\ nev < MaxEvents
    /\ cmds' = InsertHead(cmds, NewEntry(c, p))
    /\ owed' = owed \cup {<<c, p>>}
    /\ nev' = nev + 1
    /\ UNCHANGED nfaults

\* run_command, the event gets an entry of its own.
QueueEvent(c, p) ==
    /\ nev < MaxEvents
    /\ ~Crosses(c, Len(cmds))
    /\ cmds' = InsertHead(cmds, NewEntry(c, p))
    /\ owed' = owed \cup {<<c, p>>}
    /\ nev' = nev + 1
    /\ UNCHANGED nfaults

Ready(i) == cmds[i].timer /\ ~cmds[i].dontexec

Started(i) == owed \ {<<cmds[i].command, cmds[i].params>>}

\* Either callback on an entry that already ran: the entry is freed.
Expire(i) ==
    /\ cmds[i].timer /\ cmds[i].dontexec
    /\ cmds' = Remove(cmds, i)
    /\ UNCHANGED <<owed, nev, nfaults>>

\* Mutant: the 8 second timer is not added after a successful write.
FcgiSend_NoTimer(i) ==
    /\ Ready(i)
    /\ cmds[i].command \in FcgiCmd
    /\ cmds[i].socket # "eof"
    /\ cmds' = [cmds EXCEPT ![i].socket = "open", ![i].reqs = @ + 1,
                            ![i].dontexec = cmds[i].aggregate > 0, ![i].timer = FALSE]
    /\ owed' = Started(i)
    /\ UNCHANGED <<nev, nfaults>>

\* fcgi_send_command, request written.
FcgiSend(i) ==
    /\ Ready(i)
    /\ cmds[i].command \in FcgiCmd
    /\ cmds[i].socket # "eof"
    /\ cmds' = IF cmds[i].aggregate > 0
               THEN [cmds EXCEPT ![i].socket = "open", ![i].reqs = @ + 1,
                                 ![i].dontexec = TRUE, ![i].timer = TRUE]
               ELSE [cmds EXCEPT ![i].socket = "open", ![i].reqs = @ + 1,
                                 ![i].timer = FALSE]
    /\ owed' = Started(i)
    /\ UNCHANGED <<nev, nfaults>>

\* fcgi_send_command, connect() or write() failed: rescheduled. A write on a
\* socket the server closed always fails.
FcgiSendFails(i) ==
    /\ Ready(i)
    /\ cmds[i].command \in FcgiCmd
    /\ cmds' = [cmds EXCEPT ![i].socket = "none", ![i].reqs = 0]
    /\ \/ cmds[i].socket = "eof" /\ UNCHANGED nfaults
       \/ nfaults < MaxFaults /\ nfaults' = nfaults + 1
    /\ UNCHANGED <<owed, nev>>

\* run_command_detailed, vfork() succeeded.
RunDetailed(i) ==
    /\ Ready(i)
    /\ cmds[i].command \notin FcgiCmd
    /\ cmds' = IF cmds[i].aggregate > 0
               THEN [cmds EXCEPT ![i].dontexec = TRUE]
               ELSE Remove(cmds, i)
    /\ owed' = Started(i)
    /\ UNCHANGED <<nev, nfaults>>

\* run_command_detailed, vfork() failed: the timer is not added again.
VforkFails(i) ==
    /\ Ready(i)
    /\ cmds[i].command \notin FcgiCmd
    /\ nfaults < MaxFaults
    /\ cmds' = [cmds EXCEPT ![i].timer = FALSE]
    /\ nfaults' = nfaults + 1
    /\ UNCHANGED <<owed, nev>>

\* socket_read_fcgi, FCGI_END_REQUEST with FCGI_REQUEST_COMPLETE.
RequestComplete(i) ==
    /\ cmds[i].socket = "open" /\ cmds[i].reqs > 0
    /\ cmds' = Remove(cmds, i)
    /\ UNCHANGED <<owed, nev, nfaults>>

\* socket_read_fcgi, FCGI_END_REQUEST with any other status: the script did not
\* run, so its event is owed again. No FCGI_KEEP_CONN: the server then closes.
RequestRefused(i) ==
    /\ cmds[i].socket = "open" /\ cmds[i].reqs > 0
    /\ nfaults < MaxFaults
    /\ cmds' = [cmds EXCEPT ![i].dontexec = FALSE, ![i].reqs = 0, ![i].socket = "eof"]
    /\ owed' = owed \cup {<<cmds[i].command, cmds[i].params>>}
    /\ nfaults' = nfaults + 1
    /\ UNCHANGED nev

\* The server goes away without an answer; recv() returns 0 and the callback
\* returns.
ServerCloses(i) ==
    /\ cmds[i].socket = "open"
    /\ nfaults < MaxFaults
    /\ cmds' = [cmds EXCEPT ![i].socket = "eof", ![i].reqs = 0]
    /\ nfaults' = nfaults + 1
    /\ UNCHANGED <<owed, nev>>

TimerCallback(i) ==
    Expire(i) \/ FcgiSend(i) \/ FcgiSendFails(i) \/ RunDetailed(i) \/ VforkFails(i)

Next ==
    \/ \E c \in Commands, p \in Params : AbsorbEvent(c, p) \/ QueueEvent(c, p)
    \/ \E i \in DOMAIN cmds :
          \/ Expire(i) \/ FcgiSend(i) \/ FcgiSendFails(i)
          \/ RunDetailed(i) \/ VforkFails(i)
          \/ RequestComplete(i) \/ RequestRefused(i) \/ ServerCloses(i)

Spec == Init /\ [][Next]_vars

\* libevent dispatches every expired timer.  Together with MaxFaults this says
\* that connect, write and the FastCGI server fail only finitely often.
TimersFire ==
    \A c \in Commands :
        WF_vars(\E i \in DOMAIN cmds : cmds[i].command = c /\ TimerCallback(i))

FairSpec == Spec /\ TimersFire

-----------------------------------------------------------------------------
(* Properties                                                              *)

\* The type invariant of the queue and its history variables.
TypeOK ==
    /\ cmds \in Seq(Entry)
    /\ owed \subseteq Commands \X Params
    /\ nev \in 0..MaxEvents
    /\ nfaults \in 0..MaxFaults

\* However events, timers and answers interleave, run_command keeps at most two
\* entries of an aggregated command: the one with aggregate 2 ahead of the one
\* with aggregate 1. The queue cannot grow with the number of events.
AtMostTwoEntries ==
    \A i, j \in DOMAIN cmds :
        (i < j /\ cmds[i].command = cmds[j].command /\ cmds[i].command \in Aggregate)
            => cmds[i].aggregate = 2 /\ cmds[j].aggregate = 1

\* No callback leaves an entry of an aggregated command without a timer, so that
\* it can neither run nor expire and would absorb every later event; the one
\* exception is a command started with vfork() whose vfork() failed.
NoWedgedEntry ==
    \A i \in DOMAIN cmds :
        (cmds[i].aggregate > 0 /\ ~cmds[i].timer)
            => cmds[i].command \notin FcgiCmd /\ ~cmds[i].dontexec

\* An entry that will start command c when its timer fires.
Covered(c) == \E i \in DOMAIN cmds : cmds[i].command = c /\ Ready(i)

OwedIsCovered(c) == (\E p \in Params : <<c, p>> \in owed) => Covered(c)

\* A request of c is written that has not the parameters of an event it stands for.
StartsForOther(c) ==
    \E i \in DOMAIN cmds :
        /\ cmds[i].command = c /\ FcgiSend(i)
        /\ \E p \in Params \ {cmds[i].params} : <<c, p>> \in owed

\* The ways an event of an aggregated FastCGI command stops being covered by a
\* waiting entry are the completion of an earlier request of that command, and
\* the start of the entry that absorbed it, if that has other parameters (458
\* compares only the command). Absorbing, expiring, failing and refused requests
\* all keep it covered.
OnlyCompletionUncovers ==
    [][\A c \in Aggregate \cap FcgiCmd :
          \/ OwedIsCovered(c) => OwedIsCovered(c)'
          \/ \E i \in DOMAIN cmds : cmds[i].command = c /\ RequestComplete(i)
          \/ StartsForOther(c)]_vars

\* Once events stop, every entry of an aggregated FastCGI command leaves the
\* queue, even when the server never answers.
QueueDrains ==
    \A c \in Aggregate \cap FcgiCmd :
        <>[](\A i \in DOMAIN cmds : cmds[i].command # c)

\* "Rexec the command so the event is not lost": an event that has not been
\* followed by a start of its command has an entry waiting to start it.
EventNotLost ==
    \A c \in Aggregate \cap FcgiCmd, p \in Params :
        <<c, p>> \in owed =>
            \E i \in DOMAIN cmds : /\ cmds[i].command = c /\ cmds[i].params = p
                                   /\ Ready(i)
===============================================================================
