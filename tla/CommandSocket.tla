---------------------------- MODULE CommandSocket ----------------------------
(***************************************************************************)
(* pfSctl processes and the command socket of check_reload_status. A       *)
(* pfSctl writes each of its commands and reads an answer before the next  *)
(* one, giving up after three seconds. The stream has no message           *)
(* boundaries: the daemon takes whatever one read() returns for one        *)
(* command, and a refusal is written in several pieces, one per line.      *)
(*                                                                         *)
(* A command is "good" (parse_command accepts it) or "bad". Two commands   *)
(* read together are refused: the last word of the first runs into the     *)
(* first word of the second, which is either no keyword or one argument    *)
(* too many.                                                               *)
(***************************************************************************)
EXTENDS Integers, Sequences

CONSTANTS
    Clients,        \* pfSctl processes
    MaxCmds,        \* -c options of one (6 in the code)
    MaxLines,       \* lines of the list that follows an error
    MaxExpires,     \* bound on connections that stay idle for ten seconds
    None

VARIABLES
    cmd,        \* each client's commands
    pc, n,      \* where it is, and the command it is at
    fd,         \* its connection in the daemon
    c2s, s2c,   \* the two directions: indices of commands, pieces of answers
    listing,    \* the daemon is writing a refusal: [to, left], or None
    due,        \* the connection whose timeout the daemon is to handle, or None
    expires,
    ran,        \* history: the commands handed to run_command
    fine,       \* history: each read returned the one "OK" and nothing else
    refused,    \* history: clients that were sent an error
    joined      \* history: clients of which several commands were read as one

client == <<pc, n>>
daemon == <<fd, listing, due, expires>>
history == <<ran, fine, refused, joined>>
vars == <<cmd, client, c2s, s2c, daemon, history>>

Exited == {"done", "alarm", "killed", "noserver"}

Init ==
    /\ cmd \in [Clients -> UNION {[1..k -> {"good", "bad"}] : k \in 1..MaxCmds}]
    /\ pc = [c \in Clients |-> "connect"] /\ n = [c \in Clients |-> 1]
    /\ fd = [c \in Clients |-> "none"]
    /\ c2s = [c \in Clients |-> <<>>] /\ s2c = [c \in Clients |-> <<>>]
    /\ listing = None /\ due = None /\ expires = 0
    /\ ran = [c \in Clients |-> <<>>] /\ fine = [c \in Clients |-> TRUE]
    /\ refused = {} /\ joined = {}

-----------------------------------------------------------------------------
(* pfSctl *)

\* The backlog of listen() may be full.
Connect(c) ==
    /\ pc[c] = "connect"
    /\ \/ pc' = [pc EXCEPT ![c] = "write"] /\ fd' = [fd EXCEPT ![c] = "backlog"]
       \/ pc' = [pc EXCEPT ![c] = "noserver"] /\ UNCHANGED fd
    /\ UNCHANGED <<cmd, n, c2s, s2c, listing, due, expires, history>>

\* SIGPIPE if the daemon has closed the connection.
Write(c) ==
    /\ pc[c] = "write"
    /\ IF fd[c] = "closed"
       THEN pc' = [pc EXCEPT ![c] = "killed"] /\ UNCHANGED c2s
       ELSE pc' = [pc EXCEPT ![c] = "read"] /\ c2s' = [c2s EXCEPT ![c] = Append(@, n[c])]
    /\ UNCHANGED <<cmd, n, s2c, daemon, history>>

\* All the pieces there are, or end of file; both lead to the next command.
Read(c) ==
    /\ pc[c] = "read" /\ (s2c[c] # <<>> \/ fd[c] = "closed")
    /\ s2c' = [s2c EXCEPT ![c] = <<>>]
    /\ fine' = [fine EXCEPT ![c] = @ /\ s2c[c] = <<"OK">>]
    /\ n' = [n EXCEPT ![c] = @ + 1]
    /\ pc' = [pc EXCEPT ![c] = IF n[c] < Len(cmd[c]) THEN "write" ELSE "done"]
    /\ UNCHANGED <<cmd, c2s, daemon, ran, refused, joined>>

\* SIGALRM: exit(0), whatever the process was doing.
Alarm(c) ==
    /\ pc[c] \in {"connect", "write", "read"}
    /\ pc' = [pc EXCEPT ![c] = "alarm"]
    /\ UNCHANGED <<cmd, n, c2s, s2c, daemon, history>>

-----------------------------------------------------------------------------
(* check_reload_status: one callback at a time *)

AtLoop == listing = None /\ due = None

Close(c) ==
    /\ fd' = [fd EXCEPT ![c] = "closed"]
    /\ c2s' = [c2s EXCEPT ![c] = <<>>]

\* socket_accept_command
Accept(c) ==
    /\ AtLoop /\ fd[c] = "backlog"
    /\ fd' = [fd EXCEPT ![c] = "open"]
    /\ UNCHANGED <<cmd, client, c2s, s2c, listing, due, expires, history>>

\* write() to a client that is gone fails with EPIPE; SIGPIPE is blocked.
Answer(c, piece) ==
    s2c' = IF pc[c] \in Exited THEN s2c ELSE [s2c EXCEPT ![c] = Append(@, piece)]

Accepts(c) == Len(c2s[c]) = 1 /\ cmd[c][c2s[c][1]] = "good"

\* Mutant: "OK" is written before the command is parsed.
ReadCommand_OkFirst(c) ==
    /\ AtLoop /\ fd[c] = "open" /\ c2s[c] # <<>>
    /\ c2s' = [c2s EXCEPT ![c] = <<>>]
    /\ Answer(c, "OK")
    /\ ran' = IF Accepts(c) THEN [ran EXCEPT ![c] = Append(@, c2s[c][1])] ELSE ran
    /\ joined' = IF Len(c2s[c]) > 1 THEN joined \cup {c} ELSE joined
    /\ UNCHANGED <<cmd, client, daemon, fine, refused>>

\* socket_read_command: "OK" and run_command, or the error and then the list.
ReadCommand(c) ==
    /\ AtLoop /\ fd[c] = "open" /\ c2s[c] # <<>>
    /\ c2s' = [c2s EXCEPT ![c] = <<>>]
    /\ IF Accepts(c)
       THEN /\ Answer(c, "OK")
            /\ ran' = [ran EXCEPT ![c] = Append(@, c2s[c][1])]
            /\ UNCHANGED <<listing, refused>>
       ELSE /\ Answer(c, "ERROR")
            /\ listing' = [to |-> c, left |-> MaxLines]
            /\ refused' = refused \cup {c}
            /\ UNCHANGED ran
    /\ joined' = IF Len(c2s[c]) > 1 THEN joined \cup {c} ELSE joined
    /\ UNCHANGED <<cmd, client, fd, due, expires, fine>>

\* show_command_list: one more line, or the end of the list.
ListLine ==
    /\ listing # None
    /\ IF listing.left = 0
       THEN listing' = None /\ UNCHANGED s2c
       ELSE listing' = [listing EXCEPT !.left = @ - 1] /\ Answer(listing.to, "line")
    /\ UNCHANGED <<cmd, client, fd, c2s, due, expires, history>>

\* Mutant: end of file is ignored.
ReadEof_Ignored(c) ==
    /\ AtLoop /\ fd[c] = "open" /\ c2s[c] = <<>> /\ pc[c] \in Exited
    /\ UNCHANGED vars

\* End of file.
ReadEof(c) ==
    /\ AtLoop /\ fd[c] = "open" /\ c2s[c] = <<>> /\ pc[c] \in Exited
    /\ Close(c)
    /\ UNCHANGED <<cmd, client, s2c, listing, due, expires, history>>

\* Ten seconds without anything to read: the event loop makes the timeout due.
\* A command that arrives before the callback runs is not read.
Expire(c) ==
    /\ AtLoop /\ fd[c] = "open" /\ c2s[c] = <<>> /\ expires < MaxExpires
    /\ due' = c
    /\ expires' = expires + 1
    /\ UNCHANGED <<cmd, client, fd, c2s, s2c, listing, history>>

Timeout ==
    /\ due # None
    /\ Close(due)
    /\ due' = None
    /\ UNCHANGED <<cmd, client, s2c, listing, expires, history>>

-----------------------------------------------------------------------------
ClientStep(c) == Connect(c) \/ Write(c) \/ Read(c)

Callback(c) == Accept(c) \/ ReadCommand(c) \/ ReadEof(c)

Next ==
    \/ \E c \in Clients : ClientStep(c) \/ Alarm(c) \/ Callback(c) \/ Expire(c)
    \/ ListLine
    \/ Timeout

Spec == Init /\ [][Next]_vars

\* The alarm makes pfSctl go on even if nobody answers; the daemon never
\* blocks, and libevent serves every connection that is ready.
Fairness ==
    /\ \A c \in Clients : WF_vars(ClientStep(c) \/ Alarm(c)) /\ SF_vars(Callback(c))
    /\ WF_vars(ListLine) /\ WF_vars(Timeout)

FairSpec == Spec /\ Fairness

-----------------------------------------------------------------------------
(* Properties *)

\* The processes' and the connections' states are well formed.
TypeOK ==
    /\ pc \in [Clients -> {"connect", "write", "read"} \cup Exited]
    /\ n \in [Clients -> 1..(MaxCmds + 1)]
    /\ fd \in [Clients -> {"none", "backlog", "open", "closed"}]
    /\ \A c \in Clients : /\ c2s[c] \in Seq(1..MaxCmds)
                          /\ s2c[c] \in Seq({"OK", "ERROR", "line"})
    /\ listing \in [to : Clients, left : 0..MaxLines] \cup {None}
    /\ due \in Clients \cup {None}

\* "OK" can be relied on: a pfSctl that has read one "OK" per command has had
\* exactly these commands run, once each and in order.
AnsweredIsRun ==
    \A c \in Clients :
        fine[c] /\ pc[c] # "alarm" =>
            \/ ran[c] = [k \in 1..(n[c] - 1) |-> k]
            \/ pc[c] = "read" /\ ran[c] = [k \in 1..n[c] |-> k]

\* Commands of one pfSctl run into each other only after another was refused
\* (the rest of the refusal is taken for the answer to the next command).
JoinedAfterError == [][joined' \subseteq joined \cup refused]_vars

\* Every pfSctl ends, and the daemon then lets go of its connection.
EveryoneLeaves ==
    <>[](\A c \in Clients : pc[c] \in Exited /\ fd[c] \in {"none", "closed"})
=============================================================================
