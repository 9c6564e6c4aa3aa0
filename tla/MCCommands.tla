------------------------------ MODULE MCCommands ------------------------------
(***************************************************************************)
(* The parser and the socket of check_reload_status for TLC. A command is  *)
(* one step of the socket, so they share no state and in a behaviour one   *)
(* of them runs: part says which. The parser has a part of the tables of   *)
(* server.h with every kind of entry, at every depth, and keywords that    *)
(* are also parameters.                                                    *)
(***************************************************************************)
EXTENDS CommandParser, FiniteSets

CONSTANTS Clients, MaxCmds, MaxLines, MaxExpires, None

VARIABLES part, cmd, cpc, cn, fd, c2s, s2c, listing, due, expires,
          ran, fine, refused, joined

socket == <<cmd, cpc, cn, fd, c2s, s2c, listing, due, expires,
            ran, fine, refused, joined>>
all == <<vars, socket, part>>

S == INSTANCE CommandSocket WITH pc <- cpc, n <- cn

MCWords == {"filter", "interface", "reload", "newip", "linkup", "start", "wan"}

MCTables == {"first_level", "c_filter", "c_interface", "c_interface2"}

E(keyword, type, next) == [keyword |-> keyword, type |-> type, next |-> next]

MCEntries ==
    [t \in MCTables |->
        CASE t = "first_level" -> {E("filter", "COMPOUND", "c_filter"),
                                   E("interface", "COMPOUND", "c_interface")}
          [] t = "c_filter" -> {E("reload", "NON", NULL)}
          [] t = "c_interface" -> {E("reload", "IFNAME", NULL),
                                   E("newip", "STRING", NULL),
                                   E("linkup", "STRING", "c_interface2")}
          [] t = "c_interface2" -> {E("reload", "NON", NULL),
                                    E("start", "IFNAME", NULL)}]

\* The paths of n entries through the tables.
Paths[n \in 1..Cardinality(Tables)] ==
    IF n = 1 THEN {<<e>> : e \in Entries[first_level]}
    ELSE UNION {{Append(q, e) : e \in Entries[q[n - 1].next]} :
                    q \in {r \in Paths[n - 1] : r[n - 1].next # NULL}}

\* The reference: the keywords of a path to a leaf, and a word where it takes one.
WellFormed(ws) ==
    \E n \in DOMAIN Paths : \E q \in Paths[n] :
        /\ q[n].next = NULL
        /\ Len(ws) = (IF q[n].type = "NON" THEN n ELSE n + 1)
        /\ \A k \in 1..n : ws[k] = q[k].keyword

-----------------------------------------------------------------------------
InitAll ==
    /\ Init /\ S!Init
    /\ \/ part = "parser" /\ \A c \in Clients : cmd[c] = <<"good">>
       \/ part = "socket" /\ buf = <<Empty>>

NextAll ==
    \/ part = "parser" /\ Next /\ UNCHANGED <<socket, part>>
    \/ part = "socket" /\ S!Next /\ UNCHANGED <<vars, part>>

FairAll == InitAll /\ [][NextAll]_all /\ (part = "socket" => S!Fairness)

-----------------------------------------------------------------------------
\* A line of the documented form, its words separated by single blanks, is not
\* refused: the three checks on argc in parse_command let it through.
WellFormedRuns == pc = "error" /\ i = Len(argv) => ~WellFormed(argv)

\* A pfSctl that has read one "OK" per command has had exactly these commands
\* run, once each and in order; commands are read as one only from a client
\* that was sent an error (CommandSocket).
AnsweredIsRun ==
    /\ [](S!TypeOK /\ S!AnsweredIsRun)
    /\ [][joined' \subseteq joined \cup refused]_all

\* Every pfSctl ends and every connection is closed (CommandSocket).
EveryoneLeaves == part = "socket" => S!EveryoneLeaves
===============================================================================
