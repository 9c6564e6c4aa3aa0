---------------------------- MODULE CommandParser ----------------------------
(***************************************************************************)
(* How check_reload_status turns a line read from its socket into a        *)
(* command and a parameter: the strsep() loop of socket_read_command and   *)
(* the loop of parse_command over the tables of server.h.                  *)
(*                                                                         *)
(* The two loops do not count the same thing. strsep() yields an empty     *)
(* token between two separators; argv gets the non-empty ones only, but    *)
(* the count i, from which both argc and the parameter are taken, is of    *)
(* all tokens.                                                             *)
(***************************************************************************)
EXTENDS Integers, Sequences

CONSTANTS
    Words,          \* the non-empty tokens
    Empty,          \* the empty token
    MaxTokens,      \* bound on the tokens of a line
    Tables,         \* the tables of server.h
    first_level,
    Entries,        \* [Tables -> sets of entries]
    NULL,
    Garbage         \* what an element of argv that was not assigned holds

Types == {"NON", "COMPOUND", "IFNAME", "STRING"}

Command == [keyword : Words, type : Types, next : Tables \cup {NULL}]

\* A keyword occurs once in a table; only entries that take nothing are NON,
\* and COMPOUND ones lead to a table.
ASSUME TableAssumption ==
    /\ first_level \in Tables
    /\ NULL \notin Tables \cup Words
    /\ Empty \notin Words
    /\ Garbage \notin Words \cup {NULL}
    /\ Entries \in [Tables -> SUBSET Command]
    /\ \A t \in Tables : \A e, f \in Entries[t] : e.keyword = f.keyword => e = f
    /\ \A t \in Tables : \A e \in Entries[t] :
          /\ e.type = "NON" => e.next = NULL
          /\ e.type = "COMPOUND" => e.next # NULL

ASSUME TokenBound == MaxTokens \in Nat \ {0}

VARIABLES
    pc,         \* "split", "parse", then "run" or "error"
    buf,        \* the tokens strsep() has still to return
    argv, i,
    argc, p,    \* p is the parameter for run_command
    at,         \* the element of argv that parse_command looks at
    start, match

vars == <<pc, buf, argv, i, argc, p, at, start, match>>

\* A line holds at least one token, perhaps an empty one.
Init ==
    /\ pc = "split"
    /\ buf \in UNION {[1..n -> Words \cup {Empty}] : n \in 1..MaxTokens}
    /\ argv = <<>> /\ i = 0
    /\ argc = 0 /\ p = NULL /\ at = 1
    /\ start = first_level /\ match = NULL

-----------------------------------------------------------------------------
(* socket_read_command *)

\* One round of the loop.
Split ==
    /\ pc = "split" /\ buf # <<>>
    /\ buf' = Tail(buf)
    /\ argv' = IF Head(buf) # Empty THEN Append(argv, Head(buf)) ELSE argv
    /\ i' = i + 1
    /\ UNCHANGED <<pc, argc, p, at, start, match>>

\* strsep() has stored NULL after the last word; nothing is stored beyond it.
Word(n) ==
    IF n <= Len(argv) THEN argv[n]
    ELSE IF n = Len(argv) + 1 THEN NULL ELSE Garbage

\* Mutant: argc counts the words.
Count_Words ==
    /\ pc = "split" /\ buf = <<>>
    /\ pc' = "parse"
    /\ argc' = Len(argv) - 1
    /\ p' = Word(i)
    /\ UNCHANGED <<buf, argv, i, at, start, match>>

Count ==
    /\ pc = "split" /\ buf = <<>>
    /\ pc' = "parse"
    /\ argc' = i - 1
    /\ p' = Word(i)
    /\ UNCHANGED <<buf, argv, i, at, start, match>>

-----------------------------------------------------------------------------
(* parse_command *)

match_command(t, w) == {e \in Entries[t] : e.keyword = w}

Reject ==
    /\ pc' = "error"
    /\ UNCHANGED <<buf, argv, i, argc, p, at, start, match>>

NoMatch ==
    /\ pc = "parse"
    /\ match_command(start, Word(at)) = {}
    /\ Reject

\* Mutant: nothing follows an entry without a next table.
Bad_NoArguments(e, left, word) ==
    \/ left >= 0 /\ e.next = NULL
    \/ left < 0 /\ e.type # "NON"
    \/ left = 0 /\ word = NULL /\ e.type # "NON"

\* Extra arguments, or an incomplete command, after e.
Bad(e, left, word) ==
    \/ left > 0 /\ e.next = NULL
    \/ left < 0 /\ e.type # "NON"
    \/ left = 0 /\ word = NULL /\ e.type # "NON"

BadMatch ==
    /\ pc = "parse"
    /\ \E e \in match_command(start, Word(at)) : Bad(e, argc - 1, Word(at + 1))
    /\ Reject

\* The next round of the loop, or its end: argc >= 0 fails, or no next table.
GoodMatch ==
    /\ pc = "parse"
    /\ \E e \in match_command(start, Word(at)) :
          /\ ~Bad(e, argc - 1, Word(at + 1))
          /\ match' = e
          /\ pc' = IF e.next = NULL \/ argc - 1 < 0 THEN "run" ELSE "parse"
          /\ start' = IF e.next = NULL THEN start ELSE e.next
    /\ argc' = argc - 1
    /\ at' = at + 1
    /\ UNCHANGED <<buf, argv, i, p>>

Next == Split \/ Count \/ NoMatch \/ BadMatch \/ GoodMatch

Spec == Init /\ [][Next]_vars

-----------------------------------------------------------------------------
(* Properties *)

\* The parser's state is well formed.
TypeOK ==
    /\ pc \in {"split", "parse", "run", "error"}
    /\ buf \in Seq(Words \cup {Empty})
    /\ argv \in Seq(Words)
    /\ i \in Nat /\ argc \in Int
    /\ p \in Words \cup {NULL, Garbage}
    /\ at \in Nat \ {0}
    /\ start \in Tables
    /\ match \in Command \cup {NULL}

\* run_command is handed a leaf of the tables, so never a COMPOUND entry ("XXX:
\* Should never happen." there); if the leaf takes a parameter, that is the one
\* word after its keyword, however many separators the line had.
RunsLeafWithItsWord ==
    pc = "run" =>
        /\ match.next = NULL /\ match.type # "COMPOUND"
        /\ match.type # "NON" => at = Len(argv) /\ p = argv[at]

\* parse_command never looks past the NULL that ends argv, although argc may be
\* larger than the number of words.
StaysInArgv == pc = "parse" => at <= Len(argv) + 1

=============================================================================
