------------------------- MODULE CommandParserProofs -------------------------
(***************************************************************************)
(* What parse_command hands to run_command, for every command table.       *)
(***************************************************************************)
EXTENDS CommandParser, TLAPS

\* argc and at move together, the parameter is the element of argv at the count
\* of all tokens, which is at least the number of words, and parse_command
\* advances over words only.
Counts ==
    /\ Len(argv) <= i
    /\ buf = <<>> => i # 0
    /\ pc = "split" => at = 1
    /\ pc \in {"parse", "run"} => /\ argc = i - at
                                  /\ p = Word(i)
                                  /\ at <= Len(argv) + 1
    /\ pc = "run" => /\ match \in Command
                     /\ match.next = NULL
                     /\ match.type # "COMPOUND"
                     /\ ~Bad(match, argc, Word(at))

IInv == TypeOK /\ Counts

\* The parser before its first word.
LEMMA InitHolds == Init => IInv
<1> SUFFICES ASSUME Init PROVE IInv
  OBVIOUS
<1>1. buf \in Seq(Words \cup {Empty})
  <2>1. PICK n \in 1..MaxTokens : buf \in [1..n -> Words \cup {Empty}]
    BY DEF Init
  <2>2. n \in Nat
    BY <2>1, TokenBound
  <2> QED
    BY <2>1, <2>2
<1>2. argv \in Seq(Words) /\ Len(argv) = 0
  BY DEF Init
<1>3. TypeOK
  BY <1>1, <1>2, TableAssumption DEF Init, TypeOK
<1>4. buf # <<>>
  <2>1. PICK n \in 1..MaxTokens : buf \in [1..n -> Words \cup {Empty}]
    BY DEF Init
  <2>2. n \in Nat /\ n >= 1
    BY <2>1, TokenBound
  <2>3. DOMAIN buf = 1..n
    BY <2>1
  <2>4. 1 \in DOMAIN buf
    BY <2>2, <2>3
  <2> QED
    BY <2>4
<1>5. Counts
  BY <1>2, <1>4 DEF Init, Counts
<1> QED
  BY <1>3, <1>5 DEF IInv

\* A matched word is one of argv.
LEMMA MatchIsWord ==
    ASSUME TypeOK, NEW t \in Tables, NEW n \in Nat \ {0},
           NEW e \in match_command(t, Word(n))
    PROVE  e \in Command /\ e \in Entries[t] /\ n <= Len(argv)
<1>1. e \in Entries[t] /\ e.keyword = Word(n)
  BY DEF match_command
<1>2. e \in Command
  BY <1>1, TableAssumption
<1>3. e.keyword \in Words
  BY <1>2 DEF Command
<1>4. Word(n) # NULL /\ Word(n) # Garbage
  BY <1>1, <1>3, TableAssumption
<1> QED
  BY <1>1, <1>2, <1>4 DEF Word, TypeOK

\* Every step of the parser keeps the invariant.
LEMMA StepHolds == IInv /\ [Next]_vars => IInv'
<1> SUFFICES ASSUME IInv, [Next]_vars PROVE IInv'
  OBVIOUS
<1>t. TypeOK /\ Counts
  BY DEF IInv
<1>w. ASSUME NEW n \in Nat \ {0} PROVE Word(n) \in Words \cup {NULL, Garbage}
  BY <1>t DEF Word, TypeOK
<1>1. CASE Split
  <2>1. Head(buf) \in Words \cup {Empty} /\ Tail(buf) \in Seq(Words \cup {Empty})
    BY <1>1, <1>t DEF Split, TypeOK
  <2>2. argv' \in Seq(Words) /\ Len(argv') <= Len(argv) + 1 /\ Len(argv) \in Nat
    BY <1>1, <1>t, <2>1 DEF Split, TypeOK
  <2>3. Len(argv') \in Nat
    BY <2>2
  <2>4. TypeOK'
    BY <1>1, <1>t, <2>1, <2>2 DEF Split, TypeOK
  <2>5. Counts'
    BY <1>1, <1>t, <2>2, <2>3 DEF Split, TypeOK, Counts
  <2> QED
    BY <2>4, <2>5 DEF IInv
<1>2. CASE Count
  <2>1. i \in Nat /\ Len(argv) \in Nat
    BY <1>t DEF TypeOK
  <2>2. p' \in Words \cup {NULL, Garbage}
    <3>1. i # 0
      BY <1>2, <1>t DEF Count, Counts
    <3> QED
      BY <1>2, <1>w, <2>1, <3>1 DEF Count
  <2>3. TypeOK'
    BY <1>2, <1>t, <2>1, <2>2 DEF Count, TypeOK
  <2>4. Counts'
    BY <1>2, <1>t, <2>1 DEF Count, Counts, Word
  <2> QED
    BY <2>3, <2>4 DEF IInv
<1>3. CASE NoMatch \/ BadMatch
  BY <1>3, <1>t DEF NoMatch, BadMatch, Reject, IInv, TypeOK, Counts
<1>4. CASE GoodMatch
  <2>1. PICK e \in match_command(start, Word(at)) :
           /\ ~Bad(e, argc - 1, Word(at + 1))
           /\ match' = e
           /\ pc' = IF e.next = NULL \/ argc - 1 < 0 THEN "run" ELSE "parse"
           /\ start' = IF e.next = NULL THEN start ELSE e.next
    BY <1>4 DEF GoodMatch
  <2>2. /\ pc = "parse" /\ argc' = argc - 1 /\ at' = at + 1
        /\ UNCHANGED <<buf, argv, i, p>>
    BY <1>4 DEF GoodMatch
  <2>3. e \in Command /\ e \in Entries[start] /\ at <= Len(argv)
    BY <1>t, <2>1, MatchIsWord DEF TypeOK
  <2>4. e.next \in Tables \cup {NULL} /\ e.type \in Types
    BY <2>3 DEF Command
  <2>5. /\ e.type = "NON" => e.next = NULL
        /\ e.type = "COMPOUND" => e.next # NULL
    BY <1>t, <2>3, TableAssumption DEF TypeOK
  <2>6. TypeOK'
    BY <1>t, <2>1, <2>2, <2>3, <2>4 DEF TypeOK
  <2>7. buf' = <<>> => i' # 0
    BY <1>t, <2>2 DEF Counts
  <2>8. argc' = i' - at' /\ p' = Word(i)' /\ at' <= Len(argv)' + 1 /\ Len(argv)' <= i'
    BY <1>t, <2>2, <2>3 DEF TypeOK, Counts, Word
  <2>9. ~Bad(match, argc, Word(at))'
    BY <2>1, <2>2 DEF Bad, Word
  <2>10. pc' = "run" => e.next = NULL
    <3>1. SUFFICES ASSUME pc' = "run", e.next # NULL PROVE FALSE
      OBVIOUS
    <3>2. argc - 1 < 0
      BY <2>1, <3>1
    <3>3. e.type = "NON"
      BY <2>1, <3>2 DEF Bad
    <3> QED
      BY <2>5, <3>1, <3>3
  <2>11. pc' \in {"run", "parse"}
    BY <2>1
  <2>12. Counts'
    BY <2>1, <2>3, <2>5, <2>7, <2>9, <2>10, <2>11, <2>8 DEF Counts
  <2> QED
    BY <2>6, <2>12 DEF IInv
<1>5. CASE UNCHANGED vars
  BY <1>5, <1>t DEF vars, IInv, TypeOK, Counts, Word, Bad
<1> QED
  BY <1>1, <1>2, <1>3, <1>4, <1>5 DEF Next

\* The invariant holds throughout.
LEMMA ParserInvariant == Spec => []IInv
<1> QED
  BY InitHolds, StepHolds, PTL DEF Spec

\* The parser's state keeps its type.
THEOREM ParserTyped == Spec => []TypeOK
<1>1. IInv => TypeOK
  BY DEF IInv
<1> QED
  BY <1>1, ParserInvariant, PTL

\* For every table in which COMPOUND entries lead on and NON entries do not:
\* run_command gets a leaf, never a COMPOUND entry, and the leaf's own word.
THEOREM LeafGetsItsWord == Spec => []RunsLeafWithItsWord
<1>1. IInv => RunsLeafWithItsWord
  <2> SUFFICES ASSUME IInv, pc = "run"
               PROVE  /\ match.next = NULL /\ match.type # "COMPOUND"
                      /\ match.type # "NON" => at = Len(argv) /\ p = argv[at]
    BY DEF RunsLeafWithItsWord
  <2>1. match.next = NULL /\ match.type # "COMPOUND" /\ ~Bad(match, argc, Word(at))
    BY DEF IInv, Counts
  <2>2. /\ argc = i - at /\ p = Word(i) /\ at <= Len(argv) + 1 /\ Len(argv) <= i
        /\ i \in Nat /\ at \in Nat /\ Len(argv) \in Nat
    BY DEF IInv, Counts, TypeOK
  <2>3. ASSUME match.type # "NON" PROVE at = Len(argv) /\ p = argv[at]
    <3>1. argc = 0 /\ Word(at) # NULL
      BY <2>1, <2>2, <2>3 DEF Bad
    <3>2. at = i
      BY <2>2, <3>1
    <3>3. at <= Len(argv)
      BY <2>2, <3>1 DEF Word
    <3> QED
      BY <2>2, <3>2, <3>3 DEF Word
  <2> QED
    BY <2>1, <2>3
<1> QED
  BY <1>1, ParserInvariant, PTL

\* parse_command never reads an element of argv that strsep() did not set.
THEOREM ParserStaysInArgv == Spec => []StaysInArgv
<1>1. IInv => StaysInArgv
  BY DEF IInv, Counts, StaysInArgv
<1> QED
  BY <1>1, ParserInvariant, PTL
=============================================================================
