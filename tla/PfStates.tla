------------------------------- MODULE PfStates -------------------------------
(***************************************************************************)
(* FreeSense_get_pf_states: the states of pf, narrowed down by interface or*)
(* rule and by a text, up to a limit. The kernel hands the states one by   *)
(* one to FreeSense_append_state, until it returns an error. A state has   *)
(* its two ends, [1] and [2], each <<address, port>>, as they are on the   *)
(* wire and as the host sees them; they differ where they are translated.  *)
(* (The code's indices are 1 less.)                                        *)
(***************************************************************************)
EXTENDS Integers, Sequences, SequencesExt

CONSTANTS
    Tables,         \* sequences of states: [id, ifname, rule (or None), proto, dir, wire, stack, names]
    Queries,        \* the arrays of the callers: sequences of sequences of [key, value]
    Limit,          \* 50000
    None

VARIABLES table, query, done, result

vars == <<table, query, done, result>>

Init == table \in Tables /\ query \in Queries \cup {None} /\ done = FALSE /\ result = None

-----------------------------------------------------------------------------
\* What the callback keeps from state to state.
Entries == FlattenSeq(query)
Has(key) == query # None /\ \E n \in DOMAIN Entries : Entries[n].key = key
filter_if == Has("interface")
filter_rl == Has("ruleid")
\* the last one counts
filter == LET f == SelectSeq(Entries, LAMBDA e : e.key = "filter")
          IN  IF Has("filter") THEN Last(f).value ELSE None

\* Where filters by interface or rule are given, every value of the array is
\* compared with the state's, whatever its key is.
Selected(s) ==
    LET of == IF filter_if THEN s.ifname ELSE s.rule
    IN  of # None /\ \E n \in DOMAIN Entries : Entries[n].value = of

\* The state as the caller gets it: an outgoing state, and an incoming one whose
\* address family is translated, has its source at [2]. One of the ports of ICMP
\* is no port and is copied.
IsIcmp(s) == s.proto \in {"icmp", "ipv6-icmp"}
Shown(s) ==
    LET nk   == IF s.dir = "out" THEN s.wire ELSE s.stack
        n0   == IF s.dir = "out" THEN 1 ELSE 2
        sk0  == IF s.dir = "out" THEN s.stack ELSE s.wire
        sk   == IF IsIcmp(s) THEN [sk0 EXCEPT !.addr[n0][2] = nk.addr[n0][2]] ELSE sk0
        afto == s.wire.af # s.stack.af
        orig(n) == IF afto THEN sk.addr[3 - n]
                   ELSE IF nk.addr[n] # sk.addr[n] THEN sk.addr[n] ELSE None
        out  == s.dir = "out" \/ afto
        src  == IF out THEN 2 ELSE 1
    IN  [id |-> s.id, direction |-> IF out THEN "out" ELSE "in",
         src |-> nk.addr[src], src_orig |-> orig(src),
         dst |-> nk.addr[3 - src], dst_orig |-> orig(3 - src)]

\* The text is looked for in the protocol's name, the addresses and the names
\* of the states of the two ends, where they have names; a text that occurs in
\* another is that other.
Found(s) ==
    LET v == Shown(s)
        texts == {v.src, v.src_orig, v.dst, v.dst_orig} \ {None}
    IN  filter \in {s.proto} \cup s.names \cup UNION {ToSet(e) : e \in texts}

\* Mutant: only the states that are listed count.
Append1_CountsListed(st, s) ==
    IF st.err # "none" THEN st
    ELSE IF st.count > Limit THEN [st EXCEPT !.err = "E2BIG"]
    ELSE IF (filter_if \/ filter_rl) /\ \E n \in DOMAIN query : query[n] = <<>>
    THEN [st EXCEPT !.err = "EINVAL"]
    ELSE IF (filter_if \/ filter_rl) /\ ~Selected(s) THEN st
    ELSE IF filter # None /\ ~Found(s) THEN st
    ELSE [st EXCEPT !.count = @ + 1, !.out = Append(@, Shown(s))]

\* FreeSense_append_state
Append1(st, s) ==
    IF st.err # "none" THEN st
    ELSE IF st.count > Limit THEN [st EXCEPT !.err = "E2BIG"]
    ELSE LET on == [st EXCEPT !.count = @ + 1] IN
         IF (filter_if \/ filter_rl) /\ \E n \in DOMAIN query : query[n] = <<>>
         THEN [on EXCEPT !.err = "EINVAL"]
         ELSE IF (filter_if \/ filter_rl) /\ ~Selected(s) THEN on
         ELSE IF filter # None /\ ~Found(s) THEN on
         ELSE [on EXCEPT !.out = Append(@, Shown(s))]

get_pf_states ==
    IF query # None /\ (Entries = <<>> \/ (filter_if /\ filter_rl)) THEN None
    ELSE LET st == FoldLeft(Append1, [count |-> 0, err |-> "none", out |-> <<>>], table)
         IN  IF st.err = "EINVAL" THEN None ELSE st.out

\* The kernel may also refuse to list its states.
GetStates ==
    /\ ~done /\ done' = TRUE
    /\ result' = get_pf_states \/ result' = None
    /\ UNCHANGED <<table, query>>

Next == GetStates \/ (done /\ UNCHANGED vars)
Spec == Init /\ [][Next]_vars
-----------------------------------------------------------------------------
\* A caller that gets an array gets, of the first states of the table, exactly
\* those that pass all its filters, once and in their order; of each it gets the
\* two ends on the far side of the translation, its source first whichever way
\* the state was created, and with each end what it was before the translation,
\* where that differs. (What stands for a port of ICMP is not counted.)
Passes(s) ==
    /\ filter_if => \E n \in DOMAIN Entries : Entries[n].value = s.ifname
    /\ filter_rl => \E n \in DOMAIN Entries : Entries[n].value = s.rule
    /\ filter # None =>
          \/ filter \in {s.proto} \cup s.names
          \/ \E e \in {s.wire, s.stack} : \E n \in 1..2 : filter \in ToSet(e.addr[n])
Ends(k, s) == IF IsIcmp(s) THEN {k.addr[n][1] : n \in 1..2} ELSE ToSet(k.addr)
Told(v, s) ==
    LET ends == {v.src, v.dst, v.src_orig, v.dst_orig} \ {None}
    IN  IF IsIcmp(s) THEN {e[1] : e \in ends} ELSE ends
StatesRight ==
    done /\ result # None =>
        LET seen == SubSeq(table, 1, IF Len(table) < Limit + 1 THEN Len(table) ELSE Limit + 1)
            pass == SelectSeq(seen, Passes)
        IN  /\ Len(result) = Len(pass)
            /\ \A n \in DOMAIN pass :
                  LET s == pass[n]
                      v == result[n]
                      k == IF s.dir = "out" THEN s.wire ELSE s.stack
                  IN  /\ v.id = s.id
                      /\ <<v.src, v.dst>> = IF v.direction = "out" THEN <<k.addr[2], k.addr[1]>>
                                                                   ELSE k.addr
                      /\ Told(v, s) = Ends(s.wire, s) \cup Ends(s.stack, s)
                      /\ None \in {v.src_orig, v.dst_orig} => s.wire.af = s.stack.af
===============================================================================
