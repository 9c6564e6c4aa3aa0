------------------------------- MODULE PfReaders -------------------------------
(***************************************************************************)
(* The functions of the PHP module that list the rules of an anchor of pf, *)
(* zero their counters or flush them, called by PHP workers while rules are*)
(* loaded by others. A function asks for the number of rules and a ticket, *)
(* then for one rule after the other with that ticket, which the kernel    *)
(* refuses once the ruleset was replaced.                                  *)
(***************************************************************************)
EXTENDS Integers, Sequences

CONSTANTS
    Workers,
    Lists,          \* rulesets that are loaded: sequences of [id, pipe]
    Types,          \* types that pf_cp_flush is called with
    MaxCalls, MaxLoads, MaxFaults,      \* bounds: calls, loads and failing system calls
    None

\* Rulesets are sequences of rules, and None is no record.
ASSUME ListsAssumption == Lists \subseteq Seq([id : STRING, pipe : BOOLEAN])

Kinds == {"eth", "scrub", "pass"}
Functions == {"get_pf_rules", "get_pf_rules_eth", "eth_pipes", "eth_counters",
              "eth_last_active", "zerocnt"}
Strict == {"get_pf_rules", "get_pf_rules_eth"}
Rulesets == Lists \cup {<<>>}
ASSUME NoneAssumption == None \notin [fn : Functions, saw : Rulesets]

VARIABLES
    log,            \* of each kind: the rulesets it had; a ticket is an index
    pc, fn, kind,   \* of each worker: where it is, its function, the kind it reads,
    ticket, nr,     \*   what it was given, the rule it asks for next (from 1),
    out,            \*   the array so far,
    zeroed,         \*   history: the rules it has zeroed, with kind and ticket
    answer,         \*   what it answered last
    ncalls, nloads, nfaults

mine == <<pc, fn, kind, ticket, nr, out, zeroed, answer>>
vars == <<log, mine, ncalls, nloads, nfaults>>

Current(k) == log[k][Len(log[k])]
Array(list) == [v |-> "array", list |-> list]
NullValue == [v |-> "null"]
False == [v |-> "false"]

Init ==
    /\ \E l \in Lists : log = [k \in Kinds |-> <<l>>]
    /\ pc = [w \in Workers |-> "idle"] /\ fn = [w \in Workers |-> None]
    /\ kind = [w \in Workers |-> None] /\ ticket = [w \in Workers |-> 0]
    /\ nr = [w \in Workers |-> 0] /\ out = [w \in Workers |-> <<>>]
    /\ zeroed = [w \in Workers |-> {}] /\ answer = [w \in Workers |-> None]
    /\ ncalls = 0 /\ nloads = 0 /\ nfaults = 0

\* The kernel: another program loads the rules of some kinds.
Install(ks, l) ==
    /\ log' = [k \in Kinds |-> IF k \in ks THEN Append(log[k], l) ELSE log[k]]
    /\ nloads' = nloads + 1

Load(k, l) ==
    /\ nloads < MaxLoads
    /\ Install({k}, l)
    /\ UNCHANGED <<mine, ncalls, nfaults>>

-----------------------------------------------------------------------------
Goto(w, l) == pc' = [pc EXCEPT ![w] = l]
Set(f, w, x) == [f EXCEPT ![w] = x]
Refusal(f) == IF f \in Strict THEN False ELSE NullValue
FirstKind(f) == IF f = "get_pf_rules" THEN "pass" ELSE "eth"

Return(w, a) ==
    /\ Goto(w, "idle") /\ answer' = Set(answer, w, a)
    /\ fn' = Set(fn, w, None) /\ kind' = Set(kind, w, None)
    /\ ticket' = Set(ticket, w, 0) /\ nr' = Set(nr, w, 0)
    /\ out' = Set(out, w, <<>>) /\ zeroed' = Set(zeroed, w, {})

Faulty == nfaults < MaxFaults /\ nfaults' = nfaults + 1
Works == UNCHANGED nfaults

\* /dev/pf is opened, or not.
Call(w, f) ==
    /\ pc[w] = "idle" /\ ncalls < MaxCalls
    /\ ncalls' = ncalls + 1
    /\ \/ /\ Works /\ Goto(w, "info")
          /\ fn' = Set(fn, w, f) /\ kind' = Set(kind, w, FirstKind(f))
          /\ UNCHANGED <<ticket, nr, out, zeroed, answer>>
       \/ Faulty /\ Return(w, Refusal(f))
    /\ UNCHANGED <<log, nloads>>

get_pf_rules(w) == Call(w, "get_pf_rules") \/ Call(w, "get_pf_rules_eth")
pf_cp_get_eth_pipes(w) == Call(w, "eth_pipes")
pf_cp_get_eth_rule_counters(w) == Call(w, "eth_counters")
pf_cp_get_eth_last_active(w) == Call(w, "eth_last_active")
pf_cp_zerocnt(w) == Call(w, "zerocnt")

\* pfctl_get_rules_info and pfctl_get_eth_rules_info
Info(w) ==
    /\ pc[w] = "info"
    /\ \/ /\ Works /\ Goto(w, "get")
          /\ ticket' = Set(ticket, w, Len(log[kind[w]])) /\ nr' = Set(nr, w, 1)
          /\ UNCHANGED <<fn, kind, out, zeroed, answer>>
       \/ Faulty /\ Return(w, Refusal(fn[w]))
    /\ UNCHANGED <<log, ncalls, nloads>>

\* The kernel gives out rule nr of the ruleset with this ticket.
Given(w) == ticket[w] = Len(log[kind[w]])
Rule(w) == Current(kind[w])[nr[w]]
More(w) == nr[w] <= Len(log[kind[w]][ticket[w]])

\* eth_pipes and eth_counters tell of the rules with a pipe only.
Tells(f, r) == f \in {"eth_pipes", "eth_counters"} => r.pipe

\* Mutant: every function answers with the rules it has got.
GetRule_Partial(w) ==
    /\ pc[w] = "get" /\ fn[w] # "zerocnt" /\ More(w)
    /\ \/ /\ Works /\ Given(w)
          /\ out' = Set(out, w, IF Tells(fn[w], Rule(w)) THEN Append(out[w], Rule(w).id) ELSE out[w])
          /\ nr' = Set(nr, w, nr[w] + 1)
          /\ UNCHANGED <<pc, fn, kind, ticket, zeroed, answer>>
       \/ /\ (Works /\ ~Given(w)) \/ Faulty
          /\ Return(w, Array(out[w]))
    /\ UNCHANGED <<log, ncalls, nloads>>

GetRule(w) ==
    /\ pc[w] = "get" /\ fn[w] # "zerocnt" /\ More(w)
    /\ \/ /\ Works /\ Given(w)
          /\ out' = Set(out, w, IF Tells(fn[w], Rule(w)) THEN Append(out[w], Rule(w).id) ELSE out[w])
          /\ nr' = Set(nr, w, nr[w] + 1)
          /\ UNCHANGED <<pc, fn, kind, ticket, zeroed, answer>>
       \/ /\ (Works /\ ~Given(w)) \/ Faulty
          /\ Return(w, IF fn[w] \in Strict THEN False ELSE Array(out[w]))
    /\ UNCHANGED <<log, ncalls, nloads>>

GotRules(w) ==
    /\ pc[w] = "get" /\ fn[w] # "zerocnt" /\ ~More(w)
    /\ Return(w, Array(out[w]))
    /\ UNCHANGED <<log, ncalls, nloads, nfaults>>

\* pf_cp_zerocnt: the Ethernet rules, the scrub rules, the filter rules, up to
\* the first system call that fails; it answers nothing.
ZeroRule(w) ==
    /\ pc[w] = "get" /\ fn[w] = "zerocnt" /\ More(w)
    /\ \/ /\ Works /\ Given(w)
          /\ zeroed' = Set(zeroed, w, zeroed[w] \cup {<<kind[w], ticket[w], nr[w]>>})
          /\ nr' = Set(nr, w, nr[w] + 1)
          /\ UNCHANGED <<pc, fn, kind, ticket, out, answer>>
       \/ /\ (Works /\ ~Given(w)) \/ Faulty
          /\ Return(w, NullValue)
    /\ UNCHANGED <<log, ncalls, nloads>>

\* Mutant: the scrub rules are left out.
ZeroNext_NoScrub(w) ==
    /\ pc[w] = "get" /\ fn[w] = "zerocnt" /\ ~More(w)
    /\ IF kind[w] = "pass" THEN Return(w, NullValue)
       ELSE /\ kind' = Set(kind, w, "pass") /\ Goto(w, "info")
            /\ UNCHANGED <<fn, ticket, nr, out, zeroed, answer>>
    /\ UNCHANGED <<log, ncalls, nloads, nfaults>>

\* Mutant: after the filter rules it starts again.
ZeroNext_Again(w) ==
    /\ pc[w] = "get" /\ fn[w] = "zerocnt" /\ ~More(w)
    /\ kind' = Set(kind, w, CASE kind[w] = "eth" -> "scrub" [] kind[w] = "scrub" -> "pass"
                                [] kind[w] = "pass" -> "eth")
    /\ Goto(w, "info")
    /\ UNCHANGED <<log, fn, ticket, nr, out, zeroed, answer, ncalls, nloads, nfaults>>

ZeroNext(w) ==
    /\ pc[w] = "get" /\ fn[w] = "zerocnt" /\ ~More(w)
    /\ IF kind[w] = "pass" THEN Return(w, NullValue)
       ELSE /\ kind' = Set(kind, w, IF kind[w] = "eth" THEN "scrub" ELSE "pass")
            /\ Goto(w, "info")
            /\ UNCHANGED <<fn, ticket, nr, out, zeroed, answer>>
    /\ UNCHANGED <<log, ncalls, nloads, nfaults>>

\* pf_cp_flush: a type is one of three words, of which a beginning is enough;
\* the empty one is "rules". Libpfctl clears the rules in one transaction.
FlushedKinds(type) ==
    CASE type \in {"", "r", "rules"} -> {"scrub", "pass"}
      [] type = "ether" -> {"eth"}
      [] OTHER -> {}

pf_cp_flush(w, type) ==
    /\ pc[w] = "idle" /\ ncalls < MaxCalls /\ nloads < MaxLoads
    /\ ncalls' = ncalls + 1
    /\ \/ Works /\ type # "other" /\ Install(FlushedKinds(type), <<>>)
       \/ Faulty /\ UNCHANGED <<log, nloads>>
       \/ Works /\ type = "other" /\ UNCHANGED <<log, nloads>>
    /\ UNCHANGED mine

Step(w) == Info(w) \/ GetRule(w) \/ GotRules(w) \/ ZeroRule(w) \/ ZeroNext(w)

Next ==
    \/ \E k \in Kinds, l \in Lists : Load(k, l)
    \/ \E w \in Workers :
          \/ get_pf_rules(w) \/ pf_cp_get_eth_pipes(w) \/ pf_cp_get_eth_rule_counters(w)
          \/ pf_cp_get_eth_last_active(w) \/ pf_cp_zerocnt(w)
          \/ \E t \in Types : pf_cp_flush(w, t)
          \/ Step(w)

\* A PHP worker that can run does.
Spec == Init /\ [][Next]_vars /\ \A w \in Workers : WF_vars(Step(w))
-----------------------------------------------------------------------------
(* What a caller may rely on.                                                *)
\* The sequence ids tells of the first n rules of a list, in their order.
TellsFirst(f, list, n, ids) ==
    \E at \in [DOMAIN ids -> 1..n] :
        /\ \A i, j \in DOMAIN ids : i < j => at[i] < at[j]
        /\ \A m \in 1..n : Tells(f, list[m]) <=> \E i \in DOMAIN ids : at[i] = m
        /\ \A i \in DOMAIN ids : ids[i] = list[at[i]].id

\* get_pf_rules answers with the whole ruleset; the others give up where a
\* rule is refused, and answer with those before it.
MayAnswer(f, list, a) ==
    /\ a.v = "array"
    /\ \E n \in 0..Len(list) : (f \in Strict => n = Len(list)) /\ TellsFirst(f, list, n, a.list)

Atomic == INSTANCE AtomicRead WITH
    Readers <- Workers, Fns <- Functions, Refusals <- {False, NullValue}, IsAnswer <- MayAnswer,
    current <- [k \in Kinds |-> Current(k)],
    sees <- [w \in Workers |-> IF pc[w] = "get" /\ fn[w] # "zerocnt"
                               THEN [fn |-> fn[w], saw |-> log[kind[w]][ticket[w]]] ELSE None]

\* A worker that lists rules answers from the ruleset of one instant of its
\* call, whole or (three of the functions) cut short, and never with rules of
\* two rulesets; what other workers do does not show.
ReadsOneRuleset == Atomic!Spec

\* pf_cp_zerocnt comes to the scrub rules, and to the filter rules, only after
\* each rule of a ruleset of the kind before was zeroed; and it zeroes no rule
\* of a ruleset it was not given the number of.
ZeroedBefore(w, k) ==
    \E t \in DOMAIN log[k] : \A n \in DOMAIN log[k][t] : <<k, t, n>> \in zeroed[w]
ZeroesInOrder ==
    \A w \in Workers :
        /\ fn[w] = "zerocnt" /\ pc[w] # "idle" =>
              /\ kind[w] # "eth" => ZeroedBefore(w, "eth")
              /\ kind[w] = "pass" => ZeroedBefore(w, "scrub")
        /\ \A z \in zeroed[w] : z[3] \in DOMAIN log[z[1]][z[2]]

\* Every call returns.
CallsReturn == \A w \in Workers : []<>(pc[w] = "idle")
===============================================================================
