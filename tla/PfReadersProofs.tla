---------------------------- MODULE PfReadersProofs ----------------------------
(***************************************************************************)
(* Proof that the functions that list the rules of pf implement AtomicRead:*)
(* for any number of workers, any rulesets and any number of loads, calls  *)
(* and failing system calls, an answer is about the ruleset of one instant.*)
(* The inductive invariant says that what a worker has in its array is what*)
(* the ruleset of its ticket says up to the rule it asks for next. It holds*)
(* because a ruleset of the log is never changed, only followed by others. *)
(***************************************************************************)
EXTENDS PfReaders, TLAPS

Rule1 == [id : STRING, pipe : BOOLEAN]
List(w) == log[kind[w]][ticket[w]]

TypeInv ==
    /\ log \in [Kinds -> Seq(Rulesets)]
    /\ \A k \in Kinds : log[k] # <<>>
    /\ pc \in [Workers -> {"idle", "info", "get"}]
    /\ fn \in [Workers -> Functions \cup {None}]
    /\ kind \in [Workers -> Kinds \cup {None}]
    /\ ticket \in [Workers -> Nat] /\ nr \in [Workers -> Nat]
    /\ out \in [Workers -> Seq(STRING)]
    /\ answer = [w \in Workers |-> answer[w]]

Reading(w) ==
    /\ pc[w] # "idle" => fn[w] \in Functions /\ kind[w] \in Kinds
    /\ pc[w] = "get" /\ fn[w] # "zerocnt" => TellsFirst(fn[w], List(w), nr[w] - 1, out[w])
    /\ pc[w] = "get" => ticket[w] \in 1..Len(log[kind[w]]) /\ nr[w] \in 1..(Len(List(w)) + 1)
    /\ ~(pc[w] = "get" /\ fn[w] # "zerocnt") => out[w] = <<>>

IInv == TypeInv /\ \A w \in Workers : Reading(w)

-----------------------------------------------------------------------------
\* A ruleset is a sequence of rules.
LEMMA RulesetsAreLists == Rulesets \subseteq Seq(Rule1)
<1>1. <<>> \in Seq(Rule1)
  OBVIOUS
<1>2. Lists \subseteq Seq(Rule1)
  BY ListsAssumption, Zenon DEF Rule1
<1> QED
  BY <1>1, <1>2, Zenon DEF Rulesets

\* Nothing is told of no rules.
LEMMA TellsNone ==
    ASSUME NEW f, NEW list
    PROVE  TellsFirst(f, list, 0, <<>>)
<1>1. DOMAIN <<>> = {} /\ 1..0 = {}
  OBVIOUS
<1>2. [x \in {} |-> x] \in [DOMAIN <<>> -> 1..0]
  BY <1>1
<1> QED
  BY <1>1, <1>2, Zenon DEF TellsFirst

\* What is told of the first n rules, from what is told of those before.
LEMMA TellsNext ==
    ASSUME NEW f, NEW list \in Seq(Rule1), NEW n \in 1..Len(list), NEW ids \in Seq(STRING),
           TellsFirst(f, list, n - 1, ids)
    PROVE  TellsFirst(f, list, n, IF Tells(f, list[n]) THEN Append(ids, list[n].id) ELSE ids)
<1>1. PICK at \in [DOMAIN ids -> 1..(n - 1)] :
        /\ \A i, j \in DOMAIN ids : i < j => at[i] < at[j]
        /\ \A m \in 1..(n - 1) : Tells(f, list[m]) <=> \E i \in DOMAIN ids : at[i] = m
        /\ \A i \in DOMAIN ids : ids[i] = list[at[i]].id
  BY DEF TellsFirst
<1>2. CASE ~Tells(f, list[n])
  <2>1. at \in [DOMAIN ids -> 1..n]
    BY DEF Rule1
  <2>2. \A m \in 1..n : Tells(f, list[m]) <=> \E i \in DOMAIN ids : at[i] = m
    BY <1>1, <1>2
  <2>3. TellsFirst(f, list, n, ids)
    BY <1>1, <2>1, <2>2, Zenon DEF TellsFirst
  <2> QED
    BY <2>3, <1>2
<1>3. CASE Tells(f, list[n])
  <2> DEFINE new == Append(ids, list[n].id)
             last == Len(ids) + 1
             to == [i \in 1..last |-> IF i = last THEN n ELSE at[i]]
  <2>1. /\ DOMAIN ids = 1..Len(ids) /\ Len(ids) \in Nat /\ DOMAIN new = 1..last
        /\ \A i \in DOMAIN ids : new[i] = ids[i]
        /\ new[last] = list[n].id
    BY DEF Rule1
  <2>2. to \in [DOMAIN new -> 1..n]
    BY <2>1
  <2>3. \A i, j \in DOMAIN new : i < j => to[i] < to[j]
    BY <1>1, <2>1
  <2>4. \A m \in 1..n : Tells(f, list[m]) <=> \E i \in DOMAIN new : to[i] = m
    <3> TAKE m \in 1..n
    <3>1. CASE m = n
      BY <3>1, <1>3, <2>1
    <3>2. CASE m # n
      <4>1. m \in 1..(n - 1)
        BY <3>2
      <4> QED
        BY <4>1, <3>2, <1>1, <2>1, SMTT(30)
    <3> QED
      BY <3>1, <3>2
  <2>5. \A i \in DOMAIN new : new[i] = list[to[i]].id
    BY <1>1, <2>1
  <2>6. TellsFirst(f, list, n, new)
    BY <2>2, <2>3, <2>4, <2>5, Zenon DEF TellsFirst
  <2> QED
    BY <2>6, <1>3
<1> QED
  BY <1>2, <1>3

-----------------------------------------------------------------------------
\* pf before the first call.
LEMMA InitHolds == Init => IInv
<1> SUFFICES ASSUME Init PROVE IInv
  OBVIOUS
<1>1. PICK l \in Lists : log = [k \in Kinds |-> <<l>>]
  BY DEF Init
<1>2. <<l>> \in Seq(Rulesets) /\ <<l>> # <<>>
  BY DEF Rulesets
<1>3. TypeInv
  BY <1>1, <1>2 DEF Init, TypeInv
<1>4. \A w \in Workers : Reading(w)
  BY DEF Init, Reading
<1> QED
  BY <1>3, <1>4 DEF IInv

\* A ruleset that has a ticket keeps it when others are loaded.
LEMMA LogGrows ==
    ASSUME TypeInv, NEW ks, NEW l \in Rulesets, Install(ks, l)
    PROVE  /\ log' \in [Kinds -> Seq(Rulesets)]
           /\ \A k \in Kinds : /\ log'[k] # <<>>
                               /\ Len(log'[k]) >= Len(log[k])
                               /\ \A t \in 1..Len(log[k]) : log'[k][t] = log[k][t]
<1>1. \A k \in Kinds : log[k] \in Seq(Rulesets) /\ log[k] # <<>>
  BY DEF TypeInv
<1>2. \A k \in Kinds : /\ Append(log[k], l) \in Seq(Rulesets)
                       /\ Append(log[k], l) # <<>>
                       /\ Len(Append(log[k], l)) = Len(log[k]) + 1
                       /\ \A t \in 1..Len(log[k]) : Append(log[k], l)[t] = log[k][t]
  BY <1>1
<1>3. log' = [k \in Kinds |-> IF k \in ks THEN Append(log[k], l) ELSE log[k]]
  BY DEF Install
<1>4. \A k \in Kinds : log'[k] = Append(log[k], l) \/ log'[k] = log[k]
  BY <1>3
<1> QED
  BY <1>1, <1>2, <1>3, <1>4

\* Loading rules leaves every worker where it is, with the list it reads.
LEMMA LoadHolds ==
    ASSUME IInv, NEW ks, NEW l \in Rulesets, Install(ks, l), UNCHANGED mine
    PROVE  IInv' /\ \A w \in Workers : pc[w] = "get" => List(w)' = List(w)
<1>1. TypeInv /\ \A w \in Workers : Reading(w)
  BY DEF IInv
<1>2. /\ log' \in [Kinds -> Seq(Rulesets)]
      /\ \A k \in Kinds : /\ log'[k] # <<>>
                          /\ Len(log'[k]) >= Len(log[k])
                          /\ \A t \in 1..Len(log[k]) : log'[k][t] = log[k][t]
  BY <1>1, LogGrows
<1>3. \A w \in Workers : pc[w] = "get" => List(w)' = List(w)
  BY <1>1, <1>2 DEF Reading, List, mine
<1>4. TypeInv'
  BY <1>1, <1>2 DEF TypeInv, mine
<1>5. ASSUME NEW w \in Workers PROVE Reading(w)'
  <2>1. CASE pc[w] # "get"
    BY <1>1, <2>1 DEF Reading, mine
  <2>2. CASE pc[w] = "get"
    <3>1. kind[w] \in Kinds /\ ticket[w] \in 1..Len(log[kind[w]])
      BY <1>1, <2>2 DEF Reading
    <3>2. ticket[w] \in 1..Len(log'[kind[w]])
      <4>1. Len(log[kind[w]]) \in Nat /\ Len(log'[kind[w]]) \in Nat
        BY <1>1, <1>2, <3>1 DEF TypeInv
      <4> QED
        BY <1>2, <3>1, <4>1
    <3> QED
      BY <1>1, <1>3, <2>2, <3>2, Zenon DEF Reading, mine, List
  <2> QED
    BY <2>1, <2>2
<1> QED
  BY <1>3, <1>4, <1>5 DEF IInv

-----------------------------------------------------------------------------
\* A step of worker w leaves the others alone.
Alone(w) ==
    /\ log' = log
    /\ \A v \in Workers \ {w} :
          /\ pc'[v] = pc[v] /\ fn'[v] = fn[v] /\ kind'[v] = kind[v] /\ ticket'[v] = ticket[v]
          /\ nr'[v] = nr[v] /\ out'[v] = out[v]

\* A call of one reader changes no other reader.
LEMMA OwnStep ==
    ASSUME IInv, NEW w \in Workers, Alone(w), TypeInv', Reading(w)'
    PROVE  IInv'
<1>1. ASSUME NEW v \in Workers \ {w} PROVE Reading(v)'
  BY <1>1, Zenon DEF IInv, Alone, Reading, List
<1> QED
  BY <1>1 DEF IInv

\* A call returns.
LEMMA ReturnHolds ==
    ASSUME IInv, NEW w \in Workers, NEW a, Return(w, a), UNCHANGED log
    PROVE  IInv' /\ pc' = [pc EXCEPT ![w] = "idle"] /\ answer' = [answer EXCEPT ![w] = a]
<1>1. Alone(w)
  BY DEF IInv, TypeInv, Return, Goto, Set, Alone
<1>2. TypeInv'
  <2>1. answer' = [answer EXCEPT ![w] = a] /\ answer = [v \in Workers |-> answer[v]]
    BY DEF IInv, TypeInv, Return, Set
  <2>2. answer' = [v \in Workers |-> answer'[v]]
    BY <2>1
  <2>3. <<>> \in Seq(STRING)
    OBVIOUS
  <2>4. /\ pc' \in [Workers -> {"idle", "info", "get"}]
        /\ fn' \in [Workers -> Functions \cup {None}]
        /\ kind' \in [Workers -> Kinds \cup {None}]
        /\ ticket' \in [Workers -> Nat] /\ nr' \in [Workers -> Nat]
        /\ out' \in [Workers -> Seq(STRING)]
    BY <2>3 DEF IInv, TypeInv, Return, Goto, Set
  <2> QED
    BY <2>2, <2>4 DEF IInv, TypeInv
<1>3. Reading(w)'
  BY DEF IInv, TypeInv, Return, Goto, Set, Reading
<1> QED
  BY <1>1, <1>2, <1>3, OwnStep DEF Return, Goto, Set

\* A call begins.
LEMMA CallHolds ==
    ASSUME IInv, NEW w \in Workers, NEW f \in Functions, Call(w, f)
    PROVE  IInv'
<1>1. CASE Return(w, Refusal(f))
  BY <1>1, ReturnHolds DEF Call
<1>2. CASE Goto(w, "info") /\ fn' = Set(fn, w, f) /\ kind' = Set(kind, w, FirstKind(f))
           /\ UNCHANGED <<ticket, nr, out, zeroed, answer>>
  <2>1. Alone(w)
    BY <1>2 DEF Call, IInv, TypeInv, Goto, Set, Alone
  <2>2. FirstKind(f) \in Kinds
    BY DEF FirstKind, Kinds
  <2>3. TypeInv'
    BY <1>2, <2>2 DEF Call, IInv, TypeInv, Goto, Set
  <2>4. Reading(w)'
    BY <1>2, <2>2 DEF Call, IInv, TypeInv, Goto, Set, Reading
  <2> QED
    BY <2>1, <2>3, <2>4, OwnStep
<1> QED
  BY <1>1, <1>2 DEF Call

\* A worker gets the ticket and the number of rules.
LEMMA InfoHolds ==
    ASSUME IInv, NEW w \in Workers, Info(w)
    PROVE  IInv'
<1>1. CASE Return(w, Refusal(fn[w]))
  BY <1>1, ReturnHolds DEF Info
<1>2. CASE /\ Goto(w, "get")
           /\ ticket' = Set(ticket, w, Len(log[kind[w]])) /\ nr' = Set(nr, w, 1)
           /\ UNCHANGED <<fn, kind, out, zeroed, answer>>
  <2>1. Alone(w)
    BY <1>2 DEF Info, IInv, TypeInv, Goto, Set, Alone
  <2>2. /\ pc[w] = "info" /\ kind[w] \in Kinds /\ fn[w] \in Functions /\ out[w] = <<>>
        /\ Len(log[kind[w]]) \in Nat \ {0}
    BY DEF Info, IInv, TypeInv, Reading
  <2>3. TypeInv'
    BY <1>2, <2>2 DEF Info, IInv, TypeInv, Goto, Set
  <2>4. /\ pc'[w] = "get" /\ fn'[w] = fn[w] /\ kind'[w] = kind[w] /\ log' = log
        /\ ticket'[w] = Len(log[kind[w]]) /\ nr'[w] = 1 /\ out'[w] = <<>>
    BY <1>2, <2>2 DEF Info, IInv, TypeInv, Goto, Set
  <2>5. Len(log[kind[w]][Len(log[kind[w]])]) \in Nat
    BY <2>2, RulesetsAreLists DEF IInv, TypeInv
  <2>6. TellsFirst(fn[w], List(w)', 0, <<>>)
    BY TellsNone
  <2>7. Reading(w)'
    BY <2>2, <2>4, <2>5, <2>6 DEF Reading, List
  <2> QED
    BY <2>1, <2>3, <2>7, OwnStep
<1> QED
  BY <1>1, <1>2 DEF Info

\* What a worker in the middle of a ruleset knows.
LEMMA AtRule ==
    ASSUME IInv, NEW w \in Workers, pc[w] = "get"
    PROVE  /\ kind[w] \in Kinds /\ fn[w] \in Functions
           /\ List(w) \in Seq(Rule1) /\ List(w) \in Rulesets
           /\ Len(List(w)) \in Nat /\ nr[w] \in 1..(Len(List(w)) + 1)
           /\ Given(w) => Current(kind[w]) = List(w)
           /\ More(w) <=> nr[w] <= Len(List(w))
<1>1. /\ kind[w] \in Kinds /\ fn[w] \in Functions /\ ticket[w] \in 1..Len(log[kind[w]])
      /\ nr[w] \in 1..(Len(List(w)) + 1) /\ log[kind[w]] \in Seq(Rulesets)
  BY DEF IInv, TypeInv, Reading
<1>2. List(w) \in Rulesets
  BY <1>1 DEF List
<1>3. List(w) \in Seq(Rule1) /\ Len(List(w)) \in Nat
  BY <1>2, RulesetsAreLists
<1>4. Given(w) => Current(kind[w]) = List(w)
  BY <1>1 DEF Given, Current, List
<1> QED
  BY <1>1, <1>2, <1>3, <1>4 DEF More, List

\* A worker gets one rule of its ticket's ruleset, or is refused.
LEMMA GetRuleHolds ==
    ASSUME IInv, NEW w \in Workers, GetRule(w)
    PROVE  IInv'
<1> USE AtRule
<1>1. CASE Return(w, IF fn[w] \in Strict THEN False ELSE Array(out[w]))
  BY <1>1, ReturnHolds DEF GetRule
<1>2. CASE /\ Given(w)
           /\ out' = Set(out, w, IF Tells(fn[w], Rule(w)) THEN Append(out[w], Rule(w).id) ELSE out[w])
           /\ nr' = Set(nr, w, nr[w] + 1)
           /\ UNCHANGED <<pc, fn, kind, ticket, zeroed, answer>>
  <2>1. Alone(w)
    BY <1>2 DEF GetRule, IInv, TypeInv, Set, Alone
  <2> DEFINE more == IF Tells(fn[w], List(w)[nr[w]]) THEN Append(out[w], List(w)[nr[w]].id) ELSE out[w]
  <2>2. /\ pc[w] = "get" /\ fn[w] # "zerocnt" /\ nr[w] \in 1..Len(List(w))
        /\ out[w] \in Seq(STRING) /\ Rule(w) = List(w)[nr[w]]
        /\ TellsFirst(fn[w], List(w), nr[w] - 1, out[w])
    BY <1>2 DEF GetRule, IInv, TypeInv, Reading, Rule
  <2>3. List(w)[nr[w]] \in Rule1
    BY <2>2
  <2>4. more \in Seq(STRING)
    <3>1. List(w)[nr[w]].id \in STRING
      BY <2>3 DEF Rule1
    <3>2. Append(out[w], List(w)[nr[w]].id) \in Seq(STRING)
      BY <2>2, <3>1
    <3> QED
      BY <2>2, <3>2, Zenon
  <2>5. out' = [out EXCEPT ![w] = more] /\ nr' = [nr EXCEPT ![w] = nr[w] + 1]
    BY <1>2, <2>2 DEF Set
  <2>6. TypeInv'
    <3>1. out' \in [Workers -> Seq(STRING)]
      BY <2>4, <2>5 DEF IInv, TypeInv
    <3>2. nr' \in [Workers -> Nat]
      BY <2>5 DEF IInv, TypeInv
    <3> QED
      BY <1>2, <3>1, <3>2 DEF GetRule, IInv, TypeInv
  <2>7. TellsFirst(fn[w], List(w), nr[w], more)
    BY <2>2, TellsNext
  <2>8. /\ out'[w] = more /\ nr'[w] = nr[w] + 1 /\ nr'[w] - 1 = nr[w]
        /\ nr'[w] \in 1..(Len(List(w)) + 1)
    BY <2>2, <2>5 DEF IInv, TypeInv
  <2>9. /\ List(w)' = List(w) /\ log' = log /\ pc'[w] = pc[w] /\ fn'[w] = fn[w]
        /\ kind'[w] = kind[w] /\ ticket'[w] = ticket[w]
    BY <1>2, SMTT(30) DEF GetRule, List
  <2>10. Reading(w)'
    <3> HIDE DEF more
    <3> QED
      BY <2>2, <2>7, <2>8, <2>9, SMTT(30) DEF Reading, IInv
  <2> QED
    BY <2>1, <2>6, <2>10, OwnStep
<1> QED
  BY <1>1, <1>2 DEF GetRule

\* pf_cp_zerocnt zeroes a rule or comes to the next kind.
LEMMA ZeroHolds ==
    ASSUME IInv, NEW w \in Workers, ZeroRule(w) \/ ZeroNext(w)
    PROVE  IInv'
<1> USE AtRule
<1>1. CASE Return(w, NullValue)
  BY <1>1, ReturnHolds DEF ZeroRule, ZeroNext
<1>2. CASE ZeroRule(w) /\ ~Return(w, NullValue)
  <2>1. Alone(w)
    BY <1>2 DEF ZeroRule, IInv, TypeInv, Set, Alone
  <2>2. /\ pc[w] = "get" /\ fn[w] = "zerocnt" /\ nr[w] \in 1..Len(List(w))
        /\ nr' = [nr EXCEPT ![w] = nr[w] + 1] /\ UNCHANGED <<log, pc, fn, kind, ticket, out, answer>>
    BY <1>2 DEF ZeroRule, Set
  <2>3. TypeInv'
    BY <2>2 DEF IInv, TypeInv
  <2>4. Reading(w)'
    BY <2>2, SMTT(30) DEF IInv, TypeInv, Reading, List
  <2> QED
    BY <2>1, <2>3, <2>4, OwnStep
<1>3. CASE ZeroNext(w) /\ ~Return(w, NullValue)
  <2> DEFINE next == IF kind[w] = "eth" THEN "scrub" ELSE "pass"
  <2>1. Alone(w)
    BY <1>3 DEF ZeroNext, IInv, TypeInv, Set, Goto, Alone
  <2>2. /\ pc[w] = "get" /\ fn[w] = "zerocnt" /\ kind' = [kind EXCEPT ![w] = next]
        /\ pc' = [pc EXCEPT ![w] = "info"] /\ UNCHANGED <<log, fn, nr, ticket, out, answer>>
    BY <1>3 DEF ZeroNext, Set, Goto
  <2>3. next \in Kinds
    BY DEF Kinds
  <2>4. TypeInv'
    BY <2>2, <2>3 DEF IInv, TypeInv
  <2>5. Reading(w)'
    BY <2>2, <2>3 DEF IInv, TypeInv, Reading
  <2> QED
    BY <2>1, <2>4, <2>5, OwnStep
<1> QED
  BY <1>1, <1>2, <1>3

\* The steps there are, by what they do.
LEMMA Cases ==
    ASSUME Next
    PROVE  \/ \E k \in Kinds, l \in Lists : Load(k, l)
           \/ \E w \in Workers, f \in Functions : Call(w, f)
           \/ \E w \in Workers, t \in Types : pf_cp_flush(w, t)
           \/ \E w \in Workers : Step(w)
<1>1. ASSUME NEW w \in Workers,
             \/ get_pf_rules(w) \/ pf_cp_get_eth_pipes(w) \/ pf_cp_get_eth_rule_counters(w)
             \/ pf_cp_get_eth_last_active(w) \/ pf_cp_zerocnt(w)
      PROVE  \E f \in Functions : Call(w, f)
  BY <1>1, Zenon DEF get_pf_rules, pf_cp_get_eth_pipes, pf_cp_get_eth_rule_counters,
     pf_cp_get_eth_last_active, pf_cp_zerocnt, Functions
<1> QED
  BY <1>1, Zenon DEF Next

\* Every step keeps the invariant.
LEMMA StepHolds == IInv /\ [Next]_vars => IInv'
<1> SUFFICES ASSUME IInv, [Next]_vars PROVE IInv'
  OBVIOUS
<1>1. ASSUME NEW k \in Kinds, NEW l \in Lists, Load(k, l) PROVE IInv'
  BY <1>1, LoadHolds DEF Load, Rulesets
<1>2. ASSUME NEW w \in Workers, NEW t \in Types, pf_cp_flush(w, t) PROVE IInv'
  <2>1. CASE Install(FlushedKinds(t), <<>>)
    BY <1>2, <2>1, LoadHolds DEF pf_cp_flush, Rulesets
  <2>2. CASE UNCHANGED log
    BY <1>2, <2>2 DEF pf_cp_flush, mine, IInv, TypeInv, Reading, List
  <2> QED
    BY <1>2, <2>1, <2>2 DEF pf_cp_flush
<1>3. ASSUME NEW w \in Workers, GotRules(w) PROVE IInv'
  BY <1>3, ReturnHolds DEF GotRules
<1>4. CASE UNCHANGED vars
  BY <1>4 DEF vars, mine, IInv, TypeInv, Reading, List
<1> QED
  BY <1>1, <1>2, <1>3, <1>4, Cases, CallHolds, InfoHolds, GetRuleHolds, ZeroHolds DEF Step

-----------------------------------------------------------------------------
\* The refinement. A worker has looked at its ruleset once it has the ticket.
Sees(w) == IF pc[w] = "get" /\ fn[w] # "zerocnt"
           THEN [fn |-> fn[w], saw |-> log[kind[w]][ticket[w]]] ELSE None
AllSee == [w \in Workers |-> Sees(w)]

\* What a worker sees is told apart from seeing nothing.
LEMMA SeesSome ==
    ASSUME IInv, NEW w \in Workers, pc[w] = "get", fn[w] # "zerocnt"
    PROVE  /\ Sees(w) # None
           /\ Sees(w) = [fn |-> fn[w], saw |-> List(w)]
<1>1. Sees(w) = [fn |-> fn[w], saw |-> List(w)]
  BY DEF Sees, List
<1>2. fn[w] \in Functions /\ List(w) \in Rulesets
  BY AtRule
<1>3. [fn |-> fn[w], saw |-> List(w)] \in [fn : Functions, saw : Rulesets]
  BY <1>2
<1> QED
  BY <1>1, <1>3, NoneAssumption

\* A step that leaves all workers alone, or does what does not show.
LEMMA Stays ==
    ASSUME AllSee' = AllSee, answer' = answer
    PROVE  Atomic!Next
  BY DEF Atomic!Next, Atomic!Change, AllSee, Sees

\* A worker that answers nothing but a refusal.
LEMMA Refuses ==
    ASSUME IInv, NEW w \in Workers, NEW a \in {False, NullValue}, Return(w, a), UNCHANGED log
    PROVE  Atomic!Next
<1>1. /\ pc' = [pc EXCEPT ![w] = "idle"] /\ answer' = [answer EXCEPT ![w] = a]
      /\ \A v \in Workers \ {w} : fn'[v] = fn[v] /\ kind'[v] = kind[v] /\ ticket'[v] = ticket[v]
  BY ReturnHolds, Zenon DEF Return, Set, IInv, TypeInv
<1>2. AllSee' = [AllSee EXCEPT ![w] = None]
  BY <1>1, Zenon DEF AllSee, Sees, IInv, TypeInv
<1>3. [k \in Kinds |-> Current(k)]' = [k \in Kinds |-> Current(k)]
  BY DEF Current
<1>4. CASE Sees(w) = None
  <2>1. AllSee' = AllSee /\ AllSee[w] = None
    BY <1>2, <1>4, Zenon DEF AllSee
  <2>2. Atomic!Refuse(w)
    BY <1>1, <1>3, <2>1, Zenon DEF Atomic!Refuse, AllSee, Sees
  <2> QED
    BY <2>2 DEF Atomic!Next
<1>5. CASE Sees(w) # None
  <2>1. AllSee[w] # None
    BY <1>5 DEF AllSee
  <2>2. answer' = [answer EXCEPT ![w] = answer'[w]] /\ answer'[w] \in {False, NullValue}
    BY <1>1 DEF IInv, TypeInv
  <2>3. Atomic!Answer(w)
    BY <1>2, <1>3, <2>1, <2>2, Zenon DEF Atomic!Answer, AllSee, Sees
  <2> QED
    BY <2>3 DEF Atomic!Next
<1> QED
  BY <1>4, <1>5, SMTT(30)

\* A worker that lists rules answers with what it has so far.
LEMMA Answers ==
    ASSUME IInv, NEW w \in Workers, pc[w] = "get", fn[w] # "zerocnt",
           fn[w] \in Strict => ~More(w), Return(w, Array(out[w])), UNCHANGED log
    PROVE  Atomic!Next
<1>1. /\ pc' = [pc EXCEPT ![w] = "idle"] /\ answer' = [answer EXCEPT ![w] = Array(out[w])]
      /\ \A v \in Workers \ {w} : fn'[v] = fn[v] /\ kind'[v] = kind[v] /\ ticket'[v] = ticket[v]
  BY ReturnHolds, Zenon DEF Return, Set, IInv, TypeInv
<1>2. AllSee' = [AllSee EXCEPT ![w] = None]
  BY <1>1, Zenon DEF AllSee, Sees, IInv, TypeInv
<1>3. [k \in Kinds |-> Current(k)]' = [k \in Kinds |-> Current(k)]
  BY DEF Current
<1>4. AllSee[w] # None /\ AllSee[w].fn = fn[w] /\ AllSee[w].saw = List(w)
  BY SeesSome DEF AllSee
<1>5. answer' = [answer EXCEPT ![w] = answer'[w]] /\ answer'[w] = Array(out[w])
  BY <1>1 DEF IInv, TypeInv
<1>6. MayAnswer(fn[w], List(w), Array(out[w]))
  <2>1. /\ nr[w] \in 1..(Len(List(w)) + 1) /\ Len(List(w)) \in Nat
        /\ More(w) <=> nr[w] <= Len(List(w))
    BY AtRule
  <2>2. nr[w] - 1 \in 0..Len(List(w)) /\ (fn[w] \in Strict => nr[w] - 1 = Len(List(w)))
    BY <2>1
  <2>3. TellsFirst(fn[w], List(w), nr[w] - 1, out[w])
    BY DEF IInv, Reading
  <2>4. Array(out[w]).v = "array" /\ Array(out[w]).list = out[w]
    BY SMTT(30) DEF Array
  <2> QED
    BY <2>2, <2>3, <2>4 DEF MayAnswer
<1>7. Atomic!Answer(w)
  BY <1>2, <1>3, <1>4, <1>5, <1>6, Zenon DEF Atomic!Answer, AllSee, Sees
<1> QED
  BY <1>7, SMTT(30) DEF Atomic!Next

\* The ticket is of the ruleset the kernel has at that instant.
LEMMA Looks ==
    ASSUME IInv, NEW w \in Workers, Info(w), pc'[w] = "get"
    PROVE  Atomic!Next
<1>1. /\ pc[w] = "info" /\ kind[w] \in Kinds /\ fn[w] \in Functions
      /\ log[kind[w]] \in Seq(Rulesets) /\ log[kind[w]] # <<>>
  BY DEF Info, IInv, TypeInv, Reading
<1>2. ~Return(w, Refusal(fn[w]))
  BY DEF Return, Goto, IInv, TypeInv
<1>3. /\ pc' = [pc EXCEPT ![w] = "get"] /\ ticket' = [ticket EXCEPT ![w] = Len(log[kind[w]])]
      /\ UNCHANGED <<log, fn, kind, answer>>
  BY <1>2 DEF Info, Goto, Set
<1>4. [k \in Kinds |-> Current(k)]' = [k \in Kinds |-> Current(k)]
  BY <1>3 DEF Current
<1>5. log[kind[w]][Len(log[kind[w]])] = Current(kind[w])
  BY DEF Current
<1>6. CASE fn[w] = "zerocnt"
  <2>1. AllSee' = AllSee
    BY <1>1, <1>3, <1>6 DEF AllSee, Sees, IInv, TypeInv
  <2> QED
    BY <2>1, <1>3, Stays
<1>7. CASE fn[w] # "zerocnt"
  <2>1. AllSee' = [AllSee EXCEPT ![w] = [fn |-> fn[w], saw |-> Current(kind[w])]]
    BY <1>3, <1>5, <1>7, Zenon DEF AllSee, Sees, IInv, TypeInv
  <2>2. AllSee[w] = None
    BY <1>1 DEF AllSee, Sees
  <2>3. /\ kind[w] \in DOMAIN [k \in Kinds |-> Current(k)]
        /\ [k \in Kinds |-> Current(k)][kind[w]] = Current(kind[w])
    BY <1>1
  <2>4. Atomic!Look(w)
    BY <1>1, <1>3, <1>4, <2>1, <2>2, <2>3, Zenon DEF Atomic!Look, AllSee, Sees
  <2> QED
    BY <2>4 DEF Atomic!Next
<1> QED
  BY <1>6, <1>7

\* Every other step keeps what the workers see, or makes them see nothing.
LEMMA Implements == IInv /\ [Next]_vars => [Atomic!Next]_Atomic!vars
<1> SUFFICES ASSUME IInv, Next PROVE Atomic!Next
  BY DEF vars, mine, Atomic!vars, Current
<1> USE DEF IInv, TypeInv
<1>1. ASSUME NEW ks, NEW l \in Rulesets, Install(ks, l), UNCHANGED mine PROVE Atomic!Next
  <2>1. \A w \in Workers : pc[w] = "get" => List(w)' = List(w)
    BY <1>1, LoadHolds
  <2>2. AllSee' = AllSee
    BY <1>1, <2>1 DEF AllSee, Sees, List, mine
  <2> QED
    BY <1>1, <2>2, Stays DEF mine
<1>2. ASSUME NEW k \in Kinds, NEW l \in Lists, Load(k, l) PROVE Atomic!Next
  BY <1>1, <1>2 DEF Load, Rulesets
<1>3. ASSUME NEW w \in Workers, NEW t \in Types, pf_cp_flush(w, t) PROVE Atomic!Next
  <2>1. CASE Install(FlushedKinds(t), <<>>)
    BY <1>1, <1>3, <2>1 DEF pf_cp_flush, Rulesets
  <2>2. CASE UNCHANGED log
    BY <1>3, <2>2, Stays DEF pf_cp_flush, mine, AllSee, Sees
  <2> QED
    BY <1>3, <2>1, <2>2 DEF pf_cp_flush
<1>4. ASSUME NEW w \in Workers, NEW f \in Functions, Call(w, f) PROVE Atomic!Next
  <2>1. CASE Return(w, Refusal(f))
    BY <1>4, <2>1, Refuses DEF Call, Refusal
  <2>2. CASE Goto(w, "info") /\ fn' = Set(fn, w, f) /\ kind' = Set(kind, w, FirstKind(f))
             /\ UNCHANGED <<ticket, nr, out, zeroed, answer>>
    <3>1. AllSee' = AllSee
      BY <1>4, <2>2 DEF Call, AllSee, Sees, Goto, Set
    <3> QED
      BY <2>2, <3>1, Stays
  <2> QED
    BY <1>4, <2>1, <2>2 DEF Call
<1>5. ASSUME NEW w \in Workers, Info(w) PROVE Atomic!Next
  <2>1. CASE Return(w, Refusal(fn[w]))
    BY <1>5, <2>1, Refuses DEF Info, Refusal
  <2>2. CASE Goto(w, "get")
    BY <1>5, <2>2, Looks DEF Goto
  <2> QED
    BY <1>5, <2>1, <2>2 DEF Info
<1>6. ASSUME NEW w \in Workers, GetRule(w) \/ GotRules(w) PROVE Atomic!Next
  <2>1. CASE Return(w, False)
    BY <1>6, <2>1, Refuses DEF GetRule, GotRules
  <2>2. CASE Return(w, Array(out[w])) /\ (fn[w] \in Strict => ~More(w))
    BY <1>6, <2>2, Answers DEF GetRule, GotRules
  <2>3. CASE UNCHANGED <<pc, fn, kind, ticket, zeroed, answer>>
    BY <1>6, <2>3, Stays, Zenon DEF GetRule, GotRules, AllSee, Sees
  <2> QED
    BY <1>6, <2>1, <2>2, <2>3 DEF GetRule, GotRules
<1>7. ASSUME NEW w \in Workers, ZeroRule(w) \/ ZeroNext(w) PROVE Atomic!Next
  <2>1. CASE Return(w, NullValue)
    BY <1>7, <2>1, Refuses DEF ZeroRule, ZeroNext
  <2>2. CASE ~Return(w, NullValue)
    <3>1. AllSee' = AllSee /\ answer' = answer
      BY <1>7, <2>2 DEF ZeroRule, ZeroNext, Goto, Set, AllSee, Sees
    <3> QED
      BY <3>1, Stays
  <2> QED
    BY <2>1, <2>2
<1> QED
  BY <1>2, <1>3, <1>4, <1>5, <1>6, <1>7, Cases DEF Step

\* Whatever other workers do and whenever rules are loaded, a function that
\* lists the rules of pf answers from the ruleset of one instant of its call
\* (FreeSense_get_pf_rules and the FreeSense_pf_cp_get functions).
THEOREM RulesOfOneInstant == Spec => ReadsOneRuleset
<1>1. Init => Atomic!Init
  BY DEF Init, Atomic!Init
<1> QED
  BY <1>1, InitHolds, StepHolds, Implements, PTL DEF Spec, ReadsOneRuleset, Atomic!Spec

-----------------------------------------------------------------------------
\* pf_cp_zerocnt. The invariant adds that the rules before the one it asks for
\* were zeroed, so that a kind is done when the last of them was.
Zeroing(w) ==
    /\ \A z \in zeroed[w] : /\ z[1] \in Kinds /\ z[2] \in 1..Len(log[z[1]])
                            /\ z[3] \in 1..Len(log[z[1]][z[2]])
    /\ fn[w] = "zerocnt" /\ pc[w] # "idle" =>
          /\ kind[w] # "eth" => ZeroedBefore(w, "eth")
          /\ kind[w] = "pass" => ZeroedBefore(w, "scrub")
    /\ pc[w] = "get" /\ fn[w] = "zerocnt" =>
          \A n \in 1..(nr[w] - 1) : <<kind[w], ticket[w], n>> \in zeroed[w]
ZInv ==
    /\ zeroed = [w \in Workers |-> zeroed[w]]
    /\ \A w \in Workers : Zeroing(w)

\* No counter has been cleared yet.
LEMMA ZeroingInit == Init => ZInv
  BY DEF Init, ZInv, Zeroing

\* A step of one worker that the others do not notice.
LEMMA OwnZeroing ==
    ASSUME ZInv, NEW w \in Workers, Alone(w), zeroed' = [zeroed EXCEPT ![w] = zeroed'[w]], Zeroing(w)'
    PROVE  ZInv'
<1>1. zeroed' = [v \in Workers |-> zeroed'[v]]
  BY DEF ZInv
<1>2. ASSUME NEW v \in Workers \ {w} PROVE Zeroing(v)'
  <2>1. zeroed'[v] = zeroed[v]
    BY DEF ZInv
  <2> QED
    BY <2>1 DEF ZInv, Alone, Zeroing, ZeroedBefore
<1> QED
  BY <1>1, <1>2 DEF ZInv

\* A call returns.
LEMMA ZeroingReturn ==
    ASSUME IInv, ZInv, NEW w \in Workers, NEW a, Return(w, a), UNCHANGED log
    PROVE  ZInv'
<1>1. Alone(w)
  BY DEF IInv, TypeInv, Return, Goto, Set, Alone
<1>2. zeroed' = [zeroed EXCEPT ![w] = {}] /\ zeroed'[w] = {} /\ pc'[w] = "idle"
  BY DEF IInv, TypeInv, ZInv, Return, Goto, Set
<1>3. Zeroing(w)'
  BY <1>2 DEF Zeroing
<1> QED
  BY <1>1, <1>2, <1>3, OwnZeroing, Zenon

\* A ruleset is loaded.
LEMMA ZeroingLoad ==
    ASSUME IInv, ZInv, NEW ks, NEW l \in Rulesets, Install(ks, l), UNCHANGED mine
    PROVE  ZInv'
<1>1. \A k \in Kinds : /\ Len(log[k]) \in Nat /\ Len(log'[k]) \in Nat
                       /\ DOMAIN log[k] = 1..Len(log[k]) /\ DOMAIN log'[k] = 1..Len(log'[k])
                       /\ Len(log'[k]) >= Len(log[k])
                       /\ \A t \in 1..Len(log[k]) : log'[k][t] = log[k][t]
  BY LogGrows, SMTT(30) DEF IInv, TypeInv
<1>2. ASSUME NEW w \in Workers PROVE Zeroing(w)'
  <2>1. Zeroing(w) /\ zeroed' = zeroed /\ UNCHANGED <<pc, fn, kind, ticket, nr>>
    BY DEF ZInv, mine
  <2>2. ASSUME NEW k \in Kinds, ZeroedBefore(w, k) PROVE ZeroedBefore(w, k)'
    BY <1>1, <2>1, <2>2 DEF ZeroedBefore
  <2>3. ASSUME NEW z \in zeroed'[w]
        PROVE  /\ z[1] \in Kinds /\ z[2] \in 1..Len(log'[z[1]])
               /\ z[3] \in 1..Len(log'[z[1]][z[2]])
    <3>1. /\ z[1] \in Kinds /\ z[2] \in 1..Len(log[z[1]])
          /\ z[3] \in 1..Len(log[z[1]][z[2]])
      BY <2>1, <2>3 DEF Zeroing
    <3>2. log'[z[1]][z[2]] = log[z[1]][z[2]]
      BY <3>1, <1>1
    <3>3. z[2] \in 1..Len(log'[z[1]])
      BY <3>1, <1>1
    <3> QED
      BY <3>1, <3>2, <3>3
  <2> QED
    BY <2>1, <2>2, <2>3 DEF Zeroing, Kinds
<1> QED
  BY <1>2 DEF ZInv, mine

\* A call begins.
LEMMA ZeroingCall ==
    ASSUME IInv, ZInv, NEW w \in Workers, NEW f \in Functions, Call(w, f)
    PROVE  ZInv'
<1>1. CASE Return(w, Refusal(f))
  BY <1>1, ZeroingReturn DEF Call
<1>2. CASE ~Return(w, Refusal(f))
  <2>1. Alone(w) /\ zeroed' = zeroed /\ log' = log
    BY <1>2 DEF IInv, TypeInv, Call, Goto, Set, Alone
  <2>2. pc'[w] = "info" /\ kind'[w] = FirstKind(f) /\ fn'[w] = f
    BY <1>2 DEF IInv, TypeInv, Call, Goto, Set
  <2>3. Zeroing(w)'
    BY <2>1, <2>2 DEF ZInv, Zeroing, FirstKind
  <2> QED
    BY <2>1, <2>3, OwnZeroing DEF ZInv
<1> QED
  BY <1>1, <1>2

\* Every step keeps the invariant on cleared counters.
LEMMA ZeroingStep ==
    ASSUME IInv, ZInv, NEW w \in Workers, Step(w)
    PROVE  ZInv'
<1>1. CASE \E a : Return(w, a)
  BY <1>1, ZeroingReturn, Zenon DEF Step, Info, GetRule, GotRules, ZeroRule, ZeroNext
<1>2. CASE Info(w) /\ ~\E a : Return(w, a)
  <2>1. /\ Alone(w) /\ zeroed' = zeroed /\ log' = log /\ fn' = fn /\ kind' = kind
        /\ pc[w] = "info" /\ nr'[w] = 1
    BY <1>2 DEF IInv, TypeInv, Info, Goto, Set, Alone
  <2>2. Zeroing(w)'
    BY <2>1 DEF ZInv, Zeroing, ZeroedBefore
  <2> QED
    BY <2>1, <2>2, OwnZeroing DEF ZInv
<1>3. CASE GetRule(w) /\ ~\E a : Return(w, a)
  <2>1. Alone(w) /\ UNCHANGED <<log, pc, fn, kind, ticket, zeroed>> /\ fn[w] # "zerocnt"
    BY <1>3 DEF IInv, TypeInv, GetRule, Set, Alone
  <2>2. Zeroing(w)'
    BY <2>1 DEF ZInv, Zeroing
  <2> QED
    BY <2>1, <2>2, OwnZeroing DEF ZInv
<1>4. CASE ZeroRule(w) /\ ~\E a : Return(w, a)
  <2> DEFINE new == <<kind[w], ticket[w], nr[w]>>
  <2>1. /\ Alone(w) /\ UNCHANGED <<log, pc, fn, kind, ticket>>
        /\ pc[w] = "get" /\ fn[w] = "zerocnt" /\ nr'[w] = nr[w] + 1
        /\ zeroed' = [zeroed EXCEPT ![w] = zeroed[w] \cup {new}]
    BY <1>4 DEF IInv, TypeInv, ZeroRule, Set, Alone
  <2>2. zeroed'[w] = zeroed[w] \cup {new}
    BY <2>1 DEF ZInv
  <2>3. /\ kind[w] \in Kinds /\ ticket[w] \in 1..Len(log[kind[w]])
        /\ nr[w] \in Nat /\ nr[w] \in 1..Len(log[kind[w]][ticket[w]])
    <3>1. /\ kind[w] \in Kinds /\ ticket[w] \in 1..Len(log[kind[w]]) /\ nr[w] \in Nat
          /\ log[kind[w]] \in Seq(Rulesets) /\ nr[w] \in 1..(Len(List(w)) + 1)
      BY <2>1 DEF IInv, TypeInv, Reading
    <3>2. List(w) \in Seq(Rule1)
      BY <3>1, RulesetsAreLists DEF List
    <3>3. nr[w] <= Len(List(w))
      BY <1>4 DEF ZeroRule, More, List
    <3> QED
      BY <3>1, <3>2, <3>3 DEF List
  <2>4. \A z \in zeroed'[w] : /\ z[1] \in Kinds /\ z[2] \in 1..Len(log[z[1]])
                              /\ z[3] \in 1..Len(log[z[1]][z[2]])
    BY <2>2, <2>3 DEF ZInv, Zeroing
  <2>5. \A n \in 1..(nr'[w] - 1) : <<kind[w], ticket[w], n>> \in zeroed'[w]
    BY <2>1, <2>2, <2>3, SMTT(30) DEF ZInv, Zeroing
  <2>6. \A k \in Kinds : ZeroedBefore(w, k) => ZeroedBefore(w, k)'
    BY <2>1, <2>2 DEF ZeroedBefore
  <2>7. Zeroing(w)'
    BY <2>1, <2>4, <2>5, <2>6 DEF ZInv, Zeroing, Kinds
  <2> QED
    BY <2>1, <2>2, <2>7, OwnZeroing, Zenon
<1>5. CASE ZeroNext(w) /\ ~\E a : Return(w, a)
  <2>1. /\ Alone(w) /\ UNCHANGED <<log, fn, ticket, nr, zeroed>>
        /\ pc[w] = "get" /\ fn[w] = "zerocnt" /\ pc'[w] = "info" /\ kind[w] # "pass"
        /\ kind'[w] = IF kind[w] = "eth" THEN "scrub" ELSE "pass"
    BY <1>5 DEF IInv, TypeInv, ZeroNext, Goto, Set, Alone
  <2>2. /\ kind[w] \in Kinds /\ ticket[w] \in DOMAIN log[kind[w]] /\ nr[w] \in Nat
        /\ DOMAIN log[kind[w]][ticket[w]] = 1..(nr[w] - 1)
    <3>1. /\ kind[w] \in Kinds /\ ticket[w] \in 1..Len(log[kind[w]])
          /\ log[kind[w]] \in Seq(Rulesets) /\ nr[w] \in 1..(Len(List(w)) + 1) /\ nr[w] \in Nat
      BY <2>1 DEF IInv, TypeInv, Reading
    <3>2. List(w) \in Seq(Rule1)
      BY <3>1, RulesetsAreLists DEF List
    <3>3. ~(nr[w] <= Len(List(w)))
      BY <1>5 DEF ZeroNext, More, List
    <3> QED
      BY <3>1, <3>2, <3>3, SMTT(30) DEF List
  <2>3. ZeroedBefore(w, kind[w])
    BY <2>1, <2>2, SMTT(30) DEF ZInv, Zeroing, ZeroedBefore
  <2>4. \A k \in Kinds : ZeroedBefore(w, k)' = ZeroedBefore(w, k)
    BY <2>1 DEF ZeroedBefore
  <2>5. Zeroing(w)'
    BY <2>1, <2>2, <2>3, <2>4 DEF ZInv, Zeroing, Kinds
  <2> QED
    BY <2>1, <2>5, OwnZeroing DEF ZInv
<1> QED
  BY <1>1, <1>2, <1>3, <1>4, <1>5, SMTT(30) DEF Step, GotRules

\* Whenever rules are loaded and whatever fails, pf_cp_zerocnt comes to the next
\* kind of rules only after every rule of a ruleset of the kind before was
\* zeroed, and zeroes no rule that is not there (FreeSense_pf_cp_zerocnt).
THEOREM KindsZeroedInOrder == Spec => []ZeroesInOrder
<1>1. IInv /\ ZInv /\ [Next]_vars => ZInv'
  <2> SUFFICES ASSUME IInv, ZInv, [Next]_vars PROVE ZInv'
    OBVIOUS
  <2>1. ASSUME NEW k \in Kinds, NEW l \in Lists, Load(k, l) PROVE ZInv'
    BY <2>1, ZeroingLoad DEF Load, Rulesets
  <2>2. ASSUME NEW w \in Workers, NEW t \in Types, pf_cp_flush(w, t) PROVE ZInv'
    <3>1. CASE Install(FlushedKinds(t), <<>>)
      BY <2>2, <3>1, ZeroingLoad DEF pf_cp_flush, Rulesets
    <3>2. CASE UNCHANGED log
      BY <2>2, <3>2 DEF pf_cp_flush, mine, ZInv, Zeroing, ZeroedBefore
    <3> QED
      BY <2>2, <3>1, <3>2 DEF pf_cp_flush
  <2>3. CASE UNCHANGED vars
    BY <2>3 DEF vars, mine, ZInv, Zeroing, ZeroedBefore
  <2> QED
    BY <2>1, <2>2, <2>3, Cases, ZeroingCall, ZeroingStep
<1>2. IInv /\ ZInv => ZeroesInOrder
  <2> SUFFICES ASSUME IInv, ZInv, NEW w \in Workers, NEW z \in zeroed[w]
               PROVE  z[3] \in DOMAIN log[z[1]][z[2]]
    BY DEF ZInv, Zeroing, ZeroesInOrder
  <2>1. /\ z[1] \in Kinds /\ z[2] \in 1..Len(log[z[1]]) /\ z[3] \in 1..Len(log[z[1]][z[2]])
    BY DEF ZInv, Zeroing
  <2>2. log[z[1]][z[2]] \in Seq(Rule1)
    BY <2>1, RulesetsAreLists DEF IInv, TypeInv
  <2> QED
    BY <2>1, <2>2
<1> QED
  BY <1>1, <1>2, InitHolds, StepHolds, ZeroingInit, PTL DEF Spec
===============================================================================
