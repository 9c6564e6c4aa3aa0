------------------------------ MODULE AtomicRead ------------------------------
(***************************************************************************)
(* What a caller of the functions that list pf's rules may rely on: however*)
(* many system calls a function makes, it looks at its ruleset once, at one*)
(* instant of the call, and answers from what it saw, or refuses.          *)
(***************************************************************************)
CONSTANTS
    Readers, Fns, Refusals, None,
    IsAnswer(_, _, _)   \* function fn may give answer a about ruleset v

VARIABLES
    current,        \* the rulesets
    sees,           \* of each reader: None or [fn, what it saw]
    answer          \* of each reader: its last answer

vars == <<current, sees, answer>>

Init == sees = [r \in Readers |-> None] /\ answer = [r \in Readers |-> None]

\* Rules are loaded.
Change == UNCHANGED <<sees, answer>>

Look(r) ==
    /\ sees[r] = None
    /\ \E k \in DOMAIN current, fn \in Fns :
          sees' = [sees EXCEPT ![r] = [fn |-> fn, saw |-> current[k]]]
    /\ UNCHANGED <<current, answer>>

Answer(r) ==
    /\ sees[r] # None
    /\ sees' = [sees EXCEPT ![r] = None]
    /\ answer' = [answer EXCEPT ![r] = answer'[r]]
    /\ answer'[r] \in Refusals \/ IsAnswer(sees[r].fn, sees[r].saw, answer'[r])
    /\ UNCHANGED current

Refuse(r) ==
    /\ sees[r] = None
    /\ \E a \in Refusals : answer' = [answer EXCEPT ![r] = a]
    /\ UNCHANGED <<current, sees>>

Next == Change \/ \E r \in Readers : Look(r) \/ Answer(r) \/ Refuse(r)

Spec == Init /\ [][Next]_vars
===============================================================================
