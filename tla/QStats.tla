-------------------------------- MODULE QStats --------------------------------
(***************************************************************************)
(* qstats: answers each client of its socket with the ALTQ queues of pf and*)
(* their counters. It keeps a tree of the queues from request to request,  *)
(* with a running average of what each has sent, and starts over when the  *)
(* ticket says that another set of queues was loaded. Each system call is a*)
(* step of its own: queues are loaded and packets sent in between.         *)
(***************************************************************************)
EXTENDS Integers, Sequences, SequencesExt

CONSTANTS
    Clients,
    Sets,           \* sets of queues: sequences of [name, ifname, parent, counted, removed]
    Ifaces,         \* what option -i may be: an interface, or None
    AVGN_MAX,       \* samples an average goes back (8)
    Scale,          \* averages are rounded down to a multiple of 1 / Scale
    Busy,           \* the queues that send: pairs of interface and name
    MaxLoads, MaxFaults, MaxCount,      \* bounds: loads, failing calls, counters
    None

\* counted: qid > 0, or CoDel. What has no parent is at the top.

VARIABLES
    log,            \* the sets that were loaded; a ticket is an index
    cnt,            \* the packets each queue of the last set has sent
    iface,          \* the interface of option -i
    pc, req,        \* where the daemon is; the client it serves
    last_ticket, nr,
    root,           \* the tree: its nodes as inserted, up is the index of the parent;
                    \* sent is a history, what was sent from one sample to the next
    answer,         \* what is sent: [whole, queues]
    backlog,        \* the clients that wait to be accepted
    client,         \* of each client: "out", "waits", "served" or "gone"
    since,          \* history: when the request began, log's length and cnt
    nfaults

kernel == <<log, cnt>>
vars == <<kernel, iface, pc, req, last_ticket, nr, root, answer, backlog, client, since, nfaults>>

Key(q) == <<q.ifname, q.name>>
Counters(set) == [k \in {Key(set[n]) : n \in DOMAIN set} |-> 0]

Init ==
    /\ \E s \in Sets : log = <<s>> /\ cnt = Counters(s)
    /\ iface \in Ifaces /\ pc = "accept" /\ req = None /\ last_ticket = 0 /\ nr = 0 /\ root = <<>>
    /\ answer = None /\ backlog = <<>> /\ client = [c \in Clients |-> "out"]
    /\ since = None /\ nfaults = 0

daemon == <<iface, pc, req, last_ticket, nr, root, answer, since, nfaults>>

Load(s) ==
    /\ Len(log) <= MaxLoads
    /\ log' = Append(log, s) /\ cnt' = Counters(s)
    /\ UNCHANGED <<daemon, backlog, client>>

Traffic(k) ==
    /\ k \in DOMAIN cnt /\ cnt[k] < MaxCount
    /\ \E n \in (cnt[k] + 1)..MaxCount : cnt' = [cnt EXCEPT ![k] = n]
    /\ UNCHANGED <<log, daemon, backlog, client>>

Connect(c) ==
    /\ client[c] \in {"out", "served"} /\ pc # "dead"
    /\ client' = [client EXCEPT ![c] = "waits"]
    /\ backlog' = Append(backlog, c)
    /\ UNCHANGED <<kernel, daemon>>

Leave(c) ==
    /\ client[c] = "waits"
    /\ client' = [client EXCEPT ![c] = "gone"]
    /\ UNCHANGED <<kernel, daemon, backlog>>
-----------------------------------------------------------------------------
(* The tree                                                                  *)

\* Mutant: the old average counts once too often.
update_avg_Weights(n, b) ==
    LET d == Scale * (b - n.prev)
        avg == IF n.avgn = 0 THEN 0 ELSE (n.avg * n.avgn + d) \div n.avgn
    IN  IF ~n.q.counted THEN [n EXCEPT !.pkts = b]
        ELSE [n EXCEPT !.pkts = b, !.prev = b, !.avg = avg,
                       !.sent = IF n.avgn = 0 THEN {} ELSE @ \cup {b - n.prev},
                       !.avgn = IF @ = 0 \/ @ < AVGN_MAX THEN @ + 1 ELSE @]

\* update_avg: the first sample is only remembered. A counter never decreases
\* while the set is the same, so the average is always updated.
update_avg(n, b) ==
    LET d == Scale * (b - n.prev)
        avg == IF n.avgn = 0 THEN 0 ELSE (n.avg * (n.avgn - 1) + d) \div n.avgn
    IN  IF ~n.q.counted THEN [n EXCEPT !.pkts = b]
        ELSE [n EXCEPT !.pkts = b, !.prev = b, !.avg = avg,
                       !.sent = IF n.avgn = 0 THEN {} ELSE @ \cup {b - n.prev},
                       !.avgn = IF @ = 0 \/ @ < AVGN_MAX THEN @ + 1 ELSE @]

pfctl_find_altq_node(k) == {i \in DOMAIN root : Key(root[i].q) = k}

pfctl_insert_altq_node(q, b) ==
    LET up   == pfctl_find_altq_node(<<q.ifname, q.parent>>)
        node == [q |-> q, up |-> IF root = <<>> \/ q.parent = None THEN 0
                                 ELSE CHOOSE i \in up : TRUE,
                 pkts |-> b, prev |-> 0, avg |-> 0, avgn |-> 0, sent |-> {}]
    IN  IF root # <<>> /\ q.parent # None /\ up = {} THEN root
        ELSE Append(root, update_avg(node, b))

Updated(q, b) ==
    LET at == pfctl_find_altq_node(Key(q))
    IN  IF at = {} THEN pfctl_insert_altq_node(q, b)
        ELSE [root EXCEPT ![CHOOSE i \in at : TRUE] = update_avg(@, b)]

level[i \in Nat] == IF root[i].up = 0 THEN 0 ELSE 1 + level[root[i].up]
top[i \in Nat] == IF root[i].up = 0 THEN i ELSE top[root[i].up]

\* pfctl_print_altq_node, for every node at the top that is asked for: the node
\* and those below it. An average is told from the second sample on.
Printed ==
    LET asked(i) == /\ iface \in {None, root[top[i]].q.ifname}
                    /\ ~root[top[i]].q.removed
        told(n) == n.q.counted /\ ~n.q.removed
    IN  {[key |-> Key(root[i].q), level |-> level[i],
          pkts |-> IF told(root[i]) THEN root[i].pkts ELSE -1,
          measured |-> IF told(root[i]) /\ root[i].avgn >= 2 THEN root[i].avg ELSE -1] :
         i \in {j \in DOMAIN root : asked(j)}}
-----------------------------------------------------------------------------
(* A request                                                                 *)
Faulty == nfaults < MaxFaults /\ nfaults' = nfaults + 1
Works == UNCHANGED nfaults
Stale == last_ticket # Len(log)

Accept ==
    /\ pc = "accept" /\ backlog # <<>>
    /\ req' = Head(backlog) /\ backlog' = Tail(backlog)
    /\ pc' = "altqs" /\ since' = [ticket |-> Len(log), cnt |-> cnt]
    /\ UNCHANGED <<kernel, iface, last_ticket, nr, root, answer, client, nfaults>>

\* Mutant: the client is not answered.
GivesUp_Silent ==
    /\ pc' = "accept" /\ answer' = None
    /\ UNCHANGED <<nr, root>>

\* pfctl_update_qstats fails: the answer holds no queues, the tree stays as it is.
GivesUp ==
    /\ pc' = "send" /\ answer' = [whole |-> FALSE, queues |-> {}]
    /\ UNCHANGED <<nr, root>>

\* Mutant: the tree of an earlier set is kept.
GetAltqs_KeepsTree ==
    /\ pc = "altqs"
    /\ \/ /\ Works /\ pc' = "altq" /\ nr' = 1 /\ last_ticket' = Len(log)
          /\ UNCHANGED <<root, answer>>
       \/ Faulty /\ GivesUp /\ UNCHANGED last_ticket
    /\ UNCHANGED <<kernel, iface, req, backlog, client, since>>

GetAltqs ==
    /\ pc = "altqs"
    /\ \/ /\ Works /\ pc' = "altq" /\ nr' = 1 /\ last_ticket' = Len(log)
          /\ root' = IF Stale THEN <<>> ELSE root
          /\ UNCHANGED answer
       \/ Faulty /\ GivesUp /\ UNCHANGED last_ticket
    /\ UNCHANGED <<kernel, iface, req, backlog, client, since>>

GetAltq ==
    /\ pc = "altq" /\ nr <= Len(log[last_ticket])
    /\ LET q == log[last_ticket][nr] IN
       \/ /\ Works /\ ~Stale /\ q.counted /\ ~q.removed
          /\ pc' = "qstats" /\ UNCHANGED <<nr, root, answer>>
       \/ /\ Works /\ ~Stale /\ (q.counted => q.removed)
          /\ root' = IF q.removed THEN Updated(q, 0) ELSE root
          /\ nr' = nr + 1 /\ UNCHANGED <<pc, answer>>
       \/ ((Works /\ Stale) \/ Faulty) /\ GivesUp
    /\ UNCHANGED <<kernel, iface, req, last_ticket, backlog, client, since>>

GetQstats ==
    /\ pc = "qstats"
    /\ LET q == log[last_ticket][nr] IN
       \/ /\ Works /\ ~Stale
          /\ root' = Updated(q, cnt[Key(q)])
          /\ nr' = nr + 1 /\ pc' = "altq" /\ UNCHANGED answer
       \/ ((Works /\ Stale) \/ Faulty) /\ GivesUp
    /\ UNCHANGED <<kernel, iface, req, last_ticket, backlog, client, since>>

Compose ==
    /\ pc = "altq" /\ nr > Len(log[last_ticket])
    /\ answer' = [whole |-> TRUE, queues |-> Printed] /\ pc' = "send"
    /\ UNCHANGED <<kernel, iface, req, last_ticket, nr, root, backlog, client, since, nfaults>>

\* SIGPIPE is not handled: writing to a client that has left ends the daemon.
Send ==
    /\ pc = "send"
    /\ IF client[req] = "gone" THEN pc' = "dead" /\ UNCHANGED client
       ELSE pc' = "accept" /\ client' = [client EXCEPT ![req] = "served"]
    /\ req' = None /\ answer' = None /\ since' = None /\ nr' = 0
    /\ UNCHANGED <<kernel, iface, last_ticket, root, backlog, nfaults>>

Daemon == Accept \/ GetAltqs \/ GetAltq \/ GetQstats \/ Compose \/ Send
Next ==
    \/ \E s \in Sets : Load(s)
    \/ \E k \in Busy : Traffic(k)
    \/ \E c \in Clients : Connect(c) \/ Leave(c)
    \/ Daemon

\* The kernel schedules the daemon while it can run.
Spec == Init /\ [][Next]_vars /\ WF_vars(Daemon)
-----------------------------------------------------------------------------
\* The queues of a set as they should be told: the ones that have counters, of
\* the interface asked for, as deep as they have ancestors.
Ancestors(set, q) ==
    LET up(ks) == {Key(r) : r \in {s \in ToSet(set) : \E k \in ks :
                      \E t \in ToSet(set) : Key(t) = k /\ Key(s) = <<t.ifname, t.parent>>}}
        one == up({Key(q)})
    IN  one \cup up(one) \cup up(up(one))
Expected(set) ==
    {[key |-> Key(q), level |-> Cardinality(Ancestors(set, q))] :
        q \in {r \in ToSet(set) : r.counted /\ ~r.removed /\ iface \in {None, r.ifname}}}

\* An answer is empty, or it tells of every queue of one set, which was loaded
\* at some time of the request: each once, below its parent, with a counter
\* that it had during the request. No queue of an earlier set is left.
AnswerRight ==
    pc = "send" /\ answer.whole =>
        /\ {[key |-> e.key, level |-> e.level] : e \in answer.queues} = Expected(log[last_ticket])
        /\ last_ticket \in since.ticket..Len(log)
        /\ \A e \in answer.queues :
              LET before == IF since.ticket = last_ticket THEN since.cnt[e.key] ELSE 0
                  now == IF Stale THEN MaxCount ELSE cnt[e.key]
              IN  e.pkts \in before..now

\* An average lies between the least and the greatest number of packets that
\* the queue sent from one request to the next, since its set was loaded; the
\* first difference is told as it is. No counter of an earlier set enters.
AveragesRight ==
    \A i \in DOMAIN root :
        LET n == root[i] IN
        /\ n.avgn >= 2 <=> n.sent # {}
        /\ n.avgn >= 2 => n.avg \in (Scale * Min(n.sent))..(Scale * Max(n.sent))
        /\ ~Stale /\ ~n.q.removed => \A d \in n.sent \cup {n.prev} : d <= cnt[Key(n.q)]

\* A client is answered, unless it leaves or the daemon has ended.
Served(c) == client[c] # "waits" \/ pc = "dead"
ClientsServed == \A c \in Clients : []<>Served(c)

\* The daemon ends only on account of a client that left.
DeadOnlyIfLeft == pc = "dead" => \E c \in Clients : client[c] = "gone"
===============================================================================
