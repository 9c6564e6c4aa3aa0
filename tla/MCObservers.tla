----------------------------- MODULE MCObservers -----------------------------
(***************************************************************************)
(* The programs that read the state of the system and tell about it, for   *)
(* TLC: the readers of pf's rules and states and of the interfaces in the  *)
(* PHP module, filterlog, qstats and fcgicli. They share no state, so in a *)
(* behaviour one of them runs and the others do not start: part says       *)
(* which.                                                                  *)
(***************************************************************************)
EXTENDS PfReaders

CONSTANTS
    Packets, Files, Options, NReasons, MaxOpens,
    Clients, Sets, Ifaces, Busy, AVGN_MAX, Scale, MaxCount,
    Tables, Queries, Limit,
    Names, First, Strings, Addrs6, Tunnels, Asks, MaxIfs, MaxAddrs, MaxChanges,
    Inputs, FCGI_NV_LLEN

VARIABLES
    part,
    lpc, offline, filter_reasons, sbuf, ahead, packet, line, opens, complained,
    sets, cnt, iface, qpc, req, last_ticket, qnr, root, told, backlog, client, since, qfaults,
    table, query, done, result,
    ifs, cut, ipc, ifn, arg, copy, rest, addresses, began, seen, nchanges,
    cpc, cmd, params, len, reply, n, got, end_header, printed, status

logger == <<lpc, offline, filter_reasons, sbuf, ahead, packet, line, opens, complained>>
stats == <<sets, cnt, iface, qpc, req, last_ticket, qnr, root, told, backlog, client, since, qfaults>>
states == <<table, query, done, result>>
interfaces == <<ifs, cut, ipc, ifn, arg, copy, rest, addresses, began, seen, nchanges>>
fcgi == <<cpc, cmd, params, len, reply, n, got, end_header, printed, status>>
all == <<vars, logger, stats, states, interfaces, fcgi, part>>

-----------------------------------------------------------------------------
(* Two lists of rules, each of them of every kind.                           *)
PfRule(id, pipe) == [id |-> id, pipe |-> pipe]
MCLists == {<<PfRule("a", TRUE), PfRule("b", FALSE)>>, <<PfRule("c", TRUE)>>}

-----------------------------------------------------------------------------
(* Packets, files and options of filterlog: every protocol and every option  *)
(* the printers tell apart, whole, cut off and malformed.                    *)
Format == INSTANCE LogFormat
L == INSTANCE FilterLog WITH pc <- lpc

Tcp(o, f, l, g) == [h |-> "tcp", off |-> o, flags |-> f, opts |-> l, good |-> g]
Opt(k, l) == [kind |-> k, len |-> l]
Sub(k, l, s) == [kind |-> k, len |-> l, sub |-> s]
Hdr(x) == [h |-> x]
Icmp(t) == [h |-> "icmp", type |-> t]
V4(h, i, l, o, e, b) ==
    [v |-> 4, hl |-> h, iplen |-> i, length |-> l, offset |-> o, ecn |-> e, body |-> b]
V6(p, l, c) == [v |-> 6, plen |-> p, length |-> l, chain |-> c]
Opts(x, l, o) == [h |-> x, len |-> l, opts |-> o]

\* TCP headers with their options.
Segments ==
    {Tcp(5, f, <<>>, TRUE) : f \in {{}, {"S"}, {"A"}, {"A", "F"}, {"U", "A"}}} \cup
    {Tcp(4, {"S"}, <<>>, TRUE),
     Tcp(10, {"S"},
         <<Opt("mss", 4), Opt("sackOK", 2), Opt("TS", 10), Opt("nop", 0), Opt("wscale", 3)>>, TRUE),
     Tcp(8, {"A"}, <<Opt("nop", 0), Opt("nop", 0), Opt("TS", 10)>>, TRUE),
     Tcp(7, {"S"}, <<Opt("mss", 4), Opt("eol", 0)>>, TRUE),
     Tcp(7, {"S"}, <<Opt("sack", 8)>>, TRUE),
     Tcp(6, {"S"}, <<Opt("mss", 4), Opt("nop", 0)>>, TRUE),
     Tcp(6, {"S"}, <<Opt("nop", 0), Opt("mss", 4)>>, FALSE),
     Tcp(6, {"S"}, <<Opt("mss", 9)>>, FALSE),
     Tcp(7, {"S"}, <<Opt("mss", 3)>>, FALSE)}

\* Options of a header of 8 bytes, and of one of 24.
ShortLists ==
    {<<Opt("padn", 4)>>, <<Opt("rtalert", 2), Opt("padn", 0)>>, <<Opt("pad1", 0), Opt("padn", 3)>>,
     <<Opt("jumbo", 4)>>, <<Opt("rtalert", 1), Opt("pad1", 0), Opt("padn", 0)>>,
     <<Opt("padn", 2), Opt("rtalert", 0)>>, <<Opt("padn", 3), Opt("padn", 0)>>, <<Opt("padn", 7)>>,
     <<Opt("other", 0), Opt("padn", 2)>>, <<Sub("bindingreq", 4, <<Opt("ui", 2)>>)>>}

LongLists ==
    {<<Sub("homeaddr", 16, <<>>), Opt("padn", 2)>>,
     <<Sub("homeaddr", 20, <<Opt("ui", 2)>>)>>,
     <<Sub("bindingup", 14, <<Opt("auth", 4)>>), Opt("padn", 4)>>,
     <<Sub("bindingack", 11, <<>>), Opt("jumbo", 4), Opt("padn", 1)>>,
     <<Sub("homeaddr", 10, <<>>), Opt("padn", 8)>>,
     <<Sub("bindingreq", 18, <<Opt("altcoa", 16)>>), Opt("padn", 0)>>,
     <<Sub("bindingreq", 20,
           <<Opt("padn", 0), Opt("altcoa", 2), Opt("other", 6), Opt("pad1", 0), Opt("ui", 4)>>)>>}

LastHeaders ==
    {Hdr("udp"), Hdr("sctp"), Hdr("ipv6"), Hdr("ipv4"), Hdr("none"),
     [h |-> "mobility", type |-> "update"], Tcp(5, {"S"}, <<>>, TRUE)}

\* What follows the header of an IPv6 packet.
Chains ==
    {<<r>> : r \in LastHeaders \cup Segments} \cup
    {<<[h |-> "mobility", type |-> t]>> : t \in DOMAIN Format!MobilityText} \cup
    {<<Opts("hopopts", 0, l), Hdr("udp")>> : l \in ShortLists} \cup
    {<<Opts("dstopts", 2, l), Tcp(5, {"A"}, <<>>, TRUE)>> : l \in LongLists} \cup
    {<<Opts("hopopts", 0, <<Opt("padn", 4)>>), [h |-> "fragment", offset |-> f], Hdr("udp")>> :
        f \in {0, 8}} \cup
    {<<[h |-> "routing", type |-> t, len |-> k], Hdr("udp")>> : t \in {0, 2, 3}, k \in {0, 1, 2, 4}}

IPs ==
    {V4(5, 20 + k, 20 + k, 0, 0, s) : k \in {20, 40}, s \in Segments} \cup
    {V4(6, 64, 64, 0, 1, b) :
        b \in {Hdr(x) : x \in {"udp", "sctp", "ipv4", "ipv6", "vrrp", "gre"}}
              \cup {Icmp(t) : t \in DOMAIN Format!IcmpText}} \cup
    {V4(5, 64, k, 0, 1, Hdr("udp")) : k \in {3, 19, 63, 70}} \cup
    {V4(4, 64, 64, 0, 0, Hdr("udp")), V4(8, 30, 64, 0, 0, Hdr("udp")), V4(5, 64, 64, 8, 0, Hdr("udp"))} \cup
    {[V4(5, 64, 64, 0, 0, Hdr("udp")) EXCEPT !.v = 5]} \cup
    {V6(k, k + 40, c) : k \in {48, 64}, c \in Chains} \cup
    {V6(48, k, <<Hdr("udp")>>) : k \in {3, 39, 87, 100}} \cup
    {V6(8, 48, <<Opts("hopopts", 0, <<Opt("padn", 4)>>), Hdr("udp")>>), V6(0, 40, <<Hdr("none")>>)}

Pkt(c, l, r, a, ip) == [cap |-> c, longhdr |-> l, reason |-> r, anchor |-> a, ip |-> ip]
PlainIP == V6(48, 88, <<Hdr("udp")>>)
\* Headers of pf's log, cut off or of an old length; reasons in and out of range.
FewPackets ==
    {Pkt("all", TRUE, 0, a, PlainIP) : a \in BOOLEAN} \cup
    {Pkt("all", TRUE, r, FALSE, PlainIP) : r \in {15, 16}} \cup
    {Pkt(c, l, 0, FALSE, PlainIP) : c \in {"none", "length", "reason", "all"}, l \in BOOLEAN}
MCPackets == {Pkt("all", TRUE, 0, FALSE, ip) : ip \in IPs} \cup FewPackets
MCFiles == {<<a, b>> : a \in FewPackets, b \in FewPackets} \cup {<<>>}

\* Tokens of option -r.
Rsn(a, b, r) == [first |-> a, last |-> b, ranged |-> r]
MCOptions ==
    {<<>>, <<Rsn(0, 0, FALSE)>>, <<Rsn(14, 15, TRUE)>>, <<Rsn(0, 0, FALSE), Rsn(3, 2, TRUE)>>,
     <<Rsn(16, 16, FALSE)>>, <<Rsn(-1, 0, FALSE)>>, <<Rsn(1, 2, TRUE), Rsn(15, -1, FALSE)>>}

-----------------------------------------------------------------------------
(* Queues: two disciplines, one of them without counters; queues that a      *)
(* change of the rules is about to remove.                                   *)
Queue(name, ifname, parent, counted, removed) ==
    [name |-> name, ifname |-> ifname, parent |-> parent, counted |-> counted, removed |-> removed]
MCSets ==
    {<<Queue("", "em0", None, FALSE, FALSE), Queue("root", "em0", None, TRUE, FALSE),
       Queue("web", "em0", "root", TRUE, FALSE)>>,
     <<Queue("root", "em0", None, TRUE, TRUE), Queue("", "em1", None, TRUE, FALSE),
       Queue("web", "em0", "root", TRUE, TRUE)>>}

MCIfaces == {None, "em0"}
MCBusy == {<<"em0", "web">>}

Q == INSTANCE QStats
        WITH log <- sets, pc <- qpc, nr <- qnr, answer <- told, nfaults <- qfaults

-----------------------------------------------------------------------------
(* States: without and with translation, between address families, ICMP; and *)
(* queries with no, one and several filters.                                 *)
Ends(af, a, b) == [af |-> af, addr |-> <<a, b>>]
Direct == Ends(4, <<"h1", "80">>, <<"h2", "1025">>)
State(id, ifname, rule, proto, dir, wire, stack, names) ==
    [id |-> id, ifname |-> ifname, rule |-> rule, proto |-> proto, dir |-> dir,
     wire |-> wire, stack |-> stack, names |-> names]
MCStates ==
    UNION {{State(1, "em0", "7", "tcp", d, Direct, Direct, {"ESTABLISHED"}),
            State(2, "em1", "8", "udp", d, Ends(4, <<"h1", "80">>, <<"n2", "1025">>), Direct, {"SINGLE"}),
            State(3, "em0", "8", "udp", d, Ends(6, <<"g1", "80">>, <<"g2", "1025">>), Direct, {"SINGLE"}),
            State(4, "em1", None, "icmp", d, Ends(4, <<"h1", "5">>, <<"n2", "5">>),
                  Ends(4, <<"h1", "6">>, <<"h2", "6">>), {})} : d \in {"in", "out"}}
Filter(key, value) == [key |-> key, value |-> value]
MCQueries ==
    {<<>>, <<<<>>>>, <<<<Filter("interface", "em0")>>>>, <<<<Filter("ruleid", "8")>>>>,
     <<<<Filter("interface", "em0")>>, <<Filter("interface", "em1")>>>>,
     <<<<Filter("interface", "em0")>>, <<>>>>,
     <<<<Filter("interface", "em0"), Filter("ruleid", "8")>>>>, <<<<Filter("filter", "h2")>>>>,
     <<<<Filter("filter", "h1"), Filter("filter", "ESTABLISHED")>>>>,
     <<<<Filter("interface", "em1"), Filter("filter", "n2")>>>>}

MCTables == UNION {[1..k -> MCStates] : k \in 0..3}

S == INSTANCE PfStates

-----------------------------------------------------------------------------
(* Interfaces: the kernel lists the second name first; a tunnel over IPv6    *)
(* that may become one over IPv4; a prefix that is too long.                 *)
Inet(k, bits) == [fam |-> "inet", addr |-> [n |-> k, linklocal |-> FALSE], bits |-> bits]
Inet6(k, local) == [fam |-> "inet6", addr |-> [n |-> k, linklocal |-> local], bits |-> 64]
MCFirst ==
    <<[name |-> 2, up |-> TRUE, mtu |-> 1500, tunnel |-> None, addrs |-> <<Inet6(1, TRUE), Inet(1, 24)>>],
      [name |-> 1, up |-> FALSE, mtu |-> 1500, tunnel |-> [af |-> 6, src |-> 1, dst |-> 2],
       addrs |-> <<Inet(2, 32)>>]>>
MCStrings == {[addr |-> [n |-> 3, linklocal |-> FALSE], bits |-> 24],
              [addr |-> [n |-> 2, linklocal |-> FALSE], bits |-> 33]}
MCAddrs6 == {Inet6(2, FALSE)}
MCTunnels == {[af |-> 4, src |-> 3, dst |-> 4]}

I == INSTANCE IfAddrs WITH pc <- ipc, fn <- ifn, list <- copy, answer <- addresses

-----------------------------------------------------------------------------
(* Command lines: names and data around the length where the length field    *)
(* grows, and too long; replies of three packets that end as the protocol    *)
(* wants it, otherwise, or not at all.                                       *)
Line(bad, script, data) == [bad |-> bad, script |-> script, data |-> data]
MCLines ==
    {Line(-2, 9, None), Line(-10, 9, None), Line(0, 100000, 0)} \cup
    {Line(0, s, d) : s \in {2, 127, 128}, d \in {None, 0, 127, 128, 65600}}
Packet(type, lines) == [type |-> type, id |-> 1, lines |-> lines]
MCBodies == {<<>>, <<"field">>, <<"field", "cr", "#!", "text", "more">>, <<"cr">>, <<"text", "#!">>}
MCReplies ==
    UNION {{<<Packet("stdout", a), Packet("stderr", b), Packet("data", <<"text">>), e>>,
            <<Packet("stdout", a), Packet("data", b), [Packet("stdout", <<"cr">>) EXCEPT !.id = 2]>>} :
              a \in MCBodies, b \in MCBodies,
              e \in {Packet("end", <<>>), Packet("end", <<"overloaded">>),
                     Packet("abort", <<"aborted">>), Packet("other", <<"unexpected">>)}}
MCInputs ==
    {[cmd |-> l, reply |-> <<Packet("stdout", <<"cr", "text">>), Packet("end", <<>>)>>] : l \in MCLines}
    \cup {[cmd |-> Line(0, 9, 4), reply |-> r] : r \in MCReplies}

C == INSTANCE FcgiClient WITH pc <- cpc, out <- printed

-----------------------------------------------------------------------------
NoLogger ==
    /\ lpc = None /\ offline = FALSE /\ filter_reasons = None /\ sbuf = None /\ ahead = None
    /\ packet = None /\ line = None /\ opens = None /\ complained = None
NoStats ==
    /\ sets = None /\ cnt = None /\ iface = None /\ qpc = None /\ req = None /\ last_ticket = None
    /\ qnr = None /\ root = None /\ told = None /\ backlog = None /\ client = [c \in Clients |-> "out"]
    /\ since = None /\ qfaults = None
NoStates == table = None /\ query = None /\ done = None /\ result = None
NoInterfaces ==
    /\ ifs = None /\ cut = None /\ ipc = None /\ ifn = None /\ arg = None /\ copy = None
    /\ rest = None /\ addresses = None /\ began = None /\ seen = None /\ nchanges = None
NoFcgi ==
    /\ cpc = None /\ cmd = None /\ params = None /\ len = None /\ reply = None /\ n = None
    /\ got = None /\ end_header = None /\ printed = None /\ status = None

InitAll ==
    /\ part \in {"rules", "log", "stats", "states", "interfaces", "fcgi"}
    /\ Init /\ (part # "rules" => Len(log["pass"][1]) = 1)
    /\ IF part = "log" THEN L!Init ELSE NoLogger
    /\ IF part = "stats" THEN Q!Init ELSE NoStats
    /\ IF part = "states" THEN S!Init ELSE NoStates
    /\ IF part = "interfaces" THEN I!Init ELSE NoInterfaces
    /\ IF part = "fcgi" THEN C!Init ELSE NoFcgi

One(A, B, D, E, F, G) ==
    \/ part = "rules" /\ A /\ UNCHANGED <<logger, stats, states, interfaces, fcgi, part>>
    \/ part = "log" /\ B /\ UNCHANGED <<vars, stats, states, interfaces, fcgi, part>>
    \/ part = "stats" /\ D /\ UNCHANGED <<vars, logger, states, interfaces, fcgi, part>>
    \/ part = "states" /\ E /\ UNCHANGED <<vars, logger, stats, interfaces, fcgi, part>>
    \/ part = "interfaces" /\ F /\ UNCHANGED <<vars, logger, stats, states, fcgi, part>>
    \/ part = "fcgi" /\ G /\ UNCHANGED <<vars, logger, stats, states, interfaces, part>>

\* The fairness of the one that runs.
FairAll ==
    /\ InitAll /\ [][One(Next, L!Next, Q!Next, S!Next, I!Next, C!Next)]_all
    /\ \A w \in Workers : WF_vars(Step(w))
    /\ WF_all(One(FALSE, L!Reader, Q!Daemon, FALSE, I!Caller, C!Step))

-----------------------------------------------------------------------------
\* A line of filterlog has the fields of its grammar, of this packet only, and
\* is missing only for a reason that is filtered; a file is read whole (FilterLog).
LogRight == part = "log" => L!LogRight

\* An answer of qstats tells the queues of one set, with the packets they sent
\* while the set was loaded (QStats).
AnswerRight == part = "stats" => Q!AnswerRight /\ Q!DeadOnlyIfLeft

\* An average lies between the least and the greatest of what it is the average
\* of, and no counter of an earlier set enters it (QStats).
AveragesRight == part = "stats" => Q!AveragesRight

\* The states that are listed are the first ones the filters let through, with
\* the addresses of their own ends (PfStates).
StatesRight == part = "states" => S!StatesRight

\* The addresses and parameters of an interface are its own, together at one
\* moment; a list of interfaces has each that is asked for once (IfAddrs).
AddressesRight == part = "interfaces" => I!AddressesRight /\ I!ListsRight

\* The server finds in the request of fcgicli what the program meant; however the
\* reply is cut, fcgicli tells of the script's output what comes after the
\* header, and whether the request was ended (FcgiClient).
FcgiRight == part = "fcgi" => C!RequestRight /\ C!ClientRight

\* filterlog goes on after the capture has failed and reads a file to its end
\* (FilterLog).
ReadsOn == []<>(part = "log" => L!Reading)

\* A client of qstats is answered unless it leaves, or the daemon ended when a
\* client had left (QStats).
ClientsServed == \A c \in Clients : []<>(part = "stats" => Q!Served(c))

\* Every call of the PHP module returns, and fcgicli ends (PfReaders, IfAddrs,
\* FcgiClient).
CallsEnd ==
    /\ CallsReturn
    /\ []<>(part = "interfaces" => ipc = "idle")
    /\ []<>(part = "fcgi" => cpc \in {"exit", "undefined"})
===============================================================================
