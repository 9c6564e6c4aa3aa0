------------------------------ MODULE FilterLog ------------------------------
(***************************************************************************)
(* filterlog: reads the packets pf has logged, from an interface or from a *)
(* file, and writes one line for each to syslog, or prints it. The packets *)
(* with some reasons may be left out. All lines are composed in one buffer.*)
(* LogFormat has the texts. Here are the reading of the options, the loop  *)
(* around libpcap, and the reference that lines are compared with, which   *)
(* is the grammar of description.txt.                                      *)
(***************************************************************************)
EXTENDS LogFormat

CONSTANTS
    Packets,        \* the packets there are
    Files,          \* sequences of packets a file may hold
    Options,        \* the lists that option -r may be given: [first, last] with
                    \* numbers, or -1 for what is not a number or not given
    NReasons,       \* the size of filter_reasons (16; the kernel has reasons 0..16)
    MaxOpens,       \* bound: times a capture is opened
    None

VARIABLES
    pc,             \* "start", "open", "loop", "ended" with a line in syslog or not
    offline,        \* a file is read
    filter_reasons,
    sbuf,           \* the text in the buffer
    ahead,          \* the packets of the file that were not read yet
    packet,         \* history: the packet decode_packet was called with last,
    line,           \* history: the line it wrote for it, if any
    opens,
    complained      \* history: an error was logged or printed

vars == <<pc, offline, filter_reasons, sbuf, ahead, packet, line, opens, complained>>

-----------------------------------------------------------------------------
(* The options                                                               *)
InRange(n) == n \in 0..(NReasons - 1)
TokenOk(t) == InRange(t.first) /\ (t.ranged => InRange(t.last) /\ t.last >= t.first)
TokenSet(t) == t.first..(IF t.ranged THEN t.last ELSE t.first)

parse_filter_reasons(tokens) ==
    [ok |-> \A k \in DOMAIN tokens : TokenOk(tokens[k]),
     set |-> UNION {TokenSet(tokens[k]) : k \in DOMAIN tokens}]

Init ==
    /\ pc = "start" /\ offline \in BOOLEAN /\ filter_reasons = {}
    /\ sbuf = <<>> /\ packet = None /\ line = None /\ opens = 0 /\ complained = FALSE
    /\ ahead \in IF offline THEN Files ELSE {<<>>}

Start(tokens) ==
    LET r == parse_filter_reasons(tokens) IN
    /\ pc = "start"
    /\ filter_reasons' = IF r.ok THEN r.set ELSE {}
    /\ pc' = IF r.ok THEN "open" ELSE "ended"
    /\ complained' = ~r.ok
    /\ UNCHANGED <<offline, sbuf, ahead, packet, line, opens>>

\* The capture can be opened and is one of pf's log, or the daemon ends.
Open(ok) ==
    /\ pc = "open" /\ (ok => opens < MaxOpens)
    /\ pc' = IF ok THEN "loop" ELSE "ended"
    /\ complained' = (complained \/ ~ok)
    /\ opens' = IF ok THEN opens + 1 ELSE opens
    /\ UNCHANGED <<offline, filter_reasons, sbuf, ahead, packet, line>>
-----------------------------------------------------------------------------
(* decode_packet                                                             *)

\* A reason the array has no entry for: whatever is stored behind it. So is
\* the reason of a packet that was cut off before it.
Filtered(p) ==
    IF p.cap = "length" \/ ~InRange(p.reason) THEN BOOLEAN
    ELSE {p.reason \in filter_reasons}

PflogText(p) ==
    Csv(<<"rulenr">>)
    \o (IF p.anchor THEN Csv(<<"subrulenr", "anchor">>) ELSE <<",", ",">>)
    \o Csv(<<"ridentifier", "interface", "reason", "action", "dir">>)

\* The version is the first half-byte of the packet.
IpText(ip) ==
    IF ip.length < 4 THEN <<"version", ",", "truncated">>
    ELSE CASE ip.v = 4 -> ip_print(ip)
           [] ip.v = 6 -> ip6_print(ip)
           [] OTHER -> ip_print(ip) \o <<"version">>

DecodedText(p) ==
    IF p.cap = "none" THEN <<"[|pflog]">>
    ELSE IF ~p.longhdr THEN <<"[invalid]">>
    ELSE IF p.cap # "all" THEN <<"[|pflog]">>
    ELSE PflogText(p) \o IpText(p.ip)

PrintSbuf(text) ==
    /\ line' = sbuf \o text
    /\ sbuf' = <<>>

Drop ==
    /\ sbuf' = <<>>
    /\ line' = None

decode_packet(p) ==
    /\ packet' = p
    /\ IF p.cap = "none" \/ ~p.longhdr THEN PrintSbuf(DecodedText(p))
       ELSE \E f \in Filtered(p) : IF f THEN Drop ELSE PrintSbuf(DecodedText(p))

LivePacket(p) ==
    /\ pc = "loop" /\ ~offline
    /\ decode_packet(p)
    /\ UNCHANGED <<pc, offline, filter_reasons, ahead, opens, complained>>

FilePacket ==
    /\ pc = "loop" /\ offline /\ ahead # <<>>
    /\ decode_packet(Head(ahead))
    /\ ahead' = Tail(ahead)
    /\ UNCHANGED <<pc, offline, filter_reasons, opens, complained>>

\* Mutant: the end of a file is no reason to leave the loop.
LoopEnds_GoesOn(perr) ==
    /\ pc = "loop"
    /\ perr = 0 => offline /\ ahead = <<>>
    /\ pc' = IF perr = 0 THEN "loop" ELSE IF offline THEN "ended" ELSE "open"
    /\ complained' = (complained \/ perr = -1)
    /\ UNCHANGED <<offline, filter_reasons, sbuf, ahead, packet, line, opens>>

\* pcap_loop returns after an error and at the end of a file (nothing breaks the
\* loop). A file is read once; an interface is opened again after an error.
LoopEnds(perr) ==
    /\ pc = "loop"
    /\ perr = 0 => offline /\ ahead = <<>>
    /\ pc' = IF offline THEN "ended" ELSE "open"
    /\ complained' = (complained \/ perr = -1)
    /\ UNCHANGED <<offline, filter_reasons, sbuf, ahead, packet, line, opens>>

Done == pc = "ended" /\ UNCHANGED vars

Next ==
    \/ \E t \in Options : Start(t)
    \/ \E ok \in BOOLEAN : Open(ok)
    \/ \E p \in Packets : LivePacket(p)
    \/ FilePacket
    \/ \E e \in {-1, 0} : LoopEnds(e)
    \/ Done

\* The kernel lets a process that can run, run, and libpcap returns at the end
\* of a file. Packets need not come.
Reader ==
    \/ \E t \in Options : Start(t)
    \/ \E ok \in BOOLEAN : Open(ok)
    \/ FilePacket
    \/ LoopEnds(0)

Spec == Init /\ [][Next]_vars /\ WF_vars(Reader)
-----------------------------------------------------------------------------
(* The grammar of description.txt: the names of the fields, for a packet     *)
(* that is whole. "any" stands for what may follow: texts the grammar does   *)
(* not cover, those that tell that a header is cut off or malformed, and the *)
(* ones that are known not to separate their values by commas (ICMP, SCTP    *)
(* over IPv6, a routing header with addresses, mobility, suboptions).        *)
\* The reference for a list of options looks at all of them at once: those
\* are named that stand in the header in full, if all before them do.
Before(opts, k) == FoldLeft(LAMBDA n, o : n + OptLen(o), 0, SubSeq(opts, 1, k - 1))
WellFormed6(o) ==
    \/ o.kind = "pad1"
    \/ /\ OptLen(o) >= Option6[o.kind].min
       /\ Option6[o.kind].exact => OptLen(o) = Option6[o.kind].min
Whole6(opts, len) ==
    {k \in DOMAIN opts : \A j \in 1..k :
        Before(opts, j) + OptLen(opts[j]) <= len /\ WellFormed6(opts[j])}
OptionNames(opts, len) ==
    LET names(o) == IF o.kind = "pad1" THEN <<"PAD1">>
                    ELSE IF o.kind \in HasSubOptions /\ o.sub # <<>> THEN Option6[o.kind].vals \o <<"any">>
                    ELSE Option6[o.kind].vals
        whole == Whole6(opts, len)
    IN  FlattenSeq([k \in 1..Cardinality(whole) |-> names(opts[k])])
        \o IF whole = DOMAIN opts THEN <<>> ELSE <<"any">>

Ports == <<"srcport", "dstport", "datalen">>
BodyNames(b, len) ==
    CASE b.h = "tcp" ->
            IF b.off < 5 THEN <<"errormsg">>
            ELSE Ports \o <<"flags">> \o
                 IF b.off * 4 > len THEN <<"errormsg">>
                 ELSE <<"seq", "ack", "window", "urg">> \o IF b.good THEN <<"options">> ELSE <<"any">>
      [] b.h = "udp" -> Ports
      [] b.h = "vrrp" -> <<"type", "ttl", "vhid", "version", "advskew", "advbase">>
      [] OTHER -> <<"any">>

HeaderSize(b) == IF b.h = "fragment" THEN 8 ELSE (b.len + 1) * 8
HeaderNames(b) ==
    CASE b.h = "hopopts" -> <<"HBH">> \o OptionNames(b.opts, HeaderSize(b) - 2)
      [] b.h = "dstopts" -> <<"DSTOPT">> \o OptionNames(b.opts, HeaderSize(b) - 2)
      [] b.h = "fragment" -> <<"FRAG6", "frag">> \o IF b.offset = 0 THEN <<"">> ELSE <<"end">>
      [] b.h = "routing" -> IF b.type \in {0, 2} /\ b.len = 0
                            THEN <<"len", "type", "segleft", "reserved">> ELSE <<"any">>
Extension == {"hopopts", "dstopts", "fragment", "routing"}
ChainNames(chain, plen) ==
    LET start(k) == FoldLeft(LAMBDA n, b : n + HeaderSize(b), 0, SubSeq(chain, 1, k - 1))
    IN  FlattenSeq([k \in DOMAIN chain |->
            IF start(k) >= plen THEN <<"any">>
            ELSE IF chain[k].h \in Extension THEN HeaderNames(chain[k])
            ELSE IF chain[k].h = "sctp" THEN <<"any">>
            ELSE BodyNames(chain[k], plen - start(k))])

PflogNames ==
    <<"rulenr", "subrulenr", "anchor", "ridentifier", "interface", "reason", "action", "dir",
      "version">>
Whole(ip) ==
    IF ip.v = 6 THEN ip.length >= ip.plen + 40 /\ ip.plen > 0
    ELSE ip.length >= ip.iplen /\ ip.iplen >= ip.hl * 4 /\ ip.hl >= 5
NamesFor(ip) ==
    PflogNames \o
    IF ~Whole(ip) \/ ip.v \notin {4, 6} THEN <<"any">>
    ELSE IF ip.v = 6
    THEN <<"class", "flowlabel", "hlim", "protoname", "next", "payload-length", "src", "dst">>
         \o ChainNames(ip.chain, ip.plen)
    ELSE <<"tos", "ecn", "ttl", "id", "offset", "flags", "proto", "protoname", "length",
           "src", "dst">>
         \o IF ip.offset = 0 THEN BodyNames(ip.body, ip.iplen - ip.hl * 4) ELSE <<>>

MayBeEmpty == {"subrulenr", "anchor", "ecn", "flags", "seq", "ack", "urg", "options", ""}
HoldsField(f, name) ==
    \/ f = <<name>>
    \/ name \in MayBeEmpty /\ f = <<>>
    \/ name = "options" /\ \A k \in DOMAIN f : (f[k] = ";") <=> (k % 2 = 0)
AsNamed(text, names) ==
    LET f     == Fields(text)
        stops == {k \in DOMAIN names : names[k] \in {"any", "end"}}
        n     == IF stops = {} THEN Len(names) ELSE Min(stops) - 1
    IN  /\ \A k \in 1..n : k <= Len(f) /\ HoldsField(f[k], names[k])
        /\ (n = Len(names) \/ names[n + 1] = "end") => \A k \in (n + 1)..Len(f) : f[k] = <<>>

\* A packet that is not whole is said not to be, in a field of its own.
Trouble == {"truncated", "truncated-ip", "truncated-ip6", "bad-hlen", "bad-len", "error"}
SaysSo(text) == \E k \in DOMAIN Fields(text) : Fields(text)[k] \in {<<t>> : t \in Trouble}

\* A line describes the packet it was written for, and nothing else: each
\* field of the grammar in its place, whatever headers and options come before
\* it, and no text of an earlier packet.
LineRight(p, text) ==
    /\ p.cap = "all" /\ p.longhdr =>
          /\ AsNamed(text, NamesFor(p.ip))
          /\ ~Whole(p.ip) /\ (p.ip.v = 6 => p.ip.plen > 0) => SaysSo(text)
    /\ ~(p.cap = "all" /\ p.longhdr) => Len(text) = 1

TypeOK ==
    /\ pc \in {"start", "open", "loop", "ended"} /\ offline \in BOOLEAN
    /\ filter_reasons \subseteq 0..(NReasons - 1)
    /\ sbuf \in Seq(STRING) /\ opens \in 0..MaxOpens /\ complained \in BOOLEAN

\* decode_packet writes one line for a packet, unless the packet's reason is
\* one of those that -r names, and the line is right for that packet. (A reason
\* beyond the array, or beyond what was captured, may count as named or not.)
\* Reading a file ends without an error only after its last packet.
LogRight ==
    /\ line # None => LineRight(packet, line)
    /\ packet # None =>
          IF packet.cap = "none" \/ ~packet.longhdr THEN line # None
          ELSE packet.cap # "length" /\ InRange(packet.reason) =>
                  ((line # None) <=> packet.reason \notin filter_reasons)
    /\ pc = "ended" /\ offline /\ ~complained => ahead = <<>>

\* After the capture of an interface has failed it is open again at some time,
\* or the daemon has ended with an error; a file is read to its end.
Reading == pc = "ended" \/ (pc = "loop" /\ ~offline)
ReadsOn == []<>Reading
===============================================================================
