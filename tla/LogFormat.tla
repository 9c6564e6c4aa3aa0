------------------------------ MODULE LogFormat ------------------------------
(***************************************************************************)
(* What filterlog prints about a packet (print-*.c). A text is a sequence  *)
(* of tokens: a comma, or the name of the value that is printed. Lengths   *)
(* are in bytes. A packet carries the fields that steer the printers: the  *)
(* lengths, the protocol, the fragment offset, and the headers and options *)
(* that follow. A value that is read where the packet has none is "?".     *)
(***************************************************************************)
EXTENDS Integers, Sequences, SequencesExt

Csv(names) == FlattenSeq([k \in DOMAIN names |-> <<names[k], ",">>])
Joined(names) == Front(Csv(names))

\* The fields of a line: the tokens between two commas.
Fields(text) ==
    LET isComma(k) == text[k] = ","
        ends == <<0>> \o SelectSeq([k \in DOMAIN text |-> k], isComma) \o <<Len(text) + 1>>
    IN  [f \in 1..(Len(ends) - 1) |-> SubSeq(text, ends[f] + 1, ends[f + 1] - 1)]

\* A list of options is walked while some of its header is left; what is looked
\* for beyond the options there are is unknown.
WalkOf(len) == [out |-> <<>>, left |-> len, go |-> TRUE]
Walked(st) == st.out \o IF st.go /\ st.left > 0 THEN <<"?">> ELSE <<>>
-----------------------------------------------------------------------------
(* TCP. An option is its kind and its length byte; the code goes on by the   *)
(* size of the kind where it knows one.                                      *)
OptionSize ==
    [eol |-> 1, nop |-> 1, sackOK |-> 2, wscale |-> 3, mss |-> 4, uto |-> 4,
     echo |-> 6, TS |-> 10, md5 |-> 18]

OneOption(st, o) ==
    LET zero == o.kind \in {"eol", "nop"}
        size == IF o.kind \in DOMAIN OptionSize THEN OptionSize[o.kind] ELSE o.len
        sep  == IF st.out = <<>> THEN <<>> ELSE <<";">>
    IN  IF ~st.go \/ st.left = 0 THEN st
        ELSE IF ~zero /\ (o.len < 2 \/ o.len > st.left)
        THEN [st EXCEPT !.go = FALSE,
                        !.out = @ \o sep \o <<"[bad opt]", ",">>
                                  \o IF sep = <<>> THEN <<>> ELSE <<">", ",">>]
        ELSE IF ~zero /\ size # o.len      \* what it takes for the next option is not one
        THEN [st EXCEPT !.go = FALSE, !.out = @ \o sep \o <<o.kind, "?">>]
        ELSE [st EXCEPT !.left = @ - size, !.out = @ \o sep \o <<o.kind>>,
                        !.go = o.kind # "eol"]

tcp_options(opts, hlen) == Walked(FoldLeft(OneOption, WalkOf(hlen), opts))

tcp_print(t, length) ==
    LET hlen == t.off * 4
        opt(c, name) == (IF c THEN <<name>> ELSE <<>>) \o <<",">>
    IN  IF hlen < 20 THEN <<"errormsg", ",">>
        ELSE Csv(<<"srcport", "dstport", "datalen">>) \o opt(t.flags # {}, "flags")
             \o IF hlen > length THEN <<"errormsg", ",">>
                ELSE opt(length > hlen \/ t.flags \cap {"S", "F", "R"} # {}, "seq")
                     \o opt("A" \in t.flags, "ack") \o Csv(<<"window">>)
                     \o opt("U" \in t.flags, "urg")
                     \o tcp_options(t.opts, hlen - 20)
-----------------------------------------------------------------------------
(* ICMP: every message ends with the length, in the same field.              *)
IcmpText ==
    [echo |-> Joined(<<"type", "id", "seq">>),
     unreach_protocol |-> Joined(<<"unreachproto", "dstip", "protocolnumber">>),
     unreach_port |-> Joined(<<"unreachport", "dstip", "protocol", "port">>),
     unreach_needfrag |-> Joined(<<"needfrag", "dstip", "mtu">>),
     unreach_needfrag0 |-> <<"needfrag", ",", "dstip", "need to frag">>,
     unreach_other |-> Joined(<<"unreach", "descr">>),
     redirect |-> Joined(<<"redirect", "descr">>),
     redirect_other |-> Csv(<<"redirect", "descr">>),
     routeradv |-> <<"routeradv">> \o Csv(<<"lifetime", "num">>),
     routeradv_size |-> <<"routeradv">> \o Csv(<<"lifetime", "num", "size">>),
     timxceed |-> Joined(<<"timexceed", "descr">>),
     paramprob |-> Joined(<<"paramprob", "descr">>),
     maskreply |-> Joined(<<"maskreply", "mask">>),
     tstamp |-> Joined(<<"tstamp", "id", "seq">>),
     tstampreply |-> Joined(<<"tstampreply", "id", "seq", "org", "recv", "xmit">>),
     other |-> <<"type">>]

icmp_print(m) == IcmpText[m] \o <<"length">>
-----------------------------------------------------------------------------
(* IPv4.                                                                     *)
ip_print_demux(b, len) ==
    CASE b.h = "tcp" -> tcp_print(b, len)
      [] b.h = "udp" -> Joined(<<"srcport", "dstport", "datalen">>)
      [] b.h = "sctp" -> Joined(<<"srcport", "dstport", "datalen">>)
      [] b.h = "icmp" -> icmp_print(b.type)
      [] b.h = "ipv4" -> <<"IPV4-IN-IPV4", ",">>
      [] b.h = "ipv6" -> <<"IPV6-IN-IPV4", ",">>
      [] b.h = "vrrp" -> Joined(<<"type", "ttl", "vhid", "version", "advskew", "advbase">>)
      [] OTHER -> <<"datalength">>

\* ip_len has 16 bits, so it never exceeds MAXIMUM_SNAPLEN.
ip_print(p) ==
    LET hlen == p.hl * 4 IN
    Csv(<<"version">>) \o
    IF p.length < 20 THEN <<"truncated-ip", ",">>
    ELSE IF hlen < 20 THEN <<"bad-hlen", ",">>
    ELSE (IF p.length < p.iplen THEN <<"error", ",">> ELSE <<>>) \o
         IF p.iplen < hlen THEN <<"bad-len", ",">>
         ELSE Csv(<<"tos">>) \o (IF p.ecn = 0 THEN <<>> ELSE <<"ecn">>) \o <<",">>
              \o Csv(<<"ttl", "id", "offset", "flags", "proto", "protoname",
                       "length", "src", "dst">>)
              \o IF p.offset = 0 THEN ip_print_demux(p.body, p.iplen - hlen) ELSE <<>>
-----------------------------------------------------------------------------
(* The options of IPv6 headers: the type and the length byte. An option is   *)
(* refused where it exceeds what is left of the header, where too little is  *)
(* left for its type, or where its length is not that of its type.           *)
Option6 ==
    [rtalert |-> [min |-> 4, exact |-> TRUE, vals |-> <<"RTALERT", "data">>],
     jumbo |-> [min |-> 6, exact |-> TRUE, vals |-> <<"JUMBO", "data">>],
     homeaddr |-> [min |-> 18, exact |-> FALSE, vals |-> <<"HOMEADDR", "addr">>],
     bindingup |-> [min |-> 10, exact |-> FALSE,
                    vals |-> <<"BINDINGUP", "opts", "sequence", "lifetime">>],
     bindingack |-> [min |-> 13, exact |-> FALSE,
                     vals |-> <<"BINDINGACK", "status", "res", "sequence", "lifetime", "refresh">>],
     bindingreq |-> [min |-> 2, exact |-> FALSE, vals |-> <<"BINDINGREQ">>],
     padn |-> [min |-> 2, exact |-> FALSE, vals |-> <<"PADN">>],
     other |-> [min |-> 2, exact |-> FALSE, vals |-> <<"TYPE", "type", "len">>]]

HasSubOptions == {"homeaddr", "bindingup", "bindingack", "bindingreq"}
SubOptionMin == [padn |-> 2, ui |-> 4, altcoa |-> 18, auth |-> 6, other |-> 2]

OptLen(o) == IF o.kind = "pad1" THEN 1 ELSE o.len + 2

\* There is no room for the option: its length byte, or what it counts.
NoRoom(o, left) == OptLen(o) > left \/ (o.kind # "pad1" /\ left < 2)

OneSubOption(st, o) ==
    IF ~st.go \/ st.left = 0 THEN st
    ELSE IF NoRoom(o, st.left) THEN [st EXCEPT !.go = FALSE, !.out = Append(@, "[trunc]")]
    ELSE IF o.kind # "pad1" /\ st.left < SubOptionMin[o.kind]
    THEN [st EXCEPT !.go = FALSE, !.out = @ \o <<o.kind, "[trunc]">>]
    ELSE [st EXCEPT !.left = @ - OptLen(o), !.out = Append(@, o.kind)]

ip6_sopt_print(sub, len) == Walked(FoldLeft(OneSubOption, WalkOf(len), sub))

OneOption6(st, o) ==
    LET d == Option6[o.kind] IN
    IF ~st.go \/ st.left = 0 THEN st
    ELSE IF NoRoom(o, st.left) THEN [st EXCEPT !.go = FALSE]
    ELSE IF o.kind = "pad1" THEN [st EXCEPT !.left = @ - 1, !.out = @ \o Csv(<<"PAD1">>)]
    ELSE IF st.left < d.min THEN [st EXCEPT !.go = FALSE, !.out = @ \o Csv(<<"TRUNC">>)]
    ELSE IF OptLen(o) < d.min \/ (d.exact /\ OptLen(o) # d.min)
    THEN [st EXCEPT !.go = FALSE, !.out = @ \o Csv(<<"INVALID", "len">>)]
    ELSE [st EXCEPT !.left = @ - OptLen(o),
                    !.out = @ \o Csv(d.vals) \o IF o.kind \in HasSubOptions
                                              THEN ip6_sopt_print(o.sub, OptLen(o) - d.min)
                                              ELSE <<>>]

ip6_opt_print(opts, len) == Walked(FoldLeft(OneOption6, WalkOf(len), opts))
-----------------------------------------------------------------------------
(* The headers of IPv6: what each prints, and how far the next one is; 0 or  *)
(* less ends the walk.                                                       *)
MobilityText ==
    [brr |-> Csv(<<"BRR">>), hoti |-> Csv(<<"HoTI", "type", "cookie">>),
     hot |-> Csv(<<"HoT", "nonce", "type", "cookie", "token">>),
     update |-> Csv(<<"BINDINGUPDATE", "sequence">>) \o <<"flags", "lifetime", ",">>,
     ack |-> Csv(<<"BINDINGACK", "status">>) \o <<"flags", "sequence", ",", "lifetime", ",">>,
     error |-> Csv(<<"BINDINGERR", "status", "homeaddr">>),
     other |-> Joined(<<"TYPE", "type", "len">>)]

rt6_print(r, datalen) ==
    LET n == Max({0} \cup {k \in 0..(r.len \div 2) : 8 + 16 * k <= datalen})
        addrs(k) == FlattenSeq([x \in 1..k |-> <<"hdridx", ",", "addr">>])
        head == Csv(<<"len", "type", "segleft">>)
        trunc(t) == [out |-> t \o Csv(<<"TRUNC", "srcrt">>), advance |-> -1]
    IN  IF r.type \notin {0, 2} THEN trunc(head)
        ELSE IF r.len % 2 = 1 THEN trunc(head \o Csv(<<"reserved">>))
        ELSE IF n < r.len \div 2 THEN trunc(head \o Csv(<<"reserved">>) \o addrs(n))
        ELSE [out |-> head \o Csv(<<"reserved">>) \o addrs(n), advance |-> (r.len + 1) * 8]

frag6_print(f) ==
    IF f.offset # 0 THEN [out |-> Csv(<<"FRAG6", "frag">>), advance |-> -1]
    ELSE [out |-> Csv(<<"FRAG6", "frag">>) \o <<",">>, advance |-> 8]

\* Mutant: the two bytes before the options are taken for options.
hbhopt_print_Whole(b, tag) ==
    [out |-> <<tag, ",">> \o ip6_opt_print(b.opts, (b.len + 1) * 8),
     advance |-> (b.len + 1) * 8]

hbhopt_print(b, tag) ==
    [out |-> <<tag, ",">> \o ip6_opt_print(b.opts, (b.len + 1) * 8 - 2),
     advance |-> (b.len + 1) * 8]

\* One turn of the loop of ip6_print, at header b. An SCTP header neither ends
\* the loop nor moves it by its own size: the turn is repeated, by the size of
\* the header before it, up to the end of the payload.
ip6_header(st, b) ==
    LET cp  == st.cp + st.advance
        len == st.end - cp
        src == IF st.cp = 0 THEN Csv(<<"src", "dst">>) ELSE <<>>
        done(text) == [st EXCEPT !.out = @ \o src \o text, !.go = FALSE]
        on(r) == [st EXCEPT !.out = @ \o src \o r.out, !.cp = cp, !.advance = r.advance]
        sctp == Joined(<<"srcport", "dstport", "datalen">>)
        again == (len + st.advance - 1) \div st.advance
    IN  IF ~(st.go /\ st.cp < st.end /\ st.advance > 0) THEN [st EXCEPT !.go = FALSE]
        ELSE IF len <= 0 THEN done(<<"?">>)
        ELSE
        CASE b.h = "hopopts" -> on(hbhopt_print(b, "HBH"))
          [] b.h = "dstopts" -> on(hbhopt_print(b, "DSTOPT"))
          [] b.h = "fragment" -> on(frag6_print(b))
          [] b.h = "routing" -> on(rt6_print(b, len))
          [] b.h = "mobility" -> done(<<"MOBILITY", ",">> \o MobilityText[b.type])
          [] b.h = "tcp" -> done(tcp_print(b, len))
          [] b.h = "udp" -> done(Joined(<<"srcport", "dstport", "datalen">>))
          [] b.h = "sctp" -> done(FlattenSeq([k \in 1..(1 + again) |-> sctp]))
          [] b.h = "ipv6" -> done(<<"IPV6-IN-IPV6", ",">>)
          [] b.h = "ipv4" -> done(<<"IPV4-IN-IPV6", ",">>)
          [] OTHER -> done(<<>>)

ip6_print(p) ==
    Csv(<<"version">>) \o
    IF p.length < 40 THEN <<"truncated-ip6", ",">>
    ELSE (IF p.length < p.plen + 40 THEN <<"error", ",">> ELSE <<>>)
         \o Csv(<<"class", "flowlabel", "hlim", "protoname", "next", "payload-length">>)
         \o FoldLeft(ip6_header,
                     [cp |-> 0, advance |-> 40, end |-> p.plen + 40, out |-> <<>>, go |-> TRUE],
                     p.chain).out
===============================================================================
