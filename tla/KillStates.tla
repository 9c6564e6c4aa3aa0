----------------------------- MODULE KillStates -----------------------------
(***************************************************************************)
(* FreeSense_kill_states(ip1, ip2) of the PHP module removes the firewall  *)
(* states between the addresses two names stand for, kill_srcstates the    *)
(* source nodes. Both walk the list the resolver gives for ip1 and, for    *)
(* each source, the one for ip2, which is resolved again each time; the    *)
(* lists repeat every address, once for each type of socket. Interface and *)
(* protocol, which are copied into each request, are left out.             *)
(***************************************************************************)
EXTENDS Integers, Sequences, SequencesExt

CONSTANTS
    Addrs,          \* addresses: [af, hi, lo], hi the first 64 bits
    MaxList,        \* bound: addresses a name resolves to, with repetitions
    NoAddr          \* no address: ip2 not given, last_src not set

VARIABLES
    fn,             \* "kill_states" or "kill_srcstates"
    src,            \* what ip1 resolves to
    dst,            \* what ip2 resolves to, or NoAddr
    net,            \* ip2 was given with a prefix
    slash,          \* the copy of ip2 still has its '/'
    mask,           \* k.dst mask: "net" or "host"
    pc,             \* "open", "src", "dst", "kill", "nat", or the value returned
    i, j,           \* places in the two lists
    last_src, last_dst,
    killed,         \* the requests made: <<source, destination, mask, nat>>
    failed          \* history: a request failed

vars == <<fn, src, dst, net, slash, mask, pc, i, j, last_src, last_dst, killed, failed>>

Lists == UNION {[1..n -> Addrs] : n \in 1..MaxList}

\* The bytes of a struct sockaddr: of an IPv6 address only the first half.
sockaddr(a) == IF a.af = "inet6" THEN <<a.af, a.hi>> ELSE <<a.af, a.hi, a.lo>>

Init ==
    /\ fn \in {"kill_states", "kill_srcstates"}
    /\ src \in Lists
    /\ \/ dst = NoAddr /\ net = FALSE
       \/ dst \in Lists /\ net = FALSE
       \/ net = TRUE /\ \E a \in Addrs : dst = <<a>>    \* numeric addresses only
    /\ slash = net /\ mask = "host"
    /\ pc = "open" /\ i = 1 /\ j = 1
    /\ last_src = NoAddr /\ last_dst = NoAddr
    /\ killed = {} /\ failed = FALSE

\* The device is opened, ip1 split and resolved; each may fail.
Open ==
    /\ pc = "open"
    /\ pc' \in {"src", "NULL"}
    /\ UNCHANGED <<fn, src, dst, net, slash, mask, i, j, last_src, last_dst, killed, failed>>

\* The last source is done, or the next one is the one before it again.
SourcesDone ==
    /\ pc = "src" /\ i > Len(src)
    /\ pc' = "TRUE"
    /\ UNCHANGED <<fn, src, dst, net, slash, mask, i, j, last_src, last_dst, killed, failed>>

SkipSource ==
    /\ pc = "src" /\ i <= Len(src) /\ sockaddr(src[i]) = last_src
    /\ i' = i + 1
    /\ UNCHANGED <<fn, src, dst, net, slash, mask, pc, j, last_src, last_dst, killed, failed>>

\* The prefix of ip2 becomes the mask, and its '/' the end of the string.
pfctl_addrprefix == mask' = (IF slash THEN "net" ELSE "host") /\ slash' = FALSE

\* A new source: ip2 is split and resolved; each may fail.
Source ==
    /\ pc = "src" /\ i <= Len(src) /\ sockaddr(src[i]) # last_src
    /\ last_src' = sockaddr(src[i])
    /\ IF dst = NoAddr
       THEN pc' = "kill" /\ UNCHANGED <<slash, mask, j, last_dst>>
       ELSE /\ pfctl_addrprefix
            /\ j' = 1 /\ last_dst' = NoAddr
            /\ pc' \in {"dst", "NULL"}
    /\ UNCHANGED <<fn, src, dst, net, i, killed, failed>>

DestsDone ==
    /\ pc = "dst" /\ j > Len(dst)
    /\ pc' = "src" /\ i' = i + 1
    /\ UNCHANGED <<fn, src, dst, net, slash, mask, j, last_src, last_dst, killed, failed>>

\* A destination of the other family, or the one before it again, is skipped.
Dest ==
    /\ pc = "dst" /\ j <= Len(dst)
    /\ IF dst[j].af # src[i].af \/ sockaddr(dst[j]) = last_dst
       THEN j' = j + 1 /\ UNCHANGED <<pc, last_dst>>
       ELSE last_dst' = sockaddr(dst[j]) /\ pc' = "kill" /\ UNCHANGED j
    /\ UNCHANGED <<fn, src, dst, net, slash, mask, i, last_src, killed, failed>>

Request(nat) ==
    IF dst = NoAddr THEN <<src[i], NoAddr, "any", nat>> ELSE <<src[i], dst[j], mask, nat>>

\* kill_states asks with nat false, then with nat true; kill_srcstates asks once.
\* With a destination a failure is only reported; without one it ends the loop.
Kill ==
    /\ pc \in {"kill", "nat"}
    /\ \E fails \in BOOLEAN :
        /\ killed' = IF fails THEN killed ELSE killed \cup {Request(pc = "nat")}
        /\ failed' = (failed \/ fails)
        /\ IF dst = NoAddr /\ fails
           THEN pc' = "TRUE" /\ UNCHANGED <<i, j>>
           ELSE IF pc = "kill" /\ fn = "kill_states" THEN pc' = "nat" /\ UNCHANGED <<i, j>>
           ELSE IF dst = NoAddr THEN pc' = "src" /\ i' = i + 1 /\ UNCHANGED j
           ELSE pc' = "dst" /\ j' = j + 1 /\ UNCHANGED i
    /\ UNCHANGED <<fn, src, dst, net, slash, mask, last_src, last_dst>>

Next == Open \/ SourcesDone \/ SkipSource \/ Source \/ DestsDone \/ Dest \/ Kill

-----------------------------------------------------------------------------
(* Properties *)

\* No two different addresses of a list look alike to the test for duplicates.
Apart(list) == \A a, b \in Range(list) : sockaddr(a) = sockaddr(b) => a = b

\* The states the caller asked to be killed.
Nats == IF fn = "kill_states" THEN BOOLEAN ELSE {FALSE}
Asked ==
    IF dst = NoAddr THEN {<<a, NoAddr, "any", n>> : a \in Range(src), n \in Nats}
    ELSE {<<a, b, IF net THEN "net" ELSE "host", n>> :
              a \in Range(src), b \in Range(dst), n \in Nats}
SameFamily(r) == r[2] = NoAddr \/ r[1].af = r[2].af

\* States between the two names are killed, all of them and on both sides of a
\* translation, when the call returns TRUE and no request failed: for lists
\* in which no two IPv6 addresses share their first half, and, if ip2 is a
\* network, for the first source.  Nothing is killed beyond what was asked for.
KillsAsked ==
    /\ (pc = "TRUE" /\ ~failed /\ Apart(src) /\ (dst # NoAddr => Apart(dst))) =>
         \A r \in Asked : SameFamily(r) /\ (net => r[1] = src[1]) => r \in killed
    /\ \A r \in killed :
         /\ SameFamily(r)
         /\ r \in Asked \/ (net /\ <<r[1], r[2], "net", r[4]>> \in Asked)
=============================================================================
