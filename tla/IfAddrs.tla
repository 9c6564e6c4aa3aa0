------------------------------- MODULE IfAddrs -------------------------------
(***************************************************************************)
(* The functions of the PHP module that tell what interfaces there are and *)
(* what addresses they have, while other scripts create, destroy, rename   *)
(* and renumber interfaces. A function takes one copy of the kernel's list *)
(* with getifaddrs; what is not in the list (MTU, tunnel, flags of an IPv6 *)
(* address) is asked for by name afterwards, one ioctl at a time, and may  *)
(* have changed by then. Callers share nothing but the kernel: one stands  *)
(* for all. Every change to an interface is one ioctl.                     *)
(***************************************************************************)
EXTENDS Integers, Sequences, SequencesExt

CONSTANTS
    Names,          \* names of interfaces, as numbers: strcmp is their order
    First,          \* the interfaces at first
    Strings,        \* addresses scripts set: [addr, bits], bits None if not given
    Addrs6,         \* IPv6 addresses the system assigns: [fam, addr, bits]
    Tunnels,        \* ends of tunnels it configures: [af, src, dst]
    Asks,           \* what callers ask: the functions below
    MaxIfs, MaxAddrs, \* bounds: interfaces, addresses of one
    MaxChanges,     \* bound: changes while a call runs
    None

VARIABLES
    ifs,            \* interfaces: [name, up, mtu, tunnel, addrs], in the kernel's order
    cut,            \* strings of scripts whose '/' has become a NUL
    pc, fn, arg,    \* the caller: where it is, its function and argument,
    list, rest,     \*   its copy of the list, IPv6 addresses to ask about,
    answer,
    began, seen,    \* history: ifs when it took the copy, ifs since then
    nchanges

reader == <<pc, fn, arg, list, rest, answer, began, seen>>
vars == <<ifs, cut, reader, nchanges>>

Named(n) == {i \in DOMAIN ifs : ifs[i].name = n}

Idle == /\ pc = "idle" /\ fn = None /\ arg = None /\ list = <<>> /\ rest = <<>>
        /\ answer = None /\ began = <<>> /\ seen = {}
Init == ifs = First /\ cut = {} /\ Idle /\ nchanges = 0

-----------------------------------------------------------------------------
\* Scripts that change interfaces: one ioctl each, an error if the kernel refuses.
Changed(new) ==
    /\ nchanges < MaxChanges /\ nchanges' = nchanges + 1
    /\ ifs' = new /\ new # ifs
    /\ seen' = IF pc = "idle" THEN {} ELSE seen \cup {new}
    /\ UNCHANGED <<pc, fn, arg, list, rest, answer, began>>

interface_create(n) ==
    /\ Named(n) = {} /\ Len(ifs) < MaxIfs
    /\ Changed(Append(ifs, [name |-> n, up |-> FALSE, mtu |-> 1500, tunnel |-> None, addrs |-> <<>>]))
    /\ UNCHANGED cut
interface_destroy(i) == Changed(RemoveAt(ifs, i)) /\ UNCHANGED cut
interface_rename(i, n) ==
    /\ Named(n) = {}
    /\ Changed([ifs EXCEPT ![i].name = n]) /\ UNCHANGED cut
interface_mtu(i, mtu) == Changed([ifs EXCEPT ![i].mtu = mtu]) /\ UNCHANGED cut

\* setaddress writes a NUL over the '/' of the script's own string and leaves it
\* there, whatever comes of the call, unless the mask is bad: when the string is
\* used again the address has no mask. An address that is there gets the new mask;
\* one that is none, or that the kernel refuses, changes nothing else.
Assigned(i, a) ==
    LET others == SelectSeq(ifs[i].addrs, LAMBDA b : b.fam # a.fam \/ b.addr # a.addr)
    IN  [ifs EXCEPT ![i].addrs = Append(others, a)]
interface_setaddress(i, s) ==
    LET bits == IF s \in cut THEN None ELSE s.bits IN
    /\ bits # None => bits \in 0..32
    /\ cut' = IF s.bits # None THEN cut \cup {s} ELSE cut
    /\ \/ /\ Len(ifs[i].addrs) < MaxAddrs
          /\ Changed(Assigned(i, [fam |-> "inet", addr |-> s.addr, bits |-> bits]))
       \/ UNCHANGED <<ifs, reader, nchanges>>

\* The request for an IPv6 address says that it is an IPv4 one: the kernel may
\* refuse it.
interface_deladdress(i, j) ==
    Changed([ifs EXCEPT ![i].addrs = RemoveAt(@, j)]) /\ UNCHANGED cut

\* The system: link states, tunnels and IPv6 addresses.
Environment(i) ==
    /\ \/ Changed([ifs EXCEPT ![i].up = ~@])
       \/ \E t \in Tunnels \cup {None} : Changed([ifs EXCEPT ![i].tunnel = t])
       \/ \E a \in Addrs6 : Len(ifs[i].addrs) < MaxAddrs /\ Changed(Assigned(i, a))
    /\ UNCHANGED cut

-----------------------------------------------------------------------------
\* getifaddrs: of every interface its link entry, with the hardware address,
\* then its addresses.
Mac(f) == [n |-> f.name, linklocal |-> FALSE]
Entries(f) ==
    <<[name |-> f.name, up |-> f.up, fam |-> "link", addr |-> Mac(f), bits |-> None]>> \o
    [j \in DOMAIN f.addrs |->
        [name |-> f.name, up |-> f.up, fam |-> f.addrs[j].fam, addr |-> f.addrs[j].addr,
         bits |-> f.addrs[j].bits]]
getifaddrs == FlattenSeq([i \in DOMAIN ifs |-> Entries(ifs[i])])

cmpifaddrs(a, b) == a.name - b.name

\* Mutant: of two equal entries the later one comes first.
TakesLeft_Less(a, b) == cmpifaddrs(a, b) < 0

TakesLeft(a, b) == cmpifaddrs(a, b) < 1

sortifaddrs(l) ==
    LET lists == Seq(ToSet(l))
        merge[left \in lists, right \in lists] ==
            IF right = <<>> THEN left
            ELSE IF left = <<>> THEN right
            ELSE IF TakesLeft(left[1], right[1])
            THEN <<left[1]>> \o merge[Tail(left), right]
            ELSE <<right[1]>> \o merge[left, Tail(right)]
        sort[s \in lists] ==
            LET half == Len(s) \div 2 IN
            IF Len(s) <= 1 THEN s
            ELSE IF Len(s) = 2 THEN (IF cmpifaddrs(s[1], s[2]) > 0 THEN <<s[2], s[1]>> ELSE s)
            ELSE merge[sort[SubSeq(s, 1, half)], sort[SubSeq(s, half + 1, Len(s))]]
    IN  sort[l]

\* What the list itself tells. The hardware address is read from the entry as
\* from a link entry, whatever it is.
fill_interface_params(e) == [up |-> e.up, mac |-> IF e.fam = "link" THEN e.addr ELSE None]
NameAnd(l, n, fam) == SelectSeq(l, LAMBDA e : e.name = n /\ e.fam = fam)
Address(e) == [addr |-> e.addr, bits |-> e.bits]
AddressesOf(l) == [j \in DOMAIN l |-> Address(l[j])]

\* The entries from the first with the name to the first without.
FromName(l, n) ==
    LET first == SelectInSeq(l, LAMBDA e : e.name = n)
    IN  IF first = 0 THEN <<>> ELSE SubSeq(l, first, Len(l))
WhileName(l, n) ==
    LET other == SelectInSeq(l, LAMBDA e : e.name # n)
    IN  IF other = 0 THEN l ELSE SubSeq(l, 1, other - 1)

\* The names of the first n entries, except those that are not asked for and
\* those that are the last name on the list.
listget(l, flags) ==
    LET names[n \in 0..Len(l)] ==
            IF n = 0 THEN <<>>
            ELSE IF \/ flags < 0 /\ l[n].up
                    \/ flags > 0 /\ ~l[n].up
                    \/ names[n - 1] # <<>> /\ Last(names[n - 1]) = l[n].name
            THEN names[n - 1]
            ELSE Append(names[n - 1], l[n].name)
    IN  names[Len(l)]

-----------------------------------------------------------------------------
Call ==
    /\ pc = "idle" /\ pc' = "list"
    /\ \/ fn' \in Asks \ {"listget"} /\ arg' \in Names
       \/ fn' \in Asks \cap {"listget"} /\ arg' \in {-1, 0, 1}
    /\ list' = getifaddrs /\ began' = ifs /\ seen' = {ifs}
    /\ UNCHANGED <<ifs, cut, rest, answer, nchanges>>

Read(next, got, todo) ==
    /\ pc' = next /\ answer' = got /\ rest' = todo
    /\ UNCHANGED <<ifs, cut, fn, arg, list, began, seen, nchanges>>

getall_interface_addresses ==
    /\ pc = "list" /\ fn = "getall"
    /\ LET own == SelectSeq(list, LAMBDA e : e.name = arg /\ e.fam # "link")
       IN  Read("done", AddressesOf(own), <<>>)

interface_listget == pc = "list" /\ fn = "listget" /\ Read("done", listget(list, arg), <<>>)

\* get_ifaddrs sorts the list and reads on from the first entry with the name.
get_ifaddrs ==
    /\ pc = "list" /\ fn = "get_ifaddrs"
    /\ \E from \in {FromName(sortifaddrs(list), arg)} :
        LET own == WhileName(from, arg)
            six == NameAnd(own, arg, "inet6")
        IN  IF from = <<>> THEN Read("done", None, <<>>)
            ELSE Read("mtu", [params |-> fill_interface_params(from[1]), mtu |-> None,
                              src |-> None, tunnels |-> {},
                              addrs |-> AddressesOf(NameAnd(own, arg, "inet")),
                              addrs6 |-> AddressesOf(six), flags6 |-> <<>>], six)

\* get_interface_addresses takes the first of each kind, and no link-local one.
FirstOf(l) == IF l = <<>> THEN <<>> ELSE <<l[1]>>
get_interface_addresses ==
    /\ pc = "list" /\ fn = "get_interface_addresses"
    /\ LET link == NameAnd(list, arg, "link")
           four == FirstOf(NameAnd(list, arg, "inet"))
           six  == FirstOf(SelectSeq(NameAnd(list, arg, "inet6"), LAMBDA e : ~e.addr.linklocal))
       IN  Read(IF link = <<>> THEN "done" ELSE "mtu",
                [params |-> IF link = <<>> THEN None ELSE fill_interface_params(link[1]),
                 mtu |-> None, src |-> None, tunnels |-> {},
                 addrs |-> AddressesOf(four), addrs6 |-> AddressesOf(six), flags6 |-> <<>>], six)

-----------------------------------------------------------------------------
\* The ioctls that follow name the interface; without one of that name they fail.
Asked(field) == IF Named(arg) = {} THEN None ELSE ifs[CHOOSE i \in Named(arg) : TRUE][field]
Then(next, got) ==
    /\ pc' = next /\ answer' = got
    /\ UNCHANGED <<ifs, cut, fn, arg, list, began, seen, nchanges>>

\* fill_interface_params goes on: the MTU stands for what it asks for by name,
\* the capabilities and the hardware address too
Mtu ==
    /\ pc = "mtu"
    /\ Then(IF fn = "get_ifaddrs" THEN "src4" ELSE "flags", [answer EXCEPT !.mtu = Asked("mtu")])
    /\ UNCHANGED rest

\* fill_interface_tunnel, for IPv4 and then for IPv6: both ends or none, asked
\* for one after the other
HasTunnel(af) == Asked("tunnel") # None /\ Asked("tunnel").af = af
Src(af) == IF af = 4 THEN "src4" ELSE "src6"
Dst(af) == IF af = 4 THEN "dst4" ELSE "dst6"
AfterTunnel(af) == IF af = 4 THEN "src6" ELSE "flags"
TunnelSrc(af) ==
    /\ pc = Src(af) /\ UNCHANGED rest
    /\ IF HasTunnel(af) THEN Then(Dst(af), [answer EXCEPT !.src = Asked("tunnel").src])
       ELSE Then(AfterTunnel(af), answer)
TunnelDst(af) ==
    /\ pc = Dst(af) /\ UNCHANGED rest
    /\ LET got == [af |-> af, src |-> answer.src, dst |-> Asked("tunnel").dst]
       IN  Then(AfterTunnel(af),
                [answer EXCEPT !.src = None, !.tunnels = IF HasTunnel(af) THEN @ \cup {got} ELSE @])

\* SIOCGIFAFLAG_IN6 of every IPv6 address; it fails if the address is gone
HasAddr(f, a) == \E j \in DOMAIN f.addrs : f.addrs[j].fam = "inet6" /\ f.addrs[j].addr = a
Flags ==
    /\ pc = "flags" /\ rest # <<>>
    /\ LET there == \E i \in Named(arg) : HasAddr(ifs[i], Head(rest).addr)
       IN  Then("flags", [answer EXCEPT !.flags6 = Append(@, there)])
    /\ rest' = Tail(rest)
Finish == pc = "flags" /\ rest = <<>> /\ Then("done", answer) /\ UNCHANGED rest

Return ==
    /\ pc = "done" /\ pc' = "idle" /\ fn' = None /\ arg' = None /\ list' = <<>> /\ rest' = <<>>
    /\ answer' = None /\ began' = <<>> /\ seen' = {}
    /\ UNCHANGED <<ifs, cut, nchanges>>

Caller ==
    \/ Call \/ getall_interface_addresses \/ interface_listget \/ get_ifaddrs
    \/ get_interface_addresses
    \/ Mtu \/ (\E af \in {4, 6} : TunnelSrc(af) \/ TunnelDst(af)) \/ Flags \/ Finish \/ Return
Others ==
    \/ \E n \in Names : interface_create(n)
    \/ \E i \in DOMAIN ifs :
        \/ interface_destroy(i)
        \/ \E n \in Names : interface_rename(i, n)
        \/ \E m \in {1280, 1500} : interface_mtu(i, m)
        \/ \E s \in Strings : interface_setaddress(i, s)
        \/ \E j \in DOMAIN ifs[i].addrs : interface_deladdress(i, j)
        \/ Environment(i)
Next == Caller \/ Others
Spec == Init /\ [][Next]_vars /\ WF_vars(Caller)
-----------------------------------------------------------------------------
\* What a call may have met: the interfaces of the name, or none, since it began.
Own(state) == {state[i] : i \in {i \in DOMAIN state : state[i].name = arg}}
Met(Field(_)) == {IF Own(state) = {} THEN None ELSE Field(CHOOSE f \in Own(state) : TRUE) :
                    state \in seen}
OfFamily(f, fam) == SelectSeq(f.addrs, LAMBDA a : a.fam = fam)

\* Of the addresses of an interface, its state and its hardware address a caller
\* gets what they were together at one moment, in the kernel's order and each
\* once, wherever the name stands among the others; its MTU, its tunnels and
\* the flags of its addresses are those of an interface that had the name while
\* the call ran, and if nothing changed they are the interface's.
AllAddresses ==
    fn = "getall" =>
        answer = FlattenSeq([i \in DOMAIN began |->
                    IF began[i].name = arg THEN AddressesOf(began[i].addrs) ELSE <<>>])
AddressesRight ==
    pc = "done" => AllAddresses /\ (fn \in {"get_ifaddrs", "get_interface_addresses"} =>
        LET f == CHOOSE f \in Own(began) : TRUE
            tunnels == Met(LAMBDA g : g.tunnel) \ {None}
        IN  IF Own(began) = {}
            THEN IF fn = "get_ifaddrs" THEN answer = None
                 ELSE answer.params = None /\ answer.addrs = <<>> /\ answer.addrs6 = <<>>
            ELSE /\ answer.params = [up |-> f.up, mac |-> Mac(f)]
                 /\ LET four == AddressesOf(OfFamily(f, "inet"))
                        six  == AddressesOf(OfFamily(f, "inet6"))
                        wide == SelectSeq(six, LAMBDA a : ~a.addr.linklocal)
                    IN  IF fn = "get_ifaddrs" THEN answer.addrs = four /\ answer.addrs6 = six
                        ELSE /\ answer.addrs = FirstOf(four)
                             /\ answer.addrs6 = FirstOf(wide)
                 /\ answer.mtu \in Met(LAMBDA g : g.mtu)
                 /\ Len(answer.flags6) = Len(answer.addrs6)
                 /\ \A t \in answer.tunnels : \E a, b \in tunnels :
                        a.af = t.af /\ a.src = t.src /\ b.af = t.af /\ b.dst = t.dst
                 /\ seen = {began} =>
                        /\ fn = "get_ifaddrs" => answer.tunnels = {f.tunnel} \ {None}
                        /\ \A n \in DOMAIN answer.flags6 : answer.flags6[n])

\* A list of the interfaces has every interface that is up, down or either, as
\* the caller asked, once.
ListsRight ==
    pc = "done" /\ fn = "listget" =>
        LET want == SelectSeq(began, LAMBDA f : (arg < 0 => ~f.up) /\ (arg > 0 => f.up))
        IN  answer = [n \in DOMAIN want |-> want[n].name]

\* A call always returns.
Returns == []<>(pc = "idle")
===============================================================================
