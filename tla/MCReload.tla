------------------------------- MODULE MCReload -------------------------------
(***************************************************************************)
(* The run queue of check_reload_status for TLC, and with it the calls of  *)
(* the PHP module and the small programs that the scripts it starts make   *)
(* use of. They share no state with the queue or with each other, so in a  *)
(* behaviour one of them runs and the others stay as they start: part says *)
(* which one runs.                                                         *)
(***************************************************************************)
EXTENDS RunQueue, FiniteSets, TLC

CONSTANTS Workers, MaxCalls, MaxIoctlFaults, None, MaxList, MaxCodes

VARIABLES
    part,
    dev, vg, pc, call, got, grp, stale, unused, ncalls, nioctls,
    kfn, src, dst, net, slash, mask, kpc, ki, kj, last_src, last_dst, killed, failed,
    key, cfg, vpc, rollid, ticketcount, ticketid, out, code,
    board, pin, bpc, bi, ch, lights, status, held, unread

devices == <<dev, vg, pc, call, got, grp, stale, unused, ncalls, nioctls>>
states == <<kfn, src, dst, net, slash, mask, kpc, ki, kj, last_src, last_dst, killed, failed>>
voucher == <<key, cfg, vpc, rollid, ticketcount, ticketid, out, code>>
button == <<board, pin, bpc, bi, ch, lights, status, held, unread>>
all == <<vars, devices, states, voucher, button, part>>

-----------------------------------------------------------------------------
(* Devices: one object of each kind, every function, arguments in and out of *)
(* range.                                                                    *)

MCInitial ==
    [port |-> [pvid |-> 1, state |-> "forwarding"],
     lag |-> [members |-> {}, untagged |-> {}], mode |-> "none",
     flags |-> {"up"}, caps |-> {"rxcsum"}, member |-> {},
     vlan |-> [tag |-> 0, pcp |-> 0]]

Word(fn, obj, clear, bits) == [fn |-> fn, obj |-> obj, clear |-> clear, bits |-> bits]
Group(fn, group, vid) == [fn |-> fn, obj |-> "lag", group |-> group, vid |-> vid,
                          data |-> 0 :> "tagged" @@ 1 :> "untagged" @@ 7 :> "tagged"]

MCCalls ==
    {[fn |-> "setport", obj |-> "port", pvid |-> p] : p \in {2, 5}}
    \cup {[fn |-> "setport_state", obj |-> "port", state |-> s] : s \in {"disabled", "off"}}
    \cup {Word("interface_flags", "flags", FALSE, {"promisc"}),
          Word("interface_flags", "flags", TRUE, {"up"}),
          Word("bridge_member_flags", "member", FALSE, {"stp"}),
          Word("bridge_member_flags", "member", TRUE, {"stp"}),
          Word("interface_capabilities", "caps", FALSE, {"txcsum", "lro"}),
          Word("interface_capabilities", "caps", TRUE, {"rxcsum"})}
    \cup {[fn |-> "setmode", obj |-> "mode", mode |-> m] : m \in {"dot1q", "other"}}
    \cup {[fn |-> "vlan_create", obj |-> "vlan", tag |-> 2, pcp |-> 3]}
    \cup {Group("setlaggroup", k, 0) : k \in -1..3}
    \cup {Group("setvlangroup", k, v) : k \in -2..1, v \in {0, 2}}
    \cup {Group("setvlangroup", -1, 3), Group("setvlangroup", 3, 2)}

D == INSTANCE DeviceCalls
        WITH Initial <- MCInitial, NPorts <- 2, NVlanGroups <- 3, NLagGroups <- 2,
             MaxPvid <- 4, Supported <- {"rxcsum", "txcsum"}, Calls <- MCCalls,
             MaxFaults <- MaxIoctlFaults, nfaults <- nioctls

-----------------------------------------------------------------------------
(* States: IPv4 addresses, IPv6 addresses that share their first half, and   *)
(* one that does not.                                                        *)

A(af, hi, lo) == [af |-> af, hi |-> hi, lo |-> lo]
MCAddrs == {A("inet", 1, 0), A("inet", 2, 0),
            A("inet6", 1, 1), A("inet6", 1, 2), A("inet6", 2, 1)}

K == INSTANCE KillStates
        WITH Addrs <- MCAddrs, NoAddr <- None, fn <- kfn, pc <- kpc, i <- ki, j <- kj

-----------------------------------------------------------------------------
(* Vouchers: bytes of two bits and words of three bytes. Keys of 6, 6, 4, 5  *)
(* and 8 bits; settings that leave bits to the magic number, that leave      *)
(* none, that do not fit, and charsets with two equal characters or only one *)

RSA(n, e, d) == [n |-> n, e |-> e, d |-> d]
MCKeys == {RSA(33, 3, 7), RSA(55, 3, 27), RSA(15, 3, 3), RSA(21, 5, 5), RSA(143, 7, 103)}

Config(roll, ticket, check, magic, charset) ==
    [roll |-> roll, ticket |-> ticket, check |-> check, magic |-> magic, charset |-> charset]
MCConfigs ==
    {Config(1, 2, 1, 5, <<"0", "1">>), Config(2, 2, 1, 5, <<"0", "1">>),
     Config(1, 1, 0, 7, <<"0", "1">>), Config(2, 2, 2, 1, <<"0", "1">>),
     Config(1, 1, 1, 6, <<"0", "1", "2">>), Config(0, 1, 0, 7, <<"0", "1", "2">>),
     Config(1, 1, 1, 2, <<"0", "1", "0">>), Config(1, 1, 1, 1, <<"0">>),
     Config(32, 1, 1, 1, <<"0", "1">>)}

V == INSTANCE Voucher
        WITH ByteBits <- 2, MaxKeyLen <- 3, Keys <- MCKeys, Configs <- MCConfigs, pc <- vpc

B == INSTANCE ResetButton WITH Samples <- 20, Blinks <- 5, pc <- bpc, i <- bi

-----------------------------------------------------------------------------
InitAll ==
    /\ part \in {"queue", "devices", "states", "voucher", "button"}
    /\ Init /\ D!Init
    /\ K!Init /\ (part # "states" => kfn = "kill_states" /\ Len(src) = 1 /\ src[1].lo = 0 /\ src[1].hi = 1 /\ dst = None)
    /\ V!Init /\ (part # "voucher" => key.n = 15 /\ cfg.magic = 6)
    /\ B!Init /\ (part # "button" => board = "wrap" /\ lights = 0)

NextAll ==
    \/ part = "queue" /\ Next /\ UNCHANGED <<devices, states, voucher, button, part>>
    \/ part = "devices" /\ D!Next /\ UNCHANGED <<vars, states, voucher, button, part>>
    \/ part = "states" /\ K!Next /\ UNCHANGED <<vars, devices, voucher, button, part>>
    \/ part = "voucher" /\ V!Next /\ UNCHANGED <<vars, devices, states, button, part>>
    \/ part = "button" /\ B!Next /\ UNCHANGED <<vars, devices, states, voucher, part>>

\* Only the queue has timers to fire; while it is empty none is pending.
FairAll == InitAll /\ [][NextAll]_all /\ TimersFire

-----------------------------------------------------------------------------
\* The loop of run_command: entry by entry, adding up aggregate until the sum
\* exceeds 1.  Returns <<index of the entry it stops at or 0, sum>>.
RECURSIVE ScanFrom(_, _, _)
ScanFrom(c, k, sum) ==
    IF k > Len(cmds) THEN <<0, sum>>
    ELSE IF ~(c \in Aggregate /\ cmds[k].command = c) THEN ScanFrom(c, k + 1, sum)
    ELSE IF sum + cmds[k].aggregate > 1 THEN <<k, sum + cmds[k].aggregate>>
    ELSE ScanFrom(c, k + 1, sum + cmds[k].aggregate)

\* In every reachable queue, StopsAt and SumBefore describe exactly where the
\* scan loop of run_command stops and with which sum.
ScanIsTheLoop ==
    \A c \in Commands :
        LET r == ScanFrom(c, 1, 0) IN
        IF r[1] = 0
        THEN /\ ~Crosses(c, Len(cmds))
             /\ r[2] = SumBefore(c, Len(cmds) + 1)
        ELSE /\ StopsAt(c, r[1])
             /\ r[2] = SumBefore(c, r[1]) + cmds[r[1]].aggregate

\* A call of the PHP module undoes what another worker has set only if that was
\* written between its reading and its writing; setvlangroup takes the first
\* unused group, and one in use only if it was taken after it was found
\* (DeviceCalls). kill_states kills all states it is asked to kill and no others
\* (KillStates).
CallsRight ==
    /\ [][D!SetsOwnField /\ D!TakesUnused]_devices
    /\ []K!KillsAsked

\* Printed vouchers are accepted with their own roll and ticket, and a code that
\* is accepted is that of a voucher (Voucher).
VouchersSound == V!VouchersSound

\* Factory defaults are loaded only if the button was held (ResetButton).
ResetOnlyIfHeld == B!ResetOnlyIfHeld
===============================================================================
