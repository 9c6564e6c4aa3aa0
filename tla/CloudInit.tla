----------------------------- MODULE CloudInit -----------------------------
(***************************************************************************)
(* freesense_cloud_init.py: each boot runs an early and a final phase that *)
(* query the metadata and apply it to config.xml, the admin's key file,    *)
(* the Fleet join seed and the state file, one rename after the other. The *)
(* state file is shared by the boot environments; the other files belong   *)
(* to the running one.                                                     *)
(*                                                                         *)
(* Interfaces, gateways, DNS servers, host name and time zone are written  *)
(* with the configuration and are not told apart (roles: see CloudRoles).  *)
(***************************************************************************)
EXTENDS Naturals, FiniteSets

CONSTANTS
    Instances, Keys,
    MaxFaults,      \* bound on failing writes and power losses
    MaxAdmin,       \* bound on what the administrator does, and faults
    None

ASSUME CloudAssumption ==
    /\ {MaxFaults, MaxAdmin} \subseteq Nat
    /\ IsFiniteSet(Keys)
    /\ None \notin Instances
    /\ None \notin [inst : Instances, count : Nat, cidrs : BOOLEAN]

VARIABLES
    conf,       \* config.xml
    file,       \* the keys in authorized_keys
    seed,       \* there is a Fleet join seed
    state,      \* instance.json, None if missing or unreadable
    phase,      \* the running phase
    kept,       \* files of a boot environment the administrator kept
    joined,     \* the join key was used
    faults, acts,
    odd         \* history: "busy", the administrator acted while a phase ran;
                \* "image", "kept": that boot environment was started

vars == <<conf, file, seed, state, phase, kept, joined, faults, acts, odd>>
files == <<conf, file, seed>>
history == <<kept, joined, acts, odd>>

-----------------------------------------------------------------------------
\* What the datasource may hold; "single" is a system with one interface.
Meta ==
    [inst : Instances, keys : SUBSET Keys,
     cidrs : BOOLEAN, fleet : BOOLEAN, single : BOOLEAN]

\* The image's configuration.
ImageConf ==
    [inst |-> None, pw |-> "image", keys |-> {}, rule |-> "none", node |-> FALSE]

Image == [conf |-> ImageConf, file |-> {}, seed |-> FALSE]

Idle == [pc |-> "idle"]

Init ==
    /\ conf = ImageConf /\ file = {} /\ seed = FALSE
    /\ state = None
    /\ phase = Idle
    /\ kept = Image
    /\ joined = FALSE
    /\ faults = 0 /\ acts = 0 /\ odd = {}

AppliedBefore(i) == state # None /\ state.inst = i

\* Mutant: the configuration of this boot environment is not looked at.
ShouldSkip_StateOnly(m) ==
    /\ AppliedBefore(m.inst)
    /\ ~(m.keys # {} /\ state.count = 0)
    /\ ~(m.cidrs /\ ~state.cidrs /\ m.keys # {})

ShouldSkip(m) ==
    /\ AppliedBefore(m.inst)
    /\ conf.inst = m.inst
    /\ ~(m.keys # {} /\ state.count = 0)
    /\ ~(m.cidrs /\ ~state.cidrs /\ m.keys # {})

\* Mutant: a disk that was provisioned is not locked again.
KeepsPassword_Disk(m) == AppliedBefore(m.inst)

KeepsPassword(m) == AppliedBefore(m.inst) /\ conf.inst = m.inst

\* The temporary rule that opens SSH on the only interface.
Rule(m) ==
    IF m.single /\ m.keys # {} THEN IF m.cidrs THEN "cidrs" ELSE "any"
                               ELSE "none"

\* The new configuration. Keys already in it stay if the metadata has none.
NewConf(m) ==
    [inst |-> m.inst,
     pw |-> IF KeepsPassword(m) THEN conf.pw ELSE "locked",
     keys |-> IF m.keys # {} THEN m.keys ELSE conf.keys,
     rule |-> Rule(m),
     node |-> conf.node]

-----------------------------------------------------------------------------
(* A phase                                                                 *)

Goto(pc) == phase' = [phase EXCEPT !.pc = pc]

\* The phase is over; the final one makes keys and rules live.
Leave ==
    phase' = IF phase.final THEN [pc |-> "activate", keys |-> phase.meta.keys] ELSE Idle

\* provision: metadata that does not validate, or declares keys and has none,
\* ends the phase before anything is written.
Begin(m, declared, final) ==
    /\ phase.pc = "idle"
    /\ declared => m.keys # {}
    /\ phase' = [pc |-> "decide", final |-> final, meta |-> m]
    /\ UNCHANGED <<files, state, history, faults>>

\* Skipped, or config.xml is read and changed in memory. What is not looked at
\* again is forgotten.
Decide ==
    /\ phase.pc = "decide"
    /\ \/ ShouldSkip(phase.meta) /\ Leave
       \/ /\ ~ShouldSkip(phase.meta)
          /\ phase' = [pc |-> "config", final |-> phase.final,
                       meta |-> [phase.meta EXCEPT !.single = FALSE],
                       new |-> NewConf(phase.meta)]
    /\ UNCHANGED <<files, state, history, faults>>

WriteConfig ==
    /\ phase.pc = "config"
    /\ conf' = phase.new
    /\ phase' = [pc |-> "keys", final |-> phase.final, meta |-> phase.meta,
                 node |-> phase.new.node]
    /\ UNCHANGED <<file, seed, state, history, faults>>

WriteKeys ==
    /\ phase.pc = "keys"
    /\ file' = phase.meta.keys
    /\ Goto("seed")
    /\ UNCHANGED <<conf, seed, state, history, faults>>

WantsSeed == phase.meta.fleet /\ ~phase.node

WriteSeed ==
    /\ phase.pc = "seed"
    /\ seed' = (seed \/ WantsSeed)
    /\ phase' = [pc |-> "state", final |-> phase.final,
                 meta |-> [phase.meta EXCEPT !.fleet = FALSE]]
    /\ UNCHANGED <<conf, file, state, history, faults>>

WriteState ==
    /\ phase.pc = "state"
    /\ state' = [inst |-> phase.meta.inst,
                 count |-> Cardinality(phase.meta.keys),
                 cidrs |-> phase.meta.cidrs]
    /\ Leave
    /\ UNCHANGED <<files, history, faults>>

\* activate_cloud_runtime: the accounts are reset from the configuration.
Activate ==
    /\ phase.pc = "activate"
    /\ file' = conf.keys
    /\ phase' = Idle
    /\ UNCHANGED <<conf, seed, state, history, faults>>

\* A write fails, which ends the phase, or power is lost.
Fail ==
    /\ phase.pc # "idle"
    /\ faults < MaxFaults /\ acts + faults < MaxAdmin
    /\ faults' = faults + 1
    /\ phase' = Idle
    /\ UNCHANGED <<files, state, history>>

-----------------------------------------------------------------------------
(* The administrator and first boot, outside this repository               *)

Acts(as) ==
    /\ acts + faults < MaxAdmin
    /\ acts' = acts + 1
    /\ odd' = odd \cup as \cup (IF phase.pc = "idle" THEN {} ELSE {"busy"})
    /\ UNCHANGED <<state, phase, faults>>

SetPassword ==
    /\ Acts({})
    /\ conf.pw # "admin"
    /\ conf' = [conf EXCEPT !.pw = "admin"]
    /\ UNCHANGED <<file, seed, kept, joined>>

\* The seed is used and removed.
Join ==
    /\ Acts({})
    /\ seed /\ seed' = FALSE
    /\ conf' = [conf EXCEPT !.node = TRUE]
    /\ joined' = TRUE
    /\ UNCHANGED <<file, kept>>

Snapshot ==
    /\ phase.pc = "idle"
    /\ Acts({})
    /\ kept' = [conf |-> conf, file |-> file, seed |-> seed]
    /\ UNCHANGED <<files, joined>>

\* A boot into another environment.
Rollback ==
    /\ phase.pc = "idle"
    /\ \E e \in {Image, kept} :
         /\ conf' = e.conf /\ file' = e.file /\ seed' = e.seed
         /\ Acts({IF e = Image THEN "image" ELSE "kept"})
    /\ UNCHANGED <<kept, joined>>

Next ==
    \/ \E m \in Meta, declared, final \in BOOLEAN : Begin(m, declared, final)
    \/ Decide \/ WriteConfig \/ WriteKeys \/ WriteSeed \/ WriteState
    \/ Activate \/ Fail
    \/ SetPassword \/ Join \/ Snapshot \/ Rollback

Spec == Init /\ [][Next]_vars

-----------------------------------------------------------------------------
\* Types.
TypeOK ==
    /\ conf \in [inst : Instances \cup {None}, pw : {"image", "locked", "admin"},
                 keys : SUBSET Keys, rule : {"none", "any", "cidrs"},
                 node : BOOLEAN]
    /\ file \subseteq Keys
    /\ {seed, joined} \subseteq BOOLEAN
    /\ state # None => /\ state.inst \in Instances
                       /\ state.count \in 0..Cardinality(Keys)
                       /\ state.cidrs \in BOOLEAN
    /\ faults \in 0..MaxFaults /\ acts \in 0..MaxAdmin

\* A configuration that was provisioned does not have the image's default
\* password, whatever boot environment it is in and whatever write failed
\* ("still locked", 603-613).
ImageLocked == conf.inst # None => conf.pw # "image"

\* SSH is opened on the WAN only with keys to log in with: "no key never
\* creates wan management" (tests/test_cloud_init.py:751; 614-618, 657-677).
\* It relates the last metadata to keys that came with earlier ones.
RuleHasKeys == conf.rule # "none" => conf.keys # {}

\* "A re-apply must not wipe a password the administrator has set since"
\* (603-607): writing the configuration of an instance over one of the same
\* instance leaves the password, unless it was set while a phase was running,
\* between the read and the replacement of config.xml, or the state file, which
\* decides what a re-apply is, is not about this configuration: a phase failed
\* between the two, or a boot environment that was kept was started.
PasswordKept ==
    odd \cap {"busy", "kept"} = {} /\ faults = 0 =>
        (conf.pw = "admin" /\ phase.pc = "config" /\ conf'.inst = conf.inst
            => conf'.pw = "admin")

\* "a re-apply never brings a used join key back" (704-706), unless the firewall
\* joined while a phase was running or another boot environment, which does not
\* know of the join, was started.
SeedUsedOnce == joined /\ odd = {} => ~seed

\* When the final phase is done, the keys of the metadata, or others, can be
\* used: "Re-apply so keys/CIDRs that were missing during early boot become
\* live" (875-876); given that no write failed before and no boot environment
\* was started that was kept before the keys came: the state file, which they
\* share, has it skipped.
KeysLive ==
    "kept" \notin odd /\ phase.pc = "activate" /\ phase'.pc = "idle" /\ faults' = 0
        => (phase.keys # {} => file' # {})

\* The access a provisioned firewall gives: no default password, SSH only with
\* keys, and no used join key.
AccessSafe == TypeOK /\ ImageLocked /\ RuleHasKeys /\ SeedUsedOnce

\* A re-apply leaves the administrator's password and brings the keys that came
\* late.
ReapplyRight == [][PasswordKept /\ KeysLive]_vars
=============================================================================
