--------------------------- MODULE CloudInitProofs ---------------------------
(***************************************************************************)
(* For any number of instances, keys, faults and acts of the administrator *)
(* the phases of freesense_cloud_init.py give no access they should not    *)
(* give, and a re-apply keeps the administrator's password and brings the  *)
(* keys that came late. The invariant says what the running phase has read *)
(* and not yet written, and that the state file, which decides what a      *)
(* re-apply is, is about the configuration except between the two writes.  *)
(***************************************************************************)
EXTENDS CloudInit, FiniteSetTheorems, TLAPS

-----------------------------------------------------------------------------
(* The inductive invariant                                                 *)
Conf ==
    [inst : Instances \cup {None}, pw : {"image", "locked", "admin"},
     keys : SUBSET Keys, rule : {"none", "any", "cidrs"}, node : BOOLEAN]

\* A configuration that gives no access it should not give (ImageLocked,
\* RuleHasKeys).
Good(c) ==
    /\ c \in Conf
    /\ c.inst # None => c.pw # "image"
    /\ c.rule # "none" => c.keys # {}

States == [inst : Instances, count : 0..Cardinality(Keys), cidrs : BOOLEAN]

\* What a phase holds at each of its steps.
Read == [pc : {"decide", "state"}, final : BOOLEAN, meta : Meta]
Changed == [pc : {"config"}, final : BOOLEAN, meta : Meta, new : Conf]
Written == [pc : {"keys", "seed"}, final : BOOLEAN, meta : Meta, node : BOOLEAN]
Over == [pc : {"activate"}, keys : SUBSET Keys]

PhaseOK ==
    /\ phase = Idle \/ phase \in Read \/ phase \in Changed \/ phase \in Written \/ phase \in Over
    /\ phase.pc = "config" =>
         /\ Good(phase.new) /\ phase.new.inst = phase.meta.inst
         /\ phase.meta.keys # {} => phase.new.keys # {}

FilesOK == Good(conf) /\ file \subseteq Keys /\ seed \in BOOLEAN

KeptOK == kept \in [conf : Conf, file : SUBSET Keys, seed : BOOLEAN] /\ Good(kept.conf)

StateOK == state \in States \cup {None}

CountsOK == joined \in BOOLEAN /\ faults \in 0..MaxFaults /\ acts \in 0..MaxAdmin

\* Once the firewall has joined, its configuration says so, and so does what a
\* phase has read of it.
JoinKnown ==
    joined /\ odd = {} =>
        /\ conf.node /\ ~seed
        /\ phase.pc = "config" => phase.new.node
        /\ phase.pc \in {"keys", "seed"} => phase.node

\* The state file is about the configuration, except between the two writes.
Recorded ==
    faults = 0 /\ "kept" \notin odd =>
        /\ conf.inst # None /\ phase.pc \notin {"keys", "seed", "state"} =>
             AppliedBefore(conf.inst) /\ (state.count # 0 => conf.keys # {})
        /\ phase.pc \in {"keys", "seed", "state"} =>
             conf.inst = phase.meta.inst /\ (phase.meta.keys # {} => conf.keys # {})
        /\ phase.pc = "activate" /\ phase.keys # {} => conf.keys # {}

\* What a phase is about to write keeps the administrator's password.
Carried ==
    odd \cap {"busy", "kept"} = {} /\ faults = 0 =>
        (phase.pc = "config" /\ conf.pw = "admin" /\ conf.inst = phase.new.inst
            => phase.new.pw = "admin")

Types == FilesOK /\ KeptOK /\ StateOK /\ PhaseOK /\ CountsOK

CloudInv == Types /\ JoinKnown /\ Recorded /\ Carried

-----------------------------------------------------------------------------
(* Lemmas about the definitions                                            *)

\* The record of a phase has the fields of its step.
LEMMA Shape ==
    ASSUME PhaseOK
    PROVE  /\ phase.pc = "idle" => phase = Idle
           /\ phase.pc \in {"decide", "state"} => phase \in Read
           /\ phase.pc = "config" => phase \in Changed
           /\ phase.pc \in {"keys", "seed"} => phase \in Written
           /\ phase.pc = "activate" => phase \in Over
BY DEF PhaseOK, Idle, Read, Changed, Written, Over

\* The keys that are counted.
LEMMA Counted ==
    ASSUME NEW S \in SUBSET Keys
    PROVE  /\ Cardinality(S) \in 0..Cardinality(Keys)
           /\ Cardinality(S) # 0 => S # {}
<1>1. IsFiniteSet(Keys)  BY CloudAssumption
<1>2. IsFiniteSet(S) /\ Cardinality(S) <= Cardinality(Keys)  BY <1>1, FS_Subset
<1>3. Cardinality(S) \in Nat /\ Cardinality(Keys) \in Nat  BY <1>1, <1>2, FS_CardinalityType
<1>4. Cardinality(S) # 0 => S # {}  BY FS_EmptySet
<1> QED  BY <1>2, <1>3, <1>4

\* What a phase makes of a configuration gives no access it should not give.
LEMMA NewConfGood ==
    ASSUME NEW m \in Meta, Good(conf)
    PROVE  /\ Good(NewConf(m)) /\ NewConf(m).inst = m.inst
           /\ m.keys # {} => NewConf(m).keys # {}
           /\ NewConf(m).node = conf.node
<1>1. m.inst \in Instances /\ m.inst # None /\ m.keys \in SUBSET Keys
  BY CloudAssumption DEF Meta
<1>2. Rule(m) \in {"none", "any", "cidrs"} /\ (Rule(m) # "none" => m.keys # {})
  BY DEF Rule
<1>3. (IF KeepsPassword(m) THEN conf.pw ELSE "locked") \in {"locked", "admin"}
  BY <1>1 DEF Good, Conf, KeepsPassword
<1> QED  BY <1>1, <1>2, <1>3 DEF NewConf, Good, Conf

-----------------------------------------------------------------------------
(* One lemma per action                                                    *)

\* The image, before its first boot.
LEMMA Started == Init => CloudInv
<1> SUFFICES ASSUME Init PROVE CloudInv  OBVIOUS
<1>1. Good(ImageConf)  BY DEF Good, Conf, ImageConf
<1>2. FilesOK /\ KeptOK /\ StateOK /\ PhaseOK
  BY <1>1, Zenon DEF Init, Image, Idle, FilesOK, KeptOK, StateOK, PhaseOK, Good
<1>3. MaxFaults \in Nat /\ MaxAdmin \in Nat  BY CloudAssumption
<1>4. faults \in 0..MaxFaults /\ acts \in 0..MaxAdmin  BY <1>3 DEF Init
<1>5. CountsOK  BY <1>4, Zenon DEF Init, CountsOK
<1>6. JoinKnown /\ Recorded /\ Carried
  BY DEF Init, ImageConf, Idle, JoinKnown, Recorded, Carried
<1> QED  BY <1>2, <1>5, <1>6 DEF CloudInv, Types

\* A phase is started.
LEMMA BeginKeeps ==
    ASSUME CloudInv, NEW m \in Meta, NEW declared \in BOOLEAN, NEW final \in BOOLEAN,
           Begin(m, declared, final)
    PROVE  CloudInv'
<1> USE DEF CloudInv, Types
<1>1. phase' = [pc |-> "decide", final |-> final, meta |-> m] /\ phase = Idle
  BY Shape DEF Begin
<1>2. phase' \in Read /\ phase'.pc = "decide"  BY <1>1 DEF Read
<1>3. UNCHANGED <<conf, file, seed, state, kept, joined, acts, odd, faults>>
  BY DEF Begin, files, history
<1>4. PhaseOK'  BY <1>2 DEF PhaseOK
<1>5. (FilesOK /\ KeptOK /\ StateOK /\ CountsOK)'
  BY <1>3 DEF FilesOK, KeptOK, StateOK, CountsOK
<1>6. JoinKnown' /\ Carried'  BY <1>2, <1>3 DEF JoinKnown, Carried
<1>7. Recorded'  BY <1>1, <1>2, <1>3 DEF Recorded, Idle, AppliedBefore
<1> QED  BY <1>4, <1>5, <1>6, <1>7

\* The phase is over: nothing of it is left to write.
LEMMA LeaveKeeps ==
    ASSUME CloudInv, phase \in Read, Leave, FilesOK', KeptOK', StateOK', CountsOK',
           JoinKnown, UNCHANGED <<conf, seed, joined, odd, faults>>,
           faults = 0 /\ "kept" \notin odd =>
               /\ phase.meta.keys # {} => conf.keys # {}
               /\ conf.inst # None => AppliedBefore(conf.inst)' /\ (state'.count # 0 => conf.keys # {})
    PROVE  CloudInv'
<1>1. \/ phase' = [pc |-> "activate", keys |-> phase.meta.keys]
      \/ phase' = Idle
  BY DEF Leave
<1>2. phase.meta.keys \in SUBSET Keys  BY DEF Read, Meta
<1>3. PhaseOK'  BY <1>1, <1>2 DEF PhaseOK, Over, Idle
<1>4. phase'.pc \in {"activate", "idle"}  BY <1>1 DEF Idle
<1>5. JoinKnown' /\ Carried'  BY <1>4 DEF JoinKnown, Carried
<1>6. phase'.pc = "activate" => phase'.keys = phase.meta.keys  BY <1>1 DEF Idle
<1>7. Recorded'  BY <1>4, <1>6 DEF Recorded, AppliedBefore
<1> QED  BY <1>3, <1>5, <1>7 DEF CloudInv, Types

\* A phase that skips has nothing to bring: its keys are in the configuration.
LEMMA DecideKeeps ==
    ASSUME CloudInv, Decide
    PROVE  CloudInv'
<1> USE DEF CloudInv, Types
<1>1. phase \in Read /\ phase.pc = "decide"  BY Shape DEF Decide
<1>2. UNCHANGED <<conf, file, seed, state, kept, joined, acts, odd, faults>>
  BY DEF Decide, files, history
<1>3. (FilesOK /\ KeptOK /\ StateOK /\ CountsOK)'
  BY <1>2 DEF FilesOK, KeptOK, StateOK, CountsOK
<1>4. phase.meta \in Meta /\ phase.meta.inst \in Instances /\ phase.meta.inst # None
  BY <1>1, CloudAssumption DEF Read, Meta
<1>5. CASE ShouldSkip(phase.meta) /\ Leave
  <2>1. faults = 0 /\ "kept" \notin odd => (phase.meta.keys # {} => conf.keys # {})
    BY <1>1, <1>4, <1>5 DEF Recorded, ShouldSkip
  <2>2. faults = 0 /\ "kept" \notin odd =>
          (conf.inst # None => AppliedBefore(conf.inst)' /\ (state'.count # 0 => conf.keys # {}))
    BY <1>1, <1>2 DEF Recorded, AppliedBefore
  <2> QED  BY <1>1, <1>2, <1>3, <1>5, <2>1, <2>2, LeaveKeeps
<1>6. CASE phase' = [pc |-> "config", final |-> phase.final,
                     meta |-> [phase.meta EXCEPT !.single = FALSE],
                     new |-> NewConf(phase.meta)]
  <2> DEFINE m == [phase.meta EXCEPT !.single = FALSE]
  <2>1. m \in Meta /\ m.inst = phase.meta.inst /\ m.keys = phase.meta.keys
    BY <1>4, Zenon DEF Meta
  <2>2. /\ Good(NewConf(phase.meta)) /\ NewConf(phase.meta).inst = phase.meta.inst
        /\ phase.meta.keys # {} => NewConf(phase.meta).keys # {}
        /\ NewConf(phase.meta).node = conf.node
    BY <1>4, NewConfGood DEF FilesOK
  <2>3. phase.final \in BOOLEAN  BY <1>1 DEF Read
  <2> HIDE DEF m
  <2>4. phase' = [pc |-> "config", final |-> phase.final, meta |-> m, new |-> NewConf(phase.meta)]
    BY <1>6 DEF m
  <2>5. phase' \in Changed  BY <2>1, <2>2, <2>3, <2>4 DEF Changed, Good
  <2>6. phase'.pc = "config" /\ phase'.meta = m /\ phase'.new = NewConf(phase.meta)  BY <2>4
  <2>7. PhaseOK'  BY <2>1, <2>2, <2>5, <2>6 DEF PhaseOK, Good
  <2>8. JoinKnown'  BY <1>2, <2>2, <2>6 DEF JoinKnown
  <2>9. Recorded'  BY <1>1, <1>2, <2>6 DEF Recorded, AppliedBefore
  <2>10. Carried'
    <3> SUFFICES ASSUME odd' \cap {"busy", "kept"} = {}, faults' = 0,
                        conf'.pw = "admin", conf'.inst = phase'.new.inst
                 PROVE  phase'.new.pw = "admin"
      BY DEF Carried
    <3>1. conf.inst = phase.meta.inst /\ conf.pw = "admin"  BY <1>2, <2>2, <2>6
    <3>2. faults = 0 /\ "kept" \notin odd  BY <1>2
    <3>3. AppliedBefore(phase.meta.inst)  BY <1>1, <1>4, <3>1, <3>2 DEF Recorded
    <3>4. KeepsPassword(phase.meta)  BY <3>1, <3>3 DEF KeepsPassword
    <3> QED  BY <2>6, <3>1, <3>4 DEF NewConf
  <2> QED  BY <1>3, <2>7, <2>8, <2>9, <2>10
<1> QED  BY <1>5, <1>6 DEF Decide

\* config.xml is replaced.
LEMMA WriteConfigKeeps ==
    ASSUME CloudInv, WriteConfig
    PROVE  CloudInv'
<1> USE DEF CloudInv, Types
<1>1. phase \in Changed /\ phase.pc = "config"  BY Shape DEF WriteConfig
<1>2. /\ conf' = phase.new
      /\ UNCHANGED <<file, seed, state, kept, joined, acts, odd, faults>>
  BY DEF WriteConfig, history
<1>3. phase' = [pc |-> "keys", final |-> phase.final, meta |-> phase.meta, node |-> phase.new.node]
  BY DEF WriteConfig
<1>4. /\ phase.final \in BOOLEAN /\ phase.meta \in Meta /\ phase.new \in Conf
      /\ phase.new.node \in BOOLEAN
  BY <1>1 DEF Changed, Conf
<1>5. /\ phase' \in Written /\ phase'.pc = "keys" /\ phase'.meta = phase.meta
      /\ phase'.node = phase.new.node
  BY <1>3, <1>4 DEF Written
<1>6. PhaseOK'  BY <1>5 DEF PhaseOK
<1>7. Good(phase.new) /\ phase.new.inst = phase.meta.inst
      /\ (phase.meta.keys # {} => phase.new.keys # {})
  BY <1>1 DEF PhaseOK
<1>8. (FilesOK /\ KeptOK /\ StateOK /\ CountsOK)'
  BY <1>2, <1>7 DEF FilesOK, KeptOK, StateOK, CountsOK, Good
<1>9. JoinKnown' /\ Carried'  BY <1>1, <1>2, <1>5 DEF JoinKnown, Carried
<1>10. Recorded'  BY <1>2, <1>5, <1>7 DEF Recorded
<1> QED  BY <1>6, <1>8, <1>9, <1>10

\* authorized_keys is replaced.
LEMMA WriteKeysKeeps ==
    ASSUME CloudInv, WriteKeys
    PROVE  CloudInv'
<1> USE DEF CloudInv, Types
<1>1. phase \in Written /\ phase.pc = "keys"  BY Shape DEF WriteKeys
<1>2. /\ file' = phase.meta.keys
      /\ UNCHANGED <<conf, seed, state, kept, joined, acts, odd, faults>>
  BY DEF WriteKeys, history
<1>3. phase' = [phase EXCEPT !.pc = "seed"]  BY DEF WriteKeys, Goto
<1>4. /\ phase' \in Written /\ phase'.pc = "seed" /\ phase'.meta = phase.meta
      /\ phase'.node = phase.node
  BY <1>1, <1>3 DEF Written
<1>5. PhaseOK'  BY <1>4 DEF PhaseOK
<1>6. phase.meta.keys \in SUBSET Keys  BY <1>1 DEF Written, Meta
<1>7. (FilesOK /\ KeptOK /\ StateOK /\ CountsOK)'
  BY <1>2, <1>6 DEF FilesOK, KeptOK, StateOK, CountsOK
<1>8. JoinKnown' /\ Carried'  BY <1>1, <1>2, <1>4 DEF JoinKnown, Carried
<1>9. Recorded'  BY <1>1, <1>2, <1>4 DEF Recorded
<1> QED  BY <1>5, <1>7, <1>8, <1>9

\* A seed is not written where the configuration says that the firewall joined.
LEMMA WriteSeedKeeps ==
    ASSUME CloudInv, WriteSeed
    PROVE  CloudInv'
<1> USE DEF CloudInv, Types
<1>1. phase \in Written /\ phase.pc = "seed"  BY Shape DEF WriteSeed
<1>2. /\ seed' = (seed \/ WantsSeed)
      /\ UNCHANGED <<conf, file, state, kept, joined, acts, odd, faults>>
  BY DEF WriteSeed, history
<1> DEFINE m == [phase.meta EXCEPT !.fleet = FALSE]
<1>3. phase.final \in BOOLEAN /\ m \in Meta /\ m.inst = phase.meta.inst /\ m.keys = phase.meta.keys
  BY <1>1, Zenon DEF Written, Meta
<1> HIDE DEF m
<1>4. phase' = [pc |-> "state", final |-> phase.final, meta |-> m]  BY DEF WriteSeed, m
<1>5. phase' \in Read /\ phase'.pc = "state" /\ phase'.meta = m  BY <1>3, <1>4 DEF Read
<1>6. PhaseOK'  BY <1>5 DEF PhaseOK
<1>7. seed' \in BOOLEAN  BY <1>2
<1>8. (FilesOK /\ KeptOK /\ StateOK /\ CountsOK)'
  BY <1>2, <1>7 DEF FilesOK, KeptOK, StateOK, CountsOK
<1>9. joined /\ odd = {} => conf.node /\ ~seed'
  BY <1>1, <1>2, Zenon DEF JoinKnown, WantsSeed
<1>10. JoinKnown' /\ Carried'  BY <1>2, <1>5, <1>9 DEF JoinKnown, Carried
<1>11. Recorded'  BY <1>1, <1>2, <1>3, <1>5 DEF Recorded
<1> QED  BY <1>6, <1>8, <1>10, <1>11

\* The state file is replaced; it is about the configuration again.
LEMMA WriteStateKeeps ==
    ASSUME CloudInv, WriteState
    PROVE  CloudInv'
<1> USE DEF CloudInv, Types
<1>1. phase \in Read /\ phase.pc = "state"  BY Shape DEF WriteState
<1>2. UNCHANGED <<conf, file, seed, kept, joined, acts, odd, faults>>
  BY DEF WriteState, files, history
<1>3. state' = [inst |-> phase.meta.inst, count |-> Cardinality(phase.meta.keys),
                cidrs |-> phase.meta.cidrs]
  BY DEF WriteState
<1>4. phase.meta.inst \in Instances /\ phase.meta.keys \in SUBSET Keys /\ phase.meta.cidrs \in BOOLEAN
  BY <1>1 DEF Read, Meta
<1>5. /\ Cardinality(phase.meta.keys) \in 0..Cardinality(Keys)
      /\ Cardinality(phase.meta.keys) # 0 => phase.meta.keys # {}
  BY <1>4, Counted
<1>6. state' \in States  BY <1>3, <1>4, <1>5 DEF States
<1>7. (FilesOK /\ KeptOK /\ StateOK /\ CountsOK)'
  BY <1>2, <1>6 DEF FilesOK, KeptOK, StateOK, CountsOK
<1>8. faults = 0 /\ "kept" \notin odd =>
        conf.inst = phase.meta.inst /\ (phase.meta.keys # {} => conf.keys # {})
  BY <1>1 DEF Recorded
<1>9. state' # None
  <2>1. Cardinality(phase.meta.keys) \in Nat  BY <1>5
  <2> QED  BY <1>3, <1>4, <2>1, CloudAssumption
<1>10. state'.inst = phase.meta.inst /\ state'.count = Cardinality(phase.meta.keys)  BY <1>3
<1>11. faults = 0 /\ "kept" \notin odd =>
         /\ phase.meta.keys # {} => conf.keys # {}
         /\ conf.inst # None => AppliedBefore(conf.inst)' /\ (state'.count # 0 => conf.keys # {})
  BY <1>2, <1>5, <1>8, <1>9, <1>10 DEF AppliedBefore
<1> QED  BY <1>1, <1>2, <1>7, <1>11, LeaveKeeps DEF WriteState

\* The accounts are reset from the configuration.
LEMMA ActivateKeeps ==
    ASSUME CloudInv, Activate
    PROVE  CloudInv'
<1> USE DEF CloudInv, Types
<1>1. phase.pc = "activate" /\ phase' = Idle /\ phase'.pc = "idle"  BY DEF Activate, Idle
<1>2. /\ file' = conf.keys
      /\ UNCHANGED <<conf, seed, state, kept, joined, acts, odd, faults>>
  BY DEF Activate, history
<1>3. PhaseOK'  BY <1>1 DEF PhaseOK
<1>4. conf.keys \subseteq Keys  BY DEF FilesOK, Good, Conf
<1>5. (FilesOK /\ KeptOK /\ StateOK /\ CountsOK)'
  BY <1>2, <1>4 DEF FilesOK, KeptOK, StateOK, CountsOK
<1>6. JoinKnown' /\ Carried'  BY <1>1, <1>2 DEF JoinKnown, Carried
<1>7. Recorded'  BY <1>1, <1>2 DEF Recorded, AppliedBefore
<1> QED  BY <1>3, <1>5, <1>6, <1>7

\* A fault may leave a configuration that the state file is not about.
LEMMA FailKeeps ==
    ASSUME CloudInv, Fail
    PROVE  CloudInv'
<1> USE DEF CloudInv, Types
<1>1. phase' = Idle /\ phase'.pc = "idle"  BY DEF Fail, Idle
<1>2. UNCHANGED <<conf, file, seed, state, kept, joined, acts, odd>>
  BY DEF Fail, files, history
<1>3. MaxFaults \in Nat  BY CloudAssumption
<1>4. faults' \in 0..MaxFaults /\ faults' # 0  BY <1>3 DEF Fail, CountsOK
<1>5. PhaseOK'  BY <1>1 DEF PhaseOK
<1>6. (FilesOK /\ KeptOK /\ StateOK)'  BY <1>2 DEF FilesOK, KeptOK, StateOK
<1>7. CountsOK'  BY <1>2, <1>4 DEF CountsOK
<1>8. JoinKnown'  BY <1>1, <1>2 DEF JoinKnown
<1>9. Recorded' /\ Carried'  BY <1>4 DEF Recorded, Carried
<1> QED  BY <1>5, <1>6, <1>7, <1>8, <1>9

\* What an act of the administrator leaves alone. One during a phase is noted.
LEMMA Acted ==
    ASSUME CloudInv, NEW as, Acts(as), UNCHANGED kept, joined' \in BOOLEAN
    PROVE  /\ (StateOK /\ PhaseOK /\ CountsOK /\ KeptOK)'
           /\ as \subseteq odd' /\ odd \subseteq odd'
           /\ phase.pc # "idle" => "busy" \in odd'
           /\ UNCHANGED <<state, phase, faults>>
<1>1. UNCHANGED <<state, phase, faults>>  BY DEF Acts
<1>2. (StateOK /\ PhaseOK /\ KeptOK)'
  BY <1>1 DEF CloudInv, Types, StateOK, PhaseOK, KeptOK, Good
<1>3. MaxAdmin \in Nat /\ MaxFaults \in Nat  BY CloudAssumption
<1>4. acts' \in 0..MaxAdmin  BY <1>3 DEF Acts, CloudInv, Types, CountsOK
<1>5. CountsOK'  BY <1>1, <1>4 DEF CloudInv, Types, CountsOK
<1> QED  BY <1>1, <1>2, <1>5, Zenon DEF Acts

\* The administrator sets the password.
LEMMA SetPasswordKeeps ==
    ASSUME CloudInv, SetPassword
    PROVE  CloudInv'
<1> USE DEF CloudInv, Types
<1>1. /\ conf' = [conf EXCEPT !.pw = "admin"]
      /\ UNCHANGED <<file, seed, kept, joined>> /\ Acts({})
  BY DEF SetPassword
<1>2. /\ (StateOK /\ PhaseOK /\ CountsOK /\ KeptOK)'
      /\ odd \subseteq odd' /\ (phase.pc # "idle" => "busy" \in odd')
      /\ UNCHANGED <<state, phase, faults>>
  BY <1>1, Acted DEF CountsOK
<1>3. /\ conf' \in Conf /\ conf'.pw = "admin" /\ conf'.inst = conf.inst
      /\ conf'.keys = conf.keys /\ conf'.rule = conf.rule /\ conf'.node = conf.node
  BY <1>1 DEF FilesOK, Good, Conf
<1>4. FilesOK'  BY <1>1, <1>3 DEF FilesOK, Good
<1>5. JoinKnown'
  <2>1. odd' = {} => odd = {}  BY <1>2
  <2> QED  BY <1>1, <1>2, <1>3, <2>1 DEF JoinKnown
<1>6. Recorded'
  <2>1. "kept" \notin odd' => "kept" \notin odd  BY <1>2
  <2> QED  BY <1>2, <1>3, <2>1 DEF Recorded, AppliedBefore
<1>7. Carried'
  <2>1. phase'.pc = "config" => "busy" \in odd'  BY <1>2
  <2> QED  BY <2>1 DEF Carried
<1> QED  BY <1>2, <1>4, <1>5, <1>6, <1>7

\* First boot uses the seed. It is noted if a phase has read the configuration.
LEMMA JoinKeeps ==
    ASSUME CloudInv, Join
    PROVE  CloudInv'
<1> USE DEF CloudInv, Types
<1>1. /\ conf' = [conf EXCEPT !.node = TRUE] /\ seed' = FALSE /\ joined' = TRUE
      /\ UNCHANGED <<file, kept>> /\ Acts({})
  BY DEF Join
<1>2. joined' \in BOOLEAN /\ seed' \in BOOLEAN  BY <1>1, Zenon
<1>3. /\ (StateOK /\ PhaseOK /\ CountsOK /\ KeptOK)'
      /\ odd \subseteq odd' /\ (phase.pc # "idle" => "busy" \in odd')
      /\ UNCHANGED <<state, phase, faults>>
  BY <1>1, <1>2, Acted
<1>4. /\ conf' \in Conf /\ conf'.pw = conf.pw /\ conf'.inst = conf.inst
      /\ conf'.keys = conf.keys /\ conf'.rule = conf.rule /\ conf'.node = TRUE
  BY <1>1, Zenon DEF FilesOK, Good, Conf
<1>5. FilesOK'  BY <1>1, <1>2, <1>4 DEF FilesOK, Good
<1>6. phase.pc = "idle" \/ "busy" \in odd'  BY <1>3
<1>7. JoinKnown'  BY <1>1, <1>3, <1>4, <1>6 DEF JoinKnown
<1>8. Recorded'
  <2>1. "kept" \notin odd' => "kept" \notin odd  BY <1>3
  <2> QED  BY <1>3, <1>4, <2>1 DEF Recorded, AppliedBefore
<1>9. Carried'
  <2>1. phase'.pc = "config" => "busy" \in odd'  BY <1>3
  <2> QED  BY <2>1 DEF Carried
<1> QED  BY <1>3, <1>5, <1>7, <1>8, <1>9

\* A boot environment is kept.
LEMMA SnapshotKeeps ==
    ASSUME CloudInv, Snapshot
    PROVE  CloudInv'
<1> USE DEF CloudInv, Types
<1>1. /\ kept' = [conf |-> conf, file |-> file, seed |-> seed]
      /\ UNCHANGED <<conf, file, seed, joined, state, phase, faults>> /\ phase.pc = "idle"
      /\ acts + faults < MaxAdmin /\ acts' = acts + 1 /\ odd' = odd
  BY DEF Snapshot, Acts, files
<1>2. KeptOK'  BY <1>1 DEF KeptOK, FilesOK, Good
<1>3. MaxAdmin \in Nat /\ MaxFaults \in Nat  BY CloudAssumption
<1>4. acts' \in 0..MaxAdmin  BY <1>1, <1>3 DEF CountsOK
<1>5. CountsOK'  BY <1>1, <1>4 DEF CountsOK
<1>6. (FilesOK /\ StateOK /\ PhaseOK)'  BY <1>1 DEF FilesOK, StateOK, PhaseOK
<1>7. (JoinKnown /\ Recorded /\ Carried)'
  BY <1>1 DEF JoinKnown, Recorded, Carried, AppliedBefore
<1> QED  BY <1>2, <1>5, <1>6, <1>7

\* The image was never provisioned; of a kept environment it is noted that the
\* state file may not be about it.
LEMMA RollbackKeeps ==
    ASSUME CloudInv, Rollback
    PROVE  CloudInv'
<1> USE DEF CloudInv, Types
<1>1. PICK e \in {Image, kept} :
         /\ conf' = e.conf /\ file' = e.file /\ seed' = e.seed
         /\ Acts({IF e = Image THEN "image" ELSE "kept"})
  BY DEF Rollback
<1>2. phase.pc = "idle" /\ UNCHANGED <<kept, joined>>  BY DEF Rollback
<1> DEFINE as == {IF e = Image THEN "image" ELSE "kept"}
<1>3. Acts(as)  BY <1>1
<1>4. as \in {{"image"}, {"kept"}} /\ (as = {"image"} => e = Image)  OBVIOUS
<1> HIDE DEF as
<1>5. /\ (StateOK /\ PhaseOK /\ CountsOK /\ KeptOK)'
      /\ as \subseteq odd' /\ odd \subseteq odd'
      /\ UNCHANGED <<state, phase, faults>>
  BY <1>2, <1>3, Acted, Zenon DEF CountsOK
<1>6. Good(Image.conf) /\ Image.file = {} /\ Image.seed = FALSE /\ Image.conf.inst = None
  BY DEF Image, ImageConf, Good, Conf
<1>7. Good(e.conf) /\ e.file \subseteq Keys /\ e.seed \in BOOLEAN
  <2>1. CASE e = Image  BY <1>6, <2>1, Zenon
  <2>2. CASE e = kept  BY <2>2 DEF KeptOK
  <2> QED  BY <2>1, <2>2
<1>8. FilesOK'  BY <1>1, <1>7 DEF FilesOK, Good
<1>9. odd' # {}  BY <1>4, <1>5, Zenon
<1>10. JoinKnown' /\ Carried'  BY <1>2, <1>5, <1>9 DEF JoinKnown, Carried
<1>11. Recorded'
  <2>1. CASE as = {"image"}
    <3>1. conf'.inst = None  BY <1>1, <1>4, <1>6, <2>1
    <3> QED  BY <1>2, <1>5, <3>1 DEF Recorded
  <2>2. CASE as = {"kept"}
    <3>1. "kept" \in odd'  BY <1>5, <2>2
    <3> QED  BY <3>1 DEF Recorded
  <2> QED  BY <1>4, <2>1, <2>2, Zenon
<1> QED  BY <1>5, <1>8, <1>10, <1>11

-----------------------------------------------------------------------------
(* The theorems                                                            *)

\* Every step keeps the invariant.
LEMMA CloudStep == CloudInv /\ [Next]_vars => CloudInv'
<1> SUFFICES ASSUME CloudInv, [Next]_vars PROVE CloudInv'  OBVIOUS
<1>1. ASSUME NEW m \in Meta, NEW declared \in BOOLEAN, NEW final \in BOOLEAN,
             Begin(m, declared, final)
      PROVE  CloudInv'
  BY <1>1, BeginKeeps
<1>2. CASE Decide  BY <1>2, DecideKeeps
<1>3. CASE WriteConfig  BY <1>3, WriteConfigKeeps
<1>4. CASE WriteKeys  BY <1>4, WriteKeysKeeps
<1>5. CASE WriteSeed  BY <1>5, WriteSeedKeeps
<1>6. CASE WriteState  BY <1>6, WriteStateKeeps
<1>7. CASE Activate  BY <1>7, ActivateKeeps
<1>8. CASE Fail  BY <1>8, FailKeeps
<1>9. CASE SetPassword  BY <1>9, SetPasswordKeeps
<1>10. CASE Join  BY <1>10, JoinKeeps
<1>11. CASE Snapshot  BY <1>11, SnapshotKeeps
<1>12. CASE Rollback  BY <1>12, RollbackKeeps
<1>13. CASE UNCHANGED vars
  <2>1. UNCHANGED <<conf, file, seed, state, phase, kept, joined, faults, acts, odd>>
    BY <1>13 DEF vars
  <2>2. (FilesOK /\ KeptOK /\ StateOK)'
    BY <2>1 DEF CloudInv, Types, FilesOK, KeptOK, StateOK
  <2>3. (PhaseOK /\ CountsOK)'  BY <2>1 DEF CloudInv, Types, PhaseOK, CountsOK
  <2>4. (JoinKnown /\ Carried)'  BY <2>1 DEF CloudInv, JoinKnown, Carried
  <2>5. Recorded'  BY <2>1 DEF CloudInv, Recorded, AppliedBefore
  <2> QED  BY <2>2, <2>3, <2>4, <2>5 DEF CloudInv, Types
<1> QED
  BY <1>1, <1>2, <1>3, <1>4, <1>5, <1>6, <1>7, <1>8, <1>9, <1>10, <1>11, <1>12, <1>13 DEF Next

\* It holds in every behaviour.
LEMMA CloudInvariant == Spec => []CloudInv
BY Started, CloudStep, PTL DEF Spec

\* Whatever is interrupted, repeated or rolled back: a provisioned configuration
\* does not have the image's password, SSH is open only with keys to log in
\* with, and a join key that was used is not brought back (603-618, 657-677,
\* 704-713).
THEOREM AccessAlwaysSafe == Spec => []AccessSafe
<1>1. CloudInv => AccessSafe
  <2> SUFFICES ASSUME CloudInv PROVE AccessSafe  OBVIOUS
  <2>1. conf \in Conf /\ file \subseteq Keys /\ ImageLocked /\ RuleHasKeys
    BY DEF CloudInv, Types, FilesOK, Good, ImageLocked, RuleHasKeys
  <2>2. {seed, joined} \subseteq BOOLEAN
    BY DEF CloudInv, Types, FilesOK, CountsOK
  <2>3. state # None => /\ state.inst \in Instances
                        /\ state.count \in 0..Cardinality(Keys)
                        /\ state.cidrs \in BOOLEAN
    BY DEF CloudInv, Types, StateOK, States
  <2>4. faults \in 0..MaxFaults /\ acts \in 0..MaxAdmin
    BY DEF CloudInv, Types, CountsOK
  <2>5. TypeOK  BY <2>1, <2>2, <2>3, <2>4 DEF TypeOK, Conf
  <2>6. SeedUsedOnce  BY DEF CloudInv, JoinKnown, SeedUsedOnce
  <2> QED  BY <2>1, <2>5, <2>6 DEF AccessSafe
<1> QED  BY <1>1, CloudInvariant, PTL

\* A re-apply writes the administrator's password as it was, and the final phase
\* ends with keys in the admin's file if its metadata had some (603-613, 875-883).
THEOREM ReapplyAlwaysRight == Spec => ReapplyRight
<1>1. CloudInv /\ [Next]_vars => [PasswordKept /\ KeysLive]_vars
  <2> SUFFICES ASSUME CloudInv, Next PROVE PasswordKept /\ KeysLive
    OBVIOUS
  <2>1. PasswordKept
    <3> SUFFICES ASSUME odd \cap {"busy", "kept"} = {}, faults = 0,
                        conf.pw = "admin", phase.pc = "config", conf'.inst = conf.inst
                 PROVE  conf'.pw = "admin"
      BY DEF PasswordKept
    <3>1. phase.new.inst = conf.inst => phase.new.pw = "admin"
      BY DEF CloudInv, Carried
    <3>2. CASE WriteConfig  BY <3>1, <3>2 DEF WriteConfig
    <3>3. CASE Fail  BY <3>3 DEF Fail, files
    <3>4. CASE SetPassword  BY <3>4 DEF SetPassword
    <3>5. CASE Join
      <4>1. conf' = [conf EXCEPT !.node = TRUE] /\ conf \in Conf
        BY <3>5 DEF Join, CloudInv, Types, FilesOK, Good
      <4> QED  BY <4>1 DEF Conf
    <3> QED  BY <3>2, <3>3, <3>4, <3>5 DEF Next, Begin, Decide, WriteKeys, WriteSeed,
                WriteState, Activate, Snapshot, Rollback
  <2>2. KeysLive
    <3> SUFFICES ASSUME "kept" \notin odd, phase.pc = "activate", phase'.pc = "idle",
                        faults' = 0, phase.keys # {}
                 PROVE  file' # {}
      BY DEF KeysLive
    <3>1. CASE Activate
      <4>1. faults = 0 /\ file' = conf.keys  BY <3>1 DEF Activate
      <4> QED  BY <4>1 DEF CloudInv, Recorded
    <3>2. CASE Fail
      <4>1. faults' # 0  BY <3>2 DEF Fail, CloudInv, Types, CountsOK
      <4> QED  BY <4>1
    <3>3. CASE UNCHANGED phase  BY <3>3
    <3> QED  BY <3>1, <3>2, <3>3 DEF Next, Begin, Decide, WriteConfig, WriteKeys, WriteSeed,
                WriteState, SetPassword, Join, Snapshot, Rollback, Acts
  <2> QED  BY <2>1, <2>2
<1> QED  BY <1>1, CloudInvariant, PTL DEF Spec, ReapplyRight
=============================================================================
