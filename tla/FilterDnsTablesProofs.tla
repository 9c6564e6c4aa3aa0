------------------------- MODULE FilterDnsTablesProofs -------------------------
(***************************************************************************)
(* The tables of filterdns for any rules, addresses and configurations and *)
(* any number of changes and failing calls: no update is lost between a    *)
(* host and its rules, and the kernel's tables are what the rules record.  *)
(***************************************************************************)
EXTENDS FilterDnsTables, FiniteSetTheorems, TLAPS

\* While a host cycle runs that will change nothing, a rule's copy is the host's
\* list, or a wake-up is pending: what a copy sees then is one list, not a mixture.
NothingToDo ==
    \A a \in alive :
        (target[HostNameOf[a]] = hrn[HostNameOf[a]] /\ arn[a] # hrn[HostNameOf[a]])
            => ~hbusy[HostNameOf[a]] \/ tsem[a] \/ tforce[a]

\* table_update runs for a configured rule with a table.
Updating == \A a \in Rules : tpc[a] = "table" => a \in alive /\ TableOf[a] # NoTable

\* The inductive invariant.
TableInv == TableExact /\ NothingToDo /\ Updating

-----------------------------------------------------------------------------
\* A rule's host name and table are of the configuration.
LEMMA ConfFacts ==
    ASSUME TablesTypeOK, NEW a \in Rules
    PROVE  HostNameOf[a] \in Names /\ TableOf[a] \in Tables \cup {NoTable}
BY TablesAssumption DEF TablesTypeOK, HostNameOf, TableOf

\* An entry without a mask is the one action_del addresses once the host is gone.
LEMMA FullKey ==
    ASSUME NEW a, NEW x, Key(a, x, TRUE)[3] = "full"
    PROVE  Key(a, x, TRUE) = Key(a, x, FALSE)
BY DEF Key

\* In a table that one rule alone fills, only that rule addresses an entry.
LEMMA OwnTable ==
    ASSUME NEW a \in Rules, NEW b \in Rules, NEW x, NEW y,
           \A c \in Rules \ {b} : TableOf[c] # TableOf[b],
           NEW p \in BOOLEAN, NEW q \in BOOLEAN, Key(b, y, p) = Key(a, x, q)
    PROVE  b = a /\ y = x
<1>1. TableOf[b] = TableOf[a] /\ y = x
  BY DEF Key
<1>2. QED
  BY <1>1

\* A rule with a table addresses entries of the kernel's tables.
LEMMA KeyType ==
    ASSUME TablesTypeOK, NEW a \in Rules, TableOf[a] # NoTable,
           NEW x \in Addrs, NEW p \in BOOLEAN
    PROVE  Key(a, x, p) \in Keys
<1>1. TableOf[a] \in Tables
  BY ConfFacts
<1>2. QED
  BY <1>1 DEF Key, Keys

-----------------------------------------------------------------------------
(* One lemma for each kind of step *)

\* Answers change, and host cycles and rules that copy a list come and go, with
\* the tables and their records as they are.
LEMMA TablesUntouched ==
    ASSUME NoStaleEntry, TableComplete,
           UNCHANGED <<conf, alive, tbl, kt, badAdd, badDel>>
    PROVE  NoStaleEntry' /\ TableComplete'
BY DEF NoStaleEntry, TableComplete, IsWanted, Key, TableOf, HostNameOf

\* The beginning of a host cycle.
LEMMA HostBeginKeeps ==
    ASSUME TableInv, NEW h \in Names, HostBegin(h)
    PROVE  TableInv'
<1>0. /\ TablesTypeOK /\ NoLostUpdate /\ NoStaleEntry /\ TableComplete
      /\ NothingToDo /\ Updating
  BY DEF TableInv, TableExact
<1>1. /\ UNCHANGED <<conf, dns, nchg, hrn, alive, arn, tbl, tsem, tforce, tpc>>
      /\ UNCHANGED <<kt, badAdd, badDel, nfaults>>
      /\ ~hbusy[h] /\ hbusy' = [hbusy EXCEPT ![h] = TRUE]
      /\ target' = [target EXCEPT ![h] = dns[h]]
  BY DEF HostBegin, Answer, envVars, ruleVars, kernVars
<1>2. TablesTypeOK'
  BY <1>0, <1>1 DEF TablesTypeOK
<1>3. NoStaleEntry' /\ TableComplete'
  BY <1>0, <1>1, TablesUntouched
<1>4. ASSUME NEW a \in alive
      PROVE  /\ HostNameOf[a] \in Names
             /\ hbusy'[HostNameOf[a]] = IF HostNameOf[a] = h THEN TRUE ELSE hbusy[HostNameOf[a]]
             /\ HostNameOf[a] # h => target'[HostNameOf[a]] = target[HostNameOf[a]]
  <2>1. HostNameOf[a] \in Names
    BY <1>0, ConfFacts DEF TablesTypeOK
  <2>2. QED
    BY <1>0, <1>1, <2>1, Zenon DEF TablesTypeOK
<1>5. NoLostUpdate'
  BY <1>0, <1>1, <1>4 DEF NoLostUpdate, HostNameOf
<1>6. NothingToDo'
  <2> SUFFICES ASSUME NEW a \in alive,
                      target'[HostNameOf[a]] = hrn[HostNameOf[a]],
                      arn[a] # hrn[HostNameOf[a]], hbusy'[HostNameOf[a]]
               PROVE  tsem[a] \/ tforce[a]
    BY <1>1 DEF NothingToDo, HostNameOf
  <2>1. CASE HostNameOf[a] = h
    BY <1>0, <1>1, <2>1 DEF NoLostUpdate
  <2>2. CASE HostNameOf[a] # h
    BY <1>0, <1>4, <2>2, Zenon DEF NothingToDo
  <2>3. QED
    BY <2>1, <2>2
<1>7. Updating'
  BY <1>0, <1>1 DEF Updating, TableOf
<1>8. QED
  BY <1>2, <1>3, <1>5, <1>6, <1>7 DEF TableInv, TableExact

\* The end of a host cycle: rules whose copy may differ now are woken.
LEMMA HostEndKeeps ==
    ASSUME TableInv, NEW h \in Names, HostEnd(h)
    PROVE  TableInv'
<1>0. /\ TablesTypeOK /\ NoLostUpdate /\ NoStaleEntry /\ TableComplete
      /\ NothingToDo /\ Updating
  BY DEF TableInv, TableExact
<1>1. /\ UNCHANGED <<conf, dns, nchg, target, alive, arn, tbl, tforce, tpc>>
      /\ UNCHANGED <<kt, badAdd, badDel, nfaults>>
      /\ hbusy[h] /\ hbusy' = [hbusy EXCEPT ![h] = FALSE]
      /\ hrn' = [hrn EXCEPT ![h] = target[h]]
  BY DEF HostEnd, envVars, kernVars
<1>2. /\ tsem' \in [Rules -> BOOLEAN]
      /\ \A a \in Rules :
            tsem'[a] <=> tsem[a] \/ (a \in alive /\ HostNameOf[a] = h
                                       /\ (target[h] # hrn[h] \/ tforce[a]))
  <2>1. tsem' = [a \in Rules |-> tsem[a] \/ (a \in Users(h) /\ (target[h] # hrn[h] \/ tforce[a]))]
    BY DEF HostEnd
  <2>2. QED
    BY <1>0, <2>1, Zenon DEF Users, TablesTypeOK
<1>3. \A a \in Rules : tsem[a] => a \in alive
  BY <1>0 DEF TablesTypeOK
<1>4. TablesTypeOK'
  <2>1. \A a \in Rules \ alive : ~tsem'[a]
    BY <1>2, <1>3
  <2>2. hrn' \in [Names -> SUBSET Addrs] /\ hbusy' \in [Names -> BOOLEAN]
    BY <1>0, <1>1 DEF TablesTypeOK
  <2>3. QED
    BY <1>0, <1>1, <1>2, <2>1, <2>2 DEF TablesTypeOK
<1>5. NoStaleEntry' /\ TableComplete'
  BY <1>0, <1>1, TablesUntouched
<1>6. ASSUME NEW a \in alive
      PROVE  /\ a \in Rules /\ HostNameOf[a] \in Names
             /\ HostNameOf[a] = h => hrn'[HostNameOf[a]] = target[h] /\ ~hbusy'[HostNameOf[a]]
             /\ HostNameOf[a] # h => /\ hrn'[HostNameOf[a]] = hrn[HostNameOf[a]]
                                     /\ hbusy'[HostNameOf[a]] = hbusy[HostNameOf[a]]
  <2>1. a \in Rules /\ HostNameOf[a] \in Names
    BY <1>0, ConfFacts DEF TablesTypeOK
  <2>2. QED
    BY <1>0, <1>1, <2>1, Zenon DEF TablesTypeOK
<1>7. NoLostUpdate'
  <2> SUFFICES ASSUME NEW a \in alive, ~hbusy'[HostNameOf[a]], arn[a] # hrn'[HostNameOf[a]]
               PROVE  tsem'[a] \/ tforce[a]
    BY <1>1 DEF NoLostUpdate, HostNameOf
  <2>1. CASE HostNameOf[a] = h
    <3>1. CASE target[h] = hrn[h]
      BY <1>0, <1>1, <1>2, <1>6, <2>1, <3>1, Zenon DEF NothingToDo
    <3>2. CASE target[h] # hrn[h]
      BY <1>2, <1>6, <2>1, <3>2
    <3>3. QED
      BY <3>1, <3>2
  <2>2. CASE HostNameOf[a] # h
    BY <1>0, <1>2, <1>6, <2>2 DEF NoLostUpdate
  <2>3. QED
    BY <2>1, <2>2
<1>8. NothingToDo'
  <2> SUFFICES ASSUME NEW a \in alive, target[HostNameOf[a]] = hrn'[HostNameOf[a]],
                      arn[a] # hrn'[HostNameOf[a]], hbusy'[HostNameOf[a]]
               PROVE  tsem'[a] \/ tforce[a]
    BY <1>1 DEF NothingToDo, HostNameOf
  <2>1. HostNameOf[a] # h
    BY <1>6
  <2>2. QED
    BY <1>0, <1>2, <1>6, <2>1 DEF NothingToDo
<1>9. Updating'
  BY <1>0, <1>1 DEF Updating, TableOf
<1>10. QED
  BY <1>4, <1>5, <1>7, <1>8, <1>9 DEF TableInv, TableExact

\* Answers change, a host without rules goes, a table update ends.
LEMMA QuietKeeps ==
    ASSUME TableInv,
           \/ \E h \in Names : HostGone(h) \/ \E s \in SUBSET Addrs : DnsChanges(h, s)
           \/ \E a \in Rules : TableDone(a)
           \/ UNCHANGED tableVars
    PROVE  TableInv'
<1>0. /\ TablesTypeOK /\ NoLostUpdate /\ NoStaleEntry /\ TableComplete
      /\ NothingToDo /\ Updating
  BY DEF TableInv, TableExact
<1>1. /\ UNCHANGED <<conf, target, hbusy, alive, arn, tbl, tsem, tforce>>
      /\ UNCHANGED <<kt, badAdd, badDel, nfaults>>
  BY DEF HostGone, DnsChanges, TableDone, envVars, listVars, ruleVars, kernVars, tableVars
<1>2. NoStaleEntry' /\ TableComplete'
  BY <1>0, <1>1, TablesUntouched
<1>3. /\ hrn' \in [Names -> SUBSET Addrs]
      /\ \A h \in Names : hrn'[h] = hrn[h] \/ Users(h) = {}
  BY <1>0, TablesAssumption DEF HostGone, DnsChanges, TableDone, listVars, tableVars, TablesTypeOK
<1>4. /\ tpc' \in [Rules -> {"idle", "table"}]
      /\ \A a \in Rules : tpc'[a] = "table" => tpc[a] = "table"
  BY <1>0, TablesAssumption DEF HostGone, DnsChanges, TableDone, ruleVars, tableVars, TablesTypeOK
<1>5. dns' \in [Names -> SUBSET Addrs] /\ nchg' \in 0..MaxChanges
  BY <1>0, TablesAssumption DEF HostGone, DnsChanges, TableDone, envVars, tableVars, TablesTypeOK
<1>6. \A a \in alive : hrn'[HostNameOf[a]] = hrn[HostNameOf[a]]
  BY <1>0, <1>3, ConfFacts DEF Users, TablesTypeOK
<1>7. TablesTypeOK'
  BY <1>0, <1>1, <1>3, <1>4, <1>5 DEF TablesTypeOK
<1>8. NoLostUpdate' /\ NothingToDo'
  BY <1>0, <1>1, <1>6 DEF NoLostUpdate, NothingToDo, HostNameOf
<1>9. Updating'
  BY <1>0, <1>1, <1>4 DEF Updating, TableOf
<1>10. QED
  BY <1>2, <1>7, <1>8, <1>9 DEF TableInv, TableExact

\* A woken rule copies its host's list: if no cycle runs, or one that changes
\* nothing, the copy is that list; otherwise the end of the cycle wakes it again.
LEMMA ActionCopyKeeps ==
    ASSUME TableInv, NEW a \in Rules, ActionCopy(a)
    PROVE  TableInv'
<1>0. /\ TablesTypeOK /\ NoLostUpdate /\ NoStaleEntry /\ TableComplete
      /\ NothingToDo /\ Updating
  BY DEF TableInv, TableExact
<1>1. /\ UNCHANGED <<conf, dns, nchg, hrn, target, hbusy, alive, tbl>>
      /\ UNCHANGED <<kt, badAdd, badDel, nfaults>>
      /\ a \in alive /\ tpc[a] = "idle"
      /\ tsem' = [tsem EXCEPT ![a] = FALSE] /\ tforce' = [tforce EXCEPT ![a] = FALSE]
  BY DEF ActionCopy, envVars, listVars, kernVars
<1>2. PICK s \in Seen(HostNameOf[a]) :
          /\ arn' = [arn EXCEPT ![a] = s]
          /\ tpc' = IF s # arn[a] /\ TableOf[a] # NoTable
                    THEN [tpc EXCEPT ![a] = "table"] ELSE tpc
  BY Zenon DEF ActionCopy
<1>3. HostNameOf[a] \in Names
  BY <1>0, ConfFacts
<1>4. /\ s \in SUBSET Addrs
      /\ ~hbusy[HostNameOf[a]] \/ target[HostNameOf[a]] = hrn[HostNameOf[a]]
           => s = hrn[HostNameOf[a]]
  <2>1. hrn[HostNameOf[a]] \in SUBSET Addrs /\ target[HostNameOf[a]] \in SUBSET Addrs
    BY <1>0, <1>3 DEF TablesTypeOK
  <2>2. CASE hbusy[HostNameOf[a]]
    <3>1. /\ s \subseteq hrn[HostNameOf[a]] \cup target[HostNameOf[a]]
          /\ hrn[HostNameOf[a]] \cap target[HostNameOf[a]] \subseteq s
      BY <1>2, <2>2 DEF Seen
    <3>2. QED
      BY <2>1, <2>2, <3>1
  <2>3. CASE ~hbusy[HostNameOf[a]]
    BY <1>2, <2>1, <2>3 DEF Seen
  <2>4. QED
    BY <2>2, <2>3
<1>5. tpc' \in [Rules -> {"idle", "table"}]
      /\ \A b \in Rules : tpc'[b] = "table" => \/ tpc[b] = "table"
                                               \/ b = a /\ TableOf[a] # NoTable
  BY <1>0, <1>2 DEF TablesTypeOK
<1>6. TablesTypeOK'
  <2>1. /\ arn' \in [Rules -> SUBSET Addrs]
        /\ tsem' \in [Rules -> BOOLEAN] /\ tforce' \in [Rules -> BOOLEAN]
    BY <1>0, <1>1, <1>2, <1>4 DEF TablesTypeOK
  <2>2. \A b \in Rules \ alive : arn'[b] = {} /\ ~tsem'[b]
    BY <1>0, <1>1, <1>2 DEF TablesTypeOK
  <2>3. QED
    BY <1>0, <1>1, <1>5, <2>1, <2>2 DEF TablesTypeOK
<1>7. NoStaleEntry' /\ TableComplete'
  BY <1>0, <1>1, TablesUntouched
<1>8. /\ arn'[a] = s
      /\ \A b \in alive \ {a} : arn'[b] = arn[b] /\ tsem'[b] = tsem[b] /\ tforce'[b] = tforce[b]
  BY <1>0, <1>1, <1>2 DEF TablesTypeOK
<1>9. NoLostUpdate'
  BY <1>0, <1>1, <1>4, <1>8 DEF NoLostUpdate, HostNameOf
<1>10. NothingToDo'
  <2>1. ASSUME NEW b \in alive, target[HostNameOf[b]] = hrn[HostNameOf[b]],
               arn'[b] # hrn[HostNameOf[b]], hbusy[HostNameOf[b]]
        PROVE  tsem'[b] \/ tforce'[b]
    <3>1. b # a
      BY <1>4, <1>8, <2>1
    <3>2. QED
      BY <1>0, <1>8, <2>1, <3>1 DEF NothingToDo
  <2>2. QED
    BY <1>1, <2>1 DEF NothingToDo, HostNameOf
<1>11. Updating'
  BY <1>0, <1>1, <1>5 DEF Updating, TableOf
<1>12. QED
  BY <1>6, <1>7, <1>9, <1>10, <1>11 DEF TableInv, TableExact

\* Steps that leave the lists, their copies and the rules alone.
LEMMA ListsUntouched ==
    ASSUME NoLostUpdate, NothingToDo, Updating,
           UNCHANGED <<conf, hrn, target, hbusy, alive, arn, tsem, tforce, tpc>>
    PROVE  NoLostUpdate' /\ NothingToDo' /\ Updating'
BY DEF NoLostUpdate, NothingToDo, Updating, HostNameOf, TableOf

\* An address is added to a table, or the call fails.
LEMMA TableAddKeeps ==
    ASSUME TableInv, NEW a \in Rules, NEW x \in Addrs, TableAdd(a, x)
    PROVE  TableInv'
<1>0. /\ TablesTypeOK /\ NoLostUpdate /\ NoStaleEntry /\ TableComplete
      /\ NothingToDo /\ Updating
  BY DEF TableInv, TableExact
<1> DEFINE k == Key(a, x, TRUE)
<1>1. /\ UNCHANGED <<conf, dns, nchg, hrn, target, hbusy, alive, arn, tsem, tforce, tpc>>
      /\ tbl' = [tbl EXCEPT ![a] = tbl[a] \cup {x}]
      /\ a \in alive /\ TableOf[a] # NoTable
      /\ \/ /\ kt' = kt \cup {k} /\ badAdd' = badAdd \ {k} /\ badDel' = badDel \ {k}
            /\ nfaults' = nfaults
         \/ /\ nfaults < MaxFaults /\ nfaults' = nfaults + 1
            /\ badAdd' = badAdd \cup ({k} \ kt) /\ kt' = kt /\ badDel' = badDel
  BY <1>0, Zenon DEF TableAdd, envVars, listVars, Updating
<1>2. k \in Keys
  BY <1>0, <1>1, KeyType, Zenon
<1>3. /\ tbl' \in [Rules -> SUBSET Addrs]
      /\ tbl'[a] = tbl[a] \cup {x} /\ \A b \in Rules \ {a} : tbl'[b] = tbl[b]
  BY <1>0, <1>1 DEF TablesTypeOK
<1>4. \A b, y, p : Key(b, y, p)' = Key(b, y, p)
  BY <1>1 DEF Key, TableOf, HostNameOf
<1> HIDE DEF k
<1>5. TablesTypeOK'
  <2>1. /\ kt' \subseteq Keys /\ badAdd' \subseteq Keys /\ badDel' \subseteq Keys
    BY <1>0, <1>1, <1>2 DEF TablesTypeOK
  <2>2. nfaults' \in 0..MaxFaults
    <3>1. nfaults \in 0..MaxFaults /\ MaxFaults \in Nat
      BY <1>0, TablesAssumption DEF TablesTypeOK
    <3>2. nfaults' = nfaults \/ (nfaults < MaxFaults /\ nfaults' = nfaults + 1)
      BY <1>1, Zenon
    <3>3. QED
      BY <3>1, <3>2
  <2>3. QED
    BY <1>0, <1>1, <1>3, <2>1, <2>2 DEF TablesTypeOK
<1>6. NoStaleEntry'
  <2> SUFFICES ASSUME NEW j \in kt' \ badDel', j[3] = "full"
               PROVE  IsWanted(j)'
    BY DEF NoStaleEntry
  <2>1. CASE j = k
    BY <1>1, <1>3, <1>4, <2>1, Zenon DEF IsWanted, k
  <2>2. CASE j # k
    <3>1. j \in kt \ badDel
      BY <1>1, <2>2
    <3>2. PICK b \in alive : \E y \in tbl[b] : j = Key(b, y, TRUE)
      BY <1>0, <3>1, Zenon DEF NoStaleEntry, IsWanted
    <3>3. b \in alive' /\ tbl[b] \subseteq tbl'[b]
      BY <1>0, <1>1, <1>3, <3>2 DEF TablesTypeOK
    <3>4. QED
      BY <1>4, <3>2, <3>3, Zenon DEF IsWanted
  <2>3. QED
    BY <2>1, <2>2
<1>7. TableComplete'
  <2> SUFFICES ASSUME NEW b \in alive, TableOf[b] # NoTable,
                      \A c \in Rules \ {b} : TableOf[c] # TableOf[b], NEW y \in tbl'[b]
               PROVE  Key(b, y, TRUE) \in kt' \cup badAdd'
    BY <1>1, <1>4, Zenon DEF TableComplete, TableOf
  <2>0. b \in Rules
    BY <1>0 DEF TablesTypeOK
  <2>1. CASE b = a /\ y = x
    BY <1>1, <2>1, Zenon DEF k
  <2>2. CASE ~(b = a /\ y = x)
    <3>1. Key(b, y, TRUE) # k
      BY <2>2, <2>0, OwnTable, Zenon DEF k
    <3>2. y \in tbl[b]
      BY <1>3, <2>0, <2>2
    <3>3. Key(b, y, TRUE) \in kt \cup badAdd
      BY <1>0, <3>2, Zenon DEF TableComplete
    <3>4. QED
      BY <1>1, <3>1, <3>3, Zenon
  <2>3. QED
    BY <2>1, <2>2, Zenon
<1>8. QED
  BY <1>0, <1>1, <1>5, <1>6, <1>7, ListsUntouched DEF TableInv, TableExact

\* An address is deleted from a table, or the call fails.
LEMMA TableDelKeeps ==
    ASSUME TableInv, NEW a \in Rules, NEW x \in Addrs, TableDel(a, x)
    PROVE  TableInv'
<1>0. /\ TablesTypeOK /\ NoLostUpdate /\ NoStaleEntry /\ TableComplete
      /\ NothingToDo /\ Updating
  BY DEF TableInv, TableExact
<1> DEFINE k == Key(a, x, TRUE)
<1>1. /\ UNCHANGED <<conf, dns, nchg, hrn, target, hbusy, alive, arn, tsem, tforce, tpc>>
      /\ tbl' = [tbl EXCEPT ![a] = tbl[a] \ {x}]
      /\ \/ /\ kt' = kt \ {k} /\ badAdd' = badAdd \ {k} /\ badDel' = badDel \ {k}
            /\ nfaults' = nfaults
         \/ /\ nfaults < MaxFaults /\ nfaults' = nfaults + 1
            /\ badDel' = badDel \cup ({k} \cap kt) /\ kt' = kt /\ badAdd' = badAdd
  BY Zenon DEF TableDel, envVars, listVars
<1>2. /\ tbl' \in [Rules -> SUBSET Addrs]
      /\ tbl'[a] = tbl[a] \ {x} /\ \A b \in Rules \ {a} : tbl'[b] = tbl[b]
  BY <1>0, <1>1 DEF TablesTypeOK
<1>3. \A b, y, p : Key(b, y, p)' = Key(b, y, p)
  BY <1>1, Zenon DEF Key, TableOf, HostNameOf
<1> HIDE DEF k
<1>4. TablesTypeOK'
  <2>1. /\ kt' \subseteq Keys /\ badAdd' \subseteq Keys /\ badDel' \subseteq Keys
    BY <1>0, <1>1 DEF TablesTypeOK
  <2>2. nfaults' \in 0..MaxFaults
    <3>1. nfaults \in 0..MaxFaults /\ MaxFaults \in Nat
      BY <1>0, TablesAssumption DEF TablesTypeOK
    <3>2. nfaults' = nfaults \/ (nfaults < MaxFaults /\ nfaults' = nfaults + 1)
      BY <1>1, Zenon
    <3>3. QED
      BY <3>1, <3>2
  <2>3. \A b \in Rules \ alive : tbl'[b] = {}
    BY <1>0, <1>2 DEF TablesTypeOK
  <2>4. QED
    BY <1>0, <1>1, <1>2, <2>1, <2>2, <2>3 DEF TablesTypeOK
<1>5. NoStaleEntry'
  <2> SUFFICES ASSUME NEW j \in kt' \ badDel', j[3] = "full"
               PROVE  IsWanted(j)'
    BY DEF NoStaleEntry
  <2>1. j # k /\ j \in kt \ badDel
    BY <1>1
  <2>2. PICK b \in alive : \E y \in tbl[b] : j = Key(b, y, TRUE)
    BY <1>0, <2>1, Zenon DEF NoStaleEntry, IsWanted
  <2>3. PICK y \in tbl[b] : j = Key(b, y, TRUE)
    BY <2>2, Zenon
  <2>4. b \in alive' /\ y \in tbl'[b]
    BY <1>0, <1>1, <1>2, <2>1, <2>3, Zenon DEF TablesTypeOK, k
  <2>5. QED
    BY <1>3, <2>3, <2>4, Zenon DEF IsWanted
<1>6. TableComplete'
  <2> SUFFICES ASSUME NEW b \in alive, TableOf[b] # NoTable,
                      \A c \in Rules \ {b} : TableOf[c] # TableOf[b], NEW y \in tbl'[b]
               PROVE  Key(b, y, TRUE) \in kt' \cup badAdd'
    BY <1>1, <1>3, Zenon DEF TableComplete, TableOf
  <2>1. b \in Rules
    BY <1>0 DEF TablesTypeOK
  <2>2. y \in tbl[b] /\ ~(b = a /\ y = x)
    BY <1>2, <2>1
  <2>3. Key(b, y, TRUE) # k
    BY <2>1, <2>2, OwnTable, Zenon DEF k
  <2>4. Key(b, y, TRUE) \in kt \cup badAdd
    BY <1>0, <2>2, Zenon DEF TableComplete
  <2>5. QED
    BY <1>1, <2>3, <2>4, Zenon
<1>7. QED
  BY <1>0, <1>1, <1>4, <1>5, <1>6, ListsUntouched DEF TableInv, TableExact

\* A reload adds a rule, whose record is empty and which its host owes a wake-up.
LEMMA AddActionKeeps ==
    ASSUME TableInv, NEW a \in Rules, AddAction(a)
    PROVE  TableInv'
<1>0. /\ TablesTypeOK /\ NoLostUpdate /\ NoStaleEntry /\ TableComplete
      /\ NothingToDo /\ Updating
  BY DEF TableInv, TableExact
<1>1. /\ UNCHANGED <<conf, dns, hrn, target, hbusy, arn, tbl, tsem, tpc>>
      /\ UNCHANGED <<kt, badAdd, badDel, nfaults>>
      /\ alive' = alive \cup {a} /\ tforce' = [tforce EXCEPT ![a] = TRUE]
      /\ a \notin alive /\ nchg < MaxChanges /\ nchg' = nchg + 1
  BY DEF AddAction, listVars, kernVars
<1>2. TablesTypeOK'
  <2>1. nchg' \in 0..MaxChanges
    BY <1>0, <1>1, TablesAssumption DEF TablesTypeOK
  <2>2. QED
    BY <1>0, <1>1, <2>1 DEF TablesTypeOK
<1>3. tforce'[a] /\ \A b \in alive : tforce'[b] = tforce[b]
  BY <1>0, <1>1, Zenon DEF TablesTypeOK
<1>4. NoLostUpdate' /\ NothingToDo' /\ Updating'
  <2>1. NoLostUpdate'
    BY <1>0, <1>1, <1>3 DEF NoLostUpdate, HostNameOf
  <2>2. NothingToDo'
    BY <1>0, <1>1, <1>3 DEF NothingToDo, HostNameOf
  <2>3. Updating'
    BY <1>0, <1>1 DEF Updating, TableOf
  <2>4. QED
    BY <2>1, <2>2, <2>3
<1>5. NoStaleEntry'
  <2>1. \A b, y, p : Key(b, y, p)' = Key(b, y, p)
    BY <1>1, Zenon DEF Key, TableOf, HostNameOf
  <2>2. \A k : IsWanted(k) => IsWanted(k)'
    BY <1>1, <2>1, Zenon DEF IsWanted
  <2>3. QED
    BY <1>0, <1>1, <2>2, Zenon DEF NoStaleEntry
<1>6. TableComplete'
  <2>1. tbl'[a] = {}
    BY <1>0, <1>1 DEF TablesTypeOK
  <2>2. QED
    BY <1>0, <1>1, <2>1 DEF TableComplete, Key, HostNameOf, TableOf
<1>7. QED
  BY <1>2, <1>4, <1>5, <1>6 DEF TableInv, TableExact

\* A reload deletes a rule: its entries written without a mask leave the table, or
\* are those the kernel refused to delete; no other rule's table is touched.
LEMMA DeleteActionKeeps ==
    ASSUME TableInv, NEW a \in Rules, NEW fail \in SUBSET tbl[a],
           DeleteAction(a, fail)
    PROVE  TableInv'
<1>0. /\ TablesTypeOK /\ NoLostUpdate /\ NoStaleEntry /\ TableComplete
      /\ NothingToDo /\ Updating
  BY DEF TableInv, TableExact
<1>1. /\ UNCHANGED <<conf, dns, hrn, target, hbusy, tforce, tpc>>
      /\ alive' = alive \ {a} /\ nchg < MaxChanges /\ nchg' = nchg + 1
      /\ arn' = [arn EXCEPT ![a] = {}] /\ tbl' = [tbl EXCEPT ![a] = {}]
      /\ tsem' = [tsem EXCEPT ![a] = FALSE]
      /\ nfaults' = nfaults + Cardinality(fail) /\ nfaults' <= MaxFaults
      /\ tpc[a] = "idle"
  BY DEF DeleteAction, listVars, Idle
<1>2. /\ \A j : j \in kt' <=> j \in kt /\ ~\E y \in tbl[a] \ fail : j = Key(a, y, FALSE)
      /\ \A j : j \in badDel' <=>
            \/ j \in badDel /\ ~\E y \in tbl[a] \ fail : j = Key(a, y, FALSE)
            \/ j \in kt /\ \E y \in fail : j = Key(a, y, FALSE)
      /\ \A j : j \in badAdd' <=> j \in badAdd /\ ~\E y \in tbl[a] : j = Key(a, y, FALSE)
  BY Zenon DEF DeleteAction
<1>3. \A b, y, p : Key(b, y, p)' = Key(b, y, p)
  BY <1>1 DEF Key, TableOf, HostNameOf
<1>4. /\ \A b \in Rules \ {a} : tbl'[b] = tbl[b] /\ arn'[b] = arn[b] /\ tsem'[b] = tsem[b]
      /\ tbl'[a] = {} /\ arn'[a] = {} /\ tsem'[a] = FALSE
  BY <1>0, <1>1 DEF TablesTypeOK
<1>5. TablesTypeOK'
  <2>1. /\ kt' \subseteq Keys /\ badAdd' \subseteq Keys /\ badDel' \subseteq Keys
    BY <1>0, <1>2, Zenon DEF TablesTypeOK
  <2>2. Cardinality(fail) \in Nat
    <3>1. fail \subseteq Addrs
      BY <1>0 DEF TablesTypeOK
    <3>2. QED
      BY <3>1, FS_Subset, FS_CardinalityType, TablesAssumption
  <2>3. nfaults' \in 0..MaxFaults /\ nchg' \in 0..MaxChanges
    <3>1. /\ nfaults \in 0..MaxFaults /\ nchg \in 0..MaxChanges
          /\ MaxFaults \in Nat /\ MaxChanges \in Nat
      BY <1>0, TablesAssumption DEF TablesTypeOK
    <3>2. QED
      BY <1>1, <2>2, <3>1
  <2>4. /\ arn' \in [Rules -> SUBSET Addrs] /\ tbl' \in [Rules -> SUBSET Addrs]
        /\ tsem' \in [Rules -> BOOLEAN] /\ alive' \subseteq Rules
    BY <1>0, <1>1 DEF TablesTypeOK
  <2>5. \A b \in Rules \ alive' : arn'[b] = {} /\ tbl'[b] = {} /\ ~tsem'[b]
    BY <1>0, <1>1, <1>4 DEF TablesTypeOK
  <2>6. QED
    BY <1>0, <1>1, <2>1, <2>3, <2>4, <2>5 DEF TablesTypeOK
<1>6. NoLostUpdate' /\ NothingToDo' /\ Updating'
  <2>1. \A b \in alive' : b \in alive /\ arn'[b] = arn[b] /\ tsem'[b] = tsem[b]
    BY <1>0, <1>1, <1>4 DEF TablesTypeOK
  <2>2. NoLostUpdate' /\ NothingToDo'
    <3>1. NoLostUpdate'
      BY <1>0, <1>1, <2>1 DEF NoLostUpdate, HostNameOf
    <3>2. NothingToDo'
      BY <1>0, <1>1, <2>1 DEF NothingToDo, HostNameOf
    <3>3. QED
      BY <3>1, <3>2
  <2>3. Updating'
    BY <1>0, <1>1 DEF Updating, TableOf
  <2>4. QED
    BY <2>2, <2>3
<1>7. NoStaleEntry'
  <2> SUFFICES ASSUME NEW j \in kt' \ badDel', j[3] = "full"
               PROVE  IsWanted(j)'
    BY DEF NoStaleEntry
  <2>1. j \in kt \ badDel /\ ~\E y \in tbl[a] : j = Key(a, y, FALSE)
    BY <1>2, Zenon
  <2>2. PICK b \in alive : \E y \in tbl[b] : j = Key(b, y, TRUE)
    BY <1>0, <2>1, Zenon DEF NoStaleEntry, IsWanted
  <2>3. PICK y \in tbl[b] : j = Key(b, y, TRUE)
    BY <2>2, Zenon
  <2>4. b # a
    <3>1. j = Key(b, y, FALSE)
      BY <2>3, FullKey, Zenon
    <3>2. QED
      BY <2>1, <3>1, Zenon
  <2>5. b \in alive' /\ y \in tbl'[b]
    BY <1>0, <1>1, <1>4, <2>3, <2>4 DEF TablesTypeOK
  <2>6. QED
    BY <1>3, <2>3, <2>5, Zenon DEF IsWanted
<1>8. TableComplete'
  <2> SUFFICES ASSUME NEW b \in alive \ {a}, TableOf[b] # NoTable,
                      \A c \in Rules \ {b} : TableOf[c] # TableOf[b], NEW y \in tbl'[b]
               PROVE  Key(b, y, TRUE) \in kt' \cup badAdd'
    BY <1>1, <1>3, Zenon DEF TableComplete, TableOf
  <2>1. b \in Rules /\ y \in tbl[b]
    BY <1>0, <1>4, Zenon DEF TablesTypeOK
  <2>2. \A x : Key(b, y, TRUE) # Key(a, x, FALSE)
    BY <2>1, OwnTable, Zenon
  <2>3. Key(b, y, TRUE) \in kt \cup badAdd
    BY <1>0, <2>1, Zenon DEF TableComplete
  <2>4. QED
    BY <1>2, <2>2, <2>3, Zenon
<1>9. QED
  BY <1>5, <1>6, <1>7, <1>8 DEF TableInv, TableExact

-----------------------------------------------------------------------------
\* check_hostname, check_action, table_update and action_del: for every
\* configuration, every change of answers and every failing kernel call, a rule
\* whose copy of its host's list is out of date is woken, no entry outlives the
\* rules that record it, and none of a rule's entries is missing from its table.
THEOREM TablesAlwaysExact == TablesSpec => []TableExact
<1>1. TablesInit => TableInv
  <2> SUFFICES ASSUME TablesInit PROVE TableInv
    OBVIOUS
  <2>1. TablesTypeOK
    <3>1. nchg \in 0..MaxChanges /\ nfaults \in 0..MaxFaults
      <4>1. MaxChanges \in Nat /\ MaxFaults \in Nat
        BY TablesAssumption
      <4>2. nchg = 0 /\ nfaults = 0
        BY DEF TablesInit
      <4>3. QED
        BY <4>1, <4>2
    <3>2. QED
      BY <3>1 DEF TablesInit, TablesTypeOK
  <2>2. NoLostUpdate /\ NothingToDo /\ Updating
    BY DEF TablesInit, NoLostUpdate, NothingToDo, Updating
  <2>3. NoStaleEntry /\ TableComplete
    BY DEF TablesInit, NoStaleEntry, TableComplete
  <2>4. QED
    BY <2>1, <2>2, <2>3 DEF TableInv, TableExact
<1>2. TableInv /\ [TablesNext]_tableVars => TableInv'
  <2> SUFFICES ASSUME TableInv, [TablesNext]_tableVars PROVE TableInv'
    OBVIOUS
  <2>1. ASSUME NEW h \in Names, HostBegin(h) \/ HostEnd(h) PROVE TableInv'
    BY <2>1, HostBeginKeeps, HostEndKeeps
  <2>2. ASSUME NEW h \in Names, HostGone(h) \/ \E s \in SUBSET Addrs : DnsChanges(h, s)
        PROVE  TableInv'
    BY <2>2, QuietKeeps
  <2>3. ASSUME NEW a \in Rules, ActionStep(a) PROVE TableInv'
    BY <2>3, ActionCopyKeeps, QuietKeeps, TableAddKeeps, TableDelKeeps DEF ActionStep
  <2>4. ASSUME NEW a \in Rules,
               AddAction(a) \/ \E fail \in SUBSET tbl[a] : DeleteAction(a, fail)
        PROVE  TableInv'
    BY <2>4, AddActionKeeps, DeleteActionKeeps
  <2>5. CASE UNCHANGED tableVars
    BY <2>5, QuietKeeps
  <2>6. QED
    BY <2>1, <2>2, <2>3, <2>4, <2>5 DEF TablesNext
<1>3. TableInv => TableExact
  BY DEF TableInv
<1>4. QED
  BY <1>1, <1>2, <1>3, PTL DEF TablesSpec
===============================================================================
