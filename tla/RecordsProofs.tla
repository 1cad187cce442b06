----------------------------- MODULE RecordsProofs -----------------------------
(* The rows that look-ups and writes in two statements leave behind, and   *)
(* the seeding of the registry of models, for any defaults, any number of  *)
(* processes and any requests beside it.                                   *)
EXTENDS Records, FiniteSetTheorems, TLAPS

Positions == 1..Len(Defaults)
Stands(j) == RowsOf(Defaults[j]) # {}

\* What a process is doing has a meaning.
RequestsOK ==
    /\ \A f \in {pc, key, value, found, seeded, seeding} : DOMAIN f = Requests
    /\ DOMAIN rows = RowIds
    /\ \A i \in Stored : rows[i].key \in Keys
    /\ \A k \in Requests :
          /\ seeding[k] = 0 \/ seeding[k] \in Positions
          /\ pc[k] \in {"idle", "ensure"} => seeding[k] = 0
          /\ pc[k] # "idle" => key[k] \in Keys /\ value[k] \in Values \cup {None}
          /\ pc[k] = "write" => Value(k) # None
          /\ pc[k] = "write" /\ found[k] # None /\ Key(k) \notin gone =>
                found[k] \in RowsOf(Key(k))
    /\ table = "model_registry" => gone = {}

\* A seeding has stored the defaults before the one it is at, the defaults stored have
\* those before them stored, and where some are missing a seeding is at the first of
\* these: it cannot fail, as only a seeding at the same default could store it first.
\* Before a row is stored, all who do not seed have yet to look.
SeedingOK ==
    table = "model_registry" /\ faults = 0 /\ ~ahead =>
        /\ \A k \in Requests :
              seeding[k] # 0 => \A j \in Positions : j < seeding[k] => Stands(j)
        /\ \A i, j \in Positions : i < j /\ Stands(j) => Stands(i)
        /\ Stored # {} /\ ~Seeded =>
              \E k \in Requests : seeding[k] # 0 /\ ~Stands(seeding[k])
        /\ \A k \in Requests :
              seeded[k] \/ (pc[k] \in {"find", "write"} /\ seeding[k] = 0) => Stored # {}

RecordsInv == RequestsOK /\ SeedingOK

LEMMA DefaultsAreKeys ==
    /\ Len(Defaults) \in Nat /\ 1 \in Positions
    /\ \A j \in Positions : j \in Int /\ Defaults[j] \in Keys
    /\ \A i, j \in Positions : Defaults[i] = Defaults[j] => i = j
  BY RecordsAssumption DEF Positions

LEMMA RecordsInit == Init => RecordsInv
<1>. SUFFICES ASSUME Init PROVE RecordsInv
  OBVIOUS
<1>1. Stored = {} /\ \A x : RowsOf(x) = {}
  BY DEF Init, Stored, RowsOf
<1>. QED
  BY <1>1 DEF Init, RecordsInv, RequestsOK, SeedingOK, Stands

\* What depends on the rows stays as long as these do.
LEMMA SameRows ==
    ASSUME UNCHANGED <<rows, gone>>
    PROVE  /\ Stored' = Stored /\ \A x : RowsOf(x)' = RowsOf(x)
           /\ \A j \in Positions : Stands(j)' = Stands(j)
           /\ Seeded' = Seeded
  BY DEF Stored, RowsOf, Stands, Seeded

\* A request that ends leaves the others as they are, and is no seeding at the first of
\* those missing unless it faulted.
LEMMA EndStep ==
    ASSUME RecordsInv, NEW k \in Requests, End(k), UNCHANGED <<table, rows, gone, seeded, ahead>>,
           faults' = 0 /\ table = "model_registry" =>
              faults = 0 /\ (seeding[k] = 0 \/ Stands(seeding[k]))
    PROVE  RecordsInv'
<1>. USE DEF RecordsInv, RequestsOK
<1>1. /\ pc'[k] = "idle" /\ seeding'[k] = 0
      /\ \A f \in {pc', key', value', found', seeding'} : DOMAIN f = Requests
      /\ \A j \in Requests \ {k} : /\ pc'[j] = pc[j] /\ key'[j] = key[j] /\ value'[j] = value[j]
                                   /\ found'[j] = found[j] /\ seeding'[j] = seeding[j]
  BY DEF End, Goto
<1>2. \A j \in Requests \ {k} : Key(j)' = Key(j) /\ Value(j)' = Value(j)
  BY <1>1 DEF Key, Value
<1>3. RequestsOK'
  BY <1>1, <1>2, SameRows
<1>4. SeedingOK'
  BY <1>1, SameRows DEF SeedingOK
<1>. QED
  BY <1>3, <1>4

LEMMA AskStep ==
    ASSUME RecordsInv, NEW k \in Requests, NEW x \in Keys, NEW v \in Values \cup {None}, Ask(k, x, v)
    PROVE  RecordsInv'
<1>. USE DEF RecordsInv, RequestsOK
<1>1. /\ pc[k] = "idle" /\ UNCHANGED <<table, rows, gone, found, seeded, seeding, ahead, faults>>
      /\ pc'[k] = IF table = "model_registry" THEN "ensure" ELSE "find"
      /\ key'[k] = x /\ value'[k] = v
      /\ \A f \in {pc', key', value'} : DOMAIN f = Requests
      /\ \A j \in Requests \ {k} : pc'[j] = pc[j] /\ key'[j] = key[j] /\ value'[j] = value[j]
  BY DEF Ask, Goto, history
<1>2. \A j \in Requests \ {k} : Key(j)' = Key(j) /\ Value(j)' = Value(j)
  BY <1>1 DEF Key, Value
<1>3. RequestsOK'
  BY <1>1, <1>2, SameRows
<1>4. SeedingOK'
  BY <1>1, SameRows DEF SeedingOK
<1>. QED
  BY <1>3, <1>4

LEMMA EnsureStep ==
    ASSUME RecordsInv, NEW k \in Requests, EnsureSeeded(k)
    PROVE  RecordsInv'
<1>. USE DEF RecordsInv, RequestsOK
<1>1. /\ pc[k] = "ensure" /\ pc'[k] = "find" /\ seeding[k] = 0
      /\ UNCHANGED <<table, rows, gone, key, value, found, ahead, faults>>
      /\ seeding'[k] = (IF ~seeded[k] /\ Stored = {} THEN 1 ELSE 0)
      /\ seeded'[k] => seeded[k] \/ Stored # {}
      /\ \A f \in {pc', seeded', seeding'} : DOMAIN f = Requests
      /\ \A j \in Requests \ {k} :
            pc'[j] = pc[j] /\ seeded'[j] = seeded[j] /\ seeding'[j] = seeding[j]
  BY DEF EnsureSeeded, Goto
<1>2. \A j \in Requests \ {k} : Key(j)' = Key(j) /\ Value(j)' = Value(j)
  BY <1>1 DEF Key, Value
<1>3. RequestsOK'
  BY <1>1, <1>2, SameRows, DefaultsAreKeys
<1>4. SeedingOK'
  <2>1. CASE Stored = {}
    <3>1. \A j \in Positions : ~(j < 1)
      BY DEF Positions
    <3>2. \A x : RowsOf(x) = {}
      BY <2>1 DEF Stored, RowsOf
    <3>. SUFFICES ASSUME (table = "model_registry" /\ faults = 0 /\ ~ahead)'
                  PROVE  SeedingOK'
      BY DEF SeedingOK
    <3>3. table = "model_registry" /\ faults = 0 /\ ~ahead
      BY <1>1
    <3>4. \A j \in Requests : ~seeded[j] /\ (pc[j] \in {"find", "write"} => seeding[j] # 0)
      BY <2>1, <3>3 DEF SeedingOK
    <3>5. seeding'[k] = 1 /\ ~seeded'[k]
      BY <1>1, <2>1, <3>4
    <3>6. \A j \in Requests : ~seeded'[j] /\ (pc'[j] \in {"find", "write"} => seeding'[j] # 0)
      BY <1>1, <3>4, <3>5
    <3>7. Stored' = {} /\ \A j \in Positions : ~Stands(j)'
      BY <1>1, <2>1, <3>2, SameRows DEF Stands
    <3>8. \A j \in Requests : seeding'[j] # 0 =>
              \A m \in Positions : m < seeding'[j] => Stands(m)'
      BY <1>1, <3>1, <3>3, <3>5, SameRows DEF SeedingOK
    <3>. QED
      BY <3>6, <3>7, <3>8 DEF SeedingOK
  <2>2. CASE Stored # {}
    BY <1>1, <2>2, SameRows DEF SeedingOK
  <2>. QED
    BY <2>1, <2>2
<1>. QED
  BY <1>3, <1>4

LEMMA FindStep ==
    ASSUME RecordsInv, NEW k \in Requests, Find(k)
    PROVE  RecordsInv'
<1>. USE DEF RecordsInv, RequestsOK
<1>1. /\ pc[k] = "find" /\ pc'[k] = "write" /\ Value(k) # None
      /\ UNCHANGED <<table, rows, gone, key, value, seeded, seeding, ahead, faults>>
      /\ found'[k] = None \/ found'[k] \in RowsOf(Key(k))
      /\ \A f \in {pc', found'} : DOMAIN f = Requests
      /\ \A j \in Requests \ {k} : pc'[j] = pc[j] /\ found'[j] = found[j]
  BY DEF Find, Goto
<1>2. \A j \in Requests : Key(j)' = Key(j) /\ Value(j)' = Value(j)
  BY <1>1 DEF Key, Value
<1>3. RequestsOK'
  BY <1>1, <1>2, SameRows
<1>4. SeedingOK'
  BY <1>1, SameRows DEF SeedingOK
<1>. QED
  BY <1>3, <1>4

LEMMA ListStep ==
    ASSUME RecordsInv, NEW k \in Requests, List(k)
    PROVE  RecordsInv'
<1>1. seeding[k] = 0
  BY RecordsAssumption DEF RecordsInv, RequestsOK, Positions, List, Value
<1>. QED
  BY <1>1, EndStep DEF List, history

LEMMA FaultStep ==
    ASSUME RecordsInv, NEW k \in Requests, Fault(k), faults \in Nat
    PROVE  RecordsInv'
<1>1. faults' # 0
  BY DEF Fault
<1>. QED
  BY <1>1, EndStep DEF Fault, history

\* What a Write that is not refused does to the rows and to the seeding: one row more, or
\* another value in a row that was there.
LEMMA WriteEffect ==
    ASSUME RecordsInv, NEW k \in Requests, Write(k),
           ~Refused(k)
    PROVE  /\ Key(k) \in Keys
           /\ UNCHANGED <<table, gone, faults>>
           /\ DOMAIN rows' = RowIds /\ Stored' # {}
           /\ \A i \in Stored' : rows'[i].key \in Keys
           /\ \A x \in Keys : RowsOf(x) \subseteq RowsOf(x)'
           /\ \A x \in Keys : RowsOf(x)' # {} <=> (RowsOf(x) # {} \/ x = Key(k))
           /\ found[k] # None => RowsOf(Key(k)) # {}
           /\ ahead' = (ahead \/ (found[k] = None /\ seeding[k] = 0 /\ IsDefault(Key(k))))
<1>. USE DEF RecordsInv, RequestsOK
<1>1. Key(k) \in Keys /\ Value(k) \in Values \cup {Default}
  BY DefaultsAreKeys, RecordsAssumption DEF Write, Key, Value, Positions
<1>2. PICK i \in RowIds :
        /\ IF found[k] # None THEN i = found[k] ELSE rows[i] = None
        /\ rows' = [rows EXCEPT ![i] = [key |-> IF found[k] = None THEN Key(k) ELSE @.key,
                                        value |-> Value(k)]]
  BY DEF Write
<1>3. (found[k] # None => i \in RowsOf(Key(k))) /\ (found[k] = None => rows[i] = None)
      /\ Key(k) \notin gone /\ UNCHANGED gone
  BY <1>2 DEF Write, Refused
<1>4. rows'[i] = [key |-> Key(k), value |-> Value(k)]
  BY <1>2, <1>3 DEF RowsOf, Stored
<1>5. rows'[i] # None /\ rows'[i].key = Key(k)
  BY <1>1, <1>4, RecordsAssumption
<1>6. DOMAIN rows' = RowIds /\ \A m \in RowIds \ {i} : rows'[m] = rows[m]
  BY <1>2
<1>7. \A x \in Keys : i \in RowsOf(x) => x = Key(k)
  BY <1>2, <1>3 DEF RowsOf, Stored
<1>8. \A x \in Keys : RowsOf(x)' = IF x = Key(k) THEN RowsOf(x) \cup {i} ELSE RowsOf(x)
  BY <1>3, <1>5, <1>6, <1>7 DEF RowsOf, Stored
<1>9. Stored' = Stored \cup {i}
  BY <1>3, <1>5, <1>6 DEF Stored
<1>10. \A m \in Stored' : rows'[m].key \in Keys
  BY <1>1, <1>5, <1>6, <1>9 DEF Stored
<1>11. /\ UNCHANGED <<table, gone, faults>>
       /\ ahead' = (ahead \/ (found[k] = None /\ seeding[k] = 0 /\ IsDefault(Key(k))))
  BY DEF Write
<1>. QED
  BY <1>1, <1>3, <1>6, <1>8, <1>9, <1>10, <1>11

\* A Write that is refused ends a request that is no seeding at a missing default.
LEMMA RefusedStep ==
    ASSUME RecordsInv, NEW k \in Requests, Write(k),
           Refused(k)
    PROVE  RecordsInv'
<1>1. End(k) /\ UNCHANGED <<table, rows, gone, seeded, ahead, faults>>
  BY DEF Write, history
<1>2. table = "model_registry" /\ seeding[k] # 0 => Stands(seeding[k])
  BY DefaultsAreKeys DEF RecordsInv, RequestsOK, Refused, Key, Stands, Positions
<1>. QED
  BY <1>1, <1>2, EndStep

\* The write of a request for itself.
LEMMA OwnWriteStep ==
    ASSUME RecordsInv, NEW k \in Requests, Write(k), seeding[k] = 0,
           ~Refused(k)
    PROVE  RecordsInv'
<1>. USE DEF RecordsInv, RequestsOK
<1>1. End(k) /\ UNCHANGED seeded
  BY DEF Write
<1>2. /\ pc'[k] = "idle" /\ seeding'[k] = 0
      /\ \A f \in {pc', key', value', found', seeding'} : DOMAIN f = Requests
      /\ \A j \in Requests \ {k} : /\ pc'[j] = pc[j] /\ key'[j] = key[j] /\ value'[j] = value[j]
                                   /\ found'[j] = found[j] /\ seeding'[j] = seeding[j]
  BY <1>1 DEF End, Goto
<1>3. \A j \in Requests \ {k} : Key(j)' = Key(j) /\ Value(j)' = Value(j)
  BY <1>2 DEF Key, Value
<1>4. \A j \in Requests : pc[j] = "write" => Key(j) \in Keys
  BY DefaultsAreKeys DEF Key, Positions
<1>5. RequestsOK'
  BY <1>1, <1>2, <1>3, <1>4, WriteEffect
<1>6. ASSUME (table = "model_registry" /\ faults = 0 /\ ~ahead)' PROVE SeedingOK'
  <2>1. table = "model_registry" /\ faults = 0 /\ ~ahead
    BY <1>6, WriteEffect
  <2>2. Stored # {}
    BY <2>1 DEF Write, SeedingOK
  <2>3. \A j \in Positions : Stands(j)' <=> Stands(j)
    <3>1. ~(found[k] = None /\ \E j \in Positions : Defaults[j] = Key(k))
      BY <1>6, <2>1, WriteEffect DEF IsDefault, Positions
    <3>2. \A j \in Positions : Defaults[j] = Key(k) => Stands(j)
      BY <3>1, WriteEffect DEF Stands
    <3>. QED
      BY <3>2, WriteEffect, DefaultsAreKeys DEF Stands
  <2>4. Seeded' <=> Seeded
    BY <2>3 DEF Seeded, Stands, Positions
  <2>5. \A j \in Requests : seeding'[j] # 0 => j # k /\ seeding'[j] = seeding[j]
    BY <1>2
  <2>. QED
    BY <1>1, <1>2, <2>1, <2>2, <2>3, <2>4, <2>5, WriteEffect DEF SeedingOK
<1>. QED
  BY <1>5, <1>6 DEF SeedingOK

\* The write of a default: the first of those missing, after which comes the next, or
\* one that stood.
LEMMA SeedStep ==
    ASSUME RecordsInv, NEW k \in Requests, Write(k), seeding[k] # 0,
           ~Refused(k)
    PROVE  RecordsInv'
<1>. USE DEF RecordsInv, RequestsOK
<1>. DEFINE at == seeding[k]
<1>1. at \in Positions /\ at \in Nat /\ at > 0 /\ at <= Len(Defaults) /\ Key(k) = Defaults[at]
  BY DefaultsAreKeys DEF Positions, Key
<1>2. /\ pc[k] = "write" /\ pc'[k] = "find" /\ UNCHANGED <<key, value>>
      /\ found'[k] = None
      /\ seeding'[k] = IF at < Len(Defaults) THEN at + 1 ELSE 0
      /\ \A f \in {pc', found', seeding', seeded'} : DOMAIN f = Requests
      /\ \A j \in Requests \ {k} : /\ pc'[j] = pc[j] /\ found'[j] = found[j]
                                   /\ seeding'[j] = seeding[j] /\ seeded'[j] = seeded[j]
  BY <1>1 DEF Write, Continue, Goto
<1>3. \A j \in Requests \ {k} : Key(j)' = Key(j) /\ Value(j)' = Value(j)
  BY <1>2 DEF Key, Value
<1>4. \A j \in Requests : pc[j] = "write" => Key(j) \in Keys
  BY DefaultsAreKeys DEF Key, Positions
<1>5. RequestsOK'
  <2>1. seeding'[k] = 0 \/ seeding'[k] \in Positions
    BY <1>1, <1>2, DefaultsAreKeys DEF Positions
  <2>. QED
    BY <1>2, <1>3, <1>4, <2>1, WriteEffect
<1>6. ASSUME (table = "model_registry" /\ faults = 0 /\ ~ahead)' PROVE SeedingOK'
  <2>1. table = "model_registry" /\ faults = 0 /\ ~ahead
    BY <1>6, WriteEffect
  <2>2. \A j \in Positions : Stands(j)' <=> Stands(j) \/ j = at
    BY <1>1, WriteEffect, DefaultsAreKeys DEF Stands
  <2>3. \A j \in Positions : j < at => Stands(j)
    BY <1>1, <2>1 DEF SeedingOK
  <2>4. \A i, j \in Positions : i < j /\ Stands(j)' => Stands(i)'
    BY <2>1, <2>2, <2>3 DEF SeedingOK
  <2>5. \A r \in Requests : seeding'[r] # 0 => \A j \in Positions : j < seeding'[r] => Stands(j)'
    <3>1. \A j \in Positions : j < at + 1 => Stands(j)'
      BY <1>1, <2>2, <2>3, DefaultsAreKeys DEF Positions
    <3>2. \A r \in Requests \ {k} : seeding'[r] # 0 =>
              \A j \in Positions : j < seeding'[r] => Stands(j)'
      BY <1>2, <2>1, <2>2 DEF SeedingOK
    <3>. QED
      BY <1>2, <3>1, <3>2
  <2>6. ASSUME ~Seeded' PROVE \E r \in Requests : (seeding[r] # 0 /\ ~Stands(seeding[r]))'
    <3>1. PICK m \in Positions : ~Stands(m)'
      BY <2>6 DEF Seeded, Stands, Positions
    <3>2. ~Stands(m) /\ m # at
      BY <2>2, <3>1
    <3>3. CASE Stands(at)
      <4>1. Stored # {} /\ ~Seeded
        BY <3>2, <3>3 DEF Seeded, Stands, Positions, RowsOf, Stored
      <4>2. PICK r \in Requests : seeding[r] # 0 /\ ~Stands(seeding[r])
        BY <2>1, <4>1 DEF SeedingOK
      <4>3. r # k /\ seeding[r] # at /\ seeding[r] \in Positions
        BY <3>3, <4>2
      <4>. QED
        BY <1>2, <2>2, <4>2, <4>3
    <3>4. CASE ~Stands(at)
      <4>1. m > at
        BY <1>1, <2>3, <3>2 DEF Positions
      <4>2. at + 1 \in Positions /\ at < Len(Defaults)
        BY <1>1, <4>1, DefaultsAreKeys DEF Positions
      <4>3. ~Stands(at + 1)
        BY <1>1, <2>1, <3>4, <4>2 DEF SeedingOK
      <4>4. seeding'[k] = at + 1 /\ at + 1 # at /\ at + 1 # 0
        BY <1>1, <1>2, <4>2
      <4>. QED
        BY <2>2, <4>2, <4>3, <4>4
    <3>. QED
      BY <3>3, <3>4
  <2>. QED
    BY <2>4, <2>5, <2>6, WriteEffect DEF SeedingOK
<1>. QED
  BY <1>5, <1>6 DEF SeedingOK

\* A deletion takes rows away, none of them a model.
LEMMA DeleteStep ==
    ASSUME RecordsInv, NEW x \in Keys, Delete(x)
    PROVE  RecordsInv'
<1>. USE DEF RecordsInv, RequestsOK
<1>1. /\ table # "model_registry" /\ gone' = gone \cup {x}
      /\ UNCHANGED <<table, rows, pc, key, value, found, seeded, seeding, ahead, faults>>
  BY DEF Delete, request
<1>2. \A k \in Requests : Key(k)' = Key(k) /\ Value(k)' = Value(k)
  BY <1>1 DEF Key, Value
<1>3. Stored' \subseteq Stored /\ \A y : y \notin gone' => RowsOf(y) \subseteq RowsOf(y)'
  BY <1>1 DEF Stored, RowsOf
<1>4. RequestsOK'
  BY <1>1, <1>2, <1>3
<1>5. SeedingOK'
  BY <1>1 DEF SeedingOK
<1>. QED
  BY <1>4, <1>5

LEMMA RecordsStep == RecordsInv /\ faults \in Nat /\ [Next]_vars => RecordsInv' /\ faults' \in Nat
<1>. SUFFICES ASSUME RecordsInv, faults \in Nat, [Next]_vars PROVE RecordsInv' /\ faults' \in Nat
  OBVIOUS
<1>1. ASSUME NEW k \in Requests, NEW x \in Keys, NEW v \in Values \cup {None}, Ask(k, x, v)
      PROVE  RecordsInv' /\ faults' \in Nat
  BY <1>1, AskStep DEF Ask
<1>2. ASSUME NEW k \in Requests, EnsureSeeded(k) PROVE RecordsInv' /\ faults' \in Nat
  BY <1>2, EnsureStep DEF EnsureSeeded
<1>3. ASSUME NEW k \in Requests, Find(k) PROVE RecordsInv' /\ faults' \in Nat
  BY <1>3, FindStep DEF Find
<1>4. ASSUME NEW k \in Requests, List(k) PROVE RecordsInv' /\ faults' \in Nat
  BY <1>4, ListStep DEF List
<1>5. ASSUME NEW k \in Requests, Write(k) PROVE RecordsInv' /\ faults' \in Nat
  <2>1. faults' = faults
    BY <1>5 DEF Write
  <2>. QED
    BY <1>5, <2>1, RefusedStep, OwnWriteStep, SeedStep
<1>6. ASSUME NEW k \in Requests, Fault(k) PROVE RecordsInv' /\ faults' \in Nat
  BY <1>6, FaultStep DEF Fault
<1>8. ASSUME NEW x \in Keys, Delete(x) PROVE RecordsInv' /\ faults' \in Nat
  BY <1>8, DeleteStep DEF Delete
<1>7. CASE UNCHANGED vars
  <2>1. \A j : Key(j)' = Key(j) /\ Value(j)' = Value(j)
    BY <1>7 DEF vars, request, Key, Value
  <2>. QED
    BY <1>7, <2>1, SameRows DEF vars, request, history, RecordsInv, RequestsOK, SeedingOK
<1>. QED
  BY <1>1, <1>2, <1>3, <1>4, <1>5, <1>6, <1>7, <1>8 DEF Next

\* However many processes seed the registry at once, fail on each other's rows, list and
\* write models of their own (ensureSeeded): with no other error, and no default inserted
\* by a request of its own, the registry is complete once no process is seeding it.
THEOREM RegistryIsSeeded ==
    Spec => []SeededCompletely
<1>1. Init => RecordsInv /\ faults \in Nat
  BY RecordsInit DEF Init
<1>2. RecordsInv => SeededCompletely
  BY DEF RecordsInv, SeedingOK, SeededCompletely
<1>3. RecordsInv /\ faults \in Nat /\ [Next]_vars => (RecordsInv /\ faults \in Nat)'
  BY RecordsStep
<1>. QED
  BY <1>1, <1>2, <1>3, PTL DEF Spec

-----------------------------------------------------------------------------
(* One row for a key.                                                      *)

\* Requests that have found no row for a key and will insert one.
Inserters(x) == {k \in Requests : pc[k] = "write" /\ found[k] = None /\ Key(k) = x}

\* Who has found no row and is fresh is right.
Looked == \A k \in Requests :
    pc[k] = "write" /\ fresh[k] /\ found[k] = None => RowsOf(Key(k)) = {}

\* What OneRowWithTheLastWrite says of a key, and the rows still to come.
KeyOK(x) ==
    /\ x \notin stale => \A i \in RowsOf(x) : rows[i].value = last[x]
    /\ x \notin stale => (last[x] = None <=> RowsOf(x) = {})
    /\ x \notin stale \/ Unique => \A i, j \in RowsOf(x) : i = j
    /\ IsFiniteSet(RowsOf(x))
    /\ Cardinality(RowsOf(x)) + Cardinality(Inserters(x)) <= Cardinality(Requests)

KeyInv ==
    /\ DOMAIN last = Keys /\ DOMAIN fresh = Requests
    /\ Looked
    /\ \A x \in Keys : KeyOK(x)

\* Subsets of the requests are counted.
LEMMA RequestSubset ==
    ASSUME NEW S, S \subseteq Requests
    PROVE  IsFiniteSet(S) /\ Cardinality(S) \in Nat /\ Cardinality(S) <= Cardinality(Requests)
           /\ Cardinality(Requests) \in Nat
  BY RecordsAssumption, FS_Subset, FS_CardinalityType

LEMMA InsertersAreRequests ==
    ASSUME NEW x
    PROVE  Inserters(x) \subseteq Requests /\ Inserters(x)' \subseteq Requests
  BY DEF Inserters

\* Steps that leave the rows alone, and with them who is the last to write.
LEMMA LookStep ==
    ASSUME KeyInv, UNCHANGED <<table, rows, gone, last, stale>>, DOMAIN fresh' = Requests, Looked',
           \A x \in Keys : RowsOf(x) = {} \/ Inserters(x)' \subseteq Inserters(x)
    PROVE  KeyInv'
<1>1. SUFFICES ASSUME NEW x \in Keys PROVE KeyOK(x)'
  BY DEF KeyInv
<1>2. RowsOf(x)' = RowsOf(x) /\ (Unique' <=> Unique) /\ KeyOK(x)
  BY SameRows DEF Unique, KeyInv
<1>3. Cardinality(RowsOf(x)) + Cardinality(Inserters(x)') <= Cardinality(Requests)
  <2>1. CASE RowsOf(x) = {}
    BY <2>1, InsertersAreRequests, RequestSubset, FS_EmptySet
  <2>2. CASE Inserters(x)' \subseteq Inserters(x)
    <3>1. Cardinality(Inserters(x)') <= Cardinality(Inserters(x))
      BY <2>2, InsertersAreRequests, RequestSubset, FS_Subset
    <3>2. /\ Cardinality(Inserters(x)') \in Nat /\ Cardinality(Inserters(x)) \in Nat
          /\ Cardinality(RowsOf(x)) \in Nat /\ Cardinality(Requests) \in Nat
      BY <1>2, InsertersAreRequests, RequestSubset, FS_CardinalityType DEF KeyOK
    <3>. QED
      BY <1>2, <3>1, <3>2 DEF KeyOK
  <2>. QED
    BY <2>1, <2>2
<1>. QED
  BY <1>2, <1>3 DEF KeyOK

\* Steps of a request other than its write.
LEMMA OtherStep ==
    ASSUME RecordsInv, KeyInv, NEW k \in Requests,
           UNCHANGED <<table, rows, gone, last, stale>>, DOMAIN fresh' = Requests,
           \A j \in Requests \ {k} : /\ pc'[j] = pc[j] /\ found'[j] = found[j]
                                     /\ Key(j)' = Key(j) /\ fresh'[j] = fresh[j],
           \/ pc'[k] # "write"
           \/ pc[k] # "write" /\ (found'[k] = None => RowsOf(Key(k)') = {})
    PROVE  KeyInv'
<1>1. Looked'
  <2>. SUFFICES ASSUME NEW j \in Requests, pc'[j] = "write", fresh'[j], found'[j] = None
                PROVE  RowsOf(Key(j))' = {}
    BY DEF Looked
  <2>1. RowsOf(Key(j))' = RowsOf(Key(j)')
    BY DEF RowsOf, Stored
  <2>2. CASE j = k
    BY <2>1, <2>2
  <2>3. CASE j # k
    BY <2>1, <2>3 DEF KeyInv, Looked
  <2>. QED
    BY <2>2, <2>3
<1>2. ASSUME NEW x \in Keys, RowsOf(x) # {} PROVE Inserters(x)' \subseteq Inserters(x)
  BY <1>2 DEF Inserters
<1>. QED
  BY <1>1, <1>2, LookStep

LEMMA EndKeeps ==
    ASSUME RecordsInv, KeyInv, NEW k \in Requests, End(k),
           UNCHANGED <<table, rows, gone, last, stale, fresh>>
    PROVE  KeyInv'
<1>1. /\ pc'[k] = "idle"
      /\ \A j \in Requests \ {k} : /\ pc'[j] = pc[j] /\ key'[j] = key[j]
                                   /\ found'[j] = found[j] /\ seeding'[j] = seeding[j]
  BY DEF End, Goto, RecordsInv, RequestsOK
<1>2. \A j \in Requests \ {k} : Key(j)' = Key(j)
  BY <1>1 DEF Key
<1>. QED
  BY <1>1, <1>2, OtherStep DEF KeyInv

LEMMA AskKeeps ==
    ASSUME RecordsInv, KeyInv, NEW k \in Requests, NEW x \in Keys, NEW v \in Values \cup {None},
           Ask(k, x, v)
    PROVE  KeyInv'
<1>1. /\ pc'[k] # "write" /\ UNCHANGED <<table, rows, gone, last, stale, fresh>>
      /\ \A j \in Requests \ {k} : /\ pc'[j] = pc[j] /\ key'[j] = key[j]
                                   /\ found'[j] = found[j] /\ seeding'[j] = seeding[j]
  BY DEF Ask, Goto, history, RecordsInv, RequestsOK
<1>2. \A j \in Requests \ {k} : Key(j)' = Key(j)
  BY <1>1 DEF Key
<1>. QED
  BY <1>1, <1>2, OtherStep DEF KeyInv

LEMMA EnsureKeeps ==
    ASSUME RecordsInv, KeyInv, NEW k \in Requests, EnsureSeeded(k)
    PROVE  KeyInv'
<1>1. /\ pc'[k] # "write" /\ UNCHANGED <<table, rows, gone, last, stale>> /\ DOMAIN fresh' = Requests
      /\ \A j \in Requests \ {k} : /\ pc'[j] = pc[j] /\ key'[j] = key[j] /\ fresh'[j] = fresh[j]
                                   /\ found'[j] = found[j] /\ seeding'[j] = seeding[j]
  BY DEF EnsureSeeded, Goto, RecordsInv, RequestsOK, KeyInv
<1>2. \A j \in Requests \ {k} : Key(j)' = Key(j)
  BY <1>1 DEF Key
<1>. QED
  BY <1>1, <1>2, OtherStep

LEMMA FindKeeps ==
    ASSUME RecordsInv, KeyInv, NEW k \in Requests, Find(k)
    PROVE  KeyInv'
<1>1. /\ pc[k] = "find" /\ UNCHANGED <<table, rows, gone, last, stale, key, seeding>>
      /\ DOMAIN fresh' = Requests
      /\ \A j \in Requests \ {k} : /\ pc'[j] = pc[j] /\ fresh'[j] = fresh[j]
                                   /\ found'[j] = found[j]
  BY DEF Find, Goto, RecordsInv, RequestsOK, KeyInv
<1>2. \A j \in Requests : Key(j)' = Key(j)
  BY <1>1 DEF Key
<1>3. found'[k] = None => RowsOf(Key(k)) = {}
  <2>1. None \notin RowIds /\ RowsOf(Key(k)) \subseteq RowIds
    BY RecordsAssumption DEF RowsOf, Stored
  <2>. QED
    BY <2>1 DEF Find, RecordsInv, RequestsOK
<1>. QED
  BY <1>1, <1>2, <1>3, OtherStep

\* The row that a Write which is not refused inserts or updates.
LEMMA WriteRow ==
    ASSUME RecordsInv, NEW k \in Requests, Write(k),
           ~Refused(k)
    PROVE  \E i \in RowIds :
              /\ rows'[i].value = Value(k) /\ \A m \in RowIds \ {i} : rows'[m] = rows[m]
              /\ found[k] = None => i \notin Stored
              /\ found[k] # None => i = found[k] /\ i \in RowsOf(Key(k))
              /\ \A x \in Keys \ {Key(k)} : RowsOf(x)' = RowsOf(x) /\ i \notin RowsOf(x)
              /\ \A x \in Keys : x = Key(k) => RowsOf(x)' = RowsOf(x) \cup {i}
<1>. USE DEF RecordsInv, RequestsOK
<1>1. Key(k) \in Keys /\ Value(k) \in Values \cup {Default}
  BY DefaultsAreKeys, RecordsAssumption DEF Write, Key, Value, Positions
<1>2. PICK i \in RowIds :
        /\ IF found[k] # None THEN i = found[k] ELSE rows[i] = None
        /\ rows' = [rows EXCEPT ![i] = [key |-> IF found[k] = None THEN Key(k) ELSE @.key,
                                        value |-> Value(k)]]
  BY DEF Write
<1>3. (found[k] # None => i \in RowsOf(Key(k))) /\ (found[k] = None => rows[i] = None)
      /\ Key(k) \notin gone /\ UNCHANGED gone
  BY <1>2 DEF Write, Refused
<1>4. rows'[i] = [key |-> Key(k), value |-> Value(k)]
  BY <1>2, <1>3 DEF RowsOf, Stored
<1>5. rows'[i] # None /\ rows'[i].key = Key(k) /\ rows'[i].value = Value(k)
  BY <1>1, <1>4, RecordsAssumption
<1>6. DOMAIN rows' = RowIds /\ \A m \in RowIds \ {i} : rows'[m] = rows[m]
  BY <1>2
<1>7. \A x \in Keys : i \in RowsOf(x) => x = Key(k)
  BY <1>2, <1>3 DEF RowsOf, Stored
<1>8. \A x \in Keys : RowsOf(x)' = IF x = Key(k) THEN RowsOf(x) \cup {i} ELSE RowsOf(x)
  BY <1>3, <1>5, <1>6, <1>7 DEF RowsOf, Stored
<1>9. found[k] = None => i \notin Stored
  BY <1>3 DEF Stored
<1>. QED
  BY <1>1, <1>2, <1>3, <1>5, <1>6, <1>7, <1>8, <1>9

\* A Write that is not refused: an insert takes the place of one of the inserters, an
\* update writes over the only row, unless the request was not fresh.
LEMMA WriteKeeps ==
    ASSUME RecordsInv, KeyInv, NEW k \in Requests, Write(k),
           ~Refused(k)
    PROVE  KeyInv'
<1>. USE DEF RecordsInv, RequestsOK
<1>1. /\ pc[k] = "write" /\ pc'[k] # "write" /\ UNCHANGED table
      /\ Key(k) \in Keys /\ Value(k) \in Values \cup {Default}
      /\ DOMAIN last' = Keys /\ last'[Key(k)] = Value(k)
      /\ \A x \in Keys \ {Key(k)} : last'[x] = last[x]
      /\ stale' = stale \cup {x \in {Key(k)} : ~fresh[k]}
      /\ fresh' = [j \in Requests |-> fresh[j] /\
                      (j = k \/ (seeding[j] = 0 /\ key[j] # Key(k)))]
      /\ \A j \in Requests \ {k} : /\ pc'[j] = pc[j] /\ key'[j] = key[j]
                                   /\ found'[j] = found[j] /\ seeding'[j] = seeding[j]
  BY DefaultsAreKeys, RecordsAssumption
     DEF Write, Continue, End, Goto, Key, Value, Positions, KeyInv
<1>2. PICK i \in RowIds :
        /\ rows'[i].value = Value(k) /\ \A m \in RowIds \ {i} : rows'[m] = rows[m]
        /\ found[k] = None => i \notin Stored
        /\ found[k] # None => i = found[k] /\ i \in RowsOf(Key(k))
        /\ \A x \in Keys \ {Key(k)} : RowsOf(x)' = RowsOf(x) /\ i \notin RowsOf(x)
        /\ \A x \in Keys : x = Key(k) => RowsOf(x)' = RowsOf(x) \cup {i}
  BY WriteRow
<1>3. \A j \in Requests \ {k} : Key(j)' = Key(j)
  BY <1>1 DEF Key
<1>4. Looked'
  <2>. SUFFICES ASSUME NEW j \in Requests, pc'[j] = "write", fresh'[j], found'[j] = None
                PROVE  RowsOf(Key(j))' = {}
    BY DEF Looked
  <2>0. j # k /\ fresh[j] /\ seeding[j] = 0 /\ key[j] # Key(k)
    BY <1>1
  <2>1. j # k /\ fresh[j] /\ seeding[j] = 0 /\ Key(j) # Key(k)
    <3>1. Key(j) = key[j]
      BY <2>0 DEF Key
    <3>. QED
      BY <2>0, <3>1
  <2>2. Key(j) \in Keys /\ RowsOf(Key(j)) = {} /\ Key(j)' = Key(j)
    BY <1>1, <1>3, <2>1 DEF Key, KeyInv, Looked
  <2>3. \A x \in Keys : x = Key(j) => RowsOf(x)' = {}
    BY <1>2, <2>1, <2>2
  <2>4. \A x : x = Key(j)' => RowsOf(Key(j))' = RowsOf(x)'
    BY DEF RowsOf, Stored
  <2>. QED
    BY <2>2, <2>3, <2>4
<1>5. ASSUME NEW x \in Keys, x # Key(k) PROVE KeyOK(x)'
  <2>1. RowsOf(x)' = RowsOf(x) /\ \A m \in RowsOf(x) : rows'[m] = rows[m]
    BY <1>2, <1>5 DEF RowsOf, Stored
  <2>2. Inserters(x)' = Inserters(x)
    BY <1>1, <1>3, <1>5 DEF Inserters
  <2>. QED
    BY <1>1, <1>5, <2>1, <2>2 DEF KeyInv, KeyOK, Unique
<1>6. ASSUME NEW x \in Keys, x = Key(k) PROVE KeyOK(x)'
  <2>1. KeyOK(x) /\ RowsOf(x)' = RowsOf(x) \cup {i}
    BY <1>2, <1>6 DEF KeyInv
  <2>2. Inserters(x)' \subseteq Inserters(x) \ {k}
    BY <1>1, <1>3 DEF Inserters
  <2>3. /\ Cardinality(RowsOf(x)) \in Nat /\ Cardinality(Inserters(x)) \in Nat
        /\ Cardinality(Inserters(x)') \in Nat /\ Cardinality(Requests) \in Nat
        /\ IsFiniteSet(Inserters(x)) /\ IsFiniteSet(RowsOf(x))
    BY <2>1, InsertersAreRequests, RequestSubset, FS_CardinalityType DEF KeyOK
  <2>4. x \notin stale' => x \notin stale /\ fresh[k]
    BY <1>1, <1>6
  <2>5. last'[x] = Value(k) /\ Value(k) # None /\ rows'[i].value = Value(k)
    BY <1>1, <1>2, <1>6, RecordsAssumption
  <2>6. CASE found[k] = None
    <3>1. k \in Inserters(x)
      BY <1>1, <1>6, <2>6 DEF Inserters
    <3>2. Cardinality(Inserters(x)') <= Cardinality(Inserters(x)) - 1
      <4>1. /\ IsFiniteSet(Inserters(x) \ {k})
            /\ Cardinality(Inserters(x) \ {k}) = Cardinality(Inserters(x)) - 1
        BY <2>3, <3>1, FS_RemoveElement
      <4>. QED
        BY <2>2, <4>1, FS_Subset
    <3>3. IsFiniteSet(RowsOf(x)') /\ Cardinality(RowsOf(x)') <= Cardinality(RowsOf(x)) + 1
      <4>1. /\ IsFiniteSet(RowsOf(x) \cup {i})
            /\ Cardinality(RowsOf(x) \cup {i})
                  = IF i \in RowsOf(x) THEN Cardinality(RowsOf(x)) ELSE Cardinality(RowsOf(x)) + 1
        BY <2>3, FS_AddElement
      <4>. QED
        BY <2>1, <2>3, <4>1
    <3>4. Cardinality(RowsOf(x)') \in Nat
      BY <3>3, FS_CardinalityType
    <3>5. Cardinality(RowsOf(x)') + Cardinality(Inserters(x)') <= Cardinality(Requests)
      BY <2>1, <2>3, <3>2, <3>3, <3>4 DEF KeyOK
    <3>6. x \notin stale' \/ Unique => RowsOf(x)' = {i}
      <4>1. x \notin stale' \/ Unique => RowsOf(x) = {}
        BY <1>1, <1>6, <2>4, <2>6 DEF KeyInv, Looked, Refused
      <4>. QED
        BY <2>1, <4>1
    <3>7. (Unique' <=> Unique) /\ (x \notin stale)' = (x \notin stale')
      BY <1>1 DEF Unique
    <3>. QED
      BY <2>1, <2>5, <3>3, <3>5, <3>6, <3>7 DEF KeyOK
  <2>7. CASE found[k] # None
    <3>1. RowsOf(x)' = RowsOf(x) /\ i \in RowsOf(x)
      BY <1>2, <1>6, <2>1, <2>7
    <3>2. Cardinality(Inserters(x)') <= Cardinality(Inserters(x))
      BY <2>2, <2>3, FS_Subset
    <3>3. x \notin stale' => RowsOf(x) = {i}
      BY <2>1, <2>4, <3>1 DEF KeyOK
    <3>4. Cardinality(RowsOf(x)') + Cardinality(Inserters(x)') <= Cardinality(Requests)
      <4>1. Cardinality(RowsOf(x)') = Cardinality(RowsOf(x))
        BY <3>1
      <4>2. Cardinality(RowsOf(x)) + Cardinality(Inserters(x)) <= Cardinality(Requests)
        BY <2>1 DEF KeyOK
      <4>. QED
        BY <2>3, <3>2, <4>1, <4>2
    <3>5. Unique' <=> Unique
      BY <1>1 DEF Unique
    <3>. QED
      BY <2>1, <2>5, <3>1, <3>3, <3>4, <3>5 DEF KeyOK
  <2>. QED
    BY <2>6, <2>7
<1>. QED
  BY <1>1, <1>4, <1>5, <1>6 DEF KeyInv

\* A deletion takes the rows of a key and what was last written for it.
LEMMA DeleteKeeps ==
    ASSUME RecordsInv, KeyInv, NEW y \in Keys, Delete(y)
    PROVE  KeyInv'
<1>1. /\ gone' = gone \cup {y} /\ DOMAIN last' = Keys /\ last'[y] = None
      /\ \A x \in Keys \ {y} : last'[x] = last[x]
      /\ UNCHANGED <<table, rows, fresh, stale, pc, key, found, seeding>>
  BY DEF Delete, request, KeyInv
<1>2. \A x : RowsOf(x)' = IF x = y THEN {} ELSE RowsOf(x)
  BY <1>1 DEF RowsOf, Stored
<1>3. \A k \in Requests : Key(k)' = Key(k)
  BY <1>1 DEF Key
<1>4. Looked'
  <2>. SUFFICES ASSUME NEW j \in Requests, pc'[j] = "write", fresh'[j], found'[j] = None
                PROVE  RowsOf(Key(j))' = {}
    BY DEF Looked
  <2>1. RowsOf(Key(j)) = {} /\ Key(j)' = Key(j)
    BY <1>1, <1>3 DEF KeyInv, Looked
  <2>2. RowsOf(Key(j))' \subseteq RowsOf(Key(j))
    BY <1>1, <2>1 DEF RowsOf, Stored
  <2>. QED
    BY <2>1, <2>2
<1>5. ASSUME NEW x \in Keys PROVE KeyOK(x)'
  <2>1. KeyOK(x) /\ Inserters(x)' = Inserters(x) /\ (Unique' <=> Unique)
    BY <1>1, <1>3 DEF KeyInv, Inserters, Unique
  <2>2. CASE x = y
    <3>1. RowsOf(x)' = {} /\ last'[x] = None
      BY <1>1, <1>2, <2>2
    <3>2. Cardinality(RowsOf(x)') = 0 /\ IsFiniteSet(RowsOf(x)')
      BY <3>1, FS_EmptySet
    <3>3. Cardinality(RowsOf(x)') + Cardinality(Inserters(x)) <= Cardinality(Requests)
      BY <3>2, InsertersAreRequests, RequestSubset
    <3>. QED
      BY <2>1, <3>1, <3>2, <3>3 DEF KeyOK
  <2>3. CASE x # y
    BY <1>1, <1>2, <2>1, <2>3 DEF KeyOK
  <2>. QED
    BY <2>2, <2>3
<1>. QED
  BY <1>1, <1>4, <1>5 DEF KeyInv

LEMMA KeyStep == RecordsInv /\ KeyInv /\ [Next]_vars => KeyInv'
<1>. SUFFICES ASSUME RecordsInv, KeyInv, [Next]_vars PROVE KeyInv'
  OBVIOUS
<1>1. ASSUME NEW k \in Requests, NEW x \in Keys, NEW v \in Values \cup {None}, Ask(k, x, v)
      PROVE  KeyInv'
  BY <1>1, AskKeeps
<1>2. ASSUME NEW k \in Requests, EnsureSeeded(k) PROVE KeyInv'
  BY <1>2, EnsureKeeps
<1>3. ASSUME NEW k \in Requests, Find(k) PROVE KeyInv'
  BY <1>3, FindKeeps
<1>4. ASSUME NEW k \in Requests, List(k) \/ Fault(k) PROVE KeyInv'
  BY <1>4, EndKeeps DEF List, Fault, history
<1>5. ASSUME NEW k \in Requests, Write(k) PROVE KeyInv'
  <2>1. CASE Refused(k)
    BY <1>5, <2>1, EndKeeps DEF Write, history
  <2>. QED
    BY <1>5, <2>1, WriteKeeps
<1>7. ASSUME NEW x \in Keys, Delete(x) PROVE KeyInv'
  BY <1>7, DeleteKeeps
<1>6. CASE UNCHANGED vars
  <2>1. /\ UNCHANGED <<table, rows, gone, last, stale, fresh, pc, found>>
        /\ \A j : Key(j)' = Key(j)
    BY <1>6 DEF vars, request, history, Key
  <2>2. Looked' /\ \A x \in Keys : Inserters(x)' = Inserters(x)
    BY <2>1, SameRows DEF Looked, Inserters, KeyInv
  <2>. QED
    BY <2>1, <2>2, LookStep DEF KeyInv
<1>. QED
  BY <1>1, <1>2, <1>3, <1>4, <1>5, <1>6, <1>7 DEF Next

\* Without a request that wrote on what it no longer knew there is one row for a key, with
\* the last value, also where no index is unique; never more rows than requests at once.
THEOREM OneRowForAKey == Spec => []OneRowWithTheLastWrite
<1>1. Init => RecordsInv /\ faults \in Nat
  BY RecordsInit DEF Init
<1>2. Init => KeyInv
  <2>. SUFFICES ASSUME Init PROVE KeyInv
    OBVIOUS
  <2>1. DOMAIN last = Keys /\ DOMAIN fresh = Requests /\ Looked
    BY DEF Init, Looked
  <2>2. ASSUME NEW x \in Keys PROVE KeyOK(x)
    <3>1. RowsOf(x) = {} /\ Inserters(x) = {} /\ last[x] = None
      BY DEF Init, RowsOf, Inserters, Stored
    <3>. QED
      BY <3>1, FS_EmptySet, FS_CardinalityType, RecordsAssumption DEF KeyOK
  <2>. QED
    BY <2>1, <2>2 DEF KeyInv
<1>3. KeyInv => OneRowWithTheLastWrite
  <2>. SUFFICES ASSUME KeyInv, NEW x \in Keys
                PROVE /\ x \notin stale => {rows[i].value : i \in RowsOf(x)} = {last[x]} \ {None}
                      /\ x \notin stale \/ Unique => Cardinality(RowsOf(x)) <= 1
                      /\ Cardinality(RowsOf(x)) <= Cardinality(Requests)
    BY DEF OneRowWithTheLastWrite
  <2>1. KeyOK(x)
    BY DEF KeyInv
  <2>2. ASSUME x \notin stale PROVE {rows[i].value : i \in RowsOf(x)} = {last[x]} \ {None}
    BY <2>1, <2>2 DEF KeyOK
  <2>3. ASSUME x \notin stale \/ Unique PROVE Cardinality(RowsOf(x)) <= 1
    <3>1. CASE RowsOf(x) = {}
      BY <3>1, FS_EmptySet
    <3>2. CASE RowsOf(x) # {}
      <4>1. PICK i \in RowsOf(x) : RowsOf(x) = {i}
        BY <2>1, <2>3, <3>2 DEF KeyOK
      <4>. QED
        BY <4>1, FS_Singleton
    <3>. QED
      BY <3>1, <3>2
  <2>4. /\ Cardinality(RowsOf(x)) \in Nat /\ Cardinality(Inserters(x)) \in Nat
        /\ Cardinality(Requests) \in Nat
    BY <2>1, InsertersAreRequests, RequestSubset, FS_CardinalityType DEF KeyOK
  <2>. QED
    BY <2>1, <2>2, <2>3, <2>4 DEF KeyOK
<1>4. RecordsInv /\ faults \in Nat /\ [Next]_vars => (RecordsInv /\ faults \in Nat)'
  BY RecordsStep
<1>. QED
  BY <1>1, <1>2, <1>3, <1>4, KeyStep, PTL DEF Spec
=============================================================================
