------------------------------- MODULE Records -------------------------------
(***************************************************************************)
(* The services that look a row up by its key and then write it, in two    *)
(* statements: consents and legal bases (compliance.service.ts),           *)
(* configurations of a domain (domain-config.service.ts) and models        *)
(* (model-registry.service.ts).  Only the tables of legal bases and models *)
(* have a unique index on the key, and only the registry of models fills   *)
(* itself with defaults, when its first request finds it empty.            *)
(*                                                                         *)
(* Each slot of Requests stands for a process of the API that handles one  *)
(* request after the other.  The user or the workflow a key names may be   *)
(* deleted between the two statements, and the rows of the key with it.    *)
(***************************************************************************)
EXTENDS Integers, FiniteSets, Sequences

CONSTANTS
    Keys, Values,
    RowIds,         \* numbered as the rows are inserted
    Defaults,       \* DEFAULT_MODELS: a sequence of keys
    Default,        \* what the seeding writes
    Requests,
    None,           \* no row, no value
    MaxRequests,    \* bound: requests
    MaxFaults       \* bound: statements that throw

ASSUME RecordsAssumption ==
    /\ Defaults \in Seq(Keys) /\ Len(Defaults) > 0
    /\ \A i, j \in 1..Len(Defaults) : Defaults[i] = Defaults[j] => i = j
    /\ Default \notin Values
    /\ None \notin Values \cup RowIds \cup {Default} \cup [key : Keys, value : Values \cup {Default}]
    /\ RowIds \subseteq Nat
    /\ IsFiniteSet(Requests)
    /\ {MaxRequests, MaxFaults} \subseteq Nat

Tables == {"user_consents", "domain_configs", "workflow_legal_basis", "model_registry"}

VARIABLES
    table, rows,    \* the table, and the rows ever inserted: [key, value], or None
    gone,           \* keys whose user or workflow is deleted: their rows went with it
    (* a request *)
    pc, key, value, \* value = None for a request that only lists
    found,          \* the id its SELECT has found, or None
    seeded,         \* the flag of the process
    seeding,        \* which of the defaults it is writing, or 0
    (* history *)
    last,           \* the value last written for a key, or None
    fresh,          \* nobody else wrote what the request relies on
    stale,          \* keys written by a request that was not fresh
    ahead,          \* a request, not the seeding, has inserted one of the defaults
    requests, faults

request == <<pc, key, value, found>>
history == <<last, fresh, stale, ahead>>
vars == <<table, rows, gone, request, seeded, seeding, history, requests, faults>>

Unique == table \in {"workflow_legal_basis", "model_registry"}
Stored == {i \in RowIds : rows[i] # None /\ rows[i].key \notin gone}
RowsOf(x) == {i \in Stored : rows[i].key = x}

Init ==
    /\ table \in Tables /\ rows = [i \in RowIds |-> None] /\ gone = {}
    /\ pc = [k \in Requests |-> "idle"] /\ key = [k \in Requests |-> None]
    /\ value = [k \in Requests |-> None] /\ found = [k \in Requests |-> None]
    /\ seeded = [k \in Requests |-> FALSE] /\ seeding = [k \in Requests |-> 0]
    /\ last = [x \in Keys |-> None] /\ fresh = [k \in Requests |-> TRUE] /\ stale = {} /\ ahead = FALSE
    /\ requests = 0 /\ faults = 0

(* What the statement at hand is about. *)
Key(k) == IF seeding[k] > 0 THEN Defaults[seeding[k]] ELSE key[k]
Value(k) == IF seeding[k] > 0 THEN Default ELSE value[k]

IsDefault(x) == table = "model_registry" /\ \E j \in 1..Len(Defaults) : Defaults[j] = x

Goto(k, next) == pc' = [pc EXCEPT ![k] = next]

(* The request is answered, or it throws. *)
End(k) ==
    /\ Goto(k, "idle")
    /\ key' = [key EXCEPT ![k] = None] /\ value' = [value EXCEPT ![k] = None]
    /\ found' = [found EXCEPT ![k] = None] /\ seeding' = [seeding EXCEPT ![k] = 0]

Ask(k, x, v) ==
    /\ pc[k] = "idle" /\ requests < MaxRequests /\ requests' = requests + 1
    /\ v = None => table = "model_registry"
    /\ Goto(k, IF table = "model_registry" THEN "ensure" ELSE "find")
    /\ key' = [key EXCEPT ![k] = x] /\ value' = [value EXCEPT ![k] = v]
    /\ UNCHANGED <<table, rows, gone, found, seeded, seeding, history, faults>>

(* ensureSeeded: one look for any row decides on the whole seeding.        *)
EnsureSeeded(k) ==
    /\ pc[k] = "ensure"
    /\ seeding' = [seeding EXCEPT ![k] = IF ~seeded[k] /\ Stored = {} THEN 1 ELSE 0]
    /\ seeded' = [seeded EXCEPT ![k] = @ \/ Stored # {}]
    /\ fresh' = [fresh EXCEPT ![k] = TRUE]
    /\ Goto(k, "find")
    /\ UNCHANGED <<table, rows, gone, key, value, found, last, stale, ahead, requests, faults>>

\* Variant: the SELECT has lost the condition on the key.
FindAny(k) ==
    /\ pc[k] = "find" /\ Value(k) # None
    /\ IF Stored = {} THEN found' = [found EXCEPT ![k] = None]
       ELSE \E i \in Stored : found' = [found EXCEPT ![k] = i]
    /\ fresh' = [fresh EXCEPT ![k] = seeding[k] = 0 \/ @]
    /\ Goto(k, "write")
    /\ UNCHANGED <<table, rows, gone, key, value, seeded, seeding, last, stale, ahead, requests, faults>>
(* SELECT ... LIMIT 1: of several rows for a key it may return any. *)
Find(k) ==
    /\ pc[k] = "find" /\ Value(k) # None
    /\ IF RowsOf(Key(k)) = {} THEN found' = [found EXCEPT ![k] = None]
       ELSE \E i \in RowsOf(Key(k)) : found' = [found EXCEPT ![k] = i]
    /\ fresh' = [fresh EXCEPT ![k] = seeding[k] = 0 \/ @]
    /\ Goto(k, "write")
    /\ UNCHANGED <<table, rows, gone, key, value, seeded, seeding, last, stale, ahead, requests, faults>>

(* list, after ensureSeeded, is one SELECT. *)
List(k) ==
    /\ pc[k] = "find" /\ Value(k) = None
    /\ End(k)
    /\ UNCHANGED <<table, rows, gone, seeded, history, requests, faults>>

\* Variant: the loop stops one short.
ContinueShort(k) ==
    /\ seeding' = [seeding EXCEPT ![k] = IF @ + 1 < Len(Defaults) THEN @ + 1 ELSE 0]
    /\ seeded' = [seeded EXCEPT ![k] = seeding[k] + 1 >= Len(Defaults)]
    /\ found' = [found EXCEPT ![k] = None]
    /\ Goto(k, "find") /\ UNCHANGED <<key, value>>
(* The next of the defaults, or what the request was about. *)
Continue(k) ==
    /\ seeding' = [seeding EXCEPT ![k] = IF @ < Len(Defaults) THEN @ + 1 ELSE 0]
    /\ seeded' = [seeded EXCEPT ![k] = seeding[k] = Len(Defaults)]
    /\ found' = [found EXCEPT ![k] = None]
    /\ Goto(k, "find") /\ UNCHANGED <<key, value>>

(* The UPDATE finds no row, or a foreign key or the unique index refuses   *)
(* the INSERT: the request throws.                                         *)
Refused(k) ==
    \/ Key(k) \in gone
    \/ found[k] = None /\ Unique /\ RowsOf(Key(k)) # {}

(* UPDATE by id, or INSERT. *)
Write(k) ==
    /\ pc[k] = "write"
    /\ IF Refused(k)
       THEN End(k) /\ UNCHANGED <<rows, seeded, history>>
       ELSE /\ \E i \in RowIds :
                 /\ IF found[k] # None THEN i = found[k]
                    ELSE rows[i] = None /\ \A j \in RowIds : rows[j] = None => i <= j
                 /\ rows' = [rows EXCEPT ![i] = [key |-> IF found[k] = None THEN Key(k) ELSE @.key,
                                                 value |-> Value(k)]]
            /\ last' = [last EXCEPT ![Key(k)] = Value(k)]
            /\ stale' = stale \cup {x \in {Key(k)} : ~fresh[k]}
            /\ ahead' = (ahead \/ (found[k] = None /\ seeding[k] = 0 /\ IsDefault(Key(k))))
            /\ fresh' = [j \in Requests |-> fresh[j] /\
                            (j = k \/ (seeding[j] = 0 /\ key[j] # Key(k)))]
            /\ IF seeding[k] > 0 THEN Continue(k) ELSE End(k) /\ UNCHANGED seeded
    /\ UNCHANGED <<table, gone, requests, faults>>

(* A statement throws and the request with it; a seeding is not resumed. *)
Fault(k) ==
    /\ pc[k] # "idle" /\ faults < MaxFaults /\ faults' = faults + 1
    /\ End(k)
    /\ UNCHANGED <<table, rows, gone, seeded, history, requests>>

(* deleteUser, or the DELETE of a workflow: the rows go in a cascade.      *)
(* Nothing deletes a model.                                                *)
Delete(x) ==
    /\ table # "model_registry" /\ x \notin gone
    /\ gone' = gone \cup {x} /\ last' = [last EXCEPT ![x] = None]
    /\ UNCHANGED <<table, rows, request, seeded, seeding, fresh, stale, ahead, requests, faults>>

Next ==
    \/ \E k \in Requests, x \in Keys, v \in Values \cup {None} : Ask(k, x, v)
    \/ \E k \in Requests : EnsureSeeded(k) \/ Find(k) \/ List(k) \/ Write(k) \/ Fault(k)
    \/ \E x \in Keys : Delete(x)

Spec == Init /\ [][Next]_vars

-----------------------------------------------------------------------------
(* Where no request wrote a key after somebody else had since it looked,   *)
(* there is one row for the key, with what was written last: on a table    *)
(* without a unique index too; and nothing counts as written once the user *)
(* or the workflow of the key is deleted.  In any case a key has no more   *)
(* rows than requests looked for it at once (compliance.service.ts:188-229, *)
(* domain-config.service.ts:71-116).                                       *)
OneRowWithTheLastWrite ==
    \A x \in Keys :
        /\ x \notin stale => {rows[i].value : i \in RowsOf(x)} = {last[x]} \ {None}
        /\ x \notin stale \/ Unique => Cardinality(RowsOf(x)) <= 1
        /\ Cardinality(RowsOf(x)) <= Cardinality(Requests)

Seeded == \A j \in 1..Len(Defaults) : RowsOf(Defaults[j]) # {}

(* However many processes find the registry empty at once, and although    *)
(* all but one of them fail on the unique index, the registry has all      *)
(* defaults once none of them is seeding.  Only two things leave it with   *)
(* some of them: a statement that throws for another reason, and a request *)
(* that inserts one of the defaults before the seeding comes to it, which  *)
(* then fails there (model-registry.service.ts:99-112).                    *)
SeededCompletely ==
    /\ table = "model_registry" /\ faults = 0 /\ ~ahead
    /\ Stored # {} /\ \A k \in Requests : seeding[k] = 0
    => Seeded
=============================================================================
