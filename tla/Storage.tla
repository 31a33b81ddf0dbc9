------------------------------ MODULE Storage ------------------------------
(***************************************************************************)
(* Snapshots of the test host's ledger and what changed between two of     *)
(* them (soroban-fuzzer/src/storage.rs).  A storage key is a record of the *)
(* contract that owns it, its durability and its name; the ledger maps the *)
(* keys it stores to a value and the last ledger the entry lives to.  A    *)
(* snapshot maps the keys it caught to their values.                       *)
(***************************************************************************)
EXTENDS Naturals, FiniteSets

StoreKinds == {"instance", "persistent", "temporary"}

OfKind(keys, kind) == {k \in keys : k.kind = kind}

-----------------------------------------------------------------------------
(* Capturing *)

\* The owners a contract list restricts a snapshot to, or every owner: an
\* empty list is no restriction, never a snapshot that sees nothing.
FilterFor(contracts, owners) == IF contracts = {} THEN owners ELSE contracts

\* Expired entries the host has not read since are still stored.
CaptureFiltered(ledger, owners) ==
  [k \in {x \in DOMAIN ledger : x.owner \in owners} |-> ledger[k].val]

Owners(ledger) == {k.owner : k \in DOMAIN ledger}

Capture(ledger) == CaptureFiltered(ledger, Owners(ledger))

\* Mutation: a target that tracks nothing gets a snapshot of nothing.
CaptureTracked(ledger, contracts) == CaptureFiltered(ledger, contracts)

CaptureScoped(ledger, contracts) ==
  CaptureFiltered(ledger, FilterFor(contracts, Owners(ledger)))

\* The part of a snapshot already taken that the contracts own.
Scoped(snapshot, contracts) ==
  [k \in {x \in DOMAIN snapshot :
            x.owner \in FilterFor(contracts, Owners(snapshot))} |-> snapshot[k]]

CountsFor(snapshot, contract) ==
  [kind \in StoreKinds |->
     Cardinality({k \in OfKind(DOMAIN snapshot, kind) : k.owner = contract})]

Counts(snapshot) ==
  [kind \in StoreKinds |-> Cardinality(OfKind(DOMAIN snapshot, kind))]

Total(counts) ==
  counts["instance"] + counts["persistent"] + counts["temporary"]

-----------------------------------------------------------------------------
(* Comparing *)

\* Keys in either snapshot whose entry appeared, disappeared or changed.
AddedKeys(before, after)   == DOMAIN after \ DOMAIN before
RemovedKeys(before, after) == DOMAIN before \ DOMAIN after
UpdatedKeys(before, after) ==
  {k \in DOMAIN before \cap DOMAIN after : before[k] # after[k]}

\* Mutation: only the keys of the later snapshot are gone through.
DiffOfLater(before, after, kind) ==
  [added   |-> Cardinality(OfKind(AddedKeys(before, after), kind)),
   removed |-> 0,
   updated |-> Cardinality(OfKind(UpdatedKeys(before, after), kind))]

DiffKind(before, after, kind) ==
  [added   |-> Cardinality(OfKind(AddedKeys(before, after), kind)),
   removed |-> Cardinality(OfKind(RemovedKeys(before, after), kind)),
   updated |-> Cardinality(OfKind(UpdatedKeys(before, after), kind))]

Diff(before, after) ==
  [kind \in StoreKinds |-> DiffKind(before, after, kind)]

ChangeSets == [added : Nat, removed : Nat, updated : Nat]

NoDelta == [kind \in StoreKinds |-> [added |-> 0, removed |-> 0, updated |-> 0]]

\* ChangeSet::writes and is_empty.
Writes(changes) == changes.added + changes.removed + changes.updated
NoWrites(changes) == Writes(changes) = 0

\* StorageDelta::is_empty.
IsEmpty(delta) == \A kind \in StoreKinds : NoWrites(delta[kind])
=============================================================================
