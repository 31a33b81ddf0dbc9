------------------------------ MODULE Detectors -----------------------------
(***************************************************************************)
(* soroban-analyzer/src/detectors: what each detector looks for in one     *)
(* entrypoint, or at one node of its body. The order in which nodes are    *)
(* met, and what has been reported so far, are CheckFile's.                *)
(***************************************************************************)
EXTENDS Syntax

CONSTANT ReadCeiling     \* read_budget::READ_CEILING

ASSUME ReadCeilingAssumption == ReadCeiling \in Nat /\ ReadCeiling < MaxU64

MissingRequireAuth == "soroban-missing-require-auth"
ReadBudget == "soroban-read-budget"
StorageDurability == "soroban-storage-durability"
UnboundedStorageLoop == "soroban-unbounded-storage-loop"
UncheckedArithmetic == "soroban-unchecked-arithmetic"

\* The registry the build script writes: one detector per file, by file name.
Registry ==
    <<MissingRequireAuth, ReadBudget, StorageDurability, UnboundedStorageLoop,
      UncheckedArithmetic>>

(***************************************************************************)
(* missing_require_auth                                                    *)
(***************************************************************************)
\* A call is matched to a function of the file by its bare name.
DelegatesToAnAuthorizingHelper(file, entry) ==
    (CalledMethods(entry.body) \cup CalledFunctions(entry.body))
        \cap LocalFnsThatAuthorize(file) # {}

IsUnauthorized(file, entry) ==
    /\ ~CallsRequireAuth(entry.body)
    /\ ~HasAuthorizingAttribute(entry)
    /\ ~DelegatesToAnAuthorizingHelper(file, entry)
    /\ Writes(entry.body) \cup Movements(entry.body) # {}

\* What the message names: the durabilities written, the methods that move
\* value and the addresses any caller may pass.
Effects(entry) ==
    [writes    |-> {Durability(entry.body.nodes[i]) : i \in Writes(entry.body)} \ {None},
     movements |-> {entry.body.nodes[i].method : i \in Movements(entry.body)},
     addresses |-> AddressParameters(entry)]

(***************************************************************************)
(* read_budget                                                             *)
(***************************************************************************)
Estimates == [total : 0..MaxU64, sites : Nat, unbounded : Nat]
NoEstimate == [total |-> 0, sites |-> 0, unbounded |-> 0]

\* Without the saturation.
PlainAdd(a, b) == a + b

SaturatingAdd(a, b) == IF a + b > MaxU64 THEN MaxU64 ELSE a + b

\* The bound of each loop around a read is asked for from the outside in, up
\* to the first that has none.
BoundsAskedFor(nodes, i) ==
    {l \in LoopsAround(nodes, i) :
        \A k \in LoopsAround(nodes, i) : k < l => StaticLoopBound(nodes[k]) # None}

IsBounded(nodes, i) ==
    \A l \in LoopsAround(nodes, i) : StaticLoopBound(nodes[l]) # None

\* The product of the bounds around a bounded read, None once it overflows.
Product(nodes, i) ==
    LET around == LoopsAround(nodes, i)
        upto[j \in 0..(i - 1)] ==
            IF j = 0 THEN 1
            ELSE IF j \notin around \/ upto[j - 1] = None THEN upto[j - 1]
            ELSE IF upto[j - 1] * StaticLoopBound(nodes[j]) > MaxU64 THEN None
            ELSE upto[j - 1] * StaticLoopBound(nodes[j])
    IN  upto[i - 1]

Cost(nodes, i) == IF Product(nodes, i) \in 0..MaxU64 THEN Product(nodes, i) ELSE MaxU64

\* The sum of the costs taken modulo the width.
WrappingCount(estimate, nodes, i) ==
    IF IsBounded(nodes, i)
    THEN [estimate EXCEPT !.total = (@ + Cost(nodes, i)) % (MaxU64 + 1), !.sites = @ + 1]
    ELSE [estimate EXCEPT !.unbounded = @ + 1]

Count(estimate, nodes, i) ==
    IF IsBounded(nodes, i)
    THEN [estimate EXCEPT !.total = SaturatingAdd(@, Cost(nodes, i)), !.sites = @ + 1]
    ELSE [estimate EXCEPT !.unbounded = @ + 1]

(***************************************************************************)
(* storage_durability                                                      *)
(***************************************************************************)
IsMisplaced(node) ==
    /\ IsStorageWrite(node)
    /\ node.key # None
    /\ \E name \in node.key.names :
          \/ Durability(node) = "temporary" /\ LooksLike(name, DurableWords)
          \/ Durability(node) = "instance" /\ LooksLike(name, PerAccountWords)

(***************************************************************************)
(* unbounded_storage_loop                                                  *)
(***************************************************************************)
TouchesStorage(nodes, l) ==
    \E i \in 1..Len(nodes) : InLoopBody(nodes, l, i) /\ IsStorageMethod(nodes[i])

IsUnboundedLoop(nodes, l) ==
    /\ IsLoop(nodes[l])
    /\ StaticLoopBound(nodes[l]) = None
    /\ TouchesStorage(nodes, l)

\* Where the message says that the count comes from.
Origin(body, l) ==
    IF body.nodes[l].kind = "loop" THEN "break"
    ELSE IF HeaderIdentifiers(body.nodes, l) \cap StorageDerivedBindings(body) # {}
         THEN "storage"
         ELSE "input"

(***************************************************************************)
(* unchecked_arithmetic                                                    *)
(***************************************************************************)
Guarded(nodes, i) == \E a \in 1..(i - 1) : i <= nodes[a].end /\ IsCheckedArithmetic(nodes[a])

AmountOperands(nodes, i) ==
    {name \in Identifiers(nodes, i) : LooksLike(name, AmountWords)}

IsUncheckedArithmetic(nodes, i) ==
    /\ nodes[i].kind = "arith"
    /\ ~Guarded(nodes, i)
    /\ AmountOperands(nodes, i) # {}

=============================================================================
