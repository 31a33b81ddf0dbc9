------------------------------- MODULE Syntax -------------------------------
(***************************************************************************)
(* soroban-analyzer/src/syntax.rs: the questions the detectors ask of a    *)
(* parsed file.                                                            *)
(*                                                                         *)
(* A function body is [nodes, lets]. `nodes' lists, in the order the       *)
(* syntax walk meets them, the expressions some detector looks at; `end'   *)
(* is the last node inside a node, so that node i covers i..nodes[i].end   *)
(* as its byte range covers the text, and node j is inside node i when     *)
(* i < j <= nodes[i].end. The kinds are the loops "for", "while", "loop"   *)
(* (`body' is the first node of the block, `names' the identifiers of the  *)
(* header), method calls "call" (`chain' holds the methods of the receiver *)
(* chain from the outside in, `client' says that its root looks like a     *)
(* generated client), function calls "fn" and arithmetic "arith". A name   *)
(* is the sequence of its segments, <<"total", "supply">>. `lets' are the  *)
(* let statements of the outermost block, each with the names it binds and *)
(* those its initialiser mentions.                                         *)
(***************************************************************************)
EXTENDS Naturals, Sequences

CONSTANTS
    None,      \* Rust's Option::None
    MaxU64     \* u64::MAX, made small

ASSUME MaxU64Assumption == MaxU64 \in Nat \ {0}

(***************************************************************************)
(* Entrypoints.                                                            *)
(***************************************************************************)
AuthorizingAttributes == {"only_owner", "only_admin", "only_role", "only_any_role"}

\* Every public method of a #[contractimpl] block, and every method at all of
\* one that implements a trait. `impl' is None for a function outside of one.
IsEntrypoint(fn) ==
    /\ fn.impl # None
    /\ "contractimpl" \in fn.impl.attrs
    /\ fn.impl.trait \/ fn.pub

IsExempt(fn) == fn.name = "__constructor" \/ fn.underscored

HasAuthorizingAttribute(fn) == fn.attrs \cap AuthorizingAttributes # {}

\* The names of the parameters whose type mentions an Address.
AddressParameters(fn) == {p.name : p \in {q \in fn.params : "Address" \in q.type}}

(***************************************************************************)
(* Calls.                                                                  *)
(***************************************************************************)
InChain(call, method) == \E k \in 1..Len(call.chain) : call.chain[k] = method

StorageMethods ==
    {"set", "get", "has", "remove", "update", "extend_ttl", "extend_ttl_for_code"}

IsStorageMethod(node) ==
    /\ node.kind = "call"
    /\ node.method \in StorageMethods
    /\ InChain(node, "storage")

IsStorageWrite(node) == IsStorageMethod(node) /\ node.method \in {"set", "remove", "update"}

IsStorageRead(node) == IsStorageMethod(node) /\ node.method \in {"get", "has"}

Durabilities == {"instance", "persistent", "temporary"}

\* The accessor nearest to the call, or None.
Durability(call) ==
    LET named == {k \in 1..Len(call.chain) : call.chain[k] \in Durabilities}
    IN  IF named = {} THEN None
        ELSE call.chain[CHOOSE k \in named : \A l \in named : k <= l]

ValueMethods == {"transfer", "transfer_from", "mint", "burn", "approve", "clawback"}

IsValueMoving(node) == node.kind = "call" /\ node.method \in ValueMethods /\ node.client

IsCheckedArithmetic(node) == node.kind = "call" /\ node.method = "checked"

IsAuthorization(node) ==
    /\ node.kind = "call"
    /\ node.method \in {"require_auth", "require_auth_for_args", "__check_auth"}

\* The nodes of a body that satisfy a test.
At(body) == 1..Len(body.nodes)
Writes(body) == {i \in At(body) : IsStorageWrite(body.nodes[i])}
Reads(body) == {i \in At(body) : IsStorageRead(body.nodes[i])}
Movements(body) == {i \in At(body) : IsValueMoving(body.nodes[i])}
CallsRequireAuth(body) == \E i \in At(body) : IsAuthorization(body.nodes[i])

CalledMethods(body) ==
    UNION {{body.nodes[i].method}
           \cup {body.nodes[i].chain[k] : k \in 1..Len(body.nodes[i].chain)} :
              i \in {j \in At(body) : body.nodes[j].kind = "call"}}

CalledFunctions(body) == {body.nodes[i].name : i \in {j \in At(body) : body.nodes[j].kind = "fn"}}

\* Free functions, those of modules, those declared as a statement of a free
\* function and methods of impl blocks are searched; the default methods of a
\* trait and functions declared deeper are not.
LocalFnsThatAuthorize(file) ==
    {file.fns[k].name : k \in {l \in 1..Len(file.fns) :
                                 /\ file.fns[l].place \in {"impl", "free", "mod", "inner"}
                                 /\ CallsRequireAuth(file.fns[l].body)}}

(***************************************************************************)
(* What a name suggests.                                                   *)
(***************************************************************************)
AmountWords ==
    {"amount", "balance", "balances", "supply", "allowance", "total", "fee", "fees",
     "value", "price", "share", "shares", "asset", "assets", "debt", "reserve",
     "deposit", "principal", "interest", "cap", "collateral", "liquidity"}

DurableWords ==
    {"balance", "balances", "supply", "total", "admin", "owner", "treasury", "reserve",
     "principal", "collateral", "config", "allowance"}

PerAccountWords ==
    {"user", "users", "account", "accounts", "holder", "holders", "sender", "recipient",
     "balance", "balances", "allowance", "allowances", "deposit", "position"}

LooksLike(name, words) == \E k \in 1..Len(name) : name[k] \in words

(***************************************************************************)
(* Loops.                                                                  *)
(***************************************************************************)
IsLoop(node) == node.kind \in {"for", "while", "loop"}

\* The loops around a node: a loop's header is inside it as its body is.
LoopsAround(nodes, i) == {l \in 1..(i - 1) : IsLoop(nodes[l]) /\ i <= nodes[l].end}

InLoopBody(nodes, l, i) == nodes[l].body <= i /\ i <= nodes[l].end

\* The same with the subtraction first: `end - start' and then one.
SubtractsFirst(node) ==
    /\ node.kind = "for" /\ node.iter # None
    /\ node.iter.closed /\ node.iter.start # None /\ node.iter.end # None
    /\ node.iter.end < node.iter.start

\* `a..=b' with a > b + 1: `end.checked_add(1)? - start' subtracts below zero,
\* which both profiles of the workspace turn into a panic.
Underflows(node) ==
    /\ node.kind = "for" /\ node.iter # None
    /\ node.iter.closed /\ node.iter.start # None /\ node.iter.end # None
    /\ node.iter.end # MaxU64
    /\ node.iter.end + 1 < node.iter.start

\* A start that is missing or no literal counts from zero.
RangeLength(range) ==
    LET start == IF range.start = None THEN 0 ELSE range.start
    IN  IF range.end = None THEN None
        ELSE IF range.closed
        THEN IF range.end = MaxU64 \/ range.end + 1 < start THEN None
             ELSE range.end + 1 - start
        ELSE IF range.end < start THEN None ELSE range.end - start

\* A comparison counts as its literal, whichever side it is on.
ComparisonBound(cond) ==
    IF cond.op \notin {"<", "<=", ">", ">="} THEN None
    ELSE IF cond.right # None THEN cond.right ELSE cond.left

StaticLoopBound(node) ==
    CASE node.kind = "for" /\ node.iter # None -> RangeLength(node.iter)
      [] node.kind = "while" /\ node.cond # None -> ComparisonBound(node.cond)
      [] OTHER -> None

(***************************************************************************)
(* Identifiers.                                                            *)
(***************************************************************************)
Identifiers(nodes, i) == UNION {nodes[j].names : j \in i..nodes[i].end}

HeaderIdentifiers(nodes, l) ==
    nodes[l].names \cup UNION {nodes[j].names : j \in (l + 1)..(nodes[l].body - 1)}

\* The names bound by a let that mentions one of `from'.
BoundFrom(lets, from) ==
    UNION {lets[k].names : k \in {l \in 1..Len(lets) : lets[l].init \cap from # {}}}

ReadsBindings(lets) == UNION {lets[k].names : k \in {l \in 1..Len(lets) : lets[l].reads}}

\* A single look at what the storage-reading lets feed, without repeating.
OneRound(body) ==
    ReadsBindings(body.lets) \cup BoundFrom(body.lets, ReadsBindings(body.lets))

\* Rounds over the lets until nothing is added, of which one per let is enough.
StorageDerivedBindings(body) ==
    LET round[k \in 0..Len(body.lets)] ==
            IF k = 0 THEN ReadsBindings(body.lets)
            ELSE round[k - 1] \cup BoundFrom(body.lets, round[k - 1])
    IN  round[Len(body.lets)]

(***************************************************************************)
(* Ranges.                                                                 *)
(***************************************************************************)
\* Only the beginnings compared.
BeginsAfter(from, to, reported) == \E s \in reported : s[1] <= from

SpanContainedIn(from, to, reported) == \E s \in reported : s[1] <= from /\ to <= s[2]

=============================================================================
