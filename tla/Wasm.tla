-------------------------------- MODULE Wasm --------------------------------
(***************************************************************************)
(* Reading a compiled contract (soroban-budget/src/module.rs).             *)
(*                                                                         *)
(* A binary is what wasmparser yields of a file: whether every payload     *)
(* could be read, the number of imported functions, the number of declared *)
(* ones, a body per code entry, and the exports [name, kind, to].  A body  *)
(* is a sequence of operators [op, to]; op is "call" (to the function with *)
(* index to), "call_indirect", "loop", "branch" (br, br_if, br_table),     *)
(* "if", "end", or "plain" for every operator the reader does not tell     *)
(* apart.  Names and the wording of errors are left out: an import is its  *)
(* index, and an error is a refusal.                                       *)
(***************************************************************************)
EXTENDS Ordering

Operators ==
  [op : {"call", "call_indirect", "loop", "branch", "if", "end", "plain"},
   to : Nat]

Exports == [name : STRING, kind : STRING, to : Nat]

\* What is read of a file.
WasmFiles ==
  [readable : BOOLEAN, imports : Nat, declared : Nat,
   bodies : Seq(Seq(Operators)), exports : Seq(Exports)]

Sites(body, op) == {i \in 1..Len(body) : body[i].op = op}

\* What is called from those sites of a body, in the order of the body.
Targets(body, sites) ==
  LET order == Ordered(sites) IN [i \in 1..Len(order) |-> body[order[i]].to]

CallSites(body, base) == {i \in Sites(body, "call") : body[i].to >= base}

\* Mutation: the split is off by one, so the first defined function is host.
ReadBodyOffByOne(body, base) ==
  [instructions |-> Len(body) - Cardinality(Sites(body, "end")),
   calls        |-> Targets(body, CallSites(body, base + 1)),
   hostCalls    |-> Targets(body, Sites(body, "call") \ CallSites(body, base + 1)),
   indirect     |-> Cardinality(Sites(body, "call_indirect")),
   loops        |-> Cardinality(Sites(body, "loop"))]

\* What one body contains, its calls split at the first defined index.
ReadBody(body, base) ==
  [instructions |-> Len(body) - Cardinality(Sites(body, "end")),
   calls        |-> Targets(body, CallSites(body, base)),
   hostCalls    |-> Targets(body, Sites(body, "call") \ CallSites(body, base)),
   indirect     |-> Cardinality(Sites(body, "call_indirect")),
   loops        |-> Cardinality(Sites(body, "loop"))]

\* The exports that are functions, in the order of the section.
FunctionExports(binary) ==
  LET order == Ordered({i \in 1..Len(binary.exports) : binary.exports[i].kind = "func"})
  IN  [i \in 1..Len(order) |-> binary.exports[order[i]]]

\* Why parse returns an error.
Refused(binary) ==
  \/ ~binary.readable
  \/ binary.bodies = <<>> /\ binary.declared = 0
  \/ Len(binary.bodies) # binary.declared
  \/ \E i \in 1..Len(FunctionExports(binary)) :
       FunctionExports(binary)[i].to >= binary.imports + Len(binary.bodies)

\* The module parse returns otherwise.
Parsed(binary) ==
  [imports   |-> binary.imports,
   functions |-> [i \in 1..Len(binary.bodies) |->
                    ReadBody(binary.bodies[i], binary.imports)],
   exports   |-> FunctionExports(binary)]

\* The indices of the functions a module imports and of those it defines.
HostImports(module) == 0..(module.imports - 1)
Defined(module) ==
  module.imports..(module.imports + Len(module.functions) - 1)

\* function(index): the facts of a defined function.
Function(module, index) == module.functions[index - module.imports + 1]

Facts ==
  [instructions : Nat, calls : Seq(Nat), hostCalls : Seq(Nat),
   indirect : Nat, loops : Nat]
=============================================================================
