----------------------------- MODULE TokenFuzz -----------------------------
(***************************************************************************)
(* The example of soroban-fuzzer/examples/token_fuzz.rs: a token that      *)
(* leaves set_fee_bps unprotected, and the target that fuzzes it.  Amounts *)
(* are small naturals.  The target states no preconditions, so a shrunk    *)
(* case may transfer what the model knows the sender not to have.          *)
(***************************************************************************)
EXTENDS Integers, FiniteSets, Functions

CONSTANTS Actors, Admin, Token, Amounts, Fees, Jumps, InitialSupply

ASSUME TokenAssumption ==
  /\ IsFiniteSet(Actors) /\ Admin \in Actors
  /\ Amounts \subseteq Nat /\ Jumps \subseteq Nat /\ InitialSupply \in Nat

InstanceKey(name) == [owner |-> Token, kind |-> "instance", name |-> name]
BalanceKey(who)   == [owner |-> Token, kind |-> "persistent", name |-> who]

TokenKeys == {InstanceKey(name) : name \in {"admin", "total", "fee"}}
               \cup {BalanceKey(who) : who \in Actors}

\* get(..).unwrap_or(0)
Get(view, key) == IF key \in DOMAIN view THEN view[key] ELSE 0

Entry(val) == [val |-> val, until |-> 0]

\* What __constructor leaves.
Deployed ==
  [k \in {InstanceKey(name) : name \in {"admin", "total", "fee"}}
           \cup {BalanceKey(Admin)} |->
     Entry(CASE k = InstanceKey("admin") -> Admin
             [] k = InstanceKey("fee")   -> 0
             [] OTHER                    -> InitialSupply)]

-----------------------------------------------------------------------------
(* The contract: who must authorize a call, whether it then goes through,  *)
(* and what it writes.                                                     *)

Demands(call) ==
  CASE call.fn = "mint"     -> {call.admin}
    [] call.fn = "transfer" -> {call.from}
    [] OTHER                -> {}   \* the planted bug: set_fee_bps too

Panics(call, view) ==
  \/ call.fn = "mint" /\ Get(view, InstanceKey("admin")) # call.admin
  \/ call.fn = "transfer" /\ Get(view, BalanceKey(call.from)) < call.amount

\* set(..)
Put(view, key, val) ==
  [k \in DOMAIN view \cup {key} |-> IF k = key THEN val ELSE view[k]]

\* The receiver's balance is read after the sender's has been written.
Moved(view, from, to, amount) ==
  LET debited  == Put(view, BalanceKey(from), Get(view, BalanceKey(from)) - amount)
      credited == Put(debited, BalanceKey(to), Get(debited, BalanceKey(to)) + amount)
  IN  [k \in {BalanceKey(from), BalanceKey(to)} |-> credited[k]]

Sets(call, view) ==
  CASE call.fn = "mint" ->
         [k \in {BalanceKey(call.to), InstanceKey("total")} |->
            Get(view, k) + call.amount]
    [] call.fn = "transfer" -> Moved(view, call.from, call.to, call.amount)
    [] call.fn = "set_fee_bps" -> [k \in {InstanceKey("fee")} |-> call.bps]
    [] OTHER -> <<>>

-----------------------------------------------------------------------------
(* The target *)

TokenModel == [who \in Actors |-> IF who = Admin THEN InitialSupply ELSE 0]

\* The actions generated in one state or another.
TokenActions ==
  [act : {"mint"}, to : Actors, amount : Amounts]
    \cup [act : {"advance_ledger"}, ledgers : Jumps]
    \cup [act : {"set_fee"}, bps : Fees]
    \cup [act : {"transfer"}, from : Actors, to : Actors, amount : Amounts]

TokenNext(balances, a) ==
  CASE a.act = "mint"     -> [balances EXCEPT ![a.to] = @ + a.amount]
    [] a.act = "transfer" -> [[balances EXCEPT ![a.from] = @ - a.amount]
                                EXCEPT ![a.to] = @ + a.amount]
    [] OTHER              -> balances

MintCall(a) == [fn |-> "mint", admin |-> Admin, to |-> a.to, amount |-> a.amount]
TransferCall(a) ==
  [fn |-> "transfer", from |-> a.from, to |-> a.to, amount |-> a.amount]

TokenScript(a) ==
  CASE a.act = "mint" ->
         << [op |-> "authorize", who |-> Admin, call |-> MintCall(a)],
            [op |-> "call", call |-> MintCall(a), then |-> "expect_ok"] >>
    [] a.act = "transfer" ->
         << [op |-> "authorize", who |-> a.from, call |-> TransferCall(a)],
            [op |-> "call", call |-> TransferCall(a), then |-> "expect_ok"] >>
    [] a.act = "advance_ledger" ->
         << [op |-> "advance", ledgers |-> a.ledgers] >>
    [] a.act = "set_fee" ->
         << [op |-> "call_without_auth",
             call |-> [fn |-> "set_fee_bps", bps |-> a.bps],
             then |-> "expect_rejected"] >>

\* balances-and-supply-match-model, and at most 64 entries; the four view
\* calls of the first are one.
TokenInvariants(max) ==
  << [kind |-> "fn", initial |-> TRUE, call |-> [fn |-> "views"]],
     [kind |-> "growth", initial |-> TRUE, store |-> "total", max |-> max] >>

\* Each balance is the model's, and the supply their sum.
BalancesMatch(view, balances) ==
  /\ \A who \in Actors : Get(view, BalanceKey(who)) = balances[who]
  /\ Get(view, InstanceKey("total")) = FoldFunction(+, 0, balances)
=============================================================================
