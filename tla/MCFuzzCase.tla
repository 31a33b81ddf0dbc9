----------------------------- MODULE MCFuzzCase -----------------------------
(***************************************************************************)
(* Contracts and targets for FuzzCase, in suites.  "token" is the example  *)
(* of TokenFuzz.  The others drive a contract with an allowance and a      *)
(* counter in temporary storage (the shape of tests/third_party.rs), and a *)
(* second contract that not every target tracks:                           *)
(*   auth   negative tests, credentials and recording, in every order      *)
(*   ttl    entries that expire between and within actions                 *)
(*   cost   calls at and over a limit, checked or not                      *)
(***************************************************************************)
EXTENDS FuzzCase, TokenFuzz, TLC

CONSTANTS Alice, Bob, TokenId, OtherId

MCActors == {Alice, Bob}

Allowance == [owner |-> TokenId, kind |-> "temporary", name |-> "allowance"]
Collected == [owner |-> TokenId, kind |-> "temporary", name |-> "collected"]
Elsewhere == [owner |-> OtherId, kind |-> "persistent", name |-> "count"]

MCKeys == TokenKeys \cup {Allowance, Collected, Elsewhere}

Fn(fn) == [fn |-> fn]

\* setup may leave every authorization mocked, or a credential unused.
MCWorlds ==
  {[ledger |-> Deployed @@ Elsewhere :> Entry(0), nonces |-> left.nonces,
    seq |-> 0, time |-> 0, auth |-> left.auth] :
     left \in {[nonces |-> {}, auth |-> Enforcing({<<Alice, Fn("approve")>>})],
               [nonces |-> {NonceKey(Alice, 0)}, auth |-> RecordingAuth]}}

\* A limit and what a call at it, over it, or over the footprint uses.
Limits == [l \in {LimitNames[n] : n \in 1..8} |-> 2]

Usage(fn) ==
  CASE fn = "heavy"  -> [NoUsage EXCEPT !["instructions"] = 3, !["write_bytes"] = 2]
    [] fn = "wide"   -> [NoUsage EXCEPT !["disk_read_entries"] = 2,
                                        !["memory_read_entries"] = 5]
    [] OTHER         -> [NoUsage EXCEPT !["instructions"] = 2,
                                        !["memory_read_entries"] = 1,
                                        !["write_entries"] = 1]

MCDemands(call) == CASE call.fn \in {"approve", "typed"} -> {Alice}
                     [] call.fn = "lend" -> {Bob}
                     [] OTHER -> Demands(call)

Bumped(key, view, until) ==
  key :> [val |-> Get(view, key) + 1, until |-> until]

\* approve and collect keep their entry to the next ledger.
MCSets(call, view, seq) ==
  CASE call.fn \in {"approve", "typed"} ->
         Allowance :> [val |-> 1, until |-> seq + 1]
    [] call.fn = "collect"   -> Bumped(Collected, view, seq + 1)
    [] call.fn = "bump"      -> Bumped(InstanceKey("fee"), view, 0)
    [] call.fn = "elsewhere" -> Bumped(Elsewhere, view, 0)
    [] OTHER -> LET sets == Sets(call, view)
                IN  [k \in DOMAIN sets |-> Entry(sets[k])]

MCCode(call, view, seq) ==
  [demands |-> MCDemands(call),
   reads   |-> CASE call.fn = "views"     -> TokenKeys
                 [] call.fn = "allowance" -> {Allowance}
                 [] call.fn \in {"collect", "collected"} -> {Collected}
                 [] OTHER -> {},
   sets    |-> MCSets(call, view, seq),
   dels    |-> IF call.fn = "revoke" THEN {Allowance} ELSE {},
   ends    |-> CASE Panics(call, view)  -> "rejected"
                 [] call.fn = "decline" -> "rejected"
                 [] call.fn = "trap"    -> "error"
                 [] call.fn = "garbled" -> "unreadable"
                 [] OTHER -> "ok",
   refusal |-> IF call.fn = "typed" THEN "error" ELSE "rejected",
   usage   |-> Usage(call.fn)]

Plain(fn, then) == [op |-> "call", call |-> Fn(fn), then |-> then]
Bare(fn) == [op |-> "call_without_auth", call |-> Fn(fn),
             then |-> "expect_rejected"]
Required(fn) == [op |-> "call_requiring_auth", call |-> Fn(fn), who |-> Alice]
Grant(fn) == [op |-> "authorize", who |-> Alice, call |-> Fn(fn)]
Close(n) == [op |-> "close_ledger", ledgers |-> n]

\* The actions of a suite are its scripts.
Scripts(suite) ==
  CASE suite = "auth" ->
         { <<Plain("approve", "into_step")>>, <<Plain("typed", "into_step")>>,
           <<Grant("approve"), Plain("approve", "expect_ok"),
             Plain("approve", "into_step")>>,
           <<Grant("approve"), Plain("collect", "into_step"),
             Plain("approve", "into_step")>>,
           <<Grant("approve")>>,
           <<Grant("approve"), Bare("approve")>>,
           <<Bare("collect")>>, <<Bare("typed")>>,
           <<Required("approve"), Plain("typed", "expect_ok")>>,
           <<Required("approve"), Grant("typed"),
             Plain("approve", "into_step")>>,
           <<Required("collect")>>, <<Required("typed")>>, <<Required("lend")>>,
           << [op |-> "install_auths", auths |-> {<<Alice, Fn("typed")>>,
                                                  <<Alice, Fn("approve")>>}],
              Plain("typed", "unwrap_ok")>>,
           <<Plain("approve", "unwrap_ok")>> }
    [] suite = "ttl" ->
         { <<Plain("collect", "into_step")>>, <<Close(1)>>,
           <<Close(2), Plain("allowance", "expect_ok")>>,
           <<Grant("approve"), Plain("approve", "into_step"), Close(2),
             Plain("collected", "into_step")>>,
           <<Plain("collected", "into_step"), [op |-> "note"],
             Plain("elsewhere", "into_step")>>,
           <<[op |-> "advance", ledgers |-> 1], Plain("revoke", "into_step")>> }
    [] suite = "cost" ->
         { <<Plain("heavy", "into_step")>>, <<Plain("wide", "expect_ok")>>,
           <<[op |-> "call_unchecked", call |-> Fn("heavy"), then |-> "into_step"],
             Plain("elsewhere", "expect_ok")>>,
           <<[op |-> "call_unchecked", call |-> Fn("wide"), then |-> "unwrap_ok"]>>,
           <<Plain("decline", "expect_contract_error")>>,
           <<Plain("trap", "expect_contract_error")>>,
           <<Plain("trap", "expect_rejected")>>,
           <<Bare("heavy")>>,
           <<Plain("garbled", "into_step")>>, <<Plain("garbled", "expect_ok")>> }

MCActions ==
  UNION {[act : {"run"}, ops : Scripts(suite)] : suite \in {"auth", "ttl", "cost"}}
    \cup TokenActions

\* The token's target has none; the others keep to their suite.
MCPreconditions(m, a) ==
  IF m.suite = "token" THEN a.act # "run"
  ELSE a.act = "run" /\ a.ops \in Scripts(m.suite)
MCNextState(m, a) == IF m.suite = "token"
                     THEN [m EXCEPT !.balances = TokenNext(@, a)] ELSE m
MCScript(a) == IF a.act = "run" THEN a.ops ELSE TokenScript(a)
MCExpects(a) == MCScript(a)[1].op = "call_without_auth"

MCHolds(i, view, m) ==
  i.call.fn = "views" => BalancesMatch(view, m.balances)
MCReading(i, view) ==
  IF i.kind = "conserved" THEN Get(view, InstanceKey("total"))
  ELSE Get(view, Collected)

Reader(fn) == [kind |-> "fn", initial |-> TRUE, call |-> Fn(fn)]
Conserved == [kind |-> "conserved", initial |-> TRUE, call |-> Fn("views")]
Growing == [kind |-> "nondecreasing", initial |-> TRUE, call |-> Fn("collected")]
Bounded == [kind |-> "growth", initial |-> TRUE, store |-> "temporary", max |-> 2]
Later(i) == [i EXCEPT !.initial = FALSE]

Target(suite, tracked, invariants) ==
  [initial |-> [suite |-> suite, balances |-> TokenModel],
   tracked |-> tracked, invariants |-> invariants]

MCTargets ==
  { Target("token", {TokenId}, TokenInvariants(7 + MaxActions)),
    Target("token", {TokenId}, <<Conserved>>),
    Target("auth", {}, <<>>),
    Target("auth", {}, <<Reader("bump")>>),
    Target("auth", {}, <<Reader("lend")>>),
    Target("cost", {TokenId}, <<>>),
    Target("ttl", {}, <<Growing, Reader("allowance")>>),
    Target("ttl", {TokenId}, <<Growing, Bounded>>),
    Target("ttl", {TokenId}, <<Reader("allowance"), Reader("elsewhere")>>),
    Target("ttl", {}, <<Later(Reader("bump"))>>),
    Target("ttl", {}, <<Reader("elsewhere")>>),
    Target("ttl", {}, <<Reader("revoke")>>),
    Target("ttl", {}, <<Later(Reader("trap"))>>) }

MCConfigs ==
  [auth : {"strict", "mock_all"}, resources : {"enforce"}, limits : {Limits}]
    \cup [auth : {"strict"}, resources : {"record", "sdk"}, limits : {Limits}]

\* The successful calls of one function in the journal.
Made(fn) ==
  {x \in (1..Len(steps)) \X (1..3) :
     /\ x[2] <= Len(steps[x[1]].calls)
     /\ steps[x[1]].calls[x[2]].label = fn
     /\ steps[x[1]].calls[x[2]].outcome = "ok"}

\* A case that passed lost nothing its invariants watch, wherever in the case
\* it would have been lost: the supply is the one deployed, every collection
\* made is still counted although the counter's entry may expire, and the
\* balances are the model's (SupplyConserved, NonDecreasing, FnInvariant).
PassedCaseLostNothing ==
  pc = "passed" =>
    LET view == View(host)
    IN  \A n \in 1..Len(Invariants) :
          CASE Invariants[n].kind = "conserved" ->
                 Get(view, InstanceKey("total")) = InitialSupply
            [] Invariants[n].kind = "nondecreasing" ->
                 Get(view, Collected) = Cardinality(Made("collect"))
            [] Invariants[n].kind = "fn" -> Holds(Invariants[n], view, model)
            [] OTHER -> Cardinality(OfKind(DOMAIN Entries(host), "temporary"))
                          <= Invariants[n].max
=============================================================================
