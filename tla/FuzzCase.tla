------------------------------ MODULE FuzzCase ------------------------------
(***************************************************************************)
(* One case of a fuzz run: run_case, check_invariants and the runtime      *)
(* handed to the target's `execute` (soroban-fuzzer/src/runner.rs,         *)
(* runtime.rs, storage.rs, invariant.rs, budget.rs).  FuzzRun takes what a *)
(* case does from a table; here it follows from the host, the contract     *)
(* (Code) and the target, whose hooks are the constants below.             *)
(*                                                                         *)
(* An action's `execute` is a script: a sequence of operations on the      *)
(* runtime, left at the first whose outcome is not Ok.  An operation is a  *)
(* record with a field `op`, and the fields that operation takes.          *)
(***************************************************************************)
EXTENDS Runtime

CONSTANTS
  Keys,            \* the storage keys of the contracts deployed
  Worlds,          \* what setup may leave: entries, clock, authorization
  Configs,         \* FuzzConfigs: auth, resources, limits
  NetworkLimits,   \* the SDK's own limits, for ResourcePolicy::Sdk
  Targets,         \* what init_state, tracked_contracts and invariants give
  MaxActions,      \* FuzzConfig::max_actions
  Actions,         \* Target::Action
  Preconditions(_, _), \* Target::preconditions
  NextState(_, _), \* Target::next_state
  Script(_),       \* Target::execute
  Expects(_),      \* Target::expects_rejection
  Holds(_, _, _),  \* the closure of an FnInvariant
  Reading(_, _)    \* the reader of a SupplyConserved or NonDecreasing

\* The operations that call the contract, and the labels of the records that
\* are of no call: no contract has a function of that name.
Invocations == {"call", "call_unchecked", "call_without_auth",
                "call_requiring_auth"}
Markers == {"<note>", "<ledger>"}

\* The operations a target may ask for.
Operations == UNION {{Script(a)[p] : p \in 1..Len(Script(a))} : a \in Actions}

ASSUME ScriptAssumption ==
  /\ \A a \in Actions : Script(a) \in Seq(Operations)
  /\ \A op \in Operations :
       /\ op.op \in {"advance", "close_ledger"} => op.ledgers \in Nat
       /\ op.op \in {"call", "call_unchecked", "call_without_auth"} =>
            op.then \in Conversions
       /\ op.op \in Invocations => op.call.fn \notin Markers

ASSUME WorldAssumption ==
  \A world \in Worlds :
    /\ DOMAIN world.ledger \subseteq Keys
    /\ IsFiniteSet(DOMAIN world.ledger)
    /\ world.seq \in 0..MaxSeq /\ world.time \in 0..MaxTime
    /\ IsFiniteSet(world.nonces)
    /\ \A k \in world.nonces : k = NonceKey(k.owner, k.nonce)
    /\ world.auth \in {RecordingAuth, Enforcing(world.auth.creds)}

ASSUME TargetAssumption ==
  /\ MaxActions \in Nat
  /\ \A t \in Targets :
       t.invariants \in Seq({t.invariants[n] : n \in 1..Len(t.invariants)})

\* No limit on the footprint is as large as what saturates it.
ASSUME LimitAssumption ==
  /\ MaxEntries \in Nat
  /\ \A limits \in {c.limits : c \in Configs} \cup {NetworkLimits} :
       /\ limits["ledger_entries"] \in Nat
       /\ MaxEntries > limits["ledger_entries"]

VARIABLES
  config,
  target,    \* [initial, tracked, invariants]
  host,
  model,
  action,    \* the action in flight, or the last one
  steps,     \* Journal::steps, each with the records of its calls
  failure,   \* Journal::failure
  stats,     \* CaseTally::stats
  pc,
  todo,      \* the operations of the action in flight still to be done
  outcome,   \* the outcome of its last operation
  inv,       \* the invariants checked so far in this pass
  before,    \* the snapshot taken before them
  cells      \* what an invariant object remembers between checks

vars == <<config, target, host, model, action, steps, failure, stats, pc,
          todo, outcome, inv, before, cells>>
inputs == <<config, target>>
checker == <<inv, before, cells>>

-----------------------------------------------------------------------------

\* The case proper begins with what setup left in force: the policy is not
\* yet applied, the journal is empty and the invariant objects are fresh.
Init ==
  /\ config \in Configs
  /\ target \in Targets
  /\ \E world \in Worlds :
       host = [ledger |-> world.ledger, nonces |-> world.nonces,
               seq |-> world.seq, time |-> world.time, auth |-> world.auth,
               auths |-> {}, usage |-> NoUsage]
  /\ model = target.initial
  /\ action = None
  /\ steps = <<>>
  /\ failure = None
  /\ stats = [accepted |-> 0, expected |-> 0, unexpected |-> 0]
  /\ pc = "check"
  /\ todo = <<>>
  /\ outcome = "ok"
  /\ inv = 0
  /\ before = Capture(<<>>)
  /\ cells = [i \in 1..Len(target.invariants) |-> None]

-----------------------------------------------------------------------------
(* check_invariants *)

Invariants == target.invariants

\* A target without invariants is not checked, and no snapshot is taken.
SkipCheck ==
  /\ pc = "check"
  /\ Invariants = <<>>
  /\ pc' = "next"
  /\ UNCHANGED <<inputs, host, model, action, steps, failure, stats, todo,
                 outcome, checker>>

StartCheck ==
  /\ pc = "check"
  /\ Invariants # <<>>
  /\ before' = CaptureScoped(Entries(host), target.tracked)
  /\ inv' = 0
  /\ pc' = "invariant"
  /\ UNCHANGED <<inputs, host, model, action, steps, failure, stats, todo,
                 outcome, cells>>

\* An invariant looks at the contract through a call of its own; the growth
\* bound reads the host's entries, all contracts', instead.
Looked(i, h) == IF i.kind = "growth" THEN [ends |-> "ok", host |-> h]
                ELSE Invoke(h, i.call)

GrowthHolds(i, h) ==
  LET counts == Counts(Capture(Entries(h)))
  IN  (IF i.store \in StoreKinds THEN counts[i.store] ELSE Total(counts))
        <= i.max

\* Mutation: the first value read stays the one compared with.
KeepsFirst(i, cell, seen) == IF cell = None THEN seen ELSE cell

\* What the object remembers: the first value read, or the last one.
Remembers(i, cell, seen) ==
  IF i.kind = "conserved" /\ cell # None THEN cell ELSE seen

\* Does the check pass, and what is remembered after it.
Passes(i, cell, h) ==
  CASE i.kind = "fn"            -> Holds(i, View(h), model)
    [] i.kind = "growth"        -> GrowthHolds(i, h)
    [] i.kind = "conserved"     -> cell \in {None, Reading(i, View(h))}
    [] i.kind = "nondecreasing" -> cell = None \/ cell <= Reading(i, View(h))

\* Mutation: the step is taken to be the next one.
StepsBegun == IF steps = <<>> THEN None ELSE Len(steps)

LastStep == IF steps = <<>> THEN None ELSE steps[Len(steps)].index

Fail(kind) == failure' = [kind |-> kind, step |-> LastStep]

\* The next invariant; one that asks to be left out of the initial check is.
\* A trap in its call is a panic of the case.
CheckInvariant ==
  /\ pc = "invariant"
  /\ inv < Len(Invariants)
  /\ inv' = inv + 1
  /\ LET i      == Invariants[inv + 1]
         looked == Looked(i, host)
     IN  IF steps = <<>> /\ ~i.initial
         THEN UNCHANGED <<host, failure, pc, cells>>
         ELSE /\ host' = looked.host
              /\ IF looked.ends # "ok"
                 THEN pc' = "failed" /\ UNCHANGED <<failure, cells>>
                 ELSE /\ cells' = [cells EXCEPT ![inv + 1] =
                           IF i.kind \in {"fn", "growth"} THEN @
                           ELSE Remembers(i, @, Reading(i, View(looked.host)))]
                      /\ IF Passes(i, cells[inv + 1], looked.host)
                         THEN UNCHANGED <<failure, pc>>
                         ELSE Fail("invariant") /\ pc' = "failed"
  /\ UNCHANGED <<inputs, model, action, steps, stats, todo, outcome, before>>

\* Mutation: a removal counts as a write like any other change.
NothingChanged(delta) == IsEmpty(delta)

\* Reading makes the host reclaim expired temporary entries; nothing else
\* may come of a check.
ReadOnly(delta) ==
  /\ NoWrites(delta["instance"])
  /\ NoWrites(delta["persistent"])
  /\ delta["temporary"].added = 0
  /\ delta["temporary"].updated = 0

\* All passed: the snapshot after them is compared with the one before.
CheckReadOnly ==
  /\ pc = "invariant"
  /\ inv = Len(Invariants)
  /\ IF ReadOnly(Diff(before, CaptureScoped(Entries(host), target.tracked)))
     THEN pc' = "next" /\ UNCHANGED failure
     ELSE Fail("read-only") /\ pc' = "failed"
  /\ UNCHANGED <<inputs, host, model, action, steps, stats, todo, outcome,
                 checker>>

-----------------------------------------------------------------------------
(* The loop over the actions *)

\* Mutation: the policy is applied once, when the environment is made.
LeaveAuth(h, policy) == h

\* Whatever the last action installed is taken back.
ApplyAuthPolicy(h, policy) ==
  IF policy = "strict" THEN SetAuths(h) ELSE MockAllAuths(h)

\* Any action may be next whose preconditions hold: the shrinker tries those
\* generated in one state in another, with no other filter.
BeginStep ==
  /\ pc = "next"
  /\ Len(steps) < MaxActions
  /\ action' \in Actions /\ Preconditions(model, action')
  /\ model' = NextState(model, action')
  /\ steps' = Append(steps, [index |-> Len(steps), action |-> action',
                             outcome |-> "pending", calls |-> <<>>])
  /\ todo' = Script(action')
  /\ host' = ApplyAuthPolicy(host, config.auth)
  /\ outcome' = "ok"
  /\ pc' = "execute"
  /\ UNCHANGED <<inputs, failure, stats, checker>>

\* Every action done: the case passed.
ReturnCase ==
  /\ pc = "next"
  /\ pc' = "passed"
  /\ UNCHANGED <<inputs, host, model, action, steps, failure, stats, todo,
                 outcome, checker>>

Operation(op) ==
  /\ pc = "execute"
  /\ outcome = "ok"
  /\ todo # <<>>
  /\ Head(todo).op = op
  /\ todo' = Tail(todo)
  /\ UNCHANGED <<inputs, model, action, failure, stats, checker>>

\* Journal::push_call: a record goes to the step in flight.
Push(record) == steps' = [steps EXCEPT ![Len(steps)].calls = Append(@, record)]

\* With the SDK's limits in force the host panics over a breach, before the
\* call is journalled.
HostPanics(measured) ==
  /\ config.resources = "sdk"
  /\ FirstBreach(measured.host.usage, NetworkLimits) # None

\* A measured call, and the outcome the script makes of its result.
Measured(measured, result) ==
  /\ host' = measured.host
  /\ IF HostPanics(measured)
     THEN pc' = "failed" /\ UNCHANGED <<steps, outcome>>
     ELSE /\ Push(measured.record)
          /\ outcome' = result
          /\ pc' = IF result = "<panicked>" THEN "failed" ELSE "execute"

DoCall ==
  /\ Operation("call")
  /\ LET m == Call(host, Head(todo).call, config, target.tracked)
     IN  Measured(m, Convert(Head(todo).then, m.result))

DoCallUnchecked ==
  /\ Operation("call_unchecked")
  /\ LET m == CallUnchecked(host, Head(todo).call, config, target.tracked)
     IN  Measured(m, Convert(Head(todo).then, m.result))

DoCallWithoutAuth ==
  /\ Operation("call_without_auth")
  /\ LET m == CallWithoutAuth(host, Head(todo).call, config, target.tracked)
     IN  Measured(m, Convert(Head(todo).then, m.result))

DoCallRequiringAuth ==
  /\ Operation("call_requiring_auth")
  /\ LET m == CallRecorded(host, Head(todo).call, config, target.tracked)
     IN  Measured(m, Demanded(Head(todo).who, m))

DoAuthorize ==
  /\ Operation("authorize")
  /\ host' = Authorize(host, Head(todo).who, Head(todo).call)
  /\ UNCHANGED <<steps, outcome, pc>>

DoInstallAuths ==
  /\ Operation("install_auths")
  /\ host' = InstallAuths(host, Head(todo).auths)
  /\ UNCHANGED <<steps, outcome, pc>>

DoAdvance ==
  /\ Operation("advance")
  /\ host' = Advance(host, Head(todo).ledgers)
  /\ UNCHANGED <<steps, outcome, pc>>

\* The boundary is journalled, the expired entries are not swept.
DoCloseLedger ==
  /\ Operation("close_ledger")
  /\ host' = Advance(host, Head(todo).ledgers)
  /\ Push(BareRecord("<ledger>"))
  /\ UNCHANGED <<outcome, pc>>

DoNote ==
  /\ Operation("note")
  /\ Push(BareRecord("<note>"))
  /\ UNCHANGED <<host, outcome, pc>>

\* `execute` returned: its outcome is journalled and counted.
FinishStep ==
  /\ pc = "execute"
  /\ todo = <<>> \/ outcome # "ok"
  /\ steps' = [steps EXCEPT ![Len(steps)].outcome = outcome]
  /\ stats' = CASE outcome = "ok" -> [stats EXCEPT !.accepted = @ + 1]
                [] outcome = "rejected" /\ Expects(action) ->
                     [stats EXCEPT !.expected = @ + 1]
                [] outcome = "rejected" /\ ~Expects(action) ->
                     [stats EXCEPT !.unexpected = @ + 1]
                [] outcome = "violation" -> stats
  /\ IF outcome = "violation"
     THEN Fail("unexpected-error") /\ pc' = "failed"
     ELSE pc' = "check" /\ UNCHANGED failure
  /\ UNCHANGED <<inputs, host, model, action, todo, outcome, checker>>

Next ==
  \/ SkipCheck \/ StartCheck \/ CheckInvariant \/ CheckReadOnly
  \/ BeginStep \/ ReturnCase \/ FinishStep
  \/ DoCall \/ DoCallUnchecked \/ DoCallWithoutAuth \/ DoCallRequiringAuth
  \/ DoAuthorize \/ DoInstallAuths
  \/ DoAdvance \/ DoCloseLedger \/ DoNote

Spec == Init /\ [][Next]_vars

-----------------------------------------------------------------------------
(* Properties *)

TypeOK ==
  /\ config \in Configs /\ target \in Targets
  /\ action \in Actions \cup {None}
  /\ DOMAIN host.ledger \subseteq Keys
  /\ \A k \in host.nonces : k.kind = "temporary"
  /\ host.seq \in 0..MaxSeq /\ host.time \in 0..MaxTime
  /\ host.auth.mode \in {"record", "enforce"}
  /\ \A n \in 1..Len(steps) :
       /\ steps[n].index = n - 1
       /\ steps[n].outcome \in StepOutcomes \cup {"pending"}
  /\ failure \in [kind : {"invariant", "read-only", "unexpected-error"},
                  step : 0..(MaxActions - 1) \cup {None}] \cup {None}
  /\ stats \in [accepted : Nat, expected : Nat, unexpected : Nat]
  /\ pc \in {"check", "invariant", "next", "execute", "passed", "failed"}
  /\ outcome \in StepOutcomes \cup {"<panicked>"}
  /\ inv \in 0..Len(Invariants)
  /\ DOMAIN before \subseteq Keys \cup host.nonces
  /\ DOMAIN cells = 1..Len(Invariants)

\* The operation a step of the case performs, if it performs one.
Running(ops) ==
  /\ pc = "execute" /\ outcome = "ok" /\ todo # <<>>
  /\ Head(todo).op \in ops

\* Does an operation before the p-th of a script leave a grant for it?
Granted(script, p, who, call) ==
  \E j \in 1..(p - 1) :
    \/ /\ \/ /\ script[j].op = "authorize"
             /\ script[j].who = who /\ script[j].call = call
          \/ /\ script[j].op = "install_auths"
             /\ <<who, call>> \in script[j].auths
       /\ \A k \in (j + 1)..(p - 1) :
            script[k].op \notin Invocations \cup {"authorize", "install_auths"}
    \/ /\ script[j].op = "call_requiring_auth"
       /\ \A k \in (j + 1)..(p - 1) :
            script[k].op \notin {"authorize", "install_auths",
                                "call_without_auth"}

\* Under AuthPolicy::Strict a call that demands an authorization goes through
\* only on one that the same action installed for that call and no other call
\* has used since, and a call made without authorization goes through only
\* when it demands none, whatever the policy: nothing is left over from an
\* earlier action, from setup or from checking the invariants (the policy
\* re-applied before each action in run_case).
AuthorizationStaysInItsAction ==
  [][LET script == Script(action)
         p      == Len(script) - Len(todo) + 1
     IN  /\ (Running({"call", "call_unchecked"}) /\ config.auth = "strict") =>
              \A who \in host'.auths : Granted(script, p, who, script[p].call)
         /\ Running({"call_without_auth"}) => host'.auths = {}]_vars

Exceeds(usage, limits) ==
  \/ \E m \in Metered \ {"memory_read_entries"} : usage[m] > limits[m]
  \/ usage["disk_read_entries"] + usage["memory_read_entries"]
       + usage["write_entries"] > limits["ledger_entries"]

LimitsInForce ==
  IF config.resources = "sdk" THEN NetworkLimits ELSE config.limits

\* What the contract makes of the operation's call where it stands.
CodeOf(op) == Code(op.call, View(host), host.seq)

\* A negative test tells a protected entrypoint from one that is not:
\* call_without_auth followed by expect_rejected is a violation exactly when
\* the call goes through without demanding anything, and call_requiring_auth
\* is satisfied exactly when the call would go through and demands the
\* address, as long as the call keeps to the limits in force
\* (CallResult::expect_rejected, Runtime::call_requiring_auth).
NegativeTestsAreExact ==
  [][LET op   == Head(todo)
         code == CodeOf(op)
     IN  ~(/\ Running({"call_without_auth", "call_requiring_auth"})
           /\ Exceeds(code.usage, LimitsInForce)) =>
           /\ (Running({"call_without_auth"}) /\ op.then = "expect_rejected") =>
                (outcome' = "violation"
                   <=> code.demands = {} /\ code.ends = "ok")
           /\ Running({"call_requiring_auth"}) =>
                (outcome' = "ok"
                   <=> code.ends = "ok" /\ op.who \in code.demands)]_vars

\* An instrumented call that used more than a configured limit allows fails
\* the case whatever its result and whatever the action made of it, unless
\* the call or the run opted out; with the SDK's limits the host's own panic
\* does (Runtime::measure, ResourceUsage::first_breach).
BreachIsNeverPassed ==
  [][Running(Invocations) =>
       LET op == Head(todo) IN
         /\ (/\ config.resources = "enforce"
             /\ op.op # "call_unchecked"
             /\ Exceeds(CodeOf(op).usage, config.limits)) =>
                outcome' \in {"violation", "<panicked>"}
         /\ (/\ config.resources = "sdk"
             /\ Exceeds(CodeOf(op).usage, NetworkLimits)) =>
                pc' = "failed"]_vars

InstrumentedOf(calls) ==
  {n \in 1..Len(calls) : calls[n].label \notin Markers}

DeltaSum(delta, field) ==
  delta["instance"][field] + delta["persistent"][field]
    + delta["temporary"][field]

\* The records of a step's calls account for the tracked storage: from one
\* call to the next the entries held change by what the later one added and
\* removed, and the last record holds what the host holds, notes and closed
\* ledgers in between notwithstanding (Runtime::measure, StorageSnapshot::diff).
RecordsAccountForStorage ==
  steps # <<>> =>
    LET calls == steps[Len(steps)].calls
        made  == InstrumentedOf(calls)
    IN  \A n \in made :
          /\ \A l \in made :
               (l < n /\ \A k \in made : ~(l < k /\ k < n)) =>
                 calls[n].entries + DeltaSum(calls[n].delta, "removed")
                   = calls[l].entries + DeltaSum(calls[n].delta, "added")
          /\ (pc = "execute" /\ \A k \in made : k <= n) =>
               calls[n].entries =
                 Total(Counts(CaptureScoped(Entries(host), target.tracked)))

\* The clock of a case never runs back, and the sequence never moves without
\* the timestamp, up to the ceiling of either (LedgerCtl::advance and
\* close_ledger).
ClockMovesForward ==
  [][/\ host'.seq >= host.seq
     /\ host'.time >= host.time
     /\ host'.seq > host.seq => (host'.time > host.time \/ host.time = MaxTime)]_vars

\* The keys in tracked storage that the call of an invariant writes, those of
\* the nonces for the authorizations it demands included.
Alters(i) ==
  IF i.kind = "growth" THEN {}
  ELSE {k \in DOMAIN CodeOf(i).sets \cup Spent(host, CodeOf(i)) :
          target.tracked = {} \/ k.owner \in target.tracked}

\* The read-only guard blames a case on its invariants only when one of them
\* reaches a setter, removes an entry or is granted an authorization, never
\* for the expired entries they make the host reclaim; and when it is
\* satisfied, no invariant it watched has a tracked entry left that it would
\* change (check_invariants).
ReadOnlyGuardIsExact ==
  LET I == {Invariants[n] : n \in 1..Len(Invariants)}
  IN  /\ (failure # None /\ failure.kind = "read-only") =>
           \E i \in I : Alters(i) # {}
      /\ pc \in {"next", "passed"} =>
           \A i \in {x \in I : steps # <<>> \/ x.initial} :
             \A k \in Alters(i) : /\ k \in DOMAIN host.ledger
                                  /\ host.ledger[k].val = CodeOf(i).sets[k].val
=============================================================================
