------------------------------ MODULE Runtime ------------------------------
(***************************************************************************)
(* What an action of a fuzz case is given to drive the contract with: the  *)
(* Runtime and LedgerCtl of soroban-fuzzer/src/runtime.rs, the conversions *)
(* of a call's result into the step's outcome, and the comparison of what  *)
(* a call used with the network's limits (soroban-fuzzer/src/budget.rs).   *)
(* An operator is given the host and returns it changed, with the journal  *)
(* records and the result the operation leaves.                            *)
(***************************************************************************)
EXTENDS Host, Sequences

CONSTANTS
  None,       \* Rust's None
  MaxEntries  \* u32::MAX, for a footprint

-----------------------------------------------------------------------------
(* Metering *)

Metered == {"instructions", "mem_bytes", "disk_read_entries",
            "memory_read_entries", "write_entries", "disk_read_bytes",
            "write_bytes", "contract_events_size_bytes"}

NoUsage == [m \in Metered |-> 0]

\* The limits in the order they are compared: the first is the one reported.
LimitNames ==
  <<"instructions", "mem_bytes", "disk_read_entries", "write_entries",
    "ledger_entries", "disk_read_bytes", "write_bytes",
    "contract_events_size_bytes">>

ASSUME NoneAssumption == \A n \in 1..Len(LimitNames) : LimitNames[n] # None

Saturate(n, max) == IF n > max THEN max ELSE n

\* The footprint: entries read, from disk or memory, and written.
LedgerEntries(usage) ==
  Saturate(usage["disk_read_entries"] + usage["memory_read_entries"]
             + usage["write_entries"], MaxEntries)

Used(usage, limit) ==
  IF limit = "ledger_entries" THEN LedgerEntries(usage) ELSE usage[limit]

Over(used, allowed) == used > allowed

\* The places in that order of the limits exceeded.
Breaches(usage, limits) ==
  {n \in 1..Len(LimitNames) :
     Over(Used(usage, LimitNames[n]), limits[LimitNames[n]])}

FirstBreach(usage, limits) ==
  IF Breaches(usage, limits) = {} THEN None
  ELSE LimitNames[CHOOSE n \in Breaches(usage, limits) :
                    \A m \in Breaches(usage, limits) : n <= m]

-----------------------------------------------------------------------------
(* Results *)

StepOutcomes == {"ok", "rejected", "violation"}

CallResults == {"ok", "rejected", "failed", "limit"}

\* A call that went through with a result the caller cannot read must not be
\* mistaken for a success.
Classified(ends, breach) ==
  CASE breach # None                    -> "limit"
    [] breach = None /\ ends = "ok"       -> "ok"
    [] breach = None /\ ends = "rejected" -> "rejected"
    [] OTHER                              -> "failed"

\* CallResult::into_step, expect_ok, expect_rejected, expect_contract_error
\* and unwrap_ok, which panics instead of returning an outcome.
IntoStep(result) ==
  CASE result = "ok"    -> "ok"
    [] result = "limit" -> "violation"
    [] OTHER            -> "rejected"

ExpectOk(result) == IF result = "ok" THEN "ok" ELSE "violation"

ExpectRejected(result) ==
  IF result \in {"ok", "limit"} THEN "violation" ELSE "rejected"

ExpectContractError(result) ==
  IF result = "rejected" THEN "rejected" ELSE "violation"

UnwrapOk(result) == IF result = "ok" THEN "ok" ELSE "<panicked>"

Conversions == {"into_step", "expect_ok", "expect_rejected",
                "expect_contract_error", "unwrap_ok"}

Convert(how, result) ==
  CASE how = "into_step"             -> IntoStep(result)
    [] how = "expect_ok"             -> ExpectOk(result)
    [] how = "expect_rejected"       -> ExpectRejected(result)
    [] how = "expect_contract_error" -> ExpectContractError(result)
    [] how = "unwrap_ok"             -> UnwrapOk(result)

-----------------------------------------------------------------------------
(* Calls *)

\* A CallRecord; those of a note and of a closed ledger carry nothing else.
CallRecord(label, outcome, usage, delta, entries, breach) ==
  [label |-> label, outcome |-> outcome, usage |-> usage, delta |-> delta,
   entries |-> entries, breach |-> breach]

BareRecord(label) == CallRecord(label, "", NoUsage, NoDelta, 0, None)

\* Mutation: the usage is read before the call, so it is the one before's.
MeasureLate(host, call, enforce, config, tracked) ==
  LET before == CaptureScoped(Entries(host), tracked)
      ran    == Invoke(host, call)
      after  == CaptureScoped(Entries(ran.host), tracked)
      breach == IF enforce /\ config.resources = "enforce"
                THEN FirstBreach(host.usage, config.limits) ELSE None
  IN  [host   |-> ran.host,
       record |-> CallRecord(call.fn, ran.ends, host.usage, Diff(before, after),
                             Total(Counts(after)), breach),
       result |-> Classified(ran.ends, breach)]

\* The contract is called between two snapshots; a breach is looked for when
\* the call is enforced and the run's policy is, and it outranks the result.
Measure(host, call, enforce, config, tracked) ==
  LET before == CaptureScoped(Entries(host), tracked)
      ran    == Invoke(host, call)
      after  == CaptureScoped(Entries(ran.host), tracked)
      usage  == ran.host.usage
      breach == IF enforce /\ config.resources = "enforce"
                THEN FirstBreach(usage, config.limits) ELSE None
  IN  [host   |-> ran.host,
       record |-> CallRecord(call.fn, ran.ends, usage, Diff(before, after),
                             Total(Counts(after)), breach),
       result |-> Classified(ran.ends, breach)]

Call(host, call, config, tracked) == Measure(host, call, TRUE, config, tracked)

CallUnchecked(host, call, config, tracked) ==
  Measure(host, call, FALSE, config, tracked)

\* Mutation: the credentials are left as the policy and the action set them.
CallAsIs(host, call, config, tracked) ==
  Measure(host, call, TRUE, config, tracked)

\* No credential, and no recording either, from here on in the action.
CallWithoutAuth(host, call, config, tracked) ==
  Measure(SetAuths(host), call, TRUE, config, tracked)

\* Authorization is recorded, and stays so for the rest of the action.
CallRecorded(host, call, config, tracked) ==
  Measure(MockAllAuths(host), call, TRUE, config, tracked)

\* Mutation: whatever was demanded, something was.
DemandedAny(who, measured) ==
  IF measured.result = "ok" /\ measured.host.auths # {} THEN "ok"
  ELSE "violation"

\* The outcome of call_requiring_auth: the call went through and the tree of
\* authorizations it demanded names the address.
Demanded(who, measured) ==
  IF measured.result = "ok" /\ who \in measured.host.auths THEN "ok"
  ELSE "violation"

\* Runtime::authorize: one address, one call with these very arguments.
Authorize(host, who, call) == MockAuths(host, {<<who, call>>})

InstallAuths(host, auths) == MockAuths(host, auths)

-----------------------------------------------------------------------------
(* LedgerCtl *)

SecondsPerLedger == 5

\* Mutation: only the sequence is kept from overflowing.
Wrapped(host, ledgers) ==
  [host EXCEPT !.seq  = Saturate(@ + ledgers, MaxSeq),
               !.time = (@ + ledgers * SecondsPerLedger) % (MaxTime + 1)]

\* Sequence and timestamp move together, each up to its own ceiling.
Advance(host, ledgers) ==
  [host EXCEPT !.seq  = Saturate(@ + ledgers, MaxSeq),
               !.time = Saturate(@ + ledgers * SecondsPerLedger, MaxTime)]
=============================================================================
