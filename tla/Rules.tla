------------------------------- MODULE Rules --------------------------------
(***************************************************************************)
(* soroban-analyzer/src/rules.rs and Analyzer::validate: which rule files  *)
(* load, and whether rules and detectors name each other. A rule file is   *)
(* None when it does not parse, else [id, version, lacking], where         *)
(* `lacking' holds the fields that are blank or, for the rationale, short. *)
(***************************************************************************)
EXTENDS Naturals, Sequences

CONSTANT None

SchemaVersion == 1

Loads(source) == source # None /\ source.version = SchemaVersion /\ source.lacking = {}

\* Of two rules with one id the first stays; the second is an error.
RuleIds(sources) == {sources[k].id : k \in {l \in 1..Len(sources) : Loads(sources[l])}}

\* The detectors without a rule and the rules without a detector.
Validate(detectors, ids) == (detectors \ ids) \cup (ids \ detectors)

=============================================================================
