-------------------------------- MODULE Host --------------------------------
(***************************************************************************)
(* The soroban test host, as soroban-fuzzer uses it.  It is external: the  *)
(* authorization it grants, the invocations it runs, the clock and the     *)
(* entries it reclaims are modelled from how src/ drives it and from what  *)
(* src/soroban-fuzzer/tests/third_party.rs and classification.rs pin.  An  *)
(* authorization that is used leaves a temporary entry, a nonce, owned by  *)
(* the address and read by no contract: `nonces` holds their keys, beside  *)
(* the entries of the contracts in `ledger`.                               *)
(*                                                                         *)
(* Code(call, view, seq) is the contract: what `call` does when it finds   *)
(* the entries of `view` at ledger `seq` and everything it demands is      *)
(* granted.  It is a record of                                             *)
(*   demands  the addresses whose require_auth it reaches                  *)
(*   reads    the keys it reads                                            *)
(*   sets     the entries it writes, a function from keys                  *)
(*   dels     the keys it removes                                          *)
(*   ends     "ok", "unreadable", "rejected" or "error"                    *)
(*   refusal  how a missing authorization shows: "rejected", or "error"    *)
(*            from an entrypoint that declares a typed error               *)
(*   usage    what the host metered                                        *)
(***************************************************************************)
EXTENDS Storage

CONSTANTS
  Code(_, _, _),
  MaxSeq,     \* u32::MAX, for the ledger sequence
  MaxTime     \* u64::MAX, for the ledger timestamp

ASSUME CeilingsAssumption == MaxSeq \in Nat /\ MaxTime \in Nat

\* Recording mode grants whatever is demanded; enforcing mode grants what a
\* pending credential names, for one call.
RecordingAuth == [mode |-> "record", creds |-> {}]
Enforcing(creds) == [mode |-> "enforce", creds |-> creds]

MockAllAuths(host)    == [host EXCEPT !.auth = RecordingAuth]
SetAuths(host)        == [host EXCEPT !.auth = Enforcing({})]
MockAuths(host, auths) == [host EXCEPT !.auth = Enforcing(auths)]

Grants(auth, who, call) ==
  auth.mode = "record" \/ <<who, call>> \in auth.creds

Expired(key, entry, seq) == key.kind = "temporary" /\ entry.until < seq

NonceKey(who, n) == [owner |-> who, kind |-> "temporary", nonce |-> n]

\* The nonces a call that goes through leaves, one per address it demands.
Spent(host, code) ==
  {NonceKey(who, Cardinality(host.nonces)) : who \in code.demands}

\* All the host stores, which is what a snapshot is taken of.
Entries(host) ==
  [k \in DOMAIN host.ledger \cup host.nonces |->
     IF k \in host.nonces THEN [val |-> 0, until |-> MaxSeq]
     ELSE host.ledger[k]]

\* What a contract sees: an expired temporary entry reads as absent.
View(host) ==
  [k \in {x \in DOMAIN host.ledger : ~Expired(x, host.ledger[x], host.seq)}
     |-> host.ledger[k].val]

\* The ledger after a successful call: its removals and writes are applied,
\* and the expired entries it touched are reclaimed.
Applied(host, code) ==
  LET reclaimed == {k \in DOMAIN host.ledger :
                      /\ Expired(k, host.ledger[k], host.seq)
                      /\ k \in code.reads}
      kept      == DOMAIN host.ledger \ (reclaimed \cup code.dels)
  IN  [k \in kept \cup DOMAIN code.sets |->
         IF k \in DOMAIN code.sets THEN code.sets[k] ELSE host.ledger[k]]

\* A top-level invocation uses up the credentials of enforcing mode.  One
\* that fails, on authorization or otherwise, leaves no trace in the ledger.
Invoke(host, call) ==
  LET code    == Code(call, View(host), host.seq)
      allowed == \A who \in code.demands : Grants(host.auth, who, call)
      through == allowed /\ code.ends \in {"ok", "unreadable"}
  IN  [ends |-> IF allowed THEN code.ends ELSE code.refusal,
       host |->
         [host EXCEPT
            !.ledger = IF through THEN Applied(host, code) ELSE @,
            !.nonces = IF through THEN @ \cup Spent(host, code) ELSE @,
            !.auth   = IF @.mode = "record" THEN @ ELSE Enforcing({}),
            !.auths  = IF through THEN code.demands ELSE {},
            !.usage  = code.usage]]
=============================================================================
