--------------------------- MODULE FuzzCaseProof ---------------------------
(***************************************************************************)
(* Proofs about FuzzCase, for every contract, target and configuration:    *)
(* the clock only moves forward, a grant never outlives the action that    *)
(* made it, a call over a limit is never let through, and the records of a *)
(* step's calls account for the storage the case tracks, and a negative    *)
(* test tells a protected entrypoint from one that is not.  The types rest *)
(* on the shape of the journal and come after it; then what checking the   *)
(* invariants may do to a case, and what a check that passed says of it.   *)
(* The last part is about one target, the example of TokenFuzz: which of   *)
(* its cases fail, and over what.                                          *)
(***************************************************************************)
EXTENDS FuzzCase, TokenFuzz, OrderingProof

IsHost(h) ==
  h = [ledger |-> h.ledger, nonces |-> h.nonces, seq |-> h.seq,
       time |-> h.time, auth |-> h.auth, auths |-> h.auths, usage |-> h.usage]

ClockOK(h) == h.seq \in 0..MaxSeq /\ h.time \in 0..MaxTime

\* The invariant the proofs share.
Sane ==
  /\ config \in Configs
  /\ IsHost(host)
  /\ ClockOK(host)
  /\ todo \in Seq(Operations)

SameClock(g, h) == g.seq = h.seq /\ g.time = h.time

SameStorage(g, h) == g.ledger = h.ledger /\ g.nonces = h.nonces

-----------------------------------------------------------------------------
(* What the operations of the runtime do to the host *)

\* Installing credentials changes nothing but the credentials.
LEMMA InstallKeeps ==
  ASSUME NEW h, IsHost(h), NEW creds
  PROVE  /\ IsHost(MockAuths(h, creds)) /\ IsHost(SetAuths(h))
         /\ IsHost(MockAllAuths(h))
         /\ SameClock(MockAuths(h, creds), h) /\ SameClock(SetAuths(h), h)
         /\ SameClock(MockAllAuths(h), h)
         /\ MockAuths(h, creds).auth = Enforcing(creds)
         /\ SetAuths(h).auth = Enforcing({})
         /\ MockAllAuths(h).auth = RecordingAuth
         /\ SameStorage(MockAuths(h, creds), h)
         /\ SameStorage(SetAuths(h), h)
         /\ SameStorage(MockAllAuths(h), h)
BY DEF IsHost, SameClock, SameStorage, MockAuths, SetAuths, MockAllAuths

\* What the contract finds depends on the entries and the ledger alone.
LEMMA ViewOfLedger ==
  ASSUME NEW g, NEW h, g.ledger = h.ledger, g.seq = h.seq
  PROVE  View(g) = View(h)
BY DEF View

\* An invocation leaves the clock; it uses up credentials, never recording;
\* and what it reports as demanded was granted.
LEMMA InvokeKeeps ==
  ASSUME NEW h, IsHost(h), NEW call
  PROVE  LET ran  == Invoke(h, call).host
             code == Code(call, View(h), h.seq)
         IN  /\ IsHost(ran)
             /\ SameClock(ran, h)
             /\ ran.usage = code.usage
             /\ h.auth.mode = "record" => ran.auth = h.auth
             /\ h.auth.mode # "record" => ran.auth = Enforcing({})
             /\ ran.auths # {} =>
                  \A who \in ran.auths : Grants(h.auth, who, call)
<1> DEFINE code == Code(call, View(h), h.seq)
           allowed == \A who \in code.demands : Grants(h.auth, who, call)
           through == allowed /\ code.ends \in {"ok", "unreadable"}
           ran == Invoke(h, call).host
<1>1. ran = [h EXCEPT
               !.ledger = IF through THEN Applied(h, code) ELSE @,
               !.nonces = IF through THEN @ \cup Spent(h, code) ELSE @,
               !.auth   = IF @.mode = "record" THEN @ ELSE Enforcing({}),
               !.auths  = IF through THEN code.demands ELSE {},
               !.usage  = code.usage]
  BY DEF Invoke
<1>2. \A who \in code.demands : through => Grants(h.auth, who, call)
  OBVIOUS
<1> HIDE DEF ran, through, allowed, code
<1>3. /\ IsHost(ran)
      /\ SameClock(ran, h)
      /\ ran.usage = code.usage
      /\ ran.auth = IF h.auth.mode = "record" THEN h.auth ELSE Enforcing({})
      /\ ran.auths = IF through THEN code.demands ELSE {}
  BY <1>1 DEF IsHost, SameClock
<1>4. ran.auths # {} => \A who \in ran.auths : Grants(h.auth, who, call)
  BY <1>2, <1>3
<1> QED BY <1>3, <1>4 DEF ran, code

\* A measured call leaves the host its invocation leaves.
LEMMA CallHost ==
  ASSUME NEW h, NEW call, NEW c, NEW tracked
  PROVE  /\ Call(h, call, c, tracked).host = Invoke(h, call).host
         /\ CallUnchecked(h, call, c, tracked).host = Invoke(h, call).host
         /\ CallWithoutAuth(h, call, c, tracked).host
              = Invoke(SetAuths(h), call).host
         /\ CallRecorded(h, call, c, tracked).host
              = Invoke(MockAllAuths(h), call).host
BY DEF Call, CallUnchecked, CallWithoutAuth, CallRecorded, Measure

LEMMA AdvanceKeeps ==
  ASSUME NEW h, IsHost(h), ClockOK(h), NEW n \in Nat
  PROVE  LET g == Advance(h, n)
         IN  /\ IsHost(g) /\ ClockOK(g) /\ SameStorage(g, h)
             /\ g.auth = h.auth /\ g.auths = h.auths
             /\ g.seq >= h.seq /\ g.time >= h.time
             /\ g.seq > h.seq => (g.time > h.time \/ g.time = MaxTime)
<1> DEFINE g == Advance(h, n)
<1>1. g = [h EXCEPT !.seq  = Saturate(@ + n, MaxSeq),
                    !.time = Saturate(@ + n * 5, MaxTime)]
  BY DEF Advance, SecondsPerLedger
<1> HIDE DEF g
<1>2. /\ IsHost(g) /\ g.auth = h.auth /\ g.auths = h.auths
      /\ SameStorage(g, h)
      /\ g.seq = Saturate(h.seq + n, MaxSeq)
      /\ g.time = Saturate(h.time + n * 5, MaxTime)
  BY <1>1 DEF IsHost, SameStorage
<1>3. h.seq \in 0..MaxSeq /\ h.time \in 0..MaxTime
  BY DEF ClockOK
<1>4. /\ g.seq \in 0..MaxSeq /\ g.time \in 0..MaxTime
      /\ g.seq >= h.seq /\ g.time >= h.time
      /\ g.seq > h.seq => (g.time > h.time \/ g.time = MaxTime)
  BY <1>2, <1>3, CeilingsAssumption DEF Saturate
<1> QED BY <1>2, <1>4 DEF g, ClockOK

-----------------------------------------------------------------------------
(* Every step *)

\* The next operation of a script is one of the target's.
LEMMA HeadIsOperation ==
  ASSUME todo \in Seq(Operations), todo # <<>>
  PROVE  Head(todo) \in Operations /\ Tail(todo) \in Seq(Operations)
OBVIOUS

\* What a step leaves the host, by the kind of step.
HostStep ==
  \/ host' = host
  \/ \E call : host' = Invoke(host, call).host
  \/ \E call : host' = Invoke(SetAuths(host), call).host
  \/ \E call : host' = Invoke(MockAllAuths(host), call).host
  \/ host' = SetAuths(host)
  \/ host' = MockAllAuths(host)
  \/ \E creds : host' = MockAuths(host, creds)
  \/ \E n \in Nat : host' = Advance(host, n)

LEMMA StepHost ==
  ASSUME Sane, [Next]_vars
  PROVE  HostStep /\ config' = config /\ todo' \in Seq(Operations)
<1> USE DEF inputs, checker
<1>1. CASE SkipCheck
  BY <1>1 DEF SkipCheck, HostStep, Sane
<1>2. CASE StartCheck
  BY <1>2 DEF StartCheck, HostStep, Sane
<1>3. CASE CheckInvariant
  <2>1. host' = host \/ host' = Looked(Invariants[inv + 1], host).host
    BY <1>3 DEF CheckInvariant
  <2>2. \A i : \/ Looked(i, host).host = host
              \/ Looked(i, host).host = Invoke(host, i.call).host
    BY DEF Looked
  <2>3. config' = config /\ todo' = todo
    BY <1>3 DEF CheckInvariant
  <2> QED BY <2>1, <2>2, <2>3 DEF HostStep, Sane
<1>4. CASE CheckReadOnly
  BY <1>4 DEF CheckReadOnly, HostStep, Sane
<1>5. CASE BeginStep
  <2>1. todo' = Script(action') /\ action' \in Actions
    BY <1>5 DEF BeginStep
  <2>2. todo' \in Seq(Operations)
    BY <2>1, ScriptAssumption
  <2>3. config' = config /\ (host' = SetAuths(host) \/ host' = MockAllAuths(host))
    BY <1>5 DEF BeginStep, ApplyAuthPolicy
  <2> QED BY <2>2, <2>3 DEF HostStep
<1>6. CASE ReturnCase
  BY <1>6 DEF ReturnCase, HostStep, Sane
<1>7. CASE FinishStep
  BY <1>7 DEF FinishStep, HostStep, Sane
<1>8. ASSUME NEW op, Operation(op)
      PROVE  /\ config' = config /\ todo' \in Seq(Operations)
             /\ Head(todo) \in Operations /\ Head(todo).op = op
  BY <1>8, HeadIsOperation DEF Operation, Sane
<1>9. CASE DoCall
  <2> DEFINE m == Call(host, Head(todo).call, config, target.tracked)
  <2>1. m.host = Invoke(host, Head(todo).call).host
    BY CallHost
  <2>2. host' = m.host
    BY <1>9 DEF DoCall, Measured
  <2>3. host' = Invoke(host, Head(todo).call).host
    BY <2>1, <2>2
  <2> QED BY <1>8, <1>9, <2>3 DEF DoCall, HostStep
<1>10. CASE DoCallUnchecked
  <2> DEFINE m == CallUnchecked(host, Head(todo).call, config, target.tracked)
  <2>1. m.host = Invoke(host, Head(todo).call).host
    BY CallHost
  <2>2. host' = m.host
    BY <1>10 DEF DoCallUnchecked, Measured
  <2>3. host' = Invoke(host, Head(todo).call).host
    BY <2>1, <2>2
  <2> QED BY <1>8, <1>10, <2>3 DEF DoCallUnchecked, HostStep
<1>11. CASE DoCallWithoutAuth
  <2> DEFINE m == CallWithoutAuth(host, Head(todo).call, config, target.tracked)
  <2>1. m.host = Invoke(SetAuths(host), Head(todo).call).host
    BY CallHost
  <2>2. host' = m.host
    BY <1>11 DEF DoCallWithoutAuth, Measured
  <2>3. host' = Invoke(SetAuths(host), Head(todo).call).host
    BY <2>1, <2>2
  <2> QED BY <1>8, <1>11, <2>3 DEF DoCallWithoutAuth, HostStep
<1>12. CASE DoCallRequiringAuth
  <2> DEFINE m == CallRecorded(host, Head(todo).call, config, target.tracked)
  <2>1. m.host = Invoke(MockAllAuths(host), Head(todo).call).host
    BY CallHost
  <2>2. host' = m.host
    BY <1>12 DEF DoCallRequiringAuth, Measured
  <2>3. host' = Invoke(MockAllAuths(host), Head(todo).call).host
    BY <2>1, <2>2
  <2> QED BY <1>8, <1>12, <2>3 DEF DoCallRequiringAuth, HostStep
<1>13. CASE DoAuthorize
  <2>1. \E creds : host' = MockAuths(host, creds)
    BY <1>13 DEF DoAuthorize, Authorize
  <2> QED BY <1>8, <1>13, <2>1 DEF DoAuthorize, HostStep
<1>14. CASE DoInstallAuths
  <2>1. \E creds : host' = MockAuths(host, creds)
    BY <1>14 DEF DoInstallAuths, InstallAuths
  <2> QED BY <1>8, <1>14, <2>1 DEF DoInstallAuths, HostStep
<1>15. CASE DoAdvance
  <2>1. Operation("advance") /\ host' = Advance(host, Head(todo).ledgers)
    BY <1>15 DEF DoAdvance
  <2>2. Head(todo).ledgers \in Nat
    BY <1>8, <2>1, ScriptAssumption
  <2> QED BY <1>8, <2>1, <2>2 DEF HostStep
<1>16. CASE DoCloseLedger
  <2>1. Operation("close_ledger") /\ host' = Advance(host, Head(todo).ledgers)
    BY <1>16 DEF DoCloseLedger
  <2>2. Head(todo).ledgers \in Nat
    BY <1>8, <2>1, ScriptAssumption
  <2> QED BY <1>8, <2>1, <2>2 DEF HostStep
<1>17. CASE DoNote
  BY <1>8, <1>17 DEF DoNote, HostStep
<1>18. CASE UNCHANGED vars
  BY <1>18 DEF vars, HostStep, Sane
<1> QED BY <1>1, <1>2, <1>3, <1>4, <1>5, <1>6, <1>7, <1>9, <1>10, <1>11, <1>12,
           <1>13, <1>14, <1>15, <1>16, <1>17, <1>18 DEF Next

\* What a step makes of the clock.
ClockStep ==
  /\ host'.seq >= host.seq
  /\ host'.time >= host.time
  /\ host'.seq > host.seq => (host'.time > host.time \/ host'.time = MaxTime)

LEMMA StepSane ==
  ASSUME Sane, [Next]_vars
  PROVE  Sane' /\ ClockStep
<1>1. HostStep /\ config' = config /\ todo' \in Seq(Operations)
  BY StepHost
<1>2. IsHost(host) /\ ClockOK(host)
  BY DEF Sane
<1>3. ASSUME IsHost(host'), SameClock(host', host)
      PROVE  Sane' /\ ClockStep
  <2>1. host'.seq = host.seq /\ host'.time = host.time
    BY <1>3 DEF SameClock
  <2>2. host.seq \in Nat /\ host.time \in Nat
    BY <1>2, CeilingsAssumption DEF ClockOK
  <2>3. ClockOK(host')
    BY <1>2, <2>1 DEF ClockOK
  <2>4. ClockStep
    BY <2>1, <2>2 DEF ClockStep
  <2> QED BY <1>1, <1>3, <2>3, <2>4 DEF Sane
<1>4. CASE host' = host
  BY <1>2, <1>3, <1>4 DEF SameClock
<1>5. \A h, call : IsHost(h) /\ SameClock(h, host) =>
        IsHost(Invoke(h, call).host) /\ SameClock(Invoke(h, call).host, host)
  BY InvokeKeeps DEF SameClock
<1>6. CASE \E call : host' = Invoke(host, call).host
  BY <1>2, <1>3, <1>5, <1>6 DEF SameClock
<1>7. CASE \E call : host' = Invoke(SetAuths(host), call).host
  BY <1>2, <1>3, <1>5, <1>7, InstallKeeps
<1>8. CASE \E call : host' = Invoke(MockAllAuths(host), call).host
  BY <1>2, <1>3, <1>5, <1>8, InstallKeeps
<1>9. CASE host' = SetAuths(host)
  BY <1>2, <1>3, <1>9, InstallKeeps
<1>10. CASE host' = MockAllAuths(host)
  BY <1>2, <1>3, <1>10, InstallKeeps
<1>11. CASE \E creds : host' = MockAuths(host, creds)
  BY <1>2, <1>3, <1>11, InstallKeeps
<1>12. CASE \E n \in Nat : host' = Advance(host, n)
  BY <1>1, <1>2, <1>12, AdvanceKeeps DEF ClockStep, Sane
<1> QED BY <1>1, <1>4, <1>6, <1>7, <1>8, <1>9, <1>10, <1>11, <1>12 DEF HostStep

\* The invariant holds of every reachable state.
THEOREM AlwaysSane == Spec => []Sane
<1>1. Init => Sane
  BY WorldAssumption DEF Init, Sane, IsHost, ClockOK
<1>2. Sane /\ [Next]_vars => Sane'
  BY StepSane
<1> QED BY <1>1, <1>2, PTL DEF Spec

\* The clock of a case only moves forward, and the sequence never without the
\* timestamp, until the timestamp is at its ceiling (LedgerCtl::advance).
THEOREM ClockForward == Spec => ClockMovesForward
<1>1. Sane /\ [Next]_vars =>
        [/\ host'.seq >= host.seq
         /\ host'.time >= host.time
         /\ host'.seq > host.seq =>
              (host'.time > host.time \/ host.time = MaxTime)]_vars
  <2> SUFFICES ASSUME Sane, [Next]_vars, vars' # vars
               PROVE  /\ host'.seq >= host.seq
                      /\ host'.time >= host.time
                      /\ host'.seq > host.seq =>
                           (host'.time > host.time \/ host.time = MaxTime)
    OBVIOUS
  <2>1. Sane' /\ ClockStep
    BY StepSane
  <2>2. /\ host.time \in 0..MaxTime /\ host'.time \in 0..MaxTime
        /\ MaxTime \in Nat
    BY <2>1, CeilingsAssumption DEF Sane, ClockOK
  <2>3. host'.time = MaxTime => (host'.time > host.time \/ host.time = MaxTime)
    BY <2>2
  <2> QED BY <2>1, <2>3 DEF ClockStep
<1> QED BY <1>1, AlwaysSane, PTL DEF ClockMovesForward, Spec

-----------------------------------------------------------------------------
(* Authorization *)

\* What is in force before the p-th operation of a script has its cause in
\* the operations before it: the two halves of Granted.
Recorded(script, p) ==
  \E j \in 1..(p - 1) :
    /\ script[j].op = "call_requiring_auth"
    /\ \A k \in (j + 1)..(p - 1) :
         script[k].op \notin {"authorize", "install_auths", "call_without_auth"}

Credited(script, p, who, call) ==
  \E j \in 1..(p - 1) :
    /\ \/ /\ script[j].op = "authorize"
          /\ script[j].who = who /\ script[j].call = call
       \/ /\ script[j].op = "install_auths"
          /\ <<who, call>> \in script[j].auths
    /\ \A k \in (j + 1)..(p - 1) :
         script[k].op \notin Invocations \cup {"authorize", "install_auths"}

Covered(auth, script, p) ==
  /\ auth.mode = "record" => Recorded(script, p)
  /\ auth.mode # "record" =>
       \A who, call : <<who, call>> \in auth.creds =>
                        Credited(script, p, who, call)

Position == Len(Script(action)) - Len(todo) + 1

\* While an action runs, what is left of its script is its tail, and what is
\* in force comes from what is done of it.
AuthOK ==
  pc = "execute" =>
    /\ action \in Actions
    /\ Len(todo) <= Len(Script(action))
    /\ \A j \in 1..Len(todo) : todo[j] = Script(action)[Position - 1 + j]
    /\ config.auth = "strict" => Covered(host.auth, Script(action), Position)

LEMMA CoveredIsGranted ==
  ASSUME NEW script, NEW p \in Nat, NEW auth, Covered(auth, script, p),
         NEW who, NEW call, Grants(auth, who, call)
  PROVE  Granted(script, p, who, call)
BY DEF Covered, Recorded, Credited, Granted, Grants

\* One operation further on: a cause stays one, or is the operation itself.
LEMMA CauseOneOn ==
  ASSUME NEW script, NEW p \in Nat \ {0}
  PROVE  /\ (/\ Recorded(script, p)
             /\ script[p].op \notin {"authorize", "install_auths",
                                    "call_without_auth"}) =>
              Recorded(script, p + 1)
         /\ script[p].op = "call_requiring_auth" => Recorded(script, p + 1)
         /\ \A who, call :
              (/\ Credited(script, p, who, call)
               /\ script[p].op \notin
                    Invocations \cup {"authorize", "install_auths"}) =>
                Credited(script, p + 1, who, call)
         /\ script[p].op = "authorize" =>
              Credited(script, p + 1, script[p].who, script[p].call)
         /\ script[p].op = "install_auths" =>
              \A who, call : <<who, call>> \in script[p].auths =>
                               Credited(script, p + 1, who, call)
<1>1. /\ (p + 1) - 1 = p
      /\ \A j \in 1..(p - 1) : j \in 1..p
      /\ p \in 1..p
      /\ \A j \in 1..p : \A k \in (j + 1)..p : k = p \/ k \in (j + 1)..(p - 1)
      /\ (p + 1)..p = {}
  OBVIOUS
<1>2. ASSUME Recorded(script, p),
             script[p].op \notin {"authorize", "install_auths", "call_without_auth"}
      PROVE  Recorded(script, p + 1)
  <2>1. PICK j \in 1..(p - 1) :
          /\ script[j].op = "call_requiring_auth"
          /\ \A k \in (j + 1)..(p - 1) :
               script[k].op \notin {"authorize", "install_auths",
                                   "call_without_auth"}
    BY <1>2 DEF Recorded
  <2>2. \A k \in (j + 1)..p :
          script[k].op \notin {"authorize", "install_auths", "call_without_auth"}
    BY <1>1, <1>2, <2>1
  <2> QED BY <1>1, <2>1, <2>2 DEF Recorded
<1>3. ASSUME script[p].op = "call_requiring_auth"
      PROVE  Recorded(script, p + 1)
  BY <1>1, <1>3 DEF Recorded
<1>4. ASSUME NEW who, NEW call, Credited(script, p, who, call),
             script[p].op \notin Invocations \cup {"authorize", "install_auths"}
      PROVE  Credited(script, p + 1, who, call)
  <2>1. PICK j \in 1..(p - 1) :
          /\ \/ /\ script[j].op = "authorize"
                /\ script[j].who = who /\ script[j].call = call
             \/ /\ script[j].op = "install_auths"
                /\ <<who, call>> \in script[j].auths
          /\ \A k \in (j + 1)..(p - 1) :
               script[k].op \notin Invocations \cup {"authorize", "install_auths"}
    BY <1>4 DEF Credited
  <2>2. \A k \in (j + 1)..p :
          script[k].op \notin Invocations \cup {"authorize", "install_auths"}
    BY <1>1, <1>4, <2>1
  <2> QED BY <1>1, <2>1, <2>2 DEF Credited
<1>5. ASSUME script[p].op = "authorize"
      PROVE  Credited(script, p + 1, script[p].who, script[p].call)
  BY <1>1, <1>5 DEF Credited
<1>6. ASSUME script[p].op = "install_auths", NEW who, NEW call,
             <<who, call>> \in script[p].auths
      PROVE  Credited(script, p + 1, who, call)
  BY <1>1, <1>6 DEF Credited
<1> QED BY <1>2, <1>3, <1>4, <1>5, <1>6

\* An operation takes the script one on.
LEMMA OperationOneOn ==
  ASSUME Sane, AuthOK, NEW op, Operation(op)
  PROVE  /\ action' = action /\ config' = config
         /\ Position \in Nat \ {0}
         /\ Script(action)[Position] = Head(todo)
         /\ Script(action)[Position].op = op
         /\ Position' = Position + 1
         /\ Len(todo') <= Len(Script(action'))
         /\ \A j \in 1..Len(todo') :
              todo'[j] = Script(action')[Position' - 1 + j]
<1> DEFINE s == Script(action)
<1>1. /\ action' = action /\ config' = config
      /\ todo' = Tail(todo) /\ todo # <<>> /\ Head(todo).op = op
      /\ pc = "execute"
  BY DEF Operation, inputs
<1>2. /\ action \in Actions /\ Len(todo) <= Len(s)
      /\ \A j \in 1..Len(todo) : todo[j] = s[Position - 1 + j]
  BY <1>1 DEF AuthOK
<1>3. s \in Seq(Operations) /\ todo \in Seq(Operations)
  BY <1>2, ScriptAssumption DEF Sane
<1>4. /\ Len(todo) \in Nat /\ Len(s) \in Nat /\ Len(todo) >= 1
      /\ Len(todo') = Len(todo) - 1
      /\ Head(todo) = todo[1]
      /\ \A j \in 1..Len(todo') : todo'[j] = todo[j + 1]
  BY <1>1, <1>3
<1>5. Position = Len(s) - Len(todo) + 1 /\ Position' = Len(s) - Len(todo') + 1
  BY <1>1 DEF Position
<1> HIDE DEF s
<1>6. /\ Position \in Nat \ {0}
      /\ Position' = Position + 1
      /\ Len(todo') <= Len(s)
      /\ (Position - 1) + 1 = Position
      /\ 1 \in 1..Len(todo)
  BY <1>2, <1>4, <1>5
<1>7. s[Position] = Head(todo)
  BY <1>2, <1>4, <1>6
<1>8. ASSUME NEW j \in 1..Len(todo')
      PROVE  todo'[j] = s[Position' - 1 + j]
  <2>1. j + 1 \in 1..Len(todo) /\ Position - 1 + (j + 1) = Position' - 1 + j
    BY <1>4, <1>6
  <2> QED BY <1>2, <1>4, <2>1
<1> QED BY <1>1, <1>6, <1>7, <1>8 DEF s

\* A call keeps what recording covers, and leaves no credential behind.
LEMMA CoveredAfterCall ==
  ASSUME NEW h, IsHost(h), NEW call, NEW script, NEW p \in Nat \ {0},
         Covered(h.auth, script, p),
         script[p].op \in {"call", "call_unchecked"}
  PROVE  Covered(Invoke(h, call).host.auth, script, p + 1)
<1> DEFINE auth == Invoke(h, call).host.auth
<1>1. /\ h.auth.mode = "record" => auth = h.auth
      /\ h.auth.mode # "record" => auth = Enforcing({})
  BY InvokeKeeps
<1> HIDE DEF auth
<1>2. h.auth.mode = "record" => Covered(auth, script, p + 1)
  BY <1>1, CauseOneOn DEF Covered
<1>3. ASSUME h.auth.mode # "record"
      PROVE  Covered(auth, script, p + 1)
  BY <1>1, <1>3 DEF Covered, Enforcing
<1>4. Covered(auth, script, p + 1)
  BY <1>2, <1>3
<1> QED BY <1>4 DEF auth

LEMMA StepAuth ==
  ASSUME Sane, AuthOK, [Next]_vars
  PROVE  AuthOK'
<1> USE DEF inputs, checker
<1>1. CASE SkipCheck \/ StartCheck \/ CheckReadOnly \/ ReturnCase \/ FinishStep
  <2>1. pc' # "execute"
    BY <1>1 DEF SkipCheck, StartCheck, CheckReadOnly, ReturnCase, FinishStep
  <2> QED BY <2>1 DEF AuthOK
<1>2. CASE CheckInvariant
  <2>1. pc' # "execute"
    BY <1>2 DEF CheckInvariant
  <2> QED BY <2>1 DEF AuthOK
<1>3. CASE BeginStep
  <2>1. /\ todo' = Script(action') /\ action' \in Actions /\ config' = config
        /\ host' = ApplyAuthPolicy(host, config.auth)
    BY <1>3 DEF BeginStep
  <2>2. Script(action') \in Seq(Operations)
    BY <2>1, ScriptAssumption
  <2>3. Position' = 1 /\ Len(Script(action')) \in Nat
    BY <2>1, <2>2 DEF Position
  <2>4. \A j \in 1..Len(todo') : todo'[j] = Script(action')[Position' - 1 + j]
    <3>1. \A j \in 1..Len(todo') : Position' - 1 + j = j
      BY <2>1, <2>3
    <3> QED BY <2>1, <3>1
  <2>5. config.auth = "strict" => host'.auth = Enforcing({})
    BY <2>1, InstallKeeps DEF ApplyAuthPolicy, Sane
  <2>6. config.auth = "strict" => Covered(host'.auth, Script(action'), Position')
    BY <2>5 DEF Covered, Enforcing
  <2>7. Len(todo') <= Len(Script(action'))
    BY <2>1, <2>3
  <2> QED BY <2>1, <2>4, <2>6, <2>7 DEF AuthOK
<1>4. ASSUME NEW op, Operation(op),
             config.auth = "strict" =>
               Covered(host'.auth, Script(action), Position + 1)
      PROVE  AuthOK'
  <2>1. /\ action' = action /\ config' = config
        /\ Position' = Position + 1
        /\ Len(todo') <= Len(Script(action'))
        /\ \A j \in 1..Len(todo') :
             todo'[j] = Script(action')[Position' - 1 + j]
    BY <1>4, OperationOneOn
  <2>2. action \in Actions
    BY <1>4 DEF Operation, AuthOK
  <2> QED BY <1>4, <2>1, <2>2 DEF AuthOK
<1>5. ASSUME NEW op, Operation(op)
      PROVE  /\ Position \in Nat \ {0}
             /\ Script(action)[Position] = Head(todo)
             /\ Script(action)[Position].op = op
             /\ config.auth = "strict" =>
                  Covered(host.auth, Script(action), Position)
  BY <1>5, OperationOneOn DEF AuthOK, Operation
<1>6. IsHost(host)
  BY DEF Sane
<1>7. CASE DoCall
  <2>1. /\ Operation("call")
        /\ host' = Call(host, Head(todo).call, config, target.tracked).host
    BY <1>7 DEF DoCall, Measured
  <2>2. host' = Invoke(host, Head(todo).call).host
    BY <2>1, CallHost
  <2> QED BY <1>4, <1>5, <1>6, <2>1, <2>2, CoveredAfterCall
<1>8. CASE DoCallUnchecked
  <2>1. /\ Operation("call_unchecked")
        /\ host' = CallUnchecked(host, Head(todo).call, config, target.tracked).host
    BY <1>8 DEF DoCallUnchecked, Measured
  <2>2. host' = Invoke(host, Head(todo).call).host
    BY <2>1, CallHost
  <2> QED BY <1>4, <1>5, <1>6, <2>1, <2>2, CoveredAfterCall
<1>9. CASE DoCallWithoutAuth
  <2>1. /\ Operation("call_without_auth")
        /\ host' = CallWithoutAuth(host, Head(todo).call, config, target.tracked).host
    BY <1>9 DEF DoCallWithoutAuth, Measured
  <2>2. host'.auth = Enforcing({})
    <3>1. SetAuths(host).auth = Enforcing({}) /\ IsHost(SetAuths(host))
      BY <1>6, InstallKeeps
    <3>2. SetAuths(host).auth.mode # "record"
      BY <3>1 DEF Enforcing
    <3>3. host' = Invoke(SetAuths(host), Head(todo).call).host
      BY <2>1, CallHost
    <3> QED BY <3>1, <3>2, <3>3, InvokeKeeps
  <2> QED BY <1>4, <2>1, <2>2 DEF Covered, Enforcing
<1>10. CASE DoCallRequiringAuth
  <2>1. /\ Operation("call_requiring_auth")
        /\ host' = CallRecorded(host, Head(todo).call, config, target.tracked).host
    BY <1>10 DEF DoCallRequiringAuth, Measured
  <2>2. host'.auth = RecordingAuth
    <3>1. MockAllAuths(host).auth = RecordingAuth /\ IsHost(MockAllAuths(host))
      BY <1>6, InstallKeeps
    <3>2. MockAllAuths(host).auth.mode = "record"
      BY <3>1 DEF RecordingAuth
    <3>3. host' = Invoke(MockAllAuths(host), Head(todo).call).host
      BY <2>1, CallHost
    <3> QED BY <3>1, <3>2, <3>3, InvokeKeeps
  <2>3. Recorded(Script(action), Position + 1)
    BY <1>5, <2>1, CauseOneOn
  <2> QED BY <1>4, <2>1, <2>2, <2>3 DEF Covered, RecordingAuth
<1>11. CASE DoAuthorize
  <2> DEFINE op == Head(todo)
  <2>1. Operation("authorize") /\ host' = MockAuths(host, {<<op.who, op.call>>})
    BY <1>11 DEF DoAuthorize, Authorize
  <2>2. host'.auth = Enforcing({<<op.who, op.call>>})
    BY <1>6, <2>1, InstallKeeps
  <2>3. Credited(Script(action), Position + 1, op.who, op.call)
    BY <1>5, <2>1, CauseOneOn
  <2> HIDE DEF op
  <2>4. Covered(host'.auth, Script(action), Position + 1)
    BY <2>2, <2>3 DEF Covered, Enforcing
  <2> QED BY <1>4, <2>1, <2>4
<1>12. CASE DoInstallAuths
  <2> DEFINE op == Head(todo)
  <2>1. Operation("install_auths") /\ host' = MockAuths(host, op.auths)
    BY <1>12 DEF DoInstallAuths, InstallAuths
  <2>2. host'.auth = Enforcing(op.auths)
    BY <1>6, <2>1, InstallKeeps
  <2>3. \A who, call : <<who, call>> \in op.auths =>
                         Credited(Script(action), Position + 1, who, call)
    BY <1>5, <2>1, CauseOneOn
  <2> HIDE DEF op
  <2>4. Covered(host'.auth, Script(action), Position + 1)
    BY <2>2, <2>3 DEF Covered, Enforcing
  <2> QED BY <1>4, <2>1, <2>4
<1>13. ASSUME NEW op \in {"advance", "close_ledger", "note"}, Operation(op),
              host'.auth = host.auth
       PROVE  AuthOK'
  <2>1. config.auth = "strict" => Covered(host.auth, Script(action), Position)
    BY <1>5, <1>13
  <2>2. \A script, p : p \in Nat \ {0} /\ script[p].op = op
                         /\ Covered(host.auth, script, p) =>
                           Covered(host.auth, script, p + 1)
    BY <1>13, CauseOneOn DEF Covered, Invocations
  <2> QED BY <1>4, <1>5, <1>13, <2>1, <2>2
<1>14. CASE DoAdvance
  <2>1. Operation("advance") /\ host' = Advance(host, Head(todo).ledgers)
    BY <1>14 DEF DoAdvance
  <2>2. host'.auth = host.auth
    BY <1>6, <2>1 DEF Advance, IsHost
  <2> QED BY <1>13, <2>1, <2>2
<1>15. CASE DoCloseLedger
  <2>1. Operation("close_ledger") /\ host' = Advance(host, Head(todo).ledgers)
    BY <1>15 DEF DoCloseLedger
  <2>2. host'.auth = host.auth
    BY <1>6, <2>1 DEF Advance, IsHost
  <2> QED BY <1>13, <2>1, <2>2
<1>16. CASE DoNote
  BY <1>13, <1>16 DEF DoNote
<1>17. CASE UNCHANGED vars
  BY <1>17 DEF vars, AuthOK, Position, Covered, Recorded, Credited
<1> QED BY <1>1, <1>2, <1>3, <1>7, <1>8, <1>9, <1>10, <1>11, <1>12, <1>14, <1>15,
           <1>16, <1>17 DEF Next

\* What is in force while an action runs, that action put in force.
THEOREM AlwaysCovered == Spec => []AuthOK
<1>1. Init => AuthOK
  BY DEF Init, AuthOK
<1>2. Sane /\ AuthOK /\ [Next]_vars => AuthOK'
  BY StepAuth
<1> QED BY <1>1, <1>2, AlwaysSane, PTL DEF Spec

\* Under the strict policy a call that demands an authorization goes through
\* only on one the same action installed for it and no other call has used,
\* and a call made without authorization only when it demands none: nothing
\* leaks from an earlier action, from setup or from the invariants (the policy
\* re-applied by run_case).
THEOREM AuthorizationStays == Spec => AuthorizationStaysInItsAction
<1> DEFINE Goal ==
      /\ (Running({"call", "call_unchecked"}) /\ config.auth = "strict") =>
           \A who \in host'.auths :
             Granted(Script(action), Position, who, Script(action)[Position].call)
      /\ Running({"call_without_auth"}) => host'.auths = {}
<1>1. ASSUME Sane, AuthOK, [Next]_vars, vars' # vars
      PROVE  Goal
  <2> USE DEF inputs, checker
  <2>1. IsHost(host)
    BY <1>1 DEF Sane
  <2>2. ASSUME NEW op, Operation(op)
        PROVE  /\ Position \in Nat \ {0}
               /\ Script(action)[Position] = Head(todo)
               /\ Head(todo).op = op
               /\ config.auth = "strict" =>
                    Covered(host.auth, Script(action), Position)
    BY <1>1, <2>2, OperationOneOn DEF AuthOK, Operation
  <2>3. ASSUME NEW op \in {"call", "call_unchecked"}, Operation(op),
               host' = Invoke(host, Head(todo).call).host
        PROVE  Goal
    <3>1. Head(todo).op # "call_without_auth"
      BY <2>2, <2>3
    <3>2. ~Running({"call_without_auth"})
      BY <3>1 DEF Running
    <3>3. ASSUME config.auth = "strict", NEW who \in host'.auths
          PROVE  Granted(Script(action), Position, who, Head(todo).call)
      <4>1. Grants(host.auth, who, Head(todo).call)
        BY <2>1, <2>3, <3>3, InvokeKeeps
      <4> QED BY <2>2, <2>3, <3>3, <4>1, CoveredIsGranted
    <3> QED BY <2>2, <2>3, <3>2, <3>3
  <2>4. CASE DoCall
    <3>1. /\ Operation("call")
          /\ host' = Call(host, Head(todo).call, config, target.tracked).host
      BY <2>4 DEF DoCall, Measured
    <3> QED BY <2>3, <3>1, CallHost
  <2>5. CASE DoCallUnchecked
    <3>1. /\ Operation("call_unchecked")
          /\ host' = CallUnchecked(host, Head(todo).call, config, target.tracked).host
      BY <2>5 DEF DoCallUnchecked, Measured
    <3> QED BY <2>3, <3>1, CallHost
  <2>6. CASE DoCallWithoutAuth
    <3>1. /\ Operation("call_without_auth")
          /\ host' = CallWithoutAuth(host, Head(todo).call, config, target.tracked).host
      BY <2>6 DEF DoCallWithoutAuth, Measured
    <3>2. host' = Invoke(SetAuths(host), Head(todo).call).host
      BY <3>1, CallHost
    <3>3. SetAuths(host).auth = Enforcing({}) /\ IsHost(SetAuths(host))
      BY <2>1, InstallKeeps
    <3>4. \A who, call : ~Grants(SetAuths(host).auth, who, call)
      BY <3>3 DEF Enforcing, Grants
    <3>5. host'.auths # {} =>
            \A who \in host'.auths : Grants(SetAuths(host).auth, who, Head(todo).call)
      BY <3>2, <3>3, InvokeKeeps
    <3>6. host'.auths = {}
      BY <3>4, <3>5
    <3>7. ~Running({"call", "call_unchecked"})
      BY <2>2, <3>1 DEF Running
    <3> QED BY <3>6, <3>7
  <2>7. ASSUME \A op \in {"call", "call_unchecked", "call_without_auth"} :
                 ~Running({op})
        PROVE  Goal
    BY <2>7 DEF Running
  <2>8. ASSUME NEW op, Operation(op),
               op \notin {"call", "call_unchecked", "call_without_auth"}
        PROVE  Goal
    BY <2>2, <2>7, <2>8 DEF Running
  <2>9. CASE DoCallRequiringAuth
    BY <2>8, <2>9 DEF DoCallRequiringAuth
  <2>10. CASE DoAuthorize
    BY <2>8, <2>10 DEF DoAuthorize
  <2>11. CASE DoInstallAuths
    BY <2>8, <2>11 DEF DoInstallAuths
  <2>12. CASE DoAdvance
    BY <2>8, <2>12 DEF DoAdvance
  <2>13. CASE DoCloseLedger
    BY <2>8, <2>13 DEF DoCloseLedger
  <2>14. CASE DoNote
    BY <2>8, <2>14 DEF DoNote
  <2>15. CASE \/ SkipCheck \/ StartCheck \/ CheckInvariant \/ CheckReadOnly
              \/ BeginStep \/ ReturnCase \/ FinishStep
    BY <2>7, <2>15 DEF Running, SkipCheck, StartCheck, CheckInvariant,
       CheckReadOnly, BeginStep, ReturnCase, FinishStep
  <2> QED BY <1>1, <2>4, <2>5, <2>6, <2>9, <2>10, <2>11, <2>12, <2>13, <2>14,
             <2>15 DEF Next
<1>2. Sane /\ AuthOK /\ [Next]_vars => [Goal]_vars
  BY <1>1
<1>3. Spec => [][Goal]_vars
  BY <1>2, AlwaysSane, AlwaysCovered, PTL DEF Spec
<1> QED BY <1>3 DEF AuthorizationStaysInItsAction, Position

-----------------------------------------------------------------------------
(* Metering *)

\* A limit is exceeded exactly when the comparison names one; for the
\* footprint, whose sum saturates, because no limit is as large as what it
\* saturates to.
LEMMA BreachNamed ==
  ASSUME NEW usage, NEW limits, MaxEntries > limits["ledger_entries"],
         Exceeds(usage, limits)
  PROVE  FirstBreach(usage, limits) # None
<1>1. /\ Len(LimitNames) = 8
      /\ LimitNames[1] = "instructions" /\ LimitNames[2] = "mem_bytes"
      /\ LimitNames[3] = "disk_read_entries" /\ LimitNames[4] = "write_entries"
      /\ LimitNames[5] = "ledger_entries" /\ LimitNames[6] = "disk_read_bytes"
      /\ LimitNames[7] = "write_bytes"
      /\ LimitNames[8] = "contract_events_size_bytes"
  BY DEF LimitNames
<1>2. Breaches(usage, limits) # {}
  <2>1. CASE \E m \in Metered \ {"memory_read_entries"} : usage[m] > limits[m]
    <3>1. PICK m \in Metered \ {"memory_read_entries"} : usage[m] > limits[m]
      BY <2>1
    <3>2. PICK n \in 1..8 : LimitNames[n] = m
      BY <1>1 DEF Metered
    <3>3. m # "ledger_entries"
      BY DEF Metered
    <3>4. Over(Used(usage, LimitNames[n]), limits[LimitNames[n]])
      BY <3>1, <3>2, <3>3 DEF Over, Used
    <3>5. n \in Breaches(usage, limits)
      BY <1>1, <3>4 DEF Breaches
    <3> QED BY <3>5
  <2>2. CASE usage["disk_read_entries"] + usage["memory_read_entries"]
               + usage["write_entries"] > limits["ledger_entries"]
    <3>1. LedgerEntries(usage) > limits["ledger_entries"]
      BY <2>2 DEF LedgerEntries, Saturate
    <3>2. Over(Used(usage, LimitNames[5]), limits[LimitNames[5]])
      BY <1>1, <3>1 DEF Over, Used
    <3>3. 5 \in Breaches(usage, limits)
      BY <1>1, <3>2 DEF Breaches
    <3> QED BY <3>3
  <2> QED BY <2>1, <2>2 DEF Exceeds
<1> DEFINE B == Breaches(usage, limits)
<1>3. B \subseteq 1..8
  BY <1>1 DEF Breaches
<1>4. FirstBreach(usage, limits)
        = LimitNames[CHOOSE n \in B : \A m \in B : n <= m]
  BY <1>2 DEF FirstBreach
<1>5. \E n \in B : \A m \in B : n <= m
  <2> HIDE DEF B
  <2>1. \A m \in B : m \in 1..8
    BY <1>3
  <2>2. \A n \in 1..8 : n \in B /\ (\A k \in 1..(n - 1) : k \notin B) =>
                         \A m \in B : n <= m
    BY <2>1
  <2>3. \E n \in 1..8 : n \in B /\ \A k \in 1..(n - 1) : k \notin B
    <3>1. 1 \in B \/ 2 \in B \/ 3 \in B \/ 4 \in B \/ 5 \in B \/ 6 \in B
            \/ 7 \in B \/ 8 \in B
      BY <1>2, <2>1 DEF B
    <3> QED BY <3>1
  <2> QED BY <2>2, <2>3
<1>6. \A S : (\E n \in S : \A m \in S : n <= m) =>
              (CHOOSE n \in S : \A m \in S : n <= m) \in S
  OBVIOUS
<1> HIDE DEF B
<1>7. (CHOOSE n \in B : \A m \in B : n <= m) \in 1..8
  BY <1>3, <1>5, <1>6
<1> QED BY <1>1, <1>4, <1>7, NoneAssumption

\* What an enforced call over a limit makes of itself, whatever converts it.
LEMMA LimitIsNoSuccess ==
  /\ \A then \in Conversions :
       Convert(then, "limit") \in {"violation", "<panicked>"}
  /\ \A who, measured : measured.result = "limit" =>
       Demanded(who, measured) = "violation"
<1>1. \A then \in Conversions :
        Convert(then, "limit") \in {"violation", "<panicked>"}
  BY DEF Conversions, Convert, IntoStep, ExpectOk, ExpectRejected,
     ExpectContractError, UnwrapOk
<1>2. \A who, measured : measured.result = "limit" =>
        Demanded(who, measured) = "violation"
  BY DEF Demanded
<1> QED BY <1>1, <1>2

\* An enforced call whose invocation used more than a limit allows comes out
\* as over the limit, whatever the invocation's own end.
LEMMA MeasuredOverLimit ==
  ASSUME NEW h, NEW call, NEW c, NEW tracked, c.resources = "enforce"
  PROVE  /\ FirstBreach(Invoke(h, call).host.usage, c.limits) # None =>
              Call(h, call, c, tracked).result = "limit"
         /\ FirstBreach(Invoke(SetAuths(h), call).host.usage, c.limits) # None =>
              CallWithoutAuth(h, call, c, tracked).result = "limit"
         /\ FirstBreach(Invoke(MockAllAuths(h), call).host.usage, c.limits)
                # None =>
              CallRecorded(h, call, c, tracked).result = "limit"
BY DEF Call, CallWithoutAuth, CallRecorded, Measure, Classified

NeverPassed ==
  Running(Invocations) =>
    LET op == Head(todo) IN
      /\ (/\ config.resources = "enforce"
          /\ op.op # "call_unchecked"
          /\ Exceeds(CodeOf(op).usage, config.limits)) =>
             outcome' \in {"violation", "<panicked>"}
      /\ (/\ config.resources = "sdk"
          /\ Exceeds(CodeOf(op).usage, NetworkLimits)) =>
             pc' = "failed"

\* Once a call is measured, the policy of the run decides.
LEMMA MeasuredDecides ==
  ASSUME Sane, NEW m, NEW result, Measured(m, result),
         m.host.usage = CodeOf(Head(todo)).usage,
         (/\ config.resources = "enforce"
          /\ Head(todo).op # "call_unchecked"
          /\ Exceeds(m.host.usage, config.limits)) =>
           result \in {"violation", "<panicked>"}
  PROVE  NeverPassed
<1>1. ASSUME config.resources = "enforce", Head(todo).op # "call_unchecked",
             Exceeds(CodeOf(Head(todo)).usage, config.limits)
      PROVE  outcome' \in {"violation", "<panicked>"}
  BY <1>1 DEF Measured, HostPanics
<1>2. ASSUME config.resources = "sdk",
             Exceeds(CodeOf(Head(todo)).usage, NetworkLimits)
      PROVE  pc' = "failed"
  <2>1. FirstBreach(m.host.usage, NetworkLimits) # None
    BY <1>2, BreachNamed, LimitAssumption
  <2> QED BY <1>2, <2>1 DEF Measured, HostPanics
<1> QED BY <1>1, <1>2 DEF NeverPassed

\* What an operation's call used is what its code uses where the host stands,
\* whichever credentials are installed for it.
LEMMA UsageOfCode ==
  ASSUME Sane
  PROVE  LET op == Head(todo)
         IN  /\ Call(host, op.call, config, target.tracked).host.usage
                  = CodeOf(op).usage
             /\ CallUnchecked(host, op.call, config, target.tracked).host.usage
                  = CodeOf(op).usage
             /\ CallWithoutAuth(host, op.call, config, target.tracked).host.usage
                  = CodeOf(op).usage
             /\ CallRecorded(host, op.call, config, target.tracked).host.usage
                  = CodeOf(op).usage
<1> DEFINE op == Head(todo)
<1>1. IsHost(host)
  BY DEF Sane
<1>2. \A h : IsHost(h) /\ h.ledger = host.ledger /\ h.seq = host.seq =>
              Invoke(h, op.call).host.usage = CodeOf(op).usage
  <2> SUFFICES ASSUME NEW h, IsHost(h), h.ledger = host.ledger,
                      h.seq = host.seq
               PROVE  Invoke(h, op.call).host.usage = CodeOf(op).usage
    OBVIOUS
  <2>1. Invoke(h, op.call).host.usage = Code(op.call, View(h), h.seq).usage
    BY InvokeKeeps
  <2>2. View(h) = View(host)
    BY ViewOfLedger
  <2> QED BY <2>1, <2>2 DEF CodeOf
<1>3. /\ Invoke(host, op.call).host.usage = CodeOf(op).usage
      /\ Invoke(SetAuths(host), op.call).host.usage = CodeOf(op).usage
      /\ Invoke(MockAllAuths(host), op.call).host.usage = CodeOf(op).usage
  BY <1>1, <1>2, InstallKeeps DEF SameClock, SameStorage
<1> QED BY <1>3, CallHost

\* An instrumented call over a configured limit fails the case whatever its
\* result and whatever the action makes of it, unless the call or the run
\* opted out; under the SDK's limits the host panics (Runtime::measure,
\* ResourceUsage::first_breach).
THEOREM BreachNeverPassed == Spec => BreachIsNeverPassed
<1>1. ASSUME Sane, [Next]_vars, vars' # vars
      PROVE  NeverPassed
  <2>1. ASSUME NEW op, Operation(op)
        PROVE  Head(todo).op = op /\ Head(todo) \in Operations
    BY <1>1, <2>1, HeadIsOperation DEF Operation, Sane
  <2>2. config \in Configs
    BY <1>1 DEF Sane
  <2>3. ASSUME NEW call, config.resources = "enforce",
               Exceeds(Invoke(host, call).host.usage, config.limits)
        PROVE  Call(host, call, config, target.tracked).result = "limit"
    BY <2>2, <2>3, BreachNamed, LimitAssumption, MeasuredOverLimit
  <2>4. CASE DoCall
    <3> DEFINE op == Head(todo)
               m == Call(host, op.call, config, target.tracked)
    <3>1. /\ Operation("call")
          /\ Measured(m, Convert(op.then, m.result))
      BY <2>4 DEF DoCall
    <3>2. m.host.usage = CodeOf(op).usage
      BY <1>1, UsageOfCode
    <3>3. op.then \in Conversions
      BY <2>1, <3>1, ScriptAssumption
    <3>4. (/\ config.resources = "enforce"
           /\ Exceeds(m.host.usage, config.limits)) => m.result = "limit"
      BY <2>3, CallHost
    <3> HIDE DEF m
    <3>5. (/\ config.resources = "enforce"
           /\ Exceeds(m.host.usage, config.limits)) =>
             Convert(op.then, m.result) \in {"violation", "<panicked>"}
      BY <3>3, <3>4, LimitIsNoSuccess
    <3> QED BY <1>1, <3>1, <3>2, <3>5, MeasuredDecides
  <2>5. CASE DoCallUnchecked
    <3> DEFINE op == Head(todo)
               m == CallUnchecked(host, op.call, config, target.tracked)
    <3>1. /\ Operation("call_unchecked")
          /\ Measured(m, Convert(op.then, m.result))
      BY <2>5 DEF DoCallUnchecked
    <3>2. m.host.usage = CodeOf(op).usage
      BY <1>1, UsageOfCode
    <3>3. op.op = "call_unchecked"
      BY <2>1, <3>1
    <3> HIDE DEF m
    <3> QED BY <1>1, <3>1, <3>2, <3>3, MeasuredDecides
  <2>6. CASE DoCallWithoutAuth
    <3> DEFINE op == Head(todo)
               m == CallWithoutAuth(host, op.call, config, target.tracked)
    <3>1. /\ Operation("call_without_auth")
          /\ Measured(m, Convert(op.then, m.result))
      BY <2>6 DEF DoCallWithoutAuth
    <3>2. m.host.usage = CodeOf(op).usage
      BY <1>1, UsageOfCode
    <3>3. op.then \in Conversions
      BY <2>1, <3>1, ScriptAssumption
    <3>4. (/\ config.resources = "enforce"
           /\ Exceeds(m.host.usage, config.limits)) => m.result = "limit"
      BY <2>2, CallHost, BreachNamed, LimitAssumption, MeasuredOverLimit
    <3> HIDE DEF m
    <3>5. (/\ config.resources = "enforce"
           /\ Exceeds(m.host.usage, config.limits)) =>
             Convert(op.then, m.result) \in {"violation", "<panicked>"}
      BY <3>3, <3>4, LimitIsNoSuccess
    <3> QED BY <1>1, <3>1, <3>2, <3>5, MeasuredDecides
  <2>7. CASE DoCallRequiringAuth
    <3> DEFINE op == Head(todo)
               m == CallRecorded(host, op.call, config, target.tracked)
    <3>1. Measured(m, Demanded(op.who, m))
      BY <2>7 DEF DoCallRequiringAuth
    <3>2. m.host.usage = CodeOf(op).usage
      BY <1>1, UsageOfCode
    <3>3. (/\ config.resources = "enforce"
           /\ Exceeds(m.host.usage, config.limits)) => m.result = "limit"
      BY <2>2, CallHost, BreachNamed, LimitAssumption, MeasuredOverLimit
    <3> HIDE DEF m
    <3>4. (/\ config.resources = "enforce"
           /\ Exceeds(m.host.usage, config.limits)) =>
             Demanded(op.who, m) \in {"violation", "<panicked>"}
      BY <3>3, LimitIsNoSuccess
    <3> QED BY <1>1, <3>1, <3>2, <3>4, MeasuredDecides
  <2>8. ASSUME ~Running(Invocations)
        PROVE  NeverPassed
    BY <2>8 DEF NeverPassed
  <2>9. ASSUME NEW op, Operation(op), op \notin Invocations
        PROVE  NeverPassed
    BY <2>1, <2>8, <2>9 DEF Running
  <2>10. CASE DoAuthorize \/ DoInstallAuths \/ DoAdvance \/ DoCloseLedger
               \/ DoNote
    BY <2>9, <2>10 DEF DoAuthorize, DoInstallAuths, DoAdvance, DoCloseLedger,
       DoNote, Invocations
  <2>11. CASE \/ SkipCheck \/ StartCheck \/ CheckInvariant \/ CheckReadOnly
              \/ BeginStep \/ ReturnCase \/ FinishStep
    BY <2>8, <2>11 DEF Running, SkipCheck, StartCheck, CheckInvariant,
       CheckReadOnly, BeginStep, ReturnCase, FinishStep
  <2> QED BY <1>1, <2>4, <2>5, <2>6, <2>7, <2>10, <2>11 DEF Next
<1>2. Sane /\ [Next]_vars => [NeverPassed]_vars
  BY <1>1
<1>3. Spec => [][NeverPassed]_vars
  BY <1>2, AlwaysSane, PTL DEF Spec
<1> QED BY <1>3 DEF BreachIsNeverPassed, NeverPassed

-----------------------------------------------------------------------------
(* Negative tests *)

\* What the host meters is a number, and a refusal is never a success.
SoundContract ==
  \A call, view, seq :
    LET code == Code(call, view, seq)
    IN  code.refusal # "ok" /\ code.usage \in [Metered -> Nat]

\* Within the limits no breach is reported.
LEMMA WithinIsNoBreach ==
  ASSUME NEW limits \in {c.limits : c \in Configs} \cup {NetworkLimits},
         NEW usage \in [Metered -> Nat], ~Exceeds(usage, limits)
  PROVE  FirstBreach(usage, limits) = None
<1> DEFINE sum == usage["disk_read_entries"] + usage["memory_read_entries"]
                    + usage["write_entries"]
<1>1. /\ sum \in Nat /\ MaxEntries \in Nat /\ limits["ledger_entries"] \in Nat
      /\ ~(sum > limits["ledger_entries"])
      /\ MaxEntries > limits["ledger_entries"]
  BY LimitAssumption DEF Exceeds, Metered
<1>2. ~(Used(usage, "ledger_entries") > limits["ledger_entries"])
  <2>1. Used(usage, "ledger_entries") = Saturate(sum, MaxEntries)
    BY DEF Used, LedgerEntries
  <2> HIDE DEF sum
  <2> QED BY <1>1, <2>1 DEF Saturate
<1>3. \A m \in Metered \ {"memory_read_entries"} :
        Used(usage, m) = usage[m] /\ ~(usage[m] > limits[m])
  BY DEF Used, Exceeds, Metered
<1>4. Len(LimitNames) = 8
  BY DEF LimitNames
<1>5. ASSUME NEW n \in 1..8
      PROVE  ~(Used(usage, LimitNames[n]) > limits[LimitNames[n]])
  <2>1. \/ LimitNames[n] = "ledger_entries"
        \/ LimitNames[n] \in Metered \ {"memory_read_entries"}
    BY DEF LimitNames, Metered
  <2> QED BY <1>2, <1>3, <2>1
<1>6. Breaches(usage, limits) = {}
  BY <1>4, <1>5 DEF Breaches, Over
<1> QED BY <1>6 DEF FirstBreach

\* What an invocation that starts from given credentials makes of its code.
LEMMA InvokeEnds ==
  ASSUME SoundContract, NEW h, IsHost(h), NEW call
  PROVE  LET code == Code(call, View(h), h.seq)
             ran  == Invoke(h, call)
         IN  /\ h.auth = Enforcing({}) =>
                  (ran.ends = "ok" <=> code.demands = {} /\ code.ends = "ok")
             /\ h.auth = RecordingAuth =>
                  /\ ran.ends = code.ends
                  /\ ran.ends = "ok" => ran.host.auths = code.demands
<1> DEFINE code == Code(call, View(h), h.seq)
           ran  == Invoke(h, call)
           allowed == \A who \in code.demands : Grants(h.auth, who, call)
           through == allowed /\ code.ends \in {"ok", "unreadable"}
<1>1. /\ ran.ends = IF allowed THEN code.ends ELSE code.refusal
      /\ ran.host = [h EXCEPT
               !.ledger = IF through THEN Applied(h, code) ELSE @,
               !.nonces = IF through THEN @ \cup Spent(h, code) ELSE @,
               !.auth   = IF @.mode = "record" THEN @ ELSE Enforcing({}),
               !.auths  = IF through THEN code.demands ELSE {},
               !.usage  = code.usage]
  BY DEF Invoke
<1>2. code.refusal # "ok"
  BY DEF SoundContract
<1>3. h.auth = Enforcing({}) => (allowed <=> code.demands = {})
  BY DEF Grants, Enforcing
<1>4. h.auth = RecordingAuth => allowed
  BY DEF Grants, RecordingAuth
<1>5. allowed /\ code.ends = "ok" => through
  OBVIOUS
<1> HIDE DEF code, ran, allowed, through
<1>6. ran.host.auths = IF through THEN code.demands ELSE {}
  BY <1>1 DEF IsHost
<1>7. /\ h.auth = Enforcing({}) =>
           (ran.ends = "ok" <=> code.demands = {} /\ code.ends = "ok")
      /\ h.auth = RecordingAuth =>
           /\ ran.ends = code.ends
           /\ ran.ends = "ok" => ran.host.auths = code.demands
  BY <1>1, <1>2, <1>3, <1>4, <1>5, <1>6
<1> QED BY <1>7 DEF code, ran

\* No breach would be reported of the call.
Within(h, call, c) ==
  c.resources = "enforce" =>
    FirstBreach(Invoke(h, call).host.usage, c.limits) = None

\* An enforced call within the limits has the result of its invocation.
LEMMA WithinIsClassified ==
  ASSUME NEW h, NEW call, NEW c, NEW tracked, NEW m,
         Within(h, call, c), m = Call(h, call, c, tracked)
  PROVE  /\ m.host = Invoke(h, call).host
         /\ m.result # "limit"
         /\ m.result = "ok" <=> Invoke(h, call).ends = "ok"
<1> DEFINE breach == IF TRUE /\ c.resources = "enforce"
                     THEN FirstBreach(Invoke(h, call).host.usage, c.limits)
                     ELSE None
           ends == Invoke(h, call).ends
<1>1. m.result = Classified(ends, breach) /\ m.host = Invoke(h, call).host
  BY DEF Call, Measure
<1>2. breach = None
  BY DEF Within
<1>3. /\ Classified(ends, None) # "limit"
      /\ Classified(ends, None) = "ok" <=> ends = "ok"
  BY DEF Classified
<1> QED BY <1>1, <1>2, <1>3

ExactTest ==
  LET op   == Head(todo)
      code == CodeOf(op)
  IN  ~(/\ Running({"call_without_auth", "call_requiring_auth"})
        /\ Exceeds(code.usage, LimitsInForce)) =>
        /\ (Running({"call_without_auth"}) /\ op.then = "expect_rejected") =>
             (outcome' = "violation"
                <=> code.demands = {} /\ code.ends = "ok")
        /\ Running({"call_requiring_auth"}) =>
             (outcome' = "ok"
                <=> code.ends = "ok" /\ op.who \in code.demands)

\* A negative test decides by what the code demands and how it ends, wherever
\* a call keeps to the limits in force: an entrypoint that asks for nothing
\* fails it, whatever was authorized before (CallResult::expect_rejected,
\* Runtime::call_without_auth, call_requiring_auth).
THEOREM NegativeTestsExact ==
  ASSUME SoundContract
  PROVE  Spec => NegativeTestsAreExact
<1>1. ASSUME Sane, [Next]_vars, vars' # vars
      PROVE  ExactTest
  <2> DEFINE op   == Head(todo)
             code == CodeOf(op)
  <2>1. /\ IsHost(host) /\ config \in Configs
        /\ code.usage \in [Metered -> Nat]
    BY <1>1 DEF Sane, SoundContract, CodeOf
  <2>2. LimitsInForce \in {c.limits : c \in Configs} \cup {NetworkLimits}
    BY <2>1 DEF LimitsInForce
  <2>3. ~Exceeds(code.usage, LimitsInForce) =>
          FirstBreach(code.usage, LimitsInForce) = None
    BY <2>1, <2>2, WithinIsNoBreach
  <2>4. ASSUME NEW name, Operation(name)
        PROVE  op.op = name
    BY <2>4 DEF Operation
  <2>5. /\ IsHost(SetAuths(host)) /\ View(SetAuths(host)) = View(host)
        /\ SetAuths(host).seq = host.seq
        /\ SetAuths(host).auth = Enforcing({})
        /\ IsHost(MockAllAuths(host)) /\ View(MockAllAuths(host)) = View(host)
        /\ MockAllAuths(host).seq = host.seq
        /\ MockAllAuths(host).auth = RecordingAuth
    <3>1. /\ SetAuths(host).ledger = host.ledger
          /\ SetAuths(host).seq = host.seq
          /\ MockAllAuths(host).ledger = host.ledger
          /\ MockAllAuths(host).seq = host.seq
      BY <2>1, InstallKeeps DEF SameClock, SameStorage
    <3> QED BY <2>1, <3>1, InstallKeeps, ViewOfLedger
  <2>6. CASE DoCallWithoutAuth
    <3> DEFINE h == SetAuths(host)
               ran == Invoke(h, op.call)
               m == CallWithoutAuth(host, op.call, config, target.tracked)
    <3>1. Operation("call_without_auth") /\ Measured(m, Convert(op.then, m.result))
      BY <2>6 DEF DoCallWithoutAuth
    <3>2. Code(op.call, View(h), h.seq) = code
      BY <2>5 DEF CodeOf
    <3>3. /\ ran.ends = "ok" <=> code.demands = {} /\ code.ends = "ok"
          /\ ran.host.usage = code.usage
      BY <2>5, <3>2, InvokeEnds, InvokeKeeps
    <3> SUFFICES ASSUME ~Exceeds(code.usage, LimitsInForce),
                        op.then = "expect_rejected"
                 PROVE  outcome' = "violation"
                          <=> code.demands = {} /\ code.ends = "ok"
      <4>1. /\ Running({"call_without_auth", "call_requiring_auth"})
            /\ ~Running({"call_requiring_auth"})
        BY <3>1 DEF Running, Operation
      <4> QED BY <4>1 DEF ExactTest
    <3>4. /\ m.host = ran.host /\ m.result # "limit"
          /\ m.result = "ok" <=> ran.ends = "ok"
      <4>1. Within(h, op.call, config)
        BY <2>3, <3>3 DEF LimitsInForce, Within
      <4>2. m = Call(h, op.call, config, target.tracked)
        BY DEF CallWithoutAuth, Call
      <4> HIDE DEF h, m
      <4> QED BY <4>1, <4>2, WithinIsClassified
    <3> HIDE DEF m, ran, code
    <3>5. ~HostPanics(m)
      BY <2>3, <3>3, <3>4 DEF HostPanics, LimitsInForce
    <3>6. outcome' = Convert(op.then, m.result)
      BY <3>1, <3>5 DEF Measured
    <3>7. Convert("expect_rejected", m.result) = "violation"
            <=> m.result \in {"ok", "limit"}
      BY DEF Convert, ExpectRejected
    <3> QED BY <3>3, <3>4, <3>6, <3>7
  <2>7. CASE DoCallRequiringAuth
    <3> DEFINE h == MockAllAuths(host)
               ran == Invoke(h, op.call)
               m == CallRecorded(host, op.call, config, target.tracked)
    <3>1. /\ Operation("call_requiring_auth")
          /\ Measured(m, Demanded(op.who, m))
      BY <2>7 DEF DoCallRequiringAuth
    <3>2. Code(op.call, View(h), h.seq) = code
      BY <2>5 DEF CodeOf
    <3>3. /\ ran.ends = code.ends
          /\ ran.ends = "ok" => ran.host.auths = code.demands
          /\ ran.host.usage = code.usage
      BY <2>5, <3>2, InvokeEnds, InvokeKeeps
    <3> SUFFICES ASSUME ~Exceeds(code.usage, LimitsInForce)
                 PROVE  outcome' = "ok"
                          <=> code.ends = "ok" /\ op.who \in code.demands
      <4>1. /\ Running({"call_without_auth", "call_requiring_auth"})
            /\ ~Running({"call_without_auth"})
        BY <3>1 DEF Running, Operation
      <4> QED BY <4>1 DEF ExactTest
    <3>4. /\ m.host = ran.host
          /\ m.result = "ok" <=> ran.ends = "ok"
      <4>1. Within(h, op.call, config)
        BY <2>3, <3>3 DEF LimitsInForce, Within
      <4>2. m = Call(h, op.call, config, target.tracked)
        BY DEF CallRecorded, Call
      <4> HIDE DEF h, m
      <4> QED BY <4>1, <4>2, WithinIsClassified
    <3> HIDE DEF m, ran, code
    <3>5. ~HostPanics(m)
      BY <2>3, <3>3, <3>4 DEF HostPanics, LimitsInForce
    <3>6. outcome' = Demanded(op.who, m)
      BY <3>1, <3>5 DEF Measured
    <3> QED BY <3>3, <3>4, <3>6 DEF Demanded
  <2>8. ASSUME ~Running({"call_without_auth"}),
               ~Running({"call_requiring_auth"})
        PROVE  ExactTest
    BY <2>8 DEF ExactTest
  <2>9. ASSUME NEW name, Operation(name),
               name \notin {"call_without_auth", "call_requiring_auth"}
        PROVE  ExactTest
    BY <2>4, <2>8, <2>9 DEF Running
  <2>10. CASE \/ DoCall \/ DoCallUnchecked \/ DoAuthorize \/ DoInstallAuths
              \/ DoAdvance \/ DoCloseLedger \/ DoNote
    BY <2>9, <2>10 DEF DoCall, DoCallUnchecked, DoAuthorize, DoInstallAuths,
       DoAdvance, DoCloseLedger, DoNote
  <2>11. CASE \/ SkipCheck \/ StartCheck \/ CheckInvariant \/ CheckReadOnly
              \/ BeginStep \/ ReturnCase \/ FinishStep
    BY <2>8, <2>11 DEF Running, SkipCheck, StartCheck, CheckInvariant,
       CheckReadOnly, BeginStep, ReturnCase, FinishStep
  <2> QED BY <1>1, <2>6, <2>7, <2>10, <2>11 DEF Next
<1>2. Sane /\ [Next]_vars => [ExactTest]_vars
  BY <1>1
<1>3. Spec => [][ExactTest]_vars
  BY <1>2, AlwaysSane, PTL DEF Spec
<1> QED BY <1>3 DEF NegativeTestsAreExact, ExactTest

-----------------------------------------------------------------------------
(* Snapshots and their differences, for every ledger of finitely many entries *)

\* A snapshot as capture leaves it: finitely many keys, each of a durability
\* that exists.
IsSnapshot(s) ==
  /\ s = [k \in DOMAIN s |-> s[k]]
  /\ IsFiniteSet(DOMAIN s)
  /\ \A k \in DOMAIN s : k.kind \in StoreKinds

-----------------------------------------------------------------------------

\* The keys of one durability among finitely many keys are finitely many.
LEMMA OfKindFinite ==
  ASSUME NEW K, IsFiniteSet(K), NEW kind
  PROVE  IsFiniteSet(OfKind(K, kind))
BY FS_Subset, OfKind(K, kind) \subseteq K DEF OfKind

\* What a difference says balances what the two snapshots hold: of each
\* durability, what the later one holds with what was removed is what the
\* earlier one held with what was added (StorageSnapshot::diff).
THEOREM DiffBalances ==
  ASSUME NEW b, IsFiniteSet(DOMAIN b), NEW a, IsFiniteSet(DOMAIN a),
         NEW kind \in StoreKinds
  PROVE  Counts(a)[kind] + Diff(b, a)[kind].removed
           = Counts(b)[kind] + Diff(b, a)[kind].added
<1> DEFINE A == OfKind(DOMAIN a, kind)
           B == OfKind(DOMAIN b, kind)
<1>1. IsFiniteSet(A) /\ IsFiniteSet(B)
  BY OfKindFinite
<1>2. /\ OfKind(AddedKeys(b, a), kind) = A \ B
      /\ OfKind(RemovedKeys(b, a), kind) = B \ A
  BY DEF OfKind, AddedKeys, RemovedKeys
<1>3. /\ Counts(a)[kind] = Cardinality(A)
      /\ Counts(b)[kind] = Cardinality(B)
      /\ Diff(b, a)[kind].added = Cardinality(A \ B)
      /\ Diff(b, a)[kind].removed = Cardinality(B \ A)
  BY <1>2 DEF Counts, Diff, DiffKind
<1> HIDE DEF A, B
<1>4. /\ Cardinality(A \ B) = Cardinality(A) - Cardinality(A \cap B)
      /\ Cardinality(B \ A) = Cardinality(B) - Cardinality(B \cap A)
  BY <1>1, FS_Difference
<1>5. A \cap B = B \cap A
  OBVIOUS
<1>6. /\ Cardinality(A) \in Nat
      /\ Cardinality(B) \in Nat
      /\ Cardinality(A \cap B) \in Nat
  BY <1>1, FS_Subset, FS_CardinalityType, A \cap B \subseteq A
<1>7. Cardinality(A) + Cardinality(B \ A) = Cardinality(B) + Cardinality(A \ B)
  <2> DEFINE x == Cardinality(A)
             y == Cardinality(B)
             z == Cardinality(A \cap B)
  <2>1. Cardinality(A \ B) = x - z /\ Cardinality(B \ A) = y - z
    BY <1>4, <1>5
  <2>2. x \in Nat /\ y \in Nat /\ z \in Nat
    BY <1>6
  <2> HIDE DEF x, y, z
  <2>3. x + (y - z) = y + (x - z)
    BY ONLY <2>2
  <2>4. x + Cardinality(B \ A) = y + Cardinality(A \ B)
    BY ONLY <2>1, <2>3, Zenon
  <2> QED BY <2>4 DEF x, y
<1> QED BY <1>3, <1>7, Zenon

\* A difference is empty exactly when the snapshots are the same: no write is
\* missed, and none is made up (StorageDelta::is_empty).
THEOREM EmptyDiffIsEquality ==
  ASSUME NEW b, IsSnapshot(b), NEW a, IsSnapshot(a)
  PROVE  IsEmpty(Diff(b, a)) <=> b = a
<1> DEFINE Changed == AddedKeys(b, a) \cup RemovedKeys(b, a)
                        \cup UpdatedKeys(b, a)
<1>1. /\ IsFiniteSet(AddedKeys(b, a))
      /\ IsFiniteSet(RemovedKeys(b, a))
      /\ IsFiniteSet(UpdatedKeys(b, a))
  <2>1. /\ AddedKeys(b, a) \subseteq DOMAIN a
        /\ RemovedKeys(b, a) \subseteq DOMAIN b
        /\ UpdatedKeys(b, a) \subseteq DOMAIN b
    BY DEF AddedKeys, RemovedKeys, UpdatedKeys
  <2> QED BY <2>1, FS_Subset DEF IsSnapshot
<1>2. ASSUME NEW kind \in StoreKinds
      PROVE  NoWrites(Diff(b, a)[kind])
               <=> /\ OfKind(AddedKeys(b, a), kind) = {}
                   /\ OfKind(RemovedKeys(b, a), kind) = {}
                   /\ OfKind(UpdatedKeys(b, a), kind) = {}
  <2> DEFINE X == OfKind(AddedKeys(b, a), kind)
             Y == OfKind(RemovedKeys(b, a), kind)
             Z == OfKind(UpdatedKeys(b, a), kind)
  <2>1. IsFiniteSet(X) /\ IsFiniteSet(Y) /\ IsFiniteSet(Z)
    BY <1>1, OfKindFinite
  <2>2. Diff(b, a)[kind] = [added   |-> Cardinality(X),
                            removed |-> Cardinality(Y),
                            updated |-> Cardinality(Z)]
    BY DEF Diff, DiffKind
  <2> HIDE DEF X, Y, Z
  <2>3. /\ Cardinality(X) \in Nat /\ Cardinality(Y) \in Nat
        /\ Cardinality(Z) \in Nat
    BY <2>1, FS_CardinalityType
  <2>4. /\ Cardinality(X) = 0 <=> X = {}
        /\ Cardinality(Y) = 0 <=> Y = {}
        /\ Cardinality(Z) = 0 <=> Z = {}
    BY <2>1, FS_EmptySet
  <2>5. NoWrites(Diff(b, a)[kind]) <=> X = {} /\ Y = {} /\ Z = {}
    BY <2>2, <2>3, <2>4 DEF NoWrites, Writes
  <2> QED BY <2>5 DEF X, Y, Z
<1>3. IsEmpty(Diff(b, a)) <=>
        \A kind \in StoreKinds : /\ OfKind(AddedKeys(b, a), kind) = {}
                                 /\ OfKind(RemovedKeys(b, a), kind) = {}
                                 /\ OfKind(UpdatedKeys(b, a), kind) = {}
  BY <1>2 DEF IsEmpty
<1>4. ASSUME NEW K, K \subseteq DOMAIN a \cup DOMAIN b
      PROVE  (\A kind \in StoreKinds : OfKind(K, kind) = {}) <=> K = {}
  BY <1>4 DEF OfKind, IsSnapshot
<1>5. /\ AddedKeys(b, a) \subseteq DOMAIN a \cup DOMAIN b
      /\ RemovedKeys(b, a) \subseteq DOMAIN a \cup DOMAIN b
      /\ UpdatedKeys(b, a) \subseteq DOMAIN a \cup DOMAIN b
  BY DEF AddedKeys, RemovedKeys, UpdatedKeys
<1>6. IsEmpty(Diff(b, a)) <=> /\ AddedKeys(b, a) = {}
                              /\ RemovedKeys(b, a) = {}
                              /\ UpdatedKeys(b, a) = {}
  BY <1>3, <1>4, <1>5
<1>7. (/\ AddedKeys(b, a) = {}
       /\ RemovedKeys(b, a) = {}
       /\ UpdatedKeys(b, a) = {}) <=> b = a
  BY DEF AddedKeys, RemovedKeys, UpdatedKeys, IsSnapshot
<1> QED BY <1>6, <1>7

\* Restricting a snapshot already taken gives what capturing with the
\* restriction would have given: run_case's tracked contracts may be applied
\* before or after (StorageSnapshot::scoped, capture_scoped).
THEOREM ScopedIsCaptureScoped ==
  ASSUME NEW ledger, NEW contracts
  PROVE  Scoped(Capture(ledger), contracts) = CaptureScoped(ledger, contracts)
<1> DEFINE snap == Capture(ledger)
<1>1. /\ DOMAIN snap = DOMAIN ledger
      /\ \A k \in DOMAIN ledger : snap[k] = ledger[k].val
  BY DEF Capture, CaptureFiltered, Owners
<1>2. Owners(snap) = Owners(ledger)
  BY <1>1 DEF Owners
<1> DEFINE keys == {x \in DOMAIN ledger :
                      x.owner \in FilterFor(contracts, Owners(ledger))}
<1>3. Scoped(snap, contracts) = [k \in keys |-> snap[k]]
  BY <1>1, <1>2 DEF Scoped
<1>4. CaptureScoped(ledger, contracts) = [k \in keys |-> ledger[k].val]
  BY DEF CaptureScoped, CaptureFiltered
<1>5. \A k \in keys : snap[k] = ledger[k].val
  BY <1>1
<1> HIDE DEF snap, keys
<1>6. Scoped(snap, contracts) = CaptureScoped(ledger, contracts)
  BY <1>3, <1>4, <1>5
<1> QED BY <1>6 DEF snap

-----------------------------------------------------------------------------
(* Storage *)

\* A successful call writes finitely many entries, and demands the
\* authorization of finitely many addresses.
FiniteWrites ==
  \A call, view, seq : /\ IsFiniteSet(DOMAIN Code(call, view, seq).sets)
                       /\ IsFiniteSet(Code(call, view, seq).demands)

FiniteLedger(h) == IsFiniteSet(DOMAIN h.ledger) /\ IsFiniteSet(h.nonces)

\* How many tracked entries a host stores.
HeldBy(h, tracked) == Total(Counts(CaptureScoped(Entries(h), tracked)))

\* A record of the call that took host g to host h.
Accounts(r, g, h, tracked) ==
  /\ r.label \notin Markers
  /\ r.entries = HeldBy(h, tracked)
  /\ r.entries + DeltaSum(r.delta, "removed")
       = HeldBy(g, tracked) + DeltaSum(r.delta, "added")

\* Consecutive records of calls say how the entries held changed, and the
\* last of them how many there are.
Consecutive(calls) ==
  \A n, l \in InstrumentedOf(calls) :
    (l < n /\ \A k \in InstrumentedOf(calls) : ~(l < k /\ k < n)) =>
      calls[n].entries + DeltaSum(calls[n].delta, "removed")
        = calls[l].entries + DeltaSum(calls[n].delta, "added")

LastHolds(calls, held) ==
  \A n \in InstrumentedOf(calls) :
    (\A k \in InstrumentedOf(calls) : k <= n) => calls[n].entries = held

IsSequence(s) == \E S : s \in Seq(S)

IsStep(s) ==
  /\ s = [index |-> s.index, action |-> s.action, outcome |-> s.outcome,
          calls |-> s.calls]
  /\ IsSequence(s.calls)

\* What holds of the steps journalled, the last one above all.
StepsAccounted ==
  /\ IsSequence(steps)
  /\ steps # <<>> => /\ IsStep(steps[Len(steps)])
                     /\ Consecutive(steps[Len(steps)].calls)
  /\ pc = "execute" =>
       /\ steps # <<>>
       /\ LastHolds(steps[Len(steps)].calls, HeldBy(host, target.tracked))

Accounted == FiniteLedger(host) /\ StepsAccounted

\* A call leaves finitely many nonces.
LEMMA SpentFinite ==
  ASSUME NEW h, NEW code, IsFiniteSet(code.demands)
  PROVE  /\ IsFiniteSet(Spent(h, code))
         /\ code.demands = {} => Spent(h, code) = {}
<1> DEFINE key == [who \in code.demands |->
                     NonceKey(who, Cardinality(h.nonces))]
<1>1. /\ key \in [code.demands -> Spent(h, code)]
      /\ \A k \in Spent(h, code) : \E who \in code.demands : key[who] = k
  BY DEF Spent
<1> HIDE DEF key
<1>2. key \in Surjection(code.demands, Spent(h, code))
  BY <1>1 DEF Surjection
<1>3. IsFiniteSet(Spent(h, code))
  BY <1>2, FS_Surjection
<1> QED BY <1>3 DEF Spent

\* An invocation leaves a ledger of finitely many entries.
LEMMA InvokeFinite ==
  ASSUME FiniteWrites, NEW h, IsHost(h), FiniteLedger(h), NEW call
  PROVE  FiniteLedger(Invoke(h, call).host)
<1> DEFINE code == Code(call, View(h), h.seq)
           ran  == Invoke(h, call).host
<1>1. /\ ran.ledger = h.ledger \/ ran.ledger = Applied(h, code)
      /\ ran.nonces = h.nonces \/ ran.nonces = h.nonces \cup Spent(h, code)
  <2> DEFINE allowed == \A who \in code.demands : Grants(h.auth, who, call)
             through == allowed /\ code.ends \in {"ok", "unreadable"}
  <2>1. ran = [h EXCEPT
                 !.ledger = IF through THEN Applied(h, code) ELSE @,
                 !.nonces = IF through THEN @ \cup Spent(h, code) ELSE @,
                 !.auth   = IF @.mode = "record" THEN @ ELSE Enforcing({}),
                 !.auths  = IF through THEN code.demands ELSE {},
                 !.usage  = code.usage]
    BY DEF Invoke
  <2> HIDE DEF ran, through, allowed, code
  <2> QED BY <2>1 DEF IsHost
<1>2. DOMAIN Applied(h, code) \subseteq DOMAIN h.ledger \cup DOMAIN code.sets
  BY DEF Applied
<1>3. IsFiniteSet(DOMAIN code.sets)
  BY DEF FiniteWrites
<1>4. IsFiniteSet(DOMAIN h.ledger \cup DOMAIN code.sets)
  BY <1>3, FS_Union DEF FiniteLedger
<1>5. IsFiniteSet(DOMAIN Applied(h, code))
  BY <1>2, <1>4, FS_Subset
<1>6. IsFiniteSet(h.nonces \cup Spent(h, code))
  BY SpentFinite, FS_Union DEF FiniteLedger, FiniteWrites
<1> QED BY <1>1, <1>5, <1>6 DEF FiniteLedger

\* A snapshot of finitely many entries is finite.
LEMMA CapturedFinite ==
  ASSUME NEW h, FiniteLedger(h), NEW tracked
  PROVE  IsFiniteSet(DOMAIN CaptureScoped(Entries(h), tracked))
<1>1. DOMAIN CaptureScoped(Entries(h), tracked)
        \subseteq DOMAIN h.ledger \cup h.nonces
  BY DEF CaptureScoped, CaptureFiltered, Entries
<1>2. IsFiniteSet(DOMAIN h.ledger \cup h.nonces)
  BY FS_Union DEF FiniteLedger
<1> QED BY <1>1, <1>2, FS_Subset

\* Over the durabilities together, too, a difference balances what the two
\* snapshots hold.
LEMMA TotalBalances ==
  ASSUME NEW b, IsFiniteSet(DOMAIN b), NEW a, IsFiniteSet(DOMAIN a)
  PROVE  Total(Counts(a)) + DeltaSum(Diff(b, a), "removed")
           = Total(Counts(b)) + DeltaSum(Diff(b, a), "added")
<1>1. \A kind \in StoreKinds :
        Counts(a)[kind] + Diff(b, a)[kind].removed
          = Counts(b)[kind] + Diff(b, a)[kind].added
  BY DiffBalances
<1>2. \A kind \in StoreKinds :
        /\ Counts(a)[kind] \in Nat /\ Counts(b)[kind] \in Nat
        /\ Diff(b, a)[kind].removed \in Nat /\ Diff(b, a)[kind].added \in Nat
  <2> SUFFICES ASSUME NEW kind \in StoreKinds
               PROVE  /\ Counts(a)[kind] \in Nat /\ Counts(b)[kind] \in Nat
                      /\ Diff(b, a)[kind].removed \in Nat
                      /\ Diff(b, a)[kind].added \in Nat
    OBVIOUS
  <2>1. IsFiniteSet(AddedKeys(b, a)) /\ IsFiniteSet(RemovedKeys(b, a))
    <3>1. AddedKeys(b, a) \subseteq DOMAIN a /\ RemovedKeys(b, a) \subseteq DOMAIN b
      BY DEF AddedKeys, RemovedKeys
    <3> QED BY <3>1, FS_Subset
  <2>2. /\ Cardinality(OfKind(DOMAIN a, kind)) \in Nat
        /\ Cardinality(OfKind(DOMAIN b, kind)) \in Nat
        /\ Cardinality(OfKind(AddedKeys(b, a), kind)) \in Nat
        /\ Cardinality(OfKind(RemovedKeys(b, a), kind)) \in Nat
    BY <2>1, OfKindFinite, FS_CardinalityType
  <2> QED BY <2>2 DEF Counts, Diff, DiffKind
<1> DEFINE D == Diff(b, a)
           A == Counts(a)
           B == Counts(b)
<1>3. \A kind \in {"instance", "persistent", "temporary"} :
        /\ A[kind] + D[kind].removed = B[kind] + D[kind].added
        /\ A[kind] \in Nat /\ B[kind] \in Nat
        /\ D[kind].removed \in Nat /\ D[kind].added \in Nat
  BY <1>1, <1>2 DEF StoreKinds
<1> HIDE DEF A, B, D
<1>4. DeltaSum(D, "removed") = D["instance"].removed + D["persistent"].removed
                                 + D["temporary"].removed
  BY DEF DeltaSum
<1>5. DeltaSum(D, "added") = D["instance"].added + D["persistent"].added
                               + D["temporary"].added
  BY DEF DeltaSum
<1>6. Total(A) + DeltaSum(D, "removed") = Total(B) + DeltaSum(D, "added")
  BY <1>3, <1>4, <1>5 DEF Total
<1> QED BY <1>6 DEF A, B, D

\* The record a measured call leaves is one of that call.
LEMMA MeasureAccounts ==
  ASSUME FiniteWrites, NEW h, IsHost(h), FiniteLedger(h), NEW call,
         call.fn \notin Markers, NEW enforce, NEW c, NEW tracked
  PROVE  LET m == Measure(h, call, enforce, c, tracked)
         IN  Accounts(m.record, h, m.host, tracked)
<1> DEFINE m == Measure(h, call, enforce, c, tracked)
           g == Invoke(h, call).host
           b == CaptureScoped(Entries(h), tracked)
           a == CaptureScoped(Entries(g), tracked)
<1>1. /\ m.host = g
      /\ m.record.label = call.fn
      /\ m.record.delta = Diff(b, a)
      /\ m.record.entries = Total(Counts(a))
  BY DEF Measure, CallRecord
<1>2. IsFiniteSet(DOMAIN a) /\ IsFiniteSet(DOMAIN b)
  BY InvokeFinite, CapturedFinite
<1>3. Total(Counts(a)) + DeltaSum(Diff(b, a), "removed")
        = Total(Counts(b)) + DeltaSum(Diff(b, a), "added")
  BY <1>2, TotalBalances
<1>4. HeldBy(h, tracked) = Total(Counts(b)) /\ HeldBy(g, tracked) = Total(Counts(a))
  BY DEF HeldBy
<1> HIDE DEF m, g, b, a
<1>5. Accounts(m.record, h, m.host, tracked)
  BY <1>1, <1>3, <1>4 DEF Accounts
<1> QED BY <1>5 DEF m

\* So is that of each of the runtime's calls, whatever credentials it sets.
LEMMA CallAccounts ==
  ASSUME FiniteWrites, NEW h, IsHost(h), FiniteLedger(h), NEW call,
         call.fn \notin Markers, NEW c, NEW tracked, NEW m,
         \/ m = Call(h, call, c, tracked)
         \/ m = CallUnchecked(h, call, c, tracked)
         \/ m = CallWithoutAuth(h, call, c, tracked)
         \/ m = CallRecorded(h, call, c, tracked)
  PROVE  Accounts(m.record, h, m.host, tracked)
<1>1. \A g : (IsHost(g) /\ SameStorage(g, h)) =>
        \A enforce : LET n == Measure(g, call, enforce, c, tracked)
                     IN  Accounts(n.record, h, n.host, tracked)
  <2> SUFFICES ASSUME NEW g, IsHost(g), SameStorage(g, h), NEW enforce
               PROVE  LET n == Measure(g, call, enforce, c, tracked)
                      IN  Accounts(n.record, h, n.host, tracked)
    OBVIOUS
  <2>1. FiniteLedger(g) /\ HeldBy(g, tracked) = HeldBy(h, tracked)
    BY DEF FiniteLedger, HeldBy, SameStorage, Entries
  <2> DEFINE n == Measure(g, call, enforce, c, tracked)
  <2>2. Accounts(n.record, g, n.host, tracked)
    BY <2>1, MeasureAccounts
  <2> HIDE DEF n
  <2>3. Accounts(n.record, h, n.host, tracked)
    BY <2>1, <2>2 DEF Accounts
  <2> QED BY <2>3 DEF n
<1>2. /\ IsHost(SetAuths(h)) /\ SameStorage(SetAuths(h), h)
      /\ IsHost(MockAllAuths(h)) /\ SameStorage(MockAllAuths(h), h)
      /\ SameStorage(h, h)
  BY InstallKeeps DEF SameStorage
<1>3. \/ m = Measure(h, call, TRUE, c, tracked)
      \/ m = Measure(h, call, FALSE, c, tracked)
      \/ m = Measure(SetAuths(h), call, TRUE, c, tracked)
      \/ m = Measure(MockAllAuths(h), call, TRUE, c, tracked)
  BY DEF Call, CallUnchecked, CallWithoutAuth, CallRecorded
<1> QED BY <1>1, <1>2, <1>3

\* A record of a call carries the account on.
LEMMA AppendCall ==
  ASSUME NEW calls, IsSequence(calls), NEW r, NEW g, NEW h, NEW tracked,
         Consecutive(calls), LastHolds(calls, HeldBy(g, tracked)),
         Accounts(r, g, h, tracked)
  PROVE  /\ Consecutive(Append(calls, r))
         /\ LastHolds(Append(calls, r), HeldBy(h, tracked))
<1> DEFINE N == Len(calls)
           longer == Append(calls, r)
<1>1. /\ N \in Nat /\ Len(longer) = N + 1 /\ longer[N + 1] = r
      /\ \A n \in 1..N : longer[n] = calls[n]
  BY DEF IsSequence
<1> HIDE DEF N, longer
<1>2. InstrumentedOf(longer) = InstrumentedOf(calls) \cup {N + 1}
  BY <1>1 DEF InstrumentedOf, Accounts, N
<1>3. InstrumentedOf(calls) \subseteq 1..N
  BY DEF InstrumentedOf, N
<1>4. Consecutive(longer)
  <2> SUFFICES ASSUME NEW n \in InstrumentedOf(longer),
                      NEW l \in InstrumentedOf(longer), l < n,
                      \A k \in InstrumentedOf(longer) : ~(l < k /\ k < n)
               PROVE  longer[n].entries + DeltaSum(longer[n].delta, "removed")
                        = longer[l].entries + DeltaSum(longer[n].delta, "added")
    BY DEF Consecutive
  <2>1. l \in InstrumentedOf(calls) /\ longer[l] = calls[l]
    BY <1>1, <1>2, <1>3
  <2>2. CASE n \in InstrumentedOf(calls)
    <3>1. longer[n] = calls[n]
      BY <1>1, <1>3, <2>2
    <3> QED BY <1>2, <2>1, <2>2, <3>1 DEF Consecutive
  <2>3. CASE n = N + 1
    <3>1. \A k \in InstrumentedOf(calls) : k <= l
      BY <1>1, <1>2, <1>3, <2>1, <2>3
    <3>2. calls[l].entries = HeldBy(g, tracked)
      BY <2>1, <3>1 DEF LastHolds
    <3> QED BY <1>1, <2>1, <2>3, <3>2 DEF Accounts
  <2> QED BY <1>2, <2>2, <2>3
<1>5. LastHolds(longer, HeldBy(h, tracked))
  <2> SUFFICES ASSUME NEW n \in InstrumentedOf(longer),
                      \A k \in InstrumentedOf(longer) : k <= n
               PROVE  longer[n].entries = HeldBy(h, tracked)
    BY DEF LastHolds
  <2>1. n = N + 1
    BY <1>1, <1>2, <1>3
  <2> QED BY <1>1, <2>1 DEF Accounts
<1> QED BY <1>4, <1>5 DEF longer

\* One of a note or a closed ledger leaves it alone.
LEMMA AppendBare ==
  ASSUME NEW calls, IsSequence(calls), NEW r, r.label \in Markers, NEW held,
         Consecutive(calls), LastHolds(calls, held)
  PROVE  Consecutive(Append(calls, r)) /\ LastHolds(Append(calls, r), held)
<1> DEFINE N == Len(calls)
           longer == Append(calls, r)
<1>1. /\ N \in Nat /\ Len(longer) = N + 1 /\ longer[N + 1] = r
      /\ \A n \in 1..N : longer[n] = calls[n]
  BY DEF IsSequence
<1> HIDE DEF N, longer
<1>2. InstrumentedOf(longer) = InstrumentedOf(calls)
  BY <1>1 DEF InstrumentedOf, N
<1>3. \A n \in InstrumentedOf(calls) : longer[n] = calls[n]
  BY <1>1 DEF InstrumentedOf, N
<1>4. Consecutive(longer) /\ LastHolds(longer, held)
  BY <1>2, <1>3 DEF Consecutive, LastHolds
<1> QED BY <1>4 DEF longer

\* Changing the last of a sequence changes nothing else of it.
LEMMA ReplaceLast ==
  ASSUME NEW s, IsSequence(s), s # <<>>, NEW x
  PROVE  LET t == [s EXCEPT ![Len(s)] = x]
         IN  IsSequence(t) /\ t # <<>> /\ Len(t) = Len(s) /\ t[Len(t)] = x
<1> DEFINE t == [s EXCEPT ![Len(s)] = x]
<1>1. PICK S : s \in Seq(S)
  BY DEF IsSequence
<1>2. Len(s) \in Nat \ {0} /\ DOMAIN s = 1..Len(s)
  BY <1>1
<1>3. t \in [1..Len(s) -> S \cup {x}]
  BY <1>1, <1>2
<1>4. t \in Seq(S \cup {x}) /\ Len(t) = Len(s) /\ t[Len(s)] = x
  BY <1>1, <1>2, <1>3
<1> HIDE DEF t
<1>5. IsSequence(t) /\ t # <<>> /\ t[Len(t)] = x
  BY <1>2, <1>4 DEF IsSequence
<1> QED BY <1>4, <1>5 DEF t

\* Journal::push_call lengthens the record of the step in flight.
LEMMA PushAppends ==
  ASSUME Accounted, pc = "execute", NEW r, Push(r)
  PROVE  /\ IsSequence(steps') /\ steps' # <<>>
         /\ IsStep(steps'[Len(steps')])
         /\ steps'[Len(steps')].calls = Append(steps[Len(steps)].calls, r)
<1> DEFINE last == steps[Len(steps)]
           next == [last EXCEPT !.calls = Append(@, r)]
<1>1. /\ IsSequence(steps) /\ steps # <<>> /\ IsStep(last)
  BY DEF Accounted, StepsAccounted
<1>2. steps' = [steps EXCEPT ![Len(steps)] = next]
  BY DEF Push
<1>3. IsSequence(Append(last.calls, r))
  <2>1. PICK S : last.calls \in Seq(S)
    BY <1>1 DEF IsStep, IsSequence
  <2>2. Append(last.calls, r) \in Seq(S \cup {r})
    BY <2>1
  <2> QED BY <2>2 DEF IsSequence
<1>4. next.calls = Append(last.calls, r) /\ IsStep(next)
  <2> HIDE DEF last
  <2> DEFINE longer == Append(last.calls, r)
  <2> HIDE DEF longer
  <2>1. next = [last EXCEPT !.calls = longer]
    BY <1>1 DEF IsStep, longer
  <2> HIDE DEF next
  <2>2. next = [index |-> last.index, action |-> last.action,
                outcome |-> last.outcome, calls |-> longer]
    BY <1>1, <2>1 DEF IsStep
  <2> QED BY <1>3, <2>2 DEF IsStep, longer
<1> HIDE DEF next
<1>5. /\ IsSequence(steps') /\ steps' # <<>> /\ steps'[Len(steps')] = next
  BY <1>1, <1>2, ReplaceLast
<1> QED BY <1>4, <1>5

\* A measured call keeps the account.
LEMMA MeasuredAccounts ==
  ASSUME Accounted, pc = "execute", target' = target, NEW m, NEW result,
         Accounts(m.record, host, m.host, target.tracked),
         Measured(m, result)
  PROVE  StepsAccounted'
<1>1. CASE HostPanics(m)
  <2>1. steps' = steps /\ pc' = "failed"
    BY <1>1 DEF Measured
  <2> QED BY <2>1 DEF Accounted, StepsAccounted
<1>2. CASE ~HostPanics(m)
  <2>1. host' = m.host /\ Push(m.record)
    BY <1>2 DEF Measured
  <2> DEFINE calls == steps[Len(steps)].calls
             held  == HeldBy(host, target.tracked)
  <2>2. IsSequence(calls) /\ Consecutive(calls) /\ LastHolds(calls, held)
    BY DEF Accounted, StepsAccounted, IsStep
  <2>3. /\ Consecutive(Append(calls, m.record))
        /\ LastHolds(Append(calls, m.record), HeldBy(m.host, target.tracked))
    BY <2>2, AppendCall
  <2>4. /\ IsSequence(steps') /\ steps' # <<>>
        /\ IsStep(steps'[Len(steps')])
        /\ steps'[Len(steps')].calls = Append(calls, m.record)
    BY <2>1, PushAppends
  <2> HIDE DEF calls, held
  <2>5. /\ Consecutive(steps'[Len(steps')].calls)
        /\ LastHolds(steps'[Len(steps')].calls, HeldBy(host', target'.tracked))
    BY <2>1, <2>3, <2>4
  <2> QED BY <2>4, <2>5 DEF StepsAccounted
<1> QED BY <1>1, <1>2

\* A step that neither writes to the journal nor changes the ledger, or that
\* leaves the action, keeps the account.
LEMMA UntouchedAccounts ==
  ASSUME StepsAccounted, steps' = steps, target' = target,
         \/ pc' # "execute"
         \/ pc = "execute" /\ SameStorage(host', host)
  PROVE  StepsAccounted'
BY DEF StepsAccounted, HeldBy, SameStorage, Entries

LEMMA StepFinite ==
  ASSUME FiniteWrites, Sane, Accounted, [Next]_vars
  PROVE  FiniteLedger(host')
<1>1. HostStep
  BY StepHost
<1>2. IsHost(host) /\ FiniteLedger(host)
  BY DEF Sane, Accounted
<1>3. /\ IsHost(SetAuths(host)) /\ FiniteLedger(SetAuths(host))
      /\ IsHost(MockAllAuths(host)) /\ FiniteLedger(MockAllAuths(host))
      /\ \A creds : FiniteLedger(MockAuths(host, creds))
  BY <1>2, InstallKeeps DEF FiniteLedger, SameStorage
<1>4. \A n : /\ Advance(host, n).ledger = host.ledger
             /\ Advance(host, n).nonces = host.nonces
  BY <1>2 DEF IsHost, Advance
<1> QED BY <1>1, <1>2, <1>3, <1>4, InvokeFinite DEF HostStep, FiniteLedger

\* Every step keeps the account.
LEMMA StepAccounted ==
  ASSUME FiniteWrites, Sane, Accounted, [Next]_vars
  PROVE  Accounted'
<1> USE DEF inputs, checker
<1>0. FiniteLedger(host') /\ StepsAccounted /\ IsHost(host) /\ FiniteLedger(host)
  BY StepFinite DEF Accounted, Sane
<1> SUFFICES StepsAccounted'
  BY <1>0 DEF Accounted, FiniteLedger
<1>1. CASE SkipCheck \/ StartCheck \/ CheckReadOnly \/ ReturnCase
  <2>1. steps' = steps /\ target' = target /\ pc' # "execute"
    BY <1>1 DEF SkipCheck, StartCheck, CheckReadOnly, ReturnCase
  <2> QED BY <1>0, <2>1, UntouchedAccounts
<1>2. CASE CheckInvariant
  <2>1. steps' = steps /\ target' = target
    BY <1>2 DEF CheckInvariant
  <2>2. pc' \in {"invariant", "failed"}
    BY <1>2 DEF CheckInvariant
  <2> QED BY <1>0, <2>1, <2>2, UntouchedAccounts
<1>3. CASE BeginStep
  <2> DEFINE begun == [index |-> Len(steps), action |-> action',
                       outcome |-> "pending", calls |-> <<>>]
  <2>1. steps' = Append(steps, begun)
    BY <1>3 DEF BeginStep
  <2>2. PICK S : steps \in Seq(S)
    BY <1>0 DEF StepsAccounted, IsSequence
  <2>3. IsStep(begun) /\ begun.calls = <<>>
    BY DEF IsStep, IsSequence
  <2> HIDE DEF begun
  <2>4. /\ steps' \in Seq(S \cup {begun})
        /\ steps' # <<>> /\ steps'[Len(steps')] = begun
    BY <2>1, <2>2
  <2>5. InstrumentedOf(<<>>) = {}
    BY DEF InstrumentedOf
  <2>6. Consecutive(<<>>) /\ \A held : LastHolds(<<>>, held)
    BY <2>5 DEF Consecutive, LastHolds
  <2> QED BY <2>3, <2>4, <2>6 DEF StepsAccounted, IsSequence
<1>4. CASE FinishStep
  <2> DEFINE last == steps[Len(steps)]
             done == [last EXCEPT !.outcome = outcome]
  <2>1. /\ pc = "execute" /\ pc' # "execute"
        /\ steps' = [steps EXCEPT ![Len(steps)] = done]
    BY <1>4 DEF FinishStep
  <2>2. /\ IsSequence(steps) /\ steps # <<>>
        /\ IsStep(last) /\ Consecutive(last.calls)
    BY <1>0, <2>1 DEF StepsAccounted
  <2>3. IsStep(done) /\ done.calls = last.calls
    <3> HIDE DEF last
    <3> QED BY <2>2 DEF IsStep
  <2> HIDE DEF done, last
  <2>4. IsSequence(steps') /\ steps' # <<>> /\ steps'[Len(steps')] = done
    BY <2>1, <2>2, ReplaceLast
  <2> QED BY <2>1, <2>2, <2>3, <2>4 DEF StepsAccounted
<1>5. ASSUME NEW op, Operation(op)
      PROVE  /\ pc = "execute" /\ target' = target
             /\ Head(todo) \in Operations /\ Head(todo).op = op
             /\ op \in Invocations => Head(todo).call.fn \notin Markers
  <2>1. Head(todo) \in Operations /\ Head(todo).op = op
    BY <1>5, HeadIsOperation DEF Operation, Sane
  <2>2. op \in Invocations => Head(todo).call.fn \notin Markers
    BY <2>1, ScriptAssumption
  <2> QED BY <1>5, <2>1, <2>2 DEF Operation
<1>6. ASSUME NEW m, NEW result, Measured(m, result),
             NEW op \in Invocations, Operation(op),
             \/ m = Call(host, Head(todo).call, config, target.tracked)
             \/ m = CallUnchecked(host, Head(todo).call, config, target.tracked)
             \/ m = CallWithoutAuth(host, Head(todo).call, config, target.tracked)
             \/ m = CallRecorded(host, Head(todo).call, config, target.tracked)
      PROVE  StepsAccounted'
  <2>1. /\ pc = "execute" /\ target' = target
        /\ Head(todo).call.fn \notin Markers
    BY <1>5, <1>6
  <2>2. Accounts(m.record, host, m.host, target.tracked)
    BY <1>0, <1>6, <2>1, CallAccounts
  <2> QED BY <1>6, <2>1, <2>2, MeasuredAccounts
<1>7. CASE DoCall
  <2> DEFINE m == Call(host, Head(todo).call, config, target.tracked)
             result == Convert(Head(todo).then, m.result)
  <2>1. Operation("call") /\ Measured(m, result)
    BY <1>7 DEF DoCall
  <2> HIDE DEF result
  <2> QED BY <1>6, <2>1 DEF Invocations
<1>8. CASE DoCallUnchecked
  <2> DEFINE m == CallUnchecked(host, Head(todo).call, config, target.tracked)
             result == Convert(Head(todo).then, m.result)
  <2>1. Operation("call_unchecked") /\ Measured(m, result)
    BY <1>8 DEF DoCallUnchecked
  <2> HIDE DEF result
  <2> QED BY <1>6, <2>1 DEF Invocations
<1>9. CASE DoCallWithoutAuth
  <2> DEFINE m == CallWithoutAuth(host, Head(todo).call, config, target.tracked)
             result == Convert(Head(todo).then, m.result)
  <2>1. Operation("call_without_auth") /\ Measured(m, result)
    BY <1>9 DEF DoCallWithoutAuth
  <2> HIDE DEF result
  <2> QED BY <1>6, <2>1 DEF Invocations
<1>10. CASE DoCallRequiringAuth
  <2> DEFINE m == CallRecorded(host, Head(todo).call, config, target.tracked)
             result == Demanded(Head(todo).who, m)
  <2>1. Operation("call_requiring_auth") /\ Measured(m, result)
    BY <1>10 DEF DoCallRequiringAuth
  <2> HIDE DEF result
  <2> QED BY <1>6, <2>1 DEF Invocations
<1>11. CASE DoAuthorize \/ DoInstallAuths
  <2>1. \E creds : host' = MockAuths(host, creds)
    BY <1>11 DEF DoAuthorize, DoInstallAuths, Authorize, InstallAuths
  <2>2. SameStorage(host', host)
    BY <1>0, <2>1, InstallKeeps
  <2>3. steps' = steps /\ target' = target /\ pc = "execute"
    BY <1>5, <1>11 DEF DoAuthorize, DoInstallAuths
  <2> QED BY <1>0, <2>2, <2>3, UntouchedAccounts
<1>12. \A n : SameStorage(Advance(host, n), host)
  BY <1>0 DEF IsHost, Advance, SameStorage
<1>13. CASE DoAdvance
  <2>1. steps' = steps /\ target' = target /\ pc = "execute"
    BY <1>5, <1>13 DEF DoAdvance
  <2>2. SameStorage(host', host)
    BY <1>12, <1>13 DEF DoAdvance
  <2> QED BY <1>0, <2>1, <2>2, UntouchedAccounts
<1>14. ASSUME NEW label \in Markers, Push(BareRecord(label)), pc = "execute",
              target' = target, SameStorage(host', host)
       PROVE  StepsAccounted'
  <2> DEFINE r == BareRecord(label)
             calls == steps[Len(steps)].calls
             held == HeldBy(host, target.tracked)
  <2>1. r.label \in Markers
    BY DEF BareRecord, CallRecord
  <2>2. IsSequence(calls) /\ Consecutive(calls) /\ LastHolds(calls, held)
    BY <1>0, <1>14 DEF StepsAccounted, IsStep
  <2> HIDE DEF r
  <2>3. Consecutive(Append(calls, r)) /\ LastHolds(Append(calls, r), held)
    BY <2>1, <2>2, AppendBare
  <2>4. /\ IsSequence(steps') /\ steps' # <<>>
        /\ IsStep(steps'[Len(steps')])
        /\ steps'[Len(steps')].calls = Append(calls, r)
    BY <1>14, PushAppends DEF r
  <2>5. HeldBy(host', target'.tracked) = held
    BY <1>14 DEF HeldBy, SameStorage, Entries
  <2> HIDE DEF calls, held
  <2> QED BY <2>3, <2>4, <2>5 DEF StepsAccounted
<1>15. CASE DoCloseLedger
  <2>1. Operation("close_ledger") /\ Push(BareRecord("<ledger>"))
    BY <1>15 DEF DoCloseLedger
  <2>2. SameStorage(host', host)
    BY <1>12, <1>15 DEF DoCloseLedger
  <2> QED BY <1>5, <1>14, <2>1, <2>2 DEF Markers
<1>16. CASE DoNote
  <2>1. /\ Operation("note") /\ Push(BareRecord("<note>"))
        /\ SameStorage(host', host)
    BY <1>16 DEF DoNote, SameStorage
  <2> QED BY <1>5, <1>14, <2>1 DEF Markers
<1>17. CASE UNCHANGED vars
  BY <1>0, <1>17 DEF vars, StepsAccounted
<1> QED BY <1>1, <1>2, <1>3, <1>4, <1>7, <1>8, <1>9, <1>10, <1>11, <1>13,
           <1>15, <1>16, <1>17 DEF Next

LEMMA AlwaysAccounted ==
  ASSUME FiniteWrites
  PROVE  Spec => []Accounted
<1>1. Init => Accounted
  <2> SUFFICES ASSUME Init PROVE Accounted
    OBVIOUS
  <2>1. FiniteLedger(host)
    BY WorldAssumption DEF Init, FiniteLedger
  <2>2. IsSequence(<<>>)
    BY DEF IsSequence
  <2>3. steps = <<>> /\ pc = "check"
    BY DEF Init
  <2> QED BY <2>1, <2>2, <2>3 DEF Accounted, StepsAccounted
<1>2. Sane /\ Accounted /\ [Next]_vars => Accounted'
  BY StepAccounted
<1> QED BY <1>1, <1>2, AlwaysSane, PTL DEF Spec

\* When a call writes finitely many entries, the records of a step's calls
\* account for the tracked storage: from one call to the next the entries held
\* change by what the later one added and removed, and while the action runs
\* the last record holds what the host holds (Runtime::measure,
\* StorageSnapshot::diff, Journal::push_call).
THEOREM RecordsAlwaysAccount ==
  ASSUME FiniteWrites
  PROVE  Spec => []RecordsAccountForStorage
<1>1. Accounted => RecordsAccountForStorage
  BY DEF Accounted, StepsAccounted, RecordsAccountForStorage, Consecutive,
         LastHolds, HeldBy
<1> QED BY <1>1, AlwaysAccounted, PTL

-----------------------------------------------------------------------------
(* Types *)

\* A contract writes to the keys that are known.
KnownWrites ==
  \A call, view, seq : DOMAIN Code(call, view, seq).sets \subseteq Keys

HostTypes ==
  /\ DOMAIN host.ledger \subseteq Keys
  /\ \A k \in host.nonces : k.kind = "temporary"
  /\ host.auth.mode \in {"record", "enforce"}

\* Each step is a record with its place in the journal.
JournalTypes ==
  /\ IsSequence(steps)
  /\ Len(steps) <= MaxActions
  /\ \A n \in 1..Len(steps) :
       /\ steps[n] = [index |-> n - 1, action |-> steps[n].action,
                      outcome |-> steps[n].outcome, calls |-> steps[n].calls]
       /\ steps[n].outcome \in StepOutcomes \cup {"pending"}
  /\ pc = "execute" => steps # <<>> /\ outcome # "<panicked>"

FailureTypes ==
  failure \in [kind : {"invariant", "read-only", "unexpected-error"},
               step : 0..(MaxActions - 1) \cup {None}] \cup {None}

ControlTypes ==
  /\ target \in Targets
  /\ action \in Actions \cup {None}
  /\ stats \in [accepted : Nat, expected : Nat, unexpected : Nat]
  /\ pc \in {"check", "invariant", "next", "execute", "passed", "failed"}
  /\ outcome \in StepOutcomes \cup {"<panicked>"}

CheckerTypes ==
  /\ inv \in 0..Len(Invariants)
  /\ DOMAIN before \subseteq Keys \cup host.nonces
  /\ DOMAIN cells = 1..Len(Invariants)

TypeInv == HostTypes /\ JournalTypes /\ FailureTypes /\ ControlTypes /\ CheckerTypes

LEMMA InvokeTypes ==
  ASSUME KnownWrites, NEW h, IsHost(h), DOMAIN h.ledger \subseteq Keys,
         h.auth.mode \in {"record", "enforce"}, NEW call
  PROVE  LET ran == Invoke(h, call).host
         IN  /\ DOMAIN ran.ledger \subseteq Keys
             /\ h.nonces \subseteq ran.nonces
             /\ \A k \in ran.nonces \ h.nonces : k.kind = "temporary"
             /\ ran.auth.mode \in {"record", "enforce"}
<1> DEFINE code == Code(call, View(h), h.seq)
           ran  == Invoke(h, call).host
           allowed == \A who \in code.demands : Grants(h.auth, who, call)
           through == allowed /\ code.ends \in {"ok", "unreadable"}
<1>1. ran = [h EXCEPT
               !.ledger = IF through THEN Applied(h, code) ELSE @,
               !.nonces = IF through THEN @ \cup Spent(h, code) ELSE @,
               !.auth   = IF @.mode = "record" THEN @ ELSE Enforcing({}),
               !.auths  = IF through THEN code.demands ELSE {},
               !.usage  = code.usage]
  BY DEF Invoke
<1>2. DOMAIN Applied(h, code) \subseteq Keys
  <2>1. DOMAIN Applied(h, code) \subseteq DOMAIN h.ledger \cup DOMAIN code.sets
    BY DEF Applied
  <2>2. DOMAIN code.sets \subseteq Keys
    BY DEF KnownWrites
  <2> QED BY <2>1, <2>2
<1>5. \A k \in Spent(h, code) : k.kind = "temporary"
  BY DEF Spent, NonceKey
<1> HIDE DEF ran, through, allowed, code
<1>3. /\ ran.ledger = h.ledger \/ ran.ledger = Applied(h, code)
      /\ ran.nonces = h.nonces \/ ran.nonces = h.nonces \cup Spent(h, code)
      /\ ran.auth = h.auth \/ ran.auth = Enforcing({})
  BY <1>1 DEF IsHost
<1>4. Enforcing({}).mode = "enforce"
  BY DEF Enforcing
<1> QED BY <1>2, <1>3, <1>4, <1>5 DEF ran

\* A step keeps the types of the host, and forgets no nonce.
LEMMA StepHostTypes ==
  ASSUME KnownWrites, Sane, HostTypes, [Next]_vars
  PROVE  HostTypes' /\ host.nonces \subseteq host'.nonces
<1>1. HostStep /\ IsHost(host)
  BY StepHost DEF Sane
<1> DEFINE Typed(h) == /\ IsHost(h) /\ DOMAIN h.ledger \subseteq Keys
                       /\ h.nonces = host.nonces
                       /\ h.auth.mode \in {"record", "enforce"}
<1>2. /\ Typed(host) /\ Typed(SetAuths(host)) /\ Typed(MockAllAuths(host))
      /\ \A creds : Typed(MockAuths(host, creds))
  <2>1. \A creds : Enforcing(creds).mode = "enforce"
    BY DEF Enforcing
  <2>2. RecordingAuth.mode = "record"
    BY DEF RecordingAuth
  <2>3. ASSUME NEW g, IsHost(g), SameStorage(g, host),
               \/ g.auth = RecordingAuth
               \/ \E creds : g.auth = Enforcing(creds)
        PROVE  Typed(g)
    BY <2>1, <2>2, <2>3 DEF HostTypes, SameStorage
  <2>4. Typed(host)
    BY <1>1 DEF HostTypes
  <2>5. Typed(SetAuths(host)) /\ Typed(MockAllAuths(host))
    BY <1>1, <2>3, InstallKeeps
  <2>6. \A creds : Typed(MockAuths(host, creds))
    BY <1>1, <2>3, InstallKeeps
  <2> QED BY <2>4, <2>5, <2>6
<1>3. \A h, call : Typed(h) =>
        LET ran == Invoke(h, call).host
        IN  /\ DOMAIN ran.ledger \subseteq Keys
            /\ host.nonces \subseteq ran.nonces
            /\ \A k \in ran.nonces \ host.nonces : k.kind = "temporary"
            /\ ran.auth.mode \in {"record", "enforce"}
  BY InvokeTypes
<1>4. \A n : /\ Advance(host, n).ledger = host.ledger
             /\ Advance(host, n).nonces = host.nonces
             /\ Advance(host, n).auth = host.auth
  BY <1>1 DEF IsHost, Advance
<1> QED BY <1>1, <1>2, <1>3, <1>4 DEF HostStep, HostTypes

LEMMA StepIndex ==
  ASSUME JournalTypes, NEW n \in 1..Len(steps)
  PROVE  steps[n].index = n - 1
<1>1. PICK a, o, c :
        steps[n] = [index |-> n - 1, action |-> a, outcome |-> o, calls |-> c]
  BY DEF JournalTypes
<1> QED BY <1>1

\* The index of the last step is in range.
LEMMA LastStepInRange ==
  ASSUME JournalTypes
  PROVE  LastStep \in 0..(MaxActions - 1) \cup {None}
<1>1. CASE steps = <<>>
  BY <1>1 DEF LastStep
<1>2. CASE steps # <<>>
  <2>1. Len(steps) \in Nat \ {0} /\ Len(steps) <= MaxActions
    BY <1>2 DEF JournalTypes, IsSequence
  <2>2. steps[Len(steps)].index = Len(steps) - 1
    BY <2>1, StepIndex
  <2> QED BY <1>2, <2>1, <2>2, TargetAssumption DEF LastStep
<1> QED BY <1>1, <1>2

LEMMA FailTypes ==
  ASSUME JournalTypes, NEW kind \in {"invariant", "read-only", "unexpected-error"},
         Fail(kind)
  PROVE  FailureTypes'
BY LastStepInRange DEF Fail, FailureTypes

\* Changing the outcome or the records of the last step keeps its place.
LEMMA TouchLastTypes ==
  ASSUME JournalTypes, pc = "execute", NEW calls, NEW o,
         o \in StepOutcomes \cup {"pending"},
         \/ steps' = [steps EXCEPT ![Len(steps)].calls = calls]
         \/ steps' = [steps EXCEPT ![Len(steps)].outcome = o],
         pc' = "execute" => outcome' # "<panicked>"
  PROVE  JournalTypes'
<1> DEFINE N == Len(steps)
           last == steps[N]
           next == steps'[N]
<1>1. /\ IsSequence(steps) /\ steps # <<>> /\ N \in Nat \ {0} /\ N <= MaxActions
  BY DEF JournalTypes, IsSequence
<1>2. PICK x : steps' = [steps EXCEPT ![N] = x]
  OBVIOUS
<1>3. /\ IsSequence(steps') /\ steps' # <<>> /\ Len(steps') = N
      /\ next = x
  BY <1>1, <1>2, ReplaceLast
<1>4. \A n \in 1..N : n # N => steps'[n] = steps[n]
  <2>1. PICK S : steps \in Seq(S)
    BY <1>1 DEF IsSequence
  <2> QED BY <1>2, <2>1
<1>5. last = [index |-> N - 1, action |-> last.action,
              outcome |-> last.outcome, calls |-> last.calls]
      /\ last.outcome \in StepOutcomes \cup {"pending"}
  BY <1>1 DEF JournalTypes
<1>6. next = [last EXCEPT !.calls = calls] \/ next = [last EXCEPT !.outcome = o]
  <2>1. PICK S : steps \in Seq(S)
    BY <1>1 DEF IsSequence
  <2> QED BY <1>1, <2>1
<1>7. /\ next = [index |-> N - 1, action |-> next.action,
                 outcome |-> next.outcome, calls |-> next.calls]
      /\ next.outcome \in StepOutcomes \cup {"pending"}
  <2> HIDE DEF last, next
  <2> QED BY <1>5, <1>6
<1>8. \A n \in 1..N :
        /\ steps'[n] = [index |-> n - 1, action |-> steps'[n].action,
                        outcome |-> steps'[n].outcome, calls |-> steps'[n].calls]
        /\ steps'[n].outcome \in StepOutcomes \cup {"pending"}
  <2> SUFFICES ASSUME NEW n \in 1..N
               PROVE  /\ steps'[n] = [index |-> n - 1, action |-> steps'[n].action,
                                      outcome |-> steps'[n].outcome,
                                      calls |-> steps'[n].calls]
                      /\ steps'[n].outcome \in StepOutcomes \cup {"pending"}
    OBVIOUS
  <2>1. CASE n = N
    BY <1>7, <2>1
  <2>2. CASE n # N
    BY <1>4, <2>2 DEF JournalTypes
  <2> QED BY <2>1, <2>2
<1> HIDE DEF N
<1> QED BY <1>1, <1>3, <1>8 DEF JournalTypes

\* Every conversion gives an outcome.
LEMMA ConversionTypes ==
  /\ \A then \in Conversions : \A result :
       Convert(then, result) \in StepOutcomes \cup {"<panicked>"}
  /\ \A who, m : Demanded(who, m) \in StepOutcomes \cup {"<panicked>"}
<1>1. \A then \in Conversions : \A result :
        Convert(then, result) \in StepOutcomes \cup {"<panicked>"}
  BY DEF Conversions, Convert, IntoStep, ExpectOk, ExpectRejected,
     ExpectContractError, UnwrapOk, StepOutcomes
<1>2. \A who, m : Demanded(who, m) \in StepOutcomes \cup {"<panicked>"}
  BY DEF Demanded, StepOutcomes
<1> QED BY <1>1, <1>2

\* What a measured call does to the journal, the outcome and the phase.
LEMMA MeasuredTypes ==
  ASSUME JournalTypes, pc = "execute", NEW m,
         NEW result \in StepOutcomes \cup {"<panicked>"},
         outcome \in StepOutcomes \cup {"<panicked>"}, Measured(m, result)
  PROVE  /\ JournalTypes'
         /\ outcome' \in StepOutcomes \cup {"<panicked>"}
         /\ pc' \in {"execute", "failed"}
<1>1. CASE HostPanics(m)
  <2>1. steps' = steps /\ outcome' = outcome /\ pc' = "failed"
    BY <1>1 DEF Measured
  <2> QED BY <2>1 DEF JournalTypes
<1>2. CASE ~HostPanics(m)
  <2>1. /\ outcome' = result
        /\ pc' = IF result = "<panicked>" THEN "failed" ELSE "execute"
        /\ Push(m.record)
    BY <1>2 DEF Measured
  <2>2. steps' = [steps EXCEPT ![Len(steps)].calls =
                    Append(steps[Len(steps)].calls, m.record)]
    BY <2>1 DEF Push
  <2>3. JournalTypes'
    BY <2>1, <2>2, TouchLastTypes DEF StepOutcomes
  <2> QED BY <2>1, <2>3
<1> QED BY <1>1, <1>2

\* Every step keeps the types.
LEMMA StepTypes ==
  ASSUME KnownWrites, Sane, TypeInv, [Next]_vars
  PROVE  TypeInv'
<1> USE DEF inputs, checker
<1>0. /\ HostTypes' /\ HostTypes /\ JournalTypes /\ FailureTypes
      /\ ControlTypes /\ CheckerTypes /\ host.nonces \subseteq host'.nonces
  BY StepHostTypes DEF TypeInv
<1> SUFFICES JournalTypes' /\ FailureTypes' /\ ControlTypes' /\ CheckerTypes'
  BY <1>0 DEF TypeInv
<1>1. Len(Invariants) \in Nat
  BY <1>0, TargetAssumption DEF ControlTypes, Invariants
<1>2. DOMAIN CaptureScoped(Entries(host), target.tracked)
        \subseteq Keys \cup host.nonces
  BY <1>0 DEF HostTypes, CaptureScoped, CaptureFiltered, Entries
<1>3. ASSUME steps' = steps, pc' # "execute" \/ (pc' = pc /\ outcome' = outcome)
      PROVE  JournalTypes'
  BY <1>0, <1>3 DEF JournalTypes
<1>4. ASSUME failure' = failure
      PROVE  FailureTypes'
  BY <1>0, <1>4 DEF FailureTypes
<1>5. ASSUME UNCHANGED <<target, action, stats, outcome>>,
             pc' \in {"check", "invariant", "next", "execute", "passed", "failed"}
      PROVE  ControlTypes'
  BY <1>0, <1>5 DEF ControlTypes
<1>6. ASSUME UNCHANGED <<target, inv, before, cells>>
      PROVE  CheckerTypes'
  BY <1>0, <1>6 DEF CheckerTypes, Invariants
<1>7. CASE SkipCheck \/ ReturnCase
  <2>1. /\ UNCHANGED <<target, action, stats, outcome, steps, failure, inv,
                       before, cells>>
        /\ pc' \in {"next", "passed"}
    BY <1>7 DEF SkipCheck, ReturnCase
  <2> QED BY <2>1, <1>3, <1>4, <1>5, <1>6
<1>8. CASE StartCheck
  <2>1. /\ UNCHANGED <<target, action, stats, outcome, steps, failure, cells>>
        /\ pc' = "invariant" /\ inv' = 0
        /\ before' = CaptureScoped(Entries(host), target.tracked)
    BY <1>8 DEF StartCheck
  <2>2. CheckerTypes'
    BY <1>0, <1>1, <1>2, <2>1 DEF CheckerTypes, Invariants
  <2> QED BY <2>1, <2>2, <1>3, <1>4, <1>5
<1>9. CASE CheckInvariant
  <2>1. /\ UNCHANGED <<target, action, stats, outcome, steps, before>>
        /\ inv' = inv + 1 /\ inv < Len(Invariants)
        /\ pc = "invariant"
    BY <1>9 DEF CheckInvariant
  <2>2. pc' \in {"invariant", "failed"}
    BY <1>9, <2>1 DEF CheckInvariant
  <2>3. failure' = failure \/ Fail("invariant")
    BY <1>9 DEF CheckInvariant
  <2>4. \E x : cells' = cells \/ cells' = [cells EXCEPT ![inv + 1] = x]
    BY <1>9 DEF CheckInvariant
  <2>5. CheckerTypes'
    BY <1>0, <1>1, <2>1, <2>4 DEF CheckerTypes, Invariants
  <2>6. FailureTypes'
    BY <1>0, <1>4, <2>3, FailTypes
  <2> QED BY <2>1, <2>2, <2>5, <2>6, <1>3, <1>5
<1>10. CASE CheckReadOnly
  <2>1. /\ UNCHANGED <<target, action, stats, outcome, steps, inv, before, cells>>
        /\ pc' \in {"next", "failed"}
        /\ failure' = failure \/ Fail("read-only")
    BY <1>10 DEF CheckReadOnly
  <2>2. FailureTypes'
    BY <1>0, <1>4, <2>1, FailTypes
  <2> QED BY <2>1, <2>2, <1>3, <1>5, <1>6
<1>11. CASE BeginStep
  <2> DEFINE begun == [index |-> Len(steps), action |-> action',
                       outcome |-> "pending", calls |-> <<>>]
  <2>1. /\ UNCHANGED <<target, stats, failure, inv, before, cells>>
        /\ pc' = "execute" /\ outcome' = "ok" /\ action' \in Actions
        /\ Len(steps) < MaxActions
        /\ steps' = Append(steps, begun)
    BY <1>11 DEF BeginStep
  <2>2. PICK S : steps \in Seq(S)
    BY <1>0 DEF JournalTypes, IsSequence
  <2>3. /\ begun.index = Len(steps) /\ begun.outcome = "pending"
        /\ begun = [index |-> begun.index, action |-> begun.action,
                    outcome |-> begun.outcome, calls |-> begun.calls]
    OBVIOUS
  <2> HIDE DEF begun
  <2>4. /\ steps' \in Seq(S \cup {begun}) /\ steps' # <<>>
        /\ Len(steps') = Len(steps) + 1 /\ steps'[Len(steps) + 1] = begun
        /\ \A n \in 1..Len(steps) : steps'[n] = steps[n]
        /\ Len(steps) \in Nat
    BY <2>1, <2>2
  <2>5. \A n \in 1..Len(steps') :
          /\ steps'[n] = [index |-> n - 1, action |-> steps'[n].action,
                          outcome |-> steps'[n].outcome,
                          calls |-> steps'[n].calls]
          /\ steps'[n].outcome \in StepOutcomes \cup {"pending"}
    <3> SUFFICES ASSUME NEW n \in 1..Len(steps')
                 PROVE  /\ steps'[n] = [index |-> n - 1,
                                        action |-> steps'[n].action,
                                        outcome |-> steps'[n].outcome,
                                        calls |-> steps'[n].calls]
                        /\ steps'[n].outcome \in StepOutcomes \cup {"pending"}
      OBVIOUS
    <3>1. CASE n = Len(steps) + 1
      <4>1. steps'[n] = begun /\ n - 1 = Len(steps)
        BY <2>4, <3>1
      <4> QED BY <2>3, <4>1
    <3>2. CASE n # Len(steps) + 1
      <4>1. n \in 1..Len(steps) /\ steps'[n] = steps[n]
        BY <2>4, <3>2
      <4> QED BY <1>0, <4>1 DEF JournalTypes
    <3> QED BY <3>1, <3>2
  <2>6. Len(steps') <= MaxActions
    BY <2>1, <2>4, TargetAssumption
  <2>7. JournalTypes'
    BY <2>1, <2>4, <2>5, <2>6 DEF JournalTypes, IsSequence
  <2>8. ControlTypes'
    BY <1>0, <2>1 DEF ControlTypes, StepOutcomes
  <2> QED BY <2>1, <2>7, <2>8, <1>4, <1>6
<1>12. CASE FinishStep
  <2>1. /\ UNCHANGED <<target, action, outcome, inv, before, cells>>
        /\ pc = "execute" /\ pc' \in {"check", "failed"}
        /\ failure' = failure \/ Fail("unexpected-error")
        /\ steps' = [steps EXCEPT ![Len(steps)].outcome = outcome]
    BY <1>12 DEF FinishStep
  <2>2. outcome \in StepOutcomes
    BY <1>0, <2>1 DEF JournalTypes, ControlTypes
  <2>3. stats' \in [accepted : Nat, expected : Nat, unexpected : Nat]
    <3>1. stats' = CASE outcome = "ok" -> [stats EXCEPT !.accepted = @ + 1]
                     [] outcome = "rejected" /\ Expects(action) ->
                          [stats EXCEPT !.expected = @ + 1]
                     [] outcome = "rejected" /\ ~Expects(action) ->
                          [stats EXCEPT !.unexpected = @ + 1]
                     [] outcome = "violation" -> stats
      BY <1>12 DEF FinishStep
    <3>2. outcome \in {"ok", "rejected", "violation"}
      BY <2>2 DEF StepOutcomes
    <3>3. \/ stats' = [stats EXCEPT !.accepted = @ + 1]
          \/ stats' = [stats EXCEPT !.expected = @ + 1]
          \/ stats' = [stats EXCEPT !.unexpected = @ + 1]
          \/ stats' = stats
      BY <3>1, <3>2
    <3>4. stats \in [accepted : Nat, expected : Nat, unexpected : Nat]
      BY <1>0 DEF ControlTypes
    <3> QED BY <3>3, <3>4
  <2>4. FailureTypes'
    BY <1>0, <1>4, <2>1, FailTypes
  <2>5. JournalTypes'
    BY <1>0, <2>1, <2>2, TouchLastTypes
  <2>6. ControlTypes'
    BY <1>0, <2>1, <2>3 DEF ControlTypes
  <2> QED BY <2>1, <2>4, <2>5, <2>6, <1>6
<1>13. ASSUME NEW op, Operation(op)
       PROVE  /\ pc = "execute" /\ Head(todo) \in Operations /\ Head(todo).op = op
              /\ UNCHANGED <<target, action, stats, failure, inv, before, cells>>
              /\ FailureTypes' /\ CheckerTypes'
  <2>1. /\ pc = "execute"
        /\ UNCHANGED <<target, action, stats, failure, inv, before, cells>>
    BY <1>13 DEF Operation
  <2>2. Head(todo) \in Operations /\ Head(todo).op = op
    BY <1>13, HeadIsOperation DEF Operation, Sane
  <2> QED BY <2>1, <2>2, <1>4, <1>6
<1>14. ASSUME NEW m, NEW result \in StepOutcomes \cup {"<panicked>"},
              NEW op, Operation(op), Measured(m, result)
       PROVE  JournalTypes' /\ FailureTypes' /\ ControlTypes' /\ CheckerTypes'
  <2>1. /\ JournalTypes'
        /\ outcome' \in StepOutcomes \cup {"<panicked>"}
        /\ pc' \in {"execute", "failed"}
    BY <1>0, <1>13, <1>14, MeasuredTypes DEF ControlTypes
  <2>2. ControlTypes'
    BY <1>0, <1>13, <1>14, <2>1 DEF ControlTypes
  <2> QED BY <1>13, <1>14, <2>1, <2>2
<1>15. ASSUME NEW op \in {"call", "call_unchecked", "call_without_auth"},
              Operation(op), NEW result
       PROVE  Convert(Head(todo).then, result)
                \in StepOutcomes \cup {"<panicked>"}
  <2>1. Head(todo).then \in Conversions
    BY <1>13, <1>15, ScriptAssumption
  <2> QED BY <2>1, ConversionTypes
<1>16. CASE DoCall
  <2> DEFINE m == Call(host, Head(todo).call, config, target.tracked)
             result == Convert(Head(todo).then, m.result)
  <2>1. Operation("call") /\ Measured(m, result)
    BY <1>16 DEF DoCall
  <2>2. result \in StepOutcomes \cup {"<panicked>"}
    BY <1>15, <2>1
  <2> HIDE DEF m, result
  <2> QED BY <1>14, <2>1, <2>2
<1>17. CASE DoCallUnchecked
  <2> DEFINE m == CallUnchecked(host, Head(todo).call, config, target.tracked)
             result == Convert(Head(todo).then, m.result)
  <2>1. Operation("call_unchecked") /\ Measured(m, result)
    BY <1>17 DEF DoCallUnchecked
  <2>2. result \in StepOutcomes \cup {"<panicked>"}
    BY <1>15, <2>1
  <2> HIDE DEF m, result
  <2> QED BY <1>14, <2>1, <2>2
<1>18. CASE DoCallWithoutAuth
  <2> DEFINE m == CallWithoutAuth(host, Head(todo).call, config, target.tracked)
             result == Convert(Head(todo).then, m.result)
  <2>1. Operation("call_without_auth") /\ Measured(m, result)
    BY <1>18 DEF DoCallWithoutAuth
  <2>2. result \in StepOutcomes \cup {"<panicked>"}
    BY <1>15, <2>1
  <2> HIDE DEF m, result
  <2> QED BY <1>14, <2>1, <2>2
<1>19. CASE DoCallRequiringAuth
  <2> DEFINE m == CallRecorded(host, Head(todo).call, config, target.tracked)
             result == Demanded(Head(todo).who, m)
  <2>1. Operation("call_requiring_auth") /\ Measured(m, result)
    BY <1>19 DEF DoCallRequiringAuth
  <2>2. result \in StepOutcomes \cup {"<panicked>"}
    BY ConversionTypes
  <2> HIDE DEF m, result
  <2> QED BY <1>14, <2>1, <2>2
<1>20. CASE DoAuthorize \/ DoInstallAuths \/ DoAdvance
  <2>1. PICK op : Operation(op)
    BY <1>20 DEF DoAuthorize, DoInstallAuths, DoAdvance
  <2>2. UNCHANGED <<steps, outcome, pc>>
    BY <1>20 DEF DoAuthorize, DoInstallAuths, DoAdvance
  <2> QED BY <1>0, <1>3, <1>5, <1>13, <2>1, <2>2 DEF ControlTypes
<1>21. CASE DoCloseLedger \/ DoNote
  <2>1. PICK op : Operation(op)
    BY <1>21 DEF DoCloseLedger, DoNote
  <2>2. /\ UNCHANGED <<outcome, pc>>
        /\ \E calls : steps' = [steps EXCEPT ![Len(steps)].calls = calls]
    BY <1>21 DEF DoCloseLedger, DoNote, Push
  <2>3. JournalTypes'
    <3>1. pc = "execute" /\ outcome' # "<panicked>"
      BY <1>0, <1>13, <2>1, <2>2 DEF JournalTypes
    <3> QED BY <1>0, <2>2, <3>1, TouchLastTypes DEF StepOutcomes
  <2> QED BY <1>0, <1>5, <1>13, <2>1, <2>2, <2>3 DEF ControlTypes
<1>22. CASE UNCHANGED vars
  BY <1>0, <1>3, <1>4, <1>5, <1>6, <1>22 DEF vars, ControlTypes
<1> QED BY <1>7, <1>8, <1>9, <1>10, <1>11, <1>12, <1>16, <1>17, <1>18, <1>19,
           <1>20, <1>21, <1>22 DEF Next

\* The types of a case, for a contract that writes to known keys: the steps
\* are numbered without a gap, and a failure names the step begun last.
THEOREM TypeCorrect ==
  ASSUME KnownWrites
  PROVE  Spec => []TypeOK
<1>1. Init => TypeInv
  <2> SUFFICES ASSUME Init PROVE TypeInv
    OBVIOUS
  <2>1. HostTypes
    <3>1. PICK world \in Worlds :
            /\ host.ledger = world.ledger /\ host.nonces = world.nonces
            /\ host.auth = world.auth
      BY DEF Init
    <3>2. \A k \in world.nonces : k.kind = "temporary"
      BY WorldAssumption DEF NonceKey
    <3>3. world.auth.mode \in {"record", "enforce"}
      BY WorldAssumption DEF RecordingAuth, Enforcing
    <3> QED BY <3>1, <3>2, <3>3, WorldAssumption DEF HostTypes
  <2>2. JournalTypes
    BY TargetAssumption DEF Init, JournalTypes, IsSequence
  <2>3. FailureTypes /\ ControlTypes
    BY DEF Init, FailureTypes, ControlTypes, StepOutcomes
  <2>4. CheckerTypes
    <3>1. /\ target \in Targets /\ inv = 0 /\ before = Capture(<<>>)
          /\ cells = [i \in 1..Len(target.invariants) |-> None]
      BY DEF Init
    <3>2. Len(Invariants) \in Nat
      BY <3>1, TargetAssumption DEF Invariants
    <3>3. DOMAIN before = {}
      BY <3>1 DEF Capture, CaptureFiltered
    <3> QED BY <3>1, <3>2, <3>3 DEF CheckerTypes, Invariants
  <2> QED BY <2>1, <2>2, <2>3, <2>4 DEF TypeInv
<1>2. Sane /\ TypeInv /\ [Next]_vars => TypeInv'
  BY StepTypes
<1>3. Sane /\ TypeInv => TypeOK
  BY StepIndex DEF Sane, ClockOK, TypeInv, HostTypes, JournalTypes, FailureTypes,
     ControlTypes, CheckerTypes, TypeOK
<1> QED BY <1>1, <1>2, <1>3, AlwaysSane, PTL DEF Spec

-----------------------------------------------------------------------------
(* The read-only guard *)

\* The snapshots of a target that tracks these contracts see the key.
Tracks(contracts, k) == contracts = {} \/ k.owner \in contracts

\* From one snapshot to the other nothing but temporary entries has gone.
OnlyReclaimed(b, a) ==
  /\ DOMAIN a \subseteq DOMAIN b
  /\ \A k \in DOMAIN a : a[k] = b[k]
  /\ \A k \in DOMAIN b \ DOMAIN a : k.kind = "temporary"

\* A call that finds this view changes no value the target tracks, removes no
\* tracked entry but a temporary one, and asks no tracked address for an
\* authorization, whose use would leave a nonce.
Harmless(code, view, contracts) ==
  /\ \A k \in DOMAIN code.sets : Tracks(contracts, k) =>
       k \in DOMAIN view /\ code.sets[k].val = view[k]
  /\ \A k \in code.dels : Tracks(contracts, k) => k.kind = "temporary"
  /\ \A who \in code.demands : contracts # {} /\ who \notin contracts

HarmlessInvariant(i, contracts) ==
  i.kind = "growth" \/
    \A view, seq : Harmless(Code(i.call, view, seq), view, contracts)

\* What a snapshot of the tracked contracts holds.
LEMMA CapturedEntries ==
  ASSUME NEW ledger, NEW contracts
  PROVE  LET snap == CaptureScoped(ledger, contracts)
         IN  /\ DOMAIN snap = {k \in DOMAIN ledger : Tracks(contracts, k)}
             /\ \A k \in DOMAIN snap : snap[k] = ledger[k].val
             /\ snap = [k \in DOMAIN snap |-> snap[k]]
BY DEF CaptureScoped, CaptureFiltered, FilterFor, Owners, Tracks

LEMMA EntriesStored ==
  ASSUME NEW h
  PROVE  /\ DOMAIN Entries(h) = DOMAIN h.ledger \cup h.nonces
         /\ \A k \in DOMAIN Entries(h) :
              Entries(h)[k].val = IF k \in h.nonces THEN 0 ELSE h.ledger[k].val
BY DEF Entries

LEMMA ReclaimedIsReadOnly ==
  ASSUME NEW b, NEW a, OnlyReclaimed(b, a)
  PROVE  ReadOnly(Diff(b, a))
<1>1. /\ AddedKeys(b, a) = {} /\ UpdatedKeys(b, a) = {}
      /\ \A k \in RemovedKeys(b, a) : k.kind = "temporary"
  BY DEF OnlyReclaimed, AddedKeys, UpdatedKeys, RemovedKeys
<1>2. \A kind : /\ OfKind(AddedKeys(b, a), kind) = {}
                /\ OfKind(UpdatedKeys(b, a), kind) = {}
                /\ kind # "temporary" => OfKind(RemovedKeys(b, a), kind) = {}
  BY <1>1 DEF OfKind
<1>3. Cardinality({}) = 0
  BY FS_EmptySet
<1>4. \A kind \in StoreKinds :
        /\ Diff(b, a)[kind].added = 0 /\ Diff(b, a)[kind].updated = 0
        /\ kind # "temporary" => Diff(b, a)[kind].removed = 0
  BY <1>2, <1>3 DEF Diff, DiffKind
<1> QED BY <1>4 DEF ReadOnly, NoWrites, Writes, StoreKinds

\* The guard lets exactly those checks pass that left the tracked storage as
\* they found it but for temporary entries that are gone: whatever else
\* happens to an entry, of any durability, is seen (check_invariants over
\* StorageSnapshot::diff).
THEOREM ReadOnlyIsReclaimed ==
  ASSUME NEW b, IsSnapshot(b), NEW a, IsSnapshot(a)
  PROVE  ReadOnly(Diff(b, a)) <=> OnlyReclaimed(b, a)
<1>1. /\ IsFiniteSet(AddedKeys(b, a))
      /\ IsFiniteSet(RemovedKeys(b, a))
      /\ IsFiniteSet(UpdatedKeys(b, a))
  <2>1. /\ AddedKeys(b, a) \subseteq DOMAIN a
        /\ RemovedKeys(b, a) \subseteq DOMAIN b
        /\ UpdatedKeys(b, a) \subseteq DOMAIN b
    BY DEF AddedKeys, RemovedKeys, UpdatedKeys
  <2> QED BY <2>1, FS_Subset DEF IsSnapshot
<1>2. ASSUME NEW kind \in StoreKinds
      PROVE  LET d == Diff(b, a)[kind]
             IN  /\ d.added \in Nat /\ d.removed \in Nat /\ d.updated \in Nat
                 /\ d.added = 0 => OfKind(AddedKeys(b, a), kind) = {}
                 /\ d.removed = 0 => OfKind(RemovedKeys(b, a), kind) = {}
                 /\ d.updated = 0 => OfKind(UpdatedKeys(b, a), kind) = {}
  <2> DEFINE X == OfKind(AddedKeys(b, a), kind)
             Y == OfKind(RemovedKeys(b, a), kind)
             Z == OfKind(UpdatedKeys(b, a), kind)
  <2>1. IsFiniteSet(X) /\ IsFiniteSet(Y) /\ IsFiniteSet(Z)
    BY <1>1, OfKindFinite
  <2>2. Diff(b, a)[kind] = [added   |-> Cardinality(X),
                            removed |-> Cardinality(Y),
                            updated |-> Cardinality(Z)]
    BY DEF Diff, DiffKind
  <2> HIDE DEF X, Y, Z
  <2>3. /\ Cardinality(X) \in Nat /\ Cardinality(Y) \in Nat
        /\ Cardinality(Z) \in Nat
    BY <2>1, FS_CardinalityType
  <2>4. /\ Cardinality(X) = 0 <=> X = {}
        /\ Cardinality(Y) = 0 <=> Y = {}
        /\ Cardinality(Z) = 0 <=> Z = {}
    BY <2>1, FS_EmptySet
  <2>5. LET d == Diff(b, a)[kind]
        IN  /\ d.added \in Nat /\ d.removed \in Nat /\ d.updated \in Nat
            /\ d.added = 0 => X = {}
            /\ d.removed = 0 => Y = {}
            /\ d.updated = 0 => Z = {}
    BY <2>2, <2>3, <2>4
  <2> QED BY <2>5 DEF X, Y, Z
<1>3. ASSUME ReadOnly(Diff(b, a))
      PROVE  OnlyReclaimed(b, a)
  <2>1. \A x, y, z \in Nat : x + y + z = 0 => x = 0 /\ y = 0 /\ z = 0
    OBVIOUS
  <2>2. ASSUME NEW kind \in StoreKinds
        PROVE  /\ OfKind(AddedKeys(b, a), kind) = {}
               /\ OfKind(UpdatedKeys(b, a), kind) = {}
               /\ kind # "temporary" => OfKind(RemovedKeys(b, a), kind) = {}
    <3>1. /\ Diff(b, a)[kind].added = 0
          /\ Diff(b, a)[kind].updated = 0
          /\ kind # "temporary" => Diff(b, a)[kind].removed = 0
      <4> DEFINE d == Diff(b, a)[kind]
      <4>1. \/ NoWrites(d)
            \/ kind = "temporary" /\ d.added = 0 /\ d.updated = 0
        BY <1>3 DEF ReadOnly, StoreKinds
      <4>2. d.added \in Nat /\ d.removed \in Nat /\ d.updated \in Nat
        BY <1>2
      <4> HIDE DEF d
      <4>3. NoWrites(d) => d.added = 0 /\ d.removed = 0 /\ d.updated = 0
        BY <2>1, <4>2 DEF NoWrites, Writes
      <4>4. /\ d.added = 0 /\ d.updated = 0
            /\ kind # "temporary" => d.removed = 0
        BY <4>1, <4>3
      <4> QED BY <4>4 DEF d
    <3> QED BY <1>2, <3>1, Zenon
  <2>3. /\ \A k \in AddedKeys(b, a) : k.kind \in StoreKinds
        /\ \A k \in UpdatedKeys(b, a) : k.kind \in StoreKinds
        /\ \A k \in RemovedKeys(b, a) : k.kind \in StoreKinds
    BY DEF AddedKeys, RemovedKeys, UpdatedKeys, IsSnapshot
  <2>4. /\ AddedKeys(b, a) = {} /\ UpdatedKeys(b, a) = {}
        /\ \A k \in RemovedKeys(b, a) : k.kind = "temporary"
    BY <2>2, <2>3 DEF OfKind
  <2> QED BY <2>4 DEF OnlyReclaimed, AddedKeys, UpdatedKeys, RemovedKeys
<1> QED BY <1>3, ReclaimedIsReadOnly

LEMMA ReclaimedTransitive ==
  ASSUME NEW a, NEW b, NEW c, OnlyReclaimed(a, b), OnlyReclaimed(b, c)
  PROVE  OnlyReclaimed(a, c)
BY DEF OnlyReclaimed

\* What an invocation leaves of the storage.
LEMMA InvokeLedger ==
  ASSUME NEW h, IsHost(h), NEW call
  PROVE  LET ran  == Invoke(h, call).host
             code == Code(call, View(h), h.seq)
         IN  /\ \/ SameStorage(ran, h)
                \/ /\ ran.ledger = Applied(h, code)
                   /\ ran.nonces = h.nonces \cup Spent(h, code)
             /\ ran.seq = h.seq
<1> DEFINE code == Code(call, View(h), h.seq)
           allowed == \A who \in code.demands : Grants(h.auth, who, call)
           through == allowed /\ code.ends \in {"ok", "unreadable"}
           ran == Invoke(h, call).host
<1>1. ran = [h EXCEPT
               !.ledger = IF through THEN Applied(h, code) ELSE @,
               !.nonces = IF through THEN @ \cup Spent(h, code) ELSE @,
               !.auth   = IF @.mode = "record" THEN @ ELSE Enforcing({}),
               !.auths  = IF through THEN code.demands ELSE {},
               !.usage  = code.usage]
  BY DEF Invoke
<1> HIDE DEF ran, through, allowed, code
<1>2. /\ \/ SameStorage(ran, h)
         \/ /\ ran.ledger = Applied(h, code)
            /\ ran.nonces = h.nonces \cup Spent(h, code)
      /\ ran.seq = h.seq
  BY <1>1 DEF IsHost, SameStorage
<1> QED BY <1>2 DEF ran, code

\* A harmless call takes nothing from the tracked storage but temporary
\* entries.
LEMMA HarmlessReclaims ==
  ASSUME NEW h, NEW code, NEW tracked, Harmless(code, View(h), tracked),
         NEW g, g.ledger = Applied(h, code),
         g.nonces = h.nonces \cup Spent(h, code)
  PROVE  OnlyReclaimed(CaptureScoped(Entries(h), tracked),
                       CaptureScoped(Entries(g), tracked))
<1> DEFINE b == CaptureScoped(Entries(h), tracked)
           a == CaptureScoped(Entries(g), tracked)
<1>1. /\ DOMAIN b = {k \in DOMAIN h.ledger \cup h.nonces : Tracks(tracked, k)}
      /\ \A k \in DOMAIN b :
           b[k] = IF k \in h.nonces THEN 0 ELSE h.ledger[k].val
  <2>1. /\ DOMAIN b = {k \in DOMAIN Entries(h) : Tracks(tracked, k)}
        /\ \A k \in DOMAIN b : b[k] = Entries(h)[k].val
    BY CapturedEntries
  <2> QED BY <2>1, EntriesStored
<1>2. /\ DOMAIN a = {k \in DOMAIN g.ledger \cup g.nonces : Tracks(tracked, k)}
      /\ \A k \in DOMAIN a :
           a[k] = IF k \in g.nonces THEN 0 ELSE g.ledger[k].val
  <2>1. /\ DOMAIN a = {k \in DOMAIN Entries(g) : Tracks(tracked, k)}
        /\ \A k \in DOMAIN a : a[k] = Entries(g)[k].val
    BY CapturedEntries
  <2> QED BY <2>1, EntriesStored
<1>3. ASSUME NEW k \in DOMAIN code.sets, Tracks(tracked, k)
      PROVE  /\ k \in DOMAIN h.ledger
             /\ code.sets[k].val = h.ledger[k].val
  BY <1>3 DEF Harmless, View
<1>4. ASSUME NEW k \in DOMAIN g.ledger, Tracks(tracked, k)
      PROVE  k \in DOMAIN h.ledger /\ g.ledger[k].val = h.ledger[k].val
  <2>1. CASE k \in DOMAIN code.sets
    <3>1. g.ledger[k] = code.sets[k]
      BY <1>4, <2>1 DEF Applied
    <3> QED BY <1>3, <1>4, <2>1, <3>1
  <2>2. CASE k \notin DOMAIN code.sets
    <3>1. k \in DOMAIN h.ledger /\ g.ledger[k] = h.ledger[k]
      BY <1>4, <2>2 DEF Applied
    <3> QED BY <3>1
  <2> QED BY <2>1, <2>2
<1>5. ASSUME NEW k \in DOMAIN h.ledger, k \notin DOMAIN g.ledger,
             Tracks(tracked, k)
      PROVE  k.kind = "temporary"
  <2>1. \/ Expired(k, h.ledger[k], h.seq)
        \/ k \in code.dels
    BY <1>5 DEF Applied
  <2> QED BY <1>5, <2>1 DEF Expired, Harmless
<1>6. ASSUME NEW k \in g.nonces, Tracks(tracked, k)
      PROVE  k \in h.nonces
  <2>1. \A x \in Spent(h, code) : ~Tracks(tracked, x)
    BY DEF Spent, NonceKey, Harmless, Tracks
  <2> QED BY <1>6, <2>1
<1>7. h.nonces \subseteq g.nonces
  OBVIOUS
<1> HIDE DEF a, b
<1>8. DOMAIN a \subseteq DOMAIN b
  BY <1>1, <1>2, <1>4, <1>6
<1>9. \A k \in DOMAIN a : a[k] = b[k]
  BY <1>1, <1>2, <1>4, <1>6, <1>7, <1>8
<1>10. \A k \in DOMAIN b \ DOMAIN a : k.kind = "temporary"
  BY <1>1, <1>2, <1>5, <1>7
<1>11. OnlyReclaimed(b, a)
  BY <1>8, <1>9, <1>10 DEF OnlyReclaimed
<1> QED BY <1>11 DEF a, b

\* Every invariant of the case only reads.
AllHarmless ==
  \A n \in 1..Len(Invariants) : HarmlessInvariant(Invariants[n], target.tracked)

BlamedOnReaders == failure # None /\ failure.kind = "read-only"

\* While the invariants of such a case are gone through, the tracked storage
\* is what it was before them but for temporary entries.
Guarded ==
  /\ target \in Targets /\ inv \in Nat
  /\ AllHarmless =>
       /\ ~BlamedOnReaders
       /\ pc = "invariant" =>
            OnlyReclaimed(before, CaptureScoped(Entries(host), target.tracked))

\* Every step keeps the guard quiet about readers.
LEMMA StepGuarded ==
  ASSUME Sane, Guarded, [Next]_vars
  PROVE  Guarded'
<1> USE DEF inputs, checker
<1> DEFINE seen == CaptureScoped(Entries(host), target.tracked)
<1>1. ASSUME UNCHANGED inputs, UNCHANGED inv, UNCHANGED failure, pc' # "invariant"
      PROVE  Guarded'
  BY <1>1 DEF Guarded, AllHarmless, BlamedOnReaders, Invariants
<1>2. CASE SkipCheck \/ BeginStep \/ ReturnCase
  BY <1>1, <1>2 DEF SkipCheck, BeginStep, ReturnCase
<1>3. CASE StartCheck
  <2>1. OnlyReclaimed(seen, seen)
    BY DEF OnlyReclaimed
  <2> HIDE DEF seen
  <2>2. /\ target' = target /\ inv' = 0 /\ failure' = failure /\ host' = host
        /\ before' = seen
    BY <1>3 DEF StartCheck, seen
  <2> QED BY <2>1, <2>2 DEF Guarded, AllHarmless, BlamedOnReaders, Invariants, seen
<1>4. CASE CheckInvariant
  <2> DEFINE i == Invariants[inv + 1]
             looked == Looked(i, host)
  <2>1. /\ target' = target /\ inv' = inv + 1 /\ inv \in Nat /\ before' = before
        /\ inv + 1 \in 1..Len(Invariants) /\ pc = "invariant"
    BY <1>4 DEF CheckInvariant, Guarded
  <2>2. host' = host \/ host' = looked.host
    BY <1>4 DEF CheckInvariant
  <2>3. failure' = failure \/ (failure' # None => failure'.kind = "invariant")
    BY <1>4 DEF CheckInvariant, Fail
  <2>4. AllHarmless' <=> AllHarmless
    BY <2>1 DEF AllHarmless, Invariants
  <2>5. ASSUME AllHarmless
        PROVE  OnlyReclaimed(before, CaptureScoped(Entries(host'), target.tracked))
    <3>1. OnlyReclaimed(before, seen)
      BY <2>1, <2>5 DEF Guarded
    <3>2. \/ SameStorage(host', host)
          \/ /\ i.kind # "growth"
             /\ host'.ledger = Applied(host, Code(i.call, View(host), host.seq))
             /\ host'.nonces = host.nonces \cup
                  Spent(host, Code(i.call, View(host), host.seq))
      <4>1. SameStorage(host, host)
        BY DEF SameStorage
      <4> QED BY <2>2, <4>1, InvokeLedger DEF Sane, Looked
    <3>3. ASSUME i.kind # "growth"
          PROVE  Harmless(Code(i.call, View(host), host.seq), View(host), target.tracked)
      BY <2>1, <2>5, <3>3 DEF AllHarmless, HarmlessInvariant
    <3> HIDE DEF i, looked
    <3>5. CASE SameStorage(host', host)
      <4>1. Entries(host') = Entries(host)
        BY <3>5 DEF SameStorage, Entries
      <4> QED BY <3>1, <4>1
    <3>6. CASE ~SameStorage(host', host)
      <4>1. OnlyReclaimed(seen, CaptureScoped(Entries(host'), target.tracked))
        BY <3>2, <3>3, <3>6, HarmlessReclaims
      <4> HIDE DEF seen
      <4> QED BY <3>1, <4>1, ReclaimedTransitive
    <3> QED BY <3>5, <3>6
  <2> HIDE DEF i, looked
  <2>6. AllHarmless => ~BlamedOnReaders'
    BY <2>3 DEF Guarded, BlamedOnReaders
  <2>7. inv' \in Nat
    BY <2>1
  <2> QED BY <2>1, <2>4, <2>5, <2>6, <2>7 DEF Guarded
<1>5. CASE CheckReadOnly
  <2>1. UNCHANGED inputs /\ inv' = inv /\ pc = "invariant"
    BY <1>5 DEF CheckReadOnly
  <2>2. CASE ReadOnly(Diff(before, seen))
    BY <1>1, <1>5, <2>1, <2>2 DEF CheckReadOnly
  <2>3. CASE ~ReadOnly(Diff(before, seen))
    <3>1. ~OnlyReclaimed(before, seen)
      BY <2>3, ReclaimedIsReadOnly
    <3>2. ~AllHarmless
      BY <2>1, <3>1 DEF Guarded
    <3>3. ~AllHarmless'
      BY <2>1, <3>2 DEF AllHarmless, Invariants
    <3> QED BY <2>1, <3>3 DEF Guarded
  <2> QED BY <2>2, <2>3
<1>6. ASSUME NEW op, Operation(op)
      PROVE  UNCHANGED inputs /\ UNCHANGED inv /\ UNCHANGED failure /\ pc = "execute"
  BY <1>6 DEF Operation
<1>7. \A m, r : Measured(m, r) => pc' \in {"failed", "execute"}
  BY DEF Measured
<1>8. CASE DoCall \/ DoCallUnchecked \/ DoCallWithoutAuth \/ DoCallRequiringAuth
  BY <1>1, <1>6, <1>7, <1>8
     DEF DoCall, DoCallUnchecked, DoCallWithoutAuth, DoCallRequiringAuth
<1>9. CASE DoAuthorize \/ DoInstallAuths \/ DoAdvance \/ DoCloseLedger \/ DoNote
  BY <1>1, <1>6, <1>9
     DEF DoAuthorize, DoInstallAuths, DoAdvance, DoCloseLedger, DoNote
<1>10. CASE FinishStep
  <2>1. /\ UNCHANGED inputs /\ inv' = inv /\ pc' # "invariant"
        /\ failure' = failure \/ (failure' # None => failure'.kind = "unexpected-error")
    BY <1>10 DEF FinishStep, Fail
  <2> QED BY <2>1 DEF Guarded, AllHarmless, BlamedOnReaders, Invariants
<1>11. CASE UNCHANGED vars
  BY <1>11 DEF vars, Guarded, AllHarmless, BlamedOnReaders, Invariants
<1> QED BY <1>2, <1>3, <1>4, <1>5, <1>8, <1>9, <1>10, <1>11 DEF Next

LEMMA AlwaysGuarded == Spec => []Guarded
<1>1. Init => Guarded
  BY DEF Init, Guarded, BlamedOnReaders
<1>2. Sane /\ Guarded /\ [Next]_vars => Guarded'
  BY StepGuarded
<1> QED BY <1>1, <1>2, AlwaysSane, PTL DEF Spec

\* A case is blamed on its invariants only when one of them can reach a call
\* that changes a tracked value, removes a tracked entry that is not temporary
\* or asks a tracked address for an authorization, whatever the contract is,
\* whatever of its entries expired, and whenever the host came to reclaim them
\* (check_invariants).
THEOREM GuardBlamesAWriter ==
  Spec => [](BlamedOnReaders =>
               \E n \in 1..Len(Invariants) :
                 ~HarmlessInvariant(Invariants[n], target.tracked))
<1>1. Guarded => (BlamedOnReaders =>
                    \E n \in 1..Len(Invariants) :
                      ~HarmlessInvariant(Invariants[n], target.tracked))
  BY DEF Guarded, AllHarmless
<1> QED BY <1>1, AlwaysGuarded, PTL

-----------------------------------------------------------------------------
(* What a check that passed says of the state the next action starts from *)

KnownKinds == \A k \in Keys : k.kind \in StoreKinds

\* A check that passed took nothing but temporary entries from the storage
\* the last action left.
Untouched ==
  /\ pc = "invariant" => IsSnapshot(before)
  /\ (pc \in {"next", "passed"} /\ Invariants # <<>>) =>
       OnlyReclaimed(before, CaptureScoped(Entries(host), target.tracked))

LEMMA CapturedIsSnapshot ==
  ASSUME KnownKinds, NEW h, FiniteLedger(h), DOMAIN h.ledger \subseteq Keys,
         \A k \in h.nonces : k.kind = "temporary", NEW tracked
  PROVE  IsSnapshot(CaptureScoped(Entries(h), tracked))
<1> DEFINE snap == CaptureScoped(Entries(h), tracked)
<1>1. /\ DOMAIN snap = {k \in DOMAIN Entries(h) : Tracks(tracked, k)}
      /\ snap = [k \in DOMAIN snap |-> snap[k]]
  BY CapturedEntries
<1>2. IsFiniteSet(DOMAIN snap)
  BY CapturedFinite
<1>3. \A k \in DOMAIN snap : k.kind \in StoreKinds
  BY <1>1, EntriesStored DEF KnownKinds, StoreKinds
<1> HIDE DEF snap
<1>4. IsSnapshot(snap)
  BY <1>1, <1>2, <1>3 DEF IsSnapshot
<1> QED BY <1>4 DEF snap

LEMMA StepUntouched ==
  ASSUME KnownKinds, TypeOK, Accounted, Untouched, [Next]_vars
  PROVE  Untouched'
<1> USE DEF inputs, checker
<1> DEFINE seen == CaptureScoped(Entries(host), target.tracked)
<1>1. IsSnapshot(seen)
  BY CapturedIsSnapshot DEF TypeOK, Accounted
<1>2. ASSUME pc' \notin {"invariant", "next", "passed"}
      PROVE  Untouched'
  BY <1>2 DEF Untouched
<1>3. CASE SkipCheck
  BY <1>3 DEF SkipCheck, Untouched, Invariants
<1>4. CASE StartCheck
  BY <1>1, <1>4 DEF StartCheck, Untouched
<1>5. CASE CheckInvariant
  <2>1. pc = "invariant" /\ before' = before /\ pc' \in {"invariant", "failed"}
    BY <1>5 DEF CheckInvariant
  <2> QED BY <2>1 DEF Untouched
<1>6. CASE CheckReadOnly
  <2>1. /\ pc = "invariant" /\ before' = before /\ host' = host /\ target' = target
        /\ pc' = "failed" \/ (pc' = "next" /\ ReadOnly(Diff(before, seen)))
    BY <1>6 DEF CheckReadOnly
  <2>2. CASE pc' = "failed"
    BY <1>2, <2>2
  <2>3. CASE pc' = "next" /\ ReadOnly(Diff(before, seen))
    <3>1. IsSnapshot(before)
      BY <2>1 DEF Untouched
    <3> HIDE DEF seen
    <3>2. OnlyReclaimed(before, seen)
      BY <1>1, <2>3, <3>1, ReadOnlyIsReclaimed
    <3> QED BY <2>1, <2>3, <3>2 DEF Untouched, seen
  <2> QED BY <2>1, <2>2, <2>3
<1>7. CASE BeginStep \/ FinishStep
  BY <1>2, <1>7 DEF BeginStep, FinishStep
<1>8. CASE ReturnCase
  BY <1>8 DEF ReturnCase, Untouched, Invariants
<1>9. ASSUME NEW op, Operation(op)
      PROVE  pc = "execute"
  BY <1>9 DEF Operation
<1>10. \A m, r : Measured(m, r) => pc' \in {"failed", "execute"}
  BY DEF Measured
<1>11. CASE DoCall \/ DoCallUnchecked \/ DoCallWithoutAuth \/ DoCallRequiringAuth
  BY <1>2, <1>10, <1>11
     DEF DoCall, DoCallUnchecked, DoCallWithoutAuth, DoCallRequiringAuth
<1>12. CASE DoAuthorize \/ DoInstallAuths \/ DoAdvance \/ DoCloseLedger \/ DoNote
  BY <1>2, <1>9, <1>12
     DEF DoAuthorize, DoInstallAuths, DoAdvance, DoCloseLedger, DoNote
<1>13. CASE UNCHANGED vars
  BY <1>13 DEF vars, Untouched, Invariants
<1> QED BY <1>3, <1>4, <1>5, <1>6, <1>7, <1>8, <1>11, <1>12, <1>13 DEF Next

\* When the next action begins, or the case passes, the tracked storage is
\* what it was before the invariants were checked: every entry the last action
\* left is there with its value, but for temporary ones, and there is no other.
\* So what an action finds never depends on whether invariants were checked
\* before it, but for what had expired (check_invariants).
THEOREM ChecksLeaveStorage ==
  ASSUME FiniteWrites, KnownWrites, KnownKinds
  PROVE  Spec => []((pc \in {"next", "passed"} /\ Invariants # <<>>) =>
                      OnlyReclaimed(before,
                                    CaptureScoped(Entries(host), target.tracked)))
<1>1. Init => Untouched
  BY DEF Init, Untouched
<1>2. TypeOK /\ Accounted /\ Untouched /\ [Next]_vars => Untouched'
  BY StepUntouched
<1>3. Untouched => ((pc \in {"next", "passed"} /\ Invariants # <<>>) =>
                      OnlyReclaimed(before,
                                    CaptureScoped(Entries(host), target.tracked)))
  BY DEF Untouched
<1> QED BY <1>1, <1>2, <1>3, TypeCorrect, AlwaysAccounted, PTL DEF Spec

\* A call that writes nothing, removes nothing and demands nothing.
Getter(code) == DOMAIN code.sets = {} /\ code.dels = {} /\ code.demands = {}

\* The invariants of the case look through getters alone, and a bound on the
\* growth is a number.
Getters ==
  \A n \in 1..Len(Invariants) :
    LET i == Invariants[n]
    IN  IF i.kind = "growth" THEN i.max \in Nat
        ELSE \A view, seq : Getter(Code(i.call, view, seq))

\* The invariant holds of the host as it stands, and the value it remembers is
\* the one it would read.
HoldsNow(i, cell, h) ==
  /\ i.kind = "fn" => Holds(i, View(h), model)
  /\ i.kind = "growth" => GrowthHolds(i, h)
  /\ i.kind \in {"conserved", "nondecreasing"} => cell = Reading(i, View(h))

Watched(i) == steps # <<>> \/ i.initial

\* Every invariant of a check that passed holds where it left the case.
PassedChecksHold ==
  pc \in {"next", "passed"} =>
    \A n \in 1..Len(Invariants) :
      Watched(Invariants[n]) => HoldsNow(Invariants[n], cells[n], host)

\* The same of those gone through so far.
Passing ==
  /\ inv \in Nat
  /\ cells = [n \in 1..Len(Invariants) |-> cells[n]]
  /\ Getters =>
       /\ PassedChecksHold
       /\ pc = "invariant" =>
            \A n \in 1..Len(Invariants) :
              n <= inv /\ Watched(Invariants[n]) =>
                HoldsNow(Invariants[n], cells[n], host)

\* A getter leaves the contract the same contents to find, and no entry more.
LEMMA GetterKeepsView ==
  ASSUME NEW h, IsHost(h), NEW call, Getter(Code(call, View(h), h.seq))
  PROVE  LET ran == Invoke(h, call).host
         IN  View(ran) = View(h) /\ DOMAIN Entries(ran) \subseteq DOMAIN Entries(h)
<1> DEFINE code == Code(call, View(h), h.seq)
           ran  == Invoke(h, call).host
<1>1. /\ ran.ledger = h.ledger \/ ran.ledger = Applied(h, code)
      /\ ran.nonces = h.nonces /\ ran.seq = h.seq
  <2>1. Spent(h, code) = {}
    BY DEF Spent, Getter
  <2> QED BY <2>1, InvokeLedger DEF SameStorage
<1> DEFINE g == Applied(h, code)
<1>2. /\ \A k \in DOMAIN g : k \in DOMAIN h.ledger /\ g[k] = h.ledger[k]
      /\ \A k \in DOMAIN h.ledger \ DOMAIN g : Expired(k, h.ledger[k], h.seq)
  BY DEF Applied, Getter
<1> HIDE DEF g, ran, code
<1>3. CASE ran.ledger = h.ledger
  BY <1>1, <1>3, ViewOfLedger, EntriesStored DEF ran
<1>4. CASE ran.ledger = g
  <2>1. {x \in DOMAIN ran.ledger : ~Expired(x, ran.ledger[x], ran.seq)}
          = {x \in DOMAIN h.ledger : ~Expired(x, h.ledger[x], h.seq)}
    BY <1>1, <1>2, <1>4
  <2>2. \A k \in DOMAIN ran.ledger : ran.ledger[k] = h.ledger[k]
    BY <1>2, <1>4
  <2>3. View(ran) = View(h)
    BY <2>1, <2>2 DEF View
  <2> QED BY <1>1, <1>2, <1>4, <2>3, EntriesStored DEF ran
<1> QED BY <1>1, <1>3, <1>4 DEF g

\* With fewer entries a bound on their number holds still.
LEMMA FewerStillBounded ==
  ASSUME NEW h, FiniteLedger(h), NEW g,
         DOMAIN Entries(g) \subseteq DOMAIN Entries(h),
         NEW i, i.max \in Nat, GrowthHolds(i, h)
  PROVE  GrowthHolds(i, g)
<1> DEFINE of(x) == Counts(Capture(Entries(x)))
<1>1. \A x : DOMAIN Capture(Entries(x)) = DOMAIN Entries(x)
  BY DEF Capture, CaptureFiltered, Owners
<1>7. IsFiniteSet(DOMAIN Entries(h))
  <2>1. IsFiniteSet(DOMAIN h.ledger \cup h.nonces)
    BY FS_Union DEF FiniteLedger
  <2> QED BY <2>1, EntriesStored
<1>2. ASSUME NEW kind \in StoreKinds
      PROVE  /\ of(g)[kind] \in Nat /\ of(h)[kind] \in Nat
             /\ of(g)[kind] <= of(h)[kind]
  <2> DEFINE G == OfKind(DOMAIN Entries(g), kind)
             H == OfKind(DOMAIN Entries(h), kind)
  <2>1. IsFiniteSet(H) /\ G \subseteq H
    BY <1>7, OfKindFinite DEF OfKind
  <2>2. of(g)[kind] = Cardinality(G) /\ of(h)[kind] = Cardinality(H)
    BY <1>1 DEF Counts
  <2> HIDE DEF G, H, of
  <2> QED BY <2>1, <2>2, FS_Subset, FS_CardinalityType
<1> HIDE DEF of
<1>3. "instance" \in StoreKinds /\ "persistent" \in StoreKinds /\ "temporary" \in StoreKinds
  BY DEF StoreKinds
<1>4. /\ Total(of(g)) \in Nat /\ Total(of(h)) \in Nat
      /\ Total(of(g)) <= Total(of(h))
  BY <1>2, <1>3 DEF Total
<1>5. \A x, y, z \in Nat : x <= y /\ y <= z => x <= z
  OBVIOUS
<1>6. \A x : GrowthHolds(i, x) <=>
               (IF i.store \in StoreKinds THEN of(x)[i.store] ELSE Total(of(x))) <= i.max
  BY DEF GrowthHolds, of
<1> QED BY <1>2, <1>4, <1>5, <1>6

LEMMA StillHolds ==
  ASSUME NEW h, FiniteLedger(h), NEW g, View(g) = View(h),
         DOMAIN Entries(g) \subseteq DOMAIN Entries(h),
         NEW i, i.kind = "growth" => i.max \in Nat, NEW cell, HoldsNow(i, cell, h)
  PROVE  HoldsNow(i, cell, g)
BY FewerStillBounded DEF HoldsNow

LEMMA StepPassing ==
  ASSUME Sane, Accounted, Passing, [Next]_vars
  PROVE  Passing'
<1> USE DEF inputs, checker
<1>1. ASSUME UNCHANGED inputs, UNCHANGED inv, UNCHANGED cells,
             pc' \notin {"invariant", "next", "passed"}
      PROVE  Passing'
  BY <1>1 DEF Passing, PassedChecksHold, Invariants
<1>2. CASE SkipCheck
  <2>1. /\ target' = target /\ inv' = inv /\ cells' = cells /\ pc' = "next"
        /\ target.invariants = <<>>
    BY <1>2 DEF SkipCheck, Invariants
  <2>2. 1..Len(target.invariants) = {}
    BY <2>1
  <2> QED BY <2>1, <2>2 DEF Passing, PassedChecksHold, Invariants
<1>3. CASE StartCheck
  <2>1. /\ target' = target /\ inv' = 0 /\ cells' = cells /\ pc' = "invariant"
    BY <1>3 DEF StartCheck
  <2>2. \A n \in 1..Len(target.invariants) : ~(n <= 0)
    OBVIOUS
  <2> QED BY <2>1, <2>2 DEF Passing, PassedChecksHold, Invariants
<1>4. CASE CheckInvariant
  <2> DEFINE i == Invariants[inv + 1]
             looked == Looked(i, host)
  <2>1. /\ target' = target /\ inv' = inv + 1 /\ inv \in Nat
        /\ steps' = steps /\ model' = model
        /\ inv + 1 \in 1..Len(Invariants) /\ pc = "invariant"
        /\ pc' \in {"invariant", "failed"}
    BY <1>4 DEF CheckInvariant, Passing
  <2>2. cells = [n \in 1..Len(Invariants) |-> cells[n]]
    BY DEF Passing
  <2>3. cells' = cells \/ \E c : cells' = [cells EXCEPT ![inv + 1] = c]
    BY <1>4 DEF CheckInvariant
  <2>4. cells' = [n \in 1..Len(Invariants) |-> cells'[n]]
    BY <2>2, <2>3
  <2>5. CASE pc' = "failed" \/ ~Getters
    <3>1. Getters' <=> Getters
      BY <2>1 DEF Getters, Invariants
    <3> QED BY <2>1, <2>4, <2>5, <3>1 DEF Passing, PassedChecksHold, Invariants
  <2>6. CASE pc' # "failed" /\ Getters
    <3>1. /\ View(host') = View(host)
          /\ DOMAIN Entries(host') \subseteq DOMAIN Entries(host)
      <4>1. host' = host \/ (host' = looked.host /\ Watched(i))
        BY <1>4 DEF CheckInvariant, Watched
      <4>2. i.kind # "growth" => Getter(Code(i.call, View(host), host.seq))
        BY <2>1, <2>6 DEF Getters
      <4> HIDE DEF i
      <4>3. /\ View(looked.host) = View(host)
            /\ DOMAIN Entries(looked.host) \subseteq DOMAIN Entries(host)
        BY <4>2, GetterKeepsView DEF Sane, Looked
      <4> QED BY <4>1, <4>3
    <3>2. ASSUME NEW n \in 1..Len(Invariants), n <= inv, Watched(Invariants[n])
          PROVE  HoldsNow(Invariants[n], cells'[n], host)
      <4>1. HoldsNow(Invariants[n], cells[n], host)
        BY <2>1, <2>6, <3>2 DEF Passing
      <4>2. cells'[n] = cells[n]
        BY <2>1, <2>2, <2>3, <3>2
      <4> QED BY <4>1, <4>2
    <3>3. ASSUME Watched(i)
          PROVE  HoldsNow(i, cells'[inv + 1], host')
      <4>1. /\ host' = looked.host
            /\ cells' = [cells EXCEPT ![inv + 1] =
                  IF i.kind \in {"fn", "growth"} THEN @
                  ELSE Remembers(i, @, Reading(i, View(looked.host)))]
            /\ Passes(i, cells[inv + 1], looked.host)
        BY <1>4, <2>6, <3>3 DEF CheckInvariant, Watched
      <4> DEFINE cell == cells[inv + 1]
      <4>2. cells'[inv + 1] = IF i.kind \in {"fn", "growth"} THEN cell
                              ELSE Remembers(i, cell, Reading(i, View(host')))
        BY <2>1, <2>2, <4>1
      <4>3. Passes(i, cell, host')
        BY <4>1
      <4> HIDE DEF i, looked, cell
      <4>4. CASE i.kind = "fn"
        BY <4>3, <4>4 DEF Passes, HoldsNow
      <4>5. CASE i.kind = "growth"
        BY <4>3, <4>5 DEF Passes, HoldsNow
      <4>6. CASE i.kind = "conserved"
        <5>1. cell \in {None, Reading(i, View(host'))}
          BY <4>3, <4>6 DEF Passes
        <5>2. cells'[inv + 1] = Reading(i, View(host'))
          BY <4>2, <4>6, <5>1 DEF Remembers
        <5> QED BY <4>6, <5>2 DEF HoldsNow
      <4>7. CASE i.kind = "nondecreasing"
        BY <4>2, <4>7 DEF Remembers, HoldsNow
      <4> QED BY <4>4, <4>5, <4>6, <4>7 DEF HoldsNow
    <3>4. \A n \in 1..Len(Invariants) : Invariants[n].kind = "growth" =>
            Invariants[n].max \in Nat
      BY <2>6 DEF Getters
    <3>5. \A n \in 1..Len(Invariants) : \A cell :
            HoldsNow(Invariants[n], cell, host) => HoldsNow(Invariants[n], cell, host')
      BY <3>1, <3>4, StillHolds DEF Accounted
    <3>6. ASSUME NEW n \in 1..Len(Invariants), n <= inv + 1, Watched(Invariants[n])
          PROVE  HoldsNow(Invariants[n], cells'[n], host')
      <4>1. CASE n = inv + 1
        BY <3>3, <3>6, <4>1
      <4>2. CASE n # inv + 1
        <5>1. n <= inv
          BY <2>1, <3>6, <4>2
        <5> QED BY <3>2, <3>5, <3>6, <5>1
      <4> QED BY <4>1, <4>2
    <3>7. \A x : Watched(x)' <=> Watched(x)
      BY <2>1 DEF Watched
    <3> HIDE DEF i, looked
    <3>8. \A n \in 1..Len(Invariants) : n <= inv' /\ Watched(Invariants[n])' =>
            HoldsNow(Invariants[n], cells[n], host)'
      BY <2>1, <3>6, <3>7 DEF HoldsNow, GrowthHolds, Invariants
    <3>9. inv' \in Nat /\ Invariants' = Invariants /\ pc' = "invariant"
      BY <2>1, <2>6 DEF Invariants
    <3> QED BY <2>4, <3>8, <3>9 DEF Passing, PassedChecksHold
  <2> QED BY <2>5, <2>6
<1>5. CASE CheckReadOnly
  <2>1. /\ UNCHANGED <<inputs, host, model, steps, checker>>
        /\ pc = "invariant" /\ inv = Len(Invariants) /\ pc' \in {"next", "failed"}
    BY <1>5 DEF CheckReadOnly
  <2>2. Getters' <=> Getters
    BY <2>1 DEF Getters, Invariants
  <2>3. ASSUME Getters
        PROVE  \A n \in 1..Len(Invariants) :
                 Watched(Invariants[n]) => HoldsNow(Invariants[n], cells[n], host)
    <3>1. \A n \in 1..Len(Invariants) : n <= inv
      BY <2>1 DEF Passing
    <3> QED BY <2>1, <2>3, <3>1 DEF Passing
  <2> QED BY <2>1, <2>2, <2>3 DEF Passing, PassedChecksHold, Invariants, Watched, HoldsNow
<1>6. CASE BeginStep \/ FinishStep
  BY <1>1, <1>6 DEF BeginStep, FinishStep
<1>7. CASE ReturnCase
  BY <1>7 DEF ReturnCase, Passing, PassedChecksHold, Invariants, Watched, HoldsNow,
              Getters
<1>8. ASSUME NEW op, Operation(op)
      PROVE  /\ UNCHANGED inputs /\ UNCHANGED inv /\ UNCHANGED cells
             /\ pc = "execute"
  BY <1>8 DEF Operation
<1>9. \A m, r : Measured(m, r) => pc' \in {"failed", "execute"}
  BY DEF Measured
<1>10. CASE DoCall \/ DoCallUnchecked \/ DoCallWithoutAuth \/ DoCallRequiringAuth
  BY <1>1, <1>8, <1>9, <1>10
     DEF DoCall, DoCallUnchecked, DoCallWithoutAuth, DoCallRequiringAuth
<1>11. CASE DoAuthorize \/ DoInstallAuths \/ DoAdvance \/ DoCloseLedger \/ DoNote
  BY <1>1, <1>8, <1>11
     DEF DoAuthorize, DoInstallAuths, DoAdvance, DoCloseLedger, DoNote
<1>12. CASE UNCHANGED vars
  BY <1>12 DEF vars, Passing, PassedChecksHold, Invariants, Watched, HoldsNow, Getters
<1> QED BY <1>2, <1>3, <1>4, <1>5, <1>6, <1>7, <1>10, <1>11, <1>12 DEF Next

\* The invariant objects compare with what they remember: a conserved value
\* once read stays the one compared with, and as long as the checks pass what
\* a non-decreasing one is compared with never falls.
CellsStand ==
  \A n \in 1..Len(Invariants) :
    cells[n] # None /\ pc' # "failed" =>
      /\ Invariants[n].kind = "conserved" => cells'[n] = cells[n]
      /\ Invariants[n].kind = "nondecreasing" =>
           cells'[n] = cells[n] \/ cells[n] <= cells'[n]

LEMMA StepCells ==
  ASSUME Passing, Next
  PROVE  CellsStand
<1> USE DEF checker
<1>1. CASE UNCHANGED cells
  BY <1>1 DEF CellsStand
<1>2. CASE CheckInvariant
  <2> DEFINE i == Invariants[inv + 1]
             cell == cells[inv + 1]
             seen == Reading(i, View(Looked(i, host).host))
  <2>1. SUFFICES ASSUME pc' # "failed", ~UNCHANGED cells
                 PROVE  CellsStand
    BY <1>1 DEF CellsStand
  <2>2. /\ cells' = [cells EXCEPT ![inv + 1] =
              IF i.kind \in {"fn", "growth"} THEN @ ELSE Remembers(i, @, seen)]
        /\ Passes(i, cell, Looked(i, host).host)
        /\ inv + 1 \in 1..Len(Invariants)
    BY <1>2, <2>1 DEF CheckInvariant, Passing
  <2>3. cells = [n \in 1..Len(Invariants) |-> cells[n]]
    BY DEF Passing
  <2>4. \A n \in 1..Len(Invariants) : n # inv + 1 => cells'[n] = cells[n]
    BY <2>2, <2>3
  <2>5. cells'[inv + 1] = IF i.kind \in {"fn", "growth"} THEN cell
                          ELSE Remembers(i, cell, seen)
    BY <2>2, <2>3
  <2>6. i.kind = "nondecreasing" => cell = None \/ cell <= seen
    BY <2>2 DEF Passes
  <2>7. cell # None =>
          /\ i.kind = "conserved" => cells'[inv + 1] = cell
          /\ i.kind = "nondecreasing" => cell <= cells'[inv + 1]
    <3> HIDE DEF i, cell, seen
    <3> QED BY <2>5, <2>6 DEF Remembers
  <2> QED BY <2>4, <2>7 DEF CellsStand
<1>3. \A op : Operation(op) => UNCHANGED cells
  BY DEF Operation
<1>4. CASE SkipCheck \/ StartCheck \/ CheckReadOnly \/ BeginStep \/ ReturnCase
           \/ FinishStep
  BY <1>1, <1>4
     DEF SkipCheck, StartCheck, CheckReadOnly, BeginStep, ReturnCase, FinishStep
<1> QED BY <1>1, <1>2, <1>3, <1>4
        DEF Next, DoCall, DoCallUnchecked, DoCallWithoutAuth, DoCallRequiringAuth,
            DoAuthorize, DoInstallAuths, DoAdvance, DoCloseLedger, DoNote

LEMMA AlwaysPassing ==
  ASSUME FiniteWrites
  PROVE  Spec => []Passing
<1>1. Init => Passing
  <2> SUFFICES ASSUME Init PROVE Passing
    OBVIOUS
  <2>1. /\ cells = [n \in 1..Len(Invariants) |-> None] /\ inv = 0 /\ pc = "check"
    BY DEF Init, Invariants
  <2>2. cells = [n \in 1..Len(Invariants) |-> cells[n]]
    BY <2>1
  <2> QED BY <2>1, <2>2 DEF Passing, PassedChecksHold
<1>2. Sane /\ Accounted /\ Passing /\ [Next]_vars => Passing'
  BY StepPassing
<1> QED BY <1>1, <1>2, AlwaysSane, AlwaysAccounted, PTL DEF Spec

\* For every target whose invariants look through getters: when the next
\* action begins, or the case passes, each invariant that was watched holds of
\* the state as it stands, whatever the checks after it reclaimed, and what a
\* conserved or non-decreasing one would read then is what it remembers.  For
\* every target, what is remembered stands from one check to the next: so a
\* conserved value is the same wherever a check passed, and a non-decreasing
\* one did not fall between two (Invariant::check, SupplyConserved,
\* NonDecreasing, StorageGrowthBounded).
THEOREM PassedChecksAlwaysHold ==
  ASSUME FiniteWrites
  PROVE  Spec => /\ [](Getters => PassedChecksHold)
                 /\ [][CellsStand]_vars
<1>1. Passing => (Getters => PassedChecksHold)
  BY DEF Passing
<1>2. Passing /\ [Next]_vars => [CellsStand]_vars
  BY StepCells
<1> QED BY <1>1, <1>2, AlwaysPassing, PTL DEF Spec

-----------------------------------------------------------------------------
(* The example token *)

\* What a call that goes through leaves to be found.
Left(call, view) ==
  LET sets == Sets(call, view)
  IN  [k \in DOMAIN sets \cup DOMAIN view |->
         IF k \in DOMAIN sets THEN sets[k] ELSE view[k]]

\* The call an action of the target makes, if it makes one.
CallOf(a) ==
  CASE a.act = "mint"     -> MintCall(a)
    [] a.act = "transfer" -> TransferCall(a)
    [] OTHER              -> [fn |-> "set_fee_bps", bps |-> a.bps]

\* The token is what the model says, and knows its admin.
Stands(view, balances) ==
  BalancesMatch(view, balances) /\ Get(view, InstanceKey("admin")) = Admin

LEMMA MatchIsSum ==
  ASSUME NEW view, NEW balances
  PROVE  BalancesMatch(view, balances)
           <=> /\ \A who \in Actors : Get(view, BalanceKey(who)) = balances[who]
               /\ Get(view, InstanceKey("total")) = FoldedSum(balances)
BY DEF BalancesMatch, FoldedSum

LEMMA TokenKeysDiffer ==
  /\ \A name, other : InstanceKey(name) = InstanceKey(other) => name = other
  /\ \A who, name : BalanceKey(who) # InstanceKey(name)
  /\ \A who, other : BalanceKey(who) = BalanceKey(other) => who = other
BY DEF BalanceKey, InstanceKey

LEMMA GetPut ==
  ASSUME NEW view, NEW key, NEW val, NEW k
  PROVE  Get(Put(view, key, val), k) = IF k = key THEN val ELSE Get(view, k)
BY DEF Get, Put

LEMMA GetLeft ==
  ASSUME NEW call, NEW view, NEW k
  PROVE  Get(Left(call, view), k) = IF k \in DOMAIN Sets(call, view)
                                    THEN Sets(call, view)[k] ELSE Get(view, k)
<1> DEFINE sets == Sets(call, view)
<1> HIDE DEF sets
<1>1. Get([x \in DOMAIN sets \cup DOMAIN view |->
             IF x \in DOMAIN sets THEN sets[x] ELSE view[x]], k)
        = IF k \in DOMAIN sets THEN sets[k] ELSE Get(view, k)
  BY DEF Get
<1> QED BY <1>1 DEF Left, sets

\* A transfer of more than the sender holds.
Overdraws(a, view) ==
  a.act = "transfer" /\ Get(view, BalanceKey(a.from)) < a.amount

\* The shape of an action of the target.
LEMMA TokenActionShape ==
  ASSUME NEW a \in TokenActions
  PROVE  /\ a.act \in {"mint", "transfer", "advance_ledger", "set_fee"}
         /\ a.act = "mint" => a.to \in Actors /\ a.amount \in Nat
         /\ a.act = "transfer" => /\ a.from \in Actors /\ a.to \in Actors
                                  /\ a.amount \in Nat
         /\ a.act = "advance_ledger" => a.ledgers \in Jumps
BY TokenAssumption DEF TokenActions

\* The supply follows a balance that is changed.
LEMMA SupplyFollows ==
  ASSUME NEW balances \in [Actors -> Nat], NEW next \in [Actors -> Nat],
         NEW who \in Actors,
         \A other \in Actors : other # who => next[other] = balances[other]
  PROVE  /\ FoldedSum(balances) \in Nat
         /\ FoldedSum(next) \in Nat
         /\ FoldedSum(next) + balances[who] = FoldedSum(balances) + next[who]
BY SumOfChanged, TokenAssumption

\* The token and the model move in step.
LEMMA MintInStep ==
  ASSUME NEW balances \in [Actors -> Nat], NEW view, Stands(view, balances),
         NEW a, a.act = "mint", a.to \in Actors, a.amount \in Nat
  PROVE  /\ TokenNext(balances, a) \in [Actors -> Nat]
         /\ ~Panics(MintCall(a), view)
         /\ BalancesMatch(Left(MintCall(a), view), TokenNext(balances, a))
<1> DEFINE call == MintCall(a)
           v    == balances[a.to] + a.amount
           next == [balances EXCEPT ![a.to] = v]
<1>1. /\ call.fn = "mint" /\ call.admin = Admin /\ call.to = a.to
      /\ call.amount = a.amount
  BY DEF MintCall
<1>2. TokenNext(balances, a) = next
  BY DEF TokenNext
<1>3. ~Panics(call, view) /\ BalancesMatch(view, balances)
  BY <1>1 DEF Panics, Stands
<1>4. Sets(call, view) = [k \in {BalanceKey(a.to), InstanceKey("total")} |->
                            Get(view, k) + a.amount]
  BY <1>1 DEF Sets
<1>5. v \in Nat /\ next \in [Actors -> Nat]
  OBVIOUS
<1>6. /\ FoldedSum(balances) \in Nat
      /\ FoldedSum(next) \in Nat
      /\ FoldedSum(next) + balances[a.to] = FoldedSum(balances) + v
  <2>1. next[a.to] = v /\ \A who \in Actors : who # a.to => next[who] = balances[who]
    OBVIOUS
  <2> HIDE DEF next, v
  <2> QED BY <1>5, <2>1, SupplyFollows
<1> HIDE DEF call
<1>7. Get(Left(call, view), InstanceKey("total")) = FoldedSum(next)
  <2>1. Get(Left(call, view), InstanceKey("total"))
          = FoldedSum(balances) + a.amount
    BY <1>3, <1>4, GetLeft, MatchIsSum
  <2> QED BY <1>6, <2>1
<1>8. ASSUME NEW who \in Actors
      PROVE  Get(Left(call, view), BalanceKey(who)) = next[who]
  <2>1. CASE who = a.to
    <3>1. Get(Left(call, view), BalanceKey(who)) = Get(view, BalanceKey(who)) + a.amount
      BY <1>4, <2>1, GetLeft
    <3> QED BY <1>3, <2>1, <3>1, MatchIsSum
  <2>2. CASE who # a.to
    <3>1. Get(Left(call, view), BalanceKey(who)) = Get(view, BalanceKey(who))
      BY <1>4, <2>2, GetLeft, TokenKeysDiffer
    <3> QED BY <1>3, <2>2, <3>1, MatchIsSum
  <2> QED BY <2>1, <2>2
<1> HIDE DEF next
<1>9. BalancesMatch(Left(call, view), next)
  BY <1>7, <1>8, MatchIsSum
<1> QED BY <1>2, <1>3, <1>5, <1>9 DEF call

LEMMA TransferInStep ==
  ASSUME NEW balances \in [Actors -> Nat], NEW view, BalancesMatch(view, balances),
         NEW a, a.act = "transfer", a.from \in Actors, a.to \in Actors,
         a.amount \in Nat, a.amount <= balances[a.from]
  PROVE  /\ TokenNext(balances, a) \in [Actors -> Nat]
         /\ ~Panics(TransferCall(a), view)
         /\ BalancesMatch(Left(TransferCall(a), view), TokenNext(balances, a))
<1> DEFINE call == TransferCall(a)
           less == balances[a.from] - a.amount
           paid == [balances EXCEPT ![a.from] = less]
           more == paid[a.to] + a.amount
           next == [paid EXCEPT ![a.to] = more]
           debited == Put(view, BalanceKey(a.from),
                          Get(view, BalanceKey(a.from)) - a.amount)
<1>1. /\ call.fn = "transfer" /\ call.from = a.from /\ call.to = a.to
      /\ call.amount = a.amount
  BY DEF TransferCall
<1>2. TokenNext(balances, a) = next
  BY DEF TokenNext
<1>3. ~Panics(call, view)
  <2>1. Get(view, BalanceKey(a.from)) = balances[a.from]
    BY MatchIsSum
  <2> QED BY <1>1, <2>1 DEF Panics
<1>4. less \in Nat /\ paid \in [Actors -> Nat]
  OBVIOUS
<1>5. /\ FoldedSum(balances) \in Nat
      /\ FoldedSum(paid) \in Nat
      /\ FoldedSum(paid) + balances[a.from] = FoldedSum(balances) + less
  <2>1. /\ paid[a.from] = less
        /\ \A who \in Actors : who # a.from => paid[who] = balances[who]
    OBVIOUS
  <2> HIDE DEF paid, less
  <2> QED BY <1>4, <2>1, SupplyFollows
<1>6. paid[a.to] \in Nat /\ more \in Nat
  <2> HIDE DEF paid
  <2> QED BY <1>4
<1>7. /\ next \in [Actors -> Nat]
      /\ FoldedSum(next) \in Nat
      /\ FoldedSum(next) + paid[a.to] = FoldedSum(paid) + more
  <2> HIDE DEF paid, more
  <2>1. next \in [Actors -> Nat]
    BY <1>4, <1>6
  <2>2. next[a.to] = more /\ \A who \in Actors : who # a.to => next[who] = paid[who]
    BY <1>4
  <2> HIDE DEF next
  <2> QED BY <1>4, <1>6, <2>1, <2>2, SupplyFollows
<1>8. \A who \in Actors : Get(debited, BalanceKey(who)) = paid[who]
  <2>1. ASSUME NEW who \in Actors
        PROVE  Get(debited, BalanceKey(who)) = paid[who]
    <3>1. /\ Get(view, BalanceKey(who)) = balances[who]
          /\ Get(view, BalanceKey(a.from)) = balances[a.from]
      BY MatchIsSum
    <3>2. Get(debited, BalanceKey(who)) =
            IF BalanceKey(who) = BalanceKey(a.from) THEN less
            ELSE Get(view, BalanceKey(who))
      BY <3>1, GetPut
    <3> HIDE DEF debited, less
    <3> QED BY <3>1, <3>2, TokenKeysDiffer
  <2> QED BY <2>1
<1> DEFINE credited == Put(debited, BalanceKey(a.to), more)
<1>9. Sets(call, view) = [k \in {BalanceKey(a.from), BalanceKey(a.to)} |-> credited[k]]
  <2>1. Sets(call, view) = Moved(view, a.from, a.to, a.amount)
    BY <1>1 DEF Sets
  <2>2. Get(debited, BalanceKey(a.to)) + a.amount = more
    BY <1>8
  <2> QED BY <2>1, <2>2 DEF Moved
<1>10. /\ BalanceKey(a.from) \in DOMAIN credited
       /\ BalanceKey(a.to) \in DOMAIN credited
  BY DEF Put
<1> HIDE DEF call, debited, more
<1>11. \A k : Get(credited, k) = IF k = BalanceKey(a.to) THEN more ELSE Get(debited, k)
  BY GetPut
<1> HIDE DEF credited, paid
<1>12. ASSUME NEW who \in Actors
       PROVE  Get(Left(call, view), BalanceKey(who)) = next[who]
  <2>1. CASE who \in {a.from, a.to}
    <3>1. Get(Left(call, view), BalanceKey(who)) = Get(credited, BalanceKey(who))
      BY <1>9, <1>10, <2>1, GetLeft DEF Get
    <3>2. Get(credited, BalanceKey(who)) = IF who = a.to THEN more ELSE paid[who]
      BY <1>8, <1>11, TokenKeysDiffer
    <3> QED BY <1>4, <3>1, <3>2
  <2>2. CASE who \notin {a.from, a.to}
    <3>1. Get(Left(call, view), BalanceKey(who)) = balances[who]
      BY <1>9, <2>2, GetLeft, TokenKeysDiffer, MatchIsSum
    <3>2. next[who] = balances[who]
      BY <1>4, <2>2 DEF paid
    <3> QED BY <3>1, <3>2
  <2> QED BY <2>1, <2>2
<1>13. Get(Left(call, view), InstanceKey("total")) = FoldedSum(next)
  <2>1. Get(Left(call, view), InstanceKey("total")) = FoldedSum(balances)
    BY <1>9, GetLeft, TokenKeysDiffer, MatchIsSum
  <2>2. FoldedSum(next) = FoldedSum(balances)
    BY <1>4, <1>5, <1>6, <1>7 DEF more, less
  <2> QED BY <2>1, <2>2
<1> HIDE DEF next
<1>14. BalancesMatch(Left(call, view), next)
  BY <1>12, <1>13, MatchIsSum
<1> QED BY <1>2, <1>3, <1>7, <1>14 DEF call

LEMMA FeeInStep ==
  ASSUME NEW balances, NEW view, BalancesMatch(view, balances), NEW bps
  PROVE  LET call == [fn |-> "set_fee_bps", bps |-> bps]
         IN  ~Panics(call, view) /\ BalancesMatch(Left(call, view), balances)
<1> DEFINE call == [fn |-> "set_fee_bps", bps |-> bps]
<1>1. ~Panics(call, view)
  BY DEF Panics
<1>2. DOMAIN Sets(call, view) = {InstanceKey("fee")}
  BY DEF Sets
<1> HIDE DEF call
<1>3. \A k : k # InstanceKey("fee") => Get(Left(call, view), k) = Get(view, k)
  BY <1>2, GetLeft
<1>4. BalancesMatch(Left(call, view), balances)
  BY <1>3, TokenKeysDiffer, MatchIsSum
<1> QED BY <1>1, <1>4 DEF call

\* No call of an action changes who the admin is.
LEMMA AdminStays ==
  ASSUME NEW a, a.act \in {"mint", "transfer", "set_fee"}, NEW view
  PROVE  Get(Left(CallOf(a), view), InstanceKey("admin"))
           = Get(view, InstanceKey("admin"))
<1> DEFINE call == CallOf(a)
<1>1. InstanceKey("admin") \notin DOMAIN Sets(call, view)
  <2>1. CASE a.act = "mint"
    <3>1. call.fn = "mint"
      BY <2>1 DEF CallOf, MintCall
    <3>2. DOMAIN Sets(call, view) = {BalanceKey(call.to), InstanceKey("total")}
      BY <3>1 DEF Sets
    <3> QED BY <3>2, TokenKeysDiffer
  <2>2. CASE a.act = "transfer"
    <3>1. call.fn = "transfer"
      BY <2>2 DEF CallOf, TransferCall
    <3>2. DOMAIN Sets(call, view) = {BalanceKey(call.from), BalanceKey(call.to)}
      BY <3>1 DEF Sets, Moved
    <3> QED BY <3>2, TokenKeysDiffer
  <2>3. CASE a.act = "set_fee"
    <3>1. call.fn = "set_fee_bps"
      BY <2>3 DEF CallOf
    <3>2. DOMAIN Sets(call, view) = {InstanceKey("fee")}
      BY <3>1 DEF Sets
    <3> QED BY <3>2, TokenKeysDiffer
  <2> QED BY <2>1, <2>2, <2>3
<1> HIDE DEF call
<1>2. Get(Left(call, view), InstanceKey("admin")) = Get(view, InstanceKey("admin"))
  BY <1>1, GetLeft
<1> QED BY <1>2 DEF call

\* Whatever the target's action is, tried in whichever state the token and the
\* model agree on: the token refuses it exactly when it is a transfer of more
\* than the sender holds, and what the call writes otherwise leaves the token
\* at what the model predicts, the supply included; for every number of
\* actors, amount and balances, transfers to oneself among them (Token::mint
\* and transfer against TokenTarget::next_state).
THEOREM TokenInStep ==
  ASSUME NEW balances \in [Actors -> Nat], NEW view, Stands(view, balances),
         NEW a \in TokenActions
  PROVE  /\ a.act = "advance_ledger" => TokenNext(balances, a) = balances
         /\ a.act # "advance_ledger" =>
              /\ Panics(CallOf(a), view) <=> Overdraws(a, view)
              /\ ~Overdraws(a, view) =>
                   /\ TokenNext(balances, a) \in [Actors -> Nat]
                   /\ Stands(Left(CallOf(a), view), TokenNext(balances, a))
<1>1. BalancesMatch(view, balances)
  BY DEF Stands
<1>2. a.act \in {"mint", "transfer", "set_fee"} =>
        Get(Left(CallOf(a), view), InstanceKey("admin")) = Admin
  BY AdminStays DEF Stands
<1>3. CASE a.act = "mint"
  <2>1. CallOf(a) = MintCall(a)
    BY <1>3 DEF CallOf
  <2> QED BY <1>2, <1>3, <2>1, TokenActionShape, MintInStep DEF Stands, Overdraws
<1>4. CASE a.act = "transfer"
  <2>1. CallOf(a) = TransferCall(a)
    BY <1>4 DEF CallOf
  <2>2. Panics(CallOf(a), view) <=> Overdraws(a, view)
    BY <1>4, <2>1 DEF Panics, TransferCall, Overdraws
  <2>3. a.from \in Actors /\ Get(view, BalanceKey(a.from)) = balances[a.from]
    BY <1>1, <1>4, TokenActionShape, MatchIsSum
  <2>4. ~Overdraws(a, view) => a.amount <= balances[a.from]
    BY <1>4, <2>3, TokenActionShape DEF Overdraws
  <2> QED BY <1>1, <1>2, <1>4, <2>1, <2>2, <2>4, TokenActionShape, TransferInStep
          DEF Stands
<1>5. CASE a.act \in {"advance_ledger", "set_fee"}
  <2>1. TokenNext(balances, a) = balances
    BY <1>5 DEF TokenNext
  <2>2. a.act = "set_fee" => CallOf(a) = [fn |-> "set_fee_bps", bps |-> a.bps]
    BY DEF CallOf
  <2> QED BY <1>1, <1>2, <1>5, <2>1, <2>2, FeeInStep DEF Stands, Overdraws
<1> QED BY <1>3, <1>4, <1>5, TokenActionShape

-----------------------------------------------------------------------------
(* The example's target against the example's token, run by run_case *)

\* The contract is the token, and no call of it goes over a limit.
TokenContract ==
  \A call, view, seq :
    LET code == Code(call, view, seq)
    IN  /\ code.demands = Demands(call)
        /\ code.dels = {}
        /\ code.sets = [k \in DOMAIN Sets(call, view) |-> Entry(Sets(call, view)[k])]
        /\ code.ends = IF Panics(call, view) THEN "rejected" ELSE "ok"
        /\ code.usage \in [Metered -> Nat]
        /\ \A limits \in {c.limits : c \in Configs} \cup {NetworkLimits} :
             ~Exceeds(code.usage, limits)

\* The target is the token's, deployed alone, with room for an entry for each
\* actor, the three of the instance and the nonce each action may leave.  No
\* precondition is asked of an action.
TokenTarget(max) ==
  /\ max \in Nat /\ max >= Cardinality(Actors) + 3 + MaxActions
  /\ \A world \in Worlds : world.ledger = Deployed /\ world.nonces = {}
  /\ \A t \in Targets : t.initial = TokenModel /\ t.invariants = TokenInvariants(max)
  /\ Actions \subseteq TokenActions
  /\ \A a \in TokenActions :
       /\ Script(a) = TokenScript(a)
       /\ \A balances \in [Actors -> Nat] :
            NextState(balances, a) = TokenNext(balances, a)
  /\ \A i, view, balances :
       i.call = [fn |-> "views"] =>
         (Holds(i, view, balances) <=> BalancesMatch(view, balances))

Fine(step) == step.action.act # "set_fee" /\ step.outcome = "ok"

\* The actions a case is failed over: the one of the planted bug, and one the
\* target would not have generated where it is tried.
Condemned(a, view) == a.act = "set_fee" \/ Overdraws(a, view)

\* Between two actions the token is what the model says, and every action was
\* accepted.  A case fails only over the action in flight, set_fee or a
\* transfer of more than the sender holds.
PlantedBugIsFound ==
  /\ pc \notin {"execute", "failed"} =>
       /\ BalancesMatch(View(host), model)
       /\ \A n \in 1..Len(steps) : Fine(steps[n])
  /\ pc = "failed" =>
       /\ failure.kind = "unexpected-error" /\ Condemned(action, View(host))
       /\ \A n \in 1..(Len(steps) - 1) : Fine(steps[n])

\* The operation an action ends in, when it calls the token for somebody.
CallOp(a) == [op |-> "call", call |-> CallOf(a), then |-> "expect_ok"]
Signer(a) == IF a.act = "mint" THEN Admin ELSE a.from
GrantFor(a) == Enforcing({<<Signer(a), CallOf(a)>>})

\* The scripts, an operation at a time.
LEMMA TokenScripts ==
  ASSUME NEW a
  PROVE  /\ a.act \in {"mint", "transfer"} =>
              TokenScript(a) =
                << [op |-> "authorize", who |-> Signer(a), call |-> CallOf(a)],
                   CallOp(a) >>
         /\ a.act = "advance_ledger" =>
              TokenScript(a) = << [op |-> "advance", ledgers |-> a.ledgers] >>
         /\ a.act = "set_fee" =>
              TokenScript(a) = << [op |-> "call_without_auth", call |-> CallOf(a),
                                   then |-> "expect_rejected"] >>
<1>1. CASE a.act = "mint"
  BY <1>1 DEF TokenScript, CallOp, CallOf, Signer
<1>2. CASE a.act = "transfer"
  BY <1>2 DEF TokenScript, CallOp, CallOf, Signer
<1>3. CASE a.act = "advance_ledger"
  BY <1>3 DEF TokenScript
<1>4. CASE a.act = "set_fee"
  BY <1>4 DEF TokenScript, CallOf
<1> QED BY <1>1, <1>2, <1>3, <1>4

\* No entry of the token expires.
LEMMA TokenView ==
  ASSUME NEW h, DOMAIN h.ledger \subseteq TokenKeys
  PROVE  View(h) = [k \in DOMAIN h.ledger |-> h.ledger[k].val]
<1>1. \A k \in TokenKeys : k.kind # "temporary"
  BY DEF TokenKeys, InstanceKey, BalanceKey
<1>2. {x \in DOMAIN h.ledger : ~Expired(x, h.ledger[x], h.seq)} = DOMAIN h.ledger
  BY <1>1 DEF Expired
<1> QED BY <1>2 DEF View

\* A call whose demands are granted and whose arguments are not refused goes
\* through, and leaves the token's entries what it writes makes of them.
LEMMA TokenInvoke ==
  ASSUME TokenContract, NEW h, IsHost(h), DOMAIN h.ledger \subseteq TokenKeys,
         NEW call, ~Panics(call, View(h)),
         DOMAIN Sets(call, View(h)) \subseteq TokenKeys,
         \A who \in Demands(call) : Grants(h.auth, who, call)
  PROVE  LET ran == Invoke(h, call)
         IN  /\ ran.ends = "ok"
             /\ DOMAIN ran.host.ledger \subseteq TokenKeys
             /\ View(ran.host) = Left(call, View(h))
             /\ ran.host.nonces = h.nonces \cup
                  {NonceKey(who, Cardinality(h.nonces)) : who \in Demands(call)}
<1> DEFINE code == Code(call, View(h), h.seq)
           sets == Sets(call, View(h))
           ran  == Invoke(h, call)
<1>1. /\ code.demands = Demands(call) /\ code.dels = {} /\ code.ends = "ok"
      /\ code.sets = [k \in DOMAIN sets |-> Entry(sets[k])]
  BY DEF TokenContract
<1>2. /\ ran.ends = "ok" /\ ran.host.ledger = Applied(h, code)
      /\ ran.host.nonces = h.nonces \cup Spent(h, code)
  <2> DEFINE allowed == \A who \in code.demands : Grants(h.auth, who, call)
             through == allowed /\ code.ends \in {"ok", "unreadable"}
  <2>1. allowed /\ through
    BY <1>1
  <2>2. /\ ran.ends = IF allowed THEN code.ends ELSE code.refusal
        /\ ran.host =
             [h EXCEPT
                !.ledger = IF through THEN Applied(h, code) ELSE @,
                !.nonces = IF through THEN @ \cup Spent(h, code) ELSE @,
                !.auth   = IF @.mode = "record" THEN @ ELSE Enforcing({}),
                !.auths  = IF through THEN code.demands ELSE {},
                !.usage  = code.usage]
    BY DEF Invoke
  <2> HIDE DEF code, allowed, through, ran
  <2>3. /\ ran.host.ledger = Applied(h, code)
        /\ ran.host.nonces = h.nonces \cup Spent(h, code)
    BY <2>1, <2>2 DEF IsHost
  <2> QED BY <1>1, <2>1, <2>2, <2>3
<1>3. {k \in DOMAIN h.ledger : /\ Expired(k, h.ledger[k], h.seq)
                               /\ k \in code.reads} = {}
  <2>1. \A k \in TokenKeys : k.kind # "temporary"
    BY DEF TokenKeys, InstanceKey, BalanceKey
  <2> QED BY <2>1 DEF Expired
<1> HIDE DEF code, ran
<1>4. Applied(h, code) =
        [k \in DOMAIN sets \cup DOMAIN h.ledger |->
           IF k \in DOMAIN sets THEN Entry(sets[k]) ELSE h.ledger[k]]
  <2> DEFINE gone == {k \in DOMAIN h.ledger : /\ Expired(k, h.ledger[k], h.seq)
                                              /\ k \in code.reads}
             kept == DOMAIN h.ledger \ (gone \cup code.dels)
  <2>1. Applied(h, code) =
          [k \in kept \cup DOMAIN code.sets |->
             IF k \in DOMAIN code.sets THEN code.sets[k] ELSE h.ledger[k]]
    BY DEF Applied
  <2>2. kept = DOMAIN h.ledger /\ DOMAIN code.sets = DOMAIN sets
    BY <1>1, <1>3
  <2> HIDE DEF kept, sets
  <2>3. \A k \in DOMAIN sets : code.sets[k] = Entry(sets[k])
    BY <1>1
  <2> QED BY <2>1, <2>2, <2>3
<1> HIDE DEF sets
<1>5. DOMAIN ran.host.ledger = DOMAIN sets \cup DOMAIN h.ledger
  BY <1>2, <1>4
<1>6. DOMAIN ran.host.ledger \subseteq TokenKeys
  BY <1>5 DEF sets
<1>7. View(ran.host) = Left(call, View(h))
  <2>1. View(ran.host) = [k \in DOMAIN sets \cup DOMAIN h.ledger |->
                            ran.host.ledger[k].val]
    BY <1>5, <1>6, TokenView
  <2>2. /\ DOMAIN View(h) = DOMAIN h.ledger
        /\ \A k \in DOMAIN h.ledger : View(h)[k] = h.ledger[k].val
    BY TokenView
  <2>3. \A k \in DOMAIN sets \cup DOMAIN h.ledger :
          ran.host.ledger[k].val = IF k \in DOMAIN sets THEN sets[k] ELSE View(h)[k]
    BY <1>2, <1>4, <2>2 DEF Entry
  <2>4. Left(call, View(h)) =
          [k \in DOMAIN sets \cup DOMAIN h.ledger |->
             IF k \in DOMAIN sets THEN sets[k] ELSE View(h)[k]]
    BY <2>2 DEF Left, sets
  <2> QED BY <2>1, <2>3, <2>4
<1>8. Spent(h, code) =
        {NonceKey(who, Cardinality(h.nonces)) : who \in Demands(call)}
  BY <1>1 DEF Spent
<1> QED BY <1>2, <1>6, <1>7, <1>8 DEF ran

\* A call whose arguments the token refuses does not go through, and leaves
\* everything stored as it was.
LEMMA TokenRefuses ==
  ASSUME TokenContract, NEW h, IsHost(h), NEW call, Panics(call, View(h)),
         \A who \in Demands(call) : Grants(h.auth, who, call)
  PROVE  LET ran == Invoke(h, call)
         IN  ran.ends # "ok" /\ SameStorage(ran.host, h)
<1> DEFINE code == Code(call, View(h), h.seq)
           allowed == \A who \in code.demands : Grants(h.auth, who, call)
           through == allowed /\ code.ends \in {"ok", "unreadable"}
           ran == Invoke(h, call)
<1>1. code.demands = Demands(call) /\ code.ends = "rejected"
  BY DEF TokenContract
<1>2. allowed /\ ~through
  BY <1>1
<1>3. /\ ran.ends = IF allowed THEN code.ends ELSE code.refusal
      /\ ran.host =
           [h EXCEPT
              !.ledger = IF through THEN Applied(h, code) ELSE @,
              !.nonces = IF through THEN @ \cup Spent(h, code) ELSE @,
              !.auth   = IF @.mode = "record" THEN @ ELSE Enforcing({}),
              !.auths  = IF through THEN code.demands ELSE {},
              !.usage  = code.usage]
  BY DEF Invoke
<1> HIDE DEF code, allowed, through, ran
<1>4. ran.ends # "ok" /\ SameStorage(ran.host, h)
  BY <1>1, <1>2, <1>3 DEF IsHost, SameStorage
<1> QED BY <1>4 DEF ran

\* The call of an action writes to keys of the token.
LEMMA TokenWrites ==
  ASSUME NEW a \in TokenActions, a.act # "advance_ledger", NEW view
  PROVE  DOMAIN Sets(CallOf(a), view) \subseteq TokenKeys
<1>1. CASE a.act = "mint"
  <2>1. CallOf(a).fn = "mint" /\ CallOf(a).to = a.to /\ a.to \in Actors
    BY <1>1, TokenActionShape DEF CallOf, MintCall
  <2> QED BY <2>1 DEF Sets, TokenKeys
<1>2. CASE a.act = "transfer"
  <2>1. /\ CallOf(a).fn = "transfer" /\ CallOf(a).to = a.to /\ a.to \in Actors
        /\ CallOf(a).from = a.from /\ a.from \in Actors
    BY <1>2, TokenActionShape DEF CallOf, TransferCall
  <2>2. DOMAIN Sets(CallOf(a), view) = {BalanceKey(a.from), BalanceKey(a.to)}
    BY <2>1 DEF Sets, Moved
  <2> QED BY <2>1, <2>2 DEF TokenKeys
<1>3. CASE a.act = "set_fee"
  <2>1. CallOf(a).fn = "set_fee_bps"
    BY <1>3 DEF CallOf
  <2> QED BY <2>1 DEF Sets, TokenKeys
<1> QED BY <1>1, <1>2, <1>3, TokenActionShape

\* Only what the script of the action authorizes is demanded by its call.
LEMMA TokenDemands ==
  ASSUME NEW a \in TokenActions
  PROVE  /\ a.act \in {"mint", "transfer"} => Demands(CallOf(a)) = {Signer(a)}
         /\ a.act = "set_fee" => Demands(CallOf(a)) = {}
<1>1. CASE a.act = "mint"
  BY <1>1 DEF Demands, CallOf, MintCall, Signer
<1>2. CASE a.act = "transfer"
  BY <1>2 DEF Demands, CallOf, TransferCall, Signer
<1>3. CASE a.act = "set_fee"
  <2>1. CallOf(a).fn = "set_fee_bps"
    BY <1>3 DEF CallOf
  <2> QED BY <1>3, <2>1 DEF Demands
<1> QED BY <1>1, <1>2, <1>3

\* A measured call of the token is within every limit, and goes through
\* exactly when its invocation does.
LEMMA TokenMeasured ==
  ASSUME TokenContract, Sane, NEW h, IsHost(h), NEW call, NEW m,
         m = Call(h, call, config, target.tracked)
  PROVE  /\ m.host = Invoke(h, call).host /\ ~HostPanics(m)
         /\ m.result = "ok" <=> Invoke(h, call).ends = "ok"
<1> DEFINE usage == Code(call, View(h), h.seq).usage
<1>1. Invoke(h, call).host.usage = usage
  BY InvokeKeeps
<1>2. /\ usage \in [Metered -> Nat]
      /\ \A limits \in {c.limits : c \in Configs} \cup {NetworkLimits} :
           ~Exceeds(usage, limits)
  BY DEF TokenContract
<1>3. config.limits \in {c.limits : c \in Configs}
  BY DEF Sane
<1> HIDE DEF usage
<1>4. FirstBreach(usage, config.limits) = None /\ FirstBreach(usage, NetworkLimits) = None
  BY <1>2, <1>3, WithinIsNoBreach
<1>5. Within(h, call, config)
  BY <1>1, <1>4 DEF Within
<1>6. /\ m.host = Invoke(h, call).host
      /\ m.result = "ok" <=> Invoke(h, call).ends = "ok"
  BY <1>5, WithinIsClassified
<1> QED BY <1>1, <1>4, <1>6 DEF HostPanics

\* However many actors there are, the entries stay within the bound.
LEMMA TokenBounded ==
  ASSUME NEW max \in Nat, max >= Cardinality(Actors) + 3 + MaxActions,
         NEW h, DOMAIN h.ledger \subseteq TokenKeys, IsFiniteSet(h.nonces),
         \A k \in h.nonces : k.kind = "temporary",
         Cardinality(h.nonces) <= MaxActions, NEW i,
         i = [kind |-> "growth", initial |-> TRUE, store |-> "total", max |-> max]
  PROVE  GrowthHolds(i, h)
<1> DEFINE entries == DOMAIN Capture(Entries(h))
           three   == {InstanceKey(name) : name \in {"admin", "total", "fee"}}
           held    == {BalanceKey(who) : who \in Actors}
<1>1. entries \subseteq TokenKeys \cup h.nonces
  BY EntriesStored DEF Capture, CaptureFiltered
<1>2. IsFiniteSet(three) /\ Cardinality(three) <= 3
  <2> DEFINE one == {InstanceKey("admin")}
             two == one \cup {InstanceKey("total")}
  <2>1. IsFiniteSet(one) /\ Cardinality(one) = 1
    BY FS_Singleton
  <2>2. three = two \cup {InstanceKey("fee")}
    OBVIOUS
  <2> HIDE DEF one, three
  <2>3. IsFiniteSet(two) /\ Cardinality(two) \in 1..2
    BY <2>1, FS_AddElement
  <2> DEFINE key == InstanceKey("fee")
  <2> HIDE DEF two, key
  <2>4. /\ IsFiniteSet(two \cup {key})
        /\ Cardinality(two \cup {key}) =
             IF key \in two THEN Cardinality(two) ELSE Cardinality(two) + 1
    BY <2>3, FS_AddElement
  <2>5. Cardinality(two \cup {key}) <= 3
    BY <2>3, <2>4
  <2> QED BY <2>2, <2>4, <2>5 DEF key
<1>3. IsFiniteSet(held) /\ Cardinality(held) <= Cardinality(Actors)
  <2> DEFINE key == [who \in Actors |-> BalanceKey(who)]
  <2>1. key \in Surjection(Actors, held)
    BY DEF Surjection
  <2> HIDE DEF key, held
  <2> QED BY <2>1, FS_Surjection, TokenAssumption
<1>4. /\ OfKind(entries, "instance") \in SUBSET three
      /\ OfKind(entries, "persistent") \in SUBSET held
      /\ OfKind(entries, "temporary") \in SUBSET h.nonces
  <2>1. /\ \A k \in three : k.kind = "instance"
        /\ \A k \in held : k.kind = "persistent"
        /\ TokenKeys = three \cup held
    BY DEF InstanceKey, BalanceKey, TokenKeys
  <2> HIDE DEF three, held, entries
  <2> QED BY <1>1, <2>1 DEF OfKind
<1> HIDE DEF three, held, entries
<1>5. /\ Cardinality(OfKind(entries, "instance")) \in Nat
      /\ Cardinality(OfKind(entries, "instance")) <= 3
  <2>1. /\ IsFiniteSet(OfKind(entries, "instance"))
        /\ Cardinality(OfKind(entries, "instance")) <= Cardinality(three)
    BY <1>2, <1>4, FS_Subset
  <2>2. Cardinality(OfKind(entries, "instance")) \in Nat /\ Cardinality(three) \in Nat
    BY <1>2, <2>1, FS_CardinalityType
  <2> QED BY <1>2, <2>1, <2>2
<1>6. /\ Cardinality(OfKind(entries, "persistent")) \in Nat
      /\ Cardinality(Actors) \in Nat
      /\ Cardinality(OfKind(entries, "persistent")) <= Cardinality(Actors)
  <2>1. /\ IsFiniteSet(OfKind(entries, "persistent"))
        /\ Cardinality(OfKind(entries, "persistent")) <= Cardinality(held)
    BY <1>3, <1>4, FS_Subset
  <2>2. /\ Cardinality(OfKind(entries, "persistent")) \in Nat
        /\ Cardinality(held) \in Nat /\ Cardinality(Actors) \in Nat
    BY <1>3, <2>1, FS_CardinalityType, TokenAssumption
  <2> QED BY <1>3, <2>1, <2>2
<1>7. /\ Cardinality(OfKind(entries, "temporary")) \in Nat
      /\ MaxActions \in Nat
      /\ Cardinality(OfKind(entries, "temporary")) <= MaxActions
  <2>1. /\ IsFiniteSet(OfKind(entries, "temporary"))
        /\ Cardinality(OfKind(entries, "temporary")) <= Cardinality(h.nonces)
    BY <1>4, FS_Subset
  <2>2. /\ Cardinality(OfKind(entries, "temporary")) \in Nat
        /\ Cardinality(h.nonces) \in Nat
    BY <2>1, FS_CardinalityType
  <2> QED BY <2>1, <2>2, TargetAssumption
<1>8. Total(Counts(Capture(Entries(h))))
        = Cardinality(OfKind(entries, "instance"))
          + Cardinality(OfKind(entries, "persistent"))
          + Cardinality(OfKind(entries, "temporary"))
  BY DEF Total, Counts, StoreKinds, entries
<1>9. Total(Counts(Capture(Entries(h)))) <= max
  BY <1>5, <1>6, <1>7, <1>8
<1>10. i.store \notin StoreKinds /\ i.max = max
  BY DEF StoreKinds
<1> QED BY <1>9, <1>10 DEF GrowthHolds

\* What the constructor leaves is what the target starts its model with.
LEMMA TokenBegins ==
  ASSUME NEW h, h.ledger = Deployed
  PROVE  /\ TokenModel \in [Actors -> Nat]
         /\ DOMAIN h.ledger \subseteq TokenKeys
         /\ Stands(View(h), TokenModel)
<1> DEFINE zeros == [who \in Actors |-> 0]
           deployed == {InstanceKey(name) : name \in {"admin", "total", "fee"}}
                         \cup {BalanceKey(Admin)}
           put(k) == CASE k = InstanceKey("admin") -> Admin
                       [] k = InstanceKey("fee")   -> 0
                       [] OTHER                    -> InitialSupply
<1>1. TokenModel \in [Actors -> Nat] /\ zeros \in [Actors -> Nat]
  BY TokenAssumption DEF TokenModel
<1>2. FoldedSum(TokenModel) = InitialSupply
  <2>1. /\ TokenModel[Admin] = InitialSupply /\ zeros[Admin] = 0 /\ Admin \in Actors
        /\ InitialSupply \in Nat
        /\ \A other \in Actors : other # Admin => TokenModel[other] = zeros[other]
    BY TokenAssumption DEF TokenModel
  <2>2. FoldedSum(zeros) = 0
    BY SumOfZeros, TokenAssumption
  <2> HIDE DEF zeros
  <2>3. /\ FoldedSum(TokenModel) \in Nat
        /\ FoldedSum(TokenModel) + zeros[Admin] = FoldedSum(zeros) + TokenModel[Admin]
    BY <1>1, <2>1, SupplyFollows
  <2> QED BY <2>1, <2>2, <2>3
<1>3. DOMAIN h.ledger = deployed /\ \A k \in deployed : h.ledger[k].val = put(k)
  BY DEF Deployed, Entry
<1>4. deployed \subseteq TokenKeys
  BY TokenAssumption DEF TokenKeys
<1>5. View(h) = [k \in deployed |-> h.ledger[k].val]
  BY <1>3, <1>4, TokenView
<1>6. \A k : Get(View(h), k) = IF k \in deployed THEN put(k) ELSE 0
  <2> HIDE DEF deployed, put
  <2> QED BY <1>3, <1>5 DEF Get
<1>7. \A who \in Actors : Get(View(h), BalanceKey(who)) = TokenModel[who]
  <2>1. ASSUME NEW who \in Actors
        PROVE  Get(View(h), BalanceKey(who)) = TokenModel[who]
    <3>1. BalanceKey(who) \in deployed <=> who = Admin
      BY TokenKeysDiffer
    <3>2. put(BalanceKey(who)) = InitialSupply
      BY TokenKeysDiffer
    <3> QED BY <1>6, <3>1, <3>2 DEF TokenModel
  <2> QED BY <2>1
<1>8. Get(View(h), InstanceKey("total")) = FoldedSum(TokenModel)
  <2>1. InstanceKey("total") \in deployed /\ put(InstanceKey("total")) = InitialSupply
    BY TokenKeysDiffer
  <2> QED BY <1>2, <1>6, <2>1
<1>9. Get(View(h), InstanceKey("admin")) = Admin
  <2>1. InstanceKey("admin") \in deployed /\ put(InstanceKey("admin")) = Admin
    BY TokenKeysDiffer
  <2> QED BY <1>6, <2>1
<1>10. BalancesMatch(View(h), TokenModel)
  BY <1>7, <1>8, MatchIsSum
<1> QED BY <1>1, <1>3, <1>4, <1>9, <1>10 DEF Stands

\* What a call of the token writes and demands, and that it removes nothing.
LEMMA TokenChanges ==
  ASSUME TokenContract, NEW call, NEW view, NEW seq
  PROVE  LET code == Code(call, view, seq)
         IN  /\ DOMAIN code.sets = DOMAIN Sets(call, view) /\ code.dels = {}
             /\ code.demands = Demands(call)
<1>1. Code(call, view, seq).sets =
        [k \in DOMAIN Sets(call, view) |-> Entry(Sets(call, view)[k])]
  BY DEF TokenContract
<1>2. /\ Code(call, view, seq).dels = {}
      /\ Code(call, view, seq).demands = Demands(call)
  BY DEF TokenContract
<1> QED BY <1>1, <1>2

\* The invariants of the target only read, so the guard has nothing to blame.
LEMMA TokenHarmless ==
  ASSUME TokenContract, NEW max, TokenTarget(max), target \in Targets
  PROVE  AllHarmless
<1>1. Invariants = TokenInvariants(max)
  BY DEF TokenTarget, Invariants
<1>2. \A view, seq : LET code == Code([fn |-> "views"], view, seq)
                     IN  DOMAIN code.sets = {} /\ code.dels = {} /\ code.demands = {}
  <2>1. /\ \A view : DOMAIN Sets([fn |-> "views"], view) = {}
        /\ Demands([fn |-> "views"]) = {}
    BY DEF Sets, Demands
  <2> QED BY <2>1, TokenChanges
<1>3. \A n \in 1..Len(Invariants) :
        Invariants[n].kind = "growth" \/ Invariants[n].call = [fn |-> "views"]
  BY <1>1 DEF TokenInvariants
<1> QED BY <1>2, <1>3 DEF AllHarmless, HarmlessInvariant, Harmless

LEMMA TokenFinite ==
  ASSUME TokenContract
  PROVE  FiniteWrites
<1>1. ASSUME NEW call, NEW view
      PROVE  IsFiniteSet(DOMAIN Sets(call, view))
  <2>1. \A x, y : IsFiniteSet({x, y})
    <3>1. ASSUME NEW x, NEW y
          PROVE  IsFiniteSet({x, y})
      <4>1. IsFiniteSet({x}) /\ {x, y} = {x} \cup {y}
        BY FS_Singleton
      <4> QED BY <4>1, FS_AddElement
    <3> QED BY <3>1
  <2>2. CASE call.fn = "mint"
    BY <2>1, <2>2 DEF Sets
  <2>3. CASE call.fn = "transfer"
    BY <2>1, <2>3 DEF Sets, Moved
  <2>4. CASE call.fn = "set_fee_bps"
    BY <2>4, FS_Singleton DEF Sets
  <2>5. CASE call.fn \notin {"mint", "transfer", "set_fee_bps"}
    BY <2>5, FS_EmptySet DEF Sets
  <2> QED BY <2>2, <2>3, <2>4, <2>5
<1>2. \A call, view, seq : IsFiniteSet(DOMAIN Code(call, view, seq).sets)
  BY <1>1, TokenChanges
<1>3. ASSUME NEW call
      PROVE  IsFiniteSet(Demands(call))
  BY FS_Singleton, FS_EmptySet DEF Demands
<1>4. \A call, view, seq : IsFiniteSet(Code(call, view, seq).demands)
  BY <1>3, TokenChanges
<1> QED BY <1>2, <1>4 DEF FiniteWrites

\* Where the action in flight stands in its script, begun when the token
\* matched these balances.
Fresh(balances) ==
  /\ todo = TokenScript(action) /\ outcome = "ok"
  /\ Stands(View(host), balances)

Authorized(balances) ==
  /\ action.act \in {"mint", "transfer"}
  /\ todo = <<CallOp(action)>> /\ outcome = "ok"
  /\ host.auth = GrantFor(action)
  /\ Stands(View(host), balances)

\* Done and accepted, the token at what the model says, or refused what the
\* case is then failed over.
Done ==
  /\ todo = <<>>
  /\ \/ /\ action.act # "set_fee" /\ outcome = "ok"
        /\ model \in [Actors -> Nat] /\ Stands(View(host), model)
     \/ Condemned(action, View(host)) /\ outcome = "violation"

InFlight(balances) ==
  /\ action \in TokenActions
  /\ model = TokenNext(balances, action)
  /\ Fresh(balances) \/ Authorized(balances) \/ Done

\* The step in flight is the action's, and those before it went well.
Journalled ==
  /\ steps[Len(steps)].action = action
  /\ \A n \in 1..(Len(steps) - 1) : Fine(steps[n])

\* Each action left a nonce at most, and one in flight leaves none before it is
\* done.
NoncesOfSteps ==
  /\ \A k \in host.nonces : k.kind = "temporary"
  /\ Len(steps) <= MaxActions
  /\ Cardinality(host.nonces) <= Len(steps)
  /\ (pc = "execute" /\ todo # <<>>) => Cardinality(host.nonces) < Len(steps)

TokenInv ==
  /\ target \in Targets
  /\ DOMAIN host.ledger \subseteq TokenKeys
  /\ NoncesOfSteps
  /\ pc = "execute" => /\ Journalled
                       /\ \E balances \in [Actors -> Nat] : InFlight(balances)
  /\ pc \notin {"execute", "failed"} =>
       model \in [Actors -> Nat] /\ Stands(View(host), model)
  /\ PlantedBugIsFound

LEMMA TokenInit ==
  ASSUME NEW max, TokenTarget(max), Init
  PROVE  TokenInv
<1>1. target \in Targets /\ model = TokenModel /\ steps = <<>> /\ pc = "check"
  BY DEF Init, TokenTarget
<1>2. host.ledger = Deployed /\ host.nonces = {}
  BY DEF Init, TokenTarget
<1>3. /\ model \in [Actors -> Nat] /\ DOMAIN host.ledger \subseteq TokenKeys
      /\ Stands(View(host), model)
  BY <1>1, <1>2, TokenBegins
<1>4. PlantedBugIsFound
  BY <1>1, <1>3 DEF PlantedBugIsFound, Stands
<1>5. NoncesOfSteps
  <2>1. Len(<<>>) = 0 /\ Cardinality({}) = 0
    BY FS_EmptySet
  <2> QED BY <1>1, <1>2, <2>1, TargetAssumption DEF NoncesOfSteps
<1> QED BY <1>1, <1>3, <1>4, <1>5 DEF TokenInv

\* The invariants hold, and reading leaves what they read.
LEMMA TokenChecked ==
  ASSUME TokenContract, NEW max, TokenTarget(max), Sane, Accounted, Guarded,
         TokenInv, CheckInvariant
  PROVE  TokenInv'
<1> DEFINE i == Invariants[inv + 1]
           views == [fn |-> "views"]
           read  == [kind |-> "fn", initial |-> TRUE, call |-> views]
           bound == [kind |-> "growth", initial |-> TRUE, store |-> "total", max |-> max]
<1>1. /\ Invariants = <<read, bound>> /\ max \in Nat
      /\ max >= Cardinality(Actors) + 3 + MaxActions
  BY DEF TokenTarget, TokenInv, Invariants, TokenInvariants
<1>2. inv \in Nat /\ inv < Len(Invariants) /\ pc = "invariant"
  BY DEF Guarded, CheckInvariant
<1>3. i.initial /\ ((inv = 0 /\ i = read) \/ (inv = 1 /\ i = bound))
  <2>1. inv \in {0, 1}
    BY <1>1, <1>2
  <2>2. <<read, bound>>[1] = read /\ <<read, bound>>[2] = bound
    OBVIOUS
  <2>3. read.initial /\ bound.initial
    OBVIOUS
  <2> HIDE DEF read, bound
  <2> QED BY <1>1, <2>1, <2>2, <2>3
<1>4. /\ Stands(View(host), model) /\ DOMAIN host.ledger \subseteq TokenKeys
      /\ IsHost(host)
  BY <1>2 DEF TokenInv, Sane
<1>5. LET looked == Looked(i, host)
      IN  /\ looked.ends = "ok"
          /\ DOMAIN looked.host.ledger \subseteq TokenKeys
          /\ looked.host.nonces = host.nonces
          /\ Stands(View(looked.host), model)
          /\ Passes(i, cells[inv + 1], looked.host)
  <2>1. CASE i = read
    <3>1. i.kind = "fn" /\ i.call = views
      BY <2>1
    <3>2. Looked(i, host) = Invoke(host, views)
      BY <3>1 DEF Looked
    <3>3. /\ ~Panics(views, View(host)) /\ Demands(views) = {}
          /\ DOMAIN Sets(views, View(host)) = {}
      BY DEF Panics, Demands, Sets
    <3>4. LET ran == Invoke(host, views)
          IN  /\ ran.ends = "ok" /\ DOMAIN ran.host.ledger \subseteq TokenKeys
              /\ View(ran.host) = Left(views, View(host))
              /\ ran.host.nonces = host.nonces
      <4> HIDE DEF views
      <4>1. /\ \A who \in Demands(views) : Grants(host.auth, who, views)
            /\ {NonceKey(who, Cardinality(host.nonces)) : who \in Demands(views)} = {}
            /\ DOMAIN Sets(views, View(host)) \subseteq TokenKeys
        BY <3>3
      <4>2. /\ Invoke(host, views).ends = "ok"
            /\ DOMAIN Invoke(host, views).host.ledger \subseteq TokenKeys
            /\ View(Invoke(host, views).host) = Left(views, View(host))
            /\ Invoke(host, views).host.nonces = host.nonces \cup
                 {NonceKey(who, Cardinality(host.nonces)) : who \in Demands(views)}
        BY <1>4, <3>3, <4>1, TokenInvoke
      <4> QED BY <4>1, <4>2
    <3>5. \A k : Get(Left(views, View(host)), k) = Get(View(host), k)
      BY <3>3, GetLeft
    <3>6. Stands(Left(views, View(host)), model)
      BY <1>4, <3>5, MatchIsSum DEF Stands
    <3> HIDE DEF i, views
    <3>7. Holds(i, View(Invoke(host, views).host), model)
      BY <3>1, <3>4, <3>6 DEF TokenTarget, Stands, views
    <3> QED BY <3>1, <3>2, <3>4, <3>6, <3>7 DEF Passes
  <2>2. CASE i = bound
    <3>1. i.kind = "growth"
      BY <2>2
    <3>2. Looked(i, host) = [ends |-> "ok", host |-> host]
      BY <3>1 DEF Looked
    <3>3. GrowthHolds(i, host)
      <4>1. /\ IsFiniteSet(host.nonces) /\ Cardinality(host.nonces) <= MaxActions
            /\ \A k \in host.nonces : k.kind = "temporary"
        <5>1. IsFiniteSet(host.nonces) /\ Len(steps) \in Nat
          BY DEF Accounted, FiniteLedger, StepsAccounted, IsSequence
        <5>2. Cardinality(host.nonces) \in Nat
          BY <5>1, FS_CardinalityType
        <5> QED BY <5>1, <5>2, TargetAssumption DEF TokenInv, NoncesOfSteps
      <4> QED BY <1>1, <1>4, <2>2, <4>1, TokenBounded
    <3> HIDE DEF i
    <3> QED BY <1>4, <3>1, <3>2, <3>3 DEF Passes
  <2> QED BY <1>3, <2>1, <2>2
<1> HIDE DEF i
<1>6. /\ host' = Looked(i, host).host /\ pc' = pc
      /\ UNCHANGED <<target, model, action, steps, todo>>
  BY <1>3, <1>5 DEF CheckInvariant, i, inputs
<1>7. PlantedBugIsFound'
  <2>1. Stands(View(host'), model')
    BY <1>5, <1>6
  <2>2. \A n \in 1..Len(steps) : Fine(steps[n])
    BY <1>2 DEF TokenInv, PlantedBugIsFound
  <2> QED BY <1>2, <1>6, <2>1, <2>2 DEF PlantedBugIsFound, Fine, Stands
<1>8. NoncesOfSteps'
  BY <1>2, <1>5, <1>6 DEF TokenInv, NoncesOfSteps
<1>9. model \in [Actors -> Nat]
  BY <1>2 DEF TokenInv
<1> QED BY <1>2, <1>5, <1>6, <1>7, <1>8, <1>9 DEF TokenInv

\* A passed check, or none, leaves the case to go on as it was.
LEMMA TokenGoesOn ==
  ASSUME TokenInv, pc \notin {"execute", "failed"}, pc' \notin {"execute", "failed"},
         UNCHANGED <<target, host, model, action, steps>>
  PROVE  TokenInv'
BY DEF TokenInv, PlantedBugIsFound, Fine, NoncesOfSteps

LEMMA TokenGuarded ==
  ASSUME TokenContract, NEW max, TokenTarget(max), Guarded, TokenInv, CheckReadOnly
  PROVE  TokenInv'
<1> DEFINE seen == CaptureScoped(Entries(host), target.tracked)
<1>1. pc = "invariant" /\ UNCHANGED <<target, host, model, action, steps>>
  BY DEF CheckReadOnly, inputs
<1>2. OnlyReclaimed(before, seen)
  BY <1>1, TokenHarmless DEF Guarded
<1>3. ReadOnly(Diff(before, seen))
  BY <1>2, ReclaimedIsReadOnly
<1>4. pc' = "next"
  BY <1>3 DEF CheckReadOnly
<1> QED BY <1>1, <1>4, TokenGoesOn

LEMMA TokenBeginsStep ==
  ASSUME NEW max, TokenTarget(max), Sane, Accounted, TokenInv, BeginStep
  PROVE  TokenInv'
<1>1. /\ pc = "next" /\ pc' = "execute" /\ target' = target /\ outcome' = "ok"
      /\ model \in [Actors -> Nat] /\ Stands(View(host), model)
      /\ \A n \in 1..Len(steps) : Fine(steps[n])
      /\ DOMAIN host.ledger \subseteq TokenKeys /\ IsHost(host)
  BY DEF BeginStep, TokenInv, PlantedBugIsFound, Sane, inputs
<1>2. action' \in TokenActions
  BY DEF BeginStep, TokenTarget
<1>3. model' = TokenNext(model, action') /\ todo' = TokenScript(action')
  BY <1>1, <1>2 DEF BeginStep, TokenTarget
<1>5. /\ host'.ledger = host.ledger /\ host'.seq = host.seq
      /\ host'.nonces = host.nonces
  <2>1. host' = SetAuths(host) \/ host' = MockAllAuths(host)
    BY DEF BeginStep, ApplyAuthPolicy
  <2> QED BY <1>1, <2>1, InstallKeeps DEF SameClock, SameStorage
<1>6. View(host') = View(host)
  BY <1>5, ViewOfLedger
<1>7. Journalled' /\ NoncesOfSteps'
  <2> DEFINE begun == [index |-> Len(steps), action |-> action',
                       outcome |-> "pending", calls |-> <<>>]
  <2>1. begun.action = action'
    OBVIOUS
  <2>2. steps' = Append(steps, begun)
    BY DEF BeginStep
  <2>3. PICK S : steps \in Seq(S)
    BY DEF Accounted, StepsAccounted, IsSequence
  <2> HIDE DEF begun
  <2>4. /\ Len(steps') = Len(steps) + 1 /\ Len(steps) \in Nat
        /\ steps'[Len(steps')] = begun
        /\ \A n \in 1..Len(steps) : steps'[n] = steps[n]
    BY <2>2, <2>3
  <2>5. Journalled'
    BY <1>1, <2>1, <2>4 DEF Journalled, Fine
  <2>6. Cardinality(host.nonces) \in Nat
    BY FS_CardinalityType DEF Accounted, FiniteLedger
  <2>7. Len(steps) < MaxActions
    BY DEF BeginStep
  <2>8. NoncesOfSteps'
    BY <1>5, <2>4, <2>6, <2>7, TargetAssumption DEF TokenInv, NoncesOfSteps
  <2> QED BY <2>5, <2>8
<1>8. PICK b \in [Actors -> Nat] : b = model
  BY <1>1
<1>9. InFlight(b)'
  <2>1. Fresh(b)'
    BY <1>1, <1>3, <1>6, <1>8 DEF Fresh
  <2> QED BY <1>2, <1>3, <1>8, <2>1 DEF InFlight
<1>10. PlantedBugIsFound'
  BY <1>1 DEF PlantedBugIsFound
<1> QED BY <1>1, <1>5, <1>7, <1>9, <1>10 DEF TokenInv

\* The operation an action in flight comes to, wherever it stands.
LEMMA TokenComesTo ==
  ASSUME NEW balances, InFlight(balances), todo # <<>>
  PROVE  /\ outcome = "ok" /\ Stands(View(host), balances)
         /\ \/ /\ action.act \in {"mint", "transfer"}
               /\ Head(todo) = [op |-> "authorize", who |-> Signer(action),
                                call |-> CallOf(action)]
               /\ Tail(todo) = <<CallOp(action)>>
            \/ /\ action.act \in {"mint", "transfer"}
               /\ Head(todo) = CallOp(action) /\ Tail(todo) = <<>>
               /\ host.auth = GrantFor(action)
            \/ /\ action.act = "advance_ledger"
               /\ Head(todo) = [op |-> "advance", ledgers |-> action.ledgers]
               /\ Tail(todo) = <<>>
            \/ /\ action.act = "set_fee"
               /\ Head(todo) = [op |-> "call_without_auth", call |-> CallOf(action),
                                then |-> "expect_rejected"]
               /\ Tail(todo) = <<>>
<1>1. \A x, y : /\ Head(<<x>>) = x /\ Tail(<<x>>) = <<>>
                /\ Head(<<x, y>>) = x /\ Tail(<<x, y>>) = <<y>>
  OBVIOUS
<1>2. Fresh(balances) \/ Authorized(balances)
  BY DEF InFlight, Done
<1>3. CASE Fresh(balances)
  <2>1. action.act \in {"mint", "transfer", "advance_ledger", "set_fee"}
    BY TokenActionShape DEF InFlight
  <2>2. todo = TokenScript(action)
    BY <1>3 DEF Fresh
  <2>3. outcome = "ok" /\ Stands(View(host), balances)
    BY <1>3 DEF Fresh
  <2> DEFINE grant == [op |-> "authorize", who |-> Signer(action),
                       call |-> CallOf(action)]
             jump  == [op |-> "advance", ledgers |-> action.ledgers]
             fee   == [op |-> "call_without_auth", call |-> CallOf(action),
                       then |-> "expect_rejected"]
  <2>7. /\ action.act \in {"mint", "transfer"} => todo = <<grant, CallOp(action)>>
        /\ action.act = "advance_ledger" => todo = <<jump>>
        /\ action.act = "set_fee" => todo = <<fee>>
    BY <2>2, TokenScripts
  <2> HIDE DEF grant, jump, fee
  <2>4. CASE action.act \in {"mint", "transfer"}
    <3>1. Head(todo) = grant /\ Tail(todo) = <<CallOp(action)>>
      BY <1>1, <2>4, <2>7
    <3> QED BY <2>3, <2>4, <3>1 DEF grant
  <2>5. CASE action.act = "advance_ledger"
    <3>1. Head(todo) = jump /\ Tail(todo) = <<>>
      BY <1>1, <2>5, <2>7
    <3> QED BY <2>3, <2>5, <3>1 DEF jump
  <2>6. CASE action.act = "set_fee"
    <3>1. Head(todo) = fee /\ Tail(todo) = <<>>
      BY <1>1, <2>6, <2>7
    <3> QED BY <2>3, <2>6, <3>1 DEF fee
  <2> QED BY <2>1, <2>4, <2>5, <2>6
<1>4. CASE Authorized(balances)
  BY <1>1, <1>4 DEF Authorized
<1> QED BY <1>2, <1>3, <1>4

\* A record pushed leaves the journal as it was otherwise.
LEMMA PushJournalled ==
  ASSUME Accounted, pc = "execute", Journalled, NEW r, Push(r), action' = action
  PROVE  Journalled' /\ Len(steps') = Len(steps)
<1> DEFINE last == steps[Len(steps)]
           next == [last EXCEPT !.calls = Append(@, r)]
<1>1. /\ IsSequence(steps) /\ steps # <<>> /\ IsStep(last)
  BY DEF Accounted, StepsAccounted
<1>2. steps' = [steps EXCEPT ![Len(steps)] = next]
  BY DEF Push
<1>3. next.action = last.action
  BY <1>1 DEF IsStep
<1> HIDE DEF next
<1>4. PICK S : steps \in Seq(S)
  BY <1>1 DEF IsSequence
<1>5. /\ Len(steps') = Len(steps) /\ steps'[Len(steps)] = next
      /\ \A n \in 1..(Len(steps) - 1) : steps'[n] = steps[n]
  BY <1>1, <1>2, <1>4
<1> QED BY <1>3, <1>5 DEF Journalled, Fine

\* An operation leaves the case under way when it leaves the action standing
\* somewhere in its script, with a nonce at most when it is done.
LEMMA TokenUnderWay ==
  ASSUME Accounted, TokenInv, NEW balances \in [Actors -> Nat], InFlight(balances)',
         pc = "execute", pc' = "execute", UNCHANGED <<target, model, action>>,
         todo # <<>>, DOMAIN host'.ledger \subseteq TokenKeys,
         \/ host'.nonces = host.nonces
         \/ \E k : /\ host'.nonces = host.nonces \cup {k}
                  /\ k.kind = "temporary" /\ todo' = <<>>,
         steps' = steps \/ \E r : Push(r)
  PROVE  TokenInv'
<1>1. Journalled' /\ Len(steps') = Len(steps)
  BY PushJournalled DEF TokenInv, Journalled, Fine
<1>2. PlantedBugIsFound'
  BY DEF PlantedBugIsFound
<1>3. NoncesOfSteps'
  <2>1. /\ \A k \in host.nonces : k.kind = "temporary"
        /\ Len(steps) <= MaxActions
        /\ Cardinality(host.nonces) < Len(steps)
    BY DEF TokenInv, NoncesOfSteps
  <2>2. /\ IsFiniteSet(host.nonces) /\ Len(steps) \in Nat
        /\ Cardinality(host.nonces) \in Nat
    BY FS_CardinalityType DEF Accounted, FiniteLedger, StepsAccounted, IsSequence
  <2>3. CASE host'.nonces = host.nonces
    BY <1>1, <2>1, <2>2, <2>3 DEF NoncesOfSteps
  <2>4. ASSUME NEW k, host'.nonces = host.nonces \cup {k},
               k.kind = "temporary", todo' = <<>>
        PROVE  NoncesOfSteps'
    <3>1. Cardinality(host'.nonces) \in
            {Cardinality(host.nonces), Cardinality(host.nonces) + 1}
      BY <2>2, <2>4, FS_AddElement
    <3>2. Cardinality(host'.nonces) <= Len(steps)
      BY <2>1, <2>2, <3>1
    <3> QED BY <1>1, <2>1, <2>4, <3>2 DEF NoncesOfSteps
  <2> QED BY <2>3, <2>4
<1> QED BY <1>1, <1>2, <1>3 DEF TokenInv

LEMMA TokenAuthorizes ==
  ASSUME Sane, Accounted, TokenInv, DoAuthorize
  PROVE  TokenInv'
<1>1. /\ pc = "execute" /\ todo # <<>> /\ Head(todo).op = "authorize"
      /\ todo' = Tail(todo) /\ host' = Authorize(host, Head(todo).who, Head(todo).call)
      /\ UNCHANGED <<target, model, action, steps, outcome, pc>>
  BY DEF DoAuthorize, Operation, inputs
<1>2. PICK b \in [Actors -> Nat] : InFlight(b)
  BY <1>1 DEF TokenInv
<1>3. /\ outcome = "ok" /\ Stands(View(host), b)
      /\ action.act \in {"mint", "transfer"}
      /\ Head(todo).who = Signer(action) /\ Head(todo).call = CallOf(action)
      /\ Tail(todo) = <<CallOp(action)>>
  BY <1>1, <1>2, TokenComesTo DEF CallOp
<1>4. /\ host'.ledger = host.ledger /\ host'.seq = host.seq
      /\ host'.nonces = host.nonces /\ host'.auth = GrantFor(action)
  <2> DEFINE grants == {<<Signer(action), CallOf(action)>>}
  <2>1. host' = MockAuths(host, grants)
    BY <1>1, <1>3 DEF Authorize
  <2>2. IsHost(host)
    BY DEF Sane
  <2> HIDE DEF grants
  <2>3. /\ host'.ledger = host.ledger /\ host'.seq = host.seq
        /\ host'.nonces = host.nonces /\ host'.auth = Enforcing(grants)
    BY <2>1, <2>2, InstallKeeps DEF SameClock, SameStorage
  <2> QED BY <2>3 DEF grants, GrantFor
<1>5. View(host') = View(host)
  BY <1>4, ViewOfLedger
<1>6. Authorized(b)'
  BY <1>1, <1>3, <1>4, <1>5 DEF Authorized
<1>7. InFlight(b)'
  BY <1>1, <1>2, <1>6 DEF InFlight
<1>8. DOMAIN host'.ledger \subseteq TokenKeys
  BY <1>4 DEF TokenInv
<1> QED BY <1>1, <1>4, <1>7, <1>8, TokenUnderWay

LEMMA TokenAdvances ==
  ASSUME Sane, Accounted, TokenInv, DoAdvance
  PROVE  TokenInv'
<1>1. /\ pc = "execute" /\ todo # <<>> /\ Head(todo).op = "advance"
      /\ todo' = Tail(todo) /\ host' = Advance(host, Head(todo).ledgers)
      /\ UNCHANGED <<target, model, action, steps, outcome, pc>>
  BY DEF DoAdvance, Operation, inputs
<1>2. PICK b \in [Actors -> Nat] : InFlight(b)
  BY <1>1 DEF TokenInv
<1>3. /\ outcome = "ok" /\ Stands(View(host), b)
      /\ action.act = "advance_ledger" /\ Tail(todo) = <<>>
  BY <1>1, <1>2, TokenComesTo DEF CallOp
<1>4. host'.ledger = host.ledger /\ host'.nonces = host.nonces
  BY <1>1 DEF Advance, Sane, IsHost
<1>5. DOMAIN host.ledger \subseteq TokenKeys
  BY DEF TokenInv
<1>6. View(host') = View(host)
  BY <1>4, <1>5, TokenView
<1>7. model = b
  BY <1>2, <1>3, TokenInStep DEF InFlight
<1>8. Done'
  BY <1>1, <1>3, <1>6, <1>7 DEF Done
<1>9. InFlight(b)'
  BY <1>1, <1>2, <1>8 DEF InFlight
<1> QED BY <1>1, <1>4, <1>5, <1>9, TokenUnderWay

\* A measured call leaves the action done, whether it goes through or not.
LEMMA TokenCalls ==
  ASSUME TokenContract, Sane, Accounted, TokenInv, pc = "execute",
         NEW b \in [Actors -> Nat], InFlight(b), action.act # "advance_ledger",
         Stands(View(host), b), UNCHANGED <<target, model, action>>,
         todo # <<>>, todo' = <<>>,
         NEW h, IsHost(h), SameStorage(h, host), h.seq = host.seq,
         \A who \in Demands(CallOf(action)) : Grants(h.auth, who, CallOf(action)),
         NEW m, m = Call(h, CallOf(action), config, target.tracked),
         NEW result, Measured(m, result),
         m.result = "ok" => result = IF action.act = "set_fee" THEN "violation" ELSE "ok",
         m.result # "ok" /\ action.act # "set_fee" => result = "violation"
  PROVE  TokenInv'
<1> DEFINE call == CallOf(action)
           ran  == Invoke(h, call)
<1>1. View(h) = View(host) /\ DOMAIN h.ledger \subseteq TokenKeys
  BY ViewOfLedger DEF TokenInv, SameStorage
<1>2. action \in TokenActions /\ model = TokenNext(b, action)
  BY DEF InFlight
<1>3. /\ Panics(call, View(h)) <=> Overdraws(action, View(host))
      /\ ~Overdraws(action, View(host)) =>
           model \in [Actors -> Nat] /\ Stands(Left(call, View(h)), model)
  BY <1>1, <1>2, TokenInStep
<1>4. DOMAIN Sets(call, View(h)) \subseteq TokenKeys
  BY <1>2, TokenWrites
<1>5. /\ m.host = ran.host /\ ~HostPanics(m)
      /\ m.result = "ok" <=> ran.ends = "ok"
  BY TokenMeasured
<1>6. result \in {"ok", "violation"} =>
        /\ host' = ran.host /\ Push(m.record) /\ outcome' = result
        /\ pc' = "execute"
  BY <1>5 DEF Measured
<1>7. action.act # "set_fee" =>
        (Condemned(action, View(host)) <=> Overdraws(action, View(host)))
  BY DEF Condemned
<1>8. CASE Overdraws(action, View(host))
  <2>1. ran.ends # "ok" /\ SameStorage(ran.host, h) /\ action.act = "transfer"
    BY <1>3, <1>8, TokenRefuses DEF Overdraws
  <2>2. result = "violation"
    BY <1>5, <2>1
  <2>3. SameClock(ran.host, h)
    BY InvokeKeeps
  <2> HIDE DEF ran, call
  <2>4. View(host') = View(host) /\ host'.ledger = host.ledger
        /\ host'.nonces = host.nonces
    BY <1>1, <1>6, <2>1, <2>2, <2>3, ViewOfLedger DEF SameStorage, SameClock
  <2>5. Condemned(action', View(host'))
    BY <1>8, <2>4 DEF Condemned
  <2>6. Done'
    BY <1>6, <2>2, <2>5 DEF Done
  <2>7. InFlight(b)'
    BY <1>2, <2>6 DEF InFlight
  <2>8. DOMAIN host'.ledger \subseteq TokenKeys
    BY <2>4 DEF TokenInv
  <2> QED BY <1>6, <2>2, <2>4, <2>7, <2>8, TokenUnderWay
<1>9. CASE ~Overdraws(action, View(host))
  <2>1. /\ ran.ends = "ok" /\ DOMAIN ran.host.ledger \subseteq TokenKeys
        /\ View(ran.host) = Left(call, View(h))
        /\ ran.host.nonces = h.nonces \cup
             {NonceKey(who, Cardinality(h.nonces)) : who \in Demands(call)}
    BY <1>1, <1>3, <1>4, <1>9, TokenInvoke
  <2>2. result = IF action.act = "set_fee" THEN "violation" ELSE "ok"
    BY <1>5, <2>1
  <2>3. \/ ran.host.nonces = host.nonces
        \/ \E k : /\ ran.host.nonces = host.nonces \cup {k}
                 /\ k.kind = "temporary"
    <3> DEFINE k == NonceKey(Signer(action), Cardinality(h.nonces))
    <3>1. Demands(call) = {Signer(action)} \/ Demands(call) = {}
      BY <1>2, TokenActionShape, TokenDemands
    <3>2. k.kind = "temporary"
      BY DEF NonceKey
    <3>3. CASE Demands(call) = {}
      BY <2>1, <3>3 DEF SameStorage
    <3>4. CASE Demands(call) = {Signer(action)}
      <4>1. {NonceKey(who, Cardinality(h.nonces)) : who \in Demands(call)} = {k}
        BY <3>4
      <4> HIDE DEF k
      <4> QED BY <2>1, <3>2, <4>1 DEF SameStorage
    <3> QED BY <3>1, <3>3, <3>4
  <2> HIDE DEF ran, call
  <2>4. /\ host' = ran.host /\ Push(m.record) /\ outcome' = result
        /\ pc' = "execute"
    BY <1>6, <2>2
  <2>5. Done'
    BY <1>3, <1>9, <2>1, <2>2, <2>4 DEF Done, Condemned
  <2>6. InFlight(b)'
    BY <1>2, <2>5 DEF InFlight
  <2> QED BY <2>1, <2>3, <2>4, <2>6, TokenUnderWay
<1> QED BY <1>8, <1>9

LEMMA TokenDoesCall ==
  ASSUME TokenContract, Sane, Accounted, TokenInv, DoCall
  PROVE  TokenInv'
<1> DEFINE op == Head(todo)
           m  == Call(host, op.call, config, target.tracked)
           result == Convert(op.then, m.result)
<1>1. /\ pc = "execute" /\ todo # <<>> /\ op.op = "call" /\ todo' = Tail(todo)
      /\ UNCHANGED <<target, model, action>> /\ Measured(m, result)
  BY DEF DoCall, Operation, inputs
<1>2. PICK b \in [Actors -> Nat] : InFlight(b)
  BY <1>1 DEF TokenInv
<1>3. /\ Stands(View(host), b) /\ action.act \in {"mint", "transfer"}
      /\ op = CallOp(action) /\ Tail(todo) = <<>>
      /\ host.auth = GrantFor(action)
  <2>1. Head(todo).op = "call"
    BY <1>1
  <2>2. op = Head(todo)
    OBVIOUS
  <2> HIDE DEF op, m, result
  <2>3. /\ Stands(View(host), b) /\ action.act \in {"mint", "transfer"}
        /\ Head(todo) = CallOp(action) /\ Tail(todo) = <<>>
        /\ host.auth = GrantFor(action)
    BY <1>1, <1>2, <2>1, TokenComesTo
  <2> QED BY <2>2, <2>3
<1>4. op.call = CallOf(action) /\ op.then = "expect_ok"
  BY <1>3 DEF CallOp
<1>5. \A who \in Demands(CallOf(action)) : Grants(host.auth, who, CallOf(action))
  <2>1. Demands(CallOf(action)) = {Signer(action)}
    BY <1>2, <1>3, TokenDemands DEF InFlight
  <2> QED BY <1>3, <2>1 DEF Grants, Enforcing, GrantFor
<1>6. result = IF m.result = "ok" THEN "ok" ELSE "violation"
  BY <1>4 DEF Convert, ExpectOk
<1>7. m = Call(host, CallOf(action), config, target.tracked)
  BY <1>4
<1>8. /\ action.act \notin {"advance_ledger", "set_fee"} /\ todo' = <<>>
      /\ IsHost(host) /\ SameStorage(host, host)
  BY <1>1, <1>3 DEF Sane, SameStorage
<1> HIDE DEF op, m, result
<1> QED BY <1>1, <1>2, <1>3, <1>5, <1>6, <1>7, <1>8, TokenCalls

LEMMA TokenDoesCallWithoutAuth ==
  ASSUME TokenContract, Sane, Accounted, TokenInv, DoCallWithoutAuth
  PROVE  TokenInv'
<1> DEFINE op == Head(todo)
           m  == CallWithoutAuth(host, op.call, config, target.tracked)
           result == Convert(op.then, m.result)
           h == SetAuths(host)
<1>1. /\ pc = "execute" /\ todo # <<>> /\ op.op = "call_without_auth"
      /\ todo' = Tail(todo)
      /\ UNCHANGED <<target, model, action>> /\ Measured(m, result)
  BY DEF DoCallWithoutAuth, Operation, inputs
<1>2. PICK b \in [Actors -> Nat] : InFlight(b)
  BY <1>1 DEF TokenInv
<1>3. /\ Stands(View(host), b) /\ action.act = "set_fee"
      /\ op.call = CallOf(action) /\ op.then = "expect_rejected" /\ Tail(todo) = <<>>
  <2> HIDE DEF op
  <2>1. op = Head(todo)
    BY DEF op
  <2> QED BY <1>1, <1>2, <2>1, TokenComesTo DEF CallOp
<1>4. \A who \in Demands(CallOf(action)) : Grants(h.auth, who, CallOf(action))
  BY <1>2, <1>3, TokenDemands DEF InFlight
<1>5. m.result = "ok" => result = "violation"
  BY <1>3 DEF Convert, ExpectRejected
<1>6. m = Call(h, CallOf(action), config, target.tracked)
  BY <1>3 DEF CallWithoutAuth, Call
<1>7. IsHost(h) /\ SameStorage(h, host) /\ h.seq = host.seq
  BY InstallKeeps DEF Sane, SameClock
<1>8. action.act = "set_fee" /\ todo' = <<>>
  BY <1>1, <1>3
<1> HIDE DEF op, m, result, h
<1> QED BY <1>1, <1>2, <1>3, <1>4, <1>5, <1>6, <1>7, <1>8, TokenCalls

\* No script asks for another operation.
LEMMA TokenOperations ==
  ASSUME TokenInv, NEW op, Operation(op)
  PROVE  op \in {"authorize", "call", "call_without_auth", "advance"}
<1>1. pc = "execute" /\ todo # <<>> /\ Head(todo).op = op
  BY DEF Operation
<1>2. PICK b \in [Actors -> Nat] : InFlight(b)
  BY <1>1 DEF TokenInv
<1> QED BY <1>1, <1>2, TokenComesTo DEF CallOp

\* The outcome decides whether the case goes on.
LEMMA TokenFinishes ==
  ASSUME Accounted, TokenInv, FinishStep
  PROVE  TokenInv'
<1>1. /\ pc = "execute" /\ (todo = <<>> \/ outcome # "ok")
      /\ UNCHANGED <<target, host, model, action>>
      /\ steps' = [steps EXCEPT ![Len(steps)].outcome = outcome]
  BY DEF FinishStep, inputs
<1>2. PICK b \in [Actors -> Nat] : InFlight(b)
  BY <1>1 DEF TokenInv
<1>3. Done
  <2>1. ~Authorized(b)
    <3>1. <<CallOp(action)>> # <<>>
      OBVIOUS
    <3> QED BY <1>1, <3>1 DEF Authorized
  <2>2. ~Fresh(b)
    <3>1. action.act \in {"mint", "transfer", "advance_ledger", "set_fee"}
      BY <1>2, TokenActionShape DEF InFlight
    <3>2. \A x, y : <<x>> # <<>> /\ <<x, y>> # <<>>
      OBVIOUS
    <3>3. TokenScript(action) # <<>>
      BY <3>1, <3>2, TokenScripts
    <3> QED BY <1>1, <3>3 DEF Fresh
  <2> QED BY <1>2, <2>1, <2>2 DEF InFlight
<1>4. Journalled /\ NoncesOfSteps
  BY <1>1 DEF TokenInv
<1>7. NoncesOfSteps' /\ Len(steps') = Len(steps)
      /\ \A n \in 1..(Len(steps) - 1) : steps'[n] = steps[n]
  <2>1. PICK S : steps \in Seq(S)
    BY DEF Accounted, StepsAccounted, IsSequence
  <2>2. Len(steps') = Len(steps) /\ pc' # "execute"
        /\ \A n \in 1..(Len(steps) - 1) : steps'[n] = steps[n]
    BY <1>1, <2>1 DEF FinishStep
  <2> QED BY <1>1, <1>4, <2>2 DEF NoncesOfSteps
<1>5. CASE outcome = "violation"
  <2>1. Condemned(action, View(host))
    BY <1>3, <1>5 DEF Done
  <2>2. pc' = "failed" /\ failure'.kind = "unexpected-error"
    BY <1>5 DEF FinishStep, Fail
  <2>3. PlantedBugIsFound'
    BY <1>1, <1>4, <1>7, <2>1, <2>2 DEF PlantedBugIsFound, Journalled, Fine
  <2> QED BY <1>1, <1>7, <2>2, <2>3 DEF TokenInv
<1>6. CASE outcome # "violation"
  <2>1. /\ outcome = "ok" /\ action.act # "set_fee"
        /\ model \in [Actors -> Nat] /\ Stands(View(host), model)
    BY <1>3, <1>6 DEF Done
  <2>2. pc' = "check"
    BY <2>1 DEF FinishStep
  <2> DEFINE last == steps[Len(steps)]
             next == [last EXCEPT !.outcome = outcome]
  <2>3. IsSequence(steps) /\ steps # <<>> /\ IsStep(last)
    BY <1>1 DEF Accounted, StepsAccounted
  <2>4. next.action = action /\ next.outcome = "ok"
    BY <1>4, <2>1, <2>3 DEF IsStep, Journalled
  <2>5. steps' = [steps EXCEPT ![Len(steps)] = next]
    BY <1>1
  <2> HIDE DEF next
  <2>6. PICK S : steps \in Seq(S)
    BY <2>3 DEF IsSequence
  <2>7. Len(steps) \in Nat /\ steps'[Len(steps)] = next
    BY <2>3, <2>5, <2>6
  <2>8. \A n \in 1..Len(steps') : Fine(steps'[n])
    BY <1>4, <1>7, <2>1, <2>4, <2>7 DEF Journalled, Fine
  <2> QED BY <1>1, <1>7, <2>1, <2>2, <2>8 DEF TokenInv, PlantedBugIsFound, Fine, Stands
<1> QED BY <1>5, <1>6

LEMMA StepToken ==
  ASSUME TokenContract, NEW max, TokenTarget(max), Sane, Accounted, Guarded,
         TokenInv, [Next]_vars
  PROVE  TokenInv'
<1> USE DEF inputs, checker
<1>1. CASE SkipCheck \/ StartCheck \/ ReturnCase
  <2>1. /\ pc \notin {"execute", "failed"} /\ pc' \notin {"execute", "failed"}
        /\ UNCHANGED <<target, host, model, action, steps>>
    BY <1>1 DEF SkipCheck, StartCheck, ReturnCase
  <2> QED BY <2>1, TokenGoesOn
<1>2. CASE CheckInvariant
  BY <1>2, TokenChecked
<1>3. CASE CheckReadOnly
  BY <1>3, TokenGuarded
<1>4. CASE BeginStep
  BY <1>4, TokenBeginsStep
<1>5. CASE DoCall
  BY <1>5, TokenDoesCall
<1>6. CASE DoCallWithoutAuth
  BY <1>6, TokenDoesCallWithoutAuth
<1>7. CASE DoAuthorize
  BY <1>7, TokenAuthorizes
<1>8. CASE DoAdvance
  BY <1>8, TokenAdvances
<1>9. CASE \/ DoCallUnchecked \/ DoCallRequiringAuth \/ DoInstallAuths
           \/ DoCloseLedger \/ DoNote
  BY <1>9, TokenOperations
     DEF DoCallUnchecked, DoCallRequiringAuth, DoInstallAuths, DoCloseLedger, DoNote
<1>10. CASE FinishStep
  BY <1>10, TokenFinishes
<1>11. CASE UNCHANGED vars
  BY <1>11 DEF vars, TokenInv, PlantedBugIsFound, Journalled, InFlight, Fresh,
               Authorized, Done, Condemned, Fine, NoncesOfSteps
<1> QED BY <1>1, <1>2, <1>3, <1>4, <1>5, <1>6, <1>7, <1>8, <1>9, <1>10, <1>11
        DEF Next

\* Fuzzing the example finds its planted bug, for every number of actors,
\* amount, fee, initial supply and policy, and for whatever actions the
\* shrinker tries in whichever state: as long as no call is over a limit and
\* the bound on the entries leaves room for the actors and a nonce for each
\* action, a case fails exactly over set_fee, by that action's own negative
\* test, and over a transfer of more than its sender holds, which the target
\* does not generate but states no precondition against; every other action is
\* accepted, after each of them the balances are the model's and the supply
\* their sum, and neither an invariant nor the read-only guard fails a case
\* (the target and the token of examples/token_fuzz.rs under run_case and
\* check_invariants).
THEOREM PlantedBugAlwaysFound ==
  ASSUME TokenContract, NEW max, TokenTarget(max)
  PROVE  Spec => []PlantedBugIsFound
<1>1. FiniteWrites
  BY TokenFinite
<1>2. Spec => []Accounted
  BY <1>1, AlwaysAccounted
<1>3. Init => TokenInv
  BY TokenInit
<1>4. Sane /\ Accounted /\ Guarded /\ TokenInv /\ [Next]_vars => TokenInv'
  BY StepToken
<1>5. TokenInv => PlantedBugIsFound
  BY DEF TokenInv
<1> QED BY <1>2, <1>3, <1>4, <1>5, AlwaysSane, AlwaysGuarded, PTL DEF Spec
=============================================================================
