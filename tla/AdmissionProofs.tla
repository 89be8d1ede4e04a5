--------------------------- MODULE AdmissionProofs ---------------------------
(***************************************************************************)
(* The invariants of Admission, for any artifacts, policies, evidence,     *)
(* approvals, baselines, revocations and any number of operations and      *)
(* crashes.  What a decision says is settled by EvaluateSound and how it   *)
(* is recorded by RouteSound, both of PolicyProofs; the invariant ties the *)
(* steps that are left to the decision, the facts it rests on and the      *)
(* state reached so far.                                                   *)
(***************************************************************************)
EXTENDS Admission, PolicyProofs

USE AdmissionAssumption

Known == AdmissionStates \cup {NoState}
Current == IF state = NoState THEN "UNKNOWN" ELSE state

\* The policy in force is valid, and what operators gave names cells.
Authorities ==
  /\ artifact \in Artifacts /\ policy \in Policies /\ ValidPolicy(policy) /\ state \in Known
  /\ approval = NoApproval \/ approval.cell \in Cells
  /\ baseline = NoBaseline \/ baseline.cell \in Cells

\* The facts of a decision, whatever their values.
WholeFacts(f) ==
  f = [artifact |-> f.artifact, evidence |-> f.evidence, requested |-> f.requested, prior |-> f.prior,
       revocations |-> f.revocations, approval |-> f.approval, rows |-> f.rows]

\* The decision in progress was made from its facts, which are still those in force.
Decided ==
  /\ WholeFacts(facts) /\ IsFacts(facts) /\ facts.artifact = artifact /\ facts.revocations = entries
  /\ facts.prior \in Known
  /\ decision = evaluate(policy, facts, now)

\* What is left to record leads from the state reached to the state decided.
Underway ==
  /\ steps \in Seq(AdmissionStates)
  /\ steps = <<>> => state = decision.state
  /\ steps # <<>> =>
       /\ can_become(Current, steps[1]) /\ steps[Len(steps)] = decision.state
       /\ \A i \in 1 .. Len(steps) - 1 : can_become(steps[i], steps[i + 1])
       /\ decision.state = "DEGRADED" => Len(steps) = 1 /\ state = facts.prior
       /\ decision.state = "REVOKED" => revoked(facts)
  /\ \A i \in 1 .. Len(steps) :
       /\ permits_normal_execution(steps[i]) => permits_normal_execution(decision.state)
       /\ steps[i] = "REVOKED" => decision.state = "REVOKED"
  /\ state = facts.prior \/ (permits_normal_execution(state) => permits_normal_execution(decision.state))
  /\ state = "REVOKED" => decision.state = "REVOKED"

AdmissionInv == Authorities /\ IF Idle THEN steps = <<>> ELSE Decided /\ Underway

-----------------------------------------------------------------------------
(***************************************************************************)
(* Steps.                                                                  *)
(***************************************************************************)

\* Facts of a decision are never those of an engine between operations.
LEMMA FactsNotIdle ==
  ASSUME NEW f, f.prior \in Known
  PROVE  f # NoFacts
BY DEF Known, AdmissionStates, NoState, NoFacts

\* The approval a decision rests on, given or implied by a baseline, names a cell.
LEMMA ApprovalTyped ==
  ASSUME NEW appr, appr = NoApproval \/ appr.cell \in Cells,
         NEW base, base = NoBaseline \/ base.cell \in Cells, NEW id
  PROVE  approval_for(appr, base, id) = NoApproval \/ approval_for(appr, base, id).cell \in Cells
<1> DEFINE b == baseline_approval(base, id, now)
<1>1. b = NoApproval \/ b.cell \in Cells
  <2>1. CASE base = NoBaseline
    BY <2>1, Zenon DEF baseline_approval, NoBaseline
  <2>2. CASE base.cell \in Cells
    BY <2>2, Zenon DEF baseline_approval
  <2> QED BY <2>1, <2>2, Zenon
<1> HIDE DEF b
<1> QED BY <1>1, Zenon DEF approval_for, b

\* The facts that an operation gathers.
LEMMA FactsOfOperation ==
  ASSUME Authorities, NEW ev, NEW req, NEW ents, NEW rows,
         NEW appr, appr = NoApproval \/ appr.cell \in Cells,
         NEW base, base = NoBaseline \/ base.cell \in Cells
  PROVE  /\ WholeFacts(FactsOf(ev, req, ents, appr, base, rows))
         /\ IsFacts(FactsOf(ev, req, ents, appr, base, rows))
         /\ FactsOf(ev, req, ents, appr, base, rows).artifact = artifact
         /\ FactsOf(ev, req, ents, appr, base, rows).revocations = ents
         /\ FactsOf(ev, req, ents, appr, base, rows).prior = state
<1> DEFINE f == FactsOf(ev, req, ents, appr, base, rows)
<1>1. /\ f.artifact = artifact /\ f.revocations = ents /\ f.prior = state
      /\ f.approval = approval_for(appr, base, artifact.id)
  BY Zenon DEF FactsOf
<1>2. artifact.provenance \in Ranks
  BY Zenon DEF Authorities
<1>3. WholeFacts(f)
  BY Zenon DEF FactsOf, WholeFacts
<1> HIDE DEF f
<1> QED BY <1>1, <1>2, <1>3, ApprovalTyped, Zenon DEF IsFacts, f

\* A decision starts out with legal steps to where it leads.
LEMMA DecideKeeps ==
  ASSUME Authorities, Authorities', NEW f, WholeFacts(f), IsFacts(f), f.artifact = artifact, f.revocations = entries',
         f.prior = state, Decide(f), UNCHANGED <<artifact, policy, now, state>>
  PROVE  AdmissionInv'
<1> DEFINE d == evaluate(policy, f, now)
<1>1. /\ facts' = f /\ decision' = d
      /\ steps' = IF state = d.state THEN <<>> ELSE route(Current, d.state)
  BY Zenon DEF Decide, Current
<1>2. DecisionState(f, d)
  BY EvaluateSound, Zenon DEF Authorities
<1> HIDE DEF d
<1>3. Decided'
  <2>1. decision' = evaluate(policy', facts', now')
    BY <1>1, Zenon DEF d
  <2> QED BY <2>1, <1>1, Zenon DEF Decided, Authorities
<1>4. Underway'
  <2>1. state \in Known /\ d.state \in AdmissionStates \ {"UNKNOWN"} /\ state' = state /\ facts'.prior = state
    BY <1>1, <1>2, Zenon DEF Authorities, DecisionState
  <2>2. state' = "REVOKED" => decision'.state = "REVOKED"
    BY <1>1, <1>2, Zenon DEF DecisionState
  <2>3. CASE state = d.state
    <3>1. steps' = <<>> /\ decision'.state = state'
      BY <1>1, <2>3, Zenon
    <3>2. <<>> \in Seq(AdmissionStates) /\ Len(<<>>) = 0 /\ 1 .. 0 = {}
      OBVIOUS
    <3> QED BY <2>1, <2>2, <3>1, <3>2, Zenon DEF Underway
  <2>4. CASE state # d.state
    <3> DEFINE c == route(Current, d.state)
    <3>1. Current \in AdmissionStates \ {"REVOKED"} /\ Current # d.state
      BY <2>1, <2>4, <1>2, Zenon DEF Current, Known, AdmissionStates, DecisionState
    <3>2. LegalRoute(Current, d.state, c)
      BY <2>1, <3>1, RouteSound, Zenon
    <3> HIDE DEF c
    <3>3. steps' = c /\ Current' = Current
      BY <1>1, <2>1, <2>4, Zenon DEF Current, c
    <3>4. c \in Seq(AdmissionStates) /\ c # <<>>
      BY <3>2 DEF LegalRoute
    <3>5. ASSUME d.state = "DEGRADED" PROVE Len(c) = 1 /\ c[1] = "DEGRADED"
      <4>1. permits_normal_execution(state)
        BY <3>5, <1>2, Zenon DEF DecisionState
      <4>2. can_become(Current, "DEGRADED")
        BY <4>1 DEF Current, permits_normal_execution, can_become, Moves, NoState
      <4> QED BY <3>2, <3>5, <4>2, Zenon DEF LegalRoute
    <3>6. d.state = "REVOKED" => revoked(f)
      BY <1>2, <2>4, Zenon DEF DecisionState
    <3>7. ASSUME NEW i \in 1 .. Len(c)
          PROVE  /\ permits_normal_execution(c[i]) => permits_normal_execution(d.state)
                 /\ c[i] = "REVOKED" => d.state = "REVOKED"
      <4>1. CASE d.state = "DEGRADED"
        <5>1. Len(c) = 1 /\ c[1] = "DEGRADED"
          BY <3>5, <4>1, Zenon
        <5>2. i = 1
          BY <5>1
        <5> QED BY <5>1, <5>2, Zenon DEF permits_normal_execution
      <4>2. CASE d.state # "DEGRADED"
        BY <3>2, <4>2, Zenon DEF LegalRoute
      <4> QED BY <4>1, <4>2, Zenon
    <3> QED BY <1>1, <2>1, <2>2, <3>2, <3>3, <3>4, <3>5, <3>6, <3>7, Zenon DEF Underway, LegalRoute
  <2> QED BY <2>3, <2>4, Zenon
<1>5. ~Idle'
  BY <1>3, FactsNotIdle, Zenon DEF Decided, Idle
<1> QED BY <1>3, <1>4, <1>5, Zenon DEF AdmissionInv

\* Processing what is at the path keeps the invariant.
LEMMA ProcessKeeps ==
  ASSUME AdmissionInv, Idle, Authorities', UNCHANGED <<artifact, policy, now, state>>,
         NEW ev, NEW req, NEW appr, appr = NoApproval \/ appr.cell \in Cells,
         NEW base, base = NoBaseline \/ base.cell \in Cells,
         ProcessPath(ev, req, entries', appr, base)
  PROVE  AdmissionInv'
<1>1. Authorities
  BY Zenon DEF AdmissionInv
<1>2. CASE Decide(FactsOf(ev, req, entries', appr, base, {TRUE, indexed}))
  <2> DEFINE f == FactsOf(ev, req, entries', appr, base, {TRUE, indexed})
  <2>1. WholeFacts(f) /\ IsFacts(f) /\ f.artifact = artifact /\ f.revocations = entries' /\ f.prior = state
    BY <1>1, FactsOfOperation
  <2> HIDE DEF f
  <2> QED BY <1>1, <1>2, <2>1, DecideKeeps, Zenon DEF f
<1>3. CASE Decide(FactsOf({"CONTENT_DIGEST_MISMATCH"}, {}, entries', appr, base, {FALSE, indexed}))
  <2> DEFINE f == FactsOf({"CONTENT_DIGEST_MISMATCH"}, {}, entries', appr, base, {FALSE, indexed})
  <2>1. WholeFacts(f) /\ IsFacts(f) /\ f.artifact = artifact /\ f.revocations = entries' /\ f.prior = state
    BY <1>1, FactsOfOperation
  <2> HIDE DEF f
  <2> QED BY <1>1, <1>3, <2>1, DecideKeeps, Zenon DEF f
<1>4. CASE UNCHANGED <<facts, decision, steps>>
  BY <1>4, Zenon DEF AdmissionInv, Idle
<1> QED BY <1>2, <1>3, <1>4, Zenon DEF ProcessPath, ProcessOther

\* A recorded step leaves the rest of a legal way.
LEMMA StepKeeps ==
  ASSUME AdmissionInv, Step
  PROVE  AdmissionInv'
<1>1. ~Idle /\ Authorities /\ Decided /\ Underway
  BY Zenon DEF AdmissionInv, Step
<1>2. CASE steps = <<>>
  <2>1. facts' = NoFacts /\ steps' = <<>> /\ state' = state
    BY <1>2, Zenon DEF Step, Return
  <2>2. Authorities'
    BY <1>1, <2>1, Zenon DEF Authorities, Step, authority
  <2> QED BY <2>1, <2>2, Zenon DEF AdmissionInv, Idle
<1>3. CASE steps # <<>>
  <2>1. /\ state' = Head(steps) /\ steps' = Tail(steps)
        /\ UNCHANGED <<facts, decision, artifact, policy, entries, approval, baseline, now>>
    BY <1>3, Zenon DEF Step, authority, world
  <2>2. /\ Len(steps) \in Nat /\ Len(steps) >= 1 /\ steps[1] \in AdmissionStates
        /\ Head(steps) = steps[1] /\ Tail(steps) \in Seq(AdmissionStates)
        /\ Len(Tail(steps)) = Len(steps) - 1
        /\ \A i \in 1 .. Len(steps) - 1 : Tail(steps)[i] = steps[i + 1]
    BY <1>1, <1>3 DEF Underway
  <2>3. Authorities'
    BY <1>1, <2>1, <2>2, Zenon DEF Authorities, Known
  <2>4. Decided'
    BY <1>1, <2>1, Zenon DEF Decided
  <2>5. ~Idle'
    BY <1>1, <2>1, Zenon DEF Idle
  <2> DEFINE t == Tail(steps)
  <2> HIDE DEF t
  <2>6. Underway'
    <3>1. t \in Seq(AdmissionStates) /\ Len(t) = Len(steps) - 1 /\ Len(t) \in Nat
      BY <2>2 DEF t
    <3>2. ASSUME t = <<>> PROVE steps[1] = decision.state
      <4>1. Len(t) = 0
        BY <3>2, Zenon
      <4>2. \A m \in Nat : m - 1 = 0 => m = 1
        OBVIOUS
      <4>3. Len(steps) \in Nat /\ Len(steps) - 1 = 0
        BY <2>2, <3>1, <4>1, Zenon
      <4>4. Len(steps) = 1
        BY <4>2, <4>3, Zenon
      <4> QED BY <1>1, <1>3, <4>4, Zenon DEF Underway
    <3>3. ASSUME t # <<>>
          PROVE  /\ Len(t) >= 1 /\ can_become(steps[1], t[1]) /\ t[Len(t)] = decision.state
                 /\ decision.state # "DEGRADED" /\ (decision.state = "REVOKED" => revoked(facts))
                 /\ \A i \in 1 .. Len(t) - 1 : can_become(t[i], t[i + 1])
      <4>1. Len(t) >= 1 /\ Len(steps) >= 2
        BY <3>1, <3>3, <2>2
      <4>2. t[1] = steps[2] /\ t[Len(t)] = steps[Len(steps)]
        BY <2>2, <3>1, <4>1 DEF t
      <4>3. can_become(steps[1], steps[2])
        BY <1>1, <1>3, <2>2, <4>1 DEF Underway
      <4>4. ASSUME NEW i \in 1 .. Len(t) - 1 PROVE can_become(t[i], t[i + 1])
        <5>1. t[i] = steps[i + 1] /\ t[i + 1] = steps[(i + 1) + 1] /\ i + 1 \in 1 .. Len(steps) - 1
          BY <2>2, <3>1 DEF t
        <5> QED BY <5>1, <1>1, <1>3, Zenon DEF Underway
      <4>5. decision.state # "DEGRADED" /\ (decision.state = "REVOKED" => revoked(facts))
        BY <1>1, <1>3, <4>1, <2>2 DEF Underway
      <4> QED BY <1>1, <1>3, <4>1, <4>2, <4>3, <4>4, <4>5, Zenon DEF Underway
    <3>4. \A i \in 1 .. Len(t) :
            /\ permits_normal_execution(t[i]) => permits_normal_execution(decision.state)
            /\ t[i] = "REVOKED" => decision.state = "REVOKED"
      <4> SUFFICES ASSUME NEW i \in 1 .. Len(t)
                   PROVE  /\ permits_normal_execution(t[i]) => permits_normal_execution(decision.state)
                          /\ t[i] = "REVOKED" => decision.state = "REVOKED"
        OBVIOUS
      <4>1. t[i] = steps[i + 1] /\ i + 1 \in 1 .. Len(steps)
        BY <2>2, <3>1 DEF t
      <4> QED BY <4>1, <1>1, Zenon DEF Underway
    <3>5. /\ permits_normal_execution(steps[1]) => permits_normal_execution(decision.state)
          /\ steps[1] = "REVOKED" => decision.state = "REVOKED"
      BY <1>1, <2>2 DEF Underway
    <3>6. Current' = steps[1]
      BY <2>1, <2>2, Zenon DEF Current, AdmissionStates, NoState
    <3>7. state' = steps[1] /\ steps' = t
      BY <2>1, <2>2, Zenon DEF t
    <3>8. revoked(facts') = revoked(facts)
      BY <2>1, Zenon
    <3> QED BY <2>1, <3>1, <3>2, <3>3, <3>4, <3>5, <3>6, <3>7, <3>8, Zenon DEF Underway
  <2> QED BY <2>3, <2>4, <2>5, <2>6, Zenon DEF AdmissionInv
<1> QED BY <1>2, <1>3, Zenon

\* The invariant is inductive.
LEMMA AdmissionInvariance == Spec => []AdmissionInv
<1>1. Init => AdmissionInv
  <2> SUFFICES ASSUME Init PROVE AdmissionInv
    OBVIOUS
  <2>1. policy \in Policies /\ validate_with(policy, Loaded) /\ IsPolicy(policy)
    BY Zenon DEF Init, validate_loaded
  <2>2. ValidPolicy(policy)
    BY <2>1, ValidateMeans, Zenon
  <2> QED BY <2>1, <2>2, Zenon DEF Init, AdmissionInv, Authorities, Known, Idle
<1>2. AdmissionInv /\ [Next]_vars => AdmissionInv'
  <2> SUFFICES ASSUME AdmissionInv, [Next]_vars PROVE AdmissionInv'
    OBVIOUS
  <2>1. Authorities
    BY Zenon DEF AdmissionInv
  <2>2. CASE Observe
    <3>1. Authorities' /\ entries' = entries
      BY <2>1, <2>2, Zenon DEF Observe, Authorities, authority
    <3>2. PICK ev \in Evidence, req \in Requests : ProcessPath(ev, req, entries', approval, baseline)
      BY <2>2, <3>1, Zenon DEF Observe
    <3> QED BY <2>1, <2>2, <3>1, <3>2, ProcessKeeps, Zenon DEF Observe, Authorities, authority, world
  <2>3. CASE Approve
    <3>1. PICK a \in Approvals, ev \in Evidence :
            LET new == [epn |-> artifact.id, cell |-> a.cell, network |-> a.network,
                        capabilities |-> a.capabilities, expires_at |-> now + a.ttl]
            IN  /\ approval' = new
                /\ \/ indexed /\ ProcessPath(ev, {}, entries, new, baseline)
                   \/ ~(indexed /\ present # "gone") /\ UNCHANGED <<facts, decision, steps, indexed>>
      BY <2>3, Zenon DEF Approve
    <3>2. approval'.cell = a.cell /\ approval'.cell \in Cells
      BY <3>1, Zenon
    <3>3. /\ Idle /\ UNCHANGED <<artifact, policy, entries, baseline, now, state>>
      BY <2>3, Zenon DEF Approve, world
    <3>4. Authorities'
      BY <2>1, <3>2, <3>3, Zenon DEF Authorities
    <3>5. CASE ProcessPath(ev, {}, entries, approval', baseline)
      <4>1. ProcessPath(ev, {}, entries', approval', baseline)
        BY <3>3, <3>5, Zenon
      <4> DEFINE new == approval'
      <4>2. new.cell \in Cells /\ ProcessPath(ev, {}, entries', new, baseline)
        BY <3>2, <4>1, Zenon
      <4> HIDE DEF new
      <4> QED BY <2>1, <3>3, <3>4, <4>2, ProcessKeeps, Zenon DEF Authorities
    <3>6. CASE UNCHANGED <<facts, decision, steps>>
      BY <3>3, <3>4, <3>6, Zenon DEF AdmissionInv, Idle
    <3> QED BY <3>1, <3>5, <3>6, Zenon
  <2>4. CASE enroll_baseline
    <3>1. PICK b \in Baselines, ev \in Evidence, include_unmanaged \in BOOLEAN :
            LET new == [cell |-> b.cell, network |-> b.network, capabilities |-> {},
                        expires_at |-> now + b.ttl,
                        members |-> IF present = "same" /\ Vouched(ev, include_unmanaged)
                                    THEN {artifact.id} ELSE {}]
            IN  baseline' = new /\ ProcessPath(ev, {}, entries, approval, new)
      BY <2>4, Zenon DEF enroll_baseline
    <3>2. baseline'.cell = b.cell /\ baseline'.cell \in Cells
      BY <3>1, Zenon
    <3>3. Idle /\ UNCHANGED <<artifact, policy, entries, approval, now, state>>
      BY <2>4, Zenon DEF enroll_baseline, world
    <3>4. Authorities'
      BY <2>1, <3>2, <3>3, Zenon DEF Authorities
    <3> DEFINE new == baseline'
    <3>5. new.cell \in Cells /\ ProcessPath(ev, {}, entries', approval, new)
      BY <3>1, <3>2, <3>3, Zenon
    <3> HIDE DEF new
    <3> QED BY <2>1, <3>3, <3>4, <3>5, ProcessKeeps, Zenon DEF Authorities
  <2>5. CASE revoke_report
    <3>1. Idle /\ UNCHANGED <<artifact, policy, approval, baseline, now, state>>
      BY <2>5, Zenon DEF revoke_report, world
    <3>2. Authorities'
      BY <2>1, <3>1, Zenon DEF Authorities
    <3>3. CASE Decide(FactsOf({}, {}, entries', approval, baseline, {indexed}))
      <4> DEFINE f == FactsOf({}, {}, entries', approval, baseline, {indexed})
      <4>1. WholeFacts(f) /\ IsFacts(f) /\ f.artifact = artifact /\ f.revocations = entries' /\ f.prior = state
        BY <2>1, FactsOfOperation DEF Authorities
      <4> HIDE DEF f
      <4> QED BY <2>1, <3>1, <3>2, <3>3, <4>1, DecideKeeps, Zenon DEF f
    <3>4. CASE UNCHANGED <<facts, decision, steps>>
      BY <3>1, <3>2, <3>4, Zenon DEF AdmissionInv, Idle
    <3> QED BY <2>5, <3>3, <3>4, Zenon DEF revoke_report
  <2>6. CASE set_policy
    <3>1. PICK new \in Policies : validate_replacing(new, policy) /\ policy' = new
      BY <2>6, Zenon DEF set_policy
    <3>2. ValidPolicy(new)
      BY <3>1, ValidateMeans, Zenon DEF validate_replacing
    <3> QED BY <2>1, <2>6, <3>1, <3>2, Zenon DEF set_policy, AdmissionInv, Authorities, Idle
  <2>7. CASE Step
    BY <2>7, StepKeeps, Zenon
  <2>8. CASE Crash
    BY <2>1, <2>8, Zenon DEF Crash, Return, AdmissionInv, Authorities, Idle, authority
  <2>9. CASE Environment
    BY <2>1, <2>9, Zenon DEF Environment, AdmissionInv, Authorities, Idle, authority
  <2>10. CASE UNCHANGED vars
    <3>1. Authorities'
      BY <2>1, <2>10, Zenon DEF vars, authority, Authorities
    <3>2. Decided => Decided'
      BY <2>10, Zenon DEF vars, authority, world, Decided
    <3>3. Underway => Underway'
      BY <2>10, Zenon DEF vars, authority, world, Underway, Current
    <3> QED BY <2>10, <3>1, <3>2, <3>3, Zenon DEF vars, AdmissionInv, Idle
  <2> QED BY <2>2, <2>3, <2>4, <2>5, <2>6, <2>7, <2>8, <2>9, <2>10, Zenon DEF Next
<1> QED BY <1>1, <1>2, PTL DEF Spec

-----------------------------------------------------------------------------
(***************************************************************************)
(* The properties the runs check.                                          *)
(***************************************************************************)

\* Whenever an operation is under way its decision is what evaluate promises.
LEMMA DecisionKept ==
  ASSUME AdmissionInv, ~Idle
  PROVE  /\ DecisionState(facts, decision)
         /\ DecisionGrounds(policy, facts, now, decision)
         /\ DecisionAuthority(policy, facts, now, decision)
BY EvaluateSound, Zenon DEF AdmissionInv, Authorities, Decided

\* RevocationWins (I-14) for every artifact, policy and list of revocations, through
\* every operation and crash: what the list hits is only ever decided REVOKED, and a
\* revoked artifact is not decided about otherwise.
THEOREM RevocationHolds == Spec => []RevocationWins
<1>1. AdmissionInv => RevocationWins
  <2> SUFFICES ASSUME AdmissionInv, ~Idle
               PROVE  /\ hit(entries, artifact) => decision.state = "REVOKED"
                      /\ state = "REVOKED" => decision.state = "REVOKED"
    BY Zenon DEF RevocationWins
  <2> QED BY DecisionKept, Zenon DEF AdmissionInv, Decided, Underway, DecisionState, revoked
<1> QED BY <1>1, AdmissionInvariance, PTL

\* TrustHasGrounds for every valid policy and all evidence.
THEOREM TrustGrounded == Spec => []TrustHasGrounds
<1>1. AdmissionInv => TrustHasGrounds
  BY DecisionKept, Zenon DEF TrustHasGrounds, AdmissionInv, Decided, DecisionGrounds
<1> QED BY <1>1, AdmissionInvariance, PTL

\* AuthorityCapped for every valid policy, approval and baseline.
THEOREM AuthorityBounded == Spec => []AuthorityCapped
<1>1. AdmissionInv => AuthorityCapped
  BY DecisionKept, Zenon DEF AuthorityCapped, AdmissionInv, Decided, DecisionAuthority
<1> QED BY <1>1, AdmissionInvariance, PTL

\* LegalSteps: what apply_decision records is a walk of the state machine, whatever
\* was decided and wherever an earlier operation was interrupted.
THEOREM StepsLegal == Spec => LegalSteps
<1>1. ASSUME AdmissionInv, [Next]_vars, state' # state
      PROVE  /\ can_become(IF state = NoState THEN "UNKNOWN" ELSE state, state')
             /\ permits_normal_execution(state') => permits_normal_execution(decision.state)
  <2>1. Step /\ steps # <<>> /\ state' = Head(steps)
    BY <1>1, Zenon DEF Next, vars, Observe, Approve, enroll_baseline, revoke_report, set_policy, Step,
                Crash, Environment
  <2>2. Underway
    BY <1>1, <2>1, Zenon DEF AdmissionInv, Step
  <2>3. Head(steps) = steps[1] /\ 1 \in 1 .. Len(steps)
    BY <2>1, <2>2 DEF Underway
  <2> QED BY <2>1, <2>2, <2>3, Zenon DEF Underway, Current
<1> QED BY <1>1, AdmissionInvariance, PTL DEF Spec, LegalSteps

\* evaluate looks at the prior state only to tell REVOKED and, for changed content, a
\* state that runs.
LEMMA PriorMatters ==
  ASSUME NEW p, NEW f, NEW g, NEW t,
         g.artifact = f.artifact, g.evidence = f.evidence, g.requested = f.requested,
         g.revocations = f.revocations, g.approval = f.approval,
         f.prior # "REVOKED", g.prior # "REVOKED",
         "CONTENT_DIGEST_MISMATCH" \in f.evidence =>
           (permits_normal_execution(g.prior) <=> permits_normal_execution(f.prior))
  PROVE  evaluate(p, g, t) = evaluate(p, f, t)
<1>1. revoked(g) <=> revoked(f)
  BY Zenon DEF revoked
<1>2. Prohibited(p, g) <=> Prohibited(p, f)
  BY Zenon DEF Prohibited
<1>3. "CONTENT_DIGEST_MISMATCH" \in f.evidence => changed_content(g.prior) = changed_content(f.prior)
  BY Zenon DEF changed_content
<1>4. first_tier(p, g) = first_tier(p, f)
  <2> DEFINE H(h) == {i \in DOMAIN p.tiers : tier_matches(p.tiers[i], h)}
             F(hits) == IF hits = {} THEN p.tiers[Len(p.tiers)]
                        ELSE p.tiers[CHOOSE i \in hits : \A j \in hits : i <= j]
  <2>1. H(g) = H(f)
    BY Zenon DEF tier_matches
  <2>2. first_tier(p, g) = F(H(g)) /\ first_tier(p, f) = F(H(f))
    BY Zenon DEF first_tier
  <2> HIDE DEF H, F
  <2> QED BY <2>1, <2>2, Zenon
<1>5. base_decision(p, g) = base_decision(p, f)
  BY <1>4, Zenon DEF base_decision
<1>6. \A d : /\ setuid_guard(p, g, d) = setuid_guard(p, f, d)
             /\ writable_guard(p, g, d) = writable_guard(p, f, d)
             /\ requested_capabilities(g, d) = requested_capabilities(f, d)
  BY Zenon DEF setuid_guard, writable_guard, requested_capabilities
<1>7. \A d : apply_approval(p, g, t, d) = apply_approval(p, f, t, d)
  BY Zenon DEF apply_approval
<1> DEFINE D(h) == writable_guard(p, h, setuid_guard(p, h, base_decision(p, h)))
           E(h) == apply_approval(p, h, t, requested_capabilities(h, D(h)))
<1>8. E(g) = E(f)
  BY <1>5, <1>6, <1>7, Zenon
<1>9. \A h : evaluate(p, h, t) =
        IF revoked(h) THEN Refuse("REVOKED", "REVOKED", "POLICY")
        ELSE IF h.prior = "REVOKED" THEN Refuse("REVOKED", "PREVIOUSLY_REVOKED", "POLICY")
        ELSE IF "CONTENT_DIGEST_MISMATCH" \in h.evidence
        THEN Refuse(changed_content(h.prior), "CONTENT_CHANGED", "NONE")
        ELSE IF Prohibited(p, h) THEN Refuse("POLICY_BLOCKED", "POLICY_PROHIBITION", "POLICY")
        ELSE E(h)
  BY Zenon DEF evaluate
<1> HIDE DEF E
<1> QED BY <1>1, <1>2, <1>3, <1>8, <1>9, Zenon

\* Resumable: there always is a legal way to record a decision, and an operation that
\* stopped half-way, tried again on the same facts, decides what it decided before.
THEOREM DecisionsResume == Spec => []Resumable
<1>1. AdmissionInv => Resumable
  <2> SUFFICES ASSUME AdmissionInv PROVE Resumable
    OBVIOUS
  <2>1. steps # NoRoute
    <3>1. <<>> \in Seq(AdmissionStates)
      OBVIOUS
    <3>2. steps \in Seq(AdmissionStates)
      BY <3>1, Zenon DEF AdmissionInv, Underway
    <3>3. \A c \in Seq(AdmissionStates) : Len(c) = 1 => c[1] \in AdmissionStates
      OBVIOUS
    <3>4. NoRoute[1] = "no legal route" /\ Len(NoRoute) = 1
      BY Zenon DEF NoRoute
    <3>5. steps = NoRoute => steps[1] \in AdmissionStates
      BY <3>4, <3>2, <3>3, Zenon
    <3> QED BY <3>4, <3>5, Zenon DEF AdmissionStates
  <2>2. ASSUME steps # <<>>
        PROVE  evaluate(policy, [facts EXCEPT !.prior = state], now).state = decision.state
    <3>1. ~Idle /\ Authorities /\ Decided /\ Underway
      BY <2>2, Zenon DEF AdmissionInv
    <3> DEFINE g == [facts EXCEPT !.prior = state]
    <3>2. /\ g.artifact = facts.artifact /\ g.evidence = facts.evidence /\ g.requested = facts.requested
          /\ g.revocations = facts.revocations /\ g.approval = facts.approval /\ g.prior = state
      BY <3>1, Zenon DEF Decided, WholeFacts
    <3>3. DecisionState(facts, decision) /\ decision = evaluate(policy, facts, now)
      BY <3>1, DecisionKept, Zenon DEF Decided
    <3>4. IsFacts(g) /\ ValidPolicy(policy)
      BY <3>1, <3>2, Zenon DEF IsFacts, Decided, Authorities
    <3> HIDE DEF g
    <3>5. DecisionState(g, evaluate(policy, g, now))
      BY <3>4, EvaluateSound, Zenon
    <3>6. revoked(g) <=> revoked(facts)
      BY <3>2, Zenon DEF revoked
    <3>7. decision.state = "REVOKED" => evaluate(policy, g, now).state = "REVOKED"
      BY <2>2, <3>1, <3>5, <3>6, Zenon DEF Underway, DecisionState
    <3>8. ASSUME decision.state # "REVOKED" PROVE evaluate(policy, g, now) = decision
      <4>1. ~revoked(facts) /\ facts.prior # "REVOKED" /\ state # "REVOKED"
        BY <3>1, <3>3, <3>8, Zenon DEF Underway, DecisionState
      <4>2. ASSUME "CONTENT_DIGEST_MISMATCH" \in facts.evidence
            PROVE  permits_normal_execution(state) <=> permits_normal_execution(facts.prior)
        <5>1. decision.state = changed_content(facts.prior)
          BY <3>3, <4>1, <4>2, Zenon DEF evaluate, Refuse, finish
        <5>2. CASE permits_normal_execution(facts.prior)
          BY <2>2, <3>1, <5>1, <5>2, Zenon DEF changed_content, Underway
        <5>3. CASE ~permits_normal_execution(facts.prior)
          BY <3>1, <5>1, <5>3, Zenon DEF changed_content, Underway, permits_normal_execution
        <5> QED BY <5>2, <5>3, Zenon
      <4>3. evaluate(policy, g, now) = evaluate(policy, facts, now)
        BY <3>2, <4>1, <4>2, PriorMatters, Zenon
      <4> QED BY <3>3, <4>3, Zenon
    <3> QED BY <3>7, <3>8, Zenon DEF g
  <2> QED BY <2>1, <2>2, Zenon DEF Resumable
<1> QED BY <1>1, AdmissionInvariance, PTL
=============================================================================
