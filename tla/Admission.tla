------------------------------ MODULE Admission -----------------------------
(***************************************************************************)
(* The life of one artifact in the engine of crates/jlr-engine: it is      *)
(* observed, approved, enrolled in a baseline, revoked, replaced at its    *)
(* path and restored, under a policy that changes.  Every operation        *)
(* decides with Policy!evaluate and records the decision one legal step    *)
(* at a time (route, apply_decision); a crash, or an append that fails,    *)
(* may stop it between two steps.  The engine holds the ledger lock, so    *)
(* operations do not interleave with one another.                          *)
(***************************************************************************)
EXTENDS Policy

CONSTANTS
  Artifacts,     \* artifacts one of which is the artifact: [id, digest, signer, class, provenance]
  Policies,      \* policies given to setup and to set_policy, valid or not
  Evidence,      \* sets of evidence kinds an observation may collect
  Requests,      \* sets of capabilities `jlr run` may ask for
  Approvals,     \* [cell, network, capabilities, ttl] given to approve
  Baselines,     \* [cell, network, ttl] given to enroll_baseline
  Entries,       \* revocation entries given to revoke_report
  MaxNow         \* bound on the clock

\* The default policies are valid, and policies, ranks and what operators may ask for
\* have the types of the code.
ASSUME AdmissionAssumption ==
  /\ validate(workstation(1)) /\ validate(strict(1))
  /\ \A s \in AdmissionStates : Moves[s] \subseteq AdmissionStates
  /\ \A a \in Artifacts : a.provenance \in Ranks
  /\ \A p \in Policies : IsPolicy(p)
  /\ \A a \in Approvals \cup Baselines : a.cell \in Cells /\ a.network \in Networks /\ a.ttl \in Nat
  /\ MaxNow \in Nat

VARIABLES
  artifact, policy, entries, approval, baseline, now,
  present,   \* the content at the artifact's path: "same", "other" or "gone"
  indexed,   \* whether the index row of the path names the artifact
  state,     \* its state in the ledger, NoState before the first transition
  facts,     \* what the decision in progress rests on, NoFacts between operations
  decision,  \* that decision
  steps      \* transitions it still has to record

authority == <<artifact, policy, entries, approval, baseline>>
world == <<now, present>>
vars == <<authority, world, indexed, state, facts, decision, steps>>

NoFacts == [prior |-> "idle"]
NoDecision == finish("QUARANTINED", 0, 0, {}, {}, "NONE", FALSE)
NoBaseline == [members |-> {}, expires_at |-> 0]
Idle == facts = NoFacts

-----------------------------------------------------------------------------
(***************************************************************************)
(* Deciding and recording.                                                 *)
(***************************************************************************)

\* Engine::approval_for
approval_for(appr, base, id) ==
  IF applies_to(appr, id, now) THEN appr ELSE baseline_approval(base, id, now)

\* rows: the values the index row may have once the operation is over.  A row
\* is written last, so a crash may leave the old one.
FactsOf(ev, req, ents, appr, base, rows) ==
  [artifact |-> artifact, evidence |-> ev, requested |-> req, prior |-> state,
   revocations |-> ents, approval |-> approval_for(appr, base, artifact.id),
   rows |-> rows]

\* evaluate_now and the first half of apply_decision: the steps to record.
Decide(f) ==
  LET d == evaluate(policy, f, now)
      from == IF state = NoState THEN "UNKNOWN" ELSE state
  IN  /\ facts' = f
      /\ decision' = d
      /\ steps' = IF state = d.state THEN <<>> ELSE route(from, d.state)
      /\ UNCHANGED indexed

\* process on other content at the path: on_replaced decides about the artifact.
ProcessOther(ents, appr, base) ==
  IF indexed /\ state \notin {NoState, "REVOKED", "DEGRADED", "QUARANTINED"}
  THEN Decide(FactsOf({"CONTENT_DIGEST_MISMATCH"}, {}, ents, appr, base, {FALSE, indexed}))
  ELSE indexed' \in {FALSE, indexed} /\ UNCHANGED <<facts, decision, steps>>

\* process on what is at the path.
ProcessPath(ev, req, ents, appr, base) ==
  \/ present = "same" /\ Decide(FactsOf(ev, req, ents, appr, base, {TRUE, indexed}))
  \/ present = "other" /\ ProcessOther(ents, appr, base)

Return == facts' = NoFacts /\ decision' = NoDecision /\ steps' = <<>>

\* apply_decision: one transition; the operation ends after the last one.
Step ==
  /\ ~Idle /\ steps # NoRoute
  /\ IF steps = <<>>
     THEN Return /\ indexed' \in facts.rows /\ UNCHANGED state
     ELSE state' = Head(steps) /\ steps' = Tail(steps) /\ UNCHANGED <<facts, decision, indexed>>
  /\ UNCHANGED <<authority, world>>

\* The process dies, or an append fails, before the next transition.
Crash ==
  /\ ~Idle /\ steps # <<>>
  /\ Return
  /\ UNCHANGED <<authority, world, indexed, state>>

-----------------------------------------------------------------------------
(***************************************************************************)
(* Operations.                                                             *)
(***************************************************************************)

\* scan, decide_exec, prepare_run: the file is measured and processed.
Observe ==
  /\ Idle
  /\ \E ev \in Evidence, req \in Requests : ProcessPath(ev, req, entries, approval, baseline)
  /\ UNCHANGED <<authority, world, state>>

\* approve: the approval becomes current, then the file at the path is
\* processed; when it is gone nothing is recorded.
Approve ==
  /\ Idle /\ state # NoState
  /\ \E a \in Approvals, ev \in Evidence :
       LET new == [epn |-> artifact.id, cell |-> a.cell, network |-> a.network,
                   capabilities |-> a.capabilities, expires_at |-> now + a.ttl]
       IN  /\ approval' = new
           /\ \/ indexed /\ ProcessPath(ev, {}, entries, new, baseline)
              \/ ~(indexed /\ present # "gone") /\ UNCHANGED <<facts, decision, steps, indexed>>
  /\ UNCHANGED <<artifact, policy, entries, baseline, world, state>>

\* enroll_baseline: the files found become members if they are vouched for and
\* nothing speaks against them; then each is processed.
Vouched(ev, include_unmanaged) ==
  /\ include_unmanaged \/ {"MANAGED_INSTALLER", "PACKAGE_MANIFEST_MATCH"} \subseteq ev
  /\ ev \cap {"CONTENT_DIGEST_MISMATCH", "SIGNATURE_INVALID", "FORBIDDEN_BEHAVIOR"} = {}

enroll_baseline ==
  /\ Idle /\ present # "gone"
  /\ \E b \in Baselines, ev \in Evidence, include_unmanaged \in BOOLEAN :
       LET new == [cell |-> b.cell, network |-> b.network, capabilities |-> {},
                   expires_at |-> now + b.ttl,
                   members |-> IF present = "same" /\ Vouched(ev, include_unmanaged)
                               THEN {artifact.id} ELSE {}]
       IN  /\ baseline' = new
           /\ ProcessPath(ev, {}, entries, approval, new)
  /\ UNCHANGED <<artifact, policy, entries, approval, world, state>>

\* revoke_report: the list grows, then known artifacts that it hits are moved.
revoke_report ==
  /\ Idle
  /\ \E e \in Entries :
       /\ entries' = entries \cup {e}
       /\ IF state \notin {NoState, "REVOKED"} /\ hit(entries', artifact)
          THEN Decide(FactsOf({}, {}, entries', approval, baseline, {indexed}))
          ELSE UNCHANGED <<facts, decision, steps, indexed>>
  /\ UNCHANGED <<artifact, policy, approval, baseline, world, state>>

set_policy ==
  /\ Idle
  /\ \E new \in Policies :
       /\ validate_replacing(new, policy) /\ new.epoch > policy.epoch
       /\ policy' = new
  /\ UNCHANGED <<artifact, entries, approval, baseline, world, indexed, state, facts, decision, steps>>

\* Outside the engine: files change and time passes.
Environment ==
  /\ Idle
  /\ \/ present' \in {"same", "other", "gone"} \ {present} /\ UNCHANGED now
     \/ now < MaxNow /\ now' = now + 1 /\ UNCHANGED present
  /\ UNCHANGED <<authority, indexed, state, facts, decision, steps>>

Init ==
  /\ artifact \in Artifacts
  /\ policy \in {p \in Policies : validate_loaded(p)}
  /\ entries = {} /\ approval = NoApproval /\ baseline = NoBaseline
  /\ now = 0 /\ present = "same" /\ indexed = FALSE
  /\ state = NoState /\ facts = NoFacts /\ decision = NoDecision /\ steps = <<>>

Next ==
  \/ Observe \/ Approve \/ enroll_baseline \/ revoke_report \/ set_policy
  \/ Step \/ Crash \/ Environment

Spec == Init /\ [][Next]_vars

-----------------------------------------------------------------------------
(***************************************************************************)
(* Properties.                                                             *)
(***************************************************************************)

\* Only steps of the state machine are recorded (can_become), whatever was decided
\* and wherever an earlier operation stopped, and the artifact passes through
\* VERIFIED or ADMITTED only on its way to them: a demotion or a quarantine is never
\* recorded by way of a promotion (I-01).
LegalSteps ==
  [][state' # state =>
       /\ can_become(IF state = NoState THEN "UNKNOWN" ELSE state, state')
       /\ permits_normal_execution(state') => permits_normal_execution(decision.state)]_vars

\* Whatever state the artifact is in, apply_decision never fails with "no legal
\* route"; and a decision half recorded does not mislead: evaluating the same facts
\* from the state reached so far gives the same target.
Resumable ==
  /\ steps # NoRoute
  /\ steps # <<>> => evaluate(policy, [facts EXCEPT !.prior = state], now).state = decision.state

\* Revocation wins (I-14): an artifact the list hits is not decided to run, by
\* tier, approval or baseline, and REVOKED is never left.
RevocationWins ==
  /\ ~Idle /\ hit(entries, artifact) => decision.state = "REVOKED"
  /\ state = "REVOKED" /\ ~Idle => decision.state = "REVOKED"

\* Unknown software is not admitted by policy alone: a decision to run rests on
\* an authority in force or on required evidence and provenance of at least
\* VERIFIED_CHECKSUM, and never overrides a prohibition or changed content.
TrustHasGrounds ==
  ~Idle /\ permits_normal_execution(decision.state) =>
    /\ ~Prohibited(policy, facts) /\ "CONTENT_DIGEST_MISMATCH" \notin facts.evidence
    /\ \/ applies_to(facts.approval, artifact.id, now)
       \/ /\ artifact.provenance <= 4
          /\ \E i \in DOMAIN policy.tiers :
               /\ policy.tiers[i].require_evidence # {}
               /\ policy.tiers[i].require_evidence \subseteq facts.evidence

\* High-risk capabilities come from an approval in force and nowhere else, and
\* an approval never lifts the cell above the policy's manual ceiling; a state that
\* does not run carries no authority at all, for every valid policy.
AuthorityCapped ==
  ~Idle =>
    /\ ~permits_normal_execution(decision.state) =>
         decision.cell = 0 /\ decision.network = 0 /\ decision.capabilities = {}
    /\ decision.capabilities \cap HighRisk # {} => applies_to(facts.approval, artifact.id, now)
    /\ applies_to(facts.approval, artifact.id, now) => decision.cell <= policy.max_manual_cell
    /\ ~applies_to(facts.approval, artifact.id, now) /\ "WRITABLE_PATH" \in facts.evidence
         => decision.cell <= policy.writable_path_max_cell
=============================================================================
