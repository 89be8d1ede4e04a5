------------------------------- MODULE Policy -------------------------------
(***************************************************************************)
(* The trust policy of crates/jlr-policy and the admission states of       *)
(* crates/jlr-model: which policies are valid (policy.rs), what a valid    *)
(* policy decides about an artifact (engine.rs), what an operator's        *)
(* approval, a baseline and a revocation list contribute, and which steps  *)
(* the admission state may take (state.rs).  Everything here is pure.      *)
(*                                                                         *)
(* Cells, network modes and provenance ranks are their codes, so that the  *)
(* order of the enums is the order of numbers.  A name is told apart only  *)
(* by the rules it satisfies, a question to the user only by being asked.  *)
(***************************************************************************)
EXTENDS Naturals, Sequences

CONSTANTS
  HighRisk,     \* the capabilities for which is_high_risk holds
  PlainNames,   \* names that satisfy plain_name
  ShortNames    \* names of 1 to 128 bytes

EmptyName == ""

ASSUME PolicyAssumption ==
  PlainNames \subseteq ShortNames /\ EmptyName \notin ShortNames

AdmissionStates ==
  {"UNKNOWN", "QUARANTINED", "OBSERVED", "VERIFIED", "ADMITTED", "DEGRADED", "REVOKED",
   "POLICY_BLOCKED"}
NoState == "NONE"     \* an artifact the ledger has no transition of

Cells == 0 .. 4       \* CELL-0 .. CELL-3, CELL-R
Networks == 0 .. 5    \* NONE, LOOPBACK_ONLY, DESTINATION_ALLOWLIST, MEDIATED_PROXY,
                      \* FULL_USER_NETWORK, PRIVILEGED_NETWORK
Ranks == 1 .. 6       \* REPRODUCED, PINNED_VENDOR, DISTRO_SIGNED, VERIFIED_CHECKSUM,
                      \* SOURCE_KNOWN, UNKNOWN

-----------------------------------------------------------------------------
(***************************************************************************)
(* Admission states.                                                       *)
(***************************************************************************)

permits_normal_execution(s) == s \in {"VERIFIED", "ADMITTED"}

\* The steps of the state machine, those to REVOKED aside.
Moves ==
  [UNKNOWN        |-> {"QUARANTINED", "OBSERVED", "VERIFIED", "POLICY_BLOCKED"},
   QUARANTINED    |-> {"OBSERVED", "VERIFIED", "POLICY_BLOCKED"},
   OBSERVED       |-> {"VERIFIED", "QUARANTINED", "POLICY_BLOCKED"},
   VERIFIED       |-> {"ADMITTED", "DEGRADED", "QUARANTINED", "POLICY_BLOCKED"},
   ADMITTED       |-> {"DEGRADED", "QUARANTINED", "POLICY_BLOCKED"},
   DEGRADED       |-> {"QUARANTINED", "VERIFIED", "OBSERVED", "POLICY_BLOCKED"},
   REVOKED        |-> {},
   POLICY_BLOCKED |-> {"QUARANTINED"}]

\* A bug: revocation is not a step of the state machine.
RevokedUnreachable(s, t) == s = t \/ t \in Moves[s]

can_become(s, t) == s = t \/ t = "REVOKED" \/ t \in Moves[s]

-----------------------------------------------------------------------------
(***************************************************************************)
(* route (crates/jlr-engine): the steps from one state to another, found   *)
(* breadth first over the states in the order of AdmissionState.           *)
(***************************************************************************)

ALL == <<"UNKNOWN", "QUARANTINED", "OBSERVED", "VERIFIED", "ADMITTED", "DEGRADED", "REVOKED",
         "POLICY_BLOCKED">>

NoRoute == <<"no legal route">>

\* One turn of the search: s is taken off the queue, and every state that s may
\* become and nothing led to yet is noted with s before it, in the order of ALL.
Explore(from, v) ==
  LET s == Head(v.queue)
      look[i \in 0 .. Len(ALL)] ==
        IF i = 0 THEN [queue |-> Tail(v.queue), prev |-> v.prev]
        ELSE LET u == look[i - 1]
                 n == ALL[i]
             IN  IF n # s /\ n # from /\ u.prev[n] = NoState /\ can_become(s, n)
                 THEN [queue |-> Append(u.queue, n), prev |-> [u.prev EXCEPT ![n] = s]]
                 ELSE u
  IN  look[Len(ALL)]

\* prev after the search from a state: who first reached each state.  Every state is
\* queued at most once, so that the queue is empty after Len(ALL) turns.
reached_from(from) ==
  LET visit[k \in 0 .. Len(ALL)] ==
        IF k = 0 THEN [queue |-> <<from>>, prev |-> [n \in AdmissionStates |-> NoState]]
        ELSE LET v == visit[k - 1] IN IF v.queue = <<>> THEN v ELSE Explore(from, v)
  IN  visit[Len(ALL)].prev

\* A bug: the search is skipped and the target recorded in one step.
DirectRoute(from, to) == IF from = to THEN <<>> ELSE <<to>>

route(from, to) ==
  LET prev == reached_from(from)
      back[k \in 0 .. Len(ALL)] ==
        IF k = 0 THEN <<to>>
        ELSE LET path == back[k - 1]
                 p == prev[Head(path)]
             IN  IF p \in {from, NoState} THEN path ELSE <<p>> \o path
  IN  IF from = to THEN <<>>
      ELSE IF prev[to] = NoState THEN NoRoute ELSE back[Len(ALL)]

-----------------------------------------------------------------------------
(***************************************************************************)
(* Authority given by people: approvals, baselines, revocations.           *)
(***************************************************************************)

NoApproval == [epn |-> "none"]

\* VerifiedApproval::applies_to
applies_to(approval, id, now) ==
  approval # NoApproval /\ approval.epn = id /\ now < approval.expires_at

\* VerifiedBaseline::approval_for: the approval that membership implies.
baseline_approval(b, id, now) ==
  IF now >= b.expires_at \/ id \notin b.members THEN NoApproval
  ELSE [epn |-> id, cell |-> b.cell, network |-> b.network,
        capabilities |-> b.capabilities, expires_at |-> b.expires_at]

\* Revocations::hit: an entry names the EPN, the content digest or the signer.
hit(entries, artifact) ==
  \E e \in entries : CASE e.kind = "EPN"    -> e.target = artifact.id
                       [] e.kind = "DIGEST" -> e.target = artifact.digest
                       [] e.kind = "SIGNER" -> e.target = artifact.signer

-----------------------------------------------------------------------------
(***************************************************************************)
(* Policies.  A tier is [name, classes, max_provenance, require_evidence,  *)
(* state, cell, network, needs_user, reason]; a policy is [name, epoch,    *)
(* tiers, block_classes, setuid_min_provenance, writable_path_max_cell,    *)
(* max_manual_cell, evidence_max_age, enforce_exec].                       *)
(***************************************************************************)

\* The types of the fields that decisions are made of; validity is another matter.
IsPolicy(p) ==
  /\ p.tiers \in Seq({p.tiers[i] : i \in DOMAIN p.tiers})
  /\ \A i \in DOMAIN p.tiers :
       /\ p.tiers[i].max_provenance \in Ranks /\ p.tiers[i].state \in AdmissionStates
       /\ p.tiers[i].cell \in Cells /\ p.tiers[i].network \in Networks
  /\ p.writable_path_max_cell \in Cells /\ p.max_manual_cell \in Cells

satisfies(rank, required) == rank <= required

TierNames(p) == {p.tiers[i].name : i \in DOMAIN p.tiers}

\* NameRule: a new policy (Strict), an installed one (Loaded), the replacement
\* of an installed one (Carry).
Strict == [rule |-> "Strict"]
Loaded == [rule |-> "Loaded"]
Carry(installed) == [rule |-> "Carry", name |-> installed.name, tiers |-> TierNames(installed)]

name_ok(rule, n) ==
  CASE rule.rule = "Strict" -> n \in PlainNames
    [] rule.rule = "Loaded" -> n \in ShortNames
    [] rule.rule = "Carry"  -> n \in PlainNames \/ (n = rule.name /\ n \in ShortNames)

tier_name_ok(rule, n) ==
  CASE rule.rule = "Strict" -> n \in PlainNames
    [] rule.rule = "Loaded" -> n # EmptyName
    [] rule.rule = "Carry"  -> n \in PlainNames \/ (n # EmptyName /\ n \in rule.tiers)

matches_everything(t) ==
  t.classes = {} /\ t.max_provenance = 6 /\ t.require_evidence = {}

\* A tier that lets software run needs evidence and an authenticated origin.
run_has_grounds(t) ==
  permits_normal_execution(t.state) => satisfies(t.max_provenance, 4) /\ t.require_evidence # {}

\* A bug: the tier's network is not tied to its state.
IdleInCellZero(t) == ~permits_normal_execution(t.state) => t.cell = 0

\* A tier that does not stays in CELL-0 without a network.
idle_is_confined(t) == ~permits_normal_execution(t.state) => t.cell = 0 /\ t.network = 0

\* The rules of validate_with for one tier.
tier_ok(t) ==
  /\ run_has_grounds(t) /\ idle_is_confined(t)
  /\ t.state \notin {"DEGRADED", "REVOKED", "UNKNOWN"}
  /\ t.cell # 4
  /\ t.cell = 3 => t.needs_user \/ {"MANAGED_INSTALLER", "PACKAGE_SIGNATURE"} \subseteq t.require_evidence
  /\ t.network = 5 => t.needs_user

validate_with(p, rule) ==
  /\ name_ok(rule, p.name)
  /\ p.epoch > 0
  /\ Len(p.tiers) \in 1 .. 64
  /\ matches_everything(p.tiers[Len(p.tiers)])
  /\ p.max_manual_cell <= 3
  /\ \A i, j \in DOMAIN p.tiers : p.tiers[i].name = p.tiers[j].name => i = j
  /\ \A i \in DOMAIN p.tiers : tier_name_ok(rule, p.tiers[i].name) /\ tier_ok(p.tiers[i])

validate(p) == validate_with(p, Strict)
validate_loaded(p) == validate_with(p, Loaded)
validate_replacing(p, installed) == validate_with(p, Carry(installed))

tier(name, classes, max_provenance, require_evidence, state, cell, network, needs_user, reason) ==
  [name |-> name, classes |-> classes, max_provenance |-> max_provenance,
   require_evidence |-> require_evidence, state |-> state, cell |-> cell,
   network |-> network, needs_user |-> needs_user, reason |-> reason]

evidence_tiers ==
  << tier("managed-boot", {"BOOT", "KERNEL", "INITRD", "MODULE", "FIRMWARE"}, 3,
          {"MANAGED_INSTALLER", "PACKAGE_SIGNATURE"}, "ADMITTED", 3, 0, FALSE, "MANAGED_INSTALL"),
     tier("managed-package", {}, 3, {"MANAGED_INSTALLER", "PACKAGE_SIGNATURE"},
          "ADMITTED", 2, 4, FALSE, "MANAGED_INSTALL"),
     tier("pinned-vendor", {}, 2, {"SIGNATURE_VALID"},
          "ADMITTED", 2, 4, FALSE, "PINNED_VENDOR_SIGNATURE"),
     tier("reproduced", {}, 1, {"REPRODUCIBLE_MATCH"},
          "ADMITTED", 2, 4, FALSE, "REPRODUCED_BUILD") >>

workstation(epoch) ==
  [name |-> "workstation", epoch |-> epoch,
   tiers |-> evidence_tiers \o
     << tier("checksum-verified", {}, 4, {"CONTENT_DIGEST_MATCH"}, "VERIFIED", 1, 1, FALSE,
             "CHECKSUM_VERIFIED"),
        tier("observe-unknown", {}, 6, {}, "OBSERVED", 0, 0, FALSE, "DEFAULT_TIER") >>,
   block_classes |-> {}, setuid_min_provenance |-> 3, writable_path_max_cell |-> 1,
   max_manual_cell |-> 2, evidence_max_age |-> 7, enforce_exec |-> FALSE]

strict(epoch) ==
  [name |-> "strict", epoch |-> epoch,
   tiers |-> evidence_tiers \o
     << tier("quarantine-unknown", {}, 6, {}, "QUARANTINED", 0, 0, TRUE, "DEFAULT_TIER") >>,
   block_classes |-> {}, setuid_min_provenance |-> 2, writable_path_max_cell |-> 0,
   max_manual_cell |-> 1, evidence_max_age |-> 1, enforce_exec |-> FALSE]

-----------------------------------------------------------------------------
(***************************************************************************)
(* evaluate.  Facts are [artifact, evidence, requested, prior, revocations,*)
(* approval]; artifact is [id, digest, signer, class, provenance].         *)
(***************************************************************************)

\* What a cell may hold of a network mode.
cap_network(cell, net) ==
  IF cell = 0 THEN 0 ELSE IF cell = 1 /\ net > 2 THEN 2 ELSE net

finish(state, cell, network, caps, reasons, basis, needs_user) ==
  [state |-> state, cell |-> cell, network |-> network, capabilities |-> caps,
   reasons |-> reasons, basis |-> basis, needs_user |-> needs_user]

Refuse(state, reason, basis) == finish(state, 0, 0, {}, {reason}, basis, FALSE)

\* A bug: the evidence a tier requires is not looked at.
TierIgnoresEvidence(t, f) ==
  /\ t.classes = {} \/ f.artifact.class \in t.classes
  /\ satisfies(f.artifact.provenance, t.max_provenance)

tier_matches(t, f) ==
  /\ t.classes = {} \/ f.artifact.class \in t.classes
  /\ satisfies(f.artifact.provenance, t.max_provenance)
  /\ t.require_evidence \subseteq f.evidence

tier_basis(t) ==
  IF t.require_evidence \cap {"SIGNATURE_VALID", "PACKAGE_SIGNATURE", "REPRODUCIBLE_MATCH"} # {}
  THEN "CRYPTOGRAPHIC"
  ELSE IF permits_normal_execution(t.state) THEN "POLICY" ELSE "NONE"

\* The first tier that matches; the last one, which matches everything, if none did.
first_tier(policy, f) ==
  LET hits == {i \in DOMAIN policy.tiers : tier_matches(policy.tiers[i], f)}
  IN  IF hits = {} THEN policy.tiers[Len(policy.tiers)]
      ELSE policy.tiers[CHOOSE i \in hits : \A j \in hits : i <= j]

\* A bug: the revocation list is not consulted.
RevokedByEvidenceOnly(f) == "REVOCATION_HIT" \in f.evidence

revoked(f) == hit(f.revocations, f.artifact) \/ "REVOCATION_HIT" \in f.evidence

\* A bug: the branches are swapped.
IdleDegrades(prior) == IF permits_normal_execution(prior) THEN "QUARANTINED" ELSE "DEGRADED"
\* A bug: changed content degrades whatever was there.
AlwaysDegraded(prior) == "DEGRADED"

\* Where changed content moves an artifact.
changed_content(prior) == IF permits_normal_execution(prior) THEN "DEGRADED" ELSE "QUARANTINED"

Prohibited(policy, f) ==
  "FORBIDDEN_BEHAVIOR" \in f.evidence \/ f.artifact.class \in policy.block_classes

base_decision(policy, f) ==
  IF "SIGNATURE_INVALID" \in f.evidence
  THEN finish("QUARANTINED", 0, 0, {}, {"BAD_SIGNATURE"}, "NONE", TRUE)
  ELSE LET t == first_tier(policy, f)
       IN  finish(t.state, t.cell, t.network, {}, {t.reason}, tier_basis(t), t.needs_user)

setuid_guard(policy, f, d) ==
  IF "SETUID_BIT" \in f.evidence /\ ~satisfies(f.artifact.provenance, policy.setuid_min_provenance)
  THEN finish("QUARANTINED", 0, 0, {}, d.reasons \cup {"SETUID_EXECUTABLE"}, "NONE", TRUE)
  ELSE d

writable_guard(policy, f, d) ==
  IF "WRITABLE_PATH" \in f.evidence /\ d.cell > policy.writable_path_max_cell
  THEN [d EXCEPT !.cell = policy.writable_path_max_cell,
                 !.network = cap_network(policy.writable_path_max_cell, d.network),
                 !.reasons = @ \cup {"WRITABLE_LOCATION", "CELL_CAPPED"}]
  ELSE d

\* A bug: capabilities are handed out whatever the cell and the risk.
GrantAnything(f, d) == [d EXCEPT !.capabilities = f.requested]

requested_capabilities(f, d) ==
  IF permits_normal_execution(d.state) /\ d.cell > 0
  THEN LET risky == f.requested \cap HighRisk
       IN  [d EXCEPT !.capabilities = f.requested \ HighRisk,
                     !.reasons = IF risky = {} THEN @ ELSE @ \cup {"HIGH_RISK_CAPABILITY"},
                     !.needs_user = @ \/ risky # {}]
  ELSE d

apply_approval(policy, f, now, d) ==
  IF ~applies_to(f.approval, f.artifact.id, now) THEN d
  ELSE LET a == f.approval
           capped == a.cell > policy.max_manual_cell
           cell == IF capped THEN policy.max_manual_cell ELSE a.cell
       IN  finish("ADMITTED", cell, cap_network(cell, a.network),
                  IF cell > 0 THEN a.capabilities ELSE {},
                  d.reasons \cup {"OPERATOR_AUTHORIZED"} \cup (IF capped THEN {"CELL_CAPPED"} ELSE {}),
                  IF permits_normal_execution(d.state) THEN d.basis ELSE "MANUAL_OVERRIDE",
                  FALSE)

evaluate(policy, f, now) ==
  IF revoked(f)
  THEN Refuse("REVOKED", "REVOKED", "POLICY")
  ELSE IF f.prior = "REVOKED"
  THEN Refuse("REVOKED", "PREVIOUSLY_REVOKED", "POLICY")
  ELSE IF "CONTENT_DIGEST_MISMATCH" \in f.evidence
  THEN Refuse(changed_content(f.prior), "CONTENT_CHANGED", "NONE")
  ELSE IF Prohibited(policy, f)
  THEN Refuse("POLICY_BLOCKED", "POLICY_PROHIBITION", "POLICY")
  ELSE LET d == writable_guard(policy, f, setuid_guard(policy, f, base_decision(policy, f)))
       IN  apply_approval(policy, f, now, requested_capabilities(f, d))
=============================================================================
