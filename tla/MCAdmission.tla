---------------------------- MODULE MCAdmission ----------------------------
(***************************************************************************)
(* Small instances of Admission, and of where the evidence for a decision  *)
(* comes from: the measurement of a file, up to the run of what was        *)
(* measured, and the index of the package database.                        *)
(*                                                                         *)
(* Evidence is free in Admission, so the three share no state and every    *)
(* property is about one of them: one moves at a time; which one is chosen *)
(* at the start, and the others stay where they begin.                     *)
(***************************************************************************)
EXTENDS Admission, Measure, DpkgCache

MCHighRisk == {"RAW_NETWORK"}
MCPlain == {"workstation", "strict", "site", "managed-boot", "managed-package", "pinned-vendor",
            "reproduced", "checksum-verified", "observe-unknown", "quarantine-unknown", "a", "last"}
MCShort == MCPlain \cup {"old name"}

Art(class, provenance) ==
  [id |-> "e1", digest |-> "d1", signer |-> "s1", class |-> class, provenance |-> provenance]
MCArtifacts == {Art("EXE", 6), Art("MODULE", 3)}

\* A site's own policy: one tier before the catch-all.
Site(epoch, name, t, last) ==
  [name |-> name, epoch |-> epoch, tiers |-> <<t, last>>, block_classes |-> {"SCRIPT"},
   setuid_min_provenance |-> 1, writable_path_max_cell |-> 1, max_manual_cell |-> 1,
   evidence_max_age |-> 1, enforce_exec |-> TRUE]

Verify(cell, network, needs_user) ==
  tier("a", {}, 4, {"SIGNATURE_VALID"}, "VERIFIED", cell, network, needs_user, "SIGNATURE_VERIFIED")
CatchAll(st, cell, network) == tier("last", {}, 6, {}, st, cell, network, FALSE, "DEFAULT_TIER")

FewPolicies ==
  {workstation(1), strict(2), Site(3, "site", Verify(1, 4, FALSE), CatchAll("QUARANTINED", 0, 0)),
   Site(3, "old name", Verify(1, 4, FALSE), CatchAll("QUARANTINED", 0, 0)),
   [workstation(4) EXCEPT !.name = "old name", !.block_classes = {"EXE"}]}

\* What validation has to refuse: catch-alls that run or give authority to what does
\* not, and tiers that let software run on nothing, from anywhere, or in no cell.
Doubtful ==
  {Site(5, "site", Verify(1, 4, FALSE), last) :
     last \in {CatchAll("OBSERVED", 1, 0), CatchAll("OBSERVED", 0, 1), CatchAll("VERIFIED", 1, 0)}}
  \cup {Site(5, "site", t, CatchAll("OBSERVED", 0, 0)) :
          t \in {[Verify(1, 0, FALSE) EXCEPT !.require_evidence = {}],
                [Verify(1, 0, FALSE) EXCEPT !.max_provenance = 6],
                [Verify(1, 0, FALSE) EXCEPT !.state = "POLICY_BLOCKED"],
                Verify(4, 0, FALSE)}}
MCPolicies == FewPolicies \cup Doubtful

Signed == {"SIGNATURE_VALID", "CONTENT_DIGEST_MATCH"}
Packaged == {"MANAGED_INSTALLER", "PACKAGE_SIGNATURE", "PACKAGE_MANIFEST_MATCH"}
MCEvidence ==
  {{}, Signed, Packaged, {"CONTENT_DIGEST_MATCH", "WRITABLE_PATH"}, Packaged \cup {"SETUID_BIT", "WRITABLE_PATH"},
   Signed \cup {"SIGNATURE_INVALID"}, {"FORBIDDEN_BEHAVIOR"}, {"CONTENT_DIGEST_MISMATCH"},
   {"REVOCATION_HIT"}}
MCRequests == {{}, {"RAW_NETWORK", "DEV_AUDIO"}}
MCApprovals ==
  {[cell |-> 3, network |-> 5, capabilities |-> {"RAW_NETWORK"}, ttl |-> 1],
   [cell |-> 0, network |-> 4, capabilities |-> {"DEV_AUDIO"}, ttl |-> 1]}
MCBaselines == {[cell |-> 2, network |-> 4, ttl |-> 1]}
MCEntries == {[kind |-> "DIGEST", target |-> "d1"]}

-----------------------------------------------------------------------------
VARIABLE part  \* the component that moves

MCManifest == <<0, 1>>

all == <<part, vars, measureVars, dpkgVars>>

OfArtifact(A) == part = "artifact" /\ A /\ UNCHANGED <<part, measureVars, dpkgVars>>
OfFile(A) == part = "file" /\ A /\ UNCHANGED <<part, vars, dpkgVars>>
OfDpkg(A) == part = "dpkg" /\ A /\ UNCHANGED <<part, vars, measureVars>>

AdmissionInit ==
  /\ part \in {"artifact", "file", "dpkg"}
  /\ Init /\ MeasureInit /\ DpkgInit
  /\ part # "artifact" => artifact = Art("EXE", 6) /\ policy = workstation(1)
  /\ part # "file" => file = <<0>> /\ path = "this"

AdmissionNext == OfArtifact(Next) \/ OfFile(MeasureNext) \/ OfDpkg(DpkgNext)

AdmissionSpec == AdmissionInit /\ [][AdmissionNext]_all
=============================================================================
