------------------------- MODULE LedgerRefinement --------------------------
(***************************************************************************)
(* The disciplined ledger implements EvidenceLog: its durable entries are  *)
(* those that every content a power cut may leave of events.log begins     *)
(* with.                                                                   *)
(***************************************************************************)
EXTENDS Ledger

\* The leaves that every one of these contents of events.log begins with.
CommonLeaves(contents) ==
  {leaves \in UNION {{SubSeq(Leaves(evs), 1, n) : n \in 0 .. NumFrames(evs)} : evs \in contents} :
     \A evs \in contents : IsPrefixOf(leaves, evs)}

LongestCommon(contents) ==
  CHOOSE longest \in CommonLeaves(contents) :
    \A other \in CommonLeaves(contents) : Len(other) <= Len(longest)

DurableLeaves == LongestCommon(disk["events"])

Abstract == INSTANCE EvidenceLog WITH durable <- DurableLeaves

\* The ledger with its files, torn writes, rollbacks, repairs, kills and power
\* cuts is an append-only log: no step of it takes back a durable entry, an
\* acknowledgement or an anchored root.
ImplementsEvidenceLog == Abstract!Spec
=============================================================================
