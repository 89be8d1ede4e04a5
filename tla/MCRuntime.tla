------------------------------ MODULE MCRuntime -----------------------------
(***************************************************************************)
(* What jlrd and the processes of a cell bring about in the end, on small  *)
(* instances: the daemon's mount watcher, its gate thread and its rescans  *)
(* of the state directory, and the launcher of a cell with its two stages. *)
(*                                                                         *)
(* The four share no state: the engine is external to ExecGate and to      *)
(* Cell.  Each property is about one of them, so it is enough that one     *)
(* moves at a time; which one is chosen at the start, and the others stay  *)
(* where they begin.                                                       *)
(***************************************************************************)
EXTENDS Cell

VARIABLES
  part,  \* the component that moves
  mounts, marks, raised, watcher, listed, refused, changes, errors, refusals,
  stamp, drift, signed, wall, mono, lock, notify, known, held, gate,
  cache, generation, seen_gen, enforce_hint, queue, rescan, published,
  content, edits, log, objects, dirty, files, ghosts, policy, list, index, todo, crashes, losses

\* Two mount points, two real file systems, one of which cannot be examined.
M == INSTANCE MountWatch WITH
       Points <- {"p", "q"}, Real <- {"a", "fuse"}, Opaque <- {"fuse"}, Pseudo <- {"proc"},
       MaxChanges <- 2, MaxErrors <- 1, MaxRefused <- 1, known <- listed

\* One file, executed by the daemon and by a user, while the signed state changes.
G == INSTANCE ExecGate WITH
       Files <- {"f"}, Users <- {"self", "user"}, FailClosed <- FALSE, ForceAudit <- FALSE,
       MaxEdits <- 0, MaxSigned <- 1, MaxTries <- 1, MaxDrift <- 0, MaxTime <- 0, MaxSleep <- 0,
       Hour <- 1, Lifetime <- 1, CacheLimit <- 1, QueueLimit <- 1

\* One artifact, a crash and a lost index.
E == INSTANCE Engine WITH
       HighRisk <- {}, PlainNames <- {}, ShortNames <- {}, Ids <- {"x"}, Grants <- {2},
       MaxEdits <- 0, MaxEpoch <- 2, MaxCrashes <- 1, MaxLosses <- 1, stamp <- edits

\* One decision for each way the specification of a cell can turn out.
SomeDecisions ==
  LET D(s, c, n, g) == [state |-> s, cell |-> c, network |-> n, grants |-> g]
  IN  {D("OBSERVED", "CELL-0", "NONE", FALSE), D("OBSERVED", "CELL-1", "NONE", FALSE),
       D("VERIFIED", "CELL-1", "DESTINATION_ALLOWLIST", TRUE), D("ADMITTED", "CELL-2", "FULL_USER_NETWORK", TRUE),
       D("QUARANTINED", "CELL-0", "NONE", FALSE), D("ADMITTED", "CELL-3", "FULL_USER_NETWORK", FALSE),
       D("ADMITTED", "CELL-2", "MEDIATED_PROXY", FALSE)}
FirstDecision == [state |-> "OBSERVED", cell |-> "CELL-0", network |-> "NONE", grants |-> FALSE]

mountVars == <<mounts, marks, raised, watcher, listed, refused, changes, errors, refusals>>
gateVars == <<stamp, drift, signed, wall, mono, lock, notify, known, held, gate, cache, generation, seen_gen,
              enforce_hint, queue, rescan, published>>
engineVars == <<content, edits, log, objects, dirty, files, ghosts, policy, list, index, todo, crashes,
                losses>>
all == <<part, mountVars, gateVars, engineVars, vars>>

OfMounts(A) == part = "mounts" /\ A /\ UNCHANGED <<part, gateVars, engineVars, vars>>
OfGate(A) == part = "gate" /\ A /\ UNCHANGED <<part, mountVars, engineVars, vars>>
OfEngine(A) == part = "engine" /\ A /\ UNCHANGED <<part, mountVars, gateVars, vars>>
OfCell(A) == part = "cell" /\ A /\ UNCHANGED <<part, mountVars, gateVars, engineVars>>

RuntimeInit ==
  /\ part \in {"mounts", "gate", "engine", "cell"}
  /\ M!Init /\ G!Init /\ E!Init /\ Init
  /\ part # "mounts" => mounts["p"] = <<>> /\ mounts["q"] = <<>>
  /\ part # "cell" => spec = FirstDecision /\ rootful

RuntimeNext == OfMounts(M!Next) \/ OfGate(G!Next) \/ OfEngine(E!Next) \/ OfCell(Next)

\* The fairness of each component, as its module states it.  Only one of them ever moves:
\* fairness of a disjunction of their steps is that of each.
RuntimeSpec ==
  /\ RuntimeInit /\ [][RuntimeNext]_all
  /\ WF_all(OfMounts(M!Watch) \/ OfGate(G!GateStep) \/ OfEngine(E!Step) \/ OfCell(Launcher))
  /\ WF_all(OfEngine(E!RebuildIndex) \/ OfCell(Stage1)) /\ WF_all(OfCell(Stage2))
  /\ SF_all(OfEngine(E!Age)) /\ ([]<>(part = "engine" /\ E!Open) => []<><<OfEngine(E!scan)>>_all)

-----------------------------------------------------------------------------
\* A file system that stays mounted is gated at last (mount_watcher).
GatedAtLast == M!GatedAtLast

\* Every exec is answered, whoever holds the ledger lock (the gate loop of jlrd).
ExecsAnswered == G!ExecsAnswered

\* A listed artifact that stays on the disk is REVOKED in the ledger at last
\* (scan after a crash of revoke_report).
RevokedAtLast == E!RevokedAtLast
=============================================================================
