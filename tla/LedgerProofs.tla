---------------------------- MODULE LedgerProofs ----------------------------
(***************************************************************************)
(* Proofs that the disciplined ledger (SyncedSpec) keeps its promises for  *)
(* every number of events, checkpoints and faults: what the file           *)
(* operations do to a log and to the claims about the past; that every     *)
(* step, of the ledger, of the reader and of a crash, keeps LedgerInv; the *)
(* theorems; and that the ledger implements EvidenceLog, an append-only    *)
(* log, step by step.                                                      *)
(***************************************************************************)
EXTENDS LedgerInvariant, LedgerRefinement, SequenceTheorems, WellFoundedInduction, TLAPS

USE DEF Logs

-----------------------------------------------------------------------------
(***************************************************************************)
(* What the file operations do to a log.                                   *)
(***************************************************************************)

\* newer holds every whole frame of older, at its place (an append, a cut of a
\* torn tail and a rollback all give such a log).
Extends(newer, older) ==
  /\ NumFrames(older) <= NumFrames(newer)
  /\ \A k \in 1 .. NumFrames(older) : newer[k] = older[k]

\* Appending a whole frame behind whole frames (append_frame's success).
LEMMA AppendWhole ==
  ASSUME NEW S, NEW log \in Seq(S), NEW f \in S, f.bytes = "all", ~IsTorn(log)
  PROVE  /\ Append(log, f) \in Seq(S)
         /\ Len(Append(log, f)) = Len(log) + 1
         /\ ~IsTorn(Append(log, f))
         /\ NumFrames(log) = Len(log)
         /\ NumFrames(Append(log, f)) = Len(log) + 1
         /\ \A k \in 1 .. Len(log) : Append(log, f)[k] = log[k]
         /\ Append(log, f)[Len(log) + 1] = f
BY DEF IsTorn, NumFrames

\* Appending a frame cut short (a short write) adds no frame.
LEMMA AppendTorn ==
  ASSUME NEW S, NEW log \in Seq(S), NEW f \in S, f.bytes = "some", ~IsTorn(log)
  PROVE  /\ Append(log, f) \in Seq(S)
         /\ Len(Append(log, f)) = Len(log) + 1
         /\ IsTorn(Append(log, f))
         /\ NumFrames(log) = Len(log)
         /\ NumFrames(Append(log, f)) = Len(log)
         /\ \A k \in 1 .. Len(log) : Append(log, f)[k] = log[k]
BY DEF IsTorn, NumFrames

\* Cutting a torn tail (open_with_events) removes no frame.
LEMMA CutTorn ==
  ASSUME NEW S, NEW log \in Seq(S), IsTorn(log), WellFramed(log)
  PROVE  /\ SubSeq(log, 1, Len(log) - 1) \in Seq(S)
         /\ Len(SubSeq(log, 1, Len(log) - 1)) = Len(log) - 1
         /\ ~IsTorn(SubSeq(log, 1, Len(log) - 1))
         /\ NumFrames(SubSeq(log, 1, Len(log) - 1)) = Len(log) - 1
         /\ NumFrames(log) = Len(log) - 1
         /\ \A k \in 1 .. Len(log) - 1 : SubSeq(log, 1, Len(log) - 1)[k] = log[k]
<1> DEFINE n == Len(log) - 1
           cut == SubSeq(log, 1, n)
<1>1. n \in Nat /\ n = Len(log) - 1 /\ \A k \in 1 .. n : log[k] \in S
  BY DEF IsTorn
<1> HIDE DEF n
<1>2. /\ cut \in Seq(S) /\ Len(cut) = n
      /\ \A k \in 1 .. n : cut[k] = log[k]
  BY <1>1, SubSeqProperties
<1> HIDE DEF cut
<1>3. ~IsTorn(cut)
  BY <1>1, <1>2 DEF IsTorn, WellFramed
<1>4. QED
  BY <1>1, <1>2, <1>3, Zenon DEF NumFrames, cut, n

\* The number of frames is a natural number within the log.
LEMMA NumFramesType ==
  ASSUME NEW S, NEW log \in Seq(S)
  PROVE  NumFrames(log) \in 0 .. Len(log) /\ NumFrames(log) \in Nat /\ Len(log) \in Nat
BY DEF IsTorn, NumFrames

\* A whole log stays framed when a frame, whole or short, is put behind it.
LEMMA AppendWellFramed ==
  ASSUME NEW S, \A x \in S : x.bytes \in {"all", "some"},
         NEW log \in Seq(S), NEW f \in S, WellFramed(log), ~IsTorn(log)
  PROVE  WellFramed(Append(log, f))
BY DEF WellFramed, IsTorn

\* Cutting a torn tail (set_len(valid_len)) leaves a framed log.
LEMMA CutWellFramed ==
  ASSUME NEW S, NEW log \in Seq(S), WellFramed(log), IsTorn(log)
  PROVE  WellFramed(SubSeq(log, 1, Len(log) - 1))
BY CutTorn DEF WellFramed, IsTorn

\* The part of an event frame that a short write leaves is a torn frame.
LEMMA ShortenEvent ==
  ASSUME NEW f \in EventFrame
  PROVE  Shorten(f) \in EventFrame /\ Shorten(f).bytes = "some"
BY Zenon DEF Shorten, EventFrame

\* The part of a checkpoint frame that a short write leaves is a torn frame.
LEMMA ShortenCheckpoint ==
  ASSUME NEW f \in CheckpointFrame
  PROVE  Shorten(f) \in CheckpointFrame /\ Shorten(f).bytes = "some"
BY Zenon DEF Shorten, CheckpointFrame

\* Cutting an append back (truncate(before)) restores the log.
LEMMA CutAppend ==
  ASSUME NEW S, NEW log \in Seq(S), NEW f \in S
  PROVE  SubSeq(Append(log, f), 1, Len(log)) = log
<1> DEFINE new == Append(log, f)
<1>1. Len(log) \in Nat /\ \A k \in 1 .. Len(log) : new[k] = log[k] /\ new[k] \in S
  OBVIOUS
<1> HIDE DEF new
<1>2. /\ SubSeq(new, 1, Len(log)) \in Seq(S)
      /\ Len(SubSeq(new, 1, Len(log))) = Len(log)
      /\ \A k \in 1 .. Len(log) : SubSeq(new, 1, Len(log))[k] = log[k]
  BY <1>1, SubSeqProperties
<1>3. QED
  BY <1>2, SeqEqual, Zenon DEF new

\* The identities of the whole frames of a log, read off one by one.
LEMMA LeavesFacts ==
  ASSUME NEW evs \in Seq(EventFrame)
  PROVE  /\ Leaves(evs) \in Seq(Nat)
         /\ Len(Leaves(evs)) = NumFrames(evs)
         /\ \A k \in 1 .. NumFrames(evs) : Leaves(evs)[k] = evs[k].id
<1>1. NumFrames(evs) \in 0 .. Len(evs) /\ Len(evs) \in Nat
  BY NumFramesType, Zenon
<1>2. \A k \in 1 .. NumFrames(evs) : evs[k].id \in Nat
  <2>1. \A k \in 1 .. NumFrames(evs) : evs[k] \in EventFrame
    BY <1>1
  <2>2. QED
    BY <2>1, Zenon DEF EventFrame
<1>3. QED
  BY <1>1, <1>2 DEF Leaves

\* A tree as long as events.log whose leaves are those of events.log is the
\* tree that replay builds.
LEMMA LeavesEqual ==
  ASSUME NEW evs \in Seq(EventFrame), NEW leaves \in Seq(Nat),
         Len(leaves) = NumFrames(evs), IsPrefixOf(leaves, evs)
  PROVE  leaves = Leaves(evs)
BY LeavesFacts, SeqEqual, Zenon DEF IsPrefixOf

-----------------------------------------------------------------------------
(***************************************************************************)
(* Claims about the past survive in a log that extends an earlier one.     *)
(***************************************************************************)

\* A checkpoint that verifies against events.log verifies against every log
\* that extends it.
LEMMA CoversExtends ==
  ASSUME NEW cp \in CheckpointFrame,
         NEW old \in Seq(EventFrame), NEW new \in Seq(EventFrame),
         Extends(new, old), Covers(cp, old)
  PROVE  Covers(cp, new)
<1>1. NumFrames(old) \in Nat /\ NumFrames(new) \in Nat /\ cp.size \in Nat
  BY NumFramesType, Zenon DEF CheckpointFrame
<1>2. QED
  BY <1>1 DEF Covers, WithinLog, Commits, Extends

\* Leaves found in events.log are found in every log that extends it.
LEMMA PrefixExtends ==
  ASSUME NEW leaves \in Seq(Nat),
         NEW old \in Seq(EventFrame), NEW new \in Seq(EventFrame),
         Extends(new, old), IsPrefixOf(leaves, old)
  PROVE  IsPrefixOf(leaves, new)
<1>1. NumFrames(old) \in Nat /\ NumFrames(new) \in Nat /\ Len(leaves) \in Nat
  BY NumFramesType, Zenon
<1>2. /\ Len(leaves) <= NumFrames(old) /\ NumFrames(old) <= NumFrames(new)
      /\ \A k \in 1 .. Len(leaves) : leaves[k] = old[k].id
      /\ \A k \in 1 .. NumFrames(old) : new[k] = old[k]
  BY Zenon DEF IsPrefixOf, Extends
<1>3. \A k \in 1 .. Len(leaves) : k \in 1 .. NumFrames(old)
  BY <1>1, <1>2
<1>4. \A k \in 1 .. Len(leaves) : leaves[k] = new[k].id
  BY <1>2, <1>3, Zenon
<1>5. QED
  BY <1>1, <1>2, <1>4 DEF IsPrefixOf

\* A step that only extends what events.log may hold keeps every claim.
LEMMA VouchedStays ==
  ASSUME disk["events"] \subseteq Seq(EventFrame),
         disk'["events"] \subseteq Seq(EventFrame),
         \A new \in disk'["events"] : \E old \in disk["events"] : Extends(new, old),
         NEW cp \in CheckpointFrame, Vouched(cp)
  PROVE  Vouched(cp)'
<1> SUFFICES ASSUME NEW new \in disk'["events"] PROVE Covers(cp, new)
  BY Zenon DEF Vouched
<1>1. PICK old \in disk["events"] : Extends(new, old)
  OBVIOUS
<1>2. Covers(cp, old)
  BY Zenon DEF Vouched
<1>3. QED
  BY <1>1, <1>2, CoversExtends, Zenon

\* Acknowledged leaves stay on disk when every new possible content of
\* events.log extends an old one.
LEMMA AckedStays ==
  ASSUME disk["events"] \subseteq Seq(EventFrame),
         disk'["events"] \subseteq Seq(EventFrame),
         \A new \in disk'["events"] : \E old \in disk["events"] : Extends(new, old),
         NEW leaves \in Seq(Nat),
         \A evs \in disk["events"] : IsPrefixOf(leaves, evs)
  PROVE  \A evs \in disk'["events"] : IsPrefixOf(leaves, evs)
<1> SUFFICES ASSUME NEW new \in disk'["events"] PROVE IsPrefixOf(leaves, new)
  OBVIOUS
<1>1. PICK old \in disk["events"] : Extends(new, old)
  OBVIOUS
<1>2. QED
  BY <1>1, PrefixExtends, Zenon

\* The part of the invariant that is about the past: the files, the claims made
\* about them, and the reader.
Past == DiskSound /\ ClaimsHold /\ AnchorsLocal /\ ReaderSound

\* A log extends itself.
LEMMA ExtendsSelf ==
  ASSUME NEW S, NEW log \in Seq(S)
  PROVE  Extends(log, log)
BY NumFramesType DEF Extends

\* A whole frame of a log is an element of the log.
LEMMA FrameTypes ==
  ASSUME NEW S, NEW log \in Seq(S), NEW k \in 1 .. NumFrames(log)
  PROVE  log[k] \in S /\ k \in 1 .. Len(log)
<1>1. NumFrames(log) \in 0 .. Len(log) /\ Len(log) \in Nat
  BY NumFramesType, Zenon
<1>2. k \in 1 .. Len(log)
  BY <1>1
<1>3. QED
  BY <1>2

\* A step that leaves the disk and the claims alone keeps what is known of both.
LEMMA PastUnchanged ==
  ASSUME LedgerInv, UNCHANGED <<disk, reader, acked, anchored>>
  PROVE  Past'
BY Zenon DEF LedgerInv, Past, DiskSound, ClaimsHold, AnchorsLocal, ReaderSound, Vouched

\* New possible contents of events.log that extend old ones.
LEMMA EventsWritten ==
  ASSUME LedgerInv, NEW contents \in SUBSET Seq(EventFrame),
         disk' = [disk EXCEPT !["events"] = @ \cup contents],
         \A new \in contents :
           WellFramed(new) /\ Chained(new) /\ \E old \in disk["events"] : Extends(new, old),
         UNCHANGED <<reader, acked, anchored>>
  PROVE  Past'
<1>1. /\ disk'["events"] = disk["events"] \cup contents
      /\ disk'["checkpoints"] = disk["checkpoints"]
      /\ disk["events"] \subseteq Seq(EventFrame)
      /\ disk["checkpoints"] \subseteq Seq(CheckpointFrame)
  BY Zenon DEF LedgerInv, TypeOK
<1>2. DiskSound'
  BY <1>1, Zenon DEF LedgerInv, DiskSound
<1>3. \A new \in disk'["events"] : \E old \in disk["events"] : Extends(new, old)
  BY <1>1, ExtendsSelf, Zenon
<1>4. \A cp \in CheckpointFrame : Vouched(cp) => Vouched(cp)'
  BY <1>1, <1>3, VouchedStays, Zenon
<1>5. ClaimsHold'
  <2>1. \A cps \in disk["checkpoints"] : \A k \in 1 .. NumFrames(cps) : cps[k] \in CheckpointFrame
    BY <1>1, FrameTypes, Zenon
  <2>2. reader.between =>
          \A k \in 1 .. NumFrames(reader.seen) : reader.seen[k] \in CheckpointFrame
    BY FrameTypes, Zenon DEF LedgerInv, ReaderSound
  <2>3. \A evs \in disk'["events"] : IsPrefixOf(acked, evs)
    BY <1>1, <1>3, AckedStays, Zenon DEF LedgerInv, ClaimsHold, TypeOK
  <2>4. \A cp \in anchored : Vouched(cp)'
    BY <1>4, Zenon DEF LedgerInv, ClaimsHold, TypeOK
  <2>5. QED
    BY <1>1, <1>4, <2>1, <2>2, <2>3, <2>4, Zenon DEF LedgerInv, ClaimsHold
<1>6. AnchorsLocal' /\ ReaderSound'
  BY <1>1, Zenon DEF LedgerInv, AnchorsLocal, ReaderSound
<1>7. QED
  BY <1>2, <1>5, <1>6, Zenon DEF Past

\* New possible contents of checkpoints.log whose checkpoints are all vouched
\* for and that extend old ones.
LEMMA CheckpointsWritten ==
  ASSUME LedgerInv, NEW contents \in SUBSET Seq(CheckpointFrame),
         disk' = [disk EXCEPT !["checkpoints"] = @ \cup contents],
         \A new \in contents :
           /\ WellFramed(new) /\ Ascending(new)
           /\ \A k \in 1 .. NumFrames(new) : Vouched(new[k])
           /\ \E old \in disk["checkpoints"] : Extends(new, old),
         UNCHANGED <<reader, acked, anchored>>
  PROVE  Past'
<1>1. /\ disk'["checkpoints"] = disk["checkpoints"] \cup contents
      /\ disk'["events"] = disk["events"]
      /\ disk["checkpoints"] \subseteq Seq(CheckpointFrame)
  BY Zenon DEF LedgerInv, TypeOK
<1>2. DiskSound'
  BY <1>1, Zenon DEF LedgerInv, DiskSound
<1>3. \A cp : Vouched(cp) <=> Vouched(cp)'
  BY <1>1, Zenon DEF Vouched
<1>4. ClaimsHold'
  BY <1>1, <1>3, Zenon DEF LedgerInv, ClaimsHold
<1>5. AnchorsLocal'
  <2> SUFFICES ASSUME NEW cp \in anchored, NEW new \in disk'["checkpoints"]
               PROVE  \E k \in 1 .. NumFrames(new) : new[k] = cp
    BY Zenon DEF AnchorsLocal
  <2>1. PICK old \in disk["checkpoints"] : Extends(new, old)
    BY <1>1, ExtendsSelf, Zenon
  <2>2. PICK k \in 1 .. NumFrames(old) : old[k] = cp
    BY Zenon DEF LedgerInv, AnchorsLocal
  <2>3. NumFrames(old) \in Nat /\ NumFrames(new) \in Nat
    BY <1>1, NumFramesType, Zenon
  <2>4. k \in 1 .. NumFrames(new) /\ new[k] = cp
    BY <2>1, <2>2, <2>3 DEF Extends
  <2>5. QED
    BY <2>4, Zenon
<1>6. ReaderSound'
  BY Zenon DEF LedgerInv, ReaderSound
<1>7. QED
  BY <1>2, <1>4, <1>5, <1>6, Zenon DEF Past

\* A sync, or a power cut, leaves fewer possible contents: every claim stays.
LEMMA DiskShrinks ==
  ASSUME LedgerInv,
         disk'["events"] \subseteq disk["events"],
         disk'["checkpoints"] \subseteq disk["checkpoints"]
  PROVE  /\ DiskSound'
         /\ \A cp : Vouched(cp) => Vouched(cp)'
         /\ \A cps \in disk'["checkpoints"] :
              \A k \in 1 .. NumFrames(cps) : Vouched(cps[k])'
         /\ \A evs \in disk'["events"] : IsPrefixOf(acked, evs)
         /\ \A cp \in anchored, cps \in disk'["checkpoints"] :
              \E k \in 1 .. NumFrames(cps) : cps[k] = cp
BY Zenon DEF LedgerInv, DiskSound, ClaimsHold, AnchorsLocal, Vouched

\* A sync or a power cut, which only removes possible contents, keeps every
\* claim about the past.
LEMMA PastShrinks ==
  ASSUME LedgerInv,
         disk'["events"] \subseteq disk["events"],
         disk'["checkpoints"] \subseteq disk["checkpoints"],
         UNCHANGED <<acked, anchored>>,
         UNCHANGED reader \/ reader' = Idle("none")
  PROVE  Past'
<1>1. ClaimsHold'
  BY DiskShrinks DEF LedgerInv, ClaimsHold, Idle
<1>2. AnchorsLocal' /\ ReaderSound'
  BY DiskShrinks DEF LedgerInv, AnchorsLocal, ReaderSound, Idle
<1>3. QED
  BY <1>1, <1>2, DiskShrinks, Zenon DEF Past

-----------------------------------------------------------------------------
(***************************************************************************)
(* The steps that leave the files alone.                                   *)
(***************************************************************************)

\* The Ledger value is dropped (Close, Kill, OpenFails, SetupDone, an error in
\* create or open).
LEMMA ReleasedSound ==
  ASSUME LedgerInv, Released, setup' # "none",
         reader'.between => setup' = "done"
  PROVE  HandleSound' /\ OpSound' /\ SetupSound'
BY Zenon DEF Released, HandleSound, OpSound, SetupSound

\* Dropping the Ledger value keeps the invariant.
LEMMA ReleaseInv ==
  ASSUME LedgerInv, held, Released, UNCHANGED <<file, disk, reader, acked, anchored, offered>>,
         setup' = setup \/ setup' = "done", faults' \in Nat
  PROVE  LedgerInv'
<1>1. TypeOK'
  <2>1. tree' \in Seq(Nat) /\ counter' \in Nat /\ cpSize' \in Nat /\ owed' \subseteq Logs
    BY DEF Released
  <2>2. held' \in BOOLEAN /\ sync' \in BOOLEAN /\ poisoned' \in BOOLEAN
    BY Zenon DEF Released
  <2>3. doing' = "nothing" /\ phase' = "none"
    BY Zenon DEF Released
  <2>4. QED
    BY <2>1, <2>2, <2>3, Zenon DEF LedgerInv, TypeOK
<1>2. Holds("events")' /\ Holds("checkpoints")'
  BY <1>1, Zenon DEF Holds, Base, Released, TypeOK
<1>3. HandleSound' /\ OpSound' /\ SetupSound'
  BY ReleasedSound, Zenon DEF LedgerInv, SetupSound
<1>4. QED
  BY <1>1, <1>2, <1>3, PastUnchanged, Zenon DEF LedgerInv, Past

\* The four ways a holder goes away keep the invariant: the engine is dropped,
\* killed, fails to open, or setup::init ends.
LEMMA DropInv ==
  ASSUME LedgerInv, Close \/ Kill \/ OpenFails \/ SetupDone
  PROVE  LedgerInv'
<1>1. held /\ Released /\ UNCHANGED <<file, disk, reader, acked, anchored, offered>>
  BY Zenon DEF Close, Kill, OpenFails, SetupDone, Ready, history
<1>2. setup' = setup \/ setup' = "done"
  BY Zenon DEF Close, Kill, OpenFails, SetupDone
<1>3. faults' \in Nat
  BY DEF Close, Kill, OpenFails, SetupDone, Fault, LedgerInv, TypeOK
<1>4. QED
  BY <1>1, <1>2, <1>3, ReleaseInv, Zenon

\* Between operations of an unpoisoned holder the tree is exactly events.log.
LEMMA ReadyFacts ==
  ASSUME LedgerInv, held, ~poisoned, phase = "none", doing \notin {"keep", "cut"}
  PROVE  /\ ~IsTorn(file["events"]) /\ ~IsTorn(file["checkpoints"])
         /\ Len(tree) = NumFrames(file["events"]) /\ IsPrefixOf(tree, file["events"])
         /\ counter = LastCheckpoint(file["checkpoints"]).counter
         /\ cpSize = LastCheckpoint(file["checkpoints"]).size
         /\ tree # <<>>
BY Zenon DEF LedgerInv, HandleSound, Base, SetupSound

\* Ledger::append up to append_frame.
LEMMA OfferInv ==
  ASSUME LedgerInv, NEW kind \in {"event", "degraded"}, NEW fatal \in BOOLEAN,
         held, phase = "none",
         doing \in {"nothing", "setup", "report"}, doing' \in {"nothing", "report", doing},
         (doing' = "setup") => doing = "setup" /\ fatal,
         Offer(kind, fatal),
         UNCHANGED disk \/ AllDurable,
         UNCHANGED <<file, setup, held, tree, counter, cpSize, sync, poisoned, reader,
                     acked, anchored, faults>>,
         owed' \subseteq Logs
  PROVE  LedgerInv'
<1>1. /\ ~IsTorn(file["events"]) /\ ~IsTorn(file["checkpoints"]) /\ tree # <<>>
      /\ ~poisoned
  BY ReadyFacts, Zenon DEF Offer
<1>0. /\ DOMAIN disk' = Logs
      /\ \A log \in Logs : file[log] \in disk'[log] /\ disk'[log] \subseteq disk[log]
  BY DEF AllDurable, LedgerInv, TypeOK
<1>2. TypeOK'
  <2>1. offered' \in [Logs -> Nat]
    BY DEF LedgerInv, TypeOK, Offer
  <2>2. phase' = "write"
    BY Zenon DEF Offer
  <2>3. QED
    BY <1>0, <2>1, <2>2, Zenon DEF LedgerInv, TypeOK
<1>3. Holds("events")' /\ Holds("checkpoints")'
  BY <1>0, Zenon DEF Holds, Base, Offer, LedgerInv, TypeOK
<1>4. HandleSound'
  BY <1>1, Zenon DEF LedgerInv, HandleSound, Base, Offer, TornLogs
<1>5. OpSound'
  <2>1. op'.frame \in EventFrame
    <3>1. LastLeaf \in Nat /\ Len(tree) \in Nat
      BY <1>1 DEF LastLeaf, LedgerInv, TypeOK
    <3>2. offered["events"] + 1 \in Nat
      BY DEF LedgerInv, TypeOK
    <3>3. QED
      BY <3>1, <3>2, Zenon DEF Offer, EventFrame
  <2>2. QED
    BY <1>1, <2>1, Zenon DEF OpSound, Offer, Base, LastLeaf
<1>6. SetupSound'
  BY <1>1, Zenon DEF LedgerInv, SetupSound, Offer
<1>7. Past'
  BY <1>0, PastShrinks, Zenon
<1>8. QED
  BY <1>2, <1>3, <1>4, <1>5, <1>6, <1>7, Zenon DEF LedgerInv, Past

\* Ledger::checkpoint up to append_frame, while the events are durable.
LEMMA OfferCheckpointInv ==
  ASSUME LedgerInv, NEW external \in BOOLEAN, NEW fatal \in BOOLEAN,
         held, phase = "none", sync, disk["events"] = {file["events"]},
         doing \in {"nothing", "checkpoint", "setup"}, doing' \in {"nothing", "sync", "setup"},
         (doing' = "setup") => doing = "setup" /\ fatal,
         OfferCheckpoint(external, fatal),
         UNCHANGED <<file, disk, setup, held, tree, counter, cpSize, sync, poisoned, owed,
                     reader, acked, anchored, faults>>
  PROVE  LedgerInv'
<1>1. /\ ~IsTorn(file["events"]) /\ ~IsTorn(file["checkpoints"]) /\ tree # <<>>
      /\ Len(tree) = NumFrames(file["events"]) /\ IsPrefixOf(tree, file["events"])
      /\ ~poisoned
  BY ReadyFacts, Zenon DEF OfferCheckpoint
<1>2. TypeOK'
  <2>1. offered' \in [Logs -> Nat]
    BY DEF LedgerInv, TypeOK, OfferCheckpoint
  <2>2. phase' = "write"
    BY Zenon DEF OfferCheckpoint
  <2>3. QED
    BY <2>1, <2>2, Zenon DEF LedgerInv, TypeOK
<1>3. Holds("events")' /\ Holds("checkpoints")'
  BY Zenon DEF Holds, Base, OfferCheckpoint, LedgerInv, TypeOK
<1>4. HandleSound'
  BY <1>1, Zenon DEF LedgerInv, HandleSound, Base, OfferCheckpoint, TornLogs
<1>5. OpSound'
  <2>1. op'.frame \in CheckpointFrame
    BY DEF OfferCheckpoint, CheckpointFrame, LedgerInv, TypeOK
  <2>2. Vouched(op.frame)'
    <3>1. op'.frame.root = tree /\ op'.frame.size = Len(tree)
      BY Zenon DEF OfferCheckpoint
    <3>2. Covers(op'.frame, file["events"])
      BY <1>1, <3>1, Zenon DEF Covers, WithinLog, Commits, IsPrefixOf, LedgerInv, TypeOK
    <3>3. QED
      BY <3>2, Zenon DEF Vouched
  <2>3. QED
    BY <1>1, <2>1, <2>2, Zenon DEF OpSound, OfferCheckpoint, Base
<1>6. SetupSound'
  BY <1>1, Zenon DEF LedgerInv, SetupSound, OfferCheckpoint
<1>7. QED
  BY <1>2, <1>3, <1>4, <1>5, <1>6, PastUnchanged, Zenon DEF LedgerInv, Past

\* Every caller of Ledger::append and Ledger::checkpoint keeps the invariant.
LEMMA OffersInv ==
  ASSUME LedgerInv,
         \/ AppendEvent \/ SetupEvent \/ Report
         \/ FlushCheckpoint \/ SetupCheckpoint \/ DurableCheckpoint
  PROVE  LedgerInv'
<1>1. CASE AppendEvent
  BY <1>1, OfferInv, Zenon DEF AppendEvent, Ready, LedgerInv, TypeOK, history
<1>2. CASE SetupEvent
  BY <1>2, OfferInv, Zenon DEF SetupEvent, LedgerInv, TypeOK, history
<1>3. CASE Report
  <2>1. doing' \in {"nothing", "report"} /\ owed' \subseteq Logs
    BY <1>3, Zenon DEF Report, LedgerInv, TypeOK
  <2>2. QED
    BY <1>3, <2>1, OfferInv, Zenon DEF Report, history
<1>4. CASE FlushCheckpoint
  <2>1. phase = "none" /\ sync /\ disk["events"] = {file["events"]}
    BY <1>4, Zenon DEF FlushCheckpoint, LedgerInv, HandleSound
  <2>2. QED
    BY <1>4, <2>1, OfferCheckpointInv, Zenon DEF FlushCheckpoint, history
<1>5. CASE SetupCheckpoint
  <2>1. sync /\ disk["events"] = {file["events"]}
    BY <1>5, Zenon DEF SetupCheckpoint, LedgerInv, SetupSound
  <2>2. QED
    BY <1>5, <2>1, OfferCheckpointInv, Zenon DEF SetupCheckpoint, history
<1>6. CASE DurableCheckpoint
  BY <1>6, OfferCheckpointInv, Zenon DEF DurableCheckpoint, OperatorCheckpoint, Ready, history
<1>7. QED
  BY <1>1, <1>2, <1>3, <1>4, <1>5, <1>6, Zenon

\* setup::init reaches Ledger::create in an empty directory.
LEMMA CreateInv ==
  ASSUME LedgerInv, Create
  PROVE  LedgerInv'
<1>1. /\ file["events"] = <<>> /\ file["checkpoints"] = <<>>
      /\ tree = <<>> /\ counter = 0 /\ cpSize = 0 /\ sync /\ ~poisoned /\ phase = "none"
      /\ ~reader.between
  BY Zenon DEF Create, LedgerInv, SetupSound
<1>2. /\ UNCHANGED <<file, disk, reader, acked, anchored, tree, counter, cpSize, sync, poisoned>>
      /\ held' = TRUE /\ setup' = "begun" /\ doing' = "setup" /\ phase' = "write"
      /\ op' = [log |-> "events", before |-> Len(file["events"]),
                fatal |-> TRUE, external |-> FALSE,
                frame |-> [id |-> offered["events"] + 1, seq |-> Len(tree),
                           prev |-> LastLeaf, kind |-> "genesis", bytes |-> "all"]]
  BY Zenon DEF Create, Offer, history
<1>3. TypeOK'
  <2>1. offered' \in [Logs -> Nat] /\ owed' \subseteq Logs /\ faults' \in Nat
    BY SMTT(30) DEF LedgerInv, TypeOK, Offer, Create
  <2>2. QED
    BY <1>2, <2>1, Zenon DEF LedgerInv, TypeOK
<1>4. Holds("events")' /\ Holds("checkpoints")'
  BY <1>2, Zenon DEF Holds, Base, LedgerInv, TypeOK
<1>5. HandleSound'
  BY <1>1, <1>2, SMTT(30) DEF HandleSound, Base, IsPrefixOf, NumFrames, IsTorn, LastCheckpoint
<1>6. OpSound'
  <2>1. op'.frame \in EventFrame
    BY <1>1, <1>2, SMTT(30) DEF EventFrame, LastLeaf, LedgerInv, TypeOK
  <2>2. QED
    BY <1>1, <1>2, <2>1, Zenon DEF OpSound, Base, LastLeaf
<1>7. SetupSound'
  BY <1>1, <1>2, Zenon DEF SetupSound
<1>8. QED
  BY <1>2, <1>3, <1>4, <1>5, <1>6, <1>7, PastUnchanged, Zenon DEF LedgerInv, Past

\* open_with_events: the Ledger value is what replay found.
LEMMA OpenInv ==
  ASSUME LedgerInv, Open
  PROVE  LedgerInv'
<1>1. /\ UNCHANGED <<file, disk, setup, reader, acked, anchored, phase, op, offered, faults>>
      /\ held' = TRUE /\ sync' = TRUE /\ poisoned' = FALSE
      /\ tree' = Leaves(file["events"])
      /\ counter' = LastCheckpoint(file["checkpoints"]).counter
      /\ cpSize' = LastCheckpoint(file["checkpoints"]).size
      /\ owed' = TornLogs /\ doing' = IF TornLogs = {} THEN "nothing" ELSE "keep"
      /\ phase = "none" /\ setup = "done"
  BY Zenon DEF Open, history, LedgerInv, SetupSound
<1>2. NumFrames(file["events"]) # 0
  BY Zenon DEF Open, Replay
<1>3. /\ Leaves(file["events"]) \in Seq(Nat)
      /\ Len(Leaves(file["events"])) = NumFrames(file["events"])
      /\ \A k \in 1 .. NumFrames(file["events"]) :
           Leaves(file["events"])[k] = file["events"][k].id
  BY LeavesFacts, Zenon DEF LedgerInv, TypeOK
<1>4. TypeOK'
  <2>1. LastCheckpoint(file["checkpoints"]).counter \in Nat
        /\ LastCheckpoint(file["checkpoints"]).size \in Nat
    <3>1. CASE NumFrames(file["checkpoints"]) = 0
      BY <3>1, Zenon DEF LastCheckpoint
    <3>2. CASE NumFrames(file["checkpoints"]) # 0
      <4>1. file["checkpoints"] \in Seq(CheckpointFrame)
        BY Zenon DEF LedgerInv, TypeOK
      <4>2. NumFrames(file["checkpoints"]) \in 1 .. NumFrames(file["checkpoints"])
        BY <3>2, <4>1, NumFramesType
      <4>3. file["checkpoints"][NumFrames(file["checkpoints"])] \in CheckpointFrame
        BY <4>1, <4>2, FrameTypes, Zenon
      <4>4. QED
        BY <3>2, <4>3, Zenon DEF LastCheckpoint, CheckpointFrame
    <3>3. QED
      BY <3>1, <3>2, Zenon
  <2>2. owed' \subseteq Logs
    BY <1>1, Zenon DEF TornLogs
  <2>3. QED
    BY <1>1, <1>3, <2>1, <2>2, Zenon DEF LedgerInv, TypeOK
<1>5. Holds("events")' /\ Holds("checkpoints")'
  BY <1>1, Zenon DEF Holds, Base, LedgerInv, TypeOK
<1>6. HandleSound'
  <2>1. IsPrefixOf(tree', file["events"])
    BY <1>1, <1>3, NumFramesType, SMTT(30) DEF IsPrefixOf, LedgerInv, TypeOK
  <2>2. TornLogs = {} => ~IsTorn(file["events"]) /\ ~IsTorn(file["checkpoints"])
    BY Zenon DEF TornLogs
  <2>3. TornLogs' = TornLogs
    BY <1>1, Zenon DEF TornLogs
  <2>4. QED
    BY <1>1, <1>3, <2>1, <2>2, <2>3, Zenon DEF HandleSound, Base
<1>7. OpSound' /\ SetupSound'
  BY <1>1, <1>2, <1>3, Zenon DEF OpSound, SetupSound
<1>8. QED
  BY <1>1, <1>4, <1>5, <1>6, <1>7, PastUnchanged, Zenon DEF LedgerInv, Past

\* Steps that change only flags of the holder, or only the quarantine.
LEMMA FlagsInv ==
  ASSUME LedgerInv, BeginBatch \/ AbandonBatch \/ Flush \/ KeepTail
  PROVE  LedgerInv'
<1>1. /\ UNCHANGED <<file, disk, setup, held, tree, counter, cpSize, poisoned, owed,
                     phase, op, reader, acked, anchored, offered, faults>>
      /\ sync' \in BOOLEAN
      /\ held /\ doing \in {"nothing", "keep"} /\ phase = "none"
      /\ doing = "nothing" => doing' \in {"nothing", "syncfs"} /\ (doing' = "syncfs" => sync')
      /\ doing = "keep" => doing' = "cut" /\ sync' = sync
  BY Zenon DEF BeginBatch, AbandonBatch, Flush, KeepTail, Ready, history, LedgerInv, TypeOK,
         HandleSound
<1>2. TypeOK'
  BY <1>1, Zenon DEF LedgerInv, TypeOK
<1>3. Holds("events")' /\ Holds("checkpoints")'
  BY <1>1, Zenon DEF Holds, Base, LedgerInv, TypeOK
<1>4. TornLogs' = TornLogs
  BY <1>1, Zenon DEF TornLogs
<1>5. HandleSound'
  BY <1>1, <1>4, Zenon DEF LedgerInv, HandleSound, Base
<1>6. OpSound' /\ SetupSound'
  BY <1>1, Zenon DEF LedgerInv, OpSound, SetupSound
<1>7. QED
  BY <1>1, <1>2, <1>3, <1>5, <1>6, PastUnchanged, Zenon DEF LedgerInv, Past

\* syncfs and the two fsyncs of flush, and their failures.
LEMMA FlushInv ==
  ASSUME LedgerInv, SyncFs \/ SyncLogs \/ FlushFails \/ AppendRefused
  PROVE  LedgerInv'
<1>1. /\ UNCHANGED <<file, setup, held, tree, counter, cpSize, sync, poisoned, owed,
                     phase, op, reader, anchored, offered>>
      /\ held /\ phase = "none" /\ faults' \in Nat
      /\ doing \in {"nothing", "syncfs", "sync", "checkpoint"}
      /\ doing' \in {"nothing", "checkpoint", "sync"}
      /\ DOMAIN disk' = Logs
  BY SMTT(30) DEF SyncFs, SyncLogs, FlushFails, AppendRefused, Ready, handle, Fault, AllDurable, Durable, history, LedgerInv,
         TypeOK, HandleSound
<1>2. \A log \in Logs : disk'[log] = disk[log] \/ disk'[log] = {file[log]}
  BY Zenon DEF SyncFs, SyncLogs, FlushFails, AppendRefused, Ready, handle, AllDurable, Durable, LedgerInv, TypeOK
<1>3. doing' = "checkpoint" => disk'["events"] = {file["events"]} /\ sync
  BY Zenon DEF SyncFs, SyncLogs, FlushFails, AppendRefused, Ready, handle, AllDurable, LedgerInv, HandleSound
<1>4. acked' = acked \/ (acked' = tree /\ disk'["events"] = {file["events"]})
  BY Zenon DEF SyncFs, SyncLogs, FlushFails, AppendRefused, Ready, handle, AllDurable, history
<1>5. IsPrefixOf(tree, file["events"])
  BY <1>1, Zenon DEF LedgerInv, HandleSound
<1>6. TypeOK'
  BY <1>1, <1>2, <1>4, Zenon DEF LedgerInv, TypeOK
<1>7. Holds("events")' /\ Holds("checkpoints")'
  BY <1>1, <1>6, Zenon DEF Holds, Base, TypeOK
<1>8. Past'
  <2>1. disk'["events"] \subseteq disk["events"] /\ disk'["checkpoints"] \subseteq disk["checkpoints"]
    BY <1>2, Zenon DEF LedgerInv, TypeOK
  <2>2. ClaimsHold'
    <3>1. \A evs \in disk'["events"] : IsPrefixOf(acked', evs)
      BY <1>4, <1>5, <2>1, DiskShrinks, Zenon
    <3>2. reader' = reader /\ anchored' = anchored
      BY <1>1, Zenon
    <3>3. ClaimsHold
      BY Zenon DEF LedgerInv
    <3>4. \A cp : Vouched(cp) => Vouched(cp)'
      BY <2>1, DiskShrinks, Zenon
    <3>5. \A cps \in disk'["checkpoints"] : \A k \in 1 .. NumFrames(cps) : Vouched(cps[k])'
      BY <2>1, DiskShrinks, Zenon
    <3>6. QED
      BY <3>1, <3>2, <3>3, <3>4, <3>5, Zenon DEF ClaimsHold
  <2>3. AnchorsLocal' /\ ReaderSound'
    BY <1>1, <2>1, DiskShrinks, Zenon DEF LedgerInv, AnchorsLocal, ReaderSound
  <2>4. QED
    BY <2>1, <2>2, <2>3, DiskShrinks, Zenon DEF Past
<1>9. HandleSound'
  BY <1>1, <1>3, Zenon DEF LedgerInv, HandleSound, Base, TornLogs
<1>10. OpSound' /\ SetupSound'
  <2>1. setup # "none"
    BY <1>1, Zenon DEF LedgerInv, SetupSound
  <2>2. QED
    BY <1>1, <2>1, Zenon DEF LedgerInv, OpSound, SetupSound
<1>11. QED
  BY <1>6, <1>7, <1>8, <1>9, <1>10, Zenon DEF LedgerInv, Past

-----------------------------------------------------------------------------
(***************************************************************************)
(* The reader and the crashes.                                             *)
(***************************************************************************)

\* replay accepts a pair of logs that the invariant speaks of.
LEMMA ReplayAccepts ==
  ASSUME NEW cps, NEW evs,
         WellFramed(cps), Ascending(cps), WellFramed(evs), Chained(evs),
         \A k \in 1 .. NumFrames(cps) : Covers(cps[k], evs)
  PROVE  Replay(cps, evs) \in {"ok", "empty"}
BY Zenon DEF Replay, Covers

\* Only the reader moves.
LEMMA ReaderInv ==
  ASSUME LedgerInv, ReadFirst \/ ReadSecond
  PROVE  LedgerInv'
<1>1. UNCHANGED <<file, disk, setup, held, tree, counter, cpSize, sync, poisoned, doing, owed,
                  phase, op, acked, anchored, offered, faults>>
  BY Zenon DEF ReadFirst, ReadSecond, handle, history
<1>2. TypeOK' /\ DiskSound' /\ AnchorsLocal'
  BY <1>1, ZenonT(60) DEF LedgerInv, TypeOK, DiskSound, AnchorsLocal
<1>3. Holds("events")' /\ Holds("checkpoints")'
  BY <1>1, Zenon DEF LedgerInv, Holds, Base
<1>4. HandleSound'
  BY <1>1, Zenon DEF LedgerInv, HandleSound, Base, TornLogs
<1>5. OpSound'
  BY <1>1, Zenon DEF LedgerInv, OpSound, Base, Vouched, LastLeaf
<1>6. SetupSound'
  BY <1>1, Zenon DEF LedgerInv, SetupSound, ReadFirst, ReadSecond, Idle
<1>7. file["checkpoints"] \in disk["checkpoints"] /\ file["events"] \in disk["events"]
  BY Zenon DEF LedgerInv, TypeOK
<1>8. \A cp : Vouched(cp) <=> Vouched(cp)'
  BY <1>1, Zenon DEF Vouched
<1>9. ReaderSound' /\ ClaimsHold'
  <2>1. CASE ReadFirst
    <3>1. reader'.between = TRUE /\ reader'.seen = file["checkpoints"] /\ reader'.verdict = "none"
      BY <2>1, Zenon DEF ReadFirst, FirstRead
    <3>2. ReaderSound'
      BY <1>7, <3>1, Zenon DEF ReaderSound, LedgerInv, TypeOK, DiskSound
    <3>3. ClaimsHold'
      BY <1>1, <1>7, <1>8, <3>1, ZenonT(60) DEF ClaimsHold, LedgerInv
    <3>4. QED
      BY <3>2, <3>3, Zenon
  <2>2. CASE ReadSecond
    <3>1. /\ reader.between /\ reader'.between = FALSE
          /\ reader'.verdict = Replay(reader.seen, file["events"])
      BY <2>2, Zenon DEF ReadSecond, FirstRead, Idle
    <3>2. \A k \in 1 .. NumFrames(reader.seen) : Covers(reader.seen[k], file["events"])
      BY <1>7, <3>1, Zenon DEF LedgerInv, ClaimsHold, Vouched
    <3>3. Replay(reader.seen, file["events"]) \in {"ok", "empty"}
      BY <1>7, <3>1, <3>2, ReplayAccepts, Zenon DEF LedgerInv, ReaderSound, DiskSound
    <3>4. ReaderSound'
      BY <3>1, <3>3, Zenon DEF ReaderSound
    <3>5. ClaimsHold'
      BY <1>1, <1>8, <3>1, Zenon DEF ClaimsHold, LedgerInv
    <3>6. QED
      BY <3>4, <3>5, Zenon
  <2>3. QED
    BY <2>1, <2>2, Zenon
<1>10. QED
  BY <1>2, <1>3, <1>4, <1>5, <1>6, <1>9, Zenon DEF LedgerInv

\* A power cut, whichever contents it leaves, keeps the invariant.
LEMMA PowerCutInv ==
  ASSUME LedgerInv, PowerCut
  PROVE  LedgerInv'
<1>1. PICK evs \in disk["events"], cps \in disk["checkpoints"] :
        file' = [log \in Logs |-> IF log = "events" THEN evs ELSE cps]
  BY Zenon DEF PowerCut
<1>2. /\ file'["events"] = evs /\ file'["checkpoints"] = cps
      /\ DOMAIN file' = Logs
  BY <1>1, Zenon
<1>3. /\ disk'["events"] = {evs} /\ disk'["checkpoints"] = {cps}
      /\ DOMAIN disk' = Logs
  BY <1>2, Zenon DEF PowerCut
<1>4. /\ Released /\ reader' = Idle("none") /\ UNCHANGED <<setup, acked, anchored, offered>>
      /\ faults' \in Nat
  BY DEF PowerCut, Fault, history, LedgerInv, TypeOK
<1>5. TypeOK'
  <2>1. tree' \in Seq(Nat) /\ counter' \in Nat /\ cpSize' \in Nat /\ owed' \subseteq Logs
    BY <1>4 DEF Released
  <2>2. held' \in BOOLEAN /\ sync' \in BOOLEAN /\ poisoned' \in BOOLEAN
    BY <1>4, ZenonT(60) DEF Released
  <2>3. doing' = "nothing" /\ phase' = "none"
    BY <1>4, Zenon DEF Released
  <2>4. QED
    BY <1>2, <1>3, <1>4, <2>1, <2>2, <2>3, Zenon DEF LedgerInv, TypeOK
<1>6. Holds("events")' /\ Holds("checkpoints")'
  BY <1>2, <1>3, <1>4, Zenon DEF Holds, Base, Released
<1>7. Past'
  BY <1>3, <1>4, PastShrinks, Zenon
<1>8. HandleSound' /\ OpSound' /\ SetupSound'
  <2>1. HandleSound' /\ OpSound'
    BY <1>4, Zenon DEF Released, HandleSound, OpSound
  <2>2. SetupSound'
    BY <1>2, <1>3, <1>4, Zenon DEF Released, LedgerInv, SetupSound, Idle
  <2>3. QED
    BY <2>1, <2>2, Zenon
<1>9. QED
  BY <1>5, <1>6, <1>7, <1>8, Zenon DEF LedgerInv, Past


-----------------------------------------------------------------------------
(***************************************************************************)
(* The steps that change a log.                                            *)
(***************************************************************************)

\* Cutting a torn tail of either log.
LEMMA CutTailInv ==
  ASSUME LedgerInv, CutTail
  PROVE  LedgerInv'
<1> DEFINE log == Repaired
           cut == SubSeq(file[log], 1, Len(file[log]) - 1)
<1>1. /\ held /\ doing = "cut" /\ phase = "none" /\ ~poisoned
      /\ log \in Logs /\ IsTorn(file[log])
      /\ (log = "checkpoints" => ~IsTorn(file["events"]))
  BY Zenon DEF CutTail, LedgerInv, HandleSound, TornLogs, Repaired
<1>2. /\ file' = [file EXCEPT ![log] = cut]
      /\ disk' = [disk EXCEPT ![log] = @ \cup {cut}]
      /\ doing' = IF TornLogs = {log} THEN "report" ELSE "keep"
      /\ UNCHANGED <<setup, held, tree, counter, cpSize, sync, poisoned, owed, phase, op,
                     reader, acked, anchored, offered, faults>>
  BY Zenon DEF CutTail, Write, history
<1> HIDE DEF log
<1>3. WellFramed(file[log])
  BY <1>1, Zenon DEF LedgerInv, DiskSound, TypeOK
<1>4. PICK S : file[log] \in Seq(S) /\ S \in {EventFrame, CheckpointFrame}
  BY <1>1, Zenon DEF LedgerInv, TypeOK
<1>5. /\ cut \in Seq(S) /\ ~IsTorn(cut) /\ NumFrames(cut) = NumFrames(file[log])
      /\ \A k \in 1 .. NumFrames(cut) : cut[k] = file[log][k]
      /\ WellFramed(cut)
  BY <1>1, <1>3, <1>4, CutTorn, CutWellFramed, Zenon
<1> HIDE DEF cut
<1>6. NumFrames(cut) \in Nat
  BY <1>5, NumFramesType, Zenon
<1>7. Extends(cut, file[log])
  BY <1>5, <1>6 DEF Extends
<1>8. CASE log = "events"
  <2>1. /\ file'["events"] = cut /\ file'["checkpoints"] = file["checkpoints"]
        /\ DOMAIN file' = Logs /\ DOMAIN disk' = Logs
        /\ disk'["events"] = disk["events"] \cup {cut}
        /\ disk'["checkpoints"] = disk["checkpoints"]
    BY <1>2, <1>8, Zenon DEF LedgerInv, TypeOK
  <2>2. cut \in Seq(EventFrame)
    BY <1>1, <1>3, <1>8, CutTorn, Zenon DEF LedgerInv, TypeOK, cut
  <2>3. TypeOK'
    BY <1>2, <2>1, <2>2, Zenon DEF LedgerInv, TypeOK
  <2>4. Holds("events")' /\ Holds("checkpoints")'
    BY <1>1, <1>2, <2>3, Zenon DEF Holds, Base, TypeOK
  <2>5. Chained(cut)
    <3>1. Chained(file["events"])
      BY Zenon DEF LedgerInv, DiskSound, TypeOK
    <3>2. \A k \in 1 .. NumFrames(cut) : k # 1 => k - 1 \in 1 .. NumFrames(cut)
      BY <1>6
    <3>3. QED
      BY <1>5, <1>8, <3>1, <3>2, Zenon DEF Chained
  <2>6. Past'
    <3>1. \E old \in disk["events"] : Extends(cut, old)
      BY <1>7, <1>8, Zenon DEF LedgerInv, TypeOK
    <3>2. \A new \in {cut} : WellFramed(new) /\ Chained(new)
                             /\ \E old \in disk["events"] : Extends(new, old)
      BY <1>5, <2>5, <3>1, Zenon
    <3>3. {cut} \in SUBSET Seq(EventFrame)
      BY <2>2, Zenon
    <3>4. QED
      BY <1>2, <1>8, <3>2, <3>3, EventsWritten, ZenonT(60)
  <2>7. HandleSound'
    <3>1. IsPrefixOf(tree, cut)
      BY <1>1, <1>7, <1>8, <2>2, PrefixExtends, ZenonT(60) DEF LedgerInv, HandleSound, TypeOK
    <3>2. doing' = "report" => ~IsTorn(file["checkpoints"])
      BY <1>2, <1>8 DEF TornLogs
    <3>3. doing' = "keep" => TornLogs' # {}
      BY <1>1, <1>2, <1>8, <2>1, Zenon DEF TornLogs
    <3>4. QED
      BY <1>1, <1>2, <1>5, <1>8, <2>1, <3>1, <3>2, <3>3, Zenon DEF LedgerInv, HandleSound, Base
  <2>8. OpSound' /\ SetupSound'
    BY <1>1, <1>2, ZenonT(60) DEF LedgerInv, OpSound, SetupSound
  <2>9. QED
    BY <2>3, <2>4, <2>6, <2>7, <2>8, Zenon DEF LedgerInv, Past
<1>9. CASE log = "checkpoints"
  <2>1. /\ file'["checkpoints"] = cut /\ file'["events"] = file["events"]
        /\ DOMAIN file' = Logs /\ DOMAIN disk' = Logs
        /\ disk'["checkpoints"] = disk["checkpoints"] \cup {cut}
        /\ disk'["events"] = disk["events"]
    BY <1>2, <1>9, Zenon DEF LedgerInv, TypeOK
  <2>2. cut \in Seq(CheckpointFrame)
    BY <1>1, <1>3, <1>9, CutTorn, Zenon DEF LedgerInv, TypeOK, cut
  <2>3. TypeOK'
    BY <1>2, <2>1, <2>2, Zenon DEF LedgerInv, TypeOK
  <2>4. Holds("events")' /\ Holds("checkpoints")'
    BY <1>1, <1>2, <2>3, Zenon DEF Holds, Base, TypeOK
  <2>5. Ascending(cut) /\ \A k \in 1 .. NumFrames(cut) : Vouched(cut[k])
    <3>1. Ascending(file["checkpoints"])
          /\ \A k \in 1 .. NumFrames(file["checkpoints"]) : Vouched(file["checkpoints"][k])
      BY Zenon DEF LedgerInv, DiskSound, ClaimsHold, TypeOK
    <3>2. QED
      BY <1>5, <1>9, <3>1, Zenon DEF Ascending
  <2>6. Past'
    <3>1. \E old \in disk["checkpoints"] : Extends(cut, old)
      BY <1>7, <1>9, Zenon DEF LedgerInv, TypeOK
    <3>2. \A new \in {cut} : /\ WellFramed(new) /\ Ascending(new)
                             /\ \A k \in 1 .. NumFrames(new) : Vouched(new[k])
                             /\ \E old \in disk["checkpoints"] : Extends(new, old)
      BY <1>5, <2>5, <3>1, Zenon
    <3>3. {cut} \in SUBSET Seq(CheckpointFrame)
      BY <2>2, Zenon
    <3>4. QED
      BY <1>2, <1>9, <3>2, <3>3, CheckpointsWritten, Zenon
  <2>7. HandleSound'
    <3>1. LastCheckpoint(cut) = LastCheckpoint(file["checkpoints"])
      BY <1>5, <1>6, <1>9 DEF LastCheckpoint
    <3>2. doing' = "report"
      BY <1>1, <1>2, <1>9, Zenon DEF TornLogs
    <3>3. QED
      BY <1>1, <1>2, <1>5, <1>9, <2>1, <3>1, <3>2, ZenonT(60) DEF LedgerInv, HandleSound, Base
  <2>8. OpSound' /\ SetupSound'
    BY <1>1, <1>2, Zenon DEF LedgerInv, OpSound, SetupSound
  <2>9. QED
    BY <2>3, <2>4, <2>6, <2>7, <2>8, Zenon DEF LedgerInv, Past
<1>10. QED
  BY <1>1, <1>8, <1>9, Zenon

\* What holds while an append is in flight.
LEMMA FlightFacts ==
  ASSUME LedgerInv, phase # "none"
  PROVE  /\ held /\ ~poisoned /\ op.log \in Logs /\ setup # "none"
         /\ doing \notin {"keep", "cut", "syncfs", "checkpoint"}
         /\ ~IsTorn(Base("events")) /\ ~IsTorn(Base("checkpoints"))
         /\ Len(tree) = NumFrames(Base("events"))
         /\ counter = LastCheckpoint(Base("checkpoints")).counter
         /\ cpSize = LastCheckpoint(Base("checkpoints")).size
         /\ Base("events") \in disk["events"] /\ Base("checkpoints") \in disk["checkpoints"]
         /\ Base("events") \in Seq(EventFrame) /\ Base("checkpoints") \in Seq(CheckpointFrame)
         /\ op.before = Len(Base(op.log))
<1>1. held /\ ~poisoned /\ op.log \in Logs /\ op.before = Len(Base(op.log))
  BY Zenon DEF LedgerInv, OpSound
<1>2. doing \notin {"keep", "cut", "syncfs", "checkpoint"} /\ setup # "none"
  BY <1>1, ZenonT(60) DEF LedgerInv, HandleSound, SetupSound
<1>3. /\ ~IsTorn(Base("events")) /\ ~IsTorn(Base("checkpoints"))
      /\ Len(tree) = NumFrames(Base("events"))
      /\ counter = LastCheckpoint(Base("checkpoints")).counter
      /\ cpSize = LastCheckpoint(Base("checkpoints")).size
  BY <1>1, <1>2, Zenon DEF LedgerInv, HandleSound
<1>4. /\ Base("events") \in disk["events"] /\ Base("checkpoints") \in disk["checkpoints"]
      /\ Base("events") \in Seq(EventFrame) /\ Base("checkpoints") \in Seq(CheckpointFrame)
  BY Zenon DEF LedgerInv, TypeOK, Holds
<1>5. QED
  BY <1>1, <1>2, <1>3, <1>4, Zenon

\* The bytes of the two frame types are all or some.
LEMMA FrameBytes ==
  /\ \A x \in EventFrame : x.bytes \in {"all", "some"}
  /\ \A x \in CheckpointFrame : x.bytes \in {"all", "some"}
BY Zenon DEF EventFrame, CheckpointFrame

\* The leaves known to the holder are those of events.log before the append.
LEMMA TreeIsBase ==
  ASSUME LedgerInv, phase # "none"
  PROVE  /\ Len(tree) = Len(Base("events")) /\ Len(tree) \in Nat
         /\ \A k \in 1 .. Len(tree) : tree[k] = Base("events")[k].id
<1> DEFINE base == Base("events")
<1>1. /\ base \in Seq(EventFrame) /\ ~IsTorn(base) /\ Len(tree) = NumFrames(base)
      /\ base \in disk["events"] /\ held
  BY FlightFacts, Zenon
<1>2. Len(tree) = Len(base) /\ Len(tree) \in Nat
  BY <1>1, SMTT(30) DEF NumFrames, LedgerInv, TypeOK
<1>3. IsPrefixOf(tree, file["events"])
  BY <1>1, Zenon DEF LedgerInv, HandleSound
<1>4. \A k \in 1 .. Len(base) : base[k] = file["events"][k]
  <2>1. CASE phase \in {"sync", "rollback"} /\ op.log = "events"
    <3>1. base = SubSeq(file["events"], 1, op.before) /\ op.before = Len(base)
      BY <2>1, FlightFacts, Zenon DEF Base
    <3>2. file["events"] \in {base, Append(base, op.frame), Append(base, Shorten(op.frame))}
      BY <2>1, Zenon DEF LedgerInv, OpSound
    <3>3. op.frame \in EventFrame
      BY <2>1, Zenon DEF LedgerInv, OpSound
    <3>4. /\ \A k \in 1 .. Len(base) : Append(base, op.frame)[k] = base[k]
          /\ \A k \in 1 .. Len(base) : Append(base, Shorten(op.frame))[k] = base[k]
      BY <1>1, <3>3, ShortenEvent
    <3>5. QED
      BY <3>2, <3>4, Zenon
  <2>2. CASE ~(phase \in {"sync", "rollback"} /\ op.log = "events")
    BY <2>2, Zenon DEF Base
  <2>3. QED
    BY <2>1, <2>2, Zenon
<1>5. QED
  BY <1>2, <1>3, <1>4, Zenon DEF IsPrefixOf

\* The event offered fits behind the events before it, whole or cut short.
LEMMA EventFits ==
  ASSUME LedgerInv, phase # "none", op.log = "events",
         NEW new \in {Append(Base("events"), op.frame), Append(Base("events"), Shorten(op.frame))}
  PROVE  /\ new \in Seq(EventFrame) /\ WellFramed(new) /\ Chained(new)
         /\ Extends(new, Base("events"))
         /\ SubSeq(new, 1, Len(Base("events"))) = Base("events")
<1> DEFINE base == Base("events")
<1>1. /\ base \in Seq(EventFrame) /\ ~IsTorn(base) /\ base \in disk["events"]
      /\ NumFrames(base) = Len(base) /\ Len(base) \in Nat
  BY FlightFacts, SMTT(30) DEF NumFrames
<1>2. WellFramed(base) /\ Chained(base)
  BY <1>1, Zenon DEF LedgerInv, DiskSound
<1>3. /\ op.frame \in EventFrame /\ op.frame.bytes = "all"
      /\ op.frame.seq = Len(tree) /\ op.frame.prev = LastLeaf
      /\ (op.frame.kind = "genesis") <=> (tree = <<>>)
  BY Zenon DEF LedgerInv, OpSound
<1>4. /\ Len(tree) = Len(base)
      /\ \A k \in 1 .. Len(tree) : tree[k] = base[k].id
  BY TreeIsBase, Zenon
<1>5. Shorten(op.frame) \in EventFrame /\ Shorten(op.frame).bytes = "some"
  BY <1>3, ShortenEvent, Zenon
<1> HIDE DEF base
<1>6. CASE new = Append(base, op.frame)
  <2>1. /\ new \in Seq(EventFrame) /\ NumFrames(new) = Len(base) + 1
        /\ \A k \in 1 .. Len(base) : new[k] = base[k]
        /\ new[Len(base) + 1] = op.frame
    BY <1>1, <1>3, <1>6, AppendWhole, SMTT(30)
  <2>2. WellFramed(new)
    BY <1>1, <1>2, <1>3, <1>6, AppendWellFramed, FrameBytes, Zenon
  <2>3. Chained(new)
    <3> SUFFICES ASSUME NEW k \in 1 .. Len(base) + 1
                 PROVE  /\ new[k].seq = k - 1
                        /\ new[k].prev = IF k = 1 THEN 0 ELSE new[k - 1].id
                        /\ new[k].kind = "genesis" <=> k = 1
      BY <2>1, Zenon DEF Chained
    <3>1. CASE k \in 1 .. Len(base)
      <4>1. k # 1 => k - 1 \in 1 .. Len(base)
        BY <1>1, <3>1
      <4>2. QED
        BY <1>1, <1>2, <2>1, <3>1, <4>1, ZenonT(60) DEF Chained
    <3>2. CASE k = Len(base) + 1
      <4>1. new[k] = op.frame /\ (k = 1 <=> tree = <<>>)
        BY <1>1, <1>4, <2>1, <3>2, SMTT(30) DEF LedgerInv, TypeOK
      <4>2. k # 1 => k - 1 \in 1 .. Len(base) /\ LastLeaf = new[k - 1].id
        BY <1>1, <1>4, <2>1, <3>2, <4>1, SMTT(30) DEF LastLeaf
      <4>3. k = 1 => LastLeaf = 0
        BY <4>1, Zenon DEF LastLeaf
      <4>4. QED
        BY <1>1, <1>3, <1>4, <3>2, <4>1, <4>2, <4>3, SMTT(30), Zenon
    <3>3. QED
      BY <1>1, <3>1, <3>2, SMTT(30)
  <2>4. Extends(new, base)
    BY <1>1, <2>1, SMTT(30) DEF Extends
  <2>5. QED
    BY <1>1, <1>3, <1>6, <2>1, <2>2, <2>3, <2>4, CutAppend, Zenon DEF base
<1>7. CASE new = Append(base, Shorten(op.frame))
  <2>1. /\ new \in Seq(EventFrame) /\ NumFrames(new) = Len(base)
        /\ \A k \in 1 .. Len(base) : new[k] = base[k]
    BY <1>1, <1>5, <1>7, AppendTorn, Zenon
  <2>2. WellFramed(new)
    BY <1>1, <1>2, <1>5, <1>7, AppendWellFramed, FrameBytes, Zenon
  <2>3. Chained(new)
    <3>1. \A k \in 1 .. Len(base) : k # 1 => k - 1 \in 1 .. Len(base)
      BY <1>1
    <3>2. QED
      BY <1>1, <1>2, <2>1, <3>1, ZenonT(60) DEF Chained
  <2>4. Extends(new, base)
    BY <1>1, <2>1 DEF Extends
  <2>5. QED
    BY <1>1, <1>5, <1>7, <2>1, <2>2, <2>3, <2>4, CutAppend, Zenon DEF base
<1>8. QED
  BY <1>6, <1>7, Zenon DEF base

\* The checkpoint offered fits behind the checkpoints before it.
LEMMA CheckpointFits ==
  ASSUME LedgerInv, phase # "none", op.log = "checkpoints",
         NEW new \in {Append(Base("checkpoints"), op.frame),
                      Append(Base("checkpoints"), Shorten(op.frame))}
  PROVE  /\ new \in Seq(CheckpointFrame) /\ WellFramed(new) /\ Ascending(new)
         /\ \A k \in 1 .. NumFrames(new) : Vouched(new[k])
         /\ Extends(new, Base("checkpoints"))
         /\ SubSeq(new, 1, Len(Base("checkpoints"))) = Base("checkpoints")
<1> DEFINE base == Base("checkpoints")
<1>1. /\ base \in Seq(CheckpointFrame) /\ ~IsTorn(base) /\ base \in disk["checkpoints"]
      /\ NumFrames(base) = Len(base) /\ Len(base) \in Nat
  BY FlightFacts DEF NumFrames
<1>2. /\ WellFramed(base) /\ Ascending(base)
      /\ \A k \in 1 .. Len(base) : Vouched(base[k])
  BY <1>1, Zenon DEF LedgerInv, DiskSound, ClaimsHold
<1>3. /\ op.frame \in CheckpointFrame /\ op.frame.bytes = "all"
      /\ op.frame.counter = counter + 1
      /\ op.frame.size = Len(tree) /\ Vouched(op.frame)
  BY Zenon DEF LedgerInv, OpSound
<1>4. counter = LastCheckpoint(base).counter
  BY FlightFacts, Zenon
<1>5. Shorten(op.frame) \in CheckpointFrame /\ Shorten(op.frame).bytes = "some"
  BY <1>3, ShortenCheckpoint, Zenon
<1>6. \A k \in 1 .. Len(base) :
        /\ base[k].counter < op.frame.counter
        /\ base[k].size <= op.frame.size
  <2> SUFFICES ASSUME NEW k \in 1 .. Len(base)
               PROVE  base[k].counter < op.frame.counter /\ base[k].size <= op.frame.size
    OBVIOUS
  <2>1. base[k] \in CheckpointFrame /\ base[Len(base)] \in CheckpointFrame
    BY <1>1, SMTT(30)
  <2>2. counter = base[Len(base)].counter
    BY <1>1, <1>4, SMTT(30) DEF LastCheckpoint
  <2>3. base[k].counter <= base[Len(base)].counter
    <3>1. CASE k = Len(base)
      BY <2>1, <3>1, SMTT(30) DEF CheckpointFrame
    <3>2. CASE k < Len(base)
      <4>1. base[k].counter \in Nat /\ base[Len(base)].counter \in Nat
        BY <2>1, Zenon DEF CheckpointFrame
      <4>2. k \in 1 .. NumFrames(base) /\ Len(base) \in 1 .. NumFrames(base)
        BY <1>1, SMTT(30)
      <4>3. base[k].counter < base[Len(base)].counter
        BY <1>2, <3>2, <4>2, Zenon DEF Ascending
      <4>4. QED
        BY <4>1, <4>3
    <3>3. QED
      BY <1>1, <3>1, <3>2, SMTT(30)
  <2>4. base[k].size <= Len(tree)
    <3>1. Covers(base[k], Base("events")) /\ Len(tree) = NumFrames(Base("events"))
      BY <1>2, FlightFacts, Zenon DEF Vouched
    <3>2. QED
      BY <3>1, Zenon DEF Covers, WithinLog
  <2>5. QED
    BY <1>3, <2>1, <2>2, <2>3, <2>4, SMTT(30) DEF CheckpointFrame
<1> HIDE DEF base
<1>7. CASE new = Append(base, op.frame)
  <2>1. /\ new \in Seq(CheckpointFrame) /\ NumFrames(new) = Len(base) + 1
        /\ \A k \in 1 .. Len(base) : new[k] = base[k]
        /\ new[Len(base) + 1] = op.frame
    BY <1>1, <1>3, <1>7, AppendWhole, SMTT(30)
  <2>2. WellFramed(new)
    BY <1>1, <1>2, <1>3, <1>7, AppendWellFramed, FrameBytes, Zenon
  <2>3. Ascending(new)
    <3> SUFFICES ASSUME NEW j \in 1 .. Len(base) + 1, NEW k \in 1 .. Len(base) + 1, j < k
                 PROVE  new[j].counter < new[k].counter /\ new[j].size <= new[k].size
      BY <2>1, Zenon DEF Ascending
    <3>1. j \in 1 .. Len(base)
      BY <1>1, SMTT(30)
    <3>2. CASE k \in 1 .. Len(base)
      BY <1>1, <1>2, <2>1, <3>1, <3>2, Zenon DEF Ascending
    <3>3. CASE k = Len(base) + 1
      BY <1>6, <2>1, <3>1, <3>3, Zenon
    <3>4. QED
      BY <1>1, <3>2, <3>3
  <2>4. \A k \in 1 .. NumFrames(new) : Vouched(new[k])
    <3> SUFFICES ASSUME NEW k \in 1 .. Len(base) + 1 PROVE Vouched(new[k])
      BY <2>1, Zenon
    <3>1. CASE k \in 1 .. Len(base)
      BY <1>2, <2>1, <3>1, Zenon
    <3>2. CASE k = Len(base) + 1
      BY <1>3, <2>1, <3>2, Zenon
    <3>3. QED
      BY <1>1, <3>1, <3>2
  <2>5. Extends(new, base)
    BY <1>1, <2>1, SMTT(30) DEF Extends
  <2>6. QED
    BY <1>1, <1>3, <1>7, <2>1, <2>2, <2>3, <2>4, <2>5, CutAppend, Zenon DEF base
<1>8. CASE new = Append(base, Shorten(op.frame))
  <2>1. /\ new \in Seq(CheckpointFrame) /\ NumFrames(new) = Len(base)
        /\ \A k \in 1 .. Len(base) : new[k] = base[k]
    BY <1>1, <1>5, <1>8, AppendTorn, Zenon
  <2>2. WellFramed(new)
    BY <1>1, <1>2, <1>5, <1>8, AppendWellFramed, FrameBytes, Zenon
  <2>3. Ascending(new) /\ \A k \in 1 .. NumFrames(new) : Vouched(new[k])
    BY <1>1, <1>2, <2>1, Zenon DEF Ascending
  <2>4. Extends(new, base)
    BY <1>1, <2>1 DEF Extends
  <2>5. QED
    BY <1>1, <1>5, <1>8, <2>1, <2>2, <2>3, <2>4, CutAppend, Zenon DEF base
<1>9. QED
  BY <1>7, <1>8, Zenon DEF base

\* Writing the frame, whole or short, or nothing of it: the past stays sound.
LEMMA WritePast ==
  ASSUME LedgerInv, phase = "write",
         NEW contents \in SUBSET {file[op.log], Append(file[op.log], op.frame),
                                  Append(file[op.log], Shorten(op.frame))},
         disk' = [disk EXCEPT ![op.log] = @ \cup contents],
         UNCHANGED <<reader, acked, anchored>>
  PROVE  /\ Past'
         /\ op.log = "events" => contents \subseteq Seq(EventFrame)
         /\ op.log = "checkpoints" => contents \subseteq Seq(CheckpointFrame)
<1>1. op.log \in Logs /\ Base(op.log) = file[op.log]
  BY FlightFacts, Zenon DEF Base
<1>2. CASE op.log = "events"
  <2>1. file["events"] = Base("events") /\ Base("events") \in Seq(EventFrame)
        /\ Base("events") \in disk["events"]
    BY <1>1, <1>2, FlightFacts, Zenon
  <2>2. \A new \in contents :
          /\ new \in Seq(EventFrame) /\ WellFramed(new) /\ Chained(new)
          /\ Extends(new, Base("events"))
    <3> SUFFICES ASSUME NEW new \in contents
                 PROVE  /\ new \in Seq(EventFrame) /\ WellFramed(new) /\ Chained(new)
                        /\ Extends(new, Base("events"))
      OBVIOUS
    <3>1. CASE new = Base("events")
      BY <2>1, <3>1, ExtendsSelf, Zenon DEF LedgerInv, DiskSound
    <3>2. CASE new # Base("events")
      BY <1>2, <2>1, <3>2, EventFits, Zenon
    <3>3. QED
      BY <3>1, <3>2, Zenon
  <2>3. contents \in SUBSET Seq(EventFrame)
    BY <2>2, Zenon
  <2>4. Past'
    BY <1>2, <2>1, <2>2, <2>3, EventsWritten, ZenonT(60)
  <2>5. QED
    BY <1>2, <2>3, <2>4, Zenon
<1>3. CASE op.log = "checkpoints"
  <2>1. file["checkpoints"] = Base("checkpoints") /\ Base("checkpoints") \in Seq(CheckpointFrame)
        /\ Base("checkpoints") \in disk["checkpoints"]
    BY <1>1, <1>3, FlightFacts, Zenon
  <2>2. \A new \in contents :
          /\ new \in Seq(CheckpointFrame) /\ WellFramed(new) /\ Ascending(new)
          /\ \A k \in 1 .. NumFrames(new) : Vouched(new[k])
          /\ Extends(new, Base("checkpoints"))
    <3> SUFFICES ASSUME NEW new \in contents
                 PROVE  /\ new \in Seq(CheckpointFrame) /\ WellFramed(new) /\ Ascending(new)
                        /\ \A k \in 1 .. NumFrames(new) : Vouched(new[k])
                        /\ Extends(new, Base("checkpoints"))
      OBVIOUS
    <3>1. CASE new = Base("checkpoints")
      BY <2>1, <3>1, ExtendsSelf, ZenonT(60) DEF LedgerInv, DiskSound, ClaimsHold
    <3>2. CASE new # Base("checkpoints")
      BY <1>3, <2>1, <3>2, CheckpointFits, ZenonT(60)
    <3>3. QED
      BY <3>1, <3>2, Zenon
  <2>3. contents \in SUBSET Seq(CheckpointFrame)
    BY <2>2, Zenon
  <2>4. Past'
    BY <1>3, <2>1, <2>2, <2>3, CheckpointsWritten, Zenon
  <2>5. QED
    BY <1>3, <2>3, <2>4, Zenon
<1>4. QED
  BY <1>1, <1>2, <1>3, Zenon

\* The shared shape of a write into the log of the append in flight.
LEMMA WriteTypes ==
  ASSUME LedgerInv, phase = "write",
         NEW content \in {file[op.log], Append(file[op.log], op.frame),
                          Append(file[op.log], Shorten(op.frame))},
         NEW passed \in SUBSET {Append(file[op.log], Shorten(op.frame))},
         Write(op.log, content, passed),
         UNCHANGED <<reader, acked, anchored>>
  PROVE  /\ Past'
         /\ DOMAIN file' = Logs /\ DOMAIN disk' = Logs
         /\ file'["events"] \in Seq(EventFrame)
         /\ file'["checkpoints"] \in Seq(CheckpointFrame)
         /\ file'["events"] \in disk'["events"] /\ file'["checkpoints"] \in disk'["checkpoints"]
         /\ disk'["events"] \subseteq Seq(EventFrame)
         /\ disk'["checkpoints"] \subseteq Seq(CheckpointFrame)
         /\ \A log \in Logs : disk[log] \subseteq disk'[log]
         /\ file'[op.log] = content
         /\ \A log \in Logs \ {op.log} : file'[log] = file[log] /\ disk'[log] = disk[log]
         /\ SubSeq(content, 1, op.before) = file[op.log]
         /\ Base("events") = file["events"] /\ Base("checkpoints") = file["checkpoints"]
<1> DEFINE contents == passed \cup {content}
<1>1. /\ file' = [file EXCEPT ![op.log] = content]
      /\ disk' = [disk EXCEPT ![op.log] = @ \cup contents]
  BY Zenon DEF Write
<1>2. op.log \in Logs /\ op.before = Len(file[op.log])
      /\ Base("events") = file["events"] /\ Base("checkpoints") = file["checkpoints"]
  BY FlightFacts, Zenon DEF Base
<1>3. contents \in SUBSET {file[op.log], Append(file[op.log], op.frame),
                           Append(file[op.log], Shorten(op.frame))}
  OBVIOUS
<1> HIDE DEF contents
<1>4. /\ Past'
      /\ op.log = "events" => contents \subseteq Seq(EventFrame)
      /\ op.log = "checkpoints" => contents \subseteq Seq(CheckpointFrame)
  BY <1>1, <1>3, WritePast, Zenon
<1>5. /\ file'[op.log] = content /\ disk'[op.log] = disk[op.log] \cup contents
      /\ \A log \in Logs \ {op.log} : file'[log] = file[log] /\ disk'[log] = disk[log]
      /\ DOMAIN file' = Logs /\ DOMAIN disk' = Logs
  BY <1>1, <1>2, Zenon DEF LedgerInv, TypeOK
<1>6. content \in contents
  BY Zenon DEF contents
<1>7. SubSeq(content, 1, op.before) = file[op.log]
  <2>1. CASE content = file[op.log]
    BY <1>2, <2>1, SubSeqFull, ZenonT(60) DEF LedgerInv, TypeOK
  <2>2. CASE content # file[op.log] /\ op.log = "events"
    BY <1>2, <2>2, EventFits, Zenon
  <2>3. CASE content # file[op.log] /\ op.log = "checkpoints"
    BY <1>2, <2>3, CheckpointFits, Zenon
  <2>4. QED
    BY <1>2, <2>1, <2>2, <2>3, Zenon
<1>8. CASE op.log = "events"
  BY <1>2, <1>4, <1>5, <1>6, <1>7, <1>8, Zenon DEF LedgerInv, TypeOK
<1>9. CASE op.log = "checkpoints"
  BY <1>2, <1>4, <1>5, <1>6, <1>7, <1>9, ZenonT(60) DEF LedgerInv, TypeOK
<1>10. QED
  BY <1>2, <1>8, <1>9, Zenon

\* After the write the append waits for its sync or its rollback.
LEMMA WriteWaits ==
  ASSUME LedgerInv, phase = "write",
         NEW content \in {file[op.log], Append(file[op.log], op.frame),
                          Append(file[op.log], Shorten(op.frame))},
         NEW passed \in SUBSET {Append(file[op.log], Shorten(op.frame))},
         Write(op.log, content, passed),
         (phase' = "sync" /\ content = Append(file[op.log], op.frame)) \/ phase' = "rollback",
         faults' \in Nat,
         UNCHANGED <<setup, held, tree, counter, cpSize, sync, poisoned, doing, owed, op,
                     reader, acked, anchored, offered>>
  PROVE  LedgerInv'
<1>1. TypeOK' /\ Past'
  BY WriteTypes, ZenonT(60) DEF LedgerInv, TypeOK
<1>2. /\ file'[op.log] = content /\ SubSeq(content, 1, op.before) = file[op.log]
      /\ \A log \in Logs \ {op.log} : file'[log] = file[log] /\ disk'[log] = disk[log]
      /\ \A log \in Logs : disk[log] \subseteq disk'[log]
      /\ Base("events") = file["events"] /\ Base("checkpoints") = file["checkpoints"]
  BY WriteTypes, ZenonT(60)
<1>3. op.log \in Logs /\ phase' \in {"sync", "rollback"} /\ op' = op
  BY FlightFacts, Zenon
<1>4. /\ Base("events")' = file["events"] /\ Base("checkpoints")' = file["checkpoints"]
  BY <1>2, <1>3, Zenon DEF Base
<1>5. Holds("events")' /\ Holds("checkpoints")'
  BY <1>1, <1>2, <1>4, ZenonT(60) DEF Holds, TypeOK, LedgerInv
<1>6. IsPrefixOf(tree, file'["events"])
  <2>1. IsPrefixOf(tree, file["events"])
    BY FlightFacts, ZenonT(60) DEF LedgerInv, HandleSound
  <2>2. CASE file'["events"] = file["events"]
    BY <2>1, <2>2, Zenon
  <2>3. CASE file'["events"] # file["events"]
    <3>1. op.log = "events" /\ file'["events"] = content /\ content # file["events"]
      BY <1>2, <1>3, <2>3, Zenon
    <3>2. Extends(content, file["events"]) /\ content \in Seq(EventFrame)
      BY <1>2, <3>1, EventFits, ZenonT(60)
    <3>3. QED
      BY <2>1, <3>1, <3>2, PrefixExtends, ZenonT(60) DEF LedgerInv, TypeOK
  <2>4. QED
    BY <2>2, <2>3, ZenonT(60)
<1>7. HandleSound'
  BY <1>2, <1>4, <1>6, FlightFacts, ZenonT(60) DEF HandleSound
<1>8. OpSound'
  <2>1. op.log = "checkpoints" => Vouched(op.frame)'
    BY <1>2, <1>3, ZenonT(60) DEF LedgerInv, OpSound, Vouched
  <2>2. op.before = Len(file[op.log])
    BY <1>2, <1>3, FlightFacts, ZenonT(60)
  <2>3. Base(op.log)' = file[op.log]
    BY <1>3, <1>4, Zenon
  <2>4. held' /\ ~poisoned' /\ op'.log \in Logs /\ op'.before = Len(Base(op.log)')
    BY <1>3, <2>2, <2>3, FlightFacts, ZenonT(60)
  <2>5. LastLeaf' = LastLeaf
    BY Zenon DEF LastLeaf
  <2>6. QED
    BY <1>2, <1>3, <2>1, <2>3, <2>4, <2>5, ZenonT(60) DEF LedgerInv, OpSound
<1>9. SetupSound'
  BY <1>2, <1>3, FlightFacts, ZenonT(60) DEF LedgerInv, SetupSound
<1>10. QED
  BY <1>1, <1>5, <1>7, <1>8, <1>9, Zenon DEF LedgerInv, Past

\* Once its frame is behind the base, an appended event is one more leaf.
LEMMA EventAdvances ==
  ASSUME LedgerInv, phase # "none", op.log = "events",
         NEW new, new = Append(Base("events"), op.frame)
  PROVE  /\ Append(tree, op.frame.id) \in Seq(Nat) /\ Append(tree, op.frame.id) # <<>>
         /\ Len(Append(tree, op.frame.id)) = NumFrames(new)
         /\ IsPrefixOf(Append(tree, op.frame.id), new)
         /\ ~IsTorn(new)
<1> DEFINE base == Base("events")
           more == Append(tree, op.frame.id)
<1>1. base \in Seq(EventFrame) /\ ~IsTorn(base)
  BY FlightFacts, ZenonT(60)
<1>2. op.frame \in EventFrame /\ op.frame.bytes = "all" /\ op.frame.id \in Nat
  BY Zenon DEF LedgerInv, OpSound, EventFrame
<1>3. /\ Len(tree) = Len(base) /\ Len(tree) \in Nat
      /\ \A k \in 1 .. Len(tree) : tree[k] = base[k].id
  BY TreeIsBase, Zenon
<1>4. /\ NumFrames(new) = Len(base) + 1 /\ ~IsTorn(new)
      /\ \A k \in 1 .. Len(base) : new[k] = base[k]
      /\ new[Len(base) + 1] = op.frame
  BY <1>1, <1>2, AppendWhole, SMTT(30)
<1>5. /\ more \in Seq(Nat) /\ Len(more) = Len(tree) + 1 /\ more # <<>>
      /\ \A k \in 1 .. Len(tree) : more[k] = tree[k]
      /\ more[Len(tree) + 1] = op.frame.id
  <2>1. tree \in Seq(Nat)
    BY Zenon DEF LedgerInv, TypeOK
  <2>2. QED
    BY <1>2, <2>1, SMTT(30)
<1> HIDE DEF more, base
<1>6. \A k \in 1 .. Len(more) : more[k] = new[k].id
  <2> SUFFICES ASSUME NEW k \in 1 .. Len(tree) + 1 PROVE more[k] = new[k].id
    BY <1>5, Zenon
  <2>1. CASE k \in 1 .. Len(tree)
    <3>1. more[k] = tree[k] /\ tree[k] = base[k].id
      BY <1>3, <1>5, <2>1, Zenon
    <3>2. new[k] = base[k]
      BY <1>3, <1>4, <2>1, Zenon
    <3>3. QED
      BY <3>1, <3>2, Zenon
  <2>2. CASE k = Len(tree) + 1
    <3>1. more[k] = op.frame.id
      BY <1>5, <2>2, Zenon
    <3>2. new[k] = op.frame
      BY <1>3, <1>4, <2>2, Zenon
    <3>3. QED
      BY <3>1, <3>2, Zenon
  <2>3. k \in 1 .. Len(tree) \/ k = Len(tree) + 1
    <3>1. Len(tree) \in Nat
      BY <1>3, Zenon
    <3>2. QED
      BY <3>1
  <2>4. QED
    BY <2>1, <2>2, <2>3, Zenon
<1>7. Len(more) = NumFrames(new) /\ Len(more) <= NumFrames(new)
  BY <1>3, <1>4, <1>5
<1>8. QED
  BY <1>4, <1>5, <1>6, <1>7, ZenonT(60) DEF IsPrefixOf, more

\* A batched append returns as soon as its bytes are in the page cache.
LEMMA WriteFrameInv ==
  ASSUME LedgerInv, WriteFrame
  PROVE  LedgerInv'
<1> DEFINE new == Append(file[op.log], op.frame)
<1>1. /\ phase = "write"
      /\ Write(op.log, new, {Append(file[op.log], Shorten(op.frame))})
      /\ UNCHANGED <<setup, kept, reader, offered, faults>>
  BY Zenon DEF WriteFrame
<1>2. faults' \in Nat
  BY <1>1, Zenon DEF LedgerInv, TypeOK
<1>3. CASE sync
  <2>1. /\ phase' = "sync"
        /\ UNCHANGED <<held, tree, counter, cpSize, sync, poisoned, doing, owed, op, acked, anchored>>
    BY <1>3, Zenon DEF WriteFrame, history
  <2>2. QED
    BY <1>1, <1>2, <2>1, WriteWaits, Zenon
<1>4. CASE ~sync
  <2>1. op.log = "events"
    BY <1>1, <1>4, FlightFacts, ZenonT(60) DEF LedgerInv, OpSound
  <2>2. /\ phase' = "none" /\ tree' = Append(tree, op.frame.id) /\ acked' = acked
        /\ UNCHANGED <<counter, cpSize, anchored, held, sync, poisoned, doing, owed>>
    BY <1>4, <2>1, Zenon DEF WriteFrame, Advance
  <2> HIDE DEF new
  <2>3. /\ Past'
        /\ DOMAIN file' = Logs /\ DOMAIN disk' = Logs
        /\ file'["events"] \in Seq(EventFrame)
        /\ file'["checkpoints"] \in Seq(CheckpointFrame)
        /\ file'["events"] \in disk'["events"] /\ file'["checkpoints"] \in disk'["checkpoints"]
        /\ disk'["events"] \subseteq Seq(EventFrame)
        /\ disk'["checkpoints"] \subseteq Seq(CheckpointFrame)
        /\ file'["events"] = new
        /\ file'["checkpoints"] = file["checkpoints"]
        /\ Base("events") = file["events"] /\ Base("checkpoints") = file["checkpoints"]
    BY <1>1, <2>1, <2>2, WriteTypes, Zenon DEF new
  <2>4. new = Append(Base("events"), op.frame)
    BY <2>1, <2>3, Zenon DEF new
  <2>5. /\ tree' \in Seq(Nat) /\ tree' # <<>>
        /\ Len(tree') = NumFrames(new)
        /\ IsPrefixOf(tree', new)
        /\ ~IsTorn(new)
    BY <1>1, <2>1, <2>2, <2>4, EventAdvances, Zenon
  <2>6. TypeOK'
    BY <1>1, <2>2, <2>3, <2>5, Zenon DEF LedgerInv, TypeOK
  <2>7. Holds("events")' /\ Holds("checkpoints")'
    BY <2>2, <2>3, Zenon DEF Holds, Base
  <2>8. HandleSound'
    BY <1>1, <2>2, <2>3, <2>5, FlightFacts, ZenonT(60) DEF HandleSound, Base
  <2>9. OpSound' /\ SetupSound'
    BY <1>1, <1>4, <2>2, <2>5, FlightFacts, ZenonT(60) DEF LedgerInv, OpSound, SetupSound
  <2>10. QED
    BY <2>3, <2>6, <2>7, <2>8, <2>9, Zenon DEF LedgerInv, Past
<1>5. QED
  BY <1>3, <1>4, Zenon

\* A write that stops part way keeps the invariant until the rollback.
LEMMA WriteShortInv ==
  ASSUME LedgerInv, WriteShort
  PROVE  LedgerInv'
<1>1. PICK content \in {file[op.log], Append(file[op.log], Shorten(op.frame))} :
        Write(op.log, content, {})
  BY Zenon DEF WriteShort
<1>2. /\ phase = "write" /\ phase' = "rollback" /\ faults' \in Nat
      /\ UNCHANGED <<setup, held, tree, counter, cpSize, sync, poisoned, doing, owed, op,
                     reader, acked, anchored, offered>>
  BY SMTT(60) DEF WriteShort, Fault, history, LedgerInv, TypeOK
<1>3. {} \in SUBSET {Append(file[op.log], Shorten(op.frame))}
  OBVIOUS
<1>4. QED
  BY <1>1, <1>2, <1>3, WriteWaits, ZenonT(60)

\* A failed fsync of the frame keeps the invariant until the rollback.
LEMMA SyncFrameFailsInv ==
  ASSUME LedgerInv, SyncFrameFails
  PROVE  LedgerInv'
<1>1. /\ phase = "sync" /\ phase' = "rollback" /\ faults' \in Nat
      /\ UNCHANGED <<file, disk, setup, held, tree, counter, cpSize, sync, poisoned, doing, owed,
                     op, reader, acked, anchored, offered>>
  BY SMTT(30) DEF SyncFrameFails, Fault, history, LedgerInv, TypeOK
<1>2. TypeOK'
  BY <1>1, Zenon DEF LedgerInv, TypeOK
<1>3. Base("events")' = Base("events") /\ Base("checkpoints")' = Base("checkpoints")
  BY <1>1, Zenon DEF Base
<1>4. Holds("events")' /\ Holds("checkpoints")'
  BY <1>1, <1>3, Zenon DEF LedgerInv, Holds
<1>5. HandleSound'
  BY <1>1, <1>3, FlightFacts, ZenonT(60) DEF LedgerInv, HandleSound
<1>6. OpSound'
  <2>1. op.log \in Logs
    BY <1>1, FlightFacts, Zenon
  <2>2. Base(op.log)' = Base(op.log)
    BY <1>1, Zenon DEF Base
  <2>3. \A cp : Vouched(cp) <=> Vouched(cp)'
    BY <1>1, Zenon DEF Vouched
  <2>4. LastLeaf' = LastLeaf
    BY <1>1, Zenon DEF LastLeaf
  <2>5. QED
    BY <1>1, <2>1, <2>2, <2>3, <2>4, ZenonT(60) DEF LedgerInv, OpSound
<1>7. SetupSound'
  BY <1>1, FlightFacts, Zenon DEF LedgerInv, SetupSound
<1>8. QED
  BY <1>1, <1>2, <1>4, <1>5, <1>6, <1>7, PastUnchanged, Zenon DEF LedgerInv, Past

\* A successful fsync, which makes append return Ok, keeps the invariant.
LEMMA SyncFrameInv ==
  ASSUME LedgerInv, SyncFrame
  PROVE  LedgerInv'
<1>1. /\ phase = "sync" /\ phase' = "none" /\ op' = NoOp
      /\ disk' = [disk EXCEPT ![op.log] = {file[op.log]}]
      /\ UNCHANGED <<file, setup, held, sync, poisoned, doing, owed, reader, offered, faults>>
  BY Zenon DEF SyncFrame, Durable, Advance
<1>2. op.log \in Logs /\ file[op.log] = Append(Base(op.log), op.frame)
  BY <1>1, FlightFacts, ZenonT(60) DEF LedgerInv, OpSound
<1>3. /\ DOMAIN disk' = Logs
      /\ \A log \in Logs : disk'[log] = IF log = op.log THEN {file[log]} ELSE disk[log]
  BY <1>1, Zenon DEF LedgerInv, TypeOK
<1>4. disk'["events"] \subseteq disk["events"] /\ disk'["checkpoints"] \subseteq disk["checkpoints"]
  BY <1>3, Zenon DEF LedgerInv, TypeOK
<1>5. CASE op.log = "events"
  <2>1. /\ tree' = Append(tree, op.frame.id)
        /\ acked' = IF sync THEN tree' ELSE acked
        /\ UNCHANGED <<counter, cpSize, anchored>>
    BY <1>5, Zenon DEF SyncFrame, Advance
  <2>2. /\ tree' \in Seq(Nat) /\ tree' # <<>>
        /\ Len(tree') = NumFrames(file["events"])
        /\ IsPrefixOf(tree', file["events"])
        /\ ~IsTorn(file["events"])
    BY <1>1, <1>2, <1>5, <2>1, EventAdvances, Zenon
  <2>3. Base("checkpoints") = file["checkpoints"] /\ disk'["events"] = {file["events"]}
    BY <1>3, <1>5, Zenon DEF Base
  <2>4. TypeOK'
    BY <1>1, <1>3, <1>4, <2>1, <2>2, Zenon DEF LedgerInv, TypeOK
  <2>5. Holds("events")' /\ Holds("checkpoints")'
    BY <1>1, <2>4, Zenon DEF Holds, Base, TypeOK
  <2>6. Past'
    <3>1. \A evs \in disk'["events"] : IsPrefixOf(acked', evs)
      BY <1>4, <2>1, <2>2, <2>3, DiskShrinks, Zenon
    <3>2. ClaimsHold'
      BY <1>1, <1>4, <2>1, <3>1, DiskShrinks, ZenonT(60) DEF LedgerInv, ClaimsHold
    <3>3. AnchorsLocal' /\ ReaderSound'
      BY <1>1, <1>4, <2>1, DiskShrinks, ZenonT(60) DEF LedgerInv, AnchorsLocal, ReaderSound
    <3>4. QED
      BY <1>4, <3>2, <3>3, DiskShrinks, Zenon DEF Past
  <2>7. HandleSound'
    BY <1>1, <2>1, <2>2, <2>3, FlightFacts, Zenon DEF HandleSound, Base
  <2>8. OpSound' /\ SetupSound'
    BY <1>1, <2>2, <2>3, FlightFacts, ZenonT(60) DEF LedgerInv, OpSound, SetupSound
  <2>9. QED
    BY <2>4, <2>5, <2>6, <2>7, <2>8, Zenon DEF LedgerInv, Past
<1>6. CASE op.log = "checkpoints"
  <2> DEFINE cps == file["checkpoints"]
  <2>1. /\ counter' = op.frame.counter /\ cpSize' = op.frame.size
        /\ anchored' = IF op.external THEN anchored \cup {op.frame} ELSE anchored
        /\ UNCHANGED <<tree, acked>>
    BY <1>6, Zenon DEF SyncFrame, Advance
  <2>2. op.frame \in CheckpointFrame /\ op.frame.bytes = "all" /\ Vouched(op.frame)
    BY <1>1, <1>6, Zenon DEF LedgerInv, OpSound
  <2>3. /\ NumFrames(cps) \in Nat /\ NumFrames(cps) # 0
        /\ cps[NumFrames(cps)] = op.frame /\ ~IsTorn(cps)
    <3>1. Base("checkpoints") \in Seq(CheckpointFrame) /\ ~IsTorn(Base("checkpoints"))
      BY <1>1, FlightFacts, Zenon
    <3>2. Len(Base("checkpoints")) \in Nat
      BY <3>1
    <3>3. cps = Append(Base("checkpoints"), op.frame)
      BY <1>2, <1>6, Zenon
    <3>4. /\ NumFrames(cps) = Len(Base("checkpoints")) + 1 /\ ~IsTorn(cps)
          /\ cps[Len(Base("checkpoints")) + 1] = op.frame
      BY <2>2, <3>1, <3>3, AppendWhole
    <3>5. QED
      BY <3>2, <3>4
  <2>4. Base("events") = file["events"] /\ disk'["checkpoints"] = {cps}
        /\ disk'["events"] = disk["events"]
    BY <1>3, <1>6, Zenon DEF Base
  <2>5. TypeOK'
    <3>1. counter' \in Nat /\ cpSize' \in Nat /\ anchored' \subseteq CheckpointFrame
      BY <2>1, <2>2, Zenon DEF CheckpointFrame, LedgerInv, TypeOK
    <3>2. QED
      BY <1>1, <1>3, <1>4, <2>1, <3>1, ZenonT(60) DEF LedgerInv, TypeOK
  <2>6. Holds("events")' /\ Holds("checkpoints")'
    BY <1>1, <2>5, Zenon DEF Holds, Base, TypeOK
  <2>7. Past'
    <3>1. \A cp \in anchored' : Vouched(cp)'
      BY <1>4, <2>1, <2>2, DiskShrinks, Zenon DEF LedgerInv, ClaimsHold
    <3>2. ClaimsHold'
      BY <1>1, <1>4, <2>1, <3>1, DiskShrinks, ZenonT(60) DEF LedgerInv, ClaimsHold
    <3>3. AnchorsLocal'
      <4> SUFFICES ASSUME NEW cp \in anchored' PROVE \E k \in 1 .. NumFrames(cps) : cps[k] = cp
        BY <2>4, Zenon DEF AnchorsLocal
      <4>1. CASE cp \in anchored
        BY <1>4, <2>4, <4>1, DiskShrinks, Zenon
      <4>2. CASE cp = op.frame
        <5>1. NumFrames(cps) \in 1 .. NumFrames(cps)
          BY <2>3, SMTT(30)
        <5>2. QED
          BY <2>3, <4>2, <5>1, Zenon
      <4>3. QED
        BY <2>1, <4>1, <4>2, Zenon
    <3>4. ReaderSound'
      BY <1>1, Zenon DEF LedgerInv, ReaderSound
    <3>5. QED
      BY <1>4, <3>2, <3>3, <3>4, DiskShrinks, Zenon DEF Past
  <2>8. HandleSound'
    <3>1. LastCheckpoint(cps) = op.frame
      BY <2>3, Zenon DEF LastCheckpoint
    <3>2. IsPrefixOf(tree, file["events"])
      BY <1>1, FlightFacts, Zenon DEF LedgerInv, HandleSound
    <3>3. QED
      BY <1>1, <2>1, <2>3, <2>4, <3>1, <3>2, FlightFacts, ZenonT(60) DEF HandleSound, Base
  <2>9. OpSound' /\ SetupSound'
    BY <1>1, <1>6, <2>1, <2>4, FlightFacts, ZenonT(60) DEF LedgerInv, OpSound, SetupSound
  <2>10. QED
    BY <2>5, <2>6, <2>7, <2>8, <2>9, Zenon DEF LedgerInv, Past
<1>7. QED
  BY <1>2, <1>5, <1>6, Zenon

\* truncate(before) restores what the log held before the append.
LEMMA RollbackInv ==
  ASSUME LedgerInv, Rollback
  PROVE  LedgerInv'
<1>1. /\ phase = "rollback"
      /\ file' = [file EXCEPT ![op.log] = Base(op.log)]
      /\ disk' = [disk EXCEPT ![op.log] = @ \cup {Base(op.log)}]
      /\ UNCHANGED <<setup, reader, acked, anchored, offered, faults>>
  BY Zenon DEF Rollback, Write, Base, history
<1>2. op.log \in Logs
  BY <1>1, FlightFacts, Zenon
<1>3. /\ file'["events"] = Base("events") /\ file'["checkpoints"] = Base("checkpoints")
      /\ DOMAIN file' = Logs /\ DOMAIN disk' = Logs
  BY <1>1, <1>2, Zenon DEF Base, LedgerInv, TypeOK
<1>4. Base(op.log) \in disk[op.log]
  BY <1>2, Zenon DEF LedgerInv, Holds
<1>5. disk'["events"] = disk["events"] /\ disk'["checkpoints"] = disk["checkpoints"]
  BY <1>1, <1>2, <1>4, Zenon DEF LedgerInv, TypeOK
<1>6. Past'
  BY <1>1, <1>5, PastShrinks, Zenon
<1>7. /\ Base("events") \in disk["events"] /\ Base("checkpoints") \in disk["checkpoints"]
      /\ Base("events") \in Seq(EventFrame) /\ Base("checkpoints") \in Seq(CheckpointFrame)
      /\ held /\ ~poisoned /\ setup # "none"
  BY <1>1, FlightFacts, Zenon
<1>8. CASE op.fatal
  <2>1. Released
    BY <1>8, Zenon DEF Rollback, Fail
  <2>2. TypeOK'
    <3>1. tree' \in Seq(Nat) /\ counter' \in Nat /\ cpSize' \in Nat /\ owed' \subseteq Logs
      BY <2>1 DEF Released
    <3>2. held' \in BOOLEAN /\ sync' \in BOOLEAN /\ poisoned' \in BOOLEAN
      BY <2>1, ZenonT(60) DEF Released
    <3>3. doing' = "nothing" /\ phase' = "none"
      BY <2>1, Zenon DEF Released
    <3>4. QED
      BY <1>1, <1>3, <1>5, <1>7, <3>1, <3>2, <3>3, Zenon DEF LedgerInv, TypeOK
  <2>3. Holds("events")' /\ Holds("checkpoints")'
    BY <2>1, <2>2, Zenon DEF Holds, Base, Released, TypeOK
  <2>4. HandleSound' /\ OpSound' /\ SetupSound'
    BY <1>1, <1>7, <2>1, ReleasedSound, Zenon DEF LedgerInv, SetupSound
  <2>5. QED
    BY <1>6, <2>2, <2>3, <2>4, Zenon DEF LedgerInv, Past
<1>9. CASE ~op.fatal
  <2>1. /\ phase' = "none" /\ doing' = "nothing" /\ poisoned' = poisoned
        /\ UNCHANGED <<held, tree, counter, cpSize, sync, owed>>
    BY <1>9, Zenon DEF Rollback, Fail
  <2>2. TypeOK'
    BY <1>1, <1>3, <1>5, <1>7, <2>1, Zenon DEF LedgerInv, TypeOK
  <2>3. Holds("events")' /\ Holds("checkpoints")'
    BY <2>1, <2>2, Zenon DEF Holds, Base, TypeOK
  <2>4. HandleSound'
    <3>1. IsPrefixOf(tree, Base("events"))
      <4>1. /\ Len(tree) = Len(Base("events")) /\ Len(tree) \in Nat
            /\ \A k \in 1 .. Len(tree) : tree[k] = Base("events")[k].id
        BY <1>1, TreeIsBase, Zenon
      <4>2. Len(tree) = NumFrames(Base("events"))
        BY <1>1, FlightFacts, Zenon
      <4>3. QED
        BY <4>1, <4>2, SMTT(30) DEF IsPrefixOf
    <3>2. Base("events")' = Base("events") /\ Base("checkpoints")' = Base("checkpoints")
      BY <1>3, <2>1, Zenon DEF Base
    <3>3. QED
      BY <1>1, <1>3, <2>1, <3>1, <3>2, FlightFacts, Zenon DEF HandleSound
  <2>5. OpSound' /\ SetupSound'
    BY <1>1, <1>7, <1>9, <2>1, ZenonT(60) DEF LedgerInv, OpSound, SetupSound
  <2>6. QED
    BY <1>6, <2>2, <2>3, <2>4, <2>5, Zenon DEF LedgerInv, Past
<1>10. QED
  BY <1>8, <1>9, Zenon

\* A rollback that fails keeps the invariant: the ledger is poisoned.
LEMMA RollbackFailsInv ==
  ASSUME LedgerInv, RollbackFails
  PROVE  LedgerInv'
<1>0. faults \in Nat
  BY Zenon DEF LedgerInv, TypeOK
<1>1. /\ phase = "rollback" /\ faults' \in Nat
      /\ UNCHANGED <<file, disk, setup, reader, acked, anchored, offered>>
  BY <1>0, SMTT(30) DEF RollbackFails, Fault, history
<1>2. held /\ setup # "none" /\ doing \notin {"keep", "cut", "syncfs", "checkpoint"}
  BY <1>1, FlightFacts, Zenon
<1>3. CASE op.fatal
  <2>1. Released
    BY <1>3, Zenon DEF RollbackFails, Fail
  <2>2. QED
    BY <1>1, <1>2, <2>1, ReleaseInv, Zenon
<1>4. CASE ~op.fatal
  <2>1. /\ phase' = "none" /\ doing' = "nothing" /\ poisoned' = TRUE
        /\ UNCHANGED <<held, tree, counter, cpSize, sync, owed>>
    BY <1>4, Zenon DEF RollbackFails, Fail
  <2>2. TypeOK'
    BY <1>1, <2>1, Zenon DEF LedgerInv, TypeOK
  <2>3. Holds("events")' /\ Holds("checkpoints")'
    BY <2>1, <2>2, Zenon DEF Holds, Base, TypeOK
  <2>4. HandleSound'
    BY <1>1, <1>2, <2>1, Zenon DEF LedgerInv, HandleSound
  <2>5. OpSound' /\ SetupSound'
    BY <1>1, <1>2, <1>4, <2>1, ZenonT(60) DEF LedgerInv, OpSound, SetupSound
  <2>6. QED
    BY <1>1, <2>2, <2>3, <2>4, <2>5, PastUnchanged, Zenon DEF LedgerInv, Past
<1>5. QED
  BY <1>3, <1>4, Zenon

-----------------------------------------------------------------------------
(***************************************************************************)
(* The theorems.                                                           *)
(***************************************************************************)

\* The empty state directory satisfies the invariant.
LEMMA InitInv == Init => LedgerInv
<1> SUFFICES ASSUME Init PROVE LedgerInv
  OBVIOUS
<1>1. /\ file["events"] = <<>> /\ file["checkpoints"] = <<>>
      /\ disk["events"] = {<<>>} /\ disk["checkpoints"] = {<<>>}
      /\ DOMAIN file = Logs /\ DOMAIN disk = Logs
      /\ ~held /\ phase = "none" /\ doing = "nothing" /\ anchored = {} /\ acked = <<>>
      /\ reader = Idle("none")
  BY Zenon DEF Init
<1>2. TypeOK
  <2>1. tree \in Seq(Nat) /\ acked \in Seq(Nat) /\ owed \subseteq Logs
    BY DEF Init
  <2>2. offered \in [Logs -> Nat] /\ faults \in Nat /\ counter \in Nat /\ cpSize \in Nat
    BY Zenon DEF Init
  <2>3. held \in BOOLEAN /\ sync \in BOOLEAN /\ poisoned \in BOOLEAN /\ setup = "none"
    BY Zenon DEF Init
  <2>4. QED
    BY <1>1, <2>1, <2>2, <2>3 DEF TypeOK
<1>3. Holds("events") /\ Holds("checkpoints")
  BY <1>1, Zenon DEF Holds, Base
<1>4. NumFrames(<<>>) = 0 /\ Len(<<>>) = 0
  BY Zenon DEF NumFrames, IsTorn
<1>5. DiskSound /\ ClaimsHold /\ AnchorsLocal
  BY <1>1, <1>4, SMTT(30) DEF DiskSound, WellFramed, Chained, Ascending, ClaimsHold, AnchorsLocal,
                    Idle, IsPrefixOf
<1>6. ReaderSound /\ HandleSound /\ OpSound
  BY <1>1, Zenon DEF ReaderSound, HandleSound, OpSound, Idle
<1>7. SetupSound
  BY <1>1, SMTT(30) DEF SetupSound, Init, Idle
<1>8. QED
  BY <1>2, <1>3, <1>5, <1>6, <1>7, Zenon DEF LedgerInv

\* A step that changes nothing keeps the invariant.
LEMMA StutterInv ==
  ASSUME LedgerInv, UNCHANGED vars
  PROVE  LedgerInv'
<1>1. UNCHANGED <<file, disk, setup, held, tree, counter, cpSize, sync, poisoned, doing, owed,
                  phase, op, reader, acked, anchored, offered, faults>>
  BY Zenon DEF vars, handle, history
<1>2. TypeOK'
  BY <1>1, ZenonT(60) DEF LedgerInv, TypeOK
<1>3. Holds("events")' /\ Holds("checkpoints")'
  BY <1>1, Zenon DEF LedgerInv, Holds, Base
<1>4. HandleSound'
  BY <1>1, ZenonT(60) DEF LedgerInv, HandleSound, Base, TornLogs
<1>5. OpSound'
  BY <1>1, ZenonT(60) DEF LedgerInv, OpSound, Base, Vouched, LastLeaf
<1>6. SetupSound'
  BY <1>1, Zenon DEF LedgerInv, SetupSound
<1>7. QED
  BY <1>1, <1>2, <1>3, <1>4, <1>5, <1>6, PastUnchanged, Zenon DEF LedgerInv, Past

\* Every step of the disciplined engine and of its environment keeps the
\* invariant.
LEMMA NextInv == LedgerInv /\ [SyncedNext]_vars => LedgerInv'
<1> SUFFICES ASSUME LedgerInv, [SyncedNext]_vars PROVE LedgerInv'
  OBVIOUS
<1>1. CASE AppendStep
  BY <1>1, WriteFrameInv, WriteShortInv, SyncFrameInv, SyncFrameFailsInv, RollbackInv,
     RollbackFailsInv, Zenon DEF AppendStep
<1>2. CASE SetupStep
  BY <1>2, CreateInv, OffersInv, DropInv, Zenon DEF SetupStep
<1>3. CASE OpenStep
  BY <1>3, OpenInv, FlagsInv, CutTailInv, OffersInv, DropInv, Zenon DEF OpenStep
<1>4. CASE EngineStep
  BY <1>4, OffersInv, FlagsInv, FlushInv, DropInv, Zenon DEF EngineStep
<1>5. CASE DurableCheckpoint
  BY <1>5, OffersInv, Zenon
<1>6. CASE Environment
  BY <1>6, ReaderInv, DropInv, PowerCutInv, Zenon DEF Environment
<1>7. CASE UNCHANGED vars
  BY <1>7, StutterInv, Zenon
<1>8. QED
  BY <1>1, <1>2, <1>3, <1>4, <1>5, <1>6, <1>7, Zenon DEF SyncedNext

\* The invariant of the ledger holds in every behaviour of the disciplined
\* engine: the in-memory Ledger value, the two files and everything claimed
\* about them agree, whatever append, sync, rollback, kill or power cut does.
THEOREM Invariance == SyncedSpec => []LedgerInv
<1>1. LedgerInv /\ [SyncedNext]_vars => LedgerInv'
  BY NextInv, Zenon
<1>2. QED
  BY InitInv, <1>1, PTL DEF SyncedSpec

\* Both logs only ever hold frames of their own kind, and the content seen
\* through the page cache is always one the disk may hold.
THEOREM TypeCorrect == SyncedSpec => []TypeOK
<1>1. LedgerInv => TypeOK
  BY Zenon DEF LedgerInv
<1>2. QED
  BY <1>1, Invariance, PTL

\* Whatever a power cut leaves of the two logs, open_with_events finds no
\* corruption, no truncation and no fork in it.
THEOREM AlwaysReopens == SyncedSpec => []Reopens
<1>1. LedgerInv => Reopens
  <2> SUFFICES ASSUME LedgerInv, NEW evs \in disk["events"], NEW cps \in disk["checkpoints"]
               PROVE  Replay(cps, evs) \in {"ok", "empty"}
    BY Zenon DEF Reopens
  <2>1. \A k \in 1 .. NumFrames(cps) : Covers(cps[k], evs)
    BY Zenon DEF LedgerInv, ClaimsHold, Vouched
  <2>2. QED
    BY <2>1, ReplayAccepts, Zenon DEF LedgerInv, DiskSound
<1>2. QED
  BY <1>1, Invariance, PTL

\* An append, or the flush of a batch, that returned Ok is never lost.
THEOREM AckedNeverLost == SyncedSpec => []AckedSurvive
<1>1. LedgerInv => AckedSurvive
  BY Zenon DEF LedgerInv, ClaimsHold, AckedSurvive
<1>2. QED
  BY <1>1, Invariance, PTL

\* A checkpoint kept off the machine matches the ledger for ever, and its
\* counter is its own.
THEOREM AnchorsNeverBroken == SyncedSpec => []AnchorsHold
<1>1. LedgerInv => AnchorsHold
  <2> SUFFICES ASSUME LedgerInv PROVE AnchorsHold
    OBVIOUS
  <2>1. \A cp \in anchored, evs \in disk["events"] : WithinLog(cp, evs) /\ Commits(cp, evs)
    BY Zenon DEF LedgerInv, ClaimsHold, Vouched, Covers
  <2>2. ASSUME NEW a \in anchored, NEW b \in anchored, a.counter = b.counter
        PROVE  a = b
    <3> DEFINE cps == file["checkpoints"]
    <3>1. cps \in disk["checkpoints"] /\ cps \in Seq(CheckpointFrame) /\ Ascending(cps)
      BY Zenon DEF LedgerInv, TypeOK, DiskSound
    <3>2. PICK j \in 1 .. NumFrames(cps) : cps[j] = a
      BY <3>1, Zenon DEF LedgerInv, AnchorsLocal
    <3>3. PICK k \in 1 .. NumFrames(cps) : cps[k] = b
      BY <3>1, Zenon DEF LedgerInv, AnchorsLocal
    <3>4. a.counter \in Nat
      BY Zenon DEF LedgerInv, TypeOK, CheckpointFrame
    <3>5. ~(j < k) /\ ~(k < j)
      BY <2>2, <3>1, <3>2, <3>3, <3>4, SMTT(30) DEF Ascending
    <3>6. j = k
      BY <3>1, <3>5, NumFramesType, SMTT(30)
    <3>7. QED
      BY <3>2, <3>3, <3>6, Zenon
  <2>3. QED
    BY <2>1, <2>2, Zenon DEF AnchorsHold
<1>2. QED
  BY <1>1, Invariance, PTL

\* A verifier that takes no lock never reports an honest ledger as damaged.
THEOREM VerifierNeverAlarms == SyncedSpec => []NoFalseAlarm
<1>1. LedgerInv => NoFalseAlarm
  BY Zenon DEF LedgerInv, ReaderSound, NoFalseAlarm
<1>2. QED
  BY <1>1, Invariance, PTL

\* After any number of failed appends the Ledger value equals a fresh replay.
THEOREM HandleNeverDrifts == SyncedSpec => []HandleMatchesFiles
<1>1. LedgerInv => HandleMatchesFiles
  <2> SUFFICES ASSUME LedgerInv, Ready, ~poisoned
               PROVE  /\ TornLogs = {}
                      /\ tree = Leaves(file["events"])
                      /\ counter = LastCheckpoint(file["checkpoints"]).counter
                      /\ cpSize = LastCheckpoint(file["checkpoints"]).size
    BY Zenon DEF HandleMatchesFiles
  <2>1. /\ ~IsTorn(file["events"]) /\ ~IsTorn(file["checkpoints"])
        /\ Len(tree) = NumFrames(file["events"]) /\ IsPrefixOf(tree, file["events"])
        /\ counter = LastCheckpoint(file["checkpoints"]).counter
        /\ cpSize = LastCheckpoint(file["checkpoints"]).size
    BY ReadyFacts, Zenon DEF Ready
  <2>2. tree = Leaves(file["events"])
    BY <2>1, LeavesEqual, ZenonT(60) DEF LedgerInv, TypeOK
  <2>3. TornLogs = {}
    BY <2>1, Zenon DEF TornLogs
  <2>4. QED
    BY <2>1, <2>2, <2>3, Zenon
<1>2. QED
  BY <1>1, Invariance, PTL

\* The tail about to be cut is already in a quarantine file.
TailKept == doing = "cut" => file[Repaired][Len(file[Repaired])] \in kept

\* Repairing a torn write never destroys evidence.
THEOREM TornBytesAlwaysKept == SyncedSpec => TornBytesKept
<1> DEFINE Safe ==
      \A log \in Logs :
        IsTorn(file[log]) /\ ~IsTorn(file'[log]) /\ held /\ held' /\ phase = "none"
          => file[log][Len(file[log])] \in kept'
<1>1. Init => TailKept
  BY Zenon DEF Init, TailKept
<1>2. LedgerInv /\ TailKept /\ [SyncedNext]_vars => TailKept'
  <2> SUFFICES ASSUME LedgerInv, TailKept, [SyncedNext]_vars, doing' = "cut"
               PROVE  file'[Repaired'][Len(file'[Repaired'])] \in kept'
    BY Zenon DEF TailKept
  <2>1. KeepTail \/ (doing = "cut" /\ UNCHANGED <<file, kept>>)
    <3>1. doing = "cut" => phase = "none" /\ held
      BY ZenonT(60) DEF LedgerInv, HandleSound, SetupSound
    <3>2. CASE AppendStep
      BY <3>1, <3>2, ZenonT(60) DEF AppendStep, WriteFrame, WriteShort, SyncFrame, SyncFrameFails,
            Rollback, RollbackFails, Advance, Fail, Released
    <3>3. CASE SetupStep
      BY <3>3, ZenonT(60) DEF SetupStep, Create, SetupEvent, SetupCheckpoint, SetupDone, Released
    <3>4. CASE OpenStep
      BY <3>4, Zenon DEF OpenStep, Open, CutTail, Report, OpenFails, Released
    <3>5. CASE EngineStep
      BY <3>5, ZenonT(60) DEF EngineStep, AppendEvent, AppendRefused, BeginBatch, AbandonBatch, Flush, SyncFs,
            FlushCheckpoint, SyncLogs, FlushFails, Close, Released, Ready, handle
    <3>6. CASE DurableCheckpoint
      BY <3>6, Zenon DEF DurableCheckpoint, OperatorCheckpoint, Ready
    <3>7. CASE Environment
      BY <3>7, Zenon DEF Environment, ReadFirst, ReadSecond, Kill, PowerCut, Released, handle
    <3>8. CASE UNCHANGED vars
      BY <3>8, Zenon DEF vars, handle
    <3>9. QED
      BY <3>2, <3>3, <3>4, <3>5, <3>6, <3>7, <3>8, Zenon DEF SyncedNext
  <2>2. CASE KeepTail
    BY <2>2, Zenon DEF KeepTail, Repaired
  <2>3. CASE doing = "cut" /\ UNCHANGED <<file, kept>>
    BY <2>3, Zenon DEF TailKept, Repaired
  <2>4. QED
    BY <2>1, <2>2, <2>3, Zenon
<1>3. LedgerInv /\ TailKept /\ [SyncedNext]_vars => [Safe]_vars
  <2> SUFFICES ASSUME LedgerInv, TailKept, SyncedNext, NEW log \in Logs,
                      IsTorn(file[log]), ~IsTorn(file'[log]), held, held', phase = "none"
               PROVE  file[log][Len(file[log])] \in kept'
    OBVIOUS
  <2>1. file'[log] # file[log]
    OBVIOUS
  <2>2. CutTail
    <3>1. CASE AppendStep
      BY <3>1, ZenonT(60) DEF AppendStep, WriteFrame, WriteShort, SyncFrame, SyncFrameFails, Rollback,
            RollbackFails
    <3>2. CASE SetupStep
      BY <2>1, <3>2, Zenon DEF SetupStep, Create, SetupEvent, SetupCheckpoint, SetupDone
    <3>3. CASE OpenStep
      BY <2>1, <3>3, ZenonT(60) DEF OpenStep, Open, KeepTail, Report, OpenFails
    <3>4. CASE EngineStep
      BY <2>1, <3>4, Zenon DEF EngineStep, AppendEvent, AppendRefused, BeginBatch, AbandonBatch, Flush, SyncFs,
            FlushCheckpoint, SyncLogs, FlushFails, Close
    <3>5. CASE DurableCheckpoint
      BY <2>1, <3>5, Zenon DEF DurableCheckpoint, OperatorCheckpoint
    <3>6. CASE Environment
      BY <2>1, <3>6, Zenon DEF Environment, ReadFirst, ReadSecond, Kill, PowerCut, Released
    <3>7. QED
      BY <3>1, <3>2, <3>3, <3>4, <3>5, <3>6, Zenon DEF SyncedNext
  <2>3. log = Repaired
    <3>1. file' = [file EXCEPT ![Repaired] = SubSeq(file[Repaired], 1, Len(file[Repaired]) - 1)]
      BY <2>2, Zenon DEF CutTail, Write
    <3>2. QED
      BY <2>1, <3>1, SMTT(30)
  <2>4. QED
    BY <2>2, <2>3, Zenon DEF CutTail, TailKept
<1>4. QED
  BY <1>1, <1>2, <1>3, Invariance, PTL DEF SyncedSpec, TornBytesKept

-----------------------------------------------------------------------------
(***************************************************************************)
(* The ledger is an append-only log.                                       *)
(***************************************************************************)

\* Every nonempty set of natural numbers has a least element.
LEMMA Least ==
  ASSUME NEW T \in SUBSET Nat, T # {}
  PROVE  \E n \in T : \A m \in T : n <= m
<1> DEFINE R == OpToRel(<, Nat)
<1>1. IsWellFoundedOn(R, Nat)
  BY NatLessThanWellFounded, Zenon
<1>2. \E x \in T : \A y \in T : ~(<<y, x>> \in R)
  <2> HIDE DEF R
  <2> QED BY <1>1, WFMin, Zenon
<1>3. \A m, n \in Nat : m < n => <<m, n>> \in R
  <2> SUFFICES ASSUME NEW m \in Nat, NEW n \in Nat, m < n
               PROVE  <<m, n>> \in OpToRel(<, Nat)
    BY Zenon
  <2>1. <<m, n>>[1] < <<m, n>>[2]
    OBVIOUS
  <2> QED BY <2>1, Zenon DEF OpToRel
<1> HIDE DEF R
<1>4. PICK x \in T : \A y \in T : ~(<<y, x>> \in R)
  BY <1>2
<1>5. \A y \in T : ~(y < x)
  BY <1>3, <1>4, Zenon
<1> QED BY <1>5

\* What the refinement mapping computes from the contents events.log may have:
\* leaves that all of them begin with, and no others are longer.
LEMMA DurableFacts ==
  ASSUME NEW contents \in SUBSET Seq(EventFrame), contents # {}
  PROVE  /\ LongestCommon(contents) \in Seq(Nat)
         /\ \A evs \in contents : IsPrefixOf(LongestCommon(contents), evs)
         /\ \A s \in Seq(Nat) :
              (\A evs \in contents : IsPrefixOf(s, evs))
                => Abstract!Begins(s, LongestCommon(contents))
<1> DEFINE C == CommonLeaves(contents)
           L == LongestCommon(contents)
<1>1. PICK one \in contents : one \in Seq(EventFrame)
  OBVIOUS
<1>2. \A evs \in contents : \A n \in 0 .. NumFrames(evs) :
        /\ SubSeq(Leaves(evs), 1, n) \in Seq(Nat)
        /\ Len(SubSeq(Leaves(evs), 1, n)) = n
        /\ \A k \in 1 .. n : SubSeq(Leaves(evs), 1, n)[k] = evs[k].id
  <2> SUFFICES ASSUME NEW evs \in contents, NEW n \in 0 .. NumFrames(evs)
               PROVE  /\ SubSeq(Leaves(evs), 1, n) \in Seq(Nat)
                      /\ Len(SubSeq(Leaves(evs), 1, n)) = n
                      /\ \A k \in 1 .. n : SubSeq(Leaves(evs), 1, n)[k] = evs[k].id
    BY Zenon
  <2> DEFINE leaves == Leaves(evs)
  <2>1. /\ leaves \in Seq(Nat) /\ Len(leaves) = NumFrames(evs)
        /\ \A k \in 1 .. NumFrames(evs) : leaves[k] = evs[k].id
        /\ NumFrames(evs) \in Nat
    BY LeavesFacts, NumFramesType, Zenon
  <2> HIDE DEF leaves
  <2>2. n \in Nat /\ \A k \in 1 .. n : k \in 1 .. NumFrames(evs) /\ leaves[k] \in Nat
    BY <2>1
  <2>3. /\ SubSeq(leaves, 1, n) \in Seq(Nat)
        /\ Len(SubSeq(leaves, 1, n)) = n
        /\ \A k \in 1 .. n : SubSeq(leaves, 1, n)[k] = leaves[k]
    BY <2>1, <2>2
  <2> QED BY <2>1, <2>2, <2>3, Zenon DEF leaves
<1>0. \A s : s \in C <=>
        /\ \E evs \in contents : \E n \in 0 .. NumFrames(evs) : s = SubSeq(Leaves(evs), 1, n)
        /\ \A evs \in contents : IsPrefixOf(s, evs)
  BY SMT DEF CommonLeaves
<1> HIDE DEF C
<1>3. C \subseteq Seq(Nat)
  <2> SUFFICES ASSUME NEW s \in C PROVE s \in Seq(Nat)
    OBVIOUS
  <2>1. PICK evs \in contents : \E n \in 0 .. NumFrames(evs) : s = SubSeq(Leaves(evs), 1, n)
    BY <1>0, Zenon
  <2>2. PICK n \in 0 .. NumFrames(evs) : s = SubSeq(Leaves(evs), 1, n)
    BY <2>1, Zenon
  <2> QED BY <1>2, <2>2, Zenon
<1>4. \A s \in Seq(Nat) : s \in C <=> \A evs \in contents : IsPrefixOf(s, evs)
  <2> SUFFICES ASSUME NEW s \in Seq(Nat), IsPrefixOf(s, one)
               PROVE  s = SubSeq(Leaves(one), 1, Len(s)) /\ Len(s) \in 0 .. NumFrames(one)
    BY <1>0, <1>1, Zenon
  <2>1. Len(s) \in 0 .. NumFrames(one)
    BY <1>1, NumFramesType DEF IsPrefixOf
  <2>2. \A k \in 1 .. Len(s) : s[k] = SubSeq(Leaves(one), 1, Len(s))[k]
    BY <1>1, <1>2, <2>1, Zenon DEF IsPrefixOf
  <2> QED BY <1>1, <1>2, <2>1, <2>2, SeqEqual, Zenon
<1>5. <<>> \in C
  <2>1. <<>> \in Seq(Nat) /\ Len(<<>>) = 0
    OBVIOUS
  <2>2. \A evs \in contents : NumFrames(evs) \in Nat
    BY NumFramesType, Zenon
  <2>3. \A evs \in contents : IsPrefixOf(<<>>, evs)
    BY <2>1, <2>2 DEF IsPrefixOf
  <2> QED BY <1>4, <2>1, <2>3, Zenon
<1>6. \E longest \in C : \A other \in C : Len(other) <= Len(longest)
  <2> DEFINE T == {NumFrames(one) - Len(s) : s \in C}
  <2>1. \A s \in C : Len(s) \in Nat /\ Len(s) <= NumFrames(one)
    <3>1. \A s \in C : s \in Seq(Nat) /\ IsPrefixOf(s, one)
      BY <1>1, <1>3, <1>4, Zenon
    <3> QED BY <3>1 DEF IsPrefixOf
  <2>2. NumFrames(one) \in Nat
    BY <1>1, NumFramesType, Zenon
  <2>3. T \in SUBSET Nat /\ T # {}
    BY <1>5, <2>1, <2>2
  <2>4. PICK n \in T : \A m \in T : n <= m
    BY <2>3, Least, Zenon
  <2>5. PICK s \in C : n = NumFrames(one) - Len(s)
    BY <2>4, Zenon
  <2>6. \A other \in C : NumFrames(one) - Len(s) <= NumFrames(one) - Len(other)
    BY <2>4, <2>5, Zenon
  <2>7. \A other \in C : Len(other) <= Len(s)
    <3> HIDE DEF T
    <3> QED BY <2>1, <2>2, <2>5, <2>6
  <2> QED BY <2>5, <2>7, Zenon
<1>7. L \in C /\ \A other \in C : Len(other) <= Len(L)
  BY <1>6, Zenon DEF LongestCommon, C
<1> HIDE DEF L
<1>8. L \in Seq(Nat) /\ \A evs \in contents : IsPrefixOf(L, evs)
  BY <1>3, <1>4, <1>7, Zenon
<1>9. ASSUME NEW s \in Seq(Nat), \A evs \in contents : IsPrefixOf(s, evs)
      PROVE  Abstract!Begins(s, L)
  <2>1. Len(s) <= Len(L) /\ Len(s) \in Nat /\ Len(L) \in Nat
    BY <1>4, <1>7, <1>8, <1>9
  <2>2. \A k \in 1 .. Len(s) : s[k] = one[k].id
    BY <1>1, <1>9, Zenon DEF IsPrefixOf
  <2>3. \A k \in 1 .. Len(L) : L[k] = one[k].id
    BY <1>1, <1>8, Zenon DEF IsPrefixOf
  <2>4. \A k \in 1 .. Len(s) : k \in 1 .. Len(L)
    BY <2>1
  <2> QED BY <2>1, <2>2, <2>3, <2>4, Zenon DEF Abstract!Begins
<1> QED BY <1>8, <1>9, Zenon DEF L

\* Durable entries stay durable when every new possible content of events.log
\* extends an old one.
LEMMA DurableGrows ==
  ASSUME LedgerInv, LedgerInv',
         \A new \in disk'["events"] : \E old \in disk["events"] : Extends(new, old)
  PROVE  /\ DurableLeaves \in Seq(Nat) /\ DurableLeaves' \in Seq(Nat)
         /\ Abstract!Begins(DurableLeaves, DurableLeaves')
<1>1. /\ disk["events"] \in SUBSET Seq(EventFrame) /\ disk["events"] # {}
      /\ disk'["events"] \in SUBSET Seq(EventFrame) /\ disk'["events"] # {}
  BY Zenon DEF LedgerInv, TypeOK
<1>2. DurableLeaves \in Seq(Nat) /\ \A evs \in disk["events"] : IsPrefixOf(DurableLeaves, evs)
  BY <1>1, DurableFacts, Zenon DEF DurableLeaves
<1>3. \A evs \in disk'["events"] : IsPrefixOf(DurableLeaves, evs)
  BY <1>1, <1>2, AckedStays, Zenon
<1>4. DurableLeaves' = LongestCommon(disk'["events"])
  BY Zenon DEF DurableLeaves
<1> QED BY <1>1, <1>2, <1>3, <1>4, DurableFacts, Zenon

\* Writing a frame of the append in flight, whole, cut short or not at all, only
\* extends what events.log may hold.
LEMMA WriteGrows ==
  ASSUME LedgerInv, phase = "write",
         NEW content \in {file[op.log], Append(file[op.log], op.frame),
                          Append(file[op.log], Shorten(op.frame))},
         NEW passed \in SUBSET {Append(file[op.log], Shorten(op.frame))},
         Write(op.log, content, passed)
  PROVE  \A new \in disk'["events"] : \E old \in disk["events"] : Extends(new, old)
<1>1. /\ op.log \in Logs /\ Base("events") = file["events"]
      /\ file["events"] \in disk["events"] /\ disk["events"] \subseteq Seq(EventFrame)
  BY FlightFacts, Zenon DEF Base, LedgerInv, TypeOK
<1>2. \A old \in disk["events"] : Extends(old, old)
  BY <1>1, ExtendsSelf, Zenon
<1>3. disk' = [disk EXCEPT ![op.log] = @ \cup passed \cup {content}] /\ DOMAIN disk = Logs
  BY Zenon DEF Write, LedgerInv, TypeOK
<1>4. CASE op.log = "events"
  <2>1. disk'["events"] = disk["events"] \cup passed \cup {content}
    BY <1>3, <1>4, Zenon
  <2>2. Extends(Append(file["events"], op.frame), file["events"])
    BY <1>1, <1>4, EventFits, Zenon
  <2>3. Extends(Append(file["events"], Shorten(op.frame)), file["events"])
    BY <1>1, <1>4, EventFits, Zenon
  <2> QED BY <1>1, <1>2, <1>4, <2>1, <2>2, <2>3, Zenon
<1>5. CASE op.log = "checkpoints"
  <2>1. disk'["events"] = disk["events"]
    BY <1>3, <1>5, Zenon
  <2> QED BY <1>2, <2>1, Zenon
<1> QED BY <1>1, <1>4, <1>5, Zenon

\* Cutting the torn tail of either log only extends what events.log may hold.
LEMMA CutGrows ==
  ASSUME LedgerInv, CutTail
  PROVE  \A new \in disk'["events"] : \E old \in disk["events"] : Extends(new, old)
<1> DEFINE log == Repaired
           cut == SubSeq(file[log], 1, Len(file[log]) - 1)
<1>1. log \in Logs /\ IsTorn(file[log])
  BY Zenon DEF CutTail, LedgerInv, HandleSound, TornLogs, Repaired
<1>2. disk' = [disk EXCEPT ![log] = @ \cup {cut}] /\ DOMAIN disk = Logs
  BY Zenon DEF CutTail, Write, LedgerInv, TypeOK
<1>3. /\ file["events"] \in disk["events"] /\ disk["events"] \subseteq Seq(EventFrame)
      /\ WellFramed(file["events"])
  BY Zenon DEF LedgerInv, TypeOK, DiskSound
<1>4. \A old \in disk["events"] : Extends(old, old)
  BY <1>3, ExtendsSelf, Zenon
<1> HIDE DEF log
<1>5. CASE log = "events"
  <2>1. /\ NumFrames(cut) = NumFrames(file["events"]) /\ cut \in Seq(EventFrame)
        /\ \A k \in 1 .. NumFrames(cut) : cut[k] = file["events"][k]
    BY <1>1, <1>3, <1>5, CutTorn, Zenon
  <2> HIDE DEF cut
  <2>2. NumFrames(cut) \in Nat
    BY <2>1, NumFramesType, Zenon
  <2>3. Extends(cut, file["events"])
    BY <2>1, <2>2 DEF Extends
  <2>4. disk'["events"] = disk["events"] \cup {cut}
    BY <1>2, <1>5, Zenon
  <2> QED BY <1>3, <1>4, <2>3, <2>4, Zenon
<1>6. CASE log = "checkpoints"
  <2>1. disk'["events"] = disk["events"]
    BY <1>2, <1>6, Zenon
  <2> QED BY <1>4, <2>1, Zenon
<1> QED BY <1>1, <1>5, <1>6, Zenon

\* No step takes a whole frame out of every content events.log may have: a
\* sync, a rollback and a power cut choose among old contents, and the others
\* extend one.
LEMMA EventsGrow ==
  ASSUME LedgerInv, [SyncedNext]_vars
  PROVE  \A new \in disk'["events"] : \E old \in disk["events"] : Extends(new, old)
<1> DEFINE Shrinks == disk'["events"] \subseteq disk["events"]
<1>1. file["events"] \in disk["events"] /\ disk["events"] \subseteq Seq(EventFrame)
  BY Zenon DEF LedgerInv, TypeOK
<1>2. Shrinks => \A new \in disk'["events"] : \E old \in disk["events"] : Extends(new, old)
  BY <1>1, ExtendsSelf, Zenon
<1>3. UNCHANGED disk \/ AllDurable => Shrinks
  BY <1>1, Zenon DEF AllDurable
<1>4. ASSUME NEW log \in Logs, Durable(log) PROVE Shrinks
  BY <1>1, <1>4, Zenon DEF Durable, LedgerInv, TypeOK
<1>5. CASE AppendStep
  <2>1. CASE WriteFrame
    <3>1. /\ phase = "write"
          /\ Write(op.log, Append(file[op.log], op.frame), {Append(file[op.log], Shorten(op.frame))})
      BY <2>1, Zenon DEF WriteFrame
    <3> QED BY <3>1, WriteGrows, Zenon
  <2>2. CASE WriteShort
    <3>1. PICK content \in {file[op.log], Append(file[op.log], Shorten(op.frame))} :
            Write(op.log, content, {})
      BY <2>2, Zenon DEF WriteShort
    <3>2. phase = "write"
      BY <2>2, Zenon DEF WriteShort
    <3>3. {} \in SUBSET {Append(file[op.log], Shorten(op.frame))}
      OBVIOUS
    <3> QED BY <3>1, <3>2, <3>3, WriteGrows, Zenon
  <2>3. CASE SyncFrame
    <3>1. op.log \in Logs
      BY <2>3, FlightFacts, Zenon DEF SyncFrame
    <3> QED BY <1>2, <1>4, <2>3, <3>1, Zenon DEF SyncFrame
  <2>4. CASE Rollback
    <3>1. phase = "rollback" /\ disk' = [disk EXCEPT ![op.log] = @ \cup {Base(op.log)}]
      BY <2>4, Zenon DEF Rollback, Write, Base
    <3>2. op.log \in Logs /\ Base("events") \in disk["events"] /\ DOMAIN disk = Logs
      BY <3>1, FlightFacts, Zenon DEF LedgerInv, TypeOK
    <3>3. Shrinks
      BY <3>1, <3>2, Zenon
    <3> QED BY <1>2, <3>3, Zenon
  <2>5. CASE SyncFrameFails \/ RollbackFails
    BY <1>2, <1>3, <2>5, Zenon DEF SyncFrameFails, RollbackFails
  <2> QED BY <1>5, <2>1, <2>2, <2>3, <2>4, <2>5, Zenon DEF AppendStep
<1>6. CASE SetupStep
  BY <1>2, <1>3, <1>6, Zenon DEF SetupStep, Create, SetupEvent, SetupCheckpoint, SetupDone
<1>7. CASE OpenStep
  BY <1>2, <1>3, <1>7, CutGrows, Zenon DEF OpenStep, Open, KeepTail, Report, OpenFails
<1>8. CASE EngineStep
  <2>1. UNCHANGED disk \/ AllDurable \/ Durable("events")
    BY <1>8, ZenonT(60) DEF EngineStep, AppendEvent, AppendRefused, BeginBatch, AbandonBatch, Flush,
          SyncFs, FlushCheckpoint, SyncLogs, FlushFails, Close
  <2> QED BY <1>2, <1>3, <1>4, <2>1, Zenon
<1>9. CASE DurableCheckpoint
  BY <1>2, <1>3, <1>9, Zenon DEF DurableCheckpoint, OperatorCheckpoint
<1>10. CASE Environment
  <2>1. CASE PowerCut
    <3>1. PICK evs \in disk["events"] : file'["events"] = evs
      BY <2>1, Zenon DEF PowerCut
    <3>2. disk'["events"] = {evs}
      BY <2>1, <3>1, Zenon DEF PowerCut
    <3> QED BY <1>2, <3>2, Zenon
  <2>2. CASE ReadFirst \/ ReadSecond \/ Kill
    BY <1>2, <1>3, <2>2, Zenon DEF ReadFirst, ReadSecond, Kill
  <2> QED BY <1>10, <2>1, <2>2, Zenon DEF Environment
<1>11. CASE UNCHANGED vars
  BY <1>2, <1>3, <1>11, Zenon DEF vars
<1> QED BY <1>5, <1>6, <1>7, <1>8, <1>9, <1>10, <1>11, Zenon DEF SyncedNext

\* The holder knows every entry that was ever acknowledged.
AckedKnown == held => Abstract!Begins(acked, tree)

\* The append in flight added its event to the tree.
Appended == phase # "none" /\ op.log = "events" /\ tree' = Append(tree, op.frame.id)

\* What a step does to the tree, the acknowledgements and the anchors.
LEMMA HistorySteps ==
  ASSUME LedgerInv, [SyncedNext]_vars
  PROVE  \/ UNCHANGED <<acked, anchored>> /\ (held' => held /\ tree' = tree)
         \/ UNCHANGED <<acked, anchored>> /\ (Open \/ Create)
         \/ UNCHANGED <<acked, anchored>> /\ held /\ Appended
         \/ anchored' = anchored /\ acked' = tree' /\ held /\ (tree' = tree \/ Appended)
         \/ acked' = acked /\ tree' = tree /\ SyncFrame /\ op.log = "checkpoints" /\ op.external
<1>1. phase # "none" => op.log \in Logs
  BY FlightFacts, Zenon
<1>2. CASE AppendStep
  <2>1. CASE WriteFrame
    <3>1. ~sync => op.log = "events"
      BY <1>1, <2>1, Zenon DEF WriteFrame, LedgerInv, OpSound
    <3>2. sync => UNCHANGED <<acked, anchored, held, tree>>
      BY <2>1, Zenon DEF WriteFrame, history
    <3>3. ~sync => UNCHANGED <<acked, anchored>> /\ held /\ Appended
      BY <2>1, <3>1, Zenon DEF WriteFrame, Advance, Appended
    <3> QED BY <3>2, <3>3, Zenon
  <2>2. CASE SyncFrame
    <3>1. held /\ phase # "none" /\ held' = held /\ Advance
      BY <2>2, Zenon DEF SyncFrame, Advance
    <3>2. CASE op.log = "events"
      BY <3>1, <3>2, Zenon DEF Advance, Appended
    <3>3. CASE op.log = "checkpoints"
      BY <2>2, <3>1, <3>3, Zenon DEF Advance
    <3> QED BY <1>1, <3>1, <3>2, <3>3, Zenon
  <2>3. CASE WriteShort \/ SyncFrameFails
    BY <2>3, Zenon DEF WriteShort, SyncFrameFails, history
  <2>4. CASE Rollback \/ RollbackFails
    BY <2>4, Zenon DEF Rollback, RollbackFails, Fail, Released, history
  <2> QED BY <1>2, <2>1, <2>2, <2>3, <2>4, Zenon DEF AppendStep
<1>3. CASE SetupStep
  BY <1>3, Zenon DEF SetupStep, Create, SetupEvent, SetupCheckpoint, SetupDone, Released, history
<1>4. CASE OpenStep
  BY <1>4, Zenon DEF OpenStep, Open, KeepTail, CutTail, Report, OpenFails, Released, history
<1>5. CASE EngineStep
  <2>1. CASE SyncLogs
    BY <2>1, Zenon DEF SyncLogs
  <2>2. CASE AppendEvent \/ AppendRefused \/ BeginBatch \/ AbandonBatch \/ Flush
    BY <2>2, Zenon DEF AppendEvent, AppendRefused, BeginBatch, AbandonBatch, Flush, Ready, handle,
          history
  <2>3. CASE SyncFs \/ FlushCheckpoint \/ FlushFails \/ Close
    BY <2>3, Zenon DEF SyncFs, FlushCheckpoint, FlushFails, Close, Released, history
  <2> QED BY <1>5, <2>1, <2>2, <2>3, Zenon DEF EngineStep
<1>6. CASE DurableCheckpoint
  BY <1>6, Zenon DEF DurableCheckpoint, OperatorCheckpoint, Ready, history
<1>7. CASE Environment
  BY <1>7, Zenon DEF Environment, ReadFirst, ReadSecond, Kill, PowerCut, Released, handle, history
<1>8. CASE UNCHANGED vars
  BY <1>8, Zenon DEF vars, handle, history
<1> QED BY <1>2, <1>3, <1>4, <1>5, <1>6, <1>7, <1>8, Zenon DEF SyncedNext

\* An append puts its event behind the leaves the holder knows.
LEMMA AppendedBegins ==
  ASSUME LedgerInv, Appended
  PROVE  \A s \in Seq(Nat) : Abstract!Begins(s, tree) => Abstract!Begins(s, tree')
<1>1. op.frame.id \in Nat /\ tree \in Seq(Nat) /\ tree' = Append(tree, op.frame.id)
  BY Zenon DEF Appended, LedgerInv, OpSound, EventFrame, TypeOK
<1>2. /\ Len(tree') = Len(tree) + 1 /\ Len(tree) \in Nat
      /\ \A k \in 1 .. Len(tree) : tree'[k] = tree[k]
  BY <1>1
<1> QED BY <1>2, SMTT(30), Zenon DEF Abstract!Begins

\* A sequence begins itself.
LEMMA BeginsSelf ==
  ASSUME NEW s \in Seq(Nat)
  PROVE  Abstract!Begins(s, s)
BY DEF Abstract!Begins

\* Every step keeps AckedKnown: open replays every acknowledged event.
LEMMA AckedKnownInv ==
  ASSUME LedgerInv, LedgerInv', AckedKnown, [SyncedNext]_vars
  PROVE  AckedKnown'
<1>1. /\ acked \in Seq(Nat) /\ tree' \in Seq(Nat) /\ file["events"] \in Seq(EventFrame)
      /\ IsPrefixOf(acked, file["events"])
  BY Zenon DEF LedgerInv, TypeOK, ClaimsHold
<1>2. CASE UNCHANGED <<acked, anchored>> /\ (Open \/ Create)
  <2>1. tree' = Leaves(file["events"])
    <3>1. CASE Create
      <4>1. file["events"] = <<>> /\ tree' = <<>>
        BY <3>1, Zenon DEF Create, LedgerInv, SetupSound
      <4> QED BY <4>1, SMT DEF Leaves, NumFrames, IsTorn
    <3> QED BY <1>2, <3>1, Zenon DEF Open
  <2>2. /\ Len(tree') = NumFrames(file["events"]) /\ NumFrames(file["events"]) \in Nat
        /\ \A k \in 1 .. NumFrames(file["events"]) : tree'[k] = file["events"][k].id
    BY <1>1, <2>1, LeavesFacts, NumFramesType, Zenon
  <2>3. Len(acked) <= NumFrames(file["events"]) /\ Len(acked) \in Nat
    BY <1>1 DEF IsPrefixOf
  <2>4. \A k \in 1 .. Len(acked) : k \in 1 .. NumFrames(file["events"])
    BY <2>2, <2>3
  <2>5. Abstract!Begins(acked, tree')
    BY <1>1, <2>2, <2>3, <2>4, Zenon DEF IsPrefixOf, Abstract!Begins
  <2>6. acked' = acked
    BY <1>2, Zenon
  <2> QED BY <2>5, <2>6, Zenon DEF AckedKnown
<1>3. CASE acked' = tree'
  BY <1>1, <1>3, BeginsSelf, Zenon DEF AckedKnown
<1>4. CASE acked' = acked /\ held /\ Appended
  BY <1>1, <1>4, AppendedBegins, Zenon DEF AckedKnown
<1>5. CASE acked' = acked /\ (held' => held /\ tree' = tree)
  BY <1>5, Zenon DEF AckedKnown
<1>6. SyncFrame => held
  BY Zenon DEF SyncFrame
<1> QED BY <1>2, <1>3, <1>4, <1>5, <1>6, HistorySteps, Zenon

\* The checkpoint that Engine::checkpoint returns for off-machine storage commits
\* to durable events, under a counter above all those handed out before.
LEMMA SyncAnchors ==
  ASSUME LedgerInv, LedgerInv', SyncFrame, op.log = "checkpoints", op.external
  PROVE  Abstract!Anchor
<1> DEFINE cp == op.frame
           base == Base("checkpoints")
           new == Append(base, cp)
<1>1. /\ phase = "sync" /\ anchored' = anchored \cup {cp} /\ acked' = acked
      /\ disk' = [disk EXCEPT !["checkpoints"] = {file["checkpoints"]}]
  BY Zenon DEF SyncFrame, Durable, Advance
<1>2. DurableLeaves' = DurableLeaves
  <2>1. disk'["events"] = disk["events"]
    BY <1>1, ZenonT(60) DEF LedgerInv, TypeOK
  <2> QED BY <2>1, Zenon DEF DurableLeaves
<1>3. /\ cp \in CheckpointFrame /\ cp.bytes = "all" /\ Vouched(cp)
      /\ cp.size = Len(tree) /\ cp.root = tree /\ tree \in Seq(Nat)
  BY <1>1, ZenonT(60) DEF LedgerInv, OpSound, TypeOK
<1>4. cp.root = SubSeq(DurableLeaves, 1, cp.size)
  <2>1. disk["events"] \in SUBSET Seq(EventFrame) /\ disk["events"] # {}
    BY Zenon DEF LedgerInv, TypeOK
  <2>2. \A evs \in disk["events"] : IsPrefixOf(tree, evs)
    BY <1>3, Zenon DEF Vouched, Covers, WithinLog, Commits, IsPrefixOf
  <2>3. DurableLeaves \in Seq(Nat) /\ Abstract!Begins(tree, DurableLeaves)
    BY <1>3, <2>1, <2>2, DurableFacts, Zenon DEF DurableLeaves
  <2>4. /\ Len(tree) <= Len(DurableLeaves)
        /\ \A k \in 1 .. Len(tree) : tree[k] = DurableLeaves[k]
    BY <2>3, Zenon DEF Abstract!Begins
  <2>5. /\ SubSeq(DurableLeaves, 1, Len(tree)) \in Seq(Nat)
        /\ Len(SubSeq(DurableLeaves, 1, Len(tree))) = Len(tree)
        /\ \A k \in 1 .. Len(tree) : SubSeq(DurableLeaves, 1, Len(tree))[k] = DurableLeaves[k]
    BY <1>3, <2>3, <2>4
  <2>6. tree = SubSeq(DurableLeaves, 1, Len(tree))
    <3>1. \A k \in 1 .. Len(tree) : tree[k] = SubSeq(DurableLeaves, 1, Len(tree))[k]
      BY <2>4, <2>5, Zenon
    <3> QED BY <1>3, <2>5, <3>1, SeqEqual, Zenon
  <2> QED BY <1>3, <2>6, Zenon
<1>5. \A old \in anchored : old.counter < cp.counter /\ old.size <= cp.size
  <2> SUFFICES ASSUME NEW old \in anchored
               PROVE  old.counter < cp.counter /\ old.size <= cp.size
    BY Zenon
  <2>1. base \in Seq(CheckpointFrame) /\ ~IsTorn(base) /\ base \in disk["checkpoints"]
    BY <1>1, FlightFacts, Zenon
  <2>2. Ascending(new)
    BY <1>1, CheckpointFits, Zenon
  <2>3. PICK k \in 1 .. NumFrames(base) : base[k] = old
    BY <2>1, Zenon DEF LedgerInv, AnchorsLocal
  <2> HIDE DEF base, cp
  <2>4. /\ NumFrames(base) = Len(base) /\ NumFrames(new) = Len(base) + 1
        /\ \A j \in 1 .. Len(base) : new[j] = base[j]
        /\ new[Len(base) + 1] = cp
    BY <1>3, <2>1, AppendWhole
  <2> HIDE DEF new
  <2>5. Len(base) \in Nat
    BY <2>1
  <2>6. k \in 1 .. NumFrames(new) /\ Len(base) + 1 \in 1 .. NumFrames(new) /\ k < Len(base) + 1
    BY <2>3, <2>4, <2>5
  <2>7. new[k] = old
    BY <2>3, <2>4, Zenon
  <2> QED BY <2>2, <2>4, <2>6, <2>7, Zenon DEF Ascending
<1>6. cp \notin anchored
  <2>1. cp.counter \in Nat
    BY <1>3, Zenon DEF CheckpointFrame
  <2>2. ~(cp.counter < cp.counter)
    BY <2>1
  <2> QED BY <1>5, <2>2, Zenon
<1>7. cp \in anchored' \ anchored
  BY <1>1, <1>6, Zenon
<1> HIDE DEF cp
<1> QED BY <1>1, <1>2, <1>4, <1>5, <1>7, Zenon DEF Abstract!Anchor

\* The empty state directory is the empty log.
LEMMA RefinesInit == Init => Abstract!Init
<1> SUFFICES ASSUME Init PROVE DurableLeaves = <<>>
  BY Zenon DEF Init, Abstract!Init
<1>1. disk["events"] = {<<>>} /\ <<>> \in Seq(EventFrame)
  BY DEF Init
<1>2. DurableLeaves \in Seq(Nat) /\ IsPrefixOf(DurableLeaves, <<>>)
  BY <1>1, DurableFacts, Zenon DEF DurableLeaves
<1>3. NumFrames(<<>>) = 0
  BY DEF NumFrames, IsTorn
<1>4. Len(DurableLeaves) <= 0
  BY <1>2, <1>3, Zenon DEF IsPrefixOf
<1> HIDE DEF DurableLeaves
<1> QED BY <1>2, <1>4

\* Every step of the ledger, its reader and its crashes is a step of the
\* append-only log or changes nothing of it.
LEMMA RefinesNext ==
  ASSUME LedgerInv, LedgerInv', AckedKnown, [SyncedNext]_vars
  PROVE  [Abstract!Next]_<<DurableLeaves, acked, anchored>>
<1>1. /\ DurableLeaves \in Seq(Nat) /\ DurableLeaves' \in Seq(Nat)
      /\ Abstract!Begins(DurableLeaves, DurableLeaves')
  BY EventsGrow, DurableGrows, Zenon
<1>2. CASE UNCHANGED <<acked, anchored>>
  BY <1>1, <1>2, Zenon DEF Abstract!Next, Abstract!Extend
<1>3. CASE anchored' = anchored /\ acked' = tree' /\ held /\ (tree' = tree \/ Appended)
  <2>1. Abstract!Begins(acked, acked')
    <3>1. acked \in Seq(Nat) /\ Abstract!Begins(acked, tree)
      BY <1>3, Zenon DEF LedgerInv, TypeOK, AckedKnown
    <3> QED BY <1>3, <3>1, AppendedBegins, Zenon
  <2>2. Abstract!Begins(acked', DurableLeaves')
    <3>1. /\ disk'["events"] \in SUBSET Seq(EventFrame) /\ disk'["events"] # {}
          /\ acked' \in Seq(Nat) /\ \A evs \in disk'["events"] : IsPrefixOf(acked', evs)
      BY Zenon DEF LedgerInv, TypeOK, ClaimsHold
    <3>2. DurableLeaves' = LongestCommon(disk'["events"])
      BY Zenon DEF DurableLeaves
    <3> QED BY <3>1, <3>2, DurableFacts, Zenon
  <2> QED BY <1>1, <1>2, <1>3, <2>1, <2>2, Zenon DEF Abstract!Next, Abstract!Acknowledge
<1>4. CASE SyncFrame /\ op.log = "checkpoints" /\ op.external
  BY <1>4, SyncAnchors, Zenon DEF Abstract!Next
<1> QED BY <1>2, <1>3, <1>4, HistorySteps, Zenon

\* The ledger with its files, torn writes, rollbacks, repairs, kills and power
\* cuts is an append-only log: what append and flush acknowledged and what
\* checkpoint handed out are prefixes of entries that no step takes back.
THEOREM RefinesEvidenceLog == SyncedSpec => ImplementsEvidenceLog
<1>1. Init => AckedKnown
  BY Zenon DEF Init, AckedKnown
<1>2. LedgerInv /\ LedgerInv' /\ AckedKnown /\ [SyncedNext]_vars => AckedKnown'
  BY AckedKnownInv, Zenon
<1>3. LedgerInv /\ LedgerInv' /\ AckedKnown /\ [SyncedNext]_vars
        => [Abstract!Next]_<<DurableLeaves, acked, anchored>>
  BY RefinesNext, Zenon
<1> QED
  BY <1>1, <1>2, <1>3, RefinesInit, Invariance, PTL DEF SyncedSpec, ImplementsEvidenceLog, Abstract!Spec
=============================================================================
