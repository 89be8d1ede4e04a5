-------------------------- MODULE LedgerInvariant --------------------------
(***************************************************************************)
(* The inductive invariant behind the promises of Ledger.  It relates the  *)
(* in-memory Ledger value of the holder to the files at every step of an   *)
(* append, and every claim the system has made about the past to every     *)
(* content a power cut may leave.                                          *)
(***************************************************************************)
EXTENDS Ledger

\* The content of a log before the append in flight touched it.
Base(log) ==
  IF phase \in {"sync", "rollback"} /\ op.log = log
    THEN SubSeq(file[log], 1, op.before)
    ELSE file[log]

Holds(log) == file[log] \in disk[log] /\ Base(log) \in disk[log]

\* Every content the disk may hold is framed and linked.
DiskSound ==
  /\ \A evs \in disk["events"] : WellFramed(evs) /\ Chained(evs)
  /\ \A cps \in disk["checkpoints"] : WellFramed(cps) /\ Ascending(cps)

Covers(cp, evs) == WithinLog(cp, evs) /\ Commits(cp, evs)

\* A checkpoint the directory's past vouches for, whatever the disk holds.
Vouched(cp) == \A evs \in disk["events"] : Covers(cp, evs)

\* Everything ever claimed about the past is true of every possible content.
ClaimsHold ==
  /\ \A cps \in disk["checkpoints"] : \A k \in 1 .. NumFrames(cps) : Vouched(cps[k])
  /\ reader.between => \A k \in 1 .. NumFrames(reader.seen) : Vouched(reader.seen[k])
  /\ \A cp \in anchored : Vouched(cp)
  /\ \A evs \in disk["events"] : IsPrefixOf(acked, evs)

\* A checkpoint handed out is also in every possible checkpoints.log.
AnchorsLocal ==
  \A cp \in anchored, cps \in disk["checkpoints"] :
    \E k \in 1 .. NumFrames(cps) : cps[k] = cp

ReaderSound ==
  /\ reader.between =>
       /\ reader.seen \in Seq(CheckpointFrame)
       /\ WellFramed(reader.seen) /\ Ascending(reader.seen)
  /\ reader.verdict \in {"none", "ok", "empty"}

\* The Ledger value equals the files up to the append in flight, and the events
\* it knows are in events.log even when it is poisoned.
HandleSound ==
  held =>
    /\ IsPrefixOf(tree, file["events"])
    /\ ~poisoned =>
         /\ Len(tree) = NumFrames(Base("events"))
         /\ counter = LastCheckpoint(Base("checkpoints")).counter
         /\ cpSize = LastCheckpoint(Base("checkpoints")).size
    /\ ~poisoned /\ doing \notin {"keep", "cut"} =>
         ~IsTorn(Base("events")) /\ ~IsTorn(Base("checkpoints"))
    /\ doing \in {"keep", "cut"} => phase = "none" /\ ~poisoned /\ TornLogs # {}
    /\ doing \in {"syncfs", "checkpoint"} => phase = "none" /\ sync
    /\ doing = "checkpoint" => disk["events"] = {file["events"]}

\* The append in flight offers the frame the Ledger value calls for.
OpSound ==
  phase # "none" =>
    /\ held /\ ~poisoned
    /\ op.log = "events" =>
         /\ op.frame \in EventFrame /\ op.frame.bytes = "all"
         /\ op.frame.seq = Len(tree) /\ op.frame.prev = LastLeaf
         /\ (op.frame.kind = "genesis") <=> (tree = <<>>)
    /\ op.log = "checkpoints" =>
         /\ op.frame \in CheckpointFrame /\ op.frame.bytes = "all"
         /\ op.frame.counter = counter + 1
         /\ op.frame.size = Len(tree) /\ op.frame.root = tree
         /\ Vouched(op.frame) /\ sync
    /\ op.log \in Logs /\ op.before = Len(Base(op.log))
    /\ phase = "sync" => file[op.log] = Append(Base(op.log), op.frame)
    /\ phase = "rollback" =>
         file[op.log] \in {Base(op.log), Append(Base(op.log), op.frame),
                           Append(Base(op.log), Shorten(op.frame))}

\* Before setup there is nothing, a directory without a holder has no Ledger
\* value, what setup appended is durable before its next step, and a holder
\* with no events is one that is creating the ledger.
SetupSound ==
  /\ setup = "none" =>
       /\ ~held /\ file["events"] = <<>> /\ file["checkpoints"] = <<>>
       /\ disk["events"] = {<<>>} /\ disk["checkpoints"] = {<<>>}
  /\ ~held =>
       /\ tree = <<>> /\ counter = 0 /\ cpSize = 0 /\ sync /\ ~poisoned
       /\ phase = "none" /\ doing = "nothing"
  /\ doing = "setup" =>
       /\ sync /\ (phase # "none" => op.fatal) /\ ~poisoned
       /\ phase = "none" \/ op.log = "checkpoints" => disk["events"] = {file["events"]}
  /\ held /\ tree = <<>> => phase # "none" /\ op.log = "events" /\ op.fatal
  /\ reader.between => setup = "done"

\* The strengthening of the promises that every step preserves: the Ledger value
\* is at every step of an append what the files before it say, and every
\* checkpoint, acknowledgement and half-read file is true of every content the
\* disk may hold.
LedgerInv ==
  /\ TypeOK
  /\ Holds("events") /\ Holds("checkpoints")
  /\ DiskSound
  /\ ClaimsHold
  /\ AnchorsLocal
  /\ ReaderSound
  /\ HandleSound
  /\ OpSound
  /\ SetupSound
=============================================================================
