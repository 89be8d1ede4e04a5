------------------------------- MODULE Ledger -------------------------------
(***************************************************************************)
(* The evidence ledger of crates/jlr-ledger/src/store.rs, with the two     *)
(* client disciplines the engine puts on top of it (batches and flush).    *)
(*                                                                         *)
(* events.log and checkpoints.log are sequences of frames.  Each log has   *)
(* the content every process sees through the page cache (file) and the    *)
(* set of contents a power cut may leave behind (disk): every change adds  *)
(* the contents it passes through, and only a successful sync shrinks the  *)
(* set to the current content.  A frame cut short is kept in the sequence  *)
(* with bytes = "some".  An envelope digest is the identity of the attempt *)
(* that produced the frame, and a Merkle root is the sequence of the       *)
(* identities below it: hashes and signatures are ideal.                   *)
(***************************************************************************)
EXTENDS Integers, Sequences, FiniteSets

CONSTANTS
  CheckpointEvery,   \* CHECKPOINT_EVERY: events that make flush write a checkpoint
  SetupEvents,       \* events setup::init appends after GENESIS (three in the code)
  MaxEvents,         \* bound: frames ever offered to events.log
  MaxCheckpoints,    \* bound: frames ever offered to checkpoints.log
  MaxFaults          \* bound: I/O errors, kills and power cuts

ASSUME LedgerAssumption ==
  /\ CheckpointEvery \in Nat \ {0}
  /\ SetupEvents \in Nat
  /\ MaxEvents \in Nat
  /\ MaxCheckpoints \in Nat
  /\ MaxFaults \in Nat

VARIABLES
  file,        \* [Logs -> content seen through the page cache]
  disk,        \* [Logs -> set of contents a power cut may leave]
  setup,       \* how far setup::init got: none, begun (keys saved), done (node.cbor)
  kept,        \* frames whose torn bytes are in a <name>.torn.N file
  held,        \* a process holds the lock and a Ledger value
  tree,        \* Ledger.tree (next_seq is its length, last_env its last leaf)
  counter,     \* Ledger.counter
  cpSize,      \* Ledger.last_checkpoint_size
  sync,        \* Ledger.sync
  poisoned,    \* Ledger.poisoned
  doing,       \* the step the running handler of the holder has reached
  owed,        \* logs whose repair Engine::open has still to record
  phase,       \* the step append_frame has reached
  op,          \* the append that phase is about
  reader,      \* a lock-free verify_dir or read_events
  acked,       \* history: leaves whose durability was promised to a caller
  anchored,    \* history: checkpoints handed out for off-machine storage
  offered,     \* [Logs -> number of frames ever offered], names the frames
  faults       \* faults so far

handle == <<held, tree, counter, cpSize, sync, poisoned, doing, owed, phase, op>>
history == <<acked, anchored>>
vars == <<file, disk, setup, kept, handle, reader, history, offered, faults>>

Logs == {"events", "checkpoints"}

EventFrame ==
  [id : Nat, seq : Nat, prev : Nat, bytes : {"all", "some"},
   kind : {"genesis", "event", "degraded"}]
CheckpointFrame ==
  [counter : Nat, size : Nat, root : Seq(Nat), bytes : {"all", "some"}]

-----------------------------------------------------------------------------
(***************************************************************************)
(* Replaying a directory.                                                  *)
(***************************************************************************)

\* split_frames: a short last frame is a torn tail, and a short frame with
\* bytes behind it fails a header or signature check.
IsTorn(log) == log # <<>> /\ log[Len(log)].bytes = "some"
NumFrames(log) == IF IsTorn(log) THEN Len(log) - 1 ELSE Len(log)
WellFramed(log) == \A k \in 1 .. Len(log) - 1 : log[k].bytes = "all"

Leaves(log) == [k \in 1 .. NumFrames(log) |-> log[k].id]

\* Sequence numbers, previous-event links and the single GENESIS.
Chained(evs) ==
  \A k \in 1 .. NumFrames(evs) :
    /\ evs[k].seq = k - 1
    /\ evs[k].prev = IF k = 1 THEN 0 ELSE evs[k - 1].id
    /\ evs[k].kind = "genesis" <=> k = 1

\* Checkpoint counters rise and sizes never fall.  The code compares each
\* checkpoint with the one before it, which is the same by transitivity.
Ascending(cps) ==
  \A j, k \in 1 .. NumFrames(cps) : j < k =>
    /\ cps[j].counter < cps[k].counter
    /\ cps[j].size <= cps[k].size

\* root_at(size) exists and equals the committed root.
WithinLog(cp, evs) == cp.size <= NumFrames(evs)
Commits(cp, evs) ==
  /\ Len(cp.root) = cp.size
  /\ \A k \in 1 .. cp.size : cp.root[k] = evs[k].id

\* The result of replay on the bytes of the two files.  When several checks
\* fail the code reports the first one it meets; which one is not told apart.
Replay(cps, evs) ==
  IF ~WellFramed(evs) \/ ~WellFramed(cps) \/ ~Ascending(cps) THEN "corrupt"
  ELSE IF \E k \in 1 .. NumFrames(cps) : ~WithinLog(cps[k], evs) THEN "truncated"
  ELSE IF \E k \in 1 .. NumFrames(cps) : ~Commits(cps[k], evs) THEN "forked"
  ELSE IF ~Chained(evs) THEN "corrupt"
  ELSE IF NumFrames(evs) = 0 THEN "empty"
  ELSE "ok"

-----------------------------------------------------------------------------
(***************************************************************************)
(* File operations.                                                        *)
(***************************************************************************)

Shorten(frame) == [frame EXCEPT !.bytes = "some"]

\* A change of a log that is not yet durable.
Write(log, content, passed) ==
  /\ file' = [file EXCEPT ![log] = content]
  /\ disk' = [disk EXCEPT ![log] = @ \cup passed \cup {content}]

\* fsync of one log, and syncfs of the file system that holds both.
Durable(log) == disk' = [disk EXCEPT ![log] = {file[log]}]
AllDurable == disk' = [log \in Logs |-> {file[log]}]

Fault == faults < MaxFaults /\ faults' = faults + 1

NoOp == [log |-> "events", frame |-> <<>>, before |-> 0,
         fatal |-> FALSE, external |-> FALSE]

\* The holder is between two operations of its client.
Ready == held /\ phase = "none" /\ doing = "nothing"

\* The lock is released and the Ledger value is gone.
Released ==
  /\ held' = FALSE
  /\ tree' = <<>> /\ counter' = 0 /\ cpSize' = 0
  /\ sync' = TRUE /\ poisoned' = FALSE
  /\ doing' = "nothing" /\ owed' = {}
  /\ phase' = "none" /\ op' = NoOp

-----------------------------------------------------------------------------
(***************************************************************************)
(* append, checkpoint and append_frame.                                    *)
(***************************************************************************)

LastLeaf == IF tree = <<>> THEN 0 ELSE tree[Len(tree)]

\* Ledger::append up to the call of append_frame.  A poisoned ledger refuses
\* the write, which changes nothing.
Offer(kind, fatal) ==
  /\ ~poisoned
  /\ offered["events"] < MaxEvents
  /\ offered' = [offered EXCEPT !["events"] = @ + 1]
  /\ phase' = "write"
  /\ op' = [log |-> "events", before |-> Len(file["events"]),
            fatal |-> fatal, external |-> FALSE,
            frame |-> [id |-> offered["events"] + 1, seq |-> Len(tree),
                       prev |-> LastLeaf, kind |-> kind, bytes |-> "all"]]

\* Mutant: the counter of the checkpoint is the one already used.
OfferCheckpoint_SameCounter(external, fatal) ==
  /\ ~poisoned
  /\ offered["checkpoints"] < MaxCheckpoints
  /\ offered' = [offered EXCEPT !["checkpoints"] = @ + 1]
  /\ phase' = "write"
  /\ op' = [log |-> "checkpoints", before |-> Len(file["checkpoints"]),
            fatal |-> fatal, external |-> external,
            frame |-> [counter |-> IF counter = 0 THEN 1 ELSE counter, size |-> Len(tree),
                       root |-> tree, bytes |-> "all"]]

\* Ledger::checkpoint up to the call of append_frame.
OfferCheckpoint(external, fatal) ==
  /\ ~poisoned
  /\ offered["checkpoints"] < MaxCheckpoints
  /\ offered' = [offered EXCEPT !["checkpoints"] = @ + 1]
  /\ phase' = "write"
  /\ op' = [log |-> "checkpoints", before |-> Len(file["checkpoints"]),
            fatal |-> fatal, external |-> external,
            frame |-> [counter |-> counter + 1, size |-> Len(tree),
                       root |-> tree, bytes |-> "all"]]

\* append_frame returned Ok: the Ledger value advances.
Advance ==
  /\ phase' = "none" /\ op' = NoOp
  /\ IF op.log = "events"
       THEN /\ tree' = Append(tree, op.frame.id)
            /\ acked' = IF sync THEN tree' ELSE acked
            /\ UNCHANGED <<counter, cpSize, anchored>>
       ELSE /\ counter' = op.frame.counter
            /\ cpSize' = op.frame.size
            /\ anchored' = IF op.external THEN anchored \cup {op.frame} ELSE anchored
            /\ UNCHANGED <<tree, acked>>
  /\ UNCHANGED <<held, sync, poisoned, doing, owed>>

\* append_frame returned Err: the handler that called it returns, and an error
\* inside create or open drops the Ledger value.
Fail(poison) ==
  IF op.fatal
    THEN Released
    ELSE /\ phase' = "none" /\ op' = NoOp
         /\ doing' = "nothing"
         /\ poisoned' = poison
         /\ UNCHANGED <<held, tree, counter, cpSize, sync, owed>>

\* The whole frame reached the page cache.
WriteFrame ==
  /\ held /\ phase = "write"
  /\ Write(op.log, Append(file[op.log], op.frame),
           {Append(file[op.log], Shorten(op.frame))})
  /\ IF sync
       THEN /\ phase' = "sync"
            /\ UNCHANGED <<held, tree, counter, cpSize, sync, poisoned, doing, owed, op, history>>
       ELSE Advance
  /\ UNCHANGED <<setup, kept, reader, offered, faults>>

\* The write stopped part way (a full disk, a quota, a signal).
WriteShort ==
  /\ held /\ phase = "write"
  /\ Fault
  /\ \E content \in {file[op.log], Append(file[op.log], Shorten(op.frame))} :
       Write(op.log, content, {})
  /\ phase' = "rollback"
  /\ UNCHANGED <<setup, kept, held, tree, counter, cpSize, sync, poisoned, doing, owed, op,
                 reader, history, offered>>

\* Mutant: append returns Ok without fsync.
SyncFrame_NoSync ==
  /\ held /\ phase = "sync"
  /\ Advance
  /\ UNCHANGED <<file, disk, setup, kept, reader, offered, faults>>

SyncFrame ==
  /\ held /\ phase = "sync"
  /\ Durable(op.log)
  /\ Advance
  /\ UNCHANGED <<file, setup, kept, reader, offered, faults>>

SyncFrameFails ==
  /\ held /\ phase = "sync"
  /\ Fault
  /\ phase' = "rollback"
  /\ UNCHANGED <<file, disk, setup, kept, held, tree, counter, cpSize, sync, poisoned, doing,
                 owed, op, reader, history, offered>>

\* Mutant: a failed append leaves what it wrote.
Rollback_NoTruncate ==
  /\ held /\ phase = "rollback"
  /\ Fail(poisoned)
  /\ UNCHANGED <<file, disk, setup, kept, reader, history, offered, faults>>

\* truncate(before) after a failed write or sync.
Rollback ==
  /\ held /\ phase = "rollback"
  /\ Write(op.log, SubSeq(file[op.log], 1, op.before), {})
  /\ Fail(poisoned)
  /\ UNCHANGED <<setup, kept, reader, history, offered, faults>>

\* Mutant: a failed rollback does not poison the ledger.
RollbackFails_NotPoisoned ==
  /\ held /\ phase = "rollback"
  /\ Fault
  /\ Fail(FALSE)
  /\ UNCHANGED <<file, disk, setup, kept, reader, history, offered>>

RollbackFails ==
  /\ held /\ phase = "rollback"
  /\ Fault
  /\ Fail(TRUE)
  /\ UNCHANGED <<file, disk, setup, kept, reader, history, offered>>

-----------------------------------------------------------------------------
(***************************************************************************)
(* create, open and the repair of torn tails.                              *)
(***************************************************************************)

\* setup::init up to Ledger::create: the keys are created exclusively, so it
\* runs once, and create wants the lock and an empty events.log.
Create ==
  /\ setup = "none" /\ ~held
  /\ Len(file["events"]) = 0
  /\ setup' = "begun"
  /\ held' = TRUE
  /\ doing' = "setup"
  /\ Offer("genesis", TRUE)
  /\ UNCHANGED <<file, disk, kept, tree, counter, cpSize, sync, poisoned, owed,
                 reader, history, faults>>

SetupEvent ==
  /\ held /\ doing = "setup" /\ phase = "none"
  /\ Len(tree) <= SetupEvents
  /\ Offer("event", TRUE)
  /\ UNCHANGED <<file, disk, setup, kept, held, tree, counter, cpSize, sync, poisoned, doing,
                 owed, reader, history, faults>>

SetupCheckpoint ==
  /\ held /\ doing = "setup" /\ phase = "none"
  /\ Len(tree) > SetupEvents /\ counter = 0
  /\ OfferCheckpoint(FALSE, TRUE)
  /\ UNCHANGED <<file, disk, setup, kept, held, tree, counter, cpSize, sync, poisoned, doing,
                 owed, reader, history, faults>>

\* The ledger is dropped and node.cbor, written last and durably, makes the
\* directory one that Engine::open and the verifier accept.
SetupDone ==
  /\ held /\ doing = "setup" /\ phase = "none"
  /\ counter > 0
  /\ setup' = "done"
  /\ Released
  /\ UNCHANGED <<file, disk, kept, reader, history, offered, faults>>

LastCheckpoint(cps) ==
  IF NumFrames(cps) = 0
    THEN [counter |-> 0, size |-> 0]
    ELSE cps[NumFrames(cps)]

TornLogs == {log \in Logs : IsTorn(file[log])}

\* Ledger::open_with_events up to the repair of the tails it found torn.
Open ==
  /\ setup = "done" /\ ~held
  /\ Replay(file["checkpoints"], file["events"]) = "ok"
  /\ held' = TRUE
  /\ tree' = Leaves(file["events"])
  /\ counter' = LastCheckpoint(file["checkpoints"]).counter
  /\ cpSize' = LastCheckpoint(file["checkpoints"]).size
  /\ sync' = TRUE /\ poisoned' = FALSE
  /\ owed' = TornLogs
  /\ doing' = IF TornLogs = {} THEN "nothing" ELSE "keep"
  /\ UNCHANGED <<file, disk, setup, kept, phase, op, reader, history, offered, faults>>

\* events.log is repaired before checkpoints.log.
Repaired == IF IsTorn(file["events"]) THEN "events" ELSE "checkpoints"

\* Mutant: the torn bytes are not copied.
KeepTail_NoCopy ==
  /\ held /\ doing = "keep"
  /\ doing' = "cut"
  /\ UNCHANGED <<file, disk, setup, kept, held, tree, counter, cpSize, sync, poisoned, owed,
                 phase, op, reader, history, offered, faults>>

\* quarantine_tail: the torn bytes are copied to a synced file of their own.
KeepTail ==
  /\ held /\ doing = "keep"
  /\ kept' = kept \cup {file[Repaired][Len(file[Repaired])]}
  /\ doing' = "cut"
  /\ UNCHANGED <<file, disk, setup, held, tree, counter, cpSize, sync, poisoned, owed, phase, op,
                 reader, history, offered, faults>>

\* Mutant: the cut takes the last whole frame too.
CutTail_OneMore ==
  /\ held /\ doing = "cut"
  /\ Write(Repaired, SubSeq(file[Repaired], 1, Len(file[Repaired]) - 2), {})
  /\ doing' = IF TornLogs = {Repaired} THEN "report" ELSE "keep"
  /\ UNCHANGED <<setup, kept, held, tree, counter, cpSize, sync, poisoned, owed, phase, op,
                 reader, history, offered, faults>>

\* set_len(valid_len), which is not synced.
CutTail ==
  /\ held /\ doing = "cut"
  /\ Write(Repaired, SubSeq(file[Repaired], 1, Len(file[Repaired]) - 1), {})
  /\ doing' = IF TornLogs = {Repaired} THEN "report" ELSE "keep"
  /\ UNCHANGED <<setup, kept, held, tree, counter, cpSize, sync, poisoned, owed, phase, op,
                 reader, history, offered, faults>>

\* Engine::open records each repair, the one of checkpoints.log first.
Report ==
  /\ held /\ doing = "report" /\ phase = "none"
  /\ Offer("degraded", TRUE)
  /\ owed' = owed \ (IF "checkpoints" \in owed THEN {"checkpoints"} ELSE owed)
  /\ doing' = IF owed' = {} THEN "nothing" ELSE "report"
  /\ UNCHANGED <<file, disk, setup, kept, held, tree, counter, cpSize, sync, poisoned,
                 reader, history, faults>>

\* An I/O error during the repair, or a policy or revocation list older than
\* the recorded one, makes Engine::open return and drop the ledger.
OpenFails ==
  /\ held /\ doing \in {"keep", "cut", "report"} /\ phase = "none"
  /\ Fault
  /\ Released
  /\ UNCHANGED <<file, disk, setup, kept, reader, history, offered>>

-----------------------------------------------------------------------------
(***************************************************************************)
(* The engine's use of an open ledger.                                     *)
(***************************************************************************)

\* Engine::log: outside a batch, the objects an event cites are made durable by
\* a sync_fs before the event is appended.
AppendEvent ==
  /\ Ready
  /\ \E cites \in BOOLEAN : IF cites /\ sync THEN AllDurable ELSE UNCHANGED disk
  /\ Offer("event", FALSE)
  /\ UNCHANGED <<file, setup, kept, held, tree, counter, cpSize, sync, poisoned, doing,
                 owed, reader, history, faults>>

\* Of an append that a poisoned ledger refuses only that sync_fs remains.
AppendRefused ==
  /\ Ready /\ sync /\ poisoned
  /\ AllDurable
  /\ UNCHANGED <<file, setup, kept, handle, reader, history, offered, faults>>

\* set_sync(false) at the start of a batch.
BeginBatch ==
  /\ Ready /\ sync
  /\ sync' = FALSE
  /\ UNCHANGED <<file, disk, setup, kept, held, tree, counter, cpSize, poisoned, doing, owed,
                 phase, op, reader, history, offered, faults>>

\* set_sync(true) on a path that returns without flush (decide_exec).
AbandonBatch ==
  /\ Ready /\ ~sync
  /\ sync' = TRUE
  /\ UNCHANGED <<file, disk, setup, kept, held, tree, counter, cpSize, poisoned, doing, owed,
                 phase, op, reader, history, offered, faults>>

\* Engine::flush, after the set_sync(true) that ends a batch.
Flush ==
  /\ Ready
  /\ sync' = TRUE
  /\ doing' = "syncfs"
  /\ UNCHANGED <<file, disk, setup, kept, held, tree, counter, cpSize, poisoned, owed,
                 phase, op, reader, history, offered, faults>>

\* Mutant: flush checkpoints events that are not yet durable.
SyncFs_NoSync ==
  /\ held /\ doing = "syncfs"
  /\ doing' = IF Len(tree) - cpSize >= CheckpointEvery THEN "checkpoint" ELSE "sync"
  /\ UNCHANGED <<file, disk, setup, kept, held, tree, counter, cpSize, sync, poisoned, owed,
                 phase, op, reader, history, offered, faults>>

\* sync_fs, then the test of events_since_checkpoint.
SyncFs ==
  /\ held /\ doing = "syncfs"
  /\ AllDurable
  /\ doing' = IF Len(tree) - cpSize >= CheckpointEvery THEN "checkpoint" ELSE "sync"
  /\ UNCHANGED <<file, setup, kept, held, tree, counter, cpSize, sync, poisoned, owed, phase, op,
                 reader, history, offered, faults>>

FlushCheckpoint ==
  /\ held /\ doing = "checkpoint"
  /\ doing' = "sync"
  /\ OfferCheckpoint(FALSE, FALSE)
  /\ UNCHANGED <<file, disk, setup, kept, held, tree, counter, cpSize, sync, poisoned, owed,
                 reader, history, faults>>

\* Ledger::sync: events.log, then checkpoints.log.
SyncLogs ==
  /\ held /\ doing = "sync" /\ phase = "none"
  /\ AllDurable
  /\ acked' = tree
  /\ doing' = "nothing"
  /\ UNCHANGED <<file, setup, kept, held, tree, counter, cpSize, sync, poisoned, owed, phase, op,
                 reader, anchored, offered, faults>>

\* A sync of flush fails, or its checkpoint is refused by a poisoned ledger.
FlushFails ==
  /\ held /\ phase = "none"
  /\ \/ doing \in {"syncfs", "sync"} /\ Fault /\ UNCHANGED disk
     \/ doing = "sync" /\ Fault /\ Durable("events")
     \/ doing = "checkpoint" /\ poisoned /\ UNCHANGED <<disk, faults>>
  /\ doing' = "nothing"
  /\ UNCHANGED <<file, setup, kept, held, tree, counter, cpSize, sync, poisoned, owed, phase, op,
                 reader, history, offered>>

\* Engine::checkpoint, for off-machine storage.
OperatorCheckpoint ==
  /\ Ready /\ sync
  /\ OfferCheckpoint(TRUE, FALSE)
  /\ UNCHANGED <<file, disk, setup, kept, held, tree, counter, cpSize, sync, poisoned, doing,
                 owed, reader, history, faults>>

\* The engine is dropped between two operations.
Close ==
  /\ Ready
  /\ Released
  /\ UNCHANGED <<file, disk, setup, kept, reader, history, offered, faults>>

-----------------------------------------------------------------------------
(***************************************************************************)
(* The lock-free reader, and crashes.                                      *)
(***************************************************************************)

\* Mutant: replay reads the events first.
FirstRead_Events == "events"

\* The log replay reads first.
FirstRead == "checkpoints"

Idle(verdict) == [between |-> FALSE, seen |-> <<>>, verdict |-> verdict]

ReadFirst ==
  /\ setup = "done" /\ ~reader.between
  /\ reader' = [between |-> TRUE, seen |-> file[FirstRead], verdict |-> "none"]
  /\ UNCHANGED <<file, disk, setup, kept, handle, history, offered, faults>>

ReadSecond ==
  /\ reader.between
  /\ reader' = Idle(IF FirstRead = "checkpoints"
                      THEN Replay(reader.seen, file["events"])
                      ELSE Replay(file["checkpoints"], reader.seen))
  /\ UNCHANGED <<file, disk, setup, kept, handle, history, offered, faults>>

\* The holder is killed: what it wrote stays in the page cache.
Kill ==
  /\ held
  /\ Fault
  /\ Released
  /\ UNCHANGED <<file, disk, setup, kept, reader, history, offered>>

\* The machine stops and starts again.
PowerCut ==
  /\ Fault
  /\ \E evs \in disk["events"], cps \in disk["checkpoints"] :
       file' = [log \in Logs |-> IF log = "events" THEN evs ELSE cps]
  /\ disk' = [log \in Logs |-> {file'[log]}]
  /\ Released
  /\ reader' = Idle("none")
  /\ UNCHANGED <<setup, kept, history, offered>>

-----------------------------------------------------------------------------
Init ==
  /\ file = [log \in Logs |-> <<>>]
  /\ disk = [log \in Logs |-> {<<>>}]
  /\ setup = "none" /\ kept = {}
  /\ held = FALSE
  /\ tree = <<>> /\ counter = 0 /\ cpSize = 0
  /\ sync = TRUE /\ poisoned = FALSE
  /\ doing = "nothing" /\ owed = {}
  /\ phase = "none" /\ op = NoOp
  /\ reader = Idle("none")
  /\ acked = <<>> /\ anchored = {}
  /\ offered = [log \in Logs |-> 0]
  /\ faults = 0

AppendStep ==
  \/ WriteFrame \/ WriteShort \/ SyncFrame \/ SyncFrameFails
  \/ Rollback \/ RollbackFails

SetupStep == Create \/ SetupEvent \/ SetupCheckpoint \/ SetupDone

OpenStep == Open \/ KeepTail \/ CutTail \/ Report \/ OpenFails

EngineStep ==
  \/ AppendEvent \/ AppendRefused \/ BeginBatch \/ AbandonBatch
  \/ Flush \/ SyncFs \/ FlushCheckpoint \/ SyncLogs \/ FlushFails
  \/ Close

Environment == ReadFirst \/ ReadSecond \/ Kill \/ PowerCut

\* The code as it is: the operator may checkpoint at any time.
Next ==
  \/ AppendStep \/ SetupStep \/ OpenStep \/ EngineStep \/ OperatorCheckpoint
  \/ Environment
Spec == Init /\ [][Next]_vars

\* The discipline under which the ledger keeps its promises: a checkpoint for
\* off-machine storage is taken only while the events it covers are durable.
\* Every event appended outside a batch, and every batch that ended in a
\* successful flush, is.
DurableCheckpoint == disk["events"] = {file["events"]} /\ OperatorCheckpoint
SyncedNext ==
  \/ AppendStep \/ SetupStep \/ OpenStep \/ EngineStep \/ DurableCheckpoint
  \/ Environment
SyncedSpec == Init /\ [][SyncedNext]_vars

-----------------------------------------------------------------------------
(***************************************************************************)
(* What the ledger promises.                                               *)
(***************************************************************************)

TypeOK ==
  /\ DOMAIN file = Logs /\ DOMAIN disk = Logs
  /\ file["events"] \in Seq(EventFrame)
  /\ file["checkpoints"] \in Seq(CheckpointFrame)
  /\ file["events"] \in disk["events"]
  /\ file["checkpoints"] \in disk["checkpoints"]
  /\ disk["events"] \subseteq Seq(EventFrame)
  /\ disk["checkpoints"] \subseteq Seq(CheckpointFrame)
  /\ tree \in Seq(Nat) /\ counter \in Nat /\ cpSize \in Nat
  /\ held \in BOOLEAN /\ sync \in BOOLEAN /\ poisoned \in BOOLEAN
  /\ doing \in {"nothing", "setup", "keep", "cut", "report", "syncfs", "checkpoint", "sync"}
  /\ phase \in {"none", "write", "sync", "rollback"}
  /\ setup \in {"none", "begun", "done"}
  /\ owed \subseteq Logs
  /\ acked \in Seq(Nat) /\ anchored \subseteq CheckpointFrame
  /\ offered \in [Logs -> Nat] /\ faults \in Nat

\* Whatever two contents a power cut leaves of the two logs, the ledger opens:
\* replay finds no corruption, no truncation and no fork, only a torn tail it
\* can repair.
Reopens ==
  \A evs \in disk["events"], cps \in disk["checkpoints"] :
    Replay(cps, evs) \in {"ok", "empty"}

IsPrefixOf(leaves, evs) ==
  /\ Len(leaves) <= NumFrames(evs)
  /\ \A k \in 1 .. Len(leaves) : leaves[k] = evs[k].id

\* An event whose append (or whose batch's flush) returned Ok is in every
\* content a power cut may leave, at its place.
AckedSurvive == \A evs \in disk["events"] : IsPrefixOf(acked, evs)

\* A checkpoint handed out for off-machine storage verifies against the ledger
\* for ever, and no counter value is ever handed out twice.
AnchorsHold ==
  /\ \A cp \in anchored, evs \in disk["events"] : WithinLog(cp, evs) /\ Commits(cp, evs)
  /\ \A a, b \in anchored : a.counter = b.counter => a = b

\* A lock-free verification never raises an alarm about an honest ledger,
\* whatever the writer does between its two reads.
NoFalseAlarm == reader.verdict \in {"none", "ok", "empty"}

\* Between operations the Ledger value of an unpoisoned holder is exactly what
\* a replay of the files would give, after any number of failed appends.
HandleMatchesFiles ==
  Ready /\ ~poisoned =>
    /\ TornLogs = {}
    /\ tree = Leaves(file["events"])
    /\ counter = LastCheckpoint(file["checkpoints"]).counter
    /\ cpSize = LastCheckpoint(file["checkpoints"]).size

\* A torn tail leaves a log of a running holder only after its bytes are in a
\* quarantine file (an append's own rollback apart): repairing a torn write
\* never destroys evidence.
TornBytesKept ==
  [][\A log \in Logs :
       IsTorn(file[log]) /\ ~IsTorn(file'[log]) /\ held /\ held' /\ phase = "none"
         => file[log][Len(file[log])] \in kept']_vars

\* Every checkpoint that may be on disk is covered by the events that may be on
\* disk beside it.
CheckpointsCovered ==
  \A evs \in disk["events"], cps \in disk["checkpoints"] :
    \A k \in 1 .. NumFrames(cps) : WithinLog(cps[k], evs)

\* A holder that is at work has recorded the repairs of every log whose bytes
\* were quarantined.
RepairsRecorded ==
  Ready /\ kept # {} =>
    \E k \in 1 .. NumFrames(file["events"]) : file["events"][k].kind = "degraded"

\* A directory that reports itself as not initialised accepts `jlr init`.
InitAccepted == ~held /\ setup # "done" => setup = "none" /\ file["events"] = <<>>
=============================================================================
