------------------------------- MODULE Measure ------------------------------
(***************************************************************************)
(* crates/jlr-measure, crates/jlr-cell/src/sealed.rs and the run of a      *)
(* program in crates/jlr-engine/src/engine.rs: a file is hashed through    *)
(* one descriptor between two looks at its metadata, evidence is gathered, *)
(* a decision is made and recorded, the bytes are copied into a sealed     *)
(* memory file while they are hashed again, and that copy is executed.     *)
(*                                                                         *)
(* Content is a sequence of blocks, read one at a time while the file's    *)
(* owner writes, truncates, restores the modification time, or puts        *)
(* another file at the path.  A digest is the sequence it was made of.     *)
(***************************************************************************)
EXTENDS Naturals, Sequences

CONSTANTS
  Blocks,     \* what a block may hold
  MaxSize,    \* largest file measured, in blocks
  RetryUpTo,  \* largest file measured twice
  Manifest,   \* what the package manager installed at the path
  MaxWrites, MaxSwaps

VARIABLES
  file,     \* content of the file the descriptor is open on
  stamp,    \* its [mtime, ctime]; only mtime can be set
  past,     \* ghost: its content at each ctime
  path,     \* what the path leads to: "this" file or an "other"
  swaps,
  run,      \* [at, attempts, stamp, read, md5, evidence, mem]
  log       \* what the ledger holds about the run

measureVars == <<file, stamp, past, path, swaps, run, log>>
owner == <<file, stamp, past, path, swaps>>

\* This file is setuid and listed by the package manager with a checksum; the other is neither.
Setuid(p) == p = "this"
Listed(p) == p = "this"

Goto(at) == run' = [run EXCEPT !.at = at]
Fails == Goto("error")

-----------------------------------------------------------------------------
\* measure_file_stable_with and measure_inner

\* wants_md5 and the number of attempts.  What the path leads to is looked up on its own:
\* before the open (observe), or when the descriptor is already held (observe_open).
Open ==
  /\ run.at = "open"
  /\ run' = [run EXCEPT !.at = "stat", !.md5 = Listed(path), !.attempts = IF Len(file) <= RetryUpTo THEN 2 ELSE 1]
  /\ UNCHANGED <<log, owner>>

Stat ==
  /\ run.at = "stat"
  /\ IF Len(file) > MaxSize THEN Fails
     ELSE run' = [run EXCEPT !.at = "read", !.stamp = stamp, !.read = <<>>]
  /\ UNCHANGED <<log, owner>>

\* One block into acc, from the offset reached; too large ends it, and the end of the file leads on.
ReadInto(at, acc, next, then) ==
  /\ run.at = at
  /\ IF Len(acc) >= Len(file) THEN then
     ELSE IF Len(acc) + 1 > MaxSize THEN Fails
     ELSE run' = next
  /\ UNCHANGED <<log, owner>>

Read == ReadInto("read", run.read, [run EXCEPT !.read = Append(@, file[Len(@) + 1])], Goto("check"))

\* A bug: only the modification time and the size are compared.
SameMtime == stamp.mtime = run.stamp.mtime /\ Len(file) = Len(run.read)

unchanged == stamp = run.stamp /\ Len(file) = Len(run.read)

Check ==
  /\ run.at = "check"
  /\ IF unchanged THEN Goto("measured")
     ELSE IF run.attempts > 1 THEN run' = [run EXCEPT !.at = "stat", !.attempts = @ - 1]
     ELSE Fails
  /\ UNCHANGED <<log, owner>>

-----------------------------------------------------------------------------
\* observe_measured

\* A bug: the file is read again for the package checksum.
SecondRead == file = Manifest

\* MD5 comes from the same pass as the digest.
manifest_match == run.read = Manifest

\* The package database and the facts about the path are looked up by path, now.
observe_measured ==
  /\ run.at = "measured"
  /\ IF Listed(path) /\ ~run.md5 THEN Fails
     ELSE run' = [run EXCEPT !.at = "observed", !.evidence =
            (IF ~Listed(path) THEN {} ELSE IF manifest_match THEN {"PackageManifestMatch"} ELSE {"ContentDigestMismatch"})
              \cup {e \in {"SetuidBit"} : Setuid(path)}]
  /\ UNCHANGED <<log, owner>>

-----------------------------------------------------------------------------
\* prepare_run, SealedExe::seal, launch, record_run

\* Processed, flushed and indexed; a state that does not permit execution is recorded and ends the run.
DecideRun ==
  /\ run.at = "observed"
  /\ \/ run' = [run EXCEPT !.at = "seal", !.mem = <<>>] /\ UNCHANGED log
     \/ Fails /\ log' = Append(log, "denied")
  /\ UNCHANGED owner

\* A bug: the copy is taken for what was measured.
AnyCopy == TRUE

digest_matches == run.mem = run.read

Seal ==
  ReadInto("seal", run.mem, [run EXCEPT !.mem = Append(@, file[Len(@) + 1])],
           IF digest_matches THEN Goto("sealed") ELSE Fails)

\* A bug: a run is only recorded when it has ended.
StartUnrecorded == run.at = "sealed" /\ Goto("prepared") /\ UNCHANGED <<log, owner>>

RecordStart ==
  /\ run.at = "sealed"
  /\ log' = Append(log, "starting")
  /\ Goto("prepared")
  /\ UNCHANGED owner

\* The ledger is released and the cell started; the cell may be refused.
execute_prepared ==
  /\ run.at = "prepared"
  /\ Goto("running") \/ Goto("refused")
  /\ UNCHANGED <<log, owner>>

\* The end is recorded if the ledger can be had again; the result is returned in any case.
RecordRun ==
  /\ run.at \in {"running", "refused"}
  /\ Goto("ended")
  /\ log' \in {log, log \o (IF run.at = "running" THEN <<"started", "exited">> ELSE <<"could not start">>)}
  /\ UNCHANGED owner

-----------------------------------------------------------------------------
\* The owner of the file.

\* A write or truncation; afterwards the modification time may be anything seen before.
Write ==
  /\ stamp.ctime < MaxWrites
  /\ \E c \in UNION {[1 .. n -> Blocks] : n \in 1 .. MaxSize + 1}, t \in 0 .. stamp.ctime + 1 :
       /\ file' = c /\ c # file
       /\ stamp' = [mtime |-> t, ctime |-> stamp.ctime + 1]
       /\ past' = Append(past, c)
  /\ UNCHANGED <<path, swaps, run, log>>

Swap ==
  /\ swaps < MaxSwaps /\ swaps' = swaps + 1
  /\ path' = (IF path = "this" THEN "other" ELSE "this")
  /\ UNCHANGED <<file, stamp, past, run, log>>

MeasureInit ==
  /\ file \in UNION {[1 .. n -> Blocks] : n \in 1 .. MaxSize + 1}
  /\ stamp = [mtime |-> 0, ctime |-> 0] /\ past = <<file>> /\ path \in {"this", "other"} /\ swaps = 0
  /\ run = [at |-> "open", attempts |-> 0, stamp |-> stamp, read |-> <<>>, md5 |-> FALSE, evidence |-> {}, mem |-> <<>>]
  /\ log = <<>>

MeasureNext ==
  \/ Open \/ Stat \/ Read \/ Check \/ observe_measured \/ DecideRun \/ Seal \/ RecordStart \/ execute_prepared \/ RecordRun
  \/ Write \/ Swap

MeasureSpec == MeasureInit /\ [][MeasureNext]_measureVars

-----------------------------------------------------------------------------
Measured == run.at \in {"measured", "observed", "seal", "sealed", "prepared", "running", "refused", "ended"}

\* What is reported as the digest of a file is the digest of what the file held at
\* one moment, the one its stamp belongs to: never of a mixture read while it
\* changed, whatever its owner does to the modification time (measure_inner).  And
\* package evidence is about the bytes of the digest (observe.rs, wants_md5).
DigestIsSnapshot ==
  /\ Measured => run.read = past[run.stamp.ctime + 1]
  /\ "PackageManifestMatch" \in run.evidence => run.read = Manifest
  /\ "ContentDigestMismatch" \in run.evidence => run.read # Manifest

\* SECURITY_INVARIANTS I-19: the bytes that execute are the bytes that were
\* measured and decided on, although the file is read twice; and the ledger said
\* before that they start, so that a run whose end cannot be recorded, or that the
\* machine does not survive, still left a record.
MeasuredIsExecuted ==
  run.at = "running" =>
    /\ run.mem = run.read /\ run.mem = past[run.stamp.ctime + 1]
    /\ log # <<>> /\ Head(log) = "starting"
=============================================================================
