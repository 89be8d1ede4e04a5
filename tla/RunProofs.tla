------------------------------ MODULE RunProofs -----------------------------
(***************************************************************************)
(* Proofs about the run of a program, from the bytes a decision rests on   *)
(* to the cell they execute in.                                            *)
(*                                                                         *)
(* A digest is that of one moment of the file and what executes is what    *)
(* was measured (Measure), and the index of the package database is no     *)
(* older than its load (DpkgCache), for every size of file and number of   *)
(* blocks, writes, swaps, files and loads.  A program only runs confined   *)
(* and the report claims no more than is in force (Cell), for every        *)
(* decision, whichever control fails and however the launcher and the two  *)
(* stages of the helper interleave.                                        *)
(***************************************************************************)
EXTENDS Measure, DpkgCache, Cell, SequenceTheorems, TLAPS

-----------------------------------------------------------------------------
(***************************************************************************)
(* The measurement and the run of a file.                                  *)
(***************************************************************************)

Places == {"open", "stat", "read", "check", "error"} \cup
          {"measured", "observed", "seal", "sealed", "prepared", "running", "refused", "ended"}

Stamps == [mtime : Nat, ctime : Nat]

Runs == [at : Places, attempts : Nat, stamp : Stamps, read : Seq(Blocks), md5 : BOOLEAN,
         evidence : SUBSET {"PackageManifestMatch", "ContentDigestMismatch", "SetuidBit"}, mem : Seq(Blocks)]

Entries == {"denied", "starting", "started", "exited", "could not start"}

FileTypeOK ==
  /\ file \in Seq(Blocks) /\ past \in Seq(Seq(Blocks)) /\ stamp \in Stamps
  /\ run \in Runs /\ log \in Seq(Entries)

\* The ctime counts the contents the file has had, and the last of them is the present one.
PastKept == Len(past) = stamp.ctime + 1 /\ past[stamp.ctime + 1] = file /\ run.stamp.ctime <= stamp.ctime

\* As long as the ctime has not moved, what has been read is the beginning of the file.
ReadSoFar ==
  run.at \in {"read", "check"} /\ run.stamp.ctime = stamp.ctime =>
    /\ Len(run.read) <= Len(file)
    /\ \A i \in 1 .. Len(run.read) : run.read[i] = file[i]

\* Evidence is gathered once the digest is settled, and is about it.
EvidenceAfterDigest ==
  /\ run.at \in {"open", "stat", "read", "check", "measured"} => run.evidence = {}
  /\ "PackageManifestMatch" \in run.evidence => run.read = Manifest
  /\ "ContentDigestMismatch" \in run.evidence => run.read # Manifest

\* A sealed copy is what was measured, and nothing is prepared before the ledger says so.
SealedSound ==
  /\ run.at \in {"sealed", "prepared", "running"} => run.mem = run.read
  /\ run.at \in Places \ {"prepared", "running", "refused", "ended", "error"} => log = <<>>
  /\ run.at \in {"prepared", "running"} => log # <<>> /\ Head(log) = "starting"

FileInv ==
  /\ FileTypeOK /\ PastKept /\ ReadSoFar /\ EvidenceAfterDigest /\ SealedSound
  /\ Measured => run.read = past[run.stamp.ctime + 1]

\* The contents a file may have are sequences of blocks.
LEMMA ContentsAreSequences ==
  ASSUME MaxSize \in Nat, NEW c \in UNION {[1 .. n -> Blocks] : n \in 1 .. MaxSize + 1}
  PROVE  c \in Seq(Blocks)
<1>1. PICK n \in 1 .. MaxSize + 1 : c \in [1 .. n -> Blocks]
  OBVIOUS
<1>2. n \in Nat
  OBVIOUS
<1> QED
  BY <1>1, <1>2

\* The sequences a measurement starts with and grows.
LEMMA Rest == <<>> \in Seq(Blocks) /\ \A s \in Seq(Blocks), blk \in Blocks : Append(s, blk) \in Seq(Blocks)
OBVIOUS

\* The invariant holds when a file is about to be opened.
LEMMA FileInit ==
  ASSUME MaxSize \in Nat, MeasureInit
  PROVE  FileInv
<1>1. file \in Seq(Blocks)
  BY ContentsAreSequences DEF MeasureInit
<1>2. FileTypeOK
  <2>1. past \in Seq(Seq(Blocks)) /\ stamp \in Stamps /\ log \in Seq(Entries)
    BY <1>1 DEF MeasureInit, Stamps
  <2>2. run \in Runs
    BY <2>1, Rest DEF MeasureInit, Runs, Places
  <2> QED
    BY <1>1, <2>1, <2>2 DEF FileTypeOK
<1>3. PastKept
  BY <1>1 DEF MeasureInit, PastKept
<1> QED
  BY <1>1, <1>2, <1>3 DEF MeasureInit, FileInv, ReadSoFar, EvidenceAfterDigest, SealedSound, Measured, Places

\* What a step that only moves the run to another place does to its record.
LEMMA Moved ==
  ASSUME NEW at \in Places, run \in Runs, run' = [run EXCEPT !.at = at]
  PROVE  /\ run' \in Runs /\ run'.at = at /\ run'.stamp = run.stamp /\ run'.read = run.read
         /\ run'.evidence = run.evidence /\ run'.mem = run.mem
<1>1. run' \in Runs
  BY DEF Runs
<1> QED
  BY DEF Runs

\* A run that ends in an error, from anywhere, keeps the invariant.
LEMMA FailsInv ==
  ASSUME FileInv, Fails, UNCHANGED owner, log' \in Seq(Entries)
  PROVE  FileInv'
<1>1. /\ run' \in Runs /\ run'.at = "error" /\ run'.stamp = run.stamp /\ run'.read = run.read
      /\ run'.evidence = run.evidence /\ run'.mem = run.mem
  BY Moved DEF Fails, Goto, FileInv, FileTypeOK, Places
<1>2. file' = file /\ stamp' = stamp /\ past' = past
  BY DEF owner
<1> QED
  BY <1>1, <1>2 DEF FileInv, FileTypeOK, PastKept, ReadSoFar, EvidenceAfterDigest, SealedSound, Measured, Places

\* No step of a measurement, of a run or of the file's owner breaks it.
LEMMA FileStep ==
  ASSUME MaxSize \in Nat, FileInv, [MeasureNext]_measureVars
  PROVE  FileInv'
<1> USE DEF FileInv
<1>1. CASE Open
  <2>1. /\ run' \in Runs /\ run'.at = "stat" /\ run'.stamp = run.stamp /\ run'.read = run.read
        /\ run'.evidence = run.evidence /\ run'.mem = run.mem /\ run.at = "open"
        /\ UNCHANGED <<file, stamp, past, log>>
    BY <1>1, Zenon DEF Open, FileTypeOK, Runs, Places, owner, Listed
  <2> QED
    BY <2>1 DEF FileTypeOK, PastKept, ReadSoFar, EvidenceAfterDigest, SealedSound, Measured, Places
<1>2. CASE Stat /\ ~Fails
  <2>1. /\ run' \in Runs /\ run'.at = "read" /\ run'.stamp = stamp /\ run'.read = <<>>
        /\ run'.evidence = run.evidence /\ run'.mem = run.mem /\ run.at = "stat"
        /\ UNCHANGED <<file, stamp, past, log>>
    BY <1>2, Rest, ZenonT(60) DEF Stat, FileTypeOK, Runs, Places, owner
  <2> QED
    BY <2>1 DEF FileTypeOK, PastKept, ReadSoFar, EvidenceAfterDigest, SealedSound, Measured, Places, Stamps
<1>3. CASE Read /\ ~Fails /\ Len(run.read) < Len(file)
  <2>1. run.read \in Seq(Blocks) /\ file \in Seq(Blocks) /\ file[Len(run.read) + 1] \in Blocks
    BY <1>3 DEF FileTypeOK, Runs
  <2>2. /\ run.at = "read" /\ UNCHANGED <<file, stamp, past, log>>
        /\ run' = [run EXCEPT !.read = Append(run.read, file[Len(run.read) + 1])]
    BY <1>3, <2>1 DEF Read, ReadInto, owner
  <2> DEFINE more == Append(run.read, file[Len(run.read) + 1])
  <2>3. /\ more \in Seq(Blocks) /\ Len(more) = Len(run.read) + 1
        /\ \A i \in 1 .. Len(run.read) : more[i] = run.read[i]
        /\ more[Len(run.read) + 1] = file[Len(run.read) + 1]
    BY <2>1
  <2> HIDE DEF more
  <2>4. /\ run' \in Runs /\ run'.at = "read" /\ run'.stamp = run.stamp /\ run'.read = more
        /\ run'.evidence = run.evidence /\ run'.mem = run.mem
    BY <2>2, <2>3, Zenon DEF FileTypeOK, Runs, more
  <2>5. ReadSoFar'
    BY <1>3, <2>1, <2>2, <2>3, <2>4 DEF ReadSoFar
  <2> QED
    BY <2>2, <2>4, <2>5 DEF FileTypeOK, PastKept, EvidenceAfterDigest, SealedSound, Measured, Places
<1>4. CASE Read /\ ~Fails /\ ~(Len(run.read) < Len(file))
  <2>1. /\ run' \in Runs /\ run'.at = "check" /\ run'.stamp = run.stamp /\ run'.read = run.read
        /\ run'.evidence = run.evidence /\ run'.mem = run.mem /\ run.at = "read"
        /\ UNCHANGED <<file, stamp, past, log>>
    BY <1>4, Moved DEF Read, ReadInto, owner, Goto, Places, FileTypeOK, Runs
  <2> QED
    BY <2>1 DEF FileTypeOK, PastKept, ReadSoFar, EvidenceAfterDigest, SealedSound, Measured, Places
<1>5. CASE Check /\ unchanged
  <2>1. run.read = file
    <3>1. run.read \in Seq(Blocks) /\ file \in Seq(Blocks)
      BY DEF FileTypeOK, Runs
    <3>2. Len(run.read) = Len(file) /\ \A i \in 1 .. Len(run.read) : run.read[i] = file[i]
      BY <1>5 DEF Check, unchanged, ReadSoFar
    <3> QED
      BY <3>1, <3>2, SeqEqual
  <2>2. /\ run' \in Runs /\ run'.at = "measured" /\ run'.stamp = run.stamp /\ run'.read = run.read
        /\ run'.evidence = run.evidence /\ run'.mem = run.mem /\ run.at = "check"
        /\ UNCHANGED <<file, stamp, past, log>>
    BY <1>5, Moved DEF Check, owner, Goto, Places, FileTypeOK
  <2>3. run'.read = past'[run'.stamp.ctime + 1]
    BY <1>5, <2>1, <2>2 DEF PastKept, unchanged
  <2> QED
    BY <2>2, <2>3 DEF FileTypeOK, PastKept, ReadSoFar, EvidenceAfterDigest, SealedSound, Places
<1>6. CASE Check /\ ~unchanged /\ ~Fails
  <2>0. run.attempts - 1 \in Nat
    BY <1>6 DEF Check, FileTypeOK, Runs
  <2>1. /\ run' \in Runs /\ run'.at = "stat" /\ run'.stamp = run.stamp /\ run'.read = run.read
        /\ run'.evidence = run.evidence /\ run'.mem = run.mem /\ run.at = "check"
        /\ UNCHANGED <<file, stamp, past, log>>
    BY <1>6, <2>0, ZenonT(60) DEF Check, owner, Places, FileTypeOK, Runs
  <2> QED
    BY <2>1 DEF FileTypeOK, PastKept, ReadSoFar, EvidenceAfterDigest, SealedSound, Measured, Places
<1>7. CASE observe_measured /\ ~Fails
  <2> DEFINE found == (IF ~Listed(path) THEN {} ELSE IF manifest_match THEN {"PackageManifestMatch"}
                       ELSE {"ContentDigestMismatch"}) \cup {e \in {"SetuidBit"} : Setuid(path)}
  <2>1. /\ found \in SUBSET {"PackageManifestMatch", "ContentDigestMismatch", "SetuidBit"}
        /\ "PackageManifestMatch" \in found => run.read = Manifest
        /\ "ContentDigestMismatch" \in found => run.read # Manifest
    BY DEF manifest_match
  <2>2. /\ run.at = "measured" /\ UNCHANGED <<file, stamp, past, log>>
        /\ run' = [run EXCEPT !.at = "observed", !.evidence = found]
    BY <1>7 DEF observe_measured, owner
  <2> HIDE DEF found
  <2>3. /\ run' \in Runs /\ run'.at = "observed" /\ run'.stamp = run.stamp /\ run'.read = run.read
        /\ run'.evidence = found /\ run'.mem = run.mem
    BY <2>1, <2>2, Zenon DEF FileTypeOK, Runs, Places
  <2> QED
    BY <2>1, <2>2, <2>3 DEF FileTypeOK, PastKept, ReadSoFar, EvidenceAfterDigest, SealedSound, Measured, Places
<1>8. CASE DecideRun /\ ~Fails
  <2>1. /\ run' \in Runs /\ run'.at = "seal" /\ run'.stamp = run.stamp /\ run'.read = run.read
        /\ run'.evidence = run.evidence /\ run'.mem = <<>> /\ run.at = "observed"
        /\ UNCHANGED <<file, stamp, past, log>>
    BY <1>8, Rest, Zenon DEF DecideRun, owner, Places, FileTypeOK, Runs
  <2> QED
    BY <2>1 DEF FileTypeOK, PastKept, ReadSoFar, EvidenceAfterDigest, SealedSound, Measured, Places
<1>9. CASE Seal /\ ~Fails /\ Len(run.mem) < Len(file)
  <2>1. run.mem \in Seq(Blocks) /\ file \in Seq(Blocks) /\ file[Len(run.mem) + 1] \in Blocks
    BY <1>9 DEF FileTypeOK, Runs
  <2> DEFINE more == Append(run.mem, file[Len(run.mem) + 1])
  <2>2. /\ run.at = "seal" /\ UNCHANGED <<file, stamp, past, log>>
        /\ run' = [run EXCEPT !.mem = more] /\ more \in Seq(Blocks)
    BY <1>9, <2>1 DEF Seal, ReadInto, owner
  <2> HIDE DEF more
  <2>3. /\ run' \in Runs /\ run'.at = "seal" /\ run'.stamp = run.stamp /\ run'.read = run.read
        /\ run'.evidence = run.evidence
    BY <2>2, Zenon DEF FileTypeOK, Runs
  <2> QED
    BY <2>2, <2>3 DEF FileTypeOK, PastKept, ReadSoFar, EvidenceAfterDigest, SealedSound, Measured, Places
<1>10. CASE Seal /\ ~Fails /\ ~(Len(run.mem) < Len(file))
  <2>1. /\ run' \in Runs /\ run'.at = "sealed" /\ run'.stamp = run.stamp /\ run'.read = run.read
        /\ run'.evidence = run.evidence /\ run'.mem = run.mem /\ run.at = "seal" /\ digest_matches
        /\ UNCHANGED <<file, stamp, past, log>>
    BY <1>10, Moved DEF Seal, ReadInto, owner, Goto, Places, FileTypeOK, Runs
  <2> QED
    BY <2>1 DEF FileTypeOK, PastKept, ReadSoFar, EvidenceAfterDigest, SealedSound, Measured, Places, digest_matches
<1>11. CASE RecordStart
  <2>1. /\ run' \in Runs /\ run'.at = "prepared" /\ run'.stamp = run.stamp /\ run'.read = run.read
        /\ run'.evidence = run.evidence /\ run'.mem = run.mem /\ run.at = "sealed"
        /\ UNCHANGED <<file, stamp, past>>
    BY <1>11, Moved DEF RecordStart, owner, Goto, Places, FileTypeOK
  <2>2. log = <<>> /\ log' = Append(log, "starting")
    BY <1>11 DEF RecordStart, SealedSound, Places
  <2>3. log' \in Seq(Entries) /\ log' # <<>> /\ Head(log') = "starting"
    BY <2>2 DEF Entries
  <2> QED
    BY <2>1, <2>3 DEF FileTypeOK, PastKept, ReadSoFar, EvidenceAfterDigest, SealedSound, Measured, Places
<1>12. CASE execute_prepared
  <2>1. PICK at \in {"running", "refused"} : run' = [run EXCEPT !.at = at]
    BY <1>12 DEF execute_prepared, Goto
  <2>2. /\ run' \in Runs /\ run'.at = at /\ run'.stamp = run.stamp /\ run'.read = run.read
        /\ run'.evidence = run.evidence /\ run'.mem = run.mem /\ run.at = "prepared"
        /\ UNCHANGED <<file, stamp, past, log>>
    BY <1>12, <2>1, Moved DEF execute_prepared, owner, Places, FileTypeOK
  <2> QED
    BY <2>2 DEF FileTypeOK, PastKept, ReadSoFar, EvidenceAfterDigest, SealedSound, Measured, Places
<1>13. CASE RecordRun
  <2>1. /\ run' \in Runs /\ run'.at = "ended" /\ run'.stamp = run.stamp /\ run'.read = run.read
        /\ run'.evidence = run.evidence /\ run'.mem = run.mem /\ run.at \in {"running", "refused"}
        /\ UNCHANGED <<file, stamp, past>>
    BY <1>13, Moved, Zenon DEF RecordRun, owner, Goto, Places, FileTypeOK
  <2>2. log' \in Seq(Entries)
    <3>1. <<"started", "exited">> \in Seq(Entries) /\ <<"could not start">> \in Seq(Entries)
      BY DEF Entries
    <3>2. log \in Seq(Entries)
      BY DEF FileTypeOK
    <3>3. \A s \in Seq(Entries) : log \o s \in Seq(Entries)
      BY <3>2, ConcatProperties
    <3> HIDE DEF FileInv
    <3> QED
      BY <1>13, <3>1, <3>2, <3>3, Zenon DEF RecordRun
  <2> QED
    BY <2>1, <2>2 DEF FileTypeOK, PastKept, ReadSoFar, EvidenceAfterDigest, SealedSound, Measured, Places
<1>14. CASE Write
  <2>1. PICK c \in UNION {[1 .. n -> Blocks] : n \in 1 .. MaxSize + 1}, t \in 0 .. stamp.ctime + 1 :
          /\ file' = c
          /\ stamp' = [mtime |-> t, ctime |-> stamp.ctime + 1]
          /\ past' = Append(past, c)
          /\ UNCHANGED <<path, swaps, run, log>>
    BY <1>14 DEF Write
  <2>2. c \in Seq(Blocks) /\ t \in Nat /\ stamp.ctime \in Nat
    BY ContentsAreSequences DEF FileTypeOK, Stamps
  <2>3. past \in Seq(Seq(Blocks))
    BY DEF FileTypeOK
  <2>4. /\ past' \in Seq(Seq(Blocks)) /\ Len(past') = Len(past) + 1 /\ past'[Len(past) + 1] = c
        /\ \A k \in 1 .. Len(past) : past'[k] = past[k]
    BY <2>1, <2>2, <2>3
  <2>5. stamp'.ctime = stamp.ctime + 1 /\ stamp' \in Stamps
    BY <2>1, <2>2 DEF Stamps
  <2>6. run' = run /\ file' = c /\ log' = log
    BY <2>1
  <2>7. FileTypeOK'
    BY <2>2, <2>4, <2>5, <2>6 DEF FileTypeOK
  <2>8. run.stamp.ctime \in Nat
    BY DEF FileTypeOK, Runs, Stamps
  <2>9. PastKept' /\ ReadSoFar'
    <3>1. Len(past) = stamp.ctime + 1 /\ run.stamp.ctime <= stamp.ctime
      BY DEF PastKept
    <3>2. run.stamp.ctime # stamp.ctime + 1
      BY <2>2, <2>8, <3>1
    <3>3. run.stamp.ctime <= stamp.ctime + 1
      BY <2>2, <2>8, <3>1
    <3>4. PastKept'
      BY <2>4, <2>5, <2>6, <3>1, <3>3 DEF PastKept
    <3>5. ReadSoFar'
      BY <2>5, <2>6, <3>2 DEF ReadSoFar
    <3> QED
      BY <3>4, <3>5
  <2>10. run.stamp.ctime + 1 \in 1 .. Len(past)
    BY <2>2, <2>8 DEF PastKept
  <2> QED
    BY <2>4, <2>6, <2>7, <2>9, <2>10 DEF EvidenceAfterDigest, SealedSound, Measured
<1>15. CASE Swap \/ UNCHANGED measureVars
  BY <1>15 DEF Swap, measureVars, FileTypeOK, PastKept, ReadSoFar, EvidenceAfterDigest, SealedSound, Measured
<1>16. CASE Fails /\ (Stat \/ Read \/ Check \/ observe_measured \/ DecideRun \/ Seal)
  <2>1. UNCHANGED owner
    BY <1>16 DEF Stat, Read, Check, observe_measured, DecideRun, Seal, ReadInto, owner
  <2>2. log' = log \/ log' = Append(log, "denied")
    BY <1>16 DEF Stat, Read, Check, observe_measured, DecideRun, Seal, ReadInto
  <2>3. log \in Seq(Entries) /\ "denied" \in Entries
    BY Zenon DEF FileTypeOK, Entries
  <2>4. log' \in Seq(Entries)
    BY <2>2, <2>3, AppendProperties
  <2> QED
    BY <1>16, <2>1, <2>4, FailsInv
<1> QED
  BY <1>1, <1>2, <1>3, <1>4, <1>5, <1>6, <1>7, <1>8, <1>9, <1>10, <1>11, <1>12, <1>13, <1>14, <1>15, <1>16 DEF MeasureNext

\* A digest is that of what the file held at one moment, and package evidence is
\* about the same bytes: for files of every size under every limit, however often
\* the owner writes and whatever modification time is set (measure_inner).
THEOREM DigestOfOneMoment ==
  ASSUME MaxSize \in Nat
  PROVE  MeasureSpec => []DigestIsSnapshot
<1>1. MeasureInit => FileInv
  BY FileInit
<1>2. FileInv /\ [MeasureNext]_measureVars => FileInv'
  BY FileStep
<1>3. FileInv => DigestIsSnapshot
  BY DEF FileInv, DigestIsSnapshot, EvidenceAfterDigest
<1> QED
  BY <1>1, <1>2, <1>3, PTL DEF MeasureSpec

\* What executes is what was measured, and its start was recorded before, although
\* the file is read a second time for the sealed copy (SealedExe::seal, prepare_run).
THEOREM ExecutesWhatWasMeasured ==
  ASSUME MaxSize \in Nat
  PROVE  MeasureSpec => []MeasuredIsExecuted
<1>1. MeasureInit => FileInv
  BY FileInit
<1>2. FileInv /\ [MeasureNext]_measureVars => FileInv'
  BY FileStep
<1>3. FileInv => MeasuredIsExecuted
  BY SMTT(30), Zenon DEF FileInv, MeasuredIsExecuted, SealedSound, Measured
<1> QED
  BY <1>1, <1>2, <1>3, PTL DEF MeasureSpec

-----------------------------------------------------------------------------
(***************************************************************************)
(* The cache of the package index.                                         *)
(***************************************************************************)
Versions == [Files -> Nat]

Loads == [at : {"rest", "fingerprint", "build", "loaded"}, fp : Versions, index : Versions, todo : SUBSET Files]

DpkgTypeOK ==
  /\ db \in Versions /\ before \in Versions /\ blank \in Versions
  /\ cache \in [fp : Versions, index : Versions] /\ load \in Loads

\* Version i of file f, or its being empty because version e could not be read, is no older than v.
NotOlder(i, f, e, v) == IF i = 0 THEN f \in Lists /\ e >= v ELSE i >= v

\* Versions only grow, and the fingerprint of a file is taken before the file is
\* read: what was read, or could not be, is at least as new as the fingerprint says, in
\* the cache too, and the fingerprint is at least as new as the beginning of the load.
DpkgInv ==
  /\ DpkgTypeOK
  /\ \A f \in Files : before[f] <= db[f] /\ blank[f] <= db[f] /\ db[f] # 0
  /\ cache # NoCache => \A f \in Files : NotOlder(cache.index[f], f, blank[f], cache.fp[f])
  /\ load.at = "fingerprint" =>
       /\ load.index = Nothing
       /\ \A f \in Files \ load.todo : before[f] <= load.fp[f] /\ load.fp[f] <= db[f]
  /\ load.at = "build" =>
       /\ \A f \in Files : before[f] <= load.fp[f] /\ load.fp[f] <= db[f]
       /\ \A f \in load.todo : load.index[f] = 0
       /\ \A f \in Files \ load.todo : NotOlder(load.index[f], f, blank[f], load.fp[f])
  /\ load.at = "loaded" => \A f \in Files : NotOlder(load.index[f], f, blank[f], before[f])

\* It stays so when an empty list turns out to be newer, and for what is older.
LEMMA StaysNotOlder ==
  ASSUME NEW i \in Nat, NEW f, NEW e \in Nat, NEW v \in Nat, NotOlder(i, f, e, v),
         NEW e2 \in Nat, NEW v2 \in Nat, e <= e2, v2 <= v
  PROVE  NotOlder(i, f, e2, v2)
BY DEF NotOlder

\* No step of dpkg or of a load breaks it.
LEMMA DpkgStep ==
  ASSUME DpkgInv, [DpkgNext]_dpkgVars
  PROVE  DpkgInv'
<1> USE DEF DpkgInv
<1>0. /\ Nothing \in Versions /\ Files \in SUBSET Files /\ \A f \in Files : Nothing[f] = 0
      /\ Resting.at = "rest" /\ Resting.todo = {} /\ Resting.index = Nothing /\ Resting \in Loads
  BY DEF Nothing, Resting, Versions, Loads
<1>10. /\ load.fp \in Versions /\ load.index \in Versions /\ load.todo \in SUBSET Files /\ db \in Versions
       /\ cache.fp \in Versions /\ cache.index \in Versions
  BY Zenon DEF DpkgTypeOK, Loads
<1>11. \A f \in Files : /\ load.fp[f] \in Nat /\ load.index[f] \in Nat /\ cache.fp[f] \in Nat /\ cache.index[f] \in Nat
                        /\ db[f] \in Nat /\ before[f] \in Nat /\ blank[f] \in Nat
  BY <1>10, Zenon DEF DpkgTypeOK, Versions
<1>1. CASE Change
  <2>1. PICK f \in Files : db' = [db EXCEPT ![f] = db[f] + 1]
    BY <1>1, Zenon DEF Change
  <2>2. UNCHANGED <<cache, load, before, blank>>
    BY <1>1, Zenon DEF Change
  <2>3. db' \in Versions /\ \A g \in Files : db'[g] \in Nat /\ db[g] <= db'[g]
    BY <1>10, <2>1 DEF Versions
  <2>4. DpkgTypeOK'
    BY <2>2, <2>3, Zenon DEF DpkgTypeOK
  <2>5. \A g \in Files : before[g] <= db'[g] /\ blank[g] <= db'[g] /\ db'[g] # 0 /\ (load.fp[g] <= db[g] => load.fp[g] <= db'[g])
    BY <1>11, <2>3
  <2> QED
    BY <1>10, <2>2, <2>4, <2>5, Zenon
<1>2. CASE Begin
  <2>1. load' \in Loads /\ load'.at = "fingerprint" /\ load'.todo = Files /\ load'.index = Nothing /\ before' = db
    BY <1>0, <1>2, Zenon DEF Begin, Loads, Resting
  <2>2. UNCHANGED <<db, cache, blank>>
    BY <1>2, Zenon DEF Begin
  <2>3. \A f \in Files : db[f] <= db[f]
    BY <1>11
  <2>4. DpkgTypeOK'
    BY <2>1, <2>2, Zenon DEF DpkgTypeOK
  <2> QED
    BY <2>1, <2>2, <2>3, <2>4, Zenon
<1>3. CASE Fingerprint
  <2>1. PICK f \in load.todo : load' = [load EXCEPT !.fp[f] = db[f], !.todo = load.todo \ {f}]
    BY <1>3, Zenon DEF Fingerprint
  <2>2. [load.fp EXCEPT ![f] = db[f]] \in Versions /\ load.todo \ {f} \in SUBSET Files /\ f \in Files
    BY <1>10, <2>1 DEF Versions
  <2>3. /\ load' \in Loads /\ load'.at = "fingerprint" /\ load'.todo = load.todo \ {f} /\ load'.index = load.index
        /\ load'.fp = [load.fp EXCEPT ![f] = db[f]] /\ UNCHANGED <<db, cache, before, blank>> /\ load.at = "fingerprint"
    BY <1>3, <1>10, <2>1, <2>2, Zenon DEF Fingerprint, DpkgTypeOK, Loads
  <2>4. \A g \in Files \ load'.todo : before[g] <= load'.fp[g] /\ load'.fp[g] <= db[g]
    BY <1>10, <1>11, <2>2, <2>3 DEF Versions
  <2>5. DpkgTypeOK'
    BY <2>3, Zenon DEF DpkgTypeOK
  <2> QED
    BY <2>3, <2>4, <2>5, Zenon
<1>4. CASE ReadCache /\ cache_hit
  <2>1. /\ load' \in Loads /\ load'.at = "loaded" /\ load'.index = cache.index
        /\ load.at = "fingerprint" /\ load.todo = {} /\ UNCHANGED <<db, cache, before, blank>>
    BY <1>4, <1>10, Zenon DEF ReadCache, DpkgTypeOK, Loads
  <2>2. \A f \in Files : NotOlder(cache.index[f], f, blank[f], load.fp[f]) /\ before[f] <= load.fp[f] /\ blank[f] <= blank[f]
    BY <1>4, <1>11, <2>1 DEF cache_hit
  <2>3. \A f \in Files : NotOlder(cache.index[f], f, blank[f], before[f])
    BY <1>11, <2>2, StaysNotOlder, Zenon
  <2>4. DpkgTypeOK'
    BY <2>1, Zenon DEF DpkgTypeOK
  <2> QED
    BY <2>1, <2>3, <2>4, Zenon
<1>5. CASE ReadCache /\ ~cache_hit
  <2>1. /\ load' \in Loads /\ load'.at = "build" /\ load'.todo = Files /\ load'.fp = load.fp /\ load'.index = load.index
        /\ load.at = "fingerprint" /\ load.todo = {} /\ UNCHANGED <<db, cache, before, blank>>
    BY <1>0, <1>5, Zenon DEF ReadCache, DpkgTypeOK, Loads
  <2>2. DpkgTypeOK'
    BY <2>1, Zenon DEF DpkgTypeOK
  <2> QED
    BY <1>0, <2>1, <2>2, Zenon
<1>6. CASE Build
  <2>1. PICK f \in load.todo : load' = [load EXCEPT !.index[f] = db[f], !.todo = load.todo \ {f}]
    BY <1>6, Zenon DEF Build
  <2>2. [load.index EXCEPT ![f] = db[f]] \in Versions /\ load.todo \ {f} \in SUBSET Files /\ f \in Files
    BY <1>10, <2>1 DEF Versions
  <2>3. /\ load' \in Loads /\ load'.at = "build" /\ load'.todo = load.todo \ {f} /\ load'.fp = load.fp
        /\ load'.index = [load.index EXCEPT ![f] = db[f]] /\ UNCHANGED <<db, cache, before, blank>> /\ load.at = "build"
    BY <1>6, <1>10, <2>1, <2>2, Zenon DEF Build, DpkgTypeOK, Loads
  <2>4. load'.index[f] = db[f] /\ \A g \in Files \ {f} : load'.index[g] = load.index[g]
    BY <1>10, <2>2, <2>3, Zenon DEF Versions
  <2>5. NotOlder(db[f], f, blank[f], load.fp[f])
    BY <1>11, <2>2, <2>3 DEF NotOlder
  <2>6. DpkgTypeOK'
    BY <2>3, Zenon DEF DpkgTypeOK
  <2> QED
    BY <1>10, <2>2, <2>3, <2>4, <2>5, <2>6, ZenonT(60)
<1>12. CASE BuildBlank
  <2>1. PICK f \in load.todo \cap Lists :
          load' = [load EXCEPT !.todo = load.todo \ {f}] /\ blank' = [blank EXCEPT ![f] = db[f]]
    BY <1>12, Zenon DEF BuildBlank
  <2>2. load.todo \ {f} \in SUBSET Files /\ f \in Files /\ f \in Lists /\ f \in load.todo
    BY <1>10, <2>1
  <2>3. blank' \in Versions /\ blank'[f] = db[f] /\ \A g \in Files : blank'[g] \in Nat /\ blank[g] <= blank'[g] /\ blank'[g] <= db[g]
    <3>1. blank \in Versions /\ db[f] \in Nat
      BY <1>11, <2>2, Zenon DEF DpkgTypeOK
    <3> QED
      BY <1>11, <2>1, <2>2, <3>1 DEF Versions
  <2>4. /\ load' \in Loads /\ load'.at = "build" /\ load'.todo = load.todo \ {f} /\ load'.fp = load.fp
        /\ load'.index = load.index /\ UNCHANGED <<db, cache, before>> /\ load.at = "build"
    BY <1>12, <1>10, <2>1, <2>2, Zenon DEF BuildBlank, DpkgTypeOK, Loads
  <2>5. \A g \in Files, i \in Nat, v \in Nat : NotOlder(i, g, blank[g], v) => NotOlder(i, g, blank'[g], v)
    BY <1>11, <2>3 DEF NotOlder
  <2>6. NotOlder(load.index[f], f, blank'[f], load.fp[f])
    BY <1>11, <2>2, <2>3, <2>4 DEF NotOlder
  <2>7. DpkgTypeOK'
    BY <2>3, <2>4, Zenon DEF DpkgTypeOK
  <2>8. cache' # NoCache => \A g \in Files : NotOlder(cache'.index[g], g, blank'[g], cache'.fp[g])
    BY <1>11, <2>4, <2>5, Zenon
  <2>9. /\ \A g \in load'.todo : load'.index[g] = 0
        /\ \A g \in Files \ load'.todo : NotOlder(load'.index[g], g, blank'[g], load'.fp[g])
    BY <1>11, <2>4, <2>5, <2>6, Zenon
  <2> QED
    BY <2>3, <2>4, <2>7, <2>8, <2>9, Zenon
<1>7. CASE WriteCache
  <2>1. /\ load' \in Loads /\ load'.at = "loaded" /\ load'.index = load.index
        /\ load.at = "build" /\ load.todo = {} /\ UNCHANGED <<db, before, blank>>
    BY <1>7, Zenon DEF WriteCache, DpkgTypeOK, Loads
  <2>2. \A f \in Files : NotOlder(load.index[f], f, blank[f], load.fp[f]) /\ before[f] <= load.fp[f] /\ blank[f] <= blank[f]
    BY <1>11, <2>1
  <2>3. \A f \in Files : NotOlder(load.index[f], f, blank[f], before[f])
    BY <1>11, <2>2, StaysNotOlder, Zenon
  <2>4. cache' = cache \/ (cache'.fp = load.fp /\ cache'.index = load.index)
    <3>1. cache' = cache \/ cache' = [fp |-> load.fp, index |-> load.index]
      BY <1>7 DEF WriteCache, cached
    <3> QED
      BY <3>1
  <2>5. cache' \in [fp : Versions, index : Versions]
    <3>1. cache' = cache \/ cache' = [fp |-> load.fp, index |-> load.index]
      BY <1>7 DEF WriteCache, cached
    <3> QED
      BY <1>10, <3>1 DEF DpkgTypeOK
  <2>6. DpkgTypeOK'
    BY <2>1, <2>5, Zenon DEF DpkgTypeOK
  <2> QED
    BY <2>1, <2>2, <2>3, <2>4, <2>6, Zenon
<1>8. CASE Kill
  <2>1. load' = Resting /\ UNCHANGED <<db, cache, before, blank>>
    BY <1>8, Zenon DEF Kill
  <2> QED
    BY <1>0, <2>1, Zenon DEF DpkgTypeOK
<1>9. CASE UNCHANGED dpkgVars
  BY <1>9, Zenon DEF dpkgVars, DpkgTypeOK
<1> QED
  BY <1>1, <1>2, <1>3, <1>4, <1>5, <1>6, <1>7, <1>8, <1>9, <1>12, Zenon DEF DpkgNext

\* No index is older than the database was when its load began, and nothing is missing
\* from it but lists that could not be read since, for every number of files, changes,
\* loads, kills and such lists (load_cached, read_cache, build, write_cache).
THEOREM IndexFresh == DpkgSpec => []IndexNotStale
<1>1. DpkgInit => DpkgInv
  <2> SUFFICES ASSUME DpkgInit PROVE DpkgInv
    OBVIOUS
  <2>1. Nothing \in Versions /\ db \in Versions
    BY DEF DpkgInit, Nothing, Versions
  <2>2. DpkgTypeOK /\ load.at = "rest"
    BY <2>1 DEF DpkgInit, NoCache, Resting, DpkgTypeOK, Loads
  <2>3. cache = NoCache /\ \A f \in Files : before[f] <= db[f] /\ blank[f] <= db[f] /\ db[f] # 0
    BY DEF DpkgInit, Nothing
  <2> QED
    BY <2>2, <2>3, Zenon DEF DpkgInv
<1>2. DpkgInv /\ [DpkgNext]_dpkgVars => DpkgInv'
  BY DpkgStep
<1>3. DpkgInv => IndexNotStale
  BY Zenon DEF DpkgInv, IndexNotStale, NotOlder
<1> QED
  BY <1>1, <1>2, <1>3, PTL DEF DpkgSpec

-----------------------------------------------------------------------------
(***************************************************************************)
(* The cell.                                                               *)
(***************************************************************************)

Controls == {"MountNs", "PidNs", "IpcNs", "UtsNs", "NetNs", "UserNs", "NoNewPrivs", "CapDrop", "Seccomp",
             "LandlockNet", "LandlockFs", "Rlimits", "Cgroup"}

Places1 == {None, "start", "unshare", "waiting", "dead"}
Steps == {"NoNewPrivs", "UtsNs", "Cgroup", "MountNs", "Rlimits", "Landlock", "CapDrop", "Seccomp", "report"}
Places2 == {None, "start", "exec", "running", "dead"} \cup Steps

Stages1 == [at : Places1, sig : BOOLEAN, killed : BOOLEAN]
Stages2 == [at : Places2, sig : BOOLEAN, killed : BOOLEAN]
Launchers == [at : {"idle", "reading", "waiting", "reaping", "done", "dead"},
              result : {None, "Unsupported", "Refused", "Setup", "Running"}]
Builders == [active : SUBSET Controls, unavailable : SUBSET Controls, skipped : BOOLEAN]

TypeOK ==
  /\ launcher \in Launchers /\ stage1 \in Stages1 /\ stage2 \in Stages2
  /\ b \in Builders /\ ran \in BOOLEAN

\* What stage 1 unshares.
Namespaces ==
  {"PidNs", "IpcNs", "UtsNs"} \cup {c \in {"NetNs"} : Isolated(spec.network)} \cup {c \in {"UserNs"} : ~rootful}

\* The order in which the processes come to be.
Lineage ==
  /\ launcher.at = "idle" => stage1.at = None
  /\ stage1.at # None => Supported(spec)
  /\ stage2.at # None => stage1.at \in {"waiting", "dead"}
  /\ stage1.at = None => stage2.at = None
  /\ ran => stage2.at \in {"running", "dead"}

\* The Builder never runs ahead of the kernel.
BuilderSound ==
  /\ b.active \subseteq InForce
  /\ stage2.at \in {None, "start"} => b.active = {}
  /\ stage2.at = "start" => real = Namespaces

\* At most one report is written, when nothing is left to establish; a program is
\* executed only after one that found every mandatory control active.
OneReport ==
  /\ stage1.at \in {None, "start", "unshare"} => pipe = NoReport
  /\ stage2.at \in {"start"} \cup Steps => pipe = NoReport
  /\ stage2.at \in {"exec", "running"} \/ ran =>
       pipe.status \in {"Full", "Partial"} /\ mandatory_controls(spec) \subseteq b.active

\* What the launcher returns is about the report, or about there being none any more.
ResultSound ==
  /\ launcher.result = "Unsupported" => ~Supported(spec)
  /\ launcher.result = "Refused" => pipe.status = "Refused"
  /\ launcher.result = "Setup" => pipe = NoReport /\ stage1.at = "dead" /\ stage2.at \in {None, "dead"}

CellInv == TypeOK /\ Lineage /\ BuilderSound /\ OneReport /\ ResultSound /\ ReportTruthful

\* After each control of stage 2 comes another, and the report in the end.
LEMMA AfterInSteps ==
  ASSUME NEW c \in Steps \ {"report"}
  PROVE  After(c) \in Steps
<1> DEFINE i == CHOOSE i \in DOMAIN Order : Order[i] = c
<1>1. DOMAIN Order = 1 .. 9
  BY DEF Order
<1>2. \E k \in DOMAIN Order : Order[k] = c
  BY DEF Order, Steps
<1>3. i \in 1 .. 9 /\ Order[i] = c
  BY <1>1, <1>2
<1> HIDE DEF i
<1>4. i # 9
  BY <1>3 DEF Order, Steps
<1>5. i + 1 \in {2, 3, 4, 5, 6, 7, 8, 9}
  BY <1>3, <1>4
<1>6. Order[i + 1] \in Steps
  BY <1>5 DEF Order, Steps
<1> QED
  BY <1>6 DEF After, i

\* A Builder that has ended a report says what it knows.
LEMMA Finished ==
  ASSUME NEW bl \in Builders
  PROVE  LET r == finish(bl, spec)
         IN  /\ r.active = bl.active /\ r # NoReport
             /\ requested_controls(spec) \subseteq r.active \cup r.unavailable
             /\ r.status \in {"Refused", "Full", "Partial"}
             /\ r.status # "Refused" => mandatory_controls(spec) \subseteq bl.active
             /\ r.status = "Full" => requested_controls(spec) \subseteq bl.active /\ ~bl.skipped
<1> DEFINE r == finish(bl, spec)
<1>1. r.active = bl.active /\ r.unavailable = bl.unavailable \cup (requested_controls(spec) \ bl.active)
  BY DEF finish
<1>2. r.status = IF ~(mandatory_controls(spec) \subseteq bl.active) THEN "Refused"
                 ELSE IF requested_controls(spec) \subseteq bl.active /\ ~bl.skipped THEN "Full" ELSE "Partial"
  BY DEF finish
<1>3. NoReport.status = "none"
  BY DEF NoReport, None
<1> HIDE DEF r
<1> QED
  BY <1>1, <1>2, <1>3 DEF r

\* A refusal claims nothing as active.
LEMMA Refusal ==
  ASSUME NEW bl \in Builders
  PROVE  LET r == refuse(bl, spec)
         IN  /\ r.active = bl.active /\ r # NoReport
             /\ requested_controls(spec) \subseteq r.active \cup r.unavailable
             /\ r.status = "Refused"
<1> DEFINE f == finish([bl EXCEPT !.unavailable = @ \cup {"MountNs"}], spec)
           r == refuse(bl, spec)
<1>1. /\ f = [active |-> f.active, unavailable |-> f.unavailable, status |-> f.status]
      /\ f.active = bl.active /\ requested_controls(spec) \subseteq f.active \cup f.unavailable
  BY DEF finish, Builders
<1>2. r = [f EXCEPT !.status = "Refused"]
  BY DEF refuse
<1> HIDE DEF f
<1>3. r.active = f.active /\ r.unavailable = f.unavailable /\ r.status = "Refused"
  BY <1>1, <1>2
<1>4. NoReport.status = "none"
  BY DEF NoReport, None
<1> HIDE DEF r
<1> QED
  BY <1>1, <1>3, <1>4 DEF r

-----------------------------------------------------------------------------
(***************************************************************************)
(* The steps.                                                              *)
(***************************************************************************)

Parts == <<spec, rootful, stage1, stage2, b, real, pipe, ran>>

\* A step of the launcher once the cell is started: the cell's own processes stay
\* where they are, so only what it returns has to be justified.
LEMMA LauncherFrame ==
  ASSUME CellInv, launcher' \in Launchers, launcher'.at # "idle", ResultSound',
         stage1' \in Stages1, stage1'.at = stage1.at,
         UNCHANGED <<spec, rootful, stage2, b, real, pipe, ran>>
  PROVE  CellInv'
<1>1. /\ spec' = spec /\ rootful' = rootful /\ stage2' = stage2
      /\ b' = b /\ real' = real /\ pipe' = pipe /\ ran' = ran
  BY Zenon
<1>2. TypeOK'
  BY <1>1, Zenon DEF CellInv, TypeOK
<1>3. Lineage'
  BY <1>1 DEF CellInv, Lineage, Supported
<1>4. BuilderSound'
  <2>1. Namespaces' = Namespaces
    BY <1>1 DEF Namespaces
  <2> QED
    BY <1>1, <2>1, Zenon DEF CellInv, BuilderSound, InForce
<1>5. OneReport'
  BY <1>1 DEF CellInv, OneReport
<1>6. ReportTruthful'
  BY <1>1, Zenon DEF CellInv, ReportTruthful, InForce
<1> QED
  BY <1>2, <1>3, <1>4, <1>5, <1>6, Zenon DEF CellInv

\* The launcher: what it returns is what it read.
LEMMA LauncherStep ==
  ASSUME CellInv, Launcher \/ LauncherDies
  PROVE  CellInv'
<1> USE DEF CellInv
<1>1. CASE Launch /\ Supported(spec)
  <2>1. /\ launcher.at = "idle" /\ launcher' \in Launchers /\ launcher'.at = "reading"
        /\ launcher'.result = launcher.result
    BY <1>1 DEF Launch, TypeOK, Launchers
  <2>2. /\ stage1.at = None /\ stage1' \in Stages1 /\ stage1'.at = "start"
    BY <1>1, <2>1 DEF Launch, TypeOK, Stages1, Places1, Lineage
  <2>3. UNCHANGED <<spec, rootful, stage2, b, real, pipe, ran>>
    BY <1>1 DEF Launch, given
  <2>4. stage2.at = None /\ ~ran /\ pipe = NoReport
    BY <2>2 DEF Lineage, OneReport, None
  <2>5. TypeOK' /\ Lineage'
    BY <1>1, <2>1, <2>2, <2>3, <2>4, SMTT(30), Zenon DEF TypeOK, Lineage, None, Supported
  <2> QED
    BY <2>1, <2>2, <2>3, <2>4, <2>5, SMTT(30), ZenonT(60)
       DEF BuilderSound, InForce, OneReport, ResultSound, ReportTruthful, Namespaces, Supported, None, Steps
<1>2. CASE ReadReport
  <2>1. launcher' \in Launchers /\ launcher'.at # "idle"
    BY <1>2 DEF ReadReport, Launchers
  <2>2. launcher'.result = (IF pipe.status = "Refused" THEN "Refused" ELSE "Running")
    BY <1>2 DEF ReadReport
  <2>3. UNCHANGED Parts
    BY <1>2, Zenon DEF ReadReport, given, Parts
  <2>4. /\ UNCHANGED <<spec, rootful, stage2, b, real, pipe, ran>>
        /\ stage1' \in Stages1 /\ stage1'.at = stage1.at
    BY <2>3, Zenon DEF Parts, TypeOK
  <2>5. ResultSound'
    BY <2>2, <2>4 DEF ResultSound
  <2> QED
    BY <2>1, <2>4, <2>5, LauncherFrame, Zenon
<1>3. CASE (Launch /\ ~Supported(spec)) \/ ReadFails
  <2>1. launcher' \in Launchers /\ launcher'.at # "idle" /\ launcher'.result \in {"Unsupported", "Setup"}
    BY <1>3 DEF Launch, ReadFails, Launchers
  <2>2. launcher'.result = "Unsupported" => ~Supported(spec)
    BY <1>3 DEF ReadFails, Launch
  <2>3. launcher'.result = "Setup" => pipe = NoReport /\ stage1.at = "dead" /\ stage2.at \in {None, "dead"}
    BY <1>3 DEF ReadFails, Launch, Alive
  <2>4. UNCHANGED Parts
    BY <1>3, Zenon DEF Launch, ReadFails, given, Parts
  <2>5. /\ UNCHANGED <<spec, rootful, stage2, b, real, pipe, ran>>
        /\ stage1' \in Stages1 /\ stage1'.at = stage1.at
    BY <2>4, Zenon DEF Parts, TypeOK
  <2>6. ResultSound'
    BY <2>1, <2>2, <2>3, <2>5 DEF ResultSound
  <2> QED
    BY <2>1, <2>5, <2>6, LauncherFrame, Zenon
<1>4. CASE Wait
  <2>1. launcher' \in Launchers /\ launcher'.at # "idle" /\ launcher'.result = launcher.result
    BY <1>4 DEF Wait, TypeOK, Launchers
  <2>2. UNCHANGED Parts
    BY <1>4, Zenon DEF Wait, given, Parts
  <2>3. /\ UNCHANGED <<spec, rootful, stage2, b, real, pipe, ran>>
        /\ stage1' \in Stages1 /\ stage1'.at = stage1.at
    BY <2>2, Zenon DEF Parts, TypeOK
  <2>4. ResultSound'
    BY <2>1, <2>3, Zenon DEF ResultSound
  <2> QED
    BY <2>1, <2>3, <2>4, LauncherFrame, Zenon
<1>5. CASE LauncherDies
  <2>1. launcher' \in Launchers /\ launcher'.at # "idle" /\ launcher'.result = launcher.result
    BY <1>5 DEF LauncherDies, TypeOK, Launchers
  <2>2. stage1' \in Stages1 /\ stage1'.at = stage1.at
    BY <1>5 DEF LauncherDies, TypeOK, Stages1
  <2>3. UNCHANGED <<spec, rootful, stage2, b, real, pipe, ran>>
    BY <1>5 DEF LauncherDies, given
  <2>4. ResultSound'
    BY <2>1, <2>2, <2>3, Zenon DEF ResultSound
  <2> QED
    BY <2>1, <2>2, <2>3, <2>4, LauncherFrame, Zenon
<1> QED
  BY <1>1, <1>2, <1>3, <1>4, <1>5 DEF Launcher

\* Stage 1 ends, and stage 2 with it or later.
LEMMA EndingStep ==
  ASSUME CellInv, stage1.at \in {"unshare", "waiting", "start"}, stage1' \in Stages1, stage1'.at = "dead",
         stage2' \in Stages2, stage2'.at = stage2.at \/ (stage2'.at = "dead" /\ stage2.at # None),
         UNCHANGED <<spec, rootful, launcher, b, real, pipe, ran>>
  PROVE  CellInv'
<1> USE DEF CellInv
<1>1. TypeOK'
  BY DEF TypeOK
<1>2. Lineage'
  BY DEF Lineage, Supported, None
<1>3. BuilderSound' /\ ReportTruthful'
  BY DEF BuilderSound, InForce, ReportTruthful, Namespaces, None
<1>4. OneReport'
  BY DEF OneReport, None, Steps
<1>5. ResultSound'
  BY DEF ResultSound, Supported, None
<1> QED
  BY <1>1, <1>2, <1>3, <1>4, <1>5

\* The set-up of the namespaces by stage 1, and its refusals.
LEMMA Stage1Step ==
  ASSUME CellInv, Stage1
  PROVE  CellInv'
<1> USE DEF CellInv
<1>1. CASE Arm1
  <2>1. stage1.at = "start" /\ stage1' \in Stages1 /\ stage1'.at = "unshare"
    BY <1>1, Zenon DEF Arm1, armed1, TypeOK, Stages1, Places1, LauncherAlive
  <2>2. UNCHANGED <<spec, rootful, launcher, stage2, b, real, pipe, ran>>
    BY <1>1, SMTT(30), Zenon DEF Arm1, given
  <2> QED
    BY <2>1, <2>2 DEF TypeOK, Lineage, BuilderSound, InForce, OneReport, ResultSound, ReportTruthful, Namespaces, Supported, None
<1>2. CASE Unshare
  <2>1. stage1.at = "unshare" /\ stage1' \in Stages1 /\ stage1'.at = "waiting"
    BY <1>2 DEF Unshare, TypeOK, Stages1, Places1
  <2>2. stage2' \in Stages2 /\ stage2'.at = "start" /\ real' = Namespaces
    BY <1>2 DEF Unshare, TypeOK, Stages2, Places2, Namespaces
  <2>3. UNCHANGED <<spec, rootful, launcher, b, pipe, ran>>
    BY <1>2, SMTT(30), Zenon DEF Unshare, given
  <2>4. stage2.at = None /\ ~ran /\ pipe = NoReport /\ b.active = {} /\ Supported(spec)
    BY <2>1, SMTT(30), ZenonT(60) DEF Lineage, OneReport, BuilderSound, InForce, None
  <2>5. TypeOK' /\ Lineage'
    BY <2>1, <2>2, <2>3, <2>4, SMTT(30), ZenonT(60) DEF TypeOK, Lineage, Supported, None
  <2>6. OneReport' /\ ResultSound' /\ ReportTruthful'
    BY <2>1, <2>2, <2>3, <2>4, SMTT(30), ZenonT(60) DEF OneReport, ResultSound, ReportTruthful, InForce, Supported, None, Steps
  <2> QED
    BY <2>2, <2>3, <2>4, <2>5, <2>6 DEF BuilderSound, InForce, Namespaces, None
<1>3. CASE Stage1Fails
  <2>1. PICK lost \in SUBSET Controls : Refuse1(fail(Builder, lost)) \/ Refuse1(Builder)
    BY <1>3 DEF Stage1Fails, Controls
  <2>2. Builder \in Builders /\ fail(Builder, lost) \in Builders
        /\ Builder.active = {} /\ fail(Builder, lost).active = {}
    BY Zenon DEF Builder, Builders, fail
  <2>3. PICK bl \in Builders : bl.active = {} /\ Refuse1(bl)
    BY <2>1, <2>2
  <2>4. /\ pipe'.active = {} /\ requested_controls(spec) \subseteq pipe'.active \cup pipe'.unavailable
        /\ pipe'.status = "Refused"
    BY <2>3, Refusal DEF Refuse1
  <2>5. stage1.at = "unshare" /\ stage1' \in Stages1 /\ stage1'.at = "dead"
    BY <1>3, <2>3 DEF Stage1Fails, Refuse1, Exit1, TypeOK, Stages1, Places1
  <2>6. stage2' \in Stages2 /\ stage2'.at = stage2.at
    BY <2>3 DEF Refuse1, Exit1, TypeOK, Stages2, Alive
  <2>7. UNCHANGED <<spec, rootful, launcher, b, real, ran>>
    BY <2>3 DEF Refuse1, given
  <2>8. stage2.at = None /\ ~ran /\ pipe = NoReport
    BY <2>5 DEF Lineage, OneReport, None
  <2>9. NoReport.status = "none"
    BY DEF NoReport, None
  <2>10. TypeOK' /\ Lineage' /\ BuilderSound'
    BY <2>5, <2>6, <2>7, <2>8 DEF TypeOK, Lineage, BuilderSound, InForce, Supported, Namespaces, None
  <2>11. OneReport' /\ ResultSound'
    BY <2>4, <2>5, <2>6, <2>7, <2>8, <2>9, SMT, ZenonT(60) DEF OneReport, ResultSound, Supported, None, Steps
  <2>12. ReportTruthful'
    BY <2>4, <2>7 DEF ReportTruthful, InForce, requested_controls, mandatory_controls, limited, Isolated
  <2> QED
    BY <2>10, <2>11, <2>12
<1>4. CASE Reap \/ Stage1Killed
  <2>1. stage1.at \in {"unshare", "waiting", "start"} /\ stage1' \in Stages1 /\ stage1'.at = "dead"
    <3>1. stage1.at = None => ~Alive(stage1)
      BY DEF Alive
    <3> QED
      BY <1>4, <3>1 DEF Reap, Stage1Killed, Exit1, Alive, TypeOK, Stages1, Places1
  <2>2. stage2' \in Stages2 /\ stage2'.at = stage2.at
    BY <1>4 DEF Reap, Stage1Killed, Exit1, TypeOK, Stages2, Alive
  <2>3. UNCHANGED <<spec, rootful, launcher, b, real, pipe, ran>>
    BY <1>4 DEF Reap, Stage1Killed, given
  <2> QED
    BY <2>1, <2>2, <2>3, EndingStep
<1>5. CASE Deadline
  <2>1. stage1.at = "waiting" /\ stage1' \in Stages1 /\ stage1'.at = "dead"
    BY <1>5 DEF Deadline, KillAfter, TypeOK, Stages1, Places1
  <2>2. stage2' \in Stages2 /\ stage2'.at = "dead" /\ stage2.at # None
    BY <1>5 DEF Deadline, KillAfter, TypeOK, Stages2, Places2, Alive
  <2>3. UNCHANGED <<spec, rootful, launcher, b, real, pipe, ran>>
    BY <1>5 DEF Deadline, KillAfter, given
  <2> QED
    BY <2>1, <2>2, <2>3, EndingStep
<1> QED
  BY <1>1, <1>2, <1>3, <1>4, <1>5, SMTT(30), Zenon DEF Stage1

\* A control is established, or found not to be: the Builder gains no more than is in force.
LEMMA ControlStep ==
  ASSUME CellInv, NEW c \in Steps \ {"report"}, NEW bl \in Builders, NEW cs, NEW sig \in BOOLEAN,
         bl.active \subseteq b.active \cup cs \cup {x \in {"LandlockFs"} : "SomeLandlockFs" \in cs},
         Step2(c, bl, cs, sig)
  PROVE  CellInv'
<1> USE DEF CellInv
<1>1. After(c) \in Steps
  BY AfterInSteps
<1>2. stage2.at = c /\ stage2' \in Stages2 /\ stage2'.at = After(c)
  BY <1>1, Zenon DEF Step2, Runs2, TypeOK, Stages2, Places2
<1>3. b' = bl /\ real' = real \cup cs /\ UNCHANGED <<spec, rootful, launcher, stage1, pipe, ran>>
  BY DEF Step2, given
<1>4. stage2.at \in Steps /\ stage2'.at \in Steps /\ pipe = NoReport /\ ~ran
  BY <1>1, <1>2 DEF OneReport, Lineage, Steps
<1>5. TypeOK' /\ Lineage'
  BY <1>2, <1>3, <1>4, SMT, ZenonT(60) DEF TypeOK, Lineage, Supported, Steps, None
<1>6. BuilderSound'
  BY <1>3, <1>4, SMTT(30), ZenonT(60) DEF BuilderSound, InForce, Steps, None
<1>7. OneReport' /\ ResultSound' /\ ReportTruthful'
  BY <1>3, <1>4, SMT, ZenonT(60) DEF OneReport, ResultSound, ReportTruthful, InForce, Supported, Steps, None
<1> QED
  BY <1>5, <1>6, <1>7

\* What ok and fail leave of a Builder.
LEMMA Noted ==
  ASSUME NEW bl \in Builders, NEW cs \in SUBSET Controls
  PROVE  /\ ok(bl, cs) \in Builders /\ ok(bl, cs).active = bl.active \cup cs
         /\ fail(bl, cs) \in Builders /\ fail(bl, cs).active = bl.active
         /\ [bl EXCEPT !.skipped = TRUE] \in Builders /\ [bl EXCEPT !.skipped = TRUE].active = bl.active
BY Zenon DEF ok, fail, Builders

\* Stage 2 ends without having reported, or after its report.
LEMMA End2Step ==
  ASSUME CellInv, stage2.at # None, stage2' \in Stages2, stage2'.at = "dead",
         UNCHANGED <<spec, rootful, launcher, stage1, b, real, pipe, ran>>
  PROVE  CellInv'
<1> USE DEF CellInv
<1>1. TypeOK' /\ Lineage' /\ BuilderSound' /\ ReportTruthful'
  BY SMTT(30), ZenonT(60) DEF TypeOK, Lineage, BuilderSound, InForce, ReportTruthful, Namespaces, Supported, None
<1>2. OneReport' /\ ResultSound'
  BY DEF OneReport, ResultSound, Supported, None, Steps
<1> QED
  BY <1>1, <1>2

\* Stage 2 writes a report: of the controls it knows, when there is nothing left to establish.
LEMMA ReportStep ==
  ASSUME CellInv, stage2.at \in Steps, b' \in Builders, b'.active = b.active, pipe' = finish(b', spec),
         stage2' \in Stages2, stage2'.at = "dead" \/ (stage2'.at = "exec" /\ pipe'.status # "Refused"),
         UNCHANGED <<spec, rootful, launcher, stage1, real, ran>>
  PROVE  CellInv'
<1> USE DEF CellInv
<1>1. /\ pipe'.active = b.active
      /\ requested_controls(spec) \subseteq pipe'.active \cup pipe'.unavailable
      /\ pipe'.status \in {"Refused", "Full", "Partial"}
      /\ pipe'.status # "Refused" => mandatory_controls(spec) \subseteq b.active
      /\ pipe'.status = "Full" => requested_controls(spec) \subseteq b.active /\ ~b'.skipped
  BY Finished
<1>2. pipe = NoReport /\ ~ran /\ stage1.at \in {"waiting", "dead"}
  BY DEF OneReport, Lineage, Steps, None
<1>3. NoReport.status = "none"
  BY DEF NoReport, None
<1>4. TypeOK' /\ Lineage' /\ BuilderSound'
  BY <1>2 DEF TypeOK, Lineage, BuilderSound, InForce, Supported, Steps, None
<1>5. OneReport'
  BY <1>1, <1>2, SMTT(30), Zenon DEF OneReport, mandatory_controls, Isolated, Steps, None
<1>6. ResultSound'
  BY <1>1, <1>2, <1>3, SMTT(30), ZenonT(60) DEF ResultSound, Supported, Steps, None
<1>7. ReportTruthful'
  BY <1>1, SMT, ZenonT(60) DEF ReportTruthful, InForce, BuilderSound, requested_controls, mandatory_controls, limited, Isolated
<1> QED
  BY <1>4, <1>5, <1>6, <1>7, SMTT(30), Zenon

\* The controls of stage 2, one after the other.
LEMMA EstablishStep ==
  ASSUME CellInv, Establish
  PROVE  CellInv'
<1>1. b \in Builders /\ stage2 \in Stages2 /\ stage2.sig \in BOOLEAN
  BY DEF CellInv, TypeOK, Stages2
<1>2. ASSUME NEW c \in {"NoNewPrivs", "Rlimits", "Seccomp", "Cgroup"}, Plain(c)
      PROVE  CellInv'
  <2>1. c \in Steps \ {"report"} /\ {c} \in SUBSET Controls
    BY DEF Steps, Controls
  <2>2. /\ ok(b, {c}) \in Builders /\ ok(b, {c}).active \subseteq b.active \cup {c}
        /\ fail(b, {c}) \in Builders /\ fail(b, {c}).active \subseteq b.active \cup {}
    BY <1>1, <2>1, Noted, Zenon
  <2> QED
    BY <1>1, <1>2, <2>1, <2>2, ControlStep, Zenon DEF Plain
<1>3. CASE Hostname \/ (setup_cgroup /\ ~limited(spec))
  <2>1. /\ {"UtsNs"} \in SUBSET Controls /\ "UtsNs" \in Steps \ {"report"} /\ "Cgroup" \in Steps \ {"report"}
        /\ b.active \subseteq b.active \cup {}
    BY DEF Steps, Controls
  <2>2. fail(b, {"UtsNs"}) \in Builders /\ fail(b, {"UtsNs"}).active \subseteq b.active \cup {}
    BY <1>1, <2>1, Noted, Zenon
  <2> QED
    BY <1>1, <1>3, <2>1, <2>2, ControlStep, SMTT(30), ZenonT(60) DEF Hostname, setup_cgroup
<1>4. CASE setup_cgroup /\ limited(spec)
  BY <1>2, <1>4 DEF setup_cgroup
<1>5. CASE build_root
  <2>1. "MountNs" \in Steps \ {"report"} /\ {"MountNs"} \in SUBSET Controls
    BY DEF Steps, Controls
  <2> DEFINE mounted == ok(b, {"MountNs"})
             skipping == [mounted EXCEPT !.skipped = TRUE]
  <2>2. /\ mounted \in Builders /\ mounted.active \subseteq b.active \cup {"MountNs"}
        /\ fail(b, {"MountNs"}) \in Builders /\ fail(b, {"MountNs"}).active = b.active
    BY <1>1, <2>1, Noted, Zenon
  <2>3. skipping \in Builders /\ skipping.active \subseteq b.active \cup {"MountNs"}
    <3> HIDE DEF mounted
    <3> QED
      BY <2>1, <2>2, Noted
  <2>4. CASE Step2("MountNs", mounted, {"MountNs"}, stage2.sig) \/ Step2("MountNs", skipping, {"MountNs"}, stage2.sig)
    <3> HIDE DEF mounted, skipping
    <3> QED
      BY <1>1, <2>1, <2>2, <2>3, <2>4, ControlStep
  <2>5. CASE /\ Runs2("MountNs") /\ b' = fail(b, {"MountNs"}) /\ pipe' = finish(b', spec)
             /\ stage2' = [stage2 EXCEPT !.at = "dead"]
             /\ UNCHANGED <<given, launcher, stage1, real, ran, expired>>
    <3>1. stage2.at \in Steps /\ stage2' \in Stages2 /\ stage2'.at = "dead"
      BY <1>1, <2>5 DEF Runs2, Stages2, Places2, Steps
    <3> QED
      BY <2>2, <2>5, <3>1, ReportStep DEF given
  <2> QED
    BY <1>5, <2>4, <2>5 DEF build_root
<1>6. CASE apply_landlock
  <2> DEFINE net == {c \in {"LandlockNet"} : spec.network = "DESTINATION_ALLOWLIST"}
             all == {"LandlockFs"} \cup net
  <2>1. PICK on \in {all, {"LandlockFs"}, {"SomeLandlockFs"}, {}} :
          LET active == outcome(all, Ruleset(all, on))
          IN  Step2("Landlock", fail(ok(b, active), all \ active), on, stage2.sig)
    BY <1>6, Zenon DEF apply_landlock
  <2> DEFINE active == outcome(all, Ruleset(all, on))
             some == {x \in {"LandlockFs"} : "SomeLandlockFs" \in on}
  <2>2. active \in SUBSET Controls /\ all \ active \in SUBSET Controls /\ "Landlock" \in Steps \ {"report"}
    BY DEF outcome, Controls, Steps
  <2>3. active \subseteq on \cup some
    BY DEF outcome, Ruleset
  <2> HIDE DEF all, active, some
  <2>4. ok(b, active) \in Builders /\ ok(b, active).active = b.active \cup active
    BY <1>1, <2>2, Noted, Zenon
  <2>5. /\ fail(ok(b, active), all \ active) \in Builders
        /\ fail(ok(b, active), all \ active).active \subseteq b.active \cup on \cup some
    BY <2>2, <2>3, <2>4, Noted, Zenon
  <2> QED
    BY <1>1, <2>1, <2>2, <2>5, ControlStep, Zenon DEF active, some
<1>7. CASE drop_capabilities
  <2>1. "CapDrop" \in Steps \ {"report"} /\ {"CapDrop"} \in SUBSET Controls /\ (stage2.sig /\ ~rootful) \in BOOLEAN
    BY DEF Steps, Controls
  <2>2. /\ ok(b, {"CapDrop"}) \in Builders /\ ok(b, {"CapDrop"}).active \subseteq b.active \cup {"CapDrop"}
        /\ fail(b, {"CapDrop"}) \in Builders /\ fail(b, {"CapDrop"}).active \subseteq b.active \cup {}
    BY <1>1, <2>1, Noted, Zenon
  <2>3. PICK sig \in BOOLEAN : \/ Step2("CapDrop", ok(b, {"CapDrop"}), {"CapDrop"}, sig)
                               \/ Step2("CapDrop", fail(b, {"CapDrop"}), {}, sig)
    BY <1>1, <1>7, <2>1, Zenon DEF drop_capabilities
  <2> QED
    BY <2>1, <2>2, <2>3, ControlStep
<1> QED
  BY <1>2, <1>3, <1>4, <1>5, <1>6, <1>7 DEF Establish

\* Stage 2 begins, reports, executes the program and ends.
LEMMA Stage2Step ==
  ASSUME CellInv, Stage2 \/ WorkloadEnds
  PROVE  CellInv'
<1> USE DEF CellInv
<1>1. CASE Start2
  <2>1. stage2.at = "start" /\ stage2' \in Stages2 /\ stage2'.at = "NoNewPrivs"
    BY <1>1, Zenon DEF Start2, Runs2, Alive, TypeOK, Stages2, Places2, Steps
  <2>2. Namespaces \in SUBSET Controls /\ b' = ok(b, Namespaces)
    BY <1>1 DEF Start2, Namespaces, Controls
  <2>3. b' \in Builders /\ b'.active = Namespaces
    <3>1. b \in Builders /\ b.active = {}
      BY <2>1 DEF TypeOK, BuilderSound
    <3>2. b' \in Builders /\ b'.active = {} \cup Namespaces
      BY <2>2, <3>1, Noted, ZenonT(60)
    <3> QED
      BY <3>2
  <2>4. UNCHANGED <<spec, rootful, launcher, stage1, real, pipe, ran>>
    BY <1>1 DEF Start2, given
  <2>5. pipe = NoReport /\ ~ran /\ real = Namespaces
    BY <2>1 DEF OneReport, Lineage, BuilderSound
  <2>6. TypeOK' /\ Lineage' /\ BuilderSound'
    BY <2>1, <2>3, <2>4, <2>5 DEF TypeOK, Lineage, BuilderSound, InForce, Supported, None
  <2>7. OneReport' /\ ResultSound' /\ ReportTruthful'
    BY <2>1, <2>4, <2>5, SMTT(30), ZenonT(60) DEF OneReport, ResultSound, ReportTruthful, InForce, Supported, None, Steps
  <2> QED
    BY <2>6, <2>7
<1>2. CASE Establish
  BY <1>2, EstablishStep
<1>3. CASE send_report
  <2>1. /\ stage2.at \in Steps /\ b' = b /\ pipe' = finish(b', spec)
        /\ UNCHANGED <<spec, rootful, launcher, stage1, real, ran>>
    BY <1>3 DEF send_report, Runs2, given, Steps
  <2>2. stage2' \in Stages2 /\ (stage2'.at = "dead" \/ (stage2'.at = "exec" /\ pipe'.status # "Refused"))
    BY <1>3 DEF send_report, reported, TypeOK, Stages2, Places2
  <2> QED
    BY <2>1, <2>2, ReportStep DEF TypeOK
<1>4. CASE Exec /\ stage2' = [stage2 EXCEPT !.at = "running"] /\ ran'
  <2>1. stage2.at = "exec" /\ stage2' \in Stages2 /\ stage2'.at = "running" /\ ran' \in BOOLEAN
    BY <1>4 DEF Exec, Runs2, TypeOK, Stages2, Places2
  <2>2. UNCHANGED <<spec, rootful, launcher, stage1, b, real, pipe>>
    BY <1>4, SMTT(30), Zenon DEF Exec, given
  <2>3. TypeOK' /\ Lineage' /\ BuilderSound' /\ ReportTruthful'
    BY <2>1, <2>2, SMTT(30), Zenon DEF TypeOK, Lineage, BuilderSound, InForce, ReportTruthful, Supported, None
  <2>4. OneReport' /\ ResultSound'
    BY <2>1, <2>2 DEF OneReport, ResultSound, Supported, None, Steps
  <2> QED
    BY <2>3, <2>4
<1>5. CASE (Exec /\ stage2' = [stage2 EXCEPT !.at = "dead"] /\ UNCHANGED ran) \/ Stage2Killed \/ WorkloadEnds
  <2>1. stage2.at # None /\ stage2' \in Stages2 /\ stage2'.at = "dead"
    BY <1>5 DEF Exec, Stage2Killed, WorkloadEnds, Runs2, Alive, None, TypeOK, Stages2, Places2
  <2>2. UNCHANGED <<spec, rootful, launcher, stage1, b, real, pipe, ran>>
    BY <1>5 DEF Exec, Stage2Killed, WorkloadEnds, given
  <2> QED
    BY <2>1, <2>2, End2Step
<1> QED
  BY <1>1, <1>2, <1>3, <1>4, <1>5, Zenon DEF Stage2, Exec

-----------------------------------------------------------------------------
(***************************************************************************)
(* The theorems.                                                           *)
(***************************************************************************)

\* CellInv is inductive: the Builder, the report and the launcher's result stay
\* behind the kernel at every step of the three processes.
LEMMA CellInvariance == Spec => []CellInv
<1>1. Init => CellInv
  <2> SUFFICES ASSUME Init PROVE CellInv
    OBVIOUS
  <2>1. /\ launcher.at = "idle" /\ launcher.result = None /\ stage1.at = None /\ stage2.at = None
        /\ b.active = {} /\ pipe = NoReport /\ ~ran /\ real = {}
    BY DEF Init, Builder
  <2>2. TypeOK
    BY Zenon DEF Init, TypeOK, Launchers, Stages1, Stages2, Places1, Places2, Builders, Builder
  <2> QED
    BY <2>1, <2>2 DEF CellInv, Lineage, BuilderSound, InForce, OneReport, ResultSound, ReportTruthful, None, Steps
<1>2. CellInv /\ [Next]_vars => CellInv'
  <2> SUFFICES ASSUME CellInv, [Next]_vars PROVE CellInv'
    OBVIOUS
  <2>1. CASE Launcher \/ LauncherDies
    BY <2>1, LauncherStep
  <2>2. CASE Stage1
    BY <2>2, Stage1Step
  <2>3. CASE Stage2 \/ WorkloadEnds
    BY <2>3, Stage2Step
  <2>4. CASE Expire \/ UNCHANGED vars
    <3>1. UNCHANGED <<launcher, spec, rootful, stage1, stage2, b, real, pipe, ran>>
      BY <2>4 DEF Expire, vars, given
    <3>2. TypeOK' /\ Lineage'
      BY <3>1, Zenon DEF CellInv, TypeOK, Lineage
    <3>3. BuilderSound' /\ OneReport'
      BY <3>1, ZenonT(60) DEF CellInv, BuilderSound, InForce, OneReport, Namespaces
    <3>4. ResultSound' /\ ReportTruthful'
      BY <3>1, Zenon DEF CellInv, ResultSound, ReportTruthful, InForce
    <3> QED
      BY <3>2, <3>3, <3>4, Zenon DEF CellInv
  <2> QED
    BY <2>1, <2>2, <2>3, <2>4 DEF Next
<1> QED
  BY <1>1, <1>2, PTL DEF Spec

\* SECURITY_INVARIANTS I-21 for every decision: a program runs only under a
\* supported decision with all of its mandatory controls in force, and never behind
\* an error the launcher returned (launch, stage1, stage2).
THEOREM Confinement == Spec => []RunsConfined
<1>1. CellInv => RunsConfined
  <2> SUFFICES ASSUME CellInv, ran PROVE RunsConfined
    BY DEF RunsConfined
  <2>1. stage2.at \in {"running", "dead"} /\ stage2.at # None
    BY DEF CellInv, Lineage, None
  <2>2. Supported(spec)
    BY <2>1 DEF CellInv, Lineage, None
  <2>3. mandatory_controls(spec) \subseteq b.active /\ b.active \subseteq InForce /\ pipe.status \in {"Full", "Partial"}
    BY DEF CellInv, OneReport, BuilderSound
  <2>4. NoReport.status = "none"
    BY SMTT(30), Zenon DEF NoReport, None
  <2>5. launcher.result \notin {"Unsupported", "Refused", "Setup"}
    BY <2>2, <2>3, <2>4 DEF CellInv, ResultSound
  <2>6. mandatory_controls(spec) \subseteq real
    BY <2>3 DEF InForce, mandatory_controls
  <2> QED
    BY <2>2, <2>5, <2>6 DEF RunsConfined
<1> QED
  BY <1>1, CellInvariance, PTL

\* The report claims nothing that is not in force, Landlock's rules for files at least
\* in part, and "Full" means everything that was asked for, grants included,
\* whichever control failed (apply_landlock, Builder::finish).
THEOREM ReportClaims == Spec => []ReportTruthful
<1>1. CellInv => ReportTruthful
  BY DEF CellInv
<1> QED
  BY <1>1, CellInvariance, PTL

=============================================================================
