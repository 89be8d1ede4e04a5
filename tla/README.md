# Formal model of JLR

TLA+ modules, TLC configurations and TLAPS proofs about the Rust workspace in
`src/`. JLR admits programs to a machine: it measures executables, decides by a
signed policy what each may do, records every decision in a tamper-evident
ledger, runs programs in cells, gates `exec` with a daemon, and boots from
signed slots with a rollback floor.

## Parts of the system

| Part | Source | State and concurrency | Here |
|---|---|---|---|
| Evidence ledger | `jlr-ledger/src/store.rs` | two append-only files, an in-memory `Ledger`, one lock holder, lock-free readers | `Ledger` and the modules around it |
| Merkle tree | `jlr-ledger/src/merkle.rs` | pure algorithms | `Merkle` |
| Engine | `jlr-engine/src/engine.rs`, `store.rs` | state directory: policy, revocations, approvals, baselines, objects, index; one process at a time | durability of the ledger in `Ledger`; decisions about an artifact in `Admission`; the writes of each operation and their crashes in `Engine`; running a program in `Measure` |
| Setup | `jlr-engine/src/setup.rs` | a sequence of files with one commit point | ledger part in `Ledger`; what it leaves is the initial state of `Engine` |
| Admission states | `jlr-model/src/state.rs` | a transition relation | `Policy`, `Admission` |
| Policy | `jlr-policy/src` | pure evaluation, validation, approvals with expiry, revocation list | `Policy` |
| Exec gate | `jlrd/src/main.rs`, `budget.rs` | gate thread, rescan thread, mount watcher, verdict cache, generation counter, budgets | `ExecGate`, `MountWatch`, `Budgets` |
| Boot chain | `jlr-boot/src` | boot state file on removable media, slots, tries, floor; crashes at every step | `Boot` |
| Cells | `jlr-cell/src` | launcher, two-stage init process, report pipe, wall limit | `Cell`; the sealed copy of a program in `Measure` |
| Measurement | `jlr-measure/src/lib.rs`, `observe.rs` | stat, read, stat against a changing file | `Measure` |
| Package database | `jlr-measure/src/dpkg.rs` | an index built from files that change, cached under a fingerprint | `DpkgCache` |
| Encoding | `jlr-cbor/src/lib.rs` | pure encoder, strict decoder, records | `Cbor` |
| Classification, walking, facts | `jlr-measure/src` | input formats | as far as `Measure` needs the facts |
| Keys, envelopes | `jlr-crypto` | byte formats | ideal: a frame that verifies was written by the holder of the key |
| Command line, release tool | `jlr/src`, `jlr-boot/src/bin/jlr-release.rs` | printing around engine calls | `jlr-release state` gives the initial states of `Boot`; the rest is not modelled on its own |

The ledger is the core: every other part relies on an event it recorded being
there later. An `Engine` opens it under a lock, appends events either one at a
time with fsync or in a batch that ends in `flush`, and lets the operator take
checkpoints to another machine. `jlr ledger verify` reads the same
two files without the lock.

The engine decides by policy and records what it decides (`Policy`, `Admission`);
the order in which it writes objects, events, signed files and the index is what
a crash tests (`Engine`). The daemon answers `exec` events from a cache of the
engine's verdicts while operators change the signed state (`ExecGate`). A program
that may run is measured, sealed and started in a cell (`Measure`, `Cell`). The
encoding and the tree below all of it are pure (`Cbor`, `Merkle`).

The boot chain stands apart from the others: it runs before them, shares no
state with them, and keeps its own small file on each boot medium.

## Modules

| Module | Contents |
|---|---|
| `Ledger` | the component: files, page cache, disk, `Ledger` value, setup, open and repair, append, batches, flush, checkpoints, the lock-free reader, faults; its properties |
| `EvidenceLog` | what a ledger promises: an append-only log with acknowledged and anchored prefixes |
| `LedgerRefinement` | the mapping under which `Ledger` implements `EvidenceLog` |
| `LedgerInvariant` | the inductive invariant `LedgerInv` |
| `LedgerProofs` | its lemmas and theorems, and the proof that `Ledger` implements `EvidenceLog` |
| `MCLedger` | the model-checking root module of the ledger and its refinement |
| `Boot` | the boot chain: slot choice, tries, floor, state file, flaky reads, stages one and two, several media; its properties |
| `MCBoot` | the model-checking root module of the boot chain, with the releases its run uses |
| `BootProofs` | its inductive invariant `BootInv`, lemmas and theorems |
| `Policy` | admission states and `route`, validation and evaluation of policies, the built-in policies, what approvals, baselines and revocations contribute; operators only |
| `PolicyProofs` | what `route` and `evaluate` compute, proved |
| `Admission` | the life of one artifact: decisions recorded step by step, under changing authority |
| `MCAdmission` | its policies, evidence and approvals for model checking, with `Measure` and `DpkgCache` on small instances |
| `AdmissionProofs` | its inductive invariant `AdmissionInv` and theorems |
| `Engine` | the state directory: the writes of each operation of the engine, in order, with failures, kills and power cuts between them |
| `MCEngine` | its model-checking root module |
| `EngineSteps` | its inductive invariant `EngineInv`, and the steps that decide nothing: single writes, failures, power cuts, a new policy, a lost index |
| `EngineProofs` | the operations that decide about an artifact, on top of `EngineSteps` and `PolicyProofs`, and the theorems |
| `ExecGate` | the daemon's gate thread, verdict cache, watcher of the signed state, rescan thread, and the operators that contend with them |
| `MountWatch` | how the daemon finds and marks file systems while the mount table changes |
| `Budgets` | the allowances of slow-path time |
| `DaemonProofs` | the inductive invariants `GateInv` of `ExecGate` and `BudgetInv` of `Budgets`, and theorems |
| `Cell` | launcher, stage 1 and stage 2, controls, report, time limit |
| `MCRuntime` | what the daemon and a cell bring about in the end: `MountWatch`, `ExecGate`, `Engine` and `Cell` on small instances |
| `Measure` | hashing a file that changes, its evidence, sealing and running what was measured |
| `DpkgCache` | the index of the package database and its cache |
| `Cbor` | the deterministic encoding, its strict decoder, and records |
| `Merkle` | the incremental tree, its proofs and their verifiers |
| `MCEvidence` | `ExecGate`, `Budgets`, `Cbor` and `Merkle` on small instances |
| `RunProofs` | from measurement to cell: the inductive invariants `FileInv` of `Measure`, `DpkgInv` of `DpkgCache` and `CellInv` of `Cell`, and theorems |

### How `Ledger` corresponds to the code

*Files.* A log is a sequence of frames. `file[log]` is what every process sees;
`disk[log]` is the set of contents a power cut may leave. A write adds the
contents it passes through, only an fsync (`Durable`) or a `syncfs`
(`AllDurable`) shrinks the set. The two logs have independent sets, so a power
cut may take a durable checkpoint and lose the events below it unless the code
prevents that. A frame cut short is a frame with `bytes = "some"`.

*The `Ledger` value.* `tree`, `counter`, `cpSize`, `sync` and `poisoned` are the
fields of the struct; `next_seq` is `Len(tree)` and `last_env` its last leaf. A
leaf is the number of the append attempt that produced the frame, so two
attempts never share a digest; a Merkle root is the sequence of leaves below it.

*Appending.* `append` and `checkpoint` build a frame (`Offer`,
`OfferCheckpoint`); `append_frame` writes it (`WriteFrame`, `WriteShort`), syncs
it when `sync` is set (`SyncFrame`, `SyncFrameFails`) and cuts a failed append
back (`Rollback`); a cut that fails poisons the ledger (`RollbackFails`).
Every step is its own action because a kill, a power cut or a reader may come
between any two of them.

*Opening.* `Open` replays the files; a torn tail is copied aside (`KeepTail`)
and cut (`CutTail`), events before checkpoints; `Engine::open` then appends one
DEGRADED event for each repaired log (`Report`). `OpenFails` is an I/O error
during this, or the rollback checks of `Engine::open`, which come after the
repair and before its record. The best-effort DEGRADED events that `open`
appends for unreadable records are ordinary `AppendEvent` steps.

*The engine.* `AppendEvent` is `log_subject` (with its `sync_fs` for objects the
event cites), `BeginBatch` and `AbandonBatch` are `set_sync`, and `Flush`,
`SyncFs`, `FlushCheckpoint`, `SyncLogs`, `FlushFails` are the steps of `flush`.
`OperatorCheckpoint` is `Engine::checkpoint`.

*Setup.* `Create` merges saving the keys with `Ledger::create`; `SetupDone` is
`node.cbor`, the commit point. The code appends three events after GENESIS; the
model takes `SetupEvents` of them.

*History.* `acked` and `anchored` record what callers were promised; `offered`
names the frames; `faults` bounds the environment.

### How `Boot` corresponds to the code

*Media.* `release[m][s]` is what slot `s` of medium `m` holds: an epoch, a
minimum epoch, whether the image matches its manifest, and whether the release
passes the health checks of stage 2. `dir[m]` is the `jlr` directory as the
running machine sees it, with `bootstate.cbor` (`main`) and
`bootstate.cbor.new` (`new`); `disk[m]` is the set of directories a power cut
may leave and `sure[m]` the set of contents the data of `.new` may have.

*Selection.* `Install`, `MarkBad`, `MarkSuccessful`, `Bootable`, `Choice` and
`SpendTry` are the methods of `BootState` and the parts of `choose`. A slot
without an entry and a retired slot look the same (`NoEntry`): neither is ever
booted. `Confirm` is `confirm.rs`.

*Writing the state.* `write_state` is six actions (`Promote`, `CreateNew`,
`FillNew`, `SyncNew`, `Rename`, `SyncDir`) with `WriteFails` at each of them;
`Return` is what the caller does with its result. The caller is stage 1 retiring
a slot, stage 1 spending a try, or stage 2 recording a success.

*Stage 1.* `Discover` reads every medium and takes the highest floor;
`TryMedium` is `try_medium` up to its loop and `LoadImage` one turn of the loop;
media are tried in any order. `Down` is `refuse`.

*Stage 2.* `Unhealthy`, `Prove` and `ProveFails`. Sealing and mounting the image
and switching root change no lasting state and are one step that may fail
(`RunFails`).

*History.* `recorded` is the floor of the last write that returned `Ok`, `uses`
counts the starts of each slot while unproven.

### How `Policy` and `Admission` correspond to the code

`Policy` has operators only. `can_become`, `route` and `evaluate` are the
functions of these names; `route` keeps the order of the breadth-first search
because it decides which states an artifact passes through (`Explore` is one turn
of its loop; `prev` is a total map in which `NoState` stands for a missing key). `evaluate` is split
where the code returns early or takes a further guard (`Refuse`,
`base_decision`, `setuid_guard`, `writable_guard`, `requested_capabilities`,
`apply_approval`). Cells, networks and provenance ranks are their codes. A name
is told apart only by the rules it satisfies.

`Admission` follows one artifact. `Observe`, `Approve`, `enroll_baseline`,
`revoke_report` and `set_policy` gather facts and decide; `Step` records the
transitions of `apply_decision` one at a time and `Crash` stops anywhere between
them. `policy` starts as any policy that `validate_loaded` accepts and is
replaced by any that `validate_replacing` accepts, so that policies validation
should refuse are offered as well. `present` and `indexed` are the file at the
path and the row of the index, which is written last.

### How `Engine` corresponds to the code

`Engine` keeps one path and the contents it may hold. `log` is a sequence of what
`Engine::open` derives: first from the durable events alone, then with each event
that is appended and not synced. A power cut leaves any of them (`Survivors`), and
`view`, the last, is what a process sees. An operation computes
the list of its writes from what it read under the lock (`scan`, `decide_exec`,
`approve`, `enroll_baseline`, `revoke_report`, `set_policy`); `Step` performs
one of them (`revoke_next` takes the artifacts that a revocation moves in any
order), `Fail` ends the operation with an error or a kill, and `PowerCut`
decides what is left. Because `todo` holds the writes in the order of the code,
the order is what the properties test. `RebuildIndex` is the rebuilding of a lost
index in `open`. Decisions are `Policy!evaluate` of the built-in policy, with no
evidence in favour, so that only an approval or the baseline lets an artifact
run. The ledger's own steps are in `Ledger`: here it is a log of which a prefix
survives.

### How `ExecGate`, `MountWatch` and `Budgets` correspond to the code

`ExecGate` has the gate thread as a program counter (`gate.at`): `Poll`, `Drain`,
`Hint`, `Load`, then for each event of the batch `Take`, `Decide` or
`DecideFails`, and `Conclude`; `Flush` writes the queued records. The rescan
thread is `RescanBegin` and `RescanSlice`, an operator `OperatorBegin` and
`OperatorEnd`, which hold the ledger lock. The engine is external: a file may run
when its content is the one the signed state grants, the grant has not expired
and the evidence is good. Whether a user is throttled is free. A cache entry
carries ghosts that say what it was decided on, how long after the decision it was
made (`late`), and how long the machine had been suspended by then (`asleep`). A
decision is one step under the ledger lock, so an operator comes before or after it.
The daemon's own second opening of the engine, to record a first denial
(`main.rs:502`), is not charged to anybody in the code and is no step of `Budgets`.

`MountWatch` is `mount_watcher` with `discover_marks` and `mark_filesystems`:
reading the table, examining the paths and marking each of them are separate
steps between which file systems are mounted and unmounted.

`Budgets` is `exhausted`, `charge` and the passing of time. The ghost `stretch`
is a stretch of time as long as a window with what was charged in it; it may begin
at any moment, so that what holds of it holds of every such stretch.

`MCRuntime`, `MCEvidence` and `MCAdmission` each have several components in one
specification in which one of them moves, chosen at the start. This loses nothing:
they share no variables and each property is about one of them.

### How `Cell` corresponds to the code

`Launcher`, `Stage1` and `Stage2` are three processes. `finish`, `refuse`, `ok`
and `fail` are the methods of `Builder`, `requested_controls` and
`mandatory_controls` those of the specification. Stage 2 establishes its controls
in the order of the code (`Order`), each of them working or failing; `real` is a
ghost for what is in force, against which the report is checked. Of Landlock's
rules the kernel has all, those for files, some of those for files (`SomeLandlockFs`)
or none; `Ruleset` is the status it answers and `outcome` what `apply` makes of it.
A report is one message, written by one `write_all` or not at all, so the launcher's
answers to a length or a body that makes no sense are not reached. `Wait` is
`Running::wait`, `Reap` and `Deadline` the two ends of stage 1's loop, in which
`try_wait` comes first (its error, that there is no such child, is an end like
the other). The parent-death signal is a field of each stage: set if
the parent is alive when it is asked for, dropped when the user id changes.

### How `Measure`, `DpkgCache`, `Cbor` and `Merkle` correspond to the code

`Measure` is one run of a program from `open` to the record of its end. `Stat`,
`Read` and `Check` are `measure_inner` inside `measure_file_stable_with`;
then come `observe_measured`, the decision of `prepare_run` (`DecideRun`) and
`SealedExe::seal` (`Seal`). `RecordStart`, `execute_prepared` and `RecordRun` are what the
engine does around the cell. The file's owner writes, truncates, sets the modification time
and replaces the path between any two steps.

`DpkgCache` is `load_cached`: files are fingerprinted and read one at a time
while dpkg replaces them (`Change`). The list of a package that cannot be read, or is
no text, counts as empty (`BuildBlank`); every other error ends the load (`Kill`).

`Cbor` has `encode`, `decode` with its errors, `Map::insert`, and a record of
one required and one optional field in place of the record macro. Integers keep
all 64 bits as byte sequences.

`Merkle` has the tree of peaks (`push`), the two proof generators and the two
verifiers. A digest is the term that was hashed.

### What is assumed of the environment

Of the disk under the ledger:

- Appended data reaches the disk in order within one file: a power cut leaves a
  prefix of what was appended, possibly with a torn last frame. This is what
  ext4 in its default ordered mode gives for appends.
- fsync of a new file also makes its name durable.
- An fsync that succeeds makes the whole current content durable, also after an
  earlier one failed.
- The lock is exclusive: one holder at a time. A killed holder releases it.
- Hashes and signatures are ideal.

Of the boot media:

- Changes of one directory reach the disk in order. A rename may leave the new
  name missing and the old one in place, as FAT does. The order matters:
  `promote_recovered` renames without a directory sync before `.new` is created
  again.
- Data of `.new` that was synced is durable, and a state file is read as it was
  written or with an error.
- A medium that returns wrong bytes for an image without an error does not
  return the same wrong bytes twice.
- Whether a release is healthy does not change from boot to boot.
- A device that is missing or enumerated too late is a fault like any other.
- The hand-over file of stage 1, written to a fresh tmpfs, arrives whole.
- Nothing writes a medium while the machine runs but `jlr-init`; slots are
  installed when a medium is provisioned.

Of the state directory (`Engine`):

- A prefix of the unsynced events survives a power cut; an object that was not
  synced may be missing or cut short; a file that was deleted without a directory
  sync may be back.
- `write_atomic` (temporary file, fsync, rename, directory sync) is atomic.
- The stamp of a file (size, times, inode) changes with its content.

Of the daemon's machine:

- A signed file is written, and reported by inotify, before the operator's process
  releases the ledger lock (`ExecGate`).
- `poll` on the mount table reports a change once (`MountWatch`).

Of the kernel under a cell: `prctl(2)` as described under `Cell`, and the death
of process 1 of a PID namespace ends everything in it.

Of measured files: no two writes leave the same change time (`Measure`), and
versions of a database file are told apart by their fingerprint (`DpkgCache`).

## Runs

| Run | Specification | Checks | Result |
|---|---|---|---|
| `ledger_promises` | `SyncedSpec` | `Reopens`, `AckedSurvive`, `AnchorsHold`, `NoFalseAlarm`, `LedgerInv`, `TornBytesKept`, `ImplementsEvidenceLog` | hold; 143,316 states |
| `boot` | `MCBoot!MCSpec` | `FloorKept`, `TriesBounded`, `NoRollback`, `GoodSlotKept`, `NeverStranded`, `ComesUp` | hold; 637,046 states |
| `admission` | `MCAdmission!AdmissionSpec` | `Resumable`, `RevocationWins`, `TrustHasGrounds`, `AuthorityCapped`, `LegalSteps`, `DigestIsSnapshot`, `MeasuredIsExecuted`, `IndexNotStale` | hold; 3,130,586 states |
| `engine_durability` | `Engine!Spec` | `AuthorityKept`, `RowBehindEvents`, `ReplacedLosesTrust` | hold; 2,121,392 states |
| `runtime` | `MCRuntime!RuntimeSpec` | `RunsConfined`, `ReportTruthful`, `GatedAtLast`, `ExecsAnswered`, `RevokedAtLast`, `LaunchReturns`, `LimitEnforced`, `DiesWithLauncher` | hold; 167,605 states |
| `evidence` | `MCEvidence!EvidenceSpec` | `CacheFresh`, `RescanHonoured`, `UnmeasuredIsEarned`, `StretchBound`, `AcceptedIsCanonical`, `RoundTrip`, `ProofsVerify`, `ProofsSound` | hold; 3,287,894 states |
| `operator_checkpoint` | `Spec` | `CheckpointsCovered` | violated |
| `repair_record` | `SyncedSpec` | `RepairsRecorded` | violated |
| `init_retry` | `SyncedSpec` | `InitAccepted` | violated |
| `crash_before_index` | `Engine!Spec` | `ReplacementSurvivesCrash` | violated |
| `landlock_in_part` | `MCRuntime!RuntimeSpec` | `FsRulesInFull` | violated |
| `suspend_stretches` | `ExecGate!Spec` | `SuspendDoesNotStretch` | violated |

### The ledger

`Ledger`'s `Spec` is the code as it is. Its `SyncedSpec` differs in one conjunct: the operator
takes a checkpoint only while the events it covers are durable. The code does
not enforce this. It is true after every append made outside a batch and after
every batch that ended in a successful `flush`; it is false when a process was
killed inside a batch and the next one checkpoints before anything else forces
the events out. `operator_checkpoint` shows what follows from the code as it is:

1. a batch appends an event without sync and the process is killed;
2. the next process opens the ledger, which replays the event from the page
   cache, and `jlr ledger checkpoint` writes and syncs `checkpoints.log` only;
3. a power cut now leaves a checkpoint beyond the end of `events.log`, and
   `replay` answers `Truncated`.

The comment at `store.rs:313` says that a checkpoint is always covered by the
events read after it; across a power cut it is not. All promises and theorems
about the ledger below therefore name `SyncedSpec`.

`repair_record` shows that a repair can go unrecorded: the tail is cut before
the DEGRADED event is appended, and an open that fails or dies in between leaves
nothing for the next open to notice. `docs/ARCHITECTURE.md:206` says that the
repair is logged.

`init_retry` shows that an interrupted `jlr init` leaves a directory that is
refused by `open` with the advice to run `jlr init`, and by `init` because its
keys exist.

### The boot chain

`boot` follows two media with floors of their own, either of which may be missing
at any boot, through every step of `write_state`. No cut or failed write lowers a
recorded floor or leaves a state file that does not parse (`FloorKept`); what
runs is never below a floor recorded on an attached medium, and a recorded
success brings the highest floor to its own medium (`NoRollback`); an update that
never proves itself is started a bounded number of times; flaky reads never
retire a good slot; no step takes away the last slot a machine can fall back to;
and a machine with such a slot keeps coming up whatever updates it was given.
`ComesUp` has a premise, `ProvenHealthy`: slot `a` of a fresh state counts as
proven although nothing has tested it, and if it is unhealthy every boot chooses
it again.

### Decisions and the state directory

`admission` offers every operation in every order, with policies that validation
must keep out among those offered. Whatever a crash left half recorded, the next
decision is reached by legal steps and is the same decision (`Resumable`,
`LegalSteps`); revocation wins over every approval and baseline; nothing is
admitted without grounds; and authority stays under the ceilings of the policy.

What those decisions rest on is in the same run. A file that changes at every step is
measured, sealed and run as one content (`DigestIsSnapshot`, `MeasuredIsExecuted`). An
index of the package database, built or from the cache, is nowhere older than the
beginning of its load, and a list is missing from it only if it could not be read in a
version at least that new (`IndexNotStale`). An index with a missing list is cached like
any other and answers until a file of the database changes; no file counts as owned by
that package in the meantime.

`engine_durability` puts an error, a kill or a power cut between any two writes.
The file named by the latest OVERRIDE event is always there and the floors never
pass the files (`AuthorityKept`); the row of a measurement never outlives its
events (`RowBehindEvents`); without a crash a replaced artifact loses its trust
(`ReplacedLosesTrust`).

`crash_before_index` shows what a crash changes about the last one. Transitions
are in the ledger before the row is saved. If the process dies in between, the
artifact is trusted on record and no row connects it to its path; a file that
replaces it then is new to the engine, and nothing is degraded. The index file
exists, so `open` does not rebuild it. `docs/SECURITY_INVARIANTS.md:57` says that
a change of content at a path degrades the old artifact. `RevokedAtLast` in
`runtime` is the positive counterpart for revocation: a listed artifact that
stays on the disk is REVOKED in the end although the machine failed before
`revoke_report` moved it.

### The daemon

`evidence` lets the gate thread, the rescan thread, an operator, the owner of
the file and two clocks interleave at every step. What the gate answers from was
decided under the signed state in force unless inotify has more to read
(`CacheFresh`) and not on evidence that a finished rescan has overturned
(`RescanHonoured`). `UnmeasuredIsEarned` compares an exec that is allowed without
being measured with what measuring it now would say: its content is the one the
signed state grants, the evidence was good, and the grant has not ended. The end may be
missed by two amounts, which the property names. `max_age_secs` is computed when the
engine decides and counted from when the entry is made, so that the delay in between is
added; and a hit looks at the monotonic clock, so that the time suspended since is.
Two guards protect a batch from verdicts of an older
generation, the comparison in each entry and the emptying of the cache in `Load`.
The second makes up for the first: with the generation of an entry taken when it
is stored instead of before the batch, the properties still hold.

`suspend_stretches` shows the second amount. A verdict is cached for the rest of its
hour, the machine is suspended past `valid_until`, and the next exec is a hit, because
`main.rs:443` compares `expires` only. `main.rs:256` says that validity is
wall-clock time, "so a suspend does not stretch it", and `docs/REVIEW_2026-09.md:206`
that the monotonic hour "is the shorter bound", which it is not across a suspend.

`StretchBound` in `evidence` is the bound the allowances really give: in any stretch
as long as a window, two windows' worth. `runtime` has the promises that take time: every
exec is answered whoever holds the lock, and a file system that stays mounted is gated
from some time on, also if an earlier mount of it was marked and its mark went with it.

### Cells and pure algorithms

`runtime` lets every control of a cell fail and every process die at every step.
`ReportTruthful` counts Landlock's rules for files as in force if some of them are.
`landlock_in_part` shows why: with a ruleset that the kernel enforces in part,
`landlock_rules.rs:71` still sets `fs`, of which line 25 says "Filesystem rules are
fully enforced.", and the report names `landlock-fs` as active.

`evidence` has every input of up to five bytes of a chosen alphabet, or with a head of
four or eight bytes in it, and every value of up to four nodes; and every tree of up to
eight leaves over two values, with made-up proofs of up to four nodes for those of up to
six leaves.

### Differences from the documents that have no run of their own

These were met while modelling. The properties above are stated so that they
hold of the code, and name the exception where there is one.

- When a tier already lets an artifact run, an approval adds its cell and
  capabilities but the basis stays that of the tier (`jlr-policy/src/engine.rs:207`).
  `docs/SECURITY_INVARIANTS.md:87` says approvals produce `MANUAL_OVERRIDE`.
- Validation lets a tier that runs name CELL-0 and a network
  (`jlr-policy/src/policy.rs:206`); `jlr-policy/src/tests.rs:567` says
  "Cell-0 has no network."
- In a batch, events are appended before the objects they cite are synced
  (`jlr-engine/src/engine.rs:586`), so the kernel may write the event back first.
  `docs/SECURITY_INVARIANTS.md:33` says "objects are made durable before the
  events that name them".
- A lost index is rebuilt from DISCOVER events, latest wins, and an artifact that
  comes back to its path gets no second one (`jlr-engine/src/engine.rs:529`): the
  row may name the wrong artifact. `docs/SECURITY_BOUNDARIES.md:33` says losing the
  index cannot hide a replacement. `RowBehindEvents` is about the row of a
  measurement, which a rebuilt row is told from by having no policy epoch, and
  `ReplacedLosesTrust` about an index that was not lost.
- A rebuilt row may also name an artifact without a state. If a crash came before
  the first index was saved and a power cut then keeps the DISCOVER event of a
  second artifact and not its transition, `open` makes the index from that event. No
  decision rests on such a row: `scan` passes over a file only if its artifact has a
  state (`Unchanged`). Stated of every row of an index that was never lost,
  `RowBehindEvents` would hold with one crash and fail with two, which is why it is
  about the rows of measurements.
- Windows restart instead of sliding (`jlrd/src/budget.rs:33`); `budget.rs:12`
  says "Sliding per-user allowance". `StretchBound` is the bound that results.
- Stage 2 of a cell started by root changes its user id after asking for the
  parent-death signal (`jlr-cell/src/init.rs:501`), which drops the request, and a
  launcher that dies before stage 1 has asked is not noticed (`init.rs:164`).
  `docs/JAIL_MODEL.md:141` says both stages die with the launcher.
  `DiesWithLauncher` is about a launcher that knows the report, and for root about
  stage 1 only.
- A refused report lists controls as unavailable that were not requested
  (`jlr-cell/src/init.rs:184`); `spec.rs:123` says "Requested controls".
- Ownership and path facts are looked up by path after the bytes were read
  (`jlr-measure/src/observe.rs:137`); `observe.rs:70` says a path swapped
  afterwards changes nothing. `DigestIsSnapshot` is about the digest and the
  checksum, which come from one pass.

### Bounds

`ledger_promises` uses four events, three checkpoints and three faults, with a
checkpoint due after two events. That is enough for setup (GENESIS, one event,
one checkpoint) followed by a batch whose flush takes a checkpoint, an operator
checkpoint over it, a torn append in each log, a repair interrupted by a second
fault and a third fault during the recovery from it. The violation runs need
fewer events, so they use a smaller instance; their counterexamples do not
depend on a bound being reached.

`boot` uses two media with two slots, five releases, two tries (the code has
three) and two faults: a cut inside `write_state` and a second one inside the
recovery from it, or a missing medium and a failed write. What differs between
the media is in the initial states.

`admission` needs one tick of the clock for an approval to expire.
`engine_durability` has two contents, one change of the file, one loss of the
index and one crash, which may come before or after the others; two epochs let a
floor and a file differ. The two contents are symmetric. The gate in `evidence` has one
file that changes once, one change of the signed state and one of the evidence, and
two clocks in which a grant of two units outlives the hour of one and
ends before the run does, and one suspend; the files of the cache do not interact but
for its limit. `suspend_stretches` makes the hour as long as the grant, because there
only the suspend may come between them.
The allowances in `evidence` have a window of three ticks, so that stretches and windows
overlap in every way, and a table for one of three users. The mount watcher in `runtime`
has two file systems at two points and two changes of the table, beside those it starts
with: a device that is unmounted and mounted again while the watcher is at work.

The instances of the others are stated in the MC modules. CBOR heads of one, two and
three bytes come up in every position of an input, heads of five and nine bytes behind up to
two others, with arguments that need them and arguments that need fewer; a nesting limit
of two stands for the longer one, which follows the same branch. Sizes up to eight put
two powers of two with their neighbours inside the bound, and four nodes are the longest
consistency proof of a tree of six leaves. Made-up proofs are put together from leaves and from
the nodes of the tree: every node of a proof is hashed into the root it is compared
with, and a digest is the term that was hashed, so no other node can appear in that root.
The package index has a status file and a list, each of which changes up to twice, with
three loads, one kill and one list that cannot be read.

Deadlock checking is off in the ledger runs because an interrupted setup has no
continuation and the bounds end every other behaviour, and in `admission`, `runtime` and
`evidence` because measurements, loads, launches and encodings come to an end and the
mount watcher may stop. Elsewhere it is on: the machines go on for ever.

### Fairness

None for the ledger, the state directory in `engine_durability`, and the components of
`admission` and `evidence`: they act when they are called. In `runtime`, fairness is
stated of disjunctions of the steps of different components, of which only one
moves, so that it is fairness of each.

- `boot`: weak fairness of the steps of `jlr-init`, a single process that goes on
  as long as the machine has power, and of `Restart`: a machine that stands in
  `refuse`, or has come up, is switched off and on at some time
  (`jlr.onfail=reboot` does it in the first case). Faults get no fairness and are
  bounded by `MaxFaults`; without a bound no machine comes up.
- `ExecsAnswered`: weak fairness of the gate thread. None for whoever holds the
  lock: waiting for it ends by a timeout in the code (`DecideFails`).
- `GatedAtLast`: weak fairness of the watcher's thread, whose wait ends by a
  timeout when a retry is due.
- `RevokedAtLast`: an operation once begun goes on, a lost index is rebuilt by
  whoever opens the engine next, time passes (`Age`), and the daemon's rescans
  come back for ever, which is strong fairness because other processes hold the
  lock in between.
- Cells: weak fairness of the launcher, stage 1 and stage 2, which are
  processes the kernel schedules. None for the workload, which may run for ever,
  or for anything dying.

### Mutants

Each checked property is refuted by a plausible bug in a definition it is about.
These variants stand beside the originals, marked "Mutant" or "A bug"
(`SyncFs_NoSync`, `Promote_Nothing`, `RemoveFirst`, `LateStamp` and so on).

## Proofs

Every theorem is proved for every value of the constants, from the assumptions
named below and nothing else.

| Theorem | States |
|---|---|
| `LedgerProofs!Invariance` | `SyncedSpec => []LedgerInv` |
| `LedgerProofs!TypeCorrect` | `[]TypeOK` |
| `LedgerProofs!AlwaysReopens` | `[]Reopens` |
| `LedgerProofs!AckedNeverLost` | `[]AckedSurvive` |
| `LedgerProofs!AnchorsNeverBroken` | `[]AnchorsHold` |
| `LedgerProofs!VerifierNeverAlarms` | `[]NoFalseAlarm` |
| `LedgerProofs!HandleNeverDrifts` | `[]HandleMatchesFiles` |
| `LedgerProofs!TornBytesAlwaysKept` | `TornBytesKept` (action property) |
| `LedgerProofs!RefinesEvidenceLog` | `ImplementsEvidenceLog` (refinement) |
| `BootProofs!FloorNeverLowered` | `[]FloorKept` |
| `BootProofs!RollbackRefused` | `[]NoRollback` |
| `BootProofs!TriesAreBounded` | `[]TriesBounded` |
| `BootProofs!GoodSlotsKept` | `GoodSlotKept` (action property) |
| `BootProofs!FallbackStays` | `NeverStranded` (action property) |
| `PolicyProofs!RouteSound` | `LegalRoute(from, to, route(from, to))` for all states a route is asked for |
| `PolicyProofs!EvaluateSound` | what `evaluate` decides, on what grounds and with how much authority |
| `AdmissionProofs!RevocationHolds` | `[]RevocationWins` |
| `AdmissionProofs!TrustGrounded` | `[]TrustHasGrounds` |
| `AdmissionProofs!AuthorityBounded` | `[]AuthorityCapped` |
| `AdmissionProofs!StepsLegal` | `LegalSteps` (action property) |
| `AdmissionProofs!DecisionsResume` | `[]Resumable` |
| `EngineProofs!AuthoritySurvives` | `[]AuthorityKept` |
| `EngineProofs!RowsFollowEvents` | `[]RowBehindEvents` |
| `EngineProofs!ReplacedIsDistrusted` | `[]ReplacedLosesTrust` |
| `DaemonProofs!GateFresh` | `[]CacheFresh` |
| `DaemonProofs!GateHonoursRescan` | `[]RescanHonoured` |
| `DaemonProofs!GateEarned` | `[]UnmeasuredIsEarned` |
| `DaemonProofs!BudgetsBounded` | `[]StretchBound` |
| `RunProofs!Confinement` | `[]RunsConfined` |
| `RunProofs!ReportClaims` | `[]ReportTruthful` |
| `RunProofs!DigestOfOneMoment` | `[]DigestIsSnapshot` |
| `RunProofs!ExecutesWhatWasMeasured` | `[]MeasuredIsExecuted` |
| `RunProofs!IndexFresh` | `[]IndexNotStale` |

### The ledger

None of the promises is inductive as it stands. That the ledger reopens after
any power cut (`Reopens`) depends on every checkpoint that may be on disk being
covered by every possible `events.log`; that depends on where a checkpoint in
flight got its root from, hence on the `Ledger` value agreeing with the file as
it was before the append in flight (`Base`, `HandleSound`, `OpSound`); and that
a lock-free reader raises no alarm depends on the same being true of the
checkpoints it has already read (`ClaimsHold`). `LedgerInv` is the conjunction
of these with the shape of the two logs (`DiskSound`) and of the states around
setup (`SetupSound`). The proof treats the shapes a log can take (appending,
shortening, cutting) and the file operations first, then every action, and
`NextInv` collects them. Assumed: `LedgerAssumption`.

That the ledger implements `EvidenceLog` follows from three facts. The mapping
picks, among the leaves that every possible `events.log` begins with, the longest,
which exists because lengths are bounded (`DurableFacts`). After every step each
content that a power cut may leave extends one it could have left before
(`EventsGrow`): syncs, rollbacks and power cuts choose among old contents, writes
and the cutting of a torn tail extend one. So what was durable stays durable
(`DurableGrows`). And the holder knows all that was ever acknowledged
(`AckedKnown`, on top of `LedgerInv`), even one whose ledger is poisoned, so a later
acknowledgement continues the earlier ones. `RefinesNext` puts them together: a step
is an `Extend`, an `Acknowledge`, an `Anchor` or a stutter of the log. Prefixes are
defined position by position in `EvidenceLog` and `LedgerRefinement`, and not taken
from `SequencesExt`, whose many definitions would come with every obligation of the
proofs.

### The boot chain

`BootInv` says of every content a power cut may leave that it parses, that its
floor is at least the one recorded, and that the tries left on it together with
the starts already made stay within `DefaultTries` (`DiskSound`): a try is spent
on the disk before the slot is started, so a cut at any moment leaves at most
what was there. `FloorSound` says that the floor of a boot is the highest of the
media found, and that one of them keeps it until a success is recorded, which is
why a rollback stays refused although the floor in memory is lost with every
boot. `StateSound`, `SlotSound`, `WriteSound` and `StepSound` tie the state in
memory, the slot chosen and the write in flight to the medium.

What made the invariant hard is `promote_recovered`. When there is no
`bootstate.cbor`, a whole `bootstate.cbor.new` is renamed into its place, and if
its data had not been synced the rename could leave a torn state file. The data
is unsynced on such a medium (`Dirty`) only between the filling and the syncing
of `.new`, or after an error there. The code is right because a medium that
nothing was ever recorded on (`Blank`) is written at most once in a boot:
its only bootable slot is the proven `a` of a fresh state, so the only write
before stage 2 is the retiring of `a`, after which nothing on this medium is
left to try (`SureSound`).

`FallbackStays` compares the two ends of a step for every combination of
contents the media may be left with: a slot is retired only if its image is bad
twice in the same way, which a good one is not (`ConfirmIs`), and a floor is
raised only by a write that also marks a slot that satisfies it as successful
(`WriteSaves`). Assumed: `BootAssumption`, which bounds nothing but asks for
finitely many media and slots, a slot `a`, at least one try, and numbers where
numbers are meant.

### Decisions

`PolicyProofs` shows what the two pure functions compute. `route` is a
breadth-first search written as two recursive functions. `SearchSound` is an
invariant of its loop: who reached a state was reached before it and may become
it, what was taken off the queue has had all its successors reached, and one
state is taken off in each turn, so that eight turns are enough. `RouteSound`
follows by walking back through `prev`. `EvaluateSound` follows the early
returns and the guards of `evaluate` one after the other, for every policy that
`validate_with` accepts under any of its rules.

`AdmissionInv` says that the policy in force is valid, that a decision in
progress was made from its facts and these are those in force (`Decided`), and
that the steps still to record lead legally from the state reached to the state
decided, by way of trust only to trust (`Underway`). The two theorems on the
functions then give the five on the artifact; `Resumable` needs in addition that
`evaluate` looks at the prior state only to tell trusted from not trusted when
content has changed, and REVOKED from the rest. Assumed: `AdmissionAssumption`
(fields of policies, artifacts, approvals and baselines have their types; the
built-in policies are valid) and `PolicyAssumption`.

### The state directory

What the three properties say of the disk depends on what the operation in
progress has left to write, so `EngineInv` is mostly about `todo`.

- `Ordered`: which write comes directly before which. A file is removed directly
  after the event that makes its successor current, that event directly after the
  writing of the successor; an event that raises a floor directly after the file it
  is about; a row is saved directly after a flush (`Links`). `Ready` is what the
  write before has achieved by the time it is the turn of the next, and with it
  `AuthorityKept` is inductive: a power cut shortens the ledger and brings deleted
  files back, and neither takes away a file that an event names.
- `RowsSound`: every row still to be saved is of an artifact that the ledger has a
  state of, or that a transition earlier in `todo` moves (`Covered`); since a flush
  comes in between, no survivor of a power cut lacks it.
- `TrustSound`: while nothing crashed, the artifacts other than the one the index
  will name are not trusted once `todo` is done, either because the last transition
  left for them is a demotion or because there is none and they are not trusted now
  (`Distrusted`); `Revoking` says the same of what a revocation has in store. An
  artifact that was never recorded is not trusted, so a first index needs that
  nothing is on record.

`EngineSteps` shows that every write keeps the invariant when the rest of `todo`
takes its place (`StepKeeps`), and that a list of writes satisfies it if its parts
do (`OpensConcat`, `Begins`). `EngineProofs` shows it of the writes of each
operation. This needs the theorems on the pure functions: that the routes of
`apply_decision` end where the decision says (`RouteSound`), and that a decision
on changed content, or by way of `changed_content`, is none to run
(`EvaluateSound`). `RowInMemory` is why `on_replaced` is applied to the right
artifact. Assumed: `EngineAssumption` (the names of nothing, of a lost index and of
the baseline are not artifacts; approvals name cells) and `PolicyAssumption`.
Nothing is assumed of the bounds, so the theorems hold for any number of crashes.

### The gate, its allowances, cells and evidence

`GateInv`: generations only grow, and no entry of the cache is newer than the
batch (`Generations`); unless inotify has more to read, the entries that may be
answered from, and the verdict under way, were decided under the signed state,
and nobody is changing it, because an operator is reported before the lock is
released (`StateFresh`); the same for the evidence of a rescan, whose generation
is raised with its publication (`EvidenceFresh`, `PassSound`); a stamp is taken
before the file is measured (`StampFirst`); the monotonic clock is never ahead of
the wall clock, and the monotonic end of an entry, with the time suspended until it was
made, is not after its end by the wall clock (`ClocksSound`). What `GateEarned` needs of a verdict is that, if it allows and the
signed state is the one it was decided under, its content is the one granted, its
evidence was good, and its lifetime counted from the moment of the decision ends with the
grant (`GoodVerdict`); an entry made of it has the same, with its lifetime counted from
the entry and the difference in `late` (`GoodEntry`). Assumed: `GateAssumption`.

`BudgetInv` compares a window with the stretch. What was charged in the stretch is
in the present window if that began before the stretch, and in it and one earlier
window if it did not (`Covers`): two windows cannot both begin and run out within
a stretch as long as one of them. Whoever is worked for was below the allowances
when the work began (`WorkAllowed`), which bounds what one window holds although
the charge comes later and possibly to a new window. A user whom a full table
forgets had a window that has run out, so that being forgotten is no different from
a window being replaced. Assumed: `BudgetAssumption`.

`CellInv`: the order in which the processes come to be (`Lineage`), what stage 1
and stage 2 claim is in force, Landlock's rules for files at least in part
(`BuilderSound`, `InForce`), at most one report is written and
a program is executed only after one that found every mandatory control active
(`OneReport`), and what the launcher returns is about that report or about there
being none any more (`ResultSound`). Nothing is assumed of the constants.

`FileInv`: the change time counts the contents a file has had (`PastKept`), and
as long as it has not moved, what was read is the beginning of the file
(`ReadSoFar`); evidence comes after the digest and a sealed copy equals what was
measured. `DpkgInv`: what was read of a database file, or could not be read of a list,
is at least as new as its fingerprint (`NotOlder`), which is at least as new as the
beginning of the load, in the cache too. The theorems on files assume that the size
limit is a number.

### Recursion and induction

The library's induction theorems range over operators, which the provers cannot
instantiate. What is needed is stated over sets instead. In `BootProofs`: a nonempty
set of natural numbers has a least element (also used in `LedgerProofs`), a set that
contains 0 and is closed under successor is all of them, and a function on `0 .. n`
that is defined by its first value and by how each value follows from the one before
exists and has these values (`Least`, `SetInduction`, `RecursionExists`), for
`jlr-release state` and the highest of several floors. The loops of `route` take at
most eight turns, which `PolicyProofs` unfolds (`EightTurns`, `EightSteps`).
`EngineInv` speaks of positions in `todo` with quantifiers, so that its proofs need
no induction over the writes.

### Model-checked only

- Liveness (`ComesUp`, `GatedAtLast`, `ExecsAnswered`, `RevokedAtLast`,
  `LaunchReturns`, `LimitEnforced`, `DiesWithLauncher`) is out of the prover's
  reach.
- `AcceptedIsCanonical`, `RoundTrip`, `ProofsVerify` and `ProofsSound` are about
  recursive operators of `Cbor` and `Merkle`, which it cannot treat.
- The six violations, which are counterexamples.

Every other property of a passing run has a theorem. `TypeCorrect` and
`HandleNeverDrifts` are proved for definitions that no run lists
by themselves; `LedgerInv`, which `ledger_promises` checks, contains both.

## Not modelled

- The command line (`jlr/src`), argument parsing, printing and the text of
  messages: each command is a call of an engine operation, which is modelled.
- Keys, envelopes and file formats of `jlr-crypto`, and the signing commands of
  `jlr-release`: signatures are ideal, so what is left is byte layout. A frame or
  file that verifies was written by the holder of the key.
- The directory walk, the classification of files by their headers, and the
  parsing of `dpkg` lists and of mount tables: input formats without state of
  their own. What they report is chosen freely where `Measure` and `MountWatch`
  use it.
- In `jlrd`: the tallies behind the half-minute summaries, which denials are
  recorded first, and the wording of the records. No decision depends on them.
  The bounded queue is modelled; that records are lost at its limit is intended.
- In cells: the layout of the private root (one step that works, skips a grant or
  fails), the tables of paths and system calls for Landlock and seccomp, which are
  data for the kernel, and the directory of the control group, which a cell that runs
  into its time limit leaves behind (`init.rs:224` returns before `cleanup_cgroup`).
- In the boot chain: mounting, sealing and switching root are one step that may
  fail; the wrappers around system calls are not modelled.
- In `jlr-model`: identifiers, sanitising of text and conversions between records
  and bytes. The record macro is represented in `Cbor` by one record with a
  required and an optional field.

## Plan

1. An abstract floor register that `Boot` implements.
2. A module for the envelopes of `jlr-crypto`, if a property beyond the byte
   layout is found.
