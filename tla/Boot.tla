-------------------------------- MODULE Boot --------------------------------
(***************************************************************************)
(* The boot chain of crates/jlr-boot: slot selection with a rollback floor *)
(* (state.rs), the boot state file of each medium (media.rs), confirmation *)
(* of wrong reads (confirm.rs) and the two stages of bin/jlr-init.rs.      *)
(*                                                                         *)
(* A medium's directory holds bootstate.cbor (main) and bootstate.cbor.new *)
(* (new).  dir is what the running machine sees of it, disk the set of     *)
(* contents a power cut may leave: every change of the directory adds to   *)
(* it and only a directory sync shrinks it.  A rename on FAT is not atomic *)
(* and may leave the new name missing and the old one in place.            *)
(***************************************************************************)
EXTENDS Integers, FiniteSets, FiniteSetsExt, Sequences

CONSTANTS
  Media,         \* disks with a /jlr tree
  Slots,         \* slot names; numbers, so that ties are broken by name
  Releases,      \* releases a slot may hold: [epoch, minEpoch, content, healthy]
  Installs,      \* sequences of slots given to `jlr-release state --install`
  Floors,        \* floors given to `jlr-release state --floor`
  DefaultTries,  \* DEFAULT_TRIES
  MaxFaults      \* bound: power cuts, I/O errors, flaky reads, missing devices

MaxPriority == 15

ASSUME BootAssumption ==
  /\ IsFiniteSet(Media) /\ Media # {}
  /\ Slots \subseteq Nat /\ IsFiniteSet(Slots) /\ 1 \in Slots
  /\ \A r \in Releases : r.epoch \in Nat /\ r.minEpoch \in Nat
  /\ Installs \subseteq Seq(Slots) /\ Floors \subseteq Nat
  /\ DefaultTries \in Nat \ {0}
  /\ MaxFaults \in Nat

VARIABLES
  release,   \* [Media -> [Slots -> Releases]]: the manifest and image of each slot
  dir,       \* [Media -> directory content seen by the running machine]
  disk,      \* [Media -> set of directory contents a power cut may leave]
  sure,      \* [Media -> set of contents the data of .new may have on the disk]
  phase,     \* where jlr-init is
  seen,      \* media that discover found
  left,      \* those that stage 1 has not tried yet
  floor,     \* the floor of stage 1, handed to stage 2
  medium,    \* the medium being tried or booted from
  state,     \* the in-memory BootState
  verified,  \* slots of the medium whose manifest verified, minus those given up
  slot,      \* the slot chosen
  write,     \* the write_state in flight
  recorded,  \* history: [Media -> floor of the last write_state that returned Ok]
  uses,      \* history: [Media -> [Slots -> times the slot was used while unproven]]
  faults     \* faults so far

files == <<dir, disk, sure>>
stage == <<seen, left, floor, medium, state, verified, slot, write>>
vars == <<release, files, phase, stage, recorded, uses, faults>>

-----------------------------------------------------------------------------
(***************************************************************************)
(* BootState.                                                              *)
(***************************************************************************)

\* A slot without an entry is one that no rule ever boots.
NoEntry == [priority |-> 0, tries |-> 0, successful |-> FALSE]

FreshState ==
  [floor |-> 0,
   slots |-> [s \in Slots |->
                IF s = 1
                  THEN [priority |-> MaxPriority, tries |-> 0, successful |-> TRUE]
                  ELSE NoEntry]]

Install(st, name) ==
  [st EXCEPT !.slots = [s \in Slots |->
     IF s = name
       THEN [priority |-> MaxPriority, tries |-> DefaultTries, successful |-> FALSE]
       ELSE [st.slots[s] EXCEPT !.priority = IF @ >= MaxPriority THEN MaxPriority - 1 ELSE @]]]

\* The state file that `jlr-release state` writes when a medium is provisioned.
StateCommand(installs, low) ==
  LET after[k \in 0 .. Len(installs)] ==
        IF k = 0 THEN FreshState ELSE Install(after[k - 1], installs[k])
  IN  [after[Len(installs)] EXCEPT !.floor = low]

MarkBad(st, name) == [st EXCEPT !.slots[name] = NoEntry]

RaiseFloor(st, low) == [st EXCEPT !.floor = IF low > @ THEN low ELSE @]

MarkSuccessful(st, name, r) ==
  RaiseFloor([st EXCEPT !.slots[name].successful = TRUE, !.slots[name].tries = 0],
             r.minEpoch)

\* Mutant: an unproven slot boots without tries left.
Bootable_NoTries(st, ok, rel) ==
  {s \in ok : st.slots[s].priority > 0 /\ rel[s].epoch >= st.floor}

\* choose: the verified slots that may boot, and the first of them by priority
\* and name.
Bootable(st, ok, rel) ==
  {s \in ok : /\ st.slots[s].priority > 0
              /\ rel[s].epoch >= st.floor
              /\ st.slots[s].successful \/ st.slots[s].tries > 0}

Choice(st, candidates) ==
  CHOOSE s \in candidates : \A t \in candidates :
    \/ st.slots[s].priority > st.slots[t].priority
    \/ st.slots[s].priority = st.slots[t].priority /\ s <= t

\* Mutant: no try is spent.
SpendTry_Never(st, s) == st

\* Choice.next: a try is spent on an unproven slot.
SpendTry(st, s) ==
  IF st.slots[s].successful THEN st ELSE [st EXCEPT !.slots[s].tries = @ - 1]

\* verify_manifest, for a manifest that was read.
ManifestOk(r, low) == r.epoch >= low /\ r.minEpoch <= r.epoch

-----------------------------------------------------------------------------
(***************************************************************************)
(* Reading images: a wrong answer is proof only when it is given twice.    *)
(***************************************************************************)

Genuine(r) == IF r.content = "good" THEN "verified" ELSE "mismatch"

\* What a read may return.  A medium that flips bytes without an error does not
\* flip them the same way twice.
Answers(r, reading) ==
  {Genuine(r)} \cup (IF faults < MaxFaults THEN {"io", reading} ELSE {})

\* Mutant: any two mismatches are taken as proof.
SameMismatch_Any(a, b) == TRUE

SameMismatch(a, b) == a = b

Confirm(first, second) ==
  IF first \in {"verified", "io"} THEN first
  ELSE IF second \in {"verified", "io"} THEN second
  ELSE IF SameMismatch(first, second) THEN "bad"
  ELSE "io"

-----------------------------------------------------------------------------
(***************************************************************************)
(* The state file.                                                         *)
(***************************************************************************)

\* A file is absent, holds a state, or holds bytes that do not parse.
Absent == [is |-> "absent", st |-> FreshState]
Torn == [is |-> "torn", st |-> FreshState]
Whole(st) == [is |-> "whole", st |-> st]

\* read_state: only a missing file means a fresh medium.
Read(d) ==
  IF d.main.is # "absent" THEN d.main
  ELSE IF d.new.is = "whole" THEN d.new
  ELSE Whole(FreshState)

\* A change of the directory of m that no directory sync has followed yet.
Change(m, content, passed) ==
  /\ dir' = [dir EXCEPT ![m] = content]
  /\ disk' = [disk EXCEPT ![m] = @ \cup passed \cup {content}]

Fault == faults < MaxFaults /\ faults' = faults + 1

NoWrite == [step |-> "none", st |-> FreshState, why |-> "none"]

Persist(st, why) ==
  /\ phase' = "write"
  /\ write' = [step |-> "promote", st |-> st, why |-> why]

\* What follows a write_state that returned: a slot that proved bad is skipped
\* either way, a try that could not be recorded is not used, and stage 2 goes on
\* without the record.
Return(ok) ==
  /\ write' = NoWrite
  /\ CASE write.why = "bad" ->
            /\ phase' = "try"
            /\ UNCHANGED <<state, verified, uses>>
       [] write.why = "try" /\ ok ->
            /\ phase' = "run"
            /\ state' = write.st
            /\ uses' = [uses EXCEPT ![medium][slot] = @ + 1]
            /\ UNCHANGED verified
       [] write.why = "try" /\ ~ok ->
            /\ phase' = "try"
            /\ verified' = verified \ {slot}
            /\ UNCHANGED <<state, uses>>
       [] write.why = "success" ->
            /\ phase' = IF ok THEN "proved" ELSE "ready"
            /\ UNCHANGED <<state, verified, uses>>

Writing(step) == phase = "write" /\ write.step = step

Goto(step) == write' = [write EXCEPT !.step = step]

\* Mutant: a recovered .new is not promoted before it is truncated.
Promote_Nothing ==
  /\ Writing("promote")
  /\ Goto("create")
  /\ UNCHANGED <<release, files, phase, seen, left, floor, medium, state, verified, slot,
                 recorded, uses, faults>>

\* promote_recovered.
Promote ==
  /\ Writing("promote")
  /\ LET d == dir[medium] IN
       IF d.main.is = "absent" /\ d.new.is # "absent"
         THEN LET main == IF d.new.is = "whole" THEN d.new ELSE Absent
                  data == IF d.new.is = "whole" THEN sure[medium] ELSE {Absent}
              IN  Change(medium, [main |-> main, new |-> Absent],
                         {[main |-> x, new |-> Absent] : x \in data})
         ELSE UNCHANGED <<dir, disk>>
  /\ Goto("create")
  /\ UNCHANGED <<release, sure, phase, seen, left, floor, medium, state, verified, slot,
                 recorded, uses, faults>>

\* File::create: an empty .new, which does not parse.
CreateNew ==
  /\ Writing("create")
  /\ Change(medium, [dir[medium] EXCEPT !.new = Torn], {})
  /\ sure' = [sure EXCEPT ![medium] = {Torn}]
  /\ Goto("fill")
  /\ UNCHANGED <<release, phase, seen, left, floor, medium, state, verified, slot,
                 recorded, uses, faults>>

\* write_all.
FillNew ==
  /\ Writing("fill")
  /\ Change(medium, [dir[medium] EXCEPT !.new = Whole(write.st)], {})
  /\ sure' = [sure EXCEPT ![medium] = @ \cup {Whole(write.st)}]
  /\ Goto("sync")
  /\ UNCHANGED <<release, phase, seen, left, floor, medium, state, verified, slot,
                 recorded, uses, faults>>

\* Mutant: .new is not synced before it replaces the state file.
SyncNew_Nothing ==
  /\ Writing("sync")
  /\ Goto("rename")
  /\ UNCHANGED <<release, files, phase, seen, left, floor, medium, state, verified, slot,
                 recorded, uses, faults>>

\* sync_all: the data of .new is on the disk.
SyncNew ==
  /\ Writing("sync")
  /\ sure' = [sure EXCEPT ![medium] = {Whole(write.st)}]
  /\ Goto("rename")
  /\ UNCHANGED <<release, dir, disk, phase, seen, left, floor, medium, state, verified, slot,
                 recorded, uses, faults>>

\* rename over the state file, which a power cut may leave half done.
Rename ==
  /\ Writing("rename")
  /\ Change(medium, [main |-> Whole(write.st), new |-> Absent],
            {[main |-> Absent, new |-> x] : x \in sure[medium]}
              \cup {[main |-> x, new |-> Absent] : x \in sure[medium]})
  /\ Goto("dirsync")
  /\ UNCHANGED <<release, sure, phase, seen, left, floor, medium, state, verified, slot,
                 recorded, uses, faults>>

\* The sync of the directory, after which write_state returns Ok.
SyncDir ==
  /\ Writing("dirsync")
  /\ disk' = [disk EXCEPT ![medium] = {dir[medium]}]
  /\ recorded' = [recorded EXCEPT ![medium] = write.st.floor]
  /\ Return(TRUE)
  /\ UNCHANGED <<release, dir, sure, seen, left, floor, medium, slot, faults>>

\* A step of write_state (or the remount before it) fails.  Beside a state file
\* the partial .new is removed.
WriteFails ==
  /\ phase = "write"
  /\ Fault
  /\ IF write.step # "promote" /\ dir[medium].main.is # "absent"
       THEN Change(medium, [dir[medium] EXCEPT !.new = Absent], {})
       ELSE UNCHANGED <<dir, disk>>
  /\ Return(FALSE)
  /\ UNCHANGED <<release, sure, seen, left, floor, medium, slot, recorded>>

-----------------------------------------------------------------------------
(***************************************************************************)
(* Stage 1.                                                                *)
(***************************************************************************)

Down == phase' = "down" /\ UNCHANGED stage

\* discover, and the floor that applies: the highest on any medium found.  A
\* medium whose state cannot be read stops the boot.
Discover ==
  /\ phase = "off"
  /\ \E found \in SUBSET Media :
       /\ IF found = Media THEN UNCHANGED faults ELSE Fault
       /\ IF found = {} \/ \E m \in found : Read(dir[m]).is = "torn"
            THEN Down
            ELSE /\ phase' = "select"
                 /\ seen' = found /\ left' = found
                 /\ floor' = Max({Read(dir[m]).st.floor : m \in found})
                 /\ UNCHANGED <<medium, state, verified, slot, write>>
  /\ UNCHANGED <<release, files, recorded, uses>>

DiscoverFails ==
  /\ phase = "off"
  /\ Fault
  /\ Down
  /\ UNCHANGED <<release, files, recorded, uses>>

\* Mutant: the medium's own floor applies to its slots.
StateUnderFloor_Own(m) == Read(dir[m]).st

\* The state of a medium as stage 1 uses it.  Nothing has changed the medium
\* since discover read it.
StateUnderFloor(m) == RaiseFloor(Read(dir[m]).st, floor)

\* try_medium up to its loop: the manifests are read (some may be unreadable)
\* and verified against the floor.
TryMedium ==
  /\ phase = "select"
  /\ \E m \in left, unread \in SUBSET Slots :
       /\ IF unread = {} THEN UNCHANGED faults ELSE Fault
       /\ medium' = m
       /\ left' = left \ {m}
       /\ state' = StateUnderFloor(m)
       /\ verified' = {s \in Slots \ unread : ManifestOk(release[m][s], state'.floor)}
  /\ phase' = "try"
  /\ UNCHANGED <<release, files, seen, floor, slot, write, recorded, uses>>

MediumUnmountable ==
  /\ phase = "select"
  /\ Fault
  /\ \E m \in left : left' = left \ {m}
  /\ UNCHANGED <<release, files, phase, seen, floor, medium, state, verified, slot, write,
                 recorded, uses>>

NothingBooted ==
  /\ phase = "select" /\ left = {}
  /\ Down
  /\ UNCHANGED <<release, files, recorded, uses, faults>>

Candidates == Bootable(state, verified, release[medium])

NoSlot ==
  /\ phase = "try" /\ Candidates = {}
  /\ phase' = "select"
  /\ UNCHANGED <<release, files, stage, recorded, uses, faults>>

\* Mutant: the slot is used before its try is recorded.
Use_Unrecorded(s) ==
  /\ phase' = "run"
  /\ state' = SpendTry(state, s)
  /\ uses' = IF state.slots[s].successful THEN uses ELSE [uses EXCEPT ![medium][s] = @ + 1]
  /\ UNCHANGED write

\* Mutant: the floor is raised when the update is tried, not when it is proven.
Use_RaisesFloor(s) ==
  LET next == RaiseFloor(SpendTry(state, s), release[medium][s].minEpoch) IN
  IF next = state
    THEN phase' = "run" /\ UNCHANGED <<state, uses, write>>
    ELSE Persist(next, "try") /\ UNCHANGED <<state, uses>>

\* A proven slot is used at once, an unproven one when its try is on record.
Use(s) ==
  IF SpendTry(state, s) = state
    THEN phase' = "run" /\ UNCHANGED <<state, uses, write>>
    ELSE Persist(SpendTry(state, s), "try") /\ UNCHANGED <<state, uses>>

\* One turn of the loop of try_medium: the image of the chosen slot is loaded.
LoadImage ==
  /\ phase = "try" /\ Candidates # {}
  /\ LET s == Choice(state, Candidates)
         r == release[medium][s]
     IN  \E first \in Answers(r, "first"), second \in Answers(r, "confirming") :
           /\ slot' = s
           /\ faults' = IF {first, second} = {Genuine(r)} THEN faults ELSE faults + 1
           /\ CASE Confirm(first, second) = "verified" ->
                     Use(s) /\ UNCHANGED verified
                [] Confirm(first, second) = "io" ->
                     /\ verified' = verified \ {s}
                     /\ UNCHANGED <<phase, state, uses, write>>
                [] Confirm(first, second) = "bad" ->
                     /\ verified' = verified \ {s}
                     /\ state' = MarkBad(state, s)
                     /\ Persist(MarkBad(state, s), "bad")
                     /\ UNCHANGED uses
  /\ UNCHANGED <<release, files, seen, left, floor, medium, recorded>>

-----------------------------------------------------------------------------
(***************************************************************************)
(* Stage 2.                                                                *)
(***************************************************************************)

\* The image cannot be attached, mounted or started.
RunFails ==
  /\ phase = "run"
  /\ Fault
  /\ Down
  /\ UNCHANGED <<release, files, recorded, uses>>

Unhealthy ==
  /\ phase = "run" /\ ~release[medium][slot].healthy
  /\ Down
  /\ UNCHANGED <<release, files, recorded, uses, faults>>

\* Mutant: the floor stage 1 applied is not carried over to the medium.
Proven_OwnFloor(m, s) == MarkSuccessful(Read(dir[m]).st, s, release[m][s])

\* The state stage 2 writes for a slot that passed its checks.
Proven(m, s) == MarkSuccessful(RaiseFloor(Read(dir[m]).st, floor), s, release[m][s])

Prove ==
  /\ phase = "run" /\ release[medium][slot].healthy
  /\ Read(dir[medium]).is = "whole"
  /\ Persist(Proven(medium, slot), "success")
  /\ UNCHANGED <<release, files, seen, left, floor, medium, state, verified, slot,
                 recorded, uses, faults>>

\* The medium cannot be mounted, or its state cannot be read, by stage 2.
ProveFails ==
  /\ phase = "run" /\ release[medium][slot].healthy
  /\ IF Read(dir[medium]).is = "torn" THEN UNCHANGED faults ELSE Fault
  /\ phase' = "ready"
  /\ UNCHANGED <<release, files, stage, recorded, uses>>

-----------------------------------------------------------------------------
\* The machine stops without notice and what it had in memory is gone.
Lose ==
  /\ dir' \in {d \in [Media -> UNION {disk[m] : m \in Media}] :
                 \A m \in Media : d[m] \in disk[m]}
  /\ disk' = [m \in Media |-> {dir'[m]}]
  /\ sure' = [m \in Media |-> {dir'[m].new}]
  /\ phase' = "off"
  /\ seen' = {} /\ left' = {} /\ floor' = 0
  /\ medium' = CHOOSE m \in Media : TRUE
  /\ state' = FreshState /\ verified' = {} /\ slot' = 1 /\ write' = NoWrite
  /\ UNCHANGED <<release, recorded, uses>>

\* Someone switches a machine that stands still, or works, off and on.
Restart == phase \in {"down", "ready", "proved"} /\ Lose /\ UNCHANGED faults

PowerCut == phase \notin {"off", "down", "ready", "proved"} /\ Fault /\ Lose

\* A medium comes with the state file of `jlr-release state`, or with none.
Provisioned ==
  {Whole(StateCommand(i, low)) : i \in Installs, low \in Floors}
    \cup {Absent}

Init ==
  /\ release \in [Media -> [Slots -> Releases]]
  /\ dir \in [Media -> {[main |-> x, new |-> Absent] : x \in Provisioned}]
  /\ disk = [m \in Media |-> {dir[m]}]
  /\ sure = [m \in Media |-> {Absent}]
  /\ phase = "off"
  /\ seen = {} /\ left = {} /\ floor = 0
  /\ medium = CHOOSE m \in Media : TRUE
  /\ state = FreshState /\ verified = {} /\ slot = 1 /\ write = NoWrite
  /\ recorded = [m \in Media |-> Read(dir[m]).st.floor]
  /\ uses = [m \in Media |-> [s \in Slots |-> 0]]
  /\ faults = 0

WriteStep ==
  \/ Promote \/ CreateNew \/ FillNew \/ SyncNew \/ Rename \/ SyncDir \/ WriteFails

Stage1 ==
  \/ Discover \/ DiscoverFails \/ TryMedium \/ MediumUnmountable \/ NothingBooted
  \/ NoSlot \/ LoadImage

Stage2 == RunFails \/ Unhealthy \/ Prove \/ ProveFails

Running == WriteStep \/ Stage1 \/ Stage2

Next == Running \/ Restart \/ PowerCut

Spec == Init /\ [][Next]_vars

\* jlr-init goes on as long as the machine has power, and someone restarts a
\* machine that stands still.
FairSpec == Spec /\ WF_vars(Running) /\ WF_vars(Restart)

-----------------------------------------------------------------------------
(***************************************************************************)
(* What the boot chain promises.                                           *)
(***************************************************************************)

\* Whatever a power cut leaves of a medium, its state file is there whole or not at
\* all, because .new is synced before it replaces anything, and the state read from
\* it has at least the floor that was last recorded: no interrupted or failed
\* write_state lowers the floor.
FloorKept ==
  \A m \in Media : \A d \in disk[m] :
    /\ d.main.is # "torn"
    /\ Read(d).is = "whole" => Read(d).st.floor >= recorded[m]

\* No release runs whose epoch is below the floor recorded on any medium that was
\* attached, whichever medium it came from; and once stage 2 has recorded a success,
\* its medium carries the highest of these floors, so that taking the others away
\* lowers nothing.
NoRollback ==
  \A m \in seen :
    /\ phase \in {"run", "ready", "proved"} => release[medium][slot].epoch >= recorded[m]
    /\ phase = "proved" => recorded[medium] >= recorded[m]

\* An update that never proves itself is started at most DEFAULT_TRIES times,
\* whatever crashes and failed writes come between.
TriesBounded ==
  \A m \in Media, s \in Slots : uses[m][s] <= DefaultTries

\* The states a power cut may leave of m in which slot s is retired.
Retired(m, s) == {d \in disk[m] : Read(d).is = "whole" /\ Read(d).st.slots[s].priority = 0}

\* No sequence of I/O errors and flaky reads retires a slot whose content is
\* good.
GoodSlotKept ==
  [][\A m \in Media, s \in Slots :
       release[m][s].content = "good" /\ Retired(m, s) = {} => Retired(m, s)' = {}]_vars

\* On medium m, as d leaves it, a good proven slot may boot under the floor low.
HasFallback(m, d, low) ==
  /\ Read(d).is = "whole"
  /\ \E s \in Slots :
       /\ Read(d).st.slots[s].priority > 0 /\ Read(d).st.slots[s].successful
       /\ release[m][s].content = "good" /\ release[m][s].healthy
       /\ ManifestOk(release[m][s], low)

\* Whatever a power cut leaves of the media, one of them has such a slot under
\* the highest of their floors.
Rescuable ==
  \A d \in {d \in [Media -> UNION {disk[m] : m \in Media}] :
              \A m \in Media : d[m] \in disk[m]} :
    \E m \in Media : HasFallback(m, d[m], Max({Read(d[k]).st.floor : k \in Media}))

\* No step takes away the last slot a machine can fall back to: a floor is
\* raised only together with the success of the slot that satisfies it.
NeverStranded == [][Rescuable => Rescuable']_vars

\* Every slot that is marked successful would pass its checks again.  For slot
\* a of a fresh state nothing but the operator's word says so.
ProvenHealthy ==
  \A m \in Media : \A s \in Slots :
    Read(dir[m]).st.slots[s].successful => release[m][s].healthy

\* A machine that has a slot to fall back to comes up again and again, also when
\* the updates on it are bad or never healthy.
ComesUp == Rescuable /\ ProvenHealthy => []<>(phase \in {"ready", "proved"})
=============================================================================
