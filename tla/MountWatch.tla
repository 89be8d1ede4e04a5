----------------------------- MODULE MountWatch -----------------------------
(***************************************************************************)
(* crates/jlrd/src/main.rs: how the daemon finds the file systems it has   *)
(* to mark for the exec gate, at its start and, on a thread of its own, at *)
(* every change of the mount table.                                        *)
(*                                                                         *)
(* A mount point holds a stack of mounted file systems, of which only the  *)
(* top is reachable; a mark belongs to the mounted file system, not to the *)
(* device or the mount point, and goes with it.  The watcher's steps       *)
(* interleave with mounts and unmounts.                                    *)
(***************************************************************************)
EXTENDS Naturals, Sequences, FiniteSets

CONSTANTS
  Points,      \* mount points
  Real,        \* devices with a real file system
  Opaque,      \* those of Real that root cannot examine
  Pseudo,      \* file systems of a type in PSEUDO_FS, none of them in Real
  MaxChanges,  \* mounts and unmounts
  MaxErrors,   \* failures to read the mount table
  MaxRefused   \* marks the kernel refuses

VARIABLES
  mounts,   \* per point, the file systems mounted there, the top one last
  marks,    \* the mounted file systems that carry a mark
  raised,   \* the table differs from the state poll last reported
  watcher,  \* [at, first, retry, paths (read, then chosen), any (was marked)]
  known,    \* the paths marked last time; only the message depends on it
  refused,  \* file systems whose last mark the kernel refused
  changes, errors, refusals

vars == <<mounts, marks, raised, watcher, known, refused, changes, errors, refusals>>
environment == <<mounts, raised, changes>>

Mounted(ms) == UNION {{ms[p][i] : i \in DOMAIN ms[p]} : p \in Points}
Top(p) == mounts[p][Len(mounts[p])]
Visible == {d \in Real : \E p \in Points : mounts[p] # <<>> /\ Top(p) = d}

-----------------------------------------------------------------------------
\* The mount table.

Changed(ms) ==
  /\ changes < MaxChanges /\ changes' = changes + 1
  /\ mounts' = ms /\ raised' = TRUE
  /\ marks' = marks \cap Mounted(ms) /\ refused' = refused \cap Mounted(ms)
  /\ UNCHANGED <<watcher, known, errors, refusals>>

Mount == \E p \in Points, d \in Real \cup Pseudo : Len(mounts[p]) < 2 /\ Changed([mounts EXCEPT ![p] = Append(@, d)])

Unmount ==
  \E p \in Points : mounts[p] # <<>> /\ Changed([mounts EXCEPT ![p] = SubSeq(@, 1, Len(@) - 1)])

-----------------------------------------------------------------------------
\* mount_watcher and the start of run

Goto(at) == watcher' = [watcher EXCEPT !.at = at]

\* wait_changed: the change is reported once.  Without one, the wait ends with
\* the timeout, and only a retry goes on.
Poll ==
  /\ watcher.at = "poll" /\ (raised \/ watcher.retry)
  /\ raised' = FALSE
  /\ Goto("read")
  /\ UNCHANGED <<mounts, marks, known, refused, changes, errors, refusals>>

\* A bug: a table that could not be read is left until the next change.
WaitForNext(w) == [w EXCEPT !.at = "poll", !.retry = FALSE]

\* At the start the daemon gives up; the watcher keeps the marks and tries again.
unread(w) == IF w.first THEN [w EXCEPT !.at = "stopped"] ELSE [w EXCEPT !.at = "poll", !.retry = TRUE]

ReadFails ==
  /\ watcher.at = "read" /\ errors < MaxErrors /\ errors' = errors + 1
  /\ watcher' = unread(watcher)
  /\ UNCHANGED <<mounts, marks, raised, known, refused, changes, refusals>>

\* The points of file systems of a real type.
parse_mountinfo == {p \in Points : \E i \in DOMAIN mounts[p] : mounts[p][i] \in Real}

\* discover_marks reads the table.
Read ==
  /\ watcher.at = "read"
  /\ watcher' = [watcher EXCEPT !.at = "examine", !.paths = parse_mountinfo]
  /\ UNCHANGED <<marks, known, refused, errors, refusals, environment>>

\* A bug: a path that carried a mark before is not marked again.
SkipKnown(ps) == ps \ known

\* Everything currently mounted is marked again.
ToMark(ps) == ps

\* It examines each of them and takes one path for every device.  A point with
\* nothing mounted any more belongs to the file system below it.
Examine ==
  /\ watcher.at = "examine"
  /\ \E ps \in SUBSET {p \in watcher.paths : mounts[p] # <<>> /\ Top(p) \notin Opaque} :
       /\ \A p, q \in ps : Top(p) = Top(q) => p = q
       /\ \A p \in watcher.paths : mounts[p] # <<>> /\ Top(p) \notin Opaque => \E q \in ps : Top(q) = Top(p)
       /\ watcher' = [watcher EXCEPT !.at = "mark", !.retry = FALSE, !.paths = ToMark(ps), !.any = FALSE]
       /\ known' = ps
  /\ UNCHANGED <<marks, refused, errors, refusals, environment>>

\* mark_filesystems, one path: whatever is on top there by now.
Mark ==
  /\ watcher.at = "mark"
  /\ \E p \in watcher.paths :
       /\ watcher' = [watcher EXCEPT !.paths = @ \ {p}, !.any = TRUE]
       /\ IF mounts[p] = <<>> THEN UNCHANGED <<marks, refused>>
          ELSE marks' = marks \cup {Top(p)} /\ refused' = refused \ {Top(p)}
  /\ UNCHANGED <<known, errors, refusals, environment>>

MarkRefused ==
  /\ watcher.at = "mark" /\ refusals < MaxRefused /\ refusals' = refusals + 1
  /\ \E p \in watcher.paths :
       /\ watcher' = [watcher EXCEPT !.paths = @ \ {p}]
       /\ refused' = refused \cup (IF mounts[p] = <<>> THEN {} ELSE {Top(p)} \ marks)
  /\ UNCHANGED <<marks, known, errors, environment>>

\* At the start no mark at all is an error; otherwise the watcher starts with a retry due.
Marked ==
  /\ watcher.at = "mark" /\ watcher.paths = {}
  /\ watcher' = IF watcher.first /\ ~watcher.any THEN [watcher EXCEPT !.at = "stopped"]
                ELSE [watcher EXCEPT !.at = "poll", !.retry = watcher.first, !.first = FALSE]
  /\ UNCHANGED <<marks, known, refused, errors, refusals, environment>>

-----------------------------------------------------------------------------
\* The table has been opened, which sets what poll compares it with.
Init ==
  /\ mounts \in [Points -> {<<>>} \cup {<<d>> : d \in Real}]
  /\ marks = {} /\ raised = FALSE /\ known = {} /\ refused = {}
  /\ watcher = [at |-> "read", first |-> TRUE, retry |-> FALSE, paths |-> {}, any |-> FALSE]
  /\ changes = 0 /\ errors = 0 /\ refusals = 0

Watch == Poll \/ ReadFails \/ Read \/ Examine \/ Mark \/ MarkRefused \/ Marked

Next == Mount \/ Unmount \/ Watch

Spec == Init /\ [][Next]_vars

\* The watcher's thread is scheduled.
FairSpec == Spec /\ WF_vars(Watch)

-----------------------------------------------------------------------------
\* main.rs: unmarked means ungated.  A real file system that stays mounted is gated
\* at last and from then on, although the table may be unreadable for a while, mounts
\* come between reading it, choosing one path per device, and marking, and an earlier
\* mount of the same device took its mark along when it went; except one that root
\* cannot examine or whose mark the kernel refused.
GatedAtLast ==
  \A d \in Real \ Opaque :
    <>[](d \in Visible) => <>[](watcher.at = "stopped" \/ d \in marks \cup refused)
=============================================================================
