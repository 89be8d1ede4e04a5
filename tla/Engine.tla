------------------------------- MODULE Engine -------------------------------
(***************************************************************************)
(* The state directory of crates/jlr-engine and the operations that write  *)
(* it: the ledger (of which this module keeps what Engine::open derives    *)
(* from it), the object store, the signed files of approvals and baselines,*)
(* the policy and the revocation list, and the path index.  One governed   *)
(* path is modelled; an artifact is the content found there.               *)
(*                                                                         *)
(* An operation is the sequence of writes it performs, computed from what  *)
(* it read under the ledger lock.  Between two writes it may fail, be      *)
(* killed, or lose the power: then objects that were not synced may be     *)
(* missing or cut short, any number of the events that were not synced is  *)
(* lost, and a deleted file may be back.                                   *)
(***************************************************************************)
EXTENDS Policy

CONSTANTS
  Ids,         \* artifacts: the contents the path may hold
  Grants,      \* cells an approval may name
  MaxEdits,    \* bound on changes of the file
  MaxEpoch,    \* bound on policy and revocation epochs
  MaxCrashes,  \* bound on failures, kills and power cuts
  MaxLosses    \* bound on losses of the index file

NoId == "gone"       \* nothing at the path
NoRow == [id |-> NoId, stamp |-> 0, fresh |-> FALSE, policy_epoch |-> 0]
Lost == [id |-> "lost", stamp |-> 0, fresh |-> FALSE, policy_epoch |-> 0]
Base == "baseline"   \* the subject of the one baseline
Subjects == Ids \cup {Base}
NoFile == <<NoId, {}>>
Objects == {"epn", "evidence"} \X Ids

ASSUME EngineAssumption == Ids \cap {NoId, Lost.id, Base} = {} /\ Grants \subseteq Cells

VARIABLES
  content, stamp,  \* the file at the path: what it holds, how often it was changed
  log,             \* what open derives from the durable events, then from one more of
                   \* the events not synced each: a power cut leaves any of these
  objects,         \* the object store: each object "none", "torn" or "ok"
  dirty,           \* objects whose data is not durable
  files, ghosts,   \* signed files <<subject, what it grants>>; deleted, not durably
  policy,          \* epoch of the policy file
  list,            \* the revocation list file: [epoch, ids]
  index,           \* the index file: a row, NoRow or Lost
  todo,            \* writes the current operation has left
  crashes, losses

world == <<content, stamp>>
store == <<objects, dirty>>
signed == <<files, ghosts>>
vars == <<world, log, store, signed, policy, list, index, todo, crashes, losses>>

Idle == todo = <<>>

-----------------------------------------------------------------------------
(***************************************************************************)
(* The ledger as Engine::open reads it.                                    *)
(***************************************************************************)

Transition(id, to) == [kind |-> "TRANSITION", id |-> id, to |-> to, cites |-> <<"evidence", id>>]
Discover(id) == [kind |-> "DISCOVER", id |-> id, cites |-> <<"evidence", id>>]
Mismatch(id) == [kind |-> "MISMATCH", id |-> id, cites |-> <<"evidence", id>>]
Override(f) == [kind |-> "OVERRIDE", file |-> f]
PolicyLoad(epoch) == [kind |-> "POLICY_LOAD", epoch |-> epoch]
Revocation(epoch) == [kind |-> "REVOCATION", epoch |-> epoch]

Higher(a, b) == IF a > b THEN a ELSE b

\* What one more event changes: states, the discoveries in their order, the
\* current approval of a subject, the floors and the objects cited.
Read(l, e) ==
  CASE e.kind = "TRANSITION" ->
         [l EXCEPT !.state[e.id] = e.to, !.cited = @ \cup {e.cites}]
    [] e.kind = "DISCOVER" ->
         [l EXCEPT !.found = Append(@, e.id), !.cited = @ \cup {e.cites}]
    [] e.kind = "MISMATCH" -> [l EXCEPT !.cited = @ \cup {e.cites}]
    [] e.kind = "OVERRIDE" -> [l EXCEPT !.current[e.file[1]] = e.file]
    [] e.kind = "POLICY_LOAD" -> [l EXCEPT !.policy_floor = Higher(@, e.epoch)]
    [] e.kind = "REVOCATION" -> [l EXCEPT !.rev_floor = Higher(@, e.epoch)]

\* What a process that opens the ledger now sees.
view == log[Len(log)]

-----------------------------------------------------------------------------
(***************************************************************************)
(* Decisions.  No evidence speaks for the artifacts here, so that only an  *)
(* approval or the baseline lets one run.                                  *)
(***************************************************************************)

\* Engine::approval_for over the files that open counts: those the ledger names
\* as current.
approval_for(id, current, there) ==
  LET own == current[id]
      base == current[Base]
      grant(cell) == [epn |-> id, cell |-> cell, network |-> 0, capabilities |-> {}, expires_at |-> 1]
  IN  IF own # NoFile /\ own \in there THEN grant(own[2])
      ELSE IF base # NoFile /\ base \in there /\ id \in base[2] THEN grant(2)
      ELSE NoApproval

\* The state evaluate assigns under the given authority.
StateUnder(id, evidence, current, there) ==
  evaluate(workstation(policy),
           [artifact |-> [id |-> id, digest |-> id, signer |-> "none", class |-> "EXE", provenance |-> 6],
            evidence |-> evidence, requested |-> {}, prior |-> view.state[id],
            revocations |-> {[kind |-> "EPN", target |-> x] : x \in list.ids},
            approval |-> approval_for(id, current, there)],
           0).state

evaluate_now(id) == StateUnder(id, {}, view.current, files)

Readable(id) == objects[<<"epn", id>>] = "ok"

-----------------------------------------------------------------------------
(***************************************************************************)
(* Writes.                                                                 *)
(***************************************************************************)

Put(kind, id) == [w |-> "put", object |-> <<kind, id>>]
Log(e, sync) == [w |-> "log", event |-> e, sync |-> sync]
Flush == [w |-> "flush"]
SaveIndex(r) == [w |-> "index", row |-> r]
WriteFile(f) == [w |-> "file", file |-> f]
RemoveSuperseded(f) == [w |-> "remove", file |-> f]
WritePolicy(epoch) == [w |-> "policy", epoch |-> epoch]
WriteList(l) == [w |-> "list", list |-> l]
Revoke(moves) == IF moves = {} THEN <<>> ELSE <<[w |-> "revoke", moves |-> moves]>>

\* apply_decision: the transitions to a state, one event each.
apply_decision(id, to, sync) ==
  LET from == view.state[id]
      steps == IF from = to THEN <<>> ELSE route(IF from = NoState THEN "UNKNOWN" ELSE from, to)
  IN  [i \in DOMAIN steps |-> Log(Transition(id, steps[i]), sync)]

\* A bug: the mismatch is recorded and nothing follows from it.
OnlyReports(old, sync) ==
  IF view.state[old] = NoState THEN <<>> ELSE <<Put("evidence", old), Log(Mismatch(old), sync)>>

\* on_replaced: a record that cannot be read does not keep the artifact trusted.
on_replaced(old, sync) ==
  IF view.state[old] \in {NoState, "REVOKED", "DEGRADED", "QUARANTINED"} THEN <<>>
  ELSE <<Put("evidence", old), Log(Mismatch(old), sync)>>
       \o apply_decision(old, IF Readable(old)
                              THEN StateUnder(old, {"CONTENT_DIGEST_MISMATCH"}, view.current, files)
                              ELSE changed_content(view.state[old]), sync)

\* open with a lost index and a ledger that knows of something rebuilds the row
\* from the discoveries, latest wins, as far as their records can be read.
Forgotten == index = Lost /\ \E x \in Ids : view.state[x] # NoState

load_index ==
  LET placed == {i \in DOMAIN view.found : Readable(view.found[i])}
  IN  [NoRow EXCEPT !.id = IF placed = {} THEN NoId
                           ELSE view.found[CHOOSE i \in placed : \A j \in placed : i >= j]]

\* The row in memory.
row == IF index = Lost THEN NoRow ELSE index

\* process: what the path held before, then what it holds now.  has_object is
\* true of a torn object, put_object writes it again.
process(id, to, sync) ==
  LET is_new == objects[<<"epn", id>>] = "none" \/ view.state[id] = NoState
  IN  (IF row.id \in Ids \ {id} THEN on_replaced(row.id, sync) ELSE <<>>)
      \o <<Put("epn", id)>>
      \o (IF is_new \/ view.state[id] # to THEN <<Put("evidence", id)>> ELSE <<>>)
      \o (IF is_new THEN <<Log(Discover(id), sync)>> ELSE <<>>)
      \o apply_decision(id, to, sync)

\* The row of a measurement: the stamp was taken before the file was read.
Row(id) == [id |-> id, stamp |-> stamp, fresh |-> TRUE, policy_epoch |-> policy]

Operation(writes) == todo' = writes

-----------------------------------------------------------------------------
(***************************************************************************)
(* Operations.  Each opens the engine, which holds the ledger lock.        *)
(***************************************************************************)

Open == Idle /\ ~Forgotten

\* open notes the loss in the ledger, which makes the events durable, and saves the row.
RebuildIndex ==
  /\ Idle /\ Forgotten
  /\ log' = <<view>>
  /\ index' = load_index
  /\ UNCHANGED <<world, store, signed, policy, list, todo, crashes, losses>>

\* A bug: the age of a row is not looked at.
NeverStale ==
  /\ index.id \in Ids /\ view.state[index.id] # NoState
  /\ index.stamp = stamp /\ index.policy_epoch = policy

\* scan_files_inner passes over a file whose row is still good.
Unchanged ==
  /\ index.id \in Ids /\ view.state[index.id] # NoState
  /\ index.stamp = stamp /\ index.fresh /\ index.policy_epoch = policy

\* A bug: the index is saved before the events are durable.
IndexFirst(id) == process(id, evaluate_now(id), FALSE) \o <<SaveIndex(Row(id)), Flush>>

\* scan, decide_exec and prepare_run process in a batch, flush, save the index.
observed(id) == process(id, evaluate_now(id), FALSE) \o <<Flush, SaveIndex(Row(id))>>

disk == <<world, log, store, signed, policy, list, index, crashes, losses>>

\* A scan that has nothing to measure, and the first half of enroll_baseline.
Settle == <<Flush, SaveIndex(row)>>

scan ==
  /\ Open
  /\ Operation(IF content \in Ids /\ ~Unchanged THEN observed(content) ELSE Settle)
  /\ UNCHANGED disk

\* decide_exec measures whatever the row says, and writes only what it changed.
decide_exec ==
  /\ Open /\ content \in Ids
  /\ ~Unchanged \/ ~Readable(content) \/ view.state[content] # evaluate_now(content)
  /\ Operation(observed(content))
  /\ UNCHANGED disk

\* A bug: what an approval supersedes is removed before the event names the new file.
RemoveFirst(f) == <<WriteFile(f), RemoveSuperseded(f), Log(Override(f), TRUE)>>

\* A file of its own, the event that makes it current, removal of the older ones.
install(f) == <<WriteFile(f), Log(Override(f), TRUE), RemoveSuperseded(f)>>

With(f) == [view.current EXCEPT ![f[1]] = f]

\* approve re-evaluates with what is at the path, if the index has a row for the artifact.
approve(id, cell) ==
  LET f == <<id, cell>>
      to == StateUnder(content, {}, With(f), files \cup {f})
  IN  /\ Open /\ view.state[id] # NoState /\ Readable(id)
      /\ Operation(install(f) \o IF row.id = id /\ content \in Ids
                                 THEN process(content, to, TRUE) \o <<Flush, SaveIndex(Row(content)), Flush>>
                                 ELSE <<Flush>>)
      /\ UNCHANGED disk

\* enroll_baseline over the path, with or without its content as a member.
enroll_baseline(members) ==
  LET f == <<Base, members>>
      to == StateUnder(content, {}, With(f), files \cup {f})
  IN  /\ Open /\ members \subseteq {content}
      /\ Operation(Settle \o install(f)
                   \o (IF content \in Ids THEN process(content, to, FALSE) ELSE <<>>)
                   \o <<Flush, SaveIndex(IF content \in Ids THEN Row(content) ELSE row)>>)
      /\ UNCHANGED disk

listed(new, moves) == <<WriteList(new), Log(Revocation(new.epoch), TRUE)>> \o moves

\* What a new list moves: every known artifact it hits (older entries count too)
\* whose record can be read, and the one named by its identifier.
Moved(ids, id, by_digest) ==
  {x \in Ids : /\ view.state[x] \notin {NoState, "REVOKED"}
               /\ \/ Readable(x) /\ x \in ids
                  \/ x = id /\ ~by_digest}

\* revoke_report: by identifier, or by content digest, which needs the record.
revoke_report(id, by_digest) ==
  LET new == [epoch |-> list.epoch + 1, ids |-> list.ids \cup {id}]
  IN  /\ Open /\ list.epoch < MaxEpoch
      /\ Operation(listed(new, Revoke({<<x, apply_decision(x, "REVOKED", TRUE)>> :
                                         x \in Moved(new.ids, id, by_digest)}) \o <<Flush>>))
      /\ UNCHANGED disk

\* A bug: the event comes before the policy.
PolicyLast(epoch) == <<Log(PolicyLoad(epoch), TRUE), WritePolicy(epoch), Flush>>

policy_writes(epoch) == <<WritePolicy(epoch), Log(PolicyLoad(epoch), TRUE), Flush>>

set_policy ==
  /\ Open /\ policy < MaxEpoch
  /\ Operation(policy_writes(policy + 1))
  /\ UNCHANGED disk

-----------------------------------------------------------------------------
(***************************************************************************)
(* What a write does.                                                      *)
(***************************************************************************)

Sync ==
  /\ log' = <<view>> /\ dirty' = {} /\ ghosts' = {}

\* log_subject: outside a batch what the event cites is synced first, then the event.
append(w) ==
  IF w.sync THEN log' = <<Read(view, w.event)>> /\ dirty' = {} /\ ghosts' = {}
            ELSE log' = Append(log, Read(view, w.event)) /\ UNCHANGED <<dirty, ghosts>>

put_object(o) ==
  IF objects[o] = "ok" THEN UNCHANGED store
  ELSE objects' = [objects EXCEPT ![o] = "ok"] /\ dirty' = dirty \cup {o}

remove_superseded(f) ==
  LET old == {g \in files : g[1] = f[1]} \ {f}
  IN  files' = files \ old /\ ghosts' = ghosts \cup old

\* revoke_report turns to the next artifact of its list.
revoke_next(w) ==
  \E m \in w.moves :
    /\ put_object(<<"evidence", m[1]>>)
    /\ todo' = m[2] \o Revoke(w.moves \ {m}) \o Tail(todo)

Step ==
  LET w == Head(todo) IN
  /\ ~Idle
  /\ IF w.w = "revoke" THEN revoke_next(w) ELSE todo' = Tail(todo)
  /\ \/ w.w = "put" /\ put_object(w.object) /\ UNCHANGED <<log, signed, policy, list, index>>
     \/ w.w = "revoke" /\ UNCHANGED <<log, signed, policy, list, index>>
     \/ w.w = "log" /\ append(w) /\ UNCHANGED <<objects, files, policy, list, index>>
     \/ w.w = "flush" /\ Sync /\ UNCHANGED <<objects, files, policy, list, index>>
     \/ w.w = "index" /\ index' = w.row /\ UNCHANGED <<log, store, signed, policy, list>>
     \/ w.w = "file" /\ files' = files \cup {w.file}
        /\ ghosts' = {g \in ghosts : (g[1] = Base) # (w.file[1] = Base)}
        /\ UNCHANGED <<log, store, policy, list, index>>
     \/ w.w = "remove" /\ remove_superseded(w.file) /\ UNCHANGED <<log, store, policy, list, index>>
     \/ w.w = "policy" /\ policy' = w.epoch /\ UNCHANGED <<log, store, signed, list, index>>
     \/ w.w = "list" /\ list' = w.list /\ UNCHANGED <<log, store, signed, policy, index>>
  /\ UNCHANGED <<world, crashes, losses>>

\* The operation returns with an error before its next write: a batch of scan or
\* enroll_baseline still flushes and saves the index, decide_exec does not.  Or
\* the process is killed.
Fail ==
  /\ ~Idle /\ crashes < MaxCrashes
  /\ crashes' = crashes + 1
  /\ todo' \in {<<>>, Settle}
  /\ UNCHANGED <<world, log, store, signed, policy, list, index, losses>>

\* The power fails.  Events are a log, so a prefix of them survives.
PowerCut ==
  /\ Len(log) > 1 \/ dirty # {} \/ ghosts # {} \/ ~Idle
  /\ crashes < MaxCrashes /\ crashes' = crashes + 1
  /\ \E n \in DOMAIN log : log' = <<log[n]>>
  /\ \E left \in [dirty -> {"none", "torn", "ok"}] :
       objects' = [o \in Objects |-> IF o \in dirty THEN left[o] ELSE objects[o]]
  /\ \E back \in SUBSET ghosts : files' = files \cup back
  /\ dirty' = {} /\ ghosts' = {} /\ todo' = <<>>
  /\ UNCHANGED <<world, policy, list, index, losses>>

-----------------------------------------------------------------------------
(***************************************************************************)
(* The rest of the machine, and the specification.                         *)
(***************************************************************************)

\* The file is changed; its stamp (size, times, inode) changes with it.
Edit ==
  /\ stamp < MaxEdits
  /\ content' \in (Ids \cup {NoId}) \ {content} /\ stamp' = stamp + 1
  /\ UNCHANGED <<log, store, signed, policy, list, index, todo, crashes, losses>>

\* Time passes: valid_until of the row is over.
Age ==
  /\ Idle /\ index.fresh
  /\ index' = [index EXCEPT !.fresh = FALSE]
  /\ UNCHANGED <<world, log, store, signed, policy, list, todo, crashes, losses>>

\* The index file is deleted or damaged.
LoseIndex ==
  /\ Idle /\ index # Lost /\ losses < MaxLosses
  /\ index' = Lost /\ losses' = losses + 1
  /\ UNCHANGED <<world, log, store, signed, policy, list, todo, crashes>>

Init ==
  /\ content \in Ids /\ stamp = 0
  /\ log = <<[state |-> [x \in Ids |-> NoState], found |-> <<>>, cited |-> {},
              current |-> [x \in Subjects |-> NoFile], policy_floor |-> 1, rev_floor |-> 0]>>
  /\ objects = [o \in Objects |-> "none"] /\ dirty = {}
  /\ files = {} /\ ghosts = {} /\ policy = 1 /\ list = [epoch |-> 1, ids |-> {}]
  /\ index = Lost /\ todo = <<>> /\ crashes = 0 /\ losses = 0

Next ==
  \/ scan \/ decide_exec \/ set_policy
  \/ \E id \in Ids, cell \in Grants : approve(id, cell)
  \/ \E members \in SUBSET Ids : enroll_baseline(members)
  \/ \E id \in Ids, by_digest \in BOOLEAN : revoke_report(id, by_digest)
  \/ Step \/ Fail \/ PowerCut \/ RebuildIndex
  \/ Edit \/ Age \/ LoseIndex

Spec == Init /\ [][Next]_vars

\* An operation once begun goes on, the daemon's rescans come back for ever, a
\* lost index is rebuilt by whoever opens the engine, and time passes.
\* (Strong fairness of scan, spelled out: scan is enabled exactly when Open.)
Fairness ==
  /\ WF_vars(Step) /\ WF_vars(RebuildIndex) /\ SF_vars(Age)
  /\ []<>Open => []<><<scan>>_vars

FairSpec == Spec /\ Fairness

-----------------------------------------------------------------------------
(***************************************************************************)
(* Properties.                                                             *)
(***************************************************************************)

\* What a power cut now could leave of the ledger.
Survivors == {log[n] : n \in DOMAIN log}

\* Whatever a crash leaves of the ledger, the engine opens with the authority that
\* was in force: the file that the latest OVERRIDE event names is there
\* (docs/SOFTWARE_ADMISSION.md: "leaves the old authority in force"), and the policy
\* and the revocation list are never older than the floors open derives (I-25).
AuthorityKept ==
  \A l \in Survivors :
    /\ \A x \in Subjects : l.current[x] # NoFile => l.current[x] \in files
    /\ policy >= l.policy_floor /\ list.epoch >= l.rev_floor

\* The row of a measurement never outlives the events about what it names, however
\* often the machine crashed: decide_exec, "Ledger first, index second".  (A row
\* that open rebuilt has no policy epoch.  It may: see load_index.)
RowBehindEvents ==
  index.policy_epoch # 0 => \A l \in Survivors : l.state[index.id] # NoState

\* While nothing crashed and the index was not lost, a trusted artifact whose
\* content was replaced has left VERIFIED and ADMITTED when the engine is done
\* with the new content (I-08).
ReplacedLosesTrust ==
  Idle /\ crashes = 0 /\ losses = 0 =>
    \A x \in Ids \ {index.id} : ~permits_normal_execution(view.state[x])

\* I-08, "A change of content at a path creates a new EPN and degrades the old
\* one", when a crash comes between the ledger and the index.
ReplacementSurvivesCrash ==
  Idle /\ losses = 0 /\ Unchanged =>
    \A x \in Ids \ {index.id} : ~permits_normal_execution(view.state[x])

\* A listed artifact that stays on the disk ends up REVOKED in the ledger even
\* if the machine crashed before revoke_report moved it: scans reuse rows that
\* know nothing of the list, but no row is good for ever (I-14).
RevokedAtLast ==
  \A x \in Ids : <>[](content = x /\ x \in list.ids) => <>(view.state[x] = "REVOKED")
=============================================================================
