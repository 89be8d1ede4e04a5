------------------------------ MODULE ExecGate ------------------------------
(***************************************************************************)
(* crates/jlrd: the thread that answers exec events from a cache of        *)
(* verdicts or by asking the engine, the watcher that notices changes of   *)
(* the signed state, the rescan thread, and the operators and other        *)
(* processes that contend for the ledger lock with them.                   *)
(*                                                                         *)
(* The engine is external here: a file may run when its content is the one *)
(* the signed state grants, the grant has not expired and the evidence for *)
(* it is good.  Entries of the cache carry ghosts: the content that was    *)
(* measured, the signed state and the evidence it was decided under, how   *)
(* long after the decision the entry was made, and how long the machine    *)
(* had been suspended by then.                                             *)
(***************************************************************************)
EXTENDS Naturals, FiniteSets

CONSTANTS
  Files,        \* inodes
  Users,        \* who executes: "root", "user", or the daemon "self"
  FailClosed,   \* --fail-closed
  ForceAudit,   \* --audit
  MaxEdits,     \* bound on changes of a file
  MaxSigned,    \* bound on changes of the signed state
  MaxTries,     \* bound on the generations in which an operator starts a change
  MaxDrift,     \* bound on changes of the evidence for a file
  MaxTime,      \* bound on the wall clock
  MaxSleep,     \* bound on time spent suspended
  Hour,         \* longest time an entry is answered from
  Lifetime,     \* of a grant, and of evidence
  CacheLimit,   \* entries of the cache
  QueueLimit    \* length of pending_events

ASSUME GateAssumption ==
  /\ {FailClosed, ForceAudit} \subseteq BOOLEAN /\ Users \subseteq {"root", "user", "self"}
  /\ {MaxEdits, MaxSigned, MaxTries, MaxDrift, MaxTime, MaxSleep, CacheLimit, QueueLimit} \subseteq Nat
  /\ {Hour, Lifetime} \subseteq Nat \ {0}

Execs == Files \X Users
NoEntry == [stamp |-> 0, generation |-> 0, allow |-> FALSE, expires |-> 0, valid_until |-> 0,
            content |-> 0, version |-> 0, drift |-> 0, late |-> 0, asleep |-> 0]
NoExec == <<"none", "root">>
NoVerdict == [allowed |-> FALSE, enforce |-> FALSE, max_age |-> 0, content |-> 0, version |-> 0,
              drift |-> 0, decided |-> 0]

VARIABLES
  stamp,       \* per file: its stamp; every content has a stamp of its own
  drift,       \* per file: how often the evidence for it changed
  signed,      \* the signed state: [version, content, enforce, until]
  wall, mono,  \* the two clocks
  lock,        \* the ledger lock: "free" or who holds it ("operator")
  notify,      \* inotify has something to read
  known,       \* per file: whether the ledger has it in a state that may run
  held,        \* exec events the kernel holds
  gate,        \* the gate thread: [at, fan, g, batch, exec, stamp, verdict, reply]
  cache, generation, seen_gen, enforce_hint, queue,
  rescan,      \* the rescan thread: [todo, changed, seen]
  published    \* ghost: per file, the evidence a finished rescan pass has seen change

machine == <<stamp, drift, signed, wall, mono>>
daemon == <<cache, generation, seen_gen, enforce_hint, queue>>
vars == <<machine, lock, notify, known, held, gate, daemon, rescan, published>>

-----------------------------------------------------------------------------
(***************************************************************************)
(* The engine, as the daemon uses it.                                      *)
(***************************************************************************)

Allowed(f) == stamp[f] = signed.content /\ drift[f] % 2 = 0 /\ wall < signed.until

\* ExecVerdict of decide_exec: a file that cannot be measured is not allowed, for a short time.
Verdict(f, measured) ==
  [allowed |-> measured /\ Allowed(f), enforce |-> signed.enforce,
   max_age |-> IF ~measured THEN 1
               ELSE IF wall < signed.until THEN signed.until - wall ELSE Lifetime,
   content |-> stamp[f], version |-> signed.version, drift |-> drift[f], decided |-> wall]

\* decide: the verdict turned into allow or deny.
Enforced(on) == on /\ ~ForceAudit
Lets(v) == ~(Enforced(v.enforce) /\ ~v.allowed)

Least(a, b) == IF a < b THEN a ELSE b

-----------------------------------------------------------------------------
(***************************************************************************)
(* The gate thread.                                                        *)
(***************************************************************************)

Goto(at) == gate' = [gate EXCEPT !.at = at]

Poll ==
  /\ gate.at = "poll"
  /\ gate' = [gate EXCEPT !.at = IF notify THEN "drain" ELSE "load", !.fan = held # {}]
  /\ UNCHANGED <<machine, lock, notify, known, held, daemon, rescan, published>>

\* A bug: the generation is not raised.
DrainQuietly == notify' = FALSE /\ UNCHANGED generation

\* The events are read first, then the generation is raised.
drained == notify' = FALSE /\ generation' = generation + 1

Drain ==
  /\ gate.at = "drain"
  /\ drained /\ Goto("hint")
  /\ UNCHANGED <<machine, lock, known, held, cache, seen_gen, enforce_hint, queue, rescan, published>>

\* The mode is kept when the engine cannot be opened in time.
Hint ==
  /\ gate.at = "hint"
  /\ enforce_hint' \in {enforce_hint} \cup (IF lock = "free" THEN {Enforced(signed.enforce)} ELSE {})
  /\ Goto("load")
  /\ UNCHANGED <<machine, lock, notify, known, held, cache, generation, seen_gen, queue, rescan,
                 published>>

Full == Cardinality({f \in Files : cache[f] # NoEntry}) > CacheLimit

\* The generation of the batch; a cache of another generation, or too large a one, is dropped.
Load ==
  /\ gate.at = "load"
  /\ gate' = [gate EXCEPT !.g = generation,
                          !.at = IF gate.fan THEN "batch" ELSE "flush",
                          !.batch = IF gate.fan THEN held ELSE {},
                          !.fan = FALSE]
  /\ seen_gen' = generation
  /\ cache' = IF generation = seen_gen /\ ~Full THEN cache ELSE [f \in Files |-> NoEntry]
  /\ UNCHANGED <<machine, lock, notify, known, held, generation, enforce_hint, queue, rescan,
                 published>>

\* write_response, and on to the next event of the batch.
Respond(e, allow) ==
  /\ held' = held \ {e}
  /\ gate' = [gate EXCEPT !.at = "batch", !.batch = @ \ {e}, !.exec = NoExec, !.stamp = 0,
                          !.verdict = NoVerdict, !.reply = IF allow THEN "allow" ELSE "deny"]

Hit(c, f) == c.stamp = stamp[f] /\ c.generation = gate.g /\ mono < c.expires

\* A bug: a throttled user is answered from a verdict however old it is.
EndlessVerdict(c, f) ==
  \/ c.stamp = stamp[f] /\ c.generation = gate.g /\ c.allow
  \/ ~enforce_hint

throttled_answer(c, f) ==
  \/ c.stamp = stamp[f] /\ c.generation = gate.g /\ c.allow /\ wall < c.valid_until
  \/ ~enforce_hint

Take ==
  /\ gate.at = "batch"
  /\ \E e \in gate.batch :
       LET f == e[1]
           c == cache[f]
       IN  \/ e[2] = "self" /\ Respond(e, TRUE)
           \/ Hit(c, f) /\ Respond(e, c.allow)
           \/ ~Hit(c, f) /\ e[2] = "user" /\ Respond(e, throttled_answer(c, f))
           \/ ~Hit(c, f) /\ gate' = [gate EXCEPT !.at = "decide", !.exec = e, !.stamp = stamp[f], !.reply = "none"]
              /\ UNCHANGED held
           \/ Respond(e, ~FailClosed)
  /\ UNCHANGED <<machine, lock, notify, known, daemon, rescan, published>>

\* decide, with the lock.  The transitions of decide_exec are in the ledger afterwards.
Decide ==
  /\ gate.at = "decide" /\ lock = "free"
  /\ \E measured \in BOOLEAN :
       LET f == gate.exec[1] IN
       /\ gate' = [gate EXCEPT !.at = "conclude", !.verdict = Verdict(f, measured)]
       /\ known' = [known EXCEPT ![f] = IF measured THEN Allowed(f) ELSE @]
  /\ UNCHANGED <<machine, lock, notify, held, daemon, rescan, published>>

Queued == Least(queue + 1, QueueLimit)

\* A bug: the gate waits for the lock however long it takes.
WaitForEver == lock = "free" /\ queue' = queue

\* The lock did not come free in time, or the engine failed; the record is queued
\* if it cannot be written either.
record_failure == queue' = Queued \/ (lock = "free" /\ queue' = queue)

\* Nothing is cached.
DecideFails ==
  /\ gate.at = "decide"
  /\ record_failure
  /\ Respond(gate.exec, ~FailClosed)
  /\ UNCHANGED <<machine, lock, notify, known, cache, generation, seen_gen, enforce_hint, rescan,
                 published>>

Entry(v, g, at) ==
  [stamp |-> at, generation |-> g, allow |-> Lets(v),
   expires |-> mono + Least(v.max_age, Hour), valid_until |-> wall + v.max_age,
   content |-> v.content, version |-> v.version, drift |-> v.drift,
   late |-> wall - v.decided, asleep |-> wall - mono]

\* A bug: the entry gets the stamp of the moment it is made.
LateStamp(v) == Entry(v, gate.g, stamp[gate.exec[1]])

\* The entry of a verdict: the stamp was taken before the file was measured, the
\* generation before the batch.
entry(v) == Entry(v, gate.g, gate.stamp)

\* The first denial of a file is recorded with the engine opened once more (or not,
\* when the lock is held); the verdict is cached and given.
Conclude ==
  LET c == entry(gate.verdict)
      f == gate.exec[1]
  IN  /\ gate.at = "conclude"
      /\ enforce_hint' = Enforced(gate.verdict.enforce)
      /\ cache' = [cache EXCEPT ![f] = c]
      /\ Respond(gate.exec, c.allow)
      /\ UNCHANGED <<machine, lock, notify, known, generation, seen_gen, queue, rescan, published>>

BatchDone ==
  /\ gate.at = "batch" /\ gate.batch = {}
  /\ gate' = [gate EXCEPT !.at = "flush", !.reply = "none"]
  /\ UNCHANGED <<machine, lock, notify, known, held, daemon, rescan, published>>

\* Every half minute what is queued is written, if the ledger can be opened.
Flush ==
  /\ gate.at = "flush"
  /\ Goto("poll")
  /\ queue' \in {queue} \cup (IF lock = "free" THEN {0} ELSE {})
  /\ UNCHANGED <<machine, lock, notify, known, held, cache, generation, seen_gen, enforce_hint,
                 rescan, published>>

\* SIGTERM, or an error of read_events: the kernel lets go of every exec it holds.
Stop ==
  /\ gate.at = "poll"
  /\ Goto("stopped") /\ held' = {}
  /\ queue' \in {queue} \cup (IF lock = "free" THEN {0} ELSE {})
  /\ UNCHANGED <<machine, lock, notify, known, cache, generation, seen_gen, enforce_hint, rescan,
                 published>>

-----------------------------------------------------------------------------
(***************************************************************************)
(* The rescan thread: one slice of files after the other, each with the    *)
(* lock; the generation is raised after the pass.                          *)
(***************************************************************************)

Resting == rescan.todo = {}

RescanBegin ==
  /\ Resting /\ rescan' = [todo |-> Files, changed |-> FALSE, seen |-> published]
  /\ UNCHANGED <<machine, lock, notify, known, held, gate, daemon, published>>

\* A bug: the pass ends and the generation stays.
QuietSlice(f, found) ==
  LET seen == IF found THEN [rescan.seen EXCEPT ![f] = drift[f]] ELSE rescan.seen
  IN  /\ rescan' = [todo |-> rescan.todo \ {f}, changed |-> FALSE, seen |-> seen]
      /\ UNCHANGED generation
      /\ published' = IF rescan.todo = {f} THEN seen ELSE published

\* The last slice ends the pass.
slice(f, found) ==
  LET seen == IF found THEN [rescan.seen EXCEPT ![f] = drift[f]] ELSE rescan.seen
      changed == rescan.changed \/ found
      last == rescan.todo = {f}
  IN  /\ rescan' = [todo |-> rescan.todo \ {f}, changed |-> changed /\ ~last, seen |-> seen]
      /\ generation' = generation + (IF last /\ changed THEN 1 ELSE 0)
      /\ published' = IF last THEN seen ELSE published

RescanSlice ==
  /\ \E f \in rescan.todo :
       \/ /\ lock = "free"
          /\ slice(f, known[f] # Allowed(f))
          /\ known' = [known EXCEPT ![f] = Allowed(f)]
       \/ lock # "free" /\ slice(f, FALSE) /\ UNCHANGED known
  /\ UNCHANGED <<machine, lock, notify, held, gate, cache, seen_gen, enforce_hint, queue>>

-----------------------------------------------------------------------------
(***************************************************************************)
(* The rest of the machine.                                                *)
(***************************************************************************)

\* An operator opens the engine and writes a signed file, which inotify reports.
OperatorBegin ==
  /\ lock = "free" /\ signed.version < MaxSigned /\ generation <= MaxTries
  /\ lock' = "operator" /\ notify' = TRUE
  /\ UNCHANGED <<machine, known, held, gate, daemon, rescan, published>>

\* The new state is in force when the lock is released, or nothing changed.
OperatorEnd ==
  /\ lock = "operator" /\ lock' = "free"
  /\ \/ UNCHANGED signed
     \/ \E c \in 0 .. MaxEdits, on \in BOOLEAN :
          signed' = [version |-> signed.version + 1, content |-> c, enforce |-> on,
                     until |-> wall + Lifetime]
  /\ UNCHANGED <<stamp, drift, wall, mono, notify, known, held, gate, daemon, rescan, published>>

Exec ==
  /\ gate.at # "stopped"
  /\ \E e \in Execs \ held : held' = held \cup {e}
  /\ UNCHANGED <<machine, lock, notify, known, gate, daemon, rescan, published>>

Edit ==
  /\ \E f \in Files : stamp[f] < MaxEdits /\ stamp' = [stamp EXCEPT ![f] = @ + 1]
  /\ UNCHANGED <<drift, signed, wall, mono, lock, notify, known, held, gate, daemon, rescan,
                 published>>

Drift ==
  /\ \E f \in Files : drift[f] < MaxDrift /\ drift' = [drift EXCEPT ![f] = @ + 1]
  /\ UNCHANGED <<stamp, signed, wall, mono, lock, notify, known, held, gate, daemon, rescan,
                 published>>

\* Time passes, for the machine or only for the wall clock while it is suspended.
Tick ==
  /\ wall < MaxTime /\ wall' = wall + 1
  /\ mono' = mono + 1 \/ (wall - mono < MaxSleep /\ mono' = mono)
  /\ UNCHANGED <<stamp, drift, signed, lock, notify, known, held, gate, daemon, rescan, published>>

Init ==
  /\ stamp = [f \in Files |-> 0] /\ drift = [f \in Files |-> 0]
  /\ signed = [version |-> 0, content |-> 0, enforce |-> TRUE, until |-> Lifetime]
  /\ wall = 0 /\ mono = 0 /\ lock = "free" /\ notify = FALSE
  /\ known = [f \in Files |-> FALSE] /\ held = {}
  /\ gate = [at |-> "poll", fan |-> FALSE, g |-> 1, batch |-> {}, exec |-> NoExec, stamp |-> 0,
             verdict |-> NoVerdict, reply |-> "none"]
  /\ cache = [f \in Files |-> NoEntry] /\ generation = 1 /\ seen_gen = 1
  /\ enforce_hint = Enforced(TRUE) /\ queue = 0
  /\ rescan = [todo |-> {}, changed |-> FALSE, seen |-> [f \in Files |-> 0]]
  /\ published = [f \in Files |-> 0]

GateStep == Poll \/ Drain \/ Hint \/ Load \/ Take \/ Decide \/ DecideFails \/ Conclude \/ BatchDone \/ Flush

Next ==
  \/ GateStep \/ Stop \/ RescanBegin \/ RescanSlice
  \/ OperatorBegin \/ OperatorEnd \/ Exec \/ Edit \/ Drift \/ Tick

Spec == Init /\ [][Next]_vars

\* The gate thread runs; waiting for the lock ends by timeout.
FairSpec == Spec /\ WF_vars(GateStep)

-----------------------------------------------------------------------------
(***************************************************************************)
(* Properties.                                                             *)
(***************************************************************************)

\* Entries the running batch may be answered from.
Usable(c) == gate.at \in {"batch", "decide", "conclude"} /\ c.generation = gate.g

\* Unless inotify has more to read, what the gate answers from was decided under
\* the signed state now in force: the file is written, and reported, before the
\* lock is released, and the generation is fixed before the lock is taken.
CacheFresh ==
  \A f \in Files : Usable(cache[f]) /\ ~notify => cache[f].version = signed.version

\* A pass of rescan_loop that moved an artifact puts an end to the verdicts decided
\* on the evidence before: once a batch has begun after the pass, none is in use.
RescanHonoured ==
  \A f \in Files : Usable(cache[f]) /\ gate.g = generation => cache[f].drift >= published[f]

\* An exec of f is about to be allowed, if it is answered without being measured, and
\* not because the daemon takes the policy to be in audit mode.
AllowedUnmeasured(f) ==
  LET c == cache[f]
  IN  /\ gate.at = "batch" /\ \E e \in gate.batch : e[1] = f /\ e[2] # "self"
      /\ IF Hit(c, f) THEN c.allow ELSE enforce_hint /\ throttled_answer(c, f)

\* An exec that is allowed without being measured, under an enforcing policy, would
\* be allowed if it were: its content is the one the signed state now in force
\* grants, the evidence was good when it was measured, and the grant has not ended.
\* Its end is missed by no more than the time from the decision to the entry (the
\* lifetime is counted again from there), and on a hit by the time the machine was
\* suspended since, in which the monotonic clock of `expires` stands still.
UnmeasuredIsEarned ==
  \A f \in Files :
    LET c == cache[f]
        now == IF Hit(c, f) THEN mono + c.asleep ELSE wall
    IN  AllowedUnmeasured(f) /\ ~notify /\ Enforced(signed.enforce) =>
          stamp[f] = signed.content /\ c.drift % 2 = 0 /\ now < signed.until + c.late

\* main.rs on CacheEntry::valid_until: "a suspend does not stretch it", "A verdict
\* past this is not honoured, not even for a throttled user".  Only the answer to a
\* throttled user looks at it; a hit looks at the monotonic clock alone.
SuspendDoesNotStretch ==
  \A f \in Files : AllowedUnmeasured(f) => wall < cache[f].valid_until

\* Every exec is answered, or released by the kernel because the daemon stopped,
\* whoever holds the ledger lock for however long.
ExecsAnswered == \A e \in Execs : e \in held ~> e \notin held
=============================================================================
