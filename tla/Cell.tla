-------------------------------- MODULE Cell --------------------------------
(***************************************************************************)
(* crates/jlr-cell: how a decision becomes a cell.  The launcher (jlr)     *)
(* starts the helper's stage 1, which makes the namespaces and starts      *)
(* stage 2, which applies the controls, reports over a pipe what it        *)
(* established, and only then executes the sealed program.                 *)
(*                                                                         *)
(* The three processes run concurrently, any kernel control may fail, the  *)
(* launcher may be killed at any moment and the wall-clock limit may pass  *)
(* at any moment.  The kernel sends the parent-death signal only to a      *)
(* child that asked for it while its parent lived, and forgets the request *)
(* when the child's user or group id changes, as prctl(2) says.            *)
(***************************************************************************)
EXTENDS Naturals, Sequences, FiniteSets

CONSTANT Decisions  \* the decisions launched: [state, cell, network, grants]

None == "none"
NoReport == [active |-> {}, unavailable |-> {}, status |-> None]

-----------------------------------------------------------------------------
\* spec.rs

Isolated(network) == network \in {"NONE", "LOOPBACK_ONLY"}

Supported(d) ==
  /\ d.state \in {"OBSERVED", "VERIFIED", "ADMITTED"}
  /\ d.state = "OBSERVED" => d.cell = "CELL-0"
  /\ d.cell \in {"CELL-0", "CELL-1", "CELL-2"}
  /\ d.network \notin {"MEDIATED_PROXY", "PRIVILEGED_NETWORK"}

mandatory_controls(d) ==
  {"MountNs", "PidNs", "NoNewPrivs", "CapDrop", "Seccomp"}
    \cup {c \in {"NetNs"} : Isolated(d.network)}
    \cup {c \in {"LandlockNet"} : d.network = "DESTINATION_ALLOWLIST"}

\* Cells 0 and 1 limit memory and processes, and only cell 0 has a wall-clock limit.
limited(d) == d.cell \in {"CELL-0", "CELL-1"}
wall_secs(d) == d.cell = "CELL-0"

requested_controls(d) ==
  mandatory_controls(d) \cup {"IpcNs", "UtsNs", "LandlockFs", "Rlimits"} \cup {c \in {"Cgroup"} : limited(d)}

-----------------------------------------------------------------------------
VARIABLES
  spec,      \* the decision the cell is for
  rootful,   \* the launcher runs as root: no user namespace, the workload becomes nobody
  launcher,  \* [at, result]
  stage1,    \* [at, sig (asked for the death signal in time), killed]
  stage2,    \* [at, sig, killed]; at is the next control to establish, or where it stands
  b,         \* the Builder: [active, unavailable, skipped]
  real,      \* ghost: the controls in force for stage 2, "SomeLandlockFs" if only some of LandlockFs
  pipe,      \* the report, once written
  ran,       \* ghost: the workload was executed
  expired    \* the wall-clock limit has passed

given == <<spec, rootful>>
vars == <<given, launcher, stage1, stage2, b, real, pipe, ran, expired>>

Builder == [active |-> {}, unavailable |-> {}, skipped |-> FALSE]

\* A bug: a missing mandatory control is treated like an optional one.
AnyReport(bl, d) ==
  [active |-> bl.active, unavailable |-> bl.unavailable \cup (requested_controls(d) \ bl.active),
   status |-> IF requested_controls(d) \subseteq bl.active /\ ~bl.skipped THEN "Full" ELSE "Partial"]

\* A bug: grants that were not applied are left out of the status.
SilentSkips(bl, d) ==
  [active |-> bl.active, unavailable |-> bl.unavailable \cup (requested_controls(d) \ bl.active),
   status |-> IF ~(mandatory_controls(d) \subseteq bl.active) THEN "Refused"
              ELSE IF requested_controls(d) \subseteq bl.active THEN "Full" ELSE "Partial"]

finish(bl, d) ==
  [active |-> bl.active,
   unavailable |-> bl.unavailable \cup (requested_controls(d) \ bl.active),
   status |-> IF ~(mandatory_controls(d) \subseteq bl.active) THEN "Refused"
              ELSE IF requested_controls(d) \subseteq bl.active /\ ~bl.skipped THEN "Full" ELSE "Partial"]

refuse(bl, d) == [finish([bl EXCEPT !.unavailable = @ \cup {"MountNs"}], d) EXCEPT !.status = "Refused"]

ok(bl, cs) == [bl EXCEPT !.active = @ \cup cs]
fail(bl, cs) == [bl EXCEPT !.unavailable = @ \cup cs]

Alive(p) == p.at \notin {None, "dead"}

-----------------------------------------------------------------------------
\* launch.rs

Launch ==
  /\ launcher.at = "idle"
  /\ IF Supported(spec)
     THEN launcher' = [launcher EXCEPT !.at = "reading"] /\ stage1' = [stage1 EXCEPT !.at = "start"]
     ELSE launcher' = [at |-> "done", result |-> "Unsupported"] /\ UNCHANGED stage1
  /\ UNCHANGED <<given, stage2, b, real, pipe, ran, expired>>

\* A bug: the launcher reads to the end of the pipe, which stage 1 holds open.
AtEof == pipe # NoReport /\ stage1.at = "dead"

\* One length-prefixed report is all there is to read.  Stage 1 or 2 writes it whole or
\* not at all: the answers to a length, body or record that makes no sense are not reached.
report_read == pipe # NoReport

ReadReport ==
  /\ launcher.at = "reading" /\ report_read
  /\ launcher' = IF pipe.status = "Refused" THEN [at |-> "reaping", result |-> "Refused"]
                 ELSE [at |-> "waiting", result |-> "Running"]
  /\ UNCHANGED <<given, stage1, stage2, b, real, pipe, ran, expired>>

\* End of file before a report: every holder of the pipe has gone.
ReadFails ==
  /\ launcher.at = "reading" /\ pipe = NoReport /\ stage1.at = "dead" /\ ~Alive(stage2)
  /\ launcher' = [at |-> "done", result |-> "Setup"]
  /\ UNCHANGED <<given, stage1, stage2, b, real, pipe, ran, expired>>

\* Running::wait, and the wait for a helper that refused.
Wait ==
  /\ launcher.at \in {"waiting", "reaping"} /\ stage1.at = "dead"
  /\ launcher' = [launcher EXCEPT !.at = "done"]
  /\ UNCHANGED <<given, stage1, stage2, b, real, pipe, ran, expired>>

\* The launcher is killed, or its user interrupts it.
LauncherDies ==
  /\ launcher.at \in {"reading", "waiting", "reaping"}
  /\ launcher' = [launcher EXCEPT !.at = "dead"]
  /\ stage1' = [stage1 EXCEPT !.killed = @ \/ stage1.sig]
  /\ UNCHANGED <<given, stage2, b, real, pipe, ran, expired>>

LauncherAlive == launcher.at # "dead"

-----------------------------------------------------------------------------
\* init.rs, stage 1

\* Its death reaches stage 2 if that asked in time.
Exit1 ==
  /\ stage1' = [stage1 EXCEPT !.at = "dead"]
  /\ stage2' = [stage2 EXCEPT !.killed = @ \/ (stage2.sig /\ Alive(stage2))]

Refuse1(bl) == pipe' = refuse(bl, spec) /\ Exit1 /\ UNCHANGED <<given, launcher, b, real, ran, expired>>

\* A bug: stage 1 does not ask to die with its parent.
NoDeathSignal1 == [stage1 EXCEPT !.at = "unshare"]

armed1 == [stage1 EXCEPT !.at = "unshare", !.sig = LauncherAlive]

\* set_pdeathsig, setsid
Arm1 ==
  /\ stage1.at = "start" /\ ~stage1.killed
  /\ stage1' = armed1
  /\ UNCHANGED <<given, launcher, stage2, b, real, pipe, ran, expired>>

\* unshare and the id maps, in one go or not at all; then stage 2 is started.
Unshare ==
  /\ stage1.at = "unshare" /\ ~stage1.killed
  /\ stage1' = [stage1 EXCEPT !.at = "waiting"]
  /\ stage2' = [stage2 EXCEPT !.at = "start"]
  /\ real' = {"PidNs", "IpcNs", "UtsNs"} \cup {c \in {"NetNs"} : Isolated(spec.network)}
               \cup {c \in {"UserNs"} : ~rootful}
  /\ UNCHANGED <<given, launcher, b, pipe, ran, expired>>

Stage1Fails ==
  /\ stage1.at = "unshare" /\ ~stage1.killed
  /\ \/ Refuse1(fail(Builder, {"UserNs", "MountNs", "PidNs", "IpcNs", "UtsNs", "NetNs"}))
     \/ ~rootful /\ Refuse1(fail(Builder, {"UserNs"}))
     \/ Refuse1(Builder)

\* try_wait comes before the deadline; it fails only when there is no stage 2 any more.
Reap ==
  /\ stage1.at = "waiting" /\ ~stage1.killed /\ stage2.at = "dead"
  /\ Exit1
  /\ UNCHANGED <<given, launcher, b, real, pipe, ran, expired>>

KillAfter(limit) ==
  /\ stage1.at = "waiting" /\ ~stage1.killed /\ Alive(stage2) /\ limit
  /\ stage1' = [stage1 EXCEPT !.at = "dead"]
  /\ stage2' = [stage2 EXCEPT !.at = "dead"]
  /\ UNCHANGED <<given, launcher, b, real, pipe, ran, expired>>

\* A bug: the limit only covers the time until the program is executed.
KillBeforeExec == KillAfter(wall_secs(spec) /\ expired /\ ~ran)

Deadline == KillAfter(wall_secs(spec) /\ expired)

Stage1Killed ==
  /\ stage1.killed /\ Alive(stage1)
  /\ Exit1
  /\ UNCHANGED <<given, launcher, b, real, pipe, ran, expired>>

-----------------------------------------------------------------------------
\* init.rs, stage 2

Order == <<"NoNewPrivs", "UtsNs", "Cgroup", "MountNs", "Rlimits", "Landlock", "CapDrop", "Seccomp", "report">>

After(c) == Order[(CHOOSE i \in DOMAIN Order : Order[i] = c) + 1]

Runs2(c) == stage2.at = c /\ ~stage2.killed

\* set_pdeathsig, and the namespaces stage 1 made.
Start2 ==
  /\ Runs2("start")
  /\ stage2' = [stage2 EXCEPT !.at = "NoNewPrivs", !.sig = Alive(stage1)]
  /\ b' = ok(b, {"IpcNs", "UtsNs", "PidNs"} \cup {c \in {"NetNs"} : Isolated(spec.network)}
                  \cup {c \in {"UserNs"} : ~rootful})
  /\ UNCHANGED <<given, launcher, stage1, real, pipe, ran, expired>>

Step2(c, bl, cs, sig) ==
  /\ Runs2(c)
  /\ stage2' = [stage2 EXCEPT !.at = After(c), !.sig = sig]
  /\ b' = bl /\ real' = real \cup cs
  /\ UNCHANGED <<given, launcher, stage1, pipe, ran, expired>>

\* prctl, setrlimit and seccomp either work or not.
Plain(c) == Step2(c, ok(b, {c}), {c}, stage2.sig) \/ Step2(c, fail(b, {c}), {}, stage2.sig)

\* sethostname; the namespace is private either way.
Hostname == Step2("UtsNs", b, {}, stage2.sig) \/ Step2("UtsNs", fail(b, {"UtsNs"}), {}, stage2.sig)

setup_cgroup == IF limited(spec) THEN Plain("Cgroup") ELSE Step2("Cgroup", b, {}, stage2.sig)

\* A path that is granted but missing is skipped; any other failure is reported and ends stage 2.
build_root ==
  \/ Step2("MountNs", ok(b, {"MountNs"}), {"MountNs"}, stage2.sig)
  \/ spec.grants /\ Step2("MountNs", [ok(b, {"MountNs"}) EXCEPT !.skipped = TRUE], {"MountNs"}, stage2.sig)
  \/ /\ Runs2("MountNs")
     /\ b' = fail(b, {"MountNs"})
     /\ pipe' = finish(b', spec)
     /\ stage2' = [stage2 EXCEPT !.at = "dead"]
     /\ UNCHANGED <<given, launcher, stage1, real, ran, expired>>

\* The kernel has all rules, those for files, some of those for files, or none; the
\* ruleset is then enforced fully, in part or not at all.
Ruleset(all, on) == IF all \subseteq on THEN "Fully" ELSE IF on # {} THEN "Partially" ELSE "Not"

\* A bug: TCP rules count as enforced when the ruleset is, in part.
NetInPart(all, status) == IF status = "Not" THEN {} ELSE all

\* LandlockOutcome: fs also when the ruleset is enforced in part.
outcome(all, status) == IF status = "Fully" THEN all ELSE all \cap {c \in {"LandlockFs"} : status = "Partially"}

apply_landlock ==
  LET net == {c \in {"LandlockNet"} : spec.network = "DESTINATION_ALLOWLIST"}
      all == {"LandlockFs"} \cup net
  IN  \E on \in {all, {"LandlockFs"}, {"SomeLandlockFs"}, {}} :
        LET active == outcome(all, Ruleset(all, on))
        IN  Step2("Landlock", fail(ok(b, active), all \ active), on, stage2.sig)

\* Only root changes its user id, which drops the request for the death signal.
drop_capabilities ==
  \/ Step2("CapDrop", ok(b, {"CapDrop"}), {"CapDrop"}, stage2.sig /\ ~rootful)
  \/ \E sig \in {stage2.sig, stage2.sig /\ ~rootful} : Step2("CapDrop", fail(b, {"CapDrop"}), {}, sig)

Establish ==
  \/ \E c \in {"NoNewPrivs", "Rlimits", "Seccomp"} : Plain(c)
  \/ Hostname \/ setup_cgroup \/ build_root \/ apply_landlock \/ drop_capabilities

\* A bug: the program is executed whatever the report says.
ExecAnyway == [stage2 EXCEPT !.at = "exec"]

reported == [stage2 EXCEPT !.at = IF pipe'.status = "Refused" THEN "dead" ELSE "exec"]

\* A report nobody reads any more is not an error.
send_report ==
  /\ Runs2("report")
  /\ pipe' = finish(b, spec)
  /\ stage2' = reported
  /\ UNCHANGED <<given, launcher, stage1, b, real, ran, expired>>

Exec ==
  /\ Runs2("exec")
  /\ \/ stage2' = [stage2 EXCEPT !.at = "running"] /\ ran' = TRUE
     \/ stage2' = [stage2 EXCEPT !.at = "dead"] /\ UNCHANGED ran
  /\ UNCHANGED <<given, launcher, stage1, b, real, pipe, expired>>

\* The workload ends by itself, if it wants to.
WorkloadEnds ==
  /\ Runs2("running")
  /\ stage2' = [stage2 EXCEPT !.at = "dead"]
  /\ UNCHANGED <<given, launcher, stage1, b, real, pipe, ran, expired>>

\* Stage 2 is process 1 of the cell: nothing in it survives.
Stage2Killed ==
  /\ stage2.killed /\ Alive(stage2)
  /\ stage2' = [stage2 EXCEPT !.at = "dead"]
  /\ UNCHANGED <<given, launcher, stage1, b, real, pipe, ran, expired>>

Expire ==
  /\ ~expired /\ stage1.at = "waiting" /\ wall_secs(spec) /\ expired' = TRUE
  /\ UNCHANGED <<given, launcher, stage1, stage2, b, real, pipe, ran>>

-----------------------------------------------------------------------------
Init ==
  /\ spec \in Decisions /\ rootful \in BOOLEAN
  /\ launcher = [at |-> "idle", result |-> None]
  /\ stage1 = [at |-> None, sig |-> FALSE, killed |-> FALSE] /\ stage2 = stage1
  /\ b = Builder /\ real = {} /\ pipe = NoReport /\ ran = FALSE /\ expired = FALSE

Launcher == Launch \/ ReadReport \/ ReadFails \/ Wait
Stage1 == Arm1 \/ Unshare \/ Stage1Fails \/ Reap \/ Deadline \/ Stage1Killed
Stage2 == Start2 \/ Establish \/ send_report \/ Exec \/ Stage2Killed

Next == Launcher \/ Stage1 \/ Stage2 \/ LauncherDies \/ WorkloadEnds \/ Expire

Spec == Init /\ [][Next]_vars

\* Every process is scheduled; the workload need not end, and nothing has to die.
FairSpec == Spec /\ WF_vars(Launcher) /\ WF_vars(Stage1) /\ WF_vars(Stage2)

-----------------------------------------------------------------------------
\* SECURITY_INVARIANTS I-21: whatever failed on the way, a program only runs with
\* every mandatory control of its decision in force; and when the launcher returns
\* an error, nothing was started, however the processes interleaved.
RunsConfined ==
  ran => /\ Supported(spec) /\ mandatory_controls(spec) \subseteq real
         /\ launcher.result \notin {"Unsupported", "Refused", "Setup"}

\* The controls in force, LandlockFs also if only some of its rules are.
InForce == real \cup {c \in {"LandlockFs"} : "SomeLandlockFs" \in real}

\* The report claims nothing that is not in force, Landlock's rules for files at least
\* in part; full enforcement means every requested control and every grant; and what
\* was requested is in the report, as active or as unavailable.
ReportTruthful ==
  pipe # NoReport =>
    /\ pipe.active \subseteq InForce
    /\ pipe.status = "Full" => requested_controls(spec) \subseteq InForce /\ ~b.skipped
    /\ requested_controls(spec) \subseteq pipe.active \cup pipe.unavailable

\* landlock_rules.rs on LandlockOutcome::fs, which becomes the active control:
\* "Filesystem rules are fully enforced."
FsRulesInFull == pipe # NoReport /\ "LandlockFs" \in pipe.active => "LandlockFs" \in real

\* The launcher always learns what became of the cell.
LaunchReturns == launcher.at = "reading" ~> launcher.at # "reading"

Gone == stage2.at \in {None, "dead"}

\* The wall-clock limit ends a cell as long as its launcher lives.
LimitEnforced == (expired /\ LauncherAlive) ~> (Gone \/ ~LauncherAlive)

\* docs/JAIL_MODEL.md: "both stages die if the launcher dies (PR_SET_PDEATHSIG)",
\* for a launcher that dies after it knows the report.  A workload moved to another
\* user by root has lost the request for the signal: there only stage 1 dies.
DiesWithLauncher ==
  (launcher.at = "dead" /\ launcher.result = "Running") ~> (stage1.at = "dead" /\ (rootful \/ Gone))
=============================================================================
