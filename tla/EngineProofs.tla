------------------------------ MODULE EngineProofs --------------------------
(***************************************************************************)
(* Proofs about the state directory, for any artifacts, approvals, changes *)
(* of the file, failures, kills, power cuts and losses of the index.       *)
(*                                                                         *)
(* The invariant and the writes are in EngineSteps.  Here are the          *)
(* operations that decide about an artifact, which need that a decision is *)
(* sound and a route legal (PolicyProofs), the index made again, and the   *)
(* theorems.                                                               *)
(***************************************************************************)
EXTENDS EngineSteps, PolicyProofs

\* The workstation policy is valid.
LEMMA WorkstationValid ==
  ASSUME NEW e PROVE ValidPolicy(workstation(e))
<1> DEFINE p == workstation(e)
           t == p.tiers
           t1 == tier("managed-boot", {"BOOT", "KERNEL", "INITRD", "MODULE", "FIRMWARE"}, 3,
                      {"MANAGED_INSTALLER", "PACKAGE_SIGNATURE"}, "ADMITTED", 3, 0, FALSE, "MANAGED_INSTALL")
           t2 == tier("managed-package", {}, 3, {"MANAGED_INSTALLER", "PACKAGE_SIGNATURE"},
                      "ADMITTED", 2, 4, FALSE, "MANAGED_INSTALL")
           t3 == tier("pinned-vendor", {}, 2, {"SIGNATURE_VALID"},
                      "ADMITTED", 2, 4, FALSE, "PINNED_VENDOR_SIGNATURE")
           t4 == tier("reproduced", {}, 1, {"REPRODUCIBLE_MATCH"},
                      "ADMITTED", 2, 4, FALSE, "REPRODUCED_BUILD")
           t5 == tier("checksum-verified", {}, 4, {"CONTENT_DIGEST_MATCH"}, "VERIFIED", 1, 1, FALSE,
                      "CHECKSUM_VERIFIED")
           t6 == tier("observe-unknown", {}, 6, {}, "OBSERVED", 0, 0, FALSE, "DEFAULT_TIER")
<1>1. t = <<t1, t2, t3, t4>> \o <<t5, t6>> /\ p.writable_path_max_cell = 1 /\ p.max_manual_cell = 2
  BY DEF workstation, evidence_tiers
<1> HIDE DEF p, t, t1, t2, t3, t4, t5, t6
<1>2. /\ DOMAIN t = 1 .. 6 /\ Len(t) = 6 /\ t = [i \in 1 .. 6 |-> t[i]]
      /\ t[1] = t1 /\ t[2] = t2 /\ t[3] = t3 /\ t[4] = t4 /\ t[5] = t5 /\ t[6] = t6
  BY <1>1
<1>3. t \in Seq({t[i] : i \in DOMAIN t})
  <2> DEFINE X == {t[i] : i \in DOMAIN t}
  <2>1. \A i \in 1 .. 6 : t[i] \in X
    BY <1>2, Zenon
  <2> HIDE DEF X
  <2>2. t \in [1 .. 6 -> X]
    BY <1>2, <2>1
  <2> QED BY <2>2, SeqDef DEF X
<1> DEFINE Right(u) == /\ u.max_provenance \in Ranks /\ u.state \in AdmissionStates
                       /\ u.cell \in Cells /\ u.network \in Networks
                       /\ tier_ok(u)
<1>4. Right(t1) /\ Right(t2) /\ Right(t3) /\ Right(t4) /\ Right(t5) /\ Right(t6)
  <2> USE DEF tier, tier_ok, run_has_grounds, idle_is_confined, permits_normal_execution, satisfies,
              AdmissionStates, Ranks, Cells, Networks
  <2>1. Right(t1) BY DEF t1
  <2>2. Right(t2) BY DEF t2
  <2>3. Right(t3) BY DEF t3
  <2>4. Right(t4) BY DEF t4
  <2>5. Right(t5) BY DEF t5
  <2>6. Right(t6) BY DEF t6
  <2> HIDE DEF Right
  <2> QED BY <2>1, <2>2, <2>3, <2>4, <2>5, <2>6, Zenon
<1>5. \A i \in DOMAIN t : Right(t[i])
  <2>1. \A i \in 1 .. 6 : i = 1 \/ i = 2 \/ i = 3 \/ i = 4 \/ i = 5 \/ i = 6
    OBVIOUS
  <2> HIDE DEF Right
  <2> QED BY <1>2, <1>4, <2>1, Zenon
<1>6. matches_everything(t[Len(t)])
  BY <1>2 DEF matches_everything, tier, t6
<1>7. p.writable_path_max_cell \in Cells /\ p.max_manual_cell \in Cells /\ Len(t) \in 1 .. 64
  BY <1>1, <1>2 DEF Cells
<1> QED BY <1>3, <1>5, <1>6, <1>7, Zenon DEF ValidPolicy, IsPolicy, p, t

\* A decision of the engine: it is a state that a route leads to, it stays with a
\* revocation, and changed content is not trusted.
LEMMA DecidedState ==
  ASSUME NEW id \in Ids, NEW evidence, NEW current, NEW there,
         current[id] # NoFile => current[id] \in AllFiles /\ current[id][1] = id
  PROVE  LET to == StateUnder(id, evidence, current, there)
         IN  /\ to \in AdmissionStates \ {"UNKNOWN"}
             /\ view.state[id] = "REVOKED" => to = "REVOKED"
             /\ "CONTENT_DIGEST_MISMATCH" \in evidence => ~permits_normal_execution(to)
<1> DEFINE a == approval_for(id, current, there)
           f == [artifact |-> [id |-> id, digest |-> id, signer |-> "none", class |-> "EXE", provenance |-> 6],
                 evidence |-> evidence, requested |-> {}, prior |-> view.state[id],
                 revocations |-> {[kind |-> "EPN", target |-> x] : x \in list.ids},
                 approval |-> a]
           p == workstation(policy)
           d == evaluate(p, f, 0)
<1>1. StateUnder(id, evidence, current, there) = d.state
  BY Zenon DEF StateUnder
<1>2. a = NoApproval \/ a.cell \in Cells
  <2>1. CASE current[id] # NoFile /\ current[id] \in there
    <3>1. current[id][2] \in Cells
      BY <2>1, FileSubjects, Zenon
    <3>2. a = [epn |-> id, cell |-> current[id][2], network |-> 0, capabilities |-> {}, expires_at |-> 1]
      BY <2>1, Zenon DEF approval_for
    <3> HIDE DEF a
    <3> QED BY <3>1, <3>2
  <2>2. CASE /\ ~(current[id] # NoFile /\ current[id] \in there)
             /\ current[Base] # NoFile /\ current[Base] \in there /\ id \in current[Base][2]
    <3>1. a = [epn |-> id, cell |-> 2, network |-> 0, capabilities |-> {}, expires_at |-> 1]
      BY <2>2, Zenon DEF approval_for
    <3> HIDE DEF a
    <3> QED BY <3>1 DEF Cells
  <2>3. CASE /\ ~(current[id] # NoFile /\ current[id] \in there)
             /\ ~(current[Base] # NoFile /\ current[Base] \in there /\ id \in current[Base][2])
    BY <2>3, Zenon DEF approval_for
  <2> QED BY <2>1, <2>2, <2>3, Zenon
<1> HIDE DEF a
<1>3. /\ f.artifact.provenance = 6 /\ f.approval = a /\ f.prior = view.state[id] /\ f.evidence = evidence
  OBVIOUS
<1> HIDE DEF f
<1>4. IsFacts(f) /\ ValidPolicy(p)
  <2>1. 6 \in Ranks
    BY DEF Ranks
  <2> QED BY <1>2, <1>3, <2>1, WorkstationValid, Zenon DEF IsFacts
<1> HIDE DEF p
<1>5. DecisionState(f, d) /\ DecisionGrounds(p, f, 0, d)
  BY <1>4, EvaluateSound, Zenon
<1> HIDE DEF d
<1> QED BY <1>1, <1>3, <1>5, Zenon DEF DecisionState, DecisionGrounds

\* The transitions of apply_decision are of one artifact and end in the new state.
LEMMA ApplyResult ==
  ASSUME TypeOK, NEW id \in Ids, NEW to \in AdmissionStates \ {"UNKNOWN"}, NEW sync \in BOOLEAN,
         view.state[id] = "REVOKED" => to = "REVOKED"
  PROVE  LET s == apply_decision(id, to, sync)
         IN  /\ s \in Seq(Plain)
             /\ \A x : x # id => Untouched(s, x)
             /\ view.state[id] = to => Untouched(s, id)
             /\ view.state[id] # to => id \in MovedBy(s)
             /\ view.state[id] # to /\ ~permits_normal_execution(to) => Demoted(s, id)
<1> DEFINE from == view.state[id]
           start == IF from = NoState THEN "UNKNOWN" ELSE from
           c == IF from = to THEN <<>> ELSE route(start, to)
           s == apply_decision(id, to, sync)
<1>1. s = [i \in DOMAIN c |-> Log(Transition(id, c[i]), sync)]
  BY Zenon DEF apply_decision
<1>2. from \in AdmissionStates \cup {NoState}
  <2>1. view \in Views
    BY LogLook, Zenon
  <2> QED BY <2>1 DEF Views, Known
<1>3. c \in Seq(AdmissionStates) /\ (from # to => Len(c) >= 1 /\ c[Len(c)] = to)
  <2>1. CASE from = to
    BY <2>1
  <2>2. CASE from # to
    <3>1. start \in AdmissionStates \ {"REVOKED"} /\ start # to
      BY <1>2, <2>2 DEF AdmissionStates, NoState
    <3>2. LegalRoute(start, to, route(start, to))
      BY <3>1, RouteSound, Zenon
    <3>3. c = route(start, to)
      BY <2>2, Zenon
    <3> HIDE DEF c
    <3> QED BY <3>2, <3>3, Zenon DEF LegalRoute
  <2> QED BY <2>1, <2>2, Zenon
<1>4. ASSUME NEW st \in AdmissionStates
      PROVE  /\ Log(Transition(id, st), sync) \in Plain
             /\ \A x : MovesIt(Log(Transition(id, st), sync), x) <=> x = id
             /\ Log(Transition(id, st), sync).event.to = st
  <2> DEFINE e == Transition(id, st)
             w == Log(e, sync)
  <2>1. e \in Transitions /\ e.kind = "TRANSITION" /\ e.id = id /\ e.to = st
    BY DEF Transition, Transitions, Objects
  <2> HIDE DEF e
  <2>2. w \in [w : {"log"}, event : Transitions \cup Notes, sync : BOOLEAN] /\ w.w = "log" /\ w.event = e
    BY <2>1 DEF Log
  <2> HIDE DEF w
  <2>3. w \in Plain /\ w.event.to = st /\ \A x : MovesIt(w, x) <=> x = id
    BY <2>1, <2>2, Zenon DEF Plain, MovesIt, Logs
  <2> QED BY <2>3, Zenon DEF w, e
<1> HIDE DEF s, c
<1>5. /\ DOMAIN c = 1 .. Len(c) /\ Len(c) \in Nat /\ DOMAIN s = 1 .. Len(c)
      /\ \A i \in 1 .. Len(c) : c[i] \in AdmissionStates /\ s[i] = Log(Transition(id, c[i]), sync)
  <2>1. DOMAIN c = 1 .. Len(c) /\ Len(c) \in Nat /\ \A i \in 1 .. Len(c) : c[i] \in AdmissionStates
    BY <1>3
  <2>2. DOMAIN s = DOMAIN c /\ \A i \in DOMAIN c : s[i] = Log(Transition(id, c[i]), sync)
    BY <1>1
  <2> QED BY <2>1, <2>2, Zenon
<1>6. \A i \in 1 .. Len(c) : s[i] \in Plain /\ (\A x : MovesIt(s[i], x) <=> x = id) /\ s[i].event.to = c[i]
  BY <1>4, <1>5, Zenon
<1>7. s \in Seq(Plain)
  <2>1. s = [i \in 1 .. Len(c) |-> s[i]]
    BY <1>1, <1>5
  <2>2. s \in [1 .. Len(c) -> Plain]
    BY <1>6, <2>1
  <2> QED BY <1>5, <2>2, SeqDef, SMTT(30), Zenon
<1>8. \A x : x # id => Untouched(s, x)
  BY <1>5, <1>6, Zenon DEF Untouched
<1>9. from = to => Untouched(s, id)
  <2>1. from = to => DOMAIN s = {}
    BY <1>1 DEF c
  <2> QED BY <2>1, Zenon DEF Untouched
<1>10. ASSUME from # to PROVE id \in MovedBy(s) /\ (~permits_normal_execution(to) => Demoted(s, id))
  <2>1. Len(c) \in DOMAIN s /\ \A k \in DOMAIN s : ~(k > Len(c))
    BY <1>3, <1>5, <1>10, SMTT(30), Zenon
  <2>2. MovesIt(s[Len(c)], id) /\ s[Len(c)].event.to = to
    BY <1>3, <1>5, <1>6, <1>10, <2>1, Zenon
  <2> QED BY <2>1, <2>2, Zenon DEF MovedBy, Demoted
<1> QED BY <1>7, <1>8, <1>9, <1>10, Zenon DEF s

\* on_replaced takes what was replaced out of trust, and moves nothing else.
LEMMA ReplacedResult ==
  ASSUME TypeOK, NEW old \in Ids, NEW sync \in BOOLEAN
  PROVE  LET s == on_replaced(old, sync)
         IN  /\ s \in Seq(Plain)
             /\ \A x : x # old => Untouched(s, x)
             /\ Distrusted(s, old)
<1> DEFINE st == view.state[old]
           to == IF Readable(old) THEN StateUnder(old, {"CONTENT_DIGEST_MISMATCH"}, view.current, files)
                 ELSE changed_content(st)
           a == <<Put("evidence", old), Log(Mismatch(old), sync)>>
           b == apply_decision(old, to, sync)
           s == on_replaced(old, sync)
<1>1. CASE st \in {NoState, "REVOKED", "DEGRADED", "QUARANTINED"}
  <2>1. s = <<>>
    BY <1>1, Zenon DEF on_replaced
  <2>2. ~permits_normal_execution(st)
    BY <1>1 DEF permits_normal_execution, NoState
  <2> HIDE DEF s
  <2>3. s \in Seq(Plain) /\ \A x : Untouched(s, x)
    BY <2>1 DEF Untouched
  <2> QED BY <2>2, <2>3, Zenon DEF Distrusted, s
<1>2. CASE st \notin {NoState, "REVOKED", "DEGRADED", "QUARANTINED"}
  <2>1. s = a \o b
    BY <1>2, Zenon DEF on_replaced
  <2>2. /\ to \in AdmissionStates \ {"UNKNOWN"}
        /\ st = "REVOKED" => to = "REVOKED"
        /\ ~permits_normal_execution(to)
    <3>1. CASE Readable(old)
      <4>1. view.current[old] # NoFile => view.current[old] \in AllFiles /\ view.current[old][1] = old
        <5>1. view \in Views
          BY LogLook, Zenon
        <5>2. old \in Subjects
          BY Zenon DEF Subjects
        <5>3. view.current \in [Subjects -> AllFiles \cup {NoFile}]
          BY <5>1 DEF Views
        <5>4. view.current[old] # NoFile => view.current[old][1] = old
          BY <5>1, <5>2, Zenon DEF Views
        <5> QED BY <5>2, <5>3, <5>4
      <4> QED BY <3>1, <4>1, DecidedState, Zenon
    <3>2. CASE ~Readable(old)
      <4>1. to = changed_content(st)
        BY <3>2, Zenon
      <4> HIDE DEF to
      <4> QED BY <1>2, <4>1 DEF changed_content, permits_normal_execution, AdmissionStates
    <3> QED BY <3>1, <3>2, Zenon
  <2>3. a \in Seq(Plain) /\ \A x : Untouched(a, x)
    <3>1. /\ Put("evidence", old) \in Plain /\ \A x : ~MovesIt(Put("evidence", old), x)
          /\ Log(Mismatch(old), sync) \in Plain /\ \A x : ~MovesIt(Log(Mismatch(old), sync), x)
      BY Unmoving, Zenon
    <3>2. a \in Seq(Plain) /\ DOMAIN a = {1, 2} /\ a[1] = Put("evidence", old) /\ a[2] = Log(Mismatch(old), sync)
      BY <3>1
    <3> HIDE DEF a
    <3> QED BY <3>1, <3>2, Zenon DEF Untouched
  <2> HIDE DEF a, to
  <2>4. /\ b \in Seq(Plain)
        /\ \A x : x # old => Untouched(b, x)
        /\ st = to => Untouched(b, old)
        /\ st # to => Demoted(b, old)
    BY <2>2, ApplyResult, Zenon
  <2> HIDE DEF b, s
  <2>5. s \in Seq(Plain)
    BY <2>1, <2>3, <2>4, ConcatLook, Zenon
  <2>6. \A x : x # old => Untouched(s, x)
    BY <2>1, <2>3, <2>4, ConcatDoes, Zenon
  <2>7. Distrusted(s, old)
    <3>1. CASE st = to
      <4>1. Untouched(s, old) /\ ~permits_normal_execution(st)
        BY <2>1, <2>2, <2>3, <2>4, <3>1, ConcatDoes, Zenon
      <4> QED BY <4>1, Zenon DEF Distrusted
    <3>2. CASE st # to
      BY <2>1, <2>3, <2>4, <3>2, ConcatDoes, Zenon DEF Distrusted
    <3> QED BY <3>1, <3>2, Zenon
  <2> QED BY <2>5, <2>6, <2>7, Zenon DEF s
<1> QED BY <1>1, <1>2, Zenon

\* process records the artifact it is about, takes what its row named before out of
\* trust, and moves nothing else.
LEMMA ProcessResult ==
  ASSUME TypeOK, NEW id \in Ids, NEW to \in AdmissionStates \ {"UNKNOWN"}, NEW sync \in BOOLEAN,
         view.state[id] = "REVOKED" => to = "REVOKED"
  PROVE  LET s == process(id, to, sync)
         IN  /\ s \in Seq(Plain)
             /\ id \in Recorded \cup MovedBy(s)
             /\ \A x \in Ids \ {id} : /\ x = row.id => Distrusted(s, x)
                                      /\ x # row.id => Untouched(s, x)
<1> DEFINE is_new == objects[<<"epn", id>>] = "none" \/ view.state[id] = NoState
           a == IF row.id \in Ids \ {id} THEN on_replaced(row.id, sync) ELSE <<>>
           b == <<Put("epn", id)>>
           c == IF is_new \/ view.state[id] # to THEN <<Put("evidence", id)>> ELSE <<>>
           d == IF is_new THEN <<Log(Discover(id), sync)>> ELSE <<>>
           e == apply_decision(id, to, sync)
           s == process(id, to, sync)
<1>1. s = a \o b \o c \o d \o e
  BY Zenon DEF process
<1>2. /\ a \in Seq(Plain)
      /\ \A x \in Ids \ {id} : /\ x = row.id => Distrusted(a, x)
                               /\ x # row.id => Untouched(a, x)
  <2>1. CASE row.id \in Ids \ {id}
    <3>1. a = on_replaced(row.id, sync)
      BY <2>1, Zenon
    <3> HIDE DEF a
    <3> QED BY <2>1, <3>1, ReplacedResult, Zenon
  <2>2. CASE row.id \notin Ids \ {id}
    <3>1. a = <<>>
      BY <2>2, Zenon
    <3> HIDE DEF a
    <3>2. a \in Seq(Plain) /\ \A x : Untouched(a, x)
      BY <3>1 DEF Untouched
    <3> QED BY <2>2, <3>2, Zenon
  <2> QED BY <2>1, <2>2, Zenon
<1>3. b \in Seq(Plain) /\ \A x : Untouched(b, x)
  BY Unmoving, PlainOne, Zenon
<1>4. c \in Seq(Plain) /\ \A x : Untouched(c, x)
  BY Unmoving, PlainOne, Zenon
<1>5. d \in Seq(Plain) /\ \A x : Untouched(d, x)
  BY Unmoving, PlainOne, Zenon
<1>6. /\ e \in Seq(Plain)
      /\ \A x : x # id => Untouched(e, x)
      /\ view.state[id] # to => id \in MovedBy(e)
  BY ApplyResult, Zenon
<1> HIDE DEF a, b, c, d, e, s
<1> DEFINE ab == a \o b
           abc == ab \o c
           abcd == abc \o d
<1>7. /\ ab \in Seq(Plain)
      /\ \A x \in Ids \ {id} : (x = row.id => Distrusted(ab, x)) /\ (x # row.id => Untouched(ab, x))
  BY <1>2, <1>3, ConcatLook, ConcatDoes, StaysDistrusted, Zenon
<1> HIDE DEF ab
<1>8. /\ abc \in Seq(Plain)
      /\ \A x \in Ids \ {id} : (x = row.id => Distrusted(abc, x)) /\ (x # row.id => Untouched(abc, x))
  BY <1>4, <1>7, ConcatLook, ConcatDoes, StaysDistrusted, Zenon
<1> HIDE DEF abc
<1>9. /\ abcd \in Seq(Plain)
      /\ \A x \in Ids \ {id} : (x = row.id => Distrusted(abcd, x)) /\ (x # row.id => Untouched(abcd, x))
  BY <1>5, <1>8, ConcatLook, ConcatDoes, StaysDistrusted, Zenon
<1> HIDE DEF abcd
<1>10. s = abcd \o e
  BY <1>1, Zenon DEF ab, abc, abcd
<1>11. /\ s \in Seq(Plain)
       /\ \A x \in Ids \ {id} : (x = row.id => Distrusted(s, x)) /\ (x # row.id => Untouched(s, x))
  BY <1>6, <1>9, <1>10, ConcatLook, ConcatDoes, StaysDistrusted, Zenon
<1>12. id \in Recorded \cup MovedBy(s)
  <2>1. CASE view.state[id] = NoState
    <3>1. view.state[id] # to
      BY <2>1, Names, Zenon
    <3>2. id \in MovedBy(e)
      BY <1>6, <3>1, Zenon
    <3>3. PICK j \in DOMAIN e : MovesIt(e[j], id)
      BY <3>2, Zenon DEF MovedBy
    <3>4. Len(abcd) + j \in DOMAIN s /\ s[Len(abcd) + j] = e[j]
      BY <1>6, <1>9, <1>10, ConcatLook, SMTT(30), Zenon
    <3> QED BY <3>3, <3>4, Zenon DEF MovedBy
  <2>2. CASE view.state[id] # NoState
    BY <2>2, Zenon DEF Recorded
  <2> QED BY <2>1, <2>2, Zenon
<1> QED BY <1>11, <1>12, Zenon DEF s

\* What the operations decide about the content of the path.
LEMMA Decided ==
  ASSUME TypeOK, NEW id \in Ids
  PROVE  /\ evaluate_now(id) \in AdmissionStates \ {"UNKNOWN"}
         /\ view.state[id] = "REVOKED" => evaluate_now(id) = "REVOKED"
         /\ \A f \in AllFiles :
              /\ StateUnder(id, {}, With(f), files \cup {f}) \in AdmissionStates \ {"UNKNOWN"}
              /\ view.state[id] = "REVOKED" => StateUnder(id, {}, With(f), files \cup {f}) = "REVOKED"
<1>1. ASSUME NEW current, NEW there, current[id] # NoFile => current[id] \in AllFiles /\ current[id][1] = id
      PROVE  /\ StateUnder(id, {}, current, there) \in AdmissionStates \ {"UNKNOWN"}
             /\ view.state[id] = "REVOKED" => StateUnder(id, {}, current, there) = "REVOKED"
  <2> DEFINE none == {}
  <2> HIDE DEF none
  <2>1. /\ StateUnder(id, none, current, there) \in AdmissionStates \ {"UNKNOWN"}
        /\ view.state[id] = "REVOKED" => StateUnder(id, none, current, there) = "REVOKED"
    BY <1>1, DecidedState, Zenon
  <2> QED BY <2>1, Zenon DEF none
<1> QED BY <1>1, CurrentFile, Zenon DEF evaluate_now

\* An operation that measures the content of the path, after writes of its own.
LEMMA Measured ==
  ASSUME EngineInv, todo = <<>>, content \in Ids,
         NEW to \in AdmissionStates \ {"UNKNOWN"}, NEW sync \in BOOLEAN,
         view.state[content] = "REVOKED" => to = "REVOKED",
         NEW pre, Opens(pre), Covered(pre, Recorded), \A x : Untouched(pre, x),
         NEW t \in {<<Flush, SaveIndex(Row(content))>>, <<Flush, SaveIndex(Row(content)), Flush>>},
         todo' = (pre \o process(content, to, sync)) \o t, UNCHANGED disk
  PROVE  EngineInv'
<1> DEFINE p == process(content, to, sync)
           q == pre \o p
           s == q \o t
           r == Row(content)
<1>1. TypeOK
  BY Zenon DEF EngineInv
<1>2. r \in Rows /\ r.id = content
  BY <1>1 DEF Row, Rows, TypeOK
<1>3. /\ p \in Seq(Plain)
      /\ content \in Recorded \cup MovedBy(p)
      /\ \A x \in Ids \ {content} : /\ x = row.id => Distrusted(p, x)
                                    /\ x # row.id => Untouched(p, x)
  BY <1>1, ProcessResult, Zenon
<1> HIDE DEF p
<1>4. Opens(p) /\ \A K : Covered(p, K)
  BY <1>3, PlainSequence, Zenon DEF Opens
<1>5. /\ Opens(t) /\ Saves(t, content) /\ \A x : Untouched(t, x)
      /\ \A K : content \in K => Covered(t, K)
  <2>1. t \in {<<Flush, SaveIndex(r)>>, <<Flush, SaveIndex(r), Flush>>}
    OBVIOUS
  <2> HIDE DEF r
  <2> QED BY <1>2, <2>1, ClosingWrites, Zenon
<1>6. /\ pre \in Seq(Writes) /\ p \in Seq(Writes) /\ t \in Seq(Writes) /\ q \in Seq(Writes)
      /\ Opens(q) /\ Opens(s)
  <2>1. Opens(q)
    BY <1>4, OpensConcat, Zenon
  <2>2. Opens(s)
    BY <1>5, <2>1, OpensConcat, Zenon
  <2> QED BY <1>4, <1>5, <2>1, <2>2, Zenon DEF Opens
<1>7. content \in Recorded \cup MovedBy(q)
  <2>1. CASE content \in MovedBy(p)
    <3>1. PICK j \in DOMAIN p : MovesIt(p[j], content)
      BY <2>1, Zenon DEF MovedBy
    <3>2. Len(pre) + j \in DOMAIN q /\ q[Len(pre) + j] = p[j]
      BY <1>6, ConcatLook, SMTT(30), Zenon
    <3> QED BY <3>1, <3>2, Zenon DEF MovedBy
  <2>2. CASE content \in Recorded
    BY <2>2, Zenon
  <2> QED BY <1>3, <2>1, <2>2, Zenon
<1>8. Covered(s, Recorded)
  <2>1. Covered(q, Recorded)
    BY <1>4, <1>6, CoveredConcat, Zenon
  <2>2. Covered(t, Recorded \cup MovedBy(q))
    BY <1>5, <1>7, Zenon
  <2> HIDE DEF q
  <2> QED BY <1>6, <2>1, <2>2, CoveredConcat, Zenon
<1>9. Saves(s, content)
  <2> HIDE DEF q
  <2> QED BY <1>5, <1>6, ConcatDoes, Zenon
<1>10. ASSUME crashes = 0, losses = 0, NEW x \in Ids \ {content} PROVE Distrusted(s, x)
  <2>1. Distrusted(p, x)
    <3>1. CASE x = row.id
      BY <1>3, <3>1, Zenon
    <3>2. CASE x # row.id
      BY <1>3, <1>10, <3>2, RowInMemory, AtRest, Zenon DEF Distrusted
    <3> QED BY <3>1, <3>2, Zenon
  <2>2. Distrusted(q, x)
    BY <1>6, <2>1, ThenDistrusted, Zenon
  <2> HIDE DEF q
  <2> QED BY <1>5, <1>6, <2>2, StaysDistrusted, Zenon
<1> HIDE DEF q, s
<1>11. todo' = s
  BY Zenon DEF s, q, p
<1>12. s \in Seq(Writes) /\ Linked(s) /\ Revoking(s) /\ (s # <<>> => Ready(s[1]))
  BY <1>6, StartsLinks, Zenon DEF Opens
<1>13. ~Saveless(s)
  BY <1>9, Zenon DEF Saves, Saveless
<1> QED BY <1>8, <1>9, <1>10, <1>11, <1>12, <1>13, Begins, ZenonT(60) DEF EndsWith

-----------------------------------------------------------------------------
(***************************************************************************)
(* The operations.                                                         *)
(***************************************************************************)

\* A batch that measures the content.
LEMMA ObservedKeeps ==
  ASSUME EngineInv, Open, content \in Ids, todo' = observed(content), UNCHANGED disk
  PROVE  EngineInv'
<1> DEFINE to == evaluate_now(content)
           p == process(content, to, FALSE)
           t == <<Flush, SaveIndex(Row(content))>>
<1>1. TypeOK /\ todo = <<>>
  BY Zenon DEF EngineInv, Open, Idle
<1>2. /\ to \in AdmissionStates \ {"UNKNOWN"}
      /\ view.state[content] = "REVOKED" => to = "REVOKED"
  BY <1>1, Decided, Zenon
<1> HIDE DEF to
<1>3. p \in Seq(Plain)
  BY <1>1, <1>2, ProcessResult, Zenon
<1>4. p = <<>> \o p
  BY <1>3, ConcatEmptySeq, Zenon
<1>5. todo' = (<<>> \o p) \o t
  BY <1>4, Zenon DEF observed, to
<1>6. Opens(<<>>) /\ Covered(<<>>, Recorded) /\ \A x : Untouched(<<>>, x)
  <2>1. <<>> \in Seq(Writes) /\ DOMAIN <<>> = {}
    OBVIOUS
  <2> QED BY <2>1, Zenon DEF Opens, Linked, Covered, Untouched, Revoking
<1>7. FALSE \in BOOLEAN /\ t \in {<<Flush, SaveIndex(Row(content))>>, <<Flush, SaveIndex(Row(content)), Flush>>}
  BY Zenon
<1> HIDE DEF t
<1> QED BY <1>1, <1>2, <1>5, <1>6, <1>7, Measured, Zenon

\* scan keeps the invariant.
LEMMA ScanKeeps ==
  ASSUME EngineInv, scan PROVE EngineInv'
<1>1. todo = <<>>
  BY Zenon DEF scan, Open, Idle
<1>2. CASE content \in Ids /\ ~Unchanged
  BY <1>2, ObservedKeeps, Zenon DEF scan, Operation
<1>3. CASE ~(content \in Ids /\ ~Unchanged)
  <2>1. todo' = Settle /\ UNCHANGED disk
    BY <1>3, Zenon DEF scan, Operation
  <2>2. /\ Opens(todo') /\ Covered(todo', Recorded) /\ Saves(todo', row.id)
        /\ \A x : Untouched(todo', x)
    BY <2>1, SettleWrites, Zenon
  <2> QED BY <1>1, <2>1, <2>2, QuietBegins, Zenon
<1> QED BY <1>2, <1>3, Zenon

\* decide_exec keeps it.
LEMMA DecideKeeps ==
  ASSUME EngineInv, decide_exec PROVE EngineInv'
BY ObservedKeeps, Zenon DEF decide_exec, Operation

\* approve keeps it.
LEMMA ApproveKeeps ==
  ASSUME EngineInv, NEW id \in Ids, NEW cell \in Grants, approve(id, cell)
  PROVE  EngineInv'
<1> DEFINE f == <<id, cell>>
           to == StateUnder(content, {}, With(f), files \cup {f})
           i == install(f)
           p == process(content, to, TRUE)
           t == <<Flush, SaveIndex(Row(content)), Flush>>
<1>1. TypeOK /\ todo = <<>> /\ view.state[id] # NoState /\ UNCHANGED disk
  BY Zenon DEF EngineInv, approve, Open, Idle
<1>2. todo' = i \o IF row.id = id /\ content \in Ids THEN p \o t ELSE <<Flush>>
  BY Zenon DEF approve, Operation
<1>3. f \in AllFiles
  <2>1. f \in Ids \X Grants
    OBVIOUS
  <2> QED BY <2>1, Zenon DEF AllFiles
<1> HIDE DEF f
<1>4. Opens(i) /\ Saveless(i) /\ i \in Seq(Writes) /\ \A x : Untouched(i, x)
  BY <1>3, InstallWrites, Zenon DEF Opens
<1>5. \A K : Covered(i, K)
  BY <1>4, Zenon DEF Covered, Saveless
<1> HIDE DEF i
<1>6. CASE row.id = id /\ content \in Ids
  <2>1. /\ to \in AdmissionStates \ {"UNKNOWN"}
        /\ view.state[content] = "REVOKED" => to = "REVOKED"
    BY <1>1, <1>3, <1>6, Decided, Zenon
  <2> HIDE DEF to
  <2>2. TRUE \in BOOLEAN
    OBVIOUS
  <2>3. p \in Seq(Plain)
    BY <1>1, <1>6, <2>1, <2>2, ProcessResult, Zenon
  <2>4. p \in Seq(Writes)
    BY <2>3, PlainSequence, Zenon
  <2>5. Row(content) \in Rows
    BY <1>1, <1>6 DEF Row, Rows, TypeOK
  <2>6. t \in {<<Flush, SaveIndex(Row(content))>>, <<Flush, SaveIndex(Row(content)), Flush>>}
    BY Zenon
  <2> HIDE DEF t
  <2>7. t \in Seq(Writes)
    BY <2>5, <2>6, ClosingWrites, Zenon DEF Opens
  <2>8. todo' = i \o (p \o t)
    BY <1>2, <1>6, Zenon
  <2>9. (i \o p) \o t = i \o (p \o t)
    <3>1. \A a, b, c \in Seq(Writes) : (a \o b) \o c = a \o (b \o c)
      BY ConcatAssociative, SMTT(30), Zenon
    <3> HIDE DEF p
    <3> QED BY <1>4, <2>4, <2>7, <3>1, Zenon
  <2>10. todo' = (i \o p) \o t
    BY <2>8, <2>9, Zenon
  <2> QED BY <1>1, <1>4, <1>5, <1>6, <2>1, <2>2, <2>6, <2>10, Measured, Zenon
<1>7. CASE ~(row.id = id /\ content \in Ids)
  <2>1. todo' = i \o <<Flush>>
    BY <1>2, <1>7, Zenon
  <2> DEFINE u == <<Flush>>
  <2>2. Opens(u) /\ Saveless(u) /\ u \in Seq(Writes) /\ \A x : Untouched(u, x)
    BY RowInMemory, ClosingWrites, Zenon DEF Opens
  <2> HIDE DEF u
  <2>3. todo' = i \o u
    BY <2>1, Zenon DEF u
  <2>4. Opens(todo')
    BY <1>4, <2>2, <2>3, OpensConcat, Zenon
  <2>5. Saveless(todo') /\ \A x : Untouched(todo', x)
    BY <1>4, <2>2, <2>3, ConcatDoes, Zenon
  <2>6. Covered(todo', Recorded)
    BY <2>5, Zenon DEF Covered, Saveless
  <2>7. ASSUME crashes = 0, losses = 0 PROVE index # Lost
    <3>1. id \in Recorded
      BY <1>1, Zenon DEF Recorded
    <3> QED BY <1>1, <2>7, <3>1, AtRest, Zenon
  <2> QED BY <1>1, <2>4, <2>5, <2>6, <2>7, QuietBegins, Zenon
<1> QED BY <1>6, <1>7, Zenon

\* enroll_baseline keeps it.
LEMMA EnrollKeeps ==
  ASSUME EngineInv, NEW members \in SUBSET Ids, enroll_baseline(members)
  PROVE  EngineInv'
<1> DEFINE f == <<Base, members>>
           to == StateUnder(content, {}, With(f), files \cup {f})
           i == install(f)
           pre == Settle \o i
           p == process(content, to, FALSE)
<1>1. TypeOK /\ todo = <<>> /\ UNCHANGED disk
  BY Zenon DEF EngineInv, enroll_baseline, Open, Idle
<1>2. todo' = pre \o (IF content \in Ids THEN p ELSE <<>>)
              \o <<Flush, SaveIndex(IF content \in Ids THEN Row(content) ELSE row)>>
  BY Zenon DEF enroll_baseline, Operation
<1>3. f \in AllFiles
  <2>1. f \in {Base} \X SUBSET Ids
    OBVIOUS
  <2> QED BY <2>1, Zenon DEF AllFiles
<1> HIDE DEF f
<1>4. Opens(i) /\ Saveless(i) /\ i \in Seq(Writes) /\ \A x : Untouched(i, x)
  BY <1>3, InstallWrites, Zenon DEF Opens
<1>5. \A K : Covered(i, K)
  BY <1>4, Zenon DEF Covered, Saveless
<1> HIDE DEF i
<1>6. Opens(pre) /\ Covered(pre, Recorded) /\ (\A x : Untouched(pre, x)) /\ pre \in Seq(Writes)
  <2>1. Opens(Settle) /\ Covered(Settle, Recorded) /\ (\A x : Untouched(Settle, x)) /\ Settle \in Seq(Writes)
    BY SettleWrites, Zenon DEF Opens
  <2>2. Opens(pre)
    BY <1>4, <2>1, OpensConcat, Zenon
  <2>3. Covered(pre, Recorded)
    BY <1>4, <1>5, <2>1, CoveredConcat, Zenon
  <2>4. \A x : Untouched(pre, x)
    BY <1>4, <2>1, ConcatDoes, Zenon
  <2> QED BY <2>2, <2>3, <2>4, Zenon DEF Opens
<1> HIDE DEF pre
<1>7. CASE content \in Ids
  <2>1. /\ to \in AdmissionStates \ {"UNKNOWN"}
        /\ view.state[content] = "REVOKED" => to = "REVOKED"
    BY <1>1, <1>3, <1>7, Decided, Zenon
  <2> HIDE DEF to
  <2> DEFINE t == <<Flush, SaveIndex(Row(content))>>
  <2>2. todo' = (pre \o p) \o t
    BY <1>2, <1>7, Zenon
  <2>3. FALSE \in BOOLEAN /\ t \in {<<Flush, SaveIndex(Row(content))>>, <<Flush, SaveIndex(Row(content)), Flush>>}
    BY Zenon
  <2> HIDE DEF t
  <2> QED BY <1>1, <1>6, <1>7, <2>1, <2>2, <2>3, Measured, Zenon
<1>8. CASE content \notin Ids
  <2>1. todo' = (pre \o <<>>) \o Settle
    BY <1>2, <1>8, Zenon DEF Settle
  <2>2. pre \o <<>> = pre
    BY <1>6, ConcatEmptySeq, Zenon
  <2>3. todo' = pre \o Settle
    BY <2>1, <2>2, Zenon
  <2>4. /\ Opens(Settle) /\ Covered(Settle, Recorded) /\ Saves(Settle, row.id)
        /\ (\A x : Untouched(Settle, x)) /\ Settle \in Seq(Writes)
    BY SettleWrites, Zenon DEF Opens
  <2>5. Opens(todo')
    BY <1>6, <2>3, <2>4, OpensConcat, Zenon
  <2>6. Covered(todo', Recorded)
    <3>1. Recorded \subseteq Recorded \cup MovedBy(pre)
      OBVIOUS
    <3>2. Covered(Settle, Recorded \cup MovedBy(pre))
      BY <2>4, <3>1, CoveredMore, Zenon
    <3> QED BY <1>6, <2>3, <2>4, <3>2, CoveredConcat, Zenon
  <2>7. Saves(todo', row.id) /\ \A x : Untouched(todo', x)
    BY <1>6, <2>3, <2>4, ConcatDoes, Zenon
  <2> QED BY <1>1, <2>5, <2>6, <2>7, QuietBegins, Zenon
<1> QED BY <1>7, <1>8, Zenon

\* revoke_report keeps it.
LEMMA RevokeReportKeeps ==
  ASSUME EngineInv, NEW id \in Ids, NEW by_digest, revoke_report(id, by_digest)
  PROVE  EngineInv'
<1> DEFINE new == [epoch |-> list.epoch + 1, ids |-> list.ids \cup {id}]
           X == Moved(new.ids, id, by_digest)
           M == {<<x, apply_decision(x, "REVOKED", TRUE)>> : x \in X}
           a == WriteList(new)
           e == Revocation(new.epoch)
           b == Log(e, TRUE)
           h == <<a, b>>
           r == Revoke(M)
           u == r \o <<Flush>>
<1>1. TypeOK /\ todo = <<>> /\ UNCHANGED disk /\ todo' = h \o u
  BY Zenon DEF EngineInv, revoke_report, Open, Idle, Operation, listed
<1>2. new \in Lists /\ new.epoch \in Nat /\ new.epoch >= list.epoch
  BY <1>1 DEF TypeOK, Lists
<1>3. ASSUME NEW x \in X
      PROVE  /\ x \in Ids /\ x \in Recorded /\ apply_decision(x, "REVOKED", TRUE) \in Seq(Plain)
             /\ \A y \in Ids : \/ Untouched(apply_decision(x, "REVOKED", TRUE), y)
                               \/ Demoted(apply_decision(x, "REVOKED", TRUE), y)
  <2>1. x \in Ids /\ view.state[x] # NoState /\ view.state[x] # "REVOKED"
    BY Zenon DEF Moved
  <2>2. "REVOKED" \in AdmissionStates \ {"UNKNOWN"} /\ ~permits_normal_execution("REVOKED") /\ TRUE \in BOOLEAN
    BY DEF AdmissionStates, permits_normal_execution
  <2> QED BY <1>1, <2>1, <2>2, ApplyResult, Zenon DEF Recorded
<1>4. /\ M \in SUBSET (Ids \X Seq(Plain))
      /\ \A m \in M : \A y \in Ids : Untouched(m[2], y) \/ Demoted(m[2], y)
  <2> SUFFICES ASSUME NEW m \in M
               PROVE  m \in Ids \X Seq(Plain) /\ \A y \in Ids : Untouched(m[2], y) \/ Demoted(m[2], y)
    BY Zenon
  <2> HIDE DEF X
  <2>1. PICK x \in X : m = <<x, apply_decision(x, "REVOKED", TRUE)>>
    BY Zenon
  <2> DEFINE q == apply_decision(x, "REVOKED", TRUE)
  <2>2. x \in Ids /\ q \in Seq(Plain) /\ \A y \in Ids : Untouched(q, y) \/ Demoted(q, y)
    BY <1>3, Zenon
  <2> HIDE DEF q
  <2>3. m = <<x, q>>
    BY <2>1, Zenon DEF q
  <2>4. m[2] = q /\ m \in Ids \X Seq(Plain)
    BY <2>2, <2>3, SMTT(30), Zenon
  <2> QED BY <2>2, <2>4, Zenon
<1>5. X # {} => Recorded # {}
  BY <1>3, Zenon
<1>6. X = {} => M = {}
  BY Zenon
<1> HIDE DEF new, X, M
<1>7. /\ Opens(r) /\ r \in Seq(Writes) /\ Saveless(r) /\ (\A x : Untouched(r, x))
      /\ M = {} => r = <<>>
  BY <1>4, RevokeWrites, Zenon DEF Opens, Revoke
<1> HIDE DEF r
<1>8. /\ Opens(<<Flush>>) /\ Saveless(<<Flush>>) /\ (\A x : Untouched(<<Flush>>, x)) /\ <<Flush>> \in Seq(Writes)
  BY RowInMemory, ClosingWrites, Zenon DEF Opens
<1>9. /\ Opens(u) /\ u \in Seq(Writes) /\ Linked(u) /\ Saveless(u) /\ (\A x : Untouched(u, x)) /\ Revoking(u)
      /\ u # <<>> => Starts(u[1])
  <2> DEFINE v == <<Flush>>
  <2>1. Opens(v) /\ Saveless(v) /\ (\A x : Untouched(v, x)) /\ v \in Seq(Writes)
    BY <1>8, Zenon
  <2> HIDE DEF v
  <2>2. Opens(r \o v)
    BY <1>7, <2>1, OpensConcat, Zenon
  <2>3. Saveless(r \o v) /\ \A x : Untouched(r \o v, x)
    BY <1>7, <2>1, ConcatDoes, Zenon
  <2>4. u = r \o v
    BY Zenon DEF v
  <2> QED BY <2>2, <2>3, <2>4, Zenon DEF Opens
<1>10. M = {} => \A j \in DOMAIN u : u[j] = Flush
  <2>1. M = {} => u = <<Flush>>
    <3>1. <<>> \o <<Flush>> = <<Flush>>
      BY <1>8, ConcatEmptySeq, Zenon
    <3> QED BY <1>7, <3>1, Zenon
  <2>2. \A j \in DOMAIN <<Flush>> : <<Flush>>[j] = Flush
    OBVIOUS
  <2> QED BY <2>1, <2>2, Zenon
<1>11. /\ a.w = "list" /\ a.list = new /\ a \in [w : {"list"}, list : Lists]
       /\ e.kind = "REVOCATION" /\ e.epoch = new.epoch /\ e \in Floors
       /\ b.w = "log" /\ b.event = e
  BY <1>2 DEF WriteList, Log, Revocation, Floors
<1>12. b \in [w : {"log"}, event : Overrides \cup Floors, sync : {TRUE}]
  <2> HIDE DEF e
  <2> QED BY <1>11 DEF Log
<1>13. a \in Writes /\ b \in Writes
  BY <1>11, <1>12, Zenon DEF Writes
<1> HIDE DEF a, b, e
<1>14. h \in Seq(Writes) /\ h # <<>> /\ DOMAIN h = {1, 2} /\ h[1] = a /\ h[2] = b
  BY <1>13
<1> HIDE DEF h, u
<1>15. /\ Links(a, b) /\ Ready(a)
       /\ \A x : ~MovesIt(a, x) /\ ~MovesIt(b, x)
  BY <1>2, <1>11, SMTT(30), Zenon DEF Links, Ready, Logs, MovesIt
<1>16. Linked(h)
  <2> SUFFICES ASSUME NEW i \in DOMAIN h, i > 1 PROVE Links(h[i - 1], h[i])
    BY Zenon DEF Linked
  <2>1. i = 2 /\ i - 1 = 1
    BY <1>14
  <2> QED BY <1>14, <1>15, <2>1, Zenon
<1>17. Saveless(h) /\ Revoking(h) /\ \A x : Untouched(h, x)
  BY <1>11, <1>14, <1>15, Zenon DEF Saveless, Revoking, Untouched
<1>18. /\ todo' \in Seq(Writes) /\ Linked(todo') /\ todo'[1] = a
  BY <1>1, <1>9, <1>14, <1>16, LinkedConcat, ConcatLook, Zenon
<1>19. Saveless(todo') /\ Revoking(todo') /\ \A x : Untouched(todo', x)
  BY <1>1, <1>9, <1>14, <1>17, ConcatDoes, Zenon
<1>20. Covered(todo', Recorded)
  BY <1>19, Zenon DEF Saveless, Covered
<1>21. ASSUME crashes = 0, losses = 0, index = Lost
       PROVE  Recorded = {} /\ \A j \in DOMAIN todo' : todo'[j].w # "revoke" /\ ~Logs(todo'[j], "TRANSITION")
  <2>1. Recorded = {} /\ M = {}
    BY <1>1, <1>5, <1>6, <1>21, AtRest, Zenon
  <2>2. \A j \in DOMAIN todo' : \/ j \in DOMAIN h /\ todo'[j] = h[j]
                                \/ j - Len(h) \in DOMAIN u /\ todo'[j] = u[j - Len(h)]
    <3>1. /\ Len(h) \in Nat /\ Len(u) \in Nat
          /\ DOMAIN h = 1 .. Len(h) /\ DOMAIN u = 1 .. Len(u) /\ DOMAIN (h \o u) = 1 .. (Len(h) + Len(u))
          /\ \A i \in 1 .. Len(h) : (h \o u)[i] = h[i]
          /\ \A i \in (Len(h) + 1) .. (Len(h) + Len(u)) : (h \o u)[i] = u[i - Len(h)]
      <4>1. h \in Seq(Writes) /\ u \in Seq(Writes)
        BY <1>9, <1>14, Zenon
      <4> QED BY <4>1, ConcatLook, SMTT(30), Zenon
    <3> QED BY <1>1, <3>1, SMTT(30), Zenon
  <2>3. \A j \in DOMAIN todo' : todo'[j] = a \/ todo'[j] = b \/ todo'[j] = Flush
    BY <1>10, <1>14, <2>1, <2>2, Zenon
  <2>4. Flush.w = "flush"
    BY DEF Flush
  <2>5. /\ a.w # "revoke" /\ ~Logs(a, "TRANSITION")
        /\ b.w # "revoke" /\ ~Logs(b, "TRANSITION")
        /\ Flush.w # "revoke" /\ ~Logs(Flush, "TRANSITION")
    BY <1>11, <2>4, SMTT(30), Zenon DEF Logs
  <2> QED BY <2>1, <2>3, <2>5, Zenon
<1>22. ASSUME crashes = 0, losses = 0
       PROVE  \E i \in Ids \cup {NoId, Lost.id} : EndsWith(todo', i) /\ \A x \in Ids \ {i} : Distrusted(todo', x)
  <2> DEFINE s == todo'
  <2>1. Saveless(s) /\ \A x : Untouched(s, x)
    BY <1>19, Zenon
  <2> HIDE DEF s
  <2>2. \E i \in Ids \cup {NoId, Lost.id} : EndsWith(s, i) /\ \A x \in Ids \ {i} : Distrusted(s, x)
    BY <1>1, <1>22, <2>1, Quiet, Zenon
  <2> QED BY <2>2, Zenon DEF s
<1> QED BY <1>1, <1>15, <1>18, <1>19, <1>20, <1>21, <1>22, Begins, Zenon

-----------------------------------------------------------------------------
(***************************************************************************)
(* The index made again.                                                   *)
(***************************************************************************)

\* The row that open rebuilds has no policy epoch.
LEMMA Rebuilt ==
  ASSUME TypeOK PROVE load_index \in Rows /\ load_index.policy_epoch = 0
<1> DEFINE found == view.found
           n == Len(found)
           placed == {i \in DOMAIN found : Readable(found[i])}
           Greatest(i) == \A j \in placed : i >= j
           i0 == CHOOSE i \in placed : Greatest(i)
           name == IF placed = {} THEN NoId ELSE found[i0]
<1>1. found \in Seq(Ids)
  <2>1. view \in Views
    BY LogLook, Zenon
  <2> QED BY <2>1 DEF Views
<1>2. n \in Nat /\ DOMAIN found = 1 .. n /\ \A i \in DOMAIN found : found[i] \in Ids
  <2> HIDE DEF found
  <2> QED BY <1>1
<1>3. placed \subseteq DOMAIN found
  BY Zenon
<1> HIDE DEF found, n, placed
<1>4. ASSUME placed # {} PROVE \E i \in placed : Greatest(i)
  <2> DEFINE T == {n - i : i \in placed}
  <2>1. T \in SUBSET Nat /\ T # {}
    BY <1>2, <1>3, <1>4, SMTT(30), Zenon
  <2> HIDE DEF T
  <2>2. PICK k \in T : \A m \in T : k <= m
    BY <2>1, Least, Zenon
  <2>3. PICK i \in placed : k = n - i
    BY DEF T
  <2>4. \A j \in placed : n - j \in T
    BY DEF T
  <2>5. \A j \in placed : i >= j
    BY <1>2, <1>3, <2>2, <2>3, <2>4, SMTT(30), Zenon
  <2> QED BY <2>5, Zenon
<1>5. name \in Ids \cup {NoId}
  <2>1. CASE placed = {}
    BY <2>1, Zenon
  <2>2. CASE placed # {}
    <3>1. i0 \in placed
      <4> HIDE DEF Greatest
      <4> QED BY <1>4, <2>2, Zenon
    <3> HIDE DEF i0
    <3> QED BY <1>2, <1>3, <2>2, <3>1, Zenon
  <2> QED BY <2>1, <2>2, Zenon
<1>6. load_index = [NoRow EXCEPT !.id = name]
  BY Zenon DEF load_index, found, placed
<1> HIDE DEF name
<1> QED BY <1>5, <1>6 DEF NoRow, Rows

\* open that finds the index lost.
LEMMA RebuildKeeps ==
  ASSUME EngineInv, RebuildIndex PROVE EngineInv'
<1>1. /\ todo = <<>> /\ todo' = todo /\ index = Lost /\ Recorded # {}
      /\ log' = <<view>> /\ index' = load_index
      /\ UNCHANGED <<content, stamp, files, policy, list, crashes, losses>>
  BY Zenon DEF RebuildIndex, Idle, Forgotten, Recorded, world, signed
<1>2. view \in Survivors /\ view \in Views /\ TypeOK
  BY LogLook, Zenon DEF EngineInv
<1>3. log' \in Seq(Views) /\ log' # <<>> /\ Survivors' = {view}
  BY <1>1, <1>2, LogGrows, Zenon
<1>4. index' \in Rows /\ index'.policy_epoch = 0
  BY <1>1, <1>2, Rebuilt, Zenon
<1>5. todo' \in Seq(Writes) /\ Linked(todo') /\ Revoking(todo') /\ \A K : Covered(todo', K)
  BY <1>1, NothingLeft, Zenon
<1>6. TypeOK'
  BY <1>1, <1>3, <1>4, <1>5, Zenon DEF EngineInv, TypeOK
<1>7. Ordered'
  BY <1>1, <1>5, Zenon DEF Ordered
<1>8. AuthorityKept'
  BY <1>1, <1>2, <1>3, Authority, Zenon DEF EngineInv
<1>9. RowsSound'
  BY <1>4, <1>5, Zenon DEF RowsSound
<1>10. ~(crashes = 0 /\ losses = 0)
  BY <1>1, AtRest, Zenon
<1>11. TrustSound'
  BY <1>1, <1>10, Zenon DEF TrustSound
<1> QED BY <1>5, <1>6, <1>7, <1>8, <1>9, <1>11, Zenon DEF EngineInv

-----------------------------------------------------------------------------
(***************************************************************************)
(* The theorems.                                                           *)
(***************************************************************************)

\* Every step keeps it.
LEMMA EngineKeeps ==
  ASSUME EngineInv, [Next]_vars PROVE EngineInv'
<1>1. CASE scan
  BY <1>1, ScanKeeps, Zenon
<1>2. CASE decide_exec
  BY <1>2, DecideKeeps, Zenon
<1>3. CASE set_policy
  BY <1>3, PolicyKeeps, Zenon
<1>4. CASE \E id \in Ids, cell \in Grants : approve(id, cell)
  BY <1>4, ApproveKeeps, Zenon
<1>5. CASE \E members \in SUBSET Ids : enroll_baseline(members)
  BY <1>5, EnrollKeeps, Zenon
<1>6. CASE \E id \in Ids, by_digest \in BOOLEAN : revoke_report(id, by_digest)
  BY <1>6, RevokeReportKeeps, Zenon
<1>7. CASE Step
  BY <1>7, StepKeeps, Zenon
<1>8. CASE Fail
  BY <1>8, FailKeeps, Zenon
<1>9. CASE PowerCut
  BY <1>9, PowerCutKeeps, Zenon
<1>10. CASE RebuildIndex
  BY <1>10, RebuildKeeps, Zenon
<1>11. CASE Edit
  BY <1>11, EditKeeps, Zenon
<1>12. CASE Age \/ LoseIndex
  BY <1>12, IndexKeeps, Zenon
<1>13. CASE UNCHANGED vars
  <2>1. UNCHANGED <<content, stamp, log, files, policy, list, index, todo, crashes, losses>>
    BY <1>13, Zenon DEF vars, world, signed
  <2>2. view' = view /\ Survivors' = Survivors /\ Recorded' = Recorded
    BY <2>1, Zenon DEF view, Survivors, Recorded
  <2>3. TypeOK' /\ Ordered' /\ RowsSound'
    BY <2>1, <2>2, Zenon DEF EngineInv, TypeOK, Ordered, Ready, RowsSound
  <2>4. AuthorityKept'
    BY <2>1, <2>2, Authority, Zenon DEF EngineInv
  <2>5. TrustSound'
    BY <2>1, <2>2, Zenon DEF EngineInv, TrustSound, EndsWith, Distrusted
  <2> QED BY <2>1, <2>3, <2>4, <2>5, Zenon DEF EngineInv
<1> QED BY <1>1, <1>2, <1>3, <1>4, <1>5, <1>6, <1>7, <1>8, <1>9, <1>10, <1>11, <1>12, <1>13, Zenon DEF Next

\* The invariant of the state directory.
THEOREM EngineInvariant == Spec => []EngineInv
<1>1. Init => EngineInv
  BY EngineStarts, Zenon
<1>2. EngineInv /\ [Next]_vars => EngineInv'
  BY EngineKeeps, Zenon
<1> QED BY <1>1, <1>2, PTL DEF Spec

\* Whatever operations ran, in whatever order, and wherever a failure, a kill or a power
\* cut stopped one: the engine that opens next finds the file of every approval that
\* the ledger calls current, and a policy and a revocation list no older than the
\* ledger's floors (install_override, set_policy and revoke_report write the file
\* first, the event second, and remove last).
THEOREM AuthoritySurvives == Spec => []AuthorityKept
<1>1. EngineInv => AuthorityKept
  BY Zenon DEF EngineInv
<1> QED BY <1>1, EngineInvariant, PTL

\* However often the machine crashed, a row that a measurement saved names an artifact
\* of which every ledger that a power cut could leave has a state: scan, decide_exec,
\* approve and enroll_baseline make the events durable before they save the index.
THEOREM RowsFollowEvents == Spec => []RowBehindEvents
<1>1. EngineInv => RowBehindEvents
  BY Zenon DEF EngineInv, RowsSound, RowBehindEvents
<1> QED BY <1>1, EngineInvariant, PTL

\* While nothing crashed and the index was not lost, whatever was approved, enrolled,
\* replaced, measured again and revoked: when no operation is under way, only the
\* artifact that the index names is VERIFIED or ADMITTED (process calls on_replaced
\* for what the row named before).
THEOREM ReplacedIsDistrusted == Spec => []ReplacedLosesTrust
<1>1. EngineInv => ReplacedLosesTrust
  BY AtRest, Zenon DEF ReplacedLosesTrust, Idle
<1> QED BY <1>1, EngineInvariant, PTL

=============================================================================
