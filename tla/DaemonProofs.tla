---------------------------- MODULE DaemonProofs ----------------------------
(***************************************************************************)
(* Proofs that the verdicts the exec gate answers from are fresh and       *)
(* earned, for every number of files, users, changes and ticks of the      *)
(* clocks, and whoever holds the ledger lock; and that the budgets of the  *)
(* gate bound what a user gets of it.                                      *)
(***************************************************************************)
EXTENDS ExecGate, Budgets, TLAPS

USE GateAssumption

Entries == [stamp : Nat, generation : Nat, allow : BOOLEAN, expires : Nat, valid_until : Nat,
            content : Nat, version : Nat, drift : Nat, late : Nat, asleep : Nat]

Verdicts == [allowed : BOOLEAN, enforce : BOOLEAN, max_age : Nat, content : Nat, version : Nat, drift : Nat,
             decided : Nat]

Places == {"poll", "drain", "hint", "load", "batch", "decide", "conclude", "flush", "stopped"}

Gates == [at : Places, fan : BOOLEAN, g : Nat, batch : SUBSET Execs, exec : Execs \cup {NoExec}, stamp : Nat,
          verdict : Verdicts, reply : {"none", "allow", "deny"}]

Counts == [Files -> Nat]

TypeOK ==
  /\ stamp \in Counts /\ drift \in Counts /\ published \in Counts
  /\ signed \in [version : Nat, content : Nat, enforce : BOOLEAN, until : Nat]
  /\ wall \in Nat /\ mono \in Nat /\ generation \in Nat /\ seen_gen \in Nat
  /\ lock \in {"free", "operator"} /\ notify \in BOOLEAN
  /\ held \in SUBSET Execs /\ gate \in Gates /\ cache \in [Files -> Entries]
  /\ rescan \in [todo : SUBSET Files, changed : BOOLEAN, seen : Counts]

Busy == gate.at \in {"batch", "decide", "conclude"}

\* The generation the next answers come from.
Current == IF Busy THEN gate.g ELSE generation

\* Generations only grow; entries are of the past and, for the rest, of the
\* generation of the batch at most.  0 is the generation of no entry at all.
Generations ==
  /\ generation # 0 /\ gate.g <= generation
  /\ \A f \in Files : cache[f].generation <= gate.g

\* The file is known while its verdict is under way.
Deciding == gate.at \in {"decide", "conclude"} => gate.exec[1] \in Files

\* A verdict that allows is what the signed state grants and ends with the grant; an
\* entry ends later by the time from the decision to the entry.
GoodVerdict(v, s) ==
  /\ v.version = s.version /\ v.enforce = s.enforce
  /\ v.allowed => v.content = s.content /\ v.drift % 2 = 0 /\ v.decided + v.max_age <= s.until

GoodEntry(c, s) ==
  /\ c.version = s.version
  /\ c.allow /\ Enforced(s.enforce) => c.content = s.content /\ c.drift % 2 = 0 /\ c.valid_until <= s.until + c.late

\* Unless inotify has more to read, what may be answered from, and the verdict
\* under way, were decided under the signed state, and nobody is changing it: an
\* operator has been reported, and the generation raised, before the lock is free.
StateFresh ==
  /\ \A f \in Files : ~notify /\ cache[f].generation = Current => GoodEntry(cache[f], signed) /\ lock = "free"
  /\ gate.at = "conclude" /\ ~notify => GoodVerdict(gate.verdict, signed) /\ lock = "free"

\* The same for the evidence of a pass that moved something: the generation is
\* raised with the publication.
PassSound ==
  /\ \A f \in Files : published[f] <= drift[f] /\ rescan.seen[f] <= drift[f]
  /\ rescan.todo # {} /\ ~rescan.changed => rescan.seen = published

EvidenceFresh ==
  /\ \A f \in Files : cache[f].generation = generation => cache[f].drift >= published[f]
  /\ gate.at = "conclude" /\ gate.g = generation => gate.verdict.drift >= published[gate.exec[1]]

\* A stamp is taken before the file is measured, and stamps only grow.
StampFirst ==
  /\ \A f \in Files : cache[f].stamp <= cache[f].content /\ cache[f].content <= stamp[f]
  /\ gate.at = "decide" => gate.stamp <= stamp[gate.exec[1]]
  /\ gate.at = "conclude" => gate.stamp <= gate.verdict.content /\ gate.verdict.content <= stamp[gate.exec[1]]

\* The monotonic clock is never ahead of the wall clock, and an entry lasts no longer
\* by the one than by the other as long as the machine is not suspended again.
ClocksSound ==
  /\ mono <= wall
  /\ \A f \in Files : cache[f].expires + cache[f].asleep <= cache[f].valid_until
  /\ gate.at = "conclude" => gate.verdict.decided <= wall

GateInv ==
  /\ TypeOK /\ Generations /\ Deciding
  /\ StateFresh /\ PassSound /\ EvidenceFresh /\ StampFirst /\ ClocksSound

-----------------------------------------------------------------------------
(***************************************************************************)
(* The steps of the gate thread.                                           *)
(***************************************************************************)

\* What a step of the gate leaves alone when it settles no verdict.
Rest == <<stamp, drift, signed, wall, mono, lock, cache, rescan, published>>

\* Between batches: entries of the batch's generation are the only ones that can be
\* of the present one.
LEMMA QuietMove ==
  ASSUME GateInv, gate' \in Gates, gate'.g = gate.g, gate'.at \notin {"batch", "decide", "conclude"},
         UNCHANGED <<Rest, notify, generation>>, seen_gen' \in Nat, held' \in SUBSET Execs
  PROVE  GateInv'
<1> USE DEF GateInv, Rest
<1>1. TypeOK' /\ Generations' /\ Deciding' /\ PassSound' /\ EvidenceFresh' /\ StampFirst' /\ ClocksSound'
  BY Zenon DEF TypeOK, Generations, Deciding, PassSound, EvidenceFresh, StampFirst, ClocksSound
<1>2. \A f \in Files : cache[f].generation = generation => cache[f].generation = Current
  BY DEF TypeOK, Generations, Current, Gates, Entries
<1>3. StateFresh'
  BY <1>2, Zenon DEF StateFresh, Current, Busy
<1> QED
  BY <1>1, <1>3, Zenon

\* An answer within a batch.
LEMMA AnswerMove ==
  ASSUME GateInv, gate.at \in {"batch", "decide"}, gate' \in Gates, gate'.g = gate.g, gate'.at = "batch",
         UNCHANGED <<Rest, notify, generation>>, seen_gen' \in Nat, held' \in SUBSET Execs
  PROVE  GateInv'
<1> USE DEF GateInv, Rest
<1>1. TypeOK' /\ Generations' /\ Deciding' /\ PassSound' /\ EvidenceFresh' /\ StampFirst' /\ ClocksSound'
  BY Zenon DEF TypeOK, Generations, Deciding, PassSound, EvidenceFresh, StampFirst, ClocksSound
<1>2. StateFresh'
  BY Zenon DEF StateFresh, Current, Busy
<1> QED
  BY <1>1, <1>2, Zenon

\* write_response: the gate is back in its batch.
LEMMA Answered ==
  ASSUME gate \in Gates, held \in SUBSET Execs, NEW e, NEW allow \in BOOLEAN, Respond(e, allow)
  PROVE  gate' \in Gates /\ gate'.g = gate.g /\ gate'.at = "batch" /\ held' \in SUBSET Execs
<1>1. /\ gate.batch \ {e} \in SUBSET Execs /\ NoExec \in Execs \cup {NoExec} /\ NoVerdict \in Verdicts
      /\ (IF allow THEN "allow" ELSE "deny") \in {"none", "allow", "deny"} /\ "batch" \in Places
  BY Zenon DEF Gates, NoVerdict, Verdicts, Places
<1>2. gate' = [gate EXCEPT !.at = "batch", !.batch = gate.batch \ {e}, !.exec = NoExec, !.stamp = 0,
                           !.verdict = NoVerdict, !.reply = IF allow THEN "allow" ELSE "deny"]
  BY Zenon DEF Respond
<1>3. gate' \in Gates /\ gate'.g = gate.g /\ gate'.at = "batch"
  BY <1>1, <1>2, Zenon DEF Gates
<1> QED
  BY <1>3, Zenon DEF Respond

\* A verdict is asked for: the stamp is taken now.
LEMMA AskMove ==
  ASSUME GateInv, gate.at = "batch", NEW e \in gate.batch,
         gate' = [gate EXCEPT !.at = "decide", !.exec = e, !.stamp = stamp[e[1]], !.reply = "none"],
         UNCHANGED <<Rest, notify, generation, seen_gen, held>>
  PROVE  GateInv'
<1> USE DEF GateInv, Rest
<1>1. e \in Execs /\ e[1] \in Files /\ stamp[e[1]] \in Nat
  BY Zenon DEF TypeOK, Gates, Execs, Counts
<1>2. gate' \in Gates /\ gate'.g = gate.g /\ gate'.at = "decide" /\ gate'.exec = e /\ gate'.stamp = stamp[e[1]]
  BY <1>1, Zenon DEF TypeOK, Gates, Places
<1>3. TypeOK' /\ Generations' /\ Deciding' /\ PassSound' /\ ClocksSound'
  BY <1>1, <1>2, Zenon DEF TypeOK, Generations, Deciding, PassSound, ClocksSound
<1>4. StateFresh' /\ EvidenceFresh'
  BY <1>2, Zenon DEF StateFresh, EvidenceFresh, Current, Busy
<1>5. StampFirst'
  BY <1>1, <1>2 DEF StampFirst
<1> QED
  BY <1>3, <1>4, <1>5, Zenon

\* decide: with the lock, so that no operator is at work.
LEMMA DecideMove ==
  ASSUME GateInv, Decide
  PROVE  GateInv'
<1> USE DEF GateInv, Rest
<1> DEFINE f == gate.exec[1]
<1>1. PICK measured \in BOOLEAN : gate' = [gate EXCEPT !.at = "conclude", !.verdict = Verdict(f, measured)]
  BY Zenon DEF Decide
<1>2. gate.at = "decide" /\ lock = "free" /\ UNCHANGED <<Rest, notify, generation, seen_gen, held>>
  BY Zenon DEF Decide, machine, daemon
<1>3. f \in Files /\ gate \in Gates
  BY <1>2, Zenon DEF Deciding, TypeOK
<1> HIDE DEF f
<1> DEFINE v == Verdict(f, measured)
<1>4. /\ v \in Verdicts /\ v.content = stamp[f] /\ v.drift = drift[f] /\ v.decided = wall
      /\ GoodVerdict(v, signed)
  <2>1. stamp[f] \in Nat /\ drift[f] \in Nat /\ signed.version \in Nat /\ signed.enforce \in BOOLEAN
    BY <1>3, Zenon DEF TypeOK, Counts
  <2>2. (IF ~measured THEN 1 ELSE IF wall < signed.until THEN signed.until - wall ELSE Lifetime) \in Nat
    BY DEF TypeOK
  <2>3. (measured /\ Allowed(f)) \in BOOLEAN
    BY Zenon DEF Allowed
  <2>4. wall \in Nat /\ signed.until \in Nat
    BY Zenon DEF TypeOK
  <2>5. /\ v.allowed = (measured /\ Allowed(f)) /\ v.enforce = signed.enforce /\ v.version = signed.version
        /\ v.max_age = IF ~measured THEN 1 ELSE IF wall < signed.until THEN signed.until - wall ELSE Lifetime
        /\ v.content = stamp[f] /\ v.drift = drift[f] /\ v.decided = wall
    BY Zenon DEF Verdict
  <2>6. v \in Verdicts
    BY <2>1, <2>2, <2>3, <2>4, Zenon DEF Verdict, Verdicts
  <2> HIDE DEF v
  <2>7. ASSUME v.allowed
        PROVE  v.content = signed.content /\ v.drift % 2 = 0 /\ v.decided + v.max_age <= signed.until
    <3>1. measured /\ stamp[f] = signed.content /\ drift[f] % 2 = 0 /\ wall < signed.until
      BY <2>5, <2>7, Zenon DEF Allowed
    <3>2. v.max_age = signed.until - wall
      BY <2>5, <3>1, Zenon
    <3>3. v.decided + v.max_age <= signed.until
      BY <2>4, <2>5, <3>2
    <3> QED
      BY <2>5, <3>1, <3>3, Zenon
  <2> QED
    BY <2>5, <2>6, <2>7, Zenon DEF GoodVerdict
<1> HIDE DEF v
<1>5. gate' \in Gates /\ gate'.at = "conclude" /\ gate'.verdict = v /\ gate'.g = gate.g /\ gate'.stamp = gate.stamp
      /\ gate'.exec = gate.exec
  BY <1>1, <1>3, <1>4, Zenon DEF Gates, Places, v
<1>6. TypeOK' /\ Generations' /\ Deciding' /\ PassSound'
  BY <1>2, <1>3, <1>5, Zenon DEF TypeOK, Generations, Deciding, PassSound, f
<1>10. ClocksSound'
  BY <1>2, <1>4, <1>5 DEF ClocksSound, TypeOK
<1>7. StateFresh'
  BY <1>2, <1>4, <1>5, Zenon DEF StateFresh, Current, Busy
<1>8. EvidenceFresh'
  BY <1>2, <1>3, <1>4, <1>5, Zenon DEF EvidenceFresh, PassSound, TypeOK, Counts, f
<1>9. StampFirst'
  BY <1>2, <1>3, <1>4, <1>5 DEF StampFirst, TypeOK, Counts, f
<1> QED
  BY <1>6, <1>7, <1>8, <1>9, <1>10, Zenon

\* The verdict is cached: the entry is as fresh and as earned as the verdict was.
LEMMA ConcludeMove ==
  ASSUME GateInv, Conclude
  PROVE  GateInv'
<1> USE DEF GateInv
<1> DEFINE f == gate.exec[1]
           v == gate.verdict
           c == entry(v)
<1>1. gate.at = "conclude" /\ f \in Files /\ gate \in Gates /\ v \in Verdicts
  BY Zenon DEF Conclude, Deciding, TypeOK, Gates
<1>2. cache' = [cache EXCEPT ![f] = c] /\ Respond(gate.exec, c.allow)
  BY Zenon DEF Conclude
<1>3. UNCHANGED <<stamp, drift, signed, wall, mono, lock, rescan, published, notify, generation, seen_gen>>
  BY Zenon DEF Conclude, machine
<1>4. /\ c.stamp = gate.stamp /\ c.generation = gate.g /\ c.allow = Lets(v)
      /\ c.expires = mono + Least(v.max_age, Hour) /\ c.valid_until = wall + v.max_age
      /\ c.content = v.content /\ c.version = v.version /\ c.drift = v.drift
      /\ c.late = wall - v.decided /\ c.asleep = wall - mono
  BY Zenon DEF entry, Entry
<1>5. /\ Least(v.max_age, Hour) \in Nat /\ Least(v.max_age, Hour) <= v.max_age /\ v.max_age \in Nat
      /\ v.decided \in Nat /\ v.decided <= wall /\ mono <= wall /\ wall \in Nat /\ mono \in Nat
  <2>1. v.max_age \in Nat /\ v.decided \in Nat /\ v.decided <= wall /\ mono <= wall /\ wall \in Nat /\ mono \in Nat
    BY <1>1, Zenon DEF Verdicts, ClocksSound, TypeOK
  <2> QED
    BY <2>1 DEF Least
<1>6. c \in Entries /\ c.allow \in BOOLEAN
  <2>1. Lets(v) \in BOOLEAN
    BY Zenon DEF Lets
  <2>2. /\ mono + Least(v.max_age, Hour) \in Nat /\ wall + v.max_age \in Nat
        /\ wall - v.decided \in Nat /\ wall - mono \in Nat
    BY <1>5
  <2>3. gate.stamp \in Nat /\ gate.g \in Nat /\ v.content \in Nat /\ v.version \in Nat /\ v.drift \in Nat
    BY <1>1, Zenon DEF Gates, Verdicts
  <2>4. c \in Entries
    BY <2>1, <2>2, <2>3, Zenon DEF entry, Entry, Entries
  <2> QED
    BY <1>4, <2>1, <2>4, Zenon
<1> HIDE DEF c
<1>7. gate' \in Gates /\ gate'.g = gate.g /\ gate'.at = "batch" /\ held' \in SUBSET Execs
  BY <1>1, <1>2, <1>6, Answered, Zenon DEF TypeOK
<1> HIDE DEF f, v
<1>8. cache' \in [Files -> Entries] /\ cache'[f] = c /\ \A x \in Files \ {f} : cache'[x] = cache[x]
  BY <1>1, <1>2, <1>6, Zenon DEF TypeOK
<1>9. TypeOK' /\ Deciding' /\ PassSound'
  BY <1>3, <1>7, <1>8, Zenon DEF TypeOK, Deciding, PassSound
<1>10. Generations'
  BY <1>3, <1>4, <1>7, <1>8 DEF Generations, TypeOK, Gates
<1>15. ASSUME ~notify
       PROVE  GoodEntry(c, signed) /\ lock = "free"
  <2>1. GoodVerdict(v, signed) /\ lock = "free"
    BY <1>1, <1>15, Zenon DEF StateFresh, v
  <2>2. ASSUME c.allow, Enforced(signed.enforce)
        PROVE  c.content = signed.content /\ c.drift % 2 = 0 /\ c.valid_until <= signed.until + c.late
    <3>1. v.allowed
      BY <1>4, <2>1, <2>2, Zenon DEF GoodVerdict, Lets
    <3>2. v.content = signed.content /\ v.drift % 2 = 0 /\ v.decided + v.max_age <= signed.until
      BY <2>1, <3>1, Zenon DEF GoodVerdict
    <3>3. signed.until \in Nat
      BY Zenon DEF TypeOK
    <3>4. c.valid_until <= signed.until + c.late
      BY <1>4, <1>5, <3>2, <3>3
    <3> QED
      BY <1>4, <3>2, <3>4, Zenon
  <2> QED
    BY <1>4, <2>1, <2>2, Zenon DEF GoodEntry, GoodVerdict
<1>11. StateFresh'
  BY <1>1, <1>3, <1>7, <1>8, <1>15, Zenon DEF StateFresh, Current, Busy
<1>12. EvidenceFresh'
  BY <1>1, <1>3, <1>4, <1>7, <1>8, Zenon DEF EvidenceFresh, v, f
<1>13. StampFirst'
  BY <1>1, <1>3, <1>4, <1>7, <1>8, Zenon DEF StampFirst, v, f
<1>14. ClocksSound'
  <2>1. c.expires + c.asleep <= c.valid_until
    BY <1>4, <1>5
  <2> QED
    BY <1>3, <1>7, <1>8, <2>1, Zenon DEF ClocksSound
<1> QED
  BY <1>9, <1>10, <1>11, <1>12, <1>13, <1>14, Zenon

\* What an empty cache holds.
LEMMA EmptyCache ==
  /\ NoEntry \in Entries /\ NoEntry.generation = 0 /\ NoEntry.stamp = 0 /\ NoEntry.content = 0
  /\ NoEntry.expires = 0 /\ NoEntry.valid_until = 0 /\ NoEntry.asleep = 0
  /\ [f \in Files |-> NoEntry] \in [Files -> Entries]
BY Zenon DEF NoEntry, Entries

\* The generation of the batch: an entry of another one is dropped or useless.
LEMMA LoadMove ==
  ASSUME GateInv, Load
  PROVE  GateInv'
<1> USE DEF GateInv
<1>1. gate.at = "load" /\ UNCHANGED <<stamp, drift, signed, wall, mono, lock, rescan, published, notify, generation, held>>
  BY Zenon DEF Load, machine
<1>2. seen_gen' = generation /\ (cache' = cache \/ cache' = [f \in Files |-> NoEntry])
  BY Zenon DEF Load
<1>3. gate' \in Gates /\ gate'.g = generation /\ gate'.at \in {"batch", "flush"}
  <2>1. (IF gate.fan THEN "batch" ELSE "flush") \in {"batch", "flush"} /\ {"batch", "flush"} \subseteq Places
    BY Zenon DEF Places
  <2>2. (IF gate.fan THEN held ELSE {}) \in SUBSET Execs
    BY Zenon DEF TypeOK
  <2> QED
    BY <2>1, <2>2, Zenon DEF Load, TypeOK, Gates
<1>4. cache' \in [Files -> Entries]
  BY <1>2, EmptyCache, Zenon DEF TypeOK
<1>5. TypeOK' /\ Deciding' /\ PassSound'
  BY <1>1, <1>2, <1>3, <1>4, Zenon DEF TypeOK, Deciding, PassSound
<1>6. \A f \in Files : cache'[f] = cache[f] \/ cache'[f] = NoEntry
  BY <1>2, Zenon
<1>7. Generations'
  BY <1>1, <1>3, <1>6, EmptyCache DEF Generations, TypeOK, Gates, Entries
<1>8. StateFresh'
  BY <1>1, <1>3, <1>6, EmptyCache, Zenon DEF StateFresh, Generations, Current, Busy
<1>9. EvidenceFresh'
  BY <1>1, <1>3, <1>6, EmptyCache, Zenon DEF EvidenceFresh, Generations
<1>10. StampFirst' /\ ClocksSound'
  BY <1>1, <1>3, <1>6, EmptyCache DEF StampFirst, ClocksSound, TypeOK, Counts
<1> QED
  BY <1>5, <1>7, <1>8, <1>9, <1>10, Zenon

\* The generation is raised: every entry is of an earlier one.
LEMMA DrainMove ==
  ASSUME GateInv, Drain
  PROVE  GateInv'
<1> USE DEF GateInv
<1>1. gate.at = "drain" /\ UNCHANGED <<Rest, held, seen_gen>> /\ notify' = FALSE /\ generation' = generation + 1
  BY Zenon DEF Drain, drained, machine, Rest
<1>2. gate' \in Gates /\ gate'.g = gate.g /\ gate'.at = "hint"
  BY Zenon DEF Drain, Goto, TypeOK, Gates, Places
<1>3. \A f \in Files : cache[f].generation # generation'
  BY <1>1 DEF Generations, TypeOK, Gates, Entries
<1>4. TypeOK' /\ Generations' /\ Deciding' /\ PassSound' /\ StampFirst' /\ ClocksSound'
  <2>1. gate.g \in Nat /\ generation \in Nat
    BY Zenon DEF TypeOK, Gates
  <2>2. TypeOK'
    <3>1. notify' \in BOOLEAN
      BY <1>1, Zenon
    <3>2. generation' \in Nat
      BY <1>1, <2>1
    <3>3. UNCHANGED <<stamp, drift, published, signed, wall, mono, seen_gen, lock, held, cache, rescan>>
      BY <1>1, Zenon DEF Rest
    <3> QED
      BY <1>2, <3>1, <3>2, <3>3, Zenon DEF TypeOK
  <2>3. Generations' /\ Deciding'
    BY <1>1, <1>2, <2>1 DEF Generations, Deciding, Rest
  <2> QED
    BY <1>1, <1>2, <2>2, <2>3, Zenon DEF PassSound, StampFirst, ClocksSound, Rest
<1>5. StateFresh' /\ EvidenceFresh'
  BY <1>1, <1>2, <1>3, Zenon DEF StateFresh, EvidenceFresh, Current, Busy, Rest
<1> QED
  BY <1>4, <1>5, Zenon

\* Every step of the gate thread.
LEMMA GateMove ==
  ASSUME GateInv, GateStep \/ Stop
  PROVE  GateInv'
<1>0. gate \in Gates /\ held \in SUBSET Execs /\ seen_gen \in Nat
  BY Zenon DEF GateInv, TypeOK
<1>1. CASE Poll \/ Hint \/ BatchDone \/ Flush \/ Stop
  <2>1. UNCHANGED <<Rest, notify, generation>> /\ seen_gen' \in Nat /\ held' \in SUBSET Execs
    BY <1>0, <1>1, Zenon DEF Poll, Hint, BatchDone, Flush, Stop, Rest, machine, daemon
  <2>2. CASE Poll
    <3>1. (held # {}) \in BOOLEAN /\ (IF notify THEN "drain" ELSE "load") \in {"drain", "load"}
      OBVIOUS
    <3>2. gate' \in Gates /\ gate'.g = gate.g /\ gate'.at \in {"drain", "load"}
      BY <1>0, <2>2, <3>1, Zenon DEF Poll, Gates, Places
    <3> QED
      BY <2>1, <3>2, QuietMove, Zenon
  <2>3. CASE Hint \/ BatchDone \/ Flush \/ Stop
    <3>1. gate' \in Gates /\ gate'.g = gate.g /\ gate'.at \in {"load", "flush", "poll", "stopped"}
      BY <1>0, <2>3, ZenonT(60) DEF Hint, BatchDone, Flush, Stop, Goto, Gates, Places
    <3> QED
      BY <2>1, <3>1, QuietMove, Zenon
  <2> QED
    BY <1>1, <2>2, <2>3, Zenon
<1>2. CASE Take
  <2>1. gate.at = "batch" /\ UNCHANGED <<Rest, notify, generation, seen_gen>>
    BY <1>2, Zenon DEF Take, Rest, machine, daemon
  <2>2. PICK e \in gate.batch :
          \/ \E allow \in BOOLEAN : Respond(e, allow)
          \/ /\ gate' = [gate EXCEPT !.at = "decide", !.exec = e, !.stamp = stamp[e[1]], !.reply = "none"]
             /\ UNCHANGED held
    <3>1. PICK e \in gate.batch :
            LET f == e[1]
                c == cache[f]
            IN  \/ e[2] = "self" /\ Respond(e, TRUE)
                \/ Hit(c, f) /\ Respond(e, c.allow)
                \/ ~Hit(c, f) /\ e[2] = "user" /\ Respond(e, throttled_answer(c, f))
                \/ ~Hit(c, f) /\ gate' = [gate EXCEPT !.at = "decide", !.exec = e, !.stamp = stamp[f], !.reply = "none"]
                   /\ UNCHANGED held
                \/ Respond(e, ~FailClosed)
      BY <1>2, Zenon DEF Take
    <3>2. e[1] \in Files
      BY <1>0, Zenon DEF Gates, Execs
    <3>3. cache[e[1]].allow \in BOOLEAN /\ throttled_answer(cache[e[1]], e[1]) \in BOOLEAN /\ (~FailClosed) \in BOOLEAN
      BY <3>2, Zenon DEF GateInv, TypeOK, Entries, throttled_answer
    <3> QED
      BY <3>1, <3>3, Zenon
  <2>3. CASE \E allow \in BOOLEAN : Respond(e, allow)
    BY <1>0, <2>1, <2>3, Answered, AnswerMove, Zenon
  <2>4. CASE /\ gate' = [gate EXCEPT !.at = "decide", !.exec = e, !.stamp = stamp[e[1]], !.reply = "none"]
             /\ UNCHANGED held
    BY <2>1, <2>4, AskMove, Zenon
  <2> QED
    BY <2>2, <2>3, <2>4, Zenon
<1>3. CASE DecideFails
  <2>1. gate.at = "decide" /\ UNCHANGED <<Rest, notify, generation, seen_gen>> /\ Respond(gate.exec, ~FailClosed)
    BY <1>3, Zenon DEF DecideFails, Rest, machine
  <2>2. (~FailClosed) \in BOOLEAN
    OBVIOUS
  <2>3. gate' \in Gates /\ gate'.g = gate.g /\ gate'.at = "batch" /\ held' \in SUBSET Execs
    BY <1>0, <2>1, <2>2, Answered, Zenon
  <2> QED
    BY <1>0, <2>1, <2>3, AnswerMove, Zenon
<1> QED
  BY <1>1, <1>2, <1>3, DrainMove, LoadMove, DecideMove, ConcludeMove, Zenon DEF GateStep

-----------------------------------------------------------------------------
(***************************************************************************)
(* The rescan thread and the rest of the machine.                          *)
(***************************************************************************)

\* A pass publishes what it saw together with a new generation, or saw nothing new.
LEMMA SliceMove ==
  ASSUME GateInv, RescanSlice
  PROVE  GateInv'
<1> USE DEF GateInv
<1>1. PICK f \in rescan.todo, found \in BOOLEAN : slice(f, found)
  <2>1. PICK f \in rescan.todo : slice(f, known[f] # Allowed(f)) \/ slice(f, FALSE)
    BY Zenon DEF RescanSlice
  <2> QED
    BY <2>1, Zenon
<1>2. UNCHANGED <<stamp, drift, signed, wall, mono, lock, notify, held, gate, cache, seen_gen>>
  BY Zenon DEF RescanSlice, machine
<1> DEFINE seen == IF found THEN [rescan.seen EXCEPT ![f] = drift[f]] ELSE rescan.seen
           changed == rescan.changed \/ found
           last == rescan.todo = {f}
<1>3. /\ rescan' = [todo |-> rescan.todo \ {f}, changed |-> changed /\ ~last, seen |-> seen]
      /\ generation' = generation + (IF last /\ changed THEN 1 ELSE 0)
      /\ published' = IF last THEN seen ELSE published
  BY <1>1, Zenon DEF slice
<1>4. f \in Files /\ rescan.todo \in SUBSET Files /\ rescan.seen \in Counts /\ rescan.changed \in BOOLEAN
      /\ drift \in Counts /\ published \in Counts /\ generation \in Nat /\ gate.g \in Nat
  BY Zenon DEF TypeOK, Gates
<1>5. seen \in Counts /\ \A x \in Files : seen[x] <= drift[x]
  BY <1>4 DEF PassSound, Counts
<1>6. ~changed => seen = published
  BY <1>1, Zenon DEF PassSound
<1>7. (changed /\ ~last) \in BOOLEAN /\ last \in BOOLEAN /\ changed \in BOOLEAN
  BY <1>4, Zenon
<1> HIDE DEF seen, changed, last
<1>8. /\ rescan' \in [todo : SUBSET Files, changed : BOOLEAN, seen : Counts]
      /\ rescan'.todo = rescan.todo \ {f} /\ rescan'.changed = (changed /\ ~last) /\ rescan'.seen = seen
  BY <1>3, <1>4, <1>5, <1>7, Zenon
<1>9. generation' \in Nat /\ generation <= generation' /\ published' \in Counts
      /\ (generation' = generation => published' = published)
  BY <1>3, <1>4, <1>5, <1>6
<1>10. PassSound'
  <2>1. \A x \in Files : published'[x] <= drift[x]
    BY <1>3, <1>5, Zenon DEF PassSound
  <2>2. rescan'.todo # {} => ~last
    BY <1>8, Zenon DEF last
  <2>3. rescan'.todo # {} /\ ~rescan'.changed => rescan'.seen = published'
    BY <1>3, <1>6, <1>8, <2>2, Zenon
  <2> QED
    BY <1>2, <1>5, <1>8, <2>1, <2>3, Zenon DEF PassSound
<1>11. TypeOK' /\ Deciding' /\ StampFirst' /\ ClocksSound'
  BY <1>2, <1>8, <1>9, Zenon DEF TypeOK, Deciding, StampFirst, ClocksSound
<1>12. Generations'
  BY <1>2, <1>4, <1>9 DEF Generations
<1>13. \A x \in Files : cache[x].generation \in Nat /\ cache[x].generation <= generation
  BY <1>4 DEF Generations, TypeOK, Entries
<1>14. StateFresh'
  BY <1>2, <1>4, <1>9, <1>13 DEF StateFresh, Current, Busy, Generations
<1>15. EvidenceFresh'
  BY <1>2, <1>4, <1>9, <1>13 DEF EvidenceFresh, Generations
<1> QED
  BY <1>10, <1>11, <1>12, <1>14, <1>15, Zenon

\* The operators, the users, the owners of files, the evidence and the clocks.
LEMMA MachineMove ==
  ASSUME GateInv, RescanBegin \/ OperatorBegin \/ OperatorEnd \/ Exec \/ Edit \/ Drift \/ Tick
  PROVE  GateInv'
<1> USE DEF GateInv
<1>1. CASE RescanBegin
  <2>1. UNCHANGED <<machine, lock, notify, held, gate, cache, generation, seen_gen, published>>
        /\ rescan' = [todo |-> Files, changed |-> FALSE, seen |-> published]
    BY <1>1, Zenon DEF RescanBegin, daemon
  <2>2. rescan'.todo = Files /\ rescan'.seen = published /\ rescan' \in [todo : SUBSET Files, changed : BOOLEAN, seen : Counts]
    BY <2>1, Zenon DEF TypeOK
  <2>3. TypeOK' /\ PassSound'
    BY <2>1, <2>2, Zenon DEF TypeOK, PassSound, machine
  <2> QED
    BY <2>1, <2>3, Zenon DEF Generations, Deciding, StateFresh, EvidenceFresh, StampFirst, ClocksSound, Current, Busy, machine
<1>2. CASE OperatorBegin
  <2>1. UNCHANGED <<machine, held, gate, cache, generation, seen_gen, rescan, published>>
        /\ notify' = TRUE /\ lock' = "operator"
    BY <1>2, Zenon DEF OperatorBegin, daemon
  <2> QED
    BY <2>1, Zenon DEF TypeOK, Generations, Deciding, PassSound, StateFresh, EvidenceFresh, StampFirst, ClocksSound, machine
<1>3. CASE OperatorEnd
  <2>1. UNCHANGED <<stamp, drift, wall, mono, notify, held, gate, cache, generation, seen_gen, rescan, published>>
        /\ lock' = "free" /\ lock = "operator"
    BY <1>3, Zenon DEF OperatorEnd, daemon
  <2>2. signed' \in [version : Nat, content : Nat, enforce : BOOLEAN, until : Nat]
    <3>1. CASE UNCHANGED signed
      BY <3>1, Zenon DEF TypeOK
    <3>2. ASSUME NEW c \in 0 .. MaxEdits, NEW on \in BOOLEAN,
                 signed' = [version |-> signed.version + 1, content |-> c, enforce |-> on, until |-> wall + Lifetime]
          PROVE  signed' \in [version : Nat, content : Nat, enforce : BOOLEAN, until : Nat]
      <4>1. c \in Nat /\ signed.version + 1 \in Nat /\ wall + Lifetime \in Nat
        BY DEF TypeOK
      <4> QED
        BY <3>2, <4>1, Zenon
    <3> QED
      BY <1>3, <3>1, <3>2, Zenon DEF OperatorEnd
  <2>3. TypeOK'
    BY <2>1, <2>2, Zenon DEF TypeOK
  <2>4. StateFresh'
    BY <2>1, Zenon DEF StateFresh, Current, Busy
  <2> QED
    BY <2>1, <2>3, <2>4, Zenon DEF Generations, Deciding, PassSound, EvidenceFresh, StampFirst, ClocksSound
<1>4. CASE Exec
  <2>1. UNCHANGED <<machine, lock, notify, gate, cache, generation, seen_gen, rescan, published>>
        /\ held' \in SUBSET Execs
    BY <1>4, Zenon DEF Exec, daemon, TypeOK
  <2> QED
    BY <2>1, Zenon DEF TypeOK, Generations, Deciding, PassSound, StateFresh, EvidenceFresh, StampFirst, ClocksSound, Current,
                Busy, machine
<1>5. CASE Edit
  <2>1. PICK f \in Files : stamp' = [stamp EXCEPT ![f] = stamp[f] + 1]
    BY <1>5, Zenon DEF Edit
  <2>2. UNCHANGED <<drift, signed, wall, mono, lock, notify, held, gate, cache, generation, seen_gen, rescan, published>>
    BY <1>5, Zenon DEF Edit, daemon
  <2>3. stamp' \in Counts /\ \A x \in Files : stamp[x] \in Nat /\ stamp'[x] \in Nat /\ stamp[x] <= stamp'[x]
    BY <2>1 DEF TypeOK, Counts
  <2>4. TypeOK'
    BY <2>2, <2>3, Zenon DEF TypeOK
  <2>5. StampFirst'
    <3>1. \A x \in Files : cache[x].content \in Nat
      BY Zenon DEF TypeOK, Entries
    <3>2. gate.stamp \in Nat /\ gate.verdict.content \in Nat
      BY Zenon DEF TypeOK, Gates, Verdicts
    <3> QED
      BY <2>2, <2>3, <3>1, <3>2 DEF StampFirst, Deciding
  <2> QED
    BY <2>2, <2>4, <2>5, Zenon DEF Generations, Deciding, PassSound, StateFresh, EvidenceFresh, ClocksSound, Current, Busy
<1>6. CASE Drift
  <2>1. PICK f \in Files : drift' = [drift EXCEPT ![f] = drift[f] + 1]
    BY <1>6, Zenon DEF Drift
  <2>2. UNCHANGED <<stamp, signed, wall, mono, lock, notify, held, gate, cache, generation, seen_gen, rescan, published>>
    BY <1>6, Zenon DEF Drift, daemon
  <2>3. drift' \in Counts /\ \A x \in Files : drift[x] \in Nat /\ drift'[x] \in Nat /\ drift[x] <= drift'[x]
    BY <2>1 DEF TypeOK, Counts
  <2>4. TypeOK'
    BY <2>2, <2>3, Zenon DEF TypeOK
  <2>5. PassSound'
    <3>1. \A x \in Files : published[x] \in Nat /\ rescan.seen[x] \in Nat
      BY Zenon DEF TypeOK, Counts
    <3> QED
      BY <2>2, <2>3, <3>1 DEF PassSound
  <2> QED
    BY <2>2, <2>4, <2>5, Zenon DEF Generations, Deciding, StampFirst, StateFresh, EvidenceFresh, ClocksSound, Current, Busy
<1>7. CASE Tick
  <2>1. UNCHANGED <<stamp, drift, signed, lock, notify, held, gate, cache, generation, seen_gen, rescan, published>>
    BY <1>7, Zenon DEF Tick, daemon
  <2>2. wall' \in Nat /\ mono' \in Nat /\ mono' <= wall'
    BY <1>7 DEF Tick, TypeOK, ClocksSound
  <2>4. gate.at = "conclude" => gate.verdict.decided <= wall'
    <3>1. gate.verdict.decided \in Nat /\ wall \in Nat /\ wall' = wall + 1
      BY <1>7, Zenon DEF Tick, TypeOK, Gates, Verdicts
    <3> QED
      BY <3>1 DEF ClocksSound
  <2>3. TypeOK' /\ ClocksSound'
    BY <2>1, <2>2, <2>4, Zenon DEF TypeOK, ClocksSound
  <2> QED
    BY <2>1, <2>3, Zenon DEF Generations, Deciding, PassSound, StampFirst, StateFresh, EvidenceFresh, Current, Busy
<1> QED
  BY <1>1, <1>2, <1>3, <1>4, <1>5, <1>6, <1>7, Zenon

-----------------------------------------------------------------------------
(***************************************************************************)
(* The theorems.                                                           *)
(***************************************************************************)

\* GateInv is inductive.
LEMMA GateInvariance == Spec => []GateInv
<1>1. Init => GateInv
  <2> SUFFICES ASSUME Init PROVE GateInv
    OBVIOUS
  <2>1. /\ gate.at = "poll" /\ gate.g = 1 /\ generation = 1 /\ rescan.todo = {}
        /\ \A f \in Files : /\ cache[f] = NoEntry /\ stamp[f] = 0 /\ drift[f] = 0 /\ published[f] = 0
                            /\ rescan.seen[f] = 0
    BY Zenon DEF Init
  <2>2. gate \in Gates
    BY Zenon DEF Init, Gates, Places, NoVerdict, Verdicts
  <2>3. /\ stamp \in Counts /\ drift \in Counts /\ published \in Counts
        /\ rescan \in [todo : SUBSET Files, changed : BOOLEAN, seen : Counts]
        /\ signed \in [version : Nat, content : Nat, enforce : BOOLEAN, until : Nat]
    BY Zenon DEF Init, Counts
  <2>4. cache \in [Files -> Entries]
    BY EmptyCache, Zenon DEF Init
  <2>5. /\ wall \in Nat /\ mono \in Nat /\ generation \in Nat /\ seen_gen \in Nat /\ mono <= wall
        /\ lock \in {"free", "operator"} /\ held \in SUBSET Execs
    BY DEF Init
  <2>6. notify \in BOOLEAN
    BY Zenon DEF Init
  <2>7. TypeOK
    BY <2>2, <2>3, <2>4, <2>5, <2>6, Zenon DEF TypeOK
  <2> QED
    BY <2>1, <2>5, <2>7, EmptyCache DEF GateInv, Generations, Deciding, StateFresh, PassSound, EvidenceFresh, StampFirst,
                                        ClocksSound, Current, Busy
<1>2. GateInv /\ [Next]_vars => GateInv'
  <2> SUFFICES ASSUME GateInv, [Next]_vars PROVE GateInv'
    OBVIOUS
  <2>1. CASE UNCHANGED vars
    BY <2>1, Zenon DEF vars, machine, daemon, GateInv, TypeOK, Generations, Deciding, StateFresh, PassSound, EvidenceFresh,
                StampFirst, ClocksSound, Current, Busy
  <2> QED
    BY <2>1, GateMove, SliceMove, MachineMove, Zenon DEF Next
<1> QED
  BY <1>1, <1>2, PTL DEF Spec

\* No verdict decided under an earlier signed state is answered from once inotify
\* has nothing more to report (Watcher::drain, the generation of a batch).
THEOREM GateFresh == Spec => []CacheFresh
<1>1. GateInv => CacheFresh
  BY Zenon DEF GateInv, StateFresh, GoodEntry, CacheFresh, Usable, Current, Busy
<1> QED
  BY <1>1, GateInvariance, PTL

\* After a pass of rescan_loop that moved an artifact, no batch answers from a
\* verdict older than the evidence the pass saw.
THEOREM GateHonoursRescan == Spec => []RescanHonoured
<1>1. GateInv => RescanHonoured
  BY Zenon DEF GateInv, EvidenceFresh, RescanHonoured, Usable
<1> QED
  BY <1>1, GateInvariance, PTL

\* What is allowed without being measured would be allowed if it were: the content is
\* the one granted, on good evidence, and the grant has not ended, but for the time
\* from the decision to the entry and, on a hit, the time suspended since
\* (CacheEntry, throttled_answer).
THEOREM GateEarned == Spec => []UnmeasuredIsEarned
<1>1. GateInv => UnmeasuredIsEarned
  <2> SUFFICES ASSUME GateInv, NEW f \in Files, AllowedUnmeasured(f), ~notify, Enforced(signed.enforce)
               PROVE  LET c == cache[f]
                          now == IF Hit(c, f) THEN mono + c.asleep ELSE wall
                      IN  stamp[f] = signed.content /\ c.drift % 2 = 0 /\ now < signed.until + c.late
    BY Zenon DEF UnmeasuredIsEarned
  <2> DEFINE c == cache[f]
  <2>1. /\ c.stamp \in Nat /\ c.content \in Nat /\ c.expires \in Nat /\ c.valid_until \in Nat /\ stamp[f] \in Nat
        /\ c.late \in Nat /\ c.asleep \in Nat
    BY Zenon DEF GateInv, TypeOK, Entries, Counts
  <2>2. wall \in Nat /\ mono \in Nat /\ signed.until \in Nat
    BY Zenon DEF GateInv, TypeOK
  <2>3. c.stamp <= c.content /\ c.content <= stamp[f] /\ c.expires + c.asleep <= c.valid_until
    BY Zenon DEF GateInv, StampFirst, ClocksSound
  <2>4. /\ gate.at = "batch" /\ c.stamp = stamp[f] /\ c.generation = gate.g /\ c.allow
        /\ IF Hit(c, f) THEN mono < c.expires ELSE wall < c.valid_until
    BY Zenon DEF AllowedUnmeasured, Hit, throttled_answer
  <2>5. c.content = signed.content /\ c.drift % 2 = 0 /\ c.valid_until <= signed.until + c.late
    BY <2>4, Zenon DEF GateInv, StateFresh, GoodEntry, Current, Busy
  <2> HIDE DEF c
  <2>6. stamp[f] = signed.content
    BY <2>1, <2>3, <2>4, <2>5
  <2>7. mono < c.expires => mono + c.asleep < signed.until + c.late
    BY <2>1, <2>2, <2>3, <2>5, SMTT(30)
  <2>8. wall < c.valid_until => wall < signed.until + c.late
    BY <2>1, <2>2, <2>5, SMTT(30)
  <2> QED
    BY <2>4, <2>5, <2>6, <2>7, <2>8, Zenon DEF c
<1> QED
  BY <1>1, GateInvariance, PTL

-----------------------------------------------------------------------------
(***************************************************************************)
(* The budgets of the gate.                                                *)
(***************************************************************************)

\* What a window, and the charges of the stretch, may come to.
Bound(allowed) == allowed + MaxWork - 1

Windows == [age : 0 .. Window, spent : Nat]

\* A window w against what was charged to its account in a stretch of age st:
\* the charges are at most what w holds if w is older than the stretch, and at
\* most that and one earlier window if it is not; a window that has run out is
\* older than the stretch, or was forgotten after it ran out.
Covers(w, charged, st, allowed) ==
  /\ w \in Windows /\ charged \in Nat /\ st \in 0 .. Window /\ allowed \in Nat \ {0}
  /\ w.spent <= Bound(allowed)
  /\ st = Window => charged = 0
  /\ st < Window =>
       /\ w.age = Window => charged <= Bound(allowed)
       /\ st < w.age /\ w.age < Window => charged <= w.spent
       /\ w.age <= st => charged <= Bound(allowed) + w.spent

BudgetTypeOK ==
  /\ global \in Windows /\ table \subseteq Uids /\ users \in [Uids -> Windows]
  /\ stretch \in [age : 0 .. Window, of : [Uids -> Nat], all : Nat]
  /\ working \in [uid : Uids \cup {Nobody}, took : 0 .. MaxWork]
  /\ stretch.age = Window => stretch = NoStretch

\* Whoever is worked for was below both allowances when the work began, and
\* nothing is charged before it ends.
WorkAllowed ==
  working # Idle =>
    working.uid \in Uids /\ users[working.uid].spent < Allowance /\ global.spent < GlobalAllowance

BudgetInv ==
  /\ BudgetTypeOK /\ WorkAllowed
  /\ \A u \in Uids : u \notin table => users[u] = NoWindow
  /\ Covers(global, stretch.all, stretch.age, GlobalAllowance)
  /\ \A u \in Uids : Covers(users[u], stretch.of[u], stretch.age, Allowance)


\* A window that is replaced when it has run out covers what it covered.
LEMMA RolledCovers ==
  ASSUME NEW w, NEW x, NEW st, NEW allowed, Covers(w, x, st, allowed)
  PROVE  Covers(rolled(w), x, st, allowed)
<1> USE BudgetAssumption DEF Covers, Windows, Bound
<1>1. CASE w.age = Window
  <2>1. rolled(w) = [age |-> 0, spent |-> 0]
    BY <1>1 DEF rolled
  <2> QED
    BY <1>1, <2>1
<1>2. CASE w.age # Window
  BY <1>2 DEF rolled
<1> QED
  BY <1>1, <1>2

\* A charge goes to the window and to the stretch, if there is one (charge).
LEMMA PlusCovers ==
  ASSUME NEW w, NEW x, NEW st, NEW allowed, Covers(w, x, st, allowed),
         NEW took \in 0 .. MaxWork, w.spent < allowed
  PROVE  Covers(plus(w, took), IF st = Window THEN x ELSE x + took, st, allowed)
<1> DEFINE r == rolled(w)
<1> USE BudgetAssumption DEF Windows, Bound
<1>1. Covers(r, x, st, allowed)
  BY RolledCovers
<1>2. r.spent < allowed /\ r.age # Window
  BY DEF rolled, Covers
<1> HIDE DEF r
<1>3. plus(w, took) = [r EXCEPT !.spent = r.spent + took]
  BY Zenon DEF plus, r
<1>4. plus(w, took) \in Windows /\ plus(w, took).spent = r.spent + took /\ plus(w, took).age = r.age
  BY <1>1, <1>3 DEF Covers
<1> QED
  BY <1>1, <1>2, <1>4 DEF Covers

\* A window that has run out may be forgotten.
LEMMA ForgottenCovers ==
  ASSUME NEW w, NEW x, NEW st, NEW allowed, Covers(w, x, st, allowed), w.age = Window
  PROVE  Covers(NoWindow, x, st, allowed)
BY BudgetAssumption DEF Covers, Windows, Bound, NoWindow

\* The window and the stretch grow older together; a stretch that is over is dropped.
LEMMA OlderCovers ==
  ASSUME NEW w, NEW x, NEW st, NEW allowed, Covers(w, x, st, allowed)
  PROVE  /\ st + 1 < Window => Covers(Older(w), x, st + 1, allowed)
         /\ Covers(Older(w), 0, Window, allowed)
<1> DEFINE o == Older(w)
           B == Bound(allowed)
<1>0. Window \in Nat \ {0} /\ MaxWork \in Nat \ {0}
  BY BudgetAssumption
<1>1. o \in Windows /\ o.spent = w.spent /\ o.age = IF w.age < Window THEN w.age + 1 ELSE Window
  BY <1>0 DEF Older, Covers, Windows
<1>2. w.age \in 0 .. Window /\ w.spent \in Nat /\ o.age \in 0 .. Window /\ o.spent \in Nat
  BY <1>1 DEF Covers, Windows
<1>3. B \in Nat /\ allowed \in Nat \ {0} /\ x \in Nat /\ st \in 0 .. Window /\ w.spent <= B
  BY <1>0 DEF Covers, Bound
<1>4. st < Window =>
        /\ w.age = Window => x <= B
        /\ st < w.age /\ w.age < Window => x <= w.spent
        /\ w.age <= st => x <= B + w.spent
  BY Zenon DEF Covers
<1> HIDE DEF o, B
<1>5. st + 1 < Window =>
        /\ o.age = Window => x <= B
        /\ st + 1 < o.age /\ o.age < Window => x <= o.spent
        /\ o.age <= st + 1 => x <= B + o.spent
  BY <1>0, <1>1, <1>2, <1>3, <1>4
<1>6. st + 1 < Window => st + 1 \in 0 .. Window /\ st + 1 # Window
  BY <1>0, <1>3
<1>7. o.spent <= B /\ ~(Window < Window) /\ Window \in 0 .. Window
  BY <1>0, <1>1, <1>3
<1> QED
  BY <1>1, <1>3, <1>5, <1>6, <1>7, Zenon DEF Covers, o, B

\* A stretch that begins has been charged nothing.
LEMMA NothingCharged ==
  ASSUME NEW w, NEW x, NEW st, NEW allowed, Covers(w, x, st, allowed)
  PROVE  Covers(w, 0, 0, allowed)
BY BudgetAssumption DEF Covers, Windows, Bound

\* At the start no window is open and nothing was charged.
LEMMA BudgetBegins == BudgetInit => BudgetInv
<1> USE BudgetAssumption DEF BudgetInit, NoWindow, NoStretch, Idle
<1> SUFFICES ASSUME BudgetInit PROVE BudgetInv
  OBVIOUS
<1>1. BudgetTypeOK
  BY DEF BudgetTypeOK, Windows
<1>2. Covers(NoWindow, 0, Window, Allowance) /\ Covers(NoWindow, 0, Window, GlobalAllowance)
  BY DEF Covers, Windows, Bound
<1> QED
  BY <1>1, <1>2 DEF BudgetInv, WorkAllowed

\* The gate asks before it works (exhausted).
LEMMA ExhaustedKeeps == BudgetInv /\ exhausted => BudgetInv'
<1> SUFFICES ASSUME BudgetInv, exhausted PROVE BudgetInv'
  OBVIOUS
<1> PICK uid \in Uids :
       /\ global' = rolled(global)
       /\ users' = IF UsedUp(global, GlobalAllowance) \/ uid \notin table THEN users
                   ELSE [users EXCEPT ![uid] = rolled(@)]
       /\ working' = IF throttled(uid) THEN Idle ELSE [uid |-> uid, took |-> 0]
  BY Zenon DEF exhausted
<1>0. UNCHANGED <<table, stretch>>
  BY DEF exhausted
<1>1. /\ Covers(global, stretch.all, stretch.age, GlobalAllowance)
      /\ \A u \in Uids : Covers(users[u], stretch.of[u], stretch.age, Allowance)
  BY DEF BudgetInv
<1>2. users \in [Uids -> Windows] /\ table \subseteq Uids
  BY DEF BudgetInv, BudgetTypeOK
<1>3. Covers(global', stretch'.all, stretch'.age, GlobalAllowance)
  BY <1>0, <1>1, RolledCovers
<1>4. \A u \in Uids : Covers(rolled(users[u]), stretch.of[u], stretch.age, Allowance)
  BY <1>1, RolledCovers
<1>5. \A u \in Uids : rolled(users[u]) \in Windows
  BY <1>4 DEF Covers
<1>6. /\ users' \in [Uids -> Windows]
      /\ \A u \in Uids : users'[u] = users[u] \/ users'[u] = rolled(users[u])
      /\ \A u \in Uids : u \notin table => users'[u] = users[u]
      /\ ~throttled(uid) => uid \notin table \/ users'[uid] = rolled(users[uid])
  BY <1>2, <1>5 DEF throttled
<1>7. \A u \in Uids : Covers(users'[u], stretch'.of[u], stretch'.age, Allowance)
  BY <1>0, <1>1, <1>4, <1>6
<1>8. BudgetTypeOK'
  <2>1. global' \in Windows
    BY <1>3 DEF Covers
  <2>2. working' \in [uid : Uids \cup {Nobody}, took : 0 .. MaxWork]
    BY BudgetAssumption DEF Idle
  <2> QED
    BY <1>0, <1>6, <2>1, <2>2 DEF BudgetTypeOK, BudgetInv, NoStretch
<1>9. WorkAllowed'
  <2> SUFFICES ASSUME ~throttled(uid)
               PROVE  users'[uid].spent < Allowance /\ global'.spent < GlobalAllowance
    BY DEF WorkAllowed
  <2>1. ~UsedUp(global, GlobalAllowance) /\ (uid \in table => ~UsedUp(users[uid], Allowance))
    BY DEF throttled
  <2>2. global'.spent \in Nat /\ rolled(users[uid]).spent \in Nat
    BY <1>3, <1>5 DEF Covers, Windows
  <2>3. global'.spent < GlobalAllowance
    BY <2>1, <2>2, BudgetAssumption DEF UsedUp
  <2>4. CASE uid \in table
    BY <2>1, <2>2, <2>4, <1>6, BudgetAssumption DEF UsedUp
  <2>5. CASE uid \notin table
    <3>1. users[uid] = NoWindow
      BY <2>5, Zenon DEF BudgetInv
    <3>2. users'[uid].spent = 0
      BY <2>5, <1>6, <3>1 DEF NoWindow
    <3>3. 0 < Allowance
      BY BudgetAssumption
    <3> QED
      BY <2>3, <3>2, <3>3
  <2> QED
    BY <2>3, <2>4, <2>5
<1>10. \A u \in Uids : u \notin table' => users'[u] = NoWindow
  BY <1>0, <1>6 DEF BudgetInv
<1> QED
  BY <1>3, <1>7, <1>8, <1>9, <1>10 DEF BudgetInv

\* Work done is charged, and old users may be forgotten (charge).
LEMMA ChargeKeeps == BudgetInv /\ charge => BudgetInv'
<1> SUFFICES ASSUME BudgetInv, charge PROVE BudgetInv'
  OBVIOUS
<1> DEFINE u == working.uid
           took == working.took
           now == [users EXCEPT ![u] = plus(@, took)]
           all == table \cup {u}
           kept == IF Cardinality(all) > TableLimit THEN retained(now) \cup {u} ELSE all
           charged(x) == IF stretch.age = Window THEN stretch.of[x]
                         ELSE IF x = u THEN stretch.of[x] + took ELSE stretch.of[x]
<1>0. BudgetTypeOK /\ WorkAllowed /\ working # Idle
  BY Zenon DEF BudgetInv, charge
<1>1. u \in Uids /\ took \in 0 .. MaxWork /\ users[u].spent < Allowance /\ global.spent < GlobalAllowance
  BY <1>0 DEF WorkAllowed, BudgetTypeOK
<1>2. /\ global' = plus(global, took) /\ table' = kept /\ working' = Idle
      /\ users' = [x \in Uids |-> IF x \in kept THEN now[x] ELSE NoWindow]
      /\ stretch' = IF stretch = NoStretch THEN stretch
                    ELSE [stretch EXCEPT !.of[u] = @ + took, !.all = @ + took]
  BY Zenon DEF charge
<1>3. /\ Covers(global, stretch.all, stretch.age, GlobalAllowance)
      /\ \A x \in Uids : Covers(users[x], stretch.of[x], stretch.age, Allowance)
      /\ \A x \in Uids : x \notin table => users[x] = NoWindow
  BY Zenon DEF BudgetInv
<1> HIDE DEF took
<1>4. /\ stretch' \in [age : 0 .. Window, of : [Uids -> Nat], all : Nat]
      /\ stretch'.age = stretch.age
      /\ stretch'.all = IF stretch.age = Window THEN stretch.all ELSE stretch.all + took
      /\ \A x \in Uids : stretch'.of[x] = charged(x)
      /\ stretch'.age = Window => stretch' = NoStretch
  <2>1. CASE stretch = NoStretch
    BY <2>1, <1>0, <1>2 DEF BudgetTypeOK, NoStretch
  <2>2. CASE stretch # NoStretch
    <3>1. stretch.age # Window /\ took \in Nat
      BY <2>2, <1>0, <1>1, BudgetAssumption DEF BudgetTypeOK
    <3>2. stretch' = [stretch EXCEPT !.of = [stretch.of EXCEPT ![u] = stretch.of[u] + took],
                                     !.all = stretch.all + took]
      BY <2>2, <1>0, <1>2 DEF BudgetTypeOK
    <3> DEFINE of == [stretch.of EXCEPT ![u] = stretch.of[u] + took]
    <3>3. stretch.of \in [Uids -> Nat] /\ stretch.all + took \in Nat
      BY <1>0, <3>1 DEF BudgetTypeOK
    <3> HIDE DEF u
    <3>4. of \in [Uids -> Nat] /\ \A x \in Uids : of[x] = charged(x)
      BY <1>1, <3>1, <3>3
    <3> HIDE DEF of, charged
    <3>5. stretch' = [stretch EXCEPT !.of = of, !.all = stretch.all + took]
      BY <3>2, Zenon DEF of
    <3> QED
      BY <1>0, <3>1, <3>3, <3>4, <3>5 DEF BudgetTypeOK
  <2> QED
    BY <2>1, <2>2
<1>5. Covers(global', stretch'.all, stretch'.age, GlobalAllowance)
  BY <1>1, <1>2, <1>3, <1>4, PlusCovers
<1>6. Covers(plus(users[u], took), charged(u), stretch.age, Allowance)
  BY <1>1, <1>3, PlusCovers
<1>7. /\ now \in [Uids -> Windows]
      /\ \A x \in Uids : Covers(now[x], charged(x), stretch.age, Allowance)
  <2>1. now[u] = plus(users[u], took) /\ \A x \in Uids \ {u} : now[x] = users[x]
    BY <1>0, <1>1 DEF BudgetTypeOK
  <2>2. plus(users[u], took) \in Windows
    BY <1>6 DEF Covers
  <2>3. now \in [Uids -> Windows]
    BY <1>0, <1>1, <2>2 DEF BudgetTypeOK
  <2> HIDE DEF now, u
  <2>4. \A x \in Uids \ {u} : charged(x) = stretch.of[x]
    BY <1>1
  <2> HIDE DEF charged
  <2> QED
    BY <1>1, <1>3, <1>6, <2>1, <2>3, <2>4
<1>8. \A x \in Uids : x \notin kept => now[x].age = Window
  <2>1. TAKE x \in Uids
  <2>2. HAVE x \notin kept
  <2>3. x # u /\ now[x] = users[x]
    BY <2>2, <1>0, <1>1 DEF BudgetTypeOK
  <2>4. CASE x \notin table
    BY <2>3, <2>4, <1>3 DEF NoWindow
  <2>5. CASE x \in table
    <3>1. x \notin retained(now)
      BY <2>2, <2>5
    <3>2. now[x].age \in 0 .. Window
      BY <1>7 DEF Windows
    <3> HIDE DEF now
    <3> QED
      BY <2>5, <3>1, <3>2, BudgetAssumption DEF retained
  <2> QED
    BY <2>4, <2>5
<1>9. kept \subseteq Uids
  <2> retained(now) \subseteq table
    BY Zenon DEF retained
  <2> QED
    BY <1>0, <1>1 DEF BudgetTypeOK
<1> HIDE DEF kept, now, u
<1>10. \A x \in Uids : Covers(users'[x], charged(x), stretch.age, Allowance)
  <2> HIDE DEF charged
  <2>1. TAKE x \in Uids
  <2>2. CASE x \in kept
    BY <2>2, <1>2, <1>7
  <2>3. CASE x \notin kept
    <3>1. Covers(NoWindow, charged(x), stretch.age, Allowance)
      BY <2>3, <1>7, <1>8, ForgottenCovers
    <3> QED
      BY <2>3, <3>1, <1>2
  <2> QED
    BY <2>2, <2>3
<1>11. BudgetTypeOK'
  <2>1. global' \in Windows
    BY <1>5 DEF Covers
  <2>2. users' \in [Uids -> Windows]
    BY <1>2, <1>7, BudgetAssumption DEF NoWindow, Windows
  <2>3. working' \in [uid : Uids \cup {Nobody}, took : 0 .. MaxWork]
    BY <1>2, BudgetAssumption DEF Idle
  <2> QED
    BY <1>2, <1>4, <1>9, <2>1, <2>2, <2>3 DEF BudgetTypeOK, NoStretch
<1>12. \A x \in Uids : Covers(users'[x], stretch'.of[x], stretch'.age, Allowance)
  BY <1>4, <1>10, Zenon
<1>13. WorkAllowed' /\ \A x \in Uids : x \notin table' => users'[x] = NoWindow
  BY <1>2, SMTT(30), Zenon DEF WorkAllowed
<1> QED
  BY <1>5, <1>11, <1>12, <1>13 DEF BudgetInv

\* Time passes.
LEMMA TickKeeps == BudgetInv /\ BudgetTick => BudgetInv'
<1> SUFFICES ASSUME BudgetInv, BudgetTick PROVE BudgetInv'
  OBVIOUS
<1> DEFINE over == Older(stretch).age = Window
<1>0. BudgetTypeOK /\ WorkAllowed
  BY Zenon DEF BudgetInv
<1>1. /\ global' = Older(global) /\ table' = table
      /\ users' = [x \in Uids |-> IF x \in table THEN Older(users[x]) ELSE NoWindow]
      /\ stretch' = IF over THEN NoStretch ELSE Older(stretch)
  BY Zenon DEF BudgetTick
<1>2. /\ Covers(global, stretch.all, stretch.age, GlobalAllowance)
      /\ \A x \in Uids : Covers(users[x], stretch.of[x], stretch.age, Allowance)
      /\ \A x \in Uids : x \notin table => users[x] = NoWindow
  BY Zenon DEF BudgetInv
<1>3. /\ stretch' \in [age : 0 .. Window, of : [Uids -> Nat], all : Nat]
      /\ stretch'.age = Window => stretch' = NoStretch
      /\ over => stretch'.age = Window /\ stretch'.all = 0 /\ \A x \in Uids : stretch'.of[x] = 0
      /\ ~over => /\ stretch'.age = stretch.age + 1 /\ stretch.age + 1 < Window
                  /\ stretch'.all = stretch.all /\ stretch'.of = stretch.of
  <2>1. /\ Older(stretch) \in [age : 0 .. Window, of : [Uids -> Nat], all : Nat]
        /\ Older(stretch).age = IF stretch.age < Window THEN stretch.age + 1 ELSE Window
        /\ Older(stretch).all = stretch.all /\ Older(stretch).of = stretch.of
    BY <1>0, BudgetAssumption DEF Older, BudgetTypeOK
  <2>2. NoStretch \in [age : 0 .. Window, of : [Uids -> Nat], all : Nat]
    BY BudgetAssumption DEF NoStretch
  <2>3. CASE over
    BY <2>2, <2>3, <1>1 DEF NoStretch
  <2>4. CASE ~over
    <3>1. stretch.age \in 0 .. Window
      BY <1>0 DEF BudgetTypeOK
    <3> QED
      BY <2>1, <2>4, <3>1, <1>1, BudgetAssumption
  <2> QED
    BY <2>3, <2>4
<1> HIDE DEF over
<1>4. Covers(global', stretch'.all, stretch'.age, GlobalAllowance)
  <2>0. /\ stretch.age + 1 < Window => Covers(global', stretch.all, stretch.age + 1, GlobalAllowance)
        /\ Covers(global', 0, Window, GlobalAllowance)
    <3>1. Covers(global, stretch.all, stretch.age, GlobalAllowance) /\ global' = Older(global)
      BY <1>1, <1>2, Zenon
    <3> QED
      BY <3>1, OlderCovers
  <2>1. CASE over
    BY <1>3, <2>0, <2>1
  <2>2. CASE ~over
    BY <1>3, <2>0, <2>2
  <2> QED
    BY <2>1, <2>2, Zenon
<1>5. \A x \in Uids : users'[x] = Older(users[x])
  <2> Older(NoWindow) = NoWindow
    BY BudgetAssumption DEF Older, NoWindow
  <2> QED
    BY <1>1, <1>2
<1>6. \A x \in Uids : Covers(users'[x], stretch'.of[x], stretch'.age, Allowance)
  <2> SUFFICES ASSUME NEW x \in Uids
               PROVE  Covers(users'[x], stretch'.of[x], stretch'.age, Allowance)
    OBVIOUS
  <2>0. /\ stretch.age + 1 < Window => Covers(users'[x], stretch.of[x], stretch.age + 1, Allowance)
        /\ Covers(users'[x], 0, Window, Allowance)
    <3>1. Covers(users[x], stretch.of[x], stretch.age, Allowance) /\ users'[x] = Older(users[x])
      BY <1>2, <1>5, Zenon
    <3> QED
      BY <3>1, OlderCovers
  <2>1. CASE over
    BY <1>3, <2>0, <2>1
  <2>2. CASE ~over
    BY <1>3, <2>0, <2>2
  <2> QED
    BY <2>1, <2>2, Zenon
<1>7. /\ working' \in [uid : Uids \cup {Nobody}, took : 0 .. MaxWork]
      /\ working'.uid = working.uid
      /\ working' # Idle => working # Idle
  <2>1. CASE working' = working
    BY <2>1, <1>0 DEF BudgetTypeOK
  <2>2. CASE working # Idle /\ working.took < MaxWork /\ working' = [working EXCEPT !.took = @ + 1]
    BY <2>2, <1>0, BudgetAssumption DEF BudgetTypeOK
  <2> QED
    BY <2>1, <2>2, Zenon DEF BudgetTick
<1>8. WorkAllowed'
  <2>1. global'.spent = global.spent
    BY <1>0, <1>1 DEF Older, BudgetTypeOK, Windows
  <2>2. \A x \in Uids : users'[x].spent = users[x].spent
    BY <1>0, <1>5, SMT, ZenonT(60) DEF Older, BudgetTypeOK, Windows
  <2> QED
    BY <1>0, <1>7, <2>1, <2>2 DEF WorkAllowed
<1>9. BudgetTypeOK'
  <2>1. global' \in Windows /\ \A x \in Uids : users'[x] \in Windows
    BY <1>4, <1>6 DEF Covers
  <2>2. users' \in [Uids -> Windows]
    BY <2>1, <1>1
  <2> QED
    BY <2>1, <2>2, <1>0, <1>1, <1>3, <1>7 DEF BudgetTypeOK, NoStretch
<1>10. \A x \in Uids : x \notin table' => users'[x] = NoWindow
  BY <1>1
<1> QED
  BY <1>4, <1>6, <1>8, <1>9, <1>10 DEF BudgetInv

\* A stretch begins.
LEMMA BeginKeeps == BudgetInv /\ BeginStretch => BudgetInv'
<1> SUFFICES ASSUME BudgetInv, BeginStretch PROVE BudgetInv'
  OBVIOUS
<1>1. UNCHANGED <<global, table, users, working>>
  BY DEF BeginStretch
<1>2. stretch' = [age |-> 0, of |-> [x \in Uids |-> 0], all |-> 0]
  BY DEF BeginStretch, NoStretch
<1>3. BudgetTypeOK'
  <2>1. stretch' \in [age : 0 .. Window, of : [Uids -> Nat], all : Nat] /\ stretch'.age # Window
    BY <1>2, BudgetAssumption
  <2> QED
    BY <1>1, <2>1, Zenon DEF BudgetInv, BudgetTypeOK
<1>4. Covers(global', stretch'.all, stretch'.age, GlobalAllowance)
  BY <1>1, <1>2, NothingCharged DEF BudgetInv
<1>5. \A x \in Uids : Covers(users'[x], stretch'.of[x], stretch'.age, Allowance)
  BY <1>1, <1>2, NothingCharged DEF BudgetInv
<1>6. WorkAllowed' /\ \A x \in Uids : x \notin table' => users'[x] = NoWindow
  BY <1>1 DEF BudgetInv, WorkAllowed
<1> QED
  BY <1>3, <1>4, <1>5, <1>6 DEF BudgetInv

\* An allowance is overrun by at most the work under way, and any stretch as long
\* as a window sees at most two windows' worth of it, for every number of users,
\* every table and every length of the work (budget.rs: exhausted, charge).
THEOREM BudgetsBounded == BudgetSpec => []StretchBound
<1>1. BudgetInv /\ [BudgetNext]_budgetVars => BudgetInv'
  <2> SUFFICES ASSUME BudgetInv, [BudgetNext]_budgetVars PROVE BudgetInv'
    OBVIOUS
  <2>1. CASE UNCHANGED budgetVars
    BY <2>1 DEF budgetVars, BudgetInv, BudgetTypeOK, WorkAllowed, NoStretch
  <2> QED
    BY <2>1, ExhaustedKeeps, ChargeKeeps, TickKeeps, BeginKeeps, Zenon DEF BudgetNext
<1>2. BudgetInv => StretchBound
  <2> SUFFICES ASSUME BudgetInv PROVE StretchBound
    OBVIOUS
  <2>1. ASSUME NEW w, NEW x, NEW st, NEW allowed, Covers(w, x, st, allowed)
        PROVE  w.spent < allowed + MaxWork /\ x <= 2 * (allowed + MaxWork - 1)
    BY <2>1, BudgetAssumption DEF Covers, Windows, Bound
  <2>2. global.spent < GlobalAllowance + MaxWork /\ stretch.all <= 2 * (GlobalAllowance + MaxWork - 1)
    BY <2>1 DEF BudgetInv
  <2>3. ASSUME NEW u \in Uids
        PROVE  users[u].spent < Allowance + MaxWork /\ stretch.of[u] <= 2 * (Allowance + MaxWork - 1)
    BY <2>1 DEF BudgetInv
  <2> QED
    BY <2>2, <2>3, Zenon DEF StretchBound
<1> QED
  BY <1>1, <1>2, BudgetBegins, PTL DEF BudgetSpec

=============================================================================
