----------------------------- MODULE BootProofs -----------------------------
(***************************************************************************)
(* Proofs about the boot chain for every number of media, slots, releases, *)
(* tries and faults: no power cut, failed write or flaky read lowers a     *)
(* floor, runs a release below one, starts an update too often, retires a  *)
(* good slot or takes away the last slot to fall back to.                  *)
(***************************************************************************)
EXTENDS Boot, FiniteSetTheorems, WellFoundedInduction, TLAPS

-----------------------------------------------------------------------------
(***************************************************************************)
(* Least and greatest elements, induction and recursion over the natural   *)
(* numbers, stated over sets: the library's induction theorems range over  *)
(* operators, which the provers cannot instantiate.                        *)
(***************************************************************************)

\* Every nonempty set of natural numbers has a least element.
LEMMA Least ==
  ASSUME NEW T \in SUBSET Nat, T # {}
  PROVE  \E n \in T : \A m \in T : n <= m
<1> DEFINE R == OpToRel(<, Nat)
<1>1. IsWellFoundedOn(R, Nat)
  BY NatLessThanWellFounded, Zenon
<1>2. \E x \in T : \A y \in T : ~(<<y, x>> \in R)
  <2> HIDE DEF R
  <2> QED BY <1>1, WFMin, Zenon
<1>3. \A m, n \in Nat : m < n => <<m, n>> \in R
  <2> SUFFICES ASSUME NEW m \in Nat, NEW n \in Nat, m < n
               PROVE  <<m, n>> \in OpToRel(<, Nat)
    BY Zenon
  <2>1. <<m, n>>[1] < <<m, n>>[2]
    OBVIOUS
  <2> QED BY <2>1, Zenon DEF OpToRel
<1> HIDE DEF R
<1>4. PICK x \in T : \A y \in T : ~(<<y, x>> \in R)
  BY <1>2
<1>5. \A y \in T : ~(y < x)
  BY <1>3, <1>4, Zenon
<1> QED BY <1>5

\* Induction over the natural numbers, for a set.
LEMMA SetInduction ==
  ASSUME NEW S \in SUBSET Nat, 0 \in S, \A n \in S : n + 1 \in S
  PROVE  S = Nat
<1> SUFFICES ASSUME S # Nat PROVE FALSE
  OBVIOUS
<1> DEFINE T == Nat \ S
<1>1. T # {} /\ T \in SUBSET Nat
  BY Zenon
<1>2. PICK n \in T : \A m \in T : n <= m
  <2> HIDE DEF T
  <2> QED BY <1>1, Least
<1>3. n # 0
  OBVIOUS
<1>4. n - 1 \in Nat /\ n - 1 \in S
  BY <1>2, <1>3
<1> QED BY <1>4, <1>2

Turns(S, n) == [1 .. n -> [S -> S]]

Follows(S, a, n, g, f) ==
  f \in [0 .. n -> S] /\ f[0] = a /\ \A k \in 1 .. n : f[k] = g[k][f[k - 1]]

\* A function on 0 .. n is defined by its value at 0 and by how each value follows
\* from the one before it.
LEMMA RecursionExists ==
  ASSUME NEW S, NEW a \in S, NEW n \in Nat, NEW g \in Turns(S, n)
  PROVE  \E f : Follows(S, a, n, g, f)
<1> DEFINE Upto(m, f) == f[0] = a /\ \A k \in 1 .. m : f[k] = g[k][f[k - 1]]
           Defined(m) == \E f \in [0 .. m -> S] : Upto(m, f)
           T == {m \in Nat : m <= n => Defined(m)}
<1>1. 0 \in T
  <2> DEFINE h == [i \in 0 .. 0 |-> a]
  <2>1. h \in [0 .. 0 -> S] /\ h[0] = a
    OBVIOUS
  <2>2. \A k \in 1 .. 0 : h[k] = g[k][h[k - 1]]
    OBVIOUS
  <2> HIDE DEF h
  <2>3. Defined(0)
    BY <2>1, <2>2
  <2> HIDE DEF Defined
  <2> QED BY <2>3
<1>2. \A m \in T : m + 1 \in T
  <2> SUFFICES ASSUME NEW m \in Nat, m + 1 <= n, Defined(m)
               PROVE  Defined(m + 1)
    <3> HIDE DEF Defined
    <3> QED OBVIOUS
  <2>1. PICK f \in [0 .. m -> S] : Upto(m, f)
    OBVIOUS
  <2> DEFINE h == [i \in 0 .. m + 1 |-> IF i = m + 1 THEN g[m + 1][f[m]] ELSE f[i]]
  <2>2. g[m + 1][f[m]] \in S
    BY DEF Turns
  <2>3. h \in [0 .. m + 1 -> S]
    BY <2>2
  <2>4. h[0] = a
    BY <2>1
  <2>5. ASSUME NEW k \in 1 .. m + 1
        PROVE  h[k] = g[k][h[k - 1]]
    <3>1. CASE k = m + 1
      BY <3>1
    <3>2. CASE k \in 1 .. m
      <4>1. h[k] = f[k] /\ h[k - 1] = f[k - 1]
        BY <3>2
      <4> QED BY <4>1, <3>2, <2>1
    <3> QED BY <3>1, <3>2
  <2> HIDE DEF h
  <2> QED BY <2>3, <2>4, <2>5
<1>3. T = Nat
  <2> HIDE DEF T
  <2>1. T \in SUBSET Nat
    BY DEF T
  <2> QED BY <1>1, <1>2, <2>1, SetInduction
<1>4. Defined(n)
  <2> HIDE DEF Defined
  <2> QED BY <1>3
<1> QED BY <1>4 DEF Follows

\* A nonempty finite set of natural numbers has a greatest element.
LEMMA Greatest ==
  ASSUME NEW S \in SUBSET Nat, IsFiniteSet(S), S # {}
  PROVE  \E x \in S : \A y \in S : x >= y
<1> DEFINE Has(A) == \E x \in A : \A y \in A : x >= y
           Sized(n) == \A A \in SUBSET Nat : IsFiniteSet(A) /\ A # {} /\ Cardinality(A) = n => Has(A)
           T == {n \in Nat : Sized(n)}
<1>1. 0 \in T
  <2>1. Sized(0)
    BY FS_EmptySet
  <2> HIDE DEF Sized
  <2> QED BY <2>1
<1>2. \A n \in T : n + 1 \in T
  <2> SUFFICES ASSUME NEW n \in Nat, Sized(n) PROVE Sized(n + 1)
    <3> HIDE DEF Sized
    <3> QED OBVIOUS
  <2> SUFFICES ASSUME NEW A \in SUBSET Nat, IsFiniteSet(A), A # {}, Cardinality(A) = n + 1
               PROVE  Has(A)
    OBVIOUS
  <2>1. PICK a \in A : TRUE
    BY Zenon
  <2> DEFINE B == A \ {a}
  <2>2. IsFiniteSet(B) /\ Cardinality(B) = n
    <3>1. IsFiniteSet(B) /\ Cardinality(B) = Cardinality(A) - 1
      BY FS_RemoveElement, Zenon
    <3> HIDE DEF B
    <3> QED BY <3>1
  <2>3. CASE B = {}
    <3>1. \A y \in A : y = a
      BY <2>3
    <3> QED BY <3>1
  <2>4. CASE B # {}
    <3>1. PICK b \in B : \A y \in B : b >= y
      BY <2>2, <2>4
    <3>2. CASE a >= b
      <4>1. \A y \in A : a >= y
        BY <3>1, <3>2
      <4> QED BY <4>1
    <3>3. CASE ~(a >= b)
      <4>1. \A y \in A : b >= y
        BY <3>1, <3>3
      <4> QED BY <3>1, <4>1
    <3> QED BY <3>2, <3>3
  <2> QED BY <2>3, <2>4
<1>3. T = Nat
  <2> HIDE DEF T
  <2>1. T \in SUBSET Nat
    BY DEF T
  <2> QED BY <1>1, <1>2, <2>1, SetInduction
<1>4. Cardinality(S) \in Nat
  BY FS_CardinalityType
<1>5. Sized(Cardinality(S))
  <2> HIDE DEF Sized
  <2> QED BY <1>3, <1>4
<1> QED BY <1>5

USE BootAssumption

-----------------------------------------------------------------------------
(***************************************************************************)
(* The inductive invariant.                                                *)
(***************************************************************************)

Entries == [priority : Nat, tries : Nat, successful : BOOLEAN]
States == [floor : Nat, slots : [Slots -> Entries]]
Files == [is : {"absent", "torn", "whole"}, st : States]
Contents == [main : Files, new : Files]
WriteSteps == {"promote", "create", "fill", "sync", "rename", "dirsync"}

TypeOK ==
  /\ release \in [Media -> [Slots -> Releases]]
  /\ dir \in [Media -> Contents] /\ disk \in [Media -> SUBSET Contents]
  /\ sure \in [Media -> SUBSET Files]
  /\ phase \in {"off", "down", "select", "try", "write", "run", "ready", "proved"}
  /\ seen \in SUBSET Media /\ left \in SUBSET Media /\ floor \in Nat /\ medium \in Media
  /\ state \in States /\ verified \in SUBSET Slots /\ slot \in Slots
  /\ write \in [step : WriteSteps \cup {"none"}, st : States, why : {"none", "bad", "try", "success"}]
  /\ recorded \in [Media -> Nat] /\ uses \in [Media -> [Slots -> Nat]] /\ faults \in Nat

\* The state a directory content stands for.
StateOf(d) == Read(d).st

\* No content of the disk is torn, below the floor recorded or has tries to spare.
DiskSound ==
  \A m \in Media :
    /\ dir[m] \in disk[m]
    /\ \A d \in disk[m] :
         /\ d.main.is # "torn" /\ StateOf(d).floor >= recorded[m]
         /\ \A s \in Slots : uses[m][s] + StateOf(d).slots[s].tries <= DefaultTries

\* A machine that has just come up sees what is on the disk.
OffSound ==
  phase = "off" => \A m \in Media : disk[m] = {dir[m]} /\ sure[m] = {dir[m].new}

\* The data of a .new that would be recovered may not be on the disk yet.
Dirty(m) == dir[m].main.is = "absent" /\ dir[m].new.is = "whole" /\ sure[m] # {dir[m].new}

\* Nothing has been recorded on the medium: its state is the fresh one.
Blank(m) == dir[m].main.is = "absent" /\ dir[m].new.is # "whole"

OnMedium == phase \in {"try", "write", "run"}
Recording(whys) == phase = "write" /\ write.why \in whys

\* Before the success of the boot is recorded.
Undecided == phase \in {"select", "try", "run"} \/ Recording({"bad", "try"})

NoneLeft(st) == \A s \in Slots : st.slots[s].priority = 0

\* A medium without a state file is written to once in a boot, so that no .new is
\* promoted before it was synced.
SureSound ==
  /\ \A m \in Media : Dirty(m) =>
       /\ m \notin left
       /\ m = medium => /\ phase # "run" /\ (phase = "try" => NoneLeft(state))
                        /\ phase = "write" => write.step = "sync"
  /\ OnMedium /\ (Blank(medium) \/ Dirty(medium)) =>
       /\ \A s \in Slots : state.slots[s].priority > 0 => s = 1 /\ state.slots[s].successful
       /\ Recording({"bad"}) => NoneLeft(state)
       /\ ~Recording({"try"})

\* The floor of the boot is the highest of the media found, and one of them keeps it.
FloorSound ==
  /\ phase \notin {"off", "down", "ready", "proved"} =>
       /\ left \subseteq seen /\ \A m \in seen : recorded[m] <= floor
  /\ Undecided =>
       /\ \A m \in seen : \A d \in disk[m] : StateOf(d).floor <= floor
       /\ \E m \in seen : \A d \in disk[m] : StateOf(d).floor = floor

\* What st has of the good slots that d has.
Keeps(m, st, d) ==
  \A s \in Slots : release[m][s].content = "good" /\ StateOf(d).slots[s].priority > 0 =>
    /\ st.slots[s].priority > 0
    /\ StateOf(d).slots[s].successful => st.slots[s].successful

\* The state in memory against the medium's, as long as a slot is looked for.
StateSound ==
  /\ OnMedium =>
       /\ medium \in seen /\ medium \notin left
       /\ \A s \in verified : ManifestOk(release[medium][s], floor)
  /\ phase \in {"try", "run"} \/ Recording({"bad", "try"}) =>
       /\ state.floor = floor
       /\ \A s \in Slots : /\ uses[medium][s] + state.slots[s].tries <= DefaultTries
                           /\ state.slots[s].priority > 0 => StateOf(dir[medium]).slots[s].priority > 0
       /\ Keeps(medium, state, dir[medium])

\* The slot that is used.
SlotSound ==
  /\ phase = "run" \/ Recording({"try", "success"}) =>
       /\ release[medium][slot].content = "good" /\ ManifestOk(release[medium][slot], floor)
  /\ phase = "run" \/ Recording({"try"}) => state.slots[slot].priority > 0

\* The slots of st are those of old, with no more tries.
SameSlots(st, old) ==
  \A s \in Slots : /\ st.slots[s].priority = old.slots[s].priority
                   /\ st.slots[s].successful = old.slots[s].successful
                   /\ st.slots[s].tries <= old.slots[s].tries

\* The write in flight.
WriteSound ==
  phase = "write" =>
    /\ write.step \in WriteSteps /\ write.why \in {"bad", "try", "success"}
    /\ write.st.floor >= floor
    /\ write.why \in {"bad", "try"} => write.st.floor = floor /\ SameSlots(write.st, state)
    /\ write.why = "try" => uses[medium][slot] + write.st.slots[slot].tries < DefaultTries
    /\ write.why = "success" =>
         /\ write.st.slots[slot].priority > 0 /\ write.st.slots[slot].successful
         /\ release[medium][slot].healthy /\ write.st.floor <= release[medium][slot].epoch
         /\ \A m \in seen : \A d \in disk[m] : StateOf(d).floor <= write.st.floor
    /\ Keeps(medium, write.st, dir[medium])
    /\ \A s \in Slots : uses[medium][s] + write.st.slots[s].tries <= DefaultTries

\* Where the write stands.
StepSound ==
  phase = "write" =>
    /\ write.step = "create" => (dir[medium].main.is = "absent" => dir[medium].new.is = "absent")
    /\ write.step = "fill" => dir[medium].new = Torn
    /\ write.step = "sync" => dir[medium].new = Whole(write.st)
    /\ write.step = "rename" => dir[medium].new = Whole(write.st) /\ sure[medium] = {Whole(write.st)}
    /\ write.step = "dirsync" => dir[medium] = [main |-> Whole(write.st), new |-> Absent]

BootInv ==
  /\ TypeOK /\ DiskSound /\ OffSound /\ SureSound /\ FloorSound
  /\ StateSound /\ SlotSound /\ WriteSound /\ StepSound /\ NoRollback

-----------------------------------------------------------------------------
(***************************************************************************)
(* Boot states and directory contents.                                     *)
(***************************************************************************)

\* The state of a medium that nothing was recorded on.
LEMMA FreshIs ==
  /\ FreshState \in States /\ FreshState.floor = 0
  /\ \A s \in Slots : /\ FreshState.slots[s].tries = 0
                      /\ FreshState.slots[s].priority > 0 => s = 1 /\ FreshState.slots[s].successful
<1>1. \A s \in Slots : (IF s = 1 THEN [priority |-> MaxPriority, tries |-> 0, successful |-> TRUE]
                                 ELSE NoEntry) \in Entries
  BY Zenon DEF Entries, NoEntry, MaxPriority
<1>2. FreshState \in States /\ FreshState.floor = 0
  BY <1>1, Zenon DEF FreshState, States
<1> QED BY <1>2 DEF FreshState, NoEntry, MaxPriority

\* RaiseFloor changes the floor alone, and never lowers it.
LEMMA RaiseFloorIs ==
  ASSUME NEW st \in States, NEW low \in Nat
  PROVE  /\ RaiseFloor(st, low) \in States /\ RaiseFloor(st, low).slots = st.slots
         /\ RaiseFloor(st, low).floor = IF low > st.floor THEN low ELSE st.floor
BY Zenon DEF RaiseFloor, States

\* MarkBad retires one slot.
LEMMA MarkBadIs ==
  ASSUME NEW st \in States, NEW n \in Slots
  PROVE  /\ MarkBad(st, n) \in States /\ MarkBad(st, n).floor = st.floor
         /\ MarkBad(st, n).slots[n] = NoEntry
         /\ \A s \in Slots \ {n} : MarkBad(st, n).slots[s] = st.slots[s]
<1>1. NoEntry \in Entries
  BY Zenon DEF Entries, NoEntry
<1> QED BY <1>1, Zenon DEF MarkBad, States

\* SpendTry takes one try of a slot that is unproven.
LEMMA SpendTryIs ==
  ASSUME NEW st \in States, NEW n \in Slots, st.slots[n].successful \/ st.slots[n].tries > 0
  PROVE  /\ SpendTry(st, n) \in States /\ SpendTry(st, n).floor = st.floor
         /\ \A s \in Slots : /\ SpendTry(st, n).slots[s].priority = st.slots[s].priority
                             /\ SpendTry(st, n).slots[s].successful = st.slots[s].successful
                             /\ SpendTry(st, n).slots[s].tries <= st.slots[s].tries
         /\ SpendTry(st, n) # st => SpendTry(st, n).slots[n].tries < st.slots[n].tries
         /\ st.slots[n].successful => SpendTry(st, n) = st
<1>1. /\ st.floor \in Nat /\ st.slots \in [Slots -> Entries]
      /\ \A s \in Slots : st.slots[s] \in Entries
  BY Zenon DEF States
<1>2. CASE st.slots[n].successful
  <2>1. SpendTry(st, n) = st
    BY <1>2, Zenon DEF SpendTry
  <2>2. \A s \in Slots : st.slots[s].tries <= st.slots[s].tries
    <3>1. \A s \in Slots : st.slots[s].tries \in Nat
      BY <1>1, Zenon DEF Entries
    <3>2. \A k \in Nat : k <= k
      OBVIOUS
    <3> QED BY <3>1, <3>2, Zenon
  <2> QED BY <2>1, <2>2, Zenon
<1>3. CASE ~st.slots[n].successful
  <2> DEFINE e == [st.slots[n] EXCEPT !.tries = @ - 1]
  <2>1. SpendTry(st, n) = [st EXCEPT !.slots = [@ EXCEPT ![n] = e]]
    BY <1>3, Zenon DEF SpendTry
  <2>2. /\ e \in Entries /\ e.tries < st.slots[n].tries
        /\ e.priority = st.slots[n].priority /\ e.successful = st.slots[n].successful
    <3>1. st.slots[n] \in Entries /\ st.slots[n].tries \in Nat /\ st.slots[n].tries > 0
      BY <1>1, <1>3, Zenon DEF Entries
    <3>2. \A k \in Nat : k > 0 => k - 1 \in Nat /\ k - 1 < k
      OBVIOUS
    <3> DEFINE k == st.slots[n].tries - 1
    <3>3. k \in Nat /\ k < st.slots[n].tries
      BY <3>1, <3>2, Zenon
    <3>4. e = [st.slots[n] EXCEPT !.tries = k]
      OBVIOUS
    <3> HIDE DEF e, k
    <3> QED BY <3>1, <3>3, <3>4, Zenon DEF Entries
  <2> HIDE DEF e
  <2> DEFINE f == [st.slots EXCEPT ![n] = e]
  <2>3. f \in [Slots -> Entries] /\ f[n] = e /\ \A s \in Slots \ {n} : f[s] = st.slots[s]
    BY <1>1, <2>2, Zenon
  <2>4. SpendTry(st, n) = [st EXCEPT !.slots = f]
    BY <2>1, Zenon
  <2> HIDE DEF f
  <2>5. SpendTry(st, n) \in States /\ SpendTry(st, n).floor = st.floor /\ SpendTry(st, n).slots = f
    BY <2>3, <2>4, Zenon DEF States
  <2>6. \A s \in Slots : /\ f[s].priority = st.slots[s].priority
                         /\ f[s].successful = st.slots[s].successful
                         /\ f[s].tries <= st.slots[s].tries
    <3> SUFFICES ASSUME NEW s \in Slots
                 PROVE  /\ f[s].priority = st.slots[s].priority
                        /\ f[s].successful = st.slots[s].successful
                        /\ f[s].tries <= st.slots[s].tries
      OBVIOUS
    <3>1. CASE s = n
      <4>1. e.tries \in Nat /\ st.slots[n].tries \in Nat
        BY <1>1, <2>2, Zenon DEF Entries
      <4>2. e.tries <= st.slots[n].tries
        BY <2>2, <4>1
      <4> QED BY <2>2, <2>3, <3>1, <4>2, Zenon
    <3>2. CASE s # n
      <4>1. f[s] = st.slots[s]
        BY <2>3, <3>2, Zenon
      <4>2. st.slots[s].tries \in Nat
        BY <1>1, Zenon DEF Entries
      <4> QED BY <4>1, <4>2
    <3> QED BY <3>1, <3>2, Zenon
  <2> QED BY <1>3, <2>2, <2>3, <2>5, <2>6, Zenon
<1> QED BY <1>2, <1>3, Zenon

\* MarkSuccessful proves one slot and raises the floor to what its release asks for.
LEMMA MarkSuccessfulIs ==
  ASSUME NEW st \in States, NEW n \in Slots, NEW r, r.minEpoch \in Nat
  PROVE  LET new == MarkSuccessful(st, n, r)
         IN  /\ new \in States /\ new.floor = IF r.minEpoch > st.floor THEN r.minEpoch ELSE st.floor
             /\ new.slots[n].successful
             /\ \A s \in Slots : /\ new.slots[s].priority = st.slots[s].priority
                                 /\ st.slots[s].successful => new.slots[s].successful
                                 /\ new.slots[s].tries <= st.slots[s].tries
<1> DEFINE e == [[st.slots[n] EXCEPT !.successful = TRUE] EXCEPT !.tries = 0]
           f == [st.slots EXCEPT ![n] = e]
           old == [st EXCEPT !.slots = f]
<1>1. /\ st.floor \in Nat /\ st.slots \in [Slots -> Entries]
      /\ \A s \in Slots : st.slots[s] \in Entries
  BY Zenon DEF States
<1>2. e \in Entries /\ e.tries = 0 /\ e.priority = st.slots[n].priority /\ e.successful
  BY <1>1, Zenon DEF Entries
<1>3. [st EXCEPT !.slots[n].successful = TRUE, !.slots[n].tries = 0] = old
  BY <1>1, Zenon DEF States, Entries
<1>4. MarkSuccessful(st, n, r) = RaiseFloor(old, r.minEpoch)
  BY <1>3, Zenon DEF MarkSuccessful
<1> HIDE DEF e
<1>5. f \in [Slots -> Entries] /\ f[n] = e /\ \A s \in Slots \ {n} : f[s] = st.slots[s]
  BY <1>1, <1>2, Zenon
<1> HIDE DEF f
<1>6. old \in States /\ old.floor = st.floor /\ old.slots = f
  BY <1>5, Zenon DEF States
<1> HIDE DEF old
<1>7. /\ RaiseFloor(old, r.minEpoch) \in States /\ RaiseFloor(old, r.minEpoch).slots = f
      /\ RaiseFloor(old, r.minEpoch).floor = IF r.minEpoch > st.floor THEN r.minEpoch ELSE st.floor
  BY <1>6, RaiseFloorIs, Zenon
<1>8. \A s \in Slots : /\ f[s].priority = st.slots[s].priority
                       /\ st.slots[s].successful => f[s].successful
                       /\ f[s].tries <= st.slots[s].tries
  <2> SUFFICES ASSUME NEW s \in Slots
               PROVE  /\ f[s].priority = st.slots[s].priority
                      /\ st.slots[s].successful => f[s].successful
                      /\ f[s].tries <= st.slots[s].tries
    OBVIOUS
  <2>1. CASE s = n
    <3>1. st.slots[n].tries \in Nat
      BY <1>1, Zenon DEF Entries
    <3>2. 0 <= st.slots[n].tries
      BY <3>1
    <3> QED BY <1>2, <1>5, <2>1, <3>2, Zenon
  <2>2. CASE s # n
    <3>1. f[s] = st.slots[s]
      BY <1>5, <2>2, Zenon
    <3>2. st.slots[s].tries \in Nat
      BY <1>1, Zenon DEF Entries
    <3> QED BY <3>1, <3>2
  <2> QED BY <2>1, <2>2, Zenon
<1> QED BY <1>2, <1>4, <1>5, <1>7, <1>8, Zenon

\* Files are files.
LEMMA FilesAre ==
  /\ Absent \in Files /\ Torn \in Files /\ \A st \in States : Whole(st) \in Files
BY FreshIs, Zenon DEF Absent, Torn, Whole, Files

\* What read_state makes of a directory.
LEMMA ReadIs ==
  ASSUME NEW d \in Contents
  PROVE  /\ StateOf(d) \in States
         /\ d.main.is # "torn" <=> Read(d).is = "whole"
         /\ d.main.is # "absent" => StateOf(d) = d.main.st
         /\ d.main.is = "absent" /\ d.new.is = "whole" => StateOf(d) = d.new.st
         /\ d.main.is = "absent" /\ d.new.is # "whole" => StateOf(d) = FreshState
<1>1. /\ d.main \in Files /\ d.new \in Files
  BY Zenon DEF Contents
<1> QED BY <1>1, FreshIs, Zenon DEF Read, StateOf, Files, Whole

-----------------------------------------------------------------------------
(***************************************************************************)
(* The steps of write_state.                                               *)
(***************************************************************************)

\* What a step that changes the directory may leave on the disk.
Grows(cs, c) ==
  /\ cs \in SUBSET Contents /\ c \in cs
  /\ dir' = [dir EXCEPT ![medium] = c] /\ disk' = [disk EXCEPT ![medium] = @ \cup cs]
  /\ \A x \in cs : x.main.is # "torn" /\ StateOf(x) \in {StateOf(dir[medium]), write.st}

\* The write in flight records at least the floors recorded so far.
LEMMA WriteFloors ==
  ASSUME BootInv, phase = "write"
  PROVE  /\ medium \in Media /\ medium \in seen /\ write.st \in States
         /\ \A m \in seen : recorded[m] <= write.st.floor
<1>1. /\ medium \in Media /\ medium \in seen /\ write.st \in States /\ floor \in Nat
      /\ seen \subseteq Media /\ \A m \in seen : recorded[m] <= floor /\ recorded[m] \in Nat
  BY Zenon DEF BootInv, TypeOK, StateSound, FloorSound, OnMedium
<1>2. write.st.floor >= floor /\ write.st.floor \in Nat
  BY <1>1, Zenon DEF BootInv, WriteSound, States
<1> QED BY <1>1, <1>2

\* The contents that a step of write_state adds are sound.
LEMMA GrowsSound ==
  ASSUME BootInv, phase = "write", NEW cs, NEW c, Grows(cs, c), UNCHANGED <<recorded, uses, medium>>
  PROVE  /\ dir' \in [Media -> Contents] /\ disk' \in [Media -> SUBSET Contents]
         /\ dir'[medium] = c /\ disk'[medium] = disk[medium] \cup cs
         /\ \A m \in Media \ {medium} : dir'[m] = dir[m] /\ disk'[m] = disk[m]
         /\ DiskSound'
<1>1. /\ medium \in Media /\ cs \in SUBSET Contents /\ c \in cs
      /\ dir \in [Media -> Contents] /\ disk \in [Media -> SUBSET Contents]
  BY Zenon DEF BootInv, TypeOK, Grows
<1>2. dir' \in [Media -> Contents] /\ disk' \in [Media -> SUBSET Contents]
  BY <1>1, Zenon DEF Grows
<1>3. /\ dir'[medium] = c /\ disk'[medium] = disk[medium] \cup cs
      /\ \A m \in Media \ {medium} : dir'[m] = dir[m] /\ disk'[m] = disk[m]
  BY <1>1, Zenon DEF Grows
<1>4. ASSUME NEW x \in cs
      PROVE  /\ x.main.is # "torn" /\ StateOf(x).floor >= recorded[medium]
             /\ \A s \in Slots : uses[medium][s] + StateOf(x).slots[s].tries <= DefaultTries
  <2>1. x.main.is # "torn" /\ (StateOf(x) = StateOf(dir[medium]) \/ StateOf(x) = write.st)
    BY Zenon DEF Grows
  <2>2. /\ StateOf(dir[medium]).floor >= recorded[medium]
        /\ \A s \in Slots : uses[medium][s] + StateOf(dir[medium]).slots[s].tries <= DefaultTries
    BY <1>1, Zenon DEF BootInv, DiskSound
  <2>3. /\ write.st.floor >= recorded[medium]
        /\ \A s \in Slots : uses[medium][s] + write.st.slots[s].tries <= DefaultTries
    <3>1. write.st.floor \in Nat /\ recorded[medium] \in Nat
      BY WriteFloors, Zenon DEF States, BootInv, TypeOK
    <3> QED BY <3>1, WriteFloors, Zenon DEF BootInv, WriteSound
  <2> QED BY <2>1, <2>2, <2>3, Zenon
<1>5. DiskSound'
  <2> SUFFICES ASSUME NEW m \in Media
               PROVE  /\ dir'[m] \in disk'[m]
                      /\ \A d \in disk'[m] :
                           /\ d.main.is # "torn" /\ StateOf(d).floor >= recorded[m]
                           /\ \A s \in Slots : uses[m][s] + StateOf(d).slots[s].tries <= DefaultTries
    BY Zenon DEF DiskSound
  <2>1. \A d \in disk[m] :
           /\ d.main.is # "torn" /\ StateOf(d).floor >= recorded[m]
           /\ \A s \in Slots : uses[m][s] + StateOf(d).slots[s].tries <= DefaultTries
    BY Zenon DEF BootInv, DiskSound
  <2>2. CASE m = medium
    BY <1>1, <1>3, <1>4, <2>1, <2>2, Zenon
  <2>3. CASE m # medium
    BY <1>3, <2>1, <2>3, Zenon DEF BootInv, DiskSound
  <2> QED BY <2>2, <2>3, Zenon
<1> QED BY <1>2, <1>3, <1>5, Zenon

\* write_state goes on.
GoesOn ==
  /\ phase = "write" /\ phase' = "write"
  /\ write' \in [step : WriteSteps, st : {write.st}, why : {write.why}]
  /\ UNCHANGED <<release, seen, left, floor, medium, state, verified, slot, recorded, uses, faults>>

\* Whatever step of write_state goes on, what it keeps about the media holds.
LEMMA GoesOnKeeps ==
  ASSUME BootInv, GoesOn, NEW cs, NEW c, Grows(cs, c), sure' \in [Media -> SUBSET Files]
  PROVE  /\ TypeOK' /\ DiskSound' /\ OffSound' /\ FloorSound' /\ StateSound' /\ SlotSound'
         /\ WriteSound' /\ NoRollback'
<1>1. /\ phase = "write" /\ phase' = "write" /\ write'.st = write.st /\ write'.why = write.why
      /\ write'.step \in WriteSteps
      /\ UNCHANGED <<release, seen, left, floor, medium, state, verified, slot, recorded, uses, faults>>
  BY Zenon DEF GoesOn
<1>2. /\ dir' \in [Media -> Contents] /\ disk' \in [Media -> SUBSET Contents]
      /\ dir'[medium] = c /\ disk'[medium] = disk[medium] \cup cs
      /\ \A m \in Media \ {medium} : dir'[m] = dir[m] /\ disk'[m] = disk[m]
      /\ DiskSound'
  BY <1>1, GrowsSound, Zenon
<1>3. /\ medium \in Media /\ medium \in seen /\ seen \subseteq Media /\ write.st \in States
      /\ write.why \in {"bad", "try", "success"} /\ write.step \in WriteSteps
      /\ dir[medium] \in disk[medium] /\ dir[medium] \in Contents /\ floor \in Nat
  BY <1>1, WriteFloors, Zenon DEF BootInv, TypeOK, WriteSound, DiskSound
<1>4. TypeOK'
  <2>1. write' \in [step : WriteSteps \cup {"none"}, st : States, why : {"none", "bad", "try", "success"}]
    BY <1>3, Zenon DEF GoesOn
  <2> QED BY <1>1, <1>2, <2>1, Zenon DEF BootInv, TypeOK
<1>5. \A x \in cs : StateOf(x) = StateOf(dir[medium]) \/ StateOf(x) = write.st
  BY Zenon DEF Grows
<1>6. StateOf(c) = StateOf(dir[medium]) \/ StateOf(c) = write.st
  BY <1>5, Zenon DEF Grows
<1>7. FloorSound'
  <2>1. left \subseteq seen /\ \A m \in seen : recorded[m] <= floor
    BY <1>1, Zenon DEF BootInv, FloorSound
  <2>2. ASSUME Recording({"bad", "try"})
        PROVE  /\ \A m \in seen : \A d \in disk'[m] : StateOf(d).floor <= floor
               /\ \E m \in seen : \A d \in disk'[m] : StateOf(d).floor = floor
    <3>1. /\ \A m \in seen : \A d \in disk[m] : StateOf(d).floor <= floor
          /\ \E m \in seen : \A d \in disk[m] : StateOf(d).floor = floor
      BY <2>2, Zenon DEF BootInv, FloorSound, Undecided
    <3>2. write.st.floor = floor
      BY <2>2, Zenon DEF BootInv, WriteSound, Recording
    <3>3. ASSUME NEW m \in seen, NEW d \in disk'[m] PROVE StateOf(d).floor <= floor
      <4>1. CASE d \in disk[m]
        BY <3>1, <4>1, Zenon
      <4>2. CASE d \notin disk[m]
        <5>1. m = medium /\ d \in cs
          BY <1>2, <1>3, <4>2, Zenon
        <5> QED BY <1>3, <1>5, <3>1, <3>2, <5>1
      <4> QED BY <4>1, <4>2, Zenon
    <3>4. PICK m \in seen : \A d \in disk[m] : StateOf(d).floor = floor
      BY <3>1, Zenon
    <3>5. ASSUME NEW d \in disk'[m] PROVE StateOf(d).floor = floor
      <4>1. CASE d \in disk[m]
        BY <3>4, <4>1, Zenon
      <4>2. CASE d \notin disk[m]
        <5>1. m = medium /\ d \in cs
          BY <1>2, <1>3, <4>2, Zenon
        <5> QED BY <1>3, <1>5, <3>2, <3>4, <5>1, Zenon
      <4> QED BY <4>1, <4>2, Zenon
    <3> QED BY <3>3, <3>5, Zenon
  <2> QED BY <1>1, <2>1, <2>2, Zenon DEF FloorSound, Undecided, Recording
<1>8. StateSound'
  <2>1. /\ medium \in seen /\ medium \notin left
        /\ \A s \in verified : ManifestOk(release[medium][s], floor)
    BY <1>1, Zenon DEF BootInv, StateSound, OnMedium
  <2>2. ASSUME Recording({"bad", "try"})
        PROVE  /\ state.floor = floor
               /\ \A s \in Slots : /\ uses[medium][s] + state.slots[s].tries <= DefaultTries
                                   /\ state.slots[s].priority > 0 => StateOf(c).slots[s].priority > 0
               /\ Keeps(medium, state, c)
    <3>1. /\ state.floor = floor
          /\ \A s \in Slots :
               /\ uses[medium][s] + state.slots[s].tries <= DefaultTries
               /\ state.slots[s].priority > 0 => StateOf(dir[medium]).slots[s].priority > 0
          /\ Keeps(medium, state, dir[medium])
      BY <2>2, Zenon DEF BootInv, StateSound
    <3>2. SameSlots(write.st, state)
      BY <2>2, Zenon DEF BootInv, WriteSound, Recording
    <3>3. CASE StateOf(c) = StateOf(dir[medium])
      BY <3>1, <3>3, Zenon DEF Keeps
    <3>4. CASE StateOf(c) = write.st
      BY <3>1, <3>2, <3>4, Zenon DEF Keeps, SameSlots
    <3> QED BY <1>6, <3>3, <3>4, Zenon
  <2> QED BY <1>1, <1>2, <2>1, <2>2, Zenon DEF StateSound, OnMedium, Recording, Keeps
<1>9. WriteSound'
  <2>1. Keeps(medium, write.st, c)
    <3>1. Keeps(medium, write.st, dir[medium])
      BY <1>1, Zenon DEF BootInv, WriteSound
    <3> QED BY <1>6, <3>1, Zenon DEF Keeps
  <2>2. ASSUME write.why = "success"
        PROVE  \A m \in seen : \A d \in disk'[m] : StateOf(d).floor <= write.st.floor
    <3>1. \A m \in seen : \A d \in disk[m] : StateOf(d).floor <= write.st.floor
      BY <1>1, <2>2, Zenon DEF BootInv, WriteSound
    <3>2. write.st.floor \in Nat
      BY <1>3, Zenon DEF States
    <3> SUFFICES ASSUME NEW m \in seen, NEW d \in disk'[m] PROVE StateOf(d).floor <= write.st.floor
      OBVIOUS
    <3>3. CASE d \in disk[m]
      BY <3>1, <3>3, Zenon
    <3>4. CASE d \notin disk[m]
      <4>1. m = medium /\ d \in cs
        BY <1>2, <1>3, <3>4, Zenon
      <4> QED BY <1>3, <1>5, <3>1, <3>2, <4>1
    <3> QED BY <3>3, <3>4, Zenon
  <2> QED BY <1>1, <1>2, <2>1, <2>2, Zenon DEF BootInv, WriteSound, Keeps
<1>10. OffSound' /\ NoRollback' /\ SlotSound'
  BY <1>1, Zenon DEF OffSound, NoRollback, BootInv, SlotSound, Recording
<1> QED BY <1>2, <1>4, <1>7, <1>8, <1>9, <1>10, Zenon

\* No step that goes on leaves an unsynced .new to be promoted.
LEMMA SureKept ==
  ASSUME BootInv, GoesOn,
         \A m \in Media \ {medium} : dir'[m] = dir[m] /\ sure'[m] = sure[m],
         Dirty(medium)' => write'.step = "sync",
         Blank(medium)' \/ Dirty(medium)' => Blank(medium) \/ Dirty(medium)
  PROVE  SureSound'
<1>1. /\ phase = "write" /\ phase' = "write" /\ write'.why = write.why
      /\ UNCHANGED <<left, medium, state>>
  BY Zenon DEF GoesOn
<1>2. ASSUME NEW m \in Media, Dirty(m)'
      PROVE  m \notin left /\ (m = medium => write'.step = "sync")
  <2>1. CASE m = medium
    BY <1>1, <1>2, <2>1, Zenon DEF BootInv, StateSound, OnMedium
  <2>2. CASE m # medium
    <3>1. Dirty(m)
      BY <1>2, <2>2, Zenon DEF Dirty
    <3> QED BY <2>2, <3>1, Zenon DEF BootInv, SureSound
  <2> QED BY <2>1, <2>2, Zenon
<1>3. ASSUME Blank(medium)' \/ Dirty(medium)'
      PROVE  /\ \A s \in Slots : state.slots[s].priority > 0 => s = 1 /\ state.slots[s].successful
             /\ Recording({"bad"}) => NoneLeft(state)
             /\ ~Recording({"try"})
  BY <1>1, <1>3, Zenon DEF BootInv, SureSound, OnMedium
<1>4. Recording({"bad"})' <=> Recording({"bad"})
  BY <1>1, Zenon DEF Recording
<1>5. Recording({"try"})' <=> Recording({"try"})
  BY <1>1, Zenon DEF Recording
<1>6. NoneLeft(state)' <=> NoneLeft(state)
  BY <1>1, Zenon DEF NoneLeft
<1> QED BY <1>1, <1>2, <1>3, <1>4, <1>5, <1>6, Zenon DEF SureSound

\* The values that a step of write_state works with.
LEMMA WriteValues ==
  ASSUME BootInv, phase = "write"
  PROVE  /\ medium \in Media /\ dir[medium] \in Contents
         /\ dir[medium].main \in Files /\ dir[medium].new \in Files /\ dir[medium].main.is # "torn"
         /\ write.st \in States /\ Whole(write.st) \in Files
         /\ write \in [step : WriteSteps \cup {"none"}, st : States,
                       why : {"none", "bad", "try", "success"}]
         /\ dir \in [Media -> Contents] /\ disk \in [Media -> SUBSET Contents]
         /\ sure \in [Media -> SUBSET Files]
<1>1. /\ medium \in Media /\ write.st \in States
      /\ write \in [step : WriteSteps \cup {"none"}, st : States,
                    why : {"none", "bad", "try", "success"}]
      /\ dir \in [Media -> Contents] /\ disk \in [Media -> SUBSET Contents]
      /\ sure \in [Media -> SUBSET Files]
  BY Zenon DEF BootInv, TypeOK
<1>2. dir[medium] \in Contents /\ dir[medium].main.is # "torn"
  BY <1>1, Zenon DEF BootInv, DiskSound
<1> QED BY <1>1, <1>2, FilesAre, Zenon DEF Contents

\* Going to the next step.
LEMMA GotoIs ==
  ASSUME BootInv, phase = "write", NEW next \in WriteSteps, Goto(next), phase' = phase,
         UNCHANGED <<release, seen, left, floor, medium, state, verified, slot, recorded, uses, faults>>
  PROVE  GoesOn /\ write'.step = next /\ write'.st = write.st
<1>1. /\ write \in [step : WriteSteps \cup {"none"}, st : States,
                    why : {"none", "bad", "try", "success"}]
  BY WriteValues, Zenon
<1>2. write' = [write EXCEPT !.step = next]
  BY Zenon DEF Goto
<1>3. write' \in [step : WriteSteps, st : {write.st}, why : {write.why}]
  BY <1>1, <1>2, Zenon
<1> QED BY <1>1, <1>2, <1>3, Zenon DEF GoesOn

\* Change, seen as growth.
LEMMA ChangeGrows ==
  ASSUME NEW content, NEW passed, Change(medium, content, passed),
         passed \subseteq Contents, content \in Contents,
         \A x \in passed \cup {content} :
           x.main.is # "torn" /\ StateOf(x) \in {StateOf(dir[medium]), write.st}
  PROVE  Grows(passed \cup {content}, content)
<1> DEFINE cs == passed \cup {content}
<1>1. disk' = [disk EXCEPT ![medium] = @ \cup cs]
  BY Zenon DEF Change
<1>2. cs \in SUBSET Contents /\ content \in cs
  OBVIOUS
<1>3. dir' = [dir EXCEPT ![medium] = content]
  BY Zenon DEF Change
<1> HIDE DEF cs
<1> QED BY <1>1, <1>2, <1>3, Zenon DEF Grows, cs

\* A step that leaves the directory alone.
LEMMA StaysGrows ==
  ASSUME BootInv, phase = "write", UNCHANGED <<dir, disk>>
  PROVE  Grows({dir[medium]}, dir[medium])
<1>1. /\ medium \in Media /\ dir[medium] \in disk[medium] /\ dir[medium] \in Contents
      /\ dir[medium].main.is # "torn"
      /\ dir \in [Media -> Contents] /\ disk \in [Media -> SUBSET Contents]
  BY WriteValues, Zenon DEF BootInv, DiskSound
<1>2. dir' = [dir EXCEPT ![medium] = dir[medium]]
  BY <1>1, Zenon
<1>3. disk' = [disk EXCEPT ![medium] = @ \cup {dir[medium]}]
  <2>1. disk[medium] \cup {dir[medium]} = disk[medium]
    BY <1>1, Zenon
  <2> QED BY <1>1, <2>1, Zenon
<1> QED BY <1>1, <1>2, <1>3, Zenon DEF Grows

\* A step that goes on keeps the invariant.
LEMMA WriteStepKeeps ==
  ASSUME BootInv, GoesOn, NEW cs, NEW c, Grows(cs, c), sure' \in [Media -> SUBSET Files],
         \A m \in Media \ {medium} : sure'[m] = sure[m],
         Dirty(medium)' => write'.step = "sync",
         Blank(medium)' \/ Dirty(medium)' => Blank(medium) \/ Dirty(medium),
         StepSound'
  PROVE  BootInv'
<1>1. \A m \in Media \ {medium} : dir'[m] = dir[m]
  BY GrowsSound, Zenon DEF GoesOn
<1>2. SureSound'
  BY <1>1, SureKept, Zenon
<1> QED BY <1>2, GoesOnKeeps, Zenon DEF BootInv

\* promote_recovered keeps the invariant: the .new it promotes is on the disk.
LEMMA PromoteKeeps ==
  ASSUME BootInv, Promote
  PROVE  BootInv' /\ \E cs, c : Grows(cs, c)
<1> DEFINE d == dir[medium]
<1>1. /\ phase = "write" /\ write.step = "promote" /\ GoesOn /\ write'.step = "create"
      /\ sure' = sure /\ medium' = medium /\ phase' = "write"
  BY GotoIs, Zenon DEF Promote, Writing, WriteSteps, GoesOn
<1>2. /\ medium \in Media /\ d \in Contents /\ d.main \in Files /\ d.new \in Files
      /\ d.main.is # "torn" /\ sure \in [Media -> SUBSET Files]
  BY <1>1, WriteValues, Zenon
<1>3. ~Dirty(medium)
  BY <1>1, <1>2, Zenon DEF BootInv, SureSound
<1>4. CASE d.main.is = "absent" /\ d.new.is = "whole"
  <2> DEFINE c == [main |-> d.new, new |-> Absent]
             passed == {[main |-> x, new |-> Absent] : x \in sure[medium]}
  <2>1. sure[medium] = {d.new}
    BY <1>3, <1>4, Zenon DEF Dirty
  <2>2. Change(medium, c, passed)
    BY <1>4, Zenon DEF Promote
  <2>3. passed = {c}
    BY <2>1, Zenon
  <2>4. c \in Contents /\ c.main = d.new /\ c.new = Absent
    BY <1>2, FilesAre, Zenon DEF Contents
  <2> HIDE DEF c, passed
  <2>5. c.main.is # "torn" /\ StateOf(c) = StateOf(d)
    BY <1>2, <1>4, <2>4, ReadIs, Zenon
  <2>6. Grows(passed \cup {c}, c)
    BY <2>2, <2>3, <2>4, <2>5, ChangeGrows, Zenon
  <2>7. dir'[medium] = c
    BY <1>1, <2>6, GrowsSound, Zenon DEF GoesOn
  <2>8. ~Dirty(medium)' /\ ~Blank(medium)'
    BY <1>1, <1>4, <2>4, <2>7, Zenon DEF Dirty, Blank
  <2>9. StepSound'
    BY <1>1, <1>4, <2>4, <2>7, Zenon DEF StepSound
  <2> QED BY <1>1, <1>2, <2>6, <2>8, <2>9, WriteStepKeeps, Zenon
<1>5. CASE d.main.is = "absent" /\ d.new.is = "torn"
  <2> DEFINE c == [main |-> Absent, new |-> Absent]
             passed == {[main |-> x, new |-> Absent] : x \in {Absent}}
  <2>1. Change(medium, c, passed)
    BY <1>5, Zenon DEF Promote
  <2>2. passed = {c}
    OBVIOUS
  <2>3. c \in Contents /\ c.main = Absent /\ c.new = Absent /\ Absent.is = "absent"
    BY <1>2, FilesAre, Zenon DEF Contents, Absent
  <2> HIDE DEF c, passed
  <2>4. c.main.is # "torn" /\ StateOf(c) = StateOf(d)
    BY <1>2, <1>5, <2>3, ReadIs, Zenon
  <2>5. Grows(passed \cup {c}, c)
    BY <2>1, <2>2, <2>3, <2>4, ChangeGrows, Zenon
  <2>6. dir'[medium] = c
    BY <1>1, <2>5, GrowsSound, Zenon DEF GoesOn
  <2>7. ~Dirty(medium)' /\ Blank(medium)
    BY <1>1, <1>5, <2>3, <2>6, Zenon DEF Dirty, Blank
  <2>8. StepSound'
    BY <1>1, <1>5, <2>3, <2>6, Zenon DEF StepSound
  <2> QED BY <1>1, <1>2, <2>5, <2>7, <2>8, WriteStepKeeps, Zenon
<1>6. CASE d.main.is # "absent" \/ d.new.is = "absent"
  <2>1. UNCHANGED <<dir, disk>>
    BY <1>6, Zenon DEF Promote
  <2>2. Grows({dir[medium]}, dir[medium])
    BY <1>1, <2>1, StaysGrows, Zenon
  <2>3. (Dirty(medium)' <=> Dirty(medium)) /\ (Blank(medium)' <=> Blank(medium))
    BY <1>1, <2>1, Zenon DEF Dirty, Blank
  <2>4. StepSound'
    BY <1>1, <1>6, <2>1, Zenon DEF StepSound
  <2> QED BY <1>1, <1>2, <1>3, <2>2, <2>3, <2>4, WriteStepKeeps, Zenon
<1> QED BY <1>2, <1>4, <1>5, <1>6, Zenon DEF Files

\* Truncating .new keeps the invariant: without a state file there was none to lose.
LEMMA CreateKeeps ==
  ASSUME BootInv, CreateNew
  PROVE  BootInv' /\ \E cs, c : Grows(cs, c)
<1> DEFINE d == dir[medium]
           c == [d EXCEPT !.new = Torn]
<1>1. /\ phase = "write" /\ write.step = "create" /\ GoesOn /\ write'.step = "fill"
      /\ medium' = medium /\ phase' = "write"
  BY GotoIs, Zenon DEF CreateNew, Writing, WriteSteps, GoesOn
<1>2. /\ medium \in Media /\ d \in Contents /\ d.main \in Files /\ d.new \in Files
      /\ d.main.is # "torn" /\ sure \in [Media -> SUBSET Files]
  BY <1>1, WriteValues, Zenon
<1>3. Change(medium, c, {}) /\ sure' = [sure EXCEPT ![medium] = {Torn}]
  BY Zenon DEF CreateNew
<1>4. c \in Contents /\ c.main = d.main /\ c.new = Torn /\ Torn.is = "torn"
  BY <1>2, FilesAre, Zenon DEF Contents, Torn
<1>5. d.main.is = "absent" => d.new.is = "absent"
  BY <1>1, Zenon DEF BootInv, StepSound
<1> HIDE DEF c
<1>6. c.main.is # "torn" /\ StateOf(c) = StateOf(d)
  BY <1>2, <1>4, <1>5, ReadIs, Zenon
<1>7. Grows({} \cup {c}, c)
  BY <1>3, <1>4, <1>6, ChangeGrows, Zenon
<1>8. dir'[medium] = c
  BY <1>1, <1>7, GrowsSound, Zenon DEF GoesOn
<1>9. /\ sure' \in [Media -> SUBSET Files] /\ \A m \in Media \ {medium} : sure'[m] = sure[m]
  BY <1>2, <1>3, FilesAre, Zenon
<1>10. ~Dirty(medium)' /\ (Blank(medium)' => Blank(medium))
  BY <1>1, <1>4, <1>5, <1>8, Zenon DEF Dirty, Blank
<1>11. StepSound'
  BY <1>1, <1>4, <1>8, Zenon DEF StepSound
<1> QED BY <1>1, <1>7, <1>9, <1>10, <1>11, WriteStepKeeps, Zenon

\* Writing .new keeps the invariant.
LEMMA FillKeeps ==
  ASSUME BootInv, FillNew
  PROVE  BootInv' /\ \E cs, c : Grows(cs, c)
<1> DEFINE d == dir[medium]
           w == Whole(write.st)
           c == [d EXCEPT !.new = w]
<1>1. /\ phase = "write" /\ write.step = "fill" /\ GoesOn /\ write'.step = "sync"
      /\ medium' = medium /\ phase' = "write" /\ write'.st = write.st
  BY GotoIs, Zenon DEF FillNew, Writing, WriteSteps, GoesOn
<1>2. /\ medium \in Media /\ d \in Contents /\ d.main \in Files /\ d.new \in Files
      /\ d.main.is # "torn" /\ sure \in [Media -> SUBSET Files] /\ w \in Files
  BY <1>1, WriteValues, Zenon
<1>3. Change(medium, c, {}) /\ sure' = [sure EXCEPT ![medium] = @ \cup {w}]
  BY Zenon DEF FillNew
<1>4. w.is = "whole" /\ w.st = write.st
  BY Zenon DEF Whole
<1> HIDE DEF w
<1>5. c \in Contents /\ c.main = d.main /\ c.new = w
  BY <1>2, Zenon DEF Contents
<1>6. d.new.is = "torn"
  BY <1>1 DEF BootInv, StepSound, Torn
<1> HIDE DEF c
<1>7. c.main.is # "torn" /\ StateOf(c) \in {StateOf(d), write.st}
  BY <1>2, <1>4, <1>5, ReadIs, Zenon
<1>8. Grows({} \cup {c}, c)
  BY <1>3, <1>5, <1>7, ChangeGrows, Zenon
<1>9. dir'[medium] = c
  BY <1>1, <1>8, GrowsSound, Zenon DEF GoesOn
<1>10. /\ sure' \in [Media -> SUBSET Files] /\ \A m \in Media \ {medium} : sure'[m] = sure[m]
  BY <1>2, <1>3, Zenon
<1>11. Blank(medium)' \/ Dirty(medium)' => Blank(medium)
  BY <1>1, <1>5, <1>6, <1>9, Zenon DEF Dirty, Blank
<1>12. StepSound'
  BY <1>1, <1>5, <1>9, Zenon DEF StepSound, w
<1> QED BY <1>1, <1>8, <1>10, <1>11, <1>12, WriteStepKeeps, Zenon

\* Syncing .new keeps the invariant.
LEMMA SyncKeeps ==
  ASSUME BootInv, SyncNew
  PROVE  BootInv' /\ \E cs, c : Grows(cs, c)
<1> DEFINE w == Whole(write.st)
<1>1. /\ phase = "write" /\ write.step = "sync" /\ GoesOn /\ write'.step = "rename"
      /\ medium' = medium /\ phase' = "write" /\ write'.st = write.st /\ UNCHANGED <<dir, disk>>
  BY GotoIs, Zenon DEF SyncNew, Writing, WriteSteps, GoesOn
<1>2. medium \in Media /\ sure \in [Media -> SUBSET Files] /\ w \in Files
  BY <1>1, WriteValues, Zenon
<1>3. sure' = [sure EXCEPT ![medium] = {w}] /\ dir[medium].new = w
  BY <1>1, Zenon DEF SyncNew, BootInv, StepSound
<1>4. w.is = "whole"
  BY Zenon DEF Whole
<1>5. Grows({dir[medium]}, dir[medium])
  BY <1>1, StaysGrows, Zenon
<1> HIDE DEF w
<1>6. /\ sure' \in [Media -> SUBSET Files] /\ sure'[medium] = {w}
      /\ \A m \in Media \ {medium} : sure'[m] = sure[m]
  BY <1>2, <1>3, Zenon
<1>7. ~Dirty(medium)' /\ ~Blank(medium)'
  BY <1>1, <1>3, <1>4, <1>6, Zenon DEF Dirty, Blank
<1>8. StepSound'
  BY <1>1, <1>3, <1>6, Zenon DEF StepSound, w
<1> QED BY <1>1, <1>5, <1>6, <1>7, <1>8, WriteStepKeeps, Zenon

\* Renaming .new over the state file keeps the invariant: whatever a power cut leaves
\* of it is read as the state before or the state written.
LEMMA RenameKeeps ==
  ASSUME BootInv, Rename
  PROVE  BootInv' /\ \E cs, c : Grows(cs, c)
<1> DEFINE w == Whole(write.st)
           c == [main |-> w, new |-> Absent]
           b == [main |-> Absent, new |-> w]
           passed == {[main |-> Absent, new |-> x] : x \in sure[medium]}
                       \cup {[main |-> x, new |-> Absent] : x \in sure[medium]}
<1>1. /\ phase = "write" /\ write.step = "rename" /\ GoesOn /\ write'.step = "dirsync"
      /\ medium' = medium /\ phase' = "write" /\ write'.st = write.st /\ sure' = sure
  BY GotoIs, Zenon DEF Rename, Writing, WriteSteps, GoesOn
<1>2. medium \in Media /\ sure \in [Media -> SUBSET Files] /\ w \in Files
  BY <1>1, WriteValues, Zenon
<1>3. Change(medium, c, passed)
  BY Zenon DEF Rename
<1>4. sure[medium] = {w}
  BY <1>1, Zenon DEF BootInv, StepSound
<1>5. passed = {b, c}
  BY <1>4, Zenon
<1>6. w.is = "whole" /\ w.st = write.st /\ Absent.is = "absent"
  BY Zenon DEF Whole, Absent
<1> HIDE DEF w
<1>7. /\ c \in Contents /\ c.main = w /\ c.new = Absent
      /\ b \in Contents /\ b.main = Absent /\ b.new = w
  BY <1>2, FilesAre, Zenon DEF Contents
<1> HIDE DEF b, c, passed
<1>8. /\ c.main.is # "torn" /\ StateOf(c) = write.st
      /\ b.main.is # "torn" /\ StateOf(b) = write.st
  BY <1>6, <1>7, ReadIs, Zenon
<1>9. Grows(passed \cup {c}, c)
  BY <1>3, <1>5, <1>7, <1>8, ChangeGrows, Zenon
<1>10. dir'[medium] = c
  BY <1>1, <1>9, GrowsSound, Zenon DEF GoesOn
<1>11. ~Dirty(medium)' /\ ~Blank(medium)'
  BY <1>1, <1>6, <1>7, <1>10, Zenon DEF Dirty, Blank
<1>12. StepSound'
  BY <1>1, <1>10, Zenon DEF StepSound, c, w
<1> QED BY <1>1, <1>2, <1>9, <1>11, <1>12, WriteStepKeeps, Zenon

\* NoWrite is a write that is not in flight.
LEMMA NoWriteIs ==
  NoWrite \in [step : WriteSteps \cup {"none"}, st : States, why : {"none", "bad", "try", "success"}]
BY FreshIs, Zenon DEF NoWrite

\* The sync of the directory keeps the invariant, whatever was recorded.
LEMMA SyncDirKeeps ==
  ASSUME BootInv, SyncDir
  PROVE  BootInv' /\ \A m \in Media : disk'[m] \subseteq disk[m]
<1>1. /\ phase = "write" /\ write.step = "dirsync" /\ Return(TRUE)
      /\ disk' = [disk EXCEPT ![medium] = {dir[medium]}]
      /\ recorded' = [recorded EXCEPT ![medium] = write.st.floor]
      /\ UNCHANGED <<release, dir, sure, seen, left, floor, medium, slot, faults>>
  BY Zenon DEF SyncDir, Writing
<1>2. /\ medium \in Media /\ medium \in seen /\ medium \notin left /\ seen \subseteq Media
      /\ left \subseteq seen /\ write.st \in States /\ write.st.floor \in Nat /\ floor \in Nat
      /\ floor <= write.st.floor /\ slot \in Slots
      /\ disk \in [Media -> SUBSET Contents] /\ recorded \in [Media -> Nat]
      /\ uses \in [Media -> [Slots -> Nat]]
      /\ \A m \in seen : recorded[m] <= floor
      /\ \A s \in verified : ManifestOk(release[medium][s], floor)
  BY <1>1, WriteFloors, Zenon DEF BootInv, TypeOK, StateSound, OnMedium, FloorSound, States, WriteSound
<1>3. /\ dir[medium] \in Contents /\ dir[medium].main.is = "whole" /\ StateOf(dir[medium]) = write.st
      /\ dir[medium] \in disk[medium]
  <2>1. dir[medium] = [main |-> Whole(write.st), new |-> Absent] /\ dir[medium] \in Contents
    BY <1>1, WriteValues, Zenon DEF BootInv, StepSound
  <2>2. dir[medium].main.is = "whole" /\ dir[medium].main.st = write.st
    BY <2>1 DEF Whole
  <2> QED BY <1>2, <2>1, <2>2, ReadIs, Zenon DEF BootInv, DiskSound
<1>4. /\ disk' \in [Media -> SUBSET Contents] /\ disk'[medium] = {dir[medium]}
      /\ \A m \in Media \ {medium} : disk'[m] = disk[m]
      /\ recorded' \in [Media -> Nat] /\ recorded'[medium] = write.st.floor
      /\ \A m \in Media \ {medium} : recorded'[m] = recorded[m]
  BY <1>1, <1>2, <1>3, Zenon
<1>5. \A m \in Media : disk'[m] \subseteq disk[m]
  BY <1>3, <1>4, Zenon
<1>6. /\ \A s \in Slots : uses[medium][s] + write.st.slots[s].tries <= DefaultTries
      /\ write.why \in {"bad", "try", "success"}
  BY <1>1, Zenon DEF BootInv, WriteSound
<1>7. ASSUME \A m \in Media \ {medium} : uses'[m] = uses[m],
             \A s \in Slots : uses'[medium][s] + write.st.slots[s].tries <= DefaultTries
      PROVE  DiskSound'
  <2> SUFFICES ASSUME NEW m \in Media
               PROVE  /\ dir[m] \in disk'[m]
                      /\ \A d \in disk'[m] :
                           /\ d.main.is # "torn" /\ StateOf(d).floor >= recorded'[m]
                           /\ \A s \in Slots : uses'[m][s] + StateOf(d).slots[s].tries <= DefaultTries
    BY <1>1, Zenon DEF DiskSound
  <2>1. CASE m = medium
    <3>1. \A a \in Nat : a >= a
      OBVIOUS
    <3>2. "whole" # "torn"
      OBVIOUS
    <3> QED BY <1>2, <1>3, <1>4, <1>7, <2>1, <3>1, <3>2, Zenon
  <2>2. CASE m # medium
    BY <1>4, <1>7, <2>2, ZenonT(60) DEF BootInv, DiskSound
  <2> QED BY <2>1, <2>2, Zenon
<1>8. ASSUME phase' \in {"try", "run", "proved"}
      PROVE  SureSound' /\ OffSound' /\ WriteSound' /\ StepSound'
  <2>1. ~Dirty(medium) /\ ~Blank(medium)
    BY <1>3, Zenon DEF Dirty, Blank
  <2>2. \A m \in Media : Dirty(m)' <=> Dirty(m)
    BY <1>1, Zenon DEF Dirty
  <2>3. Blank(medium)' <=> Blank(medium)
    BY <1>1, Zenon DEF Blank
  <2>4. Dirty(medium)' <=> Dirty(medium)
    BY <1>1, Zenon DEF Dirty
  <2> QED BY <1>1, <1>8, <2>1, <2>2, <2>3, <2>4, Zenon DEF BootInv, SureSound, OffSound, WriteSound, StepSound
<1>9. ASSUME Recording({"bad", "try"}), phase' \in {"try", "run"}
      PROVE  FloorSound'
  <2>1. /\ \A m \in seen : \A d \in disk[m] : StateOf(d).floor <= floor
        /\ \E m \in seen : \A d \in disk[m] : StateOf(d).floor = floor
    BY <1>9, Zenon DEF BootInv, FloorSound, Undecided
  <2>2. write.st.floor = floor
    BY <1>9, Zenon DEF BootInv, WriteSound, Recording
  <2>3. /\ \A m \in seen : \A d \in disk'[m] : StateOf(d).floor <= floor
        /\ \E m \in seen : \A d \in disk'[m] : StateOf(d).floor = floor
    BY <1>2, <1>5, <2>1, Zenon
  <2>4. \A m \in seen : recorded'[m] <= floor
    BY <1>2, <1>4, <2>2, Zenon
  <2> QED BY <1>1, <1>2, <2>3, <2>4, Zenon DEF FloorSound
<1>10. CASE write.why = "bad"
  <2>1. phase' = "try" /\ write' = NoWrite /\ UNCHANGED <<state, verified, uses>>
    BY <1>1, <1>10, Zenon DEF Return
  <2>2. Recording({"bad", "try"})
    BY <1>1, <1>10, Zenon DEF Recording
  <2>3. TypeOK'
    BY <1>1, <1>4, <2>1, NoWriteIs, Zenon DEF BootInv, TypeOK
  <2>4. StateSound'
    BY <1>1, <1>2, <2>1, <2>2, Zenon DEF BootInv, StateSound, Recording, Keeps
  <2>5. SlotSound' /\ NoRollback'
    BY <2>1, Zenon DEF SlotSound, NoRollback, Recording
  <2> QED BY <1>5, <1>6, <1>7, <1>8, <1>9, <2>1, <2>2, <2>3, <2>4, <2>5, Zenon DEF BootInv
<1>11. CASE write.why = "try"
  <2>1. /\ phase' = "run" /\ write' = NoWrite /\ state' = write.st /\ verified' = verified
        /\ uses' = [uses EXCEPT ![medium][slot] = @ + 1]
    BY <1>1, <1>11, Zenon DEF Return
  <2>2. Recording({"bad", "try"}) /\ Recording({"try"}) /\ Recording({"try", "success"})
    BY <1>1, <1>11, Zenon DEF Recording
  <2>3. /\ uses' \in [Media -> [Slots -> Nat]] /\ uses'[medium][slot] = uses[medium][slot] + 1
        /\ \A s \in Slots \ {slot} : uses'[medium][s] = uses[medium][s]
        /\ \A m \in Media \ {medium} : uses'[m] = uses[m]
    BY <1>2, <2>1
  <2>4. \A s \in Slots : uses'[medium][s] + write.st.slots[s].tries <= DefaultTries
    <3>1. uses[medium][slot] + write.st.slots[slot].tries < DefaultTries
      BY <1>1, <1>11, Zenon DEF BootInv, WriteSound
    <3>2. uses[medium][slot] \in Nat /\ write.st.slots[slot].tries \in Nat
      <4>1. write.st.slots[slot] \in Entries
        BY <1>2, Zenon DEF States
      <4>2. write.st.slots[slot].tries \in Nat
        BY <4>1, Zenon DEF Entries
      <4> QED BY <1>2, <4>2, Zenon
    <3>3. \A a, b \in Nat : a + b < DefaultTries => (a + 1) + b <= DefaultTries
      OBVIOUS
    <3>4. uses'[medium][slot] + write.st.slots[slot].tries <= DefaultTries
      BY <2>3, <3>1, <3>2, <3>3, Zenon
    <3> QED BY <1>6, <2>3, <3>4, Zenon
  <2>5. TypeOK'
    BY <1>1, <1>2, <1>4, <2>1, <2>3, NoWriteIs, Zenon DEF BootInv, TypeOK
  <2>6. write.st.floor = floor /\ SameSlots(write.st, state)
    BY <1>1, <1>11, Zenon DEF BootInv, WriteSound
  <2>7. StateSound'
    <3>1. \A s \in Slots : uses'[medium][s] + state'.slots[s].tries <= DefaultTries
      BY <2>1, <2>4, Zenon
    <3>2. StateOf(dir[medium]) = state' /\ Keeps(medium, state, dir[medium])'
      BY <1>1, <1>3, <2>1, Zenon DEF Keeps
    <3> QED BY <1>1, <1>2, <2>1, <2>6, <3>1, <3>2, Zenon DEF StateSound, Recording
  <2>8. SlotSound'
    <3>1. /\ release[medium][slot].content = "good" /\ ManifestOk(release[medium][slot], floor)
          /\ state.slots[slot].priority > 0
      BY <2>2, Zenon DEF BootInv, SlotSound
    <3>2. write.st.slots[slot].priority = state.slots[slot].priority
      BY <1>2, <2>6, Zenon DEF SameSlots
    <3> QED BY <1>1, <2>1, <3>1, <3>2, Zenon DEF SlotSound
  <2>9. NoRollback'
    <3>1. release[medium][slot].epoch >= floor
      BY <2>2, Zenon DEF BootInv, SlotSound, ManifestOk
    <3>2. release[medium][slot].epoch \in Nat
      BY <1>2 DEF BootInv, TypeOK
    <3>3. \A m \in seen : recorded'[m] <= floor /\ recorded'[m] \in Nat
      BY <1>2, <1>4, <2>6, Zenon
    <3>4. \A m \in seen : release[medium][slot].epoch >= recorded'[m]
      <4>1. floor \in Nat
        BY <1>2, Zenon
      <4> QED BY <3>1, <3>2, <3>3, <4>1
    <3> QED BY <1>1, <2>1, <3>4, Zenon DEF NoRollback
  <2> QED BY <1>5, <1>7, <1>8, <1>9, <2>1, <2>2, <2>3, <2>4, <2>5, <2>7, <2>8, <2>9, Zenon DEF BootInv
<1>12. CASE write.why = "success"
  <2>1. phase' = "proved" /\ write' = NoWrite /\ UNCHANGED <<state, verified, uses>>
    BY <1>1, <1>12, Zenon DEF Return
  <2>2. TypeOK'
    BY <1>1, <1>4, <2>1, NoWriteIs, Zenon DEF BootInv, TypeOK
  <2>3. StateSound' /\ SlotSound' /\ FloorSound'
    BY <2>1, Zenon DEF StateSound, SlotSound, FloorSound, Recording, OnMedium, Undecided
  <2>4. NoRollback'
    <3>1. write.st.floor <= release[medium][slot].epoch
      BY <1>1, <1>12, Zenon DEF BootInv, WriteSound
    <3>2. release[medium][slot].epoch \in Nat
      BY <1>2 DEF BootInv, TypeOK
    <3>3. \A m \in seen : recorded'[m] <= write.st.floor /\ recorded'[m] \in Nat
      <4>1. \A a, b, c \in Nat : a <= b /\ b <= c => a <= c
        OBVIOUS
      <4>2. \A m \in seen : recorded[m] \in Nat /\ recorded[m] <= write.st.floor
        BY <1>2, <4>1, Zenon
      <4>3. \A a \in Nat : a <= a
        OBVIOUS
      <4>4. recorded'[medium] <= write.st.floor /\ recorded'[medium] \in Nat
        BY <1>2, <1>4, <4>3, Zenon
      <4> QED BY <1>2, <1>4, <4>2, <4>4, Zenon
    <3>4. \A m \in seen : release[medium][slot].epoch >= recorded'[m] /\ recorded'[medium] >= recorded'[m]
      <4>1. write.st.floor \in Nat
        BY <1>2, Zenon
      <4>2. \A a, b \in Nat : a <= b => b >= a
        OBVIOUS
      <4> SUFFICES ASSUME NEW m \in seen
                   PROVE  release[medium][slot].epoch >= recorded'[m] /\ recorded'[medium] >= recorded'[m]
        OBVIOUS
      <4>3. recorded'[m] \in Nat /\ recorded'[m] <= write.st.floor
        BY <3>3, Zenon
      <4>4. release[medium][slot].epoch >= recorded'[m]
        BY <3>1, <3>2, <4>1, <4>3
      <4>5. write.st.floor >= recorded'[m]
        BY <1>2, <4>2, <4>3, Zenon
      <4> QED BY <1>4, <4>4, <4>5, Zenon
    <3> QED BY <1>1, <3>4, Zenon DEF NoRollback
  <2> QED BY <1>5, <1>6, <1>7, <1>8, <2>1, <2>2, <2>3, <2>4, Zenon DEF BootInv
<1> QED BY <1>6, <1>10, <1>11, <1>12, Zenon

\* A write_state that fails keeps the invariant: the state of the medium is what it was.
LEMMA WriteFailsKeeps ==
  ASSUME BootInv, WriteFails
  PROVE  BootInv' /\ \E cs, c : Grows(cs, c)
<1> DEFINE d == dir[medium]
<1>1. /\ phase = "write" /\ Return(FALSE) /\ faults' = faults + 1
      /\ UNCHANGED <<release, sure, seen, left, floor, medium, slot, recorded>>
      /\ \/ d.main.is # "absent" /\ Change(medium, [d EXCEPT !.new = Absent], {})
         \/ UNCHANGED <<dir, disk>>
  BY Zenon DEF WriteFails, Fault
<1>2. /\ medium \in Media /\ medium \in seen /\ medium \notin left /\ seen \subseteq Media
      /\ left \subseteq seen /\ floor \in Nat /\ slot \in Slots /\ faults \in Nat
      /\ \A m \in seen : recorded[m] <= floor /\ recorded[m] \in Nat
      /\ \A s \in verified : ManifestOk(release[medium][s], floor)
      /\ write.why \in {"bad", "try", "success"} /\ d \in Contents /\ d \in disk[medium]
      /\ d.main \in Files /\ d.main.is # "torn"
  BY <1>1, WriteFloors, WriteValues, Zenon
  DEF BootInv, TypeOK, StateSound, OnMedium, FloorSound, WriteSound, DiskSound
<1>3. \E c : /\ Grows({c}, c) /\ StateOf(c) = StateOf(d)
             /\ c = d \/ (c.main.is # "absent" /\ d.main.is # "absent")
  <2>1. CASE d.main.is # "absent" /\ Change(medium, [d EXCEPT !.new = Absent], {})
    <3> DEFINE c == [d EXCEPT !.new = Absent]
    <3>1. c \in Contents /\ c.main = d.main
      BY <1>2, FilesAre, Zenon DEF Contents
    <3>2. Change(medium, c, {})
      BY <2>1, Zenon
    <3> HIDE DEF c
    <3>3. StateOf(c) = StateOf(d)
      BY <1>2, <2>1, <3>1, ReadIs, Zenon
    <3>4. Grows({} \cup {c}, c)
      BY <1>2, <3>1, <3>2, <3>3, ChangeGrows, Zenon
    <3>5. {} \cup {c} = {c}
      OBVIOUS
    <3> QED BY <2>1, <3>1, <3>3, <3>4, <3>5, Zenon
  <2>2. CASE UNCHANGED <<dir, disk>>
    BY <1>1, <2>2, StaysGrows, Zenon
  <2> QED BY <1>1, <2>1, <2>2, Zenon
<1>4. PICK c : /\ Grows({c}, c) /\ StateOf(c) = StateOf(d)
               /\ c = d \/ (c.main.is # "absent" /\ d.main.is # "absent")
  BY <1>3, Zenon
<1>5. uses' = uses
  BY <1>1, <1>2, Zenon DEF Return
<1>6. /\ dir' \in [Media -> Contents] /\ disk' \in [Media -> SUBSET Contents]
      /\ dir'[medium] = c /\ disk'[medium] = disk[medium] \cup {c}
      /\ \A m \in Media \ {medium} : dir'[m] = dir[m] /\ disk'[m] = disk[m]
      /\ DiskSound'
  BY <1>1, <1>4, <1>5, GrowsSound, Zenon
<1>7. \A m \in Media : \A x \in disk'[m] : \E y \in disk[m] : StateOf(x) = StateOf(y)
  BY <1>2, <1>4, <1>6, Zenon
<1>8. /\ \A m \in Media : Dirty(m)' => Dirty(m)
      /\ Blank(medium)' => Blank(medium)
      /\ Dirty(medium)' => Dirty(medium)
  <2>1. ASSUME NEW m \in Media, Dirty(m)' PROVE Dirty(m)
    <3>1. CASE m = medium
      BY <1>1, <1>4, <1>6, <2>1, <3>1, Zenon DEF Dirty
    <3>2. CASE m # medium
      BY <1>1, <1>6, <2>1, <3>2, Zenon DEF Dirty
    <3> QED BY <3>1, <3>2, Zenon
  <2>2. Blank(medium)' => Blank(medium)
    BY <1>1, <1>4, <1>6, Zenon DEF Blank
  <2>3. Dirty(medium)' => Dirty(medium)
    BY <1>1, <1>4, <1>6, Zenon DEF Dirty
  <2> QED BY <2>1, <2>2, <2>3, Zenon
<1>9. CASE write.why \in {"bad", "try"}
  <2>1. /\ phase' = "try" /\ write' = NoWrite /\ state' = state /\ verified' \subseteq verified
        /\ verified' \in SUBSET Slots
    BY <1>1, <1>9, Zenon DEF Return, BootInv, TypeOK
  <2>2. Recording({"bad", "try"})
    BY <1>1, <1>9, Zenon DEF Recording
  <2>3. TypeOK'
    BY <1>1, <1>2, <1>5, <1>6, <2>1, NoWriteIs, SMTT(30), Zenon DEF BootInv, TypeOK
  <2>4. FloorSound'
    <3>1. /\ \A m \in seen : \A x \in disk[m] : StateOf(x).floor <= floor
          /\ \E m \in seen : \A x \in disk[m] : StateOf(x).floor = floor
      BY <2>2, Zenon DEF BootInv, FloorSound, Undecided
    <3>2. \A m \in seen : \A x \in disk'[m] : StateOf(x).floor <= floor
      BY <1>2, <1>7, <3>1
    <3>3. \E m \in seen : \A x \in disk'[m] : StateOf(x).floor = floor
      BY <1>2, <1>7, <3>1
    <3> QED BY <1>1, <1>2, <3>2, <3>3, Zenon DEF FloorSound
  <2>5. StateSound'
    <3>1. /\ state.floor = floor
          /\ \A s \in Slots : /\ uses[medium][s] + state.slots[s].tries <= DefaultTries
                              /\ state.slots[s].priority > 0 => StateOf(d).slots[s].priority > 0
          /\ Keeps(medium, state, d)
      BY <2>2, Zenon DEF BootInv, StateSound
    <3>2. Keeps(medium, state, dir[medium])'
      BY <1>1, <1>4, <1>6, <2>1, <3>1, Zenon DEF Keeps
    <3> QED BY <1>1, <1>2, <1>4, <1>5, <1>6, <2>1, <3>1, <3>2, Zenon DEF StateSound
  <2>6. SureSound'
    <3>1. ASSUME Blank(medium)' \/ Dirty(medium)'
          PROVE  /\ \A s \in Slots : state.slots[s].priority > 0 => s = 1 /\ state.slots[s].successful
                 /\ NoneLeft(state)
      BY <1>1, <1>8, <1>9, <3>1, Zenon DEF BootInv, SureSound, OnMedium, Recording
    <3>2. NoneLeft(state)' <=> NoneLeft(state)
      BY <2>1, Zenon DEF NoneLeft
    <3>3. \A m \in Media : Dirty(m)' => m \notin left'
      BY <1>1, <1>8, Zenon DEF BootInv, SureSound
    <3> QED BY <1>1, <2>1, <3>1, <3>2, <3>3, Zenon DEF SureSound, Recording
  <2>7. OffSound' /\ SlotSound' /\ WriteSound' /\ StepSound' /\ NoRollback'
    BY <2>1, Zenon DEF OffSound, SlotSound, WriteSound, StepSound, NoRollback, Recording
  <2> QED BY <1>4, <1>6, <2>3, <2>4, <2>5, <2>6, <2>7, Zenon DEF BootInv
<1>10. CASE write.why = "success"
  <2>1. phase' = "ready" /\ write' = NoWrite /\ UNCHANGED <<state, verified>>
    BY <1>1, <1>10, Zenon DEF Return
  <2>2. TypeOK'
    BY <1>1, <1>2, <1>5, <1>6, <2>1, NoWriteIs DEF BootInv, TypeOK
  <2>3. NoRollback'
    <3>1. release[medium][slot].epoch >= floor /\ release[medium][slot].epoch \in Nat
      BY <1>1, <1>2, <1>10 DEF BootInv, TypeOK, SlotSound, ManifestOk, Recording
    <3>2. \A m \in seen : release[medium][slot].epoch >= recorded[m]
      BY <1>2, <3>1
    <3> QED BY <1>1, <2>1, <3>2, Zenon DEF NoRollback
  <2>4. SureSound'
    <3>1. \A m \in Media : Dirty(m)' => m \notin left'
      BY <1>1, <1>8, Zenon DEF BootInv, SureSound
    <3> QED BY <2>1, <3>1, Zenon DEF SureSound, OnMedium
  <2>5. /\ OffSound' /\ FloorSound' /\ StateSound' /\ SlotSound' /\ WriteSound' /\ StepSound'
    BY <2>1, Zenon DEF OffSound, FloorSound, StateSound, SlotSound, WriteSound, StepSound, Recording,
                OnMedium, Undecided
  <2> QED BY <1>4, <1>6, <2>2, <2>3, <2>4, <2>5, Zenon DEF BootInv
<1> QED BY <1>2, <1>9, <1>10, Zenon

-----------------------------------------------------------------------------
(***************************************************************************)
(* Stage 1.                                                                *)
(***************************************************************************)

\* Max of what a function gives for some media.
LEMMA MaxIs ==
  ASSUME NEW S \in SUBSET Media, S # {}, NEW f \in [Media -> Nat]
  PROVE  /\ Max({f[m] : m \in S}) \in Nat
         /\ \E m \in S : f[m] = Max({f[m_1] : m_1 \in S})
         /\ \A m \in S : f[m] <= Max({f[m_1] : m_1 \in S})
<1> DEFINE V == {f[m] : m \in S}
<1>1. V \in SUBSET Nat /\ V # {}
  OBVIOUS
<1>2. IsFiniteSet(V)
  <2>1. IsFiniteSet(S)
    BY FS_Subset, Zenon
  <2>2. f \in [Media -> Nat] /\ [m \in S |-> f[m]] \in Surjection(S, V)
    BY Zenon DEF Surjection
  <2> QED BY <2>1, <2>2, FS_Surjection, Zenon
<1> HIDE DEF V
<1>3. \E x \in V : \A y \in V : x >= y
  BY <1>1, <1>2, Greatest, Zenon
<1>4. Max(V) \in V /\ \A y \in V : Max(V) >= y
  BY <1>3, Zenon DEF Max
<1>5. \A m \in S : f[m] \in V
  BY Zenon DEF V
<1>6. \A y \in V : \E m \in S : y = f[m]
  BY Zenon DEF V
<1>7. Max(V) \in Nat
  BY <1>1, <1>4, Zenon
<1>8. \A m \in S : f[m] <= Max(V)
  BY <1>1, <1>4, <1>5, <1>7, Zenon
<1> QED BY <1>4, <1>6, <1>7, <1>8, Zenon DEF V

\* A boot that gives up changes nothing.
LEMMA DownKeeps ==
  ASSUME BootInv, Down, UNCHANGED <<release, files, recorded, uses>>, faults' \in Nat
  PROVE  BootInv'
<1>1. /\ phase' = "down"
      /\ UNCHANGED <<release, dir, disk, sure, recorded, uses, seen, left, floor, medium, state,
                     verified, slot, write>>
  BY Zenon DEF Down, stage, files
<1>2. TypeOK' /\ DiskSound'
  BY <1>1, Zenon DEF BootInv, TypeOK, DiskSound
<1>3. SureSound'
  <2>1. \A m \in Media : Dirty(m)' <=> Dirty(m)
    BY <1>1, Zenon DEF Dirty
  <2> QED BY <1>1, <2>1, Zenon DEF BootInv, SureSound, OnMedium
<1>4. /\ OffSound' /\ FloorSound' /\ StateSound' /\ SlotSound' /\ WriteSound' /\ StepSound' /\ NoRollback'
  BY <1>1, Zenon DEF OffSound, FloorSound, StateSound, SlotSound, WriteSound, StepSound, NoRollback, Recording,
              OnMedium, Undecided
<1> QED BY <1>2, <1>3, <1>4, Zenon DEF BootInv

\* discover keeps the invariant: the floor is the highest of the media found.
LEMMA DiscoverKeeps ==
  ASSUME BootInv, Discover
  PROVE  BootInv'
<1>1. faults' \in Nat /\ UNCHANGED <<release, dir, disk, sure, recorded, uses>> /\ phase = "off"
  BY DEF Discover, files, Fault, BootInv, TypeOK
<1>2. CASE Down
  BY <1>1, <1>2, DownKeeps, Zenon DEF files
<1>3. CASE ~Down
  <2>1. PICK found \in SUBSET Media :
          /\ found # {} /\ phase' = "select" /\ seen' = found /\ left' = found
          /\ floor' = Max({Read(dir[m]).st.floor : m \in found})
          /\ UNCHANGED <<medium, state, verified, slot, write>>
    BY <1>3, Zenon DEF Discover
  <2>2. \A m \in Media : disk[m] = {dir[m]} /\ sure[m] = {dir[m].new}
    BY <1>1, Zenon DEF BootInv, OffSound
  <2> DEFINE f == [m \in Media |-> StateOf(dir[m]).floor]
  <2>3. f \in [Media -> Nat] /\ \A m \in Media : f[m] = StateOf(dir[m]).floor
    <3>1. \A m \in Media : StateOf(dir[m]) \in States
      BY ReadIs, Zenon DEF BootInv, TypeOK
    <3> QED BY <3>1, Zenon DEF States
  <2>4. floor' = Max({f[m] : m \in found})
    BY <2>1, Zenon DEF StateOf
  <2> HIDE DEF f
  <2>5. /\ floor' \in Nat /\ \E m \in found : f[m] = floor'
        /\ \A m \in found : f[m] <= floor'
    BY <2>1, <2>3, <2>4, MaxIs, Zenon
  <2>6. TypeOK' /\ DiskSound'
    BY <1>1, <2>1, <2>5, Zenon DEF BootInv, TypeOK, DiskSound
  <2>7. FloorSound'
    <3>1. \A m \in found : \A d \in disk[m] : StateOf(d).floor <= floor'
      BY <2>2, <2>3, <2>5
    <3>2. \E m \in found : \A d \in disk[m] : StateOf(d).floor = floor'
      BY <2>2, <2>3, <2>5, Zenon
    <3>3. \A m \in found : recorded[m] <= floor'
      <4>1. \A m \in found : recorded[m] <= f[m] /\ recorded[m] \in Nat /\ f[m] \in Nat
        BY <2>3, Zenon DEF BootInv, DiskSound, TypeOK
      <4> QED BY <2>5, <4>1
    <3> QED BY <1>1, <2>1, <3>1, <3>2, <3>3, Zenon DEF FloorSound
  <2>8. SureSound'
    <3>1. \A m \in Media : ~Dirty(m)'
      BY <1>1, <2>2, Zenon DEF Dirty
    <3> QED BY <2>1, <3>1, Zenon DEF SureSound, OnMedium
  <2>9. /\ OffSound' /\ StateSound' /\ SlotSound' /\ WriteSound' /\ StepSound' /\ NoRollback'
    BY <2>1, Zenon DEF OffSound, StateSound, SlotSound, WriteSound, StepSound, NoRollback, Recording, OnMedium
  <2> QED BY <2>6, <2>7, <2>8, <2>9, Zenon DEF BootInv
<1> QED BY <1>2, <1>3, Zenon

\* Opening a medium keeps the invariant.
LEMMA TryMediumKeeps ==
  ASSUME BootInv, TryMedium
  PROVE  BootInv'
<1>1. PICK m \in left, unread \in SUBSET Slots :
        /\ medium' = m /\ left' = left \ {m} /\ state' = StateUnderFloor(m)
        /\ verified' = {s \in Slots \ unread : ManifestOk(release[m][s], state'.floor)}
        /\ IF unread = {} THEN UNCHANGED faults ELSE Fault
  BY Zenon DEF TryMedium
<1>2. /\ phase = "select" /\ phase' = "try"
      /\ UNCHANGED <<release, dir, disk, sure, seen, floor, slot, write, recorded, uses>>
  BY Zenon DEF TryMedium, files
<1>3. /\ left \subseteq seen /\ left \in SUBSET Media /\ m \in Media /\ m \in seen /\ floor \in Nat
      /\ seen \in SUBSET Media /\ \A k \in seen : recorded[k] <= floor
      /\ \A k \in seen : \A d \in disk[k] : StateOf(d).floor <= floor
      /\ \E k \in seen : \A d \in disk[k] : StateOf(d).floor = floor
      /\ dir[m] \in disk[m] /\ dir[m] \in Contents /\ StateOf(dir[m]) \in States
  BY <1>2, ReadIs, Zenon DEF BootInv, TypeOK, FloorSound, Undecided, DiskSound
<1>4. state' \in States /\ state'.slots = StateOf(dir[m]).slots /\ state'.floor = floor
  <2>1. state' = RaiseFloor(StateOf(dir[m]), floor)
    BY <1>1, Zenon DEF StateUnderFloor, StateOf
  <2>2. StateOf(dir[m]).floor <= floor /\ StateOf(dir[m]).floor \in Nat
    BY <1>3, Zenon DEF States
  <2>3. /\ state' \in States /\ state'.slots = StateOf(dir[m]).slots
        /\ state'.floor = IF floor > StateOf(dir[m]).floor THEN floor ELSE StateOf(dir[m]).floor
    BY <1>3, <2>1, RaiseFloorIs, Zenon
  <2> QED BY <1>3, <2>2, <2>3
<1>5. TypeOK' /\ DiskSound'
  <2>1. faults' \in Nat
    BY <1>1, SMTT(30), Zenon DEF BootInv, TypeOK, Fault
  <2>2. verified' \in SUBSET Slots /\ left' \in SUBSET Media /\ medium' \in Media
    BY <1>1, <1>3, Zenon
  <2> QED BY <1>2, <1>4, <2>1, <2>2, Zenon DEF BootInv, TypeOK, DiskSound
<1>6. FloorSound'
  BY <1>1, <1>2, <1>3, Zenon DEF FloorSound
<1>7. ~Dirty(m) /\ \A k \in Media : Dirty(k)' => Dirty(k) /\ k \notin left
  BY <1>1, <1>2, <1>3, Zenon DEF BootInv, SureSound, Dirty
<1>8. SureSound'
  <2>1. ~Dirty(medium)'
    BY <1>1, <1>2, <1>7, Zenon DEF Dirty
  <2>2. Blank(medium)' => StateOf(dir[m]) = FreshState
    BY <1>1, <1>2, <1>3, ReadIs, Zenon DEF Blank
  <2>3. Blank(medium)' => \A s \in Slots : state'.slots[s].priority > 0 => s = 1 /\ state'.slots[s].successful
    BY <1>4, <2>2, FreshIs, Zenon
  <2>4. \A k \in Media : Dirty(k)' => k \notin left' /\ k # medium'
    BY <1>1, <1>7, Zenon
  <2> QED BY <1>2, <2>1, <2>3, <2>4, Zenon DEF SureSound, Recording
<1>9. StateSound'
  <2>1. \A s \in Slots : uses[m][s] + state'.slots[s].tries <= DefaultTries
    BY <1>3, <1>4, Zenon DEF BootInv, DiskSound
  <2>2. Keeps(medium, state, dir[medium])'
    BY <1>1, <1>2, <1>4, Zenon DEF Keeps
  <2>3. \A s \in verified' : ManifestOk(release[m][s], floor)
    BY <1>1, <1>4, Zenon
  <2> QED BY <1>1, <1>2, <1>3, <1>4, <2>1, <2>2, <2>3, Zenon DEF StateSound
<1>10. /\ OffSound' /\ SlotSound' /\ WriteSound' /\ StepSound' /\ NoRollback'
  BY <1>2, Zenon DEF OffSound, SlotSound, WriteSound, StepSound, NoRollback, Recording
<1> QED BY <1>5, <1>6, <1>8, <1>9, <1>10, Zenon DEF BootInv

\* A medium that cannot be mounted is passed over.
LEMMA UnmountableKeeps ==
  ASSUME BootInv, MediumUnmountable
  PROVE  BootInv'
<1>1. /\ phase = "select" /\ phase' = "select" /\ left' \subseteq left /\ faults' \in Nat
      /\ UNCHANGED <<release, dir, disk, sure, seen, floor, medium, state, verified, slot, write,
                     recorded, uses>>
  BY DEF MediumUnmountable, files, Fault, BootInv, TypeOK
<1>2. TypeOK' /\ DiskSound'
  BY <1>1, Zenon DEF BootInv, TypeOK, DiskSound
<1>3. FloorSound'
  BY <1>1, Zenon DEF BootInv, FloorSound, Undecided
<1>4. SureSound'
  <2>1. \A m \in Media : Dirty(m)' <=> Dirty(m)
    BY <1>1, Zenon DEF Dirty
  <2> QED BY <1>1, <2>1, Zenon DEF BootInv, SureSound, OnMedium
<1>5. /\ OffSound' /\ StateSound' /\ SlotSound' /\ WriteSound' /\ StepSound' /\ NoRollback'
  BY <1>1, Zenon DEF OffSound, StateSound, SlotSound, WriteSound, StepSound, NoRollback, Recording, OnMedium
<1> QED BY <1>2, <1>3, <1>4, <1>5, Zenon DEF BootInv

\* A medium without a slot to boot is left.
LEMMA NoSlotKeeps ==
  ASSUME BootInv, NoSlot
  PROVE  BootInv'
<1>1. /\ phase = "try" /\ phase' = "select"
      /\ UNCHANGED <<release, dir, disk, sure, seen, left, floor, medium, state, verified, slot, write,
                     recorded, uses, faults>>
  BY Zenon DEF NoSlot, files, stage
<1>2. TypeOK' /\ DiskSound'
  BY <1>1, Zenon DEF BootInv, TypeOK, DiskSound
<1>3. FloorSound'
  BY <1>1, Zenon DEF BootInv, FloorSound, Undecided
<1>4. SureSound'
  <2>1. \A m \in Media : Dirty(m)' <=> Dirty(m)
    BY <1>1, Zenon DEF Dirty
  <2> QED BY <1>1, <2>1, Zenon DEF BootInv, SureSound, OnMedium
<1>5. /\ OffSound' /\ StateSound' /\ SlotSound' /\ WriteSound' /\ StepSound' /\ NoRollback'
  BY <1>1, Zenon DEF OffSound, StateSound, SlotSound, WriteSound, StepSound, NoRollback, Recording, OnMedium
<1> QED BY <1>2, <1>3, <1>4, <1>5, Zenon DEF BootInv

\* choose picks one of the candidates.
LEMMA ChoiceIs ==
  ASSUME NEW st \in States, NEW C \in SUBSET Slots, C # {}
  PROVE  Choice(st, C) \in C
<1> DEFINE p == [s \in Slots |-> st.slots[s].priority]
           V == {p[s] : s \in C}
<1>1. p \in [Slots -> Nat] /\ \A s \in Slots : p[s] = st.slots[s].priority
  BY Zenon DEF States, Entries
<1> HIDE DEF p
<1>2. V \in SUBSET Nat /\ V # {}
  <2>1. \A s \in C : p[s] \in Nat
    BY <1>1, Zenon
  <2> QED BY <2>1, Zenon
<1>3. IsFiniteSet(V)
  <2>1. IsFiniteSet(C)
    BY FS_Subset, Zenon
  <2>2. [s \in C |-> p[s]] \in Surjection(C, V)
    BY Zenon DEF Surjection
  <2> QED BY <2>1, <2>2, FS_Surjection, Zenon
<1> HIDE DEF V
<1>4. PICK x \in V : \A y \in V : x >= y
  BY <1>2, <1>3, Greatest, Zenon
<1> DEFINE B == {s \in C : p[s] = x}
<1>5. B \in SUBSET Nat /\ B # {}
  BY Zenon DEF V
<1> HIDE DEF B
<1>6. PICK s \in B : \A t \in B : s <= t
  BY <1>5, Least, Zenon
<1>7. s \in C /\ p[s] = x
  BY Zenon DEF B
<1>8. ASSUME NEW t \in C
      PROVE  \/ st.slots[s].priority > st.slots[t].priority
             \/ st.slots[s].priority = st.slots[t].priority /\ s <= t
  <2>1. p[t] \in V /\ p[t] \in Nat /\ x \in Nat
    BY <1>1, <1>2, Zenon DEF V
  <2>2. x >= p[t]
    BY <1>4, <2>1, Zenon
  <2>3. CASE p[t] = x
    BY <1>1, <1>6, <1>7, <2>3, Zenon DEF B
  <2>4. CASE p[t] # x
    <3>1. x > p[t]
      BY <2>1, <2>2, <2>4
    <3>2. st.slots[s].priority = x /\ st.slots[t].priority = p[t]
      BY <1>1, <1>7, Zenon
    <3> QED BY <2>1, <3>1, <3>2, Zenon
  <2> QED BY <2>3, <2>4, Zenon
<1> QED BY <1>7, <1>8, Zenon DEF Choice

\* Only a good image is verified, and only a bad one proves bad.
LEMMA ConfirmIs ==
  ASSUME NEW r, NEW first \in Answers(r, "first"), NEW second \in Answers(r, "confirming")
  PROVE  /\ Confirm(first, second) \in {"verified", "io", "bad"}
         /\ Confirm(first, second) = "verified" => r.content = "good"
         /\ Confirm(first, second) = "bad" => r.content # "good"
<1>1. /\ first \in {Genuine(r), "io", "first"} /\ second \in {Genuine(r), "io", "confirming"}
      /\ Genuine(r) = (IF r.content = "good" THEN "verified" ELSE "mismatch")
  BY Zenon DEF Answers, Genuine
<1> QED BY <1>1, Zenon DEF Confirm, SameMismatch

\* One turn of the loop of try_medium keeps the invariant.
LEMMA LoadImageKeeps ==
  ASSUME BootInv, LoadImage
  PROVE  BootInv'
<1> DEFINE s == Choice(state, Candidates)
           r == release[medium][s]
<1>1. PICK first \in Answers(r, "first"), second \in Answers(r, "confirming") :
        /\ slot' = s
        /\ faults' = IF {first, second} = {Genuine(r)} THEN faults ELSE faults + 1
        /\ CASE Confirm(first, second) = "verified" ->
                  Use(s) /\ UNCHANGED verified
             [] Confirm(first, second) = "io" ->
                  /\ verified' = verified \ {s}
                  /\ UNCHANGED <<phase, state, uses, write>>
             [] Confirm(first, second) = "bad" ->
                  /\ verified' = verified \ {s}
                  /\ state' = MarkBad(state, s)
                  /\ Persist(MarkBad(state, s), "bad")
                  /\ UNCHANGED uses
  BY Zenon DEF LoadImage
<1>2. /\ phase = "try" /\ Candidates # {}
      /\ UNCHANGED <<release, dir, disk, sure, seen, left, floor, medium, recorded>>
  BY Zenon DEF LoadImage, files
<1>3. /\ state \in States /\ verified \in SUBSET Slots /\ medium \in Media /\ faults' \in Nat
      /\ write \in [step : WriteSteps \cup {"none"}, st : States, why : {"none", "bad", "try", "success"}]
      /\ uses \in [Media -> [Slots -> Nat]] /\ floor \in Nat
  BY <1>1, SMTT(30), Zenon DEF BootInv, TypeOK
<1>4. s \in Candidates
  <2>1. Candidates \in SUBSET Slots
    BY <1>3, Zenon DEF Candidates, Bootable
  <2> QED BY <1>2, <1>3, <2>1, ChoiceIs, Zenon
<1>5. /\ s \in verified /\ s \in Slots /\ state.slots[s].priority > 0
      /\ state.slots[s].successful \/ state.slots[s].tries > 0
  BY <1>3, <1>4, Zenon DEF Candidates, Bootable
<1>6. /\ Confirm(first, second) \in {"verified", "io", "bad"}
      /\ Confirm(first, second) = "verified" => r.content = "good"
      /\ Confirm(first, second) = "bad" => r.content # "good"
  BY ConfirmIs, Zenon
<1> HIDE DEF s
<1>7. /\ medium \in seen /\ medium \notin left /\ state.floor = floor
      /\ \A t \in verified : ManifestOk(release[medium][t], floor)
      /\ \A t \in Slots : /\ uses[medium][t] + state.slots[t].tries <= DefaultTries
                          /\ state.slots[t].priority > 0 => StateOf(dir[medium]).slots[t].priority > 0
      /\ Keeps(medium, state, dir[medium])
  BY <1>2, Zenon DEF BootInv, StateSound, OnMedium
<1>8. ~Dirty(medium)
  BY <1>2, <1>3, <1>5 DEF BootInv, SureSound, NoneLeft
<1>9. /\ \A m \in Media : Dirty(m)' => Dirty(m) /\ m \notin left' /\ m # medium'
      /\ ~Dirty(medium)' /\ (Blank(medium)' <=> Blank(medium))
  <2>1. \A m \in Media : Dirty(m)' <=> Dirty(m)
    BY <1>2, Zenon DEF Dirty
  <2>2. ~Dirty(medium)' /\ (Blank(medium)' <=> Blank(medium))
    BY <1>2, <1>8, Zenon DEF Dirty, Blank
  <2> QED BY <1>2, <1>8, <2>1, <2>2, Zenon DEF BootInv, SureSound
<1>10. Blank(medium) =>
        \A t \in Slots : state.slots[t].priority > 0 => t = 1 /\ state.slots[t].successful
  BY <1>2, Zenon DEF BootInv, SureSound, OnMedium
<1>11. ASSUME phase' \in {"try", "run"} \/ Recording({"bad", "try"})'
       PROVE  FloorSound'
  BY <1>2, <1>11, Zenon DEF BootInv, FloorSound, Undecided, Recording
<1>12. ASSUME uses' = uses PROVE DiskSound'
  BY <1>2, <1>12, Zenon DEF BootInv, DiskSound
<1>13. CASE Confirm(first, second) = "io"
  <2>1. verified' = verified \ {s} /\ UNCHANGED <<phase, state, uses, write>>
    BY <1>1, <1>13, Zenon
  <2>2. TypeOK'
    BY <1>1, <1>2, <1>3, <1>5, <2>1, Zenon DEF BootInv, TypeOK
  <2>3. StateSound'
    BY <1>2, <1>7, <2>1, Zenon DEF StateSound, Keeps
  <2>4. SureSound'
    BY <1>2, <1>9, <1>10, <2>1, Zenon DEF SureSound, Recording
  <2>5. /\ OffSound' /\ SlotSound' /\ WriteSound' /\ StepSound' /\ NoRollback'
    BY <1>2, <2>1, Zenon DEF OffSound, SlotSound, WriteSound, StepSound, NoRollback, Recording
  <2> QED BY <1>2, <1>11, <1>12, <2>1, <2>2, <2>3, <2>4, <2>5, Zenon DEF BootInv
<1>14. CASE Confirm(first, second) = "verified" /\ SpendTry(state, s) = state
  <2>1. phase' = "run" /\ UNCHANGED <<state, uses, write, verified>>
    BY <1>1, <1>14, Zenon DEF Use
  <2>2. TypeOK'
    BY <1>1, <1>2, <1>3, <1>5, <2>1, Zenon DEF BootInv, TypeOK
  <2>3. StateSound'
    BY <1>2, <1>7, <2>1, Zenon DEF StateSound, Keeps
  <2>4. SureSound'
    BY <1>2, <1>9, <1>10, <2>1, Zenon DEF SureSound, Recording
  <2>5. SlotSound'
    BY <1>1, <1>2, <1>5, <1>6, <1>7, <1>14, <2>1, Zenon DEF SlotSound
  <2>6. /\ OffSound' /\ WriteSound' /\ StepSound'
    BY <1>2, <2>1, Zenon DEF OffSound, WriteSound, StepSound
  <2>7. NoRollback'
    <3>1. release[medium][s].epoch >= floor /\ release[medium][s].epoch \in Nat
      <4>1. release[medium] \in [Slots -> Releases] /\ s \in Slots
        BY <1>3, <1>5, Zenon DEF BootInv, TypeOK
      <4> QED BY <1>5, <1>7, <4>1, Zenon DEF ManifestOk
    <3>2. \A m \in seen : recorded[m] <= floor /\ recorded[m] \in Nat
      BY <1>2, Zenon DEF BootInv, FloorSound, TypeOK
    <3>3. \A m \in seen : release[medium][s].epoch >= recorded[m]
      BY <1>3, <3>1, <3>2
    <3> QED BY <1>1, <1>2, <2>1, <3>3, Zenon DEF NoRollback
  <2> QED BY <1>11, <1>12, <2>1, <2>2, <2>3, <2>4, <2>5, <2>6, <2>7, Zenon DEF BootInv
<1>15. CASE Confirm(first, second) = "verified" /\ SpendTry(state, s) # state
  <2> DEFINE new == SpendTry(state, s)
  <2>1. /\ phase' = "write" /\ write' = [step |-> "promote", st |-> new, why |-> "try"]
        /\ UNCHANGED <<state, uses, verified>>
    BY <1>1, <1>15, Zenon DEF Use, Persist
  <2>2. /\ new \in States /\ new.floor = floor /\ SameSlots(new, state)
        /\ new.slots[s].tries < state.slots[s].tries /\ ~state.slots[s].successful
    BY <1>3, <1>5, <1>7, <1>15, SpendTryIs, Zenon DEF SameSlots
  <2> HIDE DEF new
  <2>3. /\ write'.step = "promote" /\ write'.st = new /\ write'.why = "try"
        /\ write' \in [step : WriteSteps \cup {"none"}, st : States, why : {"none", "bad", "try", "success"}]
    BY <2>1, <2>2, Zenon DEF WriteSteps
  <2>4. TypeOK'
    BY <1>1, <1>2, <1>3, <1>5, <2>1, <2>3, Zenon DEF BootInv, TypeOK
  <2>5. StateSound'
    BY <1>2, <1>7, <2>1, Zenon DEF StateSound, Keeps
  <2>6. SureSound'
    <3>1. ~Blank(medium)'
      BY <1>5, <1>9, <1>10, <2>2, Zenon
    <3> QED BY <1>2, <1>9, <2>1, <3>1, Zenon DEF SureSound
  <2>7. SlotSound'
    BY <1>1, <1>2, <1>5, <1>6, <1>7, <1>15, <2>1, Zenon DEF SlotSound
  <2>8. WriteSound'
    <3>1. \A t \in Slots : /\ uses[medium][t] \in Nat /\ state.slots[t].tries \in Nat
                           /\ new.slots[t].tries \in Nat
      <4>1. \A t \in Slots : state.slots[t] \in Entries /\ new.slots[t] \in Entries
        BY <1>3, <2>2, Zenon DEF States
      <4>2. uses[medium] \in [Slots -> Nat]
        BY <1>3, Zenon
      <4> QED BY <4>1, <4>2, Zenon DEF Entries
    <3>2. \A t \in Slots : uses[medium][t] + new.slots[t].tries <= DefaultTries
      BY <1>7, <2>2, <3>1, SMTT(30), Zenon DEF SameSlots
    <3>3. uses[medium][s] + new.slots[s].tries < DefaultTries
      BY <1>5, <1>7, <2>2, <3>1
    <3>4. Keeps(medium, write.st, dir[medium])'
      BY <1>2, <1>7, <2>2, <2>3, Zenon DEF Keeps, SameSlots
    <3>5. SameSlots(write.st, state)'
      BY <2>1, <2>2, <2>3, Zenon DEF SameSlots
    <3>6. write'.st.floor >= floor
      BY <1>3, <2>2, <2>3
    <3> QED BY <1>1, <1>2, <2>1, <2>2, <2>3, <3>2, <3>3, <3>4, <3>5, <3>6, Zenon DEF WriteSound, WriteSteps
  <2>9. OffSound' /\ StepSound' /\ NoRollback'
    BY <2>1, <2>3, Zenon DEF OffSound, StepSound, NoRollback
  <2>10. Recording({"bad", "try"})'
    BY <2>1, <2>3, Zenon DEF Recording
  <2> QED BY <1>11, <1>12, <2>1, <2>4, <2>5, <2>6, <2>7, <2>8, <2>9, <2>10, Zenon DEF BootInv
<1>16. CASE Confirm(first, second) = "bad"
  <2> DEFINE new == MarkBad(state, s)
  <2>1. /\ phase' = "write" /\ write' = [step |-> "promote", st |-> new, why |-> "bad"]
        /\ state' = new /\ uses' = uses /\ verified' = verified \ {s}
    BY <1>1, <1>16, Zenon DEF Persist
  <2>2. /\ new \in States /\ new.floor = floor
        /\ new.slots[s].priority = 0 /\ new.slots[s].tries = 0
        /\ \A t \in Slots \ {s} : new.slots[t] = state.slots[t]
    BY <1>3, <1>5, <1>7, MarkBadIs DEF NoEntry
  <2> HIDE DEF new
  <2>3. /\ write'.step = "promote" /\ write'.st = new /\ write'.why = "bad"
        /\ write' \in [step : WriteSteps \cup {"none"}, st : States, why : {"none", "bad", "try", "success"}]
    BY <2>1, <2>2, Zenon DEF WriteSteps
  <2>4. TypeOK'
    BY <1>1, <1>2, <1>3, <1>5, <2>1, <2>2, <2>3, Zenon DEF BootInv, TypeOK
  <2>5. \A t \in Slots : /\ uses[medium][t] + new.slots[t].tries <= DefaultTries
                         /\ new.slots[t].priority > 0 => StateOf(dir[medium]).slots[t].priority > 0
    <3>1. uses[medium][s] \in Nat /\ state.slots[s].tries \in Nat
      <4>1. state.slots[s] \in Entries
        BY <1>3, <1>5, Zenon DEF States
      <4>2. uses[medium] \in [Slots -> Nat]
        BY <1>3, Zenon
      <4> QED BY <1>5, <4>1, <4>2, Zenon DEF Entries
    <3>2. \A a, b \in Nat : a + b <= DefaultTries => a + 0 <= DefaultTries
      OBVIOUS
    <3>3. uses[medium][s] + new.slots[s].tries <= DefaultTries /\ ~(new.slots[s].priority > 0)
      <4>1. ~(0 > 0)
        OBVIOUS
      <4> QED BY <1>5, <1>7, <2>2, <3>1, <3>2, <4>1, Zenon
    <3> QED BY <1>7, <2>2, <3>3, Zenon
  <2>6. Keeps(medium, new, dir[medium])
    BY <1>6, <1>7, <1>16, <2>2, Zenon DEF Keeps
  <2>7. StateSound'
    <3>1. Keeps(medium, state, dir[medium])'
      BY <1>2, <2>1, <2>6, Zenon DEF Keeps
    <3>2. \A t \in verified' : ManifestOk(release[medium][t], floor)
      BY <1>7, <2>1, Zenon
    <3>3. state'.floor = floor /\ medium' = medium /\ seen' = seen /\ left' = left /\ floor' = floor
      BY <1>2, <2>1, <2>2, Zenon
    <3>4. \A t \in Slots :
            /\ uses'[medium'][t] + state'.slots[t].tries <= DefaultTries
            /\ state'.slots[t].priority > 0 => StateOf(dir'[medium']).slots[t].priority > 0
      BY <1>2, <2>1, <2>5, Zenon
    <3>5. \A t \in verified' : ManifestOk(release[medium][t], floor)'
      BY <1>2, <3>2, Zenon DEF ManifestOk
    <3> QED BY <1>7, <3>1, <3>3, <3>4, <3>5, Zenon DEF StateSound
  <2>8. SureSound'
    <3>1. Blank(medium) => NoneLeft(new)
      <4> SUFFICES ASSUME Blank(medium), NEW t \in Slots PROVE new.slots[t].priority = 0
        BY Zenon DEF NoneLeft
      <4>1. s = 1
        BY <1>5, <1>10, Zenon
      <4>2. CASE t = s
        BY <2>2, <4>2, Zenon
      <4>3. CASE t # s
        <5>1. ~(state.slots[t].priority > 0) /\ new.slots[t] = state.slots[t]
          BY <1>10, <2>2, <4>1, <4>3, Zenon
        <5>2. state.slots[t] \in Entries
          BY <1>3, Zenon DEF States
        <5> QED BY <5>1, <5>2 DEF Entries
      <4> QED BY <4>2, <4>3, Zenon
    <3>2. NoneLeft(state)' <=> NoneLeft(new)
      BY <2>1, Zenon DEF NoneLeft
    <3>3. NoneLeft(new) => \A t \in Slots : ~(state'.slots[t].priority > 0)
      BY <2>1 DEF NoneLeft
    <3> QED BY <1>2, <1>9, <2>1, <2>3, <3>1, <3>2, <3>3, Zenon DEF SureSound, Recording
  <2>9. SlotSound'
    BY <2>1, <2>3, Zenon DEF SlotSound, Recording
  <2>10. WriteSound'
    <3>1. Keeps(medium, write.st, dir[medium])'
      BY <1>2, <2>3, <2>6, Zenon DEF Keeps
    <3>2. SameSlots(write.st, state)' /\ write'.st.floor >= floor
      <4>1. \A t \in Slots : new.slots[t].tries \in Nat
        <5>1. \A t \in Slots : new.slots[t] \in Entries
          BY <2>2, Zenon DEF States
        <5> QED BY <5>1, Zenon DEF Entries
      <4> QED BY <1>3, <2>1, <2>2, <2>3, <4>1 DEF SameSlots
    <3>3. \A t \in Slots : uses'[medium'][t] + write'.st.slots[t].tries <= DefaultTries
      BY <1>2, <2>1, <2>3, <2>5, Zenon
    <3> QED BY <1>2, <2>2, <2>3, <3>1, <3>2, <3>3, Zenon DEF WriteSound, WriteSteps
  <2>11. OffSound' /\ StepSound' /\ NoRollback'
    BY <2>1, <2>3, Zenon DEF OffSound, StepSound, NoRollback
  <2>12. Recording({"bad", "try"})'
    BY <2>1, <2>3, Zenon DEF Recording
  <2> QED BY <1>11, <1>12, <2>1, <2>4, <2>7, <2>8, <2>9, <2>10, <2>11, <2>12, Zenon DEF BootInv
<1> QED BY <1>6, <1>13, <1>14, <1>15, <1>16, Zenon

-----------------------------------------------------------------------------
(***************************************************************************)
(* Stage 2, and the machine that stops.                                    *)
(***************************************************************************)

\* Stage 2 records a success: the floor it writes is no higher than the epoch of the
\* release that runs, and no lower than any floor found.
LEMMA ProveKeeps ==
  ASSUME BootInv, Prove
  PROVE  BootInv'
<1> DEFINE old == StateOf(dir[medium])
           base == RaiseFloor(old, floor)
           new == MarkSuccessful(base, slot, release[medium][slot])
<1>1. /\ phase = "run" /\ phase' = "write" /\ release[medium][slot].healthy
      /\ write' = [step |-> "promote", st |-> new, why |-> "success"]
      /\ UNCHANGED <<release, dir, disk, sure, seen, left, floor, medium, state, verified, slot,
                     recorded, uses, faults>>
  BY Zenon DEF Prove, Persist, Proven, StateOf, files
<1>2. /\ medium \in Media /\ slot \in Slots /\ floor \in Nat /\ dir[medium] \in Contents
      /\ dir[medium] \in disk[medium] /\ medium \in seen
      /\ uses[medium] \in [Slots -> Nat]
  BY <1>1, Zenon DEF BootInv, TypeOK, DiskSound, StateSound, OnMedium
<1>3. /\ release[medium][slot].epoch \in Nat /\ release[medium][slot].minEpoch \in Nat
      /\ ManifestOk(release[medium][slot], floor)
  <2>1. release[medium] \in [Slots -> Releases]
    BY <1>2, Zenon DEF BootInv, TypeOK
  <2>2. release[medium][slot] \in Releases
    BY <1>2, <2>1, Zenon
  <2> QED BY <1>1, <2>2, Zenon DEF BootInv, SlotSound
<1>4. old \in States /\ old.floor \in Nat /\ old.floor <= floor
  <2>1. old \in States /\ old.floor \in Nat
    BY <1>2, ReadIs, Zenon DEF States
  <2> QED BY <1>1, <1>2, <2>1, Zenon DEF BootInv, FloorSound, Undecided
<1>5. /\ old.slots[slot].priority > 0
      /\ \A s \in Slots : uses[medium][s] + old.slots[s].tries <= DefaultTries
  BY <1>1, <1>2, Zenon DEF BootInv, SlotSound, StateSound, DiskSound
<1> HIDE DEF old
<1>6. base \in States /\ base.slots = old.slots /\ base.floor = floor
  <2>1. /\ base \in States /\ base.slots = old.slots
        /\ base.floor = IF floor > old.floor THEN floor ELSE old.floor
    BY <1>2, <1>4, RaiseFloorIs, Zenon
  <2> HIDE DEF base
  <2> QED BY <1>2, <1>4, <2>1
<1> HIDE DEF base
<1>7. /\ new \in States
      /\ new.floor = IF release[medium][slot].minEpoch > floor THEN release[medium][slot].minEpoch ELSE floor
      /\ new.slots[slot].successful
      /\ \A s \in Slots : /\ new.slots[s].priority = old.slots[s].priority
                          /\ old.slots[s].successful => new.slots[s].successful
                          /\ new.slots[s].tries <= old.slots[s].tries
  <2> DEFINE rel == release[medium][slot]
  <2>1. rel.minEpoch \in Nat
    BY <1>3, Zenon
  <2> HIDE DEF rel
  <2>2. /\ MarkSuccessful(base, slot, rel) \in States
        /\ MarkSuccessful(base, slot, rel).floor = IF rel.minEpoch > base.floor THEN rel.minEpoch ELSE base.floor
        /\ MarkSuccessful(base, slot, rel).slots[slot].successful
        /\ \A s \in Slots :
             /\ MarkSuccessful(base, slot, rel).slots[s].priority = base.slots[s].priority
             /\ base.slots[s].successful => MarkSuccessful(base, slot, rel).slots[s].successful
             /\ MarkSuccessful(base, slot, rel).slots[s].tries <= base.slots[s].tries
    BY <1>2, <1>6, <2>1, MarkSuccessfulIs, Zenon
  <2> QED BY <1>6, <2>2, Zenon DEF rel
<1> HIDE DEF new
<1>8. new.floor \in Nat /\ new.floor >= floor /\ new.floor <= release[medium][slot].epoch
  BY <1>2, <1>3, <1>7 DEF ManifestOk
<1>9. /\ write'.step = "promote" /\ write'.st = new /\ write'.why = "success"
      /\ write' \in [step : WriteSteps \cup {"none"}, st : States, why : {"none", "bad", "try", "success"}]
  BY <1>1, <1>7, Zenon DEF WriteSteps
<1>10. TypeOK' /\ DiskSound'
  <2>1. TypeOK'
    BY <1>1, <1>9, Zenon DEF BootInv, TypeOK
  <2> QED BY <1>1, <2>1, Zenon DEF BootInv, DiskSound
<1>11. OffSound' /\ FloorSound' /\ StateSound' /\ SlotSound' /\ StepSound' /\ NoRollback'
  <2>1. FloorSound'
    BY <1>1, <1>9, Zenon DEF BootInv, FloorSound, Undecided, Recording
  <2>2. StateSound'
    BY <1>1, <1>9, Zenon DEF BootInv, StateSound, OnMedium, Recording, ManifestOk
  <2>3. SlotSound'
    BY <1>1, <1>9, Zenon DEF BootInv, SlotSound, Recording, ManifestOk
  <2> QED BY <1>1, <1>9, <2>1, <2>2, <2>3, Zenon DEF OffSound, StepSound, NoRollback
<1>12. SureSound'
  <2>1. \A m \in Media : Dirty(m)' <=> Dirty(m)
    BY <1>1, Zenon DEF Dirty
  <2>2. Blank(medium)' <=> Blank(medium)
    BY <1>1, Zenon DEF Blank
  <2>3. ~Dirty(medium)
    BY <1>1, <1>2, Zenon DEF BootInv, SureSound
  <2>4. ~Dirty(medium)'
    BY <1>1, <1>2, <2>1, <2>3, Zenon DEF Dirty
  <2>5. \A m \in Media : Dirty(m)' => m \notin left' /\ m # medium'
    BY <1>1, <2>1, <2>3, Zenon DEF BootInv, SureSound
  <2> QED BY <1>1, <1>9, <2>2, <2>4, <2>5, Zenon DEF BootInv, SureSound, OnMedium, Recording
<1>13. WriteSound'
  <2>1. \A m \in seen : \A d \in disk[m] : StateOf(d).floor <= new.floor
    <3> SUFFICES ASSUME NEW m \in seen, NEW d \in disk[m] PROVE StateOf(d).floor <= new.floor
      OBVIOUS
    <3>1. d \in Contents
      BY Zenon DEF BootInv, TypeOK
    <3>2. StateOf(d).floor \in Nat
      BY <3>1, ReadIs, Zenon DEF States
    <3>3. StateOf(d).floor <= floor
      BY <1>1, Zenon DEF BootInv, FloorSound, Undecided
    <3> QED BY <1>2, <1>8, <3>2, <3>3
  <2>2. Keeps(medium, new, dir[medium])
    BY <1>7, Zenon DEF Keeps, old
  <2>3. \A s \in Slots : uses[medium][s] + new.slots[s].tries <= DefaultTries
    <3> SUFFICES ASSUME NEW s \in Slots PROVE uses[medium][s] + new.slots[s].tries <= DefaultTries
      OBVIOUS
    <3>1. old.slots[s] \in Entries /\ new.slots[s] \in Entries
      BY <1>4, <1>7, Zenon DEF States
    <3>2. uses[medium][s] \in Nat /\ old.slots[s].tries \in Nat /\ new.slots[s].tries \in Nat
      BY <1>2, <3>1, Zenon DEF Entries
    <3> QED BY <1>5, <1>7, <3>2
  <2>4. Keeps(medium, write.st, dir[medium])'
    BY <1>1, <1>9, <2>2, Zenon DEF Keeps
  <2>5. /\ \A m \in seen' : \A d \in disk'[m] : StateOf(d).floor <= write'.st.floor
        /\ \A s \in Slots : uses'[medium'][s] + write'.st.slots[s].tries <= DefaultTries
    BY <1>1, <1>9, <2>1, <2>3, Zenon
  <2> QED BY <1>1, <1>2, <1>5, <1>7, <1>8, <1>9, <2>4, <2>5, Zenon DEF WriteSound, WriteSteps
<1> QED BY <1>10, <1>11, <1>12, <1>13, Zenon DEF BootInv

\* A success that cannot be recorded leaves the machine running.
LEMMA ProveFailsKeeps ==
  ASSUME BootInv, ProveFails
  PROVE  BootInv'
<1>1. /\ phase = "run" /\ phase' = "ready" /\ faults' \in Nat
      /\ UNCHANGED <<release, dir, disk, sure, seen, left, floor, medium, state, verified, slot,
                     write, recorded, uses>>
  BY DEF ProveFails, Fault, files, stage, BootInv, TypeOK
<1>2. TypeOK' /\ DiskSound'
  BY <1>1, Zenon DEF BootInv, TypeOK, DiskSound
<1>3. SureSound'
  <2>1. \A m \in Media : Dirty(m)' <=> Dirty(m)
    BY <1>1, Zenon DEF Dirty
  <2> QED BY <1>1, <2>1, Zenon DEF BootInv, SureSound, OnMedium
<1>4. NoRollback'
  BY <1>1, Zenon DEF BootInv, NoRollback
<1>5. /\ OffSound' /\ FloorSound' /\ StateSound' /\ SlotSound' /\ WriteSound' /\ StepSound'
  BY <1>1, Zenon DEF OffSound, FloorSound, StateSound, SlotSound, WriteSound, StepSound, Recording,
              OnMedium, Undecided
<1> QED BY <1>2, <1>3, <1>4, <1>5, Zenon DEF BootInv

\* A machine that is off, with a sound disk, satisfies the invariant.
LEMMA OffIs ==
  ASSUME TypeOK, DiskSound, phase = "off", seen = {},
         \A m \in Media : disk[m] = {dir[m]} /\ sure[m] = {dir[m].new}
  PROVE  BootInv
<1>1. SureSound
  BY Zenon DEF SureSound, OnMedium, Dirty
<1>2. /\ OffSound /\ FloorSound /\ StateSound /\ SlotSound /\ WriteSound /\ StepSound /\ NoRollback
  BY Zenon DEF OffSound, FloorSound, StateSound, SlotSound, WriteSound, StepSound, NoRollback, Recording,
         OnMedium, Undecided
<1> QED BY <1>1, <1>2, Zenon DEF BootInv

\* Whatever a power cut leaves, the machine comes up with a sound disk.
LEMMA LoseKeeps ==
  ASSUME BootInv, Lose, faults' \in Nat
  PROVE  BootInv' /\ \A m \in Media : disk'[m] \subseteq disk[m]
<1>1. /\ dir' \in [Media -> UNION {disk[m] : m \in Media}] /\ \A m \in Media : dir'[m] \in disk[m]
      /\ disk' = [m \in Media |-> {dir'[m]}] /\ sure' = [m \in Media |-> {dir'[m].new}]
      /\ phase' = "off" /\ seen' = {} /\ left' = {} /\ floor' = 0
      /\ medium' \in Media
      /\ state' = FreshState /\ verified' = {} /\ slot' = 1 /\ write' = NoWrite
      /\ UNCHANGED <<release, recorded, uses>>
  BY Zenon DEF Lose
<1>2. dir' \in [Media -> Contents]
  <2>1. \A m \in Media : dir'[m] \in Contents
    BY <1>1, Zenon DEF BootInv, TypeOK
  <2> QED BY <1>1, <2>1, Zenon
<1>3. /\ disk' \in [Media -> SUBSET Contents] /\ sure' \in [Media -> SUBSET Files]
      /\ \A m \in Media : disk'[m] = {dir'[m]} /\ sure'[m] = {dir'[m].new}
  <2>1. \A m \in Media : dir'[m] \in Contents /\ dir'[m].new \in Files
    BY <1>2, Zenon DEF Contents
  <2> QED BY <1>1, <2>1, Zenon
<1>4. TypeOK'
  BY <1>1, <1>2, <1>3, FreshIs, NoWriteIs, Zenon DEF BootInv, TypeOK
<1>5. \A m \in Media : disk'[m] \subseteq disk[m]
  BY <1>1, <1>3, Zenon
<1>6. DiskSound'
  <2> SUFFICES ASSUME NEW m \in Media, NEW d \in disk'[m]
               PROVE  /\ d.main.is # "torn" /\ StateOf(d).floor >= recorded'[m]
                      /\ \A s \in Slots : uses'[m][s] + StateOf(d).slots[s].tries <= DefaultTries
    BY <1>3, Zenon DEF DiskSound
  <2>1. d \in disk[m]
    BY <1>5, Zenon
  <2> QED BY <1>1, <2>1, Zenon DEF BootInv, DiskSound
<1>7. BootInv'
  <2>1. phase' = "off" /\ seen' = {}
    BY <1>1, Zenon
  <2>2. SureSound'
    BY <1>3, <2>1, Zenon DEF SureSound, OnMedium, Dirty
  <2>3. /\ OffSound' /\ FloorSound' /\ StateSound' /\ SlotSound' /\ WriteSound' /\ StepSound'
        /\ NoRollback'
    BY <1>3, <2>1, Zenon DEF OffSound, FloorSound, StateSound, SlotSound, WriteSound, StepSound, NoRollback,
                      Recording, OnMedium, Undecided
  <2> QED BY <1>4, <1>6, <2>2, <2>3, Zenon DEF BootInv
<1> QED BY <1>5, <1>7, Zenon

-----------------------------------------------------------------------------
(***************************************************************************)
(* How a medium is provisioned.                                            *)
(***************************************************************************)

\* The states in which no slot has more than DEFAULT_TRIES tries.
Early == {st \in States : \A s \in Slots : st.slots[s].tries <= DefaultTries}

\* Install gives a slot DEFAULT_TRIES tries, and no other slot more than it had.
LEMMA InstallIs ==
  ASSUME NEW st \in Early, NEW n \in Slots
  PROVE  Install(st, n) \in Early
<1> DEFINE e(s) == IF s = n THEN [priority |-> MaxPriority, tries |-> DefaultTries, successful |-> FALSE]
                   ELSE [st.slots[s] EXCEPT !.priority = IF @ >= MaxPriority THEN MaxPriority - 1 ELSE @]
           f == [s \in Slots |-> e(s)]
<1>1. Install(st, n) = [st EXCEPT !.slots = f]
  BY Zenon DEF Install
<1>2. ASSUME NEW s \in Slots PROVE e(s) \in Entries /\ e(s).tries <= DefaultTries
  <2>1. st.slots[s] \in Entries /\ st.slots[s].tries <= DefaultTries
    BY Zenon DEF Early, States
  <2> DEFINE p == IF st.slots[s].priority >= MaxPriority THEN MaxPriority - 1 ELSE st.slots[s].priority
             rest == [st.slots[s] EXCEPT !.priority = p]
  <2>2. p \in Nat
    BY <2>1 DEF Entries, MaxPriority
  <2>3. rest = [st.slots[s] EXCEPT !.priority = IF @ >= MaxPriority THEN MaxPriority - 1 ELSE @]
    OBVIOUS
  <2> HIDE DEF p
  <2>4. rest \in Entries /\ rest.tries = st.slots[s].tries
    BY <2>1, <2>2, Zenon DEF Entries
  <2>5. CASE s = n
    BY <2>5 DEF Entries, MaxPriority
  <2>6. CASE s # n
    <3>1. e(s) = rest
      BY <2>3, <2>6, Zenon
    <3> HIDE DEF e, rest
    <3> QED BY <2>1, <2>4, <3>1, Zenon
  <2> QED BY <2>5, <2>6, Zenon
<1> HIDE DEF e
<1>3. f \in [Slots -> Entries] /\ \A s \in Slots : f[s].tries <= DefaultTries
  BY <1>2, Zenon
<1> HIDE DEF f
<1>4. st \in States
  BY Zenon DEF Early
<1>5. Install(st, n) \in States /\ Install(st, n).slots = f
  BY <1>1, <1>3, <1>4, Zenon DEF States
<1> QED BY <1>3, <1>5, Zenon DEF Early

\* The state that `jlr-release state` writes.
LEMMA StateCommandIs ==
  ASSUME NEW i \in Installs, NEW low \in Floors
  PROVE  StateCommand(i, low) \in Early
<1> DEFINE n == Len(i)
           after == CHOOSE f : f = [k \in 0 .. Len(i) |-> IF k = 0 THEN FreshState ELSE Install(f[k - 1], i[k])]
<1>1. StateCommand(i, low) = [after[Len(i)] EXCEPT !.floor = low]
  BY Zenon DEF StateCommand
<1>2. n \in Nat /\ \A k \in 1 .. n : i[k] \in Slots
  <2>1. i \in Seq(Slots)
    OBVIOUS
  <2> QED BY <2>1
<1>3. FreshState \in Early
  BY FreshIs DEF Early
<1>4. after[0] = FreshState /\ \A k \in 1 .. n : after[k] = Install(after[k - 1], i[k])
  <2> DEFINE g == [k \in 1 .. n |-> [st \in Early |-> Install(st, i[k])]]
             P(f) == f = [k \in 0 .. Len(i) |-> IF k = 0 THEN FreshState ELSE Install(f[k - 1], i[k])]
  <2> HIDE DEF n
  <2>1. g \in Turns(Early, n)
    BY <1>2, InstallIs, Zenon DEF Turns
  <2>2. PICK f : Follows(Early, FreshState, n, g, f)
    <3> HIDE DEF g
    <3> QED BY <1>2, <1>3, <2>1, RecursionExists, Zenon
  <2>3. /\ f \in [0 .. n -> Early] /\ f[0] = FreshState
        /\ \A k \in 1 .. n : f[k] = Install(f[k - 1], i[k])
    <3>1. /\ f \in [0 .. n -> Early] /\ f[0] = FreshState
          /\ \A k \in 1 .. n : f[k] = g[k][f[k - 1]]
      BY <2>2, Zenon DEF Follows
    <3>2. \A k \in 1 .. n : k - 1 \in 0 .. n
      BY <1>2
    <3> QED BY <3>1, <3>2, Zenon
  <2>4. P(f)
    BY <1>2, <2>3 DEF n
  <2>5. P(after)
    <3> HIDE DEF P
    <3>1. P(CHOOSE h : P(h))
      BY <2>4, Zenon
    <3> QED BY <3>1, Zenon DEF P
  <2> HIDE DEF after
  <2> QED BY <1>2, <2>5 DEF n
<1> HIDE DEF after
<1> DEFINE T == {k \in Nat : k <= n => after[k] \in Early}
<1>5. 0 \in T
  BY <1>3, <1>4, Zenon
<1>6. \A k \in T : k + 1 \in T
  <2> SUFFICES ASSUME NEW k \in Nat, k + 1 <= n, after[k] \in Early PROVE after[k + 1] \in Early
    <3> HIDE DEF n
    <3> QED BY <1>2
  <2> HIDE DEF n
  <2>1. k + 1 \in 1 .. n /\ (k + 1) - 1 = k
    BY <1>2
  <2>2. after[k + 1] = Install(after[k], i[k + 1]) /\ i[k + 1] \in Slots
    BY <1>2, <1>4, <2>1, Zenon
  <2> QED BY <2>2, InstallIs, Zenon
<1>7. T = Nat
  <2> HIDE DEF T
  <2>1. T \in SUBSET Nat
    BY Zenon DEF T
  <2> QED BY <1>5, <1>6, <2>1, SetInduction, Zenon
<1>8. after[Len(i)] \in Early
  <2>1. n \in T
    BY <1>2, <1>7, Zenon
  <2> QED BY <1>2, <2>1
<1> QED BY <1>1, <1>8, Zenon DEF Early, States

\* A machine whose media were just provisioned satisfies the invariant.
LEMMA InitSound ==
  ASSUME Init
  PROVE  BootInv
<1>1. ASSUME NEW x \in Provisioned
      PROVE  /\ x \in Files /\ x.is # "torn"
             /\ [main |-> x, new |-> Absent] \in Contents
             /\ StateOf([main |-> x, new |-> Absent]) \in Early
  <2>1. x \in Files /\ x.is \in {"absent", "whole"} /\ (x.is = "whole" => x.st \in Early)
    <3>1. CASE x = Absent
      BY <3>1, FilesAre, Zenon DEF Absent
    <3>2. CASE x # Absent
      <4>1. PICK i \in Installs, low \in Floors : x = Whole(StateCommand(i, low))
        BY <3>2 DEF Provisioned
      <4>2. StateCommand(i, low) \in Early /\ StateCommand(i, low) \in States
        BY StateCommandIs, Zenon DEF Early
      <4> QED BY <4>1, <4>2, FilesAre, Zenon DEF Whole
    <3> QED BY <3>1, <3>2, Zenon
  <2>2. FreshState \in Early
    BY FreshIs DEF Early
  <2>3. [main |-> x, new |-> Absent] \in Contents
    BY <2>1, FilesAre, Zenon DEF Contents
  <2>4. StateOf([main |-> x, new |-> Absent]) \in Early
    BY <2>1, <2>2, Zenon DEF StateOf, Read, Absent, Whole
  <2> QED BY <2>1, <2>3, <2>4, Zenon
<1>2. \A m \in Media : /\ dir[m] \in Contents /\ dir[m].main.is # "torn" /\ dir[m].new = Absent
                       /\ StateOf(dir[m]) \in Early
  <2> SUFFICES ASSUME NEW m \in Media
               PROVE  /\ dir[m] \in Contents /\ dir[m].main.is # "torn" /\ dir[m].new = Absent
                      /\ StateOf(dir[m]) \in Early
    OBVIOUS
  <2>1. PICK x \in Provisioned : dir[m] = [main |-> x, new |-> Absent]
    BY Zenon DEF Init
  <2> QED BY <1>1, <2>1
<1>3. \A m \in Media : disk[m] = {dir[m]} /\ sure[m] = {dir[m].new}
  BY <1>2, Zenon DEF Init
<1>4. \A m \in Media : StateOf(dir[m]).floor \in Nat
  BY <1>2, Zenon DEF Early, States
<1>5. TypeOK
  <2>1. dir \in [Media -> Contents] /\ disk \in [Media -> SUBSET Contents] /\ sure \in [Media -> SUBSET Files]
    BY <1>2, FilesAre, Zenon DEF Init
  <2>2. recorded \in [Media -> Nat]
    BY <1>4, Zenon DEF Init, StateOf
  <2> QED BY <2>1, <2>2, FreshIs, NoWriteIs, Zenon DEF Init, TypeOK
<1>6. DiskSound
  <2> SUFFICES ASSUME NEW m \in Media
               PROVE  /\ StateOf(dir[m]).floor >= recorded[m]
                      /\ \A s \in Slots : uses[m][s] + StateOf(dir[m]).slots[s].tries <= DefaultTries
    BY <1>2, <1>3 DEF DiskSound
  <2>1. recorded[m] = StateOf(dir[m]).floor /\ \A s \in Slots : uses[m][s] = 0
    BY Zenon DEF Init, StateOf
  <2>2. \A s \in Slots : /\ StateOf(dir[m]).slots[s].tries \in Nat
                         /\ StateOf(dir[m]).slots[s].tries <= DefaultTries
    <3>1. \A s \in Slots : StateOf(dir[m]).slots[s] \in Entries
      BY <1>2, Zenon DEF Early, States
    <3> QED BY <1>2, <3>1, Zenon DEF Early, Entries
  <2> QED BY <1>4, <2>1, <2>2
<1> QED BY <1>3, <1>5, <1>6, OffIs, Zenon DEF Init

-----------------------------------------------------------------------------
(***************************************************************************)
(* Every step.                                                             *)
(***************************************************************************)

\* What a step may do to what is on the disk: nothing is added, or the write in
\* flight adds contents with the state it replaces or the one it records.
DiskStep ==
  \/ \A m \in Media : disk'[m] \subseteq disk[m]
  \/ phase = "write" /\ \E cs, c : Grows(cs, c)

\* Every step keeps the invariant, leaves the releases alone and is a DiskStep.
LEMMA BootStep ==
  ASSUME BootInv, [Next]_vars
  PROVE  BootInv' /\ release' = release /\ DiskStep
<1>1. CASE UNCHANGED vars
  <2>1. UNCHANGED <<release, dir, disk, sure, phase, seen, left, floor, medium, state, verified, slot,
                   write, recorded, uses, faults>>
    BY <1>1, Zenon DEF vars, files, stage
  <2>2. \A m \in Media : (Dirty(m)' <=> Dirty(m)) /\ (Blank(m)' <=> Blank(m))
    BY <2>1, Zenon DEF Dirty, Blank
  <2>3. TypeOK' /\ DiskSound' /\ OffSound' /\ FloorSound'
    BY <2>1, Zenon DEF BootInv, TypeOK, DiskSound, OffSound, FloorSound, Undecided, Recording
  <2>4. SureSound'
    <3>1. medium \in Media
      BY Zenon DEF BootInv, TypeOK
    <3>2. (Blank(medium)' <=> Blank(medium)) /\ (Dirty(medium)' <=> Dirty(medium))
      BY <2>1, Zenon DEF Dirty, Blank
    <3> QED BY <2>1, <2>2, <3>1, <3>2, Zenon DEF BootInv, SureSound, OnMedium, Recording, NoneLeft
  <2>5. StateSound' /\ SlotSound'
    BY <2>1, Zenon DEF BootInv, StateSound, SlotSound, OnMedium, Recording, Keeps
  <2>6. WriteSound'
    BY <2>1, Zenon DEF BootInv, WriteSound, SameSlots, Keeps
  <2>7. StepSound' /\ NoRollback'
    BY <2>1, Zenon DEF BootInv, StepSound, NoRollback
  <2> QED BY <2>1, <2>3, <2>4, <2>5, <2>6, <2>7, Zenon DEF BootInv, DiskStep
<1>2. CASE WriteStep
  <2>1. release' = release /\ phase = "write"
    BY <1>2, Zenon DEF WriteStep, Promote, CreateNew, FillNew, SyncNew, Rename, SyncDir, WriteFails, Writing
  <2> QED BY <1>2, <2>1, PromoteKeeps, CreateKeeps, FillKeeps, SyncKeeps, RenameKeeps, SyncDirKeeps,
             WriteFailsKeeps, Zenon DEF WriteStep, DiskStep
<1>3. CASE Stage1
  <2>1. release' = release /\ disk' = disk
    BY <1>3, Zenon DEF Stage1, Discover, DiscoverFails, TryMedium, MediumUnmountable, NothingBooted, NoSlot,
                LoadImage, files
  <2>2. DiskStep
    BY <2>1, Zenon DEF DiskStep
  <2>3. CASE DiscoverFails \/ NothingBooted
    <3>1. Down /\ UNCHANGED <<release, files, recorded, uses>> /\ faults' \in Nat
      BY <2>3 DEF DiscoverFails, NothingBooted, Fault, BootInv, TypeOK
    <3> QED BY <2>1, <2>2, <3>1, DownKeeps, Zenon
  <2> QED BY <1>3, <2>1, <2>2, <2>3, DiscoverKeeps, TryMediumKeeps, UnmountableKeeps, NoSlotKeeps,
             LoadImageKeeps, Zenon DEF Stage1
<1>4. CASE Stage2
  <2>1. release' = release /\ disk' = disk
    BY <1>4, Zenon DEF Stage2, RunFails, Unhealthy, Prove, ProveFails, files
  <2>2. DiskStep
    BY <2>1, Zenon DEF DiskStep
  <2>3. CASE RunFails \/ Unhealthy
    <3>1. Down /\ UNCHANGED <<release, files, recorded, uses>> /\ faults' \in Nat
      BY <2>3 DEF RunFails, Unhealthy, Fault, BootInv, TypeOK
    <3> QED BY <2>1, <2>2, <3>1, DownKeeps, Zenon
  <2> QED BY <1>4, <2>1, <2>2, <2>3, ProveKeeps, ProveFailsKeeps, Zenon DEF Stage2
<1>5. CASE Restart \/ PowerCut
  <2>1. Lose /\ faults' \in Nat
    BY <1>5 DEF Restart, PowerCut, Fault, BootInv, TypeOK
  <2>2. release' = release
    BY <2>1, Zenon DEF Lose
  <2> QED BY <2>1, <2>2, LoseKeeps, Zenon DEF DiskStep
<1> QED BY <1>1, <1>2, <1>3, <1>4, <1>5, Zenon DEF Next, Running

\* The inductive invariant holds in every state.
LEMMA BootInvariance == Spec => []BootInv
BY InitSound, BootStep, PTL DEF Spec

-----------------------------------------------------------------------------
(***************************************************************************)
(* What the boot chain promises.                                           *)
(***************************************************************************)

\* No interrupted or failed write_state tears the state file or lowers the floor that
\* was last recorded, whatever a power cut leaves.
THEOREM FloorNeverLowered == Spec => []FloorKept
<1>1. BootInv => FloorKept
  BY Zenon DEF BootInv, DiskSound, FloorKept, StateOf
<1> QED BY <1>1, BootInvariance, PTL

\* No release runs whose epoch is below a floor recorded on an attached medium, and a
\* recorded success carries the highest of these floors.
THEOREM RollbackRefused == Spec => []NoRollback
<1>1. BootInv => NoRollback
  BY Zenon DEF BootInv
<1> QED BY <1>1, BootInvariance, PTL

\* An unproven update is started at most DEFAULT_TRIES times.
THEOREM TriesAreBounded == Spec => []TriesBounded
<1>1. BootInv => TriesBounded
  <2> SUFFICES ASSUME BootInv, NEW m \in Media, NEW s \in Slots PROVE uses[m][s] <= DefaultTries
    BY Zenon DEF TriesBounded
  <2>1. dir[m] \in Contents /\ uses[m] \in [Slots -> Nat]
    BY Zenon DEF BootInv, TypeOK
  <2>2. uses[m][s] + StateOf(dir[m]).slots[s].tries <= DefaultTries
    BY Zenon DEF BootInv, DiskSound
  <2>3. StateOf(dir[m]).slots[s] \in Entries
    BY <2>1, ReadIs, Zenon DEF States
  <2>4. StateOf(dir[m]).slots[s].tries \in Nat
    BY <2>3, Zenon DEF Entries
  <2> QED BY <2>1, <2>2, <2>4
<1> QED BY <1>1, BootInvariance, PTL

\* No sequence of I/O errors, flaky reads and power cuts retires a slot whose content
\* is good.
THEOREM GoodSlotsKept == Spec => GoodSlotKept
<1> DEFINE Keep == \A m \in Media, s \in Slots :
                     release[m][s].content = "good" /\ Retired(m, s) = {} => Retired(m, s)' = {}
<1>1. BootInv /\ [Next]_vars => [Keep]_vars
  <2> SUFFICES ASSUME BootInv, [Next]_vars, NEW m \in Media, NEW s \in Slots,
                      release[m][s].content = "good", Retired(m, s) = {},
                      NEW d \in disk'[m], Read(d).is = "whole", Read(d).st.slots[s].priority = 0
               PROVE  FALSE
    BY Zenon DEF Retired
  <2>1. BootInv' /\ DiskStep
    BY BootStep, Zenon
  <2>2. d \notin disk[m]
    BY Zenon DEF Retired
  <2>3. PICK cs, c : phase = "write" /\ Grows(cs, c)
    BY <2>1, <2>2, Zenon DEF DiskStep
  <2>4. m = medium /\ d \in cs
    BY <2>2, <2>3, Zenon DEF Grows, BootInv, TypeOK
  <2>5. StateOf(d) \in {StateOf(dir[medium]), write.st}
    BY <2>3, <2>4, Zenon DEF Grows
  <2>6. dir[m] \in Contents /\ dir[m] \in disk[m] /\ dir[m].main.is # "torn"
    BY Zenon DEF BootInv, TypeOK, DiskSound
  <2>7. Read(dir[m]).is = "whole" /\ StateOf(dir[m]).slots[s].priority # 0
    BY <2>6, ReadIs, Zenon DEF Retired, StateOf
  <2>8. StateOf(dir[m]).slots[s].priority > 0
    <3>1. StateOf(dir[m]).slots[s] \in Entries
      BY <2>6, ReadIs, Zenon DEF States
    <3> QED BY <2>7, <3>1 DEF Entries
  <2>9. write.st.slots[s].priority > 0
    BY <2>3, <2>4, <2>8, Zenon DEF BootInv, WriteSound, Keeps
  <2>10. StateOf(d).slots[s].priority > 0
    BY <2>4, <2>5, <2>8, <2>9, Zenon
  <2> QED BY <2>10 DEF StateOf
<1> HIDE DEF Keep
<1>2. Spec => [][Keep]_vars
  BY <1>1, BootInvariance, PTL DEF Spec
<1> QED BY <1>2, Zenon DEF GoodSlotKept, Keep

\* What a power cut may leave of the media, and the highest floor of it.
Left(ds) ==
  {d \in [Media -> UNION {ds[m] : m \in Media}] : \A m \in Media : d[m] \in ds[m]}
Low(d) == Max({Read(d[k]).st.floor : k \in Media})

\* There is a slot to fall back to.
Saved(d) == \E m \in Media : HasFallback(m, d[m], Low(d))

\* The highest floor is the floor of one of the media.
LEMMA LowIs ==
  ASSUME NEW d \in [Media -> Contents]
  PROVE  /\ Low(d) \in Nat
         /\ \E k \in Media : StateOf(d[k]).floor = Low(d)
         /\ \A k \in Media : StateOf(d[k]).floor \in Nat /\ StateOf(d[k]).floor <= Low(d)
<1> DEFINE f == [k \in Media |-> StateOf(d[k]).floor]
<1>1. \A k \in Media : StateOf(d[k]).floor \in Nat
  BY ReadIs, Zenon DEF States
<1>2. f \in [Media -> Nat] /\ \A k \in Media : f[k] = StateOf(d[k]).floor
  BY <1>1, Zenon
<1>3. Low(d) = Max({f[k] : k \in Media})
  BY Zenon DEF Low, StateOf
<1> HIDE DEF f
<1>4. /\ Low(d) \in Nat /\ \E k \in Media : f[k] = Low(d)
      /\ \A k \in Media : f[k] <= Low(d)
  <2>1. Media \in SUBSET Media /\ Media # {} /\ f \in [Media -> Nat]
    BY <1>2, Zenon
  <2>2. /\ Max({f[k] : k \in Media}) \in Nat
        /\ \E k \in Media : f[k] = Max({f[j] : j \in Media})
        /\ \A k \in Media : f[k] <= Max({f[j] : j \in Media})
    BY <2>1, MaxIs, Zenon
  <2> QED BY <1>3, <2>2, Zenon
<1> QED BY <1>1, <1>2, <1>4, Zenon

\* A slot to fall back to stays one, in a state that keeps the good slots and under a
\* floor that is no higher.
LEMMA FallbackKept ==
  ASSUME BootInv, NEW m \in Media, NEW d \in Contents, NEW x, Read(x).is = "whole",
         Keeps(m, StateOf(x), d), NEW low \in Nat, NEW new \in Nat, new <= low, HasFallback(m, d, low)
  PROVE  HasFallback(m, x, new)
<1>1. PICK s \in Slots :
        /\ StateOf(d).slots[s].priority > 0 /\ StateOf(d).slots[s].successful
        /\ release[m][s].content = "good" /\ release[m][s].healthy
        /\ ManifestOk(release[m][s], low)
  BY Zenon DEF HasFallback, StateOf
<1>2. StateOf(x).slots[s].priority > 0 /\ StateOf(x).slots[s].successful
  BY <1>1, Zenon DEF Keeps
<1>3. ManifestOk(release[m][s], new)
  <2>1. release[m] \in [Slots -> Releases]
    BY Zenon DEF BootInv, TypeOK
  <2>2. release[m][s].epoch \in Nat
    BY <2>1, Zenon
  <2> QED BY <1>1, <2>2 DEF ManifestOk
<1> QED BY <1>1, <1>2, <1>3, Zenon DEF HasFallback, StateOf

\* A step of write_state leaves a slot to fall back to: a floor is raised only together
\* with the success of a slot that satisfies it.
LEMMA WriteSaves ==
  ASSUME BootInv, phase = "write", NEW cs, NEW c, Grows(cs, c), \A d \in Left(disk) : Saved(d),
         NEW d \in Left(disk')
  PROVE  Saved(d)
<1>1. /\ medium \in Media /\ medium \in seen /\ seen \subseteq Media /\ floor \in Nat
      /\ disk \in [Media -> SUBSET Contents] /\ write.st \in States /\ slot \in Slots
      /\ \A m \in Media : dir[m] \in disk[m] /\ dir[m].main.is # "torn"
      /\ cs \subseteq Contents
      /\ \A x \in cs : x.main.is # "torn" /\ StateOf(x) \in {StateOf(dir[medium]), write.st}
  BY WriteFloors, Zenon DEF BootInv, TypeOK, DiskSound, Grows
<1>2. /\ disk'[medium] = disk[medium] \cup cs
      /\ \A m \in Media \ {medium} : disk'[m] = disk[m]
  BY <1>1, Zenon DEF Grows
<1>3. d \in [Media -> Contents]
  <2>1. \A m \in Media : d[m] \in Contents
    BY <1>1, <1>2, Zenon DEF Left
  <2> QED BY <2>1, Zenon DEF Left
<1>4. \A m \in Media \ {medium} : d[m] \in disk[m]
  BY <1>2, Zenon DEF Left
<1>5. CASE d[medium] \in disk[medium]
  <2>1. \A m \in Media : d[m] \in disk[m]
    BY <1>4, <1>5, Zenon
  <2>2. d \in Left(disk)
    BY <1>3, <2>1, Zenon DEF Left
  <2> QED BY <2>2, Zenon
<1>6. CASE d[medium] \notin disk[medium]
  <2> DEFINE e == [d EXCEPT ![medium] = dir[medium]]
  <2>1. /\ e \in [Media -> Contents] /\ e[medium] = dir[medium]
        /\ \A m \in Media \ {medium} : e[m] = d[m]
    BY <1>1, <1>3, Zenon
  <2> HIDE DEF e
  <2>2. \A m \in Media : e[m] \in disk[m]
    BY <1>1, <1>4, <2>1, Zenon
  <2>3. e \in Left(disk)
    BY <2>1, <2>2, Zenon DEF Left
  <2>4. PICK m \in Media : HasFallback(m, e[m], Low(e))
    BY <2>3, Zenon DEF Saved
  <2>5. /\ d[medium] \in Contents /\ Read(d[medium]).is = "whole"
        /\ StateOf(d[medium]) \in {StateOf(dir[medium]), write.st}
    <3>1. d[medium] \in cs
      BY <1>1, <1>2, <1>6, Zenon DEF Left
    <3> QED BY <1>1, <3>1, ReadIs, Zenon
  <2>6. Keeps(medium, StateOf(d[medium]), dir[medium])
    <3>1. Keeps(medium, write.st, dir[medium])
      BY Zenon DEF BootInv, WriteSound
    <3> QED BY <2>5, <3>1, Zenon DEF Keeps
  <2>7. ASSUME Low(d) <= Low(e) PROVE Saved(d)
    <3>1. Low(d) \in Nat /\ Low(e) \in Nat
      BY <1>3, <2>1, LowIs, Zenon
    <3>2. Read(d[m]).is = "whole" /\ Keeps(m, StateOf(d[m]), e[m])
      <4>1. CASE m = medium
        BY <2>1, <2>5, <2>6, <4>1, Zenon
      <4>2. CASE m # medium
        <5>1. d[m] = e[m]
          BY <2>1, <4>2, Zenon
        <5>2. Read(e[m]).is = "whole"
          BY <2>4, Zenon DEF HasFallback
        <5> QED BY <5>1, <5>2, Zenon DEF Keeps
      <4> QED BY <4>1, <4>2, Zenon
    <3>3. HasFallback(m, d[m], Low(d))
      BY <2>1, <2>4, <2>7, <3>1, <3>2, FallbackKept, Zenon
    <3> QED BY <3>3, Zenon DEF Saved
  <2>8. ASSUME \E k \in Media : StateOf(d[medium]).floor <= StateOf(e[k]).floor
        PROVE  Low(d) <= Low(e)
    <3>1. PICK k \in Media : StateOf(d[medium]).floor <= StateOf(e[k]).floor
      BY <2>8, Zenon
    <3>2. PICK j \in Media : StateOf(d[j]).floor = Low(d)
      BY <1>3, LowIs, Zenon
    <3>3. /\ Low(d) \in Nat /\ Low(e) \in Nat /\ StateOf(e[k]).floor \in Nat
          /\ StateOf(e[k]).floor <= Low(e) /\ StateOf(e[j]).floor <= Low(e)
      BY <1>3, <2>1, LowIs, Zenon
    <3>4. CASE j = medium
      BY <3>1, <3>2, <3>3, <3>4
    <3>5. CASE j # medium
      <4>1. d[j] = e[j]
        BY <2>1, <3>5, Zenon
      <4> QED BY <3>2, <3>3, <4>1, Zenon
    <3> QED BY <3>4, <3>5, Zenon
  <2>9. CASE StateOf(d[medium]) = StateOf(dir[medium])
    <3>1. StateOf(d[medium]).floor <= StateOf(e[medium]).floor
      BY <1>1, <2>1, <2>9, LowIs
    <3> QED BY <1>1, <2>7, <2>8, <3>1, Zenon
  <2>10. CASE StateOf(d[medium]) = write.st /\ write.why \in {"bad", "try"}
    <3>1. PICK k \in seen : \A x \in disk[k] : StateOf(x).floor = floor
      BY <2>10, Zenon DEF BootInv, FloorSound, Undecided, Recording
    <3>2. k \in Media /\ StateOf(e[k]).floor = floor
      BY <1>1, <2>2, <3>1, Zenon
    <3>3. write.st.floor = floor
      BY <2>10, Zenon DEF BootInv, WriteSound
    <3>4. StateOf(d[medium]).floor <= StateOf(e[k]).floor
      BY <1>1, <2>10, <3>2, <3>3
    <3> QED BY <2>7, <2>8, <3>2, <3>4, Zenon
  <2>11. CASE StateOf(d[medium]) = write.st /\ write.why = "success"
    <3>1. /\ write.st.slots[slot].priority > 0 /\ write.st.slots[slot].successful
          /\ release[medium][slot].healthy /\ write.st.floor <= release[medium][slot].epoch
          /\ release[medium][slot].content = "good" /\ ManifestOk(release[medium][slot], floor)
      BY <2>11, Zenon DEF BootInv, WriteSound, SlotSound, Recording
    <3>2. release[medium][slot].epoch \in Nat
      <4>1. release[medium] \in [Slots -> Releases]
        BY <1>1, Zenon DEF BootInv, TypeOK
      <4> QED BY <1>1, <4>1, Zenon
    <3>3. CASE Low(d) <= release[medium][slot].epoch
      <4>1. ManifestOk(release[medium][slot], Low(d))
        <5>1. Low(d) \in Nat
          BY <1>3, LowIs, Zenon
        <5> QED BY <3>1, <3>2, <3>3, <5>1, Zenon DEF ManifestOk
      <4>2. HasFallback(medium, d[medium], Low(d))
        BY <1>1, <2>5, <2>11, <3>1, <4>1, Zenon DEF HasFallback, StateOf
      <4> QED BY <1>1, <4>2, Zenon DEF Saved
    <3>4. CASE ~(Low(d) <= release[medium][slot].epoch)
      <4>1. PICK j \in Media : StateOf(d[j]).floor = Low(d)
        BY <1>3, LowIs, Zenon
      <4>2. Low(d) \in Nat /\ write.st.floor \in Nat
        BY <1>1, <1>3, LowIs, Zenon DEF States
      <4>3. ~(Low(d) <= write.st.floor)
        BY <3>1, <3>2, <3>4, <4>2
      <4>4. j # medium
        BY <2>11, <4>1, <4>2, <4>3
      <4>5. e[j] = d[j]
        BY <2>1, <4>4, Zenon
      <4>6. StateOf(d[medium]).floor <= StateOf(e[j]).floor
        BY <2>11, <4>1, <4>2, <4>3, <4>5
      <4> QED BY <2>7, <2>8, <4>6, Zenon
    <3> QED BY <3>3, <3>4, Zenon
  <2>12. write.why \in {"bad", "try", "success"}
    BY Zenon DEF BootInv, WriteSound
  <2> QED BY <2>5, <2>9, <2>10, <2>11, <2>12, Zenon
<1> QED BY <1>5, <1>6, Zenon

\* No step of the boot chain takes away the last slot a machine can fall back to.
THEOREM FallbackStays == Spec => NeverStranded
<1>1. BootInv /\ [Next]_vars => [Rescuable => Rescuable']_vars
  <2> SUFFICES ASSUME BootInv, [Next]_vars, Rescuable PROVE Rescuable'
    OBVIOUS
  <2>1. release' = release /\ DiskStep
    BY BootStep, Zenon
  <2>2. \A d \in Left(disk) : Saved(d)
    BY Zenon DEF Rescuable, Left, Saved, Low
  <2>3. (\A d \in Left(disk') : Saved(d)) => Rescuable'
    BY <2>1, Zenon DEF Rescuable, Left, Saved, Low, HasFallback
  <2>4. CASE \A m \in Media : disk'[m] \subseteq disk[m]
    <3>1. Left(disk') \subseteq Left(disk)
      BY <2>4, Zenon DEF Left
    <3> QED BY <2>2, <2>3, <3>1, Zenon
  <2>5. CASE phase = "write" /\ \E cs, c : Grows(cs, c)
    BY <2>2, <2>3, <2>5, WriteSaves, Zenon
  <2> QED BY <2>1, <2>4, <2>5, Zenon DEF DiskStep
<1> QED BY <1>1, BootInvariance, PTL DEF Spec, NeverStranded
=============================================================================
