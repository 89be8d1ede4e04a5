------------------------------ MODULE EngineSteps ---------------------------
(***************************************************************************)
(* The inductive invariant of the state directory, and that it is kept by  *)
(* the writes of an operation, by a new policy, and by failures, kills,    *)
(* power cuts and losses of the index.                                     *)
(*                                                                         *)
(* The writes that an operation has left decide what may go wrong, so the  *)
(* invariant is about them: which write comes directly before which, that  *)
(* every row to be saved is of an artifact whose transition comes first,   *)
(* and in which state they leave each artifact.                            *)
(***************************************************************************)
EXTENDS Engine, TLAPS

Known == AdmissionStates \cup {NoState}

AllFiles == (Ids \X Grants) \cup ({Base} \X SUBSET Ids)

\* What open may derive from a ledger: the current file of a subject is its own.
Views ==
  {l \in [state : [Ids -> Known], found : Seq(Ids), cited : SUBSET Objects,
          current : [Subjects -> AllFiles \cup {NoFile}], policy_floor : Nat, rev_floor : Nat] :
     \A x \in Subjects : l.current[x] # NoFile => l.current[x][1] = x}

Rows == [id : Ids \cup {NoId}, stamp : Nat, fresh : BOOLEAN, policy_epoch : Nat]

Lists == [epoch : Nat, ids : SUBSET Ids]

Transitions == [kind : {"TRANSITION"}, id : Ids, to : AdmissionStates, cites : Objects]

Notes == [kind : {"DISCOVER", "MISMATCH"}, id : Ids, cites : Objects]

Overrides == [kind : {"OVERRIDE"}, file : AllFiles]

Floors == [kind : {"POLICY_LOAD", "REVOCATION"}, epoch : Nat]

\* The writes that need nothing before them and leave authority and rows alone.
Plain ==
  [w : {"put"}, object : Objects] \cup [w : {"log"}, event : Transitions \cup Notes, sync : BOOLEAN]

Writes ==
  Plain \cup [w : {"log"}, event : Overrides \cup Floors, sync : {TRUE}]
  \cup [w : {"flush"}] \cup [w : {"index"}, row : Rows] \cup [w : {"file", "remove"}, file : AllFiles]
  \cup [w : {"policy"}, epoch : Nat \ {0}] \cup [w : {"list"}, list : Lists]
  \cup [w : {"revoke"}, moves : SUBSET (Ids \X Seq(Plain))]

Logs(w, kind) == w.w = "log" /\ w.event.kind = kind

TypeOK ==
  /\ content \in Ids \cup {NoId} /\ stamp \in Nat
  /\ log \in Seq(Views) /\ log # <<>>
  /\ policy \in Nat \ {0} /\ list \in Lists /\ index \in Rows \cup {Lost}
  /\ todo \in Seq(Writes) /\ crashes \in Nat /\ losses \in Nat

-----------------------------------------------------------------------------
(***************************************************************************)
(* The order of writes.                                                    *)
(***************************************************************************)

\* A write that may come first or after anything.
Starts(b) ==
  /\ b.w \notin {"remove", "index", "policy", "list"}
  /\ ~Logs(b, "OVERRIDE") /\ ~Logs(b, "POLICY_LOAD") /\ ~Logs(b, "REVOCATION")

\* A write b that comes directly after a.
Links(a, b) ==
  /\ b.w = "remove" => a = Log(Override(b.file), TRUE)
  /\ Logs(b, "OVERRIDE") => a = WriteFile(b.event.file)
  /\ Logs(b, "POLICY_LOAD") => a = WritePolicy(b.event.epoch)
  /\ Logs(b, "REVOCATION") => a.w = "list" /\ a.list.epoch = b.event.epoch
  /\ b.w = "index" => a = Flush
  /\ b.w \notin {"policy", "list"}

\* What holds when it is the turn of a write that may not come after anything.
Ready(b) ==
  /\ b.w = "remove" => \A l \in Survivors : l.current[b.file[1]] = b.file
  /\ Logs(b, "OVERRIDE") => b.event.file \in files
  /\ Logs(b, "POLICY_LOAD") => policy >= b.event.epoch
  /\ Logs(b, "REVOCATION") => list.epoch >= b.event.epoch
  /\ b.w = "index" => Len(log) = 1
  /\ b.w = "policy" => b.epoch >= policy
  /\ b.w = "list" => b.list.epoch >= list.epoch

Linked(s) == \A i \in DOMAIN s : i > 1 => Links(s[i - 1], s[i])

Ordered == Linked(todo) /\ (todo # <<>> => Ready(todo[1]))

-----------------------------------------------------------------------------
(***************************************************************************)
(* Rows and trust.                                                         *)
(***************************************************************************)

MovesIt(w, x) == Logs(w, "TRANSITION") /\ w.event.id = x

\* The artifacts the ledger has a state of.
Recorded == {x \in Ids : view.state[x] # NoState}

\* Every row that s saves is of an artifact in K, or moved by s before.
Covered(s, K) ==
  \A k \in DOMAIN s : s[k].w = "index" /\ s[k].row.policy_epoch # 0 =>
    s[k].row.id \in K \/ \E j \in DOMAIN s : j < k /\ s[k].row.id \in Ids /\ MovesIt(s[j], s[k].row.id)

RowsSound ==
  /\ index.policy_epoch # 0 => index.id \in Ids /\ \A l \in Survivors : l.state[index.id] # NoState
  /\ Covered(todo, Recorded)

Untouched(s, x) == \A j \in DOMAIN s : ~MovesIt(s[j], x)

\* The last transition of x in s takes it out of VERIFIED and ADMITTED.
Demoted(s, x) ==
  \E j \in DOMAIN s : /\ MovesIt(s[j], x) /\ ~permits_normal_execution(s[j].event.to)
                      /\ \A k \in DOMAIN s : k > j => ~MovesIt(s[k], x)

\* The transitions that revoke_report has in store lead out of trust.
Revoking(s) ==
  \A j \in DOMAIN s : s[j].w = "revoke" =>
    \A m \in s[j].moves : \A x \in Ids : Untouched(m[2], x) \/ Demoted(m[2], x)

\* After s, x is not trusted.
Distrusted(s, x) ==
  Demoted(s, x) \/ (Untouched(s, x) /\ ~permits_normal_execution(view.state[x]))

\* The last row that s saves is of the artifact id.
Saves(s, id) ==
  \E j \in DOMAIN s : /\ s[j].w = "index" /\ s[j].row.id = id
                      /\ \A k \in DOMAIN s : k > j => s[k].w # "index"

Saveless(s) == \A j \in DOMAIN s : s[j].w # "index"

\* After s, the index names the artifact id.
EndsWith(s, id) == Saves(s, id) \/ (Saveless(s) /\ index.id = id)

\* While nothing crashed and the index was not lost: a lost index is that of a
\* ledger that knows of nothing, and what is not in the index in the end is not
\* trusted in the end.
TrustSound ==
  crashes = 0 /\ losses = 0 =>
    /\ index = Lost /\ Saveless(todo) =>
         Recorded = {} /\ \A j \in DOMAIN todo : todo[j].w # "revoke" /\ ~Logs(todo[j], "TRANSITION")
    /\ \E id \in Ids \cup {NoId, Lost.id} :
         EndsWith(todo, id) /\ \A x \in Ids \ {id} : Distrusted(todo, x)

EngineInv == TypeOK /\ Ordered /\ AuthorityKept /\ RowsSound /\ Revoking(todo) /\ TrustSound

-----------------------------------------------------------------------------
(***************************************************************************)
(* Sequences of writes.                                                    *)
(***************************************************************************)

\* What is left after the first write.
LEMMA TailLook ==
  ASSUME NEW S, NEW s \in Seq(S), s # <<>>
  PROVE  /\ Len(s) \in Nat \ {0} /\ DOMAIN s = 1 .. Len(s) /\ 1 \in DOMAIN s
         /\ Head(s) = s[1] /\ s[1] \in S
         /\ Tail(s) \in Seq(S) /\ DOMAIN Tail(s) = 1 .. (Len(s) - 1)
         /\ \A i \in 1 .. (Len(s) - 1) : Tail(s)[i] = s[i + 1]
OBVIOUS

\* One sequence after another.
LEMMA ConcatLook ==
  ASSUME NEW S, NEW s \in Seq(S), NEW t \in Seq(S)
  PROVE  /\ s \o t \in Seq(S) /\ Len(s) \in Nat /\ Len(t) \in Nat
         /\ DOMAIN s = 1 .. Len(s) /\ DOMAIN t = 1 .. Len(t) /\ DOMAIN (s \o t) = 1 .. (Len(s) + Len(t))
         /\ \A i \in 1 .. Len(s) : (s \o t)[i] = s[i]
         /\ \A i \in 1 .. Len(t) : (s \o t)[Len(s) + i] = t[i]
         /\ \A i \in (Len(s) + 1) .. (Len(s) + Len(t)) : (s \o t)[i] = t[i - Len(s)]
OBVIOUS

\* Linked sequences stay so.
LEMMA LinkedTail ==
  ASSUME NEW S, NEW s \in Seq(S), s # <<>>, Linked(s)
  PROVE  Linked(Tail(s)) /\ (Tail(s) # <<>> => Links(s[1], Tail(s)[1]))
<1>1. /\ Len(s) \in Nat \ {0} /\ DOMAIN s = 1 .. Len(s)
      /\ Tail(s) \in Seq(S) /\ DOMAIN Tail(s) = 1 .. (Len(s) - 1)
      /\ \A i \in 1 .. (Len(s) - 1) : Tail(s)[i] = s[i + 1]
  BY TailLook
<1>2. ASSUME NEW i \in DOMAIN Tail(s), i > 1 PROVE Links(Tail(s)[i - 1], Tail(s)[i])
  <2>1. Tail(s)[i] = s[i + 1] /\ Tail(s)[i - 1] = s[i] /\ i + 1 \in DOMAIN s /\ i + 1 > 1 /\ (i + 1) - 1 = i
    BY <1>1, <1>2
  <2> QED BY <2>1, Zenon DEF Linked
<1>3. ASSUME Tail(s) # <<>> PROVE Links(s[1], Tail(s)[1])
  <2>1. 1 \in DOMAIN Tail(s)
    BY <1>1, <1>3, TailLook
  <2>2. Tail(s)[1] = s[2] /\ 2 \in DOMAIN s /\ 2 > 1 /\ 2 - 1 = 1
    BY <1>1, <2>1
  <2> QED BY <2>2, Zenon DEF Linked
<1> QED BY <1>2, <1>3, Zenon DEF Linked

\* A write that may start comes after anything.
LEMMA StartsLinks ==
  ASSUME NEW a, NEW b, Starts(b) PROVE Links(a, b) /\ Ready(b)
BY Zenon DEF Starts, Links, Ready, Logs

\* A sequence that may start comes after anything.
LEMMA LinkedConcat ==
  ASSUME NEW S, NEW s \in Seq(S), NEW t \in Seq(S), Linked(s), Linked(t), t # <<>> => Starts(t[1])
  PROVE  /\ Linked(s \o t)
         /\ s # <<>> => (s \o t)[1] = s[1]
         /\ s = <<>> /\ t # <<>> => (s \o t)[1] = t[1]
         /\ s \o t # <<>> => s # <<>> \/ t # <<>>
<1> DEFINE u == s \o t
           n == Len(s)
<1>1. /\ u \in Seq(S) /\ n \in Nat /\ Len(t) \in Nat
      /\ DOMAIN s = 1 .. n /\ DOMAIN t = 1 .. Len(t) /\ DOMAIN u = 1 .. (n + Len(t))
      /\ \A i \in 1 .. n : u[i] = s[i]
      /\ \A i \in (n + 1) .. (n + Len(t)) : u[i] = t[i - n]
  BY ConcatLook
<1> HIDE DEF u, n
<1>2. ASSUME NEW i \in DOMAIN u, i > 1 PROVE Links(u[i - 1], u[i])
  <2>1. CASE i <= n
    <3>1. u[i] = s[i] /\ u[i - 1] = s[i - 1] /\ i \in DOMAIN s
      BY <1>1, <1>2, <2>1
    <3> QED BY <3>1, <1>2, Zenon DEF Linked
  <2>2. CASE i = n + 1
    <3>1. u[i] = t[1] /\ 1 \in DOMAIN t
      BY <1>1, <1>2, <2>2
    <3>2. t # <<>>
      BY <3>1, <1>1
    <3> QED BY <3>1, <3>2, StartsLinks, Zenon
  <2>3. CASE i > n + 1
    <3>1. u[i] = t[i - n] /\ u[i - 1] = t[(i - n) - 1] /\ i - n \in DOMAIN t /\ i - n > 1
      BY <1>1, <1>2, <2>3
    <3> QED BY <3>1, Zenon DEF Linked
  <2> QED BY <1>1, <2>1, <2>2, <2>3
<1>3. s # <<>> => u[1] = s[1]
  BY <1>1, TailLook
<1>4. s = <<>> => u = t
  BY DEF u
<1>5. s = <<>> /\ t = <<>> => u = <<>>
  BY DEF u
<1> QED BY <1>2, <1>3, <1>4, <1>5, Zenon DEF Linked, u

\* The artifacts that s moves.
MovedBy(s) == {x \in Ids : \E j \in DOMAIN s : MovesIt(s[j], x)}

\* What s moves counts for the rows that are saved after it.
LEMMA CoveredConcat ==
  ASSUME NEW S, NEW s \in Seq(S), NEW t \in Seq(S), NEW K, Covered(s, K), Covered(t, K \cup MovedBy(s))
  PROVE  Covered(s \o t, K)
<1> DEFINE u == s \o t
           n == Len(s)
<1>1. /\ u \in Seq(S) /\ n \in Nat /\ Len(t) \in Nat
      /\ DOMAIN s = 1 .. n /\ DOMAIN t = 1 .. Len(t) /\ DOMAIN u = 1 .. (n + Len(t))
      /\ \A i \in 1 .. n : u[i] = s[i]
      /\ \A i \in 1 .. Len(t) : u[n + i] = t[i]
      /\ \A i \in (n + 1) .. (n + Len(t)) : u[i] = t[i - n]
  BY ConcatLook
<1> HIDE DEF u, n
<1> SUFFICES ASSUME NEW k \in DOMAIN u, u[k].w = "index", u[k].row.policy_epoch # 0, u[k].row.id \notin K
             PROVE  \E j \in DOMAIN u : j < k /\ u[k].row.id \in Ids /\ MovesIt(u[j], u[k].row.id)
  BY Zenon DEF Covered, u
<1>2. \A j \in DOMAIN s : j \in DOMAIN u /\ u[j] = s[j]
  BY <1>1
<1>3. CASE k <= n
  <2>1. k \in DOMAIN s /\ u[k] = s[k]
    BY <1>1, <1>3
  <2>2. PICK j \in DOMAIN s : j < k /\ s[k].row.id \in Ids /\ MovesIt(s[j], s[k].row.id)
    BY <2>1, Zenon DEF Covered
  <2> QED BY <1>2, <2>1, <2>2, Zenon
<1>4. CASE ~(k <= n)
  <2>1. k - n \in DOMAIN t /\ u[k] = t[k - n]
    BY <1>1, <1>4
  <2>2. CASE u[k].row.id \in MovedBy(s)
    <3>1. PICK j \in DOMAIN s : u[k].row.id \in Ids /\ MovesIt(s[j], u[k].row.id)
      BY <2>2, Zenon DEF MovedBy
    <3>2. j < k
      BY <1>1, <1>4
    <3> QED BY <1>2, <3>1, <3>2, Zenon
  <2>3. CASE u[k].row.id \notin MovedBy(s)
    <3>1. PICK j \in DOMAIN t : j < k - n /\ t[k - n].row.id \in Ids /\ MovesIt(t[j], t[k - n].row.id)
      BY <2>1, <2>3, Zenon DEF Covered
    <3>2. n + j \in DOMAIN u /\ u[n + j] = t[j] /\ n + j < k
      BY <1>1, <2>1, <3>1
    <3> QED BY <2>1, <3>1, <3>2, Zenon
  <2> QED BY <2>2, <2>3, Zenon
<1> QED BY <1>3, <1>4, Zenon

\* A row that is covered stays so when more is known.
LEMMA CoveredMore ==
  ASSUME NEW s, NEW K, NEW L, Covered(s, K), K \subseteq L
  PROVE  Covered(s, L)
BY Zenon DEF Covered

\* What two sequences do, one after the other.
LEMMA ConcatDoes ==
  ASSUME NEW S, NEW s \in Seq(S), NEW t \in Seq(S)
  PROVE  /\ \A x : Demoted(t, x) => Demoted(s \o t, x)
         /\ \A x : Demoted(s, x) /\ Untouched(t, x) => Demoted(s \o t, x)
         /\ \A x : Untouched(s, x) /\ Untouched(t, x) => Untouched(s \o t, x)
         /\ \A id : Saves(t, id) => Saves(s \o t, id)
         /\ \A id : Saves(s, id) /\ Saveless(t) => Saves(s \o t, id)
         /\ Saveless(s) /\ Saveless(t) => Saveless(s \o t)
         /\ Revoking(s) /\ Revoking(t) => Revoking(s \o t)
         /\ \A x : (\E j \in DOMAIN s : MovesIt(s[j], x)) => \E j \in DOMAIN (s \o t) : MovesIt((s \o t)[j], x)
         /\ \A x : (\E j \in DOMAIN t : MovesIt(t[j], x)) => \E j \in DOMAIN (s \o t) : MovesIt((s \o t)[j], x)
<1> DEFINE u == s \o t
           n == Len(s)
<1>1. /\ u \in Seq(S) /\ n \in Nat /\ Len(t) \in Nat
      /\ DOMAIN s = 1 .. n /\ DOMAIN t = 1 .. Len(t) /\ DOMAIN u = 1 .. (n + Len(t))
      /\ \A i \in 1 .. n : u[i] = s[i]
      /\ \A i \in 1 .. Len(t) : u[n + i] = t[i]
      /\ \A i \in (n + 1) .. (n + Len(t)) : u[i] = t[i - n]
  BY ConcatLook
<1> HIDE DEF u, n
<1>2. /\ \A i \in DOMAIN s : i \in DOMAIN u /\ u[i] = s[i]
      /\ \A i \in DOMAIN t : n + i \in DOMAIN u /\ u[n + i] = t[i]
      /\ \A i \in DOMAIN u : \/ i \in DOMAIN s /\ u[i] = s[i]
                             \/ i - n \in DOMAIN t /\ u[i] = t[i - n] /\ i > n
  BY <1>1, SMTT(60), Zenon
<1>3. /\ \A i \in DOMAIN t, k \in DOMAIN u : k > n + i => k - n > i /\ k - n \in DOMAIN t /\ u[k] = t[k - n]
      /\ \A i \in DOMAIN s, k \in DOMAIN u : k > i => (k \in DOMAIN s /\ u[k] = s[k]) \/ (k - n \in DOMAIN t /\ u[k] = t[k - n])
  BY <1>1, SMTT(60), Zenon
<1>4. ASSUME NEW x, Demoted(t, x) PROVE Demoted(u, x)
  <2>1. PICK i \in DOMAIN t : /\ MovesIt(t[i], x) /\ ~permits_normal_execution(t[i].event.to)
                              /\ \A k \in DOMAIN t : k > i => ~MovesIt(t[k], x)
    BY <1>4, Zenon DEF Demoted
  <2>2. \A k \in DOMAIN u : k > n + i => ~MovesIt(u[k], x)
    BY <2>1, <1>3, Zenon
  <2> QED BY <2>1, <2>2, <1>2, Zenon DEF Demoted
<1>5. ASSUME NEW x, Demoted(s, x), Untouched(t, x) PROVE Demoted(u, x)
  <2>1. PICK i \in DOMAIN s : /\ MovesIt(s[i], x) /\ ~permits_normal_execution(s[i].event.to)
                              /\ \A k \in DOMAIN s : k > i => ~MovesIt(s[k], x)
    BY <1>5, Zenon DEF Demoted
  <2>2. \A k \in DOMAIN u : k > i => ~MovesIt(u[k], x)
    BY <2>1, <1>3, <1>5, Zenon DEF Untouched
  <2> QED BY <2>1, <2>2, <1>2, Zenon DEF Demoted
<1>6. ASSUME NEW id, Saves(t, id) PROVE Saves(u, id)
  <2>1. PICK i \in DOMAIN t : /\ t[i].w = "index" /\ t[i].row.id = id
                              /\ \A k \in DOMAIN t : k > i => t[k].w # "index"
    BY <1>6, Zenon DEF Saves
  <2>2. \A k \in DOMAIN u : k > n + i => u[k].w # "index"
    BY <2>1, <1>3, Zenon
  <2> QED BY <2>1, <2>2, <1>2, Zenon DEF Saves
<1>7. ASSUME NEW id, Saves(s, id), Saveless(t) PROVE Saves(u, id)
  <2>1. PICK i \in DOMAIN s : /\ s[i].w = "index" /\ s[i].row.id = id
                              /\ \A k \in DOMAIN s : k > i => s[k].w # "index"
    BY <1>7, Zenon DEF Saves
  <2>2. \A k \in DOMAIN u : k > i => u[k].w # "index"
    BY <2>1, <1>3, <1>7, Zenon DEF Saveless
  <2> QED BY <2>1, <2>2, <1>2, Zenon DEF Saves
<1>8. /\ \A x : Untouched(s, x) /\ Untouched(t, x) => Untouched(u, x)
      /\ Saveless(s) /\ Saveless(t) => Saveless(u)
      /\ Revoking(s) /\ Revoking(t) => Revoking(u)
  <2>1. \A x : Untouched(s, x) /\ Untouched(t, x) => Untouched(u, x)
    BY <1>2, Zenon DEF Untouched
  <2>2. Saveless(s) /\ Saveless(t) => Saveless(u)
    BY <1>2 DEF Saveless
  <2>3. Revoking(s) /\ Revoking(t) => Revoking(u)
    <3> HIDE DEF Untouched, Demoted
    <3> QED BY <1>2 DEF Revoking
  <2> QED BY <2>1, <2>2, <2>3, Zenon
<1>9. /\ \A x : (\E j \in DOMAIN s : MovesIt(s[j], x)) => \E j \in DOMAIN u : MovesIt(u[j], x)
      /\ \A x : (\E j \in DOMAIN t : MovesIt(t[j], x)) => \E j \in DOMAIN u : MovesIt(u[j], x)
  BY <1>2, Zenon
<1> QED BY <1>4, <1>5, <1>6, <1>7, <1>8, <1>9, Zenon DEF u

\* What is left to do after the first write.
LEMMA TailDoes ==
  ASSUME NEW S, NEW s \in Seq(S), s # <<>>
  PROVE  /\ \A x : Demoted(s, x) => \/ Demoted(Tail(s), x)
                                    \/ /\ MovesIt(s[1], x) /\ ~permits_normal_execution(s[1].event.to)
                                       /\ Untouched(Tail(s), x)
         /\ \A x : Untouched(s, x) => ~MovesIt(s[1], x) /\ Untouched(Tail(s), x)
         /\ \A id : Saves(s, id) => \/ Saves(Tail(s), id)
                                    \/ s[1].w = "index" /\ s[1].row.id = id /\ Saveless(Tail(s))
         /\ Saveless(s) <=> s[1].w # "index" /\ Saveless(Tail(s))
         /\ Revoking(s) => Revoking(Tail(s))
         /\ \A K : Covered(s, K) => /\ s[1].w = "index" /\ s[1].row.policy_epoch # 0 => s[1].row.id \in K
                                    /\ Covered(Tail(s), K \cup {x \in Ids : MovesIt(s[1], x)})
<1> DEFINE t == Tail(s)
<1>1. /\ Len(s) \in Nat \ {0} /\ DOMAIN s = 1 .. Len(s) /\ 1 \in DOMAIN s /\ DOMAIN t = 1 .. (Len(s) - 1)
      /\ \A i \in 1 .. (Len(s) - 1) : t[i] = s[i + 1]
  BY TailLook
<1> HIDE DEF t
<1>2. /\ \A i \in DOMAIN t : i + 1 \in DOMAIN s /\ t[i] = s[i + 1]
      /\ \A i \in DOMAIN s : i = 1 \/ (i - 1 \in DOMAIN t /\ t[i - 1] = s[i])
      /\ \A i \in DOMAIN s, k \in DOMAIN t : k > i - 1 => k + 1 > i
      /\ \A k \in DOMAIN t : k + 1 > 1
      /\ \A i \in DOMAIN s : ~(i < 1)
      /\ \A j \in DOMAIN s, k \in DOMAIN t : j < k + 1 => j - 1 < k
  BY <1>1
<1>3. ASSUME NEW x, Demoted(s, x)
      PROVE  \/ Demoted(t, x)
             \/ MovesIt(s[1], x) /\ ~permits_normal_execution(s[1].event.to) /\ Untouched(t, x)
  <2>1. PICK i \in DOMAIN s : /\ MovesIt(s[i], x) /\ ~permits_normal_execution(s[i].event.to)
                              /\ \A k \in DOMAIN s : k > i => ~MovesIt(s[k], x)
    BY <1>3, Zenon DEF Demoted
  <2>2. CASE i = 1
    BY <2>1, <2>2, <1>2, Zenon DEF Untouched
  <2>3. CASE i # 1
    BY <2>1, <2>3, <1>2, ZenonT(60) DEF Demoted
  <2> QED BY <2>2, <2>3
<1>4. ASSUME NEW id, Saves(s, id)
      PROVE  Saves(t, id) \/ (s[1].w = "index" /\ s[1].row.id = id /\ Saveless(t))
  <2>1. PICK i \in DOMAIN s : /\ s[i].w = "index" /\ s[i].row.id = id
                              /\ \A k \in DOMAIN s : k > i => s[k].w # "index"
    BY <1>4, Zenon DEF Saves
  <2>2. CASE i = 1
    <3>1. ASSUME NEW k \in DOMAIN t PROVE t[k].w # "index"
      BY <2>1, <2>2, <1>2
    <3> QED BY <2>1, <2>2, <3>1, Zenon DEF Saveless
  <2>3. CASE i # 1
    <3>1. i - 1 \in DOMAIN t /\ t[i - 1] = s[i]
      BY <2>3, <1>2, Zenon
    <3>2. ASSUME NEW k \in DOMAIN t, k > i - 1 PROVE t[k].w # "index"
      <4>1. k + 1 \in DOMAIN s /\ t[k] = s[k + 1] /\ k + 1 > i
        BY <3>2, <1>2, Zenon
      <4>2. s[k + 1].w # "index"
        BY <2>1, <4>1, Zenon
      <4> QED BY <4>1, <4>2
    <3>3. t[i - 1].w = "index" /\ t[i - 1].row.id = id
      BY <2>1, <3>1
    <3> QED BY <3>1, <3>2, <3>3, Zenon DEF Saves
  <2> QED BY <2>2, <2>3
<1>5. /\ \A x : Untouched(s, x) => ~MovesIt(s[1], x) /\ Untouched(t, x)
      /\ Saveless(s) <=> s[1].w # "index" /\ Saveless(t)
      /\ Revoking(s) => Revoking(t)
  <2>1. \A x : Untouched(s, x) => ~MovesIt(s[1], x) /\ Untouched(t, x)
    BY <1>1, <1>2, Zenon DEF Untouched
  <2>2. Saveless(s) <=> s[1].w # "index" /\ Saveless(t)
    <3>1. ASSUME Saveless(s) PROVE s[1].w # "index" /\ Saveless(t)
      <4>1. ASSUME NEW k \in DOMAIN t PROVE t[k].w # "index"
        BY <3>1, <1>2 DEF Saveless
      <4> QED BY <3>1, <4>1, <1>1, Zenon DEF Saveless
    <3>2. ASSUME s[1].w # "index", Saveless(t) PROVE Saveless(s)
      <4>1. ASSUME NEW k \in DOMAIN s PROVE s[k].w # "index"
        <5>1. CASE k = 1
          BY <3>2, <5>1
        <5>2. CASE k # 1
          <6>1. k - 1 \in DOMAIN t /\ t[k - 1] = s[k]
            BY <5>2, <1>2, Zenon
          <6>2. t[k - 1].w # "index"
            BY <6>1, <3>2, Zenon DEF Saveless
          <6> QED BY <6>1, <6>2
        <5> QED BY <5>1, <5>2
      <4> QED BY <4>1, Zenon DEF Saveless
    <3> QED BY <3>1, <3>2, Zenon
  <2>3. Revoking(s) => Revoking(t)
    <3> SUFFICES ASSUME Revoking(s), NEW k \in DOMAIN t, t[k].w = "revoke", NEW m \in t[k].moves, NEW x \in Ids
                 PROVE  Untouched(m[2], x) \/ Demoted(m[2], x)
      BY Zenon DEF Revoking
    <3>1. k + 1 \in DOMAIN s /\ t[k] = s[k + 1]
      BY <1>2, Zenon
    <3>2. s[k + 1].w = "revoke" /\ m \in s[k + 1].moves
      BY <3>1
    <3> QED BY <3>1, <3>2, Zenon DEF Revoking
  <2> QED BY <2>1, <2>2, <2>3, Zenon
<1>6. ASSUME NEW K, Covered(s, K)
      PROVE  /\ s[1].w = "index" /\ s[1].row.policy_epoch # 0 => s[1].row.id \in K
             /\ Covered(t, K \cup {x \in Ids : MovesIt(s[1], x)})
  <2>1. s[1].w = "index" /\ s[1].row.policy_epoch # 0 => s[1].row.id \in K
    BY <1>1, <1>2, <1>6, Zenon DEF Covered
  <2>2. ASSUME NEW k \in DOMAIN t, t[k].w = "index", t[k].row.policy_epoch # 0
        PROVE  \/ t[k].row.id \in K \cup {x \in Ids : MovesIt(s[1], x)}
               \/ \E j \in DOMAIN t : j < k /\ t[k].row.id \in Ids /\ MovesIt(t[j], t[k].row.id)
    <3> DEFINE id == t[k].row.id
    <3>1. k + 1 \in DOMAIN s /\ t[k] = s[k + 1]
      BY <1>2, Zenon
    <3>2. id \in K \/ \E j \in DOMAIN s : j < k + 1 /\ id \in Ids /\ MovesIt(s[j], id)
      BY <2>2, <3>1, <1>6, Zenon DEF Covered
    <3>3. ASSUME NEW j \in DOMAIN s, j < k + 1, id \in Ids, MovesIt(s[j], id)
          PROVE  \/ id \in {x \in Ids : MovesIt(s[1], x)}
                 \/ \E i \in DOMAIN t : i < k /\ id \in Ids /\ MovesIt(t[i], id)
      BY <3>3, <1>2, Zenon
    <3> QED BY <3>2, <3>3, Zenon
  <2> QED BY <2>1, <2>2, Zenon DEF Covered
<1> QED BY <1>3, <1>4, <1>5, <1>6, Zenon DEF t

\* A plain write puts an object or logs a transition or a note.
LEMMA PlainWrite ==
  ASSUME NEW w \in Plain
  PROVE  /\ w \in Writes /\ Starts(w) /\ w.w \notin {"index", "revoke"}
         /\ w.w = "put" \/ (w.w = "log" /\ w.event \in Transitions \cup Notes)
<1>1. w \in Writes
  BY Zenon DEF Writes
<1>2. CASE w \in [w : {"put"}, object : Objects]
  <2>1. w.w = "put"
    BY <1>2
  <2> QED BY <1>1, <2>1, Zenon DEF Starts, Logs
<1>3. CASE w \in [w : {"log"}, event : Transitions \cup Notes, sync : BOOLEAN]
  <2>1. w.w = "log" /\ w.event \in Transitions \cup Notes
    BY <1>3
  <2>2. w.event.kind \in {"TRANSITION", "DISCOVER", "MISMATCH"}
    BY <2>1 DEF Transitions, Notes
  <2> QED BY <1>1, <2>1, <2>2 DEF Starts, Logs
<1> QED BY <1>2, <1>3, Zenon DEF Plain

\* Plain writes may be done at any time, and save and revoke nothing.
LEMMA PlainSequence ==
  ASSUME NEW s \in Seq(Plain)
  PROVE  /\ s \in Seq(Writes) /\ Linked(s) /\ (s # <<>> => Starts(s[1]))
         /\ \A K : Covered(s, K)
         /\ Saveless(s) /\ Revoking(s)
<1>1. Plain \subseteq Writes
  BY Zenon DEF Writes
<1>2. s \in Seq(Writes) /\ DOMAIN s = 1 .. Len(s) /\ Len(s) \in Nat /\ \A i \in DOMAIN s : s[i] \in Plain
  BY <1>1
<1>3. \A i \in DOMAIN s : Starts(s[i]) /\ s[i].w \notin {"index", "revoke"}
  BY <1>2, PlainWrite, Zenon
<1>4. s # <<>> => 1 \in DOMAIN s
  BY TailLook
<1>5. Linked(s)
  BY <1>3, StartsLinks, Zenon DEF Linked
<1> QED BY <1>2, <1>3, <1>4, <1>5, Zenon DEF Covered, Saveless, Revoking

-----------------------------------------------------------------------------
(***************************************************************************)
(* The ledger.                                                             *)
(***************************************************************************)

\* Nothing stands for no artifact, and no state for no state.
LEMMA Names ==
  /\ NoId \notin Ids /\ Base \notin Ids /\ Lost.id \notin Ids /\ NoId # Lost.id
  /\ NoState \notin AdmissionStates /\ NoId \notin Subjects
<1>1. Lost.id = "lost"
  BY DEF Lost
<1>2. NoId # "lost" /\ NoId # Base
  BY DEF NoId, Base
<1>3. NoState \notin AdmissionStates
  BY DEF NoState, AdmissionStates
<1>4. NoId \notin Ids /\ Base \notin Ids /\ Lost.id \notin Ids
  BY EngineAssumption
<1> QED BY <1>1, <1>2, <1>3, <1>4, Zenon DEF Subjects

\* A file is not the absence of one.
LEMMA FileSubjects ==
  ASSUME NEW f \in AllFiles
  PROVE  f[1] \in Subjects /\ f # NoFile /\ (f[1] \in Ids => f[2] \in Cells)
<1>1. CASE f \in Ids \X Grants
  <2>1. f[1] \in Ids /\ f[2] \in Grants
    BY <1>1
  <2>2. NoFile[1] = NoId
    BY DEF NoFile
  <2>3. f[2] \in Cells
    BY <2>1, EngineAssumption
  <2> QED BY <2>1, <2>2, <2>3, Names, Zenon DEF Subjects
<1>2. CASE f \in {Base} \X SUBSET Ids
  <2>1. f[1] = Base
    BY <1>2
  <2>2. NoFile[1] = NoId /\ NoId # Base
    BY DEF NoFile, NoId, Base
  <2> QED BY <2>1, <2>2, Names, Zenon DEF Subjects
<1> QED BY <1>1, <1>2, Zenon DEF AllFiles

\* One more event: what it changes and what it leaves alone.
LEMMA ReadEvent ==
  ASSUME NEW l \in Views, NEW e
  PROVE  /\ e \in Transitions =>
              /\ Read(l, e) \in Views
              /\ Read(l, e).state = [l.state EXCEPT ![e.id] = e.to] /\ Read(l, e).current = l.current
              /\ Read(l, e).policy_floor = l.policy_floor /\ Read(l, e).rev_floor = l.rev_floor
         /\ e \in Notes =>
              /\ Read(l, e) \in Views
              /\ Read(l, e).state = l.state /\ Read(l, e).current = l.current
              /\ Read(l, e).policy_floor = l.policy_floor /\ Read(l, e).rev_floor = l.rev_floor
         /\ e \in Overrides =>
              /\ Read(l, e) \in Views
              /\ Read(l, e).state = l.state /\ Read(l, e).current = [l.current EXCEPT ![e.file[1]] = e.file]
              /\ Read(l, e).policy_floor = l.policy_floor /\ Read(l, e).rev_floor = l.rev_floor
         /\ e \in Floors =>
              /\ Read(l, e) \in Views
              /\ Read(l, e).state = l.state /\ Read(l, e).current = l.current
              /\ Read(l, e).policy_floor \in {l.policy_floor, e.epoch}
              /\ Read(l, e).rev_floor \in {l.rev_floor, e.epoch}
              /\ e.kind = "POLICY_LOAD" => Read(l, e).rev_floor = l.rev_floor
              /\ e.kind = "REVOCATION" => Read(l, e).policy_floor = l.policy_floor
<1> DEFINE V == [state : [Ids -> Known], found : Seq(Ids), cited : SUBSET Objects,
                 current : [Subjects -> AllFiles \cup {NoFile}], policy_floor : Nat, rev_floor : Nat]
           Own(c) == \A x \in Subjects : c[x] # NoFile => c[x][1] = x
<1>1. l \in V /\ Own(l.current)
  BY Zenon DEF Views
<1>2. ASSUME NEW m \in V, Own(m.current) PROVE m \in Views
  BY <1>2, Zenon DEF Views
<1> HIDE DEF Own
<1>3. ASSUME e \in Transitions
      PROVE  /\ Read(l, e) \in V
             /\ Read(l, e).state = [l.state EXCEPT ![e.id] = e.to] /\ Read(l, e).current = l.current
             /\ Read(l, e).policy_floor = l.policy_floor /\ Read(l, e).rev_floor = l.rev_floor
  <2>1. e.kind = "TRANSITION" /\ e.id \in Ids /\ e.to \in Known /\ e.cites \in Objects
    BY <1>3 DEF Transitions, Known
  <2>2. Read(l, e) = [l EXCEPT !.state = [l.state EXCEPT ![e.id] = e.to], !.cited = l.cited \cup {e.cites}]
    BY <1>1, <2>1 DEF Read
  <2> DEFINE st == [l.state EXCEPT ![e.id] = e.to]
  <2>3. st \in [Ids -> Known] /\ l.cited \cup {e.cites} \in SUBSET Objects
    BY <1>1, <2>1
  <2> HIDE DEF st
  <2>4. Read(l, e) = [l EXCEPT !.state = st, !.cited = l.cited \cup {e.cites}]
    BY <2>2, Zenon DEF st
  <2>5. /\ Read(l, e) \in V /\ Read(l, e).state = st /\ Read(l, e).current = l.current
        /\ Read(l, e).policy_floor = l.policy_floor /\ Read(l, e).rev_floor = l.rev_floor
    BY <1>1, <2>3, <2>4
  <2> QED BY <2>5, Zenon DEF st
<1>4. ASSUME e \in Notes
      PROVE  /\ Read(l, e) \in V
             /\ Read(l, e).state = l.state /\ Read(l, e).current = l.current
             /\ Read(l, e).policy_floor = l.policy_floor /\ Read(l, e).rev_floor = l.rev_floor
  <2>1. e.kind \in {"DISCOVER", "MISMATCH"} /\ e.id \in Ids /\ e.cites \in Objects
    BY <1>4 DEF Notes
  <2>2. Append(l.found, e.id) \in Seq(Ids) /\ l.cited \cup {e.cites} \in SUBSET Objects
    BY <1>1, <2>1
  <2>3. CASE e.kind = "DISCOVER"
    <3>1. Read(l, e) = [l EXCEPT !.found = Append(l.found, e.id), !.cited = l.cited \cup {e.cites}]
      BY <1>1, <2>3 DEF Read
    <3> QED BY <1>1, <2>2, <3>1
  <2>4. CASE e.kind = "MISMATCH"
    <3>1. Read(l, e) = [l EXCEPT !.cited = l.cited \cup {e.cites}]
      BY <1>1, <2>4 DEF Read
    <3> QED BY <1>1, <2>2, <3>1
  <2> QED BY <2>1, <2>3, <2>4
<1>5. ASSUME e \in Overrides
      PROVE  /\ Read(l, e) \in V /\ Own(Read(l, e).current)
             /\ Read(l, e).state = l.state /\ Read(l, e).current = [l.current EXCEPT ![e.file[1]] = e.file]
             /\ Read(l, e).policy_floor = l.policy_floor /\ Read(l, e).rev_floor = l.rev_floor
  <2> DEFINE f == e.file
             c == [l.current EXCEPT ![f[1]] = f]
  <2>1. e.kind = "OVERRIDE" /\ f \in AllFiles
    BY <1>5 DEF Overrides
  <2>2. f[1] \in Subjects /\ f # NoFile
    BY <2>1, FileSubjects
  <2>3. Read(l, e) = [l EXCEPT !.current = c]
    BY <1>1, <2>1 DEF Read
  <2>4. c \in [Subjects -> AllFiles \cup {NoFile}]
    BY <1>1, <2>1, <2>2
  <2>5. Own(c)
    <3> SUFFICES ASSUME NEW x \in Subjects, c[x] # NoFile PROVE c[x][1] = x
      BY Zenon DEF Own
    <3>1. CASE x = f[1]
      BY <1>1, <2>2, <3>1
    <3>2. CASE x # f[1]
      <4>1. c[x] = l.current[x]
        BY <1>1, <3>2
      <4> QED BY <4>1, <1>1, Zenon DEF Own
    <3> QED BY <3>1, <3>2
  <2> HIDE DEF c
  <2>6. /\ Read(l, e) \in V /\ Read(l, e).state = l.state /\ Read(l, e).current = c
        /\ Read(l, e).policy_floor = l.policy_floor /\ Read(l, e).rev_floor = l.rev_floor
    BY <1>1, <2>3, <2>4, SMTT(30), Zenon
  <2> QED BY <2>5, <2>6, Zenon DEF c
<1>6. ASSUME e \in Floors
      PROVE  /\ Read(l, e) \in V
             /\ Read(l, e).state = l.state /\ Read(l, e).current = l.current
             /\ Read(l, e).policy_floor \in {l.policy_floor, e.epoch}
             /\ Read(l, e).rev_floor \in {l.rev_floor, e.epoch}
             /\ e.kind = "POLICY_LOAD" => Read(l, e).rev_floor = l.rev_floor
             /\ e.kind = "REVOCATION" => Read(l, e).policy_floor = l.policy_floor
  <2>1. e.kind \in {"POLICY_LOAD", "REVOCATION"} /\ e.epoch \in Nat
    BY <1>6 DEF Floors
  <2>2. CASE e.kind = "POLICY_LOAD"
    <3> DEFINE h == Higher(l.policy_floor, e.epoch)
    <3>1. Read(l, e) = [l EXCEPT !.policy_floor = h]
      BY <1>1, <2>2 DEF Read
    <3>2. h \in {l.policy_floor, e.epoch} /\ h \in Nat
      BY <1>1, <2>1 DEF Higher
    <3> HIDE DEF h
    <3> QED BY <1>1, <2>2, <3>1, <3>2
  <2>3. CASE e.kind = "REVOCATION"
    <3> DEFINE h == Higher(l.rev_floor, e.epoch)
    <3>1. Read(l, e) = [l EXCEPT !.rev_floor = h]
      BY <1>1, <2>3 DEF Read
    <3>2. h \in {l.rev_floor, e.epoch} /\ h \in Nat
      BY <1>1, <2>1 DEF Higher
    <3> HIDE DEF h
    <3> QED BY <1>1, <2>3, <3>1, <3>2
  <2> QED BY <2>1, <2>2, <2>3
<1> HIDE DEF V
<1> QED BY <1>1, <1>2, <1>3, <1>4, <1>5, <1>6, Zenon

\* What a ledger that is there leaves.
LEMMA LogLook ==
  ASSUME TypeOK
  PROVE  /\ Len(log) \in Nat \ {0} /\ DOMAIN log = 1 .. Len(log)
         /\ view \in Views /\ view \in Survivors /\ Survivors \subseteq Views
<1>1. log \in Seq(Views) /\ log # <<>>
  BY Zenon DEF TypeOK
<1>2. Len(log) \in Nat \ {0} /\ DOMAIN log = 1 .. Len(log)
  BY <1>1, TailLook
<1>3. Len(log) \in DOMAIN log /\ \A i \in DOMAIN log : log[i] \in Views
  BY <1>1, <1>2
<1> QED BY <1>2, <1>3, Zenon DEF view, Survivors

\* A ledger made durable, and one with an event that is not.
LEMMA LogGrows ==
  ASSUME TypeOK, NEW r \in Views
  PROVE  /\ log' = <<r>> => /\ log' \in Seq(Views) /\ log' # <<>> /\ Len(log') = 1
                            /\ view' = r /\ Survivors' = {r}
         /\ log' = Append(log, r) => /\ log' \in Seq(Views) /\ log' # <<>>
                                     /\ view' = r /\ Survivors' = Survivors \cup {r}
<1>1. log \in Seq(Views) /\ Len(log) \in Nat \ {0} /\ DOMAIN log = 1 .. Len(log)
  BY LogLook, Zenon DEF TypeOK
<1>2. ASSUME log' = <<r>>
      PROVE  log' \in Seq(Views) /\ log' # <<>> /\ Len(log') = 1 /\ view' = r /\ Survivors' = {r}
  <2>1. log' \in Seq(Views) /\ log' # <<>> /\ Len(log') = 1 /\ DOMAIN log' = {1} /\ log'[1] = r
    BY <1>2
  <2> QED BY <2>1, Zenon DEF view, Survivors
<1>3. ASSUME log' = Append(log, r)
      PROVE  log' \in Seq(Views) /\ log' # <<>> /\ view' = r /\ Survivors' = Survivors \cup {r}
  <2>1. /\ log' \in Seq(Views) /\ log' # <<>> /\ Len(log') = Len(log) + 1 /\ log'[Len(log) + 1] = r
        /\ DOMAIN log' = 1 .. (Len(log) + 1)
        /\ \A i \in 1 .. Len(log) : log'[i] = log[i]
    BY <1>1, <1>3
  <2>2. /\ Len(log) + 1 \in DOMAIN log' /\ \A i \in DOMAIN log : i \in DOMAIN log'
        /\ \A i \in DOMAIN log' : i \in DOMAIN log \/ i = Len(log) + 1
    BY <1>1, <2>1
  <2>3. view' = r
    BY <2>1, Zenon DEF view
  <2>4. Survivors' \subseteq Survivors \cup {r}
    BY <1>1, <2>1, <2>2, Zenon DEF Survivors
  <2>5. Survivors \cup {r} \subseteq Survivors'
    BY <1>1, <2>1, <2>2, Zenon DEF Survivors
  <2> QED BY <2>1, <2>3, <2>4, <2>5, Zenon
<1> QED BY <1>2, <1>3, Zenon

\* What each kind of write carries.
LEMMA WriteKinds ==
  ASSUME NEW w \in Writes
  PROVE  /\ w.w \in {"put", "log", "flush", "index", "file", "remove", "policy", "list", "revoke"}
         /\ w.w = "log" => w.event \in Transitions \/ w.event \in Notes \/ w.event \in Overrides \/ w.event \in Floors
         /\ w.w = "index" => w.row \in Rows
         /\ w.w \in {"file", "remove"} => w.file \in AllFiles
         /\ w.w = "policy" => w.epoch \in Nat \ {0}
         /\ w.w = "list" => w.list \in Lists
         /\ w.w = "revoke" => w.moves \subseteq Ids \X Seq(Plain)
<1> DEFINE Goal == /\ w.w \in {"put", "log", "flush", "index", "file", "remove", "policy", "list", "revoke"}
                   /\ w.w = "log" => w.event \in Transitions \/ w.event \in Notes \/ w.event \in Overrides \/ w.event \in Floors
                   /\ w.w = "index" => w.row \in Rows
                   /\ w.w \in {"file", "remove"} => w.file \in AllFiles
                   /\ w.w = "policy" => w.epoch \in Nat \ {0}
                   /\ w.w = "list" => w.list \in Lists
                   /\ w.w = "revoke" => w.moves \subseteq Ids \X Seq(Plain)
<1>1. CASE w \in Plain
  BY <1>1, PlainWrite
<1>2. CASE w \in [w : {"log"}, event : Overrides \cup Floors, sync : {TRUE}]
  BY <1>2
<1>3. CASE w \in [w : {"flush"}]
  BY <1>3
<1>4. CASE w \in [w : {"index"}, row : Rows]
  BY <1>4
<1>5. CASE w \in [w : {"file", "remove"}, file : AllFiles]
  BY <1>5
<1>6. CASE w \in [w : {"policy"}, epoch : Nat \ {0}]
  BY <1>6
<1>7. CASE w \in [w : {"list"}, list : Lists]
  BY <1>7
<1>8. CASE w \in [w : {"revoke"}, moves : SUBSET (Ids \X Seq(Plain))]
  BY <1>8
<1> HIDE DEF Goal
<1> QED BY <1>1, <1>2, <1>3, <1>4, <1>5, <1>6, <1>7, <1>8, Zenon DEF Writes, Goal

\* The kind of an event.
LEMMA EventKinds ==
  ASSUME NEW e
  PROVE  /\ e \in Transitions => e.kind = "TRANSITION" /\ e.id \in Ids /\ e.to \in AdmissionStates
         /\ e \in Notes => e.kind \in {"DISCOVER", "MISMATCH"}
         /\ e \in Overrides => e.kind = "OVERRIDE" /\ e.file \in AllFiles
         /\ e \in Floors => e.kind \in {"POLICY_LOAD", "REVOCATION"} /\ e.epoch \in Nat
BY DEF Transitions, Notes, Overrides, Floors

\* The first of the writes is done and only the ones behind it are left.
LEMMA Advances ==
  ASSUME EngineInv, todo # <<>>, todo' = Tail(todo),
         content' \in Ids \cup {NoId}, stamp' \in Nat, log' \in Seq(Views), log' # <<>>,
         policy' \in Nat \ {0}, list' \in Lists,
         index' = IF todo[1].w = "index" THEN todo[1].row ELSE index,
         \A x \in Ids : view'.state[x] = IF MovesIt(todo[1], x) THEN todo[1].event.to ELSE view.state[x],
         Survivors' \subseteq Survivors \cup {view'}, todo[1].w = "index" => log' = log,
         crashes' = crashes, losses' = losses,
         AuthorityKept', todo' # <<>> => Ready(todo[1])'
  PROVE  EngineInv'
<1> DEFINE w == todo[1]
<1>1. todo \in Seq(Writes) /\ w \in Writes /\ todo' \in Seq(Writes)
  BY TailLook DEF EngineInv, TypeOK
<1>2. TypeOK'
  <2>1. index' \in Rows \cup {Lost}
    BY <1>1, WriteKinds, Zenon DEF EngineInv, TypeOK
  <2> QED BY <1>1, <2>1, Zenon DEF EngineInv, TypeOK
<1>3. Ordered'
  BY <1>1, LinkedTail, Zenon DEF EngineInv, Ordered
<1>4. ASSUME NEW x \in Ids, MovesIt(w, x) PROVE view'.state[x] = w.event.to /\ w.event.to # NoState
  <2>1. w.w = "log" /\ w.event.kind = "TRANSITION"
    BY <1>4, Zenon DEF MovesIt, Logs
  <2>2. w.event \in Transitions
    BY <1>1, <2>1, WriteKinds, EventKinds, SMTT(30), Zenon
  <2> QED BY <1>4, <2>2, EventKinds, Names, ZenonT(60)
<1>5. Recorded \cup {x \in Ids : MovesIt(w, x)} = Recorded'
  <2>1. ASSUME NEW x \in Ids PROVE view'.state[x] # NoState <=> view.state[x] # NoState \/ MovesIt(w, x)
    BY <1>4, Zenon
  <2> QED BY <2>1, Zenon DEF Recorded
<1>6. RowsSound'
  <2>1. Covered(todo', Recorded')
    BY <1>1, <1>5, TailDoes, Zenon DEF EngineInv, RowsSound
  <2>2. ASSUME index'.policy_epoch # 0, w.w # "index"
        PROVE  index'.id \in Ids /\ \A l \in Survivors' : l.state[index'.id] # NoState
    <3>1. index' = index /\ index.policy_epoch # 0
      BY <2>2
    <3>2. index.id \in Ids /\ \A l \in Survivors : l.state[index.id] # NoState
      BY <3>1, Zenon DEF EngineInv, RowsSound
    <3>3. view.state[index.id] # NoState
      BY <3>2, LogLook, Zenon DEF EngineInv
    <3>4. view'.state[index.id] # NoState
      BY <3>2, <3>3, <1>4, Zenon
    <3> QED BY <3>1, <3>2, <3>4, Zenon
  <2>3. ASSUME index'.policy_epoch # 0, w.w = "index"
        PROVE  index'.id \in Ids /\ \A l \in Survivors' : l.state[index'.id] # NoState
    <3>1. index' = w.row /\ log' = log
      BY <2>3, Zenon
    <3>2. w.row.id \in Recorded
      BY <1>1, <2>3, <3>1, TailDoes, Zenon DEF EngineInv, RowsSound
    <3>3. Len(log) = 1 /\ DOMAIN log = 1 .. Len(log)
      BY <2>3, LogLook, Zenon DEF EngineInv, Ordered, Ready
    <3>4. Survivors' = {view}
      <4>1. DOMAIN log = {1}
        BY <3>3
      <4>2. Survivors' = Survivors
        BY <3>1, Zenon DEF Survivors
      <4>3. Survivors = {log[1]} /\ view = log[1]
        BY <3>3, <4>1 DEF Survivors, view
      <4> QED BY <4>2, <4>3, Zenon
    <3> QED BY <3>1, <3>2, <3>4, Zenon DEF Recorded
  <2> QED BY <2>1, <2>2, <2>3, Zenon DEF RowsSound
<1>7. Revoking(todo')
  BY <1>1, TailDoes, Zenon DEF EngineInv
<1>8. TrustSound'
  <2> SUFFICES ASSUME crashes = 0, losses = 0
               PROVE  /\ index' = Lost /\ Saveless(todo') =>
                           Recorded' = {} /\ \A j \in DOMAIN todo' : todo'[j].w # "revoke" /\ ~Logs(todo'[j], "TRANSITION")
                      /\ \E id \in Ids \cup {NoId, Lost.id} :
                           EndsWith(todo, id)' /\ \A x \in Ids \ {id} : Distrusted(todo, x)'
    BY Zenon DEF TrustSound
  <2>1. /\ index = Lost /\ Saveless(todo) =>
             Recorded = {} /\ \A j \in DOMAIN todo : todo[j].w # "revoke" /\ ~Logs(todo[j], "TRANSITION")
        /\ \E id \in Ids \cup {NoId, Lost.id} : EndsWith(todo, id) /\ \A x \in Ids \ {id} : Distrusted(todo, x)
    BY Zenon DEF EngineInv, TrustSound
  <2>2. ASSUME index' = Lost, Saveless(todo')
        PROVE  Recorded' = {} /\ \A j \in DOMAIN todo' : todo'[j].w # "revoke" /\ ~Logs(todo'[j], "TRANSITION")
    <3>1. w.w # "index"
      <4>1. ASSUME w.w = "index" PROVE FALSE
        <5>1. w.row \in Rows /\ w.row = Lost
          BY <1>1, <2>2, <4>1, WriteKinds
        <5>2. w.row.id \in Ids \cup {NoId}
          BY <5>1 DEF Rows
        <5> QED BY <5>1, <5>2, Names, Zenon
      <4> QED BY <4>1, Zenon
    <3>2. index = Lost /\ Saveless(todo)
      BY <1>1, <2>2, <3>1, TailDoes, Zenon
    <3>3. /\ DOMAIN todo = 1 .. Len(todo) /\ Len(todo) \in Nat /\ 1 \in DOMAIN todo
          /\ DOMAIN todo' = 1 .. (Len(todo) - 1)
          /\ \A i \in 1 .. (Len(todo) - 1) : todo'[i] = todo[i + 1]
      BY <1>1, TailLook
    <3>4. \A i \in DOMAIN todo' : i + 1 \in DOMAIN todo /\ todo'[i] = todo[i + 1]
      BY <3>3
    <3>5. \A j \in DOMAIN todo' : todo'[j].w # "revoke" /\ ~Logs(todo'[j], "TRANSITION")
      BY <2>1, <3>2, <3>4
    <3>6. \A x : ~MovesIt(w, x)
      BY <2>1, <3>2, <3>3, Zenon DEF MovesIt
    <3> QED BY <1>5, <2>1, <3>2, <3>5, <3>6, Zenon
  <2>3. PICK id \in Ids \cup {NoId, Lost.id} : EndsWith(todo, id) /\ \A x \in Ids \ {id} : Distrusted(todo, x)
    BY <2>1, Zenon
  <2>4. EndsWith(todo, id)'
    <3>1. CASE Saves(todo', id)
      BY <3>1, Zenon DEF EndsWith
    <3>2. CASE w.w = "index" /\ w.row.id = id /\ Saveless(todo')
      <4>1. index' = w.row
        BY <3>2, Zenon
      <4> QED BY <3>2, <4>1, Zenon DEF EndsWith
    <3>3. CASE Saveless(todo) /\ index.id = id
      <4>1. w.w # "index" /\ Saveless(todo')
        BY <1>1, <3>3, TailDoes, Zenon
      <4>2. index' = index
        BY <4>1, Zenon
      <4> QED BY <3>3, <4>1, <4>2, Zenon DEF EndsWith
    <3> QED BY <1>1, <2>3, <3>1, <3>2, <3>3, TailDoes, Zenon DEF EndsWith
  <2>5. ASSUME NEW x \in Ids \ {id} PROVE Distrusted(todo, x)'
    <3>1. CASE Demoted(todo', x)
      BY <3>1, Zenon DEF Distrusted
    <3>2. CASE MovesIt(w, x) /\ ~permits_normal_execution(w.event.to) /\ Untouched(todo', x)
      <4>1. view'.state[x] = w.event.to
        BY <3>2, Zenon
      <4> QED BY <3>2, <4>1, Zenon DEF Distrusted
    <3>3. CASE Untouched(todo, x) /\ ~permits_normal_execution(view.state[x])
      <4>1. ~MovesIt(w, x) /\ Untouched(todo', x)
        BY <1>1, <3>3, TailDoes, Zenon
      <4>2. view'.state[x] = view.state[x]
        BY <4>1, Zenon
      <4> QED BY <3>3, <4>1, <4>2, Zenon DEF Distrusted
    <3> QED BY <1>1, <2>3, <3>1, <3>2, <3>3, TailDoes, Zenon DEF Distrusted
  <2> QED BY <2>2, <2>3, <2>4, <2>5, Zenon
<1> QED BY <1>2, <1>3, <1>6, <1>7, <1>8, Zenon DEF EngineInv

\* What may follow a write, apart from what may follow anything.
LEMMA LinkedNext ==
  ASSUME NEW a, NEW b, Links(a, b)
  PROVE  \/ Starts(b)
         \/ a.w = "log" /\ b.w = "remove" /\ a = Log(Override(b.file), TRUE)
         \/ a.w = "file" /\ Logs(b, "OVERRIDE") /\ a.file = b.event.file
         \/ a.w = "policy" /\ Logs(b, "POLICY_LOAD") /\ a.epoch = b.event.epoch
         \/ a.w = "list" /\ Logs(b, "REVOCATION") /\ a.list.epoch = b.event.epoch
         \/ a.w = "flush" /\ b.w = "index"
<1>1. /\ \A f : Log(Override(f), TRUE).w = "log"
      /\ \A f : WriteFile(f).w = "file" /\ WriteFile(f).file = f
      /\ \A e : WritePolicy(e).w = "policy" /\ WritePolicy(e).epoch = e
      /\ Flush.w = "flush"
  BY DEF Log, WriteFile, WritePolicy, Flush
<1>2. b.w \notin {"policy", "list"}
  BY Zenon DEF Links
<1>3. b.w = "remove" => a = Log(Override(b.file), TRUE) /\ a.w = "log"
  BY <1>1, ZenonT(60) DEF Links
<1>4. Logs(b, "OVERRIDE") => a.w = "file" /\ a.file = b.event.file
  BY <1>1, ZenonT(60) DEF Links
<1>5. Logs(b, "POLICY_LOAD") => a.w = "policy" /\ a.epoch = b.event.epoch
  BY <1>1, ZenonT(60) DEF Links
<1>6. Logs(b, "REVOCATION") => a.w = "list" /\ a.list.epoch = b.event.epoch
  BY Zenon DEF Links
<1>7. b.w = "index" => a.w = "flush"
  BY <1>1, Zenon DEF Links
<1> QED BY <1>2, <1>3, <1>4, <1>5, <1>6, <1>7, Zenon DEF Starts

\* The write before it has prepared the next one.
LEMMA StepReady ==
  ASSUME EngineInv, todo # <<>>, todo' = Tail(todo), todo' # <<>>,
         \A f \in AllFiles : todo[1] = Log(Override(f), TRUE) => \A l \in Survivors' : l.current[f[1]] = f,
         todo[1].w = "file" => todo[1].file \in files',
         todo[1].w = "policy" => policy' = todo[1].epoch,
         todo[1].w = "list" => list' = todo[1].list,
         todo[1].w = "flush" => Len(log') = 1,
         policy' \in Nat, list' \in Lists
  PROVE  Ready(todo[1])'
<1> DEFINE a == todo[1]
           b == todo'[1]
<1>1. todo \in Seq(Writes) /\ todo' \in Seq(Writes) /\ b \in Writes
  BY TailLook DEF EngineInv, TypeOK
<1>2. Links(a, b)
  <2>1. 2 \in DOMAIN todo /\ b = todo[2] /\ 2 > 1 /\ 2 - 1 = 1
    BY <1>1, TailLook
  <2> QED BY <2>1 DEF EngineInv, Ordered, Linked
<1>3. /\ \A k : Logs(b, k) => b.w = "log" /\ b.event.kind = k
      /\ "OVERRIDE" # "POLICY_LOAD" /\ "OVERRIDE" # "REVOCATION" /\ "POLICY_LOAD" # "REVOCATION"
  BY Zenon DEF Logs
<1>4. CASE Starts(b)
  BY <1>4, Zenon DEF Starts, Ready, Logs
<1>5. CASE b.w = "remove" /\ a = Log(Override(b.file), TRUE)
  <2>1. b.file \in AllFiles
    BY <1>1, <1>5, WriteKinds
  <2> QED BY <1>3, <1>5, <2>1, Zenon DEF Ready, Logs
<1>6. CASE a.w = "file" /\ Logs(b, "OVERRIDE") /\ a.file = b.event.file
  <2>1. a.file \in files'
    BY <1>6, Zenon
  <2> QED BY <1>3, <1>6, <2>1, Zenon DEF Ready, Logs
<1>7. CASE a.w = "policy" /\ Logs(b, "POLICY_LOAD") /\ a.epoch = b.event.epoch
  <2>1. policy' >= b.event.epoch
    BY <1>7
  <2> QED BY <1>3, <1>7, <2>1, Zenon DEF Ready, Logs
<1>8. CASE a.w = "list" /\ Logs(b, "REVOCATION") /\ a.list.epoch = b.event.epoch
  <2>1. list'.epoch >= b.event.epoch
    BY <1>8 DEF Lists
  <2> QED BY <1>3, <1>8, <2>1, Zenon DEF Ready, Logs
<1>9. CASE a.w = "flush" /\ b.w = "index"
  BY <1>3, <1>9, Zenon DEF Ready, Logs
<1> QED BY <1>2, <1>4, <1>5, <1>6, <1>7, <1>8, <1>9, LinkedNext, ZenonT(60)

\* The authority of l is in force.
InForce(l, there, p, e) ==
  /\ \A x \in Subjects : l.current[x] # NoFile => l.current[x] \in there
  /\ p >= l.policy_floor /\ e >= l.rev_floor

\* AuthorityKept in those words.
LEMMA Authority ==
  /\ AuthorityKept <=> \A l \in Survivors : InForce(l, files, policy, list.epoch)
  /\ AuthorityKept' <=> \A l \in Survivors' : InForce(l, files', policy', list'.epoch)
BY Zenon DEF AuthorityKept, InForce

\* A write of the operation under way keeps the invariant: an event.
LEMMA LogKeeps ==
  ASSUME EngineInv, todo # <<>>, todo' = Tail(todo), todo[1].w = "log", append(todo[1]),
         UNCHANGED <<content, stamp, files, policy, list, index, crashes, losses>>
  PROVE  EngineInv'
<1> DEFINE w == todo[1]
           e == w.event
           r == Read(view, e)
<1>1. todo \in Seq(Writes) /\ w \in Writes
  BY TailLook DEF EngineInv, TypeOK
<1>2. e \in Transitions \/ e \in Notes \/ e \in Overrides \/ e \in Floors
  BY <1>1, WriteKinds, Zenon
<1>3. /\ TypeOK /\ view \in Views /\ view \in Survivors
      /\ policy \in Nat \ {0} /\ list \in Lists /\ content \in Ids \cup {NoId} /\ stamp \in Nat
  BY LogLook, Zenon DEF EngineInv, TypeOK
<1>4. r \in Views
  BY <1>2, <1>3, ReadEvent, Zenon
<1>5. /\ log' \in Seq(Views) /\ log' # <<>> /\ view' = r /\ Survivors' \subseteq Survivors \cup {r}
      /\ w.sync = TRUE => Survivors' = {r}
  <2> HIDE DEF r
  <2>1. \/ w.sync = TRUE /\ log' = <<r>>
        \/ w.sync # TRUE /\ log' = Append(log, r)
        \/ w.sync = FALSE /\ log' = Append(log, r)
    <3> USE DEF r
    <3>1. CASE w.sync
      BY <3>1, Zenon DEF append
    <3>2. CASE ~w.sync
      BY <3>2, Zenon DEF append
    <3> QED BY <3>1, <3>2, Zenon
  <2> QED BY <1>3, <1>4, <2>1, LogGrows, Zenon
<1>6. \A x \in Ids : view'.state[x] = IF MovesIt(w, x) THEN e.to ELSE view.state[x]
  <2>1. CASE e \in Transitions
    <3>1. r.state = [view.state EXCEPT ![e.id] = e.to] /\ e.kind = "TRANSITION" /\ e.id \in Ids
      BY <1>3, <2>1, ReadEvent, EventKinds, Zenon
    <3>2. view.state \in [Ids -> Known]
      BY <1>3 DEF Views
    <3>3. \A x \in Ids : r.state[x] = IF e.id = x THEN e.to ELSE view.state[x]
      BY <3>1, <3>2
    <3>4. \A x : MovesIt(w, x) <=> e.id = x
      BY <3>1, Zenon DEF MovesIt, Logs
    <3> QED BY <1>5, <3>3, <3>4, Zenon
  <2>2. CASE e \in Notes \/ e \in Overrides \/ e \in Floors
    <3>1. r.state = view.state
      BY <1>3, <2>2, ReadEvent, Zenon
    <3>2. e.kind # "TRANSITION"
      BY <2>2, EventKinds
    <3> QED BY <1>5, <3>1, <3>2, Zenon DEF MovesIt, Logs
  <2> QED BY <1>2, <2>1, <2>2, Zenon
<1>7. InForce(view, files, policy, list.epoch)
  BY <1>3, Authority, Zenon DEF EngineInv
<1>8. InForce(r, files, policy, list.epoch)
  <2>1. CASE e \in Transitions \/ e \in Notes
    <3>1. r.current = view.current /\ r.policy_floor = view.policy_floor /\ r.rev_floor = view.rev_floor
      BY <1>3, <2>1, ReadEvent, Zenon
    <3> QED BY <1>7, <3>1, Zenon DEF InForce
  <2>2. CASE e \in Overrides
    <3>1. /\ r.current = [view.current EXCEPT ![e.file[1]] = e.file]
          /\ r.policy_floor = view.policy_floor /\ r.rev_floor = view.rev_floor
      BY <1>3, <2>2, ReadEvent, ZenonT(60)
    <3>2. e.file \in files
      BY <2>2, EventKinds, Zenon DEF EngineInv, Ordered, Ready, Logs
    <3>3. view.current \in [Subjects -> AllFiles \cup {NoFile}]
      BY <1>3 DEF Views
    <3>4. \A x \in Subjects : r.current[x] = e.file \/ r.current[x] = view.current[x]
      BY <3>1, <3>3
    <3> QED BY <1>7, <3>1, <3>2, <3>4, Zenon DEF InForce
  <2>3. CASE e \in Floors
    <3>1. /\ r.current = view.current
          /\ r.policy_floor \in {view.policy_floor, e.epoch} /\ r.rev_floor \in {view.rev_floor, e.epoch}
          /\ e.kind = "POLICY_LOAD" => r.rev_floor = view.rev_floor
          /\ e.kind = "REVOCATION" => r.policy_floor = view.policy_floor
      BY <1>3, <2>3, ReadEvent, Zenon
    <3>2. e.kind \in {"POLICY_LOAD", "REVOCATION"}
      BY <2>3, EventKinds, Zenon
    <3>3. /\ e.kind = "POLICY_LOAD" => policy >= e.epoch
          /\ e.kind = "REVOCATION" => list.epoch >= e.epoch
      BY Zenon DEF EngineInv, Ordered, Ready, Logs
    <3>4. policy >= r.policy_floor /\ list.epoch >= r.rev_floor
      <4> HIDE DEF r
      <4> QED BY <1>7, <3>1, <3>2, <3>3 DEF InForce
    <3> QED BY <1>7, <3>1, <3>4, Zenon DEF InForce
  <2> QED BY <1>2, <2>1, <2>2, <2>3, Zenon
<1>9. AuthorityKept'
  BY <1>5, <1>8, Authority, Zenon DEF EngineInv
<1>10. ASSUME todo' # <<>> PROVE Ready(todo[1])'
  <2>1. ASSUME NEW f \in AllFiles, w = Log(Override(f), TRUE) PROVE \A l \in Survivors' : l.current[f[1]] = f
    <3>1. w.sync = TRUE /\ e = Override(f) /\ e.kind = "OVERRIDE" /\ e.file = f
      BY <2>1 DEF Log, Override
    <3>2. e \in Overrides
      BY <1>2, <3>1, EventKinds
    <3>3. r.current = [view.current EXCEPT ![f[1]] = f]
      BY <1>3, <3>1, <3>2, ReadEvent, Zenon
    <3>4. view.current \in [Subjects -> AllFiles \cup {NoFile}] /\ f[1] \in Subjects
      BY <1>3, FileSubjects DEF Views
    <3>5. r.current[f[1]] = f
      BY <3>3, <3>4
    <3> QED BY <1>5, <3>1, <3>5, Zenon
  <2>2. w.w \notin {"file", "policy", "list", "flush"}
    OBVIOUS
  <2> QED BY <1>3, <1>10, <2>1, <2>2, StepReady, Zenon
<1>11. index' = IF w.w = "index" THEN w.row ELSE index
  OBVIOUS
<1> QED BY <1>3, <1>5, <1>6, <1>9, <1>10, <1>11, Advances, Zenon

\* Anything but an event or the next artifact of a revocation.
LEMMA WriteKeeps ==
  ASSUME EngineInv, Step, todo[1].w # "log", todo[1].w # "revoke"
  PROVE  EngineInv'
<1> DEFINE w == todo[1]
<1>1. /\ todo # <<>> /\ todo' = Tail(todo) /\ UNCHANGED <<content, stamp, crashes, losses>>
      /\ \/ w.w = "put" /\ UNCHANGED <<log, files, policy, list, index>>
         \/ w.w = "flush" /\ log' = <<view>> /\ UNCHANGED <<files, policy, list, index>>
         \/ w.w = "index" /\ index' = w.row /\ UNCHANGED <<log, files, policy, list>>
         \/ w.w = "file" /\ files' = files \cup {w.file} /\ UNCHANGED <<log, policy, list, index>>
         \/ w.w = "remove" /\ remove_superseded(w.file) /\ UNCHANGED <<log, policy, list, index>>
         \/ w.w = "policy" /\ policy' = w.epoch /\ UNCHANGED <<log, files, list, index>>
         \/ w.w = "list" /\ list' = w.list /\ UNCHANGED <<log, files, policy, index>>
  <2>1. Head(todo) = w
    BY DEF EngineInv, TypeOK
  <2> QED BY <2>1, Zenon DEF Step, Idle, world, store, signed, Sync
<1>2. todo \in Seq(Writes) /\ w \in Writes
  BY <1>1, TailLook DEF EngineInv, TypeOK
<1>3. /\ TypeOK /\ view \in Views /\ view \in Survivors /\ Survivors \subseteq Views
      /\ log \in Seq(Views) /\ log # <<>> /\ policy \in Nat \ {0} /\ list \in Lists
      /\ content \in Ids \cup {NoId} /\ stamp \in Nat
  BY LogLook, Zenon DEF EngineInv, TypeOK
<1>4. /\ w.w = "policy" => w.epoch \in Nat \ {0} /\ w.epoch >= policy
      /\ w.w = "list" => w.list \in Lists /\ w.list.epoch >= list.epoch
      /\ w.w = "remove" => w.file \in AllFiles /\ \A l \in Survivors : l.current[w.file[1]] = w.file
  BY <1>1, <1>2, WriteKinds, Zenon DEF EngineInv, Ordered, Ready
<1>5. /\ policy' \in Nat \ {0} /\ list' \in Lists /\ log' \in Seq(Views) /\ log' # <<>>
      /\ view' = view /\ Survivors' \subseteq Survivors /\ (w.w = "flush" => Len(log') = 1)
  <2>1. policy' \in Nat \ {0} /\ list' \in Lists
    BY <1>1, <1>3, <1>4, Zenon
  <2>2. CASE w.w = "flush"
    <3>1. log' = <<view>>
      BY <1>1, <2>2
    <3> QED BY <1>3, <2>1, <3>1, LogGrows, Zenon
  <2>3. CASE w.w # "flush"
    <3>1. log' = log
      BY <1>1, <2>3, Zenon
    <3> QED BY <1>3, <2>1, <2>3, <3>1, Zenon DEF view, Survivors
  <2> QED BY <2>2, <2>3, Zenon
<1>6. ASSUME NEW l \in Survivors PROVE InForce(l, files', policy', list'.epoch)
  <2>1. InForce(l, files, policy, list.epoch) /\ l \in Views
    BY <1>3, Authority, Zenon DEF EngineInv
  <2>2. policy' >= l.policy_floor
    <3>1. l.policy_floor \in Nat
      BY <2>1 DEF Views
    <3>2. policy' = policy \/ policy' >= policy
      BY <1>1, <1>4, Zenon
    <3> QED BY <1>3, <1>5, <2>1, <3>1, <3>2 DEF InForce
  <2>3. list'.epoch >= l.rev_floor
    <3>1. l.rev_floor \in Nat /\ list.epoch \in Nat /\ list'.epoch \in Nat
      BY <1>3, <1>5, <2>1 DEF Views, Lists
    <3>2. list'.epoch = list.epoch \/ list'.epoch >= list.epoch
      BY <1>1, <1>4, Zenon
    <3> QED BY <2>1, <3>1, <3>2 DEF InForce
  <2>4. ASSUME NEW x \in Subjects, l.current[x] # NoFile PROVE l.current[x] \in files'
    <3>1. l.current[x] \in files /\ l.current[x][1] = x
      BY <2>1, <2>4, Zenon DEF InForce, Views
    <3>2. CASE w.w = "remove"
      <4> DEFINE f == w.file
      <4>1. files' = files \ ({g \in files : g[1] = f[1]} \ {f})
        BY <1>1, <3>2, Zenon DEF remove_superseded
      <4>2. l.current[f[1]] = f
        BY <1>4, <3>2, Zenon
      <4>3. CASE x = f[1]
        BY <3>1, <4>1, <4>2, <4>3, Zenon
      <4>4. CASE x # f[1]
        BY <3>1, <4>1, <4>4, Zenon
      <4> QED BY <4>3, <4>4, Zenon
    <3>3. CASE w.w # "remove"
      <4>1. files \subseteq files'
        BY <1>1, <3>3, Zenon
      <4> QED BY <3>1, <4>1, Zenon
    <3> QED BY <3>2, <3>3, Zenon
  <2> QED BY <2>2, <2>3, <2>4, Zenon DEF InForce
<1>7. AuthorityKept'
  BY <1>5, <1>6, Authority, Zenon
<1>8. ASSUME todo' # <<>> PROVE Ready(todo[1])'
  <2>1. \A f \in AllFiles : w # Log(Override(f), TRUE)
    <3>1. \A f : Log(Override(f), TRUE).w = "log"
      BY DEF Log
    <3> QED BY <3>1, Zenon
  <2>2. /\ w.w = "file" => w.file \in files'
        /\ w.w = "policy" => policy' = w.epoch
        /\ w.w = "list" => list' = w.list
    BY <1>1
  <2>3. policy' \in Nat
    BY <1>5
  <2> QED BY <1>1, <1>5, <1>8, <2>1, <2>2, <2>3, StepReady, Zenon
<1>9. index' = (IF w.w = "index" THEN w.row ELSE index) /\ (w.w = "index" => log' = log)
  BY <1>1
<1>10. \A x \in Ids : view'.state[x] = IF MovesIt(w, x) THEN w.event.to ELSE view.state[x]
  BY <1>5, Zenon DEF MovesIt, Logs
<1> QED BY <1>1, <1>3, <1>5, <1>7, <1>8, <1>9, <1>10, Advances, Zenon

\* What revoke_report has left to move.
LEMMA RevokeWrites ==
  ASSUME NEW M \in SUBSET (Ids \X Seq(Plain)),
         \A m \in M : \A x \in Ids : Untouched(m[2], x) \/ Demoted(m[2], x)
  PROVE  /\ Revoke(M) \in Seq(Writes) /\ Linked(Revoke(M)) /\ (Revoke(M) # <<>> => Starts(Revoke(M)[1]))
         /\ \A K : Covered(Revoke(M), K)
         /\ Saveless(Revoke(M)) /\ Revoking(Revoke(M)) /\ \A x : Untouched(Revoke(M), x)
<1> DEFINE w == [w |-> "revoke", moves |-> M]
           s == Revoke(M)
<1>1. w \in Writes /\ w.w = "revoke" /\ w.moves = M
  <2>1. w \in [w : {"revoke"}, moves : SUBSET (Ids \X Seq(Plain))] /\ w.w = "revoke" /\ w.moves = M
    OBVIOUS
  <2> QED BY <2>1, Zenon DEF Writes
<1>2. s = <<>> \/ s = <<w>>
  BY Zenon DEF Revoke
<1> HIDE DEF w, s
<1>3. s \in Seq(Writes) /\ \A j \in DOMAIN s : j = 1 /\ s[j] = w
  <2>1. CASE s = <<>>
    BY <2>1
  <2>2. CASE s = <<w>>
    BY <1>1, <2>2
  <2> QED BY <1>2, <2>1, <2>2, Zenon
<1>4. s # <<>> => s[1] = w
  BY <1>2
<1>5. Starts(w)
  BY <1>1, Zenon DEF Starts, Logs
<1>6. Linked(s)
  BY <1>3 DEF Linked
<1>7. Saveless(s) /\ \A x : Untouched(s, x)
  BY <1>1, <1>3, Zenon DEF Saveless, Untouched, MovesIt, Logs
<1>8. \A K : Covered(s, K)
  BY <1>7, Zenon DEF Saveless, Covered
<1>9. Revoking(s)
  BY <1>1, <1>3, Zenon DEF Revoking
<1> QED BY <1>3, <1>4, <1>5, <1>6, <1>7, <1>8, <1>9, Zenon DEF s

\* The next artifact of a revocation.
LEMMA RevokeKeeps ==
  ASSUME EngineInv, todo # <<>>, todo[1].w = "revoke", revoke_next(todo[1]),
         UNCHANGED <<content, stamp, log, files, policy, list, index, crashes, losses>>
  PROVE  EngineInv'
<1> DEFINE w == todo[1]
           t == Tail(todo)
<1>1. /\ todo \in Seq(Writes) /\ w \in Writes /\ t \in Seq(Writes) /\ 1 \in DOMAIN todo
  BY TailLook DEF EngineInv, TypeOK
<1>2. PICK m \in w.moves : todo' = m[2] \o Revoke(w.moves \ {m}) \o t
  BY Zenon DEF revoke_next
<1> DEFINE a == m[2]
           M == w.moves \ {m}
           b == Revoke(M)
           s == a \o b
<1>3. w.moves \subseteq Ids \X Seq(Plain)
  BY <1>1, WriteKinds, Zenon
<1>4. \A n \in w.moves : \A x \in Ids : Untouched(n[2], x) \/ Demoted(n[2], x)
  BY <1>1, Zenon DEF EngineInv, Revoking
<1>5. a \in Seq(Plain) /\ M \in SUBSET (Ids \X Seq(Plain))
  BY <1>2, <1>3
<1>6. /\ a \in Seq(Writes) /\ Linked(a) /\ (a # <<>> => Starts(a[1]))
      /\ \A K : Covered(a, K)
      /\ Saveless(a) /\ Revoking(a)
  BY <1>5, PlainSequence, Zenon
<1>7. /\ b \in Seq(Writes) /\ Linked(b) /\ (b # <<>> => Starts(b[1]))
      /\ \A K : Covered(b, K)
      /\ Saveless(b) /\ Revoking(b) /\ \A x : Untouched(b, x)
  <2> HIDE DEF a
  <2> QED BY <1>4, <1>5, RevokeWrites, Zenon
<1>8. /\ Linked(t) /\ (t # <<>> => Starts(t[1])) /\ Covered(t, Recorded) /\ Revoking(t)
      /\ \A x : Demoted(todo, x) => Demoted(t, x)
      /\ \A x : Untouched(todo, x) => Untouched(t, x)
      /\ \A id : Saves(todo, id) => Saves(t, id)
      /\ Saveless(todo) <=> Saveless(t)
  <2>1. Linked(todo) /\ Covered(todo, Recorded) /\ Revoking(todo)
    BY Zenon DEF EngineInv, Ordered, RowsSound
  <2>2. /\ Linked(t) /\ (t # <<>> => Starts(t[1]))
    BY <1>1, <2>1, LinkedTail, LinkedNext, Zenon
  <2>3. \A x : ~MovesIt(w, x)
    BY Zenon DEF MovesIt, Logs
  <2>4. Recorded \cup {x \in Ids : MovesIt(w, x)} = Recorded
    BY <2>3, Zenon
  <2>5. Covered(t, Recorded)
    <3>1. Covered(t, Recorded \cup {x \in Ids : MovesIt(w, x)})
      BY <1>1, <2>1, TailDoes, Zenon
    <3> QED BY <2>4, <3>1, Zenon
  <2>6. w.w # "index"
    OBVIOUS
  <2>7. /\ \A x : Demoted(todo, x) => Demoted(t, x)
        /\ \A x : Untouched(todo, x) => Untouched(t, x)
    BY <1>1, <2>3, TailDoes, Zenon
  <2>8. /\ \A id : Saves(todo, id) => Saves(t, id)
        /\ Saveless(todo) <=> Saveless(t)
    BY <1>1, <2>6, TailDoes, Zenon
  <2>9. Revoking(t)
    BY <1>1, <2>1, TailDoes, Zenon
  <2> QED BY <2>2, <2>5, <2>7, <2>8, <2>9, Zenon
<1> HIDE DEF a, M, b, t
<1>9. todo' = s \o t
  BY <1>2, Zenon DEF a, M, b, t
<1>10. /\ s \in Seq(Writes) /\ Linked(s) /\ (s # <<>> => Starts(s[1]))
       /\ Covered(s, Recorded) /\ Saveless(s) /\ Revoking(s)
       /\ \A x \in Ids : Untouched(s, x) \/ Demoted(s, x)
  <2>1. s \in Seq(Writes)
    BY <1>6, <1>7, ConcatLook, Zenon
  <2>2. Linked(s) /\ (s # <<>> => Starts(s[1]))
    BY <1>6, <1>7, LinkedConcat, ZenonT(60)
  <2>3. Covered(s, Recorded)
    BY <1>6, <1>7, CoveredConcat, Zenon
  <2>4. Saveless(s) /\ Revoking(s)
    BY <1>6, <1>7, ConcatDoes, Zenon
  <2>5. \A x \in Ids : Untouched(a, x) \/ Demoted(a, x)
    BY <1>2, <1>4, Zenon DEF a
  <2>6. \A x \in Ids : Untouched(s, x) \/ Demoted(s, x)
    BY <1>6, <1>7, <2>5, ConcatDoes, Zenon
  <2> QED BY <2>1, <2>2, <2>3, <2>4, <2>6, Zenon
<1> HIDE DEF s
<1>11. /\ todo' \in Seq(Writes) /\ Linked(todo') /\ (todo' # <<>> => Starts(todo'[1]))
       /\ Covered(todo', Recorded) /\ Revoking(todo')
  <2>1. todo' \in Seq(Writes)
    BY <1>1, <1>9, <1>10, ConcatLook, Zenon
  <2>2. Linked(todo') /\ (todo' # <<>> => Starts(todo'[1]))
    BY <1>1, <1>8, <1>9, <1>10, LinkedConcat, ZenonT(60)
  <2>3. Covered(todo', Recorded)
    <3>1. Covered(t, Recorded \cup MovedBy(s))
      <4>1. Recorded \subseteq Recorded \cup MovedBy(s)
        OBVIOUS
      <4> QED BY <1>8, <4>1, CoveredMore, Zenon
    <3> QED BY <1>1, <1>9, <1>10, <3>1, CoveredConcat, Zenon
  <2>4. Revoking(todo')
    BY <1>1, <1>8, <1>9, <1>10, ConcatDoes, Zenon
  <2> QED BY <2>1, <2>2, <2>3, <2>4, Zenon
<1>12. view' = view /\ Survivors' = Survivors /\ Recorded' = Recorded
  BY Zenon DEF view, Survivors, Recorded
<1>13. TypeOK'
  BY <1>11, Zenon DEF EngineInv, TypeOK
<1>14. Ordered'
  BY <1>11, Zenon DEF Ordered, Ready, Starts, Logs
<1>15. AuthorityKept'
  BY <1>12, Authority, Zenon DEF EngineInv
<1>16. RowsSound'
  BY <1>11, <1>12, Zenon DEF EngineInv, RowsSound
<1>17. TrustSound'
  <2> SUFFICES ASSUME crashes = 0, losses = 0
               PROVE  /\ index' = Lost /\ Saveless(todo') =>
                           Recorded' = {} /\ \A j \in DOMAIN todo' : todo'[j].w # "revoke" /\ ~Logs(todo'[j], "TRANSITION")
                      /\ \E id \in Ids \cup {NoId, Lost.id} :
                           EndsWith(todo, id)' /\ \A x \in Ids \ {id} : Distrusted(todo, x)'
    BY Zenon DEF TrustSound
  <2>1. /\ index = Lost /\ Saveless(todo) =>
             Recorded = {} /\ \A j \in DOMAIN todo : todo[j].w # "revoke" /\ ~Logs(todo[j], "TRANSITION")
        /\ \E id \in Ids \cup {NoId, Lost.id} : EndsWith(todo, id) /\ \A x \in Ids \ {id} : Distrusted(todo, x)
    BY Zenon DEF EngineInv, TrustSound
  <2>2. ~(index = Lost /\ Saveless(todo))
    BY <1>1, <2>1, Zenon
  <2>3. Saveless(t) <=> Saveless(todo')
    <3>1. Saveless(t) => Saveless(todo')
      BY <1>1, <1>9, <1>10, ConcatDoes, Zenon
    <3>2. Saveless(todo') => Saveless(t)
      <4>1. /\ Len(s) \in Nat /\ Len(t) \in Nat /\ DOMAIN t = 1 .. Len(t) /\ DOMAIN todo' = 1 .. (Len(s) + Len(t))
            /\ \A i \in 1 .. Len(t) : todo'[Len(s) + i] = t[i]
        <5>1. /\ Len(s) \in Nat /\ Len(t) \in Nat /\ DOMAIN t = 1 .. Len(t) /\ DOMAIN (s \o t) = 1 .. (Len(s) + Len(t))
              /\ \A i \in 1 .. Len(t) : (s \o t)[Len(s) + i] = t[i]
          BY <1>1, <1>10, ConcatLook
        <5> QED BY <1>9, <5>1, Zenon
      <4>2. \A i \in DOMAIN t : Len(s) + i \in DOMAIN todo' /\ todo'[Len(s) + i] = t[i]
        BY <4>1
      <4> QED BY <4>2, Zenon DEF Saveless
    <3> QED BY <3>1, <3>2, Zenon
  <2>4. ~(index' = Lost /\ Saveless(todo'))
    BY <1>8, <2>2, <2>3, Zenon
  <2>5. PICK id \in Ids \cup {NoId, Lost.id} : EndsWith(todo, id) /\ \A x \in Ids \ {id} : Distrusted(todo, x)
    BY <2>1, Zenon
  <2>6. EndsWith(todo, id)'
    <3>1. CASE Saves(todo, id)
      BY <1>1, <1>8, <1>9, <1>10, <3>1, ConcatDoes, Zenon DEF EndsWith
    <3>2. CASE Saveless(todo) /\ index.id = id
      BY <1>8, <2>3, <3>2, Zenon DEF EndsWith
    <3> QED BY <2>5, <3>1, <3>2, Zenon DEF EndsWith
  <2>7. ASSUME NEW x \in Ids \ {id} PROVE Distrusted(todo, x)'
    <3>1. CASE Demoted(todo, x)
      <4>1. Demoted(todo', x)
        BY <1>1, <1>8, <1>9, <1>10, <3>1, ConcatDoes, Zenon
      <4> QED BY <4>1, Zenon DEF Distrusted
    <3>2. CASE Untouched(todo, x) /\ ~permits_normal_execution(view.state[x])
      <4>1. Untouched(todo', x) \/ Demoted(todo', x)
        BY <1>1, <1>8, <1>9, <1>10, <3>2, ConcatDoes, Zenon
      <4> QED BY <1>12, <3>2, <4>1, Zenon DEF Distrusted
    <3> QED BY <2>5, <3>1, <3>2, Zenon DEF Distrusted
  <2> QED BY <2>4, <2>5, <2>6, <2>7, Zenon
<1> QED BY <1>11, <1>13, <1>14, <1>15, <1>16, <1>17, Zenon DEF EngineInv

\* A step of an operation keeps the invariant.
LEMMA StepKeeps ==
  ASSUME EngineInv, Step PROVE EngineInv'
<1>1. todo # <<>> /\ Head(todo) = todo[1]
  BY DEF Step, Idle, EngineInv, TypeOK
<1>2. CASE todo[1].w = "log"
  BY <1>1, <1>2, LogKeeps, Zenon DEF Step, world
<1>3. CASE todo[1].w = "revoke"
  BY <1>1, <1>3, RevokeKeeps, Zenon DEF Step, world, signed
<1>4. CASE todo[1].w # "log" /\ todo[1].w # "revoke"
  BY <1>4, WriteKeeps, Zenon
<1> QED BY <1>2, <1>3, <1>4, Zenon

-----------------------------------------------------------------------------
(***************************************************************************)
(* What the parts of an operation write, decisions aside.                  *)
(***************************************************************************)

\* A write that moves nothing, or none.
LEMMA PlainOne ==
  ASSUME NEW w \in Plain, \A x : ~MovesIt(w, x), NEW s \in {<<>>, <<w>>}
  PROVE  s \in Seq(Plain) /\ \A x : Untouched(s, x)
<1>1. CASE s = <<>>
  BY <1>1 DEF Untouched
<1>2. CASE s = <<w>>
  <2>1. s \in Seq(Plain) /\ \A j \in DOMAIN s : s[j] = w
    BY <1>2
  <2> QED BY <2>1, Zenon DEF Untouched
<1> QED BY <1>1, <1>2, Zenon

\* Objects and notes move nothing.
LEMMA Unmoving ==
  ASSUME NEW id \in Ids, NEW sync \in BOOLEAN
  PROVE  /\ \A kind \in {"epn", "evidence"} : Put(kind, id) \in Plain /\ \A x : ~MovesIt(Put(kind, id), x)
         /\ Log(Mismatch(id), sync) \in Plain /\ \A x : ~MovesIt(Log(Mismatch(id), sync), x)
         /\ Log(Discover(id), sync) \in Plain /\ \A x : ~MovesIt(Log(Discover(id), sync), x)
<1>1. ASSUME NEW kind \in {"epn", "evidence"}
      PROVE  Put(kind, id) \in Plain /\ \A x : ~MovesIt(Put(kind, id), x)
  <2>1. Put(kind, id) \in [w : {"put"}, object : Objects] /\ Put(kind, id).w = "put"
    BY DEF Put, Objects
  <2> QED BY <2>1, Zenon DEF Plain, MovesIt, Logs
<1>2. ASSUME NEW e \in Notes PROVE Log(e, sync) \in Plain /\ \A x : ~MovesIt(Log(e, sync), x)
  <2>1. Log(e, sync) \in [w : {"log"}, event : Transitions \cup Notes, sync : BOOLEAN] /\ Log(e, sync).event = e
    BY DEF Log
  <2>2. e.kind # "TRANSITION"
    BY EventKinds
  <2> QED BY <2>1, <2>2, Zenon DEF Plain, MovesIt, Logs
<1>3. Mismatch(id) \in Notes /\ Discover(id) \in Notes
  BY DEF Mismatch, Discover, Notes, Objects
<1> QED BY <1>1, <1>2, <1>3, Zenon

\* More writes that leave x alone.
LEMMA StaysDistrusted ==
  ASSUME NEW S, NEW s \in Seq(S), NEW t \in Seq(S), NEW x, Distrusted(s, x), Untouched(t, x)
  PROVE  Distrusted(s \o t, x)
BY ConcatDoes, Zenon DEF Distrusted

\* Writes that may come first or after anything.
Opens(s) == s \in Seq(Writes) /\ Linked(s) /\ (s # <<>> => Starts(s[1])) /\ Revoking(s)

\* One after the other.
LEMMA OpensConcat ==
  ASSUME NEW s, NEW t, Opens(s), Opens(t)
  PROVE  Opens(s \o t)
<1>1. s \in Seq(Writes) /\ t \in Seq(Writes) /\ Linked(s) /\ Linked(t)
  BY Zenon DEF Opens
<1>2. s \o t \in Seq(Writes)
  BY <1>1, ConcatLook, Zenon
<1>3. Linked(s \o t) /\ (s \o t # <<>> => Starts((s \o t)[1]))
  BY <1>1, LinkedConcat, ZenonT(60) DEF Opens
<1>4. Revoking(s \o t)
  BY <1>1, ConcatDoes, Zenon DEF Opens
<1> QED BY <1>2, <1>3, <1>4, Zenon DEF Opens

\* A flush, and the end of a batch: the events are durable, then the row is saved.
LEMMA ClosingWrites ==
  ASSUME NEW r \in Rows
  PROVE  /\ Opens(<<Flush>>) /\ Saveless(<<Flush>>) /\ \A x : Untouched(<<Flush>>, x)
         /\ \A t \in {<<Flush, SaveIndex(r)>>, <<Flush, SaveIndex(r), Flush>>} :
              /\ Opens(t) /\ Saves(t, r.id) /\ \A x : Untouched(t, x)
              /\ \A K : (r.policy_epoch # 0 => r.id \in K) => Covered(t, K)
<1> DEFINE f == Flush
           g == SaveIndex(r)
<1>1. /\ f.w = "flush" /\ f \in [w : {"flush"}]
      /\ g.w = "index" /\ g.row = r /\ g \in [w : {"index"}, row : Rows]
  BY DEF Flush, SaveIndex
<1>2. f \in Writes /\ g \in Writes
  BY <1>1, Zenon DEF Writes
<1>3. /\ Starts(f) /\ Links(f, g) /\ Links(g, f)
      /\ \A x : ~MovesIt(f, x) /\ ~MovesIt(g, x)
  BY <1>1, Zenon DEF Starts, Links, Logs, MovesIt
<1> HIDE DEF f, g
<1>4. Opens(<<f>>) /\ Saveless(<<f>>) /\ \A x : Untouched(<<f>>, x)
  <2> DEFINE t == <<f>>
  <2>1. t \in Seq(Writes) /\ t[1] = f /\ \A j \in DOMAIN t : j = 1
    BY <1>2
  <2> HIDE DEF t
  <2>2. Linked(t)
    BY <2>1 DEF Linked
  <2>3. Saveless(t) /\ Revoking(t) /\ \A x : Untouched(t, x)
    BY <1>1, <1>3, <2>1, Zenon DEF Saveless, Revoking, Untouched
  <2> QED BY <1>3, <2>1, <2>2, <2>3, Zenon DEF Opens, t
<1>5. ASSUME NEW t \in {<<f, g>>, <<f, g, f>>}
      PROVE  /\ Opens(t) /\ Saves(t, r.id) /\ \A x : Untouched(t, x)
             /\ \A K : (r.policy_epoch # 0 => r.id \in K) => Covered(t, K)
  <2>1. /\ t \in Seq(Writes) /\ t[1] = f /\ t # <<>> /\ 2 \in DOMAIN t /\ t[2] = g
        /\ \A j \in DOMAIN t : j \in 1 .. 3
        /\ 3 \in DOMAIN t => t[3] = f
    <3>1. CASE t = <<f, g>>
      BY <1>2, <3>1
    <3>2. CASE t = <<f, g, f>>
      BY <1>2, <3>2
    <3> QED BY <3>1, <3>2, Zenon
  <2>2. \A j \in DOMAIN t : j = 1 \/ j = 2 \/ j = 3
    BY <2>1
  <2>3. \A j \in DOMAIN t : (j # 2 => t[j] = f) /\ (j = 2 => t[j] = g)
    BY <2>1, <2>2, Zenon
  <2>4. Linked(t)
    <3> SUFFICES ASSUME NEW i \in DOMAIN t, i > 1 PROVE Links(t[i - 1], t[i])
      BY Zenon DEF Linked
    <3>1. \/ i = 2 /\ i - 1 = 1
          \/ i = 3 /\ i - 1 = 2
      BY <2>2
    <3> QED BY <1>3, <2>1, <3>1, Zenon
  <2>5. Revoking(t) /\ \A x : Untouched(t, x)
    BY <1>1, <1>3, <2>3, Zenon DEF Revoking, Untouched
  <2>6. \A k \in DOMAIN t : k > 2 => k # 2
    BY <2>2
  <2>7. Saves(t, r.id)
    BY <1>1, <2>1, <2>3, <2>6, Zenon DEF Saves
  <2>8. ASSUME NEW K, r.policy_epoch # 0 => r.id \in K PROVE Covered(t, K)
    BY <1>1, <2>3, <2>8, Zenon DEF Covered
  <2> QED BY <1>3, <2>1, <2>4, <2>5, <2>7, <2>8, Zenon DEF Opens
<1> QED BY <1>4, <1>5, Zenon DEF f, g

\* The installation of a signed file.
LEMMA InstallWrites ==
  ASSUME NEW f \in AllFiles
  PROVE  /\ Opens(install(f)) /\ Saveless(install(f)) /\ install(f) # <<>>
         /\ \A x : Untouched(install(f), x)
<1> DEFINE a == WriteFile(f)
           b == Log(Override(f), TRUE)
           c == RemoveSuperseded(f)
           s == <<a, b, c>>
<1>1. /\ a.w = "file" /\ a \in [w : {"file", "remove"}, file : AllFiles]
      /\ c.w = "remove" /\ c.file = f /\ c \in [w : {"file", "remove"}, file : AllFiles]
      /\ Override(f) \in Overrides /\ Override(f).kind = "OVERRIDE" /\ Override(f).file = f
      /\ b.w = "log" /\ b.event = Override(f)
  BY DEF WriteFile, RemoveSuperseded, Log, Override, Overrides
<1>2. b \in [w : {"log"}, event : Overrides \cup Floors, sync : {TRUE}]
  BY <1>1 DEF Log
<1>3. a \in Writes /\ b \in Writes /\ c \in Writes
  BY <1>1, <1>2, Zenon DEF Writes
<1>4. /\ Starts(a) /\ Links(a, b) /\ Links(b, c)
      /\ \A x : ~MovesIt(a, x) /\ ~MovesIt(b, x) /\ ~MovesIt(c, x)
  <2>1. Starts(a)
    BY <1>1, Zenon DEF Starts, Logs
  <2>2. Links(a, b)
    BY <1>1 DEF Links, Logs
  <2>3. Links(b, c)
    <3>1. c.w = "remove" /\ c.file = f
      BY <1>1
    <3>2. b = Log(Override(c.file), TRUE)
      BY <3>1, Zenon
    <3> QED BY <3>1, <3>2, Zenon DEF Links, Logs
  <2>4. \A x : ~MovesIt(a, x) /\ ~MovesIt(b, x) /\ ~MovesIt(c, x)
    BY <1>1 DEF MovesIt, Logs
  <2> QED BY <2>1, <2>2, <2>3, <2>4, Zenon
<1> HIDE DEF a, b, c
<1>5. s \in Seq(Writes) /\ s # <<>> /\ DOMAIN s = {1, 2, 3} /\ s[1] = a /\ s[2] = b /\ s[3] = c
  BY <1>3
<1> HIDE DEF s
<1>6. Linked(s)
  <2> SUFFICES ASSUME NEW i \in DOMAIN s, i > 1 PROVE Links(s[i - 1], s[i])
    BY Zenon DEF Linked
  <2>1. \/ i = 2 /\ i - 1 = 1
        \/ i = 3 /\ i - 1 = 2
    BY <1>5
  <2> QED BY <1>4, <1>5, <2>1, Zenon
<1>7. Saveless(s) /\ Revoking(s) /\ \A x : Untouched(s, x)
  BY <1>1, <1>4, <1>5, Zenon DEF Saveless, Revoking, Untouched
<1>8. install(f) = s
  BY Zenon DEF install, s, a, b, c
<1> QED BY <1>4, <1>5, <1>6, <1>7, <1>8, Zenon DEF Opens

\* When nothing is left to do.
LEMMA AtRest ==
  ASSUME EngineInv, todo = <<>>, crashes = 0, losses = 0
  PROVE  /\ index = Lost => Recorded = {}
         /\ \A x \in Ids \ {index.id} : ~permits_normal_execution(view.state[x])
<1>1. DOMAIN todo = {}
  OBVIOUS
<1>2. Saveless(todo) /\ (\A x : Untouched(todo, x) /\ ~Demoted(todo, x)) /\ \A id : ~Saves(todo, id)
  BY <1>1, Zenon DEF Saveless, Untouched, Demoted, Saves
<1>3. /\ index = Lost => Recorded = {}
      /\ \E id \in Ids \cup {NoId, Lost.id} : EndsWith(todo, id) /\ \A x \in Ids \ {id} : Distrusted(todo, x)
  BY <1>2, Zenon DEF EngineInv, TrustSound
<1> QED BY <1>2, <1>3, Zenon DEF EndsWith, Distrusted

\* The row in memory.
LEMMA RowInMemory ==
  ASSUME EngineInv
  PROVE  /\ row \in Rows /\ (row.policy_epoch # 0 => row.id \in Recorded)
         /\ \A x \in Ids : x = row.id <=> x = index.id
<1>1. CASE index = Lost
  <2>1. row = NoRow
    BY <1>1, Zenon DEF row
  <2>2. NoRow \in Rows /\ NoRow.policy_epoch = 0 /\ NoRow.id = NoId
    BY DEF NoRow, Rows
  <2> QED BY <1>1, <2>1, <2>2, Names, Zenon
<1>2. CASE index # Lost
  <2>1. row = index /\ index \in Rows
    BY <1>2, Zenon DEF row, EngineInv, TypeOK
  <2>2. view \in Survivors
    BY LogLook, Zenon DEF EngineInv
  <2> QED BY <2>1, <2>2, Zenon DEF EngineInv, RowsSound, Recorded
<1> QED BY <1>1, <1>2, Zenon

\* An operation begins: its writes are in order, cover their rows, and end well.
LEMMA Begins ==
  ASSUME EngineInv, todo = <<>>, UNCHANGED disk, todo' \in Seq(Writes), Linked(todo'),
         todo' # <<>> => Ready(todo'[1]), Covered(todo', Recorded), Revoking(todo'),
         crashes = 0 /\ losses = 0 =>
           /\ index = Lost /\ Saveless(todo') =>
                Recorded = {} /\ \A j \in DOMAIN todo' : todo'[j].w # "revoke" /\ ~Logs(todo'[j], "TRANSITION")
           /\ \E id \in Ids \cup {NoId, Lost.id} :
                EndsWith(todo', id) /\ \A x \in Ids \ {id} : Distrusted(todo', x)
  PROVE  EngineInv'
<1>1. UNCHANGED <<content, stamp, log, files, policy, list, index, crashes, losses>>
  BY Zenon DEF disk, world, signed
<1>2. view' = view /\ Survivors' = Survivors /\ Recorded' = Recorded
  BY <1>1, Zenon DEF view, Survivors, Recorded
<1>3. TypeOK'
  BY <1>1, Zenon DEF EngineInv, TypeOK
<1>4. Ordered'
  <2>1. todo' # <<>> => Ready(todo[1])'
    BY <1>1, <1>2, Zenon DEF Ready
  <2> QED BY <2>1, Zenon DEF Ordered
<1>5. AuthorityKept'
  BY <1>1, <1>2, Authority, Zenon DEF EngineInv
<1>6. RowsSound'
  BY <1>1, <1>2, Zenon DEF EngineInv, RowsSound
<1>7. TrustSound'
  <2>1. ASSUME NEW id PROVE EndsWith(todo', id) => EndsWith(todo, id)'
    BY <1>1, Zenon DEF EndsWith
  <2>2. ASSUME NEW x PROVE Distrusted(todo', x) => Distrusted(todo, x)'
    BY <1>2, Zenon DEF Distrusted
  <2> QED BY <1>1, <1>2, <2>1, <2>2, Zenon DEF TrustSound
<1> QED BY <1>3, <1>4, <1>5, <1>6, <1>7, Zenon DEF EngineInv

-----------------------------------------------------------------------------
(***************************************************************************)
(* The policy and what an operation leaves behind.                         *)
(***************************************************************************)

\* A file that is current, now or once f is, is one of its subject.
LEMMA CurrentFile ==
  ASSUME TypeOK, NEW id \in Ids
  PROVE  /\ view.current[id] # NoFile => view.current[id] \in AllFiles /\ view.current[id][1] = id
         /\ \A f \in AllFiles : With(f)[id] # NoFile => With(f)[id] \in AllFiles /\ With(f)[id][1] = id
<1>1. view \in Views /\ id \in Subjects
  BY LogLook, Zenon DEF Subjects
<1>2. view.current \in [Subjects -> AllFiles \cup {NoFile}]
  BY <1>1 DEF Views
<1>3. view.current[id] # NoFile => view.current[id][1] = id
  BY <1>1, Zenon DEF Views
<1>4. view.current[id] # NoFile => view.current[id] \in AllFiles
  BY <1>1, <1>2
<1>5. ASSUME NEW f \in AllFiles PROVE With(f)[id] # NoFile => With(f)[id] \in AllFiles /\ With(f)[id][1] = id
  <2>1. With(f)[id] = IF id = f[1] THEN f ELSE view.current[id]
    BY <1>1, <1>2 DEF With
  <2> QED BY <1>3, <1>4, <2>1, Zenon
<1> QED BY <1>3, <1>4, <1>5, Zenon

\* After writes that leave x alone.
LEMMA ThenDistrusted ==
  ASSUME NEW S, NEW s \in Seq(S), NEW t \in Seq(S), NEW x, Untouched(s, x), Distrusted(t, x)
  PROVE  Distrusted(s \o t, x)
BY ConcatDoes, Zenon DEF Distrusted

\* How operations end that moved nothing: the row is the one in memory.
LEMMA Quiet ==
  ASSUME EngineInv, todo = <<>>, crashes = 0, losses = 0, NEW s, \A x : Untouched(s, x),
         Saveless(s) \/ Saves(s, row.id)
  PROVE  \E id \in Ids \cup {NoId, Lost.id} :
           EndsWith(s, id) /\ \A x \in Ids \ {id} : Distrusted(s, x)
<1>1. \A x \in Ids \ {index.id} : Distrusted(s, x)
  BY AtRest, Zenon DEF Distrusted
<1>2. index.id \in Ids \cup {NoId, Lost.id}
  <2>1. CASE index = Lost
    BY <2>1, Zenon
  <2>2. CASE index # Lost
    <3>1. index \in Rows
      BY <2>2, Zenon DEF EngineInv, TypeOK
    <3> QED BY <3>1 DEF Rows
  <2> QED BY <2>1, <2>2, Zenon
<1>3. CASE Saveless(s)
  BY <1>1, <1>2, <1>3, Zenon DEF EndsWith
<1>4. CASE Saves(s, row.id)
  <2>1. row.id \in Ids \cup {NoId, Lost.id}
    BY RowInMemory DEF Rows
  <2>2. \A x \in Ids \ {row.id} : Distrusted(s, x)
    BY <1>1, RowInMemory, Zenon
  <2> QED BY <1>4, <2>1, <2>2, Zenon DEF EndsWith
<1> QED BY <1>3, <1>4, Zenon

\* Writes that only settle: the row in memory is saved again.
LEMMA SettleWrites ==
  ASSUME EngineInv
  PROVE  /\ Opens(Settle) /\ Covered(Settle, Recorded) /\ Saves(Settle, row.id)
         /\ \A x : Untouched(Settle, x)
BY RowInMemory, ClosingWrites, Zenon DEF Settle

\* An operation that moves nothing and may start at any time.
LEMMA QuietBegins ==
  ASSUME EngineInv, todo = <<>>, UNCHANGED disk, Opens(todo'), Covered(todo', Recorded),
         \A x : Untouched(todo', x),
         \/ Saves(todo', row.id)
         \/ Saveless(todo') /\ (crashes = 0 /\ losses = 0 => index # Lost)
  PROVE  EngineInv'
<1>1. todo' \in Seq(Writes) /\ Linked(todo') /\ Revoking(todo') /\ (todo' # <<>> => Ready(todo'[1]))
  BY StartsLinks, Zenon DEF Opens
<1>2. Saves(todo', row.id) => ~Saveless(todo')
  BY Zenon DEF Saves, Saveless
<1>3. ASSUME crashes = 0, losses = 0
      PROVE  \E id \in Ids \cup {NoId, Lost.id} : EndsWith(todo', id) /\ \A x \in Ids \ {id} : Distrusted(todo', x)
  <2> DEFINE s == todo'
  <2>1. (\A x : Untouched(s, x)) /\ (Saveless(s) \/ Saves(s, row.id))
    OBVIOUS
  <2> HIDE DEF s
  <2>2. \E id \in Ids \cup {NoId, Lost.id} : EndsWith(s, id) /\ \A x \in Ids \ {id} : Distrusted(s, x)
    BY <1>3, <2>1, Quiet, Zenon
  <2> QED BY <2>2, Zenon DEF s
<1> QED BY <1>1, <1>2, <1>3, Begins, Zenon

\* set_policy keeps it.
LEMMA PolicyKeeps ==
  ASSUME EngineInv, set_policy PROVE EngineInv'
<1> DEFINE n == policy + 1
           a == WritePolicy(n)
           e == PolicyLoad(n)
           b == Log(e, TRUE)
           s == <<a, b, Flush>>
<1>1. TypeOK /\ todo = <<>> /\ UNCHANGED disk /\ todo' = s
  BY Zenon DEF EngineInv, set_policy, Open, Idle, Operation, policy_writes
<1>2. n \in Nat \ {0} /\ n \in Nat /\ n >= policy
  BY <1>1 DEF TypeOK
<1> HIDE DEF n
<1>3. /\ a.w = "policy" /\ a.epoch = n /\ a \in [w : {"policy"}, epoch : Nat \ {0}]
      /\ e.kind = "POLICY_LOAD" /\ e.epoch = n /\ e \in Floors
      /\ b.w = "log" /\ b.event = e /\ Flush.w = "flush" /\ Flush \in [w : {"flush"}]
  BY <1>2 DEF WritePolicy, Log, PolicyLoad, Floors, Flush
<1>4. b \in [w : {"log"}, event : Overrides \cup Floors, sync : {TRUE}]
  <2> HIDE DEF e
  <2> QED BY <1>3 DEF Log
<1>5. a \in Writes /\ b \in Writes /\ Flush \in Writes
  BY <1>3, <1>4, Zenon DEF Writes
<1>6. Links(a, b)
  <2>1. a = WritePolicy(b.event.epoch)
    BY <1>3, Zenon
  <2> QED BY <1>3, <2>1 DEF Links, Logs
<1> HIDE DEF a, b, e
<1>7. /\ Ready(a) /\ Links(b, Flush)
      /\ \A x : ~MovesIt(a, x) /\ ~MovesIt(b, x) /\ ~MovesIt(Flush, x)
      /\ \A w \in {a, b, Flush} : w.w # "revoke" /\ w.w # "index" /\ ~Logs(w, "TRANSITION")
  BY <1>2, <1>3 DEF Links, Ready, Logs, MovesIt
<1>8. s \in Seq(Writes) /\ DOMAIN s = {1, 2, 3} /\ s[1] = a /\ s[2] = b /\ s[3] = Flush
  BY <1>5
<1> HIDE DEF s
<1>9. Linked(s)
  <2> SUFFICES ASSUME NEW i \in DOMAIN s, i > 1 PROVE Links(s[i - 1], s[i])
    BY Zenon DEF Linked
  <2>1. \/ i = 2 /\ i - 1 = 1
        \/ i = 3 /\ i - 1 = 2
    BY <1>8
  <2> QED BY <1>6, <1>7, <1>8, <2>1, Zenon
<1>10. /\ \A j \in DOMAIN s : s[j] \in {a, b, Flush}
       /\ Saveless(s) /\ Revoking(s) /\ \A x : Untouched(s, x)
  BY <1>7, <1>8, Zenon DEF Saveless, Revoking, Untouched
<1>11. Covered(s, Recorded)
  BY <1>10, Zenon DEF Saveless, Covered
<1>12. ASSUME crashes = 0, losses = 0
       PROVE  /\ index = Lost => Recorded = {}
              /\ \E i \in Ids \cup {NoId, Lost.id} : EndsWith(s, i) /\ \A x \in Ids \ {i} : Distrusted(s, x)
  BY <1>1, <1>10, <1>12, AtRest, Quiet, Zenon
<1> QED BY <1>1, <1>7, <1>8, <1>9, <1>10, <1>11, <1>12, Begins, Zenon

-----------------------------------------------------------------------------
(***************************************************************************)
(* Failures, the machine and the beginning.                                *)
(***************************************************************************)

\* An operation that fails or is killed.
LEMMA FailKeeps ==
  ASSUME EngineInv, Fail PROVE EngineInv'
<1>1. /\ todo' \in {<<>>, Settle} /\ crashes' = crashes + 1
      /\ UNCHANGED <<content, stamp, log, files, policy, list, index, losses>>
  BY Zenon DEF Fail, world, signed
<1>2. crashes' \in Nat /\ crashes' # 0
  BY <1>1 DEF EngineInv, TypeOK
<1>3. Opens(todo') /\ Covered(todo', Recorded)
  <2>1. CASE todo' = <<>>
    <3>1. todo' \in Seq(Writes) /\ DOMAIN todo' = {}
      BY <2>1
    <3> QED BY <2>1, <3>1, Zenon DEF Opens, Linked, Covered, Revoking
  <2>2. CASE todo' = Settle
    BY <2>2, SettleWrites, Zenon
  <2> QED BY <1>1, <2>1, <2>2, Zenon
<1>4. Survivors' = Survivors /\ Recorded' = Recorded
  BY <1>1, Zenon DEF view, Survivors, Recorded
<1>5. TypeOK'
  BY <1>1, <1>2, <1>3, Zenon DEF EngineInv, TypeOK, Opens
<1>6. Ordered'
  BY <1>3, Zenon DEF Opens, Ordered, Ready, Starts, Logs
<1>7. AuthorityKept'
  BY <1>1, <1>4, Authority, Zenon DEF EngineInv
<1>8. RowsSound'
  BY <1>1, <1>3, <1>4, Zenon DEF EngineInv, RowsSound
<1>9. TrustSound'
  BY <1>2, Zenon DEF TrustSound
<1> QED BY <1>3, <1>5, <1>6, <1>7, <1>8, <1>9, Zenon DEF EngineInv, Opens

\* Nothing is left to do.
LEMMA NothingLeft ==
  ASSUME NEW s, s = <<>>
  PROVE  /\ s \in Seq(Writes) /\ Linked(s) /\ Revoking(s) /\ Saveless(s)
         /\ \A K : Covered(s, K)
         /\ \A x : Untouched(s, x)
<1>1. s \in Seq(Writes) /\ DOMAIN s = {}
  OBVIOUS
<1> QED BY <1>1, Zenon DEF Linked, Covered, Revoking, Saveless, Untouched

\* A power cut.
LEMMA PowerCutKeeps ==
  ASSUME EngineInv, PowerCut PROVE EngineInv'
<1>1. /\ todo' = <<>> /\ crashes' = crashes + 1 /\ files \subseteq files'
      /\ UNCHANGED <<content, stamp, policy, list, index, losses>>
  BY Zenon DEF PowerCut, world
<1>2. PICK n \in DOMAIN log : log' = <<log[n]>>
  BY Zenon DEF PowerCut
<1>3. log[n] \in Survivors /\ log[n] \in Views
  BY LogLook, Zenon DEF EngineInv, Survivors
<1>4. log' \in Seq(Views) /\ log' # <<>> /\ Survivors' = {log[n]}
  BY <1>2, <1>3, LogGrows, Zenon DEF EngineInv
<1>5. crashes' \in Nat /\ crashes' # 0
  BY <1>1 DEF EngineInv, TypeOK
<1>6. todo' \in Seq(Writes) /\ Linked(todo') /\ Revoking(todo') /\ \A K : Covered(todo', K)
  BY <1>1, NothingLeft, Zenon
<1>7. TypeOK'
  BY <1>1, <1>4, <1>5, <1>6, Zenon DEF EngineInv, TypeOK
<1>8. Ordered'
  BY <1>1, <1>6, Zenon DEF Ordered
<1>9. AuthorityKept'
  <2>1. InForce(log[n], files, policy, list.epoch)
    BY <1>3, Authority, Zenon DEF EngineInv
  <2>2. InForce(log[n], files', policy', list'.epoch)
    BY <1>1, <2>1, Zenon DEF InForce
  <2> QED BY <1>4, <2>2, Authority, Zenon
<1>10. RowsSound'
  BY <1>1, <1>3, <1>4, <1>6, Zenon DEF EngineInv, RowsSound
<1>11. TrustSound'
  BY <1>5, Zenon DEF TrustSound
<1> QED BY <1>6, <1>7, <1>8, <1>9, <1>10, <1>11, Zenon DEF EngineInv

\* The file is edited.
LEMMA EditKeeps ==
  ASSUME EngineInv, Edit PROVE EngineInv'
<1>1. /\ content' \in Ids \cup {NoId} /\ stamp' = stamp + 1
      /\ UNCHANGED <<log, files, policy, list, index, todo, crashes, losses>>
  BY Zenon DEF Edit, signed
<1>2. stamp' \in Nat
  BY <1>1 DEF EngineInv, TypeOK
<1>3. view' = view /\ Survivors' = Survivors /\ Recorded' = Recorded
  BY <1>1, Zenon DEF view, Survivors, Recorded
<1>4. TypeOK'
  BY <1>1, <1>2, Zenon DEF EngineInv, TypeOK
<1>5. Ordered'
  BY <1>1, <1>3, Zenon DEF EngineInv, Ordered, Ready
<1>6. AuthorityKept'
  BY <1>1, <1>3, Authority, Zenon DEF EngineInv
<1>7. RowsSound'
  BY <1>1, <1>3, Zenon DEF EngineInv, RowsSound
<1>8. TrustSound'
  <2>1. ASSUME NEW id PROVE EndsWith(todo, id) => EndsWith(todo, id)'
    BY <1>1, Zenon DEF EndsWith
  <2>2. ASSUME NEW x PROVE Distrusted(todo, x) => Distrusted(todo, x)'
    BY <1>1, <1>3, Zenon DEF Distrusted
  <2> QED BY <1>1, <1>3, <2>1, <2>2, Zenon DEF EngineInv, TrustSound
<1> QED BY <1>1, <1>4, <1>5, <1>6, <1>7, <1>8, Zenon DEF EngineInv

\* The row of the index grows old, or the index is lost.
LEMMA IndexKeeps ==
  ASSUME EngineInv, Age \/ LoseIndex PROVE EngineInv'
<1>1. /\ todo = <<>> /\ todo' = todo
      /\ UNCHANGED <<content, stamp, log, files, policy, list, crashes>>
  BY Zenon DEF Age, LoseIndex, Idle, world, signed
<1>2. /\ index' \in Rows \cup {Lost} /\ losses' \in Nat
      /\ index'.policy_epoch # 0 => index.policy_epoch # 0 /\ index'.id = index.id
      /\ \/ losses' # 0
         \/ losses' = losses /\ index' # Lost /\ index'.id = index.id
  <2>1. CASE Age
    <3>1. index.fresh /\ index' = [index EXCEPT !.fresh = FALSE] /\ losses' = losses
      BY <2>1, Zenon DEF Age
    <3>2. index \in Rows
      <4>1. Lost.fresh = FALSE
        BY DEF Lost
      <4> QED BY <3>1, <4>1, Zenon DEF EngineInv, TypeOK
    <3>3. index' \in Rows /\ index'.id = index.id /\ index'.policy_epoch = index.policy_epoch
      BY <3>1, <3>2 DEF Rows
    <3>4. index' # Lost
      <4>1. index'.id \in Ids \cup {NoId}
        BY <3>3 DEF Rows
      <4> QED BY <4>1, Names, Zenon
    <3> QED BY <3>1, <3>3, <3>4, Zenon DEF EngineInv, TypeOK
  <2>2. CASE LoseIndex
    <3>1. index' = Lost /\ losses' = losses + 1
      BY <2>2, Zenon DEF LoseIndex
    <3>2. Lost.policy_epoch = 0
      BY DEF Lost
    <3> QED BY <3>1, <3>2 DEF EngineInv, TypeOK
  <2> QED BY <2>1, <2>2, Zenon
<1>3. view' = view /\ Survivors' = Survivors /\ Recorded' = Recorded
  BY <1>1, Zenon DEF view, Survivors, Recorded
<1>4. /\ todo' \in Seq(Writes) /\ Linked(todo') /\ Revoking(todo') /\ Saveless(todo')
      /\ (\A K : Covered(todo', K)) /\ \A x : Untouched(todo', x)
  BY <1>1, NothingLeft, Zenon
<1>5. TypeOK'
  BY <1>1, <1>2, <1>4, Zenon DEF EngineInv, TypeOK
<1>6. Ordered'
  BY <1>1, <1>4, Zenon DEF Ordered
<1>7. AuthorityKept'
  BY <1>1, <1>3, Authority, Zenon DEF EngineInv
<1>8. RowsSound'
  BY <1>2, <1>3, <1>4, Zenon DEF EngineInv, RowsSound
<1>9. TrustSound'
  <2>1. CASE losses' # 0
    BY <2>1, Zenon DEF TrustSound
  <2>2. CASE losses' = losses /\ index' # Lost /\ index'.id = index.id
    <3> SUFFICES ASSUME crashes = 0, losses = 0
                 PROVE  \E id \in Ids \cup {NoId, Lost.id} :
                          EndsWith(todo, id)' /\ \A x \in Ids \ {id} : Distrusted(todo, x)'
      BY <1>1, <2>2, Zenon DEF TrustSound
    <3>1. index'.id \in Ids \cup {NoId}
      BY <1>2, <2>2 DEF Rows
    <3>2. EndsWith(todo, index.id)'
      BY <1>4, Zenon DEF EndsWith
    <3>3. \A x \in Ids \ {index'.id} : Distrusted(todo, x)'
      BY <1>1, <1>3, <1>4, <2>2, AtRest, Zenon DEF Distrusted
    <3> QED BY <3>1, <3>2, <3>3, Zenon
  <2> QED BY <1>2, <2>1, <2>2, Zenon
<1> QED BY <1>4, <1>5, <1>6, <1>7, <1>8, <1>9, Zenon DEF EngineInv

\* The empty state directory satisfies the invariant.
LEMMA EngineStarts ==
  ASSUME Init PROVE EngineInv
<1> DEFINE l == [state |-> [x \in Ids |-> NoState], found |-> <<>>, cited |-> {},
                 current |-> [x \in Subjects |-> NoFile], policy_floor |-> 1, rev_floor |-> 0]
<1>1. /\ content \in Ids /\ stamp = 0 /\ log = <<l>> /\ policy = 1 /\ list = [epoch |-> 1, ids |-> {}]
      /\ index = Lost /\ todo = <<>> /\ crashes = 0 /\ losses = 0
  BY Zenon DEF Init
<1>2. /\ l \in [state : [Ids -> Known], found : Seq(Ids), cited : SUBSET Objects,
                current : [Subjects -> AllFiles \cup {NoFile}], policy_floor : Nat, rev_floor : Nat]
      /\ \A x \in Subjects : l.current[x] = NoFile
      /\ \A x \in Ids : l.state[x] = NoState
      /\ l.policy_floor = 1 /\ l.rev_floor = 0
  BY DEF Known
<1>3. l \in Views
  BY <1>2, Zenon DEF Views
<1> HIDE DEF l
<1>4. log \in Seq(Views) /\ log # <<>> /\ Len(log) = 1 /\ DOMAIN log = {1} /\ log[1] = l
  BY <1>1, <1>3
<1>5. view = l /\ Survivors = {l} /\ Recorded = {}
  <2>1. view = l /\ Survivors = {l}
    BY <1>4, Zenon DEF view, Survivors
  <2> QED BY <1>2, <2>1, Zenon DEF Recorded
<1>6. /\ todo \in Seq(Writes) /\ Linked(todo) /\ Revoking(todo) /\ Saveless(todo)
      /\ (\A K : Covered(todo, K)) /\ \A x : Untouched(todo, x)
  BY <1>1, NothingLeft, Zenon
<1>7. TypeOK
  <2>1. list \in Lists /\ policy \in Nat \ {0} /\ stamp \in Nat /\ crashes \in Nat /\ losses \in Nat
    BY <1>1 DEF Lists
  <2> QED BY <1>1, <1>4, <1>6, <2>1, Zenon DEF TypeOK
<1>8. Ordered
  BY <1>1, <1>6, Zenon DEF Ordered
<1>9. AuthorityKept
  <2>1. policy >= l.policy_floor /\ list.epoch >= l.rev_floor
    BY <1>1, <1>2
  <2>2. InForce(l, files, policy, list.epoch)
    BY <1>2, <2>1, Zenon DEF InForce
  <2> QED BY <1>5, <2>2, Authority, Zenon
<1>10. RowsSound
  <2>1. index.policy_epoch = 0
    BY <1>1 DEF Lost
  <2> QED BY <1>6, <2>1, Zenon DEF RowsSound
<1>11. TrustSound
  <2>1. DOMAIN todo = {}
    BY <1>1
  <2>2. ~permits_normal_execution(NoState)
    BY DEF permits_normal_execution, NoState
  <2>3. EndsWith(todo, Lost.id)
    BY <1>1, <1>6, Zenon DEF EndsWith
  <2>4. \A x \in Ids : Distrusted(todo, x)
    BY <1>2, <1>5, <1>6, <2>2, Zenon DEF Distrusted
  <2> QED BY <1>5, <2>1, <2>3, <2>4, Zenon DEF TrustSound
<1> QED BY <1>6, <1>7, <1>8, <1>9, <1>10, <1>11, Zenon DEF EngineInv

=============================================================================
