------------------------------- MODULE Budgets ------------------------------
(***************************************************************************)
(* crates/jlrd/src/budget.rs: the allowance of slow-path time of each user *)
(* and of all users together, as the one gate thread uses it: it asks,     *)
(* works if the user is not throttled, and charges the work afterwards.    *)
(*                                                                         *)
(* A window is kept by its age, which stops counting at Window, where it   *)
(* has run out; Instants are otherwise not compared.                       *)
(***************************************************************************)
EXTENDS Naturals, FiniteSets

CONSTANTS
  Uids,
  Window,           \* length of a window
  Allowance,        \* of one user
  GlobalAllowance,  \* of all users together
  MaxWork,          \* longest work for one exec
  TableLimit        \* users remembered before old ones are forgotten

ASSUME BudgetAssumption ==
  {Window, Allowance, GlobalAllowance, MaxWork} \subseteq Nat \ {0} /\ TableLimit \in Nat

Nobody == "nobody"
Idle == [uid |-> Nobody, took |-> 0]
NoWindow == [age |-> Window, spent |-> 0]
NoStretch == [age |-> Window, of |-> [u \in Uids |-> 0], all |-> 0]

VARIABLES
  global,   \* [age, spent]
  table,    \* the users remembered
  users,    \* [age, spent] of each of them
  working,  \* what the gate works for: [uid, took]
  stretch   \* ghost: a stretch of time as long as a window, or NoStretch: its age, what
            \* was charged in it to each user and to all of them

budgetVars == <<global, table, users, working, stretch>>

-----------------------------------------------------------------------------
\* roll_global, and the same for one user: a window that has run out is replaced.
rolled(w) == IF w.age = Window THEN [age |-> 0, spent |-> 0] ELSE w

\* A bug: the last unit of the allowance may be overdrawn.
Beyond(w, allowed) == rolled(w).spent > allowed

UsedUp(w, allowed) == rolled(w).spent >= allowed

throttled(uid) == UsedUp(global, GlobalAllowance) \/ (uid \in table /\ UsedUp(users[uid], Allowance))

\* exhausted; the user's window is not looked at when the common one is used up.
exhausted ==
  /\ working = Idle
  /\ \E uid \in Uids :
       /\ global' = rolled(global)
       /\ users' = IF UsedUp(global, GlobalAllowance) \/ uid \notin table THEN users
                   ELSE [users EXCEPT ![uid] = rolled(@)]
       /\ working' = IF throttled(uid) THEN Idle ELSE [uid |-> uid, took |-> 0]
  /\ UNCHANGED <<table, stretch>>

plus(w, spent) == [rolled(w) EXCEPT !.spent = @ + spent]

\* A bug: every other user is forgotten, not only those whose window is over.
ForgetAll(us) == {}

\* The users kept when the table is full.
retained(us) == {u \in table : us[u].age < Window}

charge ==
  LET u == working.uid
      now == [users EXCEPT ![u] = plus(@, working.took)]
      all == table \cup {u}
      kept == IF Cardinality(all) > TableLimit THEN retained(now) \cup {u} ELSE all
  IN  /\ working # Idle
      /\ global' = plus(global, working.took)
      /\ table' = kept
      /\ users' = [x \in Uids |-> IF x \in kept THEN now[x] ELSE NoWindow]
      /\ stretch' = IF stretch = NoStretch THEN stretch
                    ELSE [stretch EXCEPT !.of[u] = @ + working.took, !.all = @ + working.took]
      /\ working' = Idle

Older(w) == [w EXCEPT !.age = IF @ < Window THEN @ + 1 ELSE Window]

\* Time passes; while the gate works some of it is work, the rest is waiting for the lock.
BudgetTick ==
  /\ global' = Older(global)
  /\ users' = [u \in Uids |-> IF u \in table THEN Older(users[u]) ELSE NoWindow]
  /\ stretch' = IF Older(stretch).age = Window THEN NoStretch ELSE Older(stretch)
  /\ \/ UNCHANGED working
     \/ working # Idle /\ working.took < MaxWork /\ working' = [working EXCEPT !.took = @ + 1]
  /\ UNCHANGED table

\* Any moment may be the beginning of a stretch.
BeginStretch ==
  /\ stretch = NoStretch /\ stretch' = [NoStretch EXCEPT !.age = 0]
  /\ UNCHANGED <<global, table, users, working>>

BudgetInit ==
  /\ global = NoWindow /\ table = {} /\ working = Idle
  /\ users = [u \in Uids |-> NoWindow]
  /\ stretch = NoStretch

BudgetNext == exhausted \/ charge \/ BudgetTick \/ BeginStretch

BudgetSpec == BudgetInit /\ [][BudgetNext]_budgetVars

-----------------------------------------------------------------------------
\* An allowance is overrun by at most the work under way when it was reached,
\* although the answer and the charge may fall into different windows, and the
\* window of one user and that of all do not start together (exhausted, charge).
\* So in any stretch of time as long as a window, a user gets no more than two
\* windows' worth of the gate, and neither do all of them together: being
\* forgotten by a full table buys nothing.
StretchBound ==
  /\ global.spent < GlobalAllowance + MaxWork
  /\ stretch.all <= 2 * (GlobalAllowance + MaxWork - 1)
  /\ \A u \in Uids :
       users[u].spent < Allowance + MaxWork /\ stretch.of[u] <= 2 * (Allowance + MaxWork - 1)
=============================================================================
