----------------------------- MODULE MCEvidence -----------------------------
(***************************************************************************)
(* What is kept to answer from later, on small instances: the verdicts of  *)
(* the exec gate and the time it may spend on new ones, the encoding of    *)
(* records, and the Merkle tree over the ledger's events.                  *)
(*                                                                         *)
(* They share no state (the engine is external to ExecGate, where the      *)
(* choice to throttle is free) and every property is about one of them, so *)
(* one moves at a time; which one is chosen at the start, and the others   *)
(* stay where they begin.  The encoding is explored from both ends, from   *)
(* bytes and from values.                                                  *)
(***************************************************************************)
EXTENDS ExecGate, Budgets, Sequences

VARIABLES
  part,  \* the component that moves
  input, value,
  tree

\* Inputs of up to five of fifteen bytes: each type, heads of one, two and three bytes,
\* maps of two entries, nesting beyond the limit; heads of five and nine bytes behind up to two
\* of them; and values of a few nodes, maps of two entries.
C == INSTANCE Cbor WITH
       Bytes <- {0, 1, 23, 24, 25, 65, 97, 129, 161, 162, 193, 244, 246, 248, 255}, MaxInput <- 5, MaxPrefix <- 2,
       MAX_DEPTH <- 2, MaxNodes <- 4

\* Trees of up to eight leaves over two values: one, two and three peaks.
T == INSTANCE Merkle WITH Values <- {1, 2}, MaxLeaves <- 8, MaxProof <- 4

SoundLeaves == 6  \* proofs are made up for trees of at most six leaves

all == <<part, vars, budgetVars, input, value, tree>>

OfGate(A) == part = "gate" /\ A /\ UNCHANGED <<part, budgetVars, input, value, tree>>
OfBudgets(A) == part = "budgets" /\ A /\ UNCHANGED <<part, vars, input, value, tree>>
OfInput(A) == part = "input" /\ A /\ UNCHANGED <<part, vars, budgetVars, tree>>
OfValue(A) == part = "value" /\ A /\ UNCHANGED <<part, vars, budgetVars, tree>>
OfTree(A) == part = "tree" /\ A /\ UNCHANGED <<part, vars, budgetVars, input, value>>

EvidenceInit ==
  /\ part \in {"gate", "budgets", "input", "value", "tree"}
  /\ Init /\ BudgetInit /\ C!Init /\ T!Init

EvidenceNext ==
  \/ OfGate(Next) \/ OfBudgets(BudgetNext)
  \/ OfInput(C!Feed) \/ OfValue(C!Build) \/ OfTree(T!Next)

EvidenceSpec == EvidenceInit /\ [][EvidenceNext]_all

-----------------------------------------------------------------------------
\* What decode and from_cbor accept is what is written for the result.
AcceptedIsCanonical == C!AcceptedIsCanonical

\* A value that is encoded and decoded is the same value, unless it is nested too deep.
RoundTrip == C!RoundTrip

\* Roots are those of RFC 9162, and every proof the tree hands out is accepted
\* (Tree::push, inclusion_proof, consistency_proof).
ProofsVerify == T!ProofsVerify

\* No proof shows what is not so (verify_inclusion, verify_consistency).
ProofsSound == Len(tree.leaves) <= SoundLeaves => T!ProofsSound
=============================================================================
