------------------------------ MODULE MCLedger ------------------------------
\* Model checking of Ledger, its inductive invariant and its refinement on small instances.
EXTENDS LedgerInvariant, LedgerRefinement
=============================================================================
