---------------------------- MODULE EvidenceLog ----------------------------
(***************************************************************************)
(* What the evidence ledger promises to somebody who only keeps receipts:  *)
(* an append-only log, of which acknowledged entries and anchored roots    *)
(* are prefixes.  There are no files, frames, crashes or repairs here.     *)
(***************************************************************************)
EXTENDS Integers, Sequences

VARIABLES
  durable,    \* the entries nothing can take away any more
  acked,      \* the entries a caller was told are recorded
  anchored    \* checkpoints kept off the machine: [counter, size, root, ...]

\* The log t begins with the entries of s.
Begins(s, t) == Len(s) <= Len(t) /\ \A k \in 1 .. Len(s) : s[k] = t[k]

Init == durable = <<>> /\ acked = <<>> /\ anchored = {}

\* More entries become durable.
Extend ==
  /\ durable' # durable
  /\ Begins(durable, durable')
  /\ UNCHANGED <<acked, anchored>>

\* A caller is told about entries, which are durable no later than that.
Acknowledge ==
  /\ acked' # acked
  /\ Begins(durable, durable')
  /\ Begins(acked, acked') /\ Begins(acked', durable')
  /\ UNCHANGED anchored

\* A root is handed out over durable entries, under a counter above all others.
Anchor ==
  \E cp \in anchored' \ anchored :
    /\ anchored' = anchored \cup {cp}
    /\ cp.root = SubSeq(durable, 1, cp.size)
    /\ \A old \in anchored : old.counter < cp.counter /\ old.size <= cp.size
    /\ UNCHANGED <<durable, acked>>

Next == Extend \/ Acknowledge \/ Anchor
Spec == Init /\ [][Next]_<<durable, acked, anchored>>
=============================================================================
