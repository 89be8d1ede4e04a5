------------------------------- MODULE Merkle -------------------------------
(***************************************************************************)
(* crates/jlr-ledger/src/merkle.rs: the Merkle tree over the ledger's      *)
(* events, kept by its peaks, and the proofs made from it and verified     *)
(* against it.                                                             *)
(*                                                                         *)
(* A digest is the term that was hashed, written in prefix form as a       *)
(* sequence: a leaf is <<v>> for a value v > 0, a node is 0 followed by    *)
(* its two children, and the empty tree is <<>>.  Different terms are      *)
(* different sequences: SHA-256 has no collisions and a leaf is no node.   *)
(***************************************************************************)
EXTENDS Integers, Sequences, SequencesExt

CONSTANTS
  Values,      \* what a leaf may hold
  MaxLeaves,   \* bound on the size of the tree
  MaxProof     \* longest proof that is made up

VARIABLE tree  \* [leaves, roots, peaks], as in Tree; a peak is [height, hash]

leaf_hash(v) == <<v>>
node_hash(l, r) == <<0>> \o l \o r
empty_root == <<>>

\* A bug: the tree over n leaves is split in the middle.
HalfWay(n) == n \div 2

\* The largest power of two below n.
split(n) == CHOOSE k \in {2^i : i \in 0 .. n} : k < n /\ 2 * k >= n

RECURSIVE root_of(_)
root_of(d) ==
  CASE d = <<>> -> empty_root
    [] Len(d) = 1 -> d[1]
    [] OTHER -> LET k == split(Len(d))
                IN node_hash(root_of(SubSeq(d, 1, k)), root_of(SubSeq(d, k + 1, Len(d))))

-----------------------------------------------------------------------------
(* The tree *)

\* A bug: a peak is merged once and not again.
RECURSIVE MergeOnce(_, _)
MergeOnce(peaks, p) ==
  IF peaks # <<>> /\ Last(peaks).height = 0 /\ p.height = 0
  THEN MergeOnce(Front(peaks), [height |-> 1, hash |-> node_hash(Last(peaks).hash, p.hash)])
  ELSE Append(peaks, p)

RECURSIVE merged(_, _)
merged(peaks, p) ==
  IF peaks # <<>> /\ Last(peaks).height = p.height
  THEN merged(Front(peaks), [height |-> p.height + 1, hash |-> node_hash(Last(peaks).hash, p.hash)])
  ELSE Append(peaks, p)

root(peaks) ==
  IF peaks = <<>> THEN empty_root
  ELSE FoldRight(LAMBDA p, acc : node_hash(p.hash, acc), Front(peaks), Last(peaks).hash)

push(v) ==
  /\ Len(tree.leaves) < MaxLeaves
  /\ LET peaks == merged(tree.peaks, [height |-> 0, hash |-> leaf_hash(v)])
     IN tree' = [leaves |-> Append(tree.leaves, leaf_hash(v)),
                 roots |-> Append(tree.roots, root(peaks)),
                 peaks |-> peaks]

root_at(n) == IF n = 0 THEN empty_root ELSE tree.roots[n]

-----------------------------------------------------------------------------
(* Proofs.  Indices are those of the code: the first leaf has index 0. *)

RECURSIVE path(_, _)
path(m, d) ==
  IF Len(d) <= 1 THEN <<>>
  ELSE LET k == split(Len(d))
           left == SubSeq(d, 1, k)
           right == SubSeq(d, k + 1, Len(d))
       IN IF m < k THEN Append(path(m, left), root_of(right))
          ELSE Append(path(m - k, right), root_of(left))

inclusion_proof(index, size) == path(index, SubSeq(tree.leaves, 1, size))

RECURSIVE subproof(_, _, _)
subproof(m, d, b) ==
  IF m = Len(d) THEN IF b THEN <<>> ELSE <<root_of(d)>>
  ELSE LET k == split(Len(d))
           left == SubSeq(d, 1, k)
           right == SubSeq(d, k + 1, Len(d))
       IN IF m <= k THEN Append(subproof(m, left, b), root_of(right))
          ELSE Append(subproof(m - k, right, FALSE), root_of(left))

consistency_proof(first, second) ==
  IF first \in {0, second} THEN <<>> ELSE subproof(first, SubSeq(tree.leaves, 1, second), TRUE)

\* One step of a verifier at node f of the row whose last node is s: the element c of
\* the proof is the left sibling (of a right child, or of the last node of its row,
\* which has risen to the row where it is a right child) or the right one.
IsLeft(f, s) == f % 2 = 1 \/ f = s

RECURSIVE Risen(_, _)
Risen(f, s) == IF f % 2 = 0 /\ f # 0 THEN Risen(f \div 2, s \div 2) ELSE <<f, s>>

Up(f, s) ==
  LET at == IF IsLeft(f, s) THEN Risen(f, s) ELSE <<f, s>>
  IN <<at[1] \div 2, at[2] \div 2>>

RECURSIVE Included(_, _, _, _, _)
Included(r, f, s, proof, rt) ==
  CASE proof = <<>> -> s = 0 /\ r = rt
    [] proof # <<>> /\ s = 0 -> FALSE
    [] OTHER -> LET c == Head(proof)
                    up == Up(f, s)
                IN Included(IF IsLeft(f, s) THEN node_hash(c, r) ELSE node_hash(r, c),
                            up[1], up[2], Tail(proof), rt)

\* A bug: the index is not compared with the size.
AnyIndex(leaf, index, size, proof, rt) == Included(leaf, index % size, size - 1, proof, rt)

verify_inclusion(leaf, index, size, proof, rt) ==
  index < size /\ Included(leaf, index, size - 1, proof, rt)

\* A bug: the first root is not compared, only the second.
SecondRootOnly(fr, sr, r1, r2) == sr = r2

roots_agree(fr, sr, r1, r2) == fr = r1 /\ sr = r2

RECURSIVE Consistent(_, _, _, _, _, _, _)
Consistent(fr, sr, f, s, proof, r1, r2) ==
  CASE proof = <<>> -> roots_agree(fr, sr, r1, r2) /\ s = 0
    [] proof # <<>> /\ s = 0 -> FALSE
    [] OTHER -> LET c == Head(proof)
                    up == Up(f, s)
                IN Consistent(IF IsLeft(f, s) THEN node_hash(c, fr) ELSE fr,
                              IF IsLeft(f, s) THEN node_hash(c, sr) ELSE node_hash(sr, c),
                              up[1], up[2], Tail(proof), r1, r2)

\* The lowest ancestor of node f of the first tree that is no right child.
RECURSIVE Base(_, _)
Base(f, s) == IF f % 2 = 1 THEN Base(f \div 2, s \div 2) ELSE <<f, s>>

PowersOfTwo == {2^i : i \in 0 .. MaxLeaves}

verify_consistency(first, second, r1, r2, proof) ==
  LET nodes == IF first \in PowersOfTwo THEN <<r1>> \o proof ELSE proof
      b == Base(first - 1, second - 1)
  IN /\ first <= second
     /\ \/ first = second /\ proof = <<>> /\ r1 = r2
        \/ first = 0 /\ first # second /\ proof = <<>> /\ r1 = empty_root
        \/ /\ first \notin {0, second} /\ nodes # <<>>
           /\ Consistent(nodes[1], nodes[1], b[1], b[2], Tail(nodes), r1, r2)

-----------------------------------------------------------------------------
Init == tree = [leaves |-> <<>>, roots |-> <<>>, peaks |-> <<>>]

Next == \E v \in Values : push(v)

Spec == Init /\ [][Next]_tree

-----------------------------------------------------------------------------
(* Properties *)

Size == Len(tree.leaves)
Prefix(n) == SubSeq(tree.leaves, 1, n)

\* Every proof the tree hands out is accepted by the verifiers: each leaf is shown to
\* be in each tree it is in, and each earlier tree to be a prefix of each later one,
\* under the roots kept while the tree grew, which are those RFC 9162 defines.
ProofsVerify ==
  \A n \in 0 .. Size :
    /\ root_at(n) = root_of(Prefix(n))
    /\ \A i \in 0 .. n - 1 :
         verify_inclusion(tree.leaves[i + 1], i, n, inclusion_proof(i, n), root_at(n))
    /\ \A m \in 0 .. n :
         verify_consistency(m, n, root_at(m), root_at(n), consistency_proof(m, n))

\* The digests somebody who makes up a proof can use: leaves, and the nodes of this
\* tree.  Every node of a proof is hashed into the root it is compared with, and a
\* digest is the term that was hashed, so no other node can end up in that root.
RECURSIVE Subtrees(_)
Subtrees(d) ==
  {root_of(d)} \cup (IF Len(d) <= 1 THEN {}
                    ELSE Subtrees(SubSeq(d, 1, split(Len(d)))) \cup Subtrees(SubSeq(d, split(Len(d)) + 1, Len(d))))

Leaves == {leaf_hash(v) : v \in Values}
Known == Leaves \cup Subtrees(tree.leaves)
MadeUp == UNION {[1 .. k -> Known] : k \in 0 .. MaxProof}

\* No proof, however it is put together, shows a leaf at an index of this tree where
\* it is not, or a tree with another leaf to be a prefix of this one: what is proved
\* to be in the ledger is there, and a rewritten history is not consistent with it.
ProofsSound ==
  Size > 0 =>
    LET proofs == MadeUp
    IN  /\ \A i \in 0 .. Size, leaf \in Leaves :
             i = Size \/ tree.leaves[i + 1] # leaf =>
               \A proof \in proofs : ~ verify_inclusion(leaf, i, Size, proof, root_at(Size))
        /\ \A m \in 1 .. Size - 1, leaf \in Leaves : \A i \in 1 .. m :
             LET r1 == root_of([Prefix(m) EXCEPT ![i] = leaf])
             IN  r1 # root_at(m) => \A proof \in proofs : ~ verify_consistency(m, Size, r1, root_at(Size), proof)
=============================================================================
