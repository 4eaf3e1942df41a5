-------------------------------- MODULE Radix --------------------------------
(***************************************************************************)
(* Radix summaries of an inventory (internal/node/radix.go).  A publication*)
(* ID is its nibbles; the digest of a group of IDs stands for the group    *)
(* itself and a generation for the whole inventory, so hash collisions are *)
(* left out (node-protocol.md: a collision could only delay discovery).    *)
(***************************************************************************)
EXTENDS Naturals, Sequences, SequencesExt, FiniteSets

CONSTANTS Radix,          \* the number of children of a prefix: nibbles 0 .. Radix - 1
          Depth,          \* nibbles of an ID
          IDs,
          LeafThreshold   \* a group of at most so many IDs is sent as a leaf

ASSUME RadixAssumption ==
  /\ Radix \in Nat \ {0} /\ Depth \in Nat \ {0} /\ LeafThreshold \in Nat \ {0}
  /\ IDs \subseteq [1 .. Depth -> 0 .. Radix - 1]

Branches == UNION {[1 .. n -> 0 .. Radix - 1] : n \in 0 .. Depth}

FilterPrefix(ids, prefix) == {id \in ids : IsPrefix(prefix, id)}

BuildSummary(ids, prefix) ==
  [generation |-> ids, prefix |-> prefix,
   children |-> [c \in 0 .. Radix - 1 |->
     IF Len(prefix) >= Depth THEN {} ELSE FilterPrefix(ids, Append(prefix, c))]]

BuildLeaf(ids, prefix) ==
  [generation |-> ids, prefix |-> prefix, ids |-> FilterPrefix(ids, prefix)]

DifferingChildren(local, remote) ==
  {Append(remote.prefix, c) : c \in {d \in 0 .. Radix - 1 :
     local.prefix = remote.prefix /\ local.children[d] # remote.children[d]}}

MissingIDs(local, leaf) == leaf.ids \ local

=============================================================================
