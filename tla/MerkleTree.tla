------------------------------ MODULE MerkleTree ------------------------------
(***************************************************************************)
(* The merkle root of a block (block.rs), the merkle tree that keeps all   *)
(* levels for a proof of inclusion (merkle_tree.rs) and the check of such  *)
(* a proof (utils_block.rs), with the definition they are compared with.   *)
(***************************************************************************)
EXTENDS WireFormats

concatenate_and_hash(first_hash, second_hash) == sha256d(first_hash \o second_hash)

\* The level above: pairs from the left, the last of an odd level with itself.
UpperLevel(vector) ==
    [i \in 1 .. (Len(vector) + 1) \div 2 |->
        concatenate_and_hash(vector[2 * i - 1],
                             IF 2 * i <= Len(vector) THEN vector[2 * i] ELSE vector[2 * i - 1])]

RECURSIVE recursive_generation_merkle_root(_)
recursive_generation_merkle_root(vector) ==
    IF Len(vector) = 1 THEN vector[1] ELSE recursive_generation_merkle_root(UpperLevel(vector))

TxIds(b) == [i \in DOMAIN b.txn |-> Transaction_hash(b.txn[i])]

generate_merkle_root(b) == recursive_generation_merkle_root(TxIds(b))

(***************************************************************************)
(* The tree: its levels, leaves first.  A level of odd length is kept with *)
(* its last hash twice (the root excepted), but the level above it is made *)
(* from the hashes as they were.                                           *)
(***************************************************************************)
LastTwice(level) == IF Len(level) % 2 = 1 THEN Append(level, level[Len(level)]) ELSE level

RECURSIVE LevelsAbove(_)
LevelsAbove(vector) ==
    IF Len(vector) = 1 THEN <<>>
    ELSE LET upper_level == UpperLevel(vector) IN
         IF Len(upper_level) = 1 THEN <<upper_level>>
         ELSE <<LastTwice(upper_level)>> \o LevelsAbove(upper_level)

generate_merkle_tree(txs) == <<LastTwice(txs)>> \o LevelsAbove(LastTwice(txs))

\* The other hash of the pair that index is in, and whether it comes first.
\* Indices start at 0, as in the code.
Sibling(level, index) == IF index % 2 = 0 THEN <<level[index + 2], FALSE>> ELSE <<level[index], TRUE>>

RECURSIVE get_hash_from_level(_, _, _)
get_hash_from_level(tree, level, index) ==
    IF Len(tree[level]) = 1 THEN << <<tree[level][1], FALSE>> >>
    ELSE <<Sibling(tree[level], index)>> \o get_hash_from_level(tree, level + 1, index \div 2)

\* The path of hashes from a transaction to the root, which is its last
\* element; the empty path stands for None.
merkle_proof_of_inclusion(b, tx_id_to_find) ==
    LET tree == generate_merkle_tree(TxIds(b))
        found == {i \in DOMAIN tree[1] : tree[1][i] = tx_id_to_find}
        index == (CHOOSE i \in found : \A j \in found : i <= j) - 1
    IN IF found = {} THEN <<>>
       ELSE <<Sibling(tree[1], index)>> \o get_hash_from_level(tree, 2, index \div 2)

\* Mutant: the order of the two hashes is ignored.
ProofWithoutOrder(hashes, tx_id_to_find) ==
    FoldLeft(LAMBDA current, h : concatenate_and_hash(current, h[1]), tx_id_to_find, Front(hashes))
        = hashes[Len(hashes)][1]

make_merkle_proof(hashes, tx_id_to_find) ==
    FoldLeft(LAMBDA current, h : IF h[2] THEN concatenate_and_hash(h[1], current)
                                 ELSE concatenate_and_hash(current, h[1]),
             tx_id_to_find, Front(hashes))
        = hashes[Len(hashes)][1]

(***************************************************************************)
(* Validation of a block: proof of work, merkle root, size.                *)
(***************************************************************************)
MaxBlockSize == 1048576

Block_validate(b) ==
    /\ BlockHeader_validate(b.block_header)
    /\ b.block_header.merkle_root_hash = generate_merkle_root(b)
    /\ Len(Block_marshalling(b)) <= MaxBlockSize

(***************************************************************************)
(* Reference: the merkle root by positions.  Level l has Width(n, l)       *)
(* hashes; a hash is made of the two below it, the last one standing in    *)
(* for a missing right one.                                                *)
(***************************************************************************)
Width(n, l) == (n + 2 ^ l - 1) \div (2 ^ l)

RECURSIVE ReferenceHash(_, _, _)
ReferenceHash(leaves, l, i) ==
    IF l = 0 THEN leaves[i + 1]
    ELSE LET right == IF 2 * i + 1 < Width(Len(leaves), l - 1) THEN 2 * i + 1 ELSE 2 * i IN
         concatenate_and_hash(ReferenceHash(leaves, l - 1, 2 * i), ReferenceHash(leaves, l - 1, right))

ReferenceRoot(leaves) ==
    ReferenceHash(leaves, CHOOSE l \in 0 .. 32 : Width(Len(leaves), l) = 1
                                                 /\ \A k \in 0 .. l - 1 : Width(Len(leaves), k) > 1, 0)
=============================================================================
