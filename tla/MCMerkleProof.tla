--------------------------- MODULE MCMerkleProof ---------------------------
(* Two users, two amounts for one of them, up to five leaves for the        *)
(* client's proofs.                                                         *)
EXTENDS MerkleProof

MCAllocations == {<<"u1", 1>>, <<"u1", 2>>, <<"u2", 1>>}
=============================================================================
