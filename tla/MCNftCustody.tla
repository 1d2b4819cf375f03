---------------------------- MODULE MCNftCustody ----------------------------
(* Small instances of NftCustody.                                          *)
EXTENDS NftCustody, TLC

Interchangeable == Permutations(Requests) \cup Permutations(Listings)

=============================================================================
