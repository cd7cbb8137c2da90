--------------------------- MODULE MCConfigStore ---------------------------
(* Instance of ConfigStore for TLC. *)
EXTENDS ConfigStore, TLC

MCPages == <<"routing", "network">>
MCAssetPages == <<"routing">>
StoreSymmetry == Permutations(Savers) \cup Permutations(Texts) \cup Permutations(Items)
=============================================================================
