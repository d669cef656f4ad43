-------------------------------- MODULE MCDns --------------------------------
(* Two entries, requests and ports for three users who ask for three names.  *)
EXTENDS Dns, TLC

MCSymmetry == Permutations(Users) \union Permutations(Names)
=============================================================================
