----------------------------- MODULE MCResolver ------------------------------
(* Resolver with a minting key and a literal one, for TLC.                 *)
EXTENDS Resolver

CONSTANTS contents, hair

MCKeys == {contents, hair}
MCMinting == {contents}

=============================================================================
