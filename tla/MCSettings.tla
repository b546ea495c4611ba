----------------------------- MODULE MCSettings -----------------------------
(***************************************************************************)
(* Settings with hashes of two bytes and three directories: one with a     *)
(* slash, one without, and one that does not exist.                        *)
(***************************************************************************)
EXTENDS Settings

CONSTANTS slashed, bare, absent

DirDef == {slashed, bare, absent}
NameDef == {<<1, 1>>, <<1, 0>>, <<0, 1>>}
ListedDef == [d \in DirDef |->
  CASE d = slashed -> {<<1, 1>>, <<0, 1>>}
    [] d = bare -> {<<1, 1>>, <<1, 0>>}
    [] d = absent -> {}]
RegularDef == [d \in DirDef |-> IF d = slashed THEN {<<1, 1>>, <<0, 1>>} ELSE {}]
=============================================================================
