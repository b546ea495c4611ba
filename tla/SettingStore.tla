---------------------------- MODULE SettingStore ----------------------------
(***************************************************************************)
(* What the settings menu promises: the settings are there at any time,    *)
(* and change in one step, in one of three ways: another directory for     *)
(* temporary files, another one for downloads, another list of shared      *)
(* directories.                                                            *)
(***************************************************************************)
EXTENDS Sequences

CONSTANT Dir

VARIABLE stored

TypeOK == stored \in [temp : Dir, down : Dir, shared : Seq(Dir)]

Init == TypeOK

(* set_dir_temp, set_dir_down, set_dir_cond *)
SetTemp == \E d \in Dir : stored' = [stored EXCEPT !.temp = d]
SetDown == \E d \in Dir : stored' = [stored EXCEPT !.down = d]
SetShared ==
  /\ stored'.shared \in Seq(Dir)
  /\ stored' = [stored EXCEPT !.shared = stored'.shared]

Next == SetTemp \/ SetDown \/ SetShared

Spec == Init /\ [][Next]_stored
=============================================================================
