------------------------------ MODULE SwitchMC ------------------------------
(* Two registers, which code leaves different, and one image.              *)
EXTENDS SwitchRefinement

MCSaved == <<"s0", "s1">>
MCRegs  == {[s0 |-> "a", s1 |-> "b"]}
MCImage == {<<"image", "size">>}
=============================================================================
