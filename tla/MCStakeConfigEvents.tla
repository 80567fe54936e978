------------------------ MODULE MCStakeConfigEvents ------------------------
(* Two keys, two legal periods. *)
EXTENDS StakeConfigEvents

Lists == {<<>>, <<"x">>, <<"x", "y">>}
=============================================================================
