---------------------- MODULE MC_GoogleChannelConfig ----------------------
(***************************************************************************)
(* Updates of either field of the config, of both, of neither; one of them *)
(* clears what the others set.                                             *)
(***************************************************************************)
EXTENDS GoogleChannelConfig

UpdateKey == [mask |-> {"crypto_key_name"}, value |-> "a"]
UpdateLabels == [mask |-> {"labels"}, value |-> "b"]
UpdateBoth == [mask |-> Paths, value |-> "c"]
ClearLabels == [mask |-> {"labels"}, value |-> ""]
Touch == [mask |-> {}, value |-> "d"]
SomeUpdates == {UpdateKey, UpdateLabels, UpdateBoth, ClearLabels, Touch}
=============================================================================
