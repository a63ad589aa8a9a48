----------------------------- MODULE MCServerData -----------------------------
(* The values of the constants of ServerData for TLC: values whose lists  *)
(* are as long as W16 allows, and a profile and a checkpoint with empty    *)
(* ones.                                                                   *)
EXTENDS ServerData

TwoProfiles == {<<0, << >>, 5, 1, << >>, <<7>> >>, <<0, <<3, 4>>, 2, 2, <<8, 0>>, << >> >>}
OneMatch == {<<1, << >>, <<2>>, 4, << <<5, <<6>>, 1>>, <<6, << >>, 2>> >>, <<9>> >>}
TwoCheckpoints == {<<1, << >>, <<2>>, << >>, << >>, << >>, << >> >>,
                   <<2, <<1, 1>>, << >>,
                     << <<7, << <<3, <<1, 2>> >>, <<1, << >> >> >> >>, <<8, << >> >> >>,
                     <<4>>, << <<5>>, <<6>> >>, <<5>> >>}
==============================================================================
