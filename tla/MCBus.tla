------------------------------- MODULE MCBus -------------------------------
(***************************************************************************)
(* A service and a timer; one client that listens or asks for the state,   *)
(* and one that runs every other command, on one or both units.            *)
(***************************************************************************)
EXTENDS Bus

On(cmd, us) == [cmd |-> cmd, units |-> us]
SomeCommands ==
  [c1 |-> { On("watch", <<>>), On("is-active", <<"s", "t">>), On("stop", <<"s">>) },
   c2 |-> { On("start", <<"s", "t">>), On("stop", <<"t">>), On("restart", <<"s">>),
            On("reload", <<"s">>), On("daemon-reload", <<"s">>) }]
=============================================================================
