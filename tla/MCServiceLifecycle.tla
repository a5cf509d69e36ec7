------------------------- MODULE MCServiceLifecycle -------------------------
(***************************************************************************)
(* Values for the constants of ServiceLifecycle, named for what they say   *)
(* about the environment.                                                  *)
(***************************************************************************)
EXTENDS ServiceLifecycle

JobCommands == [t \in Types |-> {"start", "stop", "restart", "reload"}]
StartStopReload == [t \in Types |-> {"start", "stop", "daemon_reload"}]

\* Restarts of a service that may name another main process are left to the
\* types with fewer states.
AnyCommands == [t \in Types |->
  {"start", "stop", "daemon_reload"} \cup IF t = "notify" THEN {} ELSE {"restart", "reload"}]

NoFaults == [t \in Types |-> {}]

\* Faults of the service and of its files, without the ones that make a stop
\* incomplete ("stop_env", "stubborn") or remove the unit ("remove"), and without
\* the ones that leave a process that stop() cannot reach ("mainpid", "pidfile" of
\* a forking service).
StartFaults == [t \in Types |-> {"env", "condition", "pre", "spawn", "notify",
                                 "oneshot", "timeout"}]

Stubborn == [t \in Types |-> {"stubborn"}]

\* Every fault that ends a job in a way of its own, each with a type that meets it.
AnyFaults == [t \in Types |->
  CASE t = "notify" -> {"stubborn", "mainpid"}
    [] t = "forking" -> {"env", "pidfile", "stubborn", "stop_env", "remove"}
    [] OTHER -> {"env", "stubborn", "stop_env", "remove"}]
=============================================================================
