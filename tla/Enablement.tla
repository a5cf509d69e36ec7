----------------------------- MODULE Enablement -----------------------------
(***************************************************************************)
(* What enable, disable and the start of the daemon promise one another,   *)
(* whatever the symlinks look like: a unit is enabled in a directory or    *)
(* not, requests change that for the units they name, and a daemon that    *)
(* starts brings up what is enabled and can be loaded (install.rs:311-317, *)
(* manager.rs:166-180).  Install is the code.                              *)
(***************************************************************************)
CONSTANTS Units, Dirs

VARIABLES
  enabled,    \* enabled[d]: the units that are enabled in directory d
  loadable,   \* the units that have a unit file which can be loaded
  running,    \* the units the daemon has started and not stopped
  up,         \* the daemon runs
  asked       \* the request that is served: [op, dir, names], op is "none" if none is

vars == <<enabled, loadable, running, up, asked>>

Init ==
  /\ enabled \in [Dirs -> SUBSET Units]
  /\ loadable \subseteq Units
  /\ running = {}
  /\ up = FALSE
  /\ asked.op = "none"

Idle == up /\ asked.op = "none"

\* A request begins or ends, at its last unit or before it.
Ask == Idle /\ asked'.op # "none" /\ UNCHANGED <<enabled, loadable, running, up>>
Answer == asked.op # "none" /\ asked'.op = "none" /\ UNCHANGED <<enabled, loadable, running, up>>

\* Enable and disable reach the units they name one by one, in their directory.
\* The last of them may be where an error ends the request; a forced enable has
\* removed the old link by then.
Serve ==
  /\ \E u \in asked.names :
       \/ asked.op = "enable" /\ enabled' = [enabled EXCEPT ![asked.dir] = @ \cup {u}]
       \/ asked.op \in {"enable", "disable"}
            /\ enabled' = [enabled EXCEPT ![asked.dir] = @ \ {u}]
  /\ asked' = asked \/ asked'.op = "none"
  /\ UNCHANGED <<loadable, running, up>>

\* Unit files come and go, also through aliases and masks.
EditFiles ==
  /\ loadable' \subseteq Units
  /\ asked' = asked \/ asked'.op = "none"
  /\ UNCHANGED <<enabled, running, up>>

Boot ==
  /\ ~up /\ up'
  /\ running' = {u \in loadable : \E d \in Dirs : u \in enabled[d]}
  /\ UNCHANGED <<enabled, loadable, asked>>

\* A stop, or a reload that finds no file for a unit, forgets units.
Start == Idle /\ (\E u \in Units : running' = running \cup {u})
           /\ UNCHANGED <<enabled, loadable, up, asked>>
Forget == Idle /\ running' \subseteq running /\ UNCHANGED <<enabled, loadable, up, asked>>

Crash == up /\ ~up' /\ running' = {} /\ asked'.op = "none" /\ UNCHANGED <<enabled, loadable>>

Next == Ask \/ Answer \/ Serve \/ EditFiles \/ Boot \/ Start \/ Forget \/ Crash

Spec == Init /\ [][Next]_vars
=============================================================================
