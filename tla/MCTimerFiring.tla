--------------------------- MODULE MCTimerFiring ---------------------------
(***************************************************************************)
(* Two timers with a few instants each, one of a service, one of a target. *)
(***************************************************************************)
EXTENDS TimerFiring, TLC

CONSTANTS
  backup, sync,              \* timers
  job, session,              \* what they start: a service and a target
  Keeps                      \* the calendars keep fractions of a second

Jobs == {job}
Own == (backup :> job) @@ (sync :> session)
At(s) == {[at |-> s, keeps |-> Keeps]}
Hours == (backup :> At({1})) @@ (sync :> At({1}))
Late == (backup :> {}) @@ (sync :> {1})
=============================================================================
