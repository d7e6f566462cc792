----------------------------- MODULE RateLimit -----------------------------
(***************************************************************************)
(* The sliding-window limiter of pkg/ratex (type Limiter), as operators on *)
(* the log the limiter keeps for one key.                                  *)
(*                                                                         *)
(* ratex stores the log as a slice of instants in arrival order.  Nothing  *)
(* the limiter decides depends on more than how many recorded events each  *)
(* instant has, so a log is a function from instants to that number.       *)
(* limit <= 0 (limiter disabled) is the caller's case, not modelled here.  *)
(***************************************************************************)
EXTENDS Naturals, Functions

CONSTANT MaxTime    \* bound: the last instant of the model's clock

ASSUME MaxTimeAssumption == MaxTime \in Nat

Time == 0..MaxTime

\* A log: how many events were recorded at each instant.
Log == [Time -> Nat]

EmptyLog == [t \in Time |-> 0]

\* The log after Allow has pruned what is no longer after the cutoff.
Pruned(log, window, now) ==
  [t \in Time |-> IF t + window > now THEN log[t] ELSE 0]

\* Number of events in a log (len(window) in the code).
Counted(log) == FoldFunction(+, 0, log)

\* The call is within the limit.
Allowed(log, limit, window, now) == Counted(Pruned(log, window, now)) < limit

\* The log Allow leaves behind: an allowed event is recorded, a denied one
\* is not.
AfterAllow(log, limit, window, now) ==
  LET kept == Pruned(log, window, now)
  IN  IF Allowed(log, limit, window, now)
      THEN [kept EXCEPT ![now] = @ + 1]
      ELSE kept

\* The oldest counted event.  A denied call has one whenever limit > 0, at
\* or before now.
OldestCounted(log, window, now) ==
  LET events == {t \in Time : Pruned(log, window, now)[t] > 0} \cup {now}
  IN  CHOOSE t \in events : \A s \in events : t <= s

\* Mutant: the subtraction the wrong way round.
RetryAfterSwapped(log, window, now) ==
  now - (OldestCounted(log, window, now) + window)

\* How long until the oldest counted event leaves the window, for a call
\* that was denied.
RetryAfter(log, window, now) ==
  (OldestCounted(log, window, now) + window) - now
=============================================================================
