----------------------------- MODULE MCTimeLock -----------------------------
(* Instances of TimeLock.                                                  *)
EXTENDS TimeLock

\* One call of each kind that interacts with another: the list of controllers
\* and a market's controller, its oracle, and who the timelocker is.
SomeCalls ==
    {<<"whitelistController", "c2">>, <<"changeController", "m", "c2">>,
     <<"changeOracle", "m", "o2">>, <<"changeTimelocker", "admin">>}
=============================================================================
