------------------------------ MODULE MC_TvhLog ------------------------------
(* One subsystem, "dvr", and tvhlog_level at LOG_TRACE, so both maps are   *)
(* read.  The string given to a setter is "+dvr,-all", where "all" must   *)
(* throw the dvr entry away, or "-all,+dvr".                               *)
EXTENDS TvhLog

MCSubsys == {"dvr"}

Plus(n) == [a |-> TRUE, name |-> n]
Minus(n) == [a |-> FALSE, name |-> n]

MCConfigs == {<<Plus("dvr"), Minus("all")>>, <<Minus("all"), Plus("dvr")>>}
=============================================================================
