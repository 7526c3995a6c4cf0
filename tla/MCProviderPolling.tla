-------------------------- MODULE MCProviderPolling --------------------------
(***************************************************************************)
(* Small instances for TLC of polling: the requests of the poll jobs, and  *)
(* the schedule that enqueues them.  A behaviour is one of the two, chosen *)
(* with the initial state.                                                 *)
(***************************************************************************)
EXTENDS ProviderPolling, WatchlistSchedule, TLC

CONSTANTS Part

VARIABLES part

Kraken == "kraken-public"
Binance == "binance-public"
BothProviders == {Kraken, Binance}
KrakenThenBinance == <<Kraken, Binance>>
Symmetry == Permutations(Workers) \cup Permutations(Scheduler) \cup Permutations(Operator)

PartInit == part \in Part /\ Init /\ ScheduleInit

PartNext ==
    /\ UNCHANGED part
    /\ \/ part = "requests" /\ Next /\ UNCHANGED scheduleVars
       \/ part = "schedule" /\ ScheduleNext /\ UNCHANGED vars

PartSpec == PartInit /\ [][PartNext]_<<part, vars, scheduleVars>>
=============================================================================
