--------------------------- MODULE MCConfigReload ---------------------------
(* Two texts that differ in a schedule, one with a bad cron spec beside a   *)
(* good one, and one that does not parse.                                   *)
EXTENDS ConfigReload

CONSTANTS one, two, bad, broken, x, y, z

FourTexts == [v \in {one, two, bad, broken} |->
    CASE v = one    -> {x}
      [] v = two    -> {x, y}
      [] v = bad    -> {y, z}
      [] v = broken -> {}]
=============================================================================
