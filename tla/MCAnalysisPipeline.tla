------------------------- MODULE MCAnalysisPipeline -------------------------
(* Two collectors' threads, a host under memory pressure, one failing unit  *)
(* and two processes out of the ordinary.                                   *)
EXTENDS AnalysisPipeline

CONSTANTS fast, slow

Health(t, disk, high, medium, available) ==
  [kind |-> "health", at |-> t,
   level |-> [c \in Conditions |->
     CASE c = "disk_full" -> disk
       [] c = "memory_pressure_high" -> high
       [] c = "memory_pressure_medium" -> medium
       [] c = "memory_available_low" -> available
       [] OTHER -> "unknown"]]

Full(t) == Health(t, "unknown", "high", "high", "high")
Warm(t) == Health(t, "unknown", "low", "high", "band")
Calm(t) == Health(t, "low", "low", "low", "low")
Disk(t) == Health(t, "high", "low", "low", "unknown")

FailedAt(t) == [kind |-> "failed", at |-> t, unit |-> "unit"]

Exec(t, odd) == [kind |-> "exec", at |-> t, odd |-> odd, entities |-> {"nc", "uid"}]

Traffic == { {Full(0)}, {Full(2), FailedAt(2)}, {Warm(2), Full(4), FailedAt(5)},
             {Calm(4), Calm(6)}, {Disk(4), Disk(6), Exec(1, FALSE)},
             {Exec(0, TRUE), Exec(2, TRUE)}, {Exec(2, TRUE)} }
OneUnit == <<"unit">>
Names   == <<"nc", "uid">>
=============================================================================
