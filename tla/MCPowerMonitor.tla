--------------------------- MODULE MCPowerMonitor ---------------------------
(* The deployed observer on readings that each take evaluate or parse_flux   *)
(* another way.                                                              *)
EXTENDS MonitorDeployment

AllFields == PowerFields \cup WarningFields

\* A whole frame, 20 s old, at 10.8 V, of a box whose warning is complete.
Low ==
  [answer |-> "rows",
   age    |-> [k \in AllFields |-> 20],
   value  |-> [k \in AllFields |->
     CASE k \in {"schema", "warning_schema", "valid", "warning_active"} -> 1
       [] k = "state" -> 2
       [] k = "interval_s" -> 30
       [] k = "sample_age_ms" -> 400
       [] k = "voltage" -> 108
       [] k = "warning_elapsed_s" -> 300
       [] k = "warning_voltage_v" -> 110
       [] k = "warning_required_s" -> 300]]

\* The voltage is as low, and 120 of the 300 s have passed.
Falling == [Low EXCEPT !.value["warning_active"] = 0, !.value["warning_elapsed_s"] = 120]
\* The warning claims to be complete, on a measurement that does not count.
Unmeasured == [Low EXCEPT !.value["valid"] = 0]
\* The box has fallen silent on a low battery.
Silent == [Low EXCEPT !.age = [k \in AllFields |-> 91]]
\* The warning rows are those of an earlier frame.
Torn == [Low EXCEPT !.age["warning_active"] = 50]
\* The warning claims to be complete 1 s early.
Early == [Low EXCEPT !.value["warning_elapsed_s"] = 299]
\* A frame of the firmware before the power schema; no rows at all.
OldFrame == [Low EXCEPT !.age = [k \in {"voltage"} |-> 20]]
Nothing == [Low EXCEPT !.age = <<>>]

MCReadings == {Low, Falling, Torn}

\* evaluate and parse_flux over every combination of good and bad fields:
\* LOW_BATTERY is said of the proven readings and of no other.
Variations ==
  {[Low EXCEPT !.age = [k \in AllFields |-> IF k = late THEN a + 30 ELSE a],
               !.value["valid"] = v, !.value["voltage"] = u, !.value["schema"] = n,
               !.value["warning_active"] = w, !.value["warning_elapsed_s"] = e] :
     late \in {"none", "schema", "voltage", "warning_schema"}, a \in {-6, -5, 90, 91},
     v \in {0, 1}, u \in {0, 108, 111, 161}, n \in {0, 1}, w \in 0..2, e \in {-1, 0, 299, 300, 301}}

ASSUME EvaluateIsExact ==
  /\ \A r \in Variations : Warning(r) <=> (ProvenLow(r) /\ ClosedSchema(r) /\ SensorGood(r))
  /\ {Status(r) : r \in Variations \cup {Low, Falling, Unmeasured, Silent, Torn, Early, OldFrame, Nothing}}
       = {"LOW_BATTERY", "ENERGY_SAVING", "POWER_SENSOR_FAULT", "OFFLINE", "SOURCE_INVALID",
          "LEGACY_FIRMWARE"}
  /\ Status(Nothing) = "OFFLINE" /\ Status(Early) = "SOURCE_INVALID"
=============================================================================
