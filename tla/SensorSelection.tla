--------------------------- MODULE SensorSelection ---------------------------
(***************************************************************************)
(* The list comprehensions of the client and its callers: what they keep   *)
(* of a list, in its order.                                                *)
(***************************************************************************)
EXTENDS Integers, FiniteSets, SequencesExt

CONSTANT TargetParameters \* TARGET_PARAMETERS

\* [x for x in s if x in S]
Keeping(s, S) == FlattenSeq([i \in DOMAIN s |-> IF s[i] \in S THEN <<s[i]>> ELSE <<>>])

\* filter_sensors_by_parameter(sensors_from_location(location))
TargetSensors(loc) ==
    Keeping(loc.sensors, {s \in ToSet(loc.sensors) : s.parameter \in TargetParameters})
=============================================================================
