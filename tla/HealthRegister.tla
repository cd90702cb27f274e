--------------------------- MODULE HealthRegister ---------------------------
(* What write_health promises (health.py:95-101): health.json is an atomic      *)
(* register. A write replaces the whole record, a reader gets a whole record,   *)
(* and only a power failure may bring an earlier one back.                      *)

CONSTANTS Records, Absent

VARIABLES
    value,       \* the record a reader that opens the file now gets
    durable,     \* the record a power failure may bring back
    read         \* the record a reader has opened

registerVars == <<value, durable, read>>

Init == value = Absent /\ durable = Absent /\ read = Absent

Commit == value' \in Records /\ UNCHANGED <<durable, read>>

Settle == durable' = value /\ UNCHANGED <<value, read>>

Open == read' \in {value, Absent} /\ UNCHANGED <<value, durable>>

PowerFails ==
    /\ value' \in {value, durable}
    /\ durable' = value'
    /\ read' = Absent

Next == Commit \/ Settle \/ Open \/ PowerFails

Spec == Init /\ [][Next]_registerVars
=============================================================================
