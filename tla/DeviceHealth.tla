---------------------------- MODULE DeviceHealth ----------------------------
(***************************************************************************)
(* What the health record of a device promises the code that reads it      *)
(* (ntfc.core's status, the pytest plugin, the reader of every transport):  *)
(* a fault stays a fault, perhaps of another sort, until the device is      *)
(* recovered, and a crash always has a type that was chosen when it was     *)
(* entered.                                                                *)
(***************************************************************************)
CONSTANTS CrashTypes, UNKNOWN

VARIABLES health, kind

hvars == <<health, kind>>

Init == health = "NORMAL" /\ kind = UNKNOWN

Crash ==
    /\ health # "CRASHED"
    /\ health' = "CRASHED"
    /\ kind' \in CrashTypes

\* Silence, a failed heartbeat, or output that never ends.
OtherFault ==
    /\ health' \in {"BUSY_LOOP", "UNHEALTHY"}
    /\ UNCHANGED kind

Recover == health' = "NORMAL" /\ kind' = UNKNOWN

Next == Crash \/ OtherFault \/ Recover

Spec == Init /\ [][Next]_hvars

(* A crash is never reported without a type and a device without a fault    *)
(* carries none left over from an earlier crash (get_crash_type).          *)
KindMatchesHealth ==
    /\ health \in {"NORMAL", "BUSY_LOOP", "CRASHED", "UNHEALTHY"}
    /\ health = "CRASHED" => kind \in CrashTypes
    /\ health = "NORMAL" => kind = UNKNOWN
=============================================================================
