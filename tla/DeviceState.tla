---------------------------- MODULE DeviceState ----------------------------
(***************************************************************************)
(* The health record of one device: ntfc.device.state.DeviceStateManager   *)
(* together with the counters of its ntfc.device.heartbeat.HeartbeatMonitor.*)
(*                                                                         *)
(* Every operator below is the body of one critical section (or of two     *)
(* critical sections whose variables no step reads together).  Modules     *)
(* that own threads decide who runs them and in which order.               *)
(*                                                                         *)
(* Time is abstracted: of _last_activity_time the code only ever asks      *)
(* whether it is None and whether it is older than busyloop_threshold.     *)
(***************************************************************************)
EXTENDS Naturals

CONSTANTS
    CrashTypes,     \* the members of CrashType that have signatures
    UNKNOWN         \* CrashType.UNKNOWN

ASSUME UnknownAssumption == UNKNOWN \notin CrashTypes

VARIABLES
    currentState,   \* DeviceStateManager._current_state
    crashType,      \* DeviceStateManager._crash_type
    activity,       \* DeviceStateManager._last_activity_time: None, young, old
    failures,       \* HeartbeatMonitor._heartbeat_failures
    inCommand       \* HeartbeatMonitor._in_command

healthVars == <<currentState, crashType>>
beatVars   == <<failures, inCommand>>
stateVars  == <<currentState, crashType, activity, failures, inCommand>>

DeviceStates == {"NORMAL", "BUSY_LOOP", "CRASHED", "UNHEALTHY"}
Faults       == DeviceStates \ {"NORMAL"}

StateTypeOK ==
    /\ currentState \in DeviceStates
    /\ crashType \in CrashTypes \cup {UNKNOWN}
    /\ activity \in {"none", "recent", "expired"}
    /\ failures \in Nat
    /\ inCommand \in BOOLEAN

StateInit ==
    /\ currentState = "NORMAL"
    /\ crashType = UNKNOWN
    /\ activity = "none"
    /\ failures = 0
    /\ inCommand = FALSE

Healthy   == currentState = "NORMAL"
Unhealthy == currentState \in Faults

-----------------------------------------------------------------------------
(* _transition_to under its lock.  Entering the state the device is in     *)
(* already changes nothing, not even the crash type; any other state is    *)
(* overwritten, whatever it was.                                           *)

TransitionTo(new) ==
    /\ currentState' = new
    /\ UNCHANGED crashType

SetCrashed(type) ==
    /\ currentState' = "CRASHED"
    /\ crashType' = IF currentState = "CRASHED" THEN crashType ELSE type

SetBusyLoop  == TransitionTo("BUSY_LOOP")
SetUnhealthy == TransitionTo("UNHEALTHY")

\* Mutant: the crash type of the last crash survives the reset.
ResetStateKeepsType ==
    /\ currentState' = "NORMAL"
    /\ UNCHANGED crashType
    /\ activity' = "none"

(* reset_all_states: the first critical section, and the heartbeat's reset *)
(* that follows it under another lock.                                     *)
ResetState ==
    /\ currentState' = "NORMAL"
    /\ crashType' = UNKNOWN
    /\ activity' = "none"

ResetFailures == failures' = 0

(* update_activity: a non-empty chunk was read. *)
UpdateActivity ==
    /\ activity' = "recent"
    /\ failures' = 0

(* check_busy_loop_timeout without its transition: the silence has lasted   *)
(* longer than the threshold.                                              *)
SilentTooLong == activity = "expired"

MarkCommandStart == inCommand' = TRUE

\* Mutant: the end of a command leaves the failure count alone.
MarkCommandEndKeepsCount ==
    /\ inCommand' = FALSE
    /\ UNCHANGED failures
    /\ activity' = "recent"

MarkCommandEnd ==
    /\ inCommand' = FALSE
    /\ failures' = 0
    /\ activity' = "recent"

(* The clock: busyloop_threshold seconds pass with nothing recorded. *)
Silence ==
    /\ activity = "recent"
    /\ activity' = "expired"
=============================================================================
