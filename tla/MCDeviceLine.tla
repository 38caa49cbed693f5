---------------------------- MODULE MCDeviceLine ----------------------------
(***************************************************************************)
(* Callers of DeviceLine for model checking: no caller uses every           *)
(* operation, and every operation is used on a transport that implements it *)
(* in its own way.                                                         *)
(***************************************************************************)
EXTENDS DeviceLine

Restarting == {"start", "ask", "expect", "reboot", "stop"}
Listings   == {"start", "list", "soft"}
Switching  == {"start", "info", "switch"}
Reading    == {"start", "ask", "read", "panic", "poweroff"}

MCSuites ==
    [type \in Transports |->
        CASE type = "host"   -> {Restarting, Listings, Switching}
          [] type = "socket" -> {Restarting, Reading}
          [] type = "serial" -> {Restarting, Listings, Reading}]

=============================================================================
