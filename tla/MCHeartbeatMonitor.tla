------------------------- MODULE MCHeartbeatMonitor -------------------------
(* The instance of HeartbeatMonitor for TLC: the cfg file chooses the size. *)
EXTENDS HeartbeatMonitor

(* last_heartbeat, which is never written, as zeroed memory holds it.       *)
ZeroedHeap == {HEARTBEAT_INTERVAL}
=============================================================================
