-------------------------- MODULE HeartbeatMonitor --------------------------
(***************************************************************************)
(* RemoteAudio with an observer that notes for how long no heartbeat of    *)
(* the slot it streams to has reached an established source.  The observer *)
(* restricts no behaviour.                                                 *)
(***************************************************************************)
EXTENDS RemoteAudio

VARIABLE unheard   \* ticks since a heartbeat reached each source

monitorVars == <<net, slot, epoch, src, unheard>>

MonitorInit == Init /\ unheard = [s \in Sources |-> 0]

(* In this step s takes from the network the last message its slot sent,   *)
(* a heartbeat of the session that is still open: no datagram overtook it. *)
Heard(s) ==
  \E m \in net \ net' :
    /\ Lossy = {}
    /\ m.type = "RA_MESSAGE_CRYPTO"
    /\ m.dst = s
    /\ m.body = HEARTBEAT
    /\ SessionOpen(s)
    /\ m.id = src[s].stream.id
    /\ m.secret = src[s].stream.secret
    /\ m.nonce = slot[m.id].stream.write_nonce

MonitorNext ==
  \/ /\ Step
     /\ unheard' = [s \in Sources |->
                      IF Heard(s) \/ ~Established(s) THEN 0 ELSE unheard[s]]
  \/ /\ Tick
     /\ unheard' = [s \in Sources |->
                      IF Established(s) /\ unheard[s] < HEARTBEAT_TIMEOUT
                        THEN unheard[s] + 1 ELSE unheard[s]]

MonitorSpec == MonitorInit /\ [][MonitorNext]_monitorVars

(* The comment at the timeout check of source_main calls it the heartbeat  *)
(* timeout of the sink: an established source gives up its session only    *)
(* when no heartbeat of the sink reached it for HEARTBEAT_TIMEOUT.         *)
TimeoutMeansSilence ==
  [][\A s \in Sources : Established(s) /\ src'[s].st = 1 =>
       unheard[s] >= HEARTBEAT_TIMEOUT]_monitorVars
=============================================================================
