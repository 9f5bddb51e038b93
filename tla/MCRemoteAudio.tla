--------------------------- MODULE MCRemoteAudio ---------------------------
(* Instances of RemoteAudio for TLC: the cfg files choose the sizes.       *)
EXTENDS RemoteAudio, TLC

MCSymmetry == Permutations(Sources)

(* What the network may lose: anything, or handshakes only.                *)
AllTypes == MessageTypes
HandshakeTypes == {"RA_HANDSHAKE_INIT", "RA_HANDSHAKE_RESPONSE"}

(* The values that the never-written last_heartbeat may hold.              *)
ZeroedHeap == {HEARTBEAT_INTERVAL}
AnyHeap == {HEARTBEAT_INTERVAL, NeverDue}
=============================================================================
