------------------------------- MODULE Network -------------------------------
(***************************************************************************)
(* The UDP network between the sources and the sink, and the datagrams of  *)
(* src/lib/proto.c.  A datagram in flight may be lost, overtaken by any    *)
(* other and, when MayDuplicate is TRUE, delivered more than once.         *)
(***************************************************************************)
EXTENDS Stream, FiniteSets

CONSTANTS Sources,       \* source processes; each run of the program is one
          SinkAddr,      \* the address of the sink
          MAX_STREAMS,   \* slots of the sink
          MaxEpoch,      \* model bound on the restarts of the sink
          MaxInFlight,   \* model bound on the datagrams in flight
          MayDuplicate   \* whether the network duplicates datagrams

ASSUME NetworkAssumption ==
         /\ SinkAddr \notin Sources
         /\ MAX_STREAMS \in Nat \ {0}
         /\ MaxEpoch \in Nat
         /\ MaxInFlight \in Nat
         /\ MayDuplicate \in BOOLEAN

VARIABLE net             \* the datagrams in flight

Slots == 0 .. MAX_STREAMS - 1
Epochs == 0 .. MaxEpoch  \* the n-th run of the sink, with a key pair of its own

(* ra_compute_shared_secret: both ends hash the same curve point and the   *)
(* same two public keys, and each process has one key pair for its         *)
(* lifetime.  So the secret is a function of the two processes, the same   *)
(* for every slot one sink ever gives to one source.                       *)
SecretOf(s, e) == <<s, e>>
Secrets == Sources \X Epochs

ASSUME SecretsAssumption == NoSecret \notin Secrets

DATA      == "RA_STREAM_DATA"
HEARTBEAT == "RA_STREAM_HEARTBEAT"
TERMINATE == "RA_STREAM_TERMINATE"

InitMessages == [type : {"RA_HANDSHAKE_INIT"}, dst : {SinkAddr}, from : Sources]

ResponseMessages == [type : {"RA_HANDSHAKE_RESPONSE"}, dst : Sources,
                     id : Slots, key : Epochs]

CryptoMessages == [type : {"RA_MESSAGE_CRYPTO"}, dst : Sources \cup {SinkAddr},
                   id : Slots, secret : Secrets \cup {NoSecret},
                   nonce : Nonces, body : {DATA, HEARTBEAT, TERMINATE}]

Messages == InitMessages \cup ResponseMessages \cup CryptoMessages

(* INIT carries the source's public key, and so names its process; the     *)
(* audio format it carries is modelled by the choice of whether the sink   *)
(* can open a stream with it.                                              *)
create_handshake_message(s) ==
  [type |-> "RA_HANDSHAKE_INIT", dst |-> SinkAddr, from |-> s]

(* Fault: the slot is counted from 1.                                      *)
response_with_next_id(s, id, e) ==
  [type |-> "RA_HANDSHAKE_RESPONSE", dst |-> s, id |-> id + 1, key |-> e]

create_handshake_response_message(s, id, e) ==
  [type |-> "RA_HANDSHAKE_RESPONSE", dst |-> s, id |-> id, key |-> e]

(* The datagram ra_stream_send builds on the stream that ra_stream_write   *)
(* returned.                                                               *)
ra_stream_send(written, dst, body) ==
  [type |-> "RA_MESSAGE_CRYPTO", dst |-> dst, id |-> written.id,
   secret |-> written.secret, nonce |-> written.write_nonce, body |-> body]

(* sendto: the datagram is in flight, or is lost for want of buffers.      *)
ra_buf_sendto(inflight, m) ==
  IF Cardinality(inflight \cup {m}) <= MaxInFlight
    THEN inflight \cup {m} ELSE inflight

(* recvfrom: what may be in flight once m was received.                    *)
ra_buf_recvfrom(m) ==
  {net \ {m}} \cup (IF MayDuplicate THEN {net} ELSE {})

Lose(m) == net' = net \ {m}

NetTypeOK == net \subseteq Messages
=============================================================================
