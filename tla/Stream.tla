------------------------------- MODULE Stream -------------------------------
(***************************************************************************)
(* The encrypted stream of src/lib/stream.c: the record ra_stream_t and    *)
(* the operations on it, as pure operators that the sink and the source    *)
(* apply to the streams they keep.                                         *)
(*                                                                         *)
(* The nonce is a 64-bit counter in the code.  Here it saturates at        *)
(* MaxNonce, a bound of the model: the messages after the MaxNonce-th one  *)
(* are all as new as that one, hence never too old for the window.         *)
(***************************************************************************)
EXTENDS Integers

CONSTANTS WINDOW_SIZE,  \* how far behind read_nonce a message is still read
          MaxNonce,     \* model bound on the nonces of one stream
          NoSecret      \* the uninitialised secret of a stream never keyed

ASSUME StreamAssumption ==
         /\ WINDOW_SIZE \in Nat
         /\ MaxNonce \in Nat \ {0}

Nonces == 0 .. MaxNonce

(* ra_stream_t: the secret is 32 bytes of key material; who can compute    *)
(* it is all that matters.                                                 *)
Streams(ids, secrets) == [id : ids, secret : secrets \cup {NoSecret},
                          read_nonce : Nonces, write_nonce : Nonces]

ra_stream_reset(stream) ==
  [stream EXCEPT !.read_nonce = 0, !.write_nonce = 0]

(* malloc leaves the secret uninitialised: no other process shares it.     *)
ra_stream_create(id) ==
  [id |-> id, secret |-> NoSecret, read_nonce |-> 0, write_nonce |-> 0]

ra_stream_write(stream) ==
  [stream EXCEPT !.write_nonce = IF @ < MaxNonce THEN @ + 1 ELSE @]

(* Fault: any sender is believed.                                          *)
ReadableUnauthenticated(stream, m) == m.nonce + WINDOW_SIZE >= stream.read_nonce

(* What ra_stream_read checks before it accepts the message m: the window  *)
(* first, then the authenticated decryption.                               *)
Readable(stream, m) ==
  /\ m.nonce + WINDOW_SIZE >= stream.read_nonce
  /\ m.secret = stream.secret
  /\ m.secret # NoSecret

(* The stream after it accepted m.  Nothing remembers which nonces inside  *)
(* the window were already seen.                                           *)
ra_stream_read(stream, m) ==
  [stream EXCEPT !.read_nonce = IF m.nonce > @ THEN m.nonce ELSE @]
=============================================================================
