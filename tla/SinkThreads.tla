---------------------------- MODULE SinkThreads ----------------------------
(***************************************************************************)
(* One slot of the sink, taken apart into the accesses of the two threads  *)
(* that share it without a lock: the main loop, which opens the slot for a *)
(* handshake, decodes its DATA and closes it on TERMINATE, and the         *)
(* background thread's liveness pass, which closes it when it is silent    *)
(* and sends its heartbeats.  Module Sink makes each of these one step;    *)
(* here each store of a field of ra_audio_stream_t is one, and the decoder *)
(* and the PortAudio stream are resources with a life of their own.        *)
(*                                                                         *)
(* A session is one successful look for a free slot.  Its number names its *)
(* key, its source's address, its decoder and its PortAudio stream; 0 is a *)
(* field never set.  overlap and damage are histories: which two           *)
(* activities were under way at once, and what went wrong.                 *)
(***************************************************************************)
EXTENDS Naturals, FiniteSets

CONSTANTS MaxSessions,      \* handshakes the slot is offered (bound)
          LIVENESS_TIMEOUT  \* ticks after which a silent slot is closed

ASSUME SlotAssumption == /\ MaxSessions \in Nat \ {0}
                         /\ LIVENESS_TIMEOUT \in Nat \ {0}

VARIABLES astream,   \* the fields of ra_audio_stream_t the threads share
          decoder,   \* of each session: whether its decoder was destroyed
          paStream,  \* of each session: what PortAudio does with its stream
          pc,        \* where each thread is
          op,        \* the message the main loop handles
          session,   \* the session opened last
          age,       \* ticks since that session was opened or heard of
          decided,   \* the session the liveness pass found silent
          overlap,   \* pairs <<background activity, op>> that overlapped
          damage,    \* what went wrong so far
          noDecoder  \* some opus_decoder_create failed

vars == <<astream, decoder, paStream, pc, op, session, age, decided, overlap,
          damage, noDecoder>>

Sessions == 1 .. MaxSessions
Threads == {"main", "background"}
CloseSteps == {"check", "zero", "destroy", "stop", "close"}
MainSteps == {"idle", "key", "create", "state", "decoder", "pa_stream", "conn",
              "update", "start", "read", "load", "decode"} \cup CloseSteps
BackgroundSteps == {"idle", "look", "heartbeat", "terminate"} \cup CloseSteps
Harms == {"destroyed twice", "used after destroy", "started after close",
          "closed while heard", "terminate astray", "heartbeat astray"}

TypeOK ==
  /\ astream \in [state : {0, 1}, decoder : 0 .. MaxSessions,
                  pa_stream : 0 .. MaxSessions, key : 0 .. MaxSessions,
                  peer : 0 .. MaxSessions, upd : 0 .. LIVENESS_TIMEOUT]
  /\ decoder \in [Sessions -> {"none", "live", "destroyed"}]
  /\ paStream \in [Sessions -> {"none", "open", "started", "closed"}]
  /\ pc \in [Threads -> MainSteps \cup BackgroundSteps]
  /\ pc["main"] \in MainSteps /\ pc["background"] \in BackgroundSteps
  /\ op \in {"none", "init", "data", "terminate"}
  /\ session \in 0 .. MaxSessions /\ decided \in 0 .. MaxSessions
  /\ age \in 0 .. LIVENESS_TIMEOUT
  /\ overlap \subseteq {"close", "look"} \X {"init", "data", "terminate"}
  /\ damage \subseteq Harms
  /\ noDecoder \in BOOLEAN

(* audio_stream_create: malloc leaves every field but state as it finds it.*)
audio_stream_create(t) == [state |-> 0, decoder |-> 0, pa_stream |-> 0,
                           key |-> 0, peer |-> 0, upd |-> t]

Init == /\ \E t \in 0 .. LIVENESS_TIMEOUT : astream = audio_stream_create(t)
        /\ decoder = [k \in Sessions |-> "none"]
        /\ paStream = [k \in Sessions |-> "none"]
        /\ pc = [t \in Threads |-> "idle"]
        /\ op = "none" /\ session = 0 /\ age = 0 /\ decided = 0
        /\ overlap = {} /\ damage = {} /\ noDecoder = FALSE

-----------------------------------------------------------------------------
(* What the background thread does with the slot in this state, and what   *)
(* then overlaps with the message in the main loop.                        *)
Activity(p) == IF p \in CloseSteps \cup {"terminate"} THEN {"close"}
               ELSE IF p \in {"look", "heartbeat"} THEN {"look"} ELSE {}

Recorded == overlap' = overlap \cup (Activity(pc'["background"]) \X
                                     ({op'} \ {"none"}))

At(t, p) == pc[t] = p
GoTo(t, p) == pc' = [pc EXCEPT ![t] = p]
Set(field, v) == astream' = [astream EXCEPT ![field] = v]
Harmed(what, when) == damage' = damage \cup (IF when THEN {what} ELSE {})

slotVars == <<astream, decoder, paStream>>
mainVars == <<op, session, noDecoder>>

-----------------------------------------------------------------------------
(* handle_handshake_init: the slot is free, it is keyed for the new        *)
(* source, and a PortAudio stream and a decoder are created for it, each   *)
(* of which may fail.  The decoder's failure leaves the other open.        *)
(* Fault: a slot in use is offered to the next source.                     *)
HandshakeAnySlot == /\ session < MaxSessions
                    /\ session' = session + 1
                    /\ GoTo("main", "key")

HandshakeFreeSlot == /\ astream.state = 0
                     /\ session < MaxSessions
                     /\ session' = session + 1
                     /\ GoTo("main", "key")

HandleHandshakeInit == /\ At("main", "idle")
                       /\ HandshakeFreeSlot
                       /\ op' = "init"
                       /\ UNCHANGED <<slotVars, age, decided, damage, noDecoder>>

(* Fault: a slot that is used again keeps the key of its last source.      *)
SharedSecretOnce == /\ GoTo("main", "create")
                    /\ IF astream.key = 0 THEN Set("key", session)
                                          ELSE UNCHANGED astream

SharedSecret == GoTo("main", "create") /\ Set("key", session)

ComputeSharedSecret == /\ At("main", "key")
                       /\ SharedSecret
                       /\ UNCHANGED <<decoder, paStream, mainVars, age, decided,
                                      damage>>

CreateResources ==
  /\ At("main", "create")
  /\ \/ /\ GoTo("main", "state")
        /\ paStream' = [paStream EXCEPT ![session] = "open"]
        /\ decoder' = [decoder EXCEPT ![session] = "live"]
        /\ UNCHANGED <<op, noDecoder>>
     \/ /\ GoTo("main", "idle") /\ op' = "none"
        /\ paStream' = [paStream EXCEPT ![session] = "open"]
        /\ noDecoder' = TRUE
        /\ UNCHANGED decoder
     \/ /\ GoTo("main", "idle") /\ op' = "none"
        /\ UNCHANGED <<decoder, paStream, noDecoder>>
  /\ UNCHANGED <<astream, session, age, decided, damage>>

(* The stores of audio_stream_open, state before everything it guards.     *)
OpenStore(p, next, field, v) ==
  /\ At("main", p) /\ GoTo("main", next)
  /\ Set(field, v)
  /\ UNCHANGED <<decoder, paStream, mainVars, decided, damage>>

OpenSetsState == OpenStore("state", "decoder", "state", 1) /\ age' = 0
OpenSetsDecoder == /\ OpenStore("decoder", "pa_stream", "decoder", session)
                   /\ UNCHANGED age
OpenSetsPaStream == /\ OpenStore("pa_stream", "conn", "pa_stream", session)
                    /\ UNCHANGED age
OpenSetsConn == OpenStore("conn", "update", "peer", session) /\ UNCHANGED age

(* Fault: opening does not count as a sign of life.                        *)
OpeningKeepsUpdate == astream.upd

OpeningUpdate == 0
OpenSetsUpdate == /\ OpenStore("update", "start", "upd", OpeningUpdate)
                  /\ UNCHANGED age

StartStream ==
  /\ At("main", "start") /\ GoTo("main", "idle") /\ op' = "none"
  /\ Harmed("started after close", paStream[astream.pa_stream] = "closed")
  /\ paStream' = [paStream EXCEPT ![astream.pa_stream] =
                    IF @ = "open" THEN "started" ELSE @]
  /\ UNCHANGED <<astream, decoder, session, noDecoder, age, decided>>

-----------------------------------------------------------------------------
(* handle_message_crypto: the stream is looked up, the message is read     *)
(* with the key the slot has, and then it is handled.                      *)
(* Fault: the state of the slot is not looked at.                          *)
HeardWhenever == astream.key # 0 /\ GoTo("main", "read")

HeardWhenOpen == astream.state = 1 /\ GoTo("main", "read")

HandleMessageCrypto == /\ At("main", "idle")
                       /\ HeardWhenOpen
                       /\ op' \in {"data", "terminate"}
                       /\ UNCHANGED <<slotVars, session, noDecoder, age, decided,
                                      damage>>

(* What cannot be read (another key, too old a nonce) is dropped.          *)
ReadFails == /\ GoTo("main", "idle") /\ op' = "none"
             /\ UNCHANGED <<astream, age>>

StreamRead ==
  /\ At("main", "read")
  /\ \/ /\ GoTo("main", IF op = "data" THEN "load" ELSE "check")
        /\ Set("upd", 0) /\ age' = 0 /\ UNCHANGED op
     \/ ReadFails
  /\ UNCHANGED <<decoder, paStream, session, noDecoder, decided, damage>>

(* handle_stream_data loads the decoder and decodes with it.               *)
HandleStreamData ==
  /\ At("main", "load") /\ GoTo("main", "decode")
  /\ UNCHANGED <<slotVars, mainVars, age, decided, damage>>

Decode == /\ At("main", "decode") /\ GoTo("main", "idle") /\ op' = "none"
          /\ Harmed("used after destroy",
                    astream.decoder = 0 \/ decoder[astream.decoder] # "live")
          /\ UNCHANGED <<slotVars, session, noDecoder, age, decided>>

-----------------------------------------------------------------------------
(* audio_stream_close, by either thread.                                   *)
AfterClose(t) ==
  IF t = "main" THEN GoTo(t, "idle") /\ op' = "none"
                ELSE GoTo(t, "terminate") /\ UNCHANGED op

CloseChecksState(t) ==
  /\ At(t, "check")
  /\ \/ astream.state = 0 /\ AfterClose(t)
     \/ astream.state = 1 /\ GoTo(t, "zero") /\ UNCHANGED op
  /\ UNCHANGED <<slotVars, session, noDecoder, age, decided, damage>>

(* Fault: the state is left at 1.                                          *)
StateAfterCloseStays == astream.state

StateAfterClose == 0

CloseZeroesState(t) ==
  /\ At(t, "zero") /\ GoTo(t, "destroy")
  /\ Set("state", StateAfterClose)
  /\ Harmed("closed while heard",
            t = "background" /\ age < LIVENESS_TIMEOUT)
  /\ UNCHANGED <<decoder, paStream, mainVars, age, decided>>

(* The fields are loaded again for each call.                              *)
Destroyed(d) == IF d = 0 THEN decoder ELSE [decoder EXCEPT ![d] = "destroyed"]

CloseDestroysDecoder(t) ==
  /\ At(t, "destroy") /\ GoTo(t, "stop")
  /\ decoder' = Destroyed(astream.decoder)
  /\ Harmed("destroyed twice", decoder' = decoder)
  /\ UNCHANGED <<astream, paStream, mainVars, age, decided>>

PaOf(k, s) == IF k = 0 \/ paStream[k] = "closed" THEN paStream
              ELSE [paStream EXCEPT ![k] = s]

CloseStopsStream(t) ==
  /\ At(t, "stop") /\ GoTo(t, "close")
  /\ paStream' = PaOf(astream.pa_stream, "open")
  /\ UNCHANGED <<astream, decoder, mainVars, age, decided, damage>>

(* Fault: the stream is stopped and never given back.                      *)
StreamKept == paStream

StreamClosed == PaOf(astream.pa_stream, "closed")

CloseClosesStream(t) ==
  /\ At(t, "close") /\ AfterClose(t)
  /\ paStream' = StreamClosed
  /\ UNCHANGED <<astream, decoder, session, noDecoder, age, decided, damage>>

AudioStreamClose(t) == \/ CloseChecksState(t) \/ CloseZeroesState(t)
                       \/ CloseDestroysDecoder(t) \/ CloseStopsStream(t)
                       \/ CloseClosesStream(t)

-----------------------------------------------------------------------------
(* handle_liveness: the slot's turn.  decided is the session it finds      *)
(* silent; a turn that finds it alive may owe it a heartbeat.              *)
(* Fault: silence has to last longer than the timeout.                     *)
SilentForLonger == astream.upd > LIVENESS_TIMEOUT

Silent == astream.upd >= LIVENESS_TIMEOUT

LookAtState == /\ At("background", "idle")
               /\ \/ astream.state = 1 /\ GoTo("background", "look")
                  \/ astream.state = 0 /\ UNCHANGED pc
               /\ UNCHANGED <<slotVars, mainVars, age, decided, damage>>

(* Fault: the pass only says goodbye and leaves the slot open.             *)
TurnOfSilentSlotOnlySignals == decided' = session /\ GoTo("background", "terminate")

TurnOfSilentSlot == decided' = session /\ GoTo("background", "check")

LookAtUpdate ==
  /\ At("background", "look")
  /\ \/ Silent /\ TurnOfSilentSlot
     \/ ~Silent /\ GoTo("background", "heartbeat") /\ UNCHANGED decided
     \/ ~Silent /\ GoTo("background", "idle") /\ UNCHANGED decided
  /\ UNCHANGED <<slotVars, mainVars, age, damage>>

Signal(p, what, astray) ==
  /\ At("background", p) /\ GoTo("background", "idle")
  /\ Harmed(what, astray)
  /\ UNCHANGED <<slotVars, mainVars, age, decided>>

SendHeartbeat == Signal("heartbeat", "heartbeat astray",
                        astream.key # astream.peer)

SendTerminate == Signal("terminate", "terminate astray",
                        astream.key # decided \/ astream.peer # decided)

Tick == /\ age < LIVENESS_TIMEOUT \/ astream.upd < LIVENESS_TIMEOUT
        /\ age' = IF age < LIVENESS_TIMEOUT THEN age + 1 ELSE age
        /\ Set("upd", IF Silent THEN astream.upd ELSE astream.upd + 1)
        /\ UNCHANGED <<decoder, paStream, pc, mainVars, decided, damage>>

-----------------------------------------------------------------------------
Opening == \/ ComputeSharedSecret \/ CreateResources \/ OpenSetsState
           \/ OpenSetsDecoder \/ OpenSetsPaStream \/ OpenSetsConn
           \/ OpenSetsUpdate \/ StartStream

MainStep == Opening \/ StreamRead \/ HandleStreamData \/ Decode
            \/ AudioStreamClose("main")

BackgroundStep == \/ LookAtState \/ LookAtUpdate \/ SendHeartbeat
                  \/ SendTerminate \/ AudioStreamClose("background")

Next == /\ \/ HandleHandshakeInit \/ HandleMessageCrypto \/ MainStep
           \/ BackgroundStep \/ Tick
        /\ Recorded

Spec == Init /\ [][Next]_vars

(* Both threads run, and time passes.                                      *)
FairSpec == /\ Spec
            /\ WF_vars(MainStep /\ Recorded)
            /\ WF_vars(BackgroundStep /\ Recorded)
            /\ WF_vars(Tick /\ Recorded)

-----------------------------------------------------------------------------
Overlapped(ops) == \E o \in ops : <<"close", o>> \in overlap
OverlappedTurn == \E a \in {"look", "close"} : <<a, "init">> \in overlap

(* A decoder is destroyed twice, or never set, only after the liveness     *)
(* pass closed the slot while the main loop opened it again or closed it   *)
(* too.  Data in between cannot do it.                                     *)
DestroyedOnce ==
  "destroyed twice" \in damage => Overlapped({"init", "terminate"})

(* The main loop decodes with a destroyed decoder only when the pass       *)
(* closed the slot under a DATA message, or under the reopening that left  *)
(* the slot open on resources the pass then destroyed.                     *)
DecoderAlive == "used after destroy" \in damage => Overlapped({"init", "data"})

(* A session that was heard of within the timeout is closed by the pass    *)
(* only if its message or its handshake was being handled meanwhile.       *)
HeardSessionsStay == "closed while heard" \in damage
                       => Overlapped({"init", "data", "terminate"})

(* A TERMINATE of the pass goes to the source of the session that was      *)
(* silent, and a heartbeat to the source of the slot, each under the key   *)
(* of that source, unless a handshake came for the slot during this turn   *)
(* or an earlier close.                                                    *)
SignalsReachPeer == {"terminate astray", "heartbeat astray"} \cap damage # {}
                      => OverlappedTurn

Reachable(k) == \/ op = "init" /\ k = session
                \/ astream.pa_stream = k
                   /\ (astream.state = 1 \/ \E t \in Threads : pc[t] \in CloseSteps)

(* Every PortAudio stream is closed, or the slot still leads to it: one is *)
(* lost only when a decoder failed, or the slot was reopened in the middle *)
(* of its closing.  Two closings at once lose nothing.                     *)
NothingLost ==
  (\E k \in Sessions : paStream[k] \in {"open", "started"} /\ ~Reachable(k))
    => noDecoder \/ Overlapped({"init"})

(* The ring buffer has one reader, which plays a stream that lives: no two *)
(* callbacks play from one slot, and none is started on a stream that was  *)
(* closed, unless the slot was reopened during its closing.                *)
OneReader == (\/ Cardinality({k \in Sessions : paStream[k] = "started"}) > 1
              \/ "started after close" \in damage)
               => Overlapped({"init"})

(* Whatever overlapped, a session does not stay open and silent.           *)
SilentSlotCloses == []<>(astream.state = 0 \/ age < LIVENESS_TIMEOUT)
=============================================================================
