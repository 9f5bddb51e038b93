------------------------- MODULE SinkThreadsProofs -------------------------
(***************************************************************************)
(* Proofs about SinkThreads, for every number of sessions and every        *)
(* timeout: without an overlap of the kind it names, no damage is done.    *)
(*                                                                         *)
(* Each safety property says "this harm came only after that overlap".     *)
(* Its inductive form is a disjunction: the overlap was recorded, or the   *)
(* slot and the two threads stand as the code's author meant them to.      *)
(***************************************************************************)
EXTENDS SinkThreads, FiniteSetTheorems, TLAPS

main == pc["main"]
background == pc["background"]
Closing == CloseSteps \cup {"terminate"}
Opens == {"key", "create", "state", "decoder", "pa_stream", "conn", "update",
          "start"}

(* Where the main loop is tells the message it handles.                    *)
PcInv ==
  /\ main = "idle" <=> op = "none"
  /\ main \in Opens <=> op = "init"
  /\ main \in {"load", "decode"} => op = "data"
  /\ main \in CloseSteps => op = "terminate"
  /\ op = "init" => session # 0
  /\ main \in {"key", "create", "state"} => astream.state = 0
  /\ main = "read" => op \in {"data", "terminate"}

(* A session's PortAudio stream is not there before the session opens it,  *)
(* and until then the slot has an older one.                               *)
FreshInv ==
  /\ \A k \in Sessions : k > session => paStream[k] = "none"
  /\ astream.pa_stream <= session
  /\ main \in {"key", "create"}
       => paStream[session] = "none" /\ astream.pa_stream < session

(* What the background thread does now, beside a message, is recorded.     *)
RecordInv ==
  /\ op # "none" /\ background \in Closing => <<"close", op>> \in overlap
  /\ op # "none" /\ background \in {"look", "heartbeat"}
       => <<"look", op>> \in overlap

(* The slot is one session's, key and peer, whenever the background        *)
(* thread is about to signal.                                              *)
PeerInv ==
  OverlappedTurn \/
    /\ {"terminate astray", "heartbeat astray"} \cap damage = {}
    /\ background # "idle" => astream.key = session /\ astream.peer = session
    /\ background \in Closing => decided = session
    /\ op # "init" /\ astream.state = 1
         => astream.key = session /\ astream.peer = session
    /\ main \in Opens \ {"key"} => astream.key = session
    /\ main \in {"update", "start"} => astream.peer = session

(* The slot's last sign of life is no older than the session's.            *)
UpdInv ==
  (op # "init" \/ main = "start") /\ astream.state = 1 => age >= astream.upd

(* A pass that decided to close found the session silent, and it still     *)
(* is.                                                                     *)
HeardInv ==
  Overlapped({"init", "data", "terminate"}) \/
    /\ "closed while heard" \notin damage
    /\ background = "check" /\ astream.state = 1 => age = LIVENESS_TIMEOUT
    /\ background = "zero" => age = LIVENESS_TIMEOUT

Live == astream.decoder # 0 /\ decoder[astream.decoder] = "live"
Past == {"destroy", "stop", "close"}

(* An open slot's decoder lives, and a closing slot is shut.               *)
LiveInv ==
  Overlapped({"init"}) \/
    /\ op # "init" /\ astream.state = 1 => Live
    /\ main \in Past \/ background \in Past => astream.state = 0
    /\ main \in {"state", "decoder"} => decoder[session] = "live"
    /\ main \in {"pa_stream", "conn", "update", "start"} => Live

(* Who is about to destroy the decoder is the first to do so.              *)
DestroyInv ==
  Overlapped({"init", "terminate"}) \/
    /\ "destroyed twice" \notin damage
    /\ main \in {"zero", "destroy"} \/ background \in {"zero", "destroy"}
         => Live

(* A DATA message finds the decoder alive.                                 *)
AliveInv ==
  Overlapped({"init", "data"}) \/
    /\ "used after destroy" \notin damage
    /\ op = "data" => Live

Leads(k) == /\ astream.pa_stream = k
            /\ astream.state = 1 \/ main \in Past \/ background \in Past

(* Only the slot's own PortAudio stream plays, while the slot is open or   *)
(* on its way to close it.                                                 *)
PaInv ==
  Overlapped({"init"}) \/
    /\ "started after close" \notin damage
    /\ main \in {"state", "decoder", "pa_stream", "conn", "update", "start"}
         => paStream[session] = "open"
    /\ main \in {"conn", "update", "start"} => astream.pa_stream = session
    /\ main \in Opens \ {"key", "create", "state"} => astream.state = 1
    /\ \A k \in Sessions : paStream[k] = "started" => op # "init" /\ Leads(k)

(* A stream not closed yet is the slot's, or the one being opened.         *)
LostInv ==
  noDecoder \/ Overlapped({"init"}) \/
     \A k \in Sessions : paStream[k] \in {"open", "started"} =>
        (op = "init" /\ k = session) \/ (op # "init" /\ Leads(k))

Inv == /\ PcInv /\ FreshInv /\ RecordInv /\ PeerInv /\ UpdInv /\ HeardInv
       /\ LiveInv /\ DestroyInv /\ AliveInv /\ PaInv /\ LostInv

Slots == [state : {0, 1}, decoder : 0 .. MaxSessions,
          pa_stream : 0 .. MaxSessions, key : 0 .. MaxSessions,
          peer : 0 .. MaxSessions, upd : 0 .. LIVENESS_TIMEOUT]

(* What the type invariant says of all but the two histories.              *)
TypeFacts ==
  /\ MaxSessions \in Nat /\ LIVENESS_TIMEOUT \in Nat
  /\ Sessions = 1 .. MaxSessions
  /\ astream \in Slots
  /\ pc \in [Threads -> MainSteps \cup BackgroundSteps]
  /\ pc["main"] \in MainSteps /\ pc["background"] \in BackgroundSteps
  /\ decoder \in [Sessions -> {"none", "live", "destroyed"}]
  /\ paStream \in [Sessions -> {"none", "open", "started", "closed"}]
  /\ op \in {"none", "init", "data", "terminate"}
  /\ session \in 0 .. MaxSessions /\ decided \in 0 .. MaxSessions
  /\ age \in 0 .. LIVENESS_TIMEOUT /\ noDecoder \in BOOLEAN

-----------------------------------------------------------------------------
(* The type invariant gives the types.                                     *)
LEMMA TypeIs == ASSUME TypeOK PROVE TypeFacts
BY SlotAssumption DEF TypeOK, TypeFacts, Slots, Sessions

(* A recorded overlap stays, and the step's own is recorded.               *)
LEMMA RecordGrows ==
  ASSUME Recorded
  PROVE  /\ overlap \subseteq overlap'
         /\ pc'["background"] \in Closing /\ op' # "none"
              => <<"close", op'>> \in overlap'
         /\ pc'["background"] \in {"look", "heartbeat"} /\ op' # "none"
              => <<"look", op'>> \in overlap'
BY DEF Recorded, Activity, Closing, CloseSteps

(* A thread that goes somewhere leaves the other where it is.              *)
LEMMA Moves ==
  ASSUME TypeFacts, NEW t \in Threads, NEW p, GoTo(t, p)
  PROVE  /\ pc'[t] = p
         /\ \A u \in Threads \ {t} : pc'[u] = pc[u]
BY DEF TypeFacts, GoTo, Threads

(* What creating the stream and the decoder does, in its three outcomes.   *)
LEMMA CreateEffect ==
  ASSUME TypeFacts, PcInv, CreateResources
  PROVE  /\ session \in Sessions /\ op = "init" /\ main = "create"
         /\ main' \in {"state", "idle"} /\ background' = background
         /\ UNCHANGED <<astream, session, age, decided, damage>>
         /\ astream.state = 0
         /\ main' = "state" => /\ op' = "init" /\ noDecoder' = noDecoder
                               /\ decoder'[session] = "live"
                               /\ paStream'[session] = "open"
                               /\ \A k \in Sessions \ {session} :
                                     paStream'[k] = paStream[k]
         /\ main' = "idle" => /\ op' = "none" /\ decoder' = decoder
                              /\ noDecoder' = TRUE \/ paStream' = paStream
         /\ noDecoder = TRUE => noDecoder' = TRUE
         /\ \A k \in Sessions : paStream'[k] \in {paStream[k], "open"}
<1>0. /\ main = "create" /\ op = "init" /\ session \in Sessions
      /\ astream.state = 0 /\ "main" \in Threads /\ "background" \in Threads
      /\ UNCHANGED <<astream, session, age, decided, damage>>
  BY DEF CreateResources, At, main, PcInv, Opens, TypeFacts, Threads
<1>1. CASE /\ GoTo("main", "state")
           /\ paStream' = [paStream EXCEPT ![session] = "open"]
           /\ decoder' = [decoder EXCEPT ![session] = "live"]
           /\ UNCHANGED <<op, noDecoder>>
  BY <1>0, <1>1, Moves DEF main, background, TypeFacts
<1>2. CASE /\ GoTo("main", "idle") /\ op' = "none"
           /\ paStream' = [paStream EXCEPT ![session] = "open"]
           /\ noDecoder' = TRUE
           /\ UNCHANGED decoder
  BY <1>0, <1>2, Moves DEF main, background, TypeFacts
<1>3. CASE /\ GoTo("main", "idle") /\ op' = "none"
           /\ UNCHANGED <<decoder, paStream, noDecoder>>
  BY <1>0, <1>3, Moves DEF main, background, TypeFacts
<1> QED BY <1>1, <1>2, <1>3 DEF CreateResources

(* What reading a message does, whether it can be read or not.             *)
LEMMA ReadEffect ==
  ASSUME TypeFacts, PcInv, StreamRead
  PROVE  /\ main = "read" /\ op \in {"data", "terminate"}
         /\ main' \in {"load", "check", "idle"} /\ background' = background
         /\ op' \in {"none", op}
         /\ UNCHANGED <<paStream, session, noDecoder, damage>>
         /\ astream'.state = astream.state
         /\ astream'.pa_stream = astream.pa_stream
<1>0. /\ "main" \in Threads /\ "background" \in Threads
      /\ main = "read" /\ op \in {"data", "terminate"}
  BY DEF StreamRead, At, main, PcInv, Threads
<1>1. /\ op' \in {"none", op}
      /\ UNCHANGED <<paStream, session, noDecoder, damage>>
      /\ astream' = astream \/ astream' = [astream EXCEPT !.upd = 0]
  BY DEF StreamRead, ReadFails, Set
<1>2. /\ astream'.state = astream.state
      /\ astream'.pa_stream = astream.pa_stream
  BY <1>1 DEF TypeFacts, Slots
<1>3. \E p \in {"load", "check", "idle"} : GoTo("main", p)
  BY DEF StreamRead, ReadFails
<1>4. main' \in {"load", "check", "idle"} /\ background' = background
  BY <1>0, <1>3, Moves DEF main, background
<1> QED BY <1>0, <1>1, <1>2, <1>4

(* The overlaps the properties name are never forgotten.                   *)
LEMMA OverlapStays ==
  ASSUME Recorded
  PROVE  /\ OverlappedTurn => OverlappedTurn'
         /\ Overlapped({"init"}) => Overlapped({"init"})'
         /\ Overlapped({"init", "data"}) => Overlapped({"init", "data"})'
         /\ Overlapped({"init", "terminate"})
              => Overlapped({"init", "terminate"})'
         /\ Overlapped({"init", "data", "terminate"})
              => Overlapped({"init", "data", "terminate"})'
BY RecordGrows DEF Overlapped, OverlappedTurn

(* A closing that runs beside a message is an overlap of that kind.        *)
LEMMA RecordedNow ==
  ASSUME Recorded, background' \in Closing
  PROVE  /\ op' = "init" => /\ OverlappedTurn' /\ Overlapped({"init"})'
                            /\ Overlapped({"init", "terminate"})'
         /\ op' = "terminate" => Overlapped({"init", "terminate"})'
         /\ op' \in {"init", "data"} => Overlapped({"init", "data"})'
         /\ op' \in {"init", "data", "terminate"}
              => Overlapped({"init", "data", "terminate"})'
BY RecordGrows DEF Overlapped, OverlappedTurn, background

(* Closing the PortAudio stream touches no other session's.                *)
LEMMA CloseShuts ==
  ASSUME TypeFacts, NEW t \in Threads, CloseClosesStream(t)
  PROVE  /\ pc[t] = "close" /\ pc'[t] \in {"idle", "terminate"}
         /\ \A u \in Threads \ {t} : pc'[u] = pc[u]
         /\ t = "main" => pc'[t] = "idle" /\ op' = "none"
         /\ t = "background" => pc'[t] = "terminate" /\ op' = op
         /\ UNCHANGED <<astream, session>> /\ noDecoder' = noDecoder
         /\ \A k \in Sessions : k # astream.pa_stream
              => paStream'[k] = paStream[k]
         /\ \A k \in Sessions : k = astream.pa_stream
              => paStream'[k] = "closed"
<1>0. astream.pa_stream \in 0 .. MaxSessions
      /\ (astream.pa_stream \in Sessions \/ astream.pa_stream = 0)
  BY DEF TypeFacts, Slots
<1>1. UNCHANGED <<astream, session>> /\ noDecoder' = noDecoder
      /\ pc[t] = "close"
  BY DEF CloseClosesStream, At
<1>2. ASSUME t = "main"
      PROVE  pc'[t] = "idle" /\ op' = "none"
             /\ \A u \in Threads \ {t} : pc'[u] = pc[u]
  <2>1. GoTo("main", "idle") /\ op' = "none"
    BY <1>2 DEF CloseClosesStream, AfterClose
  <2> QED BY <1>2, <2>1, Moves
<1>3. ASSUME t = "background"
      PROVE  /\ pc'[t] = "terminate" /\ op' = op
             /\ \A u \in Threads \ {t} : pc'[u] = pc[u]
  <2>1. GoTo("background", "terminate") /\ op' = op
    BY <1>3 DEF CloseClosesStream, AfterClose
  <2> QED BY <1>3, <2>1, Moves
<1>4. /\ \A k \in Sessions : k # astream.pa_stream
           => paStream'[k] = paStream[k]
      /\ \A k \in Sessions : k = astream.pa_stream => paStream'[k] = "closed"
  BY <1>0 DEF CloseClosesStream, StreamClosed, PaOf, TypeFacts
<1> QED BY <1>1, <1>2, <1>3, <1>4 DEF Threads

(* Destroying the decoder touches no other session's, and is a harm only   *)
(* when that decoder is not alive.                                         *)
LEMMA DestroyEffect ==
  ASSUME TypeFacts, NEW t \in Threads, CloseDestroysDecoder(t)
  PROVE  /\ pc[t] = "destroy" /\ pc'[t] = "stop"
         /\ \A u \in Threads \ {t} : pc'[u] = pc[u]
         /\ UNCHANGED <<astream, mainVars, age>>
         /\ \A k \in Sessions : k # astream.decoder
              => decoder'[k] = decoder[k]
         /\ astream.decoder # 0 /\ decoder[astream.decoder] = "live"
              /\ "destroyed twice" \notin damage
                   => "destroyed twice" \notin damage'
         /\ astream.decoder \in Sessions \/ astream.decoder = 0
<1>0. astream.decoder \in Sessions \/ astream.decoder = 0
  BY DEF TypeFacts, Slots
<1>1. /\ pc[t] = "destroy" /\ UNCHANGED <<astream, mainVars, age>>
      /\ GoTo(t, "stop")
  BY DEF CloseDestroysDecoder, At
<1>2. pc'[t] = "stop" /\ \A u \in Threads \ {t} : pc'[u] = pc[u]
  BY <1>1, Moves
<1>3. \A k \in Sessions : k # astream.decoder => decoder'[k] = decoder[k]
  BY <1>0 DEF CloseDestroysDecoder, Destroyed, TypeFacts
<1>4. ASSUME astream.decoder # 0, decoder[astream.decoder] = "live",
             "destroyed twice" \notin damage
      PROVE  "destroyed twice" \notin damage'
  <2>1. decoder'[astream.decoder] = "destroyed"
    BY <1>0, <1>4 DEF CloseDestroysDecoder, Destroyed, TypeFacts
  <2>2. decoder' # decoder
    BY <2>1, <1>4
  <2> QED BY <2>2, <1>4 DEF CloseDestroysDecoder, Harmed
<1> QED BY <1>0, <1>1, <1>2, <1>3, <1>4

(* Stores of a flag and of a tick keep the slot's type.                    *)
LEMMA SetTyped ==
  ASSUME TypeFacts
  PROVE  /\ 0 \in 0 .. LIVENESS_TIMEOUT
         /\ Set("state", 1) => astream' \in Slots
         /\ \A v \in 0 .. LIVENESS_TIMEOUT : Set("upd", v)
              => astream' \in Slots
<1>1. LIVENESS_TIMEOUT \in Nat /\ astream \in Slots
  BY DEF TypeFacts
<1>2. 0 \in 0 .. LIVENESS_TIMEOUT
  BY <1>1
<1>3. Set("state", 1) => astream' \in Slots
  BY <1>1 DEF Set, Slots
<1>4. ASSUME NEW v \in 0 .. LIVENESS_TIMEOUT, Set("upd", v)
      PROVE  astream' \in Slots
  BY <1>1, <1>4 DEF Set, Slots
<1> QED BY <1>2, <1>3, <1>4

(* Every step keeps the types.                                             *)
LEMMA FactsStep ==
  ASSUME TypeOK, [Next]_vars
  PROVE  TypeFacts'
<1>0. TypeFacts
  BY TypeIs
<1> USE <1>0
   DEF TypeFacts, Threads, At, GoTo, Set, slotVars, mainVars, main,
   background, MainSteps, BackgroundSteps, CloseSteps, Opens, Closing, Slots,
   Silent
<1>1. CASE HandleHandshakeInit /\ Recorded
  BY <1>1, RecordGrows, SlotAssumption
     DEF HandleHandshakeInit, HandshakeFreeSlot
<1>2. CASE ComputeSharedSecret /\ Recorded
  BY <1>2, RecordGrows, SlotAssumption DEF ComputeSharedSecret, SharedSecret
<1>3. CASE CreateResources /\ Recorded
  <2>1. /\ astream' = astream /\ session' = session /\ age' = age
        /\ decided' = decided
        /\ pc' \in [Threads -> MainSteps \cup BackgroundSteps]
        /\ pc'["main"] \in MainSteps /\ pc'["background"] \in BackgroundSteps
        /\ op' \in {"none", op}
    BY <1>3 DEF CreateResources
  <2>2. /\ decoder' \in {decoder, [decoder EXCEPT ![session] = "live"]}
        /\ paStream' \in {paStream, [paStream EXCEPT ![session] = "open"]}
    BY ONLY <1>3 DEF CreateResources
  <2>3. noDecoder' \in BOOLEAN
    BY <1>3 DEF CreateResources
  <2> QED BY <2>1, <2>2, <2>3
<1>4. CASE OpenSetsState /\ Recorded
  <2>1. astream' \in Slots /\ age' \in 0 .. LIVENESS_TIMEOUT
    BY ONLY <1>0, SetTyped, <1>4 DEF OpenSetsState, OpenStore
  <2>2. UNCHANGED <<decoder, paStream, op, session, noDecoder, decided>>
    BY ONLY <1>4 DEF OpenSetsState, OpenStore, mainVars
  <2>3. pc' \in [Threads -> MainSteps \cup BackgroundSteps]
        /\ pc'["main"] \in MainSteps /\ pc'["background"] \in BackgroundSteps
    BY <1>4 DEF OpenSetsState, OpenStore
  <2> QED BY <2>1, <2>2, <2>3
<1>5. CASE OpenSetsDecoder /\ Recorded
  BY <1>5, RecordGrows, SlotAssumption DEF OpenSetsDecoder, OpenStore
<1>6. CASE OpenSetsPaStream /\ Recorded
  BY <1>6, RecordGrows, SlotAssumption DEF OpenSetsPaStream, OpenStore
<1>7. CASE OpenSetsConn /\ Recorded
  BY <1>7, RecordGrows, SlotAssumption DEF OpenSetsConn, OpenStore
<1>8. CASE OpenSetsUpdate /\ Recorded
  <2>1. astream' \in Slots /\ age' \in 0 .. LIVENESS_TIMEOUT
    BY ONLY <1>0, SetTyped, <1>8
       DEF OpenSetsUpdate, OpenStore, OpeningUpdate, TypeFacts
  <2>2. UNCHANGED <<decoder, paStream, op, session, noDecoder, decided>>
    BY ONLY <1>8 DEF OpenSetsUpdate, OpenStore, OpeningUpdate, mainVars
  <2>3. pc' \in [Threads -> MainSteps \cup BackgroundSteps]
        /\ pc'["main"] \in MainSteps /\ pc'["background"] \in BackgroundSteps
    BY <1>8 DEF OpenSetsUpdate, OpenStore, OpeningUpdate
  <2> QED BY <2>1, <2>2, <2>3
<1>9. CASE StartStream /\ Recorded
  BY <1>9, RecordGrows, SlotAssumption DEF StartStream
<1>10. CASE HandleMessageCrypto /\ Recorded
  BY <1>10, RecordGrows, SlotAssumption DEF HandleMessageCrypto, HeardWhenOpen
<1>11. CASE StreamRead /\ Recorded
  <2>1. astream' \in Slots /\ age' \in 0 .. LIVENESS_TIMEOUT
    BY ONLY <1>0, SetTyped, <1>11 DEF StreamRead, ReadFails
  <2>2. /\ UNCHANGED <<decoder, paStream, session, noDecoder, decided>>
        /\ op' \in {"none", op}
    BY ONLY <1>11 DEF StreamRead, ReadFails
  <2>3. pc' \in [Threads -> MainSteps \cup BackgroundSteps]
        /\ pc'["main"] \in MainSteps /\ pc'["background"] \in BackgroundSteps
    BY <1>11 DEF StreamRead, ReadFails
  <2> QED BY <2>1, <2>2, <2>3
<1>12. CASE HandleStreamData /\ Recorded
  BY <1>12, RecordGrows, SlotAssumption DEF HandleStreamData
<1>13. CASE Decode /\ Recorded
  BY <1>13, RecordGrows, SlotAssumption DEF Decode
<1>14. CASE LookAtState /\ Recorded
  BY <1>14, RecordGrows, SlotAssumption DEF LookAtState
<1>15. CASE LookAtUpdate /\ Recorded
  BY <1>15, RecordGrows, SlotAssumption
     DEF LookAtUpdate, Silent, TurnOfSilentSlot
<1>16. CASE SendHeartbeat /\ Recorded
  BY <1>16, RecordGrows, SlotAssumption DEF SendHeartbeat, Signal
<1>17. CASE SendTerminate /\ Recorded
  BY <1>17, RecordGrows, SlotAssumption DEF SendTerminate, Signal
<1>18. CASE Tick /\ Recorded
  <2>1. age' \in 0 .. LIVENESS_TIMEOUT
    BY <1>18 DEF Tick
  <2>2. (IF Silent THEN astream.upd ELSE astream.upd + 1)
          \in 0 .. LIVENESS_TIMEOUT
    BY DEF Silent
  <2>3. astream' \in Slots
    BY ONLY <1>0, <2>2, SetTyped, <1>18 DEF Tick
  <2>4. UNCHANGED <<decoder, paStream, pc, op, session, noDecoder, decided>>
    BY ONLY <1>18 DEF Tick, mainVars
  <2> QED BY ONLY <1>0, <2>1, <2>3, <2>4 DEF TypeFacts
<1>19. ASSUME NEW t \in Threads, CloseChecksState(t), Recorded
       PROVE  TypeFacts'
  BY <1>19, RecordGrows, SlotAssumption DEF CloseChecksState, AfterClose
<1>20. ASSUME NEW t \in Threads, CloseZeroesState(t), Recorded
       PROVE  TypeFacts'
  BY <1>20, RecordGrows, SlotAssumption DEF CloseZeroesState, StateAfterClose
<1>21. ASSUME NEW t \in Threads, CloseDestroysDecoder(t), Recorded
       PROVE  TypeFacts'
  BY <1>21, RecordGrows, SlotAssumption DEF CloseDestroysDecoder, Destroyed
<1>22. ASSUME NEW t \in Threads, CloseStopsStream(t), Recorded
       PROVE  TypeFacts'
  BY <1>22, RecordGrows, SlotAssumption DEF CloseStopsStream, PaOf
<1>23. ASSUME NEW t \in Threads, CloseClosesStream(t), Recorded
       PROVE  TypeFacts'
  BY <1>23, RecordGrows, SlotAssumption
     DEF CloseClosesStream, AfterClose, StreamClosed, PaOf
<1>24. CASE UNCHANGED vars
  BY <1>24 DEF vars
<1> QED
  BY <1>1, <1>2, <1>3, <1>4, <1>5, <1>6, <1>7, <1>8, <1>9, <1>10, <1>11,
     <1>12, <1>13, <1>14, <1>15, <1>16, <1>17, <1>18, <1>19, <1>20, <1>21,
     <1>22, <1>23, <1>24
  DEF Next, Opening, MainStep, BackgroundStep, AudioStreamClose

(* Every step keeps damage a set of the harms.                             *)
LEMMA DamageStep ==
  ASSUME TypeOK, damage \subseteq Harms, [Next]_vars
  PROVE  damage' \subseteq Harms
<1>0. TypeFacts
  BY TypeIs
<1> USE <1>0
   DEF TypeFacts, Threads, At, GoTo, Set, slotVars, mainVars, main,
   background, MainSteps, BackgroundSteps, CloseSteps, Opens, Closing, Slots,
   Harmed, Harms
<1>1. CASE HandleHandshakeInit /\ Recorded
  BY <1>1, RecordGrows DEF HandleHandshakeInit, HandshakeFreeSlot
<1>2. CASE ComputeSharedSecret /\ Recorded
  BY <1>2, RecordGrows DEF ComputeSharedSecret, SharedSecret
<1>3. CASE CreateResources /\ Recorded
  BY <1>3, RecordGrows DEF CreateResources
<1>4. CASE OpenSetsState /\ Recorded
  BY <1>4, RecordGrows DEF OpenSetsState, OpenStore
<1>5. CASE OpenSetsDecoder /\ Recorded
  BY <1>5, RecordGrows DEF OpenSetsDecoder, OpenStore
<1>6. CASE OpenSetsPaStream /\ Recorded
  BY <1>6, RecordGrows DEF OpenSetsPaStream, OpenStore
<1>7. CASE OpenSetsConn /\ Recorded
  BY <1>7, RecordGrows DEF OpenSetsConn, OpenStore
<1>8. CASE OpenSetsUpdate /\ Recorded
  BY <1>8, RecordGrows DEF OpenSetsUpdate, OpenStore, OpeningUpdate
<1>9. CASE StartStream /\ Recorded
  BY <1>9, RecordGrows DEF StartStream
<1>10. CASE HandleMessageCrypto /\ Recorded
  BY <1>10, RecordGrows DEF HandleMessageCrypto, HeardWhenOpen
<1>11. CASE StreamRead /\ Recorded
  BY <1>11, RecordGrows DEF StreamRead, ReadFails
<1>12. CASE HandleStreamData /\ Recorded
  BY <1>12, RecordGrows DEF HandleStreamData
<1>13. CASE Decode /\ Recorded
  BY <1>13, RecordGrows DEF Decode
<1>14. CASE LookAtState /\ Recorded
  BY <1>14, RecordGrows DEF LookAtState
<1>15. CASE LookAtUpdate /\ Recorded
  BY <1>15, RecordGrows DEF LookAtUpdate, Silent, TurnOfSilentSlot
<1>16. CASE SendHeartbeat /\ Recorded
  BY <1>16, RecordGrows DEF SendHeartbeat, Signal
<1>17. CASE SendTerminate /\ Recorded
  BY <1>17, RecordGrows DEF SendTerminate, Signal
<1>18. CASE Tick /\ Recorded
  BY <1>18, RecordGrows DEF Tick, Silent
<1>19. ASSUME NEW t \in Threads, CloseChecksState(t), Recorded
       PROVE  damage' \subseteq Harms
  BY <1>19, RecordGrows DEF CloseChecksState, AfterClose
<1>20. ASSUME NEW t \in Threads, CloseZeroesState(t), Recorded
       PROVE  damage' \subseteq Harms
  BY <1>20, RecordGrows DEF CloseZeroesState, StateAfterClose
<1>21. ASSUME NEW t \in Threads, CloseDestroysDecoder(t), Recorded
       PROVE  damage' \subseteq Harms
  BY <1>21, RecordGrows DEF CloseDestroysDecoder, Destroyed
<1>22. ASSUME NEW t \in Threads, CloseStopsStream(t), Recorded
       PROVE  damage' \subseteq Harms
  BY <1>22, RecordGrows DEF CloseStopsStream, PaOf
<1>23. ASSUME NEW t \in Threads, CloseClosesStream(t), Recorded
       PROVE  damage' \subseteq Harms
  BY <1>23, RecordGrows DEF CloseClosesStream, AfterClose, StreamClosed, PaOf
<1>24. CASE UNCHANGED vars
  BY <1>24 DEF vars
<1> QED
  BY <1>1, <1>2, <1>3, <1>4, <1>5, <1>6, <1>7, <1>8, <1>9, <1>10, <1>11,
     <1>12, <1>13, <1>14, <1>15, <1>16, <1>17, <1>18, <1>19, <1>20, <1>21,
     <1>22, <1>23, <1>24
  DEF Next, Opening, MainStep, BackgroundStep, AudioStreamClose

(* Every step keeps the agreement of place and message.                    *)
LEMMA PcStep ==
  ASSUME TypeOK, PcInv, [Next]_vars
  PROVE  PcInv'
<1>0. TypeFacts
  BY TypeIs
<1> USE <1>0
   DEF TypeFacts, Threads, At, GoTo, Set, slotVars, mainVars, main,
   background, MainSteps, BackgroundSteps, CloseSteps, Opens, Closing, Slots,
   PcInv
<1>1. CASE HandleHandshakeInit /\ Recorded
  BY <1>1, RecordGrows DEF HandleHandshakeInit, HandshakeFreeSlot
<1>2. CASE ComputeSharedSecret /\ Recorded
  BY <1>2, RecordGrows DEF ComputeSharedSecret, SharedSecret
<1>3. CASE CreateResources /\ Recorded
  BY <1>3, RecordGrows DEF CreateResources
<1>4. CASE OpenSetsState /\ Recorded
  BY <1>4, RecordGrows DEF OpenSetsState, OpenStore
<1>5. CASE OpenSetsDecoder /\ Recorded
  BY <1>5, RecordGrows DEF OpenSetsDecoder, OpenStore
<1>6. CASE OpenSetsPaStream /\ Recorded
  BY <1>6, RecordGrows DEF OpenSetsPaStream, OpenStore
<1>7. CASE OpenSetsConn /\ Recorded
  BY <1>7, RecordGrows DEF OpenSetsConn, OpenStore
<1>8. CASE OpenSetsUpdate /\ Recorded
  BY <1>8, RecordGrows DEF OpenSetsUpdate, OpenStore, OpeningUpdate
<1>9. CASE StartStream /\ Recorded
  BY <1>9, RecordGrows DEF StartStream
<1>10. CASE HandleMessageCrypto /\ Recorded
  BY <1>10, RecordGrows DEF HandleMessageCrypto, HeardWhenOpen
<1>11. CASE StreamRead /\ Recorded
  BY <1>11, RecordGrows DEF StreamRead, ReadFails
<1>12. CASE HandleStreamData /\ Recorded
  BY <1>12, RecordGrows DEF HandleStreamData
<1>13. CASE Decode /\ Recorded
  BY <1>13, RecordGrows DEF Decode
<1>14. CASE LookAtState /\ Recorded
  BY <1>14, RecordGrows DEF LookAtState
<1>15. CASE LookAtUpdate /\ Recorded
  BY <1>15, RecordGrows DEF LookAtUpdate, Silent, TurnOfSilentSlot
<1>16. CASE SendHeartbeat /\ Recorded
  BY <1>16, RecordGrows DEF SendHeartbeat, Signal
<1>17. CASE SendTerminate /\ Recorded
  BY <1>17, RecordGrows DEF SendTerminate, Signal
<1>18. CASE Tick /\ Recorded
  BY <1>18, RecordGrows DEF Tick, Silent
<1>19. ASSUME NEW t \in Threads, CloseChecksState(t), Recorded PROVE PcInv'
  BY <1>19, RecordGrows DEF CloseChecksState, AfterClose
<1>20. ASSUME NEW t \in Threads, CloseZeroesState(t), Recorded PROVE PcInv'
  BY <1>20, RecordGrows DEF CloseZeroesState, StateAfterClose
<1>21. ASSUME NEW t \in Threads, CloseDestroysDecoder(t), Recorded
       PROVE  PcInv'
  BY <1>21, RecordGrows DEF CloseDestroysDecoder, Destroyed
<1>22. ASSUME NEW t \in Threads, CloseStopsStream(t), Recorded PROVE PcInv'
  BY <1>22, RecordGrows DEF CloseStopsStream, PaOf
<1>23. ASSUME NEW t \in Threads, CloseClosesStream(t), Recorded PROVE PcInv'
  BY <1>23, RecordGrows DEF CloseClosesStream, AfterClose, StreamClosed, PaOf
<1>24. CASE UNCHANGED vars
  BY <1>24 DEF vars
<1> QED
  BY <1>1, <1>2, <1>3, <1>4, <1>5, <1>6, <1>7, <1>8, <1>9, <1>10, <1>11,
     <1>12, <1>13, <1>14, <1>15, <1>16, <1>17, <1>18, <1>19, <1>20, <1>21,
     <1>22, <1>23, <1>24
  DEF Next, Opening, MainStep, BackgroundStep, AudioStreamClose

(* Every step keeps a session's stream absent until it is created.         *)
LEMMA FreshStep ==
  ASSUME TypeOK, FreshInv, PcInv, [Next]_vars
  PROVE  FreshInv'
<1>0. TypeFacts
  BY TypeIs
<1> USE <1>0
   DEF TypeFacts, Threads, At, GoTo, Set, slotVars, mainVars, main,
   background, MainSteps, BackgroundSteps, CloseSteps, Opens, Closing, Slots,
   FreshInv, PcInv
<1>1. CASE HandleHandshakeInit /\ Recorded
  BY <1>1, RecordGrows DEF HandleHandshakeInit, HandshakeFreeSlot
<1>2. CASE ComputeSharedSecret /\ Recorded
  BY <1>2, RecordGrows DEF ComputeSharedSecret, SharedSecret
<1>3. CASE CreateResources /\ Recorded
  BY <1>3, RecordGrows DEF CreateResources
<1>4. CASE OpenSetsState /\ Recorded
  BY <1>4, RecordGrows DEF OpenSetsState, OpenStore
<1>5. CASE OpenSetsDecoder /\ Recorded
  BY <1>5, RecordGrows DEF OpenSetsDecoder, OpenStore
<1>6. CASE OpenSetsPaStream /\ Recorded
  BY <1>6, RecordGrows DEF OpenSetsPaStream, OpenStore
<1>7. CASE OpenSetsConn /\ Recorded
  BY <1>7, RecordGrows DEF OpenSetsConn, OpenStore
<1>8. CASE OpenSetsUpdate /\ Recorded
  BY <1>8, RecordGrows DEF OpenSetsUpdate, OpenStore, OpeningUpdate
<1>9. CASE StartStream /\ Recorded
  BY ZenonT(60), <1>9, RecordGrows DEF StartStream
<1>10. CASE HandleMessageCrypto /\ Recorded
  BY <1>10, RecordGrows DEF HandleMessageCrypto, HeardWhenOpen
<1>11. CASE StreamRead /\ Recorded
  BY <1>11, RecordGrows DEF StreamRead, ReadFails
<1>12. CASE HandleStreamData /\ Recorded
  BY <1>12, RecordGrows DEF HandleStreamData
<1>13. CASE Decode /\ Recorded
  BY <1>13, RecordGrows DEF Decode
<1>14. CASE LookAtState /\ Recorded
  BY <1>14, RecordGrows DEF LookAtState
<1>15. CASE LookAtUpdate /\ Recorded
  BY <1>15, RecordGrows DEF LookAtUpdate, Silent, TurnOfSilentSlot
<1>16. CASE SendHeartbeat /\ Recorded
  BY <1>16, RecordGrows DEF SendHeartbeat, Signal
<1>17. CASE SendTerminate /\ Recorded
  BY <1>17, RecordGrows DEF SendTerminate, Signal
<1>18. CASE Tick /\ Recorded
  BY <1>18, RecordGrows DEF Tick, Silent
<1>19. ASSUME NEW t \in Threads, CloseChecksState(t), Recorded PROVE FreshInv'
  BY <1>19, RecordGrows DEF CloseChecksState, AfterClose
<1>20. ASSUME NEW t \in Threads, CloseZeroesState(t), Recorded PROVE FreshInv'
  BY <1>20, RecordGrows DEF CloseZeroesState, StateAfterClose
<1>21. ASSUME NEW t \in Threads, CloseDestroysDecoder(t), Recorded
       PROVE  FreshInv'
  BY <1>21, RecordGrows DEF CloseDestroysDecoder, Destroyed
<1>22. ASSUME NEW t \in Threads, CloseStopsStream(t), Recorded PROVE FreshInv'
  BY <1>22, RecordGrows DEF CloseStopsStream, PaOf
<1>23. ASSUME NEW t \in Threads, CloseClosesStream(t), Recorded
       PROVE  FreshInv'
  BY <1>23, RecordGrows DEF CloseClosesStream, AfterClose, StreamClosed, PaOf
<1>24. CASE UNCHANGED vars
  BY <1>24 DEF vars
<1> QED
  BY <1>1, <1>2, <1>3, <1>4, <1>5, <1>6, <1>7, <1>8, <1>9, <1>10, <1>11,
     <1>12, <1>13, <1>14, <1>15, <1>16, <1>17, <1>18, <1>19, <1>20, <1>21,
     <1>22, <1>23, <1>24
  DEF Next, Opening, MainStep, BackgroundStep, AudioStreamClose

(* Every step records its overlap.                                         *)
LEMMA RecordStep ==
  ASSUME TypeOK, RecordInv, [Next]_vars
  PROVE  RecordInv'
<1>0. TypeFacts
  BY TypeIs
<1> USE <1>0
   DEF TypeFacts, Threads, At, GoTo, Set, slotVars, mainVars, main,
   background, MainSteps, BackgroundSteps, CloseSteps, Opens, Closing, Slots,
   RecordInv
<1>1. CASE HandleHandshakeInit /\ Recorded
  BY <1>1, RecordGrows DEF HandleHandshakeInit, HandshakeFreeSlot
<1>2. CASE ComputeSharedSecret /\ Recorded
  BY <1>2, RecordGrows DEF ComputeSharedSecret, SharedSecret
<1>3. CASE CreateResources /\ Recorded
  BY <1>3, RecordGrows DEF CreateResources
<1>4. CASE OpenSetsState /\ Recorded
  BY <1>4, RecordGrows DEF OpenSetsState, OpenStore
<1>5. CASE OpenSetsDecoder /\ Recorded
  BY <1>5, RecordGrows DEF OpenSetsDecoder, OpenStore
<1>6. CASE OpenSetsPaStream /\ Recorded
  BY <1>6, RecordGrows DEF OpenSetsPaStream, OpenStore
<1>7. CASE OpenSetsConn /\ Recorded
  BY <1>7, RecordGrows DEF OpenSetsConn, OpenStore
<1>8. CASE OpenSetsUpdate /\ Recorded
  BY <1>8, RecordGrows DEF OpenSetsUpdate, OpenStore, OpeningUpdate
<1>9. CASE StartStream /\ Recorded
  BY <1>9, RecordGrows DEF StartStream
<1>10. CASE HandleMessageCrypto /\ Recorded
  BY <1>10, RecordGrows DEF HandleMessageCrypto, HeardWhenOpen
<1>11. CASE StreamRead /\ Recorded
  BY <1>11, RecordGrows DEF StreamRead, ReadFails
<1>12. CASE HandleStreamData /\ Recorded
  BY <1>12, RecordGrows DEF HandleStreamData
<1>13. CASE Decode /\ Recorded
  BY <1>13, RecordGrows DEF Decode
<1>14. CASE LookAtState /\ Recorded
  BY <1>14, RecordGrows DEF LookAtState
<1>15. CASE LookAtUpdate /\ Recorded
  BY <1>15, RecordGrows DEF LookAtUpdate, Silent, TurnOfSilentSlot
<1>16. CASE SendHeartbeat /\ Recorded
  BY <1>16, RecordGrows DEF SendHeartbeat, Signal
<1>17. CASE SendTerminate /\ Recorded
  BY <1>17, RecordGrows DEF SendTerminate, Signal
<1>18. CASE Tick /\ Recorded
  BY <1>18, RecordGrows DEF Tick, Silent
<1>19. ASSUME NEW t \in Threads, CloseChecksState(t), Recorded
       PROVE  RecordInv'
  BY <1>19, RecordGrows DEF CloseChecksState, AfterClose
<1>20. ASSUME NEW t \in Threads, CloseZeroesState(t), Recorded
       PROVE  RecordInv'
  BY <1>20, RecordGrows DEF CloseZeroesState, StateAfterClose
<1>21. ASSUME NEW t \in Threads, CloseDestroysDecoder(t), Recorded
       PROVE  RecordInv'
  BY <1>21, RecordGrows DEF CloseDestroysDecoder, Destroyed
<1>22. ASSUME NEW t \in Threads, CloseStopsStream(t), Recorded
       PROVE  RecordInv'
  BY <1>22, RecordGrows DEF CloseStopsStream, PaOf
<1>23. ASSUME NEW t \in Threads, CloseClosesStream(t), Recorded
       PROVE  RecordInv'
  BY <1>23, RecordGrows DEF CloseClosesStream, AfterClose, StreamClosed, PaOf
<1>24. CASE UNCHANGED vars
  BY <1>24 DEF vars
<1> QED
  BY <1>1, <1>2, <1>3, <1>4, <1>5, <1>6, <1>7, <1>8, <1>9, <1>10, <1>11,
     <1>12, <1>13, <1>14, <1>15, <1>16, <1>17, <1>18, <1>19, <1>20, <1>21,
     <1>22, <1>23, <1>24
  DEF Next, Opening, MainStep, BackgroundStep, AudioStreamClose

(* Every step keeps key, peer and session together.                        *)
LEMMA PeerStep ==
  ASSUME TypeOK, PeerInv, PcInv, [Next]_vars
  PROVE  PeerInv'
<1>0. TypeFacts
  BY TypeIs
<1> USE <1>0
   DEF TypeFacts, Threads, At, GoTo, Set, slotVars, mainVars, main,
   background, MainSteps, BackgroundSteps, CloseSteps, Opens, Closing, Slots,
   PeerInv, PcInv, OverlappedTurn, Harmed
<1>1. CASE HandleHandshakeInit /\ Recorded
  BY <1>1, RecordGrows DEF HandleHandshakeInit, HandshakeFreeSlot
<1>2. CASE ComputeSharedSecret /\ Recorded
  BY <1>2, RecordGrows DEF ComputeSharedSecret, SharedSecret
<1>3. CASE CreateResources /\ Recorded
  <2>1. /\ main = "create" /\ op = "init" /\ astream.state = 0
        /\ main' \in {"state", "idle"} /\ background' = background
        /\ UNCHANGED <<astream, session, age, decided, damage>>
        /\ main' = "idle" => op' = "none" /\ decoder' = decoder
        /\ main' = "state" => op' = "init" /\ decoder'[session] = "live"
    BY <1>3, CreateEffect
  <2>2. astream'.state # 1
    BY ONLY <2>1
  <2>3. CASE main' = "state"
    BY ONLY <2>1, <2>2, <2>3, <1>3, PeerInv, OverlapStays DEF PeerInv, Opens
  <2>4. CASE main' = "idle"
    BY ONLY <2>1, <2>2, <2>4, <1>3, PeerInv, OverlapStays DEF PeerInv, Opens
  <2> QED BY <2>1, <2>3, <2>4
<1>4. CASE OpenSetsState /\ Recorded
  BY <1>4, RecordGrows DEF OpenSetsState, OpenStore
<1>5. CASE OpenSetsDecoder /\ Recorded
  BY <1>5, RecordGrows DEF OpenSetsDecoder, OpenStore
<1>6. CASE OpenSetsPaStream /\ Recorded
  BY <1>6, RecordGrows DEF OpenSetsPaStream, OpenStore
<1>7. CASE OpenSetsConn /\ Recorded
  BY <1>7, RecordGrows DEF OpenSetsConn, OpenStore
<1>8. CASE OpenSetsUpdate /\ Recorded
  BY <1>8, RecordGrows DEF OpenSetsUpdate, OpenStore, OpeningUpdate
<1>9. CASE StartStream /\ Recorded
  BY <1>9, RecordGrows DEF StartStream
<1>10. CASE HandleMessageCrypto /\ Recorded
  BY <1>10, RecordGrows DEF HandleMessageCrypto, HeardWhenOpen
<1>11. CASE StreamRead /\ Recorded
  BY <1>11, RecordGrows DEF StreamRead, ReadFails
<1>12. CASE HandleStreamData /\ Recorded
  BY <1>12, RecordGrows DEF HandleStreamData
<1>13. CASE Decode /\ Recorded
  BY <1>13, RecordGrows DEF Decode
<1>14. CASE LookAtState /\ Recorded
  BY <1>14, RecordGrows DEF LookAtState
<1>15. CASE LookAtUpdate /\ Recorded
  BY <1>15, RecordGrows DEF LookAtUpdate, Silent, TurnOfSilentSlot
<1>16. CASE SendHeartbeat /\ Recorded
  BY <1>16, RecordGrows DEF SendHeartbeat, Signal
<1>17. CASE SendTerminate /\ Recorded
  BY <1>17, RecordGrows DEF SendTerminate, Signal
<1>18. CASE Tick /\ Recorded
  BY <1>18, RecordGrows DEF Tick, Silent
<1>19. ASSUME NEW t \in Threads, CloseChecksState(t), Recorded PROVE PeerInv'
  <2>1. CASE t = "main"
    BY <1>19, <2>1, RecordGrows DEF CloseChecksState, AfterClose
  <2>2. CASE t = "background"
    BY <1>19, <2>2, RecordGrows DEF CloseChecksState, AfterClose
  <2> QED BY <2>1, <2>2
<1>20. ASSUME NEW t \in Threads, CloseZeroesState(t), Recorded PROVE PeerInv'
  BY <1>20, RecordGrows DEF CloseZeroesState, StateAfterClose
<1>21. ASSUME NEW t \in Threads, CloseDestroysDecoder(t), Recorded
       PROVE  PeerInv'
  BY <1>21, RecordGrows DEF CloseDestroysDecoder, Destroyed
<1>22. ASSUME NEW t \in Threads, CloseStopsStream(t), Recorded PROVE PeerInv'
  BY <1>22, RecordGrows DEF CloseStopsStream, PaOf
<1>23. ASSUME NEW t \in Threads, CloseClosesStream(t), Recorded PROVE PeerInv'
  <2>1. CASE t = "main"
    BY <1>23, <2>1, RecordGrows
       DEF CloseClosesStream, AfterClose, StreamClosed, PaOf
  <2>2. CASE t = "background"
    BY <1>23, <2>2, RecordGrows
       DEF CloseClosesStream, AfterClose, StreamClosed, PaOf
  <2> QED BY <2>1, <2>2
<1>24. CASE UNCHANGED vars
  BY <1>24 DEF vars
<1> QED
  BY <1>1, <1>2, <1>3, <1>4, <1>5, <1>6, <1>7, <1>8, <1>9, <1>10, <1>11,
     <1>12, <1>13, <1>14, <1>15, <1>16, <1>17, <1>18, <1>19, <1>20, <1>21,
     <1>22, <1>23, <1>24
  DEF Next, Opening, MainStep, BackgroundStep, AudioStreamClose

(* Every step keeps the slot's sign of life recent.                        *)
LEMMA UpdStep ==
  ASSUME TypeOK, UpdInv, PcInv, [Next]_vars
  PROVE  UpdInv'
<1>0. TypeFacts
  BY TypeIs
<1> USE <1>0
   DEF TypeFacts, Threads, At, GoTo, Set, slotVars, mainVars, main,
   background, MainSteps, BackgroundSteps, CloseSteps, Opens, Closing, Slots,
   UpdInv, PcInv, Silent
<1>1. CASE HandleHandshakeInit /\ Recorded
  BY <1>1, RecordGrows DEF HandleHandshakeInit, HandshakeFreeSlot
<1>2. CASE ComputeSharedSecret /\ Recorded
  BY <1>2, RecordGrows DEF ComputeSharedSecret, SharedSecret
<1>3. CASE CreateResources /\ Recorded
  <2>1. /\ main = "create" /\ op = "init" /\ astream.state = 0
        /\ main' \in {"state", "idle"} /\ background' = background
        /\ UNCHANGED <<astream, session, age, decided, damage>>
        /\ main' = "idle" => op' = "none" /\ decoder' = decoder
        /\ main' = "state" => op' = "init" /\ decoder'[session] = "live"
    BY <1>3, CreateEffect
  <2>2. astream'.state # 1
    BY ONLY <2>1
  <2> QED BY ONLY <2>1, <2>2 DEF UpdInv
<1>4. CASE OpenSetsState /\ Recorded
  BY <1>4, RecordGrows DEF OpenSetsState, OpenStore
<1>5. CASE OpenSetsDecoder /\ Recorded
  BY <1>5, RecordGrows DEF OpenSetsDecoder, OpenStore
<1>6. CASE OpenSetsPaStream /\ Recorded
  BY <1>6, RecordGrows DEF OpenSetsPaStream, OpenStore
<1>7. CASE OpenSetsConn /\ Recorded
  BY <1>7, RecordGrows DEF OpenSetsConn, OpenStore
<1>8. CASE OpenSetsUpdate /\ Recorded
  BY <1>8, RecordGrows DEF OpenSetsUpdate, OpenStore, OpeningUpdate
<1>9. CASE StartStream /\ Recorded
  BY <1>9, RecordGrows DEF StartStream
<1>10. CASE HandleMessageCrypto /\ Recorded
  BY <1>10, RecordGrows DEF HandleMessageCrypto, HeardWhenOpen
<1>11. CASE StreamRead /\ Recorded
  BY <1>11, RecordGrows DEF StreamRead, ReadFails
<1>12. CASE HandleStreamData /\ Recorded
  BY <1>12, RecordGrows DEF HandleStreamData
<1>13. CASE Decode /\ Recorded
  BY <1>13, RecordGrows DEF Decode
<1>14. CASE LookAtState /\ Recorded
  BY <1>14, RecordGrows DEF LookAtState
<1>15. CASE LookAtUpdate /\ Recorded
  BY <1>15, RecordGrows DEF LookAtUpdate, Silent, TurnOfSilentSlot
<1>16. CASE SendHeartbeat /\ Recorded
  BY <1>16, RecordGrows DEF SendHeartbeat, Signal
<1>17. CASE SendTerminate /\ Recorded
  BY <1>17, RecordGrows DEF SendTerminate, Signal
<1>18. CASE Tick /\ Recorded
  BY <1>18, RecordGrows DEF Tick, Silent
<1>19. ASSUME NEW t \in Threads, CloseChecksState(t), Recorded PROVE UpdInv'
  BY <1>19, RecordGrows DEF CloseChecksState, AfterClose
<1>20. ASSUME NEW t \in Threads, CloseZeroesState(t), Recorded PROVE UpdInv'
  BY <1>20, RecordGrows DEF CloseZeroesState, StateAfterClose
<1>21. ASSUME NEW t \in Threads, CloseDestroysDecoder(t), Recorded
       PROVE  UpdInv'
  BY <1>21, RecordGrows DEF CloseDestroysDecoder, Destroyed
<1>22. ASSUME NEW t \in Threads, CloseStopsStream(t), Recorded PROVE UpdInv'
  BY <1>22, RecordGrows DEF CloseStopsStream, PaOf
<1>23. ASSUME NEW t \in Threads, CloseClosesStream(t), Recorded PROVE UpdInv'
  BY <1>23, RecordGrows DEF CloseClosesStream, AfterClose, StreamClosed, PaOf
<1>24. CASE UNCHANGED vars
  BY <1>24 DEF vars
<1> QED
  BY <1>1, <1>2, <1>3, <1>4, <1>5, <1>6, <1>7, <1>8, <1>9, <1>10, <1>11,
     <1>12, <1>13, <1>14, <1>15, <1>16, <1>17, <1>18, <1>19, <1>20, <1>21,
     <1>22, <1>23, <1>24
  DEF Next, Opening, MainStep, BackgroundStep, AudioStreamClose

(* Every step keeps a decided close justified.                             *)
LEMMA HeardStep ==
  ASSUME TypeOK, HeardInv, UpdInv, PcInv, RecordInv, [Next]_vars
  PROVE  HeardInv'
<1>0. TypeFacts
  BY TypeIs
<1> USE <1>0
   DEF TypeFacts, Threads, At, GoTo, Set, slotVars, mainVars, main,
   background, MainSteps, BackgroundSteps, CloseSteps, Opens, Closing, Slots,
   HeardInv, UpdInv, PcInv, RecordInv, Overlapped, Harmed, Silent
<1>1. CASE HandleHandshakeInit /\ Recorded
  BY <1>1, RecordGrows DEF HandleHandshakeInit, HandshakeFreeSlot
<1>2. CASE ComputeSharedSecret /\ Recorded
  BY <1>2, RecordGrows DEF ComputeSharedSecret, SharedSecret
<1>3. CASE CreateResources /\ Recorded
  <2>1. /\ main = "create" /\ op = "init" /\ astream.state = 0
        /\ main' \in {"state", "idle"} /\ background' = background
        /\ UNCHANGED <<astream, session, age, decided, damage>>
        /\ main' = "idle" => op' = "none" /\ decoder' = decoder
        /\ main' = "state" => op' = "init" /\ decoder'[session] = "live"
    BY <1>3, CreateEffect
  <2>2. astream'.state # 1
    BY ONLY <2>1
  <2> QED BY ONLY <2>1, <2>2, <1>3, HeardInv, OverlapStays DEF HeardInv
<1>4. CASE OpenSetsState /\ Recorded
  BY <1>4, RecordGrows DEF OpenSetsState, OpenStore
<1>5. CASE OpenSetsDecoder /\ Recorded
  BY <1>5, RecordGrows DEF OpenSetsDecoder, OpenStore
<1>6. CASE OpenSetsPaStream /\ Recorded
  BY <1>6, RecordGrows DEF OpenSetsPaStream, OpenStore
<1>7. CASE OpenSetsConn /\ Recorded
  BY <1>7, RecordGrows DEF OpenSetsConn, OpenStore
<1>8. CASE OpenSetsUpdate /\ Recorded
  BY <1>8, RecordGrows DEF OpenSetsUpdate, OpenStore, OpeningUpdate
<1>9. CASE StartStream /\ Recorded
  BY <1>9, RecordGrows DEF StartStream
<1>10. CASE HandleMessageCrypto /\ Recorded
  BY <1>10, RecordGrows DEF HandleMessageCrypto, HeardWhenOpen
<1>11. CASE StreamRead /\ Recorded
  BY <1>11, RecordGrows DEF StreamRead, ReadFails
<1>12. CASE HandleStreamData /\ Recorded
  BY <1>12, RecordGrows DEF HandleStreamData
<1>13. CASE Decode /\ Recorded
  BY <1>13, RecordGrows DEF Decode
<1>14. CASE LookAtState /\ Recorded
  BY <1>14, RecordGrows DEF LookAtState
<1>15. CASE LookAtUpdate /\ Recorded
  <2>1. CASE Silent /\ TurnOfSilentSlot
    <3>1. pc'["background"] = "check"
          /\ UNCHANGED <<slotVars, mainVars, age, damage>>
      BY <2>1, <1>15, Moves DEF LookAtUpdate, TurnOfSilentSlot
    <3>2. CASE op = "none"
      <4>1. astream.state = 1 => age = LIVENESS_TIMEOUT
        <5>1. /\ astream.upd \in 0 .. LIVENESS_TIMEOUT
                 /\ age \in 0 .. LIVENESS_TIMEOUT
              /\ LIVENESS_TIMEOUT \in Nat /\ astream.upd >= LIVENESS_TIMEOUT
          BY <2>1 DEF Silent
        <5>2. astream.state = 1 => age >= astream.upd
          BY <3>2 DEF UpdInv
        <5> QED BY ONLY <5>1, <5>2
      <4> QED BY ONLY <3>1, <4>1, <1>15, HeardInv, OverlapStays
             DEF HeardInv, background, slotVars, mainVars
    <3>3. CASE op # "none"
      BY <3>1, <3>3, <1>15, RecordedNow
    <3> QED BY <3>2, <3>3
  <2>2. CASE ~Silent
    <3>1. /\ pc'["background"] \in {"heartbeat", "idle"}
          /\ UNCHANGED <<slotVars, mainVars, age, damage>>
      BY <2>2, <1>15, Moves DEF LookAtUpdate
    <3> QED BY <3>1, <1>15, OverlapStays
  <2> QED BY ONLY <2>1, <2>2, <1>15 DEF LookAtUpdate
<1>16. CASE SendHeartbeat /\ Recorded
  BY <1>16, RecordGrows DEF SendHeartbeat, Signal
<1>17. CASE SendTerminate /\ Recorded
  BY <1>17, RecordGrows DEF SendTerminate, Signal
<1>18. CASE Tick /\ Recorded
  <2>0. LIVENESS_TIMEOUT \in Nat
    OBVIOUS
  <2>1. age = LIVENESS_TIMEOUT => age' = LIVENESS_TIMEOUT
    BY ONLY <2>0, <1>18 DEF Tick
  <2>2. /\ astream'.state = astream.state
        /\ UNCHANGED <<pc, mainVars, damage>>
    BY <1>18 DEF Tick
  <2> QED BY ONLY <2>1, <2>2, <1>18, HeardInv, OverlapStays
         DEF HeardInv, background
<1>19. ASSUME NEW t \in Threads, CloseChecksState(t), Recorded PROVE HeardInv'
  BY <1>19, RecordGrows DEF CloseChecksState, AfterClose
<1>20. ASSUME NEW t \in Threads, CloseZeroesState(t), Recorded PROVE HeardInv'
  <2>1. CASE t = "main"
    BY <1>20, <2>1, RecordGrows DEF CloseZeroesState, StateAfterClose
  <2>2. CASE t = "background"
    <3>1. /\ pc["background"] = "zero" /\ pc'["background"] = "destroy"
          /\ UNCHANGED <<mainVars, age>>
      BY <2>2, <1>20, Moves DEF CloseZeroesState
    <3>0. LIVENESS_TIMEOUT \in Nat
      OBVIOUS
    <3>2. age = LIVENESS_TIMEOUT /\ "closed while heard" \notin damage
            => "closed while heard" \notin damage'
      <4>1. age = LIVENESS_TIMEOUT => ~(age < LIVENESS_TIMEOUT)
        BY ONLY <3>0
      <4>2. damage' = damage \cup (IF t = "background"
            /\ age < LIVENESS_TIMEOUT
                                   THEN {"closed while heard"} ELSE {})
        BY ONLY <1>20 DEF CloseZeroesState, Harmed
      <4> QED BY ONLY <4>1, <4>2
    <3> QED BY ONLY <3>1, <3>2, <1>20, HeardInv, OverlapStays
           DEF HeardInv, background
  <2> QED BY <2>1, <2>2
<1>21. ASSUME NEW t \in Threads, CloseDestroysDecoder(t), Recorded
       PROVE  HeardInv'
  BY <1>21, RecordGrows DEF CloseDestroysDecoder, Destroyed
<1>22. ASSUME NEW t \in Threads, CloseStopsStream(t), Recorded PROVE HeardInv'
  BY <1>22, RecordGrows DEF CloseStopsStream, PaOf
<1>23. ASSUME NEW t \in Threads, CloseClosesStream(t), Recorded
       PROVE  HeardInv'
  BY <1>23, RecordGrows DEF CloseClosesStream, AfterClose, StreamClosed, PaOf
<1>24. CASE UNCHANGED vars
  BY <1>24 DEF vars
<1> QED
  BY <1>1, <1>2, <1>3, <1>4, <1>5, <1>6, <1>7, <1>8, <1>9, <1>10, <1>11,
     <1>12, <1>13, <1>14, <1>15, <1>16, <1>17, <1>18, <1>19, <1>20, <1>21,
     <1>22, <1>23, <1>24
  DEF Next, Opening, MainStep, BackgroundStep, AudioStreamClose

(* Every step keeps an open slot's decoder alive.                          *)
LEMMA LiveStep ==
  ASSUME TypeOK, LiveInv, PcInv, RecordInv, [Next]_vars
  PROVE  LiveInv'
<1>0. TypeFacts
  BY TypeIs
<1> USE <1>0
   DEF TypeFacts, Threads, At, GoTo, Set, slotVars, mainVars, main,
   background, MainSteps, BackgroundSteps, CloseSteps, Opens, Closing, Slots,
   LiveInv, PcInv, RecordInv, Overlapped, Live, Past
<1>1. CASE HandleHandshakeInit /\ Recorded
  BY <1>1, RecordGrows DEF HandleHandshakeInit, HandshakeFreeSlot
<1>2. CASE ComputeSharedSecret /\ Recorded
  BY <1>2, RecordGrows DEF ComputeSharedSecret, SharedSecret
<1>3. CASE CreateResources /\ Recorded
  BY <1>3, RecordGrows DEF CreateResources
<1>4. CASE OpenSetsState /\ Recorded
  BY <1>4, RecordGrows DEF OpenSetsState, OpenStore
<1>5. CASE OpenSetsDecoder /\ Recorded
  BY <1>5, RecordGrows DEF OpenSetsDecoder, OpenStore
<1>6. CASE OpenSetsPaStream /\ Recorded
  BY <1>6, RecordGrows DEF OpenSetsPaStream, OpenStore
<1>7. CASE OpenSetsConn /\ Recorded
  BY <1>7, RecordGrows DEF OpenSetsConn, OpenStore
<1>8. CASE OpenSetsUpdate /\ Recorded
  BY <1>8, RecordGrows DEF OpenSetsUpdate, OpenStore, OpeningUpdate
<1>9. CASE StartStream /\ Recorded
  BY <1>9, RecordGrows DEF StartStream
<1>10. CASE HandleMessageCrypto /\ Recorded
  BY <1>10, RecordGrows DEF HandleMessageCrypto, HeardWhenOpen
<1>11. CASE StreamRead /\ Recorded
  BY <1>11, RecordGrows DEF StreamRead, ReadFails
<1>12. CASE HandleStreamData /\ Recorded
  BY <1>12, RecordGrows DEF HandleStreamData
<1>13. CASE Decode /\ Recorded
  BY <1>13, RecordGrows DEF Decode
<1>14. CASE LookAtState /\ Recorded
  BY <1>14, RecordGrows DEF LookAtState
<1>15. CASE LookAtUpdate /\ Recorded
  BY <1>15, RecordGrows DEF LookAtUpdate, Silent, TurnOfSilentSlot
<1>16. CASE SendHeartbeat /\ Recorded
  BY <1>16, RecordGrows DEF SendHeartbeat, Signal
<1>17. CASE SendTerminate /\ Recorded
  BY <1>17, RecordGrows DEF SendTerminate, Signal
<1>18. CASE Tick /\ Recorded
  BY <1>18, RecordGrows DEF Tick, Silent
<1>19. ASSUME NEW t \in Threads, CloseChecksState(t), Recorded PROVE LiveInv'
  BY <1>19, RecordGrows DEF CloseChecksState, AfterClose
<1>20. ASSUME NEW t \in Threads, CloseZeroesState(t), Recorded PROVE LiveInv'
  BY <1>20, RecordGrows DEF CloseZeroesState, StateAfterClose
<1>21. ASSUME NEW t \in Threads, CloseDestroysDecoder(t), Recorded
       PROVE  LiveInv'
  <2>1. CASE t = "main"
    <3>1. /\ pc["main"] = "destroy" /\ pc'["main"] = "stop"
             /\ pc'["background"] = pc["background"]
          /\ UNCHANGED <<astream, op, session>>
      BY <2>1, <1>21, DestroyEffect
    <3> QED
      BY ONLY <3>1, <1>21, LiveInv, PcInv, RecordInv, OverlapStays, TypeIs
           DEF LiveInv, Live, Past, PcInv, Opens, CloseSteps, main, background
  <2>2. CASE t = "background"
    <3>1. /\ pc["background"] = "destroy" /\ pc'["background"] = "stop"
             /\ pc'["main"] = pc["main"]
          /\ UNCHANGED <<astream, op, session>>
      BY <2>2, <1>21, DestroyEffect
    <3> QED
      BY ONLY <3>1, <1>21, LiveInv, PcInv, RecordInv, OverlapStays, TypeIs
           DEF LiveInv, Live, Past, PcInv, Opens, CloseSteps, main, background
  <2> QED BY <2>1, <2>2
<1>22. ASSUME NEW t \in Threads, CloseStopsStream(t), Recorded PROVE LiveInv'
  BY <1>22, RecordGrows DEF CloseStopsStream, PaOf
<1>23. ASSUME NEW t \in Threads, CloseClosesStream(t), Recorded PROVE LiveInv'
  BY <1>23, RecordGrows DEF CloseClosesStream, AfterClose, StreamClosed, PaOf
<1>24. CASE UNCHANGED vars
  BY <1>24 DEF vars
<1> QED
  BY <1>1, <1>2, <1>3, <1>4, <1>5, <1>6, <1>7, <1>8, <1>9, <1>10, <1>11,
     <1>12, <1>13, <1>14, <1>15, <1>16, <1>17, <1>18, <1>19, <1>20, <1>21,
     <1>22, <1>23, <1>24
  DEF Next, Opening, MainStep, BackgroundStep, AudioStreamClose

(* Every step keeps a decoder's destroyer the first.                       *)
LEMMA DestroyStep ==
  ASSUME TypeOK, DestroyInv, LiveInv, PcInv, RecordInv, [Next]_vars
  PROVE  DestroyInv'
<1>0. TypeFacts
  BY TypeIs
<1> USE <1>0
   DEF TypeFacts, Threads, At, GoTo, Set, slotVars, mainVars, main,
   background, MainSteps, BackgroundSteps, CloseSteps, Opens, Closing, Slots,
   DestroyInv, LiveInv, PcInv, RecordInv, Overlapped, Live, Past, Harmed
<1>1. CASE HandleHandshakeInit /\ Recorded
  BY <1>1, RecordGrows DEF HandleHandshakeInit, HandshakeFreeSlot
<1>2. CASE ComputeSharedSecret /\ Recorded
  BY <1>2, RecordGrows DEF ComputeSharedSecret, SharedSecret
<1>3. CASE CreateResources /\ Recorded
  BY <1>3, RecordGrows DEF CreateResources
<1>4. CASE OpenSetsState /\ Recorded
  BY <1>4, RecordGrows DEF OpenSetsState, OpenStore
<1>5. CASE OpenSetsDecoder /\ Recorded
  BY <1>5, RecordGrows DEF OpenSetsDecoder, OpenStore
<1>6. CASE OpenSetsPaStream /\ Recorded
  BY <1>6, RecordGrows DEF OpenSetsPaStream, OpenStore
<1>7. CASE OpenSetsConn /\ Recorded
  BY <1>7, RecordGrows DEF OpenSetsConn, OpenStore
<1>8. CASE OpenSetsUpdate /\ Recorded
  BY <1>8, RecordGrows DEF OpenSetsUpdate, OpenStore, OpeningUpdate
<1>9. CASE StartStream /\ Recorded
  BY <1>9, RecordGrows DEF StartStream
<1>10. CASE HandleMessageCrypto /\ Recorded
  BY <1>10, RecordGrows DEF HandleMessageCrypto, HeardWhenOpen
<1>11. CASE StreamRead /\ Recorded
  BY <1>11, RecordGrows DEF StreamRead, ReadFails
<1>12. CASE HandleStreamData /\ Recorded
  BY <1>12, RecordGrows DEF HandleStreamData
<1>13. CASE Decode /\ Recorded
  BY <1>13, RecordGrows DEF Decode
<1>14. CASE LookAtState /\ Recorded
  BY <1>14, RecordGrows DEF LookAtState
<1>15. CASE LookAtUpdate /\ Recorded
  BY <1>15, RecordGrows DEF LookAtUpdate, Silent, TurnOfSilentSlot
<1>16. CASE SendHeartbeat /\ Recorded
  BY <1>16, RecordGrows DEF SendHeartbeat, Signal
<1>17. CASE SendTerminate /\ Recorded
  BY <1>17, RecordGrows DEF SendTerminate, Signal
<1>18. CASE Tick /\ Recorded
  BY <1>18, RecordGrows DEF Tick, Silent
<1>19. ASSUME NEW t \in Threads, CloseChecksState(t), Recorded
       PROVE  DestroyInv'
  <2>1. CASE t = "main"
    BY <1>19, <2>1, RecordGrows DEF CloseChecksState, AfterClose
  <2>2. CASE t = "background"
    BY <1>19, <2>2, RecordGrows DEF CloseChecksState, AfterClose
  <2> QED BY <2>1, <2>2
<1>20. ASSUME NEW t \in Threads, CloseZeroesState(t), Recorded
       PROVE  DestroyInv'
  BY <1>20, RecordGrows DEF CloseZeroesState, StateAfterClose
<1>21. ASSUME NEW t \in Threads, CloseDestroysDecoder(t), Recorded
       PROVE  DestroyInv'
  <2>1. CASE t = "main"
    <3>1. /\ pc["main"] = "destroy" /\ pc'["main"] = "stop"
             /\ pc'["background"] = pc["background"]
          /\ UNCHANGED <<astream, op, session>>
      BY <2>1, <1>21, DestroyEffect
    <3>2. CASE pc["background"] \in {"zero", "destroy"}
      <4>1. op = "terminate" /\ op' = "terminate" /\ background' \in Closing
        BY <3>1, <3>2
      <4> QED BY <4>1, <1>21, RecordedNow
    <3>3. CASE pc["background"] \notin {"zero", "destroy"}
      <4>1. \/ Overlapped({"init", "terminate"})
            \/ Live /\ "destroyed twice" \notin damage
        BY <3>1
      <4> QED BY <2>1, <3>1, <3>3, <4>1, <1>21, DestroyEffect, OverlapStays
    <3> QED BY <3>2, <3>3
  <2>2. CASE t = "background"
    <3>1. /\ pc["background"] = "destroy" /\ pc'["background"] = "stop"
             /\ pc'["main"] = pc["main"]
          /\ UNCHANGED <<astream, op, session>>
      BY <2>2, <1>21, DestroyEffect
    <3>2. CASE pc["main"] \in {"zero", "destroy"}
      <4>1. op = "terminate" /\ op' = "terminate" /\ background' \in Closing
        BY <3>1, <3>2
      <4> QED BY <4>1, <1>21, RecordedNow
    <3>3. CASE pc["main"] \notin {"zero", "destroy"}
      <4>1. \/ Overlapped({"init", "terminate"})
            \/ Live /\ "destroyed twice" \notin damage
        BY <3>1
      <4> QED BY <2>2, <3>1, <3>3, <4>1, <1>21, DestroyEffect, OverlapStays
    <3> QED BY <3>2, <3>3
  <2> QED BY <2>1, <2>2
<1>22. ASSUME NEW t \in Threads, CloseStopsStream(t), Recorded
       PROVE  DestroyInv'
  BY <1>22, RecordGrows DEF CloseStopsStream, PaOf
<1>23. ASSUME NEW t \in Threads, CloseClosesStream(t), Recorded
       PROVE  DestroyInv'
  <2>1. CASE t = "main"
    BY <1>23, <2>1, RecordGrows
       DEF CloseClosesStream, AfterClose, StreamClosed, PaOf
  <2>2. CASE t = "background"
    BY <1>23, <2>2, RecordGrows
       DEF CloseClosesStream, AfterClose, StreamClosed, PaOf
  <2> QED BY <2>1, <2>2
<1>24. CASE UNCHANGED vars
  BY <1>24 DEF vars
<1> QED
  BY <1>1, <1>2, <1>3, <1>4, <1>5, <1>6, <1>7, <1>8, <1>9, <1>10, <1>11,
     <1>12, <1>13, <1>14, <1>15, <1>16, <1>17, <1>18, <1>19, <1>20, <1>21,
     <1>22, <1>23, <1>24
  DEF Next, Opening, MainStep, BackgroundStep, AudioStreamClose

(* Every step keeps the decoder of a DATA message alive.                   *)
LEMMA AliveStep ==
  ASSUME TypeOK, AliveInv, LiveInv, PcInv, RecordInv, [Next]_vars
  PROVE  AliveInv'
<1>0. TypeFacts
  BY TypeIs
<1> USE <1>0
   DEF TypeFacts, Threads, At, GoTo, Set, slotVars, mainVars, main,
   background, MainSteps, BackgroundSteps, CloseSteps, Opens, Closing, Slots,
   AliveInv, LiveInv, PcInv, RecordInv, Overlapped, Live, Past, Harmed
<1>1. CASE HandleHandshakeInit /\ Recorded
  BY <1>1, RecordGrows DEF HandleHandshakeInit, HandshakeFreeSlot
<1>2. CASE ComputeSharedSecret /\ Recorded
  BY <1>2, RecordGrows DEF ComputeSharedSecret, SharedSecret
<1>3. CASE CreateResources /\ Recorded
  BY <1>3, RecordGrows DEF CreateResources
<1>4. CASE OpenSetsState /\ Recorded
  BY <1>4, RecordGrows DEF OpenSetsState, OpenStore
<1>5. CASE OpenSetsDecoder /\ Recorded
  BY <1>5, RecordGrows DEF OpenSetsDecoder, OpenStore
<1>6. CASE OpenSetsPaStream /\ Recorded
  BY <1>6, RecordGrows DEF OpenSetsPaStream, OpenStore
<1>7. CASE OpenSetsConn /\ Recorded
  BY <1>7, RecordGrows DEF OpenSetsConn, OpenStore
<1>8. CASE OpenSetsUpdate /\ Recorded
  BY <1>8, RecordGrows DEF OpenSetsUpdate, OpenStore, OpeningUpdate
<1>9. CASE StartStream /\ Recorded
  BY <1>9, RecordGrows DEF StartStream
<1>10. CASE HandleMessageCrypto /\ Recorded
  BY <1>10, RecordGrows DEF HandleMessageCrypto, HeardWhenOpen
<1>11. CASE StreamRead /\ Recorded
  BY <1>11, RecordGrows DEF StreamRead, ReadFails
<1>12. CASE HandleStreamData /\ Recorded
  BY <1>12, RecordGrows DEF HandleStreamData
<1>13. CASE Decode /\ Recorded
  BY <1>13, RecordGrows DEF Decode
<1>14. CASE LookAtState /\ Recorded
  BY <1>14, RecordGrows DEF LookAtState
<1>15. CASE LookAtUpdate /\ Recorded
  BY <1>15, RecordGrows DEF LookAtUpdate, Silent, TurnOfSilentSlot
<1>16. CASE SendHeartbeat /\ Recorded
  BY <1>16, RecordGrows DEF SendHeartbeat, Signal
<1>17. CASE SendTerminate /\ Recorded
  BY <1>17, RecordGrows DEF SendTerminate, Signal
<1>18. CASE Tick /\ Recorded
  BY <1>18, RecordGrows DEF Tick, Silent
<1>19. ASSUME NEW t \in Threads, CloseChecksState(t), Recorded PROVE AliveInv'
  BY <1>19, RecordGrows DEF CloseChecksState, AfterClose
<1>20. ASSUME NEW t \in Threads, CloseZeroesState(t), Recorded PROVE AliveInv'
  BY <1>20, RecordGrows DEF CloseZeroesState, StateAfterClose
<1>21. ASSUME NEW t \in Threads, CloseDestroysDecoder(t), Recorded
       PROVE  AliveInv'
  BY <1>21, RecordGrows DEF CloseDestroysDecoder, Destroyed
<1>22. ASSUME NEW t \in Threads, CloseStopsStream(t), Recorded PROVE AliveInv'
  BY <1>22, RecordGrows DEF CloseStopsStream, PaOf
<1>23. ASSUME NEW t \in Threads, CloseClosesStream(t), Recorded
       PROVE  AliveInv'
  BY <1>23, RecordGrows DEF CloseClosesStream, AfterClose, StreamClosed, PaOf
<1>24. CASE UNCHANGED vars
  BY <1>24 DEF vars
<1> QED
  BY <1>1, <1>2, <1>3, <1>4, <1>5, <1>6, <1>7, <1>8, <1>9, <1>10, <1>11,
     <1>12, <1>13, <1>14, <1>15, <1>16, <1>17, <1>18, <1>19, <1>20, <1>21,
     <1>22, <1>23, <1>24
  DEF Next, Opening, MainStep, BackgroundStep, AudioStreamClose

(* Every step keeps the slot's stream the only one that plays.             *)
LEMMA PaStep ==
  ASSUME TypeOK, PaInv, PcInv, RecordInv, [Next]_vars
  PROVE  PaInv'
<1>0. TypeFacts
  BY TypeIs
<1> USE <1>0
   DEF TypeFacts, Threads, At, GoTo, Set, slotVars, mainVars, main,
   background, MainSteps, BackgroundSteps, CloseSteps, Opens, Closing, Slots,
   PaInv, PcInv, RecordInv, Overlapped, Leads, Past, Harmed
<1>1. CASE HandleHandshakeInit /\ Recorded
  <2>1. /\ main = "idle" /\ main' = "key" /\ background' = background
        /\ UNCHANGED <<astream, paStream, damage>> /\ op' = "init"
           /\ op = "none"
        /\ astream.state # 1 /\ main \notin Past
    <3>1. /\ pc["main"] = "idle" /\ GoTo("main", "key") /\ op' = "init"
          /\ astream.state = 0 /\ UNCHANGED <<astream, paStream, damage>>
      BY ONLY <1>1 DEF HandleHandshakeInit, HandshakeFreeSlot, At, slotVars
    <3>2. pc'["main"] = "key" /\ pc'["background"] = pc["background"]
      BY <3>1, Moves
    <3>3. op = "none"
      BY <3>1
    <3> QED BY ONLY <3>1, <3>2, <3>3 DEF main, background, Past
  <2>2. CASE background \in Past
    BY ONLY <2>1, <2>2, <1>1, RecordedNow DEF PaInv, Past, Closing, CloseSteps
  <2>3. CASE background \notin Past
    <3>1. \A k \in Sessions : ~Leads(k)
      BY ONLY <2>1, <2>3 DEF Leads
    <3> QED BY ONLY <2>1, <3>1, <1>1, PaInv, OverlapStays DEF PaInv, Opens
  <2> QED BY <2>2, <2>3
<1>2. CASE ComputeSharedSecret /\ Recorded
  BY <1>2, RecordGrows DEF ComputeSharedSecret, SharedSecret
<1>3. CASE CreateResources /\ Recorded
  <2>1. /\ main = "create" /\ op = "init" /\ astream.state = 0
        /\ main' \in {"state", "idle"} /\ background' = background
        /\ UNCHANGED <<astream, session, age, decided, damage>>
        /\ main' = "idle" => op' = "none" /\ decoder' = decoder
        /\ main' = "state" => op' = "init" /\ decoder'[session] = "live"
    BY <1>3, CreateEffect
  <2>2. astream'.state # 1
    BY ONLY <2>1
  <2>3. \A k \in Sessions : paStream'[k] \in {paStream[k], "open"}
    BY <1>3, CreateEffect
  <2>4. main' = "state" => paStream'[session] = "open"
    BY <1>3, CreateEffect
  <2>5. Overlapped({"init"}) \/ \A k \in Sessions : paStream[k] # "started"
    BY ONLY <2>1, PaInv DEF PaInv
  <2>6. Overlapped({"init"}) \/ \A k \in Sessions : paStream'[k] # "started"
    BY ONLY <2>3, <2>5
  <2>7. main' # "conn" /\ main' # "update" /\ main' # "start"
        /\ main' # "decoder"
        /\ main' # "pa_stream"
    BY ONLY <2>1
  <2> QED BY ONLY <2>1, <2>2, <2>4, <2>6, <2>7, <1>3, PaInv, OverlapStays
         DEF PaInv, Opens
<1>4. CASE OpenSetsState /\ Recorded
  BY <1>4, RecordGrows DEF OpenSetsState, OpenStore
<1>5. CASE OpenSetsDecoder /\ Recorded
  BY <1>5, RecordGrows DEF OpenSetsDecoder, OpenStore
<1>6. CASE OpenSetsPaStream /\ Recorded
  BY <1>6, RecordGrows DEF OpenSetsPaStream, OpenStore
<1>7. CASE OpenSetsConn /\ Recorded
  BY <1>7, RecordGrows DEF OpenSetsConn, OpenStore
<1>8. CASE OpenSetsUpdate /\ Recorded
  BY <1>8, RecordGrows DEF OpenSetsUpdate, OpenStore, OpeningUpdate
<1>9. CASE StartStream /\ Recorded
  BY ZenonT(60), <1>9, RecordGrows DEF StartStream
<1>10. CASE HandleMessageCrypto /\ Recorded
  BY <1>10, RecordGrows DEF HandleMessageCrypto, HeardWhenOpen
<1>11. CASE StreamRead /\ Recorded
  <2>1. /\ main = "read" /\ op \in {"data", "terminate"}
        /\ main' \in {"load", "check", "idle"} /\ background' = background
        /\ op' \in {"none", op}
        /\ UNCHANGED <<paStream, session, noDecoder, damage>>
        /\ astream'.state = astream.state
        /\ astream'.pa_stream = astream.pa_stream
    BY ONLY <1>0, <1>11, PcInv, ReadEffect
  <2>2. \A k \in Sessions : Leads(k)' <=> Leads(k)
    BY ONLY <2>1 DEF Leads, Past
  <2> QED BY ONLY <2>1, <2>2, <1>11, PaInv, OverlapStays DEF PaInv, Opens
<1>12. CASE HandleStreamData /\ Recorded
  BY <1>12, RecordGrows DEF HandleStreamData
<1>13. CASE Decode /\ Recorded
  BY <1>13, RecordGrows DEF Decode
<1>14. CASE LookAtState /\ Recorded
  BY ZenonT(60), <1>14, RecordGrows DEF LookAtState
<1>15. CASE LookAtUpdate /\ Recorded
  BY ZenonT(60), <1>15, RecordGrows DEF LookAtUpdate, Silent, TurnOfSilentSlot
<1>16. CASE SendHeartbeat /\ Recorded
  BY <1>16, RecordGrows DEF SendHeartbeat, Signal
<1>17. CASE SendTerminate /\ Recorded
  BY <1>17, RecordGrows DEF SendTerminate, Signal
<1>18. CASE Tick /\ Recorded
  BY <1>18, RecordGrows DEF Tick, Silent
<1>19. ASSUME NEW t \in Threads, CloseChecksState(t), Recorded PROVE PaInv'
  <2>1. CASE t = "main"
    BY ZenonT(60), <1>19, <2>1, RecordGrows DEF CloseChecksState, AfterClose
  <2>2. CASE t = "background"
    BY ZenonT(60), <1>19, <2>2, RecordGrows DEF CloseChecksState, AfterClose
  <2> QED BY <2>1, <2>2
<1>20. ASSUME NEW t \in Threads, CloseZeroesState(t), Recorded PROVE PaInv'
  BY <1>20, RecordGrows DEF CloseZeroesState, StateAfterClose
<1>21. ASSUME NEW t \in Threads, CloseDestroysDecoder(t), Recorded
       PROVE  PaInv'
  BY <1>21, RecordGrows DEF CloseDestroysDecoder, Destroyed
<1>22. ASSUME NEW t \in Threads, CloseStopsStream(t), Recorded PROVE PaInv'
  BY ZenonT(60), <1>22, RecordGrows DEF CloseStopsStream, PaOf
<1>23. ASSUME NEW t \in Threads, CloseClosesStream(t), Recorded PROVE PaInv'
  <2>1. CASE t = "main"
    <3>1. /\ pc["main"] = "close" /\ pc'["main"] = "idle"
             /\ pc'["background"] = pc["background"]
          /\ UNCHANGED <<astream, session>> /\ noDecoder' = noDecoder
          /\ \A k \in Sessions : k # astream.pa_stream
               => paStream'[k] = paStream[k]
          /\ \A k \in Sessions : k = astream.pa_stream
               => paStream'[k] = "closed"
      BY <2>1, <1>23, CloseShuts DEF Threads
    <3>2. op = "terminate" /\ op' = "none"
      BY <2>1, <3>1, <1>23, CloseShuts
    <3>3. damage' = damage
      BY <1>23 DEF CloseClosesStream
    <3>4. \A k \in Sessions : paStream'[k] = "started"
            => k # astream.pa_stream /\ paStream[k] = "started"
      BY ONLY <3>1
    <3>5. Overlapped({"init"}) \/ \A k \in Sessions : paStream'[k] # "started"
      BY ONLY <3>4, PaInv DEF PaInv, Leads
    <3> QED
      BY ONLY <3>1, <3>2, <3>3, <3>5, <1>23, PaInv, OverlapStays
         DEF PaInv, Opens, main, background
  <2>2. CASE t = "background"
    <3>1. /\ pc["background"] = "close" /\ pc'["background"] = "terminate"
             /\ pc'["main"] = pc["main"]
          /\ UNCHANGED <<astream, session>> /\ noDecoder' = noDecoder
          /\ \A k \in Sessions : k # astream.pa_stream
               => paStream'[k] = paStream[k]
          /\ \A k \in Sessions : k = astream.pa_stream
               => paStream'[k] = "closed"
      BY <2>2, <1>23, CloseShuts DEF Threads
    <3>2. op' = op
      BY <2>2, <3>1, <1>23, CloseShuts
    <3>3. damage' = damage
      BY <1>23 DEF CloseClosesStream
    <3>4. \A k \in Sessions : paStream'[k] = "started"
            => k # astream.pa_stream /\ paStream[k] = "started"
      BY ONLY <3>1
    <3>5. Overlapped({"init"}) \/ \A k \in Sessions : paStream'[k] # "started"
      BY ONLY <3>4, PaInv DEF PaInv, Leads
    <3>6. CASE op = "init"
      <4>1. background' \in Closing
        BY ONLY <3>1 DEF background, Closing
      <4> QED BY ONLY <3>2, <3>6, <4>1, <1>23, RecordedNow DEF PaInv
    <3>7. CASE op # "init"
      <4>1. main \notin Opens /\ main' \notin Opens
        BY ONLY <3>1, <3>7, PcInv DEF PcInv, main
      <4> QED
        BY ONLY <4>1, <3>2, <3>3, <3>5, <1>23, PaInv, OverlapStays
           DEF PaInv, Opens
    <3> QED BY <3>6, <3>7
  <2> QED BY <2>1, <2>2
<1>24. CASE UNCHANGED vars
  BY <1>24 DEF vars
<1> QED
  BY <1>1, <1>2, <1>3, <1>4, <1>5, <1>6, <1>7, <1>8, <1>9, <1>10, <1>11,
     <1>12, <1>13, <1>14, <1>15, <1>16, <1>17, <1>18, <1>19, <1>20, <1>21,
     <1>22, <1>23, <1>24
  DEF Next, Opening, MainStep, BackgroundStep, AudioStreamClose

(* Every step keeps a stream that is not closed within reach.              *)
LEMMA LostStep ==
  ASSUME TypeOK, LostInv, PaInv, FreshInv, PcInv, RecordInv, [Next]_vars
  PROVE  LostInv'
<1>0. TypeFacts
  BY TypeIs
<1> USE <1>0
   DEF TypeFacts, Threads, At, GoTo, Set, slotVars, mainVars, main,
   background, MainSteps, BackgroundSteps, CloseSteps, Opens, Closing, Slots,
   LostInv, PaInv, FreshInv, PcInv, RecordInv, Overlapped, Leads, Past
<1>1. CASE HandleHandshakeInit /\ Recorded
  <2>1. /\ main = "idle" /\ main' = "key" /\ background' = background
        /\ UNCHANGED <<astream, paStream, damage>> /\ op' = "init"
           /\ op = "none"
        /\ astream.state # 1 /\ main \notin Past
    <3>1. /\ pc["main"] = "idle" /\ GoTo("main", "key") /\ op' = "init"
          /\ astream.state = 0 /\ UNCHANGED <<astream, paStream, damage>>
      BY ONLY <1>1 DEF HandleHandshakeInit, HandshakeFreeSlot, At, slotVars
    <3>2. pc'["main"] = "key" /\ pc'["background"] = pc["background"]
      BY <3>1, Moves
    <3>3. op = "none"
      BY <3>1
    <3> QED BY ONLY <3>1, <3>2, <3>3 DEF main, background, Past
  <2>2. CASE background \in Past
    BY ONLY <2>1, <2>2, <1>1, RecordedNow
       DEF LostInv, Past, Closing, CloseSteps
  <2>3. CASE background \notin Past
    <3>1. \A k \in Sessions : ~Leads(k)
      BY ONLY <2>1, <2>3 DEF Leads
    <3>2. noDecoder' = noDecoder
      BY <1>1 DEF HandleHandshakeInit
    <3> QED BY ONLY <2>1, <3>1, <3>2, <1>1, LostInv, OverlapStays DEF LostInv
  <2> QED BY <2>2, <2>3
<1>2. CASE ComputeSharedSecret /\ Recorded
  BY <1>2, RecordGrows DEF ComputeSharedSecret, SharedSecret
<1>3. CASE CreateResources /\ Recorded
  <2>1. /\ main = "create" /\ op = "init" /\ astream.state = 0
        /\ main' \in {"state", "idle"} /\ background' = background
        /\ UNCHANGED <<astream, session, age, decided, damage>>
        /\ main' = "idle" => op' = "none" /\ decoder' = decoder
        /\ main' = "state" => op' = "init" /\ decoder'[session] = "live"
    BY <1>3, CreateEffect
  <2>2. astream'.state # 1
    BY ONLY <2>1
  <2>3. /\ noDecoder = TRUE => noDecoder' = TRUE
        /\ main' = "idle" => noDecoder' = TRUE \/ paStream' = paStream
        /\ main' = "state" => \A k \in Sessions \ {session} :
                                paStream'[k] = paStream[k]
        /\ session \in Sessions
    BY <1>3, CreateEffect
  <2>4. paStream[session] = "none"
    BY ONLY <2>1, FreshInv DEF FreshInv
  <2>5. noDecoder = TRUE \/ Overlapped({"init"}) \/
          \A k \in Sessions : paStream[k] \notin {"open", "started"}
    BY ONLY <2>1, <2>4, LostInv DEF LostInv
  <2>6. CASE main' = "state"
    BY ONLY <2>1, <2>3, <2>5, <2>6, <1>3, OverlapStays DEF LostInv
  <2>7. CASE main' = "idle"
    BY ONLY <2>1, <2>3, <2>5, <2>7, <1>3, OverlapStays DEF LostInv
  <2> QED BY <2>1, <2>6, <2>7
<1>4. CASE OpenSetsState /\ Recorded
  BY <1>4, RecordGrows DEF OpenSetsState, OpenStore
<1>5. CASE OpenSetsDecoder /\ Recorded
  BY <1>5, RecordGrows DEF OpenSetsDecoder, OpenStore
<1>6. CASE OpenSetsPaStream /\ Recorded
  BY <1>6, RecordGrows DEF OpenSetsPaStream, OpenStore
<1>7. CASE OpenSetsConn /\ Recorded
  BY <1>7, RecordGrows DEF OpenSetsConn, OpenStore
<1>8. CASE OpenSetsUpdate /\ Recorded
  BY <1>8, RecordGrows DEF OpenSetsUpdate, OpenStore, OpeningUpdate
<1>9. CASE StartStream /\ Recorded
  BY ZenonT(60), <1>9, RecordGrows DEF StartStream
<1>10. CASE HandleMessageCrypto /\ Recorded
  BY <1>10, RecordGrows DEF HandleMessageCrypto, HeardWhenOpen
<1>11. CASE StreamRead /\ Recorded
  <2>1. /\ main = "read" /\ op \in {"data", "terminate"}
        /\ main' \in {"load", "check", "idle"} /\ background' = background
        /\ op' \in {"none", op}
        /\ UNCHANGED <<paStream, session, noDecoder, damage>>
        /\ astream'.state = astream.state
        /\ astream'.pa_stream = astream.pa_stream
    BY ONLY <1>0, <1>11, PcInv, ReadEffect
  <2>2. \A k \in Sessions : Leads(k)' <=> Leads(k)
    BY ONLY <2>1 DEF Leads, Past
  <2> QED BY ONLY <2>1, <2>2, <1>11, LostInv, OverlapStays DEF LostInv
<1>12. CASE HandleStreamData /\ Recorded
  BY <1>12, RecordGrows DEF HandleStreamData
<1>13. CASE Decode /\ Recorded
  BY <1>13, RecordGrows DEF Decode
<1>14. CASE LookAtState /\ Recorded
  BY <1>14, RecordGrows DEF LookAtState
<1>15. CASE LookAtUpdate /\ Recorded
  BY ZenonT(60), <1>15, RecordGrows DEF LookAtUpdate, Silent, TurnOfSilentSlot
<1>16. CASE SendHeartbeat /\ Recorded
  BY <1>16, RecordGrows DEF SendHeartbeat, Signal
<1>17. CASE SendTerminate /\ Recorded
  BY <1>17, RecordGrows DEF SendTerminate, Signal
<1>18. CASE Tick /\ Recorded
  BY <1>18, RecordGrows DEF Tick, Silent
<1>19. ASSUME NEW t \in Threads, CloseChecksState(t), Recorded PROVE LostInv'
  BY ZenonT(60), <1>19, RecordGrows DEF CloseChecksState, AfterClose
<1>20. ASSUME NEW t \in Threads, CloseZeroesState(t), Recorded PROVE LostInv'
  BY <1>20, RecordGrows DEF CloseZeroesState, StateAfterClose
<1>21. ASSUME NEW t \in Threads, CloseDestroysDecoder(t), Recorded
       PROVE  LostInv'
  BY <1>21, RecordGrows DEF CloseDestroysDecoder, Destroyed
<1>22. ASSUME NEW t \in Threads, CloseStopsStream(t), Recorded PROVE LostInv'
  BY ZenonT(60), <1>22, RecordGrows DEF CloseStopsStream, PaOf
<1>23. ASSUME NEW t \in Threads, CloseClosesStream(t), Recorded PROVE LostInv'
  <2>1. CASE t = "main"
    <3>1. /\ pc["main"] = "close" /\ pc'["main"] = "idle"
             /\ pc'["background"] = pc["background"]
          /\ UNCHANGED <<astream, session>> /\ noDecoder' = noDecoder
          /\ \A k \in Sessions : k # astream.pa_stream
               => paStream'[k] = paStream[k]
          /\ \A k \in Sessions : k = astream.pa_stream
               => paStream'[k] = "closed"
      BY <2>1, <1>23, CloseShuts DEF Threads
    <3>2. op = "terminate" /\ op' = "none"
      BY <2>1, <3>1, <1>23, CloseShuts
    <3>3. CASE op = "init"
      BY <3>2, <3>3
    <3>4. CASE op # "init"
      <4>1. \A k \in Sessions : paStream'[k] \in {"open", "started"}
              => k # astream.pa_stream /\ paStream[k] \in {"open", "started"}
        BY ONLY <3>1
      <4>2. noDecoder \/ Overlapped({"init"}) \/
              \A k \in Sessions : paStream'[k] \notin {"open", "started"}
        BY ONLY <3>4, <4>1, LostInv DEF LostInv, Leads
      <4> QED BY ONLY <3>1, <4>2, <1>23, OverlapStays DEF LostInv
    <3> QED BY <3>3, <3>4
  <2>2. CASE t = "background"
    <3>1. /\ pc["background"] = "close" /\ pc'["background"] = "terminate"
             /\ pc'["main"] = pc["main"]
          /\ UNCHANGED <<astream, session>> /\ noDecoder' = noDecoder
          /\ \A k \in Sessions : k # astream.pa_stream
               => paStream'[k] = paStream[k]
          /\ \A k \in Sessions : k = astream.pa_stream
               => paStream'[k] = "closed"
      BY <2>2, <1>23, CloseShuts DEF Threads
    <3>2. op' = op
      BY <2>2, <3>1, <1>23, CloseShuts
    <3>3. CASE op = "init"
      <4>1. background' \in Closing
        BY ONLY <3>1 DEF background, Closing
      <4> QED BY ONLY <3>2, <3>3, <4>1, <1>23, RecordedNow DEF LostInv
    <3>4. CASE op # "init"
      <4>1. \A k \in Sessions : paStream'[k] \in {"open", "started"}
              => k # astream.pa_stream /\ paStream[k] \in {"open", "started"}
        BY ONLY <3>1
      <4>2. noDecoder \/ Overlapped({"init"}) \/
              \A k \in Sessions : paStream'[k] \notin {"open", "started"}
        BY ONLY <3>4, <4>1, LostInv DEF LostInv, Leads
      <4> QED BY ONLY <3>1, <4>2, <1>23, OverlapStays DEF LostInv
    <3> QED BY <3>3, <3>4
  <2> QED BY <2>1, <2>2
<1>24. CASE UNCHANGED vars
  BY <1>24 DEF vars
<1> QED
  BY <1>1, <1>2, <1>3, <1>4, <1>5, <1>6, <1>7, <1>8, <1>9, <1>10, <1>11,
     <1>12, <1>13, <1>14, <1>15, <1>16, <1>17, <1>18, <1>19, <1>20, <1>21,
     <1>22, <1>23, <1>24
  DEF Next, Opening, MainStep, BackgroundStep, AudioStreamClose

-----------------------------------------------------------------------------
(* The overlaps are pairs of a pass's activity and a message.              *)
LEMMA OverlapStep ==
  ASSUME TypeOK, TypeFacts', [Next]_vars
  PROVE  overlap' \subseteq {"close", "look"} \X {"init", "data", "terminate"}
<1>1. CASE Recorded
  <2>1. Activity(pc'["background"]) \subseteq {"close", "look"}
    BY DEF Activity
  <2>2. {op'} \ {"none"} \subseteq {"init", "data", "terminate"}
    BY DEF TypeFacts
  <2> QED BY ONLY <2>1, <2>2, <1>1, TypeOK DEF Recorded, TypeOK
<1>2. CASE UNCHANGED vars
  BY <1>2 DEF vars, TypeOK
<1> QED BY <1>1, <1>2 DEF Next

(* Every variable keeps its type.                                          *)
LEMMA TypeStep == TypeOK /\ [Next]_vars => TypeOK'
<1> SUFFICES ASSUME TypeOK, [Next]_vars PROVE TypeOK'
  OBVIOUS
<1>1. TypeFacts'
  BY FactsStep
<1>2. damage \subseteq Harms
  BY DEF TypeOK
<1>3. damage' \subseteq Harms
  BY <1>2, DamageStep
<1>4. overlap' \subseteq {"close", "look"} \X {"init", "data", "terminate"}
  BY <1>1, OverlapStep
<1> QED BY <1>1, <1>3, <1>4 DEF TypeOK, TypeFacts, Slots

(* Every step keeps the whole invariant.                                   *)
LEMMA InvStep == TypeOK /\ Inv /\ [Next]_vars => Inv'
BY PcStep, FreshStep, RecordStep, PeerStep, UpdStep, HeardStep, LiveStep,
   DestroyStep, AliveStep, PaStep, LostStep DEF Inv

(* The invariant holds at first: nothing is open and nobody is under way.  *)
LEMMA InitInv == Init => TypeOK /\ Inv
<1> SUFFICES ASSUME Init PROVE TypeOK /\ Inv
  OBVIOUS
<1>1. PICK t \in 0 .. LIVENESS_TIMEOUT : astream = audio_stream_create(t)
  BY DEF Init
<1>2. /\ astream.state = 0 /\ astream.pa_stream = 0 /\ astream \in Slots
      /\ LIVENESS_TIMEOUT \in Nat /\ MaxSessions \in Nat
  BY <1>1, SlotAssumption DEF audio_stream_create, Slots
<1>3. /\ main = "idle" /\ background = "idle" /\ op = "none" /\ session = 0
      /\ overlap = {} /\ damage = {} /\ age = 0 /\ decided = 0
      /\ noDecoder = FALSE
      /\ \A k \in Sessions : paStream[k] = "none"
  BY DEF Init, main, background, Threads
<1>4. TypeOK
  <2>1. pc \in [Threads -> MainSteps \cup BackgroundSteps]
        /\ pc["main"] \in MainSteps /\ pc["background"] \in BackgroundSteps
    BY DEF Init, Threads, MainSteps, BackgroundSteps
  <2>2. /\ decoder \in [Sessions -> {"none", "live", "destroyed"}]
        /\ paStream \in [Sessions -> {"none", "open", "started", "closed"}]
    BY DEF Init
  <2>3. age \in 0 .. LIVENESS_TIMEOUT /\ session \in 0 .. MaxSessions
        /\ decided \in 0 .. MaxSessions
    BY <1>2, <1>3
  <2> QED BY <1>2, <1>3, <2>1, <2>2, <2>3 DEF TypeOK, Slots
<1>5. PcInv /\ RecordInv
  BY <1>2, <1>3 DEF PcInv, RecordInv, Opens, Closing, CloseSteps
<1>6. FreshInv /\ UpdInv
  BY <1>2, <1>3 DEF FreshInv, UpdInv
<1>7. PeerInv
  BY <1>2, <1>3 DEF PeerInv, Opens, Closing, CloseSteps
<1>8. HeardInv /\ LiveInv /\ DestroyInv /\ AliveInv
  BY <1>2, <1>3 DEF HeardInv, LiveInv, DestroyInv, AliveInv, Past
<1>9. PaInv /\ LostInv
  BY <1>2, <1>3 DEF PaInv, LostInv, Opens
<1> QED BY <1>4, <1>5, <1>6, <1>7, <1>8, <1>9 DEF Inv

-----------------------------------------------------------------------------
(* Every variable keeps its type, in every state of the two threads.       *)
THEOREM ThreadsTypeCorrect == Spec => []TypeOK
<1>1. Init => TypeOK
  BY InitInv
<1> QED BY <1>1, TypeStep, PTL DEF Spec

(* The invariant holds in every state.                                     *)
LEMMA Invariant == Spec => []Inv
<1>1. Init => Inv
  BY InitInv
<1> QED BY <1>1, InvStep, ThreadsTypeCorrect, PTL DEF Spec

(* audio_stream_close destroys a decoder once, unless the pass closed the  *)
(* slot beside an opening or another close (sink.c:132-139).               *)
THEOREM DestroyedOnceCorrect == Spec => []DestroyedOnce
<1>1. Inv => DestroyedOnce
  BY DEF Inv, DestroyInv, DestroyedOnce
<1> QED BY <1>1, Invariant, PTL

(* handle_stream_data decodes with a decoder that lives, unless the pass   *)
(* closed the slot beside it, or beside its opening (sink.c:169-207).      *)
THEOREM DecoderAliveCorrect == Spec => []DecoderAlive
<1>1. Inv => DecoderAlive
  BY DEF Inv, AliveInv, DecoderAlive
<1> QED BY <1>1, Invariant, PTL

(* The liveness pass closes no session that was heard of within the        *)
(* timeout, unless a message was being handled (sink.c:351-368).           *)
THEOREM HeardSessionsStayCorrect == Spec => []HeardSessionsStay
<1>1. Inv => HeardSessionsStay
  BY DEF Inv, HeardInv, HeardSessionsStay
<1> QED BY <1>1, Invariant, PTL

(* The pass's TERMINATE and heartbeats go to the source they are about,    *)
(* under its key, unless a handshake came in between.                      *)
THEOREM SignalsReachPeerCorrect == Spec => []SignalsReachPeer
<1>1. Inv => SignalsReachPeer
  BY DEF Inv, PeerInv, SignalsReachPeer
<1> QED BY <1>1, Invariant, PTL

(* A PortAudio stream that is not closed can still be reached, unless a    *)
(* decoder failed or the slot was reopened during its closing.             *)
THEOREM NothingLostCorrect == Spec => []NothingLost
<1>1. ASSUME Inv PROVE NothingLost
  <2>1. ASSUME NEW k \in Sessions, Leads(k), op # "init" PROVE Reachable(k)
    BY <2>1 DEF Leads, Reachable, Past, CloseSteps, main, background, Threads
  <2>2. ASSUME NEW k \in Sessions, op = "init", k = session
        PROVE  Reachable(k)
    BY <2>2 DEF Reachable
  <2> QED BY <1>1, <2>1, <2>2 DEF Inv, LostInv, NothingLost
<1> QED BY <1>1, Invariant, PTL

(* There are finitely many sessions.                                       *)
LEMMA SessionsFinite == IsFiniteSet(Sessions)
<1>1. 1 \in Int /\ MaxSessions \in Int
  BY SlotAssumption
<1> QED BY <1>1, FS_Interval DEF Sessions

(* Not more than one is at most one.                                       *)
LEMMA NotMore == \A n \in Nat : n <= 1 => ~(n > 1)
OBVIOUS

(* At most one PortAudio callback reads a slot's ring buffer, on a stream  *)
(* that lives, unless the slot was reopened during its closing.            *)
THEOREM OneReaderCorrect == Spec => []OneReader
<1>1. ASSUME Inv PROVE OneReader
  <2> DEFINE started == {k \in Sessions : paStream[k] = "started"}
  <2> SUFFICES ASSUME ~Overlapped({"init"})
               PROVE  Cardinality(started) <= 1
                      /\ "started after close" \notin damage
    <3>1. IsFiniteSet(started)
      BY SessionsFinite, FS_Subset
    <3>2. Cardinality(started) \in Nat
      BY <3>1, FS_CardinalityType
    <3>3. CASE Overlapped({"init"})
      BY <3>3 DEF OneReader
    <3>4. CASE ~Overlapped({"init"})
      <4>1. Cardinality(started) <= 1 /\ "started after close" \notin damage
        BY <3>4
      <4>2. ~(Cardinality(started) > 1)
        BY ONLY <3>2, <4>1, NotMore
      <4> QED BY <4>1, <4>2 DEF OneReader
    <3> QED BY <3>3, <3>4
  <2>1. started \subseteq {astream.pa_stream}
    BY <1>1 DEF Inv, PaInv, Leads
  <2>2. Cardinality(started) <= 1
    <3>1. IsFiniteSet({astream.pa_stream})
          /\ Cardinality({astream.pa_stream}) = 1
      BY FS_Singleton
    <3>2. Cardinality(started) <= Cardinality({astream.pa_stream})
      BY <2>1, <3>1, FS_Subset
    <3> QED BY <3>1, <3>2
  <2> QED BY <1>1, <2>2 DEF Inv, PaInv
<1> QED BY <1>1, Invariant, PTL
=============================================================================
