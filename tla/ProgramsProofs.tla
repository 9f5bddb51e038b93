--------------------------- MODULE ProgramsProofs ---------------------------
(***************************************************************************)
(* Proofs about the programs as MCPrograms composes them.  First the sink, *)
(* for either platform and every join timeout longer than the background   *)
(* thread's sleep: what the end of sink_main frees under that thread, and  *)
(* what its timed join tells.  Then the source: what source_main shares    *)
(* with audio_callback and signal_handler.  A step of one program leaves   *)
(* the other's variables alone, so that the lemmas are those of each       *)
(* program and ProgramsStep puts them together.  The win32 sink is an      *)
(* instance beside the unix one, and has a step of its own for the types.  *)
(***************************************************************************)
EXTENDS MCPrograms, TLAPS

Before == {"setup", "start", "loop", "select", "cleanup"}

(* The thread's state, its mutex and the place of its function agree.      *)
ThreadInv ==
  /\ thread.run = "running" <=> background # "out"
  /\ Platform = "unix" => (thread.run = "running" <=> thread.mutex = "thread")
  /\ thread.mutex = "joiner" <=> join.at = "unlock"
  /\ thread.run = "none" <=> thread.handle \in {"null", "process"}
  /\ thread.handle = "process" => Platform = "win32" /\ rc = "EXIT_FAILURE"
  /\ thread.handle = "freed" => main \in {"free", "returned"}

(* Where sink_main is when the join is, and what it then knows.            *)
MainInv ==
  /\ main \in {"setup", "start"} => thread.handle = "null"
  /\ main \in Before => join.at = "no" /\ ~early
  /\ main = "join" => join.at # "no"
  /\ main = "destroy" => join.at = "back"
  /\ main \in {"free", "returned"} =>
       join.at = "back" \/ (join.at = "no" /\ thread.handle = "null")
  /\ join.at = "back" <=> join.result # "none"
  /\ join.at = "no" => join.waited = 0
  /\ join.at = "unlock" => Platform = "unix"
  /\ main \notin Before => rc = "EXIT_FAILURE" \/ ~is_running
  /\ main = "cleanup" => rc = "EXIT_FAILURE" \/ ~is_running
  /\ slots = "freed" => main = "returned"

(* After a stop: each tick of the join takes the thread one step nearer to *)
(* its end, and it makes no further pass.                                  *)
StopInv ==
  rc = "EXIT_SUCCESS" /\ join.at # "no" =>
    /\ join.waited >= 1 \/ join.at \in {"unlock", "back"}
         => background \in {"test", "done", "out"}
    /\ join.waited >= 2 => early

JoinInv ==
  /\ join.at # "no" => early \/ thread.run \in {"running", "ended"}
                             \/ thread.handle = "process"
  /\ join.at = "unlock" \/ join.result = "ok"
       => thread.run = "ended" \/ (Platform = "unix" /\ early)

Inv == /\ ThreadInv /\ MainInv /\ StopInv /\ JoinInv
       /\ StopNeedsNoTimeout /\ SlotsFreedInPeace /\ HandleFreedInPeace

-----------------------------------------------------------------------------
(* What a step adds to touched is what it says.                            *)
LEMMA Touches ==
  ASSUME NEW what, NEW when, Touch(what, when)
  PROVE  \A x : x \in touched' <=> x \in touched \/ (when /\ x = what)
BY DEF Touch

(* A touch keeps touched a set of what can be touched.                     *)
LEMMA TouchesType ==
  ASSUME TypeOK, NEW what \in {"handle", "slots"}, NEW when, Touch(what, when)
  PROVE  touched' \subseteq {"handle", "slots"}
BY Touches DEF TypeOK

(* Every variable keeps its type.                                          *)
LEMMA TypeStep == TypeOK /\ [Next]_vars => TypeOK'
<1> SUFFICES ASSUME TypeOK, [Next]_vars PROVE TypeOK'
  OBVIOUS
<1> USE ThreadAssumption DEF TypeOK, ThreadTypeOK
<1>1. CASE SetUp
  <2>1. is_running' \in BOOLEAN
    BY <1>1, Zenon DEF SetUp
  <2> QED BY <1>1, <2>1 DEF SetUp, Error, threadVars
<1>2. CASE StartThread
  <2>1. CASE ra_thread_start /\ main' = "loop" /\ UNCHANGED rc
    BY <1>2, <2>1 DEF StartThread, ra_thread_start
  <2>2. CASE ra_thread_start_fails /\ Error
    BY <1>2, <2>2 DEF StartThread, ra_thread_start_fails, Error
  <2> QED BY <1>2, <2>1, <2>2 DEF StartThread
<1>3. CASE TestRunning
  BY <1>3 DEF TestRunning, threadVars
<1>4. CASE Cleanup
  <2>1. early' \in BOOLEAN
    BY <1>4, Zenon DEF Cleanup, CleanupJoins
  <2>4. UNCHANGED join \/ JoinBegins
    BY <1>4, Zenon DEF Cleanup, CleanupJoins
  <2>2. ThreadTypeOK'
    <3>1. CASE UNCHANGED join
      BY <1>4, <3>1 DEF Cleanup
    <3>2. CASE JoinBegins
      <4>1. thread' = thread
        BY <1>4 DEF Cleanup
      <4>2. join'.at = "wait" /\ join'.waited = 0 /\ join'.result = join.result
            /\ join' \in [at : {"wait"}, waited : {0},
                          result : {"none", "ok", "timeout"}]
        BY <3>2 DEF JoinBegins
      <4> QED BY <4>1, <4>2
    <3> QED BY <2>4, <3>1, <3>2
  <2>3. main' \in {"join", "free"}
    BY <1>4, Zenon DEF Cleanup, CleanupJoins
  <2> QED BY <1>4, <2>1, <2>2, <2>3 DEF Cleanup
<1>5. CASE Join
  <2> USE <1>5 DEF Join
  <2>1. CASE JoinSucceeds /\ UNCHANGED main
    BY <2>1 DEF JoinSucceeds
  <2>2. CASE JoinUnlocks /\ UNCHANGED main
    BY <2>2 DEF JoinUnlocks
  <2>3. CASE JoinTimesOut /\ UNCHANGED main
    <3>1. join' = [join EXCEPT !.at = "back", !.result = "timeout"]
      BY <2>3 DEF JoinTimesOut
    <3>2. UNCHANGED <<thread, main, background, is_running, slots, rc, early, touched>>
      BY <2>3 DEF JoinTimesOut
    <3>3. join' \in [at : {"back"}, waited : 0..JOIN_TIMEOUT, result : {"timeout"}]
      BY <3>1
    <3>4. ThreadTypeOK'
      BY <3>2, <3>3
    <3> QED BY <3>2, <3>4
  <2>4. CASE join.at = "back" /\ main' = "destroy" /\ UNCHANGED threadVars
    BY <2>4 DEF threadVars
  <2> QED BY <2>1, <2>2, <2>3, <2>4
<1>6. CASE Destroy
  BY <1>6 DEF Destroy, MainGoes, ra_thread_destroy
<1>7. CASE Free
  BY <1>7 DEF Free, MainGoes, threadVars
<1>8. CASE Receive
  BY <1>8 DEF Receive, Error, threadVars
<1>9. CASE sink_stop
  <2>1. is_running' \in BOOLEAN
    BY <1>9, Zenon DEF sink_stop
  <2> QED BY <1>9, <2>1 DEF sink_stop, threadVars
<1>10. CASE Tick
  BY <1>10 DEF Tick, JoinWaits, WaitedLong
<1>11. CASE BackgroundBegins
  <2>1. touched' \subseteq {"handle", "slots"}
    BY <1>11, TouchesType, Zenon DEF BackgroundBegins
  <2>2. ThreadTypeOK'
    BY <1>11 DEF BackgroundBegins, BootstrapBegins
  <2> QED BY <1>11, <2>1, <2>2 DEF BackgroundBegins
<1>12. CASE BackgroundTest
  BY <1>12 DEF BackgroundTest, BackgroundNext, threadVars
<1>13. CASE BackgroundPass
  <2>1. touched' \subseteq {"handle", "slots"}
    BY <1>13, TouchesType, Zenon DEF BackgroundPass
  <2> QED BY <1>13, <2>1 DEF BackgroundPass, threadVars
<1>14. CASE BackgroundEnds
  <2>1. touched' \subseteq {"handle", "slots"}
    BY <1>14, TouchesType, Zenon DEF BackgroundEnds
  <2>2. ThreadTypeOK'
    BY <1>14 DEF BackgroundEnds, BootstrapEnds
  <2> QED BY <1>14, <2>1, <2>2 DEF BackgroundEnds
<1>15. CASE UNCHANGED vars
  BY <1>15 DEF vars, threadVars
<1> QED
  BY <1>1, <1>2, <1>3, <1>4, <1>5, <1>6, <1>7, <1>8, <1>9, <1>10, <1>11,
     <1>12, <1>13, <1>14, <1>15
     DEF Next, MainStep, BackgroundStep

-----------------------------------------------------------------------------
(* The invariant holds at first.                                           *)
LEMMA InvInit == Init => TypeOK /\ Inv
<1> SUFFICES ASSUME Init PROVE TypeOK /\ Inv
  OBVIOUS
<1> USE ThreadAssumption DEF Init, ThreadInit
<1>1. ThreadTypeOK
  BY DEF ThreadTypeOK
<1>2. TypeOK
  BY <1>1 DEF TypeOK
<1>3. ThreadInv /\ MainInv
  BY DEF ThreadInv, MainInv, Before
<1>4. StopInv /\ JoinInv
  BY DEF StopInv, JoinInv
<1>5. StopNeedsNoTimeout /\ SlotsFreedInPeace /\ HandleFreedInPeace
  BY DEF StopNeedsNoTimeout, SlotsFreedInPeace, HandleFreedInPeace
<1> QED BY <1>2, <1>3, <1>4, <1>5 DEF Inv

(* Every step keeps it.                                                    *)
LEMMA InvStep == TypeOK /\ Inv /\ [Next]_vars => Inv'
<1> SUFFICES ASSUME TypeOK, Inv, [Next]_vars PROVE Inv'
  OBVIOUS
<1> USE ThreadAssumption, ShutdownAssumption
    DEF TypeOK, ThreadTypeOK, Inv, ThreadInv, MainInv, StopInv, JoinInv, Before,
        StopNeedsNoTimeout, SlotsFreedInPeace, HandleFreedInPeace
<1>1. CASE SetUp
  BY <1>1 DEF SetUp, Error, threadVars
<1>2. CASE StartThread
  BY <1>2 DEF StartThread, ra_thread_start, ra_thread_start_fails, Error
<1>3. CASE TestRunning
  BY <1>3 DEF TestRunning, threadVars
<1>4. CASE Cleanup
  <2> USE <1>4 DEF Cleanup
  <2>1. CASE thread.handle = "null"
    BY <2>1 DEF CleanupJoins
  <2>2. CASE thread.handle # "null"
    <3>1. main' = "join" /\ JoinBegins
      BY <2>2, Zenon DEF CleanupJoins
    <3>2. early' <=> thread.run = "created"
      BY <2>2, Zenon DEF CleanupJoins
    <3>3. join'.at = "wait" /\ join'.waited = 0 /\ join'.result = "none"
      BY <3>1 DEF JoinBegins
    <3>4. UNCHANGED <<thread, background, is_running, slots, rc, touched>>
      OBVIOUS
    <3>5. ThreadInv' /\ MainInv'
      BY <2>2, <3>1, <3>3, <3>4
    <3>6. StopInv' /\ JoinInv'
      BY <2>2, <3>2, <3>3, <3>4
    <3>7. (StopNeedsNoTimeout /\ SlotsFreedInPeace /\ HandleFreedInPeace)'
      BY <3>3, <3>4
    <3> QED BY <3>5, <3>6, <3>7
  <2> QED BY <2>1, <2>2
<1>5. CASE Join
  <2> USE <1>5 DEF Join, DoneForJoin
  <2>1. CASE JoinSucceeds /\ UNCHANGED main
    <3>1. CASE Platform = "unix"
      <4>1. join.at = "wait" /\ thread.mutex = "free"
        BY <2>1, <3>1 DEF JoinSucceeds
      <4>2. /\ thread'.run = thread.run /\ thread'.handle = thread.handle
            /\ thread'.mutex = "joiner"
        BY <2>1, <3>1 DEF JoinSucceeds
      <4>3. /\ join.at = "wait" /\ join'.at = "unlock"
            /\ join'.waited = join.waited /\ join'.result = join.result
        BY <2>1, <3>1 DEF JoinSucceeds
      <4>4. UNCHANGED <<main, background, is_running, slots, rc, early, touched>>
        BY <2>1
      <4>5. ThreadInv' /\ MainInv'
        BY <3>1, <4>1, <4>2, <4>3, <4>4
      <4>6. background = "out" /\ thread.run # "running"
        BY <3>1, <4>1, <4>3
      <4>7. StopInv'
        BY <4>2, <4>3, <4>4, <4>6
      <4>8. thread.run = "ended" \/ early
        BY <3>1, <4>3, <4>6
      <4>9. JoinInv'
        BY <3>1, <4>2, <4>3, <4>4, <4>6, <4>8
      <4> QED BY <4>3, <4>4, <4>5, <4>7, <4>9
    <3>2. CASE Platform # "unix"
      BY <2>1, <3>2 DEF JoinSucceeds
    <3> QED BY <3>1, <3>2
  <2>2. CASE JoinUnlocks /\ UNCHANGED main
    BY <2>2 DEF JoinUnlocks
  <2>3. CASE JoinTimesOut /\ UNCHANGED main
    BY <2>3 DEF JoinTimesOut, WaitedLong
  <2>4. CASE join.at = "back" /\ main' = "destroy" /\ UNCHANGED threadVars
    BY <2>4 DEF threadVars
  <2> QED BY <2>1, <2>2, <2>3, <2>4
<1>6. CASE Destroy
  BY <1>6 DEF Destroy, MainGoes, ra_thread_destroy
<1>7. CASE Free
  BY <1>7 DEF Free, MainGoes, threadVars
<1>8. CASE Receive
  BY <1>8 DEF Receive, Error, threadVars
<1>9. CASE sink_stop
  BY <1>9 DEF sink_stop, threadVars
<1>10. CASE Tick
  BY <1>10 DEF Tick, JoinWaits, WaitedLong, MainWaits, BackgroundWaits, DoneForJoin
<1>11. CASE BackgroundBegins
  BY <1>11, Touches DEF BackgroundBegins, BootstrapBegins, HandleGone
<1>12. CASE BackgroundTest
  BY <1>12 DEF BackgroundTest, BackgroundNext, threadVars
<1>13. CASE BackgroundPass
  BY <1>13, Touches DEF BackgroundPass, threadVars
<1>14. CASE BackgroundEnds
  BY <1>14, Touches DEF BackgroundEnds, BootstrapEnds, HandleGone
<1>15. CASE UNCHANGED vars
  BY <1>15 DEF vars, threadVars
<1> QED
  BY <1>1, <1>2, <1>3, <1>4, <1>5, <1>6, <1>7, <1>8, <1>9, <1>10, <1>11,
     <1>12, <1>13, <1>14, <1>15
     DEF Next, MainStep, BackgroundStep

(* Every variable keeps its type, in every state of the program.           *)
THEOREM TypeCorrect == Spec => []TypeOK
<1>1. Init => TypeOK
  BY InvInit
<1> QED BY <1>1, TypeStep, PTL DEF Spec

(* The invariant holds in every state.                                     *)
LEMMA Invariant == Spec => []Inv
<1>1. Init => Inv
  BY InvInit
<1> QED BY <1>1, InvStep, TypeCorrect, PTL DEF Spec

(* What the two threads share is freed under the background thread only    *)
(* when sink_main failed (sink.c:490-509).                                 *)
THEOREM SlotsFreedInPeaceCorrect == Spec => []SlotsFreedInPeace
BY Invariant, PTL DEF Inv

(* Its handle is destroyed under it only then, or when the join overtook   *)
(* its first step (unix/thread.c:75-91).                                   *)
THEOREM HandleFreedInPeaceCorrect == Spec => []HandleFreedInPeace
BY Invariant, PTL DEF Inv

(* A join that succeeds tells that the thread is done, unless it overtook  *)
(* that first step.                                                        *)
THEOREM JoinMeansDoneCorrect == Spec => []JoinMeansDone
<1>1. Inv => JoinMeansDone
  BY DEF Inv, JoinInv, JoinMeansDone
<1> QED BY <1>1, Invariant, PTL

(* A stop never runs into the join's timeout.                              *)
THEOREM StopNeedsNoTimeoutCorrect == Spec => []StopNeedsNoTimeout
BY Invariant, PTL DEF Inv

-----------------------------------------------------------------------------
(* Where source_main is from the label cleanup on.                         *)
Ending == {"cleanup", "encoder", "stop_stream", "close_stream", "free",
           "returned"}

(* The stream runs only in a session, and so does its callback.            *)
StreamInv ==
  /\ pa_stream = "started" => state = 2 \/ sourceMain = "streaming"
  /\ sourceMain \in {"setup", "handshake", "close_stream", "free", "returned"}
       => pa_stream # "started"
  /\ sourceMain \in {"start", "streaming"} => state <= 1
  /\ callback # "idle" => pa_stream = "started"
  /\ "started_twice" \notin damage

(* What is allocated, and what the cleanup remembers of the state.         *)
LiveInv ==
  /\ sourceMain = "setup" => live = {"stream", "source"} /\ state = 0
  /\ sourceMain \notin Ending \cup {"setup"} => live = Source!Parts /\ state > 0
  /\ sourceMain = "cleanup" => {"stream", "source"} \subseteq live
  /\ streaming <=> sourceMain \in Ending /\ state = 2
  /\ "callback_used_freed" \in damage => streaming

(* A source that ends without an error was told to; until it was, no       *)
(* signal, or just the first, is in its handler.                           *)
SignalInv ==
  /\ sourceMain \in Ending => sourceRc = "EXIT_FAILURE"
                              \/ (~sourceRunning /\ state > 0)
  /\ state = 0 \/ ~handlers => handler = "idle" /\ signals = 0
  /\ handler # "idle" => signals > 0
  /\ handlers /\ state > 0 /\ ~sourceRunning =>
       signals > 0 /\ (handler # "idle" => signals > 1)
  /\ "signal_used_freed" \in damage => signals > 1 \/ sourceRc = "EXIT_FAILURE"

SourceInv == StreamInv /\ LiveInv /\ SignalInv

-----------------------------------------------------------------------------
(* What a step adds to damage is what it says.                             *)
LEMMA Harms ==
  ASSUME NEW what, NEW when, Source!Harmed(what, when)
  PROVE  \A x : x \in damage' <=> x \in damage \/ (when /\ x = what)
BY DEF Source!Harmed

(* A harm keeps damage a set of what can go wrong.                         *)
LEMMA HarmsType ==
  ASSUME Source!TypeOK,
         NEW what \in {"callback_used_freed", "signal_used_freed", "started_twice"},
         NEW when, Source!Harmed(what, when)
  PROVE  damage' \subseteq {"callback_used_freed", "signal_used_freed",
                            "started_twice"}
BY Harms DEF Source!TypeOK

(* The cleanup remembers whether it began in a session.                    *)
LEMMA ToCleanupStep ==
  ASSUME Source!ToCleanup
  PROVE  /\ sourceMain' = "cleanup"
         /\ streaming' \in BOOLEAN /\ (streaming' <=> state = 2)
BY Zenon DEF Source!ToCleanup

(* Every variable of source_main keeps its type.                           *)
LEMMA SourceTypeStep ==
  Source!TypeOK /\ (Source!Next \/ UNCHANGED sourceVars) => Source!TypeOK'
<1> SUFFICES ASSUME Source!TypeOK, Source!Next \/ UNCHANGED sourceVars
             PROVE  Source!TypeOK'
  OBVIOUS
<1> USE DEF Source!TypeOK, Source!others
<1>1. CASE Source!SetUp
  <2>1. sourceRunning' \in BOOLEAN /\ streaming' \in BOOLEAN
    BY <1>1, ToCleanupStep, Zenon DEF Source!SetUp, Source!Error
  <2>2. /\ sourceMain' \in {"loop", "cleanup"} /\ state' \in {1, state}
        /\ pa_stream' \in {"none", "open"}
        /\ sourceRc' \in {sourceRc, "EXIT_FAILURE"}
        /\ UNCHANGED <<handlers, callback, handler, signals, damage>>
    BY <1>1, ToCleanupStep DEF Source!SetUp, Source!Error
  <2>3. live' \in {live, live \cup {"encoder"}, Source!Parts}
    BY <1>1 DEF Source!SetUp
  <2>4. live' \subseteq Source!Parts
    BY <2>3 DEF Source!Parts
  <2> QED BY <2>1, <2>2, <2>4
<1>2. CASE Source!Loop
  <2>1. streaming' \in BOOLEAN
    BY <1>2, ToCleanupStep, Zenon DEF Source!Loop
  <2> QED BY <1>2, <2>1, ToCleanupStep DEF Source!Loop
<1>3. CASE Source!Select
  <2>1. streaming' \in BOOLEAN
    BY <1>3, ToCleanupStep, Zenon DEF Source!Select, Source!Error
  <2> QED BY <1>3, <2>1, ToCleanupStep DEF Source!Select, Source!Error
<1>4. CASE Source!StartStream
  <2>1. damage' \subseteq {"callback_used_freed", "signal_used_freed",
                           "started_twice"}
    BY <1>4, HarmsType, Zenon DEF Source!StartStream
  <2> QED BY <1>4, <2>1 DEF Source!StartStream, Source!Goes
<1>5. CASE Source!Streaming
  BY <1>5 DEF Source!Streaming, Source!Goes
<1>6. CASE Source!Check
  BY <1>6 DEF Source!Check, Source!AfterTimeout
<1>7. CASE Source!StopStream("stop", "handshake")
  BY <1>7 DEF Source!StopStream, Source!Goes
<1>8. CASE Source!SendHandshake
  <2>1. streaming' \in BOOLEAN
    BY <1>8, ToCleanupStep, Zenon DEF Source!SendHandshake, Source!Error
  <2> QED BY <1>8, <2>1, ToCleanupStep DEF Source!SendHandshake, Source!Error
<1>9. CASE Source!Cleanup
  <2>1. ASSUME NEW p, NEW q \in Ending, NEW part, Source!Frees(p, q, part)
        PROVE  Source!TypeOK'
    BY <2>1 DEF Source!Frees, Source!Goes, Ending
  <2>2. CASE Source!StopStream("stop_stream", "close_stream")
    BY <2>2 DEF Source!StopStream, Source!Goes
  <2>3. CASE Source!CloseStream
    BY <2>3 DEF Source!CloseStream, Source!Goes
  <2> QED BY <1>9, <2>1, <2>2, <2>3 DEF Source!Cleanup, Ending
<1>10. CASE Source!CallbackBegins
  BY <1>10 DEF Source!CallbackBegins, Source!CallbackOnly
<1>11. CASE Source!Encode
  <2>1. damage' \subseteq {"callback_used_freed", "signal_used_freed",
                           "started_twice"}
    BY <1>11, HarmsType, Zenon DEF Source!Encode
  <2> QED BY <1>11, <2>1 DEF Source!Encode, Source!CallbackAborts
<1>12. CASE Source!CallbackSends
  <2>1. damage' \subseteq {"callback_used_freed", "signal_used_freed",
                           "started_twice"}
    BY <1>12, HarmsType, Zenon DEF Source!CallbackSends
  <2> QED BY <1>12, <2>1 DEF Source!CallbackSends, Source!CallbackOnly
<1>13. CASE Source!Signal
  <2>1. sourceRunning' \in BOOLEAN
    BY <1>13, Zenon DEF Source!Signal, Source!FlagBeforeFarewell
  <2> QED BY <1>13, <2>1 DEF Source!Signal, Source!HandlerOnly
<1>14. CASE Source!Farewell
  <2>1. damage' \subseteq {"callback_used_freed", "signal_used_freed",
                           "started_twice"}
    BY <1>14, HarmsType, Zenon DEF Source!Farewell
  <2> QED BY <1>14, <2>1 DEF Source!Farewell, Source!HandlerOnly
<1>15. CASE Source!ClearRunning
  <2>1. sourceRunning' \in BOOLEAN
    BY <1>15, Zenon DEF Source!ClearRunning
  <2> QED BY <1>15, <2>1 DEF Source!ClearRunning, Source!HandlerOnly
<1>16. CASE Source!source_stop
  <2>1. sourceRunning' \in BOOLEAN
    BY <1>16, Zenon DEF Source!source_stop
  <2> QED BY <1>16, <2>1 DEF Source!source_stop
<1>17. CASE UNCHANGED sourceVars
  BY <1>17 DEF sourceVars
<1> QED
  BY <1>1, <1>2, <1>3, <1>4, <1>5, <1>6, <1>7, <1>8, <1>9, <1>10, <1>11,
     <1>12, <1>13, <1>14, <1>15, <1>16, <1>17
     DEF Source!Next, Source!MainStep, Source!AudioCallback,
         Source!SignalHandler, Source!Returned, Source!vars, sourceVars

-----------------------------------------------------------------------------
(* The invariant holds at first.                                           *)
LEMMA SourceInit == Source!Init => Source!TypeOK /\ SourceInv
<1> SUFFICES ASSUME Source!Init PROVE Source!TypeOK /\ SourceInv
  OBVIOUS
<1> USE DEF Source!Init, Source!Parts, Ending
<1>1. Source!TypeOK
  <2>1. handlers \in BOOLEAN /\ sourceRunning \in BOOLEAN /\ streaming \in BOOLEAN
    BY Zenon
  <2>2. live \subseteq Source!Parts /\ damage = {}
    OBVIOUS
  <2> QED BY <2>1, <2>2 DEF Source!TypeOK
<1>2. StreamInv
  BY DEF StreamInv
<1>3. LiveInv
  BY DEF LiveInv
<1>4. SignalInv
  BY DEF SignalInv
<1> QED BY <1>1, <1>2, <1>3, <1>4 DEF SourceInv

(* Every step keeps it.                                                    *)
LEMMA SourceInvStep ==
  /\ Source!TypeOK /\ SourceInv /\ (Source!Next \/ UNCHANGED sourceVars)
  => SourceInv'
<1> SUFFICES ASSUME Source!TypeOK, SourceInv,
                    Source!Next \/ UNCHANGED sourceVars
             PROVE  SourceInv'
  OBVIOUS
<1> USE DEF Source!TypeOK, SourceInv, StreamInv, LiveInv, SignalInv, Ending,
            Source!Parts, Source!others
<1>1. CASE Source!SetUp
  BY <1>1, ToCleanupStep DEF Source!SetUp, Source!Error
<1>2. CASE Source!Loop
  BY <1>2, ToCleanupStep DEF Source!Loop
<1>3. CASE Source!Select
  BY <1>3, ToCleanupStep DEF Source!Select, Source!Error, Source!ResponseExpected
<1>4. CASE Source!StartStream
  BY <1>4, Harms DEF Source!StartStream, Source!Goes
<1>5. CASE Source!Streaming
  BY <1>5 DEF Source!Streaming, Source!Goes
<1>6. CASE Source!Check
  BY <1>6 DEF Source!Check, Source!AfterTimeout
<1>7. CASE Source!StopStream("stop", "handshake")
  BY <1>7 DEF Source!StopStream, Source!Goes
<1>8. CASE Source!SendHandshake
  BY <1>8, ToCleanupStep DEF Source!SendHandshake, Source!Error
<1>9. CASE Source!Cleanup
  BY <1>9 DEF Source!Cleanup, Source!Frees, Source!StopStream,
              Source!CloseStream, Source!Goes
<1>10. CASE Source!CallbackBegins
  BY <1>10 DEF Source!CallbackBegins, Source!CallbackOnly
<1>11. CASE Source!Encode
  BY <1>11, Harms DEF Source!Encode, Source!CallbackAborts
<1>12. CASE Source!CallbackSends
  BY <1>12, Harms DEF Source!CallbackSends, Source!CallbackOnly
<1>13. CASE Source!Signal
  BY <1>13 DEF Source!Signal, Source!HandlerOnly, Source!FlagBeforeFarewell
<1>14. CASE Source!Farewell
  BY <1>14, Harms DEF Source!Farewell, Source!HandlerOnly
<1>15. CASE Source!ClearRunning
  BY <1>15 DEF Source!ClearRunning, Source!HandlerOnly
<1>16. CASE Source!source_stop
  BY <1>16 DEF Source!source_stop
<1>17. CASE UNCHANGED sourceVars
  BY <1>17 DEF sourceVars
<1> QED
  BY <1>1, <1>2, <1>3, <1>4, <1>5, <1>6, <1>7, <1>8, <1>9, <1>10, <1>11,
     <1>12, <1>13, <1>14, <1>15, <1>16, <1>17
     DEF Source!Next, Source!MainStep, Source!AudioCallback,
         Source!SignalHandler, Source!Returned, Source!vars, sourceVars

-----------------------------------------------------------------------------
(* Every variable of the win32 sink keeps its type, which is that of the   *)
(* unix sink's.                                                            *)
LEMMA Win32TypeStep == TypeOK /\ Win32!Next => TypeOK'
<1> SUFFICES ASSUME TypeOK, Win32!Next PROVE TypeOK'
  OBVIOUS
<1> USE ThreadAssumption DEF TypeOK, ThreadTypeOK
<1>1. CASE Win32!SetUp
  <2>1. is_running' \in BOOLEAN
    BY <1>1, Zenon DEF Win32!SetUp
  <2> QED BY <1>1, <2>1 DEF Win32!SetUp, Win32!Error, Win32!threadVars
<1>2. CASE Win32!StartThread
  <2>1. thread' \in {thread, [thread EXCEPT !.run = "created", !.handle = "live"],
                     [thread EXCEPT !.handle = "process"]}
    BY <1>2 DEF Win32!StartThread, Win32!ra_thread_start,
                Win32!ra_thread_start_fails
  <2>2. ThreadTypeOK'
    BY <1>2, <2>1 DEF Win32!StartThread
  <2> QED BY <1>2, <2>2 DEF Win32!StartThread, Win32!Error
<1>3. CASE Win32!TestRunning
  BY <1>3 DEF Win32!TestRunning, Win32!threadVars
<1>4. CASE Win32!Cleanup
  <2>1. early' \in BOOLEAN
    BY <1>4, Zenon DEF Win32!Cleanup, Win32!CleanupJoins
  <2>2. join' \in {join, [join EXCEPT !.at = "wait", !.waited = 0]}
    BY <1>4, Zenon DEF Win32!Cleanup, Win32!CleanupJoins, Win32!JoinBegins
  <2>3. main' \in {"join", "free"}
    BY <1>4, Zenon DEF Win32!Cleanup, Win32!CleanupJoins
  <2>4. ThreadTypeOK'
    <3>1. join' \in [at : {join.at, "wait"}, waited : {join.waited, 0},
                     result : {join.result}]
      BY <2>2
    <3> QED BY <1>4, <3>1 DEF Win32!Cleanup
  <2> QED BY <1>4, <2>1, <2>3, <2>4 DEF Win32!Cleanup
<1>5. CASE Win32!Join
  BY <1>5 DEF Win32!Join, Win32!JoinSucceeds, Win32!JoinUnlocks,
              Win32!JoinTimesOut, Win32!threadVars
<1>6. CASE Win32!Destroy
  BY <1>6 DEF Win32!Destroy, Win32!MainGoes, Win32!ra_thread_destroy
<1>7. CASE Win32!Free
  BY <1>7 DEF Win32!Free, Win32!MainGoes, Win32!threadVars
<1>8. CASE Win32!Receive
  BY <1>8 DEF Win32!Receive, Win32!Error, Win32!threadVars
<1>9. CASE Win32!sink_stop
  <2>1. is_running' \in BOOLEAN
    BY <1>9, Zenon DEF Win32!sink_stop
  <2> QED BY <1>9, <2>1 DEF Win32!sink_stop, Win32!threadVars
<1>10. CASE Win32!Tick
  BY <1>10 DEF Win32!Tick, Win32!JoinWaits, Win32!WaitedLong
<1>11. CASE Win32!BackgroundBegins
  <2>1. touched' \subseteq {"handle", "slots"}
    BY <1>11, Zenon DEF Win32!BackgroundBegins, Win32!Touch
  <2>2. ThreadTypeOK'
    BY <1>11 DEF Win32!BackgroundBegins, Win32!BootstrapBegins
  <2> QED BY <1>11, <2>1, <2>2 DEF Win32!BackgroundBegins
<1>12. CASE Win32!BackgroundTest
  BY <1>12 DEF Win32!BackgroundTest, Win32!BackgroundNext, Win32!threadVars
<1>13. CASE Win32!BackgroundPass
  <2>1. touched' \subseteq {"handle", "slots"}
    BY <1>13, Zenon DEF Win32!BackgroundPass, Win32!Touch
  <2> QED BY <1>13, <2>1 DEF Win32!BackgroundPass, Win32!threadVars
<1>14. CASE Win32!BackgroundEnds
  <2>1. touched' \subseteq {"handle", "slots"}
    BY <1>14, Zenon DEF Win32!BackgroundEnds, Win32!Touch
  <2>2. ThreadTypeOK'
    BY <1>14 DEF Win32!BackgroundEnds, Win32!BootstrapEnds
  <2> QED BY <1>14, <2>1, <2>2 DEF Win32!BackgroundEnds
<1> QED
  BY <1>1, <1>2, <1>3, <1>4, <1>5, <1>6, <1>7, <1>8, <1>9, <1>10, <1>11,
     <1>12, <1>13, <1>14
     DEF Win32!Next, Win32!MainStep, Win32!BackgroundStep

-----------------------------------------------------------------------------
(* A step is one of the program that was chosen, on its own variables.     *)
LEMMA ProgramsStep ==
  ASSUME [ProgramsNext]_programVars
  PROVE  /\ [Next]_vars \/ Win32!Next
         /\ Source!Next \/ UNCHANGED sourceVars
BY Zenon DEF ProgramsNext, Unix, Win, Src, programVars

(* Every variable of both programs keeps its type, on every platform       *)
(* (sink_main, source_main, lib/thread.h).                                 *)
THEOREM ProgramsTypeCorrect == ProgramsSpec => []ProgramsTypeOK
<1>1. ProgramsInit => ProgramsTypeOK
  BY InvInit, SourceInit DEF ProgramsInit, ProgramsTypeOK
<1>2. ProgramsTypeOK /\ [ProgramsNext]_programVars => ProgramsTypeOK'
  BY ProgramsStep, TypeStep, Win32TypeStep, SourceTypeStep DEF ProgramsTypeOK
<1> QED BY <1>1, <1>2, PTL DEF ProgramsSpec

(* The invariant of the source holds in every state.                       *)
LEMMA SourceInvariant == ProgramsSpec => []SourceInv
<1>1. ProgramsInit => SourceInv
  BY SourceInit DEF ProgramsInit
<1>2. ProgramsTypeOK /\ SourceInv /\ [ProgramsNext]_programVars => SourceInv'
  BY ProgramsStep, SourceInvStep DEF ProgramsTypeOK
<1> QED BY <1>1, <1>2, ProgramsTypeCorrect, PTL DEF ProgramsSpec

(* Between two iterations of source_main a started stream means a session, *)
(* and no stream is ever started twice (source.c:131, source.c:326).       *)
THEOREM AudioOnlyInSessionCorrect == ProgramsSpec => []AudioOnlyInSession
<1>1. SourceInv => AudioOnlyInSession
  BY DEF SourceInv, StreamInv, AudioOnlyInSession, Source!AudioOnlyInSession
<1> QED BY <1>1, SourceInvariant, PTL

(* audio_callback finds its stream or encoder freed only when the cleanup  *)
(* of source_main began in a session.                                      *)
THEOREM CallbackSafeCorrect == ProgramsSpec => []CallbackSafeOutsideSession
<1>1. SourceInv => CallbackSafeOutsideSession
  BY DEF SourceInv, LiveInv, CallbackSafeOutsideSession,
         Source!CallbackSafeOutsideSession
<1> QED BY <1>1, SourceInvariant, PTL

(* signal_handler finds the source freed only in a second signal, or when  *)
(* source_main failed.                                                     *)
THEOREM FirstSignalSafeCorrect == ProgramsSpec => []FirstSignalSafe
<1>1. SourceInv => FirstSignalSafe
  BY DEF SourceInv, SignalInv, FirstSignalSafe, Source!FirstSignalSafe
<1> QED BY <1>1, SourceInvariant, PTL
=============================================================================
