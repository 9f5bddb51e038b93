--------------------------- MODULE SourceTeardown --------------------------
(***************************************************************************)
(* The life of source_main and of what it shares with PortAudio's thread,  *)
(* which runs audio_callback, and with the signal handler: the stream, the *)
(* encoder, the PortAudio stream, and the source structure itself.  Module *)
(* Source has the protocol; here a datagram is a response, a message or a  *)
(* failed recvfrom.  The handler may run on any thread (the main thread    *)
(* blocks signals while it selects), so its steps interleave with all      *)
(* others.                                                                 *)
(***************************************************************************)
EXTENDS Naturals

VARIABLES handlers,   \* whether signal_handler is installed: not by the service
          main,       \* where source_main is
          state,      \* the source's state: 0, 1 or 2
          pa_stream,  \* what PortAudio does with the stream
          callback,   \* where audio_callback is
          handler,    \* where signal_handler is
          is_running,
          live,       \* what is allocated and not freed
          rc,         \* the code source_main is to return
          signals,    \* signals so far, two standing for more (history)
          streaming,  \* state was 2 when the cleanup began (history)
          damage      \* what went wrong so far (history)

vars == <<handlers, main, state, pa_stream, callback, handler, is_running, live,
          rc, signals, streaming, damage>>

Parts == {"stream", "encoder", "sock", "source"}

TypeOK ==
  /\ handlers \in BOOLEAN
  /\ main \in {"setup", "loop", "select", "start", "streaming", "check", "stop",
               "handshake", "cleanup", "encoder", "stop_stream", "close_stream",
               "free", "returned"}
  /\ state \in 0 .. 2
  /\ pa_stream \in {"none", "open", "started", "aborted", "closed"}
  /\ callback \in {"idle", "encode", "send"}
  /\ handler \in {"idle", "send", "clear"}
  /\ is_running \in BOOLEAN
  /\ live \subseteq Parts
  /\ rc \in {"EXIT_SUCCESS", "EXIT_FAILURE"}
  /\ signals \in 0 .. 2
  /\ streaming \in BOOLEAN
  /\ damage \subseteq {"callback_used_freed", "signal_used_freed",
                       "started_twice"}

Init == /\ handlers \in BOOLEAN
        /\ main = "setup" /\ state = 0 /\ pa_stream = "none"
        /\ callback = "idle" /\ handler = "idle" /\ is_running = FALSE
        /\ live = {"stream", "source"} /\ rc = "EXIT_SUCCESS"
        /\ signals = 0 /\ streaming = FALSE /\ damage = {}

Harmed(what, when) == damage' = damage \cup (IF when THEN {what} ELSE {})
Goes(p, q) == main = p /\ main' = q
ToCleanup == main' = "cleanup" /\ streaming' = (state = 2)
Error == ToCleanup /\ rc' = "EXIT_FAILURE"

others == <<handlers, callback, handler, signals>>

-----------------------------------------------------------------------------
(* Audio stream, encoder, crypto, socket and first handshake, in this      *)
(* order; the first that fails ends in the cleanup.                        *)
SetUp ==
  /\ main = "setup"
  /\ \/ /\ main' = "loop" /\ state' = 1 /\ is_running' = TRUE
        /\ pa_stream' = "open" /\ live' = Parts
        /\ UNCHANGED <<rc, streaming>>
     \/ /\ Error
        /\ \/ pa_stream' = "none" /\ UNCHANGED live
           \/ /\ pa_stream' = "open"
              /\ live' \in {live, live \cup {"encoder"}, Parts}
        /\ UNCHANGED <<state, is_running>>
  /\ UNCHANGED <<others, damage>>

Loop == /\ main = "loop"
        /\ \/ is_running /\ main' = "select" /\ UNCHANGED streaming
           \/ ~is_running /\ ToCleanup
        /\ UNCHANGED <<state, pa_stream, others, is_running, live, rc, damage>>

(* handle_handshake_response starts the audio before it changes the state. *)
(* Fault: a response is handled whatever the state.                        *)
ResponseExpectedAlways == TRUE

ResponseExpected == state <= 1

(* What select brings: a response; a second without datagram, or a message *)
(* that only shows life; a failure of select, recvfrom or nothing to read. *)
Select ==
  /\ main = "select"
  /\ \/ ResponseExpected /\ main' = "start" /\ UNCHANGED <<rc, streaming>>
     \/ main' = "check" /\ UNCHANGED <<rc, streaming>>
     \/ Error
  /\ UNCHANGED <<state, pa_stream, others, is_running, live, damage>>

StartStream ==
  /\ Goes("start", "streaming")
  /\ Harmed("started_twice", pa_stream = "started")
  /\ pa_stream' \in {"started", pa_stream}
  /\ UNCHANGED <<state, others, is_running, live, rc, streaming>>

Streaming == /\ Goes("streaming", "check") /\ state' = 2
             /\ UNCHANGED <<pa_stream, others, is_running, live, rc, streaming,
                            damage>>

(* The heartbeat timeout: stop the audio of a session, shake hands again.  *)
(* Fault: the audio of the old session goes on.                            *)
AfterTimeoutHandshake == "handshake"

AfterTimeout == IF state >= 2 THEN "stop" ELSE "handshake"

Check == /\ main = "check" /\ main' \in {"loop", AfterTimeout}
         /\ UNCHANGED <<state, pa_stream, others, is_running, live, rc, streaming,
                        damage>>

(* Pa_StopStream returns when no callback is in progress.                  *)
StopStream(p, q) ==
  /\ Goes(p, q) /\ callback = "idle"
  /\ pa_stream' = IF pa_stream \in {"started", "aborted"} THEN "open"
                                                          ELSE pa_stream
  /\ UNCHANGED <<state, others, is_running, live, rc, streaming, damage>>

SendHandshake ==
  /\ main = "handshake"
  /\ \/ main' = "loop" /\ state' = 1 /\ UNCHANGED <<rc, streaming>>
     \/ Error /\ UNCHANGED state
  /\ UNCHANGED <<pa_stream, others, is_running, live, damage>>

-----------------------------------------------------------------------------
(* The cleanup, in its order; the last step also closes the socket, whose  *)
(* variable keeps its value.                                               *)
Frees(p, q, part) ==
  /\ Goes(p, q) /\ live' = live \ part
  /\ UNCHANGED <<state, pa_stream, others, is_running, rc, streaming, damage>>

CloseStream == /\ Goes("close_stream", "free")
               /\ pa_stream' = IF pa_stream = "none" THEN "none" ELSE "closed"
               /\ UNCHANGED <<state, others, is_running, live, rc, streaming,
                              damage>>

Cleanup == \/ Frees("cleanup", "encoder", {"stream"})
           \/ Frees("encoder", "stop_stream", {"encoder"})
           \/ StopStream("stop_stream", "close_stream")
           \/ CloseStream
           \/ Frees("free", "returned", {"sock", "source"})

-----------------------------------------------------------------------------
CallbackOnly(p, q) == /\ callback = p /\ callback' = q
                      /\ UNCHANGED <<handlers, main, state, handler, is_running,
                                     live, rc, signals, streaming>>

CallbackBegins == /\ pa_stream = "started" /\ CallbackOnly("idle", "encode")
                  /\ UNCHANGED <<pa_stream, damage>>

(* A frame of another size or an encoder's error ends the stream: paAbort. *)
(* Fault: the callback ends it by stopping the stream it runs in.          *)
CallbackStopsItself == callback' = "stopping" /\ UNCHANGED pa_stream

CallbackAborts == /\ callback' = "idle"
                  /\ pa_stream' = IF pa_stream = "started" THEN "aborted"
                                                           ELSE pa_stream

Encode ==
  /\ callback = "encode"
  /\ Harmed("callback_used_freed", "encoder" \notin live)
  /\ \/ callback' = "send" /\ UNCHANGED pa_stream
     \/ CallbackAborts
  /\ UNCHANGED <<handlers, main, state, handler, is_running, live, rc, signals,
                 streaming>>

CallbackSends == /\ CallbackOnly("send", "idle")
                 /\ Harmed("callback_used_freed", "stream" \notin live)
                 /\ UNCHANGED pa_stream

AudioCallback == CallbackBegins \/ Encode \/ CallbackSends

-----------------------------------------------------------------------------
(* signal_handler: the farewell, then the flag.                            *)
HandlerOnly(p, q) == /\ handler = p /\ handler' = q
                     /\ UNCHANGED <<handlers, main, state, pa_stream, callback,
                                    live, rc, streaming>>

(* Fault: the flag is cleared before the farewell.                         *)
FlagCleared == FALSE

FlagBeforeFarewell == is_running

(* The handlers are installed just before the loop, and stay installed.    *)
Signal == /\ handlers /\ state > 0
          /\ HandlerOnly("idle", "send")
          /\ signals' = IF signals = 2 THEN 2 ELSE signals + 1
          /\ is_running' = FlagBeforeFarewell
          /\ UNCHANGED damage

Farewell == /\ HandlerOnly("send", "clear")
            /\ Harmed("signal_used_freed", ~({"stream", "source"} \subseteq live))
            /\ UNCHANGED <<is_running, signals>>

ClearRunning == /\ HandlerOnly("clear", "idle") /\ is_running' = FALSE
                /\ UNCHANGED <<signals, damage>>

source_stop == /\ ~handlers /\ is_running' = FALSE
               /\ UNCHANGED <<main, state, pa_stream, others, live, rc, streaming,
                              damage>>

-----------------------------------------------------------------------------
MainStep == \/ SetUp \/ Loop \/ Select \/ StartStream \/ Streaming \/ Check
            \/ StopStream("stop", "handshake") \/ SendHandshake \/ Cleanup

SignalHandler == Farewell \/ ClearRunning

Returned == main = "returned" /\ UNCHANGED vars

Next == MainStep \/ AudioCallback \/ Signal \/ SignalHandler \/ source_stop
        \/ Returned

Spec == Init /\ [][Next]_vars

(* Each thread goes on: select returns within a second, a callback that    *)
(* began ends, and Pa_StopStream sooner or later finds none in progress.   *)
StopsStream == \/ StopStream("stop", "handshake")
               \/ StopStream("stop_stream", "close_stream")

FairSpec == Spec /\ WF_vars(MainStep) /\ WF_vars(AudioCallback)
                 /\ WF_vars(SignalHandler) /\ SF_vars(StopsStream)

-----------------------------------------------------------------------------
(* Audio is captured only for a session that is up, looked at between two  *)
(* iterations, and Pa_StartStream is never called on a started stream: a   *)
(* response counts only while no session is up, and the timeout stops the  *)
(* audio before it asks for the next one.                                  *)
AudioOnlyInSession ==
  /\ main \in {"loop", "select"} /\ pa_stream = "started" => state = 2
  /\ "started_twice" \notin damage

(* The callback uses the freed stream or encoder only if the source ended  *)
(* in a session: without one its order of freeing is harmless.             *)
CallbackSafeOutsideSession == "callback_used_freed" \in damage => streaming

(* The signal that stops the source is handled before anything is freed:   *)
(* only a second one, or one that meets an error, finds freed memory.      *)
FirstSignalSafe == "signal_used_freed" \in damage
                     => signals > 1 \/ rc = "EXIT_FAILURE"

(* A source that was stopped, or failed, returns: Pa_StopStream waits for  *)
(* a callback that does not wait for source_main.                          *)
ShutdownEnds == (state > 0 /\ ~is_running) \/ main = "cleanup"
                  ~> main = "returned"
=============================================================================
