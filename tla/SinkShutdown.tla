--------------------------- MODULE SinkShutdown ----------------------------
(***************************************************************************)
(* The life of sink_main: its set-up, of which any step may fail, the main *)
(* loop, the background thread it starts, and the cleanup that joins that  *)
(* thread and then frees what both threads use: the slots, the socket and  *)
(* the signal messages.  A tick is a second: select and ra_sleep wait one, *)
(* and nothing else takes that long.  sink_stop stands for the signal      *)
(* handler too; both only clear is_running.                                *)
(***************************************************************************)
EXTENDS Threads

(* A join waits longer than the background thread sleeps.                  *)
ASSUME ShutdownAssumption == JOIN_TIMEOUT > 1

VARIABLES main,        \* where sink_main is
          background,  \* where background_thread is
          is_running,
          slots,       \* what audio_streams leads to: "live" or "freed"
          rc,          \* the code sink_main is to return
          early,       \* the join began before the thread did (history)
          touched      \* what the thread used after it was freed (history)

vars == <<threadVars, main, background, is_running, slots, rc, early, touched>>

TypeOK ==
  /\ ThreadTypeOK
  /\ main \in {"setup", "start", "loop", "select", "cleanup", "join", "destroy",
               "free", "returned"}
  /\ background \in {"out", "test", "pass", "sleep", "done"}
  /\ is_running \in BOOLEAN
  /\ slots \in {"live", "freed"}
  /\ rc \in {"EXIT_SUCCESS", "EXIT_FAILURE"}
  /\ early \in BOOLEAN
  /\ touched \subseteq {"handle", "slots"}

Init == /\ ThreadInit
        /\ main = "setup" /\ background = "out"
        /\ is_running = FALSE /\ slots = "live" /\ rc = "EXIT_SUCCESS"
        /\ early = FALSE /\ touched = {}

MainGoes(p, q) == main = p /\ main' = q
Touch(what, when) == touched' = touched \cup (IF when THEN {what} ELSE {})
Error == main' = "cleanup" /\ rc' = "EXIT_FAILURE"

-----------------------------------------------------------------------------
(* Audio, crypto or socket set-up fails, or all succeed and is_running is  *)
(* set: a stop that came before is forgotten.                              *)
SetUp ==
  /\ main = "setup"
  /\ \/ Error /\ UNCHANGED is_running
     \/ main' = "start" /\ is_running' = TRUE /\ UNCHANGED rc
  /\ UNCHANGED <<threadVars, background, slots, early, touched>>

StartThread ==
  /\ main = "start"
  /\ \/ ra_thread_start /\ main' = "loop" /\ UNCHANGED rc
     \/ ra_thread_start_fails /\ Error
  /\ UNCHANGED <<join, background, is_running, slots, early, touched>>

TestRunning == /\ main = "loop"
               /\ main' = IF is_running THEN "select" ELSE "cleanup"
               /\ UNCHANGED <<threadVars, background, is_running, slots, rc,
                              early, touched>>

(* A datagram arrives and is handled, or select or recvfrom fails (an      *)
(* empty datagram counts as a failure).                                    *)
Receive == /\ main = "select"
           /\ \/ main' = "loop" /\ UNCHANGED rc
              \/ Error
           /\ UNCHANGED <<threadVars, background, is_running, slots, early,
                          touched>>

(* Fault: the cleanup goes on without waiting for the thread.              *)
CleanupUnjoined == /\ main' = "destroy"
                   /\ UNCHANGED <<join, early>>

CleanupJoins == IF thread.handle = "null"
                THEN main' = "free" /\ UNCHANGED <<join, early>>
                ELSE /\ main' = "join" /\ JoinBegins
                     /\ early' = (thread.run = "created")

Cleanup == /\ main = "cleanup" /\ CleanupJoins
           /\ UNCHANGED <<thread, background, is_running, slots, rc, touched>>

Join == /\ main = "join"
        /\ \/ /\ JoinSucceeds \/ JoinUnlocks \/ JoinTimesOut
              /\ UNCHANGED main
           \/ /\ join.at = "back" /\ main' = "destroy"
              /\ UNCHANGED threadVars
        /\ UNCHANGED <<background, is_running, slots, rc, early, touched>>

Destroy == /\ MainGoes("destroy", "free") /\ ra_thread_destroy
           /\ UNCHANGED <<join, background, is_running, slots, rc, early, touched>>

(* audio_stream_destroy of every slot, the socket, ra_proto_deinit.        *)
Free == /\ MainGoes("free", "returned") /\ slots' = "freed"
        /\ UNCHANGED <<threadVars, background, is_running, rc, early, touched>>

sink_stop == /\ is_running /\ is_running' = FALSE
             /\ UNCHANGED <<threadVars, main, background, slots, rc, early,
                            touched>>

-----------------------------------------------------------------------------
BackgroundBegins == /\ BootstrapBegins /\ background' = "test"
                    /\ Touch("handle", HandleGone)
                    /\ UNCHANGED <<join, main, is_running, slots, rc, early>>

(* Fault: the thread runs as long as the process.                          *)
BackgroundAlways == "pass"

BackgroundNext == IF is_running THEN "pass" ELSE "done"

BackgroundTest == /\ background = "test" /\ background' = BackgroundNext
                  /\ UNCHANGED <<threadVars, main, is_running, slots, rc, early,
                                 touched>>

(* handle_liveness reads the slots, closes some and sends on the socket.   *)
BackgroundPass == /\ background = "pass" /\ background' = "sleep"
                  /\ Touch("slots", slots = "freed")
                  /\ UNCHANGED <<threadVars, main, is_running, slots, rc, early>>

BackgroundEnds == /\ background = "done" /\ BootstrapEnds
                  /\ background' = "out"
                  /\ Touch("handle", HandleGone)
                  /\ UNCHANGED <<join, main, is_running, slots, rc, early>>

(* A second passes when everybody waits.  A thread that was created may    *)
(* stay unscheduled.                                                       *)
MainWaits == \/ main \in {"select", "returned"}
             \/ main = "join" /\ join.at = "wait" /\ ~DoneForJoin
BackgroundWaits == background \in {"sleep", "out"}

Tick == /\ MainWaits /\ BackgroundWaits
        /\ main' = IF main = "select" THEN "loop" ELSE main
        /\ background' = IF background = "sleep" THEN "test" ELSE background
        /\ JoinWaits
        /\ UNCHANGED <<thread, is_running, slots, rc, early, touched>>

-----------------------------------------------------------------------------
MainStep == \/ SetUp \/ StartThread \/ TestRunning \/ Cleanup
            \/ Join \/ Destroy \/ Free
BackgroundStep == BackgroundTest \/ BackgroundPass \/ BackgroundEnds

Next == \/ MainStep \/ Receive \/ sink_stop \/ Tick
        \/ BackgroundBegins \/ BackgroundStep

Spec == Init /\ [][Next]_vars

(* Both threads run once scheduled, and time passes.  Nothing is assumed   *)
(* of datagrams, of signals, or of when a new thread is first scheduled.   *)
FairSpec == /\ Spec /\ WF_vars(MainStep) /\ WF_vars(BackgroundStep)
            /\ WF_vars(Tick)

-----------------------------------------------------------------------------
(* The background thread uses slots, socket or messages that were freed    *)
(* only when sink_main failed: its error path leaves is_running set, and   *)
(* the join it then waits for can only time out or come too early.         *)
SlotsFreedInPeace == "slots" \in touched => rc = "EXIT_FAILURE"

(* The thread uses the mutex of a destroyed handle only when sink_main     *)
(* failed, or when it was joined before it was first scheduled.            *)
HandleFreedInPeace == "handle" \in touched => early \/ rc = "EXIT_FAILURE"

(* A join that succeeds means that the thread is done, unless it had not   *)
(* begun: then, on unix, nobody holds the mutex yet.                       *)
JoinMeansDone == join.result = "ok"
                   => thread.run = "ended" \/ (Platform = "unix" /\ early)

(* A stopped sink whose thread had begun does not run into the join's      *)
(* timeout; a failed one does, as is_running keeps its thread running.     *)
StopNeedsNoTimeout == join.result = "timeout" => early \/ rc = "EXIT_FAILURE"

(* Once the sink was stopped or failed, sink_main returns, whatever the    *)
(* thread does.                                                            *)
ShutdownEnds == main = "cleanup" \/ (main \in {"loop", "select"} /\ ~is_running)
                  ~> main = "returned"
=============================================================================
