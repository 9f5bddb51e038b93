----------------------------- MODULE WinService -----------------------------
(***************************************************************************)
(* The Windows service, src/cmd/win32/service.c: SvcInit, which starts a   *)
(* thread for sink_main and one for source_main, waits for the stop event  *)
(* and cleans up; SvcCtrlHandler, which runs on a thread of the system;    *)
(* and the two mains, as far as the process is concerned.  Both mains set  *)
(* up the same globals: libsodium and the two signal messages.             *)
(*                                                                         *)
(* A report to the system is one step.  Exit codes are 0 or 1, for any     *)
(* failure.  The process ends with ra_logger_fatal, or once SvcInit has    *)
(* returned.                                                               *)
(***************************************************************************)
EXTENDS Naturals

VARIABLES svc,         \* where SvcInit is
          handler,     \* where SvcCtrlHandler is
          status,      \* gSvcStatus as the system last saw it: [state, code]
          stopEvent,   \* gSvcStopEvent is set
          thread,      \* where each thread is
          running,     \* ctx->running of each thread
          exit_code,   \* ctx->exit_code of each thread
          is_running,  \* the flag of each main
          rc,          \* the code SvcInit is to report
          log,         \* the log file was opened, for out and err alike
          sodium,      \* libsodium is initialized
          messages,    \* the signal messages of lib/proto.c
          process,     \* whether the process lives
          lost,        \* mains that set their flag after a stop (history)
          joined,      \* threads that ended before their join did (history)
          crossed,     \* a control was handled while SvcInit ended (history)
          damage       \* "used", "freed_twice" (history)

init == <<svc, rc, log, joined, crossed>>
mains == <<thread, running, exit_code, is_running, lost>>
globals == <<sodium, messages, damage>>
vars == <<init, handler, status, stopEvent, mains, globals, process>>

Mains == {"sink", "source"}

TypeOK ==
  /\ svc \in {"init", "sink", "source", "report", "wait", "cleanup",
              "join_sink", "join_source", "destroy", "stopped"}
  /\ handler \in {"idle", "set", "load", "report_pending", "report_stopped"}
  /\ status \in [state : {"START_PENDING", "RUNNING", "STOP_PENDING", "STOPPED"},
                 code : {0, 1}]
  /\ thread \in [Mains -> {"none", "created", "setup", "crypto", "bind", "loop",
                           "failing", "ending", "ended", "done"}]
  /\ running \in [Mains -> BOOLEAN] /\ exit_code \in [Mains -> {0, 1}]
  /\ is_running \in [Mains -> BOOLEAN]
  /\ stopEvent \in BOOLEAN /\ sodium \in BOOLEAN /\ crossed \in BOOLEAN
  /\ rc \in {0, 1} /\ log \in BOOLEAN
  /\ messages \in {"none", "live", "freed"}
  /\ process \in {"lives", "exited", "fatal", "crashed"}
  /\ lost \subseteq Mains /\ joined \subseteq Mains
  /\ damage \subseteq {"used", "freed_twice"}

(* SvcMain has reported SERVICE_START_PENDING.                             *)
Init ==
  /\ svc = "init" /\ handler = "idle" /\ stopEvent = FALSE
  /\ status = [state |-> "START_PENDING", code |-> 0]
  /\ thread = [t \in Mains |-> "none"]
  /\ running = [t \in Mains |-> FALSE] /\ exit_code = [t \in Mains |-> 0]
  /\ is_running = [t \in Mains |-> FALSE]
  /\ rc = 0 /\ log = FALSE /\ sodium = FALSE /\ messages = "none" /\ process = "lives"
  /\ lost = {} /\ joined = {} /\ crossed = FALSE /\ damage = {}

SvcReportStatus(s, c) == status' = [state |-> s, code |-> c]

(* dwControlsAccepted                                                      *)
AcceptsStop == status.state # "START_PENDING"

-----------------------------------------------------------------------------
SvcGoes(p, q) == svc = p /\ svc' = q
SvcOnly == UNCHANGED <<handler, stopEvent, globals>>
Crossing == crossed' = (crossed \/ handler # "idle")

(* CreateEvent and the log file; both can fail.                            *)
SvcBegins ==
  /\ svc = "init"
  /\ \/ svc' = "sink" /\ log' = TRUE /\ UNCHANGED <<status, rc>>
     \/ svc' = "cleanup" /\ rc' = 1 /\ UNCHANGED <<status, log>>
     \/ svc' = "stopped" /\ SvcReportStatus("STOPPED", 1) /\ UNCHANGED <<rc, log>>
  /\ SvcOnly /\ UNCHANGED <<mains, joined, crossed>>

(* Fault: running is left to the thread to set.                            *)
RunningUnset(t) == UNCHANGED running

RunningSet(t) == running' = [running EXCEPT ![t] = TRUE]

StartThread(t, next) ==
  /\ svc = t
  /\ \/ /\ RunningSet(t) /\ thread' = [thread EXCEPT ![t] = "created"]
        /\ svc' = next /\ UNCHANGED exit_code
     \/ /\ exit_code' = [exit_code EXCEPT ![t] = 1] /\ svc' = "cleanup"
        /\ UNCHANGED <<thread, running>>
  /\ SvcOnly /\ UNCHANGED <<status, is_running, lost, rc, log, joined, crossed>>

ReportRunning == /\ SvcGoes("report", "wait") /\ SvcReportStatus("RUNNING", 0)
                 /\ SvcOnly /\ UNCHANGED <<mains, rc, log, joined, crossed>>

WaitForStop == /\ SvcGoes("wait", "cleanup") /\ stopEvent
               /\ SvcOnly /\ UNCHANGED <<status, mains, rc, log, joined, crossed>>

(* sink_stop and source_stop for what runs, whether or not it already set  *)
(* the flag that they clear.                                               *)
StopMains ==
  /\ SvcGoes("cleanup", "join_sink")
  /\ is_running' = [t \in Mains |-> is_running[t] /\ ~running[t]]
  /\ lost' = {t \in Mains : running[t] /\ thread[t] \in
                              {"created", "setup", "crypto", "bind"}}
  /\ SvcOnly /\ UNCHANGED <<status, thread, running, exit_code, rc, log, joined, crossed>>

(* Fault: the later thread's code counts, whatever it is.                  *)
CodeOfLast(t) == exit_code[t]

(* Fault: the codes are added up.                                          *)
CodesAdded(t) == rc + exit_code[t]

CodeAfter(t) == IF exit_code[t] # 0 THEN exit_code[t] ELSE rc

(* The join of 30 seconds.  A main whose flag is cleared ends in time; one *)
(* that starts up, fails (sink_main then waits 30 seconds for a thread of  *)
(* its own) or never saw the stop may not.                                 *)
MayTimeOut(t) == \/ thread[t] \in {"none", "created", "setup", "crypto", "bind",
                                   "failing"}
                 \/ thread[t] = "loop" /\ is_running[t]

Join(t, here, next) ==
  /\ SvcGoes(here, next)
  /\ \/ thread[t] \in {"ended", "done"} /\ joined' = joined \cup {t}
     \/ MayTimeOut(t) /\ UNCHANGED joined
  /\ rc' = CodeAfter(t)
  /\ SvcOnly /\ UNCHANGED <<status, mains, log, crossed>>

(* The logger and its stream are destroyed, then the end is reported.      *)
ReportStopped == /\ SvcGoes("destroy", "stopped") /\ SvcReportStatus("STOPPED", rc)
                 /\ Crossing
                 /\ SvcOnly /\ UNCHANGED <<mains, rc, log, joined>>

SvcInit == \/ SvcBegins \/ StartThread("sink", "source")
           \/ StartThread("source", "report") \/ ReportRunning \/ WaitForStop
           \/ StopMains \/ Join("sink", "join_sink", "join_source")
           \/ Join("source", "join_source", "destroy") \/ ReportStopped

-----------------------------------------------------------------------------
(* SvcCtrlHandler: the state that is reported last is loaded first.        *)
HandlerOnly == UNCHANGED <<svc, rc, log, joined, mains, globals>>

(* The system sends nothing to a service that is stopping or stopped.      *)
Stop == /\ handler = "idle" /\ handler' = "set" /\ AcceptsStop
        /\ status.state \notin {"STOP_PENDING", "STOPPED"}
        /\ SvcReportStatus("STOP_PENDING", 0)
        /\ UNCHANGED <<stopEvent, crossed>> /\ HandlerOnly

(* Fault: the event is not set.                                            *)
EventUnset == stopEvent

EventSet == TRUE

SetStopEvent == /\ handler = "set" /\ handler' = "load" /\ stopEvent' = EventSet
                /\ UNCHANGED <<status, crossed>> /\ HandlerOnly

LoadState == /\ handler = "load"
             /\ handler' = IF status.state = "STOPPED" THEN "report_stopped"
                                                       ELSE "report_pending"
             /\ UNCHANGED <<status, stopEvent, crossed>> /\ HandlerOnly

ReportAgain ==
  /\ handler' = "idle"
  /\ \/ handler = "report_pending" /\ SvcReportStatus("STOP_PENDING", 0)
     \/ handler = "report_stopped" /\ SvcReportStatus("STOPPED", 0)
  /\ UNCHANGED <<stopEvent, crossed>> /\ HandlerOnly

SvcCtrlHandler == SetStopEvent \/ LoadState \/ ReportAgain

-----------------------------------------------------------------------------
ThreadGoes(t, p, q) == thread[t] = p /\ thread' = [thread EXCEPT ![t] = q]
ThreadOnly == UNCHANGED <<init, handler, status>>

(* ra_proto_init: new messages, in the place of those there were.          *)
MainBegins(t) == /\ ThreadGoes(t, "created", "setup") /\ messages' = "live"
                 /\ ThreadOnly
                 /\ UNCHANGED <<stopEvent, running, exit_code, is_running, lost,
                                sodium, damage, process>>

(* Fault: a source that is not run cleans up like one that was.            *)
UnrunCleansUp == messages' = "freed"

UnrunLeavesMessages == UNCHANGED messages

(* No [source] section, or one without host.                               *)
SourceNotRun == /\ ThreadGoes("source", "created", "ended")
                /\ \E c \in {0, 1} :
                     exit_code' = [exit_code EXCEPT !["source"] = c]
                /\ running' = [running EXCEPT !["source"] = FALSE]
                /\ UnrunLeavesMessages
                /\ ThreadOnly
                /\ UNCHANGED <<stopEvent, is_running, lost, sodium, damage, process>>

(* Audio; the socket.                                                      *)
SetUpStep(t, p, q) == /\ \/ ThreadGoes(t, p, q)
                         \/ ThreadGoes(t, p, "failing")
                      /\ ThreadOnly
                      /\ UNCHANGED <<stopEvent, running, exit_code, is_running,
                                     lost, globals, process>>

(* ra_crypto_init: sodium_init answers 1 when it was initialized before,   *)
(* and any answer but 0 is fatal.  It can also fail by itself.             *)
CryptoInit(t) == /\ thread[t] = "crypto"
                 /\ \/ ~sodium /\ ThreadGoes(t, "crypto", "bind")
                       /\ sodium' = TRUE /\ UNCHANGED process
                    \/ process' = "fatal" /\ UNCHANGED <<thread, sodium>>
                 /\ ThreadOnly
                 /\ UNCHANGED <<stopEvent, running, exit_code, is_running, lost,
                                messages, damage>>

Bind(t) == /\ \/ /\ ThreadGoes(t, "bind", "loop")
                 /\ is_running' = [is_running EXCEPT ![t] = TRUE]
              \/ ThreadGoes(t, "bind", "failing") /\ UNCHANGED is_running
           /\ ThreadOnly
           /\ UNCHANGED <<stopEvent, running, exit_code, lost, globals, process>>

LoopEnds(t) == /\ ~is_running[t] /\ ThreadGoes(t, "loop", "ending")
               /\ ThreadOnly
               /\ UNCHANGED <<stopEvent, running, exit_code, is_running, lost,
                              globals, process>>

LoopFails(t) == /\ ThreadGoes(t, "loop", "failing")
                /\ ThreadOnly
                /\ UNCHANGED <<stopEvent, running, exit_code, is_running, lost,
                               globals, process>>

(* The sink sends a heartbeat or a TERMINATE.                              *)
SinkSignals == /\ thread["sink"] = "loop" /\ messages = "freed"
               /\ damage' = damage \cup {"used"}
               /\ ThreadOnly
               /\ UNCHANGED <<stopEvent, mains, sodium, messages, process>>

(* The cleanup with ra_proto_deinit, and the thread's last lines.          *)
MainEnds(t) ==
  /\ \/ ThreadGoes(t, "ending", "ended") /\ UNCHANGED exit_code
     \/ ThreadGoes(t, "failing", "ended")
        /\ exit_code' = [exit_code EXCEPT ![t] = 1]
  /\ running' = [running EXCEPT ![t] = FALSE]
  /\ damage' = damage \cup (IF messages = "freed" THEN {"freed_twice"} ELSE {})
  /\ messages' = "freed"
  /\ ThreadOnly /\ UNCHANGED <<stopEvent, is_running, lost, sodium, process>>

EventAfterSink == TRUE

SinkDone == /\ ThreadGoes("sink", "ended", "done") /\ stopEvent' = EventAfterSink
            /\ ThreadOnly
            /\ UNCHANGED <<running, exit_code, is_running, lost, globals, process>>

MainStep(t) == \/ MainBegins(t) \/ SetUpStep(t, "setup", "crypto")
               \/ CryptoInit(t) \/ Bind(t) \/ LoopEnds(t) \/ MainEnds(t)
ThreadStep == SourceNotRun \/ SinkDone \/ \E t \in Mains : MainStep(t)

-----------------------------------------------------------------------------
(* The log file is the stream's out and its err: closing the stream closes *)
(* it twice, which may go well or not.                                     *)
LogClosedTwice == /\ svc = "destroy" /\ log /\ process' = "crashed"
                  /\ UNCHANGED <<init, handler, status, stopEvent, mains, globals>>

ProcessEnds == /\ svc = "stopped" /\ process' = "exited"
               /\ UNCHANGED <<init, handler, status, stopEvent, mains, globals>>

ProcessGone == process # "lives" /\ UNCHANGED vars

Lives(A) == process = "lives" /\ A

Next == \/ Lives((SvcInit \/ Stop \/ SvcCtrlHandler) /\ UNCHANGED process)
        \/ Lives(ThreadStep \/ SinkSignals \/ \E t \in Mains : LoopFails(t))
        \/ Lives(LogClosedTwice \/ ProcessEnds)
        \/ ProcessGone

Spec == Init /\ [][Next]_vars

(* Every thread of the process is scheduled.                               *)
FairSpec == /\ Spec
            /\ WF_vars(Lives(SvcInit /\ UNCHANGED process))
            /\ WF_vars(Lives(SvcCtrlHandler /\ UNCHANGED process))
            /\ WF_vars(Lives(ThreadStep))

-----------------------------------------------------------------------------
(* A stop, or the end of the sink, ends the service.                       *)
StopStops == status.state = "STOP_PENDING" \/ thread["sink"] = "done"
               ~> svc = "stopped" \/ process # "lives"

(* A main still runs when the service says it stopped only if the stop     *)
(* came before it set is_running, which then forgot it.                    *)
StoppedWhatRan ==
  svc = "stopped" => \A t \in Mains :
    thread[t] = "loop" /\ is_running[t] => t \in lost

(* The failure of a main that was joined reaches the service manager,      *)
(* unless a control was being handled when the service ended.              *)
FailureReported ==
  svc = "stopped" /\ ~crossed /\ (\E t \in joined : exit_code[t] # 0)
    => status.code # 0

(* The signal messages are freed under a running sink only by a source     *)
(* that failed, and freed twice only after a failure: two mains that both  *)
(* work do not get as far as sharing them.                                 *)
MessagesKept ==
  /\ "used" \in damage => exit_code["source"] # 0
  /\ "freed_twice" \in damage => \E t \in Mains : exit_code[t] # 0

(* ra_crypto_init calls the library's initialization failed (crypto.c:7).  *)
FatalMeansFailed == [][process' = "fatal" /\ process # "fatal" => ~sodium]_vars
=============================================================================
