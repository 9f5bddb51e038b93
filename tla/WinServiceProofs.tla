-------------------------- MODULE WinServiceProofs --------------------------
(***************************************************************************)
(* Proofs about the Windows service: what it says when it has stopped, and *)
(* what its two mains do to the signal messages they share.  The service   *)
(* has no constants, but thousands of states: the proofs show why, where   *)
(* TLC shows that.                                                         *)
(***************************************************************************)
EXTENDS WinService, TLAPS

(* Where a thread's main has yet to set its flag; where it has ended; and  *)
(* where libsodium was initialized by it.                                  *)
Starting == {"created", "setup", "crypto", "bind"}
Over == {"ended", "done"}
Passed == {"bind", "loop", "ending"}

(* Where SvcInit has not reported SERVICE_RUNNING, and where it has told   *)
(* the mains to stop.                                                      *)
BeforeRunning == {"init", "sink", "source", "report"}
Joining == {"join_sink", "join_source", "destroy", "stopped"}

(* Threads start in order, before any control is accepted.                 *)
StartInv ==
  /\ svc \in {"init", "sink", "source"} => thread["source"] = "none"
  /\ svc \in {"init", "sink"} => thread["sink"] = "none"
  /\ svc \in BeforeRunning => status.state = "START_PENDING" /\ handler = "idle"

(* running is true of the threads that run, exit_code of those that ended. *)
ThreadInv ==
  \A t \in Mains :
    /\ running[t] <=> thread[t] \in Starting \cup {"loop", "failing", "ending"}
    /\ exit_code[t] # 0 => \/ thread[t] \in Over
                           \/ thread[t] = "none" /\ svc \notin BeforeRunning

(* After the stop, what could still run was forgotten.                     *)
StopInv ==
  svc \in Joining => \A t \in Mains :
    thread[t] \in Starting \/ (thread[t] = "loop" /\ is_running[t]) => t \in lost

(* The code of a joined thread is on its way to the service manager.       *)
JoinInv ==
  /\ joined # {} => svc \in {"join_source", "destroy", "stopped"}
  /\ \A t \in joined : thread[t] \in Over
  /\ \A t \in joined : exit_code[t] # 0 =>
       \/ svc \in {"join_source", "destroy"} /\ rc # 0
       \/ svc = "stopped" /\ (crossed \/ status.code # 0)
  /\ svc = "stopped" /\ ~crossed => handler = "idle" /\ status.state = "STOPPED"

(* Only one main gets past libsodium.                                      *)
CryptoInv ==
  /\ \A t \in Mains : thread[t] \in Passed => sodium
  /\ \A t, u \in Mains : thread[t] \in Passed /\ thread[u] \in Passed => t = u

(* Whoever freed the messages under a main that got past libsodium, or     *)
(* still can, failed.                                                      *)
MessagesInv ==
  \A t, u \in Mains :
    t # u /\ messages = "freed" /\ thread[t] \notin Over
      /\ (sodium => thread[t] \in Passed)
      => exit_code[u] # 0

Inv == /\ StartInv /\ ThreadInv /\ StopInv /\ JoinInv /\ CryptoInv /\ MessagesInv
       /\ MessagesKept

-----------------------------------------------------------------------------
(* A step of a thread moves that thread.                                   *)
LEMMA Moves ==
  ASSUME TypeOK, NEW t \in Mains, NEW p, NEW q, ThreadGoes(t, p, q)
  PROVE  /\ thread[t] = p /\ thread'[t] = q
         /\ \A u \in Mains : u # t => thread'[u] = thread[u]
BY DEF TypeOK, ThreadGoes

(* Every step keeps the types.                                             *)
LEMMA TypeStep == TypeOK /\ [Next]_vars => TypeOK'
<1> SUFFICES ASSUME TypeOK, [Next]_vars PROVE TypeOK'
  OBVIOUS
<1> USE DEF TypeOK, SvcOnly, HandlerOnly, ThreadOnly, SvcGoes, SvcReportStatus,
            init, mains, globals
<1>1. CASE SvcBegins /\ UNCHANGED process
  <2>1. log' \in BOOLEAN
    BY <1>1, Zenon DEF SvcBegins
  <2> QED BY <1>1, <2>1 DEF SvcBegins
<1>2. ASSUME NEW t \in Mains, NEW q \in {"source", "report"}, StartThread(t, q),
             UNCHANGED process
      PROVE  TypeOK'
  <2>1. running' \in [Mains -> BOOLEAN]
    BY <1>2 DEF StartThread, RunningSet
  <2>2. /\ thread' \in {thread, [thread EXCEPT ![t] = "created"]}
        /\ exit_code' \in {exit_code, [exit_code EXCEPT ![t] = 1]}
        /\ svc' \in {q, "cleanup"}
    BY <1>2 DEF StartThread
  <2> QED BY <1>2, <2>1, <2>2 DEF StartThread
<1>3. CASE ReportRunning /\ UNCHANGED process
  BY <1>3 DEF ReportRunning
<1>4. CASE WaitForStop /\ UNCHANGED process
  BY <1>4 DEF WaitForStop
<1>5. CASE StopMains /\ UNCHANGED process
  <2>1. is_running' \in [Mains -> BOOLEAN]
    BY <1>5 DEF StopMains
  <2>2. lost' \subseteq Mains
    BY <1>5, Zenon DEF StopMains
  <2> QED BY <1>5, <2>1, <2>2 DEF StopMains
<1>6. ASSUME NEW t \in Mains, NEW p, NEW q \in {"join_source", "destroy"},
             Join(t, p, q), UNCHANGED process
      PROVE  TypeOK'
  <2>1. rc' \in {0, 1}
    BY <1>6 DEF Join, CodeAfter
  <2>2. joined' \subseteq Mains
    BY <1>6 DEF Join
  <2> QED BY <1>6, <2>1, <2>2 DEF Join
<1>7. CASE ReportStopped /\ UNCHANGED process
  <2>1. crossed' \in BOOLEAN
    BY <1>7, Zenon DEF ReportStopped, Crossing
  <2> QED BY <1>7, <2>1 DEF ReportStopped
<1>8. CASE Stop /\ UNCHANGED process
  BY <1>8 DEF Stop
<1>9. CASE SetStopEvent /\ UNCHANGED process
  BY <1>9 DEF SetStopEvent, EventSet
<1>10. CASE LoadState /\ UNCHANGED process
  BY <1>10 DEF LoadState
<1>11. CASE ReportAgain /\ UNCHANGED process
  BY <1>11 DEF ReportAgain
<1>12. ASSUME NEW t \in Mains, MainBegins(t) PROVE TypeOK'
  BY <1>12 DEF MainBegins, ThreadGoes
<1>13. CASE SourceNotRun
  <2>1. "source" \in Mains
    BY DEF Mains
  <2>2. thread' = [thread EXCEPT !["source"] = "ended"]
    BY <1>13 DEF SourceNotRun, ThreadGoes
  <2>3. exit_code' \in [Mains -> {0, 1}]
    BY <1>13, <2>1 DEF SourceNotRun
  <2>4. running' \in [Mains -> BOOLEAN]
    BY <1>13, <2>1 DEF SourceNotRun
  <2> QED BY <1>13, <2>1, <2>2, <2>3, <2>4 DEF SourceNotRun, UnrunLeavesMessages
<1>14. ASSUME NEW t \in Mains, SetUpStep(t, "setup", "crypto") PROVE TypeOK'
  BY <1>14 DEF SetUpStep, ThreadGoes
<1>15. ASSUME NEW t \in Mains, CryptoInit(t) PROVE TypeOK'
  <2>1. sodium' \in BOOLEAN
    BY <1>15, Zenon DEF CryptoInit
  <2>2. thread' \in {thread, [thread EXCEPT ![t] = "bind"]}
    BY <1>15 DEF CryptoInit, ThreadGoes
  <2> QED BY <1>15, <2>1, <2>2 DEF CryptoInit
<1>16. ASSUME NEW t \in Mains, Bind(t) PROVE TypeOK'
  <2>1. is_running' \in [Mains -> BOOLEAN]
    BY <1>16 DEF Bind
  <2>2. thread' \in {[thread EXCEPT ![t] = "loop"], [thread EXCEPT ![t] = "failing"]}
    BY <1>16 DEF Bind, ThreadGoes
  <2> QED BY <1>16, <2>1, <2>2 DEF Bind
<1>17. ASSUME NEW t \in Mains, LoopEnds(t) PROVE TypeOK'
  BY <1>17 DEF LoopEnds, ThreadGoes
<1>18. ASSUME NEW t \in Mains, LoopFails(t) PROVE TypeOK'
  BY <1>18 DEF LoopFails, ThreadGoes
<1>19. CASE SinkSignals
  BY <1>19 DEF SinkSignals
<1>20. ASSUME NEW t \in Mains, MainEnds(t) PROVE TypeOK'
  <2>1. /\ thread' = [thread EXCEPT ![t] = "ended"]
        /\ exit_code' \in {exit_code, [exit_code EXCEPT ![t] = 1]}
        /\ damage' \subseteq damage \cup {"freed_twice"}
    BY <1>20 DEF MainEnds, ThreadGoes
  <2>2. running' \in [Mains -> BOOLEAN]
    BY <1>20 DEF MainEnds
  <2> QED BY <1>20, <2>1, <2>2 DEF MainEnds
<1>21. CASE SinkDone
  <2>1. "sink" \in Mains
    BY DEF Mains
  <2> QED BY <1>21, <2>1 DEF SinkDone, ThreadGoes, EventAfterSink
<1>22. CASE LogClosedTwice \/ ProcessEnds
  <2>1. /\ process' \in {"crashed", "exited"}
        /\ UNCHANGED <<init, handler, status, stopEvent, mains, globals>>
    BY <1>22, Zenon DEF LogClosedTwice, ProcessEnds
  <2> QED BY <2>1
<1>23. CASE UNCHANGED vars
  BY <1>23 DEF vars
<1> QED
  <2>1. "sink" \in Mains /\ "source" \in Mains
    BY DEF Mains
  <2>2. CASE (SvcInit \/ Stop \/ SvcCtrlHandler) /\ UNCHANGED process
    BY <2>1, <2>2, <1>1, <1>2, <1>3, <1>4, <1>5, <1>6, <1>7, <1>8, <1>9, <1>10,
       <1>11 DEF SvcInit, SvcCtrlHandler
  <2>3. CASE ThreadStep \/ SinkSignals \/ \E t \in Mains : LoopFails(t)
    BY <2>3, <1>12, <1>13, <1>14, <1>15, <1>16, <1>17, <1>18, <1>19, <1>20,
       <1>21 DEF ThreadStep, MainStep
  <2> QED BY <2>2, <2>3, <1>22, <1>23 DEF Next, Lives, ProcessGone

-----------------------------------------------------------------------------
(* The invariant holds at first.                                           *)
LEMMA InvInit == Init => TypeOK /\ Inv
<1> SUFFICES ASSUME Init PROVE TypeOK /\ Inv
  OBVIOUS
<1> USE DEF Init
<1>1. TypeOK
  BY DEF TypeOK
<1>2. StartInv /\ ThreadInv /\ StopInv
  BY DEF StartInv, ThreadInv, StopInv, BeforeRunning, Joining, Starting, Over, Mains
<1>3. JoinInv /\ CryptoInv /\ MessagesInv /\ MessagesKept
  BY DEF JoinInv, CryptoInv, MessagesInv, MessagesKept, Passed, Over, Mains
<1> QED BY <1>1, <1>2, <1>3 DEF Inv

(* Every step keeps it.                                                    *)
LEMMA InvStep == TypeOK /\ Inv /\ [Next]_vars => Inv'
<1> SUFFICES ASSUME TypeOK, Inv, [Next]_vars PROVE Inv'
  OBVIOUS
<1>m. Mains = {"sink", "source"}
  BY DEF Mains
<1> USE <1>m DEF TypeOK, Inv, StartInv, ThreadInv, StopInv, JoinInv, CryptoInv,
        MessagesInv, MessagesKept, Starting, Over, Passed, BeforeRunning, Joining,
        SvcOnly, HandlerOnly, ThreadOnly, SvcGoes, SvcReportStatus, init, mains,
        globals
<1>1. CASE SvcBegins /\ UNCHANGED process
  BY <1>1 DEF SvcBegins
<1>2. ASSUME NEW t \in Mains, NEW q \in {"source", "report"}, StartThread(t, q),
             t = "sink" <=> q = "source", UNCHANGED process
      PROVE  Inv'
  BY <1>2 DEF StartThread, RunningSet
<1>3. CASE ReportRunning /\ UNCHANGED process
  BY <1>3 DEF ReportRunning
<1>4. CASE WaitForStop /\ UNCHANGED process
  BY <1>4 DEF WaitForStop
<1>5. CASE StopMains /\ UNCHANGED process
  <2>1. /\ svc = "cleanup" /\ svc' = "join_sink"
        /\ UNCHANGED <<handler, status, thread, running, exit_code, rc, joined,
                       crossed, sodium, messages, damage>>
    BY <1>5 DEF StopMains
  <2>2. \A t \in Mains : is_running'[t] => ~running[t]
    BY <1>5, Zenon DEF StopMains
  <2>3. \A t \in Mains : running[t] /\ thread[t] \in Starting => t \in lost'
    BY <1>5 DEF StopMains
  <2>4. StopInv'
    BY <2>1, <2>2, <2>3
  <2>5. (StartInv /\ ThreadInv /\ JoinInv)'
    BY <2>1
  <2>6. (CryptoInv /\ MessagesInv /\ MessagesKept)'
    BY <2>1
  <2> QED BY <2>4, <2>5, <2>6
<1>6. ASSUME NEW t \in Mains, NEW p \in {"join_sink", "join_source"},
             NEW q \in {"join_source", "destroy"},
             Join(t, p, q), UNCHANGED process
      PROVE  Inv'
  <2>1. /\ svc = p /\ svc' = q
        /\ UNCHANGED <<handler, status, thread, running, exit_code, is_running,
                       lost, crossed, sodium, messages, damage>>
    BY <1>6 DEF Join
  <2>2. /\ joined' \subseteq joined \cup {t}
        /\ t \in joined' => t \in joined \/ thread[t] \in Over
    BY <1>6 DEF Join
  <2>3. IF exit_code[t] # 0 THEN rc' # 0 ELSE rc' = rc
    BY <1>6 DEF Join, CodeAfter
  <2>4. \A u \in joined' : thread[u] \in Over /\ (exit_code[u] # 0 => rc' # 0)
    BY <2>1, <2>2, <2>3
  <2>5. JoinInv'
    BY <2>1, <2>4
  <2>6. (StartInv /\ ThreadInv /\ StopInv)'
    BY <2>1
  <2>7. (CryptoInv /\ MessagesInv /\ MessagesKept)'
    BY <2>1
  <2> QED BY <2>5, <2>6, <2>7
<1>7. CASE ReportStopped /\ UNCHANGED process
  <2>1. /\ svc = "destroy" /\ svc' = "stopped"
        /\ status'.state = "STOPPED" /\ status'.code = rc
        /\ UNCHANGED <<handler, thread, running, exit_code, is_running, lost,
                       joined, sodium, messages, damage>>
    BY <1>7 DEF ReportStopped
  <2>2. ~crossed' => handler = "idle"
    BY <1>7, Zenon DEF ReportStopped, Crossing
  <2>3. JoinInv'
    BY <2>1, <2>2
  <2>4. (StartInv /\ ThreadInv /\ StopInv)'
    BY <2>1
  <2>5. (CryptoInv /\ MessagesInv /\ MessagesKept)'
    BY <2>1
  <2> QED BY <2>3, <2>4, <2>5
<1>8. CASE Stop /\ UNCHANGED process
  BY <1>8 DEF Stop, AcceptsStop
<1>9. CASE SetStopEvent /\ UNCHANGED process
  BY <1>9 DEF SetStopEvent, EventSet
<1>10. CASE LoadState /\ UNCHANGED process
  BY <1>10 DEF LoadState
<1>11. CASE ReportAgain /\ UNCHANGED process
  BY <1>11 DEF ReportAgain
<1>12. ASSUME NEW t \in Mains, MainBegins(t) PROVE Inv'
  BY <1>12, Moves DEF MainBegins
<1>13. CASE SourceNotRun
  BY <1>13, Moves DEF SourceNotRun, UnrunLeavesMessages
<1>14. ASSUME NEW t \in Mains, SetUpStep(t, "setup", "crypto") PROVE Inv'
  BY <1>14, Moves DEF SetUpStep
<1>15. ASSUME NEW t \in Mains, CryptoInit(t) PROVE Inv'
  BY <1>15, Moves DEF CryptoInit
<1>16. ASSUME NEW t \in Mains, Bind(t) PROVE Inv'
  BY <1>16, Moves DEF Bind
<1>17. ASSUME NEW t \in Mains, LoopEnds(t) PROVE Inv'
  BY <1>17, Moves DEF LoopEnds
<1>18. ASSUME NEW t \in Mains, LoopFails(t) PROVE Inv'
  BY <1>18, Moves DEF LoopFails
<1>19. CASE SinkSignals
  BY <1>19 DEF SinkSignals
<1>20. ASSUME NEW t \in Mains, MainEnds(t) PROVE Inv'
  BY <1>20, Moves DEF MainEnds
<1>21. CASE SinkDone
  BY <1>21, Moves DEF SinkDone
<1>22. CASE LogClosedTwice \/ ProcessEnds
  <2>1. UNCHANGED <<init, handler, status, mains, globals>>
    BY <1>22 DEF LogClosedTwice, ProcessEnds
  <2> QED BY <2>1
<1>23. CASE UNCHANGED vars
  BY <1>23 DEF vars
<1> QED
  <2>2. CASE (SvcInit \/ Stop \/ SvcCtrlHandler) /\ UNCHANGED process
    BY <2>2, <1>1, <1>2, <1>3, <1>4, <1>5, <1>6, <1>7, <1>8, <1>9, <1>10,
       <1>11 DEF SvcInit, SvcCtrlHandler
  <2>3. CASE ThreadStep \/ SinkSignals \/ \E t \in Mains : LoopFails(t)
    BY <2>3, <1>12, <1>13, <1>14, <1>15, <1>16, <1>17, <1>18, <1>19, <1>20,
       <1>21 DEF ThreadStep, MainStep
  <2> QED BY <2>2, <2>3, <1>22, <1>23 DEF Next, Lives, ProcessGone

(* Every variable of the service keeps its type.                           *)
THEOREM TypeCorrect == Spec => []TypeOK
<1>1. Init => TypeOK
  BY InvInit
<1> QED BY <1>1, TypeStep, PTL DEF Spec

(* The invariant holds in every state.                                     *)
LEMMA Invariant == Spec => []Inv
<1>1. Init => Inv
  BY InvInit
<1> QED BY <1>1, InvStep, TypeCorrect, PTL DEF Spec

(* SvcInit says that it stopped while a main runs only if that main set    *)
(* its flag after the stop that cleared it (service.c:259-273).            *)
THEOREM StoppedWhatRanCorrect == Spec => []StoppedWhatRan
<1>1. Inv => StoppedWhatRan
  BY DEF Inv, StopInv, StoppedWhatRan, Joining
<1> QED BY <1>1, Invariant, PTL

(* The code of a joined main that failed reaches the service manager,      *)
(* unless SvcCtrlHandler was reporting too (service.c:264-273).            *)
THEOREM FailureReportedCorrect == Spec => []FailureReported
<1>1. TypeOK /\ Inv => FailureReported
  BY DEF TypeOK, Inv, JoinInv, FailureReported
<1> QED BY <1>1, TypeCorrect, Invariant, PTL

(* The signal messages are used after their end, or ended twice, only when *)
(* a main failed, as two that work do not both pass sodium_init            *)
(* (proto.c:28-36, crypto.c:6).                                            *)
THEOREM MessagesKeptCorrect == Spec => []MessagesKept
<1>1. Inv => MessagesKept
  BY DEF Inv
<1> QED BY <1>1, Invariant, PTL
=============================================================================
