----------------------------- MODULE MCPrograms -----------------------------
(***************************************************************************)
(* The lives of the two programs in one instance for TLC: the first state  *)
(* chooses sink_main on unix, sink_main on win32 or source_main, and the   *)
(* variables of what was not chosen keep their first values.  Platform is  *)
(* "unix" here; the win32 sink is an instance on the same variables.       *)
(***************************************************************************)
EXTENDS SinkShutdown

VARIABLES program,
          handlers, sourceMain, state, pa_stream, callback, handler,
          sourceRunning, live, sourceRc, signals, streaming, damage

sourceVars == <<handlers, sourceMain, state, pa_stream, callback, handler,
                sourceRunning, live, sourceRc, signals, streaming, damage>>
programVars == <<program, vars, sourceVars>>

Win32 == INSTANCE SinkShutdown WITH Platform <- "win32"

Source == INSTANCE SourceTeardown WITH
            main <- sourceMain, is_running <- sourceRunning, rc <- sourceRc

ProgramsInit == /\ program \in {"sink_unix", "sink_win32", "source"}
                /\ Init /\ Source!Init

Unix(A) == program = "sink_unix" /\ A /\ UNCHANGED <<program, sourceVars>>
Win(A) == program = "sink_win32" /\ A /\ UNCHANGED <<program, sourceVars>>
Src(A) == program = "source" /\ A /\ UNCHANGED <<program, vars>>

ProgramsNext == Unix(Next) \/ Win(Win32!Next) \/ Src(Source!Next)

(* The fairness of the three specifications.                               *)
UnixFairness == /\ WF_programVars(Unix(MainStep))
                /\ WF_programVars(Unix(BackgroundStep))
                /\ WF_programVars(Unix(Tick))
Win32Fairness == /\ WF_programVars(Win(Win32!MainStep))
                 /\ WF_programVars(Win(Win32!BackgroundStep))
                 /\ WF_programVars(Win(Win32!Tick))
SourceFairness == /\ WF_programVars(Src(Source!MainStep))
                  /\ WF_programVars(Src(Source!AudioCallback))
                  /\ WF_programVars(Src(Source!SignalHandler))
                  /\ SF_programVars(Src(Source!StopsStream))

ProgramsSpec == /\ ProgramsInit /\ [][ProgramsNext]_programVars
                /\ UnixFairness /\ Win32Fairness /\ SourceFairness

-----------------------------------------------------------------------------
(* The types of the variables of both programs.                            *)
ProgramsTypeOK == TypeOK /\ Source!TypeOK

(* Audio is captured only in a session, and its stream is started once     *)
(* (handle_handshake_response, the timeout of source_main).                *)
AudioOnlyInSession == Source!AudioOnlyInSession

(* audio_callback uses what was freed only if the source ended in a        *)
(* session (the cleanup of source_main).                                   *)
CallbackSafeOutsideSession == Source!CallbackSafeOutsideSession

(* signal_handler uses what was freed only in a second signal or an error. *)
FirstSignalSafe == Source!FirstSignalSafe

(* A program that was stopped, or failed, returns from sink_main or        *)
(* source_main.                                                            *)
ProgramsEnd == ShutdownEnds /\ Source!ShutdownEnds
=============================================================================
