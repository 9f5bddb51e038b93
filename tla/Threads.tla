------------------------------ MODULE Threads ------------------------------
(***************************************************************************)
(* One thread as src/lib/thread.h offers it.  On "unix" the started thread *)
(* holds a mutex of its handle while its function runs and the timed join  *)
(* waits for that mutex.  On "win32" the join waits for the thread itself, *)
(* and _beginthread closes the handle when the thread ends, so that a      *)
(* later wait and a later CloseHandle only fail.                           *)
(***************************************************************************)
EXTENDS Naturals

CONSTANTS Platform,     \* "unix" or "win32"
          JOIN_TIMEOUT  \* ticks a timed join waits

ASSUME ThreadAssumption == /\ Platform \in {"unix", "win32"}
                           /\ JOIN_TIMEOUT \in Nat \ {0}

VARIABLES thread,  \* [run, handle, mutex]
          join     \* [at, waited, result]: the join in progress, if any

threadVars == <<thread, join>>

(* "none": never started; "created": not scheduled yet.  A failed start on *)
(* win32 returns -1, which is not a null handle but means the process.     *)
ThreadTypeOK ==
  /\ thread \in [run : {"none", "created", "running", "ended"},
                 handle : {"null", "live", "freed", "process"},
                 mutex : {"free", "thread", "joiner"}]
  /\ join \in [at : {"no", "wait", "unlock", "back"},
               waited : 0 .. JOIN_TIMEOUT,
               result : {"none", "ok", "timeout"}]

ThreadInit ==
  /\ thread = [run |-> "none", handle |-> "null", mutex |-> "free"]
  /\ join = [at |-> "no", waited |-> 0, result |-> "none"]

(* Whether a step of the thread uses a handle that was destroyed.          *)
HandleGone == Platform = "unix" /\ thread.handle = "freed"

-----------------------------------------------------------------------------
ra_thread_start == thread' = [thread EXCEPT !.run = "created", !.handle = "live"]

(* On unix what was begun of the handle is destroyed and null is returned. *)
ra_thread_start_fails ==
  IF Platform = "unix" THEN UNCHANGED thread
                       ELSE thread' = [thread EXCEPT !.handle = "process"]

(* thread_bootstrap up to the thread's function ...                        *)
BootstrapBegins ==
  /\ thread.run = "created"
  /\ Platform = "unix" => thread.mutex = "free"
  /\ thread' = [thread EXCEPT !.run = "running",
                              !.mutex = IF Platform = "unix" THEN "thread" ELSE @]

(* ... and after it.                                                       *)
BootstrapEnds ==
  /\ thread.run = "running"
  /\ thread' = [thread EXCEPT !.run = "ended",
                              !.mutex = IF @ = "thread" THEN "free" ELSE @]

-----------------------------------------------------------------------------
(* ra_thread_join_timeout                                                  *)
JoinBegins == /\ join.at = "no"
              /\ join' = [join EXCEPT !.at = "wait", !.waited = 0]

(* Fault: no wait at all, as for a deadline that is not added to the time. *)
WaitedAtOnce == TRUE

WaitedLong == join.waited >= JOIN_TIMEOUT

(* Fault: the thread is taken to be done whenever it runs.                 *)
DoneOnceStarted == thread.run \in {"running", "ended"}

(* What the join waits for.                                                *)
DoneForJoin == CASE thread.handle = "process" -> FALSE
                 [] Platform = "unix" -> thread.mutex = "free"
                 [] OTHER -> thread.run = "ended"

JoinSucceeds ==
  /\ join.at = "wait" /\ DoneForJoin
  /\ IF Platform = "unix"
     THEN /\ thread' = [thread EXCEPT !.mutex = "joiner"]
          /\ join' = [join EXCEPT !.at = "unlock"]
     ELSE /\ join' = [join EXCEPT !.at = "back", !.result = "ok"]
          /\ UNCHANGED thread

JoinUnlocks == /\ join.at = "unlock"
               /\ thread' = [thread EXCEPT !.mutex = "free"]
               /\ join' = [join EXCEPT !.at = "back", !.result = "ok"]

(* Fault: the join has no deadline.                                        *)
JoinUntimed == FALSE

JoinTimesOut == /\ join.at = "wait" /\ WaitedLong /\ ~DoneForJoin
                /\ join' = [join EXCEPT !.at = "back", !.result = "timeout"]
                /\ UNCHANGED thread

JoinWaits == join' = [join EXCEPT !.waited =
                        IF join.at = "wait" /\ ~WaitedLong THEN @ + 1 ELSE @]

ra_thread_destroy ==
  thread' = [thread EXCEPT !.handle = IF @ = "live" THEN "freed" ELSE @]
=============================================================================
