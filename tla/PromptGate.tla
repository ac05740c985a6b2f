------------------------------ MODULE PromptGate ------------------------------
(***************************************************************************)
(* The '>'-prompt gate of BLEManagerBase: prompt_mutex_, prompt_cv_,       *)
(* prompt_ready_ and prompt_buffer_.  A thread that has sent a command to  *)
(* the ELM327 calls waitForPrompt; the BLE queue calls notifyPrompt when   *)
(* it finds a '>' in the buffered notifications, and so does a thread that *)
(* stops the polling.                                                      *)
(*                                                                         *)
(* A critical section on prompt_mutex_ is one step.  notify_one runs after *)
(* the mutex has been released, so it is a step of its own, and the C++    *)
(* runtime chooses which waiter it wakes.                                  *)
(***************************************************************************)
EXTENDS Naturals

CONSTANTS Waiters,         \* threads that call waitForPrompt
          Notifiers,       \* threads that call notifyPrompt
          PromptBufferMax  \* how many '>' fit in PROMPT_BUFFER_MAX characters

VARIABLES
    prompt_ready,   \* prompt_ready_
    waiting,        \* where each waiter is with respect to prompt_cv_
    notifying,      \* notifiers between their critical section and notify_one
    prompt_buffer   \* number of '>' left in prompt_buffer_

gateVars == <<prompt_ready, waiting, notifying, prompt_buffer>>

WaitStates == {"no", "blocked", "woken"}

GateTypeOK ==
    /\ prompt_ready \in BOOLEAN
    /\ waiting \in [Waiters -> WaitStates]
    /\ notifying \subseteq Notifiers
    /\ prompt_buffer \in 0 .. PromptBufferMax

GateInit ==
    /\ prompt_ready = FALSE
    /\ waiting = [t \in Waiters |-> "no"]
    /\ notifying = {}
    /\ prompt_buffer = 0

-----------------------------------------------------------------------------
(* waitForPrompt: lock, clear the flag, and block.  wait_for tests its     *)
(* predicate first, but the flag has just been cleared under the lock.     *)
BeginWait(t) ==
    /\ waiting[t] = "no"
    /\ prompt_ready' = FALSE
    /\ waiting' = [waiting EXCEPT ![t] = "blocked"]
    /\ UNCHANGED <<notifying, prompt_buffer>>

(* The woken waiter reacquires the mutex and finds the predicate true.     *)
WaitSucceeds(t) ==
    /\ waiting[t] = "woken"
    /\ prompt_ready
    /\ waiting' = [waiting EXCEPT ![t] = "no"]
    /\ UNCHANGED <<prompt_ready, notifying, prompt_buffer>>

(* ... or finds that another waiter has cleared the flag, and blocks again. *)
WaitAgain(t) ==
    /\ waiting[t] = "woken"
    /\ ~prompt_ready
    /\ waiting' = [waiting EXCEPT ![t] = "blocked"]
    /\ UNCHANGED <<prompt_ready, notifying, prompt_buffer>>

(* The deadline passes; neither caller does more than log the result.      *)
WaitTimesOut(t) ==
    /\ waiting[t] # "no"
    /\ waiting' = [waiting EXCEPT ![t] = "no"]
    /\ UNCHANGED <<prompt_ready, notifying, prompt_buffer>>

-----------------------------------------------------------------------------
(* Faulty variant: notifyPrompt sets the flag and forgets notify_one.      *)
SetReadySilently(n) ==
    /\ n \notin notifying
    /\ prompt_ready' = TRUE
    /\ UNCHANGED <<waiting, notifying>>

(* The critical section of notifyPrompt.                                   *)
SetReady(n) ==
    /\ n \notin notifying
    /\ prompt_ready' = TRUE
    /\ notifying' = notifying \cup {n}
    /\ UNCHANGED waiting

(* notify_one, after the critical section: it wakes one blocked waiter, if *)
(* there is one.                                                           *)
NotifyOne(n) ==
    /\ n \in notifying
    /\ notifying' = notifying \ {n}
    /\ \/ \E t \in Waiters :
            /\ waiting[t] = "blocked"
            /\ waiting' = [waiting EXCEPT ![t] = "woken"]
       \/ /\ \A t \in Waiters : waiting[t] # "blocked"
          /\ UNCHANGED waiting
    /\ UNCHANGED <<prompt_ready, prompt_buffer>>

(* Faulty variant: every notification opens the gate, '>' or not.          *)
ScanAnything(n, k) ==
    /\ prompt_buffer' = 0
    /\ SetReady(n)

(* invokeDataCallback outside CAN mode: append a notification that holds k *)
(* prompts, and erase the buffer through the first '>' if there is one.    *)
(* Only that one is consumed: the others stay for the next notification,   *)
(* as far as the trimmed buffer holds them.                                *)
ScanNotification(n, k) ==
    \/ /\ prompt_buffer + k > 0
       /\ prompt_buffer' = IF prompt_buffer + k > PromptBufferMax
                           THEN PromptBufferMax
                           ELSE prompt_buffer + k - 1
       /\ SetReady(n)
    \/ /\ prompt_buffer + k = 0
       /\ UNCHANGED gateVars

-----------------------------------------------------------------------------
(* A waiter that is still blocked although the flag is up has a notify_one *)
(* on its way: the prompt it waits for is not discovered by the timeout.   *)
NoLostWakeup ==
    \A t \in Waiters :
        waiting[t] = "blocked" /\ prompt_ready => notifying # {}
=============================================================================
