------------------------------ MODULE SigMask -------------------------------
(***************************************************************************)
(* signal/sig_mask.c: SIGINT is blocked until SIGTERM has been received;   *)
(* main waits in pause, looks at the flag that the handler of SIGTERM      *)
(* sets, and gives SIGINT free when it is pending.                         *)
(***************************************************************************)
EXTENDS Naturals

CONSTANT MaxSignals   \* bound on the signals somebody sends

VARIABLES
    mainAt,          \* the call main is in front of; "pausing" is in pause
    handled,         \* signals whose handler is installed
    blocked,         \* SIGINT is in the signal mask
    pending,         \* signals that are sent and not delivered
    unblock_sig_int,
    sent             \* how many signals were sent

vars == <<mainAt, handled, blocked, pending, unblock_sig_int, sent>>

Signals == {"SIGINT", "SIGTERM"}

Init == /\ mainAt = "sigaction SIGINT"
        /\ handled = {} /\ blocked = FALSE /\ pending = {}
        /\ unblock_sig_int = FALSE /\ sent = 0

-----------------------------------------------------------------------------
Install(s, next) == /\ mainAt = (IF s = "SIGINT" THEN "sigaction SIGINT" ELSE "sigaction SIGTERM")
                    /\ handled' = handled \cup {s}
                    /\ mainAt' = next
                    /\ UNCHANGED <<blocked, pending, unblock_sig_int, sent>>

(* sigprocmask(SIG_BLOCK)                                                  *)
Block == /\ mainAt = "block"
         /\ blocked' = TRUE /\ mainAt' = "pause"
         /\ UNCHANGED <<handled, pending, unblock_sig_int, sent>>

Pause == /\ mainAt = "pause" /\ mainAt' = "pausing"
         /\ UNCHANGED <<handled, blocked, pending, unblock_sig_int, sent>>

(* pause has returned.                                                     *)
Look == /\ mainAt = "look"
        /\ mainAt' = IF unblock_sig_int THEN "sigpending" ELSE "pause"
        /\ UNCHANGED <<handled, blocked, pending, unblock_sig_int, sent>>

SigPending == /\ mainAt = "sigpending"
              /\ mainAt' = IF "SIGINT" \in pending THEN "setmask" ELSE "pause"
              /\ UNCHANGED <<handled, blocked, pending, unblock_sig_int, sent>>

(* sigprocmask(SIG_SETMASK, &old_sig_mask)                                 *)
SetMask == /\ mainAt = "setmask"
           /\ blocked' = FALSE /\ mainAt' = "pause"
           /\ UNCHANGED <<handled, pending, unblock_sig_int, sent>>

(* A signal that is not blocked is delivered between any two instructions:
   handle_signal runs, and a pause returns; without a handler the process
   is killed.                                                              *)
Deliver == \E s \in pending :
             /\ mainAt # "killed" /\ ~(s = "SIGINT" /\ blocked)
             /\ pending' = pending \ {s}
             /\ IF s \in handled
                THEN /\ unblock_sig_int' = (unblock_sig_int \/ s = "SIGTERM")
                     /\ mainAt' = IF mainAt = "pausing" THEN "look" ELSE mainAt
                ELSE mainAt' = "killed" /\ UNCHANGED unblock_sig_int
             /\ UNCHANGED <<handled, blocked, sent>>

Send == \E s \in Signals :
          /\ sent < MaxSignals /\ mainAt # "killed"
          /\ pending' = pending \cup {s} /\ sent' = sent + 1
          /\ UNCHANGED <<mainAt, handled, blocked, unblock_sig_int>>

MainStep == \/ Install("SIGINT", "sigaction SIGTERM")
            \/ Install("SIGTERM", "block")
            \/ Block \/ Pause \/ Look \/ SigPending \/ SetMask

Next == MainStep \/ Deliver \/ Send

Spec == Init /\ [][Next]_vars

(* The process is scheduled and the kernel delivers what it may deliver.   *)
FairSpec == Spec /\ WF_vars(MainStep) /\ WF_vars(Deliver)

-----------------------------------------------------------------------------
(* What handle_signal prints, line 110: after SIGTERM has been received,
   SIGINT is unblocked.  So a SIGINT that is pending then is handled.      *)
TermUnblocks ==
    unblock_sig_int /\ "SIGINT" \in pending ~> "SIGINT" \notin pending
=============================================================================
