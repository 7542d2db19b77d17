------------------------------ MODULE Monitor ------------------------------
(***************************************************************************)
(* What a condition variable promises, without its waiter locks: the       *)
(* critical sections of one lock exclude each other, wait() gives up the   *)
(* lock and joins the line of sleepers in ONE step, and each signal is     *)
(* given under the lock to the thread at the head of the line.  A sleeper  *)
(* with a timeout may give up at any moment; until it has left the line a  *)
(* signal may still be spent on it.                                        *)
(*                                                                         *)
(* notify() counts off the oldest of the line and owes each of them a      *)
(* signal before the lock is given up.  It may fail before that, and then  *)
(* wakes nobody, but only if somebody left the line while it counted.      *)
(***************************************************************************)
EXTENDS Naturals, SequencesExt

CONSTANTS Threads, None

VARIABLES
  main,   \* the thread that can be interrupted, or None; never changes
  holder, \* the thread inside the monitor, or None
  line,   \* the waiters that can be signalled, oldest first
  mode,   \* "run", "asleep", "gaveup" (timed out, listed) or "awake"
  call,   \* the holder's notify(): "none", "copying", "spoilt" or "waking"
  due     \* the threads it has still to signal

mvars == <<main, holder, line, mode, call, due>>

MonitorInit ==
  /\ main \in Threads \cup {None}
  /\ holder = None
  /\ line = <<>>
  /\ mode = [t \in Threads |-> "run"]
  /\ call = "none" /\ due = <<>>

Enter(t) ==
  /\ mode[t] = "run" /\ holder = None
  /\ holder' = t
  /\ UNCHANGED <<main, line, mode, call, due>>

\* t is inside and not in the middle of a notify().
Holds(t) == mode[t] = "run" /\ holder = t /\ call = "none"

Exit(t) ==
  /\ Holds(t)
  /\ holder' = None
  /\ UNCHANGED <<main, line, mode, call, due>>

Sleep(t) ==
  /\ Holds(t)
  /\ holder' = None
  /\ line' = Append(line, t)
  /\ mode' = [mode EXCEPT ![t] = "asleep"]
  /\ UNCHANGED <<main, call, due>>

\* Only the holder notifies.
Begin(t) ==
  /\ Holds(t) /\ line # <<>>
  /\ call' = "copying"
  /\ UNCHANGED <<main, holder, line, mode, due>>

Choose(t, n) ==
  /\ holder = t /\ call = "copying"
  /\ n \in 1..Len(line)
  /\ call' = "waking" /\ due' = SubSeq(line, 1, n)
  /\ UNCHANGED <<main, holder, line, mode>>

Raise(t) ==
  /\ holder = t /\ call = "spoilt"
  /\ call' = "none"
  /\ UNCHANGED <<main, holder, line, mode, due>>

\* The oldest that is due, at the head of the line unless it has left it.
Signal(t) ==
  /\ holder = t /\ call = "waking" /\ due # <<>>
  /\ due' = Tail(due)
  /\ IF Head(due) \in ToSet(line)
       THEN /\ Head(due) = Head(line)
            /\ line' = Tail(line)
            /\ mode' = [mode EXCEPT ![Head(line)] = IF @ = "asleep" THEN "awake" ELSE @]
       ELSE UNCHANGED <<line, mode>>
  /\ UNCHANGED <<main, holder, call>>

Done(t) ==
  /\ holder = t /\ call = "waking" /\ due = <<>>
  /\ call' = "none"
  /\ UNCHANGED <<main, holder, line, mode, due>>

GiveUp(t) ==
  /\ mode[t] = "asleep"
  /\ mode' = [mode EXCEPT ![t] = "gaveup"]
  /\ UNCHANGED <<main, holder, line, call, due>>

\* A removal that disturbs a notify() which is still counting.
Spoils(t) == call = "copying" /\ (t \in ToSet(line) \/ Len(line) > 1)

Leave(t) ==
  /\ mode[t] = "gaveup"
  /\ line' = RemoveFirst(line, t)
  /\ mode' = [mode EXCEPT ![t] = "awake"]
  /\ call' = IF Spoils(t) THEN "spoilt" ELSE call
  /\ UNCHANGED <<main, holder, due>>

\* An interrupted wait leaves its place in the line behind.
Abandon(t) ==
  /\ t = main /\ mode[t] \in {"asleep", "gaveup"}
  /\ mode' = [mode EXCEPT ![t] = "awake"]
  /\ UNCHANGED <<main, holder, line, call, due>>

\* An awake thread goes on only once it is inside the monitor again.
Reenter(t) ==
  /\ mode[t] = "awake" /\ holder = None
  /\ holder' = t
  /\ mode' = [mode EXCEPT ![t] = "run"]
  /\ UNCHANGED <<main, line, call, due>>

MonitorNext ==
  \E t \in Threads :
    \/ Enter(t) \/ Exit(t) \/ Sleep(t)
    \/ Begin(t) \/ Raise(t) \/ Signal(t) \/ Done(t)
    \/ \E n \in 1..Len(line) : Choose(t, n)
    \/ GiveUp(t) \/ Leave(t) \/ Abandon(t) \/ Reenter(t)

MonitorSpec == MonitorInit /\ [][MonitorNext]_mvars
=============================================================================
