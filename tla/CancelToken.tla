---------------------------- MODULE CancelToken ----------------------------
(***************************************************************************)
(* CancelSource and CancelToken (agentflow/core/cancel.cc): one shared     *)
(* flag, a list of callbacks under a mutex, and threads that cancel,       *)
(* register callbacks and poll the flag concurrently.  A critical section  *)
(* is one step; callbacks run outside it, one step each.                   *)
(***************************************************************************)
EXTENDS Naturals, FiniteSets

CONSTANTS Thread,    \* threads that call Cancel or OnCancel
          Callback,  \* callbacks, each registered at most once
          Waiter     \* coroutines in WaitCancelled

VARIABLES
  cancelled,   \* State::cancelled
  onCancel,    \* State::on_cancel_cbs
  toFire,      \* per thread: callbacks it took and has still to call
  registered,  \* callbacks OnCancel was called with
  runs,        \* how often each callback was called
  waiting      \* waiters whose timer loop has not seen the flag yet

vars == <<cancelled, onCancel, toFire, registered, runs, waiting>>

TypeOK ==
  /\ cancelled \in BOOLEAN
  /\ onCancel \in SUBSET Callback
  /\ toFire \in [Thread -> SUBSET Callback]
  /\ registered \in SUBSET Callback
  /\ runs \in [Callback -> Nat]
  /\ waiting \in SUBSET Waiter

Init ==
  /\ cancelled = FALSE
  /\ onCancel = {} /\ registered = {}
  /\ toFire = [t \in Thread |-> {}]
  /\ runs = [c \in Callback |-> 0]
  /\ waiting = Waiter

Idle(t) == toFire[t] = {}

\* Cancel: set the flag and take the callbacks in one critical section; only
\* the call that flips the flag takes them.
Cancel(t) ==
  /\ Idle(t)
  /\ cancelled' = TRUE
  /\ IF cancelled
     THEN UNCHANGED <<onCancel, toFire>>
     ELSE /\ toFire' = [toFire EXCEPT ![t] = onCancel]
          /\ onCancel' = {}
  /\ UNCHANGED <<registered, runs, waiting>>

OnCancel_NoRecheck(t, c) ==
  /\ Idle(t)
  /\ c \notin registered
  /\ registered' = registered \cup {c}
  /\ onCancel' = onCancel \cup {c}
  /\ UNCHANGED <<cancelled, toFire, runs, waiting>>

\* OnCancel: queue the callback, or, when already cancelled, call it on the
\* registering thread after the critical section.
OnCancel(t, c) ==
  /\ Idle(t)
  /\ c \notin registered
  /\ registered' = registered \cup {c}
  /\ IF cancelled
     THEN /\ toFire' = [toFire EXCEPT ![t] = {c}]
          /\ UNCHANGED onCancel
     ELSE /\ onCancel' = onCancel \cup {c}
          /\ UNCHANGED toFire
  /\ UNCHANGED <<cancelled, runs, waiting>>

\* Call one of the callbacks taken.
Fire(t, c) ==
  /\ c \in toFire[t]
  /\ toFire' = [toFire EXCEPT ![t] = @ \ {c}]
  /\ runs' = [runs EXCEPT ![c] = @ + 1]
  /\ UNCHANGED <<cancelled, onCancel, registered, waiting>>

\* WaitCancelled: a timer tick that finds the flag set ends the wait.
WaitCancelled(w) ==
  /\ w \in waiting /\ cancelled
  /\ waiting' = waiting \ {w}
  /\ UNCHANGED <<cancelled, onCancel, toFire, registered, runs>>

Next ==
  \/ \E t \in Thread : Cancel(t) \/ \E c \in Callback : OnCancel(t, c) \/ Fire(t, c)
  \/ \E w \in Waiter : WaitCancelled(w)

\* Threads finish the calls they are in; waiters keep polling.
Spec ==
  /\ Init /\ [][Next]_vars
  /\ \A t \in Thread : WF_vars(\E c \in Callback : Fire(t, c))
  /\ \A w \in Waiter : WF_vars(WaitCancelled(w))
-----------------------------------------------------------------------------
\* However registrations race with cancellations, a registered callback is in
\* exactly one place: queued, taken by one thread, or called once.  It is never
\* lost and never called twice; nothing stays queued once the flag is up, and
\* nothing is called before.
ExactlyOnePlace ==
  /\ \A c \in Callback :
       LET taken == \E t \in Thread : c \in toFire[t]
       IN /\ c \in registered <=> c \in onCancel \/ taken \/ runs[c] = 1
          /\ runs[c] <= 1
          /\ ~(c \in onCancel /\ taken)
          /\ runs[c] = 1 => c \notin onCancel /\ ~taken
          /\ \A t, u \in Thread : c \in toFire[t] \cap toFire[u] => t = u
  /\ cancelled => onCancel = {}
  /\ ~cancelled => \A c \in Callback : runs[c] = 0 /\ \A t \in Thread : Idle(t)
=============================================================================
